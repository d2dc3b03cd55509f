------------------------------ MODULE Adoption ------------------------------
(***************************************************************************)
(* Adoption mode (scripts/adoption/mode.mjs, checks/adoption-mode.ts): the *)
(* file `.repo-contract/adoption.json`, the clock it is read against, and  *)
(* the three ways the file changes: `init` writes one, `promote` moves     *)
(* checks into `enforce` or deletes it, and a person edits it by hand.     *)
(*                                                                         *)
(* Time is counted in days.  A file whose "expiresAt" matches              *)
(* \d{4}-\d{2}-\d{2} without being a date has dated = FALSE: Date.parse    *)
(* gives NaN for it, and no comparison with NaN is true.                   *)
(***************************************************************************)
EXTENDS Naturals

CONSTANTS
  Checks,         \* the ids of the checks the contract declares
  AdoptionCheck,  \* the check "AdoptionMode"
  Days,           \* DEFAULT_DAYS: the length of an adoption
  MaxDay,         \* bound: the last day of the model's clock
  HandWritten     \* the files a person may write in place of the current one

VARIABLES
  adoption,       \* the adoption file
  today,          \* the clock
  begun           \* history: the day the adoption in force was started

adoptionVars == <<adoption, today, begun>>

File == [kind : {"absent", "invalid", "valid"},
         dated : BOOLEAN, end : Nat, enforce : SUBSET Checks]

Absent  == [kind |-> "absent",  dated |-> FALSE, end |-> 0, enforce |-> {}]
Invalid == [kind |-> "invalid", dated |-> FALSE, end |-> 0, enforce |-> {}]

ASSUME AdoptionAssumption ==
  /\ AdoptionCheck \in Checks
  /\ Days \in Nat
  /\ MaxDay \in Nat
  /\ HandWritten \subseteq File

\* Fault: the file is written without its list of promoted checks.
newAdoption_NoEnforce(now) ==
  [kind |-> "valid", dated |-> TRUE, end |-> now + Days]

newAdoption(now) ==
  [kind |-> "valid", dated |-> TRUE, end |-> now + Days, enforce |-> {}]

\* The state readAdoption reports: the last moment of the end date is compared
\* with the present, so the mode is still active on that day.
readAdoption(file, now) ==
  IF file.kind # "valid" THEN file.kind
  ELSE IF file.dated /\ file.end < now THEN "expired" ELSE "active"

\* Fault: AdoptionMode's own failure is forgiven like any other.
advisoryFailures_OwnFailure(failing, file, now) ==
  IF readAdoption(file, now) = "active" THEN failing \ file.enforce ELSE {}

\* The failing checks that do not fail the run.
advisoryFailures(failing, file, now) ==
  IF readAdoption(file, now) = "active"
  THEN failing \ (file.enforce \cup {AdoptionCheck})
  ELSE {}

\* Fault: a state the policy does not know becomes its outcome.
adoptionOutcome_PassedOn(state) ==
  CASE state = "active"  -> "warn"
    [] state = "expired" -> "fail"
    [] OTHER             -> state

\* What the AdoptionMode policy says of each state.
adoptionOutcome(state) ==
  CASE state = "active"               -> "warn"
    [] state \in {"expired", "invalid"} -> "fail"
    [] OTHER                          -> "pass"

-----------------------------------------------------------------------------
AdoptionInit ==
  /\ adoption = Absent
  /\ today = 0
  /\ begun = 0

\* `init` starts the mode, and only when the package has no adoption file.
StartAdoption ==
  /\ adoption.kind = "absent"
  /\ adoption' = newAdoption(today)
  /\ begun' = today
  /\ UNCHANGED today

\* `promote --all`: deletes the file.  Like every promotion it is refused
\* (exit code 1, nothing written) when the mode is absent or the file invalid.
PromoteAll ==
  /\ adoption.kind = "valid"
  /\ adoption' = Absent
  /\ UNCHANGED <<today, begun>>

\* Fault: a promotion writes the file anew, dates included.
Promote_RenewsMode ==
  /\ adoption.kind = "valid"
  /\ \E ids \in (SUBSET Checks) \ {{}} :
       adoption' = [newAdoption(today) EXCEPT !.enforce = adoption.enforce \cup ids]
  /\ UNCHANGED <<today, begun>>

\* `promote <Check>...`: the named checks join `enforce`; the dates stay.
\* Naming no check or an unknown one is refused and writes nothing.
Promote ==
  /\ adoption.kind = "valid"
  /\ \E ids \in (SUBSET Checks) \ {{}} :
       adoption' = [adoption EXCEPT !.enforce = @ \cup ids]
  /\ UNCHANGED <<today, begun>>

HandEdit ==
  /\ adoption' \in HandWritten
  /\ begun' = today
  /\ UNCHANGED today

DayPasses ==
  /\ today < MaxDay
  /\ today' = today + 1
  /\ UNCHANGED <<adoption, begun>>

AdoptionNext ==
  StartAdoption \/ PromoteAll \/ Promote \/ HandEdit \/ DayPasses

AdoptionSpec == AdoptionInit /\ [][AdoptionNext]_adoptionVars

AdoptionTypeOK ==
  /\ adoption \in File
  /\ today \in 0 .. MaxDay
  /\ begun \in Nat
  /\ begun <= today

\* The mode has an end date, "so adopting cannot become permanent": an adoption
\* is never still active more than DEFAULT_DAYS after the day it was started,
\* however often checks are promoted meanwhile.
AdoptionEnds ==
  readAdoption(adoption, today) = "active" => today <= begun + Days

=============================================================================
