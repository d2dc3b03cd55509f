---------------------------- MODULE ContractGate ----------------------------
(***************************************************************************)
(* What a contract run promises whoever reads its exit code, without       *)
(* phases, counting, artifacts or clocks.  A run collects one outcome per  *)
(* check it runs and then decides once.  It passes exactly when every      *)
(* failing check is one the package has not promoted yet - a failure of    *)
(* AdoptionMode never is - and, unless adoption forgives or the run is not *)
(* strict, when nothing was left unevaluated without a recorded exception. *)
(***************************************************************************)
EXTENDS Naturals

CONSTANTS Checks, AdoptionCheck

VARIABLES
  found,      \* the outcome of each check, "none" until it has one
  decision    \* "open" until the run decides, then "pass" or "fail"

Outcome == {"pass", "warn", "not-evaluated", "unexcepted", "fail"}

Nothing == [c \in Checks |-> "none"]

With(outcome) == {c \in Checks : found[c] = outcome}

Init == found = Nothing /\ decision = "open"

\* A check of the run ends.
Find ==
  /\ decision = "open"
  /\ \E c \in Checks, o \in Outcome :
       /\ found[c] = "none"
       /\ found' = [found EXCEPT ![c] = o]
  /\ UNCHANGED decision

\* The run decides.  `adopting`: the package is adopting the standard and has
\* promoted the checks of `enforce`.
Decide ==
  /\ decision = "open"
  /\ \E adopting, strict \in BOOLEAN, enforce \in SUBSET Checks :
       LET forgiven == IF adopting THEN Checks \ (enforce \cup {AdoptionCheck})
                                   ELSE {}
       IN decision' = IF /\ With("fail") \subseteq forgiven
                         /\ strict /\ ~adopting => With("unexcepted") = {}
                      THEN "pass" ELSE "fail"
  /\ UNCHANGED found

\* The process ends, with or without having decided.
Leave == found' = Nothing /\ decision' = "open"

Next == Find \/ Decide \/ Leave

Spec == Init /\ [][Next]_<<found, decision>>

=============================================================================
