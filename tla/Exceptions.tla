----------------------------- MODULE Exceptions -----------------------------
(***************************************************************************)
(* One check with an exception registry, run again and again while people  *)
(* edit the registry and what the tool finds changes.  Its tool reports,   *)
(* the registry is loaded, reconciled with the findings and written back,  *)
(* and the records decide.  A check that only reads its registry, and one  *)
(* that could not run, judge what they load.                               *)
(*                                                                         *)
(* What the tool reports is the argument of ToolEnds; the specifications   *)
(* that use this one say where it comes from.                              *)
(***************************************************************************)
EXTENDS ExceptionPolicy

CONSTANTS
  Checks,          \* the checks of the instance
  PersonsRecords,  \* the records people write into the check's registry,
  Acceptances,     \* and into environment.json
  MaxEdits         \* check -> how often people edit something, in all

ASSUME RegistryAssumption ==
  /\ Checks \subseteq RegistryChecks
  /\ PersonsRecords \in [Checks -> SUBSET Record]
  /\ Acceptances \subseteq Record
  /\ MaxEdits \in [Checks -> Nat]

VARIABLES
  check,        \* the check that runs
  today,
  own,          \* the check's registry file
  environment,  \* .repo-contract/exceptions/environment.json
  pc,           \* where the check is
  tool,         \* what its tool reported
  read,         \* the registry as this run loaded it
  outcome,      \* of this run, or none yet
  edits         \* by people, so far

registryVars == <<check, today, own, environment, pc, tool, read, outcome, edits>>

Findings == UNION {[found -> {"critical", "high", "middle", "low", "unknown", "dev", "shipped", "any"}] : found \in SUBSET Ids}
NothingFound == [id \in {} |-> "any"]

\* kind: the outcome, where the tool's output alone decides it; "degraded" for a
\* tool that could not run for the reasons in codes, "error" for a review that
\* failed, "reviewed" for one that found what it found.
Report == [kind : {"none", "pass", "fail", "warn", "degraded", "error", "reviewed"},
           found : Findings, codes : SUBSET Ids]
Kind(kind) == [kind |-> kind, found |-> NothingFound, codes |-> {}]
Degraded(codes) == [kind |-> "degraded", found |-> NothingFound, codes |-> codes]
Reviewed(found) == [kind |-> "reviewed", found |-> found, codes |-> {}]

\* "unexcepted" and "accepted" are the two warnings a check that could not run
\* ends in; ContractRun has the same words.
Outcomes == {"none", "pass", "fail", "warn", "accepted", "unexcepted"}

RegistryTypeOK ==
  /\ check \in Checks
  /\ today \in 1 .. LastDay
  /\ {own, environment, read} \subseteq File
  /\ pc \in {"idle", "tool", "load", "write", "environment", "done"}
  /\ tool \in Report
  /\ outcome \in Outcomes
  /\ edits \in 0 .. MaxEdits[check]

Empty == FileOf({})

RegistryInit ==
  /\ check \in Checks
  /\ today = 1
  /\ own = Empty /\ environment = Empty
  /\ pc = "idle" /\ tool = Kind("none")
  /\ read = Empty
  /\ outcome = "none" /\ edits = 0

-----------------------------------------------------------------------------
(* The check.                                                              *)

Finish(o) == pc' = "done" /\ outcome' = o

\* The engine starts the check's tool.
StartCheck ==
  /\ pc = "idle" /\ pc' = "tool"
  /\ UNCHANGED <<check, today, own, environment, tool, read, outcome, edits>>

\* What no record of CodeScanning excuses, seen before its registry is.
shipped(t) == {id \in DOMAIN t.found : t.found[id] = "shipped"}

\* The tool is done and the policy looks at what it printed.
ToolEnds(t) ==
  /\ pc = "tool"
  /\ tool' = t
  /\ UNCHANGED <<check, today, own, environment, read, edits>>
  /\ IF t.kind \in {"pass", "fail", "warn"} THEN Finish(t.kind)
     ELSE IF t.kind = "degraded" /\ check # "CodeRabbit" THEN pc' = "environment" /\ UNCHANGED outcome
     ELSE IF check = "CodeScanning" /\ shipped(t) # {} THEN Finish("fail")
     ELSE IF check = "ManagedFiles" /\ t.found = NothingFound THEN Finish("pass")
     ELSE pc' = "load" /\ UNCHANGED outcome

\* The findings that the check's policy does not permit.
offenders(records, found) ==
  {id \in DOMAIN found : \A r \in records :
     r.id = id => evaluateFindingVerdict(check, found[id], r) # "permitted"}

\* What the findings come to, check by check.  A stale record fails SecuritySocket,
\* SecurityDeps and DistNoUrls,
evaluateFinalVerdict(records, found) ==
  IF offenders(records, found) = {} /\ staleRecords(records, found) = {} THEN "pass" ELSE "fail"

\* what a review says is advice,
evaluateCoderabbitPolicy(records, found) ==
  IF offenders(records, found) = {} /\ staleRecords(records, found) = {} THEN "pass" ELSE "warn"

\* and an alert that was closed leaves its record behind.
codeScanningVerdict(records, found) == IF offenders(records, found) = {} THEN "pass" ELSE "fail"

\* Of the checks that only read their registry, one has stale records.
suppressions(records, found) ==
  IF unaccepted(DOMAIN found, records, today) = {} /\ staleRecords(records, found) = {}
    THEN "pass" ELSE "fail"

managedFilesCheck(records, found) ==
  IF unaccepted(DOMAIN found, records, today) = {} THEN "pass" ELSE "fail"

verdict(records, found) ==
  CASE check = "CodeRabbit"   -> evaluateCoderabbitPolicy(records, found)
    [] check = "CodeScanning" -> codeScanningVerdict(records, found)
    [] check = "Suppressions" -> suppressions(records, found)
    [] check = "ManagedFiles" -> managedFilesCheck(records, found)
    [] OTHER                  -> evaluateFinalVerdict(records, found)

\* The registry is loaded.  One that cannot be is left as it is, and so is that
\* of a review that did not happen.
Load ==
  /\ pc = "load"
  /\ read' = own
  /\ UNCHANGED <<check, today, own, environment, tool, edits>>
  /\ IF check = "CodeRabbit" /\ tool.kind = "degraded" THEN pc' = "environment" /\ UNCHANGED outcome
     ELSE IF ~validateExceptionRegistry(check, own) THEN Finish("fail")
     ELSE IF tool.kind = "error" THEN Finish("warn")
     ELSE IF check \in Reading THEN Finish(verdict(own.records, tool.found))
     ELSE pc' = "write" /\ UNCHANGED outcome

\* What was loaded is reconciled and written back, whatever the file holds by
\* now, and the records in hand decide.
Reconcile ==
  /\ pc = "write"
  /\ LET records == reconciled(check, read.records, tool.found)
     IN own' = FileOf(records) /\ Finish(verdict(records, tool.found))
  /\ UNCHANGED <<check, today, environment, tool, read, edits>>

\* The file cannot be written: a full disk may leave half of it.
WriteFails ==
  /\ pc = "write"
  /\ own' \in {own, Unreadable}
  /\ Finish("fail")
  /\ UNCHANGED <<check, today, environment, tool, read, edits>>

\* A check that could not run asks environment.json whether that is accepted.
JudgeEnvironment ==
  /\ pc = "environment"
  /\ UNCHANGED <<check, today, own, environment, tool, read, edits>>
  /\ Finish(IF ~validateExceptionRegistry("environment", environment) THEN "fail"
            ELSE IF unaccepted(tool.codes, environment.records, today) = {} THEN "accepted"
            ELSE "unexcepted")

\* The process is killed, or its time is up: nothing is decided, and a write
\* that had begun may be half done.
KillCheck ==
  /\ pc \notin {"idle", "done"}
  /\ own' \in {own} \cup (IF pc = "write" THEN {Unreadable} ELSE {})
  /\ pc' = "idle"
  /\ tool' = Kind("none") /\ read' = Empty
  /\ UNCHANGED <<check, today, environment, outcome, edits>>

\* The verdict is reported, and the check may be run again.
Reported ==
  /\ pc = "done"
  /\ pc' = "idle" /\ tool' = Kind("none") /\ read' = Empty /\ outcome' = "none"
  /\ UNCHANGED <<check, today, own, environment, edits>>

CheckStep ==
  \/ Load \/ Reconcile \/ WriteFails \/ JudgeEnvironment

-----------------------------------------------------------------------------
(* People, and time.  While a verdict stands, so do the files and the day  *)
(* it is about.                                                            *)

\* What a person turns a file into: a record put in place of what has its id,
\* one fewer, or text that is no registry.
Edited(file, records) ==
  LET Others(r) == {s \in file.records : s.id # r.id}
  IN {FileOf(Others(r) \cup {r}) : r \in records}
       \cup {FileOf(file.records \ {r}) : r \in file.records}
       \cup {Unreadable}

\* A person edits the file that this check may come to read.
EditRegistry ==
  /\ pc # "done"
  /\ edits < MaxEdits[check] /\ edits' = edits + 1
  /\ \/ /\ check \notin Degrading
        /\ own' \in Edited(own, PersonsRecords[check]) /\ UNCHANGED environment
     \/ /\ check \in Degrading \cup {"CodeRabbit"}
        /\ environment' \in Edited(environment, Acceptances) /\ UNCHANGED own
  /\ UNCHANGED <<check, today, pc, tool, read, outcome>>

\* A day matters when something is dated.
DayPasses ==
  /\ today < LastDay /\ pc # "done"
  /\ \E r \in own.records \cup environment.records : r.expires # 0
  /\ today' = today + 1
  /\ UNCHANGED <<check, own, environment, pc, tool, read, outcome, edits>>

People == EditRegistry \/ DayPasses

=============================================================================
