---------------------------- MODULE RegistryProofs ---------------------------
(***************************************************************************)
(* Proofs about the checks with exceptions, whatever their tools find,     *)
(* whatever people write into the registries and whatever day it is.       *)
(***************************************************************************)
EXTENDS ManagedProofs, ToolProofs

-----------------------------------------------------------------------------
(* The steps, as the registry sees them.                                   *)

RegistryStep ==
  \/ StartCheck \/ \E t : ToolEnds(t)
  \/ Load \/ Reconcile \/ WriteFails \/ JudgeEnvironment
  \/ KillCheck \/ Reported \/ EditRegistry \/ DayPasses
  \/ UNCHANGED <<check, today, own, environment, pc, tool, read, outcome>>

\* Where the specification begins.
LEMMA InitIs ==
  ASSUME Init
  PROVE  RegistryInit /\ ScoreInit /\ ManagedInit /\ truth = {}
BY Zenon DEF Init

\* A tool that reports ends.
LEMMA StepsOfTools == ToolReportsStep => \E t : ToolEnds(t)
<1>1. ASSUME NEW t, NEW found, Reports(t, found) PROVE \E u : ToolEnds(u)
  BY <1>1 DEF Reports
<1>2. ToolBreaks \/ LookupReports \/ AuditReports \/ DevAuditReports => \E t : ToolEnds(t)
  BY <1>1 DEF ToolBreaks, LookupReports, AuditReports, DevAuditReports
<1>3. BuildReports \/ AlertsReport \/ ReviewReports \/ ScanReports => \E t : ToolEnds(t)
  BY <1>1 DEF BuildReports, AlertsReport, ReviewReports, ScanReports
<1>4. FilesReport \/ CommitsReport \/ ProtectionReports \/ PackReports => \E t : ToolEnds(t)
  BY <1>1 DEF FilesReport, CommitsReport, ProtectionReports, PackReports
<1>5. PagesReport => \E t : ToolEnds(t)
  BY <1>1 DEF PagesReport
<1>6. LinksReport => \E t : ToolEnds(t)
  <2> SUFFICES ASSUME LinksReport PROVE \E t : ToolEnds(t)
    OBVIOUS
  <2>1. PICK t, found : Reports(t, found)
    BY DEF LinksReport
  <2> QED BY <1>1, <2>1
<1> QED BY <1>2, <1>3, <1>4, <1>5, <1>6 DEF ToolReportsStep, ToolStep

\* Whatever the tool is, a step of the whole is one of the check, of people, of
\* the day, or of something the registry does not see.
LEMMA StepsOfRegistry == [Next]_vars => RegistryStep
<1> SUFFICES ASSUME [Next]_vars PROVE RegistryStep
  OBVIOUS
<1>1. Start => StartCheck
  BY DEF Start
<1>2. ToolReportsStep => \E t : ToolEnds(t)
  BY StepsOfTools
<1>3. Look => RegistryStep
  BY DEF Look, RegistryStep, registryVars
<1>4. Judge => RegistryStep
  BY DEF Judge, CheckStep, RegistryStep
<1>5. Over => Reported \/ KillCheck
  BY DEF Over
<1>6. PeopleAct => EditRegistry \/ DayPasses
  BY DEF PeopleAct, People
<1>7. ScoresMove \/ Work \/ PersonUndoes => RegistryStep
  BY DEF ScoresMove, Work, PersonUndoes, RegistryStep, registryVars
<1>8. Protect \/ StartCommand \/ PersonEdits => RegistryStep
  BY DEF Protect, StartCommand, PersonEdits, PersonsTurn, RegistryStep
<1>9. UNCHANGED vars => RegistryStep
  BY DEF vars, registryVars, RegistryStep
<1> QED BY <1>1, <1>2, <1>3, <1>4, <1>5, <1>6, <1>7, <1>8, <1>9 DEF Next, RegistryStep

\* Where the report of a tool leads: on, or to an outcome that no record decides.
LEMMA ReportLeads ==
  ASSUME NEW t, ToolEnds(t)
  PROVE  /\ pc = "tool" /\ tool' = t
         /\ UNCHANGED <<check, today, own, environment, read>>
         /\ \/ pc' \in {"load", "environment"}
            \/ /\ pc' = "done" /\ outcome' \in {"pass", "fail", "warn"}
               /\ outcome' = "pass" => t.kind = "pass" \/ check = "ManagedFiles"
BY DEF ToolEnds, Finish

\* What the findings come to is one of three outcomes.
LEMMA VerdictIs ==
  ASSUME NEW records, NEW found
  PROVE  verdict(records, found) \in {"pass", "fail", "warn"}
BY DEF verdict, evaluateCoderabbitPolicy, codeScanningVerdict, suppressions, managedFilesCheck,
       evaluateFinalVerdict

\* Where loading the registry leads: a registry that is written back was valid,
\* and one that is only read decides at once.
LEMMA LoadLeads ==
  ASSUME Load
  PROVE  /\ pc = "load" /\ read' = own
         /\ UNCHANGED <<check, today, own, environment, tool>>
         /\ \/ pc' = "environment"
            \/ pc' = "write" /\ own.readable
            \/ /\ pc' = "done" /\ outcome' \in {"pass", "fail", "warn"}
               /\ outcome' = "pass" => check \in Reading
BY VerdictIs DEF Load, Finish, validateExceptionRegistry

-----------------------------------------------------------------------------
(* Records.                                                                *)

\* What reconciling writes back holds every record that was read.
LEMMA ReconciledKeeps ==
  ASSUME NEW c, NEW records, NEW found
  PROVE  records \subseteq reconciled(c, records, found)
BY DEF reconciled, activeRecords, staleRecords

\* Only the two ends of the write lead from it to the end of the run.
LEMMA WriteEnds ==
  ASSUME RegistryStep, pc = "write", pc' = "done"
  PROVE  Reconcile \/ WriteFails
<1>1. ~StartCheck /\ ~JudgeEnvironment /\ ~KillCheck /\ ~Reported
  BY DEF StartCheck, JudgeEnvironment, KillCheck, Reported
<1>2. ~(\E t : ToolEnds(t))
  BY ReportLeads
<1>3. ~Load
  BY LoadLeads
<1>4. ~EditRegistry /\ ~DayPasses
  BY DEF EditRegistry, DayPasses
<1> QED BY <1>1, <1>2, <1>3, <1>4 DEF RegistryStep

\* No run drops a record it read, for every registry and all findings.
THEOREM RecordsSurviveCorrect == Spec => RecordsSurvive
<1> DEFINE Survive ==
      pc = "write" /\ pc' = "done" =>
        read.records \subseteq own'.records \/ own' = own \/ ~own'.readable
<1>1. [Next]_vars => [Survive]_vars
  <2> SUFFICES ASSUME RegistryStep, pc = "write", pc' = "done"
               PROVE  read.records \subseteq own'.records \/ own' = own \/ ~own'.readable
    BY StepsOfRegistry
  <2>1. CASE Reconcile
    BY <2>1, ReconciledKeeps DEF Reconcile, FileOf
  <2>2. CASE WriteFails
    BY <2>2 DEF WriteFails, Unreadable
  <2> QED BY <2>1, <2>2, WriteEnds
<1> QED BY <1>1, PTL DEF Spec, RecordsSurvive

-----------------------------------------------------------------------------
(* A check that could not run.                                             *)

AcceptedInv ==
  /\ today \in Nat
  /\ environment.records \subseteq Acceptances
  /\ AcceptedIsCurrent

\* A record that lacks nothing today has not expired.
LEMMA CompleteIsCurrent ==
  ASSUME NEW r \in Acceptances, today \in Nat, incompleteFields(r, today) = {}
  PROVE  r.expires = 0 \/ r.expires >= today
<1>1. r.expires \in 0 .. LastDay /\ LastDay \in Nat
  BY RegistryAssumption, ExceptionAssumption DEF Record
<1>2. ~isExpired(r, today)
  BY DEF incompleteFields
<1> QED BY <1>1, <1>2 DEF isExpired

\* People write only their own records into a file.
LEMMA EditedWithin ==
  ASSUME NEW file, NEW records, NEW all, file.records \subseteq all, records \subseteq all,
         NEW new \in Edited(file, records)
  PROVE  new.records \subseteq all
BY DEF Edited, FileOf, Unreadable

\* AcceptedInv holds at first and is kept by every step.
LEMMA AcceptedInvInit == Init => AcceptedInv
BY InitIs DEF RegistryInit, AcceptedInv, AcceptedIsCurrent, Empty, FileOf

LEMMA AcceptedInvStep == AcceptedInv /\ RegistryStep => AcceptedInv'
<1> SUFFICES ASSUME AcceptedInv, RegistryStep PROVE AcceptedInv'
  OBVIOUS
<1> USE DEF AcceptedInv, AcceptedIsCurrent
<1>1. CASE StartCheck
  BY <1>1 DEF StartCheck
<1>2. ASSUME NEW t, ToolEnds(t) PROVE AcceptedInv'
  BY <1>2, ReportLeads
<1>3. CASE Load
  BY <1>3, LoadLeads
<1>4. CASE Reconcile
  BY <1>4, VerdictIs DEF Reconcile, Finish
<1>5. CASE WriteFails
  BY <1>5 DEF WriteFails, Finish
<1>6. CASE JudgeEnvironment
  <2>1. UNCHANGED <<today, environment, tool>>
    BY <1>6 DEF JudgeEnvironment
  <2>2. CASE validateExceptionRegistry("environment", environment)
             /\ unaccepted(tool.codes, environment.records, today) = {}
    <3>1. ASSUME NEW code \in tool.codes
          PROVE  \E r \in environment.records : r.id = code /\ incompleteFields(r, today) = {}
      BY <2>2 DEF unaccepted
    <3> QED BY <2>1, <3>1, CompleteIsCurrent
  <2>3. CASE ~(validateExceptionRegistry("environment", environment)
               /\ unaccepted(tool.codes, environment.records, today) = {})
    <3>1. outcome' \in {"fail", "unexcepted"}
      BY <1>6, <2>3 DEF JudgeEnvironment, Finish
    <3> QED BY <2>1, <3>1
  <2> QED BY <2>2, <2>3
<1>7. CASE KillCheck
  BY <1>7 DEF KillCheck
<1>8. CASE Reported
  BY <1>8 DEF Reported
<1>9. CASE EditRegistry
  <2>1. environment'.records \subseteq Acceptances
    BY <1>9, EditedWithin DEF EditRegistry
  <2> QED BY <1>9, <2>1 DEF EditRegistry
<1>10. CASE DayPasses
  BY <1>10 DEF DayPasses
<1>11. CASE UNCHANGED <<check, today, own, environment, pc, tool, read, outcome>>
  BY <1>11
<1> QED BY <1>1, <1>2, <1>3, <1>4, <1>5, <1>6, <1>7, <1>8, <1>9, <1>10, <1>11 DEF RegistryStep

\* A check that could not run is accepted only by records that count today, for
\* every environment.json and every reason.
THEOREM AcceptedIsCurrentCorrect == Spec => []AcceptedIsCurrent
<1>1. AcceptedInv /\ [Next]_vars => AcceptedInv'
  BY AcceptedInvStep, StepsOfRegistry
<1>2. AcceptedInv => AcceptedIsCurrent
  BY DEF AcceptedInv
<1> QED BY <1>1, <1>2, AcceptedInvInit, PTL DEF Spec

-----------------------------------------------------------------------------
(* What SecuritySocket judges.                                             *)

\* Of some versions there is a latest one.
LEMMA LatestIsOne ==
  ASSUME NEW S \in SUBSET Versions, S # {}
  PROVE  Max(S) \in S
<1> DEFINE T == {n \in Nat : \E v \in S : n = Own - v}
<1>0. Own \in Nat /\ \A v \in S : v \in Nat /\ v <= Own
  BY ScoreAssumption DEF Versions
<1>1. T \subseteq Nat /\ T # {}
  <2>1. PICK v \in S : TRUE
    OBVIOUS
  <2>2. Own - v \in T
    BY <1>0, <2>1
  <2> QED BY <2>2
<1> HIDE DEF T
<1>2. PICK m \in T : \A n \in T : ~(<<n, m>> \in OpToRel(<, Nat))
  BY <1>1, WFMin, NatLessThanWellFounded
<1>3. \A n \in T : n >= m
  <2> SUFFICES ASSUME NEW n \in T, n < m PROVE FALSE
    BY <1>1
  <2>1. <<n, m>> \in OpToRel(<, Nat)
    BY <1>1 DEF OpToRel
  <2> QED BY <1>2, <2>1
<1>4. PICK v \in S : m = Own - v
  BY <1>2 DEF T
<1>5. \A w \in S : v >= w
  <2> SUFFICES ASSUME NEW w \in S PROVE v >= w
    OBVIOUS
  <2>1. Own - w >= m
    BY <1>0, <1>3 DEF T
  <2> QED BY <1>0, <1>4, <2>1
<1> QED BY <1>5 DEF Max

\* A lookup that has an answer has one that is no older than the cache allows.
ScoreInv ==
  /\ now \in Hours /\ socket \in Timelines
  /\ published \subseteq Versions
  /\ cache \in [Versions -> 0 .. LastHour]
  /\ at \in {"start", "latest", "score"} => target = Own
  /\ at = "rescore" => target \in Versions
  /\ at = "scored" =>
       answer.version \in Versions /\ answer.savedAt \in Hours /\ now - answer.savedAt <= CACHE_TTL

ScoreStep == StartLookup \/ LookupStep \/ EndLookup \/ ScoreWorldStep \/ UNCHANGED scoreVars

LEMMA ScoreInvInit == Init => ScoreInv
BY InitIs, ScoreAssumption DEF ScoreInit, ScoreInv, Versions, Hours

LEMMA ScoreInvStep == ScoreInv /\ ScoreStep => ScoreInv'
<1> SUFFICES ASSUME ScoreInv, ScoreStep PROVE ScoreInv'
  OBVIOUS
<1> USE ScoreAssumption DEF ScoreInv, World, emit, emitCached
<1>0. Own \in Versions
  BY DEF Versions
<1>1. CASE StartLookup
  BY <1>1 DEF StartLookup
<1>2. CASE SkipLookup
  BY <1>2 DEF SkipLookup
<1>3. CASE UseCached
  BY <1>0, <1>3 DEF UseCached, readCached, Hours
<1>4. CASE ViewExact
  BY <1>4 DEF ViewExact
<1>5. CASE ViewLatest
  <2>1. CASE published # {} /\ readCached(latest) /\ emitCached(latest)
    <3>1. latest \in Versions
      BY <2>1, LatestIsOne DEF latest
    <3> QED BY <1>5, <2>1, <3>1 DEF ViewLatest, readCached, Hours
  <2>2. CASE at' = "score" /\ UNCHANGED answer
    BY <1>5, <2>2 DEF ViewLatest
  <2> QED BY <1>5, <2>1, <2>2 DEF ViewLatest
<1>6. CASE RateLimited
  BY <1>6 DEF RateLimited
<1>7. CASE ScoreFails
  BY <1>7 DEF ScoreFails
<1>8. CASE ScoreNotFound
  BY <1>8 DEF ScoreNotFound
<1>9. CASE Scored
  <2>1. target \in Versions /\ now - now <= CACHE_TTL /\ now \in 0 .. LastHour
    BY <1>0, <1>9 DEF Scored, Hours
  <2>2. cache' \in [Versions -> 0 .. LastHour]
    BY <1>9, <2>1 DEF Scored
  <2> QED BY <1>9, <2>1, <2>2 DEF Scored
<1>10. CASE Fallback
  <2>1. published # {} => latest \in Versions
    BY LatestIsOne DEF latest
  <2> QED BY <1>10, <2>1 DEF Fallback
<1>11. CASE EndLookup
  BY <1>11 DEF EndLookup
<1>12. CASE PublishVersion
  <2>1. Cardinality(published) \in Nat
    <3>1. IsFiniteSet(Versions)
      BY FS_Interval DEF Versions
    <3> QED BY <3>1, FS_Subset, FS_CardinalityType
  <2>2. published' \subseteq Versions
    BY <1>12, <2>1 DEF PublishVersion, Versions
  <2> QED BY <1>12, <2>2 DEF PublishVersion, LookupVars
<1>13. CASE SocketScores
  BY <1>13 DEF SocketScores, LookupVars
<1>14. CASE HourPasses
  BY <1>14 DEF HourPasses, LookupVars, Hours
<1>15. CASE UNCHANGED scoreVars
  BY <1>15 DEF scoreVars
<1> QED
  BY <1>1, <1>2, <1>3, <1>4, <1>5, <1>6, <1>7, <1>8, <1>9, <1>10, <1>11, <1>12, <1>13, <1>14, <1>15
  DEF ScoreStep, LookupStep, ScoreWorldStep

\* What the check holds is what the lookup answered, and stays so until it is
\* over: no hour passes, and no other lookup begins, while it has an answer.
FreshInv ==
  /\ ScoreInv
  /\ tool.kind = "reviewed" => pc \notin {"idle", "tool"}
  /\ check = "SecuritySocket" /\ tool.kind = "reviewed" =>
       /\ at = "scored"
       /\ \A id \in DOMAIN alerts : alerts[id] # "malformed"
       /\ tool.found = [id \in DOMAIN alerts |-> normalizeAlert(alerts[id])]

LEMMA FreshInvInit == Init => FreshInv
BY InitIs, ScoreInvInit DEF RegistryInit, FreshInv, Kind

LEMMA FreshInvStep == FreshInv /\ [Next]_vars => FreshInv'
<1> SUFFICES ASSUME FreshInv, [Next]_vars PROVE FreshInv'
  OBVIOUS
<1> USE DEF FreshInv
<1>1. CASE Start
  <2>1. ScoreStep
    BY <1>1 DEF Start, ScoreStep
  <2>2. tool.kind # "reviewed" /\ tool' = tool
    BY <1>1 DEF Start, StartCheck
  <2> QED BY <2>1, <2>2, ScoreInvStep
<1>2. CASE ToolReportsStep
  <2>1. /\ UNCHANGED scoreVars
        /\ check # "SecuritySocket" \/ LookupReports
    BY <1>2
    DEF ToolReportsStep, ToolStep, ToolBreaks, LookupReports, AuditReports, DevAuditReports,
        BuildReports, AlertsReport, ReviewReports, ScanReports, FilesReport, LinksReport,
        PagesReport, CommitsReport, ProtectionReports, PackReports, Reports
  <2>2. ScoreInv'
    BY <2>1, ScoreInvStep DEF ScoreStep
  <2>3. pc' \notin {"idle", "tool"} /\ check' = check
    BY <1>2, StepsOfTools, ReportLeads
  <2>4. CASE check = "SecuritySocket"
    <3>1. tool' = interpretSocketRun(at, alerts)
      BY <2>1, <2>4, ReportLeads DEF LookupReports, Reports
    <3>2. tool'.kind = "reviewed" =>
            /\ at = "scored"
            /\ \A id \in DOMAIN alerts : alerts[id] # "malformed"
            /\ tool'.found = [id \in DOMAIN alerts |-> normalizeAlert(alerts[id])]
      BY <3>1 DEF interpretSocketRun, Kind, Reviewed
    <3>3. alerts' = alerts /\ at' = at
      BY <2>1 DEF alerts, scoreVars
    <3> QED BY <2>2, <2>3, <3>2, <3>3
  <2>5. CASE check # "SecuritySocket"
    BY <2>2, <2>3, <2>5
  <2> QED BY <2>4, <2>5
<1>3. CASE Look
  <2>1. tool.kind # "reviewed" /\ tool' = tool /\ ScoreStep
    BY <1>3 DEF Look, registryVars, ScoreStep
  <2> QED BY <2>1, ScoreInvStep
<1>4. CASE Judge
  <2>1. UNCHANGED <<check, tool, scoreVars>> /\ pc' \notin {"idle", "tool"}
    <3>1. CASE Load
      BY <1>4, <3>1, LoadLeads DEF Judge
    <3>2. CASE Reconcile \/ WriteFails \/ JudgeEnvironment
      BY <1>4, <3>2 DEF Judge, Reconcile, WriteFails, JudgeEnvironment, Finish
    <3> QED BY <1>4, <3>1, <3>2 DEF Judge, CheckStep
  <2>2. alerts' = alerts /\ at' = at
    BY <2>1 DEF alerts, scoreVars
  <2>3. ScoreInv'
    BY <2>1, ScoreInvStep DEF ScoreStep
  <2> QED BY <2>1, <2>2, <2>3
<1>5. CASE Over
  <2>1. tool'.kind = "none" /\ ScoreStep
    BY <1>5 DEF Over, Reported, KillCheck, Kind, ScoreStep
  <2> QED BY <2>1, ScoreInvStep
<1>6. CASE ScoresMove
  <2>1. UNCHANGED <<check, tool, pc, socket, at, answer>> /\ ScoreStep
    BY <1>6 DEF ScoresMove, registryVars, ScoreStep, ScoreWorldStep, PublishVersion, SocketScores,
                HourPasses, LookupVars
  <2>2. alerts' = alerts
    BY <2>1 DEF alerts
  <2> QED BY <2>1, <2>2, ScoreInvStep
<1>7. CASE PeopleAct \/ Protect \/ StartCommand \/ Work \/ PersonEdits \/ PersonUndoes \/ UNCHANGED vars
  <2>1. UNCHANGED <<check, tool, pc, scoreVars>>
    BY <1>7 DEF PeopleAct, People, EditRegistry, DayPasses, Protect, StartCommand, Work, PersonEdits,
                PersonUndoes, PersonsTurn, registryVars, vars
  <2>2. alerts' = alerts /\ at' = at
    BY <2>1 DEF alerts, scoreVars
  <2>3. ScoreInv'
    BY <2>1, ScoreInvStep DEF ScoreStep
  <2> QED BY <2>1, <2>2, <2>3
<1> QED BY <1>1, <1>2, <1>3, <1>4, <1>5, <1>6, <1>7 DEF Next

\* SecuritySocket judges what Socket said at most CACHE_TTL ago of a version
\* there is, for every time to live and whatever Socket says when.
THEOREM SocketPassIsFreshCorrect == Spec => []SocketPassIsFresh
<1>1. FreshInv => SocketPassIsFresh
  <2> SUFFICES ASSUME FreshInv, check = "SecuritySocket", tool.kind = "reviewed"
               PROVE  /\ now - answer.savedAt <= CACHE_TTL
                      /\ DOMAIN tool.found = DOMAIN alerts
                      /\ \A id \in DOMAIN tool.found : alerts[id] \in {tool.found[id], "new kind"}
    BY DEF SocketPassIsFresh, alerts
  <2>1. \A id \in DOMAIN alerts : alerts[id] \in Severities
    BY ScoreAssumption DEF FreshInv, ScoreInv, alerts
  <2> HIDE DEF alerts
  <2> QED BY <2>1 DEF FreshInv, ScoreInv, Severities, normalizeAlert
<1> QED BY <1>1, FreshInvInit, FreshInvStep, PTL DEF Spec

-----------------------------------------------------------------------------
(* What init does to the rulesets.                                         *)

\* What is completed is a ruleset with every rule there is.
Completed(rules) == [active |-> TRUE, covers |-> TRUE, readable |-> TRUE, rules |-> mergeRequiredRules(rules)]

LEMMA CompletedIs ==
  ASSUME NEW rules \in SUBSET (REQUIRED_RULE_TYPES \cup DOMAIN RuleOf)
  PROVE  Completed(rules) \in Ruleset
<1>1. \A setting \in DOMAIN RuleOf : RuleOf[setting] \in REQUIRED_RULE_TYPES
  BY DEF RuleOf, REQUIRED_RULE_TYPES
<1>2. mergeRequiredRules(rules) \in Rules
  BY <1>1 DEF Rules, mergeRequiredRules
<1> QED BY <1>2 DEF Completed, Ruleset

\* init appends a ruleset, or puts one in the place of one that it contains.
LEMMA UpsertIs ==
  ASSUME NEW seen \in Seq(Ruleset)
  PROVE  \/ upsertBranchProtection(seen) = Append(seen, Completed({}))
         \/ \E i \in DOMAIN seen : upsertBranchProtection(seen) = [seen EXCEPT ![i] = Completed(seen[i].rules)]
<1> DEFINE covering == {i \in DOMAIN seen : seen[i].covers /\ seen[i].readable}
<1>1. CASE covering = {}
  BY <1>1 DEF upsertBranchProtection, Completed
<1>2. CASE covering # {}
  <2>1. Min(covering) \in DOMAIN seen
    <3>1. covering \in SUBSET Nat /\ covering \subseteq DOMAIN seen
      OBVIOUS
    <3> HIDE DEF covering
    <3> QED BY <1>2, <3>1, LeastIsOne DEF Min
  <2>2. upsertBranchProtection(seen) = [seen EXCEPT ![Min(covering)] = Completed(seen[Min(covering)].rules)]
    BY <1>2 DEF upsertBranchProtection, Completed
  <2> QED BY <2>1, <2>2
<1> QED BY <1>1, <1>2

\* One completed ruleset is all that BranchProtection asks for.
LEMMA CompletedPasses ==
  ASSUME NEW seen \in Seq(Ruleset), NEW i \in DOMAIN seen, NEW rules, seen[i] = Completed(rules)
  PROVE  branchProtection(TRUE, seen) = Kind("pass")
<1>1. mergeRequiredRules(rules) \subseteq enforced(seen)
  BY DEF enforced, Completed, ToSet
<1>2. REQUIRED_RULE_TYPES \cup {"threads", "contract"} \subseteq mergeRequiredRules(rules)
  BY DEF mergeRequiredRules, RuleOf
<1> QED BY <1>1, <1>2 DEF branchProtection

LEMMA UpsertProtects ==
  ASSUME NEW seen \in Seq(Ruleset)
  PROVE  /\ upsertBranchProtection(seen) \in Seq(Ruleset)
         /\ branchProtection(TRUE, upsertBranchProtection(seen)) = Kind("pass")
         /\ \A i \in DOMAIN seen :
              /\ seen[i].rules \subseteq upsertBranchProtection(seen)[i].rules
              /\ seen[i].active => upsertBranchProtection(seen)[i].active
<1> DEFINE new == upsertBranchProtection(seen)
<1>1. CASE new = Append(seen, Completed({}))
  <2>1. Completed({}) \in Ruleset
    BY CompletedIs
  <2>2. /\ new \in Seq(Ruleset) /\ Len(seen) + 1 \in DOMAIN new
        /\ new[Len(seen) + 1] = Completed({})
        /\ \A i \in DOMAIN seen : new[i] = seen[i]
    BY <1>1, <2>1
  <2>3. branchProtection(TRUE, new) = Kind("pass")
    BY <2>2, CompletedPasses
  <2> HIDE DEF new
  <2>4. \A i \in DOMAIN seen : seen[i].rules \subseteq new[i].rules /\ (seen[i].active => new[i].active)
    BY <2>2
  <2> QED BY <2>2, <2>3, <2>4 DEF new
<1>2. ASSUME NEW i \in DOMAIN seen, new = [seen EXCEPT ![i] = Completed(seen[i].rules)]
      PROVE  /\ new \in Seq(Ruleset)
             /\ branchProtection(TRUE, new) = Kind("pass")
             /\ \A j \in DOMAIN seen : /\ seen[j].rules \subseteq new[j].rules
                                       /\ seen[j].active => new[j].active
  <2>1. seen[i] \in Ruleset
    OBVIOUS
  <2>2. Completed(seen[i].rules) \in Ruleset
    BY <2>1, CompletedIs DEF Ruleset, Rules
  <2>3. new \in Seq(Ruleset) /\ i \in DOMAIN new /\ new[i] = Completed(seen[i].rules)
    BY <1>2, <2>2
  <2>4. seen[i].rules \subseteq new[i].rules /\ new[i].active
    BY <2>3 DEF Completed, mergeRequiredRules
  <2>5. \A j \in DOMAIN seen : j # i => new[j] = seen[j]
    BY <1>2
  <2>6. branchProtection(TRUE, new) = Kind("pass")
    BY <2>3, CompletedPasses
  <2> HIDE DEF new
  <2>7. \A j \in DOMAIN seen : seen[j].rules \subseteq new[j].rules /\ (seen[j].active => new[j].active)
    BY <2>4, <2>5
  <2> QED BY <2>3, <2>6, <2>7
<1> QED BY <1>1, <1>2, UpsertIs

LEMMA RulesetsInit == Init => RulesetsTypeOK
<1>1. <<>> \in Seq(Ruleset)
  OBVIOUS
<1> QED BY <1>1, RulesetsAssumption DEF Init, RulesetsTypeOK

\* Only init, and someone who undoes what it did, touch the rulesets.
LEMMA StepsOfRulesets == [Next]_vars => InitRuns \/ RulesetDisabled \/ UNCHANGED githubVars
<1>1. ToolReportsStep => UNCHANGED githubVars
  BY DEF ToolReportsStep, ToolStep, ToolBreaks, LookupReports, AuditReports, DevAuditReports,
         BuildReports, AlertsReport, ReviewReports, ScanReports, FilesReport, LinksReport,
         PagesReport, CommitsReport, ProtectionReports, PackReports, Reports
<1> QED BY <1>1 DEF Next, vars, Start, Look, Judge, Over, PeopleAct, ScoresMove, Protect, StartCommand,
                    Work, PersonEdits, PersonUndoes

LEMMA RulesetsStep == RulesetsTypeOK /\ [Next]_vars => RulesetsTypeOK'
<1> SUFFICES ASSUME RulesetsTypeOK, [Next]_vars PROVE RulesetsTypeOK'
  OBVIOUS
<1>1. CASE InitRuns
  BY <1>1, UpsertProtects DEF InitRuns, RulesetsTypeOK
<1>2. CASE RulesetDisabled
  <2>1. PICK i \in DOMAIN rulesets : rulesets' = [rulesets EXCEPT ![i].active = FALSE]
    BY <1>2 DEF RulesetDisabled
  <2>0. rulesets \in Seq(Ruleset)
    BY DEF RulesetsTypeOK
  <2>2. rulesets[i] \in Ruleset
    BY <2>0, <2>1
  <2>3. [rulesets[i] EXCEPT !.active = FALSE] \in Ruleset
    BY <2>2 DEF Ruleset
  <2>4. rulesets' \in Seq(Ruleset)
    BY <2>0, <2>1, <2>2, <2>3
  <2>5. said' = ""
    BY <1>2 DEF RulesetDisabled
  <2> QED BY <2>4, <2>5 DEF RulesetsTypeOK
<1>3. CASE UNCHANGED githubVars
  BY <1>3 DEF githubVars, RulesetsTypeOK
<1> QED BY <1>1, <1>2, <1>3, StepsOfRulesets

\* When init says that the branch is protected BranchProtection passes, and whatever
\* it says it loosens nothing, for every list of rulesets.
THEOREM InitProtectsCorrect == Spec => InitProtects
<1> DEFINE Protects ==
      said' # "" =>
        /\ said' # "skipped" => branchProtection(TRUE, rulesets') = Kind("pass")
        /\ \A i \in DOMAIN rulesets : /\ rulesets[i].rules \subseteq rulesets'[i].rules
                                       /\ rulesets[i].active => rulesets'[i].active
<1>1. RulesetsTypeOK /\ [Next]_vars => [Protects]_githubVars
  <2> SUFFICES ASSUME RulesetsTypeOK, InitRuns \/ RulesetDisabled PROVE Protects
    BY StepsOfRulesets
  <2>1. CASE InitRuns
    BY <2>1, UpsertProtects DEF RulesetsTypeOK, InitRuns
  <2>2. CASE RulesetDisabled
    BY <2>2 DEF RulesetDisabled
  <2> QED BY <2>1, <2>2
<1> QED BY <1>1, RulesetsInit, RulesetsStep, PTL DEF Spec, InitProtects

-----------------------------------------------------------------------------
(* Types, and what the reports say.                                        *)

\* The steps that a run's report and its verdict see.
LEMMA StepsOfRuns ==
  ASSUME [Next]_vars
  PROVE  \/ Start \/ ToolReportsStep \/ Judge \/ Over \/ PeopleAct
         \/ UNCHANGED <<check, today, own, environment, pc, tool, read, outcome, truth>>
<1>1. Look \/ ScoresMove \/ Work \/ PersonUndoes =>
        UNCHANGED <<check, today, own, environment, pc, tool, read, outcome, truth>>
  BY DEF Look, ScoresMove, Work, PersonUndoes, registryVars
<1>2. Protect \/ StartCommand \/ PersonEdits =>
        UNCHANGED <<check, today, own, environment, pc, tool, read, outcome, truth>>
  BY DEF Protect, StartCommand, PersonEdits, PersonsTurn
<1>3. UNCHANGED vars => UNCHANGED <<check, today, own, environment, pc, tool, read, outcome, truth>>
  BY DEF vars, registryVars
<1> QED BY <1>1, <1>2, <1>3 DEF Next

LEMMA ReportsAreHonest ==
  ASSUME ToolReportsStep, ScoreInv, ManagedTypeOK, check \in Checks
  PROVE  Honest(tool', truth')
<1>0. ASSUME NEW t, NEW found, Reports(t, found), Honest(t, found) PROVE Honest(tool', truth')
  BY <1>0, ReportLeads DEF Reports
<1>1. CASE ToolBreaks
  <2>1. Honest(abnormalTermination, {})
    BY KindIsHonest DEF abnormalTermination
  <2> QED BY <1>0, <1>1, <2>1 DEF ToolBreaks
<1>2. CASE LookupReports
  <2>1. at = "scored" => DOMAIN alerts \subseteq Ids
    BY <1>2, RunsAssumption DEF LookupReports, ScoreInv, alerts
  <2> QED BY <1>0, <1>2, <2>1, LookupIsHonest DEF LookupReports
<1>3. CASE AuditReports
  BY <1>0, <1>3, AuditIsHonest DEF AuditReports
<1>4. CASE DevAuditReports
  BY <1>0, <1>4, DevAuditIsHonest DEF DevAuditReports
<1>5. CASE BuildReports
  <2>1. \A findings \in UNION {[1 .. n -> Findable] : n \in 0 .. 3} : Range(findings) \subseteq Findable
    BY DEF Range
  <2> QED BY <1>0, <1>5, <2>1, BuildIsHonest DEF BuildReports
<1>6. CASE AlertsReport
  BY <1>0, <1>6, AlertsAreHonest DEF AlertsReport
<1>7. CASE ReviewReports
  BY <1>0, <1>7, ReviewIsHonest DEF ReviewReports
<1>8. CASE ScanReports
  BY <1>0, <1>8, ScanIsHonest DEF ScanReports
<1>9. CASE FilesReport
  <2>1. PICK private \in BOOLEAN :
          Reports(managedFiles(private, notCurrent), IF private THEN {} ELSE notCurrent)
    BY <1>9 DEF FilesReport
  <2>2. check = "ManagedFiles"
    BY <1>9 DEF FilesReport
  <2> QED BY <1>0, <2>1, <2>2, FilesAreHonest
<1>10. CASE LinksReport
  <2>1. PICK crawled \in BOOLEAN, links \in [Findable -> Crawled] :
          Reports(docsLinks(crawled, {LinkTo(u, links[u]) : u \in Findable}),
                  {u \in Findable : links[u].status = "gone" /\ ~links[u].onDisk})
    BY <1>10 DEF LinksReport
  <2> QED BY <1>0, <2>1, LinksAreHonest
<1>11. CASE PagesReport
  <2> DEFINE Found(pages) == Wrong(\E i \in UNION pages : i.type # "notice" /\ ~i.undecided)
  <2>1. PICK chrome \in BOOLEAN, opened \in BOOLEAN, pages \in Crawls :
          Reports(accessibility(chrome, pages, opened), Found(pages))
    BY <1>11 DEF PagesReport
  <2>2. Honest(accessibility(chrome, pages, opened), Found(pages))
    BY PagesAreHonest
  <2> HIDE DEF Found
  <2> QED BY <1>0, <2>1, <2>2
<1>12. CASE CommitsReport
  BY <1>0, <1>12, CommitsAreHonest DEF CommitsReport
<1>13. CASE ProtectionReports
  <2> DEFINE wrong == ~(REQUIRED_RULE_TYPES \subseteq
                           UNION {r.rules : r \in {x \in ToSet(rulesets) : x.active /\ x.covers}})
  <2>1. PICK asked \in BOOLEAN : Reports(branchProtection(asked, rulesets), Wrong(wrong))
    BY <1>13 DEF ProtectionReports
  <2>2. Honest(branchProtection(asked, rulesets), Wrong(wrong))
    BY ProtectionIsHonest
  <2> HIDE DEF wrong
  <2> QED BY <1>0, <2>1, <2>2
<1>14. CASE PackReports
  BY <1>0, <1>14, PackIsHonest DEF PackReports
<1> QED
  BY <1>1, <1>2, <1>3, <1>4, <1>5, <1>6, <1>7, <1>8, <1>9, <1>10, <1>11, <1>12, <1>13, <1>14
  DEF ToolReportsStep, ToolStep

\* What the check holds is no report, or an honest one of what there was to find.
ToolInv == check \in Checks /\ ((tool = Kind("none") /\ truth = {}) \/ Honest(tool, truth))

LEMMA ToolInvInit == Init => ToolInv
BY InitIs DEF RegistryInit, ToolInv

LEMMA ToolInvStep == ToolInv /\ ScoreInv /\ ManagedTypeOK /\ [Next]_vars => ToolInv'
<1> SUFFICES ASSUME ToolInv, ScoreInv, ManagedTypeOK, [Next]_vars PROVE ToolInv'
  OBVIOUS
<1>1. CASE ToolReportsStep
  <2>1. Honest(tool', truth') /\ check' = check
    BY <1>1, ReportsAreHonest, StepsOfTools, ReportLeads DEF ToolInv
  <2> QED BY <2>1 DEF ToolInv, Honest, Categories
<1>2. CASE Over
  BY <1>2 DEF Over, Reported, KillCheck, ToolInv
<1>3. CASE Start \/ Judge \/ PeopleAct
         \/ UNCHANGED <<check, today, own, environment, pc, tool, read, outcome, truth>>
  <2>1. UNCHANGED <<check, tool, truth>>
    BY <1>3 DEF Start, StartCheck, Judge, CheckStep, Load, Reconcile, WriteFails, JudgeEnvironment,
                PeopleAct, People, EditRegistry, DayPasses
  <2> QED BY <2>1 DEF ToolInv, Honest, Categories
<1> QED BY <1>1, <1>2, <1>3, StepsOfRuns

LEMMA ToolInvHolds == Spec => []ToolInv
<1>1. FreshInv /\ [Next]_vars => FreshInv'
  BY FreshInvStep
<1>2. FreshInv => ScoreInv
  BY DEF FreshInv
<1>3. ManagedInv => ManagedTypeOK
  BY DEF ManagedInv
<1> QED BY <1>1, <1>2, <1>3, FreshInvInit, ManagedInvHolds, ToolInvInit, ToolInvStep, PTL DEF Spec

\* No report that is judged leaves out what there was to find, for every stream of
\* events, every course of GitHub's list and every source file.
THEOREM ReportIsWholeCorrect == Spec => []ReportIsWhole
<1>1. ToolInv => ReportIsWhole
  BY DEF ToolInv, Honest, ReportIsWhole, Kind
<1> QED BY <1>1, ToolInvHolds, PTL

-----------------------------------------------------------------------------
(* The types.                                                              *)

LEMMA ScoreTypeStep == ScoreTypeOK /\ ScoreInv /\ ScoreStep => ScoreTypeOK'
<1> SUFFICES ASSUME ScoreTypeOK, ScoreInv, ScoreStep PROVE ScoreTypeOK'
  OBVIOUS
<1>0. ScoreInv'
  BY ScoreInvStep
<1>1. /\ now' \in Hours /\ socket' \in Timelines /\ published' \subseteq Versions
      /\ cache' \in [Versions -> 0 .. LastHour]
  BY <1>0 DEF ScoreInv
<1>2. Own \in Versions /\ Versions \subseteq 0 .. Own /\ 0 \in 0 .. Own /\ Hours \subseteq 0 .. LastHour
  BY ScoreAssumption DEF Versions, Hours
<1>3. target \in 0 .. Own /\ tries \in 0 .. RATE_LIMIT_RETRIES /\ scored \subseteq published
      /\ answer \in [version : 0 .. Own, savedAt : 0 .. LastHour] /\ now \in Hours
  BY DEF ScoreTypeOK
<1>4. scored' \subseteq published' /\ tries' \in 0 .. RATE_LIMIT_RETRIES
  BY <1>3, ScoreAssumption
  DEF ScoreStep, StartLookup, LookupStep, SkipLookup, UseCached, ViewExact, ViewLatest, RateLimited,
      ScoreFails, ScoreNotFound, Scored, Fallback, EndLookup, ScoreWorldStep, PublishVersion, SocketScores,
      HourPasses, World, LookupVars, scoreVars
<1>5. at' \in {"idle", "start", "latest", "score", "fallback", "rescore"} \cup Ended
  BY DEF ScoreTypeOK, Ended, emit, emitCached, ScoreStep, StartLookup, LookupStep, SkipLookup, UseCached,
      ViewExact, ViewLatest, RateLimited, ScoreFails, ScoreNotFound, Scored, Fallback, EndLookup,
      ScoreWorldStep, PublishVersion, SocketScores, HourPasses, World, LookupVars, scoreVars
<1>6. target' \in 0 .. Own
  <2>1. published # {} => latest \in Versions
    BY LatestIsOne DEF latest, ScoreInv
  <2> QED
    BY <1>2, <1>3, <2>1
    DEF ScoreStep, StartLookup, LookupStep, SkipLookup, UseCached, ViewExact, ViewLatest, RateLimited,
        ScoreFails, ScoreNotFound, Scored, Fallback, EndLookup, ScoreWorldStep, PublishVersion,
        SocketScores, HourPasses, World, LookupVars, scoreVars
<1>7. answer' \in [version : 0 .. Own, savedAt : 0 .. LastHour]
  <2>1. NoAnswer \in [version : 0 .. Own, savedAt : 0 .. LastHour]
    BY <1>2, ScoreAssumption DEF NoAnswer
  <2>2. \A v \in Versions : [version |-> v, savedAt |-> cache[v]] \in [version : 0 .. Own, savedAt : 0 .. LastHour]
    BY <1>2 DEF ScoreTypeOK
  <2>3. [version |-> target, savedAt |-> now] \in [version : 0 .. Own, savedAt : 0 .. LastHour]
    BY <1>2, <1>3
  <2>4. published # {} => latest \in Versions
    BY LatestIsOne DEF latest, ScoreInv
  <2> QED
    BY <1>2, <1>3, <2>1, <2>2, <2>3, <2>4
    DEF emit, emitCached, ScoreStep, StartLookup, LookupStep, SkipLookup, UseCached, ViewExact, ViewLatest,
        RateLimited, ScoreFails, ScoreNotFound, Scored, Fallback, EndLookup, ScoreWorldStep, PublishVersion,
        SocketScores, HourPasses, World, LookupVars, scoreVars
<1> QED BY <1>1, <1>4, <1>5, <1>6, <1>7 DEF ScoreTypeOK

LEMMA ScoreTypeInit == Init => ScoreTypeOK
BY InitIs, ScoreAssumption DEF ScoreInit, ScoreTypeOK, Hours, Versions, NoAnswer

\* A step of the whole, as the lookup sees it.
LEMMA StepsOfScore == [Next]_vars => ScoreStep
<1>1. ToolReportsStep => UNCHANGED scoreVars
  BY DEF ToolReportsStep, ToolStep, ToolBreaks, LookupReports, AuditReports, DevAuditReports,
         BuildReports, AlertsReport, ReviewReports, ScanReports, FilesReport, LinksReport,
         PagesReport, CommitsReport, ProtectionReports, PackReports, Reports
<1>2. Start \/ Look \/ Over \/ ScoresMove => ScoreStep
  BY DEF Start, Look, Over, ScoresMove, ScoreStep
<1>3. Judge \/ PeopleAct \/ Protect \/ StartCommand \/ Work \/ PersonEdits \/ PersonUndoes
        => UNCHANGED scoreVars
  BY DEF Judge, PeopleAct, Protect, StartCommand, Work, PersonEdits, PersonUndoes, PersonsTurn
<1> QED BY <1>1, <1>2, <1>3 DEF Next, vars, ScoreStep

\* Each step makes one more of the edits, or none.
LEMMA StepsOfEdits ==
  ASSUME [Next]_vars
  PROVE  \/ edits' = edits /\ check' = check
         \/ edits < MaxEdits[check] /\ edits' = edits + 1 /\ check' = check
<1>1. ToolReportsStep => \E t : ToolEnds(t)
  BY StepsOfTools
<1>2. (\E t : ToolEnds(t)) => edits' = edits /\ check' = check
  BY DEF ToolEnds
<1>3. Start \/ Judge \/ Over => edits' = edits /\ check' = check
  BY DEF Start, StartCheck, Judge, CheckStep, Load, Reconcile, WriteFails, JudgeEnvironment, Over,
         Reported, KillCheck
<1>4. PeopleAct => \/ edits' = edits /\ check' = check
                   \/ edits < MaxEdits[check] /\ edits' = edits + 1 /\ check' = check
  BY DEF PeopleAct, People, EditRegistry, DayPasses
<1>5. Look \/ ScoresMove \/ Work \/ PersonUndoes => edits' = edits /\ check' = check
  BY DEF Look, ScoresMove, Work, PersonUndoes, registryVars
<1>6. Protect \/ StartCommand \/ PersonEdits =>
        edits < MaxEdits[check] /\ edits' = edits + 1 /\ check' = check
  BY DEF Protect, StartCommand, PersonEdits, PersonsTurn
<1>7. UNCHANGED vars => edits' = edits /\ check' = check
  BY DEF vars, registryVars
<1> QED BY <1>1, <1>2, <1>3, <1>4, <1>5, <1>6, <1>7 DEF Next

LEMMA FilesAreTyped ==
  /\ \A records \in SUBSET Record : FileOf(records) \in File
  /\ Unreadable \in File /\ Empty \in File
  /\ \A f \in File : f.records \in SUBSET Record /\ f.readable \in BOOLEAN
BY DEF File, FileOf, Unreadable, Empty

LEMMA StubIsRecord ==
  ASSUME NEW c, NEW id \in Ids
  PROVE  createStub(c, id) \in Record
<1>1. 0 \in 0 .. LastDay
  BY ExceptionAssumption
<1> QED BY <1>1 DEF createStub, Record, TextFields, Methods, Types

LEMMA EditedIsTyped ==
  ASSUME NEW file \in File, NEW records \in SUBSET Record, NEW new \in Edited(file, records)
  PROVE  new \in File
<1>1. new.records \subseteq Record
  BY FilesAreTyped, EditedWithin
<1>2. new = Unreadable \/ \E held : new = FileOf(held)
  BY DEF Edited
<1> QED BY <1>1, <1>2, FilesAreTyped DEF FileOf

LEMMA FoundAreIds ==
  ASSUME NEW t \in Report
  PROVE  DOMAIN t.found \subseteq Ids
BY DEF Report, Findings

\* The registries and where the check is, but for the edits and the report.
FilesTypeOK ==
  /\ today \in 1 .. LastDay
  /\ own \in File /\ environment \in File /\ read \in File
  /\ pc \in {"idle", "tool", "load", "write", "environment", "done"}
  /\ outcome \in Outcomes

LEMMA FilesTypeStep ==
  ASSUME FilesTypeOK, tool \in Report, check \in Checks, RegistryStep
  PROVE  FilesTypeOK'
<1> USE FilesAreTyped DEF FilesTypeOK, Outcomes
<1>1. CASE StartCheck
  BY <1>1 DEF StartCheck
<1>2. ASSUME NEW t, ToolEnds(t) PROVE FilesTypeOK'
  <2>1. (outcome' = outcome \/ outcome' \in {"pass", "fail", "warn"}) /\ pc' \in {"load", "environment", "done"}
    BY <1>2 DEF ToolEnds, Finish
  <2> QED BY <1>2, <2>1, ReportLeads
<1>3. CASE Load
  <2>1. (outcome' = outcome \/ outcome' \in {"pass", "fail", "warn"}) /\ pc' \in {"write", "environment", "done"}
    BY <1>3, VerdictIs DEF Load, Finish
  <2> QED BY <1>3, <2>1, LoadLeads
<1>4. CASE Reconcile
  <2> DEFINE records == reconciled(check, read.records, tool.found)
  <2>1. records \in SUBSET Record
    BY StubIsRecord, FoundAreIds DEF reconciled, activeRecords, staleRecords
  <2>2. own' = FileOf(records) /\ pc' = "done" /\ outcome' \in {"pass", "fail", "warn"}
    BY <1>4, VerdictIs DEF Reconcile, Finish
  <2> HIDE DEF records
  <2> QED BY <1>4, <2>1, <2>2 DEF Reconcile
<1>5. CASE WriteFails
  BY <1>5 DEF WriteFails, Finish
<1>6. CASE JudgeEnvironment
  BY <1>6 DEF JudgeEnvironment, Finish
<1>7. CASE KillCheck
  BY <1>7 DEF KillCheck
<1>8. CASE Reported
  BY <1>8 DEF Reported
<1>9. CASE EditRegistry
  <2>1. PersonsRecords[check] \in SUBSET Record /\ Acceptances \in SUBSET Record
    BY RegistryAssumption
  <2> QED BY <1>9, <2>1, EditedIsTyped DEF EditRegistry
<1>10. CASE DayPasses
  BY <1>10, ExceptionAssumption DEF DayPasses
<1>11. CASE UNCHANGED <<check, today, own, environment, pc, tool, read, outcome>>
  BY <1>11
<1> QED BY <1>1, <1>2, <1>3, <1>4, <1>5, <1>6, <1>7, <1>8, <1>9, <1>10, <1>11 DEF RegistryStep

TypeInv == FilesTypeOK /\ ScoreTypeOK /\ edits \in 0 .. MaxEdits[check]

LEMMA ToolIsReport == ToolInv => tool \in Report /\ truth \subseteq Ids
BY NothingIsFound DEF ToolInv, Honest, Kind, Report

LEMMA TypeInvInit == Init => TypeInv
<1>1. Init => FilesTypeOK /\ edits \in 0 .. MaxEdits[check]
  BY InitIs, FilesAreTyped, ExceptionAssumption, RegistryAssumption DEF RegistryInit, FilesTypeOK, Outcomes
<1> QED BY <1>1, ScoreTypeInit DEF TypeInv

LEMMA TypeInvStep == TypeInv /\ ToolInv /\ ScoreInv /\ [Next]_vars => TypeInv'
<1> SUFFICES ASSUME TypeInv, ToolInv, ScoreInv, [Next]_vars PROVE TypeInv'
  OBVIOUS
<1>1. FilesTypeOK'
  BY StepsOfRegistry, FilesTypeStep, ToolIsReport DEF TypeInv, ToolInv
<1>2. ScoreTypeOK'
  BY StepsOfScore, ScoreTypeStep DEF TypeInv
<1>3. edits' \in 0 .. MaxEdits[check']
  <2>1. MaxEdits[check] \in Nat
    BY RegistryAssumption DEF ToolInv
  <2> QED BY <2>1, StepsOfEdits DEF TypeInv
<1> QED BY <1>1, <1>2, <1>3 DEF TypeInv

\* Every variable keeps its type, for every registry and all that tools report.
THEOREM TypeCorrect == Spec => []TypeOK
<1>1. FreshInv /\ [Next]_vars => FreshInv'
  BY FreshInvStep
<1>2. FreshInv => ScoreInv
  BY DEF FreshInv
<1>3. TypeInv /\ ToolInv /\ ManagedInv /\ RulesetsTypeOK => TypeOK
  BY ToolIsReport DEF TypeInv, FilesTypeOK, ToolInv, ManagedInv, TypeOK, RegistryTypeOK
<1> QED
  BY <1>1, <1>2, <1>3, FreshInvInit, TypeInvInit, TypeInvStep, ToolInvHolds, ManagedInvHolds,
     RulesetsInit, RulesetsStep, PTL DEF Spec

-----------------------------------------------------------------------------
(* What a pass owes.                                                       *)

\* The records a registry may hold: people's, and what the check itself writes.
Stubs == {createStub(check, id) : id \in Ids}
Held == PersonsRecords[check] \cup Stubs

\* A record without a text accepts nothing, nor does a stub of another check's.
LEMMA StubIs ==
  ASSUME NEW r \in Stubs
  PROVE  r.about = r.id /\ (check # "CodeScanning" => r.texts = {})
<1>1. PICK id \in Ids : r = createStub(check, id)
  BY DEF Stubs
<1> QED BY <1>1 DEF createStub

\* What a valid registry that is only read accepts, a person has accounted for.
LEMMA ReadingAccounts ==
  ASSUME check \in Reading, validateExceptionRegistry(check, own), own.records \subseteq Held,
         NEW found, verdict(own.records, found) = "pass", NEW id \in DOMAIN found
  PROVE  \E r \in own.records : Accounts(r, id)
<1>1. unaccepted(DOMAIN found, own.records, today) = {}
  BY DEF verdict, suppressions, managedFilesCheck, Reading
<1>2. PICK r \in own.records : r.id = id /\ incompleteFields(r, today) = {}
  BY <1>1 DEF unaccepted
<1>3. {"justification", "structured"} \subseteq r.texts
  BY <1>2 DEF incompleteFields
<1>4. check \in {"Suppressions", "ManagedFiles"}
  BY DEF Reading
<1>5. r.about = r.id
  BY <1>4 DEF validateExceptionRegistry, validateRecord, SUPPRESSION_EXCEPTION_SCHEMA, MANAGED_FILE_SCHEMA,
              Plain, Identified
<1>6. r \in PersonsRecords[check]
  BY <1>3, <1>4, StubIs DEF Held
<1>7. check \notin Reconciling
  BY <1>4 DEF Reconciling
<1>8. Accounts(r, id)
  BY <1>2, <1>3, <1>5, <1>6, <1>7 DEF Accounts
<1> QED BY <1>8

\* A record of a registry that is rewritten names what it is about.
LEMMA RecordIsIdentified ==
  ASSUME check \in Reconciling, NEW r, validateRecord(check, r)
  PROVE  r.about = r.id
BY DEF Reconciling, validateRecord, SOCKET_EXCEPTION_SCHEMA, SECURITY_DEPS_EXCEPTION_SCHEMA,
       CODE_SCANNING_SCHEMA, DIST_URL_SCHEMA, CODERABBIT_EXCEPTION_SCHEMA, Identified

\* What the policies ask of every record, and what they forbid.
LEMMA PoliciesAre ==
  ASSUME check \in Reconciling
  PROVE  /\ AllFields \ {"alternatives"} \subseteq policyOf(check).requires
         /\ check # "CodeRabbit" => "alternatives" \in policyOf(check).requires
         /\ \A category \in Categories \ policyOf(check).forbids : ~Inexcusable(category)
BY DEF Reconciling, policyOf, AllFields, SOCKET_POLICY, SECURITY_DEPS_POLICY, CODE_SCANNING_POLICY,
       DIST_URL_POLICY, CODERABBIT_POLICY, Categories, Inexcusable

\* What the policy permits by a record that is written back is accounted for.
LEMMA ReconciledAccounts ==
  ASSUME check \in Reconciling, validateExceptionRegistry(check, read), read.records \subseteq Held,
         NEW found, DOMAIN found \subseteq Ids,
         verdict(reconciled(check, read.records, found), found) = "pass",
         NEW id \in DOMAIN found, found[id] \in Categories
  PROVE  /\ \E r \in reconciled(check, read.records, found) : Accounts(r, id)
         /\ ~Inexcusable(found[id])
<1> DEFINE records == reconciled(check, read.records, found)
<1>1. offenders(records, found) = {}
  BY DEF verdict, evaluateCoderabbitPolicy, codeScanningVerdict, evaluateFinalVerdict, Reconciling
<1>2. \A r \in records : r \in read.records \/ r \in Stubs
  BY DEF reconciled, activeRecords, staleRecords, Stubs
<1> HIDE DEF records
<1>3. PICK r \in records : r.id = id /\ evaluateFindingVerdict(check, found[id], r) = "permitted"
  BY <1>1 DEF offenders
<1>4. found[id] \notin policyOf(check).forbids /\ \A f \in policyOf(check).requires : recordFieldValue(r, f)
  BY <1>3 DEF evaluateFindingVerdict
<1>5. r.about = r.id
  <2>1. CASE r \in read.records
    BY <2>1, RecordIsIdentified DEF validateExceptionRegistry
  <2>2. CASE r \in Stubs
    BY <2>2, StubIs
  <2> QED BY <1>2, <2>1, <2>2
<1>6. /\ "justification" \in r.texts /\ "remediation" \in r.texts
      /\ r.version = 1 \/ "structured" \in r.texts
      /\ r.method # "" /\ r.exceptionType # ""
  <2>1. /\ recordFieldValue(r, "justification") /\ recordFieldValue(r, "remediation")
        /\ recordFieldValue(r, "structured") /\ recordFieldValue(r, "method")
        /\ recordFieldValue(r, "exceptionType")
    BY <1>4, PoliciesAre DEF AllFields
  <2> QED BY <2>1 DEF recordFieldValue, isLegacyRecord
<1>7. check # "CodeRabbit" => "alternatives" \in r.texts
  <2>1. check # "CodeRabbit" => recordFieldValue(r, "alternatives")
    BY <1>4, PoliciesAre
  <2> QED BY <2>1 DEF recordFieldValue
<1>8. check # "CodeScanning" => r \in PersonsRecords[check]
  BY <1>2, <1>6, StubIs DEF Held
<1>9. Accounts(r, id)
  BY <1>3, <1>5, <1>6, <1>7, <1>8 DEF Accounts
<1>10. ~Inexcusable(found[id])
  BY <1>4, PoliciesAre
<1> QED BY <1>9, <1>10 DEF records

\* What is loaded is judged only after it was found valid, on a report that says
\* what was found; and no registry holds anything else than such records.
PassInv ==
  /\ own.records \subseteq Held /\ read.records \subseteq Held
  /\ pc = "load" => tool.kind \in {"reviewed", "error"} \/ (check = "CodeRabbit" /\ tool.kind = "degraded")
  /\ pc = "write" => tool.kind = "reviewed" /\ check \notin Reading /\ validateExceptionRegistry(check, read)
  /\ PassIsExcused

LEMMA PassInvInit == Init => PassInv
BY InitIs DEF RegistryInit, PassInv, PassIsExcused, Empty, FileOf

\* While the check, its file and the report stay as they are, so does what a pass
\* owes.
LEMMA OwesTheSame ==
  ASSUME PassInv, UNCHANGED <<check, own, tool, truth>>,
         pc' = "done" /\ outcome' = "pass" => pc = "done" /\ outcome = "pass"
  PROVE  PassIsExcused' /\ own'.records \subseteq Held'
<1>1. Held' = Held
  BY DEF Held, Stubs
<1>2. ASSUME NEW r, NEW id PROVE Accounts(r, id)' <=> Accounts(r, id)
  BY DEF Accounts
<1>3. ASSUME NEW category PROVE Inexcusable(category)' <=> Inexcusable(category)
  BY DEF Inexcusable
<1>4. PassIsExcused'
  <2> SUFFICES ASSUME pc' = "done", outcome' = "pass", NEW id \in truth
               PROVE  (\E r \in own.records : Accounts(r, id)') /\ ~Inexcusable(tool.found[id])'
    BY DEF PassIsExcused
  <2>1. (\E r \in own.records : Accounts(r, id)) /\ ~Inexcusable(tool.found[id])
    BY DEF PassInv, PassIsExcused
  <2> QED BY <1>2, <1>3, <2>1
<1> QED BY <1>1, <1>4 DEF PassInv

LEMMA PassInvStep == PassInv /\ ToolInv /\ ScoreInv /\ ManagedTypeOK /\ [Next]_vars => PassInv'
<1> SUFFICES ASSUME PassInv, ToolInv, ScoreInv, ManagedTypeOK, [Next]_vars PROVE PassInv'
  OBVIOUS
<1> USE DEF PassInv
<1>0. ASSUME check' = check PROVE Held' = Held
  BY <1>0 DEF Held, Stubs
<1>1. CASE Start
  BY <1>0, <1>1, OwesTheSame DEF Start, StartCheck
<1>2. CASE ToolReportsStep
  <2>1. PICK t : ToolEnds(t)
    BY <1>2, StepsOfTools
  <2>2. tool' = t /\ pc' \in {"load", "environment", "done"} /\ UNCHANGED <<check, own, read>>
    BY <2>1, ReportLeads
  <2>3. Honest(t, truth')
    BY <1>2, <2>2, ReportsAreHonest DEF ToolInv
  <2>4. pc' = "load" => t.kind \in {"reviewed", "error"} \/ (check = "CodeRabbit" /\ t.kind = "degraded")
    BY <2>1, <2>3 DEF ToolEnds, Finish, Honest, Report
  <2>5. pc' = "done" /\ outcome' = "pass" => truth' = {}
    <3> SUFFICES ASSUME pc' = "done", outcome' = "pass" PROVE truth' = {}
      OBVIOUS
    <3>1. \/ t.kind = "pass"
          \/ t.kind \notin {"pass", "fail", "warn", "degraded"} /\ check = "ManagedFiles" /\ t.found = NothingFound
      BY <2>1 DEF ToolEnds, Finish
    <3>2. t.kind = "pass" \/ (t.kind = "reviewed" /\ DOMAIN t.found = {})
      BY <2>3, <3>1 DEF Honest, Report, NothingFound
    <3> QED BY <2>3, <3>2 DEF Honest
  <2> QED BY <1>0, <2>2, <2>4, <2>5 DEF PassIsExcused
<1>3. CASE Judge
  <2>1. CASE Load
    <3>1. UNCHANGED <<check, own, tool>> /\ read' = own /\ truth' = truth /\ Held' = Held
      BY <1>0, <1>3, <2>1, LoadLeads DEF Judge
    <3>2. pc' \in {"environment", "write", "done"}
      BY <2>1, LoadLeads
    <3>3. ASSUME pc' = "write"
          PROVE  tool.kind = "reviewed" /\ check \notin Reading /\ validateExceptionRegistry(check, own)
      BY <2>1, <3>3 DEF Load, Finish
    <3>4. ASSUME pc' = "done", outcome' = "pass"
          PROVE  /\ check \in Reading /\ validateExceptionRegistry(check, own)
                 /\ verdict(own.records, tool.found) = "pass" /\ tool.kind = "reviewed"
      BY <2>1, <3>4 DEF Load, Finish
    <3>5. PassIsExcused'
      <4> SUFFICES ASSUME pc' = "done", outcome' = "pass", NEW id \in truth
                   PROVE  (\E r \in own.records : Accounts(r, id)') /\ ~Inexcusable(tool.found[id])'
        BY <3>1 DEF PassIsExcused
      <4>1. id \in DOMAIN tool.found /\ tool.found[id] \in Categories
        BY <3>4 DEF ToolInv, Honest, Kind
      <4>2. \E r \in own.records : Accounts(r, id)
        BY <3>4, <4>1, ReadingAccounts
      <4>3. ~Inexcusable(tool.found[id])
        BY <3>4, <4>1 DEF Reading, Categories, Inexcusable
      <4>4. ASSUME NEW r PROVE Accounts(r, id)' <=> Accounts(r, id)
        BY <3>1 DEF Accounts
      <4>5. Inexcusable(tool.found[id])' <=> Inexcusable(tool.found[id])
        BY <3>1 DEF Inexcusable
      <4> QED BY <4>2, <4>3, <4>4, <4>5
    <3> QED BY <3>1, <3>2, <3>3, <3>5
  <2>2. CASE Reconcile
    <3> DEFINE records == reconciled(check, read.records, tool.found)
    <3>1. /\ pc = "write" /\ UNCHANGED <<check, read, tool, truth>> /\ pc' = "done"
          /\ own'.records = records /\ outcome' = verdict(records, tool.found)
      BY <1>3, <2>2 DEF Judge, Reconcile, Finish, FileOf
    <3>2. tool.kind = "reviewed" /\ check \in Reconciling /\ Honest(tool, truth) /\ DOMAIN tool.found \subseteq Ids
      BY <3>1, ToolIsReport, FoundAreIds DEF ToolInv, Honest, Kind
    <3>3. records \subseteq Held /\ Held' = Held
      BY <1>0, <3>1, <3>2 DEF reconciled, activeRecords, staleRecords, Held, Stubs
    <3>4. PassIsExcused'
      <4> SUFFICES ASSUME outcome' = "pass", NEW id \in truth
                   PROVE  (\E r \in records : Accounts(r, id)') /\ ~Inexcusable(tool.found[id])'
        BY <3>1 DEF PassIsExcused
      <4>1. id \in DOMAIN tool.found /\ tool.found[id] \in Categories
        BY <3>2 DEF Honest
      <4>2. (\E r \in records : Accounts(r, id)) /\ ~Inexcusable(tool.found[id])
        BY <3>1, <3>2, <4>1, ReconciledAccounts
      <4>3. ASSUME NEW r PROVE Accounts(r, id)' <=> Accounts(r, id)
        BY <3>1 DEF Accounts
      <4>4. Inexcusable(tool.found[id])' <=> Inexcusable(tool.found[id])
        BY <3>1 DEF Inexcusable
      <4> HIDE DEF records
      <4> QED BY <4>2, <4>3, <4>4
    <3> QED BY <3>1, <3>3, <3>4
  <2>3. CASE WriteFails
    <3>1. /\ pc' = "done" /\ outcome' = "fail" /\ UNCHANGED <<check, read>>
          /\ own'.records \subseteq Held
      BY <2>3 DEF WriteFails, Finish, Unreadable
    <3> QED BY <1>0, <3>1 DEF PassIsExcused
  <2>4. CASE JudgeEnvironment
    <3>1. pc' = "done" /\ outcome' # "pass" /\ UNCHANGED <<check, own, read>>
      BY <2>4 DEF JudgeEnvironment, Finish
    <3> QED BY <1>0, <3>1 DEF PassIsExcused
  <2> QED BY <1>3, <2>1, <2>2, <2>3, <2>4 DEF Judge, CheckStep
<1>4. CASE Over
  <2>1. /\ pc' = "idle" /\ check' = check
        /\ own'.records \subseteq own.records /\ read'.records = {}
    BY <1>4 DEF Over, Reported, KillCheck, Unreadable, Empty, FileOf
  <2> QED BY <1>0, <2>1 DEF PassIsExcused
<1>5. CASE PeopleAct
  <2>1. UNCHANGED <<check, pc, tool, read, truth>> /\ pc # "done"
    BY <1>5 DEF PeopleAct, People, EditRegistry, DayPasses
  <2>2. own'.records \subseteq Held
    <3>1. CASE own' \in Edited(own, PersonsRecords[check])
      BY <3>1, EditedWithin DEF Held
    <3>2. CASE own' = own
      BY <3>2
    <3> QED BY <1>5, <3>1, <3>2 DEF PeopleAct, People, EditRegistry, DayPasses
  <2> QED BY <1>0, <2>1, <2>2 DEF PassIsExcused
<1>6. CASE UNCHANGED <<check, today, own, environment, pc, tool, read, outcome, truth>>
  BY <1>0, <1>6, OwesTheSame
<1> QED BY <1>1, <1>2, <1>3, <1>4, <1>5, <1>6, StepsOfRuns

\* A check that passes has a full account of everything there was to find, and
\* nothing that no account excuses, for every registry, tool and finding.
THEOREM PassIsExcusedCorrect == Spec => []PassIsExcused
<1>1. FreshInv /\ [Next]_vars => FreshInv'
  BY FreshInvStep
<1>2. (FreshInv => ScoreInv) /\ (ManagedInv => ManagedTypeOK) /\ (PassInv => PassIsExcused)
  BY DEF FreshInv, ManagedInv, PassInv
<1> QED
  BY <1>1, <1>2, FreshInvInit, ManagedInvHolds, ToolInvHolds, PassInvInit, PassInvStep, PTL DEF Spec

=============================================================================
