---------------------------- MODULE ManagedProofs ----------------------------
(***************************************************************************)
(* Proofs about sync and upgrade, for every list of files, every way the   *)
(* copies import each other, every number of releases, and whatever people *)
(* do to the files in between.                                             *)
(***************************************************************************)
EXTENDS RegistryRuns, TLAPS

-----------------------------------------------------------------------------
(* The steps, as the managed files see them.                               *)

ManagedStep ==
  \/ Upgrade \/ \E apply, update \in BOOLEAN, added \in SUBSET Copies : Sync(apply, update, added)
  \/ SyncFile \/ SyncEnds \/ (\E release \in 1 .. Releases : Install(release))
  \/ Repin \/ Generate \/ StepFails
  \/ Commit \/ EditManifest \/ (\E f \in Names : EditFile(f)) \/ RestoreTree \/ KillCommand
  \/ UNCHANGED managedVars

LEMMA StepsOfManaged == [Next]_vars => ManagedStep
<1> SUFFICES ASSUME [Next]_vars PROVE ManagedStep
  OBVIOUS
<1>1. ToolReportsStep => UNCHANGED managedVars
  BY DEF ToolReportsStep, ToolStep, ToolBreaks, LookupReports, AuditReports, DevAuditReports,
         BuildReports, AlertsReport, ReviewReports, ScanReports, FilesReport, LinksReport,
         PagesReport, CommitsReport, ProtectionReports, PackReports, Reports
<1>2. Start \/ Look \/ Judge \/ Over \/ PeopleAct \/ ScoresMove \/ Protect => UNCHANGED managedVars
  BY DEF Start, Look, Judge, Over, PeopleAct, ScoresMove, Protect
<1>3. StartCommand => ManagedStep
  <2> SUFFICES ASSUME StartCommand PROVE ManagedStep
    OBVIOUS
  <2>1. CASE Upgrade
    BY <2>1 DEF ManagedStep
  <2>2. ASSUME NEW apply \in BOOLEAN, NEW update \in BOOLEAN,
               NEW added \in {{}} \cup {{c} : c \in Copies}, Sync(apply, update, added)
        PROVE  ManagedStep
    <3>1. added \in SUBSET Copies
      OBVIOUS
    <3> QED BY <2>2, <3>1 DEF ManagedStep
  <2> QED BY <2>1, <2>2 DEF StartCommand
<1>4. Work => ManagedStep
  BY DEF Work, CommandStep, ManagedStep
<1>5. PersonEdits => ManagedStep
  BY DEF PersonEdits, ManagedStep
<1>6. PersonUndoes => ManagedStep
  BY DEF PersonUndoes, ManagedStep
<1>7. UNCHANGED vars => UNCHANGED managedVars
  BY DEF vars
<1> QED BY <1>1, <1>2, <1>3, <1>4, <1>5, <1>6, <1>7 DEF Next, ManagedStep

-----------------------------------------------------------------------------
(* Lists of files.                                                         *)

Remainders == {SubSeq(Files, n, Len(Files)) : n \in 1 .. Len(Files) + 1}

LEMMA FilesRemain == Files \in Remainders /\ <<>> \in Remainders
<1>1. Files \in Seq(Names) /\ Len(Files) \in Nat
  BY ManagedAssumption DEF ManagedAssumption
<1>2. Files = SubSeq(Files, 1, Len(Files))
  BY <1>1
<1>3. <<>> = SubSeq(Files, Len(Files) + 1, Len(Files))
  BY <1>1
<1> QED BY <1>1, <1>2, <1>3 DEF Remainders

\* The first of what is left is a file, and the rest is what is left next.
LEMMA HeadOfRemainder ==
  ASSUME NEW s \in Remainders, s # <<>>
  PROVE  /\ Head(s) \in Names /\ Tail(s) \in Remainders
         /\ ToSet(s) = {Head(s)} \cup ToSet(Tail(s))
<1>1. Files \in Seq(Names) /\ Len(Files) \in Nat
  BY ManagedAssumption DEF ManagedAssumption
<1>2. PICK n \in 1 .. Len(Files) + 1 : s = SubSeq(Files, n, Len(Files))
  BY DEF Remainders
<1>3. n \in 1 .. Len(Files)
  BY <1>1, <1>2
<1>4. s \in Seq(Names) /\ Len(s) \in Nat /\ Len(s) > 0
  BY <1>1, <1>2, <1>3
<1>5. Head(s) = s[1] /\ s[1] \in Names
  BY <1>4
<1>6. Tail(s) = SubSeq(Files, n + 1, Len(Files))
  BY <1>1, <1>2, <1>3
<1>7. Tail(s) \in Remainders
  <2>1. n + 1 \in 1 .. Len(Files) + 1
    BY <1>1, <1>3
  <2> DEFINE m == n + 1
  <2>2. \E k \in 1 .. Len(Files) + 1 : Tail(s) = SubSeq(Files, k, Len(Files))
    <3>1. m \in 1 .. Len(Files) + 1 /\ Tail(s) = SubSeq(Files, m, Len(Files))
      BY <1>6, <2>1
    <3> HIDE DEF m
    <3> QED BY <3>1
  <2> QED BY <2>2 DEF Remainders
<1>8. /\ DOMAIN s = 1 .. Len(s) /\ DOMAIN Tail(s) = 1 .. Len(s) - 1
      /\ \A i \in 1 .. Len(s) - 1 : Tail(s)[i] = s[i + 1]
  BY <1>4
<1>9. \A i \in 1 .. Len(s) : i = 1 \/ (i - 1 \in 1 .. Len(s) - 1 /\ s[i] = Tail(s)[i - 1])
  BY <1>4, <1>8
<1>10. ToSet(s) \subseteq {Head(s)} \cup ToSet(Tail(s))
  <2> SUFFICES ASSUME NEW i \in 1 .. Len(s) PROVE s[i] \in {Head(s)} \cup ToSet(Tail(s))
    BY <1>8 DEF ToSet
  <2>1. CASE i = 1
    BY <1>5, <2>1
  <2>2. CASE i # 1
    <3>1. i - 1 \in DOMAIN Tail(s) /\ s[i] = Tail(s)[i - 1]
      BY <1>8, <1>9, <2>2
    <3> QED BY <3>1 DEF ToSet
  <2> QED BY <2>1, <2>2
<1>11. ToSet(Tail(s)) \subseteq ToSet(s)
  BY <1>4, <1>8 DEF ToSet
<1>12. Head(s) \in ToSet(s)
  BY <1>4, <1>5, <1>8 DEF ToSet
<1> QED BY <1>5, <1>7, <1>10, <1>11, <1>12

-----------------------------------------------------------------------------
(* Types.                                                                  *)

LEMMA WantedType ==
  ASSUME ManagedTypeOK, NEW f \in Names
  PROVE  /\ wanted(f, files[f], manifest.sha) \in [body : 0 .. Releases, pin : 0 .. Branch]
         /\ wanted(f, files[f], manifest.sha) # Missing
<1>1. /\ Releases \in Nat \ {0} /\ installed \in 1 .. Releases
      /\ manifest.sha \in 0 .. Releases
  BY ManagedAssumption DEF ManagedAssumption, ManagedTypeOK, Manifest
<1>2. wanted(f, files[f], manifest.sha).pin \in 0 .. Releases
  BY <1>1 DEF wanted
<1>3. wanted(f, files[f], manifest.sha).body \in 0 .. Releases
  BY <1>1 DEF wanted
<1>4. wanted(f, files[f], manifest.sha)
        = [body |-> wanted(f, files[f], manifest.sha).body,
           pin  |-> wanted(f, files[f], manifest.sha).pin]
  BY DEF wanted
<1>5. 0 .. Releases \subseteq 0 .. Branch
  BY <1>1 DEF Branch
<1>6. wanted(f, files[f], manifest.sha) \in [body : 0 .. Releases, pin : 0 .. Branch]
  BY <1>2, <1>3, <1>4, <1>5
<1>7. Missing.body \notin 0 .. Releases
  BY <1>1 DEF Missing
<1> QED BY <1>3, <1>6, <1>7

LEMMA TextType ==
  ASSUME NEW text \in Texts
  PROVE  /\ text = [body |-> text.body, pin |-> text.pin]
         /\ text.pin \in 0 .. Branch
<1>1. Branch \in Nat
  BY ManagedAssumption DEF ManagedAssumption, Branch
<1> QED BY <1>1 DEF Texts, Missing

LEMMA ManagedInitIsTyped == ManagedInit => ManagedTypeOK
<1> SUFFICES ASSUME ManagedInit PROVE ManagedTypeOK
  OBVIOUS
<1>1. Releases \in Nat /\ 1 \in 0 .. Releases /\ 1 \in 1 .. Releases /\ {0, 1} \subseteq 0 .. Branch
  BY ManagedAssumption DEF ManagedAssumption, Branch
<1>2. files \in Tree /\ NoTree \in Tree
  BY <1>1 DEF ManagedInit, Tree, Texts, NoTree
<1>3. manifest \in Manifest
  BY <1>1 DEF ManagedInit, Manifest
<1> QED BY <1>1, <1>2, <1>3, FilesRemain DEF ManagedInit, ManagedTypeOK, NoJob, Job, Remainders

\* Every step of a command or a person keeps the types.
LEMMA ManagedStepIsTyped == ManagedTypeOK /\ ManagedStep => ManagedTypeOK'
<1> SUFFICES ASSUME ManagedTypeOK, ManagedStep PROVE ManagedTypeOK'
  OBVIOUS
<1> USE DEF ManagedTypeOK
<1>0. /\ Releases \in Nat /\ Branch \in Nat
      /\ NoTree \in Tree /\ NoJob \in Job
      /\ <<>> \in {SubSeq(Files, n, Len(Files)) : n \in 1 .. Len(Files) + 1}
      /\ Files \in {SubSeq(Files, n, Len(Files)) : n \in 1 .. Len(Files) + 1}
  <2>1. Releases \in Nat /\ Branch \in Nat
    BY ManagedAssumption DEF ManagedAssumption, Branch
  <2>2. NoTree \in Tree /\ NoJob \in Job
    BY DEF NoTree, Tree, Texts, NoJob, Job
  <2>3. Files \in Remainders /\ <<>> \in Remainders
    BY FilesRemain
  <2> QED BY <2>1, <2>2, <2>3 DEF Remainders
<1>1. CASE Upgrade
  BY <1>1 DEF Upgrade, Begin, Job
<1>2. ASSUME NEW apply \in BOOLEAN, NEW update \in BOOLEAN, NEW added \in SUBSET Copies,
             Sync(apply, update, added)
      PROVE  ManagedTypeOK'
  <2>1. manifest' \in Manifest
    BY <1>2 DEF Sync, Manifest, withRequired
  <2> QED BY <1>0, <1>2, <2>1 DEF Sync, Begin, Job
<1>3. CASE SyncFile
  <2>1. Head(todo) \in Names /\ Tail(todo) \in Remainders
    BY <1>3, HeadOfRemainder DEF SyncFile, Remainders
  <2>2. files' \in Tree
    BY <1>3, <2>1, WantedType DEF SyncFile, Tree, Texts
  <2>3. job' \in Job
    BY <1>3 DEF SyncFile, Job
  <2>4. todo' \in {SubSeq(Files, n, Len(Files)) : n \in 1 .. Len(Files) + 1}
    BY <1>3, <2>1 DEF SyncFile, Remainders
  <2> QED BY <1>3, <2>2, <2>3, <2>4 DEF SyncFile
<1>4. CASE SyncEnds
  BY <1>4 DEF SyncEnds, Job
<1>5. ASSUME NEW release \in 1 .. Releases, Install(release) PROVE ManagedTypeOK'
  <2>1. manifest' \in Manifest /\ installed' \in 1 .. Releases
    <3>1. release \in 0 .. Releases /\ 0 \in 0 .. Releases
      BY <1>0
    <3> QED BY <1>5, <3>1 DEF Install, Manifest
  <2>2. job' \in Job
    BY <1>5 DEF Install, Job
  <2>3. todo' = todo \/ todo' = Files
    BY <1>5 DEF Install
  <2> QED BY <1>0, <1>5, <2>1, <2>2, <2>3 DEF Install
<1>6. CASE Repin
  <2>1. manifest.sha \in 0 .. Branch
    BY <1>0 DEF Manifest, Branch
  <2>2. files' \in Tree
    <3> SUFFICES ASSUME NEW f \in Names, files[f].pin # 0
                 PROVE  [files[f] EXCEPT !.pin = manifest.sha] \in Texts
      BY <1>6 DEF Repin, Tree
    <3>1. files[f] \in [body : 0 .. Releases, pin : 0 .. Branch]
      BY DEF Tree, Texts, Missing
    <3> QED BY <2>1, <3>1 DEF Texts
  <2> QED BY <1>0, <1>6, <2>2 DEF Repin, Job
<1>7. CASE Generate
  BY <1>7 DEF Generate, Job
<1>8. CASE StepFails
  BY <1>8 DEF StepFails, Job
<1>9. CASE Commit
  BY <1>0, <1>9 DEF Commit
<1>10. ASSUME NEW f \in Names, EditFile(f) PROVE ManagedTypeOK'
  <2>1. PersonsTexts(f) \subseteq Texts
    <3>1. files[f] \in Texts
      BY DEF Tree
    <3>2. files[f].pin \in 0 .. Branch /\ files[f].body \in {-1} \cup 0 .. Releases
      BY <1>0, <3>1 DEF Texts, Missing
    <3>3. Branch \in 0 .. Branch /\ 0 \in 0 .. Branch /\ 0 \in 0 .. Releases
      BY <1>0
    <3> QED BY <3>2, <3>3 DEF PersonsTexts, Texts
  <2>2. files' \in Tree
    BY <1>10, <2>1 DEF EditFile, Tree
  <2> QED BY <1>0, <1>10, <2>2 DEF EditFile
<1>11. CASE RestoreTree
  <2>1. files' \in Tree
    BY <1>11 DEF RestoreTree, restored, Tree
  <2> QED BY <1>0, <1>11, <2>1 DEF RestoreTree
<1>12. CASE KillCommand
  BY <1>0, <1>12 DEF KillCommand
<1>13. CASE EditManifest
  BY <1>0, <1>13 DEF EditManifest, Manifest
<1>14. CASE UNCHANGED managedVars
  BY <1>14 DEF managedVars
<1> QED
  BY <1>1, <1>2, <1>3, <1>4, <1>5, <1>6, <1>7, <1>8, <1>9, <1>10, <1>11, <1>12, <1>13, <1>14 DEF ManagedStep

-----------------------------------------------------------------------------
(* sync: what it leaves current.                                           *)

\* A text that was written as wanted is current.
LEMMA WrittenIsCurrent ==
  ASSUME ManagedTypeOK, NEW f \in Names
  PROVE  stateOf(f, wanted(f, files[f], manifest.sha), manifest.sha) = "current"
<1>1. wanted(f, files[f], manifest.sha) # Missing
  BY WantedType
<1>2. wanted(f, wanted(f, files[f], manifest.sha), manifest.sha) = wanted(f, files[f], manifest.sha)
  BY DEF wanted
<1> QED BY <1>1, <1>2 DEF stateOf

IsCurrent(f) == stateOf(f, files[f], manifest.sha) = "current"

\* While sync has left nothing, what it has looked at is current.
SyncInv ==
  /\ job.at = "sync" /\ ~job.left => \A f \in Managed \ ToSet(todo) : IsCurrent(f)
  /\ job.at = "generate" \/ (job.at = "ended" /\ job.command # "none") => \A f \in Managed : IsCurrent(f)

\* A call that an upgrade without a commit to give leaves: as it was, or none.
KeptPin(f) == files[f].pin = before[f].pin \/ (files[f].pin = 0 /\ before[f].pin \notin 1 .. Releases)

\* An upgrade begins with the files as they were, and from the moves of the pins on
\* it knows one release only, or moves no call.
UpgradeInv ==
  job.command = "upgrade" =>
    /\ job.at \in {"install", "repin"} => files = before
    /\ job.at = "repin" => manifest.sha = installed
    /\ job.at \in {"sync", "generate", "ended"} =>
         /\ manifest.sha \in {0, installed}
         /\ manifest.sha = installed => \A f \in Calls : files[f].pin \in {0, installed}
         /\ manifest.sha = 0 => \A f \in Calls : KeptPin(f)

ManagedInv == ManagedTypeOK /\ SyncInv /\ UpgradeInv

LEMMA SyncInvStep == ManagedTypeOK /\ SyncInv /\ ManagedStep => SyncInv'
<1> SUFFICES ASSUME ManagedTypeOK, SyncInv, ManagedStep PROVE SyncInv'
  OBVIOUS
<1> USE DEF SyncInv
<1>1. CASE job'.at \in {"install", "repin", "stopped"} \/ (job'.at = "ended" /\ job'.command = "none")
  BY <1>1
<1>2. CASE job'.at = "sync" /\ todo' = Files
  <2>1. ToSet(Files) = Names /\ Managed' \subseteq Names
    <3>1. ManagedTypeOK'
      BY ManagedStepIsTyped
    <3>2. manifest'.copies \subseteq Names
      BY <3>1, ManagedAssumption DEF ManagedTypeOK, Manifest, ManagedAssumption
    <3> QED BY <3>2 DEF Names, Managed
  <2> QED BY <1>2, <2>1
<1>3. CASE SyncFile
  <2>1. PICK f \in Names : f = Head(todo) /\ ToSet(todo) = {f} \cup ToSet(Tail(todo))
    BY <1>3, HeadOfRemainder DEF SyncFile, ManagedTypeOK, Remainders
  <2>2. /\ Managed' = Managed /\ manifest' = manifest /\ todo' = Tail(todo) /\ installed' = installed
        /\ job'.at = "sync" /\ job.at = "sync"
    BY <1>3 DEF SyncFile, Managed, ManagedTypeOK, Job
  <2>3. \A g \in Names \ {f} : files'[g] = files[g]
    BY <1>3, <2>1 DEF SyncFile, ManagedTypeOK, Tree
  <2>4. \A g \in Names \ {f} : IsCurrent(g) => IsCurrent(g)'
    BY <2>2, <2>3 DEF IsCurrent, stateOf, wanted
  <2>5. ASSUME ~job'.left, f \in Managed PROVE IsCurrent(f)'
    <3> DEFINE state == IF f \in Managed THEN inspectManaged(manifest.sha)[f] ELSE "current"
               text == wanted(f, files[f], manifest.sha)
    <3>1. state = stateOf(f, files[f], manifest.sha)
      BY <2>5 DEF inspectManaged
    <3>2. state = "current" \/ writes(f, state, text)
      BY <1>3, <2>1, <2>5 DEF SyncFile, ManagedTypeOK, Job
    <3>3. files'[f] = IF writes(f, state, text) THEN text ELSE files[f]
      BY <1>3, <2>1 DEF SyncFile, ManagedTypeOK, Tree
    <3>4. stateOf(f, text, manifest.sha) = "current"
      BY <2>1, WrittenIsCurrent
    <3>5. stateOf(f, files'[f], manifest.sha) = "current"
      BY <3>1, <3>2, <3>3, <3>4
    <3> QED BY <2>2, <3>5 DEF IsCurrent, stateOf, wanted
  <2>6. ~job'.left => ~job.left
    BY <1>3 DEF SyncFile, ManagedTypeOK, Job
  <2>7. Managed \subseteq Names
    BY ManagedAssumption DEF Managed, ManagedTypeOK, Manifest, ManagedAssumption
  <2> QED BY <2>1, <2>2, <2>4, <2>5, <2>6, <2>7
<1>4. CASE SyncEnds
  <2>1. ToSet(todo) = {}
    BY <1>4 DEF SyncEnds, ToSet
  <2>2. job'.at \in {"generate", "ended"} => ~job.left
    BY <1>4 DEF SyncEnds, ManagedTypeOK, Job
  <2>3. Managed' = Managed /\ \A f : IsCurrent(f) <=> IsCurrent(f)'
    BY <1>4 DEF SyncEnds, Managed, IsCurrent, stateOf, wanted
  <2>4. job'.at \in {"generate", "ended", "stopped"} /\ job.at = "sync"
    BY <1>4 DEF SyncEnds, ManagedTypeOK, Job
  <2> QED BY <2>1, <2>2, <2>3, <2>4
<1>5. CASE Generate
  <2>1. Managed' = Managed /\ \A f : IsCurrent(f) <=> IsCurrent(f)'
    BY <1>5 DEF Generate, Managed, IsCurrent, stateOf, wanted
  <2>2. job.at = "generate" /\ job'.at = "ended"
    BY <1>5 DEF Generate, ManagedTypeOK, Job
  <2> QED BY <2>1, <2>2
<1>6. CASE UNCHANGED managedVars
  <2>1. Managed' = Managed /\ \A f : IsCurrent(f) <=> IsCurrent(f)'
    BY <1>6 DEF managedVars, Managed, IsCurrent, stateOf, wanted
  <2> QED BY <1>6, <2>1 DEF managedVars
<1>7. CASE Upgrade \/ StepFails \/ KillCommand \/ Commit \/ RestoreTree
  BY <1>1, <1>7 DEF Upgrade, Begin, StepFails, KillCommand, Commit, RestoreTree, NoJob, ManagedTypeOK, Job
<1>8. ASSUME NEW apply \in BOOLEAN, NEW update \in BOOLEAN, NEW added \in SUBSET Copies,
             Sync(apply, update, added)
      PROVE  SyncInv'
  BY <1>2, <1>8 DEF Sync, Begin
<1>9. ASSUME NEW release \in 1 .. Releases, Install(release) PROVE SyncInv'
  BY <1>1, <1>2, <1>9 DEF Install, ManagedTypeOK, Job
<1>10. CASE Repin
  BY <1>2, <1>10 DEF Repin, ManagedTypeOK, Job
<1>11. ASSUME NEW f \in Names, EditFile(f) PROVE SyncInv'
  BY <1>1, <1>11 DEF EditFile, NoJob
<1>12. CASE EditManifest
  <2>1. job' = NoJob
    BY <1>12 DEF EditManifest
  <2> QED BY <1>1, <2>1 DEF NoJob
<1> QED
  BY <1>3, <1>4, <1>5, <1>6, <1>7, <1>8, <1>9, <1>10, <1>11, <1>12 DEF ManagedStep

LEMMA UpgradeInvStep == ManagedTypeOK /\ UpgradeInv /\ ManagedStep => UpgradeInv'
<1> SUFFICES ASSUME ManagedTypeOK, UpgradeInv, ManagedStep PROVE UpgradeInv'
  OBVIOUS
<1> USE DEF UpgradeInv
<1>0. Calls \subseteq Names /\ Releases \in Nat /\ \A f \in Calls : KindOf[f] = "workflow"
  BY ManagedAssumption DEF ManagedAssumption
<1>1. CASE job'.command # "upgrade" \/ job'.at = "stopped"
  BY <1>1
<1>2. CASE /\ UNCHANGED <<files, manifest, installed, before>> /\ job'.command = job.command
           /\ job'.at \in {"generate", "ended", job.at} /\ job.at \in {"sync", "generate", job'.at}
  BY <1>2 DEF KeptPin
<1>3. ASSUME NEW release \in 1 .. Releases, Install(release) PROVE UpgradeInv'
  <2>1. /\ job.at = "install" /\ UNCHANGED <<files, before>> /\ installed' = release
        /\ job'.command = job.command
        /\ \/ job'.at = "repin" /\ manifest'.sha = release
           \/ job'.at = "sync" /\ manifest'.sha = 0
           \/ job'.at = "sync" /\ manifest'.sha = release /\ noWorkflow
    BY <1>3 DEF Install, ManagedTypeOK, Job, Manifest
  <2> SUFFICES ASSUME job.command = "upgrade" PROVE UpgradeInv'
    BY <2>1
  <2>2. noWorkflow => \A f \in Calls : files'[f].pin = 0
    BY <1>0, <2>1 DEF noWorkflow, Missing
  <2>3. release # 0
    BY <1>0
  <2> QED BY <2>1, <2>2, <2>3 DEF KeptPin
<1>4. CASE Repin
  <2>1. /\ job.at = "repin" /\ job' = [job EXCEPT !.at = "sync"]
        /\ UNCHANGED <<manifest, installed, before>>
    BY <1>4 DEF Repin
  <2>2. job'.command = job.command /\ job'.at = "sync" /\ installed # 0
    BY <1>0, <2>1 DEF ManagedTypeOK, Job
  <2>3. ASSUME NEW f \in Names PROVE files'[f].pin \in {0, manifest.sha}
    <3>1. files[f] \in Texts
      BY DEF ManagedTypeOK, Tree
    <3>2. files'[f] = IF files[f].pin = 0 THEN files[f] ELSE [files[f] EXCEPT !.pin = manifest.sha]
      BY <1>4 DEF Repin
    <3> QED BY <3>1, <3>2, TextType
  <2> QED BY <1>0, <2>1, <2>2, <2>3
<1>5. CASE SyncFile
  <2> SUFFICES ASSUME job'.command = "upgrade" PROVE UpgradeInv'
    OBVIOUS
  <2>1. PICK f \in Names : f = Head(todo)
    BY <1>5, HeadOfRemainder DEF SyncFile, ManagedTypeOK, Remainders
  <2>2. /\ UNCHANGED <<manifest, installed, before>> /\ job'.at = "sync" /\ job.at = "sync"
        /\ job.command = "upgrade"
    BY <1>5 DEF SyncFile, ManagedTypeOK, Job
  <2>3. files'[f] \in {files[f], wanted(f, files[f], manifest.sha)}
    BY <1>5, <2>1 DEF SyncFile, ManagedTypeOK, Tree
  <2>4. \A g \in Names \ {f} : files'[g] = files[g]
    BY <1>5, <2>1 DEF SyncFile, ManagedTypeOK, Tree
  <2>5. wanted(f, files[f], manifest.sha).pin \in {0, files[f].pin, manifest.sha}
    BY DEF wanted
  <2>6. CASE manifest.sha = installed
    <3>1. f \in Calls => files'[f].pin \in {0, installed}
      BY <2>2, <2>3, <2>5, <2>6
    <3>2. installed # 0
      BY <1>0 DEF ManagedTypeOK
    <3> QED BY <1>0, <2>2, <2>4, <2>6, <3>1, <3>2
  <2>7. CASE manifest.sha = 0
    <3>1. f \in Calls => KeptPin(f)'
      <4>1. files[f].pin \notin 1 .. Releases => wanted(f, files[f], manifest.sha).pin = 0
        BY <2>7 DEF wanted
      <4>2. files[f].pin \in 1 .. Releases /\ f \in Calls => wanted(f, files[f], manifest.sha).pin = files[f].pin
        BY DEF wanted
      <4>3. f \in Calls => KeptPin(f)
        BY <2>2, <2>7
      <4> QED BY <2>2, <2>3, <4>1, <4>2, <4>3 DEF KeptPin
    <3>2. \A g \in Calls \ {f} : KeptPin(g)'
      <4>1. \A g \in Calls \ {f} : KeptPin(g)
        BY <2>2, <2>7
      <4> QED BY <1>0, <2>2, <2>4, <4>1 DEF KeptPin
    <3>3. installed # 0
      BY <1>0 DEF ManagedTypeOK
    <3> QED BY <2>2, <2>7, <3>1, <3>2, <3>3
  <2> QED BY <2>2, <2>6, <2>7
<1>6. CASE SyncEnds \/ Generate \/ UNCHANGED managedVars
  BY <1>1, <1>2, <1>6 DEF SyncEnds, Generate, managedVars, ManagedTypeOK, Job
<1>7. CASE Upgrade
  BY <1>7 DEF Upgrade, Begin
<1>8. CASE StepFails \/ KillCommand \/ Commit \/ RestoreTree
  BY <1>1, <1>8 DEF StepFails, KillCommand, Commit, RestoreTree, NoJob, ManagedTypeOK, Job
<1>9. ASSUME NEW apply \in BOOLEAN, NEW update \in BOOLEAN, NEW added \in SUBSET Copies,
             Sync(apply, update, added)
      PROVE  UpgradeInv'
  BY <1>1, <1>9 DEF Sync, Begin
<1>10. ASSUME NEW f \in Names, EditFile(f) PROVE UpgradeInv'
  BY <1>1, <1>10 DEF EditFile, NoJob
<1>11. CASE EditManifest
  <2>1. job' = NoJob
    BY <1>11 DEF EditManifest
  <2> QED BY <1>1, <2>1 DEF NoJob
<1> QED
  BY <1>3, <1>4, <1>5, <1>6, <1>7, <1>8, <1>9, <1>10, <1>11 DEF ManagedStep

LEMMA ManagedInvInit == Init => ManagedInv
<1> SUFFICES ASSUME Init PROVE ManagedInv
  OBVIOUS
<1>1. ManagedInit
  BY DEF Init
<1>2. ManagedTypeOK
  BY <1>1, ManagedInitIsTyped
<1> QED
  BY <1>1, <1>2 DEF ManagedInv, ManagedInit, SyncInv, UpgradeInv, NoJob

LEMMA ManagedInvStep == ManagedInv /\ [Next]_vars => ManagedInv'
BY StepsOfManaged, ManagedStepIsTyped, SyncInvStep, UpgradeInvStep DEF ManagedInv

LEMMA ManagedInvHolds == Spec => []ManagedInv
BY ManagedInvInit, ManagedInvStep, PTL DEF Spec

\* What an upgrade that is done has made of a file it owns.
LEMMA UpgradedIs ==
  ASSUME ManagedInv, job.command = "upgrade", job.at = "ended", NEW f \in Managed
  PROVE  files[f] = [body |-> installed, pin |-> movedPin(f)]
<1>1. f \in Names /\ files[f] \in Texts /\ Releases \in Nat /\ installed \in 1 .. Releases
  BY ManagedAssumption DEF ManagedAssumption, ManagedInv, ManagedTypeOK, Manifest, Managed, Tree
<1>2. IsCurrent(f)
  BY DEF ManagedInv, SyncInv
<1> DEFINE text == wanted(f, files[f], manifest.sha)
<1>3. meaning(text) = meaning(files[f])
  BY <1>2 DEF IsCurrent, stateOf
<1>4. files[f].body = installed
  BY <1>3 DEF meaning, wanted
<1>5. /\ text.pin \in 1 .. Releases <=> files[f].pin \in 1 .. Releases
      /\ files[f].pin \notin 1 .. Releases => text.pin = files[f].pin
  <2>1. meaning(text).pin = meaning(files[f]).pin
    BY <1>3
  <2>2. /\ meaning(text).pin = IF text.pin \in 1 .. Releases THEN 1 ELSE text.pin
        /\ meaning(files[f]).pin = IF files[f].pin \in 1 .. Releases THEN 1 ELSE files[f].pin
    BY DEF meaning
  <2>3. 1 \in 1 .. Releases
    BY <1>1
  <2> QED BY <2>1, <2>2, <2>3
<1> HIDE DEF text
<1>6. CASE f \notin Calls
  <2>1. text.pin = 0 /\ 0 \notin 1 .. Releases
    BY <1>1, <1>6 DEF text, wanted
  <2>2. files[f].pin = 0 /\ movedPin(f) = 0
    <3>1. files[f].pin = 0
      BY <1>5, <2>1
    <3>2. movedPin(f) = 0
      BY <1>6 DEF movedPin
    <3> QED BY <3>1, <3>2
  <2> QED BY <1>1, <1>4, <2>2, TextType
<1>7. CASE f \in Calls /\ manifest.sha # 0
  <2>1. manifest.sha = installed /\ files[f].pin \in {0, installed}
    BY <1>7 DEF ManagedInv, UpgradeInv
  <2>2. files[f].pin = 0 => text.pin = installed /\ 0 \notin 1 .. Releases
    BY <1>1, <1>7, <2>1 DEF text, wanted
  <2>3. files[f].pin = installed /\ movedPin(f) = installed
    <3>1. files[f].pin = installed
      BY <1>5, <1>1, <2>1, <2>2
    <3>2. movedPin(f) = installed
      BY <1>7 DEF movedPin
    <3> QED BY <3>1, <3>2
  <2> QED BY <1>1, <1>4, <2>3, TextType
<1>8. CASE f \in Calls /\ manifest.sha = 0
  <2>1. KeptPin(f)
    BY <1>1, <1>8 DEF ManagedInv, UpgradeInv
  <2>2. files[f].pin \notin 1 .. Releases => text.pin = 0
    BY <1>8 DEF text, wanted
  <2>3. files[f].pin \in 1 .. Releases \/ files[f].pin = 0
    BY <1>5, <2>2
  <2>4. 0 \notin 1 .. Releases
    BY <1>1
  <2>5. files[f].pin = movedPin(f)
    BY <1>8, <2>1, <2>3, <2>4 DEF KeptPin, movedPin
  <2> QED BY <1>1, <1>4, <2>5, TextType
<1> QED BY <1>6, <1>7, <1>8

\* When sync --apply or an upgrade reports success, every file the package owns is
\* current, and after an upgrade each is the installed release's, with every call
\* moved that could be, for every list of files, of copies and of releases.
THEOREM CommandSettlesCorrect == Spec => []CommandSettles
<1>1. ManagedInv => CommandSettles
  <2> SUFFICES ASSUME ManagedInv, job.command # "none", job.at = "ended"
               PROVE  /\ \A f \in Managed : inspectManaged(manifest.sha)[f] = "current"
                      /\ job.command = "upgrade" =>
                           \A f \in Managed : files[f] = [body |-> installed, pin |-> movedPin(f)]
    BY DEF CommandSettles
  <2>1. \A f \in Managed : IsCurrent(f)
    BY DEF ManagedInv, SyncInv
  <2> QED BY <2>1, UpgradedIs DEF IsCurrent, inspectManaged
<1> QED BY <1>1, ManagedInvHolds, PTL

=============================================================================
