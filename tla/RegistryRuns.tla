----------------------------- MODULE RegistryRuns ----------------------------
(***************************************************************************)
(* The checks with exceptions at work: each run of Exceptions gets its     *)
(* report from the tool of its check, as ToolReports and RepositoryChecks  *)
(* read it: for SecuritySocket the score lookup, for Suppressions the scan *)
(* of a file, for ManagedFiles the files as sync and upgrade leave them.   *)
(* truth is what there really was to find.                                 *)
(*                                                                         *)
(* Which check runs is fixed in a behaviour, and of what surrounds it only *)
(* what its tool looks at moves.                                           *)
(***************************************************************************)
EXTENDS RepositoryChecks, SocketScore, SuppressionScan, ManagedFiles

CONSTANTS
  Findable,      \* the ids that may be found,
  Newest,        \* and the order GitHub lists them in
  SourceFiles,   \* the files to scan
  ReviewLength   \* how many findings a review raises at most

ASSUME RunsAssumption ==
  /\ Findable \subseteq Ids /\ ReviewLength \in Nat
  /\ Newest \in Seq(Findable) /\ ToSet(Newest) = Findable
  /\ SourceFiles \subseteq Seq(Line)
  /\ "SecuritySocket" \in Checks => \A timeline \in Timelines, v \in Versions, h \in Hours : DOMAIN timeline[v][h] \subseteq Ids
  /\ "ManagedFiles" \in Checks => Names \subseteq Ids
  /\ "Suppressions" \in Checks => SuppressionIds \subseteq Ids

VARIABLE
  truth  \* the ids of what there was to find, {} while nothing is reported

vars == <<registryVars, scoreVars, managedVars, githubVars, truth>>

TypeOK ==
  /\ RegistryTypeOK /\ ScoreTypeOK /\ ManagedTypeOK /\ RulesetsTypeOK
  /\ truth \subseteq Ids

\* What the check's tool does not look at begins in one way.
Init ==
  /\ RegistryInit /\ ScoreInit /\ ManagedInit /\ truth = {}
  /\ rulesets \in IF check = "BranchProtection" THEN Repositories ELSE {<<>>}
  /\ said = ""
  /\ check # "SecuritySocket" => published = {} /\ socket = CHOOSE timeline \in Timelines : TRUE
  /\ check # "ManagedFiles" => manifest.spec = 1 /\ manifest.sha = 1

-----------------------------------------------------------------------------
(* What the tools report.                                                  *)

Reports(t, found) ==
  /\ ToolEnds(t) /\ truth' = found
  /\ UNCHANGED <<scoreVars, managedVars, githubVars>>

\* Any tool but the lookup may break off.
ToolBreaks == check # "SecuritySocket" /\ Reports(abnormalTermination, {})

LookupReports ==
  /\ check = "SecuritySocket" /\ at \in Ended
  /\ Reports(interpretSocketRun(at, alerts), IF at = "scored" THEN DOMAIN alerts ELSE {})

\* npm may not answer; found leaves the audits that did not happen out.
AuditReports ==
  /\ check = "SecurityDeps"
  /\ \E ids \in SUBSET Findable, answered \in BOOLEAN : \E advisories \in [ids -> {"critical", "high", "low", "new kind"}] :
       Reports(securityDeps(audit(answered, advisories)), IF answered THEN ids ELSE {})

DevAuditReports ==
  /\ check = "SecurityDevDeps"
  /\ \E ids \in SUBSET Findable, answered \in [{"all", "production"} -> BOOLEAN] :
       \E production \in SUBSET ids, all \in [ids -> {"critical", "any"}] :
         Reports(securityDevDeps(audit(answered["all"], all), audit(answered["production"], Of(production, "any"))),
                 IF answered["all"] THEN ids \ production ELSE {})

BuildReports ==
  /\ check = "DistNoUrls"
  /\ \E dirExists \in BOOLEAN, findings \in UNION {[1 .. n -> Findable] : n \in 0 .. 3} :
       Reports(distNoUrls(dirExists, findings), Range(findings))

\* GitHub's list of the open alerts.
Listed(open) ==
  LET list[n \in 0 .. Len(Newest)] ==
        IF n = 0 THEN <<>>
        ELSE IF Newest[n] \in open THEN Append(list[n - 1], Newest[n])
        ELSE list[n - 1]
  IN list[Len(Newest)]

\* GitHub lists alerts newest first, and they open and close while the pages are
\* read.  One that closes moves those after it forward by one place: what was at
\* the top of the page that is read next is then not seen, and found leaves such
\* readings out.
AlertReadings ==
  LET Closes(open) == \E p \in 1 .. MAX_PAGES - 1 : ~(open[p] \subseteq open[p + 1])
  IN {[report |-> codeScanning(reach, [p \in 1 .. MAX_PAGES |-> Listed(open[p])], devPaths, entries),
       found  |-> IF Closes(open) \/ reach # "reached" THEN {} ELSE open[1]] :
        open \in [1 .. MAX_PAGES -> SUBSET Findable], reach \in {"reached", "skipped", "failed"},
        devPaths \in SUBSET Findable, entries \in SUBSET Findable}

AlertsReport ==
  /\ check = "CodeScanning"
  /\ \E r \in AlertReadings : Reports(r.report, r.found)

\* The reviews: where one runs, how its command line ends, what it raised and
\* what was captured of that.
Reviews ==
  UNION {{[report |-> runCoderabbitCli(machine, ended, stream, why), found |-> Range(raised)] :
            machine \in {"ci", "detached", "branch"}, why \in BOOLEAN, stream \in Captured(raised),
            ended \in {"ended", "not-installed", "timed-out", "overflowed"}} :
          raised \in UNION {[1 .. n -> Findable] : n \in 0 .. ReviewLength}}

ReviewReports ==
  /\ check = "CodeRabbit"
  /\ \E r \in Reviews : Reports(r.report, r.found)

Scans ==
  {[report |-> listed(unexplained(scan(markdown, file))), found |-> Silent(markdown, file)] :
     file \in SourceFiles, markdown \in BOOLEAN}

ScanReports ==
  /\ check = "Suppressions"
  /\ \E r \in Scans : Reports(r.report, r.found)

FilesReport ==
  /\ check = "ManagedFiles"
  /\ \E private \in BOOLEAN :
       Reports(managedFiles(private, notCurrent), IF private THEN {} ELSE notCurrent)

\* What a crawl says of a link: only a local one can be on disk.
Crawled == {l \in [external : BOOLEAN, status : {"ok", "limited", "gone"}, onDisk : BOOLEAN] :
              l.external => ~l.onDisk}

LinkTo(u, l) == [url |-> u, external |-> l.external, status |-> l.status, onDisk |-> l.onDisk]

LinksReport ==
  /\ check = "DocsLinks"
  /\ \E crawled \in BOOLEAN, links \in [Findable -> Crawled] :
       Reports(docsLinks(crawled, {LinkTo(u, links[u]) : u \in Findable}),
               {u \in Findable : links[u].status = "gone" /\ ~links[u].onDisk})

\* What these find has no id of its own.
Wrong(condition) == IF condition THEN {ThisReason} ELSE {}

\* No page, one that is fine, or some that are and two that may not be.
Crawls == {{}, {{}}} \cup {{{}, {i}, {j}} : i, j \in Issue}

PagesReport ==
  /\ check = "Accessibility"
  /\ \E chrome, opened \in BOOLEAN, pages \in Crawls :
       Reports(accessibility(chrome, pages, opened),
               Wrong(\E i \in UNION pages : i.type # "notice" /\ ~i.undecided))

CommitsReport ==
  /\ check = "Commits"
  /\ \E resolved \in BOOLEAN, failing \in 0 .. PRE_ADOPTION_THRESHOLD :
       Reports(commits(resolved, failing), Wrong(failing > 0))

ProtectionReports ==
  /\ check = "BranchProtection"
  /\ \E asked \in BOOLEAN :
       Reports(branchProtection(asked, rulesets),
               Wrong(~(REQUIRED_RULE_TYPES \subseteq
                         UNION {r.rules : r \in {x \in ToSet(rulesets) : x.active /\ x.covers}})))

PackReports ==
  /\ check = "PackedConsumer"
  /\ \E p \in [private : BOOLEAN, tarball : BOOLEAN, installs : BOOLEAN, missing : SUBSET Findable,
               entries : UNION {[e -> {"imports", "peer", "broken"}] : e \in SUBSET Findable}] :
       Reports(packedConsumer(p), IF p.private \/ p.entries = <<>> THEN {} ELSE problems(p))

ToolStep ==
  \/ ToolBreaks \/ LookupReports \/ AuditReports \/ DevAuditReports \/ BuildReports
  \/ AlertsReport \/ ReviewReports \/ ScanReports \/ FilesReport \/ LinksReport
  \/ PagesReport \/ CommitsReport \/ ProtectionReports \/ PackReports

-----------------------------------------------------------------------------
(* The specification.                                                      *)

\* The lookup begins with the check it is the tool of.
Start ==
  /\ StartCheck
  /\ IF check = "SecuritySocket" THEN StartLookup ELSE UNCHANGED scoreVars
  /\ check = "ManagedFiles" => Idle
  /\ UNCHANGED <<managedVars, githubVars, truth>>

Judge == CheckStep /\ UNCHANGED <<scoreVars, managedVars, githubVars, truth>>

Look ==
  /\ check = "SecuritySocket" /\ pc = "tool"
  /\ LookupStep
  /\ UNCHANGED <<registryVars, managedVars, githubVars, truth>>

\* A run that is over, or killed, leaves nothing but its files.
Over ==
  /\ Reported \/ KillCheck
  /\ IF check = "SecuritySocket" THEN EndLookup ELSE UNCHANGED scoreVars
  /\ truth' = {}
  /\ UNCHANGED <<managedVars, githubVars>>

PeopleAct == People /\ UNCHANGED <<scoreVars, managedVars, githubVars, truth>>

ScoresMove ==
  /\ check = "SecuritySocket"
  /\ ScoreWorldStep
  /\ UNCHANGED <<registryVars, managedVars, githubVars, truth>>

\* A person's turn while the check does not run: a command, an edit or a commit,
\* each of which counts as one of the edits.
PersonsTurn ==
  /\ pc = "idle"
  /\ edits < MaxEdits[check] /\ edits' = edits + 1
  /\ UNCHANGED <<check, today, own, environment, pc, tool, read, outcome, scoreVars, truth>>

\* init is run, or someone undoes what it did.
Protect ==
  /\ check = "BranchProtection" /\ PersonsTurn
  /\ InitRuns \/ RulesetDisabled
  /\ UNCHANGED managedVars

\* The commands of the managed files.
StartCommand ==
  /\ check = "ManagedFiles" /\ PersonsTurn /\ UNCHANGED githubVars
  /\ \/ Upgrade
     \/ \E apply, update \in BOOLEAN, added \in {{}} \cup {{c} : c \in Copies} : Sync(apply, update, added)

Work ==
  /\ check = "ManagedFiles"
  /\ CommandStep
  /\ UNCHANGED <<registryVars, scoreVars, githubVars, truth>>

PersonEdits ==
  /\ check = "ManagedFiles" /\ PersonsTurn /\ UNCHANGED githubVars
  /\ Commit \/ EditManifest \/ \E f \in Names : EditFile(f)

PersonUndoes ==
  /\ check = "ManagedFiles" /\ pc = "idle"
  /\ RestoreTree \/ KillCommand
  /\ UNCHANGED <<registryVars, scoreVars, githubVars, truth>>

ToolReportsStep == pc = "tool" /\ ToolStep

Next ==
  \/ Start \/ ToolReportsStep \/ Look \/ Judge \/ Over
  \/ PeopleAct \/ ScoresMove \/ Protect
  \/ StartCommand \/ Work \/ PersonEdits \/ PersonUndoes

\* What has begun goes on; nothing makes anyone begin.
Spec == Init /\ [][Next]_vars /\ WF_vars(ToolReportsStep \/ Look \/ Judge) /\ WF_vars(Work)

-----------------------------------------------------------------------------
(* Properties.                                                             *)

\* Whether a record, whatever the code makes of it, is a person's full account of
\* this finding.  CodeScanning's is the standing reason it writes itself.
Accounts(r, id) ==
  /\ r.id = id /\ r.about = id
  /\ {"justification"} \cup (IF r.version = 1 THEN {} ELSE {"structured"}) \subseteq r.texts
  /\ check \in Reconciling => "remediation" \in r.texts /\ r.method # "" /\ r.exceptionType # ""
  /\ check \in Reconciling \ {"CodeRabbit"} => "alternatives" \in r.texts
  /\ check # "CodeScanning" => r \in PersonsRecords[check]

\* What no record excuses, whatever it says.
Inexcusable(category) ==
  category \in {"critical", "shipped"} \/ (check = "SecuritySocket" /\ category = "high")

\* A check that passes has, for everything there was to find, a full account in
\* its file as it now is, and nothing was of a kind no account excuses.
\* (evaluateFindingVerdict, reconcileAndPersistExceptionRegistry and the checks'
\* policies; exceptions-and-registries in EXCEPTIONS.md.)
PassIsExcused ==
  pc = "done" /\ outcome = "pass" =>
    \A id \in truth : /\ \E r \in own.records : Accounts(r, id)
                      /\ ~Inexcusable(tool.found[id])

\* What a tool's report says it found is all there was to find: no stream that
\* was cut, no list that was not read to its end is judged.
\* (parseAgentStream, code-scanning-alerts.mjs, scanSource.)
ReportIsWhole == tool.kind = "reviewed" => truth \subseteq DOMAIN tool.found

\* No run drops a record it read, stale or not: it writes them all back, or
\* leaves the file alone, or spoils it.  (reconcileAndPersistExceptionRegistry.)
RecordsSurvive ==
  [][pc = "write" /\ pc' = "done" =>
       read.records \subseteq own'.records \/ own' = own \/ ~own'.readable]_vars

\* A check that could not run is accepted only by records that have not expired,
\* one for each of its reasons.  (degraded in environment-exceptions.ts.)
AcceptedIsCurrent ==
  pc = "done" /\ outcome = "accepted" =>
    \A code \in tool.codes : \E r \in environment.records :
      r.id = code /\ r \in Acceptances /\ (r.expires = 0 \/ r.expires >= today)

\* SecuritySocket judges what Socket said at most CACHE_TTL ago, of the own
\* version or of the newest there is.  (socket-score-cache.mjs, socket-package-score.mjs.)
SocketPassIsFresh ==
  check = "SecuritySocket" /\ tool.kind = "reviewed" =>
    /\ now - answer.savedAt <= CACHE_TTL
    /\ DOMAIN tool.found = DOMAIN socket[answer.version][answer.savedAt]
    /\ \A id \in DOMAIN tool.found : socket[answer.version][answer.savedAt][id] \in {tool.found[id], "new kind"}

\* A check that has begun ends, also when Socket goes on saying "slow down", and
\* so does a command.  (socket-package-score.mjs; sync.mjs, upgrade/run.mjs.)
CheckEnds ==
  /\ pc = "tool" ~> pc # "tool"
  /\ pc \in {"load", "write", "environment"} ~> pc \in {"idle", "done"}
  /\ ~Idle ~> Idle

\* The commit a workflow calls the shared one at after an upgrade: the release's
\* or, when the lock names none, the one it called before.
movedPin(f) ==
  IF f \notin Calls THEN 0
  ELSE IF manifest.sha # 0 THEN installed
  ELSE IF before[f].pin \in 1 .. Releases THEN before[f].pin
  ELSE 0

\* When sync --apply or an upgrade reports success, every file this package owns in
\* the tree is there and current; and after an upgrade each is the installed
\* release's, and every workflow that could be moved was.  (sync.mjs, upgrade/run.mjs.)
CommandSettles ==
  job.command # "none" /\ job.at = "ended" /\ job.apply =>
    /\ \A f \in Managed : inspectManaged(manifest.sha)[f] = "current"
    /\ job.command = "upgrade" =>
         \A f \in Managed : files[f] = [body |-> installed, pin |-> movedPin(f)]

\* When init says that it protected the default branch, or that it was protected
\* already, BranchProtection passes; and whatever it says, it loosens no ruleset
\* and takes none out of force.  (bin/scaffold.mjs, github-repo.mjs,
\* check-branch-protection.mjs.)
InitProtects ==
  [][said' # "" =>
       /\ said' # "skipped" => branchProtection(TRUE, rulesets') = Kind("pass")
       /\ \A i \in DOMAIN rulesets : /\ rulesets[i].rules \subseteq rulesets'[i].rules
                                      /\ rulesets[i].active => rulesets'[i].active]_githubVars

-----------------------------------------------------------------------------
(* What the repository says, and the program does not do.                  *)

\* A record counts until its date: a check that passes owes none of it to one
\* that has expired.  (EXCEPTIONS.md: "a date after which the record no longer counts".)
ExpiredNeverCounts ==
  pc = "done" /\ outcome = "pass" =>
    \A id \in truth : \E r \in own.records : r.id = id /\ ~isExpired(r, today)

\* After an upgrade that stopped, "git restore ." gives back the files as they
\* were before it.  (upgrade/run.mjs prints that it undoes the run.)
UndoRestores == job.command = "upgrade" /\ job.at = "stopped" => restored = before

=============================================================================
