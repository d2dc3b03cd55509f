----------------------------- MODULE ToolReports ----------------------------
(***************************************************************************)
(* What the checks with a registry make of their tool's output.  Each      *)
(* operator takes what the tool saw and gives the report that Exceptions   *)
(* goes on with.  What can go wrong with any tool, that it is stopped or   *)
(* prints nothing that can be read, is abnormalTermination.                *)
(***************************************************************************)
EXTENDS Exceptions, Sequences, SequencesExt

CONSTANTS
  ThisReason, ThatReason,  \* the ids of the reasons a check gives for not running
  PAGE_SIZE, MAX_PAGES     \* of GitHub's list of alerts

ASSUME ReportAssumption ==
  /\ {ThisReason, ThatReason} \subseteq Ids
  /\ {PAGE_SIZE, MAX_PAGES} \subseteq Nat \ {0}

abnormalTermination == Kind("fail")

Of(ids, category) == [id \in ids |-> category]

-----------------------------------------------------------------------------
(* CodeRabbit: the stream of events its command line prints.               *)

\* "malformed" stands for an event without a type and a finding without a file,
\* "review_failed" for any ending but the two good ones.
EventTypes == {"finding", "malformed", "unreadable", "status",
               "review_completed", "review_skipped", "review_failed"}
Event(type, id, findings) == [type |-> type, id |-> id, findings |-> findings]

StreamState(ok, completed, seen, streamed) ==
  [ok |-> ok, completed |-> completed, seen |-> seen, streamed |-> streamed]
StreamRefused == StreamState(FALSE, FALSE, {}, 0)

\* Fault: the last event's own count is not compared.
TerminalOK_Uncounted(s, e) == e.type \in {"review_completed", "review_skipped"}

\* A terminal event counts the findings there were, none if nothing was reviewed.
TerminalOK(s, e) ==
  /\ e.type \in {"review_completed", "review_skipped"}
  /\ e.findings = s.streamed
  /\ e.type = "review_skipped" => s.streamed = 0

\* One event read.  An event of no known type says nothing; one after the
\* terminal event, or one that cannot be read, says that nothing else does.
ReadEvent(s, e) ==
  IF ~s.ok \/ s.completed \/ e.type \in {"malformed", "unreadable"} THEN StreamRefused
  ELSE IF e.type = "finding" THEN StreamState(TRUE, FALSE, s.seen \cup {e.id}, s.streamed + 1)
  ELSE IF e.type = "status" THEN s
  ELSE IF TerminalOK(s, e) THEN StreamState(TRUE, TRUE, s.seen, s.streamed)
  ELSE StreamRefused

parseAgentStream(stream) ==
  LET state[n \in 0 .. Len(stream)] ==
        IF n = 0 THEN StreamState(TRUE, FALSE, {}, 0) ELSE ReadEvent(state[n - 1], stream[n])
  IN state[Len(stream)]

\* why: whether what was printed names something of this machine as the cause.
interpretCliResult(ended, stream, why) ==
  LET parsed == parseAgentStream(stream)
  IN IF ended = "not-installed" THEN Degraded({ThatReason})
     ELSE IF ended \in {"timed-out", "overflowed"} \/ ~parsed.ok THEN Kind("error")
     ELSE IF ~parsed.completed THEN IF why THEN Degraded({ThatReason}) ELSE Kind("error")
     ELSE Reviewed(Of(parsed.seen, "any"))

\* CI leaves the review to the GitHub app (this reason: not applicable), and a
\* detached HEAD has no branch to review (that one: unavailable).
runCoderabbitCli(machine, ended, stream, why) ==
  CASE machine = "ci" -> Degraded({ThisReason})
    [] machine = "detached" -> Degraded({ThatReason})
    [] OTHER -> interpretCliResult(ended, stream, why)

\* The stream of a whole review that raised these findings.
WholeStream(raised) ==
  <<Event("status", ThisReason, 0)>>
    \o [i \in DOMAIN raised |-> Event("finding", raised[i], 0)]
    \o <<Event(IF raised = <<>> THEN "review_skipped" ELSE "review_completed",
               ThisReason, Len(raised))>>

\* What may be captured of it: all, the beginning, all but one line, a line that
\* is no event or another ending, more after the end, or an earlier, broken off
\* stream before it.
Captured(raised) ==
  LET whole == WholeStream(raised)
      UpTo(n) == SubSeq(whole, 1, n)
  IN {whole, Append(whole, whole[1])}
       \cup {UpTo(n) : n \in 0 .. Len(whole)}
       \cup {UpTo(n) \o whole : n \in DOMAIN whole}
       \cup {RemoveAt(whole, n) : n \in DOMAIN whole}
       \cup {ReplaceAt(whole, n, Event(type, ThisReason, 0)) :
               n \in DOMAIN whole, type \in {"malformed", "unreadable", "review_failed"}}

-----------------------------------------------------------------------------
(* CodeScanning: GitHub's open alerts, a page at a time.                   *)

PageOf(alerts, p) ==
  SubSeq(alerts, (p - 1) * PAGE_SIZE + 1, Min({p * PAGE_SIZE, Len(alerts)}))

\* lists[p]: the open alerts when page p is read.  The first page that is not
\* full is the last one read.
readAlerts(lists) ==
  LET short == {p \in 1 .. MAX_PAGES : Len(PageOf(lists[p], p)) < PAGE_SIZE}
      last  == IF short = {} THEN MAX_PAGES ELSE Min(short)
  IN [read |-> UNION {Range(PageOf(lists[p], p)) : p \in 1 .. last}, exhausted |-> short # {}]

\* Code in a directory of its own for development, unless package.json names the
\* file as an entry point.
isDevPath(id, devPaths, entries) == id \in devPaths \ entries

\* Without a token in CI, or when GitHub does not answer, the check fails; a
\* repository that is not on GitHub, or scans nothing, has nothing to judge.
codeScanning(reach, lists, devPaths, entries) ==
  LET alerts == readAlerts(lists)
  IN IF reach = "skipped" THEN Kind("pass")
     ELSE IF reach = "failed" \/ ~alerts.exhausted THEN Kind("fail")
     ELSE Reviewed([id \in alerts.read |->
                     IF isDevPath(id, devPaths, entries) THEN "dev" ELSE "shipped"])

-----------------------------------------------------------------------------
(* The other checks that may find something.                               *)

\* SecuritySocket: which failure of the lookup it was.  The others differ in what
\* the message advises.
classifyProblem(end) == IF end = "no-key" THEN "not-authenticated" ELSE "other"

\* A severity Socket did not use to have is one of its own kind.
normalizeAlert(severity) == IF severity \in {"critical", "high", "middle", "low"} THEN severity ELSE "unknown"

\* How the lookup ended, and the alerts of the answer: one that is malformed spoils
\* them all.
interpretSocketRun(end, alerts) ==
  CASE end = "scored" /\ \A id \in DOMAIN alerts : alerts[id] # "malformed"
         -> Reviewed([id \in DOMAIN alerts |-> normalizeAlert(alerts[id])])
    [] end \in {"skipped", "unpublished"} -> Kind("pass")
    [] classifyProblem(end) = "not-authenticated" -> Kind("warn")
    [] OTHER -> Kind("fail")

\* npm audit answers with the advisories, or with an error, which is JSON as well
\* and lists none: it reads like an audit that found nothing.
audit(answered, advisories) == IF answered THEN advisories ELSE NothingFound

\* SecurityDeps: what it says of the dependencies that are installed with the
\* package.  A severity it does not know is no reason to leave one out.
normalizeFindings(vulnerabilities) ==
  [id \in DOMAIN vulnerabilities |->
     IF vulnerabilities[id] \in {"critical", "high", "low"} THEN vulnerabilities[id] ELSE "unknown"]
securityDeps(vulnerabilities) == Reviewed(normalizeFindings(vulnerabilities))

\* SecurityDevDeps: what it says of the others, by the packages' names.
devOnlyFindings(all, production) == DOMAIN all \ DOMAIN production
securityDevDeps(all, production) ==
  LET findings == devOnlyFindings(all, production)
  IN CASE findings = {} -> Kind("pass")
       [] \E name \in findings : all[name] = "critical" -> Kind("fail")
       [] OTHER -> Kind("warn")

\* DistNoUrls: the addresses in what was built, each once wherever it is.
distinctUrls(findings) == Range(findings)
distNoUrls(dirExists, findings) ==
  IF dirExists THEN Reviewed(Of(distinctUrls(findings), "any")) ELSE Kind("fail")

\* Suppressions and ManagedFiles: what their scripts list.  A private package owns
\* no files.
listed(ids) == Reviewed(Of(ids, "any"))
managedFiles(private, ids) == IF private THEN Kind("pass") ELSE listed(ids)

=============================================================================
