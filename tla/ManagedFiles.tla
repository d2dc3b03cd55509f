----------------------------- MODULE ManagedFiles ----------------------------
(***************************************************************************)
(* The files this package owns in a consumer: what makes one current,      *)
(* missing or drifted; sync, which reports them, writes the missing and    *)
(* replaces the drifted, one by one; upgrade, which installs a release,    *)
(* moves the workflows' pins, syncs and generates; and the person who      *)
(* edits, commits and restores the same files.                             *)
(*                                                                         *)
(* A file's text is the release whose template it is, 0 for a person's own *)
(* text, and the release whose commit it calls the shared workflows at, or *)
(* Branch when it names no commit, or 0 when it names nothing.             *)
(***************************************************************************)
EXTENDS Integers, FiniteSets, Sequences, SequencesExt

CONSTANTS
  Files,     \* the files, in the order they are listed
  KindOf,    \* file -> "workflow", "json", "copy", "doc", "file"
  Calls,     \* the workflows among them that call a shared one
  Copies,    \* the files that are carried only when package.json says so
  Requires,  \* release -> copy -> the copies that one imports
  Releases

Names == ToSet(Files)

ASSUME ManagedAssumption ==
  /\ Files \in Seq(Names)
  /\ KindOf \in [Names -> {"workflow", "json", "copy", "doc", "file"}]
  /\ Calls \subseteq {f \in Names : KindOf[f] = "workflow"}
  /\ Releases \in Nat \ {0}
  /\ Copies \subseteq Names /\ Requires \in [1 .. Releases -> [Copies -> SUBSET Copies]]

VARIABLES
  files,      \* file -> its text, or Missing
  manifest,   \* package.json: the copies it lists, the release it asks for; its
              \* lock: the release whose commit it names
  installed,  \* the release in node_modules
  head,       \* the files and the manifest as committed
  job,        \* the command that runs, or how the last one ended
  todo,       \* what sync still has to look at
  before      \* the files when the upgrade began, if that was the last command

managedVars == <<files, manifest, installed, head, job, todo, before>>

Branch == Releases + 1
Missing == [body |-> -1, pin |-> 0]
Texts == [body : 0 .. Releases, pin : 0 .. Branch] \cup {Missing}
Tree == [Names -> Texts]
NoTree == [f \in Names |-> Missing]

\* spec: 0 when the dependency is not one on a release of the repository.  sha: 0
\* when there is no lock, or one that names no commit.
Manifest == [copies : SUBSET Copies, spec : 0 .. Releases, sha : 0 .. Releases]

\* command: "none", "sync" or "upgrade"; at: the step it is at, or how it ended.
Job == [command : {"none", "sync", "upgrade"},
        at : {"install", "repin", "sync", "generate", "ended", "stopped"},
        apply : BOOLEAN, update : BOOLEAN, left : BOOLEAN]
NoJob == [command |-> "none", at |-> "ended", apply |-> FALSE, update |-> FALSE, left |-> FALSE]

ManagedTypeOK ==
  /\ files \in Tree /\ before \in Tree
  /\ manifest \in Manifest /\ installed \in 1 .. Releases
  /\ head \in [files : Tree, manifest : Manifest]
  /\ job \in Job
  /\ todo \in {SubSeq(Files, n, Len(Files)) : n \in 1 .. Len(Files) + 1}

-----------------------------------------------------------------------------
(* What a file should say.                                                 *)

\* A copy and every copy it imports, itself or through others, in the release that
\* is installed: the copies that are in every set which holds it and, with a copy,
\* all that one imports.
withRequired(name) ==
  {n \in Copies : \A names \in SUBSET Copies :
     name \in names /\ (\A m \in names : Requires[installed][m] \subseteq names) => n \in names}

\* The list of copies is read as it stands, whatever they import.
Managed == (Names \ Copies) \cup manifest.copies

\* The template for the pin the file has, or else the one to give it.
wanted(f, have, sha) ==
  [body |-> installed,
   pin  |-> IF f \notin Calls THEN 0 ELSE IF have.pin \in 1 .. Releases THEN have.pin ELSE sha]

\* One commit is as good as another, in a workflow.
meaning(text) == [body |-> text.body, pin |-> IF text.pin \in 1 .. Releases THEN 1 ELSE text.pin]

stateOf(f, have, sha) ==
  CASE have = Missing -> "missing"
    [] meaning(wanted(f, have, sha)) = meaning(have) -> "current"
    [] OTHER -> "drifted"

inspectManaged(sha) == [f \in Managed |-> stateOf(f, files[f], sha)]

\* What the ManagedFiles check is told: it knows no commit.
notCurrent == {f \in Managed : inspectManaged(0)[f] # "current"}

-----------------------------------------------------------------------------
(* sync.                                                                   *)

Idle == job.at \in {"ended", "stopped"}

Begin(command, at, apply, update) ==
  job' = [command |-> command, at |-> at, apply |-> apply, update |-> update, left |-> FALSE]

\* --add enrols a copy, with those it imports, before anything is inspected.
Sync(apply, update, added) ==
  /\ Idle
  /\ update => apply
  /\ added # {} => apply
  /\ manifest' = [manifest EXCEPT !.copies = @ \cup UNION {withRequired(name) : name \in added}]
  /\ Begin("sync", "sync", apply, update)
  /\ todo' = Files /\ before' = NoTree
  /\ UNCHANGED <<files, installed, head>>

unpinned(text, f) == f \in Calls /\ text.pin = 0

\* Whether sync writes the file.
writes(f, state, text) ==
  \/ state = "missing" /\ job.apply /\ ~unpinned(text, f)
  \/ state = "drifted" /\ job.apply /\ job.update

\* Fault: a file that is left as it is is not counted.
SyncFile_Uncounted ==
  /\ job.at = "sync" /\ todo # <<>>
  /\ LET f == Head(todo)
         state == IF f \in Managed THEN inspectManaged(manifest.sha)[f] ELSE "current"
         text == wanted(f, files[f], manifest.sha)
     IN files' = [files EXCEPT ![f] = IF writes(f, state, text) THEN text ELSE @]
  /\ todo' = Tail(todo)
  /\ UNCHANGED <<manifest, installed, head, job, before>>

\* The next file in the list: written, replaced, or left.
SyncFile ==
  /\ job.at = "sync" /\ todo # <<>>
  /\ LET f == Head(todo)
         state == IF f \in Managed THEN inspectManaged(manifest.sha)[f] ELSE "current"
         text == wanted(f, files[f], manifest.sha)
     IN /\ files' = [files EXCEPT ![f] = IF writes(f, state, text) THEN text ELSE @]
        /\ job' = [job EXCEPT !.left = @ \/ (state # "current" /\ ~writes(f, state, text))]
  /\ todo' = Tail(todo)
  /\ UNCHANGED <<manifest, installed, head, before>>

\* Something left as it was is exit code 1, which stops an upgrade.
SyncEnds ==
  /\ job.at = "sync" /\ todo = <<>>
  /\ job' = [job EXCEPT !.at = IF job.left THEN "stopped"
                               ELSE IF job.command = "upgrade" THEN "generate"
                               ELSE "ended"]
  /\ UNCHANGED <<files, manifest, installed, head, todo, before>>

-----------------------------------------------------------------------------
(* upgrade.                                                                *)

\* What a run must not overwrite: package.json, its lock, and the workflows.
uncommitted ==
  \/ manifest # head.manifest
  \/ \E f \in Names : KindOf[f] = "workflow" /\ files[f] # head.files[f]

\* Only a dependency on a release can be moved to another.
Upgrade ==
  /\ Idle
  /\ manifest.spec # 0 /\ ~uncommitted
  /\ Begin("upgrade", "install", TRUE, TRUE)
  /\ before' = files
  /\ UNCHANGED <<files, manifest, installed, head, todo>>

noWorkflow == \A f \in Names : KindOf[f] = "workflow" => files[f] = Missing

\* npm installs the release, and the lock then names its commit or, as it may,
\* none.  Without a commit, or a directory of workflows, nothing is re-pinned.
Install(release) ==
  /\ job.at = "install"
  /\ installed' = release
  /\ \E sha \in {0, release} :
       /\ manifest' = [manifest EXCEPT !.spec = release, !.sha = sha]
       /\ \/ /\ sha # 0
             /\ job' = [job EXCEPT !.at = "repin"] /\ todo' = todo
          \/ /\ sha = 0 \/ noWorkflow
             /\ job' = [job EXCEPT !.at = "sync"] /\ todo' = Files
  /\ UNCHANGED <<files, head, before>>

\* Every workflow that calls a shared one, by whatever name, does so at the new
\* commit.
Repin ==
  /\ job.at = "repin"
  /\ files' = [f \in Names |-> IF files[f].pin = 0 THEN files[f] ELSE [files[f] EXCEPT !.pin = manifest.sha]]
  /\ job' = [job EXCEPT !.at = "sync"] /\ todo' = Files
  /\ UNCHANGED <<manifest, installed, head, before>>

\* The landing page and the benchmark guides, where there are any.
Generate ==
  /\ job.at = "generate"
  /\ job' = [job EXCEPT !.at = "ended"]
  /\ UNCHANGED <<files, manifest, installed, head, todo, before>>

\* The first step that fails stops the upgrade.
StepFails ==
  /\ job.at \in {"install", "repin", "generate"}
  /\ job' = [job EXCEPT !.at = "stopped"]
  /\ UNCHANGED <<files, manifest, installed, head, todo, before>>

\* A command is killed between two files, or between two steps.
KillCommand ==
  /\ ~Idle
  /\ job' = NoJob /\ todo' = <<>> /\ before' = NoTree
  /\ UNCHANGED <<files, manifest, installed, head>>

CommandStep ==
  \/ SyncFile \/ SyncEnds \/ (\E release \in 1 .. Releases : Install(release))
  \/ Repin \/ Generate \/ StepFails

-----------------------------------------------------------------------------
(* The person.                                                             *)

\* What a person may make of a file: a text of their own, one that calls the
\* shared workflow by a branch, or not at all, or no file.
PersonsTexts(f) ==
  {Missing} \cup [body : {0} \cup ({files[f].body} \ {-1}),
                  pin : IF f \in Calls THEN {0, Branch, files[f].pin} ELSE {0}]

EditFile(f) ==
  /\ Idle
  /\ files' \in {[files EXCEPT ![f] = text] : text \in PersonsTexts(f) \ {files[f]}}
  /\ job' = NoJob /\ before' = NoTree
  /\ UNCHANGED <<manifest, installed, head, todo>>

\* package.json is edited by hand: the list of copies, which need not hold what
\* those import, and the dependency.
EditManifest ==
  /\ Idle
  /\ \E copies \in SUBSET Copies, spec \in 0 .. Releases :
       manifest' = [manifest EXCEPT !.copies = copies, !.spec = spec]
  /\ manifest' # manifest
  /\ job' = NoJob /\ before' = NoTree
  /\ UNCHANGED <<files, installed, head, todo>>

Commit ==
  /\ Idle
  /\ head' = [files |-> files, manifest |-> manifest]
  /\ job' = NoJob /\ before' = NoTree
  /\ UNCHANGED <<files, manifest, installed, todo>>

\* What "git restore ." makes of the tree: it puts back what is tracked, and
\* removes nothing.
restored == [f \in Names |-> IF head.files[f] # Missing THEN head.files[f] ELSE files[f]]

RestoreTree ==
  /\ Idle
  /\ files' = restored /\ manifest' = head.manifest
  /\ job' = NoJob /\ before' = NoTree
  /\ UNCHANGED <<installed, head, todo>>

\* A package that was just scaffolded, or one that gets its dependency otherwise:
\* from elsewhere, or without a lock.
ManagedInit ==
  /\ installed = 1
  /\ manifest \in {[copies |-> {}, spec |-> n, sha |-> m] : n, m \in {0, 1}}
  /\ files = [f \in Names |-> IF f \in Copies THEN Missing
                              ELSE [body |-> 1, pin |-> IF f \in Calls THEN 1 ELSE 0]]
  /\ head = [files |-> files, manifest |-> manifest]
  /\ job = NoJob /\ todo = <<>> /\ before = NoTree

=============================================================================
