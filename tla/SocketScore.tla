----------------------------- MODULE SocketScore ----------------------------
(***************************************************************************)
(* What SecuritySocket runs: look the package's version up in the score    *)
(* cache, on npm and on Socket, and print one envelope.  A score is asked  *)
(* for again while Socket says "slow down"; a version Socket does not have *)
(* is answered for by the latest published one; what Socket said is kept   *)
(* for a day.                                                              *)
(*                                                                         *)
(* Outside the lookup, versions are published, Socket scores them some     *)
(* time later, and what it says of a version changes with the hours.       *)
(***************************************************************************)
EXTENDS Integers, FiniteSets, FiniteSetsExt

CONSTANTS
  Own,                 \* package.json's version; the versions are 1 .. Own
  Timelines,           \* what Socket may say: version -> hour -> alerts
  LastHour,            \* the hours are 1 .. LastHour
  CACHE_TTL,           \* how many hours a cached score is good for
  RATE_LIMIT_RETRIES

Versions == 1 .. Own
Hours == 1 .. LastHour

\* Of an alert: Socket's own, one it did not use to have, and none at all.
Severities == {"critical", "high", "middle", "low", "new kind", "malformed"}

ASSUME ScoreAssumption ==
  /\ Own \in Nat \ {0} /\ LastHour \in Nat \ {0}
  /\ CACHE_TTL \in Nat /\ RATE_LIMIT_RETRIES \in Nat
  /\ \A timeline \in Timelines, v \in Versions :
       /\ DOMAIN timeline = Versions /\ DOMAIN timeline[v] = Hours
       /\ \A h \in Hours : \A id \in DOMAIN timeline[v][h] : timeline[v][h][id] \in Severities

VARIABLES
  now,        \* the hour
  socket,     \* what Socket says of which version at which hour
  published,  \* the versions on npm
  scored,     \* those of them Socket has
  cache,      \* version -> the hour its score was saved, 0 for none
  at,         \* where the lookup is
  target,     \* the version it asks Socket about
  tries,      \* how often it has asked about it
  answer      \* the version and the hour of the score it emits

scoreVars == <<now, socket, published, scored, cache, at, target, tries, answer>>

NoAnswer == [version |-> 0, savedAt |-> 0]

\* Ended one way or another; "scored" says that there is an answer.
Ended == {"scored", "skipped", "unpublished", "no-key", "failed"}

ScoreTypeOK ==
  /\ now \in Hours /\ socket \in Timelines
  /\ published \subseteq Versions /\ scored \subseteq published
  /\ cache \in [Versions -> 0 .. LastHour]
  /\ at \in {"idle", "start", "latest", "score", "fallback", "rescore"} \cup Ended
  /\ target \in 0 .. Own /\ tries \in 0 .. RATE_LIMIT_RETRIES
  /\ answer \in [version : 0 .. Own, savedAt : 0 .. LastHour]

ScoreInit ==
  /\ now = 1 /\ socket \in Timelines
  /\ published \in {1 .. v : v \in 0 .. Own} /\ scored = published
  /\ cache = [v \in Versions |-> 0]
  /\ at = "idle" /\ target = 0 /\ tries = 0 /\ answer = NoAnswer

latest == Max(published)

\* Fault: an entry is good whenever it was saved.
readCached_AnyAge(v) == cache[v] # 0

\* An unreadable entry, or one in a directory that is not trusted, is none.
readCached(v) == cache[v] # 0 /\ now - cache[v] <= CACHE_TTL

\* What the lookup reads and leaves alone.
World == <<now, socket, published, scored>>

-----------------------------------------------------------------------------
(* The lookup.                                                             *)

emit(end) == at' = end
emitCached(v) == emit("scored") /\ answer' = [version |-> v, savedAt |-> cache[v]]

StartLookup ==
  /\ at = "idle"
  /\ at' = "start" /\ target' = Own /\ tries' = 0 /\ answer' = NoAnswer
  /\ UNCHANGED <<World, cache>>

\* A private package, or none: nothing is published.
SkipLookup == at = "start" /\ emit("skipped") /\ UNCHANGED <<World, cache, target, tries, answer>>

\* A fresh score of the own version needs no one.
UseCached ==
  /\ at = "start" /\ readCached(Own)
  /\ emitCached(Own)
  /\ UNCHANGED <<World, cache, target, tries>>

\* npm is asked for the own version; only its definite "no such version" leads
\* to the latest one, and anything else it cannot answer ends the lookup.
ViewExact ==
  /\ at = "start" /\ ~readCached(Own)
  /\ at' \in {IF Own \in published THEN "score" ELSE "latest", "failed"}
  /\ UNCHANGED <<World, cache, target, tries, answer>>

\* A fresh score of the latest published version will do; Socket is asked about
\* the own one otherwise, also when npm did not answer.
ViewLatest ==
  /\ at = "latest"
  /\ \/ published # {} /\ readCached(latest) /\ emitCached(latest)
     \/ at' = "score" /\ UNCHANGED answer
  /\ UNCHANGED <<World, cache, target, tries>>

\* Fault: it asks once more than it may.
RateLimited_OnceMore ==
  /\ at \in {"score", "rescore"}
  /\ IF tries <= RATE_LIMIT_RETRIES THEN tries' = tries + 1 /\ UNCHANGED at
                                    ELSE emit("failed") /\ UNCHANGED tries
  /\ UNCHANGED <<World, cache, target, answer>>

\* "Slow down": the lookup waits and asks again, and gives up after the last.
RateLimited ==
  /\ at \in {"score", "rescore"}
  /\ IF tries < RATE_LIMIT_RETRIES THEN tries' = tries + 1 /\ UNCHANGED at
                                   ELSE emit("failed") /\ UNCHANGED tries
  /\ UNCHANGED <<World, cache, target, answer>>

\* No key, no network, no socket command, or output that says nothing.
ScoreFails ==
  /\ at \in {"score", "rescore"}
  /\ at' \in {"no-key", "failed"}
  /\ UNCHANGED <<World, cache, target, tries, answer>>

\* Fault: it falls back every time.
ScoreNotFound_Again ==
  /\ at \in {"score", "rescore"} /\ target \notin scored
  /\ emit("fallback")
  /\ UNCHANGED <<World, cache, target, tries, answer>>

\* Socket does not have the version: the first time, the latest one is next.
ScoreNotFound ==
  /\ at \in {"score", "rescore"} /\ target \notin scored
  /\ at' = IF at = "score" THEN "fallback" ELSE "failed"
  /\ UNCHANGED <<World, cache, target, tries, answer>>

\* The score is emitted, and written to the cache, whole or not at all.
Scored ==
  /\ at \in {"score", "rescore"} /\ target \in scored
  /\ cache' \in {cache, [cache EXCEPT ![target] = now]}
  /\ answer' = [version |-> target, savedAt |-> now]
  /\ emit("scored")
  /\ UNCHANGED <<World, target, tries>>

\* What is the latest version, if there is one?
Fallback ==
  /\ at = "fallback"
  /\ \/ emit("failed") /\ UNCHANGED <<target, tries>>
     \/ published = {} /\ emit("unpublished") /\ UNCHANGED <<target, tries>>
     \/ published # {} /\ at' = "rescore" /\ target' = latest /\ tries' = 0
  /\ UNCHANGED <<World, cache, answer>>

LookupStep ==
  \/ SkipLookup \/ UseCached \/ ViewExact \/ ViewLatest \/ RateLimited
  \/ ScoreFails \/ ScoreNotFound \/ Scored \/ Fallback

LookupVars == <<at, target, tries, answer>>

EndLookup ==
  /\ at' = "idle" /\ target' = 0 /\ tries' = 0 /\ answer' = NoAnswer
  /\ UNCHANGED <<World, cache>>

-----------------------------------------------------------------------------
(* npm, Socket and time.                                                   *)

PublishVersion ==
  /\ Cardinality(published) < Own
  /\ published' = published \cup {Cardinality(published) + 1}
  /\ UNCHANGED <<now, socket, scored, cache, LookupVars>>

SocketScores ==
  /\ \E v \in published \ scored : scored' = scored \cup {v}
  /\ UNCHANGED <<now, socket, published, cache, LookupVars>>

\* A lookup takes minutes and an hour is one step: it ends within the hour.
HourPasses ==
  /\ now < LastHour /\ at = "idle"
  /\ now' = now + 1
  /\ UNCHANGED <<socket, published, scored, cache, LookupVars>>

ScoreWorldStep == PublishVersion \/ SocketScores \/ HourPasses

\* What the answer amounts to.
alerts == socket[answer.version][answer.savedAt]

=============================================================================
