----------------------------- MODULE ToolProofs ------------------------------
(***************************************************************************)
(* What is proved of the tools' reports: for every stream of events, every *)
(* course of GitHub's list of alerts and every source file.                *)
(***************************************************************************)
EXTENDS RegistryRuns, FiniteSetTheorems, SequenceTheorems, WellFoundedInduction, TLAPS

-----------------------------------------------------------------------------
(* Going through a list.                                                   *)

\* What holds at the beginning and is kept from each place to the next holds at
\* the end.
LEMMA AlongTheList ==
  ASSUME NEW N \in Nat, NEW P, 0 \in P, \A n \in 0 .. N : n \in P /\ n < N => n + 1 \in P
  PROVE  \A n \in 0 .. N : n \in P
<1> DEFINE bad == {n \in 0 .. N : n \notin P}
<1> SUFFICES ASSUME bad # {} PROVE FALSE
  OBVIOUS
<1> HIDE DEF bad
<1>1. bad \subseteq Nat
  BY DEF bad
<1>2. PICK m \in bad : \A n \in bad : ~(<<n, m>> \in OpToRel(<, Nat))
  BY <1>1, WFMin, NatLessThanWellFounded
<1>3. \A n \in bad : ~(n < m)
  BY <1>1, <1>2 DEF OpToRel
<1>4. m \in 0 .. N /\ m \notin P /\ m # 0
  BY <1>2 DEF bad
<1>5. m - 1 \in 0 .. N /\ m - 1 < N /\ m - 1 < m /\ (m - 1) + 1 = m
  BY <1>4
<1>6. m - 1 \in P
  BY <1>3, <1>5 DEF bad
<1>7. m \in P
  BY <1>5, <1>6
<1> QED BY <1>2, <1>7 DEF bad

\* A function that is given by its first value and by the step from each value to
\* the next, and that there is one.
Follows(f, N, D, first, Step) ==
  f \in [0 .. N -> D] /\ f[0] = first /\ \A n \in 1 .. N : f[n] = Step[n][f[n - 1]]

LEMMA ThereIsOne ==
  ASSUME NEW N \in Nat, NEW D, NEW first \in D, NEW Step \in [1 .. N -> [D -> D]]
  PROVE  \E f : Follows(f, N, D, first, Step)
<1> DEFINE Upto(m, f) ==
             /\ f \in [0 .. m -> D]
             /\ f[0] = first /\ \A n \in 1 .. m : f[n] = Step[n][f[n - 1]]
           P == {m \in 0 .. N : \E f : Upto(m, f)}
<1>1. 0 \in P
  <2>1. Upto(0, [n \in 0 .. 0 |-> first])
    OBVIOUS
  <2> HIDE DEF Upto
  <2> QED BY <2>1
<1>2. ASSUME NEW m \in 0 .. N, m \in P, m < N PROVE m + 1 \in P
  <2>1. PICK f : Upto(m, f)
    BY <1>2
  <2> DEFINE g == [n \in 0 .. m + 1 |-> IF n = m + 1 THEN Step[n][f[m]] ELSE f[n]]
  <2>2. f[m] \in D /\ m + 1 \in 1 .. N /\ Step[m + 1] \in [D -> D]
    BY <1>2, <2>1
  <2>3. g \in [0 .. m + 1 -> D]
    BY <2>1, <2>2
  <2>4. g[0] = first /\ \A n \in 1 .. m + 1 : g[n] = Step[n][g[n - 1]]
    <3>1. g[0] = first
      BY <2>1
    <3>2. ASSUME NEW n \in 1 .. m + 1 PROVE g[n] = Step[n][g[n - 1]]
      <4>1. CASE n = m + 1
        BY <2>1, <4>1
      <4>2. CASE n \in 1 .. m
        BY <2>1, <4>2
      <4> QED BY <4>1, <4>2
    <3> QED BY <3>1, <3>2
  <2>5. Upto(m + 1, g)
    BY <2>3, <2>4
  <2> HIDE DEF Upto, g
  <2> QED BY <1>2, <2>2, <2>5
<1> HIDE DEF P
<1>3. \A m \in 0 .. N : m \in P
  BY <1>1, <1>2, AlongTheList
<1>4. PICK f : Upto(N, f)
  BY <1>3 DEF P
<1> QED BY <1>4 DEF Follows

-----------------------------------------------------------------------------
(* CodeRabbit's stream.                                                    *)

Events == [type : EventTypes, id : Ids, findings : Nat]
StreamStates == [ok : BOOLEAN, completed : BOOLEAN, seen : SUBSET Ids, streamed : Nat]

Terminal == {"review_completed", "review_skipped"}

LEMMA ReadEventIs ==
  ASSUME NEW s \in StreamStates, NEW e \in Events
  PROVE  ReadEvent(s, e) \in StreamStates
BY DEF ReadEvent, StreamState, StreamRefused, StreamStates, Events

\* What is known of a stream that was read to its end and not refused.
LEMMA StreamRead ==
  ASSUME NEW stream \in Seq(Events)
  PROVE  LET end == parseAgentStream(stream)
             N   == Len(stream)
         IN /\ end \in StreamStates
            /\ end.ok /\ end.completed =>
                 /\ N >= 1 /\ stream[N].type \in Terminal /\ stream[N].findings = end.streamed
                 /\ \A i \in 1 .. N : /\ stream[i].type \in Terminal \cup {"finding", "status"}
                                      /\ stream[i].type = "finding" => stream[i].id \in end.seen
                 /\ stream[1].type = "status" => end.streamed <= N - 2
<1> DEFINE N == Len(stream)
           first == StreamState(TRUE, FALSE, {}, 0)
           ReadsTo(state) ==
             state = [n \in 0 .. N |-> IF n = 0 THEN first ELSE ReadEvent(state[n - 1], stream[n])]
<1>0. N \in Nat /\ first \in StreamStates
  BY DEF StreamState, StreamStates
<1>1. \E state : ReadsTo(state)
  <2> DEFINE Step == [n \in 1 .. N |-> [s \in StreamStates |-> ReadEvent(s, stream[n])]]
  <2>1. Step \in [1 .. N -> [StreamStates -> StreamStates]]
    BY ReadEventIs
  <2>2. PICK f : Follows(f, N, StreamStates, first, Step)
    <3> HIDE DEF Step, first, N
    <3> QED BY <1>0, <2>1, ThereIsOne
  <2>3. \A n \in 1 .. N : n - 1 \in 0 .. N /\ Step[n][f[n - 1]] = ReadEvent(f[n - 1], stream[n])
    BY <1>0, <2>2 DEF Follows
  <2>4. \A n \in 0 .. N : f[n] = IF n = 0 THEN first ELSE ReadEvent(f[n - 1], stream[n])
    <3> HIDE DEF Step, first, N
    <3> QED BY <1>0, <2>2, <2>3 DEF Follows
  <2>5. ReadsTo(f)
    <3> HIDE DEF Step, first
    <3> QED BY <2>2, <2>4 DEF Follows
  <2> HIDE DEF ReadsTo
  <2> QED BY <2>5
<1>2. PICK state : ReadsTo(state) /\ parseAgentStream(stream) = state[N]
  BY <1>1 DEF parseAgentStream
<1>3. state[0] = first /\ \A n \in 1 .. N : state[n] = ReadEvent(state[n - 1], stream[n])
  BY <1>0, <1>2
<1> DEFINE Known(n) ==
             /\ state[n] \in StreamStates
             /\ state[n].ok =>
                  \A i \in 1 .. n : /\ stream[i].type \in Terminal \cup {"finding", "status"}
                                    /\ stream[i].type = "finding" => stream[i].id \in state[n].seen
             /\ state[n].ok /\ ~state[n].completed =>
                  state[n].streamed <= n /\ (n >= 1 /\ stream[1].type = "status" => state[n].streamed <= n - 1)
             /\ state[n].ok /\ state[n].completed =>
                  /\ n >= 1 /\ stream[n].type \in Terminal /\ stream[n].findings = state[n].streamed
                  /\ stream[1].type = "status" => state[n].streamed <= n - 2
<1>4. Known(0)
  BY <1>0, <1>3 DEF StreamState
<1>5. ASSUME NEW n \in 0 .. N, Known(n), n < N PROVE Known(n + 1)
  <2> DEFINE s == state[n]
             e == stream[n + 1]
  <2>1. state[n + 1] = ReadEvent(s, e) /\ n + 1 \in 1 .. N /\ (n + 1) - 1 = n
    BY <1>0, <1>3, <1>5
  <2>2. s \in StreamStates /\ e \in Events
    BY <1>5, <2>1
  <2>3. state[n + 1] \in StreamStates
    BY <2>1, <2>2, ReadEventIs
  <2>4. CASE ~state[n + 1].ok
    BY <2>3, <2>4
  <2>5. CASE state[n + 1].ok
    <3>1. s.ok /\ ~s.completed /\ e.type \in Terminal \cup {"finding", "status"}
      BY <2>1, <2>2, <2>5 DEF ReadEvent, StreamRefused, StreamState, Events, EventTypes, TerminalOK, Terminal
    <3>2. \A i \in 1 .. n + 1 : i \in 1 .. n \/ i = n + 1
      BY <1>0
    <3>3. s.streamed \in Nat /\ s.streamed <= n /\ (n >= 1 /\ stream[1].type = "status" => s.streamed <= n - 1)
      BY <1>5, <2>2, <3>1 DEF StreamStates
    <3>4. CASE e.type = "finding"
      <4>1. state[n + 1] = StreamState(TRUE, FALSE, s.seen \cup {e.id}, s.streamed + 1)
        BY <2>1, <3>1, <3>4 DEF ReadEvent
      <4>2. state[n + 1].seen = s.seen \cup {e.id} /\ state[n + 1].streamed = s.streamed + 1
            /\ ~state[n + 1].completed
        BY <4>1 DEF StreamState
      <4>3. n + 1 >= 1 /\ stream[1].type = "status" => n >= 1
        BY <3>4
      <4>4. \A i \in 1 .. n + 1 : /\ stream[i].type \in Terminal \cup {"finding", "status"}
                                  /\ stream[i].type = "finding" => stream[i].id \in state[n + 1].seen
        BY <1>5, <3>1, <3>2, <4>2
      <4> QED BY <1>0, <2>3, <3>3, <4>2, <4>3, <4>4
    <3>5. CASE e.type = "status"
      <4>1. state[n + 1] = s
        BY <2>1, <3>1, <3>5 DEF ReadEvent
      <4>2. s.streamed <= (n + 1) - 1 /\ s.streamed <= n + 1
        BY <3>3
      <4>3. \A i \in 1 .. n + 1 : /\ stream[i].type \in Terminal \cup {"finding", "status"}
                                  /\ stream[i].type = "finding" => stream[i].id \in state[n + 1].seen
        BY <1>5, <3>1, <3>2, <3>5, <4>1
      <4> QED BY <2>3, <3>1, <4>1, <4>2, <4>3
    <3>6. CASE e.type \in Terminal
      <4>1. TerminalOK(s, e) /\ state[n + 1] = StreamState(TRUE, TRUE, s.seen, s.streamed)
        BY <2>1, <2>5, <3>1, <3>6 DEF ReadEvent, StreamRefused, StreamState, Terminal
      <4>2. /\ state[n + 1].seen = s.seen /\ state[n + 1].streamed = s.streamed /\ state[n + 1].completed
            /\ e.findings = s.streamed
        BY <4>1 DEF StreamState, TerminalOK
      <4>3. stream[1].type = "status" => n >= 1
        BY <3>6 DEF Terminal
      <4>4. \A i \in 1 .. n + 1 : /\ stream[i].type \in Terminal \cup {"finding", "status"}
                                  /\ stream[i].type = "finding" => stream[i].id \in state[n + 1].seen
        BY <1>5, <3>1, <3>2, <3>6, <4>2 DEF Terminal
      <4>5. stream[1].type = "status" => state[n + 1].streamed <= (n + 1) - 2
        BY <3>3, <4>2, <4>3
      <4> QED BY <2>3, <3>6, <4>2, <4>4, <4>5
    <3> QED BY <3>1, <3>4, <3>5, <3>6
  <2> QED BY <2>4, <2>5
<1>6. Known(N)
  <2> DEFINE P == {n \in 0 .. N : Known(n)}
  <2>1. 0 \in P /\ \A n \in 0 .. N : n \in P /\ n < N => n + 1 \in P
    <3> HIDE DEF Known, N
    <3> QED BY <1>0, <1>4, <1>5
  <2> HIDE DEF Known, P, N
  <2>2. \A n \in 0 .. N : n \in P
    BY <1>0, <2>1, AlongTheList
  <2> QED BY <1>0, <2>2 DEF P
<1> QED BY <1>2, <1>6

\* One sequence after another.
Joined(u, s, t) ==
  /\ Len(u) = Len(s) + Len(t)
  /\ \A i \in 1 .. Len(s) : u[i] = s[i]
  /\ \A i \in 1 .. Len(t) : u[Len(s) + i] = t[i]

LEMMA Concatenated ==
  ASSUME NEW S, NEW s \in Seq(S), NEW t \in Seq(S)
  PROVE  s \o t \in Seq(S) /\ Joined(s \o t, s, t)
<1>1. /\ s \o t \in Seq(S) /\ Len(s \o t) = Len(s) + Len(t)
      /\ \A i \in 1 .. Len(s) + Len(t) : (s \o t)[i] = IF i <= Len(s) THEN s[i] ELSE t[i - Len(s)]
  BY ConcatProperties
<1>2. Len(s) \in Nat /\ Len(t) \in Nat
  OBVIOUS
<1>3. \A i \in 1 .. Len(t) : Len(s) + i \in 1 .. Len(s) + Len(t) /\ ~(Len(s) + i <= Len(s)) /\ (Len(s) + i) - Len(s) = i
  BY <1>2
<1> QED BY <1>1, <1>2, <1>3 DEF Joined

\* The stream of a whole review: a status, the findings, and the end.
LEMMA WholeStreamIs ==
  ASSUME NEW raised \in Seq(Ids)
  PROVE  LET whole == WholeStream(raised)
             k     == Len(raised)
         IN /\ whole \in Seq(Events) /\ Len(whole) = k + 2
            /\ whole[1].type = "status"
            /\ \A i \in 1 .. k : whole[i + 1] = Event("finding", raised[i], 0)
            /\ whole[k + 2].type \in Terminal /\ whole[k + 2].findings = k
<1> DEFINE k == Len(raised)
           begins == <<Event("status", ThisReason, 0)>>
           finds == [i \in DOMAIN raised |-> Event("finding", raised[i], 0)]
           ends == <<Event(IF raised = <<>> THEN "review_skipped" ELSE "review_completed", ThisReason, k)>>
<1>1. k \in Nat /\ DOMAIN raised = 1 .. k /\ ThisReason \in Ids
  BY ReportAssumption
<1>2. begins \in Seq(Events) /\ Len(begins) = 1 /\ begins[1].type = "status"
  BY <1>1 DEF Event, Events, EventTypes
<1>3. finds \in Seq(Events) /\ Len(finds) = k /\ \A i \in 1 .. k : finds[i] = Event("finding", raised[i], 0)
  BY <1>1 DEF Event, Events, EventTypes
<1>4. ends \in Seq(Events) /\ Len(ends) = 1 /\ ends[1].type \in Terminal /\ ends[1].findings = k
  BY <1>1 DEF Event, Events, EventTypes, Terminal
<1>5. WholeStream(raised) = (begins \o finds) \o ends
  BY DEF WholeStream
<1> HIDE DEF k, begins, finds, ends
<1>6. /\ begins \o finds \in Seq(Events) /\ Len(begins \o finds) = k + 1
      /\ (begins \o finds)[1] = begins[1]
      /\ \A i \in 1 .. k : (begins \o finds)[i + 1] = finds[i]
  <2>1. begins \o finds \in Seq(Events) /\ Joined(begins \o finds, begins, finds)
    BY <1>2, <1>3, Concatenated
  <2>2. \A i \in 1 .. k : i + 1 = Len(begins) + i
    BY <1>1, <1>2
  <2> QED BY <1>1, <1>2, <1>3, <2>1, <2>2 DEF Joined
<1>7. /\ (begins \o finds) \o ends \in Seq(Events) /\ Len((begins \o finds) \o ends) = k + 2
      /\ \A i \in 1 .. k + 1 : ((begins \o finds) \o ends)[i] = (begins \o finds)[i]
      /\ ((begins \o finds) \o ends)[k + 2] = ends[1]
  <2> DEFINE start == begins \o finds
  <2> HIDE DEF start
  <2>1. start \in Seq(Events) /\ Len(start) = k + 1 /\ k + 2 = Len(start) + 1
    BY <1>1, <1>6 DEF start
  <2>2. start \o ends \in Seq(Events) /\ Joined(start \o ends, start, ends)
    BY <1>4, <2>1, Concatenated
  <2>3. Len(start \o ends) = k + 2 /\ \A i \in 1 .. k + 1 : (start \o ends)[i] = start[i]
    BY <1>1, <1>4, <2>1, <2>2 DEF Joined
  <2>4. (start \o ends)[k + 2] = ends[1]
    <3>1. 1 \in 1 .. Len(ends)
      BY <1>4
    <3> QED BY <2>1, <2>2, <3>1 DEF Joined
  <2> QED BY <2>2, <2>3, <2>4 DEF start
<1>8. \A i \in 1 .. k : i + 1 \in 1 .. k + 1
  BY <1>1
<1> QED BY <1>1, <1>2, <1>3, <1>4, <1>5, <1>6, <1>7, <1>8 DEF k

\* Whatever is captured of a review, what is read to a good end has seen all that
\* the review raised.
LEMMA CapturedIsWhole ==
  ASSUME NEW raised \in Seq(Ids), NEW stream \in Captured(raised),
         parseAgentStream(stream).ok, parseAgentStream(stream).completed
  PROVE  Range(raised) \subseteq parseAgentStream(stream).seen /\ parseAgentStream(stream).seen \subseteq Ids
<1> DEFINE k == Len(raised)
           whole == WholeStream(raised)
           end == parseAgentStream(stream)
           N == Len(stream)
           Whole == Range(raised) \subseteq end.seen /\ end.seen \subseteq Ids
<1>1. /\ k \in Nat /\ whole \in Seq(Events) /\ Len(whole) = k + 2 /\ DOMAIN whole = 1 .. k + 2
      /\ whole[1].type = "status"
      /\ \A i \in 1 .. k : whole[i + 1].type = "finding" /\ whole[i + 1].id = raised[i]
      /\ whole[k + 2].type \in Terminal /\ whole[k + 2].findings = k
  <2>1. k \in Nat
    OBVIOUS
  <2>2. whole \in Seq(Events) /\ Len(whole) = k + 2 /\ whole[1].type = "status"
        /\ whole[k + 2].type \in Terminal /\ whole[k + 2].findings = k
    BY WholeStreamIs
  <2>3. \A i \in 1 .. k : whole[i + 1] = Event("finding", raised[i], 0)
    BY WholeStreamIs
  <2> HIDE DEF whole, k
  <2>4. DOMAIN whole = 1 .. k + 2
    BY <2>1, <2>2
  <2>5. \A i \in 1 .. k : whole[i + 1].type = "finding" /\ whole[i + 1].id = raised[i]
    <3> SUFFICES ASSUME NEW i \in 1 .. k
                 PROVE  whole[i + 1].type = "finding" /\ whole[i + 1].id = raised[i]
      OBVIOUS
    <3>1. whole[i + 1] = Event("finding", raised[i], 0)
      BY <2>3
    <3> QED BY <3>1 DEF Event
  <2> QED BY <2>1, <2>2, <2>4, <2>5
<1>2. \A i \in 1 .. k + 1 : whole[i].type \notin Terminal
  <2>1. \A i \in 1 .. k + 1 : i = 1 \/ (i - 1 \in 1 .. k /\ i = (i - 1) + 1)
    BY <1>1
  <2> QED BY <1>1, <2>1 DEF Terminal
<1>3. ASSUME stream \in Seq(Events),
             \A i \in 1 .. k : \E j \in 1 .. N : stream[j].type = "finding" /\ stream[j].id = raised[i]
      PROVE  Whole
  <2>1. \A i \in 1 .. k : raised[i] \in end.seen
    BY <1>3, StreamRead
  <2>2. end.seen \subseteq Ids
    BY <1>3, StreamRead DEF StreamStates
  <2> QED BY <2>1, <2>2 DEF Range
<1> DEFINE UpTo(n) == SubSeq(whole, 1, n)
<1>4. CASE stream = whole
  BY <1>1, <1>3, <1>4
<1>5. CASE stream = Append(whole, whole[1])
  <2>1. stream \in Seq(Events) /\ N = k + 3 /\ stream[N] = whole[1]
    BY <1>1, <1>5
  <2> QED BY <1>1, <2>1, StreamRead DEF Terminal
<1>6. ASSUME NEW n \in 0 .. k + 2, stream = UpTo(n)
      PROVE  Whole
  <2>1. stream \in Seq(Events) /\ N = n /\ \A i \in 1 .. n : stream[i] = whole[i]
    BY <1>1, <1>6
  <2>2. n >= 1 /\ stream[n].type \in Terminal
    BY <2>1, StreamRead
  <2>3. n = k + 2
    BY <1>1, <1>2, <2>1, <2>2
  <2> QED BY <1>1, <1>3, <2>1, <2>3
<1>7. ASSUME NEW n \in 1 .. k + 2, stream = UpTo(n) \o whole
      PROVE  Whole
  <2>1. UpTo(n) \in Seq(Events) /\ Len(UpTo(n)) = n
    BY <1>1
  <2>2. stream \in Seq(Events) /\ N = n + (k + 2) /\ \A i \in 1 .. k + 2 : stream[n + i] = whole[i]
    <3> DEFINE start == UpTo(n)
    <3> HIDE DEF UpTo, whole, start, k
    <3>1. start \in Seq(Events) /\ Len(start) = n /\ stream = start \o whole
      BY <1>7, <2>1 DEF start
    <3>2. start \o whole \in Seq(Events) /\ Joined(start \o whole, start, whole)
      BY <1>1, <3>1, Concatenated
    <3> QED BY <1>1, <3>1, <3>2 DEF Joined
  <2>3. \A i \in 1 .. k : i + 1 \in 1 .. k + 2 /\ n + (i + 1) \in 1 .. N
    BY <1>1, <2>2
  <2>4. \A i \in 1 .. k : stream[n + (i + 1)].type = "finding" /\ stream[n + (i + 1)].id = raised[i]
    BY <1>1, <2>2, <2>3
  <2> HIDE DEF k, whole, N, UpTo
  <2>5. \A i \in 1 .. k : \E j \in 1 .. N : stream[j].type = "finding" /\ stream[j].id = raised[i]
    BY <2>3, <2>4
  <2> QED BY <1>3, <2>2, <2>5
<1>8. ASSUME NEW n \in 1 .. k + 2, stream = RemoveAt(whole, n)
      PROVE  Whole
  <2> DEFINE front == SubSeq(whole, 1, n - 1)
             back == SubSeq(whole, n + 1, k + 2)
  <2>1. /\ front \in Seq(Events) /\ Len(front) = n - 1 /\ \A i \in 1 .. n - 1 : front[i] = whole[i]
        /\ back \in Seq(Events) /\ Len(back) = k + 2 - n /\ \A i \in 1 .. k + 2 - n : back[i] = whole[n + i]
    BY <1>1
  <2>2. stream = front \o back
    BY <1>1, <1>8 DEF RemoveAt
  <2>3. /\ stream \in Seq(Events) /\ N = k + 1
        /\ \A i \in 1 .. n - 1 : stream[i] = whole[i]
        /\ \A i \in n .. k + 1 : stream[i] = whole[i + 1]
    <3> HIDE DEF front, back, whole, k
    <3>1. /\ stream \in Seq(Events) /\ N = (n - 1) + (k + 2 - n)
          /\ \A i \in 1 .. n - 1 : stream[i] = front[i]
          /\ \A i \in 1 .. k + 2 - n : stream[n - 1 + i] = back[i]
      <4>1. front \o back \in Seq(Events) /\ Joined(front \o back, front, back)
        BY <2>1, Concatenated
      <4> QED BY <2>1, <2>2, <4>1 DEF Joined
    <3>2. N = k + 1
      BY <1>1, <3>1
    <3>3. ASSUME NEW i \in n .. k + 1 PROVE stream[i] = whole[i + 1]
      <4> DEFINE j == i - (n - 1)
      <4>1. j \in 1 .. k + 2 - n /\ n - 1 + j = i /\ n + j = i + 1
        BY <1>1
      <4> HIDE DEF j
      <4>2. stream[n - 1 + j] = back[j]
        BY <3>1, <4>1
      <4>3. back[j] = whole[n + j]
        BY <2>1, <4>1
      <4> QED BY <4>1, <4>2, <4>3
    <3> QED BY <2>1, <3>1, <3>2, <3>3
  <2>4. CASE n = 1
    <3>1. \A i \in 1 .. k : i \in n .. k + 1 /\ i \in 1 .. N
      BY <1>1, <2>3, <2>4
    <3>2. \A i \in 1 .. k : stream[i] = whole[i + 1]
      BY <2>3, <3>1
    <3> HIDE DEF k, whole, N
    <3>3. \A i \in 1 .. k : \E j \in 1 .. N : stream[j].type = "finding" /\ stream[j].id = raised[i]
      <4> SUFFICES ASSUME NEW i \in 1 .. k
                   PROVE  i \in 1 .. N /\ stream[i].type = "finding" /\ stream[i].id = raised[i]
        OBVIOUS
      <4>1. whole[i + 1].type = "finding" /\ whole[i + 1].id = raised[i]
        BY <1>1
      <4> QED BY <3>1, <3>2, <4>1
    <3> QED BY <1>3, <2>3, <3>3
  <2>5. CASE n \in 2 .. k + 1
    <3>1. stream[1].type = "status" /\ stream[k + 1].findings = k
      BY <1>1, <2>3, <2>5
    <3>2. end.streamed <= k - 1 /\ stream[N].findings = end.streamed
      BY <1>1, <2>3, <3>1, StreamRead
    <3> QED BY <1>1, <2>3, <3>1, <3>2
  <2>6. CASE n = k + 2
    <3>1. stream[N] = whole[k + 1]
      BY <1>1, <2>3, <2>6
    <3> QED BY <1>1, <1>2, <2>3, <3>1, StreamRead
  <2> QED BY <1>1, <2>4, <2>5, <2>6
<1>9. ASSUME NEW n \in 1 .. k + 2, NEW type \in {"malformed", "unreadable", "review_failed"},
             stream = ReplaceAt(whole, n, Event(type, ThisReason, 0))
      PROVE  Whole
  <2>1. Event(type, ThisReason, 0) \in Events
    BY ReportAssumption DEF Event, Events, EventTypes
  <2>2. stream \in Seq(Events) /\ N = k + 2 /\ stream[n].type = type
    <3>1. stream = [whole EXCEPT ![n] = Event(type, ThisReason, 0)]
      BY <1>9 DEF ReplaceAt
    <3> QED BY <1>1, <2>1, <3>1 DEF Event
  <2> QED BY <1>1, <2>2, StreamRead DEF Terminal
<1>10. \/ stream = whole \/ stream = Append(whole, whole[1])
       \/ \E n \in 0 .. k + 2 : stream = UpTo(n)
       \/ \E n \in 1 .. k + 2 : stream = UpTo(n) \o whole \/ stream = RemoveAt(whole, n)
       \/ \E n \in 1 .. k + 2, type \in {"malformed", "unreadable", "review_failed"} :
            stream = ReplaceAt(whole, n, Event(type, ThisReason, 0))
  <2>1. Len(whole) = k + 2 /\ DOMAIN whole = 1 .. k + 2
    BY <1>1
  <2> DEFINE cut == {UpTo(n) : n \in 0 .. Len(whole)}
             late == {UpTo(n) \o whole : n \in DOMAIN whole}
             lossy == {RemoveAt(whole, n) : n \in DOMAIN whole}
             broken == {ReplaceAt(whole, n, Event(type, ThisReason, 0)) :
                          n \in DOMAIN whole, type \in {"malformed", "unreadable", "review_failed"}}
             all == {whole, Append(whole, whole[1])} \cup cut \cup late \cup lossy \cup broken
  <2>2. stream \in all
    <3>1. Captured(raised) = all
      BY DEF Captured
    <3> HIDE DEF all
    <3> QED BY <3>1
  <2> HIDE DEF whole, UpTo, k
  <2>3. stream \in cut => \E n \in 0 .. k + 2 : stream = UpTo(n)
    BY <2>1
  <2>4. stream \in late => \E n \in 1 .. k + 2 : stream = UpTo(n) \o whole
    BY <2>1
  <2>5. stream \in lossy => \E n \in 1 .. k + 2 : stream = RemoveAt(whole, n)
    BY <2>1
  <2>6. stream \in broken =>
          \E n \in 1 .. k + 2, type \in {"malformed", "unreadable", "review_failed"} :
            stream = ReplaceAt(whole, n, Event(type, ThisReason, 0))
    BY <2>1
  <2> HIDE DEF cut, late, lossy, broken
  <2> QED BY <2>2, <2>3, <2>4, <2>5, <2>6
<1> QED BY <1>4, <1>5, <1>6, <1>7, <1>8, <1>9, <1>10

-----------------------------------------------------------------------------
(* The scan of a source file.                                              *)

\* The least of some numbers is one of them.
LEMMA LeastIsOne ==
  ASSUME NEW S \in SUBSET Nat, S # {}
  PROVE  \E m \in S : \A n \in S : m <= n
<1>1. PICK m \in S : \A n \in S : ~(<<n, m>> \in OpToRel(<, Nat))
  BY WFMin, NatLessThanWellFounded
<1>2. ASSUME NEW n \in S PROVE m <= n
  <2>1. <<n, m>> \notin OpToRel(<, Nat)
    BY <1>1
  <2>2. ~(n < m)
    BY <2>1 DEF OpToRel
  <2> QED BY <2>2
<1> QED BY <1>2

\* What a line may be.
LEMMA LineIs ==
  ASSUME NEW l \in Line
  PROVE  /\ l.text \in SuppressionIds \cup {""}
         /\ l.kind = "comment" => l.reason \in Nat
         /\ l.kind = "directive" => l.form \in Forms
<1>1. CASE l \in [kind : {"directive"}, form : Forms, text : SuppressionIds \cup {""}, reason : Reasons]
  BY <1>1
<1>2. CASE l \in [kind : {"code"}, text : SuppressionIds]
  BY <1>2
<1>3. CASE l \in [kind : {"comment"}, reason : Nat, text : {""}]
  BY <1>3
<1>4. CASE l = Blank
  BY <1>4 DEF Blank
<1> QED BY <1>1, <1>2, <1>3, <1>4 DEF Line

\* Whether one of the comments that lead up to the line after n says so much,
\* and whether two of them say something.
OneSays(file, n, much) ==
  \E j \in 1 .. n : LeadsUpTo(file, j, n + 1) /\ file[j].reason >= much
TwoSay(file, n) ==
  \E j, k \in 1 .. n : /\ j # k /\ LeadsUpTo(file, j, n + 1) /\ LeadsUpTo(file, k, n + 1)
                       /\ file[j].reason >= 1 /\ file[k].reason >= 1

\* One line further down: a comment adds what it says, any other line ends it all.
LEMMA OneFurther ==
  ASSUME NEW file \in Seq(Line), NEW n \in Nat, n + 1 \in 1 .. Len(file)
  PROVE  /\ file[n + 1].kind # "comment" =>
              (\A much \in {1, 2} : ~OneSays(file, n + 1, much)) /\ ~TwoSay(file, n + 1)
         /\ file[n + 1].kind = "comment" =>
              /\ \A much \in {1, 2} : OneSays(file, n + 1, much)
                                        <=> OneSays(file, n, much) \/ file[n + 1].reason >= much
              /\ TwoSay(file, n + 1) <=> TwoSay(file, n) \/ (OneSays(file, n, 1) /\ file[n + 1].reason >= 1)
<1>1. \A j \in 1 .. n + 1 : j \in 1 .. n \/ j = n + 1
  OBVIOUS
<1>2. \A j \in 1 .. n + 1 : n + 1 \in j .. (n + 1 + 1) - 1
  OBVIOUS
<1>3. CASE file[n + 1].kind # "comment"
  <2>1. \A j \in 1 .. n + 1 : ~LeadsUpTo(file, j, n + 1 + 1)
    BY <1>2, <1>3 DEF LeadsUpTo
  <2> QED BY <1>3, <2>1 DEF OneSays, TwoSay
<1>4. CASE file[n + 1].kind = "comment"
  <2>1. LeadsUpTo(file, n + 1, n + 1 + 1)
    BY <1>4 DEF LeadsUpTo
  <2>2. ASSUME NEW j \in 1 .. n PROVE LeadsUpTo(file, j, n + 1 + 1) <=> LeadsUpTo(file, j, n + 1)
    <3>1. \A k \in j .. (n + 1 + 1) - 1 : k \in j .. (n + 1) - 1 \/ k = n + 1
      OBVIOUS
    <3>2. \A k \in j .. (n + 1) - 1 : k \in j .. (n + 1 + 1) - 1
      OBVIOUS
    <3>3. j < n + 1 /\ j < n + 1 + 1
      OBVIOUS
    <3> QED BY <1>4, <3>1, <3>2, <3>3 DEF LeadsUpTo
  <2>3. \A j \in 1 .. n : j \in 1 .. n + 1 /\ j # n + 1
    OBVIOUS
  <2>4. n + 1 \in 1 .. n + 1
    OBVIOUS
  <2>5. ASSUME NEW much \in {1, 2}
        PROVE  OneSays(file, n + 1, much) <=> OneSays(file, n, much) \/ file[n + 1].reason >= much
    BY <1>1, <2>1, <2>2, <2>3, <2>4 DEF OneSays
  <2>6. TwoSay(file, n + 1) <=> TwoSay(file, n) \/ (OneSays(file, n, 1) /\ file[n + 1].reason >= 1)
    BY <1>1, <2>1, <2>2, <2>3, <2>4 DEF OneSays, TwoSay
  <2> QED BY <1>4, <2>5, <2>6
<1> QED BY <1>3, <1>4

\* The words above a line reach two units if, and only if, a comment there has two
\* or two of them have one.
LEMMA WordsAbove ==
  ASSUME NEW file \in Seq(Line), NEW i \in 1 .. Len(file)
  PROVE  blockReasonAbove(file, i) >= 2 <=> OneSays(file, i - 1, 2) \/ TwoSay(file, i - 1)
<1> DEFINE Next1(v, n) == IF file[n].kind # "comment" THEN 0 ELSE v + file[n].reason
           N == i - 1
           Counts(words) ==
             words = [n \in 0 .. N |-> IF n = 0 \/ file[n].kind # "comment" THEN 0
                                       ELSE words[n - 1] + file[n].reason]
<1>1. N \in Nat /\ \A n \in 1 .. N : n \in 1 .. Len(file) /\ n - 1 \in 0 .. N /\ file[n] \in Line
  OBVIOUS
<1>2. ASSUME NEW n \in 1 .. N, NEW v \in Nat PROVE Next1(v, n) \in Nat
  <2>1. file[n].kind = "comment" => file[n].reason \in Nat
    BY <1>1, LineIs
  <2> QED BY <2>1
<1>3. \E words : Counts(words)
  <2> DEFINE Step == [n \in 1 .. N |-> [v \in Nat |-> Next1(v, n)]]
  <2>1. Step \in [1 .. N -> [Nat -> Nat]]
    BY <1>2
  <2>2. PICK f : Follows(f, N, Nat, 0, Step)
    <3> HIDE DEF Step, N
    <3> QED BY <1>1, <2>1, ThereIsOne
  <2>3. \A n \in 1 .. N : Step[n][f[n - 1]] = Next1(f[n - 1], n)
    BY <1>1, <2>2 DEF Follows
  <2>4. ASSUME NEW n \in 0 .. N
        PROVE  f[n] = IF n = 0 \/ file[n].kind # "comment" THEN 0 ELSE f[n - 1] + file[n].reason
    <3> HIDE DEF Step, N
    <3>1. f[0] = 0 /\ \A m \in 1 .. N : f[m] = Step[m][f[m - 1]]
      BY <2>2 DEF Follows
    <3>2. n = 0 \/ n \in 1 .. N
      BY <1>1
    <3> QED BY <2>3, <3>1, <3>2
  <2>5. Counts(f)
    <3> HIDE DEF Step
    <3> QED BY <2>2, <2>4 DEF Follows
  <2> HIDE DEF Counts
  <2> QED BY <2>5
<1>4. PICK words : Counts(words) /\ blockReasonAbove(file, i) = words[N]
  BY <1>3 DEF blockReasonAbove
<1>5. words[0] = 0 /\ \A n \in 1 .. N : words[n] = Next1(words[n - 1], n)
  BY <1>1, <1>4
<1> DEFINE Known(n) ==
             /\ words[n] \in Nat
             /\ words[n] >= 1 <=> OneSays(file, n, 1)
             /\ words[n] >= 2 <=> OneSays(file, n, 2) \/ TwoSay(file, n)
<1>6. Known(0)
  BY <1>5 DEF OneSays, TwoSay
<1>7. ASSUME NEW n \in 0 .. N, Known(n), n < N PROVE Known(n + 1)
  <2>1. n + 1 \in 1 .. N /\ n \in Nat /\ (n + 1) - 1 = n
    BY <1>1, <1>7
  <2>2. words[n + 1] = Next1(words[n], n + 1) /\ n + 1 \in 1 .. Len(file)
    BY <1>1, <1>5, <2>1
  <2>3. CASE file[n + 1].kind # "comment"
    <3>1. ~OneSays(file, n + 1, 1) /\ ~OneSays(file, n + 1, 2) /\ ~TwoSay(file, n + 1)
      BY <2>1, <2>2, <2>3, OneFurther
    <3>2. words[n + 1] = 0
      BY <2>2, <2>3
    <3> QED BY <3>1, <3>2
  <2>4. CASE file[n + 1].kind = "comment"
    <3> DEFINE r == file[n + 1].reason
    <3>1. r \in Nat /\ words[n + 1] = words[n] + r
      BY <1>1, <2>1, <2>2, <2>4, LineIs
    <3>2. /\ OneSays(file, n + 1, 1) <=> OneSays(file, n, 1) \/ r >= 1
          /\ OneSays(file, n + 1, 2) <=> OneSays(file, n, 2) \/ r >= 2
          /\ TwoSay(file, n + 1) <=> TwoSay(file, n) \/ (OneSays(file, n, 1) /\ r >= 1)
      BY <2>1, <2>2, <2>4, OneFurther
    <3> HIDE DEF r
    <3> QED BY <1>7, <3>1, <3>2
  <2> QED BY <2>3, <2>4
<1>8. Known(N)
  <2> DEFINE P == {n \in 0 .. N : Known(n)}
  <2>1. 0 \in P /\ \A n \in 0 .. N : n \in P /\ n < N => n + 1 \in P
    <3> HIDE DEF Known, N
    <3> QED BY <1>1, <1>6, <1>7
  <2> HIDE DEF Known, P, N
  <2>2. \A n \in 0 .. N : n \in P
    BY <1>1, <2>1, AlongTheList
  <2> QED BY <1>1, <2>2 DEF P
<1> QED BY <1>4, <1>8

\* What the scan makes of a directive that opens something is what the rule says.
LEMMA DocumentedIsExplained ==
  ASSUME NEW file \in Seq(Line), NEW markdown \in BOOLEAN, NEW i \in 1 .. Len(file),
         file[i].kind = "directive", ~file[i].form.closing
  PROVE  documented(markdown, file, i) <=> Explained(markdown, file, i)
<1>1. i = (i - 1) + 1 /\ i - 1 \in Nat
  OBVIOUS
<1>2. Explained(markdown, file, i) <=>
        \/ file[i].reason = "a reason"
        \/ file[i].reason = "" /\ ~markdown /\ (OneSays(file, i - 1, 2) \/ TwoSay(file, i - 1))
  BY <1>1 DEF Explained, OneSays, TwoSay
<1> QED BY <1>2, WordsAbove DEF documented, MIN_BLOCK_REASON_LENGTH

\* What a directive covers has an id.
LEMMA CoveredHasId ==
  ASSUME NEW file \in Seq(Line), NEW i \in 1 .. Len(file), file[i].kind = "directive"
  PROVE  AnchorOf[file[i].form, covered(file, i)] \in SuppressionIds
<1> DEFINE code == {j \in i + 1 .. Len(file) : file[j].text # ""}
<1>1. \A j \in code : j \in 1 .. Len(file)
  <2>1. \A j \in i + 1 .. Len(file) : j \in 1 .. Len(file)
    OBVIOUS
  <2> HIDE DEF code
  <2>2. \A j \in code : j \in i + 1 .. Len(file)
    BY DEF code
  <2> QED BY <2>1, <2>2
<1>0. \A j \in 1 .. Len(file) : file[j].text \in SuppressionIds \cup {""}
  <2>1. \A j \in 1 .. Len(file) : file[j] \in Line
    OBVIOUS
  <2> QED BY <2>1, LineIs
<1>2. covered(file, i) \in SuppressionIds \cup {""}
  <2>1. CASE code # {} /\ file[i].form.next
    <3> DEFINE first == CHOOSE j \in code : \A k \in code : j <= k
    <3>1. first \in code
      <4> HIDE DEF code
      <4>1. code \in SUBSET Nat
        BY <1>1
      <4> QED BY <2>1, <4>1, LeastIsOne
    <3>2. covered(file, i) = file[first].text
      BY <2>1 DEF covered
    <3> HIDE DEF first, code
    <3> QED BY <1>0, <1>1, <3>1, <3>2
  <2>2. CASE code = {} /\ file[i].form.next
    BY <2>2 DEF covered
  <2>3. CASE ~file[i].form.next
    BY <1>0, <2>3 DEF covered
  <2> QED BY <2>1, <2>2, <2>3
<1>3. file[i].form \in Forms
  <2>1. file[i] \in Line
    OBVIOUS
  <2> QED BY <2>1, LineIs
<1> QED BY Zenon, <1>2, <1>3, ScanAssumption

\* The scan asks for records of exactly what the rule says needs one.
LEMMA ScanIsTheRule ==
  ASSUME NEW file \in Seq(Line), NEW markdown \in BOOLEAN
  PROVE  /\ unexplained(scan(markdown, file)) = Silent(markdown, file)
         /\ Silent(markdown, file) \subseteq SuppressionIds
<1> DEFINE directives == {j \in DOMAIN file : file[j].kind = "directive"}
           Id(i) == AnchorOf[file[i].form, covered(file, i)]
           S(i) == toSuppression(markdown, file, i)
<1>1. \A i \in directives : i \in 1 .. Len(file) /\ file[i].kind = "directive"
  OBVIOUS
<1>2. \A i \in directives : Id(i) \in SuppressionIds
  BY Zenon, <1>1, CoveredHasId
<1>3. ASSUME NEW i \in directives
      PROVE  /\ S(i).id = Id(i)
             /\ whyUnacceptable(S(i)) <=>
                  ~file[i].form.closing /\ (file[i].form.blanket \/ ~Explained(markdown, file, i))
  <2>1. ~file[i].form.closing => (documented(markdown, file, i) <=> Explained(markdown, file, i))
    BY <1>1, DocumentedIsExplained
  <2> QED BY <2>1 DEF whyUnacceptable, toSuppression
<1>4. unexplained(scan(markdown, file)) = {S(i).id : i \in {j \in directives : whyUnacceptable(S(j))}}
  BY Zenon DEF unexplained, scan
<1>5. Silent(markdown, file) =
        {Id(i) : i \in {j \in directives : ~file[j].form.closing
                                             /\ (file[j].form.blanket \/ ~Explained(markdown, file, j))}}
  BY Zenon DEF Silent
<1> HIDE DEF S, Id, directives
<1> QED BY <1>2, <1>3, <1>4, <1>5

-----------------------------------------------------------------------------
(* GitHub's pages.                                                         *)

LEMMA LessOfTwo ==
  ASSUME NEW a \in Int, NEW b \in Int
  PROVE  Min({a, b}) = IF a <= b THEN a ELSE b
<1> DEFINE m == IF a <= b THEN a ELSE b
<1>1. m \in {a, b} /\ \A x \in {a, b} : m <= x
  OBVIOUS
<1>2. \A x \in {a, b} : (\A y \in {a, b} : x <= y) => x = m
  OBVIOUS
<1> QED BY <1>1, <1>2 DEF Min

\* The page after the first q alerts holds those from there on, until it is full;
\* one that is not full is the end of the list.
LEMMA PageIs ==
  ASSUME NEW S, NEW list \in Seq(S), NEW p \in Nat \ {0}
  PROVE  LET q    == (p - 1) * PAGE_SIZE
             page == PageOf(list, p)
         IN /\ q \in Nat /\ p * PAGE_SIZE = q + PAGE_SIZE
            /\ Range(page) \subseteq S
            /\ \A i \in 1 .. Len(list) : q < i /\ i <= q + PAGE_SIZE => list[i] \in Range(page)
            /\ Len(page) < PAGE_SIZE => Len(list) < q + PAGE_SIZE
<1> DEFINE q == (p - 1) * PAGE_SIZE
           N == Len(list)
           last == IF q + PAGE_SIZE <= N THEN q + PAGE_SIZE ELSE N
<1>1. q \in Nat /\ p * PAGE_SIZE = q + PAGE_SIZE /\ PAGE_SIZE \in Nat \ {0} /\ N \in Nat
  BY ReportAssumption
<1>2. PageOf(list, p) = SubSeq(list, q + 1, last)
  <2>1. Min({q + PAGE_SIZE, N}) = last
    <3> DEFINE a == q + PAGE_SIZE
    <3>1. a \in Int /\ N \in Int
      BY <1>1
    <3> HIDE DEF a
    <3>2. Min({a, N}) = IF a <= N THEN a ELSE N
      BY <3>1, LessOfTwo
    <3> QED BY <3>2 DEF a
  <2> QED BY <1>1, <2>1 DEF PageOf
<1> HIDE DEF q
<1> DEFINE page == SubSeq(list, q + 1, last)
<1>3. last \in Nat /\ last <= N
  BY <1>1
<1>4. /\ page \in Seq(S)
      /\ Len(page) = IF q + 1 <= last THEN last - q ELSE 0
      /\ \A i \in 1 .. last - q : page[i] = list[q + i]
  <2> HIDE DEF last
  <2>1. \A i \in q + 1 .. last : list[i] \in S
    BY <1>1, <1>3
  <2> QED BY <1>1, <1>3, <2>1
<1>5. DOMAIN page = 1 .. Len(page) /\ \A i \in 1 .. Len(page) : page[i] \in S
  <2>1. page \in Seq(S)
    BY <1>4
  <2> HIDE DEF page
  <2> QED BY <2>1
<1>6. Range(page) \subseteq S
  BY <1>5 DEF Range
<1>7. ASSUME NEW i \in 1 .. N, q < i, i <= q + PAGE_SIZE PROVE list[i] \in Range(page)
  <2>1. q + 1 <= last /\ i - q \in 1 .. last - q /\ q + (i - q) = i
    BY <1>1, <1>7
  <2>2. page[i - q] = list[i] /\ i - q \in DOMAIN page
    <3> HIDE DEF page, last
    <3> QED BY <1>4, <1>5, <2>1
  <2> HIDE DEF page
  <2> QED BY <2>2 DEF Range
<1>8. Len(page) < PAGE_SIZE => N < q + PAGE_SIZE
  <2>1. CASE q + PAGE_SIZE <= N
    <3>1. last = q + PAGE_SIZE
      BY <2>1
    <3> HIDE DEF last, page
    <3> QED BY <1>1, <1>4, <3>1
  <2> QED BY <1>1, <2>1
<1> HIDE DEF page, last
<1> QED BY <1>1, <1>2, <1>6, <1>7, <1>8 DEF page, q

\* Every alert of the one list is in the other, no nearer to its beginning.
Grows(l, m) ==
  /\ Len(l) <= Len(m)
  /\ \A i \in 1 .. Len(l) : \E j \in 1 .. Len(m) : i <= j /\ m[j] = l[i]

\* The list as it is built.
ListsTo(open, list) ==
  /\ list \in [0 .. Len(Newest) -> Seq(Findable)]
  /\ list[0] = <<>> /\ Listed(open) = list[Len(Newest)]
  /\ \A n \in 1 .. Len(Newest) :
       list[n] = IF Newest[n] \in open THEN Append(list[n - 1], Newest[n]) ELSE list[n - 1]

LEMMA ListIsBuilt ==
  ASSUME NEW open
  PROVE  \E list : ListsTo(open, list)
<1> DEFINE N == Len(Newest)
           Next1(l, n) == IF Newest[n] \in open THEN Append(l, Newest[n]) ELSE l
           Builds(list) ==
             list = [n \in 0 .. N |-> IF n = 0 THEN <<>>
                                      ELSE IF Newest[n] \in open THEN Append(list[n - 1], Newest[n])
                                      ELSE list[n - 1]]
           Step == [n \in 1 .. N |-> [l \in Seq(Findable) |-> Next1(l, n)]]
<1>1. N \in Nat /\ (\A n \in 1 .. N : n - 1 \in 0 .. N /\ Newest[n] \in Findable) /\ <<>> \in Seq(Findable)
  BY RunsAssumption
<1>2. \A n \in 1 .. N, l \in Seq(Findable) : Next1(l, n) \in Seq(Findable)
  BY <1>1
<1>3. PICK f : Follows(f, N, Seq(Findable), <<>>, Step)
  <2>1. Step \in [1 .. N -> [Seq(Findable) -> Seq(Findable)]]
    BY <1>2
  <2> HIDE DEF Step, N
  <2> QED BY <1>1, <2>1, ThereIsOne
<1>4. f \in [0 .. N -> Seq(Findable)] /\ f[0] = <<>> /\ \A n \in 1 .. N : f[n] = Next1(f[n - 1], n)
  BY <1>1, <1>3 DEF Follows
<1>5. Builds(f)
  <2>1. \A n \in 0 .. N : f[n] = IF n = 0 THEN <<>> ELSE Next1(f[n - 1], n)
    <3> HIDE DEF Next1, N
    <3> QED BY <1>1, <1>4
  <2> HIDE DEF N
  <2> QED BY <1>4, <2>1
<1>6. PICK list : Builds(list) /\ Listed(open) = list[N]
  <2>1. \E list : Builds(list)
    <3> HIDE DEF Builds
    <3> QED BY <1>5
  <2> QED BY <2>1 DEF Listed
<1>7. list[0] = <<>> /\ \A n \in 1 .. N : list[n] = Next1(list[n - 1], n)
  <2> DEFINE Value(n) == IF n = 0 THEN <<>> ELSE Next1(list[n - 1], n)
  <2>1. list = [n \in 0 .. N |-> Value(n)]
    BY <1>6
  <2> HIDE DEF Value, N
  <2>2. \A n \in 0 .. N : list[n] = Value(n)
    BY <2>1
  <2>3. 0 \in 0 .. N /\ \A n \in 1 .. N : n \in 0 .. N /\ n # 0
    BY <1>1
  <2> QED BY <2>2, <2>3 DEF Value
<1>8. \A n \in 0 .. N : list[n] \in Seq(Findable)
  <2> DEFINE P == {n \in 0 .. N : list[n] \in Seq(Findable)}
  <2>1. 0 \in P
    <3>1. 0 \in 0 .. N
      BY <1>1
    <3> QED BY <1>1, <1>7, <3>1
  <2>2. ASSUME NEW n \in 0 .. N, n \in P, n < N PROVE n + 1 \in P
    <3>1. n + 1 \in 1 .. N /\ (n + 1) - 1 = n
      BY <1>1, <2>2
    <3> HIDE DEF N, Next1
    <3> QED BY <1>2, <1>7, <2>2, <3>1
  <2> HIDE DEF P, N
  <2>3. \A n \in 0 .. N : n \in P
    BY <1>1, <2>1, <2>2, AlongTheList
  <2> QED BY <2>3 DEF P
<1>9. list \in [0 .. N -> Seq(Findable)]
  <2>1. list = [n \in 0 .. N |-> list[n]]
    BY <1>6
  <2> HIDE DEF N
  <2> QED BY <1>8, <2>1
<1> QED BY <1>6, <1>7, <1>9 DEF ListsTo

\* What is open is on the list, and when more is, what was there is no nearer to
\* the beginning.
LEMMA ListedIs ==
  ASSUME NEW open \in SUBSET Findable
  PROVE  Listed(open) \in Seq(Findable) /\ \A id \in open : \E i \in 1 .. Len(Listed(open)) : Listed(open)[i] = id
<1> DEFINE N == Len(Newest)
<1>1. N \in Nat /\ \A n \in 1 .. N : Newest[n] \in Findable
  BY RunsAssumption
<1>2. PICK list : ListsTo(open, list)
  BY ListIsBuilt
<1> DEFINE Has(l, id) == \E i \in 1 .. Len(l) : l[i] = id
           Known(n) == \A m \in 1 .. n : Newest[m] \in open => Has(list[n], Newest[m])
<1>3. Known(0)
  OBVIOUS
<1>4. ASSUME NEW n \in 0 .. N, Known(n), n < N PROVE Known(n + 1)
  <2> DEFINE l == list[n]
             new == Newest[n + 1]
  <2>1. n + 1 \in 1 .. N /\ (n + 1) - 1 = n /\ \A m \in 1 .. n + 1 : m \in 1 .. n \/ m = n + 1
    BY <1>1, <1>4
  <2>2. list[n + 1] = (IF new \in open THEN Append(l, new) ELSE l) /\ l \in Seq(Findable) /\ new \in Findable
    BY <1>1, <1>2, <2>1 DEF ListsTo
  <2>3. CASE new \notin open
    <3> HIDE DEF Has
    <3> QED BY <1>4, <2>1, <2>2, <2>3
  <2>4. CASE new \in open
    <3>1. /\ Len(list[n + 1]) = Len(l) + 1 /\ list[n + 1][Len(l) + 1] = new
          /\ \A i \in 1 .. Len(l) : i \in 1 .. Len(l) + 1 /\ list[n + 1][i] = l[i]
          /\ Len(l) + 1 \in 1 .. Len(l) + 1
      BY <2>2, <2>4
    <3>2. Has(list[n + 1], new) /\ \A id : Has(l, id) => Has(list[n + 1], id)
      <4> HIDE DEF l, new
      <4> QED BY <3>1
    <3> HIDE DEF Has
    <3> QED BY <1>4, <2>1, <3>2
  <2> QED BY <2>3, <2>4
<1>5. Known(N)
  <2> DEFINE P == {n \in 0 .. N : Known(n)}
  <2>1. 0 \in P /\ \A n \in 0 .. N : n \in P /\ n < N => n + 1 \in P
    <3> HIDE DEF Known, N
    <3> QED BY <1>1, <1>3, <1>4
  <2> HIDE DEF Known, P, N
  <2>2. \A n \in 0 .. N : n \in P
    BY <1>1, <2>1, AlongTheList
  <2> QED BY <1>1, <2>2 DEF P
<1>6. \A id \in open : \E m \in 1 .. N : Newest[m] = id
  <2>1. ToSet(Newest) = {Newest[m] : m \in 1 .. N}
    BY RunsAssumption DEF ToSet
  <2> QED BY <2>1, RunsAssumption
<1>7. Listed(open) = list[N] /\ list[N] \in Seq(Findable)
  BY <1>1, <1>2 DEF ListsTo
<1>8. \A id \in open : Has(list[N], id)
  <2> HIDE DEF Has, N
  <2> QED BY <1>5, <1>6
<1> QED BY <1>7, <1>8

LEMMA ListGrows ==
  ASSUME NEW open, NEW more, open \subseteq more
  PROVE  Grows(Listed(open), Listed(more))
<1> DEFINE N == Len(Newest)
<1>1. N \in Nat /\ \A n \in 1 .. N : Newest[n] \in Findable
  BY RunsAssumption
<1>2. PICK l : ListsTo(open, l)
  BY ListIsBuilt
<1>3. PICK m : ListsTo(more, m)
  BY ListIsBuilt
<1> DEFINE P == {n \in 0 .. N : Grows(l[n], m[n])}
<1>4. 0 \in P
  <2>1. l[0] = <<>> /\ m[0] = <<>> /\ 0 \in 0 .. N
    BY <1>1, <1>2, <1>3 DEF ListsTo
  <2>2. Grows(<<>>, <<>>)
    BY DEF Grows
  <2> HIDE DEF N
  <2> QED BY <2>1, <2>2
<1>5. ASSUME NEW n \in 0 .. N, n \in P, n < N PROVE n + 1 \in P
  <2> DEFINE s == l[n]
             t == m[n]
             new == Newest[n + 1]
  <2>1. n + 1 \in 1 .. N /\ (n + 1) - 1 = n
    BY <1>1, <1>5
  <2>2. /\ l[n + 1] = (IF new \in open THEN Append(s, new) ELSE s) /\ s \in Seq(Findable)
        /\ m[n + 1] = (IF new \in more THEN Append(t, new) ELSE t) /\ t \in Seq(Findable)
        /\ new \in Findable
    BY <1>1, <1>2, <1>3, <2>1 DEF ListsTo
  <2>3. Grows(s, t)
    BY <1>5
  <2> HIDE DEF s, t, new, N
  <2>4. /\ Len(Append(s, new)) = Len(s) + 1 /\ \A i \in 1 .. Len(s) : Append(s, new)[i] = s[i]
        /\ Append(s, new)[Len(s) + 1] = new
    BY <2>2
  <2>5. /\ Len(Append(t, new)) = Len(t) + 1 /\ \A i \in 1 .. Len(t) : Append(t, new)[i] = t[i]
        /\ Append(t, new)[Len(t) + 1] = new
    BY <2>2
  <2>6. Len(s) \in Nat /\ Len(t) \in Nat
    BY <2>2
  <2>7. Grows(s, Append(t, new))
    <3>1. \A j \in 1 .. Len(t) : j \in 1 .. Len(t) + 1
      BY <2>6
    <3>2. Len(s) <= Len(t) + 1
      BY <2>3, <2>6 DEF Grows
    <3> QED BY <2>3, <2>5, <3>1, <3>2 DEF Grows
  <2>8. Grows(Append(s, new), Append(t, new))
    <3>1. Len(s) + 1 <= Len(t) + 1 /\ Len(t) + 1 \in 1 .. Len(t) + 1
      BY <2>3, <2>6 DEF Grows
    <3>2. \A i \in 1 .. Len(s) + 1 : i \in 1 .. Len(s) \/ i = Len(s) + 1
      BY <2>6
    <3>3. ASSUME NEW i \in 1 .. Len(s) + 1
          PROVE  \E j \in 1 .. Len(t) + 1 : i <= j /\ Append(t, new)[j] = Append(s, new)[i]
      <4>1. CASE i \in 1 .. Len(s)
        BY <2>4, <2>7, <4>1, <2>5 DEF Grows
      <4>2. CASE i = Len(s) + 1
        BY <2>4, <2>5, <3>1, <4>2
      <4> QED BY <3>2, <4>1, <4>2
    <3> QED BY <2>4, <2>5, <3>1, <3>3 DEF Grows
  <2>9. Grows(l[n + 1], m[n + 1])
    BY <2>2, <2>3, <2>7, <2>8
  <2> QED BY <1>1, <2>1, <2>9 DEF N
<1>6. Grows(l[N], m[N])
  <2> HIDE DEF P, N
  <2>1. \A n \in 0 .. N : n \in P
    BY <1>1, <1>4, <1>5, AlongTheList
  <2> QED BY <1>1, <2>1 DEF P
<1> QED BY <1>2, <1>3, <1>6 DEF ListsTo

\* When the pages were read to the end of the list, and nothing was closed
\* meanwhile, all that was open at first has been read.
LEMMA AlertsAreRead ==
  ASSUME NEW open \in [1 .. MAX_PAGES -> SUBSET Findable]
  PROVE  LET lists == [p \in 1 .. MAX_PAGES |-> Listed(open[p])]
             reading == readAlerts(lists)
         IN /\ reading.read \subseteq Findable
            /\ reading.exhausted /\ (\A p \in 1 .. MAX_PAGES - 1 : open[p] \subseteq open[p + 1])
                 => open[1] \subseteq reading.read
<1> DEFINE lists == [p \in 1 .. MAX_PAGES |-> Listed(open[p])]
           short == {p \in 1 .. MAX_PAGES : Len(PageOf(lists[p], p)) < PAGE_SIZE}
           last == IF short = {} THEN MAX_PAGES ELSE Min(short)
           seen == UNION {Range(PageOf(lists[p], p)) : p \in 1 .. last}
<1>1. readAlerts(lists) = [read |-> seen, exhausted |-> short # {}]
  BY DEF readAlerts
<1>2. MAX_PAGES \in Nat /\ PAGE_SIZE \in Nat \ {0}
  BY ReportAssumption
<1>3. ASSUME NEW p \in 1 .. MAX_PAGES
      PROVE  /\ lists[p] = Listed(open[p]) /\ lists[p] \in Seq(Findable) /\ open[p] \in SUBSET Findable
             /\ \A id \in open[p] : \E i \in 1 .. Len(lists[p]) : lists[p][i] = id
  BY ListedIs
<1> HIDE DEF lists
<1>4. short \in SUBSET Nat /\ short \subseteq 1 .. MAX_PAGES
  BY <1>2
<1>5. short # {} => last \in short
  <2> HIDE DEF short
  <2>1. ASSUME short # {} PROVE Min(short) \in short
    BY <1>4, <2>1, LeastIsOne DEF Min
  <2> QED BY <2>1
<1>6. last \in 1 .. MAX_PAGES \/ last = MAX_PAGES
  BY <1>4, <1>5
<1>7. last \in Nat /\ last <= MAX_PAGES
  BY <1>2, <1>6
<1>8. seen \subseteq Findable
  <2> HIDE DEF last
  <2>1. ASSUME NEW p \in 1 .. last PROVE Range(PageOf(lists[p], p)) \subseteq Findable
    <3>1. p \in 1 .. MAX_PAGES /\ p \in Nat \ {0}
      BY <1>2, <1>7
    <3> QED BY <1>3, <3>1, PageIs
  <2> QED BY <2>1
<1>9. ASSUME short # {}, \A p \in 1 .. MAX_PAGES - 1 : open[p] \subseteq open[p + 1],
             NEW id \in open[1], id \notin seen
      PROVE  FALSE
  <2> DEFINE Beyond(p) == \E i \in 1 .. Len(lists[p]) : lists[p][i] = id /\ (p - 1) * PAGE_SIZE < i
  <2>1. last \in short /\ last \in 1 .. MAX_PAGES /\ 1 \in 1 .. MAX_PAGES
    BY <1>2, <1>4, <1>5, <1>9
  <2> HIDE DEF last
  <2>2. \A p \in 1 .. last : p \in 1 .. MAX_PAGES /\ p \in Nat \ {0} /\ id \notin Range(PageOf(lists[p], p))
    BY <1>2, <1>7, <1>9
  <2> HIDE DEF seen, short
  <2>3. Beyond(1)
    <3>1. (1 - 1) * PAGE_SIZE = 0
      BY <1>2
    <3>2. \A i \in 1 .. Len(lists[1]) : 0 < i
      BY <1>3, <2>1
    <3> QED BY <1>3, <1>9, <2>1, <3>1, <3>2
  <2>4. ASSUME NEW p \in 1 .. last, Beyond(p)
        PROVE  \E i \in 1 .. Len(lists[p]) : lists[p][i] = id /\ p * PAGE_SIZE < i
    <3> DEFINE q == (p - 1) * PAGE_SIZE
    <3>1. PICK i \in 1 .. Len(lists[p]) : lists[p][i] = id /\ q < i
      BY <2>4
    <3>2. p \in 1 .. MAX_PAGES /\ p \in Nat \ {0} /\ lists[p] \in Seq(Findable)
      BY <1>3, <2>2
    <3>3. /\ q \in Nat /\ p * PAGE_SIZE = q + PAGE_SIZE
          /\ q < i /\ i <= q + PAGE_SIZE => lists[p][i] \in Range(PageOf(lists[p], p))
      BY <3>2, PageIs
    <3> HIDE DEF q
    <3>4. ~(i <= q + PAGE_SIZE)
      BY <2>2, <3>1, <3>3
    <3>5. p * PAGE_SIZE < i
      BY <1>2, <3>2, <3>3, <3>4
    <3> QED BY <3>1, <3>5
  <2>5. ASSUME NEW p \in 1 .. last, p < last, Beyond(p) PROVE Beyond(p + 1)
    <3>1. PICK i \in 1 .. Len(lists[p]) : lists[p][i] = id /\ p * PAGE_SIZE < i
      BY <2>4, <2>5
    <3>2. p \in 1 .. MAX_PAGES /\ p + 1 \in 1 .. MAX_PAGES /\ p \in 1 .. MAX_PAGES - 1 /\ (p + 1) - 1 = p
      BY <1>2, <1>7, <2>5
    <3>3. Grows(lists[p], lists[p + 1])
      BY <1>3, <1>9, <3>2, ListGrows
    <3>4. PICK j \in 1 .. Len(lists[p + 1]) : i <= j /\ lists[p + 1][j] = id
      BY <3>1, <3>3 DEF Grows
    <3>5. p * PAGE_SIZE \in Nat /\ i \in Nat /\ j \in Nat
      BY <1>2, <3>2
    <3> DEFINE q == p * PAGE_SIZE
    <3> HIDE DEF q
    <3>6. q < j
      BY <3>1, <3>4, <3>5 DEF q
    <3> QED BY <3>2, <3>4, <3>6 DEF q
  <2>6. Beyond(last)
    <3> DEFINE N == last - 1
               P == {n \in 0 .. N : Beyond(n + 1)}
    <3>1. N \in Nat /\ last = N + 1 /\ \A n \in 0 .. N : n + 1 \in 1 .. last
      BY <2>1
    <3>2. 0 \in P
      BY <2>3, <3>1
    <3>3. ASSUME NEW n \in 0 .. N, n \in P, n < N PROVE n + 1 \in P
      <4>1. n + 1 \in 1 .. last /\ n + 1 < last /\ n + 1 \in 0 .. N
        BY <3>1, <3>3
      <4> HIDE DEF Beyond, N
      <4> QED BY <2>5, <3>3, <4>1
    <3> HIDE DEF P, N, Beyond
    <3>4. \A n \in 0 .. N : n \in P
      BY <3>1, <3>2, <3>3, AlongTheList
    <3>5. N \in P
      BY <3>1, <3>4
    <3> QED BY <3>1, <3>5 DEF P
  <2>7. PICK i \in 1 .. Len(lists[last]) : lists[last][i] = id /\ last * PAGE_SIZE < i
    <3>1. last \in 1 .. last
      BY <2>1
    <3> HIDE DEF Beyond
    <3> QED BY <2>4, <2>6, <3>1
  <2>8. Len(PageOf(lists[last], last)) < PAGE_SIZE /\ lists[last] \in Seq(Findable) /\ last \in Nat \ {0}
    BY <1>3, <2>1 DEF short
  <2>9. Len(lists[last]) < last * PAGE_SIZE /\ last * PAGE_SIZE \in Nat
    BY <1>2, <2>8, PageIs
  <2> QED BY <2>7, <2>8, <2>9
<1> HIDE DEF seen, short, last
<1> DEFINE reading == readAlerts(lists)
<1>10. reading.read = seen /\ (reading.exhausted <=> short # {})
  <2> DEFINE some == short # {}
  <2>1. reading = [read |-> seen, exhausted |-> some]
    BY <1>1
  <2> HIDE DEF reading, some
  <2>2. reading.read = seen /\ reading.exhausted = some
    BY <2>1
  <2> QED BY <2>2 DEF some
<1> HIDE DEF reading
<1>11. /\ reading.read \subseteq Findable
       /\ reading.exhausted /\ (\A p \in 1 .. MAX_PAGES - 1 : open[p] \subseteq open[p + 1])
            => open[1] \subseteq reading.read
  BY <1>8, <1>9, <1>10
<1> QED BY <1>11 DEF reading, lists

-----------------------------------------------------------------------------
(* The reports.                                                            *)

\* What a tool of this check may say of a finding.
Categories ==
  IF check \in {"SecuritySocket", "SecurityDeps"} THEN {"critical", "high", "middle", "low", "unknown"}
  ELSE IF check = "CodeScanning" THEN {"dev", "shipped"}
  ELSE {"any"}

\* A report that says no less than there was to find.
Honest(t, found) ==
  /\ t \in Report /\ t.kind # "none" /\ found \subseteq Ids
  /\ t.kind = "pass" => found = {}
  /\ t.kind = "error" => check = "CodeRabbit"
  /\ t.kind = "reviewed" =>
       /\ check \in Reconciling \cup Reading
       /\ found \subseteq DOMAIN t.found
       /\ \A id \in DOMAIN t.found : t.found[id] \in Categories

LEMMA NothingIsFound == NothingFound \in Findings
<1> DEFINE All == {"critical", "high", "middle", "low", "unknown", "dev", "shipped", "any"}
<1>1. NothingFound \in [{} -> All]
  BY DEF NothingFound
<1> QED BY <1>1 DEF Findings

LEMMA KindIsHonest ==
  ASSUME NEW kind \in {"pass", "fail", "warn", "error"}, NEW found \in SUBSET Ids,
         kind = "pass" => found = {}, kind = "error" => check = "CodeRabbit"
  PROVE  Honest(Kind(kind), found)
BY NothingIsFound DEF Kind, Honest, Report

LEMMA DegradedIsHonest ==
  ASSUME NEW codes \in SUBSET Ids, NEW found \in SUBSET Ids
  PROVE  Honest(Degraded(codes), found)
BY NothingIsFound DEF Degraded, Honest, Report

LEMMA ReviewedIsHonest ==
  ASSUME NEW ids \in SUBSET Ids, NEW f \in [ids -> Categories], NEW found \in SUBSET ids,
         check \in Reconciling \cup Reading
  PROVE  Honest(Reviewed(f), found)
<1> DEFINE All == {"critical", "high", "middle", "low", "unknown", "dev", "shipped", "any"}
<1>1. f \in [ids -> All]
  BY DEF Categories
<1>2. f \in Findings
  <2> HIDE DEF All
  <2>1. [ids -> All] \in {[some -> All] : some \in SUBSET Ids}
    OBVIOUS
  <2>2. f \in UNION {[some -> All] : some \in SUBSET Ids}
    BY <1>1, <2>1
  <2> QED BY <2>2 DEF Findings, All
<1> QED BY <1>2 DEF Reviewed, Honest, Report

LEMMA OfIsTyped ==
  ASSUME NEW ids, check \notin {"SecuritySocket", "SecurityDeps", "CodeScanning"}
  PROVE  Of(ids, "any") \in [ids -> Categories]
BY DEF Of, Categories

LEMMA LookupIsHonest ==
  ASSUME check = "SecuritySocket", at \in Ended, at = "scored" => DOMAIN alerts \subseteq Ids
  PROVE  Honest(interpretSocketRun(at, alerts), IF at = "scored" THEN DOMAIN alerts ELSE {})
<1> DEFINE judged == [id \in DOMAIN alerts |-> normalizeAlert(alerts[id])]
           found == IF at = "scored" THEN DOMAIN alerts ELSE {}
<1>1. found \in SUBSET Ids
  OBVIOUS
<1>2. CASE at = "scored" /\ \A id \in DOMAIN alerts : alerts[id] # "malformed"
  <2>1. interpretSocketRun(at, alerts) = Reviewed(judged)
    BY <1>2 DEF interpretSocketRun, classifyProblem
  <2>2. judged \in [DOMAIN alerts -> Categories]
    BY DEF normalizeAlert, Categories
  <2> HIDE DEF judged
  <2> QED BY <1>2, <2>1, <2>2, ReviewedIsHonest DEF Reconciling
<1>3. CASE ~(at = "scored" /\ \A id \in DOMAIN alerts : alerts[id] # "malformed")
  <2>1. \E kind \in {"pass", "fail", "warn"} :
          interpretSocketRun(at, alerts) = Kind(kind) /\ (kind = "pass" => at # "scored")
    <3>1. CASE at = "scored"
      BY <1>3, <3>1 DEF interpretSocketRun, classifyProblem
    <3>2. CASE at \in {"skipped", "unpublished"}
      BY <3>2 DEF interpretSocketRun, classifyProblem
    <3>3. CASE at = "no-key"
      BY <3>3 DEF interpretSocketRun, classifyProblem
    <3>4. CASE at = "failed"
      BY <3>4 DEF interpretSocketRun, classifyProblem
    <3> QED BY <3>1, <3>2, <3>3, <3>4 DEF Ended
  <2> QED BY <1>1, <2>1, KindIsHonest
<1> QED BY <1>2, <1>3

LEMMA AuditIsHonest ==
  ASSUME check = "SecurityDeps", NEW ids \in SUBSET Findable, NEW answered \in BOOLEAN,
         NEW advisories \in [ids -> {"critical", "high", "low", "new kind"}]
  PROVE  Honest(securityDeps(audit(answered, advisories)), IF answered THEN ids ELSE {})
<1> DEFINE seen == audit(answered, advisories)
           found == IF answered THEN ids ELSE {}
<1>1. DOMAIN seen = found
  BY DEF audit, NothingFound
<1>2. normalizeFindings(seen) \in [found -> Categories]
  BY <1>1 DEF normalizeFindings, Categories
<1>3. found \in SUBSET Ids
  BY RunsAssumption
<1> HIDE DEF seen, found
<1>4. Honest(securityDeps(seen), found)
  BY <1>2, <1>3, ReviewedIsHonest DEF securityDeps, Reconciling
<1> QED BY <1>4 DEF seen, found

LEMMA DevAuditIsHonest ==
  ASSUME NEW ids \in SUBSET Findable, NEW answered \in [{"all", "production"} -> BOOLEAN],
         NEW production \in SUBSET ids, NEW all \in [ids -> {"critical", "any"}]
  PROVE  Honest(securityDevDeps(audit(answered["all"], all),
                                audit(answered["production"], Of(production, "any"))),
                IF answered["all"] THEN ids \ production ELSE {})
<1> DEFINE a == audit(answered["all"], all)
           p == audit(answered["production"], Of(production, "any"))
           found == IF answered["all"] THEN ids \ production ELSE {}
<1>1. DOMAIN p \subseteq production /\ (answered["all"] => DOMAIN a = ids)
  BY DEF audit, NothingFound, Of
<1>2. found \in SUBSET Ids
  BY RunsAssumption
<1>3. devOnlyFindings(a, p) = {} => found = {}
  BY <1>1 DEF devOnlyFindings
<1> HIDE DEF a, p, found
<1>4. \E kind \in {"pass", "fail", "warn"} :
        securityDevDeps(a, p) = Kind(kind) /\ (kind = "pass" => found = {})
  <2>1. CASE devOnlyFindings(a, p) = {}
    BY <1>3, <2>1 DEF securityDevDeps
  <2>2. CASE devOnlyFindings(a, p) # {} /\ \E name \in devOnlyFindings(a, p) : a[name] = "critical"
    BY <2>2 DEF securityDevDeps
  <2>3. CASE devOnlyFindings(a, p) # {} /\ ~\E name \in devOnlyFindings(a, p) : a[name] = "critical"
    BY <2>3 DEF securityDevDeps
  <2> QED BY <2>1, <2>2, <2>3
<1>5. Honest(securityDevDeps(a, p), found)
  BY <1>2, <1>4, KindIsHonest
<1> QED BY <1>5 DEF a, p, found

LEMMA BuildIsHonest ==
  ASSUME check = "DistNoUrls", NEW dirExists \in BOOLEAN, NEW findings,
         Range(findings) \subseteq Findable
  PROVE  Honest(distNoUrls(dirExists, findings), Range(findings))
<1>1. Range(findings) \in SUBSET Ids
  BY RunsAssumption
<1>2. Of(Range(findings), "any") \in [Range(findings) -> Categories]
  BY OfIsTyped
<1>3. Honest(Reviewed(Of(Range(findings), "any")), Range(findings))
  BY <1>1, <1>2, ReviewedIsHonest DEF Reconciling
<1>4. Honest(Kind("fail"), Range(findings))
  BY <1>1, KindIsHonest
<1> QED BY <1>3, <1>4 DEF distNoUrls, distinctUrls

LEMMA AlertsAreHonest ==
  ASSUME check = "CodeScanning", NEW r \in AlertReadings
  PROVE  Honest(r.report, r.found)
<1> DEFINE Closes(open) == \E p \in 1 .. MAX_PAGES - 1 : ~(open[p] \subseteq open[p + 1])
           Lists(open) == [p \in 1 .. MAX_PAGES |-> Listed(open[p])]
           Found(open, reach) == IF Closes(open) \/ reach # "reached" THEN {} ELSE open[1]
<1>1. PICK open \in [1 .. MAX_PAGES -> SUBSET Findable], reach \in {"reached", "skipped", "failed"},
           devPaths \in SUBSET Findable, entries \in SUBSET Findable :
        /\ r.report = codeScanning(reach, Lists(open), devPaths, entries)
        /\ r.found = Found(open, reach)
  <2> DEFINE all == {[report |-> codeScanning(reach, Lists(open), devPaths, entries), found |-> Found(open, reach)] :
                       open \in [1 .. MAX_PAGES -> SUBSET Findable], reach \in {"reached", "skipped", "failed"},
                       devPaths \in SUBSET Findable, entries \in SUBSET Findable}
  <2>1. AlertReadings = all
    BY DEF AlertReadings
  <2> HIDE DEF Lists, Found
  <2>2. r \in all
    BY <2>1
  <2> QED BY <2>2
<1> DEFINE reading == readAlerts(Lists(open))
           found == Found(open, reach)
<1>2. /\ reading.read \subseteq Findable
      /\ reading.exhausted /\ ~Closes(open) => open[1] \subseteq reading.read
  BY AlertsAreRead
<1>3. reach # "reached" => found = {}
  OBVIOUS
<1>4. CASE reach = "skipped"
  BY <1>1, <1>3, <1>4, KindIsHonest DEF codeScanning
<1>5. CASE reach = "failed"
  BY <1>1, <1>3, <1>5, KindIsHonest DEF codeScanning
<1>6. CASE reach = "reached" /\ ~reading.exhausted
  <2>1. r.report = Kind("fail")
    BY <1>1, <1>6 DEF codeScanning
  <2>2. r.found \in SUBSET Ids
    <3>1. CASE Closes(open)
      BY <1>1, <3>1
    <3>2. CASE ~Closes(open)
      <4>1. r.found = open[1]
        BY <1>1, <1>6, <3>2
      <4>2. open[1] \in SUBSET Findable
        BY ReportAssumption
      <4> QED BY <4>1, <4>2, RunsAssumption
    <3> QED BY <3>1, <3>2
  <2> QED BY <2>1, <2>2, KindIsHonest
<1>7. CASE reach = "reached" /\ reading.exhausted
  <2> DEFINE f == [id \in reading.read |-> IF isDevPath(id, devPaths, entries) THEN "dev" ELSE "shipped"]
  <2>1. r.report = Reviewed(f)
    BY <1>1, <1>7 DEF codeScanning
  <2>2. f \in [reading.read -> Categories]
    BY DEF Categories
  <2>3. found \subseteq reading.read
    BY <1>2, <1>7
  <2>4. reading.read \in SUBSET Ids
    BY <1>2, RunsAssumption
  <2> HIDE DEF f, reading, found
  <2>5. Honest(Reviewed(f), found)
    BY <2>2, <2>3, <2>4, ReviewedIsHonest DEF Reconciling
  <2> QED BY <1>1, <2>1, <2>5 DEF found
<1> QED BY <1>4, <1>5, <1>6, <1>7

LEMMA ReviewIsHonest ==
  ASSUME check = "CodeRabbit", NEW r \in Reviews
  PROVE  Honest(r.report, r.found)
<1> DEFINE Of1(raised) ==
      {[report |-> runCoderabbitCli(machine, ended, stream, why), found |-> Range(raised)] :
         machine \in {"ci", "detached", "branch"}, why \in BOOLEAN, stream \in Captured(raised),
         ended \in {"ended", "not-installed", "timed-out", "overflowed"}}
<1>0. PICK raised \in UNION {[1 .. n -> Findable] : n \in 0 .. ReviewLength} : r \in Of1(raised)
  <2> DEFINE all == UNION {Of1(raised) : raised \in UNION {[1 .. n -> Findable] : n \in 0 .. ReviewLength}}
  <2>1. Reviews = all
    BY DEF Reviews
  <2> HIDE DEF Of1
  <2>2. r \in all
    BY <2>1
  <2> QED BY <2>2
<1>1. PICK machine \in {"ci", "detached", "branch"}, why \in BOOLEAN, stream \in Captured(raised),
           ended \in {"ended", "not-installed", "timed-out", "overflowed"} :
        /\ r.report = runCoderabbitCli(machine, ended, stream, why)
        /\ r.found = Range(raised)
  BY <1>0
<1>2. raised \in Seq(Ids) /\ Range(raised) \in SUBSET Ids
  <2>1. PICK n \in 0 .. ReviewLength : raised \in [1 .. n -> Findable]
    OBVIOUS
  <2>2. raised \in Seq(Findable) /\ n \in Nat
    BY <2>1, RunsAssumption
  <2> QED BY <2>2, RunsAssumption DEF Range
<1>3. \A codes \in SUBSET Ids : Honest(Degraded(codes), r.found)
  BY <1>1, <1>2, DegradedIsHonest
<1>4. Honest(Kind("error"), r.found)
  BY <1>1, <1>2, KindIsHonest
<1>5. {ThisReason} \in SUBSET Ids /\ {ThatReason} \in SUBSET Ids
  BY ReportAssumption
<1> DEFINE parsed == parseAgentStream(stream)
<1>6. ASSUME parsed.ok, parsed.completed PROVE Honest(Reviewed(Of(parsed.seen, "any")), r.found)
  <2>1. Range(raised) \subseteq parsed.seen /\ parsed.seen \subseteq Ids
    BY <1>2, <1>6, CapturedIsWhole
  <2> HIDE DEF parsed
  <2>2. Of(parsed.seen, "any") \in [parsed.seen -> Categories]
    BY OfIsTyped
  <2> QED BY <1>1, <2>1, <2>2, ReviewedIsHonest DEF Reconciling
<1> HIDE DEF parsed
<1>7. Honest(interpretCliResult(ended, stream, why), r.found)
  <2>1. \/ interpretCliResult(ended, stream, why) = Degraded({ThatReason})
        \/ interpretCliResult(ended, stream, why) = Kind("error")
        \/ /\ parsed.ok /\ parsed.completed
           /\ interpretCliResult(ended, stream, why) = Reviewed(Of(parsed.seen, "any"))
    BY DEF interpretCliResult, parsed
  <2> QED BY <1>3, <1>4, <1>5, <1>6, <2>1
<1>8. \/ r.report = Degraded({ThisReason}) \/ r.report = Degraded({ThatReason})
      \/ r.report = interpretCliResult(ended, stream, why)
  BY <1>1 DEF runCoderabbitCli
<1> QED BY <1>3, <1>5, <1>7, <1>8

LEMMA ScanIsHonest ==
  ASSUME check = "Suppressions", check \in Checks, NEW r \in Scans
  PROVE  Honest(r.report, r.found)
<1>1. PICK file \in SourceFiles, markdown \in BOOLEAN :
        r.report = listed(unexplained(scan(markdown, file))) /\ r.found = Silent(markdown, file)
  BY DEF Scans
<1>2. r.report = Reviewed(Of(r.found, "any")) /\ r.found \subseteq SuppressionIds
  <2>1. file \in Seq(Line)
    BY RunsAssumption
  <2> QED BY <1>1, <2>1, ScanIsTheRule DEF listed
<1>3. r.found \in SUBSET Ids
  BY <1>2, RunsAssumption
<1>4. Of(r.found, "any") \in [r.found -> Categories]
  BY OfIsTyped
<1> QED BY <1>2, <1>3, <1>4, ReviewedIsHonest DEF Reading

LEMMA FilesAreHonest ==
  ASSUME check = "ManagedFiles", check \in Checks, ManagedTypeOK
  PROVE  /\ Honest(managedFiles(TRUE, notCurrent), {})
         /\ Honest(managedFiles(FALSE, notCurrent), notCurrent)
<1>1. notCurrent \in SUBSET Ids
  BY RunsAssumption, ManagedAssumption DEF notCurrent, Managed, ManagedTypeOK, Manifest
<1>2. Of(notCurrent, "any") \in [notCurrent -> Categories]
  BY OfIsTyped
<1>3. Honest(listed(notCurrent), notCurrent)
  BY <1>1, <1>2, ReviewedIsHonest DEF listed, Reading
<1> QED BY <1>3, KindIsHonest DEF managedFiles

LEMMA LinksAreHonest ==
  ASSUME NEW crawled \in BOOLEAN, NEW links \in [Findable -> Crawled]
  PROVE  Honest(docsLinks(crawled, {LinkTo(u, links[u]) : u \in Findable}),
                {u \in Findable : links[u].status = "gone" /\ ~links[u].onDisk})
<1> DEFINE all == {LinkTo(u, links[u]) : u \in Findable}
           found == {u \in Findable : links[u].status = "gone" /\ ~links[u].onDisk}
           broken == {l \in all : l.status # "ok" /\ ~l.onDisk}
           rateLimited == {l.url : l \in {b \in broken : b.external /\ b.status = "limited"}}
           urls == {l.url : l \in {b \in broken : b.external}} \ rateLimited
<1>1. docsLinks(crawled, all) =
        IF ~crawled \/ \E l \in broken : ~l.external THEN Kind("fail")
        ELSE IF urls = {} THEN Kind("pass") ELSE Degraded(urls)
  BY DEF docsLinks
<1>2. found \in SUBSET Ids
  BY RunsAssumption
<1>3. \A l \in all : \E u \in Findable : l = LinkTo(u, links[u]) /\ l.url = u
  BY DEF LinkTo
<1>4. urls \in SUBSET Ids
  BY <1>3, RunsAssumption
<1>5. ASSUME \A l \in broken : l.external, urls = {} PROVE found = {}
  <2> SUFFICES ASSUME NEW u \in found PROVE FALSE
    OBVIOUS
  <2> DEFINE l == LinkTo(u, links[u])
  <2>1. l \in all /\ l.url = u /\ l.status = "gone" /\ ~l.onDisk /\ u \in Findable
    BY DEF LinkTo
  <2> HIDE DEF l
  <2>2. l \in broken /\ l.external
    BY <1>5, <2>1
  <2>3. u \notin rateLimited
    <3> SUFFICES ASSUME NEW b \in broken, b.url = u, b.status = "limited" PROVE FALSE
      OBVIOUS
    <3>1. b = LinkTo(u, links[u])
      BY <1>3
    <3> QED BY <2>1, <3>1 DEF l
  <2>4. u \in urls
    BY <2>1, <2>2, <2>3
  <2> QED BY <1>5, <2>4
<1> HIDE DEF all, found, broken, urls
<1>6. Honest(docsLinks(crawled, all), found)
  <2>1. CASE ~crawled \/ \E l \in broken : ~l.external
    BY <1>1, <1>2, <2>1, KindIsHonest
  <2>2. CASE ~(~crawled \/ \E l \in broken : ~l.external) /\ urls = {}
    BY <1>1, <1>2, <1>5, <2>2, KindIsHonest
  <2>3. CASE ~(~crawled \/ \E l \in broken : ~l.external) /\ urls # {}
    BY <1>1, <1>2, <1>4, <2>3, DegradedIsHonest
  <2> QED BY <2>1, <2>2, <2>3
<1> QED BY <1>6 DEF all, found

LEMMA WrongIsId ==
  ASSUME NEW condition \in BOOLEAN
  PROVE  Wrong(condition) \in SUBSET Ids /\ (~condition => Wrong(condition) = {})
BY ReportAssumption DEF Wrong

LEMMA PagesAreHonest ==
  ASSUME NEW chrome \in BOOLEAN, NEW opened \in BOOLEAN, NEW pages \in Crawls
  PROVE  Honest(accessibility(chrome, pages, opened),
                Wrong(\E i \in UNION pages : i.type # "notice" /\ ~i.undecided))
<1> DEFINE wrong == \E i \in UNION pages : i.type # "notice" /\ ~i.undecided
           decided == {i \in UNION pages : ~i.undecided}
<1>1. \A i \in UNION pages : i.type \in {"error", "warning", "notice"}
  BY DEF Crawls, Issue
<1>2. wrong \in BOOLEAN
  OBVIOUS
<1>3. \/ accessibility(chrome, pages, opened) \in {Degraded({ThisReason}), Degraded({ThatReason})}
      \/ accessibility(chrome, pages, opened) \in {Kind("fail"), Kind("warn")}
      \/ accessibility(chrome, pages, opened) = Kind("pass") /\ ~wrong
  <2>1. (\A i \in decided : i.type # "error") /\ (\A i \in decided : i.type # "warning") => ~wrong
    BY <1>1
  <2> HIDE DEF wrong
  <2> QED BY <2>1 DEF accessibility
<1> HIDE DEF wrong
<1>4. Wrong(wrong) \in SUBSET Ids /\ (~wrong => Wrong(wrong) = {})
  BY <1>2, WrongIsId
<1>5. {ThisReason} \in SUBSET Ids /\ {ThatReason} \in SUBSET Ids
  BY ReportAssumption
<1>6. Honest(accessibility(chrome, pages, opened), Wrong(wrong))
  BY <1>3, <1>4, <1>5, KindIsHonest, DegradedIsHonest
<1> QED BY <1>6 DEF wrong

LEMMA CommitsAreHonest ==
  ASSUME NEW resolved \in BOOLEAN, NEW failing \in 0 .. PRE_ADOPTION_THRESHOLD
  PROVE  Honest(commits(resolved, failing), Wrong(failing > 0))
<1>1. Wrong(failing > 0) \in SUBSET Ids /\ (~(failing > 0) => Wrong(failing > 0) = {})
  BY ReportAssumption DEF Wrong
<1>2. {ThisReason} \in SUBSET Ids /\ {ThatReason} \in SUBSET Ids
  BY ReportAssumption
<1>3. \/ commits(resolved, failing) \in {Degraded({ThisReason}), Degraded({ThatReason}), Kind("fail")}
      \/ commits(resolved, failing) = Kind("pass") /\ ~(failing > 0)
  BY DEF commits
<1> QED BY <1>1, <1>2, <1>3, KindIsHonest, DegradedIsHonest

LEMMA ProtectionIsHonest ==
  ASSUME NEW asked \in BOOLEAN, NEW seen
  PROVE  Honest(branchProtection(asked, seen),
                Wrong(~(REQUIRED_RULE_TYPES \subseteq
                          UNION {r.rules : r \in {x \in ToSet(seen) : x.active /\ x.covers}})))
<1> DEFINE inForce == UNION {r.rules : r \in {x \in ToSet(seen) : x.active /\ x.covers}}
           wrong == ~(REQUIRED_RULE_TYPES \subseteq inForce)
<1>1. wrong \in BOOLEAN
  OBVIOUS
<1>2. enforced(seen) \subseteq inForce
  BY DEF enforced
<1>3. \/ branchProtection(asked, seen) \in {Degraded({ThisReason}), Kind("fail")}
      \/ branchProtection(asked, seen) = Kind("pass") /\ ~wrong
  <2> HIDE DEF inForce
  <2> QED BY <1>2 DEF branchProtection
<1> HIDE DEF wrong
<1>4. Wrong(wrong) \in SUBSET Ids /\ (~wrong => Wrong(wrong) = {})
  BY <1>1, WrongIsId
<1>5. {ThisReason} \in SUBSET Ids
  BY ReportAssumption
<1>6. Honest(branchProtection(asked, seen), Wrong(wrong))
  BY <1>3, <1>4, <1>5, KindIsHonest, DegradedIsHonest
<1> QED BY <1>6 DEF wrong

LEMMA PackIsHonest ==
  ASSUME NEW p \in [private : BOOLEAN, tarball : BOOLEAN, installs : BOOLEAN, missing : SUBSET Findable,
                    entries : UNION {[e -> {"imports", "peer", "broken"}] : e \in SUBSET Findable}]
  PROVE  Honest(packedConsumer(p), IF p.private \/ p.entries = <<>> THEN {} ELSE problems(p))
<1> DEFINE found == IF p.private \/ p.entries = <<>> THEN {} ELSE problems(p)
<1>1. found \in SUBSET Ids
  <2>1. DOMAIN p.entries \subseteq Findable /\ p.missing \subseteq Findable
    OBVIOUS
  <2> QED BY <2>1, RunsAssumption DEF problems
<1>2. packedState(p) \in {"exempt", "none", "verified"} => found = {}
  BY DEF packedState
<1>3. packedState(p) \in {"exempt", "none", "verified", "problem", "install-failed"}
  BY DEF packedState
<1>4. {ThisReason} \in SUBSET Ids
  BY ReportAssumption
<1> HIDE DEF found
<1>5. Honest(packedConsumer(p), found)
  <2>1. CASE packedState(p) = "install-failed"
    BY <1>1, <1>4, <2>1, DegradedIsHonest DEF packedConsumer
  <2>2. CASE packedState(p) = "problem"
    BY <1>1, <2>2, KindIsHonest DEF packedConsumer
  <2>3. CASE packedState(p) \in {"exempt", "none", "verified"}
    BY <1>1, <1>2, <2>3, KindIsHonest DEF packedConsumer
  <2> QED BY <1>3, <2>1, <2>2, <2>3
<1> QED BY <1>5 DEF found

=============================================================================
