----------------------------- MODULE MaxLinkIds -----------------------------
(***************************************************************************)
(* Answers find their own queries, for every number of frame IDs, slots    *)
(* and queries: OnlyOwnAnswerMatches.                                      *)
(*                                                                         *)
(* A query leaves traces: its listener, its frame, its answer.  The frame  *)
(* ID in a trace says how many frames were composed since the query, as    *)
(* long as they are fewer than IdSpan; and no two queries were composed    *)
(* at the same time.  So two traces with one ID belong to one query.       *)
(***************************************************************************)
EXTENDS MaxLinkProofs

\* The frame ID composed a frames before next_id was n, for a < IdSpan.
IdBefore(n, a) ==
  IF a < Masked(n) THEN IdSpan + Masked(n) - 1 - a
                   ELSE IdSpan + Masked(n) - 1 - a + IdSpan

\* What there is of query q under the frame ID id.
ListenerTrace(id, q) == \E i \in Live(tab) : tab.slot[i].id = id /\ tab.slot[i].q = q
FrameTrace(id, q) == \E f \in atMax : f.id = id /\ f.q = q
AnswerTrace(id, q) ==
  \E k \in DOMAIN toEsp : toEsp[k].type = "answer" /\ toEsp[k].id = id /\ toEsp[k].q = q

Trace(id, q) == ListenerTrace(id, q) \/ FrameTrace(id, q) \/ AnswerTrace(id, q)

Dated(id, q) == age[q] < IdSpan => id = IdBefore(next_id, age[q])

TracesDated == \A q \in Queries, id \in OwnIds : Trace(id, q) => Dated(id, q)

AgesDiffer == \A p, q \in Queries : (age[p] = age[q] /\ age[p] < IdSpan) => p = q

IdsInv == LinkInv /\ TracesDated /\ AgesDiffer

-----------------------------------------------------------------------------
(* Numbers.                                                                *)

\* The next frame's number follows this one's, round and round.
LEMMA NextMasked ==
  ASSUME NEW n \in 0 .. 2 * IdSpan - 1
  PROVE  /\ Masked(n) \in 0 .. IdSpan - 1
         /\ Masked(IncId(n)) = IF Masked(n) = IdSpan - 1 THEN 0 ELSE Masked(n) + 1
BY TableAssumption DEF Masked, IncId

\* A frame just composed is zero frames old, and every other one older.
LEMMA NewIsDated ==
  ASSUME NEW n \in 0 .. 2 * IdSpan - 1
  PROVE  /\ IncId(n) \in 0 .. 2 * IdSpan - 1
         /\ OwnId(n) = IdBefore(IncId(n), 0)
         /\ \A a \in 0 .. IdSpan :
              a + 1 < IdSpan => IdBefore(n, a) = IdBefore(IncId(n), a + 1)
<1>1. IncId(n) \in 0 .. 2 * IdSpan - 1
  BY IdsInRange
<1>2. OwnId(n) = IdSpan + Masked(n)
  BY DEF OwnId
<1> QED
  BY <1>1, <1>2, NextMasked, TableAssumption DEF IdBefore

\* One ID is not composed twice within IdSpan frames.
LEMMA OneAgePerId ==
  ASSUME NEW n \in 0 .. 2 * IdSpan - 1, NEW a \in 0 .. IdSpan, NEW b \in 0 .. IdSpan,
         a < IdSpan, b < IdSpan, IdBefore(n, a) = IdBefore(n, b)
  PROVE  a = b
BY NextMasked, TableAssumption DEF IdBefore

-----------------------------------------------------------------------------
(* The line.                                                               *)

\* Every element of a sequence's tail is an element of the sequence.
LEMMA TailElements ==
  ASSUME NEW S, NEW s \in Seq(S), Len(s) > 0
  PROVE  \A k \in DOMAIN Tail(s) : k + 1 \in DOMAIN s /\ Tail(s)[k] = s[k + 1]
OBVIOUS

\* Every element after an append was there before or is the one appended.
LEMMA AppendElements ==
  ASSUME NEW S, NEW s \in Seq(S), NEW e \in S
  PROVE  \A k \in DOMAIN Append(s, e) :
           Append(s, e)[k] = e \/ (k \in DOMAIN s /\ Append(s, e)[k] = s[k])
OBVIOUS

-----------------------------------------------------------------------------
(* Steps.                                                                  *)

\* The invariant holds at start-up: no trace of any query exists.
LEMMA IdsInit == Init => IdsInv
<1> SUFFICES ASSUME Init PROVE IdsInv
  OBVIOUS
<1>1. LinkInv
  BY InitInv
<1>2. \A q \in Queries : age[q] = IdSpan
  BY DEF Init
<1>3. TracesDated /\ AgesDiffer
  BY <1>2, TableAssumption DEF TracesDated, Dated, AgesDiffer
<1> QED
  BY <1>1, <1>3 DEF IdsInv

\* A step that composes no frame only carries traces along.
LEMMA SameIds ==
  ASSUME IdsInv, UNCHANGED <<next_id, age>>,
         \A q \in Queries, id \in OwnIds : Trace(id, q)' => Trace(id, q)
  PROVE  TracesDated' /\ AgesDiffer'
BY DEF IdsInv, TracesDated, AgesDiffer, Dated

\* A frame composed for none of the queries makes all of them older.
LEMMA ComposeIds ==
  ASSUME IdsInv, Compose, UNCHANGED <<tab, atMax, toEsp>>
  PROVE  TracesDated' /\ AgesDiffer'
<1> USE DEF IdsInv, LinkInv
<1>1. /\ next_id' = IncId(next_id)
      /\ \A q \in Queries : age'[q] = UpTo(age[q], IdSpan)
  BY DEF Compose
<1>2. \A q \in Queries : age[q] \in 0 .. IdSpan
  BY DEF TypeOK
<1>3. ASSUME NEW q \in Queries, NEW id \in OwnIds, Trace(id, q)', age'[q] < IdSpan
      PROVE  id = IdBefore(next_id', age[q] + 1) /\ age'[q] = age[q] + 1
  <2>1. Trace(id, q)
    BY <1>3 DEF Trace, ListenerTrace, FrameTrace, AnswerTrace
  <2>2. age'[q] = age[q] + 1 /\ age[q] < IdSpan
    BY <1>1, <1>2, <1>3, TableAssumption DEF UpTo
  <2>3. id = IdBefore(next_id, age[q])
    BY <2>1, <2>2 DEF TracesDated, Dated
  <2> QED
    BY <1>1, <1>2, <2>2, <2>3, <1>3, NewIsDated DEF TypeOK
<1>4. TracesDated'
  BY <1>3 DEF TracesDated, Dated
<1>5. AgesDiffer'
  BY <1>1, <1>2, TableAssumption DEF AgesDiffer, UpTo
<1> QED
  BY <1>4, <1>5

\* A query that is sent has a trace under the new number only, for nothing was
\* left of an older query with its identity.
LEMMA SentIds ==
  ASSUME IdsInv, NEW q \in Queries, Fresh(q), NEW fn \in {"cmd", "hb"},
         NEW timeout \in Nat, QuerySent(q, fn, timeout), UNCHANGED toEsp
  PROVE  TracesDated' /\ AgesDiffer'
<1> DEFINE l == [fn |-> fn, id |-> OwnId(next_id), timeout |-> timeout, q |-> q]
<1> USE DEF IdsInv, LinkInv
<1>1. /\ tab' = Add(tab, l) /\ Free(tab) # {}
      /\ next_id' = IncId(next_id)
      /\ atMax' \in {atMax, atMax \cup {[id |-> OwnId(next_id), q |-> q]}}
      /\ age' = [[p \in Queries |-> UpTo(age[p], IdSpan)] EXCEPT ![q] = 0]
  BY DEF QuerySent
<1>2. l \in Listener /\ l.id = OwnId(next_id) /\ l.q = q
  BY IdsInRange DEF Listener, TypeOK
<1> HIDE DEF l
<1>3. PICK i \in Free(tab) : tab'.slot = [tab.slot EXCEPT ![i] = l]
  BY <1>1, <1>2, AddToTable, LinkAssumption DEF TypeOK
<1>4. /\ Live(tab') \subseteq Live(tab) \cup {i}
      /\ tab'.slot[i] = l
      /\ \A j \in Live(tab) : j # i /\ tab'.slot[j] = tab.slot[j]
  BY <1>2, <1>3 DEF Free, Live, TypeOK, Table
<1>5. \A p \in Queries : age[p] \in 0 .. IdSpan
  BY DEF TypeOK
<1>6. /\ age'[q] = 0
      /\ \A p \in Queries \ {q} : age'[p] = UpTo(age[p], IdSpan)
  BY <1>1
<1>7. \A id : ~Trace(id, q)
  BY DEF Fresh, Trace, ListenerTrace, FrameTrace, AnswerTrace, ListenersPending
<1>8. ASSUME NEW id \in OwnIds, NEW p \in Queries, Trace(id, p)'
      PROVE  Trace(id, p) \/ (p = q /\ id = OwnId(next_id))
  <2>1. CASE ListenerTrace(id, p)'
    BY <2>1, <1>2, <1>4 DEF ListenerTrace, Trace
  <2>2. CASE FrameTrace(id, p)'
    BY <2>2, <1>1 DEF FrameTrace, Trace
  <2>3. CASE AnswerTrace(id, p)'
    BY <2>3 DEF AnswerTrace, Trace
  <2> QED
    BY <1>8, <2>1, <2>2, <2>3 DEF Trace
<1>9. ASSUME NEW p \in Queries, NEW id \in OwnIds, Trace(id, p)'
      PROVE  Dated(id, p)'
  <2>1. CASE p = q
    <3>1. id = OwnId(next_id)
      BY <1>7, <1>8, <1>9, <2>1
    <3> QED
      BY <1>1, <1>6, <2>1, <3>1, NewIsDated DEF Dated, TypeOK
  <2>2. CASE p # q
    <3> SUFFICES ASSUME age'[p] < IdSpan PROVE id = IdBefore(next_id', age'[p])
      BY DEF Dated
    <3>1. age'[p] = age[p] + 1 /\ age[p] < IdSpan
      BY <1>5, <1>6, <2>2, TableAssumption DEF UpTo
    <3>2. id = IdBefore(next_id, age[p])
      BY <1>8, <1>9, <2>2, <3>1 DEF TracesDated, Dated
    <3>3. id = IdBefore(next_id', age[p] + 1)
      BY <1>1, <1>5, <3>1, <3>2, NewIsDated DEF TypeOK
    <3> QED
      BY <3>1, <3>3
  <2> QED
    BY <2>1, <2>2
<1>10. TracesDated'
  BY <1>9 DEF TracesDated
<1>11. AgesDiffer'
  BY <1>5, <1>6, TableAssumption DEF AgesDiffer, UpTo
<1> QED
  BY <1>10, <1>11

\* Sending a frame of any kind keeps the invariant.
LEMMA SendIds ==
  ASSUME IdsInv, MqttTask \/ \E q \in HbQueries : SendHeartbeat(q)
  PROVE  TracesDated' /\ AgesDiffer'
<1>1. ASSUME NEW q \in CmdQueries, SendCmd(q)
      PROVE  TracesDated' /\ AgesDiffer'
  <2>1. /\ q \in Queries /\ Fresh(q) /\ UNCHANGED toEsp
        /\ QuerySent(q, "cmd", CmdTimeout) \/ QueryRefused
    BY <1>1, LinkAssumption DEF SendCmd
  <2>2. CASE QuerySent(q, "cmd", CmdTimeout)
    BY <2>1, <2>2, SentIds, LinkAssumption
  <2>3. CASE QueryRefused
    BY <2>1, <2>3, ComposeIds DEF QueryRefused
  <2> QED
    BY <2>1, <2>2, <2>3
<1>2. ASSUME NEW q \in HbQueries, SendHeartbeat(q)
      PROVE  TracesDated' /\ AgesDiffer'
  <2>1. /\ q \in Queries /\ Fresh(q) /\ UNCHANGED toEsp
        /\ QuerySent(q, "hb", HbTimeout) \/ QueryRefused
    BY <1>2, LinkAssumption DEF SendHeartbeat
  <2>2. CASE QuerySent(q, "hb", HbTimeout)
    BY <2>1, <2>2, SentIds, LinkAssumption
  <2>3. CASE QueryRefused
    BY <2>1, <2>3, ComposeIds DEF QueryRefused
  <2> QED
    BY <2>1, <2>2, <2>3
<1>3. CASE SendEstop
  BY <1>3, ComposeIds DEF SendEstop, maxVars
<1> QED
  BY <1>1, <1>2, <1>3 DEF MqttTask

\* A step that neither sends nor composes: an expired or answered listener
\* leaves no trace, an answer has the ID and the query of the frame it answers.
LEMMA FrameToIdListenerTraces ==
  ASSUME LinkInv, FrameToIdListener, NEW id \in OwnIds, NEW q \in Queries, Trace(id, q)'
  PROVE  Trace(id, q)
<1> DEFINE i == First(Matching(tab, Head(toEsp).id))
<1> USE DEF LinkInv
<1>1. i \in Live(tab)
  BY MatchingIsLive DEF FrameToIdListener, TypeOK
<1>2. tab' = Cleanup(tab, i) /\ rxn > 0 /\ toEsp' = Tail(toEsp) /\ atMax' = atMax
  BY DEF FrameToIdListener
<1> HIDE DEF i
<1>3. tab'.slot = [tab.slot EXCEPT ![i] = None]
  BY <1>1, <1>2, CleanupOfTable DEF TypeOK
<1>4. \A j \in Live(tab') : j \in Live(tab) /\ tab'.slot[j] = tab.slot[j]
  BY <1>1, <1>3 DEF Live, TypeOK, Table
<1>5. \A k \in DOMAIN toEsp' : k + 1 \in DOMAIN toEsp /\ toEsp'[k] = toEsp[k + 1]
  BY <1>2, TailElements DEF TypeOK, RxInLine
<1> QED
  BY <1>2, <1>4, <1>5 DEF Trace, ListenerTrace, FrameTrace, AnswerTrace

\* A frame no ID listener takes leaves no new trace of a query.
LEMMA FrameToOtherListenerTraces ==
  ASSUME LinkInv, FrameToOtherListener, NEW id \in OwnIds, NEW q \in Queries, Trace(id, q)'
  PROVE  Trace(id, q)
<1>1. tab' = tab /\ rxn > 0 /\ toEsp' = Tail(toEsp) /\ atMax' = atMax
  BY DEF FrameToOtherListener, tfVars
<1>2. \A k \in DOMAIN toEsp' : k + 1 \in DOMAIN toEsp /\ toEsp'[k] = toEsp[k + 1]
  BY <1>1, TailElements DEF LinkInv, TypeOK, RxInLine
<1> QED
  BY <1>1, <1>2 DEF Trace, ListenerTrace, FrameTrace, AnswerTrace

\* A tick of the table leaves no new trace of a query.
LEMMA TickTraces ==
  ASSUME LinkInv, Tick, NEW id \in OwnIds, NEW q \in Queries, Trace(id, q)'
  PROVE  Trace(id, q)
<1> USE DEF LinkInv
<1>1. tab' = CountDown(tab) /\ toEsp' = toEsp /\ atMax' = atMax
  BY DEF Tick, maxVars
<1>2. /\ \A i \in Slots : i \notin Live(tab) \ Expiring(tab) => tab'.slot[i] = None
      /\ \A i \in Live(tab) \ Expiring(tab) :
           tab'.slot[i].id = tab.slot[i].id /\ tab'.slot[i].q = tab.slot[i].q
  BY <1>1, CountDownOfTable, LinkAssumption DEF TypeOK
<1>3. \A i \in Live(tab') : i \in Live(tab) \ Expiring(tab)
  BY <1>2 DEF Live
<1> QED
  BY <1>1, <1>2, <1>3 DEF Trace, ListenerTrace, FrameTrace, AnswerTrace

\* The MAX32655 and the line leave no new trace of a query: what they send has the
\* ID and the query of what they were sent.
LEMMA BoardTraces ==
  ASSUME LinkInv, Board, NEW id \in OwnIds, NEW q \in Queries, Trace(id, q)'
  PROVE  Trace(id, q)
<1> USE DEF LinkInv
<1>1. tab' = tab /\ toEsp \in Seq(Answer \cup Event)
  BY DEF Board, Lose, MaxAnswer, MaxEvent, MaxStop, MaxStart, tfVars, TypeOK
<1>2. atMax' \subseteq atMax
  BY DEF Board, Lose, MaxAnswer, MaxEvent, MaxStop, MaxStart
<1>3. CASE toEsp' = toEsp
  BY <1>1, <1>2, <1>3 DEF Trace, ListenerTrace, FrameTrace, AnswerTrace
<1>4. ASSUME NEW f \in atMax, NEW full \in BOOLEAN, MaxAnswer(f, full)
      PROVE  Trace(id, q)
  <2> DEFINE a == [type |-> "answer", id |-> f.id, q |-> f.q, full |-> full]
  <2>1. toEsp' = Append(toEsp, a) /\ a.id = f.id /\ a.q = f.q
    BY <1>4 DEF MaxAnswer
  <2>2. a \in Answer \cup Event
    BY <1>4 DEF Answer, QueryFrame, TypeOK
  <2> HIDE DEF a
  <2>3. \A k \in DOMAIN toEsp' : toEsp'[k] = a \/ (k \in DOMAIN toEsp /\ toEsp'[k] = toEsp[k])
    BY <1>1, <2>1, <2>2, AppendElements
  <2> QED
    BY <1>1, <1>2, <2>1, <2>3 DEF Trace, ListenerTrace, FrameTrace, AnswerTrace
<1>5. ASSUME NEW n \in EventIds, MaxEvent(n)
      PROVE  Trace(id, q)
  <2> DEFINE e == [type |-> "event", id |-> n]
  <2>1. toEsp' = Append(toEsp, e) /\ e.type = "event" /\ e \in Answer \cup Event
    BY <1>5 DEF MaxEvent, Event
  <2> HIDE DEF e
  <2>2. \A k \in DOMAIN toEsp' : toEsp'[k] = e \/ (k \in DOMAIN toEsp /\ toEsp'[k] = toEsp[k])
    BY <1>1, <2>1, AppendElements
  <2> QED
    BY <1>1, <1>2, <2>1, <2>2 DEF Trace, ListenerTrace, FrameTrace, AnswerTrace
<1> QED
  BY <1>3, <1>4, <1>5 DEF Board, Lose, MaxStop, MaxStart

\* Every step keeps the invariant.
LEMMA IdsNext == IdsInv /\ [Next]_vars => IdsInv'
<1> SUFFICES ASSUME IdsInv, [Next]_vars PROVE IdsInv'
  OBVIOUS
<1> USE DEF IdsInv
<1>1. LinkInv'
  BY NextInv
<1>2. CASE MqttTask \/ \E q \in HbQueries : SendHeartbeat(q)
  BY <1>1, <1>2, SendIds
<1>3. CASE FrameToIdListener
  <2>1. UNCHANGED <<next_id, age>>
    BY <1>3 DEF FrameToIdListener
  <2> QED
    BY <1>1, <1>3, <2>1, FrameToIdListenerTraces, SameIds
<1>4. CASE FrameToOtherListener
  <2>1. UNCHANGED <<next_id, age>>
    BY <1>4 DEF FrameToOtherListener, tfVars, histVars
  <2> QED
    BY <1>1, <1>4, <2>1, FrameToOtherListenerTraces, SameIds
<1>5. CASE Tick
  <2>1. UNCHANGED <<next_id, age>>
    BY <1>5 DEF Tick
  <2> QED
    BY <1>1, <1>5, <2>1, TickTraces, SameIds
<1>6. CASE Board
  <2>1. UNCHANGED <<next_id, age>>
    BY <1>6 DEF Board, Lose, MaxAnswer, MaxEvent, MaxStop, MaxStart, tfVars, histVars
  <2> QED
    BY <1>1, <1>6, <2>1, BoardTraces, SameIds
<1>7. CASE \/ UNCHANGED vars \/ HeartbeatDue \/ GiveMutex \/ Elapse
           \/ \E n \in 0 .. RxBurst : UartRead(n)
  <2>1. UNCHANGED <<next_id, age, tab, atMax, toEsp>>
    BY <1>7 DEF vars, HeartbeatDue, GiveMutex, Elapse, UartRead, tfVars, maxVars, histVars
  <2>2. \A q \in Queries, id \in OwnIds : Trace(id, q)' => Trace(id, q)
    BY <2>1 DEF Trace, ListenerTrace, FrameTrace, AnswerTrace
  <2> QED
    BY <1>1, <2>1, <2>2, SameIds
<1> QED
  BY <1>2, <1>3, <1>4, <1>5, <1>6, <1>7 DEF Next, TfTask, ProtocolTask

\* The invariant holds in every reachable state.
THEOREM IdsInvariant == Spec => []IdsInv
<1> QED
  BY IdsInit, IdsNext, PTL DEF Spec

-----------------------------------------------------------------------------
\* A listener and a frame with the same ID, both composed within the last round of
\* the counter, are of the same query.
LEMMA DatedIsOwn ==
  ASSUME IdsInv PROVE OnlyOwnAnswerMatches
<1> USE DEF IdsInv, LinkInv
<1> SUFFICES ASSUME NEW k \in DOMAIN toEsp, NEW i \in Live(tab),
                    toEsp[k].id = tab.slot[i].id
             PROVE  /\ toEsp[k].type = "answer"
                    /\ \/ toEsp[k].q = tab.slot[i].q
                       \/ age[toEsp[k].q] = IdSpan
                       \/ age[tab.slot[i].q] = IdSpan
  BY DEF OnlyOwnAnswerMatches
<1> DEFINE f == toEsp[k]
           l == tab.slot[i]
<1>1. l \in Listener /\ l.id \in OwnIds /\ l.q \in Queries
  BY DEF TypeOK, Table, Live, Listener
<1>2. f \in Answer \cup Event
  BY DEF TypeOK
<1>3. f \notin Event
  BY <1>1, TableAssumption, LinkAssumption DEF Event, OwnIds, PeerIds
<1>4. f.type = "answer" /\ f.q \in Queries
  BY <1>2, <1>3 DEF Answer
<1>5. Dated(l.id, l.q)
  BY <1>1 DEF TracesDated, Trace, ListenerTrace
<1>6. Dated(l.id, f.q)
  BY <1>1, <1>4 DEF TracesDated, Trace, AnswerTrace
<1> HIDE DEF f, l
<1>7. CASE age[f.q] < IdSpan /\ age[l.q] < IdSpan
  <2>1. IdBefore(next_id, age[f.q]) = IdBefore(next_id, age[l.q])
    BY <1>5, <1>6, <1>7 DEF Dated
  <2>2. age[f.q] \in 0 .. IdSpan /\ age[l.q] \in 0 .. IdSpan /\ next_id \in 0 .. 2 * IdSpan - 1
    BY <1>1, <1>4 DEF TypeOK
  <2>3. age[f.q] = age[l.q]
    BY <1>7, <2>1, <2>2, OneAgePerId
  <2>4. f.q = l.q
    BY <1>1, <1>4, <1>7, <2>3 DEF AgesDiffer
  <2> QED
    BY <1>4, <2>4 DEF f, l
<1>8. CASE ~(age[f.q] < IdSpan /\ age[l.q] < IdSpan)
  <2>1. age[f.q] \in 0 .. IdSpan /\ age[l.q] \in 0 .. IdSpan
    BY <1>1, <1>4 DEF TypeOK
  <2>2. age[f.q] = IdSpan \/ age[l.q] = IdSpan
    BY <1>8, <2>1, TableAssumption
  <2> QED
    BY <1>4, <2>2 DEF f, l
<1> QED
  BY <1>7, <1>8

\* Until the 7-bit counter has come round, a frame finds the listener of its
\* own query or none, whatever is lost, late, refused or out of order.
THEOREM AnswersFindTheirQueries == Spec => []OnlyOwnAnswerMatches
<1> QED
  BY DatedIsOwn, IdsInvariant, PTL
=============================================================================
