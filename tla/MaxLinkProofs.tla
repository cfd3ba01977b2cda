--------------------------- MODULE MaxLinkProofs ---------------------------
(***************************************************************************)
(* Theorems on MaxLink, for every number of slots, of frame IDs and of     *)
(* queries, and for all time-outs and intervals.                           *)
(***************************************************************************)
EXTENDS MaxLink, FiniteSetTheorems, WellFoundedInduction, TLAPS

-----------------------------------------------------------------------------
(* What the operations of IdListeners return, for every size of the table. *)

\* A non-empty set of naturals has a least element.
LEMMA LeastNat ==
  ASSUME NEW S, S \subseteq Nat, S # {}
  PROVE  \E i \in S : \A j \in S : i <= j
<1> DEFINE R == {r \in Nat \X Nat : r[1] < r[2]}
<1>1. IsWellFoundedOn(R, Nat)
  BY NatLessThanWellFounded DEF OpToRel
<1>2. PICK x \in S : \A y \in S : ~(<<y, x>> \in R)
  BY <1>1, WFMin
<1>3. \A y \in S : x <= y
  <2> TAKE y \in S
  <2>1. x \in Nat /\ y \in Nat
    OBVIOUS
  <2>2. ~(y < x)
    BY <1>2, <2>1
  <2> QED
    BY <2>1, <2>2
<1> QED
  BY <1>3

\* First picks the least element: the loops stop at the first slot that fits.
LEMMA FirstIsLeast ==
  ASSUME NEW S, S \subseteq Nat, S # {}
  PROVE  First(S) \in S /\ \A j \in S : First(S) <= j
BY LeastNat DEF First

-----------------------------------------------------------------------------
\* The listeners of a table are inside the bound of its loops.
LiveBelow(t) == \A i \in Live(t) : i < t.count

\* TF_AddIdListener puts the listener in one free slot and changes no other;
\* the bound still covers every listener.
LEMMA AddToTable ==
  ASSUME NEW t \in Table, NEW l \in Listener, Free(t) # {}, LiveBelow(t),
         None \notin Listener
  PROVE  /\ Add(t, l) \in Table
         /\ LiveBelow(Add(t, l))
         /\ \E i \in Free(t) : Add(t, l).slot = [t.slot EXCEPT ![i] = l]
<1> DEFINE i == First(Free(t))
<1>1. i \in Free(t) /\ i \in Slots
  BY FirstIsLeast, TableAssumption DEF Free, Slots
<1> HIDE DEF i
<1>2. Add(t, l) = [slot  |-> [t.slot EXCEPT ![i] = l],
                   count |-> IF i >= t.count THEN i + 1 ELSE t.count]
  BY DEF Add, i
<1>3. Add(t, l) \in Table
  BY <1>1, <1>2, TableAssumption DEF Table, Slots
<1>4. LiveBelow(Add(t, l))
  BY <1>1, <1>2, TableAssumption DEF LiveBelow, Live, Table, Slots
<1> QED
  BY <1>1, <1>2, <1>3, <1>4

\* cleanup_id_listener empties one slot and changes no other; the bound still
\* covers every listener, though it may stay above the last of them.
LEMMA CleanupOfTable ==
  ASSUME NEW t \in Table, NEW i \in Live(t), LiveBelow(t)
  PROVE  /\ Cleanup(t, i) \in Table
         /\ LiveBelow(Cleanup(t, i))
         /\ Cleanup(t, i).slot = [t.slot EXCEPT ![i] = None]
BY TableAssumption DEF Cleanup, LiveBelow, Live, Table, Slots

\* A slot found by a frame's ID holds a listener with that ID.
LEMMA MatchingIsLive ==
  ASSUME NEW t \in Table, NEW id, Matching(t, id) # {}
  PROVE  /\ First(Matching(t, id)) \in Live(t)
         /\ t.slot[First(Matching(t, id))].id = id
         /\ t.slot[First(Matching(t, id))] \in Listener
<1>1. Matching(t, id) \subseteq Nat
  BY DEF Matching, Table
<1>2. First(Matching(t, id)) \in Matching(t, id)
  BY <1>1, FirstIsLeast
<1> QED
  BY <1>2, TableAssumption DEF Matching, Live, Table, Slots

\* TF_Tick reaches every listener: it empties the slots of those with one
\* iteration left, counts the others down by one (but those that never expire,
\* with a time-out of zero), and leaves everything else of a slot alone.
LEMMA CountDownOfTable ==
  ASSUME NEW t \in Table, LiveBelow(t), None \notin Listener
  PROVE  /\ CountDown(t) \in Table
         /\ LiveBelow(CountDown(t))
         /\ Expiring(t) = {i \in Live(t) : t.slot[i].timeout = 1}
         /\ \A i \in Slots : i \notin Live(t) \ Expiring(t) => CountDown(t).slot[i] = None
         /\ \A i \in Live(t) \ Expiring(t) :
              LET old == t.slot[i]
                  new == CountDown(t).slot[i]
              IN  /\ new \in Listener
                  /\ new.fn = old.fn /\ new.id = old.id /\ new.q = old.q
                  /\ new.timeout = IF old.timeout = 0 THEN 0 ELSE old.timeout - 1
<1>1. Running(t) = {i \in Live(t) : t.slot[i].timeout # 0}
  BY TableAssumption DEF Running, Live, LiveBelow, Table, Slots
<1>2. Expiring(t) = {i \in Live(t) : t.slot[i].timeout = 1}
  BY <1>1 DEF Expiring
<1>3. ASSUME NEW i \in Slots, i \notin Live(t) \ Expiring(t)
      PROVE  CountDown(t).slot[i] = None
  BY <1>1, <1>3 DEF CountDown, Live
<1>4. ASSUME NEW i \in Live(t) \ Expiring(t)
      PROVE  LET old == t.slot[i]
                 new == CountDown(t).slot[i]
             IN  /\ new \in Listener
                 /\ new.fn = old.fn /\ new.id = old.id /\ new.q = old.q
                 /\ new.timeout = IF old.timeout = 0 THEN 0 ELSE old.timeout - 1
  <2>1. i \in Slots /\ t.slot[i] \in Listener
    BY <1>4 DEF Live, Table
  <2>2. CASE t.slot[i].timeout = 0
    <3>1. CountDown(t).slot[i] = t.slot[i]
      BY <1>1, <2>1, <2>2, <1>4 DEF CountDown
    <3> QED
      BY <2>1, <2>2, <3>1
  <2>3. CASE t.slot[i].timeout # 0
    <3>1. CountDown(t).slot[i] = [t.slot[i] EXCEPT !.timeout = @ - 1]
      BY <1>1, <2>1, <2>3, <1>4 DEF CountDown
    <3>2. t.slot[i].timeout - 1 \in Nat
      BY <2>1, <2>3 DEF Listener
    <3> QED
      BY <2>1, <2>3, <3>1, <3>2 DEF Listener
  <2> QED
    BY <2>2, <2>3
<1>5. CountDown(t).count \in 0 .. MaxIdLst
  <2>1. t.count - 1 \in Expiring(t) => t.count >= 1
    BY <1>2, TableAssumption DEF Live, Slots, Table
  <2> QED
    BY <2>1, TableAssumption DEF CountDown, Table
<1>6. CountDown(t) \in Table
  <2>1. \A i \in Slots : CountDown(t).slot[i] \in Listener \cup {None}
    BY <1>3, <1>4
  <2> QED
    BY <2>1, <1>5 DEF CountDown, Table
<1>7. LiveBelow(CountDown(t))
  <2> SUFFICES ASSUME NEW i \in Live(CountDown(t))
               PROVE  i < CountDown(t).count
    BY DEF LiveBelow
  <2>1. i \in Live(t) \ Expiring(t)
    BY <1>3 DEF Live
  <2>2. i < t.count /\ i \in Nat /\ t.count \in Nat
    BY <2>1 DEF LiveBelow, Live, Slots, Table
  <2>3. CASE t.count - 1 \in Expiring(t)
    <3>1. i # t.count - 1
      BY <2>1, <2>3
    <3> QED
      BY <3>1, <2>2, <2>3 DEF CountDown
  <2>4. CASE t.count - 1 \notin Expiring(t)
    BY <2>4, <2>2 DEF CountDown
  <2> QED
    BY <2>3, <2>4
<1> QED
  BY <1>2, <1>3, <1>4, <1>6, <1>7

-----------------------------------------------------------------------------
(* The inductive invariant of the link.                                    *)

\* tf_task never handles more frames than its read ended.
RxInLine == rxn <= Len(toEsp)

\* OneListenerPerQuery, taken apart.
ListenersPending == \A i \in Live(tab) : status[tab.slot[i].q] = "pending"
ListenersDiffer == \A i, j \in Live(tab) : tab.slot[i].q = tab.slot[j].q => i = j
PendingListened ==
  \A q \in Queries : status[q] = "pending" => \E i \in Live(tab) : tab.slot[i].q = q

LinkInv ==
  /\ TypeOK
  /\ RxInLine
  /\ LiveBelow(tab)
  /\ ListenersPending
  /\ ListenersDiffer
  /\ PendingListened

\* One listener per query follows from the parts of the invariant: a waiting query
\* has a listener, and no two listeners wait for the same query.
LEMMA OneListenerFromParts ==
  ASSUME TypeOK, ListenersPending, ListenersDiffer, PendingListened
  PROVE  OneListenerPerQuery
<1> SUFFICES ASSUME NEW q \in Queries
             PROVE  IF status[q] = "pending"
                    THEN \E i \in Slots : ListenersOf(q) = {i}
                    ELSE ListenersOf(q) = {}
  BY DEF OneListenerPerQuery
<1>1. CASE status[q] = "pending"
  <2>1. PICK i \in Live(tab) : tab.slot[i].q = q
    BY <1>1 DEF PendingListened
  <2>2. ListenersOf(q) = {i}
    BY <2>1 DEF ListenersOf, ListenersDiffer
  <2> QED
    BY <1>1, <2>1, <2>2 DEF Live
<1>2. CASE status[q] # "pending"
  BY <1>2 DEF ListenersOf, ListenersPending
<1> QED
  BY <1>1, <1>2

\* Frame IDs stay frame IDs.
LEMMA IdsInRange ==
  ASSUME NEW n \in 0 .. 2 * IdSpan - 1
  PROVE  /\ IncId(n) \in 0 .. 2 * IdSpan - 1
         /\ Masked(n) \in PeerIds
         /\ OwnId(n) \in OwnIds
BY TableAssumption DEF IncId, Masked, OwnId, PeerIds, OwnIds

\* The invariant holds at start-up: the table is empty and nothing was sent.
LEMMA InitInv == Init => LinkInv
<1> SUFFICES ASSUME Init PROVE LinkInv
  OBVIOUS
<1>1. TypeOK
  <2>1. EmptyTable \in Table
    BY TableAssumption DEF Table, EmptyTable
  <2>2. next_id \in 0 .. 2 * IdSpan - 1
    BY TableAssumption DEF Init
  <2>3. toEsp \in Seq(Answer \cup Event)
    BY DEF Init
  <2>4. /\ status \in [Queries -> {"idle", "pending"} \cup Outcomes]
        /\ age \in [Queries -> 0 .. IdSpan]
    BY TableAssumption DEF Init
  <2>5. rxn \in 0 .. RxBurst /\ since \in 0 .. HbInterval
    BY LinkAssumption DEF Init
  <2> QED
    BY <2>1, <2>2, <2>3, <2>4, <2>5 DEF Init, TypeOK
<1>2. Live(tab) = {}
  BY DEF Init, EmptyTable, Live
<1> QED
  BY <1>1, <1>2 DEF Init, LinkInv, RxInLine, LiveBelow, ListenersPending,
                    ListenersDiffer, PendingListened

-----------------------------------------------------------------------------
\* Ages stay in range.
LEMMA AgesInRange ==
  ASSUME TypeOK
  PROVE  [q \in Queries |-> UpTo(age[q], IdSpan)] \in [Queries -> 0 .. IdSpan]
BY TableAssumption DEF TypeOK, UpTo

\* An accepted query gets the one listener it needs.
LEMMA QuerySentInv ==
  ASSUME LinkInv, NEW q \in Queries, status[q] # "pending",
         NEW fn \in {"cmd", "hb"}, NEW timeout \in Nat,
         QuerySent(q, fn, timeout)
  PROVE  /\ next_id' \in 0 .. 2 * IdSpan - 1
         /\ tab' \in Table
         /\ atMax' \subseteq QueryFrame
         /\ status' \in [Queries -> {"idle", "pending"} \cup Outcomes]
         /\ age' \in [Queries -> 0 .. IdSpan]
         /\ LiveBelow(tab')
         /\ ListenersPending'
         /\ ListenersDiffer'
         /\ PendingListened'
<1> DEFINE l == [fn |-> fn, id |-> OwnId(next_id), timeout |-> timeout, q |-> q]
<1> USE DEF LinkInv
<1>1. l \in Listener
  BY IdsInRange DEF Listener, TypeOK
<1>2. /\ tab' = Add(tab, l) /\ Free(tab) # {}
      /\ next_id' = IncId(next_id)
      /\ atMax' \in {atMax, atMax \cup {[id |-> OwnId(next_id), q |-> q]}}
      /\ status' = [status EXCEPT ![q] = "pending"]
      /\ age' = [[p \in Queries |-> UpTo(age[p], IdSpan)] EXCEPT ![q] = 0]
  BY DEF QuerySent
<1> HIDE DEF l
<1>3. /\ tab' \in Table
      /\ LiveBelow(tab')
      /\ \E i \in Free(tab) : tab'.slot = [tab.slot EXCEPT ![i] = l]
  BY <1>1, <1>2, AddToTable, LinkAssumption DEF TypeOK
<1>4. PICK i \in Free(tab) : tab'.slot = [tab.slot EXCEPT ![i] = l]
  BY <1>3
<1>5. /\ Live(tab') = Live(tab) \cup {i}
      /\ i \in Slots /\ i \notin Live(tab)
      /\ tab'.slot[i] = l /\ l.q = q
      /\ \A j \in Live(tab) : tab'.slot[j] = tab.slot[j]
  BY <1>1, <1>4, LinkAssumption DEF Free, Live, TypeOK, Table, l
<1>6. \A j \in Live(tab) : tab.slot[j].q # q /\ tab.slot[j].q \in Queries
  BY DEF ListenersPending, TypeOK, Table, Live, Listener
<1>7. next_id' \in 0 .. 2 * IdSpan - 1
  BY <1>2, IdsInRange DEF TypeOK
<1>8. atMax' \subseteq QueryFrame
  BY <1>2, IdsInRange DEF TypeOK, QueryFrame
<1>9. status' \in [Queries -> {"idle", "pending"} \cup Outcomes]
  BY <1>2 DEF TypeOK
<1>10. age' \in [Queries -> 0 .. IdSpan]
  BY <1>2, AgesInRange, TableAssumption
<1>11. ListenersPending'
  BY <1>2, <1>5, <1>6 DEF ListenersPending, TypeOK
<1>12. ListenersDiffer'
  BY <1>5, <1>6 DEF ListenersDiffer
<1>13. PendingListened'
  <2> SUFFICES ASSUME NEW r \in Queries, status'[r] = "pending"
               PROVE  \E j \in Live(tab') : tab'.slot[j].q = r
    BY DEF PendingListened
  <2>1. CASE r = q
    BY <1>5, <2>1
  <2>2. CASE r # q
    <3>1. status[r] = "pending"
      BY <1>2, <2>2 DEF TypeOK
    <3>2. PICK j \in Live(tab) : tab.slot[j].q = r
      BY <3>1 DEF PendingListened
    <3> QED
      BY <1>5, <3>2
  <2> QED
    BY <2>1, <2>2
<1> QED
  BY <1>3, <1>7, <1>8, <1>9, <1>10, <1>11, <1>12, <1>13

\* So does a refused one, for which only the counter moves.
LEMMA RefusedInv ==
  ASSUME LinkInv, QueryRefused
  PROVE  /\ next_id' \in 0 .. 2 * IdSpan - 1
         /\ age' \in [Queries -> 0 .. IdSpan]
         /\ UNCHANGED <<tab, atMax, status>>
BY IdsInRange, AgesInRange DEF LinkInv, TypeOK, QueryRefused, Compose

\* The parts of the invariant that only look at the table and the queries.
LEMMA SameQueries ==
  ASSUME LinkInv, UNCHANGED <<tab, status>>
  PROVE  LiveBelow(tab') /\ ListenersPending' /\ ListenersDiffer' /\ PendingListened'
BY DEF LinkInv, ListenersPending, ListenersDiffer, PendingListened

\* max32655_send_cmd keeps the invariant, whether the frame finds a slot or not.
LEMMA SendCmdInv ==
  ASSUME LinkInv, NEW q \in CmdQueries, SendCmd(q)
  PROVE  LinkInv'
<1>1. q \in Queries /\ status[q] # "pending"
  BY LinkAssumption DEF SendCmd, Fresh
<1>2. UNCHANGED <<taskVars, protoVars, connected, toEsp, alive, lastHb>>
  BY DEF SendCmd
<1>3. CASE QuerySent(q, "cmd", CmdTimeout)
  BY <1>1, <1>2, <1>3, QuerySentInv, LinkAssumption
     DEF LinkInv, TypeOK, RxInLine, taskVars, protoVars
<1>4. CASE QueryRefused
  BY <1>2, <1>4, RefusedInv, SameQueries
     DEF LinkInv, TypeOK, RxInLine, taskVars, protoVars
<1> QED
  BY <1>3, <1>4 DEF SendCmd

\* The emergency stop, sent without a listener, keeps the invariant.
LEMMA SendEstopInv ==
  ASSUME LinkInv, SendEstop
  PROVE  LinkInv'
<1>1. /\ next_id' \in 0 .. 2 * IdSpan - 1
      /\ age' \in [Queries -> 0 .. IdSpan]
  BY IdsInRange, AgesInRange DEF LinkInv, TypeOK, SendEstop, Compose
<1> QED
  BY <1>1, SameQueries
     DEF SendEstop, LinkInv, TypeOK, RxInLine, taskVars, protoVars, maxVars

\* Waking up for the next heartbeat keeps the invariant.
LEMMA HeartbeatDueInv ==
  ASSUME LinkInv, HeartbeatDue
  PROVE  LinkInv'
BY SameQueries, LinkAssumption
   DEF HeartbeatDue, LinkInv, TypeOK, RxInLine, tfVars, taskVars, maxVars, histVars

\* TF_Query of the heartbeat keeps the invariant, whether it finds a slot or not.
LEMMA SendHeartbeatInv ==
  ASSUME LinkInv, NEW q \in HbQueries, SendHeartbeat(q)
  PROVE  LinkInv'
<1>1. q \in Queries /\ status[q] # "pending"
  BY LinkAssumption DEF SendHeartbeat, Fresh
<1>2. UNCHANGED <<taskVars, since, connected, toEsp, alive>> /\ proto_pc' = "delay"
  BY DEF SendHeartbeat
<1>3. CASE QuerySent(q, "hb", HbTimeout) /\ lastHb' = q
  BY <1>1, <1>2, <1>3, QuerySentInv, LinkAssumption
     DEF LinkInv, TypeOK, RxInLine, taskVars
<1>4. CASE QueryRefused /\ UNCHANGED lastHb
  BY <1>2, <1>4, RefusedInv, SameQueries
     DEF LinkInv, TypeOK, RxInLine, taskVars
<1> QED
  BY <1>3, <1>4 DEF SendHeartbeat

-----------------------------------------------------------------------------
\* uart_read_bytes only tells tf_task how many frames to handle.
LEMMA UartReadInv ==
  ASSUME LinkInv, NEW n \in 0 .. RxBurst, UartRead(n)
  PROVE  LinkInv'
BY SameQueries
   DEF UartRead, LinkInv, TypeOK, RxInLine, tfVars, protoVars, maxVars, histVars

\* The line loses its oldest frame, and tf_task has one less to handle.
LEMMA FrameTaken ==
  ASSUME TypeOK, RxInLine, rxn > 0, toEsp' = Tail(toEsp), rxn' = rxn - 1
  PROVE  /\ toEsp' \in Seq(Answer \cup Event)
         /\ rxn' \in 0 .. RxBurst
         /\ RxInLine'
         /\ Head(toEsp) \in Answer \cup Event
<1>1. toEsp # <<>> /\ Len(toEsp) \in Nat /\ rxn \in Nat
  BY DEF TypeOK, RxInLine
<1>2. Len(Tail(toEsp)) = Len(toEsp) - 1 /\ Tail(toEsp) \in Seq(Answer \cup Event)
  BY <1>1 DEF TypeOK
<1>3. Head(toEsp) \in Answer \cup Event
  BY <1>1 DEF TypeOK
<1> QED
  BY <1>1, <1>2, <1>3, LinkAssumption DEF TypeOK, RxInLine

\* The listener that takes a frame leaves, and its query is concluded.
LEMMA FrameToIdListenerInv ==
  ASSUME LinkInv, FrameToIdListener
  PROVE  LinkInv'
<1> DEFINE i == First(Matching(tab, Head(toEsp).id))
           l == tab.slot[i]
<1> USE DEF LinkInv
<1>1. i \in Live(tab) /\ l \in Listener
  BY MatchingIsLive DEF FrameToIdListener, TypeOK
<1>2. /\ tab' = Cleanup(tab, i)
      /\ \/ l.fn = "cmd" /\ CmdResponse(l.q, Head(toEsp).full)
         \/ l.fn = "hb" /\ HeartbeatResponse(l.q)
      /\ rxn > 0 /\ toEsp' = Tail(toEsp) /\ rxn' = rxn - 1
      /\ UNCHANGED <<next_id, tf_pc, ticked, protoVars, atMax, alive, age, lastHb>>
  BY DEF FrameToIdListener
<1> HIDE DEF i, l
<1>3. /\ publishing' \in BOOLEAN /\ connected' \in BOOLEAN
      /\ \E how \in Outcomes : status' = [status EXCEPT ![l.q] = how]
  BY <1>2, LinkAssumption
     DEF CmdResponse, HeartbeatResponse, OnCmdResponse, OnHeartbeat, MqttPublish,
         Outcomes, TypeOK
<1>4. PICK how \in Outcomes : status' = [status EXCEPT ![l.q] = how]
  BY <1>3
<1>5. /\ tab' \in Table
      /\ LiveBelow(tab')
      /\ tab'.slot = [tab.slot EXCEPT ![i] = None]
  BY <1>1, <1>2, CleanupOfTable DEF TypeOK
<1>6. /\ Live(tab') = Live(tab) \ {i}
      /\ \A j \in Live(tab') : tab'.slot[j] = tab.slot[j]
  BY <1>1, <1>5 DEF Live, TypeOK, Table
<1>7. l.q \in Queries /\ l = tab.slot[i]
  BY <1>1 DEF Listener, l
<1>8. TypeOK' /\ RxInLine'
  BY <1>2, <1>3, <1>4, <1>5, <1>7, FrameTaken DEF TypeOK, protoVars
<1>9. \A j \in Live(tab) \ {i} : tab.slot[j].q # l.q /\ tab.slot[j].q \in Queries
  BY <1>1, <1>7 DEF ListenersDiffer, TypeOK, Table, Live, Listener
<1>10. ListenersPending'
  BY <1>4, <1>6, <1>9 DEF ListenersPending, TypeOK
<1>11. ListenersDiffer'
  BY <1>6 DEF ListenersDiffer
<1>12. PendingListened'
  BY <1>4, <1>6, <1>7 DEF PendingListened, TypeOK, Outcomes
<1> QED
  BY <1>5, <1>8, <1>10, <1>11, <1>12

\* A frame no ID listener takes goes to the type listeners and leaves the table
\* alone.
LEMMA FrameToOtherListenerInv ==
  ASSUME LinkInv, FrameToOtherListener
  PROVE  LinkInv'
<1>1. UNCHANGED <<tfVars, tf_pc, ticked, protoVars, connected, atMax, alive, histVars>>
      /\ publishing' \in BOOLEAN
  BY LinkAssumption DEF FrameToOtherListener, OtherListener, MqttPublish
<1>2. rxn > 0 /\ toEsp' = Tail(toEsp) /\ rxn' = rxn - 1
  BY DEF FrameToOtherListener
<1> QED
  BY <1>1, <1>2, FrameTaken, SameQueries
     DEF LinkInv, TypeOK, tfVars, protoVars, histVars

\* The listeners whose time is up leave, and their queries are concluded.
LEMMA TickInv ==
  ASSUME LinkInv, Tick
  PROVE  LinkInv'
<1> DEFINE expired == {tab.slot[i] : i \in Expiring(tab)}
<1> USE DEF LinkInv
<1>1. /\ tab' = CountDown(tab)
      /\ OnTimeouts(expired)
      /\ status' = [q \in Queries |->
                      IF \E l \in expired : l.q = q THEN "timeout" ELSE status[q]]
      /\ tf_pc' \in {"read", "give"}
      /\ ticked' = TRUE
      /\ UNCHANGED <<next_id, rxn, protoVars, maxVars, age, lastHb>>
  BY DEF Tick
<1>2. publishing' \in BOOLEAN /\ connected' \in BOOLEAN
  BY <1>1, LinkAssumption DEF OnTimeouts, MqttPublish
<1>3. /\ tab' \in Table
      /\ LiveBelow(tab')
      /\ Expiring(tab) \subseteq Live(tab)
      /\ \A i \in Slots : i \notin Live(tab) \ Expiring(tab) => tab'.slot[i] = None
      /\ \A i \in Live(tab) \ Expiring(tab) :
           tab'.slot[i] \in Listener /\ tab'.slot[i].q = tab.slot[i].q
  BY <1>1, CountDownOfTable, LinkAssumption DEF TypeOK
<1>4. Live(tab') = Live(tab) \ Expiring(tab)
  BY <1>3, LinkAssumption DEF Live
<1>5. \A q \in Queries : status'[q] =
        IF \E i \in Expiring(tab) : tab.slot[i].q = q THEN "timeout" ELSE status[q]
  BY <1>1
<1>6. \A i \in Live(tab) : tab.slot[i].q \in Queries
  BY DEF TypeOK, Table, Live, Listener
<1> HIDE DEF expired
<1>7. TypeOK' /\ RxInLine'
  BY <1>1, <1>2, <1>3 DEF TypeOK, RxInLine, Outcomes, protoVars, maxVars
<1>8. ListenersPending'
  BY <1>3, <1>4, <1>5, <1>6 DEF ListenersPending, ListenersDiffer
<1>9. ListenersDiffer'
  BY <1>3, <1>4 DEF ListenersDiffer
<1>10. PendingListened'
  BY <1>3, <1>4, <1>5 DEF PendingListened
<1> QED
  BY <1>3, <1>7, <1>8, <1>9, <1>10

\* Giving tf_mutex back keeps the invariant.
LEMMA GiveMutexInv ==
  ASSUME LinkInv, GiveMutex
  PROVE  LinkInv'
BY SameQueries
   DEF GiveMutex, LinkInv, TypeOK, RxInLine, tfVars, protoVars, maxVars, histVars

-----------------------------------------------------------------------------
\* A passing FreeRTOS tick keeps the invariant.
LEMMA ElapseInv ==
  ASSUME LinkInv, Elapse
  PROVE  LinkInv'
<1>1. since' \in 0 .. HbInterval
  BY LinkAssumption DEF Elapse, UpTo, LinkInv, TypeOK
<1>2. TypeOK' /\ RxInLine'
  BY <1>1 DEF Elapse, LinkInv, TypeOK, RxInLine, tfVars, maxVars
<1> QED
  BY <1>2, SameQueries DEF Elapse, LinkInv, tfVars

\* Whatever the MAX32655 and the line do keeps the invariant: frames are lost,
\* answered or sent, and the table is not theirs.
LEMMA BoardInv ==
  ASSUME LinkInv, Board
  PROVE  LinkInv'
<1> USE DEF LinkInv
<1>1. UNCHANGED <<tfVars, taskVars, protoVars, connected, histVars>>
  BY DEF Board, Lose, MaxAnswer, MaxEvent, MaxStop, MaxStart
<1>2. \/ toEsp' = toEsp
      \/ \E f \in Answer \cup Event : toEsp' = Append(toEsp, f)
  BY LinkAssumption
     DEF Board, Lose, MaxAnswer, MaxEvent, MaxStop, MaxStart, Answer, Event, TypeOK, QueryFrame
<1>3. atMax' \subseteq QueryFrame /\ alive' \in BOOLEAN
  BY DEF Board, Lose, MaxAnswer, MaxEvent, MaxStop, MaxStart, TypeOK
<1>4. toEsp' \in Seq(Answer \cup Event) /\ RxInLine'
  BY <1>1, <1>2 DEF TypeOK, RxInLine, taskVars
<1>5. TypeOK'
  BY <1>1, <1>3, <1>4 DEF TypeOK, tfVars, taskVars, protoVars, histVars
<1> QED
  BY <1>1, <1>4, <1>5, SameQueries DEF tfVars, histVars

\* Every step keeps the invariant.
LEMMA NextInv == LinkInv /\ [Next]_vars => LinkInv'
<1> SUFFICES ASSUME LinkInv, [Next]_vars PROVE LinkInv'
  OBVIOUS
<1>1. CASE TfTask
  BY <1>1, UartReadInv, FrameToIdListenerInv, FrameToOtherListenerInv, TickInv,
     GiveMutexInv DEF TfTask
<1>2. CASE ProtocolTask
  BY <1>2, HeartbeatDueInv, SendHeartbeatInv DEF ProtocolTask
<1>3. CASE MqttTask
  BY <1>3, SendEstopInv, SendCmdInv DEF MqttTask
<1>4. CASE Elapse
  BY <1>4, ElapseInv
<1>5. CASE Board
  BY <1>5, BoardInv
<1>6. CASE UNCHANGED vars
  BY <1>6, SameQueries
     DEF LinkInv, TypeOK, RxInLine, vars, tfVars, taskVars, protoVars, maxVars, histVars
<1> QED
  BY <1>1, <1>2, <1>3, <1>4, <1>5, <1>6 DEF Next

-----------------------------------------------------------------------------
\* The invariant holds in every reachable state.
THEOREM LinkInvariant == Spec => []LinkInv
BY InitInv, NextInv, PTL DEF Spec

\* The table and all other variables keep their types.
THEOREM TypeCorrect == Spec => []TypeOK
<1>1. LinkInv => TypeOK
  BY DEF LinkInv
<1> QED
  BY <1>1, LinkInvariant, PTL

\* No listener is ever outside the loops that answer it and tick it away.
THEOREM NoListenerForgotten == Spec => []LiveBelowCount
<1>1. LinkInv => LiveBelowCount
  BY DEF LinkInv, LiveBelow, LiveBelowCount
<1> QED
  BY <1>1, LinkInvariant, PTL

\* An accepted query is waited for by exactly one listener until it concludes.
THEOREM EveryQueryListened == Spec => []OneListenerPerQuery
<1>1. LinkInv => OneListenerPerQuery
  BY OneListenerFromParts DEF LinkInv
<1> QED
  BY <1>1, LinkInvariant, PTL
-----------------------------------------------------------------------------
(***************************************************************************)
(* MaxLink implements QueryPromise: every step of the link is, for the     *)
(* queries, a step of the promise or none.  The hard part is the capacity: *)
(* the promise counts queries, the program looks for a free slot.          *)
(***************************************************************************)
\* Each waiting query occupies a slot of its own, so a free slot means that
\* fewer queries than slots are waiting.
LEMMA RoomWhenFree ==
  ASSUME LinkInv, Free(tab) # {}
  PROVE  Cardinality(Promise!Pending) < MaxIdLst
<1> DEFINE Pending == Promise!Pending
           at == [q \in Pending |-> CHOOSE i \in Live(tab) : tab.slot[i].q = q]
<1> USE DEF LinkInv
<1>1. \A q \in Pending : q \in Queries /\ status[q] = "pending"
  BY DEF Promise!Pending
<1>2. \A q \in Pending : at[q] \in Live(tab) /\ tab.slot[at[q]].q = q
  BY <1>1 DEF PendingListened
<1> HIDE DEF Pending
<1>3. at \in Injection(Pending, Live(tab))
  <2>1. at \in [Pending -> Live(tab)]
    BY <1>2
  <2>2. \A p, q \in Pending : at[p] = at[q] => p = q
    BY <1>2
  <2> HIDE DEF at
  <2> QED
    BY <2>1, <2>2 DEF Injection, IsInjective
<1> HIDE DEF at
<1>4. IsFiniteSet(Slots) /\ Cardinality(Slots) = MaxIdLst
  BY FS_Interval, TableAssumption DEF Slots
<1>5. Live(tab) \subseteq Slots /\ Live(tab) # Slots
  BY DEF Live, Free
<1>6. /\ IsFiniteSet(Live(tab))
      /\ Cardinality(Live(tab)) <= MaxIdLst
      /\ Cardinality(Live(tab)) # MaxIdLst
  BY <1>4, <1>5, FS_Subset
<1>7. IsFiniteSet(Pending) /\ Cardinality(Pending) <= Cardinality(Live(tab))
  BY <1>3, <1>6, FS_Injection
<1>8. Cardinality(Pending) \in Nat /\ Cardinality(Live(tab)) \in Nat
  BY <1>6, <1>7, FS_CardinalityType
<1>9. Cardinality(Pending) < MaxIdLst
  BY <1>6, <1>7, <1>8, TableAssumption
<1> QED
  BY <1>9 DEF Pending

\* The promise counts as FiniteSets does.
LEMMA PromiseCounts == \A S : Promise!Cardinality(S) = Cardinality(S)
BY DEF Promise!Cardinality, Cardinality

\* A query that found a slot is accepted by the promise.
LEMMA SentIsAccept ==
  ASSUME LinkInv, NEW q \in Queries, status[q] # "pending",
         NEW fn, NEW timeout, QuerySent(q, fn, timeout)
  PROVE  Promise!Accept(q)
<1>1. Free(tab) # {} /\ status' = [status EXCEPT ![q] = "pending"]
  BY DEF QuerySent
<1> QED
  BY <1>1, RoomWhenFree, PromiseCounts DEF Promise!Accept, Promise!Pending

\* The listener that takes a frame concludes its own query, which was waiting.
LEMMA FrameIsAnswer ==
  ASSUME LinkInv, FrameToIdListener
  PROVE  \E q \in Queries : Promise!Answered(q)
<1> DEFINE i == First(Matching(tab, Head(toEsp).id))
           l == tab.slot[i]
<1> USE DEF LinkInv
<1>1. i \in Live(tab) /\ l \in Listener
  BY MatchingIsLive DEF FrameToIdListener, TypeOK
<1>2. \/ CmdResponse(l.q, Head(toEsp).full)
      \/ HeartbeatResponse(l.q)
  BY DEF FrameToIdListener
<1> HIDE DEF i
<1>3. l.q \in Queries /\ status[l.q] = "pending"
  BY <1>1 DEF Listener, ListenersPending
<1> HIDE DEF l
<1>4. \E how \in {"answered", "discarded"} : status' = [status EXCEPT ![l.q] = how]
  BY <1>2 DEF CmdResponse, HeartbeatResponse
<1> QED
  BY <1>3, <1>4 DEF Promise!Answered, Promise!Pending

\* A tick gives up the queries of the listeners that expire, all of them
\* waiting until then, or leaves every query as it is.
LEMMA TickIsTimeOut ==
  ASSUME LinkInv, Tick
  PROVE  \/ UNCHANGED status
         \/ \E q \in Queries : \E S \in SUBSET Promise!Pending : q \in S /\ Promise!TimedOut(S)
<1> DEFINE S == {tab.slot[i].q : i \in Expiring(tab)}
<1> USE DEF LinkInv
<1>1. Expiring(tab) \subseteq Live(tab)
  BY CountDownOfTable, LinkAssumption DEF TypeOK
<1>2. S \subseteq Promise!Pending
  <2> SUFFICES ASSUME NEW i \in Expiring(tab) PROVE tab.slot[i].q \in Promise!Pending
    OBVIOUS
  <2>1. i \in Live(tab) /\ tab.slot[i] \in Listener
    BY <1>1 DEF TypeOK, Table, Live
  <2> QED
    BY <2>1 DEF Promise!Pending, ListenersPending, Listener
<1>3. status' = [q \in Queries |-> IF q \in S THEN "timeout" ELSE status[q]]
  <2>1. status' = [q \in Queries |->
                     IF \E l \in {tab.slot[i] : i \in Expiring(tab)} : l.q = q
                     THEN "timeout" ELSE status[q]]
    BY DEF Tick
  <2>2. \A q : q \in S <=> \E l \in {tab.slot[i] : i \in Expiring(tab)} : l.q = q
    OBVIOUS
  <2> QED
    BY <2>1, <2>2
<1> HIDE DEF S
<1>4. CASE S = {}
  BY <1>3, <1>4 DEF TypeOK
<1>5. CASE S # {}
  BY <1>2, <1>3, <1>5 DEF Promise!TimedOut, Promise!Pending
<1> QED
  BY <1>4, <1>5

-----------------------------------------------------------------------------
\* Every step of the link is a step of the promise or leaves its queries alone.
LEMMA StepIsPromised ==
  LinkInv /\ [Next]_vars => [Promise!Next]_status
<1> SUFFICES ASSUME LinkInv, [Next]_vars
             PROVE  Promise!Next \/ UNCHANGED status
  OBVIOUS
<1>1. ASSUME NEW q \in CmdQueries, SendCmd(q)
      PROVE  Promise!Next \/ UNCHANGED status
  <2>1. q \in Queries /\ status[q] # "pending"
    BY <1>1, LinkAssumption DEF SendCmd, Fresh
  <2>2. QuerySent(q, "cmd", CmdTimeout) \/ QueryRefused
    BY <1>1 DEF SendCmd
  <2> QED
    BY <2>1, <2>2, SentIsAccept DEF QueryRefused, Promise!Next
<1>2. ASSUME NEW q \in HbQueries, SendHeartbeat(q)
      PROVE  Promise!Next \/ UNCHANGED status
  <2>1. q \in Queries /\ status[q] # "pending"
    BY <1>2, LinkAssumption DEF SendHeartbeat, Fresh
  <2>2. QuerySent(q, "hb", HbTimeout) \/ QueryRefused
    BY <1>2 DEF SendHeartbeat
  <2> QED
    BY <2>1, <2>2, SentIsAccept DEF QueryRefused, Promise!Next
<1>3. CASE FrameToIdListener
  BY <1>3, FrameIsAnswer DEF Promise!Next, Promise!Concludes
<1>4. CASE Tick
  BY <1>4, TickIsTimeOut DEF Promise!Next, Promise!Concludes
<1>5. CASE \/ SendEstop \/ HeartbeatDue \/ FrameToOtherListener \/ GiveMutex
           \/ \E n \in 0 .. RxBurst : UartRead(n)
  BY <1>5 DEF SendEstop, HeartbeatDue, FrameToOtherListener, GiveMutex, UartRead, histVars
<1>6. CASE Elapse \/ Board
  BY <1>6 DEF Elapse, Board, Lose, MaxAnswer, MaxEvent, MaxStop, MaxStart, histVars
<1>7. CASE UNCHANGED vars
  BY <1>7 DEF vars, histVars
<1> QED
  BY <1>1, <1>2, <1>3, <1>4, <1>5, <1>6, <1>7 DEF Next, TfTask, ProtocolTask, MqttTask

\* The link keeps the promise: an accepted query is concluded once, for one
\* reason, and never are more accepted than there are slots.
THEOREM LinkKeepsPromise == Spec => PromiseKept
<1>1. Init => Promise!Init
  BY DEF Init, Promise!Init
<1>2. Spec => []LinkInv
  BY LinkInvariant
<1>3. LinkInv /\ [Next]_vars => [Promise!Next]_status
  BY StepIsPromised
<1> QED
  BY <1>1, <1>2, <1>3, PTL DEF Spec, PromiseKept, Promise!Spec
=============================================================================
