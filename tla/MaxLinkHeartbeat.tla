-------------------------- MODULE MaxLinkHeartbeat --------------------------
(***************************************************************************)
(* Heartbeats do not overlap and max32655_connected follows them, for all  *)
(* time-outs and intervals with HbTimeout < HbInterval, as long as no      *)
(* publish holds tf_task up over a FreeRTOS tick (Prompt).                 *)
(*                                                                         *)
(* Two clocks meet: the protocol task counts FreeRTOS ticks, the listener  *)
(* iterations of tf_task.  tf_task goes round at least once in a FreeRTOS  *)
(* tick, so the listener's count never falls behind by more than the       *)
(* iteration still to come in this one (ClocksAgree).                      *)
(***************************************************************************)
EXTENDS MaxLinkProofs

Prompt == ~Stall /\ HbTimeout < HbInterval

HbListeners == {i \in Live(tab) : tab.slot[i].fn = "hb"}

NeverStalled == publishing = FALSE

\* The callbacks of a listener are those of its query's kind.
KindsAgree == \A i \in Live(tab) : tab.slot[i].fn = "hb" <=> tab.slot[i].q \in HbQueries

\* A heartbeat was sent in the tick in which its interval began, and what has
\* passed of the interval its listener has counted down.
ClocksAgree ==
  \A i \in HbListeners :
    /\ tab.slot[i].timeout \in 1 .. HbTimeout
    /\ since <= HbTimeout - tab.slot[i].timeout + (IF ticked THEN 0 ELSE 1)
    /\ proto_pc = "delay"

SentAtStart == proto_pc = "send" => since = 0

\* The heartbeat that is waited for is the last one that was sent.
LastIsWaitedFor == \A i \in HbListeners : tab.slot[i].q = lastHb

FlagFollows ==
  (lastHb # None /\ status[lastHb] # "pending") =>
    (connected <=> status[lastHb] = "answered")

HbInv ==
  /\ LinkInv
  /\ NeverStalled
  /\ KindsAgree
  /\ ClocksAgree
  /\ SentAtStart
  /\ LastIsWaitedFor
  /\ FlagFollows

-----------------------------------------------------------------------------
\* The invariant holds at start-up: no heartbeat was sent.
LEMMA HbInit ==
  ASSUME Init PROVE HbInv
<1>1. LinkInv
  BY InitInv
<1>2. Live(tab) = {} /\ HbListeners = {}
  BY DEF Init, EmptyTable, Live, HbListeners
<1> QED
  BY <1>1, <1>2 DEF Init, HbInv, NeverStalled, KindsAgree, ClocksAgree, SentAtStart,
                    LastIsWaitedFor, FlagFollows

\* Where a heartbeat listener is left after a step that frees slots only.
LEMMA FewerListeners ==
  ASSUME HbInv,
         \A i \in Live(tab') : i \in Live(tab) /\ tab'.slot[i] = tab.slot[i],
         UNCHANGED <<since, ticked, proto_pc, lastHb>>
  PROVE  KindsAgree' /\ ClocksAgree' /\ SentAtStart' /\ LastIsWaitedFor'
BY DEF HbInv, KindsAgree, ClocksAgree, SentAtStart, LastIsWaitedFor, HbListeners

\* The listener a query that is sent adds.
LEMMA SentListeners ==
  ASSUME LinkInv, NEW q \in Queries, NEW fn \in {"cmd", "hb"}, NEW timeout \in Nat,
         QuerySent(q, fn, timeout)
  PROVE  /\ \A i \in Live(tab') :
              \/ i \in Live(tab) /\ tab'.slot[i] = tab.slot[i]
              \/ tab'.slot[i].fn = fn /\ tab'.slot[i].timeout = timeout /\ tab'.slot[i].q = q
         /\ status' = [status EXCEPT ![q] = "pending"]
<1> DEFINE l == [fn |-> fn, id |-> OwnId(next_id), timeout |-> timeout, q |-> q]
<1> USE DEF LinkInv
<1>1. /\ tab' = Add(tab, l) /\ Free(tab) # {}
      /\ status' = [status EXCEPT ![q] = "pending"]
  BY DEF QuerySent
<1>2. l \in Listener /\ l.fn = fn /\ l.timeout = timeout /\ l.q = q
  BY IdsInRange DEF Listener, TypeOK
<1> HIDE DEF l
<1>3. PICK i \in Free(tab) : tab'.slot = [tab.slot EXCEPT ![i] = l]
  BY <1>1, <1>2, AddToTable, LinkAssumption DEF TypeOK
<1> QED
  BY <1>1, <1>2, <1>3 DEF Free, Live, TypeOK, Table

\* A command's listener is no heartbeat's: max32655_send_cmd keeps the invariant.
LEMMA SendCmdHb ==
  ASSUME Prompt, HbInv, NEW q \in CmdQueries, SendCmd(q)
  PROVE  HbInv'
<1> USE DEF HbInv
<1>1. /\ q \in Queries /\ q \notin HbQueries /\ q # lastHb
      /\ UNCHANGED <<publishing, since, ticked, proto_pc, lastHb, connected>>
  BY LinkAssumption DEF SendCmd, taskVars, protoVars, LinkInv, TypeOK
<1>2. LinkInv'
  BY SendCmdInv
<1>3. CASE QuerySent(q, "cmd", CmdTimeout)
  <2>1. /\ \A i \in Live(tab') :
             \/ i \in Live(tab) /\ tab'.slot[i] = tab.slot[i]
             \/ tab'.slot[i].fn = "cmd" /\ tab'.slot[i].q = q
        /\ status' = [status EXCEPT ![q] = "pending"]
    BY <1>1, <1>3, SentListeners, LinkAssumption
  <2>2. KindsAgree'
    BY <1>1, <2>1 DEF KindsAgree
  <2>3. \A i \in HbListeners' : i \in HbListeners /\ tab'.slot[i] = tab.slot[i]
    BY <2>1 DEF HbListeners
  <2>4. ClocksAgree' /\ SentAtStart' /\ LastIsWaitedFor' /\ NeverStalled'
    BY <1>1, <2>3 DEF ClocksAgree, SentAtStart, LastIsWaitedFor, NeverStalled
  <2>5. FlagFollows'
    BY <1>1, <2>1 DEF FlagFollows, LinkInv, TypeOK
  <2> QED
    BY <1>2, <2>2, <2>4, <2>5
<1>4. CASE QueryRefused
  BY <1>1, <1>2, <1>4, FewerListeners
     DEF QueryRefused, NeverStalled, FlagFollows
<1> QED
  BY <1>3, <1>4 DEF SendCmd

\* When the interval is over the listener of the last heartbeat is gone.
LEMMA HeartbeatDueHb ==
  ASSUME Prompt, HbInv, HeartbeatDue
  PROVE  HbInv'
<1> USE DEF HbInv
<1>1. /\ since = HbInterval /\ since' = 0
      /\ UNCHANGED <<tab, status, lastHb, connected, publishing, ticked>>
  BY DEF HeartbeatDue, tfVars, taskVars, histVars
<1>2. LinkInv'
  BY HeartbeatDueInv
<1>3. HbListeners = {}
  BY <1>1, LinkAssumption DEF ClocksAgree, Prompt
<1> QED
  BY <1>1, <1>2, <1>3
     DEF NeverStalled, KindsAgree, ClocksAgree, SentAtStart, LastIsWaitedFor, FlagFollows,
         HbListeners

\* A new heartbeat is sent only when none waits, and is then the only one.
LEMMA SendHeartbeatHb ==
  ASSUME Prompt, HbInv, NEW q \in HbQueries, SendHeartbeat(q)
  PROVE  HbInv'
<1> USE DEF HbInv
<1>1. /\ q \in Queries /\ q # None /\ since = 0
      /\ proto_pc = "send" /\ proto_pc' = "delay"
      /\ UNCHANGED <<publishing, since, ticked, connected>>
  BY LinkAssumption DEF SendHeartbeat, taskVars, SentAtStart
<1>2. LinkInv'
  BY SendHeartbeatInv
<1>3. HbListeners = {}
  BY <1>1 DEF ClocksAgree
<1>4. CASE QuerySent(q, "hb", HbTimeout) /\ lastHb' = q
  <2>1. /\ \A i \in Live(tab') :
             \/ i \in Live(tab) /\ tab'.slot[i] = tab.slot[i]
             \/ /\ tab'.slot[i].fn = "hb" /\ tab'.slot[i].timeout = HbTimeout
                /\ tab'.slot[i].q = q
        /\ status' = [status EXCEPT ![q] = "pending"]
    BY <1>1, <1>4, SentListeners, LinkAssumption
  <2>2. KindsAgree'
    BY <2>1 DEF KindsAgree
  <2>3. \A i \in HbListeners' : tab'.slot[i].timeout = HbTimeout /\ tab'.slot[i].q = q
    BY <1>3, <2>1 DEF HbListeners
  <2>4. ClocksAgree' /\ SentAtStart' /\ LastIsWaitedFor' /\ NeverStalled'
    BY <1>1, <1>4, <2>3, LinkAssumption
       DEF ClocksAgree, SentAtStart, LastIsWaitedFor, NeverStalled
  <2>5. FlagFollows'
    BY <1>1, <1>4, <2>1 DEF FlagFollows, LinkInv, TypeOK
  <2> QED
    BY <1>2, <2>2, <2>4, <2>5
<1>5. CASE QueryRefused /\ UNCHANGED lastHb
  <2>1. UNCHANGED <<tab, status>>
    BY <1>5 DEF QueryRefused
  <2> QED
    BY <1>1, <1>2, <1>3, <1>5, <2>1
       DEF NeverStalled, KindsAgree, ClocksAgree, SentAtStart, LastIsWaitedFor, FlagFollows,
           HbListeners
<1> QED
  BY <1>4, <1>5 DEF SendHeartbeat

-----------------------------------------------------------------------------
\* An answer to the heartbeat sets the flag; one to a command leaves it alone.
LEMMA FrameToIdListenerHb ==
  ASSUME Prompt, HbInv, FrameToIdListener
  PROVE  HbInv'
<1> DEFINE i == First(Matching(tab, Head(toEsp).id))
           l == tab.slot[i]
<1> USE DEF HbInv, LinkInv
<1>1. LinkInv'
  BY FrameToIdListenerInv
<1>2. i \in Live(tab) /\ l \in Listener
  BY MatchingIsLive DEF FrameToIdListener, TypeOK
<1>3. /\ tab' = Cleanup(tab, i)
      /\ \/ l.fn = "cmd" /\ CmdResponse(l.q, Head(toEsp).full)
         \/ l.fn = "hb" /\ HeartbeatResponse(l.q)
      /\ UNCHANGED <<since, ticked, proto_pc, lastHb>>
  BY DEF FrameToIdListener, protoVars
<1> HIDE DEF i
<1>4. tab'.slot = [tab.slot EXCEPT ![i] = None]
  BY <1>2, <1>3, CleanupOfTable DEF TypeOK
<1>5. \A j \in Live(tab') : j \in Live(tab) /\ tab'.slot[j] = tab.slot[j]
  BY <1>2, <1>4 DEF Live, TypeOK, Table
<1>6. KindsAgree' /\ ClocksAgree' /\ SentAtStart' /\ LastIsWaitedFor'
  BY <1>3, <1>5, FewerListeners
<1>7. l.q \in Queries /\ (l.fn = "hb" <=> l.q \in HbQueries) /\ (l.fn = "hb" => l.q = lastHb)
  BY <1>2 DEF KindsAgree, LastIsWaitedFor, HbListeners, Listener
<1> HIDE DEF l
<1>8. CASE l.fn = "cmd" /\ CmdResponse(l.q, Head(toEsp).full)
  <2>1. publishing' = FALSE /\ connected' = connected
    BY <1>8 DEF CmdResponse, OnCmdResponse, MqttPublish, Prompt
  <2>2. \E how \in Outcomes : status' = [status EXCEPT ![l.q] = how]
    BY <1>8 DEF CmdResponse, Outcomes
  <2>3. l.q # lastHb
    BY <1>7, <1>8, LinkAssumption DEF TypeOK
  <2>4. FlagFollows'
    BY <1>3, <1>7, <2>1, <2>2, <2>3 DEF FlagFollows, TypeOK
  <2> QED
    BY <1>1, <1>6, <2>1, <2>4 DEF NeverStalled
<1>9. CASE l.fn = "hb" /\ HeartbeatResponse(l.q)
  <2>1. /\ publishing' = FALSE /\ connected' = TRUE
        /\ status' = [status EXCEPT ![l.q] = "answered"]
    BY <1>9 DEF HeartbeatResponse, OnHeartbeat, MqttPublish, Prompt
  <2>2. FlagFollows'
    BY <1>3, <1>7, <1>9, <2>1 DEF FlagFollows, TypeOK
  <2> QED
    BY <1>1, <1>6, <2>1, <2>2 DEF NeverStalled
<1> QED
  BY <1>3, <1>8, <1>9

\* A heartbeat that is given up clears the flag; other time-outs leave it alone.
\* Every heartbeat listener that stays has one iteration less to go.
LEMMA TickHb ==
  ASSUME Prompt, HbInv, Tick
  PROVE  HbInv'
<1> DEFINE expired == {tab.slot[i] : i \in Expiring(tab)}
<1> USE DEF HbInv, LinkInv
<1>1. LinkInv'
  BY TickInv
<1>2. /\ tab' = CountDown(tab) /\ OnTimeouts(expired)
      /\ status' = [q \in Queries |->
                      IF \E l \in expired : l.q = q THEN "timeout" ELSE status[q]]
      /\ ticked' = TRUE
      /\ UNCHANGED <<since, proto_pc, lastHb>>
  BY DEF Tick, protoVars
<1>3. /\ Expiring(tab) \subseteq Live(tab)
      /\ \A i \in Expiring(tab) : tab.slot[i].timeout = 1
      /\ \A i \in Slots : i \notin Live(tab) \ Expiring(tab) => tab'.slot[i] = None
      /\ \A i \in Live(tab) \ Expiring(tab) :
           /\ tab'.slot[i].fn = tab.slot[i].fn /\ tab'.slot[i].q = tab.slot[i].q
           /\ tab.slot[i].timeout # 1
           /\ tab'.slot[i].timeout
                = IF tab.slot[i].timeout = 0 THEN 0 ELSE tab.slot[i].timeout - 1
  BY <1>2, CountDownOfTable, LinkAssumption DEF TypeOK
<1>4. \A i \in Live(tab') : i \in Live(tab) \ Expiring(tab)
  BY <1>3 DEF Live
<1>5. KindsAgree'
  BY <1>3, <1>4 DEF KindsAgree
<1>6. LastIsWaitedFor' /\ SentAtStart'
  BY <1>2, <1>3, <1>4 DEF LastIsWaitedFor, SentAtStart, HbListeners
<1>7. ClocksAgree'
  <2> SUFFICES ASSUME NEW i \in HbListeners'
               PROVE  /\ tab'.slot[i].timeout \in 1 .. HbTimeout
                      /\ since <= HbTimeout - tab'.slot[i].timeout + 0
                      /\ proto_pc = "delay"
    BY <1>2, Zenon DEF ClocksAgree
  <2>1. i \in HbListeners /\ i \in Live(tab) \ Expiring(tab)
    BY <1>3, <1>4 DEF HbListeners
  <2>2. /\ tab.slot[i].timeout \in 1 .. HbTimeout /\ tab.slot[i].timeout # 1
        /\ since <= HbTimeout - tab.slot[i].timeout + 1
        /\ proto_pc = "delay"
    BY <1>3, <2>1, LinkAssumption DEF ClocksAgree, TypeOK
  <2>3. tab'.slot[i].timeout = tab.slot[i].timeout - 1
    BY <1>3, <2>1, <2>2
  <2>4. since \in Int /\ HbTimeout \in Int
    BY LinkAssumption DEF TypeOK
  <2> QED
    BY <2>2, <2>3, <2>4
<1>8. publishing' = FALSE
  BY <1>2 DEF OnTimeouts, MqttPublish, Prompt
<1>9. FlagFollows'
  <2>1. CASE \E l \in expired : l.fn = "hb"
    <3>1. PICK i \in Expiring(tab) : tab.slot[i].fn = "hb"
      BY <2>1
    <3>2. i \in HbListeners /\ tab.slot[i].q = lastHb /\ lastHb \in Queries
      BY <1>3, <3>1 DEF HbListeners, LastIsWaitedFor, TypeOK, Table, Live, Listener
    <3>3. connected' = FALSE
      BY <1>2, <2>1 DEF OnTimeouts
    <3>4. status'[lastHb] = "timeout"
      BY <1>2, <3>2
    <3> QED
      BY <1>2, <3>3, <3>4 DEF FlagFollows
  <2>2. CASE ~\E l \in expired : l.fn = "hb"
    <3>1. connected' = connected
      BY <1>2, <2>2 DEF OnTimeouts, TypeOK
    <3>2. \A i \in Expiring(tab) : tab.slot[i].q \notin HbQueries
      BY <1>3, <2>2 DEF KindsAgree
    <3>3. lastHb # None => status'[lastHb] = status[lastHb]
      BY <1>2, <3>2, LinkAssumption DEF TypeOK
    <3> QED
      BY <1>2, <3>1, <3>3 DEF FlagFollows
  <2> QED
    BY <2>1, <2>2
<1> QED
  BY <1>1, <1>5, <1>6, <1>7, <1>8, <1>9 DEF NeverStalled

\* A FreeRTOS tick passes only when tf_task has gone round in it.
LEMMA ElapseHb ==
  ASSUME Prompt, HbInv, Elapse
  PROVE  HbInv'
<1> USE DEF HbInv
<1>1. /\ ticked /\ ticked' = FALSE /\ proto_pc = "delay"
      /\ since' = UpTo(since, HbInterval)
      /\ UNCHANGED <<tab, publishing, proto_pc, connected, status, lastHb>>
  BY DEF Elapse, NeverStalled, tfVars
<1>2. LinkInv'
  BY ElapseInv
<1>3. since' <= since + 1 /\ since \in Nat /\ since' \in Nat
  BY <1>1, LinkAssumption DEF UpTo, LinkInv, TypeOK
<1>4. ClocksAgree'
  <2> SUFFICES ASSUME NEW i \in HbListeners
               PROVE  /\ tab.slot[i].timeout \in 1 .. HbTimeout
                      /\ since' <= HbTimeout - tab.slot[i].timeout + 1
    BY <1>1 DEF ClocksAgree, HbListeners
  <2> QED
    BY <1>1, <1>3, LinkAssumption DEF ClocksAgree
<1> QED
  BY <1>1, <1>2, <1>4
     DEF NeverStalled, KindsAgree, SentAtStart, LastIsWaitedFor, FlagFollows, HbListeners

\* Everything else leaves the heartbeats alone.
LEMMA OtherHb ==
  ASSUME Prompt, HbInv,
         \/ SendEstop \/ FrameToOtherListener \/ GiveMutex \/ Board \/ UNCHANGED vars
         \/ \E n \in 0 .. RxBurst : UartRead(n)
  PROVE  HbInv'
<1> USE DEF HbInv
<1>1. LinkInv'
  BY NextInv DEF Next, TfTask, MqttTask
<1>2. UNCHANGED <<tab, since, ticked, proto_pc, lastHb, connected, status>>
  BY DEF SendEstop, FrameToOtherListener, GiveMutex, Board, Lose, MaxAnswer, MaxEvent, MaxStop,
         MaxStart, UartRead, vars, tfVars, taskVars, protoVars, maxVars, histVars
<1>3. publishing' = FALSE
  BY DEF SendEstop, FrameToOtherListener, OtherListener, MqttPublish, GiveMutex, Board, Lose,
         MaxAnswer, MaxEvent, MaxStop, MaxStart, UartRead, vars, taskVars, NeverStalled, Prompt
<1> QED
  BY <1>1, <1>2, <1>3
     DEF NeverStalled, KindsAgree, ClocksAgree, SentAtStart, LastIsWaitedFor, FlagFollows,
         HbListeners

\* Every step keeps the invariant, if tf_task is not held up.
LEMMA HbNext ==
  ASSUME Prompt, HbInv, [Next]_vars
  PROVE  HbInv'
BY SendCmdHb, HeartbeatDueHb, SendHeartbeatHb, FrameToIdListenerHb, TickHb, ElapseHb, OtherHb
   DEF Next, TfTask, ProtocolTask, MqttTask

\* The invariant holds in every reachable state, if tf_task is not held up.
THEOREM HeartbeatInvariant == ASSUME Prompt PROVE Spec => []HbInv
<1>1. Init => HbInv
  BY HbInit
<1>2. HbInv /\ [Next]_vars => HbInv'
  BY HbNext
<1> QED
  BY <1>1, <1>2, PTL DEF Spec

-----------------------------------------------------------------------------
\* A heartbeat has been answered or given up when the next one is due, for
\* every time-out shorter than the interval.
THEOREM HeartbeatsApart == ASSUME Prompt PROVE Spec => []AtMostOneHeartbeat
<1>1. ASSUME HbInv, NEW h \in PendingHeartbeats
      PROVE  h = lastHb /\ proto_pc = "delay"
  <2>1. h \in HbQueries /\ h \in Queries /\ status[h] = "pending"
    BY <1>1, LinkAssumption DEF PendingHeartbeats
  <2>2. PICK i \in Live(tab) : tab.slot[i].q = h
    BY <1>1, <2>1 DEF HbInv, LinkInv, PendingListened
  <2>3. i \in HbListeners
    BY <1>1, <2>1, <2>2 DEF HbInv, KindsAgree, HbListeners
  <2> QED
    BY <1>1, <2>2, <2>3 DEF HbInv, ClocksAgree, LastIsWaitedFor
<1>2. HbInv => AtMostOneHeartbeat
  BY <1>1 DEF AtMostOneHeartbeat
<1> QED
  BY <1>2, HeartbeatInvariant, PTL

\* max32655_connected is what the last heartbeat to conclude said, for every
\* time-out shorter than the interval.
THEOREM FlagIsLastHeartbeat == ASSUME Prompt PROVE Spec => []ConnectedFollowsHeartbeats
<1>1. HbInv => ConnectedFollowsHeartbeats
  BY DEF HbInv, LinkInv, TypeOK, ConnectedFollowsHeartbeats, PendingHeartbeats, FlagFollows
<1> QED
  BY <1>1, HeartbeatInvariant, PTL
=============================================================================
