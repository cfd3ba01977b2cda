------------------------------ MODULE MaxLink ------------------------------
(***************************************************************************)
(* The link to the MAX32655 board: app/max_comm.c over protocol_handler.c  *)
(* over tf_transport.c over TinyFrame's queries, with the UART line and    *)
(* the board itself as environment.                                        *)
(*                                                                         *)
(* Three tasks of the ESP32 meet here.  tf_task parses what the UART read  *)
(* and ticks TinyFrame, under the recursive tf_mutex; the listeners and    *)
(* time-out callbacks run inside that section.  The protocol task sends a  *)
(* heartbeat every HbInterval.  The MQTT task sends commands and e-stops.  *)
(* Every call of the last two into TinyFrame is one section of tf_mutex,   *)
(* so it is one action here, enabled while tf_task is outside its own.     *)
(*                                                                         *)
(* Frames are whole: a frame is received when its last byte is parsed.     *)
(* Payloads are abstracted to whether a command response is long enough.   *)
(***************************************************************************)
EXTENDS IdListeners, FiniteSets, Sequences

CONSTANTS
  CmdQueries,   \* commands in flight at once (bounds the model)
  HbQueries,    \* heartbeats in flight at once (bounds the model)
  CmdTimeout,   \* cmd_timeout_ticks, in iterations of tf_task (500)
  HbTimeout,    \* heartbeat_timeout_ticks, in iterations of tf_task (500)
  HbInterval,   \* heartbeat_interval_ms, in FreeRTOS ticks (1000)
  RxBurst,      \* frames that can end in one uart_read_bytes of 32 bytes
  LineCap,      \* frames from the board waiting in the UART (bounds the model)
  EventIds,     \* frame IDs the board's events carry
  Stall         \* can esp_mqtt_client_publish block its caller over a tick?

ASSUME LinkAssumption ==
  /\ Queries = CmdQueries \cup HbQueries
  /\ CmdQueries \cap HbQueries = {}
  /\ None \notin Queries /\ None \notin Listener
  /\ CmdTimeout \in Nat \ {0}
  /\ HbTimeout \in Nat \ {0}
  /\ HbInterval \in Nat \ {0}
  /\ RxBurst \in Nat \ {0}
  /\ LineCap \in Nat \ {0}
  /\ EventIds \subseteq PeerIds
  /\ Stall \in BOOLEAN

VARIABLES
  \* TinyFrame
  next_id,      \* the TF_ID the next composed frame is numbered from
  tab,          \* the table of ID listeners
  \* tf_task
  tf_pc,        \* "read", or with tf_mutex held: "accept", "give"
  rxn,          \* frames of rx_buf that TF_Accept has not handled yet
  publishing,   \* is the callback it last ran stuck in mqtt_publish_event?
  ticked,       \* has TF_Tick run since the last FreeRTOS tick?
  \* protocol task
  proto_pc,     \* "delay", or "send": about to call send_heartbeat
  since,        \* now - last_heartbeat_time, up to HbInterval
  \* application
  connected,    \* max32655_connected
  \* the line and the board
  toEsp,        \* frames sent by the board and not yet parsed, oldest first
  atMax,        \* queries on the line to the board, or not answered by it yet
  alive,        \* is the board running?
  \* history, read by no action of the program
  status,       \* what became of each query
  age,          \* frames composed since the query's, up to IdSpan
  lastHb        \* the last heartbeat query sent, or None

tfVars    == <<next_id, tab>>
taskVars  == <<tf_pc, rxn, publishing, ticked>>
protoVars == <<proto_pc, since>>
maxVars   == <<toEsp, atMax, alive>>
histVars  == <<status, age, lastHb>>
vars == <<tfVars, taskVars, protoVars, connected, maxVars, histVars>>

-----------------------------------------------------------------------------
\* What the line carries: a query of this program, an answer to one (full:
\* at least sizeof(cmd_response_t) bytes), an event of the board.
QueryFrame == [id : OwnIds, q : Queries]
Answer     == [type : {"answer"}, id : OwnIds, q : Queries, full : BOOLEAN]
Event      == [type : {"event"}, id : EventIds]

Outcomes == {"answered", "discarded", "timeout"}

TypeOK ==
  /\ next_id \in 0 .. 2 * IdSpan - 1
  /\ tab \in Table
  /\ tf_pc \in {"read", "accept", "give"}
  /\ rxn \in 0 .. RxBurst
  /\ publishing \in BOOLEAN
  /\ ticked \in BOOLEAN
  /\ proto_pc \in {"delay", "send"}
  /\ since \in 0 .. HbInterval
  /\ connected \in BOOLEAN
  /\ toEsp \in Seq(Answer \cup Event)
  /\ atMax \subseteq QueryFrame
  /\ alive \in BOOLEAN
  /\ status \in [Queries -> {"idle", "pending"} \cup Outcomes]
  /\ age \in [Queries -> 0 .. IdSpan]
  /\ lastHb \in HbQueries \cup {None}

Init ==
  /\ next_id = 0
  /\ tab = EmptyTable
  /\ tf_pc = "read" /\ rxn = 0
  /\ publishing = FALSE
  /\ ticked = FALSE
  /\ proto_pc = "delay" /\ since = 0
  /\ connected = FALSE
  /\ toEsp = <<>> /\ atMax = {} /\ alive = TRUE
  /\ status = [q \in Queries |-> "idle"]
  /\ age = [q \in Queries |-> IdSpan]
  /\ lastHb = None

UpTo(n, bound) == IF n < bound THEN n + 1 ELSE bound

MutexFree == tf_pc = "read"

-----------------------------------------------------------------------------
(* Sending: tf_transport_send and tf_transport_query.                      *)

\* TF_ComposeHead numbers a frame; one more frame since every older query.
Compose ==
  /\ next_id' = IncId(next_id)
  /\ age' = [q \in Queries |-> UpTo(age[q], IdSpan)]

\* A query's identity is free again once nothing of its last use is left.
Fresh(q) ==
  /\ status[q] # "pending"
  /\ \A f \in atMax : f.q # q
  /\ \A i \in DOMAIN toEsp : toEsp[i].type = "answer" => toEsp[i].q # q

\* TF_QuerySimple, when TF_AddIdListener finds a slot: the frame goes out.
QuerySent(q, fn, timeout) ==
  LET id == OwnId(next_id)
  IN  /\ Free(tab) # {}
      /\ next_id' = IncId(next_id)
      /\ age' = [[p \in Queries |-> UpTo(age[p], IdSpan)] EXCEPT ![q] = 0]
      /\ tab' = Add(tab, [fn |-> fn, id |-> id, timeout |-> timeout, q |-> q])
      /\ atMax' = IF alive THEN atMax \cup {[id |-> id, q |-> q]} ELSE atMax
      /\ status' = [status EXCEPT ![q] = "pending"]

\* TF_QuerySimple, when every slot is taken: it returns false and nothing is
\* written, but the head was composed already and its number is used up.
QueryRefused ==
  /\ Free(tab) = {}
  /\ Compose
  /\ UNCHANGED <<tab, atMax, status>>

\* protocol_send_cmd, on a "status", "reset" or "floor:" MQTT command.
SendCmd(q) ==
  /\ MutexFree
  /\ Fresh(q)
  /\ QuerySent(q, "cmd", CmdTimeout) \/ QueryRefused
  /\ UNCHANGED <<taskVars, protoVars, connected, toEsp, alive, lastHb>>

\* protocol_send_estop, on an "estop" MQTT command: no listener, no slot.
SendEstop ==
  /\ MutexFree
  /\ Compose
  /\ UNCHANGED <<tab, taskVars, protoVars, connected, maxVars, status, lastHb>>

\* A slip: the start of the interval is not moved.
HeartbeatDue_KeepsSince ==
  /\ proto_pc = "delay"
  /\ since = HbInterval
  /\ proto_pc' = "send"
  /\ UNCHANGED <<tfVars, taskVars, since, connected, maxVars, histVars>>

\* protocol_task, when the interval is over: it takes the time of this check,
\* not the time of the frame, as the start of the next interval.
HeartbeatDue ==
  /\ proto_pc = "delay"
  /\ since = HbInterval
  /\ proto_pc' = "send"
  /\ since' = 0
  /\ UNCHANGED <<tfVars, taskVars, connected, maxVars, histVars>>

\* send_heartbeat: the result of tf_transport_query is ignored.
SendHeartbeat(q) ==
  /\ proto_pc = "send"
  /\ MutexFree
  /\ Fresh(q)
  /\ \/ QuerySent(q, "hb", HbTimeout) /\ lastHb' = q
     \/ QueryRefused /\ UNCHANGED lastHb
  /\ proto_pc' = "delay"
  /\ UNCHANGED <<taskVars, since, connected, toEsp, alive>>

-----------------------------------------------------------------------------
(* The callbacks tf_task runs with tf_mutex held.                          *)

\* mqtt_publish_event, whose caller may be stuck in esp_mqtt_client_publish.
MqttPublish(called) == publishing' \in {FALSE, called /\ Stall}

OnCmdResponse == MqttPublish(TRUE)

\* cmd_response_listener: a short payload is dropped before the application
\* hears of it.
CmdResponse(q, full) ==
  /\ IF full THEN OnCmdResponse ELSE MqttPublish(FALSE)
  /\ status' = [status EXCEPT ![q] = IF full THEN "answered" ELSE "discarded"]
  /\ UNCHANGED connected

OnHeartbeat ==
  /\ connected' = TRUE
  /\ MqttPublish(~connected)

\* heartbeat_response_listener
HeartbeatResponse(q) ==
  /\ OnHeartbeat
  /\ status' = [status EXCEPT ![q] = "answered"]

\* Slips: a command's time-out clears the flag as well; a heartbeat's does not.
OnTimeouts_AnyListener(expired) ==
  /\ connected' = (connected /\ expired = {})
  /\ MqttPublish(expired # {})

OnTimeouts_KeepsFlag(expired) ==
  /\ UNCHANGED connected
  /\ MqttPublish(expired # {})

\* on_heartbeat_timeout and on_cmd_timeout, for the listeners that expired.
OnTimeouts(expired) ==
  LET hbLost == \E l \in expired : l.fn = "hb"
  IN  /\ connected' = (connected /\ ~hbLost)
      /\ MqttPublish((connected /\ hbLost) \/ \E l \in expired : l.fn = "cmd")

\* event_listener and on_state_event for an event (a short one is dropped);
\* generic_listener prints anything else.
OtherListener(f) == MqttPublish(f.type = "event")

-----------------------------------------------------------------------------
(* tf_task.                                                                *)

\* uart_read_bytes ends n frames (or none), and tf_mutex is taken.
UartRead(n) ==
  /\ tf_pc = "read"
  /\ n <= Len(toEsp)
  /\ tf_pc' = "accept"
  /\ rxn' = n
  /\ UNCHANGED <<tfVars, publishing, ticked, protoVars, connected, maxVars, histVars>>

\* TF_HandleReceivedMessage, for a frame with a matching ID listener.  The
\* listener is chosen by the frame's ID alone, and both kinds answer TF_CLOSE.
FrameToIdListener ==
  /\ tf_pc = "accept"
  /\ rxn > 0
  /\ LET f == Head(toEsp)
         i == First(Matching(tab, f.id))
         l == tab.slot[i]
     IN  /\ Matching(tab, f.id) # {}
         /\ tab' = Cleanup(tab, i)
         /\ \/ l.fn = "cmd" /\ CmdResponse(l.q, f.full)
            \/ l.fn = "hb" /\ HeartbeatResponse(l.q)
  /\ toEsp' = Tail(toEsp)
  /\ rxn' = rxn - 1
  /\ UNCHANGED <<next_id, tf_pc, ticked, protoVars, atMax, alive, age, lastHb>>

\* TF_HandleReceivedMessage otherwise.
FrameToOtherListener ==
  /\ tf_pc = "accept"
  /\ rxn > 0
  /\ Matching(tab, Head(toEsp).id) = {}
  /\ OtherListener(Head(toEsp))
  /\ toEsp' = Tail(toEsp)
  /\ rxn' = rxn - 1
  /\ UNCHANGED <<tfVars, tf_pc, ticked, protoVars, connected, atMax, alive, histVars>>

\* TF_Tick, after which tf_mutex is given back, or held on while a time-out
\* callback still publishes.
Tick ==
  /\ tf_pc = "accept"
  /\ rxn = 0
  /\ LET expired == {tab.slot[i] : i \in Expiring(tab)}
     IN  /\ OnTimeouts(expired)
         /\ status' = [q \in Queries |->
                         IF \E l \in expired : l.q = q THEN "timeout" ELSE status[q]]
  /\ tab' = CountDown(tab)
  /\ tf_pc' = IF publishing' THEN "give" ELSE "read"
  /\ ticked' = TRUE
  /\ UNCHANGED <<next_id, rxn, protoVars, maxVars, age, lastHb>>

\* The publishing callback of the tick returns; tf_mutex is given back.
GiveMutex ==
  /\ tf_pc = "give"
  /\ tf_pc' = "read"
  /\ publishing' = FALSE
  /\ UNCHANGED <<tfVars, rxn, ticked, protoVars, connected, maxVars, histVars>>

-----------------------------------------------------------------------------
(* Time, the line and the board.                                           *)

\* One FreeRTOS tick.  uart_read_bytes waits for one at most, so tf_task goes
\* round in every tick, and the protocol task gets tf_mutex within the tick,
\* unless a callback is stuck in a publish.
Elapse ==
  /\ \/ tf_pc = "read" /\ ticked /\ proto_pc = "delay"
     \/ publishing
  /\ ticked' = FALSE
  /\ since' = UpTo(since, HbInterval)
  /\ UNCHANGED <<tfVars, tf_pc, rxn, publishing, proto_pc, connected, maxVars,
                 status, age, lastHb>>

\* The board answers a query, with the query's frame ID.
MaxAnswer(f, full) ==
  /\ alive
  /\ Len(toEsp) < LineCap
  /\ atMax' = atMax \ {f}
  /\ toEsp' = Append(toEsp, [type |-> "answer", id |-> f.id, q |-> f.q, full |-> full])
  /\ UNCHANGED <<tfVars, taskVars, protoVars, connected, alive, histVars>>

\* The query or its answer is lost on the line, or the board drops it.
Lose(f) ==
  /\ atMax' = atMax \ {f}
  /\ UNCHANGED <<tfVars, taskVars, protoVars, connected, toEsp, alive, histVars>>

\* The board reports an event, in a frame with an ID of its own.
MaxEvent(id) ==
  /\ alive
  /\ Len(toEsp) < LineCap
  /\ toEsp' = Append(toEsp, [type |-> "event", id |-> id])
  /\ UNCHANGED <<tfVars, taskVars, protoVars, connected, atMax, alive, histVars>>

\* The board stops, and forgets the queries it had not answered.
MaxStop ==
  /\ alive
  /\ alive' = FALSE
  /\ atMax' = {}
  /\ UNCHANGED <<tfVars, taskVars, protoVars, connected, toEsp, histVars>>

MaxStart ==
  /\ ~alive
  /\ alive' = TRUE
  /\ UNCHANGED <<tfVars, taskVars, protoVars, connected, toEsp, atMax, histVars>>

-----------------------------------------------------------------------------
TfTask ==
  \/ \E n \in 0 .. RxBurst : UartRead(n)
  \/ FrameToIdListener
  \/ FrameToOtherListener
  \/ Tick
  \/ GiveMutex

ProtocolTask == HeartbeatDue \/ \E q \in HbQueries : SendHeartbeat(q)

MqttTask == SendEstop \/ \E q \in CmdQueries : SendCmd(q)

Board ==
  \/ \E f \in atMax : Lose(f) \/ \E full \in BOOLEAN : MaxAnswer(f, full)
  \/ \E id \in EventIds : MaxEvent(id)
  \/ MaxStop
  \/ MaxStart

Next == TfTask \/ ProtocolTask \/ MqttTask \/ Elapse \/ Board

(* Fairness.  tf_task always runs again, and what the line carries moves on *)
(* (it is answered, read or lost).  A task that waits for tf_mutex gets it,  *)
(* because tf_task sleeps in uart_read_bytes without it; and time goes on.   *)
(* The MQTT task and the board owe nothing.                                  *)

LineMoves(q) ==
  \E f \in atMax : f.q = q /\ (Lose(f) \/ \E full \in BOOLEAN : MaxAnswer(f, full))

Fairness ==
  /\ WF_vars(TfTask)
  /\ SF_vars(\E n \in 1 .. RxBurst : UartRead(n))
  /\ \A q \in Queries : WF_vars(LineMoves(q))
  /\ WF_vars(HeartbeatDue)
  /\ SF_vars(\E q \in HbQueries : SendHeartbeat(q))
  /\ SF_vars(Elapse)

Spec == Init /\ [][Next]_vars

FairSpec == Spec /\ Fairness

-----------------------------------------------------------------------------
(* Safety.                                                                 *)

ListenersOf(q) == {i \in Live(tab) : tab.slot[i].q = q}

\* Every listener is inside the bound of the loops of TF_HandleReceivedMessage
\* and TF_Tick, whatever the order in which listeners came and went: one
\* beyond count_id_lst would neither be answered nor ever time out.
LiveBelowCount == \A i \in Live(tab) : i < tab.count

\* A query is waited for by exactly one listener from the moment it is
\* accepted until it is concluded, and by none before or after: none is
\* forgotten, none concludes twice.
OneListenerPerQuery ==
  \A q \in Queries :
    IF status[q] = "pending"
    THEN \E i \in Slots : ListenersOf(q) = {i}
    ELSE ListenersOf(q) = {}

\* A frame from the board is taken by an ID listener only if it is the answer
\* to that listener's own query, as long as neither query is so old that the
\* 7-bit counter has come round since.  An event of the board, numbered by a
\* counter of its own, is never taken for an answer: the peer bit differs.
OnlyOwnAnswerMatches ==
  \A k \in DOMAIN toEsp, i \in Live(tab) :
    LET f == toEsp[k]
        l == tab.slot[i]
    IN  f.id = l.id =>
          /\ f.type = "answer"
          /\ f.q = l.q \/ age[f.q] = IdSpan \/ age[l.q] = IdSpan

PendingHeartbeats == {q \in HbQueries : status[q] = "pending"}

\* The heartbeats do not overlap: one has been answered or given up when the
\* next one is due.  max32655_connected relies on it, for a time-out clears
\* the flag whatever other heartbeats were answered since.  (Without Stall,
\* and with HbTimeout < HbInterval.)
AtMostOneHeartbeat ==
  /\ proto_pc = "send" => PendingHeartbeats = {}
  /\ \A p, q \in PendingHeartbeats : p = q

\* max32655_connected is what the last heartbeat to conclude said, and nothing
\* else ever moves it: not the answer to a command, not the time-out of one,
\* not an older heartbeat.  (Same conditions as AtMostOneHeartbeat.)
ConnectedFollowsHeartbeats ==
  (lastHb # None /\ PendingHeartbeats = {}) =>
    (connected <=> status[lastHb] = "answered")

\* Queries keep the promise of QueryPromise, with one slot for each.
Promise == INSTANCE QueryPromise WITH Capacity <- MaxIdLst

PromiseKept == Promise!Spec

-----------------------------------------------------------------------------
(* Liveness.                                                               *)

\* Every accepted query is concluded, because tf_task ticks its listener away
\* if nothing else does.
PromiseKeptFairly == Promise!FairSpec

\* When the board has stopped for good, max32655_connected ends up false:
\* a heartbeat still goes out, finds a slot for its listener, and times out.
DeadPeerDetected == <>[]~alive => <>[]~connected
=============================================================================
