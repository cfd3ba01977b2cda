------------------------------- MODULE Bridge -------------------------------
(***************************************************************************)
(* Between MQTT and the board: app_main, MaxComm_Init and protocol_init    *)
(* start things up, mqtt_util.c follows the broker's connection, and the   *)
(* callbacks of max_comm.c report to the broker what becomes of commands   *)
(* and heartbeats, and the events of the board.                            *)
(*                                                                         *)
(* The link below keeps the promise of QueryPromise (module MaxLink        *)
(* implements it): its actions are the steps of queries here.  tf_task     *)
(* runs the callbacks with tf_mutex held, so no query is sent before a     *)
(* callback has made its reports; but each report is two steps, for the    *)
(* task of the MQTT client may run between the test of s_connected and     *)
(* the publication.  That task sends commands from its event handler,      *)
(* where it may have to wait for tf_mutex, with or without the client's    *)
(* own lock, which a publication needs.                                    *)
(***************************************************************************)
EXTENDS MqttCommand

CONSTANTS
  Cmds,        \* commands in flight at once (bounds the model)
  Heartbeats,  \* heartbeats in flight at once (bounds the model)
  Queries,     \* both
  Capacity,    \* TF_MAX_ID_LST (4)
  ApiLocked    \* does the MQTT client hold its lock while it calls the handler?

ASSUME BridgeAssumption ==
  /\ Queries = Cmds \cup Heartbeats
  /\ Cmds \cap Heartbeats = {}
  /\ "board" \notin Queries
  /\ Capacity \in Nat \ {0}
  /\ ApiLocked \in BOOLEAN

VARIABLES
  boot,         \* steps of BootOrder app_main has made
  s_connected,  \* s_connected of mqtt_util.c
  subscribed,   \* has the broker accepted the subscription of s_topic_cmd?
  connected,    \* max32655_connected
  status,       \* what became of each query, as in QueryPromise
  outbox,       \* reports the callback in tf_task still has to make
  tested,       \* has mqtt_publish_event found s_connected set for the first one?
  buffer, len,  \* the receive buffer of the MQTT client, and its last payload
  handler,      \* the command mqtt_event_handler is about to send, or "idle"
  \* history
  reports,      \* what became of each report on a query since it was accepted
  told,         \* the last report on the connection that was published
  refused,      \* was the last report on the connection refused?
  unset         \* has anything used proto_config before it was set?

linkVars == <<status, reports>>
mqttVars == <<s_connected, subscribed, buffer, len, handler>>
taskVars == <<outbox, tested>>
boardVars == <<connected, told, refused>>
vars == <<boot, mqttVars, boardVars, linkVars, taskVars, unset>>

Link == INSTANCE QueryPromise

-----------------------------------------------------------------------------
(* Start-up.                                                               *)

\* A slip: the listener is registered before the configuration is copied.
BootOrder_ListenerFirst == <<"transport", "listener", "config", "task", "mqtt">>

\* What app_main does once wifi_init has returned: tf_transport_init, the three
\* parts of protocol_init, mqtt_init.
BootOrder == <<"transport", "config", "listener", "task", "mqtt">>

Done(step) == \E i \in 1 .. boot : BootOrder[i] = step

TfTaskIdle == Done("transport") /\ outbox = <<>>

\* Only tf_transport_add_listener waits for tf_mutex.
Boot ==
  /\ boot < Len(BootOrder)
  /\ BootOrder[boot + 1] = "listener" => TfTaskIdle
  /\ boot' = boot + 1
  /\ UNCHANGED <<mqttVars, boardVars, linkVars, taskVars, unset>>

\* What reads proto_config finds it set, or it is noted here.
UsesConfig == unset' = (unset \/ ~Done("config"))

Init ==
  /\ boot = 0
  /\ s_connected = FALSE /\ subscribed = FALSE
  /\ connected = FALSE
  /\ Link!Init
  /\ outbox = <<>> /\ tested = FALSE
  /\ buffer = <<>> /\ len = 0 /\ handler = "idle"
  /\ reports = [q \in Queries |-> <<>>]
  /\ told = "disconnected" /\ refused = FALSE
  /\ unset = FALSE

-----------------------------------------------------------------------------
(* tf_task: mqtt_publish_event.                                            *)

ConnectionReports == {"connected", "disconnected"}

Reports == ConnectionReports \cup {"cmd_ok", "cmd_err", "cmd_timeout", "status", "event"}

\* What mqtt_publish_event can do with a report: publish it, find s_connected
\* cleared, or have it declined by the client.
Fates == {"published", "down", "declined"}

\* The first report has met its fate; nobody looks at the result.
Reported(fate) ==
  LET r == Head(outbox)
  IN  /\ outbox' = Tail(outbox)
      /\ tested' = FALSE
      /\ IF r.about \in Cmds
         THEN reports' = [reports EXCEPT ![r.about] = Append(@, fate)]
         ELSE UNCHANGED reports
      /\ IF r.says \in ConnectionReports
         THEN /\ refused' = (fate # "published")
              /\ told' = IF fate = "published" THEN r.says ELSE told
         ELSE UNCHANGED <<refused, told>>

PublishTest ==
  /\ outbox # <<>> /\ ~tested
  /\ IF s_connected
     THEN tested' = TRUE /\ UNCHANGED <<outbox, reports, refused, told>>
     ELSE Reported("down")
  /\ UNCHANGED <<boot, mqttVars, connected, status, unset>>

\* esp_mqtt_client_publish waits for the client's lock, and takes the message
\* or returns a negative number.
Publish ==
  /\ tested
  /\ ApiLocked => handler = "idle"
  /\ \E fate \in {"published", "declined"} : Reported(fate)
  /\ UNCHANGED <<boot, mqttVars, connected, status, unset>>

-----------------------------------------------------------------------------
(* tf_task: the callbacks of max_comm.c and the listeners that call them.  *)

Report(says, about) == outbox' = <<[says |-> says, about |-> about]>>

\* Slips: after an error the callback goes on; a status without data is dropped.
OnCmdResponse_GoesOn(c, resp) ==
  outbox' = (IF resp.ok THEN <<>> ELSE <<[says |-> "cmd_err", about |-> c]>>)
              \o <<[says |-> IF resp.status THEN "status" ELSE "cmd_ok", about |-> c]>>

OnCmdResponse_NoElse(c, resp) ==
  IF ~resp.ok THEN Report("cmd_err", c)
  ELSE IF resp.status THEN Report("status", c) ELSE UNCHANGED outbox

\* resp.status stands for a response to CMD_GET_STATUS with three bytes at least.
OnCmdResponse(c, resp) ==
  Report(IF ~resp.ok THEN "cmd_err" ELSE IF resp.status THEN "status" ELSE "cmd_ok", c)

Responses == [ok : BOOLEAN, status : BOOLEAN]

\* cmd_response_listener, with a response that is long enough, or not.
CmdResponse(c) ==
  /\ TfTaskIdle
  /\ Link!Answered(c)
  /\ IF status'[c] = "answered"
     THEN \E resp \in Responses : OnCmdResponse(c, resp)
     ELSE UNCHANGED outbox
  /\ UsesConfig
  /\ UNCHANGED <<boot, mqttVars, boardVars, reports, tested>>

\* cmd_timeout_listener, on_cmd_timeout
CmdTimeout(c) ==
  /\ TfTaskIdle
  /\ Link!TimedOut({c})
  /\ Report("cmd_timeout", c)
  /\ UsesConfig
  /\ UNCHANGED <<boot, mqttVars, boardVars, reports, tested>>

\* heartbeat_response_listener, on_heartbeat: the connection is reported once.
HeartbeatResponse(h) ==
  /\ TfTaskIdle
  /\ Link!Answered(h)
  /\ status'[h] = "answered"
  /\ connected' = TRUE
  /\ IF connected THEN UNCHANGED outbox ELSE Report("connected", h)
  /\ UsesConfig
  /\ UNCHANGED <<boot, mqttVars, told, refused, reports, tested>>

\* A slip: the flag is not cleared.
OnHeartbeatTimeout_KeepsFlag(h) ==
  /\ UNCHANGED connected
  /\ IF connected THEN Report("disconnected", h) ELSE UNCHANGED outbox

OnHeartbeatTimeout(h) ==
  /\ connected' = FALSE
  /\ IF connected THEN Report("disconnected", h) ELSE UNCHANGED outbox

\* heartbeat_timeout_listener
HeartbeatTimeout(h) ==
  /\ TfTaskIdle
  /\ Link!TimedOut({h})
  /\ OnHeartbeatTimeout(h)
  /\ UsesConfig
  /\ UNCHANGED <<boot, mqttVars, told, refused, reports, tested>>

\* An event of the board: before event_listener is registered it goes to
\* generic_listener, and event_listener drops a short one; it reports the others,
\* if it finds a callback in proto_config.
StateEvent(full) ==
  /\ TfTaskIdle
  /\ IF Done("listener") /\ full
     THEN UsesConfig /\ IF Done("config") THEN Report("event", "board") ELSE UNCHANGED outbox
     ELSE UNCHANGED <<outbox, unset>>
  /\ UNCHANGED <<boot, mqttVars, boardVars, linkVars, tested>>

-----------------------------------------------------------------------------
(* Queries go out, or find no slot; then nobody is told.                   *)

Query(q) ==
  /\ TfTaskIdle
  /\ Link!Accept(q)
  /\ reports' = [reports EXCEPT ![q] = <<>>]
  /\ UsesConfig

QueryRefused ==
  /\ TfTaskIdle
  /\ Cardinality(Link!Pending) = Capacity
  /\ UsesConfig
  /\ UNCHANGED linkVars

\* send_heartbeat, in the protocol task
SendHeartbeat ==
  /\ Done("task")
  /\ (\E h \in Heartbeats : Query(h)) \/ QueryRefused
  /\ UNCHANGED <<boot, mqttVars, boardVars, taskVars>>

-----------------------------------------------------------------------------
(* The task of the MQTT client: mqtt_event_handler, one event at a time.   *)

HandlerStates == {"idle", "status", "reset", "estop", "floor"}

\* MQTT_EVENT_CONNECTED: the subscription may fail, and is not repeated.
MqttConnected ==
  /\ Done("mqtt")
  /\ handler = "idle"
  /\ ~s_connected
  /\ s_connected' = TRUE
  /\ subscribed' \in BOOLEAN
  /\ UNCHANGED <<boot, boardVars, linkVars, taskVars, buffer, len, handler, unset>>

\* MQTT_EVENT_DISCONNECTED; the broker forgets the subscription.
MqttDisconnected ==
  /\ handler = "idle"
  /\ s_connected
  /\ s_connected' = FALSE
  /\ subscribed' = FALSE
  /\ UNCHANGED <<boot, boardVars, linkVars, taskVars, buffer, len, handler, unset>>

\* MQTT_EVENT_DATA on the command topic, up to the call that sends something.
MqttData(payload) ==
  /\ handler = "idle"
  /\ subscribed
  /\ buffer' = Received(buffer, payload)
  /\ len' = Len(payload)
  /\ LET command == OnMqttCommand(buffer', len').command
     IN  handler' = IF command = "unknown" THEN "idle" ELSE command
  /\ UNCHANGED <<boot, s_connected, subscribed, boardVars, linkVars, taskVars, unset>>

\* The handler has tf_mutex: MaxComm_SendGetStatus, _SendReset and
\* _SendMoveToFloor are queries, MaxComm_SendEstop waits for no answer.
MqttSend ==
  /\ handler # "idle"
  /\ IF handler = "estop"
     THEN TfTaskIdle /\ UNCHANGED <<linkVars, unset>>
     ELSE (\E c \in Cmds : Query(c)) \/ QueryRefused
  /\ handler' = "idle"
  /\ UNCHANGED <<boot, s_connected, subscribed, buffer, len, boardVars, taskVars>>

-----------------------------------------------------------------------------
TfTask ==
  \/ PublishTest
  \/ Publish
  \/ \E c \in Cmds : CmdResponse(c) \/ CmdTimeout(c)
  \/ \E h \in Heartbeats : HeartbeatResponse(h) \/ HeartbeatTimeout(h)
  \/ \E full \in BOOLEAN : StateEvent(full)

MqttTask ==
  \/ MqttConnected
  \/ MqttDisconnected
  \/ \E payload \in Payloads : MqttData(payload)
  \/ MqttSend

Next == Boot \/ TfTask \/ SendHeartbeat \/ MqttTask

(* Fairness.  A publication that can be made is made, and the link concludes *)
(* every command, which is the promise MaxLink keeps fairly; strongly,       *)
(* because other callbacks come in between.  The broker, the board and the   *)
(* MQTT task owe nothing.                                                    *)

Fairness ==
  /\ WF_vars(PublishTest \/ Publish)
  /\ \A c \in Cmds : SF_vars(CmdResponse(c) \/ CmdTimeout(c))

Spec == Init /\ [][Next]_vars

FairSpec == Spec /\ Fairness

-----------------------------------------------------------------------------
TypeOK ==
  /\ boot \in 0 .. Len(BootOrder)
  /\ s_connected \in BOOLEAN /\ subscribed \in BOOLEAN
  /\ connected \in BOOLEAN
  /\ Link!PromiseTypeOK
  /\ outbox \in Seq([says : Reports, about : Queries \cup {"board"}]) /\ Len(outbox) <= 1
  /\ tested \in BOOLEAN /\ (tested => outbox # <<>>)
  /\ handler \in HandlerStates
  /\ reports \in [Queries -> Seq(Fates)]
  /\ told \in ConnectionReports /\ refused \in BOOLEAN
  /\ unset \in BOOLEAN

\* tf_task runs before protocol_init has set anything, and the MQTT task from
\* the moment mqtt_init starts its client: no callback is looked up and no
\* query gets its time-out from proto_config before it is set.  (A query sent
\* too early would have no time-out at all.)
ConfiguredInTime == ~unset

Reporting(c) == {i \in DOMAIN outbox : outbox[i].about = c}

\* For a command that was answered or given up mqtt_publish_event is called
\* once, whatever the answer says, and whatever becomes of the report; for one
\* that waits, or whose answer was too short, it is not.
OneReport ==
  \A c \in Cmds :
    Len(reports[c]) + Cardinality(Reporting(c)) =
      IF status[c] \in {"answered", "timeout"} THEN 1 ELSE 0

\* The last report on the connection that was published agrees with
\* max32655_connected, unless the report of the last change was refused or is
\* still being made.  (It is never repeated: a subscriber who missed it, as
\* everyone does if the board answers before MQTT is up, hears nothing of it
\* until the connection changes again.)
BoardReported ==
  refused \/ (\E i \in DOMAIN outbox : outbox[i].says \in ConnectionReports)
    \/ (connected <=> told = "connected")

Payload == Cut(buffer, len)

\* What the comparisons do make sure of: a payload that is a name runs that
\* command, whatever follows it in the buffer; a command runs for no other
\* payload than a prefix of its names; and the floor is the payload's, unless a
\* longer message before it has left a digit behind its last one.  (The comment
\* that gives the format knows of no prefixes: see OnlyNamesRun.)
NamedCommandRuns ==
  LET run == OnMqttCommand(buffer, len)
  IN  \A k \in DOMAIN Names :
        /\ Payload \in Names[k] => run.command = Commands[k]
        /\ run.command = Commands[k] => \E name \in Names[k] : IsPrefix(Payload, name)
        /\ run.command = "floor" =>
             \/ run.floor = Floor(Payload)
             \/ len < Len(buffer) /\ buffer[len + 1] \in DOMAIN Digit

\* Format: "CMD_NAME" or "CMD_NAME:param".  A message that is none of these
\* makes the handler send nothing.
OnlyNamesRun ==
  /\ \A k \in DOMAIN Names : handler = Commands[k] => Payload \in Names[k]
  /\ handler = "floor" => IsStrictPrefix(FloorPrefix, Payload)

\* "Parse floor number": the board is sent to the floor the payload names.
FloorAsNamed ==
  LET run == OnMqttCommand(buffer, len)
  IN  run.command = "floor" => run.floor = Floor(Payload)

\* What becomes of an accepted command is published in the end, if MQTT stays
\* up: unless the answer is dropped for being too short, or the client declines
\* the report, which is not repeated then.  (Of a client that keeps its lock
\* while it calls the handler this is not true: see CallsReturn in TaskLocks.)
CommandReported ==
  \A c \in Cmds :
    status[c] = "pending" ~>
      \/ status[c] = "discarded"
      \/ reports[c] \in {<<"published">>, <<"declined">>}
      \/ ~s_connected
=============================================================================
