----------------------------- MODULE TaskLocks -----------------------------
(***************************************************************************)
(* The locks under MaxLink, one step at a time: the recursive tf_mutex     *)
(* around every call into TinyFrame (tf_transport.c), TinyFrame's own      *)
(* soft_lock and its one send buffer, and the lock of the MQTT client.     *)
(*                                                                         *)
(* tf_task holds tf_mutex while it runs callbacks; a callback may publish  *)
(* (mqtt_publish_event, which takes the client's lock).  The protocol task *)
(* queries.  The MQTT task queries or sends, from the event handler the    *)
(* client calls.  No listener of this program calls tf_transport_respond,  *)
(* for whose sake tf_mutex is recursive; Responds lets one do so.          *)
(***************************************************************************)
EXTENDS Naturals

CONSTANTS
  ApiLocked,   \* does the MQTT client hold its lock while it calls the handler?
  Responds,    \* does a listener call tf_transport_respond?
  None         \* nobody

Tasks == {"tf", "protocol", "mqtt"}

ASSUME LocksAssumption ==
  /\ ApiLocked \in BOOLEAN
  /\ Responds \in BOOLEAN
  /\ None \notin Tasks

VARIABLES
  pc,          \* where each task is
  owner,       \* the task that holds tf_mutex
  depth,       \* how often it holds it
  api_owner,   \* the task that holds the lock of the MQTT client
  soft_lock,   \* tf->soft_lock
  sendbuf,     \* the task whose frame is in tf->sendbuf
  open         \* the task whose frame is on the wire in part

vars == <<pc, owner, depth, api_owner, soft_lock, sendbuf, open>>

locks == <<owner, depth, api_owner>>
frame == <<soft_lock, sendbuf, open>>

\* Where a task is when it is not in a call of the transport.
Home(t) == CASE t = "tf" -> "callbacks"
             [] t = "protocol" -> "delay"
             [] t = "mqtt" -> "handler"

Inside == {"claim", "claimed", "compose", "listen", "write", "release", "give"}

Locations == {"read", "lock", "callbacks", "publish", "delay", "poll", "busy", "handler", "take"}
               \cup Inside

TypeOK ==
  /\ pc \in [Tasks -> Locations]
  /\ owner \in Tasks \cup {None}
  /\ depth \in 0 .. 2
  /\ api_owner \in {"mqtt", None}
  /\ soft_lock \in BOOLEAN
  /\ sendbuf \in Tasks \cup {None}
  /\ open \in Tasks \cup {None}

Init ==
  /\ pc = [t \in Tasks |-> IF t = "tf" THEN "read" ELSE IF t = "protocol" THEN "delay" ELSE "poll"]
  /\ owner = None /\ depth = 0
  /\ api_owner = None
  /\ soft_lock = FALSE
  /\ sendbuf = None
  /\ open = None

Goto(t, to) == pc' = [pc EXCEPT ![t] = to]

Step(t, from, to) == pc[t] = from /\ Goto(t, to)

-----------------------------------------------------------------------------
(* The locks.                                                              *)

\* Slips the checks must notice: no mutex at all; a mutex that is not recursive.
TakeMutex_Skipped(t) ==
  /\ owner' = t
  /\ depth' = depth + 1
  /\ UNCHANGED api_owner

TakeMutex_NotRecursive(t) ==
  /\ owner = None
  /\ owner' = t
  /\ depth' = depth + 1
  /\ UNCHANGED api_owner

\* xSemaphoreTakeRecursive(tf_mutex, portMAX_DELAY)
TakeMutex(t) ==
  /\ owner \in {None, t}
  /\ owner' = t
  /\ depth' = depth + 1
  /\ UNCHANGED api_owner

\* A slip: the mutex of a call made from a listener is given back altogether.
GiveMutex_NotRecursive(t) ==
  /\ depth' = 0
  /\ owner' = None
  /\ UNCHANGED api_owner

\* xSemaphoreGiveRecursive(tf_mutex)
GiveMutex(t) ==
  /\ depth' = depth - 1
  /\ owner' = IF depth = 1 THEN None ELSE owner
  /\ UNCHANGED api_owner

-----------------------------------------------------------------------------
(* tf_transport_send, _query and _respond, down to TF_WriteImpl.           *)

Take(t) ==
  /\ Step(t, "take", "claim")
  /\ TakeMutex(t)
  /\ UNCHANGED frame

\* TF_ClaimTx tests soft_lock, and a caller that finds it set leaves without
\* its frame; the test and the assignment are two steps.
ClaimTest(t) ==
  /\ pc[t] = "claim"
  /\ Goto(t, IF soft_lock THEN "give" ELSE "claimed")
  /\ UNCHANGED <<locks, frame>>

ClaimSet(t) ==
  /\ Step(t, "claimed", "compose")
  /\ soft_lock' = TRUE
  /\ UNCHANGED <<locks, sendbuf, open>>

\* TF_ComposeHead writes the head into the send buffer; only queries go on to
\* add a listener.
ComposeHead(t) ==
  /\ pc[t] = "compose"
  /\ sendbuf' = t
  /\ \E query \in {q \in BOOLEAN : (t = "protocol" => q) /\ (t = "tf" => ~q)} :
       Goto(t, IF query THEN "listen" ELSE "write")
  /\ UNCHANGED <<locks, soft_lock, open>>

\* A slip: a query that finds no slot keeps the soft lock.
AddListener_KeepsLock(t) ==
  /\ pc[t] = "listen"
  /\ Goto(t, "write") \/ Goto(t, "give")
  /\ UNCHANGED <<locks, frame>>

\* TF_AddIdListener; without a free slot the frame is given up.
AddListener(t) ==
  /\ pc[t] = "listen"
  /\ \/ Goto(t, "write") /\ UNCHANGED soft_lock
     \/ Goto(t, "give") /\ soft_lock' = FALSE
  /\ UNCHANGED <<locks, sendbuf, open>>

\* TF_SendFrame_Chunk: a frame longer than the send buffer goes out in parts.
WritePart(t) ==
  /\ Step(t, "write", "write")
  /\ open' = t
  /\ UNCHANGED <<locks, soft_lock, sendbuf>>

\* TF_SendFrame_End: the last part, or all of it.
WriteEnd(t) ==
  /\ Step(t, "write", "release")
  /\ open' = None
  /\ UNCHANGED <<locks, soft_lock, sendbuf>>

ReleaseTx(t) ==
  /\ Step(t, "release", "give")
  /\ soft_lock' = FALSE
  /\ UNCHANGED <<locks, sendbuf, open>>

Give(t) ==
  /\ Step(t, "give", Home(t))
  /\ GiveMutex(t)
  /\ UNCHANGED frame

InCall(t) == ClaimTest(t) \/ ClaimSet(t) \/ ComposeHead(t) \/ AddListener(t) \/ WritePart(t)
               \/ WriteEnd(t) \/ ReleaseTx(t) \/ Give(t)

-----------------------------------------------------------------------------
(* tf_task.                                                                *)

UartRead == Step("tf", "read", "lock") /\ UNCHANGED <<locks, frame>>

LockForCallbacks ==
  /\ Step("tf", "lock", "callbacks")
  /\ TakeMutex("tf")
  /\ UNCHANGED frame

\* A callback calls mqtt_publish_event ...
StartPublish == Step("tf", "callbacks", "publish") /\ UNCHANGED <<locks, frame>>

\* ... which takes the client's lock, enqueues the message and gives it back.
Publish ==
  /\ Step("tf", "publish", "callbacks")
  /\ api_owner = None
  /\ UNCHANGED <<locks, frame>>

\* A listener calls tf_transport_respond, as tf_transport.c allows it to;
\* none of this program does.
Respond ==
  /\ Responds
  /\ Step("tf", "callbacks", "take")
  /\ UNCHANGED <<locks, frame>>

UnlockAfterCallbacks ==
  /\ Step("tf", "callbacks", "read")
  /\ GiveMutex("tf")
  /\ UNCHANGED frame

-----------------------------------------------------------------------------
(* protocol_task and the task of the MQTT client.                          *)

HeartbeatDue == Step("protocol", "delay", "take") /\ UNCHANGED <<locks, frame>>

\* The client works with its lock held ...
MqttBusy ==
  /\ Step("mqtt", "poll", "busy")
  /\ api_owner = None
  /\ api_owner' = "mqtt"
  /\ UNCHANGED <<owner, depth, frame>>

MqttIdle ==
  /\ Step("mqtt", "busy", "poll")
  /\ api_owner' = None
  /\ UNCHANGED <<owner, depth, frame>>

\* ... and, when it has received a message, calls mqtt_event_handler.
MqttData ==
  /\ Step("mqtt", "busy", "handler")
  /\ api_owner' = IF ApiLocked THEN "mqtt" ELSE None
  /\ UNCHANGED <<owner, depth, frame>>

\* MaxComm_OnMqttCommand sends something.
OnMqttCommand == Step("mqtt", "handler", "take") /\ UNCHANGED <<locks, frame>>

\* A message is not for this program, or its command has been sent.
MqttReturn ==
  /\ Step("mqtt", "handler", "poll")
  /\ api_owner' = None
  /\ UNCHANGED <<owner, depth, frame>>

Next ==
  \/ \E t \in Tasks : Take(t) \/ InCall(t)
  \/ UartRead \/ LockForCallbacks \/ StartPublish \/ Publish \/ Respond
  \/ UnlockAfterCallbacks
  \/ HeartbeatDue
  \/ MqttBusy \/ MqttIdle \/ MqttData \/ OnMqttCommand \/ MqttReturn

\* Every task that can go on does: a frame has finitely many parts, a read
\* finitely many callbacks, and a free lock is not withheld for ever from a
\* task that waits for it.
Fairness ==
  /\ \A t \in Tasks : WF_vars(InCall(t)) /\ SF_vars(WriteEnd(t)) /\ SF_vars(Take(t))
  /\ WF_vars(UartRead) /\ SF_vars(LockForCallbacks)
  /\ SF_vars(Publish) /\ SF_vars(UnlockAfterCallbacks)
  /\ WF_vars(MqttIdle) /\ SF_vars(MqttReturn)

Spec == Init /\ [][Next]_vars

FairSpec == Spec /\ Fairness

-----------------------------------------------------------------------------
(* Properties.                                                             *)

\* How often each task holds tf_mutex, by where it is.
Holds(t) ==
  IF pc[t] \in Inside THEN IF t = "tf" THEN 2 ELSE 1
  ELSE IF t = "tf" /\ pc[t] \in {"callbacks", "publish", "take"} THEN 1
  ELSE 0

\* A task is in the sections of tf_mutex only as its owner, and the count of
\* the recursive mutex is that of its open sections: a listener's call neither
\* locks its own task out nor lets another in when it returns.
MutexCountsSections ==
  /\ \A t \in Tasks : Holds(t) = IF owner = t THEN depth ELSE 0
  /\ owner = None => depth = 0

\* A call never finds soft_lock set: "TF already locked for tx!" cannot happen,
\* so no frame, the emergency stop least of all, is dropped for it.
SoftLockNeverRefuses == \A t \in Tasks : pc[t] = "claim" => ~soft_lock

\* What a task writes is the frame it composed, and no other frame is on the
\* wire in part: frames of different tasks are not mixed.
FramesNotMixed ==
  \A t \in Tasks : pc[t] = "write" => sendbuf = t /\ open \in {None, t}

\* No task waits for ever: every call of the transport returns, as the comment
\* on the recursive mutex promises ("without deadlocking").
CallsReturn == \A t \in Tasks : pc[t] = "take" ~> pc[t] = Home(t)
=============================================================================
