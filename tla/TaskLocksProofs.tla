-------------------------- MODULE TaskLocksProofs --------------------------
(***************************************************************************)
(* Mutual exclusion of the transport's calls, whatever the MQTT client     *)
(* does with its lock.                                                     *)
(***************************************************************************)
EXTENDS TaskLocks, TLAPS

\* Where a call has set soft_lock, and where it has composed its frame.
Claimed == {"compose", "listen", "write", "release"}
Composed == {"listen", "write"}

\* soft_lock is set exactly by a call in progress past its claim; the send
\* buffer and a frame begun on the wire belong to the call that is using them.
SoftLockByCall == soft_lock <=> \E t \in Tasks : pc[t] \in Claimed
BufferByCall == \A t \in Tasks : pc[t] \in Composed => sendbuf = t
WireByCall == \A t \in Tasks : open = t => pc[t] = "write"

LocksInv ==
  /\ TypeOK
  /\ MutexCountsSections
  /\ SoftLockByCall
  /\ BufferByCall
  /\ WireByCall

\* Two tasks are never in a section of tf_mutex together.
LEMMA OneInside ==
  ASSUME MutexCountsSections, NEW t \in Tasks, pc[t] \in Inside
  PROVE  /\ owner = t /\ depth = Holds(t)
         /\ \A u \in Tasks \ {t} : pc[u] \notin Inside
BY LocksAssumption DEF MutexCountsSections, Holds, Tasks

\* The invariant holds at start-up: the mutex is free and no frame is begun.
LEMMA LocksInit == Init => LocksInv
<1> SUFFICES ASSUME Init PROVE LocksInv
  OBVIOUS
<1>1. TypeOK
  <2>1. \A t \in Tasks : pc[t] \in {"read", "delay", "poll"}
    BY DEF Init
  <2>2. {"read", "delay", "poll"} \subseteq Locations
    BY DEF Locations
  <2>3. pc \in [Tasks -> Locations]
    BY <2>1, <2>2 DEF Init
  <2>4. depth \in 0 .. 2
    BY DEF Init
  <2>5. soft_lock \in BOOLEAN
    BY Zenon DEF Init
  <2> QED
    BY <2>3, <2>4, <2>5, Zenon DEF Init, TypeOK
<1>2. MutexCountsSections
  <2>1. \A t \in Tasks : pc[t] \in {"read", "delay", "poll"}
    BY DEF Init, Tasks
  <2>2. owner = None /\ depth = 0 /\ None \notin Tasks
    BY LocksAssumption DEF Init
  <2>3. \A t \in Tasks : Holds(t) = 0
    BY <2>1 DEF Holds, Inside
  <2> QED
    BY <2>2, <2>3 DEF MutexCountsSections
<1>3. SoftLockByCall /\ BufferByCall /\ WireByCall
  BY LocksAssumption
     DEF Init, SoftLockByCall, BufferByCall, WireByCall, Tasks, Claimed, Composed
<1> QED
  BY <1>1, <1>2, <1>3 DEF LocksInv

-----------------------------------------------------------------------------
\* A step of a task that goes elsewhere: what the others see of it.
LEMMA StepTo ==
  ASSUME TypeOK, NEW t \in Tasks, NEW to \in Locations, Goto(t, to)
  PROVE  /\ pc' \in [Tasks -> Locations]
         /\ pc'[t] = to
         /\ \A u \in Tasks \ {t} : pc'[u] = pc[u]
BY DEF TypeOK, Goto

\* Taking tf_mutex keeps the invariant.
LEMMA TakeInv ==
  ASSUME LocksInv, NEW t \in Tasks, Take(t)
  PROVE  LocksInv'
<1> USE DEF LocksInv
<1>1. /\ pc[t] = "take" /\ Goto(t, "claim") /\ TakeMutex(t)
      /\ UNCHANGED <<soft_lock, sendbuf, open>>
  BY DEF Take, Step, frame
<1>2. /\ pc' \in [Tasks -> Locations] /\ pc'[t] = "claim"
      /\ \A u \in Tasks \ {t} : pc'[u] = pc[u]
  BY <1>1, StepTo DEF Locations, Inside
<1>3. MutexCountsSections' /\ TypeOK'
  BY <1>1, <1>2, LocksAssumption
     DEF TypeOK, TakeMutex, MutexCountsSections, Holds, Inside, Tasks
<1>4. SoftLockByCall' /\ BufferByCall' /\ WireByCall'
  BY <1>1, <1>2 DEF SoftLockByCall, BufferByCall, WireByCall, Claimed, Composed
<1> QED
  BY <1>3, <1>4

\* A step of a call that stays inside its section.
LEMMA InsideInv ==
  ASSUME LocksInv, NEW t \in Tasks, pc[t] \in Inside,
         NEW to \in Inside, Goto(t, to), UNCHANGED locks
  PROVE  /\ MutexCountsSections'
         /\ pc' \in [Tasks -> Locations] /\ pc'[t] = to
         /\ \A u \in Tasks \ {t} : pc'[u] = pc[u] /\ pc[u] \notin Inside
<1> USE DEF LocksInv
<1>1. /\ pc' \in [Tasks -> Locations] /\ pc'[t] = to
      /\ \A u \in Tasks \ {t} : pc'[u] = pc[u]
  BY StepTo DEF Locations
<1>2. \A u \in Tasks : Holds(u)' = Holds(u)
  BY <1>1 DEF Holds
<1> QED
  BY <1>1, <1>2, OneInside DEF MutexCountsSections, locks

\* Each step of a call that sends a frame, or handles one, keeps the invariant.
LEMMA InCallInv ==
  ASSUME LocksInv, NEW t \in Tasks, InCall(t)
  PROVE  LocksInv'
<1> USE DEF LocksInv
<1>1. pc[t] \in Inside
  BY DEF InCall, ClaimTest, ClaimSet, ComposeHead, AddListener, WritePart, WriteEnd,
         ReleaseTx, Give, Step, Inside
<1>2. owner = t /\ depth = Holds(t) /\ \A u \in Tasks \ {t} : pc[u] \notin Inside
  BY <1>1, OneInside
<1> USE DEF Claimed, Composed, Inside
<1>3. CASE ClaimTest(t)
  <2>1. PICK to \in {"give", "claimed"} : Goto(t, to)
    BY <1>3 DEF ClaimTest
  <2>2. pc[t] = "claim" /\ UNCHANGED locks /\ UNCHANGED <<soft_lock, sendbuf, open>>
    BY <1>3 DEF ClaimTest, frame
  <2> QED
    BY <2>1, <2>2, InsideInv
       DEF TypeOK, locks, SoftLockByCall, BufferByCall, WireByCall
<1>4. CASE ClaimSet(t)
  <2>1. /\ pc[t] = "claimed" /\ Goto(t, "compose") /\ soft_lock' = TRUE
        /\ UNCHANGED locks /\ UNCHANGED <<sendbuf, open>>
    BY <1>4 DEF ClaimSet, Step
  <2> QED
    BY <2>1, InsideInv DEF TypeOK, locks, SoftLockByCall, BufferByCall, WireByCall
<1>5. CASE ComposeHead(t)
  <2>1. /\ pc[t] = "compose" /\ sendbuf' = t
        /\ UNCHANGED locks /\ UNCHANGED <<soft_lock, open>>
    BY <1>5 DEF ComposeHead
  <2>2. PICK to \in {"listen", "write"} : Goto(t, to)
    BY <1>5 DEF ComposeHead
  <2> QED
    BY <2>1, <2>2, InsideInv
       DEF TypeOK, locks, SoftLockByCall, BufferByCall, WireByCall
<1>6. CASE AddListener(t)
  <2>1. pc[t] = "listen" /\ UNCHANGED locks /\ UNCHANGED <<sendbuf, open>>
    BY <1>6 DEF AddListener
  <2>2. CASE Goto(t, "write") /\ UNCHANGED soft_lock
    BY <2>1, <2>2, InsideInv
       DEF TypeOK, locks, SoftLockByCall, BufferByCall, WireByCall
  <2>3. CASE Goto(t, "give") /\ soft_lock' = FALSE
    BY <2>1, <2>3, InsideInv
       DEF TypeOK, locks, SoftLockByCall, BufferByCall, WireByCall
  <2> QED
    BY <1>6, <2>2, <2>3 DEF AddListener
<1>7. CASE WritePart(t)
  <2>1. /\ pc[t] = "write" /\ Goto(t, "write") /\ open' = t
        /\ UNCHANGED locks /\ UNCHANGED <<soft_lock, sendbuf>>
    BY <1>7 DEF WritePart, Step
  <2> QED
    BY <2>1, InsideInv DEF TypeOK, locks, SoftLockByCall, BufferByCall, WireByCall
<1>8. CASE WriteEnd(t)
  <2>1. /\ pc[t] = "write" /\ Goto(t, "release") /\ open' = None
        /\ UNCHANGED locks /\ UNCHANGED <<soft_lock, sendbuf>>
    BY <1>8 DEF WriteEnd, Step
  <2> QED
    BY <2>1, InsideInv, LocksAssumption
       DEF TypeOK, locks, SoftLockByCall, BufferByCall, WireByCall
<1>9. CASE ReleaseTx(t)
  <2>1. /\ pc[t] = "release" /\ Goto(t, "give") /\ soft_lock' = FALSE
        /\ UNCHANGED locks /\ UNCHANGED <<sendbuf, open>>
    BY <1>9 DEF ReleaseTx, Step
  <2> QED
    BY <2>1, <1>2, InsideInv DEF TypeOK, locks, SoftLockByCall, BufferByCall, WireByCall
<1>10. CASE Give(t)
  <2>1. /\ pc[t] = "give" /\ Goto(t, Home(t)) /\ GiveMutex(t)
        /\ UNCHANGED <<soft_lock, sendbuf, open>>
    BY <1>10 DEF Give, Step, frame
  <2>2. Home(t) = IF t = "tf" THEN "callbacks" ELSE IF t = "mqtt" THEN "handler" ELSE "delay"
    BY DEF Home, Tasks
  <2>3. /\ pc' \in [Tasks -> Locations] /\ pc'[t] = Home(t)
        /\ \A u \in Tasks \ {t} : pc'[u] = pc[u]
    BY <2>1, <2>2, StepTo DEF Locations
  <2>4. MutexCountsSections' /\ TypeOK'
    BY <2>1, <2>2, <2>3, <1>2, LocksAssumption
       DEF TypeOK, GiveMutex, MutexCountsSections, Holds, Tasks
  <2>5. SoftLockByCall' /\ BufferByCall' /\ WireByCall'
    BY <2>1, <2>2, <2>3 DEF SoftLockByCall, BufferByCall, WireByCall
  <2> QED
    BY <2>4, <2>5
<1> QED
  BY <1>3, <1>4, <1>5, <1>6, <1>7, <1>8, <1>9, <1>10 DEF InCall

-----------------------------------------------------------------------------
\* The steps of the tasks outside their calls.
Outside ==
  \/ UartRead \/ LockForCallbacks \/ StartPublish \/ Publish \/ Respond
  \/ UnlockAfterCallbacks
  \/ HeartbeatDue
  \/ MqttBusy \/ MqttIdle \/ MqttData \/ OnMqttCommand \/ MqttReturn

\* What the tasks do between their sections keeps the invariant.
LEMMA OutsideInv ==
  ASSUME LocksInv, Outside
  PROVE  LocksInv'
<1> USE DEF LocksInv
<1>1. PICK t \in Tasks, to \in Locations \ Inside : Goto(t, to) /\ pc[t] \notin Inside
  BY DEF Outside, UartRead, LockForCallbacks, StartPublish, Publish, Respond,
         UnlockAfterCallbacks, HeartbeatDue, MqttBusy, MqttIdle, MqttData,
         OnMqttCommand, MqttReturn, Step, Tasks, Locations, Inside
<1>2. /\ pc' \in [Tasks -> Locations] /\ pc'[t] = to
      /\ \A u \in Tasks \ {t} : pc'[u] = pc[u]
  BY <1>1, StepTo
<1>3. UNCHANGED <<soft_lock, sendbuf, open>>
  BY DEF Outside, UartRead, LockForCallbacks, StartPublish, Publish, Respond,
         UnlockAfterCallbacks, HeartbeatDue, MqttBusy, MqttIdle, MqttData,
         OnMqttCommand, MqttReturn, frame
<1>4. SoftLockByCall' /\ BufferByCall' /\ WireByCall'
  BY <1>1, <1>2, <1>3
     DEF SoftLockByCall, BufferByCall, WireByCall, Claimed, Composed, Inside
<1>5. MutexCountsSections' /\ TypeOK'
  <2> USE LocksAssumption DEF MutexCountsSections, TypeOK, Holds, Inside, Tasks
  <2>1. CASE LockForCallbacks
    BY <2>1, <1>2, <1>3 DEF LockForCallbacks, Step, Goto, TakeMutex
  <2>2. CASE UnlockAfterCallbacks
    BY <2>2, <1>2, <1>3 DEF UnlockAfterCallbacks, Step, Goto, GiveMutex
  <2>3. CASE UartRead \/ StartPublish \/ Publish \/ Respond
    BY <2>3, <1>2, <1>3
       DEF UartRead, StartPublish, Publish, Respond, Step, Goto, locks
  <2>4. CASE HeartbeatDue \/ OnMqttCommand
    BY <2>4, <1>2, <1>3 DEF HeartbeatDue, OnMqttCommand, Step, Goto, locks
  <2>5. CASE MqttBusy \/ MqttIdle \/ MqttData \/ MqttReturn
    BY <2>5, <1>2, <1>3 DEF MqttBusy, MqttIdle, MqttData, MqttReturn, Step, Goto
  <2> QED
    BY <2>1, <2>2, <2>3, <2>4, <2>5 DEF Outside
<1> QED
  BY <1>4, <1>5

\* Every step keeps the invariant.
LEMMA LocksNext == LocksInv /\ [Next]_vars => LocksInv'
<1> SUFFICES ASSUME LocksInv, [Next]_vars PROVE LocksInv'
  OBVIOUS
<1>1. CASE \E t \in Tasks : Take(t) \/ InCall(t)
  BY <1>1, TakeInv, InCallInv
<1>2. CASE Outside
  BY <1>2, OutsideInv
<1>3. CASE UNCHANGED vars
  BY <1>3 DEF vars, LocksInv, TypeOK, MutexCountsSections, Holds, SoftLockByCall,
              BufferByCall, WireByCall
<1> QED
  BY <1>1, <1>2, <1>3 DEF Next, Outside

-----------------------------------------------------------------------------
\* The invariant holds in every reachable state.
THEOREM LocksInvariant == Spec => []LocksInv
BY LocksInit, LocksNext, PTL DEF Spec

\* The tasks, the locks and the buffer keep their types.
THEOREM LocksTyped == Spec => []TypeOK
<1>1. LocksInv => TypeOK
  BY DEF LocksInv
<1> QED
  BY <1>1, LocksInvariant, PTL

\* tf_mutex counts the open sections of its owner, and nobody else has any.
THEOREM MutexSound == Spec => []MutexCountsSections
<1>1. LocksInv => MutexCountsSections
  BY DEF LocksInv
<1> QED
  BY <1>1, LocksInvariant, PTL

\* With the mutex around every call, TF_ClaimTx never refuses a frame.
THEOREM NeverRefused == Spec => []SoftLockNeverRefuses
<1>1. LocksInv => SoftLockNeverRefuses
  <2> SUFFICES ASSUME LocksInv, NEW t \in Tasks, pc[t] = "claim", soft_lock
               PROVE  FALSE
    BY DEF SoftLockNeverRefuses, LocksInv, TypeOK
  <2>1. PICK u \in Tasks : pc[u] \in Claimed
    BY DEF LocksInv, SoftLockByCall
  <2>2. pc[t] \in Inside /\ pc[u] \in Inside /\ t # u
    BY <2>1 DEF Inside, Claimed
  <2> QED
    BY <2>2, OneInside DEF LocksInv
<1> QED
  BY <1>1, LocksInvariant, PTL

\* No task ever writes another's frame, or into another's frame.
THEOREM NoMixing == Spec => []FramesNotMixed
<1>1. LocksInv => FramesNotMixed
  <2> SUFFICES ASSUME LocksInv, NEW t \in Tasks, pc[t] = "write"
               PROVE  sendbuf = t /\ open \in {None, t}
    BY DEF FramesNotMixed
  <2>1. sendbuf = t
    BY DEF LocksInv, BufferByCall, Composed
  <2>2. \A u \in Tasks \ {t} : open # u
    BY OneInside DEF LocksInv, WireByCall, Inside
  <2> QED
    BY <2>1, <2>2 DEF LocksInv, TypeOK
<1> QED
  BY <1>1, LocksInvariant, PTL
=============================================================================
