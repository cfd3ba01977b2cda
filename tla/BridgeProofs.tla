---------------------------- MODULE BridgeProofs ----------------------------
(***************************************************************************)
(* Theorems on Bridge, for every number of queries, slots and payloads.    *)
(***************************************************************************)
EXTENDS Bridge, FiniteSetTheorems, SequenceTheorems, WellFoundedInduction, TLAPS

\* MQTT comes last, and nothing waits for an answer before the protocol task
\* is there to ask.
StartedInOrder ==
  /\ s_connected \/ subscribed \/ handler # "idle" => boot = 5
  /\ \A q \in Queries : status[q] = "pending" => boot >= 4
  /\ outbox # <<>> => boot >= 1

\* Only a command is reported on by name, and a report on the connection says
\* what the flag says.
ReportsFit ==
  outbox # <<>> =>
    /\ outbox[1].about \in Cmds => outbox[1].says \notin ConnectionReports
    /\ outbox[1].says \in ConnectionReports =>
         (outbox[1].says = "connected" <=> connected)

Waiting(c) == IF outbox # <<>> /\ outbox[1].about = c THEN 1 ELSE 0

\* OneReport, counted without sets.
ReportsCounted ==
  \A c \in Cmds :
    Len(reports[c]) + Waiting(c) = IF status[c] \in {"answered", "timeout"} THEN 1 ELSE 0

ConnectionAnnounced ==
  (outbox = <<>> \/ outbox[1].says \notin ConnectionReports) =>
    refused \/ (connected <=> told = "connected")

BridgeInv ==
  /\ TypeOK
  /\ StartedInOrder
  /\ ConfiguredInTime
  /\ ReportsFit
  /\ ReportsCounted
  /\ ConnectionAnnounced

-----------------------------------------------------------------------------
\* A sequence of one.
LEMMA OneElement ==
  ASSUME NEW S, NEW s \in Seq(S), s # <<>>, Len(s) <= 1
  PROVE  Len(s) = 1 /\ s[1] \in S /\ Head(s) = s[1] /\ Tail(s) = <<>>
<1>1. Len(s) = 1
  <2>1. Len(s) \in Nat \ {0}
    BY EmptySeq
  <2> QED
    BY <2>1
<1>2. s[1] \in S /\ Head(s) = s[1]
  BY <1>1, ElementOfSeq
<1>3. Tail(s) \in Seq(S) /\ Len(Tail(s)) = 0
  BY <1>1, HeadTailProperties
<1>4. Tail(s) = <<>>
  BY <1>3, EmptySeq
<1> QED
  BY <1>1, <1>2, <1>4

\* The steps of app_main by their number.
LEMMA BootSteps ==
  ASSUME boot \in 0 .. 5
  PROVE  /\ Done("transport") <=> boot >= 1
         /\ Done("config") <=> boot >= 2
         /\ Done("listener") <=> boot >= 3
         /\ Done("task") <=> boot >= 4
         /\ Done("mqtt") <=> boot >= 5
         /\ Len(BootOrder) = 5
BY DEF Done, BootOrder

\* A message of the outbox, and the outbox it is alone in.
LEMMA OneMessage ==
  ASSUME NEW says \in Reports, NEW about \in Queries \cup {"board"}, Report(says, about)
  PROVE  /\ outbox' \in Seq([says : Reports, about : Queries \cup {"board"}])
         /\ Len(outbox') = 1
         /\ outbox' # <<>>
         /\ outbox'[1].says = says /\ outbox'[1].about = about
BY DEF Report

LEMMA BridgeInit == Init => BridgeInv
<1> SUFFICES ASSUME Init PROVE BridgeInv
  OBVIOUS
<1> USE DEF Init
<1>1. TypeOK
  <2>1. boot \in 0 .. Len(BootOrder)
    BY DEF BootOrder
  <2>2. Link!PromiseTypeOK
    BY DEF Link!Init, Link!PromiseTypeOK
  <2>3. outbox \in Seq([says : Reports, about : Queries \cup {"board"}]) /\ Len(outbox) <= 1
    OBVIOUS
  <2>4. reports \in [Queries -> Seq(Fates)] /\ handler \in HandlerStates
    BY DEF HandlerStates
  <2> QED
    BY <2>1, <2>2, <2>3, <2>4 DEF TypeOK, ConnectionReports
<1>2. StartedInOrder
  BY DEF StartedInOrder, Link!Init
<1>3. ConfiguredInTime /\ ReportsFit /\ ConnectionAnnounced
  BY DEF ConfiguredInTime, ReportsFit, ConnectionAnnounced
<1>4. ReportsCounted
  BY BridgeAssumption DEF ReportsCounted, Waiting, Link!Init
<1> QED
  BY <1>1, <1>2, <1>3, <1>4 DEF BridgeInv

-----------------------------------------------------------------------------
\* What proto_config is used for comes after it was set.
LEMMA ConfigSet ==
  ASSUME BridgeInv, boot >= 2, UsesConfig
  PROVE  unset' = FALSE
BY BootSteps DEF BridgeInv, TypeOK, ConfiguredInTime, UsesConfig, BootOrder

\* The first report leaves the outbox empty.
LEMMA ReportedInv ==
  ASSUME BridgeInv, outbox # <<>>, NEW fate \in Fates, Reported(fate),
         UNCHANGED <<boot, mqttVars, connected, status, unset>>
  PROVE  BridgeInv'
<1> DEFINE r == outbox[1]
<1> USE DEF mqttVars
<1>1. /\ Head(outbox) = r /\ outbox' = <<>>
      /\ r \in [says : Reports, about : Queries \cup {"board"}]
  <2> DEFINE Message == [says : Reports, about : Queries \cup {"board"}]
  <2>1. outbox \in Seq(Message) /\ Len(outbox) <= 1
    BY DEF BridgeInv, TypeOK
  <2>2. outbox' = Tail(outbox)
    BY DEF Reported
  <2> HIDE DEF Message
  <2>3. r \in Message /\ Head(outbox) = r /\ Tail(outbox) = <<>>
    BY <2>1, OneElement
  <2> QED
    BY <2>2, <2>3 DEF Message
<1>2. /\ r.about \in Cmds => /\ reports' = [reports EXCEPT ![r.about] = Append(@, fate)]
                             /\ UNCHANGED <<refused, told>>
      /\ r.about \notin Cmds => UNCHANGED reports
      /\ r.says \in ConnectionReports =>
           /\ refused' = (fate # "published")
           /\ told' = IF fate = "published" THEN r.says ELSE told
      /\ r.says \notin ConnectionReports => UNCHANGED <<refused, told>>
  BY <1>1 DEF Reported, BridgeInv, ReportsFit
<1>3. TypeOK'
  <2>1. reports' \in [Queries -> Seq(Fates)]
    <3>1. reports \in [Queries -> Seq(Fates)]
      BY DEF BridgeInv, TypeOK
    <3>2. CASE r.about \in Cmds
      <4>1. r.about \in Queries
        BY <3>2, BridgeAssumption
      <4>2. Append(reports[r.about], fate) \in Seq(Fates)
        BY <3>1, <4>1, AppendProperties
      <4> QED
        BY <1>2, <3>1, <3>2, <4>1, <4>2
    <3>3. CASE r.about \notin Cmds
      BY <1>2, <3>1, <3>3
    <3> QED
      BY <3>2, <3>3
  <2>2. told' \in ConnectionReports /\ refused' \in BOOLEAN
    BY <1>1, <1>2 DEF BridgeInv, TypeOK
  <2>3. tested' = FALSE
    BY DEF Reported
  <2>4. Link!PromiseTypeOK'
    BY DEF BridgeInv, TypeOK, Link!PromiseTypeOK
  <2>5. outbox' \in Seq([says : Reports, about : Queries \cup {"board"}]) /\ Len(outbox') <= 1
    BY <1>1
  <2>6. /\ boot' \in 0 .. Len(BootOrder)
        /\ s_connected' \in BOOLEAN /\ subscribed' \in BOOLEAN
        /\ connected' \in BOOLEAN /\ unset' \in BOOLEAN
        /\ handler' \in HandlerStates
    BY DEF BridgeInv, TypeOK
  <2> QED
    BY <2>1, <2>2, <2>3, <2>4, <2>5, <2>6 DEF TypeOK
<1>4. StartedInOrder' /\ ConfiguredInTime' /\ ReportsFit'
  BY <1>1 DEF BridgeInv, StartedInOrder, ConfiguredInTime, ReportsFit
<1>5. ReportsCounted'
  <2> SUFFICES ASSUME NEW c \in Cmds
               PROVE  Len(reports'[c]) = Len(reports[c]) + Waiting(c)
    <3>1. \A c \in Cmds : Len(reports'[c]) \in Nat /\ Waiting(c)' = 0 /\ status'[c] = status[c]
      BY <1>1, <1>3, BridgeAssumption DEF TypeOK, Waiting
    <3> QED
      BY <3>1 DEF BridgeInv, ReportsCounted
  <2>1. c \in Queries /\ reports[c] \in Seq(Fates) /\ Len(reports[c]) \in Nat
    BY BridgeAssumption DEF BridgeInv, TypeOK
  <2>2. CASE r.about = c
    BY <1>2, <2>1, <2>2 DEF Waiting, BridgeInv, TypeOK
  <2>3. CASE r.about # c
    BY <1>2, <2>1, <2>3 DEF Waiting, BridgeInv, TypeOK
  <2> QED
    BY <2>2, <2>3
<1>6. ConnectionAnnounced'
  <2>1. CASE r.says \in ConnectionReports
    <3>1. refused' \/ (connected' <=> told' = "connected")
      BY <1>2, <2>1 DEF BridgeInv, ReportsFit
    <3> QED
      BY <3>1 DEF ConnectionAnnounced
  <2>2. CASE r.says \notin ConnectionReports
    BY <1>2, <2>2 DEF BridgeInv, ConnectionAnnounced
  <2> QED
    BY <2>1, <2>2
<1> QED
  BY <1>3, <1>4, <1>5, <1>6 DEF BridgeInv

\* A callback that concludes a query with at most one report.
LEMMA ConclusionInv ==
  ASSUME BridgeInv, TfTaskIdle, UsesConfig,
         NEW q \in Queries, status[q] = "pending",
         NEW how \in {"answered", "discarded", "timeout"},
         status' = [status EXCEPT ![q] = how],
         UNCHANGED <<boot, mqttVars, told, refused, reports, tested>>,
         connected' \in BOOLEAN,
         \/ outbox' = <<>>
         \/ \E says \in Reports : Report(says, q),
         q \in Cmds =>
           /\ UNCHANGED connected
           /\ outbox' = <<>> <=> how = "discarded"
           /\ outbox' # <<>> => outbox'[1].says \notin ConnectionReports,
         q \notin Cmds =>
           /\ how # "discarded"
           /\ IF connected' = connected
              THEN outbox' = <<>>
              ELSE Report(IF connected' THEN "connected" ELSE "disconnected", q)
  PROVE  BridgeInv'
<1> USE DEF mqttVars
<1>1. outbox = <<>> /\ boot >= 4 /\ unset' = FALSE /\ unset = FALSE
  <2>1. outbox = <<>> /\ boot >= 4 /\ boot \in 0 .. 5
    BY DEF TfTaskIdle, BridgeInv, StartedInOrder, TypeOK, BootOrder
  <2>2. unset' = FALSE
    <3>1. boot >= 2
      BY <2>1
    <3> QED
      BY <3>1, ConfigSet, Zenon
  <2> QED
    BY <2>1, <2>2 DEF BridgeInv, TypeOK, ConfiguredInTime
<1>2. outbox' # <<>> => /\ outbox' \in Seq([says : Reports, about : Queries \cup {"board"}])
                        /\ Len(outbox') = 1 /\ outbox'[1].about = q
  BY OneMessage
<1>3. TypeOK'
  <2>1. outbox' \in Seq([says : Reports, about : Queries \cup {"board"}]) /\ Len(outbox') <= 1
    <3>1. CASE outbox' = <<>>
      BY <3>1
    <3>2. CASE outbox' # <<>>
      <4>1. Len(outbox') <= 1
        <5>1. Len(outbox') = 1
          BY <1>2, <3>2, Zenon
        <5> QED
          BY <5>1
      <4> QED
        BY <1>2, <3>2, <4>1, Zenon
    <3> QED
      BY <3>1, <3>2
  <2>2. Link!PromiseTypeOK'
    BY DEF BridgeInv, TypeOK, Link!PromiseTypeOK, Link!Outcomes
  <2>3. ~tested'
    BY <1>1 DEF BridgeInv, TypeOK
  <2> QED
    BY <1>1, <2>1, <2>2, <2>3 DEF BridgeInv, TypeOK
<1>4. StartedInOrder' /\ ConfiguredInTime'
  BY <1>1 DEF BridgeInv, StartedInOrder, ConfiguredInTime, TypeOK, Link!PromiseTypeOK
<1>5. ReportsFit' /\ ConnectionAnnounced'
  <2>1. CASE q \in Cmds
    BY <1>1, <1>2, <2>1 DEF BridgeInv, ReportsFit, ConnectionAnnounced
  <2>2. CASE q \notin Cmds
    <3>1. CASE connected' = connected
      BY <1>1, <2>2, <3>1 DEF BridgeInv, ReportsFit, ConnectionAnnounced
    <3>2. CASE connected' # connected
      <4> DEFINE says == IF connected' THEN "connected" ELSE "disconnected"
      <4>1. outbox' # <<>> /\ outbox'[1].says = says /\ outbox'[1].about = q
        <5>1. says \in Reports
          BY DEF Reports, ConnectionReports
        <5>2. Report(says, q)
          BY <2>2, <3>2, Zenon
        <5> HIDE DEF says
        <5> QED
          BY <5>1, <5>2, OneMessage, Zenon
      <4>2. says \in ConnectionReports /\ (says = "connected" <=> connected')
        BY DEF ConnectionReports
      <4> QED
        BY <2>2, <4>1, <4>2 DEF ReportsFit, ConnectionAnnounced
    <3> QED
      BY <3>1, <3>2
  <2> QED
    BY <2>1, <2>2
<1>6. ReportsCounted'
  <2> SUFFICES ASSUME NEW c \in Cmds
               PROVE  Len(reports'[c]) + Waiting(c)' =
                        IF status'[c] \in {"answered", "timeout"} THEN 1 ELSE 0
    BY DEF ReportsCounted
  <2>1. /\ c \in Queries /\ Len(reports[c]) \in Nat
        /\ reports'[c] = reports[c] /\ Waiting(c) = 0
    BY <1>1, BridgeAssumption DEF BridgeInv, TypeOK, Waiting
  <2>2. CASE c = q
    <3>1. Len(reports[c]) = 0 /\ status'[c] = how
      BY <2>1, <2>2 DEF BridgeInv, ReportsCounted, TypeOK, Link!PromiseTypeOK
    <3>2. Waiting(c)' = IF outbox' # <<>> THEN 1 ELSE 0
      BY <1>2, <2>2 DEF Waiting
    <3> QED
      BY <2>1, <2>2, <3>1, <3>2
  <2>3. CASE c # q
    <3>1. Waiting(c)' = 0 /\ status'[c] = status[c]
      BY <1>2, <2>1, <2>3 DEF Waiting, BridgeInv, TypeOK, Link!PromiseTypeOK
    <3> QED
      BY <2>1, <3>1 DEF BridgeInv, ReportsCounted
  <2> QED
    BY <2>2, <2>3
<1> QED
  BY <1>3, <1>4, <1>5, <1>6 DEF BridgeInv
-----------------------------------------------------------------------------
\* Steps that change neither a query, a report nor the flag.
LEMMA QuietInv ==
  ASSUME BridgeInv, UNCHANGED <<boot, boardVars, linkVars, taskVars>>,
         s_connected' \in BOOLEAN, subscribed' \in BOOLEAN, handler' \in HandlerStates,
         s_connected' \/ subscribed' \/ handler' # "idle" => boot = 5,
         unset' = FALSE
  PROVE  BridgeInv'
<1> USE DEF boardVars, linkVars, taskVars
<1>1. TypeOK'
  BY DEF BridgeInv, TypeOK, Link!PromiseTypeOK
<1>2. StartedInOrder' /\ ConfiguredInTime'
  BY DEF BridgeInv, StartedInOrder, ConfiguredInTime
<1>3. ReportsFit' /\ ReportsCounted' /\ ConnectionAnnounced'
  BY DEF BridgeInv, ReportsFit, ReportsCounted, Waiting, ConnectionAnnounced
<1> QED
  BY <1>1, <1>2, <1>3 DEF BridgeInv

\* A query is accepted.
LEMMA QueryInv ==
  ASSUME BridgeInv, NEW q \in Queries, boot >= 4, Query(q),
         UNCHANGED <<boot, s_connected, subscribed, boardVars, taskVars>>,
         handler' \in {handler, "idle"}
  PROVE  BridgeInv'
<1> USE DEF boardVars, taskVars
<1>1. /\ outbox = <<>> /\ outbox' = <<>>
      /\ status' = [status EXCEPT ![q] = "pending"]
      /\ reports' = [reports EXCEPT ![q] = <<>>]
  BY DEF Query, TfTaskIdle, Link!Accept
<1>2. unset' = FALSE
  <2>1. boot >= 2 /\ UsesConfig
    BY DEF Query, BridgeInv, TypeOK
  <2> QED
    BY <2>1, ConfigSet, Zenon
<1>3. TypeOK'
  <2>1. Link!PromiseTypeOK' /\ reports' \in [Queries -> Seq(Fates)]
    BY <1>1 DEF BridgeInv, TypeOK, Link!PromiseTypeOK, Link!Outcomes
  <2>2. /\ boot' \in 0 .. Len(BootOrder)
        /\ s_connected' \in BOOLEAN /\ subscribed' \in BOOLEAN
        /\ connected' \in BOOLEAN /\ tested' = FALSE
        /\ told' \in ConnectionReports /\ refused' \in BOOLEAN
        /\ handler' \in HandlerStates
    BY <1>1 DEF BridgeInv, TypeOK, HandlerStates
  <2>3. outbox' \in Seq([says : Reports, about : Queries \cup {"board"}]) /\ Len(outbox') <= 1
    BY <1>1
  <2> QED
    BY <1>1, <1>2, <2>1, <2>2, <2>3 DEF TypeOK
<1>4. StartedInOrder' /\ ConfiguredInTime'
  BY <1>1, <1>2 DEF BridgeInv, StartedInOrder, ConfiguredInTime, TypeOK, Link!PromiseTypeOK
<1>5. ReportsFit' /\ ConnectionAnnounced'
  BY <1>1 DEF BridgeInv, ReportsFit, ConnectionAnnounced
<1>6. ReportsCounted'
  <2> SUFFICES ASSUME NEW c \in Cmds
               PROVE  Len(reports'[c]) = IF status'[c] \in {"answered", "timeout"} THEN 1 ELSE 0
    BY <1>1, BridgeAssumption, <1>3 DEF ReportsCounted, Waiting, TypeOK
  <2>1. Len(reports[c]) = IF status[c] \in {"answered", "timeout"} THEN 1 ELSE 0
    BY <1>1, BridgeAssumption DEF BridgeInv, ReportsCounted, Waiting, TypeOK
  <2> QED
    BY <1>1, <2>1, BridgeAssumption DEF BridgeInv, TypeOK, Link!PromiseTypeOK
<1> QED
  BY <1>3, <1>4, <1>5, <1>6 DEF BridgeInv

\* Or refused, which is noticed by nobody.
LEMMA QueryRefusedInv ==
  ASSUME BridgeInv, boot >= 4, QueryRefused,
         UNCHANGED <<boot, s_connected, subscribed, boardVars, taskVars>>,
         handler' \in {handler, "idle"}
  PROVE  BridgeInv'
<1>1. boot >= 2 /\ UsesConfig
  BY DEF QueryRefused, BridgeInv, TypeOK
<1>2. unset' = FALSE
  BY <1>1, ConfigSet, Zenon
<1>3. /\ s_connected' \in BOOLEAN /\ subscribed' \in BOOLEAN /\ handler' \in HandlerStates
      /\ s_connected' \/ subscribed' \/ handler' # "idle" => boot = 5
  BY DEF BridgeInv, TypeOK, StartedInOrder, HandlerStates
<1>4. UNCHANGED <<boot, boardVars, linkVars, taskVars>>
  BY DEF QueryRefused
<1> QED
  BY <1>2, <1>3, <1>4, QuietInv, Zenon
-----------------------------------------------------------------------------
\* The callbacks.  The outcome decides whether there is a report.
LEMMA CmdResponseInv ==
  ASSUME BridgeInv, NEW c \in Cmds, CmdResponse(c)
  PROVE  BridgeInv'
<1>1. PICK how \in {"answered", "discarded"} : status' = [status EXCEPT ![c] = how]
  BY DEF CmdResponse, Link!Answered
<1>2. /\ TfTaskIdle /\ UsesConfig /\ outbox = <<>>
      /\ c \in Queries /\ status[c] = "pending" /\ status'[c] = how
      /\ UNCHANGED <<boot, mqttVars, boardVars, reports, tested>>
  BY <1>1, BridgeAssumption
     DEF CmdResponse, TfTaskIdle, Link!Answered, Link!Pending, BridgeInv, TypeOK, Link!PromiseTypeOK
<1>3. CASE how = "answered"
  <2>1. PICK resp \in Responses : OnCmdResponse(c, resp)
    BY <1>2, <1>3 DEF CmdResponse
  <2> DEFINE says == IF ~resp.ok THEN "cmd_err" ELSE IF resp.status THEN "status" ELSE "cmd_ok"
  <2>2. says \in Reports /\ says \notin ConnectionReports
    BY DEF Reports, ConnectionReports
  <2>3. Report(says, c)
    BY <2>1 DEF OnCmdResponse
  <2> HIDE DEF says
  <2>4. outbox' # <<>> /\ outbox'[1].says = says
    BY <1>2, <2>2, <2>3, OneMessage
  <2> QED
    BY <1>1, <1>2, <1>3, <2>2, <2>3, <2>4, ConclusionInv, BridgeAssumption
       DEF boardVars, BridgeInv, TypeOK
<1>4. CASE how = "discarded"
  <2>1. outbox' = <<>>
    BY <1>2, <1>4 DEF CmdResponse
  <2> QED
    BY <1>1, <1>2, <1>4, <2>1, ConclusionInv, BridgeAssumption
       DEF boardVars, BridgeInv, TypeOK
<1> QED
  BY <1>3, <1>4

LEMMA CmdTimeoutInv ==
  ASSUME BridgeInv, NEW c \in Cmds, CmdTimeout(c)
  PROVE  BridgeInv'
<1>1. /\ TfTaskIdle /\ UsesConfig /\ Report("cmd_timeout", c)
      /\ c \in Queries /\ status[c] = "pending"
      /\ UNCHANGED <<boot, mqttVars, boardVars, reports, tested>>
  BY BridgeAssumption DEF CmdTimeout, Link!TimedOut, Link!Pending
<1>2. status' = [status EXCEPT ![c] = "timeout"]
  BY <1>1 DEF CmdTimeout, Link!TimedOut, BridgeInv, TypeOK, Link!PromiseTypeOK
<1>3. "cmd_timeout" \in Reports /\ "cmd_timeout" \notin ConnectionReports
  BY DEF Reports, ConnectionReports
<1>4. outbox' # <<>> /\ outbox'[1].says = "cmd_timeout"
  BY <1>1, <1>3, OneMessage
<1> QED
  BY <1>1, <1>2, <1>3, <1>4, ConclusionInv, BridgeAssumption DEF boardVars, BridgeInv, TypeOK

\* An answer to a heartbeat sets the flag, a time-out clears it; whoever
\* changes it reports it.
LEMMA HeartbeatResponseInv ==
  ASSUME BridgeInv, NEW h \in Heartbeats, HeartbeatResponse(h)
  PROVE  BridgeInv'
<1>1. PICK how \in {"answered", "discarded"} : status' = [status EXCEPT ![h] = how]
  BY DEF HeartbeatResponse, Link!Answered
<1>2. /\ TfTaskIdle /\ UsesConfig /\ outbox = <<>>
      /\ h \in Queries /\ h \notin Cmds /\ status[h] = "pending" /\ how = "answered"
      /\ UNCHANGED <<boot, mqttVars, told, refused, reports, tested>>
  BY <1>1, BridgeAssumption
     DEF HeartbeatResponse, TfTaskIdle, Link!Answered, Link!Pending, BridgeInv, TypeOK, Link!PromiseTypeOK
<1>3. connected' = TRUE /\ connected \in BOOLEAN
  BY DEF HeartbeatResponse, BridgeInv, TypeOK
<1>4. CASE connected = TRUE
  <2>1. outbox' = <<>>
    BY <1>2, <1>4 DEF HeartbeatResponse
  <2> QED
    BY <1>1, <1>2, <1>3, <1>4, <2>1, ConclusionInv
<1>5. CASE connected = FALSE
  <2>1. Report("connected", h) /\ "connected" \in Reports
    BY <1>5 DEF HeartbeatResponse, Reports, ConnectionReports
  <2> QED
    BY <1>1, <1>2, <1>3, <1>5, <2>1, ConclusionInv
<1> QED
  BY <1>3, <1>4, <1>5

LEMMA HeartbeatTimeoutInv ==
  ASSUME BridgeInv, NEW h \in Heartbeats, HeartbeatTimeout(h)
  PROVE  BridgeInv'
<1>1. /\ TfTaskIdle /\ UsesConfig /\ outbox = <<>>
      /\ h \in Queries /\ h \notin Cmds /\ status[h] = "pending"
      /\ UNCHANGED <<boot, mqttVars, told, refused, reports, tested>>
  BY BridgeAssumption DEF HeartbeatTimeout, TfTaskIdle, Link!TimedOut, Link!Pending
<1>2. status' = [status EXCEPT ![h] = "timeout"]
  BY <1>1 DEF HeartbeatTimeout, Link!TimedOut, BridgeInv, TypeOK, Link!PromiseTypeOK
<1>3. connected' = FALSE /\ connected \in BOOLEAN
  BY DEF HeartbeatTimeout, OnHeartbeatTimeout, BridgeInv, TypeOK
<1>4. CASE connected = FALSE
  <2>1. outbox' = <<>>
    BY <1>1, <1>4 DEF HeartbeatTimeout, OnHeartbeatTimeout
  <2> QED
    BY <1>1, <1>2, <1>3, <1>4, <2>1, ConclusionInv
<1>5. CASE connected = TRUE
  <2>1. Report("disconnected", h) /\ "disconnected" \in Reports
    BY <1>5 DEF HeartbeatTimeout, OnHeartbeatTimeout, Reports, ConnectionReports
  <2> QED
    BY <1>1, <1>2, <1>3, <1>5, <2>1, ConclusionInv
<1> QED
  BY <1>3, <1>4, <1>5

\* An event is a report about the board.
LEMMA StateEventInv ==
  ASSUME BridgeInv, NEW full \in BOOLEAN, StateEvent(full)
  PROVE  BridgeInv'
<1> USE DEF mqttVars, boardVars, linkVars
<1>1. outbox = <<>> /\ unset = FALSE /\ boot \in 0 .. 5
  BY DEF StateEvent, TfTaskIdle, BridgeInv, ConfiguredInTime, TypeOK, BootOrder
<1>2. UNCHANGED <<boot, mqttVars, boardVars, linkVars, tested>>
  BY DEF StateEvent
<1>3. CASE Done("listener") /\ full
  <2>1. boot >= 3 /\ Done("config") /\ UsesConfig
    BY <1>1, <1>3, BootSteps DEF StateEvent
  <2>2. unset' = FALSE
    <3>1. boot >= 2
      BY <1>1, <2>1
    <3> QED
      BY <2>1, <3>1, ConfigSet, Zenon
  <2>3. Report("event", "board")
    BY <1>3, <2>1 DEF StateEvent
  <2>4. "event" \in Reports \ ConnectionReports /\ "board" \notin Cmds
    BY BridgeAssumption DEF Reports, ConnectionReports
  <2>5. /\ outbox' \in Seq([says : Reports, about : Queries \cup {"board"}])
        /\ Len(outbox') = 1 /\ outbox' # <<>>
        /\ outbox'[1].says = "event" /\ outbox'[1].about = "board"
    BY <2>3, <2>4, OneMessage
  <2>6. Len(outbox') <= 1
    BY <2>5
  <2>7. TypeOK'
    <3>1. /\ boot' \in 0 .. Len(BootOrder)
          /\ s_connected' \in BOOLEAN /\ subscribed' \in BOOLEAN
          /\ connected' \in BOOLEAN /\ tested' = FALSE
          /\ reports' \in [Queries -> Seq(Fates)] /\ Link!PromiseTypeOK'
          /\ handler' \in HandlerStates
          /\ told' \in ConnectionReports /\ refused' \in BOOLEAN
      BY <1>1, <1>2 DEF BridgeInv, TypeOK, Link!PromiseTypeOK
    <3> QED
      BY <2>2, <2>5, <2>6, <3>1 DEF TypeOK
  <2>8. StartedInOrder' /\ ConfiguredInTime'
    BY <1>1, <1>2, <2>1, <2>2 DEF BridgeInv, StartedInOrder, ConfiguredInTime
  <2>9. ReportsFit' /\ ReportsCounted' /\ ConnectionAnnounced'
    BY <1>1, <1>2, <2>4, <2>5
       DEF BridgeInv, ReportsFit, ReportsCounted, Waiting, ConnectionAnnounced
  <2> QED
    BY <2>7, <2>8, <2>9 DEF BridgeInv
<1>4. CASE ~(Done("listener") /\ full)
  <2>1. UNCHANGED <<boot, boardVars, linkVars, taskVars>> /\ unset' = FALSE
    BY <1>1, <1>2, <1>4 DEF StateEvent, taskVars
  <2>2. /\ s_connected' \in BOOLEAN /\ subscribed' \in BOOLEAN /\ handler' \in HandlerStates
        /\ s_connected' \/ subscribed' \/ handler' # "idle" => boot = 5
    BY <1>2 DEF BridgeInv, TypeOK, StartedInOrder
  <2> QED
    BY <2>1, <2>2, QuietInv, Zenon
<1> QED
  BY <1>3, <1>4
-----------------------------------------------------------------------------
\* One step of app_main; MQTT is up only after its last.
LEMMA BootInv ==
  ASSUME BridgeInv, Boot
  PROVE  BridgeInv'
<1> USE DEF mqttVars, boardVars, linkVars, taskVars
<1>1. /\ boot \in 0 .. 4 /\ boot' = boot + 1
      /\ UNCHANGED <<mqttVars, boardVars, linkVars, taskVars, unset>>
  BY BootSteps DEF Boot, BridgeInv, TypeOK, BootOrder
<1>2. TypeOK'
  BY <1>1 DEF BridgeInv, TypeOK, Link!PromiseTypeOK, BootOrder
<1>3. StartedInOrder' /\ ConfiguredInTime'
  BY <1>1 DEF BridgeInv, StartedInOrder, ConfiguredInTime
<1>4. ReportsFit' /\ ReportsCounted' /\ ConnectionAnnounced'
  BY <1>1 DEF BridgeInv, ReportsFit, ReportsCounted, Waiting, ConnectionAnnounced
<1> QED
  BY <1>2, <1>3, <1>4 DEF BridgeInv

\* A set of numbers has a least element.
LEMMA LeastElement ==
  ASSUME NEW S \in SUBSET Nat, S # {}
  PROVE  Min(S) \in S /\ \A y \in S : Min(S) <= y
<1>1. PICK x \in S : \A y \in S : <<y, x>> \notin OpToRel(<, Nat)
  BY WFMin, NatLessThanWellFounded, Zenon
<1>2. \A y \in S : x <= y
  <2> SUFFICES ASSUME NEW y \in S, y < x PROVE FALSE
    OBVIOUS
  <2>1. <<y, x>> \in OpToRel(<, Nat)
    BY Zenon DEF OpToRel
  <2> QED
    BY <1>1, <2>1
<1> QED
  BY <1>2 DEF Min

\* The commands there are.
LEMMA CommandsAre ==
  ASSUME NEW buf, NEW n
  PROVE  OnMqttCommand(buf, n).command \in {"status", "reset", "estop", "floor", "unknown"}
<1> DEFINE matched == {k \in DOMAIN Names : \E name \in Names[k] : Matches(buf, n, name)}
<1>1. DOMAIN Names = 1 .. 3
  BY DEF Names
<1>2. matched \in SUBSET Nat /\ matched \subseteq 1 .. 3
  BY <1>1
<1>3. CASE matched # {}
  <2>1. OnMqttCommand(buf, n) = [command |-> Commands[Min(matched)]]
    BY <1>3 DEF OnMqttCommand
  <2> HIDE DEF matched
  <2>2. Min(matched) \in 1 .. 3
    BY <1>2, <1>3, LeastElement
  <2>3. Commands[Min(matched)] \in {"status", "reset", "estop"}
    BY <2>2 DEF Commands
  <2> QED
    BY <2>1, <2>3
<1>4. CASE matched = {}
  <2>1. OnMqttCommand(buf, n) \in {[command |-> "floor", floor |-> Floor(buf)], Nothing}
    BY <1>4 DEF OnMqttCommand
  <2> QED
    BY <2>1 DEF Nothing
<1> QED
  BY <1>3, <1>4

LEMMA SendHeartbeatInv ==
  ASSUME BridgeInv, SendHeartbeat
  PROVE  BridgeInv'
<1>1. boot >= 4
  BY BootSteps DEF SendHeartbeat, BridgeInv, TypeOK, BootOrder
<1>2. UNCHANGED <<boot, s_connected, subscribed, boardVars, taskVars>> /\ handler' = handler
  BY DEF SendHeartbeat, mqttVars
<1>3. CASE \E h \in Heartbeats : Query(h)
  BY <1>1, <1>2, <1>3, QueryInv, BridgeAssumption
<1>4. CASE QueryRefused
  BY <1>1, <1>2, <1>4, QueryRefusedInv
<1> QED
  BY <1>3, <1>4 DEF SendHeartbeat

LEMMA MqttDataInv ==
  ASSUME BridgeInv, NEW payload \in Payloads, MqttData(payload)
  PROVE  BridgeInv'
<1>1. /\ boot = 5 /\ s_connected \in BOOLEAN /\ subscribed \in BOOLEAN /\ unset = FALSE
  BY DEF MqttData, BridgeInv, StartedInOrder, ConfiguredInTime, TypeOK
<1>2. UNCHANGED <<boot, s_connected, subscribed, boardVars, linkVars, taskVars, unset>>
  BY DEF MqttData
<1>3. handler' \in HandlerStates
  <2>1. OnMqttCommand(buffer', len').command \in HandlerStates \cup {"unknown"}
    BY CommandsAre DEF HandlerStates
  <2>2. handler' = IF OnMqttCommand(buffer', len').command = "unknown" THEN "idle"
                   ELSE OnMqttCommand(buffer', len').command
    BY DEF MqttData
  <2> QED
    BY <2>1, <2>2 DEF HandlerStates
<1> QED
  BY <1>1, <1>2, <1>3, QuietInv

LEMMA MqttSendInv ==
  ASSUME BridgeInv, MqttSend
  PROVE  BridgeInv'
<1>1. /\ boot = 5 /\ s_connected \in BOOLEAN /\ subscribed \in BOOLEAN /\ unset = FALSE
  BY DEF MqttSend, BridgeInv, StartedInOrder, ConfiguredInTime, TypeOK
<1>2. UNCHANGED <<boot, s_connected, subscribed, boardVars, taskVars>> /\ handler' = "idle"
  BY DEF MqttSend
<1>3. CASE \E c \in Cmds : Query(c)
  <2>1. boot >= 4
    BY <1>1
  <2> QED
    BY <1>2, <1>3, <2>1, QueryInv, BridgeAssumption
<1>4. CASE QueryRefused
  <2>1. boot >= 4
    BY <1>1
  <2> QED
    BY <1>2, <1>4, <2>1, QueryRefusedInv
<1>5. CASE UNCHANGED <<linkVars, unset>>
  BY <1>1, <1>2, <1>5, QuietInv DEF HandlerStates
<1> QED
  BY <1>3, <1>4, <1>5 DEF MqttSend

LEMMA BridgeNext == BridgeInv /\ [Next]_vars => BridgeInv'
<1> SUFFICES ASSUME BridgeInv, [Next]_vars
             PROVE  BridgeInv'
  OBVIOUS
<1>1. CASE Boot
  BY <1>1, BootInv
<1>2. CASE PublishTest
  <2>1. CASE s_connected
    <3>1. /\ outbox # <<>> /\ tested' = TRUE
          /\ UNCHANGED <<boot, mqttVars, boardVars, linkVars, outbox, unset>>
      BY <1>2, <2>1 DEF PublishTest, boardVars, linkVars
    <3> USE DEF mqttVars, boardVars, linkVars
    <3>2. TypeOK'
      BY <3>1 DEF BridgeInv, TypeOK, Link!PromiseTypeOK
    <3>3. StartedInOrder' /\ ConfiguredInTime' /\ ReportsFit' /\ ReportsCounted' /\ ConnectionAnnounced'
      BY <3>1 DEF BridgeInv, StartedInOrder, ConfiguredInTime, ReportsFit, ReportsCounted,
                  Waiting, ConnectionAnnounced
    <3> QED
      BY <3>2, <3>3 DEF BridgeInv
  <2>2. CASE ~s_connected
    BY <1>2, <2>2, ReportedInv DEF PublishTest, Fates
  <2> QED
    BY <2>1, <2>2
<1>3. CASE Publish
  <2>1. outbox # <<>>
    BY <1>3 DEF Publish, BridgeInv, TypeOK
  <2>2. PICK fate \in Fates : Reported(fate)
    BY <1>3 DEF Publish, Fates
  <2> QED
    BY <1>3, <2>1, <2>2, ReportedInv DEF Publish
<1>4. ASSUME NEW c \in Cmds, CmdResponse(c) \/ CmdTimeout(c)
      PROVE  BridgeInv'
  BY <1>4, CmdResponseInv, CmdTimeoutInv
<1>5. ASSUME NEW h \in Heartbeats, HeartbeatResponse(h) \/ HeartbeatTimeout(h)
      PROVE  BridgeInv'
  BY <1>5, HeartbeatResponseInv, HeartbeatTimeoutInv
<1>6. ASSUME NEW full \in BOOLEAN, StateEvent(full)
      PROVE  BridgeInv'
  BY <1>6, StateEventInv
<1>7. CASE SendHeartbeat
  BY <1>7, SendHeartbeatInv
<1>8. CASE MqttConnected \/ MqttDisconnected \/ UNCHANGED vars
  <2>1. UNCHANGED <<boot, boardVars, linkVars, taskVars, unset>>
    BY <1>8 DEF MqttConnected, MqttDisconnected, vars
  <2>2. /\ s_connected' \in BOOLEAN /\ subscribed' \in BOOLEAN /\ handler' \in HandlerStates
        /\ s_connected' \/ subscribed' \/ handler' # "idle" => boot = 5
    <3>1. /\ boot \in 0 .. 5 /\ s_connected \in BOOLEAN /\ subscribed \in BOOLEAN
          /\ handler \in HandlerStates
          /\ (s_connected \/ subscribed \/ handler # "idle" => boot = 5)
      BY DEF BridgeInv, TypeOK, StartedInOrder, BootOrder
    <3>2. CASE MqttConnected
      <4>1. boot = 5
        BY <3>1, <3>2, BootSteps DEF MqttConnected
      <4> QED
        BY <3>1, <3>2, <4>1 DEF MqttConnected
    <3>3. CASE MqttDisconnected
      BY <3>1, <3>3 DEF MqttDisconnected
    <3>4. CASE UNCHANGED vars
      BY <3>1, <3>4 DEF vars, mqttVars
    <3> QED
      BY <1>8, <3>2, <3>3, <3>4
  <2>3. unset' = FALSE
    BY <2>1 DEF BridgeInv, TypeOK, ConfiguredInTime
  <2> QED
    BY <2>1, <2>2, <2>3, QuietInv
<1>9. ASSUME NEW payload \in Payloads, MqttData(payload)
      PROVE  BridgeInv'
  BY <1>9, MqttDataInv
<1>10. CASE MqttSend
  BY <1>10, MqttSendInv
<1> QED
  BY <1>1, <1>2, <1>3, <1>4, <1>5, <1>6, <1>7, <1>8, <1>9, <1>10 DEF Next, TfTask, MqttTask

\* The inductive invariant holds in every reachable state.
THEOREM BridgeInvariant == Spec => []BridgeInv
<1> USE DEF Spec
<1> QED
  BY BridgeInit, BridgeNext, PTL

\* There is never more than one report to make, and one is tested before it is
\* published (mqtt_publish_event).
THEOREM BridgeTyped == Spec => []TypeOK
<1>1. BridgeInv => TypeOK
  BY DEF BridgeInv
<1> QED
  BY <1>1, BridgeInvariant, PTL

\* No callback and no time-out is read from proto_config before protocol_init
\* has copied it there.
THEOREM ConfigFirst == Spec => []ConfiguredInTime
<1>1. BridgeInv => ConfiguredInTime
  BY DEF BridgeInv
<1> QED
  BY <1>1, BridgeInvariant, PTL

\* Each command that was answered or timed out is reported exactly once
\* (on_cmd_response, on_cmd_timeout), however many are in flight.
THEOREM EachCommandReportedOnce == Spec => []OneReport
<1>1. BridgeInv => OneReport
  <2> SUFFICES ASSUME BridgeInv, NEW c \in Cmds
               PROVE  Cardinality(Reporting(c)) = Waiting(c)
    BY DEF OneReport, BridgeInv, ReportsCounted
  <2>1. CASE outbox = <<>>
    <3>1. Reporting(c) = {}
      BY <2>1 DEF Reporting
    <3> QED
      BY <2>1, <3>1, FS_EmptySet DEF Waiting
  <2>2. CASE outbox # <<>>
    <3>1. DOMAIN outbox = {1}
      <4>1. outbox \in Seq([says : Reports, about : Queries \cup {"board"}]) /\ Len(outbox) <= 1
        BY DEF BridgeInv, TypeOK
      <4>2. Len(outbox) = 1
        BY <2>2, <4>1, OneElement
      <4>3. DOMAIN outbox = 1 .. Len(outbox)
        BY <4>1, LenProperties
      <4> QED
        BY <4>2, <4>3
    <3>2. Reporting(c) = IF outbox[1].about = c THEN {1} ELSE {}
      BY <3>1 DEF Reporting
    <3> QED
      BY <2>2, <3>2, FS_EmptySet, FS_Singleton DEF Waiting
  <2> QED
    BY <2>1, <2>2
<1> QED
  BY <1>1, BridgeInvariant, PTL

\* Unless its last change could not be published, the last published report on
\* the connection agrees with max32655_connected.
THEOREM FlagIsReported == Spec => []BoardReported
<1>1. BridgeInv => BoardReported
  <2> SUFFICES ASSUME BridgeInv, ~(outbox = <<>> \/ outbox[1].says \notin ConnectionReports)
               PROVE  1 \in DOMAIN outbox
    BY DEF BridgeInv, ConnectionAnnounced, BoardReported
  <2>1. outbox \in Seq([says : Reports, about : Queries \cup {"board"}]) /\ outbox # <<>>
    BY DEF BridgeInv, TypeOK
  <2>2. Len(outbox) \in Nat \ {0} /\ DOMAIN outbox = 1 .. Len(outbox)
    BY <2>1, EmptySeq, LenProperties
  <2> QED
    BY <2>2
<1> QED
  BY <1>1, BridgeInvariant, PTL

-----------------------------------------------------------------------------
(* Which command runs: MaxComm_OnMqttCommand on the receive buffer.        *)

\* What is not a digit ends a number: what comes after it does not count.
LEMMA DigitsOfPrefix ==
  ASSUME NEW s \in Seq(STRING), NEW m \in 0 .. Len(s),
         m < Len(s) => s[m + 1] \notin DOMAIN Digit
  PROVE  Digits(SubSeq(s, 1, m)) = Digits(s)
<1> DEFINE t == SubSeq(s, 1, m)
           StopS == {i \in DOMAIN s : s[i] \notin DOMAIN Digit}
           StopT == {i \in DOMAIN t : t[i] \notin DOMAIN Digit}
<1>1. /\ t \in Seq(STRING) /\ Len(t) = m
      /\ DOMAIN t = 1 .. m /\ DOMAIN s = 1 .. Len(s)
      /\ \A i \in 1 .. m : t[i] = s[i]
  BY SubSeqProperties, LenProperties
<1>2. Digits(t) = IF StopT = {} THEN t ELSE SubSeq(t, 1, Min(StopT) - 1)
  BY DEF Digits
<1>3. Digits(s) = IF StopS = {} THEN s ELSE SubSeq(s, 1, Min(StopS) - 1)
  BY DEF Digits
<1>4. StopT = {i \in StopS : i <= m}
  BY <1>1
<1>5. StopS \in SUBSET Nat /\ StopT \in SUBSET Nat
  BY <1>1
<1>6. ASSUME m < Len(s)
      PROVE  m + 1 \in StopS
  BY <1>1, <1>6
<1>7. StopT \subseteq 1 .. m
  BY <1>1
<1> HIDE DEF StopS, StopT
<1>8. CASE m = Len(s)
  <2>1. t = s
    BY <1>1, <1>8
  <2> QED
    BY <2>1
<1>9. CASE m < Len(s) /\ StopT = {}
  <2>1. m + 1 \in StopS /\ \A i \in StopS : m + 1 <= i
    BY <1>4, <1>5, <1>6, <1>9
  <2>2. PICK a \in StopS : a = Min(StopS) /\ \A i \in StopS : a <= i
    BY <1>5, <2>1, LeastElement
  <2>3. a - 1 = m
    BY <1>5, <2>1, <2>2
  <2> QED
    BY <1>2, <1>3, <1>9, <2>1, <2>2, <2>3
<1>10. CASE StopT # {}
  <2>1. StopS # {}
    BY <1>4, <1>10
  <2>2. PICK a \in StopS : a = Min(StopS) /\ \A i \in StopS : a <= i
    BY <1>5, <2>1, LeastElement
  <2>3. PICK b \in StopT : b = Min(StopT) /\ \A i \in StopT : b <= i
    BY <1>5, <1>10, LeastElement
  <2>4. a \in Nat /\ b \in 1 .. m
    BY <1>5, <1>7
  <2>5. a = b
    BY <1>4, <2>2, <2>3, <2>4
  <2>6. SubSeq(t, 1, b - 1) = SubSeq(s, 1, b - 1)
    BY <1>1, <2>4
  <2> QED
    BY <1>2, <1>3, <1>10, <2>1, <2>2, <2>3, <2>5, <2>6
<1> QED
  BY <1>8, <1>9, <1>10

\* The payload and what the buffer holds behind it.
BufferOK == buffer \in Seq(STRING) /\ len \in 0 .. Len(buffer)

LEMMA PayloadStart ==
  ASSUME BufferOK
  PROVE  Payload \in Seq(STRING) /\ Len(Payload) = len /\ Payload = SubSeq(buffer, 1, len)
<1>1. Payload = SubSeq(buffer, 1, len)
  BY DEF Payload, Cut, BufferOK
<1> QED
  BY <1>1, SubSeqProperties DEF BufferOK

\* The floor is the payload's, unless a digit stands behind its last character.
LEMMA FloorOfPayload ==
  ASSUME BufferOK, len >= 6, len < Len(buffer) => buffer[len + 1] \notin DOMAIN Digit
  PROVE  Floor(buffer) = Floor(Payload)
<1> DEFINE s == SubSeq(buffer, 7, Len(buffer))
           m == len - 6
<1>1. /\ s \in Seq(STRING) /\ Len(s) = Len(buffer) - 6 /\ m \in 0 .. Len(s)
      /\ \A i \in 1 .. Len(s) : s[i] = buffer[i + 6]
  <2>1. buffer \in Seq(STRING) /\ Len(buffer) \in Nat /\ len \in Nat /\ len <= Len(buffer)
    BY DEF BufferOK
  <2>2. \A i \in 7 .. Len(buffer) : buffer[i] \in STRING
    BY <2>1
  <2>3. /\ s \in Seq(STRING) /\ Len(s) = Len(buffer) - 6
        /\ \A i \in 1 .. Len(buffer) - 6 : s[i] = buffer[i + 6]
    <3> DEFINE n == Len(buffer)
    <3>1. n \in Nat /\ n >= 6 /\ \A i \in 7 .. n : buffer[i] \in STRING
      BY <2>1, <2>2
    <3>2. s = SubSeq(buffer, 7, n)
      OBVIOUS
    <3> HIDE DEF n, s
    <3>3. /\ s \in Seq(STRING) /\ Len(s) = (IF 7 <= n THEN n - 7 + 1 ELSE 0)
          /\ \A i \in 1 .. n - 7 + 1 : s[i] = buffer[7 + i - 1]
      BY <3>1, <3>2, SubSeqProperties
    <3>4. Len(s) = n - 6
      BY <3>1, <3>3
    <3>5. \A i \in 1 .. n - 6 : i \in 1 .. n - 7 + 1 /\ 7 + i - 1 = i + 6
      BY <3>1
    <3>6. \A i \in 1 .. n - 6 : s[i] = buffer[i + 6]
      BY <3>3, <3>5
    <3> QED
      BY <3>3, <3>4, <3>6 DEF n
  <2> QED
    BY <2>1, <2>3
<1>2. SubSeq(Payload, 7, Len(Payload)) = SubSeq(s, 1, m)
  BY <1>1, PayloadStart DEF BufferOK
<1>3. m < Len(s) => s[m + 1] \notin DOMAIN Digit
  BY <1>1 DEF BufferOK
<1> HIDE DEF s, m
<1>4. Digits(SubSeq(s, 1, m)) = Digits(s)
  BY <1>1, <1>3, DigitsOfPrefix
<1>5. Len(FloorPrefix) + 1 = 7
  BY DEF FloorPrefix
<1>6. Floor(buffer) = Value(Digits(s)) % 256
  BY <1>5 DEF Floor, atoi, s
<1>7. Floor(Payload) = Value(Digits(SubSeq(s, 1, m))) % 256
  BY <1>2, <1>5 DEF Floor, atoi
<1> QED
  BY <1>4, <1>6, <1>7

Matched == {k \in DOMAIN Names : \E name \in Names[k] : Matches(buffer, len, name)}

\* The spellings of the names.
LEMMA Spellings ==
  /\ DOMAIN Names = 1 .. 3
  /\ \A k \in 1 .. 3 : \A name \in Names[k] :
       /\ name = [i \in 1 .. Len(name) |-> name[i]]
       /\ Len(name) \in 5 .. 6
       /\ \A j \in 1 .. 3 : \A other \in Names[j] : name[1] = other[1] => j = k
BY DEF Names, Status, Reset, Estop

\* A payload matches the names it is a prefix of.
LEMMA MatchedPrefix ==
  ASSUME BufferOK, NEW k \in 1 .. 3, NEW name \in Names[k], Matches(buffer, len, name)
  PROVE  IsPrefix(Payload, name)
BY PayloadStart, Spellings DEF Matches, Cut, IsPrefix, BufferOK, Payload

\* A payload that is a name matches no other name.
LEMMA MatchedName ==
  ASSUME BufferOK, NEW k \in 1 .. 3, Payload \in Names[k]
  PROVE  Matched = {k}
<1>1. Matches(buffer, len, Payload)
  BY PayloadStart DEF Matches, Cut, Payload, BufferOK
<1>2. ASSUME NEW j \in 1 .. 3, NEW name \in Names[j], Matches(buffer, len, name)
      PROVE  j = k
  <2>1. IsPrefix(Payload, name)
    BY <1>2, MatchedPrefix
  <2>2. Len(Payload) \in 5 .. 6 /\ Len(name) \in 5 .. 6
    BY Spellings
  <2>3. SubSeq(Payload, 1, Len(Payload))[1] = SubSeq(name, 1, Len(Payload))[1]
    BY <2>1 DEF IsPrefix
  <2>4. Payload[1] = name[1]
    BY <2>1, <2>2, <2>3 DEF IsPrefix
  <2> QED
    BY <2>4, Spellings
<1> QED
  BY <1>1, <1>2, Spellings DEF Matched

\* The command a payload runs.
LEMMA CommandRun ==
  LET run == OnMqttCommand(buffer, len)
  IN  /\ Matched # {} => run = [command |-> Commands[Min(Matched)]]
      /\ Matched = {} /\ run # Nothing =>
           len > 6 /\ run = [command |-> "floor", floor |-> Floor(buffer)]
BY DEF OnMqttCommand, Matched, FloorPrefix

LEMMA NamedCommands == BufferOK => NamedCommandRuns
<1> DEFINE run == OnMqttCommand(buffer, len)
<1> HIDE DEF run
<1> SUFFICES ASSUME BufferOK, NEW k \in 1 .. 3
             PROVE  /\ Payload \in Names[k] => run.command = Commands[k]
                    /\ run.command = Commands[k] =>
                         \E name \in Names[k] : IsPrefix(Payload, name)
                    /\ run.command = "floor" =>
                         \/ run.floor = Floor(Payload)
                         \/ len < Len(buffer) /\ buffer[len + 1] \in DOMAIN Digit
  BY Spellings DEF NamedCommandRuns, run
<1>1. /\ Matched # {} => run = [command |-> Commands[Min(Matched)]]
      /\ Matched = {} /\ run # Nothing =>
           len > 6 /\ run = [command |-> "floor", floor |-> Floor(buffer)]
  BY CommandRun DEF run
<1>2. Matched # {} => Min(Matched) \in Matched
  <2>1. Matched \in SUBSET Nat
    BY Spellings DEF Matched
  <2> QED
    BY <2>1, LeastElement
<1>3. /\ Commands[1] = "status" /\ Commands[2] = "reset" /\ Commands[3] = "estop"
      /\ Nothing.command = "unknown"
  BY DEF Commands, Nothing
<1>4. Matched \subseteq 1 .. 3
  BY Spellings DEF Matched
<1>5. \A i, j \in 1 .. 3 : /\ Commands[i] = Commands[j] => i = j
                           /\ Commands[i] \notin {"floor", "unknown"}
  BY <1>3
<1>6. Payload \in Names[k] => run.command = Commands[k]
  <2> SUFFICES ASSUME Payload \in Names[k] PROVE run.command = Commands[k]
    OBVIOUS
  <2>1. Matched = {k}
    BY MatchedName
  <2> QED
    BY <1>1, <1>2, <2>1
<1>7. ASSUME run.command = Commands[k]
      PROVE  \E name \in Names[k] : IsPrefix(Payload, name)
  <2>1. Matched # {}
    BY <1>1, <1>3, <1>7
  <2>2. Min(Matched) \in 1 .. 3
    BY <1>2, <1>4, <2>1, Zenon
  <2>3. Min(Matched) = k
    <3>1. run.command = Commands[Min(Matched)]
      BY <1>1, <2>1
    <3> QED
      BY <1>5, <1>7, <2>2, <3>1
  <2>4. PICK name \in Names[k] : Matches(buffer, len, name)
    BY <1>2, <2>1, <2>3 DEF Matched
  <2> QED
    BY <2>4, MatchedPrefix
<1>8. ASSUME run.command = "floor"
      PROVE  \/ run.floor = Floor(Payload)
             \/ len < Len(buffer) /\ buffer[len + 1] \in DOMAIN Digit
  <2>1. Matched = {}
    <3> SUFFICES ASSUME Matched # {} PROVE FALSE
      OBVIOUS
    <3>1. run.command = Commands[Min(Matched)]
      BY <1>1
    <3>2. Min(Matched) \in 1 .. 3
      BY <1>2, <1>4, Zenon
    <3> QED
      BY <1>5, <1>8, <3>1, <3>2
  <2>2. len > 6 /\ run.floor = Floor(buffer)
    BY <1>1, <1>3, <1>8, <2>1
  <2> QED
    BY <2>2, FloorOfPayload DEF BufferOK
<1> QED
  BY <1>6, <1>7, <1>8

\* Only a message changes the buffer, and it covers the start of it.
LEMMA BufferNext == BufferOK /\ [Next]_vars => BufferOK'
<1> SUFFICES ASSUME BufferOK, [Next]_vars PROVE BufferOK'
  OBVIOUS
<1>1. ASSUME NEW payload \in Payloads, MqttData(payload)
      PROVE  BufferOK'
  <2>1. payload \in Seq(STRING)
    BY PayloadAssumption
  <2>2. buffer' = payload \o SubSeq(buffer, Len(payload) + 1, Len(buffer)) /\ len' = Len(payload)
    BY <1>1 DEF MqttData, Received
  <2>3. SubSeq(buffer, Len(payload) + 1, Len(buffer)) \in Seq(STRING)
    BY <2>1 DEF BufferOK
  <2> QED
    BY <2>1, <2>2, <2>3 DEF BufferOK
<1>2. ASSUME UNCHANGED <<buffer, len>>
      PROVE  BufferOK'
  BY <1>2 DEF BufferOK
<1>3. CASE Boot \/ TfTask \/ SendHeartbeat
  <2>1. UNCHANGED <<buffer, len>>
    BY <1>3 DEF Boot, TfTask, SendHeartbeat, PublishTest, Publish, CmdResponse, CmdTimeout,
                HeartbeatResponse, HeartbeatTimeout, StateEvent, mqttVars
  <2> QED
    BY <1>2, <2>1
<1>4. CASE MqttConnected \/ MqttDisconnected \/ MqttSend \/ UNCHANGED vars
  BY <1>2, <1>4 DEF MqttConnected, MqttDisconnected, MqttSend, vars, mqttVars
<1> QED
  BY <1>1, <1>3, <1>4 DEF Next, MqttTask

\* A payload that is a name runs that command whatever lies behind it in the
\* receive buffer, only a prefix of a name runs its command, and the floor is
\* the payload's unless an older digit stands behind it (MaxComm_OnMqttCommand).
THEOREM OnlyItsNameRuns == Spec => []NamedCommandRuns
<1>1. Init => BufferOK
  BY DEF Init, BufferOK
<1> QED
  BY <1>1, BufferNext, NamedCommands, PTL DEF Spec
=============================================================================
