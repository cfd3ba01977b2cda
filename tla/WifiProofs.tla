----------------------------- MODULE WifiProofs -----------------------------
(***************************************************************************)
(* The retry budget of wifi_event_handler, for every MAX_RETRY.            *)
(*                                                                         *)
(* The argument is a list of what the station and the event queue can look *)
(* like together: the handler lags behind the driver by at most a          *)
(* connection and its loss, because the driver posts nothing more before   *)
(* it is asked to connect again.                                           *)
(***************************************************************************)
EXTENDS Wifi, SequenceTheorems, TLAPS

Off == station = "off" /\ events = <<>> /\ main_pc = "boot"

Asked ==
  /\ station = "idle"
  /\ events \in {<<"start">>, <<"disconnected">>, <<"got_ip", "disconnected">>}

GivenUp == station = "idle" /\ events = <<>> /\ retry_num = MaxRetry /\ "fail" \in bits

Trying == station \in {"connecting", "associated"} /\ events = <<>>

Online == station = "online" /\ events \in {<<>>, <<"got_ip">>}

\* What the driver has posted and the handler has not yet seen.
Lag ==
  \/ Off
  \/ main_pc # "boot" /\ (Asked \/ GivenUp \/ Trying \/ Online)

\* Until the handler gives up, it has retried once for every failure.
RetriesCounted == "fail" \notin bits => failures = retry_num

WifiInv == TypeOK /\ Lag /\ RetriesCounted

-----------------------------------------------------------------------------
(* The queues of Lag, and what the events of the program do to them.       *)

LEMMA Queues ==
  /\ \A e \in Events : <<e>> \in Seq(Events) /\ Append(<<>>, e) = <<e>>
                         /\ Head(<<e>>) = e /\ Tail(<<e>>) = <<>> /\ <<e>> # <<>>
  /\ \A e, f \in Events : <<e, f>> \in Seq(Events) /\ Append(<<e>>, f) = <<e, f>>
                            /\ Head(<<e, f>>) = e /\ Tail(<<e, f>>) = <<f>> /\ <<e, f>> # <<>>
  /\ <<>> \in Seq(Events)
<1>1. ASSUME NEW e \in Events
      PROVE  <<e>> \in Seq(Events) /\ Append(<<>>, e) = <<e>> /\ Head(<<e>>) = e
             /\ Tail(<<e>>) = <<>> /\ <<e>> # <<>>
  OBVIOUS
<1>2. ASSUME NEW e \in Events, NEW f \in Events
      PROVE  <<e, f>> \in Seq(Events) /\ Append(<<e>>, f) = <<e, f>> /\ Head(<<e, f>>) = e
             /\ Tail(<<e, f>>) = <<f>> /\ <<e, f>> # <<>>
  <2>1. <<e, f>> \in Seq(Events) /\ <<e>> \in Seq(Events) /\ <<e, f>> # <<>>
    OBVIOUS
  <2>2. Append(<<e>>, f) = <<e, f>>
    <3>1. /\ Append(<<e>>, f) \in Seq(Events) /\ Len(Append(<<e>>, f)) = 2
          /\ Append(<<e>>, f)[1] = e /\ Append(<<e>>, f)[2] = f
      BY <2>1
    <3>2. /\ Len(<<e, f>>) = 2
          /\ <<e, f>>[1] = e /\ <<e, f>>[2] = f
      OBVIOUS
    <3>3. \A i \in 1 .. Len(Append(<<e>>, f)) : Append(<<e>>, f)[i] = <<e, f>>[i]
      <4> SUFFICES ASSUME NEW i \in {1, 2} PROVE Append(<<e>>, f)[i] = <<e, f>>[i]
        BY <3>1
      <4> QED
        BY <3>1, <3>2
    <3> DEFINE s == Append(<<e>>, f)
               t == <<e, f>>
    <3>4. s \in Seq(Events) /\ t \in Seq(Events) /\ Len(s) = Len(t)
          /\ \A i \in 1 .. Len(s) : s[i] = t[i]
      BY <2>1, <3>1, <3>2, <3>3
    <3> HIDE DEF s, t
    <3>5. s = t
      BY <3>4, SeqEqual
    <3> QED
      BY <3>5 DEF s, t
  <2>3. Head(<<e, f>>) = e
    OBVIOUS
  <2>4. Tail(<<e, f>>) = <<f>>
    OBVIOUS
  <2> QED
    BY <2>1, <2>2, <2>3, <2>4
<1>3. <<>> \in Seq(Events)
  OBVIOUS
<1> QED
  BY <1>1, <1>2, <1>3, Zenon

\* The list of states covers the one the program starts in.
LEMMA WifiInit == Init => WifiInv
<1> SUFFICES ASSUME Init PROVE WifiInv
  OBVIOUS
<1>1. TypeOK
  BY WifiAssumption DEF Init, TypeOK, StationStates
<1>2. Lag /\ RetriesCounted
  BY DEF Init, Lag, Off, RetriesCounted
<1> QED
  BY <1>1, <1>2 DEF WifiInv

-----------------------------------------------------------------------------
\* A step from a listed state leads to a listed state.
LEMMA WifiNext == WifiInv /\ [Next]_vars => WifiInv'
<1> SUFFICES ASSUME WifiInv, [Next]_vars PROVE WifiInv'
  OBVIOUS
<1> USE WifiAssumption DEF WifiInv
<1>1. CASE StartStation
  <2>1. Off
    BY <1>1 DEF StartStation, Lag
  <2>2. events' = <<"start">> /\ station' = "idle" /\ main_pc' = "waiting"
    BY <1>1, <2>1, Queues DEF StartStation, Off, Post, Events
  <2> QED
    BY <1>1, <2>2, Queues
       DEF StartStation, TypeOK, StationStates, Events, Lag, Asked, RetriesCounted
<1>2. CASE InitReturn
  BY <1>2
     DEF InitReturn, TypeOK, Lag, Off, Asked, GivenUp, Trying, Online, RetriesCounted
<1>3. CASE OnStart
  <2>1. events = <<"start">> /\ station = "idle" /\ main_pc # "boot"
    BY <1>3, Queues DEF OnStart, Take, Lag, Off, Asked, GivenUp, Trying, Online, Events
  <2>2. events' = <<>> /\ station' = "connecting"
    BY <1>3, <2>1, Queues DEF OnStart, Take, Connect, Events
  <2> QED
    BY <1>3, <2>1, <2>2, Queues
       DEF OnStart, TypeOK, StationStates, Lag, Trying, RetriesCounted
<1>4. CASE OnDisconnected
  <2>1. events = <<"disconnected">> /\ station = "idle" /\ main_pc # "boot"
    BY <1>4, Queues DEF OnDisconnected, Take, Lag, Off, Asked, GivenUp, Trying, Online, Events
  <2>2. events' = <<>> /\ main_pc' = main_pc
    BY <1>4, <2>1, Queues DEF OnDisconnected, Take, Events
  <2>3. CASE retry_num < MaxRetry
    <3>1. station' = "connecting" /\ retry_num' = retry_num + 1 /\ bits' = bits
      BY <1>4, <2>1, <2>3 DEF OnDisconnected, Connect, TypeOK
    <3>2. /\ failures' \in 0 .. MaxRetry + 1
          /\ failures = retry_num => failures' = failures + 1
      BY <1>4, <2>3 DEF OnDisconnected, TypeOK
    <3> QED
      BY <2>1, <2>2, <2>3, <3>1, <3>2, Queues
         DEF TypeOK, StationStates, Lag, Trying, RetriesCounted
  <2>4. CASE ~(retry_num < MaxRetry)
    <3>1. /\ retry_num = MaxRetry /\ retry_num' = MaxRetry
          /\ station' = "idle" /\ bits' = bits \cup {"fail"}
      BY <1>4, <2>1, <2>4 DEF OnDisconnected, TypeOK
    <3>2. failures' \in 0 .. MaxRetry + 1
      BY <1>4 DEF OnDisconnected, TypeOK
    <3> QED
      BY <2>1, <2>2, <3>1, <3>2, Queues
         DEF TypeOK, StationStates, Lag, GivenUp, RetriesCounted
  <2> QED
    BY <2>3, <2>4
<1>5. CASE OnGotIp
  <2>1. /\ main_pc # "boot"
        /\ \/ station = "online" /\ events = <<"got_ip">>
           \/ station = "idle" /\ events = <<"got_ip", "disconnected">>
    BY <1>5, Queues DEF OnGotIp, Take, Lag, Off, Asked, GivenUp, Trying, Online, Events
  <2>2. \/ station' = "online" /\ events' = <<>>
        \/ station' = "idle" /\ events' = <<"disconnected">>
    BY <1>5, <2>1, Queues DEF OnGotIp, Take, Events
  <2>3. TypeOK'
    <3>1. station' \in StationStates /\ events' \in Seq(Events)
      BY <2>2, Queues DEF StationStates, Events
    <3>2. /\ retry_num' = 0 /\ failures' = 0 /\ main_pc' = main_pc
          /\ bits' = bits \cup {"connected"}
      BY <1>5 DEF OnGotIp
    <3> QED
      BY <3>1, <3>2 DEF TypeOK
  <2> QED
    BY <1>5, <2>1, <2>2, <2>3 DEF OnGotIp, Lag, Asked, Online, RetriesCounted
<1>6. CASE Associate
  <2>1. Trying /\ main_pc # "boot"
    BY <1>6 DEF Associate, Lag, Off, Asked, GivenUp, Trying, Online
  <2>2. station' = "associated" /\ events' = <<>>
    BY <1>6, <2>1 DEF Associate, Trying
  <2>3. TypeOK'
    BY <1>6, <2>2, Queues DEF Associate, TypeOK, StationStates
  <2> QED
    BY <1>6, <2>1, <2>2, <2>3 DEF Associate, Lag, Trying, RetriesCounted
<1>7. CASE GetIp
  <2>1. events = <<>> /\ main_pc # "boot"
    BY <1>7 DEF GetIp, Lag, Off, Asked, GivenUp, Trying, Online
  <2>2. events' = <<"got_ip">>
    BY <1>7, <2>1, Queues DEF GetIp, Post, Events
  <2> QED
    BY <1>7, <2>1, <2>2, Queues
       DEF GetIp, TypeOK, StationStates, Events, Lag, Online, RetriesCounted
<1>8. CASE Disconnect
  <2>1. events \in {<<>>, <<"got_ip">>} /\ main_pc # "boot"
    BY <1>8 DEF Disconnect, Lag, Off, Asked, GivenUp, Trying, Online
  <2>2. events' \in {<<"disconnected">>, <<"got_ip", "disconnected">>}
    BY <1>8, <2>1, Queues DEF Disconnect, Post, Events
  <2>3. TypeOK'
    BY <1>8, <2>2, Queues DEF Disconnect, TypeOK, StationStates, Events
  <2> QED
    BY <1>8, <2>1, <2>2, <2>3 DEF Disconnect, Lag, Asked, RetriesCounted
<1>9. CASE UNCHANGED vars
  BY <1>9 DEF vars, TypeOK, Lag, Off, Asked, GivenUp, Trying, Online, RetriesCounted
<1> QED
  BY <1>1, <1>2, <1>3, <1>4, <1>5, <1>6, <1>7, <1>8, <1>9 DEF Next, EventLoop

\* The list is complete.
THEOREM WifiInvariant == Spec => []WifiInv
<1> QED
  BY WifiInit, WifiNext, PTL DEF Spec

\* The station, the queue and the handler's variables keep their types: the
\* count of retries never passes MAX_RETRY.
THEOREM TypesKept == Spec => []TypeOK
<1>1. WifiInv => TypeOK
  BY DEF WifiInv
<1> QED
  BY <1>1, WifiInvariant, PTL

-----------------------------------------------------------------------------
\* In each of the listed states, what makes the handler connect is queued once
\* at most, and then the station is idle.
LEMMA LagRequests ==
  ASSUME Lag
  PROVE  /\ Requests # {} => station = "idle"
         /\ \A j, k \in Requests : j = k
         /\ (station = "idle" /\ Requests = {}) => GivenUp
<1>1. events = <<>> => Requests = {}
  BY DEF Requests
<1>2. events = <<"got_ip">> => Requests = {}
  BY DEF Requests
<1>3. events \in {<<"start">>, <<"disconnected">>} => Requests = {1}
  BY DEF Requests
<1>4. events = <<"got_ip", "disconnected">> => Requests = {2}
  BY DEF Requests
<1> QED
  BY <1>1, <1>2, <1>3, <1>4 DEF Lag, Off, Asked, GivenUp, Trying, Online

\* No call of esp_wifi_connect hits an attempt under way, for every MAX_RETRY.
THEOREM OneRequest == Spec => []OneRequestAtATime
<1>1. WifiInv => OneRequestAtATime
  BY LagRequests DEF WifiInv, OneRequestAtATime
<1> QED
  BY <1>1, WifiInvariant, PTL

\* An idle station that will not be asked to connect again has had all its
\* retries, and WIFI_FAIL_BIT is set, for every MAX_RETRY.
THEOREM GivesUpVisibly == Spec => []IdleMeansGivenUp
<1>1. WifiInv => IdleMeansGivenUp
  BY LagRequests DEF WifiInv, IdleMeansGivenUp, GivenUp
<1> QED
  BY <1>1, WifiInvariant, PTL

\* A station that is online, and whose address the handler has seen, has the bit.
AddressSaid == (station = "online" /\ events = <<>>) => "connected" \in bits

LEMMA AddressSaidNext == WifiInv /\ AddressSaid /\ [Next]_vars => AddressSaid'
<1> SUFFICES ASSUME WifiInv, AddressSaid, [Next]_vars PROVE AddressSaid'
  OBVIOUS
<1>1. CASE StartStation \/ Disconnect
  BY <1>1 DEF StartStation, Disconnect, AddressSaid
<1>2. CASE InitReturn \/ UNCHANGED vars
  BY <1>2 DEF InitReturn, vars, AddressSaid
<1>3. CASE OnStart \/ OnDisconnected
  <2>1. events \in {<<"start">>, <<"disconnected">>} /\ station = "idle"
    BY <1>3, Queues
       DEF OnStart, OnDisconnected, Take, WifiInv, Lag, Off, Asked, GivenUp, Trying, Online, Events
  <2> QED
    BY <1>3, <2>1 DEF OnStart, OnDisconnected, Connect, AddressSaid
<1>4. CASE OnGotIp
  BY <1>4 DEF OnGotIp, AddressSaid
<1>5. CASE Associate
  BY <1>5 DEF Associate, AddressSaid
<1>6. CASE GetIp
  <2>1. events = <<>>
    BY <1>6 DEF GetIp, WifiInv, Lag, Off, Asked, GivenUp, Trying, Online
  <2> QED
    BY <1>6, <2>1, Queues DEF GetIp, Post, Events, AddressSaid
<1> QED
  BY <1>1, <1>2, <1>3, <1>4, <1>5, <1>6 DEF Next, EventLoop

\* wifi_init is kept waiting by nothing but an attempt of the driver or an
\* address that has not come, for every MAX_RETRY.
THEOREM NoBitMissed == Spec => []WaitsForDriverOnly
<1>1. Init => AddressSaid
  BY DEF Init, AddressSaid
<1>2. WifiInv /\ AddressSaid => WaitsForDriverOnly
  <2> SUFFICES ASSUME WifiInv, AddressSaid, main_pc = "waiting", events = <<>>, bits = {}
               PROVE  station \in {"connecting", "associated"}
    BY DEF WaitsForDriverOnly
  <2> QED
    BY Queues DEF WifiInv, AddressSaid, Lag, Off, Asked, GivenUp, Trying, Online, Events
<1> QED
  BY <1>1, <1>2, AddressSaidNext, WifiInvariant, PTL DEF Spec

\* WIFI_FAIL_BIT is first set by the failure after MAX_RETRY failures since the
\* last address, for every MAX_RETRY.
THEOREM BudgetIsPerOutage == Spec => GivesUpAfterAllRetries
<1>1. WifiInv /\ [Next]_vars
        => [("fail" \notin bits /\ "fail" \in bits') => failures = MaxRetry]_vars
  <2> SUFFICES ASSUME WifiInv, Next, "fail" \notin bits, "fail" \in bits'
               PROVE  failures = MaxRetry
    OBVIOUS
  <2>1. OnDisconnected
    BY DEF Next, EventLoop, StartStation, InitReturn, OnStart, OnGotIp, Associate, GetIp,
           Disconnect
  <2>2. retry_num >= MaxRetry
    BY <2>1 DEF OnDisconnected
  <2> QED
    BY <2>2, WifiAssumption DEF WifiInv, RetriesCounted, TypeOK
<1> QED
  BY <1>1, WifiInvariant, PTL DEF Spec, GivesUpAfterAllRetries
=============================================================================
