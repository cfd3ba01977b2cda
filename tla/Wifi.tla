-------------------------------- MODULE Wifi --------------------------------
(***************************************************************************)
(* comm/wifi_util.c: wifi_init, which starts the station and waits for an  *)
(* event bit, and wifi_event_handler, which pursues the connection for as  *)
(* long as the program runs.  The handler runs in the task of the default  *)
(* event loop and handles events in the order they were posted; the        *)
(* station is the WiFi driver and the IP stack, which post them.           *)
(***************************************************************************)
EXTENDS Naturals, Sequences

CONSTANT MaxRetry    \* MAX_RETRY

ASSUME WifiAssumption == MaxRetry \in Nat

VARIABLES
  station,     \* the driver: "off", "idle", "connecting", "associated", "online"
  events,      \* the default event loop's queue, oldest first
  retry_num,   \* s_retry_num
  bits,        \* s_wifi_event_group: WIFI_CONNECTED_BIT, WIFI_FAIL_BIT
  main_pc,     \* app_main: "boot", "waiting" in wifi_init, "returned" from it
  \* history, read by no action of the program
  failures     \* disconnections handled since the last IP, up to MaxRetry + 1

vars == <<station, events, retry_num, bits, main_pc, failures>>

StationStates == {"off", "idle", "connecting", "associated", "online"}
Events == {"start", "disconnected", "got_ip"}

TypeOK ==
  /\ station \in StationStates
  /\ events \in Seq(Events)
  /\ retry_num \in 0 .. MaxRetry
  /\ bits \subseteq {"connected", "fail"}
  /\ main_pc \in {"boot", "waiting", "returned"}
  /\ failures \in 0 .. MaxRetry + 1

Init ==
  /\ station = "off"
  /\ events = <<>>
  /\ retry_num = 0
  /\ bits = {}
  /\ main_pc = "boot"
  /\ failures = 0

Post(e) == events' = Append(events, e)

-----------------------------------------------------------------------------
(* The main task.                                                          *)

\* A slip the checks must notice: wifi_init asks for the connection itself,
\* though the handler will, when the station has started.
StartStation_Connects ==
  /\ main_pc = "boot"
  /\ main_pc' = "waiting"
  /\ station' = "connecting"
  /\ Post("start")
  /\ UNCHANGED <<retry_num, bits, failures>>

\* wifi_init up to esp_wifi_start: the handlers are registered by then.
StartStation ==
  /\ main_pc = "boot"
  /\ main_pc' = "waiting"
  /\ station' = "idle"
  /\ Post("start")
  /\ UNCHANGED <<retry_num, bits, failures>>

\* xEventGroupWaitBits, for either bit; both outcomes only differ in the log.
\* (wifi_util.h has wifi_init block until there is a connection; it does not.)
InitReturn ==
  /\ main_pc = "waiting"
  /\ bits # {}
  /\ main_pc' = "returned"
  /\ UNCHANGED <<station, events, retry_num, bits, failures>>

-----------------------------------------------------------------------------
(* wifi_event_handler, an action for each branch.                          *)

Take(e) ==
  /\ events # <<>>
  /\ Head(events) = e
  /\ events' = Tail(events)

\* esp_wifi_connect starts an attempt of an idle station, and only of one.
Connect == station' = IF station = "idle" THEN "connecting" ELSE station

OnStart ==
  /\ Take("start")
  /\ Connect
  /\ UNCHANGED <<retry_num, bits, main_pc, failures>>

\* A slip the checks must notice: the last retry is counted but not made.
OnDisconnected_StopsEarly ==
  /\ Take("disconnected")
  /\ failures' = failures + 1
  /\ IF retry_num < MaxRetry
     THEN /\ retry_num' = retry_num + 1
          /\ IF retry_num' < MaxRetry THEN Connect ELSE UNCHANGED station
          /\ UNCHANGED bits
     ELSE bits' = bits \cup {"fail"} /\ UNCHANGED <<station, retry_num>>
  /\ UNCHANGED main_pc

\* Another: one retry more than MaxRetry.
OnDisconnected_OneMore ==
  /\ Take("disconnected")
  /\ failures' = IF failures <= MaxRetry THEN failures + 1 ELSE failures
  /\ \/ /\ retry_num <= MaxRetry
        /\ Connect
        /\ retry_num' = retry_num + 1
        /\ UNCHANGED bits
     \/ /\ retry_num > MaxRetry
        /\ bits' = bits \cup {"fail"}
        /\ UNCHANGED <<station, retry_num>>
  /\ UNCHANGED main_pc

\* After MaxRetry retries in a row the handler sets the bit and does nothing
\* more; no event of the driver will come again, since none is asked for.
OnDisconnected ==
  /\ Take("disconnected")
  /\ failures' = IF failures <= MaxRetry THEN failures + 1 ELSE failures
  /\ \/ /\ retry_num < MaxRetry
        /\ Connect
        /\ retry_num' = retry_num + 1
        /\ UNCHANGED bits
     \/ /\ retry_num >= MaxRetry
        /\ bits' = bits \cup {"fail"}
        /\ UNCHANGED <<station, retry_num>>
  /\ UNCHANGED main_pc

\* Slips: the count of retries is not reset; the bit is not set.
OnGotIp_KeepsCount ==
  /\ Take("got_ip")
  /\ bits' = bits \cup {"connected"}
  /\ failures' = 0
  /\ UNCHANGED <<station, retry_num, main_pc>>

OnGotIp_SetsNoBit ==
  /\ Take("got_ip")
  /\ retry_num' = 0
  /\ failures' = 0
  /\ UNCHANGED <<station, bits, main_pc>>

OnGotIp ==
  /\ Take("got_ip")
  /\ retry_num' = 0
  /\ bits' = bits \cup {"connected"}
  /\ failures' = 0
  /\ UNCHANGED <<station, main_pc>>

-----------------------------------------------------------------------------
(* The station: an attempt ends in an association or in a disconnection,   *)
(* an association in an address or in a disconnection.                     *)

Associate ==
  /\ station = "connecting"
  /\ station' = "associated"
  /\ UNCHANGED <<events, retry_num, bits, main_pc, failures>>

GetIp ==
  /\ station = "associated"
  /\ station' = "online"
  /\ Post("got_ip")
  /\ UNCHANGED <<retry_num, bits, main_pc, failures>>

Disconnect ==
  /\ station \in {"connecting", "associated", "online"}
  /\ station' = "idle"
  /\ Post("disconnected")
  /\ UNCHANGED <<retry_num, bits, main_pc, failures>>

-----------------------------------------------------------------------------
EventLoop == OnStart \/ OnDisconnected \/ OnGotIp

\* An attempt to associate, made or failed.
Attempt == Associate \/ (station = "connecting" /\ Disconnect)

Next == StartStation \/ InitReturn \/ EventLoop \/ Associate \/ GetIp \/ Disconnect

\* The tasks run, and the driver times an attempt to associate out.  Nothing is
\* assumed of what follows: a DHCP server need not ever answer, and a connection
\* need not ever break.
Fairness ==
  /\ WF_vars(StartStation)
  /\ WF_vars(InitReturn)
  /\ WF_vars(EventLoop)
  /\ WF_vars(Attempt)

Spec == Init /\ [][Next]_vars

FairSpec == Spec /\ Fairness

-----------------------------------------------------------------------------
(* Safety.                                                                 *)

\* The events that make the handler call esp_wifi_connect.
Requests == {k \in DOMAIN events : events[k] \in {"start", "disconnected"}}

\* Whenever such an event is queued the station is idle, and there is only
\* one: no request to connect hits an attempt already under way, and no retry
\* is spent on an attempt that did not fail.
OneRequestAtATime ==
  /\ Requests # {} => station = "idle"
  /\ \A j, k \in Requests : j = k

\* A station that nobody will ask to connect again has had all its retries,
\* and has said so.
IdleMeansGivenUp ==
  (station = "idle" /\ Requests = {}) => (retry_num = MaxRetry /\ "fail" \in bits)

\* wifi_init is kept waiting only by the driver: once the handler has seen all
\* that was posted and no attempt is under way, one of the bits is set.  (Which
\* one is not said: after MaxRetry failures wifi_init returns without there ever
\* having been a connection.)
WaitsForDriverOnly ==
  (main_pc = "waiting" /\ events = <<>> /\ bits = {}) =>
    station \in {"connecting", "associated"}

\* WIFI_FAIL_BIT is set by MaxRetry + 1 disconnections without an address in
\* between, however many connections came and went before.
GivesUpAfterAllRetries ==
  [][("fail" \notin bits /\ "fail" \in bits') => failures = MaxRetry]_vars

-----------------------------------------------------------------------------
(* Liveness.                                                               *)

\* The station is associated from some time on and never gets an address: no
\* event will come, and the handler has no timer of its own.
WaitsForAddress == [](station = "associated")

\* Every outage ends, in a connection or in giving up, or in that wait.
OutageEnds ==
  station = "idle" ~> (station = "online" \/ "fail" \in bits \/ WaitsForAddress)
=============================================================================
