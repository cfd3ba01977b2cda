# UpAndDownESP: a verification development

UpAndDownESP is the ESP32 side of a lift controller. It connects to a WiFi
network and an MQTT broker, and over a UART to a MAX32655 board that drives the
lift. Commands arrive by MQTT and go to the board as TinyFrame queries; the
board's answers and events are published back; a heartbeat tells whether the
board is there. This directory holds TLA+ models of the program, TLC
configurations that check them on small instances, and TLAPS proofs for all
values of the constants. Paths below are relative to `src/`.

## 1. Inventory

| Part | Files | State | Operations | Talks to |
|---|---|---|---|---|
| TinyFrame ID listeners | `lib/TinyFrame/src/TinyFrame.c` | `id_listeners[4]`, `count_id_lst`, `next_id` | add, match a frame, tick, clean up; number a frame | called by tf_transport; calls listeners and time-out callbacks |
| TinyFrame composing, sending | same | `soft_lock`, `sendbuf[64]`, `tx_pos`, `tx_len`, `tx_cksum` | claim, head, body in chunks, tail, release | `TF_WriteImpl` |
| TinyFrame receive parser | same | `state`, `rxi`, `data[128]`, checksums, `parser_timeout_ticks` | accept a byte, time-out, hand over a frame | listeners |
| TinyFrame type and generic listeners | same | two small tables, filled once | match a frame | `event_listener`, `generic_listener` |
| Transport | `src/comm/uart/tf_transport.c` | `tf_mutex` (recursive), the one `TinyFrame` | `tf_task`, send, query, respond, add_listener | UART driver; its callers |
| Protocol handler | `src/comm/uart/protocol_handler.c` | configuration, heartbeat counter, `last_heartbeat_time` | `protocol_task`, send_cmd, send_estop, the listeners | transport below, application above |
| Application | `src/app/max_comm.c` | `max32655_connected` | callbacks, `MaxComm_OnMqttCommand`, sends | protocol handler, MQTT |
| MQTT bridge | `src/comm/mqtt_util.c` | `s_connected`, topics, client | event handler, publish | esp-mqtt; application |
| WiFi station | `src/comm/wifi_util.c` | `s_retry_num`, event group | `wifi_init`, event handler, `wifi_is_connected` | WiFi driver |
| Start-up | `src/main.c` | none | `app_main` | all of the above, in order |

Four tasks run at once: `tf_task` (reads the UART, parses, ticks, runs every
listener, all under `tf_mutex`), `protocol_task` (sends heartbeats), the task of
the MQTT client (runs `mqtt_event_handler` and so sends commands), and the
default event loop (runs `wifi_event_handler`). `app_main` starts them and ends.
They share the TinyFrame instance under `tf_mutex`, and `s_connected` and
`max32655_connected` without a lock.

What is hard here:

- *Queries.* Four slots, a 7-bit frame number, answers that are lost, late or
  never sent, a listener that leaves by an answer or by a tick. Correct means:
  a query is concluded once, by its own answer or by the clock, and a listener
  is never forgotten.
- *Two clocks.* Heartbeats are sent by the FreeRTOS clock and given up by
  iterations of `tf_task`, and the flag does not say which heartbeat it heard of.
- *Failure without notice.* A query that finds no slot fails silently for the
  heartbeat and for every MQTT command; a publication is refused silently while
  MQTT is down.
- *Locks.* A recursive mutex around a library with its own two-step soft lock,
  and callbacks that call into the MQTT client with the mutex held.
- *WiFi.* A retry budget shared between start-up and the rest of the run, an
  event bit that is only ever set, and a handler that lags behind the driver.
- *Bytes.* Resynchronisation of the parser after noise, its time-out, fields
  left over from older frames, the boundary of the send buffer, a head and a
  body that are checked apart; MQTT payloads compared by their prefix in a
  buffer that is not terminated.
- *Reports.* The flag of the board and the flag of the broker are changed in
  different tasks, and a report that is refused is not repeated.
- *Start-up.* `tf_task` runs before anything else is set up.

`PROJECT.json` lists these as `hazards`, each at its line.

## 2. Modules

| Module | What it models |
|---|---|
| `IdListeners` | the table of ID listeners and frame IDs, as operators on a record |
| `MaxLink` | the link: tf_task, protocol task, MQTT task, time, the UART line, the board |
| `MCMaxLink` | model values and symmetry for `MaxLink` |
| `QueryPromise` | the abstract specification: what the transport promises about queries |
| `TFFormat` | the frame format, shared by the next four |
| `TFSend` | composing a frame in the send buffer, and its flushes |
| `TFParser` | `TF_AcceptChar`, a state at a time, and the parser's time-out |
| `Wire` | `TFSend`, a line that loses and invents bytes, and `TFParser` |
| `FrameChannel` | the abstract specification: what the framing promises |
| `Crc16` | the checksum with its table, and the polynomial it stands for |
| `Bridge` | start-up, the broker's connection, and what the callbacks report |
| `MqttCommand` | which command a payload stands for |
| `MCWire`, `MCCrc16`, `MCBridge` | values for the runs of these |
| `TaskLocks` | the locks under `MaxLink`, a step at a time |
| `Wifi` | `wifi_util.c` over the event queue of the driver |
| `MaxLinkProofs` | lemmas about the operations of the table, the inductive invariant of the link, safety, and that it implements `QueryPromise` |
| `MaxLinkIds` | frame numbers: answers find their own queries |
| `MaxLinkHeartbeat` | the two clocks of the heartbeat |
| `TaskLocksProofs`, `WifiProofs`, `WireProofs`, `BridgeProofs` | the invariants of these |
| `Crc16Proofs` | the table against long division, and the damage it notices |

How they fit: `Wire` is a direction of the UART, and `FrameChannel` what is left
of it for `MaxLink`, whose line carries whole frames and loses some. `MaxLink`
implements `QueryPromise`, and `Bridge` sits on top of that promise: its queries
are accepted and concluded by the actions of `QueryPromise`. `TaskLocks` looks
inside the sections of `tf_mutex` the others take as one step.

**MaxLink and IdListeners.** `tab` is `id_listeners` with `count_id_lst`;
a slot is `None` when its `fn` is NULL. `Add`, `Cleanup`, `Matching` and
`CountDown` are `TF_AddIdListener`, `cleanup_id_listener`, the loop of
`TF_HandleReceivedMessage` and `TF_Tick`. The field `q` names the query a
listener was registered for; the program does not store it, no guard reads it,
and properties need it. `SendCmd`, `SendEstop`, `HeartbeatDue` and
`SendHeartbeat` are the calls of the same names; a call into TinyFrame is one
action because it is one section of `tf_mutex` (`TaskLocks` looks inside).
`UartRead(n)` is one return of `uart_read_bytes` with the last bytes of `n`
frames; `FrameToIdListener`, `FrameToOtherListener` and `Tick` are what `tf_task`
does then with the mutex held, callbacks included. `publishing` says that the
callback just run is stuck in `esp_mqtt_client_publish`; only `Stall = TRUE`
allows it, and only it lets time pass inside the section. Commands that time out
and heartbeats that do are told apart by the listener's `fn`. The board answers
a query with the query's ID, drops it, sends events with IDs of its own, stops
and starts; bytes that are damaged are frames that are lost. A query that finds
no slot uses up a frame number and changes nothing else (`QueryRefused`).

**QueryPromise.** Each query is idle, pending or concluded (answered, discarded
as malformed, timed out); at most `Capacity` are pending. `MaxLink` implements
it with `Capacity <- MaxIdLst` and `status <- status`: `PromiseKept` is its
`Spec`, `PromiseKeptFairly` its `FairSpec`.

**TaskLocks.** `pc[t]` is where task `t` is; `Take` to `Give` are the lines of
`tf_transport_send`, `_query` and `_respond` down to `TF_WriteImpl`.
`ClaimTest` and `ClaimSet` are the two halves of `TF_ClaimTx`. A frame longer than
the buffer goes out in parts (`WritePart`). `tf_transport_respond` has no
caller in the program, but the mutex is recursive for its sake: with `Responds =
TRUE` a listener may call it, with `FALSE` the model is the program as it is.
`ApiLocked` says whether the MQTT client holds its own lock while it calls its
event handler; esp-mqtt does.

**Wifi.** The station is the driver's state, `events` the queue of the default
event loop, and `OnStart`, `OnDisconnected` and `OnGotIp` the branches of
`wifi_event_handler`. The driver posts a disconnection for each attempt that fails
and each connection that breaks. That `esp_wifi_connect` needs an idle station,
and that the driver posts in order, is the driver's documentation, not code of
this repository. `wifi_is_connected` only reads a bit and is not modelled.

**TFFormat, TFSend, TFParser, Wire.** The line carries symbols: a plain byte, or
a byte of a checksum. A checksum is ideal here, that is, it names the bytes it
was computed of and fits no others; when the parser is out of step and takes a
byte of it for something else, it has any value of `CksumBytes`. `SendBegin`,
`SendChunk` (a round of the loop), `SendEnd` and `SendWrite` are `TF_SendFrame`
from one `TF_WriteImpl` to the next, so the peer may read the first part of a frame
while the rest is composed. The parser has an action for each state; `rxi`,
`len`, `cksum` and the others keep what an older frame left in them unless the code
assigns them, `len` is shifted into and never cleared, and the time-out is
noticed only by the next byte. `Tick` is the end of an iteration of `tf_task`. The
line fails in `LoseRun` (a damaged byte, or a run of them when the UART's buffer
overflows) and `NoiseByte` (the parser reads a byte nobody sent). The histories
`lost`, `damaged` and `owed` are read by properties only. Both ends are the same library in one format, as
`TF_Config.h` asks; the direction from the board to the ESP32 is the one with the
program's parser, the other has its sender.

**FrameChannel.** TinyFrame checks the head and the body of a frame apart, so what
its framing can promise is about these *blocks*. `log` holds the blocks of every frame
begun, with the place of each in the stream of bytes. A message is made of a block
that passes for a head (five bytes, the first of them the start byte) and, if that
tells a length, a later block of this length; no block is used twice and none after
a later one. `TakeHead` is the head that is accepted, and `lost` counts the bytes lost
from there on: `Deliver` takes for its body a block that is not the next one only if
at least as many bytes were lost, since then, as lie between the two. What was lost
before the head does not count. `ChannelKept` is that nothing else happens.
Two things one would like to promise are not true of the format, and an
earlier form of this specification, which spoke of frames instead of blocks, was
refuted by them in the attempt to prove it. If everything from the end of one head to
the start of a later body is lost, the head is delivered with that body. And a
block of five bytes is what its reader takes it for: a body that begins like a head
can be taken for one when the parser is out of step, and a head behind exactly seven
lost bytes can be taken for the body of a frame of length five, the length of the
heartbeat's "HB 10". While nothing is lost behind a head, its body is the block that
follows it: no bytes may lie between them, and noise changes nothing of that.

**Crc16.** Bytes and checksums are sets of bit positions, so exclusive-or is
symmetric difference and the table is used as it stands in the source. Sender
and receiver compute their checksums on the fly, and between them bits are
flipped. `Remainder` is the long division by the generator: a step (`Reduced`) takes
the highest exponent away. A message has up to `MaxLen` bytes, at most
`TF_MAX_PAYLOAD_RX`, since of a longer body the parser computes no checksum. What the ideal checksum of
`TFFormat` hides is thereby looked at: an odd number of flipped bits, two flipped
bits, and a burst inside the data or inside the checksum are noticed. A burst
across the end of the data need not be: the polynomial is reflected, so the
checksum would have to go out low byte first, and `WRITENUM` writes the high byte
first. With bits 2 and 3 of the last data byte and bits 0 and 2 of the next byte
flipped, nine bits from end to end, the frame is accepted. `TF_Config.h` calls the
CRC "reliable error detection" without saying of what, so this is described here
and not counted as a disagreement.

**Bridge and MqttCommand.** `boot` counts the steps of `BootOrder`, the order in
which `app_main` starts things after `wifi_init`. A callback puts its report in
`outbox`; `PublishTest` is the test of `s_connected` in `mqtt_publish_event` and
`Publish` the call of the client, and the task of the MQTT client
(`MqttConnected`, `MqttDisconnected`, `MqttData`) may run in between. Only `tf_task` has
reports to make, and it makes them with `tf_mutex` held, so queries wait
(`TfTaskIdle`). A report is published, finds MQTT down, or is declined by the client
(`Fates`); `reports` keeps which. That it was published means that the client took it, not
that it was delivered; the model says nothing beyond the call. `MqttData` is the handler up
to the call that sends something: `handler` is then the command, and `MqttSend`
happens when `tf_mutex` is free. With `ApiLocked` the client keeps its lock all that
time, and `Publish`, which needs it, waits. `buffer` is the receive buffer of the MQTT
client: a payload starts at its first byte, is not terminated, and what follows
it is what a longer one before it has left, zeros at first. That the client
reuses its buffer in this way is an assumption about esp-mqtt, not code of this
repository. `atoi` and `strncmp` are modelled by what they do to such a buffer.

Definitions whose names have a suffix (`Cleanup_AlwaysShrinks`) are slips a
programmer could make; no specification uses them. Each property was seen to
fail when one of them replaces the definition it is named after.

## 3. Runs

| Run | Asks |
|---|---|
| `link` | Types, `LiveBelowCount`, `OneListenerPerQuery`, `PromiseKept`, with stalls |
| `link_live` | `OnlyOwnAnswerMatches` with frame numbers that come round, `AtMostOneHeartbeat`, `ConnectedFollowsHeartbeats`, `PromiseKeptFairly`, `DeadPeerDetected`, without stalls, with more slots than commands |
| `link_starved` | *violated:* `DeadPeerDetected`, with as many commands as slots |
| `link_stalled` | *violated:* `ConnectedFollowsHeartbeats`, with stalls |
| `locks` | Types, `MutexCountsSections`, `SoftLockNeverRefuses`, `FramesNotMixed`, `CallsReturn`, the client's lock free during its handler, listeners that respond |
| `locks_api` | *violated:* `CallsReturn`, the client's lock held during its handler, no listener that responds, as in the program |
| `wifi` | Types, `OneRequestAtATime`, `IdleMeansGivenUp`, `WaitsForDriverOnly`, `GivesUpAfterAllRetries`, `OutageEnds` |
| `wire` | `TypeOK` (the bounds of both ends), `NothingLost`, `ChannelKept` |
| `crc16` | `TableIsPolynomial`, `DamageDetected` |
| `bridge` | Types, `ConfiguredInTime`, `OneReport`, `BoardReported`, `CommandReported`, `NamedCommandRuns`, the client's lock free during its handler |
| `command_prefix` | *violated:* `OnlyNamesRun`, the format a comment gives for commands |
| `command_floor` | *violated:* `FloorAsNamed`, what a comment says of "floor:2" |

The five violations are what the code does against what its comments say; each is a finding in `PROJECT.json`:

- *link_starved.* `send_heartbeat` ignores that its query was refused. While
  commands occupy every slot, no heartbeat goes out, none times out, and a dead
  board remains connected. With fewer commands than slots the property holds.
- *link_stalled.* If a publish holds `tf_task` up long enough, a heartbeat goes
  out before the older one has been given up, is answered, and then the older
  one's time-out reports the board lost.
- *locks_api.* `tf_task` publishes with `tf_mutex` held; the MQTT task takes
  `tf_mutex` from its event handler. If the client's own lock is held in both,
  each waits for the other. Frames then are neither received nor ticked.
- *command_floor.* `atoi` reads past the end of the payload. "floor:2" that
  arrives after "floor:12" leaves the old "2" behind its own last character, and the board is sent
  to floor 22. `NamedCommandRuns` says when the floor is right: unless a digit
  follows the payload.
- *command_prefix.* The format is "CMD_NAME" or "CMD_NAME:param" (`max_comm.c:180`).
  `strncmp` is given the payload's length, so every prefix of a name matches: the empty
  payload runs the status command, "e" the emergency stop. `NamedCommandRuns` is what
  is left: a name runs its own command, and nothing but prefixes of it does.

What the passing properties leave out, they leave out because the code does it:
`OnlyOwnAnswerMatches` an answer as late as the frame numbers take to come round,
`PromiseKept` an answer too short (its query is concluded as discarded, and nobody is told),
`OneReport`, `BoardReported` and `CommandReported` a report that was refused (it is never
repeated), `WaitsForDriverOnly` and `OutageEnds` an address that never comes, `DamageDetected` a
burst across the end of the data. And `PromiseKeptFairly`, `DeadPeerDetected`,
`CallsReturn` and `CommandReported` are about a client that does not keep its lock while
it calls the handler: with one that does, tf_task can stop, as *locks_api* shows, and
with it everything that waits for a report.

Two more things `wifi_util.h` promises and the code does not do; they are read off
single statements and have no run. `wifi_init` is to be "blocking until connected"
(line 9), and returns on `WIFI_FAIL_BIT` as well. `wifi_is_connected` is to "check if
WiFi is connected" (line 12), and nothing clears its `WIFI_CONNECTED_BIT`; it has no
caller.

**Bounds of MaxLink.** Two slots instead of four: with two there are a first
and a last one, holes below the last, a full table, and a loop bound above the
last listener. Three query identities, one more than slots, are what
a refused query takes (`link`); an identity is used again as soon as nothing is left of
its last query. One heartbeat identity is enough to see heartbeats overlap in
`link_live`: the next one is due while it is still pending. (`link_stalled` has two, to
show what comes of it, and the proofs any number.) `IdSpan` (128) is 1 where all IDs
shall collide (`link`), and 2 where the property is about IDs (`link_live`):
e-stops between two queries make the counter come round before a late answer. Time-outs of 1 and 2
iterations, so that a tick ends some listeners and not others, and an interval of 2
ticks keep `HbTimeout < HbInterval` as 500 and 1000 do (`pdMS_TO_TICKS(10000)`
at 100 Hz). `LineCap = 1` and `RxBurst = 1`: with these, a frame can still arrive before,
in, or after the iteration in which its listener expires. `age` stops counting at
`IdSpan` and `since` at `HbInterval`; what lies beyond is the same to every
guard. Proofs show that the safety results do not depend on any of these values.
The model of the locks is finite by itself. `Wifi` runs with the program's
`MAX_RETRY = 10`; its queue is never longer than two events, which is proved.
`CHECK_DEADLOCK FALSE` is set where the system may stop: for the WiFi station
that gave up, for `locks_api`, and for `command_prefix` and `command_floor`, whose
client holds its lock as well.

**Bounds of the other runs.** `Wire` has bytes of four values, frames with
bodies of none, one, five and eleven bytes. The body of five passes for a head, the one of
eleven is longer than `MaxPayload = 5`. The send buffer of nine leaves room for two bytes
behind a head: the body of one byte leaves a single free byte where the checksum needs
two, that of five is cut in the middle, that of eleven is cut and fills the buffer to its
last byte. `ParserTimeout = 2` ticks; frames are begun until three blocks are sent
(`MaxBlocks`), so there are two at least; two faults, each a lost byte, a lost run of seven (a head, or
a body of five with its checksum) or of ten (a checksum, a head and a body of one
byte, so that both exceptions of `FrameChannel` do happen) or a start byte out of
nowhere, at every point in time. The proofs show that `wire`'s results do not depend
on these values. `Crc16` has messages of up to
three bytes and any two bytes with up to three flipped bits; its results are proved
for all bytes, all damage and all lengths. `Bridge` has two
commands and a heartbeat over two slots. `bridge` and `command_floor` have four payloads:
a name with a letter too many, a name, and two floors of which one is a digit
longer; `command_prefix` the two of its finding.
`CHECK_DEADLOCK FALSE` is set for `wire` and `crc16`, which end with the last
frame or byte.

**Fairness.** `tf_task` loops for ever and `uart_read_bytes` returns within a
tick, so its steps are weakly fair; reading what has arrived is strongly fair,
since it may also read nothing. The protocol task waits on a delay and on
`tf_mutex`, which `tf_task` gives back in every iteration: strong fairness for
what needs the mutex, since it is free again and again. Time goes on. A frame on
the line is eventually answered, read or lost. The MQTT task and the board owe
nothing. In `Bridge` a publication that has the client's lock returns, and the link concludes every
command while `tf_task` goes on, which is the promise `PromiseKeptFairly` shows `MaxLink` to keep; it is
strong fairness because other callbacks come in between; the broker owes
nothing. In `TaskLocks` a waiting task gets a lock that is free again and again
(FreeRTOS wakes waiting tasks in order of priority, and the section is short),
callbacks and parts of a frame are finite in number. In `Wifi` the driver
times an attempt to associate out; that an address ever follows is not assumed, and with an
access point whose DHCP server never answers `wifi_init` does wait for ever
(`WaitsForAddress`).

## 4. Proofs

All proofs assume only the named assumptions of the modules: `TableAssumption`
and `LinkAssumption` (positive sizes, commands and heartbeats are different
queries, `None` is none of them), `LocksAssumption`, `WifiAssumption`,
`FormatAssumption`, `SendAssumption`, `ParserAssumption`, `WireAssumption` (a frame's
length fits its field, a head and one byte more fit the send buffer), `BridgeAssumption`,
`PayloadAssumption` (payloads are sequences of characters) and `CrcAssumption` (bytes and
flips are sets of the eight positions, lengths are at most `TF_MAX_PAYLOAD_RX` = 128).

| Theorem | Says |
|---|---|
| `MaxLinkProofs!TypeCorrect`, `NoListenerForgotten`, `EveryQueryListened` | `TypeOK`, `LiveBelowCount`, `OneListenerPerQuery` always hold |
| `MaxLinkProofs!LinkKeepsPromise` | `MaxLink` implements `QueryPromise` |
| `MaxLinkIds!AnswersFindTheirQueries` | `OnlyOwnAnswerMatches` |
| `MaxLinkHeartbeat!HeartbeatsApart`, `FlagIsLastHeartbeat` | `AtMostOneHeartbeat`, `ConnectedFollowsHeartbeats`, if `Prompt` |
| `TaskLocksProofs!LocksTyped`, `MutexSound`, `NeverRefused`, `NoMixing` | mutual exclusion, and what it is for |
| `WifiProofs!TypesKept`, `OneRequest`, `GivesUpVisibly`, `NoBitMissed`, `BudgetIsPerOutage` | `TypeOK`, `OneRequestAtATime`, `IdleMeansGivenUp`, `WaitsForDriverOnly`, `GivesUpAfterAllRetries` |
| `WireProofs!EndsWithinBounds` | `sendbuf` and `data` are never left, `rxi` stays inside its field |
| `WireProofs!ChannelImplemented` | `Wire` implements `FrameChannel` (`ChannelKept`) |
| `WireProofs!NothingIsLost` | `NothingLost` |
| `BridgeProofs!BridgeTyped`, `ConfigFirst`, `EachCommandReportedOnce`, `FlagIsReported`, `OnlyItsNameRuns` | `TypeOK`, `ConfiguredInTime`, `OneReport`, `BoardReported`, `NamedCommandRuns` |
| `Crc16Proofs!TableIsAlwaysPolynomial`, `DamageIsDetected` | `TableIsPolynomial`, `DamageDetected` |

*The link.* `OneListenerPerQuery` alone is not inductive: a tick could conclude a
query whose listener it does not reach, so `LiveBelowCount` is needed, and an
answer could conclude two queries, so the listeners' queries must differ.
`LinkInv` is the conjunction, with the types. The first lemmas of `MaxLinkProofs`
say what each operation of the table returns, and one lemma per action uses them.

*The promise.* Every action maps to `Accept`, `Answered`, `TimedOut` or a stutter.
That a query finds a slot only while fewer than `MaxIdLst` are pending is counted
through the injection from pending queries to their listeners' slots.

*Frame IDs.* A query leaves traces (its listener, its frame, its answer). The ID
in a trace determines how many frames ago the query was composed, modulo
`IdSpan`; no two queries are equally old; hence two traces with one ID, both
younger than `IdSpan`, belong to one query. Events carry IDs without the peer bit.

*Heartbeats.* `ClocksAgree`: what has passed of the interval, the listener has
counted down, up to the iteration still to come in this tick. So at the end of
the interval no heartbeat is pending. `Prompt` (no stall, `HbTimeout <
HbInterval`) is needed: `link_stalled` is the counterexample without it.

*Locks.* `LocksInv` adds to the mutual exclusion who has set `soft_lock`, whose
frame is in the buffer and whose on the wire. The proofs hold for both values of
`ApiLocked` and of `Responds`: safety does not depend on the client's lock, progress does.

*WiFi.* The invariant lists what the event queue can contain for each state of
the station; `AddressSaid` adds that an address the handler has seen is signalled.

*The wire.* The conjunction of three invariants, for the sender, the parser and
what is between them, with the types of the sequences added. A byte of a body is
stored only while `rxi` is the number of bytes stored and the length is at most
`MaxPayload`, unless it is discarded; a reset by the time-out does not touch
`rxi`, which is assigned before it is used again.

*The channel.* Which blocks a message is made of cannot be seen in the parser alone; the
invariant says where the parser is among the bytes sent. `Composed` counts the bytes
the sender has composed, `Place` takes off those still on their way. `LogInv`: blocks
follow each other without a gap. `FlightInv`: a byte of a checksum on its way is the one sent
at its place, counted from `Place`, whatever was lost in front of it. So the
checksum that is read next belongs to a later block than every one that was used
(`UsedInv`). `BodyRead` bounds how far behind the accepted head the parser can be by the
bytes read and the bytes lost since, which is the amount `FrameChannel` asks for; a byte
that nobody sent is read and takes it no further (`ReadMore`, `NoiseUnused`). `Wire`'s steps
then map to `Send`, `Lose`, `TakeHead`, `Deliver` or a stutter
(`StepInChannel`).

*Nothing lost.* `OwedInv` says that on a line that works the parser is in step
(`InStep`): between two frames, at its place in a head with every byte read so far, or
at its place in a body, with `discard_data` set if and only if the body is too long;
and that no frame it has passed is owed. The lemmas go through the states
of the parser: `NextSymbol` gives the next byte, `Step...` follow it. That damage is forgotten
only when the parser is in `SOF` again needs that `silent` is never ahead of
`parser_timeout_ticks`.

*The bridge.* `BridgeInv` adds the order of start-up (nothing is pending before
the protocol task runs, the handler is idle until MQTT, which is last), what the report in the outbox may be
about, a count of reports without sets, and that, when no report on the connection is
being made, the last one agrees with the flag or was refused. One lemma,
`ConclusionInv`, stands for every callback that concludes a query.

*Commands.* `BufferOK` is all that is needed of the states: the payload lies in the buffer.
The rest is about the operators: no two names begin with the same letter, so a name matches
no other name, and a number ends where the first character stands that is no digit
(`DigitsOfPrefix`), which is found through the least element of a set of numbers
(`LeastElement`, from the well-foundedness of the naturals). What the digits amount to
(`Value`, a fold) is never expanded.

*The checksum.* Induction over data is done by hand: the theorems of the library
that do it take an operator as a parameter, which the provers cannot use. A set of
exponents has a least element (`LeastExponent`), hence what passes from every number
to the next holds up to any bound (`Upwards`). That a function with the equation of
`Remainder` exists is shown by building it degree by degree (`Divides`, `DividesMore`,
`RemainderDivides`), and by the same induction that it is linear (`RemainderOfSum`)
and what a factor x does to it (`RemainderOfUp`, `RightIsTimesX`). Every one of the 256
entries of the table is what eight shifts of a register make of its index
(`TableFits`), so a step of `CksumAdd` is eight shifts (`CksumAddIsEight`) and appends
a byte to the message that is divided (`CrcOfAppend`): `Checksums` is inductive, and
`TableIsPolynomial` is part of it. `Damages`, the invariant of `DamageDetected`, says
that what the receiver computed differs from what the sender computed by the
remainder of the damage alone, whatever the bytes. A frame is therefore accepted if
and only if the damage of the data, divided, equals that of the checksum
(`AcceptedWhen`). An odd number of flips leaves an odd remainder because the generator has four
terms. A burst is a polynomial of degree below 16, its own remainder, and shifting keeps it from
becoming empty (`Bursts`, `ShiftKeeps`). Two flips at a distance d would need x^d to
have the remainder 1: 64 registers, sixteen bits apart, show that this does not happen up
to d = 1039, the length of the longest body with its checksum (`NoOrder`). This is
where the bound of 128 bytes enters.

Every safety property and both refinements that the passing runs check are proved. Only
model-checked: everything about liveness (`PromiseKeptFairly`, `DeadPeerDetected`,
`CallsReturn`, `OutageEnds`, `CommandReported`), which needs fairness
and `ENABLED`.

## 5. Not modelled

Nothing of the program's own logic is left that changes state and is not an
action of a module. What is left out:

- the parts of TinyFrame no code of the program calls (`TF_Query`, multipart
  frames, renewing and removing listeners), and the tables of type and generic
  listeners, which are filled once and never change;
- the UART driver, the MQTT client, the WiFi driver and the board beyond what
  the program sees of them;
- failures of NVS, of task creation and of the client's initialisation at
  start-up, after which the program does not run on in any useful way;
- logging, the texts of reports, the heartbeat counter, which is only printed
  and sent as text;
- payloads with zeros, blanks or signs, which `atoi` treats in ways of its own.

Worth doing next: `Bridge` over `MaxLink` itself instead of its promise, which is out of
TLC's reach at the present bounds but not out of a proof's.
