-------------------------------- MODULE Wire --------------------------------
(***************************************************************************)
(* A line from a peer that sends with TinyFrame to the parser of another,  *)
(* one direction of the UART between the ESP32 and the MAX32655 (both run  *)
(* the library with one format, as TF_Config.h asks): TFSend writes,       *)
(* tf_task reads, parses and ticks, and in between bytes are lost, alone   *)
(* or in a run (the UART's buffer overflows while tf_task is held up), and *)
(* noise comes in.                                                         *)
(***************************************************************************)
EXTENDS TFSend, TFParser

CONSTANTS
  LineCap,     \* bytes waiting before a new write (bounds the model)
  Runs,        \* lengths of the runs of bytes that are lost (bounds the model)
  Noise,       \* values of bytes that come from nowhere (bounds the model)
  MaxFaults    \* runs lost and noise bytes (bounds the model)

ASSUME WireAssumption ==
  /\ Runs \subseteq Nat
  /\ Noise \subseteq Byte
  /\ MaxFaults \in Nat

VARIABLES
  got_bytes,   \* has this iteration of tf_task read a byte?
  faults,      \* runs lost and noise bytes so far
  \* history
  lost,        \* bytes lost since the last head was accepted
  silent,      \* ticks since anything was on the line, up to ParserTimeout
  damaged,     \* has the line failed since it was last silent for long?
  owed         \* frames sent since then and not handed over yet: their heads' blocks

wireVars == <<got_bytes, faults, lost, silent, damaged, owed>>
vars == <<sendVars, line, parserVars, wireVars>>

TypeOK ==
  /\ SendTypeOK
  /\ ParserTypeOK
  /\ got_bytes \in BOOLEAN
  /\ faults \in 0 .. MaxFaults
  /\ silent \in 0 .. ParserTimeout
  /\ damaged \in BOOLEAN

Init ==
  /\ SendInit
  /\ ParserInit
  /\ line = <<>>
  /\ got_bytes = FALSE
  /\ faults = 0
  /\ lost = 0
  /\ silent = 0
  /\ damaged = FALSE
  /\ owed = {}

Quiet == line = <<>> /\ send_pc = "idle"

\* A frame of which every byte is going to arrive in time is owed to the
\* listeners, unless its body is longer than the parser stores.
Send ==
  /\ Len(line) < LineCap
  /\ Sender
  /\ silent' = 0
  /\ owed' = IF log' # log /\ ~damaged /\ Len(msg'.data) <= MaxPayload
             THEN owed \cup {Len(log) + 1} ELSE owed
  /\ UNCHANGED <<parserVars, got_bytes, faults, lost, damaged>>

\* The frame that is no longer owed with a message: the one whose head and body,
\* which is the next block, it is made of.
Kept(message) ==
  {b \in {message.head} : message.body = IF message.frame.data = <<>> THEN b ELSE b + 1}

\* tf_task: uart_read_bytes and TF_Accept, a byte at a time.
Accept ==
  /\ line # <<>>
  /\ AcceptChar(Head(line))
  /\ line' = Tail(line)
  /\ got_bytes' = TRUE
  /\ owed' = IF handed' # handed THEN owed \ Kept(handed'[Len(handed')]) ELSE owed
  /\ lost' = IF head' = head THEN lost ELSE 0
  /\ UNCHANGED <<sendVars, faults, silent, damaged>>

\* tf_task: TF_Tick, after uart_read_bytes returned some bytes, or none when
\* there were none.  A sender that keeps the parser waiting for ParserTimeout
\* ticks inside a frame has broken it.
Tick ==
  /\ got_bytes \/ line = <<>>
  /\ ParserTick
  /\ got_bytes' = FALSE
  /\ silent' = IF Quiet THEN Least(silent + 1, ParserTimeout) ELSE 0
  /\ IF ~Quiet /\ parser_timeout_ticks' = ParserTimeout
     THEN damaged' = TRUE /\ owed' = {}
     ELSE damaged' = (damaged /\ silent' < ParserTimeout) /\ UNCHANGED owed
  /\ UNCHANGED <<sendVars, line, faults, lost>>

Fail ==
  /\ faults < MaxFaults
  /\ faults' = faults + 1
  /\ damaged' = TRUE
  /\ owed' = {}
  /\ silent' = 0
  /\ UNCHANGED sendVars

LoseRun(n) ==
  /\ n <= Len(line)
  /\ line' = SubSeq(line, n + 1, Len(line))
  /\ lost' = lost + n
  /\ Fail
  /\ UNCHANGED <<parserVars, got_bytes>>

\* A byte nobody sent, in front of those on the line.
NoiseByte(v) ==
  /\ AcceptChar(Plain(v))
  /\ got_bytes' = TRUE
  /\ Fail
  /\ UNCHANGED <<line, lost>>

Next ==
  \/ Send
  \/ Accept
  \/ Tick
  \/ \E n \in Runs : LoseRun(n)
  \/ \E v \in Noise : NoiseByte(v)

Spec == Init /\ [][Next]_vars

-----------------------------------------------------------------------------
\* Whatever bytes are lost or come in, however long the pauses and whatever the
\* fields of the parser still hold of older frames: what is handed over is made
\* of blocks that were sent, each once at most and in their order; and a body
\* that is not the next block behind the head is taken only if, since that head
\* was accepted, as many bytes were lost as lie between the two.
Channel == INSTANCE FrameChannel
  WITH got <- [i \in DOMAIN handed |-> handed[i].frame],
       upto <- IF handed = <<>> THEN 0 ELSE handed[Len(handed)].body

ChannelKept == Channel!Spec

\* No frame is lost that was sent on a line that works: not one that follows
\* another at once, not one after a frame too long to store, and not one after
\* any damage, once the line has been silent for ParserTimeout ticks.
NothingLost == Quiet /\ ~damaged => owed = {}
=============================================================================
