---------------------------- MODULE FrameChannel ----------------------------
(***************************************************************************)
(* What the framing of TinyFrame promises about a line that loses and      *)
(* invents bytes.  Head and body are checked apart, so it promises         *)
(* something of these blocks, not of frames: a message is a block that     *)
(* passes for a head and a later one of the length it tells, no block is   *)
(* used twice and none after a later one.                                  *)
(*                                                                         *)
(* That the body is the next block behind the head is promised as long as  *)
(* nothing is lost after the head: to put another in its place, as many    *)
(* bytes as lie between the two must be lost from there on.  And nothing   *)
(* tells a head from a body of five bytes that begins like one.            *)
(***************************************************************************)
EXTENDS TFFormat

VARIABLES
  log,      \* the blocks of all frames sent
  got,      \* all frames handed over
  upto,     \* the last block of log that was used
  head,     \* the last block taken for a head
  lost      \* bytes lost since then

vars == <<log, got, upto, head, lost>>

Init ==
  /\ log = <<>>
  /\ got = <<>>
  /\ upto = 0
  /\ head = 0
  /\ lost = 0

Send(f) ==
  /\ log' = log \o Blocks(f, Total(log))
  /\ UNCHANGED <<got, upto, head, lost>>

Lose ==
  /\ lost' > lost
  /\ UNCHANGED <<log, got, upto, head>>

\* Block h is taken for a head; one that tells of no body is a frame.
TakeHead(h) ==
  /\ head < h /\ upto < h
  /\ PassForHead(log[h].bytes)
  /\ head' = h
  /\ lost' = 0
  /\ IF LengthIn(log[h].bytes) = 0
     THEN got' = Append(got, FrameOf(log[h].bytes, <<>>)) /\ upto' = h
     ELSE UNCHANGED <<got, upto>>
  /\ UNCHANGED log

\* The head gets its body, from block b.
Deliver(b) ==
  /\ upto < head
  /\ head < b
  /\ LengthIn(log[head].bytes) = Len(log[b].bytes)
  /\ lost >= Start(log[b]) - log[head].end
  /\ got' = Append(got, FrameOf(log[head].bytes, log[b].bytes))
  /\ upto' = b
  /\ UNCHANGED <<log, head, lost>>

Next ==
  \/ \E f \in Frames : Send(f)
  \/ Lose
  \/ \E k \in DOMAIN log : TakeHead(k) \/ Deliver(k)

Spec == Init /\ [][Next]_vars
=============================================================================
