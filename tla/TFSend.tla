------------------------------- MODULE TFSend -------------------------------
(***************************************************************************)
(* The sending half of TinyFrame: TF_SendFrame, which composes a frame in  *)
(* a buffer of SendbufLen bytes and writes it out whenever the buffer is   *)
(* full.  Each call of TF_WriteImpl ends a step, for what it writes is on  *)
(* the line while the rest is still composed.  That one frame is composed  *)
(* at a time is what module TaskLocks is about; its number is one more     *)
(* of the frame's fields here (module IdListeners numbers frames).         *)
(***************************************************************************)
EXTENDS TFFormat

CONSTANTS
  SendbufLen,   \* TF_SENDBUF_LEN (64)
  MaxBlocks     \* blocks sent (bounds the model)

ASSUME SendAssumption ==
  /\ SendbufLen \in Nat
  /\ SendbufLen >= HeadWidth + 1
  /\ MaxBlocks \in Nat

VARIABLES
  send_pc,    \* "idle", "chunk", "end", "write"
  sendbuf,    \* the first tx_pos bytes of sendbuf
  msg,        \* the message being sent
  chunked,    \* bytes of its body composed so far
  tx_cksum,   \* the bytes tx_cksum was computed of
  line,       \* written and not yet taken from the UART, oldest first
  log         \* history: the blocks of the frames begun, in order

sendVars == <<send_pc, sendbuf, msg, chunked, tx_cksum, log>>

NoMsg == [id |-> 0, type |-> 0, data |-> <<>>]

SendTypeOK ==
  /\ send_pc \in {"idle", "chunk", "end", "write"}
  /\ Len(sendbuf) <= SendbufLen
  /\ msg \in Frames \cup {NoMsg}
  /\ chunked \in 0 .. Len(msg.data)
  /\ Len(tx_cksum) = chunked
  /\ Len(log) <= MaxBlocks + 1

SendInit ==
  /\ send_pc = "idle"
  /\ sendbuf = <<>>
  /\ msg = NoMsg
  /\ chunked = 0
  /\ tx_cksum = <<>>
  /\ log = <<>>

\* TF_WriteImpl
Write(symbols) == line' = line \o symbols

\* TF_SendFrame_Begin: the head is composed at the start of the buffer.
SendBegin(f) ==
  /\ send_pc = "idle"
  /\ Len(log) < MaxBlocks
  /\ log' = log \o Blocks(f, Total(log))
  /\ msg' = f
  /\ sendbuf' = Symbols(HeadBytes(f)) \o CksumOf(HeadBytes(f), Len(log) + 1)
  /\ chunked' = 0
  /\ tx_cksum' = <<>>
  /\ send_pc' = IF f.data = <<>> THEN "end" ELSE "chunk"
  /\ UNCHANGED line

Least(m, n) == IF m < n THEN m ELSE n

\* A round of the loop in TF_SendFrame_Chunk: as much of the body as fits, and
\* the buffer is written when that fills it.
SendChunk ==
  LET size == Least(SendbufLen - Len(sendbuf), Len(msg.data) - chunked)
      part == SubSeq(msg.data, chunked + 1, chunked + size)
      full == sendbuf \o Symbols(part)
  IN  /\ send_pc = "chunk"
      /\ chunked' = chunked + size
      /\ tx_cksum' = tx_cksum \o part
      /\ IF Len(full) = SendbufLen
         THEN Write(full) /\ sendbuf' = <<>>
         ELSE UNCHANGED line /\ sendbuf' = full
      /\ send_pc' = IF chunked' = Len(msg.data) THEN "end" ELSE "chunk"
      /\ UNCHANGED <<msg, log>>

\* A slip the checks must notice: no room is made for the checksum.
SendEnd_NoFlush ==
  /\ send_pc = "end"
  /\ sendbuf' = IF msg.data = <<>> THEN sendbuf ELSE sendbuf \o CksumOf(tx_cksum, Len(log))
  /\ send_pc' = "write"
  /\ UNCHANGED <<msg, chunked, tx_cksum, log, line>>

\* TF_SendFrame_End: room is made for the checksum of the body, if there is
\* one, and it is composed.
SendEnd ==
  LET crowded == msg.data # <<>> /\ SendbufLen - Len(sendbuf) < CksumWidth
      tail == IF msg.data = <<>> THEN <<>> ELSE CksumOf(tx_cksum, Len(log))
  IN  /\ send_pc = "end"
      /\ IF crowded THEN Write(sendbuf) ELSE UNCHANGED line
      /\ sendbuf' = IF crowded THEN tail ELSE sendbuf \o tail
      /\ send_pc' = "write"
      /\ UNCHANGED <<msg, chunked, tx_cksum, log>>

\* ... and what remains is written.
SendWrite ==
  /\ send_pc = "write"
  /\ Write(sendbuf)
  /\ sendbuf' = <<>>
  /\ send_pc' = "idle"
  /\ msg' = NoMsg /\ chunked' = 0 /\ tx_cksum' = <<>>
  /\ UNCHANGED log

Sender == (\E f \in Frames : SendBegin(f)) \/ SendChunk \/ SendEnd \/ SendWrite
=============================================================================
