------------------------------ MODULE TFFormat ------------------------------
(***************************************************************************)
(* The frames of TinyFrame on the line, shared by the sending and the      *)
(* receiving half: start byte, ID, length, type, checksum of the head;     *)
(* and, if the length is not zero, the body and its checksum.              *)
(*                                                                         *)
(* A checksum is taken to be ideal: it stands for the bytes it was         *)
(* computed of, and fits no others (module Crc16 looks at how far the      *)
(* CRC-16 deserves that).  So a byte of a checksum is a symbol that names  *)
(* those bytes; read as anything but a checksum, out of step, it has some  *)
(* value of CksumBytes.                                                    *)
(***************************************************************************)
EXTENDS Naturals, Sequences

CONSTANTS
  Base,        \* values of a byte (256)
  CksumBytes,  \* values a byte of a checksum takes when it is read as data
  Frames       \* the frames that are sent (bounds the model)

Byte == 0 .. Base - 1

Sof == 1          \* TF_SOF_BYTE
CksumWidth == 2   \* sizeof(TF_CKSUM)
HeadWidth == 7    \* start, ID, two of length, type, checksum

ASSUME FormatAssumption ==
  /\ Base \in Nat \ {0, 1}
  /\ CksumBytes \subseteq Byte
  /\ Frames \subseteq [id : Byte, type : Byte, data : Seq(Byte)]
  /\ \A f \in Frames : Len(f.data) < Base * Base

\* What the line carries.  n, which nothing in the program reads, is the number
\* of the block (below) the checksum was sent behind.
Plain(v) == [value |-> v]
Cksum(of, k, n) == [of |-> of, k |-> k, n |-> n]

IsCksum(c) == "of" \in DOMAIN c

ValuesOf(c) == IF IsCksum(c) THEN CksumBytes ELSE {c.value}

\* The bytes the checksum of a frame's head is computed of, the length as two
\* bytes, high byte first.
HeadBytes(f) ==
  <<Sof, f.id, Len(f.data) \div Base, Len(f.data) % Base, f.type>>

Symbols(bytes) == [i \in DOMAIN bytes |-> Plain(bytes[i])]

CksumOf(bytes, n) == [k \in 1 .. CksumWidth |-> Cksum(bytes, k, n)]

\* What is checked together: the head of a frame, or its body.  end counts the
\* bytes sent up to and with its checksum.
Block(part, bytes, at) ==
  [part |-> part, bytes |-> bytes, end |-> at + Len(bytes) + CksumWidth]

Start(b) == b.end - CksumWidth - Len(b.bytes)

\* The blocks of a frame that begins behind at bytes.
Blocks(f, at) ==
  LET head == Block("head", HeadBytes(f), at)
  IN  IF f.data = <<>> THEN <<head>> ELSE <<head, Block("body", f.data, head.end)>>

\* The bytes of some blocks, the last of which is the latest.
Total(log) == IF log = <<>> THEN 0 ELSE log[Len(log)].end

\* What is read in five bytes that pass for the head of a frame.
PassForHead(bytes) == Len(bytes) = HeadWidth - CksumWidth /\ bytes[1] = Sof
LengthIn(bytes) == bytes[3] * Base + bytes[4]
FrameOf(bytes, body) == [id |-> bytes[2], type |-> bytes[5], data |-> body]
=============================================================================
