------------------------------- MODULE Crc16 -------------------------------
(***************************************************************************)
(* The checksum of a frame's head or body: the table-driven CRC-16 of      *)
(* TinyFrame, computed on the fly by the sender and by the receiver, and   *)
(* the division of polynomials it stands for.                              *)
(*                                                                         *)
(* A byte and a checksum are the sets of the positions of their ones, bit  *)
(* 0 the least significant: exclusive-or is the symmetric difference.      *)
(* Between the two sides a byte may have bits flipped.                     *)
(***************************************************************************)
EXTENDS Naturals, Sequences, FiniteSetsExt

CONSTANTS
  Bytes,     \* bytes sent (bounds the model)
  Flips,     \* bits of a byte that are flipped together (bounds the model)
  MaxLen,    \* bytes a checksum is computed of
  MaxHit     \* bytes that have bits flipped (bounds the model)

\* Of a longer body the parser computes no checksum.
TF_MAX_PAYLOAD_RX == 128

ASSUME CrcAssumption ==
  /\ Bytes \subseteq SUBSET (0 .. 7)
  /\ Flips \subseteq SUBSET (0 .. 7)
  /\ MaxLen \in 1 .. TF_MAX_PAYLOAD_RX
  /\ MaxHit \in Nat

VARIABLES
  stage,        \* the sender's part of the frame: "data", "high", "low", "done"
  tx_cksum,     \* the sender's checksum
  cksum,        \* the receiver's checksum
  ref_cksum,    \* what the receiver collected of the sender's
  \* history
  sent,         \* the bytes the checksum was computed of
  got,          \* the bytes the receiver computed its own of
  damage        \* positions of the flipped bits, in the order of the line

vars == <<stage, tx_cksum, cksum, ref_cksum, sent, got, damage>>

-----------------------------------------------------------------------------
crc16_table == <<
   \h0000, \hC0C1, \hC181, \h0140, \hC301, \h03C0, \h0280, \hC241,
   \hC601, \h06C0, \h0780, \hC741, \h0500, \hC5C1, \hC481, \h0440,
   \hCC01, \h0CC0, \h0D80, \hCD41, \h0F00, \hCFC1, \hCE81, \h0E40,
   \h0A00, \hCAC1, \hCB81, \h0B40, \hC901, \h09C0, \h0880, \hC841,
   \hD801, \h18C0, \h1980, \hD941, \h1B00, \hDBC1, \hDA81, \h1A40,
   \h1E00, \hDEC1, \hDF81, \h1F40, \hDD01, \h1DC0, \h1C80, \hDC41,
   \h1400, \hD4C1, \hD581, \h1540, \hD701, \h17C0, \h1680, \hD641,
   \hD201, \h12C0, \h1380, \hD341, \h1100, \hD1C1, \hD081, \h1040,
   \hF001, \h30C0, \h3180, \hF141, \h3300, \hF3C1, \hF281, \h3240,
   \h3600, \hF6C1, \hF781, \h3740, \hF501, \h35C0, \h3480, \hF441,
   \h3C00, \hFCC1, \hFD81, \h3D40, \hFF01, \h3FC0, \h3E80, \hFE41,
   \hFA01, \h3AC0, \h3B80, \hFB41, \h3900, \hF9C1, \hF881, \h3840,
   \h2800, \hE8C1, \hE981, \h2940, \hEB01, \h2BC0, \h2A80, \hEA41,
   \hEE01, \h2EC0, \h2F80, \hEF41, \h2D00, \hEDC1, \hEC81, \h2C40,
   \hE401, \h24C0, \h2580, \hE541, \h2700, \hE7C1, \hE681, \h2640,
   \h2200, \hE2C1, \hE381, \h2340, \hE101, \h21C0, \h2080, \hE041,
   \hA001, \h60C0, \h6180, \hA141, \h6300, \hA3C1, \hA281, \h6240,
   \h6600, \hA6C1, \hA781, \h6740, \hA501, \h65C0, \h6480, \hA441,
   \h6C00, \hACC1, \hAD81, \h6D40, \hAF01, \h6FC0, \h6E80, \hAE41,
   \hAA01, \h6AC0, \h6B80, \hAB41, \h6900, \hA9C1, \hA881, \h6840,
   \h7800, \hB8C1, \hB981, \h7940, \hBB01, \h7BC0, \h7A80, \hBA41,
   \hBE01, \h7EC0, \h7F80, \hBF41, \h7D00, \hBDC1, \hBC81, \h7C40,
   \hB401, \h74C0, \h7580, \hB541, \h7700, \hB7C1, \hB681, \h7640,
   \h7200, \hB2C1, \hB381, \h7340, \hB101, \h71C0, \h7080, \hB041,
   \h5000, \h90C1, \h9181, \h5140, \h9301, \h53C0, \h5280, \h9241,
   \h9601, \h56C0, \h5780, \h9741, \h5500, \h95C1, \h9481, \h5440,
   \h9C01, \h5CC0, \h5D80, \h9D41, \h5F00, \h9FC1, \h9E81, \h5E40,
   \h5A00, \h9AC1, \h9B81, \h5B40, \h9901, \h59C0, \h5880, \h9841,
   \h8801, \h48C0, \h4980, \h8941, \h4B00, \h8BC1, \h8A81, \h4A40,
   \h4E00, \h8EC1, \h8F81, \h4F40, \h8D01, \h4DC0, \h4C80, \h8C41,
   \h4400, \h84C1, \h8581, \h4540, \h8701, \h47C0, \h4680, \h8641,
   \h8201, \h42C0, \h4380, \h8341, \h4100, \h81C1, \h8081, \h4040 >>

NumberOf(S) ==
  LET bit(i) == IF i \in S THEN 2 ^ i ELSE 0
  IN  bit(0) + bit(1) + bit(2) + bit(3) + bit(4) + bit(5) + bit(6) + bit(7)

BitsOf(n)   == {i \in 0 .. 15 : (n \div 2 ^ i) % 2 = 1}

\* The table by the bits of its index, the first entry being that of index 0.
Entry == [S \in SUBSET (0 .. 7) |-> BitsOf(crc16_table[NumberOf(S) + 1])]

LowByte(c)  == c \cap 0 .. 7
HighByte(c) == {i - 8 : i \in c \cap 8 .. 15}

CksumStart == {}

\* Slips: the high byte of the old checksum is lost; the old checksum has no
\* part in the index.
CksumAdd_NoHigh(c, byte)  == Entry[LowByte(SymDiff(c, byte))]
CksumAdd_NoIndex(c, byte) == SymDiff(HighByte(c), Entry[byte])

\* TF_CksumAdd
CksumAdd(c, byte) == SymDiff(HighByte(c), Entry[LowByte(SymDiff(c, byte))])

-----------------------------------------------------------------------------
Init ==
  /\ stage = "data"
  /\ tx_cksum = CksumStart /\ cksum = CksumStart /\ ref_cksum = {}
  /\ sent = <<>> /\ got = <<>>
  /\ damage = {}

\* The line carries the n-th byte of the whole from bit 0 on.
Damaged(n, flipped) ==
  /\ damage' = damage \cup {8 * (n - 1) + i : i \in flipped}
  /\ Cardinality({i \div 8 : i \in damage'}) <= MaxHit

\* A byte is composed, flipped and parsed.
DataByte(b, flipped) ==
  /\ stage = "data"
  /\ Len(sent) < MaxLen
  /\ tx_cksum' = CksumAdd(tx_cksum, b)
  /\ cksum' = CksumAdd(cksum, SymDiff(b, flipped))
  /\ sent' = Append(sent, b)
  /\ got' = Append(got, SymDiff(b, flipped))
  /\ Damaged(Len(sent'), flipped)
  /\ UNCHANGED <<stage, ref_cksum>>

EndOfData ==
  /\ stage = "data"
  /\ sent # <<>>
  /\ stage' = "high"
  /\ UNCHANGED <<tx_cksum, cksum, ref_cksum, sent, got, damage>>

\* WRITENUM writes the checksum high byte first; COLLECT_NUMBER shifts it in.
CksumByte(flipped) ==
  LET byte == IF stage = "high" THEN HighByte(tx_cksum) ELSE LowByte(tx_cksum)
  IN  /\ stage \in {"high", "low"}
      /\ ref_cksum' = {i + 8 : i \in LowByte(ref_cksum)} \cup SymDiff(byte, flipped)
      /\ Damaged(Len(sent) + (IF stage = "high" THEN 1 ELSE 2), flipped)
      /\ stage' = IF stage = "high" THEN "low" ELSE "done"
      /\ UNCHANGED <<tx_cksum, cksum, sent, got>>

Next ==
  \/ \E b \in Bytes, flipped \in Flips : DataByte(b, flipped)
  \/ EndOfData
  \/ \E flipped \in Flips : CksumByte(flipped)

Spec == Init /\ [][Next]_vars

Accepted == stage = "done" /\ ref_cksum = cksum

-----------------------------------------------------------------------------
\* Polynomials with coefficients 0 and 1, as the sets of their exponents.
Generator == {16, 15, 2, 0}

\* Those of the longest message there is.
Exponents == 0 .. 8 * MaxLen + 15

\* A step of the long division takes the highest exponent away.
Reduced(p) == SymDiff(p, {g + (Max(p) - 16) : g \in Generator})

Remainder[p \in SUBSET Exponents] ==
  IF p = {} \/ Max(p) < 16 THEN p ELSE Remainder[Reduced(p)]

\* A message with the room for its checksum: the bit that is first on the line
\* has the highest exponent.
Polynomial(bytes) ==
  UNION {{16 + 8 * (Len(bytes) - k) + (7 - i) : i \in bytes[k]} : k \in DOMAIN bytes}

\* The checksum's bit 0 stands for the highest exponent.
Crc(bytes) == {15 - e : e \in Remainder[Polynomial(bytes)]}

\* The entries of the table and the way they are combined byte by byte give the
\* remainder of the whole message by x^16 + x^15 + x^2 + 1, on either side.
TableIsPolynomial == tx_cksum = Crc(sent) /\ cksum = Crc(got)

DataBits == 0 .. 8 * Len(sent) - 1

\* Damage a checksum of this kind is chosen to find: an odd number of bits, two
\* bits, or a burst of at most 16 bits inside the data or inside the checksum.
\* (A burst across the end of the data is not on this list: the checksum's bytes
\* go out in the other order than its polynomial asks for.)
Detectable ==
  \/ Cardinality(damage) % 2 = 1
  \/ Cardinality(damage) = 2
  \/ damage # {} /\ damage \cap DataBits = {}
  \/ damage # {} /\ damage \subseteq DataBits /\ Max(damage) - Min(damage) < 16

\* The receiver accepts nothing with such damage, and everything without.
DamageDetected ==
  /\ Accepted => ~Detectable
  /\ stage = "done" /\ damage = {} => Accepted
=============================================================================
