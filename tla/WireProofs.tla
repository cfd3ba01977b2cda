----------------------------- MODULE WireProofs -----------------------------
(***************************************************************************)
(* The line for every frame, buffer size, payload limit and time-out, and  *)
(* whatever it loses or invents: the bounds of both ends; that what is     *)
(* handed over is what the channel allows; and that nothing is lost while  *)
(* the line works.                                                         *)
(***************************************************************************)
EXTENDS Wire, SequenceTheorems, TLAPS

\* What a place on the line or in the send buffer holds, and a block.
Symbol == [value : Byte] \cup [of : Seq(Byte), k : 1 .. CksumWidth, n : Nat]
BlockType == [part : {"head", "body"}, bytes : Seq(Byte), end : Nat]

\* The ends of the line, and what is between them.
SendInv ==
  /\ SendTypeOK
  /\ sendbuf \in Seq(Symbol)
  /\ tx_cksum \in Seq(Byte)
  /\ log \in Seq(BlockType)

ParserInv ==
  /\ ParserTypeOK
  /\ data \in Seq(Byte) /\ cksum \in Seq(Byte)
  /\ ref_cksum \in Seq(Symbol)

LineInv ==
  /\ line \in Seq(Symbol)
  /\ got_bytes \in BOOLEAN
  /\ faults \in 0 .. MaxFaults
  /\ silent \in 0 .. ParserTimeout
  /\ damaged \in BOOLEAN

WireInv == SendInv /\ ParserInv /\ LineInv

-----------------------------------------------------------------------------
LEMMA ByteFacts ==
  /\ Base \in Nat /\ Base > 1
  /\ Base * Base \in Nat /\ Base * Base > 1
  /\ 0 \in Byte /\ Sof \in Byte /\ Byte \subseteq Nat
BY FormatAssumption DEF Byte, Sof

LEMMA WireInit == Init => WireInv
<1> SUFFICES ASSUME Init PROVE WireInv
  OBVIOUS
<1>1. SendInv
  BY SendAssumption, EmptySeq DEF Init, SendInit, SendInv, SendTypeOK, NoMsg, HeadWidth
<1>2. ParserInv
  <2>1. ParserTypeOK
    <3>1. len \in 0 .. Base * Base - 1
      BY ByteFacts DEF Init, ParserInit
    <3>2. rxi \in Nat /\ id \in Byte /\ type \in Byte /\ Len(data) <= MaxPayload
      BY ByteFacts, ParserAssumption DEF Init, ParserInit
    <3>3. state = "SOF" /\ discard_data \in BOOLEAN /\ parser_timeout_ticks \in 0 .. ParserTimeout
      <4>1. 0 \in 0 .. ParserTimeout
        BY ParserAssumption
      <4> QED
        BY <4>1 DEF Init, ParserInit
    <3> QED
      BY <3>1, <3>2, <3>3 DEF ParserTypeOK, States
  <2>2. data \in Seq(Byte) /\ cksum \in Seq(Byte) /\ ref_cksum \in Seq(Symbol)
    BY EmptySeq DEF Init, ParserInit
  <2> QED
    BY <2>1, <2>2 DEF ParserInv
<1>3. LineInv
  <2>1. faults \in 0 .. MaxFaults /\ silent \in 0 .. ParserTimeout
    BY ParserAssumption, WireAssumption DEF Init
  <2>2. line \in Seq(Symbol) /\ got_bytes \in BOOLEAN /\ damaged \in BOOLEAN
    BY EmptySeq DEF Init
  <2> QED
    BY <2>1, <2>2 DEF LineInv
<1> QED
  BY <1>1, <1>2, <1>3 DEF WireInv

-----------------------------------------------------------------------------
(* What is composed.                                                       *)

\* Bytes and checksums as symbols.
LEMMA SymbolsType ==
  ASSUME NEW s \in Seq(Byte)
  PROVE  Symbols(s) \in Seq(Symbol) /\ Len(Symbols(s)) = Len(s)
BY DEF Symbols, Plain, Symbol

LEMMA CksumType ==
  ASSUME NEW s \in Seq(Byte), NEW n \in Nat
  PROVE  CksumOf(s, n) \in Seq(Symbol) /\ Len(CksumOf(s, n)) = 2
BY DEF CksumOf, Cksum, CksumWidth, Symbol

LEMMA DivMod ==
  ASSUME NEW n \in Nat
  PROVE  n \div Base \in Nat /\ n % Base \in 0 .. Base - 1 /\ n = Base * (n \div Base) + (n % Base)
<1> DEFINE d == n \div Base
           r == n % Base
<1>1. d \in Nat /\ r \in 0 .. Base - 1 /\ n = Base * d + r
  BY ByteFacts
<1> QED
  BY <1>1

\* The length of a body fits in two bytes.
LEMMA LengthBytes ==
  ASSUME NEW n \in Nat, n < Base * Base
  PROVE  n \div Base \in Byte /\ n % Base \in Byte
<1> DEFINE d == n \div Base
           r == n % Base
<1>1. d \in Nat /\ r \in 0 .. Base - 1 /\ n = Base * d + r
  BY DivMod
<1> HIDE DEF d, r
<1>2. d < Base
  <2> SUFFICES ASSUME d >= Base PROVE FALSE
    BY <1>1, ByteFacts
  <2>1. Base * d >= Base * Base
    BY <1>1, ByteFacts
  <2> QED
    BY <1>1, <2>1, ByteFacts
<1> QED
  BY <1>1, <1>2, ByteFacts DEF Byte, d, r

LEMMA HeadBytesType ==
  ASSUME NEW f \in Frames
  PROVE  HeadBytes(f) \in Seq(Byte) /\ Len(HeadBytes(f)) = 5
<1>1. /\ f.id \in Byte /\ f.type \in Byte
      /\ Len(f.data) \in Nat /\ Len(f.data) < Base * Base
  BY FormatAssumption
<1>2. Len(f.data) \div Base \in Byte /\ Len(f.data) % Base \in Byte
  BY <1>1, LengthBytes
<1>3. Sof \in Byte
  BY ByteFacts
<1> DEFINE hi == Len(f.data) \div Base
           lo == Len(f.data) % Base
<1> HIDE DEF hi, lo
<1>4. hi \in Byte /\ lo \in Byte /\ HeadBytes(f) = <<Sof, f.id, hi, lo, f.type>>
  BY <1>2 DEF HeadBytes, hi, lo
<1> QED
  BY <1>1, <1>3, <1>4

LEMMA BlockIs ==
  ASSUME NEW bytes \in Seq(Byte), NEW at \in Nat, NEW part \in {"head", "body"}
  PROVE  LET b == Block(part, bytes, at)
         IN  /\ b \in BlockType /\ b.end = at + Len(bytes) + CksumWidth
             /\ b.part = part /\ b.bytes = bytes /\ Start(b) = at
<1> DEFINE n == Len(bytes)
           b == Block(part, bytes, at)
<1>1. n \in Nat
  OBVIOUS
<1>2. /\ b = [part |-> part, bytes |-> bytes, end |-> at + n + CksumWidth]
      /\ Start(b) = b.end - CksumWidth - Len(b.bytes)
  BY DEF Block, Start
<1> HIDE DEF b
<1>3. b.part = part /\ b.bytes = bytes /\ b.end = at + n + CksumWidth
  BY <1>2
<1>4. Start(b) = at
  BY <1>1, <1>2, <1>3 DEF CksumWidth
<1>5. b \in BlockType
  BY <1>1, <1>2 DEF BlockType, CksumWidth
<1> QED
  BY <1>3, <1>4, <1>5 DEF b

\* The blocks of a frame: its head, and a body behind it unless it is empty.
LEMMA BlocksAre ==
  ASSUME NEW f \in Frames, NEW at \in Nat
  PROVE  LET first == Block("head", HeadBytes(f), at)
             body == Block("body", f.data, at + HeadWidth)
         IN  /\ first \in BlockType /\ first.end = at + HeadWidth
             /\ Blocks(f, at) = IF f.data = <<>> THEN <<first>> ELSE <<first, body>>
             /\ f.data \in Seq(Byte) /\ body \in BlockType
             /\ Start(first) = at /\ Start(body) = first.end
<1>1. HeadBytes(f) \in Seq(Byte) /\ Len(HeadBytes(f)) = 5
  BY HeadBytesType
<1>2. f.data \in Seq(Byte) /\ Len(f.data) \in Nat
  BY FormatAssumption
<1> DEFINE bytes == HeadBytes(f)
           first == Block("head", bytes, at)
           body == Block("body", f.data, at + HeadWidth)
<1> HIDE DEF bytes
<1>3. first \in BlockType /\ first.end = at + HeadWidth /\ Start(first) = at
  <2>1. bytes \in Seq(Byte) /\ Len(bytes) = 5
    BY <1>1 DEF bytes
  <2>2. first \in BlockType /\ first.end = at + Len(bytes) + CksumWidth /\ Start(first) = at
    BY <2>1, BlockIs
  <2> HIDE DEF first
  <2> QED
    BY <2>1, <2>2 DEF HeadWidth, CksumWidth
<1>4. body \in BlockType /\ Start(body) = at + HeadWidth
  <2>1. at + HeadWidth \in Nat
    BY DEF HeadWidth
  <2> QED
    BY <1>2, <2>1, BlockIs
<1>5. Blocks(f, at) = IF f.data = <<>> THEN <<first>> ELSE <<first, body>>
  BY <1>3 DEF Blocks, bytes
<1> QED
  BY <1>2, <1>3, <1>4, <1>5 DEF bytes

LEMMA BlocksType ==
  ASSUME NEW f \in Frames, NEW at \in Nat
  PROVE  Blocks(f, at) \in Seq(BlockType) /\ Len(Blocks(f, at)) \in {1, 2}
<1> DEFINE first == Block("head", HeadBytes(f), at)
           body == Block("body", f.data, at + HeadWidth)
<1>1. /\ first \in BlockType /\ body \in BlockType
      /\ Blocks(f, at) = IF f.data = <<>> THEN <<first>> ELSE <<first, body>>
  BY BlocksAre
<1> HIDE DEF first, body
<1> QED
  BY <1>1

LEMMA TotalType ==
  ASSUME NEW l \in Seq(BlockType)
  PROVE  Total(l) \in Nat
<1>1. CASE l = <<>>
  BY <1>1 DEF Total
<1>2. CASE l # <<>>
  <2>1. l[Len(l)] \in BlockType
    BY <1>2
  <2> QED
    BY <1>2, <2>1 DEF Total, BlockType
<1> QED
  BY <1>1, <1>2

-----------------------------------------------------------------------------
(* The sender.                                                             *)

\* A frame begins: its head fits in the buffer.
LEMMA SendBeginInv ==
  ASSUME SendInv, line \in Seq(Symbol), NEW f \in Frames, SendBegin(f)
  PROVE  SendInv' /\ line' \in Seq(Symbol)
<1> DEFINE bytes == HeadBytes(f)
<1>1. bytes \in Seq(Byte) /\ Len(bytes) = 5
  BY HeadBytesType
<1> HIDE DEF bytes
<1>2. /\ log' \in Seq(BlockType) /\ Len(log') <= MaxBlocks + 1
      /\ Len(log) + 1 \in Nat
  <2>1. /\ log \in Seq(BlockType) /\ Len(log) \in Nat /\ Len(log) < MaxBlocks
        /\ log' = log \o Blocks(f, Total(log))
    BY DEF SendBegin, SendInv
  <2>2. /\ Blocks(f, Total(log)) \in Seq(BlockType)
        /\ Len(Blocks(f, Total(log))) \in {1, 2}
    BY <2>1, TotalType, BlocksType
  <2> DEFINE new == Blocks(f, Total(log))
  <2> HIDE DEF new
  <2>3. log' \in Seq(BlockType) /\ Len(log') = Len(log) + Len(new)
    BY <2>1, <2>2, ConcatProperties DEF new
  <2>4. \A k \in {1, 2} : Len(log) + k <= MaxBlocks + 1
    BY <2>1, SendAssumption
  <2>5. Len(new) \in {1, 2}
    BY <2>2 DEF new
  <2>6. Len(log') <= MaxBlocks + 1
    BY <2>3, <2>4, <2>5, Zenon
  <2> QED
    BY <2>1, <2>3, <2>6
<1>3. /\ Symbols(bytes) \in Seq(Symbol) /\ Len(Symbols(bytes)) = 5
      /\ CksumOf(bytes, Len(log) + 1) \in Seq(Symbol) /\ Len(CksumOf(bytes, Len(log) + 1)) = 2
  BY <1>1, <1>2, SymbolsType, CksumType
<1>4. sendbuf' = Symbols(bytes) \o CksumOf(bytes, Len(log) + 1)
  BY DEF SendBegin, bytes
<1>5. sendbuf' \in Seq(Symbol) /\ Len(sendbuf') <= SendbufLen
  <2>1. sendbuf' \in Seq(Symbol) /\ Len(sendbuf') = 7
    <3> DEFINE hd == Symbols(bytes)
               ck == CksumOf(bytes, Len(log) + 1)
    <3>1. hd \in Seq(Symbol) /\ Len(hd) = 5 /\ ck \in Seq(Symbol) /\ Len(ck) = 2
          /\ sendbuf' = hd \o ck
      BY <1>3, <1>4
    <3> HIDE DEF hd, ck
    <3>2. Len(hd \o ck) = Len(hd) + Len(ck) /\ hd \o ck \in Seq(Symbol)
      BY <3>1, ConcatProperties
    <3> QED
      BY <3>1, <3>2
  <2> QED
    BY <2>1, SendAssumption DEF HeadWidth
<1>6. /\ msg' = f /\ chunked' = 0 /\ tx_cksum' = <<>>
      /\ send_pc' \in {"idle", "chunk", "end", "write"}
      /\ line' = line
  BY DEF SendBegin
<1>7. Len(f.data) \in Nat
  BY FormatAssumption
<1> QED
  BY <1>2, <1>5, <1>6, <1>7, EmptySeq DEF SendInv, SendTypeOK

LEMMA SendChunkInv ==
  ASSUME SendInv, line \in Seq(Symbol), SendChunk
  PROVE  SendInv' /\ line' \in Seq(Symbol)
<1> DEFINE body == msg.data
           size == Least(SendbufLen - Len(sendbuf), Len(body) - chunked)
           part == SubSeq(body, chunked + 1, chunked + size)
           full == sendbuf \o Symbols(part)
<1>1. body \in Seq(Byte)
  BY FormatAssumption, EmptySeq DEF SendInv, SendTypeOK, NoMsg
<1>2. /\ sendbuf \in Seq(Symbol) /\ Len(sendbuf) \in Nat /\ Len(sendbuf) <= SendbufLen
      /\ Len(body) \in Nat /\ chunked \in 0 .. Len(body)
      /\ tx_cksum \in Seq(Byte) /\ Len(tx_cksum) = chunked
  BY <1>1 DEF SendInv, SendTypeOK
<1>3. /\ chunked' = chunked + size /\ tx_cksum' = tx_cksum \o part
      /\ IF Len(full) = SendbufLen
         THEN line' = line \o full /\ sendbuf' = <<>>
         ELSE line' = line /\ sendbuf' = full
      /\ send_pc' \in {"idle", "chunk", "end", "write"}
      /\ msg' = msg /\ log' = log
  BY DEF SendChunk, Write
<1> HIDE DEF body
<1>4. /\ size \in Nat /\ chunked + size \in 0 .. Len(body)
      /\ Len(sendbuf) + size <= SendbufLen
  BY <1>2, SendAssumption DEF Least
<1> HIDE DEF size
<1>5. part \in Seq(Byte) /\ Len(part) = size
  BY <1>1, <1>2, <1>4
<1> HIDE DEF part
<1>6. Symbols(part) \in Seq(Symbol) /\ Len(Symbols(part)) = size
  BY <1>5, SymbolsType
<1>7. full \in Seq(Symbol) /\ Len(full) <= SendbufLen
  <2>1. full \in Seq(Symbol) /\ Len(full) = Len(sendbuf) + size
    BY <1>2, <1>6, ConcatProperties
  <2> QED
    BY <1>4, <2>1
<1> HIDE DEF full
<1>8. sendbuf' \in Seq(Symbol) /\ Len(sendbuf') <= SendbufLen /\ line' \in Seq(Symbol)
  <2>1. CASE Len(full) = SendbufLen
    <3>1. sendbuf' = <<>> /\ line' = line \o full
      BY <1>3, <2>1
    <3> QED
      BY <1>7, <3>1, SendAssumption, EmptySeq
  <2>2. CASE Len(full) # SendbufLen
    BY <1>3, <1>7, <2>2
  <2> QED
    BY <2>1, <2>2
<1>9. tx_cksum' \in Seq(Byte) /\ Len(tx_cksum') = chunked'
  BY <1>2, <1>3, <1>5, ConcatProperties
<1>10. chunked' \in 0 .. Len(msg'.data)
  BY <1>3, <1>4 DEF body
<1> QED
  BY <1>3, <1>8, <1>9, <1>10 DEF SendInv, SendTypeOK

LEMMA SendEndInv ==
  ASSUME SendInv, line \in Seq(Symbol), SendEnd
  PROVE  SendInv' /\ line' \in Seq(Symbol)
<1> DEFINE tail == IF msg.data = <<>> THEN <<>> ELSE CksumOf(tx_cksum, Len(log))
           crowded == msg.data # <<>> /\ SendbufLen - Len(sendbuf) < CksumWidth
<1>1. /\ sendbuf \in Seq(Symbol) /\ Len(sendbuf) \in Nat /\ Len(sendbuf) <= SendbufLen
      /\ tx_cksum \in Seq(Byte) /\ log \in Seq(BlockType) /\ Len(log) \in Nat
  BY DEF SendInv, SendTypeOK
<1>2. /\ tail \in Seq(Symbol) /\ Len(tail) \in 0 .. 2
      /\ msg.data = <<>> => Len(tail) = 0
  <2>1. CASE msg.data = <<>>
    BY <2>1, EmptySeq
  <2>2. CASE msg.data # <<>>
    <3>1. tail \in Seq(Symbol) /\ Len(tail) = 2
      BY <1>1, <2>2, CksumType
    <3> QED
      BY <2>2, <3>1
  <2> QED
    BY <2>1, <2>2
<1>3. /\ IF crowded THEN line' = line \o sendbuf /\ sendbuf' = tail
                    ELSE line' = line /\ sendbuf' = sendbuf \o tail
      /\ send_pc' \in {"idle", "chunk", "end", "write"}
      /\ UNCHANGED <<msg, chunked, tx_cksum, log>>
  BY DEF SendEnd, Write
<1>4. crowded \/ Len(sendbuf) + Len(tail) <= SendbufLen
  <2>1. CASE msg.data = <<>>
    <3>1. Len(tail) = 0
      BY <1>2, <2>1
    <3> HIDE DEF tail
    <3> QED
      BY <1>1, <3>1
  <2>2. CASE msg.data # <<>>
    <3>1. ASSUME ~crowded
          PROVE  Len(sendbuf) + 2 <= SendbufLen
      BY <1>1, <2>2, <3>1, SendAssumption DEF CksumWidth
    <3>2. \A k \in 0 .. 2 : Len(sendbuf) + 2 <= SendbufLen => Len(sendbuf) + k <= SendbufLen
      BY <1>1, SendAssumption
    <3> HIDE DEF tail, crowded
    <3> QED
      BY <1>2, <3>1, <3>2, Zenon
  <2> QED
    BY <2>1, <2>2
<1> HIDE DEF tail, crowded
<1>5. /\ line \o sendbuf \in Seq(Symbol)
      /\ sendbuf \o tail \in Seq(Symbol) /\ Len(sendbuf \o tail) = Len(sendbuf) + Len(tail)
  BY <1>1, <1>2, ConcatProperties
<1>6. sendbuf' \in Seq(Symbol) /\ Len(sendbuf') <= SendbufLen /\ line' \in Seq(Symbol)
  <2>1. CASE crowded
    <3>1. sendbuf' = tail /\ line' = line \o sendbuf
      BY <1>3, <2>1
    <3>2. Len(tail) <= SendbufLen
      <4>1. \A k \in 0 .. 2 : k <= SendbufLen
        BY SendAssumption DEF HeadWidth
      <4> QED
        BY <1>2, <4>1, Zenon
    <3> QED
      BY <1>2, <1>5, <3>1, <3>2
  <2>2. CASE ~crowded
    BY <1>3, <1>4, <1>5, <2>2
  <2> QED
    BY <2>1, <2>2
<1> QED
  BY <1>3, <1>6 DEF SendInv, SendTypeOK

LEMMA SendWriteInv ==
  ASSUME SendInv, line \in Seq(Symbol), SendWrite
  PROVE  SendInv' /\ line' \in Seq(Symbol)
<1>1. line' \in Seq(Symbol)
  BY ConcatProperties DEF SendWrite, Write, SendInv
<1>2. /\ sendbuf' = <<>> /\ send_pc' = "idle" /\ msg' = NoMsg
      /\ chunked' = 0 /\ tx_cksum' = <<>> /\ log' = log
  BY DEF SendWrite
<1>3. NoMsg.data = <<>> /\ 0 <= SendbufLen
  BY SendAssumption DEF NoMsg
<1> QED
  BY <1>1, <1>2, <1>3, EmptySeq DEF SendInv, SendTypeOK

-----------------------------------------------------------------------------
(* The parser.                                                             *)

\* What a byte reads as.
LEMMA ByteRead ==
  ASSUME NEW c \in Symbol, NEW v \in ValuesOf(c)
  PROVE  v \in Byte
BY FormatAssumption DEF Symbol, ValuesOf, IsCksum

\* A byte finds the parser in its state, or at the start of a frame.
LEMMA StateFound ==
  ASSUME ParserInv
  PROVE  /\ StateNow \in States
         /\ StateNow # "SOF" => StateNow = state
BY DEF ParserInv, ParserTypeOK, StateNow, States

LEMMA AcceptSofInv ==
  ASSUME ParserInv, NEW v \in Byte, AcceptSof(v), parser_timeout_ticks' = 0
  PROVE  ParserInv'
<1>1. 0 \in 0 .. ParserTimeout
  BY ParserAssumption
<1>2. CASE v = Sof
  <2>1. <<Sof>> \in Seq(Byte)
    BY ByteFacts
  <2> QED
    <3>1. /\ cksum' = <<Sof>> /\ discard_data' = FALSE /\ state' = "ID" /\ rxi' = 0
          /\ UNCHANGED <<id, len, type, data, ref_cksum>>
      BY <1>2 DEF AcceptSof, BeginFrame
    <3>2. cksum' \in Seq(Byte)
      BY <2>1, <3>1
    <3> QED
      BY <1>1, <3>1, <3>2 DEF ParserInv, ParserTypeOK, States
<1>3. CASE v # Sof
  BY <1>1, <1>3 DEF AcceptSof, ParserInv, ParserTypeOK, States
<1> QED
  BY <1>2, <1>3

LEMMA AcceptIdInv ==
  ASSUME ParserInv, NEW v \in Byte, AcceptId(v), parser_timeout_ticks' = 0
  PROVE  ParserInv'
<1>1. 0 \in 0 .. ParserTimeout
  BY ParserAssumption
<1>2. cksum' \in Seq(Byte)
  BY AppendProperties DEF AcceptId, ParserInv
<1> QED
  BY <1>1, <1>2 DEF AcceptId, ParserInv, ParserTypeOK, States

LEMMA AcceptLenInv ==
  ASSUME ParserInv, NEW v \in Byte, AcceptLen(v), parser_timeout_ticks' = 0
  PROVE  ParserInv'
<1>1. 0 \in 0 .. ParserTimeout
  BY ParserAssumption
<1>2. cksum' \in Seq(Byte)
  BY AppendProperties DEF AcceptLen, ParserInv
<1>3. len' \in 0 .. Base * Base - 1
  <2>1. len \in Nat /\ v \in Nat
    BY ByteFacts DEF ParserInv, ParserTypeOK
  <2>2. len * Base + v \in Nat
    BY <2>1, ByteFacts
  <2>3. \A n \in Nat, b \in Nat : b > 1 => n % b \in 0 .. b - 1
    OBVIOUS
  <2>4. len' = (len * Base + v) % (Base * Base)
    BY DEF AcceptLen
  <2> QED
    BY <2>2, <2>3, <2>4, ByteFacts
<1>4. rxi' \in Nat /\ state' \in {"LEN", "TYPE"} /\ (state' = "LEN" => rxi' < 2)
  <2>1. state = "LEN" /\ rxi \in Nat /\ rxi < 2
    BY StateFound DEF AcceptLen, ParserInv, ParserTypeOK
  <2> QED
    BY <2>1 DEF AcceptLen
<1> QED
  BY <1>1, <1>2, <1>3, <1>4 DEF AcceptLen, ParserInv, ParserTypeOK, States

LEMMA AcceptTypeInv ==
  ASSUME ParserInv, NEW v \in Byte, AcceptType(v), parser_timeout_ticks' = 0
  PROVE  ParserInv'
<1>1. 0 \in 0 .. ParserTimeout
  BY ParserAssumption
<1>2. cksum' \in Seq(Byte)
  BY AppendProperties DEF AcceptType, ParserInv
<1>3. ref_cksum' = <<>> /\ <<>> \in Seq(Symbol) /\ Len(<<>>) = 0
  BY EmptySeq DEF AcceptType
<1> QED
  BY <1>1, <1>2, <1>3 DEF AcceptType, ParserInv, ParserTypeOK, States, CksumWidth

LEMMA AcceptCksumInv ==
  ASSUME ParserInv, NEW c \in Symbol, AcceptCksum(c), parser_timeout_ticks' = 0
  PROVE  ParserInv'
<1>1. 0 \in 0 .. ParserTimeout
  BY ParserAssumption
<1>2. state = StateNow /\ state' = state /\ rxi \in Nat /\ rxi = Len(ref_cksum)
  BY StateFound DEF AcceptCksum, ParserInv, ParserTypeOK
<1>3. ref_cksum' \in Seq(Symbol) /\ Len(ref_cksum') = rxi'
  BY <1>2, AppendProperties DEF AcceptCksum, ParserInv
<1> QED
  BY <1>1, <1>2, <1>3 DEF AcceptCksum, ParserInv, ParserTypeOK, CksumWidth

LEMMA AcceptHeadInv ==
  ASSUME ParserInv, NEW c \in Symbol, AcceptHead(c), parser_timeout_ticks' = 0
  PROVE  ParserInv'
<1>1. 0 \in 0 .. ParserTimeout
  BY ParserAssumption
<1>2. ref_cksum' \in Seq(Symbol)
  BY AppendProperties DEF AcceptHead, ParserInv
<1>3. <<>> \in Seq(Byte) /\ Len(<<>>) = 0 /\ 0 <= MaxPayload
  BY EmptySeq, ParserAssumption
<1>4. /\ rxi \in Nat /\ rxi + 1 \in Nat /\ len \in Nat
      /\ UNCHANGED <<id, len, type>> /\ discard_data \in BOOLEAN
  BY DEF AcceptHead, ParserInv, ParserTypeOK
<1>5. CASE ~Fits(ref_cksum', cksum)
  BY <1>1, <1>2, <1>4, <1>5 DEF AcceptHead, ParserInv, ParserTypeOK, States
<1>6. CASE Fits(ref_cksum', cksum) /\ len = 0
  <2>1. /\ data' = <<>> /\ state' = "SOF" /\ rxi' = rxi + 1
        /\ UNCHANGED <<cksum, discard_data>>
    BY <1>6 DEF AcceptHead
  <2> QED
    BY <1>1, <1>2, <1>3, <1>4, <2>1 DEF ParserInv, ParserTypeOK, States
<1>7. CASE Fits(ref_cksum', cksum) /\ len # 0
  <2>1. /\ data' = <<>> /\ state' = "DATA" /\ rxi' = 0 /\ cksum' = <<>>
        /\ discard_data' = (discard_data \/ len > MaxPayload)
    BY <1>7 DEF AcceptHead
  <2>2. discard_data' \in BOOLEAN /\ (discard_data' \/ len <= MaxPayload)
    <3>1. CASE len > MaxPayload
      <4>1. discard_data' = TRUE
        BY <2>1, <3>1, Zenon
      <4> QED
        BY <4>1
    <3>2. CASE ~(len > MaxPayload)
      <4>1. discard_data' = discard_data
        BY <1>4, <2>1, <3>2, Zenon
      <4>2. len <= MaxPayload
        BY <1>4, <3>2, ParserAssumption
      <4> QED
        BY <1>4, <4>1, <4>2
    <3> QED
      BY <3>1, <3>2
  <2> QED
    BY <1>1, <1>2, <1>3, <1>4, <1>7, <2>1, <2>2 DEF ParserInv, ParserTypeOK, States
<1> QED
  BY <1>5, <1>6, <1>7

\* A byte of a body is stored in its place, or counted only.
LEMMA AcceptDataInv ==
  ASSUME ParserInv, NEW v \in Byte, AcceptData(v), parser_timeout_ticks' = 0
  PROVE  ParserInv'
<1>1. 0 \in 0 .. ParserTimeout
  BY ParserAssumption
<1>2. /\ rxi \in Nat /\ len \in Nat /\ rxi < len /\ MaxPayload \in Nat
      /\ discard_data \in BOOLEAN /\ Len(data) \in Nat /\ Len(data) <= MaxPayload
      /\ discard_data \/ (rxi = Len(data) /\ len <= MaxPayload)
  BY StateFound, ParserAssumption DEF AcceptData, ParserInv, ParserTypeOK
<1>3. /\ data' \in Seq(Byte) /\ cksum' \in Seq(Byte) /\ Len(data') <= MaxPayload
      /\ discard_data \/ (rxi + 1 = Len(data') /\ len <= MaxPayload)
  <2>1. CASE discard_data
    BY <1>2, <2>1 DEF AcceptData, ParserInv
  <2>2. CASE ~discard_data
    <3>1. data' = Append(data, v) /\ cksum' = Append(cksum, v)
      BY <2>2 DEF AcceptData
    <3>2. data' \in Seq(Byte) /\ Len(data') = Len(data) + 1 /\ cksum' \in Seq(Byte)
      BY <3>1, AppendProperties DEF ParserInv
    <3> QED
      BY <1>2, <2>2, <3>2
  <2> QED
    BY <1>2, <2>1, <2>2
<1>4. <<>> \in Seq(Symbol) /\ Len(<<>>) = 0
  BY EmptySeq
<1>5. CASE rxi + 1 = len
  <2>1. state' = "DATA_CKSUM" /\ rxi' = 0 /\ ref_cksum' = <<>> /\ UNCHANGED <<id, len, type, discard_data>>
    BY <1>5 DEF AcceptData
  <2> QED
    BY <1>1, <1>2, <1>3, <1>4, <1>5, <2>1 DEF ParserInv, ParserTypeOK, States, CksumWidth
<1>6. CASE rxi + 1 # len
  <2>1. /\ state' = "DATA" /\ rxi' = rxi + 1 /\ rxi' < len
        /\ UNCHANGED <<id, len, type, discard_data, ref_cksum>>
    BY <1>2, <1>6 DEF AcceptData
  <2> QED
    BY <1>1, <1>2, <1>3, <2>1 DEF ParserInv, ParserTypeOK, States
<1> QED
  BY <1>5, <1>6

LEMMA AcceptBodyInv ==
  ASSUME ParserInv, NEW c \in Symbol, AcceptBody(c), parser_timeout_ticks' = 0
  PROVE  ParserInv'
<1>1. 0 \in 0 .. ParserTimeout
  BY ParserAssumption
<1>2. ref_cksum' \in Seq(Symbol)
  BY AppendProperties DEF AcceptBody, ParserInv
<1> QED
  BY <1>1, <1>2 DEF AcceptBody, ParserInv, ParserTypeOK, States

LEMMA AcceptCharInv ==
  ASSUME ParserInv, NEW c \in Symbol, AcceptChar(c)
  PROVE  ParserInv'
BY ByteRead, AcceptSofInv, AcceptIdInv, AcceptLenInv, AcceptTypeInv, AcceptCksumInv,
   AcceptHeadInv, AcceptDataInv, AcceptBodyInv DEF AcceptChar

LEMMA ParserTickInv ==
  ASSUME ParserInv, ParserTick
  PROVE  ParserInv'
<1>1. parser_timeout_ticks' \in 0 .. ParserTimeout
  BY ParserAssumption DEF ParserTick, ParserInv, ParserTypeOK
<1> QED
  BY <1>1 DEF ParserTick, ParserInv, ParserTypeOK

-----------------------------------------------------------------------------
LEMMA WireNext == WireInv /\ [Next]_vars => WireInv'
<1> SUFFICES ASSUME WireInv, [Next]_vars
             PROVE  WireInv'
  OBVIOUS
<1> USE DEF WireInv
<1>1. line \in Seq(Symbol) /\ silent \in 0 .. ParserTimeout /\ faults \in 0 .. MaxFaults
  BY DEF LineInv
<1>2. CASE Send
  <2>1. SendInv' /\ line' \in Seq(Symbol)
    BY <1>1, <1>2, SendBeginInv, SendChunkInv, SendEndInv, SendWriteInv DEF Send, Sender
  <2>2. ParserInv'
    BY <1>2 DEF Send, parserVars, ParserInv, ParserTypeOK
  <2>3. LineInv'
    BY <1>2, <2>1, ParserAssumption DEF Send, LineInv
  <2> QED
    BY <2>1, <2>2, <2>3
<1>3. CASE Accept
  <2>1. Head(line) \in Symbol /\ Tail(line) \in Seq(Symbol)
    BY <1>1, <1>3, HeadTailProperties DEF Accept
  <2>2. ParserInv'
    BY <1>3, <2>1, AcceptCharInv DEF Accept
  <2>3. SendInv' /\ LineInv'
    BY <1>3, <2>1 DEF Accept, LineInv, sendVars, SendInv, SendTypeOK
  <2> QED
    BY <2>2, <2>3
<1>4. CASE Tick
  <2>1. ParserInv'
    BY <1>4, ParserTickInv DEF Tick
  <2>2. silent' \in 0 .. ParserTimeout /\ damaged' \in BOOLEAN
    <3>1. silent' \in 0 .. ParserTimeout
      BY <1>1, <1>4, ParserAssumption DEF Tick, Least
    <3>2. damaged' = TRUE \/ damaged' = (damaged /\ silent' < ParserTimeout)
      BY <1>4 DEF Tick
    <3> QED
      BY <3>1, <3>2
  <2>3. SendInv' /\ LineInv'
    BY <1>4, <2>2 DEF Tick, LineInv, sendVars, SendInv, SendTypeOK
  <2> QED
    BY <2>1, <2>3
<1>5. ASSUME Fail, line' \in Seq(Symbol), got_bytes' \in BOOLEAN, ParserInv'
      PROVE  WireInv'
  <2>1. faults' \in 0 .. MaxFaults /\ silent' \in 0 .. ParserTimeout
    BY <1>1, <1>5, ParserAssumption, WireAssumption DEF Fail
  <2>2. LineInv'
    BY <1>5, <2>1 DEF Fail, LineInv
  <2>3. SendInv'
    BY <1>5 DEF Fail, sendVars, SendInv, SendTypeOK
  <2> QED
    BY <1>5, <2>2, <2>3
<1>6. ASSUME NEW n \in Runs, LoseRun(n)
      PROVE  WireInv'
  <2>1. SubSeq(line, n + 1, Len(line)) \in Seq(Symbol)
    BY <1>1, WireAssumption
  <2>2. ParserInv' /\ got_bytes' \in BOOLEAN
    BY <1>6 DEF LoseRun, LineInv, parserVars, ParserInv, ParserTypeOK
  <2> QED
    BY <1>5, <1>6, <2>1, <2>2 DEF LoseRun
<1>7. ASSUME NEW v \in Noise, NoiseByte(v)
      PROVE  WireInv'
  <2>1. Plain(v) \in Symbol
    BY WireAssumption DEF Plain, Symbol
  <2>2. ParserInv'
    BY <1>7, <2>1, AcceptCharInv DEF NoiseByte
  <2> QED
    BY <1>1, <1>5, <1>7, <2>2 DEF NoiseByte
<1>8. CASE UNCHANGED vars
  BY <1>8 DEF vars, sendVars, parserVars, wireVars, SendInv, SendTypeOK, ParserInv,
              ParserTypeOK, LineInv
<1> QED
  BY <1>2, <1>3, <1>4, <1>6, <1>7, <1>8 DEF Next

\* Nothing is composed past the send buffer (TF_SendFrame_Begin, _Chunk, _End)
\* and nothing is stored past tf->data or counted past its field
\* (TF_AcceptChar), for every buffer, payload limit, time-out and set of frames.
THEOREM EndsWithinBounds == Spec => []TypeOK
<1>1. WireInv => TypeOK
  BY DEF WireInv, SendInv, ParserInv, LineInv, TypeOK
<1> QED
  BY <1>1, WireInit, WireNext, PTL DEF Spec

-----------------------------------------------------------------------------
(* What was sent, and where it is.                                         *)

\* The blocks follow each other without a gap, and a body follows the head that
\* tells its length.
BlockInv(n) ==
  /\ Start(log[n]) \in Nat
  /\ log[n].bytes # <<>>
  /\ n = 1 => log[n].part = "head" /\ Start(log[n]) = 0
  /\ \A m \in DOMAIN log : m < n => log[m].end <= Start(log[n])
  /\ n + 1 \in DOMAIN log => Start(log[n + 1]) = log[n].end
  /\ log[n].part = "head" => PassForHead(log[n].bytes)
  /\ n + 1 \in DOMAIN log =>
       (log[n + 1].part = "body" <=> log[n].part = "head" /\ LengthIn(log[n].bytes) # 0)
  /\ log[n].part = "head" /\ LengthIn(log[n].bytes) # 0 =>
       n + 1 \in DOMAIN log /\ Len(log[n + 1].bytes) = LengthIn(log[n].bytes)

LogInv == \A n \in DOMAIN log : BlockInv(n)

\* The sizes of a block.
LEMMA BlockSize ==
  ASSUME NEW b \in BlockType
  PROVE  /\ b.bytes \in Seq(Byte) /\ Len(b.bytes) \in Nat /\ b.end \in Nat
         /\ Start(b) \in Int /\ Start(b) + Len(b.bytes) + CksumWidth = b.end
<1>1. b.bytes \in Seq(Byte) /\ b.end \in Nat /\ b.part \in {"head", "body"}
  BY DEF BlockType
<1>2. Len(b.bytes) \in Nat
  BY <1>1
<1> QED
  BY <1>1, <1>2 DEF Start, CksumWidth

\* No block ends behind Total(log).
LEMMA EndsByTotal ==
  ASSUME log \in Seq(BlockType), LogInv
  PROVE  /\ Total(log) \in Nat
         /\ \A n \in DOMAIN log : log[n].end <= Total(log)
         /\ log = <<>> => Total(log) = 0
         /\ log # <<>> => Len(log) \in DOMAIN log /\ Total(log) = log[Len(log)].end
<1>1. Total(log) \in Nat
  BY TotalType
<1>2. log = <<>> => Total(log) = 0
  BY DEF Total
<1>3. log # <<>> => Len(log) \in DOMAIN log /\ Total(log) = log[Len(log)].end
  <2> SUFFICES ASSUME log # <<>> PROVE Len(log) \in DOMAIN log /\ Total(log) = log[Len(log)].end
    OBVIOUS
  <2>1. Len(log) \in DOMAIN log
    OBVIOUS
  <2> QED
    BY <2>1 DEF Total
<1>4. ASSUME NEW n \in DOMAIN log
      PROVE  log[n].end <= Total(log)
  <2> DEFINE last == Len(log)
  <2>1. log # <<>> /\ n \in 1 .. last /\ last \in DOMAIN log /\ Total(log) = log[last].end
    BY <1>3, <1>4
  <2>2. log[n] \in BlockType /\ log[last] \in BlockType
    BY <2>1
  <2>3. Start(log[last]) <= log[last].end
    BY <2>2, BlockSize DEF CksumWidth
  <2>4. n < last => log[n].end <= Start(log[last])
    BY <2>1 DEF LogInv, BlockInv
  <2>5. log[n].end \in Nat /\ log[last].end \in Nat /\ Start(log[last]) \in Int /\ last \in Nat
    BY <2>2, BlockSize
  <2> HIDE DEF last
  <2>6. n = last \/ n < last
    BY <2>1, <2>5
  <2> QED
    BY <2>1, <2>3, <2>4, <2>5, <2>6
<1> QED
  BY <1>1, <1>2, <1>3, <1>4

\* What the head of a frame tells of its length, it has.
LEMMA HeadReads ==
  ASSUME NEW f \in Frames
  PROVE  PassForHead(HeadBytes(f)) /\ LengthIn(HeadBytes(f)) = Len(f.data)
<1> DEFINE hi == Len(f.data) \div Base
           lo == Len(f.data) % Base
           bytes == HeadBytes(f)
<1>1. bytes \in Seq(Byte) /\ Len(bytes) = 5
  BY HeadBytesType
<1>2. bytes = <<Sof, f.id, hi, lo, f.type>>
  BY DEF HeadBytes
<1>3. hi * Base + lo = Len(f.data)
  <2>1. Len(f.data) \in Nat
    BY FormatAssumption
  <2>2. hi \in Nat /\ lo \in 0 .. Base - 1 /\ Len(f.data) = Base * hi + lo
    BY <2>1, DivMod
  <2> HIDE DEF hi, lo
  <2>3. Base * hi = hi * Base
    BY <2>2, ByteFacts
  <2> QED
    BY <2>2, <2>3
<1> HIDE DEF hi, lo, bytes
<1>4. bytes[1] = Sof /\ bytes[3] = hi /\ bytes[4] = lo
  BY <1>2
<1> QED
  BY <1>1, <1>3, <1>4 DEF PassForHead, LengthIn, HeadWidth, CksumWidth, bytes

\* The log with the blocks of a frame more.
LEMMA LogAppended ==
  ASSUME log \in Seq(BlockType), LogInv, NEW f \in Frames,
         log' = log \o Blocks(f, Total(log))
  PROVE  LET n == Len(log)
             first == Block("head", HeadBytes(f), Total(log))
             body == Block("body", f.data, Total(log) + HeadWidth)
         IN  /\ Len(log') = IF f.data = <<>> THEN n + 1 ELSE n + 2
             /\ \A m \in 1 .. n : log'[m] = log[m]
             /\ log'[n + 1] = first
             /\ f.data # <<>> => log'[n + 2] = body
<1> DEFINE n == Len(log)
           first == Block("head", HeadBytes(f), Total(log))
           body == Block("body", f.data, Total(log) + HeadWidth)
           new == Blocks(f, Total(log))
<1>1. /\ first \in BlockType /\ body \in BlockType
      /\ new = IF f.data = <<>> THEN <<first>> ELSE <<first, body>>
  BY TotalType, BlocksAre
<1> HIDE DEF first, body
<1>2. /\ Len(new) = IF f.data = <<>> THEN 1 ELSE 2
      /\ new \in Seq(BlockType)
      /\ new[1] = first /\ (f.data # <<>> => new[2] = body)
  BY <1>1
<1>3. log' = log \o new
  OBVIOUS
<1> HIDE DEF new
<1>4. /\ Len(log') = n + Len(new) /\ n \in Nat
      /\ \A m \in 1 .. n : log'[m] = log[m]
      /\ \A m \in 1 .. Len(new) : log'[n + m] = new[m]
  BY <1>2, <1>3
<1> HIDE DEF n
<1> QED
  BY <1>2, <1>4 DEF first, body, n

\* A frame that is begun keeps the log in order.
LEMMA LogGrows ==
  ASSUME log \in Seq(BlockType), LogInv, NEW f \in Frames,
         log' = log \o Blocks(f, Total(log))
  PROVE  /\ LogInv'
         /\ Total(log') = Total(log) + HeadWidth
                          + (IF f.data = <<>> THEN 0 ELSE Len(f.data) + CksumWidth)
         /\ \A m \in DOMAIN log : m \in DOMAIN log' /\ log'[m] = log[m]
<1> DEFINE n == Len(log)
           first == Block("head", HeadBytes(f), Total(log))
           body == Block("body", f.data, Total(log) + HeadWidth)
<1>1. /\ Len(log') = IF f.data = <<>> THEN n + 1 ELSE n + 2
      /\ \A m \in 1 .. n : log'[m] = log[m]
      /\ log'[n + 1] = first
      /\ f.data # <<>> => log'[n + 2] = body
  BY LogAppended
<1>2. Total(log) \in Nat
  BY TotalType
<1>3. HeadBytes(f) \in Seq(Byte) /\ Len(HeadBytes(f)) = 5 /\ HeadBytes(f) # <<>>
  BY HeadBytesType, EmptySeq
<1>4. f.data \in Seq(Byte) /\ Len(f.data) \in Nat /\ (f.data # <<>> => Len(f.data) # 0)
  <2>1. f.data \in Seq(Byte)
    BY FormatAssumption
  <2> QED
    BY <2>1, EmptySeq
<1>5. /\ first.part = "head" /\ first.bytes = HeadBytes(f)
      /\ first.end = Total(log) + HeadWidth /\ Start(first) = Total(log)
  <2>1. /\ first.part = "head" /\ first.bytes = HeadBytes(f) /\ Start(first) = Total(log)
        /\ first.end = Total(log) + Len(HeadBytes(f)) + CksumWidth
    BY <1>2, <1>3, BlockIs
  <2> HIDE DEF first
  <2> QED
    BY <1>2, <1>3, <2>1 DEF HeadWidth, CksumWidth
<1>6. /\ body.part = "body" /\ body.bytes = f.data /\ Start(body) = Total(log) + HeadWidth
      /\ body.end = Total(log) + HeadWidth + Len(f.data) + CksumWidth
  <2>1. Total(log) + HeadWidth \in Nat
    BY <1>2 DEF HeadWidth
  <2> QED
    BY <1>4, <2>1, BlockIs
<1>7. PassForHead(first.bytes) /\ LengthIn(first.bytes) = Len(f.data)
  BY <1>5, HeadReads
<1>8. /\ DOMAIN log = 1 .. n /\ n \in Nat /\ DOMAIN log' = 1 .. Len(log')
      /\ n = 0 <=> log = <<>>
  <2>1. log' \in Seq(BlockType)
    BY <1>2, BlocksType, ConcatProperties
  <2> QED
    BY <2>1
<1>9. /\ \A m \in 1 .. n : log[m].end <= Total(log) /\ log[m] \in BlockType
      /\ n = 0 => Total(log) = 0
      /\ n # 0 => n \in 1 .. n /\ Total(log) = log[n].end
  BY <1>8, EndsByTotal
<1> HIDE DEF n, first, body
<1>10. ASSUME NEW m \in 1 .. n
       PROVE  BlockInv(m)'
  <2>1. BlockInv(m) /\ log'[m] = log[m]
    BY <1>1, <1>8 DEF LogInv
  <2>2. CASE m < n
    <3>1. m + 1 \in DOMAIN log /\ log'[m + 1] = log[m + 1] /\ m + 1 \in DOMAIN log'
      BY <1>1, <1>8, <2>2
    <3>2. \A k \in DOMAIN log' : k < m => k \in DOMAIN log /\ log'[k] = log[k]
      BY <1>1, <1>8, <2>2
    <3> QED
      BY <2>1, <3>1, <3>2 DEF BlockInv
  <2>3. CASE m = n
    <3>1. m + 1 \notin DOMAIN log /\ m + 1 \in DOMAIN log' /\ log'[m + 1] = first
      BY <1>1, <1>8, <2>3
    <3>2. ~(log[m].part = "head" /\ LengthIn(log[m].bytes) # 0)
      BY <2>1, <3>1 DEF BlockInv
    <3>3. Start(first) = log[m].end /\ first.part = "head"
      BY <1>5, <1>8, <1>9, <2>3
    <3>4. \A k \in DOMAIN log' : k < m => k \in DOMAIN log /\ log'[k] = log[k]
      BY <1>1, <1>8, <2>3
    <3> QED
      BY <2>1, <3>1, <3>2, <3>3, <3>4 DEF BlockInv
  <2> QED
    BY <1>8, <2>2, <2>3
<1>11. ASSUME NEW m, m = n + 1
       PROVE  BlockInv(m)'
  <2>0. m \in DOMAIN log' /\ log'[m] = first /\ m - 1 = n /\ m \in Nat
    BY <1>1, <1>8, <1>11
  <2>1. \A k \in DOMAIN log' : k < n + 1 => k \in 1 .. n /\ log'[k] = log[k]
    BY <1>1, <1>8
  <2>2. n + 1 = 1 => Start(first) = 0
    BY <1>5, <1>8, <1>9
  <2>3. \A k \in DOMAIN log' : k < n + 1 => log'[k].end <= Start(first)
    BY <1>5, <1>9, <2>1
  <2>4. CASE f.data = <<>>
    <3>1. m + 1 \notin DOMAIN log' /\ LengthIn(first.bytes) = 0
      BY <1>1, <1>7, <1>8, <1>11, <2>4
    <3> QED
      BY <1>2, <1>3, <1>5, <1>7, <1>11, <2>0, <2>2, <2>3, <3>1 DEF BlockInv
  <2>5. CASE f.data # <<>>
    <3>1. m + 1 \in DOMAIN log' /\ log'[m + 1] = body
      BY <1>1, <1>8, <1>11, <2>5
    <3>2. LengthIn(first.bytes) # 0 /\ Len(body.bytes) = LengthIn(first.bytes)
      BY <1>4, <1>6, <1>7, <2>5
    <3> QED
      BY <1>2, <1>3, <1>5, <1>6, <1>7, <1>11, <2>0, <2>2, <2>3, <3>1, <3>2 DEF BlockInv
  <2> QED
    BY <2>4, <2>5
<1>12. ASSUME NEW m, m = n + 2, f.data # <<>>
       PROVE  BlockInv(m)'
  <2>1. \A k \in DOMAIN log' : k < n + 2 => (k \in 1 .. n /\ log'[k] = log[k]) \/ log'[k] = first
    BY <1>1, <1>8
  <2>2. \A k \in DOMAIN log' : k < n + 2 => log'[k].end <= Start(body)
    <3> SUFFICES ASSUME NEW k \in DOMAIN log', k < n + 2
                 PROVE  log'[k].end <= Start(body)
      OBVIOUS
    <3>1. CASE k \in 1 .. n /\ log'[k] = log[k]
      <4>1. log[k].end <= Total(log) /\ log[k].end \in Nat
        BY <1>9, <3>1 DEF BlockType
      <4> QED
        BY <1>2, <1>6, <3>1, <4>1 DEF HeadWidth
    <3>2. CASE log'[k] = first
      BY <1>2, <1>5, <1>6, <3>2 DEF HeadWidth
    <3> QED
      BY <2>1, <3>1, <3>2
  <2>3. m # 1 /\ m + 1 \notin DOMAIN log' /\ log'[m] = body
    BY <1>1, <1>8, <1>12
  <2>4. body.bytes # <<>> /\ Start(body) \in Nat /\ body.part # "head"
    BY <1>2, <1>6, <1>12 DEF HeadWidth
  <2> QED
    BY <1>12, <2>2, <2>3, <2>4 DEF BlockInv
<1>13. LogInv'
  <2> SUFFICES ASSUME NEW m \in DOMAIN log'
               PROVE  BlockInv(m)'
    BY DEF LogInv
  <2>1. m \in 1 .. n \/ m = n + 1 \/ (m = n + 2 /\ f.data # <<>>)
    BY <1>1, <1>8
  <2> QED
    BY <1>10, <1>11, <1>12, <2>1
<1>14. Total(log') = Total(log) + HeadWidth
                     + (IF f.data = <<>> THEN 0 ELSE Len(f.data) + CksumWidth)
  <2>1. log' # <<>>
    BY <1>1, <1>8
  <2>2. Total(log') = log'[Len(log')].end
    BY <2>1 DEF Total
  <2>3. CASE f.data = <<>>
    <3>1. Len(log') = n + 1
      BY <1>1, <2>3
    <3>2. Total(log') = first.end
      BY <1>1, <2>2, <3>1
    <3> QED
      BY <1>2, <1>5, <2>3, <3>2 DEF HeadWidth
  <2>4. CASE f.data # <<>>
    <3>1. Len(log') = n + 2
      BY <1>1, <2>4
    <3>2. Total(log') = body.end
      BY <1>1, <2>2, <2>4, <3>1
    <3>3. (IF f.data = <<>> THEN 0 ELSE Len(f.data) + CksumWidth) = Len(f.data) + CksumWidth
      BY <2>4
    <3> QED
      BY <1>2, <1>4, <1>6, <3>2, <3>3 DEF HeadWidth, CksumWidth
  <2> QED
    BY <2>3, <2>4
<1> QED
  BY <1>1, <1>8, <1>13, <1>14

-----------------------------------------------------------------------------
(* What is on its way.                                                     *)

\* What is on its way: written and not read, or composed and not written.
Flight == line \o sendbuf

\* The bytes of the frame being sent that are not composed yet.
Pending ==
  IF send_pc \in {"chunk", "end"} /\ msg.data # <<>>
  THEN Len(msg.data) - chunked + CksumWidth ELSE 0

\* Where the sender is in the bytes of log, and where the parser is if nothing
\* but these bytes is on its way.
Composed == Total(log) - Pending
Place == Composed - Len(Flight)

\* Symbol i of block n of a log, and a symbol that is in its place.
SymbolIn(l, n, i) ==
  IF i <= Len(l[n].bytes) THEN Plain(l[n].bytes[i])
  ELSE Cksum(l[n].bytes, i - Len(l[n].bytes), n)

Covers(l, n, p) == Start(l[n]) < p /\ p <= l[n].end

Carried(l, c, p) ==
  \E n \in DOMAIN l : Covers(l, n, p) /\ c = SymbolIn(l, n, p - Start(l[n]))

\* The body that is sent is the last block.
BodyInv ==
  /\ send_pc = "idle" => sendbuf = <<>> /\ msg = NoMsg
  /\ send_pc = "chunk" => chunked < Len(msg.data)
  /\ send_pc = "end" => chunked = Len(msg.data)
  /\ send_pc \in {"chunk", "end"} /\ msg.data # <<>>
       => /\ log # <<>>
          /\ log[Len(log)].bytes = msg.data
          /\ \A i \in 1 .. chunked : tx_cksum[i] = msg.data[i]

\* A checksum on its way is in its place; if nothing has failed, so is all.
FlightInv ==
  \A i \in DOMAIN Flight : IsCksum(Flight[i]) \/ ~damaged => Carried(log, Flight[i], Place + i)

\* Every checksum on its way comes behind block n, and so does what is composed
\* later.
Behind(n) ==
  /\ n \in DOMAIN log
  /\ log[n].end <= Composed
  /\ \A i \in DOMAIN Flight : IsCksum(Flight[i]) => log[n].end < Place + i

LEMMA CarriedGrows ==
  ASSUME NEW l \in Seq(BlockType), NEW k \in Seq(BlockType), NEW c, NEW p,
         \A n \in DOMAIN l : n \in DOMAIN k /\ k[n] = l[n],
         Carried(l, c, p)
  PROVE  Carried(k, c, p)
BY DEF Carried, Covers, SymbolIn

LEMMA BlockCarried ==
  ASSUME NEW l \in Seq(BlockType), NEW n \in DOMAIN l,
         NEW i \in 1 .. Len(l[n].bytes) + CksumWidth
  PROVE  Carried(l, SymbolIn(l, n, i), Start(l[n]) + i)
<1> DEFINE s == Start(l[n])
           size == Len(l[n].bytes)
<1>1. l[n] \in BlockType
  OBVIOUS
<1>2. s \in Int /\ size \in Nat /\ l[n].end = s + size + CksumWidth
  BY <1>1, BlockSize
<1>3. i \in 1 .. size + CksumWidth
  OBVIOUS
<1> HIDE DEF s, size
<1>4. s < s + i /\ s + i <= l[n].end /\ (s + i) - s = i
  BY <1>2, <1>3 DEF CksumWidth
<1> QED
  BY <1>4 DEF Carried, Covers, s

LEMMA FlightType ==
  ASSUME SendInv, line \in Seq(Symbol), LogInv, BodyInv
  PROVE  /\ Flight \in Seq(Symbol) /\ Len(Flight) \in Nat /\ DOMAIN Flight = 1 .. Len(Flight)
         /\ Pending \in Nat /\ Total(log) \in Nat /\ Composed \in Int /\ Place \in Int
         /\ Composed <= Total(log)
         /\ Place + Len(Flight) = Composed
<1>1. Flight \in Seq(Symbol)
  BY ConcatProperties DEF Flight, SendInv
<1>2. Total(log) \in Nat
  BY TotalType DEF SendInv
<1>3. Pending \in Nat
  <2>1. CASE send_pc \in {"chunk", "end"} /\ msg.data # <<>>
    <3>1. chunked \in 0 .. Len(msg.data)
      BY DEF SendInv, SendTypeOK
    <3>2. msg.data \in Seq(Byte) /\ Len(msg.data) \in Nat
      BY FormatAssumption, EmptySeq DEF SendInv, SendTypeOK, NoMsg
    <3> QED
      BY <2>1, <3>1, <3>2 DEF Pending, CksumWidth
  <2>2. CASE ~(send_pc \in {"chunk", "end"} /\ msg.data # <<>>)
    BY <2>2 DEF Pending
  <2> QED
    BY <2>1, <2>2
<1>4. Len(Flight) \in Nat /\ DOMAIN Flight = 1 .. Len(Flight)
  BY <1>1
<1> QED
  BY <1>1, <1>2, <1>3, <1>4 DEF Composed, Place

\* What is composed joins what is on its way, in its place.
LEMMA Composes ==
  ASSUME LogInv, SendInv, line \in Seq(Symbol), BodyInv, FlightInv,
         log' \in Seq(BlockType), damaged' = damaged,
         \A n \in DOMAIN log : n \in DOMAIN log' /\ log'[n] = log[n],
         NEW new \in Seq(Symbol),
         Flight' = Flight \o new, Composed' = Composed + Len(new),
         \A i \in DOMAIN new : Carried(log', new[i], Composed + i)
  PROVE  /\ Place' = Place
         /\ FlightInv'
         /\ \A n \in DOMAIN log : Behind(n) => Behind(n)'
<1> DEFINE m == Len(Flight)
           k == Len(new)
<1>1. /\ m \in Nat /\ DOMAIN Flight = 1 .. m /\ Flight \in Seq(Symbol)
      /\ Composed \in Int /\ Place \in Int /\ Place + m = Composed
      /\ log \in Seq(BlockType)
  BY FlightType DEF SendInv
<1>2. k \in Nat /\ DOMAIN new = 1 .. k
  OBVIOUS
<1>3. /\ Len(Flight') = m + k /\ DOMAIN Flight' = 1 .. m + k
      /\ \A i \in 1 .. m : Flight'[i] = Flight[i]
      /\ \A i \in m + 1 .. m + k : Flight'[i] = new[i - m]
  <2>1. Flight' \in Seq(Symbol) /\ Len(Flight') = m + k
    BY <1>1, ConcatProperties
  <2> QED
    BY <1>1, <1>2, <2>1, ConcatProperties
<1> HIDE DEF m, k
<1>4. Place' = Place
  BY <1>1, <1>2, <1>3 DEF Place, k, m
<1>5. ASSUME NEW i \in m + 1 .. m + k
      PROVE  i - m \in DOMAIN new /\ Place + i = Composed + (i - m) /\ Place + i > Composed
  BY <1>1, <1>2
<1>6. FlightInv'
  <2> SUFFICES ASSUME NEW i \in DOMAIN Flight', IsCksum(Flight'[i]) \/ ~damaged
               PROVE  Carried(log', Flight'[i], Place + i)
    BY <1>4 DEF FlightInv
  <2>1. CASE i \in 1 .. m
    <3>1. Carried(log, Flight[i], Place + i)
      BY <1>1, <1>3, <2>1 DEF FlightInv
    <3> QED
      BY <1>1, <1>3, <2>1, <3>1, CarriedGrows
  <2>2. CASE i \in m + 1 .. m + k
    BY <1>3, <1>5, <2>2
  <2> QED
    BY <1>1, <1>2, <1>3, <2>1, <2>2
<1>7. ASSUME NEW n \in DOMAIN log, Behind(n)
      PROVE  Behind(n)'
  <2>1. log'[n] = log[n] /\ n \in DOMAIN log' /\ log[n].end \in Nat
    <3>1. log[n] \in BlockType
      BY <1>1
    <3> QED
      BY <1>1, <3>1 DEF BlockType
  <2>2. log[n].end <= Composed'
    BY <1>1, <1>2, <1>7, <2>1 DEF Behind, k
  <2>3. ASSUME NEW i \in DOMAIN Flight', IsCksum(Flight'[i])
        PROVE  log[n].end < Place + i
    <3>1. CASE i \in 1 .. m
      BY <1>1, <1>3, <1>7, <2>3, <3>1 DEF Behind
    <3>2. CASE i \in m + 1 .. m + k
      <4>1. Place + i > Composed
        BY <1>5, <3>2
      <4>2. log[n].end <= Composed
        BY <1>7 DEF Behind
      <4>3. Place + i \in Int
        BY <1>1, <1>2, <3>2
      <4> DEFINE e == log[n].end
                 p == Place + i
      <4>4. e \in Nat /\ p > Composed /\ e <= Composed /\ p \in Int /\ Composed \in Int
        BY <1>1, <2>1, <4>1, <4>2, <4>3
      <4> HIDE DEF e, p
      <4>5. e < p
        BY <4>4
      <4> QED
        BY <4>5 DEF e, p
    <3> QED
      BY <1>1, <1>2, <1>3, <2>3, <3>1, <3>2
  <2> QED
    BY <1>4, <2>1, <2>2, <2>3 DEF Behind
<1> QED
  BY <1>4, <1>6, <1>7

-----------------------------------------------------------------------------
(* The sender keeps what is on its way in place.                           *)

Extends == \A n \in DOMAIN log : n \in DOMAIN log' /\ log'[n] = log[n]

\* Bytes and their checksum, as symbols of block n.
LEMMA BlockComposed ==
  ASSUME NEW bytes \in Seq(Byte), NEW n \in Nat
  PROVE  LET new == Symbols(bytes) \o CksumOf(bytes, n)
         IN  /\ new \in Seq(Symbol) /\ Len(new) = Len(bytes) + CksumWidth
             /\ \A i \in 1 .. Len(bytes) + CksumWidth :
                  new[i] = IF i <= Len(bytes) THEN Plain(bytes[i])
                           ELSE Cksum(bytes, i - Len(bytes), n)
<1> DEFINE a == Symbols(bytes)
           b == CksumOf(bytes, n)
           new == a \o b
<1>1. /\ a \in Seq(Symbol) /\ Len(a) = Len(bytes)
      /\ b \in Seq(Symbol) /\ Len(b) = CksumWidth
  BY SymbolsType, CksumType DEF CksumWidth
<1>2. /\ \A i \in 1 .. Len(bytes) : a[i] = Plain(bytes[i])
      /\ \A i \in 1 .. CksumWidth : b[i] = Cksum(bytes, i, n)
  BY DEF Symbols, CksumOf
<1>3. Len(bytes) \in Nat
  OBVIOUS
<1> HIDE DEF a, b
<1>4. /\ new \in Seq(Symbol) /\ Len(new) = Len(bytes) + CksumWidth
      /\ \A i \in 1 .. Len(bytes) + CksumWidth :
           new[i] = IF i <= Len(bytes) THEN a[i] ELSE b[i - Len(bytes)]
  <2>1. a \in Seq(Symbol) /\ b \in Seq(Symbol)
    BY <1>1
  <2>2. /\ new \in Seq(Symbol) /\ Len(new) = Len(a) + Len(b)
        /\ \A i \in 1 .. Len(a) + Len(b) :
             new[i] = IF i <= Len(a) THEN a[i] ELSE b[i - Len(a)]
    BY <2>1, ConcatProperties, Zenon
  <2> HIDE DEF new
  <2>3. Len(a) = Len(bytes) /\ Len(b) = CksumWidth
    BY <1>1
  <2> QED
    BY <2>2, <2>3, Zenon
<1>5. ASSUME NEW i \in 1 .. Len(bytes) + CksumWidth
      PROVE  new[i] = IF i <= Len(bytes) THEN Plain(bytes[i])
                      ELSE Cksum(bytes, i - Len(bytes), n)
  <2>1. CASE i <= Len(bytes)
    BY <1>2, <1>3, <1>4, <2>1
  <2>2. CASE ~(i <= Len(bytes))
    <3>1. i - Len(bytes) \in 1 .. CksumWidth
      BY <1>3, <2>2 DEF CksumWidth
    <3> QED
      BY <1>2, <1>4, <2>2, <3>1
  <2> QED
    BY <2>1, <2>2
<1> QED
  BY <1>4, <1>5 DEF a, b

\* While a body is sent, it is the last block.
LEMMA BodyIsLast ==
  ASSUME SendInv, line \in Seq(Symbol), LogInv, BodyInv,
         send_pc \in {"chunk", "end"}, msg.data # <<>>
  PROVE  LET n == Len(log)
         IN  /\ n \in DOMAIN log /\ n \in Nat
             /\ log[n].bytes = msg.data /\ msg.data \in Seq(Byte) /\ Len(msg.data) \in Nat
             /\ Start(log[n]) \in Nat
             /\ Composed = Start(log[n]) + chunked
             /\ chunked \in 0 .. Len(msg.data)
<1>1. /\ log \in Seq(BlockType) /\ log # <<>> /\ log[Len(log)].bytes = msg.data
      /\ chunked \in 0 .. Len(msg.data)
  BY DEF SendInv, SendTypeOK, BodyInv
<1> DEFINE n == Len(log)
<1>2. n \in DOMAIN log /\ n \in Nat /\ Total(log) = log[n].end
  BY <1>1, EndsByTotal
<1>3. log[n] \in BlockType /\ Start(log[n]) \in Nat
  BY <1>1, <1>2 DEF LogInv, BlockInv
<1>4. /\ msg.data \in Seq(Byte) /\ Len(msg.data) \in Nat
      /\ Start(log[n]) + Len(msg.data) + CksumWidth = log[n].end /\ log[n].end \in Nat
  BY <1>1, <1>3, BlockSize
<1>5. Pending = Len(msg.data) - chunked + CksumWidth
  BY DEF Pending
<1> HIDE DEF n
<1>6. Composed = Start(log[n]) + chunked
  BY <1>1, <1>2, <1>3, <1>4, <1>5 DEF Composed, CksumWidth
<1> QED
  BY <1>1, <1>2, <1>3, <1>4, <1>6 DEF n

LEMMA SendBeginKeeps ==
  ASSUME SendInv, line \in Seq(Symbol), LogInv, BodyInv, FlightInv, damaged' = damaged,
         NEW f \in Frames, SendBegin(f)
  PROVE  /\ LogInv' /\ BodyInv' /\ FlightInv' /\ Place' = Place /\ Extends
         /\ \A n \in DOMAIN log : Behind(n) => Behind(n)'
<1> DEFINE n == Len(log) + 1
           bytes == HeadBytes(f)
           new == Symbols(bytes) \o CksumOf(bytes, n)
<1>1. log \in Seq(BlockType) /\ log' \in Seq(BlockType) /\ Len(log) \in Nat
  BY SendBeginInv DEF SendInv
<1>2. log' = log \o Blocks(f, Total(log)) /\ Total(log) \in Nat
  BY <1>1, TotalType DEF SendBegin
<1>3. /\ LogInv' /\ Extends
      /\ Total(log') = Total(log) + HeadWidth
                       + (IF f.data = <<>> THEN 0 ELSE Len(f.data) + CksumWidth)
  BY <1>1, <1>2, LogGrows DEF Extends
<1>4. n \in DOMAIN log' /\ log'[n] = Block("head", bytes, Total(log)) /\ n \in Nat
  <2>1. /\ log'[Len(log) + 1] = Block("head", HeadBytes(f), Total(log))
        /\ Len(log') = IF f.data = <<>> THEN Len(log) + 1 ELSE Len(log) + 2
    BY <1>1, <1>2, LogAppended
  <2>2. DOMAIN log' = 1 .. Len(log')
    BY <1>1, LenProperties
  <2>3. 1 <= Len(log) + 1 /\ Len(log) + 1 <= Len(log') /\ Len(log) + 1 \in Nat
    BY <1>1, <2>1
  <2> QED
    BY <2>1, <2>2, <2>3
<1>5. bytes \in Seq(Byte) /\ Len(bytes) = 5
  BY HeadBytesType
<1> HIDE DEF bytes
<1>6. /\ new \in Seq(Symbol) /\ Len(new) = HeadWidth
      /\ \A i \in 1 .. HeadWidth :
           new[i] = IF i <= 5 THEN Plain(bytes[i]) ELSE Cksum(bytes, i - 5, n)
  <2>1. /\ new \in Seq(Symbol) /\ Len(new) = Len(bytes) + CksumWidth
        /\ \A i \in 1 .. Len(bytes) + CksumWidth :
             new[i] = IF i <= Len(bytes) THEN Plain(bytes[i])
                      ELSE Cksum(bytes, i - Len(bytes), n)
    BY <1>4, <1>5, BlockComposed
  <2>2. Len(bytes) + CksumWidth = HeadWidth
    BY <1>5 DEF HeadWidth, CksumWidth
  <2> HIDE DEF new
  <2> QED
    BY <1>5, <2>1, <2>2
<1>7. log'[n].bytes = bytes /\ Start(log'[n]) = Total(log)
  <2>1. /\ Block("head", bytes, Total(log)).bytes = bytes
        /\ Start(Block("head", bytes, Total(log))) = Total(log)
    BY <1>2, <1>5, BlockIs
  <2> QED
    BY <1>4, <2>1
<1>8. /\ send_pc = "idle" /\ msg' = f /\ chunked' = 0 /\ tx_cksum' = <<>> /\ line' = line
      /\ send_pc' = IF f.data = <<>> THEN "end" ELSE "chunk"
      /\ sendbuf' = new
  BY DEF SendBegin, bytes
<1> HIDE DEF new, n
<1>9. sendbuf = <<>>
  BY <1>8 DEF BodyInv
<1>10. Flight' = Flight \o new
  <2>1. Flight = line
    BY <1>9, ConcatEmptySeq DEF Flight
  <2> QED
    BY <1>8, <2>1 DEF Flight
<1>11. f.data \in Seq(Byte) /\ Len(f.data) \in Nat
  BY FormatAssumption
<1>12. Composed = Total(log) /\ Composed' = Composed + Len(new)
  <2>1. Composed = Total(log)
    BY <1>2, <1>8 DEF Composed, Pending
  <2>2. Pending' = IF f.data = <<>> THEN 0 ELSE Len(f.data) + CksumWidth
    <3>1. CASE f.data = <<>>
      BY <1>8, <3>1 DEF Pending
    <3>2. CASE f.data # <<>>
      BY <1>8, <1>11, <3>2 DEF Pending, CksumWidth
    <3> QED
      BY <3>1, <3>2
  <2> DEFINE k == IF f.data = <<>> THEN 0 ELSE Len(f.data) + CksumWidth
  <2>3. k \in Nat
    BY <1>11 DEF CksumWidth
  <2>4. Composed' = (Total(log) + HeadWidth + k) - k
    BY <1>3, <2>2 DEF Composed
  <2> HIDE DEF k
  <2> QED
    BY <1>2, <1>6, <2>1, <2>3, <2>4 DEF HeadWidth
<1>13. ASSUME NEW i \in DOMAIN new
       PROVE  Carried(log', new[i], Composed + i)
  <2>1. i \in 1 .. HeadWidth
    BY <1>6
  <2>2. new[i] = SymbolIn(log', n, i)
    BY <1>5, <1>6, <1>7, <2>1 DEF SymbolIn
  <2>3. i \in 1 .. Len(log'[n].bytes) + CksumWidth
    <3>1. Len(log'[n].bytes) = 5
      BY <1>5, <1>7
    <3>2. Len(log'[n].bytes) + CksumWidth = HeadWidth
      BY <3>1 DEF HeadWidth, CksumWidth
    <3> QED
      BY <2>1, <3>2
  <2> QED
    BY <1>1, <1>4, <1>7, <1>12, <2>2, <2>3, BlockCarried
<1>14. FlightInv' /\ Place' = Place /\ \A m \in DOMAIN log : Behind(m) => Behind(m)'
  BY <1>1, <1>3, <1>6, <1>10, <1>12, <1>13, Composes DEF Extends
<1>15. BodyInv'
  <2>1. CASE f.data = <<>>
    BY <1>8, <2>1 DEF BodyInv
  <2>2. CASE f.data # <<>>
    <3>1. /\ Len(log') = Len(log) + 2 /\ log' # <<>>
          /\ log'[Len(log) + 2] = Block("body", f.data, Total(log) + HeadWidth)
      <4>1. /\ Len(log') = Len(log) + 2
            /\ log'[Len(log) + 2] = Block("body", f.data, Total(log) + HeadWidth)
        <5>1. /\ Len(log') = IF f.data = <<>> THEN Len(log) + 1 ELSE Len(log) + 2
              /\ f.data # <<>> =>
                   log'[Len(log) + 2] = Block("body", f.data, Total(log) + HeadWidth)
          BY <1>1, <1>2, LogAppended
        <5> QED
          BY <2>2, <5>1
      <4>2. log' # <<>>
        BY <1>1, <4>1, EmptySeq
      <4> QED
        BY <4>1, <4>2
    <3>2. log'[Len(log')].bytes = f.data
      BY <3>1 DEF Block
    <3>3. Len(f.data) # 0
      BY <1>11, <2>2, EmptySeq
    <3> QED
      BY <1>8, <1>11, <2>2, <3>1, <3>2, <3>3 DEF BodyInv
  <2> QED
    BY <2>1, <2>2
<1> QED
  BY <1>3, <1>14, <1>15

LEMMA SendChunkKeeps ==
  ASSUME SendInv, line \in Seq(Symbol), LogInv, BodyInv, FlightInv, damaged' = damaged,
         SendChunk
  PROVE  /\ LogInv' /\ BodyInv' /\ FlightInv' /\ Place' = Place /\ Extends
         /\ \A n \in DOMAIN log : Behind(n) => Behind(n)'
<1> DEFINE body == msg.data
           size == Least(SendbufLen - Len(sendbuf), Len(body) - chunked)
           part == SubSeq(body, chunked + 1, chunked + size)
           new == Symbols(part)
           full == sendbuf \o new
           n == Len(log)
<1>1. /\ send_pc = "chunk"
      /\ chunked' = chunked + size /\ tx_cksum' = tx_cksum \o part
      /\ IF Len(full) = SendbufLen
         THEN line' = line \o full /\ sendbuf' = <<>>
         ELSE line' = line /\ sendbuf' = full
      /\ send_pc' = IF chunked' = Len(msg.data) THEN "end" ELSE "chunk"
      /\ msg' = msg /\ log' = log
  BY DEF SendChunk, Write
<1>2. /\ sendbuf \in Seq(Symbol) /\ Len(sendbuf) \in Nat /\ Len(sendbuf) <= SendbufLen
      /\ tx_cksum \in Seq(Byte) /\ Len(tx_cksum) = chunked
      /\ log \in Seq(BlockType)
  BY DEF SendInv, SendTypeOK
<1>3. chunked < Len(body) /\ body # <<>>
  <2>1. chunked < Len(body) /\ chunked \in Nat
    BY <1>1 DEF BodyInv, SendInv, SendTypeOK
  <2> QED
    BY <2>1, EmptySeq
<1>4. /\ n \in DOMAIN log /\ n \in Nat /\ log[n].bytes = body
      /\ body \in Seq(Byte) /\ Len(body) \in Nat
      /\ Start(log[n]) \in Nat /\ Composed = Start(log[n]) + chunked
      /\ chunked \in 0 .. Len(body)
  BY <1>1, <1>3, BodyIsLast
<1>5. \A i \in 1 .. chunked : tx_cksum[i] = body[i]
  BY <1>1, <1>3 DEF BodyInv
<1> HIDE DEF body, n
<1>6. size \in Nat /\ chunked + size \in 0 .. Len(body)
  BY <1>2, <1>4, SendAssumption DEF Least
<1> HIDE DEF size
<1>7. /\ part \in Seq(Byte) /\ Len(part) = size
      /\ \A i \in 1 .. size : part[i] = body[chunked + i]
  BY <1>4, <1>6
<1> HIDE DEF part
<1>8. /\ new \in Seq(Symbol) /\ Len(new) = size
      /\ \A i \in 1 .. size : new[i] = Plain(part[i])
  <2>1. \A i \in 1 .. size : new[i] = Plain(part[i])
    BY <1>7 DEF Symbols
  <2> QED
    BY <1>7, <2>1, SymbolsType
<1> HIDE DEF new
<1>9. Flight' = Flight \o new
  <2>1. line \o full = Flight \o new
    <3>1. line \in Seq(Symbol) /\ sendbuf \in Seq(Symbol) /\ new \in Seq(Symbol)
      BY <1>2, <1>8
    <3>2. (line \o sendbuf) \o new = line \o (sendbuf \o new)
      BY <3>1, ConcatAssociative, SMTT(30)
    <3> QED
      BY <3>2 DEF Flight
  <2>2. full \in Seq(Symbol) /\ line \o full \in Seq(Symbol)
    BY <1>2, <1>8, ConcatProperties
  <2> HIDE DEF full
  <2>3. CASE Len(full) = SendbufLen
    <3>1. Flight' = (line \o full) \o <<>>
      BY <1>1, <2>3 DEF Flight
    <3> QED
      BY <2>1, <2>2, <3>1, ConcatEmptySeq
  <2>4. CASE Len(full) # SendbufLen
    BY <1>1, <2>1, <2>4 DEF Flight
  <2> QED
    BY <2>3, <2>4
<1>10. Composed' = Composed + Len(new)
  <2>1. Pending = Len(body) - chunked + CksumWidth
    BY <1>1, <1>3 DEF Pending, body
  <2>2. Pending' = Len(body) - chunked' + CksumWidth
    BY <1>1, <1>3 DEF Pending, body
  <2>3. Total(log) \in Nat /\ Total(log') = Total(log)
    BY <1>1, <1>2, TotalType
  <2> QED
    BY <1>1, <1>4, <1>6, <1>8, <2>1, <2>2, <2>3 DEF Composed, CksumWidth
<1>11. ASSUME NEW i \in DOMAIN new
       PROVE  Carried(log', new[i], Composed + i)
  <2>1. i \in 1 .. size
    BY <1>8
  <2>2. chunked + i \in 1 .. Len(body)
    BY <1>4, <1>6, <2>1
  <2>3. new[i] = SymbolIn(log, n, chunked + i)
    BY <1>4, <1>7, <1>8, <2>1, <2>2 DEF SymbolIn
  <2>4. Composed + i = Start(log[n]) + (chunked + i)
    BY <1>4, <2>1, <1>6
  <2>5. chunked + i \in 1 .. Len(log[n].bytes) + CksumWidth
    BY <1>4, <2>2 DEF CksumWidth
  <2>6. Carried(log, SymbolIn(log, n, chunked + i), Start(log[n]) + (chunked + i))
    BY <1>2, <1>4, <2>5, BlockCarried
  <2> QED
    BY <1>1, <2>3, <2>4, <2>6
<1>12. Extends
  BY <1>1 DEF Extends
<1>13. FlightInv' /\ Place' = Place /\ \A m \in DOMAIN log : Behind(m) => Behind(m)'
  BY <1>1, <1>2, <1>8, <1>9, <1>10, <1>11, <1>12, Composes DEF Extends
<1>14. LogInv'
  BY <1>1 DEF LogInv, BlockInv
<1>15. BodyInv'
  <2>1. ASSUME NEW i \in 1 .. chunked + size
        PROVE  (tx_cksum \o part)[i] = body[i]
    <3>1. (tx_cksum \o part)[i] = IF i <= chunked THEN tx_cksum[i] ELSE part[i - chunked]
      BY <1>2, <1>7, ConcatProperties
    <3>2. CASE i <= chunked
      BY <1>4, <1>5, <3>1, <3>2
    <3>3. CASE ~(i <= chunked)
      <4>1. i - chunked \in 1 .. size /\ chunked + (i - chunked) = i
        BY <1>4, <1>6, <3>3
      <4> QED
        BY <1>7, <3>1, <3>3, <4>1
    <3> QED
      BY <3>2, <3>3
  <2>2. log' # <<>> /\ log'[Len(log')].bytes = msg'.data
    BY <1>1, <1>2, <1>4 DEF n, body
  <2>3. \A i \in 1 .. chunked' : tx_cksum'[i] = msg'.data[i]
    BY <1>1, <2>1 DEF body
  <2>4. /\ send_pc' \in {"chunk", "end"}
        /\ send_pc' = "chunk" => chunked' < Len(msg'.data)
        /\ send_pc' = "end" => chunked' = Len(msg'.data)
    <3>1. Len(msg'.data) = Len(body) /\ chunked' \in 0 .. Len(body)
      BY <1>1, <1>6 DEF body
    <3>2. send_pc' = IF chunked' = Len(body) THEN "end" ELSE "chunk"
      BY <1>1 DEF body
    <3> QED
      BY <1>4, <3>1, <3>2
  <2> QED
    BY <2>2, <2>3, <2>4 DEF BodyInv
<1> QED
  BY <1>12, <1>13, <1>14, <1>15

LEMMA SendEndKeeps ==
  ASSUME SendInv, line \in Seq(Symbol), LogInv, BodyInv, FlightInv, damaged' = damaged,
         SendEnd
  PROVE  /\ LogInv' /\ BodyInv' /\ FlightInv' /\ Place' = Place /\ Extends
         /\ \A n \in DOMAIN log : Behind(n) => Behind(n)'
<1> DEFINE body == msg.data
           n == Len(log)
           crowded == body # <<>> /\ SendbufLen - Len(sendbuf) < CksumWidth
           new == IF body = <<>> THEN <<>> ELSE CksumOf(tx_cksum, n)
<1>1. /\ send_pc = "end" /\ send_pc' = "write"
      /\ IF crowded THEN line' = line \o sendbuf /\ sendbuf' = new
                    ELSE line' = line /\ sendbuf' = sendbuf \o new
      /\ UNCHANGED <<msg, chunked, tx_cksum, log>>
  BY DEF SendEnd, Write
<1>2. /\ sendbuf \in Seq(Symbol) /\ log \in Seq(BlockType) /\ n \in Nat
      /\ tx_cksum \in Seq(Byte) /\ Len(tx_cksum) = chunked
  BY DEF SendInv, SendTypeOK
<1>3. ASSUME body # <<>>
      PROVE  /\ n \in DOMAIN log /\ log[n].bytes = body
             /\ Len(body) \in Nat /\ Start(log[n]) \in Nat
             /\ Composed = Start(log[n]) + Len(body)
             /\ tx_cksum = body
  <2>1. /\ n \in DOMAIN log /\ log[n].bytes = body
        /\ body \in Seq(Byte) /\ Len(body) \in Nat
        /\ Start(log[n]) \in Nat /\ Composed = Start(log[n]) + chunked
    BY <1>1, <1>3, BodyIsLast
  <2>2. chunked = Len(body) /\ \A i \in 1 .. chunked : tx_cksum[i] = body[i]
    BY <1>1, <1>3 DEF BodyInv
  <2>3. tx_cksum = body
    BY <1>2, <2>1, <2>2, SeqEqual
  <2> QED
    BY <2>1, <2>2, <2>3
<1>4. /\ new \in Seq(Symbol)
      /\ Len(new) = IF body = <<>> THEN 0 ELSE CksumWidth
      /\ body # <<>> => \A i \in 1 .. CksumWidth : new[i] = Cksum(body, i, n)
  <2>1. CASE body = <<>>
    BY <2>1, EmptySeq
  <2>2. CASE body # <<>>
    <3>1. /\ CksumOf(tx_cksum, n) \in Seq(Symbol) /\ Len(CksumOf(tx_cksum, n)) = CksumWidth
          /\ \A i \in 1 .. CksumWidth : CksumOf(tx_cksum, n)[i] = Cksum(tx_cksum, i, n)
      <4>1. \A i \in 1 .. CksumWidth : CksumOf(tx_cksum, n)[i] = Cksum(tx_cksum, i, n)
        BY DEF CksumOf
      <4> QED
        BY <1>2, <4>1, CksumType DEF CksumWidth
    <3> QED
      BY <1>3, <2>2, <3>1
  <2> QED
    BY <2>1, <2>2
<1> HIDE DEF body, n, new, crowded
<1>5. Flight' = Flight \o new
  <2>1. CASE crowded
    BY <1>1, <2>1 DEF Flight
  <2>2. CASE ~crowded
    <3>1. line' = line /\ sendbuf' = sendbuf \o new
      BY <1>1, <2>2
    <3>2. new \in Seq(Symbol) /\ sendbuf \in Seq(Symbol)
      BY <1>2, <1>4
    <3>3. (line \o sendbuf) \o new = line \o (sendbuf \o new)
      BY <3>2, ConcatAssociative, SMTT(30)
    <3> QED
      BY <3>1, <3>3 DEF Flight
  <2> QED
    BY <2>1, <2>2
<1>6. Composed' = Composed + Len(new)
  <2>1. Total(log) \in Nat /\ Total(log') = Total(log)
    BY <1>1, <1>2, TotalType
  <2>2. Pending' = 0
    BY <1>1 DEF Pending
  <2>3. Pending = Len(new)
    <3>1. CASE body = <<>>
      BY <1>4, <3>1 DEF Pending, body
    <3>2. CASE body # <<>>
      <4>1. chunked = Len(body) /\ Len(body) \in Nat
        BY <1>1, <1>3, <3>2 DEF BodyInv, body
      <4>2. Pending = Len(body) - chunked + CksumWidth
        BY <1>1, <3>2 DEF Pending, body
      <4> QED
        BY <1>4, <3>2, <4>1, <4>2 DEF CksumWidth
    <3> QED
      BY <3>1, <3>2
  <2>4. Len(new) \in Nat
    BY <1>4
  <2> QED
    BY <2>1, <2>2, <2>3, <2>4 DEF Composed
<1>7. ASSUME NEW i \in DOMAIN new
      PROVE  Carried(log', new[i], Composed + i)
  <2>1. body # <<>> /\ i \in 1 .. CksumWidth
    BY <1>4
  <2>2. /\ new[i] = SymbolIn(log, n, Len(body) + i)
        /\ Composed + i = Start(log[n]) + (Len(body) + i)
        /\ Len(body) + i \in 1 .. Len(log[n].bytes) + CksumWidth
    <3>1. /\ log[n].bytes = body /\ Len(body) \in Nat
          /\ Composed = Start(log[n]) + Len(body) /\ Start(log[n]) \in Nat
          /\ new[i] = Cksum(body, i, n)
      BY <1>3, <1>4, <2>1
    <3> DEFINE m == Len(body)
               a == Start(log[n])
    <3>2. m \in Nat /\ a \in Nat /\ i \in 1 .. 2 /\ Composed = a + m
      BY <2>1, <3>1 DEF CksumWidth
    <3> HIDE DEF m, a
    <3>3. /\ ~(m + i <= m) /\ (m + i) - m = i /\ m + i \in 1 .. m + 2
          /\ Composed + i = a + (m + i)
      BY <3>2
    <3> QED
      BY <3>1, <3>3 DEF SymbolIn, CksumWidth, m, a
  <2>3. Carried(log, SymbolIn(log, n, Len(body) + i), Start(log[n]) + (Len(body) + i))
    BY <1>2, <1>3, <2>1, <2>2, BlockCarried
  <2> QED
    BY <1>1, <2>2, <2>3
<1>8. Extends
  BY <1>1 DEF Extends
<1>9. FlightInv' /\ Place' = Place /\ \A m \in DOMAIN log : Behind(m) => Behind(m)'
  BY <1>1, <1>2, <1>4, <1>5, <1>6, <1>7, <1>8, Composes DEF Extends
<1>10. LogInv' /\ BodyInv'
  BY <1>1 DEF LogInv, BlockInv, BodyInv
<1> QED
  BY <1>8, <1>9, <1>10

LEMMA SendWriteKeeps ==
  ASSUME SendInv, line \in Seq(Symbol), LogInv, BodyInv, FlightInv, damaged' = damaged,
         SendWrite
  PROVE  /\ LogInv' /\ BodyInv' /\ FlightInv' /\ Place' = Place /\ Extends
         /\ \A n \in DOMAIN log : Behind(n) => Behind(n)'
<1>1. /\ send_pc = "write" /\ send_pc' = "idle" /\ msg' = NoMsg /\ log' = log
      /\ line' = line \o sendbuf /\ sendbuf' = <<>>
  BY DEF SendWrite, Write
<1>2. Flight \in Seq(Symbol) /\ log \in Seq(BlockType) /\ Composed \in Int
  BY FlightType DEF SendInv
<1>3. Flight' = Flight \o <<>>
  BY <1>1 DEF Flight
<1>4. Composed' = Composed + Len(<<>>)
  <2>1. Pending = 0 /\ Pending' = 0
    BY <1>1 DEF Pending, NoMsg
  <2>2. Composed' = Composed
    BY <1>1, <2>1 DEF Composed
  <2> QED
    BY <1>2, <2>2, EmptySeq
<1>5. Extends
  BY <1>1 DEF Extends
<1>6. FlightInv' /\ Place' = Place /\ \A m \in DOMAIN log : Behind(m) => Behind(m)'
  <2>1. <<>> \in Seq(Symbol) /\ \A i \in DOMAIN <<>> : Carried(log', <<>>[i], Composed + i)
    BY EmptySeq
  <2> QED
    BY <1>1, <1>2, <1>3, <1>4, <1>5, <2>1, Composes DEF Extends
<1>7. LogInv' /\ BodyInv'
  BY <1>1 DEF LogInv, BlockInv, BodyInv
<1> QED
  BY <1>5, <1>6, <1>7

-----------------------------------------------------------------------------
(* The line keeps what is on its way in place: it fails at the reader's    *)
(* end only.                                                               *)

\* Some symbols are read or lost.
LEMMA Shifts ==
  ASSUME SendInv, line \in Seq(Symbol), LogInv, BodyInv,
         NEW k \in Nat, k <= Len(line), line' = SubSeq(line, k + 1, Len(line)),
         UNCHANGED sendVars
  PROVE  /\ Composed' = Composed /\ Place' = Place + k
         /\ \A i \in DOMAIN Flight' : i + k \in DOMAIN Flight /\ Flight'[i] = Flight[i + k]
         /\ LogInv' /\ BodyInv'
         /\ FlightInv /\ (damaged => damaged') => FlightInv'
         /\ \A n \in DOMAIN log : Behind(n) => Behind(n)'
<1> DEFINE m == Len(line)
           j == Len(sendbuf)
<1>1. sendbuf \in Seq(Symbol) /\ m \in Nat /\ j \in Nat /\ k <= m
  BY DEF SendInv
<1>2. UNCHANGED <<send_pc, sendbuf, msg, chunked, tx_cksum, log>>
  BY DEF sendVars
<1>3. /\ line' \in Seq(Symbol) /\ Len(line') = m - k
      /\ \A i \in 1 .. m - k : line'[i] = line[i + k]
  <2>1. line' \in Seq(Symbol) /\ Len(line') = m - k
    OBVIOUS
  <2>2. \A i \in 1 .. m - k : line'[i] = line[i + k]
    OBVIOUS
  <2> QED
    BY <2>1, <2>2
<1>4. /\ Flight \in Seq(Symbol) /\ Len(Flight) = m + j /\ DOMAIN Flight = 1 .. m + j
      /\ \A i \in 1 .. m + j : Flight[i] = IF i <= m THEN line[i] ELSE sendbuf[i - m]
  <2>1. Flight \in Seq(Symbol) /\ Len(Flight) = m + j
    BY <1>1, ConcatProperties DEF Flight
  <2>2. DOMAIN Flight = 1 .. m + j
    BY <2>1
  <2> QED
    BY <1>1, <2>1, <2>2, ConcatProperties DEF Flight
<1>5. /\ Flight' \in Seq(Symbol) /\ Len(Flight') = m - k + j /\ DOMAIN Flight' = 1 .. m - k + j
      /\ \A i \in 1 .. m - k + j :
           Flight'[i] = IF i <= m - k THEN line'[i] ELSE sendbuf[i - (m - k)]
  <2>1. Flight' = line' \o sendbuf
    BY <1>2 DEF Flight
  <2>2. /\ Flight' \in Seq(Symbol) /\ Len(Flight') = m - k + j
        /\ \A i \in 1 .. m - k + j :
             Flight'[i] = IF i <= m - k THEN line'[i] ELSE sendbuf[i - (m - k)]
    <3>1. /\ Flight' \in Seq(Symbol) /\ Len(Flight') = Len(line') + Len(sendbuf)
          /\ \A i \in 1 .. Len(line') + Len(sendbuf) :
               Flight'[i] = IF i <= Len(line') THEN line'[i] ELSE sendbuf[i - Len(line')]
      BY <1>1, <1>3, <2>1, ConcatProperties
    <3> HIDE DEF m
    <3> QED
      BY <1>3, <3>1
  <2> QED
    BY <1>1, <2>2
<1> HIDE DEF m, j
<1>6. ASSUME NEW i \in DOMAIN Flight'
      PROVE  i + k \in DOMAIN Flight /\ Flight'[i] = Flight[i + k]
  <2>1. i \in 1 .. m - k + j /\ i + k \in 1 .. m + j
    BY <1>1, <1>5
  <2>2. CASE i <= m - k
    <3>1. i \in 1 .. m - k /\ i + k <= m
      BY <1>1, <2>1, <2>2
    <3> QED
      BY <1>3, <1>4, <1>5, <2>1, <2>2, <3>1
  <2>3. CASE ~(i <= m - k)
    <3>1. ~(i + k <= m) /\ (i + k) - m = i - (m - k)
      BY <1>1, <2>1, <2>3
    <3> QED
      BY <1>4, <1>5, <2>1, <2>3, <3>1
  <2> QED
    BY <2>2, <2>3
<1>7. Composed' = Composed
  BY <1>2 DEF Composed, Pending
<1>8. Place' = Place + k /\ Place \in Int
  <2>1. Composed \in Int
    BY FlightType
  <2> QED
    BY <1>1, <1>4, <1>5, <1>7, <2>1 DEF Place
<1>9. LogInv' /\ BodyInv'
  BY <1>2 DEF LogInv, BlockInv, BodyInv
<1>10. ASSUME NEW i \in DOMAIN Flight'
       PROVE  Place' + i = Place + (i + k)
  BY <1>1, <1>5, <1>8
<1>11. ASSUME FlightInv, damaged => damaged'
       PROVE  FlightInv'
  BY <1>2, <1>6, <1>10, <1>11 DEF FlightInv
<1>12. ASSUME NEW n \in DOMAIN log, Behind(n)
       PROVE  Behind(n)'
  BY <1>2, <1>6, <1>7, <1>10, <1>12 DEF Behind
<1> QED
  BY <1>6, <1>7, <1>8, <1>9, <1>11, <1>12

-----------------------------------------------------------------------------
(* What the parser has read.                                               *)

HeadStates == {"ID", "LEN", "TYPE", "HEAD_CKSUM"}
BodyStates == {"DATA", "DATA_CKSUM"}

\* What the checksum of a head is computed of, and what else was kept of it.
HeadRead ==
  state \in HeadStates =>
    /\ cksum[1] = Sof
    /\ state = "ID" => Len(cksum) = 1
    /\ state # "ID" => cksum[2] = id
    /\ state = "LEN" => Len(cksum) = 2 + rxi /\ (rxi = 1 => len % Base = cksum[3])
    /\ state = "TYPE" => Len(cksum) = 4 /\ len = LengthIn(cksum)
    /\ state = "HEAD_CKSUM" => Len(cksum) = 5 /\ len = LengthIn(cksum) /\ cksum[5] = type

\* Two bytes shift the length of an older frame out.
LEMMA Shift ==
  ASSUME NEW l \in Nat, NEW hi \in Byte, NEW v \in Byte, l % Base = hi
  PROVE  (l * Base + v) % (Base * Base) = hi * Base + v
<1> DEFINE d == l \div Base
           n == l * Base + v
           r == hi * Base + v
           b == Base * Base
<1>1. d \in Nat /\ l = Base * d + hi
  BY DivMod
<1>2. hi \in Nat /\ v \in Nat /\ hi <= Base - 1 /\ v <= Base - 1 /\ Base \in Nat /\ Base > 1
  BY ByteFacts DEF Byte
<1> HIDE DEF d
<1>3. n = b * d + r
  BY <1>1, <1>2
<1>4. r \in Nat /\ r < b
  <2>1. hi * Base <= (Base - 1) * Base
    BY <1>2
  <2>2. (Base - 1) * Base = b - Base /\ hi * Base \in Nat /\ b \in Nat
    BY <1>2
  <2> QED
    BY <1>2, <2>1, <2>2
<1>5. b \in Nat /\ b > 1
  BY ByteFacts
<1>6. \A x \in Nat, y \in Nat, z \in Nat : y < z => (z * x + y) % z = y
  OBVIOUS
<1> HIDE DEF n, r, b
<1>7. n % b = r
  BY <1>1, <1>3, <1>4, <1>5, <1>6
<1> QED
  BY <1>7 DEF n, r, b

LEMMA ShiftedIn ==
  ASSUME NEW l \in Nat, NEW v \in Byte
  PROVE  ((l * Base + v) % (Base * Base)) % Base = v
<1> DEFINE hi == l % Base
           r == hi * Base + v
<1>1. hi \in 0 .. Base - 1 /\ v \in 0 .. Base - 1 /\ Base \in Nat /\ Base > 1
  BY ByteFacts DEF Byte
<1>2. (l * Base + v) % (Base * Base) = r
  BY <1>1, Shift DEF Byte
<1> HIDE DEF hi
<1>3. \A x \in Nat, y \in Nat, z \in Nat : y < z => (x * z + y) % z = y
  OBVIOUS
<1>4. r % Base = v
  BY <1>1, <1>3
<1> QED
  BY <1>2, <1>4

LEMMA HeadReadKept ==
  ASSUME ParserInv, HeadRead, NEW c \in Symbol, AcceptChar(c)
  PROVE  HeadRead'
<1> USE DEF HeadStates
<1>1. /\ cksum \in Seq(Byte) /\ len \in Nat
      /\ StateNow # "SOF" => StateNow = state
      /\ state = "LEN" => rxi \in {0, 1}
  <2>1. state = "LEN" => rxi \in {0, 1}
    BY DEF ParserInv, ParserTypeOK
  <2> QED
    BY <2>1, StateFound DEF ParserInv, ParserTypeOK
<1>2. ASSUME NEW v \in Byte
      PROVE  /\ Len(Append(cksum, v)) = Len(cksum) + 1 /\ Len(cksum) \in Nat
             /\ \A i \in 1 .. Len(cksum) : Append(cksum, v)[i] = cksum[i]
             /\ Append(cksum, v)[Len(cksum) + 1] = v
  BY <1>1, AppendProperties
<1>3. ASSUME NEW v \in Byte, AcceptSof(v)
      PROVE  HeadRead'
  <2>1. CASE v = Sof
    BY <1>3, <2>1 DEF AcceptSof, BeginFrame, HeadRead
  <2>2. CASE v # Sof
    BY <1>3, <2>2 DEF AcceptSof, HeadRead
  <2> QED
    BY <2>1, <2>2
<1>4. ASSUME NEW v \in Byte, AcceptId(v)
      PROVE  HeadRead'
  <2>1. state = "ID" /\ cksum' = Append(cksum, v) /\ id' = v /\ state' = "LEN" /\ rxi' = 0
    BY <1>1, <1>4 DEF AcceptId
  <2>2. Len(cksum) = 1 /\ cksum[1] = Sof
    BY <2>1 DEF HeadRead
  <2>3. Len(cksum') = 2 /\ cksum'[1] = Sof /\ cksum'[2] = v
    BY <1>2, <2>1, <2>2
  <2> QED
    BY <2>1, <2>3 DEF HeadRead
<1>5. ASSUME NEW v \in Byte, AcceptLen(v)
      PROVE  HeadRead'
  <2>1. /\ state = "LEN" /\ cksum' = Append(cksum, v) /\ id' = id
        /\ len' = (len * Base + v) % (Base * Base)
        /\ rxi \in {0, 1}
    BY <1>1, <1>5 DEF AcceptLen
  <2>2. Len(cksum) = 2 + rxi /\ cksum[1] = Sof /\ cksum[2] = id
    BY <2>1 DEF HeadRead
  <2>3. CASE rxi = 0
    <3>1. state' = "LEN" /\ rxi' = 1
      BY <1>5, <2>3 DEF AcceptLen
    <3>2. Len(cksum') = 3 /\ cksum'[1] = Sof /\ cksum'[2] = id /\ cksum'[3] = v
      BY <1>2, <2>1, <2>2, <2>3
    <3>3. len' % Base = v
      BY <1>1, <2>1, ShiftedIn
    <3> QED
      BY <2>1, <3>1, <3>2, <3>3 DEF HeadRead
  <2>4. CASE rxi = 1
    <3>1. state' = "TYPE"
      BY <1>5, <2>4 DEF AcceptLen
    <3>2. /\ Len(cksum') = 4 /\ cksum'[1] = Sof /\ cksum'[2] = id
          /\ cksum'[3] = cksum[3] /\ cksum'[4] = v
      BY <1>2, <2>1, <2>2, <2>4
    <3>3. len % Base = cksum[3] /\ cksum[3] \in Byte
      BY <1>1, <2>1, <2>2, <2>4 DEF HeadRead
    <3>4. len' = cksum[3] * Base + v
      BY <1>1, <2>1, <3>3, Shift
    <3> QED
      BY <2>1, <3>1, <3>2, <3>4 DEF HeadRead, LengthIn
  <2> QED
    BY <2>1, <2>3, <2>4
<1>6. ASSUME NEW v \in Byte, AcceptType(v)
      PROVE  HeadRead'
  <2>1. /\ state = "TYPE" /\ state' = "HEAD_CKSUM" /\ type' = v
        /\ cksum' = Append(cksum, v) /\ UNCHANGED <<id, len>>
    BY <1>1, <1>6 DEF AcceptType
  <2>2. /\ Len(cksum) = 4 /\ cksum[1] = Sof /\ cksum[2] = id /\ len = LengthIn(cksum)
    BY <2>1 DEF HeadRead
  <2>3. /\ Len(cksum') = 5 /\ cksum'[1] = Sof /\ cksum'[2] = id
        /\ cksum'[3] = cksum[3] /\ cksum'[4] = cksum[4] /\ cksum'[5] = v
    BY <1>2, <2>1, <2>2
  <2> QED
    BY <2>1, <2>2, <2>3 DEF HeadRead, LengthIn
<1>7. CASE AcceptCksum(c)
  BY <1>1, <1>7 DEF AcceptCksum, HeadRead
<1>8. ASSUME state' \in {"SOF", "DATA", "DATA_CKSUM"}
      PROVE  HeadRead'
  BY <1>8 DEF HeadRead
<1>9. CASE AcceptHead(c)
  <2>1. state' \in {"SOF", "DATA"}
    BY <1>9 DEF AcceptHead
  <2> QED
    BY <1>8, <2>1
<1>10. ASSUME NEW v \in Byte, AcceptData(v)
       PROVE  HeadRead'
  <2>1. state' \in {"DATA", "DATA_CKSUM"}
    BY <1>10 DEF AcceptData
  <2> QED
    BY <1>8, <2>1
<1>11. CASE AcceptBody(c)
  BY <1>8, <1>11 DEF AcceptBody
<1> QED
  BY <1>3, <1>4, <1>5, <1>6, <1>7, <1>9, <1>10, <1>11, ByteRead DEF AcceptChar

-----------------------------------------------------------------------------
(* Which blocks the parser has accepted.                                   *)

Message == [frame : [id : Byte, type : Byte, data : Seq(Byte)], head : Nat, body : Nat]

\* The last block that was handed over.
Last == IF handed = <<>> THEN 0 ELSE handed[Len(handed)].body

\* The bytes read of a body and its checksum.
Received == IF state = "DATA" THEN rxi ELSE len + rxi

\* The head that was accepted, and how far behind it the parser can be: as many
\* bytes as it has read since, and as were lost since.
BodyRead ==
  state \in BodyStates =>
    /\ Behind(head) /\ Last < head
    /\ PassForHead(log[head].bytes)
    /\ id = log[head].bytes[2] /\ type = log[head].bytes[5]
    /\ len = LengthIn(log[head].bytes) /\ len # 0
    /\ discard_data \/ cksum = data
    /\ Place - log[head].end <= lost + Received

UsedInv ==
  /\ handed \in Seq(Message) /\ head \in Nat
  /\ Last = 0 \/ Behind(Last)
  /\ head = 0 \/ Behind(head)
  /\ lost \in Nat

StreamInv == LogInv /\ BodyInv /\ FlightInv
ReadInv == HeadRead /\ BodyRead /\ UsedInv

\* Sums of places, losses and counts.
LEMMA NoNearer ==
  ASSUME NEW p \in Int, NEW q \in Int, NEW l \in Nat, NEW m \in Nat, NEW e \in Nat, NEW k \in Nat,
         q - m <= p - l, p - e <= l + k
  PROVE  q - e <= m + k
OBVIOUS

\* A step that leaves the parser alone and takes it no further than bytes are lost.
LEMMA ReadKept ==
  ASSUME ReadInv, ParserInv, log \in Seq(BlockType), Place \in Int, Place' \in Int,
         UNCHANGED <<state, rxi, id, len, type, data, cksum, discard_data, head, handed>>,
         Extends, \A n \in DOMAIN log : Behind(n) => Behind(n)',
         lost' \in Nat, Place' - lost' <= Place - lost
  PROVE  ReadInv'
<1>1. HeadRead'
  BY DEF ReadInv, HeadRead
<1>2. Last' = Last
  BY DEF Last
<1>3. BodyRead'
  <2> SUFFICES ASSUME state \in BodyStates PROVE BodyRead'
    BY DEF BodyRead
  <2>1. BodyRead /\ head \in DOMAIN log /\ log'[head] = log[head]
    BY DEF ReadInv, BodyRead, Behind, Extends
  <2>2. Behind(head)'
    BY <2>1 DEF BodyRead
  <2>3. Received' = Received /\ Received \in Nat /\ lost \in Nat
    BY DEF Received, ParserInv, ParserTypeOK, ReadInv, UsedInv
  <2>4. log[head].end \in Nat
    <3>1. log[head] \in BlockType
      BY <2>1
    <3> QED
      BY <3>1 DEF BlockType
  <2>5. Place' - log[head].end <= lost' + Received
    <3> DEFINE e == log[head].end
               k == Received
    <3>1. Place - e <= lost + k /\ e \in Nat /\ k \in Nat /\ lost \in Nat
      BY <2>1, <2>3, <2>4 DEF BodyRead
    <3> HIDE DEF e, k
    <3>2. Place' - e <= lost' + k
      BY <3>1, NoNearer, Zenon
    <3> QED
      BY <3>2 DEF e, k
  <2> QED
    BY <1>2, <2>1, <2>2, <2>3, <2>5 DEF BodyRead
<1>4. UsedInv'
  BY <1>2 DEF ReadInv, UsedInv, Behind
<1> QED
  BY <1>1, <1>3, <1>4 DEF ReadInv

\* The later of two blocks ends later.
LEMMA Later ==
  ASSUME log \in Seq(BlockType), LogInv, NEW m \in DOMAIN log, NEW n \in DOMAIN log,
         log[m].end < log[n].end
  PROVE  m < n
<1>1. m \in Nat /\ n \in Nat /\ log[m] \in BlockType /\ log[n] \in BlockType
  OBVIOUS
<1>2. ASSUME n < m PROVE FALSE
  <2>1. log[n].end <= Start(log[m])
    BY <1>2 DEF LogInv, BlockInv
  <2>2. Start(log[m]) <= log[m].end /\ log[m].end \in Nat /\ log[n].end \in Nat /\ Start(log[m]) \in Int
    <3>1. /\ Start(log[m]) \in Int /\ Len(log[m].bytes) \in Nat
          /\ Start(log[m]) + Len(log[m].bytes) + CksumWidth = log[m].end
          /\ log[m].end \in Nat /\ log[n].end \in Nat
      BY <1>1, BlockSize
    <3> QED
      BY <3>1 DEF CksumWidth
  <2> QED
    BY <2>1, <2>2
<1>3. ASSUME n = m PROVE FALSE
  <2>1. log[m].end \in Nat
    BY <1>1, BlockSize
  <2> QED
    BY <1>3, <2>1
<1> QED
  BY <1>1, <1>2, <1>3

\* The last byte of a checksum that fits: it is that of a block, which ends here.
LEMMA Accepted ==
  ASSUME SendInv, line \in Seq(Symbol), StreamInv, ParserInv, line # <<>>,
         ref_cksum' = Append(ref_cksum, Head(line)), Len(ref_cksum) = 1,
         Fits(ref_cksum', cksum)
  PROVE  LET n == Head(line).n
         IN  /\ n \in DOMAIN log /\ log[n].bytes = cksum /\ log[n].end = Place + 1
             /\ 1 \in DOMAIN Flight /\ IsCksum(Flight[1])
<1> DEFINE c == Head(line)
<1>1. c \in Symbol /\ ref_cksum \in Seq(Symbol)
  BY HeadTailProperties DEF ParserInv
<1>2. ref_cksum'[2] = c
  <2>1. ref_cksum' = Append(ref_cksum, c)
    OBVIOUS
  <2> HIDE DEF c
  <2>2. Append(ref_cksum, c)[Len(ref_cksum) + 1] = c
    BY <1>1, AppendProperties
  <2>3. Len(ref_cksum) + 1 = 2
    OBVIOUS
  <2>4. Append(ref_cksum, c)[2] = c
    BY <2>2, <2>3, Zenon
  <2> QED
    BY <2>1, <2>4, Zenon
<1>3. IsCksum(c) /\ c.of = cksum /\ c.k = 2
  <2>1. 2 \in 1 .. CksumWidth
    BY DEF CksumWidth
  <2>2. IsCksum(ref_cksum'[2]) /\ ref_cksum'[2].of = cksum /\ ref_cksum'[2].k = 2
    BY <2>1 DEF Fits
  <2> QED
    BY <1>2, <2>2
<1>4. Flight[1] = c /\ 1 \in DOMAIN Flight
  <2>1. sendbuf \in Seq(Symbol)
    BY DEF SendInv
  <2>2. Len(line) \in Nat /\ Len(line) >= 1 /\ Len(sendbuf) \in Nat /\ line[1] = c
    BY <2>1
  <2>3. Len(Flight) = Len(line) + Len(sendbuf) /\ Flight \in Seq(Symbol) /\ Flight[1] = line[1]
    BY <2>1, <2>2, ConcatProperties DEF Flight
  <2> QED
    BY <2>2, <2>3
<1>5. Carried(log, c, Place + 1)
  BY <1>3, <1>4 DEF StreamInv, FlightInv
<1>6. PICK n \in DOMAIN log : c = SymbolIn(log, n, (Place + 1) - Start(log[n]))
  <2> HIDE DEF c
  <2> QED
    BY <1>5 DEF Carried
<1> DEFINE i == (Place + 1) - Start(log[n])
           size == Len(log[n].bytes)
<1>7. /\ size \in Nat /\ Start(log[n]) \in Int /\ Start(log[n]) + size + CksumWidth = log[n].end
      /\ Place \in Int
  <2>1. log[n] \in BlockType
    BY DEF SendInv
  <2> QED
    BY <2>1, BlockSize, FlightType DEF StreamInv
<1> HIDE DEF c
<1>8. ~(i <= size)
  <2> SUFFICES ASSUME i <= size PROVE FALSE
    OBVIOUS
  <2>1. c = Plain(log[n].bytes[i])
    BY <1>6 DEF SymbolIn
  <2> QED
    BY <1>3, <2>1 DEF Plain, IsCksum
<1>9. c = Cksum(log[n].bytes, i - size, n)
  BY <1>6, <1>8 DEF SymbolIn
<1>10. c.n = n /\ c.of = log[n].bytes /\ c.k = i - size
  BY <1>9 DEF Cksum
<1>11. log[n].end = Place + 1
  BY <1>3, <1>7, <1>10 DEF CksumWidth
<1> QED
  BY <1>3, <1>4, <1>10, <1>11 DEF c

\* How far the parser and the line have moved when a byte was accepted.
LEMMA AcceptShifts ==
  ASSUME SendInv, LineInv, StreamInv, Accept
  PROVE  /\ Composed' = Composed /\ Place' = Place + 1 /\ log' = log
         /\ Place \in Int /\ Place' <= Composed
         /\ \A i \in DOMAIN Flight' : i + 1 \in DOMAIN Flight /\ Flight'[i] = Flight[i + 1] /\ i \in 1 .. Len(Flight')
         /\ LogInv' /\ BodyInv' /\ FlightInv'
         /\ \A n \in DOMAIN log : Behind(n) => Behind(n)'
         /\ Head(line) \in Symbol
<1>1. line \in Seq(Symbol) /\ line # <<>> /\ line' = Tail(line) /\ damaged' = damaged
  BY DEF LineInv, Accept
<1>2. UNCHANGED sendVars /\ log' = log
  BY DEF Accept, sendVars
<1>3. line' = SubSeq(line, 1 + 1, Len(line)) /\ 1 <= Len(line)
  <2>1. Len(line) \in Nat /\ Len(line) >= 1
    BY <1>1
  <2> QED
    BY <1>1, <2>1, TailIsSubSeq
<1>4. /\ Composed' = Composed /\ Place' = Place + 1
      /\ \A i \in DOMAIN Flight' : i + 1 \in DOMAIN Flight /\ Flight'[i] = Flight[i + 1]
      /\ LogInv' /\ BodyInv' /\ FlightInv'
      /\ \A n \in DOMAIN log : Behind(n) => Behind(n)'
  BY <1>1, <1>2, <1>3, Shifts DEF StreamInv
<1>5. Place \in Int /\ Composed \in Int
  BY <1>1, FlightType DEF StreamInv
<1>6. Head(line) \in Symbol /\ line' \in Seq(Symbol)
  BY <1>1, HeadTailProperties
<1>7. SendInv'
  BY <1>2 DEF sendVars, SendInv, SendTypeOK
<1>8. DOMAIN Flight' = 1 .. Len(Flight') /\ Len(Flight') \in Nat /\ Place' + Len(Flight') = Composed'
  <2>1. line' \in Seq(Symbol) /\ sendbuf' \in Seq(Symbol) /\ Flight' = line' \o sendbuf'
    BY <1>6, <1>7 DEF SendInv, Flight
  <2>2. Flight' \in Seq(Symbol)
    BY <2>1, ConcatProperties
  <2>3. DOMAIN Flight' = 1 .. Len(Flight') /\ Len(Flight') \in Nat
    BY <2>2
  <2> QED
    BY <1>4, <1>5, <2>3 DEF Place
<1>9. Place' <= Composed
  BY <1>4, <1>5, <1>8
<1> QED
  BY <1>2, <1>4, <1>5, <1>6, <1>8, <1>9

\* A block whose checksum was read last is behind, and later than all that were.
LEMMA JustBehind ==
  ASSUME SendInv, LineInv, StreamInv, Accept, 1 \in DOMAIN Flight, IsCksum(Flight[1]),
         NEW n \in DOMAIN log, log[n].end = Place + 1
  PROVE  /\ Behind(n)'
         /\ \A m \in DOMAIN log : Behind(m) => m < n
<1>1. /\ Composed' = Composed /\ Place' = Place + 1 /\ log' = log /\ Place \in Int
      /\ Place' <= Composed
      /\ \A i \in DOMAIN Flight' : i \in 1 .. Len(Flight')
  BY AcceptShifts
<1>2. \A i \in DOMAIN Flight' : i \in Int /\ i >= 1
  BY <1>1
<1>3. Behind(n)'
  BY <1>1, <1>2 DEF Behind
<1>4. ASSUME NEW m \in DOMAIN log, Behind(m)
      PROVE  m < n
  <2>1. log[m].end < log[n].end
    BY <1>4 DEF Behind
  <2> QED
    BY <2>1, Later DEF StreamInv, SendInv
<1> QED
  BY <1>3, <1>4

LEMMA LastGrows ==
  ASSUME handed \in Seq(Message), NEW m \in Message, handed' = Append(handed, m)
  PROVE  handed' \in Seq(Message) /\ Last' = m.body
<1>1. handed' \in Seq(Message) /\ handed' # <<>> /\ handed'[Len(handed')] = m
  BY AppendProperties
<1> QED
  BY <1>1 DEF Last

\* A byte with which a block is accepted, as a head or as a body.
UsesBlock(c) ==
  /\ AcceptHead(c) \/ (AcceptBody(c) /\ ~discard_data)
  /\ Fits(ref_cksum', cksum)

LEMMA OnlyUsed ==
  ASSUME NEW c, AcceptChar(c), ~UsesBlock(c)
  PROVE  UNCHANGED <<head, handed>>
BY DEF UsesBlock, AcceptChar, AcceptSof, AcceptId, AcceptLen, AcceptType, AcceptCksum,
       AcceptHead, AcceptData, AcceptBody

\* No other byte moves the parser to another block, whether it was sent or not.
LEMMA ReadMore ==
  ASSUME ParserInv, ReadInv, log \in Seq(BlockType), Place \in Int, Place' \in {Place, Place + 1},
         NEW c \in Symbol, AcceptChar(c), ~UsesBlock(c),
         UNCHANGED <<log, lost>>, \A n \in DOMAIN log : Behind(n) => Behind(n)'
  PROVE  ReadInv'
<1> USE DEF BodyStates
<1>1. UNCHANGED <<head, handed>>
  BY OnlyUsed
<1>2. HeadRead'
  BY HeadReadKept DEF ReadInv
<1>3. StateNow # "SOF" => StateNow = state
  BY StateFound
<1>4. rxi \in Nat /\ len \in Nat /\ lost \in Nat
  BY DEF ParserInv, ParserTypeOK, ReadInv, UsedInv
<1>5. Last' = Last
  BY <1>1 DEF Last
<1>6. UsedInv'
  <2>1. /\ handed \in Seq(Message) /\ head \in Nat /\ lost \in Nat
        /\ Last = 0 \/ (Last \in DOMAIN log /\ Behind(Last))
        /\ head = 0 \/ (head \in DOMAIN log /\ Behind(head))
    BY DEF ReadInv, UsedInv, Behind
  <2> QED
    BY <1>1, <1>5, <2>1 DEF UsedInv, Behind
<1>7. ASSUME state' \notin BodyStates
      PROVE  ReadInv'
  BY <1>2, <1>6, <1>7 DEF ReadInv, BodyRead
<1>8. ASSUME NEW v \in Byte, AcceptSof(v) \/ AcceptId(v) \/ AcceptLen(v) \/ AcceptType(v)
      PROVE  ReadInv'
  <2>1. state' \notin BodyStates
    BY <1>8 DEF AcceptSof, BeginFrame, AcceptId, AcceptLen, AcceptType
  <2> QED
    BY <1>7, <2>1
<1>9. ASSUME state \in BodyStates, UNCHANGED <<id, len, type, discard_data>>,
             Received' = Received + 1, discard_data \/ cksum' = data'
      PROVE  ReadInv'
  <2>1. BodyRead /\ head \in DOMAIN log
    BY <1>9 DEF ReadInv, BodyRead, Behind
  <2>2. Behind(head)'
    BY <1>1, <1>9, <2>1 DEF BodyRead, Behind
  <2>3. log[head].end \in Nat /\ Received \in Nat
    <3>1. log[head] \in BlockType
      BY <2>1
    <3> QED
      BY <1>4, <3>1 DEF BlockType, Received
  <2>4. Place' - log[head].end <= lost + Received'
    <3>1. Place - log[head].end <= lost + Received
      BY <1>9, <2>1 DEF BodyRead
    <3> QED
      BY <1>4, <1>9, <2>3, <3>1
  <2>5. BodyRead'
    BY <1>1, <1>5, <1>9, <2>1, <2>2, <2>4 DEF BodyRead
  <2> QED
    BY <1>2, <1>6, <2>5 DEF ReadInv
<1>10. CASE AcceptCksum(c)
  <2>1. /\ state' = StateNow /\ rxi' = rxi + 1
        /\ UNCHANGED <<id, len, type, data, cksum, discard_data>>
    BY <1>10 DEF AcceptCksum
  <2>2. CASE state' \in BodyStates
    <3>1. state' = state /\ state = "DATA_CKSUM"
      BY <1>3, <1>10, <2>1, <2>2 DEF AcceptCksum
    <3>2. Received' = Received + 1
      BY <1>4, <2>1, <3>1 DEF Received
    <3>3. discard_data \/ cksum = data
      BY <3>1 DEF ReadInv, BodyRead
    <3> QED
      BY <1>9, <2>1, <3>1, <3>2, <3>3
  <2> QED
    BY <1>7, <2>2
<1>11. ASSUME AcceptHead(c) \/ AcceptBody(c)
       PROVE  ReadInv'
  <2>1. state' = "SOF"
    BY <1>11 DEF UsesBlock, AcceptHead, AcceptBody
  <2> QED
    BY <1>7, <2>1
<1>12. ASSUME NEW v \in Byte, AcceptData(v)
       PROVE  ReadInv'
  <2>1. state = "DATA" /\ UNCHANGED <<id, len, type, discard_data>>
    BY <1>3, <1>12 DEF AcceptData
  <2>2. Received' = Received + 1
    <3>1. CASE rxi + 1 = len
      BY <1>4, <1>12, <2>1, <3>1 DEF AcceptData, Received
    <3>2. CASE rxi + 1 # len
      BY <1>4, <1>12, <2>1, <3>2 DEF AcceptData, Received
    <3> QED
      BY <3>1, <3>2
  <2>3. discard_data \/ cksum' = data'
    <3>1. discard_data \/ cksum = data
      BY <2>1 DEF ReadInv, BodyRead
    <3> QED
      BY <1>12, <3>1 DEF AcceptData
  <2> QED
    BY <1>9, <2>1, <2>2, <2>3
<1> QED
  BY <1>8, <1>10, <1>11, <1>12, ByteRead DEF AcceptChar

\* A byte that nobody sent fits no checksum.
LEMMA NoiseUnused ==
  ASSUME ParserInv, NEW v \in Byte, AcceptChar(Plain(v))
  PROVE  ~UsesBlock(Plain(v))
<1> DEFINE c == Plain(v)
<1> SUFFICES ASSUME UsesBlock(c) PROVE FALSE
  OBVIOUS
<1>1. c \in Symbol /\ ~IsCksum(c)
  BY DEF Plain, Symbol, IsCksum
<1>2. Fits(ref_cksum', cksum) /\ ref_cksum' = Append(ref_cksum, c) /\ ref_cksum \in Seq(Symbol)
  BY DEF UsesBlock, AcceptHead, AcceptBody, ParserInv
<1>3. Len(ref_cksum) = 1
  <2>1. state \in {"HEAD_CKSUM", "DATA_CKSUM"} /\ rxi + 1 = CksumWidth
    BY StateFound DEF UsesBlock, AcceptHead, AcceptBody
  <2>2. rxi = Len(ref_cksum) /\ rxi \in Nat
    BY <2>1 DEF ParserInv, ParserTypeOK
  <2> QED
    BY <2>1, <2>2 DEF CksumWidth
<1> HIDE DEF c
<1>4. ref_cksum'[2] = c
  <2>1. Append(ref_cksum, c)[Len(ref_cksum) + 1] = c
    BY <1>1, <1>2, AppendProperties
  <2>2. Len(ref_cksum) + 1 = 2
    BY <1>3
  <2> QED
    BY <1>2, <2>1, <2>2, Zenon
<1>5. IsCksum(ref_cksum'[2])
  <2>1. 2 \in 1 .. CksumWidth
    BY DEF CksumWidth
  <2> QED
    BY <1>2, <2>1 DEF Fits
<1> QED
  BY <1>1, <1>4, <1>5

LEMMA PlaceType ==
  ASSUME WireInv, StreamInv
  PROVE  Place \in Int /\ Composed \in Int
BY FlightType DEF WireInv, LineInv, StreamInv

LEMMA ReadNoise ==
  ASSUME WireInv, StreamInv, ReadInv, NEW v \in Byte, AcceptChar(Plain(v)),
         UNCHANGED <<sendVars, line, lost>>
  PROVE  ReadInv'
<1>1. ParserInv /\ log \in Seq(BlockType) /\ Place \in Int
  BY PlaceType DEF WireInv, SendInv
<1>2. log' = log /\ Flight' = Flight /\ Composed' = Composed /\ Place' = Place
  BY DEF sendVars, Flight, Place, Composed, Pending
<1>3. \A n \in DOMAIN log : Behind(n) => Behind(n)'
  BY <1>2 DEF Behind
<1>4. Plain(v) \in Symbol
  BY DEF Plain, Symbol
<1>5. ~UsesBlock(Plain(v))
  BY <1>1, NoiseUnused
<1> QED
  BY <1>1, <1>2, <1>3, <1>4, <1>5, ReadMore

\* The parser accepts blocks in order and takes each body for the one its head
\* tells of.
LEMMA ReadAccept ==
  ASSUME WireInv, StreamInv, ReadInv, Accept
  PROVE  ReadInv'
<1> DEFINE c == Head(line)
<1> USE DEF BodyStates
<1>1. SendInv /\ ParserInv /\ LineInv /\ log \in Seq(BlockType)
  BY DEF WireInv, SendInv
<1>2. /\ Place' = Place + 1 /\ log' = log /\ Place \in Int
      /\ \A n \in DOMAIN log : Behind(n) => Behind(n)'
      /\ c \in Symbol
  BY <1>1, AcceptShifts
<1>3. AcceptChar(c) /\ lost' = (IF head' = head THEN lost ELSE 0) /\ line # <<>>
  BY DEF Accept
<1>4. HeadRead'
  BY <1>1, <1>2, <1>3, HeadReadKept DEF ReadInv
<1>5. /\ handed \in Seq(Message) /\ head \in Nat /\ lost \in Nat
      /\ Last = 0 \/ (Last \in DOMAIN log /\ Behind(Last))
      /\ head = 0 \/ (head \in DOMAIN log /\ Behind(head))
  BY DEF ReadInv, UsedInv, Behind
<1>6. StateNow # "SOF" => StateNow = state
  BY <1>1, StateFound
<1>7. /\ rxi \in Nat /\ len \in Nat /\ id \in Byte /\ type \in Byte /\ data \in Seq(Byte)
  BY <1>1 DEF ParserInv, ParserTypeOK
<1> HIDE DEF c
<1>8. CASE ~UsesBlock(c)
  <2>1. lost' = lost
    BY <1>3, <1>8, OnlyUsed
  <2> QED
    BY <1>1, <1>2, <1>3, <1>8, <2>1, ReadMore
<1>9. ASSUME Fits(ref_cksum', cksum), rxi + 1 = CksumWidth,
             ref_cksum' = Append(ref_cksum, c), state \in {"HEAD_CKSUM", "DATA_CKSUM"}
      PROVE  \E n \in DOMAIN log :
               /\ n = c.n /\ n \in Nat /\ n >= 1
               /\ log[n].bytes = cksum /\ log[n].end = Place + 1 /\ log[n].end \in Nat
               /\ Behind(n)' /\ Last < n /\ head < n
  <2>1. Len(ref_cksum) = 1
    <3>1. rxi = Len(ref_cksum) /\ rxi \in Nat
      BY <1>1, <1>9 DEF ParserInv, ParserTypeOK
    <3> QED
      BY <1>9, <3>1 DEF CksumWidth
  <2>2. PICK n \in DOMAIN log :
           /\ n = c.n /\ log[n].bytes = cksum /\ log[n].end = Place + 1
           /\ 1 \in DOMAIN Flight /\ IsCksum(Flight[1])
    BY <1>1, <1>3, <1>9, <2>1, Accepted DEF c, LineInv
  <2>3. n \in Nat /\ n >= 1 /\ log[n] \in BlockType
    BY <1>1, <2>2
  <2>4. Behind(n)' /\ Last < n /\ head < n
    BY <1>1, <1>5, <2>2, <2>3, JustBehind
  <2> QED
    BY <2>2, <2>3, <2>4 DEF BlockType
<1>10. CASE AcceptHead(c) /\ Fits(ref_cksum', cksum)
  <2>1. /\ state = "HEAD_CKSUM" /\ ref_cksum' = Append(ref_cksum, c) /\ head' = c.n
        /\ UNCHANGED <<id, len, type>>
        /\ rxi + 1 = CksumWidth /\ data' = <<>>
    BY <1>6, <1>10 DEF AcceptHead
  <2>2. PICK n \in DOMAIN log :
           /\ n = c.n /\ n \in Nat /\ n >= 1
           /\ log[n].bytes = cksum /\ log[n].end = Place + 1 /\ log[n].end \in Nat
           /\ Behind(n)' /\ Last < n /\ head < n
    BY <1>9, <1>10, <2>1
  <2>3. head' = n
    BY <2>1, <2>2
  <2>4. lost' = 0
    BY <1>3, <1>5, <2>2, <2>3
  <2>5. /\ PassForHead(cksum) /\ id = cksum[2] /\ type = cksum[5] /\ len = LengthIn(cksum)
    BY <2>1 DEF ReadInv, HeadRead, HeadStates, PassForHead, HeadWidth, CksumWidth
  <2>6. CASE len = 0
    <3> DEFINE m == [frame |-> [id |-> id, type |-> type, data |-> <<>>],
                     head |-> head', body |-> n]
    <3>1. state' = "SOF" /\ handed' = Append(handed, m)
      BY <1>10, <2>2, <2>6 DEF AcceptHead, HandOver
    <3>2. m \in Message /\ m.body = n
      BY <1>7, <2>2, <2>3, EmptySeq DEF Message
    <3> HIDE DEF m
    <3>3. handed' \in Seq(Message) /\ Last' = n
      BY <1>5, <3>1, <3>2, LastGrows
    <3>4. UsedInv'
      BY <2>2, <2>3, <2>4, <3>3 DEF UsedInv, Behind
    <3> QED
      BY <1>4, <3>1, <3>4 DEF ReadInv, BodyRead
  <2>7. CASE len # 0
    <3>1. state' = "DATA" /\ rxi' = 0 /\ cksum' = <<>> /\ handed' = handed
      BY <1>10, <2>7 DEF AcceptHead
    <3>2. Last' = Last
      BY <3>1 DEF Last
    <3>3. UsedInv'
      <4>1. Last = 0 \/ Behind(Last)'
        BY <1>2, <1>5, <3>2 DEF Behind
      <4> QED
        BY <1>5, <2>2, <2>3, <2>4, <3>1, <3>2, <4>1 DEF UsedInv, Behind
    <3>4. BodyRead'
      <4>1. Received' = 0 /\ Place' - log[n].end <= lost' + Received'
        BY <1>2, <2>2, <2>4, <3>1 DEF Received
      <4>2. Behind(head)'
        BY <2>2, <2>3 DEF Behind
      <4> QED
        BY <1>2, <2>1, <2>2, <2>3, <2>5, <2>7, <3>1, <3>2, <4>1, <4>2 DEF BodyRead
    <3> QED
      BY <1>4, <3>3, <3>4 DEF ReadInv
  <2> QED
    BY <2>6, <2>7
<1>11. CASE AcceptBody(c) /\ ~discard_data /\ Fits(ref_cksum', cksum)
  <2>1. /\ state = "DATA_CKSUM" /\ ref_cksum' = Append(ref_cksum, c) /\ rxi + 1 = CksumWidth
        /\ state' = "SOF" /\ head' = head
    BY <1>6, <1>11 DEF AcceptBody
  <2>2. PICK n \in DOMAIN log : n = c.n /\ n \in Nat /\ Behind(n)'
    BY <1>9, <1>11, <2>1
  <2> DEFINE m == [frame |-> [id |-> id, type |-> type, data |-> data],
                   head |-> head', body |-> n]
  <2>3. m \in Message /\ m.body = n /\ handed' = Append(handed, m)
    BY <1>5, <1>7, <1>11, <2>1, <2>2 DEF Message, AcceptBody, HandOver
  <2> HIDE DEF m
  <2>4. handed' \in Seq(Message) /\ Last' = n
    BY <1>5, <2>3, LastGrows
  <2>5. head = 0 \/ Behind(head)'
    BY <1>2, <1>5, <2>1 DEF Behind
  <2>6. UsedInv'
    BY <1>3, <1>5, <2>1, <2>2, <2>4, <2>5 DEF UsedInv, Behind
  <2> QED
    BY <1>4, <2>1, <2>6 DEF ReadInv, BodyRead
<1> QED
  BY <1>8, <1>10, <1>11 DEF UsesBlock

-----------------------------------------------------------------------------
(* The line implements the channel.                                        *)

LEMMA StreamInit == Init => StreamInv /\ ReadInv
<1> SUFFICES ASSUME Init PROVE StreamInv /\ ReadInv
  OBVIOUS
<1>1. /\ log = <<>> /\ line = <<>> /\ sendbuf = <<>> /\ msg = NoMsg /\ send_pc = "idle"
      /\ handed = <<>> /\ head = 0 /\ lost = 0 /\ state = "SOF"
  BY DEF Init, SendInit, ParserInit
<1>2. LogInv
  BY <1>1 DEF LogInv
<1>3. BodyInv
  BY <1>1 DEF BodyInv
<1>4. FlightInv
  BY <1>1 DEF FlightInv, Flight
<1>5. HeadRead /\ BodyRead
  BY <1>1 DEF HeadRead, BodyRead, HeadStates, BodyStates
<1>6. UsedInv
  BY <1>1, EmptySeq DEF UsedInv, Last
<1> QED
  BY <1>2, <1>3, <1>4, <1>5, <1>6 DEF StreamInv, ReadInv

LEMMA SenderKeeps ==
  ASSUME SendInv, line \in Seq(Symbol), StreamInv, damaged' = damaged, Sender
  PROVE  /\ StreamInv' /\ Place' = Place /\ Extends
         /\ \A n \in DOMAIN log : Behind(n) => Behind(n)'
BY SendBeginKeeps, SendChunkKeeps, SendEndKeeps, SendWriteKeeps DEF Sender, StreamInv

LEMMA StreamNext == WireInv /\ StreamInv /\ ReadInv /\ [Next]_vars => StreamInv' /\ ReadInv'
<1> SUFFICES ASSUME WireInv, StreamInv, ReadInv, [Next]_vars
             PROVE  StreamInv' /\ ReadInv'
  OBVIOUS
<1>1. SendInv /\ ParserInv /\ LineInv /\ log \in Seq(BlockType) /\ lost \in Nat
  BY DEF WireInv, SendInv, ReadInv, UsedInv
<1>2. line \in Seq(Symbol) /\ Place \in Int
  BY <1>1, PlaceType DEF LineInv
<1>3. CASE Send
  <2>1. damaged' = damaged /\ Sender /\ UNCHANGED parserVars /\ lost' = lost
    BY <1>3 DEF Send
  <2>2. /\ StreamInv' /\ Place' = Place /\ Extends
        /\ \A n \in DOMAIN log : Behind(n) => Behind(n)'
    BY <1>1, <1>2, <2>1, SenderKeeps
  <2>3. ReadInv'
    BY <1>1, <1>2, <2>1, <2>2, ReadKept DEF parserVars
  <2> QED
    BY <2>2, <2>3
<1>4. CASE Accept
  BY <1>1, <1>4, AcceptShifts, ReadAccept DEF StreamInv
<1>5. ASSUME UNCHANGED <<sendVars, line, lost>>, damaged => damaged' \/ Flight = <<>>,
             UNCHANGED <<state, rxi, id, len, type, data, cksum, discard_data, head, handed>>
      PROVE  StreamInv' /\ ReadInv'
  <2>1. /\ Flight' = Flight /\ Composed' = Composed /\ log' = log
    BY <1>5 DEF sendVars, Flight, Composed, Pending
  <2>2. Place' = Place
    BY <2>1 DEF Place
  <2>3. LogInv' /\ BodyInv'
    BY <1>5 DEF sendVars, StreamInv, LogInv, BlockInv, BodyInv
  <2>4. FlightInv'
    BY <1>5, <2>1, <2>2 DEF StreamInv, FlightInv
  <2>5. Extends /\ \A n \in DOMAIN log : Behind(n) => Behind(n)'
    BY <2>1, <2>2 DEF Extends, Behind
  <2>6. ReadInv'
    BY <1>1, <1>2, <1>5, <2>2, <2>5, ReadKept
  <2> QED
    BY <2>3, <2>4, <2>6 DEF StreamInv
<1>6. CASE Tick
  <2>1. damaged => damaged' \/ Flight = <<>>
    <3> SUFFICES ASSUME damaged, ~damaged' PROVE Flight = <<>>
      OBVIOUS
    <3>1. silent' >= ParserTimeout /\ silent' = IF Quiet THEN Least(silent + 1, ParserTimeout) ELSE 0
      <4>1. ~(silent' < ParserTimeout)
        BY <1>6 DEF Tick
      <4>2. silent' \in 0 .. ParserTimeout
        BY <1>1, <1>6, ParserAssumption DEF Tick, LineInv, Least
      <4> QED
        BY <1>6, <4>1, <4>2, ParserAssumption DEF Tick
    <3>2. Quiet
      BY <3>1, ParserAssumption
    <3>3. line = <<>> /\ sendbuf = <<>>
      BY <3>2 DEF Quiet, StreamInv, BodyInv
    <3> QED
      BY <3>3 DEF Flight
  <2> QED
    BY <1>5, <1>6, <2>1 DEF Tick, ParserTick
<1>7. ASSUME NEW n \in Runs, LoseRun(n)
      PROVE  StreamInv' /\ ReadInv'
  <2>1. /\ UNCHANGED <<sendVars, parserVars>> /\ n \in Nat /\ n <= Len(line)
        /\ line' = SubSeq(line, n + 1, Len(line)) /\ lost' = lost + n /\ damaged' = TRUE
    BY <1>7, WireAssumption DEF LoseRun, Fail
  <2>2. /\ StreamInv' /\ Place' = Place + n
        /\ \A m \in DOMAIN log : Behind(m) => Behind(m)'
    BY <1>1, <1>2, <2>1, Shifts DEF StreamInv
  <2>3. Extends
    BY <2>1 DEF Extends, sendVars
  <2>4. lost' \in Nat /\ Place' \in Int /\ Place' - lost' <= Place - lost
    BY <1>1, <1>2, <2>1, <2>2
  <2>5. ReadInv'
    BY <1>1, <1>2, <2>1, <2>2, <2>3, <2>4, ReadKept DEF parserVars
  <2> QED
    BY <2>2, <2>5
<1>8. ASSUME NEW v \in Noise, NoiseByte(v)
      PROVE  StreamInv' /\ ReadInv'
  <2>1. /\ UNCHANGED <<sendVars, line, lost>> /\ v \in Byte
        /\ AcceptChar(Plain(v)) /\ damaged' = TRUE
    BY <1>8, WireAssumption DEF NoiseByte, Fail
  <2>2. Flight' = Flight /\ Place' = Place
    BY <2>1 DEF sendVars, Flight, Place, Composed, Pending
  <2>3. StreamInv'
    BY <2>1, <2>2 DEF sendVars, StreamInv, LogInv, BlockInv, BodyInv, FlightInv
  <2>4. ReadInv'
    BY <2>1, ReadNoise
  <2> QED
    BY <2>3, <2>4
<1>9. CASE UNCHANGED vars
  BY <1>5, <1>9 DEF vars, parserVars, wireVars
<1> QED
  BY <1>3, <1>4, <1>6, <1>7, <1>8, <1>9 DEF Next

-----------------------------------------------------------------------------
(* Every step of the line is one of the channel, or none.                  *)

\* What was handed over, as the channel sees it.
Got == [i \in DOMAIN handed |-> handed[i].frame]

\* The channel has the operators of the format under names of its own.
LEMMA SameFormat ==
  ASSUME NEW f, NEW at, NEW l, NEW b, NEW bytes, NEW body
  PROVE  /\ Channel!Blocks(f, at) = Blocks(f, at) /\ Channel!Total(l) = Total(l)
         /\ Channel!Start(b) = Start(b)
         /\ Channel!PassForHead(bytes) <=> PassForHead(bytes)
         /\ Channel!LengthIn(bytes) = LengthIn(bytes)
         /\ Channel!FrameOf(bytes, body) = FrameOf(bytes, body)
<1>1. Channel!Block("head", Channel!HeadBytes(f), at) = Block("head", HeadBytes(f), at)
  BY DEF Block, Channel!Block, HeadBytes, Channel!HeadBytes, CksumWidth, Channel!CksumWidth,
         Sof, Channel!Sof
<1>2. Channel!Blocks(f, at) = Blocks(f, at)
  BY <1>1 DEF Blocks, Channel!Blocks, Block, Channel!Block, CksumWidth, Channel!CksumWidth
<1>3. Channel!Total(l) = Total(l) /\ Channel!Start(b) = Start(b)
  BY DEF Total, Channel!Total, Start, Channel!Start, CksumWidth, Channel!CksumWidth
<1>4. /\ Channel!PassForHead(bytes) <=> PassForHead(bytes)
      /\ Channel!LengthIn(bytes) = LengthIn(bytes)
      /\ Channel!FrameOf(bytes, body) = FrameOf(bytes, body)
  BY DEF PassForHead, Channel!PassForHead, LengthIn, Channel!LengthIn, FrameOf, Channel!FrameOf,
         HeadWidth, Channel!HeadWidth, CksumWidth, Channel!CksumWidth, Sof, Channel!Sof
<1> QED
  BY <1>2, <1>3, <1>4

LEMMA GotGrows ==
  ASSUME handed \in Seq(Message), NEW m \in Message, handed' = Append(handed, m)
  PROVE  Got' = Append(Got, m.frame)
<1> DEFINE n == Len(handed)
<1>1. /\ n \in Nat /\ DOMAIN handed = 1 .. n /\ DOMAIN handed' = 1 .. n + 1
      /\ handed'[n + 1] = m /\ \A i \in 1 .. n : handed'[i] = handed[i]
  <2>1. handed' \in Seq(Message) /\ Len(handed') = n + 1
    BY AppendProperties
  <2> QED
    BY <2>1, AppendProperties
<1> HIDE DEF n
<1>2. Got = [i \in 1 .. n |-> handed[i].frame]
  BY <1>1 DEF Got
<1>3. Len(Got) = n
  BY <1>1, <1>2
<1>4. Got' = [i \in 1 .. n + 1 |-> handed'[i].frame]
  BY <1>1 DEF Got
<1>5. Append(Got, m.frame) = [i \in 1 .. n + 1 |-> IF i \in 1 .. n THEN Got[i] ELSE m.frame]
  BY <1>1, <1>2, <1>3
<1>6. ASSUME NEW i \in 1 .. n + 1
      PROVE  handed'[i].frame = IF i \in 1 .. n THEN Got[i] ELSE m.frame
  <2>1. CASE i \in 1 .. n
    BY <1>1, <1>2, <2>1
  <2>2. CASE i \notin 1 .. n
    <3>1. i = n + 1
      BY <1>1, <2>2
    <3> QED
      BY <1>1, <2>2, <3>1
  <2> QED
    BY <2>1, <2>2
<1> QED
  BY <1>4, <1>5, <1>6

\* A head that fits is a block later than all that were used.
LEMMA HeadTaken ==
  ASSUME WireInv, StreamInv, ReadInv, Accept, AcceptHead(Head(line)),
         Fits(ref_cksum', cksum)
  PROVE  LET n == Head(line).n
         IN  /\ n \in DOMAIN log /\ log[n].bytes = cksum /\ log[n].end = Place + 1
             /\ Last < n /\ head < n
             /\ PassForHead(cksum)
             /\ id = cksum[2] /\ type = cksum[5] /\ len = LengthIn(cksum)
<1> DEFINE c == Head(line)
<1>1. SendInv /\ ParserInv /\ LineInv /\ line \in Seq(Symbol) /\ line # <<>>
  BY DEF WireInv, LineInv, Accept
<1>2. /\ state = "HEAD_CKSUM" /\ ref_cksum' = Append(ref_cksum, c)
      /\ rxi + 1 = CksumWidth
  BY <1>1, StateFound DEF AcceptHead
<1>3. Len(ref_cksum) = 1
  BY <1>1, <1>2 DEF CksumWidth, ParserInv, ParserTypeOK
<1>4. PICK n \in DOMAIN log :
         /\ n = c.n /\ log[n].bytes = cksum /\ log[n].end = Place + 1
         /\ 1 \in DOMAIN Flight /\ IsCksum(Flight[1])
  BY <1>1, <1>2, <1>3, Accepted
<1>5. n \in Nat /\ n >= 1
  BY <1>1, <1>4 DEF SendInv
<1>6. /\ Last = 0 \/ (Last \in DOMAIN log /\ Behind(Last))
      /\ head = 0 \/ (head \in DOMAIN log /\ Behind(head))
  BY DEF ReadInv, UsedInv, Behind
<1>7. Last < n /\ head < n
  BY <1>1, <1>4, <1>5, <1>6, JustBehind
<1>8. PassForHead(cksum) /\ id = cksum[2] /\ type = cksum[5] /\ len = LengthIn(cksum)
  BY <1>2 DEF ReadInv, HeadRead, HeadStates, PassForHead, HeadWidth, CksumWidth
<1> QED
  BY <1>4, <1>7, <1>8

\* A body that fits is a block behind its head, and no farther than bytes were
\* lost since.
LEMMA BodyTaken ==
  ASSUME WireInv, StreamInv, ReadInv, Accept, AcceptBody(Head(line)),
         ~discard_data, Fits(ref_cksum', cksum)
  PROVE  LET n == Head(line).n
         IN  /\ n \in DOMAIN log /\ head \in DOMAIN log /\ head < n /\ Last < head
             /\ log[n].bytes = data /\ log[n].end = Place + 1
             /\ PassForHead(log[head].bytes) /\ LengthIn(log[head].bytes) = Len(data)
             /\ id = log[head].bytes[2] /\ type = log[head].bytes[5]
             /\ lost >= Start(log[n]) - log[head].end
<1> DEFINE c == Head(line)
<1>1. SendInv /\ ParserInv /\ LineInv /\ line \in Seq(Symbol) /\ line # <<>>
  BY DEF WireInv, LineInv, Accept
<1>2. /\ state = "DATA_CKSUM" /\ ref_cksum' = Append(ref_cksum, c)
      /\ rxi + 1 = CksumWidth
  BY <1>1, StateFound DEF AcceptBody
<1>3. Len(ref_cksum) = 1 /\ len = Len(data) /\ rxi = 1
  BY <1>1, <1>2 DEF CksumWidth, ParserInv, ParserTypeOK
<1>4. PICK n \in DOMAIN log :
         /\ n = c.n /\ log[n].bytes = cksum /\ log[n].end = Place + 1
         /\ 1 \in DOMAIN Flight /\ IsCksum(Flight[1])
  BY <1>1, <1>2, <1>3, Accepted
<1>5. /\ BodyRead /\ Behind(head) /\ head \in DOMAIN log
      /\ cksum = data /\ Received = len + 1
  BY <1>2, <1>3 DEF ReadInv, BodyRead, BodyStates, Behind, Received
<1>6. head < n
  BY <1>1, <1>4, <1>5, JustBehind
<1>7. lost >= Start(log[n]) - log[head].end
  <2>1. log[n] \in BlockType /\ log[head] \in BlockType
    BY <1>1, <1>4, <1>5 DEF SendInv
  <2>2. /\ Start(log[n]) \in Int /\ Start(log[n]) + Len(log[n].bytes) + CksumWidth = log[n].end
        /\ log[head].end \in Nat /\ Len(log[n].bytes) \in Nat
    BY <2>1, BlockSize
  <2>3. Len(log[n].bytes) = len
    BY <1>3, <1>4, <1>5
  <2>4. Place - log[head].end <= lost + (len + 1)
    BY <1>2, <1>5 DEF BodyRead, BodyStates
  <2>5. lost \in Nat /\ Place \in Int
    BY PlaceType DEF ReadInv, UsedInv
  <2>6. Start(log[n]) + len + 2 = Place + 1
    BY <1>4, <2>2, <2>3 DEF CksumWidth
  <2>7. len \in Nat
    BY <2>2, <2>3
  <2> DEFINE a == Start(log[n])
             e == log[head].end
  <2>8. /\ a \in Int /\ e \in Nat /\ lost \in Nat /\ Place \in Int /\ len \in Nat
        /\ Place - e <= lost + (len + 1) /\ a + len + 2 = Place + 1
    BY <2>2, <2>4, <2>5, <2>6, <2>7
  <2> HIDE DEF a, e
  <2>9. lost >= a - e
    BY <2>8
  <2> QED
    BY <2>9 DEF a, e
<1> QED
  BY <1>2, <1>3, <1>4, <1>5, <1>6, <1>7 DEF BodyRead, BodyStates

LEMMA AcceptDelivers ==
  ASSUME WireInv, StreamInv, ReadInv, Accept
  PROVE  [Channel!Next]_(Channel!vars)
<1> DEFINE c == Head(line)
<1>1. AcceptChar(c) /\ UNCHANGED log /\ lost' = (IF head' = head THEN lost ELSE 0)
  BY DEF Accept, sendVars
<1>2. /\ handed \in Seq(Message) /\ head \in Nat
      /\ id \in Byte /\ type \in Byte /\ data \in Seq(Byte) /\ log \in Seq(BlockType)
  BY DEF ReadInv, UsedInv, WireInv, ParserInv, ParserTypeOK, SendInv
<1>3. CASE AcceptHead(c) /\ Fits(ref_cksum', cksum)
  <2>1. PICK n \in DOMAIN log :
           /\ n = c.n /\ log[n].bytes = cksum /\ Last < n /\ head < n
           /\ PassForHead(log[n].bytes) /\ LengthIn(log[n].bytes) = len
           /\ id = log[n].bytes[2] /\ type = log[n].bytes[5]
    BY <1>3, HeadTaken
  <2>2. n \in Nat /\ head' = n
    BY <1>2, <1>3, <2>1 DEF AcceptHead
  <2>3. lost' = 0
    BY <1>1, <1>2, <2>1, <2>2
  <2>4. IF len = 0
        THEN Got' = Append(Got, FrameOf(log[n].bytes, <<>>)) /\ Last' = n
        ELSE Got' = Got /\ Last' = Last
    <3>1. CASE len = 0
      <4> DEFINE m == [frame |-> [id |-> id, type |-> type, data |-> <<>>],
                       head |-> head', body |-> n]
      <4>1. handed' = Append(handed, m)
        BY <1>3, <2>1, <3>1 DEF AcceptHead, HandOver
      <4>2. m \in Message /\ m.body = n /\ m.frame = FrameOf(log[n].bytes, <<>>)
        BY <1>2, <2>1, <2>2, EmptySeq DEF Message, FrameOf
      <4> HIDE DEF m
      <4> QED
        BY <1>2, <3>1, <4>1, <4>2, GotGrows, LastGrows
    <3>2. CASE len # 0
      <4>1. handed' = handed
        BY <1>3, <3>2 DEF AcceptHead
      <4> QED
        BY <3>2, <4>1 DEF Got, Last
    <3> QED
      BY <3>1, <3>2
  <2>5. Channel!TakeHead(n)
    BY <1>1, <2>1, <2>2, <2>3, <2>4, SameFormat DEF Channel!TakeHead, Got, Last
  <2> QED
    BY <2>1, <2>5 DEF Channel!Next
<1>4. CASE AcceptBody(c) /\ ~discard_data /\ Fits(ref_cksum', cksum)
  <2>1. PICK n \in DOMAIN log :
           /\ n = c.n /\ head \in DOMAIN log /\ head < n /\ Last < head
           /\ log[n].bytes = data
           /\ PassForHead(log[head].bytes) /\ LengthIn(log[head].bytes) = Len(log[n].bytes)
           /\ id = log[head].bytes[2] /\ type = log[head].bytes[5]
           /\ lost >= Start(log[n]) - log[head].end
    BY <1>4, BodyTaken
  <2> DEFINE m == [frame |-> [id |-> id, type |-> type, data |-> data],
                   head |-> head', body |-> n]
  <2>2. handed' = Append(handed, m) /\ head' = head /\ lost' = lost
    BY <1>1, <1>4, <2>1 DEF AcceptBody, HandOver
  <2>3. m \in Message /\ m.body = n /\ m.frame = FrameOf(log[head].bytes, log[n].bytes)
    BY <1>2, <2>1, <2>2 DEF Message, FrameOf
  <2> HIDE DEF m
  <2>4. Got' = Append(Got, FrameOf(log[head].bytes, log[n].bytes)) /\ Last' = n
    BY <1>2, <2>2, <2>3, GotGrows, LastGrows
  <2>5. Channel!Deliver(n)
    BY <1>1, <2>1, <2>2, <2>4, SameFormat DEF Channel!Deliver, Got, Last
  <2> QED
    BY <2>1, <2>5 DEF Channel!Next
<1>5. CASE ~UsesBlock(c)
  BY <1>1, <1>5, OnlyUsed DEF Channel!vars
<1> QED
  BY <1>3, <1>4, <1>5 DEF UsesBlock

LEMMA StepInChannel ==
  WireInv /\ StreamInv /\ ReadInv /\ [Next]_vars => [Channel!Next]_(Channel!vars)
<1> SUFFICES ASSUME WireInv, StreamInv, ReadInv, [Next]_vars
             PROVE  [Channel!Next]_(Channel!vars)
  OBVIOUS
<1>1. ASSUME UNCHANGED <<log, handed, head, lost>>
      PROVE  UNCHANGED Channel!vars
  BY <1>1 DEF Channel!vars
<1>2. CASE Send
  <2>1. UNCHANGED <<handed, head, lost>> /\ Sender
    BY <1>2 DEF Send, parserVars
  <2>2. ASSUME NEW f \in Frames, SendBegin(f)
        PROVE  Channel!Next
    <3>1. Channel!Send(f)
      BY <2>1, <2>2, SameFormat DEF SendBegin, Channel!Send
    <3> QED
      BY <3>1 DEF Channel!Next
  <2>3. ASSUME SendChunk \/ SendEnd \/ SendWrite
        PROVE  UNCHANGED Channel!vars
    BY <1>1, <2>1, <2>3 DEF SendChunk, SendEnd, SendWrite
  <2> QED
    BY <2>1, <2>2, <2>3 DEF Sender
<1>3. CASE Accept
  BY <1>3, AcceptDelivers
<1>4. CASE Tick
  BY <1>1, <1>4 DEF Tick, ParserTick, sendVars
<1>5. ASSUME NEW n \in Runs, LoseRun(n)
      PROVE  [Channel!Next]_(Channel!vars)
  <2>1. UNCHANGED <<log, handed, head>> /\ lost' = lost + n /\ n \in Nat /\ lost \in Nat
    BY <1>5, WireAssumption DEF LoseRun, Fail, sendVars, parserVars, ReadInv, UsedInv
  <2>2. CASE n = 0
    BY <1>1, <2>1, <2>2
  <2>3. CASE n # 0
    <3>1. Channel!Lose
      BY <2>1, <2>3 DEF Channel!Lose
    <3> QED
      BY <3>1 DEF Channel!Next
  <2> QED
    BY <2>2, <2>3
<1>6. ASSUME NEW v \in Noise, NoiseByte(v)
      PROVE  UNCHANGED Channel!vars
  <2>1. AcceptChar(Plain(v)) /\ v \in Byte /\ UNCHANGED <<log, lost>>
    BY <1>6, WireAssumption DEF NoiseByte, Fail, sendVars
  <2>2. UNCHANGED <<head, handed>>
    BY <2>1, NoiseUnused, OnlyUsed DEF WireInv
  <2> QED
    BY <1>1, <2>1, <2>2
<1>7. CASE UNCHANGED vars
  BY <1>1, <1>7 DEF vars, sendVars, parserVars, wireVars
<1> QED
  BY <1>2, <1>3, <1>4, <1>5, <1>6, <1>7 DEF Next

\* TF_AcceptChar hands over nothing but what was sent, block by block and in
\* order, and takes for the body of a head a block that is not the next one only
\* if as many bytes as lie between the two were lost since that head was
\* accepted: for every buffer, payload limit, set of frames and history of losses
\* and noise, however long.
THEOREM ChannelImplemented == Spec => ChannelKept
<1>1. Init => Channel!Init
  BY DEF Init, SendInit, ParserInit, Channel!Init
<1> QED
  BY <1>1, WireInit, WireNext, StreamInit, StreamNext, StepInChannel, PTL
     DEF Spec, ChannelKept, Channel!Spec

-----------------------------------------------------------------------------
(* Where the parser is while the line works.                               *)

\* The bytes read of a head and its checksum.
HeadSeen == IF state = "HEAD_CKSUM" THEN Len(cksum) + rxi ELSE Len(cksum)

\* In the head of block n, which has been read as it was sent.
InHead(n) ==
  /\ n \in DOMAIN log /\ log[n].part = "head"
  /\ Place = Start(log[n]) + HeadSeen
  /\ \A i \in 1 .. Len(cksum) : cksum[i] = log[n].bytes[i]
  /\ state = "HEAD_CKSUM" => \A i \in 1 .. rxi : ref_cksum[i] = Cksum(log[n].bytes, i, n)
  /\ ~discard_data
  /\ \A m \in owed : m >= n

\* In the block behind the head that was accepted.
InBody ==
  /\ log[head].part = "head"
  /\ Place = log[head].end + Received
  /\ discard_data <=> len > MaxPayload
  /\ ~discard_data => \A i \in 1 .. Len(data) : data[i] = log[head + 1].bytes[i]
  /\ state = "DATA_CKSUM" =>
       \A i \in 1 .. rxi : ref_cksum[i] = Cksum(log[head + 1].bytes, i, head + 1)
  /\ \A m \in owed : m >= head

\* In front of a head, or of all that is going to be sent.
Between ==
  /\ Place = Total(log) \/ \E n \in DOMAIN log : log[n].part = "head" /\ Place = Start(log[n])
  /\ \A m \in owed : Start(log[m]) >= Place

InStep ==
  /\ StateNow = "SOF" => Between
  /\ StateNow \in HeadStates => \E n \in DOMAIN log : InHead(n)
  /\ StateNow \in BodyStates => InBody

\* Whether the line has failed is forgotten only when the parser has been reset.
OwedInv ==
  /\ \A n \in owed : n \in DOMAIN log /\ log[n].part = "head"
                     /\ LengthIn(log[n].bytes) <= MaxPayload
  /\ damaged => owed = {}
  /\ silent <= parser_timeout_ticks
  /\ silent > 0 => Quiet
  /\ ~damaged => InStep

\* Blocks in their order.
LEMMA BlockOrder ==
  ASSUME log \in Seq(BlockType), LogInv, NEW n \in DOMAIN log
  PROVE  /\ n \in Nat /\ n >= 1 /\ log[n] \in BlockType
         /\ log[n].bytes \in Seq(Byte) /\ Len(log[n].bytes) \in Nat
         /\ Start(log[n]) \in Nat /\ log[n].end \in Nat
         /\ log[n].end = Start(log[n]) + Len(log[n].bytes) + 2
         /\ Len(log[n].bytes) >= 1
         /\ \A m \in DOMAIN log : m < n => log[m].end <= Start(log[n])
         /\ log[n].end <= Total(log)
<1>1. n \in Nat /\ n >= 1 /\ log[n] \in BlockType /\ BlockInv(n)
  BY DEF LogInv
<1>2. /\ log[n].bytes \in Seq(Byte) /\ Len(log[n].bytes) \in Nat /\ log[n].end \in Nat
      /\ Start(log[n]) + Len(log[n].bytes) + CksumWidth = log[n].end
  BY <1>1, BlockSize
<1>3. Len(log[n].bytes) >= 1
  BY <1>1, <1>2 DEF BlockInv
<1>4. log[n].end <= Total(log)
  BY EndsByTotal
<1> QED
  BY <1>1, <1>2, <1>3, <1>4 DEF BlockInv, CksumWidth

\* What comes behind a block.
LEMMA Follows ==
  ASSUME log \in Seq(BlockType), LogInv, NEW n \in DOMAIN log
  PROVE  \/ log[n].end = Total(log) /\ n = Len(log)
         \/ /\ n + 1 \in DOMAIN log /\ Start(log[n + 1]) = log[n].end
            /\ log[n + 1].part = "head" \/ log[n + 1].part = "body"
<1> DEFINE k == Len(log)
<1>1. k \in Nat /\ n \in 1 .. k /\ DOMAIN log = 1 .. k /\ log # <<>>
  OBVIOUS
<1>2. Total(log) = log[k].end
  BY <1>1 DEF Total
<1> HIDE DEF k
<1>3. CASE n = k
  BY <1>2, <1>3 DEF k
<1>4. CASE n # k
  <2>1. n + 1 \in DOMAIN log
    BY <1>1, <1>4
  <2>2. Start(log[n + 1]) = log[n].end
    BY <2>1 DEF LogInv, BlockInv
  <2>3. log[n + 1] \in BlockType
    BY <2>1
  <2> QED
    BY <2>1, <2>2, <2>3 DEF BlockType
<1> QED
  BY <1>3, <1>4

\* While the line works, the next byte is the one that was sent for this place.
LEMMA NextSymbol ==
  ASSUME SendInv, LineInv, StreamInv, ~damaged, line # <<>>,
         NEW n \in DOMAIN log, NEW i \in 1 .. Len(log[n].bytes) + 2,
         Place = Start(log[n]) + i - 1
  PROVE  Head(line) = SymbolIn(log, n, i)
<1> DEFINE c == Head(line)
<1>1. log \in Seq(BlockType) /\ LogInv /\ line \in Seq(Symbol)
  BY DEF SendInv, LineInv, StreamInv
<1>2. Flight[1] = c /\ 1 \in DOMAIN Flight
  <2>1. sendbuf \in Seq(Symbol)
    BY DEF SendInv
  <2>2. Len(line) \in Nat /\ Len(line) >= 1 /\ Len(sendbuf) \in Nat /\ line[1] = c
    BY <1>1, <2>1
  <2>3. Len(Flight) = Len(line) + Len(sendbuf) /\ Flight \in Seq(Symbol) /\ Flight[1] = line[1]
    BY <1>1, <2>1, <2>2, ConcatProperties DEF Flight
  <2> QED
    BY <2>2, <2>3
<1> HIDE DEF c
<1>3. Carried(log, c, Place + 1)
  BY <1>2 DEF StreamInv, FlightInv
<1>4. PICK m \in DOMAIN log : Covers(log, m, Place + 1) /\ c = SymbolIn(log, m, (Place + 1) - Start(log[m]))
  BY <1>3 DEF Carried
<1>5. /\ n \in Nat /\ Start(log[n]) \in Nat /\ Len(log[n].bytes) \in Nat
      /\ log[n].end = Start(log[n]) + Len(log[n].bytes) + 2
      /\ m < n => log[m].end <= Start(log[n])
  BY <1>1, BlockOrder
<1>6. /\ m \in Nat /\ Start(log[m]) \in Nat /\ log[m].end \in Nat
      /\ n < m => log[n].end <= Start(log[m])
  BY <1>1, BlockOrder
<1>7. Start(log[m]) < Place + 1 /\ Place + 1 <= log[m].end
  BY <1>4 DEF Covers
<1>8. Place \in Int /\ Place + 1 = Start(log[n]) + i /\ i \in Nat /\ i >= 1 /\ Start(log[n]) + i <= log[n].end
  BY <1>5
<1>9. ~(m < n) /\ ~(n < m)
  <2> DEFINE a == Start(log[n])
             b == log[n].end
             d == Start(log[m])
             e == log[m].end
  <2>1. /\ m < n => e <= a
        /\ n < m => b <= d
        /\ d < Place + 1 /\ Place + 1 <= e /\ Place + 1 = a + i /\ i >= 1 /\ a + i <= b
    BY <1>5, <1>6, <1>7, <1>8
  <2>2. /\ a \in Nat /\ b \in Int /\ d \in Nat /\ e \in Nat /\ i \in Nat /\ Place \in Int
        /\ m \in Nat /\ n \in Nat
    <3>1. b \in Int
      BY <1>5
    <3> QED
      BY <1>5, <1>6, <1>8, <3>1
  <2> HIDE DEF a, b, d, e
  <2> QED
    BY <2>1, <2>2
<1>10. m = n
  BY <1>5, <1>6, <1>9
<1>11. (Place + 1) - Start(log[n]) = i
  BY <1>5, <1>8
<1> QED
  BY <1>4, <1>10, <1>11 DEF c

\* ... and there is one, in some block.
LEMMA NextBelow ==
  ASSUME SendInv, LineInv, StreamInv, line # <<>>
  PROVE  Place \in Int /\ Place < Total(log) /\ Total(log) \in Nat
<1>1. /\ Place \in Int /\ Composed \in Int /\ Composed <= Total(log) /\ Total(log) \in Nat
      /\ Place + Len(Flight) = Composed
  BY FlightType DEF LineInv, StreamInv
<1>2. Len(Flight) \in Nat /\ Len(Flight) >= 1
  <2>1. line \in Seq(Symbol) /\ sendbuf \in Seq(Symbol)
    BY DEF SendInv, LineInv
  <2>2. Len(line) \in Nat /\ Len(line) >= 1 /\ Len(sendbuf) \in Nat
    BY <2>1
  <2>3. Len(Flight) = Len(line) + Len(sendbuf)
    BY <2>1, ConcatProperties DEF Flight
  <2> QED
    BY <2>2, <2>3
<1> QED
  BY <1>1, <1>2

\* How much of a head has been read.
LEMMA HeadLength ==
  ASSUME ParserInv, HeadRead, state \in HeadStates
  PROVE  /\ cksum \in Seq(Byte) /\ rxi \in Nat
         /\ HeadSeen \in 1 .. 6
         /\ state # "HEAD_CKSUM" => Len(cksum) \in 1 .. 4 /\ HeadSeen = Len(cksum)
         /\ state = "HEAD_CKSUM" => /\ Len(cksum) = 5 /\ rxi \in {0, 1} /\ rxi = Len(ref_cksum)
                                    /\ HeadSeen = 5 + rxi
<1>1. cksum \in Seq(Byte) /\ rxi \in Nat
  BY DEF ParserInv, ParserTypeOK
<1>2. /\ state = "ID" => Len(cksum) = 1
      /\ state = "LEN" => Len(cksum) = 2 + rxi
      /\ state = "TYPE" => Len(cksum) = 4
      /\ state = "HEAD_CKSUM" => Len(cksum) = 5
  BY DEF HeadRead
<1>3. /\ state = "LEN" => rxi \in {0, 1}
      /\ state = "HEAD_CKSUM" => rxi \in {0, 1} /\ rxi = Len(ref_cksum)
  BY DEF ParserInv, ParserTypeOK, CksumWidth
<1>4. CASE state = "HEAD_CKSUM"
  <2>1. Len(cksum) = 5 /\ rxi \in {0, 1} /\ HeadSeen = Len(cksum) + rxi
    BY <1>2, <1>3, <1>4 DEF HeadSeen
  <2> QED
    BY <1>1, <1>3, <1>4, <2>1
<1>5. CASE state # "HEAD_CKSUM"
  <2>1. HeadSeen = Len(cksum)
    BY <1>5 DEF HeadSeen
  <2>2. Len(cksum) \in 1 .. 4
    <3> DEFINE k == Len(cksum)
    <3>1. k = 1 \/ k = 4 \/ (k = 2 + rxi /\ rxi \in {0, 1})
      BY <1>2, <1>3, <1>5 DEF HeadStates
    <3> HIDE DEF k
    <3>2. k \in 1 .. 4
      BY <3>1
    <3> QED
      BY <3>2 DEF k
  <2> QED
    BY <1>1, <1>5, <2>1, <2>2
<1> QED
  BY <1>4, <1>5

\* A quiet line leaves the parser between the frames, with nothing owed.
LEMMA QuietBetween ==
  ASSUME WireInv, StreamInv, ReadInv, OwedInv, Quiet
  PROVE  /\ Place = Total(log)
         /\ ~damaged => StateNow = "SOF" /\ owed = {}
<1>1. SendInv /\ ParserInv /\ LineInv /\ log \in Seq(BlockType) /\ LogInv /\ BodyInv
  BY DEF WireInv, SendInv, StreamInv
<1>2. /\ Place \in Int /\ Total(log) \in Nat /\ Place + Len(Flight) = Composed
  BY <1>1, FlightType DEF LineInv
<1>3. Flight = <<>> /\ Pending = 0
  BY <1>1 DEF Quiet, Flight, Pending, BodyInv
<1>4. Place = Total(log)
  BY <1>2, <1>3 DEF Composed
<1>5. ASSUME ~damaged
      PROVE  StateNow = "SOF" /\ owed = {}
  <2>1. InStep
    BY <1>5 DEF OwedInv
  <2>2. ASSUME StateNow \in HeadStates
        PROVE  FALSE
    <3>1. PICK n \in DOMAIN log : InHead(n)
      BY <2>1, <2>2 DEF InStep
    <3>2. state \in HeadStates /\ state = StateNow
      BY <1>1, <2>2, StateFound DEF HeadStates
    <3>3. HeadSeen \in 1 .. 6
      BY <1>1, <3>2, HeadLength DEF ReadInv
    <3>4. Len(log[n].bytes) = 5
      BY <3>1 DEF InHead, LogInv, BlockInv, StreamInv, PassForHead, HeadWidth, CksumWidth
    <3>5. /\ log[n].end = Start(log[n]) + Len(log[n].bytes) + 2
          /\ log[n].end <= Total(log) /\ Start(log[n]) \in Nat
      BY <1>1, BlockOrder
    <3>6. Place = Start(log[n]) + HeadSeen
      BY <3>1 DEF InHead
    <3> QED
      BY <1>2, <1>4, <3>3, <3>4, <3>5, <3>6
  <2>3. ASSUME StateNow \in BodyStates
        PROVE  FALSE
    <3>1. InBody /\ state = StateNow
      BY <1>1, <2>1, <2>3, StateFound DEF InStep, BodyStates
    <3>2. /\ head \in DOMAIN log /\ len = LengthIn(log[head].bytes) /\ len # 0
      BY <2>3, <3>1 DEF ReadInv, BodyRead, Behind
    <3>3. /\ head + 1 \in DOMAIN log /\ Len(log[head + 1].bytes) = len
          /\ Start(log[head + 1]) = log[head].end
      BY <1>1, <3>1, <3>2 DEF InBody, LogInv, BlockInv
    <3>4. /\ log[head + 1].end = Start(log[head + 1]) + Len(log[head + 1].bytes) + 2
          /\ log[head + 1].end <= Total(log) /\ Start(log[head + 1]) \in Nat
      BY <1>1, <3>3, BlockOrder
    <3>5. Received \in Nat /\ Received < len + 2 /\ len \in Nat
      BY <1>1, <2>3, <3>1 DEF Received, ParserInv, ParserTypeOK, BodyStates, CksumWidth
    <3>6. Place = log[head].end + Received
      BY <3>1 DEF InBody
    <3> QED
      BY <1>2, <1>4, <3>3, <3>4, <3>5, <3>6
  <2>4. StateNow = "SOF"
    <3>1. StateNow \in States
      BY <1>1, StateFound
    <3> QED
      BY <2>2, <2>3, <3>1 DEF States, HeadStates, BodyStates
  <2>5. ASSUME NEW m \in owed
        PROVE  FALSE
    <3>1. m \in DOMAIN log
      BY DEF OwedInv
    <3>2. Start(log[m]) >= Place
      BY <2>1, <2>4 DEF InStep, Between
    <3>3. /\ log[m].end = Start(log[m]) + Len(log[m].bytes) + 2 /\ Len(log[m].bytes) \in Nat
          /\ log[m].end <= Total(log) /\ Start(log[m]) \in Nat
      BY <1>1, <3>1, BlockOrder
    <3> QED
      BY <1>2, <1>4, <3>2, <3>3
  <2> QED
    BY <2>4, <2>5
<1> QED
  BY <1>4, <1>5

-----------------------------------------------------------------------------
(* A byte keeps the parser in step.                                        *)

Working == WireInv /\ StreamInv /\ ReadInv /\ OwedInv /\ ~damaged

LEMMA Reads ==
  ASSUME NEW v, NEW bytes, NEW k, NEW n
  PROVE  /\ ValuesOf(Plain(v)) = {v} /\ ~IsCksum(Plain(v))
         /\ IsCksum(Cksum(bytes, k, n))
         /\ Cksum(bytes, k, n).of = bytes /\ Cksum(bytes, k, n).k = k /\ Cksum(bytes, k, n).n = n
<1>1. ~IsCksum(Plain(v)) /\ Plain(v).value = v
  BY DEF Plain, IsCksum
<1>2. ValuesOf(Plain(v)) = {v}
  BY <1>1 DEF ValuesOf
<1> QED
  BY <1>1, <1>2 DEF Cksum, IsCksum

\* What every byte finds while the line works, and changes.
LEMMA Found ==
  ASSUME Working, Accept
  PROVE  /\ SendInv /\ ParserInv /\ LineInv /\ log \in Seq(BlockType) /\ LogInv
         /\ line # <<>> /\ AcceptChar(Head(line)) /\ InStep
         /\ log' = log /\ Place \in Int /\ Place' = Place + 1
         /\ StateNow \in States /\ (StateNow # "SOF" => state = StateNow)
         /\ StateNow' = state'
         /\ handed' = handed => owed' = owed
<1>1. /\ SendInv /\ ParserInv /\ LineInv /\ log \in Seq(BlockType) /\ LogInv /\ InStep
      /\ StreamInv
  BY DEF Working, WireInv, SendInv, StreamInv, OwedInv
<1>2. line # <<>> /\ AcceptChar(Head(line)) /\ (handed' = handed => owed' = owed)
  BY DEF Accept
<1>3. log' = log /\ Place \in Int /\ Place' = Place + 1
  BY <1>1, AcceptShifts
<1>4. StateNow' = state'
  <2>1. parser_timeout_ticks' = 0 /\ ~(0 >= ParserTimeout)
    BY <1>2, ParserAssumption DEF AcceptChar
  <2> QED
    BY <2>1 DEF StateNow, TimedOut
<1> QED
  BY <1>1, <1>2, <1>3, <1>4, StateFound

LEMMA StepSof ==
  ASSUME Working, Accept, StateNow = "SOF"
  PROVE  InStep'
<1> DEFINE c == Head(line)
<1>1. /\ SendInv /\ ParserInv /\ LineInv /\ log \in Seq(BlockType) /\ LogInv /\ StreamInv
      /\ ~damaged /\ line # <<>> /\ AcceptChar(c) /\ Between
      /\ log' = log /\ Place \in Int /\ Place' = Place + 1 /\ StateNow' = state'
      /\ handed' = handed => owed' = owed
  BY Found DEF Working, InStep
<1>2. PICK n \in DOMAIN log : log[n].part = "head" /\ Place = Start(log[n])
  BY <1>1, NextBelow DEF Between
<1>3. log[n].bytes[1] = Sof /\ Len(log[n].bytes) = 5
  BY <1>1, <1>2 DEF LogInv, BlockInv, PassForHead, HeadWidth, CksumWidth
<1>4. /\ n \in Nat /\ Start(log[n]) \in Nat
      /\ \A m \in DOMAIN log : m < n => log[m].end <= Start(log[n])
  BY <1>1, BlockOrder
<1>5. c = Plain(Sof)
  <2>1. 1 \in 1 .. Len(log[n].bytes) + 2 /\ Place = Start(log[n]) + 1 - 1
    BY <1>2, <1>3, <1>4
  <2>2. c = SymbolIn(log, n, 1)
    BY <1>1, <2>1, NextSymbol
  <2> HIDE DEF c
  <2> QED
    BY <1>3, <2>2 DEF SymbolIn
<1> HIDE DEF c
<1>6. PICK v \in ValuesOf(c) : AcceptSof(v)
  BY <1>1 DEF AcceptChar, AcceptId, AcceptLen, AcceptType, AcceptData, AcceptCksum,
              AcceptHead, AcceptBody
<1>7. v = Sof
  BY <1>5, <1>6, Reads
<1>8. /\ cksum' = <<Sof>> /\ discard_data' = FALSE /\ state' = "ID" /\ owed' = owed
  BY <1>1, <1>6, <1>7 DEF AcceptSof, BeginFrame
<1>9. ASSUME NEW m \in owed
      PROVE  m >= n
  <2>1. m \in DOMAIN log /\ Start(log[m]) >= Place
    BY <1>1 DEF Working, OwedInv, Between
  <2>2. /\ m \in Nat /\ Start(log[m]) \in Nat /\ Len(log[m].bytes) \in Nat
        /\ log[m].end = Start(log[m]) + Len(log[m].bytes) + 2
    BY <1>1, <2>1, BlockOrder
  <2>3. m < n => log[m].end <= Start(log[n])
    BY <1>4, <2>1
  <2> DEFINE a == Start(log[n])
             d == Start(log[m])
             k == Len(log[m].bytes)
  <2>4. /\ m \in Nat /\ n \in Nat /\ a \in Nat /\ d \in Nat /\ k \in Nat /\ d >= a
        /\ m < n => d + k + 2 <= a
    BY <1>2, <1>4, <2>1, <2>2, <2>3
  <2> HIDE DEF a, d, k
  <2> QED
    BY <2>4
<1>10. InHead(n)'
  <2>1. HeadSeen' = 1 /\ Len(cksum') = 1 /\ cksum'[1] = Sof
    BY <1>8 DEF HeadSeen
  <2>2. \A i \in 1 .. Len(cksum') : cksum'[i] = log[n].bytes[i]
    BY <1>3, <2>1
  <2> QED
    BY <1>1, <1>2, <1>4, <1>8, <1>9, <2>1, <2>2 DEF InHead
<1> QED
  BY <1>1, <1>2, <1>8, <1>10 DEF InStep, HeadStates, BodyStates

\* Between the start byte and the checksum of a head.
LEMMA StepHead ==
  ASSUME Working, Accept, StateNow \in {"ID", "LEN", "TYPE"}
  PROVE  InStep'
<1> DEFINE c == Head(line)
<1>1. /\ SendInv /\ ParserInv /\ LineInv /\ log \in Seq(BlockType) /\ LogInv /\ StreamInv
      /\ ~damaged /\ line # <<>> /\ AcceptChar(c)
      /\ log' = log /\ Place \in Int /\ Place' = Place + 1 /\ StateNow' = state'
      /\ handed' = handed => owed' = owed
      /\ HeadRead /\ state = StateNow
  BY Found DEF Working, ReadInv
<1>2. PICK n \in DOMAIN log : InHead(n)
  BY Found DEF InStep, HeadStates
<1>3. Len(log[n].bytes) = 5 /\ log[n].part = "head"
  BY <1>1, <1>2 DEF InHead, LogInv, BlockInv, PassForHead, HeadWidth, CksumWidth
<1> DEFINE k == Len(cksum)
<1>4. cksum \in Seq(Byte) /\ k \in 1 .. 4 /\ HeadSeen = k
  BY <1>1, HeadLength DEF HeadStates
<1>5. Start(log[n]) \in Nat
  BY <1>1, BlockOrder
<1>6. Place = Start(log[n]) + k
  BY <1>2, <1>4 DEF InHead
<1> HIDE DEF k
<1>7. c = Plain(log[n].bytes[k + 1])
  <2>1. k + 1 \in 1 .. Len(log[n].bytes) + 2 /\ Place = Start(log[n]) + (k + 1) - 1
    BY <1>3, <1>4, <1>5, <1>6
  <2>2. c = SymbolIn(log, n, k + 1)
    BY <1>1, <2>1, NextSymbol
  <2>3. k + 1 <= Len(log[n].bytes)
    BY <1>3, <1>4
  <2> HIDE DEF c
  <2> QED
    BY <2>2, <2>3 DEF SymbolIn
<1> HIDE DEF c
<1>8. PICK v \in ValuesOf(c) : AcceptId(v) \/ AcceptLen(v) \/ AcceptType(v)
  BY <1>1 DEF AcceptChar, AcceptSof, AcceptData, AcceptCksum, AcceptHead, AcceptBody
<1>9. v = log[n].bytes[k + 1] /\ v \in Byte
  <2>1. v = log[n].bytes[k + 1]
    BY <1>7, <1>8, Reads
  <2>2. log[n].bytes \in Seq(Byte) /\ k + 1 \in 1 .. Len(log[n].bytes)
    BY <1>1, <1>3, <1>4, BlockOrder
  <2> QED
    BY <2>1, <2>2
<1>10. /\ cksum' = Append(cksum, v) /\ discard_data' = discard_data /\ handed' = handed
       /\ state' \in HeadStates /\ (state' = "HEAD_CKSUM" => rxi' = 0)
  BY <1>8 DEF AcceptId, AcceptLen, AcceptType, HeadStates
<1>11. /\ Len(cksum') = k + 1 /\ cksum'[k + 1] = v
       /\ \A i \in 1 .. k : cksum'[i] = cksum[i]
  BY <1>4, <1>9, <1>10, AppendProperties DEF k
<1>12. HeadSeen' = k + 1
  BY <1>4, <1>10, <1>11 DEF HeadSeen
<1>13. InHead(n)'
  <2>1. ASSUME NEW i \in 1 .. Len(cksum')
        PROVE  cksum'[i] = log[n].bytes[i]
    <3>1. i \in 1 .. k \/ i = k + 1
      BY <1>4, <1>11
    <3> QED
      BY <1>2, <1>9, <1>11, <3>1 DEF InHead, k
  <2>2. Place' = Start(log[n]) + HeadSeen'
    BY <1>1, <1>4, <1>5, <1>6, <1>12
  <2>3. state' = "HEAD_CKSUM" => 1 .. rxi' = {}
    BY <1>10
  <2> QED
    BY <1>1, <1>2, <1>3, <1>10, <2>1, <2>2, <2>3 DEF InHead
<1> QED
  BY <1>1, <1>2, <1>10, <1>13 DEF InStep, HeadStates, BodyStates

\* Two sequences that agree byte by byte.
LEMMA SameBytes ==
  ASSUME NEW s \in Seq(Byte), NEW t \in Seq(Byte), Len(s) = Len(t),
         \A i \in 1 .. Len(s) : s[i] = t[i]
  PROVE  s = t
BY SeqEqual

\* The checksum that was sent behind a block fits it.
LEMMA FitsBlock ==
  ASSUME ref_cksum \in Seq(Symbol), Len(ref_cksum) = 1, NEW bytes, NEW n, NEW c,
         ref_cksum[1] = Cksum(bytes, 1, n), c = Cksum(bytes, 2, n), c \in Symbol,
         ref_cksum' = Append(ref_cksum, c), cksum = bytes
  PROVE  Fits(ref_cksum', cksum)
<1>1. ref_cksum'[1] = ref_cksum[1] /\ ref_cksum'[2] = c
  <2>1. Append(ref_cksum, c)[Len(ref_cksum) + 1] = c
    BY AppendProperties
  <2>2. 1 \in 1 .. Len(ref_cksum) /\ Len(ref_cksum) + 1 = 2
    OBVIOUS
  <2>3. Append(ref_cksum, c)[1] = ref_cksum[1]
    BY <2>2, AppendProperties
  <2>4. Append(ref_cksum, c)[2] = c
    BY <2>1, <2>2, Zenon
  <2> QED
    BY <2>3, <2>4, Zenon
<1>2. ASSUME NEW k \in 1 .. CksumWidth
      PROVE  IsCksum(ref_cksum'[k]) /\ ref_cksum'[k].of = cksum /\ ref_cksum'[k].k = k
  <2>1. k = 1 \/ k = 2
    BY <1>2 DEF CksumWidth
  <2>2. ref_cksum'[k] = Cksum(bytes, k, n)
    BY <1>1, <2>1
  <2>3. /\ IsCksum(Cksum(bytes, k, n))
        /\ Cksum(bytes, k, n).of = bytes /\ Cksum(bytes, k, n).k = k
    BY Reads
  <2> QED
    BY <2>2, <2>3, Zenon
<1> QED
  BY <1>2 DEF Fits

\* What is handed over is no longer owed.
LEMMA NoLongerOwed ==
  ASSUME Accept, handed \in Seq(Message), NEW m \in Message, handed' = Append(handed, m)
  PROVE  owed' = owed \ Kept(m)
<1>1. /\ handed' \in Seq(Message) /\ Len(handed') = Len(handed) + 1
      /\ handed'[Len(handed')] = m
  BY AppendProperties
<1>2. handed' # handed
  <2>1. Len(handed) \in Nat
    OBVIOUS
  <2> QED
    BY <1>1, <2>1
<1>3. owed' = owed \ Kept(handed'[Len(handed')])
  BY <1>2 DEF Accept
<1> QED
  BY <1>1, <1>3

\* Where the parser stands behind a block that no body follows.
LEMMA BehindFrame ==
  ASSUME log \in Seq(BlockType), LogInv, NEW n \in DOMAIN log, Place \in Int,
         log' = log, Place' = log[n].end,
         n + 1 \in DOMAIN log => log[n + 1].part # "body",
         \A m \in owed' : m \in DOMAIN log /\ m > n
  PROVE  Between'
<1>1. \/ log[n].end = Total(log)
      \/ n + 1 \in DOMAIN log /\ Start(log[n + 1]) = log[n].end /\ log[n + 1].part = "head"
  BY Follows
<1>2. Place' = Total(log') \/ \E m \in DOMAIN log' : log'[m].part = "head" /\ Place' = Start(log'[m])
  <2>1. CASE log[n].end = Total(log)
    BY <2>1
  <2>2. CASE /\ n + 1 \in DOMAIN log /\ Start(log[n + 1]) = log[n].end
             /\ log[n + 1].part = "head"
    BY <2>2
  <2> QED
    BY <1>1, <2>1, <2>2
<1>3. ASSUME NEW m \in owed'
      PROVE  Start(log'[m]) >= Place'
  <2>1. m \in DOMAIN log /\ n < m
    BY <1>3
  <2>2. /\ log[n].end <= Start(log[m]) /\ Start(log[m]) \in Nat
    BY <2>1, BlockOrder
  <2>3. log[n].end \in Nat
    BY BlockOrder
  <2> QED
    BY <2>1, <2>2, <2>3
<1> QED
  BY <1>2, <1>3 DEF Between

\* In the checksum of a head: it fits, and the head is accepted.
LEMMA StepHeadCksum ==
  ASSUME Working, Accept, StateNow = "HEAD_CKSUM"
  PROVE  InStep'
<1> DEFINE c == Head(line)
<1>1. /\ SendInv /\ ParserInv /\ LineInv /\ log \in Seq(BlockType) /\ LogInv /\ StreamInv
      /\ ~damaged /\ line # <<>> /\ AcceptChar(c)
      /\ log' = log /\ Place \in Int /\ Place' = Place + 1 /\ StateNow' = state'
      /\ handed' = handed => owed' = owed
      /\ ReadInv /\ state = "HEAD_CKSUM" /\ c \in Symbol
  <2>1. c \in Symbol
    BY AcceptShifts DEF Working, WireInv
  <2> QED
    BY <2>1, Found DEF Working
<1>2. PICK n \in DOMAIN log : InHead(n)
  BY Found DEF InStep, HeadStates
<1>3. Len(log[n].bytes) = 5 /\ log[n].part = "head"
  BY <1>1, <1>2 DEF InHead, LogInv, BlockInv, PassForHead, HeadWidth, CksumWidth
<1>4. /\ cksum \in Seq(Byte) /\ Len(cksum) = 5 /\ rxi \in {0, 1} /\ HeadSeen = 5 + rxi
      /\ rxi = Len(ref_cksum)
  BY <1>1, HeadLength DEF HeadStates, ReadInv
<1>5. /\ n \in Nat /\ n >= 1 /\ Start(log[n]) \in Nat /\ log[n].bytes \in Seq(Byte)
      /\ log[n].end = Start(log[n]) + 7
  <2>1. /\ n \in Nat /\ n >= 1 /\ Start(log[n]) \in Nat /\ log[n].bytes \in Seq(Byte)
        /\ log[n].end = Start(log[n]) + Len(log[n].bytes) + 2
    BY <1>1, BlockOrder
  <2> QED
    BY <1>3, <2>1
<1>6. Place = Start(log[n]) + 5 + rxi
  BY <1>2, <1>4, <1>5 DEF InHead
<1>7. cksum = log[n].bytes
  BY <1>2, <1>3, <1>4, <1>5, SameBytes DEF InHead
<1>8. c = Cksum(cksum, rxi + 1, n)
  <2> DEFINE i == 5 + rxi + 1
  <2>1. i \in 1 .. Len(log[n].bytes) + 2 /\ Place = Start(log[n]) + i - 1
    <3>1. Len(log[n].bytes) + 2 = 7
      BY <1>3
    <3>2. rxi \in {0, 1} /\ Start(log[n]) \in Nat /\ Place = Start(log[n]) + 5 + rxi
      BY <1>4, <1>5, <1>6
    <3>3. i \in 1 .. 7 /\ Place = Start(log[n]) + i - 1
      BY <3>2
    <3> QED
      BY <3>1, <3>3
  <2>2. c = SymbolIn(log, n, i)
    BY <1>1, <2>1, NextSymbol
  <2>3. ~(i <= Len(log[n].bytes)) /\ i - Len(log[n].bytes) = rxi + 1
    BY <1>3, <1>4
  <2> HIDE DEF c, i
  <2> QED
    BY <1>7, <2>2, <2>3 DEF SymbolIn
<1>9. ref_cksum \in Seq(Symbol) /\ len \in Nat /\ discard_data = FALSE
  BY <1>1, <1>2 DEF ParserInv, ParserTypeOK, InHead
<1>10. \A m \in owed : m \in DOMAIN log /\ m \in Nat /\ m >= n
  <2>1. \A m \in DOMAIN log : m \in Nat
    BY <1>1
  <2> QED
    BY <1>2, <2>1 DEF Working, OwedInv, InHead
<1> HIDE DEF c
<1>11. AcceptCksum(c) \/ AcceptHead(c)
  BY <1>1, Found DEF AcceptChar, AcceptSof, AcceptId, AcceptLen, AcceptType, AcceptData, AcceptBody
<1>12. CASE rxi = 0
  <2>1. AcceptCksum(c)
    BY <1>11, <1>12 DEF AcceptHead, CksumWidth
  <2>2. /\ rxi' = 1 /\ state' = "HEAD_CKSUM" /\ ref_cksum' = Append(ref_cksum, c)
        /\ UNCHANGED <<cksum, discard_data>> /\ owed' = owed
    BY <1>1, <1>12, <2>1 DEF AcceptCksum
  <2>3. ref_cksum'[1] = c
    <3>1. ref_cksum'[Len(ref_cksum) + 1] = c
      BY <1>1, <1>9, <2>2, AppendProperties
    <3>2. Len(ref_cksum) + 1 = 1
      BY <1>4, <1>12
    <3> QED
      BY <3>1, <3>2, Zenon
  <2>4. ASSUME NEW i \in 1 .. rxi'
        PROVE  ref_cksum'[i] = Cksum(log[n].bytes, i, n)
    <3>1. i = 1
      BY <2>2
    <3> QED
      BY <1>7, <1>8, <1>12, <2>3, <3>1
  <2>5. HeadSeen' = 6 /\ Place' = Start(log[n]) + 6
    <3>1. HeadSeen' = Len(cksum') + rxi'
      BY <2>2 DEF HeadSeen
    <3>2. HeadSeen' = 6
      BY <1>4, <2>2, <3>1
    <3>3. Place' = Place + 1 /\ Place = Start(log[n]) + 5
      BY <1>1, <1>5, <1>6, <1>12
    <3> QED
      BY <1>5, <3>2, <3>3
  <2>6. InHead(n)'
    BY <1>1, <1>2, <1>3, <1>9, <1>10, <2>2, <2>4, <2>5 DEF InHead
  <2> QED
    BY <1>1, <1>2, <2>2, <2>6 DEF InStep, HeadStates, BodyStates
<1>13. CASE rxi = 1
  <2>1. AcceptHead(c)
    BY <1>11, <1>13 DEF AcceptCksum, CksumWidth
  <2>2. Fits(ref_cksum', cksum)
    <3>1. ref_cksum[1] = Cksum(log[n].bytes, 1, n)
      BY <1>1, <1>2, <1>13 DEF InHead
    <3>2. ref_cksum' = Append(ref_cksum, c) /\ c = Cksum(log[n].bytes, 2, n)
      BY <1>7, <1>8, <1>13, <2>1 DEF AcceptHead
    <3> QED
      BY <1>1, <1>4, <1>7, <1>9, <1>13, <3>1, <3>2, FitsBlock
  <2>3. c.n = n /\ head' = n /\ data' = <<>> /\ UNCHANGED len
    BY <1>8, <2>1, <2>2, Reads DEF AcceptHead
  <2>4. len = LengthIn(log[n].bytes)
    BY <1>1, <1>7 DEF ReadInv, HeadRead, HeadStates
  <2>5. Place' = log[n].end
    BY <1>1, <1>5, <1>6, <1>13
  <2>6. CASE len = 0
    <3> DEFINE m == [frame |-> [id |-> id, type |-> type, data |-> <<>>],
                     head |-> n, body |-> n]
    <3>1. handed' = Append(handed, m) /\ state' = "SOF"
      BY <2>1, <2>2, <2>3, <2>6 DEF AcceptHead, HandOver
    <3>2. /\ m \in Message /\ m.head = n /\ m.body = n /\ m.frame.data = <<>>
      BY <1>1, <1>5, EmptySeq DEF Message, ParserInv, ParserTypeOK
    <3> HIDE DEF m
    <3>3. owed' = owed \ {n}
      <4>1. owed' = owed \ Kept(m)
        BY <1>1, <3>1, <3>2, NoLongerOwed DEF ReadInv, UsedInv
      <4>2. Kept(m) = {n}
        BY <3>2 DEF Kept
      <4> QED
        BY <4>1, <4>2
    <3>4. \A k \in owed' : k \in DOMAIN log /\ k > n
      BY <1>5, <1>10, <3>3
    <3>5. n + 1 \in DOMAIN log => log[n + 1].part # "body"
      BY <1>1, <2>4, <2>6 DEF LogInv, BlockInv
    <3>6. Between'
      BY <1>1, <2>5, <3>4, <3>5, BehindFrame
    <3> QED
      BY <1>1, <3>1, <3>6 DEF InStep, HeadStates, BodyStates
  <2>7. CASE len # 0
    <3>1. /\ state' = "DATA" /\ rxi' = 0 /\ handed' = handed
          /\ discard_data' = (discard_data \/ len > MaxPayload)
      BY <2>1, <2>2, <2>7 DEF AcceptHead
    <3>2. discard_data' <=> len' > MaxPayload
      <4>1. len' = len
        BY <2>3
      <4> QED
        BY <1>9, <3>1, <4>1, Zenon
    <3>3. Received' = 0 /\ Len(data') = 0
      BY <2>3, <3>1 DEF Received
    <3>4. InBody'
      <4>1. Place' = log'[head'].end + Received'
        BY <1>1, <1>5, <2>3, <2>5, <3>3
      <4> QED
        BY <1>1, <1>3, <1>10, <2>3, <3>1, <3>2, <3>3, <4>1 DEF InBody
    <3> QED
      BY <1>1, <3>1, <3>4 DEF InStep, HeadStates, BodyStates
  <2> QED
    BY <2>6, <2>7
<1> QED
  BY <1>4, <1>12, <1>13

\* The block behind the head that was accepted.
LEMMA BodyBlock ==
  ASSUME Working, Accept, StateNow \in BodyStates
  PROVE  LET n == head + 1
         IN  /\ head \in DOMAIN log /\ n \in DOMAIN log /\ n \in Nat /\ head \in Nat
             /\ log[head].part = "head" /\ len = LengthIn(log[head].bytes) /\ len \in Nat /\ len # 0
             /\ log[n].part = "body" /\ log[n].bytes \in Seq(Byte) /\ Len(log[n].bytes) = len
             /\ Start(log[n]) \in Nat /\ Start(log[n]) = log[head].end
             /\ log[n].end = Start(log[n]) + len + 2
             /\ Place = Start(log[n]) + Received
             /\ discard_data \/ cksum = data
             /\ state = StateNow /\ InBody
<1>1. /\ ParserInv /\ log \in Seq(BlockType) /\ LogInv /\ InBody /\ state = StateNow /\ ReadInv
  BY Found DEF Working, InStep, BodyStates
<1>2. /\ head \in DOMAIN log /\ len = LengthIn(log[head].bytes) /\ len # 0
      /\ log[head].part = "head" /\ (discard_data \/ cksum = data)
  BY <1>1 DEF ReadInv, BodyRead, Behind, InBody
<1>3. len \in Nat
  BY <1>1 DEF ParserInv, ParserTypeOK
<1>4. BlockInv(head) /\ head \in Nat
  BY <1>1, <1>2 DEF LogInv
<1>5. /\ head + 1 \in DOMAIN log /\ Len(log[head + 1].bytes) = len
      /\ Start(log[head + 1]) = log[head].end /\ log[head + 1].part = "body"
  BY <1>2, <1>4 DEF BlockInv
<1> DEFINE n == head + 1
<1> HIDE DEF n
<1>6. n \in DOMAIN log /\ Len(log[n].bytes) = len /\ Start(log[n]) = log[head].end
      /\ log[n].part = "body"
  BY <1>5 DEF n
<1>7. /\ n \in Nat /\ log[n].bytes \in Seq(Byte) /\ Start(log[n]) \in Nat
      /\ log[n].end = Start(log[n]) + Len(log[n].bytes) + 2
  BY <1>1, <1>6, BlockOrder
<1>8. Place = Start(log[n]) + Received
  BY <1>1, <1>6 DEF InBody
<1> QED
  BY <1>1, <1>2, <1>3, <1>4, <1>6, <1>7, <1>8 DEF n

\* A byte of a body that is stored, or counted only.
LEMMA StepData ==
  ASSUME Working, Accept, StateNow = "DATA"
  PROVE  InStep'
<1> DEFINE c == Head(line)
<1>1. /\ SendInv /\ ParserInv /\ LineInv /\ log \in Seq(BlockType) /\ LogInv /\ StreamInv
      /\ ~damaged /\ line # <<>> /\ AcceptChar(c)
      /\ log' = log /\ Place \in Int /\ Place' = Place + 1 /\ StateNow' = state'
      /\ handed' = handed => owed' = owed
  BY Found DEF Working
<1>2. PICK n \in DOMAIN log :
        /\ n = head + 1 /\ head \in DOMAIN log
        /\ log[head].part = "head" /\ len \in Nat
        /\ log[n].bytes \in Seq(Byte) /\ Len(log[n].bytes) = len
        /\ Start(log[n]) \in Nat /\ Start(log[n]) = log[head].end
        /\ Place = Start(log[n]) + Received
        /\ state = "DATA" /\ InBody
  BY BodyBlock DEF BodyStates
<1>3. /\ rxi \in Nat /\ rxi < len /\ Received = rxi /\ data \in Seq(Byte) /\ discard_data \in BOOLEAN
      /\ discard_data \/ rxi = Len(data)
  BY <1>1, <1>2 DEF ParserInv, ParserTypeOK, Received
<1>4. c = Plain(log[n].bytes[rxi + 1])
  <2> DEFINE i == rxi + 1
  <2>1. i \in 1 .. len /\ Place = Start(log[n]) + i - 1
    BY <1>2, <1>3
  <2>2. i \in 1 .. Len(log[n].bytes) + 2 /\ i <= Len(log[n].bytes)
    BY <1>2, <2>1
  <2> HIDE DEF i
  <2>3. c = SymbolIn(log, n, i)
    BY <1>1, <2>1, <2>2, NextSymbol
  <2> HIDE DEF c
  <2> QED
    BY <2>2, <2>3 DEF SymbolIn, i
<1> HIDE DEF c
<1>5. PICK v \in ValuesOf(c) : AcceptData(v)
  BY <1>1, <1>2, Found DEF AcceptChar, AcceptSof, AcceptId, AcceptLen, AcceptType, AcceptCksum,
                           AcceptHead, AcceptBody
<1>6. v = log[n].bytes[rxi + 1] /\ v \in Byte
  <2>1. v = log[n].bytes[rxi + 1]
    BY <1>4, <1>5, Reads
  <2>2. rxi + 1 \in 1 .. Len(log[n].bytes)
    BY <1>2, <1>3
  <2> QED
    BY <1>2, <2>1, <2>2
<1>7. /\ UNCHANGED <<len, discard_data, head, handed>> /\ owed' = owed
      /\ state' \in {"DATA", "DATA_CKSUM"}
      /\ state' = "DATA_CKSUM" => rxi' = 0
      /\ ~discard_data => data' = Append(data, v)
  BY <1>1, <1>5 DEF AcceptData
<1>8. Received' = rxi + 1
  <2>1. CASE rxi + 1 = len
    <3>1. state' = "DATA_CKSUM" /\ rxi' = 0 /\ len' = len
      BY <1>5, <2>1 DEF AcceptData
    <3> QED
      BY <1>3, <2>1, <3>1 DEF Received
  <2>2. CASE rxi + 1 # len
    <3>1. state' = "DATA" /\ rxi' = rxi + 1
      BY <1>5, <2>2 DEF AcceptData
    <3> QED
      BY <3>1 DEF Received
  <2> QED
    BY <2>1, <2>2
<1>9. ASSUME ~discard_data, NEW i \in 1 .. Len(data')
      PROVE  data'[i] = log[n].bytes[i]
  <2>1. data' = Append(data, v) /\ rxi = Len(data)
    BY <1>3, <1>7, <1>9
  <2>2. /\ Len(data') = Len(data) + 1 /\ data'[Len(data) + 1] = v /\ Len(data) \in Nat
        /\ \A j \in 1 .. Len(data) : data'[j] = data[j]
    BY <1>3, <1>6, <2>1, AppendProperties
  <2>3. CASE i \in 1 .. Len(data)
    BY <1>2, <1>9, <2>2, <2>3 DEF InBody
  <2>4. CASE i = Len(data) + 1
    BY <1>6, <2>1, <2>2, <2>4
  <2> QED
    BY <1>9, <2>2, <2>3, <2>4
<1>10. InBody'
  <2>1. Place' = log[head].end + Received'
    <3>1. Place = log[head].end + rxi /\ Place' = Place + 1 /\ rxi \in Nat
      BY <1>1, <1>2, <1>3
    <3>2. log[head].end \in Nat
      BY <1>2
    <3> QED
      BY <1>8, <3>1, <3>2
  <2>2. ~discard_data' => \A i \in 1 .. Len(data') : data'[i] = log'[head' + 1].bytes[i]
    BY <1>1, <1>2, <1>7, <1>9
  <2>3. state' = "DATA_CKSUM" => 1 .. rxi' = {}
    BY <1>7
  <2>4. /\ discard_data <=> len > MaxPayload
        /\ \A m \in owed : m >= head
    BY <1>2 DEF InBody
  <2> QED
    BY <1>1, <1>2, <1>7, <2>1, <2>2, <2>3, <2>4 DEF InBody
<1> QED
  BY <1>1, <1>7, <1>10 DEF InStep, HeadStates, BodyStates

\* In the checksum of a body: one that was stored fits.
LEMMA StepBodyCksum ==
  ASSUME Working, Accept, StateNow = "DATA_CKSUM"
  PROVE  InStep'
<1> DEFINE c == Head(line)
<1>1. /\ SendInv /\ ParserInv /\ LineInv /\ log \in Seq(BlockType) /\ LogInv /\ StreamInv
      /\ ~damaged /\ line # <<>> /\ AcceptChar(c)
      /\ log' = log /\ Place \in Int /\ Place' = Place + 1 /\ StateNow' = state'
      /\ handed' = handed => owed' = owed
      /\ ReadInv /\ c \in Symbol
  <2>1. c \in Symbol
    BY AcceptShifts DEF Working, WireInv
  <2> QED
    BY <2>1, Found DEF Working
<1>2. PICK n \in DOMAIN log :
        /\ n = head + 1 /\ head \in DOMAIN log /\ n \in Nat /\ head \in Nat
        /\ log[head].part = "head" /\ len = LengthIn(log[head].bytes) /\ len \in Nat /\ len # 0
        /\ log[n].part = "body" /\ log[n].bytes \in Seq(Byte) /\ Len(log[n].bytes) = len
        /\ Start(log[n]) \in Nat /\ Start(log[n]) = log[head].end
        /\ log[n].end = Start(log[n]) + len + 2
        /\ Place = Start(log[n]) + Received
        /\ discard_data \/ cksum = data
        /\ state = "DATA_CKSUM" /\ InBody
  BY BodyBlock DEF BodyStates
<1>3. /\ rxi \in {0, 1} /\ Received = len + rxi /\ data \in Seq(Byte) /\ discard_data \in BOOLEAN
      /\ discard_data \/ len = Len(data)
      /\ ref_cksum \in Seq(Symbol) /\ Len(ref_cksum) = rxi
  BY <1>1, <1>2 DEF ParserInv, ParserTypeOK, Received, CksumWidth
<1>4. c = Cksum(log[n].bytes, rxi + 1, n)
  <2> DEFINE i == len + rxi + 1
  <2>1. i \in 1 .. len + 2 /\ Place = Start(log[n]) + i - 1 /\ ~(i <= len) /\ i - len = rxi + 1
    <3>1. rxi \in {0, 1} /\ len \in Nat /\ Start(log[n]) \in Nat
          /\ Place = Start(log[n]) + (len + rxi)
      BY <1>2, <1>3
    <3> QED
      BY <3>1
  <2> HIDE DEF i
  <2>2. /\ i \in 1 .. Len(log[n].bytes) + 2 /\ ~(i <= Len(log[n].bytes))
        /\ i - Len(log[n].bytes) = rxi + 1
    BY <1>2, <2>1
  <2>3. c = SymbolIn(log, n, i)
    BY <1>1, <2>1, <2>2, NextSymbol
  <2> HIDE DEF c
  <2> QED
    BY <2>2, <2>3 DEF SymbolIn
<1>5. \A m \in owed : m \in DOMAIN log /\ m \in Nat /\ m >= head
  <2>1. \A m \in DOMAIN log : m \in Nat
    BY <1>1
  <2> QED
    BY <1>2, <2>1 DEF Working, OwedInv, InBody
<1> HIDE DEF c
<1>6. AcceptCksum(c) \/ AcceptBody(c)
  BY <1>1, <1>2, Found DEF AcceptChar, AcceptSof, AcceptId, AcceptLen, AcceptType, AcceptData,
                           AcceptHead
<1>7. CASE rxi = 0
  <2>1. AcceptCksum(c)
    BY <1>6, <1>7 DEF AcceptBody, CksumWidth
  <2>2. /\ rxi' = 1 /\ state' = "DATA_CKSUM" /\ ref_cksum' = Append(ref_cksum, c)
        /\ UNCHANGED <<len, data, discard_data, head>> /\ owed' = owed
    BY <1>1, <1>2, <1>7, <2>1, Found DEF AcceptCksum
  <2>3. ref_cksum'[1] = c
    <3>1. ref_cksum'[Len(ref_cksum) + 1] = c
      BY <1>1, <1>3, <2>2, AppendProperties
    <3>2. Len(ref_cksum) + 1 = 1
      BY <1>3, <1>7
    <3> QED
      BY <3>1, <3>2, Zenon
  <2>4. ASSUME NEW i \in 1 .. rxi'
        PROVE  ref_cksum'[i] = Cksum(log[n].bytes, i, n)
    <3>1. i = 1
      BY <2>2
    <3> QED
      BY <1>4, <1>7, <2>3, <3>1
  <2>5. Place' = log[head].end + Received'
    <3>1. Received' = len + 1
      BY <2>2 DEF Received
    <3>2. Place = log[head].end + Received /\ Place' = Place + 1
      BY <1>1, <1>2
    <3>3. log[head].end \in Nat /\ len \in Nat /\ Received = len
      BY <1>2, <1>3, <1>7
    <3> QED
      BY <3>1, <3>2, <3>3
  <2>6. InBody'
    BY <1>1, <1>2, <2>2, <2>4, <2>5 DEF InBody
  <2> QED
    BY <1>1, <2>2, <2>6 DEF InStep, HeadStates, BodyStates
<1>8. CASE rxi = 1
  <2>1. AcceptBody(c)
    BY <1>6, <1>8 DEF AcceptCksum, CksumWidth
  <2>2. state' = "SOF" /\ head' = head /\ Place' = log[n].end
    <3>1. state' = "SOF" /\ head' = head
      BY <2>1 DEF AcceptBody
    <3>2. Place = Start(log[n]) + Received /\ Place' = Place + 1 /\ log[n].end = Start(log[n]) + len + 2
      BY <1>1, <1>2
    <3>3. Start(log[n]) \in Nat /\ len \in Nat /\ Received = len + 1
      BY <1>2, <1>3, <1>8
    <3> QED
      BY <3>1, <3>2, <3>3
  <2>3. n + 1 \in DOMAIN log => log[n + 1].part # "body"
    BY <1>1, <1>2 DEF LogInv, BlockInv
  <2>4. \A m \in owed : m # n
    BY <1>2 DEF Working, OwedInv
  <2>5. \A m \in owed' : m \in owed /\ m # head
    <3>1. CASE discard_data
      <4>1. handed' = handed
        BY <2>1, <3>1 DEF AcceptBody
      <4>2. len > MaxPayload
        BY <1>2, <3>1 DEF InBody
      <4>3. ASSUME head \in owed
            PROVE  FALSE
        <5>1. len <= MaxPayload
          BY <1>2, <4>3 DEF Working, OwedInv
        <5> QED
          BY <1>2, <4>2, <5>1, ParserAssumption
      <4> QED
        BY <1>1, <4>1, <4>3
    <3>2. CASE ~discard_data
      <4>1. data = log[n].bytes /\ cksum = log[n].bytes
        <5>1. Len(data) = Len(log[n].bytes) /\ \A i \in 1 .. Len(data) : data[i] = log[n].bytes[i]
          BY <1>2, <1>3, <3>2 DEF InBody
        <5>2. data = log[n].bytes
          BY <1>2, <1>3, <5>1, SameBytes
        <5> QED
          BY <1>2, <3>2, <5>2
      <4>2. Fits(ref_cksum', cksum)
        <5>1. ref_cksum[1] = Cksum(log[n].bytes, 1, n)
          BY <1>2, <1>8 DEF InBody
        <5>2. ref_cksum' = Append(ref_cksum, c) /\ c = Cksum(log[n].bytes, 2, n)
          BY <1>4, <1>8, <2>1 DEF AcceptBody
        <5> QED
          BY <1>1, <1>3, <1>8, <4>1, <5>1, <5>2, FitsBlock
      <4> DEFINE m == [frame |-> [id |-> id, type |-> type, data |-> data],
                       head |-> head, body |-> n]
      <4>3. handed' = Append(handed, m)
        <5>1. c.n = n
          BY <1>4, Reads
        <5> QED
          BY <2>1, <2>2, <3>2, <4>2, <5>1 DEF AcceptBody, HandOver
      <4>4. m \in Message /\ m.head = head /\ m.body = head + 1 /\ m.frame.data = data
        BY <1>1, <1>2, <1>3 DEF Message, ParserInv, ParserTypeOK
      <4>5. data # <<>>
        BY <1>2, <1>3, <3>2
      <4> HIDE DEF m
      <4>6. owed' = owed \ Kept(m)
        BY <1>1, <4>3, <4>4, NoLongerOwed DEF ReadInv, UsedInv
      <4>7. Kept(m) = {head}
        BY <4>4, <4>5 DEF Kept
      <4> QED
        BY <4>6, <4>7
    <3> QED
      BY <3>1, <3>2
  <2>6. \A m \in owed' : m \in DOMAIN log /\ m > n
    <3> SUFFICES ASSUME NEW m \in owed'
                 PROVE  m \in DOMAIN log /\ m > n
      OBVIOUS
    <3>1. m \in DOMAIN log /\ m \in Nat /\ m >= head /\ m # head /\ m # n
      BY <1>5, <2>4, <2>5
    <3> QED
      BY <1>2, <3>1
  <2>7. Between'
    BY <1>1, <1>2, <2>2, <2>3, <2>6, BehindFrame
  <2> QED
    BY <1>1, <2>2, <2>7 DEF InStep, HeadStates, BodyStates
<1> QED
  BY <1>3, <1>7, <1>8

-----------------------------------------------------------------------------
(* What is owed is kept.                                                   *)

\* A step of the sender: the log stays as it is, or a head begins where it ends.
LEMMA Begun ==
  ASSUME WireInv, StreamInv, Send
  PROVE  LET n == Len(log) + 1
         IN  \/ log' = log /\ owed' = owed
             \/ /\ n \in DOMAIN log' /\ log'[n].part = "head" /\ Start(log'[n]) = Total(log)
                /\ \/ owed' = owed
                   \/ /\ owed' = owed \cup {n} /\ ~damaged
                      /\ LengthIn(log'[n].bytes) <= MaxPayload
<1> DEFINE n == Len(log) + 1
<1>1. log \in Seq(BlockType) /\ LogInv
  BY DEF WireInv, SendInv, StreamInv
<1>2. owed' = IF log' # log /\ ~damaged /\ Len(msg'.data) <= MaxPayload
              THEN owed \cup {n} ELSE owed
  BY DEF Send
<1>3. ASSUME NEW f \in Frames, SendBegin(f)
      PROVE  /\ n \in DOMAIN log' /\ log'[n].part = "head" /\ Start(log'[n]) = Total(log)
             /\ LengthIn(log'[n].bytes) = Len(msg'.data)
  <2>1. log' = log \o Blocks(f, Total(log)) /\ msg' = f
    BY <1>3 DEF SendBegin
  <2> DEFINE bytes == HeadBytes(f)
             b == Block("head", bytes, Total(log))
  <2>2. /\ log'[n] = b /\ Len(log') = IF f.data = <<>> THEN n ELSE n + 1
    <3>1. /\ Len(log') = IF f.data = <<>> THEN Len(log) + 1 ELSE Len(log) + 2
          /\ log'[Len(log) + 1] = b
      BY <1>1, <2>1, LogAppended
    <3>2. Len(log) \in Nat /\ Len(log) + 2 = n + 1
      BY <1>1
    <3> QED
      BY <3>1, <3>2
  <2>3. n \in DOMAIN log'
    <3>1. log' \in Seq(BlockType) /\ Len(log) \in Nat
      <4>1. SendInv /\ line \in Seq(Symbol)
        BY DEF WireInv, LineInv
      <4> QED
        BY <1>1, <1>3, <4>1, SendBeginInv DEF SendInv
    <3>2. DOMAIN log' = 1 .. Len(log')
      BY <3>1
    <3> QED
      BY <2>2, <3>1, <3>2
  <2>4. bytes \in Seq(Byte) /\ LengthIn(bytes) = Len(f.data)
    BY HeadBytesType, HeadReads
  <2>5. b.part = "head" /\ b.bytes = bytes /\ Start(b) = Total(log)
    <3>1. Total(log) \in Nat
      BY <1>1, TotalType
    <3> QED
      BY <2>4, <3>1, BlockIs
  <2> HIDE DEF b, bytes
  <2> QED
    BY <2>1, <2>2, <2>3, <2>4, <2>5
<1>4. ASSUME SendChunk \/ SendEnd \/ SendWrite
      PROVE  log' = log /\ owed' = owed
  BY <1>2, <1>4 DEF SendChunk, SendEnd, SendWrite
<1> HIDE DEF n
<1>5. ASSUME NEW f \in Frames, SendBegin(f)
      PROVE  /\ n \in DOMAIN log' /\ log'[n].part = "head" /\ Start(log'[n]) = Total(log)
             /\ \/ owed' = owed
                \/ /\ owed' = owed \cup {n} /\ ~damaged
                   /\ LengthIn(log'[n].bytes) <= MaxPayload
  BY <1>2, <1>3, <1>5
<1> QED
  BY <1>4, <1>5 DEF Send, Sender, n

LEMMA OwedSend ==
  ASSUME WireInv, StreamInv, ReadInv, OwedInv, Send
  PROVE  OwedInv'
<1> DEFINE n == Len(log) + 1
<1>1. /\ SendInv /\ ParserInv /\ LineInv /\ log \in Seq(BlockType) /\ LogInv /\ line \in Seq(Symbol)
      /\ Place \in Int /\ Composed \in Int /\ Composed <= Total(log) /\ Total(log) \in Nat
      /\ Place <= Composed
  <2>1. /\ SendInv /\ ParserInv /\ LineInv /\ log \in Seq(BlockType) /\ LogInv /\ line \in Seq(Symbol)
        /\ BodyInv
    BY DEF WireInv, SendInv, LineInv, StreamInv
  <2>2. /\ Place \in Int /\ Composed \in Int /\ Composed <= Total(log) /\ Total(log) \in Nat
        /\ Len(Flight) \in Nat /\ Place + Len(Flight) = Composed
    BY <2>1, FlightType
  <2> QED
    BY <2>1, <2>2
<1>2. damaged' = damaged /\ UNCHANGED parserVars /\ silent' = 0 /\ Sender
  BY DEF Send
<1>3. Place' = Place /\ Extends
  BY <1>1, <1>2, SenderKeeps
<1>4. /\ UNCHANGED <<state, rxi, id, len, type, data, cksum, ref_cksum, discard_data,
                     parser_timeout_ticks, head, handed>>
      /\ StateNow' = StateNow /\ HeadSeen' = HeadSeen /\ Received' = Received
  BY <1>2 DEF parserVars, StateNow, TimedOut, HeadSeen, Received
<1>5. \/ log' = log /\ owed' = owed
      \/ /\ n \in DOMAIN log' /\ log'[n].part = "head" /\ Start(log'[n]) = Total(log)
         /\ \/ owed' = owed
            \/ owed' = owed \cup {n} /\ ~damaged /\ LengthIn(log'[n].bytes) <= MaxPayload
  BY Begun
<1>6. n \in Nat /\ \A m \in DOMAIN log : m \in Nat /\ m < n
  <2>1. Len(log) \in Nat /\ DOMAIN log = 1 .. Len(log)
    BY <1>1
  <2> QED
    BY <2>1
<1> HIDE DEF n
<1>7. ASSUME NEW m \in owed'
      PROVE  /\ m \in DOMAIN log' /\ log'[m].part = "head"
             /\ LengthIn(log'[m].bytes) <= MaxPayload
             /\ m \in owed \/ (m = n /\ Start(log'[m]) = Total(log))
  <2>1. CASE m \in owed
    BY <1>3, <2>1 DEF OwedInv, Extends
  <2>2. CASE m \notin owed
    BY <1>5, <2>2
  <2> QED
    BY <2>1, <2>2
<1>8. ASSUME ~damaged
      PROVE  InStep'
  <2>0. InStep
    BY <1>8 DEF OwedInv
  <2>1. ASSUME StateNow = "SOF"
        PROVE  Between'
    <3>1. Between
      BY <2>0, <2>1 DEF InStep
    <3>2. Place = Total(log') \/ \E k \in DOMAIN log' : log'[k].part = "head" /\ Place = Start(log'[k])
      <4>1. CASE Place = Total(log)
        BY <1>5, <4>1
      <4>2. CASE \E k \in DOMAIN log : log[k].part = "head" /\ Place = Start(log[k])
        BY <1>3, <4>2 DEF Extends
      <4> QED
        BY <3>1, <4>1, <4>2 DEF Between
    <3>3. ASSUME NEW m \in owed'
          PROVE  Start(log'[m]) >= Place
      <4>1. CASE m \in owed
        <5>1. m \in DOMAIN log /\ Start(log[m]) >= Place
          BY <3>1, <4>1 DEF OwedInv, Between
        <5> QED
          BY <1>3, <5>1 DEF Extends
      <4>2. CASE m = n /\ Start(log'[m]) = Total(log)
        BY <1>1, <4>2
      <4> QED
        BY <1>7, <4>1, <4>2
    <3> QED
      BY <1>3, <3>2, <3>3 DEF Between
  <2>2. ASSUME StateNow \in HeadStates
        PROVE  \E k \in DOMAIN log' : InHead(k)'
    <3>1. PICK k \in DOMAIN log : InHead(k)
      BY <2>0, <2>2 DEF InStep
    <3>2. k \in DOMAIN log' /\ log'[k] = log[k]
      BY <1>3 DEF Extends
    <3>3. \A m \in owed' : m >= k
      BY <1>6, <1>7, <3>1 DEF InHead
    <3>4. InHead(k)'
      BY <1>3, <1>4, <3>1, <3>2, <3>3 DEF InHead
    <3> QED
      BY <3>2, <3>4
  <2>3. ASSUME StateNow \in BodyStates
        PROVE  InBody'
    <3>1. InBody /\ state \in BodyStates
      BY <1>1, <2>0, <2>3, StateFound DEF InStep, BodyStates
    <3>2. head \in DOMAIN log /\ head + 1 \in DOMAIN log
      <4>1. /\ head \in DOMAIN log /\ log[head].part = "head" /\ len = LengthIn(log[head].bytes)
            /\ len # 0
        BY <3>1 DEF ReadInv, BodyRead, Behind, InBody
      <4> QED
        BY <1>1, <4>1 DEF LogInv, BlockInv
    <3>3. log'[head] = log[head] /\ log'[head + 1] = log[head + 1]
      BY <1>3, <3>2 DEF Extends
    <3>4. \A m \in owed' : m >= head
      BY <1>6, <1>7, <3>1, <3>2 DEF InBody
    <3> QED
      BY <1>3, <1>4, <3>1, <3>3, <3>4 DEF InBody
  <2> QED
    BY <1>4, <2>1, <2>2, <2>3 DEF InStep, HeadStates, BodyStates
<1>9. damaged => owed' = {}
  BY <1>5 DEF OwedInv
<1>10. silent' <= parser_timeout_ticks' /\ ~(silent' > 0)
  BY <1>1, <1>2, <1>4 DEF ParserInv, ParserTypeOK
<1> QED
  BY <1>2, <1>7, <1>8, <1>9, <1>10 DEF OwedInv

LEMMA OwedAccept ==
  ASSUME WireInv, StreamInv, ReadInv, OwedInv, Accept
  PROVE  OwedInv'
<1>1. damaged' = damaged /\ silent' = silent /\ log' = log /\ line # <<>>
  BY DEF Accept, sendVars
<1>2. \A m \in owed' : m \in owed
  BY DEF Accept
<1>3. silent = 0
  <2>1. ~(silent > 0)
    BY <1>1 DEF OwedInv, Quiet
  <2>2. silent \in 0 .. ParserTimeout
    BY DEF WireInv, LineInv
  <2> QED
    BY <2>1, <2>2, ParserAssumption
<1>4. parser_timeout_ticks' = 0
  BY DEF Accept, AcceptChar
<1>5. ASSUME ~damaged
      PROVE  InStep'
  <2>1. Working /\ ParserInv
    BY <1>5 DEF Working, WireInv
  <2>2. StateNow \in States
    BY <2>1, StateFound
  <2> QED
    BY <2>1, <2>2, StepSof, StepHead, StepHeadCksum, StepData, StepBodyCksum DEF States
<1> QED
  BY <1>1, <1>2, <1>3, <1>4, <1>5 DEF OwedInv

LEMMA InStepSame ==
  ASSUME UNCHANGED <<sendVars, line, state, rxi, id, len, type, data, cksum, ref_cksum,
                     discard_data, head, handed, owed>>,
         StateNow' = StateNow, InStep
  PROVE  InStep'
<1>1. Place' = Place /\ log' = log /\ HeadSeen' = HeadSeen /\ Received' = Received
  BY DEF Place, Composed, Pending, Flight, sendVars, HeadSeen, Received
<1> QED
  BY <1>1 DEF InStep, Between, InHead, InBody

LEMMA OwedTick ==
  ASSUME WireInv, StreamInv, ReadInv, OwedInv, Tick
  PROVE  OwedInv'
<1>1. /\ ParserTimeout \in Nat /\ ParserTimeout > 0
      /\ parser_timeout_ticks \in 0 .. ParserTimeout /\ silent \in 0 .. ParserTimeout
      /\ damaged \in BOOLEAN /\ silent <= parser_timeout_ticks
  BY ParserAssumption DEF WireInv, ParserInv, ParserTypeOK, LineInv, OwedInv
<1>2. /\ parser_timeout_ticks' = IF parser_timeout_ticks < ParserTimeout
                                 THEN parser_timeout_ticks + 1 ELSE parser_timeout_ticks
      /\ silent' = IF Quiet THEN Least(silent + 1, ParserTimeout) ELSE 0
      /\ UNCHANGED <<sendVars, line, state, rxi, id, len, type, data, cksum, ref_cksum,
                     discard_data, head, handed>>
      /\ IF ~Quiet /\ parser_timeout_ticks' = ParserTimeout
         THEN damaged' = TRUE /\ owed' = {}
         ELSE damaged' = (damaged /\ silent' < ParserTimeout) /\ owed' = owed
  BY DEF Tick, ParserTick
<1>3. /\ parser_timeout_ticks' \in 0 .. ParserTimeout /\ parser_timeout_ticks <= parser_timeout_ticks'
      /\ silent' \in 0 .. ParserTimeout /\ silent' <= parser_timeout_ticks'
      /\ silent' > 0 => Quiet
  BY <1>1, <1>2 DEF Least
<1>4. Quiet' <=> Quiet
  BY <1>2 DEF Quiet, sendVars
<1>5. log' = log /\ Place' = Place
  BY <1>2 DEF Place, Composed, Pending, Flight, sendVars
<1>6. \A m \in owed' : m \in owed
  BY <1>2
<1>7. damaged' => owed' = {}
  BY <1>2 DEF OwedInv
<1>8. ASSUME ~damaged'
      PROVE  InStep'
  <2>1. /\ Quiet \/ parser_timeout_ticks' # ParserTimeout
        /\ ~damaged \/ ~(silent' < ParserTimeout)
        /\ owed' = owed
    BY <1>2, <1>8
  <2>2. ASSUME StateNow' = "SOF", owed = {}, Place = Total(log)
        PROVE  InStep'
    <3>1. Between'
      BY <1>5, <2>1, <2>2 DEF Between
    <3> QED
      BY <2>2, <3>1 DEF InStep, HeadStates, BodyStates
  <2>3. CASE damaged
    <3>1. silent' = ParserTimeout /\ parser_timeout_ticks' >= ParserTimeout /\ Quiet
      BY <1>1, <1>3, <2>1, <2>3
    <3>2. StateNow' = "SOF" /\ owed = {}
      BY <2>3, <3>1 DEF StateNow, TimedOut, OwedInv
    <3> QED
      BY <2>2, <3>1, <3>2, QuietBetween
  <2>4. CASE ~damaged /\ Quiet
    <3>1. StateNow = "SOF" /\ owed = {} /\ Place = Total(log)
      BY <2>4, QuietBetween
    <3>2. TimedOut => TimedOut'
      BY <1>1, <1>3 DEF TimedOut
    <3>3. StateNow' = "SOF"
      BY <1>2, <3>1, <3>2 DEF StateNow
    <3> QED
      BY <2>2, <3>1, <3>3
  <2>5. CASE ~damaged /\ ~Quiet
    <3>1. ~TimedOut /\ ~TimedOut'
      BY <1>1, <1>3, <2>1, <2>5 DEF TimedOut
    <3>2. StateNow' = StateNow
      BY <1>2, <3>1 DEF StateNow
    <3> QED
      BY <1>2, <2>1, <2>5, <3>2, InStepSame DEF OwedInv
  <2> QED
    BY <1>1, <2>3, <2>4, <2>5
<1> QED
  BY <1>3, <1>4, <1>5, <1>6, <1>7, <1>8 DEF OwedInv

LEMMA OwedInit == Init => OwedInv
<1> SUFFICES ASSUME Init PROVE OwedInv
  OBVIOUS
<1>1. /\ log = <<>> /\ line = <<>> /\ sendbuf = <<>> /\ send_pc = "idle" /\ owed = {}
      /\ state = "SOF" /\ silent = 0 /\ parser_timeout_ticks = 0
  BY DEF Init, SendInit, ParserInit
<1>2. Place = 0 /\ Total(log) = 0
  <2>1. Flight = <<>> /\ Total(log) = 0 /\ Pending = 0
    BY <1>1 DEF Flight, Total, Pending
  <2>2. Len(Flight) = 0 /\ Composed = 0
    BY <2>1 DEF Composed
  <2>3. Place = 0 - 0
    BY <2>2, Zenon DEF Place
  <2> QED
    BY <2>1, <2>3
<1>3. StateNow = "SOF"
  BY <1>1 DEF StateNow
<1>4. InStep
  BY <1>1, <1>2, <1>3 DEF InStep, Between, HeadStates, BodyStates
<1> QED
  BY <1>1, <1>4 DEF OwedInv

LEMMA OwedNext == WireInv /\ StreamInv /\ ReadInv /\ OwedInv /\ [Next]_vars => OwedInv'
<1> SUFFICES ASSUME WireInv, StreamInv, ReadInv, OwedInv, [Next]_vars
             PROVE  OwedInv'
  OBVIOUS
<1>1. ASSUME Fail
      PROVE  OwedInv'
  <2>1. damaged' = TRUE /\ owed' = {} /\ silent' = 0
    BY <1>1 DEF Fail
  <2>2. parser_timeout_ticks' \in 0 .. ParserTimeout
    BY WireNext DEF WireInv, ParserInv, ParserTypeOK
  <2> QED
    BY <2>1, <2>2, ParserAssumption DEF OwedInv
<1>2. CASE UNCHANGED vars
  <2>1. /\ UNCHANGED <<sendVars, line, state, rxi, id, len, type, data, cksum, ref_cksum,
                       discard_data, head, handed, owed>>
        /\ UNCHANGED <<damaged, silent, parser_timeout_ticks>>
        /\ UNCHANGED <<log, send_pc>>
    BY <1>2 DEF vars, parserVars, wireVars, sendVars
  <2>2. StateNow' = StateNow /\ (Quiet' <=> Quiet)
    BY <2>1 DEF StateNow, TimedOut, Quiet
  <2>3. ~damaged => InStep'
    BY <2>1, <2>2, InStepSame DEF OwedInv
  <2> QED
    BY <2>1, <2>2, <2>3 DEF OwedInv
<1> QED
  BY <1>1, <1>2, OwedSend, OwedAccept, OwedTick DEF Next, LoseRun, NoiseByte

\* No frame that was sent on a line that works is missing once the line is quiet,
\* and a line that failed works again after ParserTimeout ticks of silence
\* (TF_AcceptChar, TF_Tick), for every set of frames, buffer, payload limit and
\* time-out and whatever had happened before.
THEOREM NothingIsLost == Spec => []NothingLost
<1>1. WireInv /\ StreamInv /\ ReadInv /\ OwedInv => NothingLost
  BY QuietBetween DEF NothingLost
<1> QED
  BY <1>1, WireInit, WireNext, StreamInit, StreamNext, OwedInit, OwedNext, PTL DEF Spec
=============================================================================
