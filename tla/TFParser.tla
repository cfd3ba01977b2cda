------------------------------ MODULE TFParser ------------------------------
(***************************************************************************)
(* The receiving half of TinyFrame: TF_AcceptChar, an action for each of   *)
(* its states, and what TF_Tick does for it.  The fields of the parser     *)
(* keep what an earlier frame left in them, as in the code: only the       *)
(* assignments there clear them.                                           *)
(***************************************************************************)
EXTENDS TFFormat

CONSTANTS
  MaxPayload,      \* TF_MAX_PAYLOAD_RX (128)
  ParserTimeout    \* TF_PARSER_TIMEOUT_TICKS (50)

ASSUME ParserAssumption ==
  /\ MaxPayload \in Nat
  /\ ParserTimeout \in Nat \ {0}

VARIABLES
  state,                  \* tf->state
  rxi,                    \* tf->rxi
  id, len, type,          \* of the frame that comes in
  data,                   \* the first bytes of tf->data: those of this body
  cksum,                  \* the bytes tf->cksum was computed of
  ref_cksum,              \* the symbols tf->ref_cksum was collected from
  discard_data,           \* tf->discard_data
  parser_timeout_ticks,   \* tf->parser_timeout_ticks
  \* history
  head,                   \* number of the block accepted as a head
  handed                  \* what TF_HandleReceivedMessage was called with

parserVars == <<state, rxi, id, len, type, data, cksum, ref_cksum, discard_data,
                parser_timeout_ticks, head, handed>>

States == {"SOF", "ID", "LEN", "TYPE", "HEAD_CKSUM", "DATA", "DATA_CKSUM"}

\* rxi never leaves the field or the body it counts, so every byte that is
\* stored fits in tf->data.
ParserTypeOK ==
  /\ state \in States
  /\ rxi \in Nat
  /\ id \in Byte /\ type \in Byte
  /\ len \in 0 .. Base * Base - 1
  /\ Len(data) <= MaxPayload
  /\ state = "LEN" => rxi < 2
  /\ state \in {"HEAD_CKSUM", "DATA_CKSUM"} => rxi < CksumWidth /\ rxi = Len(ref_cksum)
  /\ state = "DATA" => rxi < len /\ (discard_data \/ (rxi = Len(data) /\ len <= MaxPayload))
  /\ state = "DATA_CKSUM" => discard_data \/ len = Len(data)
  /\ discard_data \in BOOLEAN
  /\ parser_timeout_ticks \in 0 .. ParserTimeout

ParserInit ==
  /\ state = "SOF" /\ rxi = 0
  /\ id = 0 /\ len = 0 /\ type = 0
  /\ data = <<>> /\ cksum = <<>> /\ ref_cksum = <<>>
  /\ discard_data = FALSE
  /\ parser_timeout_ticks = 0
  /\ head = 0
  /\ handed = <<>>

-----------------------------------------------------------------------------
\* A slip the checks must notice: the time-out needs a tick too many.
TimedOut_Late == parser_timeout_ticks > ParserTimeout

TimedOut == parser_timeout_ticks >= ParserTimeout

\* The state a byte finds, after a parser that waited too long was reset.
StateNow == IF TimedOut THEN "SOF" ELSE state

\* pars_begin_frame
BeginFrame ==
  /\ cksum' = <<Sof>>
  /\ discard_data' = FALSE
  /\ state' = "ID"
  /\ rxi' = 0

\* TF_HandleReceivedMessage, with the numbers of the blocks the message is made
\* of.
HandOver(body, m) ==
  handed' = Append(handed, [frame |-> [id |-> id, type |-> type, data |-> body],
                            head |-> head', body |-> m])

AcceptSof(v) ==
  /\ StateNow = "SOF"
  /\ IF v = Sof
     THEN BeginFrame
     ELSE state' = "SOF" /\ UNCHANGED <<rxi, cksum, discard_data>>
  /\ UNCHANGED <<id, len, type, data, ref_cksum, head, handed>>

AcceptId(v) ==
  /\ StateNow = "ID"
  /\ cksum' = Append(cksum, v)
  /\ id' = v
  /\ state' = "LEN" /\ rxi' = 0
  /\ UNCHANGED <<len, type, data, ref_cksum, discard_data, head, handed>>

\* Two bytes shift what an older frame left out of len.
AcceptLen(v) ==
  /\ StateNow = "LEN"
  /\ cksum' = Append(cksum, v)
  /\ len' = (len * Base + v) % (Base * Base)
  /\ IF rxi + 1 = 2
     THEN state' = "TYPE" /\ rxi' = 0
     ELSE state' = "LEN" /\ rxi' = rxi + 1
  /\ UNCHANGED <<id, type, data, ref_cksum, discard_data, head, handed>>

AcceptType(v) ==
  /\ StateNow = "TYPE"
  /\ cksum' = Append(cksum, v)
  /\ type' = v
  /\ state' = "HEAD_CKSUM" /\ rxi' = 0 /\ ref_cksum' = <<>>
  /\ UNCHANGED <<id, len, data, discard_data, head, handed>>

\* Do the symbols of a checksum fit what was received?
Fits(symbols, bytes) ==
  \A k \in 1 .. CksumWidth : IsCksum(symbols[k]) /\ symbols[k].of = bytes /\ symbols[k].k = k

\* A byte of a checksum, but for the last.
AcceptCksum(c) ==
  /\ StateNow \in {"HEAD_CKSUM", "DATA_CKSUM"}
  /\ rxi + 1 < CksumWidth
  /\ rxi' = rxi + 1
  /\ ref_cksum' = Append(ref_cksum, c)
  /\ state' = StateNow
  /\ UNCHANGED <<id, len, type, data, cksum, discard_data, head, handed>>

\* The last byte of the head's: a head that does not fit resets the parser, a
\* frame without a body is handed over, and a body too long is not stored.
AcceptHead(c) ==
  /\ StateNow = "HEAD_CKSUM"
  /\ rxi + 1 = CksumWidth
  /\ ref_cksum' = Append(ref_cksum, c)
  /\ IF ~Fits(ref_cksum', cksum)
     THEN state' = "SOF" /\ rxi' = rxi + 1 /\ UNCHANGED <<data, cksum, discard_data, head, handed>>
     ELSE /\ head' = c.n
          /\ data' = <<>>
          /\ IF len = 0
             THEN /\ HandOver(<<>>, c.n)
                  /\ state' = "SOF" /\ rxi' = rxi + 1
                  /\ UNCHANGED <<cksum, discard_data>>
             ELSE /\ state' = "DATA" /\ rxi' = 0
                  /\ cksum' = <<>>
                  /\ discard_data' = (discard_data \/ len > MaxPayload)
                  /\ UNCHANGED handed
  /\ UNCHANGED <<id, len, type>>

AcceptData(v) ==
  /\ StateNow = "DATA"
  /\ IF discard_data
     THEN UNCHANGED <<cksum, data>>
     ELSE cksum' = Append(cksum, v) /\ data' = Append(data, v)
  /\ IF rxi + 1 = len
     THEN state' = "DATA_CKSUM" /\ rxi' = 0 /\ ref_cksum' = <<>>
     ELSE state' = "DATA" /\ rxi' = rxi + 1 /\ UNCHANGED ref_cksum
  /\ UNCHANGED <<id, len, type, discard_data, head, handed>>

\* A slip: the body's checksum is collected and not compared.
AcceptBody_Unchecked(c) ==
  /\ StateNow = "DATA_CKSUM"
  /\ rxi + 1 = CksumWidth
  /\ ref_cksum' = Append(ref_cksum, c)
  /\ IF ~discard_data
     THEN UNCHANGED head /\ HandOver(data, head + 1)
     ELSE UNCHANGED <<head, handed>>
  /\ state' = "SOF" /\ rxi' = rxi + 1
  /\ UNCHANGED <<id, len, type, data, cksum, discard_data>>

\* The last byte of the body's checksum.
AcceptBody(c) ==
  /\ StateNow = "DATA_CKSUM"
  /\ rxi + 1 = CksumWidth
  /\ ref_cksum' = Append(ref_cksum, c)
  /\ IF ~discard_data /\ Fits(ref_cksum', cksum)
     THEN UNCHANGED head /\ HandOver(data, c.n)
     ELSE UNCHANGED <<head, handed>>
  /\ state' = "SOF" /\ rxi' = rxi + 1
  /\ UNCHANGED <<id, len, type, data, cksum, discard_data>>

\* TF_AcceptChar
AcceptChar(c) ==
  /\ parser_timeout_ticks' = 0
  /\ \/ \E v \in ValuesOf(c) :
          AcceptSof(v) \/ AcceptId(v) \/ AcceptLen(v) \/ AcceptType(v) \/ AcceptData(v)
     \/ AcceptCksum(c)
     \/ AcceptHead(c)
     \/ AcceptBody(c)

\* What TF_Tick does for the parser; the listeners are in module IdListeners.
ParserTick ==
  /\ parser_timeout_ticks' = IF parser_timeout_ticks < ParserTimeout
                             THEN parser_timeout_ticks + 1 ELSE parser_timeout_ticks
  /\ UNCHANGED <<state, rxi, id, len, type, data, cksum, ref_cksum, discard_data, head, handed>>
=============================================================================
