---------------------------- MODULE IdListeners ----------------------------
(***************************************************************************)
(* The ID-listener table of a TinyFrame instance (lib/TinyFrame), and the  *)
(* frame IDs its queries are told apart by.                                *)
(*                                                                         *)
(* A table is a record: slot maps every slot to the listener in it, or to  *)
(* None (a slot whose fn is NULL), and count is count_id_lst, the bound of *)
(* every loop over the table.  The fields a cleaned slot keeps (id,        *)
(* timeout) are not part of it: every reader tests fn first.               *)
(*                                                                         *)
(* No query of this program attaches userdata (TF_QuerySimple clears the   *)
(* message), so cleaning a listener up never calls it back, and both of    *)
(* its ID listeners answer TF_CLOSE.                                       *)
(***************************************************************************)
EXTENDS Integers

CONSTANTS
  MaxIdLst,   \* TF_MAX_ID_LST, the number of slots (4)
  IdSpan,     \* TF_ID_MASK + 1, the frame IDs one peer can generate (128)
  Queries,    \* identities of the queries, to tell them apart in properties
  None        \* an empty slot

ASSUME TableAssumption ==
  /\ MaxIdLst \in Nat \ {0}
  /\ IdSpan \in Nat \ {0}

Slots == 0 .. MaxIdLst - 1

-----------------------------------------------------------------------------
(* Frame IDs.  next_id is a TF_ID of which all but the top bit numbers the *)
(* frames; the top bit is set by the master, this program, only.           *)

PeerIds == 0 .. IdSpan - 1               \* generated by the slave, the MAX32655
OwnIds  == IdSpan .. 2 * IdSpan - 1      \* generated by the master, the ESP32

\* A slip the checks must notice: the counter wraps one early.
IncId_WrapsEarly(n) == IF n + 2 = 2 * IdSpan THEN 0 ELSE n + 1

\* next_id++ in a TF_ID: it wraps at twice IdSpan.
IncId(n) == IF n + 1 = 2 * IdSpan THEN 0 ELSE n + 1

\* next_id & TF_ID_MASK
Masked(n) == IF n >= IdSpan THEN n - IdSpan ELSE n

\* A slip: the master forgets the peer bit.
OwnId_NoPeerBit(n) == Masked(n)

\* The ID composed into a frame of the master: masked, with the peer bit set.
OwnId(n) == IdSpan + Masked(n)

-----------------------------------------------------------------------------
(* A listener waits for the frame with its id; fn is the pair of callbacks *)
(* it was registered with, and q, which the program does not store, is the *)
(* query it was registered for.                                            *)

Listener == [fn : {"cmd", "hb"}, id : OwnIds, timeout : Nat, q : Queries]

Table == [slot : [Slots -> Listener \cup {None}], count : 0 .. MaxIdLst]

EmptyTable == [slot |-> [i \in Slots |-> None], count |-> 0]

First(S) == CHOOSE i \in S : \A j \in S : i <= j

Free(t) == {i \in Slots : t.slot[i] = None}

Live(t) == {i \in Slots : t.slot[i] # None}

\* TF_AddIdListener, for a table with a free slot: the lowest one is taken.
Add(t, l) ==
  LET i == First(Free(t))
  IN  [slot  |-> [t.slot EXCEPT ![i] = l],
       count |-> IF i >= t.count THEN i + 1 ELSE t.count]

\* Slips: the bound shrinks whichever slot is freed; a listener that answered
\* TF_CLOSE stays in its slot.
Cleanup_AlwaysShrinks(t, i) ==
  [slot |-> [t.slot EXCEPT ![i] = None], count |-> t.count - 1]

Cleanup_Stays(t, i) == t

\* cleanup_id_listener: the bound shrinks only when the last slot is freed.
Cleanup(t, i) ==
  [slot  |-> [t.slot EXCEPT ![i] = None],
   count |-> IF i = t.count - 1 THEN t.count - 1 ELSE t.count]

\* The slots whose listener a received frame with this ID is offered to.
Matching(t, id) ==
  {i \in 0 .. t.count - 1 : t.slot[i] # None /\ t.slot[i].id = id}

\* A slip: the loop of TF_Tick stops one slot early.
Running_StopsEarly(t) ==
  {i \in 0 .. t.count - 2 : t.slot[i] # None /\ t.slot[i].timeout # 0}

\* The listeners TF_Tick counts down, and those it brings to zero.
Running(t) == {i \in 0 .. t.count - 1 : t.slot[i] # None /\ t.slot[i].timeout # 0}

Expiring(t) == {i \in Running(t) : t.slot[i].timeout = 1}

\* TF_Tick.  Freeing a slot inside the loop moves the bound of the loop only
\* when the slot is the last one, so no slot is skipped and the slots are
\* counted down independently.
CountDown(t) ==
  [slot  |-> [i \in Slots |->
                IF i \in Expiring(t) THEN None
                ELSE IF i \in Running(t)
                     THEN [t.slot[i] EXCEPT !.timeout = @ - 1]
                     ELSE t.slot[i]],
   count |-> IF t.count - 1 \in Expiring(t) THEN t.count - 1 ELSE t.count]
=============================================================================
