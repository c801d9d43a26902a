------------------------------ MODULE SpscFifo ------------------------------
(***************************************************************************)
(* One writer and one reader on a software FIFO, without a lock.  Each of  *)
(* them peeks, works on the slot in place, and only then moves its counter;*)
(* the other side can run between any two of these steps.  A slot is       *)
(* written field by field, so between the first and the last store it      *)
(* holds a value that is neither the old nor the new one: Torn.            *)
(***************************************************************************)
EXTENDS DpFifo, Sequences

CONSTANTS Val,    \* the descriptors the writer may send
          Torn    \* a partly written descriptor

ASSUME TornAssumption == Torn \notin Val

VARIABLES fifo,   \* [in, out, buf], shared
          wpc,    \* the writer is "idle", "peeked", "filling" or "filled"
          rpc,    \* the reader is "idle", "peeked" or "copied"
          copy,   \* the reader's copy of the slot, at most one value
          taken   \* the value the reader got with its last pop

vars == <<fifo, wpc, rpc, copy, taken>>

Init ==
    /\ \E v \in Val : FifoInit(fifo, [s \in Slots |-> v])
    /\ wpc = "idle"
    /\ rpc = "idle"
    /\ copy = <<>>
    /\ taken = <<>>

PeekInput ==
    /\ wpc = "idle"
    /\ ~FifoFull(fifo)
    /\ wpc' = "peeked"
    /\ UNCHANGED <<fifo, rpc, copy, taken>>

BeginFill ==
    /\ wpc = "peeked"
    /\ fifo' = Store(fifo, Torn)
    /\ wpc' = "filling"
    /\ UNCHANGED <<rpc, copy, taken>>

EndFill ==
    /\ wpc = "filling"
    /\ \E v \in Val : fifo' = Store(fifo, v)
    /\ wpc' = "filled"
    /\ UNCHANGED <<rpc, copy, taken>>

(* The counter is moved before the descriptor is complete. *)
PushEarly ==
    /\ wpc = "filling"
    /\ fifo' = PushFifo(fifo)
    /\ wpc' = "idle"
    /\ UNCHANGED <<rpc, copy, taken>>

Push ==
    /\ wpc = "filled"
    /\ fifo' = PushFifo(fifo)
    /\ wpc' = "idle"
    /\ UNCHANGED <<rpc, copy, taken>>

PeekOutput ==
    /\ rpc = "idle"
    /\ ~FifoEmpty(fifo)
    /\ rpc' = "peeked"
    /\ UNCHANGED <<fifo, wpc, copy, taken>>

Copy ==
    /\ rpc = "peeked"
    /\ copy' = <<fifo.buf[OutputSlot(fifo)]>>
    /\ rpc' = "copied"
    /\ UNCHANGED <<fifo, wpc, taken>>

Pop ==
    /\ rpc = "copied"
    /\ fifo' = PopFifo(fifo)
    /\ taken' = copy
    /\ copy' = <<>>
    /\ rpc' = "idle"
    /\ UNCHANGED wpc

Writer == PeekInput \/ BeginFill \/ EndFill \/ Push

Reader == PeekOutput \/ Copy \/ Pop

Next == Writer \/ Reader

(* The reader polls (nlm_manage_input, nlm_get_all_search_results); the    *)
(* writer may stop at any time.                                            *)
Spec == Init /\ [][Next]_vars /\ WF_vars(Reader)

-----------------------------------------------------------------------------
TypeOK ==
    /\ fifo \in [in : Counter, out : Counter, buf : [Slots -> Val \cup {Torn}]]
    /\ wpc \in {"idle", "peeked", "filling", "filled"}
    /\ rpc \in {"idle", "peeked", "copied"}
    /\ copy \in {<<>>} \cup {<<v>> : v \in Val \cup {Torn}}
    /\ taken \in {<<>>} \cup {<<v>> : v \in Val \cup {Torn}}

(* The writer acts on a "not full" it saw earlier, the reader on a "not    *)
(* empty" it saw earlier; whatever the other did meanwhile, the counters   *)
(* never cross and never move further apart than the buffer has slots,     *)
(* also once they have wrapped around.                                     *)
CountersAgree ==
    /\ Used(fifo) <= Size
    /\ wpc # "idle" => Used(fifo) < Size
    /\ rpc # "idle" => Used(fifo) > 0

(* While the writer has a slot in hand and the reader has one in hand,     *)
(* they are two different slots: no store through peek_*_fifo_input is     *)
(* ever seen half done by the reader.                                      *)
SlotsDisjoint ==
    wpc # "idle" /\ rpc # "idle" => InputSlot(fifo) # OutputSlot(fifo)

(* Everything between the two counters is a whole descriptor, and so is    *)
(* what the reader has copied but not yet popped: it is still in its slot, *)
(* which the writer has not been allowed to reuse.                         *)
DescriptorsWhole ==
    /\ \A i \in 0 .. Used(fifo) - 1 : fifo.buf[Slot(fifo.out + i)] \in Val
    /\ wpc = "filled" => fifo.buf[InputSlot(fifo)] \in Val
    /\ rpc = "copied" => copy = <<fifo.buf[OutputSlot(fifo)]>>

(* The elements between the two counters, oldest first. *)
Contents == [i \in 1 .. Used(fifo) |-> fifo.buf[Slot(fifo.out + i - 1)]]

(* The lockless FIFO implements a bounded queue: every descriptor pushed   *)
(* is popped once, whole and in order.                                     *)
Queue == INSTANCE BoundedQueue WITH queue <- Contents, Capacity <- Size

IsBoundedQueue == Queue!Spec

(* A reader that keeps polling empties the FIFO as far as it was filled:   *)
(* a full FIFO does not stay full.                                         *)
FullDrains == FifoFull(fifo) ~> ~FifoFull(fifo)

=============================================================================
