------------------------------- MODULE DpFifo -------------------------------
(***************************************************************************)
(* The lockless software FIFO of nlm_dp_fifo.h, as operators on a FIFO     *)
(* value [in, out, buf].  nlm_job_fifo_t (of FDs, from a user thread to    *)
(* the manager thread) and nlm_result_fifo_t (of RDs, the other way) are   *)
(* the same code over two element types; both are modelled here.           *)
(*                                                                         *)
(* `in' and `out' are free-running uint32_t counters.  Modulus is 2^32 in  *)
(* the code; here it is any multiple of the size, so that a check can see  *)
(* the counters wrap.                                                      *)
(***************************************************************************)
EXTENDS Integers

CONSTANTS Size,     \* slots of the buffer; a power of two in the code
          Modulus   \* the counters count modulo this number

ASSUME FifoAssumption ==
    /\ Size \in Nat \ {0}
    /\ Modulus \in Nat
    /\ Modulus > Size
    /\ Modulus % Size = 0

Counter == 0 .. Modulus - 1

Slots == 0 .. Size - 1

(* Without the wraparound of a uint32_t. *)
IncUnbounded(c) == c + 1

(* fifo->in++ and fifo->out++ on a uint32_t. *)
Inc(c) == IF c = Modulus - 1 THEN 0 ELSE c + 1

(* c & (size - 1), size being a power of two. *)
Slot(c) == c % Size

(* in - out in unsigned arithmetic: the number of elements in the FIFO. *)
Used(f) == IF f.in >= f.out THEN f.in - f.out ELSE f.in - f.out + Modulus

(* job_fifo_init and result_fifo_init; the buffer's contents are whatever  *)
(* the memory holds.                                                       *)
FifoInit(f, contents) == f = [in |-> 0, out |-> 0, buf |-> contents]

(* job_fifo_free: size - in + out. *)
FifoFree(f) == Size - Used(f)

(* job_fifo_empty, and the test with which the output side is peeked. *)
FifoEmpty(f) == f.in = f.out

(* The counters may be one further apart than the buffer has slots. *)
FifoFullLate(f) == FifoFree(f) < 0

(* The test with which the input side is peeked: NULL when it is true. *)
FifoFull(f) == FifoFree(f) = 0

(* The slot peek_job_fifo_input points at, and the slot                    *)
(* peek_job_fifo_output points at.                                         *)
InputSlot(f) == Slot(f.in)

(* The reader looks where the writer writes. *)
OutputSlotOfWriter(f) == Slot(f.in)

OutputSlot(f) == Slot(f.out)

(* Write through the pointer that peeking the input returned. *)
Store(f, v) == [f EXCEPT !.buf[InputSlot(f)] = v]

PushFifo(f) == [f EXCEPT !.in = Inc(f.in)]

(* The slot is handed back without being counted. *)
PopForgotten(f) == f

PopFifo(f) == [f EXCEPT !.out = Inc(f.out)]

=============================================================================
