----------------------------- MODULE ResultRing -----------------------------
(***************************************************************************)
(* The device's output ring of result descriptors (RDs), as the device and *)
(* the library share it: DirectOutput and ManagedOutput are the two ways   *)
(* in which the library takes RDs out of it.                               *)
(***************************************************************************)
EXTENDS Integers

CONSTANTS
    Thread,
    RingSize,  \* output_fifo_size; the ring holds one RD less
    SeqMod     \* results of a thread are numbered modulo this

ASSUME RingAssumption ==
    /\ RingSize \in Nat /\ RingSize > 1
    /\ SeqMod \in Nat /\ SeqMod >= RingSize

VARIABLES
    ring,  \* the RDs, by slot
    wrt,   \* the device's write pointer, in system memory
    rd,    \* output_rd_ptr, and the device's register RDF_RD_PTR
    sent,  \* history: number of the last result sent to the thread
    got    \* history: number of the last result the thread was given

Index == 0 .. RingSize - 1

Wrap(i) == i % RingSize

(* An RD marked RD_WAS_PROCESSED; the rest of it is not looked at again. *)
Processed == [processed |-> TRUE]

RingFull == Wrap(wrt + 1) = rd

(* The RDs between the pointers, oldest first, are at Slot(0), Slot(1)... *)
Slot(k) == Wrap(rd + k)

Occupied == (wrt - rd) % RingSize

(* How far result n of thread t is behind the last one it was given. *)
Ahead(t, n) == (n - got[t]) % SeqMod
=============================================================================
