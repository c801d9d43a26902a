---------------------------- MODULE ManagedOutput ----------------------------
(***************************************************************************)
(* The way of result descriptors (RDs) from the device when a manager      *)
(* thread is used: nlm_manage_output copies the RDs of the output ring to  *)
(* the software FIFOs of their threads, and each thread reads its FIFO in  *)
(* get_search_results_from_fifo while the manager goes on.                 *)
(*                                                                         *)
(* A full FIFO is skipped for the rest of the call, so that no later RD of *)
(* the thread overtakes one that did not fit; the ring's read pointer then *)
(* stays, and RDs that were copied are marked.  Each software FIFO is the  *)
(* bounded queue that SpscFifo is proved to implement.                     *)
(***************************************************************************)
EXTENDS ResultRing, Sequences

CONSTANT FifoSize  \* slots of a software FIFO

ASSUME ManagedAssumption ==
    /\ FifoSize \in Nat /\ FifoSize > 0
    /\ SeqMod >= RingSize + FifoSize

VARIABLES
    fifo,  \* sw_result_fifo, per thread, oldest RD first
    skip,  \* the threads whose FIFO has `skip' set
    pass   \* the manager's call: [running, at, end, blocked]

vars == <<ring, wrt, rd, fifo, skip, pass, sent, got>>

Rd == [thread : Thread, seq : 0 .. SeqMod - 1]

NoPass == [running |-> FALSE, at |-> 0, end |-> 0, blocked |-> FALSE]

Init ==
    /\ ring = [i \in Index |-> Processed]
    /\ wrt = 0
    /\ rd = 0
    /\ fifo = [t \in Thread |-> <<>>]
    /\ skip = {}
    /\ pass = NoPass
    /\ sent = [t \in Thread |-> 0]
    /\ got = [t \in Thread |-> 0]

-----------------------------------------------------------------------------
(* The device (external) writes an RD and then moves its write pointer. *)
Send(t) ==
    /\ ~RingFull
    /\ sent' = [sent EXCEPT ![t] = (@ + 1) % SeqMod]
    /\ ring' = [ring EXCEPT ![wrt] = [thread |-> t, seq |-> sent'[t]]]
    /\ wrt' = Wrap(wrt + 1)
    /\ UNCHANGED <<rd, fifo, skip, pass, got>>

(* get_search_results_from_fifo: one result of one thread. *)
Read(t) ==
    /\ fifo[t] # <<>>
    /\ got' = [got EXCEPT ![t] = Head(fifo[t]).seq]
    /\ fifo' = [fifo EXCEPT ![t] = Tail(@)]
    /\ UNCHANGED <<ring, wrt, rd, skip, pass, sent>>

-----------------------------------------------------------------------------
(* `skip' stays set. *)
BeginPassSkipping ==
    /\ ~pass.running
    /\ rd # wrt
    /\ pass' = [running |-> TRUE, at |-> rd, end |-> wrt, blocked |-> FALSE]
    /\ UNCHANGED <<ring, wrt, rd, fifo, skip, sent, got>>

(* nlm_manage_output reads both pointers and clears every `skip'. *)
BeginPass ==
    /\ ~pass.running
    /\ rd # wrt
    /\ pass' = [running |-> TRUE, at |-> rd, end |-> wrt, blocked |-> FALSE]
    /\ skip' = {}
    /\ UNCHANGED <<ring, wrt, rd, fifo, sent, got>>

PassGoesOn == pass.running /\ pass.at # pass.end

Current == ring[pass.at]

Step == [pass EXCEPT !.at = Wrap(@ + 1)]

StepBlocked == [Step EXCEPT !.blocked = TRUE]

(* consume_rd, for an RD that an earlier call has copied. *)
PassProcessed ==
    /\ PassGoesOn
    /\ Current = Processed
    /\ pass' = Step
    /\ UNCHANGED <<ring, wrt, rd, fifo, skip, sent, got>>

(* consume_rd: this thread's FIFO was full earlier in this call. *)
SkipRd ==
    /\ PassGoesOn
    /\ Current # Processed
    /\ Current.thread \in skip
    /\ pass' = StepBlocked
    /\ UNCHANGED <<ring, wrt, rd, fifo, skip, sent, got>>

(* The FIFO is found full, and not marked. *)
MeetFullUnmarked ==
    /\ PassGoesOn
    /\ Current # Processed
    /\ Current.thread \notin skip
    /\ Len(fifo[Current.thread]) = FifoSize
    /\ pass' = StepBlocked
    /\ UNCHANGED <<ring, wrt, rd, fifo, skip, sent, got>>

(* consume_rd: this thread's FIFO is full now. *)
MeetFull ==
    /\ PassGoesOn
    /\ Current # Processed
    /\ Current.thread \notin skip
    /\ Len(fifo[Current.thread]) = FifoSize
    /\ skip' = skip \cup {Current.thread}
    /\ pass' = StepBlocked
    /\ UNCHANGED <<ring, wrt, rd, fifo, sent, got>>

(* consume_rd: copy the RD, mark it. *)
CopyRd ==
    /\ PassGoesOn
    /\ Current # Processed
    /\ Current.thread \notin skip
    /\ Len(fifo[Current.thread]) < FifoSize
    /\ fifo' = [fifo EXCEPT ![Current.thread] = Append(@, Current)]
    /\ ring' = [ring EXCEPT ![pass.at] = Processed]
    /\ pass' = Step
    /\ UNCHANGED <<wrt, rd, skip, sent, got>>

(* The pointer moves if every RD was copied. *)
EndPass ==
    /\ pass.running
    /\ pass.at = pass.end
    /\ rd' = IF pass.blocked THEN rd ELSE pass.at
    /\ pass' = NoPass
    /\ UNCHANGED <<ring, wrt, fifo, skip, sent, got>>

-----------------------------------------------------------------------------
Manage == BeginPass \/ PassProcessed \/ SkipRd \/ MeetFull \/ CopyRd \/ EndPass

Next == Manage \/ \E t \in Thread : Send(t) \/ Read(t)

(* The manager thread calls nlm_manage_output for ever (mtdemo.c) and each *)
(* thread keeps polling.                                                   *)
Spec == Init /\ [][Next]_vars /\ WF_vars(Manage) /\ \A t \in Thread : WF_vars(Read(t))

-----------------------------------------------------------------------------
TypeOK ==
    /\ ring \in [Index -> Rd \cup {Processed}]
    /\ wrt \in Index
    /\ rd \in Index
    /\ fifo \in [Thread -> Seq(Rd)]
    /\ \A t \in Thread : Len(fifo[t]) <= FifoSize
    /\ skip \subseteq Thread
    /\ pass \in [running : BOOLEAN, at : Index, end : Index, blocked : BOOLEAN]
    /\ sent \in [Thread -> 0 .. SeqMod - 1]
    /\ got \in [Thread -> 0 .. SeqMod - 1]

(* The places of the RDs of thread t that were not copied. *)
Uncopied(t) ==
    {k \in 0 .. Occupied - 1 : ring[Slot(k)] # Processed /\ ring[Slot(k)].thread = t}

(* "All RD's must be delivered in order": what is in a thread's FIFO and,  *)
(* unmarked, in the ring are the results it has not read, each once and in *)
(* order, although the thread may make room in its FIFO in the middle of   *)
(* the manager's call.                                                     *)
ReadInOrderOnce(t) ==
    LET copied == Len(fifo[t])
        unread == Ahead(t, sent[t])
        number(k) == Ahead(t, ring[Slot(k)].seq) IN
    /\ copied <= unread
    /\ \A i \in 1 .. copied : Ahead(t, fifo[t][i].seq) = i
    /\ \A k \in Uncopied(t) : number(k) \in copied + 1 .. unread
    /\ \A k, l \in Uncopied(t) : k < l => number(k) < number(l)
    /\ \A n \in copied + 1 .. unread : \E k \in Uncopied(t) : number(k) = n

DeliveredInOrderOnce ==
    /\ TypeOK
    /\ \A t \in Thread : ReadInOrderOnce(t)

(* Every result gets to its thread: a FIFO that was skipped is tried again.*)
(* The device is never held up for good by a full output ring.             *)
EveryResultDelivered ==
    /\ RingFull ~> ~RingFull
    /\ \A t \in Thread, s \in 0 .. SeqMod - 1 : (sent[t] = s) ~> (got[t] = s)
=============================================================================
