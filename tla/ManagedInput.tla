---------------------------- MODULE ManagedInput ----------------------------
(***************************************************************************)
(* The way of flow descriptors (FDs) to the device when a manager thread   *)
(* is used: every thread pushes into its own software FIFO, and            *)
(* nlm_manage_input moves the FDs to the input ring, round robin over the  *)
(* threads, and tells the device of them at the end of the call.           *)
(*                                                                         *)
(* Each software FIFO is the bounded queue that SpscFifo is proved to      *)
(* implement.  An FD is its thread and a number; numbers are reused.       *)
(***************************************************************************)
EXTENDS Integers, Sequences

CONSTANTS
    MaxThreads,   \* config.max_threads; threads are 0 .. MaxThreads - 1
    JobFifoSize,  \* slots of a software FIFO
    InputSize,    \* FDs of the input ring; it holds one less
    FdMod         \* FDs of a thread are numbered modulo this

ASSUME InputAssumption ==
    /\ MaxThreads \in Nat /\ MaxThreads > 0
    /\ JobFifoSize \in Nat /\ JobFifoSize > 0
    /\ InputSize \in Nat /\ InputSize > 1
    /\ FdMod \in Nat /\ FdMod > JobFifoSize + InputSize

ThreadId == 0 .. MaxThreads - 1

VARIABLES
    jobFifo,  \* sw_job_fifo, per thread, oldest FD first
    input,    \* FDs in the input ring, oldest first
    visible,  \* how many of them FDF_FIFO_WRT_PTR has told the device of
    call,     \* the manager's call: [running, at, empty, moved]
    pushed,   \* history: number of the last FD of each thread
    scanned   \* history: number of the last FD of each thread the device took

inputVars == <<jobFifo, input, visible, call, pushed, scanned>>

NoCall == [running |-> FALSE, at |-> 0, empty |-> 0, moved |-> FALSE]

InputInit ==
    /\ jobFifo = [t \in ThreadId |-> <<>>]
    /\ input = <<>>
    /\ visible = 0
    /\ call = NoCall
    /\ pushed = [t \in ThreadId |-> 0]
    /\ scanned = [t \in ThreadId |-> 0]

-----------------------------------------------------------------------------
NextNumber(n) == (n + 1) % FdMod

(* nlm_start_jobs pushes the FD of a stateless job after job_fifo_free has *)
(* shown room for it; nlm_flow_start_pending_pd_chain pushes the FD of a   *)
(* stateful flow where peek_job_fifo_input points.                         *)
PushFd(t) ==
    /\ Len(jobFifo[t]) < JobFifoSize
    /\ jobFifo' = [jobFifo EXCEPT ![t] = Append(@, [thread |-> t, seq |-> NextNumber(pushed[t])])]
    /\ pushed' = [pushed EXCEPT ![t] = NextNumber(@)]
    /\ UNCHANGED <<input, visible, call, scanned>>

-----------------------------------------------------------------------------
(* nlm_manage_input. *)
BeginInput ==
    /\ ~call.running
    /\ call' = [NoCall EXCEPT !.running = TRUE]
    /\ UNCHANGED <<jobFifo, input, visible, pushed, scanned>>

(* Thread call.at is next in the for loop; `empty' is thr_with_no_jobs.   *)
AtThread == call.running /\ call.at < MaxThreads

SkipEmpty ==
    /\ AtThread
    /\ jobFifo[call.at] = <<>>
    /\ call' = [call EXCEPT !.at = @ + 1, !.empty = @ + 1]
    /\ UNCHANGED <<jobFifo, input, visible, pushed, scanned>>

InputFull == Len(input) = InputSize - 1

Moved ==
    /\ AtThread
    /\ jobFifo[call.at] # <<>>
    /\ ~InputFull
    /\ input' = Append(input, Head(jobFifo[call.at]))
    /\ jobFifo' = [jobFifo EXCEPT ![call.at] = Tail(@)]
    /\ call' = [call EXCEPT !.at = @ + 1, !.moved = TRUE]

(* The device is told of every FD when it is moved. *)
MoveAndShow ==
    /\ Moved
    /\ visible' = Len(input')
    /\ UNCHANGED <<pushed, scanned>>

MoveFd ==
    /\ Moved
    /\ UNCHANGED <<visible, pushed, scanned>>

(* All FIFOs were seen empty, or the ring is full: tell the device. *)
InputEnded ==
    /\ visible' = IF call.moved THEN Len(input) ELSE visible
    /\ call' = NoCall
    /\ UNCHANGED <<input, pushed, scanned>>

(* The FD that did not fit is popped all the same. *)
DropFd ==
    /\ AtThread
    /\ jobFifo[call.at] # <<>>
    /\ InputFull
    /\ jobFifo' = [jobFifo EXCEPT ![call.at] = Tail(@)]
    /\ InputEnded

MeetFullRing ==
    /\ AtThread
    /\ jobFifo[call.at] # <<>>
    /\ InputFull
    /\ InputEnded
    /\ UNCHANGED jobFifo

(* The end of the for loop: once more, unless no thread had an FD. *)
NextRound ==
    /\ call.running
    /\ call.at = MaxThreads
    /\ call.empty # MaxThreads
    /\ call' = [call EXCEPT !.at = 0, !.empty = 0]
    /\ UNCHANGED <<jobFifo, input, visible, pushed, scanned>>

EndInput ==
    /\ call.running
    /\ call.at = MaxThreads
    /\ call.empty = MaxThreads
    /\ InputEnded
    /\ UNCHANGED jobFifo

(* The device (external) takes the oldest FD it was told of. *)
Fetch ==
    /\ visible > 0
    /\ scanned' = [scanned EXCEPT ![Head(input).thread] = Head(input).seq]
    /\ input' = Tail(input)
    /\ visible' = visible - 1
    /\ UNCHANGED <<jobFifo, call, pushed>>

-----------------------------------------------------------------------------
ManageInput == BeginInput \/ SkipEmpty \/ MoveFd \/ MeetFullRing \/ NextRound \/ EndInput

InputNext == ManageInput \/ Fetch \/ \E t \in ThreadId : PushFd(t)

(* The manager thread calls nlm_manage_input for ever (mtdemo.c), and the  *)
(* device keeps working.                                                   *)
InputSpec == InputInit /\ [][InputNext]_inputVars /\ WF_inputVars(ManageInput) /\ WF_inputVars(Fetch)

-----------------------------------------------------------------------------
Fd == [thread : ThreadId, seq : 0 .. FdMod - 1]

InputTypeOK ==
    /\ jobFifo \in [ThreadId -> Seq(Fd)]
    /\ \A t \in ThreadId : Len(jobFifo[t]) <= JobFifoSize
    /\ input \in Seq(Fd) /\ Len(input) < InputSize
    /\ visible \in 0 .. Len(input)
    /\ call \in [running : BOOLEAN, at : 0 .. MaxThreads, empty : 0 .. MaxThreads, moved : BOOLEAN]
    /\ pushed \in [ThreadId -> 0 .. FdMod - 1]
    /\ scanned \in [ThreadId -> 0 .. FdMod - 1]

(* The places of thread t's FDs in the input ring. *)
InRing(t) == {k \in 1 .. Len(input) : input[k].thread = t}

(* How far FD n of thread t is behind the last one the device took. *)
FdAhead(t, n) == (n - scanned[t]) % FdMod

(* The device gets every FD of a thread, once, and in the order in which   *)
(* the thread pushed them, although threads push while the manager moves:  *)
(* what the device has not taken is in the ring and, behind it, in the     *)
(* thread's FIFO, in order and without a gap.                              *)
FdsInOrder ==
    /\ InputTypeOK
    /\ \A t \in ThreadId :
        LET behind == FdAhead(t, pushed[t])
            moved == behind - Len(jobFifo[t])
            number(k) == FdAhead(t, input[k].seq) IN
        /\ moved >= 0
        /\ \A i \in 1 .. Len(jobFifo[t]) :
              jobFifo[t][i].thread = t /\ FdAhead(t, jobFifo[t][i].seq) = moved + i
        /\ \A k \in InRing(t) : number(k) \in 1 .. moved
        /\ \A k, l \in InRing(t) : k < l => number(k) < number(l)
        /\ \A n \in 1 .. moved : \E k \in InRing(t) : number(k) = n

(* A call of nlm_manage_input returns, even if the threads push and the    *)
(* device takes FDs as fast as they can: the FDs of one call are shown to  *)
(* the device only at its end, so that the ring fills up.  And they are    *)
(* shown then.                                                             *)
EveryPassEnds ==
    /\ call.running ~> ~call.running
    /\ Len(input) > visible ~> Len(input) = visible

(* The "round robin manner to avoide head of line blocking": an FD at the  *)
(* head of a thread's FIFO gets to the device.                             *)
NoThreadBlocked ==
    \A t \in ThreadId, n \in 0 .. FdMod - 1 :
        (jobFifo[t] # <<>> /\ Head(jobFifo[t]).seq = n) ~> scanned[t] = n
=============================================================================
