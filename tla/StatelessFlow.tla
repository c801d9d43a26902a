--------------------------- MODULE StatelessFlow ---------------------------
(***************************************************************************)
(* Stateless flows of the packet API (fms_packet_api.c) and the count of   *)
(* their jobs in flight (job_seq_id), by which a flow that was destroyed   *)
(* is kept until its last result was read.                                 *)
(*                                                                         *)
(* A job has no PD: its FD is copied to the input ring under               *)
(* hw_input_fifo_lock or, with a manager thread, to the thread's software  *)
(* FIFO, from which the manager thread moves it to the ring.  The device   *)
(* (external) scans jobs in parallel and reports each with one FRD.  One   *)
(* thread is modelled, and the FDs of others only as ring slots it lacks.  *)
(***************************************************************************)
EXTENDS Integers, Sequences, FiniteSets, SequencesExt

CONSTANTS
    Flow,      \* slots for stateless flows
    Job,       \* slots for jobs
    None,      \* the null pointer
    Room,      \* FDs that the input ring, or the software FIFO, holds
    CountMod,  \* job_seq_id counts modulo this number, 2^32 in the code
    MaxBatch,  \* bound: jobs in one call of nlm_start_jobs
    MaxCount,  \* bound: the count up to which jobs are started
    Modes      \* values of using_manager_thread

ASSUME StatelessAssumption ==
    /\ None \notin Flow
    /\ Room \in Nat /\ Room > 0
    /\ CountMod \in Nat /\ CountMod > MaxCount
    /\ MaxCount \in Nat
    /\ MaxBatch \in Nat /\ MaxBatch > 0
    /\ Modes \subseteq BOOLEAN

VARIABLES
    managed,  \* using_manager_thread, never changed
    flow,     \* per slot: [type, count]
    job,      \* per slot: [state, flow]
    todo,     \* jobs that nlm_start_jobs has not copied yet
    filled,   \* jobs in the ring behind the write pointer the device knows
    input,    \* jobs in the ring or FIFO, oldest first
    scanning, \* jobs in the device
    output    \* jobs whose FRD was not read

vars == <<managed, flow, job, todo, filled, input, scanning, output>>

FreeFlow == [type |-> "free", count |-> 0]

FreeJob == [state |-> "free", flow |-> None]

Init ==
    /\ managed \in Modes
    /\ flow = [f \in Flow |-> FreeFlow]
    /\ job = [j \in Job |-> FreeJob]
    /\ todo = <<>>
    /\ filled = <<>>
    /\ input = <<>>
    /\ scanning = {}
    /\ output = <<>>

(* The thread is between two calls of the library. *)
Idle == todo = <<>>

-----------------------------------------------------------------------------
(* nlm_create_flow. *)
CreateFlow(f) ==
    /\ Idle
    /\ flow[f].type = "free"
    /\ flow' = [flow EXCEPT ![f] = [type |-> "stateless", count |-> 0]]
    /\ UNCHANGED <<managed, job, todo, filled, input, scanning, output>>

(* nlm_flow_enqueue_search; the flow has at least one group. *)
EnqueueSearch(f, j) ==
    /\ Idle
    /\ flow[f].type = "stateless"
    /\ job[j].state = "free"
    /\ job' = [job EXCEPT ![j] = [state |-> "created", flow |-> f]]
    /\ UNCHANGED <<managed, flow, todo, filled, input, scanning, output>>

(* A packet of a wrong size, or not in packet memory: the job is lost. *)
EnqueueFails(f, j) ==
    /\ Idle
    /\ flow[f].type = "stateless"
    /\ job[j].state = "free"
    /\ job' = [job EXCEPT ![j].state = "orphan"]
    /\ UNCHANGED <<managed, flow, todo, filled, input, scanning, output>>

Counted(f, n) == [flow EXCEPT ![f].count = (@ + n) % CountMod]

-----------------------------------------------------------------------------
(* nlm_start_jobs.  With a manager thread there must be room for all jobs  *)
(* before the first is copied.                                             *)
StartJobs(batch) ==
    /\ Idle
    /\ IsInjective(batch)
    /\ \A i \in DOMAIN batch :
          /\ job[batch[i]].state = "created"
          /\ flow[job[batch[i]].flow].type = "stateless"
    /\ managed => Room - Len(input) >= Len(batch)
    /\ ~managed => \A f \in Flow : flow[f].count + Len(batch) <= MaxCount
    /\ todo' = batch
    /\ UNCHANGED <<managed, flow, job, filled, input, scanning, output>>

(* The copy of an FD to the software FIFO; the manager thread sees it once *)
(* it is pushed.                                                           *)
PushFd ==
    /\ managed
    /\ todo # <<>>
    /\ input' = Append(input, Head(todo))
    /\ job' = [job EXCEPT ![Head(todo)].state = "started"]
    /\ todo' = Tail(todo)
    /\ UNCHANGED <<managed, flow, filled, scanning, output>>

(* sysmem_alloc_fd finds a slot. *)
RingHasRoom == Len(input) + Len(filled) < Room

(* sysmem_alloc_fd found room; the flow's count goes up at once. *)
AllocFd ==
    /\ ~managed
    /\ todo # <<>>
    /\ RingHasRoom
    /\ flow' = Counted(job[Head(todo)].flow, 1)
    /\ \/ /\ Len(todo) > 1
          /\ filled' = Append(filled, Head(todo))
          /\ UNCHANGED <<managed, job, input>>
       \/ /\ Len(todo) = 1
          /\ filled' = <<>>
          /\ input' = input \o Append(filled, Head(todo))
          /\ job' = [j \in Job |-> IF j \in Range(Append(filled, Head(todo)))
                                   THEN [job[j] EXCEPT !.state = "started"]
                                   ELSE job[j]]
    /\ todo' = Tail(todo)
    /\ UNCHANGED <<managed, scanning, output>>

(* The ring is full: input_wrt_ptr is put back, and NLM_INPUT_FIFO_FULL is *)
(* returned.                                                               *)
AllocFails ==
    /\ ~managed
    /\ todo # <<>>
    /\ ~RingHasRoom
    /\ filled' = <<>>
    /\ todo' = <<>>
    /\ UNCHANGED <<managed, flow, job, input, scanning, output>>

-----------------------------------------------------------------------------
(* nlm_destroy_stateless_flow.  Jobs that were created and not started can *)
(* neither be started nor cancelled any more.                              *)
Destroyed(f, type) ==
    /\ Idle
    /\ flow[f].type = "stateless"
    /\ flow' = [flow EXCEPT ![f].type = type]
    /\ job' = [j \in Job |-> IF job[j] = [state |-> "created", flow |-> f]
                             THEN [state |-> "orphan", flow |-> None] ELSE job[j]]
    /\ UNCHANGED <<managed, todo, filled, input, scanning, output>>

(* The flow is freed without a look at its jobs. *)
DestroyAtOnce(f) == Destroyed(f, "free")

DestroyFlow(f) == Destroyed(f, IF flow[f].count = 0 THEN "free" ELSE "invalid")

(* nlm_get_all_search_results: the oldest result. *)
Read(newFlow) ==
    /\ Idle
    /\ output # <<>>
    /\ flow' = newFlow
    /\ job' = [job EXCEPT ![Head(output)] = FreeJob]
    /\ output' = Tail(output)
    /\ UNCHANGED <<managed, todo, filled, input, scanning>>

(* A destroyed flow is not looked at when its last result is read. *)
ProcessRdOnly == output # <<>> /\ Read(Counted(job[Head(output)].flow, -1))

(* The structure of the job is not given back. *)
ProcessRdKeepsJob ==
    /\ Idle
    /\ output # <<>>
    /\ flow' = Counted(job[Head(output)].flow, -1)
    /\ output' = Tail(output)
    /\ UNCHANGED <<managed, job, todo, filled, input, scanning>>

(* populate_results, for an FRD. *)
ProcessRd ==
    /\ output # <<>>
    /\ LET f == job[Head(output)].flow
           counted == Counted(f, -1) IN
       Read([counted EXCEPT ![f].type =
               IF @ = "invalid" /\ counted[f].count = 0 THEN "free" ELSE @])

-----------------------------------------------------------------------------
(* The device takes the oldest FD it was told of, directly or through the  *)
(* manager thread.                                                         *)
Fetch ==
    /\ input # <<>>
    /\ scanning' = scanning \cup {Head(input)}
    /\ input' = Tail(input)
    /\ UNCHANGED <<managed, flow, job, todo, filled, output>>

Report(j) ==
    /\ j \in scanning
    /\ scanning' = scanning \ {j}
    /\ output' = Append(output, j)
    /\ UNCHANGED <<managed, flow, job, todo, filled, input>>

-----------------------------------------------------------------------------
Batches == UNION {[1 .. n -> Job] : n \in 1 .. MaxBatch}

Library == PushFd \/ AllocFd \/ AllocFails

Next ==
    \/ \E f \in Flow : CreateFlow(f) \/ DestroyFlow(f)
    \/ \E f \in Flow, j \in Job : EnqueueSearch(f, j) \/ EnqueueFails(f, j)
    \/ \E batch \in Batches : StartJobs(batch)
    \/ Library
    \/ ProcessRd
    \/ Fetch
    \/ \E j \in Job : Report(j)

(* Calls return, the application keeps polling (between other calls), the  *)
(* device keeps working.                                                   *)
Fairness ==
    /\ WF_vars(Library)
    /\ SF_vars(ProcessRd)
    /\ WF_vars(Fetch)
    /\ \A j \in Job : WF_vars(Report(j))

Spec == Init /\ [][Next]_vars /\ Fairness

-----------------------------------------------------------------------------
TypeOK ==
    /\ managed \in BOOLEAN
    /\ flow \in [Flow -> [type : {"free", "stateless", "invalid"}, count : 0 .. CountMod - 1]]
    /\ job \in [Job -> [state : {"free", "created", "started", "orphan"},
                        flow : Flow \cup {None}]]
    /\ todo \in Seq(Job)
    /\ filled \in Seq(Job)
    /\ input \in Seq(Job) /\ Len(input) + Len(filled) <= Room
    /\ scanning \subseteq Job
    /\ output \in Seq(Job)

(* The jobs between nlm_start_jobs and the reading of their FRD. *)
InFlight(f) ==
    {j \in Range(filled) \cup Range(input) \cup scanning \cup Range(output) : job[j].flow = f}

(* A flow's structure is not on the free list, to be used for a new flow,  *)
(* before the last result of its jobs was read: "get_all_results() will    *)
(* actually free the nlm_flow structure when all jobs for this flow        *)
(* finish".                                                                *)
FreedAfterJobs ==
    \A f \in Flow : flow[f].type = "free" => InFlight(f) = {}

(* That is so without a manager thread, also after calls that have failed  *)
(* because the ring was full.                                              *)
NoFlowFreedInUse == TypeOK /\ (~managed => FreedAfterJobs)

(* Every job that was started is completed, and its slot is free again,    *)
(* also if its flow was freed or used again in the meantime.               *)
JobsComplete ==
    \A j \in Job : job[j].state = "started" ~> job[j].state = "free"

(* A flow that was destroyed with jobs in flight is freed in the end if    *)
(* job_seq_id was right, as no call on it had failed half-way.             *)
DestroyedFlowFreed ==
    \A f \in Flow :
        flow[f].type = "invalid" /\ flow[f].count = Cardinality(InFlight(f))
            ~> flow[f].type = "free"
=============================================================================
