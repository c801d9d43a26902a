---------------------------- MODULE StatefulFlow ----------------------------
(***************************************************************************)
(* Stateful flows of the packet API (fms_packet_api.c): one thread of the  *)
(* library and the search device, sharing packet descriptors (PDs) in      *)
(* system memory without a lock.                                           *)
(*                                                                         *)
(* The packets of a stateful flow must be scanned one after the other.     *)
(* The thread sends the first one in a flow descriptor (FD) through the    *)
(* input ring, and links every later one behind the PD it linked last,     *)
(* "hoping that HW didn't fetch the last PD yet".  If it was in time the   *)
(* device follows the link and reports the earlier packet with a PRD; if   *)
(* not, the device ends the chain there with an FRD, and the thread, when  *)
(* it reads the FRD, finds the link and sends the rest in a new FD.        *)
(*                                                                         *)
(* A job of a stateful flow owns exactly one PD from nlm_flow_enqueue_     *)
(* search to its PRD or FRD, so Job stands for both.  The device is        *)
(* external: it is modelled from the descriptors the code gives it and the *)
(* results the code accepts, as bypass_hw does for performance tests.      *)
(***************************************************************************)
EXTENDS Integers, Sequences, FiniteSets

CONSTANTS
    Flow,           \* slots for stateful flows in the thread's memory pool
    Job,            \* slots for jobs, each with its PD
    None,           \* the null pointer, and PD index 0
    InputSize,      \* FDs of the input ring; it holds one less
    OutputSize,     \* RDs of the output ring; it holds one less
    Prefetch,       \* PDs of one chain the device holds at a time
    MaxBatch,       \* bound: jobs in one call of nlm_start_jobs
    MaxCombination, \* bound: per flow, changes of its set of groups
    ZeroLength,     \* packet_enqueue_policy & 1: zero-length packets allowed
    Watched         \* the jobs whose completion is checked: all are alike

ASSUME FlowAssumption ==
    /\ None \notin Job
    /\ None \notin Flow
    /\ InputSize \in Nat /\ InputSize > 1
    /\ OutputSize \in Nat /\ OutputSize > 1
    /\ Prefetch \in Nat /\ Prefetch > 0
    /\ MaxBatch \in Nat /\ MaxBatch > 0
    /\ MaxCombination \in [Flow -> Nat]
    /\ ZeroLength \in BOOLEAN
    /\ Watched \subseteq Job

VARIABLES
    flow,     \* struct nlm_flow, per slot
    job,      \* struct nlm_job and struct hw_pd_descriptor, per slot
    pending,  \* the list of flows with a chain to be sent (pending_flow_list)
    input,    \* FDs in the input ring, oldest first
    visible,  \* how many of them FDF_FIFO_WRT_PTR has told the device of
    engine,   \* per flow, the chain the device is working on
    output,   \* RDs in the output ring, oldest first
    pc,       \* where the thread is: "idle", "add", "link", "start", "results"
    todo,     \* the jobs nlm_start_jobs has still to add to their flows
    issued    \* history: per flow, the jobs started and not yet completed

vars == <<flow, job, pending, input, visible, engine, output, pc, todo, issued>>

-----------------------------------------------------------------------------
FlowRecord ==
    [type      : {"free", "stateful", "invalid"},
     groups    : Nat,                \* db_group_cnt
     comb      : Nat,                \* db_group_combination
     lastComb  : Nat,                \* last_db_group_combination
     offset    : Nat,                \* flow_offset, 1 standing for any other
     last      : Job \cup {None},    \* last_pd
     head      : Job \cup {None}]    \* pending_pd_head

JobRecord ==
    [state  : {"free", "created", "started", "orphan"},
     flow   : Flow \cup {None},
     comb   : Nat,                \* db_group_combination of the job
     groups : Nat,                \* fd.gid_cnt
     length : {0, 1},             \* packet_byte_count, 1 standing for any other
     nla    : Job \cup {None},    \* pd_nla_index
     disc   : BOOLEAN,            \* sw_disconnect
     term   : BOOLEAN]            \* flow_term

(* A zeroed struct nlm_flow. *)
ZeroFlow == [type |-> "free", groups |-> 0, comb |-> 0, lastComb |-> 0,
             offset |-> 0, last |-> None, head |-> None]

FreeJob == [state |-> "free", flow |-> None, comb |-> 0, groups |-> 0,
            length |-> 0, nla |-> None, disc |-> FALSE, term |-> FALSE]

Idle == [q |-> <<>>, next |-> None, comb |-> 0]

Init ==
    /\ flow = [f \in Flow |-> ZeroFlow]
    /\ job = [j \in Job |-> FreeJob]
    /\ pending = <<>>
    /\ input = <<>>
    /\ visible = 0
    /\ engine = [f \in Flow |-> Idle]
    /\ output = <<>>
    /\ pc = "idle"
    /\ todo = <<>>
    /\ issued = [f \in Flow |-> <<>>]

device == <<visible, engine, output>>

-----------------------------------------------------------------------------
(* Calls of the application that do not talk to the device.                *)

(* nlm_create_flow, with the flow taken from the free list or the pool. *)
CreateFlow(f) ==
    /\ pc = "idle"
    /\ flow[f].type = "free"
    /\ flow' = [flow EXCEPT ![f] = [ZeroFlow EXCEPT !.type = "stateful"]]
    /\ UNCHANGED <<job, pending, input, device, pc, todo, issued>>

(* nlm_flow_add_database_and_group with a pair that the flow lacks. *)
AddGroup(f) ==
    /\ pc = "idle"
    /\ flow[f].type = "stateful"
    /\ flow[f].comb < MaxCombination[f]
    /\ flow' = [flow EXCEPT ![f].groups = @ + 1, ![f].comb = @ + 1]
    /\ UNCHANGED <<job, pending, input, device, pc, todo, issued>>

(* nlm_flow_remove_database_and_group with a pair that the flow has. *)
RemoveGroup(f) ==
    /\ pc = "idle"
    /\ flow[f].type = "stateful"
    /\ flow[f].groups > 0
    /\ flow[f].comb < MaxCombination[f]
    /\ flow' = [flow EXCEPT ![f].groups = @ - 1, ![f].comb = @ + 1]
    /\ UNCHANGED <<job, pending, input, device, pc, todo, issued>>

(* nlm_device_set_param with NLM_FLOW_FORCE_ONE_FD: the next job is not to *)
(* be linked behind the flow's last one.                                   *)
ForceOneFd(f) ==
    /\ pc = "idle"
    /\ flow[f].type = "stateful"
    /\ flow' = [flow EXCEPT ![f].last = None]
    /\ UNCHANGED <<job, pending, input, device, pc, todo, issued>>

(* The job that nlm_flow_enqueue_search_1 fills in for flow f. *)
NewJob(f, comb, length) ==
    [FreeJob EXCEPT !.state = "created", !.flow = f, !.comb = comb,
                    !.groups = flow[f].groups, !.length = length]

(* The combination of a job enqueued now.  While packet_enqueue_policy & 2 *)
(* is set "every job is considered to be in the different group and        *)
(* started as a separate FD"; the application may set and clear it at any  *)
(* time.                                                                   *)
NextComb(f, separate) == IF separate THEN flow[f].comb + 1 ELSE flow[f].comb

Enqueueable(f, separate) ==
    /\ pc = "idle"
    /\ flow[f].type = "stateful"
    /\ flow[f].groups > 0
    /\ NextComb(f, separate) <= MaxCombination[f]

(* nlm_flow_enqueue_search of a packet of the given length. *)
EnqueueSearch(f, j, length, separate) ==
    /\ Enqueueable(f, separate)
    /\ length = 0 => ZeroLength
    /\ job[j].state = "free"
    /\ job' = [job EXCEPT ![j] = NewJob(f, NextComb(f, separate), length)]
    /\ flow' = [flow EXCEPT ![f].comb = NextComb(f, separate)]
    /\ UNCHANGED <<pending, input, device, pc, todo, issued>>

(* nlm_flow_enqueue_search of a packet that is too long, or not in packet  *)
(* memory: the call fails after it has taken a job, which it does not give *)
(* back.                                                                   *)
EnqueueFails(f, j, separate) ==
    /\ Enqueueable(f, separate)
    /\ job[j].state = "free"
    /\ job' = [job EXCEPT ![j].state = "orphan"]
    /\ flow' = [flow EXCEPT ![f].comb = NextComb(f, separate)]
    /\ UNCHANGED <<pending, input, device, pc, todo, issued>>

(* It fails without taking anything if there is no memory for a job or a   *)
(* PD; with packet_enqueue_policy & 2 the combination has changed.         *)
EnqueueRefused(f) ==
    /\ Enqueueable(f, TRUE)
    /\ flow' = [flow EXCEPT ![f].comb = @ + 1]
    /\ UNCHANGED <<job, pending, input, device, pc, todo, issued>>

(* nlm_cancel_job. *)
CancelJob(j) ==
    /\ pc = "idle"
    /\ job[j].state = "created"
    /\ job' = [job EXCEPT ![j] = FreeJob]
    /\ UNCHANGED <<flow, pending, input, device, pc, todo, issued>>

-----------------------------------------------------------------------------
(* nlm_start_jobs: check all jobs, then add them to their flows one by one.*)
Distinct(s) == \A i, k \in DOMAIN s : s[i] = s[k] => i = k

StartJobs(batch) ==
    /\ pc = "idle"
    /\ batch # <<>>
    /\ Distinct(batch)
    /\ \A i \in DOMAIN batch : job[batch[i]].state = "created"
    /\ pc' = "add"
    /\ todo' = batch
    /\ UNCHANGED <<flow, job, pending, input, device, issued>>

(* The flow's last PD stays what it was. *)
AddedWithoutLast(f, j) ==
    [flow EXCEPT ![f].lastComb = job[j].comb,
                 ![f].offset = IF job[j].length = 0 THEN @ ELSE 1]

(* The end of nlm_flow_add_job_to_list: job j is the flow's last one, and  *)
(* the caller marks its PD PD_VALID_AND_STARTED.                           *)
AddedToFlow(f, j) ==
    [flow EXCEPT ![f].last = j,
                 ![f].lastComb = job[j].comb,
                 ![f].offset = IF job[j].length = 0 THEN @ ELSE 1]

Issue(f, j) ==
    /\ issued' = [issued EXCEPT ![f] = Append(@, j)]
    /\ todo' = Tail(todo)
    /\ pc' = IF Len(todo) = 1 THEN "start" ELSE "add"

(* The flow has no PD to link to: its chain starts with this job.  If a    *)
(* chain is waiting already, the job is only remembered as the last one.   *)
AddFirst ==
    /\ pc = "add"
    /\ LET j == Head(todo)
           f == job[j].flow
           waiting == flow[f].head # None IN
       /\ flow[f].last = None
       /\ flow' = [AddedToFlow(f, j) EXCEPT ![f].head = IF waiting THEN @ ELSE j]
       /\ pending' = IF waiting THEN pending ELSE Append(pending, f)
       /\ job' = [job EXCEPT ![j].state = "started"]
       /\ Issue(f, j)
    /\ UNCHANGED <<input, device>>

(* The change of groups is not marked in the last PD. *)
DisconnectUnmarked ==
    /\ pc = "add"
    /\ LET j == Head(todo)
           f == job[j].flow IN
       /\ flow[f].last # None
       /\ job[j].comb # flow[f].lastComb
    /\ pc' = "link"
    /\ UNCHANGED <<flow, job, pending, input, device, todo, issued>>

(* The first of the two stores to the last PD, needed when the job has     *)
(* other groups than the one before.                                       *)
Disconnect ==
    /\ pc = "add"
    /\ LET j == Head(todo)
           f == job[j].flow IN
       /\ flow[f].last # None
       /\ job[j].comb # flow[f].lastComb
       /\ job' = [job EXCEPT ![flow[f].last].disc = TRUE]
    /\ pc' = "link"
    /\ UNCHANGED <<flow, pending, input, device, todo, issued>>

(* The second store: the device may have fetched the PD before, between or *)
(* after the two.                                                          *)
Link ==
    /\ LET j == Head(todo)
           f == job[j].flow IN
       /\ \/ pc = "link"
          \/ pc = "add" /\ flow[f].last # None /\ job[j].comb = flow[f].lastComb
       /\ job' = [job EXCEPT ![flow[f].last].nla = j, ![j].state = "started"]
       /\ flow' = AddedToFlow(f, j)
       /\ Issue(f, j)
    /\ UNCHANGED <<pending, input, device>>

-----------------------------------------------------------------------------
(* nlm_try_start_stateful_flows.                                           *)
InputFull == Len(input) = InputSize - 1

(* The FD that nlm_flow_start_pending_pd_chain writes for the chain that   *)
(* starts with job j.  The FD of an end-of-flow job carries a zero-length  *)
(* packet without a PRD and links to the PD of the same job; without       *)
(* groups it only reinitialises the flow.                                  *)
FdOf(j) ==
    LET reinit     == job[j].term /\ job[j].groups = 0
        zeroLength == job[j].term /\ job[j].groups # 0 IN
    [flow |-> job[j].flow,
     job  |-> j,
     comb |-> job[j].comb,
     nla  |-> IF reinit THEN None ELSE IF zeroLength THEN j ELSE job[j].nla,
     disc |-> ~reinit /\ job[j].disc,
     prd  |-> ~zeroLength]

(* The flow leaves the list and still has a chain to be sent. *)
StartChainKeepsHead ==
    /\ pc = "start"
    /\ pending # <<>>
    /\ ~InputFull
    /\ input' = Append(input, FdOf(flow[Head(pending)].head))
    /\ pending' = Tail(pending)
    /\ UNCHANGED <<flow, job, device, pc, todo, issued>>

(* nlm_flow_start_pending_pd_chain for the flow at the head of the list. *)
StartChain ==
    /\ pc = "start"
    /\ pending # <<>>
    /\ ~InputFull
    /\ LET f == Head(pending) IN
       /\ input' = Append(input, FdOf(flow[f].head))
       /\ flow' = [flow EXCEPT ![f].head = None]
    /\ pending' = Tail(pending)
    /\ UNCHANGED <<job, device, pc, todo, issued>>

(* The loop ends; nlm_device_update_input_wrt_ptr shows the new FDs.       *)
FinishStart ==
    /\ pc = "start"
    /\ pending = <<>> \/ InputFull
    /\ visible' = Len(input)
    /\ pc' = "idle"
    /\ UNCHANGED <<flow, job, pending, input, engine, output, todo, issued>>

-----------------------------------------------------------------------------
(* nlm_destroy_stateful_flow.  A job that was created and not started when *)
(* its flow is destroyed can neither be started nor cancelled any more     *)
(* (NLM_INVALID_FLOW), and its handle is useless once the flow's memory is *)
(* reused: its slot is lost.                                               *)
Orphaned(f) ==
    [j \in Job |-> IF job[j].state = "created" /\ job[j].flow = f
                   THEN [FreeJob EXCEPT !.state = "orphan"]
                   ELSE job[j]]

(* A flow is freed at once, used or not. *)
DestroyAtOnce(f) ==
    /\ pc = "idle"
    /\ flow[f].type = "stateful"
    /\ flow' = [flow EXCEPT ![f].type = "free"]
    /\ job' = Orphaned(f)
    /\ UNCHANGED <<pending, input, device, pc, todo, issued>>

DestroyUnused(f) ==
    /\ pc = "idle"
    /\ flow[f].type = "stateful"
    /\ flow[f].offset = 0 \/ flow[f].comb = 0
    /\ flow' = [flow EXCEPT ![f].type = "free"]
    /\ job' = Orphaned(f)
    /\ UNCHANGED <<pending, input, device, pc, todo, issued>>

(* The end-of-flow job has groups of its own, so that it is not scanned in *)
(* the chain before it.                                                    *)
DestroyUsed(f, j) ==
    /\ pc = "idle"
    /\ flow[f].type = "stateful"
    /\ flow[f].offset # 0 /\ flow[f].comb # 0
    /\ job[j].state = "free"
    /\ flow' = [flow EXCEPT ![f].type = "invalid", ![f].comb = @ + 1]
    /\ job' = [Orphaned(f) EXCEPT ![j] = [NewJob(f, flow[f].comb + 1, 0) EXCEPT !.term = TRUE]]
    /\ pc' = "add"
    /\ todo' = <<j>>
    /\ UNCHANGED <<pending, input, device, issued>>

(* There is no memory for the end-of-flow job or for its PD (the flows'    *)
(* PDFs take from the same memory): the call fails after it has marked the *)
(* flow invalid.                                                           *)
DestroyFails(f) ==
    /\ pc = "idle"
    /\ flow[f].type = "stateful"
    /\ flow[f].offset # 0 /\ flow[f].comb # 0
    /\ flow' = [flow EXCEPT ![f].type = "invalid", ![f].comb = @ + 1]
    /\ job' = Orphaned(f)
    /\ UNCHANGED <<pending, input, device, pc, todo, issued>>

-----------------------------------------------------------------------------
(* nlm_get_all_search_results.                                             *)

(* An FRD is taken to mean that nothing was linked behind the job. *)
NoticeEndOnly(f, j) ==
    \/ /\ flow[f].last = j
       /\ flow' = [flow EXCEPT ![f].last = None]
       /\ UNCHANGED pending
    \/ /\ flow[f].last # j
       /\ UNCHANGED <<flow, pending>>

(* nlm_flow_notice_job_completion, for the FRD of job j. *)
NoticeCompletion(f, j) ==
    \/ /\ flow[f].last = j
       /\ flow' = [flow EXCEPT ![f].last = None]
       /\ UNCHANGED pending
    \/ /\ flow[f].last # j
       /\ job[j].nla = None
       /\ UNCHANGED <<flow, pending>>
    \/ /\ flow[f].last # j
       /\ job[j].nla # None
       /\ flow' = [flow EXCEPT ![f].head = job[j].nla]
       /\ pending' = Append(pending, f)

(* populate_results for the oldest RD. *)
ProcessRd ==
    /\ pc \in {"idle", "results"}
    /\ output # <<>>
    /\ LET j == Head(output).job
           f == job[j].flow IN
       /\ \/ /\ job[j].term
             /\ flow' = [flow EXCEPT ![f].type = "free"]
             /\ UNCHANGED pending
          \/ /\ ~job[j].term /\ Head(output).final
             /\ NoticeCompletion(f, j)
          \/ /\ ~job[j].term /\ ~Head(output).final
             /\ UNCHANGED <<flow, pending>>
       /\ job' = [job EXCEPT ![j] = FreeJob]
       /\ issued' = [issued EXCEPT ![f] = IF @ # <<>> /\ Head(@) = j THEN Tail(@) ELSE @]
    /\ output' = Tail(output)
    /\ pc' = "results"
    /\ UNCHANGED <<input, visible, engine, todo>>

(* The user's buffer is full or the ring is empty; pending flows are tried.*)
FinishResults ==
    /\ pc = "results"
    /\ pc' = IF pending # <<>> THEN "start" ELSE "idle"
    /\ UNCHANGED <<flow, job, pending, input, device, todo, issued>>

(* A call that finds no results only tries the pending flows. *)
PollEmpty ==
    /\ pc = "idle"
    /\ output = <<>>
    /\ pending # <<>>
    /\ pc' = "start"
    /\ UNCHANGED <<flow, job, pending, input, device, todo, issued>>

-----------------------------------------------------------------------------
(* The device.  A descriptor it has fetched is the job and whether another *)
(* descriptor follows it in the chain; the link is decided when the        *)
(* descriptor is fetched.                                                  *)
software == <<flow, job, pending, pc, todo, issued>>

Follows(desc) == IF desc.disc THEN None ELSE desc.nla

(* Take the next FD of the ring, unless the flow is busy. *)
FetchFd ==
    /\ visible > 0
    /\ LET fd == Head(input)
           f  == fd.flow IN
       /\ engine[f] = Idle
       /\ engine' = [engine EXCEPT ![f] =
             [q    |-> <<[job |-> fd.job, prd |-> fd.prd, chained |-> Follows(fd) # None]>>,
              next |-> Follows(fd),
              comb |-> fd.comb]]
    /\ input' = Tail(input)
    /\ visible' = visible - 1
    /\ UNCHANGED <<output, software>>

(* Follow the link to a PD in system memory. *)
FetchPd(f) ==
    /\ engine[f].next # None
    /\ Len(engine[f].q) < Prefetch
    /\ LET j == engine[f].next IN
       engine' = [engine EXCEPT
          ![f].q = Append(@, [job |-> j, prd |-> TRUE, chained |-> Follows(job[j]) # None]),
          ![f].next = Follows(job[j])]
    /\ UNCHANGED <<input, visible, output, software>>

(* The chain that is left when the device drops its first descriptor. *)
Advance(e) == IF Len(e.q) = 1 /\ e.next = None THEN Idle ELSE [e EXCEPT !.q = Tail(@)]

(* Finish a packet: a PRD if another one follows, an FRD if not. *)
ReportPacket(f) ==
    /\ engine[f].q # <<>>
    /\ LET d == Head(engine[f].q) IN
       \/ /\ d.prd
          /\ Len(output) < OutputSize - 1
          /\ output' = Append(output, [job |-> d.job, final |-> ~d.chained])
       \/ /\ ~d.prd
          /\ UNCHANGED output
    /\ engine' = [engine EXCEPT ![f] = Advance(@)]
    /\ UNCHANGED <<input, visible, software>>

(* Give up on a chain (an error code in the FRD): the packets behind it    *)
(* are left to the software.                                               *)
AbortChain(f) ==
    /\ engine[f].q # <<>>
    /\ Head(engine[f].q).chained
    /\ Len(output) < OutputSize - 1
    /\ output' = Append(output, [job |-> Head(engine[f].q).job, final |-> TRUE])
    /\ engine' = [engine EXCEPT ![f] = Idle]
    /\ UNCHANGED <<input, visible, software>>

Device == FetchFd \/ \E f \in Flow : FetchPd(f) \/ ReportPacket(f) \/ AbortChain(f)

-----------------------------------------------------------------------------
Batches == UNION {[1 .. n -> Job] : n \in 1 .. MaxBatch}

Application ==
    \/ \E f \in Flow : CreateFlow(f) \/ AddGroup(f) \/ RemoveGroup(f) \/ EnqueueRefused(f)
    \/ \E f \in Flow, j \in Job, n \in {0, 1}, separate \in BOOLEAN :
          EnqueueSearch(f, j, n, separate)
    \/ \E f \in Flow, j \in Job, separate \in BOOLEAN : EnqueueFails(f, j, separate)
    \/ \E j \in Job : CancelJob(j)
    \/ \E batch \in Batches : StartJobs(batch)
    \/ \E f \in Flow : DestroyUnused(f) \/ DestroyFails(f)
    \/ \E f \in Flow, j \in Job : DestroyUsed(f, j)

(* A call of the library that was entered runs to its end. *)
Library == AddFirst \/ Disconnect \/ Link \/ StartChain \/ FinishStart \/ FinishResults

(* nlm_get_all_search_results is entered, or goes on. *)
Poll == ProcessRd \/ PollEmpty

Next == Application \/ Library \/ Poll \/ Device

(* Calls return, the application keeps polling for results and the device  *)
(* keeps working; nothing makes the application start or destroy anything. *)
Fairness ==
    /\ WF_vars(Library)
    /\ SF_vars(Poll)
    /\ WF_vars(FetchFd)
    /\ \A f \in Flow : SF_vars(FetchPd(f) \/ ReportPacket(f))

Spec == Init /\ [][Next]_vars /\ Fairness

(* The same with an application that uses NLM_FLOW_FORCE_ONE_FD. *)
ForcedSpec == Init /\ [][Next \/ \E f \in Flow : ForceOneFd(f)]_vars /\ Fairness

-----------------------------------------------------------------------------
FdRecord ==
    [flow : Flow, job : Job, comb : Nat, nla : Job \cup {None}, disc : BOOLEAN, prd : BOOLEAN]

Fetched == [job : Job, prd : BOOLEAN, chained : BOOLEAN]

EngineRecord == [q : Seq(Fetched), next : Job \cup {None}, comb : Nat]

TypeOK ==
    /\ flow \in [Flow -> FlowRecord]
    /\ job \in [Job -> JobRecord]
    /\ pending \in Seq(Flow)
    /\ input \in Seq(FdRecord) /\ Len(input) < InputSize
    /\ visible \in 0 .. Len(input)
    /\ engine \in [Flow -> EngineRecord]
    /\ output \in Seq([job : Job, final : BOOLEAN]) /\ Len(output) < OutputSize
    /\ pc \in {"idle", "add", "link", "start", "results"}
    /\ todo \in Seq(Job)
    /\ issued \in [Flow -> Seq(Job)]

(* The places in which a flow's one chain can be: waiting for a slot of    *)
(* the input ring, in it, in the device, or ended with an FRD the thread   *)
(* has not read yet.                                                       *)
Places(f) ==
    {<<"waiting", flow[f].head>> : x \in {flow[f].head} \ {None}}
      \cup {<<"input", i>> : i \in {i \in DOMAIN input : input[i].flow = f}}
      \cup {<<"device", f>> : e \in {engine[f]} \ {Idle}}
      \cup {<<"output", i>> : i \in {i \in DOMAIN output :
                                       output[i].final /\ job[output[i].job].flow = f}}

(* A flow with unfinished jobs is in exactly one of these places, and a    *)
(* flow without is in none: the device never has two chains of one flow,   *)
(* and no started job is ever left behind with nobody to send it.  (The    *)
(* assertion in nlm_flow_notice_job_completion that no chain is waiting is *)
(* a consequence.)                                                         *)
OneChainPerFlow ==
    \A f \in Flow :
        Cardinality(Places(f)) = IF issued[f] = <<>> THEN 0 ELSE 1

(* The RDs of flow f in the output ring are those of its r oldest jobs, in *)
(* their order, each once.                                                 *)
ReportedFirst(f, r) ==
    /\ \A i \in DOMAIN issued[f] :
          (\E p \in DOMAIN output : output[p].job = issued[f][i]) <=> i <= r
    /\ \A p \in DOMAIN output : job[output[p].job].flow = f =>
          \E i \in DOMAIN issued[f] : output[p].job = issued[f][i]
    /\ \A p, q \in DOMAIN output, i, k \in DOMAIN issued[f] :
          output[p].job = issued[f][i] /\ output[q].job = issued[f][k] => (p < q <=> i < k)

(* The device goes on with the jobs behind the first r.  Only the first    *)
(* descriptor of a chain may be one that is not reported.                  *)
HeldNext(f, r) ==
    LET e    == engine[f]
        lead == IF e.q # <<>> /\ ~Head(e.q).prd THEN 1 ELSE 0
        held == r + Len(e.q) - lead IN
    /\ held <= Len(issued[f])
    /\ \A i \in DOMAIN e.q : i > lead => e.q[i].prd /\ e.q[i].job = issued[f][r + i - lead]
    /\ e.next # None => held < Len(issued[f]) /\ e.next = issued[f][held + 1]

(* Jobs of a flow are scanned, and reported to the application, in the     *)
(* order in which they were started, whether they were linked in time or   *)
(* sent again.                                                             *)
FlowOrder ==
    \A f \in Flow :
        /\ \E r \in 0 .. Len(issued[f]) : ReportedFirst(f, r) /\ HeldNext(f, r)
        /\ \A i \in DOMAIN input : input[i].flow = f =>
              issued[f] # <<>> /\ input[i].job = Head(issued[f])

(* Every packet the device scans in one chain was enqueued with the groups *)
(* of the chain's FD: sw_disconnect is seen in time even if the device     *)
(* fetches between the two stores to the PD.  A job enqueued while         *)
(* packet_enqueue_policy & 2 was set has a combination of its own, so it   *)
(* never continues the chain of an earlier job.                            *)
SameGroups ==
    \A f \in Flow :
        /\ \A i \in DOMAIN engine[f].q : job[engine[f].q[i].job].comb = engine[f].comb
        /\ engine[f].next # None => job[engine[f].next].comb = engine[f].comb

(* Neither the device nor a ring refers to a PD or job that has gone back  *)
(* to a free list, and a flow is not freed while it has jobs.              *)
NothingFreedInUse ==
    LET used == {input[i].job : i \in DOMAIN input}
                  \cup {output[i].job : i \in DOMAIN output}
                  \cup (UNION {{engine[f].q[i].job : i \in DOMAIN engine[f].q} : f \in Flow})
                  \cup {engine[f].next : f \in Flow}
    IN  /\ \A j \in used \ {None} : job[j].state = "started"
        /\ \A j \in Job : job[j].state = "started" => flow[job[j].flow].type # "free"

(* The list of pending flows holds each flow with a waiting chain once.    *)
PendingListExact ==
    /\ TypeOK
    /\ Distinct(pending)
    /\ \A f \in Flow : (\E i \in DOMAIN pending : pending[i] = f) <=> flow[f].head # None

(* Every job that was started is completed, and its slot is free again. *)
JobsComplete ==
    \A j \in Watched : (job[j].state = "started") ~> (job[j].state = "free")

(* What NLM_FLOW_FORCE_ONE_FD promises, an FD for the next start_jobs():   *)
(* no job is started without a descriptor that leads the device to it, its *)
(* own FD or a link from the job before.                                   *)
LedTo(j) ==
    \/ \E f \in Flow : j \in {flow[f].head, engine[f].next}
                        \/ \E i \in DOMAIN engine[f].q : engine[f].q[i].job = j
    \/ \E i \in DOMAIN input : input[i].job = j
    \/ \E i \in DOMAIN output : output[i].job = j
    \/ \E k \in Job : job[k].nla = j

FdForNextJob == \A j \in Job : job[j].state = "started" => LedTo(j)

(* What nlm_destroy_stateful_flow assumes when it frees a flow at once: no *)
(* job was ever sent on it.                                                *)
FreedFlowUnused ==
    \A f \in Flow : flow[f].type = "free" => issued[f] = <<>>
=============================================================================
