----------------------------- MODULE MemoryPool -----------------------------
(***************************************************************************)
(* The memory a thread takes its flows, jobs, packet descriptors (PDs) and *)
(* flow contexts (PDFs) from.  The user's memory pool and the system       *)
(* memory of a ring are divided among the threads; in its share of the     *)
(* pool a thread places flows from the bottom and jobs from the top, in    *)
(* its share of system memory PDs from the bottom and PDFs from the top.   *)
(* What is given back goes to a free list per kind of object.              *)
(*                                                                         *)
(* Addresses of the pool are words of 8 bytes from its base; addresses of  *)
(* system memory are bytes from pd_base, which is aligned to a PDF.  A     *)
(* free list is a set: which of its entries is taken first is left open.   *)
(***************************************************************************)
EXTENDS Integers

CONSTANTS
    MaxThreads,   \* config->max_threads
    PoolSize,     \* words of the memory pool
    Reserved,     \* words kept for the handle of a manager thread, or 0
    HandleSize,   \* sizeof (nlm_device_t) in words
    FlowSize,     \* sizeof (struct nlm_flow) in words
    JobSize,      \* sizeof (struct nlm_job) in words
    ChunkSize,    \* phy_device->chunksize
    DdrChunkSize, \* phy_device->ddr_chunksize
    PdSize,       \* sizeof (struct hw_pd_descriptor), 16
    PdfSize,      \* sizeof (struct hw_pdf_descriptor), 128
    PdLimit       \* 2^24: PDs a descriptor can name

Thread == 0 .. MaxThreads - 1

ShareSize == (PoolSize - Reserved) \div MaxThreads

(* A share has room for the handle, which the code does not check.         *)
(* physical_device_init refuses less than 32 PDs, 4 PDFs, per thread.      *)
ASSUME PoolAssumption ==
    /\ MaxThreads \in Nat \ {0}
    /\ PoolSize \in Nat /\ Reserved \in 0 .. PoolSize
    /\ HandleSize \in Nat /\ HandleSize <= ShareSize
    /\ FlowSize \in Nat \ {0} /\ JobSize \in Nat \ {0}
    /\ PdSize \in Nat \ {0} /\ PdfSize \in Nat /\ PdSize <= PdfSize
    /\ ChunkSize \in Nat /\ 4 * PdfSize <= ChunkSize
    /\ DdrChunkSize \in Nat
    /\ PdLimit \in Nat

VARIABLES
    useDdr,    \* phy_device->use_ddr_memory
    attached,  \* the threads that have a handle
    flowTop,   \* per thread, first_free_flow
    jobBottom, \* first_free_job
    pdTop,     \* first_free_pd
    pdfBottom, \* first_free_pdf
    ddrNext,   \* current_pdf_index
    flows, freeFlows,  \* flows in use, and on one of the two free lists
    jobs, freeJobs,
    pds, freePds

bounds == <<flowTop, jobBottom, pdTop, pdfBottom, ddrNext>>
vars == <<useDdr, attached, bounds, flows, freeFlows, jobs, freeJobs, pds, freePds>>

-----------------------------------------------------------------------------
(* The shares of the threads. *)
PoolStart(t) == Reserved + ShareSize * t
PoolEnd(t) == PoolStart(t) + ShareSize

RoundUp(a) == ((a + PdfSize - 1) \div PdfSize) * PdfSize
RoundDown(a) == (a \div PdfSize) * PdfSize

(* Index 0 names no PD: the first thread leaves it out. *)
PdStart(t) ==
    LET start == RoundUp(ChunkSize * t) IN IF start = 0 THEN PdSize ELSE start
PdEnd(t) == RoundDown(ChunkSize * t + ChunkSize)

DdrStart(t) ==
    LET start == (DdrChunkSize * t) \div PdfSize IN IF DdrChunkSize * t = 0 THEN start + 1 ELSE start
DdrEnd(t) == (DdrChunkSize * t + DdrChunkSize) \div PdfSize - 1

Init ==
    /\ useDdr \in BOOLEAN
    /\ attached = {}
    /\ flowTop = [t \in Thread |-> 0] /\ jobBottom = flowTop
    /\ pdTop = flowTop /\ pdfBottom = flowTop /\ ddrNext = flowTop
    /\ flows = [t \in Thread |-> {}] /\ freeFlows = flows
    /\ jobs = flows /\ freeJobs = flows
    /\ pds = flows /\ freePds = flows

(* device_attach: an empty share.  What the thread had before it detached  *)
(* is gone.                                                                *)
Attach(t) ==
    /\ t \notin attached
    /\ attached' = attached \cup {t}
    /\ flowTop' = [flowTop EXCEPT ![t] = PoolStart(t) + HandleSize]
    /\ jobBottom' = [jobBottom EXCEPT ![t] = PoolEnd(t) - JobSize]
    /\ pdTop' = [pdTop EXCEPT ![t] = PdStart(t)]
    /\ pdfBottom' = [pdfBottom EXCEPT ![t] = PdEnd(t) - PdfSize]
    /\ ddrNext' = [ddrNext EXCEPT ![t] = DdrStart(t)]
    /\ flows' = [flows EXCEPT ![t] = {}] /\ freeFlows' = [freeFlows EXCEPT ![t] = {}]
    /\ jobs' = [jobs EXCEPT ![t] = {}] /\ freeJobs' = [freeJobs EXCEPT ![t] = {}]
    /\ pds' = [pds EXCEPT ![t] = {}] /\ freePds' = [freePds EXCEPT ![t] = {}]
    /\ UNCHANGED useDdr

(* nlm_device_detach: the share is left as it is. *)
Detach(t) ==
    /\ t \in attached
    /\ attached' = attached \ {t}
    /\ UNCHANGED <<useDdr, bounds, flows, freeFlows, jobs, freeJobs, pds, freePds>>

-----------------------------------------------------------------------------
(* Flows.  A stateful flow keeps its PDF on the free list. *)
NoPdf == 0
Flow(a, kind, pdf) == [addr |-> a, kind |-> kind, pdf |-> pdf]

(* The flow at the head of the list of its kind. *)
ReuseFlow(t, kind) ==
    /\ \E f \in freeFlows[t] :
          /\ f.kind = kind
          /\ freeFlows' = [freeFlows EXCEPT ![t] = @ \ {f}]
          /\ flows' = [flows EXCEPT ![t] = @ \cup {f}]
    /\ UNCHANGED <<bounds>>

(* The pool has no end. *)
RoomForFlowAlways(t, kind) == \A f \in freeFlows[t] : f.kind # kind

(* The free list of the kind is empty and the flow ends below the jobs. *)
RoomForFlow(t, kind) ==
    /\ \A f \in freeFlows[t] : f.kind # kind
    /\ flowTop[t] + FlowSize < jobBottom[t]


(* memory_pool_alloc_flow, a flow that was never used *)
CarveFlow(t, kind, pdf) ==
    /\ RoomForFlow(t, kind)
    /\ flowTop' = [flowTop EXCEPT ![t] = @ + FlowSize]
    /\ flows' = [flows EXCEPT ![t] = @ \cup {Flow(flowTop[t], kind, pdf)}]
    /\ UNCHANGED <<jobBottom, pdTop, freeFlows>>

CreateStateless(t) ==
    /\ t \in attached
    /\ \/ ReuseFlow(t, "stateless")
       \/ CarveFlow(t, "stateless", NoPdf) /\ UNCHANGED <<pdfBottom, ddrNext>>
    /\ UNCHANGED <<useDdr, attached, jobs, freeJobs, pds, freePds>>

(* sysmem_alloc_pdf *)
PdfAvailable(t) ==
    IF useDdr THEN ddrNext[t] < DdrEnd(t) ELSE pdfBottom[t] - PdfSize > pdTop[t]

AllocPdf(t) ==
    IF useDdr
    THEN ddrNext' = [ddrNext EXCEPT ![t] = @ + 1] /\ UNCHANGED pdfBottom
    ELSE pdfBottom' = [pdfBottom EXCEPT ![t] = @ - PdfSize] /\ UNCHANGED ddrNext

NextPdf(t) == IF useDdr THEN ddrNext[t] ELSE pdfBottom[t]

CreateStateful(t) ==
    /\ t \in attached
    /\ \/ ReuseFlow(t, "stateful")
       \/ PdfAvailable(t) /\ CarveFlow(t, "stateful", NextPdf(t)) /\ AllocPdf(t)
    /\ UNCHANGED <<useDdr, attached, jobs, freeJobs, pds, freePds>>

(* A stateful flow that was never used, without memory for its PDF:        *)
(* nlm_create_flow returns an error, and the flow's memory is not used     *)
(* again.                                                                  *)
CreateLosesFlow(t) ==
    /\ t \in attached
    /\ RoomForFlow(t, "stateful") /\ ~PdfAvailable(t)
    /\ flowTop' = [flowTop EXCEPT ![t] = @ + FlowSize]
    /\ UNCHANGED <<useDdr, attached, jobBottom, pdTop, pdfBottom, ddrNext, flows, freeFlows>>
    /\ UNCHANGED <<jobs, freeJobs, pds, freePds>>

(* The flow loses its PDF on the way to the list. *)
FreeFlowWithoutPdf(t, f) ==
    /\ f \in flows[t]
    /\ flows' = [flows EXCEPT ![t] = @ \ {f}]
    /\ freeFlows' = [freeFlows EXCEPT ![t] = @ \cup {[f EXCEPT !.pdf = NoPdf]}]
    /\ UNCHANGED <<useDdr, attached, bounds, jobs, freeJobs, pds, freePds>>

(* memory_pool_free_flow *)
FreeFlow(t, f) ==
    /\ f \in flows[t]
    /\ flows' = [flows EXCEPT ![t] = @ \ {f}]
    /\ freeFlows' = [freeFlows EXCEPT ![t] = @ \cup {f}]
    /\ UNCHANGED <<useDdr, attached, bounds, jobs, freeJobs, pds, freePds>>

-----------------------------------------------------------------------------
(* Jobs: memory_pool_alloc_job, memory_pool_free_job. *)
AllocJob(t) ==
    /\ t \in attached
    /\ \/ /\ \E j \in freeJobs[t] :
                /\ freeJobs' = [freeJobs EXCEPT ![t] = @ \ {j}]
                /\ jobs' = [jobs EXCEPT ![t] = @ \cup {j}]
          /\ UNCHANGED jobBottom
       \/ /\ freeJobs[t] = {}
          /\ jobBottom[t] - JobSize > flowTop[t]
          /\ jobBottom' = [jobBottom EXCEPT ![t] = @ - JobSize]
          /\ jobs' = [jobs EXCEPT ![t] = @ \cup {jobBottom[t]}]
          /\ UNCHANGED freeJobs
    /\ UNCHANGED <<useDdr, attached, flowTop, pdTop, pdfBottom, ddrNext, flows, freeFlows, pds, freePds>>

FreeJob(t, j) ==
    /\ j \in jobs[t]
    /\ jobs' = [jobs EXCEPT ![t] = @ \ {j}]
    /\ freeJobs' = [freeJobs EXCEPT ![t] = @ \cup {j}]
    /\ UNCHANGED <<useDdr, attached, bounds, flows, freeFlows, pds, freePds>>

(* PDs: sysmem_alloc_pd, sysmem_free_pd.  A PD whose index has more than   *)
(* 24 bits is passed over and lost.                                        *)
AllocPd(t) ==
    /\ t \in attached
    /\ \/ /\ \E p \in freePds[t] :
                /\ freePds' = [freePds EXCEPT ![t] = @ \ {p}]
                /\ pds' = [pds EXCEPT ![t] = @ \cup {p}]
          /\ UNCHANGED pdTop
       \/ /\ freePds[t] = {}
          /\ pdTop[t] + PdSize <= pdfBottom[t]
          /\ pdTop' = [pdTop EXCEPT ![t] = @ + PdSize]
          /\ pds' = IF pdTop[t] < PdLimit * PdSize
                    THEN [pds EXCEPT ![t] = @ \cup {pdTop[t]}] ELSE pds
          /\ UNCHANGED freePds
    /\ UNCHANGED <<useDdr, attached, flowTop, jobBottom, pdfBottom, ddrNext, flows, freeFlows, jobs, freeJobs>>

FreePd(t, p) ==
    /\ p \in pds[t]
    /\ pds' = [pds EXCEPT ![t] = @ \ {p}]
    /\ freePds' = [freePds EXCEPT ![t] = @ \cup {p}]
    /\ UNCHANGED <<useDdr, attached, bounds, flows, freeFlows, jobs, freeJobs>>

Next ==
    \E t \in Thread :
        \/ Attach(t) \/ Detach(t)
        \/ CreateStateless(t) \/ CreateStateful(t) \/ CreateLosesFlow(t)
        \/ \E f \in flows[t] : FreeFlow(t, f)
        \/ AllocJob(t) \/ \E j \in jobs[t] : FreeJob(t, j)
        \/ AllocPd(t) \/ \E p \in pds[t] : FreePd(t, p)

Spec == Init /\ [][Next]_vars

-----------------------------------------------------------------------------
FlowType == [addr : Int, kind : {"stateless", "stateful"}, pdf : Int]

(* The pointers of a thread that is attached lie within its share, and the *)
(* two ends do not cross.                                                  *)
BoundsOK ==
    \A t \in attached :
        /\ flowTop[t] \in PoolStart(t) + HandleSize .. PoolEnd(t)
        /\ jobBottom[t] + JobSize <= PoolEnd(t)
        /\ PdStart(t) <= pdTop[t] /\ pdTop[t] <= pdfBottom[t]
        /\ pdfBottom[t] + PdfSize <= PdEnd(t)

TypeOK ==
    /\ useDdr \in BOOLEAN
    /\ attached \subseteq Thread
    /\ flowTop \in [Thread -> Int] /\ jobBottom \in [Thread -> Int]
    /\ pdTop \in [Thread -> Int] /\ pdfBottom \in [Thread -> Int] /\ ddrNext \in [Thread -> Int]
    /\ flows \in [Thread -> SUBSET FlowType] /\ freeFlows \in [Thread -> SUBSET FlowType]
    /\ jobs \in [Thread -> SUBSET Int] /\ freeJobs \in [Thread -> SUBSET Int]
    /\ pds \in [Thread -> SUBSET Int] /\ freePds \in [Thread -> SUBSET Int]
    /\ BoundsOK

Apart(a, sizeA, b, sizeB) == a + sizeA <= b \/ b + sizeB <= a

(* However flows and jobs of the threads are created, given back and       *)
(* reused, and threads attach and detach: no two objects in use share      *)
(* memory of the pool, nor does one with a slot on a free list (whose      *)
(* first word is the link), nor with the handle of a thread                *)
(* (memory_pool_alloc_flow, memory_pool_alloc_job, device_attach).         *)
NoOverlapInPool ==
    \A t, u \in Thread :
        /\ \A f \in flows[t] :
              /\ \A g \in flows[u] : (t = u /\ f = g) \/ Apart(f.addr, FlowSize, g.addr, FlowSize)
              /\ \A g \in freeFlows[u] : Apart(f.addr, FlowSize, g.addr, FlowSize)
              /\ \A j \in jobs[u] \cup freeJobs[u] : Apart(f.addr, FlowSize, j, JobSize)
              /\ Apart(f.addr, FlowSize, PoolStart(u), HandleSize)
        /\ \A j \in jobs[t] :
              /\ \A k \in jobs[u] : (t = u /\ j = k) \/ Apart(j, JobSize, k, JobSize)
              /\ \A k \in freeJobs[u] : Apart(j, JobSize, k, JobSize)
              /\ \A g \in freeFlows[u] : Apart(j, JobSize, g.addr, FlowSize)
              /\ Apart(j, JobSize, PoolStart(u), HandleSize)

Contexts(t) == {f \in flows[t] \cup freeFlows[t] : f.kind = "stateful"}

(* No two PDs share system memory, and none shares it with the PDF of a    *)
(* flow: the device writes flow contexts while threads fill descriptors    *)
(* (sysmem_alloc_pd, sysmem_alloc_pdf).  PD 0 is never handed out, nor one *)
(* whose index does not fit.                                               *)
NoOverlapInSysmem ==
    \A t, u \in Thread : \A p \in pds[t] :
        /\ p > 0 /\ p < PdLimit * PdSize
        /\ \A q \in pds[u] : (t = u /\ p = q) \/ Apart(p, PdSize, q, PdSize)
        /\ \A q \in freePds[u] : Apart(p, PdSize, q, PdSize)
        /\ ~useDdr => \A f \in Contexts(u) : Apart(p, PdSize, f.pdf, PdfSize)

(* No two objects, in the pools or in system memory, share memory.         *)
NoOverlap == TypeOK /\ NoOverlapInPool /\ NoOverlapInSysmem

(* Every stateful flow, in use or on the free list, has a PDF of its own:  *)
(* no two flows of any threads share their context, in system memory or in *)
(* DDR, and the assertion on a reused flow's pdf_index holds.              *)
ContextsApart ==
    \A t, u \in Thread : \A f \in Contexts(t), g \in Contexts(u) :
        /\ f.pdf > 0
        /\ \/ t = u /\ f = g
           \/ f.pdf # g.pdf /\ (~useDdr => Apart(f.pdf, PdfSize, g.pdf, PdfSize))
=============================================================================
