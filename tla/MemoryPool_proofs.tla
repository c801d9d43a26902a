-------------------------- MODULE MemoryPool_proofs --------------------------
(***************************************************************************)
(* Proofs about the memory of flows, jobs, PDs and PDFs, for any number of *)
(* threads and any sizes of the shares and of the objects in them.         *)
(***************************************************************************)
EXTENDS MemoryPool, TLAPS

-----------------------------------------------------------------------------
(* Multiples of the shares and roundings. *)

LEMMA MultipleGap ==
  ASSUME NEW n \in Nat, NEW p \in Int, NEW q \in Int, p < q
  PROVE  n * p + n <= n * q
<1>1. PICK d \in Nat : q = p + 1 + d
  <2>1. q - p - 1 \in Nat
    OBVIOUS
  <2> QED
    BY <2>1
<1>2. n * q = n * p + n + n * d
  BY <1>1
<1>3. n * d >= 0
  OBVIOUS
<1> QED
  BY <1>2, <1>3

LEMMA QuotientBounds ==
  ASSUME NEW n \in Nat \ {0}, NEW a \in Int
  PROVE  /\ a \div n \in Int
         /\ n * (a \div n) <= a
         /\ a < n * (a \div n) + n
OBVIOUS

(* A smaller number does not have a larger quotient. *)
LEMMA QuotientMonotone ==
  ASSUME NEW n \in Nat \ {0}, NEW a \in Int, NEW b \in Int, a <= b
  PROVE  a \div n <= b \div n
<1>1. /\ a \div n \in Int /\ n * (a \div n) <= a
      /\ b \div n \in Int /\ b < n * (b \div n) + n
  BY QuotientBounds
<1>2. SUFFICES ASSUME b \div n < a \div n PROVE FALSE
  BY <1>1
<1>3. n * (b \div n) + n <= n * (a \div n)
  BY <1>1, <1>2, MultipleGap
<1> QED
  BY <1>1, <1>3

(* What the assumption says of the sizes. *)
LEMMA Sizes ==
  /\ MaxThreads \in Nat \ {0} /\ Reserved \in Nat /\ HandleSize \in Nat
  /\ ShareSize \in Nat /\ HandleSize <= ShareSize
  /\ FlowSize \in Nat \ {0} /\ JobSize \in Nat \ {0}
  /\ PdSize \in Nat \ {0} /\ PdfSize \in Nat \ {0}
  /\ ChunkSize \in Nat /\ 4 * PdfSize <= ChunkSize /\ PdSize <= PdfSize
  /\ DdrChunkSize \in Nat /\ PdLimit \in Nat
<1>1. PoolSize - Reserved \in Int
  BY PoolAssumption
<1>2. ShareSize \in Int
  BY <1>1, PoolAssumption, QuotientBounds DEF ShareSize
<1> QED
  BY <1>2, PoolAssumption

(* The shares of the pool begin and end at numbers, and lie one behind the *)
(* other.                                                                  *)
LEMMA PoolShares ==
  ASSUME NEW t \in Thread
  PROVE  /\ PoolStart(t) \in Int /\ PoolEnd(t) \in Int
         /\ PoolStart(t) + HandleSize <= PoolEnd(t)
         /\ \A u \in Thread : t < u => PoolEnd(t) <= PoolStart(u)
<1>1. t \in Nat /\ ShareSize * t \in Nat
  BY Sizes DEF Thread
<1>2. ASSUME NEW u \in Thread, t < u PROVE PoolEnd(t) <= PoolStart(u)
  <2>1. u \in Nat /\ ShareSize * u \in Nat
    BY Sizes DEF Thread
  <2>2. ShareSize * t + ShareSize <= ShareSize * u
    BY <1>1, <1>2, <2>1, Sizes, MultipleGap
  <2> QED
    BY <1>1, <2>1, <2>2, Sizes DEF PoolStart, PoolEnd
<1> QED
  BY <1>1, <1>2, Sizes DEF PoolStart, PoolEnd

(* The rounding of an address goes to the next multiple of a PDF. *)
LEMMA Roundings ==
  ASSUME NEW a \in Int
  PROVE  /\ RoundUp(a) \in Int /\ a <= RoundUp(a) /\ RoundUp(a) < a + PdfSize
         /\ RoundDown(a) \in Int /\ RoundDown(a) <= a /\ a < RoundDown(a) + PdfSize
<1> DEFINE b == a + PdfSize - 1
           q == b \div PdfSize
           r == a \div PdfSize
<1>1. PdfSize \in Nat \ {0} /\ b \in Int
  BY Sizes
<1>2. q \in Int /\ PdfSize * q <= b /\ b < PdfSize * q + PdfSize
  BY <1>1, QuotientBounds
<1>3. r \in Int /\ PdfSize * r <= a /\ a < PdfSize * r + PdfSize
  BY <1>1, QuotientBounds
<1>4. RoundUp(a) = PdfSize * q /\ RoundDown(a) = PdfSize * r
  BY <1>1, <1>2, <1>3 DEF RoundUp, RoundDown
<1>5. PdfSize * q \in Int /\ PdfSize * r \in Int
  BY <1>1, <1>2, <1>3
<1> HIDE DEF q, r
<1> QED
  BY <1>1, <1>2, <1>3, <1>4, <1>5

(* So do the shares of system memory; each has room for a PDF at least,    *)
(* and PD 0 is in none of them.                                            *)
LEMMA SysmemShares ==
  ASSUME NEW t \in Thread
  PROVE  /\ PdStart(t) \in Int /\ PdEnd(t) \in Int /\ PdStart(t) > 0
         /\ PdStart(t) + PdfSize <= PdEnd(t)
         /\ \A u \in Thread : t < u => PdEnd(t) <= PdStart(u)
<1> DEFINE c(u) == ChunkSize * u
<1>1. \A u \in Thread : u \in Nat /\ c(u) \in Nat
  BY Sizes DEF Thread
<1>2. \A u \in Thread : PdStart(u) \in Int /\ PdStart(u) > 0 /\ c(u) <= PdStart(u)
                        /\ PdStart(u) < c(u) + 2 * PdfSize
  <2> TAKE u \in Thread
  <2>1. RoundUp(c(u)) \in Int /\ c(u) <= RoundUp(c(u)) /\ RoundUp(c(u)) < c(u) + PdfSize
    BY <1>1, Roundings
  <2>2. PdStart(u) = IF RoundUp(c(u)) = 0 THEN PdSize ELSE RoundUp(c(u))
    BY DEF PdStart
  <2> HIDE DEF c
  <2> QED
    BY <1>1, <2>1, <2>2, Sizes
<1>3. PdEnd(t) \in Int /\ PdEnd(t) <= c(t) + ChunkSize /\ c(t) + ChunkSize < PdEnd(t) + PdfSize
  BY <1>1, Roundings, Sizes DEF PdEnd
<1>4. \A u \in Thread : t < u => c(t) + ChunkSize <= c(u)
  BY <1>1, Sizes, MultipleGap
<1> HIDE DEF c
<1> QED
  BY <1>1, <1>2, <1>3, <1>4, Sizes

(* So do the shares of DDR memory, and PDF 0 is in none of them: a share   *)
(* that starts with it without being the first one is empty.               *)
LEMMA DdrShares ==
  ASSUME NEW t \in Thread
  PROVE  /\ DdrStart(t) \in Int /\ DdrEnd(t) \in Int /\ DdrStart(t) >= 0
         /\ DdrStart(t) = 0 => DdrEnd(t) <= 0
         /\ \A u \in Thread : t < u => DdrEnd(t) <= DdrStart(u)
<1> DEFINE d(u) == DdrChunkSize * u
           q(a) == a \div PdfSize
<1>1. \A u \in Thread : u \in Nat /\ d(u) \in Nat
  BY Sizes DEF Thread
<1>2. \A a \in Nat : q(a) \in Int /\ q(a) >= 0 /\ PdfSize * q(a) <= a /\ a < PdfSize * q(a) + PdfSize
  <2> TAKE a \in Nat
  <2>1. q(a) \in Int /\ PdfSize * q(a) <= a /\ a < PdfSize * q(a) + PdfSize
    BY Sizes, QuotientBounds
  <2>2. 0 \div PdfSize <= q(a)
    BY Sizes, QuotientMonotone
  <2>3. 0 \div PdfSize = 0
    BY Sizes
  <2> QED
    BY <2>1, <2>2, <2>3
<1>3. \A u \in Thread : DdrStart(u) = IF d(u) = 0 THEN q(d(u)) + 1 ELSE q(d(u))
  BY DEF DdrStart
<1>4. DdrEnd(t) = q(d(t) + DdrChunkSize) - 1
  BY DEF DdrEnd
<1>5. d(t) + DdrChunkSize \in Nat
  BY <1>1, Sizes
<1>6. DdrStart(t) = 0 => DdrEnd(t) <= 0
  <2>1. SUFFICES ASSUME DdrStart(t) = 0 PROVE q(d(t) + DdrChunkSize) < 2
    BY <1>2, <1>4, <1>5
  <2>2. d(t) # 0 /\ q(d(t)) = 0
    BY <2>1, <1>1, <1>2, <1>3
  <2>3. d(t) < PdfSize
    BY <2>2, <1>1, <1>2, Sizes
  <2>4. DdrChunkSize <= d(t)
    <3>1. t > 0
      BY <2>2, <1>1, Sizes
    <3>2. DdrChunkSize * 0 + DdrChunkSize <= DdrChunkSize * t
      BY <3>1, <1>1, Sizes, MultipleGap
    <3> QED
      BY <3>2, Sizes
  <2>5. SUFFICES ASSUME 1 < q(d(t) + DdrChunkSize) PROVE FALSE
    BY <1>2, <1>5
  <2>6. PdfSize * 1 + PdfSize <= PdfSize * q(d(t) + DdrChunkSize)
    BY <2>5, <1>2, <1>5, Sizes, MultipleGap
  <2>7. PdfSize * q(d(t) + DdrChunkSize) <= d(t) + DdrChunkSize
    BY <1>2, <1>5
  <2>8. PdfSize * q(d(t) + DdrChunkSize) \in Int
    BY <1>2, <1>5, Sizes
  <2> HIDE DEF d, q
  <2> QED
    BY <2>3, <2>4, <2>6, <2>7, <2>8, <1>1, Sizes
<1>7. ASSUME NEW u \in Thread, t < u PROVE DdrEnd(t) <= DdrStart(u)
  <2>1. d(t) + DdrChunkSize <= d(u)
    BY <1>1, <1>7, Sizes, MultipleGap
  <2>2. q(d(t) + DdrChunkSize) <= q(d(u))
    <3>1. \A a, b \in Int : a <= b => q(a) <= q(b)
      BY Sizes, QuotientMonotone
    <3>2. d(t) + DdrChunkSize \in Int /\ d(u) \in Int
      BY <1>1, <1>5
    <3> HIDE DEF d, q
    <3> QED
      BY <2>1, <3>1, <3>2
  <2>3. q(d(t) + DdrChunkSize) \in Int /\ q(d(u)) \in Int
    BY <1>1, <1>2, <1>5
  <2> HIDE DEF d, q
  <2> QED
    BY <2>2, <2>3, <1>3, <1>4
<1> HIDE DEF d, q
<1> QED
  BY <1>1, <1>2, <1>3, <1>4, <1>5, <1>6, <1>7

-----------------------------------------------------------------------------
(* The invariant.  It is a property of each thread by itself: that threads *)
(* do not share memory follows from where their shares lie.                *)

AllFlows(t) == flows[t] \cup freeFlows[t]
AllJobs(t) == jobs[t] \cup freeJobs[t]
AllPds(t) == pds[t] \cup freePds[t]

(* The two ends of each memory of thread t do not cross.  The job at       *)
(* first_free_job is not in use, so flows may reach into it.               *)
PoolBounds(t) ==
    /\ PoolStart(t) + HandleSize <= flowTop[t] /\ flowTop[t] <= PoolEnd(t)
    /\ flowTop[t] <= jobBottom[t] + JobSize /\ jobBottom[t] + JobSize <= PoolEnd(t)
SysmemBounds(t) ==
    /\ PdStart(t) <= pdTop[t] /\ pdTop[t] <= pdfBottom[t]
    /\ pdfBottom[t] + PdfSize <= PdEnd(t)
Bounds(t) == PoolBounds(t) /\ SysmemBounds(t)

(* The bounds hold once the thread has attached, also after it detached.   *)
BoundsHold(t) ==
    \/ Bounds(t)
    \/ t \notin attached /\ AllFlows(t) = {} /\ AllJobs(t) = {} /\ AllPds(t) = {}

(* Flows lie below first_free_flow and apart, and none is in use and free. *)
FlowsPlaced(t) ==
    /\ \A f \in AllFlows(t) : PoolStart(t) + HandleSize <= f.addr /\ f.addr + FlowSize <= flowTop[t]
    /\ \A f, g \in AllFlows(t) : f = g \/ Apart(f.addr, FlowSize, g.addr, FlowSize)
    /\ flows[t] \cap freeFlows[t] = {}

(* Jobs lie above first_free_job. *)
JobsPlaced(t) ==
    /\ \A j \in AllJobs(t) : jobBottom[t] + JobSize <= j /\ j + JobSize <= PoolEnd(t)
    /\ \A j, k \in AllJobs(t) : j = k \/ Apart(j, JobSize, k, JobSize)
    /\ jobs[t] \cap freeJobs[t] = {}

(* PDs lie below first_free_pd. *)
PdsPlaced(t) ==
    /\ \A p \in AllPds(t) : PdStart(t) <= p /\ p + PdSize <= pdTop[t] /\ p < PdLimit * PdSize
    /\ \A p, q \in AllPds(t) : p = q \/ Apart(p, PdSize, q, PdSize)
    /\ pds[t] \cap freePds[t] = {}

(* The PDFs of stateful flows lie above first_free_pdf or, in DDR, below   *)
(* current_pdf_index.                                                      *)
PdfsPlaced(t) ==
    /\ \A f \in AllFlows(t) : f.kind = "stateful" =>
          IF useDdr THEN DdrStart(t) <= f.pdf /\ f.pdf < ddrNext[t] /\ f.pdf < DdrEnd(t)
          ELSE pdfBottom[t] + PdfSize <= f.pdf /\ f.pdf + PdfSize <= PdEnd(t)
    /\ \A f, g \in AllFlows(t) : f.kind = "stateful" /\ g.kind = "stateful" =>
          \/ f = g
          \/ f.pdf # g.pdf /\ (~useDdr => Apart(f.pdf, PdfSize, g.pdf, PdfSize))
    /\ t \in attached => DdrStart(t) <= ddrNext[t]

Types ==
    /\ useDdr \in BOOLEAN
    /\ attached \subseteq Thread
    /\ flowTop \in [Thread -> Int] /\ jobBottom \in [Thread -> Int]
    /\ pdTop \in [Thread -> Int] /\ pdfBottom \in [Thread -> Int] /\ ddrNext \in [Thread -> Int]
    /\ flows \in [Thread -> SUBSET FlowType] /\ freeFlows \in [Thread -> SUBSET FlowType]
    /\ jobs \in [Thread -> SUBSET Int] /\ freeJobs \in [Thread -> SUBSET Int]
    /\ pds \in [Thread -> SUBSET Int] /\ freePds \in [Thread -> SUBSET Int]

ThreadInv(t) ==
    BoundsHold(t) /\ FlowsPlaced(t) /\ JobsPlaced(t) /\ PdsPlaced(t) /\ PdfsPlaced(t)

PoolInv == Types /\ \A t \in Thread : ThreadInv(t)

-----------------------------------------------------------------------------
(* The invariant of a thread depends on its own memory only. *)

Untouched(u) ==
    /\ useDdr' = useDdr /\ (u \in attached' <=> u \in attached)
    /\ flowTop'[u] = flowTop[u] /\ jobBottom'[u] = jobBottom[u]
    /\ pdTop'[u] = pdTop[u] /\ pdfBottom'[u] = pdfBottom[u] /\ ddrNext'[u] = ddrNext[u]
    /\ flows'[u] = flows[u] /\ freeFlows'[u] = freeFlows[u]
    /\ jobs'[u] = jobs[u] /\ freeJobs'[u] = freeJobs[u]
    /\ pds'[u] = pds[u] /\ freePds'[u] = freePds[u]

LEMMA UntouchedKeeps ==
  ASSUME NEW u \in Thread, ThreadInv(u), Untouched(u)
  PROVE  ThreadInv(u)'
BY DEF Untouched, ThreadInv, BoundsHold, Bounds, PoolBounds, SysmemBounds, FlowsPlaced, JobsPlaced,
   PdsPlaced, PdfsPlaced, AllFlows, AllJobs, AllPds

(* A thread that attaches has an empty share. *)
LEMMA AttachKeeps ==
  ASSUME PoolInv, NEW t \in Thread, Attach(t)
  PROVE  PoolInv'
<1> USE Sizes DEF PoolInv
<1>1. Types'
  BY PoolShares, SysmemShares, DdrShares DEF Types, Attach
<1>2. ASSUME NEW u \in Thread, u # t PROVE ThreadInv(u)'
  BY <1>2, UntouchedKeeps DEF Untouched, Attach, Types
<1>3. ThreadInv(t)'
  <2>1. AllFlows(t)' = {} /\ AllJobs(t)' = {} /\ AllPds(t)' = {} /\ ddrNext'[t] = DdrStart(t)
    BY DEF AllFlows, AllJobs, AllPds, Attach, Types
  <2>2. Bounds(t)'
    BY PoolShares, SysmemShares DEF Bounds, PoolBounds, SysmemBounds, Attach, Types
  <2> QED
    BY <2>1, <2>2, DdrShares DEF ThreadInv, BoundsHold, FlowsPlaced, JobsPlaced, PdsPlaced, PdfsPlaced,
       AllFlows, AllJobs, AllPds
<1> QED
  BY <1>1, <1>2, <1>3

(* One that detaches leaves its share as it is. *)
LEMMA DetachKeeps ==
  ASSUME PoolInv, NEW t \in Thread, Detach(t)
  PROVE  PoolInv'
<1> USE DEF PoolInv
<1>1. Types'
  BY DEF Types, Detach, bounds
<1>2. ASSUME NEW u \in Thread PROVE ThreadInv(u)'
  BY DEF Detach, bounds, ThreadInv, BoundsHold, Bounds, PoolBounds, SysmemBounds, FlowsPlaced,
     JobsPlaced, PdsPlaced, PdfsPlaced, AllFlows, AllJobs, AllPds
<1> QED
  BY <1>1, <1>2

(* A flow that is put on a free list, or taken from it, stays where it is. *)
LEMMA MoveFlowKeeps ==
  ASSUME PoolInv, NEW t \in Thread, NEW f,
         \/ /\ f \in flows[t]
            /\ flows' = [flows EXCEPT ![t] = @ \ {f}]
            /\ freeFlows' = [freeFlows EXCEPT ![t] = @ \cup {f}]
         \/ /\ f \in freeFlows[t]
            /\ freeFlows' = [freeFlows EXCEPT ![t] = @ \ {f}]
            /\ flows' = [flows EXCEPT ![t] = @ \cup {f}],
         UNCHANGED <<useDdr, attached, bounds, jobs, freeJobs, pds, freePds>>
  PROVE  PoolInv'
<1> USE DEF PoolInv, bounds
<1>1. Types'
  BY DEF Types
<1>2. ASSUME NEW u \in Thread, u # t PROVE ThreadInv(u)'
  BY <1>2, UntouchedKeeps DEF Untouched, Types
<1>3. ThreadInv(t)'
  <2>1. AllFlows(t)' = AllFlows(t) /\ flows'[t] \cap freeFlows'[t] = {}
    BY DEF AllFlows, Types, ThreadInv, FlowsPlaced
  <2>2. FlowsPlaced(t)'
    BY <2>1 DEF ThreadInv, FlowsPlaced
  <2>3. PdfsPlaced(t)'
    BY <2>1 DEF ThreadInv, PdfsPlaced
  <2>4. JobsPlaced(t)' /\ PdsPlaced(t)'
    BY DEF ThreadInv, JobsPlaced, PdsPlaced, AllJobs, AllPds
  <2>5. BoundsHold(t)'
    BY <2>1 DEF ThreadInv, BoundsHold, Bounds, PoolBounds, SysmemBounds, AllJobs, AllPds
  <2> QED
    BY <2>2, <2>3, <2>4, <2>5 DEF ThreadInv
<1> QED
  BY <1>1, <1>2, <1>3

LEMMA FreeFlowKeeps ==
  ASSUME PoolInv, NEW t \in Thread, NEW f, FreeFlow(t, f)
  PROVE  PoolInv'
BY MoveFlowKeeps DEF FreeFlow

LEMMA ReuseFlowKeeps ==
  ASSUME PoolInv, NEW t \in Thread, NEW kind, ReuseFlow(t, kind),
         UNCHANGED <<useDdr, attached, jobs, freeJobs, pds, freePds>>
  PROVE  PoolInv'
<1>1. PICK f \in freeFlows[t] : /\ freeFlows' = [freeFlows EXCEPT ![t] = @ \ {f}]
                                /\ flows' = [flows EXCEPT ![t] = @ \cup {f}]
  BY DEF ReuseFlow
<1> QED
  BY <1>1, MoveFlowKeeps DEF ReuseFlow

(* A new flow takes the room between the flows and the jobs. *)
LEMMA RoomTaken ==
  ASSUME PoolInv, NEW t \in attached, NEW kind, RoomForFlow(t, kind),
         flowTop' = [flowTop EXCEPT ![t] = @ + FlowSize],
         UNCHANGED <<attached, jobBottom, jobs, freeJobs>>
  PROVE  PoolBounds(t)' /\ PoolBounds(t) /\ JobsPlaced(t)'
<1> USE Sizes, PoolShares DEF PoolInv
<1>1. t \in Thread
  BY DEF Types
<1>2. PoolBounds(t)
  BY <1>1 DEF ThreadInv, BoundsHold, Bounds
<1>3. PoolBounds(t)'
  BY <1>1, <1>2 DEF PoolBounds, RoomForFlow, Types
<1>4. JobsPlaced(t)'
  BY <1>1 DEF ThreadInv, JobsPlaced, AllJobs
<1> QED
  BY <1>2, <1>3, <1>4

(* The memory of a flow is lost, and nothing else. *)
LEMMA CreateLosesFlowKeeps ==
  ASSUME PoolInv, NEW t \in Thread, CreateLosesFlow(t)
  PROVE  PoolInv'
<1> USE Sizes DEF PoolInv
<1>1. Types'
  BY DEF Types, CreateLosesFlow
<1>2. ASSUME NEW u \in Thread, u # t PROVE ThreadInv(u)'
  BY <1>2, UntouchedKeeps DEF Untouched, CreateLosesFlow, Types
<1>3. ThreadInv(t)'
  <2>1. PoolBounds(t)' /\ JobsPlaced(t)'
    BY RoomTaken DEF CreateLosesFlow
  <2>2. SysmemBounds(t)'
    BY DEF ThreadInv, BoundsHold, Bounds, SysmemBounds, CreateLosesFlow
  <2>3. FlowsPlaced(t)'
    BY DEF ThreadInv, FlowsPlaced, AllFlows, CreateLosesFlow, Types, FlowType
  <2>4. PdsPlaced(t)' /\ PdfsPlaced(t)'
    BY DEF ThreadInv, PdsPlaced, PdfsPlaced, AllFlows, AllPds, CreateLosesFlow
  <2> QED
    BY <2>1, <2>2, <2>3, <2>4 DEF ThreadInv, BoundsHold, Bounds
<1> QED
  BY <1>1, <1>2, <1>3

(* The new flow lies behind all others. *)
LEMMA CarvedFlowPlaced ==
  ASSUME PoolInv, NEW t \in attached, NEW kind \in {"stateless", "stateful"}, NEW pdf \in Int,
         CarveFlow(t, kind, pdf), UNCHANGED <<attached, jobs, freeJobs>>
  PROVE  /\ AllFlows(t)' = AllFlows(t) \cup {Flow(flowTop[t], kind, pdf)}
         /\ flows' \in [Thread -> SUBSET FlowType]
         /\ FlowsPlaced(t)' /\ PoolBounds(t)' /\ JobsPlaced(t)'
<1> USE Sizes, PoolShares DEF PoolInv
<1> DEFINE new == Flow(flowTop[t], kind, pdf)
<1>1. t \in Thread
  BY DEF Types
<1>2. PoolBounds(t) /\ PoolBounds(t)' /\ JobsPlaced(t)'
  BY RoomTaken DEF CarveFlow
<1>3. new \in FlowType /\ new.addr = flowTop[t]
  BY <1>1 DEF Flow, FlowType, Types
<1>4. flows'[t] = flows[t] \cup {new} /\ freeFlows'[t] = freeFlows[t] /\ flowTop'[t] = flowTop[t] + FlowSize
  BY <1>1 DEF CarveFlow, Types
<1>5. AllFlows(t)' = AllFlows(t) \cup {new}
  BY <1>4 DEF AllFlows
<1>6. flows' \in [Thread -> SUBSET FlowType]
  BY <1>1, <1>3 DEF CarveFlow, Types
<1>7. \A f \in AllFlows(t) : /\ f.addr \in Int /\ f.addr + FlowSize <= flowTop[t]
                             /\ PoolStart(t) + HandleSize <= f.addr
  BY <1>1 DEF AllFlows, Types, FlowType, ThreadInv, FlowsPlaced
<1>8. new \notin AllFlows(t) /\ flowTop[t] \in Int
  BY <1>1, <1>3, <1>7 DEF Types
<1>9. FlowsPlaced(t)'
  <2> HIDE DEF new
  <2>1. \A f \in AllFlows(t)' : /\ PoolStart(t) + HandleSize <= f.addr
                                /\ f.addr + FlowSize <= flowTop'[t]
    BY <1>1, <1>2, <1>3, <1>4, <1>5, <1>7, <1>8 DEF PoolBounds
  <2>2. \A f, g \in AllFlows(t) : f = g \/ Apart(f.addr, FlowSize, g.addr, FlowSize)
    BY <1>1 DEF ThreadInv, FlowsPlaced
  <2>3. \A f \in AllFlows(t) : /\ Apart(f.addr, FlowSize, new.addr, FlowSize)
                               /\ Apart(new.addr, FlowSize, f.addr, FlowSize)
    BY <1>3, <1>7, <1>8 DEF Apart
  <2>4. \A f, g \in AllFlows(t)' : f = g \/ Apart(f.addr, FlowSize, g.addr, FlowSize)
    BY <1>5, <2>2, <2>3
  <2>5. flows'[t] \cap freeFlows'[t] = {}
    BY <1>1, <1>4, <1>8 DEF AllFlows, ThreadInv, FlowsPlaced
  <2> QED
    BY <2>1, <2>4, <2>5 DEF FlowsPlaced
<1> QED
  BY <1>2, <1>5, <1>6, <1>9

LEMMA CarveStatelessKeeps ==
  ASSUME PoolInv, NEW t \in attached, CarveFlow(t, "stateless", NoPdf),
         UNCHANGED <<useDdr, attached, pdfBottom, ddrNext, jobs, freeJobs, pds, freePds>>
  PROVE  PoolInv'
<1> USE Sizes DEF PoolInv
<1> DEFINE new == Flow(flowTop[t], "stateless", NoPdf)
<1>1. t \in Thread
  BY DEF Types
<1>2. /\ AllFlows(t)' = AllFlows(t) \cup {new}
      /\ flows' \in [Thread -> SUBSET FlowType]
      /\ FlowsPlaced(t)' /\ PoolBounds(t)' /\ JobsPlaced(t)'
  BY CarvedFlowPlaced DEF NoPdf
<1>3. Types'
  BY <1>1, <1>2 DEF Types, CarveFlow
<1>4. ASSUME NEW u \in Thread, u # t PROVE ThreadInv(u)'
  BY <1>1, <1>4, UntouchedKeeps DEF Untouched, CarveFlow, Types
<1>5. SysmemBounds(t)' /\ PdsPlaced(t)'
  BY <1>1 DEF ThreadInv, BoundsHold, Bounds, SysmemBounds, PdsPlaced, AllPds, CarveFlow
<1>6. PdfsPlaced(t)'
  <2>1. new.kind = "stateless"
    BY DEF Flow
  <2> HIDE DEF new
  <2> QED
    BY <1>1, <1>2, <2>1 DEF ThreadInv, PdfsPlaced
<1>7. ThreadInv(t)'
  BY <1>2, <1>5, <1>6 DEF ThreadInv, BoundsHold, Bounds
<1> QED
  BY <1>3, <1>4, <1>7

(* The PDF of a new stateful flow lies between the PDs and the other PDFs  *)
(* or, in DDR, behind the other PDFs.                                      *)
LEMMA CarveStatefulKeeps ==
  ASSUME PoolInv, NEW t \in attached, PdfAvailable(t), CarveFlow(t, "stateful", NextPdf(t)),
         AllocPdf(t), UNCHANGED <<useDdr, attached, jobs, freeJobs, pds, freePds>>
  PROVE  PoolInv'
<1> USE Sizes DEF PoolInv
<1> DEFINE pdf == NextPdf(t)
           new == Flow(flowTop[t], "stateful", pdf)
<1>1. t \in Thread /\ pdf \in Int
  BY DEF Types, NextPdf
<1>2. /\ AllFlows(t)' = AllFlows(t) \cup {new}
      /\ flows' \in [Thread -> SUBSET FlowType]
      /\ FlowsPlaced(t)' /\ PoolBounds(t)' /\ JobsPlaced(t)'
  BY <1>1, CarvedFlowPlaced
<1>3. Types'
  BY <1>1, <1>2 DEF Types, CarveFlow, AllocPdf
<1>4. ASSUME NEW u \in Thread, u # t PROVE ThreadInv(u)'
  BY <1>1, <1>4, UntouchedKeeps DEF Untouched, CarveFlow, AllocPdf, Types
<1>5. SysmemBounds(t)
  BY <1>1 DEF ThreadInv, BoundsHold, Bounds
<1>6. SysmemBounds(t)' /\ PdsPlaced(t)'
  <2>1. pdTop' = pdTop
    BY DEF CarveFlow
  <2>2. SysmemBounds(t)'
    BY <1>1, <1>5, <2>1, SysmemShares DEF SysmemBounds, AllocPdf, PdfAvailable, Types
  <2> QED
    BY <1>1, <2>1, <2>2 DEF ThreadInv, PdsPlaced, AllPds
<1>7. PdfsPlaced(t)'
  <2>1. new.kind = "stateful" /\ new.pdf = pdf
    BY DEF Flow
  <2>2. \A f \in AllFlows(t) : f.pdf \in Int
    BY <1>1 DEF AllFlows, Types, FlowType
  <2>3. CASE useDdr
    <3>1. pdf = ddrNext[t] /\ ddrNext'[t] = ddrNext[t] + 1 /\ ddrNext[t] < DdrEnd(t) /\ useDdr'
      BY <1>1, <2>3 DEF NextPdf, AllocPdf, PdfAvailable, Types
    <3>2. DdrStart(t) <= ddrNext[t] /\ DdrStart(t) \in Int /\ DdrEnd(t) \in Int /\ ddrNext[t] \in Int
      BY <1>1, DdrShares DEF ThreadInv, PdfsPlaced, Types
    <3> HIDE DEF new, pdf
    <3>3. \A f \in AllFlows(t)' : f.kind = "stateful" =>
            DdrStart(t) <= f.pdf /\ f.pdf < ddrNext'[t] /\ f.pdf < DdrEnd(t)
      BY <1>1, <1>2, <2>1, <2>2, <2>3, <3>1, <3>2 DEF ThreadInv, PdfsPlaced
    <3>4. \A f \in AllFlows(t) : f.kind = "stateful" => f.pdf # new.pdf
      BY <1>1, <2>1, <2>2, <2>3, <3>1, <3>2 DEF ThreadInv, PdfsPlaced
    <3>5. \A f, g \in AllFlows(t)' : f.kind = "stateful" /\ g.kind = "stateful" => f = g \/ f.pdf # g.pdf
      BY <1>1, <1>2, <3>4 DEF ThreadInv, PdfsPlaced
    <3> QED
      BY <3>1, <3>2, <3>3, <3>5 DEF PdfsPlaced
  <2>4. CASE ~useDdr
    <3>1. pdf = pdfBottom[t] /\ pdfBottom'[t] = pdfBottom[t] - PdfSize /\ ~useDdr' /\ ddrNext' = ddrNext
      BY <1>1, <2>4 DEF NextPdf, AllocPdf, Types
    <3>2. pdfBottom[t] + PdfSize <= PdEnd(t) /\ PdEnd(t) \in Int /\ pdfBottom[t] \in Int
      BY <1>1, <1>5, SysmemShares DEF SysmemBounds, Types
    <3> HIDE DEF new, pdf
    <3>3. \A f \in AllFlows(t) : f.kind = "stateful" =>
            pdfBottom[t] + PdfSize <= f.pdf /\ f.pdf + PdfSize <= PdEnd(t)
      BY <1>1, <2>4 DEF ThreadInv, PdfsPlaced
    <3>4. \A f \in AllFlows(t)' : f.kind = "stateful" =>
            pdfBottom'[t] + PdfSize <= f.pdf /\ f.pdf + PdfSize <= PdEnd(t)
      BY <1>2, <2>1, <2>2, <3>1, <3>2, <3>3
    <3>5. \A f \in AllFlows(t) : f.kind = "stateful" =>
            /\ f.pdf # new.pdf /\ Apart(f.pdf, PdfSize, new.pdf, PdfSize)
            /\ Apart(new.pdf, PdfSize, f.pdf, PdfSize)
      BY <2>1, <2>2, <3>1, <3>2, <3>3 DEF Apart
    <3>6. \A f, g \in AllFlows(t)' : f.kind = "stateful" /\ g.kind = "stateful" =>
            f = g \/ (f.pdf # g.pdf /\ Apart(f.pdf, PdfSize, g.pdf, PdfSize))
      <4> SUFFICES ASSUME NEW f \in AllFlows(t)', NEW g \in AllFlows(t)',
                          f.kind = "stateful", g.kind = "stateful", f # g
                   PROVE  f.pdf # g.pdf /\ Apart(f.pdf, PdfSize, g.pdf, PdfSize)
        OBVIOUS
      <4>1. CASE f \in AllFlows(t) /\ g \in AllFlows(t)
        BY <1>1, <2>4, <4>1 DEF ThreadInv, PdfsPlaced
      <4>2. CASE f = new
        BY <1>2, <3>5, <4>2
      <4>3. CASE g = new
        BY <1>2, <3>5, <4>3
      <4> QED
        BY <1>2, <4>1, <4>2, <4>3
    <3> QED
      BY <1>1, <3>1, <3>4, <3>6 DEF ThreadInv, PdfsPlaced
  <2> QED
    BY <2>3, <2>4
<1>8. ThreadInv(t)'
  BY <1>2, <1>6, <1>7 DEF ThreadInv, BoundsHold, Bounds
<1> QED
  BY <1>3, <1>4, <1>8

(* A job that is given back, or used again, stays where it is. *)
LEMMA MoveJobKeeps ==
  ASSUME PoolInv, NEW t \in Thread, NEW x,
         \/ /\ x \in jobs[t]
            /\ jobs' = [jobs EXCEPT ![t] = @ \ {x}]
            /\ freeJobs' = [freeJobs EXCEPT ![t] = @ \cup {x}]
         \/ /\ x \in freeJobs[t]
            /\ freeJobs' = [freeJobs EXCEPT ![t] = @ \ {x}]
            /\ jobs' = [jobs EXCEPT ![t] = @ \cup {x}],
         UNCHANGED <<useDdr, attached, bounds, flows, freeFlows, pds, freePds>>
  PROVE  PoolInv'
<1> USE DEF PoolInv, bounds
<1>1. Types'
  BY DEF Types
<1>2. ASSUME NEW u \in Thread, u # t PROVE ThreadInv(u)'
  BY <1>2, UntouchedKeeps DEF Untouched, Types
<1>3. ThreadInv(t)'
  <2>1. AllJobs(t)' = AllJobs(t) /\ jobs'[t] \cap freeJobs'[t] = {}
    BY DEF AllJobs, Types, ThreadInv, JobsPlaced
  <2>2. JobsPlaced(t)'
    BY <2>1 DEF ThreadInv, JobsPlaced
  <2>3. FlowsPlaced(t)' /\ PdfsPlaced(t)'
    BY DEF ThreadInv, FlowsPlaced, PdfsPlaced, AllFlows
  <2>4. PdsPlaced(t)'
    BY DEF ThreadInv, PdsPlaced, AllPds
  <2>5. BoundsHold(t)'
    BY <2>1 DEF ThreadInv, BoundsHold, Bounds, PoolBounds, SysmemBounds, AllFlows, AllPds
  <2> QED
    BY <2>2, <2>3, <2>4, <2>5 DEF ThreadInv
<1> QED
  BY <1>1, <1>2, <1>3

LEMMA FreeJobKeeps ==
  ASSUME PoolInv, NEW t \in Thread, NEW x, FreeJob(t, x)
  PROVE  PoolInv'
BY MoveJobKeeps DEF FreeJob

(* A new job takes the place at first_free_job, above all flows. *)
LEMMA AllocJobKeeps ==
  ASSUME PoolInv, NEW t \in Thread, AllocJob(t)
  PROVE  PoolInv'
<1> USE Sizes DEF PoolInv
<1>1. CASE \E j \in freeJobs[t] : /\ freeJobs' = [freeJobs EXCEPT ![t] = @ \ {j}]
                                  /\ jobs' = [jobs EXCEPT ![t] = @ \cup {j}]
                                  /\ UNCHANGED jobBottom
  BY <1>1, MoveJobKeeps DEF AllocJob, bounds
<1>2. CASE /\ jobBottom[t] - JobSize > flowTop[t]
           /\ jobBottom' = [jobBottom EXCEPT ![t] = @ - JobSize]
           /\ jobs' = [jobs EXCEPT ![t] = @ \cup {jobBottom[t]}]
           /\ UNCHANGED freeJobs
  <2>1. Types'
    BY <1>2 DEF Types, AllocJob
  <2>2. ASSUME NEW u \in Thread, u # t PROVE ThreadInv(u)'
    BY <1>2, <2>2, UntouchedKeeps DEF Untouched, AllocJob, Types
  <2>3. /\ jobs'[t] = jobs[t] \cup {jobBottom[t]} /\ AllJobs(t)' = AllJobs(t) \cup {jobBottom[t]}
        /\ jobBottom'[t] = jobBottom[t] - JobSize /\ jobBottom[t] \in Int /\ flowTop[t] \in Int
    BY <1>2 DEF AllJobs, Types
  <2>4. PoolBounds(t) /\ SysmemBounds(t)
    BY DEF AllocJob, ThreadInv, BoundsHold, Bounds
  <2>5. PoolBounds(t)' /\ SysmemBounds(t)'
    BY <1>2, <2>3, <2>4, PoolShares DEF PoolBounds, SysmemBounds, AllocJob
  <2>6. \A j \in AllJobs(t) : j \in Int /\ jobBottom[t] + JobSize <= j /\ j + JobSize <= PoolEnd(t)
    BY DEF AllJobs, Types, ThreadInv, JobsPlaced
  <2>7. JobsPlaced(t)'
    <3>1. \A j \in AllJobs(t)' : jobBottom'[t] + JobSize <= j /\ j + JobSize <= PoolEnd(t)
      BY <2>3, <2>4, <2>6, PoolShares DEF PoolBounds
    <3>2. \A j, k \in AllJobs(t) : j = k \/ Apart(j, JobSize, k, JobSize)
      BY DEF ThreadInv, JobsPlaced
    <3>3. \A j \in AllJobs(t) : /\ Apart(j, JobSize, jobBottom[t], JobSize)
                                /\ Apart(jobBottom[t], JobSize, j, JobSize)
      BY <2>3, <2>6 DEF Apart
    <3>4. \A j, k \in AllJobs(t)' : j = k \/ Apart(j, JobSize, k, JobSize)
      BY <2>3, <3>2, <3>3
    <3>5. jobBottom[t] \notin AllJobs(t)
      BY <2>3, <2>6
    <3>6. jobs'[t] \cap freeJobs'[t] = {}
      BY <1>2, <2>3, <3>5 DEF AllJobs, ThreadInv, JobsPlaced
    <3> QED
      BY <3>1, <3>4, <3>6 DEF JobsPlaced
  <2>8. FlowsPlaced(t)' /\ PdsPlaced(t)' /\ PdfsPlaced(t)'
    BY DEF ThreadInv, FlowsPlaced, PdsPlaced, PdfsPlaced, AllFlows, AllPds, AllocJob
  <2> QED
    BY <2>1, <2>2, <2>5, <2>7, <2>8 DEF ThreadInv, BoundsHold, Bounds
<1> QED
  BY <1>1, <1>2 DEF AllocJob

(* So does a PD. *)
LEMMA MovePdKeeps ==
  ASSUME PoolInv, NEW t \in Thread, NEW x,
         \/ /\ x \in pds[t]
            /\ pds' = [pds EXCEPT ![t] = @ \ {x}]
            /\ freePds' = [freePds EXCEPT ![t] = @ \cup {x}]
         \/ /\ x \in freePds[t]
            /\ freePds' = [freePds EXCEPT ![t] = @ \ {x}]
            /\ pds' = [pds EXCEPT ![t] = @ \cup {x}],
         UNCHANGED <<useDdr, attached, bounds, flows, freeFlows, jobs, freeJobs>>
  PROVE  PoolInv'
<1> USE DEF PoolInv, bounds
<1>1. Types'
  BY DEF Types
<1>2. ASSUME NEW u \in Thread, u # t PROVE ThreadInv(u)'
  BY <1>2, UntouchedKeeps DEF Untouched, Types
<1>3. ThreadInv(t)'
  <2>1. AllPds(t)' = AllPds(t) /\ pds'[t] \cap freePds'[t] = {}
    BY DEF AllPds, Types, ThreadInv, PdsPlaced
  <2>2. PdsPlaced(t)'
    BY <2>1 DEF ThreadInv, PdsPlaced
  <2>3. FlowsPlaced(t)' /\ PdfsPlaced(t)'
    BY DEF ThreadInv, FlowsPlaced, PdfsPlaced, AllFlows
  <2>4. JobsPlaced(t)'
    BY DEF ThreadInv, JobsPlaced, AllJobs
  <2>5. BoundsHold(t)'
    BY <2>1 DEF ThreadInv, BoundsHold, Bounds, PoolBounds, SysmemBounds, AllFlows, AllJobs
  <2> QED
    BY <2>2, <2>3, <2>4, <2>5 DEF ThreadInv
<1> QED
  BY <1>1, <1>2, <1>3

LEMMA FreePdKeeps ==
  ASSUME PoolInv, NEW t \in Thread, NEW x, FreePd(t, x)
  PROVE  PoolInv'
BY MovePdKeeps DEF FreePd

(* A new PD takes the place at first_free_pd, below all PDFs; one that     *)
(* cannot be named is lost.                                                *)
LEMMA AllocPdKeeps ==
  ASSUME PoolInv, NEW t \in Thread, AllocPd(t)
  PROVE  PoolInv'
<1> USE Sizes DEF PoolInv
<1>1. CASE \E p \in freePds[t] : /\ freePds' = [freePds EXCEPT ![t] = @ \ {p}]
                                 /\ pds' = [pds EXCEPT ![t] = @ \cup {p}]
                                 /\ UNCHANGED pdTop
  BY <1>1, MovePdKeeps DEF AllocPd, bounds
<1>2. CASE /\ pdTop[t] + PdSize <= pdfBottom[t]
           /\ pdTop' = [pdTop EXCEPT ![t] = @ + PdSize]
           /\ pds' = IF pdTop[t] < PdLimit * PdSize
                     THEN [pds EXCEPT ![t] = @ \cup {pdTop[t]}] ELSE pds
           /\ UNCHANGED freePds
  <2>1. Types'
    BY <1>2 DEF Types, AllocPd
  <2>2. ASSUME NEW u \in Thread, u # t PROVE ThreadInv(u)'
    BY <1>2, <2>2, UntouchedKeeps DEF Untouched, AllocPd, Types
  <2>3. /\ \/ pds'[t] = pds[t] \cup {pdTop[t]} /\ pdTop[t] < PdLimit * PdSize
           \/ pds'[t] = pds[t]
        /\ pdTop'[t] = pdTop[t] + PdSize /\ pdTop[t] \in Int /\ pdfBottom[t] \in Int
    BY <1>2 DEF Types
  <2>4. PoolBounds(t) /\ SysmemBounds(t)
    BY DEF AllocPd, ThreadInv, BoundsHold, Bounds
  <2>5. PoolBounds(t)' /\ SysmemBounds(t)'
    BY <1>2, <2>3, <2>4, SysmemShares DEF PoolBounds, SysmemBounds, AllocPd
  <2>6. \A p \in AllPds(t) : p \in Int /\ PdStart(t) <= p /\ p + PdSize <= pdTop[t] /\ p < PdLimit * PdSize
    BY DEF AllPds, Types, ThreadInv, PdsPlaced
  <2>7. PdsPlaced(t)'
    <3>1. AllPds(t)' \subseteq AllPds(t) \cup {pdTop[t]}
      BY <1>2, <2>3 DEF AllPds
    <3>2. pdTop[t] \in AllPds(t)' => pdTop[t] < PdLimit * PdSize
      BY <1>2, <2>3, <2>6 DEF AllPds
    <3>3. PdLimit * PdSize \in Int
      OBVIOUS
    <3>4. \A p \in AllPds(t)' : PdStart(t) <= p /\ p + PdSize <= pdTop'[t] /\ p < PdLimit * PdSize
      BY <2>3, <2>4, <2>6, <3>1, <3>2, <3>3, SysmemShares DEF SysmemBounds
    <3>5. \A p, q \in AllPds(t) : p = q \/ Apart(p, PdSize, q, PdSize)
      BY DEF ThreadInv, PdsPlaced
    <3>6. \A p \in AllPds(t) : /\ Apart(p, PdSize, pdTop[t], PdSize)
                               /\ Apart(pdTop[t], PdSize, p, PdSize)
      BY <2>3, <2>6 DEF Apart
    <3>7. \A p, q \in AllPds(t)' : p = q \/ Apart(p, PdSize, q, PdSize)
      BY <3>1, <3>5, <3>6
    <3>8. pdTop[t] \notin AllPds(t)
      BY <2>3, <2>6
    <3>9. pds'[t] \cap freePds'[t] = {}
      BY <1>2, <2>3, <3>8 DEF AllPds, ThreadInv, PdsPlaced
    <3> QED
      BY <3>4, <3>7, <3>9 DEF PdsPlaced
  <2>8. FlowsPlaced(t)' /\ JobsPlaced(t)' /\ PdfsPlaced(t)'
    BY DEF ThreadInv, FlowsPlaced, JobsPlaced, PdfsPlaced, AllFlows, AllJobs, AllocPd
  <2> QED
    BY <2>1, <2>2, <2>5, <2>7, <2>8 DEF ThreadInv, BoundsHold, Bounds
<1> QED
  BY <1>1, <1>2 DEF AllocPd

-----------------------------------------------------------------------------
LEMMA PoolInit == Init => PoolInv
<1> SUFFICES ASSUME Init PROVE PoolInv
  OBVIOUS
<1>1. Types
  BY DEF Init, Types
<1>2. ASSUME NEW t \in Thread PROVE ThreadInv(t)
  <2>1. AllFlows(t) = {} /\ AllJobs(t) = {} /\ AllPds(t) = {} /\ t \notin attached
    BY DEF Init, AllFlows, AllJobs, AllPds
  <2> QED
    BY <2>1 DEF ThreadInv, BoundsHold, FlowsPlaced, JobsPlaced, PdsPlaced, PdfsPlaced, AllFlows,
       AllJobs, AllPds
<1> QED
  BY <1>1, <1>2 DEF PoolInv

LEMMA PoolNext == PoolInv /\ [Next]_vars => PoolInv'
<1> SUFFICES ASSUME PoolInv, [Next]_vars PROVE PoolInv'
  OBVIOUS
<1>1. CASE UNCHANGED vars
  <2>1. Types'
    BY <1>1 DEF vars, bounds, Types, PoolInv
  <2>2. ASSUME NEW u \in Thread PROVE ThreadInv(u)'
    BY <1>1, UntouchedKeeps DEF vars, bounds, Untouched, PoolInv
  <2> QED
    BY <2>1, <2>2 DEF PoolInv
<1>2. ASSUME NEW t \in Thread, Attach(t) \/ Detach(t) PROVE PoolInv'
  BY <1>2, AttachKeeps, DetachKeeps
<1>3. ASSUME NEW t \in Thread, CreateStateless(t) PROVE PoolInv'
  BY <1>3, ReuseFlowKeeps, CarveStatelessKeeps DEF CreateStateless
<1>4. ASSUME NEW t \in Thread, CreateStateful(t) PROVE PoolInv'
  BY <1>4, ReuseFlowKeeps, CarveStatefulKeeps DEF CreateStateful
<1>5. ASSUME NEW t \in Thread, CreateLosesFlow(t) PROVE PoolInv'
  BY <1>5, CreateLosesFlowKeeps
<1>6. ASSUME NEW t \in Thread, NEW f \in flows[t], FreeFlow(t, f) PROVE PoolInv'
  BY <1>6, FreeFlowKeeps
<1>7. ASSUME NEW t \in Thread, AllocJob(t) \/ AllocPd(t) PROVE PoolInv'
  BY <1>7, AllocJobKeeps, AllocPdKeeps
<1>8. ASSUME NEW t \in Thread, NEW j \in jobs[t], FreeJob(t, j) PROVE PoolInv'
  BY <1>8, FreeJobKeeps
<1>9. ASSUME NEW t \in Thread, NEW p \in pds[t], FreePd(t, p) PROVE PoolInv'
  BY <1>9, FreePdKeeps
<1> QED
  BY <1>1, <1>2, <1>3, <1>4, <1>5, <1>6, <1>7, <1>8, <1>9 DEF Next

LEMMA PoolInvariant == Spec => []PoolInv
BY PoolInit, PoolNext, PTL DEF Spec

-----------------------------------------------------------------------------
(* Where the objects of a thread lie, without the pointers. *)

LEMMA FlowsInShare ==
  ASSUME PoolInv, NEW t \in Thread, NEW f \in AllFlows(t)
  PROVE  f.addr \in Int /\ PoolStart(t) + HandleSize <= f.addr /\ f.addr + FlowSize <= PoolEnd(t)
<1>1. f.addr \in Int /\ flowTop[t] \in Int
  BY DEF PoolInv, Types, AllFlows, FlowType
<1>2. flowTop[t] <= PoolEnd(t)
  BY DEF PoolInv, ThreadInv, BoundsHold, Bounds, PoolBounds
<1> QED
  BY <1>1, <1>2, Sizes, PoolShares DEF PoolInv, ThreadInv, FlowsPlaced

LEMMA JobsInShare ==
  ASSUME PoolInv, NEW t \in Thread, NEW j \in AllJobs(t)
  PROVE  /\ j \in Int /\ PoolStart(t) + HandleSize <= j /\ j + JobSize <= PoolEnd(t)
         /\ \A f \in AllFlows(t) : f.addr + FlowSize <= j
<1>1. j \in Int /\ flowTop[t] \in Int /\ jobBottom[t] \in Int /\ \A f \in AllFlows(t) : f.addr \in Int
  BY DEF PoolInv, Types, AllFlows, AllJobs, FlowType
<1>2. PoolBounds(t)
  BY DEF PoolInv, ThreadInv, BoundsHold, Bounds
<1>3. jobBottom[t] + JobSize <= j /\ j + JobSize <= PoolEnd(t)
  BY DEF PoolInv, ThreadInv, JobsPlaced
<1>4. \A f \in AllFlows(t) : f.addr + FlowSize <= flowTop[t]
  BY DEF PoolInv, ThreadInv, FlowsPlaced
<1> QED
  BY <1>1, <1>2, <1>3, <1>4, Sizes, PoolShares DEF PoolBounds

LEMMA PdsInShare ==
  ASSUME PoolInv, NEW t \in Thread, NEW p \in AllPds(t)
  PROVE  /\ p \in Int /\ PdStart(t) <= p /\ p + PdSize <= PdEnd(t) /\ p < PdLimit * PdSize
         /\ ~useDdr => \A f \in Contexts(t) : p + PdSize <= f.pdf
<1>1. p \in Int /\ pdTop[t] \in Int /\ pdfBottom[t] \in Int /\ \A f \in AllFlows(t) : f.pdf \in Int
  BY DEF PoolInv, Types, AllFlows, AllPds, FlowType
<1>2. SysmemBounds(t)
  BY DEF PoolInv, ThreadInv, BoundsHold, Bounds
<1>3. PdStart(t) <= p /\ p + PdSize <= pdTop[t] /\ p < PdLimit * PdSize
  BY DEF PoolInv, ThreadInv, PdsPlaced
<1>4. ~useDdr => \A f \in Contexts(t) : f \in AllFlows(t) /\ pdfBottom[t] + PdfSize <= f.pdf
  BY DEF PoolInv, ThreadInv, PdfsPlaced, Contexts, AllFlows
<1> QED
  BY <1>1, <1>2, <1>3, <1>4, Sizes, SysmemShares DEF SysmemBounds

LEMMA PdfsInShare ==
  ASSUME PoolInv, NEW t \in Thread, NEW f \in Contexts(t)
  PROVE  /\ f.pdf \in Int /\ f.pdf > 0
         /\ useDdr => DdrStart(t) <= f.pdf /\ f.pdf < DdrEnd(t)
         /\ ~useDdr => PdStart(t) <= f.pdf /\ f.pdf + PdfSize <= PdEnd(t)
<1>1. f \in AllFlows(t) /\ f.kind = "stateful"
  BY DEF Contexts, AllFlows
<1>2. f.pdf \in Int /\ pdTop[t] \in Int /\ pdfBottom[t] \in Int
  BY <1>1 DEF PoolInv, Types, AllFlows, FlowType
<1>3. SysmemBounds(t)
  BY <1>1 DEF PoolInv, ThreadInv, BoundsHold, Bounds
<1>4. IF useDdr THEN DdrStart(t) <= f.pdf /\ f.pdf < DdrEnd(t)
      ELSE pdfBottom[t] + PdfSize <= f.pdf /\ f.pdf + PdfSize <= PdEnd(t)
  BY <1>1 DEF PoolInv, ThreadInv, PdfsPlaced
<1>5. CASE useDdr
  BY <1>2, <1>4, <1>5, DdrShares
<1>6. CASE ~useDdr
  BY <1>2, <1>3, <1>4, <1>6, Sizes, SysmemShares DEF SysmemBounds
<1> QED
  BY <1>5, <1>6

LEMMA PoolsApart ==
  ASSUME PoolInv PROVE NoOverlapInPool
<1> SUFFICES ASSUME NEW t \in Thread, NEW u \in Thread
    PROVE /\ \A f \in flows[t] :
               /\ \A g \in flows[u] : (t = u /\ f = g) \/ Apart(f.addr, FlowSize, g.addr, FlowSize)
               /\ \A g \in freeFlows[u] : Apart(f.addr, FlowSize, g.addr, FlowSize)
               /\ \A j \in jobs[u] \cup freeJobs[u] : Apart(f.addr, FlowSize, j, JobSize)
               /\ Apart(f.addr, FlowSize, PoolStart(u), HandleSize)
          /\ \A j \in jobs[t] :
               /\ \A k \in jobs[u] : (t = u /\ j = k) \/ Apart(j, JobSize, k, JobSize)
               /\ \A k \in freeJobs[u] : Apart(j, JobSize, k, JobSize)
               /\ \A g \in freeFlows[u] : Apart(j, JobSize, g.addr, FlowSize)
               /\ Apart(j, JobSize, PoolStart(u), HandleSize)
  BY DEF NoOverlapInPool
<1>1. t \in Int /\ u \in Int
  BY Sizes DEF Thread
<1>2. /\ PoolStart(t) \in Int /\ PoolEnd(t) \in Int /\ PoolStart(t) + HandleSize <= PoolEnd(t)
      /\ PoolStart(u) \in Int /\ PoolEnd(u) \in Int /\ PoolStart(u) + HandleSize <= PoolEnd(u)
      /\ t < u => PoolEnd(t) <= PoolStart(u)
      /\ u < t => PoolEnd(u) <= PoolStart(t)
  BY PoolShares
<1>3. /\ \A f \in AllFlows(t) : /\ f.addr \in Int /\ PoolStart(t) + HandleSize <= f.addr
                                /\ f.addr + FlowSize <= PoolEnd(t)
      /\ \A f \in AllFlows(u) : /\ f.addr \in Int /\ PoolStart(u) + HandleSize <= f.addr
                                /\ f.addr + FlowSize <= PoolEnd(u)
  BY FlowsInShare
<1>4. /\ \A j \in AllJobs(t) : j \in Int /\ PoolStart(t) + HandleSize <= j /\ j + JobSize <= PoolEnd(t)
      /\ \A j \in AllJobs(u) : j \in Int /\ PoolStart(u) + HandleSize <= j /\ j + JobSize <= PoolEnd(u)
      /\ t = u => \A j \in AllJobs(u), f \in AllFlows(t) : f.addr + FlowSize <= j
  BY JobsInShare
<1>5. /\ flows[t] \subseteq AllFlows(t) /\ flows[u] \subseteq AllFlows(u) /\ freeFlows[u] \subseteq AllFlows(u)
      /\ jobs[t] \subseteq AllJobs(t) /\ AllJobs(u) = jobs[u] \cup freeJobs[u]
  BY DEF AllFlows, AllJobs
<1>6. CASE t # u
  <2>1. \A a, b, m, n \in Int :
          /\ PoolStart(t) + HandleSize <= a /\ a + m <= PoolEnd(t)
          /\ PoolStart(u) <= b /\ b + n <= PoolEnd(u)
          => Apart(a, m, b, n)
    BY <1>1, <1>2, <1>6, Sizes DEF Apart
  <2>2. \A f \in AllFlows(t) :
          /\ \A g \in AllFlows(u) : Apart(f.addr, FlowSize, g.addr, FlowSize)
          /\ \A j \in AllJobs(u) : Apart(f.addr, FlowSize, j, JobSize)
          /\ Apart(f.addr, FlowSize, PoolStart(u), HandleSize)
    BY <1>2, <1>3, <1>4, <2>1, Sizes
  <2>3. \A j \in AllJobs(t) :
          /\ \A k \in AllJobs(u) : Apart(j, JobSize, k, JobSize)
          /\ \A g \in AllFlows(u) : Apart(j, JobSize, g.addr, FlowSize)
          /\ Apart(j, JobSize, PoolStart(u), HandleSize)
    BY <1>2, <1>3, <1>4, <2>1, Sizes
  <2> QED
    BY <1>5, <2>2, <2>3
<1>7. CASE t = u
  <2>1. /\ \A f, g \in AllFlows(t) : f = g \/ Apart(f.addr, FlowSize, g.addr, FlowSize)
        /\ flows[t] \cap freeFlows[t] = {}
        /\ \A j, k \in AllJobs(t) : j = k \/ Apart(j, JobSize, k, JobSize)
        /\ jobs[t] \cap freeJobs[t] = {}
    BY DEF PoolInv, ThreadInv, FlowsPlaced, JobsPlaced
  <2>2. \A f \in AllFlows(t) :
          /\ \A j \in AllJobs(t) : Apart(f.addr, FlowSize, j, JobSize) /\ Apart(j, JobSize, f.addr, FlowSize)
          /\ Apart(f.addr, FlowSize, PoolStart(u), HandleSize)
    BY <1>2, <1>3, <1>4, <1>7, Sizes DEF Apart
  <2>3. \A j \in AllJobs(t) : Apart(j, JobSize, PoolStart(u), HandleSize)
    BY <1>2, <1>4, <1>7, Sizes DEF Apart
  <2> QED
    BY <1>5, <1>7, <2>1, <2>2, <2>3
<1> QED
  BY <1>6, <1>7

LEMMA SysmemApart ==
  ASSUME PoolInv PROVE NoOverlapInSysmem
<1> SUFFICES ASSUME NEW t \in Thread, NEW u \in Thread, NEW p \in pds[t]
    PROVE /\ p > 0 /\ p < PdLimit * PdSize
          /\ \A q \in pds[u] : (t = u /\ p = q) \/ Apart(p, PdSize, q, PdSize)
          /\ \A q \in freePds[u] : Apart(p, PdSize, q, PdSize)
          /\ ~useDdr => \A f \in Contexts(u) : Apart(p, PdSize, f.pdf, PdfSize)
  BY DEF NoOverlapInSysmem
<1>1. t \in Int /\ u \in Int /\ p \in AllPds(t)
  BY Sizes DEF Thread, AllPds
<1>2. /\ PdStart(t) \in Int /\ PdEnd(t) \in Int /\ PdStart(t) > 0
      /\ PdStart(u) \in Int /\ PdEnd(u) \in Int
      /\ t < u => PdEnd(t) <= PdStart(u)
      /\ u < t => PdEnd(u) <= PdStart(t)
  BY SysmemShares
<1>3. /\ p \in Int /\ PdStart(t) <= p /\ p + PdSize <= PdEnd(t) /\ p < PdLimit * PdSize
      /\ ~useDdr => \A f \in Contexts(t) : p + PdSize <= f.pdf
  BY <1>1, PdsInShare
<1>4. \A q \in AllPds(u) : q \in Int /\ PdStart(u) <= q /\ q + PdSize <= PdEnd(u)
  BY PdsInShare
<1>5. ~useDdr => \A f \in Contexts(u) :
        f.pdf \in Int /\ PdStart(u) <= f.pdf /\ f.pdf + PdfSize <= PdEnd(u)
  BY PdfsInShare
<1>6. CASE t # u
  <2>1. \A q \in AllPds(u) : Apart(p, PdSize, q, PdSize)
    BY <1>1, <1>2, <1>3, <1>4, <1>6, Sizes DEF Apart
  <2>2. ~useDdr => \A f \in Contexts(u) : Apart(p, PdSize, f.pdf, PdfSize)
    BY <1>1, <1>2, <1>3, <1>5, <1>6, Sizes DEF Apart
  <2> QED
    BY <1>2, <1>3, <2>1, <2>2 DEF AllPds
<1>7. CASE t = u
  <2>1. /\ \A q \in AllPds(t) : p = q \/ Apart(p, PdSize, q, PdSize)
        /\ pds[t] \cap freePds[t] = {}
    BY <1>1 DEF PoolInv, ThreadInv, PdsPlaced
  <2>2. ~useDdr => \A f \in Contexts(u) : Apart(p, PdSize, f.pdf, PdfSize)
    BY <1>3, <1>5, <1>7, Sizes DEF Apart
  <2>3. p > 0
    BY <1>2, <1>3
  <2> QED
    BY <1>3, <1>7, <2>1, <2>2, <2>3 DEF AllPds
<1> QED
  BY <1>6, <1>7

LEMMA PoolTypes ==
  ASSUME PoolInv PROVE TypeOK
<1>1. ASSUME NEW t \in attached
      PROVE  /\ flowTop[t] \in PoolStart(t) + HandleSize .. PoolEnd(t)
             /\ jobBottom[t] + JobSize <= PoolEnd(t)
             /\ PdStart(t) <= pdTop[t] /\ pdTop[t] <= pdfBottom[t]
             /\ pdfBottom[t] + PdfSize <= PdEnd(t)
  <2>1. t \in Thread /\ flowTop[t] \in Int
    BY DEF PoolInv, Types
  <2>2. Bounds(t)
    BY <2>1 DEF PoolInv, ThreadInv, BoundsHold
  <2> QED
    BY <2>1, <2>2, Sizes, PoolShares DEF Bounds, PoolBounds, SysmemBounds
<1> QED
  BY <1>1 DEF PoolInv, Types, TypeOK, BoundsOK

(* However flows, jobs and PDs are taken and given back by any number of   *)
(* threads: no two objects, in use or free, share memory of the pool or of *)
(* system memory (memory_pool_alloc_flow and the like, sysmem_alloc_pd,    *)
(* sysmem_alloc_pdf).                                                      *)
THEOREM ObjectsNeverOverlap == Spec => []NoOverlap
<1>1. PoolInv => NoOverlap
  BY PoolTypes, PoolsApart, SysmemApart DEF NoOverlap
<1> QED
  BY <1>1, PoolInvariant, PTL

(* No two stateful flows share a context (sysmem_alloc_pdf), in system     *)
(* memory or in DDR, and none has index 0.                                 *)
THEOREM FlowsHaveOwnContext == Spec => []ContextsApart
<1>1. ASSUME PoolInv PROVE ContextsApart
  <2> SUFFICES ASSUME NEW t \in Thread, NEW u \in Thread, NEW f \in Contexts(t), NEW g \in Contexts(u)
      PROVE /\ f.pdf > 0
            /\ \/ t = u /\ f = g
               \/ f.pdf # g.pdf /\ (~useDdr => Apart(f.pdf, PdfSize, g.pdf, PdfSize))
    BY DEF ContextsApart
  <2>1. /\ f.pdf \in Int /\ f.pdf > 0
        /\ useDdr => DdrStart(t) <= f.pdf /\ f.pdf < DdrEnd(t)
        /\ ~useDdr => PdStart(t) <= f.pdf /\ f.pdf + PdfSize <= PdEnd(t)
    BY <1>1, PdfsInShare
  <2>2. /\ g.pdf \in Int
        /\ useDdr => DdrStart(u) <= g.pdf /\ g.pdf < DdrEnd(u)
        /\ ~useDdr => PdStart(u) <= g.pdf /\ g.pdf + PdfSize <= PdEnd(u)
    BY <1>1, PdfsInShare
  <2>3. CASE t = u
    BY <1>1, <2>1, <2>3 DEF PoolInv, ThreadInv, PdfsPlaced, Contexts, AllFlows
  <2>4. CASE t # u
    <3>1. t < u \/ u < t
      BY <2>4, Sizes DEF Thread
    <3>2. CASE useDdr
      BY <2>1, <2>2, <3>1, <3>2, DdrShares
    <3>3. CASE ~useDdr
      BY <2>1, <2>2, <3>1, <3>3, Sizes, SysmemShares DEF Apart
    <3> QED
      BY <2>1, <3>2, <3>3
  <2> QED
    BY <2>3, <2>4
<1> QED
  BY <1>1, PoolInvariant, PTL
=============================================================================
