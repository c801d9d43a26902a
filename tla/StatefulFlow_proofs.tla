------------------------ MODULE StatefulFlow_proofs ------------------------
(***************************************************************************)
(* Proofs about StatefulFlow, for any sets of flows and jobs, any size of  *)
(* the rings and of the device's prefetch, in sessions that enqueue no     *)
(* zero-length packets.                                                    *)
(***************************************************************************)
EXTENDS StatefulFlow, FiniteSetTheorems, SequenceTheorems, TLAPS

-----------------------------------------------------------------------------
(* The inductive invariant.  At the centre is issued[f], the jobs of a     *)
(* flow between the start and the reading of their result.                 *)

(* The started jobs are those of the issued sequences, each once; an       *)
(* end-of-flow job comes last.                                             *)
IssuedExact(f) ==
    /\ Distinct(issued[f])
    /\ \A i \in DOMAIN issued[f] :
          /\ job[issued[f][i]].state = "started" /\ job[issued[f][i]].flow = f
          /\ job[issued[f][i]].term => i = Len(issued[f]) /\ flow[f].type = "invalid"

(* Every started job has the link to the next one, marked if their groups  *)
(* differ; the flow knows the last one.  Only the last one may be marked   *)
(* before it is linked.                                                    *)
Linked(f) ==
    LET n == Len(issued[f])
        last == issued[f][n] IN
    /\ \A i \in 1 .. n - 1 :
          /\ job[issued[f][i]].nla = issued[f][i + 1]
          /\ job[issued[f][i]].disc <=> job[issued[f][i]].comb # job[issued[f][i + 1]].comb
    /\ n > 0 => /\ flow[f].last = last /\ flow[f].lastComb = job[last].comb
                /\ job[last].nla = None
                /\ job[last].disc => pc = "link" /\ job[Head(todo)].flow = f
    /\ n = 0 => flow[f].head = None /\ (flow[f].type # "free" => flow[f].last = None)

(* A flow with jobs is not free, and nlm_destroy_stateful_flow sees that   *)
(* it was used.                                                            *)
SeenUsed(f) ==
    /\ issued[f] # <<>> => flow[f].type # "free"
    /\ flow[f].type = "stateful" /\ issued[f] # <<>> => flow[f].offset # 0 /\ flow[f].comb # 0
    /\ flow[f].groups > 0 => flow[f].comb # 0

(* The first r jobs are in the output ring, in their order.  An FRD ends   *)
(* them, a PRD has a job behind it.                                        *)
RdsInOrder(f, r) ==
    /\ \A i \in DOMAIN issued[f] : (\E p \in DOMAIN output : output[p].job = issued[f][i]) <=> i <= r
    /\ \A p \in DOMAIN output, i \in DOMAIN issued[f] : output[p].job = issued[f][i] =>
          IF output[p].final THEN i = r ELSE i < Len(issued[f])
    /\ \A p, q \in DOMAIN output, i, k \in DOMAIN issued[f] :
          output[p].job = issued[f][i] /\ output[q].job = issued[f][k] /\ i < k => p < q

(* The FD of an end-of-flow job with groups leads to that job itself. *)
FdFits(f, fd) ==
    /\ issued[f] # <<>> /\ fd.job = issued[f][1] /\ fd.comb = job[fd.job].comb
    /\ IF fd.prd
       THEN Follows(fd) # None => /\ Len(issued[f]) > 1 /\ Follows(fd) = issued[f][2]
                                  /\ job[issued[f][2]].comb = fd.comb
       ELSE Len(issued[f]) = 1 /\ job[fd.job].term /\ Follows(fd) = fd.job

(* What the device does with such an FD. *)
TermChain(f, e) ==
    LET j == issued[f][1]
        lead == [job |-> j, prd |-> FALSE, chained |-> TRUE] IN
    /\ Len(issued[f]) = 1 /\ job[j].term /\ e.comb = job[j].comb
    /\ \/ e.q = <<lead>> /\ e.next = j
       \/ e.q = <<lead, [job |-> j, prd |-> TRUE, chained |-> FALSE]>> /\ e.next = None

(* A chain that the device holds continues the jobs it has reported. *)
DataChain(f, r, e) ==
    /\ e.q # <<>> \/ e.next # None
    /\ r + Len(e.q) <= Len(issued[f])
    /\ \A i \in DOMAIN e.q :
          /\ e.q[i] = [job |-> issued[f][r + i], prd |-> TRUE,
                       chained |-> i < Len(e.q) \/ e.next # None]
          /\ job[issued[f][r + i]].comb = e.comb
    /\ e.next # None =>
          /\ r + Len(e.q) < Len(issued[f]) /\ e.next = issued[f][r + Len(e.q) + 1]
          /\ job[e.next].comb = e.comb

EngineFits(f, r) ==
    \/ engine[f] = Idle
    \/ r = 0 /\ TermChain(f, engine[f])
    \/ DataChain(f, r, engine[f])

(* The four places of a chain. *)
Waiting(f) == flow[f].head # None
Sent(f) == \E p \in DOMAIN input : input[p].flow = f
Busy(f) == engine[f] # Idle
Ended(f) == \E p \in DOMAIN output : output[p].final /\ job[output[p].job].flow = f

OnePlace(f, r) ==
    /\ issued[f] # <<>> <=> Waiting(f) \/ Sent(f) \/ Busy(f) \/ Ended(f)
    /\ Waiting(f) => ~Sent(f) /\ ~Busy(f) /\ r = 0 /\ flow[f].head = issued[f][1]
    /\ Sent(f) => ~Busy(f) /\ r = 0
    /\ Busy(f) => ~Ended(f)

ChainAt(f, r) == RdsInOrder(f, r) /\ EngineFits(f, r) /\ OnePlace(f, r)

FlowInv(f) ==
    /\ IssuedExact(f) /\ Linked(f) /\ SeenUsed(f)
    /\ \A p \in DOMAIN input : input[p].flow = f => FdFits(f, input[p])
    /\ \E r \in 0 .. Len(issued[f]) : ChainAt(f, r)

(* The jobs.  A created job waits for nlm_start_jobs in a flow that is not *)
(* being destroyed, or is the end-of-flow job of one that is.              *)
StartedIssued ==
    \A j \in Job : job[j].state = "started" =>
        job[j].flow \in Flow /\ \E i \in DOMAIN issued[job[j].flow] : issued[job[j].flow][i] = j

CreatedReady ==
    \A j \in Job : job[j].state = "created" =>
        /\ job[j].flow \in Flow /\ job[j].nla = None /\ ~job[j].disc
        /\ flow[job[j].flow].comb # 0
        /\ IF job[j].term
           THEN /\ flow[job[j].flow].type = "invalid" /\ todo = <<j>>
                /\ \A i \in DOMAIN issued[job[j].flow] : ~job[issued[job[j].flow][i]].term
           ELSE flow[job[j].flow].type = "stateful" /\ job[j].length = 1

(* The rings name a job, and a flow's FD, once. *)
RingsExact ==
    /\ \A p, q \in DOMAIN input : input[p].flow = input[q].flow => p = q
    /\ \A p, q \in DOMAIN output : output[p].job = output[q].job => p = q
    /\ \A p \in DOMAIN output : job[output[p].job].state = "started"

(* Between the two stores of nlm_start_jobs to a PD. *)
TodoReady ==
    /\ pc \in {"add", "link"} <=> todo # <<>>
    /\ Distinct(todo)
    /\ \A i \in DOMAIN todo : job[todo[i]].state = "created"
    /\ pc = "link" =>
          LET f == job[Head(todo)].flow IN
          /\ flow[f].last # None /\ job[flow[f].last].disc
          /\ job[Head(todo)].comb # flow[f].lastComb

StateInv ==
    /\ PendingListExact /\ StartedIssued /\ CreatedReady /\ RingsExact /\ TodoReady
    /\ \A f \in Flow : FlowInv(f)

-----------------------------------------------------------------------------
(* Sequences. *)
LEMMA SeqFacts ==
  ASSUME NEW S, NEW s \in Seq(S)
  PROVE  /\ Len(s) \in Nat /\ DOMAIN s = 1 .. Len(s) /\ \A i \in 1 .. Len(s) : s[i] \in S
         /\ s = <<>> <=> Len(s) = 0
OBVIOUS

LEMMA TailFacts ==
  ASSUME NEW S, NEW s \in Seq(S), s # <<>>
  PROVE  /\ Tail(s) \in Seq(S) /\ Len(Tail(s)) = Len(s) - 1 /\ Len(s) \in Nat \ {0}
         /\ DOMAIN Tail(s) = 1 .. Len(s) - 1 /\ DOMAIN s = 1 .. Len(s)
         /\ \A i \in 1 .. Len(s) - 1 : Tail(s)[i] = s[i + 1]
         /\ Head(s) = s[1] /\ Head(s) \in S
OBVIOUS

LEMMA AppendFacts ==
  ASSUME NEW S, NEW s \in Seq(S), NEW e \in S
  PROVE  /\ Append(s, e) \in Seq(S) /\ Len(Append(s, e)) = Len(s) + 1 /\ Len(s) \in Nat
         /\ DOMAIN Append(s, e) = 1 .. Len(s) + 1 /\ DOMAIN s = 1 .. Len(s)
         /\ \A i \in 1 .. Len(s) : Append(s, e)[i] = s[i]
         /\ Append(s, e)[Len(s) + 1] = e
OBVIOUS

LEMMA PairFacts ==
  ASSUME NEW x, NEW y
  PROVE  Append(<<x>>, y) = <<x, y>>
<1> DEFINE s == Append(<<x>>, y)
           t == <<x, y>>
<1>1. <<x>> \in Seq({x, y}) /\ t \in Seq({x, y}) /\ Len(<<x>>) = 1 /\ <<x>>[1] = x
  OBVIOUS
<1>2. s \in Seq({x, y}) /\ Len(s) = 2 /\ s[1] = x /\ s[2] = y
  BY <1>1, AppendFacts
<1>3. Len(t) = 2 /\ t[1] = x /\ t[2] = y
  OBVIOUS
<1>4. \A i \in 1 .. 2 : i = 1 \/ i = 2
  OBVIOUS
<1> HIDE DEF s, t
<1>5. \A i \in 1 .. Len(s) : s[i] = t[i]
  BY <1>2, <1>3, <1>4
<1>6. s = t
  BY <1>1, <1>2, <1>3, <1>5, SeqEqual
<1> QED
  BY <1>6 DEF s, t

LEMMA Types ==
  ASSUME TypeOK, NEW f \in Flow
  PROVE  /\ flow[f] \in FlowRecord /\ engine[f] \in EngineRecord
         /\ engine[f].q \in Seq(Fetched) /\ engine[f].next \in Job \cup {None}
         /\ issued[f] \in Seq(Job) /\ Len(issued[f]) \in Nat
         /\ DOMAIN issued[f] = 1 .. Len(issued[f])
         /\ \A i \in 1 .. Len(issued[f]) : issued[f][i] \in Job
         /\ issued[f] = <<>> <=> Len(issued[f]) = 0
         /\ Len(engine[f].q) \in Nat /\ DOMAIN engine[f].q = 1 .. Len(engine[f].q)
<1>1. issued[f] \in Seq(Job) /\ flow[f] \in FlowRecord /\ engine[f] \in EngineRecord
  BY DEF TypeOK
<1> QED
  BY <1>1, SeqFacts DEF EngineRecord

LEMMA RingTypes ==
  ASSUME TypeOK
  PROVE  /\ output \in Seq([job : Job, final : BOOLEAN]) /\ Len(output) \in Nat
         /\ DOMAIN output = 1 .. Len(output)
         /\ \A p \in DOMAIN output : output[p].job \in Job /\ output[p].final \in BOOLEAN
         /\ input \in Seq(FdRecord) /\ Len(input) \in Nat
         /\ DOMAIN input = 1 .. Len(input)
         /\ \A p \in DOMAIN input : input[p] \in FdRecord
<1>1. output \in Seq([job : Job, final : BOOLEAN]) /\ input \in Seq(FdRecord)
  BY DEF TypeOK
<1>2. /\ Len(output) \in Nat /\ DOMAIN output = 1 .. Len(output)
      /\ \A p \in 1 .. Len(output) : output[p] \in [job : Job, final : BOOLEAN]
  BY <1>1, SeqFacts
<1>3. /\ Len(input) \in Nat /\ DOMAIN input = 1 .. Len(input)
      /\ \A p \in 1 .. Len(input) : input[p] \in FdRecord
  BY <1>1, SeqFacts
<1> QED
  BY <1>1, <1>2, <1>3

-----------------------------------------------------------------------------
(* What a step may do to a flow that is not its own, and calls that leave  *)
(* the started jobs and the chains alone.                                  *)
FlowKept(f) ==
    /\ flow'[f].head = flow[f].head
    /\ issued[f] # <<>> =>
          /\ flow'[f].last = flow[f].last /\ flow'[f].lastComb = flow[f].lastComb
          /\ flow'[f].type # "free" /\ (flow[f].type = "invalid" => flow'[f].type = "invalid")
          /\ flow'[f].type = "stateful" => flow'[f].offset # 0 /\ flow'[f].comb # 0
    /\ issued[f] = <<>> /\ flow'[f].type # "free" => flow'[f].last = None
    /\ flow'[f].groups > 0 => flow'[f].comb # 0

(* What the chains depend on of a job. *)
SameJob(j) ==
    /\ job'[j].state = job[j].state /\ job'[j].flow = job[j].flow
    /\ job'[j].comb = job[j].comb /\ job'[j].term = job[j].term

LEMMA ListKept ==
  ASSUME StateInv, NEW f \in Flow, FlowKept(f), issued'[f] = issued[f],
         \A i \in DOMAIN issued[f] : job'[issued[f][i]] = job[issued[f][i]],
         pc = "link" /\ job[Head(todo)].flow = f => pc' = "link" /\ job'[Head(todo')].flow = f
  PROVE  IssuedExact(f)' /\ Linked(f)' /\ SeenUsed(f)'
<1>1. TypeOK /\ FlowInv(f)
  BY DEF StateInv, PendingListExact
<1>2. /\ issued[f] \in Seq(Job) /\ Len(issued[f]) \in Nat /\ DOMAIN issued[f] = 1 .. Len(issued[f])
      /\ issued[f] = <<>> <=> Len(issued[f]) = 0
  BY <1>1, Types
<1>3. IssuedExact(f)'
  BY <1>1, <1>2 DEF FlowInv, IssuedExact, FlowKept, Distinct
<1>4. Linked(f)'
  <2>1. \A i \in 1 .. Len(issued[f]) - 1 : i \in DOMAIN issued[f] /\ i + 1 \in DOMAIN issued[f]
    BY <1>2
  <2>2. Len(issued[f]) > 0 => Len(issued[f]) \in DOMAIN issued[f] /\ issued[f] # <<>>
    BY <1>2
  <2>3. Len(issued[f]) = 0 => flow'[f].head = None /\ (flow'[f].type # "free" => flow'[f].last = None)
    BY <1>1, <1>2 DEF FlowInv, Linked, FlowKept
  <2>4. Len(issued[f]) > 0 =>
          LET last == issued[f][Len(issued[f])] IN
          /\ flow'[f].last = last /\ flow'[f].lastComb = job'[last].comb
          /\ job'[last].nla = None
          /\ job'[last].disc => pc' = "link" /\ job'[Head(todo')].flow = f
    BY <1>1, <2>2 DEF FlowInv, Linked, FlowKept
  <2>5. \A i \in 1 .. Len(issued[f]) - 1 :
          /\ job'[issued[f][i]].nla = issued[f][i + 1]
          /\ job'[issued[f][i]].disc <=> job'[issued[f][i]].comb # job'[issued[f][i + 1]].comb
    <3> SUFFICES ASSUME NEW i \in 1 .. Len(issued[f]) - 1
                 PROVE  /\ job'[issued[f][i]].nla = issued[f][i + 1]
                        /\ job'[issued[f][i]].disc <=> job'[issued[f][i]].comb # job'[issued[f][i + 1]].comb
      OBVIOUS
    <3>1. job'[issued[f][i]] = job[issued[f][i]] /\ job'[issued[f][i + 1]] = job[issued[f][i + 1]]
      BY <2>1
    <3>2. /\ job[issued[f][i]].nla = issued[f][i + 1]
          /\ job[issued[f][i]].disc <=> job[issued[f][i]].comb # job[issued[f][i + 1]].comb
      BY <1>1 DEF FlowInv, Linked
    <3> QED
      BY <3>1, <3>2
  <2> QED
    BY <2>3, <2>4, <2>5 DEF Linked
<1>5. SeenUsed(f)'
  BY <1>1 DEF SeenUsed, FlowKept
<1> QED
  BY <1>3, <1>4, <1>5

(* The device's part of EngineFits depends on the jobs of the flow only. *)
LEMMA EngineKept ==
  ASSUME StateInv, NEW f \in Flow, NEW r \in 0 .. Len(issued[f]), EngineFits(f, r),
         engine'[f] = engine[f], issued'[f] = issued[f],
         \A i \in DOMAIN issued[f] : SameJob(issued[f][i])
  PROVE  EngineFits(f, r)'
<1>1. TypeOK
  BY DEF StateInv, PendingListExact
<1>2. /\ issued[f] \in Seq(Job) /\ Len(issued[f]) \in Nat /\ DOMAIN issued[f] = 1 .. Len(issued[f])
      /\ issued[f] = <<>> <=> Len(issued[f]) = 0
      /\ Len(engine[f].q) \in Nat /\ DOMAIN engine[f].q = 1 .. Len(engine[f].q)
  BY <1>1, Types
<1>3. CASE engine[f] = Idle
  BY <1>3 DEF EngineFits
<1>4. CASE r = 0 /\ TermChain(f, engine[f])
  <2>1. TermChain(f, engine[f])'
    <3>1. Len(issued[f]) = 1
      BY <1>4 DEF TermChain
    <3>2. SameJob(issued[f][1])
      BY <1>2, <3>1
    <3> QED
      BY <1>4, <3>2 DEF TermChain, SameJob
  <2> QED
    BY <1>4, <2>1 DEF EngineFits
<1>5. CASE DataChain(f, r, engine[f])
  <2>1. \A i \in DOMAIN engine[f].q : r + i \in DOMAIN issued[f]
    BY <1>2, <1>5 DEF DataChain
  <2>2. \A i \in DOMAIN engine[f].q : job'[issued[f][r + i]].comb = job[issued[f][r + i]].comb
    BY <2>1 DEF SameJob
  <2>3. engine[f].next # None => r + Len(engine[f].q) + 1 \in DOMAIN issued[f]
    BY <1>2, <1>5 DEF DataChain
  <2>4. engine[f].next # None => job'[engine[f].next].comb = job[engine[f].next].comb
    BY <1>5, <2>3 DEF DataChain, SameJob
  <2>5. DataChain(f, r, engine[f])'
    BY <1>5, <2>2, <2>4 DEF DataChain
  <2> QED
    BY <2>5 DEF EngineFits
<1> QED
  BY <1>3, <1>4, <1>5 DEF EngineFits

(* The chain of a flow is where it was. *)
ChainInv(f) ==
    /\ \A p \in DOMAIN input : input[p].flow = f => FdFits(f, input[p])
    /\ \E r \in 0 .. Len(issued[f]) : ChainAt(f, r)

LEMMA ChainKept ==
  ASSUME StateInv, NEW f \in Flow, flow'[f].head = flow[f].head,
         engine'[f] = engine[f], issued'[f] = issued[f],
         \A i \in DOMAIN issued[f] : SameJob(issued[f][i]),
         Sent(f)' <=> Sent(f), Ended(f)' <=> Ended(f),
         \A p \in DOMAIN input' : input'[p].flow = f => \E q \in DOMAIN input : input[q] = input'[p],
         \A r \in 0 .. Len(issued[f]) : RdsInOrder(f, r) => RdsInOrder(f, r)'
  PROVE  ChainInv(f)'
<1>1. TypeOK /\ FlowInv(f)
  BY DEF StateInv, PendingListExact
<1>2. /\ Len(issued[f]) \in Nat /\ DOMAIN issued[f] = 1 .. Len(issued[f])
      /\ issued[f] = <<>> <=> Len(issued[f]) = 0
  BY <1>1, Types
<1>3. ASSUME NEW p \in DOMAIN input', input'[p].flow = f PROVE FdFits(f, input[p])'
  <2>1. FdFits(f, input'[p])
    BY <1>1, <1>3 DEF FlowInv
  <2>2. issued[f] # <<>> /\ 1 \in DOMAIN issued[f] /\ (Len(issued[f]) > 1 => 2 \in DOMAIN issued[f])
    BY <1>2, <2>1 DEF FdFits
  <2>3. SameJob(issued[f][1]) /\ (Len(issued[f]) > 1 => SameJob(issued[f][2]))
    BY <2>2
  <2> QED
    BY <2>1, <2>2, <2>3 DEF FdFits, Follows, SameJob
<1>4. PICK r \in 0 .. Len(issued[f]) : ChainAt(f, r)
  BY <1>1 DEF FlowInv
<1>5. EngineFits(f, r)'
  BY <1>4, EngineKept DEF ChainAt
<1>6. OnePlace(f, r)'
  <2>1. (Waiting(f)' <=> Waiting(f)) /\ (Busy(f)' <=> Busy(f))
    BY DEF Waiting, Busy
  <2> QED
    BY <1>4, <2>1 DEF ChainAt, OnePlace, Waiting
<1> QED
  BY <1>3, <1>4, <1>5, <1>6 DEF ChainAt, ChainInv

(* A flow none of whose jobs, descriptors or places is touched. *)
LEMMA FlowInvParts ==
  ASSUME NEW f \in Flow
  PROVE  FlowInv(f) <=> IssuedExact(f) /\ Linked(f) /\ SeenUsed(f) /\ ChainInv(f)
BY DEF FlowInv, ChainInv

LEMMA EndedKept ==
  ASSUME StateInv, output' = output, \A j \in Job : job[j].state = "started" => job'[j].flow = job[j].flow,
         NEW f \in Flow
  PROVE  Ended(f)' <=> Ended(f)
<1>1. TypeOK /\ RingsExact
  BY DEF StateInv, PendingListExact
<1>2. \A p \in DOMAIN output : output[p].job \in Job
  BY <1>1, RingTypes
<1>3. \A p \in DOMAIN output : job'[output[p].job].flow = job[output[p].job].flow
  BY <1>1, <1>2 DEF RingsExact
<1> QED
  BY <1>3 DEF Ended

StartedKept ==
    /\ \A j \in Job : job[j].state = "started" => job'[j] = job[j]
    /\ \A j \in Job : job'[j].state = "started" => job[j].state = "started"

LEMMA QuietKeeps ==
  ASSUME StateInv, pc # "link", StartedKept, \A f \in Flow : FlowKept(f),
         UNCHANGED <<pending, input, engine, output, issued>>,
         TypeOK', CreatedReady', TodoReady'
  PROVE  StateInv'
<1>1. TypeOK /\ RingsExact /\ StartedIssued
  BY DEF StateInv, PendingListExact
<1>2. PendingListExact'
  BY DEF StateInv, PendingListExact, FlowKept, Distinct
<1>3. StartedIssued'
  BY <1>1 DEF StartedIssued, StartedKept
<1>4. RingsExact'
  BY <1>1, RingTypes DEF RingsExact, StartedKept
<1>5. ASSUME NEW f \in Flow PROVE FlowInv(f)'
  <2>1. FlowInv(f) /\ FlowKept(f)
    BY DEF StateInv
  <2>2. \A i \in DOMAIN issued[f] : issued[f][i] \in Job
    BY <1>1, Types
  <2>3. \A i \in DOMAIN issued[f] : job'[issued[f][i]] = job[issued[f][i]]
    BY <2>1, <2>2 DEF StartedKept, FlowInv, IssuedExact
  <2>4. IssuedExact(f)' /\ Linked(f)' /\ SeenUsed(f)'
    BY <2>1, <2>3, ListKept
  <2>5. \A i \in DOMAIN issued[f] : SameJob(issued[f][i])
    BY <2>3 DEF SameJob
  <2>6. Sent(f)' <=> Sent(f)
    BY DEF Sent
  <2>7. Ended(f)' <=> Ended(f)
    BY EndedKept DEF StartedKept
  <2>8. \A r \in 0 .. Len(issued[f]) : RdsInOrder(f, r) => RdsInOrder(f, r)'
    BY DEF RdsInOrder
  <2>9. ChainInv(f)'
    BY <2>1, <2>5, <2>6, <2>7, <2>8, ChainKept DEF FlowKept
  <2> QED
    BY <2>4, <2>9 DEF FlowInv, ChainInv
<1> QED
  BY <1>2, <1>3, <1>4, <1>5 DEF StateInv

-----------------------------------------------------------------------------
(* The calls of the application. *)
LEMMA AtIdle ==
  ASSUME StateInv, pc \notin {"add", "link"}
  PROVE  /\ todo = <<>>
         /\ \A j \in Job : job[j].state = "created" =>
               /\ job[j].flow \in Flow /\ job[j].nla = None /\ ~job[j].disc /\ ~job[j].term
               /\ flow[job[j].flow].comb # 0 /\ flow[job[j].flow].type = "stateful"
               /\ job[j].length = 1
<1>1. todo = <<>>
  BY DEF StateInv, TodoReady
<1>2. \A j \in Job : todo # <<j>>
  BY <1>1
<1> QED
  BY <1>1, <1>2 DEF StateInv, CreatedReady

(* nothing but the record of one flow changes *)
LEMMA FlowCallKeeps ==
  ASSUME StateInv, pc = "idle", NEW f \in Flow, NEW x \in FlowRecord,
         flow' = [flow EXCEPT ![f] = x], UNCHANGED <<job, pending, input, device, pc, todo, issued>>,
         FlowKept(f), x.type = "stateful",
         (\E j \in Job : job[j].state = "created" /\ job[j].flow = f) => x.comb # 0
  PROVE  StateInv'
<1>1. TypeOK /\ RingsExact /\ StartedIssued /\ TodoReady
  BY DEF StateInv, PendingListExact
<1>2. flow \in [Flow -> FlowRecord]
  BY <1>1 DEF TypeOK
<1>3. \A g \in Flow : flow'[g] = IF g = f THEN x ELSE flow[g]
  BY <1>2
<1>4. StartedKept
  BY DEF StartedKept
<1>5. ASSUME NEW g \in Flow PROVE FlowKept(g)
  <2>1. CASE g = f
    BY <2>1
  <2>2. CASE g # f
    <3>1. FlowInv(g) /\ Len(issued[g]) \in Nat /\ (issued[g] = <<>> <=> Len(issued[g]) = 0)
      BY <1>1, Types DEF StateInv
    <3>2. flow'[g] = flow[g]
      BY <1>3, <2>2
    <3> QED
      BY <3>1, <3>2 DEF FlowKept, FlowInv, Linked, SeenUsed
  <2> QED
    BY <2>1, <2>2
<1>6. TypeOK'
  BY <1>1, <1>2 DEF TypeOK, device
<1>7. CreatedReady'
  BY <1>3, AtIdle DEF CreatedReady, StateInv
<1>8. TodoReady'
  BY <1>1 DEF TodoReady
<1> QED
  BY <1>4, <1>5, <1>6, <1>7, <1>8, QuietKeeps DEF device

LEMMA CreateFlowKeeps ==
  ASSUME StateInv, NEW f \in Flow, CreateFlow(f)
  PROVE  StateInv'
<1> DEFINE x == [ZeroFlow EXCEPT !.type = "stateful"]
<1>1. x = [type |-> "stateful", groups |-> 0, comb |-> 0, lastComb |-> 0,
           offset |-> 0, last |-> None, head |-> None]
  BY DEF ZeroFlow
<1> HIDE DEF x
<1>2. x \in FlowRecord /\ x.type = "stateful" /\ x.groups = 0 /\ x.head = None /\ x.last = None
  BY <1>1 DEF FlowRecord
<1>3. TypeOK /\ FlowInv(f) /\ pc = "idle" /\ flow[f].type = "free"
  BY DEF StateInv, PendingListExact, CreateFlow
<1>4. issued[f] = <<>> /\ flow[f].head = None
  BY <1>3, Types DEF FlowInv, Linked, SeenUsed
<1>5. flow' = [flow EXCEPT ![f] = x] /\ UNCHANGED <<job, pending, input, device, pc, todo, issued>>
  BY DEF CreateFlow, x
<1>6. flow'[f] = x
  BY <1>3, <1>5 DEF TypeOK
<1>7. FlowKept(f)
  BY <1>2, <1>4, <1>6 DEF FlowKept
<1>8. ~\E j \in Job : job[j].state = "created" /\ job[j].flow = f
  BY <1>3, AtIdle
<1> QED
  BY <1>2, <1>3, <1>5, <1>7, <1>8, FlowCallKeeps

LEMMA GroupsKeep ==
  ASSUME StateInv, NEW f \in Flow, AddGroup(f) \/ RemoveGroup(f) \/ EnqueueRefused(f)
  PROVE  StateInv'
<1>1. TypeOK /\ FlowInv(f) /\ pc = "idle" /\ flow[f].type = "stateful" /\ flow[f] \in FlowRecord
  BY Types DEF StateInv, PendingListExact, AddGroup, RemoveGroup, EnqueueRefused, Enqueueable
<1>2. PICK n \in Nat : flow' = [flow EXCEPT ![f].groups = n, ![f].comb = @ + 1]
  <2>1. CASE AddGroup(f)
    <3>1. flow' = [flow EXCEPT ![f].groups = flow[f].groups + 1, ![f].comb = @ + 1]
      BY <2>1 DEF AddGroup
    <3>2. flow[f].groups + 1 \in Nat
      BY <1>1 DEF FlowRecord
    <3> QED
      BY <3>1, <3>2
  <2>2. CASE RemoveGroup(f)
    <3>1. flow' = [flow EXCEPT ![f].groups = flow[f].groups - 1, ![f].comb = @ + 1]
      BY <2>2 DEF RemoveGroup
    <3>2. flow[f].groups - 1 \in Nat
      BY <1>1, <2>2 DEF FlowRecord, RemoveGroup
    <3> QED
      BY <3>1, <3>2
  <2>3. CASE EnqueueRefused(f)
    <3>1. flow' = [flow EXCEPT ![f].comb = @ + 1] /\ flow \in [Flow -> FlowRecord]
      BY <1>1, <2>3 DEF EnqueueRefused, TypeOK
    <3>2. [flow[f] EXCEPT !.groups = flow[f].groups, !.comb = @ + 1] = [flow[f] EXCEPT !.comb = @ + 1]
      BY <1>1 DEF FlowRecord
    <3>3. flow' = [flow EXCEPT ![f].groups = flow[f].groups, ![f].comb = @ + 1]
      BY <3>1, <3>2
    <3>4. flow[f].groups \in Nat
      BY <1>1 DEF FlowRecord
    <3> QED
      BY <3>3, <3>4
  <2> QED
    BY <2>1, <2>2, <2>3
<1> DEFINE x == [flow[f] EXCEPT !.groups = n, !.comb = @ + 1]
<1>3. x \in FlowRecord /\ x.type = "stateful" /\ x.comb = flow[f].comb + 1
      /\ x.head = flow[f].head /\ x.last = flow[f].last /\ x.lastComb = flow[f].lastComb
      /\ x.offset = flow[f].offset
  <2>1. flow[f].comb \in Nat /\ flow[f].comb + 1 \in Nat
    BY <1>1 DEF FlowRecord
  <2>2. x \in FlowRecord
    BY <1>1, <2>1 DEF FlowRecord
  <2> QED
    BY <1>1, <2>2 DEF FlowRecord
<1>4. flow' = [flow EXCEPT ![f] = x] /\ UNCHANGED <<job, pending, input, device, pc, todo, issued>>
  BY <1>1, <1>2 DEF AddGroup, RemoveGroup, EnqueueRefused, TypeOK
<1>5. flow[f].comb \in Nat /\ x.comb # 0
  BY <1>1, <1>3 DEF FlowRecord
<1> HIDE DEF x
<1>6. flow'[f] = x
  BY <1>1, <1>4 DEF TypeOK
<1>7. issued[f] = <<>> <=> Len(issued[f]) = 0
  BY <1>1, Types
<1>8. FlowKept(f)
  BY <1>1, <1>3, <1>5, <1>6, <1>7 DEF FlowKept, FlowInv, Linked, SeenUsed
<1> QED
  BY <1>1, <1>3, <1>4, <1>5, <1>8, FlowCallKeeps

(* the record of one flow changes, and jobs that are not started *)
LEMMA CallKeeps ==
  ASSUME StateInv, pc = "idle", NEW f \in Flow, NEW x \in FlowRecord,
         flow' = [flow EXCEPT ![f] = x], job' \in [Job -> JobRecord], StartedKept, FlowKept(f),
         UNCHANGED <<pending, input, device, issued>>,
         pc' \in {"idle", "add"}, todo' \in Seq(Job), CreatedReady', TodoReady'
  PROVE  StateInv'
<1>1. TypeOK /\ RingsExact /\ StartedIssued
  BY DEF StateInv, PendingListExact
<1>2. flow \in [Flow -> FlowRecord]
  BY <1>1 DEF TypeOK
<1>3. ASSUME NEW g \in Flow PROVE FlowKept(g)
  <2>1. CASE g = f
    BY <2>1
  <2>2. CASE g # f
    <3>1. FlowInv(g) /\ Len(issued[g]) \in Nat /\ (issued[g] = <<>> <=> Len(issued[g]) = 0)
      BY <1>1, Types DEF StateInv
    <3>2. flow'[g] = flow[g]
      BY <1>2, <2>2
    <3> QED
      BY <3>1, <3>2 DEF FlowKept, FlowInv, Linked, SeenUsed
  <2> QED
    BY <2>1, <2>2
<1>4. TypeOK'
  BY <1>1, <1>2 DEF TypeOK, device
<1> QED
  BY <1>3, <1>4, QuietKeeps DEF device

(* the flow's combination is advanced, or not, and its type is kept or     *)
(* becomes "invalid"                                                       *)
LEMMA FlowCounted ==
  ASSUME StateInv, NEW f \in Flow, flow[f].type = "stateful",
         NEW n \in Nat, n >= flow[f].comb, NEW t \in {"stateful", "invalid"}
  PROVE  LET x == [flow[f] EXCEPT !.type = t, !.comb = n] IN
         /\ x \in FlowRecord /\ x.type = t /\ x.comb = n
         /\ flow' = [flow EXCEPT ![f] = x] => FlowKept(f) /\ flow'[f] = x
<1>1. TypeOK /\ FlowInv(f) /\ flow[f] \in FlowRecord /\ flow \in [Flow -> FlowRecord]
  BY Types DEF StateInv, PendingListExact, TypeOK
<1> DEFINE x == [flow[f] EXCEPT !.type = t, !.comb = n]
<1>2. x \in FlowRecord
  BY <1>1 DEF FlowRecord
<1>3. /\ x.type = t /\ x.comb = n /\ x.head = flow[f].head /\ x.last = flow[f].last
      /\ x.lastComb = flow[f].lastComb /\ x.offset = flow[f].offset /\ x.groups = flow[f].groups
  BY <1>1 DEF FlowRecord
<1>4. flow[f].comb \in Nat /\ (flow[f].comb # 0 => n # 0)
  BY <1>1 DEF FlowRecord
<1> HIDE DEF x
<1>5. ASSUME flow' = [flow EXCEPT ![f] = x] PROVE FlowKept(f) /\ flow'[f] = x
  <2>1. flow'[f] = x
    BY <1>1, <1>5
  <2>2. issued[f] = <<>> <=> Len(issued[f]) = 0
    BY <1>1, Types
  <2>3. flow'[f].head = flow[f].head /\ (flow'[f].groups > 0 => flow'[f].comb # 0)
    BY <1>1, <1>3, <1>4, <2>1 DEF FlowInv, SeenUsed
  <2>4. issued[f] = <<>> /\ flow'[f].type # "free" => flow'[f].last = None
    BY <1>1, <1>3, <2>1, <2>2 DEF FlowInv, Linked
  <2>5. issued[f] # <<>> => flow'[f].offset # 0 /\ flow'[f].comb # 0
    BY <1>1, <1>3, <1>4, <2>1 DEF FlowInv, SeenUsed
  <2> QED
    BY <1>3, <2>1, <2>3, <2>4, <2>5 DEF FlowKept
<1> QED
  BY <1>2, <1>3, <1>5 DEF x

LEMMA NewJobType ==
  ASSUME TypeOK, NEW f \in Flow, NEW n \in Nat, NEW length \in {0, 1}
  PROVE  /\ LET y == NewJob(f, n, length) IN
            /\ y \in JobRecord /\ y.state = "created" /\ y.flow = f /\ y.nla = None
            /\ ~y.disc /\ ~y.term /\ y.length = length /\ y.comb = n
         /\ FreeJob \in JobRecord /\ FreeJob.state = "free"
         /\ [FreeJob EXCEPT !.state = "orphan"] \in JobRecord
         /\ [FreeJob EXCEPT !.state = "orphan"].state = "orphan"
<1>1. flow[f].groups \in Nat
  BY DEF TypeOK, FlowRecord
<1>2. /\ FreeJob \in JobRecord /\ FreeJob.state = "free"
      /\ [FreeJob EXCEPT !.state = "orphan"] \in JobRecord
      /\ [FreeJob EXCEPT !.state = "orphan"].state = "orphan"
  BY DEF FreeJob, JobRecord
<1>3. FreeJob.nla = None /\ ~FreeJob.disc /\ ~FreeJob.term
  BY DEF FreeJob
<1> DEFINE y == NewJob(f, n, length)
<1>4. y \in JobRecord
  BY <1>1, <1>2 DEF NewJob, JobRecord
<1>5. y.state = "created" /\ y.flow = f /\ y.length = length /\ y.comb = n
  BY <1>2 DEF NewJob, JobRecord
<1>6. y.nla = None /\ ~y.disc /\ ~y.term
  BY <1>2, <1>3 DEF NewJob, JobRecord
<1> QED
  BY <1>2, <1>4, <1>5, <1>6

LEMMA EnqueueKeeps ==
  ASSUME StateInv, ~ZeroLength, NEW f \in Flow, NEW j \in Job, NEW length \in {0, 1},
         NEW separate \in BOOLEAN,
         EnqueueSearch(f, j, length, separate) \/ EnqueueFails(f, j, separate)
  PROVE  StateInv'
<1>1. /\ pc = "idle" /\ flow[f].type = "stateful" /\ flow[f].groups > 0 /\ job[j].state = "free"
      /\ flow' = [flow EXCEPT ![f].comb = NextComb(f, separate)]
      /\ UNCHANGED <<pending, input, device, pc, todo, issued>>
  BY DEF EnqueueSearch, EnqueueFails, Enqueueable
<1>2. /\ TypeOK /\ FlowInv(f) /\ flow[f] \in FlowRecord /\ flow \in [Flow -> FlowRecord]
      /\ job \in [Job -> JobRecord] /\ todo \in Seq(Job) /\ TodoReady
  BY Types DEF StateInv, PendingListExact, TypeOK
<1> DEFINE n == NextComb(f, separate)
           x == [flow[f] EXCEPT !.type = "stateful", !.comb = n]
<1>3. n \in Nat /\ n >= flow[f].comb /\ n # 0
  <2>1. flow[f].comb \in Nat /\ flow[f].comb # 0
    BY <1>1, <1>2 DEF FlowRecord, FlowInv, SeenUsed
  <2> QED
    BY <2>1 DEF NextComb
<1>4. flow' = [flow EXCEPT ![f] = x]
  <2>1. x = [flow[f] EXCEPT !.comb = n]
    BY <1>1, <1>2 DEF FlowRecord
  <2> QED
    BY <1>1, <1>2, <2>1
<1>5. x \in FlowRecord /\ x.type = "stateful" /\ x.comb = n /\ FlowKept(f) /\ flow'[f] = x
  BY <1>1, <1>3, <1>4, FlowCounted, ZenonT(60)
<1> HIDE DEF x, n
<1>6. \A g \in Flow : flow'[g] = IF g = f THEN x ELSE flow[g]
  BY <1>2, <1>4
<1>7. PICK y \in JobRecord :
         /\ job' = [job EXCEPT ![j] = y]
         /\ \/ y.state = "orphan"
            \/ y.state = "created" /\ y.flow = f /\ y.nla = None /\ ~y.disc /\ ~y.term /\ y.length = 1
  <2>1. CASE EnqueueSearch(f, j, length, separate)
    <3>1. length = 1
      BY <2>1 DEF EnqueueSearch
    <3>2. job' = [job EXCEPT ![j] = NewJob(f, n, length)]
      BY <2>1 DEF EnqueueSearch, n
    <3>3. LET y == NewJob(f, n, length) IN
          /\ y \in JobRecord /\ y.state = "created" /\ y.flow = f /\ y.nla = None
          /\ ~y.disc /\ ~y.term /\ y.length = length
      BY <1>2, <1>3, NewJobType
    <3> QED
      BY <3>1, <3>2, <3>3
  <2>2. CASE EnqueueFails(f, j, separate)
    <3> DEFINE y == [job[j] EXCEPT !.state = "orphan"]
    <3>1. job' = [job EXCEPT ![j] = y]
      BY <1>2, <2>2 DEF EnqueueFails
    <3>2. job[j] \in JobRecord
      BY <1>2
    <3>3. y \in JobRecord /\ y.state = "orphan"
      BY <3>2 DEF JobRecord
    <3> QED
      BY <3>1, <3>3
  <2> QED
    BY <2>1, <2>2
<1>8. \A k \in Job : job'[k] = IF k = j THEN y ELSE job[k]
  BY <1>2, <1>7
<1>9. job' \in [Job -> JobRecord] /\ StartedKept
  BY <1>1, <1>2, <1>7, <1>8 DEF StartedKept
<1>10. CreatedReady'
  <2> SUFFICES ASSUME NEW k \in Job, job'[k].state = "created"
               PROVE  /\ job'[k].flow \in Flow /\ job'[k].nla = None /\ ~job'[k].disc /\ ~job'[k].term
                      /\ flow'[job'[k].flow].comb # 0 /\ flow'[job'[k].flow].type = "stateful"
                      /\ job'[k].length = 1
    BY DEF CreatedReady
  <2>1. CASE k = j
    BY <1>3, <1>5, <1>7, <1>8, <2>1
  <2>2. CASE k # j
    <3>1. job'[k] = job[k] /\ job[k].state = "created"
      BY <1>8, <2>2
    <3>2. /\ job[k].flow \in Flow /\ job[k].nla = None /\ ~job[k].disc /\ ~job[k].term
          /\ flow[job[k].flow].comb # 0 /\ flow[job[k].flow].type = "stateful" /\ job[k].length = 1
      BY <1>1, <3>1, AtIdle
    <3> QED
      BY <1>3, <1>5, <1>6, <3>1, <3>2
  <2> QED
    BY <2>1, <2>2
<1>11. TodoReady'
  BY <1>1, <1>2, AtIdle DEF TodoReady, Distinct
<1> QED
  BY <1>1, <1>2, <1>4, <1>5, <1>9, <1>10, <1>11, CallKeeps

LEMMA SameFlowKept ==
  ASSUME StateInv, NEW f \in Flow, flow'[f] = flow[f]
  PROVE  FlowKept(f)
<1>1. FlowInv(f) /\ (issued[f] = <<>> <=> Len(issued[f]) = 0)
  BY Types DEF StateInv, PendingListExact
<1> QED
  BY <1>1 DEF FlowKept, FlowInv, Linked, SeenUsed

LEMMA CancelKeeps ==
  ASSUME StateInv, NEW j \in Job, CancelJob(j)
  PROVE  StateInv'
<1>1. /\ pc = "idle" /\ job[j].state = "created" /\ job' = [job EXCEPT ![j] = FreeJob]
      /\ UNCHANGED <<flow, pending, input, device, pc, todo, issued>>
  BY DEF CancelJob
<1>2. TypeOK /\ job \in [Job -> JobRecord] /\ TodoReady
  BY DEF StateInv, PendingListExact, TypeOK
<1>3. FreeJob \in JobRecord /\ FreeJob.state = "free"
  BY DEF FreeJob, JobRecord
<1>4. \A k \in Job : job'[k] = IF k = j THEN FreeJob ELSE job[k]
  BY <1>1, <1>2
<1>5. job' \in [Job -> JobRecord] /\ StartedKept
  BY <1>1, <1>2, <1>3, <1>4 DEF StartedKept
<1>6. TypeOK'
  BY <1>1, <1>2, <1>5 DEF TypeOK, device
<1>7. CreatedReady'
  BY <1>1, <1>3, <1>4, AtIdle DEF CreatedReady
<1>8. TodoReady'
  BY <1>1, <1>2, AtIdle DEF TodoReady, Distinct
<1>9. \A f \in Flow : FlowKept(f)
  BY <1>1, SameFlowKept
<1> QED
  BY <1>1, <1>5, <1>6, <1>7, <1>8, <1>9, QuietKeeps DEF device

LEMMA StartJobsKeeps ==
  ASSUME StateInv, NEW batch \in Batches, StartJobs(batch)
  PROVE  StateInv'
<1>1. /\ pc = "idle" /\ batch # <<>> /\ Distinct(batch) /\ pc' = "add" /\ todo' = batch
      /\ \A i \in DOMAIN batch : job[batch[i]].state = "created"
      /\ UNCHANGED <<flow, job, pending, input, device, issued>>
  BY DEF StartJobs
<1>2. TypeOK
  BY DEF StateInv, PendingListExact
<1>3. batch \in Seq(Job)
  BY DEF Batches
<1>4. TypeOK'
  BY <1>1, <1>2, <1>3 DEF TypeOK, device
<1>5. CreatedReady'
  BY <1>1, AtIdle DEF CreatedReady
<1>6. TodoReady'
  BY <1>1 DEF TodoReady
<1>7. \A f \in Flow : FlowKept(f)
  BY <1>1, SameFlowKept
<1>8. StartedKept
  BY <1>1 DEF StartedKept
<1> QED
  BY <1>1, <1>4, <1>5, <1>6, <1>7, <1>8, QuietKeeps DEF device

LEMMA TurnKeeps ==
  ASSUME StateInv, PollEmpty \/ FinishResults \/ FinishStart
  PROVE  StateInv'
<1>1. /\ pc \in {"idle", "results", "start"} /\ pc' \in {"idle", "start"}
      /\ UNCHANGED <<flow, job, pending, input, engine, output, todo, issued>>
      /\ visible' = visible \/ visible' = Len(input)
  BY DEF PollEmpty, FinishResults, FinishStart, device
<1>2. TypeOK /\ TodoReady /\ CreatedReady /\ Len(input) \in Nat
  BY RingTypes DEF StateInv, PendingListExact
<1>3. TypeOK'
  BY <1>1, <1>2 DEF TypeOK
<1>4. CreatedReady'
  BY <1>1, <1>2 DEF CreatedReady
<1>5. TodoReady'
  BY <1>1, <1>2 DEF TodoReady, Distinct
<1>6. \A f \in Flow : FlowKept(f)
  BY <1>1, SameFlowKept
<1>7. StartedKept
  BY <1>1 DEF StartedKept
<1> QED
  BY <1>1, <1>3, <1>4, <1>5, <1>6, <1>7, QuietKeeps

(* The jobs that a destroyed flow leaves behind. *)
LEMMA OrphanedFacts ==
  ASSUME TypeOK, NEW f \in Flow
  PROVE  /\ Orphaned(f) \in [Job -> JobRecord]
         /\ \A j \in Job : Orphaned(f)[j].state # "orphan" => Orphaned(f)[j] = job[j]
         /\ \A j \in Job : job[j].state = "created" /\ job[j].flow = f => Orphaned(f)[j].state = "orphan"
         /\ \A j \in Job : job[j].state = "started" => Orphaned(f)[j] = job[j]
<1>1. job \in [Job -> JobRecord]
  BY DEF TypeOK
<1>2. [FreeJob EXCEPT !.state = "orphan"] \in JobRecord /\ [FreeJob EXCEPT !.state = "orphan"].state = "orphan"
  BY DEF FreeJob, JobRecord
<1> QED
  BY <1>1, <1>2 DEF Orphaned

LEMMA DestroyUnusedKeeps ==
  ASSUME StateInv, NEW f \in Flow, DestroyUnused(f)
  PROVE  StateInv'
<1>1. /\ pc = "idle" /\ flow[f].type = "stateful" /\ flow' = [flow EXCEPT ![f].type = "free"]
      /\ flow[f].offset = 0 \/ flow[f].comb = 0
      /\ job' = Orphaned(f) /\ UNCHANGED <<pending, input, device, pc, todo, issued>>
  BY DEF DestroyUnused
<1>2. /\ TypeOK /\ FlowInv(f) /\ flow[f] \in FlowRecord /\ flow \in [Flow -> FlowRecord]
      /\ todo \in Seq(Job) /\ TodoReady /\ (issued[f] = <<>> <=> Len(issued[f]) = 0)
  BY Types DEF StateInv, PendingListExact, TypeOK
<1> DEFINE x == [flow[f] EXCEPT !.type = "free"]
<1>3. x \in FlowRecord /\ flow' = [flow EXCEPT ![f] = x]
  BY <1>1, <1>2 DEF FlowRecord
<1>4. x.type = "free" /\ x.head = flow[f].head /\ x.groups = flow[f].groups /\ x.comb = flow[f].comb
  BY <1>2 DEF FlowRecord
<1> HIDE DEF x
<1>5. \A g \in Flow : flow'[g] = IF g = f THEN x ELSE flow[g]
  BY <1>2, <1>3
<1>6. issued[f] = <<>>
  BY <1>1, <1>2 DEF FlowInv, SeenUsed
<1>7. FlowKept(f)
  BY <1>2, <1>4, <1>5, <1>6 DEF FlowKept, FlowInv, SeenUsed
<1>8. job' \in [Job -> JobRecord] /\ StartedKept
  BY <1>1, <1>2, OrphanedFacts DEF StartedKept
<1>9. \A j \in Job : job'[j].state = "created" => job'[j] = job[j] /\ job[j].flow # f
  BY <1>1, <1>2, OrphanedFacts
<1>10. CreatedReady'
  <2> SUFFICES ASSUME NEW k \in Job, job'[k].state = "created"
               PROVE  /\ job'[k].flow \in Flow /\ job'[k].nla = None /\ ~job'[k].disc /\ ~job'[k].term
                      /\ flow'[job'[k].flow].comb # 0 /\ flow'[job'[k].flow].type = "stateful"
                      /\ job'[k].length = 1
    BY DEF CreatedReady
  <2>1. job'[k] = job[k] /\ job[k].flow # f
    BY <1>9
  <2>2. /\ job[k].flow \in Flow /\ job[k].nla = None /\ ~job[k].disc /\ ~job[k].term
        /\ flow[job[k].flow].comb # 0 /\ flow[job[k].flow].type = "stateful" /\ job[k].length = 1
    BY <1>1, <2>1, AtIdle
  <2> QED
    BY <1>5, <2>1, <2>2
<1>11. TodoReady'
  BY <1>1, <1>2, AtIdle DEF TodoReady, Distinct
<1> QED
  BY <1>1, <1>2, <1>3, <1>7, <1>8, <1>10, <1>11, CallKeeps

LEMMA DestroyKeeps ==
  ASSUME StateInv, NEW f \in Flow, DestroyFails(f) \/ \E j \in Job : DestroyUsed(f, j)
  PROVE  StateInv'
<1>1. /\ pc = "idle" /\ flow[f].type = "stateful" /\ flow[f].comb # 0
      /\ flow' = [flow EXCEPT ![f].type = "invalid", ![f].comb = @ + 1]
      /\ UNCHANGED <<pending, input, device, issued>>
  BY DEF DestroyFails, DestroyUsed
<1>2. /\ TypeOK /\ FlowInv(f) /\ flow[f] \in FlowRecord /\ flow \in [Flow -> FlowRecord]
      /\ todo \in Seq(Job) /\ TodoReady /\ job \in [Job -> JobRecord]
  BY Types DEF StateInv, PendingListExact, TypeOK
<1> DEFINE n == flow[f].comb + 1
           x == [flow[f] EXCEPT !.type = "invalid", !.comb = n]
<1>3. n \in Nat /\ n >= flow[f].comb /\ n # 0
  BY <1>2 DEF FlowRecord
<1>4. flow' = [flow EXCEPT ![f] = x]
  BY <1>1, <1>2
<1> HIDE DEF n
<1>5. x \in FlowRecord /\ x.type = "invalid" /\ x.comb = n /\ FlowKept(f) /\ flow'[f] = x
  BY <1>1, <1>3, <1>4, FlowCounted
<1> HIDE DEF x
<1>6. \A g \in Flow : flow'[g] = IF g = f THEN x ELSE flow[g]
  BY <1>2, <1>4
<1>7. ASSUME NEW k \in Job, job[k].state = "created", job[k].flow # f
      PROVE  /\ job[k].flow \in Flow /\ job[k].nla = None /\ ~job[k].disc /\ ~job[k].term
             /\ flow'[job[k].flow].comb # 0 /\ flow'[job[k].flow].type = "stateful"
             /\ job[k].length = 1
  <2>1. /\ job[k].flow \in Flow /\ job[k].nla = None /\ ~job[k].disc /\ ~job[k].term
        /\ flow[job[k].flow].comb # 0 /\ flow[job[k].flow].type = "stateful" /\ job[k].length = 1
    BY <1>1, <1>7, AtIdle
  <2> QED
    BY <1>6, <1>7, <2>1
<1>8. todo = <<>>
  BY <1>1, AtIdle
<1>9. CASE DestroyFails(f)
  <2>1. job' = Orphaned(f) /\ UNCHANGED <<pc, todo>>
    BY <1>9 DEF DestroyFails
  <2>2. job' \in [Job -> JobRecord] /\ StartedKept
    BY <1>2, <2>1, OrphanedFacts DEF StartedKept
  <2>3. \A j \in Job : job'[j].state = "created" => job'[j] = job[j] /\ job[j].flow # f
    BY <1>2, <2>1, OrphanedFacts
  <2>4. CreatedReady'
    BY <1>7, <2>3 DEF CreatedReady
  <2>5. TodoReady'
    BY <1>1, <1>2, <1>8, <2>1 DEF TodoReady, Distinct
  <2> QED
    BY <1>1, <1>2, <1>4, <1>5, <2>1, <2>2, <2>4, <2>5, CallKeeps
<1>10. CASE \E j \in Job : DestroyUsed(f, j)
  <2>1. PICK j \in Job : DestroyUsed(f, j)
    BY <1>10
  <2> DEFINE y == [NewJob(f, n, 0) EXCEPT !.term = TRUE]
  <2>2. /\ job[j].state = "free" /\ job' = [Orphaned(f) EXCEPT ![j] = y]
        /\ pc' = "add" /\ todo' = <<j>>
    BY <2>1 DEF DestroyUsed, n
  <2>3. y \in JobRecord /\ y.state = "created" /\ y.flow = f /\ y.nla = None /\ ~y.disc /\ y.term
    <3>1. LET z == NewJob(f, n, 0) IN
          z \in JobRecord /\ z.state = "created" /\ z.flow = f /\ z.nla = None /\ ~z.disc
      BY <1>2, <1>3, NewJobType
    <3> HIDE DEF n
    <3>2. y \in JobRecord
      BY <3>1 DEF JobRecord
    <3> QED
      BY <3>1, <3>2 DEF JobRecord
  <2> HIDE DEF y
  <2>4. \A k \in Job : job'[k] = IF k = j THEN y ELSE Orphaned(f)[k]
    BY <1>2, <2>2, OrphanedFacts
  <2>5. job' \in [Job -> JobRecord] /\ StartedKept
    BY <1>2, <2>2, <2>3, <2>4, OrphanedFacts DEF StartedKept
  <2>6. \A k \in Job : k # j /\ job'[k].state = "created" => job'[k] = job[k] /\ job[k].flow # f
    BY <1>2, <2>4, OrphanedFacts
  <2>7. \A i \in DOMAIN issued[f] : ~job'[issued[f][i]].term
    <3>1. \A i \in DOMAIN issued[f] : issued[f][i] \in Job
      BY <1>2, Types
    <3>2. \A i \in DOMAIN issued[f] : job[issued[f][i]].state = "started" /\ ~job[issued[f][i]].term
      BY <1>1, <1>2 DEF FlowInv, IssuedExact
    <3> QED
      BY <2>5, <3>1, <3>2 DEF StartedKept
  <2>8. CreatedReady'
    <3> SUFFICES ASSUME NEW k \in Job, job'[k].state = "created"
                 PROVE  /\ job'[k].flow \in Flow /\ job'[k].nla = None /\ ~job'[k].disc
                        /\ flow'[job'[k].flow].comb # 0
                        /\ IF job'[k].term
                           THEN /\ flow'[job'[k].flow].type = "invalid" /\ todo' = <<k>>
                                /\ \A i \in DOMAIN issued'[job'[k].flow] : ~job'[issued'[job'[k].flow][i]].term
                           ELSE flow'[job'[k].flow].type = "stateful" /\ job'[k].length = 1
      BY DEF CreatedReady
    <3>1. CASE k = j
      <4>1. job'[k] = y
        BY <2>4, <3>1
      <4> QED
        BY <1>1, <1>3, <1>5, <2>2, <2>3, <2>7, <3>1, <4>1
    <3>2. CASE k # j
      BY <1>7, <2>6, <3>2
    <3> QED
      BY <3>1, <3>2
  <2>9. TodoReady'
    BY <2>2, <2>3, <2>4 DEF TodoReady, Distinct
  <2>10. pc' \in {"idle", "add"} /\ todo' \in Seq(Job)
    BY <2>2
  <2> QED
    BY <1>1, <1>4, <1>5, <2>5, <2>8, <2>9, <2>10, CallKeeps
<1> QED
  BY <1>9, <1>10

-----------------------------------------------------------------------------
(* The device. *)
LEMMA DeviceKeeps ==
  ASSUME StateInv, UNCHANGED software, TypeOK', RingsExact', NEW f \in Flow, ChainInv(f)',
         \A g \in Flow \ {f} :
            /\ engine'[g] = engine[g] /\ (Sent(g)' <=> Sent(g)) /\ (Ended(g)' <=> Ended(g))
            /\ \A p \in DOMAIN input' : input'[p].flow = g => \E q \in DOMAIN input : input[q] = input'[p]
            /\ \A r \in 0 .. Len(issued[g]) : RdsInOrder(g, r) => RdsInOrder(g, r)'
  PROVE  StateInv'
<1>1. PendingListExact'
  BY DEF StateInv, PendingListExact, software, Distinct
<1>2. StartedIssued' /\ CreatedReady'
  BY DEF StateInv, StartedIssued, CreatedReady, software
<1>3. TodoReady'
  BY DEF StateInv, TodoReady, software, Distinct
<1>4. ASSUME NEW g \in Flow PROVE FlowInv(g)'
  <2>1. IssuedExact(g)' /\ Linked(g)' /\ SeenUsed(g)'
    BY DEF StateInv, FlowInv, IssuedExact, Linked, SeenUsed, software, Distinct
  <2>2. ChainInv(g)'
    <3>1. CASE g = f
      BY <3>1
    <3>2. CASE g # f
      <4>1. flow'[g].head = flow[g].head /\ issued'[g] = issued[g]
            /\ \A i \in DOMAIN issued[g] : SameJob(issued[g][i])
        BY DEF software, SameJob
      <4> QED
        BY <3>2, <4>1, ChainKept
    <3> QED
      BY <3>1, <3>2
  <2> QED
    BY <2>1, <2>2 DEF FlowInv, ChainInv
<1> QED
  BY <1>1, <1>2, <1>3, <1>4 DEF StateInv

Reported(x) == output' = Append(output, x)

(* A result of another flow does not disturb the results of flow g. *)
LEMMA ReportElsewhere ==
  ASSUME StateInv, UNCHANGED software, NEW f \in Flow, NEW g \in Flow, f # g,
         NEW i \in DOMAIN issued[f], NEW b \in BOOLEAN,
         Reported([job |-> issued[f][i], final |-> b])
  PROVE  /\ Ended(g)' <=> Ended(g)
         /\ \A r \in 0 .. Len(issued[g]) : RdsInOrder(g, r) => RdsInOrder(g, r)'
<1> DEFINE j == issued[f][i]
           e == [job |-> j, final |-> b]
<1>1. TypeOK /\ FlowInv(f) /\ FlowInv(g)
  BY DEF StateInv, PendingListExact
<1>2. j \in Job /\ job[j].flow = f /\ issued' = issued /\ job' = job
  BY <1>1, Types DEF FlowInv, IssuedExact, software
<1>3. \A k \in DOMAIN issued[g] : issued[g][k] # j
  BY <1>1, <1>2 DEF FlowInv, IssuedExact
<1> HIDE DEF j
<1>4. /\ DOMAIN output' = 1 .. Len(output) + 1 /\ DOMAIN output = 1 .. Len(output) /\ Len(output) \in Nat
      /\ \A p \in 1 .. Len(output) : output'[p] = output[p]
      /\ output'[Len(output) + 1] = e
  <2>1. output \in Seq([job : Job, final : BOOLEAN]) /\ e \in [job : Job, final : BOOLEAN]
    BY <1>1, <1>2, RingTypes
  <2> QED
    BY <2>1, AppendFacts DEF j, Reported
<1>5. e.job = j
  OBVIOUS
<1> HIDE DEF e
<1>6. Ended(g)' <=> Ended(g)
  BY <1>2, <1>4, <1>5 DEF Ended
<1>7. ASSUME NEW r \in 0 .. Len(issued[g]), RdsInOrder(g, r) PROVE RdsInOrder(g, r)'
  <2>1. \A p \in DOMAIN output', k \in DOMAIN issued[g] :
           output'[p].job = issued[g][k] => p \in DOMAIN output /\ output'[p] = output[p]
    BY <1>3, <1>4, <1>5
  <2>2. DOMAIN output \subseteq DOMAIN output'
    BY <1>4
  <2> QED
    BY <1>2, <1>4, <1>7, <2>1, <2>2 DEF RdsInOrder
<1> QED
  BY <1>6, <1>7

(* The next job of flow f is reported. *)
LEMMA ReportNext ==
  ASSUME StateInv, UNCHANGED software, NEW f \in Flow, NEW r \in 0 .. Len(issued[f]),
         RdsInOrder(f, r), r < Len(issued[f]), ~Ended(f),
         NEW b \in BOOLEAN, b \/ r + 1 < Len(issued[f]),
         Reported([job |-> issued[f][r + 1], final |-> b])
  PROVE  /\ RdsInOrder(f, r + 1)' /\ (Ended(f)' <=> b)
         /\ \A p, q \in DOMAIN output' : output'[p].job = output'[q].job => p = q
         /\ \A p \in DOMAIN output' : job[output'[p].job].state = "started"
<1> DEFINE n == Len(issued[f])
           j == issued[f][r + 1]
           e == [job |-> j, final |-> b]
<1>1. TypeOK /\ FlowInv(f) /\ RingsExact /\ issued' = issued /\ job' = job
  BY DEF StateInv, PendingListExact, software
<1>2. n \in Nat /\ DOMAIN issued[f] = 1 .. n /\ r + 1 \in DOMAIN issued[f] /\ r \in Nat
  BY <1>1, Types
<1>3. j \in Job /\ job[j].flow = f /\ job[j].state = "started"
  BY <1>1, <1>2, Types DEF FlowInv, IssuedExact
<1>4. \A k \in DOMAIN issued[f] : issued[f][k] = j => k = r + 1
  BY <1>1, <1>2 DEF FlowInv, IssuedExact, Distinct
<1>5. \A p \in DOMAIN output : output[p].job # j
  BY <1>2 DEF RdsInOrder
<1>6. \A p \in DOMAIN output : output[p].job \in Job /\ (output[p].final => job[output[p].job].flow # f)
  BY <1>1, RingTypes DEF Ended
<1>7. \A p \in DOMAIN output, k \in DOMAIN issued[f] : output[p].job = issued[f][k] => ~output[p].final
  BY <1>1, <1>6 DEF FlowInv, IssuedExact
<1> HIDE DEF j
<1>8. /\ DOMAIN output' = 1 .. Len(output) + 1 /\ DOMAIN output = 1 .. Len(output) /\ Len(output) \in Nat
      /\ \A p \in 1 .. Len(output) : output'[p] = output[p]
      /\ output'[Len(output) + 1] = e
  <2>1. output \in Seq([job : Job, final : BOOLEAN]) /\ e \in [job : Job, final : BOOLEAN]
    BY <1>1, <1>3, RingTypes
  <2> QED
    BY <2>1, AppendFacts DEF j, Reported
<1>9. e.job = j /\ e.final = b
  OBVIOUS
<1> HIDE DEF e
<1>10. Ended(f)' <=> b
  BY <1>1, <1>3, <1>6, <1>8, <1>9 DEF Ended
<1>11. RdsInOrder(f, r + 1)'
  <2>1. \A k \in DOMAIN issued[f] : (\E p \in DOMAIN output' : output'[p].job = issued[f][k]) <=> k <= r + 1
    <3>1. ASSUME NEW k \in DOMAIN issued[f], NEW p \in DOMAIN output', output'[p].job = issued[f][k]
          PROVE  k <= r + 1
      <4>1. CASE p = Len(output) + 1
        BY <1>2, <1>4, <1>8, <1>9, <3>1, <4>1
      <4>2. CASE p \in DOMAIN output
        BY <1>2, <1>8, <3>1, <4>2 DEF RdsInOrder
      <4> QED
        BY <1>8, <4>1, <4>2
    <3>2. ASSUME NEW k \in DOMAIN issued[f], k <= r + 1
          PROVE  \E p \in DOMAIN output' : output'[p].job = issued[f][k]
      <4>1. CASE k = r + 1
        BY <1>8, <1>9, <4>1 DEF j
      <4>2. CASE k <= r
        BY <1>8, <4>2 DEF RdsInOrder
      <4> QED
        BY <1>2, <3>2, <4>1, <4>2
    <3> QED
      BY <3>1, <3>2
  <2>2. \A p \in DOMAIN output', k \in DOMAIN issued[f] : output'[p].job = issued[f][k] =>
           IF output'[p].final THEN k = r + 1 ELSE k < n
    <3> SUFFICES ASSUME NEW p \in DOMAIN output', NEW k \in DOMAIN issued[f], output'[p].job = issued[f][k]
                 PROVE  IF output'[p].final THEN k = r + 1 ELSE k < n
      OBVIOUS
    <3>1. CASE p = Len(output) + 1
      BY <1>2, <1>4, <1>8, <1>9, <3>1
    <3>2. CASE p \in DOMAIN output
      BY <1>2, <1>7, <1>8, <3>2 DEF RdsInOrder
    <3> QED
      BY <1>8, <3>1, <3>2
  <2>3. \A p, q \in DOMAIN output', k, l \in DOMAIN issued[f] :
           output'[p].job = issued[f][k] /\ output'[q].job = issued[f][l] /\ k < l => p < q
    <3> SUFFICES ASSUME NEW p \in DOMAIN output', NEW q \in DOMAIN output',
                        NEW k \in DOMAIN issued[f], NEW l \in DOMAIN issued[f],
                        output'[p].job = issued[f][k], output'[q].job = issued[f][l], k < l
                 PROVE  p < q
      OBVIOUS
    <3>1. CASE p = Len(output) + 1
      <4>1. k = r + 1
        BY <1>4, <1>8, <1>9, <3>1
      <4>2. l <= r + 1
        BY <2>1
      <4> QED
        BY <1>2, <4>1, <4>2
    <3>2. CASE p \in DOMAIN output /\ q = Len(output) + 1
      BY <1>8, <3>2
    <3>3. CASE p \in DOMAIN output /\ q \in DOMAIN output
      BY <1>8, <3>3 DEF RdsInOrder
    <3> QED
      BY <1>8, <3>1, <3>2, <3>3
  <2> QED
    BY <1>1, <2>1, <2>2, <2>3 DEF RdsInOrder
<1>12. \A p, q \in DOMAIN output' : output'[p].job = output'[q].job => p = q
  BY <1>1, <1>5, <1>8, <1>9 DEF RingsExact
<1>13. \A p \in DOMAIN output' : job[output'[p].job].state = "started"
  BY <1>1, <1>3, <1>8, <1>9 DEF RingsExact
<1> QED
  BY <1>10, <1>11, <1>12, <1>13

LEMMA BusyChain ==
  ASSUME StateInv, NEW f \in Flow, engine[f] # Idle
  PROVE  /\ ~Waiting(f) /\ ~Sent(f) /\ ~Ended(f) /\ issued[f] # <<>>
         /\ \E r \in 0 .. Len(issued[f]) :
               /\ RdsInOrder(f, r)
               /\ (r = 0 /\ TermChain(f, engine[f])) \/ DataChain(f, r, engine[f])
<1>1. PICK r \in 0 .. Len(issued[f]) : ChainAt(f, r)
  BY DEF StateInv, FlowInv
<1>2. Busy(f)
  BY DEF Busy
<1>3. ~Waiting(f) /\ ~Sent(f) /\ ~Ended(f) /\ issued[f] # <<>>
  BY <1>1, <1>2 DEF ChainAt, OnePlace
<1>4. (r = 0 /\ TermChain(f, engine[f])) \/ DataChain(f, r, engine[f])
  BY <1>1 DEF ChainAt, EngineFits
<1> QED
  BY <1>1, <1>3, <1>4 DEF ChainAt

LEMMA BusyNext ==
  ASSUME UNCHANGED software, NEW f \in Flow, ~Waiting(f), ~Sent(f)', issued[f] # <<>>,
         NEW r \in 0 .. Len(issued[f]), RdsInOrder(f, r)', EngineFits(f, r)',
         Busy(f)' <=> ~Ended(f)'
  PROVE  ChainInv(f)'
<1>1. ~Waiting(f)' /\ issued'[f] # <<>> /\ issued' = issued
  BY DEF Waiting, software
<1>2. OnePlace(f, r)'
  BY <1>1 DEF OnePlace
<1>3. \A p \in DOMAIN input' : input'[p].flow # f
  BY DEF Sent
<1> QED
  BY <1>1, <1>2, <1>3 DEF ChainInv, ChainAt

LEMMA IdleType == Idle \in EngineRecord /\ Idle.q = <<>> /\ Idle.next = None
<1>1. <<>> \in Seq(Fetched)
  OBVIOUS
<1> QED
  BY <1>1 DEF Idle, EngineRecord

(* The descriptor at the head of a chain is the next job to be reported,   *)
(* but for the lead of an end-of-flow chain.                               *)
LEMMA HeadNext ==
  ASSUME StateInv, NEW f \in Flow, NEW r \in 0 .. Len(issued[f]), engine[f].q # <<>>,
         (r = 0 /\ TermChain(f, engine[f])) \/ DataChain(f, r, engine[f])
  PROVE  /\ r + 1 \in 1 .. Len(issued[f]) /\ Head(engine[f].q).job = issued[f][r + 1]
         /\ Head(engine[f].q) \in Fetched
         /\ DataChain(f, r, engine[f]) =>
               /\ Head(engine[f].q).prd
               /\ Head(engine[f].q).chained <=> Len(engine[f].q) > 1 \/ engine[f].next # None
<1>1. TypeOK
  BY DEF StateInv, PendingListExact
<1>2. /\ Len(issued[f]) \in Nat /\ engine[f].q \in Seq(Fetched) /\ Len(engine[f].q) \in Nat \ {0}
      /\ 1 \in DOMAIN engine[f].q /\ Head(engine[f].q) = engine[f].q[1]
      /\ Head(engine[f].q) \in Fetched
  BY <1>1, Types, TailFacts
<1>3. CASE r = 0 /\ TermChain(f, engine[f]) /\ ~DataChain(f, r, engine[f])
  <2>1. Len(issued[f]) = 1 /\ engine[f].q[1].job = issued[f][1]
    BY <1>3 DEF TermChain
  <2> QED
    BY <1>2, <1>3, <2>1
<1>4. CASE DataChain(f, r, engine[f])
  <2>1. /\ engine[f].q[1] = [job |-> issued[f][r + 1], prd |-> TRUE,
                             chained |-> 1 < Len(engine[f].q) \/ engine[f].next # None]
        /\ r + Len(engine[f].q) <= Len(issued[f])
    BY <1>2, <1>4 DEF DataChain
  <2>2. r + 1 \in 1 .. Len(issued[f])
    BY <1>2, <2>1
  <2>3. 1 < Len(engine[f].q) <=> Len(engine[f].q) > 1
    BY <1>2
  <2>4. Head(engine[f].q).job = issued[f][r + 1] /\ Head(engine[f].q).prd
    BY <1>2, <2>1
  <2>5. Head(engine[f].q).chained <=> 1 < Len(engine[f].q) \/ engine[f].next # None
    <3> DEFINE b == 1 < Len(engine[f].q) \/ engine[f].next # None
    <3>1. CASE b
      <4>1. b = TRUE
        BY <3>1
      <4> HIDE DEF b
      <4>2. Head(engine[f].q) = [job |-> issued[f][r + 1], prd |-> TRUE, chained |-> TRUE]
        BY <1>2, <2>1, <4>1 DEF b
      <4> QED
        BY <3>1, <4>2 DEF b
    <3>2. CASE ~b
      <4>1. b = FALSE
        BY <3>2
      <4> HIDE DEF b
      <4>2. Head(engine[f].q) = [job |-> issued[f][r + 1], prd |-> TRUE, chained |-> FALSE]
        BY <1>2, <2>1, <4>1 DEF b
      <4> QED
        BY <3>2, <4>2 DEF b
    <3> QED
      BY <3>1, <3>2
  <2> QED
    BY <1>2, <2>2, <2>3, <2>4, <2>5
<1> QED
  BY <1>3, <1>4

LEMMA AbortKeeps ==
  ASSUME StateInv, NEW f \in Flow, AbortChain(f)
  PROVE  StateInv'
<1>1. /\ engine[f].q # <<>> /\ Len(output) < OutputSize - 1
      /\ output' = Append(output, [job |-> Head(engine[f].q).job, final |-> TRUE])
      /\ engine' = [engine EXCEPT ![f] = Idle] /\ UNCHANGED <<input, visible, software>>
  BY DEF AbortChain
<1>2. TypeOK /\ RingsExact /\ engine \in [Flow -> EngineRecord] /\ engine[f] # Idle
  BY <1>1, IdleType DEF StateInv, PendingListExact, TypeOK
<1>3. ~Waiting(f) /\ ~Sent(f) /\ ~Ended(f) /\ issued[f] # <<>>
  BY <1>2, BusyChain
<1>4. PICK r \in 0 .. Len(issued[f]) :
         RdsInOrder(f, r) /\ ((r = 0 /\ TermChain(f, engine[f])) \/ DataChain(f, r, engine[f]))
  BY <1>2, BusyChain
<1>5. /\ r + 1 \in 1 .. Len(issued[f]) /\ Len(issued[f]) \in Nat /\ r < Len(issued[f])
      /\ output' = Append(output, [job |-> issued[f][r + 1], final |-> TRUE])
      /\ issued[f][r + 1] \in Job /\ r + 1 \in DOMAIN issued[f]
  <2>1. r + 1 \in 1 .. Len(issued[f]) /\ Head(engine[f].q).job = issued[f][r + 1]
    BY <1>1, <1>4, HeadNext
  <2>2. /\ Len(issued[f]) \in Nat /\ DOMAIN issued[f] = 1 .. Len(issued[f])
        /\ \A i \in 1 .. Len(issued[f]) : issued[f][i] \in Job
    BY <1>2, Types
  <2>3. r < Len(issued[f]) /\ issued[f][r + 1] \in Job
    BY <2>1, <2>2
  <2> QED
    BY <1>1, <2>1, <2>2, <2>3
<1>6. /\ RdsInOrder(f, r + 1)' /\ Ended(f)'
      /\ \A p, q \in DOMAIN output' : output'[p].job = output'[q].job => p = q
      /\ \A p \in DOMAIN output' : job[output'[p].job].state = "started"
  BY <1>1, <1>3, <1>4, <1>5, ReportNext DEF Reported
<1>7. engine'[f] = Idle /\ \A g \in Flow \ {f} : engine'[g] = engine[g]
  BY <1>1, <1>2
<1>8. ChainInv(f)'
  <2>1. EngineFits(f, r + 1)' /\ ~Busy(f)'
    BY <1>7 DEF EngineFits, Busy
  <2>2. ~Sent(f)'
    BY <1>1, <1>3 DEF Sent
  <2>3. r + 1 \in 0 .. Len(issued[f])
    BY <1>5
  <2> QED
    BY <1>1, <1>3, <1>6, <2>1, <2>2, <2>3, BusyNext
<1>9. RingsExact'
  BY <1>1, <1>2, <1>6 DEF RingsExact, software
<1>10. TypeOK'
  <2>1. output \in Seq([job : Job, final : BOOLEAN]) /\ Len(output) < OutputSize
    BY <1>2 DEF TypeOK
  <2>2. output' \in Seq([job : Job, final : BOOLEAN]) /\ Len(output') = Len(output) + 1 /\ Len(output) \in Nat
    BY <1>5, <2>1, AppendFacts
  <2>3. Len(output') < OutputSize
    BY <1>1, <2>2, FlowAssumption
  <2>4. engine' \in [Flow -> EngineRecord]
    BY <1>1, <1>2, IdleType
  <2> QED
    BY <1>1, <1>2, <2>2, <2>3, <2>4 DEF TypeOK, software
<1>11. ASSUME NEW g \in Flow \ {f}
       PROVE  /\ engine'[g] = engine[g] /\ (Sent(g)' <=> Sent(g)) /\ (Ended(g)' <=> Ended(g))
              /\ \A p \in DOMAIN input' : input'[p].flow = g => \E q \in DOMAIN input : input[q] = input'[p]
              /\ \A s \in 0 .. Len(issued[g]) : RdsInOrder(g, s) => RdsInOrder(g, s)'
  <2>1. /\ Ended(g)' <=> Ended(g)
        /\ \A s \in 0 .. Len(issued[g]) : RdsInOrder(g, s) => RdsInOrder(g, s)'
    BY <1>1, <1>5, ReportElsewhere DEF Reported
  <2>2. Sent(g)' <=> Sent(g)
    BY <1>1 DEF Sent
  <2> QED
    BY <1>1, <1>7, <2>1, <2>2
<1> QED
  BY <1>1, <1>8, <1>9, <1>10, <1>11, DeviceKeeps

LEMMA ReportKeeps ==
  ASSUME StateInv, NEW f \in Flow, ReportPacket(f)
  PROVE  StateInv'
<1> DEFINE e == engine[f]
           d == Head(e.q)
<1>1. /\ e.q # <<>> /\ engine' = [engine EXCEPT ![f] = Advance(e)]
      /\ UNCHANGED <<input, visible, software>>
      /\ \/ d.prd /\ Len(output) < OutputSize - 1
            /\ output' = Append(output, [job |-> d.job, final |-> ~d.chained])
         \/ ~d.prd /\ UNCHANGED output
  BY DEF ReportPacket
<1>2. TypeOK /\ RingsExact /\ engine \in [Flow -> EngineRecord] /\ engine[f] # Idle
  BY <1>1, IdleType DEF StateInv, PendingListExact, TypeOK
<1>3. ~Waiting(f) /\ ~Sent(f) /\ ~Ended(f) /\ issued[f] # <<>>
  BY <1>2, BusyChain
<1>4. PICK r \in 0 .. Len(issued[f]) :
         RdsInOrder(f, r) /\ ((r = 0 /\ TermChain(f, engine[f])) \/ DataChain(f, r, engine[f]))
  BY <1>2, BusyChain
<1>5. /\ r + 1 \in 1 .. Len(issued[f]) /\ Len(issued[f]) \in Nat /\ r < Len(issued[f]) /\ d \in Fetched
      /\ d.job = issued[f][r + 1] /\ issued[f][r + 1] \in Job /\ r + 1 \in DOMAIN issued[f]
  BY <1>1, <1>2, <1>4, HeadNext, Types
<1>6. /\ e \in EngineRecord /\ e.q \in Seq(Fetched) /\ Len(e.q) \in Nat \ {0}
      /\ Tail(e.q) \in Seq(Fetched) /\ Len(Tail(e.q)) = Len(e.q) - 1
      /\ DOMAIN Tail(e.q) = 1 .. Len(e.q) - 1
      /\ \A i \in 1 .. Len(e.q) - 1 : Tail(e.q)[i] = e.q[i + 1]
  BY <1>1, <1>2, Types, TailFacts
<1>len. PICK m \in Nat : m > 0 /\ Len(e.q) = m /\ Len(Tail(e.q)) = m - 1
  BY <1>6
<1>7. /\ engine'[f] = Advance(e) /\ \A g \in Flow \ {f} : engine'[g] = engine[g]
  BY <1>1, <1>2
<1> DEFINE t == [e EXCEPT !.q = Tail(e.q)]
<1>8. /\ t \in EngineRecord /\ t.q = Tail(e.q) /\ t.next = e.next /\ t.comb = e.comb
      /\ Advance(e) = IF Len(e.q) = 1 /\ e.next = None THEN Idle ELSE t
  BY <1>6 DEF EngineRecord, Advance
<1>9. engine' \in [Flow -> EngineRecord]
  BY <1>1, <1>2, <1>8, IdleType
<1>10. Advance(e) = Idle <=> Len(e.q) = 1 /\ e.next = None
  <2>1. Len(t.q) = m - 1 /\ Len(<<>>) = 0
    BY <1>8, <1>len
  <2>2. m - 1 = 0 => m = 1
    BY <1>len
  <2>3. Len(e.q) # 1 => t.q # <<>>
    BY <1>len, <2>1, <2>2, Zenon
  <2> QED
    BY <1>8, <2>3, IdleType
<1> HIDE DEF t
<1>11. ~Sent(f)'
  BY <1>1, <1>3 DEF Sent
<1>12. ASSUME NEW g \in Flow \ {f}
       PROVE  /\ engine'[g] = engine[g] /\ (Sent(g)' <=> Sent(g)) /\ (Ended(g)' <=> Ended(g))
              /\ \A p \in DOMAIN input' : input'[p].flow = g => \E q \in DOMAIN input : input[q] = input'[p]
              /\ \A s \in 0 .. Len(issued[g]) : RdsInOrder(g, s) => RdsInOrder(g, s)'
  <2>1. /\ Ended(g)' <=> Ended(g)
        /\ \A s \in 0 .. Len(issued[g]) : RdsInOrder(g, s) => RdsInOrder(g, s)'
    <3>1. CASE output' = output
      BY <1>1, <3>1 DEF Ended, RdsInOrder, software
    <3>2. CASE output' = Append(output, [job |-> d.job, final |-> ~d.chained])
      <4>1. output' = Append(output, [job |-> issued[f][r + 1], final |-> ~d.chained]) /\ (~d.chained) \in BOOLEAN
        BY <1>5, <3>2
      <4> QED
        BY <1>1, <1>5, <4>1, ReportElsewhere DEF Reported
    <3> QED
      BY <1>1, <3>1, <3>2
  <2>2. Sent(g)' <=> Sent(g)
    BY <1>1 DEF Sent
  <2> QED
    BY <1>1, <1>7, <2>1, <2>2
<1>13. CASE DataChain(f, r, e)
  <2>1. d.prd /\ (d.chained <=> Len(e.q) > 1 \/ e.next # None)
    BY <1>1, <1>13, HeadNext
  <2>2. /\ Len(output) < OutputSize - 1
        /\ output' = Append(output, [job |-> issued[f][r + 1], final |-> ~d.chained])
    BY <1>1, <1>5, <2>1
  <2>3. ~d.chained \/ r + 1 < Len(issued[f])
    BY <1>5, <1>6, <1>13, <2>1 DEF DataChain
  <2>4. /\ RdsInOrder(f, r + 1)' /\ (Ended(f)' <=> ~d.chained)
        /\ \A p, q \in DOMAIN output' : output'[p].job = output'[q].job => p = q
        /\ \A p \in DOMAIN output' : job[output'[p].job].state = "started"
    BY <1>1, <1>3, <1>4, <1>5, <2>2, <2>3, ReportNext DEF Reported
  <2>5. Busy(f)' <=> ~Ended(f)'
    <3>1. Len(e.q) = 1 <=> ~(Len(e.q) > 1)
      BY <1>len
    <3>2. Busy(f)' <=> ~(Len(e.q) = 1 /\ e.next = None)
      BY <1>7, <1>10 DEF Busy
    <3> QED
      BY <2>1, <2>4, <3>1, <3>2
  <2>6. EngineFits(f, r + 1)'
    <3>1. CASE Len(e.q) = 1 /\ e.next = None
      BY <1>7, <1>10, <3>1 DEF EngineFits
    <3>2. CASE ~(Len(e.q) = 1 /\ e.next = None)
      <4>1. engine'[f] = t /\ issued' = issued /\ job' = job
        BY <1>1, <1>7, <1>8, <3>2 DEF software
      <4>2. t.q # <<>> \/ t.next # None
        <5>1. Len(t.q) = m - 1 /\ Len(<<>>) = 0
          BY <1>8, <1>len
        <5>2. m - 1 = 0 => m = 1
          BY <1>len
        <5> QED
          BY <1>len, <1>8, <3>2, <5>1, <5>2, Zenon
      <4>3. r + 1 + Len(t.q) <= Len(issued[f]) /\ r + 1 + Len(t.q) = r + Len(e.q)
        <5>1. r + Len(e.q) <= Len(issued[f])
          BY <1>13 DEF DataChain
        <5>2. Len(t.q) = m - 1 /\ r \in Nat
          BY <1>5, <1>8, <1>len
        <5> QED
          BY <1>len, <5>1, <5>2
      <4>4. ASSUME NEW i \in DOMAIN t.q
            PROVE  /\ t.q[i] = [job |-> issued[f][r + 1 + i], prd |-> TRUE,
                                chained |-> i < Len(t.q) \/ t.next # None]
                   /\ job[issued[f][r + 1 + i]].comb = t.comb
        <5>1. i \in 1 .. Len(e.q) - 1 /\ i + 1 \in 1 .. Len(e.q) /\ r + (i + 1) = r + 1 + i
              /\ (i + 1 < Len(e.q) <=> i < Len(t.q))
          <6>1. i \in 1 .. m - 1 /\ Len(t.q) = m - 1
            BY <1>6, <1>8, <1>len
          <6>2. i \in 1 .. m - 1 /\ i + 1 \in 1 .. m /\ (i + 1 < m <=> i < m - 1)
            BY <1>len, <6>1
          <6>3. r + (i + 1) = r + 1 + i
            BY <1>5, <6>2
          <6> QED
            BY <1>len, <6>1, <6>2, <6>3
        <5>2. t.q[i] = e.q[i + 1] /\ i + 1 \in DOMAIN e.q
          BY <1>6, <1>8, <5>1
        <5>3. /\ e.q[i + 1] = [job |-> issued[f][r + (i + 1)], prd |-> TRUE,
                               chained |-> i + 1 < Len(e.q) \/ e.next # None]
              /\ job[issued[f][r + (i + 1)]].comb = e.comb
          BY <1>13, <5>2 DEF DataChain
        <5> QED
          BY <1>8, <5>1, <5>2, <5>3
      <4>5. t.next # None =>
               /\ r + 1 + Len(t.q) < Len(issued[f]) /\ t.next = issued[f][r + 1 + Len(t.q) + 1]
               /\ job[t.next].comb = t.comb
        BY <1>8, <1>13, <4>3 DEF DataChain
      <4>6. DataChain(f, r + 1, t)
        BY <4>2, <4>3, <4>4, <4>5 DEF DataChain
      <4>7. DataChain(f, r + 1, engine[f])'
        BY <4>1, <4>6 DEF DataChain
      <4> QED
        BY <4>7 DEF EngineFits
    <3> QED
      BY <3>1, <3>2
  <2>7. r + 1 \in 0 .. Len(issued[f])
    BY <1>5
  <2>8. ChainInv(f)'
    BY <1>1, <1>3, <1>11, <2>4, <2>5, <2>6, <2>7, BusyNext
  <2>9. RingsExact'
    BY <1>1, <1>2, <2>4 DEF RingsExact, software
  <2>10. TypeOK'
    <3>1. output \in Seq([job : Job, final : BOOLEAN]) /\ Len(output) < OutputSize
      BY <1>2 DEF TypeOK
    <3>2. output' \in Seq([job : Job, final : BOOLEAN]) /\ Len(output') = Len(output) + 1 /\ Len(output) \in Nat
      BY <1>5, <2>2, <3>1, AppendFacts
    <3>3. Len(output') < OutputSize
      BY <2>2, <3>2, FlowAssumption
    <3> QED
      BY <1>1, <1>2, <1>9, <3>2, <3>3 DEF TypeOK, software
  <2> QED
    BY <1>1, <1>12, <2>8, <2>9, <2>10, DeviceKeeps
<1>14. CASE r = 0 /\ TermChain(f, e)
  <2> DEFINE j == issued[f][1]
             lead == [job |-> j, prd |-> FALSE, chained |-> TRUE]
             body == [job |-> j, prd |-> TRUE, chained |-> FALSE]
  <2>1. /\ Len(issued[f]) = 1 /\ e.comb = job[j].comb
        /\ (e.q = <<lead>> /\ e.next = j) \/ (e.q = <<lead, body>> /\ e.next = None)
    BY <1>14 DEF TermChain
  <2>2. d = lead /\ j \in Job /\ j # None
    BY <1>5, <1>14, <2>1, FlowAssumption
  <2>3. output' = output /\ issued' = issued /\ job' = job
    BY <1>1, <2>2 DEF software
  <2>4. Advance(e) = t /\ t # Idle
    <3>1. ~(Len(e.q) = 1 /\ e.next = None)
      BY <2>1, <2>2
    <3> QED
      BY <1>8, <1>10, <3>1
  <2>5. DataChain(f, 0, t)
    <3>1. CASE e.q = <<lead>> /\ e.next = j
      <4>1. t.q = <<>> /\ Len(t.q) = 0 /\ t.next = j /\ t.comb = e.comb
        BY <1>8, <3>1
      <4> QED
        BY <2>1, <2>2, <4>1 DEF DataChain
    <3>2. CASE e.q = <<lead, body>> /\ e.next = None
      <4>1. t.q = <<body>> /\ Len(t.q) = 1 /\ t.next = None /\ t.comb = e.comb /\ DOMAIN t.q = {1}
        <5> HIDE DEF lead, body
        <5>1. Tail(<<lead, body>>) = <<body>>
          OBVIOUS
        <5>2. t.q = <<body>> /\ t.next = None /\ t.comb = e.comb
          BY <1>8, <3>2, <5>1
        <5> QED
          BY <5>2
      <4>2. t.q[1] = body /\ t.q # <<>>
        <5> HIDE DEF lead, body
        <5> QED
          BY <4>1
      <4>3. body = [job |-> issued[f][0 + 1], prd |-> TRUE, chained |-> 1 < Len(t.q) \/ t.next # None]
        <5>1. (1 < Len(t.q) \/ t.next # None) = FALSE /\ 0 + 1 = 1
          BY <4>1
        <5> QED
          BY <5>1, Zenon
      <4> HIDE DEF body
      <4>4. job[issued[f][0 + 1]].comb = t.comb
        BY <2>1, <4>1
      <4> QED
        <5>1. \A i \in DOMAIN t.q : i = 1
          BY <4>1
        <5>2. 0 + Len(t.q) <= Len(issued[f])
          BY <2>1, <4>1
        <5> QED
          BY <4>1, <4>2, <4>3, <4>4, <5>1, <5>2 DEF DataChain
    <3> QED
      BY <2>1, <3>1, <3>2
  <2>6. DataChain(f, 0, engine[f])'
    BY <1>7, <2>3, <2>4, <2>5 DEF DataChain
  <2>7. EngineFits(f, 0)'
    BY <2>6 DEF EngineFits
  <2>8. RdsInOrder(f, 0)'
    BY <1>4, <1>14, <2>3 DEF RdsInOrder
  <2>9. Busy(f)' /\ ~Ended(f)'
    BY <1>3, <1>7, <2>3, <2>4 DEF Busy, Ended
  <2>10. ChainInv(f)'
    BY <1>1, <1>3, <1>5, <1>11, <1>14, <2>7, <2>8, <2>9, BusyNext
  <2>11. RingsExact'
    BY <1>1, <1>2, <2>3 DEF RingsExact
  <2>12. TypeOK'
    BY <1>1, <1>2, <1>9, <2>3 DEF TypeOK, software
  <2> QED
    BY <1>1, <1>12, <2>10, <2>11, <2>12, DeviceKeeps
<1> QED
  BY <1>4, <1>13, <1>14

(* A link that the device may follow leads to the next job of the flow,    *)
(* which has the same groups.                                              *)
LEMMA LinkLeads ==
  ASSUME StateInv, NEW f \in Flow, NEW i \in DOMAIN issued[f], Follows(job[issued[f][i]]) # None
  PROVE  /\ i < Len(issued[f]) /\ i + 1 \in DOMAIN issued[f]
         /\ Follows(job[issued[f][i]]) = issued[f][i + 1]
         /\ job[issued[f][i]].nla = issued[f][i + 1] /\ ~job[issued[f][i]].disc
         /\ job[issued[f][i + 1]].comb = job[issued[f][i]].comb
<1>1. TypeOK /\ Linked(f)
  BY DEF StateInv, PendingListExact, FlowInv
<1>2. Len(issued[f]) \in Nat /\ DOMAIN issued[f] = 1 .. Len(issued[f])
  BY <1>1, Types
<1>3. ~job[issued[f][i]].disc /\ Follows(job[issued[f][i]]) = job[issued[f][i]].nla
  BY DEF Follows
<1>4. i # Len(issued[f])
  BY <1>1, <1>2, <1>3 DEF Linked
<1>5. i \in 1 .. Len(issued[f]) - 1 /\ i < Len(issued[f]) /\ i + 1 \in DOMAIN issued[f]
  BY <1>2, <1>4
<1>6. /\ job[issued[f][i]].nla = issued[f][i + 1]
      /\ job[issued[f][i]].disc <=> job[issued[f][i]].comb # job[issued[f][i + 1]].comb
  BY <1>1, <1>5 DEF Linked
<1> QED
  BY <1>3, <1>5, <1>6

LEMMA FollowsType ==
  ASSUME TypeOK, NEW j \in Job
  PROVE  Follows(job[j]) \in Job \cup {None}
BY DEF TypeOK, JobRecord, Follows

LEMMA FetchPdKeeps ==
  ASSUME StateInv, NEW f \in Flow, FetchPd(f)
  PROVE  StateInv'
<1> DEFINE e == engine[f]
           j == e.next
           d == [job |-> j, prd |-> TRUE, chained |-> Follows(job[j]) # None]
<1>1. TypeOK /\ RingsExact /\ engine \in [Flow -> EngineRecord] /\ e \in EngineRecord
  BY DEF StateInv, PendingListExact, TypeOK
<1>2. j # None /\ UNCHANGED <<input, visible, output, software>>
  BY DEF FetchPd
<1>3. /\ e.q \in Seq(Fetched) /\ e.next \in Job \cup {None} /\ e.comb \in Nat
      /\ Len(issued[f]) \in Nat /\ DOMAIN issued[f] = 1 .. Len(issued[f])
  BY <1>1, Types DEF EngineRecord
<1>4. j \in Job /\ d \in Fetched /\ Follows(job[j]) \in Job \cup {None}
  BY <1>1, <1>2, <1>3, FollowsType DEF Fetched
<1>5. /\ Append(e.q, d) \in Seq(Fetched) /\ Len(Append(e.q, d)) = Len(e.q) + 1 /\ Len(e.q) \in Nat
      /\ DOMAIN Append(e.q, d) = 1 .. Len(e.q) + 1 /\ DOMAIN e.q = 1 .. Len(e.q)
      /\ \A i \in 1 .. Len(e.q) : Append(e.q, d)[i] = e.q[i]
      /\ Append(e.q, d)[Len(e.q) + 1] = d
  BY <1>3, <1>4, AppendFacts
<1>6. PICK t \in EngineRecord :
         /\ engine' = [engine EXCEPT ![f] = t]
         /\ t.q = Append(e.q, d) /\ t.next = Follows(job[j]) /\ t.comb = e.comb
  <2> DEFINE a == Append(e.q, d)
             b == Follows(job[j])
             x == [e EXCEPT !.q = a, !.next = b]
  <2>1. engine' = [engine EXCEPT ![f].q = a, ![f].next = b]
    BY DEF FetchPd
  <2>2. a \in Seq(Fetched) /\ b \in Job \cup {None}
    BY <1>4, <1>5
  <2> HIDE DEF a, b
  <2>3. engine' = [engine EXCEPT ![f] = x]
    BY <1>1, <2>1
  <2>4. x \in EngineRecord
    BY <1>1, <2>2 DEF EngineRecord
  <2>5. x.q = a /\ x.next = b /\ x.comb = e.comb
    BY <1>1 DEF EngineRecord
  <2> QED
    BY <2>3, <2>4, <2>5 DEF a, b
<1>7. engine'[f] = t /\ \A g \in Flow \ {f} : engine'[g] = engine[g]
  BY <1>1, <1>6
<1>9. engine' \in [Flow -> EngineRecord]
  BY <1>1, <1>6
<1>10. engine[f] # Idle
  BY <1>2, IdleType
<1>11. ~Waiting(f) /\ ~Sent(f) /\ ~Ended(f) /\ issued[f] # <<>>
  BY <1>10, BusyChain
<1>12. PICK r \in 0 .. Len(issued[f]) :
         RdsInOrder(f, r) /\ ((r = 0 /\ TermChain(f, engine[f])) \/ DataChain(f, r, engine[f]))
  BY <1>10, BusyChain
<1>13. issued' = issued /\ job' = job /\ output' = output
  BY <1>2 DEF software
<1>14. t # Idle
  <2>1. t.q = Append(e.q, d) /\ Append(e.q, d) # <<>>
    BY <1>6, <1>3, <1>4
  <2> QED
    BY <2>1, IdleType
<1>15. EngineFits(f, r)'
  <2>1. CASE r = 0 /\ TermChain(f, e)
    <3> DEFINE k == issued[f][1]
               lead == [job |-> k, prd |-> FALSE, chained |-> TRUE]
               body == [job |-> k, prd |-> TRUE, chained |-> FALSE]
    <3>1. Len(issued[f]) = 1 /\ job[k].term /\ e.comb = job[k].comb /\ e.q = <<lead>> /\ e.next = k
      BY <1>2, <2>1 DEF TermChain
    <3>2. job[k].nla = None
      BY <3>1 DEF StateInv, FlowInv, Linked
    <3>3. Follows(job[k]) = None
      BY <3>2 DEF Follows
    <3>4. d = body
      BY <3>1, <3>3
    <3>5. t.q = <<lead, body>> /\ t.next = None /\ t.comb = job[k].comb
      <4> HIDE DEF lead, body, d
      <4>1. Append(<<lead>>, body) = <<lead, body>>
        BY PairFacts
      <4> QED
        BY <1>6, <3>1, <3>3, <3>4, <4>1
    <3>6. TermChain(f, t)
      BY <3>1, <3>5 DEF TermChain
    <3>7. TermChain(f, engine[f])'
      BY <1>7, <1>13, <3>6 DEF TermChain
    <3> QED
      BY <2>1, <3>7 DEF EngineFits
  <2>2. CASE DataChain(f, r, e)
    <3> DEFINE m == Len(e.q)
               k == r + m + 1
    <3>1. m \in Nat /\ r \in Nat /\ r + m < Len(issued[f]) /\ j = issued[f][k] /\ job[j].comb = e.comb
      BY <1>2, <1>5, <2>2 DEF DataChain
    <3> HIDE DEF m
    <3>2. k \in DOMAIN issued[f] /\ r + (m + 1) = k
      BY <1>3, <3>1
    <3>3. /\ t.q = Append(e.q, d) /\ t.next = Follows(job[j]) /\ t.comb = e.comb
          /\ Len(t.q) = m + 1 /\ DOMAIN t.q = 1 .. m + 1
      BY <1>6, <1>5 DEF m
    <3>4. t.q # <<>>
      BY <1>6, <1>3, <1>4
    <3>5. r + Len(t.q) <= Len(issued[f])
      BY <1>3, <3>1, <3>3
    <3>6. ASSUME NEW i \in DOMAIN t.q
          PROVE  /\ t.q[i] = [job |-> issued[f][r + i], prd |-> TRUE,
                              chained |-> i < Len(t.q) \/ t.next # None]
                 /\ job[issued[f][r + i]].comb = t.comb
      <4>1. CASE i = m + 1
        <5>1. t.q[i] = d
          BY <1>6, <1>5, <4>1 DEF m
        <5>2. (i < Len(t.q) \/ t.next # None) = (Follows(job[j]) # None)
          BY <3>1, <3>3, <4>1
        <5>3. issued[f][r + i] = j
          BY <3>1, <3>2, <4>1
        <5> QED
          BY <3>1, <3>3, <5>1, <5>2, <5>3, Zenon
      <4>2. CASE i \in 1 .. m
        <5>1. t.q[i] = e.q[i] /\ i \in DOMAIN e.q
          BY <1>6, <1>5, <4>2 DEF m
        <5>2. /\ e.q[i] = [job |-> issued[f][r + i], prd |-> TRUE,
                           chained |-> i < Len(e.q) \/ e.next # None]
              /\ job[issued[f][r + i]].comb = e.comb
          BY <2>2, <5>1 DEF DataChain
        <5>3. (i < Len(e.q) \/ e.next # None) = TRUE
          BY <1>2
        <5>4. (i < Len(t.q) \/ t.next # None) = TRUE
          BY <3>1, <3>3, <4>2
        <5> QED
          BY <3>3, <5>1, <5>2, <5>3, <5>4, Zenon
      <4> QED
        BY <3>1, <3>3, <3>6, <4>1, <4>2
    <3>7. ASSUME t.next # None
          PROVE  /\ r + Len(t.q) < Len(issued[f]) /\ t.next = issued[f][r + Len(t.q) + 1]
                 /\ job[t.next].comb = t.comb
      <4>1. /\ k < Len(issued[f]) /\ Follows(job[j]) = issued[f][k + 1]
            /\ job[issued[f][k + 1]].comb = job[j].comb
        BY <3>1, <3>2, <3>3, <3>7, LinkLeads
      <4>2. r + Len(t.q) = k
        <5>1. k = r + m + 1 /\ Len(t.q) = m + 1
          BY <3>3
        <5>2. m \in Nat /\ r \in Nat
          BY <3>1
        <5> HIDE DEF k
        <5> QED
          BY <5>1, <5>2
      <4> QED
        BY <3>1, <3>3, <4>1, <4>2
    <3>8. DataChain(f, r, t)
      BY <3>4, <3>5, <3>6, <3>7 DEF DataChain
    <3>9. DataChain(f, r, engine[f])'
      BY <1>7, <1>13, <3>8 DEF DataChain
    <3> QED
      BY <3>9 DEF EngineFits
  <2> QED
    BY <1>12, <2>1, <2>2
<1> HIDE DEF d
<1>16. ChainInv(f)'
  <2>1. RdsInOrder(f, r)'
    BY <1>12, <1>13 DEF RdsInOrder
  <2>2. Busy(f)' /\ ~Ended(f)' /\ ~Sent(f)'
    BY <1>2, <1>7, <1>11, <1>13, <1>14 DEF Busy, Ended, Sent
  <2> QED
    BY <1>2, <1>11, <1>15, <2>1, <2>2, BusyNext
<1>17. RingsExact' /\ TypeOK'
  BY <1>1, <1>2, <1>9, <1>13 DEF RingsExact, TypeOK, software
<1>18. ASSUME NEW g \in Flow \ {f}
       PROVE  /\ engine'[g] = engine[g] /\ (Sent(g)' <=> Sent(g)) /\ (Ended(g)' <=> Ended(g))
              /\ \A p \in DOMAIN input' : input'[p].flow = g => \E q \in DOMAIN input : input[q] = input'[p]
              /\ \A s \in 0 .. Len(issued[g]) : RdsInOrder(g, s) => RdsInOrder(g, s)'
  BY <1>2, <1>7, <1>13 DEF Sent, Ended, RdsInOrder
<1> QED
  BY <1>2, <1>16, <1>17, <1>18, DeviceKeeps

(* FDs leave the ring at its head. *)
LEMMA FetchFdKeeps ==
  ASSUME StateInv, FetchFd
  PROVE  StateInv'
<1>1. TypeOK /\ RingsExact /\ engine \in [Flow -> EngineRecord] /\ input \in Seq(FdRecord) /\ visible \in 0 .. Len(input)
  BY DEF StateInv, PendingListExact, TypeOK
<1>2. visible > 0 /\ input' = Tail(input) /\ visible' = visible - 1 /\ UNCHANGED <<output, software>>
  BY DEF FetchFd
<1>3. input # <<>>
  BY <1>1, <1>2
<1>4. /\ Tail(input) \in Seq(FdRecord) /\ Len(Tail(input)) = Len(input) - 1 /\ Len(input) \in Nat \ {0}
      /\ DOMAIN Tail(input) = 1 .. Len(input) - 1 /\ DOMAIN input = 1 .. Len(input)
      /\ \A i \in 1 .. Len(input) - 1 : Tail(input)[i] = input[i + 1]
      /\ Head(input) = input[1] /\ Head(input) \in FdRecord
  BY <1>1, <1>3, TailFacts
<1>5. PICK fd \in FdRecord : fd = Head(input)
  BY <1>4
<1>6. PICK f \in Flow : f = fd.flow
  BY DEF FdRecord
<1> DEFINE d == [job |-> fd.job, prd |-> fd.prd, chained |-> Follows(fd) # None]
           t == [q |-> <<d>>, next |-> Follows(fd), comb |-> fd.comb]
<1>7. engine[f] = Idle /\ engine' = [engine EXCEPT ![f] = t]
  BY <1>5, <1>6 DEF FetchFd
<1>8. d \in Fetched /\ t \in EngineRecord /\ Follows(fd) \in Job \cup {None}
  <2>1. fd.job \in Job /\ fd.prd \in BOOLEAN /\ fd.comb \in Nat /\ fd.nla \in Job \cup {None}
    BY DEF FdRecord
  <2>2. Follows(fd) \in Job \cup {None}
    BY <2>1 DEF Follows
  <2>3. d \in Fetched
    BY <2>1 DEF Fetched
  <2> HIDE DEF d
  <2> QED
    BY <2>1, <2>2, <2>3 DEF EngineRecord
<1>9. engine'[f] = t /\ engine' \in [Flow -> EngineRecord] /\ \A g \in Flow \ {f} : engine'[g] = engine[g]
  BY <1>1, <1>7, <1>8
<1>10. \A p \in DOMAIN input' : p + 1 \in DOMAIN input /\ input'[p] = input[p + 1] /\ p + 1 # 1
  BY <1>2, <1>4
<1>11. \A p \in DOMAIN input : p # 1 => p - 1 \in DOMAIN input' /\ input'[p - 1] = input[p]
  <2> SUFFICES ASSUME NEW p \in DOMAIN input, p # 1
               PROVE  p - 1 \in DOMAIN input' /\ input'[p - 1] = input[p]
    OBVIOUS
  <2>1. p - 1 \in 1 .. Len(input) - 1 /\ (p - 1) + 1 = p
    BY <1>4
  <2> QED
    BY <1>2, <1>4, <2>1
<1>12. 1 \in DOMAIN input /\ input[1] = fd
  BY <1>4, <1>5
<1>13. FdFits(f, fd) /\ Sent(f)
  BY <1>6, <1>12 DEF StateInv, FlowInv, Sent
<1>14. ~Sent(f)'
  BY <1>1, <1>6, <1>10, <1>12 DEF Sent, RingsExact
<1>15. issued' = issued /\ job' = job /\ output' = output
  BY <1>2 DEF software
<1>16. PICK r \in 0 .. Len(issued[f]) : ChainAt(f, r)
  BY DEF StateInv, FlowInv
<1>17. RdsInOrder(f, 0) /\ r = 0 /\ ~Waiting(f) /\ issued[f] # <<>>
  BY <1>13, <1>16 DEF ChainAt, OnePlace
<1>18. ~Ended(f)
  <2> SUFFICES ASSUME NEW p \in DOMAIN output, output[p].final, job[output[p].job].flow = f
               PROVE  FALSE
    BY DEF Ended
  <2>1. output[p].job \in Job /\ job[output[p].job].state = "started"
    BY <1>1, RingTypes DEF RingsExact
  <2>2. PICK i \in DOMAIN issued[f] : issued[f][i] = output[p].job
    BY <2>1 DEF StateInv, StartedIssued
  <2>3. i = 0
    BY <1>17, <2>2 DEF RdsInOrder
  <2>4. DOMAIN issued[f] = 1 .. Len(issued[f]) /\ Len(issued[f]) \in Nat
    BY <1>1, Types
  <2> QED
    BY <2>2, <2>3, <2>4
<1>19. t # Idle
  <2>1. t.q = <<d>> /\ <<d>> # <<>>
    OBVIOUS
  <2> QED
    BY <2>1, IdleType
<1>20. EngineFits(f, 0)'
  <2>1. CASE fd.prd
    <3>1. /\ issued[f] # <<>> /\ fd.job = issued[f][1] /\ fd.comb = job[fd.job].comb
          /\ Follows(fd) # None => /\ Len(issued[f]) > 1 /\ Follows(fd) = issued[f][2]
                                   /\ job[issued[f][2]].comb = fd.comb
      BY <1>13, <2>1 DEF FdFits
    <3>2. Len(issued[f]) \in Nat /\ Len(issued[f]) >= 1
      BY <1>1, <3>1, Types
    <3>3. t.q = <<d>> /\ t.next = Follows(fd) /\ t.comb = fd.comb
      OBVIOUS
    <3>4. d = [job |-> issued[f][1], prd |-> TRUE, chained |-> Follows(fd) # None]
      <4>1. fd.prd = TRUE
        BY <2>1 DEF FdRecord
      <4> QED
        BY <3>1, <4>1
    <3> HIDE DEF d
    <3>5. Len(t.q) = 1 /\ t.q[1] = d /\ \A i \in DOMAIN t.q : i = 1
      BY <3>3
    <3>6. ASSUME NEW i \in DOMAIN t.q
          PROVE  /\ t.q[i] = [job |-> issued[f][0 + i], prd |-> TRUE,
                              chained |-> i < Len(t.q) \/ t.next # None]
                 /\ job[issued[f][0 + i]].comb = t.comb
      <4>1. i = 1 /\ 0 + i = 1
        BY <3>5
      <4>2. (i < Len(t.q) \/ t.next # None) = (Follows(fd) # None)
        BY <3>3, <3>5, <4>1
      <4> QED
        BY <3>1, <3>3, <3>4, <3>5, <4>1, <4>2, Zenon
    <3>7. 0 + Len(t.q) <= Len(issued[f]) /\ (Len(issued[f]) > 1 => 0 + Len(t.q) < Len(issued[f]))
          /\ 0 + Len(t.q) + 1 = 2
      BY <3>2, <3>5
    <3>8. t.q # <<>>
      BY <3>3
    <3>9. DataChain(f, 0, t)
      BY <3>1, <3>3, <3>6, <3>7, <3>8 DEF DataChain
    <3>10. DataChain(f, 0, engine[f])'
      BY <1>9, <1>15, <3>9 DEF DataChain
    <3> QED
      BY <3>10 DEF EngineFits
  <2>2. CASE ~fd.prd
    <3> DEFINE k == issued[f][1]
    <3>1. /\ Len(issued[f]) = 1 /\ fd.job = k /\ fd.comb = job[k].comb /\ job[k].term
          /\ Follows(fd) = k
      BY <1>13, <2>2 DEF FdFits
    <3>2. k # None
      BY <1>1, <3>1, Types, FlowAssumption
    <3>3. d = [job |-> k, prd |-> FALSE, chained |-> TRUE]
      <4>1. fd.prd = FALSE /\ (Follows(fd) # None) = TRUE
        BY <2>2, <3>1, <3>2 DEF FdRecord
      <4> QED
        BY <3>1, <4>1
    <3>4. t.q = <<d>> /\ t.next = Follows(fd) /\ t.comb = fd.comb
      OBVIOUS
    <3> HIDE DEF d
    <3>5. TermChain(f, t)
      BY <3>1, <3>3, <3>4 DEF TermChain
    <3>6. TermChain(f, engine[f])'
      BY <1>9, <1>15, <3>5 DEF TermChain
    <3> QED
      BY <3>6 DEF EngineFits
  <2> QED
    BY <2>1, <2>2
<1> HIDE DEF t, d
<1>21. ChainInv(f)'
  <2>1. RdsInOrder(f, 0)'
    BY <1>15, <1>17 DEF RdsInOrder
  <2>2. Busy(f)' /\ ~Ended(f)'
    BY <1>9, <1>15, <1>18, <1>19 DEF Busy, Ended
  <2> QED
    BY <1>2, <1>14, <1>17, <1>20, <2>1, <2>2, BusyNext
<1>22. RingsExact'
  <2>1. ASSUME NEW p \in DOMAIN input', NEW q \in DOMAIN input', input'[p].flow = input'[q].flow
        PROVE  p = q
    <3>1. p + 1 = q + 1
      BY <1>1, <1>10, <2>1 DEF RingsExact
    <3>2. p \in Nat /\ q \in Nat
      BY <1>2, <1>4
    <3> QED
      BY <3>1, <3>2
  <2> QED
    BY <1>1, <1>15, <2>1 DEF RingsExact
<1>23. TypeOK'
  <2>1. input' \in Seq(FdRecord) /\ Len(input') < InputSize /\ visible' \in 0 .. Len(input')
    BY <1>1, <1>2, <1>4, FlowAssumption DEF TypeOK
  <2> QED
    BY <1>1, <1>2, <1>9, <2>1 DEF TypeOK, software
<1>24. ASSUME NEW g \in Flow \ {f}
       PROVE  /\ engine'[g] = engine[g] /\ (Sent(g)' <=> Sent(g)) /\ (Ended(g)' <=> Ended(g))
              /\ \A p \in DOMAIN input' : input'[p].flow = g => \E q \in DOMAIN input : input[q] = input'[p]
              /\ \A s \in 0 .. Len(issued[g]) : RdsInOrder(g, s) => RdsInOrder(g, s)'
  <2>1. Sent(g)' <=> Sent(g)
    BY <1>6, <1>10, <1>11, <1>12 DEF Sent
  <2>2. (Ended(g)' <=> Ended(g)) /\ \A s \in 0 .. Len(issued[g]) : RdsInOrder(g, s) => RdsInOrder(g, s)'
    BY <1>15 DEF Ended, RdsInOrder
  <2> QED
    BY <1>9, <1>10, <2>1, <2>2
<1> QED
  BY <1>2, <1>21, <1>22, <1>23, <1>24, DeviceKeeps

-----------------------------------------------------------------------------
(* nlm_start_jobs adds a job to its flow. *)
LEMMA FirstTodo ==
  ASSUME StateInv, pc \in {"add", "link"}
  PROVE  LET j == Head(todo)
             f == job[j].flow IN
         /\ todo # <<>> /\ todo \in Seq(Job) /\ j \in Job /\ job[j] \in JobRecord /\ f \in Flow
         /\ job[j].state = "created" /\ job[j].nla = None /\ ~job[j].disc
         /\ flow[f].type \in {"stateful", "invalid"} /\ flow[f].comb # 0
         /\ flow[f].type = "stateful" => ~job[j].term /\ job[j].length = 1
         /\ \A i \in DOMAIN issued[f] : ~job[issued[f][i]].term
         /\ flow[f].type = "invalid" => todo = <<j>>
         /\ \A k \in Job : k # j /\ job[k].state = "created" => ~job[k].term
<1>1. TypeOK /\ TodoReady /\ CreatedReady
  BY DEF StateInv, PendingListExact
<1>2. todo # <<>> /\ todo \in Seq(Job)
  BY <1>1 DEF TodoReady, TypeOK
<1>3. PICK j \in Job : j = Head(todo) /\ job[j].state = "created"
  <2>1. Head(todo) \in Job /\ Head(todo) = todo[1] /\ 1 \in DOMAIN todo
    BY <1>2, TailFacts
  <2> QED
    BY <1>1, <2>1 DEF TodoReady
<1>4. PICK f \in Flow : f = job[j].flow
  BY <1>1, <1>3 DEF CreatedReady
<1>5. /\ job[j] \in JobRecord /\ job[j].nla = None /\ ~job[j].disc /\ flow[f].comb # 0
      /\ flow[f].type \in {"stateful", "invalid"}
      /\ flow[f].type = "stateful" => ~job[j].term /\ job[j].length = 1
      /\ flow[f].type = "invalid" => todo = <<j>>
  BY <1>1, <1>3, <1>4 DEF CreatedReady, TypeOK
<1>6. \A i \in DOMAIN issued[f] : ~job[issued[f][i]].term
  <2>1. CASE flow[f].type = "invalid"
    BY <1>1, <1>3, <1>4, <2>1 DEF CreatedReady
  <2>2. CASE flow[f].type = "stateful"
    BY <2>2 DEF StateInv, FlowInv, IssuedExact
  <2> QED
    BY <1>5, <2>1, <2>2
<1>7. \A k \in Job : k # j /\ job[k].state = "created" => ~job[k].term
  <2>1. \A k \in Job : k # j => todo # <<k>>
    BY <1>3
  <2> QED
    BY <1>1, <2>1 DEF CreatedReady
<1> QED
  BY <1>2, <1>3, <1>4, <1>5, <1>6, <1>7

(* The last PD of a flow that is in use is its last started job. *)
LEMMA LastIssued ==
  ASSUME StateInv, NEW f \in Flow, flow[f].type # "free"
  PROVE  /\ flow[f].last = None <=> issued[f] = <<>>
         /\ flow[f].last # None =>
               /\ Len(issued[f]) \in DOMAIN issued[f] /\ flow[f].last = issued[f][Len(issued[f])]
               /\ flow[f].last \in Job /\ job[flow[f].last].state = "started"
               /\ flow[f].lastComb = job[flow[f].last].comb
               /\ job[flow[f].last].nla = None
               /\ job[flow[f].last].disc => pc = "link" /\ job[Head(todo)].flow = f
<1>1. TypeOK /\ Linked(f) /\ IssuedExact(f)
  BY DEF StateInv, PendingListExact, FlowInv
<1>2. /\ Len(issued[f]) \in Nat /\ DOMAIN issued[f] = 1 .. Len(issued[f])
      /\ \A i \in 1 .. Len(issued[f]) : issued[f][i] \in Job
      /\ issued[f] = <<>> <=> Len(issued[f]) = 0
  BY <1>1, Types
<1>3. CASE Len(issued[f]) = 0
  BY <1>1, <1>2, <1>3 DEF Linked
<1>4. CASE Len(issued[f]) > 0
  <2>1. Len(issued[f]) \in DOMAIN issued[f] /\ issued[f][Len(issued[f])] \in Job
    BY <1>2, <1>4
  <2> QED
    BY <1>1, <1>2, <1>4, <2>1, FlowAssumption DEF Linked, IssuedExact
<1> QED
  BY <1>2, <1>3, <1>4

LEMMA DisconnectKeeps ==
  ASSUME StateInv, Disconnect
  PROVE  StateInv'
<1>1. TypeOK /\ TodoReady /\ CreatedReady /\ RingsExact /\ StartedIssued /\ job \in [Job -> JobRecord]
  BY DEF StateInv, PendingListExact, TypeOK
<1>2. pc = "add" /\ pc' = "link" /\ UNCHANGED <<flow, pending, input, device, todo, issued>>
  BY DEF Disconnect
<1>3. PICK j \in Job : j = Head(todo) /\ job[j].state = "created" /\ job[j].flow \in Flow
  BY <1>2, FirstTodo
<1>4. PICK f \in Flow : f = job[j].flow
  BY <1>3
<1>5. todo # <<>> /\ flow[f].type # "free"
  BY <1>2, <1>3, <1>4, FirstTodo
<1>6. flow[f].last # None /\ job[j].comb # flow[f].lastComb
      /\ job' = [job EXCEPT ![flow[f].last].disc = TRUE]
  BY <1>3, <1>4 DEF Disconnect
<1>7. PICK l \in Job : l = flow[f].last
  BY <1>5, <1>6, LastIssued
<1>8. /\ Len(issued[f]) \in DOMAIN issued[f] /\ l = issued[f][Len(issued[f])]
      /\ job[l].state = "started" /\ flow[f].lastComb = job[l].comb /\ job[l].nla = None
  BY <1>5, <1>6, <1>7, LastIssued
<1>9. PICK y \in JobRecord :
         /\ job' = [job EXCEPT ![l] = y] /\ y.disc
         /\ y.state = job[l].state /\ y.flow = job[l].flow /\ y.comb = job[l].comb
         /\ y.term = job[l].term /\ y.nla = job[l].nla /\ y.length = job[l].length
  <2> DEFINE y == [job[l] EXCEPT !.disc = TRUE]
  <2>1. job' = [job EXCEPT ![l] = y]
    BY <1>1, <1>6, <1>7
  <2>2. job[l] \in JobRecord
    BY <1>1
  <2>3. y \in JobRecord
    BY <2>2 DEF JobRecord
  <2>4. /\ y.disc /\ y.state = job[l].state /\ y.flow = job[l].flow /\ y.comb = job[l].comb
        /\ y.term = job[l].term /\ y.nla = job[l].nla /\ y.length = job[l].length
    BY <2>2 DEF JobRecord
  <2> QED
    BY <2>1, <2>3, <2>4
<1>10. \A k \in Job : job'[k] = IF k = l THEN y ELSE job[k]
  BY <1>1, <1>9
<1>11. \A k \in Job : SameJob(k)
  BY <1>9, <1>10 DEF SameJob
<1>12. TypeOK' /\ PendingListExact'
  <2>1. job' \in [Job -> JobRecord]
    BY <1>1, <1>9
  <2>2. TypeOK'
    BY <1>1, <1>2, <2>1 DEF TypeOK, device
  <2> QED
    BY <1>2, <2>2 DEF StateInv, PendingListExact, Distinct
<1>13. StartedIssued'
  BY <1>1, <1>2, <1>11 DEF StartedIssued, SameJob
<1>14. \A g \in Flow : \A i \in DOMAIN issued[g] : issued[g][i] \in Job
  BY <1>1, Types
<1>15. CreatedReady'
  <2> SUFFICES ASSUME NEW k \in Job, job'[k].state = "created"
               PROVE  /\ job'[k].flow \in Flow /\ job'[k].nla = None /\ ~job'[k].disc
                      /\ flow'[job'[k].flow].comb # 0
                      /\ IF job'[k].term
                         THEN /\ flow'[job'[k].flow].type = "invalid" /\ todo' = <<k>>
                              /\ \A i \in DOMAIN issued'[job'[k].flow] : ~job'[issued'[job'[k].flow][i]].term
                         ELSE flow'[job'[k].flow].type = "stateful" /\ job'[k].length = 1
    BY DEF CreatedReady
  <2>1. k # l /\ job'[k] = job[k] /\ job[k].state = "created" /\ job[k].flow \in Flow
    BY <1>1, <1>8, <1>9, <1>10 DEF CreatedReady
  <2>2. \A i \in DOMAIN issued[job[k].flow] : job'[issued[job[k].flow][i]].term = job[issued[job[k].flow][i]].term
    BY <1>11, <1>14, <2>1 DEF SameJob
  <2> QED
    BY <1>1, <1>2, <2>1, <2>2 DEF CreatedReady
<1>16. RingsExact'
  BY <1>1, <1>2, <1>11, RingTypes DEF RingsExact, SameJob, device
<1>17. TodoReady'
  <2>1. \A i \in DOMAIN todo : todo[i] \in Job
    BY <1>1, SeqFacts DEF TypeOK
  <2>2. \A i \in DOMAIN todo : job'[todo[i]].state = "created"
    BY <1>1, <1>11, <2>1 DEF TodoReady, SameJob
  <2>3. job'[j].flow = f /\ job'[j].comb = job[j].comb /\ job'[l].disc
    BY <1>4, <1>9, <1>10, <1>11 DEF SameJob
  <2> QED
    BY <1>1, <1>2, <1>3, <1>5, <1>6, <1>7, <2>2, <2>3 DEF TodoReady, Distinct
<1>18. ASSUME NEW g \in Flow PROVE FlowInv(g)'
  <2>1. Sent(g)' <=> Sent(g)
    BY <1>2 DEF Sent
  <2>2. Ended(g)' <=> Ended(g)
    BY <1>2, <1>11, EndedKept DEF SameJob, device
  <2>3. \A r \in 0 .. Len(issued[g]) : RdsInOrder(g, r) => RdsInOrder(g, r)'
    BY <1>2 DEF RdsInOrder, device
  <2>4. \A i \in DOMAIN issued[g] : SameJob(issued[g][i])
    BY <1>11, <1>14
  <2>5. ChainInv(g)'
    BY <1>2, <2>1, <2>2, <2>3, <2>4, ChainKept DEF device
  <2>6. CASE g # f
    <3>1. \A i \in DOMAIN issued[g] : job'[issued[g][i]] = job[issued[g][i]]
      <4>1. \A i \in DOMAIN issued[g] : job[issued[g][i]].flow = g
        BY DEF StateInv, FlowInv, IssuedExact
      <4>2. job[l].flow = f
        BY <1>8 DEF StateInv, FlowInv, IssuedExact
      <4> QED
        BY <1>10, <1>14, <2>6, <4>1, <4>2
    <3>2. FlowKept(g)
      BY <1>2, SameFlowKept
    <3>3. IssuedExact(g)' /\ Linked(g)' /\ SeenUsed(g)'
      BY <1>2, <3>1, <3>2, ListKept
    <3> QED
      BY <2>5, <3>3 DEF FlowInv, ChainInv
  <2>7. CASE g = f
    <3>1. IssuedExact(f)' /\ SeenUsed(f)'
      BY <1>2, <2>4, <2>7 DEF StateInv, FlowInv, IssuedExact, SeenUsed, SameJob, Distinct
    <3>2. Len(issued[f]) \in Nat /\ DOMAIN issued[f] = 1 .. Len(issued[f])
      BY <1>1, Types
    <3>3. ASSUME NEW i \in 1 .. Len(issued[f]) - 1
          PROVE  /\ job'[issued[f][i]].nla = issued[f][i + 1]
                 /\ job'[issued[f][i]].disc <=> job'[issued[f][i]].comb # job'[issued[f][i + 1]].comb
      <4>1. i \in DOMAIN issued[f] /\ i + 1 \in DOMAIN issued[f] /\ i # Len(issued[f])
        BY <3>2
      <4>2. issued[f][i] # l
        BY <1>8, <4>1 DEF StateInv, FlowInv, IssuedExact, Distinct
      <4>3. job'[issued[f][i]] = job[issued[f][i]] /\ job'[issued[f][i + 1]].comb = job[issued[f][i + 1]].comb
        BY <1>10, <1>11, <1>14, <4>1, <4>2 DEF SameJob
      <4> QED
        BY <4>3 DEF StateInv, FlowInv, Linked
    <3>4. job'[j].flow = f
      BY <1>4, <1>11 DEF SameJob
    <3>5. Linked(f)'
      <4>1. Len(issued[f]) # 0
        BY <1>8, <3>2
      <4>2. /\ flow[f].last = l /\ flow[f].lastComb = job'[l].comb /\ job'[l].nla = None
        BY <1>7, <1>8, <1>9, <1>10
      <4>3. pc' = "link" /\ job'[Head(todo')].flow = f
        BY <1>2, <1>3, <3>4
      <4> QED
        BY <1>2, <1>8, <3>3, <4>1, <4>2, <4>3 DEF Linked
    <3> QED
      BY <2>5, <2>7, <3>1, <3>5 DEF FlowInv, ChainInv
  <2> QED
    BY <2>6, <2>7
<1> QED
  BY <1>12, <1>13, <1>15, <1>16, <1>17, <1>18 DEF StateInv

(* What adding job j to flow f has in common, whether it is linked or not. *)
IssueStep(f, j) ==
    /\ Issue(f, j) /\ UNCHANGED <<input, device>>
    /\ job' \in [Job -> JobRecord]
    /\ job'[j].state = "started" /\ job'[j].flow = f /\ job'[j].term = job[j].term
    /\ job'[j].comb = job[j].comb /\ job'[j].nla = None /\ ~job'[j].disc
    /\ \A k \in Job \ {j} :
          /\ SameJob(k) /\ job'[k].disc = job[k].disc
          /\ job[k].state # "started" \/ job[k].flow # f => job'[k] = job[k]
    /\ \A g \in Flow \ {f} : flow'[g] = flow[g]
    /\ flow'[f].type = flow[f].type /\ flow'[f].comb = flow[f].comb /\ flow'[f].groups = flow[f].groups
    /\ flow'[f].last = j /\ flow'[f].lastComb = job[j].comb
    /\ flow'[f].type = "stateful" => flow'[f].offset # 0

NextToIssue(f, j) == pc \in {"add", "link"} /\ j = Head(todo) /\ f = job[j].flow

LEMMA IssueFacts ==
  ASSUME StateInv, NEW j \in Job, NEW f \in Flow, NextToIssue(f, j), IssueStep(f, j)
  PROVE  /\ issued'[f] \in Seq(Job) /\ Len(issued[f]) \in Nat /\ Len(issued'[f]) = Len(issued[f]) + 1
         /\ DOMAIN issued'[f] = 1 .. Len(issued[f]) + 1 /\ DOMAIN issued[f] = 1 .. Len(issued[f])
         /\ \A i \in DOMAIN issued[f] : i \in DOMAIN issued'[f] /\ issued'[f][i] = issued[f][i]
         /\ issued'[f][Len(issued[f]) + 1] = j
         /\ \A i \in DOMAIN issued[f] : issued[f][i] \in Job /\ issued[f][i] # j /\ SameJob(issued[f][i])
                                         /\ ~job[issued[f][i]].term
         /\ \A g \in Flow \ {f} : issued'[g] = issued[g]
<1>1. TypeOK /\ issued \in [Flow -> Seq(Job)] /\ issued[f] \in Seq(Job)
  BY Types DEF StateInv, PendingListExact, TypeOK
<1>2. issued' = [issued EXCEPT ![f] = Append(@, j)]
  BY DEF IssueStep, Issue
<1>3. issued'[f] = Append(issued[f], j) /\ \A g \in Flow \ {f} : issued'[g] = issued[g]
  BY <1>1, <1>2
<1>4. /\ issued'[f] \in Seq(Job) /\ Len(issued[f]) \in Nat /\ Len(issued'[f]) = Len(issued[f]) + 1
      /\ DOMAIN issued'[f] = 1 .. Len(issued[f]) + 1 /\ DOMAIN issued[f] = 1 .. Len(issued[f])
      /\ \A i \in 1 .. Len(issued[f]) : issued'[f][i] = issued[f][i]
      /\ issued'[f][Len(issued[f]) + 1] = j
  BY <1>1, <1>3, AppendFacts
<1>5. \A i \in DOMAIN issued[f] : i \in DOMAIN issued'[f] /\ issued'[f][i] = issued[f][i]
  BY <1>4
<1>6. job[j].state = "created" /\ \A i \in DOMAIN issued[f] : ~job[issued[f][i]].term
  BY FirstTodo DEF NextToIssue
<1>7. \A i \in DOMAIN issued[f] : issued[f][i] \in Job /\ job[issued[f][i]].state = "started"
  BY <1>1, Types DEF StateInv, FlowInv, IssuedExact
<1>8. \A i \in DOMAIN issued[f] : issued[f][i] # j /\ SameJob(issued[f][i])
  BY <1>6, <1>7 DEF IssueStep
<1> QED
  BY <1>3, <1>4, <1>5, <1>6, <1>7, <1>8

LEMMA IssueOutput ==
  ASSUME StateInv, NEW j \in Job, NEW f \in Flow, NextToIssue(f, j), IssueStep(f, j)
  PROVE  /\ output' = output /\ \A p \in DOMAIN output : output[p].job # j
         /\ \A g \in Flow : Ended(g)' <=> Ended(g)
         /\ RingsExact'
<1>1. TypeOK /\ RingsExact /\ output' = output /\ input' = input
  BY DEF StateInv, PendingListExact, IssueStep, device
<1>2. job[j].state = "created"
  BY FirstTodo DEF NextToIssue
<1>3. \A p \in DOMAIN output : output[p].job \in Job /\ output[p].job # j
  BY <1>1, <1>2, RingTypes DEF RingsExact
<1>4. \A k \in Job : job[k].state = "started" => job'[k].flow = job[k].flow /\ job'[k].state = "started"
  BY <1>2 DEF IssueStep, SameJob
<1>5. \A g \in Flow : Ended(g)' <=> Ended(g)
  BY <1>1, <1>4, EndedKept
<1>6. RingsExact'
  BY <1>1, <1>3, <1>4 DEF RingsExact
<1> QED
  BY <1>1, <1>3, <1>5, <1>6

LEMMA IssueKeeps ==
  ASSUME StateInv, NEW j \in Job, NEW f \in Flow, NextToIssue(f, j), IssueStep(f, j), PendingListExact', ChainInv(f)', Linked(f)'
  PROVE  StateInv'
<1>1. TypeOK /\ StartedIssued /\ CreatedReady /\ TodoReady
  BY DEF StateInv, PendingListExact
<1>2. /\ job[j].state = "created" /\ todo # <<>> /\ todo \in Seq(Job) /\ flow[f].comb # 0
      /\ flow[f].type \in {"stateful", "invalid"} /\ (flow[f].type = "stateful" => ~job[j].term)
      /\ flow[f].type = "invalid" => todo = <<j>>
      /\ \A k \in Job : k # j /\ job[k].state = "created" => ~job[k].term
  BY FirstTodo DEF NextToIssue
<1>3. /\ Len(issued[f]) \in Nat /\ Len(issued'[f]) = Len(issued[f]) + 1
      /\ DOMAIN issued'[f] = 1 .. Len(issued[f]) + 1 /\ DOMAIN issued[f] = 1 .. Len(issued[f])
      /\ \A i \in DOMAIN issued[f] : i \in DOMAIN issued'[f] /\ issued'[f][i] = issued[f][i]
      /\ issued'[f][Len(issued[f]) + 1] = j
      /\ \A i \in DOMAIN issued[f] : issued[f][i] \in Job /\ issued[f][i] # j /\ SameJob(issued[f][i])
                                      /\ ~job[issued[f][i]].term
      /\ \A g \in Flow \ {f} : issued'[g] = issued[g]
  BY IssueFacts
<1>4. \A i \in DOMAIN issued'[f] : i \in DOMAIN issued[f] \/ i = Len(issued[f]) + 1
  BY <1>3
<1>5. Len(issued[f]) + 1 \in DOMAIN issued'[f]
  BY <1>3
<1>6. IssuedExact(f)'
  <2>1. \A i \in DOMAIN issued[f] : job[issued[f][i]].state = "started" /\ job[issued[f][i]].flow = f
    BY DEF StateInv, FlowInv, IssuedExact
  <2>2. Distinct(issued[f])
    BY DEF StateInv, FlowInv, IssuedExact
  <2>3. ASSUME NEW i \in DOMAIN issued'[f], NEW k \in DOMAIN issued'[f], issued'[f][i] = issued'[f][k]
        PROVE  i = k
    <3> DEFINE n == Len(issued[f]) + 1
    <3>1. (i \in DOMAIN issued[f] \/ i = n) /\ (k \in DOMAIN issued[f] \/ k = n) /\ issued'[f][n] = j
      BY <1>3, <1>4
    <3>2. \A m \in DOMAIN issued[f] : issued'[f][m] = issued[f][m] /\ issued[f][m] # j
      BY <1>3
    <3> HIDE DEF n
    <3> QED
      BY <2>2, <2>3, <3>1, <3>2 DEF Distinct
  <2>4. \A i \in DOMAIN issued[f] :
           job'[issued[f][i]].state = "started" /\ job'[issued[f][i]].flow = f /\ ~job'[issued[f][i]].term
    <3>1. \A i \in DOMAIN issued[f] : SameJob(issued[f][i]) /\ ~job[issued[f][i]].term
      BY <1>3
    <3>2. ASSUME NEW k \in Job, SameJob(k), ~job[k].term, job[k].state = "started", job[k].flow = f
          PROVE  job'[k].state = "started" /\ job'[k].flow = f /\ ~job'[k].term
      BY <3>2 DEF SameJob
    <3> QED
      BY <1>3, <2>1, <3>1, <3>2
  <2>5. /\ job'[j].state = "started" /\ job'[j].flow = f /\ (job'[j].term => flow'[f].type = "invalid")
    BY <1>2 DEF IssueStep
  <2>6. ASSUME NEW i \in DOMAIN issued'[f]
        PROVE  /\ job'[issued'[f][i]].state = "started" /\ job'[issued'[f][i]].flow = f
               /\ job'[issued'[f][i]].term => i = Len(issued'[f]) /\ flow'[f].type = "invalid"
    BY <1>3, <1>4, <2>4, <2>5
  <2>7. (Distinct(issued[f]))'
    BY <2>3 DEF Distinct
  <2> QED
    BY <2>6, <2>7 DEF IssuedExact
<1>7. SeenUsed(f)'
  <2>1. flow[f].groups > 0 => flow[f].comb # 0
    BY DEF StateInv, FlowInv, SeenUsed
  <2> QED
    BY <1>2, <2>1 DEF SeenUsed, IssueStep
<1>8. ASSUME NEW g \in Flow \ {f} PROVE FlowInv(g)'
  <2>1. FlowKept(g) /\ issued'[g] = issued[g]
    BY <1>3, SameFlowKept DEF IssueStep
  <2>2. \A i \in DOMAIN issued[g] : issued[g][i] \in Job /\ job[issued[g][i]].flow = g
    BY <1>1, Types DEF StateInv, FlowInv, IssuedExact
  <2>3. \A i \in DOMAIN issued[g] : job'[issued[g][i]] = job[issued[g][i]] /\ SameJob(issued[g][i])
    <3>1. \A i \in DOMAIN issued[g] : issued[g][i] # j
      BY <2>2 DEF NextToIssue
    <3> QED
      BY <2>2, <3>1 DEF IssueStep
  <2>4. ~(pc = "link" /\ job[Head(todo)].flow = g)
    BY DEF NextToIssue
  <2>5. IssuedExact(g)' /\ Linked(g)' /\ SeenUsed(g)'
    BY <2>1, <2>3, <2>4, ListKept
  <2>6. Ended(g)' <=> Ended(g)
    BY IssueOutput
  <2>7. /\ Sent(g)' <=> Sent(g)
        /\ \A p \in DOMAIN input' : input'[p].flow = g => \E q \in DOMAIN input : input[q] = input'[p]
    BY DEF Sent, IssueStep
  <2>8. \A r \in 0 .. Len(issued[g]) : RdsInOrder(g, r) => RdsInOrder(g, r)'
    BY <2>1, IssueOutput DEF RdsInOrder
  <2>9. flow'[g].head = flow[g].head /\ engine'[g] = engine[g]
    BY DEF IssueStep, device
  <2>10. ChainInv(g)'
    BY <2>1, <2>3, <2>6, <2>7, <2>8, <2>9, ChainKept
  <2> QED
    BY <2>5, <2>10 DEF FlowInv, ChainInv
<1>9. FlowInv(f)'
  BY <1>6, <1>7 DEF FlowInv, ChainInv
<1>10. StartedIssued'
  <2> SUFFICES ASSUME NEW k \in Job, job'[k].state = "started"
               PROVE  job'[k].flow \in Flow /\ \E i \in DOMAIN issued'[job'[k].flow] : issued'[job'[k].flow][i] = k
    BY DEF StartedIssued
  <2>1. CASE k = j
    BY <1>3, <1>5, <2>1 DEF IssueStep
  <2>2. CASE k # j
    <3>1. job[k].state = "started" /\ job'[k].flow = job[k].flow
      BY <2>2 DEF IssueStep, SameJob
    <3>2. PICK g \in Flow : g = job[k].flow
      BY <1>1, <3>1 DEF StartedIssued
    <3>3. PICK i \in DOMAIN issued[g] : issued[g][i] = k
      BY <1>1, <3>1, <3>2 DEF StartedIssued
    <3>4. i \in DOMAIN issued'[g] /\ issued'[g][i] = k
      BY <1>3, <3>3
    <3> QED
      BY <3>1, <3>2, <3>4
  <2> QED
    BY <2>1, <2>2
<1>11. CreatedReady'
  <2> SUFFICES ASSUME NEW k \in Job, job'[k].state = "created"
               PROVE  /\ job'[k].flow \in Flow /\ job'[k].nla = None /\ ~job'[k].disc /\ ~job'[k].term
                      /\ flow'[job'[k].flow].comb # 0
                      /\ flow'[job'[k].flow].type = "stateful" /\ job'[k].length = 1
    BY DEF CreatedReady
  <2>1. k # j /\ job[k].state = "created" /\ job'[k] = job[k] /\ ~job[k].term
    BY <1>2 DEF IssueStep, SameJob
  <2>2. PICK g \in Flow : g = job[k].flow
    BY <1>1, <2>1 DEF CreatedReady
  <2>3. flow[g].comb # 0 /\ flow[g].type = "stateful" /\ job[k].length = 1 /\ job[k].nla = None /\ ~job[k].disc
    BY <1>1, <2>1, <2>2 DEF CreatedReady
  <2>4. flow'[g].comb # 0 /\ flow'[g].type = "stateful"
    BY <2>3 DEF IssueStep
  <2> QED
    BY <2>1, <2>2, <2>3, <2>4
<1>12. TodoReady'
  <2>1. /\ Len(Tail(todo)) = Len(todo) - 1 /\ Len(todo) \in Nat \ {0} /\ Tail(todo) \in Seq(Job)
        /\ DOMAIN Tail(todo) = 1 .. Len(todo) - 1 /\ DOMAIN todo = 1 .. Len(todo)
        /\ \A i \in 1 .. Len(todo) - 1 : Tail(todo)[i] = todo[i + 1]
        /\ Head(todo) = todo[1]
    BY <1>2, TailFacts
  <2>2. todo' = Tail(todo) /\ pc' = IF Len(todo) = 1 THEN "start" ELSE "add"
    BY DEF IssueStep, Issue
  <2>3. todo' # <<>> <=> Len(todo) # 1
    <3>1. Tail(todo) = <<>> <=> Len(Tail(todo)) = 0
      BY <2>1, SeqFacts
    <3> QED
      BY <2>1, <2>2, <3>1
  <2>4. \A i \in DOMAIN todo' : i + 1 \in DOMAIN todo /\ i + 1 # 1 /\ todo'[i] = todo[i + 1] /\ i \in Nat
    BY <2>1, <2>2
  <2>5. Distinct(todo) /\ \A i \in DOMAIN todo : job[todo[i]].state = "created" /\ todo[i] \in Job
    BY <1>1, <1>2, SeqFacts DEF TodoReady
  <2>6. \A i, k \in DOMAIN todo' : todo'[i] = todo'[k] => i = k
    <3> SUFFICES ASSUME NEW i \in DOMAIN todo', NEW k \in DOMAIN todo', todo'[i] = todo'[k]
                 PROVE  i = k
      OBVIOUS
    <3>1. i + 1 = k + 1
      BY <2>4, <2>5 DEF Distinct
    <3> QED
      BY <2>4, <3>1
  <2>7. 1 \in DOMAIN todo /\ todo[1] = j
    BY <2>1 DEF NextToIssue
  <2>8. \A i \in DOMAIN todo' : todo'[i] # j /\ todo'[i] \in Job /\ job[todo'[i]].state = "created"
    <3> SUFFICES ASSUME NEW i \in DOMAIN todo'
                 PROVE  todo'[i] # j /\ todo'[i] \in Job /\ job[todo'[i]].state = "created"
      OBVIOUS
    <3>1. i + 1 \in DOMAIN todo /\ i + 1 # 1 /\ todo'[i] = todo[i + 1]
      BY <2>4
    <3>2. todo[i + 1] # todo[1]
      BY <2>5, <2>7, <3>1 DEF Distinct
    <3> QED
      BY <2>1, <2>5, <2>7, <3>1, <3>2
  <2>9. \A i \in DOMAIN todo' : job'[todo'[i]].state = "created"
    BY <2>8 DEF IssueStep
  <2> QED
    BY <2>2, <2>3, <2>6, <2>9 DEF TodoReady, Distinct
<1> QED
  BY <1>8, <1>9, <1>10, <1>11, <1>12, IssueOutput DEF StateInv

(* The end of nlm_flow_add_job_to_list. *)
LEMMA AddedFacts ==
  ASSUME TypeOK, NEW j \in Job, NEW f \in Flow
  PROVE  LET a == AddedToFlow(f, j) IN
         /\ a \in [Flow -> FlowRecord] /\ \A g \in Flow \ {f} : a[g] = flow[g]
         /\ a[f].type = flow[f].type /\ a[f].comb = flow[f].comb /\ a[f].groups = flow[f].groups
         /\ a[f].head = flow[f].head /\ a[f].last = j /\ a[f].lastComb = job[j].comb
         /\ job[j].length = 1 => a[f].offset # 0
<1> DEFINE z == IF job[j].length = 0 THEN flow[f].offset ELSE 1
           c == job[j].comb
           x == [flow[f] EXCEPT !.last = j, !.lastComb = c, !.offset = z]
<1>1. flow \in [Flow -> FlowRecord] /\ flow[f] \in FlowRecord /\ job[j] \in JobRecord
  BY DEF TypeOK
<1>2. z \in Nat /\ c \in Nat /\ (job[j].length = 1 => z # 0)
  BY <1>1 DEF FlowRecord, JobRecord
<1>3. AddedToFlow(f, j) = [flow EXCEPT ![f] = x]
  BY <1>1 DEF AddedToFlow
<1> HIDE DEF z, c
<1>4. x \in FlowRecord
  BY <1>1, <1>2 DEF FlowRecord
<1>5. /\ x.type = flow[f].type /\ x.comb = flow[f].comb /\ x.groups = flow[f].groups
      /\ x.head = flow[f].head /\ x.last = j /\ x.lastComb = c /\ x.offset = z
  BY <1>1 DEF FlowRecord
<1> HIDE DEF x
<1> QED
  BY <1>1, <1>2, <1>3, <1>4, <1>5 DEF c

LEMMA IssueTypes ==
  ASSUME StateInv, NEW j \in Job, NEW f \in Flow, NextToIssue(f, j), IssueStep(f, j),
         flow' \in [Flow -> FlowRecord], pending' \in Seq(Flow)
  PROVE  TypeOK'
<1>1. TypeOK
  BY DEF StateInv, PendingListExact
<1>2. todo # <<>> /\ todo \in Seq(Job)
  BY FirstTodo DEF NextToIssue
<1>3. todo' \in Seq(Job) /\ pc' \in {"start", "add"}
  <2>1. Tail(todo) \in Seq(Job)
    BY <1>2, TailFacts
  <2> QED
    BY <2>1 DEF IssueStep, Issue
<1>4. issued' \in [Flow -> Seq(Job)]
  <2>1. issued \in [Flow -> Seq(Job)] /\ Append(issued[f], j) \in Seq(Job)
    BY <1>1 DEF TypeOK
  <2>2. issued' = [issued EXCEPT ![f] = Append(issued[f], j)]
    BY DEF IssueStep, Issue
  <2> QED
    BY <2>1, <2>2
<1> QED
  BY <1>1, <1>3, <1>4 DEF TypeOK, IssueStep, device

LEMMA LinkKeeps ==
  ASSUME StateInv, Link
  PROVE  StateInv'
<1>1. TypeOK /\ TodoReady /\ job \in [Job -> JobRecord]
  BY DEF StateInv, PendingListExact, TypeOK
<1>2. pc \in {"add", "link"} /\ UNCHANGED <<pending, input, device>>
  BY DEF Link
<1>3. PICK j \in Job : j = Head(todo) /\ job[j].state = "created" /\ job[j].flow \in Flow
  BY <1>2, FirstTodo
<1>4. PICK f \in Flow : f = job[j].flow
  BY <1>3
<1>5. /\ flow[f].type # "free" /\ job[j].nla = None /\ ~job[j].disc
      /\ flow[f].type = "stateful" => job[j].length = 1
  BY <1>2, <1>3, <1>4, FirstTodo
<1>6. /\ pc = "link" \/ (pc = "add" /\ flow[f].last # None /\ job[j].comb = flow[f].lastComb)
      /\ job' = [job EXCEPT ![flow[f].last].nla = j, ![j].state = "started"]
      /\ flow' = AddedToFlow(f, j) /\ Issue(f, j)
  BY <1>3, <1>4 DEF Link
<1>7. /\ flow[f].last # None
      /\ pc = "link" => job[flow[f].last].disc /\ job[j].comb # flow[f].lastComb
  BY <1>1, <1>3, <1>4, <1>6 DEF TodoReady
<1>8. PICK l \in Job : l = flow[f].last
  BY <1>5, <1>7, LastIssued
<1>9. /\ Len(issued[f]) \in DOMAIN issued[f] /\ l = issued[f][Len(issued[f])]
      /\ job[l].state = "started" /\ flow[f].lastComb = job[l].comb /\ issued[f] # <<>>
      /\ job[l].disc => pc = "link"
  BY <1>5, <1>7, <1>8, LastIssued
<1>10. job[l].disc <=> job[l].comb # job[j].comb
  BY <1>6, <1>7, <1>8, <1>9
<1>11. job[l].flow = f
  BY <1>9 DEF StateInv, FlowInv, IssuedExact
<1> DEFINE x == [job[l] EXCEPT !.nla = j]
           y == [job[j] EXCEPT !.state = "started"]
<1>12. /\ x \in JobRecord /\ x.state = job[l].state /\ x.flow = job[l].flow /\ x.comb = job[l].comb
       /\ x.term = job[l].term /\ x.disc = job[l].disc /\ x.nla = j
  <2>1. job[l] \in JobRecord
    BY <1>1
  <2>2. x \in JobRecord
    BY <2>1 DEF JobRecord
  <2> QED
    BY <2>1, <2>2 DEF JobRecord
<1>13. /\ y \in JobRecord /\ y.state = "started" /\ y.flow = job[j].flow /\ y.comb = job[j].comb
       /\ y.term = job[j].term /\ y.disc = job[j].disc /\ y.nla = job[j].nla
  <2>1. job[j] \in JobRecord
    BY <1>1
  <2>2. y \in JobRecord
    BY <2>1 DEF JobRecord
  <2> QED
    BY <2>1, <2>2 DEF JobRecord
<1>14. /\ job' = [job EXCEPT ![l] = x, ![j] = y]
       /\ l # j
  BY <1>1, <1>3, <1>6, <1>8, <1>9
<1> HIDE DEF x, y
<1>15. job' \in [Job -> JobRecord] /\ job'[l] = x /\ job'[j] = y /\ \A k \in Job \ {l, j} : job'[k] = job[k]
  BY <1>1, <1>12, <1>13, <1>14
<1>16. IssueStep(f, j)
  <2>1. \A k \in Job \ {j} :
          /\ SameJob(k) /\ job'[k].disc = job[k].disc
          /\ job[k].state # "started" \/ job[k].flow # f => job'[k] = job[k]
    BY <1>9, <1>11, <1>12, <1>15 DEF SameJob
  <2>2. /\ job'[j].state = "started" /\ job'[j].flow = f /\ job'[j].term = job[j].term
        /\ job'[j].comb = job[j].comb /\ job'[j].nla = None /\ ~job'[j].disc
    BY <1>4, <1>5, <1>13, <1>15
  <2>3. /\ \A g \in Flow \ {f} : flow'[g] = flow[g]
        /\ flow'[f].type = flow[f].type /\ flow'[f].comb = flow[f].comb /\ flow'[f].groups = flow[f].groups
        /\ flow'[f].last = j /\ flow'[f].lastComb = job[j].comb
        /\ flow'[f].type = "stateful" => flow'[f].offset # 0
    BY <1>1, <1>5, <1>6, AddedFacts
  <2> QED
    BY <1>2, <1>6, <1>15, <2>1, <2>2, <2>3 DEF IssueStep
<1>17. flow' \in [Flow -> FlowRecord] /\ \A g \in Flow : flow'[g].head = flow[g].head
  BY <1>1, <1>6, AddedFacts
<1>18. PendingListExact'
  <2>1. TypeOK'
    BY <1>1, <1>2, <1>3, <1>4, <1>16, <1>17, IssueTypes DEF TypeOK, NextToIssue
  <2> QED
    BY <1>2, <1>17, <2>1 DEF StateInv, PendingListExact, Distinct
<1> DEFINE n == Len(issued[f])
<1>19. /\ n \in Nat /\ Len(issued'[f]) = n + 1
       /\ DOMAIN issued'[f] = 1 .. n + 1 /\ DOMAIN issued[f] = 1 .. n
       /\ \A i \in DOMAIN issued[f] : i \in DOMAIN issued'[f] /\ issued'[f][i] = issued[f][i]
       /\ issued'[f][n + 1] = j
  BY <1>2, <1>3, <1>4, <1>16, IssueFacts DEF NextToIssue
<1>20. \A i \in DOMAIN issued[f] : issued[f][i] \in Job /\ issued[f][i] # j /\ SameJob(issued[f][i])
                                     /\ ~job[issued[f][i]].term
  BY <1>2, <1>3, <1>4, <1>16, IssueFacts DEF NextToIssue
<1>21. n \in Nat /\ n > 0 /\ n \in DOMAIN issued[f] /\ 1 \in DOMAIN issued[f] /\ l = issued[f][n]
  BY <1>9, <1>19
<1> HIDE DEF n
<1>22. Linked(f)'
  <2>1. ASSUME NEW i \in 1 .. n
        PROVE  /\ job'[issued'[f][i]].nla = issued'[f][i + 1]
               /\ job'[issued'[f][i]].disc <=> job'[issued'[f][i]].comb # job'[issued'[f][i + 1]].comb
    <3>1. CASE i = n
      <4>1. issued'[f][i] = l /\ issued'[f][i + 1] = j
        BY <1>19, <1>21, <3>1
      <4> QED
        BY <1>10, <1>12, <1>13, <1>15, <4>1
    <3>2. CASE i \in 1 .. n - 1
      <4>1. i \in DOMAIN issued[f] /\ i + 1 \in DOMAIN issued[f] /\ i # n
        BY <1>19, <3>2
      <4>2. issued'[f][i] = issued[f][i] /\ issued'[f][i + 1] = issued[f][i + 1]
        BY <1>19, <4>1
      <4>3. issued[f][i] # l
        BY <1>21, <4>1 DEF StateInv, FlowInv, IssuedExact, Distinct
      <4>4. job'[issued[f][i]] = job[issued[f][i]] /\ job'[issued[f][i + 1]].comb = job[issued[f][i + 1]].comb
        BY <1>15, <1>20, <4>1, <4>3 DEF SameJob
      <4>5. /\ job[issued[f][i]].nla = issued[f][i + 1]
            /\ job[issued[f][i]].disc <=> job[issued[f][i]].comb # job[issued[f][i + 1]].comb
        BY <3>2 DEF StateInv, FlowInv, Linked, n
      <4> QED
        BY <4>2, <4>4, <4>5
    <3> QED
      BY <1>21, <2>1, <3>1, <3>2
  <2>2. Len(issued'[f]) - 1 = n /\ Len(issued'[f]) # 0
    BY <1>19
  <2>3. /\ flow'[f].last = j /\ flow'[f].lastComb = job'[j].comb /\ job'[j].nla = None /\ ~job'[j].disc
    BY <1>16 DEF IssueStep
  <2>4. issued'[f][Len(issued'[f])] = j
    BY <1>19
  <2> QED
    BY <2>1, <2>2, <2>3, <2>4 DEF Linked
<1>23. ChainInv(f)'
  <2>1. input' = input /\ output' = output /\ engine' = engine /\ flow'[f].head = flow[f].head
    BY <1>2, <1>17 DEF device
  <2>2. ASSUME NEW p \in DOMAIN input, input[p].flow = f PROVE FdFits(f, input[p])'
    <3>1. FdFits(f, input[p])
      BY <2>2 DEF StateInv, FlowInv
    <3>2. ~job[issued[f][1]].term /\ SameJob(issued[f][1]) /\ issued'[f][1] = issued[f][1]
      BY <1>19, <1>20, <1>21
    <3>3. n > 1 => issued'[f][2] = issued[f][2] /\ SameJob(issued[f][2])
      <4>1. n > 1 => 2 \in DOMAIN issued[f]
        BY <1>19
      <4> QED
        BY <1>19, <1>20, <4>1
    <3>4. /\ input[p].job = issued[f][1] /\ input[p].comb = job[input[p].job].comb /\ input[p].prd
          /\ Follows(input[p]) # None => /\ n > 1 /\ Follows(input[p]) = issued[f][2]
                                         /\ job[issued[f][2]].comb = input[p].comb
      BY <3>1, <3>2 DEF FdFits, n
    <3>5. Len(issued'[f]) > 1 /\ issued'[f] # <<>>
      <4>1. Len(issued'[f]) > 1 /\ Len(<<>>) = 0
        BY <1>19, <1>21
      <4>2. Len(issued'[f]) # 0
        BY <1>19
      <4> QED
        BY <4>1, <4>2
    <3>6. (Follows(input[p]))' = Follows(input[p]) /\ input'[p] = input[p]
      BY <2>1 DEF Follows
    <3> QED
      BY <3>2, <3>3, <3>4, <3>5, <3>6 DEF FdFits, SameJob
  <2>3. PICK r \in 0 .. Len(issued[f]) : ChainAt(f, r)
    BY DEF StateInv, FlowInv
  <2>4. r \in Nat /\ r <= n /\ r \in 0 .. Len(issued'[f])
    BY <1>19, <2>3 DEF n
  <2>5. \A p \in DOMAIN output : output[p].job # j
    BY <1>2, <1>3, <1>4, <1>16, IssueOutput DEF NextToIssue
  <2>6. \A i \in DOMAIN issued'[f] : i \in DOMAIN issued[f] \/ i = n + 1
    BY <1>19
  <2>7. \A i \in DOMAIN issued'[f], p \in DOMAIN output :
           output[p].job = issued'[f][i] => i \in DOMAIN issued[f] /\ issued'[f][i] = issued[f][i]
    BY <1>19, <2>5, <2>6
  <2>8. RdsInOrder(f, r)'
    <3>1. ASSUME NEW i \in DOMAIN issued'[f]
          PROVE  (\E p \in DOMAIN output : output[p].job = issued'[f][i]) <=> i <= r
      <4>1. CASE i \in DOMAIN issued[f]
        BY <1>19, <2>3, <4>1 DEF ChainAt, RdsInOrder
      <4>2. CASE i = n + 1
        BY <1>19, <2>4, <2>5, <4>2
      <4> QED
        BY <2>6, <4>1, <4>2
    <3>2. ASSUME NEW p \in DOMAIN output, NEW i \in DOMAIN issued'[f], output[p].job = issued'[f][i]
          PROVE  IF output[p].final THEN i = r ELSE i < Len(issued'[f])
      <4>1. i \in DOMAIN issued[f] /\ output[p].job = issued[f][i]
        BY <2>7, <3>2
      <4>2. IF output[p].final THEN i = r ELSE i < n
        BY <2>3, <4>1 DEF ChainAt, RdsInOrder, n
      <4>3. i < n => i < Len(issued'[f])
        BY <1>19, <4>1
      <4> QED
        BY <4>2, <4>3
    <3>3. \A p, q \in DOMAIN output, i, k \in DOMAIN issued'[f] :
             output[p].job = issued'[f][i] /\ output[q].job = issued'[f][k] /\ i < k => p < q
      BY <2>3, <2>7 DEF ChainAt, RdsInOrder
    <3> QED
      BY <2>1, <3>1, <3>2, <3>3 DEF RdsInOrder
  <2>9. EngineFits(f, r)'
    <3>1. CASE engine[f] = Idle
      BY <2>1, <3>1 DEF EngineFits
    <3>2. CASE DataChain(f, r, engine[f])
      <4> DEFINE e == engine[f]
                 m == Len(e.q)
      <4>1. m \in Nat /\ DOMAIN e.q = 1 .. m /\ r + m <= n
        BY <1>1, <3>2, Types DEF DataChain, n
      <4>2. ASSUME NEW i \in DOMAIN e.q
            PROVE  issued'[f][r + i] = issued[f][r + i] /\ job'[issued[f][r + i]].comb = job[issued[f][r + i]].comb
        <5>1. r + i \in DOMAIN issued[f]
          BY <1>19, <2>4, <4>1
        <5> QED
          BY <1>19, <1>20, <5>1 DEF SameJob
      <4>3. ASSUME e.next # None
            PROVE  /\ r + m < Len(issued'[f]) /\ issued'[f][r + m + 1] = e.next
                   /\ job'[e.next].comb = e.comb
        <5>1. r + m < n /\ e.next = issued[f][r + m + 1] /\ job[e.next].comb = e.comb
          BY <3>2, <4>3 DEF DataChain, n
        <5>2. r + m + 1 \in DOMAIN issued[f] /\ r + m < Len(issued'[f])
          BY <1>19, <2>4, <4>1, <5>1
        <5> QED
          BY <1>19, <1>20, <5>1, <5>2 DEF SameJob
      <4>4. r + m <= Len(issued'[f])
        BY <1>19, <2>4, <4>1
      <4>5. ASSUME NEW i \in DOMAIN e.q
            PROVE  /\ e.q[i] = [job |-> issued'[f][r + i], prd |-> TRUE,
                                chained |-> i < Len(e.q) \/ e.next # None]
                   /\ job'[issued'[f][r + i]].comb = e.comb
        BY <3>2, <4>2, <4>5 DEF DataChain
      <4>6. DataChain(f, r, engine[f])'
        BY <2>1, <3>2, <4>3, <4>4, <4>5 DEF DataChain
      <4> QED
        BY <4>6 DEF EngineFits
    <3>3. ~TermChain(f, engine[f])
      BY <1>20, <1>21 DEF TermChain
    <3> QED
      BY <2>3, <3>1, <3>2, <3>3 DEF ChainAt, EngineFits
  <2>10. OnePlace(f, r)'
    <3>1. Ended(f)' <=> Ended(f)
      BY <1>2, <1>3, <1>4, <1>16, IssueOutput DEF NextToIssue
    <3>2. (Waiting(f)' <=> Waiting(f)) /\ (Sent(f)' <=> Sent(f)) /\ (Busy(f)' <=> Busy(f))
      BY <2>1 DEF Waiting, Sent, Busy
    <3>3. issued[f] # <<>> /\ issued'[f] # <<>>
      <4>1. Len(issued'[f]) # 0 /\ Len(<<>>) = 0
        BY <1>19
      <4> QED
        BY <1>9, <4>1
    <3>4. issued'[f][1] = issued[f][1]
      BY <1>19, <1>21
    <3> QED
      BY <2>1, <2>3, <3>1, <3>2, <3>3, <3>4 DEF ChainAt, OnePlace
  <2>11. \A p \in DOMAIN input' : (input[p].flow = f => FdFits(f, input[p]))'
    BY <2>1, <2>2
  <2> QED
    BY <2>4, <2>8, <2>9, <2>10, <2>11 DEF ChainInv, ChainAt
<1> QED
  BY <1>2, <1>3, <1>4, <1>16, <1>18, <1>22, <1>23, IssueKeeps DEF NextToIssue

(* A flow joins the list of pending flows, or leaves it at its head. *)
LEMMA PendingGrows ==
  ASSUME PendingListExact, NEW f \in Flow, flow[f].head = None, pending' = Append(pending, f),
         TypeOK', flow'[f].head # None, \A g \in Flow \ {f} : flow'[g].head = flow[g].head
  PROVE  PendingListExact'
<1>1. pending \in Seq(Flow)
  BY DEF PendingListExact, TypeOK
<1>2. /\ DOMAIN pending' = 1 .. Len(pending) + 1 /\ DOMAIN pending = 1 .. Len(pending)
      /\ \A i \in 1 .. Len(pending) : pending'[i] = pending[i]
      /\ pending'[Len(pending) + 1] = f /\ Len(pending) \in Nat
  BY <1>1, AppendFacts
<1>3. \A i \in DOMAIN pending' : i \in DOMAIN pending \/ i = Len(pending) + 1
  BY <1>2
<1>4. \A i \in DOMAIN pending : i \in DOMAIN pending' /\ pending'[i] = pending[i]
  BY <1>2
<1>5. \A i \in DOMAIN pending : pending[i] # f
  BY DEF PendingListExact
<1>6. Len(pending) + 1 \in DOMAIN pending'
  BY <1>2
<1>7. \A i, k \in DOMAIN pending' : pending'[i] = pending'[k] => i = k
  BY <1>2, <1>3, <1>4, <1>5 DEF PendingListExact, Distinct
<1>8. \A g \in Flow : (\E i \in DOMAIN pending' : pending'[i] = g) <=> flow'[g].head # None
  <2>1. \A g \in Flow \ {f} : (\E i \in DOMAIN pending' : pending'[i] = g) <=> (\E i \in DOMAIN pending : pending[i] = g)
    BY <1>2, <1>3, <1>4
  <2>2. \E i \in DOMAIN pending' : pending'[i] = f
    BY <1>2, <1>6
  <2> QED
    BY <2>1, <2>2 DEF PendingListExact
<1> QED
  BY <1>7, <1>8 DEF PendingListExact, Distinct

LEMMA PendingShrinks ==
  ASSUME PendingListExact, pending # <<>>, NEW f \in Flow, f = Head(pending), pending' = Tail(pending),
         TypeOK', flow'[f].head = None, \A g \in Flow \ {f} : flow'[g].head = flow[g].head
  PROVE  PendingListExact'
<1>1. pending \in Seq(Flow)
  BY DEF PendingListExact, TypeOK
<1>2. /\ DOMAIN pending' = 1 .. Len(pending) - 1 /\ DOMAIN pending = 1 .. Len(pending)
      /\ \A i \in 1 .. Len(pending) - 1 : pending'[i] = pending[i + 1]
      /\ pending[1] = f /\ Len(pending) \in Nat \ {0}
  BY <1>1, TailFacts
<1>3. \A i \in DOMAIN pending' : i + 1 \in DOMAIN pending /\ pending'[i] = pending[i + 1] /\ i + 1 # 1 /\ i \in Nat
  BY <1>2
<1>4. \A i \in DOMAIN pending : i # 1 => i - 1 \in DOMAIN pending' /\ pending'[i - 1] = pending[i]
  <2> SUFFICES ASSUME NEW i \in DOMAIN pending, i # 1
               PROVE  i - 1 \in DOMAIN pending' /\ pending'[i - 1] = pending[i]
    OBVIOUS
  <2>1. i - 1 \in 1 .. Len(pending) - 1 /\ (i - 1) + 1 = i
    BY <1>2
  <2> QED
    BY <1>2, <2>1
<1>5. 1 \in DOMAIN pending
  BY <1>2
<1>6. \A i \in DOMAIN pending : pending[i] = f => i = 1
  BY <1>2, <1>5 DEF PendingListExact, Distinct
<1>7. ASSUME NEW i \in DOMAIN pending', NEW k \in DOMAIN pending', pending'[i] = pending'[k]
      PROVE  i = k
  <2>1. i + 1 = k + 1
    BY <1>3, <1>7 DEF PendingListExact, Distinct
  <2> QED
    BY <1>3, <2>1
<1>8. \A g \in Flow : (\E i \in DOMAIN pending' : pending'[i] = g) <=> flow'[g].head # None
  <2>1. \A g \in Flow \ {f} : (\E i \in DOMAIN pending' : pending'[i] = g) <=> (\E i \in DOMAIN pending : pending[i] = g)
    <3> TAKE g \in Flow \ {f}
    <3>1. ASSUME NEW i \in DOMAIN pending', pending'[i] = g
          PROVE  \E k \in DOMAIN pending : pending[k] = g
      BY <1>3, <3>1
    <3>2. ASSUME NEW i \in DOMAIN pending, pending[i] = g
          PROVE  \E k \in DOMAIN pending' : pending'[k] = g
      <4>1. i # 1
        BY <1>2, <3>2
      <4> QED
        BY <1>4, <3>2, <4>1
    <3> QED
      BY <3>1, <3>2
  <2>2. ~\E i \in DOMAIN pending' : pending'[i] = f
    BY <1>3, <1>6
  <2>3. \A g \in Flow : (\E i \in DOMAIN pending : pending[i] = g) <=> flow[g].head # None
    BY DEF PendingListExact
  <2>4. \A g \in Flow \ {f} : flow'[g].head # None <=> flow[g].head # None
    OBVIOUS
  <2> QED
    BY <2>1, <2>2, <2>3, <2>4
<1> QED
  BY <1>7, <1>8 DEF PendingListExact, Distinct

LEMMA AddFirstKeeps ==
  ASSUME StateInv, AddFirst
  PROVE  StateInv'
<1>1. TypeOK /\ PendingListExact /\ job \in [Job -> JobRecord] /\ pending \in Seq(Flow)
  BY DEF StateInv, PendingListExact, TypeOK
<1>2. pc = "add" /\ UNCHANGED <<input, device>>
  BY DEF AddFirst
<1>3. PICK j \in Job : j = Head(todo) /\ job[j].state = "created" /\ job[j].flow \in Flow
  BY <1>2, FirstTodo
<1>4. PICK f \in Flow : f = job[j].flow
  BY <1>3
<1>5. /\ flow[f].type # "free" /\ job[j].nla = None /\ ~job[j].disc
      /\ flow[f].type = "stateful" => job[j].length = 1
  BY <1>2, <1>3, <1>4, FirstTodo
<1>6. flow[f].last = None /\ issued[f] = <<>> /\ flow[f].head = None
  <2>1. flow[f].last = None
    BY <1>3, <1>4 DEF AddFirst
  <2>2. issued[f] = <<>>
    BY <1>5, <2>1, LastIssued
  <2> QED
    BY <1>1, <2>1, <2>2, Types DEF StateInv, FlowInv, Linked
<1>7. /\ flow' = [AddedToFlow(f, j) EXCEPT ![f].head = j] /\ pending' = Append(pending, f)
      /\ job' = [job EXCEPT ![j].state = "started"] /\ Issue(f, j)
  BY <1>3, <1>4, <1>6 DEF AddFirst
<1> DEFINE y == [job[j] EXCEPT !.state = "started"]
<1>8. /\ y \in JobRecord /\ y.state = "started" /\ y.flow = job[j].flow /\ y.comb = job[j].comb
      /\ y.term = job[j].term /\ y.disc = job[j].disc /\ y.nla = job[j].nla
  <2>1. job[j] \in JobRecord
    BY <1>1
  <2>2. y \in JobRecord
    BY <2>1 DEF JobRecord
  <2> QED
    BY <2>1, <2>2 DEF JobRecord
<1>9. job' = [job EXCEPT ![j] = y]
  BY <1>1, <1>7
<1> HIDE DEF y
<1>10. job' \in [Job -> JobRecord] /\ job'[j] = y /\ \A k \in Job \ {j} : job'[k] = job[k]
  BY <1>1, <1>8, <1>9
<1> DEFINE a == AddedToFlow(f, j)
           x == [a[f] EXCEPT !.head = j]
<1>11. /\ a \in [Flow -> FlowRecord] /\ \A g \in Flow \ {f} : a[g] = flow[g]
       /\ a[f].type = flow[f].type /\ a[f].comb = flow[f].comb /\ a[f].groups = flow[f].groups
       /\ a[f].last = j /\ a[f].lastComb = job[j].comb
       /\ job[j].length = 1 => a[f].offset # 0
  BY <1>1, AddedFacts
<1> HIDE DEF a
<1>12. /\ x \in FlowRecord /\ x.type = flow[f].type /\ x.comb = flow[f].comb /\ x.groups = flow[f].groups
       /\ x.last = j /\ x.lastComb = job[j].comb /\ x.head = j /\ x.offset = a[f].offset
  <2>1. a[f] \in FlowRecord
    BY <1>11
  <2>2. x \in FlowRecord
    BY <2>1 DEF FlowRecord
  <2> QED
    BY <1>11, <2>1, <2>2 DEF FlowRecord
<1>13. flow' = [a EXCEPT ![f] = x]
  BY <1>7, <1>11 DEF a
<1> HIDE DEF x
<1>14. flow' \in [Flow -> FlowRecord] /\ flow'[f] = x /\ \A g \in Flow \ {f} : flow'[g] = flow[g]
  BY <1>11, <1>12, <1>13
<1>15. IssueStep(f, j)
  <2>1. \A k \in Job \ {j} :
          /\ SameJob(k) /\ job'[k].disc = job[k].disc
          /\ job[k].state # "started" \/ job[k].flow # f => job'[k] = job[k]
    BY <1>10 DEF SameJob
  <2>2. /\ job'[j].state = "started" /\ job'[j].flow = f /\ job'[j].term = job[j].term
        /\ job'[j].comb = job[j].comb /\ job'[j].nla = None /\ ~job'[j].disc
    BY <1>4, <1>5, <1>8, <1>10
  <2>3. /\ flow'[f].type = flow[f].type /\ flow'[f].comb = flow[f].comb /\ flow'[f].groups = flow[f].groups
        /\ flow'[f].last = j /\ flow'[f].lastComb = job[j].comb
        /\ flow'[f].type = "stateful" => flow'[f].offset # 0
    BY <1>5, <1>11, <1>12, <1>14
  <2> QED
    BY <1>2, <1>7, <1>10, <1>14, <2>1, <2>2, <2>3 DEF IssueStep
<1>16. PendingListExact'
  <2>1. pending' \in Seq(Flow)
    BY <1>1, <1>7, AppendFacts
  <2>2. TypeOK'
    BY <1>2, <1>3, <1>4, <1>14, <1>15, <2>1, IssueTypes DEF NextToIssue
  <2>3. flow'[f].head # None
    BY <1>12, <1>14, FlowAssumption
  <2> QED
    BY <1>1, <1>6, <1>7, <1>14, <2>2, <2>3, PendingGrows
<1>17. Len(issued'[f]) = 1 /\ DOMAIN issued'[f] = 1 .. 1 /\ issued'[f][1] = j /\ issued'[f] # <<>>
  <2>1. /\ Len(issued'[f]) = Len(issued[f]) + 1 /\ DOMAIN issued'[f] = 1 .. Len(issued[f]) + 1
        /\ issued'[f][Len(issued[f]) + 1] = j
    BY <1>2, <1>3, <1>4, <1>15, IssueFacts DEF NextToIssue
  <2>2. Len(issued[f]) = 0 /\ 0 + 1 = 1
    BY <1>6
  <2>3. Len(issued'[f]) = 1 /\ DOMAIN issued'[f] = 1 .. 1 /\ issued'[f][1] = j
    BY <2>1, <2>2
  <2>4. Len(<<>>) = 0
    OBVIOUS
  <2> QED
    BY <2>3, <2>4
<1>18. Linked(f)'
  <2>1. 1 .. Len(issued'[f]) - 1 = {}
    BY <1>17
  <2>2. /\ flow'[f].last = j /\ flow'[f].lastComb = job'[j].comb /\ job'[j].nla = None /\ ~job'[j].disc
    BY <1>15 DEF IssueStep
  <2> QED
    BY <1>17, <2>1, <2>2 DEF Linked
<1>19. ChainInv(f)'
  <2>1. ~Sent(f) /\ ~Busy(f) /\ ~Ended(f)
    BY <1>6 DEF StateInv, FlowInv, ChainAt, OnePlace
  <2>2. ~Sent(f)' /\ ~Busy(f)' /\ engine'[f] = Idle
    BY <1>2, <2>1 DEF Sent, Busy, device
  <2>3. output' = output /\ (\A p \in DOMAIN output : output[p].job # j) /\ ~Ended(f)'
    BY <1>2, <1>3, <1>4, <1>15, <2>1, IssueOutput DEF NextToIssue
  <2>4. RdsInOrder(f, 0)'
    <3>1. \A i \in DOMAIN issued'[f] : i = 1 /\ issued'[f][i] = j /\ ~(i <= 0)
      BY <1>17
    <3> QED
      BY <2>3, <3>1 DEF RdsInOrder
  <2>5. EngineFits(f, 0)'
    BY <2>2 DEF EngineFits
  <2>6. OnePlace(f, 0)'
    <3>1. Waiting(f)' /\ flow'[f].head = issued'[f][1]
      BY <1>12, <1>14, <1>17, FlowAssumption DEF Waiting
    <3> QED
      BY <1>17, <2>2, <3>1 DEF OnePlace
  <2>7. 0 \in 0 .. Len(issued'[f]) /\ \A p \in DOMAIN input' : input'[p].flow # f
    BY <1>17, <2>2 DEF Sent
  <2> QED
    BY <2>4, <2>5, <2>6, <2>7 DEF ChainInv, ChainAt
<1> QED
  BY <1>2, <1>3, <1>4, <1>15, <1>16, <1>18, <1>19, IssueKeeps DEF NextToIssue

-----------------------------------------------------------------------------
(* nlm_flow_start_pending_pd_chain. *)
LEMMA FdFitsChain ==
  ASSUME StateInv, pc # "link", NEW f \in Flow, issued[f] # <<>>
  PROVE  LET fd == FdOf(issued[f][1]) IN fd \in FdRecord /\ fd.flow = f /\ FdFits(f, fd)
<1>1. TypeOK /\ IssuedExact(f) /\ Linked(f)
  BY DEF StateInv, PendingListExact, FlowInv
<1>2. Len(issued[f]) \in Nat /\ DOMAIN issued[f] = 1 .. Len(issued[f]) /\ Len(issued[f]) # 0
  BY <1>1, Types
<1>3. 1 \in DOMAIN issued[f]
  BY <1>2
<1>4. PICK j \in Job : j = issued[f][1]
  BY <1>1, <1>3, Types
<1>5. job[j].flow = f /\ job[j] \in JobRecord /\ (job[j].term => Len(issued[f]) = 1)
  BY <1>1, <1>3, <1>4 DEF IssuedExact, TypeOK
<1> DEFINE reinit == job[j].term /\ job[j].groups = 0
           zeroLength == job[j].term /\ job[j].groups # 0
           fd == FdOf(j)
<1>6. /\ fd.flow = f /\ fd.job = j /\ fd.comb = job[j].comb
      /\ fd.nla = IF reinit THEN None ELSE IF zeroLength THEN j ELSE job[j].nla
      /\ fd.disc <=> ~reinit /\ job[j].disc
      /\ fd.prd <=> ~zeroLength
  BY <1>5 DEF FdOf
<1>7. fd \in FdRecord
  <2>1. job[j].flow \in Flow /\ job[j].comb \in Nat /\ job[j].nla \in Job \cup {None}
    BY <1>5 DEF JobRecord
  <2> QED
    BY <2>1 DEF FdOf, FdRecord
<1> HIDE DEF fd
<1>8. CASE zeroLength
  <2>1. Len(issued[f]) = 1 /\ job[j].term
    BY <1>5, <1>8
  <2>2. ~job[j].disc
    BY <1>1, <1>4, <2>1 DEF Linked
  <2>3. ~fd.disc /\ fd.nla = j /\ ~fd.prd
    BY <1>6, <1>8, <2>2
  <2>4. Follows(fd) = j
    BY <2>3 DEF Follows
  <2>5. FdFits(f, fd)
    BY <1>4, <1>6, <2>1, <2>3, <2>4 DEF FdFits
  <2> QED
    BY <1>4, <1>6, <1>7, <2>5 DEF fd
<1>9. CASE ~zeroLength
  <2>1. fd.prd
    BY <1>6, <1>9
  <2>2. ASSUME Follows(fd) # None
        PROVE  /\ Len(issued[f]) > 1 /\ Follows(fd) = issued[f][2]
               /\ job[issued[f][2]].comb = fd.comb
    <3>1. ~fd.disc /\ Follows(fd) = fd.nla /\ fd.nla # None
      BY <2>2 DEF Follows
    <3>2. ~reinit /\ fd.nla = job[j].nla /\ ~job[j].disc
      BY <1>6, <1>9, <3>1
    <3>3. Follows(job[j]) = job[j].nla /\ Follows(job[j]) # None
      BY <3>1, <3>2 DEF Follows
    <3>4. /\ 1 < Len(issued[f]) /\ Follows(job[j]) = issued[f][1 + 1]
          /\ job[issued[f][1 + 1]].comb = job[j].comb
      BY <1>3, <1>4, <3>3, LinkLeads
    <3>5. 1 + 1 = 2 /\ Len(issued[f]) > 1
      BY <1>2, <3>4
    <3> QED
      BY <1>6, <3>1, <3>2, <3>3, <3>4, <3>5
  <2>3. FdFits(f, fd)
    BY <1>4, <1>6, <2>1, <2>2 DEF FdFits
  <2> QED
    BY <1>4, <1>6, <1>7, <2>3 DEF fd
<1> QED
  BY <1>8, <1>9

LEMMA StartChainKeeps ==
  ASSUME StateInv, StartChain
  PROVE  StateInv'
<1>1. /\ TypeOK /\ PendingListExact /\ RingsExact /\ StartedIssued /\ CreatedReady /\ TodoReady
      /\ pending \in Seq(Flow) /\ flow \in [Flow -> FlowRecord] /\ input \in Seq(FdRecord)
  BY DEF StateInv, PendingListExact, TypeOK
<1>2. /\ pc = "start" /\ pending # <<>> /\ ~InputFull /\ pending' = Tail(pending)
      /\ UNCHANGED <<job, device, pc, todo, issued>>
  BY DEF StartChain
<1>3. PICK f \in Flow : f = Head(pending)
  BY <1>1, <1>2, TailFacts
<1>4. flow[f].head # None
  <2>1. 1 \in DOMAIN pending /\ pending[1] = f
    BY <1>1, <1>2, <1>3, TailFacts
  <2> QED
    BY <1>1, <2>1 DEF PendingListExact
<1>5. input' = Append(input, FdOf(flow[f].head)) /\ flow' = [flow EXCEPT ![f].head = None]
  BY <1>3 DEF StartChain
<1>6. PICK r \in 0 .. Len(issued[f]) : ChainAt(f, r)
  BY DEF StateInv, FlowInv
<1>7. /\ issued[f] # <<>> /\ r = 0 /\ flow[f].head = issued[f][1] /\ ~Sent(f) /\ ~Busy(f)
      /\ RdsInOrder(f, 0)
  BY <1>4, <1>6 DEF ChainAt, OnePlace, Waiting
<1>8. PICK fd \in FdRecord : fd = FdOf(flow[f].head) /\ fd.flow = f /\ FdFits(f, fd)
  BY <1>2, <1>7, FdFitsChain
<1>9. /\ input' \in Seq(FdRecord) /\ Len(input') = Len(input) + 1 /\ Len(input) \in Nat
      /\ DOMAIN input' = 1 .. Len(input) + 1 /\ DOMAIN input = 1 .. Len(input)
      /\ \A p \in 1 .. Len(input) : input'[p] = input[p]
      /\ input'[Len(input) + 1] = fd
  BY <1>1, <1>5, <1>8, AppendFacts
<1>10. /\ \A p \in DOMAIN input' : p \in DOMAIN input \/ p = Len(input) + 1
       /\ \A p \in DOMAIN input : p \in DOMAIN input' /\ input'[p] = input[p]
       /\ Len(input) + 1 \in DOMAIN input'
  BY <1>9
<1> DEFINE x == [flow[f] EXCEPT !.head = None]
<1>11. /\ x \in FlowRecord /\ x.type = flow[f].type /\ x.comb = flow[f].comb /\ x.groups = flow[f].groups
       /\ x.last = flow[f].last /\ x.lastComb = flow[f].lastComb /\ x.head = None
       /\ x.offset = flow[f].offset
  <2>1. flow[f] \in FlowRecord
    BY <1>1
  <2>2. x \in FlowRecord
    BY <2>1 DEF FlowRecord
  <2> QED
    BY <2>1, <2>2 DEF FlowRecord
<1>12. flow' = [flow EXCEPT ![f] = x]
  BY <1>1, <1>5
<1> HIDE DEF x
<1>13. flow' \in [Flow -> FlowRecord] /\ flow'[f] = x /\ \A g \in Flow \ {f} : flow'[g] = flow[g]
  BY <1>1, <1>11, <1>12
<1>14. \A g \in Flow : /\ flow'[g].type = flow[g].type /\ flow'[g].comb = flow[g].comb
                        /\ flow'[g].last = flow[g].last /\ flow'[g].lastComb = flow[g].lastComb
                        /\ flow'[g].groups = flow[g].groups /\ flow'[g].offset = flow[g].offset
  BY <1>11, <1>13
<1>15. PendingListExact'
  <2>1. pending' \in Seq(Flow)
    BY <1>1, <1>2, TailFacts
  <2>2. Len(input') < InputSize /\ visible \in 0 .. Len(input')
    <3>1. Len(input) < InputSize /\ visible \in 0 .. Len(input) /\ Len(input) # InputSize - 1
      BY <1>1, <1>2 DEF TypeOK, InputFull
    <3>2. InputSize \in Nat
      BY FlowAssumption
    <3> QED
      BY <1>9, <3>1, <3>2
  <2>3. TypeOK'
    BY <1>1, <1>2, <1>9, <1>13, <2>1, <2>2 DEF TypeOK, device
  <2>4. flow'[f].head = None
    BY <1>11, <1>13
  <2> QED
    BY <1>1, <1>2, <1>3, <1>13, <2>3, <2>4, PendingShrinks
<1>16. StartedIssued'
  BY <1>1, <1>2 DEF StartedIssued
<1>17. CreatedReady'
  <2> SUFFICES ASSUME NEW k \in Job, job'[k].state = "created"
               PROVE  /\ job'[k].flow \in Flow /\ job'[k].nla = None /\ ~job'[k].disc
                      /\ flow'[job'[k].flow].comb # 0
                      /\ IF job'[k].term
                         THEN /\ flow'[job'[k].flow].type = "invalid" /\ todo' = <<k>>
                              /\ \A i \in DOMAIN issued'[job'[k].flow] :
                                    ~job'[issued'[job'[k].flow][i]].term
                         ELSE flow'[job'[k].flow].type = "stateful" /\ job'[k].length = 1
    BY DEF CreatedReady
  <2>1. job' = job /\ issued' = issued /\ todo' = todo
    BY <1>2
  <2>2. job[k].flow \in Flow
    BY <1>1, <2>1 DEF CreatedReady
  <2>3. /\ flow'[job[k].flow].comb = flow[job[k].flow].comb
        /\ flow'[job[k].flow].type = flow[job[k].flow].type
    BY <1>14, <2>2
  <2> QED
    BY <1>1, <2>1, <2>3 DEF CreatedReady
<1>18. TodoReady'
  BY <1>1, <1>2 DEF TodoReady, Distinct
<1>19. RingsExact'
  <2>1. \A p \in DOMAIN input : input[p].flow # f
    BY <1>7 DEF Sent
  <2>2. \A p, q \in DOMAIN input' : input'[p].flow = input'[q].flow => p = q
    BY <1>1, <1>8, <1>9, <1>10, <2>1 DEF RingsExact
  <2> QED
    BY <1>1, <1>2, <2>2 DEF RingsExact, device
<1>20. ASSUME NEW g \in Flow PROVE FlowInv(g)'
  <2>1. IssuedExact(g)' /\ SeenUsed(g)'
    BY <1>2, <1>14 DEF StateInv, FlowInv, IssuedExact, SeenUsed, Distinct
  <2>2. \A i \in DOMAIN issued[g] : SameJob(issued[g][i])
    BY <1>2 DEF SameJob
  <2>3. CASE g # f
    <3>1. Linked(g)'
      BY <1>2, <1>13, <2>3 DEF StateInv, FlowInv, Linked
    <3>2. Sent(g)' <=> Sent(g)
      BY <1>8, <1>9, <1>10, <2>3 DEF Sent
    <3>3. \A p \in DOMAIN input' : input'[p].flow = g => \E q \in DOMAIN input : input[q] = input'[p]
      BY <1>8, <1>9, <1>10, <2>3
    <3>4. (Ended(g)' <=> Ended(g)) /\ \A s \in 0 .. Len(issued[g]) : RdsInOrder(g, s) => RdsInOrder(g, s)'
      BY <1>2 DEF Ended, RdsInOrder, device
    <3>5. flow'[g].head = flow[g].head /\ engine'[g] = engine[g] /\ issued'[g] = issued[g]
      BY <1>2, <1>13, <2>3 DEF device
    <3>6. ChainInv(g)'
      BY <2>2, <3>2, <3>3, <3>4, <3>5, ChainKept
    <3> QED
      BY <2>1, <3>1, <3>6 DEF FlowInv, ChainInv
  <2>4. CASE g = f
    <3>1. Len(issued[f]) # 0
      BY <1>1, <1>7, Types
    <3>2. Linked(f)'
      BY <1>2, <1>14, <3>1 DEF StateInv, FlowInv, Linked
    <3>3. ASSUME NEW p \in DOMAIN input', input'[p].flow = f PROVE FdFits(f, input[p])'
      <4>1. input'[p] = fd
        BY <1>7, <1>9, <1>10, <3>3 DEF Sent
      <4> QED
        BY <1>2, <1>8, <4>1 DEF FdFits, Follows
    <3>4. RdsInOrder(f, 0)' /\ EngineFits(f, 0)' /\ ~Busy(f)'
      BY <1>2, <1>7 DEF RdsInOrder, EngineFits, Busy, device
    <3>5. Sent(f)' /\ ~Waiting(f)'
      BY <1>8, <1>9, <1>10, <1>11, <1>13 DEF Sent, Waiting
    <3>6. OnePlace(f, 0)'
      BY <1>2, <1>7, <3>4, <3>5 DEF OnePlace
    <3>7. 0 \in 0 .. Len(issued'[f])
      BY <1>2, <1>7
    <3>8. ChainInv(f)'
      BY <3>3, <3>4, <3>6, <3>7 DEF ChainInv, ChainAt
    <3> QED
      BY <2>1, <2>4, <3>2, <3>8 DEF FlowInv, ChainInv
  <2> QED
    BY <2>3, <2>4
<1> QED
  BY <1>15, <1>16, <1>17, <1>18, <1>19, <1>20 DEF StateInv

-----------------------------------------------------------------------------
(* populate_results reads the oldest RD: it belongs to the first job of    *)
(* its flow.                                                               *)
LEMMA OldestRd ==
  ASSUME StateInv, output # <<>>
  PROVE  LET j == Head(output).job
             f == job[j].flow IN
         /\ j \in Job /\ f \in Flow /\ job[j].state = "started"
         /\ issued[f] # <<>> /\ j = issued[f][1] /\ ~Waiting(f) /\ ~Sent(f)
         /\ \E r \in 1 .. Len(issued[f]) :
               /\ ChainAt(f, r)
               /\ IF Head(output).final THEN r = 1 /\ ~Busy(f) ELSE Len(issued[f]) > 1
<1>1. TypeOK /\ RingsExact /\ StartedIssued
  BY DEF StateInv, PendingListExact
<1>2. /\ 1 \in DOMAIN output /\ Head(output) = output[1] /\ DOMAIN output = 1 .. Len(output)
      /\ Len(output) \in Nat
  BY <1>1, RingTypes, TailFacts
<1>3. PICK j \in Job : j = Head(output).job /\ job[j].state = "started"
  BY <1>1, <1>2, RingTypes DEF RingsExact
<1>4. PICK f \in Flow : f = job[j].flow
  BY <1>1, <1>3 DEF StartedIssued
<1>5. PICK i \in DOMAIN issued[f] : issued[f][i] = j
  BY <1>1, <1>3, <1>4 DEF StartedIssued
<1>6. PICK r \in 0 .. Len(issued[f]) : ChainAt(f, r)
  BY DEF StateInv, FlowInv
<1>7. /\ Len(issued[f]) \in Nat /\ DOMAIN issued[f] = 1 .. Len(issued[f])
      /\ issued[f] = <<>> <=> Len(issued[f]) = 0
  BY <1>1, Types
<1>8. i <= r /\ i \in 1 .. Len(issued[f])
  BY <1>2, <1>3, <1>5, <1>6, <1>7 DEF ChainAt, RdsInOrder
<1>9. r \in 1 .. Len(issued[f]) /\ 1 \in DOMAIN issued[f] /\ 1 <= r /\ Len(issued[f]) # 0
  BY <1>6, <1>7, <1>8
<1>10. i = 1
  <2> SUFFICES ASSUME i # 1 PROVE FALSE
    OBVIOUS
  <2>1. PICK p \in DOMAIN output : output[p].job = issued[f][1]
    BY <1>6, <1>9 DEF ChainAt, RdsInOrder
  <2>2. 1 < i
    BY <1>8
  <2>3. p < 1
    BY <1>2, <1>3, <1>5, <1>6, <1>9, <2>1, <2>2 DEF ChainAt, RdsInOrder
  <2> QED
    BY <1>2, <2>1, <2>3
<1>11. ~Waiting(f) /\ ~Sent(f)
  BY <1>6, <1>9 DEF ChainAt, OnePlace
<1>12. IF Head(output).final THEN r = 1 /\ ~Busy(f) ELSE Len(issued[f]) > 1
  <2>1. IF Head(output).final THEN 1 = r ELSE 1 < Len(issued[f])
    BY <1>2, <1>3, <1>5, <1>6, <1>10 DEF ChainAt, RdsInOrder
  <2>2. Head(output).final => Ended(f)
    BY <1>2, <1>3, <1>4 DEF Ended
  <2>3. Head(output).final => ~Busy(f)
    BY <1>6, <2>2 DEF ChainAt, OnePlace
  <2>4. 1 < Len(issued[f]) => Len(issued[f]) > 1
    BY <1>7
  <2> QED
    BY <2>1, <2>3, <2>4
<1> QED
  BY <1>3, <1>4, <1>5, <1>6, <1>7, <1>9, <1>10, <1>11, <1>12

(* The job of the RD is freed. *)
DropStep(f, j) ==
    /\ pc \in {"idle", "results"} /\ output # <<>> /\ j = Head(output).job /\ f = job[j].flow
    /\ job' = [job EXCEPT ![j] = FreeJob] /\ issued' = [issued EXCEPT ![f] = Tail(issued[f])]
    /\ output' = Tail(output) /\ pc' = "results" /\ UNCHANGED <<input, visible, engine, todo>>

LEMMA DropFacts ==
  ASSUME StateInv, NEW f \in Flow, NEW j \in Job, DropStep(f, j)
  PROVE  /\ \A k \in Job \ {j} : job'[k] = job[k]
         /\ job' \in [Job -> JobRecord] /\ job'[j].state = "free"
         /\ issued' \in [Flow -> Seq(Job)] /\ \A g \in Flow \ {f} : issued'[g] = issued[g]
         /\ Len(issued[f]) \in Nat \ {0} /\ Len(issued'[f]) = Len(issued[f]) - 1
         /\ DOMAIN issued'[f] = 1 .. Len(issued[f]) - 1 /\ DOMAIN issued[f] = 1 .. Len(issued[f])
         /\ \A i \in DOMAIN issued'[f] : i \in Nat /\ i + 1 \in DOMAIN issued[f] /\ i + 1 # 1 /\ issued'[f][i] = issued[f][i + 1]
         /\ issued[f][1] = j /\ 1 \in DOMAIN issued[f] /\ issued'[f] \in Seq(Job)
         /\ \A i \in DOMAIN issued[f] : issued[f][i] \in Job /\ (issued[f][i] = j => i = 1)
<1>1. TypeOK /\ job \in [Job -> JobRecord] /\ issued \in [Flow -> Seq(Job)] /\ issued[f] \in Seq(Job)
  BY DEF StateInv, PendingListExact, TypeOK
<1>2. issued[f] # <<>> /\ j = issued[f][1]
  BY OldestRd DEF DropStep
<1>3. FreeJob \in JobRecord /\ FreeJob.state = "free"
  BY DEF FreeJob, JobRecord
<1>4. job' \in [Job -> JobRecord] /\ job'[j].state = "free" /\ \A k \in Job \ {j} : job'[k] = job[k]
  BY <1>1, <1>3 DEF DropStep
<1>5. /\ Tail(issued[f]) \in Seq(Job) /\ Len(Tail(issued[f])) = Len(issued[f]) - 1 /\ Len(issued[f]) \in Nat \ {0}
      /\ DOMAIN Tail(issued[f]) = 1 .. Len(issued[f]) - 1 /\ DOMAIN issued[f] = 1 .. Len(issued[f])
      /\ \A i \in 1 .. Len(issued[f]) - 1 : Tail(issued[f])[i] = issued[f][i + 1]
  BY <1>1, <1>2, TailFacts
<1>6. /\ issued' \in [Flow -> Seq(Job)] /\ issued'[f] = Tail(issued[f])
      /\ \A g \in Flow \ {f} : issued'[g] = issued[g]
  BY <1>1, <1>5 DEF DropStep
<1>7. \A i \in DOMAIN issued'[f] : i \in Nat /\ i + 1 \in DOMAIN issued[f] /\ i + 1 # 1 /\ issued'[f][i] = issued[f][i + 1]
  BY <1>5, <1>6
<1>8. 1 \in DOMAIN issued[f]
  BY <1>5
<1>9. \A i \in DOMAIN issued[f] : issued[f][i] = j => i = 1
  BY <1>2, <1>8 DEF StateInv, FlowInv, IssuedExact, Distinct
<1>10. \A i \in DOMAIN issued[f] : issued[f][i] \in Job
  BY <1>1, Types
<1> QED
  BY <1>2, <1>4, <1>5, <1>6, <1>7, <1>8, <1>9, <1>10

LEMMA DropOutput ==
  ASSUME StateInv, NEW f \in Flow, NEW j \in Job, DropStep(f, j)
  PROVE  /\ \A p \in DOMAIN output' :
               p \in Nat /\ p + 1 \in DOMAIN output /\ p + 1 # 1 /\ output'[p] = output[p + 1] /\ output'[p].job # j
         /\ \A p \in DOMAIN output : p # 1 => p - 1 \in DOMAIN output' /\ output'[p - 1] = output[p]
         /\ 1 \in DOMAIN output /\ output[1].job = j /\ DOMAIN output \subseteq Nat
         /\ \A p \in DOMAIN output : output[p].job \in Job
         /\ \A p \in DOMAIN output' : output'[p].job \in Job
         /\ output' \in Seq([job : Job, final : BOOLEAN]) /\ Len(output') < Len(output) /\ Len(output) \in Nat
         /\ RingsExact'
<1>1. TypeOK /\ RingsExact /\ output # <<>> /\ output' = Tail(output)
  BY DEF StateInv, PendingListExact, DropStep
<1>2. output \in Seq([job : Job, final : BOOLEAN]) /\ \A p \in DOMAIN output : output[p].job \in Job
  BY <1>1, RingTypes
<1>3. /\ Tail(output) \in Seq([job : Job, final : BOOLEAN]) /\ Len(Tail(output)) = Len(output) - 1
      /\ Len(output) \in Nat \ {0}
      /\ DOMAIN Tail(output) = 1 .. Len(output) - 1 /\ DOMAIN output = 1 .. Len(output)
      /\ \A p \in 1 .. Len(output) - 1 : Tail(output)[p] = output[p + 1]
      /\ Head(output) = output[1]
  BY <1>1, <1>2, TailFacts
<1>4. \A p \in DOMAIN output' : p \in Nat /\ p + 1 \in DOMAIN output /\ p + 1 # 1 /\ output'[p] = output[p + 1]
  BY <1>1, <1>3
<1>5. \A p \in DOMAIN output : p # 1 => p - 1 \in DOMAIN output' /\ output'[p - 1] = output[p]
  <2> SUFFICES ASSUME NEW p \in DOMAIN output, p # 1
               PROVE  p - 1 \in DOMAIN output' /\ output'[p - 1] = output[p]
    OBVIOUS
  <2>1. p - 1 \in 1 .. Len(output) - 1 /\ (p - 1) + 1 = p
    BY <1>3
  <2> QED
    BY <1>1, <1>3, <2>1
<1>6. 1 \in DOMAIN output /\ output[1].job = j /\ DOMAIN output \subseteq Nat
  BY <1>3 DEF DropStep
<1>7. \A p \in DOMAIN output' : output'[p].job # j
  BY <1>1, <1>4, <1>6 DEF RingsExact
<1>8. RingsExact'
  <2>1. ASSUME NEW p \in DOMAIN output', NEW q \in DOMAIN output', output'[p].job = output'[q].job
        PROVE  p = q
    <3>1. p + 1 = q + 1
      BY <1>1, <1>4, <2>1 DEF RingsExact
    <3> QED
      BY <1>4, <3>1
  <2>2. \A p \in DOMAIN output' : job'[output'[p].job].state = "started"
    <3>1. \A k \in Job \ {j} : job'[k] = job[k]
      BY DropFacts
    <3> QED
      BY <1>1, <1>2, <1>4, <1>7, <3>1 DEF RingsExact
  <2>3. input' = input
    BY DEF DropStep
  <2> QED
    BY <1>1, <2>1, <2>2, <2>3 DEF RingsExact
<1>9. Len(output') < Len(output) /\ Len(output) \in Nat
  BY <1>1, <1>3
<1> QED
  BY <1>1, <1>2, <1>3, <1>4, <1>5, <1>6, <1>7, <1>8, <1>9

(* The results of another flow. *)
LEMMA DropElsewhere ==
  ASSUME StateInv, NEW f \in Flow, NEW j \in Job, DropStep(f, j), NEW g \in Flow, g # f
  PROVE  /\ Ended(g)' <=> Ended(g)
         /\ \A r \in 0 .. Len(issued[g]) : RdsInOrder(g, r) => RdsInOrder(g, r)'
<1>1. /\ \A p \in DOMAIN output' :
            p \in Nat /\ p + 1 \in DOMAIN output /\ output'[p] = output[p + 1] /\ output'[p].job # j
      /\ \A p \in DOMAIN output : p # 1 => p - 1 \in DOMAIN output' /\ output'[p - 1] = output[p]
      /\ 1 \in DOMAIN output /\ output[1].job = j /\ \A p \in DOMAIN output' : output'[p].job \in Job
  BY DropOutput
<1>2. job[j].flow = f /\ issued'[g] = issued[g] /\ \A k \in Job \ {j} : job'[k] = job[k]
  <2>1. job[j].flow = f
    BY DEF DropStep
  <2>2. issued'[g] = issued[g]
    BY DropFacts
  <2>3. \A k \in Job \ {j} : job'[k] = job[k]
    BY DropFacts
  <2> QED
    BY <2>1, <2>2, <2>3
<1>3. \A k \in DOMAIN issued[g] : issued[g][k] # j
  BY <1>2 DEF StateInv, FlowInv, IssuedExact
<1>4. Ended(g)' <=> Ended(g)
  <2>1. ASSUME Ended(g)' PROVE Ended(g)
    BY <1>1, <1>2, <2>1 DEF Ended
  <2>2. ASSUME NEW p \in DOMAIN output, output[p].final, job[output[p].job].flow = g PROVE Ended(g)'
    <3>1. p # 1
      BY <1>1, <1>2, <2>2
    <3>2. p - 1 \in DOMAIN output' /\ output'[p - 1] = output[p]
      BY <1>1, <3>1
    <3>3. job'[output'[p - 1].job] = job[output'[p - 1].job]
      BY <1>1, <1>2, <3>2
    <3> QED
      BY <2>2, <3>2, <3>3 DEF Ended
  <2> QED
    BY <2>1, <2>2 DEF Ended
<1>5. ASSUME NEW r \in 0 .. Len(issued[g]), RdsInOrder(g, r) PROVE RdsInOrder(g, r)'
  <2>1. ASSUME NEW i \in DOMAIN issued[g]
        PROVE  (\E p \in DOMAIN output' : output'[p].job = issued[g][i]) <=> i <= r
    <3>1. (\E p \in DOMAIN output' : output'[p].job = issued[g][i]) <=>
          (\E p \in DOMAIN output : output[p].job = issued[g][i])
      BY <1>1, <1>3
    <3> QED
      BY <1>5, <3>1 DEF RdsInOrder
  <2>2. \A p \in DOMAIN output', i \in DOMAIN issued[g] : output'[p].job = issued[g][i] =>
           IF output'[p].final THEN i = r ELSE i < Len(issued[g])
    BY <1>1, <1>5 DEF RdsInOrder
  <2>3. ASSUME NEW p \in DOMAIN output', NEW q \in DOMAIN output',
               NEW i \in DOMAIN issued[g], NEW k \in DOMAIN issued[g],
               output'[p].job = issued[g][i], output'[q].job = issued[g][k], i < k
        PROVE  p < q
    <3>1. /\ p + 1 \in DOMAIN output /\ q + 1 \in DOMAIN output /\ p \in Nat /\ q \in Nat
          /\ output[p + 1].job = issued[g][i] /\ output[q + 1].job = issued[g][k]
      BY <1>1, <2>3
    <3>2. \A a, b \in DOMAIN output, c, d \in DOMAIN issued[g] :
             output[a].job = issued[g][c] /\ output[b].job = issued[g][d] /\ c < d => a < b
      BY <1>5 DEF RdsInOrder
    <3>3. p + 1 < q + 1
      BY <2>3, <3>1, <3>2
    <3> QED
      BY <3>1, <3>3
  <2> QED
    BY <1>2, <2>1, <2>2, <2>3 DEF RdsInOrder
<1> QED
  BY <1>4, <1>5

(* The results of the flow itself. *)
LEMMA DropOwn ==
  ASSUME StateInv, NEW f \in Flow, NEW j \in Job, DropStep(f, j),
         NEW r \in 1 .. Len(issued[f]), RdsInOrder(f, r)
  PROVE  RdsInOrder(f, r - 1)'
<1>1. /\ \A p \in DOMAIN output' :
            p \in Nat /\ p + 1 \in DOMAIN output /\ output'[p] = output[p + 1] /\ output'[p].job # j
      /\ \A p \in DOMAIN output : p # 1 => p - 1 \in DOMAIN output' /\ output'[p - 1] = output[p]
      /\ 1 \in DOMAIN output /\ output[1].job = j
  BY DropOutput
<1>2. /\ Len(issued[f]) \in Nat \ {0} /\ Len(issued'[f]) = Len(issued[f]) - 1
      /\ \A i \in DOMAIN issued'[f] : i \in Nat /\ i + 1 \in DOMAIN issued[f] /\ i + 1 # 1 /\ issued'[f][i] = issued[f][i + 1]
      /\ \A i \in DOMAIN issued[f] : issued[f][i] = j => i = 1
  BY DropFacts
<1>3. ASSUME NEW i \in DOMAIN issued'[f]
      PROVE  (\E p \in DOMAIN output' : output'[p].job = issued'[f][i]) <=> i <= r - 1
  <2>1. i + 1 \in DOMAIN issued[f] /\ issued'[f][i] = issued[f][i + 1] /\ issued[f][i + 1] # j
    BY <1>2
  <2>2. (\E p \in DOMAIN output' : output'[p].job = issued[f][i + 1]) <=>
        (\E p \in DOMAIN output : output[p].job = issued[f][i + 1])
    BY <1>1, <2>1
  <2>3. (\E p \in DOMAIN output : output[p].job = issued[f][i + 1]) <=> i + 1 <= r
    BY <2>1 DEF RdsInOrder
  <2>4. i + 1 <= r <=> i <= r - 1
    BY <1>2
  <2> QED
    BY <2>1, <2>2, <2>3, <2>4
<1>4. ASSUME NEW p \in DOMAIN output', NEW i \in DOMAIN issued'[f], output'[p].job = issued'[f][i]
      PROVE  IF output'[p].final THEN i = r - 1 ELSE i < Len(issued'[f])
  <2>1. /\ i + 1 \in DOMAIN issued[f] /\ output[p + 1].job = issued[f][i + 1]
        /\ p + 1 \in DOMAIN output /\ output'[p].final = output[p + 1].final
    BY <1>1, <1>2, <1>4
  <2>2. IF output[p + 1].final THEN i + 1 = r ELSE i + 1 < Len(issued[f])
    BY <2>1 DEF RdsInOrder
  <2>3. (i + 1 = r => i = r - 1) /\ (i + 1 < Len(issued[f]) => i < Len(issued'[f]))
    BY <1>2
  <2> QED
    BY <2>1, <2>2, <2>3
<1>5. ASSUME NEW p \in DOMAIN output', NEW q \in DOMAIN output',
             NEW i \in DOMAIN issued'[f], NEW k \in DOMAIN issued'[f],
             output'[p].job = issued'[f][i], output'[q].job = issued'[f][k], i < k
      PROVE  p < q
  <2>1. i + 1 < k + 1 /\ i + 1 \in DOMAIN issued[f] /\ k + 1 \in DOMAIN issued[f]
    BY <1>2, <1>5
  <2>2. /\ p + 1 \in DOMAIN output /\ q + 1 \in DOMAIN output /\ p \in Nat /\ q \in Nat
        /\ output[p + 1].job = issued[f][i + 1] /\ output[q + 1].job = issued[f][k + 1]
    BY <1>1, <1>2, <1>5
  <2>3. \A a, b \in DOMAIN output, c, d \in DOMAIN issued[f] :
           output[a].job = issued[f][c] /\ output[b].job = issued[f][d] /\ c < d => a < b
    BY DEF RdsInOrder
  <2>4. p + 1 < q + 1
    BY <2>1, <2>2, <2>3
  <2> QED
    BY <2>2, <2>4
<1> QED
  BY <1>3, <1>4, <1>5 DEF RdsInOrder

(* What is left to show of a result: the flow itself. *)
LEMMA DropKeeps ==
  ASSUME StateInv, NEW f \in Flow, NEW j \in Job, DropStep(f, j), PendingListExact', FlowInv(f)',
         \A g \in Flow \ {f} : flow'[g] = flow[g], flow'[f].comb = flow[f].comb,
         flow[f].type = "stateful" => flow'[f].type = "stateful"
  PROVE  StateInv'
<1>1. TypeOK /\ StartedIssued /\ TodoReady /\ todo = <<>> /\ pc' = "results" /\ todo' = todo /\ pc # "link"
  BY AtIdle DEF StateInv, PendingListExact, DropStep
<1>2. /\ \A k \in Job \ {j} : job'[k] = job[k]
      /\ job'[j].state = "free" /\ \A g \in Flow \ {f} : issued'[g] = issued[g]
      /\ Len(issued[f]) \in Nat \ {0}
      /\ DOMAIN issued'[f] = 1 .. Len(issued[f]) - 1 /\ DOMAIN issued[f] = 1 .. Len(issued[f])
      /\ \A i \in DOMAIN issued'[f] : issued'[f][i] = issued[f][i + 1]
      /\ issued[f][1] = j
  BY DropFacts
<1>3. StartedIssued'
  <2> SUFFICES ASSUME NEW k \in Job, job'[k].state = "started"
               PROVE  job'[k].flow \in Flow /\ \E i \in DOMAIN issued'[job'[k].flow] : issued'[job'[k].flow][i] = k
    BY DEF StartedIssued
  <2>1. k # j /\ job'[k] = job[k]
    BY <1>2
  <2>2. PICK g \in Flow : g = job[k].flow
    BY <1>1, <2>1 DEF StartedIssued
  <2>3. PICK i \in DOMAIN issued[g] : issued[g][i] = k
    BY <1>1, <2>1, <2>2 DEF StartedIssued
  <2>4. CASE g # f
    BY <1>2, <2>1, <2>2, <2>3, <2>4
  <2>5. CASE g = f
    <3>1. i # 1 /\ i \in 1 .. Len(issued[f])
      BY <1>2, <2>1, <2>3, <2>5
    <3>2. i - 1 \in DOMAIN issued'[f] /\ (i - 1) + 1 = i
      BY <1>2, <3>1
    <3>3. issued'[f][i - 1] = k
      BY <1>2, <2>3, <2>5, <3>2
    <3> QED
      BY <2>1, <2>2, <2>5, <3>2, <3>3
  <2> QED
    BY <2>4, <2>5
<1>4. CreatedReady'
  <2> SUFFICES ASSUME NEW k \in Job, job'[k].state = "created"
               PROVE  /\ job'[k].flow \in Flow /\ job'[k].nla = None /\ ~job'[k].disc /\ ~job'[k].term
                      /\ flow'[job'[k].flow].comb # 0
                      /\ flow'[job'[k].flow].type = "stateful" /\ job'[k].length = 1
    BY DEF CreatedReady
  <2>1. k # j /\ job'[k] = job[k] /\ job[k].state = "created"
    BY <1>2
  <2>2. pc \notin {"add", "link"}
    BY DEF DropStep
  <2>3. /\ job[k].flow \in Flow /\ job[k].nla = None /\ ~job[k].disc /\ ~job[k].term
        /\ flow[job[k].flow].comb # 0 /\ flow[job[k].flow].type = "stateful" /\ job[k].length = 1
    BY <2>1, <2>2, AtIdle
  <2>4. flow'[job[k].flow].comb # 0 /\ flow'[job[k].flow].type = "stateful"
    BY <2>3
  <2> QED
    BY <2>1, <2>3, <2>4
<1>5. TodoReady'
  BY <1>1 DEF TodoReady, Distinct
<1>6. ASSUME NEW g \in Flow, g # f PROVE FlowInv(g)'
  <2>1. FlowKept(g) /\ issued'[g] = issued[g]
    BY <1>2, <1>6, SameFlowKept
  <2>2. \A i \in DOMAIN issued[g] : issued[g][i] \in Job /\ issued[g][i] # j
    <3>1. job[j].flow = f
      BY DEF DropStep
    <3>2. \A i \in DOMAIN issued[g] : job[issued[g][i]].flow = g
      BY DEF StateInv, FlowInv, IssuedExact
    <3>3. \A i \in DOMAIN issued[g] : issued[g][i] \in Job
      BY <1>1, Types
    <3> QED
      BY <1>6, <3>1, <3>2, <3>3
  <2>3. \A i \in DOMAIN issued[g] : job'[issued[g][i]] = job[issued[g][i]] /\ SameJob(issued[g][i])
    BY <1>2, <2>2 DEF SameJob
  <2>4. IssuedExact(g)' /\ Linked(g)' /\ SeenUsed(g)'
    BY <1>1, <2>1, <2>3, ListKept
  <2>5. /\ Ended(g)' <=> Ended(g)
        /\ \A r \in 0 .. Len(issued[g]) : RdsInOrder(g, r) => RdsInOrder(g, r)'
    BY <1>6, DropElsewhere
  <2>6. /\ Sent(g)' <=> Sent(g)
        /\ \A p \in DOMAIN input' : input'[p].flow = g => \E q \in DOMAIN input : input[q] = input'[p]
    BY DEF Sent, DropStep
  <2>7. flow'[g].head = flow[g].head /\ engine'[g] = engine[g]
    BY <1>6 DEF DropStep
  <2>8. ChainInv(g)'
    BY <2>1, <2>3, <2>5, <2>6, <2>7, ChainKept
  <2> QED
    BY <2>4, <2>8 DEF FlowInv, ChainInv
<1>7. \A g \in Flow : FlowInv(g)'
  BY <1>6
<1> QED
  BY <1>3, <1>4, <1>5, <1>7, DropOutput DEF StateInv

LEMMA DropTypes ==
  ASSUME StateInv, NEW f \in Flow, NEW j \in Job, DropStep(f, j),
         flow' \in [Flow -> FlowRecord], pending' \in Seq(Flow)
  PROVE  TypeOK'
<1>1. TypeOK
  BY DEF StateInv, PendingListExact
<1>2. output' \in Seq([job : Job, final : BOOLEAN]) /\ Len(output') < OutputSize
  <2>1. output' \in Seq([job : Job, final : BOOLEAN]) /\ Len(output') < Len(output) /\ Len(output) \in Nat
    BY DropOutput
  <2>2. Len(output') \in Nat
    BY <2>1, SeqFacts
  <2> QED
    BY <1>1, <2>1, <2>2, FlowAssumption DEF TypeOK
<1>3. job' \in [Job -> JobRecord] /\ issued' \in [Flow -> Seq(Job)]
  BY DropFacts
<1> QED
  BY <1>1, <1>2, <1>3 DEF TypeOK, DropStep

(* The last job of the flow is done. *)
LEMMA DropLast ==
  ASSUME StateInv, NEW f \in Flow, NEW j \in Job, DropStep(f, j), Len(issued[f]) = 1,
         flow'[f].head = flow[f].head, flow'[f].comb = flow[f].comb, flow'[f].groups = flow[f].groups,
         flow'[f].type = "free" \/ flow'[f].last = None
  PROVE  FlowInv(f)'
<1>1. /\ ~Waiting(f) /\ ~Sent(f)
      /\ \E r \in 1 .. Len(issued[f]) :
               /\ ChainAt(f, r)
               /\ IF Head(output).final THEN r = 1 /\ ~Busy(f) ELSE Len(issued[f]) > 1
  BY OldestRd DEF DropStep
<1>2. PICK r \in 1 .. Len(issued[f]) : ChainAt(f, r) /\ r = 1 /\ ~Busy(f) /\ Head(output).final
  BY <1>1
<1>3. Len(issued'[f]) = 0 /\ issued'[f] \in Seq(Job) /\ DOMAIN issued'[f] = {}
  <2>1. Len(issued'[f]) = Len(issued[f]) - 1 /\ issued'[f] \in Seq(Job) /\ DOMAIN issued'[f] = 1 .. Len(issued[f]) - 1
    BY DropFacts
  <2> QED
    BY <2>1
<1>4. issued'[f] = <<>>
  BY <1>3, SeqFacts
<1>5. flow'[f].head = None /\ ~Waiting(f)' /\ ~Sent(f)' /\ ~Busy(f)' /\ engine'[f] = Idle
  BY <1>1, <1>2 DEF Waiting, Sent, Busy, DropStep
<1>6. ~Ended(f)'
  <2> SUFFICES ASSUME NEW p \in DOMAIN output', job'[output'[p].job].flow = f
               PROVE  FALSE
    BY DEF Ended
  <2>1. p + 1 \in DOMAIN output /\ output'[p] = output[p + 1] /\ output'[p].job # j /\ output'[p].job \in Job
    BY DropOutput
  <2>2. job'[output'[p].job] = job[output'[p].job]
    BY <2>1, DropFacts
  <2>3. job[output[p + 1].job].state = "started"
    BY <2>1 DEF StateInv, RingsExact
  <2>4. PICK i \in DOMAIN issued[f] : issued[f][i] = output'[p].job
    BY <2>1, <2>2, <2>3 DEF StateInv, StartedIssued
  <2>5. i = 1 /\ issued[f][1] = j
    <3>1. DOMAIN issued[f] = 1 .. Len(issued[f]) /\ issued[f][1] = j
      BY DropFacts
    <3> QED
      BY <3>1
  <2> QED
    BY <2>1, <2>4, <2>5
<1>7. IssuedExact(f)' /\ Linked(f)'
  BY <1>3, <1>4, <1>5 DEF IssuedExact, Linked, Distinct
<1>8. SeenUsed(f)'
  <2>1. flow[f].groups > 0 => flow[f].comb # 0
    BY DEF StateInv, FlowInv, SeenUsed
  <2> QED
    BY <1>4, <2>1 DEF SeenUsed
<1>9. RdsInOrder(f, 0)' /\ EngineFits(f, 0)' /\ OnePlace(f, 0)'
  BY <1>3, <1>4, <1>5, <1>6 DEF RdsInOrder, EngineFits, OnePlace
<1>10. 0 \in 0 .. Len(issued'[f]) /\ \A p \in DOMAIN input' : input'[p].flow # f
  BY <1>3, <1>5 DEF Sent
<1> QED
  BY <1>7, <1>8, <1>9, <1>10 DEF FlowInv, ChainAt

(* More jobs follow; the list of started jobs moves up. *)
LEMMA DropList ==
  ASSUME StateInv, NEW f \in Flow, NEW j \in Job, DropStep(f, j), Len(issued[f]) > 1,
         flow'[f].type = flow[f].type, flow'[f].comb = flow[f].comb, flow'[f].groups = flow[f].groups,
         flow'[f].offset = flow[f].offset,
         flow'[f].last = flow[f].last, flow'[f].lastComb = flow[f].lastComb
  PROVE  /\ IssuedExact(f)' /\ Linked(f)' /\ SeenUsed(f)' /\ issued'[f] # <<>>
         /\ \A i \in DOMAIN issued'[f] : job'[issued'[f][i]] = job[issued[f][i + 1]]
<1> DEFINE n == Len(issued[f])
<1>1. /\ \A k \in Job \ {j} : job'[k] = job[k]
      /\ n \in Nat /\ Len(issued'[f]) = n - 1
      /\ DOMAIN issued'[f] = 1 .. n - 1 /\ DOMAIN issued[f] = 1 .. n
      /\ \A i \in DOMAIN issued'[f] : i \in Nat /\ i + 1 \in DOMAIN issued[f] /\ i + 1 # 1 /\ issued'[f][i] = issued[f][i + 1]
      /\ \A i \in DOMAIN issued[f] : issued[f][i] \in Job /\ (issued[f][i] = j => i = 1)
  BY DropFacts
<1>2. \A i \in DOMAIN issued'[f] : job'[issued'[f][i]] = job[issued[f][i + 1]]
  BY <1>1
<1>3. FlowInv(f) /\ n > 1
  BY DEF StateInv
<1> HIDE DEF n
<1>4. IssuedExact(f)'
  <2>1. ASSUME NEW i \in DOMAIN issued'[f], NEW k \in DOMAIN issued'[f], issued'[f][i] = issued'[f][k]
        PROVE  i = k
    <3>1. i + 1 = k + 1
      BY <1>1, <1>3, <2>1 DEF FlowInv, IssuedExact, Distinct
    <3> QED
      BY <1>1, <3>1
  <2>2. ASSUME NEW i \in DOMAIN issued'[f]
        PROVE  /\ job'[issued'[f][i]].state = "started" /\ job'[issued'[f][i]].flow = f
               /\ job'[issued'[f][i]].term => i = Len(issued'[f]) /\ flow'[f].type = "invalid"
    <3>1. i + 1 \in DOMAIN issued[f] /\ job'[issued'[f][i]] = job[issued[f][i + 1]] /\ i \in Nat
      BY <1>1, <1>2
    <3>2. /\ job[issued[f][i + 1]].state = "started" /\ job[issued[f][i + 1]].flow = f
          /\ job[issued[f][i + 1]].term => i + 1 = n /\ flow[f].type = "invalid"
      BY <1>3, <3>1 DEF FlowInv, IssuedExact, n
    <3>3. i + 1 = n => i = Len(issued'[f])
      BY <1>1, <3>1
    <3> QED
      BY <3>1, <3>2, <3>3
  <2> QED
    BY <2>1, <2>2 DEF IssuedExact, Distinct
<1>5. issued'[f] # <<>> /\ Len(issued'[f]) # 0
  <2>1. Len(issued'[f]) # 0 /\ Len(<<>>) = 0
    BY <1>1, <1>3
  <2> QED
    BY <2>1
<1>6. Linked(f)'
  <2>1. ASSUME NEW i \in 1 .. Len(issued'[f]) - 1
        PROVE  /\ job'[issued'[f][i]].nla = issued'[f][i + 1]
               /\ job'[issued'[f][i]].disc <=> job'[issued'[f][i]].comb # job'[issued'[f][i + 1]].comb
    <3>1. i \in DOMAIN issued'[f] /\ i + 1 \in DOMAIN issued'[f] /\ i + 1 \in 1 .. n - 1
      BY <1>1
    <3>2. /\ issued'[f][i + 1] = issued[f][(i + 1) + 1]
          /\ job'[issued'[f][i]] = job[issued[f][i + 1]]
          /\ job'[issued'[f][i + 1]] = job[issued[f][(i + 1) + 1]]
      BY <1>1, <1>2, <3>1
    <3>3. /\ job[issued[f][i + 1]].nla = issued[f][(i + 1) + 1]
          /\ job[issued[f][i + 1]].disc <=> job[issued[f][i + 1]].comb # job[issued[f][(i + 1) + 1]].comb
      BY <1>3, <3>1 DEF FlowInv, Linked, n
    <3> QED
      BY <3>2, <3>3
  <2>2. n - 1 \in DOMAIN issued'[f] /\ (n - 1) + 1 = n
    BY <1>1, <1>3
  <2>3. issued'[f][Len(issued'[f])] = issued[f][n] /\ job'[issued[f][n]] = job[issued[f][n]]
    BY <1>1, <1>2, <2>2
  <2>4. /\ flow[f].last = issued[f][n] /\ flow[f].lastComb = job[issued[f][n]].comb
        /\ job[issued[f][n]].nla = None /\ ~job[issued[f][n]].disc
    <3>1. pc # "link"
      BY DEF DropStep
    <3>2. n > 0
      BY <1>1, <1>3
    <3> QED
      BY <1>3, <3>1, <3>2 DEF FlowInv, Linked, n
  <2> QED
    BY <1>5, <2>1, <2>3, <2>4 DEF Linked
<1>7. SeenUsed(f)'
  <2>1. n # 0
    BY <1>3
  <2>2. issued[f] # <<>>
    <3>1. Len(<<>>) = 0
      OBVIOUS
    <3> QED
      BY <2>1, <3>1 DEF n
  <2> QED
    BY <1>3, <2>2 DEF FlowInv, SeenUsed
<1> QED
  BY <1>2, <1>4, <1>5, <1>6, <1>7

(* The FRD of a job that has others behind it: they are sent again. *)
LEMMA DropRestarts ==
  ASSUME StateInv, NEW f \in Flow, NEW j \in Job, DropStep(f, j), Len(issued[f]) > 1,
         Head(output).final, flow'[f].head = issued[f][2],
         flow'[f].type = flow[f].type, flow'[f].comb = flow[f].comb, flow'[f].groups = flow[f].groups,
         flow'[f].offset = flow[f].offset,
         flow'[f].last = flow[f].last, flow'[f].lastComb = flow[f].lastComb
  PROVE  FlowInv(f)'
<1>1. IssuedExact(f)' /\ Linked(f)' /\ SeenUsed(f)' /\ issued'[f] # <<>>
  BY DropList
<1>2. ~Waiting(f) /\ ~Sent(f) /\ ~Busy(f) /\ RdsInOrder(f, 1)
  BY OldestRd DEF DropStep, ChainAt
<1>3. /\ Len(issued[f]) \in Nat /\ Len(issued'[f]) = Len(issued[f]) - 1
      /\ DOMAIN issued'[f] = 1 .. Len(issued[f]) - 1 /\ DOMAIN issued[f] = 1 .. Len(issued[f])
      /\ \A i \in DOMAIN issued'[f] : issued'[f][i] = issued[f][i + 1]
      /\ \A i \in DOMAIN issued[f] : issued[f][i] \in Job
  BY DropFacts
<1>4. 1 \in DOMAIN issued'[f] /\ 1 + 1 = 2 /\ 2 \in DOMAIN issued[f] /\ 1 \in 1 .. Len(issued[f]) /\ 1 - 1 = 0
  BY <1>3
<1>5. flow'[f].head = issued'[f][1] /\ flow'[f].head # None
  BY <1>3, <1>4, FlowAssumption
<1>6. RdsInOrder(f, 0)'
  <2>1. RdsInOrder(f, 1 - 1)'
    BY <1>2, <1>4, DropOwn
  <2> QED
    BY <1>4, <2>1
<1>7. Waiting(f)' /\ ~Sent(f)' /\ ~Busy(f)' /\ engine'[f] = Idle
  BY <1>2, <1>5 DEF Waiting, Sent, Busy, DropStep
<1>8. EngineFits(f, 0)' /\ OnePlace(f, 0)'
  BY <1>1, <1>5, <1>7 DEF EngineFits, OnePlace
<1>9. 0 \in 0 .. Len(issued'[f]) /\ \A p \in DOMAIN input' : input'[p].flow # f
  BY <1>3, <1>7 DEF Sent
<1> QED
  BY <1>1, <1>6, <1>8, <1>9 DEF FlowInv, ChainAt

(* A PRD: the chain goes on. *)
LEMMA DropContinues ==
  ASSUME StateInv, NEW f \in Flow, NEW j \in Job, DropStep(f, j), ~Head(output).final,
         flow'[f] = flow[f]
  PROVE  FlowInv(f)'
<1>1. /\ ~Waiting(f) /\ ~Sent(f) /\ issued[f] # <<>>
      /\ \E r \in 1 .. Len(issued[f]) :
               /\ ChainAt(f, r)
               /\ IF Head(output).final THEN r = 1 /\ ~Busy(f) ELSE Len(issued[f]) > 1
  BY OldestRd DEF DropStep
<1>2. PICK r \in 1 .. Len(issued[f]) : ChainAt(f, r) /\ Len(issued[f]) > 1
  BY <1>1
<1>3. /\ IssuedExact(f)' /\ Linked(f)' /\ SeenUsed(f)' /\ issued'[f] # <<>>
      /\ \A i \in DOMAIN issued'[f] : job'[issued'[f][i]] = job[issued[f][i + 1]]
  BY <1>2, DropList
<1> DEFINE n == Len(issued[f])
           s == r - 1
<1>4. /\ n \in Nat /\ Len(issued'[f]) = n - 1
      /\ DOMAIN issued'[f] = 1 .. n - 1 /\ DOMAIN issued[f] = 1 .. n
      /\ \A i \in DOMAIN issued'[f] : issued'[f][i] = issued[f][i + 1]
  BY DropFacts
<1>5. RdsInOrder(f, s)'
  BY <1>2, DropOwn DEF ChainAt
<1>6. r \in 1 .. n /\ r \in Nat /\ s \in Nat /\ s + 1 = r /\ s \in 0 .. Len(issued'[f])
  BY <1>2, <1>4
<1> HIDE DEF n, s
<1>7. ~Waiting(f)' /\ ~Sent(f)' /\ (Busy(f)' <=> Busy(f)) /\ engine'[f] = engine[f]
  BY <1>1 DEF Waiting, Sent, Busy, DropStep
<1>8. EngineFits(f, s)'
  <2>1. CASE engine[f] = Idle
    BY <1>7, <2>1 DEF EngineFits
  <2>2. CASE DataChain(f, r, engine[f])
    <3> DEFINE e == engine[f]
               m == Len(e.q)
    <3>1. m \in Nat /\ DOMAIN e.q = 1 .. m /\ r + m <= n
      BY <2>2, Types DEF DataChain, n, StateInv, PendingListExact
    <3>2. s + m <= Len(issued'[f])
      BY <1>4, <1>6, <3>1
    <3>3. ASSUME NEW i \in DOMAIN e.q
          PROVE  /\ e.q[i] = [job |-> issued'[f][s + i], prd |-> TRUE,
                              chained |-> i < Len(e.q) \/ e.next # None]
                 /\ job'[issued'[f][s + i]].comb = e.comb
      <4>1. s + i \in DOMAIN issued'[f] /\ (s + i) + 1 = r + i
        <5>1. i \in 1 .. m
          BY <3>1
        <5> HIDE DEF m
        <5>2. i \in Nat /\ 1 <= i /\ i <= m
          BY <3>1, <5>1
        <5>3. s + i \in 1 .. n - 1 /\ (s + i) + 1 = r + i
          BY <1>4, <1>6, <3>1, <5>2
        <5> QED
          BY <1>4, <5>3
      <4>2. issued'[f][s + i] = issued[f][r + i] /\ job'[issued'[f][s + i]] = job[issued[f][r + i]]
        BY <1>3, <1>4, <4>1
      <4> QED
        BY <2>2, <4>2 DEF DataChain
    <3>4. ASSUME e.next # None
          PROVE  /\ s + m < Len(issued'[f]) /\ e.next = issued'[f][s + m + 1]
                 /\ job'[e.next].comb = e.comb
      <4>1. r + m < n /\ e.next = issued[f][r + m + 1] /\ job[e.next].comb = e.comb
        BY <2>2, <3>4 DEF DataChain, n
      <4>2. s + m + 1 \in DOMAIN issued'[f] /\ (s + m + 1) + 1 = r + m + 1 /\ s + m < Len(issued'[f])
        <5> HIDE DEF m
        <5>1. s + m + 1 \in 1 .. n - 1 /\ (s + m + 1) + 1 = r + m + 1 /\ s + m < n - 1
          BY <1>4, <1>6, <3>1, <4>1
        <5> QED
          BY <1>4, <5>1
      <4> QED
        BY <1>3, <1>4, <4>1, <4>2
    <3>5. DataChain(f, s, engine[f])'
      BY <1>7, <2>2, <3>2, <3>3, <3>4 DEF DataChain
    <3> QED
      BY <3>5 DEF EngineFits
  <2> QED
    BY <1>2, <1>6, <2>1, <2>2 DEF ChainAt, EngineFits
<1>9. Ended(f)' <=> Ended(f)
  <2>1. /\ \A p \in DOMAIN output' :
              p + 1 \in DOMAIN output /\ output'[p] = output[p + 1] /\ output'[p].job # j
        /\ \A p \in DOMAIN output : p # 1 => p - 1 \in DOMAIN output' /\ output'[p - 1] = output[p]
        /\ 1 \in DOMAIN output /\ \A p \in DOMAIN output' : output'[p].job \in Job
    BY DropOutput
  <2>2. \A k \in Job \ {j} : job'[k] = job[k]
    BY DropFacts
  <2>3. ~output[1].final
    <3>1. Head(output) = output[1]
      BY TailFacts, RingTypes DEF DropStep, StateInv, PendingListExact
    <3> QED
      BY <3>1
  <2>4. ASSUME Ended(f)' PROVE Ended(f)
    BY <2>1, <2>2, <2>4 DEF Ended
  <2>5. ASSUME NEW p \in DOMAIN output, output[p].final, job[output[p].job].flow = f PROVE Ended(f)'
    <3>1. p # 1
      BY <2>3, <2>5
    <3>2. p - 1 \in DOMAIN output' /\ output'[p - 1] = output[p]
      BY <2>1, <3>1
    <3>3. job'[output'[p - 1].job] = job[output'[p - 1].job]
      BY <2>1, <2>2, <3>2
    <3> QED
      BY <2>5, <3>2, <3>3 DEF Ended
  <2> QED
    BY <2>4, <2>5 DEF Ended
<1>10. OnePlace(f, s)'
  BY <1>1, <1>2, <1>3, <1>7, <1>9 DEF ChainAt, OnePlace
<1>11. \A p \in DOMAIN input' : input'[p].flow # f
  BY <1>7 DEF Sent
<1> QED
  BY <1>3, <1>5, <1>6, <1>8, <1>10, <1>11 DEF FlowInv, ChainAt

LEMMA ProcessRdKeeps ==
  ASSUME StateInv, ProcessRd
  PROVE  StateInv'
<1>1. /\ TypeOK /\ PendingListExact /\ flow \in [Flow -> FlowRecord] /\ pending \in Seq(Flow)
      /\ output # <<>> /\ pc \in {"idle", "results"}
  BY DEF StateInv, PendingListExact, TypeOK, ProcessRd
<1>2. PICK j \in Job : j = Head(output).job /\ job[j].flow \in Flow
  BY <1>1, OldestRd
<1>3. PICK f \in Flow : f = job[j].flow
  BY <1>2
<1>4. /\ issued[f] # <<>> /\ j = issued[f][1] /\ ~Waiting(f)
      /\ Head(output).final \/ Len(issued[f]) > 1
  BY <1>1, <1>2, <1>3, OldestRd
<1>5. DropStep(f, j)
  <2>1. issued' = [issued EXCEPT ![f] = IF @ # <<>> /\ Head(@) = j THEN Tail(@) ELSE @]
    BY <1>2, <1>3 DEF ProcessRd
  <2>2. issued[f] # <<>> /\ Head(issued[f]) = j
    BY <1>1, <1>4, Types, TailFacts
  <2>3. issued' = [issued EXCEPT ![f] = Tail(issued[f])]
    BY <2>1, <2>2
  <2>4. job' = [job EXCEPT ![j] = FreeJob] /\ output' = Tail(output) /\ pc' = "results"
        /\ UNCHANGED <<input, visible, engine, todo>>
    BY <1>2 DEF ProcessRd
  <2> QED
    BY <1>1, <1>2, <1>3, <2>3, <2>4 DEF DropStep
<1>6. /\ Len(issued[f]) \in Nat \ {0} /\ DOMAIN issued[f] = 1 .. Len(issued[f]) /\ 1 \in DOMAIN issued[f]
      /\ \A i \in DOMAIN issued[f] : issued[f][i] \in Job /\ (issued[f][i] = j => i = 1)
  BY <1>5, DropFacts
<1>7. flow[f].head = None /\ flow[f] \in FlowRecord
  BY <1>1, <1>4 DEF Waiting
<1>8. job[j].term => Len(issued[f]) = 1 /\ flow[f].type = "invalid"
  BY <1>4, <1>6 DEF StateInv, FlowInv, IssuedExact
<1>9. flow[f].last = issued[f][Len(issued[f])] /\ Len(issued[f]) \in DOMAIN issued[f]
  <2>1. Len(issued[f]) > 0 /\ Len(issued[f]) \in DOMAIN issued[f]
    BY <1>6
  <2> QED
    BY <2>1 DEF StateInv, FlowInv, Linked
<1>10. flow[f].last = j <=> Len(issued[f]) = 1
  BY <1>4, <1>6, <1>9
<1>11. \/ /\ job[j].term /\ flow' = [flow EXCEPT ![f].type = "free"] /\ UNCHANGED pending
       \/ /\ ~job[j].term /\ Head(output).final /\ NoticeCompletion(f, j)
       \/ /\ ~job[j].term /\ ~Head(output).final /\ UNCHANGED <<flow, pending>>
  BY <1>2, <1>3 DEF ProcessRd
<1>12. CASE job[j].term
  <2> DEFINE x == [flow[f] EXCEPT !.type = "free"]
  <2>1. /\ x \in FlowRecord /\ x.type = "free" /\ x.head = flow[f].head /\ x.comb = flow[f].comb
        /\ x.groups = flow[f].groups
    BY <1>7 DEF FlowRecord
  <2>2. flow' = [flow EXCEPT ![f] = x] /\ pending' = pending
    BY <1>1, <1>11, <1>12
  <2> HIDE DEF x
  <2>3. flow' \in [Flow -> FlowRecord] /\ flow'[f] = x /\ \A g \in Flow \ {f} : flow'[g] = flow[g]
    BY <1>1, <2>1, <2>2
  <2>4. FlowInv(f)'
    BY <1>5, <1>8, <1>12, <2>1, <2>3, DropLast
  <2>5. PendingListExact'
    <3>1. TypeOK'
      BY <1>1, <1>5, <2>2, <2>3, DropTypes
    <3>2. \A g \in Flow : flow'[g].head = flow[g].head
      BY <2>1, <2>3
    <3> QED
      BY <1>1, <2>2, <3>1, <3>2 DEF PendingListExact, Distinct
  <2> QED
    BY <1>5, <1>8, <1>12, <2>1, <2>3, <2>4, <2>5, DropKeeps
<1>13. CASE ~job[j].term /\ Head(output).final /\ flow[f].last = j
  <2> DEFINE x == [flow[f] EXCEPT !.last = None]
  <2>1. /\ x \in FlowRecord /\ x.type = flow[f].type /\ x.head = flow[f].head /\ x.comb = flow[f].comb
        /\ x.groups = flow[f].groups /\ x.last = None
    <3>1. x \in FlowRecord
      BY <1>7 DEF FlowRecord
    <3> QED
      BY <1>7, <3>1 DEF FlowRecord
  <2>2. flow' = [flow EXCEPT ![f] = x] /\ pending' = pending
    BY <1>1, <1>11, <1>13 DEF NoticeCompletion
  <2> HIDE DEF x
  <2>3. flow' \in [Flow -> FlowRecord] /\ flow'[f] = x /\ \A g \in Flow \ {f} : flow'[g] = flow[g]
    BY <1>1, <2>1, <2>2
  <2>4. FlowInv(f)'
    BY <1>5, <1>10, <1>13, <2>1, <2>3, DropLast
  <2>5. PendingListExact'
    <3>1. TypeOK'
      BY <1>1, <1>5, <2>2, <2>3, DropTypes
    <3>2. \A g \in Flow : flow'[g].head = flow[g].head
      BY <2>1, <2>3
    <3> QED
      BY <1>1, <2>2, <3>1, <3>2 DEF PendingListExact, Distinct
  <2> QED
    BY <1>5, <2>1, <2>3, <2>4, <2>5, DropKeeps
<1>14. CASE ~job[j].term /\ Head(output).final /\ flow[f].last # j
  <2>1. Len(issued[f]) > 1 /\ 2 \in DOMAIN issued[f]
    <3>1. Len(issued[f]) # 1
      BY <1>10, <1>14
    <3>2. PICK n \in Nat \ {0} : n = Len(issued[f])
      BY <1>6
    <3>3. n > 1 /\ 2 \in 1 .. n
      <4>1. n \in Nat /\ n # 0 /\ n # 1
        BY <3>1, <3>2
      <4> QED
        BY <4>1
    <3> QED
      BY <1>6, <3>2, <3>3
  <2>2. job[j].nla = issued[f][2] /\ issued[f][2] \in Job
    <3>1. 1 \in 1 .. Len(issued[f]) - 1 /\ 1 + 1 = 2
      BY <1>6, <2>1
    <3>2. job[issued[f][1]].nla = issued[f][1 + 1]
      BY <3>1 DEF StateInv, FlowInv, Linked
    <3> QED
      BY <1>4, <1>6, <2>1, <3>1, <3>2
  <2> DEFINE h == issued[f][2]
             x == [flow[f] EXCEPT !.head = h]
  <2>3. /\ x \in FlowRecord /\ x.type = flow[f].type /\ x.head = h /\ x.comb = flow[f].comb
        /\ x.groups = flow[f].groups /\ x.last = flow[f].last /\ x.lastComb = flow[f].lastComb
        /\ x.offset = flow[f].offset
    <3>1. h \in Job
      BY <2>2
    <3> HIDE DEF h
    <3>2. x \in FlowRecord
      BY <1>7, <3>1 DEF FlowRecord
    <3> QED
      BY <1>7, <3>2 DEF FlowRecord
  <2>4. flow' = [flow EXCEPT ![f] = x] /\ pending' = Append(pending, f)
    <3>1. job[j].nla # None
      BY <2>2, FlowAssumption
    <3>2. flow' = [flow EXCEPT ![f].head = job[j].nla] /\ pending' = Append(pending, f)
      BY <1>11, <1>14, <3>1 DEF NoticeCompletion
    <3> QED
      BY <1>1, <2>2, <3>2
  <2> HIDE DEF x
  <2>5. flow' \in [Flow -> FlowRecord] /\ flow'[f] = x /\ \A g \in Flow \ {f} : flow'[g] = flow[g]
    BY <1>1, <2>3, <2>4
  <2>6. FlowInv(f)'
    BY <1>5, <1>14, <2>1, <2>3, <2>5, DropRestarts
  <2>7. PendingListExact'
    <3>1. pending' \in Seq(Flow)
      BY <1>1, <2>4, AppendFacts
    <3>2. TypeOK'
      BY <1>5, <2>5, <3>1, DropTypes
    <3>3. flow'[f].head # None
      BY <2>2, <2>3, <2>5, FlowAssumption
    <3> QED
      BY <1>1, <1>7, <2>4, <2>5, <3>2, <3>3, PendingGrows
  <2> QED
    BY <1>5, <2>3, <2>5, <2>6, <2>7, DropKeeps
<1>15. CASE ~job[j].term /\ ~Head(output).final
  <2>1. flow' = flow /\ pending' = pending
    BY <1>11, <1>15
  <2>2. FlowInv(f)'
    BY <1>5, <1>15, <2>1, DropContinues
  <2>3. PendingListExact'
    <3>1. TypeOK'
      BY <1>1, <1>5, <2>1, DropTypes
    <3> QED
      BY <1>1, <2>1, <3>1 DEF PendingListExact, Distinct
  <2> QED
    BY <1>5, <2>1, <2>2, <2>3, DropKeeps
<1> QED
  BY <1>12, <1>13, <1>14, <1>15

-----------------------------------------------------------------------------
(* The invariant holds. *)
LEMMA InitInv ==
  ASSUME Init
  PROVE  StateInv
<1>1. /\ \A f \in Flow : flow[f] = ZeroFlow /\ engine[f] = Idle /\ issued[f] = <<>>
      /\ \A j \in Job : job[j] = FreeJob
      /\ pending = <<>> /\ input = <<>> /\ output = <<>> /\ todo = <<>> /\ pc = "idle" /\ visible = 0
  BY DEF Init
<1>2. DOMAIN pending = {} /\ DOMAIN input = {} /\ DOMAIN output = {} /\ DOMAIN todo = {}
  BY <1>1
<1>3. TypeOK
  <2>1. ZeroFlow \in FlowRecord /\ FreeJob \in JobRecord /\ Idle \in EngineRecord
    BY DEF ZeroFlow, FlowRecord, FreeJob, JobRecord, Idle, EngineRecord
  <2> QED
    BY <2>1, FlowAssumption DEF Init, TypeOK
<1>4. \A f \in Flow : flow[f].head = None /\ flow[f].last = None /\ flow[f].type = "free" /\ flow[f].groups = 0
  BY <1>1 DEF ZeroFlow
<1>5. PendingListExact
  BY <1>2, <1>3, <1>4 DEF PendingListExact, Distinct
<1>6. \A j \in Job : job[j].state = "free"
  BY <1>1 DEF FreeJob
<1>7. StartedIssued /\ CreatedReady
  BY <1>6 DEF StartedIssued, CreatedReady
<1>8. RingsExact /\ TodoReady
  BY <1>1, <1>2 DEF RingsExact, TodoReady, Distinct
<1>9. ASSUME NEW f \in Flow PROVE FlowInv(f)
  <2>1. issued[f] = <<>> /\ Len(issued[f]) = 0 /\ DOMAIN issued[f] = {}
    BY <1>1
  <2>2. IssuedExact(f)
    BY <2>1 DEF IssuedExact, Distinct
  <2>3. Linked(f)
    <3>1. 1 .. Len(issued[f]) - 1 = {} /\ ~(Len(issued[f]) > 0)
      BY <2>1
    <3> QED
      BY <1>4, <3>1 DEF Linked
  <2>4. SeenUsed(f)
    BY <1>4, <2>1 DEF SeenUsed
  <2>5. ChainAt(f, 0)
    <3>1. RdsInOrder(f, 0)
      BY <1>2, <2>1 DEF RdsInOrder
    <3>2. EngineFits(f, 0)
      BY <1>1 DEF EngineFits
    <3>3. ~Waiting(f) /\ ~Sent(f) /\ ~Busy(f) /\ ~Ended(f)
      BY <1>1, <1>2, <1>4 DEF Waiting, Sent, Busy, Ended
    <3> QED
      BY <2>1, <3>1, <3>2, <3>3 DEF ChainAt, OnePlace
  <2>6. 0 \in 0 .. Len(issued[f])
    BY <2>1
  <2> QED
    BY <1>2, <2>2, <2>3, <2>4, <2>5, <2>6 DEF FlowInv
<1> QED
  BY <1>5, <1>7, <1>8, <1>9 DEF StateInv

LEMMA NextInv ==
  ASSUME ~ZeroLength, StateInv, Next
  PROVE  StateInv'
<1>1. CASE Application
  BY <1>1, CreateFlowKeeps, GroupsKeep, EnqueueKeeps, CancelKeeps, StartJobsKeeps,
     DestroyUnusedKeeps, DestroyKeeps DEF Application
<1>2. CASE Library
  BY <1>2, AddFirstKeeps, DisconnectKeeps, LinkKeeps, StartChainKeeps, TurnKeeps DEF Library
<1>3. CASE Poll
  BY <1>3, ProcessRdKeeps, TurnKeeps DEF Poll
<1>4. CASE Device
  BY <1>4, FetchFdKeeps, FetchPdKeeps, ReportKeeps, AbortKeeps DEF Device
<1> QED
  BY <1>1, <1>2, <1>3, <1>4 DEF Next

LEMMA StutterInv ==
  ASSUME StateInv, UNCHANGED vars
  PROVE  StateInv'
<1>u. /\ flow' = flow /\ job' = job /\ pending' = pending /\ input' = input /\ visible' = visible
      /\ engine' = engine /\ output' = output /\ pc' = pc /\ todo' = todo /\ issued' = issued
  BY DEF vars, device
<1> USE <1>u DEF StateInv
<1>1. PendingListExact' /\ StartedIssued' /\ CreatedReady' /\ RingsExact' /\ TodoReady'
  <2>1. PendingListExact'
    BY DEF PendingListExact, TypeOK, Distinct
  <2>2. StartedIssued' /\ RingsExact'
    BY DEF StartedIssued, RingsExact
  <2>3. CreatedReady'
    BY DEF CreatedReady
  <2>4. TodoReady'
    BY DEF TodoReady, Distinct
  <2> QED
    BY <2>1, <2>2, <2>3, <2>4
<1>2. ASSUME NEW f \in Flow PROVE FlowInv(f)'
  <2>1. IssuedExact(f)' /\ Linked(f)' /\ SeenUsed(f)'
    BY DEF FlowInv, IssuedExact, Linked, SeenUsed, Distinct
  <2>2. \A p \in DOMAIN input' : input'[p].flow = f => FdFits(f, input[p])'
    BY DEF FlowInv, FdFits
  <2>3. PICK r \in 0 .. Len(issued[f]) : ChainAt(f, r)
    BY DEF FlowInv
  <2>4. ChainAt(f, r)'
    <3>1. RdsInOrder(f, r)'
      BY <2>3 DEF ChainAt, RdsInOrder
    <3>2. EngineFits(f, r)'
      BY <2>3 DEF ChainAt, EngineFits, TermChain, DataChain
    <3>3. OnePlace(f, r)'
      BY <2>3 DEF ChainAt, OnePlace, Waiting, Sent, Busy, Ended
    <3> QED
      BY <3>1, <3>2, <3>3 DEF ChainAt
  <2> QED
    BY <2>1, <2>2, <2>3, <2>4 DEF FlowInv
<1> QED
  BY <1>1, <1>2

(* In a session without zero-length packets the thread, the rings and the  *)
(* device always agree on every flow: its started jobs are linked in their *)
(* order, the results in the output ring are its oldest ones, and the rest *)
(* waits, is in the input ring or continues in the device.                 *)
THEOREM StateInvariant == ~ZeroLength => (Spec => []StateInv)
<1> SUFFICES ASSUME ~ZeroLength PROVE Spec => []StateInv
  OBVIOUS
<1>1. Init => StateInv
  BY InitInv
<1>2. StateInv /\ [Next]_vars => StateInv'
  BY NextInv, StutterInv
<1> QED
  BY <1>1, <1>2, PTL DEF Spec

-----------------------------------------------------------------------------
(* What the invariant says of a job that a ring or the device names. *)
LEMMA RdOfFlow ==
  ASSUME StateInv, NEW f \in Flow, NEW p \in DOMAIN output, job[output[p].job].flow = f
  PROVE  \E i \in DOMAIN issued[f] : output[p].job = issued[f][i]
<1>1. output[p].job \in Job /\ job[output[p].job].state = "started"
  BY RingTypes DEF StateInv, PendingListExact, RingsExact
<1> QED
  BY <1>1 DEF StateInv, StartedIssued

LEMMA FrdOfFlow ==
  ASSUME StateInv, NEW f \in Flow, NEW r \in 0 .. Len(issued[f]), RdsInOrder(f, r),
         NEW p \in DOMAIN output, output[p].final, job[output[p].job].flow = f
  PROVE  r \in DOMAIN issued[f] /\ output[p].job = issued[f][r] /\ r # 0
<1>1. PICK i \in DOMAIN issued[f] : output[p].job = issued[f][i]
  BY RdOfFlow
<1>2. i = r
  BY <1>1 DEF RdsInOrder
<1>3. DOMAIN issued[f] = 1 .. Len(issued[f])
  BY Types DEF StateInv, PendingListExact
<1> QED
  BY <1>1, <1>2, <1>3

LEMMA OneChain ==
  ASSUME StateInv
  PROVE  OneChainPerFlow
<1> SUFFICES ASSUME NEW f \in Flow
             PROVE  Cardinality(Places(f)) = IF issued[f] = <<>> THEN 0 ELSE 1
  BY DEF OneChainPerFlow
<1>1. PICK r \in 0 .. Len(issued[f]) : ChainAt(f, r)
  BY DEF StateInv, FlowInv
<1>2. RdsInOrder(f, r) /\ OnePlace(f, r)
  BY <1>1 DEF ChainAt
<1> DEFINE W == {<<"waiting", flow[f].head>> : x \in {flow[f].head} \ {None}}
           I == {<<"input", i>> : i \in {i \in DOMAIN input : input[i].flow = f}}
           D == {<<"device", f>> : e \in {engine[f]} \ {Idle}}
           O == {<<"output", i>> : i \in {i \in DOMAIN output :
                                            output[i].final /\ job[output[i].job].flow = f}}
<1>3. Places(f) = W \cup I \cup D \cup O
  BY DEF Places
<1>4. /\ Waiting(f) <=> W # {}
      /\ Sent(f) <=> I # {}
      /\ Busy(f) <=> D # {}
      /\ Ended(f) <=> O # {}
  BY DEF Waiting, Sent, Busy, Ended
<1>5. \A x, y \in W : x = y
  OBVIOUS
<1>6. \A x, y \in I : x = y
  BY DEF StateInv, RingsExact
<1>7. \A x, y \in D : x = y
  OBVIOUS
<1>8. \A x, y \in O : x = y
  <2>1. ASSUME NEW p \in DOMAIN output, NEW q \in DOMAIN output,
               output[p].final, job[output[p].job].flow = f,
               output[q].final, job[output[q].job].flow = f
        PROVE  p = q
    <3>1. output[p].job = issued[f][r]
      BY <1>2, <2>1, FrdOfFlow
    <3>2. output[q].job = issued[f][r]
      BY <1>2, <2>1, FrdOfFlow
    <3> QED
      BY <3>1, <3>2 DEF StateInv, RingsExact
  <2> QED
    BY <2>1
<1>9. Ended(f) => r # 0
  BY <1>2, FrdOfFlow DEF Ended
<1>10. issued[f] # <<>> <=> W # {} \/ I # {} \/ D # {} \/ O # {}
  BY <1>2, <1>4 DEF OnePlace
<1>11. /\ W # {} => I = {} /\ D = {} /\ O = {}
       /\ I # {} => D = {} /\ O = {}
       /\ D # {} => O = {}
  BY <1>2, <1>4, <1>9 DEF OnePlace
<1> HIDE DEF W, I, D, O
<1>12. CASE issued[f] = <<>>
  BY <1>3, <1>10, <1>12, FS_EmptySet
<1>13. CASE issued[f] # <<>>
  <2>1. PICK x \in Places(f) : TRUE
    BY <1>3, <1>10, <1>13
  <2>2. \A y \in Places(f) : y = x
    BY <1>3, <1>5, <1>6, <1>7, <1>8, <1>11, <2>1
  <2>3. Places(f) = {x}
    BY <2>1, <2>2
  <2> QED
    BY <1>13, <2>3, FS_Singleton
<1> QED
  BY <1>12, <1>13

(* Each flow with unfinished jobs has exactly one chain, which waits, is   *)
(* in the input ring, in the device or ended with an FRD that is not read  *)
(* yet, and a flow without has none: linking a PD behind one the device    *)
(* may already have left neither doubles nor loses a chain.                *)
THEOREM OneChainAlways == ~ZeroLength => (Spec => []OneChainPerFlow)
<1> SUFFICES ASSUME ~ZeroLength PROVE Spec => []OneChainPerFlow
  OBVIOUS
<1>1. Spec => []StateInv
  BY StateInvariant
<1>2. StateInv => OneChainPerFlow
  BY OneChain
<1> QED
  BY <1>1, <1>2, PTL

(* The thread's list of pending flows holds each flow with a chain to be   *)
(* sent once, and no other.                                                *)
THEOREM PendingExact == ~ZeroLength => (Spec => []PendingListExact)
<1> SUFFICES ASSUME ~ZeroLength PROVE Spec => []PendingListExact
  OBVIOUS
<1>1. Spec => []StateInv
  BY StateInvariant
<1>2. StateInv => PendingListExact
  BY DEF StateInv
<1> QED
  BY <1>1, <1>2, PTL

-----------------------------------------------------------------------------
(* The jobs in the device. *)
LEMMA EngineJobs ==
  ASSUME StateInv, NEW f \in Flow
  PROVE  /\ \A i \in DOMAIN engine[f].q :
               \E k \in DOMAIN issued[f] : /\ engine[f].q[i].job = issued[f][k]
                                           /\ job[issued[f][k]].comb = engine[f].comb
         /\ engine[f].next # None =>
               \E k \in DOMAIN issued[f] : /\ engine[f].next = issued[f][k]
                                           /\ job[issued[f][k]].comb = engine[f].comb
<1>1. PICK r \in 0 .. Len(issued[f]) : EngineFits(f, r)
  BY DEF StateInv, FlowInv, ChainAt
<1> DEFINE e == engine[f]
           m == Len(e.q)
           n == Len(issued[f])
<1>2. /\ n \in Nat /\ DOMAIN issued[f] = 1 .. n
      /\ m \in Nat /\ DOMAIN e.q = 1 .. m /\ r \in Nat
  BY Types DEF StateInv, PendingListExact
<1>3. CASE e = Idle
  BY <1>3 DEF Idle
<1>4. CASE r = 0 /\ TermChain(f, e)
  <2>1. 1 \in DOMAIN issued[f] /\ job[issued[f][1]].comb = e.comb
    BY <1>2, <1>4 DEF TermChain
  <2>2. \A i \in DOMAIN e.q : e.q[i].job = issued[f][1]
    <3> DEFINE lead == [job |-> issued[f][1], prd |-> FALSE, chained |-> TRUE]
               own == [job |-> issued[f][1], prd |-> TRUE, chained |-> FALSE]
    <3>1. e.q = <<lead>> \/ e.q = <<lead, own>>
      BY <1>4 DEF TermChain
    <3>2. lead.job = issued[f][1] /\ own.job = issued[f][1]
      OBVIOUS
    <3> HIDE DEF lead, own
    <3>3. \A i \in DOMAIN e.q : e.q[i] \in {lead, own}
      BY <3>1
    <3> QED
      BY <3>2, <3>3
  <2>3. e.next # None => e.next = issued[f][1]
    BY <1>4 DEF TermChain
  <2> QED
    BY <2>1, <2>2, <2>3
<1>5. CASE DataChain(f, r, e)
  <2>1. ASSUME NEW i \in DOMAIN e.q
        PROVE  \E k \in DOMAIN issued[f] : e.q[i].job = issued[f][k] /\ job[issued[f][k]].comb = e.comb
    <3>0. /\ e.q[i] = [job |-> issued[f][r + i], prd |-> TRUE, chained |-> i < Len(e.q) \/ e.next # None]
          /\ job[issued[f][r + i]].comb = e.comb /\ r + m <= n
      BY <1>5 DEF DataChain
    <3>1. e.q[i].job = issued[f][r + i] /\ job[issued[f][r + i]].comb = e.comb /\ r + m <= n
      BY <3>0
    <3>2. r + i \in DOMAIN issued[f]
      <4>1. i \in 1 .. m /\ r + m <= n
        BY <1>2, <3>1
      <4> HIDE DEF m, n, e
      <4> QED
        BY <1>2, <4>1
    <3> QED
      BY <3>1, <3>2
  <2>2. ASSUME e.next # None
        PROVE  \E k \in DOMAIN issued[f] : e.next = issued[f][k] /\ job[issued[f][k]].comb = e.comb
    <3>1. r + m < n /\ e.next = issued[f][r + m + 1] /\ job[e.next].comb = e.comb
      BY <1>5, <2>2 DEF DataChain
    <3>2. r + m + 1 \in DOMAIN issued[f]
      <4> HIDE DEF m, n, e
      <4> QED
        BY <1>2, <3>1
    <3> QED
      BY <3>1, <3>2
  <2> QED
    BY <2>1, <2>2
<1> QED
  BY <1>1, <1>3, <1>4, <1>5 DEF EngineFits

(* Every packet the device scans in a chain was enqueued with the groups   *)
(* of the chain's FD, wherever between the two stores of nlm_start_jobs to *)
(* a PD the device has read it.                                            *)
THEOREM SameGroupsAlways == ~ZeroLength => (Spec => []SameGroups)
<1> SUFFICES ASSUME ~ZeroLength PROVE Spec => []SameGroups
  OBVIOUS
<1>1. Spec => []StateInv
  BY StateInvariant
<1>2. StateInv => SameGroups
  BY EngineJobs DEF SameGroups
<1> QED
  BY <1>1, <1>2, PTL

LEMMA UsedStarted ==
  ASSUME StateInv
  PROVE  NothingFreedInUse
<1>1. ASSUME NEW f \in Flow, NEW i \in DOMAIN issued[f] PROVE job[issued[f][i]].state = "started"
  BY DEF StateInv, FlowInv, IssuedExact
<1>2. \A i \in DOMAIN input : job[input[i].job].state = "started"
  <2> SUFFICES ASSUME NEW i \in DOMAIN input PROVE job[input[i].job].state = "started"
    OBVIOUS
  <2>1. PICK f \in Flow : input[i].flow = f
    BY RingTypes DEF StateInv, PendingListExact, FdRecord
  <2>2. issued[f] # <<>> /\ input[i].job = issued[f][1]
    BY <2>1 DEF StateInv, FlowInv, FdFits
  <2>3. 1 \in DOMAIN issued[f]
    BY <2>2, Types DEF StateInv, PendingListExact
  <2> QED
    BY <1>1, <2>2, <2>3
<1>3. \A i \in DOMAIN output : job[output[i].job].state = "started"
  BY DEF StateInv, RingsExact
<1>4. \A f \in Flow : /\ \A i \in DOMAIN engine[f].q : job[engine[f].q[i].job].state = "started"
                      /\ engine[f].next # None => job[engine[f].next].state = "started"
  BY <1>1, EngineJobs
<1>5. \A j \in Job : job[j].state = "started" => flow[job[j].flow].type # "free"
  <2> SUFFICES ASSUME NEW j \in Job, job[j].state = "started" PROVE flow[job[j].flow].type # "free"
    OBVIOUS
  <2>1. PICK f \in Flow : f = job[j].flow /\ DOMAIN issued[f] # {}
    BY DEF StateInv, StartedIssued
  <2>2. issued[f] # <<>>
    BY <2>1
  <2> QED
    BY <2>1, <2>2 DEF StateInv, FlowInv, SeenUsed
<1> DEFINE I == {input[i].job : i \in DOMAIN input}
           O == {output[i].job : i \in DOMAIN output}
           Q(f) == {engine[f].q[i].job : i \in DOMAIN engine[f].q}
           N == {engine[f].next : f \in Flow}
<1>6. \A j \in I \cup O : job[j].state = "started"
  BY <1>2, <1>3
<1>7. \A j \in UNION {Q(f) : f \in Flow} : job[j].state = "started"
  <2>1. \A f \in Flow : \A j \in Q(f) : job[j].state = "started"
    BY <1>4
  <2> HIDE DEF Q
  <2> QED
    BY <2>1
<1>8. \A j \in N \ {None} : job[j].state = "started"
  BY <1>4
<1>9. \A j \in (I \cup O \cup (UNION {Q(f) : f \in Flow}) \cup N) \ {None} : job[j].state = "started"
  <2> DEFINE U == UNION {Q(f) : f \in Flow}
  <2>1. \A j \in U : job[j].state = "started"
    BY <1>7
  <2> HIDE DEF I, O, U, N
  <2>2. \A j \in (I \cup O \cup U \cup N) \ {None} : job[j].state = "started"
    BY <1>6, <2>1, <1>8
  <2> QED
    BY <2>2, Zenon DEF U
<1> QED
  BY <1>5, <1>9, Zenon DEF NothingFreedInUse

(* Neither a ring nor the device ever names a PD or job that has gone back *)
(* to a free list, and nlm_destroy_stateful_flow frees no flow that has    *)
(* jobs.                                                                   *)
THEOREM NothingFreedAlways == ~ZeroLength => (Spec => []NothingFreedInUse)
<1> SUFFICES ASSUME ~ZeroLength PROVE Spec => []NothingFreedInUse
  OBVIOUS
<1>1. Spec => []StateInv
  BY StateInvariant
<1>2. StateInv => NothingFreedInUse
  BY UsedStarted
<1> QED
  BY <1>1, <1>2, PTL

-----------------------------------------------------------------------------
(* The order of the jobs. *)
LEMMA RdsReportedFirst ==
  ASSUME StateInv, NEW f \in Flow, NEW r \in 0 .. Len(issued[f]), RdsInOrder(f, r)
  PROVE  ReportedFirst(f, r)
<1>1. /\ DOMAIN output = 1 .. Len(output) /\ Len(output) \in Nat
      /\ DOMAIN issued[f] = 1 .. Len(issued[f]) /\ Len(issued[f]) \in Nat
  BY Types, RingTypes DEF StateInv, PendingListExact
<1>2. /\ \A p, q \in DOMAIN output : output[p].job = output[q].job => p = q
      /\ \A i, k \in DOMAIN issued[f] : issued[f][i] = issued[f][k] => i = k
  BY DEF StateInv, RingsExact, FlowInv, IssuedExact, Distinct
<1>3. ASSUME NEW p \in DOMAIN output, NEW q \in DOMAIN output,
             NEW i \in DOMAIN issued[f], NEW k \in DOMAIN issued[f],
             output[p].job = issued[f][i], output[q].job = issued[f][k]
      PROVE  p < q <=> i < k
  <2>1. i < k => p < q
    BY <1>3 DEF RdsInOrder
  <2>2. k < i => q < p
    BY <1>3 DEF RdsInOrder
  <2>3. i = k => p = q
    BY <1>2, <1>3
  <2>4. p \in Nat /\ q \in Nat /\ i \in Nat /\ k \in Nat
    BY <1>1
  <2> QED
    BY <2>1, <2>2, <2>3, <2>4
<1> QED
  BY <1>3, RdOfFlow DEF ReportedFirst, RdsInOrder

LEMMA EngineHoldsNext ==
  ASSUME StateInv, NEW f \in Flow, NEW r \in 0 .. Len(issued[f]), EngineFits(f, r)
  PROVE  HeldNext(f, r)
<1> DEFINE e == engine[f]
           lead == IF e.q # <<>> /\ ~Head(e.q).prd THEN 1 ELSE 0
           m == Len(e.q)
           n == Len(issued[f])
           held == r + m - lead
<1>1. /\ n \in Nat /\ m \in Nat /\ r \in Nat /\ r <= n /\ DOMAIN e.q = 1 .. m
      /\ e.q \in Seq(Fetched) /\ DOMAIN issued[f] = 1 .. n
  BY Types DEF StateInv, PendingListExact
<1> SUFFICES /\ held <= n
             /\ \A i \in DOMAIN e.q : i > lead => e.q[i].prd /\ e.q[i].job = issued[f][r + i - lead]
             /\ e.next # None => held < n /\ e.next = issued[f][held + 1]
  BY DEF HeldNext
<1>2. CASE e = Idle
  <2>1. e.q = <<>> /\ e.next = None
    BY <1>2 DEF Idle
  <2>2. m = 0 /\ lead = 0 /\ DOMAIN e.q = {}
    BY <2>1
  <2>3. held <= n
    <3> HIDE DEF m, n, lead
    <3> QED
      BY <1>1, <2>2
  <2> QED
    BY <2>1, <2>2, <2>3
<1>3. CASE r = 0 /\ TermChain(f, e)
  <2> DEFINE j == issued[f][1]
             first == [job |-> j, prd |-> FALSE, chained |-> TRUE]
             own == [job |-> j, prd |-> TRUE, chained |-> FALSE]
  <2>1. /\ n = 1
        /\ \/ e.q = <<first>> /\ e.next = j
           \/ e.q = <<first, own>> /\ e.next = None
    BY <1>3 DEF TermChain
  <2>2. ~first.prd /\ own.prd /\ own.job = j
    OBVIOUS
  <2> HIDE DEF first, own
  <2>3. Head(e.q) = first /\ e.q # <<>>
    <3>1. /\ Head(<<first>>) = first /\ <<first>> # <<>>
          /\ Head(<<first, own>>) = first /\ <<first, own>> # <<>>
      OBVIOUS
    <3> QED
      BY <2>1, <3>1, Zenon
  <2>4. lead = 1
    BY <2>2, <2>3
  <2>5. CASE e.q = <<first>> /\ e.next = j
    <3>1. m = 1 /\ DOMAIN e.q = {1}
      BY <2>5
    <3>2. held = 0 /\ held + 1 = 1
      BY <1>3, <2>4, <3>1
    <3> QED
      BY <2>1, <2>4, <2>5, <3>1, <3>2
  <2>6. CASE e.q = <<first, own>> /\ e.next = None
    <3>1. m = 2 /\ DOMAIN e.q = {1, 2} /\ e.q[2] = own
      BY <2>6
    <3>2. held = 1 /\ r + 2 - lead = 1
      BY <1>3, <2>4, <3>1
    <3>3. \A i \in DOMAIN e.q : i > lead => i = 2
      BY <2>4, <3>1
    <3> QED
      BY <2>1, <2>2, <2>6, <3>1, <3>2, <3>3
  <2> QED
    BY <2>1, <2>5, <2>6
<1>4. CASE DataChain(f, r, e)
  <2>1. /\ r + m <= n
        /\ \A i \in DOMAIN e.q : e.q[i] = [job |-> issued[f][r + i], prd |-> TRUE,
                                           chained |-> i < Len(e.q) \/ e.next # None]
        /\ e.next # None => r + m < n /\ e.next = issued[f][r + m + 1]
    BY <1>4 DEF DataChain
  <2>2. ASSUME NEW i \in DOMAIN e.q PROVE e.q[i].job = issued[f][r + i] /\ e.q[i].prd
    <3> DEFINE j == issued[f][r + i]
               c == i < Len(e.q) \/ e.next # None
    <3>1. e.q[i] = [job |-> j, prd |-> TRUE, chained |-> c]
      BY <2>1
    <3> HIDE DEF j, c, e
    <3>2. e.q[i].job = j /\ e.q[i].prd = TRUE
      BY <3>1
    <3> QED
      BY <3>2 DEF j
  <2>3. lead = 0
    <3>1. e.q # <<>> => Head(e.q) = e.q[1] /\ 1 \in DOMAIN e.q
      BY <1>1
    <3> QED
      BY <2>2, <3>1
  <2>4. held = r + m /\ \A i \in 1 .. m : r + i - lead = r + i
    <3> HIDE DEF m, lead
    <3> QED
      BY <1>1, <2>3
  <2> HIDE DEF held, lead, m, n
  <2> QED
    BY <1>1, <2>1, <2>2, <2>4
<1> QED
  BY <1>2, <1>3, <1>4 DEF EngineFits

LEMMA InOrder ==
  ASSUME StateInv
  PROVE  FlowOrder
<1> SUFFICES ASSUME NEW f \in Flow
             PROVE  /\ \E r \in 0 .. Len(issued[f]) : ReportedFirst(f, r) /\ HeldNext(f, r)
                    /\ \A i \in DOMAIN input : input[i].flow = f =>
                          issued[f] # <<>> /\ input[i].job = Head(issued[f])
  BY DEF FlowOrder
<1>1. PICK r \in 0 .. Len(issued[f]) : RdsInOrder(f, r) /\ EngineFits(f, r)
  BY DEF StateInv, FlowInv, ChainAt
<1>2. ReportedFirst(f, r) /\ HeldNext(f, r)
  BY <1>1, RdsReportedFirst, EngineHoldsNext
<1>3. ASSUME NEW i \in DOMAIN input, input[i].flow = f
      PROVE  issued[f] # <<>> /\ input[i].job = Head(issued[f])
  <2>1. issued[f] # <<>> /\ input[i].job = issued[f][1] /\ issued[f] \in Seq(Job)
    BY <1>3, Types DEF StateInv, PendingListExact, FlowInv, FdFits
  <2> QED
    BY <2>1
<1> QED
  BY <1>2, <1>3

(* The jobs of a flow are scanned and reported in the order in which they  *)
(* were started: the results in the output ring are those of its oldest    *)
(* unread jobs, the device continues with the ones behind, and an FD in    *)
(* the input ring starts with the oldest.                                  *)
THEOREM FlowOrderAlways == ~ZeroLength => (Spec => []FlowOrder)
<1> SUFFICES ASSUME ~ZeroLength PROVE Spec => []FlowOrder
  OBVIOUS
<1>1. Spec => []StateInv
  BY StateInvariant
<1>2. StateInv => FlowOrder
  BY InOrder
<1> QED
  BY <1>1, <1>2, PTL
=============================================================================
