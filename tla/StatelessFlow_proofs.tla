------------------------ MODULE StatelessFlow_proofs ------------------------
(***************************************************************************)
(* Proofs about StatelessFlow, for any sets of flows and jobs, any size of *)
(* the ring and any bound of the count.                                    *)
(***************************************************************************)
EXTENDS StatelessFlow, FiniteSetTheorems, TLAPS

(* A job that was created or started has its flow.  What the device was    *)
(* told of is started and is in one place only; what nlm_start_jobs is     *)
(* about to copy, or has copied behind the device's write pointer, is not. *)
Placed ==
    /\ \A j \in Job : job[j].state \in {"created", "started"} => job[j].flow \in Flow
    /\ \A j \in Range(input) \cup scanning \cup Range(output) : job[j].state = "started"
    /\ \A j \in Range(todo) \cup Range(filled) :
          job[j].state = "created" /\ flow[job[j].flow].type = "stateless"
    /\ IsInjective(todo) /\ IsInjective(filled) /\ Range(todo) \cap Range(filled) = {}
    /\ IsInjective(input) /\ IsInjective(output)
    /\ Range(input) \cap scanning = {} /\ Range(input) \cap Range(output) = {}
    /\ scanning \cap Range(output) = {}
    /\ todo = <<>> => filled = <<>>

(* With a manager thread nothing is copied to the ring itself, and the     *)
(* software FIFO has room for what is left of a call.                      *)
RoomForTodo == managed => filled = <<>> /\ Len(input) + Len(todo) <= Room

(* job_seq_id does not wrap while a call is under way. *)
NoWrap == ~managed /\ todo # <<>> => \A f \in Flow : flow[f].count + Len(todo) <= MaxCount

(* job_seq_id is never below the number of jobs in flight.  It can be      *)
(* above: AllocFails forgets jobs that were counted.                       *)
CountCovers ==
    ~managed => \A f \in Flow : /\ IsFiniteSet(InFlight(f))
                                /\ Cardinality(InFlight(f)) <= flow[f].count

FlowInv == NoFlowFreedInUse /\ Placed /\ RoomForTodo /\ NoWrap /\ CountCovers

-----------------------------------------------------------------------------
(* Sequences of jobs. *)
LEMMA RangeAppend ==
  ASSUME NEW S, NEW s \in Seq(S), NEW e \in S
  PROVE  /\ Append(s, e) \in Seq(S) /\ Len(Append(s, e)) = Len(s) + 1
         /\ Range(Append(s, e)) = Range(s) \cup {e}
         /\ IsInjective(s) /\ e \notin Range(s) => IsInjective(Append(s, e))
<1>1. /\ Append(s, e) \in Seq(S) /\ Len(Append(s, e)) = Len(s) + 1
      /\ \A i \in 1 .. Len(s) : Append(s, e)[i] = s[i]
      /\ Append(s, e)[Len(s) + 1] = e
      /\ DOMAIN s = 1 .. Len(s) /\ DOMAIN Append(s, e) = 1 .. Len(s) + 1 /\ Len(s) \in Nat
  OBVIOUS
<1>2. Range(Append(s, e)) = Range(s) \cup {e}
  BY <1>1 DEF Range
<1>3. ASSUME IsInjective(s), e \notin Range(s) PROVE IsInjective(Append(s, e))
  BY <1>1, <1>3 DEF Range, IsInjective
<1> QED
  BY <1>1, <1>2, <1>3

LEMMA RangeTail ==
  ASSUME NEW S, NEW s \in Seq(S), s # <<>>
  PROVE  /\ Head(s) \in S /\ Tail(s) \in Seq(S) /\ Len(s) \in Nat \ {0} /\ Len(Tail(s)) = Len(s) - 1
         /\ Range(s) = {Head(s)} \cup Range(Tail(s))
         /\ IsInjective(s) => IsInjective(Tail(s)) /\ Head(s) \notin Range(Tail(s))
<1>1. /\ Head(s) \in S /\ Tail(s) \in Seq(S) /\ Len(s) \in Nat \ {0} /\ Len(Tail(s)) = Len(s) - 1
      /\ \A i \in 1 .. Len(s) - 1 : Tail(s)[i] = s[i + 1]
      /\ s[1] = Head(s)
      /\ DOMAIN s = 1 .. Len(s) /\ DOMAIN Tail(s) = 1 .. Len(s) - 1
  OBVIOUS
<1>2. \A x : x \in Range(s) <=> x = Head(s) \/ x \in Range(Tail(s))
  <2>1. \A i \in 1 .. Len(s) : i = 1 \/ (i - 1 \in 1 .. Len(s) - 1 /\ Tail(s)[i - 1] = s[i])
    BY <1>1
  <2>2. \A i \in 1 .. Len(s) - 1 : i + 1 \in 1 .. Len(s)
    BY <1>1
  <2>3. ASSUME NEW i \in DOMAIN s PROVE s[i] = Head(s) \/ s[i] \in Range(Tail(s))
    BY <1>1, <2>1, <2>3 DEF Range
  <2>4. ASSUME NEW i \in DOMAIN Tail(s) PROVE Tail(s)[i] \in Range(s)
    BY <1>1, <2>2, <2>4 DEF Range
  <2>5. Head(s) \in Range(s)
    BY <1>1 DEF Range
  <2> QED
    BY <2>3, <2>4, <2>5 DEF Range
<1>3. ASSUME IsInjective(s) PROVE IsInjective(Tail(s)) /\ Head(s) \notin Range(Tail(s))
  BY <1>1, <1>3 DEF Range, IsInjective
<1> QED
  BY <1>1, <1>2, <1>3

LEMMA RangeConcat ==
  ASSUME NEW S, NEW s \in Seq(S), NEW t \in Seq(S)
  PROVE  /\ s \o t \in Seq(S) /\ Len(s \o t) = Len(s) + Len(t)
         /\ Range(s \o t) = Range(s) \cup Range(t)
         /\ IsInjective(s) /\ IsInjective(t) /\ Range(s) \cap Range(t) = {} => IsInjective(s \o t)
<1>1. /\ s \o t \in Seq(S) /\ Len(s \o t) = Len(s) + Len(t)
      /\ \A i \in 1 .. Len(s) : (s \o t)[i] = s[i]
      /\ \A i \in 1 .. Len(t) : (s \o t)[Len(s) + i] = t[i]
      /\ DOMAIN s = 1 .. Len(s) /\ DOMAIN t = 1 .. Len(t) /\ Len(s) \in Nat /\ Len(t) \in Nat
      /\ DOMAIN (s \o t) = 1 .. Len(s) + Len(t)
  OBVIOUS
<1>2. \A i \in 1 .. Len(s) + Len(t) :
        \/ i \in 1 .. Len(s) /\ (s \o t)[i] = s[i]
        \/ i - Len(s) \in 1 .. Len(t) /\ (s \o t)[i] = t[i - Len(s)]
  BY <1>1
<1>3. \A x : x \in Range(s \o t) <=> x \in Range(s) \/ x \in Range(t)
  <2>1. \A i \in 1 .. Len(s) : i \in 1 .. Len(s) + Len(t)
    BY <1>1
  <2>2. \A i \in 1 .. Len(t) : Len(s) + i \in 1 .. Len(s) + Len(t)
    BY <1>1
  <2>3. ASSUME NEW i \in DOMAIN s PROVE s[i] \in Range(s \o t)
    BY <1>1, <2>1, <2>3 DEF Range
  <2>4. ASSUME NEW i \in DOMAIN t PROVE t[i] \in Range(s \o t)
    BY <1>1, <2>2, <2>4 DEF Range
  <2>5. ASSUME NEW i \in DOMAIN (s \o t) PROVE (s \o t)[i] \in Range(s) \cup Range(t)
    BY <1>1, <1>2, <2>5 DEF Range
  <2> QED
    BY <2>3, <2>4, <2>5 DEF Range
<1>4. ASSUME IsInjective(s), IsInjective(t), Range(s) \cap Range(t) = {}
      PROVE  IsInjective(s \o t)
  <2> SUFFICES ASSUME NEW i \in 1 .. Len(s) + Len(t), NEW k \in 1 .. Len(s) + Len(t),
                      (s \o t)[i] = (s \o t)[k]
               PROVE  i = k
    BY <1>1 DEF IsInjective
  <2>1. CASE i \in 1 .. Len(s) /\ k \in 1 .. Len(s)
    BY <1>1, <1>4, <2>1 DEF IsInjective
  <2>2. CASE i - Len(s) \in 1 .. Len(t) /\ k - Len(s) \in 1 .. Len(t)
    <3>1. PICK p \in 1 .. Len(t), q \in 1 .. Len(t) : i = Len(s) + p /\ k = Len(s) + q
      <4>1. i = Len(s) + (i - Len(s)) /\ k = Len(s) + (k - Len(s))
        BY <1>1
      <4> QED
        BY <2>2, <4>1
    <3>2. t[p] = t[q]
      BY <1>1, <3>1
    <3>3. p = q
      BY <1>1, <1>4, <3>2 DEF IsInjective
    <3> QED
      BY <3>1, <3>3
  <2>3. CASE i \in 1 .. Len(s) /\ k - Len(s) \in 1 .. Len(t)
    <3>1. s[i] \in Range(s) /\ t[k - Len(s)] \in Range(t)
      BY <1>1, <2>3 DEF Range
    <3>2. (s \o t)[i] = s[i] /\ (s \o t)[k] = t[k - Len(s)]
      BY <1>1, <1>2, <2>3
    <3> QED
      BY <1>4, <3>1, <3>2
  <2>4. CASE i - Len(s) \in 1 .. Len(t) /\ k \in 1 .. Len(s)
    <3>1. s[k] \in Range(s) /\ t[i - Len(s)] \in Range(t)
      BY <1>1, <2>4 DEF Range
    <3>2. (s \o t)[k] = s[k] /\ (s \o t)[i] = t[i - Len(s)]
      BY <1>1, <1>2, <2>4
    <3> QED
      BY <1>4, <3>1, <3>2
  <2> QED
    BY <1>2, <2>1, <2>2, <2>3, <2>4
<1> QED
  BY <1>1, <1>3, <1>4

LEMMA EmptyRange == Range(<<>>) = {} /\ IsInjective(<<>>) /\ Len(<<>>) = 0 /\ <<>> \in Seq(Job)
BY DEF Range, IsInjective

LEMMA Wrap == \A x \in Int : x % CountMod \in 0 .. CountMod - 1 /\ (x \in 0 .. CountMod - 1 => x % CountMod = x)
BY StatelessAssumption

-----------------------------------------------------------------------------
FlowType == [type : {"free", "stateless", "invalid"}, count : 0 .. CountMod - 1]
JobType == [state : {"free", "created", "started", "orphan"}, flow : Flow \cup {None}]

LEMMA Types == TypeOK => flow \in [Flow -> FlowType] /\ job \in [Job -> JobType]
BY DEF TypeOK, FlowType, JobType

LEMMA FlowInit == Init => FlowInv
<1> SUFFICES ASSUME Init PROVE FlowInv
  OBVIOUS
<1> USE EmptyRange DEF Init
<1>1. TypeOK
  BY StatelessAssumption DEF TypeOK, FreeFlow, FreeJob
<1>2. Placed
  BY DEF Placed, FreeJob
<1>3. RoomForTodo /\ NoWrap
  BY StatelessAssumption DEF RoomForTodo, NoWrap
<1>4. ASSUME NEW f PROVE InFlight(f) = {}
  BY DEF InFlight
<1>5. CountCovers
  <2>1. \A f \in Flow : flow[f].count = 0
    BY DEF FreeFlow
  <2>2. IsFiniteSet({}) /\ Cardinality({}) = 0
    BY FS_EmptySet
  <2>3. ASSUME NEW f \in Flow PROVE IsFiniteSet(InFlight(f)) /\ Cardinality(InFlight(f)) = 0
    BY <1>4, <2>2
  <2> QED
    BY <2>1, <2>3 DEF CountCovers
<1> QED
  BY <1>1, <1>2, <1>3, <1>4, <1>5 DEF FlowInv, NoFlowFreedInUse, FreedAfterJobs

(* An idle thread has copied nothing; its calls leave the queues alone. *)
LEMMA IdleEmpty ==
  ASSUME FlowInv, Idle
  PROVE  todo = <<>> /\ filled = <<>> /\ Range(todo) = {} /\ Range(filled) = {}
BY EmptyRange DEF FlowInv, Placed, Idle

LEMMA CreateKeeps ==
  ASSUME FlowInv, NEW f \in Flow, CreateFlow(f)
  PROVE  FlowInv'
<1> USE DEF CreateFlow, FlowInv
<1>1. todo = <<>> /\ filled = <<>> /\ Range(todo) = {} /\ Range(filled) = {}
  BY IdleEmpty
<1>2. TypeOK /\ TypeOK'
  BY StatelessAssumption DEF NoFlowFreedInUse, TypeOK
<1>3. flow'[f] = [type |-> "stateless", count |-> 0] /\ \A g \in Flow \ {f} : flow'[g] = flow[g]
  BY <1>2 DEF TypeOK
<1>4. Placed' /\ RoomForTodo' /\ NoWrap'
  BY <1>1 DEF Placed, RoomForTodo, NoWrap
<1>5. ASSUME NEW g PROVE InFlight(g)' = InFlight(g)
  BY DEF InFlight
<1>6. ~managed => InFlight(f) = {}
  BY DEF NoFlowFreedInUse, FreedAfterJobs
<1>7. CountCovers'
  BY <1>3, <1>5, <1>6, FS_EmptySet DEF CountCovers
<1>8. (~managed => FreedAfterJobs)'
  BY <1>3, <1>5 DEF NoFlowFreedInUse, FreedAfterJobs
<1> QED
  BY <1>2, <1>4, <1>7, <1>8 DEF NoFlowFreedInUse

(* A call that only changes jobs that are in no queue. *)
LEMMA JobsAsideKeep ==
  ASSUME FlowInv, Idle, job' \in [Job -> JobType],
         \A j \in Job : job[j].state = "started" => job'[j] = job[j],
         \A j \in Job : job'[j].state \in {"created", "started"} => job'[j].flow \in Flow,
         UNCHANGED <<managed, todo, filled, input, scanning, output>>
  PROVE  /\ Placed' /\ RoomForTodo' /\ \A f : InFlight(f)' = InFlight(f)
         /\ todo = <<>>
<1>1. TypeOK /\ Placed /\ RoomForTodo
  BY DEF FlowInv, NoFlowFreedInUse
<1>2. todo = <<>> /\ filled = <<>> /\ Range(todo) = {} /\ Range(filled) = {}
  BY IdleEmpty
<1>3. Range(input) \subseteq Job /\ scanning \subseteq Job /\ Range(output) \subseteq Job
  BY <1>1 DEF TypeOK, Range
<1>4. \A j \in Range(input) \cup scanning \cup Range(output) : job'[j] = job[j] /\ job[j].state = "started"
  BY <1>1, <1>3 DEF Placed
<1>5. Placed'
  BY <1>1, <1>2, <1>4 DEF Placed
<1>6. ASSUME NEW f PROVE InFlight(f)' = InFlight(f)
  BY <1>2, <1>4 DEF InFlight
<1> QED
  BY <1>1, <1>2, <1>5, <1>6 DEF RoomForTodo

LEMMA EnqueueKeeps ==
  ASSUME FlowInv, NEW f \in Flow, NEW j \in Job, EnqueueSearch(f, j) \/ EnqueueFails(f, j)
  PROVE  FlowInv'
<1>1. TypeOK /\ Placed /\ Idle
  BY DEF FlowInv, NoFlowFreedInUse, EnqueueSearch, EnqueueFails
<1>2. /\ \/ job' = [job EXCEPT ![j] = [state |-> "created", flow |-> f]]
         \/ job' = [job EXCEPT ![j] = [@ EXCEPT !.state = "orphan"]]
      /\ job[j].state = "free"
      /\ UNCHANGED <<managed, flow, todo, filled, input, scanning, output>>
  BY DEF EnqueueSearch, EnqueueFails
<1>3. job' \in [Job -> JobType]
  BY <1>1, <1>2, Types DEF JobType
<1>4. /\ \A i \in Job : job[i].state = "started" => job'[i] = job[i]
      /\ \A i \in Job : job'[i].state \in {"created", "started"} => job'[i].flow \in Flow
  BY <1>1, <1>2, Types DEF JobType, Placed
<1>5. Placed' /\ RoomForTodo' /\ todo = <<>> /\ \A g : InFlight(g)' = InFlight(g)
  BY <1>1, <1>2, <1>3, <1>4, JobsAsideKeep
<1>6. TypeOK' /\ NoWrap'
  BY <1>1, <1>2, <1>3, <1>5 DEF TypeOK, NoWrap, JobType
<1>7. CountCovers' /\ (~managed => FreedAfterJobs)'
  BY <1>2, <1>5 DEF FlowInv, CountCovers, NoFlowFreedInUse, FreedAfterJobs
<1> QED
  BY <1>5, <1>6, <1>7 DEF FlowInv, NoFlowFreedInUse

(* A flow is freed at once only if its count is 0: no job is in flight. *)
LEMMA DestroyKeeps ==
  ASSUME FlowInv, NEW f \in Flow, DestroyFlow(f)
  PROVE  FlowInv'
<1>1. TypeOK /\ Placed /\ Idle
  BY DEF FlowInv, NoFlowFreedInUse, DestroyFlow, Destroyed
<1>2. /\ flow' = [flow EXCEPT ![f].type = IF flow[f].count = 0 THEN "free" ELSE "invalid"]
      /\ job' = [j \in Job |-> IF job[j] = [state |-> "created", flow |-> f]
                               THEN [state |-> "orphan", flow |-> None] ELSE job[j]]
      /\ UNCHANGED <<managed, todo, filled, input, scanning, output>>
  BY DEF DestroyFlow, Destroyed
<1>3. job' \in [Job -> JobType]
  BY <1>1, <1>2, Types DEF JobType
<1>4. /\ \A i \in Job : job[i].state = "started" => job'[i] = job[i]
      /\ \A i \in Job : job'[i].state \in {"created", "started"} => job'[i].flow \in Flow
  BY <1>1, <1>2, Types DEF JobType, Placed
<1>5. Placed' /\ RoomForTodo' /\ todo = <<>> /\ \A g : InFlight(g)' = InFlight(g)
  BY <1>1, <1>2, <1>3, <1>4, JobsAsideKeep
<1>6. /\ flow' \in [Flow -> FlowType]
      /\ \A g \in Flow : flow'[g].count = flow[g].count
      /\ \A g \in Flow \ {f} : flow'[g] = flow[g]
      /\ flow'[f].type = "free" => flow[f].count = 0
  BY <1>1, <1>2, Types DEF FlowType
<1>7. TypeOK' /\ NoWrap' /\ CountCovers'
  <2>1. TypeOK'
    BY <1>1, <1>2, <1>3, <1>6 DEF TypeOK, FlowType, JobType
  <2>2. NoWrap'
    BY <1>2, <1>5 DEF NoWrap
  <2>3. CountCovers'
    BY <1>2, <1>5, <1>6 DEF FlowInv, CountCovers
  <2> QED
    BY <2>1, <2>2, <2>3
<1>8. ASSUME ~managed, flow[f].count = 0 PROVE InFlight(f) = {}
  <2>1. IsFiniteSet(InFlight(f)) /\ Cardinality(InFlight(f)) <= 0
    BY <1>8 DEF FlowInv, CountCovers
  <2>2. Cardinality(InFlight(f)) = 0
    BY <2>1, FS_CardinalityType
  <2> QED
    BY <2>1, <2>2, FS_EmptySet
<1>9. (~managed => FreedAfterJobs)'
  BY <1>2, <1>5, <1>6, <1>8 DEF FlowInv, NoFlowFreedInUse, FreedAfterJobs
<1> QED
  BY <1>5, <1>7, <1>9 DEF FlowInv, NoFlowFreedInUse

-----------------------------------------------------------------------------
(* nlm_start_jobs. *)
LEMMA StartKeeps ==
  ASSUME FlowInv, NEW batch \in Batches, StartJobs(batch)
  PROVE  FlowInv'
<1>1. TypeOK /\ Placed /\ filled = <<>> /\ Range(filled) = {}
  BY IdleEmpty DEF FlowInv, NoFlowFreedInUse, StartJobs
<1>2. batch \in Seq(Job) /\ Len(batch) \in Nat
  <2>1. PICK n \in 1 .. MaxBatch : batch \in [1 .. n -> Job]
    BY DEF Batches
  <2>2. n \in Nat
    BY StatelessAssumption
  <2> QED
    BY <2>1, <2>2
<1>3. \A j \in Range(batch) : j \in Job /\ job[j].state = "created" /\ flow[job[j].flow].type = "stateless"
  BY <1>2 DEF Range, StartJobs
<1>4. UNCHANGED <<managed, flow, job, filled, input, scanning, output>> /\ todo' = batch
  BY DEF StartJobs
<1>5. TypeOK'
  BY <1>1, <1>2, <1>4 DEF TypeOK
<1>6. Placed'
  BY <1>1, <1>3, <1>4 DEF Placed, StartJobs
<1>7. RoomForTodo' /\ NoWrap'
  <2>1. managed => Room - Len(input) >= Len(batch)
    BY DEF StartJobs
  <2>2. ~managed => \A f \in Flow : flow[f].count + Len(batch) <= MaxCount
    BY DEF StartJobs
  <2>3. Len(input) \in Nat /\ Room \in Nat
    BY <1>1, StatelessAssumption DEF TypeOK
  <2> QED
    BY <1>1, <1>2, <1>4, <2>1, <2>2, <2>3 DEF RoomForTodo, NoWrap
<1>8. \A f : InFlight(f)' = InFlight(f)
  BY <1>4 DEF InFlight
<1>9. CountCovers' /\ (~managed => FreedAfterJobs)'
  BY <1>4, <1>8 DEF FlowInv, CountCovers, NoFlowFreedInUse, FreedAfterJobs
<1> QED
  BY <1>5, <1>6, <1>7, <1>9 DEF FlowInv, NoFlowFreedInUse

LEMMA PushKeeps ==
  ASSUME FlowInv, PushFd
  PROVE  FlowInv'
<1> DEFINE h == Head(todo)
<1>1. TypeOK /\ Placed /\ managed /\ todo # <<>> /\ todo \in Seq(Job) /\ input \in Seq(Job)
  BY DEF FlowInv, NoFlowFreedInUse, PushFd, TypeOK
<1>2. /\ h \in Job /\ Tail(todo) \in Seq(Job) /\ Len(todo) \in Nat \ {0} /\ Len(Tail(todo)) = Len(todo) - 1
      /\ Range(todo) = {h} \cup Range(Tail(todo))
      /\ IsInjective(Tail(todo)) /\ h \notin Range(Tail(todo))
  BY <1>1, RangeTail DEF Placed
<1>3. /\ input' = Append(input, h) /\ todo' = Tail(todo)
      /\ job' = [job EXCEPT ![h] = [@ EXCEPT !.state = "started"]]
      /\ UNCHANGED <<managed, flow, filled, scanning, output>>
  BY DEF PushFd
<1> HIDE DEF h
<1>4. h \notin Range(input) /\ h \notin scanning /\ h \notin Range(output) /\ h \notin Range(filled)
  BY <1>1, <1>2 DEF Placed
<1>5. /\ input' \in Seq(Job) /\ Len(input') = Len(input) + 1 /\ Range(input') = Range(input) \cup {h}
      /\ IsInjective(input')
  BY <1>1, <1>2, <1>3, <1>4, RangeAppend DEF Placed
<1>6. /\ job' \in [Job -> JobType] /\ job'[h].state = "started" /\ job'[h].flow = job[h].flow
      /\ \A j \in Job \ {h} : job'[j] = job[j]
  BY <1>1, <1>2, <1>3, Types DEF JobType
<1>7. /\ Range(input) \subseteq Job /\ scanning \subseteq Job /\ Range(output) \subseteq Job
      /\ Range(filled) \subseteq Job /\ Range(Tail(todo)) \subseteq Job
  BY <1>1, <1>2 DEF TypeOK, Range
<1>8. Placed'
  <2>1. \A j \in Job : job'[j].state \in {"created", "started"} => job'[j].flow \in Flow
    BY <1>1, <1>2, <1>6 DEF Placed
  <2>2. \A j \in Range(input') \cup scanning \cup Range(output) : job'[j].state = "started"
    BY <1>1, <1>5, <1>6, <1>7 DEF Placed
  <2>3. \A j \in Range(Tail(todo)) \cup Range(filled) :
          job'[j].state = "created" /\ flow[job'[j].flow].type = "stateless"
    BY <1>1, <1>2, <1>4, <1>6, <1>7 DEF Placed
  <2>4. Tail(todo) = <<>> => filled = <<>>
    BY <1>1 DEF FlowInv, RoomForTodo
  <2> QED
    BY <1>1, <1>2, <1>3, <1>4, <1>5, <2>1, <2>2, <2>3, <2>4 DEF Placed
<1>9. /\ Len(input) \in Nat /\ Len(filled) \in Nat /\ Len(input) + Len(todo) <= Room /\ Room \in Nat
      /\ filled = <<>>
  BY <1>1, StatelessAssumption DEF TypeOK, FlowInv, RoomForTodo
<1>10. RoomForTodo' /\ NoWrap' /\ CountCovers' /\ (~managed => FreedAfterJobs)'
  BY <1>1, <1>2, <1>3, <1>5, <1>9 DEF RoomForTodo, NoWrap, CountCovers
<1>11. TypeOK'
  <2>1. filled = <<>> /\ Len(filled) = 0
    BY <1>1, EmptyRange DEF FlowInv, RoomForTodo
  <2> QED
    BY <1>1, <1>2, <1>3, <1>5, <1>6, <1>9, <2>1 DEF TypeOK, JobType
<1> QED
  BY <1>8, <1>10, <1>11 DEF FlowInv, NoFlowFreedInUse

(* The FD of a job is copied to the ring: the count of its flow goes up    *)
(* with the number of its jobs in flight.                                  *)
LEMMA AllocKeeps ==
  ASSUME FlowInv, AllocFd
  PROVE  FlowInv'
<1> DEFINE h == Head(todo)
           f == job[h].flow
           copied == Append(filled, h)
<1>1. /\ TypeOK /\ Placed /\ ~managed /\ todo # <<>> /\ todo \in Seq(Job) /\ input \in Seq(Job)
      /\ filled \in Seq(Job) /\ output \in Seq(Job)
  BY DEF FlowInv, NoFlowFreedInUse, AllocFd, TypeOK
<1>2. /\ h \in Job /\ Tail(todo) \in Seq(Job) /\ Len(todo) \in Nat \ {0} /\ Len(Tail(todo)) = Len(todo) - 1
      /\ Range(todo) = {h} \cup Range(Tail(todo))
      /\ IsInjective(Tail(todo)) /\ h \notin Range(Tail(todo))
  BY <1>1, RangeTail DEF Placed
<1>3. /\ flow' = Counted(f, 1)
      /\ todo' = Tail(todo)
      /\ UNCHANGED <<managed, scanning, output>>
      /\ Len(input) + Len(filled) < Room
  BY DEF AllocFd, RingHasRoom
<1>4. \/ /\ Len(todo) > 1 /\ filled' = copied /\ UNCHANGED <<job, input>>
      \/ /\ Len(todo) = 1 /\ filled' = <<>> /\ input' = input \o copied
         /\ job' = [j \in Job |-> IF j \in Range(copied)
                                  THEN [job[j] EXCEPT !.state = "started"] ELSE job[j]]
  BY DEF AllocFd
<1> HIDE DEF h
<1>5. f \in Flow /\ flow[f].type = "stateless" /\ flow[f].count + Len(todo) <= MaxCount
  BY <1>1, <1>2 DEF Placed, FlowInv, NoWrap
<1> HIDE DEF f
<1>6. /\ flow' \in [Flow -> FlowType] /\ \A g \in Flow \ {f} : flow'[g] = flow[g]
      /\ flow'[f].type = "stateless" /\ flow'[f].count = flow[f].count + 1
  <2>1. flow \in [Flow -> FlowType] /\ flow[f].count \in Nat /\ flow[f] \in FlowType
    BY <1>1, <1>5, Types DEF FlowType
  <2>2. (flow[f].count + 1) % CountMod = flow[f].count + 1 /\ flow[f].count + 1 \in 0 .. CountMod - 1
    <3>1. flow[f].count + 1 \in 0 .. CountMod - 1
      BY <1>2, <1>5, <2>1, StatelessAssumption
    <3> QED
      BY <2>1, <3>1, Wrap
  <2>3. [flow[f] EXCEPT !.count = flow[f].count + 1] \in FlowType
    BY <2>1, <2>2 DEF FlowType
  <2>4. flow' = [flow EXCEPT ![f] = [flow[f] EXCEPT !.count = flow[f].count + 1]]
    BY <1>3, <1>5, <2>1, <2>2 DEF Counted
  <2> QED
    BY <1>5, <2>1, <2>3, <2>4 DEF FlowType
<1>7. h \notin Range(input) /\ h \notin scanning /\ h \notin Range(output) /\ h \notin Range(filled)
  BY <1>1, <1>2 DEF Placed
<1>8. /\ Range(input) \subseteq Job /\ scanning \subseteq Job /\ Range(output) \subseteq Job
      /\ Range(filled) \subseteq Job /\ Range(Tail(todo)) \subseteq Job
  BY <1>1, <1>2 DEF TypeOK, Range
<1>9. /\ copied \in Seq(Job) /\ Len(copied) = Len(filled) + 1
      /\ Range(copied) = Range(filled) \cup {h}
      /\ IsInjective(copied)
  BY <1>1, <1>2, <1>7, RangeAppend DEF Placed
<1> HIDE DEF copied
<1>10. Range(filled) \cap (Range(input) \cup scanning \cup Range(output)) = {}
  BY <1>1 DEF Placed
<1>11. /\ input \o copied \in Seq(Job)
       /\ Len(input \o copied) = Len(input) + Len(filled) + 1
       /\ Range(input \o copied) = Range(input) \cup Range(filled) \cup {h}
       /\ IsInjective(input \o copied)
  <2>1. Range(input) \cap Range(copied) = {} /\ IsInjective(input)
    BY <1>1, <1>7, <1>9, <1>10 DEF Placed
  <2>2. Len(input) \in Nat /\ Len(filled) \in Nat
    BY <1>1
  <2>3. /\ input \o copied \in Seq(Job) /\ Len(input \o copied) = Len(input) + Len(copied)
        /\ Range(input \o copied) = Range(input) \cup Range(copied)
        /\ IsInjective(input \o copied)
    <3>1. /\ input \in Seq(Job) /\ copied \in Seq(Job)
          /\ IsInjective(input) /\ IsInjective(copied) /\ Range(input) \cap Range(copied) = {}
      BY <1>1, <1>9, <2>1
    <3> QED
      BY <3>1, RangeConcat
  <2>4. Len(input) + Len(copied) = Len(input) + Len(filled) + 1
    BY <1>9, <2>2
  <2>5. Range(input) \cup Range(copied) = Range(input) \cup Range(filled) \cup {h}
    BY <1>9
  <2> QED
    BY <2>3, <2>4, <2>5
<1>12. /\ job' \in [Job -> JobType] /\ \A j \in Job : job'[j].flow = job[j].flow
       /\ \A j \in Job : job'[j] = job[j] \/ j \in Range(filled) \cup {h}
  <2>1. job \in [Job -> JobType]
    BY <1>1, Types
  <2>2. \A j \in Job : /\ [job[j] EXCEPT !.state = "started"] \in JobType
                       /\ [job[j] EXCEPT !.state = "started"].flow = job[j].flow
    BY <2>1 DEF JobType
  <2>3. CASE job' = job
    BY <2>1, <2>3
  <2>4. CASE job' = [j \in Job |-> IF j \in Range(copied)
                                  THEN [job[j] EXCEPT !.state = "started"] ELSE job[j]]
    BY <1>9, <2>1, <2>2, <2>4
  <2> QED
    BY <1>4, <2>3, <2>4
<1>13. TypeOK'
  <2>1. /\ todo' \in Seq(Job) /\ filled' \in Seq(Job) /\ input' \in Seq(Job)
        /\ Len(input') + Len(filled') <= Room
    <3>1. Len(<<>>) = 0 /\ <<>> \in Seq(Job) /\ Len(input) \in Nat /\ Len(filled) \in Nat /\ Room \in Nat
      BY <1>1, EmptyRange, StatelessAssumption
    <3>2. CASE filled' = copied /\ input' = input
      BY <1>1, <1>2, <1>3, <1>9, <3>1, <3>2
    <3>3. CASE filled' = <<>> /\ input' = input \o copied
      BY <1>2, <1>3, <1>11, <3>1, <3>3
    <3> QED
      BY <1>4, <3>2, <3>3
  <2> QED
    BY <1>1, <1>3, <1>6, <1>12, <2>1 DEF TypeOK, FlowType, JobType
<1>14. Placed'
  <2>1. \A j \in Job : job'[j].state \in {"created", "started"} => job'[j].flow \in Flow
    <3>1. \A j \in Range(filled) \cup {h} : job[j].flow \in Flow
      BY <1>1, <1>2, <1>8 DEF Placed
    <3> QED
      BY <1>1, <1>12, <3>1 DEF Placed
  <2>2. \A j \in Range(todo) \cup Range(filled) : flow'[job[j].flow].type = "stateless"
    <3>1. \A j \in Range(todo) \cup Range(filled) : job[j].flow \in Flow /\ flow[job[j].flow].type = "stateless"
      BY <1>1, <1>2, <1>8 DEF Placed
    <3> QED
      BY <1>6, <3>1
  <2>3. CASE Len(todo) > 1 /\ filled' = copied /\ UNCHANGED <<job, input>>
    <3>1. todo' # <<>>
      <4>1. Len(todo') = Len(todo) - 1 /\ Len(todo) \in Nat /\ Len(todo) > 1
        BY <1>2, <1>3, <2>3
      <4> QED
        BY <4>1, EmptyRange
    <3>2. \A j \in Range(todo') \cup Range(filled') :
            job[j].state = "created" /\ flow'[job[j].flow].type = "stateless"
      BY <1>1, <1>2, <1>3, <1>9, <2>2, <2>3 DEF Placed
    <3>3. Range(todo') \cap Range(filled') = {}
      BY <1>1, <1>2, <1>3, <1>9, <2>3 DEF Placed
    <3> QED
      BY <1>1, <1>2, <1>3, <1>9, <2>1, <2>3, <3>1, <3>2, <3>3 DEF Placed
  <2>4. CASE /\ Len(todo) = 1 /\ filled' = <<>> /\ input' = input \o copied
             /\ job' = [j \in Job |-> IF j \in Range(copied)
                                      THEN [job[j] EXCEPT !.state = "started"] ELSE job[j]]
    <3>1. todo' = <<>> /\ Range(todo') = {} /\ Range(filled') = {}
      <4>1. todo' \in Seq(Job) /\ Len(todo') = 0
        BY <1>2, <1>3, <2>4
      <4> QED
        BY <4>1, <2>4, EmptyRange
    <3>2. \A j \in Range(filled) \cup {h} : j \in Job /\ job'[j].state = "started"
      BY <1>1, <1>2, <1>8, <1>9, <2>4, Types DEF JobType
    <3>3. \A j \in Range(input) \cup scanning \cup Range(output) : job'[j].state = "started"
      BY <1>1, <1>7, <1>8, <1>10, <1>12 DEF Placed
    <3>4. \A j \in Range(input') \cup scanning \cup Range(output) : job'[j].state = "started"
      BY <1>11, <2>4, <3>2, <3>3
    <3>5. Range(input') \cap scanning = {} /\ Range(input') \cap Range(output) = {}
      BY <1>1, <1>7, <1>10, <1>11, <2>4 DEF Placed
    <3> QED
      BY <1>1, <1>3, <1>11, <2>1, <2>4, <3>1, <3>4, <3>5, EmptyRange DEF Placed
  <2> QED
    BY <1>4, <2>3, <2>4
<1>15. RoomForTodo'
  BY <1>1, <1>3 DEF RoomForTodo
<1>16. NoWrap'
  <2> SUFFICES ASSUME NEW g \in Flow PROVE flow'[g].count + Len(todo') <= MaxCount
    BY DEF NoWrap
  <2>1. flow[g].count + Len(todo) <= MaxCount /\ flow[g].count \in Nat /\ MaxCount \in Nat
    BY <1>1, Types, StatelessAssumption DEF FlowInv, NoWrap, FlowType
  <2>2. flow'[g].count = flow[g].count \/ flow'[g].count = flow[g].count + 1
    BY <1>6
  <2> QED
    BY <1>2, <1>3, <2>1, <2>2
<1>17. \A g : InFlight(g)' = InFlight(g) \cup {j \in {h} : g = f}
  <2>1. /\ Range(filled') \cup Range(input') \cup scanning' \cup Range(output')
             = Range(filled) \cup Range(input) \cup scanning \cup Range(output) \cup {h}
    BY <1>3, <1>4, <1>9, <1>11, EmptyRange
  <2> QED
    BY <1>2, <1>8, <1>12, <2>1 DEF InFlight, f
<1>18. CountCovers'
  <2> SUFFICES ASSUME NEW g \in Flow
               PROVE  IsFiniteSet(InFlight(g)') /\ Cardinality(InFlight(g)') <= flow'[g].count
    BY DEF CountCovers
  <2>1. IsFiniteSet(InFlight(g)) /\ Cardinality(InFlight(g)) <= flow[g].count
    BY <1>1 DEF FlowInv, CountCovers
  <2>2. CASE g = f
    <3>1. InFlight(g)' = InFlight(g) \cup {h} /\ h \notin InFlight(g)
      BY <1>7, <1>17, <2>2 DEF InFlight
    <3>2. IsFiniteSet(InFlight(g) \cup {h}) /\ Cardinality(InFlight(g) \cup {h}) = Cardinality(InFlight(g)) + 1
      BY <2>1, <3>1, FS_AddElement
    <3>3. Cardinality(InFlight(g)) \in Nat /\ flow[g].count \in Nat
      BY <1>1, <2>1, FS_CardinalityType, Types DEF FlowType
    <3> QED
      BY <1>6, <2>1, <2>2, <3>1, <3>2, <3>3
  <2>3. CASE g # f
    BY <1>6, <1>17, <2>1, <2>3
  <2> QED
    BY <2>2, <2>3
<1>19. FreedAfterJobs'
  BY <1>1, <1>6, <1>17 DEF FlowInv, NoFlowFreedInUse, FreedAfterJobs
<1> QED
  BY <1>13, <1>14, <1>15, <1>16, <1>18, <1>19 DEF FlowInv, NoFlowFreedInUse

(* What was copied in vain is not in flight, but stays counted. *)
LEMMA AllocFailsKeeps ==
  ASSUME FlowInv, AllocFails
  PROVE  FlowInv'
<1> USE DEF AllocFails
<1>1. TypeOK /\ Placed /\ ~managed
  BY DEF FlowInv, NoFlowFreedInUse
<1>2. TypeOK'
  <2>1. Len(input) \in Nat /\ Len(filled) \in Nat /\ Room \in Nat
    BY <1>1, StatelessAssumption DEF TypeOK
  <2> QED
    BY <1>1, <2>1, EmptyRange DEF TypeOK
<1>3. Placed' /\ RoomForTodo' /\ NoWrap'
  BY <1>1, EmptyRange DEF Placed, RoomForTodo, NoWrap
<1>4. \A g : InFlight(g)' \subseteq InFlight(g)
  BY EmptyRange DEF InFlight
<1>5. CountCovers'
  <2> SUFFICES ASSUME NEW g \in Flow
               PROVE  IsFiniteSet(InFlight(g)') /\ Cardinality(InFlight(g)') <= flow[g].count
    BY DEF CountCovers
  <2>1. IsFiniteSet(InFlight(g)) /\ Cardinality(InFlight(g)) <= flow[g].count /\ flow[g].count \in Nat
    BY <1>1, Types DEF FlowInv, CountCovers, FlowType
  <2>2. IsFiniteSet(InFlight(g)') /\ Cardinality(InFlight(g)') <= Cardinality(InFlight(g))
    BY <1>4, <2>1, FS_Subset
  <2>3. Cardinality(InFlight(g)') \in Nat /\ Cardinality(InFlight(g)) \in Nat
    BY <2>1, <2>2, FS_CardinalityType
  <2> QED
    BY <2>1, <2>2, <2>3
<1>6. FreedAfterJobs'
  BY <1>1, <1>4 DEF FlowInv, NoFlowFreedInUse, FreedAfterJobs
<1> QED
  BY <1>2, <1>3, <1>5, <1>6 DEF FlowInv, NoFlowFreedInUse

-----------------------------------------------------------------------------
(* The last result of a destroyed flow frees it: its job was the last one  *)
(* in flight, as the count covers all of them.                             *)
LEMMA ProcessRdKeeps ==
  ASSUME FlowInv, ProcessRd
  PROVE  FlowInv'
<1> DEFINE h == Head(output)
           f == job[h].flow
           type == IF flow[f].type = "invalid" /\ (flow[f].count - 1) % CountMod = 0
                   THEN "free" ELSE flow[f].type
<1>1. TypeOK /\ Placed /\ Idle /\ output # <<>> /\ output \in Seq(Job)
  BY DEF FlowInv, NoFlowFreedInUse, ProcessRd, Read, TypeOK
<1>2. /\ h \in Job /\ Tail(output) \in Seq(Job)
      /\ Range(output) = {h} \cup Range(Tail(output))
      /\ IsInjective(Tail(output)) /\ h \notin Range(Tail(output))
  BY <1>1, RangeTail DEF Placed
<1>3. todo = <<>> /\ filled = <<>> /\ Range(todo) = {} /\ Range(filled) = {}
  BY <1>1, IdleEmpty
<1>4. f \in Flow
  BY <1>1, <1>2 DEF Placed
<1>5. /\ flow' = [Counted(f, -1) EXCEPT ![f].type =
                    IF @ = "invalid" /\ Counted(f, -1)[f].count = 0 THEN "free" ELSE @]
      /\ job' = [job EXCEPT ![h] = FreeJob] /\ output' = Tail(output)
      /\ UNCHANGED <<managed, todo, filled, input, scanning>>
  BY DEF ProcessRd, Read
<1> HIDE DEF h, f
<1>6. flow \in [Flow -> FlowType] /\ flow[f] \in FlowType /\ flow[f].count \in 0 .. CountMod - 1
  BY <1>1, <1>4, Types DEF FlowType
<1>7. (flow[f].count - 1) % CountMod \in 0 .. CountMod - 1
  <2>1. PICK m \in 0 .. CountMod - 1 : m = flow[f].count
    BY <1>6
  <2>2. CountMod \in Nat \ {0}
    BY StatelessAssumption
  <2>3. (m - 1) % CountMod \in 0 .. CountMod - 1
    BY <2>2
  <2> QED
    BY <2>1, <2>3
<1>8. flow' = [flow EXCEPT ![f] = [type |-> type, count |-> (flow[f].count - 1) % CountMod]]
  <2>1. Counted(f, -1) = [flow EXCEPT ![f] = [type |-> flow[f].type, count |-> (flow[f].count - 1) % CountMod]]
    <3>1. flow[f].count + (-1) = flow[f].count - 1
      BY <1>6
    <3>2. Counted(f, -1) = [flow EXCEPT ![f] = [flow[f] EXCEPT !.count = (flow[f].count - 1) % CountMod]]
      BY <1>4, <1>6, <3>1 DEF Counted
    <3> QED
      BY <1>6, <3>2 DEF FlowType
  <2>2. /\ Counted(f, -1)[f].type = flow[f].type
        /\ Counted(f, -1)[f].count = (flow[f].count - 1) % CountMod
    BY <1>4, <1>6, <2>1
  <2>3. flow' = [Counted(f, -1) EXCEPT ![f] = [Counted(f, -1)[f] EXCEPT !.type = type]]
    BY <1>4, <1>5, <1>6, <2>1, <2>2
  <2> HIDE DEF type
  <2>4. Counted(f, -1)[f] = [type |-> flow[f].type, count |-> (flow[f].count - 1) % CountMod]
    BY <1>4, <1>6, <2>1
  <2>5. [Counted(f, -1)[f] EXCEPT !.type = type]
          = [type |-> type, count |-> (flow[f].count - 1) % CountMod]
    BY <2>4
  <2> QED
    BY <1>4, <1>6, <2>1, <2>3, <2>5
<1> HIDE DEF type
<1>9. type \in {"free", "stateless", "invalid"}
  BY <1>6 DEF FlowType, type
<1>10. /\ flow' \in [Flow -> FlowType] /\ flow'[f].type = type
       /\ flow'[f].count = (flow[f].count - 1) % CountMod
       /\ \A g \in Flow \ {f} : flow'[g] = flow[g]
  <2>1. [type |-> type, count |-> (flow[f].count - 1) % CountMod] \in FlowType
    BY <1>7, <1>9 DEF FlowType
  <2> QED
    BY <1>4, <1>6, <1>8, <2>1
<1>11. job' \in [Job -> JobType] /\ job'[h] = FreeJob /\ \A j \in Job \ {h} : job'[j] = job[j]
  BY <1>1, <1>2, <1>5, Types DEF JobType, FreeJob
<1>12. TypeOK'
  BY <1>1, <1>2, <1>5, <1>10, <1>11 DEF TypeOK, FlowType, JobType
<1>13. /\ Range(input) \subseteq Job /\ scanning \subseteq Job /\ Range(Tail(output)) \subseteq Job
       /\ h \notin Range(input) /\ h \notin scanning
  <2>1. Range(input) \subseteq Job /\ scanning \subseteq Job /\ Range(Tail(output)) \subseteq Job
    BY <1>1, <1>2 DEF TypeOK, Range
  <2> QED
    BY <1>1, <1>2, <2>1 DEF Placed
<1>14. Placed'
  <2>1. \A j \in Job : job'[j].state \in {"created", "started"} => job'[j].flow \in Flow
    BY <1>1, <1>11 DEF Placed, FreeJob
  <2>2. \A j \in Range(input) \cup scanning \cup Range(Tail(output)) : job'[j].state = "started"
    BY <1>1, <1>2, <1>11, <1>13 DEF Placed
  <2> QED
    BY <1>1, <1>2, <1>3, <1>5, <2>1, <2>2 DEF Placed
<1>15. RoomForTodo' /\ NoWrap'
  BY <1>3, <1>5 DEF FlowInv, RoomForTodo, NoWrap
<1>16. ASSUME NEW g \in Flow PROVE InFlight(g)' = IF g = f THEN InFlight(g) \ {h} ELSE InFlight(g)
  <2>1. FreeJob.flow # g
    BY StatelessAssumption DEF FreeJob
  <2> QED
    BY <1>2, <1>3, <1>5, <1>11, <1>13, <2>1 DEF InFlight, f
<1>17. h \in InFlight(f)
  BY <1>2 DEF InFlight, f
<1>18. ASSUME ~managed
       PROVE  /\ IsFiniteSet(InFlight(f)) /\ IsFiniteSet(InFlight(f) \ {h})
              /\ Cardinality(InFlight(f) \ {h}) \in Nat
              /\ Cardinality(InFlight(f) \ {h}) <= flow'[f].count
              /\ flow'[f].count \in Nat
  <2>1. IsFiniteSet(InFlight(f)) /\ Cardinality(InFlight(f)) <= flow[f].count
    BY <1>4, <1>18 DEF FlowInv, CountCovers
  <2>2. /\ IsFiniteSet(InFlight(f) \ {h})
        /\ Cardinality(InFlight(f) \ {h}) = Cardinality(InFlight(f)) - 1
    BY <1>17, <2>1, FS_RemoveElement
  <2>3. Cardinality(InFlight(f) \ {h}) \in Nat /\ Cardinality(InFlight(f)) \in Nat
    BY <2>1, <2>2, FS_CardinalityType
  <2>4. flow[f].count - 1 \in 0 .. CountMod - 1
    BY <1>6, <2>1, <2>2, <2>3, StatelessAssumption
  <2>5. flow'[f].count = flow[f].count - 1
    BY <1>10, <2>4, Wrap
  <2> QED
    BY <1>6, <2>1, <2>2, <2>3, <2>4, <2>5
<1>19. CountCovers'
  <2> SUFFICES ASSUME ~managed, NEW g \in Flow
               PROVE  IsFiniteSet(InFlight(g)') /\ Cardinality(InFlight(g)') <= flow'[g].count
    BY <1>5 DEF CountCovers
  <2>1. CASE g = f
    BY <1>16, <1>18, <2>1
  <2>2. CASE g # f
    BY <1>10, <1>16, <2>2 DEF FlowInv, CountCovers
  <2> QED
    BY <2>1, <2>2
<1>20. (~managed => FreedAfterJobs)'
  <2> SUFFICES ASSUME ~managed, NEW g \in Flow, flow'[g].type = "free"
               PROVE  InFlight(g)' = {}
    BY <1>5 DEF FreedAfterJobs
  <2>1. FreedAfterJobs
    BY DEF FlowInv, NoFlowFreedInUse
  <2>2. CASE g # f
    BY <1>10, <1>16, <2>1, <2>2 DEF FreedAfterJobs
  <2>3. CASE g = f
    <3>1. flow[f].type # "free"
      BY <1>4, <1>17, <2>1 DEF FreedAfterJobs
    <3>2. flow'[f].count = 0
      BY <1>10, <2>3, <3>1 DEF type
    <3>3. Cardinality(InFlight(f) \ {h}) = 0 /\ IsFiniteSet(InFlight(f) \ {h})
      BY <1>18, <3>2
    <3> QED
      BY <1>16, <2>3, <3>3, FS_EmptySet
  <2> QED
    BY <2>2, <2>3
<1> QED
  BY <1>12, <1>14, <1>15, <1>19, <1>20 DEF FlowInv, NoFlowFreedInUse

-----------------------------------------------------------------------------
(* The device moves jobs from queue to queue. *)
LEMMA FetchKeeps ==
  ASSUME FlowInv, Fetch
  PROVE  FlowInv'
<1> DEFINE h == Head(input)
<1>1. TypeOK /\ Placed /\ input # <<>> /\ input \in Seq(Job)
  BY DEF FlowInv, NoFlowFreedInUse, Fetch, TypeOK
<1>2. /\ h \in Job /\ Tail(input) \in Seq(Job) /\ Len(input) \in Nat \ {0} /\ Len(Tail(input)) = Len(input) - 1
      /\ Range(input) = {h} \cup Range(Tail(input))
      /\ IsInjective(Tail(input)) /\ h \notin Range(Tail(input))
  BY <1>1, RangeTail DEF Placed
<1>3. /\ scanning' = scanning \cup {h} /\ input' = Tail(input)
      /\ UNCHANGED <<managed, flow, job, todo, filled, output>>
  BY DEF Fetch
<1> HIDE DEF h
<1>4. Placed'
  BY <1>1, <1>2, <1>3 DEF Placed
<1>5. Len(filled) \in Nat /\ Len(todo) \in Nat /\ Room \in Nat
  BY <1>1, StatelessAssumption DEF TypeOK
<1>6. TypeOK'
  BY <1>1, <1>2, <1>3, <1>5 DEF TypeOK
<1>7. RoomForTodo' /\ NoWrap'
  BY <1>2, <1>3, <1>5 DEF FlowInv, RoomForTodo, NoWrap
<1>8. \A g : InFlight(g)' = InFlight(g)
  BY <1>2, <1>3 DEF InFlight
<1>9. CountCovers' /\ (~managed => FreedAfterJobs)'
  BY <1>3, <1>8 DEF FlowInv, CountCovers, NoFlowFreedInUse, FreedAfterJobs
<1> QED
  BY <1>4, <1>6, <1>7, <1>9 DEF FlowInv, NoFlowFreedInUse

LEMMA ReportKeeps ==
  ASSUME FlowInv, NEW j \in Job, Report(j)
  PROVE  FlowInv'
<1>1. TypeOK /\ Placed /\ j \in scanning /\ output \in Seq(Job)
  BY DEF FlowInv, NoFlowFreedInUse, Report, TypeOK
<1>2. /\ Append(output, j) \in Seq(Job)
      /\ Range(Append(output, j)) = Range(output) \cup {j}
      /\ IsInjective(Append(output, j))
  BY <1>1, RangeAppend DEF Placed
<1>3. /\ scanning' = scanning \ {j} /\ output' = Append(output, j)
      /\ UNCHANGED <<managed, flow, job, todo, filled, input>>
  BY DEF Report
<1>4. Placed'
  BY <1>1, <1>2, <1>3 DEF Placed
<1>5. TypeOK'
  BY <1>1, <1>2, <1>3 DEF TypeOK
<1>6. RoomForTodo' /\ NoWrap'
  BY <1>3 DEF FlowInv, RoomForTodo, NoWrap
<1>7. \A g : InFlight(g)' = InFlight(g)
  BY <1>1, <1>2, <1>3 DEF InFlight
<1>8. CountCovers' /\ (~managed => FreedAfterJobs)'
  BY <1>3, <1>7 DEF FlowInv, CountCovers, NoFlowFreedInUse, FreedAfterJobs
<1> QED
  BY <1>4, <1>5, <1>6, <1>8 DEF FlowInv, NoFlowFreedInUse

LEMMA FlowNext ==
  ASSUME FlowInv, [Next]_vars
  PROVE  FlowInv'
<1>1. CASE UNCHANGED vars
  <2>1. \A g : InFlight(g)' = InFlight(g)
    BY <1>1 DEF vars, InFlight
  <2>2. TypeOK' /\ Placed' /\ RoomForTodo' /\ NoWrap'
    BY <1>1 DEF vars, FlowInv, NoFlowFreedInUse, TypeOK, Placed, RoomForTodo, NoWrap
  <2>3. CountCovers' /\ (~managed => FreedAfterJobs)'
    BY <1>1, <2>1 DEF vars, FlowInv, CountCovers, NoFlowFreedInUse, FreedAfterJobs
  <2> QED
    BY <2>2, <2>3 DEF FlowInv, NoFlowFreedInUse
<1>2. CASE Library
  BY <1>2, PushKeeps, AllocKeeps, AllocFailsKeeps DEF Library
<1> QED
  BY <1>1, <1>2, CreateKeeps, DestroyKeeps, EnqueueKeeps, StartKeeps, ProcessRdKeeps, FetchKeeps,
     ReportKeeps DEF Next

(* Without a manager thread a flow that was destroyed is not freed while   *)
(* one of its jobs is in flight, however many flows and jobs there are and *)
(* whichever calls have failed for want of room in the ring.               *)
THEOREM FreedOnlyWhenDone == Spec => []NoFlowFreedInUse
<1>1. FlowInv => NoFlowFreedInUse
  BY DEF FlowInv
<1> QED
  BY <1>1, FlowInit, FlowNext, PTL DEF Spec
=============================================================================
