------------------------- MODULE RingSession_proofs -------------------------
(***************************************************************************)
(* Proofs about RingSession, for any number of rings and threads and any   *)
(* set of sessions.                                                        *)
(***************************************************************************)
EXTENDS RingSession, FiniteSetTheorems, TLAPS

StoredArea == [lo : Nat, size : Nat]
Registers == [pdf : BOOLEAN, sys : StoredArea \cup {NoArea},
              ddr : StoredArea \cup {NoArea}, memmap : BOOLEAN]

(* Where thread 0 of the master ring, and of another ring, can be. *)
MasterPc == {"init", "spawn", "attached", "barrier", "work", "join", "joinManagers",
             "joinRings", "done"}
SlavePc == {"none", "prepare", "configure", "memmap", "check", "refused", "attached",
            "barrier", "work", "join", "joinManagers", "leave", "done"}
WorkerPc == {"none", "created", "barrier", "work", "detach", "exited"}
ManagerPc == {"none", "created", "manage", "exited"}

Types ==
    /\ setup \in Setups
    /\ regs \in [Ring -> Registers]
    /\ DOMAIN seen = Ring
    /\ pc \in [Ring -> MasterPc \cup SlavePc]
    /\ pc[0] \in MasterPc /\ \A r \in Slave : pc[r] \in SlavePc
    /\ worker \in [Ring -> [Worker -> WorkerPc]]
    /\ manager \in [Ring -> [Manager -> ManagerPc]]
    /\ attached \in [Ring -> Int]
    /\ ready \in [Ring -> Nat]
    /\ stop \in [Ring -> BOOLEAN]
    /\ context \in [Ring -> BOOLEAN]
    /\ status \in [Ring -> {"none", "ok", "failed"}]

(* The other rings start after the master ring and end before it. *)
MasterAround ==
    /\ pc[0] \in {"init", "spawn"} => \A r \in Slave : pc[r] = "none"
    /\ pc[0] = "done" => \A r \in Slave : pc[r] \in {"done", "refused"}

(* How far thread 0 is. *)
Early(r) == pc[r] \in {"none", "init", "spawn", "prepare", "configure", "memmap", "check",
                       "refused", "attached"}
Working(r) == pc[r] \in {"barrier", "work", "join"}
Late(r) == pc[r] \in {"joinManagers", "joinRings", "leave", "done"}

(* The threads of a ring follow thread 0, and managers end on stop only,   *)
(* unless they could not attach; then thread 0 does not get past its work. *)
ThreadsFollow(r) ==
    /\ Early(r) => /\ \A t \in Worker : worker[r][t] = "none"
                   /\ \A m \in Manager : manager[r][m] = "none"
    /\ ~Late(r) => ~stop[r]
    /\ ~Early(r) => /\ \A t \in Worker : worker[r][t] # "none"
                    /\ \A m \in Manager : manager[r][m] # "none"
    /\ Working(r) => \A m \in Manager : manager[r][m] = "exited" => ~ConfigsAgree(r)
    /\ pc[r] = "join" => Served(r)
    /\ Late(r) => /\ \A t \in Worker : worker[r][t] = "exited"
                  /\ \A m \in Manager : manager[r][m] \in {"manage", "exited"}
    /\ Late(r) /\ Manager # {} => ConfigsAgree(r)
    /\ \A m \in Manager : manager[r][m] = "manage" => ConfigsAgree(r)
    /\ pc[r] \in {"joinRings", "leave", "done"} => \A m \in Manager : manager[r][m] = "exited"

(* threads_attached is the data-plane threads that have attached and not   *)
(* detached, less the managers that have detached.                         *)
Thread0Counts(r) ==
    pc[r] \in {"spawn", "attached", "barrier", "work", "join", "joinManagers", "joinRings", "leave"}
        \/ (r = 0 /\ pc[r] = "done")
CountedWorkers(r) == {t \in Worker : worker[r][t] \in {"barrier", "work", "detach"}}
LeftManagers(r) == {m \in Manager : manager[r][m] = "exited"}
CountExact(r) ==
    attached[r] = (IF Thread0Counts(r) THEN 1 ELSE 0) + Cardinality(CountedWorkers(r))
                  - (IF ConfigsAgree(r) THEN Cardinality(LeftManagers(r)) ELSE 0)

(* The context ring is full until thread 0 has joined the other threads;   *)
(* the first manager that detaches then takes it, or else thread 0.        *)
ContextFollows(r) ==
    /\ pc[r] \in {"spawn", "configure", "memmap", "check", "attached"} \/ Working(r) => context[r]
    /\ ~Late(r) => status[r] = "none"
    /\ Late(r) /\ pc[r] # "done" =>
         /\ context[r] <=> LeftManagers(r) = {}
         /\ status[r] = IF LeftManagers(r) = {} THEN "none" ELSE "ok"
    /\ pc[r] = "done" /\ (r = 0 => setup.managers = 0) => status[r] = "ok"

(* A ring whose registers are all written, until the device is reset. *)
SetUp(r) == pc[r] \in {"spawn", "check"} \/ InUse(r)
RegistersHold(r) ==
    /\ pc[r] \in {"configure", "memmap"} =>
         regs[r].sys = setup.sys[r] /\ regs[r].ddr = Stored(setup.ddr[r])
    /\ pc[r] = "memmap" => regs[r].pdf
    /\ SetUp(r) => regs[r] = [pdf |-> TRUE, sys |-> setup.sys[r], ddr |-> Stored(setup.ddr[r]),
                              memmap |-> setup.ddr[r] # NoArea]

(* check_mem_overlap has read the first rings of the device. *)
ReadSome(r) ==
    /\ \E k \in 0 .. NumRings : DOMAIN seen[r] = 0 .. k - 1
    /\ pc[r] # "check" => DOMAIN seen[r] = {}

(* What is read of a ring that is set up. *)
SeenWhole(r, i) ==
    /\ seen[r][i].sys = setup.sys[i]
    /\ setup.ddr[i] # NoArea => seen[r][i].ddr = Stored(setup.ddr[i])

Compatible(r, s) ==
    /\ ~Clash(setup.sys[r], setup.sys[s])
    /\ setup.ddr[r] # NoArea /\ setup.ddr[s] # NoArea =>
         ~Clash(Stored(setup.ddr[r]), Stored(setup.ddr[s]))

(* Ring r reads, or has read, the registers of ring s all written. *)
Watches(r, s) ==
    IF pc[r] = "check" THEN \A i \in DOMAIN seen[r] : i \in {r, s} => SeenWhole(r, i)
    ELSE Compatible(r, s)

(* Of two rings that are set up, the later one has seen the other whole:   *)
(* this is what makes RingsApart inductive.                                *)
OneWatches ==
    \A r, s \in Ring : r # s /\ SetUp(r) /\ SetUp(s) => Watches(r, s) \/ Watches(s, r)

RingInv(r) ==
    ThreadsFollow(r) /\ CountExact(r) /\ ContextFollows(r) /\ RegistersHold(r) /\ ReadSome(r)

SessionInv == Types /\ MasterAround /\ (\A r \in Ring : RingInv(r)) /\ OneWatches

-----------------------------------------------------------------------------
LEMMA Constants == /\ NumRings \in Nat \ {0} /\ NumThreads \in Nat \ {0}
                   /\ 0 \in Ring /\ Ring = Slave \cup {0} /\ 0 \notin Slave
                   /\ Wide \in Nat \ {0} /\ Garbage \subseteq Nat
                   /\ NoArea \notin Area
BY SessionAssumption DEF Ring, Slave

(* What a session is given. *)
LEMMA SetupParts ==
  ASSUME setup \in Setups
  PROVE  /\ setup.sys \in [Ring -> Area]
         /\ setup.ddr \in [Ring -> Area \cup {NoArea}]
         /\ setup.managers \in 0 .. 2
         /\ setup.edits \in BOOLEAN
BY SessionAssumption

LEMMA StoredType ==
  ASSUME NEW a \in Area \cup {NoArea}
  PROVE  Stored(a) \in StoredArea \cup {NoArea}
BY DEF Stored, StoredArea, Area

(* The numbers of threads that CountExact speaks of. *)
LEMMA Counts ==
  ASSUME Types, NEW r \in Ring
  PROVE  /\ IsFiniteSet(CountedWorkers(r))
         /\ Cardinality(CountedWorkers(r)) \in 0 .. NumThreads - 1
         /\ CountedWorkers(r) = {} => Cardinality(CountedWorkers(r)) = 0
         /\ IsFiniteSet(LeftManagers(r))
         /\ Cardinality(LeftManagers(r)) \in 0 .. 2
         /\ Cardinality(LeftManagers(r)) = 0 <=> LeftManagers(r) = {}
<1>1. setup.managers \in 0 .. 2 /\ NumThreads \in Nat \ {0}
  BY SetupParts, Constants DEF Types
<1>2. IsFiniteSet(Worker) /\ Cardinality(Worker) = NumThreads - 1
  BY <1>1, FS_Interval DEF Worker
<1>3. IsFiniteSet(Manager) /\ Cardinality(Manager) <= 2
  BY <1>1, FS_Interval DEF Manager
<1>4. CountedWorkers(r) \in SUBSET Worker /\ LeftManagers(r) \in SUBSET Manager
  BY DEF CountedWorkers, LeftManagers
<1>5. /\ IsFiniteSet(CountedWorkers(r)) /\ Cardinality(CountedWorkers(r)) <= NumThreads - 1
  BY <1>2, <1>4, FS_Subset
<1>6. /\ IsFiniteSet(LeftManagers(r)) /\ Cardinality(LeftManagers(r)) <= Cardinality(Manager)
  BY <1>3, <1>4, FS_Subset
<1>7. /\ Cardinality(CountedWorkers(r)) \in Nat /\ Cardinality(LeftManagers(r)) \in Nat
      /\ Cardinality(Manager) \in Nat
  BY <1>3, <1>5, <1>6, FS_CardinalityType
<1>8. Cardinality({}) = 0 /\ (Cardinality(LeftManagers(r)) = 0 <=> LeftManagers(r) = {})
  BY <1>6, FS_EmptySet
<1> QED
  BY <1>1, <1>3, <1>5, <1>6, <1>7, <1>8

(* Nothing of the ring changes. *)
Untouched(r) ==
    /\ regs'[r] = regs[r] /\ seen'[r] = seen[r] /\ pc'[r] = pc[r]
    /\ worker'[r] = worker[r] /\ manager'[r] = manager[r]
    /\ attached'[r] = attached[r] /\ stop'[r] = stop[r]
    /\ context'[r] = context[r] /\ status'[r] = status[r]

LEMMA UntouchedKeeps ==
  ASSUME setup' = setup, NEW r, RingInv(r), Untouched(r)
  PROVE  RingInv(r)'
<1> USE DEF Untouched, RingInv
<1>1. ThreadsFollow(r)'
  BY DEF ThreadsFollow, Early, Working, Late, Served, ConfigsAgree, Manager
<1>2. CountExact(r)'
  <2>1. CountedWorkers(r)' = CountedWorkers(r) /\ LeftManagers(r)' = LeftManagers(r)
    BY DEF CountedWorkers, LeftManagers, Manager
  <2> QED
    BY <2>1 DEF CountExact, Thread0Counts, ConfigsAgree
<1>3. ContextFollows(r)'
  BY DEF ContextFollows, Working, Thread0Counts, Late, LeftManagers, Manager
<1>4. RegistersHold(r)' /\ ReadSome(r)'
  BY DEF RegistersHold, ReadSome, SetUp, InUse
<1> QED
  BY <1>1, <1>2, <1>3, <1>4

(* A step of one ring's threads.  WatchKept: if the ring is set up, it has *)
(* seen whole what it had, or all the rings that are.                      *)
Local(r) == setup' = setup /\ \A q \in Ring \ {r} : Untouched(q)
WatchKept(r) ==
    \A s \in Ring \ {r} : SetUp(r)' /\ SetUp(s) =>
        \/ Watches(r, s)'
        \/ SetUp(r) /\ (Watches(r, s) => Watches(r, s)')

LEMMA LocalKeeps ==
  ASSUME SessionInv, NEW r \in Ring, Local(r), Types', MasterAround', RingInv(r)', WatchKept(r)
  PROVE  SessionInv'
<1>1. ASSUME NEW q \in Ring PROVE RingInv(q)'
  BY UntouchedKeeps DEF Local, SessionInv
<1>2. OneWatches'
  <2>1. \A q \in Ring \ {r} : SetUp(q)' = SetUp(q)
    BY DEF Local, Untouched, SetUp, InUse
  <2>2. \A p \in Ring \ {r}, q \in Ring : Watches(p, q)' = Watches(p, q)
    BY DEF Local, Untouched, Watches, SeenWhole, Compatible
  <2> HIDE DEF SetUp, Watches
  <2> SUFFICES ASSUME NEW p \in Ring, NEW q \in Ring, p # q, SetUp(p)', SetUp(q)'
               PROVE  Watches(p, q)' \/ Watches(q, p)'
    BY DEF OneWatches
  <2>3. CASE p # r /\ q # r
    BY <2>1, <2>2, <2>3 DEF SessionInv, OneWatches
  <2>4. CASE p = r
    BY <2>1, <2>2, <2>4 DEF SessionInv, OneWatches, WatchKept
  <2>5. CASE q = r
    BY <2>1, <2>2, <2>5 DEF SessionInv, OneWatches, WatchKept
  <2> QED
    BY <2>3, <2>4, <2>5
<1> QED
  BY <1>1, <1>2 DEF SessionInv

(* A step that leaves the registers alone, of a ring in use or with thread *)
(* 0 where it was.                                                         *)
LEMMA NoSetUpKeeps ==
  ASSUME SessionInv, NEW r \in Ring, Local(r), seen' = seen,
         pc'[r] = pc[r] \/ (InUse(r) /\ pc'[r] # "check")
  PROVE  WatchKept(r)
BY DEF WatchKept, Local, SetUp, InUse, Watches, SeenWhole, Compatible

LEMMA MasterKeeps ==
  ASSUME SessionInv, NEW r \in Ring, Local(r),
         \/ pc'[r] = pc[r]
         \/ r = 0 /\ pc'[0] \notin {"init", "spawn", "done"}
         \/ r # 0 /\ pc[r] \notin {"none", "done", "refused"}
  PROVE  MasterAround'
<1>1. (\A q \in Slave \ {r} : pc'[q] = pc[q]) /\ (r # 0 => pc'[0] = pc[0])
  BY Constants DEF Local, Untouched
<1> QED
  BY <1>1, Constants DEF SessionInv, MasterAround

-----------------------------------------------------------------------------
(* Setting up a ring. *)
LEMMA PrepareKeeps ==
  ASSUME SessionInv, NEW r \in Slave, PrepareRing(r)
  PROVE  SessionInv'
<1> USE DEF PrepareRing, Goto
<1>1. r \in Ring /\ r # 0 /\ pc[r] = "prepare" /\ pc'[r] = "configure" /\ Types /\ RingInv(r)
  BY Constants DEF SessionInv, Types
<1>2. setup.sys[r] \in StoredArea /\ Stored(setup.ddr[r]) \in StoredArea \cup {NoArea}
  BY <1>1, SetupParts, StoredType DEF Types, Area, StoredArea
<1>3. Types'
  <2>1. regs[r] \in Registers /\ regs \in [Ring -> Registers]
    BY <1>1 DEF Types
  <2>2. [regs[r] EXCEPT !.sys = setup.sys[r], !.ddr = Stored(setup.ddr[r])] \in Registers
    BY <1>2, <2>1 DEF Registers
  <2>3. regs' \in [Ring -> Registers]
    BY <2>1, <2>2
  <2> QED
    BY <1>1, <2>3 DEF Types, SlavePc, Manager
<1>4. Local(r)
  BY <1>1 DEF Local, Untouched, Types
<1>5. MasterAround'
  BY <1>1, <1>4, MasterKeeps
<1>6. WatchKept(r)
  BY <1>1 DEF WatchKept, SetUp, InUse
<1>7. RingInv(r)'
  <2>1. CountedWorkers(r)' = CountedWorkers(r) /\ LeftManagers(r)' = LeftManagers(r)
    BY DEF CountedWorkers, LeftManagers, Manager
  <2>2. CountExact(r)'
    BY <1>1, <2>1 DEF RingInv, CountExact, Thread0Counts, ConfigsAgree
  <2>3. ThreadsFollow(r)' /\ ContextFollows(r)' /\ ReadSome(r)'
    BY <1>1 DEF RingInv, ThreadsFollow, ContextFollows, ReadSome, Early, Working, Late,
                Thread0Counts, Served, ConfigsAgree, Manager, Types
  <2>4. RegistersHold(r)'
    BY <1>1, <1>2 DEF RegistersHold, SetUp, InUse, Types, Registers
  <2> QED
    BY <2>2, <2>3, <2>4 DEF RingInv
<1> QED
  BY <1>1, <1>3, <1>4, <1>5, <1>6, <1>7, LocalKeeps

LEMMA ConfigurePdfKeeps ==
  ASSUME SessionInv, NEW r \in Slave, ConfigurePdf(r)
  PROVE  SessionInv'
<1> USE DEF ConfigurePdf, Goto
<1>1. r \in Ring /\ r # 0 /\ pc[r] = "configure" /\ pc'[r] = "memmap" /\ Types /\ RingInv(r)
  BY Constants DEF SessionInv, Types
<1>2. Types'
  <2>1. regs[r] \in Registers /\ regs \in [Ring -> Registers]
    BY <1>1 DEF Types
  <2>2. [regs[r] EXCEPT !.pdf = TRUE] \in Registers
    BY <2>1 DEF Registers
  <2>3. regs' \in [Ring -> Registers]
    BY <2>1, <2>2
  <2> QED
    BY <1>1, <2>3 DEF Types, SlavePc, Manager
<1>3. Local(r)
  BY <1>1 DEF Local, Untouched, Types
<1>4. MasterAround'
  BY <1>1, <1>3, MasterKeeps
<1>5. WatchKept(r)
  BY <1>1 DEF WatchKept, SetUp, InUse
<1>6. RingInv(r)'
  <2>1. CountedWorkers(r)' = CountedWorkers(r) /\ LeftManagers(r)' = LeftManagers(r)
    BY DEF CountedWorkers, LeftManagers, Manager
  <2>2. CountExact(r)'
    BY <1>1, <2>1 DEF RingInv, CountExact, Thread0Counts, ConfigsAgree
  <2>3. ThreadsFollow(r)' /\ ContextFollows(r)' /\ ReadSome(r)'
    BY <1>1 DEF RingInv, ThreadsFollow, ContextFollows, ReadSome, Early, Working, Late,
                Thread0Counts, Served, ConfigsAgree, Manager
  <2>4. RegistersHold(r)'
    BY <1>1 DEF RingInv, RegistersHold, SetUp, InUse, Types, Registers
  <2> QED
    BY <2>2, <2>3, <2>4 DEF RingInv
<1> QED
  BY <1>1, <1>2, <1>3, <1>4, <1>5, <1>6, LocalKeeps

(* The registers of the ring are complete before it reads the others'. *)
LEMMA ConfigureMemmapKeeps ==
  ASSUME SessionInv, NEW r \in Slave, ConfigureMemmap(r)
  PROVE  SessionInv'
<1> USE DEF ConfigureMemmap, Goto
<1>1. r \in Ring /\ r # 0 /\ pc[r] = "memmap" /\ pc'[r] = "check" /\ Types /\ RingInv(r)
  BY Constants DEF SessionInv, Types
<1>2. Types'
  <2>1. regs[r] \in Registers /\ regs \in [Ring -> Registers]
    BY <1>1 DEF Types
  <2>2. [regs[r] EXCEPT !.memmap = (setup.ddr[r] # NoArea)] \in Registers
    BY <2>1 DEF Registers
  <2>3. regs' \in [Ring -> Registers]
    BY <2>1, <2>2
  <2> QED
    BY <1>1, <2>3 DEF Types, SlavePc, Manager
<1>3. Local(r)
  BY <1>1 DEF Local, Untouched, Types
<1>4. MasterAround'
  BY <1>1, <1>3, MasterKeeps
<1>5. WatchKept(r)
  BY <1>1 DEF WatchKept, RingInv, ReadSome, Watches
<1>6. RingInv(r)'
  <2>1. CountedWorkers(r)' = CountedWorkers(r) /\ LeftManagers(r)' = LeftManagers(r)
    BY DEF CountedWorkers, LeftManagers, Manager
  <2>2. CountExact(r)'
    BY <1>1, <2>1 DEF RingInv, CountExact, Thread0Counts, ConfigsAgree
  <2>3. ThreadsFollow(r)' /\ ContextFollows(r)' /\ ReadSome(r)'
    BY <1>1 DEF RingInv, ThreadsFollow, ContextFollows, ReadSome, Early, Working, Late,
                Thread0Counts, Served, ConfigsAgree, Manager
  <2>4. RegistersHold(r)'
    <3>1. /\ regs'[r].pdf /\ regs'[r].sys = setup.sys[r] /\ regs'[r].ddr = Stored(setup.ddr[r])
          /\ regs'[r].memmap = (setup.ddr[r] # NoArea)
      BY <1>1 DEF RingInv, RegistersHold, Types, Registers
    <3>2. regs'[r] \in Registers
      BY <1>1, <1>2 DEF Types
    <3> QED
      BY <1>1, <3>1, <3>2 DEF RegistersHold, Registers
  <2> QED
    BY <2>2, <2>3, <2>4 DEF RingInv
<1> QED
  BY <1>1, <1>2, <1>3, <1>4, <1>5, <1>6, LocalKeeps

(* The number of rings that check_mem_overlap has read. *)
LEMMA NextToReadCounts ==
  ASSUME NEW r, ReadSome(r)
  PROVE  NextToRead(r) \in 0 .. NumRings /\ DOMAIN seen[r] = 0 .. NextToRead(r) - 1
<1>1. PICK k \in 0 .. NumRings : DOMAIN seen[r] = 0 .. k - 1
  BY DEF ReadSome
<1>2. Cardinality(0 .. k - 1) = k
  BY Constants, FS_Interval
<1> QED
  BY <1>1, <1>2 DEF NextToRead

LEMMA ReadKeeps ==
  ASSUME SessionInv, NEW r \in Slave, ReadRing(r)
  PROVE  SessionInv'
<1> DEFINE i == NextToRead(r)
<1>1. r \in Ring /\ r # 0 /\ pc[r] = "check" /\ pc' = pc /\ Types /\ RingInv(r) /\ i < NumRings
  BY Constants DEF SessionInv, Types, ReadRing
<1>2. i \in Ring /\ DOMAIN seen[r] = 0 .. i - 1
  BY <1>1, NextToReadCounts, Constants DEF RingInv, Ring
<1> HIDE DEF i
<1>3. PICK d \in (IF regs[i].pdf THEN DdrRead(i) ELSE {NoArea}) :
        seen' = [seen EXCEPT ![r] = [j \in 0 .. i |->
                    IF j < i THEN seen[r][j]
                    ELSE [sys |-> IF regs[i].pdf THEN regs[i].sys ELSE NoArea, ddr |-> d]]]
  BY DEF ReadRing, i
<1>4. UNCHANGED <<setup, regs, pc, worker, manager, attached, ready, stop, context, status>>
  BY DEF ReadRing
<1>5. DOMAIN seen' = Ring /\ DOMAIN seen'[r] = 0 .. i /\ \A q \in Ring \ {r} : seen'[q] = seen[q]
  BY <1>1, <1>3 DEF Types
<1>6. Types' /\ Local(r)
  BY <1>1, <1>4, <1>5 DEF Types, Manager, Local, Untouched
<1>7. MasterAround'
  BY <1>1, <1>6, MasterKeeps
<1>8. RingInv(r)'
  <2>1. CountedWorkers(r)' = CountedWorkers(r) /\ LeftManagers(r)' = LeftManagers(r)
    BY <1>4 DEF CountedWorkers, LeftManagers, Manager
  <2>2. CountExact(r)'
    BY <1>1, <1>4, <2>1 DEF RingInv, CountExact, Thread0Counts, ConfigsAgree
  <2>3. ThreadsFollow(r)' /\ ContextFollows(r)' /\ RegistersHold(r)'
    BY <1>1, <1>4, <2>1 DEF RingInv, ThreadsFollow, ContextFollows, RegistersHold, Early, Working,
                Late, Thread0Counts, Served, ConfigsAgree, Manager, SetUp, InUse
  <2>4. ReadSome(r)'
    <3>1. i + 1 \in 0 .. NumRings /\ 0 .. i = 0 .. (i + 1) - 1
      BY <1>1, <1>2, Constants DEF Ring
    <3> QED
      BY <1>1, <1>5, <3>1 DEF ReadSome
  <2> QED
    BY <2>2, <2>3, <2>4 DEF RingInv
<1>9. WatchKept(r)
  <2> SUFFICES ASSUME NEW s \in Ring \ {r}, SetUp(s), Watches(r, s)
               PROVE  Watches(r, s)'
    BY <1>1 DEF WatchKept, SetUp
  <2> SUFFICES ASSUME NEW j \in 0 .. i, j \in {r, s}
               PROVE  SeenWhole(r, j)'
    BY <1>1, <1>5 DEF Watches
  <2>1. CASE j < i
    <3>1. seen'[r][j] = seen[r][j] /\ j \in DOMAIN seen[r]
      BY <1>1, <1>2, <1>3, <2>1, Constants DEF Types, Ring
    <3> QED
      BY <1>1, <1>4, <3>1 DEF Watches, SeenWhole
  <2>2. CASE j = i
    <3>1. SetUp(i) /\ RingInv(i)
      BY <1>1, <1>2, <2>2 DEF SetUp, SessionInv
    <3>2. /\ regs[i].pdf /\ regs[i].sys = setup.sys[i] /\ regs[i].ddr = Stored(setup.ddr[i])
          /\ regs[i].memmap = (setup.ddr[i] # NoArea)
      BY <3>1 DEF RingInv, RegistersHold
    <3>3. seen'[r][i] = [sys |-> regs[i].sys, ddr |-> d]
      BY <1>1, <1>2, <1>3, <3>2, Constants DEF Types, Ring
    <3>4. setup.ddr[i] # NoArea => d = regs[i].ddr
      BY <1>3, <3>2 DEF DdrRead
    <3> QED
      BY <1>4, <2>2, <3>2, <3>3, <3>4 DEF SeenWhole
  <2> QED
    BY <2>1, <2>2, <1>2 DEF Ring
<1> QED
  BY <1>1, <1>6, <1>7, <1>8, <1>9, LocalKeeps

LEMMA RefuseKeeps ==
  ASSUME SessionInv, NEW r \in Slave, Refuse(r)
  PROVE  SessionInv'
<1> USE DEF Refuse, Goto
<1>1. r \in Ring /\ r # 0 /\ pc[r] = "check" /\ pc'[r] = "refused" /\ Types /\ RingInv(r)
  BY Constants DEF SessionInv, Types
<1>2. Types'
  <2>1. regs[r] \in Registers /\ regs \in [Ring -> Registers]
    BY <1>1 DEF Types
  <2>2. [regs[r] EXCEPT !.pdf = FALSE] \in Registers
    BY <2>1 DEF Registers
  <2>3. regs' \in [Ring -> Registers]
    BY <2>1, <2>2
  <2> QED
    BY <1>1, <2>3 DEF Types, SlavePc, Manager
<1>3. Local(r)
  BY <1>1 DEF Local, Untouched, Types
<1>4. MasterAround'
  BY <1>1, <1>3, MasterKeeps
<1>5. WatchKept(r)
  BY <1>1 DEF WatchKept, SetUp, InUse
<1>6. RingInv(r)'
  <2>1. CountedWorkers(r)' = CountedWorkers(r) /\ LeftManagers(r)' = LeftManagers(r)
    BY DEF CountedWorkers, LeftManagers, Manager
  <2>2. CountExact(r)'
    BY <1>1, <2>1 DEF RingInv, CountExact, Thread0Counts, ConfigsAgree
  <2>3. ThreadsFollow(r)' /\ ContextFollows(r)' /\ RegistersHold(r)'
    BY <1>1 DEF RingInv, ThreadsFollow, ContextFollows, RegistersHold, Early, Working, Late,
                Thread0Counts, Served, ConfigsAgree, Manager, SetUp, InUse
  <2>4. ReadSome(r)'
    <3>1. seen'[r] = << >>
      BY <1>1 DEF Types
    <3>2. DOMAIN seen'[r] = {} /\ DOMAIN seen'[r] = 0 .. 0 - 1 /\ 0 \in 0 .. NumRings
      BY <3>1, Constants
    <3> QED
      BY <1>1, <3>2 DEF ReadSome
  <2> QED
    BY <2>2, <2>3, <2>4 DEF RingInv
<1> QED
  BY <1>1, <1>2, <1>3, <1>4, <1>5, <1>6, LocalKeeps

(* A ring that was found apart from the rings it has seen whole is apart   *)
(* from them.                                                              *)
LEMMA AcceptKeeps ==
  ASSUME SessionInv, NEW r \in Slave, Accept(r)
  PROVE  SessionInv'
<1> USE DEF Accept, Goto
<1>1. r \in Ring /\ r # 0 /\ pc[r] = "check" /\ pc'[r] = "attached" /\ Types /\ RingInv(r)
  BY Constants DEF SessionInv, Types
<1>2. Types'
  BY <1>1 DEF Types, SlavePc, Manager
<1>3. Local(r)
  BY <1>1 DEF Local, Untouched, Types
<1>4. MasterAround'
  BY <1>1, <1>3, MasterKeeps
<1>5. WatchKept(r)
  <2>1. DOMAIN seen[r] = Ring
    BY <1>1, NextToReadCounts DEF RingInv, Ring
  <2>2. SUFFICES ASSUME NEW s \in Ring \ {r}, Watches(r, s)
                 PROVE  Compatible(r, s)
    BY <1>1 DEF WatchKept, SetUp, Watches, Compatible
  <2>3. SeenWhole(r, r) /\ SeenWhole(r, s)
    BY <1>1, <2>1, <2>2 DEF Watches
  <2> QED
    BY <1>1, <2>3 DEF SeenWhole, Compatible, OverlapSeen
<1>6. RingInv(r)'
  <2>1. CountedWorkers(r)' = CountedWorkers(r) /\ LeftManagers(r)' = LeftManagers(r)
    BY DEF CountedWorkers, LeftManagers, Manager
  <2>2. CountExact(r)'
    <3>1. Cardinality(CountedWorkers(r)) \in Int /\ Cardinality(LeftManagers(r)) \in Int
      BY <1>1, Counts
    <3> QED
      BY <1>1, <2>1, <3>1 DEF RingInv, CountExact, Thread0Counts, ConfigsAgree, Types
  <2>3. ThreadsFollow(r)' /\ RegistersHold(r)'
    BY <1>1 DEF RingInv, ThreadsFollow, RegistersHold, Early, Working, Late,
                Served, ConfigsAgree, Manager, SetUp, InUse
  <2>4. ReadSome(r)'
    <3>1. seen'[r] = << >>
      BY <1>1 DEF Types
    <3>2. DOMAIN seen'[r] = {} /\ DOMAIN seen'[r] = 0 .. 0 - 1 /\ 0 \in 0 .. NumRings
      BY <3>1, Constants
    <3> QED
      BY <1>1, <3>2 DEF ReadSome
  <2>5. ContextFollows(r)'
    BY <1>1 DEF RingInv, ContextFollows, Working, Thread0Counts, Late
  <2> QED
    BY <2>2, <2>3, <2>4, <2>5 DEF RingInv
<1> QED
  BY <1>1, <1>2, <1>3, <1>4, <1>5, <1>6, LocalKeeps

-----------------------------------------------------------------------------
(* The threads of a ring. *)
LEMMA CreateKeeps ==
  ASSUME SessionInv, NEW r \in Ring, CreateThreads(r)
  PROVE  SessionInv'
<1> USE DEF CreateThreads, Goto
<1>1. pc[r] = "attached" /\ pc'[r] = "barrier" /\ Types /\ RingInv(r)
  BY DEF SessionInv, Types
<1>2. Types'
  <2>1. worker' \in [Ring -> [Worker -> WorkerPc]] /\ manager' \in [Ring -> [Manager -> ManagerPc]]
    BY <1>1 DEF Types, WorkerPc, ManagerPc
  <2> QED
    BY <1>1, <2>1 DEF Types, SlavePc, MasterPc, Manager
<1>3. Local(r)
  BY <1>1 DEF Local, Untouched, Types
<1>4. MasterAround' /\ WatchKept(r)
  BY <1>1, <1>3, MasterKeeps, NoSetUpKeeps DEF InUse
<1>5. /\ worker'[r] = [t \in Worker |-> "created"] /\ manager'[r] = [m \in Manager |-> "created"]
      /\ Manager' = Manager
  BY <1>1 DEF Types, Manager
<1>6. RingInv(r)'
  <2>1. /\ CountedWorkers(r)' = {} /\ CountedWorkers(r) = {}
        /\ LeftManagers(r)' = {} /\ LeftManagers(r) = {}
    BY <1>1, <1>5 DEF CountedWorkers, LeftManagers, RingInv, ThreadsFollow, Early
  <2>2. CountExact(r)'
    BY <1>1, <2>1 DEF RingInv, CountExact, Thread0Counts, ConfigsAgree
  <2>3. ThreadsFollow(r)'
    BY <1>1, <1>5 DEF RingInv, ThreadsFollow, Early, Working, Late, Served, ConfigsAgree
  <2>4. ContextFollows(r)' /\ RegistersHold(r)' /\ ReadSome(r)'
    BY <1>1 DEF RingInv, ContextFollows, Working, RegistersHold, ReadSome, Late, SetUp, InUse
  <2> QED
    BY <2>2, <2>3, <2>4 DEF RingInv
<1> QED
  BY <1>2, <1>3, <1>4, <1>6, LocalKeeps

(* A thread of a ring that does something finds thread 0 at work or, if it *)
(* is a manager told to stop, waiting for the managers.                    *)
LEMMA ThreadsAlive ==
  ASSUME Types, NEW r \in Ring, ThreadsFollow(r)
  PROVE  /\ \A t \in Worker : worker[r][t] \in {"created", "barrier", "work", "detach"} => Working(r)
         /\ \A m \in Manager : manager[r][m] = "created" => Working(r)
         /\ \A m \in Manager : manager[r][m] = "manage" /\ stop[r] => pc[r] = "joinManagers"
BY DEF Types, ThreadsFollow, Early, Working, Late, MasterPc, SlavePc

(* Thread 0 stays where it is, and so do the registers. *)
LEMMA SameSetUp ==
  ASSUME SessionInv, NEW r \in Ring, setup' = setup, regs' = regs, seen' = seen, pc' = pc
  PROVE  RegistersHold(r)' /\ ReadSome(r)'
BY DEF SessionInv, RingInv, RegistersHold, ReadSome, SetUp, InUse

LEMMA AttachWorkerKeeps ==
  ASSUME SessionInv, NEW r \in Ring, NEW t \in Worker, AttachWorker(r, t)
  PROVE  SessionInv'
<1> USE DEF AttachWorker
<1>1. Working(r) /\ Types /\ RingInv(r) /\ pc[r] # "done"
  BY ThreadsAlive DEF SessionInv, RingInv, Working
<1>2. /\ worker'[r][t] = (IF ConfigsAgree(r) THEN "barrier" ELSE "exited")
      /\ \A u \in Worker \ {t} : worker'[r][u] = worker[r][u]
      /\ worker' \in [Ring -> [Worker -> WorkerPc]]
  BY <1>1 DEF Types, WorkerPc
<1>3. Types'
  BY <1>1, <1>2 DEF Types, Manager
<1>4. Local(r)
  BY <1>1 DEF Local, Untouched, Types
<1>5. MasterAround' /\ WatchKept(r) /\ RegistersHold(r)' /\ ReadSome(r)'
  BY <1>1, <1>4, MasterKeeps, NoSetUpKeeps, SameSetUp
<1>6. LeftManagers(r)' = LeftManagers(r)
  BY DEF LeftManagers, Manager
<1>7. CountExact(r)'
  <2>1. t \notin CountedWorkers(r)
    BY DEF CountedWorkers
  <2>2. CountedWorkers(r)' = IF ConfigsAgree(r) THEN CountedWorkers(r) \cup {t} ELSE CountedWorkers(r)
    BY <1>2 DEF CountedWorkers
  <2>3. Cardinality(CountedWorkers(r)') = Cardinality(CountedWorkers(r))
                                          + (IF ConfigsAgree(r) THEN 1 ELSE 0)
    <3>1. IsFiniteSet(CountedWorkers(r)) /\ Cardinality(CountedWorkers(r)) \in Int
      BY <1>1, Counts
    <3>2. Cardinality(CountedWorkers(r) \cup {t}) = Cardinality(CountedWorkers(r)) + 1
      BY <2>1, <3>1, FS_AddElement
    <3> QED
      BY <2>2, <3>1, <3>2
  <2>4. attached'[r] = attached[r] + (IF ConfigsAgree(r) THEN 1 ELSE 0)
    BY <1>1 DEF Types
  <2>5. /\ Cardinality(CountedWorkers(r)) \in Int /\ Cardinality(LeftManagers(r)) \in Int
        /\ attached[r] \in Int /\ ConfigsAgree(r)' = ConfigsAgree(r)
        /\ Thread0Counts(r) /\ Thread0Counts(r)' /\ CountExact(r)
    BY <1>1, Counts DEF ConfigsAgree, Types, Thread0Counts, Working, RingInv
  <2> QED
    BY <1>6, <2>3, <2>4, <2>5 DEF CountExact
<1>8. ThreadsFollow(r)'
  BY <1>1, <1>2 DEF RingInv, ThreadsFollow, Early, Working, Late, Served, ConfigsAgree, Manager
<1>9. ContextFollows(r)'
  BY <1>1, <1>6 DEF RingInv, ContextFollows, Late, Working
<1> QED
  BY <1>3, <1>4, <1>5, <1>7, <1>8, <1>9, LocalKeeps DEF RingInv

LEMMA WorkerArrivesKeeps ==
  ASSUME SessionInv, NEW r \in Ring, NEW t \in Worker, WorkerArrives(r, t)
  PROVE  SessionInv'
<1> USE DEF WorkerArrives
<1>1. Working(r) /\ Types /\ RingInv(r)
  BY ThreadsAlive DEF SessionInv, RingInv
<1>2. /\ worker'[r][t] = "work"
      /\ \A u \in Worker \ {t} : worker'[r][u] = worker[r][u]
      /\ worker' \in [Ring -> [Worker -> WorkerPc]]
  BY <1>1 DEF Types, WorkerPc
<1>3. Types'
  BY <1>1, <1>2 DEF Types, Manager
<1>4. Local(r)
  BY <1>1 DEF Local, Untouched, Types
<1>5. MasterAround' /\ WatchKept(r) /\ RegistersHold(r)' /\ ReadSome(r)'
  BY <1>1, <1>4, MasterKeeps, NoSetUpKeeps, SameSetUp
<1>6. LeftManagers(r)' = LeftManagers(r) /\ CountedWorkers(r)' = CountedWorkers(r)
  BY <1>2 DEF LeftManagers, Manager, CountedWorkers
<1>7. CountExact(r)'
  BY <1>1, <1>6 DEF RingInv, CountExact, Thread0Counts, ConfigsAgree
<1>8. ThreadsFollow(r)'
  BY <1>1, <1>2 DEF RingInv, ThreadsFollow, Early, Working, Late, Served, ConfigsAgree, Manager
<1>9. ContextFollows(r)'
  BY <1>1, <1>6 DEF RingInv, ContextFollows, Late, Working
<1> QED
  BY <1>3, <1>4, <1>5, <1>7, <1>8, <1>9, LocalKeeps DEF RingInv

LEMMA WorkerWorksKeeps ==
  ASSUME SessionInv, NEW r \in Ring, NEW t \in Worker, WorkerWorks(r, t)
  PROVE  SessionInv'
<1> USE DEF WorkerWorks
<1>1. Working(r) /\ Types /\ RingInv(r)
  BY ThreadsAlive DEF SessionInv, RingInv
<1>2. /\ worker'[r][t] = "detach"
      /\ \A u \in Worker \ {t} : worker'[r][u] = worker[r][u]
      /\ worker' \in [Ring -> [Worker -> WorkerPc]]
  BY <1>1 DEF Types, WorkerPc
<1>3. Types'
  BY <1>1, <1>2 DEF Types, Manager
<1>4. Local(r)
  BY <1>1 DEF Local, Untouched, Types
<1>5. MasterAround' /\ WatchKept(r) /\ RegistersHold(r)' /\ ReadSome(r)'
  BY <1>1, <1>4, MasterKeeps, NoSetUpKeeps, SameSetUp
<1>6. LeftManagers(r)' = LeftManagers(r) /\ CountedWorkers(r)' = CountedWorkers(r)
  BY <1>2 DEF LeftManagers, Manager, CountedWorkers
<1>7. CountExact(r)'
  BY <1>1, <1>6 DEF RingInv, CountExact, Thread0Counts, ConfigsAgree
<1>8. ThreadsFollow(r)'
  BY <1>1, <1>2 DEF RingInv, ThreadsFollow, Early, Working, Late, Served, ConfigsAgree, Manager
<1>9. ContextFollows(r)'
  BY <1>1, <1>6 DEF RingInv, ContextFollows, Late, Working
<1> QED
  BY <1>3, <1>4, <1>5, <1>7, <1>8, <1>9, LocalKeeps DEF RingInv

(* A worker never leaves last: thread 0 is still counted, and no manager   *)
(* has detached.                                                           *)
LEMMA WorkerDetachesKeeps ==
  ASSUME SessionInv, NEW r \in Ring, NEW t \in Worker, WorkerDetaches(r, t)
  PROVE  SessionInv'
<1> USE DEF WorkerDetaches
<1>1. Working(r) /\ Types /\ RingInv(r)
  BY ThreadsAlive DEF SessionInv, RingInv
<1>2. /\ worker'[r][t] = "exited"
      /\ \A u \in Worker \ {t} : worker'[r][u] = worker[r][u]
      /\ worker' \in [Ring -> [Worker -> WorkerPc]]
  BY <1>1 DEF Types, WorkerPc
<1>3. LeftManagers(r)' = LeftManagers(r) /\ (ConfigsAgree(r) => LeftManagers(r) = {})
  BY <1>1 DEF LeftManagers, Manager, RingInv, ThreadsFollow
<1>4. /\ t \in CountedWorkers(r)
      /\ CountedWorkers(r)' = CountedWorkers(r) \ {t}
  BY <1>2 DEF CountedWorkers
<1>5. Cardinality(CountedWorkers(r)') = Cardinality(CountedWorkers(r)) - 1
  BY <1>1, <1>4, Counts, FS_RemoveElement
<1>6. Cardinality(CountedWorkers(r)) > 0
  <2>1. IsFiniteSet(CountedWorkers(r)) /\ Cardinality(CountedWorkers(r)) \in Nat
    BY <1>1, Counts
  <2>2. Cardinality(CountedWorkers(r)) # 0
    BY <1>4, <2>1, FS_EmptySet
  <2> QED
    BY <2>1, <2>2
<1>7. attached[r] = 1 + Cardinality(CountedWorkers(r)) /\ attached[r] \in Int
  <2>1. /\ Cardinality(CountedWorkers(r)) \in Int /\ Cardinality(LeftManagers(r)) \in Int
        /\ LeftManagers(r) = {} => Cardinality(LeftManagers(r)) = 0
        /\ attached[r] \in Int /\ Thread0Counts(r) /\ CountExact(r)
    BY <1>1, Counts DEF Types, Thread0Counts, Working, RingInv
  <2> QED
    BY <1>3, <2>1 DEF CountExact
<1>8. /\ attached' = [attached EXCEPT ![r] = attached[r] - 1]
      /\ UNCHANGED <<context, status>>
  BY <1>6, <1>7, <1>1, Counts DEF Detach
<1>9. Types' /\ attached'[r] = attached[r] - 1
  BY <1>1, <1>2, <1>8 DEF Types, Manager
<1>10. Local(r)
  BY <1>1, <1>8 DEF Local, Untouched, Types
<1>11. MasterAround' /\ WatchKept(r) /\ RegistersHold(r)' /\ ReadSome(r)'
  BY <1>1, <1>10, MasterKeeps, NoSetUpKeeps, SameSetUp
<1>12. CountExact(r)'
  <2>1. /\ Cardinality(CountedWorkers(r)) \in Int /\ Cardinality(LeftManagers(r)) \in Int
        /\ attached[r] \in Int /\ ConfigsAgree(r)' = ConfigsAgree(r)
        /\ Thread0Counts(r) /\ Thread0Counts(r)' /\ CountExact(r)
    BY <1>1, Counts DEF ConfigsAgree, Types, Thread0Counts, Working, RingInv
  <2> QED
    BY <1>3, <1>5, <1>9, <2>1 DEF CountExact
<1>13. ThreadsFollow(r)'
  BY <1>1, <1>2 DEF RingInv, ThreadsFollow, Early, Working, Late, Served, ConfigsAgree, Manager
<1>14. ContextFollows(r)'
  BY <1>1, <1>3, <1>8 DEF RingInv, ContextFollows, Late, Working
<1> QED
  BY <1>9, <1>10, <1>11, <1>12, <1>13, <1>14, LocalKeeps DEF RingInv

LEMMA AttachManagerKeeps ==
  ASSUME SessionInv, NEW r \in Ring, NEW m \in Manager, AttachManager(r, m)
  PROVE  SessionInv'
<1> USE DEF AttachManager
<1>1. Working(r) /\ Types /\ RingInv(r)
  BY ThreadsAlive DEF SessionInv, RingInv
<1>2. /\ manager'[r][m] = (IF ConfigsAgree(r) THEN "manage" ELSE "exited")
      /\ \A u \in Manager \ {m} : manager'[r][u] = manager[r][u]
      /\ manager' \in [Ring -> [Manager -> ManagerPc]]
      /\ Manager' = Manager
  BY <1>1 DEF Types, ManagerPc, Manager
<1>3. Types'
  BY <1>1, <1>2 DEF Types
<1>4. Local(r)
  BY <1>1 DEF Local, Untouched, Types
<1>5. MasterAround' /\ WatchKept(r) /\ RegistersHold(r)' /\ ReadSome(r)'
  BY <1>1, <1>4, MasterKeeps, NoSetUpKeeps, SameSetUp
<1>6. CountedWorkers(r)' = CountedWorkers(r) /\ (ConfigsAgree(r) => LeftManagers(r)' = LeftManagers(r))
  BY <1>2 DEF LeftManagers, CountedWorkers
<1>7. CountExact(r)'
  BY <1>1, <1>6 DEF RingInv, CountExact, Thread0Counts, ConfigsAgree
<1>8. ThreadsFollow(r)'
  <2>1. ~Served(r)
    BY DEF Served
  <2>2. pc[r] \in {"barrier", "work"}
    BY <1>1, <2>1 DEF RingInv, ThreadsFollow, Working
  <2> QED
    BY <1>1, <1>2, <2>2 DEF RingInv, ThreadsFollow, Early, Working, Late, ConfigsAgree
<1>9. ContextFollows(r)'
  BY <1>1 DEF RingInv, ContextFollows, Late, Working
<1> QED
  BY <1>3, <1>4, <1>5, <1>7, <1>8, <1>9, LocalKeeps DEF RingInv

(* The first manager that detaches brings the count to 0, and finds the    *)
(* context ring full; for the others the count is negative.                *)
LEMMA ManagerDetachesKeeps ==
  ASSUME SessionInv, NEW r \in Ring, NEW m \in Manager, ManagerDetaches(r, m)
  PROVE  SessionInv'
<1> USE DEF ManagerDetaches
<1>1. pc[r] = "joinManagers" /\ Types /\ RingInv(r) /\ ConfigsAgree(r)
  BY ThreadsAlive DEF SessionInv, RingInv, ThreadsFollow
<1>2. /\ manager'[r][m] = "exited"
      /\ \A u \in Manager \ {m} : manager'[r][u] = manager[r][u]
      /\ manager' \in [Ring -> [Manager -> ManagerPc]]
      /\ Manager' = Manager
  BY <1>1 DEF Types, ManagerPc, Manager
<1>3. CountedWorkers(r) = {} /\ CountedWorkers(r)' = {}
  BY <1>1 DEF CountedWorkers, RingInv, ThreadsFollow, Late
<1>4. LeftManagers(r)' = LeftManagers(r) \cup {m} /\ m \notin LeftManagers(r)
  BY <1>2 DEF LeftManagers
<1>5. Cardinality(LeftManagers(r)') = Cardinality(LeftManagers(r)) + 1
  BY <1>1, <1>4, Counts, FS_AddElement
<1>6. attached[r] = 1 - Cardinality(LeftManagers(r)) /\ attached[r] \in Int
  <2>1. /\ Cardinality(CountedWorkers(r)) = 0 /\ Cardinality(LeftManagers(r)) \in Int
        /\ attached[r] \in Int /\ Thread0Counts(r) /\ CountExact(r)
    <3>1. Cardinality(CountedWorkers(r)) = 0 /\ Cardinality(LeftManagers(r)) \in Int
      <4>1. CountedWorkers(r) = {}
        BY <1>3
      <4>2. Cardinality(LeftManagers(r)) \in Int
        BY <1>1, Counts
      <4> QED
        BY <4>1, <4>2, FS_EmptySet
    <3> QED
      BY <1>1, <3>1 DEF Types, Thread0Counts, RingInv
  <2> QED
    BY <1>1, <2>1 DEF CountExact
<1>7. /\ attached' = [attached EXCEPT ![r] = attached[r] - 1]
      /\ IF LeftManagers(r) = {} THEN CheckContextRing(r) ELSE UNCHANGED <<context, status>>
  BY <1>6, <1>1, Counts DEF Detach
<1>8. /\ context' \in [Ring -> BOOLEAN] /\ status' \in [Ring -> {"none", "ok", "failed"}]
      /\ \A q \in Ring \ {r} : context'[q] = context[q] /\ status'[q] = status[q]
      /\ ~context'[r] /\ status'[r] = "ok"
  BY <1>1, <1>7 DEF CheckContextRing, Types, RingInv, ContextFollows, Working, Late
<1>9. Types' /\ attached'[r] = attached[r] - 1
  <2>1. attached' \in [Ring -> Int] /\ attached'[r] = attached[r] - 1
    BY <1>1, <1>6, <1>7 DEF Types
  <2> QED
    BY <1>1, <1>2, <1>8, <2>1 DEF Types
<1>10. Local(r)
  BY <1>1, <1>7, <1>8 DEF Local, Untouched, Types
<1>11. MasterAround' /\ WatchKept(r) /\ RegistersHold(r)' /\ ReadSome(r)'
  BY <1>1, <1>10, MasterKeeps, NoSetUpKeeps, SameSetUp
<1>12. CountExact(r)'
  BY <1>1, <1>3, <1>5, <1>6, <1>9, Counts, FS_EmptySet DEF CountExact, Thread0Counts, ConfigsAgree
<1>13. ThreadsFollow(r)'
  BY <1>1, <1>2 DEF RingInv, ThreadsFollow, Early, Working, Late, ConfigsAgree
<1>14. ContextFollows(r)'
  BY <1>1, <1>4, <1>8 DEF ContextFollows, Working, Late
<1> QED
  BY <1>9, <1>10, <1>11, <1>12, <1>13, <1>14, LocalKeeps DEF RingInv

(* Thread 0 comes to the barrier. *)
LEMMA ArriveKeeps ==
  ASSUME SessionInv, NEW r \in Ring, Arrive(r)
  PROVE  SessionInv'
<1> USE DEF Arrive, Goto
<1>1. pc[r] = "barrier" /\ pc'[r] = "work" /\ Types /\ RingInv(r)
  BY DEF SessionInv, Types
<1>2. Types'
  BY <1>1 DEF Types, SlavePc, MasterPc, Manager
<1>3. Local(r)
  BY <1>1 DEF Local, Untouched, Types
<1>4. MasterAround' /\ WatchKept(r)
  BY <1>1, <1>3, MasterKeeps, NoSetUpKeeps DEF InUse
<1>5. RingInv(r)'
  <2>1. CountedWorkers(r)' = CountedWorkers(r) /\ LeftManagers(r)' = LeftManagers(r)
    BY DEF CountedWorkers, LeftManagers, Manager
  <2>2. CountExact(r)'
    BY <1>1, <2>1 DEF RingInv, CountExact, Thread0Counts, ConfigsAgree
  <2>3. ThreadsFollow(r)'
    BY <1>1 DEF RingInv, ThreadsFollow, Early, Working, Late, Served, ConfigsAgree, Manager
  <2>4. ContextFollows(r)' /\ RegistersHold(r)' /\ ReadSome(r)'
    BY <1>1 DEF RingInv, ContextFollows, Working, RegistersHold, ReadSome, Late, SetUp, InUse
  <2> QED
    BY <2>2, <2>3, <2>4 DEF RingInv
<1> QED
  BY <1>2, <1>3, <1>4, <1>5, LocalKeeps

(* Thread 0 has done its work, and all managers serve the ring. *)
LEMMA WorkKeeps ==
  ASSUME SessionInv, NEW r \in Ring, Work(r)
  PROVE  SessionInv'
<1> USE DEF Work, Goto
<1>1. pc[r] = "work" /\ pc'[r] = "join" /\ Types /\ RingInv(r)
  BY DEF SessionInv, Types
<1>2. Types'
  BY <1>1 DEF Types, SlavePc, MasterPc, Manager
<1>3. Local(r)
  BY <1>1 DEF Local, Untouched, Types
<1>4. MasterAround' /\ WatchKept(r)
  BY <1>1, <1>3, MasterKeeps, NoSetUpKeeps DEF InUse
<1>5. RingInv(r)'
  <2>1. CountedWorkers(r)' = CountedWorkers(r) /\ LeftManagers(r)' = LeftManagers(r)
    BY DEF CountedWorkers, LeftManagers, Manager
  <2>2. CountExact(r)'
    BY <1>1, <2>1 DEF RingInv, CountExact, Thread0Counts, ConfigsAgree
  <2>3. ThreadsFollow(r)'
    BY <1>1 DEF RingInv, ThreadsFollow, Early, Working, Late, Served, ConfigsAgree, Manager
  <2>4. ContextFollows(r)' /\ RegistersHold(r)' /\ ReadSome(r)'
    BY <1>1 DEF RingInv, ContextFollows, Working, RegistersHold, ReadSome, Late, SetUp, InUse
  <2> QED
    BY <2>2, <2>3, <2>4 DEF RingInv
<1> QED
  BY <1>2, <1>3, <1>4, <1>5, LocalKeeps

LEMMA JoinWorkersKeeps ==
  ASSUME SessionInv, NEW r \in Ring, JoinWorkers(r)
  PROVE  SessionInv'
<1> USE DEF JoinWorkers, Goto
<1>1. pc[r] = "join" /\ pc'[r] = "joinManagers" /\ stop'[r] /\ Types /\ RingInv(r) /\ Served(r)
  BY DEF SessionInv, Types, RingInv, ThreadsFollow
<1>2. Types'
  BY <1>1 DEF Types, SlavePc, MasterPc, Manager
<1>3. Local(r)
  BY <1>1 DEF Local, Untouched, Types
<1>4. MasterAround' /\ WatchKept(r)
  BY <1>1, <1>3, MasterKeeps, NoSetUpKeeps DEF InUse
<1>5. RingInv(r)'
  <2>1. /\ CountedWorkers(r)' = CountedWorkers(r)
        /\ LeftManagers(r)' = {} /\ LeftManagers(r) = {}
    BY <1>1 DEF CountedWorkers, LeftManagers, Manager, Served
  <2>2. CountExact(r)'
    BY <1>1, <2>1 DEF RingInv, CountExact, Thread0Counts, ConfigsAgree
  <2>3. ThreadsFollow(r)'
    BY <1>1 DEF RingInv, ThreadsFollow, Early, Working, Late, Served, ConfigsAgree, Manager
  <2>4. ContextFollows(r)' /\ RegistersHold(r)' /\ ReadSome(r)'
    BY <1>1, <2>1 DEF RingInv, ContextFollows, Working, RegistersHold, ReadSome, Late, SetUp, InUse
  <2> QED
    BY <2>2, <2>3, <2>4 DEF RingInv
<1> QED
  BY <1>2, <1>3, <1>4, <1>5, LocalKeeps

LEMMA JoinManagersKeeps ==
  ASSUME SessionInv, NEW r \in Ring, JoinManagers(r)
  PROVE  SessionInv'
<1> USE DEF JoinManagers, Goto
<1>1. /\ pc[r] = "joinManagers" /\ pc'[r] = (IF r = 0 THEN "joinRings" ELSE "leave")
      /\ Types /\ RingInv(r)
  BY DEF SessionInv, Types
<1>2. Types'
  BY <1>1, Constants DEF Types, SlavePc, MasterPc, Manager
<1>3. Local(r)
  BY <1>1 DEF Local, Untouched, Types
<1>4. MasterAround' /\ WatchKept(r)
  BY <1>1, <1>3, MasterKeeps, NoSetUpKeeps DEF InUse
<1>5. RingInv(r)'
  <2>1. CountedWorkers(r)' = CountedWorkers(r) /\ LeftManagers(r)' = LeftManagers(r)
    BY DEF CountedWorkers, LeftManagers, Manager
  <2>2. CountExact(r)'
    BY <1>1, <2>1 DEF RingInv, CountExact, Thread0Counts, ConfigsAgree
  <2>3. ThreadsFollow(r)'
    BY <1>1 DEF RingInv, ThreadsFollow, Early, Working, Late, Served, ConfigsAgree, Manager
  <2>4. ContextFollows(r)' /\ RegistersHold(r)' /\ ReadSome(r)'
    BY <1>1, <2>1 DEF RingInv, ContextFollows, Working, RegistersHold, ReadSome, Late, SetUp, InUse
  <2> QED
    BY <2>2, <2>3, <2>4 DEF RingInv
<1> QED
  BY <1>2, <1>3, <1>4, <1>5, LocalKeeps

(* Who is left of a ring whose threads were all joined. *)
LEMMA AllJoined ==
  ASSUME Types, NEW r \in Ring, RingInv(r), pc[r] \in {"joinRings", "leave"}
  PROVE  /\ CountedWorkers(r) = {} /\ LeftManagers(r) = Manager
         /\ Manager = {} <=> setup.managers = 0
         /\ Manager = {} \/ ConfigsAgree(r)
         /\ attached[r] = 1 - Cardinality(LeftManagers(r))
         /\ Cardinality(LeftManagers(r)) \in Nat
         /\ Cardinality(LeftManagers(r)) = 0 <=> Manager = {}
<1>1. CountedWorkers(r) = {} /\ LeftManagers(r) = Manager
  BY DEF CountedWorkers, LeftManagers, RingInv, ThreadsFollow, Late
<1>2. Manager = {} <=> setup.managers = 0
  <2>1. setup.managers \in 0 .. 2
    BY SetupParts DEF Types
  <2>2. setup.managers # 0 => 1 \in Manager
    BY <2>1 DEF Manager
  <2> QED
    BY <2>1, <2>2 DEF Manager
<1>3. Manager = {} \/ ConfigsAgree(r)
  BY DEF RingInv, ThreadsFollow, Late
<1>4. /\ Cardinality(CountedWorkers(r)) = 0 /\ Cardinality(LeftManagers(r)) \in Nat
      /\ Cardinality(LeftManagers(r)) = 0 <=> Manager = {}
  BY <1>1, Counts
<1>5. attached[r] = 1 - Cardinality(LeftManagers(r))
  BY <1>3, <1>4 DEF RingInv, CountExact, Thread0Counts
<1> QED
  BY <1>1, <1>2, <1>3, <1>4, <1>5

(* Thread 0 validates the context ring itself if there was no manager. *)
LEMMA LeaveKeeps ==
  ASSUME SessionInv, NEW r \in Ring, LeaveRing(r)
  PROVE  SessionInv'
<1> USE DEF LeaveRing, Goto
<1>1. pc[r] = "leave" /\ pc'[r] = "done" /\ Types /\ RingInv(r) /\ r # 0 /\ r \in Slave
  BY DEF SessionInv, Types, MasterPc, Slave
<1>2. attached' = [attached EXCEPT ![r] = attached[r] - 1] /\ attached[r] \in Int
  BY <1>1 DEF Detach, Types
<1>3. /\ context' \in [Ring -> BOOLEAN] /\ status' \in [Ring -> {"none", "ok", "failed"}]
      /\ \A q \in Ring \ {r} : context'[q] = context[q] /\ status'[q] = status[q]
      /\ status'[r] = "ok"
  <2>1. attached[r] - 1 = 0 <=> Manager = {}
    BY <1>1, AllJoined
  <2>2. CASE Manager = {}
    <3>1. context[r] /\ CheckContextRing(r)
      BY <1>1, <2>1, <2>2, AllJoined DEF RingInv, ContextFollows, Working, Late, Detach
    <3> QED
      BY <1>1, <3>1 DEF CheckContextRing, Types
  <2>3. CASE Manager # {}
    <3>1. status[r] = "ok" /\ UNCHANGED <<context, status>>
      BY <1>1, <2>1, <2>3, AllJoined DEF RingInv, ContextFollows, Working, Late, Detach
    <3> QED
      BY <1>1, <3>1 DEF Types
  <2> QED
    BY <2>2, <2>3
<1>4. Types' /\ attached'[r] = attached[r] - 1
  <2>1. attached' \in [Ring -> Int] /\ attached'[r] = attached[r] - 1
    BY <1>1, <1>2 DEF Types
  <2> QED
    BY <1>1, <1>3, <2>1 DEF Types, SlavePc, Manager
<1>5. Local(r)
  BY <1>1, <1>2, <1>3 DEF Local, Untouched, Types
<1>6. MasterAround' /\ WatchKept(r)
  BY <1>1, <1>5, MasterKeeps, NoSetUpKeeps DEF InUse
<1>7. RingInv(r)'
  <2>1. CountedWorkers(r)' = CountedWorkers(r) /\ LeftManagers(r)' = LeftManagers(r)
    BY DEF CountedWorkers, LeftManagers, Manager
  <2>2. CountExact(r)'
    <3>1. /\ Cardinality(CountedWorkers(r)) = 0 /\ Cardinality(LeftManagers(r)) \in Int
          /\ attached[r] = 1 - Cardinality(LeftManagers(r))
          /\ ConfigsAgree(r) \/ Cardinality(LeftManagers(r)) = 0
          /\ ~Thread0Counts(r)' /\ ConfigsAgree(r)' = ConfigsAgree(r)
      BY <1>1, AllJoined, Counts DEF Thread0Counts, ConfigsAgree
    <3> QED
      BY <1>4, <2>1, <3>1 DEF CountExact
  <2>3. ThreadsFollow(r)'
    BY <1>1 DEF RingInv, ThreadsFollow, Early, Working, Late, Served, ConfigsAgree, Manager
  <2>4. ContextFollows(r)' /\ RegistersHold(r)' /\ ReadSome(r)'
    BY <1>1, <1>3 DEF RingInv, ContextFollows, Working, RegistersHold, ReadSome, Late, SetUp, InUse
  <2> QED
    BY <2>2, <2>3, <2>4 DEF RingInv
<1> QED
  BY <1>4, <1>5, <1>6, <1>7, LocalKeeps

-----------------------------------------------------------------------------
(* The steps of main. *)
LEMMA SessionInit == Init => SessionInv
<1> SUFFICES ASSUME Init PROVE SessionInv
  OBVIOUS
<1> USE DEF Init
<1>1. Types
  <2>1. regs \in [Ring -> Registers]
    BY DEF Unset, Registers
  <2>2. pc[0] = "init" /\ (\A r \in Slave : pc[r] = "none") /\ Slave \subseteq Ring
    BY Constants DEF Slave
  <2>3. pc \in [Ring -> MasterPc \cup SlavePc]
    BY DEF MasterPc, SlavePc
  <2>4. worker \in [Ring -> [Worker -> WorkerPc]] /\ manager \in [Ring -> [Manager -> ManagerPc]]
    BY DEF WorkerPc, ManagerPc
  <2>5. /\ attached \in [Ring -> Int] /\ ready \in [Ring -> Nat]
        /\ stop \in [Ring -> BOOLEAN] /\ context \in [Ring -> BOOLEAN]
        /\ status \in [Ring -> {"none", "ok", "failed"}]
    OBVIOUS
  <2>6. setup \in Setups /\ DOMAIN seen = Ring
    OBVIOUS
  <2>7. pc[0] \in MasterPc /\ \A r \in Slave : pc[r] \in SlavePc
    BY <2>2 DEF MasterPc, SlavePc
  <2> HIDE DEF Init
  <2> QED
    BY <2>1, <2>3, <2>4, <2>5, <2>6, <2>7 DEF Types
<1>2. MasterAround
  BY Constants DEF MasterAround, Slave
<1>3. ASSUME NEW r \in Ring PROVE RingInv(r)
  <2>1. CountedWorkers(r) = {} /\ LeftManagers(r) = {}
    BY DEF CountedWorkers, LeftManagers
  <2>2. CountExact(r)
    BY <2>1, FS_EmptySet DEF CountExact, Thread0Counts
  <2>3. ThreadsFollow(r) /\ ContextFollows(r) /\ RegistersHold(r)
    BY DEF ThreadsFollow, ContextFollows, RegistersHold, Early, Working, Late, SetUp, InUse
  <2>4. DOMAIN seen[r] = {} /\ {} = 0 .. 0 - 1 /\ 0 \in 0 .. NumRings
    BY Constants
  <2> QED
    BY <2>2, <2>3, <2>4 DEF RingInv, ReadSome
<1>4. OneWatches
  BY DEF OneWatches, SetUp, InUse
<1> QED
  BY <1>1, <1>2, <1>3, <1>4 DEF SessionInv

LEMMA InitDeviceKeeps ==
  ASSUME SessionInv, InitDevice
  PROVE  SessionInv'
<1> USE DEF InitDevice, Goto
<1>1. /\ 0 \in Ring /\ pc[0] = "init" /\ pc'[0] = "spawn" /\ Types
      /\ \A q \in Slave : pc[q] = "none" /\ pc'[q] = "none"
  BY Constants DEF SessionInv, Types, MasterAround, Slave
<1>2. /\ setup.sys[0] \in StoredArea /\ Stored(setup.ddr[0]) \in StoredArea \cup {NoArea}
  BY <1>1, SetupParts, StoredType DEF Types, Area, StoredArea
<1>3. Types'
  <2>1. regs' \in [Ring -> Registers]
    BY <1>2 DEF Registers, Unset
  <2> QED
    <3>1. attached' \in [Ring -> Int] /\ context' \in [Ring -> BOOLEAN]
      BY <1>1 DEF Types
    <3>2. /\ pc' \in [Ring -> MasterPc \cup SlavePc]
          /\ pc'[0] \in MasterPc /\ \A r \in Slave : pc'[r] \in SlavePc
      BY <1>1 DEF Types, MasterPc, SlavePc
    <3> QED
      BY <1>1, <2>1, <3>1, <3>2 DEF Types, Manager
<1>4. MasterAround'
  BY <1>1 DEF MasterAround
<1>5. ASSUME NEW r \in Ring PROVE RingInv(r)'
  <2>1. CountedWorkers(r)' = CountedWorkers(r) /\ LeftManagers(r)' = LeftManagers(r)
    BY DEF CountedWorkers, LeftManagers, Manager
  <2>2. RingInv(r) /\ pc[r] \in {"init", "none"} /\ pc'[r] = (IF r = 0 THEN "spawn" ELSE "none")
    BY <1>1, Constants DEF SessionInv
  <2>3. CountExact(r)'
    <3>1. /\ Cardinality(CountedWorkers(r)) = 0 /\ Cardinality(LeftManagers(r)) = 0
      <4>1. CountedWorkers(r) = {} /\ LeftManagers(r) = {}
        BY <2>2 DEF CountedWorkers, LeftManagers, RingInv, ThreadsFollow, Early
      <4> QED
        BY <4>1, FS_EmptySet
    <3>2. attached[r] = 0
      BY <2>2, <3>1 DEF RingInv, CountExact, Thread0Counts
    <3>3. attached'[r] = (IF r = 0 THEN 1 ELSE 0)
      BY <1>1, <3>2 DEF Types
    <3> QED
      BY <2>1, <2>2, <3>1, <3>3 DEF CountExact, Thread0Counts
  <2>4. ThreadsFollow(r)'
    BY <2>2 DEF RingInv, ThreadsFollow, Early, Working, Late, Served, ConfigsAgree, Manager
  <2>5. ContextFollows(r)' /\ ReadSome(r)'
    BY <1>1, <2>2 DEF RingInv, ContextFollows, Working, ReadSome, Late, Types
  <2>6. RegistersHold(r)'
    <3>1. CASE r = 0
      <4>1. regs'[0] = [pdf |-> TRUE, sys |-> setup.sys[0], ddr |-> Stored(setup.ddr[0]),
                        memmap |-> setup.ddr[0] # NoArea]
        BY <1>1
      <4> QED
        BY <2>2, <3>1, <4>1 DEF RegistersHold
    <3>2. CASE r # 0
      BY <2>2, <3>2 DEF RegistersHold, SetUp, InUse
    <3> QED
      BY <3>1, <3>2
  <2> QED
    BY <2>3, <2>4, <2>5, <2>6 DEF RingInv
<1>6. OneWatches'
  <2>1. \A r \in Ring : SetUp(r)' => r = 0
    BY <1>1, Constants DEF SetUp, InUse
  <2> QED
    BY <2>1 DEF OneWatches
<1> QED
  BY <1>3, <1>4, <1>5, <1>6 DEF SessionInv

LEMMA SpawnKeeps ==
  ASSUME SessionInv, SpawnRings
  PROVE  SessionInv'
<1> USE DEF SpawnRings
<1>1. /\ 0 \in Ring /\ pc[0] = "spawn" /\ pc'[0] = "attached" /\ Types
      /\ \A q \in Slave : pc[q] = "none" /\ pc'[q] = "prepare"
  BY Constants DEF SessionInv, Types, MasterAround, Slave
<1>2. Types'
  BY <1>1, Constants DEF Types, MasterPc, SlavePc, Manager
<1>3. MasterAround'
  BY <1>1 DEF MasterAround
<1>4. ASSUME NEW r \in Ring PROVE RingInv(r)'
  <2>1. CountedWorkers(r)' = CountedWorkers(r) /\ LeftManagers(r)' = LeftManagers(r)
    BY DEF CountedWorkers, LeftManagers, Manager
  <2>2. /\ RingInv(r) /\ pc[r] = (IF r = 0 THEN "spawn" ELSE "none")
        /\ pc'[r] = (IF r = 0 THEN "attached" ELSE "prepare")
    BY <1>1, Constants DEF SessionInv
  <2>3. CountExact(r)'
    BY <2>1, <2>2 DEF RingInv, CountExact, Thread0Counts, ConfigsAgree
  <2>4. ThreadsFollow(r)'
    BY <2>2 DEF RingInv, ThreadsFollow, Early, Working, Late, Served, ConfigsAgree, Manager
  <2>5. ContextFollows(r)' /\ ReadSome(r)' /\ RegistersHold(r)'
    BY <2>2 DEF RingInv, ContextFollows, Working, ReadSome, Late, RegistersHold, SetUp, InUse
  <2> QED
    BY <2>3, <2>4, <2>5 DEF RingInv
<1>5. OneWatches'
  <2>1. \A r \in Ring : SetUp(r)' => r = 0
    BY <1>1, Constants DEF SetUp, InUse
  <2> QED
    BY <2>1 DEF OneWatches
<1> QED
  BY <1>2, <1>3, <1>4, <1>5 DEF SessionInv

(* nlm_device_fini finds the context ring full if there was no manager. *)
LEMMA FiniKeeps ==
  ASSUME SessionInv, FiniDevice
  PROVE  SessionInv'
<1> USE DEF FiniDevice, Goto
<1>1. /\ 0 \in Ring /\ pc[0] = "joinRings" /\ pc'[0] = "done" /\ Types
      /\ \A q \in Slave : pc[q] \in {"done", "refused"} /\ pc'[q] = pc[q]
  BY Constants DEF SessionInv, Types, Slave
<1>2. /\ \A q \in Slave : status'[q] = status[q] /\ context'[q] = context[q]
      /\ status'[0] = (IF context[0] THEN "ok" ELSE "failed")
      /\ context' \in [Ring -> BOOLEAN] /\ status' \in [Ring -> {"none", "ok", "failed"}]
  BY <1>1, Constants DEF CheckContextRing, Types
<1>3. Types'
  <2>1. regs' \in [Ring -> Registers]
    BY DEF Registers, Unset
  <2> QED
    BY <1>1, <1>2, <2>1 DEF Types, MasterPc, Manager
<1>4. MasterAround'
  BY <1>1 DEF MasterAround
<1>5. ASSUME NEW r \in Ring PROVE RingInv(r)'
  <2>1. CountedWorkers(r)' = CountedWorkers(r) /\ LeftManagers(r)' = LeftManagers(r)
    BY DEF CountedWorkers, LeftManagers, Manager
  <2>2. /\ RingInv(r) /\ pc[r] \in (IF r = 0 THEN {"joinRings"} ELSE {"done", "refused"})
        /\ pc'[r] = (IF r = 0 THEN "done" ELSE pc[r])
    BY <1>1, Constants DEF SessionInv
  <2>3. CountExact(r)'
    BY <2>1, <2>2 DEF RingInv, CountExact, Thread0Counts, ConfigsAgree
  <2>4. ThreadsFollow(r)'
    BY <2>2 DEF RingInv, ThreadsFollow, Early, Working, Late, Served, ConfigsAgree, Manager
  <2>5. ReadSome(r)' /\ RegistersHold(r)'
    BY <2>2 DEF RingInv, ReadSome, RegistersHold, SetUp, InUse
  <2>6. ContextFollows(r)'
    <3>1. CASE r = 0
      <4>1. context[0] <=> setup.managers = 0
        BY <1>1, <2>2, <3>1, AllJoined DEF RingInv, ContextFollows, Working, Late
      <4>2. setup.managers \in 0 .. 2
        BY <1>1, SetupParts DEF Types
      <4> QED
        BY <1>1, <1>2, <2>2, <3>1, <4>1, <4>2 DEF ContextFollows, Working, Late
    <3>2. CASE r # 0
      BY <1>2, <2>2, <3>2, Constants DEF RingInv, ContextFollows, Working, Late
    <3> QED
      BY <3>1, <3>2
  <2> QED
    BY <2>3, <2>4, <2>5, <2>6 DEF RingInv
<1>6. OneWatches'
  <2>1. \A r \in Ring : ~SetUp(r)'
    BY <1>1, Constants DEF SetUp, InUse
  <2> QED
    BY <2>1 DEF OneWatches
<1> QED
  BY <1>3, <1>4, <1>5, <1>6 DEF SessionInv

LEMMA StutterKeeps ==
  ASSUME SessionInv, UNCHANGED vars
  PROVE  SessionInv'
<1> USE DEF vars
<1>1. Types' /\ MasterAround'
  BY DEF SessionInv, Types, MasterAround, Manager
<1>2. \A r \in Ring : RingInv(r)'
  BY UntouchedKeeps DEF SessionInv, Untouched
<1>3. OneWatches'
  BY DEF SessionInv, OneWatches, SetUp, InUse, Watches, SeenWhole, Compatible
<1> QED
  BY <1>1, <1>2, <1>3 DEF SessionInv

LEMMA SessionNext ==
  ASSUME SessionInv, [Next]_vars
  PROVE  SessionInv'
<1>1. ASSUME Ring0Steps PROVE SessionInv'
  BY <1>1, InitDeviceKeeps, SpawnKeeps, FiniKeeps DEF Ring0Steps
<1>2. ASSUME NEW r \in Slave, SetUpRing(r) PROVE SessionInv'
  BY <1>2, PrepareKeeps, ConfigurePdfKeeps, ConfigureMemmapKeeps, ReadKeeps, RefuseKeeps,
     AcceptKeeps DEF SetUpRing
<1>3. ASSUME NEW r \in Ring, RunRing(r) PROVE SessionInv'
  BY <1>3, CreateKeeps, ArriveKeeps, WorkKeeps, JoinWorkersKeeps, JoinManagersKeeps, LeaveKeeps
  DEF RunRing
<1>4. ASSUME NEW r \in Ring, NEW t \in Worker, RunWorker(r, t) PROVE SessionInv'
  BY <1>4, AttachWorkerKeeps, WorkerArrivesKeeps, WorkerWorksKeeps, WorkerDetachesKeeps
  DEF RunWorker
<1>5. ASSUME NEW r \in Ring, NEW m \in Manager, RunManager(r, m) PROVE SessionInv'
  BY <1>5, AttachManagerKeeps, ManagerDetachesKeeps DEF RunManager
<1> QED
  BY <1>1, <1>2, <1>3, <1>4, <1>5, StutterKeeps DEF Next

(* Whatever the order in which the threads of the rings set up, attach,    *)
(* work, detach and end, they stay in step: threads_attached counts them,  *)
(* thread 0 is never ahead of those it joins, and of any two rings one has *)
(* read the registers of the other before it was accepted.                 *)
THEOREM SessionInvariant == Spec => []SessionInv
BY SessionInit, SessionNext, PTL DEF Spec

-----------------------------------------------------------------------------
LEMMA InvTypes == ASSUME SessionInv PROVE TypeOK
<1>1. Types /\ \A r \in Ring : RingInv(r)
  BY DEF SessionInv
<1>2. ASSUME NEW r \in Ring PROVE attached[r] \in -2 .. NumThreads
  <2>1. /\ Cardinality(CountedWorkers(r)) \in 0 .. NumThreads - 1
        /\ Cardinality(LeftManagers(r)) \in 0 .. 2
    BY <1>1, Counts
  <2> QED
    BY <1>1, <2>1, Constants DEF RingInv, CountExact
<1>3. ASSUME NEW r \in Ring PROVE NextToRead(r) \in 0 .. NumRings
  BY <1>1, NextToReadCounts DEF RingInv
<1>4. \A r \in Ring : regs[r].pdf \in BOOLEAN /\ regs[r].memmap \in BOOLEAN
  BY <1>1 DEF Types, Registers
<1> QED
  BY <1>1, <1>2, <1>3, <1>4 DEF Types, TypeOK, MasterPc, SlavePc, WorkerPc, ManagerPc

(* The code's test refuses all that overlaps. *)
LEMMA NoClashApart ==
  ASSUME NEW a \in Area, NEW b \in Area, ~Clash(a, b)
  PROVE  Apart(a, b) /\ Apart(b, a)
BY Constants DEF Clash, Apart, Area

LEMMA NarrowStored ==
  ASSUME NEW a \in Area, Narrow(a)
  PROVE  Stored(a) = a
BY Constants DEF Narrow, Stored, Area

LEMMA CompatibleApart ==
  ASSUME Types, NEW r \in Ring, NEW s \in Ring, Compatible(r, s)
  PROVE  /\ Apart(setup.sys[r], setup.sys[s]) /\ Apart(setup.sys[s], setup.sys[r])
         /\ Narrow(setup.ddr[r]) /\ Narrow(setup.ddr[s]) =>
              Apart(setup.ddr[r], setup.ddr[s]) /\ Apart(setup.ddr[s], setup.ddr[r])
<1>1. /\ setup.sys[r] \in Area /\ setup.sys[s] \in Area
      /\ setup.ddr[r] \in Area \cup {NoArea} /\ setup.ddr[s] \in Area \cup {NoArea}
  BY SetupParts DEF Types
<1>2. Apart(setup.sys[r], setup.sys[s]) /\ Apart(setup.sys[s], setup.sys[r])
  BY <1>1, NoClashApart DEF Compatible
<1>3. CASE setup.ddr[r] = NoArea \/ setup.ddr[s] = NoArea
  BY <1>2, <1>3 DEF Apart
<1>4. CASE setup.ddr[r] \in Area /\ setup.ddr[s] \in Area
  BY <1>2, <1>4, NarrowStored, NoClashApart, Constants DEF Compatible
<1> QED
  BY <1>1, <1>3, <1>4

(* check_mem_overlap keeps the rings that were accepted apart, however the *)
(* set-up of the rings is interleaved, for any number of rings and any     *)
(* ranges.                                                                 *)
THEOREM AcceptedRingsApart == Spec => []RingsApart
<1>1. ASSUME SessionInv PROVE RingsApart
  <2>1. Types /\ TypeOK
    BY <1>1, InvTypes DEF SessionInv
  <2>2. ASSUME NEW r \in Ring, NEW s \in Ring, InUse(r), InUse(s), r # s
        PROVE  Compatible(r, s) \/ Compatible(s, r)
    BY <1>1, <2>2 DEF SessionInv, OneWatches, SetUp, Watches, InUse
  <2> QED
    BY <2>1, <2>2, CompatibleApart DEF RingsApart
<1> QED
  BY <1>1, SessionInvariant, PTL

(* No thread of a ring has work left when its context ring is emptied, for *)
(* any number of threads.                                                  *)
THEOREM ContextTakenIdle == Spec => []ContextTakenWhenIdle
<1>1. ASSUME SessionInv PROVE ContextTakenWhenIdle
  <2>1. ASSUME NEW r \in Ring, InUse(r), ~context[r]
        PROVE  Late(r) /\ ThreadsFollow(r)
    BY <1>1, <2>1 DEF SessionInv, RingInv, ContextFollows, Working, InUse, Late
  <2> QED
    BY <2>1 DEF ContextTakenWhenIdle, ThreadsFollow, Late
<1> QED
  BY <1>1, SessionInvariant, PTL

(* The context ring of a ring is validated with success, and that of ring  *)
(* 0 not before nlm_device_fini if it had no manager.                      *)
THEOREM ValidationsExact == Spec => []ValidatedOnce
<1>1. ASSUME SessionInv PROVE ValidatedOnce
  <2>1. 0 \in Ring /\ \A r \in Ring : ContextFollows(r)
    BY <1>1, Constants DEF SessionInv, RingInv
  <2>2. setup.managers = 0 => LeftManagers(0) = {}
    BY DEF LeftManagers, Manager
  <2>3. ASSUME setup.managers = 0, pc[0] # "done" PROVE status[0] = "none"
    BY <2>1, <2>2, <2>3 DEF ContextFollows
  <2>4. ASSUME NEW r \in Ring, pc[r] = "done", r = 0 => setup.managers = 0
        PROVE  status[r] = "ok"
    BY <2>1, <2>4 DEF ContextFollows
  <2> QED
    BY <2>3, <2>4 DEF ValidatedOnce, Ring0NeverLast
<1> QED
  BY <1>1, SessionInvariant, PTL

(* Memory and device are released after the last thread has ended. *)
THEOREM ReleasedAfterThreads == Spec => []ReleasedLast
<1>1. ASSUME SessionInv PROVE ReleasedLast
  <2>1. ASSUME NEW r \in Ring, pc[r] = "done"
        PROVE  /\ \A t \in Worker : worker[r][t] = "exited"
               /\ \A m \in Manager : manager[r][m] = "exited"
    BY <1>1, <2>1 DEF SessionInv, RingInv, ThreadsFollow, Late
  <2>2. pc[0] = "done" => \A r \in Slave : ~InUse(r)
    BY <1>1 DEF SessionInv, MasterAround, InUse
  <2> QED
    BY <2>1, <2>2 DEF ReleasedLast
<1> QED
  BY <1>1, SessionInvariant, PTL
=============================================================================
