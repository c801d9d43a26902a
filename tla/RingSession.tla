--------------------------- MODULE RingSession ---------------------------
(***************************************************************************)
(* A session with several rings of one device: the master ring is set up   *)
(* first, then one thread per further ring sets that ring up at the same   *)
(* time as the others; every ring runs data-plane threads and perhaps      *)
(* manager threads, which attach to the ring and detach from it, and the   *)
(* last thread to leave a ring has its context ring validated.             *)
(*                                                                         *)
(* The library part is physical_device_init, check_mem_overlap,            *)
(* device_attach, nlm_device_attach, nlm_device_detach, check_context_ring *)
(* and nlm_device_fini of fms_packet_api.c; the threads are those of       *)
(* ringdemo.c (main, attach_ring, dataplane_thread and the manager         *)
(* threads). All rings are PCIe rings: check_xaui_buffers returns at once. *)
(*                                                                         *)
(* check_mem_overlap reads the registers of the rings one ring at a time.  *)
(* The addresses and sizes of a ring are written before its PDF_CONFIG and *)
(* only once in a session, so the reads of one ring's registers make one   *)
(* step.                                                                   *)
(***************************************************************************)
EXTENDS Integers, FiniteSets

CONSTANTS
    NumRings,       \* ring 0 is the master ring
    NumThreads,     \* flag_nthreads: data-plane threads of a ring, thread 0 included
    Setups,         \* the sessions considered: records with the fields of Setup
    Wide,           \* 2^32: a DDR size that does not fit SCRATCH is stored as 0
    NoArea,         \* no memory of that kind
    Garbage         \* what an uninitialised address may hold

Ring == 0 .. NumRings - 1
Slave == Ring \ {0}
Worker == 1 .. NumThreads - 1           \* the threads of a ring besides thread 0

(***************************************************************************)
(* A memory range of a ring, and what a session is given: the ranges of    *)
(* every ring, the number of manager threads of a ring, and whether        *)
(* attach_ring changes the DDR part of its config after thread 0 has       *)
(* attached with it, as it does when a DDR size is asked for.              *)
(***************************************************************************)
Area == [lo : Nat \ {0}, size : Nat \ {0}]
Setup == [sys : [Ring -> Area], ddr : [Ring -> Area \cup {NoArea}],
          managers : 0 .. 2, edits : BOOLEAN]

ASSUME SessionAssumption ==
    /\ NumRings \in Nat \ {0} /\ NumThreads \in Nat \ {0}
    /\ Wide \in Nat \ {0} /\ Garbage \subseteq Nat /\ Garbage # {}
    /\ NoArea \notin Area
    /\ \A s \in Setups : s.sys \in [Ring -> Area] /\ s.ddr \in [Ring -> Area \cup {NoArea}]
                         /\ s.managers \in 0 .. 2 /\ s.edits \in BOOLEAN

VARIABLES
    setup,      \* this session's configuration
    regs,       \* the device's registers of every ring
    seen,       \* the part of them a check_mem_overlap under way has read
    pc,         \* thread 0 of every ring
    worker,     \* the other data-plane threads of every ring
    manager,    \* the manager threads of every ring
    attached,   \* threads_attached of every ring
    ready,      \* ready_to_run: the threads of every ring that came to its barrier
    stop,       \* stop_manager_thread
    context,    \* whether the context ring holds its buffers
    status      \* the result of the last context ring validation of the ring
vars == <<setup, regs, seen, pc, worker, manager, attached, ready, stop, context, status>>

Manager == 1 .. setup.managers

(***************************************************************************)
(* The registers that check_mem_overlap reads: PDF_CONFIG (set up or at    *)
(* its default), the system memory's address and size, the DDR's address   *)
(* and size, and whether PDF_MEMMAP_CONFIG selects the DDR.                *)
(***************************************************************************)
Unset == [pdf |-> FALSE, sys |-> NoArea, ddr |-> NoArea, memmap |-> FALSE]

(***************************************************************************)
(* What the SCRATCH registers make of a DDR range: a size of 2^32 and more *)
(* is stored as 0. (System memory has a 32-bit size. The address that is   *)
(* stored for it is that of the mirror pointers, which lie behind the ring *)
(* header: all rings are shifted alike, and the test compares as if the    *)
(* start had been stored.)                                                 *)
(***************************************************************************)
Stored(a) == IF a = NoArea THEN NoArea
             ELSE [lo |-> a.lo, size |-> IF a.size >= Wide THEN 0 ELSE a.size]

Init ==
    /\ setup \in Setups
    /\ regs = [r \in Ring |-> Unset]
    /\ seen = [r \in Ring |-> << >>]
    /\ pc = [r \in Ring |-> IF r = 0 THEN "init" ELSE "none"]
    /\ worker = [r \in Ring |-> [t \in Worker |-> "none"]]
    /\ manager = [r \in Ring |-> [m \in Manager |-> "none"]]
    /\ attached = [r \in Ring |-> 0]
    /\ ready = [r \in Ring |-> 0]
    /\ stop = [r \in Ring |-> FALSE]
    /\ context = [r \in Ring |-> FALSE]
    /\ status = [r \in Ring |-> "none"]

Goto(r, to) == pc' = [pc EXCEPT ![r] = to]

(***************************************************************************)
(* nlm_device_init: the master ring resets the device, sets its ring up    *)
(* and attaches thread 0; no other thread runs yet.                        *)
(***************************************************************************)
InitDevice ==
    /\ pc[0] = "init"
    /\ regs' = [r \in Ring |-> IF r # 0 THEN Unset
                               ELSE [pdf |-> TRUE, sys |-> setup.sys[0],
                                     ddr |-> Stored(setup.ddr[0]),
                                     memmap |-> setup.ddr[0] # NoArea]]
    /\ context' = [context EXCEPT ![0] = TRUE]
    /\ attached' = [attached EXCEPT ![0] = 1]
    /\ Goto(0, "spawn")
    /\ UNCHANGED <<setup, seen, worker, manager, ready, stop, status>>

(***************************************************************************)
(* main starts the threads of the other rings; ring 0 then gets its own.   *)
(***************************************************************************)
SpawnRings ==
    /\ pc[0] = "spawn"
    /\ pc' = [r \in Ring |-> IF r = 0 THEN "attached" ELSE "prepare"]
    /\ UNCHANGED <<setup, regs, seen, worker, manager, attached, ready, stop, context, status>>

(***************************************************************************)
(* physical_device_init of a slave ring, if the master ring is set up: the *)
(* addresses, the sizes and the context ring.                              *)
(***************************************************************************)
PrepareRing(r) ==
    /\ pc[r] = "prepare" /\ regs[0].pdf
    /\ regs' = [regs EXCEPT ![r].sys = setup.sys[r],
                            ![r].ddr = Stored(setup.ddr[r])]
    /\ context' = [context EXCEPT ![r] = TRUE]
    /\ Goto(r, "configure")
    /\ UNCHANGED <<setup, seen, worker, manager, attached, ready, stop, status>>

(***************************************************************************)
(* configure_device: PDF_CONFIG first, PDF_MEMMAP_CONFIG after it.         *)
(***************************************************************************)
ConfigurePdf(r) ==
    /\ pc[r] = "configure"
    /\ regs' = [regs EXCEPT ![r].pdf = TRUE]
    /\ Goto(r, "memmap")
    /\ UNCHANGED <<setup, seen, worker, manager, attached, ready, stop, context, status>>

ConfigureMemmapNot(r) ==
    /\ pc[r] = "memmap"
    /\ Goto(r, "check")
    /\ UNCHANGED <<setup, regs, seen, worker, manager, attached, ready, stop, context, status>>

ConfigureMemmap(r) ==
    /\ pc[r] = "memmap"
    /\ regs' = [regs EXCEPT ![r].memmap = setup.ddr[r] # NoArea]
    /\ Goto(r, "check")
    /\ UNCHANGED <<setup, seen, worker, manager, attached, ready, stop, context, status>>

(***************************************************************************)
(* check_mem_overlap reads the next ring. A ring that is not set up has no *)
(* memory; of one without DDR, or with PDF_MEMMAP_CONFIG yet to be         *)
(* written, ddr_lo is left unassigned: the stack's old content is taken,   *)
(* with the size that SCRATCH holds (0 if there is no DDR).                *)
(***************************************************************************)
NextToRead(r) == Cardinality(DOMAIN seen[r])
StoredSize(i) == IF regs[i].ddr = NoArea THEN 0 ELSE regs[i].ddr.size
DdrRead(i) == IF regs[i].memmap THEN {regs[i].ddr}
              ELSE {[lo |-> g, size |-> StoredSize(i)] : g \in Garbage}

ReadRing(r) ==
    LET i == NextToRead(r) IN
    /\ pc[r] = "check" /\ i < NumRings
    /\ \E d \in (IF regs[i].pdf THEN DdrRead(i) ELSE {NoArea}) :
         seen' = [seen EXCEPT ![r] = [j \in 0 .. i |->
                    IF j < i THEN seen[r][j]
                    ELSE [sys |-> IF regs[i].pdf THEN regs[i].sys ELSE NoArea,
                          ddr |-> d]]]
    /\ UNCHANGED <<setup, regs, pc, worker, manager, attached, ready, stop, context, status>>

\* The code's test of two ranges; an address of 0 stands for no memory.
Clash(a, b) ==
    /\ a # NoArea /\ b # NoArea /\ a.lo # 0 /\ b.lo # 0
    /\ ~(a.lo + a.size - 1 < b.lo \/ b.lo + b.size - 1 < a.lo)

OverlapSeen(r) ==
    \E i, j \in Ring : i # j /\ (\/ Clash(seen[r][i].sys, seen[r][j].sys)
                                 \/ Clash(seen[r][i].ddr, seen[r][j].ddr))

(***************************************************************************)
(* The end of physical_device_init: a ring that overlaps is marked unused  *)
(* again and attach_ring returns; otherwise device_attach counts thread 0. *)
(***************************************************************************)
Refuse(r) ==
    /\ pc[r] = "check" /\ NextToRead(r) = NumRings
    /\ OverlapSeen(r)
    /\ regs' = [regs EXCEPT ![r].pdf = FALSE]
    /\ seen' = [seen EXCEPT ![r] = << >>]
    /\ Goto(r, "refused")
    /\ UNCHANGED <<setup, worker, manager, attached, ready, stop, context, status>>

Accept(r) ==
    /\ pc[r] = "check" /\ NextToRead(r) = NumRings
    /\ ~OverlapSeen(r)
    /\ attached' = [attached EXCEPT ![r] = attached[r] + 1]
    /\ seen' = [seen EXCEPT ![r] = << >>]
    /\ Goto(r, "attached")
    /\ UNCHANGED <<setup, regs, worker, manager, ready, stop, context, status>>

(***************************************************************************)
(* Thread 0 creates the threads of its ring and joins in the work          *)
(* (packet_process).                                                       *)
(***************************************************************************)
CreateThreads(r) ==
    /\ pc[r] = "attached"
    /\ worker' = [worker EXCEPT ![r] = [t \in Worker |-> "created"]]
    /\ manager' = [manager EXCEPT ![r] = [m \in Manager |-> "created"]]
    /\ Goto(r, "barrier")
    /\ UNCHANGED <<setup, regs, seen, attached, ready, stop, context, status>>

(***************************************************************************)
(* nlm_device_attach of a further thread: compare_configs refuses a config *)
(* that was changed since thread 0 attached (the thread then ends);        *)
(* managers are not counted.                                               *)
(***************************************************************************)
ConfigsAgree(r) == r = 0 \/ ~setup.edits

AttachWorkerUncounted(r, t) ==
    /\ worker[r][t] = "created"
    /\ worker' = [worker EXCEPT ![r][t] = IF ConfigsAgree(r) THEN "barrier" ELSE "exited"]
    /\ UNCHANGED <<setup, regs, seen, pc, manager, attached, ready, stop, context, status>>

AttachWorker(r, t) ==
    /\ worker[r][t] = "created"
    /\ worker' = [worker EXCEPT ![r][t] = IF ConfigsAgree(r) THEN "barrier" ELSE "exited"]
    /\ attached' = [attached EXCEPT ![r] = @ + (IF ConfigsAgree(r) THEN 1 ELSE 0)]
    /\ UNCHANGED <<setup, regs, seen, pc, manager, ready, stop, context, status>>

AttachManager(r, m) ==
    /\ manager[r][m] = "created"
    /\ manager' = [manager EXCEPT ![r][m] = IF ConfigsAgree(r) THEN "manage" ELSE "exited"]
    /\ UNCHANGED <<setup, regs, seen, pc, worker, attached, ready, stop, context, status>>

(***************************************************************************)
(* The barrier of packet_process: the thread that brings ready_to_run to   *)
(* flag_nthreads sets start_work, for which the others spin. It is never   *)
(* cleared, and nobody can tell the two stores apart. A thread that was    *)
(* refused does not come.                                                  *)
(***************************************************************************)
StartWork(r) == ready[r] = NumThreads

Arrive(r) ==
    /\ pc[r] = "barrier"
    /\ ready' = [ready EXCEPT ![r] = @ + 1]
    /\ Goto(r, "work")
    /\ UNCHANGED <<setup, regs, seen, worker, manager, attached, stop, context, status>>

WorkerArrives(r, t) ==
    /\ worker[r][t] = "barrier"
    /\ ready' = [ready EXCEPT ![r] = @ + 1]
    /\ worker' = [worker EXCEPT ![r][t] = "work"]
    /\ UNCHANGED <<setup, regs, seen, pc, manager, attached, stop, context, status>>

(***************************************************************************)
(* The rest of packet_process: a thread's jobs are all answered. With      *)
(* manager threads that takes all of them (one for both directions, or one *)
(* for each).                                                              *)
(***************************************************************************)
Served(r) == \A m \in Manager : manager[r][m] = "manage"

Work(r) ==
    /\ pc[r] = "work" /\ StartWork(r) /\ Served(r)
    /\ Goto(r, "join")
    /\ UNCHANGED <<setup, regs, seen, worker, manager, attached, ready, stop, context, status>>

WorkerWorks(r, t) ==
    /\ worker[r][t] = "work" /\ StartWork(r) /\ Served(r)
    /\ worker' = [worker EXCEPT ![r][t] = "detach"]
    /\ UNCHANGED <<setup, regs, seen, pc, manager, attached, ready, stop, context, status>>

(***************************************************************************)
(* check_context_ring takes every buffer out of the context ring: it       *)
(* succeeds if they are all there.                                         *)
(***************************************************************************)
CheckContextRing(r) ==
    /\ status' = [status EXCEPT ![r] = IF context[r] THEN "ok" ELSE "failed"]
    /\ context' = [context EXCEPT ![r] = FALSE]

DetachAtMostZero(r) ==
    /\ attached' = [attached EXCEPT ![r] = attached[r] - 1]
    /\ IF attached[r] - 1 <= 0 THEN CheckContextRing(r) ELSE UNCHANGED <<context, status>>

\* nlm_device_detach by any thread of the ring, managers included.
Detach(r) ==
    /\ attached' = [attached EXCEPT ![r] = attached[r] - 1]
    /\ IF attached[r] - 1 = 0 THEN CheckContextRing(r) ELSE UNCHANGED <<context, status>>

WorkerDetaches(r, t) ==
    /\ worker[r][t] = "detach"
    /\ Detach(r)
    /\ worker' = [worker EXCEPT ![r][t] = "exited"]
    /\ UNCHANGED <<setup, regs, seen, pc, manager, ready, stop>>

JoinWorkersNoStop(r) ==
    /\ pc[r] = "join"
    /\ \A t \in Worker : worker[r][t] = "exited"
    /\ Goto(r, "joinManagers")
    /\ UNCHANGED <<setup, regs, seen, worker, manager, attached, ready, stop, context, status>>

\* Thread 0 joins the data-plane threads, then stops the managers.
JoinWorkers(r) ==
    /\ pc[r] = "join"
    /\ \A t \in Worker : worker[r][t] = "exited"
    /\ stop' = [stop EXCEPT ![r] = TRUE]
    /\ Goto(r, "joinManagers")
    /\ UNCHANGED <<setup, regs, seen, worker, manager, attached, ready, context, status>>

ManagerDetaches(r, m) ==
    /\ manager[r][m] = "manage" /\ stop[r]
    /\ Detach(r)
    /\ manager' = [manager EXCEPT ![r][m] = "exited"]
    /\ UNCHANGED <<setup, regs, seen, pc, worker, ready, stop>>

JoinManagersNot(r) ==
    /\ pc[r] = "joinManagers"
    /\ Goto(r, IF r = 0 THEN "joinRings" ELSE "leave")
    /\ UNCHANGED <<setup, regs, seen, worker, manager, attached, ready, stop, context, status>>

JoinManagers(r) ==
    /\ pc[r] = "joinManagers"
    /\ \A m \in Manager : manager[r][m] = "exited"
    /\ Goto(r, IF r = 0 THEN "joinRings" ELSE "leave")
    /\ UNCHANGED <<setup, regs, seen, worker, manager, attached, ready, stop, context, status>>

(***************************************************************************)
(* Thread 0 of a slave ring detaches and frees the ring's memory.          *)
(***************************************************************************)
LeaveRing(r) ==
    /\ pc[r] = "leave"
    /\ Detach(r)
    /\ Goto(r, "done")
    /\ UNCHANGED <<setup, regs, seen, worker, manager, ready, stop>>

(***************************************************************************)
(* main joins the rings' threads; nlm_device_fini validates the context    *)
(* ring of ring 0 and resets the device.                                   *)
(***************************************************************************)
FiniDevice ==
    /\ pc[0] = "joinRings"
    /\ \A r \in Slave : pc[r] \in {"done", "refused"}
    /\ CheckContextRing(0)
    /\ regs' = [r \in Ring |-> Unset]
    /\ Goto(0, "done")
    /\ UNCHANGED <<setup, seen, worker, manager, attached, ready, stop>>

Ring0Steps == InitDevice \/ SpawnRings \/ FiniDevice
SetUpRing(r) == \/ PrepareRing(r) \/ ConfigurePdf(r) \/ ConfigureMemmap(r)
                \/ ReadRing(r) \/ Refuse(r) \/ Accept(r)
RunRing(r) == \/ CreateThreads(r) \/ Arrive(r) \/ Work(r)
              \/ JoinWorkers(r) \/ JoinManagers(r) \/ LeaveRing(r)
RunWorker(r, t) == \/ AttachWorker(r, t) \/ WorkerArrives(r, t)
                   \/ WorkerWorks(r, t) \/ WorkerDetaches(r, t)
RunManager(r, m) == AttachManager(r, m) \/ ManagerDetaches(r, m)

Next ==
    \/ Ring0Steps
    \/ \E r \in Slave : SetUpRing(r)
    \/ \E r \in Ring : \/ RunRing(r)
                       \/ \E t \in Worker : RunWorker(r, t)
                       \/ \E m \in Manager : RunManager(r, m)

(***************************************************************************)
(* The operating system schedules every thread again and again; the        *)
(* device and the managers answer the jobs they are given.                 *)
(***************************************************************************)
Fairness ==
    /\ WF_vars(Ring0Steps)
    /\ \A r \in Slave : WF_vars(SetUpRing(r))
    /\ \A r \in Ring : /\ WF_vars(RunRing(r))
                       /\ \A t \in Worker : WF_vars(RunWorker(r, t))
                       /\ \A m \in 1 .. 2 : WF_vars(m \in Manager /\ RunManager(r, m))

Spec == Init /\ [][Next]_vars /\ Fairness

---------------------------------------------------------------------------

TypeOK ==
    /\ setup \in Setups
    /\ \A r \in Ring :
         /\ regs[r].pdf \in BOOLEAN /\ regs[r].memmap \in BOOLEAN
         /\ pc[r] \in {"none", "init", "spawn", "prepare", "configure", "memmap", "check",
                       "refused", "attached", "barrier", "work", "join", "joinManagers",
                       "joinRings", "leave", "done"}
         /\ attached[r] \in -2 .. NumThreads /\ ready[r] \in Nat
         /\ stop[r] \in BOOLEAN /\ context[r] \in BOOLEAN
         /\ status[r] \in {"none", "ok", "failed"}
         /\ NextToRead(r) \in 0 .. NumRings
    /\ worker \in [Ring -> [Worker -> {"none", "created", "barrier", "work", "detach", "exited"}]]
    /\ manager \in [Ring -> [Manager -> {"none", "created", "manage", "exited"}]]

(***************************************************************************)
(* check_mem_overlap does its work although the rings are set up at the    *)
(* same time and each reads the registers of the others in the middle of   *)
(* their set-up: two rings that were both accepted never share memory (but *)
(* for a DDR of 2^32 bytes or more, whose size SCRATCH cannot hold).       *)
(***************************************************************************)
InUse(r) ==
    pc[r] \in {"attached", "barrier", "work", "join", "joinManagers", "joinRings", "leave"}
Apart(a, b) == \/ a = NoArea \/ b = NoArea
               \/ a.lo + a.size <= b.lo \/ b.lo + b.size <= a.lo
Narrow(a) == a = NoArea \/ a.size < Wide

RingsApart ==
    /\ TypeOK
    /\ \A r, s \in Ring :
      InUse(r) /\ InUse(s) /\ r # s =>
        /\ Apart(setup.sys[r], setup.sys[s])
        /\ Narrow(setup.ddr[r]) /\ Narrow(setup.ddr[s]) => Apart(setup.ddr[r], setup.ddr[s])

(***************************************************************************)
(* The validation in nlm_device_detach empties the context ring, from      *)
(* which the device takes a buffer for every job: it happens only when no  *)
(* thread of the ring has work, or will have, although threads_attached    *)
(* counts the managers on one side only.                                   *)
(***************************************************************************)
ContextTakenWhenIdle ==
    \A r \in Ring : InUse(r) /\ ~context[r] =>
        /\ pc[r] \notin {"attached", "barrier", "work"}
        /\ \A t \in Worker : worker[r][t] \notin {"created", "barrier", "work"}

(***************************************************************************)
(* nlm_device_detach says of its validation: "For Ring0, we will never hit *)
(* the last thread here", for thread 0 of ring 0 does not detach: its      *)
(* context ring is left to nlm_device_fini. A manager thread's detach does *)
(* hit it, as managers lower threads_attached without having raised it.    *)
(***************************************************************************)
Ring0NeverLast == pc[0] # "done" => status[0] = "none"

(***************************************************************************)
(* The context ring of a ring is validated once, and found whole: that of  *)
(* ring 0 by nlm_device_fini and no earlier, if there are no managers, and *)
(* that of another ring, with managers or without, by the detach that      *)
(* brings threads_attached to 0.                                           *)
(***************************************************************************)
ValidatedOnce ==
    /\ \A r \in Ring : pc[r] = "done" /\ (r = 0 => setup.managers = 0) => status[r] = "ok"
    /\ setup.managers = 0 => Ring0NeverLast

(***************************************************************************)
(* A ring's memory, and the device, are given up only when the threads     *)
(* that use them have ended.                                               *)
(***************************************************************************)
ReleasedLast ==
    /\ \A r \in Ring : pc[r] = "done" =>
         /\ \A t \in Worker : worker[r][t] = "exited"
         /\ \A m \in Manager : manager[r][m] = "exited"
    /\ pc[0] = "done" => \A r \in Slave : ~InUse(r)

(***************************************************************************)
(* What attach_ring waits for, at the barrier and in its joins, happens.   *)
(* (Not so if a slave ring's config was changed after thread 0 attached    *)
(* with it: the further threads of the ring are refused, and thread 0      *)
(* waits for ever, at the barrier for the data-plane threads or in its     *)
(* work for the managers.)                                                 *)
(***************************************************************************)
ProgramEnds == <>(pc[0] = "done")

(***************************************************************************)
(* Every session ends in which no config is changed after the attach.      *)
(***************************************************************************)
SessionEnds == ~setup.edits => ProgramEnds
===========================================================================
