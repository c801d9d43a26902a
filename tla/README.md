# dpi_demo: a TLA+ verification project

The repository holds the user-space data-plane library of a NetLogic content
search device (`src/lib/dataplane`), a Linux driver for it (`src/src/driver`),
demonstration programs (`src/src`), compiled rule sets and a vendored libpcap.
This project models the library from the set-up of its rings to the results of
the last job, wherever several threads, processes or the device act at once or a
call may fail half-way, and the driver's memory and device ownership; it checks
the models with TLC on small instances, and proves the safety properties of all of
them but the database loader for instances of any size with TLAPS: the lockless FIFO,
both kinds of flows, the ways of jobs and results over the device's rings with and
without a manager thread, the memory pools, the packet windows, the sessions of rings,
and the driver's memory and device ownership.

Line numbers below are of `src/lib/dataplane/fms_packet_api.c` unless another
file is named.

## 1. Inventory

| component | state | operations | talks to |
|---|---|---|---|
| software FIFOs, `nlm_dp_fifo.h` | `in`, `out`, `size`, `buf`, `skip` per thread and direction | peek/push on the writing side, peek/pop on the reading side, free, empty | one writer thread and one reader thread, without a lock |
| stateful flows and PD chains | `struct nlm_flow` (type, groups, `last_pd`, `pending_pd_head`, `flow_offset`), jobs, packet descriptors (PDs), list of pending flows | create, add/remove group, enqueue, cancel, start, destroy, notice completion, start pending chains | device: input ring of flow descriptors (FDs), PDs in shared memory, output ring of result descriptors (RDs) |
| stateless flows | `job_seq_id`, the count of jobs in flight | create, enqueue, start, destroy, completion | input ring or software FIFO |
| result delivery without manager | output ring, `output_rd_ptr`, marks in the RDs | `nlm_get_all_search_results` of each thread under `hw_output_fifo_lock` | the other threads (shared ring), device |
| manager thread, input | software job FIFOs of all threads, input ring | `nlm_manage_input` | threads (FIFOs), device (ring) |
| manager thread, output | software result FIFOs with their `skip` flags, output ring | `nlm_manage_output`, `consume_rd`, `get_search_results_from_fifo` | threads (FIFOs), device (ring) |
| driver, device ownership | `owner_pid`, open files | open, release | processes, their children |
| driver, memory | `device_list`, lists of chunks of pages | `fixed_memory_chunking`, `find_free_chunks`, `dynamic_memory_init`, `memory_manager_fini` | kernel's page allocator, device ownership |
| driver, probing | list of devices, /proc tree | PCI probing | kernel |
| memory pools | two-ended arrays of flows/jobs and PDs/PDFs with free lists | alloc, free | flow operations, attachment |
| attachment | magic number, `threads_attached`, context ring, registers of a ring | init, attach, detach, fini | all threads of all rings |
| overlap check | ring and context registers | `check_mem_overlap`, `check_context_ring` | the other rings, through registers |
| packet address windows | `packet_base[]`, registers of the device | `store_phys_addr_into_fd`, `store_phys_addr_into_pd` | all threads, device |
| database loader, `loader_fms.c` | command FIFO, maps of shadow and array blocks, copies of databases | load, unload, copies, balance, poll | device |
| configuration, DDR calibration, set-up, hash, register dump | registers | register sequences | device |
| demonstration programs | stop flags, joined threads (`ringdemo.c`) | callers of the library | library |

What is hard here:

* **Memory shared with the device without a lock.** A PD is linked behind the
  flow's last one "hoping that HW didn't fetch the last PD yet" (3055-3062), with
  two stores the device may see one of. Whether it was in time is only known from
  the kind of result that comes back.
* **Memory shared between threads without a lock.** The software FIFOs rely on
  one writer, one reader and counters that wrap at 2^32.
* **Results in one ring for many threads.** A scan stops anywhere (the caller's
  buffer is full), leaves other threads' results behind, and the ring is scanned
  again from the same place; with a manager thread a full FIFO must hold back all
  later results of that thread and no others.
* **Deferred release.** A destroyed flow lives until its last result was read; the
  decision to free it at once rests on an offset (stateful) or a count
  (stateless).
* **Rings that fill up** in the middle of a batch, of a chain, of a pass.
* **Partial failure.** Calls that return an error after they have changed state.
* **Set-up in parallel.** Rings of one device are set up at the same time, and each
  decides from the registers of the others whether its memory is its own; threads
  and managers leave in any order, and the last one has a duty.
* **Work the device does in its own time.** The loader queues commands, waits for
  the device by being called again, and takes new requests in between.
* **Liveness.** Jobs complete only if somebody polls, and passes of the manager
  thread end only if the ring fills up or the FIFOs run dry.

What makes each component correct is stated as properties in sections 3 and 4.

## 2. Modules

| module | models | used by |
|---|---|---|
| `DpFifo` | the operations of `nlm_dp_fifo.h` as operators, counters modulo `Modulus` (2^32) | `SpscFifo` |
| `SpscFifo` | one writer and one reader, a step per access to memory | |
| `BoundedQueue` | abstract specification: a bounded queue | refined by `SpscFifo` |
| `SpscFifo_proofs` | theorems on `SpscFifo` | |
| `StatefulFlow` | stateful flows of one thread, PD chains, the device | |
| `StatelessFlow` | stateless flows, with or without manager thread | |
| `ResultRing` | the output ring with its two pointers, and the numbers of results | `DirectOutput`, `ManagedOutput` |
| `DirectOutput` | several threads scanning the output ring | |
| `ManagedInput` | `nlm_manage_input`, pushing threads, the device | |
| `ManagedOutput` | `nlm_manage_output`, reading threads, the device | |
| `MemoryPool` | the pools of flows, jobs, PDs and PDFs of all threads | |
| `PacketWindows` | the table of packet windows, with and without its lock | |
| `Loader` | the database loader, its command FIFO, the device's blocks | |
| `RingSession` | set-up, threads and shutdown of the rings of one device | |
| `DriverAccess` | open, close and fork on a device file | `DriverMemory` |
| `DriverMemory` | the driver's memory from load to exit, composed with `DriverAccess` | |
| `DriverMemory_proofs` | theorems on `DriverMemory` and on `DriverAccess` within it | |
| `StatefulFlow_proofs`, `StatelessFlow_proofs` | theorems on the two kinds of flows | |
| `RingTransfers_proofs` | theorems on `ManagedOutput`, `DirectOutput` and `ManagedInput` | |
| `MemoryPool_proofs`, `PacketWindows_proofs`, `RingSession_proofs` | theorems on these modules | |

`MC*` modules instantiate them for TLC. Apart from the output ring that `DirectOutput`
and `ManagedOutput` have in common, the modules of the library do not extend each
other: they share `phy_device` in the code, and each models the part of it
its operations use, the rest of the system being the environment it acts against
(the device, the other threads' FDs). Some modules define, beside an operation,
a wrong version of it under a name of its own with a comment saying what is wrong;
`PROJECT.json` lists them as mutants, and each is there to show which property
would catch that bug. No specification uses them.

### SpscFifo and DpFifo

`fifo` is the struct: `in`, `out` and the buffer. The writer peeks for a free slot,
fills it in two steps (between which the descriptor is torn) and pushes
(`in++`); the reader peeks, copies the slot out and pops (`out++`). A FIFO is
full when `size - in + out` is 0 modulo 2^32, empty when `in = out`, and the slot
of a counter is `counter & (size - 1)`, modelled as `% Size`, which is the same
because `Size` divides `Modulus` (an assumption of the module, as sizes are powers of two).
Stores are seen in program order; the code has no barrier of its own and relies
on the processors it runs on.

### StatefulFlow

A job of a stateful flow owns one PD from enqueue to completion, so `Job` stands
for both. `flow` and `job` hold the fields that decide anything: `last_pd`
(`last`), `pending_pd_head` (`head`), the count of changes of groups (`comb`,
`lastComb`), `flow_offset` as zero or not; `pd_nla_index` (`nla`),
`sw_disconnect` (`disc`), `flow_term` (`term`). `pc` and `todo` say how far a call
of the library has come, so the device can act between any two stores
to shared memory:

* `StartJobs`, then per job `AddFirst` or `Disconnect`; `Link`
  (`nlm_flow_add_job_to_list`), then `StartChain`* and `FinishStart`
  (`nlm_try_start_stateful_flows`);
* `ProcessRd`* and `FinishResults`, or `PollEmpty` (`nlm_get_all_search_results`);
* `CreateFlow`, `AddGroup`, `RemoveGroup`, `EnqueueSearch`, `EnqueueFails`,
  `EnqueueRefused`, `CancelJob`, `DestroyUnused`, `DestroyUsed`, `DestroyFails`, `ForceOneFd`
  are a step each, because they touch no memory the device reads. `EnqueueFails` has taken
  a job, `EnqueueRefused` and `DestroyFails` have found no job or no memory for its PD. `NLM_PACKET_ENQUEUE_POLICY` & 2
  may be set or not at every enqueue.

The device is external and modelled from the descriptors it is given and the
results the code accepts: it takes FDs in ring order, leaves an FD whose flow is
busy in the ring, reads a PD's link when it fetches the PD, holds up to
`Prefetch` descriptors of a chain, reports a packet with a PRD if another one
follows and with an FRD if not, and may give up on a chain with an FRD that
carries an error. `ForceOneFd` is not part of `Spec` but of `ForcedSpec`, an
application that uses that parameter (section 5). The flow-end job is the special case of lines 3101-3176: an FD
with a zero-length packet and no PRD that links to the PD of the same job.

### StatelessFlow

`flow[f].count` is `job_seq_id`. `AllocFd`/`AllocFails` are one turn of the loop
of `nlm_start_jobs` for the input ring, `PushFd` for the software FIFO. FDs in
the ring behind the write pointer the device knows are in `filled`; they are
dropped if a later `sysmem_alloc_fd` fails. Jobs of other threads are only ring
slots this thread does not have. `managed` is `using_manager_thread`, chosen at
the start.

### DirectOutput and ManagedOutput

The ring (`ResultRing`) is an array with the device's write pointer and the read pointer;
an RD is its thread, the number of the result and its kind, and `Processed` once
marked. A call or pass is a sequence of steps, one per RD looked at, between
which the device writes RDs and (ManagedOutput) the threads read their FIFOs. In
DirectOutput only one call is under way at a time (`hw_output_fifo_lock`), and the
flows of the threads in `Erratum` may get end-anchored matches after their error,
the erratum lines 3510-3514 work around.
Numbers of results wrap at `SeqMod`, which is larger than the number of results
under way, so each of them can be told from the others.

### ManagedInput

One step per thread looked at in the loop of lines 3808-3838, between which
threads push and the device fetches. `visible` is the part of the ring the
device was told of (`FDF_FIFO_WRT_PTR`, written at the end of the pass).

`ManagedInput` and `ManagedOutput` use a sequence of bounded length for a software
FIFO. The theorem `FifoIsBoundedQueue` is what allows that.

### DriverAccess

`owner` is `owner_pid`; `holders[x]` are the processes that share the open file
`x` (through fork, which is the kernel's and external); release happens when the
last of them closes it. `nested` remembers whether a process has opened the device
while it had it open.

### MemoryPool

The two-ended memories of every thread (`flowTop`, `jobBottom`, `pdTop`,
`pdfBottom`, `ddrNext`) with real addresses, sizes and alignments, since the
tests that keep the ends apart are about sizes that divide nothing evenly (2354-2363,
2389, 2446, 2521). A free list is a set. A flow keeps its PDF on the free list
(2458-2479), which is why kinds of flows are told apart there too.
`CreateLosesFlow` is `nlm_create_flow` without a PDF, which does not give the
flow back.

### PacketWindows

`table` is `packet_base`, `regs` what the device holds. One step per slot looked at,
one for the store to the table, one for the registers; `locks` says which of the
two variants the call is. `raced` collects the slots that a thread found or
chose while another thread without the lock was storing to them: every property
is stated up to these, and `NoRaceUnderLock` says when there are none.

### Loader

`shadow` and `array` are the maps of the loader, `queue` its command FIFO, `sched`
the group bitmaps (which array blocks are searched in which timeslot), `content`,
`dma`, `idle`, `ready` and `storing` the device. A call is `Request`, then `Load`,
`Unload` or the steps of `nlm_device_database_set_num_copies` (`BeginSet`, `Grow`,
`Shrink`, `EndSet`) and of the balance around them; then commands are
executed, to the end with the default policy, or one per call (`Poll`) with the
asynchronous one. A command that waits for the device leaves the call, and the same
command is tried again by the next. The history variable `hasty` is set by a
balance asked for while commands wait; nothing is claimed after that, for the
reason given in section 5. `pause_timeout` is never set, so a pause waits for ever.

### RingSession

One program counter per ring (`attach_ring` of `ringdemo.c`, thread 0 of that ring)
and one per data-plane and manager thread. `ready` is `ready_to_run`, the barrier at which the
data-plane threads of a ring wait for each other before their work (`Arrive`,
`WorkerArrives`, `StartWork`); a thread whose attach is refused does not come to it. Setting a ring up writes `PDF_CONFIG`
and `PDF_MEMMAP_CONFIG` in two steps, reads the other rings one at a time, and is
refused or accepted; the address that `check_mem_overlap` does not assign for a ring
without DDR is any value of `Garbage`. Whether the context ring has been emptied is `context`, what the last
detach or `nlm_device_fini` returned is `status`.

### DriverMemory

`EXTENDS DriverAccess`: device files exist only in the phase "loaded", so
`DriverSpec` is the composition. Loading is `LoadFixed`, or the search of
`find_free_chunks`: `FillTable` takes pages until the page table is full or the kernel
has none left (which ones come, the kernel decides), `ListRun` puts the next run of the
table into one of the two lists, and a full table is followed by another. A table that
stays empty has a first entry too, page 0 (`ListEmptyTable`). `SumUp` returns the small
chunks and compares the counts; then come `AssignLargest` or `AssignEach`. `AssignNone`
is the read of an empty list (1140), after which nothing is claimed. `Exit` returns
everything.

`compare_addresses` (916) returns the difference of two addresses as an `int`. The result
is right for pages less than `SortSpan` apart (2^31 bytes); a table with pages further
apart may come out of the sort in any order, and then a run is any run of pages of
the table. `MemoryAssumption` asks of a region set aside at boot that it reaches at least
to the first page boundary behind its start, for otherwise the remaining size, which is
unsigned in the code, would wrap (823-825).

## 3. Runs

All runs use the specifications as they are; the cfgs give constants their
values. Deadlock is checked except where the system may really stop: in the flow
models (calls that fail lose job slots until none is left), in the loader after a
failed assertion, in a session that is over, and in a driver that was unloaded.
The type invariant of a module is a conjunct of its first safety invariant
(in `SpscFifo`, where it is proved separately, it is listed separately).

| run | what it shows |
|---|---|
| `fifo` | counters never cross, no slot is in two hands, no torn descriptor is read, the FIFO refines a bounded queue, a full FIFO does not stay full |
| `flow` | two flows, three jobs: every flow with unfinished jobs has exactly one chain (waiting, in the ring, in the device or ended with an unread FRD); jobs are scanned and reported in order; packets of one chain have one set of groups; nothing is freed in use; the pending list is exact; every started job completes |
| `flow_forced` | finding, see section 5: it expects a violation |
| `stateless` | with and without a manager thread, and with calls that fail half-way: every job completes; without a manager thread no flow is freed with jobs in flight; a destroyed flow whose count is right is freed in the end |
| `direct` | two threads, one of them with the erratum: each gets its results once, in order and in the end; the ring does not stay full, which `RingDrains` states for at most one such thread |
| `input` | the device gets every FD once and in order; every pass ends and shows the device what it has moved |
| `output` | each thread gets its results once, in order and in the end; the ring does not stay full |
| `pool` | two threads, PDFs in system memory or DDR: no two objects, in use or free, share memory, and no two stateful flows a context, however the pools are filled, emptied and refilled |
| `windows` | three threads, three windows, two slots: a packet is read from its window and a window has one slot, up to races of the variant without lock; with the lock there are none |
| `loader` | two databases, three blocks: no assertion fails and the FIFO never overruns; what is searched is loaded and not being overwritten; with an empty FIFO all copies are complete; every request is finished |
| `session` | three rings of two threads with up to two managers: accepted rings share no memory; the context ring is emptied only when nobody has work, and validated once and with success (that of ring 0 if there is no manager); everything is released last; every session ends in which no config is changed after the attach |
| `driver` | a device nobody has open is not left busy; if no process opens it twice, one process at a time; the memories of the devices lie apart and within the driver's; what was taken is returned, and nothing else |

**Bounds.** Rings hold one or two FDs and two or three RDs, FIFOs one or two
descriptors: full, empty and wrapped states are all reached, and two flows or
threads compete for the last slot. Three jobs are the least with which a chain is
cut, continued and followed by a flow-end job; groups may change twice on one flow and once on the
other, so that chains are cut on both. `JobsComplete` watches one of the jobs, which are interchangeable.
Two threads are enough for one to hold up another; the windows need a third one, so that two
race while one searches. With one of the two threads in
`Erratum` the ring drains, with both it does not (section 5). The pools hold two or three objects of each
kind, and their sizes leave a remainder everywhere. Three blocks and two databases of
up to two blocks are the least with which databases compete for copies and a balance has to
shrink one to grow the other. The sessions of `MCSetups` cover disjoint and
overlapping memory of each kind, a DDR size that does not fit, and an edited configuration.
The driver's free pages come in layouts with one large, several small, no usable
chunk, exactly a full page table, and pages too far apart to be sorted in one table.
Counters (`MaxCombination`, `MaxCount`, `SeqMod`, `Modulus`, `CountMod`, `MaxOpen`) are capped in
guards or wrap, as named in each module. `MaxCount` bounds the number of failed calls, each of which
raises `job_seq_id` for good: after 2^32 of them it would wrap, which is not
modelled. Symmetry (of threads) is used in `windows` only, which
checks invariants. The largest runs are `windows` (1.3 million states), `driver` (1.4 million), `flow`
(0.4 million, two minutes with its liveness property).

**Fairness.** A call of the library that was entered runs to its end (weak
fairness: no call waits for anything but a spin lock). The application polls for
results again and again; strong fairness, since between two polls it may be in
other calls. In DirectOutput the spin lock promises nothing, but a thread that
polls for ever gets it infinitely often (strong fairness of `BeginScan`). The
manager thread loops for ever (`src/src/mtdemo.c:345-450`: `while` loops around
`nlm_manage_input`/`nlm_manage_output`). The device keeps fetching and, as long
as the output ring has room, reporting; strong fairness per flow in
StatefulFlow, since a device that serves several flows has to come round to each. Nothing is assumed of calls that create,
start or destroy. The loader's device finishes what it was told (weak
fairness), and a caller that was told "in progress" polls again (strong fairness
of `Poll`, since between two polls it may make other requests). In RingSession
every thread is scheduled again and again (weak fairness). `MemoryPool`,
`PacketWindows` and `DriverMemory` assume none.

## 4. Proofs

`SpscFifo_proofs` proves, for every `Size` > 0, every larger `Modulus` that `Size`
divides, and every set of descriptors:

* `TypeCorrect`: `Spec => []TypeOK`;
* `CountersNeverCross`: `Spec => []CountersAgree`;
* `NoSharedSlot`: `Spec => []SlotsDisjoint`;
* `NothingTorn`: `Spec => []DescriptorsWhole`;
* `FifoIsBoundedQueue`: `Spec => IsBoundedQueue`.

The inductive invariant is `TypeOK /\ CountersAgree /\ DescriptorsWhole`. None of
the three is inductive alone: that a push stays within the buffer follows from
what the writer saw when it peeked (`CountersAgree` keeps that a writer which has
peeked still has a free slot, and a reader a used one), and that a pop returns a
whole descriptor from what the slots between the counters hold.
`SlotsDisjoint` follows from it. The heart is the arithmetic of wrapped counters:
`Used`, the difference modulo `Modulus`, grows by one with a push and shrinks by
one with a pop, and places of the buffer that are less than `Size` apart lie in
different slots even if a counter has wrapped between them, because `Size`
divides `Modulus` (lemmas `ModUnique` to `ShiftedSlot`). The refinement maps the
queue to the slots from `out` to `in`; `Push` is the abstract enqueue, `Pop` the
dequeue, every other step a stutter.

`StatefulFlow_proofs` proves, for any sets of flows and jobs, any sizes of the rings,
any prefetch of the device and any batches:

* `OneChainAlways`: `Spec => []OneChainPerFlow`;
* `FlowOrderAlways`: `Spec => []FlowOrder`;
* `SameGroupsAlways`: `Spec => []SameGroups`;
* `NothingFreedAlways`: `Spec => []NothingFreedInUse`;
* `PendingExact`: `Spec => []PendingListExact`.

Each has the hypothesis `~ZeroLength`, the default `packet_enqueue_policy`: with
zero-length packets `NothingFreedInUse` is false (section 5, item 2). None of the
five is inductive, nor are they together: what happens to a chain depends on links that
nobody has read yet. `StateInv` has, for each flow, the sequence `issued` of its
started jobs at the centre:

* each of them is linked to the next (`Linked`), with the mark `sw_disconnect` exactly
  where the groups change, or on the last one between the two stores of `nlm_start_jobs`;
* there is an `r` such that the first `r` jobs are those in the output ring, in their
  order (`RdsInOrder`), and the device, if it is busy, holds the next ones (`DataChain`),
  each known to have a successor exactly if it was linked in time. An FRD belongs to the
  `r`-th job, and a PRD always has a job behind it (`EngineFits`, `OnePlace`);
* the FD in the input ring is that of the first job, and if it has a link, the link
  leads to the second one (`FdFits`); the chain of an end-of-flow job is the one
  exception (`TermChain`);
* a flow with jobs has a non-zero offset and count of group changes (`SeenUsed`), on which
  `nlm_destroy_stateful_flow` decides whether the flow was used.

The proof has one lemma per action. The interesting ones are `LinkKeeps` (the device may
hold the PD that is linked to, have reported it or not have fetched it),
`FetchPdKeeps` (the link is read once, before, between or after the two stores) and
`ProcessRdKeeps` (an FRD finds a successor, and the rest of the chain is sent again).

`StatelessFlow_proofs` proves `FreedOnlyWhenDone` (`Spec => []NoFlowFreedInUse`) for any
sets of flows and jobs, any ring and any bound of the count. The invariant adds
that a job is in one place only (`Placed`), that `job_seq_id` is at least the
number of jobs in flight (`CountCovers`; it may be above, after a call that failed
half-way), and that it does not wrap during a call (`NoWrap`).

`RingTransfers_proofs` proves, for any set of threads and any sizes of the rings and FIFOs:

* `AllDeliveredInOrder`: `Spec => []DeliveredInOrderOnce` (`ManagedOutput`);
* `AllScannedInOrder`: `DirectSpec => []ScannedInOrderOnce` (`DirectOutput`);
* `AllFdsInOrder`: `InputSpec => []FdsInOrder` (`ManagedInput`).

All three are about descriptors of several threads that share a ring. The history variables
number those of a thread modulo `SeqMod` or `FdMod`, of which the modules assume only that
they are larger than what a thread can have outstanding; that they are large enough is
part of the proofs (a thread's descriptors are in different places of ring and FIFO,
`NumbersBound`). What the proofs have in common is `Numbered`: the places of a
thread's descriptors carry, in their order, the numbers 1 to `u`. It is kept when all places move
by a distance (`Shifted`), when the first one is taken (`FirstTaken`) and when a place is added
behind the others (`LastAdded`). None of the properties is inductive:

* `DeliveredInOrderOnce` does not say which RDs `nlm_manage_output` has passed. The invariant
  adds `PassOK`: every RD passed in this call was copied, except those of threads with `skip` set,
  and if there is one the call remembers not to move the read pointer. With it, the RD
  that `consume_rd` copies is the oldest one of its thread that is left (`OldestUncopied`),
  although the thread may have made room in its FIFO since, and a pointer that moves
  passes only RDs that were copied (`EndKeeps`).
* `ScannedInOrderOnce` does not say what a scan that is under way has left behind. `ScanOK`
  adds that it is marked, or a match ignored for an errored flow of the scanning thread
  (the erratum, 3510-3514), or another thread's RD, and then the scan remembers not
  to move the read pointer. So the RD it delivers is the first of its thread in the ring.
  The proof covers every set `Erratum`: what does not hold with the erratum is that the
  ring drains (section 5, item 4), not the order.
* `FdsInOrder` includes the type invariant, by which a round of the manager counts at most
  `MaxThreads` empty FIFOs; the invariant adds that it has not counted more than it has
  looked at. The order is stated for the FIFO
  and the ring together: the FDs a thread waits for are those in the ring, then those
  in its FIFO.

`MemoryPool_proofs` proves `ObjectsNeverOverlap` (`Spec => []NoOverlap`) and
`FlowsHaveOwnContext` (`Spec => []ContextsApart`) for any number of threads and any
sizes of pools and objects. In the invariant `PoolInv` every object of a kind lies at a multiple of
its size from the end its kind grows from, on its side of the pointer of that kind;
the pointers of the two kinds do not cross; and the shares of the threads follow
each other, whatever the division leaves over.

`PacketWindows_proofs` proves `PacketsAreRead`, `LockSuffices` and `WindowHasOneSlot`
(`PacketsReadFromTheirWindow`, `NoRaceUnderLock` and `OneSlotPerWindow` of every
behaviour) for any number of threads, slots and windows. The invariant says
what a thread that is half-way through the table knows: slots are taken in order and
never given back (`TakenInOrder`), a slot passed is not the one looked for, even if it was
stored to since (`NotPassed`), and only one thread stores to a slot nobody raced for
(`StoredByOne`). `WindowsAssumption` requires that the windows of the home region,
to which `configure_device` sets the slots when there is no `virt_to_phys`, are windows: the
address space does not end within a region.

`RingSession_proofs` proves `AcceptedRingsApart`, `ContextTakenIdle`, `ValidationsExact` and
`ReleasedAfterThreads` (`RingsApart`, `ContextTakenWhenIdle`, `ValidatedOnce` and
`ReleasedLast`) for any number of rings, threads and managers and any set of sessions.
The invariant `SessionInv` has, per ring, which steps of thread 0 the other threads
wait for and which wait for them (`ThreadsFollow`), the value of `threads_attached` from the
threads that count and the managers that have left (`CountExact`), and who
empties the context ring (`ContextFollows`); and, for every two rings in use, that one of them has
read the registers of the other after they were written and found no overlap (`OneWatches`).

`DriverMemory_proofs` proves, for `DriverSpec`, any sets of processes and files, any number of
devices, page size, table size, threshold and `SortSpan`, any finite sets of free pages and any
regions (`MemoryAssumption`):

* `NeverLeftBusy`: `DriverSpec => []OwnerHasFile`;
* `OneProcessAtATime`: `DriverSpec => []ExclusiveAccess`;
* `MemoriesLieApart`: `DriverSpec => []DevicesApart`;
* `ReturnsItsPages`: `DriverSpec => []ReturnsWhatItTook`.

`ExclusiveAccess` is not inductive: `nlm_device_close` clears `owner_pid`, and
nothing in it says that no other file is open then. The invariant `AccessInv` adds that at
most one file is open until a process opens the device again (`OneFile`), and
that a file which was not opened has no holder (`HeldFilesOpen`).

For the memory, `MemoryInv` has one part for the search and one for the loaded driver. While
pages are searched (`SearchOK`), what the driver holds is in the page table or in exactly one chunk
of one list (`PagesListed`), and the counts agree, except that an empty table has added
one page that was never taken, which happens only when the number of pages taken is a
multiple of the table's size (`PagesCounted`). Once loaded in dynamic mode (`GivenPages`) the memories
are whole pages of the driver, share none, and leave fewer pages over than there are
devices; in fixed mode they are what `fixed_memory_chunking` computes. A region or the largest
chunk is divided by the same code, in bytes or in pages: `LayoutApart` says that system memories
followed by packet memories share nothing, stay within the whole and leave nothing of
it out, and `EvenDivision` how much of the chunk two roundings lose. That
`release_chunks` at exit returns the right pages needs that byte addresses turn back
into the chunks they came from (`ChunkBytes`, `PageMemory`). The proofs use only that a
chunk is a run of pages of the table, so they hold for a table in any order. Nor do
they use the test at line 861: what is divided never runs past the end of its region, and
as that test takes the size left over from the start that was not aligned, all it can do is
refuse a division that fits.

The inductive invariants were checked with TLC on the instances of the runs before they
were proved. For tlapm the properties avoid what it cannot reason about, so
`FlowOrder`, `DeliveredInOrderOnce`, `ScannedInOrderOnce` and `FdsInOrder` speak of positions in the
rings instead of filtering them, and `DriverMemory` counts pages when they are listed
instead of summing over the lists.

Only model-checked: all liveness properties (fairness is out of the prover's
reach), and the safety properties of `Loader` (`AssertionsHold`, `SearchedBlocksLoaded` and
`CopiesComplete`): the loader queues commands in lists that are put together from one
list per copy (`FlattenSeq`) and sums over the blocks of a database (`MapThenSumSet`); what
such a fold computes for every input needs induction over data, which is out of reach
here.

## 5. Where the code and its texts disagree

The first is a run that expects a violation, and the finding in `PROJECT.json`
quotes the lines. The next seven can be reproduced with the configurations named,
each of which TLC reports violated; the properties of the passing runs state what is left
where these do not hold.

1. `flow_forced`: `NLM_FLOW_FORCE_ONE_FD` clears `last_pd` only (2306). With a chain
   of the flow waiting for the input ring, the next job is neither linked nor
   given an FD, although the comment promises one, and is never scanned.
2. `MCStatefulFlow_zero.cfg`: with zero-length packets allowed, a stateful flow on
   which only such packets were started counts as never used, and destroying it
   frees it while its job is with the device (3387).
3. `MCStatelessFlow_freed.cfg`: with a manager thread stateless jobs are not
   counted when they start, so a flow can be freed with jobs in flight (3286).
4. `MCDirectOutput_erratum.cfg`: a match ignored because its flow has errored is not
   marked as processed (3514). Of an RD that keeps the read pointer from moving the code says
   "some other ring will come in and take care of it" (3694-3695), which is `PointerMovesOn`.
   But one thread passes its own ignored matches and stops at the other's; with one
   of each in the ring no call moves the read pointer and the device stops.
   (If a new flow uses the slot of the errored one, the match is delivered for it.)
5. `MCManagedInput_blocked.cfg`: each pass starts with thread 0 and ends when the
   ring is full; a busy thread 0 keeps thread 1 from the device for ever (3811).
6. `MCLoader_count.cfg`: `nlm_device_database_get_num_copies` asserts that a database
   without copies has no blocks (`loader_fms.c` 944). With the asynchronous policy an
   unload deletes the last array block and the shadow block in two commands; a
   query between them fails the assertion.
7. `MCRingSession_ring0.cfg`: "For Ring0, we will never hit the last thread here"
   (2045-2047, `Ring0NeverLast`) is not so with a manager thread, which lowers
   `threads_attached` without having raised it: the context ring is emptied by a detach, and
   `nlm_device_fini` then returns `NLM_DEVICE_CONTEXT_FAIL`.
8. `MCRingSession_edits.cfg`: `ringdemo.c` changes the DDR part of the configuration of a slave ring
   after the ring was attached with it (742). The threads that attach afterwards are
   refused. A data-plane thread that was refused does not come to the barrier of `packet_process`
   (`ringdemo.c` 530-536), and a manager that was refused answers no jobs, so with a second
   data-plane thread or a manager the ring's thread 0 waits for ever (`ProgramEnds`).
   `SessionEnds` is stated for the other sessions.

Noted while modelling, without a run:

* A batch of stateless jobs that does not fit in the ring is taken back, but
  `job_seq_id` stays raised (3312-3315); a flow it happened to is never freed
  afterwards. `DestroyedFlowFreed` is stated for flows whose count is right.
* After `NLM_FLOW_FORCE_ONE_FD` with a chain in the device, the assertion at 3221
  can fail.
* The FD of a stateful flow is stored through the null pointer
  `peek_job_fifo_input` returns for a full FIFO (3089).
* The owner of a device may open it twice; closing one of the files makes the device
  free while the other is open (`netl7driver.c` 590), hence the condition in
  `ExclusiveAccess`.
* A DDR size of 2^32 or more is stored as 0 for the other rings (1552), which then
  do not see an overlap; `RingsApart` excepts such sizes.
* A balance asked for while commands wait counts blocks those commands are about to
  change; it can fail an assertion or look for ever for a copy that is not
  there yet (`loader_fms.c` 1083-1148). `hasty` marks these behaviours.
* `store_phys_addr_into_pd` takes no lock (2779-2824): two threads can take the same
  free slot, and a packet is then read from the wrong window.
* If the number of free pages is a multiple of the page table's size, the driver's
  last batch is empty, page 0 is taken for a chunk and returned to the kernel, and
  loading fails (`netl7driver.c` 1011). `ReturnsItsPages` proves that this is the only way
  in which a page is returned that was not taken. If no chunk is large enough, the first element
  of an empty list is read (1140).
* `compare_addresses` truncates a difference of addresses to an `int` (`netl7driver.c` 918), so
  with pages 2^31 bytes and more apart the table need not be sorted. Contiguous pages are
  then missed, and nothing worse (section 4).

## 6. Assumptions and what is not modelled

* The two stores to the last PD (`sw_disconnect`, `pd_nla_index`) and the
  initialisation of a PD before its link are seen by the device in program order.
* An application does not use the handle of a job whose flow it has destroyed.
* Several threads with stateful flows on one input ring, batches that mix
  stateless and stateful jobs, and `NLM_FLOW_OFFSET` on a live flow are not
  modelled.
* A failed enqueue takes a job from the pool and does not give it back
  (2865-2888); the models have that loss, and no property forbids it.
* In managed mode an FD that only reinitialises a flow leaves old fields in
  the slot of the software FIFO; the fields it does not set are not modelled.
* `nlm_free_device_config` does not unmap packet memory, so a file stays in use
  until exit; the driver model lets files be closed at any time, which includes
  that.
* In RingSession all rings are PCIe rings. The content of system memory is not
  modelled: a ring clears its memory (1303) before it checks that no other ring
  uses it.
* A block drops its READY bit as soon as it is resumed. The loader has a command that waits for
  that (`RESUME_WAIT`, `loader_fms.c` 666-675) but queues it nowhere, so a slow device could meet the
  assertion at the next pause (103); that is a matter of the device's timing.
* In `packet_process` of `ringdemo.c` no call of the library fails (`TRY`, 518-527 and 554-597): a
  data-plane thread that was attached comes to the barrier and finishes its work.
* The loader's databases are lists of blocks; the rows, groups and action tables of
  a block, and the parsing of a database image, are left out.
* Probing of devices and the /proc tree of the driver are calls to the kernel in
  sequence.
* Register sequences (reset, configuration, DDR calibration), system calls of the
  set-up code, SHA-2, printing, the demonstration programs and libpcap are left
  out: their outcome is decided by the device or the system, or they are not
  part of this program's logic.

  Most of the repository's lines are of this kind (libpcap, register tables, the
  DDR controller, `dpi_loop.c`), so the models cover a small share of the lines and
  most of the library's own control.

## 7. Plan

Done: the FIFO with its proofs, both kinds of flows, both ways of delivering
results, the manager thread, memory pools, packet windows, the loader, ring set-up
and shutdown, the driver's memory and device ownership.

Proved: the safety properties of every module but `Loader`, whose properties stay with TLC
(section 4).

Left for modelling: flows of several threads on one input ring, with the manager
thread's FIFOs; a composition of both sides of the manager thread, in which the
numbers of jobs and of their results are the same.
