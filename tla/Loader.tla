------------------------------- MODULE Loader -------------------------------
(***************************************************************************)
(* The database loader.  A database is a list of blocks; its image is      *)
(* written to blocks of shadow memory, and every shadow block is copied to *)
(* one or more blocks of the device's array.  Loading, unloading and the   *)
(* change of the number of copies put commands into a FIFO, which is       *)
(* executed one command per call of nlm_device_loader_cmd_exec_fms: at     *)
(* once with the default policy, by the polls of the caller with the       *)
(* asynchronous one.  All calls are made by thread 0 of ring 0.            *)
(*                                                                         *)
(* The device copies blocks, stops blocks and stores block numbers in its  *)
(* own time.  Packets are searched all along: in timeslot c a group of a   *)
(* database is searched in the array blocks its bitmap lists for c.        *)
(* Abstracted: the rows, action tables and groups of a block.  A pause has *)
(* no timeout: nothing sets pause_timeout, whose 0 stands for "forever".   *)
(* A copy is done before the loader has looked for it 2^32 - 1 times       *)
(* (FMS_MAX_DMA_WAIT_TIMEOUT).                                             *)
(***************************************************************************)
EXTENDS Integers, Sequences, FiniteSetsExt, SequencesExt

CONSTANTS
    NumBlocks,  \* num_fms_blocks
    NumDbs,     \* NLM_MAX_DATABASE_ID + 1
    MaxBlocks,  \* bound: blocks of a database that is loaded
    MaxCopies   \* 4

Block == 0 .. NumBlocks - 1
Db == 0 .. NumDbs - 1
NoDb == NumDbs

BufferSize == 14 * NumBlocks  \* NLM_FMS_LOADER_CMD_BUFF_SIZE

ASSUME LoaderAssumption ==
    /\ NumBlocks \in Nat \ {0} /\ NumDbs \in Nat \ {0}
    /\ MaxBlocks \in 1 .. NumBlocks /\ MaxCopies \in Nat \ {0}

VARIABLES
    async,   \* database_load_policy is NLM_DATABASE_LOAD_POLICY_ASYNC
    queue,   \* loader_cmd_mem from cmd_rd_ptr to cmd_wr_ptr
    shadow,  \* database_shadow_map
    array,   \* array_virt_ids, array_block_map_current and _target, _copy_number
    sched,   \* per database, gid_bmap_shadow and the device's bitmaps: pairs of
             \*   an array block and a timeslot
    pc,      \* where thread 0 is
    req,     \* the call it is in
    bal,     \* nlm_device_database_balance: its phase, database and num_copies
    dma,     \* the copy the device is making: a shadow and an array block
    content, \* per array block, the database whose rows the device holds there
    idle,    \* BLOCK_IDLE_CHECK: blocks asked to pause
    ready,   \* BLOCK_IDLE_READY: blocks that have paused
    storing, \* FAMOS_CTRL: the device is storing a block number
    hasty    \* history: a balance was asked for while commands were waiting

maps == <<shadow, array, sched>>
device == <<dma, content, idle, ready, storing>>
thread == <<pc, req, bal>>
vars == <<async, queue, maps, thread, device, hasty>>

NoBalance == [phase |-> "none", db |-> 0, copies |-> 0]
NoRequest == [op |-> "none", db |-> 0, blocks |-> 0, copies |-> 0]
NoBlock == [virt |-> 0, current |-> FALSE, target |-> FALSE, copy |-> 0]
NoDma == [array |-> NumBlocks, shadow |-> NumBlocks]

Init ==
    /\ async \in BOOLEAN
    /\ queue = <<>>
    /\ shadow = [i \in Block |-> [valid |-> FALSE, db |-> 0, current |-> 0, target |-> 0]]
    /\ array = [j \in Block |-> NoBlock]
    /\ sched = [d \in Db |-> {}]
    /\ pc = "idle" /\ req = NoRequest /\ bal = NoBalance
    /\ dma = NoDma /\ content = [j \in Block |-> NoDb]
    /\ idle = {} /\ ready = {} /\ storing = FALSE
    /\ hasty = FALSE

-----------------------------------------------------------------------------
ShadowFree == {i \in Block : ~shadow[i].valid}
ShadowOf(d) == {i \in Block : shadow[i].valid /\ shadow[i].db = d}
ArrayFree == {j \in Block : ~array[j].target}

Cmd(op, i, j) == [op |-> op, shadow |-> i, array |-> j]

(* The commands of nlm_device_loader_clone and nlm_device_loader_declone.  *)
CloneCmds(i, j) ==
    << Cmd("dma", i, j), Cmd("dmaWait", i, j), Cmd("action", i, j), Cmd("virt", i, j),
       Cmd("virtWait", i, j), Cmd("add", i, j) >>

(* The block is not stopped. *)
DecloneCmdsRunning(i, j) == << Cmd("delete", i, j), Cmd("resume", i, j) >>

DecloneCmds(i, j) ==
    << Cmd("pause", i, j), Cmd("pauseWait", i, j), Cmd("delete", i, j), Cmd("resume", i, j) >>

-----------------------------------------------------------------------------
(* The calls of thread 0. *)

(* Load, unload, and NLM_DATABASE_COPY_CNT: each begins with a step of the *)
(* loader and gives up if that leaves commands to do.                      *)
Request(op, d, blocks, copies) ==
    /\ pc = "idle"
    /\ pc' = "check"
    /\ req' = [op |-> op, db |-> d, blocks |-> blocks, copies |-> copies]
    /\ UNCHANGED <<async, queue, maps, bal, device, hasty>>

BeginBalance(occupied) ==
    bal' = [phase |-> "shrink", db |-> 0, copies |-> Min({MaxCopies, NumBlocks \div occupied})]

(* NLM_DATABASE_BALANCE: no look at the commands that wait. *)
Balance ==
    /\ pc = "idle"
    /\ ShadowFree # Block
    /\ BeginBalance(NumBlocks - Cardinality(ShadowFree))
    /\ pc' = "balance"
    /\ req' = [NoRequest EXCEPT !.op = "balance"]
    /\ hasty' = (hasty \/ queue # <<>>)
    /\ UNCHANGED <<async, queue, maps, device>>

(* NLM_DATABASE_LOADER_STATUS *)
Poll ==
    /\ pc = "idle" /\ queue # <<>>
    /\ pc' = "poll"
    /\ UNCHANGED <<async, queue, maps, req, bal, device, hasty>>

(* nlm_device_database_get_num_copies *)
CopyCount(d) ==
    /\ pc = "idle" /\ ShadowOf(d) # {}
    /\ \A i \in ShadowOf(d) : shadow[i].current = shadow[i].target
    /\ pc' = IF shadow[Max(ShadowOf(d))].current = 0 THEN "miscounts" ELSE "poll"
    /\ UNCHANGED <<async, queue, maps, req, bal, device, hasty>>

SetPolicy ==
    /\ pc = "idle"
    /\ async' = ~async
    /\ UNCHANGED <<queue, maps, thread, device, hasty>>

-----------------------------------------------------------------------------
(* nlm_device_loader_cmd_exec_fms: the command at the head of the FIFO.    *)
(* With the default policy the calls repeat it until the FIFO is empty.    *)

Executing == pc \in {"check", "poll", "once", "all"}
Head0 == Head(queue)
At(op) == Executing /\ queue # <<>> /\ Head0.op = op

(* Thread 0 goes on, or returns from its call. *)
Goto(p) == pc' = p /\ req' = IF p = "idle" THEN NoRequest ELSE req

(* What the caller of the loader step does with its status. *)
Resume(busy) ==
    Goto(CASE pc = "check" -> IF busy THEN "idle" ELSE "do"
           [] pc = "all" /\ busy -> "all"
           [] pc \in {"once", "all"} /\ ~(pc = "all" /\ busy) /\ bal # NoBalance -> "balance"
           [] OTHER -> "idle")

Advance == queue' = Tail(queue) /\ Resume(Len(queue) > 1)

ExecNothing ==
    /\ Executing /\ queue = <<>>
    /\ Resume(FALSE)
    /\ UNCHANGED <<async, queue, maps, bal, device, hasty>>

(* A command that waits for the device. *)
Waiting ==
    \/ At("dmaWait") /\ dma # NoDma
    \/ At("virtWait") /\ storing
    \/ At("pauseWait") /\ Head0.array \notin ready

ExecWaits ==
    /\ Waiting
    /\ Resume(TRUE)
    /\ UNCHANGED <<async, queue, maps, bal, device, hasty>>

(* An assertion of the loader fails. *)
Aborts ==
    /\ pc' = "aborts"
    /\ UNCHANGED <<async, queue, maps, req, bal, device, hasty>>

ExecDma ==
    /\ At("dma")
    /\ IF dma # NoDma THEN Aborts
       ELSE /\ dma' = [array |-> Head0.array, shadow |-> Head0.shadow]
            /\ Advance
            /\ UNCHANGED <<async, maps, bal, content, idle, ready, storing, hasty>>

(* The wait is over, or there is nothing to do but registers to write. *)
ExecPlain ==
    /\ \/ At("dmaWait") /\ dma = NoDma
       \/ At("pauseWait") /\ Head0.array \in ready
       \/ At("action")
    /\ Advance
    /\ UNCHANGED <<async, maps, bal, device, hasty>>

ExecVirt ==
    /\ At("virt")
    /\ storing' = TRUE
    /\ Advance
    /\ UNCHANGED <<async, maps, bal, dma, content, idle, ready, hasty>>

ExecVirtWait ==
    /\ At("virtWait") /\ ~storing
    /\ array' = [array EXCEPT ![Head0.array].virt = Head0.shadow]
    /\ Advance
    /\ UNCHANGED <<async, shadow, sched, bal, device, hasty>>

ExecAdd ==
    /\ At("add")
    /\ array' = [array EXCEPT ![Head0.array].current = TRUE,
                              ![Head0.array].copy = shadow[Head0.shadow].current]
    /\ shadow' = [shadow EXCEPT ![Head0.shadow].current = @ + 1]
    /\ Advance
    /\ UNCHANGED <<async, sched, bal, device, hasty>>

(* The device refuses to delete a block that has not stopped.  The numbers *)
(* and rows of a deleted block are not read before they are set again: the *)
(* model forgets them.                                                     *)
ExecDelete ==
    /\ At("delete")
    /\ IF Head0.array \notin ready THEN Aborts
       ELSE /\ array' = [array EXCEPT ![Head0.array] = [NoBlock EXCEPT !.target = array[Head0.array].target]]
            /\ content' = [content EXCEPT ![Head0.array] = NoDb]
            /\ shadow' = [shadow EXCEPT ![Head0.shadow].current = @ - 1]
            /\ Advance
            /\ UNCHANGED <<async, sched, bal, dma, idle, ready, storing, hasty>>

ExecShadowDelete ==
    /\ At("shadowDelete")
    /\ IF shadow[Head0.shadow].current # 0 THEN Aborts
       ELSE /\ shadow' = [shadow EXCEPT ![Head0.shadow].valid = FALSE, ![Head0.shadow].db = 0]
            /\ Advance
            /\ UNCHANGED <<async, array, sched, bal, device, hasty>>

(* The device is not told. *)
ExecPauseNot ==
    /\ At("pause")
    /\ Advance
    /\ UNCHANGED <<async, maps, bal, device, hasty>>

ExecPause ==
    /\ At("pause")
    /\ IF Head0.array \in ready THEN Aborts
       ELSE /\ idle' = idle \cup {Head0.array}
            /\ Advance
            /\ UNCHANGED <<async, maps, bal, dma, content, ready, storing, hasty>>

(* The device is taken to drop READY at once: the loader has a command     *)
(* that waits for it (RESUME_WAIT), but queues it nowhere.                 *)
ExecResume ==
    /\ At("resume")
    /\ idle' = idle \ {Head0.array}
    /\ ready' = ready \ {Head0.array}
    /\ Advance
    /\ UNCHANGED <<async, maps, bal, dma, content, storing, hasty>>

(* The blocks whose copies are still to come. *)
GidBlocksEarlier(d, copies) ==
    {j \in Block : array[j].virt \in ShadowOf(d) /\ array[j].current
                   /\ shadow[array[j].virt].current < copies}

(* The array blocks that hold a copy of a block with this many copies. *)
GidBlocks(d, copies) ==
    {j \in Block : array[j].virt \in ShadowOf(d) /\ array[j].current
                   /\ shadow[array[j].virt].current = copies}

ExecGidBmap ==
    /\ At("gid")
    /\ LET d == shadow[Head0.shadow].db IN
          sched' = [sched EXCEPT ![d] =
              @ \cup {<<j, array[j].copy>> : j \in GidBlocks(d, Head0.array)}]
    /\ Advance
    /\ UNCHANGED <<async, shadow, array, bal, device, hasty>>

Exec ==
    \/ ExecNothing \/ ExecWaits \/ ExecDma \/ ExecPlain \/ ExecVirt \/ ExecVirtWait
    \/ ExecAdd \/ ExecDelete \/ ExecShadowDelete \/ ExecPause \/ ExecResume \/ ExecGidBmap

-----------------------------------------------------------------------------
(* The calls, once the loader was found idle. *)

(* The first free blocks of shadow memory. *)
ShadowFor(blocks) == {i \in ShadowFree : Cardinality({k \in ShadowFree : k < i}) < blocks}

(* nlm_device_load_database *)
Load ==
    /\ pc = "do" /\ req.op = "load"
    /\ IF \/ ShadowOf(req.db) # {}
          \/ req.blocks * req.copies > Cardinality(ArrayFree)
          \/ req.blocks > Cardinality(ShadowFree)
       THEN Goto("idle") /\ UNCHANGED <<shadow, bal>>
       ELSE /\ shadow' = [i \in Block |-> IF i \in ShadowFor(req.blocks)
                              THEN [shadow[i] EXCEPT !.valid = TRUE, !.db = req.db] ELSE shadow[i]]
            /\ IF req.copies > 0 THEN Goto("set") /\ UNCHANGED bal
               ELSE /\ pc' = "balance"
                    /\ req' = [req EXCEPT !.op = "balance"]
                    /\ BeginBalance(NumBlocks - Cardinality(ShadowFree) + req.blocks)
    /\ UNCHANGED <<async, queue, array, sched, device, hasty>>

CopiesOf(i) == {j \in Block : array[j].current /\ array[j].virt = i}

(* The commands that delete a shadow block and its copies. *)
UnloadCmds(i) ==
    FlattenSeq([n \in 1 .. Cardinality(CopiesOf(i)) |->
                   DecloneCmds(i, SetToSortSeq(CopiesOf(i), <)[n])])
    \o << Cmd("shadowDelete", i, 0) >>

(* The bitmaps keep the blocks that are about to be deleted. *)
UnloadUnscheduledNot ==
    /\ pc = "do" /\ req.op = "unload"
    /\ LET blocks == ShadowOf(req.db) IN
       /\ queue' = queue \o FlattenSeq([n \in 1 .. Cardinality(blocks) |->
                                            UnloadCmds(SetToSortSeq(blocks, <)[n])])
       /\ array' = [j \in Block |-> IF \E i \in blocks : j \in CopiesOf(i)
                                    THEN [array[j] EXCEPT !.target = FALSE] ELSE array[j]]
       /\ shadow' = [i \in Block |-> IF i \in blocks
                        THEN [shadow[i] EXCEPT !.target = @ - Cardinality(CopiesOf(i))]
                        ELSE shadow[i]]
       /\ Goto(IF blocks = {} THEN "idle" ELSE IF async THEN "once" ELSE "all")
    /\ UNCHANGED <<async, sched, bal, device, hasty>>

(* nlm_device_unload_database *)
Unload ==
    /\ pc = "do" /\ req.op = "unload"
    /\ LET blocks == ShadowOf(req.db) IN
       /\ queue' = queue \o FlattenSeq([n \in 1 .. Cardinality(blocks) |->
                                            UnloadCmds(SetToSortSeq(blocks, <)[n])])
       /\ array' = [j \in Block |-> IF \E i \in blocks : j \in CopiesOf(i)
                                    THEN [array[j] EXCEPT !.target = FALSE] ELSE array[j]]
       /\ shadow' = [i \in Block |-> IF i \in blocks
                        THEN [shadow[i] EXCEPT !.target = @ - Cardinality(CopiesOf(i))]
                        ELSE shadow[i]]
       /\ sched' = [sched EXCEPT ![req.db] =
              @ \ {<<j, array[j].copy>> : j \in {k \in Block : \E i \in blocks : k \in CopiesOf(i)}}]
       /\ Goto(IF blocks = {} THEN "idle" ELSE IF async THEN "once" ELSE "all")
    /\ UNCHANGED <<async, bal, device, hasty>>

SetCopies ==
    /\ pc = "do" /\ req.op = "copies"
    /\ pc' = "set"
    /\ UNCHANGED <<async, queue, maps, req, bal, device, hasty>>

(* nlm_device_database_balance: first the databases with too many copies,  *)
(* then those with too few, in the order of their numbers.                 *)
NeedsChange ==
    /\ ShadowOf(bal.db) # {}
    /\ LET current == shadow[Min(ShadowOf(bal.db))].current IN
          IF bal.phase = "shrink" THEN current > bal.copies ELSE current < bal.copies

NextBalance ==
    IF bal.db < NumDbs - 1 THEN [bal EXCEPT !.db = @ + 1]
    ELSE IF bal.phase = "shrink" THEN [bal EXCEPT !.phase = "grow", !.db = 0]
    ELSE NoBalance

BalanceChange ==
    /\ pc = "balance" /\ NeedsChange
    /\ req' = [req EXCEPT !.db = bal.db, !.copies = bal.copies]
    /\ bal' = NextBalance
    /\ pc' = "set"
    /\ UNCHANGED <<async, queue, maps, device, hasty>>

BalanceNext ==
    /\ pc = "balance" /\ ~NeedsChange
    /\ bal' = NextBalance
    /\ Goto(IF NextBalance = NoBalance THEN "idle" ELSE "balance")
    /\ UNCHANGED <<async, queue, maps, device, hasty>>

-----------------------------------------------------------------------------
(* nlm_device_database_set_num_copies *)

Required == MapThenSumSet(LAMBDA i : req.copies - shadow[i].target, ShadowOf(req.db))

(* No database, no room (which nlm_device_database_balance takes for       *)
(* impossible), or blocks with different numbers of copies: the assertion  *)
(* leaves out the last block, whose number decides what is to be done.     *)
BeginSet ==
    /\ pc = "set"
    /\ LET blocks == ShadowOf(req.db)
           last == Max(blocks)
       IN Goto(IF blocks = {} THEN "idle"
               ELSE IF Required > Cardinality(ArrayFree)
               THEN IF req.op = "balance" THEN "aborts" ELSE "idle"
               ELSE IF \E i, k \in blocks \ {last} : shadow[i].target # shadow[k].target
               THEN "aborts"
               ELSE IF req.copies > shadow[last].target THEN "grow" ELSE "shrink")
    /\ UNCHANGED <<async, queue, maps, bal, device, hasty>>

(* One more copy of a block; the last block of a round is followed by the  *)
(* update of the bitmaps.                                                  *)
Grow ==
    /\ pc = "grow"
    /\ LET fewest == Min({shadow[i].target : i \in ShadowOf(req.db)})
           left == {i \in ShadowOf(req.db) : shadow[i].target = fewest}
           i == Min(left)
           j == Min(ArrayFree)
       IN /\ fewest < req.copies
          /\ IF ArrayFree = {} THEN Aborts
             ELSE /\ array' = [array EXCEPT ![j].target = TRUE]
                  /\ shadow' = [shadow EXCEPT ![i].target = @ + 1]
                  /\ queue' = queue \o CloneCmds(i, j) \o
                        IF left = {i} THEN << Cmd("gid", Min(ShadowOf(req.db)), fewest + 1) >> ELSE <<>>
                  /\ UNCHANGED <<async, sched, thread, device, hasty>>

(* The last copy of a block that has too many.  If no array block holds it *)
(* the search for it does not end.                                         *)
Shrink ==
    /\ pc = "shrink"
    /\ LET many == {i \in ShadowOf(req.db) : shadow[i].target > req.copies}
           i == Min(many)
           last == {j \in CopiesOf(i) : array[j].copy + 1 = shadow[i].target}
       IN /\ many # {}
          /\ IF last = {} THEN pc' = "hangs" /\ UNCHANGED <<queue, maps>>
             ELSE \E j \in last :
                   /\ sched' = [sched EXCEPT ![req.db] = @ \ {<<j, array[j].copy>>}]
                   /\ array' = [array EXCEPT ![j].target = FALSE]
                   /\ shadow' = [shadow EXCEPT ![i].target = @ - 1]
                   /\ queue' = queue \o DecloneCmds(i, j)
                   /\ UNCHANGED pc
    /\ UNCHANGED <<async, req, bal, device, hasty>>

(* All blocks have their number of copies, or will have. *)
EndSet ==
    /\ pc \in {"grow", "shrink"}
    /\ \A i \in ShadowOf(req.db) : shadow[i].target = req.copies
    /\ pc' = IF async THEN "once" ELSE "all"
    /\ UNCHANGED <<async, queue, maps, req, bal, device, hasty>>

Call ==
    \/ Load \/ Unload \/ SetCopies \/ BalanceChange \/ BalanceNext
    \/ BeginSet \/ Grow \/ Shrink \/ EndSet

-----------------------------------------------------------------------------
(* The device. *)
DmaDone ==
    /\ dma # NoDma
    /\ content' = [content EXCEPT ![dma.array] = shadow[dma.shadow].db]
    /\ dma' = NoDma
    /\ UNCHANGED <<async, queue, maps, thread, idle, ready, storing, hasty>>

Stored ==
    /\ storing
    /\ storing' = FALSE
    /\ UNCHANGED <<async, queue, maps, thread, dma, content, idle, ready, hasty>>

Paused(j) ==
    /\ j \in idle \ ready
    /\ ready' = ready \cup {j}
    /\ UNCHANGED <<async, queue, maps, thread, dma, content, idle, storing, hasty>>

Device == DmaDone \/ Stored \/ \E j \in Block : Paused(j)

(* After a hasty balance nothing new is asked for: what it leaves behind   *)
(* is not bounded, and no property is claimed of it.                       *)
Ask ==
  /\ ~hasty
  /\ \/ \E d \in Db :
           \/ \E blocks \in 1 .. MaxBlocks, copies \in 0 .. MaxCopies :
                 Request("load", d, blocks, copies)
           \/ Request("unload", d, 0, 0)
           \/ \E copies \in 1 .. MaxCopies : Request("copies", d, 0, copies)
           \/ CopyCount(d)
     \/ Balance \/ SetPolicy

Next == Ask \/ Poll \/ Exec \/ Call \/ Device

Spec ==
    /\ Init /\ [][Next]_vars
    /\ WF_vars(Exec) /\ WF_vars(Call) /\ WF_vars(Device)
    /\ SF_vars(Poll)

-----------------------------------------------------------------------------
Gone == pc \in {"hangs", "aborts", "miscounts"}

TypeOK ==
    /\ async \in BOOLEAN /\ hasty \in BOOLEAN /\ storing \in BOOLEAN
    /\ \A n \in 1 .. Len(queue) : queue[n].shadow \in Block /\ queue[n].array \in 0 .. Max({NumBlocks, MaxCopies})
    /\ shadow \in [Block -> [valid : BOOLEAN, db : Db, current : Nat, target : Nat]]
    /\ array \in [Block -> [virt : Block, current : BOOLEAN, target : BOOLEAN, copy : Nat]]
    /\ sched \in [Db -> SUBSET (Block \X (0 .. MaxCopies - 1))]
    /\ pc \in {"idle", "check", "poll", "once", "all", "do", "balance", "set", "grow", "shrink"} \/ Gone
    /\ content \in [Block -> Db \cup {NoDb}]
    /\ ready \subseteq idle /\ idle \subseteq Block

(* The FIFO of commands has room for what a call adds to it, also behind   *)
(* commands that still wait: the code asserts that it does not overrun.    *)
(* Unless a balance is asked for while commands wait, the loader neither   *)
(* fails one of its assertions nor searches for ever for a copy that is    *)
(* not there yet: no block is deleted while it runs, no shadow block while *)
(* it has copies, a balance always has room.                               *)
AssertionsHold ==
    /\ TypeOK
    /\ Len(queue) < BufferSize
    /\ pc \in {"aborts", "hangs"} => hasty

(* What is searched is there: an array block that the bitmaps of a         *)
(* database list is part of the array, holds rows of that database, and is *)
(* not being overwritten.                                                  *)
SearchedBlocksLoaded ==
    hasty \/ \A d \in Db : \A s \in sched[d] :
        array[s[1]].current /\ content[s[1]] = d /\ dma.array # s[1]

(* When all commands are done every database has the number of copies it   *)
(* was given last, each in a timeslot of its own with all its blocks.      *)
CopiesComplete ==
    hasty \/ Gone \/ queue # <<>> \/ pc \in {"grow", "shrink", "set", "balance"} \/
    \A d \in Db :
        /\ sched[d] = {<<j, array[j].copy>> : j \in {k \in Block : array[k].current /\ array[k].virt \in ShadowOf(d)}}
        /\ \A i \in ShadowOf(d) :
              /\ shadow[i].current = shadow[i].target
              /\ {array[j].copy : j \in CopiesOf(i)} = 0 .. shadow[i].target - 1
              /\ Cardinality(CopiesOf(i)) = shadow[i].target

(* nlm_device_database_get_num_copies asserts that a database without      *)
(* copies has no blocks.                                                   *)
CopyCountAnswers == pc # "miscounts"

(* A caller that polls gets to the end of its request. *)
LoaderFinishes == queue # <<>> ~> (queue = <<>> \/ Gone)
=============================================================================
