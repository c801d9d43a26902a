--------------------------- MODULE DriverMemory ---------------------------
(***************************************************************************)
(* The memory of the driver (netl7driver.c): when the module is loaded it  *)
(* divides a region that was set aside at boot among the devices, or takes *)
(* every free page of the kernel, keeps the contiguous chunks, gives them  *)
(* to the devices and the rest back; a device can be opened (DriverAccess) *)
(* while the module is loaded, and the memory is returned at module exit.  *)
(*                                                                         *)
(* An address is a number, page p starts at p * PageSize. The kernel       *)
(* (external) hands out any free page it likes, and page 0 never.          *)
(***************************************************************************)
EXTENDS DriverAccess, Integers, Sequences, SequencesExt

CONSTANTS
    PageSize,
    NumDevices,     \* n_devices: the devices (of a FAMOS device, the rings) found
    TableSize,      \* entries of the page table that find_free_chunks fills
    SortSpan,       \* compare_addresses is right for pages less than this apart
    PageThreshold,  \* chunks of fewer pages are not kept
    PhysSize,       \* fixed_phys_size in dynamic mode: bytes to look for
    DmaSize,        \* dmamem_size
    FreeSets,       \* the sets of free pages considered
    Regions         \* the regions set aside at boot considered: [base, size]

ASSUME MemoryAssumption ==
    /\ PageSize \in Nat \ {0} /\ TableSize \in Nat \ {0} /\ PageThreshold \in Nat \ {0, 1}
    /\ NumDevices \in Nat \ {0} /\ SortSpan \in Nat
    /\ PhysSize \in Nat \ {0} /\ PhysSize % PageSize = 0 /\ DmaSize \in Nat \ {0}
    /\ \A s \in FreeSets : IsFiniteSet(s) /\ s \subseteq Nat \ {0}
    /\ \A r \in Regions : /\ r.base \in Nat \ {0} /\ r.size \in Nat \ {0}
                           /\ r.size >= (-r.base) % PageSize

VARIABLES
    phase,      \* how far the module is
    region,     \* [base, size] set aside at boot, or base 0 (dynamic mode)
    free,       \* the kernel's free pages
    own,        \* the pages the driver has taken and not returned
    table,      \* page_table: the pages taken that are in no list yet
    sorted,     \* page_table has been sorted properly
    good,       \* good_list: chunks, largest first
    poor,       \* free_list: chunks to be returned
    taken,      \* total_pages_alloced
    listed,     \* total_pages_rec: the pages of the chunks in both lists
    mem,        \* device_list: system and packet memory of every device
    stray       \* history: a page was freed that the driver did not hold
memory == <<phase, region, free, own, table, sorted, good, poor, taken, listed, mem, stray>>

Device == 0 .. NumDevices - 1
NoMemory == [base |-> 0, size |-> 0]
AllOf(x) == [i \in Device |-> x]

MemoryInit ==
    /\ phase = "unloaded"
    /\ \/ region = NoMemory /\ free \in FreeSets
       \/ region \in Regions /\ free = {}
    /\ own = {} /\ table = {} /\ sorted = TRUE
    /\ good = << >> /\ poor = {} /\ taken = 0 /\ listed = 0
    /\ mem = [sys |-> AllOf(NoMemory), packet |-> AllOf(NoMemory)]
    /\ stray = FALSE

RoundUp(a) == ((a + PageSize - 1) \div PageSize) * PageSize
RoundDown(a) == (a \div PageSize) * PageSize

---------------------------------------------------------------------------
(***************************************************************************)
(* fixed_memory_chunking: the region, from the first page boundary in it,  *)
(* is divided evenly; every device gets system memory, and behind all of   *)
(* these its packet memory. The last test takes the region's size from its *)
(* unaligned start.                                                        *)
(***************************************************************************)
Remaining(base, size) == size - (RoundUp(base) - base)
Share(base, size) == RoundDown(Remaining(base, size) \div NumDevices)
Dma == RoundDown(DmaSize)
TooSmall(base, size) == Dma > Share(base, size)

ChunksOverlapping(base, size) ==
    LET start == RoundUp(base)
        sys == Share(base, size)
    IN  [sys |-> [i \in Device |-> [base |-> start + i * sys, size |-> sys]],
         packet |-> [i \in Device |-> [base |-> start + NumDevices * (sys - Dma) + i * Dma,
                                       size |-> Dma]]]

Chunks(base, size) ==
    LET start == RoundUp(base)
        sys == Share(base, size) - Dma
    IN  [sys |-> [i \in Device |-> [base |-> start + i * sys, size |-> sys]],
         packet |-> [i \in Device |->
                       [base |-> start + NumDevices * sys + i * Dma, size |-> Dma]]]
PastTheEnd(base, size) ==
    RoundUp(base) + NumDevices * Share(base, size) > base + Remaining(base, size)

\* memory_manager_init ends in fixed_memory_chunking.
Carve(base, size) ==
    IF TooSmall(base, size) THEN phase' = "failed" /\ UNCHANGED mem
    ELSE /\ mem' = Chunks(base, size)
         /\ phase' = IF PastTheEnd(base, size) THEN "failed" ELSE "loaded"

LoadFixed ==
    /\ phase = "unloaded" /\ region # NoMemory
    /\ Carve(region.base, region.size)
    /\ UNCHANGED <<region, free, own, table, sorted, good, poor, taken, listed, stray>>

---------------------------------------------------------------------------
(***************************************************************************)
(* Giving pages back: only what the driver holds is its to give.           *)
(***************************************************************************)
PagesOf(c) == c.start .. c.start + c.npages - 1
ReleasePages(pages) ==
    /\ own' = own \ pages
    /\ free' = free \cup (pages \cap own)
    /\ stray' = (stray \/ ~(pages \subseteq own))

ReleaseChunksPast(chunks) ==
    ReleasePages(UNION {c.start .. c.start + c.npages : c \in chunks})

ReleaseChunks(chunks) == ReleasePages(UNION {PagesOf(c) : c \in chunks})

(***************************************************************************)
(* find_free_chunks takes pages until the page table is full or the kernel *)
(* has no more, and sorts them. compare_addresses returns the difference   *)
(* of two addresses as an int, so that pages far apart may come in any     *)
(* order.                                                                  *)
(***************************************************************************)
SortsProperly(pages) == \A p, q \in pages : p - q < SortSpan

FillTable ==
    /\ phase \in {"unloaded", "scan"} /\ region = NoMemory
    /\ \E batch \in SUBSET free :
         /\ Cardinality(batch) = TableSize \/ (batch = free /\ Cardinality(free) < TableSize)
         /\ table' = batch
         /\ sorted' = SortsProperly(batch)
         /\ free' = free \ batch
         /\ own' = own \cup batch
         /\ taken' = taken + Cardinality(batch)
         /\ phase' = IF Cardinality(batch) = TableSize THEN "full" ELSE "part"
    /\ UNCHANGED <<region, good, poor, listed, mem, stray>>

\* insert_into_sorted_list: before the first chunk that is smaller.
InsertSorted(c) ==
    \E at \in 1 .. Len(good) + 1 :
      /\ \A k \in 1 .. at - 1 : ~(c.npages > good[k].npages)
      /\ at <= Len(good) => c.npages > good[at].npages
      /\ good' = InsertAt(good, at, c)

\* A chunk is kept or is to be returned.
List(c) ==
    /\ \/ c.npages < PageThreshold /\ poor' = poor \cup {c} /\ UNCHANGED good
       \/ c.npages >= PageThreshold /\ InsertSorted(c) /\ UNCHANGED poor
    /\ listed' = listed + c.npages

\* Consecutive pages; in a sorted table the first ones, and all of these.
RunsIn(pages) ==
    {c \in [start : pages, npages : 1 .. Cardinality(pages)] :
        /\ PagesOf(c) \subseteq pages
        /\ sorted => /\ \A p \in pages : c.start <= p
                     /\ c.start + c.npages \notin pages}

\* The next run of the table; after a full table, once more.
ListRun ==
    /\ phase \in {"full", "part"} /\ table # {}
    /\ \E c \in RunsIn(table) : List(c) /\ table' = table \ PagesOf(c)
    /\ phase' = IF table' # {} THEN phase ELSE IF phase = "full" THEN "scan" ELSE "sum"
    /\ UNCHANGED <<region, free, own, sorted, taken, mem, stray>>

\* The first entry of an empty, zeroed table: a run of one page, page 0.
ListEmptyTable ==
    /\ phase = "part" /\ table = {}
    /\ List([start |-> 0, npages |-> 1])
    /\ phase' = "sum"
    /\ UNCHANGED <<region, free, own, table, sorted, taken, mem, stray>>

\* The poor chunks go back; the sums of pages are compared (an error otherwise).
SumUp ==
    /\ phase = "sum"
    /\ ReleaseChunks(poor)
    /\ phase' = IF taken = listed THEN "assign" ELSE "failed"
    /\ poor' = {}
    /\ UNCHANGED <<region, table, sorted, good, taken, listed, mem>>

---------------------------------------------------------------------------
(***************************************************************************)
(* dynamic_memory_init with a largest chunk that is large enough: what is  *)
(* beyond the size wanted goes back with the other chunks.                 *)
(***************************************************************************)
WantedPages == PhysSize \div PageSize
Rest(c) == IF c.npages = WantedPages THEN {}
           ELSE {[start |-> c.start + WantedPages, npages |-> c.npages - WantedPages]}

AssignLargest ==
    /\ phase = "assign" /\ good # << >>
    /\ LET c == Head(good) IN
       /\ c.npages >= WantedPages
       /\ ReleaseChunks(Rest(c) \cup Range(Tail(good)))
       /\ Carve(c.start * PageSize, PhysSize)
    /\ good' = << >>
    /\ UNCHANGED <<region, table, sorted, poor, taken, listed>>

(***************************************************************************)
(* Otherwise every device gets a chunk for system memory, then one for     *)
(* packet memory. With too few chunks the module is not loaded, and what   *)
(* the driver has taken is not returned.                                   *)
(***************************************************************************)
ChunkAt(k) == [base |-> good[k].start * PageSize, size |-> good[k].npages * PageSize]
AssignEach ==
    /\ phase = "assign" /\ good # << >> /\ Head(good).npages < WantedPages
    /\ LET n == NumDevices
           given(k) == IF k <= Len(good) THEN ChunkAt(k) ELSE NoMemory
       IN  /\ mem' = [sys |-> [i \in Device |-> given(i + 1)],
                      packet |-> [i \in Device |-> given(n + i + 1)]]
           /\ IF Len(good) >= 2 * n
              THEN phase' = "loaded"
                   /\ ReleaseChunks(Range(SubSeq(good, 2 * n + 1, Len(good))))
              ELSE phase' = "failed" /\ UNCHANGED <<free, own, stray>>
    /\ good' = << >>
    /\ UNCHANGED <<region, table, sorted, poor, taken, listed>>

\* No chunk was kept: the code reads the page count of the first one.
AssignNone ==
    /\ phase = "assign" /\ good = << >>
    /\ phase' = "oops"
    /\ UNCHANGED <<region, free, own, table, sorted, good, poor, taken, listed, mem, stray>>

(***************************************************************************)
(* nlm_drv_module_exit, which the kernel calls when no file is open:       *)
(* memory_manager_fini returns what the devices have.                      *)
(***************************************************************************)
Memories == {mem.sys[i] : i \in Device} \cup {mem.packet[i] : i \in Device}
Exit ==
    /\ phase = "loaded" /\ \A f \in File : holders[f] = {}
    /\ IF region = NoMemory
       THEN ReleaseChunks({[start |-> m.base \div PageSize, npages |-> m.size \div PageSize] :
                            m \in {x \in Memories : x.base # 0}})
       ELSE UNCHANGED <<free, own, stray>>
    /\ phase' = "exited"
    /\ UNCHANGED <<region, table, sorted, good, poor, taken, listed, mem>>

MemoryNext ==
    \/ LoadFixed
    \/ FillTable \/ ListRun \/ ListEmptyTable \/ SumUp
    \/ AssignLargest \/ AssignEach \/ AssignNone
    \/ Exit

(***************************************************************************)
(* The driver: its files exist while it is loaded.                         *)
(***************************************************************************)
DriverInit == Init /\ MemoryInit
DriverNext ==
    \/ MemoryNext /\ UNCHANGED vars
    \/ phase = "loaded" /\ Next /\ UNCHANGED memory
DriverSpec == DriverInit /\ [][DriverNext]_<<vars, memory>>

---------------------------------------------------------------------------
(***************************************************************************)
(* Types; the pages that the driver holds are not the kernel's.            *)
(***************************************************************************)
MemoryTypeOK ==
    /\ phase \in {"unloaded", "scan", "full", "part", "sum", "assign", "loaded", "failed", "oops", "exited"}
    /\ own \cap free = {} /\ 0 \notin own \cup free
    /\ \A k \in DOMAIN good : good[k].start \in Nat /\ good[k].npages \in Nat \ {0}
    /\ \A m \in Memories : m.base \in Nat /\ m.size \in Nat

(***************************************************************************)
(* The memories of the devices do not overlap, and all of it is memory of  *)
(* the driver: pages it holds, or addresses in the region set aside.       *)
(***************************************************************************)
Bytes(m) == m.base .. m.base + m.size - 1
Whole == IF region = NoMemory THEN UNION {p * PageSize .. (p + 1) * PageSize - 1 : p \in own}
         ELSE Bytes(region)
DevicesApart ==
    /\ MemoryTypeOK
    /\ phase = "loaded" =>
      /\ \A m \in Memories : Bytes(m) \subseteq Whole
      /\ \A i, j \in Device :
           /\ i # j => /\ Bytes(mem.sys[i]) \cap Bytes(mem.sys[j]) = {}
                       /\ Bytes(mem.packet[i]) \cap Bytes(mem.packet[j]) = {}
           /\ Bytes(mem.sys[i]) \cap Bytes(mem.packet[j]) = {}

(***************************************************************************)
(* The driver returns only pages that it holds, unless the last batch was  *)
(* empty because the page table was filled exactly: then page 0 goes to    *)
(* the kernel's free pages as well, and loading fails.                     *)
(* Loading and unloading loses fewer pages than there are devices: those   *)
(* that an even division of a chunk leaves over.                           *)
(***************************************************************************)
ReturnsWhatItTook ==
    /\ stray => taken % TableSize = 0 /\ phase = "failed"
    /\ phase = "exited" => Cardinality(own) < NumDevices
===========================================================================
