------------------------ MODULE DriverMemory_proofs ------------------------
(***************************************************************************)
(* Proofs about the driver (DriverMemory, and DriverAccess within it), for *)
(* any number of devices, processes and files, any set of free pages and   *)
(* any region set aside at boot.                                           *)
(***************************************************************************)
EXTENDS DriverMemory, FiniteSetTheorems, SequenceTheorems, TLAPS

(* Access. *)
AccessType ==
    /\ owner \in Process \cup {Nobody}
    /\ opener \in [File -> Process \cup {Nobody}]
    /\ holders \in [File -> SUBSET Process]
    /\ nested \in BOOLEAN

(* A file that nobody has opened is not held by anybody. *)
HeldFilesOpen == \A f \in File : opener[f] = Nobody => holders[f] = {}

(* Until a process opens the device a second time, one file is open.       *)
(* ExclusiveAccess alone says nothing of the files that stay open when     *)
(* nlm_device_close clears owner_pid; this says there are none.            *)
OneFile ==
    ~nested => \A f, g \in File : opener[f] # Nobody /\ opener[g] # Nobody => f = g

AccessInv == AccessType /\ HeldFilesOpen /\ OwnerHasFile /\ ExclusiveAccess /\ OneFile

(* The invariant holds of a device that was never opened. *)
LEMMA AccessInit == Init => AccessInv
BY DEF Init, AccessInv, AccessType, HeldFilesOpen, OwnerHasFile, ExclusiveAccess, OneFile

(* nlm_device_open keeps the invariant: if no file was opened twice, the   *)
(* new file is the only one, because an owner without a second file has    *)
(* none at all.                                                            *)
LEMMA AccessOpen ==
  ASSUME AccessInv, NEW p \in Process, NEW f \in File, Open(p, f)
  PROVE  AccessInv'
<1> USE DEF AccessInv
<1>1. /\ opener[f] = Nobody
      /\ owner' = p
      /\ opener' = [opener EXCEPT ![f] = p]
      /\ holders' = [holders EXCEPT ![f] = {p}]
      /\ nested' = (nested \/ OpenedBy(p) # {})
      /\ owner \in {Nobody, p}
  BY DEF Open, Opened
<1>2. AccessType'
  BY <1>1 DEF AccessType
<1>3. opener'[f] = p /\ \A g \in File \ {f} : opener'[g] = opener[g]
  BY <1>1 DEF AccessType
<1>4. OwnerHasFile' /\ HeldFilesOpen'
  <2>1. p # Nobody
    BY DriverAssumption
  <2>2. HeldFilesOpen'
    BY <1>1, <1>3, <2>1 DEF HeldFilesOpen, AccessType
  <2>3. OwnerHasFile'
    BY <1>1, <1>3 DEF OwnerHasFile, OpenedBy
  <2> QED
    BY <2>2, <2>3
<1>5. ~nested' => \A g \in File : opener[g] = Nobody
  <2>1. HAVE ~nested'
  <2>2. ~nested /\ OpenedBy(p) = {}
    BY <2>1, <1>1 DEF AccessType
  <2>3. TAKE g \in File
  <2>4. opener[g] \in {Nobody, p}
    BY <2>2, <1>1 DEF ExclusiveAccess
  <2>5. opener[g] # p
    BY <2>2 DEF OpenedBy
  <2> QED
    BY <2>4, <2>5
<1>6. ExclusiveAccess' /\ OneFile'
  BY <1>1, <1>3, <1>5 DEF ExclusiveAccess, OneFile
<1> QED
  BY <1>2, <1>4, <1>6

(* nlm_device_close keeps the invariant: unless a file was opened twice,   *)
(* none is open afterwards.                                                *)
LEMMA AccessRelease ==
  ASSUME AccessInv, NEW p \in Process, NEW f \in File, Release(p, f)
  PROVE  AccessInv'
<1> USE DEF AccessInv
<1>1. /\ owner' = Nobody
      /\ opener' = [opener EXCEPT ![f] = Nobody]
      /\ holders' = [holders EXCEPT ![f] = {}]
      /\ nested' = nested
      /\ holders[f] = {p}
  BY DEF Release, Released
<1>2. AccessType'
  BY <1>1 DEF AccessType
<1>3. opener'[f] = Nobody /\ \A g \in File \ {f} : opener'[g] = opener[g]
  BY <1>1 DEF AccessType
<1>4. OwnerHasFile' /\ HeldFilesOpen'
  BY <1>1, <1>3 DEF OwnerHasFile, HeldFilesOpen, AccessType
<1>5. opener[f] # Nobody
  BY <1>1 DEF HeldFilesOpen
<1>6. ExclusiveAccess' /\ OneFile'
  BY <1>1, <1>3, <1>5 DEF ExclusiveAccess, OneFile
<1> QED
  BY <1>2, <1>4, <1>6

(* Fork and the close of a shared file change only who holds files that    *)
(* are open already.                                                       *)
LEMMA AccessHolders ==
  ASSUME AccessInv,
         holders' \in [File -> SUBSET Process],
         \A f \in File : holders[f] = {} => holders'[f] = {},
         UNCHANGED <<owner, opener, nested>>
  PROVE  AccessInv'
<1>1. AccessType' /\ HeldFilesOpen'
  BY DEF AccessInv, AccessType, HeldFilesOpen
<1>2. OwnerHasFile' /\ ExclusiveAccess' /\ OneFile'
  BY DEF AccessInv, OwnerHasFile, OpenedBy, ExclusiveAccess, OneFile
<1> QED
  BY <1>1, <1>2 DEF AccessInv

(* Every step of the driver and the kernel keeps the invariant. *)
LEMMA AccessStep == AccessInv /\ [Next]_vars => AccessInv'
<1> SUFFICES ASSUME AccessInv, [Next]_vars PROVE AccessInv'
  OBVIOUS
<1>1. ASSUME NEW p \in Process, NEW f \in File, Open(p, f) PROVE AccessInv'
  BY <1>1, AccessOpen
<1>2. ASSUME NEW p \in Process, NEW f \in File, Release(p, f) PROVE AccessInv'
  BY <1>2, AccessRelease
<1>3. ASSUME NEW p \in Process, NEW f \in File, CloseShared(p, f) PROVE AccessInv'
  <2>1. holders' \in [File -> SUBSET Process]
    BY <1>3 DEF CloseShared, AccessInv, AccessType
  <2>2. \A g \in File : holders[g] = {} => holders'[g] = {}
    BY <1>3 DEF CloseShared, AccessInv, AccessType
  <2> QED
    BY <1>3, <2>1, <2>2, AccessHolders DEF CloseShared
<1>4. ASSUME NEW p \in Process, NEW child \in Process, Fork(p, child) PROVE AccessInv'
  <2>1. holders' \in [File -> SUBSET Process]
    BY <1>4 DEF Fork, AccessInv, AccessType
  <2>2. \A g \in File : holders[g] = {} => holders'[g] = {}
    BY <1>4 DEF Fork, AccessInv, AccessType
  <2> QED
    BY <1>4, <2>1, <2>2, AccessHolders DEF Fork
<1>5. CASE UNCHANGED vars
  BY <1>5 DEF vars, AccessInv, AccessType, HeldFilesOpen, OwnerHasFile, OpenedBy,
              ExclusiveAccess, OneFile
<1> QED
  BY <1>1, <1>2, <1>3, <1>4, <1>5 DEF Next

(* The driver's memory is not touched by open and release, nor the access  *)
(* to its devices by loading and unloading.                                *)
LEMMA AccessAlways == DriverSpec => []AccessInv
<1>1. DriverInit => AccessInv
  BY AccessInit DEF DriverInit
<1>2. AccessInv /\ [DriverNext]_<<vars, memory>> => AccessInv'
  BY AccessStep DEF DriverNext
<1> QED
  BY <1>1, <1>2, PTL DEF DriverSpec

(* For any number of processes and files, a device is never left busy: its *)
(* owner always has a file open that it opened itself.                     *)
THEOREM NeverLeftBusy == DriverSpec => []OwnerHasFile
<1>1. AccessInv => OwnerHasFile
  BY DEF AccessInv
<1> QED
  BY <1>1, AccessAlways, PTL

(* For any number of processes and files, a device that no process opens a *)
(* second time is open for one process at a time.                          *)
THEOREM OneProcessAtATime == DriverSpec => []ExclusiveAccess
<1>1. AccessInv => ExclusiveAccess
  BY DEF AccessInv
<1> QED
  BY <1>1, AccessAlways, PTL

-----------------------------------------------------------------------------
(***************************************************************************)
(* Memory.  Chunks are runs of pages; the pages in a device's memory.      *)
(***************************************************************************)
Chunk == [start : Nat, npages : Nat \ {0}]
MemoryRange == [base : Nat, size : Nat]

ChunkOf(m) == [start |-> m.base \div PageSize, npages |-> m.size \div PageSize]
PagesIn(m) == PagesOf(ChunkOf(m))

GoodPages == UNION {PagesOf(good[k]) : k \in 1 .. Len(good)}
PoorPages == UNION {PagesOf(c) : c \in poor}

MemoryType ==
    /\ phase \in {"unloaded", "scan", "full", "part", "sum", "assign", "loaded",
                  "failed", "oops", "exited"}
    /\ region \in Regions \cup {NoMemory}
    /\ own \in SUBSET (Nat \ {0}) /\ free \in SUBSET (Nat \ {0})
    /\ IsFiniteSet(own) /\ IsFiniteSet(free) /\ own \cap free = {}
    /\ good \in Seq(Chunk) /\ poor \in SUBSET Chunk
    /\ taken \in Nat /\ listed \in Nat
    /\ mem \in [sys : [Device -> MemoryRange], packet : [Device -> MemoryRange]]
    /\ stray \in BOOLEAN

(* While the free pages are searched: what the driver holds is in the page *)
(* table or in one chunk of one list, and was counted once; but an empty   *)
(* table adds page 0 to the list of what is returned, and to the count.    *)
PagesListed ==
    /\ own = table \cup GoodPages \cup (PoorPages \ {0})
    /\ GoodPages \cap table = {} /\ PoorPages \cap table = {} /\ GoodPages \cap PoorPages = {}
    /\ \A k, l \in 1 .. Len(good) : k # l => PagesOf(good[k]) \cap PagesOf(good[l]) = {}
    /\ phase \notin {"full", "part"} => table = {}
    /\ phase \in {"unloaded", "assign"} => poor = {}
    /\ phase = "unloaded" => own = {}

PagesCounted ==
    /\ \/ 0 \notin PoorPages /\ taken = listed + Cardinality(table)
       \/ phase = "sum" /\ listed = taken + 1 /\ taken % TableSize = 0
    /\ phase \in {"unloaded", "scan", "full"} => taken % TableSize = 0
    /\ phase = "part" /\ table = {} => taken % TableSize = 0

SearchOK ==
    phase \in {"unloaded", "scan", "full", "part", "sum", "assign"} =>
        /\ PagesListed /\ PagesCounted
        /\ phase # "unloaded" => region = NoMemory

(* The devices' memories are whole pages of the driver; they share none,   *)
(* and fewer pages than there are devices are left over.                   *)
GivenPages ==
    /\ \A m \in Memories : /\ m.base # 0 /\ m.base = ChunkOf(m).start * PageSize
                           /\ m.size = ChunkOf(m).npages * PageSize
                           /\ PagesIn(m) \subseteq own
    /\ \A i, j \in Device :
         /\ i # j => /\ PagesIn(mem.sys[i]) \cap PagesIn(mem.sys[j]) = {}
                     /\ PagesIn(mem.packet[i]) \cap PagesIn(mem.packet[j]) = {}
         /\ PagesIn(mem.sys[i]) \cap PagesIn(mem.packet[j]) = {}
    /\ Cardinality(own \ UNION {PagesIn(m) : m \in Memories}) < NumDevices

LoadedOK ==
    phase = "loaded" =>
        IF region = NoMemory THEN GivenPages
        ELSE ~TooSmall(region.base, region.size) /\ mem = Chunks(region.base, region.size)

MemoryInv ==
    /\ MemoryType /\ SearchOK /\ LoadedOK /\ ReturnsWhatItTook
    /\ region # NoMemory => own = {}
(* Arithmetic: products in order, whole and rounded quotients. *)
LEMMA Products ==
  ASSUME NEW a \in Nat, NEW b \in Nat, NEW k \in Nat
  PROVE  /\ a * k \in Nat /\ a * k = k * a
         /\ a < b => a * k + k <= b * k
         /\ a <= b => a * k <= b * k
<1>1. a * k \in Nat /\ b * k \in Nat /\ a * k = k * a
  OBVIOUS
<1>2. ASSUME a < b PROVE a * k + k <= b * k
  <2>1. PICK d \in Nat : b = a + 1 + d
    <3>1. b - a - 1 \in Nat /\ b = a + 1 + (b - a - 1)
      BY <1>2
    <3> QED
      BY <3>1
  <2>2. b * k = a * k + k + d * k /\ d * k \in Nat
    BY <2>1
  <2> QED
    BY <1>1, <2>2
<1>3. ASSUME a <= b PROVE a * k <= b * k
  <2>1. CASE a = b
    BY <1>1, <2>1
  <2>2. CASE a < b
    BY <1>1, <1>2, <2>2
  <2> QED
    BY <1>3, <2>1, <2>2
<1> QED
  BY <1>1, <1>2, <1>3

LEMMA Division ==
  ASSUME NEW m \in Nat \ {0}, NEW a \in Int
  PROVE  /\ a \div m \in Int /\ (a \div m) * m <= a /\ a < (a \div m) * m + m
         /\ a \in Nat => a \div m \in Nat
OBVIOUS

LEMMA Quotient ==
  ASSUME NEW m \in Nat \ {0}, NEW k \in Nat, NEW r \in Nat, r < m
  PROVE  (k * m + r) \div m = k
<1> DEFINE a == k * m + r
           q == a \div m
<1>1. a \in Nat /\ k * m \in Nat /\ a = k * m + r /\ m \in Nat
  BY Products
<1>2. q \in Nat /\ q * m <= a /\ a < q * m + m
  BY <1>1, Division
<1> HIDE DEF a, q
<1>3. ~(q < k)
  <2>1. q < k => q * m + m <= k * m
    BY <1>1, <1>2, Products
  <2> QED
    BY <1>1, <1>2, <2>1
<1>4. ~(k < q)
  <2>1. k < q => k * m + m <= q * m
    BY <1>1, <1>2, Products
  <2>2. q * m \in Nat
    BY <1>1, <1>2, Products
  <2> QED
    BY <1>1, <1>2, <2>1, <2>2
<1> QED
  BY <1>2, <1>3, <1>4 DEF a, q

LEMMA MultiplesLeaveNothing ==
  ASSUME NEW m \in Nat \ {0}, NEW a \in Nat, a % m = 0
  PROVE  (a + m) % m = 0
<1>1. /\ a % m \in 0 .. m - 1 /\ a \div m \in Int
      /\ a = m * (a \div m) + (a % m)
  OBVIOUS
<1>2. a \div m \in Nat /\ a = m * (a \div m) + 0
  BY <1>1, Division
<1> DEFINE b == a + m
<1>3. PICK q \in Nat : a = q * m
  BY <1>2
<1>4. q + 1 \in Nat /\ q * m \in Nat /\ (q + 1) * m = q * m + m /\ m \in Nat /\ 0 < m
  BY <1>3, Products
<1>5. b \in Nat /\ b = (q + 1) * m + 0
  BY <1>3, <1>4
<1> HIDE DEF b
<1>6. b \div m = q + 1
  BY <1>4, <1>5, Quotient
<1>7. b % m \in 0 .. m - 1 /\ b = m * (b \div m) + (b % m)
  BY <1>5
<1>8. b % m \in Int /\ b = m * (q + 1) + (b % m)
  BY <1>4, <1>6, <1>7
<1>9. m * (q + 1) = q * m + m
  BY <1>4
<1>10. b % m = 0
  BY <1>4, <1>5, <1>8, <1>9
<1> QED
  BY <1>10 DEF b
LEMMA PageFacts ==
  /\ PageSize \in Nat \ {0} /\ PageSize \in Nat /\ PageSize > 0
  /\ NumDevices \in Nat \ {0} /\ NumDevices \in Nat /\ NumDevices > 0
  /\ TableSize \in Nat \ {0} /\ PageThreshold \in Nat \ {0, 1}
  /\ PhysSize \in Nat \ {0} /\ DmaSize \in Nat
  /\ WantedPages \in Nat \ {0} /\ PhysSize = WantedPages * PageSize
<1>1. /\ PageSize \in Nat \ {0} /\ PageSize \in Nat /\ PageSize > 0
      /\ NumDevices \in Nat \ {0} /\ NumDevices \in Nat /\ NumDevices > 0
      /\ TableSize \in Nat \ {0} /\ PageThreshold \in Nat \ {0, 1}
      /\ PhysSize \in Nat \ {0} /\ DmaSize \in Nat /\ PhysSize % PageSize = 0
  BY MemoryAssumption
<1>2. PhysSize = PageSize * (PhysSize \div PageSize) + (PhysSize % PageSize)
  BY <1>1
<1>3. PhysSize \div PageSize \in Nat
  BY <1>1, Division
<1> DEFINE w == PhysSize \div PageSize
<1>4. w \in Nat /\ PhysSize = PageSize * w + 0 /\ PhysSize # 0
  BY <1>1, <1>2, <1>3
<1> HIDE DEF w
<1>5. PhysSize = w * PageSize /\ w # 0
  BY <1>1, <1>4
<1> QED
  BY <1>1, <1>4, <1>5 DEF w, WantedPages

LEMMA Rounding ==
  ASSUME NEW a \in Nat
  PROVE  /\ RoundUp(a) \in Nat /\ a <= RoundUp(a)
         /\ RoundDown(a) = (a \div PageSize) * PageSize
         /\ a \div PageSize \in Nat /\ RoundDown(a) <= a /\ a < RoundDown(a) + PageSize
         /\ RoundDown(a) \in Nat
<1>1. RoundDown(a) = (a \div PageSize) * PageSize
  BY DEF RoundDown
<1>2. /\ a \div PageSize \in Nat /\ (a \div PageSize) * PageSize <= a
      /\ a < (a \div PageSize) * PageSize + PageSize
  BY PageFacts, Division
<1>3. (a \div PageSize) * PageSize \in Nat
  BY <1>2, PageFacts, Products
<1> DEFINE b == a + PageSize - 1
           q == b \div PageSize
<1>4. b \in Nat /\ b = a + PageSize - 1
  BY PageFacts
<1>5. q \in Nat /\ q * PageSize <= b /\ b < q * PageSize + PageSize /\ q * PageSize \in Nat
  <2> HIDE DEF b
  <2>1. q \in Nat /\ q * PageSize <= b /\ b < q * PageSize + PageSize
    BY <1>4, PageFacts, Division
  <2> QED
    BY <2>1, PageFacts, Products
<1>6. RoundUp(a) = q * PageSize
  BY DEF RoundUp
<1> HIDE DEF b, q
<1>7. a <= q * PageSize
  BY <1>4, <1>5, PageFacts
<1> QED
  BY <1>1, <1>2, <1>3, <1>5, <1>6, <1>7

LEMMA Aligned ==
  ASSUME NEW k \in Nat
  PROVE  RoundUp(k * PageSize) = k * PageSize /\ (k * PageSize) \div PageSize = k
         /\ k * PageSize \in Nat
<1>1. k * PageSize \in Nat /\ PageSize - 1 \in Nat /\ PageSize - 1 < PageSize /\ 0 < PageSize
  BY PageFacts, Products
<1>2. (k * PageSize + (PageSize - 1)) \div PageSize = k
  BY <1>1, PageFacts, Quotient
<1>3. (k * PageSize + 0) \div PageSize = k
  BY <1>1, PageFacts, Quotient
<1>4. k * PageSize + PageSize - 1 = k * PageSize + (PageSize - 1)
  BY <1>1, PageFacts
<1> QED
  BY <1>1, <1>2, <1>3, <1>4 DEF RoundUp

(* Pieces of one size side by side: they share nothing, stay in the whole, *)
(* and leave nothing of it out.                                            *)
Tile(b, s, i) == b + i * s .. b + i * s + s - 1

LEMMA Tiles ==
  ASSUME NEW b \in Nat, NEW s \in Nat, NEW n \in Nat
  PROVE  /\ \A i, j \in 0 .. n - 1 : i # j => Tile(b, s, i) \cap Tile(b, s, j) = {}
         /\ \A i \in 0 .. n - 1 : Tile(b, s, i) \subseteq b .. b + n * s - 1
         /\ \A x \in b .. b + n * s - 1 : \E i \in 0 .. n - 1 : x \in Tile(b, s, i)
<1>1. ASSUME NEW i \in Nat, NEW j \in Nat, i < j PROVE Tile(b, s, i) \cap Tile(b, s, j) = {}
  <2>1. i * s + s <= j * s /\ i * s \in Nat /\ j * s \in Nat
    BY <1>1, Products
  <2> QED
    BY <2>1 DEF Tile
<1>2. \A i \in 0 .. n - 1 : i \in Nat /\ i < n
  OBVIOUS
<1>3. \A i, j \in 0 .. n - 1 : i # j => Tile(b, s, i) \cap Tile(b, s, j) = {}
  <2> SUFFICES ASSUME NEW i \in 0 .. n - 1, NEW j \in 0 .. n - 1, i # j
               PROVE  Tile(b, s, i) \cap Tile(b, s, j) = {}
    OBVIOUS
  <2>1. i \in Nat /\ j \in Nat /\ (i < j \/ j < i)
    BY <1>2
  <2>2. CASE i < j
    BY <1>1, <2>1, <2>2
  <2>3. CASE j < i
    <3>1. Tile(b, s, j) \cap Tile(b, s, i) = {}
      BY <1>1, <2>1, <2>3
    <3> QED
      BY <3>1
  <2> QED
    BY <2>1, <2>2, <2>3
<1>4. ASSUME NEW i \in 0 .. n - 1 PROVE Tile(b, s, i) \subseteq b .. b + n * s - 1
  <2>1. i \in Nat /\ i < n /\ i * s + s <= n * s /\ i * s \in Nat /\ n * s \in Nat
    BY <1>2, Products
  <2> QED
    BY <2>1 DEF Tile
<1>5. ASSUME NEW x \in b .. b + n * s - 1 PROVE \E i \in 0 .. n - 1 : x \in Tile(b, s, i)
  <2>1. n * s \in Nat
    BY Products
  <2>2. x \in Nat /\ x - b \in Nat /\ x - b < n * s
    BY <2>1
  <2>3. s # 0
    BY <2>2
  <2> DEFINE q == (x - b) \div s
  <2>4. q \in Nat /\ q * s <= x - b /\ x - b < q * s + s
    BY <2>2, <2>3, Division
  <2> HIDE DEF q
  <2>5. q < n
    <3>1. n <= q => n * s <= q * s
      BY <2>4, Products
    <3>2. q * s \in Nat
      BY <2>4, Products
    <3> QED
      BY <2>1, <2>2, <2>4, <3>1, <3>2
  <2>6. x \in Tile(b, s, q)
    <3>1. q * s \in Nat
      BY <2>4, Products
    <3> QED
      BY <2>2, <2>4, <3>1 DEF Tile
  <2> QED
    BY <2>4, <2>5, <2>6
<1> QED
  BY <1>3, <1>4, <1>5

(***************************************************************************)
(* fixed_memory_chunking.  The devices' shares fit into what remains from  *)
(* the first page boundary on.                                             *)
(***************************************************************************)
SysSize(base, size) == Share(base, size) - Dma

LEMMA ShareFits ==
  ASSUME NEW base \in Nat, NEW size \in Nat, ~TooSmall(base, size)
  PROVE  /\ Dma \in Nat /\ Share(base, size) \in Nat /\ SysSize(base, size) \in Nat
         /\ Share(base, size) = SysSize(base, size) + Dma
         /\ Remaining(base, size) \in Nat
         /\ Remaining(base, size) \div NumDevices \in Nat
         /\ NumDevices * Share(base, size) <= Remaining(base, size)
<1> DEFINE rest == Remaining(base, size)
           each == rest \div NumDevices
           share == (each \div PageSize) * PageSize
<1>1. Dma \in Nat /\ Share(base, size) = share
  BY Rounding, PageFacts DEF Dma, Share, RoundDown
<1>2. rest \in Int
  BY Rounding DEF Remaining
<1> HIDE DEF rest
<1>3. each \in Int /\ each * NumDevices <= rest
  BY <1>2, PageFacts, Division
<1> HIDE DEF each
<1>4. share \in Int /\ share <= each
  BY <1>3, PageFacts, Division
<1> HIDE DEF share
<1>5. Dma <= share
  BY <1>1, <1>4 DEF TooSmall
<1>6. share \in Nat /\ each \in Nat
  BY <1>1, <1>3, <1>4, <1>5
<1>7. share * NumDevices <= each * NumDevices /\ share * NumDevices = NumDevices * share
      /\ share * NumDevices \in Nat /\ each * NumDevices \in Nat
  BY <1>4, <1>6, PageFacts, Products
<1>8. rest \in Nat /\ NumDevices * share <= rest
  BY <1>2, <1>3, <1>7
<1> QED
  BY <1>1, <1>5, <1>6, <1>8 DEF SysSize, rest, each

(* The layout: the system memories, and behind them the packet memories. *)
LaidOut(m, b, s) ==
    /\ \A i \in Device : /\ m.sys[i] = [base |-> b + i * s, size |-> s]
                         /\ m.packet[i] = [base |-> (b + NumDevices * s) + i * Dma, size |-> Dma]
    /\ m \in [sys : [Device -> MemoryRange], packet : [Device -> MemoryRange]]

LEMMA Layout ==
  ASSUME NEW base \in Nat, NEW size \in Nat, ~TooSmall(base, size)
  PROVE  LaidOut(Chunks(base, size), RoundUp(base), SysSize(base, size))
<1> DEFINE m == Chunks(base, size)
           s == SysSize(base, size)
           b == RoundUp(base)
<1>1. s \in Nat /\ Dma \in Nat /\ b \in Nat
  BY ShareFits, Rounding
<1>2. m = [sys |-> [i \in Device |-> [base |-> b + i * s, size |-> s]],
           packet |-> [i \in Device |-> [base |-> b + NumDevices * s + i * Dma, size |-> Dma]]]
  BY DEF Chunks, SysSize
<1> HIDE DEF m, s, b
<1>3. NumDevices * s \in Nat /\ b + NumDevices * s \in Nat
  BY <1>1, PageFacts, Products
<1>4. \A i \in Device : i \in Nat /\ i * s \in Nat /\ i * Dma \in Nat
  <2>1. \A i \in Device : i \in Nat
    BY PageFacts DEF Device
  <2> QED
    BY <1>1, <2>1, Products
<1>5. \A i \in Device : /\ b + i * s \in Nat
                        /\ (b + NumDevices * s) + i * Dma \in Nat
  BY <1>1, <1>3, <1>4
<1>6. \A i \in Device : /\ [base |-> b + i * s, size |-> s] \in MemoryRange
                        /\ [base |-> (b + NumDevices * s) + i * Dma, size |-> Dma] \in MemoryRange
  BY <1>1, <1>5 DEF MemoryRange
<1>7. \A i \in Device : /\ m.sys[i] = [base |-> b + i * s, size |-> s]
                        /\ m.packet[i] = [base |-> (b + NumDevices * s) + i * Dma, size |-> Dma]
  BY <1>2
<1>8. m \in [sys : [Device -> MemoryRange], packet : [Device -> MemoryRange]]
  BY <1>2, <1>6
<1>9. LaidOut(m, b, s)
  BY <1>7, <1>8 DEF LaidOut
<1> QED
  BY <1>9 DEF m, s, b

(* They share nothing, and do not leave the whole or leave any of it out. *)
LaidApart(b, s, d, n) ==
    /\ \A i, j \in 0 .. n - 1 :
         /\ i # j => /\ Tile(b, s, i) \cap Tile(b, s, j) = {}
                     /\ Tile(b + n * s, d, i) \cap Tile(b + n * s, d, j) = {}
         /\ Tile(b, s, i) \cap Tile(b + n * s, d, j) = {}
    /\ \A i \in 0 .. n - 1 : /\ Tile(b, s, i) \subseteq b .. b + n * (s + d) - 1
                             /\ Tile(b + n * s, d, i) \subseteq b .. b + n * (s + d) - 1
    /\ \A x \in b .. b + n * (s + d) - 1 :
         \E i \in 0 .. n - 1 : x \in Tile(b, s, i) \/ x \in Tile(b + n * s, d, i)

LEMMA LayoutApart ==
  ASSUME NEW b \in Nat, NEW s \in Nat, NEW d \in Nat, NEW n \in Nat
  PROVE  LaidApart(b, s, d, n)
<1> DEFINE p == n * s
           q == n * d
           c == b + n * s
<1>1. p \in Nat /\ q \in Nat /\ n * (s + d) = p + q /\ c = b + p /\ c \in Nat
  <2>1. n * s \in Nat /\ n * d \in Nat
    BY Products
  <2>2. n * (s + d) = n * s + n * d
    OBVIOUS
  <2> QED
    BY <2>1, <2>2
<1>2. /\ \A i, j \in 0 .. n - 1 : i # j => Tile(b, s, i) \cap Tile(b, s, j) = {}
      /\ \A i \in 0 .. n - 1 : Tile(b, s, i) \subseteq b .. b + p - 1
      /\ \A x \in b .. b + p - 1 : \E i \in 0 .. n - 1 : x \in Tile(b, s, i)
  BY Tiles
<1>3. /\ \A i, j \in 0 .. n - 1 : i # j => Tile(c, d, i) \cap Tile(c, d, j) = {}
      /\ \A i \in 0 .. n - 1 : Tile(c, d, i) \subseteq c .. c + q - 1
      /\ \A x \in c .. c + q - 1 : \E i \in 0 .. n - 1 : x \in Tile(c, d, i)
  <2> HIDE DEF c
  <2> QED
    BY <1>1, Tiles DEF q
<1> HIDE DEF p, q, c
<1> DEFINE whole == b .. b + (p + q) - 1
<1>4. /\ b .. b + p - 1 \subseteq whole /\ c .. c + q - 1 \subseteq whole
      /\ (b .. b + p - 1) \cap (c .. c + q - 1) = {}
      /\ \A x \in whole : x \in b .. b + p - 1 \/ x \in c .. c + q - 1
  BY <1>1
<1> HIDE DEF whole
<1>5. \A i, j \in 0 .. n - 1 : Tile(b, s, i) \cap Tile(c, d, j) = {}
  BY <1>2, <1>3, <1>4
<1>6. \A i \in 0 .. n - 1 : Tile(b, s, i) \subseteq whole /\ Tile(c, d, i) \subseteq whole
  BY <1>2, <1>3, <1>4
<1>7. \A x \in whole : \E i \in 0 .. n - 1 : x \in Tile(b, s, i) \/ x \in Tile(c, d, i)
  BY <1>2, <1>3, <1>4
<1>8. n * s = p /\ n * d = q /\ b + n * s = c /\ whole = b .. b + n * (s + d) - 1
  BY <1>1 DEF p, q, c, whole
<1> QED
  BY <1>2, <1>3, <1>5, <1>6, <1>7, <1>8 DEF LaidApart
(* The memories of the devices share no byte and are in the whole. *)
MemoriesApart(whole) ==
    /\ \A m \in Memories : Bytes(m) \subseteq whole
    /\ \A i, j \in Device :
         /\ i # j => /\ Bytes(mem.sys[i]) \cap Bytes(mem.sys[j]) = {}
                     /\ Bytes(mem.packet[i]) \cap Bytes(mem.packet[j]) = {}
         /\ Bytes(mem.sys[i]) \cap Bytes(mem.packet[j]) = {}

LEMMA TileBytes ==
  ASSUME NEW b, NEW s, NEW i, NEW m, m = [base |-> b + i * s, size |-> s]
  PROVE  Bytes(m) = Tile(b, s, i)
<1>1. m.base = b + i * s /\ m.size = s
  OBVIOUS
<1> QED
  BY <1>1 DEF Bytes, Tile

LEMMA FixedApart ==
  ASSUME region \in Regions, ~TooSmall(region.base, region.size),
         mem = Chunks(region.base, region.size)
  PROVE  MemoriesApart(Bytes(region))
<1> DEFINE s == SysSize(region.base, region.size)
           b == RoundUp(region.base)
           n == NumDevices
           share == Share(region.base, region.size)
           rest == Remaining(region.base, region.size)
<1>1. region.base \in Nat /\ region.size \in Nat
  BY MemoryAssumption
<1>2. /\ s \in Nat /\ Dma \in Nat /\ b \in Nat /\ n \in Nat /\ share \in Nat /\ rest \in Nat
      /\ share = s + Dma /\ n * share <= rest /\ region.base <= b
  BY <1>1, ShareFits, Rounding, PageFacts
<1>3. rest = region.size - (b - region.base)
  BY DEF Remaining
<1>4. \A i \in Device : /\ mem.sys[i] = [base |-> b + i * s, size |-> s]
                        /\ mem.packet[i] = [base |-> (b + n * s) + i * Dma, size |-> Dma]
  <2>1. LaidOut(mem, b, s)
    BY <1>1, Layout
  <2> HIDE DEF s, b
  <2> QED
    BY <2>1 DEF LaidOut
<1> HIDE DEF s, b, share, rest
<1> DEFINE whole == b .. b + n * (s + Dma) - 1
<1>5. \A i \in Device : Bytes(mem.sys[i]) = Tile(b, s, i) /\ Bytes(mem.packet[i]) = Tile(b + n * s, Dma, i)
  <2> SUFFICES ASSUME NEW i \in Device
               PROVE  /\ Bytes(mem.sys[i]) = Tile(b, s, i)
                      /\ Bytes(mem.packet[i]) = Tile(b + n * s, Dma, i)
    OBVIOUS
  <2> HIDE DEF n
  <2> QED
    BY <1>4, TileBytes
<1>6. /\ \A i, j \in Device :
           /\ i # j => /\ Tile(b, s, i) \cap Tile(b, s, j) = {}
                       /\ Tile(b + n * s, Dma, i) \cap Tile(b + n * s, Dma, j) = {}
           /\ Tile(b, s, i) \cap Tile(b + n * s, Dma, j) = {}
      /\ \A i \in Device : Tile(b, s, i) \subseteq whole /\ Tile(b + n * s, Dma, i) \subseteq whole
  <2>1. Device = 0 .. n - 1
    BY DEF Device
  <2>2. LaidApart(b, s, Dma, n)
    BY <1>2, LayoutApart
  <2> HIDE DEF n
  <2> QED
    BY <2>1, <2>2 DEF LaidApart
<1>7. whole \subseteq Bytes(region)
  <2> DEFINE t == n * share
  <2>1. t \in Nat /\ t <= rest /\ whole = b .. b + t - 1
    BY <1>2, Products
  <2> HIDE DEF t, whole
  <2> QED
    BY <1>1, <1>2, <1>3, <2>1 DEF Bytes
<1>8. \A m \in Memories : Bytes(m) \subseteq Bytes(region)
  <2> HIDE DEF whole
  <2> QED
    BY <1>5, <1>6, <1>7 DEF Memories
<1>9. \A i, j \in Device :
        /\ i # j => /\ Bytes(mem.sys[i]) \cap Bytes(mem.sys[j]) = {}
                    /\ Bytes(mem.packet[i]) \cap Bytes(mem.packet[j]) = {}
        /\ Bytes(mem.sys[i]) \cap Bytes(mem.packet[j]) = {}
  BY <1>5, <1>6
<1> QED
  BY <1>8, <1>9 DEF MemoriesApart

(* A byte of a memory of whole pages is in one of its pages. *)
LEMMA ByteInPage ==
  ASSUME NEW m \in MemoryRange, m.base = ChunkOf(m).start * PageSize,
         m.size = ChunkOf(m).npages * PageSize, NEW x \in Bytes(m)
  PROVE  /\ x \div PageSize \in PagesIn(m)
         /\ x \in (x \div PageSize) * PageSize .. (x \div PageSize + 1) * PageSize - 1
<1> DEFINE k == ChunkOf(m).start
           l == ChunkOf(m).npages
           q == x \div PageSize
<1>1. m.base \in Nat /\ m.size \in Nat
  BY DEF MemoryRange
<1>2. k \in Nat /\ l \in Nat
  BY <1>1, PageFacts, Division DEF ChunkOf
<1>3. PagesIn(m) = k .. k + l - 1
  BY DEF PagesIn, PagesOf
<1>4. m.base = k * PageSize /\ m.size = l * PageSize
  OBVIOUS
<1> HIDE DEF k, l
<1>5. x \in Nat /\ k * PageSize <= x /\ x < k * PageSize + l * PageSize
      /\ k * PageSize \in Nat /\ l * PageSize \in Nat
  BY <1>1, <1>4 DEF Bytes
<1>6. q \in Nat /\ q * PageSize <= x /\ x < q * PageSize + PageSize
  BY <1>5, PageFacts, Division
<1> HIDE DEF q
<1>7. q * PageSize \in Nat /\ (q + 1) * PageSize = q * PageSize + PageSize
      /\ (k + l) * PageSize = k * PageSize + l * PageSize
  BY <1>2, <1>6, PageFacts, Products
<1>8. k <= q
  <2>1. q < k => q * PageSize + PageSize <= k * PageSize
    BY <1>2, <1>6, PageFacts, Products
  <2> QED
    BY <1>2, <1>5, <1>6, <1>7, <2>1, PageFacts
<1>9. q < k + l
  <2>1. k + l \in Nat
    BY <1>2
  <2>2. k + l <= q => (k + l) * PageSize <= q * PageSize
    BY <2>1, <1>6, PageFacts, Products
  <2> QED
    BY <1>5, <1>6, <1>7, <2>1, <2>2
<1>10. q \in k .. k + l - 1
  BY <1>2, <1>6, <1>8, <1>9
<1>11. x \in q * PageSize .. (q + 1) * PageSize - 1
  BY <1>5, <1>6, <1>7, PageFacts
<1> QED
  BY <1>3, <1>10, <1>11 DEF q

LEMMA PagesApart ==
  ASSUME MemoryType, region = NoMemory, GivenPages
  PROVE  MemoriesApart(Whole)
<1>1. \A i \in Device : mem.sys[i] \in MemoryRange /\ mem.packet[i] \in MemoryRange
  BY DEF MemoryType
<1>2. \A i \in Device : mem.sys[i] \in Memories /\ mem.packet[i] \in Memories
  BY DEF Memories
<1>3. \A m \in Memories : m \in MemoryRange
  BY <1>1 DEF Memories
<1>4. \A m \in Memories : \A x \in Bytes(m) :
        /\ x \div PageSize \in PagesIn(m)
        /\ x \in (x \div PageSize) * PageSize .. (x \div PageSize + 1) * PageSize - 1
  BY <1>3, ByteInPage DEF GivenPages
<1>5. \A m, r \in Memories : PagesIn(m) \cap PagesIn(r) = {} => Bytes(m) \cap Bytes(r) = {}
  BY <1>4
<1>6. \A m \in Memories : Bytes(m) \subseteq Whole
  <2> SUFFICES ASSUME NEW m \in Memories, NEW x \in Bytes(m) PROVE x \in Whole
    OBVIOUS
  <2>1. x \div PageSize \in own
    BY <1>4 DEF GivenPages
  <2>2. x \in (x \div PageSize) * PageSize .. (x \div PageSize + 1) * PageSize - 1
    BY <1>4
  <2> QED
    BY <2>1, <2>2 DEF Whole
<1>7. \A i, j \in Device :
        /\ i # j => /\ PagesIn(mem.sys[i]) \cap PagesIn(mem.sys[j]) = {}
                    /\ PagesIn(mem.packet[i]) \cap PagesIn(mem.packet[j]) = {}
        /\ PagesIn(mem.sys[i]) \cap PagesIn(mem.packet[j]) = {}
  BY DEF GivenPages
<1>8. \A i, j \in Device :
        /\ i # j => /\ Bytes(mem.sys[i]) \cap Bytes(mem.sys[j]) = {}
                    /\ Bytes(mem.packet[i]) \cap Bytes(mem.packet[j]) = {}
        /\ Bytes(mem.sys[i]) \cap Bytes(mem.packet[j]) = {}
  BY <1>2, <1>5, <1>7
<1> QED
  BY <1>6, <1>8 DEF MemoriesApart

(* So the invariant says what was to be shown. *)
LEMMA InvApart ==
  ASSUME MemoryInv
  PROVE  DevicesApart
<1>1. MemoryTypeOK
  <2>1. \A m \in Memories : m \in MemoryRange
    BY DEF MemoryInv, MemoryType, Memories
  <2>2. \A k \in DOMAIN good : good[k] \in Chunk
    BY DEF MemoryInv, MemoryType
  <2>3. own \cap free = {} /\ 0 \notin own \cup free
    BY DEF MemoryInv, MemoryType
  <2> QED
    BY <2>1, <2>2, <2>3 DEF MemoryInv, MemoryType, MemoryTypeOK, MemoryRange, Chunk
<1>2. ASSUME phase = "loaded" PROVE MemoriesApart(Whole)
  <2>1. CASE region = NoMemory
    BY <1>2, <2>1, PagesApart DEF MemoryInv, LoadedOK
  <2>2. CASE region # NoMemory
    BY <1>2, <2>2, FixedApart DEF MemoryInv, LoadedOK, MemoryType, Whole
  <2> QED
    BY <2>1, <2>2
<1> QED
  BY <1>1, <1>2 DEF DevicesApart, MemoriesApart
(***************************************************************************)
(* find_free_chunks.  A sequence into which an element was put.            *)
(***************************************************************************)
WithChunk(s, at, c, t) ==
    /\ Len(t) = Len(s) + 1
    /\ \A k \in 1 .. Len(t) : t[k] = IF k < at THEN s[k] ELSE IF k = at THEN c ELSE s[k - 1]

LEMMA Inserted ==
  ASSUME NEW S, NEW s \in Seq(S), NEW c \in S, NEW at \in 1 .. Len(s) + 1,
         NEW t, t = InsertAt(s, at, c)
  PROVE  t \in Seq(S) /\ WithChunk(s, at, c, t)
<1> DEFINE u == SubSeq(s, 1, at - 1)
           v == SubSeq(s, at, Len(s))
           e == <<c>>
           n == Len(s)
<1>1. n \in Nat /\ at \in Nat /\ 1 <= at /\ at <= n + 1 /\ at - 1 \in Int /\ 1 \in Int /\ at \in Int /\ n \in Int
  BY LenProperties
<1>2. \A i \in 1 .. n : s[i] \in S
  BY ElementOfSeq
<1>3. \A i \in 1 .. at - 1 : s[i] \in S
  BY <1>1, <1>2
<1>4. \A i \in at .. n : s[i] \in S
  BY <1>1, <1>2
<1>5. u \in Seq(S) /\ Len(u) = at - 1 /\ \A i \in 1 .. at - 1 : u[i] = s[i]
  <2>1. /\ u \in Seq(S) /\ Len(u) = IF 1 <= at - 1 THEN at - 1 - 1 + 1 ELSE 0
        /\ \A i \in 1 .. at - 1 - 1 + 1 : u[i] = s[1 + i - 1]
    BY <1>1, <1>3, SubSeqProperties
  <2>2. \A i \in 1 .. at - 1 : i \in 1 .. at - 1 - 1 + 1 /\ 1 + i - 1 = i
    BY <1>1
  <2> QED
    BY <1>1, <2>1, <2>2
<1>6. v \in Seq(S) /\ Len(v) = n - at + 1 /\ \A i \in 1 .. n - at + 1 : v[i] = s[at + i - 1]
  <2>1. /\ v \in Seq(S) /\ Len(v) = IF at <= n THEN n - at + 1 ELSE 0
        /\ \A i \in 1 .. n - at + 1 : v[i] = s[at + i - 1]
    BY <1>1, <1>4, SubSeqProperties
  <2> QED
    BY <1>1, <2>1
<1>7. e \in Seq(S) /\ Len(e) = 1 /\ e[1] = c
  OBVIOUS
<1>8. t = (u \o e) \o v
  BY DEF InsertAt
<1> HIDE DEF u, v, e, n
<1> DEFINE w == u \o e
<1>9. /\ w \in Seq(S) /\ Len(w) = at
      /\ \A i \in 1 .. at : w[i] = IF i <= at - 1 THEN u[i] ELSE e[i - (at - 1)]
  <2>1. /\ w \in Seq(S) /\ Len(w) = Len(u) + Len(e)
        /\ \A i \in 1 .. Len(u) + Len(e) : w[i] = IF i <= Len(u) THEN u[i] ELSE e[i - Len(u)]
    BY <1>5, <1>7, ConcatProperties
  <2> QED
    BY <1>1, <1>5, <1>7, <2>1
<1>10. \A i \in 1 .. at : w[i] = IF i < at THEN s[i] ELSE c
  <2>1. \A i \in 1 .. at : (i <= at - 1 <=> i < at) /\ (~(i < at) => i - (at - 1) = 1)
                           /\ (i < at => i \in 1 .. at - 1)
    BY <1>1
  <2> QED
    BY <1>5, <1>7, <1>9, <2>1
<1> HIDE DEF w
<1>11. /\ t \in Seq(S) /\ Len(t) = at + (n - at + 1)
       /\ \A i \in 1 .. at + (n - at + 1) : t[i] = IF i <= at THEN w[i] ELSE v[i - at]
  <2>1. t = w \o v
    BY <1>8 DEF w
  <2>2. /\ w \o v \in Seq(S) /\ Len(w \o v) = Len(w) + Len(v)
        /\ \A i \in 1 .. Len(w) + Len(v) : (w \o v)[i] = IF i <= Len(w) THEN w[i] ELSE v[i - Len(w)]
    BY <1>6, <1>9, ConcatProperties
  <2> QED
    BY <1>6, <1>9, <2>1, <2>2
<1>12. Len(t) = n + 1
  BY <1>1, <1>11
<1>13. ASSUME NEW k \in 1 .. n + 1
       PROVE  t[k] = IF k < at THEN s[k] ELSE IF k = at THEN c ELSE s[k - 1]
  <2>1. k \in 1 .. at + (n - at + 1)
    BY <1>1
  <2>2. CASE k <= at
    <3>1. k \in 1 .. at /\ (k < at \/ k = at)
      BY <1>1, <2>2
    <3> QED
      BY <1>1, <1>10, <1>11, <2>1, <2>2, <3>1
  <2>3. CASE ~(k <= at)
    <3>1. /\ k - at \in 1 .. n - at + 1 /\ at + (k - at) - 1 = k - 1 /\ ~(k < at) /\ k # at
      BY <1>1, <2>3
    <3> QED
      BY <1>6, <1>11, <2>1, <2>3, <3>1
  <2> QED
    BY <2>2, <2>3
<1> QED
  BY <1>11, <1>12, <1>13 DEF n, WithChunk
(* What the lists hold after a chunk of other pages was put into one. *)
LEMMA ChunkListed ==
  ASSUME MemoryType, PagesListed, NEW c \in Chunk, List(c),
         PagesOf(c) \cap GoodPages = {}, PagesOf(c) \cap PoorPages = {}
  PROVE  /\ good' \in Seq(Chunk) /\ poor' \in SUBSET Chunk /\ listed' = listed + c.npages
         /\ GoodPages' \cup PoorPages' = GoodPages \cup PoorPages \cup PagesOf(c)
         /\ GoodPages' \cap PoorPages' = {}
         /\ PoorPages' \subseteq PoorPages \cup PagesOf(c)
         /\ \A k, l \in 1 .. Len(good') : k # l => PagesOf(good'[k]) \cap PagesOf(good'[l]) = {}
<1>1. good \in Seq(Chunk) /\ poor \in SUBSET Chunk /\ Len(good) \in Nat
  BY DEF MemoryType
<1>2. /\ GoodPages \cap PoorPages = {}
      /\ \A k, l \in 1 .. Len(good) : k # l => PagesOf(good[k]) \cap PagesOf(good[l]) = {}
  BY DEF PagesListed
<1>3. listed' = listed + c.npages
  BY DEF List
<1>4. CASE poor' = poor \cup {c} /\ good' = good
  <2>1. GoodPages' = GoodPages
    BY <1>4 DEF GoodPages
  <2>2. PoorPages' = PoorPages \cup PagesOf(c)
    BY <1>4 DEF PoorPages
  <2>3. poor' \in SUBSET Chunk
    BY <1>1, <1>4
  <2> QED
    BY <1>1, <1>2, <1>3, <1>4, <2>1, <2>2, <2>3
<1>5. CASE InsertSorted(c) /\ poor' = poor
  <2>1. PICK at \in 1 .. Len(good) + 1 : good' = InsertAt(good, at, c)
    BY <1>5 DEF InsertSorted
  <2>2. /\ good' \in Seq(Chunk) /\ Len(good') = Len(good) + 1
        /\ \A k \in 1 .. Len(good') :
             good'[k] = IF k < at THEN good[k] ELSE IF k = at THEN c ELSE good[k - 1]
    <3>1. good' \in Seq(Chunk) /\ WithChunk(good, at, c, good')
      BY <1>1, <2>1, Inserted
    <3> QED
      BY <3>1 DEF WithChunk
  <2> DEFINE back(k) == IF k < at THEN k ELSE k - 1
             n == Len(good)
  <2>3. at \in Nat /\ 1 <= at /\ at <= n + 1 /\ n \in Nat /\ Len(good') = n + 1
    BY <1>1, <2>2
  <2>4. \A k \in 1 .. n + 1 : k # at => back(k) \in 1 .. n /\ good'[k] = good[back(k)]
    <3>1. \A k \in 1 .. n + 1 : k # at => back(k) \in 1 .. n
      BY <2>3
    <3> QED
      BY <2>2, <2>3, <3>1
  <2>5. good'[at] = c /\ at \in 1 .. n + 1
    BY <2>2, <2>3
  <2>6. \A k \in 1 .. n : \E l \in 1 .. n + 1 : good'[l] = good[k]
    <3> SUFFICES ASSUME NEW k \in 1 .. n PROVE \E l \in 1 .. n + 1 : good'[l] = good[k]
      OBVIOUS
    <3>1. CASE k < at
      <4>1. k \in 1 .. n + 1
        BY <2>3
      <4> QED
        BY <2>2, <2>3, <3>1, <4>1
    <3>2. CASE ~(k < at)
      <4>1. k + 1 \in 1 .. n + 1 /\ ~(k + 1 < at) /\ k + 1 # at /\ (k + 1) - 1 = k
        BY <2>3, <3>2
      <4> QED
        BY <2>2, <2>3, <4>1
    <3> QED
      BY <3>1, <3>2
  <2>7. GoodPages' = GoodPages \cup PagesOf(c)
    <3> HIDE DEF back, n
    <3>1. GoodPages' = UNION {PagesOf(good'[k]) : k \in 1 .. n + 1}
      BY <2>3 DEF GoodPages, PagesOf
    <3>2. GoodPages = UNION {PagesOf(good[k]) : k \in 1 .. n}
      BY DEF GoodPages, n
    <3>3. ASSUME NEW p PROVE p \in GoodPages' => p \in GoodPages \cup PagesOf(c)
      <4> SUFFICES ASSUME p \in GoodPages' PROVE p \in GoodPages \cup PagesOf(c)
        OBVIOUS
      <4>1. PICK k \in 1 .. n + 1 : p \in PagesOf(good'[k])
        BY <3>1
      <4>2. CASE k = at
        BY <4>1, <4>2, <2>5
      <4>3. CASE k # at
        BY <4>1, <4>3, <2>4, <3>2
      <4> QED
        BY <4>2, <4>3
    <3>4. ASSUME NEW p PROVE p \in GoodPages \cup PagesOf(c) => p \in GoodPages'
      <4>1. p \in PagesOf(c) => p \in GoodPages'
        BY <2>5, <3>1
      <4>2. p \in GoodPages => p \in GoodPages'
        <5> SUFFICES ASSUME p \in GoodPages PROVE p \in GoodPages'
          OBVIOUS
        <5>1. PICK k \in 1 .. n : p \in PagesOf(good[k])
          BY <3>2
        <5>2. PICK l \in 1 .. n + 1 : good'[l] = good[k]
          BY <2>6
        <5> QED
          BY <3>1, <5>1, <5>2
      <4> QED
        BY <4>1, <4>2
    <3> QED
      BY <3>3, <3>4
  <2>8. PoorPages' = PoorPages
    BY <1>5 DEF PoorPages
  <2>9. ASSUME NEW k \in 1 .. Len(good'), NEW l \in 1 .. Len(good'), k # l
        PROVE  PagesOf(good'[k]) \cap PagesOf(good'[l]) = {}
    <3>1. k \in 1 .. n + 1 /\ l \in 1 .. n + 1
      BY <2>3
    <3>2. \A i \in 1 .. n : PagesOf(good[i]) \cap PagesOf(c) = {}
      BY DEF GoodPages
    <3>3. CASE k # at /\ l # at
      <4>1. back(k) # back(l)
        BY <2>3, <2>9, <3>1, <3>3
      <4> HIDE DEF back, n
      <4> QED
        BY <1>2, <2>4, <3>1, <3>3, <4>1 DEF n
    <3> HIDE DEF back, n
    <3>4. CASE k = at
      BY <2>4, <2>5, <2>9, <3>1, <3>2, <3>4
    <3>5. CASE l = at
      BY <2>4, <2>5, <2>9, <3>1, <3>2, <3>5
    <3> QED
      BY <3>3, <3>4, <3>5
  <2> QED
    BY <1>1, <1>2, <1>3, <1>5, <2>2, <2>7, <2>8, <2>9
<1>6. \/ poor' = poor \cup {c} /\ good' = good
      \/ InsertSorted(c) /\ poor' = poor
  BY DEF List
<1> QED
  BY <1>4, <1>5, <1>6
-----------------------------------------------------------------------------
LEMMA MemoryStart ==
  ASSUME MemoryInit
  PROVE  MemoryInv
<1>1. /\ phase = "unloaded" /\ own = {} /\ table = {} /\ good = << >> /\ poor = {}
      /\ taken = 0 /\ listed = 0 /\ stray = FALSE
      /\ mem = [sys |-> AllOf(NoMemory), packet |-> AllOf(NoMemory)]
  BY DEF MemoryInit
<1>2. region \in Regions \cup {NoMemory}
  BY DEF MemoryInit
<1>3. free \in SUBSET (Nat \ {0}) /\ IsFiniteSet(free)
  BY MemoryAssumption, FS_EmptySet DEF MemoryInit
<1>4. mem \in [sys : [Device -> MemoryRange], packet : [Device -> MemoryRange]]
  <2>1. NoMemory \in MemoryRange
    BY DEF NoMemory, MemoryRange
  <2> QED
    BY <1>1, <2>1 DEF AllOf
<1>5. MemoryType
  <2>1. good \in Seq(Chunk) /\ poor \in SUBSET Chunk
    BY <1>1, EmptySeq
  <2>2. own \in SUBSET (Nat \ {0}) /\ own \cap free = {} /\ IsFiniteSet(own)
    BY <1>1, FS_EmptySet
  <2>3. taken \in Nat /\ listed \in Nat /\ stray \in BOOLEAN
    BY <1>1
  <2> QED
    BY <1>1, <1>2, <1>3, <1>4, <2>1, <2>2, <2>3 DEF MemoryType
<1>6. Len(good) = 0 /\ GoodPages = {} /\ PoorPages = {}
  BY <1>1 DEF GoodPages, PoorPages
<1>7. PagesListed
  BY <1>1, <1>6 DEF PagesListed
<1>8. PagesCounted
  <2>1. Cardinality(table) = 0 /\ 0 + 0 = 0
    BY <1>1, FS_EmptySet
  <2>2. taken % TableSize = 0
    BY <1>1, PageFacts
  <2> QED
    BY <1>1, <1>6, <2>1, <2>2 DEF PagesCounted
<1>9. SearchOK /\ LoadedOK /\ ReturnsWhatItTook
  BY <1>1, <1>7, <1>8 DEF SearchOK, LoadedOK, ReturnsWhatItTook
<1> QED
  BY <1>1, <1>5, <1>9 DEF MemoryInv

LEMMA LoadFixedKeeps ==
  ASSUME MemoryInv, LoadFixed
  PROVE  MemoryInv'
<1>1. /\ phase = "unloaded" /\ region # NoMemory /\ Carve(region.base, region.size)
      /\ UNCHANGED <<region, free, own, table, sorted, good, poor, taken, listed, stray>>
  BY DEF LoadFixed
<1>2. MemoryType /\ region \in Regions /\ ~stray /\ own = {}
  BY <1>1 DEF MemoryInv, MemoryType, ReturnsWhatItTook
<1>3. region.base \in Nat /\ region.size \in Nat
  BY <1>2, MemoryAssumption
<1>4. CASE TooSmall(region.base, region.size)
  <2>1. phase' = "failed" /\ mem' = mem
    BY <1>1, <1>4 DEF Carve
  <2> QED
    BY <1>1, <1>2, <2>1 DEF MemoryInv, MemoryType, SearchOK, LoadedOK, ReturnsWhatItTook
<1>5. CASE ~TooSmall(region.base, region.size)
  <2>1. mem' = Chunks(region.base, region.size) /\ phase' \in {"failed", "loaded"}
    BY <1>1, <1>5 DEF Carve
  <2>2. mem' \in [sys : [Device -> MemoryRange], packet : [Device -> MemoryRange]]
    BY <1>3, <1>5, <2>1, Layout DEF LaidOut
  <2>3. MemoryType'
    BY <1>1, <1>2, <2>1, <2>2 DEF MemoryType
  <2>4. LoadedOK'
    BY <1>1, <1>5, <2>1 DEF LoadedOK, Chunks, TooSmall, Share, Remaining, Dma, RoundUp, RoundDown
  <2> QED
    BY <1>1, <1>2, <2>1, <2>3, <2>4 DEF MemoryInv, SearchOK, ReturnsWhatItTook
<1> QED
  BY <1>4, <1>5

LEMMA FillTableKeeps ==
  ASSUME MemoryInv, FillTable
  PROVE  MemoryInv'
<1>1. PICK batch \in SUBSET free :
         /\ Cardinality(batch) = TableSize \/ (batch = free /\ Cardinality(free) < TableSize)
         /\ table' = batch /\ free' = free \ batch /\ own' = own \cup batch
         /\ taken' = taken + Cardinality(batch)
         /\ phase' = IF Cardinality(batch) = TableSize THEN "full" ELSE "part"
  BY DEF FillTable
<1>2. /\ phase \in {"unloaded", "scan"} /\ region = NoMemory
      /\ UNCHANGED <<region, good, poor, listed, mem, stray>>
  BY DEF FillTable
<1>3. MemoryType /\ PagesListed /\ PagesCounted /\ ~stray
  BY <1>2 DEF MemoryInv, SearchOK, ReturnsWhatItTook
<1>4. table = {} /\ 0 \notin PoorPages /\ taken % TableSize = 0 /\ Cardinality({}) = 0
      /\ taken \in Nat /\ listed \in Nat
  BY <1>2, <1>3, FS_EmptySet DEF PagesListed, PagesCounted, MemoryType
<1>5. IsFiniteSet(batch) /\ Cardinality(batch) \in Nat
  BY <1>3, FS_Subset, FS_CardinalityType DEF MemoryType
<1>6. taken = listed
  BY <1>2, <1>3, <1>4 DEF PagesCounted
<1>7. GoodPages' = GoodPages /\ PoorPages' = PoorPages
  BY <1>2 DEF GoodPages, PoorPages
<1>8. /\ own = GoodPages \cup PoorPages /\ GoodPages \cap PoorPages = {} /\ own \cap batch = {}
      /\ 0 \notin batch
  BY <1>3, <1>4 DEF PagesListed, MemoryType
<1>9. MemoryType'
  <2>1. IsFiniteSet(own') /\ IsFiniteSet(free')
    BY <1>1, <1>3, <1>5, FS_Union, FS_Difference DEF MemoryType
  <2>2. /\ own' \in SUBSET (Nat \ {0}) /\ free' \in SUBSET (Nat \ {0}) /\ own' \cap free' = {}
    BY <1>1, <1>3 DEF MemoryType
  <2>3. taken' \in Nat
    BY <1>1, <1>4, <1>5
  <2> QED
    BY <1>1, <1>2, <1>3, <2>1, <2>2, <2>3 DEF MemoryType
<1>10. PagesListed'
  <2>1. /\ own' = table' \cup GoodPages \cup (PoorPages \ {0})
        /\ GoodPages \cap table' = {} /\ PoorPages \cap table' = {} /\ GoodPages \cap PoorPages = {}
    BY <1>1, <1>4, <1>8
  <2>2. \A k, l \in 1 .. Len(good) : k # l => PagesOf(good[k]) \cap PagesOf(good[l]) = {}
    BY <1>3 DEF PagesListed
  <2>3. phase' \in {"full", "part"}
    BY <1>1
  <2>4. good' = good
    BY <1>2
  <2> QED
    BY <1>7, <2>1, <2>2, <2>3, <2>4 DEF PagesListed, PagesOf
<1>11. PagesCounted'
  <2>1. taken' = listed' + Cardinality(table') /\ 0 \notin PoorPages'
    BY <1>1, <1>2, <1>4, <1>6, <1>7
  <2>2. phase' = "full" => taken' % TableSize = 0
    <3>1. (taken + TableSize) % TableSize = 0
      BY <1>4, PageFacts, MultiplesLeaveNothing
    <3> QED
      BY <1>1, <3>1
  <2>3. table' = {} => taken' % TableSize = 0
    BY <1>1, <1>4
  <2>4. phase' \in {"full", "part"}
    BY <1>1
  <2> QED
    BY <2>1, <2>2, <2>3, <2>4 DEF PagesCounted
<1>12. phase' \in {"full", "part"} /\ stray' = stray /\ region' = region
  BY <1>1, <1>2
<1> QED
  BY <1>2, <1>3, <1>9, <1>10, <1>11, <1>12
     DEF MemoryInv, SearchOK, LoadedOK, ReturnsWhatItTook
(* A chunk has as many pages as it says. *)
LEMMA ChunkSize ==
  ASSUME NEW c \in Chunk
  PROVE  /\ c.start \in Nat /\ c.npages \in Nat /\ c.npages > 0
         /\ IsFiniteSet(PagesOf(c)) /\ Cardinality(PagesOf(c)) = c.npages
         /\ PagesOf(c) \subseteq Nat /\ c.start \in PagesOf(c)
<1>1. c.start \in Nat /\ c.npages \in Nat \ {0}
  BY DEF Chunk
<1> DEFINE a == c.start
           b == c.start + c.npages - 1
<1>2. a \in Int /\ b \in Int /\ ~(a > b) /\ b - a + 1 = c.npages /\ a \in a .. b
  BY <1>1
<1>3. PagesOf(c) = a .. b
  BY DEF PagesOf
<1>4. PagesOf(c) \subseteq Nat
  BY <1>1, <1>3
<1> HIDE DEF a, b
<1>5. IsFiniteSet(a .. b) /\ Cardinality(a .. b) = b - a + 1
  BY <1>2, FS_Interval
<1> QED
  BY <1>1, <1>2, <1>3, <1>4, <1>5 DEF a

LEMMA ListRunKeeps ==
  ASSUME MemoryInv, ListRun
  PROVE  MemoryInv'
<1>1. PICK c \in RunsIn(table) : List(c) /\ table' = table \ PagesOf(c)
  BY DEF ListRun
<1>2. /\ phase \in {"full", "part"} /\ table # {}
      /\ phase' = IF table' # {} THEN phase ELSE IF phase = "full" THEN "scan" ELSE "sum"
      /\ UNCHANGED <<region, free, own, sorted, taken, mem, stray>>
  BY DEF ListRun
<1>3. MemoryType /\ PagesListed /\ PagesCounted /\ ~stray /\ region = NoMemory
  BY <1>2 DEF MemoryInv, SearchOK, ReturnsWhatItTook
<1>4. table \in SUBSET own /\ own \in SUBSET (Nat \ {0}) /\ IsFiniteSet(own)
  BY <1>3 DEF PagesListed, MemoryType
<1>5. IsFiniteSet(table) /\ Cardinality(table) \in Nat
  BY <1>4, FS_Subset, FS_CardinalityType
<1>6. c \in Chunk /\ PagesOf(c) \subseteq table
  <2>1. c \in [start : table, npages : 1 .. Cardinality(table)] /\ PagesOf(c) \subseteq table
    BY DEF RunsIn
  <2>2. \A p \in table : p \in Nat
    BY <1>4
  <2>3. \A n \in 1 .. Cardinality(table) : n \in Nat \ {0}
    BY <1>5
  <2>4. c \in [start : Nat, npages : Nat \ {0}]
    BY <2>1, <2>2, <2>3
  <2> QED
    BY <2>1, <2>4 DEF Chunk
<1>7. /\ own = table \cup GoodPages \cup PoorPages /\ 0 \notin own
      /\ GoodPages \cap table = {} /\ PoorPages \cap table = {}
      /\ 0 \notin PoorPages /\ taken = listed + Cardinality(table)
  BY <1>2, <1>3, <1>4 DEF PagesListed, PagesCounted
<1>8. PagesOf(c) \cap GoodPages = {} /\ PagesOf(c) \cap PoorPages = {}
  BY <1>6, <1>7
<1>9. /\ good' \in Seq(Chunk) /\ poor' \in SUBSET Chunk /\ listed' = listed + c.npages
      /\ GoodPages' \cup PoorPages' = GoodPages \cup PoorPages \cup PagesOf(c)
      /\ GoodPages' \cap PoorPages' = {}
      /\ \A k, l \in 1 .. Len(good') : k # l => PagesOf(good'[k]) \cap PagesOf(good'[l]) = {}
  BY <1>1, <1>3, <1>6, <1>8, ChunkListed
<1>10. /\ c.npages \in Nat /\ Cardinality(table') = Cardinality(table) - c.npages
       /\ Cardinality(table') \in Nat
  <2>1. c.npages \in Nat /\ Cardinality(PagesOf(c)) = c.npages /\ table \cap PagesOf(c) = PagesOf(c)
    BY <1>6, ChunkSize
  <2>2. /\ IsFiniteSet(table \ PagesOf(c))
        /\ Cardinality(table \ PagesOf(c)) = Cardinality(table) - Cardinality(table \cap PagesOf(c))
    BY <1>5, FS_Difference
  <2>3. IsFiniteSet(table') /\ Cardinality(table') = Cardinality(table) - c.npages
    BY <1>1, <2>1, <2>2
  <2> QED
    BY <2>1, <2>3, FS_CardinalityType
<1>11. MemoryType'
  <2>1. listed' \in Nat /\ phase' \in {"full", "part", "scan", "sum"}
    BY <1>2, <1>3, <1>9, <1>10 DEF MemoryType
  <2> QED
    BY <1>2, <1>3, <1>9, <2>1 DEF MemoryType
<1>12. PagesListed'
  <2>1. /\ own' = table' \cup GoodPages' \cup (PoorPages' \ {0})
        /\ GoodPages' \cap table' = {} /\ PoorPages' \cap table' = {}
    BY <1>1, <1>2, <1>6, <1>7, <1>9
  <2>2. /\ phase' \notin {"full", "part"} => table' = {}
        /\ phase' \notin {"unloaded", "assign"}
    BY <1>2
  <2> QED
    BY <1>9, <2>1, <2>2 DEF PagesListed, PagesOf
<1>13. PagesCounted'
  <2>1. 0 \notin PoorPages'
    BY <1>4, <1>6, <1>7, <1>9
  <2>2. taken' = listed' + Cardinality(table')
    <3>1. listed \in Nat
      BY <1>3 DEF MemoryType
    <3> QED
      BY <1>2, <1>5, <1>7, <1>9, <1>10, <3>1
  <2>3. phase' \in {"unloaded", "scan", "full"} => taken' % TableSize = 0
    BY <1>2, <1>3 DEF PagesCounted
  <2>4. ~(phase' = "part" /\ table' = {})
    BY <1>2
  <2> QED
    BY <2>1, <2>2, <2>3, <2>4 DEF PagesCounted
<1> QED
  BY <1>2, <1>3, <1>11, <1>12, <1>13 DEF MemoryInv, SearchOK, LoadedOK, ReturnsWhatItTook

LEMMA ListEmptyTableKeeps ==
  ASSUME MemoryInv, ListEmptyTable
  PROVE  MemoryInv'
<1> DEFINE c == [start |-> 0, npages |-> 1]
<1>1. /\ phase = "part" /\ table = {} /\ List(c) /\ phase' = "sum"
      /\ UNCHANGED <<region, free, own, table, sorted, taken, mem, stray>>
  BY DEF ListEmptyTable
<1>2. MemoryType /\ PagesListed /\ PagesCounted /\ ~stray /\ region = NoMemory
  BY <1>1 DEF MemoryInv, SearchOK, ReturnsWhatItTook
<1>3. c \in Chunk /\ c.npages = 1 /\ c.start = 0
  BY DEF Chunk
<1>4. PagesOf(c) = {0}
  <2>1. 0 .. 0 + 1 - 1 = {0}
    OBVIOUS
  <2> QED
    BY <1>3, <2>1 DEF PagesOf
<1>5. good' = good /\ poor' = poor \cup {c} /\ listed' = listed + 1
  <2>1. ~(1 >= PageThreshold)
    BY PageFacts
  <2> QED
    BY <1>1, <1>3, <2>1 DEF List
<1> HIDE DEF c
<1>6. GoodPages' = GoodPages /\ PoorPages' = PoorPages \cup {0}
  BY <1>4, <1>5 DEF GoodPages, PoorPages
<1>7. /\ own = GoodPages \cup PoorPages /\ 0 \notin own /\ GoodPages \cap PoorPages = {}
      /\ taken = listed + Cardinality(table) /\ taken % TableSize = 0
  BY <1>1, <1>2 DEF PagesListed, PagesCounted, MemoryType
<1>8. taken = listed /\ listed \in Nat
  BY <1>1, <1>2, <1>7, FS_EmptySet DEF MemoryType
<1>9. MemoryType'
  <2>1. poor' \in SUBSET Chunk /\ listed' \in Nat
    BY <1>2, <1>3, <1>5, <1>8 DEF MemoryType
  <2> QED
    BY <1>1, <1>2, <1>5, <2>1 DEF MemoryType
<1>10. PagesListed'
  <2>1. /\ own' = table' \cup GoodPages' \cup (PoorPages' \ {0})
        /\ GoodPages' \cap table' = {} /\ PoorPages' \cap table' = {} /\ GoodPages' \cap PoorPages' = {}
    BY <1>1, <1>6, <1>7
  <2>2. \A k, l \in 1 .. Len(good) : k # l => PagesOf(good[k]) \cap PagesOf(good[l]) = {}
    BY <1>2 DEF PagesListed
  <2> QED
    BY <1>1, <1>5, <2>1, <2>2 DEF PagesListed, PagesOf
<1>11. PagesCounted'
  BY <1>1, <1>5, <1>7, <1>8 DEF PagesCounted
<1> QED
  BY <1>1, <1>2, <1>9, <1>10, <1>11 DEF MemoryInv, SearchOK, LoadedOK, ReturnsWhatItTook

(* The chunks that were not kept go back, and page 0 with them if an empty *)
(* table has put it there; then loading fails.                             *)
LEMMA SumUpKeeps ==
  ASSUME MemoryInv, SumUp
  PROVE  MemoryInv'
<1>1. /\ phase = "sum" /\ ReleaseChunks(poor) /\ poor' = {}
      /\ phase' = IF taken = listed THEN "assign" ELSE "failed"
      /\ UNCHANGED <<region, table, sorted, good, taken, listed, mem>>
  BY DEF SumUp
<1>2. MemoryType /\ PagesListed /\ PagesCounted /\ ~stray /\ region = NoMemory
  BY <1>1 DEF MemoryInv, SearchOK, ReturnsWhatItTook
<1>3. /\ own' = own \ PoorPages /\ free' = free \cup (PoorPages \cap own)
      /\ stray' = (stray \/ ~(PoorPages \subseteq own))
  BY <1>1 DEF ReleaseChunks, ReleasePages, PoorPages
<1>4. /\ table = {} /\ own = GoodPages \cup (PoorPages \ {0}) /\ GoodPages \cap PoorPages = {}
      /\ \A k, l \in 1 .. Len(good) : k # l => PagesOf(good[k]) \cap PagesOf(good[l]) = {}
  BY <1>1, <1>2 DEF PagesListed
<1>5. GoodPages' = GoodPages /\ PoorPages' = {} /\ own' = GoodPages
  BY <1>1, <1>3, <1>4 DEF GoodPages, PoorPages
<1>6. MemoryType'
  <2>1. IsFiniteSet(own') /\ IsFiniteSet(free')
    <3>1. IsFiniteSet(own) /\ IsFiniteSet(free) /\ PoorPages \cap own \in SUBSET own
      BY <1>2 DEF MemoryType
    <3>2. IsFiniteSet(PoorPages \cap own)
      BY <3>1, FS_Subset
    <3> QED
      BY <1>3, <3>1, <3>2, FS_Union, FS_Difference
  <2>2. own' \in SUBSET (Nat \ {0}) /\ free' \in SUBSET (Nat \ {0}) /\ own' \cap free' = {}
    BY <1>2, <1>3 DEF MemoryType
  <2>3. phase' \in {"assign", "failed"} /\ stray' \in BOOLEAN
    BY <1>1, <1>3
  <2> QED
    BY <1>1, <1>2, <2>1, <2>2, <2>3 DEF MemoryType
<1>7. CASE taken = listed
  <2>1. 0 \notin PoorPages
    BY <1>2, <1>7 DEF PagesCounted, MemoryType
  <2>2. ~stray'
    BY <1>2, <1>3, <1>4, <2>1
  <2>3. PagesListed'
    BY <1>1, <1>4, <1>5, <1>7 DEF PagesListed, PagesOf
  <2>4. PagesCounted'
    <3>1. listed \in Nat /\ Cardinality(table) = 0 /\ listed = listed + 0
      BY <1>2, <1>4, FS_EmptySet DEF MemoryType
    <3> QED
      BY <1>1, <1>5, <1>7, <3>1 DEF PagesCounted
  <2> QED
    BY <1>1, <1>2, <1>6, <1>7, <2>2, <2>3, <2>4
       DEF MemoryInv, SearchOK, LoadedOK, ReturnsWhatItTook
<1>8. CASE taken # listed
  <2>1. taken % TableSize = 0
    <3>1. listed \in Nat /\ Cardinality(table) = 0 /\ listed = listed + 0
      BY <1>2, <1>4, FS_EmptySet DEF MemoryType
    <3> QED
      BY <1>2, <1>8, <3>1 DEF PagesCounted
  <2> QED
    BY <1>1, <1>2, <1>6, <1>8, <2>1 DEF MemoryInv, SearchOK, LoadedOK, ReturnsWhatItTook
<1> QED
  BY <1>7, <1>8
-----------------------------------------------------------------------------
(***************************************************************************)
(* dynamic_memory_init.  Pages that are returned.                          *)
(***************************************************************************)
LEMMA PagesReturned ==
  ASSUME MemoryType, NEW chunks, ReleaseChunks(chunks)
  PROVE  /\ own' = own \ UNION {PagesOf(c) : c \in chunks}
         /\ own' \in SUBSET (Nat \ {0}) /\ free' \in SUBSET (Nat \ {0})
         /\ IsFiniteSet(own') /\ IsFiniteSet(free') /\ own' \cap free' = {}
         /\ stray' \in BOOLEAN
         /\ UNION {PagesOf(c) : c \in chunks} \subseteq own => stray' = stray
<1> DEFINE gone == UNION {PagesOf(c) : c \in chunks}
<1>1. /\ own' = own \ gone /\ free' = free \cup (gone \cap own)
      /\ stray' = (stray \/ ~(gone \subseteq own))
  BY DEF ReleaseChunks, ReleasePages
<1> HIDE DEF gone
<1>2. /\ own \in SUBSET (Nat \ {0}) /\ free \in SUBSET (Nat \ {0}) /\ own \cap free = {}
      /\ IsFiniteSet(own) /\ IsFiniteSet(free) /\ stray \in BOOLEAN
  BY DEF MemoryType
<1>3. IsFiniteSet(own') /\ IsFiniteSet(free')
  <2>1. gone \cap own \in SUBSET own
    OBVIOUS
  <2>2. IsFiniteSet(gone \cap own)
    BY <1>2, <2>1, FS_Subset
  <2> QED
    BY <1>1, <1>2, <2>2, FS_Union, FS_Difference
<1>4. own' \in SUBSET (Nat \ {0}) /\ free' \in SUBSET (Nat \ {0}) /\ own' \cap free' = {}
  BY <1>1, <1>2
<1>5. stray' \in BOOLEAN /\ (gone \subseteq own => stray' = stray)
  BY <1>1, <1>2
<1> QED
  BY <1>1, <1>3, <1>4, <1>5 DEF gone

(* Of the largest chunk the pages wanted are kept, of the others none. *)
KeepsWanted(c, o, gone) ==
    /\ c \in Chunk /\ gone \subseteq o
    /\ c.start .. c.start + WantedPages - 1 \subseteq o
    /\ o \ gone = c.start .. c.start + WantedPages - 1

LEMMA LargestKept ==
  ASSUME NEW s \in Seq(Chunk), s # << >>, NEW c, c = Head(s), c.npages >= WantedPages,
         \A k, l \in 1 .. Len(s) : k # l => PagesOf(s[k]) \cap PagesOf(s[l]) = {},
         NEW o, o = UNION {PagesOf(s[k]) : k \in 1 .. Len(s)},
         NEW gone, gone = UNION {PagesOf(d) : d \in Rest(c) \cup Range(Tail(s))}
  PROVE  KeepsWanted(c, o, gone)
<1> DEFINE n == Len(s)
           kept == c.start .. c.start + WantedPages - 1
           others == UNION {PagesOf(s[k]) : k \in 2 .. n}
           rest == c.start + WantedPages .. c.start + c.npages - 1
<1>1. n \in Nat /\ n > 0 /\ c = s[1] /\ 1 \in 1 .. n /\ c \in Chunk
  <2>1. n \in Nat /\ n > 0 /\ c = s[1]
    OBVIOUS
  <2>2. \A k \in 1 .. n : s[k] \in Chunk
    BY ElementOfSeq
  <2> QED
    BY <2>1, <2>2
<1>2. c.start \in Nat /\ c.npages \in Nat /\ WantedPages \in Nat /\ WantedPages > 0
  BY <1>1, PageFacts DEF Chunk
<1>3. PagesOf(c) = kept \cup rest /\ kept \cap rest = {}
  BY <1>2 DEF PagesOf
<1>4. UNION {PagesOf(d) : d \in Rest(c)} = rest
  <2>1. CASE c.npages = WantedPages
    <3>1. rest = {}
      BY <1>2, <2>1
    <3> QED
      BY <2>1, <3>1 DEF Rest
  <2>2. CASE c.npages # WantedPages
    <3> DEFINE d == [start |-> c.start + WantedPages, npages |-> c.npages - WantedPages]
    <3>1. (c.start + WantedPages) + (c.npages - WantedPages) - 1 = c.start + c.npages - 1
      BY <1>2
    <3>2. PagesOf(d) = rest
      BY <3>1 DEF PagesOf
    <3> HIDE DEF d, rest
    <3>3. Rest(c) = {d}
      BY <2>2 DEF Rest, d
    <3> QED
      BY <3>2, <3>3
  <2> QED
    BY <2>1, <2>2
<1>5. UNION {PagesOf(d) : d \in Range(Tail(s))} = others
  <2>1. DOMAIN Tail(s) = 1 .. n - 1 /\ \A k \in 1 .. n - 1 : Tail(s)[k] = s[k + 1]
    <3>1. /\ Tail(s) \in Seq(Chunk) /\ Len(Tail(s)) = n - 1
          /\ \A k \in 1 .. Len(Tail(s)) : Tail(s)[k] = s[k + 1]
      BY HeadTailProperties
    <3> HIDE DEF n
    <3> QED
      BY <3>1
  <2>2. \A k \in 1 .. n - 1 : k + 1 \in 2 .. n
    BY <1>1
  <2>3. \A k \in 2 .. n : k - 1 \in 1 .. n - 1 /\ (k - 1) + 1 = k
    BY <1>1
  <2> HIDE DEF n
  <2> DEFINE t == Tail(s)
  <2>4. Range(t) = {t[k] : k \in 1 .. n - 1} /\ \A k \in 1 .. n - 1 : t[k] = s[k + 1]
    BY <2>1 DEF Range
  <2> HIDE DEF t
  <2>5. \A d \in Range(t) : \E k \in 2 .. n : d = s[k]
    BY <2>2, <2>4
  <2>6. \A k \in 2 .. n : s[k] \in Range(t)
    <3> SUFFICES ASSUME NEW k \in 2 .. n PROVE s[k] \in Range(t)
      OBVIOUS
    <3>1. t[k - 1] = s[k] /\ k - 1 \in 1 .. n - 1
      BY <2>3, <2>4
    <3> QED
      BY <2>4, <3>1
  <2>7. UNION {PagesOf(d) : d \in Range(t)} = others
    BY <2>5, <2>6
  <2> QED
    BY <2>7 DEF t
<1>6. gone = rest \cup others
  <2> HIDE DEF rest, others
  <2> QED
    BY <1>4, <1>5
<1>7. o = PagesOf(c) \cup others
  <2>1. \A k \in 1 .. n : k = 1 \/ k \in 2 .. n
    BY <1>1
  <2>2. \A k \in 2 .. n : k \in 1 .. n
    BY <1>1
  <2>3. o = UNION {PagesOf(s[k]) : k \in 1 .. n}
    OBVIOUS
  <2> HIDE DEF n
  <2> QED
    BY <1>1, <2>1, <2>2, <2>3
<1>8. PagesOf(c) \cap others = {}
  <2>1. \A k \in 2 .. n : k \in 1 .. n /\ k # 1
    BY <1>1
  <2> QED
    BY <1>1, <2>1
<1> HIDE DEF kept, rest, others
<1>9. gone \subseteq o /\ kept \subseteq o /\ o \ gone = kept
  BY <1>3, <1>6, <1>7, <1>8
<1> QED
  BY <1>1, <1>9 DEF kept, KeepsWanted

(* Memory that starts and ends with a page. *)
LEMMA PageMemory ==
  ASSUME NEW a \in Nat, NEW i \in Nat, NEW s \in Nat, NEW m,
         m = [base |-> a * PageSize + i * (s * PageSize), size |-> s * PageSize]
  PROVE  /\ m.base = ChunkOf(m).start * PageSize /\ m.size = ChunkOf(m).npages * PageSize
         /\ a > 0 => m.base # 0
         /\ PagesIn(m) = Tile(a, s, i)
<1> DEFINE b == a + i * s
<1>1. i * s \in Nat /\ b \in Nat
  BY Products
<1>2. a * PageSize + i * (s * PageSize) = b * PageSize
  BY PageFacts
<1>3. m.base = b * PageSize /\ m.size = s * PageSize
  BY <1>2
<1>4. b = a + i * s
  OBVIOUS
<1> HIDE DEF b
<1>5. m.base \div PageSize = b /\ m.size \div PageSize = s
  BY <1>1, <1>3, Aligned
<1>6. ChunkOf(m) = [start |-> b, npages |-> s]
  BY <1>5 DEF ChunkOf
<1>7. PagesIn(m) = Tile(a, s, i)
  BY <1>4, <1>6 DEF PagesIn, PagesOf, Tile
<1>8. a > 0 => m.base # 0
  <2>1. a > 0 => b > 0
    BY <1>1, <1>4
  <2>2. b > 0 => b * PageSize # 0
    <3>1. 0 < b => 0 * PageSize + PageSize <= b * PageSize
      BY <1>1, PageFacts, Products
    <3> QED
      BY <1>1, <3>1, PageFacts
  <2> QED
    BY <1>3, <2>1, <2>2
<1> QED
  BY <1>3, <1>6, <1>7, <1>8

(* What remains of w pages after an even division among the devices. *)
LEMMA EvenDivision ==
  ASSUME NEW w \in Nat, NEW each, each = (w * PageSize) \div NumDevices,
         NEW share, share = each \div PageSize
  PROVE  share \in Nat /\ NumDevices * share <= w /\ w - NumDevices * share < NumDevices
<1> DEFINE n == NumDevices
           p == PageSize
           r == w * PageSize
<1>1. n \in Nat \ {0} /\ p \in Nat \ {0} /\ n \in Nat /\ p \in Nat /\ r \in Nat /\ r = w * p
  BY PageFacts, Products
<1>2. each = r \div n /\ share = each \div p
  OBVIOUS
<1> HIDE DEF n, p, r
<1>3. each \in Nat /\ each * n <= r /\ r < each * n + n
  <2>1. r \in Int
    BY <1>1
  <2>2. r \div n \in Nat /\ (r \div n) * n <= r /\ r < (r \div n) * n + n
    BY <1>1, <2>1, Division
  <2> QED
    BY <1>2, <2>2
<1>4. share \in Nat /\ share * p <= each /\ each < share * p + p
  BY <1>1, <1>2, <1>3, Division
<1> DEFINE x == share * p
           y == n * share
           e == each * n
<1>5. x \in Nat /\ y \in Nat /\ e \in Nat /\ (share + 1) * p = x + p /\ n * (share + 1) = y + n
  BY <1>1, <1>3, <1>4, Products
<1>6. y * p <= r
  <2>1. x * n <= each * n
    BY <1>1, <1>3, <1>4, <1>5, Products
  <2>2. y * p = x * n
    BY <1>1, <1>4
  <2>3. x * n \in Nat
    BY <1>1, <1>5, Products
  <2> QED
    BY <1>1, <1>3, <2>1, <2>2, <2>3
<1>7. r < (y + n) * p
  <2>1. (each + 1) * n <= (x + p) * n
    <3>1. each + 1 \in Nat /\ x + p \in Nat /\ each + 1 <= x + p
      BY <1>1, <1>3, <1>4, <1>5
    <3> HIDE DEF x
    <3> QED
      BY <1>1, <3>1, Products
  <2>2. (each + 1) * n = each * n + n
    BY <1>1, <1>3
  <2>3. (x + p) * n = (y + n) * p
    BY <1>1, <1>4
  <2>4. (y + n) * p \in Nat
    <3>1. y + n \in Nat
      BY <1>1, <1>5
    <3> HIDE DEF y
    <3> QED
      BY <1>1, <3>1, Products
  <2> QED
    BY <1>1, <1>3, <1>5, <2>1, <2>2, <2>3, <2>4
<1> HIDE DEF x, y, e
<1>8. y <= w
  <2>1. w < y => w * p + p <= y * p
    BY <1>1, <1>5, Products
  <2>2. y * p \in Nat
    BY <1>1, <1>5, Products
  <2> QED
    BY <1>1, <1>5, <1>6, <2>1, <2>2
<1>9. w < y + n
  <2>1. y + n \in Nat
    BY <1>1, <1>5
  <2>2. y + n <= w => (y + n) * p <= w * p
    BY <1>1, <2>1, Products
  <2>3. (y + n) * p \in Nat
    BY <1>1, <2>1, Products
  <2> QED
    BY <1>1, <1>7, <2>1, <2>2, <2>3
<1>10. w - y < n
  BY <1>1, <1>5, <1>8, <1>9
<1> QED
  BY <1>4, <1>8, <1>10 DEF y, n

(* The carved chunk in pages. *)
CarvedPages(m, k, s, d) ==
    /\ \A i \in Device :
         /\ m.sys[i].base # 0 /\ m.packet[i].base # 0
         /\ m.sys[i].base = ChunkOf(m.sys[i]).start * PageSize
         /\ m.sys[i].size = ChunkOf(m.sys[i]).npages * PageSize
         /\ m.packet[i].base = ChunkOf(m.packet[i]).start * PageSize
         /\ m.packet[i].size = ChunkOf(m.packet[i]).npages * PageSize
         /\ PagesIn(m.sys[i]) = Tile(k, s, i)
         /\ PagesIn(m.packet[i]) = Tile(k + NumDevices * s, d, i)
    /\ NumDevices * (s + d) <= WantedPages /\ WantedPages - NumDevices * (s + d) < NumDevices

LEMMA Carved ==
  ASSUME NEW k \in Nat \ {0}, ~TooSmall(k * PageSize, PhysSize),
         NEW m, m = Chunks(k * PageSize, PhysSize)
  PROVE  /\ m \in [sys : [Device -> MemoryRange], packet : [Device -> MemoryRange]]
         /\ \E s, d \in Nat : CarvedPages(m, k, s, d)
<1> DEFINE base == k * PageSize
           each == (WantedPages * PageSize) \div NumDevices
           share == each \div PageSize
           d == DmaSize \div PageSize
           s == share - d
           n == NumDevices
<1>1. RoundUp(base) = base /\ base \in Nat /\ PhysSize \in Nat
  BY Aligned, PageFacts
<1>2. Remaining(base, PhysSize) = WantedPages * PageSize
  <2>1. WantedPages * PageSize \in Nat /\ PhysSize = WantedPages * PageSize
    BY PageFacts, Products
  <2> HIDE DEF base
  <2> QED
    BY <1>1, <2>1 DEF Remaining
<1>3. Share(base, PhysSize) = share * PageSize
  <2> HIDE DEF base
  <2> QED
    BY <1>2 DEF Share, RoundDown
<1>4. Dma = d * PageSize
  BY DEF Dma, RoundDown
<1>5. d \in Nat
  BY PageFacts, Division
<1>6. share \in Nat /\ n * share <= WantedPages /\ WantedPages - n * share < n
  <2> HIDE DEF each
  <2> QED
    BY PageFacts, EvenDivision DEF each
<1>7. ~TooSmall(base, PhysSize) /\ m = Chunks(base, PhysSize)
  OBVIOUS
<1> HIDE DEF base, each, share, d
<1>8. d <= share
  <2>1. share < d => share * PageSize + PageSize <= d * PageSize
    BY <1>5, <1>6, PageFacts, Products
  <2>2. ~(d * PageSize > share * PageSize)
    BY <1>3, <1>4, <1>7 DEF TooSmall
  <2>3. d * PageSize \in Nat /\ share * PageSize \in Nat
    BY <1>5, <1>6, PageFacts, Products
  <2> QED
    BY <1>5, <1>6, <2>1, <2>2, <2>3, PageFacts
<1>9. s \in Nat /\ share = s + d
  BY <1>5, <1>6, <1>8
<1> HIDE DEF s
<1>10. SysSize(base, PhysSize) = s * PageSize
  <2>1. share * PageSize = s * PageSize + d * PageSize /\ s * PageSize \in Nat /\ d * PageSize \in Nat
    BY <1>5, <1>9, PageFacts, Products
  <2> QED
    BY <1>3, <1>4, <2>1 DEF SysSize
<1>11. LaidOut(m, base, s * PageSize)
  BY <1>1, <1>7, <1>10, Layout
<1>12. m \in [sys : [Device -> MemoryRange], packet : [Device -> MemoryRange]]
  BY <1>11 DEF LaidOut
<1>13. ASSUME NEW i \in Device
       PROVE  /\ m.sys[i].base # 0
              /\ m.sys[i].base = ChunkOf(m.sys[i]).start * PageSize
              /\ m.sys[i].size = ChunkOf(m.sys[i]).npages * PageSize
              /\ PagesIn(m.sys[i]) = Tile(k, s, i)
  <2>1. i \in Nat /\ k \in Nat /\ k > 0
    BY PageFacts DEF Device
  <2>2. m.sys[i] = [base |-> k * PageSize + i * (s * PageSize), size |-> s * PageSize]
    BY <1>11 DEF LaidOut, base
  <2> QED
    BY <1>9, <2>1, <2>2, PageMemory
<1>14. ASSUME NEW i \in Device
       PROVE  /\ m.packet[i].base # 0
              /\ m.packet[i].base = ChunkOf(m.packet[i]).start * PageSize
              /\ m.packet[i].size = ChunkOf(m.packet[i]).npages * PageSize
              /\ PagesIn(m.packet[i]) = Tile(k + n * s, d, i)
  <2> DEFINE a == k + n * s
  <2>1. i \in Nat
    BY PageFacts DEF Device
  <2>2. a \in Nat /\ a > 0
    <3>1. n * s \in Nat
      BY <1>9, PageFacts, Products
    <3> QED
      BY <3>1
  <2>3. a * PageSize = k * PageSize + n * (s * PageSize)
    BY <1>9, PageFacts
  <2>4. m.packet[i] = [base |-> (k * PageSize + n * (s * PageSize)) + i * (d * PageSize),
                       size |-> d * PageSize]
    BY <1>4, <1>11 DEF LaidOut, base
  <2> HIDE DEF a
  <2>5. m.packet[i] = [base |-> a * PageSize + i * (d * PageSize), size |-> d * PageSize]
    BY <2>3, <2>4
  <2>6. /\ m.packet[i].base # 0
        /\ m.packet[i].base = ChunkOf(m.packet[i]).start * PageSize
        /\ m.packet[i].size = ChunkOf(m.packet[i]).npages * PageSize
        /\ PagesIn(m.packet[i]) = Tile(a, d, i)
    BY <1>5, <2>1, <2>2, <2>5, PageMemory
  <2> QED
    BY <2>6 DEF a
<1>15. n * (s + d) <= WantedPages /\ WantedPages - n * (s + d) < n
  BY <1>6, <1>9
<1>16. CarvedPages(m, k, s, d)
  BY <1>13, <1>14, <1>15 DEF CarvedPages
<1> QED
  BY <1>5, <1>9, <1>12, <1>16

LEMMA CarvedGiven ==
  ASSUME NEW k \in Nat \ {0}, NEW s \in Nat, NEW d \in Nat, CarvedPages(mem', k, s, d),
         own' = k .. k + WantedPages - 1
  PROVE  GivenPages'
<1> DEFINE n == NumDevices
           t == n * (s + d)
           whole == k .. k + n * (s + d) - 1
           used == UNION {PagesIn(m) : m \in Memories'}
<1>1. n \in Nat /\ Device = 0 .. n - 1 /\ WantedPages \in Nat
  BY PageFacts DEF Device
<1>2. LaidApart(k, s, d, n)
  BY <1>1, LayoutApart
<1>3. \A i \in Device : /\ PagesIn(mem'.sys[i]) = Tile(k, s, i)
                        /\ PagesIn(mem'.packet[i]) = Tile(k + n * s, d, i)
  BY DEF CarvedPages
<1>4. t \in Nat /\ t <= WantedPages /\ WantedPages - t < n
  <2>1. s + d \in Nat
    OBVIOUS
  <2>2. n * (s + d) \in Nat
    BY <1>1, <2>1, Products
  <2> QED
    BY <2>2 DEF CarvedPages
<1>5. whole = k .. k + t - 1
  OBVIOUS
<1> HIDE DEF n, t
<1>6. \A i, j \in Device :
        /\ i # j => /\ PagesIn(mem'.sys[i]) \cap PagesIn(mem'.sys[j]) = {}
                    /\ PagesIn(mem'.packet[i]) \cap PagesIn(mem'.packet[j]) = {}
        /\ PagesIn(mem'.sys[i]) \cap PagesIn(mem'.packet[j]) = {}
  BY <1>1, <1>2, <1>3 DEF LaidApart
<1>7. /\ \A i \in Device : PagesIn(mem'.sys[i]) \subseteq whole /\ PagesIn(mem'.packet[i]) \subseteq whole
      /\ \A x \in whole : \E i \in Device : x \in PagesIn(mem'.sys[i]) \/ x \in PagesIn(mem'.packet[i])
  BY <1>1, <1>2, <1>3 DEF LaidApart
<1>8. whole \subseteq own'
  BY <1>1, <1>4, <1>5
<1> HIDE DEF whole
<1>9. Memories' = {mem'.sys[i] : i \in Device} \cup {mem'.packet[i] : i \in Device}
  BY DEF Memories
<1>10. whole \subseteq used
  BY <1>7, <1>9
<1>11. Cardinality(own' \ used) < n
  <2> DEFINE a == k + t
             b == k + WantedPages - 1
  <2>1. own' \ whole = a .. b /\ a \in Int /\ b \in Int /\ b - a + 1 = WantedPages - t
    BY <1>1, <1>4, <1>5
  <2>2. a > b => WantedPages - t = 0
    BY <1>1, <1>4
  <2> HIDE DEF a, b
  <2>3. /\ IsFiniteSet(a .. b) /\ Cardinality(a .. b) = IF a > b THEN 0 ELSE b - a + 1
    BY <2>1, FS_Interval
  <2>4. Cardinality(a .. b) = WantedPages - t
    BY <2>1, <2>2, <2>3
  <2>5. own' \ used \in SUBSET (a .. b)
    BY <1>10, <2>1
  <2>6. Cardinality(own' \ used) <= Cardinality(a .. b) /\ IsFiniteSet(own' \ used)
    BY <2>3, <2>5, FS_Subset
  <2>7. Cardinality(own' \ used) \in Nat
    BY <2>6, FS_CardinalityType
  <2> QED
    BY <1>1, <1>4, <2>4, <2>6, <2>7
<1>12. \A m \in Memories' : /\ m.base # 0 /\ m.base = ChunkOf(m).start * PageSize
                            /\ m.size = ChunkOf(m).npages * PageSize
                            /\ PagesIn(m) \subseteq own'
  <2>1. \A i \in Device :
          /\ mem'.sys[i].base # 0 /\ mem'.packet[i].base # 0
          /\ mem'.sys[i].base = ChunkOf(mem'.sys[i]).start * PageSize
          /\ mem'.sys[i].size = ChunkOf(mem'.sys[i]).npages * PageSize
          /\ mem'.packet[i].base = ChunkOf(mem'.packet[i]).start * PageSize
          /\ mem'.packet[i].size = ChunkOf(mem'.packet[i]).npages * PageSize
    BY DEF CarvedPages
  <2> QED
    BY <1>7, <1>8, <1>9, <2>1
<1> QED
  BY <1>6, <1>11, <1>12 DEF GivenPages, PagesIn, PagesOf, ChunkOf, n

LEMMA AssignLargestKeeps ==
  ASSUME MemoryInv, AssignLargest
  PROVE  MemoryInv'
<1> DEFINE c == Head(good)
           k == c.start
           gone == UNION {PagesOf(d) : d \in Rest(c) \cup Range(Tail(good))}
<1>1. /\ phase = "assign" /\ good # << >> /\ c.npages >= WantedPages
      /\ ReleaseChunks(Rest(c) \cup Range(Tail(good)))
      /\ Carve(k * PageSize, PhysSize) /\ good' = << >>
      /\ UNCHANGED <<region, table, sorted, poor, taken, listed>>
  BY DEF AssignLargest
<1>2. MemoryType /\ PagesListed /\ ~stray /\ region = NoMemory
  BY <1>1 DEF MemoryInv, SearchOK, ReturnsWhatItTook
<1>3. own = GoodPages /\ good \in Seq(Chunk) /\ 0 \notin own
  BY <1>1, <1>2 DEF PagesListed, PoorPages, MemoryType
<1>4. /\ c \in Chunk /\ gone \subseteq own
      /\ k .. k + WantedPages - 1 \subseteq own
      /\ own \ gone = k .. k + WantedPages - 1
  <2>1. /\ \A i, j \in 1 .. Len(good) : i # j => PagesOf(good[i]) \cap PagesOf(good[j]) = {}
        /\ own = UNION {PagesOf(good[i]) : i \in 1 .. Len(good)}
    BY <1>2, <1>3 DEF PagesListed, GoodPages
  <2>2. c = Head(good) /\ c.npages >= WantedPages
        /\ gone = UNION {PagesOf(d) : d \in Rest(c) \cup Range(Tail(good))}
    BY <1>1
  <2> HIDE DEF c, gone, k
  <2>3. KeepsWanted(c, own, gone)
    BY <1>1, <1>3, <2>1, <2>2, LargestKept
  <2> QED
    BY <2>3 DEF k, KeepsWanted
<1>5. /\ own' = own \ gone
      /\ own' \in SUBSET (Nat \ {0}) /\ free' \in SUBSET (Nat \ {0})
      /\ IsFiniteSet(own') /\ IsFiniteSet(free') /\ own' \cap free' = {}
      /\ stray' = stray /\ stray' \in BOOLEAN
  BY <1>1, <1>2, <1>4, PagesReturned
<1> HIDE DEF c, gone
<1>6. k \in Nat \ {0}
  <2>1. k \in Nat /\ k \in k .. k + WantedPages - 1
    BY <1>4, PageFacts DEF Chunk
  <2> QED
    BY <1>3, <1>4, <2>1
<1> HIDE DEF k
<1>7. good' \in Seq(Chunk)
  BY <1>1, EmptySeq
<1>8. ~stray'
  BY <1>2, <1>5
<1>9. CASE TooSmall(k * PageSize, PhysSize)
  <2>1. phase' = "failed" /\ mem' = mem
    BY <1>1, <1>9 DEF Carve
  <2>2. MemoryType'
    BY <1>1, <1>2, <1>5, <1>7, <1>8, <2>1 DEF MemoryType
  <2> QED
    BY <1>1, <1>2, <1>8, <2>1, <2>2 DEF MemoryInv, SearchOK, LoadedOK, ReturnsWhatItTook
<1>10. CASE ~TooSmall(k * PageSize, PhysSize)
  <2>1. mem' = Chunks(k * PageSize, PhysSize) /\ phase' \in {"failed", "loaded"}
    BY <1>1, <1>10 DEF Carve
  <2>2. /\ mem' \in [sys : [Device -> MemoryRange], packet : [Device -> MemoryRange]]
        /\ \E s, d \in Nat : CarvedPages(mem', k, s, d)
    BY <1>6, <1>10, <2>1, Carved
  <2>3. GivenPages'
    BY <1>4, <1>5, <1>6, <2>2, CarvedGiven
  <2>4. MemoryType'
    BY <1>1, <1>2, <1>5, <1>7, <1>8, <2>1, <2>2 DEF MemoryType
  <2>5. LoadedOK'
    BY <1>1, <1>2, <2>3 DEF LoadedOK, NoMemory
  <2> QED
    BY <1>1, <1>2, <1>8, <2>1, <2>4, <2>5 DEF MemoryInv, SearchOK, ReturnsWhatItTook
<1> QED
  BY <1>9, <1>10

(* A chunk of the list in bytes. *)
LEMMA ChunkBytes ==
  ASSUME good \in Seq(Chunk), NEW k \in 1 .. Len(good), NEW m, m = ChunkAt(k)
  PROVE  /\ m \in MemoryRange /\ PagesIn(m) = PagesOf(good[k])
         /\ m.base = ChunkOf(m).start * PageSize /\ m.size = ChunkOf(m).npages * PageSize
         /\ 0 \notin PagesOf(good[k]) => m.base # 0
<1> DEFINE c == good[k]
           a == c.start
           n == c.npages
<1>1. c \in Chunk
  BY ElementOfSeq
<1>2. a \in Nat /\ n \in Nat /\ n > 0
  BY <1>1 DEF Chunk
<1>3. m = [base |-> a * PageSize, size |-> n * PageSize]
  BY DEF ChunkAt
<1>4. PagesOf(c) = a .. a + n - 1
  BY DEF PagesOf
<1> HIDE DEF c, a, n
<1>5. m.base = a * PageSize /\ m.size = n * PageSize
  BY <1>3
<1>6. /\ (a * PageSize) \div PageSize = a /\ (n * PageSize) \div PageSize = n
      /\ a * PageSize \in Nat /\ n * PageSize \in Nat
  BY <1>2, Aligned
<1>7. ChunkOf(m) = [start |-> a, npages |-> n]
  BY <1>5, <1>6 DEF ChunkOf
<1>8. m \in MemoryRange
  BY <1>3, <1>6 DEF MemoryRange
<1>9. PagesIn(m) = a .. a + n - 1
  BY <1>7 DEF PagesIn, PagesOf
<1>10. 0 \notin PagesOf(c) => m.base # 0
  <2>1. 0 \notin PagesOf(c) => 0 < a
    BY <1>2, <1>4
  <2>2. 0 < a => 0 * PageSize + PageSize <= a * PageSize
    BY <1>2, PageFacts, Products
  <2> QED
    BY <1>2, <1>5, <1>6, <2>1, <2>2, PageFacts
<1> QED
  BY <1>4, <1>5, <1>7, <1>8, <1>9, <1>10 DEF c

(* The first chunks are kept, one for each memory; the others go back. *)
KeepsFirst(s, l, o, gone) ==
    /\ gone \subseteq o
    /\ \A i \in 1 .. l : PagesOf(s[i]) \subseteq o \ gone
    /\ \A x \in o \ gone : \E i \in 1 .. l : x \in PagesOf(s[i])

LEMMA FirstKept ==
  ASSUME NEW s \in Seq(Chunk), NEW l \in Nat, l <= Len(s),
         \A i, j \in 1 .. Len(s) : i # j => PagesOf(s[i]) \cap PagesOf(s[j]) = {},
         NEW o, o = UNION {PagesOf(s[i]) : i \in 1 .. Len(s)},
         NEW gone, gone = UNION {PagesOf(d) : d \in Range(SubSeq(s, l + 1, Len(s)))}
  PROVE  KeepsFirst(s, l, o, gone)
<1> DEFINE n == Len(s)
           t == SubSeq(s, l + 1, Len(s))
<1>1. n \in Nat /\ l <= n
  OBVIOUS
<1>2. DOMAIN t = 1 .. n - l /\ \A i \in 1 .. n - l : t[i] = s[l + i]
  <2> DEFINE a == l + 1
  <2>1. a \in Int /\ n \in Int /\ a = l + 1
    BY <1>1
  <2>2. \A i \in a .. n : s[i] \in Chunk
    <3>1. \A i \in a .. n : i \in 1 .. n
      BY <1>1
    <3> QED
      BY <3>1, ElementOfSeq
  <2> HIDE DEF a
  <2>3. /\ SubSeq(s, a, n) \in Seq(Chunk) /\ Len(SubSeq(s, a, n)) = IF a <= n THEN n - a + 1 ELSE 0
        /\ \A i \in 1 .. n - a + 1 : SubSeq(s, a, n)[i] = s[a + i - 1]
    <3> HIDE DEF n
    <3> QED
      BY <2>1, <2>2, SubSeqProperties
  <2>4. t = SubSeq(s, a, n)
    BY <2>1
  <2> HIDE DEF t, n
  <2>5. t \in Seq(Chunk) /\ Len(t) = n - l
    BY <1>1, <2>1, <2>3, <2>4
  <2>6. DOMAIN t = 1 .. n - l
    BY <2>5
  <2>7. \A i \in 1 .. n - l : i \in 1 .. n - a + 1 /\ a + i - 1 = l + i
    BY <1>1, <2>1
  <2> QED
    BY <2>3, <2>4, <2>6, <2>7
<1>3. Range(t) = {t[i] : i \in 1 .. n - l}
  <2> HIDE DEF t, n
  <2> QED
    BY <1>2 DEF Range
<1>4. gone = UNION {PagesOf(d) : d \in Range(t)} /\ o = UNION {PagesOf(s[i]) : i \in 1 .. n}
  OBVIOUS
<1>5. \A i, j \in 1 .. n : i # j => PagesOf(s[i]) \cap PagesOf(s[j]) = {}
  OBVIOUS
<1> HIDE DEF t, n
<1>6. \A i \in 1 .. n - l : l + i \in 1 .. n /\ l + i \notin 1 .. l
  BY <1>1
<1>7. \A i \in 1 .. n : i \in 1 .. l \/ (i - l \in 1 .. n - l /\ l + (i - l) = i)
  BY <1>1
<1>8. \A i \in 1 .. l : i \in 1 .. n
  BY <1>1
<1>9. \A x \in gone : \E i \in 1 .. n : i \notin 1 .. l /\ x \in PagesOf(s[i])
  <2> SUFFICES ASSUME NEW x \in gone PROVE \E i \in 1 .. n : i \notin 1 .. l /\ x \in PagesOf(s[i])
    OBVIOUS
  <2>1. PICK i \in 1 .. n - l : x \in PagesOf(t[i])
    <3>1. PICK d \in Range(t) : x \in PagesOf(d)
      BY <1>4
    <3>2. PICK i \in 1 .. n - l : d = t[i]
      BY <1>3
    <3> QED
      BY <3>1, <3>2
  <2> DEFINE j == l + i
  <2>2. j \in 1 .. n /\ j \notin 1 .. l /\ t[i] = s[j]
    BY <1>2, <1>6
  <2> HIDE DEF j
  <2>3. x \in PagesOf(s[j])
    BY <2>1, <2>2
  <2> QED
    BY <2>2, <2>3
<1>10. \A i \in 1 .. n : i \notin 1 .. l => PagesOf(s[i]) \subseteq gone
  <2> SUFFICES ASSUME NEW i \in 1 .. n, i \notin 1 .. l, NEW x \in PagesOf(s[i]) PROVE x \in gone
    OBVIOUS
  <2> DEFINE j == i - l
  <2>1. j \in 1 .. n - l /\ t[j] = s[l + j] /\ l + j = i
    BY <1>2, <1>7
  <2> HIDE DEF j
  <2>2. x \in PagesOf(t[j]) /\ t[j] \in Range(t)
    BY <1>3, <2>1
  <2> QED
    BY <1>4, <2>2
<1>11. gone \subseteq o
  BY <1>4, <1>9
<1>12. \A i \in 1 .. l : PagesOf(s[i]) \subseteq o \ gone
  BY <1>4, <1>5, <1>8, <1>9
<1>13. \A x \in o \ gone : \E i \in 1 .. l : x \in PagesOf(s[i])
  <2> SUFFICES ASSUME NEW x \in o \ gone PROVE \E i \in 1 .. l : x \in PagesOf(s[i])
    OBVIOUS
  <2>1. PICK i \in 1 .. n : x \in PagesOf(s[i])
    BY <1>4
  <2> QED
    BY <1>10, <2>1
<1> QED
  BY <1>11, <1>12, <1>13 DEF KeepsFirst

LEMMA AssignEachKeeps ==
  ASSUME MemoryInv, AssignEach
  PROVE  MemoryInv'
<1> DEFINE n == NumDevices
           l == Len(good)
           given(k) == IF k <= Len(good) THEN ChunkAt(k) ELSE NoMemory
<1>1. /\ phase = "assign" /\ good' = << >>
      /\ UNCHANGED <<region, table, sorted, poor, taken, listed>>
      /\ mem' = [sys |-> [i \in Device |-> given(i + 1)],
                 packet |-> [i \in Device |-> given(n + i + 1)]]
      /\ IF l >= 2 * n
         THEN phase' = "loaded" /\ ReleaseChunks(Range(SubSeq(good, 2 * n + 1, Len(good))))
         ELSE phase' = "failed" /\ UNCHANGED <<free, own, stray>>
  BY DEF AssignEach
<1>2. MemoryType /\ PagesListed /\ ~stray /\ region = NoMemory
  BY <1>1 DEF MemoryInv, SearchOK, ReturnsWhatItTook
<1>3. own = GoodPages /\ good \in Seq(Chunk) /\ 0 \notin own /\ l \in Nat /\ n \in Nat
  BY <1>1, <1>2, PageFacts DEF PagesListed, PoorPages, MemoryType
<1>4. \A i \in Device : i \in Nat /\ i + 1 \in 1 .. n /\ n + i + 1 \in n + 1 .. 2 * n
  BY PageFacts DEF Device
<1>5. \A k \in 1 .. 2 * n : given(k) \in MemoryRange
  <2> SUFFICES ASSUME NEW k \in 1 .. 2 * n PROVE given(k) \in MemoryRange
    OBVIOUS
  <2>1. CASE k <= Len(good)
    <3>1. k \in 1 .. Len(good)
      BY <1>3, <2>1
    <3> QED
      BY <1>3, <2>1, <3>1, ChunkBytes
  <2>2. CASE ~(k <= Len(good))
    BY <2>2 DEF NoMemory, MemoryRange
  <2> QED
    BY <2>1, <2>2
<1> HIDE DEF given
<1>6. \A i \in Device : i + 1 \in 1 .. 2 * n /\ n + i + 1 \in 1 .. 2 * n
  BY <1>3, <1>4
<1>7. mem' \in [sys : [Device -> MemoryRange], packet : [Device -> MemoryRange]]
  BY <1>1, <1>5, <1>6
<1>8. good' \in Seq(Chunk)
  BY <1>1, EmptySeq
<1>9. CASE ~(l >= 2 * n)
  <2>1. phase' = "failed" /\ UNCHANGED <<free, own, stray>>
    BY <1>1, <1>9
  <2>2. MemoryType'
    BY <1>1, <1>2, <1>7, <1>8, <2>1 DEF MemoryType
  <2> QED
    BY <1>1, <1>2, <2>1, <2>2 DEF MemoryInv, SearchOK, LoadedOK, ReturnsWhatItTook
<1>10. CASE l >= 2 * n
  <2> DEFINE gone == UNION {PagesOf(d) : d \in Range(SubSeq(good, 2 * n + 1, Len(good)))}
             page(k) == PagesOf(good[k])
             used == UNION {PagesIn(m) : m \in Memories'}
  <2>1. phase' = "loaded" /\ ReleaseChunks(Range(SubSeq(good, 2 * n + 1, Len(good))))
    BY <1>1, <1>10
  <2>2. 2 * n \in Nat /\ 2 * n <= Len(good) /\ \A k \in 1 .. 2 * n : k \in 1 .. Len(good)
    BY <1>3, <1>10
  <2>3. \A i, j \in 1 .. Len(good) : i # j => PagesOf(good[i]) \cap PagesOf(good[j]) = {}
    BY <1>2 DEF PagesListed
  <2>4. /\ gone \subseteq own
        /\ \A i \in 1 .. 2 * n : PagesOf(good[i]) \subseteq own \ gone
        /\ \A x \in own \ gone : \E i \in 1 .. 2 * n : x \in PagesOf(good[i])
    <3> DEFINE w == 2 * n
    <3>1. own = UNION {PagesOf(good[i]) : i \in 1 .. Len(good)}
      BY <1>3 DEF GoodPages
    <3>2. w \in Nat /\ w <= Len(good)
          /\ gone = UNION {PagesOf(d) : d \in Range(SubSeq(good, w + 1, Len(good)))}
      BY <2>2
    <3> HIDE DEF w, gone
    <3>3. KeepsFirst(good, w, own, gone)
      BY <1>3, <2>3, <3>1, <3>2, FirstKept
    <3> QED
      BY <3>3 DEF w, KeepsFirst
  <2>5. /\ own' = own \ gone
        /\ own' \in SUBSET (Nat \ {0}) /\ free' \in SUBSET (Nat \ {0})
        /\ IsFiniteSet(own') /\ IsFiniteSet(free') /\ own' \cap free' = {}
        /\ stray' = stray /\ stray' \in BOOLEAN
    BY <1>2, <2>1, <2>4, PagesReturned
  <2> HIDE DEF gone
  <2>6. ASSUME NEW k \in 1 .. 2 * n
        PROVE  /\ PagesIn(given(k)) = page(k) /\ page(k) \subseteq own'
               /\ given(k).base # 0 /\ given(k).base = ChunkOf(given(k)).start * PageSize
               /\ given(k).size = ChunkOf(given(k)).npages * PageSize
    <3>1. k \in 1 .. Len(good) /\ k <= Len(good) /\ page(k) \subseteq own' /\ 0 \notin page(k)
      <4>1. k \in 1 .. Len(good) /\ page(k) \subseteq own'
        BY <2>2, <2>4, <2>5
      <4> QED
        BY <1>3, <2>5, <4>1
    <3>2. given(k) = ChunkAt(k)
      BY <3>1 DEF given
    <3> QED
      BY <1>3, <3>1, <3>2, ChunkBytes
  <2>7. \A i \in Device : mem'.sys[i] = given(i + 1) /\ mem'.packet[i] = given(n + i + 1)
    BY <1>1
  <2>8. \A j, k \in 1 .. 2 * n : j # k => page(j) \cap page(k) = {}
    BY <2>2, <2>3
  <2> HIDE DEF page
  <2>9. \A i, j \in Device :
          /\ i # j => /\ PagesIn(mem'.sys[i]) \cap PagesIn(mem'.sys[j]) = {}
                      /\ PagesIn(mem'.packet[i]) \cap PagesIn(mem'.packet[j]) = {}
          /\ PagesIn(mem'.sys[i]) \cap PagesIn(mem'.packet[j]) = {}
    <3>1. \A i \in Device : PagesIn(mem'.sys[i]) = page(i + 1) /\ PagesIn(mem'.packet[i]) = page(n + i + 1)
      BY <1>6, <2>6, <2>7
    <3>2. \A i, j \in Device : /\ i # j => i + 1 # j + 1 /\ n + i + 1 # n + j + 1
                               /\ i + 1 # n + j + 1
      BY <1>3, <1>4
    <3>3. \A i, j \in Device : /\ i # j => /\ page(i + 1) \cap page(j + 1) = {}
                                           /\ page(n + i + 1) \cap page(n + j + 1) = {}
                               /\ page(i + 1) \cap page(n + j + 1) = {}
      BY <1>6, <2>8, <3>2
    <3> QED
      BY <3>1, <3>3
  <2>10. Memories' = {mem'.sys[i] : i \in Device} \cup {mem'.packet[i] : i \in Device}
    BY DEF Memories
  <2>11. \A m \in Memories' : \E k \in 1 .. 2 * n : m = given(k)
    BY <1>6, <2>7, <2>10
  <2>12. \A m \in Memories' : /\ m.base # 0 /\ m.base = ChunkOf(m).start * PageSize
                              /\ m.size = ChunkOf(m).npages * PageSize
                              /\ PagesIn(m) \subseteq own'
    BY <2>6, <2>11
  <2>13. \A k \in 1 .. 2 * n : given(k) \in Memories'
    <3> SUFFICES ASSUME NEW k \in 1 .. 2 * n PROVE given(k) \in Memories'
      OBVIOUS
    <3>1. CASE k <= n
      <4>1. k - 1 \in Device /\ (k - 1) + 1 = k
        BY <1>3, <3>1 DEF Device
      <4>2. given(k) = mem'.sys[k - 1]
        BY <2>7, <4>1
      <4> QED
        BY <2>10, <4>1, <4>2
    <3>2. CASE ~(k <= n)
      <4>1. k - n - 1 \in Device /\ n + (k - n - 1) + 1 = k
        BY <1>3, <3>2 DEF Device
      <4>2. given(k) = mem'.packet[k - n - 1]
        BY <2>7, <4>1
      <4> QED
        BY <2>10, <4>1, <4>2
    <3> QED
      BY <3>1, <3>2
  <2>14. own' \ used = {}
    <3>1. \A x \in own' : \E k \in 1 .. 2 * n : x \in page(k)
      BY <2>4, <2>5 DEF page
    <3>2. \A k \in 1 .. 2 * n : page(k) \subseteq used
      BY <2>6, <2>13
    <3> HIDE DEF used
    <3> QED
      BY <3>1, <3>2
  <2>15. Cardinality(own' \ used) < n
    BY <2>14, FS_EmptySet, PageFacts
  <2>16. GivenPages'
    BY <2>9, <2>12, <2>15 DEF GivenPages, PagesIn, PagesOf, ChunkOf
  <2>17. MemoryType'
    BY <1>1, <1>2, <1>7, <1>8, <2>1, <2>5 DEF MemoryType
  <2>18. LoadedOK'
    BY <1>1, <1>2, <2>16 DEF LoadedOK, NoMemory
  <2> QED
    BY <1>1, <1>2, <2>1, <2>5, <2>17, <2>18 DEF MemoryInv, SearchOK, ReturnsWhatItTook
<1> QED
  BY <1>9, <1>10

LEMMA AssignNoneKeeps ==
  ASSUME MemoryInv, AssignNone
  PROVE  MemoryInv'
<1>1. /\ phase = "assign" /\ phase' = "oops"
      /\ UNCHANGED <<region, free, own, table, sorted, good, poor, taken, listed, mem, stray>>
  BY DEF AssignNone
<1>2. MemoryType /\ ~stray /\ region = NoMemory
  BY <1>1 DEF MemoryInv, SearchOK, ReturnsWhatItTook
<1>3. MemoryType'
  BY <1>1, <1>2 DEF MemoryType
<1> QED
  BY <1>1, <1>2, <1>3 DEF MemoryInv, SearchOK, LoadedOK, ReturnsWhatItTook

(* memory_manager_fini returns the pages in the devices' memories: pages   *)
(* of the driver, and all but what the division has left over.             *)
LEMMA ExitKeeps ==
  ASSUME MemoryInv, Exit
  PROVE  MemoryInv'
<1>1. /\ phase = "loaded" /\ phase' = "exited"
      /\ UNCHANGED <<region, table, sorted, good, poor, taken, listed, mem>>
  BY DEF Exit
<1>2. MemoryType /\ ~stray /\ (region # NoMemory => own = {})
  BY <1>1 DEF MemoryInv, ReturnsWhatItTook
<1>3. CASE region = NoMemory
  <2> DEFINE chunks == {[start |-> m.base \div PageSize, npages |-> m.size \div PageSize] :
                         m \in {x \in Memories : x.base # 0}}
             gone == UNION {PagesOf(c) : c \in chunks}
             used == UNION {PagesIn(m) : m \in Memories}
  <2>1. ReleaseChunks(chunks)
    BY <1>3 DEF Exit
  <2>2. GivenPages
    BY <1>1, <1>3 DEF MemoryInv, LoadedOK
  <2>3. chunks = {ChunkOf(m) : m \in Memories}
    BY <2>2 DEF GivenPages, ChunkOf
  <2>4. gone = used
    <3> HIDE DEF chunks
    <3> QED
      BY <2>3 DEF PagesIn
  <2>5. gone \subseteq own /\ Cardinality(own \ gone) < NumDevices
    <3> HIDE DEF gone
    <3> QED
      BY <2>2, <2>4 DEF GivenPages
  <2>6. /\ own' = own \ gone
        /\ own' \in SUBSET (Nat \ {0}) /\ free' \in SUBSET (Nat \ {0})
        /\ IsFiniteSet(own') /\ IsFiniteSet(free') /\ own' \cap free' = {}
        /\ stray' = stray /\ stray' \in BOOLEAN
    <3> HIDE DEF chunks
    <3> QED
      BY <1>2, <2>1, <2>5, PagesReturned
  <2> HIDE DEF gone
  <2>7. MemoryType'
    BY <1>1, <1>2, <2>6 DEF MemoryType
  <2> QED
    BY <1>1, <1>2, <1>3, <2>5, <2>6, <2>7 DEF MemoryInv, SearchOK, LoadedOK, ReturnsWhatItTook
<1>4. CASE region # NoMemory
  <2>1. UNCHANGED <<free, own, stray>>
    BY <1>4 DEF Exit
  <2>2. Cardinality(own') < NumDevices
    BY <1>2, <1>4, <2>1, FS_EmptySet, PageFacts
  <2>3. MemoryType'
    BY <1>1, <1>2, <2>1 DEF MemoryType
  <2> QED
    BY <1>1, <1>2, <2>1, <2>2, <2>3 DEF MemoryInv, SearchOK, LoadedOK, ReturnsWhatItTook
<1> QED
  BY <1>3, <1>4

-----------------------------------------------------------------------------
LEMMA MemoryStands ==
  ASSUME MemoryInv, UNCHANGED memory
  PROVE  MemoryInv'
<1>1. UNCHANGED <<phase, region, free, own, table, sorted, good, poor, taken, listed, mem, stray>>
  BY DEF memory
<1>2. MemoryType'
  BY <1>1 DEF MemoryInv, MemoryType
<1>3. GoodPages' = GoodPages /\ PoorPages' = PoorPages
  BY <1>1 DEF GoodPages, PoorPages
<1>4. PagesListed => PagesListed'
  BY <1>1, <1>3 DEF PagesListed, PagesOf
<1>5. PagesCounted => PagesCounted'
  BY <1>1, <1>3 DEF PagesCounted
<1>6. GivenPages => GivenPages'
  <2>1. Memories' = Memories
    BY <1>1 DEF Memories
  <2> QED
    BY <1>1, <2>1 DEF GivenPages, PagesIn, PagesOf, ChunkOf
<1>7. SearchOK'
  BY <1>1, <1>4, <1>5 DEF MemoryInv, SearchOK
<1>8. LoadedOK'
  BY <1>1, <1>6 DEF MemoryInv, LoadedOK, Chunks, TooSmall, Share, Remaining, Dma, RoundUp, RoundDown
<1> QED
  BY <1>1, <1>2, <1>7, <1>8 DEF MemoryInv, ReturnsWhatItTook

LEMMA MemoryAlways == DriverSpec => []MemoryInv
<1>1. DriverInit => MemoryInv
  BY MemoryStart DEF DriverInit
<1>2. MemoryInv /\ [DriverNext]_<<vars, memory>> => MemoryInv'
  <2> SUFFICES ASSUME MemoryInv, [DriverNext]_<<vars, memory>> PROVE MemoryInv'
    OBVIOUS
  <2>1. CASE UNCHANGED memory
    BY <2>1, MemoryStands
  <2>2. CASE MemoryNext
    BY <2>2, LoadFixedKeeps, FillTableKeeps, ListRunKeeps, ListEmptyTableKeeps, SumUpKeeps,
       AssignLargestKeeps, AssignEachKeeps, AssignNoneKeeps, ExitKeeps DEF MemoryNext
  <2>3. MemoryNext \/ UNCHANGED memory
    BY DEF DriverNext
  <2> QED
    BY <2>1, <2>2, <2>3
<1> QED
  BY <1>1, <1>2, PTL DEF DriverSpec

(* For any number of devices, any page size and table size, any free pages *)
(* and any region set aside at boot, and however the page table is sorted: *)
(* the memories that the loaded driver has given to its devices (divided   *)
(* by fixed_memory_chunking, or the chunks dynamic_memory_init has found)  *)
(* share no byte, and every byte of them is the driver's own.              *)
THEOREM MemoriesLieApart == DriverSpec => []DevicesApart
<1>1. MemoryInv => DevicesApart
  BY InvApart
<1> QED
  BY <1>1, MemoryAlways, PTL

(* For the same constants: the driver gives back no page that it does not  *)
(* hold, unless the page table was filled exactly and loading fails; and   *)
(* once it is loaded and unloaded again, fewer pages than there are        *)
(* devices have not come back.                                             *)
THEOREM ReturnsItsPages == DriverSpec => []ReturnsWhatItTook
<1>1. MemoryInv => ReturnsWhatItTook
  BY DEF MemoryInv
<1> QED
  BY <1>1, MemoryAlways, PTL
=============================================================================
