---------------------------- MODULE PacketWindows ----------------------------
(***************************************************************************)
(* The table of packet windows.  A descriptor names a packet by a slot of  *)
(* phy_device->packet_base and by the low bits of its address; the device  *)
(* takes the high bits from the register of that slot.  A thread that      *)
(* enqueues a packet searches the table for the window of its packet and   *)
(* takes the first free slot if there is none.  store_phys_addr_into_fd    *)
(* (stateless flows) holds hw_packet_base_lock, store_phys_addr_into_pd    *)
(* (stateful flows) does not.                                              *)
(*                                                                         *)
(* A packet's address is its window: a window has 2^PQ_ADDR_LOW_BITS       *)
(* bytes, what is below is copied to the descriptor as it is.  NumBases    *)
(* windows that follow each other from a multiple of NumBases are a        *)
(* region.                                                                 *)
(***************************************************************************)
EXTENDS Integers

CONSTANTS
    Thread,
    NoThread,
    NumBases,   \* HW_PACKET_BASES, 16
    NumWindows, \* windows of physical memory that packets lie in
    HomeWindow  \* the window of config->packet_base_phys

Window == 0 .. NumWindows - 1
Free == NumWindows  \* FREE_PACKET_BASE
Slot == 0 .. NumBases - 1

Region(w) == w \div NumBases

(* The space of physical addresses does not end within a region. *)
ASSUME WindowsAssumption ==
    /\ NoThread \notin Thread
    /\ NumBases \in Nat \ {0}
    /\ NumWindows \in Nat
    /\ HomeWindow \in Window
    /\ NumBases * Region(HomeWindow) + NumBases <= NumWindows

HomeBase(i) == NumBases * Region(HomeWindow) + i

VARIABLES
    fixed,  \* config.virt_to_phys is NULL: the slots are set once and for all
    table,  \* packet_base
    regs,   \* what the registers of a slot hold, in the device
    lock,   \* holder of hw_packet_base_lock
    pc,     \* what a thread does: "idle", "wait", "search", "store", "registers"
    want,   \* the window a thread looks for
    locks,  \* whether its call takes the lock
    at,     \* the slot it looks at or has chosen
    desc,   \* its last descriptor: a slot and the window it stands for
    raced,  \* history: slots that were chosen, or found, while another thread was
            \*   storing to them
    pdUsed  \* history: a call was made that takes no lock

vars == <<fixed, table, regs, lock, pc, want, locks, at, desc, raced, pdUsed>>

NoDesc == [slot |-> NumBases, window |-> Free]

(* configure_device *)
Init ==
    /\ fixed \in BOOLEAN
    /\ table = [i \in Slot |-> IF fixed THEN HomeBase(i) ELSE Free]
    /\ regs = table
    /\ lock = NoThread
    /\ pc = [t \in Thread |-> "idle"]
    /\ want = [t \in Thread |-> Free]
    /\ locks = [t \in Thread |-> FALSE]
    /\ at = [t \in Thread |-> 0]
    /\ desc = [t \in Thread |-> NoDesc]
    /\ raced = {}
    /\ pdUsed = FALSE

-----------------------------------------------------------------------------
(* The four bits of the address that name a slot; the region is not looked *)
(* at.                                                                     *)
InHomeRegionAlways(w) == TRUE

InHomeRegion(w) == Region(w) = Region(HomeWindow)

(* Without a callback the slot is a part of the address. *)
StoreFixed(t, w) ==
    /\ fixed /\ pc[t] = "idle"
    /\ desc' = [desc EXCEPT ![t] =
          IF InHomeRegion(w) THEN [slot |-> w % NumBases, window |-> w] ELSE NoDesc]
    /\ UNCHANGED <<fixed, table, regs, lock, pc, want, locks, at, raced, pdUsed>>

(* A call begins; for a PD the search starts at once. *)
BeginStore(t, w, takesLock) ==
    /\ ~fixed /\ pc[t] = "idle"
    /\ pc' = [pc EXCEPT ![t] = IF takesLock THEN "wait" ELSE "search"]
    /\ want' = [want EXCEPT ![t] = w]
    /\ locks' = [locks EXCEPT ![t] = takesLock]
    /\ at' = [at EXCEPT ![t] = 0]
    /\ desc' = [desc EXCEPT ![t] = NoDesc]
    /\ pdUsed' = (pdUsed \/ ~takesLock)
    /\ UNCHANGED <<fixed, table, regs, lock, raced>>

(* The lock is taken whoever has it. *)
LockAlways(t) ==
    /\ pc[t] = "wait"
    /\ lock' = t
    /\ pc' = [pc EXCEPT ![t] = "search"]
    /\ UNCHANGED <<fixed, table, regs, want, locks, at, desc, raced, pdUsed>>

Lock(t) ==
    /\ pc[t] = "wait" /\ lock = NoThread
    /\ lock' = t
    /\ pc' = [pc EXCEPT ![t] = "search"]
    /\ UNCHANGED <<fixed, table, regs, want, locks, at, desc, raced, pdUsed>>

Unlock(t) == lock' = IF locks[t] THEN NoThread ELSE lock

Storing(i) == {u \in Thread : pc[u] \in {"store", "registers"} /\ at[u] = i}

(* The slot has this window already: the call ends. *)
Found(t) ==
    /\ pc[t] = "search" /\ at[t] < NumBases
    /\ table[at[t]] = want[t]
    /\ desc' = [desc EXCEPT ![t] = [slot |-> at[t], window |-> want[t]]]
    /\ raced' = IF Storing(at[t]) # {} THEN raced \cup {at[t]} ELSE raced
    /\ pc' = [pc EXCEPT ![t] = "idle"]
    /\ Unlock(t)
    /\ UNCHANGED <<fixed, table, regs, want, locks, at, pdUsed>>

(* A slot with the window itself may be passed over. *)
LookOnPast(t) ==
    /\ pc[t] = "search" /\ at[t] < NumBases
    /\ table[at[t]] # Free
    /\ at' = [at EXCEPT ![t] = @ + 1]
    /\ UNCHANGED <<fixed, table, regs, lock, pc, want, locks, desc, raced, pdUsed>>

(* The slot has another window. *)
LookOn(t) ==
    /\ pc[t] = "search" /\ at[t] < NumBases
    /\ table[at[t]] \notin {want[t], Free}
    /\ at' = [at EXCEPT ![t] = @ + 1]
    /\ UNCHANGED <<fixed, table, regs, lock, pc, want, locks, desc, raced, pdUsed>>

(* The slot is free; the search ends, as slots are taken in order. *)
Choose(t) ==
    /\ pc[t] = "search" /\ at[t] < NumBases
    /\ table[at[t]] = Free
    /\ raced' = IF Storing(at[t]) # {} THEN raced \cup {at[t]} ELSE raced
    /\ pc' = [pc EXCEPT ![t] = "store"]
    /\ UNCHANGED <<fixed, table, regs, lock, want, locks, at, desc, pdUsed>>

(* All slots are taken: NLM_OUT_OF_PACKET_MEMORY. *)
OutOfBases(t) ==
    /\ pc[t] = "search" /\ at[t] = NumBases
    /\ pc' = [pc EXCEPT ![t] = "idle"]
    /\ Unlock(t)
    /\ UNCHANGED <<fixed, table, regs, want, locks, at, desc, raced, pdUsed>>

StoreBase(t) ==
    /\ pc[t] = "store"
    /\ table' = [table EXCEPT ![at[t]] = want[t]]
    /\ pc' = [pc EXCEPT ![t] = "registers"]
    /\ UNCHANGED <<fixed, regs, lock, want, locks, at, desc, raced, pdUsed>>

(* Both words of the register, and the end of the call.  No descriptor     *)
(* names the slot between the two words unless the slot is raced for.      *)
SetRegisters(t) ==
    /\ pc[t] = "registers"
    /\ regs' = [regs EXCEPT ![at[t]] = want[t]]
    /\ desc' = [desc EXCEPT ![t] = [slot |-> at[t], window |-> want[t]]]
    /\ pc' = [pc EXCEPT ![t] = "idle"]
    /\ Unlock(t)
    /\ UNCHANGED <<fixed, table, want, locks, at, raced, pdUsed>>

Next ==
    \E t \in Thread :
        \/ \E w \in Window : StoreFixed(t, w)
        \/ \E w \in Window, takesLock \in BOOLEAN : BeginStore(t, w, takesLock)
        \/ Lock(t) \/ Found(t) \/ LookOn(t) \/ Choose(t) \/ OutOfBases(t)
        \/ StoreBase(t) \/ SetRegisters(t)

Spec == Init /\ [][Next]_vars

-----------------------------------------------------------------------------
(* The types, and hw_packet_base_lock: its holder is inside a call that    *)
(* takes it, and whoever works under it holds it.                          *)
TypeOK ==
    /\ fixed \in BOOLEAN /\ pdUsed \in BOOLEAN
    /\ table \in [Slot -> Window \cup {Free}] /\ regs \in [Slot -> Window \cup {Free}]
    /\ lock \in Thread \cup {NoThread}
    /\ pc \in [Thread -> {"idle", "wait", "search", "store", "registers"}]
    /\ want \in [Thread -> Window \cup {Free}] /\ locks \in [Thread -> BOOLEAN]
    /\ at \in [Thread -> 0 .. NumBases]
    /\ desc \in [Thread -> [slot : Slot, window : Window] \cup {NoDesc}]
    /\ raced \subseteq Slot
    /\ \A t \in Thread : lock = t <=> locks[t] /\ pc[t] \in {"search", "store", "registers"}

(* The device reads a packet from the memory it lies in: what the register *)
(* of a descriptor's slot holds stays the window the descriptor was made   *)
(* for, however many packets of any threads are enqueued afterwards; the   *)
(* slots that a thread without the lock raced for are the only exception   *)
(* (store_phys_addr_into_fd and _pd; also the slots set up by              *)
(* configure_device, which no call changes).                               *)
PacketsReadFromTheirWindow ==
    /\ TypeOK
    /\ \A t \in Thread :
        desc[t] # NoDesc /\ desc[t].slot \notin raced => regs[desc[t].slot] = desc[t].window

(* The lock is enough for stateless flows: as long as no stateful flow has *)
(* enqueued a packet, no slot is found or chosen while it is being stored, *)
(* so PacketsReadFromTheirWindow holds without exception.                  *)
NoRaceUnderLock == ~pdUsed => raced = {}

(* A window takes one slot, so the NumBases slots last for NumBases        *)
(* windows; slots are never given back.  Again up to the slots raced for.  *)
OneSlotPerWindow ==
    \A i, j \in Slot :
        table[i] = table[j] /\ table[i] # Free /\ i # j => {i, j} \cap raced # {}
=============================================================================
