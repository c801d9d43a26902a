------------------------ MODULE PacketWindows_proofs ------------------------
(***************************************************************************)
(* Proofs about the table of packet windows, for any number of threads,    *)
(* slots and windows.                                                      *)
(***************************************************************************)
EXTENDS PacketWindows, TLAPS

Searching(t) == pc[t] \in {"search", "store", "registers"}

(* A call looks for a window, and has chosen one of the slots when it      *)
(* stores.                                                                 *)
CallsOK ==
    \A t \in Thread :
        /\ pc[t] # "idle" => want[t] \in Window
        /\ pc[t] = "wait" => at[t] = 0 /\ locks[t]
        /\ pc[t] \in {"store", "registers"} => at[t] \in Slot

(* The table of configure_device is the slots of the home region, and no   *)
(* call searches it.                                                       *)
FixedTable ==
    fixed => /\ \A t \in Thread : pc[t] = "idle"
             /\ \A i \in Slot : table[i] = HomeBase(i) /\ regs[i] = HomeBase(i)

(* Slots are taken in order, and none is given back.                       *)
TakenInOrder ==
    ~fixed =>
        /\ \A i, j \in Slot : i < j /\ table[j] # Free => table[i] # Free
        /\ \A t \in Thread : \A i \in Slot : Searching(t) /\ i < at[t] => table[i] # Free

(* What a thread has passed is not what it looks for, even if the slot     *)
(* was stored to since, unless it was raced for.                           *)
NotPassed ==
    \A t \in Thread : \A i \in Slot \ raced :
        Searching(t) /\ i < at[t] => table[i] # want[t]

(* A slot that was not raced for has one thread that stores to it; it is   *)
(* free before the store and holds that thread's window after it.          *)
StoredByOne ==
    \A t \in Thread : at[t] \notin raced =>
        /\ pc[t] = "store" => table[at[t]] = Free
        /\ pc[t] = "registers" => table[at[t]] = want[t]
        /\ pc[t] \in {"store", "registers"} => Storing(at[t]) = {t}

(* Once nobody stores to a slot, the registers of the device agree with    *)
(* the table.                                                              *)
RegistersAgree ==
    \A i \in Slot \ raced :
        table[i] # Free /\ Storing(i) = {} => regs[i] = table[i]

(* The slot of a descriptor is complete.                                   *)
DescriptorsComplete ==
    \A t \in Thread : desc[t] # NoDesc /\ desc[t].slot \notin raced =>
        table[desc[t].slot] = desc[t].window /\ Storing(desc[t].slot) = {}

(* As long as no call goes without it, every call takes the lock.          *)
AllLock == ~pdUsed => \A t \in Thread : pc[t] # "idle" => locks[t]

WindowsInv ==
    /\ TypeOK /\ CallsOK /\ FixedTable /\ TakenInOrder /\ NotPassed
    /\ StoredByOne /\ RegistersAgree /\ DescriptorsComplete
    /\ AllLock /\ NoRaceUnderLock /\ OneSlotPerWindow

(* What the assumption on the constants says of slots and windows. *)
LEMMA Constants ==
  /\ NumBases \in Nat /\ NumBases > 0 /\ NumWindows \in Nat
  /\ Free \notin Window /\ Free = NumWindows
  /\ \A i \in Slot : HomeBase(i) \in Window
BY WindowsAssumption DEF Window, Free, Slot, HomeBase, Region

(* A thread takes the lock only when nobody has it.                        *)
LEMMA LockKeeps ==
  ASSUME WindowsInv, NEW t \in Thread, Lock(t)
  PROVE  WindowsInv'
<1> USE Constants DEF WindowsInv, Slot
<1>1. TypeOK'
  <2>1. \A u \in Thread : lock' = u <=> locks'[u] /\ pc'[u] \in {"search", "store", "registers"}
    BY WindowsAssumption DEF Lock, TypeOK, CallsOK
  <2> QED
    BY <2>1, WindowsAssumption DEF Lock, TypeOK
<1>2. CallsOK'
  BY DEF Lock, TypeOK, CallsOK
<1>3. FixedTable'
  BY DEF Lock, TypeOK, FixedTable
<1>4. TakenInOrder'
  BY DEF Lock, TypeOK, TakenInOrder, Searching, CallsOK
<1>5. NotPassed'
  BY DEF Lock, TypeOK, NotPassed, Searching, CallsOK
<1>6. StoredByOne'
  BY DEF Lock, TypeOK, StoredByOne, Storing, CallsOK
<1>7. RegistersAgree'
  BY DEF Lock, TypeOK, RegistersAgree, StoredByOne, Storing, CallsOK
<1>8. DescriptorsComplete'
  BY DEF Lock, TypeOK, DescriptorsComplete, Storing, StoredByOne, CallsOK
<1>9. AllLock'
  BY DEF Lock, TypeOK, AllLock
<1>10. NoRaceUnderLock'
  BY DEF Lock, TypeOK, NoRaceUnderLock
<1>11. OneSlotPerWindow'
  BY DEF Lock, TypeOK, OneSlotPerWindow
<1> QED
  BY <1>1, <1>2, <1>3, <1>4, <1>5, <1>6, <1>7, <1>8, <1>9, <1>10, <1>11

(* A slot that is found holds the window and, unless another thread is     *)
(* storing to it, so do the registers.                                     *)
LEMMA FoundKeeps ==
  ASSUME WindowsInv, NEW t \in Thread, Found(t)
  PROVE  WindowsInv'
<1> USE Constants DEF WindowsInv, Slot
<1>1. TypeOK'
  <2>1. \A u \in Thread : lock' = u <=> locks'[u] /\ pc'[u] \in {"search", "store", "registers"}
    BY WindowsAssumption DEF Found, TypeOK, CallsOK, Unlock
  <2>2. [slot |-> at[t], window |-> want[t]] \in [slot : Slot, window : Window]
    BY DEF Found, TypeOK, CallsOK
  <2>3. desc' \in [Thread -> [slot : Slot, window : Window] \cup {NoDesc}]
    BY <2>2 DEF Found, TypeOK
  <2>4. raced' \subseteq Slot
    <3>1. at[t] \in Slot /\ raced \subseteq Slot
      BY DEF Found, TypeOK
    <3>2. raced' \in {raced, raced \cup {at[t]}}
      BY DEF Found
    <3> QED
      BY <3>1, <3>2
  <2> QED
    BY <2>1, <2>3, <2>4, WindowsAssumption DEF Found, TypeOK, Unlock
<1>2. CallsOK'
  BY DEF Found, TypeOK, CallsOK
<1>3. FixedTable'
  BY DEF Found, TypeOK, FixedTable
<1>4. TakenInOrder'
  BY DEF Found, TypeOK, TakenInOrder, Searching, CallsOK
<1>5. NotPassed'
  BY DEF Found, TypeOK, NotPassed, Searching, CallsOK
<1>6. StoredByOne'
  BY DEF Found, TypeOK, StoredByOne, Storing, CallsOK
<1>7. RegistersAgree'
  BY DEF Found, TypeOK, RegistersAgree, StoredByOne, Storing, CallsOK
<1>8. DescriptorsComplete'
  BY DEF Found, TypeOK, DescriptorsComplete, Storing, StoredByOne, CallsOK
<1>9. AllLock'
  BY DEF Found, TypeOK, AllLock
<1>10. NoRaceUnderLock'
  <2>1. ~pdUsed => Storing(at[t]) = {}
    <3>1. SUFFICES ASSUME ~pdUsed, NEW u \in Storing(at[t]) PROVE FALSE
      BY Zenon DEF Storing
    <3>2. u \in Thread /\ pc[u] \in {"store", "registers"} /\ pc[t] = "search"
      BY <3>1 DEF Storing, Found
    <3>3. locks[u] /\ locks[t]
      BY <3>1, <3>2 DEF AllLock
    <3>4. lock = u /\ lock = t
      BY <3>2, <3>3 DEF TypeOK
    <3> QED
      BY <3>2, <3>4
  <2> QED
    BY <2>1 DEF NoRaceUnderLock, Found
<1>11. OneSlotPerWindow'
  BY DEF Found, TypeOK, OneSlotPerWindow
<1> QED
  BY <1>1, <1>2, <1>3, <1>4, <1>5, <1>6, <1>7, <1>8, <1>9, <1>10, <1>11

(* A slot that is passed is neither free nor the one looked for.           *)
LEMMA LookOnKeeps ==
  ASSUME WindowsInv, NEW t \in Thread, LookOn(t)
  PROVE  WindowsInv'
<1> USE Constants DEF WindowsInv, Slot
<1>1. TypeOK'
  BY DEF LookOn, TypeOK
<1>2. CallsOK'
  BY DEF LookOn, TypeOK, CallsOK
<1>3. FixedTable'
  BY DEF LookOn, TypeOK, FixedTable
<1>4. TakenInOrder'
  BY DEF LookOn, TypeOK, TakenInOrder, Searching, CallsOK
<1>5. NotPassed'
  BY DEF LookOn, TypeOK, NotPassed, Searching, CallsOK
<1>6. StoredByOne'
  BY DEF LookOn, TypeOK, StoredByOne, Storing, CallsOK
<1>7. RegistersAgree'
  BY DEF LookOn, TypeOK, RegistersAgree, StoredByOne, Storing, CallsOK
<1>8. DescriptorsComplete'
  <2>1. \A i : Storing(i)' = Storing(i)
    BY DEF LookOn, TypeOK, Storing
  <2> QED
    BY <2>1 DEF LookOn, DescriptorsComplete
<1>9. AllLock'
  BY DEF LookOn, TypeOK, AllLock
<1>10. NoRaceUnderLock'
  BY DEF LookOn, TypeOK, NoRaceUnderLock
<1>11. OneSlotPerWindow'
  BY DEF LookOn, TypeOK, OneSlotPerWindow
<1> QED
  BY <1>1, <1>2, <1>3, <1>4, <1>5, <1>6, <1>7, <1>8, <1>9, <1>10, <1>11

(* A slot is chosen by one thread, or raced for.                           *)
LEMMA ChooseKeeps ==
  ASSUME WindowsInv, NEW t \in Thread, Choose(t)
  PROVE  WindowsInv'
<1> USE Constants DEF WindowsInv, Slot
<1>1. TypeOK'
  <2>1. \A u \in Thread : lock' = u <=> locks'[u] /\ pc'[u] \in {"search", "store", "registers"}
    BY WindowsAssumption DEF Choose, TypeOK, CallsOK
  <2>2. raced' \subseteq Slot
    <3>1. at[t] \in Slot /\ raced \subseteq Slot
      BY DEF Choose, TypeOK
    <3>2. raced' \in {raced, raced \cup {at[t]}}
      BY DEF Choose
    <3> QED
      BY <3>1, <3>2
  <2> QED
    BY <2>1, <2>2, WindowsAssumption DEF Choose, TypeOK
<1>2. CallsOK'
  BY DEF Choose, TypeOK, CallsOK
<1>3. FixedTable'
  BY DEF Choose, TypeOK, FixedTable
<1>4. TakenInOrder'
  BY DEF Choose, TypeOK, TakenInOrder, Searching, CallsOK
<1>5. NotPassed'
  BY DEF Choose, TypeOK, NotPassed, Searching, CallsOK
<1>6. StoredByOne'
  BY DEF Choose, TypeOK, StoredByOne, Storing, CallsOK
<1>7. RegistersAgree'
  BY DEF Choose, TypeOK, RegistersAgree, StoredByOne, Storing, CallsOK
<1>8. DescriptorsComplete'
  BY DEF Choose, TypeOK, DescriptorsComplete, Storing, StoredByOne, CallsOK
<1>9. AllLock'
  BY DEF Choose, TypeOK, AllLock
<1>10. NoRaceUnderLock'
  <2>1. ~pdUsed => Storing(at[t]) = {}
    <3>1. SUFFICES ASSUME ~pdUsed, NEW u \in Storing(at[t]) PROVE FALSE
      BY Zenon DEF Storing
    <3>2. u \in Thread /\ pc[u] \in {"store", "registers"} /\ pc[t] = "search"
      BY <3>1 DEF Storing, Choose
    <3>3. locks[u] /\ locks[t]
      BY <3>1, <3>2 DEF AllLock
    <3>4. lock = u /\ lock = t
      BY <3>2, <3>3 DEF TypeOK
    <3> QED
      BY <3>2, <3>4
  <2> QED
    BY <2>1 DEF NoRaceUnderLock, Choose
<1>11. OneSlotPerWindow'
  BY DEF Choose, TypeOK, OneSlotPerWindow
<1> QED
  BY <1>1, <1>2, <1>3, <1>4, <1>5, <1>6, <1>7, <1>8, <1>9, <1>10, <1>11

(* A call that finds no slot leaves the table alone.                       *)
LEMMA OutOfBasesKeeps ==
  ASSUME WindowsInv, NEW t \in Thread, OutOfBases(t)
  PROVE  WindowsInv'
<1> USE Constants DEF WindowsInv, Slot
<1>1. TypeOK'
  <2>1. \A u \in Thread : lock' = u <=> locks'[u] /\ pc'[u] \in {"search", "store", "registers"}
    BY WindowsAssumption DEF OutOfBases, TypeOK, CallsOK, Unlock
  <2> QED
    BY <2>1, WindowsAssumption DEF OutOfBases, TypeOK, Unlock
<1>2. CallsOK'
  BY DEF OutOfBases, TypeOK, CallsOK
<1>3. FixedTable'
  BY DEF OutOfBases, TypeOK, FixedTable
<1>4. TakenInOrder'
  BY DEF OutOfBases, TypeOK, TakenInOrder, Searching, CallsOK
<1>5. NotPassed'
  BY DEF OutOfBases, TypeOK, NotPassed, Searching, CallsOK
<1>6. StoredByOne'
  BY DEF OutOfBases, TypeOK, StoredByOne, Storing, CallsOK
<1>7. RegistersAgree'
  BY DEF OutOfBases, TypeOK, RegistersAgree, StoredByOne, Storing, CallsOK
<1>8. DescriptorsComplete'
  <2>1. \A i : Storing(i)' = Storing(i)
    BY DEF OutOfBases, TypeOK, Storing
  <2> QED
    BY <2>1 DEF OutOfBases, DescriptorsComplete
<1>9. AllLock'
  BY DEF OutOfBases, TypeOK, AllLock
<1>10. NoRaceUnderLock'
  BY DEF OutOfBases, TypeOK, NoRaceUnderLock
<1>11. OneSlotPerWindow'
  BY DEF OutOfBases, TypeOK, OneSlotPerWindow
<1> QED
  BY <1>1, <1>2, <1>3, <1>4, <1>5, <1>6, <1>7, <1>8, <1>9, <1>10, <1>11

(* The window is new to the table, as every slot before it was looked at   *)
(* and every slot behind it is free.                                       *)
LEMMA StoreBaseKeeps ==
  ASSUME WindowsInv, NEW t \in Thread, StoreBase(t)
  PROVE  WindowsInv'
<1> USE Constants DEF WindowsInv, Slot
<1>1. TypeOK'
  BY DEF StoreBase, TypeOK, CallsOK
<1>2. CallsOK'
  BY DEF StoreBase, TypeOK, CallsOK
<1>3. FixedTable'
  BY DEF StoreBase, TypeOK, FixedTable
<1>4. TakenInOrder'
  <2>1. at[t] \in Slot /\ want[t] \in Window /\ table' = [table EXCEPT ![at[t]] = want[t]]
    BY DEF StoreBase, CallsOK
  <2>2. \A i \in Slot : table[i] # Free => table'[i] # Free
    BY <2>1 DEF TypeOK
  <2>3. ~fixed => \A i \in Slot : i < at[t] => table[i] # Free
    BY DEF StoreBase, TakenInOrder, Searching
  <2> QED
    BY <2>1, <2>2, <2>3 DEF StoreBase, TypeOK, TakenInOrder, Searching
<1>5. NotPassed'
  <2>1. ~fixed
    BY DEF FixedTable, StoreBase
  <2>2. at[t] \notin raced => \A u \in Thread : Searching(u) => ~(at[t] < at[u])
    BY <2>1 DEF StoreBase, StoredByOne, TakenInOrder, CallsOK
  <2> QED
    BY <2>2 DEF StoreBase, TypeOK, NotPassed, Searching, CallsOK
<1>6. StoredByOne'
  BY DEF StoreBase, TypeOK, StoredByOne, Storing, CallsOK
<1>7. RegistersAgree'
  BY DEF StoreBase, TypeOK, RegistersAgree, StoredByOne, Storing, CallsOK
<1>8. DescriptorsComplete'
  BY DEF StoreBase, TypeOK, DescriptorsComplete, Storing, StoredByOne, CallsOK
<1>9. AllLock'
  BY DEF StoreBase, TypeOK, AllLock
<1>10. NoRaceUnderLock'
  BY DEF StoreBase, TypeOK, NoRaceUnderLock
<1>11. OneSlotPerWindow'
  <2>1. ~fixed /\ at[t] \in Slot /\ want[t] \in Window
    BY DEF FixedTable, StoreBase, CallsOK
  <2>2. ASSUME NEW j \in Slot, j # at[t], table[j] = want[t]
        PROVE  j \in raced \/ at[t] \in raced
    <3>1. CASE j < at[t]
      BY <2>2, <3>1 DEF NotPassed, Searching, StoreBase
    <3>2. CASE at[t] < j
      BY <2>1, <2>2, <3>2 DEF TakenInOrder, StoredByOne, StoreBase
    <3> QED
      BY <2>1, <2>2, <3>1, <3>2
  <2>3. /\ table'[at[t]] = want[t] /\ raced' = raced
        /\ \A i \in Slot : i # at[t] => table'[i] = table[i]
    BY <2>1 DEF StoreBase, TypeOK
  <2>4. ASSUME NEW i \in Slot, NEW j \in Slot, i # j, table'[i] = table'[j], table'[i] # Free
        PROVE  i \in raced \/ j \in raced
    <3>1. CASE i = at[t]
      BY <2>2, <2>3, <2>4, <3>1
    <3>2. CASE j = at[t]
      BY <2>2, <2>3, <2>4, <3>2
    <3>3. CASE i # at[t] /\ j # at[t]
      BY <2>3, <2>4, <3>3 DEF OneSlotPerWindow
    <3> QED
      BY <3>1, <3>2, <3>3
  <2> QED
    BY <2>3, <2>4 DEF OneSlotPerWindow
<1> QED
  BY <1>1, <1>2, <1>3, <1>4, <1>5, <1>6, <1>7, <1>8, <1>9, <1>10, <1>11

(* The registers of a slot are set while only this thread stores to it.    *)
LEMMA SetRegistersKeeps ==
  ASSUME WindowsInv, NEW t \in Thread, SetRegisters(t)
  PROVE  WindowsInv'
<1> USE Constants DEF WindowsInv, Slot
<1>1. TypeOK'
  <2>1. \A u \in Thread : lock' = u <=> locks'[u] /\ pc'[u] \in {"search", "store", "registers"}
    BY WindowsAssumption DEF SetRegisters, TypeOK, CallsOK, Unlock
  <2>2. [slot |-> at[t], window |-> want[t]] \in [slot : Slot, window : Window]
    BY DEF SetRegisters, TypeOK, CallsOK
  <2>3. desc' \in [Thread -> [slot : Slot, window : Window] \cup {NoDesc}]
    BY <2>2 DEF SetRegisters, TypeOK
  <2> QED
    BY <2>1, <2>3, WindowsAssumption DEF SetRegisters, TypeOK, Unlock
<1>2. CallsOK'
  BY DEF SetRegisters, TypeOK, CallsOK
<1>3. FixedTable'
  BY DEF SetRegisters, TypeOK, FixedTable
<1>4. TakenInOrder'
  BY DEF SetRegisters, TypeOK, TakenInOrder, Searching, CallsOK
<1>5. NotPassed'
  BY DEF SetRegisters, TypeOK, NotPassed, Searching, CallsOK
<1>6. StoredByOne'
  BY DEF SetRegisters, TypeOK, StoredByOne, Storing, CallsOK
<1>7. RegistersAgree'
  BY DEF SetRegisters, TypeOK, RegistersAgree, StoredByOne, Storing, CallsOK
<1>8. DescriptorsComplete'
  BY DEF SetRegisters, TypeOK, DescriptorsComplete, Storing, StoredByOne, CallsOK
<1>9. AllLock'
  BY DEF SetRegisters, TypeOK, AllLock
<1>10. NoRaceUnderLock'
  BY DEF SetRegisters, TypeOK, NoRaceUnderLock
<1>11. OneSlotPerWindow'
  BY DEF SetRegisters, TypeOK, OneSlotPerWindow
<1> QED
  BY <1>1, <1>2, <1>3, <1>4, <1>5, <1>6, <1>7, <1>8, <1>9, <1>10, <1>11

(* A call begins with nothing looked at. *)
LEMMA BeginStoreKeeps ==
  ASSUME WindowsInv, NEW t \in Thread, NEW w \in Window, NEW takesLock \in BOOLEAN,
         BeginStore(t, w, takesLock)
  PROVE  WindowsInv'
<1> USE Constants DEF WindowsInv, Slot
<1>1. TypeOK'
  <2>1. \A u \in Thread : lock' = u <=> locks'[u] /\ pc'[u] \in {"search", "store", "registers"}
    BY DEF BeginStore, TypeOK
  <2> QED
    BY <2>1 DEF BeginStore, TypeOK
<1>2. CallsOK' /\ FixedTable' /\ TakenInOrder' /\ NotPassed'
  BY DEF BeginStore, TypeOK, CallsOK, FixedTable, TakenInOrder, NotPassed, Searching
<1>3. \A i : Storing(i)' = Storing(i)
  BY DEF BeginStore, TypeOK, Storing
<1>4. StoredByOne' /\ RegistersAgree' /\ DescriptorsComplete'
  <2>1. /\ pc'[t] \notin {"store", "registers"} /\ desc'[t] = NoDesc
        /\ \A u \in Thread \ {t} : pc'[u] = pc[u] /\ want'[u] = want[u] /\ at'[u] = at[u] /\ desc'[u] = desc[u]
        /\ table' = table /\ regs' = regs /\ raced' = raced
    BY DEF BeginStore, TypeOK
  <2>2. StoredByOne'
    <3> SUFFICES ASSUME NEW u \in Thread, at'[u] \notin raced'
                 PROVE  /\ pc'[u] = "store" => table'[at'[u]] = Free
                        /\ pc'[u] = "registers" => table'[at'[u]] = want'[u]
                        /\ pc'[u] \in {"store", "registers"} => Storing(at[u])' = {u}
      BY DEF StoredByOne
    <3>1. CASE u = t
      BY <2>1, <3>1
    <3>2. CASE u # t
      <4>1. pc'[u] = pc[u] /\ want'[u] = want[u] /\ at'[u] = at[u]
        BY <2>1, <3>2
      <4>2. Storing(at[u])' = Storing(at[u])
        <5>1. Storing(at[u])' = Storing(at'[u])
          BY <1>3
        <5> QED
          BY <4>1, <5>1
      <4> QED
        BY <2>1, <4>1, <4>2 DEF StoredByOne
    <3> QED
      BY <3>1, <3>2
  <2>3. RegistersAgree'
    BY <1>3, <2>1 DEF RegistersAgree
  <2>4. DescriptorsComplete'
    BY <1>3, <2>1 DEF DescriptorsComplete
  <2> QED
    BY <2>2, <2>3, <2>4
<1>5. AllLock' /\ NoRaceUnderLock' /\ OneSlotPerWindow'
  BY DEF BeginStore, TypeOK, AllLock, NoRaceUnderLock, OneSlotPerWindow
<1> QED
  BY <1>1, <1>2, <1>4, <1>5

(* A window of the home region has the slot that its address names. *)
LEMMA HomeSlot ==
  ASSUME NEW w \in Window, InHomeRegion(w)
  PROVE  w % NumBases \in Slot /\ HomeBase(w % NumBases) = w
BY WindowsAssumption DEF Window, InHomeRegion, Region, Slot, HomeBase

LEMMA StoreFixedKeeps ==
  ASSUME WindowsInv, NEW t \in Thread, NEW w \in Window, StoreFixed(t, w)
  PROVE  WindowsInv'
<1> USE Constants DEF WindowsInv
<1>1. TypeOK'
  BY HomeSlot DEF StoreFixed, TypeOK
<1>2. \A i : Storing(i)' = Storing(i) /\ Storing(i) = {}
  BY DEF StoreFixed, Storing, FixedTable
<1>3. DescriptorsComplete'
  BY <1>2, HomeSlot DEF StoreFixed, TypeOK, DescriptorsComplete, FixedTable
<1>4. CallsOK' /\ FixedTable' /\ TakenInOrder' /\ NotPassed'
  BY DEF StoreFixed, CallsOK, FixedTable, TakenInOrder, NotPassed, Searching
<1>5. StoredByOne' /\ RegistersAgree' /\ AllLock' /\ NoRaceUnderLock' /\ OneSlotPerWindow'
  BY <1>2 DEF StoreFixed, StoredByOne, RegistersAgree, AllLock, NoRaceUnderLock, OneSlotPerWindow
<1> QED
  BY <1>1, <1>3, <1>4, <1>5

LEMMA WindowsInit == Init => WindowsInv
<1> SUFFICES ASSUME Init PROVE WindowsInv
  OBVIOUS
<1> USE Constants DEF Init
<1>1. TypeOK
  <2>1. table \in [Slot -> Window \cup {Free}]
    OBVIOUS
  <2>2. \A t \in Thread : lock # t
    BY WindowsAssumption
  <2>3. desc \in [Thread -> [slot : Slot, window : Window] \cup {NoDesc}]
    OBVIOUS
  <2>4. /\ pc \in [Thread -> {"idle", "wait", "search", "store", "registers"}]
        /\ locks \in [Thread -> BOOLEAN] /\ at \in [Thread -> 0 .. NumBases]
        /\ want \in [Thread -> Window \cup {Free}]
    OBVIOUS
  <2>5. \A t \in Thread : ~locks[t]
    OBVIOUS
  <2> QED
    BY <2>1, <2>2, <2>3, <2>4, <2>5 DEF TypeOK
<1>2. CallsOK /\ FixedTable /\ TakenInOrder /\ NotPassed
  BY DEF CallsOK, FixedTable, TakenInOrder, NotPassed, Searching
<1>3. StoredByOne /\ RegistersAgree /\ DescriptorsComplete /\ AllLock /\ NoRaceUnderLock
  BY DEF StoredByOne, RegistersAgree, DescriptorsComplete, AllLock, NoRaceUnderLock
<1>4. OneSlotPerWindow
  BY WindowsAssumption DEF OneSlotPerWindow, HomeBase, Slot, Region, Window
<1> QED
  BY <1>1, <1>2, <1>3, <1>4 DEF WindowsInv

LEMMA WindowsNext == WindowsInv /\ [Next]_vars => WindowsInv'
<1> SUFFICES ASSUME WindowsInv, [Next]_vars PROVE WindowsInv'
  OBVIOUS
<1>1. CASE UNCHANGED vars
  BY <1>1 DEF vars, WindowsInv, TypeOK, CallsOK, FixedTable, TakenInOrder, NotPassed, Searching,
     StoredByOne, Storing, RegistersAgree, DescriptorsComplete, AllLock, NoRaceUnderLock,
     OneSlotPerWindow
<1>2. ASSUME NEW t \in Thread, NEW w \in Window, StoreFixed(t, w) PROVE WindowsInv'
  BY <1>2, StoreFixedKeeps
<1>3. ASSUME NEW t \in Thread, NEW w \in Window, NEW takesLock \in BOOLEAN,
             BeginStore(t, w, takesLock)
      PROVE  WindowsInv'
  BY <1>3, BeginStoreKeeps
<1>4. ASSUME NEW t \in Thread,
             Lock(t) \/ Found(t) \/ LookOn(t) \/ Choose(t) \/ OutOfBases(t)
                \/ StoreBase(t) \/ SetRegisters(t)
      PROVE  WindowsInv'
  BY <1>4, LockKeeps, FoundKeeps, LookOnKeeps, ChooseKeeps, OutOfBasesKeeps, StoreBaseKeeps,
     SetRegistersKeeps
<1> QED
  BY <1>1, <1>2, <1>3, <1>4 DEF Next

LEMMA WindowsInvariant == Spec => []WindowsInv
BY WindowsInit, WindowsNext, PTL DEF Spec

(* The device reads every packet from the window it lies in, but for slots *)
(* raced for, whatever the threads of store_phys_addr_into_fd and _pd do.  *)
THEOREM PacketsAreRead == Spec => []PacketsReadFromTheirWindow
<1>1. WindowsInv => PacketsReadFromTheirWindow
  <2>1. SUFFICES ASSUME WindowsInv, NEW t \in Thread, desc[t] # NoDesc, desc[t].slot \notin raced
                 PROVE  regs[desc[t].slot] = desc[t].window
    BY DEF PacketsReadFromTheirWindow, WindowsInv
  <2>2. desc[t].slot \in Slot \ raced /\ desc[t].window \in Window
    BY <2>1 DEF WindowsInv, TypeOK
  <2> QED
    BY <2>1, <2>2, Constants DEF WindowsInv, DescriptorsComplete, RegistersAgree
<1> QED
  BY <1>1, WindowsInvariant, PTL

(* hw_packet_base_lock is enough as long as every call takes it.           *)
THEOREM LockSuffices == Spec => []NoRaceUnderLock
<1>1. WindowsInv => NoRaceUnderLock
  BY DEF WindowsInv
<1> QED
  BY <1>1, WindowsInvariant, PTL

(* A window takes one slot of packet_base, but for slots raced for.        *)
THEOREM WindowHasOneSlot == Spec => []OneSlotPerWindow
<1>1. WindowsInv => OneSlotPerWindow
  BY DEF WindowsInv
<1> QED
  BY <1>1, WindowsInvariant, PTL
=============================================================================
