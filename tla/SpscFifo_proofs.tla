--------------------------- MODULE SpscFifo_proofs ---------------------------
(* Proofs about the lockless FIFO, for every size and every counter width. *)
EXTENDS SpscFifo, TLAPS

(* Distinct multiples of a positive number differ by at least that number. *)
LEMMA MultipleGap ==
  ASSUME NEW n \in Nat \ {0}, NEW p \in Int, NEW q \in Int, p < q
  PROVE  n * p + n <= n * q
<1>1. PICK d \in Nat : q = p + 1 + d
  <2>1. q - p - 1 \in Nat
    OBVIOUS
  <2> QED
    BY <2>1
<1>2. n * q = n * p + n + n * d
  BY <1>1
<1>3. n * d >= 0
  OBVIOUS
<1> QED
  BY <1>2, <1>3

(* Division with remainder. *)
LEMMA DivMod ==
  ASSUME NEW n \in Nat \ {0}, NEW a \in Int
  PROVE  /\ a % n \in 0 .. n - 1
         /\ a \div n \in Int
         /\ a = n * (a \div n) + (a % n)
OBVIOUS

(* The remainder is the only number in range that leaves a multiple. *)
LEMMA ModUnique ==
  ASSUME NEW n \in Nat \ {0}, NEW a \in Int, NEW q \in Int, NEW r \in 0 .. n - 1,
         a = n * q + r
  PROVE  a % n = r
<1> DEFINE k == a \div n
<1>1. /\ a % n \in 0 .. n - 1
      /\ k \in Int
      /\ a = n * k + (a % n)
  BY DivMod
<1>2. ~ (k < q)
  <2>1. SUFFICES ASSUME k < q PROVE FALSE
    OBVIOUS
  <2>2. n * k + n <= n * q
    BY <1>1, <2>1, MultipleGap
  <2> QED
    BY <1>1, <2>2
<1>3. ~ (q < k)
  <2>1. SUFFICES ASSUME q < k PROVE FALSE
    OBVIOUS
  <2>2. n * q + n <= n * k
    BY <1>1, <2>1, MultipleGap
  <2> QED
    BY <1>1, <2>2
<1>4. k = q
  BY <1>1, <1>2, <1>3
<1> QED
  BY <1>1, <1>4

(* Numbers less than n apart have different remainders. *)
LEMMA ModDiffer ==
  ASSUME NEW n \in Nat \ {0}, NEW a \in Int, NEW b \in Int, 0 < a - b, a - b < n
  PROVE  a % n # b % n
<1> SUFFICES ASSUME a % n = b % n PROVE FALSE
  OBVIOUS
<1> DEFINE p == a \div n
           q == b \div n
<1>1. /\ p \in Int /\ q \in Int
      /\ a % n \in 0 .. n - 1
      /\ a = n * p + (a % n)
      /\ b = n * q + (b % n)
  BY DivMod
<1>2. n * p - n * q = a - b
  BY <1>1
<1>3. CASE q < p
  <2>1. n * q + n <= n * p
    BY <1>1, <1>3, MultipleGap
  <2> QED
    BY <1>1, <1>2, <2>1
<1>4. CASE p < q
  <2>1. n * p + n <= n * q
    BY <1>1, <1>4, MultipleGap
  <2> QED
    BY <1>1, <1>2, <2>1
<1>5. CASE p = q
  BY <1>1, <1>2, <1>5
<1> QED
  BY <1>1, <1>3, <1>4, <1>5

(* Adding a multiple does not change the remainder. *)
LEMMA ModShift ==
  ASSUME NEW n \in Nat \ {0}, NEW a \in Int, NEW k \in Int, k % n = 0
  PROVE  (a + k) % n = a % n
<1> DEFINE p == a \div n
           j == k \div n
<1>1. /\ p \in Int /\ j \in Int
      /\ a % n \in 0 .. n - 1
      /\ a = n * p + (a % n)
      /\ k = n * j
  BY DivMod
<1>2. /\ a + k = n * (p + j) + (a % n)
      /\ a + k \in Int
      /\ p + j \in Int
  BY <1>1
<1> HIDE DEF p, j
<1> QED
  BY <1>1, <1>2, ModUnique

-----------------------------------------------------------------------------
(* What the counters of a FIFO that holds at most Size elements do. *)
FifoOK(f) ==
    /\ f.in \in Counter
    /\ f.out \in Counter
    /\ Used(f) <= Size

(* The element that is i places behind the oldest one lies in the slot     *)
(* of the counter out + i, whether or not that counter has wrapped; the    *)
(* writer's slot is the one behind the youngest element.                   *)
LEMMA SlotOfCounter ==
  ASSUME NEW f, FifoOK(f)
  PROVE  /\ Used(f) \in 0 .. Size
         /\ InputSlot(f) = Slot(f.out + Used(f))
         /\ InputSlot(f) \in Slots
         /\ OutputSlot(f) \in Slots
         /\ Slot(Inc(f.out)) = Slot(f.out + 1)
<1>1. Used(f) \in 0 .. Size
  BY FifoAssumption DEF FifoOK, Used, Counter
<1>2. InputSlot(f) = Slot(f.out + Used(f))
  <2>1. CASE f.in >= f.out
    BY <2>1, FifoAssumption DEF InputSlot, FifoOK, Used, Counter
  <2>2. CASE f.in < f.out
    <3>1. f.out + Used(f) = f.in + Modulus
      BY <2>2, FifoAssumption DEF FifoOK, Used, Counter
    <3>2. (f.in + Modulus) % Size = f.in % Size
      <4>1. f.in \in Int /\ Modulus \in Int
        BY FifoAssumption DEF FifoOK, Counter
      <4> QED
        BY <4>1, FifoAssumption, ModShift
    <3> QED
      BY <3>1, <3>2 DEF InputSlot, Slot
  <2> QED
    BY <2>1, <2>2, FifoAssumption DEF FifoOK, Counter
<1>3. InputSlot(f) \in Slots /\ OutputSlot(f) \in Slots
  <2>1. f.in \in Int /\ f.out \in Int
    BY FifoAssumption DEF FifoOK, Counter
  <2>2. f.in % Size \in 0 .. Size - 1 /\ f.out % Size \in 0 .. Size - 1
    BY <2>1, FifoAssumption, DivMod
  <2> QED
    BY <2>2 DEF InputSlot, OutputSlot, Slot, Slots
<1>4. Slot(Inc(f.out)) = Slot(f.out + 1)
  <2>1. CASE f.out = Modulus - 1
    <3>1. (0 + Modulus) % Size = 0 % Size
      BY FifoAssumption, ModShift
    <3> QED
      BY <2>1, <3>1, FifoAssumption DEF Inc, Slot
  <2>2. CASE f.out # Modulus - 1
    BY <2>2 DEF Inc
  <2> QED
    BY <2>1, <2>2
<1> QED
  BY <1>1, <1>2, <1>3, <1>4

(* Two different places of the same FIFO buffer lie in different slots. *)
LEMMA SlotsDiffer ==
  ASSUME NEW f, FifoOK(f), NEW i \in Nat, NEW j \in Nat, i < j, j < Size
  PROVE  Slot(f.out + i) # Slot(f.out + j)
<1>1. (f.out + j) % Size # (f.out + i) % Size
  <2> DEFINE a == f.out + j
             b == f.out + i
  <2>1. a \in Int /\ b \in Int /\ 0 < a - b /\ a - b < Size
    BY FifoAssumption DEF FifoOK, Counter
  <2> QED
    BY <2>1, FifoAssumption, ModDiffer
<1> QED
  BY <1>1 DEF Slot

(* After a pop, place i is what place i + 1 was. *)
LEMMA ShiftedSlot ==
  ASSUME NEW f, FifoOK(f)
  PROVE  \A i \in Nat : Slot(Inc(f.out) + i) = Slot(f.out + (i + 1))
<1> SUFFICES ASSUME NEW i \in Nat
             PROVE  Slot(Inc(f.out) + i) = Slot(f.out + (i + 1))
  OBVIOUS
<1>1. f.out \in Int /\ Modulus \in Int
  BY FifoAssumption DEF FifoOK, Counter
<1>2. CASE f.out = Modulus - 1
  <2>1. (i + Modulus) % Size = i % Size
    <3>1. i \in Int
      OBVIOUS
    <3> QED
      BY <1>1, <3>1, FifoAssumption, ModShift
  <2>2. f.out + (i + 1) = i + Modulus /\ Inc(f.out) + i = i
    BY <1>1, <1>2 DEF Inc
  <2> QED
    BY <2>1, <2>2 DEF Slot
<1>3. CASE f.out # Modulus - 1
  <2>1. Inc(f.out) + i = f.out + (i + 1)
    BY <1>1, <1>3 DEF Inc
  <2> QED
    BY <2>1
<1> QED
  BY <1>2, <1>3

(* push_*_fifo adds one element to a FIFO that is not full. *)
LEMMA PushUsed ==
  ASSUME NEW f \in [in : Counter, out : Counter, buf : [Slots -> Val \cup {Torn}]],
         Used(f) < Size
  PROVE  /\ PushFifo(f) \in [in : Counter, out : Counter, buf : [Slots -> Val \cup {Torn}]]
         /\ Used(PushFifo(f)) = Used(f) + 1
BY FifoAssumption DEF PushFifo, Inc, Used, Counter

(* pop_*_fifo removes one element from a FIFO that is not empty. *)
LEMMA PopUsed ==
  ASSUME NEW f \in [in : Counter, out : Counter, buf : [Slots -> Val \cup {Torn}]],
         Used(f) > 0
  PROVE  /\ PopFifo(f) \in [in : Counter, out : Counter, buf : [Slots -> Val \cup {Torn}]]
         /\ Used(PopFifo(f)) = Used(f) - 1
BY FifoAssumption DEF PopFifo, Inc, Used, Counter

-----------------------------------------------------------------------------
(* The inductive invariant.  CountersAgree carries what each side learnt   *)
(* from its peek, DescriptorsWhole what the slots hold.                    *)
Inv == TypeOK /\ CountersAgree /\ DescriptorsWhole

(* The invariant holds of an empty FIFO. *)
LEMMA InvInit == Init => Inv
<1> SUFFICES ASSUME Init PROVE Inv
  OBVIOUS
<1>1. PICK v \in Val : fifo = [in |-> 0, out |-> 0, buf |-> [s \in Slots |-> v]]
  BY DEF Init, FifoInit
<1>2. Used(fifo) = 0
  BY <1>1 DEF Used
<1>3. TypeOK
  BY <1>1, FifoAssumption DEF Init, TypeOK, Counter
<1>4. CountersAgree
  BY <1>2, FifoAssumption DEF Init, CountersAgree
<1>5. DescriptorsWhole
  BY <1>2 DEF Init, DescriptorsWhole
<1> QED
  BY <1>3, <1>4, <1>5 DEF Inv

(* A store by the writer leaves every readable slot alone. *)
LEMMA StoreFacts ==
  ASSUME Inv, Used(fifo) < Size, NEW v \in Val \cup {Torn}
  PROVE  /\ Store(fifo, v) \in [in : Counter, out : Counter, buf : [Slots -> Val \cup {Torn}]]
         /\ Store(fifo, v).in = fifo.in
         /\ Store(fifo, v).out = fifo.out
         /\ Used(Store(fifo, v)) = Used(fifo)
         /\ Store(fifo, v).buf[InputSlot(fifo)] = v
         /\ \A i \in 0 .. Used(fifo) - 1 :
               Store(fifo, v).buf[Slot(fifo.out + i)] = fifo.buf[Slot(fifo.out + i)]
<1> DEFINE F == [in : Counter, out : Counter, buf : [Slots -> Val \cup {Torn}]]
<1>1. fifo \in F /\ FifoOK(fifo)
  BY DEF Inv, TypeOK, CountersAgree, FifoOK
<1>2. /\ Used(fifo) \in 0 .. Size
      /\ InputSlot(fifo) = Slot(fifo.out + Used(fifo))
      /\ InputSlot(fifo) \in Slots
  BY <1>1, SlotOfCounter
<1>3. /\ Store(fifo, v) \in F
      /\ Store(fifo, v).in = fifo.in
      /\ Store(fifo, v).out = fifo.out
      /\ Store(fifo, v).buf = [fifo.buf EXCEPT ![InputSlot(fifo)] = v]
  BY <1>1, <1>2 DEF Store
<1>4. Used(Store(fifo, v)) = Used(fifo)
  BY <1>3 DEF Used
<1>5. ASSUME NEW i \in 0 .. Used(fifo) - 1
      PROVE  Store(fifo, v).buf[Slot(fifo.out + i)] = fifo.buf[Slot(fifo.out + i)]
  <2>1. i \in Nat /\ Used(fifo) \in Nat /\ i < Used(fifo)
    BY <1>2
  <2>2. Slot(fifo.out + i) # InputSlot(fifo)
    BY <1>1, <1>2, <2>1, SlotsDiffer
  <2>3. fifo.out + i \in Int
    BY <1>1, <2>1, FifoAssumption DEF Counter
  <2>4. Slot(fifo.out + i) \in Slots
    BY <2>3, FifoAssumption, DivMod DEF Slot, Slots
  <2> QED
    BY <1>1, <1>3, <2>2, <2>4
<1>6. Store(fifo, v).buf[InputSlot(fifo)] = v
  BY <1>1, <1>2, <1>3
<1> QED
  BY <1>3, <1>4, <1>5, <1>6

(* Every step of the writer or the reader keeps the invariant. *)
LEMMA InvStep == Inv /\ [Next]_vars => Inv'
<1> SUFFICES ASSUME Inv, [Next]_vars PROVE Inv'
  OBVIOUS
<1> DEFINE F == [in : Counter, out : Counter, buf : [Slots -> Val \cup {Torn}]]
<1>1. fifo \in F /\ FifoOK(fifo)
  BY DEF Inv, TypeOK, CountersAgree, FifoOK
<1>2. /\ Used(fifo) \in 0 .. Size
      /\ InputSlot(fifo) = Slot(fifo.out + Used(fifo))
      /\ InputSlot(fifo) \in Slots
      /\ OutputSlot(fifo) \in Slots
      /\ Slot(Inc(fifo.out)) = Slot(fifo.out + 1)
  BY <1>1, SlotOfCounter
<1>3. OutputSlot(fifo) = Slot(fifo.out + 0)
  BY <1>1, FifoAssumption DEF OutputSlot, Counter
<1>4. CASE PeekInput
  BY <1>2, <1>4, FifoAssumption DEF PeekInput, Inv, TypeOK, CountersAgree, DescriptorsWhole,
                    FifoFull, FifoFree
<1>5. CASE BeginFill
  <2>1. Used(fifo) < Size
    BY <1>5 DEF BeginFill, Inv, CountersAgree
  <2>2. fifo' = Store(fifo, Torn)
    BY <1>5 DEF BeginFill
  <2>3. TypeOK'
    BY <1>5, <2>1, <2>2, StoreFacts DEF BeginFill, Inv, TypeOK
  <2>4. Used(fifo)' = Used(fifo) /\ OutputSlot(fifo)' = OutputSlot(fifo)
    BY <2>1, <2>2, StoreFacts DEF OutputSlot
  <2>5. CountersAgree'
    BY <1>5, <2>4 DEF BeginFill, Inv, CountersAgree
  <2>6. \A i \in 0 .. Used(fifo) - 1 :
           fifo'.buf[Slot(fifo'.out + i)] = fifo.buf[Slot(fifo.out + i)]
    BY <2>1, <2>2, StoreFacts
  <2>7. rpc = "copied" => fifo'.buf[OutputSlot(fifo)] = fifo.buf[OutputSlot(fifo)]
    BY <1>2, <1>3, <2>1, <2>2, <2>6, StoreFacts DEF Inv, CountersAgree
  <2>8. DescriptorsWhole'
    BY <1>5, <2>4, <2>6, <2>7 DEF BeginFill, Inv, DescriptorsWhole
  <2> QED
    BY <2>3, <2>5, <2>8 DEF Inv
<1>6. CASE EndFill
  <2>1. Used(fifo) < Size
    BY <1>6 DEF EndFill, Inv, CountersAgree
  <2>2. PICK v \in Val : fifo' = Store(fifo, v)
    BY <1>6 DEF EndFill
  <2>3. TypeOK'
    BY <1>6, <2>1, <2>2, StoreFacts DEF EndFill, Inv, TypeOK
  <2>4. /\ Used(fifo)' = Used(fifo)
        /\ OutputSlot(fifo)' = OutputSlot(fifo)
        /\ InputSlot(fifo)' = InputSlot(fifo)
    BY <2>1, <2>2, StoreFacts DEF OutputSlot, InputSlot
  <2>5. CountersAgree'
    BY <1>6, <2>4 DEF EndFill, Inv, CountersAgree
  <2>6. \A i \in 0 .. Used(fifo) - 1 :
           fifo'.buf[Slot(fifo'.out + i)] = fifo.buf[Slot(fifo.out + i)]
    BY <2>1, <2>2, StoreFacts
  <2>7. rpc = "copied" => fifo'.buf[OutputSlot(fifo)] = fifo.buf[OutputSlot(fifo)]
    BY <1>2, <1>3, <2>1, <2>2, <2>6, StoreFacts DEF Inv, CountersAgree
  <2>8. fifo'.buf[InputSlot(fifo)] \in Val
    BY <2>1, <2>2, StoreFacts
  <2>9. DescriptorsWhole'
    BY <1>6, <2>4, <2>6, <2>7, <2>8 DEF EndFill, Inv, DescriptorsWhole
  <2> QED
    BY <2>3, <2>5, <2>9 DEF Inv
<1>7. CASE Push
  <2>1. Used(fifo) < Size
    BY <1>7 DEF Push, Inv, CountersAgree
  <2>2. fifo' = PushFifo(fifo) /\ fifo'.out = fifo.out /\ fifo'.buf = fifo.buf
    BY <1>1, <1>7 DEF Push, PushFifo
  <2>3. fifo' \in F /\ Used(fifo)' = Used(fifo) + 1
    BY <1>1, <2>1, <2>2, PushUsed
  <2>4. TypeOK'
    BY <1>7, <2>3 DEF Push, Inv, TypeOK
  <2>5. CountersAgree'
    BY <1>2, <1>7, <2>1, <2>3, FifoAssumption DEF Push, Inv, CountersAgree
  <2>6. \A i \in 0 .. Used(fifo)' - 1 : fifo'.buf[Slot(fifo'.out + i)] \in Val
    <3> SUFFICES ASSUME NEW i \in 0 .. Used(fifo)' - 1
                 PROVE  fifo.buf[Slot(fifo.out + i)] \in Val
      BY <2>2
    <3>1. i = Used(fifo) \/ i \in 0 .. Used(fifo) - 1
      BY <1>2, <2>3
    <3> QED
      BY <1>2, <1>7, <3>1 DEF Push, Inv, DescriptorsWhole
  <2>7. DescriptorsWhole'
    BY <1>7, <2>2, <2>6 DEF Push, Inv, DescriptorsWhole, OutputSlot
  <2> QED
    BY <2>4, <2>5, <2>7 DEF Inv
<1>8. CASE PeekOutput
  <2>1. Used(fifo) > 0
    BY <1>1, <1>2, <1>8, FifoAssumption DEF PeekOutput, FifoEmpty, Used, Counter
  <2> QED
    BY <1>8, <2>1 DEF PeekOutput, Inv, TypeOK, CountersAgree, DescriptorsWhole
<1>9. CASE Copy
  <2>1. fifo.buf[OutputSlot(fifo)] \in Val \cup {Torn}
    BY <1>1, <1>2
  <2> QED
    BY <1>9, <2>1 DEF Copy, Inv, TypeOK, CountersAgree, DescriptorsWhole
<1>10. CASE Pop
  <2>1. Used(fifo) > 0
    BY <1>10 DEF Pop, Inv, CountersAgree
  <2>2. /\ fifo' = PopFifo(fifo)
        /\ fifo'.in = fifo.in
        /\ fifo'.out = Inc(fifo.out)
        /\ fifo'.buf = fifo.buf
    BY <1>1, <1>10 DEF Pop, PopFifo
  <2>3. fifo' \in F /\ Used(fifo)' = Used(fifo) - 1
    BY <1>1, <2>1, <2>2, PopUsed
  <2>4. TypeOK'
    BY <1>10, <2>3 DEF Pop, Inv, TypeOK
  <2>5. CountersAgree'
    BY <1>2, <1>10, <2>3, FifoAssumption DEF Pop, Inv, CountersAgree
  <2>6. \A i \in Nat : Slot(fifo'.out + i) = Slot(fifo.out + (i + 1))
    BY <1>1, <2>2, ShiftedSlot
  <2>7. \A i \in 0 .. Used(fifo)' - 1 : fifo'.buf[Slot(fifo'.out + i)] \in Val
    <3> SUFFICES ASSUME NEW i \in 0 .. Used(fifo)' - 1
                 PROVE  fifo'.buf[Slot(fifo'.out + i)] \in Val
      OBVIOUS
    <3>1. i \in Nat /\ i + 1 \in 0 .. Used(fifo) - 1
      BY <1>2, <2>3
    <3> QED
      BY <2>2, <2>6, <3>1 DEF Inv, DescriptorsWhole
  <2>8. DescriptorsWhole'
    BY <1>10, <2>2, <2>7 DEF Pop, Inv, DescriptorsWhole, InputSlot
  <2> QED
    BY <2>4, <2>5, <2>8 DEF Inv
<1>11. CASE UNCHANGED vars
  BY <1>11 DEF vars, Inv, TypeOK, CountersAgree, DescriptorsWhole
<1> QED
  BY <1>4, <1>5, <1>6, <1>7, <1>8, <1>9, <1>10, <1>11 DEF Next, Writer, Reader

(* The invariant holds for ever. *)
LEMMA InvAlways == Spec => []Inv
BY InvInit, InvStep, PTL DEF Spec

(* The counters of the FIFO stay within their width and its slots hold     *)
(* nothing but descriptors.                                                *)
THEOREM TypeCorrect == Spec => []TypeOK
<1>1. Inv => TypeOK
  BY DEF Inv
<1> QED
  BY <1>1, InvAlways, PTL

(* For every size and counter width: what either side concluded from its   *)
(* peek is still true when it moves its counter, although the other side   *)
(* ran in between and no lock is held.                                     *)
THEOREM CountersNeverCross == Spec => []CountersAgree
<1>1. Inv => CountersAgree
  BY DEF Inv
<1> QED
  BY <1>1, InvAlways, PTL

(* For every size and counter width: the writer and the reader never have  *)
(* the same slot in hand.                                                  *)
THEOREM NoSharedSlot == Spec => []SlotsDisjoint
<1>1. Inv => SlotsDisjoint
  <2> SUFFICES ASSUME Inv, wpc # "idle", rpc # "idle"
               PROVE  InputSlot(fifo) # OutputSlot(fifo)
    BY DEF SlotsDisjoint
  <2>1. fifo.out \in Int /\ FifoOK(fifo)
    BY FifoAssumption DEF Inv, TypeOK, CountersAgree, FifoOK, Counter
  <2>2. Used(fifo) \in Nat /\ 0 < Used(fifo) /\ Used(fifo) < Size
    BY <2>1, SlotOfCounter, FifoAssumption DEF Inv, CountersAgree
  <2>3. Slot(fifo.out + 0) # Slot(fifo.out + Used(fifo))
    BY <2>1, <2>2, SlotsDiffer
  <2>4. fifo.out + 0 = fifo.out
    BY <2>1
  <2> QED
    BY <2>1, <2>3, <2>4, SlotOfCounter DEF OutputSlot
<1> QED
  BY <1>1, InvAlways, PTL

(* For every size and counter width: a descriptor the reader can see was   *)
(* written completely, and what it has copied is what the slot holds.      *)
THEOREM NothingTorn == Spec => []DescriptorsWhole
<1>1. Inv => DescriptorsWhole
  BY DEF Inv
<1> QED
  BY <1>1, InvAlways, PTL

-----------------------------------------------------------------------------
(* Contents is the sequence of the elements in the FIFO. *)
LEMMA ContentsSeq ==
  ASSUME Inv
  PROVE  /\ Contents \in Seq(Val)
         /\ Len(Contents) = Used(fifo)
         /\ Used(fifo) \in 0 .. Size
         /\ \A i \in 1 .. Used(fifo) : Contents[i] = fifo.buf[Slot(fifo.out + i - 1)]
<1>1. FifoOK(fifo) /\ fifo.out \in Int
  BY FifoAssumption DEF Inv, TypeOK, CountersAgree, FifoOK, Counter
<1>2. Used(fifo) \in 0 .. Size
  BY <1>1, SlotOfCounter
<1>3. \A i \in 1 .. Used(fifo) : fifo.buf[Slot(fifo.out + i - 1)] \in Val
  <2> SUFFICES ASSUME NEW i \in 1 .. Used(fifo)
               PROVE  fifo.buf[Slot(fifo.out + i - 1)] \in Val
    OBVIOUS
  <2>1. i - 1 \in 0 .. Used(fifo) - 1 /\ fifo.out + i - 1 = fifo.out + (i - 1)
    BY <1>1, <1>2
  <2> QED
    BY <2>1 DEF Inv, DescriptorsWhole
<1> QED
  BY <1>2, <1>3, FifoAssumption DEF Contents

(* An empty FIFO is an empty queue. *)
LEMMA RefineInit == Init => Queue!Init
<1> SUFFICES ASSUME Init PROVE Contents = <<>> /\ taken = <<>>
  BY DEF Queue!Init
<1>1. Used(fifo) = 0
  BY DEF Init, FifoInit, Used
<1>2. Inv
  BY InvInit
<1>3. Contents \in Seq(Val) /\ Len(Contents) = 0
  BY <1>1, <1>2, ContentsSeq
<1> QED
  BY <1>3 DEF Init

(* Two sequences of the same length with the same elements are equal. *)
LEMMA SeqEqual ==
  ASSUME NEW S, NEW s \in Seq(S), NEW t \in Seq(S), Len(s) = Len(t),
         \A i \in 1 .. Len(s) : s[i] = t[i]
  PROVE  s = t
OBVIOUS

(* push_*_fifo adds to the end of the queue, pop_*_fifo takes the value   *)
(* at its head, and every other step leaves the queue alone.               *)
LEMMA RefineStep == Inv /\ Inv' /\ [Next]_vars => [Queue!Next]_<<Contents, taken>>
<1> SUFFICES ASSUME Inv, Inv', [Next]_vars
             PROVE  Queue!Next \/ UNCHANGED <<Contents, taken>>
  OBVIOUS
<1>1. /\ Contents \in Seq(Val)
      /\ Len(Contents) = Used(fifo)
      /\ Used(fifo) \in 0 .. Size
      /\ \A i \in 1 .. Used(fifo) : Contents[i] = fifo.buf[Slot(fifo.out + i - 1)]
  BY ContentsSeq
<1>2. /\ Contents' \in Seq(Val)
      /\ Len(Contents') = Used(fifo')
      /\ \A i \in 1 .. Used(fifo') : Contents'[i] = fifo'.buf[Slot(fifo'.out + i - 1)]
  <2>1. (/\ Contents \in Seq(Val)
         /\ Len(Contents) = Used(fifo)
         /\ \A i \in 1 .. Used(fifo) : Contents[i] = fifo.buf[Slot(fifo.out + i - 1)])'
    BY ContentsSeq, PTL
  <2> QED
    BY <2>1
<1>3. /\ FifoOK(fifo) /\ fifo.out \in Int
      /\ fifo \in [in : Counter, out : Counter, buf : [Slots -> Val \cup {Torn}]]
  BY FifoAssumption DEF Inv, TypeOK, CountersAgree, FifoOK, Counter
<1>4. ASSUME NEW v \in Val \cup {Torn}, fifo' = Store(fifo, v), taken' = taken,
             Used(fifo) < Size
      PROVE  UNCHANGED <<Contents, taken>>
  <2>1. /\ Used(fifo') = Used(fifo)
        /\ fifo'.out = fifo.out
        /\ \A i \in 0 .. Used(fifo) - 1 :
              fifo'.buf[Slot(fifo.out + i)] = fifo.buf[Slot(fifo.out + i)]
    BY <1>4, StoreFacts
  <2>2. \A i \in 1 .. Used(fifo) : Contents'[i] = Contents[i]
    <3> SUFFICES ASSUME NEW i \in 1 .. Used(fifo) PROVE Contents'[i] = Contents[i]
      OBVIOUS
    <3>1. i - 1 \in 0 .. Used(fifo) - 1 /\ fifo.out + i - 1 = fifo.out + (i - 1)
      BY <1>1, <1>3
    <3> QED
      BY <1>1, <1>2, <2>1, <3>1
  <2>3. Contents' = Contents
    BY <1>1, <1>2, <2>1, <2>2, SeqEqual
  <2> QED
    BY <1>4, <2>3
<1>5. CASE PeekInput \/ PeekOutput \/ Copy \/ UNCHANGED vars
  BY <1>5 DEF PeekInput, PeekOutput, Copy, vars, Contents
<1>6. CASE BeginFill
  BY <1>4, <1>6 DEF BeginFill, Inv, CountersAgree
<1>7. CASE EndFill
  BY <1>4, <1>7 DEF EndFill, Inv, CountersAgree
<1>8. CASE Push
  <2> DEFINE v == fifo.buf[InputSlot(fifo)]
  <2>1. v \in Val /\ Used(fifo) < Size
    BY <1>8 DEF Push, Inv, DescriptorsWhole, CountersAgree
  <2>2. /\ fifo'.out = fifo.out /\ fifo'.buf = fifo.buf
        /\ Used(fifo') = Used(fifo) + 1
    BY <1>3, <1>8, <2>1, PushUsed DEF Push, PushFifo
  <2>3. InputSlot(fifo) = Slot(fifo.out + Used(fifo))
    BY <1>3, SlotOfCounter
  <2>4. \A i \in 1 .. Used(fifo') : Contents'[i] = Append(Contents, v)[i]
    <3> SUFFICES ASSUME NEW i \in 1 .. Used(fifo')
                 PROVE  Contents'[i] = Append(Contents, v)[i]
      OBVIOUS
    <3>1. CASE i = Used(fifo) + 1
      <4>1. fifo.out + i - 1 = fifo.out + Used(fifo)
        BY <1>1, <1>3, <3>1
      <4> QED
        BY <1>1, <1>2, <2>1, <2>2, <2>3, <3>1, <4>1
    <3>2. CASE i \in 1 .. Used(fifo)
      BY <1>1, <1>2, <2>1, <2>2, <3>2
    <3> QED
      BY <1>1, <2>2, <3>1, <3>2
  <2>5. Append(Contents, v) \in Seq(Val) /\ Len(Append(Contents, v)) = Used(fifo')
    BY <1>1, <2>1, <2>2
  <2>6. Contents' = Append(Contents, v)
    BY <1>2, <2>4, <2>5, SeqEqual
  <2>7. Queue!Put(v)
    BY <1>1, <1>8, <2>1, <2>6 DEF Queue!Put, Push
  <2> QED
    BY <2>1, <2>7 DEF Queue!Next
<1>9. CASE Pop
  <2>1. Used(fifo) > 0
    BY <1>9 DEF Pop, Inv, CountersAgree
  <2>2. /\ fifo'.out = Inc(fifo.out) /\ fifo'.buf = fifo.buf
        /\ Used(fifo') = Used(fifo) - 1
    BY <1>3, <1>9, <2>1, PopUsed DEF Pop, PopFifo
  <2>3. Contents # <<>> /\ Tail(Contents) \in Seq(Val) /\ Len(Tail(Contents)) = Used(fifo')
    BY <1>1, <2>1, <2>2
  <2>4. \A i \in 1 .. Used(fifo') : Contents'[i] = Tail(Contents)[i]
    <3> SUFFICES ASSUME NEW i \in 1 .. Used(fifo')
                 PROVE  Contents'[i] = Tail(Contents)[i]
      OBVIOUS
    <3>1. /\ i - 1 \in Nat
          /\ i + 1 \in 1 .. Used(fifo)
          /\ fifo.out + ((i - 1) + 1) = fifo.out + (i + 1) - 1
      BY <1>1, <1>3, <2>2
    <3>2. Slot(fifo'.out + (i - 1)) = Slot(fifo.out + (i + 1) - 1)
      BY <1>3, <2>2, <3>1, ShiftedSlot
    <3>3. fifo'.out + (i - 1) = fifo'.out + i - 1
      BY <1>3, <2>2, FifoAssumption DEF Inc
    <3>4. Tail(Contents)[i] = Contents[i + 1]
      BY <1>1, <2>2, <2>3
    <3> QED
      BY <1>1, <1>2, <2>2, <3>1, <3>2, <3>3, <3>4
  <2>5. Contents' = Tail(Contents)
    BY <1>2, <2>3, <2>4, SeqEqual
  <2>6. Head(Contents) = fifo.buf[OutputSlot(fifo)]
    <3>1. Contents[1] = fifo.buf[Slot(fifo.out + 1 - 1)] /\ fifo.out + 1 - 1 = fifo.out
      BY <1>1, <1>3, <2>1
    <3> QED
      BY <1>1, <2>3, <3>1 DEF OutputSlot
  <2>7. taken' = <<Head(Contents)>>
    BY <1>9, <2>6 DEF Pop, Inv, DescriptorsWhole
  <2> QED
    BY <2>3, <2>5, <2>7 DEF Queue!Next, Queue!Take
<1> QED
  BY <1>5, <1>6, <1>7, <1>8, <1>9 DEF Next, Writer, Reader

(* For every size and counter width, the lockless FIFO is a bounded queue: *)
(* nothing pushed is lost, duplicated, reordered or half written when it   *)
(* is popped.                                                              *)
THEOREM FifoIsBoundedQueue == Spec => IsBoundedQueue
<1>1. Inv /\ Inv' /\ [Next]_vars => [Queue!Next]_<<Contents, taken>>
  BY RefineStep
<1> QED
  BY <1>1, RefineInit, InvAlways, PTL DEF Spec, IsBoundedQueue, Queue!Spec
=============================================================================
