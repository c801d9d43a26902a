------------------------ MODULE RingTransfers_proofs ------------------------
(***************************************************************************)
(* Proofs about the three ways of descriptors over a ring: ManagedOutput,  *)
(* DirectOutput (lemmas named D...) and ManagedInput (I...), for any set   *)
(* of threads and any size of the rings and of the software FIFOs.  What   *)
(* their orders have in common, sets of places that carry the numbers 1,   *)
(* 2, ... in their order, comes first.                                     *)
(***************************************************************************)
EXTENDS ManagedOutput, DirectOutput, ManagedInput, FiniteSetTheorems, TLAPS

(* The place of slot i behind the read pointer. *)
Offset(i) == (i - rd) % RingSize

(* The manager has copied every RD it has passed, except those of threads  *)
(* it has marked, and remembers if there was one.                          *)
PassOK ==
    pass.running =>
        /\ Offset(pass.at) <= Offset(pass.end) /\ Offset(pass.end) <= Occupied
        /\ \A k \in 0 .. Offset(pass.at) - 1 : ring[Slot(k)] # Processed =>
              pass.blocked /\ ring[Slot(k)].thread \in skip

OutputInv == DeliveredInOrderOnce /\ PassOK

-----------------------------------------------------------------------------
(* Remainders of numbers that are less than the modulus away from it. *)
LEMMA ModBelow ==
  ASSUME NEW m \in Nat \ {0}, NEW x \in Int
  PROVE  /\ 0 <= x /\ x < m => x % m = x
         /\ -m <= x /\ x < 0 => x % m = x + m
         /\ m <= x /\ x < m + m => x % m = x - m
<1>1. /\ x % m \in 0 .. m - 1 /\ x \div m \in Int
      /\ x = m * (x \div m) + (x % m)
  OBVIOUS
<1> DEFINE q == x \div m
           r == x % m
<1>2. /\ q >= 2 => m * q >= m + m
      /\ q = 1 => m * q = m
      /\ q = 0 => m * q = 0
      /\ q = -1 => m * q = -m
      /\ q <= -2 => m * q <= -m - m
  <2>1. q >= 2 => m * q >= m + m
    <3>1. ASSUME q >= 2 PROVE m * q >= m + m
      <4>1. PICK d \in Nat : q = 2 + d
        <5>1. q - 2 \in Nat
          BY <1>1, <3>1
        <5> QED
          BY <5>1
      <4> HIDE DEF q
      <4>2. m * q = m + m + m * d /\ m * d >= 0
        BY <4>1
      <4> QED
        BY <4>2
    <3> QED
      BY <3>1
  <2>2. q <= -2 => m * q <= -m - m
    <3>1. ASSUME q <= -2 PROVE m * q <= -m - m
      <4>1. PICK d \in Nat : q = -2 - d
        <5>1. -2 - q \in Nat
          BY <1>1, <3>1
        <5> QED
          BY <5>1
      <4> HIDE DEF q
      <4>2. m * q = -m - m - m * d /\ m * d >= 0
        BY <4>1
      <4> QED
        BY <4>2
    <3> QED
      BY <3>1
  <2> QED
    BY <2>1, <2>2
<1>3. q \in Int /\ r \in Int /\ 0 <= r /\ r < m /\ m * q \in Int /\ x = m * q + r
  BY <1>1
<1> HIDE DEF q, r
<1> DEFINE p == m * q
<1>4. /\ q >= 2 => p >= m + m
      /\ q = 1 => p = m
      /\ q = 0 => p = 0
      /\ q = -1 => p = -m
      /\ q <= -2 => p <= -m - m
      /\ p \in Int /\ x = p + r
  BY <1>2, <1>3
<1> HIDE DEF p
<1>5. /\ 0 <= x /\ x < m => r = x
      /\ -m <= x /\ x < 0 => r = x + m
      /\ m <= x /\ x < m + m => r = x - m
  BY <1>3, <1>4
<1> QED
  BY <1>5 DEF r

(* The way from one counter to another, and the counter that is a number   *)
(* of steps further.                                                       *)
LEMMA Distance ==
  ASSUME NEW m \in Nat \ {0}, NEW x \in 0 .. m - 1, NEW y \in 0 .. m - 1
  PROVE  (y - x) % m = IF y >= x THEN y - x ELSE y - x + m
<1>1. /\ m \in Nat /\ m > 0 /\ x \in Int /\ y \in Int /\ y - x \in Int
      /\ 0 <= x /\ x < m /\ 0 <= y /\ y < m
  OBVIOUS
<1>2. CASE y >= x
  BY <1>1, <1>2, ModBelow
<1>3. CASE ~(y >= x)
  <2>1. -m <= y - x /\ y - x < 0
    BY <1>1, <1>3
  <2> QED
    BY <1>1, <1>3, <2>1, ModBelow
<1> QED
  BY <1>2, <1>3

LEMMA Further ==
  ASSUME NEW m \in Nat \ {0}, NEW x \in 0 .. m - 1, NEW k \in 0 .. m
  PROVE  (x + k) % m = IF x + k < m THEN x + k ELSE x + k - m
<1>1. /\ m \in Nat /\ m > 0 /\ x + k \in Int /\ 0 <= x + k /\ x + k < m + m
  OBVIOUS
<1> QED
  BY <1>1, ModBelow

(* Numbers modulo m, counted from the last one taken, g: the next number   *)
(* is one further, if there is room for it; and when number 1 is taken all *)
(* others come one nearer.                                                 *)
LEMMA NextAway ==
  ASSUME NEW m \in Nat \ {0}, m > 1, NEW g \in 0 .. m - 1, NEW n \in 0 .. m - 1,
         (n - g) % m < m - 1
  PROVE  (n + 1) % m \in 0 .. m - 1 /\ (((n + 1) % m) - g) % m = ((n - g) % m) + 1
<1> DEFINE y == (n + 1) % m
<1>1. 1 \in 0 .. m
  OBVIOUS
<1>2. y = IF n + 1 < m THEN n + 1 ELSE n + 1 - m
  BY <1>1, Further
<1>3. y \in 0 .. m - 1
  <2> HIDE DEF y
  <2> QED
    BY <1>2
<1> DEFINE p == (n - g) % m
           q == (y - g) % m
<1> HIDE DEF y
<1>4. /\ p = IF n >= g THEN n - g ELSE n - g + m
      /\ q = IF y >= g THEN y - g ELSE y - g + m
  BY <1>3, Distance
<1>5. p < m - 1
  OBVIOUS
<1> HIDE DEF p, q
<1>6. q = p + 1
  BY <1>2, <1>3, <1>4, <1>5
<1> QED
  BY <1>3, <1>6 DEF y, p, q

LEMMA TakeAway ==
  ASSUME NEW m \in Nat \ {0}, m > 1, NEW g \in 0 .. m - 1, NEW h \in 0 .. m - 1,
         (h - g) % m = 1
  PROVE  \A n \in 0 .. m - 1 : (n - g) % m > 0 => (n - h) % m = ((n - g) % m) - 1
<1>1. 1 = IF h >= g THEN h - g ELSE h - g + m
  BY Distance
<1>2. ASSUME NEW n \in 0 .. m - 1, (n - g) % m > 0
      PROVE  (n - h) % m = ((n - g) % m) - 1
  <2>1. (n - g) % m = IF n >= g THEN n - g ELSE n - g + m
    BY Distance
  <2>2. (n - h) % m = IF n >= h THEN n - h ELSE n - h + m
    BY Distance
  <2> QED
    BY <1>1, <1>2, <2>1, <2>2
<1> QED
  BY <1>2

-----------------------------------------------------------------------------
(* The places S carry, in their order, the numbers 1 to u. *)
Numbered(S, number, u) ==
    /\ \A k \in S : number[k] \in 1 .. u
    /\ \A k, l \in S : k < l => number[k] < number[l]
    /\ \A n \in 1 .. u : \E k \in S : number[k] = n

(* All places move by a distance. *)
LEMMA Shifted ==
  ASSUME NEW S \in SUBSET Int, NEW f, NEW u \in Nat, Numbered(S, f, u), NEW a \in Int,
         NEW T \in SUBSET Int, NEW g,
         \A k \in T : a + k \in S /\ g[k] = f[a + k],
         \A k \in S : k - a \in T
  PROVE  Numbered(T, g, u)
<1>1. \A k \in T : g[k] \in 1 .. u
  BY DEF Numbered
<1>2. ASSUME NEW k \in T, NEW l \in T, k < l PROVE g[k] < g[l]
  <2>1. a + k \in S /\ a + l \in S /\ a + k < a + l
    BY <1>2
  <2> QED
    BY <2>1 DEF Numbered
<1>3. ASSUME NEW n \in 1 .. u PROVE \E k \in T : g[k] = n
  <2>1. PICK k \in S : f[k] = n
    BY DEF Numbered
  <2>2. k - a \in T /\ a + (k - a) = k
    BY <2>1
  <2> QED
    BY <2>1, <2>2
<1> QED
  BY <1>1, <1>2, <1>3 DEF Numbered

(* The first place has number 1; without it the others come one nearer. *)
LEMMA FirstTaken ==
  ASSUME NEW S \in SUBSET Int, NEW f, NEW u \in Nat, Numbered(S, f, u),
         NEW m \in S, \A k \in S : m <= k
  PROVE  f[m] = 1 /\ u > 0 /\ \A k \in S \ {m} : f[k] \in 2 .. u
<1>1. f[m] \in 1 .. u
  BY DEF Numbered
<1>2. u > 0 /\ 1 \in 1 .. u
  BY <1>1
<1>3. PICK k \in S : f[k] = 1
  BY <1>2 DEF Numbered
<1>4. k = m
  <2>1. ASSUME m < k PROVE FALSE
    <3>1. f[m] < f[k]
      BY <2>1 DEF Numbered
    <3> QED
      BY <1>1, <1>3, <3>1
  <2> QED
    BY <2>1
<1>5. ASSUME NEW l \in S \ {m} PROVE f[l] \in 2 .. u
  <2>1. m < l
    OBVIOUS
  <2>2. f[m] < f[l] /\ f[l] \in 1 .. u
    BY <2>1 DEF Numbered
  <2> QED
    BY <1>3, <1>4, <2>2
<1> QED
  BY <1>2, <1>3, <1>4, <1>5

LEMMA FirstRemoved ==
  ASSUME NEW S \in SUBSET Int, NEW f, NEW u \in Nat, Numbered(S, f, u),
         NEW m \in S, \A k \in S : m <= k, NEW g,
         \A k \in S \ {m} : g[k] = f[k] - 1
  PROVE  Numbered(S \ {m}, g, u - 1)
<1>1. f[m] = 1 /\ u > 0 /\ \A k \in S \ {m} : f[k] \in 2 .. u
  BY FirstTaken
<1>2. \A k \in S \ {m} : g[k] \in 1 .. u - 1
  BY <1>1
<1>3. ASSUME NEW k \in S \ {m}, NEW l \in S \ {m}, k < l PROVE g[k] < g[l]
  <2>1. f[k] < f[l] /\ f[k] \in 2 .. u /\ f[l] \in 2 .. u
    BY <1>1, <1>3 DEF Numbered
  <2>2. g[k] = f[k] - 1 /\ g[l] = f[l] - 1
    OBVIOUS
  <2> QED
    BY <2>1, <2>2
<1>4. ASSUME NEW n \in 1 .. u - 1 PROVE \E k \in S \ {m} : g[k] = n
  <2>1. n + 1 \in 1 .. u /\ n + 1 # 1 /\ (n + 1) - 1 = n
    OBVIOUS
  <2>2. PICK k \in S : f[k] = n + 1
    BY <2>1 DEF Numbered
  <2> QED
    BY <1>1, <2>1, <2>2
<1> QED
  BY <1>2, <1>3, <1>4 DEF Numbered

(* A place behind all others gets the next number. *)
LEMMA LastAdded ==
  ASSUME NEW S \in SUBSET Int, NEW f, NEW u \in Nat, Numbered(S, f, u),
         NEW m \in Int, \A k \in S : k < m, NEW g,
         \A k \in S : g[k] = f[k], g[m] = u + 1
  PROVE  Numbered(S \cup {m}, g, u + 1)
<1>1. \A k \in S \cup {m} : g[k] \in 1 .. u + 1
  <2>1. \A k \in S : g[k] \in 1 .. u + 1
    BY DEF Numbered
  <2> QED
    BY <2>1
<1>2. ASSUME NEW k \in S \cup {m}, NEW l \in S \cup {m}, k < l PROVE g[k] < g[l]
  <2>1. k \in S
    BY <1>2
  <2>2. CASE l \in S
    BY <1>2, <2>1, <2>2 DEF Numbered
  <2>3. CASE l = m
    <3>1. g[k] \in 1 .. u
      BY <2>1 DEF Numbered
    <3> QED
      BY <2>3, <3>1
  <2> QED
    BY <2>2, <2>3
<1>3. ASSUME NEW n \in 1 .. u + 1 PROVE \E k \in S \cup {m} : g[k] = n
  <2>1. n \in 1 .. u \/ n = u + 1
    OBVIOUS
  <2> QED
    BY <2>1 DEF Numbered
<1> QED
  BY <1>1, <1>2, <1>3 DEF Numbered

(* There are no more numbers than places. *)
LEMMA NumbersBound ==
  ASSUME NEW b \in Int, NEW c \in Int, b <= c + 1, NEW S \in SUBSET (b .. c), NEW f,
         NEW u \in Nat, Numbered(S, f, u)
  PROVE  u <= c - b + 1
<1> DEFINE T == b .. c
           N == 1 .. u
           h == [n \in N |-> CHOOSE k \in S : f[k] = n]
<1>1. \A n \in N : h[n] \in S /\ f[h[n]] = n
  <2>1. \A n \in N : \E k \in S : f[k] = n
    BY DEF Numbered
  <2> HIDE DEF N
  <2> QED
    BY <2>1
<1>2. h \in Injection(N, T)
  <2>1. h \in [N -> T]
    BY <1>1
  <2>2. \A i, j \in N : h[i] = h[j] => i = j
    BY <1>1
  <2> HIDE DEF h, N, T
  <2> QED
    BY <2>1, <2>2 DEF Injection, IsInjective
<1>3. /\ IsFiniteSet(T) /\ Cardinality(T) = (IF b > c THEN 0 ELSE c - b + 1)
      /\ Cardinality(N) = IF 1 > u THEN 0 ELSE u - 1 + 1
  <2>1. 1 \in Int /\ u \in Int
    OBVIOUS
  <2>2. IsFiniteSet(T) /\ Cardinality(T) = (IF b > c THEN 0 ELSE c - b + 1)
    BY FS_Interval
  <2>3. Cardinality(N) = IF 1 > u THEN 0 ELSE u - 1 + 1
    BY <2>1, FS_Interval
  <2> QED
    BY <2>2, <2>3
<1> HIDE DEF N, T, h
<1>4. Cardinality(N) <= Cardinality(T)
  BY <1>2, <1>3, FS_Injection
<1> QED
  BY <1>3, <1>4

-----------------------------------------------------------------------------
LEMMA RingSizes ==
  /\ RingSize \in Nat \ {0} /\ RingSize > 1 /\ SeqMod \in Nat \ {0} /\ SeqMod > 1
BY RingAssumption

LEMMA Sizes ==
  /\ RingSize \in Nat \ {0} /\ RingSize > 1 /\ FifoSize \in Nat \ {0} /\ SeqMod \in Nat \ {0}
  /\ SeqMod >= RingSize + FifoSize /\ SeqMod > 1
BY ManagedAssumption, RingAssumption

(* Slots by their place in the window. *)
LEMMA SlotFacts ==
  ASSUME rd \in Index
  PROVE  /\ \A k \in 0 .. RingSize - 1 : Slot(k) \in Index /\ Offset(Slot(k)) = k
         /\ \A i \in Index : Offset(i) \in 0 .. RingSize - 1 /\ Slot(Offset(i)) = i
         /\ Offset(rd) = 0
<1>1. RingSize \in Nat \ {0} /\ rd \in 0 .. RingSize - 1
  BY RingSizes DEF Index
<1>2. \A k \in 0 .. RingSize - 1 : Slot(k) = IF rd + k < RingSize THEN rd + k ELSE rd + k - RingSize
  <2>1. \A k \in 0 .. RingSize - 1 : k \in 0 .. RingSize
    BY <1>1
  <2> QED
    BY <1>1, <2>1, Further DEF Slot, Wrap
<1>3. \A i \in 0 .. RingSize - 1 : Offset(i) = IF i >= rd THEN i - rd ELSE i - rd + RingSize
  BY <1>1, Distance DEF Offset
<1> QED
  BY <1>1, <1>2, <1>3 DEF Index

(* The slot behind i is one place further. *)
LEMMA StepFacts ==
  ASSUME rd \in Index, NEW i \in Index, Offset(i) < RingSize - 1
  PROVE  Wrap(i + 1) \in Index /\ Offset(Wrap(i + 1)) = Offset(i) + 1
<1>1. RingSize \in Nat \ {0} /\ RingSize > 1 /\ rd \in 0 .. RingSize - 1 /\ i \in 0 .. RingSize - 1
  BY RingSizes DEF Index
<1>2. Wrap(i + 1) = IF i + 1 < RingSize THEN i + 1 ELSE i + 1 - RingSize
  <2>1. 1 \in 0 .. RingSize
    BY <1>1
  <2> QED
    BY <1>1, <2>1, Further DEF Wrap
<1>3. Wrap(i + 1) \in 0 .. RingSize - 1
  BY <1>1, <1>2
<1>4. \A j \in 0 .. RingSize - 1 : Offset(j) = IF j >= rd THEN j - rd ELSE j - rd + RingSize
  BY <1>1, Distance DEF Offset
<1> QED
  BY <1>1, <1>2, <1>3, <1>4 DEF Index

(* The read pointer moves to slot i: the places of the window behind it    *)
(* come nearer.                                                            *)
LEMMA PointerMoves ==
  ASSUME rd \in Index, wrt \in Index, NEW i \in Index, Offset(i) <= Occupied,
         rd' = i, wrt' = wrt
  PROVE  /\ Occupied' = Occupied - Offset(i)
         /\ \A k \in 0 .. RingSize - 1 - Offset(i) : Slot(k)' = Slot(Offset(i) + k)
<1> DEFINE R == RingSize
           a == Offset(i)
<1>1. R \in Nat \ {0} /\ rd \in 0 .. R - 1 /\ i \in 0 .. R - 1 /\ wrt \in 0 .. R - 1
  BY RingSizes DEF Index
<1>2. /\ a = IF i >= rd THEN i - rd ELSE i - rd + R
      /\ Occupied = IF wrt >= rd THEN wrt - rd ELSE wrt - rd + R
  BY <1>1, Distance DEF Offset, Occupied
<1>3. (wrt - i) % R = IF wrt >= i THEN wrt - i ELSE wrt - i + R
  BY <1>1, Distance
<1>4. Occupied' = (wrt - i) % R
  BY DEF Occupied
<1>5. a <= Occupied /\ a \in Nat
  <2>1. a \in 0 .. R - 1
    BY SlotFacts
  <2> QED
    BY <1>1, <2>1
<1>6. Occupied' = Occupied - a
  <2> HIDE DEF a, R
  <2> QED
    BY <1>1, <1>2, <1>3, <1>4, <1>5
<1>7. ASSUME NEW k \in 0 .. R - 1 - a PROVE Slot(k)' = Slot(a + k)
  <2>1. k \in 0 .. R /\ a + k \in 0 .. R
    <3> HIDE DEF a
    <3> QED
      BY <1>1, <1>5
  <2>2. (i + k) % R = IF i + k < R THEN i + k ELSE i + k - R
    BY <1>1, <2>1, Further
  <2>3. (rd + (a + k)) % R = IF rd + (a + k) < R THEN rd + (a + k) ELSE rd + (a + k) - R
    BY <1>1, <2>1, Further
  <2>4. Slot(k)' = (i + k) % R /\ Slot(a + k) = (rd + (a + k)) % R
    BY DEF Slot, Wrap
  <2> HIDE DEF a, R
  <2> QED
    BY <1>1, <1>2, <1>5, <2>1, <2>2, <2>3, <2>4
<1> QED
  BY <1>6, <1>7

(* The write pointer moves one slot further, unless the ring is full. *)
LEMMA RingGrows ==
  ASSUME rd \in Index, wrt \in Index, Wrap(wrt + 1) # rd, wrt' = Wrap(wrt + 1), rd' = rd
  PROVE  /\ Occupied < RingSize - 1 /\ Occupied' = Occupied + 1
         /\ Slot(Occupied) = wrt /\ Wrap(wrt + 1) \in Index
<1>1. Occupied \in 0 .. RingSize - 1 /\ Occupied = Offset(wrt)
  BY SlotFacts DEF Occupied, Offset
<1>2. Occupied < RingSize - 1
  <2> DEFINE R == RingSize
  <2>1. R \in Nat \ {0} /\ R > 1 /\ rd \in 0 .. R - 1 /\ wrt \in 0 .. R - 1 /\ 1 \in 0 .. R
    BY RingSizes DEF Index
  <2>2. Occupied = IF wrt >= rd THEN wrt - rd ELSE wrt - rd + R
    BY <2>1, Distance DEF Occupied
  <2>3. Wrap(wrt + 1) = IF wrt + 1 < R THEN wrt + 1 ELSE wrt + 1 - R
    BY <2>1, Further DEF Wrap
  <2> HIDE DEF R
  <2>4. Occupied # R - 1
    BY <2>1, <2>2, <2>3
  <2>5. Occupied \in 0 .. R - 1
    BY <1>1 DEF R
  <2>6. Occupied < R - 1
    BY <2>1, <2>4, <2>5
  <2> QED
    BY <2>6 DEF R
<1>3. Wrap(wrt + 1) \in Index /\ Offset(Wrap(wrt + 1)) = Occupied + 1
  BY <1>1, <1>2, StepFacts
<1>4. Occupied' = Occupied + 1
  BY <1>3 DEF Occupied, Offset
<1>5. Slot(Occupied) = wrt
  BY <1>1, SlotFacts
<1> QED
  BY <1>2, <1>3, <1>4, <1>5

(* An RD is not a marked one. *)
LEMMA Marked == Processed \notin Rd
<1>1. "thread" \notin DOMAIN Processed
  BY DEF Processed
<1>2. \A r \in Rd : "thread" \in DOMAIN r
  BY DEF Rd
<1> QED
  BY <1>1, <1>2

(* The types, one by one. *)
LEMMA Types ==
  ASSUME TypeOK
  PROVE  /\ ring \in [Index -> Rd \cup {Processed}] /\ wrt \in Index /\ rd \in Index
         /\ Occupied \in 0 .. RingSize - 1 /\ Occupied = Offset(wrt)
         /\ pass.at \in Index /\ pass.end \in Index
         /\ \A i \in Index : ring[i] # Processed =>
               ring[i].thread \in Thread /\ ring[i].seq \in 0 .. SeqMod - 1
         /\ \A t \in Thread :
               /\ sent[t] \in 0 .. SeqMod - 1 /\ got[t] \in 0 .. SeqMod - 1
               /\ fifo[t] \in Seq(Rd) /\ Len(fifo[t]) \in Nat /\ Len(fifo[t]) <= FifoSize
               /\ \A i \in 1 .. Len(fifo[t]) : fifo[t][i].seq \in 0 .. SeqMod - 1
<1>1. /\ ring \in [Index -> Rd \cup {Processed}] /\ wrt \in Index /\ rd \in Index
      /\ pass \in [running : BOOLEAN, at : Index, end : Index, blocked : BOOLEAN]
      /\ sent \in [Thread -> 0 .. SeqMod - 1] /\ got \in [Thread -> 0 .. SeqMod - 1]
      /\ fifo \in [Thread -> Seq(Rd)] /\ \A t \in Thread : Len(fifo[t]) <= FifoSize
  BY DEF TypeOK
<1>2. pass.at \in Index /\ pass.end \in Index
  BY <1>1
<1>3. Occupied = Offset(wrt) /\ Occupied \in 0 .. RingSize - 1
  BY <1>1, SlotFacts DEF Occupied, Offset
<1>4. \A r \in Rd : r.thread \in Thread /\ r.seq \in 0 .. SeqMod - 1
  BY DEF Rd
<1>5. \A i \in Index : ring[i] # Processed => ring[i] \in Rd
  BY <1>1
<1>6. ASSUME NEW t \in Thread
      PROVE  /\ sent[t] \in 0 .. SeqMod - 1 /\ got[t] \in 0 .. SeqMod - 1
             /\ fifo[t] \in Seq(Rd) /\ Len(fifo[t]) \in Nat /\ Len(fifo[t]) <= FifoSize
             /\ \A i \in 1 .. Len(fifo[t]) : fifo[t][i].seq \in 0 .. SeqMod - 1
  <2>1. /\ sent[t] \in 0 .. SeqMod - 1 /\ got[t] \in 0 .. SeqMod - 1
        /\ fifo[t] \in Seq(Rd) /\ Len(fifo[t]) <= FifoSize
    BY <1>1
  <2>2. Len(fifo[t]) \in Nat /\ \A i \in 1 .. Len(fifo[t]) : fifo[t][i] \in Rd
    BY <2>1
  <2> QED
    BY <1>4, <2>1, <2>2
<1> QED
  BY <1>1, <1>2, <1>3, <1>4, <1>5, <1>6

(* Numbers of results, counted from the last one read. *)
LEMMA AheadFacts ==
  ASSUME NEW t \in Thread, got[t] \in 0 .. SeqMod - 1
  PROVE  \A n \in 0 .. SeqMod - 1 :
            /\ Ahead(t, n) = IF n >= got[t] THEN n - got[t] ELSE n - got[t] + SeqMod
            /\ Ahead(t, n) \in 0 .. SeqMod - 1
<1>1. SeqMod \in Nat \ {0}
  BY RingSizes
<1>2. \A n \in 0 .. SeqMod - 1 : Ahead(t, n) = IF n >= got[t] THEN n - got[t] ELSE n - got[t] + SeqMod
  BY <1>1, Distance DEF Ahead
<1> QED
  BY <1>1, <1>2

(* The next number is one further, if there is room for it. *)
LEMMA NextAhead ==
  ASSUME NEW t \in Thread, got[t] \in 0 .. SeqMod - 1, NEW n \in 0 .. SeqMod - 1,
         Ahead(t, n) < SeqMod - 1
  PROVE  (n + 1) % SeqMod \in 0 .. SeqMod - 1 /\ Ahead(t, (n + 1) % SeqMod) = Ahead(t, n) + 1
BY RingSizes, NextAway DEF Ahead

(* When the thread reads result 1, all others come one nearer. *)
LEMMA ReadAhead ==
  ASSUME NEW t \in Thread, got[t] \in 0 .. SeqMod - 1, got'[t] \in 0 .. SeqMod - 1,
         Ahead(t, got'[t]) = 1
  PROVE  \A n \in 0 .. SeqMod - 1 : Ahead(t, n) > 0 => (n - got'[t]) % SeqMod = Ahead(t, n) - 1
BY RingSizes, TakeAway DEF Ahead

(* There are no more results between FIFO and sent than RDs in the ring. *)
LEMMA UnreadBound ==
  ASSUME TypeOK, NEW t \in Thread, ReadInOrderOnce(t)
  PROVE  Ahead(t, sent[t]) <= Len(fifo[t]) + Occupied
<1> DEFINE c == Len(fifo[t])
           u == Ahead(t, sent[t])
           number(k) == Ahead(t, ring[Slot(k)].seq)
           S == c + 1 .. u
           T == 0 .. Occupied - 1
           f == [n \in S |-> CHOOSE k \in Uncopied(t) : number(k) = n]
<1>1. c \in Nat /\ u \in Nat /\ Occupied \in Nat
  BY Types, AheadFacts, Sizes
<1>2. \A n \in S : f[n] \in Uncopied(t) /\ number(f[n]) = n
  <2>1. \A n \in S : \E k \in Uncopied(t) : number(k) = n
    BY DEF ReadInOrderOnce
  <2> HIDE DEF number
  <2> QED
    BY <2>1
<1>3. Uncopied(t) \subseteq T
  BY DEF Uncopied
<1>4. f \in Injection(S, T)
  <2> HIDE DEF number, S, T
  <2>1. f \in [S -> T]
    BY <1>2, <1>3
  <2>2. \A a, b \in S : f[a] = f[b] => a = b
    BY <1>2
  <2> HIDE DEF f
  <2> QED
    BY <2>1, <2>2 DEF Injection, IsInjective
<1>5. /\ IsFiniteSet(T) /\ Cardinality(T) = (IF 0 > Occupied - 1 THEN 0 ELSE Occupied - 1 - 0 + 1)
      /\ Cardinality(S) = IF c + 1 > u THEN 0 ELSE u - (c + 1) + 1
  <2>1. 0 \in Int /\ Occupied - 1 \in Int /\ c + 1 \in Int /\ u \in Int
    BY <1>1
  <2> HIDE DEF c, u
  <2>2. IsFiniteSet(T) /\ Cardinality(T) = (IF 0 > Occupied - 1 THEN 0 ELSE Occupied - 1 - 0 + 1)
    BY <2>1, FS_Interval
  <2>3. Cardinality(S) = IF c + 1 > u THEN 0 ELSE u - (c + 1) + 1
    BY <2>1, FS_Interval
  <2> QED
    BY <2>2, <2>3
<1> HIDE DEF S, T, f
<1>6. Cardinality(S) <= Cardinality(T)
  BY <1>4, <1>5, FS_Injection
<1> QED
  BY <1>1, <1>5, <1>6

-----------------------------------------------------------------------------
(* A step that leaves a thread's numbers, and the RDs of the thread where  *)
(* they were or a distance further, keeps the thread's order.              *)
LEMMA OrderKept ==
  ASSUME NEW t \in Thread, ReadInOrderOnce(t),
         fifo'[t] = fifo[t], sent'[t] = sent[t], got'[t] = got[t], NEW a \in Nat,
         \A k \in Nat : k \in Uncopied(t)' <=> a + k \in Uncopied(t),
         \A k \in Uncopied(t) : k >= a,
         \A k \in Uncopied(t)' : (ring[Slot(k)].seq)' = ring[Slot(a + k)].seq,
         Uncopied(t) \subseteq Nat, Uncopied(t)' \subseteq Nat
  PROVE  ReadInOrderOnce(t)'
<1> DEFINE c == Len(fifo[t])
           u == Ahead(t, sent[t])
           number(k) == Ahead(t, ring[Slot(k)].seq)
           numberP(k) == Ahead(t, ring[Slot(k)].seq)'
<1>1. /\ c <= u
      /\ \A i \in 1 .. c : Ahead(t, fifo[t][i].seq) = i
      /\ \A k \in Uncopied(t) : number(k) \in c + 1 .. u
      /\ \A k, l \in Uncopied(t) : k < l => number(k) < number(l)
      /\ \A n \in c + 1 .. u : \E k \in Uncopied(t) : number(k) = n
  BY DEF ReadInOrderOnce
<1>2. c' = c /\ u' = u /\ \A i \in 1 .. c : Ahead(t, fifo[t][i].seq)' = Ahead(t, fifo[t][i].seq)
  BY DEF Ahead
<1>3. \A k \in Uncopied(t)' : numberP(k) = number(a + k)
  BY DEF Ahead
<1> HIDE DEF number, numberP
<1>4. \A k \in Uncopied(t)' : k \in Nat /\ a + k \in Uncopied(t)
  OBVIOUS
<1>5. \A k \in Uncopied(t)' : numberP(k) \in c + 1 .. u
  BY <1>1, <1>3, <1>4
<1>6. \A k, l \in Uncopied(t)' : k < l => numberP(k) < numberP(l)
  <2> SUFFICES ASSUME NEW k \in Uncopied(t)', NEW l \in Uncopied(t)', k < l
               PROVE  numberP(k) < numberP(l)
    OBVIOUS
  <2>1. a + k \in Uncopied(t) /\ a + l \in Uncopied(t) /\ a + k < a + l
    BY <1>4
  <2> QED
    BY <1>1, <1>3, <2>1
<1>7. \A n \in c + 1 .. u : \E k \in Uncopied(t)' : numberP(k) = n
  <2> SUFFICES ASSUME NEW n \in c + 1 .. u PROVE \E k \in Uncopied(t)' : numberP(k) = n
    OBVIOUS
  <2>1. PICK k \in Uncopied(t) : number(k) = n
    BY <1>1
  <2>2. k - a \in Nat /\ a + (k - a) = k
    <3>1. k \in Nat /\ k >= a
      BY <2>1
    <3> QED
      BY <3>1
  <2>3. k - a \in Uncopied(t)'
    BY <2>1, <2>2
  <2> QED
    BY <1>3, <2>1, <2>2, <2>3
<1> HIDE DEF c, u
<1>8. /\ c' <= u'
      /\ \A i \in 1 .. c' : Ahead(t, fifo[t][i].seq)' = i
      /\ \A k \in Uncopied(t)' : numberP(k) \in c' + 1 .. u'
      /\ \A n \in c' + 1 .. u' : \E k \in Uncopied(t)' : numberP(k) = n
  BY <1>1, <1>2, <1>5, <1>7
<1> QED
  BY <1>6, <1>8 DEF c, u, numberP, ReadInOrderOnce

LEMMA OrderSame ==
  ASSUME NEW t \in Thread, ReadInOrderOnce(t), TypeOK,
         fifo'[t] = fifo[t], sent'[t] = sent[t], got'[t] = got[t],
         rd' = rd, Uncopied(t)' = Uncopied(t),
         \A k \in Uncopied(t) : ring'[Slot(k)] = ring[Slot(k)]
  PROVE  ReadInOrderOnce(t)'
<1>1. Uncopied(t) \subseteq Nat
  BY Types DEF Uncopied
<1>2. \A k \in Uncopied(t)' : (ring[Slot(k)].seq)' = ring[Slot(0 + k)].seq
  BY <1>1 DEF Slot
<1>3. \A k \in Nat : k \in Uncopied(t)' <=> 0 + k \in Uncopied(t)
  OBVIOUS
<1>4. \A k \in Uncopied(t) : k >= 0
  BY <1>1
<1> QED
  BY <1>1, <1>2, <1>3, <1>4, OrderKept

(* The ring stays as it is. *)
LEMMA RingSame ==
  ASSUME UNCHANGED <<ring, wrt, rd>>
  PROVE  /\ Occupied' = Occupied
         /\ \A k : Slot(k)' = Slot(k)
         /\ \A i : Offset(i)' = Offset(i)
         /\ \A t : Uncopied(t)' = Uncopied(t)
BY DEF Occupied, Slot, Offset, Uncopied

-----------------------------------------------------------------------------
(* One step at a time. *)
LEMMA InitInv ==
  ASSUME Init
  PROVE  OutputInv
<1>1. RingSize \in Nat \ {0} /\ SeqMod \in Nat \ {0} /\ FifoSize \in Nat \ {0} /\ 0 \in Index /\ 0 \in 0 .. SeqMod - 1
  BY Sizes DEF Index
<1>2. /\ ring = [i \in Index |-> Processed] /\ wrt = 0 /\ rd = 0 /\ skip = {} /\ pass = NoPass
      /\ fifo = [t \in Thread |-> <<>>] /\ sent = [t \in Thread |-> 0] /\ got = [t \in Thread |-> 0]
  BY DEF Init
<1>3. TypeOK
  <2>1. pass \in [running : BOOLEAN, at : Index, end : Index, blocked : BOOLEAN]
    BY <1>1, <1>2 DEF NoPass
  <2>2. fifo \in [Thread -> Seq(Rd)] /\ \A t \in Thread : Len(fifo[t]) <= FifoSize
    BY <1>1, <1>2
  <2> QED
    BY <1>1, <1>2, <2>1, <2>2 DEF TypeOK
<1>4. Occupied = 0
  BY <1>2, <1>3, Types, SlotFacts
<1>5. ASSUME NEW t \in Thread PROVE ReadInOrderOnce(t)
  <2>1. Uncopied(t) = {}
    BY <1>4 DEF Uncopied
  <2>2. Len(fifo[t]) = 0 /\ sent[t] = 0 /\ got[t] = 0
    BY <1>2
  <2>3. Ahead(t, sent[t]) = 0
    BY <1>1, <2>2, AheadFacts
  <2>4. Len(fifo[t]) + 1 .. Ahead(t, sent[t]) = {} /\ 1 .. Len(fifo[t]) = {}
    BY <2>2, <2>3
  <2> QED
    BY <2>1, <2>2, <2>3, <2>4 DEF ReadInOrderOnce
<1>6. ~pass.running
  BY <1>2 DEF NoPass
<1> QED
  BY <1>3, <1>5, <1>6 DEF OutputInv, DeliveredInOrderOnce, PassOK

(* Steps of the manager that only look at an RD. *)
LEMMA LookKeeps ==
  ASSUME OutputInv, UNCHANGED <<ring, wrt, rd, fifo, sent, got>>,
         skip' \subseteq Thread,
         pass' \in [running : BOOLEAN, at : Index, end : Index, blocked : BOOLEAN], PassOK'
  PROVE  OutputInv'
<1>1. TypeOK /\ \A t \in Thread : ReadInOrderOnce(t)
  BY DEF OutputInv, DeliveredInOrderOnce
<1>2. TypeOK'
  BY <1>1 DEF TypeOK
<1>3. \A t : Uncopied(t)' = Uncopied(t)
  BY RingSame
<1>4. ASSUME NEW t \in Thread PROVE ReadInOrderOnce(t)'
  BY <1>1, <1>3, OrderSame
<1> QED
  BY <1>2, <1>4 DEF OutputInv, DeliveredInOrderOnce

LEMMA BeginKeeps ==
  ASSUME OutputInv, BeginPass
  PROVE  OutputInv'
<1>1. TypeOK /\ rd \in Index /\ wrt \in Index /\ Occupied = Offset(wrt) /\ Occupied \in Nat
  BY Types, Sizes DEF OutputInv, DeliveredInOrderOnce
<1>2. /\ pass' = [running |-> TRUE, at |-> rd, end |-> wrt, blocked |-> FALSE]
      /\ skip' = {} /\ UNCHANGED <<ring, wrt, rd, fifo, sent, got>>
  BY DEF BeginPass
<1>3. pass'.at = rd /\ pass'.end = wrt
  BY <1>2
<1>4. Occupied' = Occupied /\ Offset(pass.at)' = 0 /\ Offset(pass.end)' = Occupied
  BY <1>1, <1>2, <1>3, SlotFacts DEF Occupied, Offset
<1>5. PassOK'
  BY <1>1, <1>4 DEF PassOK
<1>6. pass' \in [running : BOOLEAN, at : Index, end : Index, blocked : BOOLEAN]
  BY <1>1, <1>2
<1> QED
  BY <1>2, <1>5, <1>6, LookKeeps

(* Where the manager is, and what it passes when it goes on. *)
LEMMA AtFacts ==
  ASSUME OutputInv, PassGoesOn
  PROVE  /\ Offset(pass.at) \in Nat /\ Offset(pass.at) < Occupied /\ Offset(pass.at) < RingSize - 1
         /\ Offset(pass.at) < Offset(pass.end) /\ Offset(pass.end) <= Occupied
         /\ Slot(Offset(pass.at)) = pass.at /\ pass.at \in Index /\ pass.end \in Index
         /\ Wrap(pass.at + 1) \in Index /\ Offset(Wrap(pass.at + 1)) = Offset(pass.at) + 1
<1>1. TypeOK /\ PassOK /\ pass.running /\ pass.at # pass.end
  BY DEF OutputInv, DeliveredInOrderOnce, PassGoesOn
<1>2. pass.at \in Index /\ pass.end \in Index /\ rd \in Index /\ Occupied \in 0 .. RingSize - 1
  BY <1>1, Types
<1>3. /\ Offset(pass.at) \in 0 .. RingSize - 1 /\ Slot(Offset(pass.at)) = pass.at
      /\ Offset(pass.end) \in 0 .. RingSize - 1 /\ Slot(Offset(pass.end)) = pass.end
  BY <1>2, SlotFacts
<1>4. Offset(pass.at) <= Offset(pass.end) /\ Offset(pass.end) <= Occupied
  BY <1>1 DEF PassOK
<1>5. Offset(pass.at) # Offset(pass.end)
  BY <1>1, <1>3
<1>6. /\ Offset(pass.at) \in Nat /\ Offset(pass.at) < Occupied /\ Offset(pass.at) < RingSize - 1
      /\ Offset(pass.at) < Offset(pass.end)
  BY <1>2, <1>3, <1>4, <1>5, Sizes
<1>7. Wrap(pass.at + 1) \in Index /\ Offset(Wrap(pass.at + 1)) = Offset(pass.at) + 1
  BY <1>2, <1>6, StepFacts
<1> QED
  BY <1>2, <1>3, <1>4, <1>6, <1>7

(* The manager goes on from an RD that is marked, or that it remembers.    *)
LEMMA PassOn ==
  ASSUME OutputInv, PassGoesOn, UNCHANGED <<ring, wrt, rd, fifo, sent, got>>,
         skip' \subseteq Thread, skip \subseteq skip',
         pass' = Step \/ pass' = StepBlocked,
         Current # Processed => pass' = StepBlocked /\ Current.thread \in skip'
  PROVE  OutputInv'
<1> DEFINE a == Offset(pass.at)
           b == pass'.blocked
<1>1. TypeOK /\ PassOK /\ pass.running
  BY DEF OutputInv, DeliveredInOrderOnce, PassGoesOn
<1>2. pass \in [running : BOOLEAN, at : Index, end : Index, blocked : BOOLEAN]
  BY <1>1 DEF TypeOK
<1>3. /\ a \in Nat /\ a < Occupied /\ a < Offset(pass.end) /\ Offset(pass.end) <= Occupied
      /\ Slot(a) = pass.at /\ Wrap(pass.at + 1) \in Index /\ Offset(Wrap(pass.at + 1)) = a + 1
  BY AtFacts
<1>4. /\ pass' \in [running : BOOLEAN, at : Index, end : Index, blocked : BOOLEAN]
      /\ pass'.at = Wrap(pass.at + 1) /\ pass'.end = pass.end /\ pass'.running
      /\ pass.blocked => pass'.blocked
      /\ pass' = StepBlocked => pass'.blocked
  BY <1>1, <1>2, <1>3 DEF Step, StepBlocked
<1>5. Offset(pass.at)' = a + 1 /\ Offset(pass.end)' = Offset(pass.end)
  BY <1>3, <1>4, RingSame DEF Offset
<1>6. \A k \in 0 .. a - 1 : ring[Slot(k)] # Processed => pass'.blocked /\ ring[Slot(k)].thread \in skip'
  BY <1>1, <1>4 DEF PassOK
<1>7. ring[Slot(a)] # Processed => pass'.blocked /\ ring[Slot(a)].thread \in skip'
  BY <1>3, <1>4 DEF Current
<1>8. Occupied \in Nat /\ Offset(pass.end) \in Nat
  BY <1>1, Types, SlotFacts, Sizes
<1> HIDE DEF a
<1>9. \A k \in 0 .. a : k \in 0 .. a - 1 \/ k = a
  BY <1>3
<1>10. PassOK'
  <2>1. Offset(pass.at)' <= Offset(pass.end)' /\ Offset(pass.end)' <= Occupied'
    <3>1. Occupied' = Occupied
      BY RingSame
    <3> QED
      BY <1>3, <1>5, <1>8, <3>1
  <2>2. 0 .. Offset(pass.at)' - 1 = 0 .. a
    BY <1>3, <1>5
  <2>3. \A k : Slot(k)' = Slot(k)
    BY RingSame
  <2>4. \A k \in 0 .. a : ring[Slot(k)] # Processed => pass'.blocked /\ ring[Slot(k)].thread \in skip'
    BY <1>6, <1>7, <1>9
  <2> QED
    BY <2>1, <2>2, <2>3, <2>4 DEF PassOK
<1> QED
  BY <1>4, <1>10, LookKeeps

LEMMA PassProcessedKeeps ==
  ASSUME OutputInv, PassProcessed
  PROVE  OutputInv'
<1>1. skip \subseteq Thread
  BY DEF OutputInv, DeliveredInOrderOnce, TypeOK
<1> QED
  BY <1>1, PassOn DEF PassProcessed

LEMMA SkipKeeps ==
  ASSUME OutputInv, SkipRd
  PROVE  OutputInv'
<1>1. skip \subseteq Thread
  BY DEF OutputInv, DeliveredInOrderOnce, TypeOK
<1> QED
  BY <1>1, PassOn DEF SkipRd

LEMMA MeetFullKeeps ==
  ASSUME OutputInv, MeetFull
  PROVE  OutputInv'
<1>1. skip \subseteq Thread /\ TypeOK /\ pass.at \in Index
  BY Types DEF OutputInv, DeliveredInOrderOnce, TypeOK
<1>2. Current.thread \in Thread
  BY <1>1, Types DEF MeetFull, Current
<1> QED
  BY <1>1, <1>2, PassOn DEF MeetFull

(* The thread reads its oldest result. *)
LEMMA ReadKeeps ==
  ASSUME OutputInv, NEW t \in Thread, Read(t)
  PROVE  OutputInv'
<1>1. TypeOK /\ PassOK /\ \A u \in Thread : ReadInOrderOnce(u)
  BY DEF OutputInv, DeliveredInOrderOnce
<1>2. /\ fifo[t] # <<>> /\ got' = [got EXCEPT ![t] = Head(fifo[t]).seq]
      /\ fifo' = [fifo EXCEPT ![t] = Tail(fifo[t])] /\ UNCHANGED <<ring, wrt, rd, skip, pass, sent>>
  BY DEF Read
<1> DEFINE c == Len(fifo[t])
           d == Ahead(t, sent[t])
<1>3. /\ fifo[t] \in Seq(Rd) /\ c \in Nat /\ c <= FifoSize
      /\ got[t] \in 0 .. SeqMod - 1 /\ sent[t] \in 0 .. SeqMod - 1
      /\ \A i \in 1 .. c : fifo[t][i].seq \in 0 .. SeqMod - 1
  BY <1>1, Types
<1>4. /\ Tail(fifo[t]) \in Seq(Rd) /\ Len(Tail(fifo[t])) = c - 1 /\ c > 0
      /\ Head(fifo[t]) = fifo[t][1] /\ \A i \in 1 .. c - 1 : Tail(fifo[t])[i] = fifo[t][i + 1]
  BY <1>2, <1>3
<1>5. got \in [Thread -> 0 .. SeqMod - 1] /\ fifo \in [Thread -> Seq(Rd)]
      /\ \A u \in Thread : Len(fifo[u]) <= FifoSize
  BY <1>1 DEF TypeOK
<1>6. /\ got'[t] = fifo[t][1].seq /\ got'[t] \in 0 .. SeqMod - 1 /\ fifo'[t] = Tail(fifo[t])
      /\ \A u \in Thread \ {t} : got'[u] = got[u] /\ fifo'[u] = fifo[u]
  <2>1. 1 \in 1 .. c
    BY <1>3, <1>4
  <2> QED
    BY <1>2, <1>3, <1>4, <1>5, <2>1
<1>7. TypeOK'
  <2>1. got' \in [Thread -> 0 .. SeqMod - 1] /\ fifo' \in [Thread -> Seq(Rd)]
    BY <1>2, <1>4, <1>5, <1>6
  <2>2. \A u \in Thread : Len(fifo'[u]) <= FifoSize
    <3>1. Len(fifo'[t]) <= FifoSize
      <4>1. FifoSize \in Nat /\ Len(fifo'[t]) = c - 1
        BY <1>4, <1>6, Sizes
      <4> HIDE DEF c
      <4> QED
        BY <1>3, <4>1
    <3> QED
      BY <1>5, <1>6, <3>1
  <2> QED
    BY <1>1, <1>2, <2>1, <2>2 DEF TypeOK
<1>8. PassOK'
  <2>1. Occupied' = Occupied /\ (\A k : Slot(k)' = Slot(k)) /\ (\A i : Offset(i)' = Offset(i))
    BY <1>2, RingSame
  <2> QED
    BY <1>1, <1>2, <2>1 DEF PassOK
<1>9. \A u : Uncopied(u)' = Uncopied(u)
  BY <1>2, RingSame
<1>10. ASSUME NEW u \in Thread \ {t} PROVE ReadInOrderOnce(u)'
  BY <1>1, <1>2, <1>6, <1>9, OrderSame
<1>11. ReadInOrderOnce(t)'
  <2> DEFINE number(k) == Ahead(t, ring[Slot(k)].seq)
             nearer(n) == (n - got'[t]) % SeqMod
  <2>1. /\ c <= d
        /\ \A i \in 1 .. c : Ahead(t, fifo[t][i].seq) = i
        /\ \A k \in Uncopied(t) : number(k) \in c + 1 .. d
        /\ \A k, l \in Uncopied(t) : k < l => number(k) < number(l)
        /\ \A n \in c + 1 .. d : \E k \in Uncopied(t) : number(k) = n
    BY <1>1 DEF ReadInOrderOnce
  <2>2. Ahead(t, got'[t]) = 1
    <3>1. 1 \in 1 .. c
      BY <1>3, <1>4
    <3> QED
      BY <1>6, <2>1, <3>1
  <2>3. \A n \in 0 .. SeqMod - 1 : Ahead(t, n) > 0 => nearer(n) = Ahead(t, n) - 1
    BY <1>3, <1>6, <2>2, ReadAhead
  <2>4. \A k \in Uncopied(t) : ring[Slot(k)].seq \in 0 .. SeqMod - 1
    <3>1. \A k \in Uncopied(t) : Slot(k) \in Index /\ ring[Slot(k)] # Processed
      BY <1>1, Types, SlotFacts, Sizes DEF Uncopied
    <3> QED
      BY <1>1, <3>1, Types
  <2>5. d \in Nat
    <3>1. d \in 0 .. SeqMod - 1
      BY <1>3, AheadFacts
    <3> HIDE DEF d
    <3> QED
      BY <3>1, Sizes
  <2> HIDE DEF c, nearer
  <2>6. nearer(sent[t]) = d - 1
    BY <1>3, <1>4, <2>1, <2>3, <2>5
  <2>7. \A i \in 1 .. c - 1 : nearer(fifo'[t][i].seq) = i
    <3> SUFFICES ASSUME NEW i \in 1 .. c - 1 PROVE nearer(fifo'[t][i].seq) = i
      OBVIOUS
    <3>1. i + 1 \in 1 .. c /\ i \in Nat /\ i + 1 > 0 /\ (i + 1) - 1 = i
      BY <1>3
    <3>2. fifo'[t][i] = fifo[t][i + 1] /\ fifo[t][i + 1].seq \in 0 .. SeqMod - 1
      BY <1>3, <1>4, <1>6, <3>1
    <3>3. Ahead(t, fifo[t][i + 1].seq) = i + 1
      BY <2>1, <3>1
    <3> QED
      BY <2>3, <3>1, <3>2, <3>3
  <2>8. \A k \in Uncopied(t) : /\ number(k) \in c + 1 .. d /\ number(k) \in Nat
                               /\ nearer(ring[Slot(k)].seq) = number(k) - 1
    <3> SUFFICES ASSUME NEW k \in Uncopied(t)
                 PROVE  /\ number(k) \in c + 1 .. d /\ number(k) \in Nat
                        /\ nearer(ring[Slot(k)].seq) = number(k) - 1
      OBVIOUS
    <3>1. number(k) \in c + 1 .. d
      BY <2>1
    <3>2. number(k) \in Nat /\ number(k) > 0
      <4> HIDE DEF number, d
      <4> QED
        BY <1>3, <2>5, <3>1
    <3> QED
      BY <2>3, <2>4, <3>1, <3>2
  <2> DEFINE after(k) == nearer(ring[Slot(k)].seq)
  <2>9. \A k \in Uncopied(t) : /\ number(k) \in c + 1 .. d /\ number(k) \in Nat
                               /\ after(k) = number(k) - 1
    BY <2>8
  <2> HIDE DEF number, after, d
  <2>10. \A k \in Uncopied(t) : after(k) \in (c - 1) + 1 .. d - 1
    BY <1>3, <2>5, <2>9
  <2>11. \A k, l \in Uncopied(t) : k < l => after(k) < after(l)
    BY <2>1, <2>9
  <2>12. \A n \in (c - 1) + 1 .. d - 1 : \E k \in Uncopied(t) : after(k) = n
    <3> SUFFICES ASSUME NEW n \in (c - 1) + 1 .. d - 1 PROVE \E k \in Uncopied(t) : after(k) = n
      OBVIOUS
    <3>1. n \in Int /\ n + 1 \in c + 1 .. d /\ (n + 1) - 1 = n
      BY <1>3, <2>5
    <3> QED
      BY <2>1, <2>9, <3>1
  <2>13. c - 1 <= d - 1
    BY <1>3, <2>1, <2>5
  <2>14. Len(fifo'[t]) = c - 1 /\ Ahead(t, sent[t])' = d - 1
    BY <1>2, <1>4, <1>6, <2>6 DEF Ahead, nearer
  <2>15. \A k : Ahead(t, ring[Slot(k)].seq)' = after(k)
    BY <1>2 DEF Ahead, after, nearer, Slot
  <2>16. \A i \in 1 .. c - 1 : Ahead(t, fifo[t][i].seq)' = i
    BY <2>7 DEF Ahead, nearer
  <2> QED
    BY <1>9, <2>10, <2>11, <2>12, <2>13, <2>14, <2>15, <2>16 DEF ReadInOrderOnce
<1> QED
  BY <1>7, <1>8, <1>10, <1>11 DEF OutputInv, DeliveredInOrderOnce

(* The manager does not move the read pointer past an RD it has not        *)
(* copied.                                                                 *)
LEMMA EndKeeps ==
  ASSUME OutputInv, EndPass
  PROVE  OutputInv'
<1>1. TypeOK /\ PassOK /\ \A u \in Thread : ReadInOrderOnce(u)
  BY DEF OutputInv, DeliveredInOrderOnce
<1>2. /\ pass.running /\ pass.at = pass.end /\ pass' = NoPass
      /\ rd' = IF pass.blocked THEN rd ELSE pass.at
      /\ UNCHANGED <<ring, wrt, fifo, skip, sent, got>>
  BY DEF EndPass
<1>3. 0 \in Index /\ RingSize \in Nat \ {0}
  BY Sizes DEF Index
<1>4. pass.at \in Index /\ rd \in Index /\ wrt \in Index /\ Occupied \in 0 .. RingSize - 1
  BY <1>1, Types
<1>5. pass' \in [running : BOOLEAN, at : Index, end : Index, blocked : BOOLEAN] /\ ~pass'.running
  BY <1>2, <1>3 DEF NoPass
<1>6. TypeOK'
  BY <1>1, <1>2, <1>4, <1>5 DEF TypeOK
<1>7. PassOK'
  BY <1>5 DEF PassOK
<1>8. CASE pass.blocked
  BY <1>1, <1>2, <1>5, <1>7, <1>8, LookKeeps DEF TypeOK
<1>9. CASE ~pass.blocked
  <2> DEFINE a == Offset(pass.at)
  <2>1. a \in 0 .. RingSize - 1 /\ a <= Occupied /\ \A k \in 0 .. a - 1 : ring[Slot(k)] = Processed
    BY <1>1, <1>2, <1>4, <1>9, SlotFacts DEF PassOK
  <2>2. rd' = pass.at
    BY <1>2, <1>9
  <2>3. Occupied' = Occupied - a /\ \A k \in 0 .. RingSize - 1 - a : Slot(k)' = Slot(a + k)
    BY <1>2, <1>4, <2>1, <2>2, PointerMoves
  <2> HIDE DEF a
  <2>4. a \in Nat /\ Occupied \in Nat /\ RingSize \in Nat
    BY <1>3, <1>4, <2>1
  <2>5. ASSUME NEW t \in Thread PROVE ReadInOrderOnce(t)'
    <3>1. \A k \in Uncopied(t) : k \in Nat /\ k >= a
      <4> SUFFICES ASSUME NEW k \in Uncopied(t) PROVE k \in Nat /\ k >= a
        OBVIOUS
      <4>1. k \in 0 .. Occupied - 1 /\ ring[Slot(k)] # Processed
        BY DEF Uncopied
      <4>2. k \notin 0 .. a - 1
        BY <2>1, <4>1
      <4> QED
        BY <2>4, <4>1, <4>2
    <3>2. \A k \in Uncopied(t)' : k \in 0 .. (Occupied - a) - 1 /\ k \in Nat
      BY <2>3, <2>4 DEF Uncopied
    <3>3. \A k \in Nat : k \in 0 .. (Occupied - a) - 1 <=> a + k \in 0 .. Occupied - 1
      BY <2>1, <2>4
    <3>4. \A k \in 0 .. (Occupied - a) - 1 : k \in 0 .. RingSize - 1 - a
      BY <1>4, <2>1, <2>4
    <3>5. \A k \in 0 .. (Occupied - a) - 1 : Slot(k)' = Slot(a + k)
      BY <2>3, <3>4
    <3>6. \A k \in Nat : k \in Uncopied(t)' <=> a + k \in Uncopied(t)
      <4> SUFFICES ASSUME NEW k \in Nat PROVE k \in Uncopied(t)' <=> a + k \in Uncopied(t)
        OBVIOUS
      <4>1. k \in Uncopied(t)' <=> /\ k \in 0 .. (Occupied - a) - 1
                                   /\ ring[Slot(k)'] # Processed /\ ring[Slot(k)'].thread = t
        BY <1>2, <2>3 DEF Uncopied
      <4>2. a + k \in Uncopied(t) <=> /\ a + k \in 0 .. Occupied - 1
                                      /\ ring[Slot(a + k)] # Processed /\ ring[Slot(a + k)].thread = t
        BY DEF Uncopied
      <4> QED
        BY <3>3, <3>5, <4>1, <4>2
    <3>7. \A k \in Uncopied(t)' : (ring[Slot(k)].seq)' = ring[Slot(a + k)].seq
      BY <1>2, <3>2, <3>5
    <3> QED
      BY <1>1, <1>2, <2>4, <3>1, <3>2, <3>6, <3>7, OrderKept
  <2> QED
    BY <1>6, <1>7, <2>5 DEF OutputInv, DeliveredInOrderOnce
<1> QED
  BY <1>8, <1>9

(* No RD of a thread that is not marked is left behind, so the one that is *)
(* copied is the oldest, and the next number of the thread's FIFO.         *)
LEMMA OldestUncopied ==
  ASSUME OutputInv, PassGoesOn, Current # Processed, Current.thread \notin skip
  PROVE  LET t == Current.thread
             a == Offset(pass.at) IN
         /\ t \in Thread /\ a \in Uncopied(t)
         /\ Ahead(t, ring[Slot(a)].seq) = Len(fifo[t]) + 1
<1> DEFINE t == Current.thread
           a == Offset(pass.at)
           number(k) == Ahead(t, ring[Slot(k)].seq)
           c == Len(fifo[t])
           u == Ahead(t, sent[t])
<1>1. TypeOK /\ PassOK /\ pass.running
  BY DEF OutputInv, DeliveredInOrderOnce, PassGoesOn
<1>2. /\ a \in Nat /\ a < Occupied /\ Slot(a) = pass.at /\ pass.at \in Index
  BY AtFacts
<1>3. t \in Thread
  BY <1>1, <1>2, Types DEF Current
<1>4. Occupied \in Nat
  BY <1>1, Types, Sizes
<1>5. a \in Uncopied(t)
  <2>1. a \in 0 .. Occupied - 1
    <3> HIDE DEF a
    <3> QED
      BY <1>2, <1>4
  <2> QED
    BY <1>2, <2>1 DEF Uncopied, Current
<1>6. \A k \in Uncopied(t) : k \in Nat /\ k >= a
  <2> SUFFICES ASSUME NEW k \in Uncopied(t) PROVE k \in Nat /\ k >= a
    OBVIOUS
  <2>1. k \in 0 .. Occupied - 1 /\ ring[Slot(k)] # Processed /\ ring[Slot(k)].thread = t
    BY DEF Uncopied
  <2>2. k \notin 0 .. a - 1
    BY <1>1, <2>1 DEF PassOK
  <2> HIDE DEF a
  <2> QED
    BY <1>2, <1>4, <2>1, <2>2
<1>7. /\ \A k \in Uncopied(t) : number(k) \in c + 1 .. u
      /\ \A k, l \in Uncopied(t) : k < l => number(k) < number(l)
      /\ \A n \in c + 1 .. u : \E k \in Uncopied(t) : number(k) = n
  BY <1>3 DEF OutputInv, DeliveredInOrderOnce, ReadInOrderOnce
<1>8. c \in Nat /\ u \in Nat
  <2>1. c \in Nat /\ got[t] \in 0 .. SeqMod - 1 /\ sent[t] \in 0 .. SeqMod - 1
    BY <1>1, <1>3, Types
  <2> HIDE DEF t
  <2> QED
    BY <1>3, <2>1, AheadFacts, Sizes
<1> HIDE DEF number, c, u, a, t
<1>9. number(a) \in c + 1 .. u /\ c + 1 \in c + 1 .. u
  BY <1>5, <1>7, <1>8
<1>10. PICK k \in Uncopied(t) : number(k) = c + 1
  BY <1>7, <1>9
<1>11. k \in Nat /\ k >= a
  BY <1>6
<1>12. ~(a < k)
  <2>1. ASSUME a < k PROVE FALSE
    <3>1. number(a) < number(k)
      BY <1>5, <1>7, <2>1
    <3> QED
      BY <1>8, <1>9, <1>10, <3>1
  <2> QED
    BY <2>1
<1>13. k = a
  BY <1>2, <1>11, <1>12
<1>14. number(a) = c + 1
  BY <1>10, <1>13
<1> QED
  BY <1>3, <1>5, <1>14 DEF number, c, a, t

LEMMA CopyKeeps ==
  ASSUME OutputInv, CopyRd
  PROVE  OutputInv'
<1>a. PICK t \in Thread : t = Current.thread
  BY OldestUncopied DEF CopyRd
<1>b. PICK a \in Nat : a = Offset(pass.at)
  BY AtFacts DEF CopyRd
<1> DEFINE r == Current
           c == Len(fifo[t])
           d == Ahead(t, sent[t])
<1>1. TypeOK /\ PassOK /\ \A u \in Thread : ReadInOrderOnce(u)
  BY DEF OutputInv, DeliveredInOrderOnce
<1>2. /\ PassGoesOn /\ r # Processed /\ t \notin skip /\ c < FifoSize
      /\ fifo' = [fifo EXCEPT ![t] = Append(fifo[t], r)]
      /\ ring' = [ring EXCEPT ![pass.at] = Processed]
      /\ pass' = Step /\ UNCHANGED <<wrt, rd, skip, sent, got>>
  BY <1>a DEF CopyRd
<1>3. t \in Thread /\ a \in Uncopied(t) /\ Ahead(t, ring[Slot(a)].seq) = c + 1
  BY <1>a, <1>b, <1>2, OldestUncopied
<1>4. /\ a \in Nat /\ a < Occupied /\ a < RingSize - 1 /\ a < Offset(pass.end)
      /\ Offset(pass.end) <= Occupied /\ Slot(a) = pass.at /\ pass.at \in Index /\ pass.end \in Index
      /\ Wrap(pass.at + 1) \in Index /\ Offset(Wrap(pass.at + 1)) = a + 1
  BY <1>b, <1>2, AtFacts
<1>5. /\ ring \in [Index -> Rd \cup {Processed}] /\ r \in Rd /\ r = ring[pass.at]
      /\ pass \in [running : BOOLEAN, at : Index, end : Index, blocked : BOOLEAN]
      /\ fifo \in [Thread -> Seq(Rd)] /\ \A u \in Thread : Len(fifo[u]) <= FifoSize
      /\ rd \in Index /\ Occupied \in 0 .. RingSize - 1 /\ FifoSize \in Nat /\ RingSize \in Nat
  <2>1. ring[pass.at] \in Rd
    BY <1>1, <1>2, <1>4 DEF TypeOK, Current
  <2> QED
    BY <1>1, <2>1, Types, Sizes DEF TypeOK, Current
<1>6. /\ fifo[t] \in Seq(Rd) /\ c \in Nat /\ Append(fifo[t], r) \in Seq(Rd)
      /\ Len(Append(fifo[t], r)) = c + 1 /\ Append(fifo[t], r)[c + 1] = r
      /\ \A i \in 1 .. c : Append(fifo[t], r)[i] = fifo[t][i]
  <2>1. fifo[t] \in Seq(Rd) /\ r \in Rd
    BY <1>3, <1>5
  <2> HIDE DEF r
  <2> QED
    BY <2>1
<1>7. /\ fifo'[t] = Append(fifo[t], r) /\ \A u \in Thread \ {t} : fifo'[u] = fifo[u]
      /\ fifo' \in [Thread -> Seq(Rd)]
      /\ ring'[pass.at] = Processed /\ \A i \in Index \ {pass.at} : ring'[i] = ring[i]
      /\ ring' \in [Index -> Rd \cup {Processed}]
  <2> HIDE DEF r
  <2> QED
    BY <1>2, <1>3, <1>4, <1>5, <1>6
<1>8. /\ pass' \in [running : BOOLEAN, at : Index, end : Index, blocked : BOOLEAN]
      /\ pass'.at = Wrap(pass.at + 1) /\ pass'.end = pass.end /\ pass'.running
      /\ pass'.blocked = pass.blocked
  BY <1>2, <1>4, <1>5 DEF Step, PassGoesOn
<1>9. TypeOK'
  <2>1. Len(fifo'[t]) <= FifoSize
    <3>1. Len(fifo'[t]) = c + 1
      BY <1>6, <1>7
    <3> HIDE DEF c
    <3> QED
      BY <1>2, <1>5, <1>6, <3>1
  <2>2. \A u \in Thread : Len(fifo'[u]) <= FifoSize
    BY <1>5, <1>7, <2>1
  <2> QED
    BY <1>1, <1>2, <1>7, <1>8, <2>2 DEF TypeOK
<1>10. /\ Occupied' = Occupied /\ (\A k : Slot(k)' = Slot(k)) /\ (\A i : Offset(i)' = Offset(i))
  BY <1>2 DEF Occupied, Slot, Offset
<1>11. \A k \in 0 .. RingSize - 1 : Slot(k) \in Index /\ (k # a => Slot(k) # pass.at)
  BY <1>b, <1>5, SlotFacts
<1>12. \A k \in 0 .. Occupied - 1 : k \in 0 .. RingSize - 1
  BY <1>5
<1>13. /\ ring'[Slot(a)] = Processed
       /\ \A k \in 0 .. Occupied - 1 : k # a => ring'[Slot(k)] = ring[Slot(k)]
  BY <1>4, <1>7, <1>11, <1>12
<1>14. PassOK'
  <2>1. Offset(pass.at)' = a + 1 /\ Offset(pass.end)' = Offset(pass.end)
    <3>2. Offset(pass.at)' = a + 1
      BY <1>2, <1>4, <1>8 DEF Offset
    <3> QED
      BY <1>2, <1>8, <3>2 DEF Offset
  <2>2. Offset(pass.end) \in Nat
    BY <1>4, <1>5, SlotFacts
  <2>3. \A k \in 0 .. a - 1 : ring[Slot(k)] # Processed => pass.blocked /\ ring[Slot(k)].thread \in skip
    BY <1>b, <1>1, <1>2 DEF PassOK, PassGoesOn
  <2>4. Offset(pass.at)' <= Offset(pass.end)' /\ Offset(pass.end)' <= Occupied'
    BY <1>4, <1>5, <1>10, <2>1, <2>2
  <2>5. \A k \in 0 .. (a + 1) - 1 : k = a \/ (k \in 0 .. a - 1 /\ k \in 0 .. Occupied - 1)
    BY <1>4, <1>5
  <2>6. \A k \in 0 .. (a + 1) - 1 : ring'[Slot(k)] # Processed =>
            pass'.blocked /\ ring'[Slot(k)].thread \in skip'
    <3> SUFFICES ASSUME NEW k \in 0 .. (a + 1) - 1, ring'[Slot(k)] # Processed
                 PROVE  pass'.blocked /\ ring'[Slot(k)].thread \in skip'
      OBVIOUS
    <3>1. k # a /\ k \in 0 .. a - 1 /\ k \in 0 .. Occupied - 1
      BY <1>13, <2>5
    <3>2. a \notin 0 .. a - 1
      BY <1>4
    <3> QED
      BY <1>2, <1>8, <1>13, <2>3, <3>1, <3>2
  <2> QED
    BY <1>10, <2>1, <2>4, <2>6 DEF PassOK
<1>15. ASSUME NEW u \in Thread \ {t} PROVE ReadInOrderOnce(u)'
  <2>1. ring[Slot(a)].thread # u
    BY <1>a, <1>4 DEF Current
  <2>2. a \notin Uncopied(u)
    BY <2>1 DEF Uncopied
  <2>3. Uncopied(u)' = Uncopied(u)
    BY <1>10, <1>13, <2>1 DEF Uncopied
  <2>4. \A k \in Uncopied(u) : ring'[Slot(k)] = ring[Slot(k)]
    BY <1>13, <2>2 DEF Uncopied
  <2> QED
    BY <1>1, <1>2, <1>7, <2>3, <2>4, OrderSame
<1>16. ReadInOrderOnce(t)'
  <2> DEFINE number(k) == Ahead(t, ring[Slot(k)].seq)
             T == Uncopied(t)
  <2>1. /\ c <= d
        /\ \A i \in 1 .. c : Ahead(t, fifo[t][i].seq) = i
        /\ \A k \in T : number(k) \in c + 1 .. d
        /\ \A k, l \in T : k < l => number(k) < number(l)
        /\ \A n \in c + 1 .. d : \E k \in T : number(k) = n
    BY <1>1, <1>3 DEF ReadInOrderOnce
  <2>2. Uncopied(t)' = T \ {a}
    <3>1. T \subseteq 0 .. Occupied - 1
      BY DEF Uncopied
    <3>2. Uncopied(t)' = {k \in 0 .. Occupied - 1 : ring'[Slot(k)] # Processed /\ ring'[Slot(k)].thread = t}
      BY <1>10 DEF Uncopied
    <3> QED
      BY <1>13, <3>1, <3>2 DEF Uncopied
  <2>3. \A k \in T \ {a} : ring'[Slot(k)] = ring[Slot(k)]
    BY <1>13 DEF Uncopied
  <2>4. d \in Nat
    <3>1. got[t] \in 0 .. SeqMod - 1 /\ sent[t] \in 0 .. SeqMod - 1
      BY <1>1, <1>3, Types
    <3> QED
      BY <1>3, <3>1, AheadFacts, Sizes
  <2>5. T \subseteq Nat /\ a \in T /\ number(a) = c + 1
    BY <1>3, <1>5 DEF Uncopied
  <2>6. \A i \in 1 .. c + 1 : Ahead(t, (fifo'[t])[i].seq) = i
    <3> SUFFICES ASSUME NEW i \in 1 .. c + 1 PROVE Ahead(t, (fifo'[t])[i].seq) = i
      OBVIOUS
    <3>1. i \in 1 .. c \/ i = c + 1
      <4> HIDE DEF c
      <4> QED
        BY <1>6
    <3>2. CASE i \in 1 .. c
      BY <1>6, <1>7, <2>1, <3>2
    <3>3. CASE i = c + 1
      <4>1. (fifo'[t])[i] = ring[Slot(a)]
        BY <1>4, <1>5, <1>6, <1>7, <3>3
      <4> QED
        BY <1>3, <3>3, <4>1
    <3> QED
      BY <3>1, <3>2, <3>3
  <2> HIDE DEF number, c, d, T
  <2>7. \A k \in T \ {a} : number(k) \in (c + 1) + 1 .. d
    <3> SUFFICES ASSUME NEW k \in T \ {a} PROVE number(k) \in (c + 1) + 1 .. d
      OBVIOUS
    <3>1. number(k) \in c + 1 .. d /\ k \in Nat /\ a \in Nat /\ k # a
      BY <2>1, <2>5
    <3>2. a < k \/ k < a
      BY <3>1
    <3>3. number(k) # c + 1
      <4>1. ASSUME a < k PROVE number(k) # c + 1
        <5>1. c + 1 < number(k)
          BY <2>1, <2>5, <4>1
        <5> QED
          BY <1>6, <3>1, <5>1
      <4>2. ASSUME k < a PROVE FALSE
        <5>1. number(k) < c + 1
          BY <2>1, <2>5, <4>2
        <5> QED
          BY <1>6, <2>4, <3>1, <5>1
      <4> QED
        BY <3>2, <4>1, <4>2
    <3> QED
      BY <1>6, <2>4, <3>1, <3>3
  <2>8. \A n \in (c + 1) + 1 .. d : \E k \in T \ {a} : number(k) = n
    <3> SUFFICES ASSUME NEW n \in (c + 1) + 1 .. d PROVE \E k \in T \ {a} : number(k) = n
      OBVIOUS
    <3>1. n \in c + 1 .. d /\ n # c + 1
      BY <1>6, <2>4
    <3> QED
      BY <2>1, <2>5, <3>1
  <2>9. c + 1 <= d
    BY <1>6, <2>1, <2>4, <2>5
  <2>10. Len(fifo'[t]) = c + 1 /\ Ahead(t, sent[t])' = d
    BY <1>2, <1>6, <1>7 DEF Ahead, c, d
  <2>11. \A k \in T \ {a} : Ahead(t, ring[Slot(k)].seq)' = number(k)
    BY <1>2, <1>10, <2>3 DEF Ahead, number
  <2>12. \A i \in 1 .. c + 1 : Ahead(t, fifo[t][i].seq)' = i
    BY <1>2, <2>6 DEF Ahead
  <2>13. \A k, l \in T \ {a} : k < l => number(k) < number(l)
    BY <2>1
  <2> QED
    BY <2>2, <2>7, <2>8, <2>9, <2>10, <2>11, <2>12, <2>13 DEF ReadInOrderOnce
<1> QED
  BY <1>9, <1>14, <1>15, <1>16 DEF OutputInv, DeliveredInOrderOnce

(* The device has room for one more number. *)
LEMMA SendFacts ==
  ASSUME OutputInv, NEW t \in Thread, Send(t)
  PROVE  /\ Occupied < RingSize - 1 /\ Occupied' = Occupied + 1
         /\ Slot(Occupied) = wrt /\ Wrap(wrt + 1) \in Index
         /\ sent'[t] \in 0 .. SeqMod - 1
         /\ Ahead(t, sent[t]) \in Nat /\ Ahead(t, sent'[t]) = Ahead(t, sent[t]) + 1
<1>1. TypeOK /\ ReadInOrderOnce(t)
  BY DEF OutputInv, DeliveredInOrderOnce
<1>2. /\ rd \in Index /\ wrt \in Index /\ Occupied \in 0 .. RingSize - 1 /\ Occupied = Offset(wrt)
      /\ sent[t] \in 0 .. SeqMod - 1 /\ got[t] \in 0 .. SeqMod - 1
      /\ Len(fifo[t]) \in Nat /\ Len(fifo[t]) <= FifoSize
  BY <1>1, Types
<1>3. /\ Wrap(wrt + 1) # rd /\ wrt' = Wrap(wrt + 1) /\ rd' = rd
      /\ sent' = [sent EXCEPT ![t] = (sent[t] + 1) % SeqMod] /\ sent \in [Thread -> 0 .. SeqMod - 1]
  BY <1>1 DEF Send, RingFull, TypeOK
<1>4. /\ Occupied < RingSize - 1 /\ Occupied' = Occupied + 1
      /\ Slot(Occupied) = wrt /\ Wrap(wrt + 1) \in Index
  BY <1>2, <1>3, RingGrows
<1>8. Ahead(t, sent[t]) <= Len(fifo[t]) + Occupied
  BY <1>1, UnreadBound
<1>9. Ahead(t, sent[t]) \in 0 .. SeqMod - 1
  BY <1>2, AheadFacts
<1>10. Ahead(t, sent[t]) < SeqMod - 1 /\ Ahead(t, sent[t]) \in Nat
  BY <1>2, <1>4, <1>8, <1>9, Sizes
<1>11. sent'[t] = (sent[t] + 1) % SeqMod
  BY <1>3
<1> QED
  BY <1>2, <1>4, <1>10, <1>11, NextAhead

(* A new RD is the last one of its thread. *)
LEMMA SendKeeps ==
  ASSUME OutputInv, NEW t \in Thread, Send(t)
  PROVE  OutputInv'
<1>1. TypeOK /\ PassOK /\ \A u \in Thread : ReadInOrderOnce(u)
  BY DEF OutputInv, DeliveredInOrderOnce
<1> DEFINE x == [thread |-> t, seq |-> sent'[t]]
<1>2. /\ ring' = [ring EXCEPT ![wrt] = x] /\ wrt' = Wrap(wrt + 1)
      /\ sent' = [sent EXCEPT ![t] = (sent[t] + 1) % SeqMod]
      /\ UNCHANGED <<rd, fifo, skip, pass, got>>
  BY DEF Send
<1>3. PICK o \in Nat : o = Occupied
  BY <1>1, Types, Sizes
<1>4. /\ o < RingSize - 1 /\ Occupied' = o + 1 /\ Slot(o) = wrt /\ Wrap(wrt + 1) \in Index
      /\ sent'[t] \in 0 .. SeqMod - 1
      /\ Ahead(t, sent[t]) \in Nat /\ Ahead(t, sent'[t]) = Ahead(t, sent[t]) + 1
  BY <1>3, SendFacts
<1>5. /\ ring \in [Index -> Rd \cup {Processed}] /\ rd \in Index /\ wrt \in Index
      /\ RingSize \in Nat /\ sent \in [Thread -> 0 .. SeqMod - 1]
  BY <1>1, Sizes DEF TypeOK
<1>6. x \in Rd /\ x # Processed /\ x.thread = t /\ x.seq = sent'[t]
  <2>1. x \in Rd
    BY <1>4 DEF Rd
  <2> QED
    BY <2>1, Marked
<1> HIDE DEF x
<1>7. /\ ring' \in [Index -> Rd \cup {Processed}] /\ ring'[wrt] = x
      /\ \A i \in Index \ {wrt} : ring'[i] = ring[i]
      /\ sent' \in [Thread -> 0 .. SeqMod - 1] /\ \A u \in Thread \ {t} : sent'[u] = sent[u]
  BY <1>2, <1>4, <1>5, <1>6
<1>8. TypeOK'
  BY <1>1, <1>2, <1>4, <1>7 DEF TypeOK
<1>9. (\A k : Slot(k)' = Slot(k)) /\ (\A i : Offset(i)' = Offset(i))
  BY <1>2 DEF Slot, Offset
<1>10. \A k \in 0 .. o - 1 : Slot(k) \in Index /\ Slot(k) # wrt
  <2>1. \A k \in 0 .. o - 1 : k \in 0 .. RingSize - 1 /\ k # o
    BY <1>4, <1>5
  <2>2. o \in 0 .. RingSize - 1
    BY <1>4, <1>5
  <2> QED
    BY <1>4, <1>5, <2>1, <2>2, SlotFacts
<1>11. ring'[Slot(o)] = x /\ \A k \in 0 .. o - 1 : ring'[Slot(k)] = ring[Slot(k)]
  BY <1>4, <1>7, <1>10
<1>12. PassOK'
  <2> SUFFICES ASSUME pass'.running
               PROVE  /\ Offset(pass.at)' <= Offset(pass.end)' /\ Offset(pass.end)' <= Occupied'
                      /\ \A k \in 0 .. Offset(pass.at)' - 1 : ring'[Slot(k)'] # Processed =>
                            pass'.blocked /\ ring'[Slot(k)'].thread \in skip'
    BY DEF PassOK
  <2> DEFINE a == Offset(pass.at)
             e == Offset(pass.end)
  <2>1. /\ a <= e /\ e <= o
        /\ \A k \in 0 .. a - 1 : ring[Slot(k)] # Processed =>
              pass.blocked /\ ring[Slot(k)].thread \in skip
    BY <1>1, <1>2, <1>3 DEF PassOK
  <2>2. Offset(pass.at)' = a /\ Offset(pass.end)' = e
    BY <1>2 DEF Offset
  <2>3. a \in Nat /\ e \in Nat
    BY <1>1, <1>5, Types, SlotFacts
  <2> HIDE DEF a, e
  <2>4. a <= e /\ e <= o + 1 /\ \A k \in 0 .. a - 1 : k \in 0 .. o - 1
    BY <2>1, <2>3
  <2> QED
    BY <1>2, <1>4, <1>9, <1>11, <2>1, <2>2, <2>4
<1>13. \A u \in Thread : Uncopied(u) = {k \in 0 .. o - 1 : ring[Slot(k)] # Processed /\ ring[Slot(k)].thread = u}
  BY <1>3 DEF Uncopied
<1>14. \A u \in Thread : Uncopied(u)' =
          {k \in 0 .. (o + 1) - 1 : ring'[Slot(k)] # Processed /\ ring'[Slot(k)].thread = u}
  BY <1>4, <1>9 DEF Uncopied
<1>15. 0 .. (o + 1) - 1 = (0 .. o - 1) \cup {o} /\ o \notin 0 .. o - 1
  OBVIOUS
<1>16. ASSUME NEW u \in Thread \ {t} PROVE ReadInOrderOnce(u)'
  <2>1. Uncopied(u)' = Uncopied(u)
    <3>1. u # t /\ ~(ring'[Slot(o)] # Processed /\ ring'[Slot(o)].thread = u)
      BY <1>6, <1>11
    <3>2. \A k : k \in Uncopied(u)' <=> k \in Uncopied(u)
      BY <1>11, <1>13, <1>14, <1>15, <3>1
    <3> QED
      BY <3>2, <1>13, <1>14
  <2>2. \A k \in Uncopied(u) : ring'[Slot(k)] = ring[Slot(k)]
    BY <1>11, <1>13
  <2> QED
    BY <1>1, <1>2, <1>7, <2>1, <2>2, OrderSame
<1>17. ReadInOrderOnce(t)'
  <2> DEFINE number(k) == Ahead(t, ring[Slot(k)].seq)
             T == Uncopied(t)
             c == Len(fifo[t])
             d == Ahead(t, sent[t])
             after(k) == Ahead(t, ring'[Slot(k)].seq)
  <2>1. /\ c <= d
        /\ \A i \in 1 .. c : Ahead(t, fifo[t][i].seq) = i
        /\ \A k \in T : number(k) \in c + 1 .. d
        /\ \A k, l \in T : k < l => number(k) < number(l)
        /\ \A n \in c + 1 .. d : \E k \in T : number(k) = n
    BY <1>1 DEF ReadInOrderOnce
  <2>2. Uncopied(t)' = T \cup {o}
    <3>1. ring'[Slot(o)] # Processed /\ ring'[Slot(o)].thread = t
      BY <1>6, <1>11
    <3>2. \A k : k \in Uncopied(t)' <=> k \in Uncopied(t) \/ k = o
      BY <1>11, <1>13, <1>14, <1>15, <3>1
    <3> QED
      BY <3>2, <1>13, <1>14
  <2>3. c \in Nat /\ d \in Nat
    BY <1>1, <1>4, Types
  <2>4. \A k \in T : k \in Nat /\ k < o
    BY <1>13
  <2>5. after(o) = d + 1 /\ \A k \in T : after(k) = number(k)
    BY <1>4, <1>6, <1>11, <1>13
  <2>6. /\ Len(fifo'[t]) = c /\ Ahead(t, sent[t])' = d + 1
        /\ \A i : Ahead(t, fifo[t][i].seq)' = Ahead(t, fifo[t][i].seq)
        /\ \A k : Ahead(t, ring[Slot(k)].seq)' = after(k)
    BY <1>2, <1>4, <1>9 DEF Ahead
  <2> HIDE DEF number, T, c, d, after
  <2>7. \A k \in T \cup {o} : after(k) \in c + 1 .. d + 1
    BY <2>1, <2>3, <2>5
  <2>8. \A k, l \in T \cup {o} : k < l => after(k) < after(l)
    <3> SUFFICES ASSUME NEW k \in T \cup {o}, NEW l \in T \cup {o}, k < l PROVE after(k) < after(l)
      OBVIOUS
    <3>1. CASE k \in T /\ l \in T
      BY <2>1, <2>5, <3>1
    <3>2. CASE k \in T /\ l = o
      <4>1. number(k) \in c + 1 .. d
        BY <2>1, <3>2
      <4> QED
        BY <2>3, <2>5, <3>2, <4>1
    <3>3. k # o
      BY <1>3, <2>4
    <3> QED
      BY <3>1, <3>2, <3>3
  <2>9. \A n \in c + 1 .. d + 1 : \E k \in T \cup {o} : after(k) = n
    <3>1. \A n \in c + 1 .. d + 1 : n \in c + 1 .. d \/ n = d + 1
      BY <2>3
    <3> QED
      BY <2>1, <2>5, <3>1
  <2>10. c <= d + 1 /\ \A i \in 1 .. c : Ahead(t, fifo[t][i].seq)' = i
    BY <2>1, <2>3, <2>6 DEF c
  <2> QED
    BY <2>2, <2>6, <2>7, <2>8, <2>9, <2>10 DEF ReadInOrderOnce
<1> QED
  BY <1>8, <1>12, <1>16, <1>17 DEF OutputInv, DeliveredInOrderOnce

LEMMA StutterKeeps ==
  ASSUME OutputInv, UNCHANGED vars
  PROVE  OutputInv'
<1>1. /\ UNCHANGED <<ring, wrt, rd, fifo, sent, got>> /\ skip' = skip /\ pass' = pass
  BY DEF vars
<1>2. /\ skip \subseteq Thread
      /\ pass \in [running : BOOLEAN, at : Index, end : Index, blocked : BOOLEAN] /\ PassOK
  BY DEF OutputInv, DeliveredInOrderOnce, TypeOK
<1>3. PassOK'
  BY <1>1, <1>2, RingSame DEF PassOK
<1> QED
  BY <1>1, <1>2, <1>3, LookKeeps

(* "All RD's must be delivered in order": for any number of threads and    *)
(* any size of the ring and the FIFOs, what is in a thread's FIFO and      *)
(* unmarked in the ring are the results the thread has not read, each once *)
(* and in order, however its reading interleaves with nlm_manage_output.   *)
THEOREM AllDeliveredInOrder == Spec => []DeliveredInOrderOnce
<1>1. Init => OutputInv
  BY InitInv
<1>2. OutputInv /\ [Next]_vars => OutputInv'
  BY BeginKeeps, PassProcessedKeeps, SkipKeeps, MeetFullKeeps, CopyKeeps, EndKeeps, SendKeeps,
     ReadKeeps, StutterKeeps DEF Next, Manage
<1>3. OutputInv => DeliveredInOrderOnce
  BY DEF OutputInv
<1> QED
  BY <1>1, <1>2, <1>3, PTL DEF Spec

-----------------------------------------------------------------------------
(* DirectOutput.  An RD with a result that thread t has not got, and the   *)
(* places of these RDs between the pointers.                               *)
Wanted(r, t) == r # Processed /\ r.thread = t /\ r.kind # "stray"

Missing(t) == {k \in 0 .. Occupied - 1 : Wanted(ring[Slot(k)], t)}

NumberOf(t) == [k \in Int |-> Ahead(t, ring[Slot(k)].seq)]

Behind(t) == Ahead(t, sent[t])

(* The scan has left behind only RDs nobody needs, and other threads' RDs  *)
(* if it remembers that.                                                   *)
ScanOK ==
    scan.by # None =>
        /\ Offset(scan.at) <= Offset(scan.end) /\ Offset(scan.end) <= Occupied
        /\ \A k \in 0 .. Offset(scan.at) - 1 : ring[Slot(k)] # Processed =>
              IF ring[Slot(k)].thread = scan.by THEN ring[Slot(k)].kind = "stray"
              ELSE scan.blocked

DirectInv ==
    /\ DirectTypeOK
    /\ \A t \in Thread : Numbered(Missing(t), NumberOf(t), Behind(t))
    /\ ScanOK

LEMMA DSizes ==
  /\ RingSize \in Nat \ {0} /\ RingSize > 1 /\ SeqMod \in Nat \ {0} /\ SeqMod > 1
  /\ SeqMod >= RingSize /\ MaxRoom \in Nat /\ None \notin Thread
BY RingAssumption, OutputAssumption

(* An RD is not a marked one. *)
LEMMA DMarked == Processed \notin FlowRd
<1>1. "thread" \notin DOMAIN Processed
  BY DEF Processed
<1>2. \A r \in FlowRd : "thread" \in DOMAIN r
  BY DEF FlowRd
<1> QED
  BY <1>1, <1>2

LEMMA DTypes ==
  ASSUME DirectTypeOK
  PROVE  /\ ring \in [Index -> FlowRd \cup {Processed}] /\ wrt \in Index /\ rd \in Index
         /\ Occupied \in 0 .. RingSize - 1 /\ Occupied \in Nat /\ Occupied = Offset(wrt)
         /\ scan \in [by : Thread \cup {None}, at : Index, end : Index,
                      room : 0 .. MaxRoom, blocked : BOOLEAN]
         /\ scan.at \in Index /\ scan.end \in Index
         /\ \A i \in Index : ring[i] # Processed =>
               ring[i] \in FlowRd /\ ring[i].thread \in Thread /\ ring[i].seq \in 0 .. SeqMod - 1
         /\ \A t \in Thread : sent[t] \in 0 .. SeqMod - 1 /\ got[t] \in 0 .. SeqMod - 1
         /\ sent \in [Thread -> 0 .. SeqMod - 1] /\ got \in [Thread -> 0 .. SeqMod - 1]
<1>1. /\ ring \in [Index -> FlowRd \cup {Processed}] /\ wrt \in Index /\ rd \in Index
      /\ scan \in [by : Thread \cup {None}, at : Index, end : Index,
                   room : 0 .. MaxRoom, blocked : BOOLEAN]
      /\ sent \in [Thread -> 0 .. SeqMod - 1] /\ got \in [Thread -> 0 .. SeqMod - 1]
  BY DEF DirectTypeOK
<1>2. scan.at \in Index /\ scan.end \in Index
  BY <1>1
<1>3. Occupied = Offset(wrt) /\ Occupied \in 0 .. RingSize - 1
  BY <1>1, SlotFacts DEF Occupied, Offset
<1>4. \A r \in FlowRd : r.thread \in Thread /\ r.seq \in 0 .. SeqMod - 1
  BY DEF FlowRd
<1>5. \A i \in Index : ring[i] # Processed => ring[i] \in FlowRd
  BY <1>1
<1>6. Occupied \in Nat
  BY <1>3, DSizes
<1> QED
  BY <1>1, <1>2, <1>3, <1>4, <1>5, <1>6

(* The numbers of thread t. *)
LEMMA DNumbers ==
  ASSUME DirectTypeOK, NEW t \in Thread
  PROVE  /\ Behind(t) \in Nat /\ Behind(t) < SeqMod
         /\ Missing(t) \in SUBSET Int
         /\ \A k \in Missing(t) : /\ k \in 0 .. Occupied - 1 /\ k \in 0 .. RingSize - 1
                                  /\ Slot(k) \in Index /\ ring[Slot(k)].seq \in 0 .. SeqMod - 1
<1>1. Behind(t) \in Nat /\ Behind(t) < SeqMod
  <2>1. /\ sent[t] \in 0 .. SeqMod - 1 /\ got[t] \in 0 .. SeqMod - 1
        /\ SeqMod \in Nat \ {0}
    BY DTypes, DSizes
  <2>2. Behind(t) = IF sent[t] >= got[t] THEN sent[t] - got[t] ELSE sent[t] - got[t] + SeqMod
    BY <2>1, Distance DEF Behind, Ahead
  <2> QED
    BY <2>1, <2>2
<1>2. Occupied \in 0 .. RingSize - 1 /\ RingSize \in Nat /\ rd \in Index
  BY DTypes, DSizes
<1>3. \A k \in 0 .. Occupied - 1 : k \in 0 .. RingSize - 1 /\ k \in Int
  BY <1>2
<1>4. \A k \in Missing(t) : k \in 0 .. Occupied - 1 /\ ring[Slot(k)] # Processed
  BY DEF Missing, Wanted
<1> QED
  BY <1>1, <1>2, <1>3, <1>4, DTypes, SlotFacts

(* A step that leaves a thread's numbers, and the RDs of the thread where  *)
(* they were or a distance further, keeps the thread's order.              *)
LEMMA DKept ==
  ASSUME DirectTypeOK, NEW t \in Thread,
         Numbered(Missing(t), NumberOf(t), Behind(t)),
         sent'[t] = sent[t], got'[t] = got[t], NEW a \in Int, Missing(t)' \subseteq Int,
         \A k \in Missing(t)' : a + k \in Missing(t) /\ (ring[Slot(k)].seq)' = ring[Slot(a + k)].seq,
         \A k \in Missing(t) : k - a \in Missing(t)'
  PROVE  Numbered(Missing(t), NumberOf(t), Behind(t))'
<1>1. Behind(t) \in Nat /\ Missing(t) \in SUBSET Int
  BY DNumbers
<1>2. Behind(t)' = Behind(t)
  BY DEF Behind, Ahead
<1>3. \A k \in Missing(t)' : NumberOf(t)'[k] = NumberOf(t)[a + k]
  <2>1. \A k \in Missing(t)' : k \in Int /\ a + k \in Int
    BY <1>1
  <2> QED
    BY <2>1 DEF NumberOf, Ahead
<1>4. Numbered(Missing(t)', NumberOf(t)', Behind(t))
  BY <1>1, <1>3, Shifted
<1> QED
  BY <1>2, <1>4 DEF Numbered

(* The same, where the RDs of the thread stay in their places. *)
LEMMA DKeptInPlace ==
  ASSUME DirectTypeOK, NEW t \in Thread,
         Numbered(Missing(t), NumberOf(t), Behind(t)),
         sent'[t] = sent[t], got'[t] = got[t], rd' = rd, Missing(t)' = Missing(t),
         \A k \in Missing(t) : ring'[Slot(k)] = ring[Slot(k)]
  PROVE  Numbered(Missing(t), NumberOf(t), Behind(t))'
<1>1. Missing(t) \subseteq Int
  BY DNumbers
<1>2. \A k \in Missing(t)' : 0 + k \in Missing(t) /\ (ring[Slot(k)].seq)' = ring[Slot(0 + k)].seq
  BY <1>1 DEF Slot
<1>3. \A k \in Missing(t) : k - 0 \in Missing(t)'
  BY <1>1
<1> QED
  BY <1>1, <1>2, <1>3, DKept

(* Steps that leave the ring and the numbers alone. *)
LEMMA DLook ==
  ASSUME DirectInv, UNCHANGED <<ring, wrt, rd, sent, got>>,
         DirectTypeOK', ScanOK'
  PROVE  DirectInv'
<1>1. DirectTypeOK /\ \A t \in Thread : Numbered(Missing(t), NumberOf(t), Behind(t))
  BY DEF DirectInv
<1>2. \A t : Missing(t)' = Missing(t) /\ NumberOf(t)' = NumberOf(t) /\ Behind(t)' = Behind(t)
  BY DEF Missing, NumberOf, Behind, Occupied, Slot, Ahead
<1>3. \A t \in Thread : Numbered(Missing(t), NumberOf(t), Behind(t))'
  BY <1>1, <1>2 DEF Numbered
<1> QED
  BY <1>3 DEF DirectInv

LEMMA DInit ==
  ASSUME DirectInit
  PROVE  DirectInv
<1>1. /\ ring = [i \in Index |-> Processed] /\ wrt = 0 /\ rd = 0 /\ scan = NoScan
      /\ flow = [t \in Thread |-> [live |-> TRUE, errored |-> FALSE]]
      /\ search = [t \in Thread |-> "running"]
      /\ sent = [t \in Thread |-> 0] /\ got = [t \in Thread |-> 0]
  BY DEF DirectInit
<1>2. 0 \in Index /\ 0 \in 0 .. SeqMod - 1 /\ 0 \in 0 .. MaxRoom
  BY DSizes DEF Index
<1>3. DirectTypeOK
  <2>1. scan \in [by : Thread \cup {None}, at : Index, end : Index,
                  room : 0 .. MaxRoom, blocked : BOOLEAN]
    BY <1>1, <1>2 DEF NoScan
  <2> QED
    BY <1>1, <1>2, <2>1 DEF DirectTypeOK
<1>4. Occupied = 0
  BY <1>1, <1>3, DTypes, SlotFacts
<1>5. ASSUME NEW t \in Thread PROVE Numbered(Missing(t), NumberOf(t), Behind(t))
  <2>1. Missing(t) = {}
    BY <1>4 DEF Missing
  <2>2. Behind(t) = 0
    <3>1. sent[t] = 0 /\ got[t] = 0 /\ 0 % SeqMod = 0
      BY <1>1, DSizes, ModBelow
    <3> QED
      BY <3>1 DEF Behind, Ahead
  <2> QED
    BY <2>1, <2>2 DEF Numbered
<1>6. ScanOK
  BY <1>1 DEF ScanOK, NoScan
<1> QED
  BY <1>3, <1>5, <1>6 DEF DirectInv

LEMMA DBegin ==
  ASSUME DirectInv, NEW t \in Thread, NEW room \in 1 .. MaxRoom,
         BeginScan(t, room)
  PROVE  DirectInv'
<1>1. DirectTypeOK /\ rd \in Index /\ wrt \in Index /\ Occupied = Offset(wrt) /\ Occupied \in Nat
  BY DTypes DEF DirectInv
<1>2. /\ scan' = [by |-> t, at |-> rd, end |-> wrt, room |-> room, blocked |-> FALSE]
      /\ UNCHANGED <<ring, wrt, rd, flow, search, sent, got>>
  BY DEF BeginScan
<1>3. scan'.at = rd /\ scan'.end = wrt /\ room \in 0 .. MaxRoom
  BY <1>2, DSizes
<1>4. Occupied' = Occupied /\ Offset(scan.at)' = 0 /\ Offset(scan.end)' = Occupied
  BY <1>1, <1>2, <1>3, SlotFacts DEF Occupied, Offset
<1>5. ScanOK'
  BY <1>1, <1>4 DEF ScanOK
<1>6. DirectTypeOK'
  <2>1. scan' \in [by : Thread \cup {None}, at : Index, end : Index,
                   room : 0 .. MaxRoom, blocked : BOOLEAN]
    BY <1>1, <1>2, <1>3
  <2> QED
    BY <1>1, <1>2, <2>1 DEF DirectTypeOK
<1> QED
  BY <1>2, <1>5, <1>6, DLook

(* Where the scan is. *)
LEMMA DAt ==
  ASSUME DirectInv, ScanGoesOn
  PROVE  /\ scan.by \in Thread
         /\ Offset(scan.at) \in Nat /\ Offset(scan.at) < Occupied /\ Offset(scan.at) < RingSize - 1
         /\ Offset(scan.at) < Offset(scan.end) /\ Offset(scan.end) <= Occupied
         /\ Offset(scan.end) \in Nat
         /\ Slot(Offset(scan.at)) = scan.at
         /\ Wrap(scan.at + 1) \in Index /\ Offset(Wrap(scan.at + 1)) = Offset(scan.at) + 1
<1>1. DirectTypeOK /\ ScanOK /\ scan.by # None /\ scan.at # scan.end
  BY DEF DirectInv, ScanGoesOn
<1>2. /\ scan.at \in Index /\ scan.end \in Index /\ rd \in Index /\ Occupied \in 0 .. RingSize - 1
      /\ scan.by \in Thread
  BY <1>1, DTypes
<1>3. /\ Offset(scan.at) \in 0 .. RingSize - 1 /\ Slot(Offset(scan.at)) = scan.at
      /\ Offset(scan.end) \in 0 .. RingSize - 1 /\ Slot(Offset(scan.end)) = scan.end
  BY <1>2, SlotFacts
<1>4. Offset(scan.at) <= Offset(scan.end) /\ Offset(scan.end) <= Occupied
  BY <1>1 DEF ScanOK
<1>5. Offset(scan.at) # Offset(scan.end)
  BY <1>1, <1>3
<1>6. /\ Offset(scan.at) \in Nat /\ Offset(scan.at) < Occupied /\ Offset(scan.at) < RingSize - 1
      /\ Offset(scan.at) < Offset(scan.end) /\ Offset(scan.end) \in Nat
  BY <1>2, <1>3, <1>4, <1>5, DSizes
<1>7. Wrap(scan.at + 1) \in Index /\ Offset(Wrap(scan.at + 1)) = Offset(scan.at) + 1
  BY <1>2, <1>6, StepFacts
<1> QED
  BY <1>2, <1>3, <1>4, <1>6, <1>7

(* The scan goes on from an RD that nobody needs, or that it remembers. *)
LEMMA DPass ==
  ASSUME DirectInv, ScanGoesOn,
         UNCHANGED <<ring, wrt, rd, flow, search, sent, got>>,
         scan' = ScanOn \/ scan' = [ScanOn EXCEPT !.blocked = TRUE],
         ScannedRd # Processed =>
            IF ScannedRd.thread = scan.by THEN ScannedRd.kind = "stray"
            ELSE scan' = [ScanOn EXCEPT !.blocked = TRUE]
  PROVE  DirectInv'
<1>1. PICK a \in Nat : a = Offset(scan.at)
  BY DAt
<1>2. /\ a < Offset(scan.end) /\ Offset(scan.end) <= Occupied /\ Offset(scan.end) \in Nat
      /\ Slot(a) = scan.at /\ Wrap(scan.at + 1) \in Index /\ Offset(Wrap(scan.at + 1)) = a + 1
  BY <1>1, DAt
<1>3. DirectTypeOK /\ ScanOK /\ scan.by # None
  BY DEF DirectInv, ScanGoesOn
<1>4. scan \in [by : Thread \cup {None}, at : Index, end : Index,
                room : 0 .. MaxRoom, blocked : BOOLEAN] /\ Occupied \in Nat
  BY <1>3, DTypes
<1>5. /\ scan' \in [by : Thread \cup {None}, at : Index, end : Index,
                    room : 0 .. MaxRoom, blocked : BOOLEAN]
      /\ scan'.at = Wrap(scan.at + 1) /\ scan'.end = scan.end /\ scan'.by = scan.by
      /\ scan.blocked => scan'.blocked
      /\ scan' = [ScanOn EXCEPT !.blocked = TRUE] => scan'.blocked
  BY <1>2, <1>4 DEF ScanOn
<1>6. DirectTypeOK'
  BY <1>3, <1>5 DEF DirectTypeOK
<1>8. Occupied' = Occupied /\ (\A k : Slot(k)' = Slot(k)) /\ (\A i : Offset(i)' = Offset(i))
  BY DEF Occupied, Slot, Offset
<1>9. Offset(scan.at)' = a + 1 /\ Offset(scan.end)' = Offset(scan.end)
  BY <1>2, <1>5 DEF Offset
<1>10. \A k \in 0 .. a : ring[Slot(k)] # Processed =>
          IF ring[Slot(k)].thread = scan.by THEN ring[Slot(k)].kind = "stray" ELSE scan'.blocked
  <2>1. \A k \in 0 .. a - 1 : ring[Slot(k)] # Processed =>
          IF ring[Slot(k)].thread = scan.by THEN ring[Slot(k)].kind = "stray" ELSE scan.blocked
    BY <1>1, <1>3 DEF ScanOK
  <2>2. ScannedRd = ring[Slot(a)]
    BY <1>2 DEF ScannedRd
  <2>3. \A k \in 0 .. a : k \in 0 .. a - 1 \/ k = a
    OBVIOUS
  <2> QED
    BY <1>5, <2>1, <2>2, <2>3
<1>11. ScanOK'
  <2>1. (a + 1) - 1 = a /\ a + 1 <= Offset(scan.end)
    BY <1>2
  <2> QED
    BY <1>2, <1>5, <1>8, <1>9, <1>10, <2>1 DEF ScanOK
<1> QED
  BY <1>6, <1>11, DLook

LEMMA DPassProcessed ==
  ASSUME DirectInv, ScanProcessed
  PROVE  DirectInv'
BY DPass DEF ScanProcessed

LEMMA DPassForeign ==
  ASSUME DirectInv, PassForeign
  PROVE  DirectInv'
BY DPass DEF PassForeign

LEMMA DIgnore ==
  ASSUME DirectInv, Ignore
  PROVE  DirectInv'
BY DPass DEF Ignore, Ignored

LEMMA DCreate ==
  ASSUME DirectInv, NEW t \in Thread, CreateFlow(t)
  PROVE  DirectInv'
<1>1. /\ flow' = [flow EXCEPT ![t] = [live |-> TRUE, errored |-> FALSE]]
      /\ search' = [search EXCEPT ![t] = "running"]
      /\ UNCHANGED <<ring, wrt, rd, scan, sent, got>>
  BY DEF CreateFlow
<1>2. DirectTypeOK'
  BY <1>1 DEF DirectTypeOK, DirectInv
<1>3. ScanOK'
  BY <1>1 DEF DirectInv, ScanOK, Occupied, Slot, Offset
<1> QED
  BY <1>1, <1>2, <1>3, DLook

LEMMA DStutter ==
  ASSUME DirectInv, UNCHANGED directVars
  PROVE  DirectInv'
<1>1. UNCHANGED <<ring, wrt, rd, scan, flow, search, sent, got>>
  BY DEF directVars
<1>2. DirectTypeOK'
  BY <1>1 DEF DirectTypeOK, DirectInv
<1>3. ScanOK'
  BY <1>1 DEF DirectInv, ScanOK, Occupied, Slot, Offset
<1> QED
  BY <1>1, <1>2, <1>3, DLook

(* The read pointer does not move past an RD somebody needs. *)
LEMMA DEnd ==
  ASSUME DirectInv, EndScan
  PROVE  DirectInv'
<1>1. DirectTypeOK /\ ScanOK /\ \A t \in Thread : Numbered(Missing(t), NumberOf(t), Behind(t))
  BY DEF DirectInv
<1>2. /\ scan.by # None /\ scan' = NoScan /\ rd' = IF scan.blocked THEN rd ELSE scan.at
      /\ UNCHANGED <<ring, wrt, flow, search, sent, got>>
  BY DEF EndScan
<1>3. /\ scan.at \in Index /\ scan.end \in Index /\ rd \in Index /\ wrt \in Index
      /\ Occupied \in 0 .. RingSize - 1 /\ Occupied \in Nat /\ RingSize \in Nat /\ 0 \in Index
      /\ 0 \in 0 .. MaxRoom
  BY <1>1, DTypes, DSizes DEF Index
<1>4. DirectTypeOK'
  <2>1. scan' \in [by : Thread \cup {None}, at : Index, end : Index,
                   room : 0 .. MaxRoom, blocked : BOOLEAN]
    BY <1>2, <1>3 DEF NoScan
  <2>2. rd' \in Index
    BY <1>2, <1>3
  <2> QED
    BY <1>1, <1>2, <2>1, <2>2 DEF DirectTypeOK
<1>5. ScanOK'
  BY <1>2 DEF ScanOK, NoScan
<1>6. CASE scan.blocked
  BY <1>2, <1>4, <1>5, <1>6, DLook
<1>7. CASE ~scan.blocked
  <2>1. PICK a \in Nat : a = Offset(scan.at)
    BY <1>3, SlotFacts, DSizes
  <2>2. a \in 0 .. RingSize - 1 /\ a <= Occupied
    <3>1. /\ Offset(scan.at) \in 0 .. RingSize - 1 /\ Offset(scan.end) \in 0 .. RingSize - 1
          /\ Offset(scan.at) <= Offset(scan.end) /\ Offset(scan.end) <= Occupied
      BY <1>1, <1>2, <1>3, SlotFacts DEF ScanOK
    <3> QED
      BY <1>3, <2>1, <3>1
  <2>3. Occupied' = Occupied - a /\ \A k \in 0 .. RingSize - 1 - a : Slot(k)' = Slot(a + k)
    BY <1>2, <1>3, <1>7, <2>1, <2>2, PointerMoves
  <2>4. \A t \in Thread, k \in 0 .. a - 1 : ~Wanted(ring[Slot(k)], t)
    <3>1. \A k \in 0 .. a - 1 : ring[Slot(k)] # Processed => ring[Slot(k)].kind = "stray"
      BY <1>1, <1>2, <1>7, <2>1 DEF ScanOK
    <3> QED
      BY <3>1 DEF Wanted
  <2>5. ASSUME NEW t \in Thread PROVE Numbered(Missing(t), NumberOf(t), Behind(t))'
    <3>1. \A k \in Missing(t) : k \in 0 .. Occupied - 1 /\ Wanted(ring[Slot(k)], t)
      BY DEF Missing
    <3>2. \A k \in Missing(t)' : k \in 0 .. (Occupied - a) - 1 /\ Wanted(ring[Slot(k)'], t)
      BY <1>2, <2>3 DEF Missing, Wanted
    <3>3. \A k \in 0 .. (Occupied - a) - 1 : /\ k \in 0 .. RingSize - 1 - a
                                             /\ a + k \in 0 .. Occupied - 1
      BY <1>3, <2>2
    <3>4. \A k \in Missing(t)' : a + k \in Missing(t) /\ (ring[Slot(k)].seq)' = ring[Slot(a + k)].seq
      BY <1>2, <2>3, <3>2, <3>3 DEF Missing
    <3>5. ASSUME NEW k \in Missing(t) PROVE k - a \in Missing(t)'
      <4>1. k \notin 0 .. a - 1
        BY <2>4, <3>1
      <4>2. k - a \in 0 .. (Occupied - a) - 1 /\ a + (k - a) = k
        BY <1>3, <2>2, <3>1, <4>1
      <4>3. Slot(k - a)' = Slot(k)
        BY <2>3, <3>3, <4>2
      <4> QED
        BY <1>2, <2>3, <3>1, <4>2, <4>3 DEF Missing, Wanted
    <3>6. Missing(t)' \subseteq Int
      BY <3>2
    <3> QED
      BY <1>1, <1>2, <3>4, <3>5, <3>6, DKept
  <2> QED
    BY <1>4, <1>5, <2>5 DEF DirectInv
<1> QED
  BY <1>6, <1>7

(* The RD that is delivered is the thread's first. *)
LEMMA DFirst ==
  ASSUME DirectInv, ScanGoesOn, ScannedRd # Processed,
         ScannedRd.thread = scan.by, ScannedRd.kind # "stray"
  PROVE  /\ Offset(scan.at) \in Missing(scan.by)
         /\ \A k \in Missing(scan.by) : Offset(scan.at) <= k
<1>1. PICK a \in Nat : a = Offset(scan.at)
  BY DAt
<1>2. a < Occupied /\ Slot(a) = scan.at /\ scan.by \in Thread
  BY <1>1, DAt
<1>3. DirectTypeOK /\ ScanOK /\ scan.by # None /\ Occupied \in Nat
  BY DTypes DEF DirectInv, ScanGoesOn
<1>4. a \in Missing(scan.by)
  <2>1. a \in 0 .. Occupied - 1
    BY <1>2, <1>3
  <2> QED
    BY <1>2, <2>1 DEF Missing, Wanted, ScannedRd
<1>5. ASSUME NEW k \in Missing(scan.by) PROVE a <= k
  <2>1. k \in Nat /\ Wanted(ring[Slot(k)], scan.by)
    BY <1>3 DEF Missing
  <2>2. k \notin 0 .. a - 1
    BY <1>1, <1>3, <2>1 DEF ScanOK, Wanted
  <2> QED
    BY <2>1, <2>2
<1> QED
  BY <1>1, <1>4, <1>5

(* What a delivery does to the ring, the scan and the number of its thread. *)
LEMMA DDeliverFacts ==
  ASSUME DirectInv, Deliver, NEW t \in Thread, t = scan.by,
         NEW a \in Nat, a = Offset(scan.at)
  PROVE  /\ a < Occupied /\ Slot(a) = scan.at /\ scan.at \in Index
         /\ ring' \in [Index -> FlowRd \cup {Processed}]
         /\ ring'[Slot(a)] = Processed
         /\ \A k \in 0 .. Occupied - 1 : k # a => ring'[Slot(k)] = ring[Slot(k)]
         /\ ring[Slot(a)] # Processed /\ ring[Slot(a)].thread = t
         /\ ring[Slot(a)].seq \in 0 .. SeqMod - 1
         /\ got' \in [Thread -> 0 .. SeqMod - 1]
         /\ got'[t] = IF ring[Slot(a)].kind = "stray" THEN got[t] ELSE ring[Slot(a)].seq
         /\ \A u \in Thread \ {t} : got'[u] = got[u]
         /\ UNCHANGED <<wrt, rd, search, sent>>
<1>1. /\ ScanGoesOn /\ ScannedRd # Processed /\ ScannedRd.thread = t
      /\ got' = [got EXCEPT ![t] = IF ScannedRd.kind = "stray" THEN @ ELSE ScannedRd.seq]
      /\ ring' = [ring EXCEPT ![scan.at] = Processed]
      /\ UNCHANGED <<wrt, rd, search, sent>>
  BY DEF Deliver
<1>2. a < Occupied /\ a < RingSize - 1 /\ Slot(a) = scan.at
  BY <1>1, DAt
<1>3. DirectTypeOK /\ ScannedRd = ring[Slot(a)]
  BY <1>2 DEF DirectInv, ScannedRd
<1>4. /\ ring \in [Index -> FlowRd \cup {Processed}] /\ rd \in Index /\ scan.at \in Index
      /\ Occupied \in 0 .. RingSize - 1 /\ got \in [Thread -> 0 .. SeqMod - 1]
      /\ RingSize \in Nat
  BY <1>3, DTypes, DSizes
<1>5. ring[Slot(a)].seq \in 0 .. SeqMod - 1
  BY <1>1, <1>2, <1>3, <1>4, DTypes
<1>6. /\ ring'[Slot(a)] = Processed /\ \A i \in Index \ {scan.at} : ring'[i] = ring[i]
      /\ ring' \in [Index -> FlowRd \cup {Processed}]
  BY <1>1, <1>2, <1>4
<1>7. ASSUME NEW k \in 0 .. Occupied - 1, k # a PROVE ring'[Slot(k)] = ring[Slot(k)]
  <2>1. k \in 0 .. RingSize - 1 /\ a \in 0 .. RingSize - 1
    BY <1>2, <1>4
  <2>2. Slot(k) \in Index /\ Slot(k) # scan.at
    BY <1>2, <1>4, <1>7, <2>1, SlotFacts
  <2> QED
    BY <1>6, <2>2
<1>8. /\ got'[t] = IF ScannedRd.kind = "stray" THEN got[t] ELSE ScannedRd.seq
      /\ \A u \in Thread \ {t} : got'[u] = got[u]
      /\ got' \in [Thread -> 0 .. SeqMod - 1]
  <2>1. (IF ScannedRd.kind = "stray" THEN got[t] ELSE ScannedRd.seq) \in 0 .. SeqMod - 1
    BY <1>3, <1>4, <1>5
  <2> QED
    BY <1>1, <1>4, <2>1
<1> QED
  BY <1>1, <1>2, <1>3, <1>4, <1>5, <1>6, <1>7, <1>8

LEMMA DDeliver ==
  ASSUME DirectInv, Deliver
  PROVE  DirectInv'
<1>a. ScanGoesOn /\ ScannedRd # Processed /\ ScannedRd.thread = scan.by
  BY DEF Deliver
<1>b. PICK t \in Thread : t = scan.by
  BY <1>a, DAt
<1>c. PICK a \in Nat : a = Offset(scan.at)
  BY <1>a, DAt
<1>1. DirectTypeOK /\ ScanOK /\ scan.by # None
      /\ \A u \in Thread : Numbered(Missing(u), NumberOf(u), Behind(u))
  BY <1>a DEF DirectInv, ScanGoesOn
<1>2. /\ a < Occupied /\ Slot(a) = scan.at /\ scan.at \in Index
      /\ ring' \in [Index -> FlowRd \cup {Processed}]
      /\ ring'[Slot(a)] = Processed
      /\ \A k \in 0 .. Occupied - 1 : k # a => ring'[Slot(k)] = ring[Slot(k)]
      /\ ring[Slot(a)] # Processed /\ ring[Slot(a)].thread = t
      /\ ring[Slot(a)].seq \in 0 .. SeqMod - 1
      /\ got' \in [Thread -> 0 .. SeqMod - 1]
      /\ got'[t] = IF ring[Slot(a)].kind = "stray" THEN got[t] ELSE ring[Slot(a)].seq
      /\ \A u \in Thread \ {t} : got'[u] = got[u]
      /\ UNCHANGED <<wrt, rd, search, sent>>
  BY <1>b, <1>c, DDeliverFacts
<1>3. Occupied' = Occupied /\ (\A k : Slot(k)' = Slot(k)) /\ (\A i : Offset(i)' = Offset(i))
      /\ Occupied \in Nat
  BY <1>1, <1>2, DTypes DEF Occupied, Slot, Offset
<1>4. /\ scan \in [by : Thread \cup {None}, at : Index, end : Index,
                   room : 0 .. MaxRoom, blocked : BOOLEAN]
      /\ a < Offset(scan.end) /\ Offset(scan.end) <= Occupied /\ Offset(scan.end) \in Nat
      /\ Wrap(scan.at + 1) \in Index /\ Offset(Wrap(scan.at + 1)) = a + 1 /\ scan.room > 0
  BY <1>a, <1>c, <1>1, DTypes, DAt DEF ScanGoesOn
<1>5. /\ scan' \in [by : Thread \cup {None}, at : Index, end : Index,
                    room : 0 .. MaxRoom, blocked : BOOLEAN]
      /\ scan'.by = scan.by /\ scan'.end = scan.end /\ scan'.blocked = scan.blocked
      /\ scan'.at = scan.at \/ scan'.at = Wrap(scan.at + 1)
  <2>1. scan.room - 1 \in 0 .. MaxRoom
    BY <1>4, DSizes
  <2>2. scan' = [scan EXCEPT !.room = @ - 1,
                             !.at = IF scan.room = 1 THEN @ ELSE Wrap(@ + 1)]
    BY DEF Deliver
  <2> QED
    BY <1>2, <1>4, <2>1, <2>2
<1>6. DirectTypeOK'
  <2>1. flow' \in [Thread -> [live : BOOLEAN, errored : BOOLEAN]]
    <3>1. /\ flow' = [flow EXCEPT ![scan.by] =
                        [live    |-> @.live /\ ScannedRd.kind # "end",
                         errored |-> @.errored \/ ScannedRd.kind = "error"]]
          /\ flow \in [Thread -> [live : BOOLEAN, errored : BOOLEAN]]
      BY <1>1 DEF Deliver, DirectTypeOK
    <3> QED
      BY <1>b, <3>1
  <2> QED
    BY <1>1, <1>2, <1>5, <2>1 DEF DirectTypeOK
<1>7. ScanOK'
  <2>1. PICK b \in Nat : b = Offset(scan.at)' /\ (b = a \/ b = a + 1)
    BY <1>c, <1>2, <1>4, <1>5 DEF Offset
  <2>2. b <= Offset(scan.end) /\ Offset(scan.end)' = Offset(scan.end)
    BY <1>2, <1>4, <1>5, <2>1 DEF Offset
  <2>3. ASSUME NEW k \in 0 .. b - 1, ring'[Slot(k)] # Processed
        PROVE  IF ring'[Slot(k)].thread = scan.by THEN ring'[Slot(k)].kind = "stray"
               ELSE scan.blocked
    <3>1. k # a /\ k \in 0 .. a - 1 /\ k \in 0 .. Occupied - 1
      <4>1. k # a
        BY <1>2, <2>3
      <4> QED
        BY <1>2, <1>3, <2>1, <4>1
    <3>2. ring'[Slot(k)] = ring[Slot(k)]
      BY <1>2, <3>1
    <3> QED
      BY <1>c, <1>1, <2>3, <3>1, <3>2 DEF ScanOK
  <2> QED
    BY <1>3, <1>4, <1>5, <2>1, <2>2, <2>3 DEF ScanOK
<1>8. \A u : Missing(u)' = Missing(u) \ {a}
  <2>1. \A u : Missing(u)' = {k \in 0 .. Occupied - 1 : Wanted(ring'[Slot(k)], u)}
    BY <1>3 DEF Missing, Wanted
  <2>2. \A k \in 0 .. Occupied - 1 : k # a => ring'[Slot(k)] = ring[Slot(k)]
    BY <1>2
  <2>3. \A u : ~Wanted(ring'[Slot(a)], u)
    BY <1>2 DEF Wanted
  <2> QED
    BY <2>1, <2>2, <2>3 DEF Missing
<1>9. \A u \in Thread : \A k \in Missing(u) \ {a} : ring'[Slot(k)] = ring[Slot(k)]
  BY <1>2 DEF Missing
<1>10. ASSUME NEW u \in Thread, a \notin Missing(u), got'[u] = got[u]
       PROVE  Numbered(Missing(u), NumberOf(u), Behind(u))'
  <2>1. Missing(u)' = Missing(u) /\ \A k \in Missing(u) : ring'[Slot(k)] = ring[Slot(k)]
    BY <1>8, <1>9, <1>10
  <2> QED
    BY <1>1, <1>2, <1>10, <2>1, DKeptInPlace
<1>11. ASSUME ring[Slot(a)].kind # "stray"
       PROVE  Numbered(Missing(t), NumberOf(t), Behind(t))'
  <2>1. a \in Missing(t) /\ \A k \in Missing(t) : a <= k
    BY <1>a, <1>b, <1>c, <1>2, <1>11, DFirst DEF ScannedRd
  <2>2. /\ Behind(t) \in Nat /\ Missing(t) \in SUBSET Int /\ sent[t] \in 0 .. SeqMod - 1
        /\ got[t] \in 0 .. SeqMod - 1 /\ SeqMod \in Nat \ {0} /\ SeqMod > 1
        /\ \A k \in Missing(t) : ring[Slot(k)].seq \in 0 .. SeqMod - 1
    BY <1>1, DNumbers, DTypes, DSizes
  <2>3. NumberOf(t)[a] = 1 /\ Behind(t) > 0 /\ \A k \in Missing(t) \ {a} : NumberOf(t)[k] \in 2 .. Behind(t)
    BY <1>1, <2>1, <2>2, FirstTaken
  <2>4. \A k \in Missing(t) : NumberOf(t)[k] = (ring[Slot(k)].seq - got[t]) % SeqMod
    BY <2>2 DEF NumberOf, Ahead
  <2>5. got'[t] \in 0 .. SeqMod - 1 /\ (got'[t] - got[t]) % SeqMod = 1
    BY <1>2, <1>11, <2>1, <2>3, <2>4
  <2>6. \A n \in 0 .. SeqMod - 1 : (n - got[t]) % SeqMod > 0 =>
           (n - got'[t]) % SeqMod = ((n - got[t]) % SeqMod) - 1
    BY <2>2, <2>5, TakeAway
  <2>7. Behind(t)' = Behind(t) - 1
    BY <1>2, <2>2, <2>3, <2>6 DEF Behind, Ahead
  <2>8. ASSUME NEW k \in Missing(t) \ {a} PROVE NumberOf(t)'[k] = NumberOf(t)[k] - 1
    <3>1. NumberOf(t)'[k] = (ring[Slot(k)].seq - got'[t]) % SeqMod
      <4>1. k \in Int /\ (ring[Slot(k)])' = ring[Slot(k)]
        BY <1>3, <1>9, <2>2
      <4> QED
        BY <4>1 DEF NumberOf, Ahead
    <3>2. NumberOf(t)[k] > 0
      BY <2>2, <2>3
    <3> QED
      BY <2>2, <2>4, <2>6, <3>1, <3>2
  <2> DEFINE S == Missing(t)
             f == NumberOf(t)
             g == NumberOf(t)'
  <2>9. /\ S \in SUBSET Int /\ Behind(t) \in Nat /\ Numbered(S, f, Behind(t))
        /\ a \in S /\ (\A k \in S : a <= k)
        /\ \A k \in S \ {a} : g[k] = f[k] - 1
    BY <1>1, <2>1, <2>2, <2>8
  <2> HIDE DEF S, f, g
  <2>10. Numbered(S \ {a}, g, Behind(t) - 1)
    BY <2>9, FirstRemoved
  <2> QED
    BY <1>8, <2>7, <2>10 DEF Numbered, S, g
<1>12. ASSUME NEW u \in Thread PROVE Numbered(Missing(u), NumberOf(u), Behind(u))'
  <2>1. CASE u # t
    <3>1. a \notin Missing(u)
      BY <1>2, <2>1 DEF Missing, Wanted
    <3> QED
      BY <1>2, <1>10, <2>1, <3>1
  <2>2. CASE u = t /\ ring[Slot(a)].kind = "stray"
    <3>1. a \notin Missing(u)
      BY <2>2 DEF Missing, Wanted
    <3> QED
      BY <1>2, <1>10, <2>2, <3>1
  <2> QED
    BY <1>11, <2>1, <2>2
<1> QED
  BY <1>6, <1>7, <1>12 DEF DirectInv

(* A new RD is the last one of its thread. *)
LEMMA DSendFacts ==
  ASSUME DirectInv, NEW t \in Thread, NEW kind \in Kind, Report(t, kind),
         NEW o \in Nat, o = Occupied
  PROVE  /\ o < RingSize - 1 /\ Occupied' = o + 1 /\ Slot(o) = wrt /\ wrt' \in Index
         /\ ring' \in [Index -> FlowRd \cup {Processed}]
         /\ ring'[Slot(o)] = [thread |-> t, seq |-> sent'[t], kind |-> kind]
         /\ ring'[Slot(o)] # Processed
         /\ \A k \in 0 .. o - 1 : ring'[Slot(k)] = ring[Slot(k)]
         /\ sent' \in [Thread -> 0 .. SeqMod - 1]
         /\ sent'[t] = IF kind = "stray" THEN sent[t] ELSE (sent[t] + 1) % SeqMod
         /\ \A u \in Thread \ {t} : sent'[u] = sent[u]
         /\ UNCHANGED <<rd, scan, flow, got>>
<1>1. /\ Wrap(wrt + 1) # rd /\ wrt' = Wrap(wrt + 1)
      /\ sent' = [sent EXCEPT ![t] = IF kind = "stray" THEN @ ELSE (@ + 1) % SeqMod]
      /\ ring' = [ring EXCEPT ![wrt] = [thread |-> t, seq |-> sent'[t], kind |-> kind]]
      /\ UNCHANGED <<rd, scan, flow, got>>
  BY DEF Report, RingFull
<1>2. /\ ring \in [Index -> FlowRd \cup {Processed}] /\ rd \in Index /\ wrt \in Index
      /\ sent \in [Thread -> 0 .. SeqMod - 1] /\ SeqMod \in Nat \ {0} /\ RingSize \in Nat
  BY DTypes, DSizes DEF DirectInv
<1>3. o < RingSize - 1 /\ Occupied' = o + 1 /\ Slot(o) = wrt /\ Wrap(wrt + 1) \in Index
  BY <1>1, <1>2, RingGrows
<1>4. /\ sent' \in [Thread -> 0 .. SeqMod - 1]
      /\ sent'[t] = IF kind = "stray" THEN sent[t] ELSE (sent[t] + 1) % SeqMod
      /\ \A u \in Thread \ {t} : sent'[u] = sent[u]
  <2>1. (sent[t] + 1) % SeqMod \in 0 .. SeqMod - 1
    BY <1>2
  <2> QED
    BY <1>1, <1>2, <2>1
<1> DEFINE x == [thread |-> t, seq |-> sent'[t], kind |-> kind]
<1>5. x \in FlowRd /\ x # Processed
  <2>1. x \in FlowRd
    BY <1>4 DEF FlowRd
  <2> QED
    BY <2>1, DMarked
<1>6. ring' = [ring EXCEPT ![wrt] = x]
  BY <1>1
<1>7. ring'[Slot(o)] = x
  <2> HIDE DEF x
  <2> QED
    BY <1>2, <1>3, <1>6
<1>8. ring' \in [Index -> FlowRd \cup {Processed}] /\ \A i \in Index \ {wrt} : ring'[i] = ring[i]
  <2> HIDE DEF x
  <2> QED
    BY <1>2, <1>5, <1>6
<1>9. ASSUME NEW k \in 0 .. o - 1 PROVE ring'[Slot(k)] = ring[Slot(k)]
  <2>1. k \in 0 .. RingSize - 1 /\ o \in 0 .. RingSize - 1 /\ k # o
    BY <1>2, <1>3
  <2>2. Slot(k) \in Index /\ Slot(k) # wrt
    BY <1>2, <1>3, <2>1, SlotFacts
  <2> QED
    BY <1>8, <2>2
<1> QED
  BY <1>1, <1>3, <1>4, <1>5, <1>7, <1>8, <1>9

LEMMA DSend ==
  ASSUME DirectInv, NEW t \in Thread, NEW kind \in Kind, Report(t, kind)
  PROVE  DirectInv'
<1>1. DirectTypeOK /\ ScanOK /\ \A u \in Thread : Numbered(Missing(u), NumberOf(u), Behind(u))
  BY DEF DirectInv
<1>2. PICK o \in Nat : o = Occupied
  BY <1>1, DTypes
<1> DEFINE x == [thread |-> t, seq |-> sent'[t], kind |-> kind]
<1>3. /\ o < RingSize - 1 /\ Occupied' = o + 1 /\ Slot(o) = wrt /\ wrt' \in Index
      /\ ring' \in [Index -> FlowRd \cup {Processed}]
      /\ ring'[Slot(o)] = x /\ ring'[Slot(o)] # Processed
      /\ \A k \in 0 .. o - 1 : ring'[Slot(k)] = ring[Slot(k)]
      /\ sent' \in [Thread -> 0 .. SeqMod - 1]
      /\ sent'[t] = IF kind = "stray" THEN sent[t] ELSE (sent[t] + 1) % SeqMod
      /\ \A u \in Thread \ {t} : sent'[u] = sent[u]
      /\ UNCHANGED <<rd, scan, flow, got>>
  BY <1>2, DSendFacts
<1>4. x.thread = t /\ x.seq = sent'[t] /\ x.kind = kind
  OBVIOUS
<1> HIDE DEF x
<1>5. DirectTypeOK'
  <2>1. search' \in [Thread -> {"running", "failed", "ended"}]
    <3>1. /\ search' = [search EXCEPT ![t] = CASE kind = "error" -> "failed"
                                               [] kind = "end" -> "ended"
                                               [] OTHER -> search[t]]
          /\ search \in [Thread -> {"running", "failed", "ended"}]
      BY <1>1 DEF Report, DirectTypeOK
    <3>2. (CASE kind = "error" -> "failed" [] kind = "end" -> "ended" [] OTHER -> search[t])
             \in {"running", "failed", "ended"}
      BY <3>1
    <3> QED
      BY <3>1, <3>2
  <2> QED
    BY <1>1, <1>3, <2>1 DEF DirectTypeOK
<1>6. (\A k : Slot(k)' = Slot(k)) /\ (\A i : Offset(i)' = Offset(i))
  BY <1>3 DEF Slot, Offset
<1>7. ScanOK'
  <2> SUFFICES ASSUME scan.by # None
               PROVE  /\ Offset(scan.at) <= Offset(scan.end) /\ Offset(scan.end) <= Occupied'
                      /\ \A k \in 0 .. Offset(scan.at) - 1 : ring'[Slot(k)] # Processed =>
                            IF ring'[Slot(k)].thread = scan.by THEN ring'[Slot(k)].kind = "stray"
                            ELSE scan.blocked
    BY <1>3, <1>6 DEF ScanOK
  <2>1. PICK a \in Nat : a = Offset(scan.at)
    BY <1>1, DTypes, SlotFacts, DSizes
  <2>2. PICK e \in Nat : e = Offset(scan.end)
    BY <1>1, DTypes, SlotFacts, DSizes
  <2>3. /\ a <= e /\ e <= o
        /\ \A k \in 0 .. a - 1 : ring[Slot(k)] # Processed =>
              IF ring[Slot(k)].thread = scan.by THEN ring[Slot(k)].kind = "stray" ELSE scan.blocked
    BY <1>1, <1>2, <2>1, <2>2 DEF ScanOK
  <2>4. a <= e /\ e <= o + 1 /\ \A k \in 0 .. a - 1 : k \in 0 .. o - 1
    BY <2>3
  <2> QED
    BY <1>3, <2>1, <2>2, <2>3, <2>4
<1>8. \A u : Missing(u) = {k \in 0 .. o - 1 : Wanted(ring[Slot(k)], u)}
  BY <1>2 DEF Missing
<1>9. \A u : Missing(u)' = {k \in 0 .. (o + 1) - 1 : Wanted(ring'[Slot(k)], u)}
  BY <1>3, <1>6 DEF Missing, Wanted
<1>10. 0 .. (o + 1) - 1 = (0 .. o - 1) \cup {o} /\ o \notin 0 .. o - 1
  OBVIOUS
<1>11. \A u : Missing(u)' = IF Wanted(x, u) THEN Missing(u) \cup {o} ELSE Missing(u)
  <2> SUFFICES ASSUME NEW u
               PROVE  Missing(u)' = IF Wanted(x, u) THEN Missing(u) \cup {o} ELSE Missing(u)
    OBVIOUS
  <2>1. \A k : k \in Missing(u)' <=> k \in Missing(u) \/ (k = o /\ Wanted(x, u))
    BY <1>3, <1>8, <1>9, <1>10
  <2>2. Missing(u) \subseteq Int /\ Missing(u)' \subseteq Int
    BY <1>8, <1>9
  <2> QED
    BY <2>1, <2>2
<1>12. \A u : \A k \in Missing(u) : k \in 0 .. o - 1 /\ ring'[Slot(k)] = ring[Slot(k)]
  BY <1>3, <1>8
<1>13. ASSUME NEW u \in Thread, ~Wanted(x, u), sent'[u] = sent[u]
       PROVE  Numbered(Missing(u), NumberOf(u), Behind(u))'
  <2>1. Missing(u)' = Missing(u)
    BY <1>11, <1>13
  <2> QED
    BY <1>1, <1>3, <1>12, <1>13, <2>1, DKeptInPlace
<1>14. ASSUME kind # "stray" PROVE Numbered(Missing(t), NumberOf(t), Behind(t))'
  <2>1. Wanted(x, t)
    BY <1>3, <1>4, <1>14 DEF Wanted
  <2>2. /\ Behind(t) \in Nat /\ Missing(t) \in SUBSET Int /\ sent[t] \in 0 .. SeqMod - 1
        /\ got[t] \in 0 .. SeqMod - 1 /\ SeqMod \in Nat \ {0} /\ SeqMod > 1
        /\ SeqMod >= RingSize /\ RingSize \in Nat
    BY <1>1, DNumbers, DTypes, DSizes
  <2>3. Behind(t) <= o
    <3>1. Missing(t) \in SUBSET (0 .. o - 1) /\ 0 \in Int /\ o - 1 \in Int /\ 0 <= o - 1 + 1
      BY <1>8
    <3>2. Behind(t) <= o - 1 - 0 + 1
      BY <1>1, <2>2, <3>1, NumbersBound
    <3> QED
      BY <2>2, <3>2
  <2>4. Behind(t) = (sent[t] - got[t]) % SeqMod
    BY DEF Behind, Ahead
  <2>5. (sent'[t] - got[t]) % SeqMod = Behind(t) + 1
    <3>1. (sent[t] - got[t]) % SeqMod < SeqMod - 1
      BY <1>3, <2>2, <2>3, <2>4
    <3>2. (((sent[t] + 1) % SeqMod) - got[t]) % SeqMod = ((sent[t] - got[t]) % SeqMod) + 1
      BY <2>2, <3>1, NextAway
    <3> QED
      BY <1>3, <1>14, <2>4, <3>2
  <2>6. Behind(t)' = Behind(t) + 1
    BY <1>3, <2>5 DEF Behind, Ahead
  <2>7. NumberOf(t)'[o] = Behind(t) + 1
    <3>1. o \in Int /\ (ring[Slot(o)])' = x
      BY <1>3, <1>6
    <3> QED
      BY <1>3, <1>4, <2>5, <3>1 DEF NumberOf, Ahead
  <2>8. \A k \in Missing(t) : NumberOf(t)'[k] = NumberOf(t)[k]
    <3>1. \A k \in Missing(t) : k \in Int /\ (ring[Slot(k)])' = ring[Slot(k)]
      BY <1>6, <1>12
    <3> QED
      BY <1>3, <3>1 DEF NumberOf, Ahead
  <2>9. \A k \in Missing(t) : k < o
    BY <1>12
  <2> DEFINE S == Missing(t)
             f == NumberOf(t)
             g == NumberOf(t)'
  <2>10. /\ S \in SUBSET Int /\ Numbered(S, f, Behind(t)) /\ (\A k \in S : k < o)
         /\ (\A k \in S : g[k] = f[k]) /\ g[o] = Behind(t) + 1 /\ Behind(t) \in Nat /\ o \in Int
    BY <1>1, <2>2, <2>7, <2>8, <2>9
  <2> HIDE DEF S, f, g
  <2>11. Numbered(S \cup {o}, g, Behind(t) + 1)
    BY <2>10, LastAdded
  <2>12. Missing(t)' = S \cup {o}
    BY <1>11, <2>1 DEF S
  <2> QED
    BY <2>6, <2>11, <2>12 DEF Numbered, g
<1>15. ASSUME NEW u \in Thread PROVE Numbered(Missing(u), NumberOf(u), Behind(u))'
  <2>1. CASE u # t
    BY <1>3, <1>4, <1>13, <2>1 DEF Wanted
  <2>2. CASE u = t /\ kind = "stray"
    BY <1>3, <1>4, <1>13, <2>2 DEF Wanted
  <2> QED
    BY <1>14, <2>1, <2>2
<1> QED
  BY <1>5, <1>7, <1>15 DEF DirectInv

(* For any number of threads that scan the ring in turn, whatever the room *)
(* in their buffers: the results between the pointers that a thread was    *)
(* not given are those it has not got, each once and in the order in which *)
(* the device sent them, as the read pointer moves only over what nobody   *)
(* needs any more (nlm_get_all_search_results).                            *)
THEOREM AllScannedInOrder == DirectSpec => []ScannedInOrderOnce
<1>1. DirectInit => DirectInv
  BY DInit
<1>2. DirectInv /\ [DirectNext]_directVars => DirectInv'
  BY DBegin, DPassProcessed, DPassForeign, DIgnore, DDeliver, DEnd, DSend, DCreate, DStutter
     DEF DirectNext, Call
<1>3. DirectInv => ScannedInOrderOnce
  <2> SUFFICES ASSUME DirectInv PROVE ScannedInOrderOnce
    OBVIOUS
  <2>1. \A t : Undelivered(t) = Missing(t)
    BY DEF Undelivered, Missing, Wanted
  <2>2. DirectTypeOK /\ \A t \in Thread : Numbered(Missing(t), NumberOf(t), Behind(t))
    BY DEF DirectInv
  <2>3. ASSUME NEW t \in Thread
        PROVE  /\ \A k \in Missing(t) : Ahead(t, ring[Slot(k)].seq) \in 1 .. Ahead(t, sent[t])
               /\ \A k, l \in Missing(t) : k < l =>
                     Ahead(t, ring[Slot(k)].seq) < Ahead(t, ring[Slot(l)].seq)
               /\ \A n \in 1 .. Ahead(t, sent[t]) :
                     \E k \in Missing(t) : Ahead(t, ring[Slot(k)].seq) = n
    <3>1. \A k \in Missing(t) : NumberOf(t)[k] = Ahead(t, ring[Slot(k)].seq)
      BY <2>2, DNumbers DEF NumberOf
    <3> QED
      BY <2>2, <3>1 DEF Numbered, Behind
  <2> QED
    BY <2>1, <2>2, <2>3 DEF ScannedInOrderOnce
<1> QED
  BY <1>1, <1>2, <1>3, PTL DEF DirectSpec

-----------------------------------------------------------------------------
(* ManagedInput.  How many FDs of thread t the device has not taken, the   *)
(* numbers of those in the ring, and the order of all of them.             *)
FdsBehind(t) == FdAhead(t, pushed[t])

FdNumber(t) == [k \in Int |-> FdAhead(t, input[k].seq)]

FdOrder(t) ==
    LET waiting == Len(jobFifo[t])
        moved == FdsBehind(t) - waiting IN
    /\ moved >= 0
    /\ \A i \in 1 .. waiting : jobFifo[t][i].thread = t /\ FdAhead(t, jobFifo[t][i].seq) = moved + i
    /\ Numbered(InRing(t), FdNumber(t), moved)

(* The manager has not met more empty FIFOs than FIFOs in its round. *)
InputInv ==
    /\ InputTypeOK
    /\ \A t \in ThreadId : FdOrder(t)
    /\ call.empty <= call.at

LEMMA ISizes ==
  /\ MaxThreads \in Nat /\ MaxThreads > 0 /\ JobFifoSize \in Nat /\ JobFifoSize > 0
         /\ InputSize \in Nat /\ InputSize > 1 /\ FdMod \in Nat \ {0} /\ FdMod > 1
         /\ FdMod > JobFifoSize + InputSize
BY InputAssumption

LEMMA ITypes ==
  ASSUME InputTypeOK
  PROVE  /\ jobFifo \in [ThreadId -> Seq(Fd)] /\ input \in Seq(Fd)
         /\ Len(input) \in Nat /\ Len(input) < InputSize
         /\ visible \in 0 .. Len(input)
         /\ call \in [running : BOOLEAN, at : 0 .. MaxThreads, empty : 0 .. MaxThreads,
                      moved : BOOLEAN]
         /\ pushed \in [ThreadId -> 0 .. FdMod - 1] /\ scanned \in [ThreadId -> 0 .. FdMod - 1]
         /\ \A k \in 1 .. Len(input) :
               input[k] \in Fd /\ input[k].thread \in ThreadId /\ input[k].seq \in 0 .. FdMod - 1
         /\ \A t \in ThreadId :
               /\ jobFifo[t] \in Seq(Fd) /\ Len(jobFifo[t]) \in Nat /\ Len(jobFifo[t]) <= JobFifoSize
               /\ pushed[t] \in 0 .. FdMod - 1 /\ scanned[t] \in 0 .. FdMod - 1
               /\ FdsBehind(t) \in Nat /\ FdsBehind(t) < FdMod
               /\ InRing(t) \in SUBSET Int
               /\ \A i \in 1 .. Len(jobFifo[t]) : jobFifo[t][i].seq \in 0 .. FdMod - 1
<1>1. /\ jobFifo \in [ThreadId -> Seq(Fd)] /\ input \in Seq(Fd) /\ Len(input) < InputSize
      /\ visible \in 0 .. Len(input)
      /\ call \in [running : BOOLEAN, at : 0 .. MaxThreads, empty : 0 .. MaxThreads,
                   moved : BOOLEAN]
      /\ pushed \in [ThreadId -> 0 .. FdMod - 1] /\ scanned \in [ThreadId -> 0 .. FdMod - 1]
      /\ \A t \in ThreadId : Len(jobFifo[t]) <= JobFifoSize
  BY DEF InputTypeOK
<1>2. \A x \in Fd : x.thread \in ThreadId /\ x.seq \in 0 .. FdMod - 1
  BY DEF Fd
<1>3. Len(input) \in Nat /\ \A k \in 1 .. Len(input) : input[k] \in Fd
  BY <1>1
<1>4. ASSUME NEW t \in ThreadId
      PROVE  /\ jobFifo[t] \in Seq(Fd) /\ Len(jobFifo[t]) \in Nat
             /\ pushed[t] \in 0 .. FdMod - 1 /\ scanned[t] \in 0 .. FdMod - 1
             /\ FdsBehind(t) \in Nat /\ FdsBehind(t) < FdMod
             /\ InRing(t) \in SUBSET Int
             /\ \A i \in 1 .. Len(jobFifo[t]) : jobFifo[t][i].seq \in 0 .. FdMod - 1
  <2>1. /\ jobFifo[t] \in Seq(Fd) /\ pushed[t] \in 0 .. FdMod - 1
        /\ scanned[t] \in 0 .. FdMod - 1 /\ FdMod \in Nat \ {0}
    BY <1>1, ISizes
  <2>2. Len(jobFifo[t]) \in Nat /\ \A i \in 1 .. Len(jobFifo[t]) : jobFifo[t][i] \in Fd
    BY <2>1
  <2>3. FdsBehind(t) = IF pushed[t] >= scanned[t] THEN pushed[t] - scanned[t]
                       ELSE pushed[t] - scanned[t] + FdMod
    BY <2>1, Distance DEF FdsBehind, FdAhead
  <2>4. FdsBehind(t) \in Nat /\ FdsBehind(t) < FdMod
    BY <2>1, <2>3
  <2>5. InRing(t) \in SUBSET Int
    BY <1>3 DEF InRing
  <2> QED
    BY <1>2, <2>1, <2>2, <2>4, <2>5
<1> QED
  BY <1>1, <1>2, <1>3, <1>4

(* A step that leaves a thread's FDs and numbers alone keeps their order. *)
LEMMA IKept ==
  ASSUME InputTypeOK, NEW t \in ThreadId, FdOrder(t), jobFifo'[t] = jobFifo[t],
         pushed'[t] = pushed[t], scanned'[t] = scanned[t], NEW a \in Int,
         InRing(t)' \subseteq Int,
         \A k \in InRing(t)' : a + k \in InRing(t) /\ input'[k] = input[a + k],
         \A k \in InRing(t) : k - a \in InRing(t)'
  PROVE  FdOrder(t)'
<1> DEFINE c == Len(jobFifo[t])
           u == FdsBehind(t)
<1>1. /\ c \in Nat /\ u \in Nat /\ InRing(t) \in SUBSET Int
  BY ITypes
<1>2. /\ u - c >= 0 /\ Numbered(InRing(t), FdNumber(t), u - c)
      /\ \A i \in 1 .. c : jobFifo[t][i].thread = t /\ FdAhead(t, jobFifo[t][i].seq) = u - c + i
  BY DEF FdOrder
<1>3. c' = c /\ u' = u
  BY DEF FdsBehind, FdAhead
<1>4. \A i : FdAhead(t, jobFifo[t][i].seq)' = FdAhead(t, jobFifo[t][i].seq)
  BY DEF FdAhead
<1>5. \A k \in InRing(t)' : FdNumber(t)'[k] = FdNumber(t)[a + k]
  <2>1. \A k \in InRing(t)' : k \in Int /\ a + k \in Int
    BY <1>1
  <2> QED
    BY <2>1 DEF FdNumber, FdAhead
<1>6. PICK m \in Nat : m = u - c
  BY <1>1, <1>2
<1>7. Numbered(InRing(t)', FdNumber(t)', m)
  <2>1. Numbered(InRing(t), FdNumber(t), m)
    BY <1>2, <1>6
  <2>2. InRing(t) \in SUBSET Int /\ InRing(t)' \in SUBSET Int
    BY <1>1
  <2>3. \A k \in InRing(t)' : a + k \in InRing(t) /\ FdNumber(t)'[k] = FdNumber(t)[a + k]
    BY <1>5
  <2> QED
    BY <2>1, <2>2, <2>3, Shifted
<1>8. (u - c)' = m
  BY <1>3, <1>6
<1>9. Numbered(InRing(t), FdNumber(t), u - c)'
  BY <1>7, <1>8 DEF Numbered
<1>10. \A i \in 1 .. c' : (jobFifo[t][i].thread = t /\ FdAhead(t, jobFifo[t][i].seq) = u - c + i)'
  BY <1>2, <1>3, <1>4
<1>11. (u - c >= 0)'
  BY <1>2, <1>3
<1> HIDE DEF c, u
<1> QED
  BY <1>9, <1>10, <1>11 DEF FdOrder, c, u

LEMMA IKeptInPlace ==
  ASSUME InputTypeOK, NEW t \in ThreadId, FdOrder(t), jobFifo'[t] = jobFifo[t],
         pushed'[t] = pushed[t], scanned'[t] = scanned[t], InRing(t)' = InRing(t),
         \A k \in InRing(t) : input'[k] = input[k]
  PROVE  FdOrder(t)'
<1>1. InRing(t) \subseteq Int
  BY ITypes
<1>2. \A k \in InRing(t) : 0 + k = k /\ k - 0 = k
  BY <1>1
<1> QED
  BY <1>1, <1>2, IKept

(* Steps that move no FD. *)
LEMMA ILook ==
  ASSUME InputInv, UNCHANGED <<jobFifo, input, pushed, scanned>>,
         visible' \in 0 .. Len(input),
         call' \in [running : BOOLEAN, at : 0 .. MaxThreads, empty : 0 .. MaxThreads,
                    moved : BOOLEAN],
         call'.empty <= call'.at
  PROVE  InputInv'
<1>1. InputTypeOK'
  BY DEF InputInv, InputTypeOK
<1>2. ASSUME NEW t \in ThreadId PROVE FdOrder(t)'
  <2>1. FdOrder(t) /\ InputTypeOK
    BY DEF InputInv
  <2>2. InRing(t)' = InRing(t)
    BY DEF InRing
  <2> QED
    BY <2>1, <2>2, IKeptInPlace
<1>3. \A t \in ThreadId : FdOrder(t)'
  BY <1>2
<1> QED
  BY <1>1, <1>3 DEF InputInv, ThreadId

LEMMA IInit ==
  ASSUME InputInit
  PROVE  InputInv
<1>1. /\ jobFifo = [t \in ThreadId |-> <<>>] /\ input = <<>> /\ visible = 0 /\ call = NoCall
      /\ pushed = [t \in ThreadId |-> 0] /\ scanned = [t \in ThreadId |-> 0]
  BY DEF InputInit
<1>2. 0 \in 0 .. FdMod - 1 /\ 0 \in 0 .. MaxThreads /\ 0 < InputSize /\ 0 <= JobFifoSize
  BY ISizes
<1>3. InputTypeOK /\ call.empty <= call.at
  <2>1. call \in [running : BOOLEAN, at : 0 .. MaxThreads, empty : 0 .. MaxThreads,
                  moved : BOOLEAN] /\ call.empty <= call.at
    BY <1>1, <1>2 DEF NoCall
  <2>2. input \in Seq(Fd) /\ Len(input) = 0 /\ jobFifo \in [ThreadId -> Seq(Fd)]
    BY <1>1
  <2>3. \A t \in ThreadId : Len(jobFifo[t]) = 0
    BY <1>1
  <2> QED
    BY <1>1, <1>2, <2>1, <2>2, <2>3 DEF InputTypeOK
<1>4. ASSUME NEW t \in ThreadId PROVE FdOrder(t)
  <2>1. Len(jobFifo[t]) = 0 /\ pushed[t] = 0 /\ scanned[t] = 0 /\ Len(input) = 0
    BY <1>1
  <2>2. FdsBehind(t) = 0
    <3>1. 0 % FdMod = 0
      BY ISizes, ModBelow
    <3> QED
      BY <2>1, <3>1 DEF FdsBehind, FdAhead
  <2>3. InRing(t) = {}
    BY <2>1 DEF InRing
  <2> QED
    BY <2>1, <2>2, <2>3 DEF FdOrder, Numbered
<1> QED
  BY <1>3, <1>4 DEF InputInv

LEMMA IBegin ==
  ASSUME InputInv, BeginInput
  PROVE  InputInv'
<1>1. call' = [NoCall EXCEPT !.running = TRUE] /\ 0 \in 0 .. MaxThreads
  BY ISizes DEF BeginInput
<1>2. call' \in [running : BOOLEAN, at : 0 .. MaxThreads, empty : 0 .. MaxThreads,
                 moved : BOOLEAN] /\ call'.empty = 0 /\ call'.at = 0
  BY <1>1 DEF NoCall
<1>3. UNCHANGED <<jobFifo, input, pushed, scanned>> /\ visible' \in 0 .. Len(input)
  BY DEF BeginInput, InputInv, InputTypeOK
<1> QED
  BY <1>2, <1>3, ILook

LEMMA ISkip ==
  ASSUME InputInv, SkipEmpty
  PROVE  InputInv'
<1>1. /\ call \in [running : BOOLEAN, at : 0 .. MaxThreads, empty : 0 .. MaxThreads,
                   moved : BOOLEAN]
      /\ call.empty <= call.at /\ call.at < MaxThreads /\ MaxThreads \in Nat
      /\ call' = [call EXCEPT !.at = @ + 1, !.empty = @ + 1]
  BY ITypes, ISizes DEF SkipEmpty, AtThread, InputInv
<1>2. call.at + 1 \in 0 .. MaxThreads /\ call.empty + 1 \in 0 .. MaxThreads
      /\ call.empty + 1 <= call.at + 1
  BY <1>1
<1>3. call' \in [running : BOOLEAN, at : 0 .. MaxThreads, empty : 0 .. MaxThreads,
                 moved : BOOLEAN] /\ call'.empty <= call'.at
  BY <1>1, <1>2
<1>4. UNCHANGED <<jobFifo, input, pushed, scanned>> /\ visible' \in 0 .. Len(input)
  BY DEF SkipEmpty, InputInv, InputTypeOK
<1> QED
  BY <1>3, <1>4, ILook

LEMMA INextRound ==
  ASSUME InputInv, NextRound
  PROVE  InputInv'
<1>1. /\ call \in [running : BOOLEAN, at : 0 .. MaxThreads, empty : 0 .. MaxThreads,
                   moved : BOOLEAN]
      /\ call' = [call EXCEPT !.at = 0, !.empty = 0] /\ 0 \in 0 .. MaxThreads
  BY ITypes, ISizes DEF NextRound, InputInv
<1>2. call' \in [running : BOOLEAN, at : 0 .. MaxThreads, empty : 0 .. MaxThreads,
                 moved : BOOLEAN] /\ call'.empty = 0 /\ call'.at = 0
  BY <1>1
<1>3. UNCHANGED <<jobFifo, input, pushed, scanned>> /\ visible' \in 0 .. Len(input)
  BY DEF NextRound, InputInv, InputTypeOK
<1> QED
  BY <1>2, <1>3, ILook

LEMMA IEnd ==
  ASSUME InputInv, MeetFullRing \/ EndInput
  PROVE  InputInv'
<1>1. /\ call' = NoCall /\ UNCHANGED <<jobFifo, input, pushed, scanned>>
      /\ visible' = IF call.moved THEN Len(input) ELSE visible
  BY DEF MeetFullRing, EndInput, InputEnded
<1>2. call' \in [running : BOOLEAN, at : 0 .. MaxThreads, empty : 0 .. MaxThreads,
                 moved : BOOLEAN] /\ call'.empty <= call'.at
  BY <1>1, ISizes DEF NoCall
<1>3. visible' \in 0 .. Len(input)
  <2>1. visible \in 0 .. Len(input) /\ Len(input) \in Nat
    BY ITypes DEF InputInv
  <2> QED
    BY <1>1, <2>1
<1> QED
  BY <1>1, <1>2, <1>3, ILook

LEMMA IStutter ==
  ASSUME InputInv, UNCHANGED inputVars
  PROVE  InputInv'
<1>1. UNCHANGED <<jobFifo, input, visible, call, pushed, scanned>>
  BY DEF inputVars
<1>2. /\ visible' \in 0 .. Len(input) /\ call'.empty <= call'.at
      /\ call' \in [running : BOOLEAN, at : 0 .. MaxThreads, empty : 0 .. MaxThreads,
                    moved : BOOLEAN]
  BY <1>1, ITypes DEF InputInv
<1> QED
  BY <1>1, <1>2, ILook

(* There are no more FDs on their way than the ring and the FIFO hold. *)
LEMMA FdsBound ==
  ASSUME InputInv, NEW t \in ThreadId
  PROVE  FdsBehind(t) <= Len(input) + Len(jobFifo[t])
<1>1. InputTypeOK /\ FdOrder(t)
  BY DEF InputInv
<1>2. /\ Len(input) \in Nat /\ Len(jobFifo[t]) \in Nat /\ FdsBehind(t) \in Nat
  BY <1>1, ITypes
<1>3. PICK m \in Nat : m = FdsBehind(t) - Len(jobFifo[t])
  BY <1>1, <1>2 DEF FdOrder
<1>4. Numbered(InRing(t), FdNumber(t), m)
  BY <1>1, <1>3 DEF FdOrder
<1>5. InRing(t) \in SUBSET (1 .. Len(input)) /\ 1 \in Int /\ Len(input) \in Int
      /\ 1 <= Len(input) + 1
  BY <1>2 DEF InRing
<1>6. m <= Len(input) - 1 + 1
  BY <1>4, <1>5, NumbersBound
<1> QED
  BY <1>2, <1>3, <1>6

(* A new FD is the last one of its thread. *)
LEMMA IPush ==
  ASSUME InputInv, NEW t \in ThreadId, PushFd(t)
  PROVE  InputInv'
<1> DEFINE c == Len(jobFifo[t])
           u == FdsBehind(t)
           x == [thread |-> t, seq |-> NextNumber(pushed[t])]
<1>1. InputTypeOK /\ \A s \in ThreadId : FdOrder(s)
  BY DEF InputInv
<1>2. /\ c < JobFifoSize /\ jobFifo' = [jobFifo EXCEPT ![t] = Append(jobFifo[t], x)]
      /\ pushed' = [pushed EXCEPT ![t] = NextNumber(pushed[t])]
      /\ UNCHANGED <<input, visible, call, scanned>>
  BY DEF PushFd
<1>3. /\ jobFifo \in [ThreadId -> Seq(Fd)] /\ pushed \in [ThreadId -> 0 .. FdMod - 1]
      /\ jobFifo[t] \in Seq(Fd) /\ c \in Nat /\ u \in Nat
      /\ pushed[t] \in 0 .. FdMod - 1 /\ scanned[t] \in 0 .. FdMod - 1
      /\ FdMod \in Nat \ {0} /\ FdMod > 1 /\ JobFifoSize \in Nat /\ InputSize \in Nat
      /\ Len(input) \in Nat /\ Len(input) < InputSize /\ FdMod > JobFifoSize + InputSize
  BY <1>1, ITypes, ISizes
<1>4. u <= Len(input) + c
  BY FdsBound
<1>5. /\ NextNumber(pushed[t]) \in 0 .. FdMod - 1
      /\ FdAhead(t, NextNumber(pushed[t])) = u + 1
  <2>1. (pushed[t] - scanned[t]) % FdMod = u
    BY DEF FdsBehind, FdAhead
  <2> HIDE DEF u, c
  <2>2. u < FdMod - 1
    BY <1>2, <1>3, <1>4
  <2> QED
    BY <1>3, <2>1, <2>2, NextAway DEF NextNumber, FdAhead
<1>6. x \in Fd /\ x.thread = t /\ x.seq = NextNumber(pushed[t])
  BY <1>5 DEF Fd
<1> HIDE DEF x
<1>7. /\ Append(jobFifo[t], x) \in Seq(Fd) /\ Len(Append(jobFifo[t], x)) = c + 1
      /\ Append(jobFifo[t], x)[c + 1] = x
      /\ \A i \in 1 .. c : Append(jobFifo[t], x)[i] = jobFifo[t][i]
  BY <1>3, <1>6
<1>8. /\ jobFifo' \in [ThreadId -> Seq(Fd)] /\ jobFifo'[t] = Append(jobFifo[t], x)
      /\ \A s \in ThreadId \ {t} : jobFifo'[s] = jobFifo[s]
  BY <1>2, <1>3, <1>7
<1>9. /\ pushed' \in [ThreadId -> 0 .. FdMod - 1] /\ pushed'[t] = NextNumber(pushed[t])
      /\ \A s \in ThreadId \ {t} : pushed'[s] = pushed[s]
  BY <1>2, <1>3, <1>5
<1>10. InputTypeOK'
  <2>1. Len(jobFifo'[t]) <= JobFifoSize
    <3>1. Len(jobFifo'[t]) = c + 1
      BY <1>7, <1>8
    <3> HIDE DEF c
    <3> QED
      BY <1>2, <1>3, <3>1
  <2>2. \A s \in ThreadId : Len(jobFifo'[s]) <= JobFifoSize
    BY <1>1, <1>8, <2>1 DEF InputTypeOK
  <2> QED
    BY <1>1, <1>2, <1>8, <1>9, <2>2 DEF InputTypeOK
<1>11. \A s : InRing(s)' = InRing(s)
  BY <1>2 DEF InRing
<1>12. ASSUME NEW s \in ThreadId \ {t} PROVE FdOrder(s)'
  <2>1. FdOrder(s) /\ jobFifo'[s] = jobFifo[s] /\ pushed'[s] = pushed[s] /\ scanned'[s] = scanned[s]
    BY <1>1, <1>2, <1>8, <1>9
  <2> QED
    BY <1>1, <1>2, <1>11, <2>1, IKeptInPlace
<1>13. FdOrder(t)'
  <2>1. /\ u - c >= 0 /\ Numbered(InRing(t), FdNumber(t), u - c)
        /\ \A i \in 1 .. c : jobFifo[t][i].thread = t /\ FdAhead(t, jobFifo[t][i].seq) = u - c + i
    BY <1>1 DEF FdOrder
  <2>2. Len(jobFifo[t])' = c + 1 /\ FdsBehind(t)' = u + 1
    BY <1>2, <1>5, <1>7, <1>8, <1>9 DEF FdsBehind, FdAhead
  <2>3. \A n : FdAhead(t, n)' = FdAhead(t, n')
    BY <1>2 DEF FdAhead
  <2>4. FdNumber(t)' = FdNumber(t)
    BY <1>2 DEF FdNumber, FdAhead
  <2>5. ASSUME NEW i \in 1 .. c + 1
        PROVE  (jobFifo'[t])[i].thread = t /\ FdAhead(t, (jobFifo'[t])[i].seq) = (u - c) + i
    <3>1. CASE i \in 1 .. c
      BY <1>7, <1>8, <2>1, <3>1
    <3>2. CASE i = c + 1
      <4>1. (jobFifo'[t])[i] = x
        BY <1>7, <1>8, <3>2
      <4>2. FdAhead(t, x.seq) = u + 1
        BY <1>5, <1>6
      <4> HIDE DEF u, c
      <4>3. u + 1 = (u - c) + i
        BY <1>3, <3>2
      <4> QED
        BY <1>6, <4>1, <4>2, <4>3
    <3>3. i \in 1 .. c \/ i = c + 1
      <4> HIDE DEF c
      <4> QED
        BY <1>3
    <3> QED
      BY <3>1, <3>2, <3>3
  <2>6. \A i : FdAhead(t, jobFifo[t][i].seq)' = FdAhead(t, (jobFifo'[t])[i].seq)
    BY <1>2 DEF FdAhead
  <2>7. (u + 1) - (c + 1) = u - c
    BY <1>3
  <2> HIDE DEF u, c
  <2>8. FdsBehind(t)' - Len(jobFifo[t])' = u - c
    BY <2>2, <2>7
  <2>9. /\ (FdsBehind(t) - Len(jobFifo[t]) >= 0)'
        /\ Numbered(InRing(t), FdNumber(t), FdsBehind(t) - Len(jobFifo[t]))'
    BY <1>11, <2>1, <2>4, <2>8 DEF Numbered
  <2>10. \A i \in 1 .. Len(jobFifo[t])' :
            (jobFifo[t][i].thread = t /\ FdAhead(t, jobFifo[t][i].seq) = FdsBehind(t) - Len(jobFifo[t]) + i)'
    BY <2>2, <2>5, <2>6, <2>8
  <2> QED
    BY <2>9, <2>10 DEF FdOrder
<1>14. \A s \in ThreadId : FdOrder(s)'
  BY <1>12, <1>13
<1> QED
  BY <1>2, <1>10, <1>14 DEF InputInv, ThreadId

(* The manager moves the oldest FD of a FIFO behind all FDs of the ring. *)
LEMMA IMove ==
  ASSUME InputInv, MoveFd
  PROVE  InputInv'
<1>1. InputTypeOK /\ (\A s \in ThreadId : FdOrder(s)) /\ call.empty <= call.at
  BY DEF InputInv
<1>2. /\ jobFifo \in [ThreadId -> Seq(Fd)] /\ input \in Seq(Fd)
      /\ Len(input) \in Nat /\ Len(input) < InputSize /\ InputSize \in Nat
      /\ call \in [running : BOOLEAN, at : 0 .. MaxThreads, empty : 0 .. MaxThreads,
                   moved : BOOLEAN]
      /\ MaxThreads \in Nat /\ JobFifoSize \in Nat /\ visible \in 0 .. Len(input)
  BY <1>1, ITypes, ISizes
<1>3. /\ call.at < MaxThreads /\ jobFifo[call.at] # <<>> /\ Len(input) # InputSize - 1
      /\ call' = [call EXCEPT !.at = @ + 1, !.moved = TRUE]
      /\ UNCHANGED <<visible, pushed, scanned>>
  BY DEF MoveFd, Moved, AtThread, InputFull
<1>4. PICK t \in ThreadId : t = call.at
  BY <1>2, <1>3 DEF ThreadId
<1>5. PICK x : x = Head(jobFifo[t])
  OBVIOUS
<1>6. PICK n \in Nat : n = Len(input)
  BY <1>2
<1>7. input' = Append(input, x) /\ jobFifo' = [jobFifo EXCEPT ![t] = Tail(jobFifo[t])]
  BY <1>4, <1>5 DEF MoveFd, Moved
<1> DEFINE c == Len(jobFifo[t])
           u == FdsBehind(t)
<1>8. /\ jobFifo[t] \in Seq(Fd) /\ c \in Nat /\ c <= JobFifoSize /\ u \in Nat
      /\ InRing(t) \in SUBSET Int
  BY <1>1, ITypes
<1>9. /\ Tail(jobFifo[t]) \in Seq(Fd) /\ Len(Tail(jobFifo[t])) = c - 1 /\ c > 0
      /\ x = jobFifo[t][1] /\ x \in Fd /\ \A i \in 1 .. c - 1 : Tail(jobFifo[t])[i] = jobFifo[t][i + 1]
  BY <1>3, <1>4, <1>5, <1>8
<1>10. /\ input' \in Seq(Fd) /\ Len(input') = n + 1 /\ input'[n + 1] = x
       /\ \A k \in 1 .. n : input'[k] = input[k]
  BY <1>2, <1>6, <1>7, <1>9
<1>11. /\ jobFifo' \in [ThreadId -> Seq(Fd)] /\ jobFifo'[t] = Tail(jobFifo[t])
       /\ \A s \in ThreadId \ {t} : jobFifo'[s] = jobFifo[s]
  BY <1>2, <1>7, <1>9
<1>12. call' \in [running : BOOLEAN, at : 0 .. MaxThreads, empty : 0 .. MaxThreads,
                  moved : BOOLEAN] /\ call'.empty <= call'.at
  <2>1. call.at + 1 \in 0 .. MaxThreads /\ call.empty <= call.at + 1
    BY <1>1, <1>2, <1>3
  <2>2. call'.empty = call.empty /\ call'.at = call.at + 1
    BY <1>2, <1>3
  <2> QED
    BY <1>2, <1>3, <2>1, <2>2
<1>13. InputTypeOK'
  <2>1. Len(jobFifo'[t]) <= JobFifoSize
    <3>1. Len(jobFifo'[t]) = c - 1
      BY <1>9, <1>11
    <3> HIDE DEF c
    <3> QED
      BY <1>2, <1>8, <3>1
  <2>2. \A s \in ThreadId : Len(jobFifo'[s]) <= JobFifoSize
    BY <1>1, <1>11, <2>1 DEF InputTypeOK
  <2>3. Len(input') < InputSize /\ visible' \in 0 .. Len(input')
    BY <1>2, <1>3, <1>6, <1>10
  <2> QED
    BY <1>1, <1>3, <1>10, <1>11, <1>12, <2>2, <2>3 DEF InputTypeOK
<1>14. \A s : InRing(s) = {k \in 1 .. n : input[k].thread = s}
  BY <1>6 DEF InRing
<1>15. \A s : InRing(s)' = {k \in 1 .. n + 1 : input'[k].thread = s}
  BY <1>10 DEF InRing
<1>16. 1 .. n + 1 = (1 .. n) \cup {n + 1} /\ n + 1 \notin 1 .. n
  OBVIOUS
<1>17. /\ u - c >= 0 /\ Numbered(InRing(t), FdNumber(t), u - c)
       /\ \A i \in 1 .. c : jobFifo[t][i].thread = t /\ FdAhead(t, jobFifo[t][i].seq) = u - c + i
  BY <1>1 DEF FdOrder
<1>18. x.thread = t /\ FdAhead(t, x.seq) = u - c + 1
  <2>1. 1 \in 1 .. c
    BY <1>8, <1>9
  <2> QED
    BY <1>9, <1>17, <2>1
<1>19. \A s : InRing(s)' = IF s = t THEN InRing(s) \cup {n + 1} ELSE InRing(s)
  <2> SUFFICES ASSUME NEW s
               PROVE  InRing(s)' = IF s = t THEN InRing(s) \cup {n + 1} ELSE InRing(s)
    OBVIOUS
  <2>1. \A k : k \in InRing(s)' <=> k \in InRing(s) \/ (k = n + 1 /\ s = t)
    BY <1>10, <1>14, <1>15, <1>16, <1>18
  <2>2. InRing(s) \subseteq Int /\ InRing(s)' \subseteq Int
    BY <1>14, <1>15
  <2> QED
    BY <2>1, <2>2
<1>20. \A s : \A k \in InRing(s) : k \in 1 .. n /\ input'[k] = input[k]
  BY <1>10, <1>14
<1>21. ASSUME NEW s \in ThreadId \ {t} PROVE FdOrder(s)'
  <2>1. FdOrder(s) /\ jobFifo'[s] = jobFifo[s] /\ pushed'[s] = pushed[s] /\ scanned'[s] = scanned[s]
        /\ InRing(s)' = InRing(s)
    BY <1>1, <1>3, <1>11, <1>19
  <2> QED
    BY <1>1, <1>20, <2>1, IKeptInPlace
<1>22. FdOrder(t)'
  <2>1. PICK m \in Nat : m = u - c
    BY <1>8, <1>17
  <2>3. FdNumber(t)'[n + 1] = m + 1 /\ \A k \in InRing(t) : FdNumber(t)'[k] = FdNumber(t)[k]
    <3>1. n + 1 \in Int /\ input[n + 1]' = x /\ FdAhead(t, x.seq) = m + 1
      BY <1>10, <1>18, <2>1
    <3>2. FdNumber(t)'[n + 1] = m + 1
      BY <1>3, <3>1 DEF FdNumber, FdAhead
    <3>3. \A k \in InRing(t) : k \in Int /\ input[k]' = input[k]
      BY <1>8, <1>20
    <3>4. \A k \in InRing(t) : FdNumber(t)'[k] = FdNumber(t)[k]
      BY <1>3, <3>3 DEF FdNumber, FdAhead
    <3> QED
      BY <3>2, <3>4
  <2> DEFINE S == InRing(t)
             f == FdNumber(t)
             g == FdNumber(t)'
  <2>4. /\ S \in SUBSET Int /\ Numbered(S, f, m) /\ n + 1 \in Int
        /\ (\A k \in S : k < n + 1) /\ (\A k \in S : g[k] = f[k]) /\ g[n + 1] = m + 1
    <3>1. \A k \in S : k < n + 1
      BY <1>20
    <3> QED
      BY <1>8, <1>17, <2>1, <2>3, <3>1
  <2> HIDE DEF S, f, g
  <2>5. Numbered(S \cup {n + 1}, g, m + 1)
    BY <2>4, LastAdded
  <2>6. InRing(t)' = S \cup {n + 1}
    BY <1>19 DEF S
  <2>7. Len(jobFifo[t])' = c - 1 /\ FdsBehind(t)' = u
    BY <1>3, <1>9, <1>11 DEF FdsBehind, FdAhead
  <2>8. FdsBehind(t)' - Len(jobFifo[t])' = m + 1
    <3> HIDE DEF u, c
    <3> QED
      BY <1>8, <2>1, <2>7
  <2>9. Numbered(InRing(t), FdNumber(t), FdsBehind(t) - Len(jobFifo[t]))'
    BY <2>5, <2>6, <2>8 DEF Numbered, g
  <2>10. ASSUME NEW i \in 1 .. c - 1
         PROVE  (jobFifo'[t])[i].thread = t /\ FdAhead(t, (jobFifo'[t])[i].seq) = (m + 1) + i
    <3>1. i + 1 \in 1 .. c
      <4> HIDE DEF c
      <4> QED
        BY <1>8
    <3>2. (jobFifo'[t])[i] = jobFifo[t][i + 1]
      BY <1>9, <1>11
    <3>3. jobFifo[t][i + 1].thread = t /\ FdAhead(t, jobFifo[t][i + 1].seq) = u - c + (i + 1)
      BY <1>17, <3>1
    <3>4. u - c + (i + 1) = (m + 1) + i
      <4> HIDE DEF u, c
      <4> QED
        BY <1>8, <2>1
    <3> QED
      BY <3>2, <3>3, <3>4
  <2>11. \A i : FdAhead(t, jobFifo[t][i].seq)' = FdAhead(t, (jobFifo'[t])[i].seq)
    BY <1>3 DEF FdAhead
  <2>12. \A i \in 1 .. Len(jobFifo[t])' :
            (jobFifo[t][i].thread = t /\ FdAhead(t, jobFifo[t][i].seq) = FdsBehind(t) - Len(jobFifo[t]) + i)'
    BY <2>7, <2>8, <2>10, <2>11
  <2>13. (FdsBehind(t) - Len(jobFifo[t]) >= 0)'
    BY <2>8
  <2> QED
    BY <2>9, <2>12, <2>13 DEF FdOrder
<1>23. \A s \in ThreadId : FdOrder(s)'
  BY <1>21, <1>22
<1> QED
  BY <1>12, <1>13, <1>23 DEF InputInv, ThreadId

(* The device takes the oldest FD of the ring, which is its thread's first. *)
LEMMA IFetch ==
  ASSUME InputInv, Fetch
  PROVE  InputInv'
<1>1. InputTypeOK /\ (\A s \in ThreadId : FdOrder(s)) /\ call.empty <= call.at
  BY DEF InputInv
<1>2. /\ input \in Seq(Fd) /\ Len(input) < InputSize /\ InputSize \in Nat
      /\ scanned \in [ThreadId -> 0 .. FdMod - 1] /\ FdMod \in Nat \ {0} /\ FdMod > 1
  BY <1>1, ITypes, ISizes
<1>3. PICK n \in Nat : n = Len(input)
  BY <1>2
<1>4. PICK x : x = Head(input)
  OBVIOUS
<1>5. /\ visible > 0 /\ visible \in 0 .. n /\ visible' = visible - 1 /\ input' = Tail(input)
      /\ scanned' = [scanned EXCEPT ![x.thread] = x.seq]
      /\ UNCHANGED <<jobFifo, call, pushed>>
  BY <1>1, <1>3, <1>4, ITypes DEF Fetch
<1>6. /\ n > 0 /\ input # <<>> /\ x = input[1]
      /\ Tail(input) \in Seq(Fd) /\ Len(Tail(input)) = n - 1
      /\ \A k \in 1 .. n - 1 : Tail(input)[k] = input[k + 1]
  <2>1. n > 0
    BY <1>5
  <2>2. input # <<>>
    BY <1>2, <1>3, <2>1
  <2> QED
    BY <1>2, <1>3, <1>4, <2>1, <2>2
<1>7. x.thread \in ThreadId /\ x.seq \in 0 .. FdMod - 1
  BY <1>1, <1>3, <1>6, ITypes
<1>8. PICK t \in ThreadId : t = x.thread
  BY <1>7
<1>9. /\ scanned' \in [ThreadId -> 0 .. FdMod - 1] /\ scanned'[t] = x.seq
      /\ \A s \in ThreadId \ {t} : scanned'[s] = scanned[s]
  BY <1>2, <1>5, <1>7, <1>8
<1>10. /\ input' \in Seq(Fd) /\ Len(input') = n - 1
       /\ \A k \in 1 .. n - 1 : input'[k] = input[k + 1]
  BY <1>5, <1>6
<1>11. InputTypeOK'
  <2>1. Len(input') < InputSize /\ visible' \in 0 .. Len(input')
    BY <1>2, <1>3, <1>5, <1>10
  <2> QED
    BY <1>1, <1>5, <1>9, <1>10, <2>1 DEF InputTypeOK
<1>12. \A s : InRing(s) = {k \in 1 .. n : input[k].thread = s}
  BY <1>3 DEF InRing
<1>13. \A s : InRing(s)' = {k \in 1 .. n - 1 : input'[k].thread = s}
  BY <1>10 DEF InRing
<1>14. \A s : \A k \in InRing(s)' : /\ k \in Int /\ 1 + k \in InRing(s) \ {1}
                                      /\ input'[k] = input[1 + k]
  <2> SUFFICES ASSUME NEW s, NEW k \in InRing(s)'
               PROVE  k \in Int /\ 1 + k \in InRing(s) \ {1} /\ input'[k] = input[1 + k]
    OBVIOUS
  <2>1. k \in 1 .. n - 1 /\ input'[k].thread = s
    BY <1>13
  <2>2. k \in Int /\ 1 + k \in 1 .. n /\ 1 + k # 1 /\ k + 1 = 1 + k
    BY <2>1
  <2>3. input'[k] = input[1 + k]
    BY <1>10, <2>1, <2>2
  <2> QED
    BY <1>12, <2>1, <2>2, <2>3
<1>15. \A s : \A k \in InRing(s) \ {1} : k - 1 \in InRing(s)'
  <2> SUFFICES ASSUME NEW s, NEW k \in InRing(s) \ {1} PROVE k - 1 \in InRing(s)'
    OBVIOUS
  <2>1. k \in 1 .. n /\ input[k].thread = s
    BY <1>12
  <2>2. k - 1 \in 1 .. n - 1 /\ (k - 1) + 1 = k
    BY <2>1
  <2> QED
    BY <1>10, <1>13, <2>1, <2>2
<1>16. ASSUME NEW s \in ThreadId \ {t} PROVE FdOrder(s)'
  <2>1. FdOrder(s) /\ jobFifo'[s] = jobFifo[s] /\ pushed'[s] = pushed[s] /\ scanned'[s] = scanned[s]
    BY <1>1, <1>5, <1>9
  <2>2. 1 \notin InRing(s)
    BY <1>6, <1>8, <1>12
  <2>3. /\ InRing(s)' \subseteq Int /\ 1 \in Int
        /\ \A k \in InRing(s)' : 1 + k \in InRing(s) /\ input'[k] = input[1 + k]
        /\ \A k \in InRing(s) : k - 1 \in InRing(s)'
    BY <1>14, <1>15, <2>2
  <2> QED
    BY <1>1, <2>1, <2>3, IKept
<1>17. FdOrder(t)'
  <2> DEFINE c == Len(jobFifo[t])
             u == FdsBehind(t)
  <2>1. /\ c \in Nat /\ u \in Nat /\ InRing(t) \in SUBSET Int
        /\ pushed[t] \in 0 .. FdMod - 1 /\ scanned[t] \in 0 .. FdMod - 1
        /\ \A i \in 1 .. c : jobFifo[t][i].seq \in 0 .. FdMod - 1
    BY <1>1, ITypes
  <2>2. /\ u - c >= 0 /\ Numbered(InRing(t), FdNumber(t), u - c)
        /\ \A i \in 1 .. c : jobFifo[t][i].thread = t /\ FdAhead(t, jobFifo[t][i].seq) = u - c + i
    BY <1>1 DEF FdOrder
  <2>3. PICK m \in Nat : m = u - c
    BY <2>1, <2>2
  <2>4. Numbered(InRing(t), FdNumber(t), m)
    BY <2>2, <2>3
  <2>5. 1 \in InRing(t) /\ \A k \in InRing(t) : 1 <= k
    <3>1. 1 \in 1 .. n /\ input[1].thread = t
      BY <1>6, <1>8
    <3> QED
      BY <1>12, <3>1
  <2>6. FdNumber(t)[1] = 1 /\ m > 0 /\ \A k \in InRing(t) \ {1} : FdNumber(t)[k] \in 2 .. m
    BY <2>1, <2>4, <2>5, FirstTaken
  <2>7. \A k \in Int : FdNumber(t)[k] = (input[k].seq - scanned[t]) % FdMod
    BY DEF FdNumber, FdAhead
  <2>8. scanned'[t] \in 0 .. FdMod - 1 /\ (scanned'[t] - scanned[t]) % FdMod = 1
    BY <1>6, <1>7, <1>9, <2>6, <2>7
  <2>9. \A y \in 0 .. FdMod - 1 : (y - scanned[t]) % FdMod > 0 =>
           (y - scanned'[t]) % FdMod = ((y - scanned[t]) % FdMod) - 1
    BY <1>2, <2>1, <2>8, TakeAway
  <2>10. u = (pushed[t] - scanned[t]) % FdMod /\ FdsBehind(t)' = (pushed[t] - scanned'[t]) % FdMod
    BY <1>5 DEF FdsBehind, FdAhead
  <2>11. FdsBehind(t)' = u - 1 /\ Len(jobFifo[t])' = c
    <3> HIDE DEF u
    <3>1. u > 0
      BY <2>1, <2>3, <2>6
    <3> QED
      BY <1>5, <2>1, <2>9, <2>10, <3>1
  <2> DEFINE f == FdNumber(t)
             g == [k \in Int |-> f[k] - 1]
             S == InRing(t)
             T == InRing(t)'
             h == FdNumber(t)'
  <2>12. Numbered(S \ {1}, g, m - 1)
    <3>1. S \in SUBSET Int /\ Numbered(S, f, m) /\ 1 \in S /\ \A k \in S : 1 <= k
      BY <2>1, <2>4, <2>5
    <3>2. \A k \in S \ {1} : g[k] = f[k] - 1
      BY <3>1
    <3> HIDE DEF S, f, g
    <3> QED
      BY <3>1, <3>2, FirstRemoved
  <2>13. \A k \in T : 1 + k \in S \ {1} /\ h[k] = g[1 + k]
    <3> SUFFICES ASSUME NEW k \in T PROVE 1 + k \in S \ {1} /\ h[k] = g[1 + k]
      OBVIOUS
    <3>1. k \in Int /\ 1 + k \in S \ {1} /\ input'[k] = input[1 + k] /\ 1 + k \in Int
      BY <1>14, <2>1
    <3>2. h[k] = (input[1 + k].seq - scanned'[t]) % FdMod
      BY <3>1 DEF FdNumber, FdAhead
    <3>3. f[1 + k] = (input[1 + k].seq - scanned[t]) % FdMod /\ f[1 + k] > 0
      BY <2>6, <2>7, <3>1
    <3>4. input[1 + k].seq \in 0 .. FdMod - 1
      <4>1. 1 + k \in 1 .. Len(input)
        BY <1>3, <1>12, <3>1
      <4> QED
        BY <1>1, <4>1, ITypes
    <3>5. h[k] = f[1 + k] - 1
      BY <2>9, <3>2, <3>3, <3>4
    <3> QED
      BY <3>1, <3>5
  <2>14. Numbered(T, h, m - 1)
    <3> DEFINE R == S \ {1}
    <3>1. /\ R \in SUBSET Int /\ T \in SUBSET Int /\ m - 1 \in Nat /\ 1 \in Int
          /\ Numbered(R, g, m - 1)
          /\ \A k \in T : 1 + k \in R /\ h[k] = g[1 + k]
          /\ \A k \in R : k - 1 \in T
      <4>1. R \in SUBSET Int /\ T \in SUBSET Int
        BY <1>14, <2>1
      <4>2. \A k \in R : k - 1 \in T
        BY <1>15
      <4>3. m - 1 \in Nat
        BY <2>6
      <4> QED
        BY <2>12, <2>13, <4>1, <4>2, <4>3
    <3> HIDE DEF R, T, g, h
    <3> QED
      BY <3>1, Shifted
  <2>15. FdsBehind(t)' - Len(jobFifo[t])' = m - 1
    <3> HIDE DEF u, c
    <3> QED
      BY <2>1, <2>3, <2>11
  <2>16. Numbered(InRing(t), FdNumber(t), FdsBehind(t) - Len(jobFifo[t]))'
    BY <2>14, <2>15 DEF Numbered
  <2>17. ASSUME NEW i \in 1 .. c
         PROVE  jobFifo[t][i].thread = t /\ (jobFifo[t][i].seq - scanned'[t]) % FdMod = (m - 1) + i
    <3>1. jobFifo[t][i].thread = t /\ (jobFifo[t][i].seq - scanned[t]) % FdMod = m + i
      BY <2>2, <2>3 DEF FdAhead
    <3>2. jobFifo[t][i].seq \in 0 .. FdMod - 1 /\ i \in Nat
      BY <2>1
    <3> HIDE DEF c
    <3>3. (jobFifo[t][i].seq - scanned'[t]) % FdMod = (m + i) - 1
      BY <2>6, <2>9, <3>1, <3>2
    <3> QED
      BY <3>1, <3>2, <3>3
  <2>18. \A i \in 1 .. Len(jobFifo[t])' :
            (jobFifo[t][i].thread = t /\ FdAhead(t, jobFifo[t][i].seq) = FdsBehind(t) - Len(jobFifo[t]) + i)'
    <3>1. \A i : FdAhead(t, jobFifo[t][i].seq)' = (jobFifo[t][i].seq - scanned'[t]) % FdMod
      BY <1>5 DEF FdAhead
    <3> QED
      BY <1>5, <2>11, <2>15, <2>17, <3>1
  <2>19. (FdsBehind(t) - Len(jobFifo[t]) >= 0)'
    BY <2>6, <2>15
  <2> QED
    BY <2>16, <2>18, <2>19 DEF FdOrder
<1>18. \A s \in ThreadId : FdOrder(s)'
  BY <1>16, <1>17
<1> QED
  BY <1>1, <1>5, <1>11, <1>18 DEF InputInv, ThreadId

(* For any number of threads and any sizes: the device takes the FDs of a  *)
(* thread once each and in the order in which the thread pushed them,      *)
(* although threads push while nlm_manage_input moves FDs and the device   *)
(* fetches them; what it has not taken is in the ring and in the FIFO, in  *)
(* order and without a gap.                                                *)
THEOREM AllFdsInOrder == InputSpec => []FdsInOrder
<1>1. InputInit => InputInv
  BY IInit
<1>2. InputInv /\ [InputNext]_inputVars => InputInv'
  BY IBegin, ISkip, IMove, INextRound, IEnd, IFetch, IPush, IStutter DEF InputNext, ManageInput
<1>3. InputInv => FdsInOrder
  <2> SUFFICES ASSUME InputInv PROVE FdsInOrder
    OBVIOUS
  <2>1. InputTypeOK /\ \A t \in ThreadId : FdOrder(t)
    BY DEF InputInv
  <2>2. ASSUME NEW t \in ThreadId
        PROVE  LET moved == FdAhead(t, pushed[t]) - Len(jobFifo[t]) IN
               /\ \A k \in InRing(t) : FdAhead(t, input[k].seq) \in 1 .. moved
               /\ \A k, l \in InRing(t) : k < l =>
                     FdAhead(t, input[k].seq) < FdAhead(t, input[l].seq)
               /\ \A n \in 1 .. moved : \E k \in InRing(t) : FdAhead(t, input[k].seq) = n
    <3>1. InRing(t) \in SUBSET Int
      BY <2>1, ITypes
    <3>2. \A k \in InRing(t) : FdNumber(t)[k] = FdAhead(t, input[k].seq)
      BY <3>1 DEF FdNumber
    <3> QED
      BY <2>1, <3>2 DEF FdOrder, Numbered, FdsBehind
  <2> QED
    BY <2>1, <2>2 DEF FdsInOrder, FdOrder, FdsBehind
<1> QED
  BY <1>1, <1>2, <1>3, PTL DEF InputSpec
=============================================================================
