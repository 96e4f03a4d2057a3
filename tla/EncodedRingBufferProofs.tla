---------------------- MODULE EncodedRingBufferProofs ----------------------
(***************************************************************************)
(* TLAPS proofs about EncodedRingBuffer: whatever units arrive, in         *)
(* whatever order and of whatever size, the ring stays a well-formed       *)
(* suffix of one encoder generation, and exactly the retention window of   *)
(* the units accepted.                                                     *)
(***************************************************************************)
EXTENDS MCEncodedRingBuffer, WellFoundedInduction, TLAPS

(* The inductive invariant: the shape of the state and its order. *)
RingInv == RingTypeOK /\ RingOrdered

(* From(s, k) drops the first k - 1 units: what discardFrontLocked leaves. *)
LEMMA FromFacts ==
  ASSUME NEW S, NEW s \in Seq(S), NEW k \in 1..Len(s)+1
  PROVE  /\ From(s, k) \in Seq(S)
         /\ Len(From(s, k)) = Len(s) - k + 1
         /\ \A i \in 1..Len(From(s, k)) : From(s, k)[i] = s[k + i - 1]
BY DEF From

(* A sequence of one generation, in time order, whose last unit is u. *)
EndsIn(s, u) ==
  /\ s \in Seq(AccessUnit)
  /\ Len(s) >= 1
  /\ s[Len(s)] = u
  /\ \A i \in 1..Len(s) : s[i].gen = u.gen
  /\ \A i, j \in 1..Len(s) : i <= j => s[i].ts <= s[j].ts

(* Dropping a proper prefix keeps that form. *)
LEMMA FromEndsIn ==
  ASSUME NEW u, NEW s, EndsIn(s, u), NEW k \in 1..Len(s)
  PROVE  EndsIn(From(s, k), u)
<1> DEFINE f == From(s, k)
<1>1. /\ s \in Seq(AccessUnit) /\ Len(s) \in Nat
      /\ s[Len(s)] = u
      /\ \A i \in 1..Len(s) : s[i].gen = u.gen
      /\ \A i, j \in 1..Len(s) : i <= j => s[i].ts <= s[j].ts
  BY DEF EndsIn
<1>2. /\ f \in Seq(AccessUnit)
      /\ Len(f) = Len(s) - k + 1
      /\ \A i \in 1..Len(f) : f[i] = s[k + i - 1]
  BY <1>1, FromFacts
<1>3. Len(f) >= 1 /\ f[Len(f)] = u
  BY <1>1, <1>2
<1>4. \A i \in 1..Len(f) : k + i - 1 \in 1..Len(s)
  BY <1>1, <1>2
<1>5. \A i \in 1..Len(f) : f[i].gen = u.gen
  BY <1>1, <1>2, <1>4
<1>6. \A i, j \in 1..Len(f) : i <= j => f[i].ts <= f[j].ts
  <2> SUFFICES ASSUME NEW i \in 1..Len(f), NEW j \in 1..Len(f), i <= j
               PROVE  f[i].ts <= f[j].ts
    OBVIOUS
  <2> HIDE DEF f
  <2>1. f[i] = s[k + i - 1] /\ f[j] = s[k + j - 1]
    BY <1>2
  <2>2. /\ k + i - 1 \in 1..Len(s) /\ k + j - 1 \in 1..Len(s)
        /\ k + i - 1 <= k + j - 1
    BY <1>2, <1>4
  <2> QED BY <1>1, <2>1, <2>2
<1> QED BY <1>2, <1>3, <1>5, <1>6 DEF EndsIn

(* Both pruning loops, run on such a sequence, re-establish the invariant. *)
LEMMA PruneOrdered ==
  ASSUME NEW u \in AccessUnit, u.gen # 0, NEW s, EndsIn(s, u), NEW b,
         Prune(s, b, u)
  PROVE  /\ units' \in Seq(AccessUnit) /\ generation' \in Nat /\ latest' \in Nat
         /\ RingOrdered'
<1> DEFINE SS == Seq(AccessUnit)
<1>1. PICK k \in 1..Len(s) :
        LET aged == From(s, k)
            left == b - SizeOfFirst(s, k-1)
        IN \E m \in 1..Len(aged)+1 :
             /\ PruneByBytesKeeps(aged, left, m)
             /\ units' = From(aged, m)
             /\ generation' = IF m > Len(aged) THEN 0 ELSE u.gen
             /\ latest' = IF m > Len(aged) THEN 0 ELSE u.ts
  BY DEF Prune
<1> DEFINE aged == From(s, k)
           left == b - SizeOfFirst(s, k-1)
<1>2. PICK m \in 1..Len(aged)+1 :
        /\ PruneByBytesKeeps(aged, left, m)
        /\ units' = From(aged, m)
        /\ generation' = IF m > Len(aged) THEN 0 ELSE u.gen
        /\ latest' = IF m > Len(aged) THEN 0 ELSE u.ts
  BY <1>1
<1>3. EndsIn(aged, u)
  BY FromEndsIn
<1>4. aged \in Seq(AccessUnit) /\ Len(aged) \in Nat
  BY <1>3 DEF EndsIn
<1>5. u.gen \in Nat /\ u.ts \in Nat
  BY DEF AccessUnit
<1>6. CASE m = Len(aged) + 1
  <2>1. units' \in Seq(AccessUnit) /\ Len(units') = 0
    BY <1>2, <1>4, <1>6, FromFacts
  <2>2. units' = <<>> /\ generation' = 0 /\ latest' = 0
    BY <1>2, <1>4, <1>6, <2>1
  <2> QED BY <2>1, <2>2 DEF RingOrdered, StartsDecodable, OneGeneration, TimeOrdered
<1>7. CASE m \in 1..Len(aged)
  <2>1. EndsIn(units', u)
    BY <1>2, <1>3, <1>7, FromEndsIn
  <2>2. generation' = u.gen /\ latest' = u.ts
    BY <1>2, <1>4, <1>7
  <2>3. aged[m].idr
    BY <1>2, <1>7 DEF PruneByBytesKeeps
  <2>4. units'[1] = aged[m]
    <3>1. /\ Len(From(aged, m)) = Len(aged) - m + 1
          /\ \A i \in 1..Len(From(aged, m)) : From(aged, m)[i] = aged[m + i - 1]
      BY <1>4, <1>7, FromFacts
    <3> QED BY <3>1, <1>2, <1>4, <1>7
  <2>5. units' # <<>>
    BY <2>1 DEF EndsIn
  <2> QED BY <2>1, <2>2, <2>3, <2>4, <2>5, <1>5
          DEF EndsIn, RingOrdered, StartsDecodable, OneGeneration, TimeOrdered
<1> QED BY <1>4, <1>6, <1>7

(* What push() hands to the pruning loops has the form they need: the unit *)
(* alone after a reset, otherwise the ring with the unit appended.         *)
LEMMA AppendEndsIn ==
  ASSUME RingInv, NEW u \in AccessUnit, ~ResetsRing(u)
  PROVE  EndsIn(Append(units, u), u)
<1> DEFINE a == Append(units, u)
<1>1. /\ units \in Seq(AccessUnit) /\ Len(units) \in Nat
      /\ a \in Seq(AccessUnit) /\ Len(a) = Len(units) + 1
      /\ a[Len(a)] = u
      /\ \A i \in 1..Len(units) : a[i] = units[i]
  BY DEF RingInv, RingTypeOK
<1>2. \A i \in 1..Len(units) : units[i].gen = u.gen /\ units[i].ts <= u.ts
  <2> SUFFICES ASSUME NEW i \in 1..Len(units)
               PROVE  units[i].gen = u.gen /\ units[i].ts <= u.ts
    OBVIOUS
  <2>1. units # <<>>
    BY <1>1
  <2>2. u.gen = generation /\ ~(u.ts < latest)
    BY <2>1 DEF ResetsRing
  <2>3. units[i] \in AccessUnit /\ units[Len(units)] \in AccessUnit
    BY <1>1
  <2>4. u.ts \in Nat /\ latest \in Nat /\ units[i].ts \in Nat
    BY <2>3 DEF AccessUnit, RingInv, RingTypeOK
  <2>5. units[i].ts <= units[Len(units)].ts /\ latest = units[Len(units)].ts
    BY <1>1, <2>1 DEF RingInv, RingOrdered, TimeOrdered
  <2> QED BY <2>2, <2>4, <2>5 DEF RingInv, RingOrdered, OneGeneration
<1>3. \A i \in 1..Len(a) : a[i].gen = u.gen
  BY <1>1, <1>2
<1>4. \A i, j \in 1..Len(a) : i <= j => a[i].ts <= a[j].ts
  <2> SUFFICES ASSUME NEW i \in 1..Len(a), NEW j \in 1..Len(a), i <= j
               PROVE  a[i].ts <= a[j].ts
    OBVIOUS
  <2>1. CASE j \in 1..Len(units)
    BY <1>1, <2>1 DEF RingInv, RingOrdered, TimeOrdered
  <2>2. CASE j = Len(a)
    <3>1. u.ts \in Nat
      BY DEF AccessUnit
    <3> QED BY <1>1, <1>2, <2>2, <3>1
  <2> QED BY <1>1, <2>1, <2>2
<1> QED BY <1>1, <1>3, <1>4 DEF EndsIn

LEMMA SingletonEndsIn ==
  ASSUME NEW u \in AccessUnit
  PROVE  EndsIn(<<u>>, u)
<1>1. u.ts \in Nat
  BY DEF AccessUnit
<1> QED BY <1>1 DEF EndsIn

(* push() past its rejections preserves the invariant. *)
LEMMA StoreInv ==
  ASSUME RingInv, NEW u \in AccessUnit, ~Rejected(u), Store(u)
  PROVE  RingInv'
<1>1. u.gen # 0
  BY DEF Rejected, RejectedInvalid
<1>2. resets' \in Nat
  BY DEF Store, RingInv, RingTypeOK
<1>3. CASE ResetsRing(u)
  <2>1. Prune(<<u>>, u.size, u)
    BY <1>3 DEF Store
  <2> QED BY <1>1, <1>2, <2>1, SingletonEndsIn, PruneOrdered DEF RingInv, RingTypeOK
<1>4. CASE ~ResetsRing(u)
  <2>1. Prune(Append(units, u), bytes + u.size, u)
    BY <1>4 DEF Store
  <2>2. EndsIn(Append(units, u), u)
    BY <1>4, AppendEndsIn
  <2> QED BY <1>1, <1>2, <2>1, <2>2, PruneOrdered DEF RingInv, RingTypeOK
<1> QED BY <1>3, <1>4

LEMMA PushInv ==
  ASSUME RingInv, NEW u \in AccessUnit, push(u)
  PROVE  RingInv'
<1>1. CASE Rejected(u) /\ UNCHANGED ringVars
  BY <1>1 DEF ringVars, RingInv, RingTypeOK, RingOrdered, StartsDecodable,
              OneGeneration, TimeOrdered
<1>2. CASE ~Rejected(u) /\ Store(u)
  BY <1>2, StoreInv
<1> QED BY <1>1, <1>2 DEF push

LEMMA ClearInv ==
  ASSUME RingInv, clear
  PROVE  RingInv'
BY DEF clear, RingInv, RingTypeOK, RingOrdered, StartsDecodable, OneGeneration,
       TimeOrdered

(* For every retention, every byte limit and every sequence of push() and  *)
(* clear() calls: the ring holds one generation, in time order, starting   *)
(* with an independently decodable unit.                                   *)
THEOREM RingAlwaysOrdered == RingSpec => [](RingTypeOK /\ RingOrdered)
<1>1. RingInit => RingInv
  BY DEF RingInit, RingInv, RingTypeOK, RingOrdered, StartsDecodable,
         OneGeneration, TimeOrdered
<1>2. RingInv /\ [RingNext]_ringVars => RingInv'
  <2> SUFFICES ASSUME RingInv, [RingNext]_ringVars
               PROVE  RingInv'
    OBVIOUS
  <2>1. CASE \E u \in AccessUnit : push(u)
    BY <2>1, PushInv
  <2>2. CASE clear
    BY <2>2, ClearInv
  <2>3. CASE UNCHANGED ringVars
    BY <2>3 DEF ringVars, RingInv, RingTypeOK, RingOrdered, StartsDecodable,
                OneGeneration, TimeOrdered
  <2> QED BY <2>1, <2>2, <2>3 DEF RingNext
<1>3. RingInv => RingTypeOK /\ RingOrdered
  BY DEF RingInv
<1> QED BY <1>1, <1>2, <1>3, PTL DEF RingSpec

-----------------------------------------------------------------------------
(* Induction.  The library's induction theorems have an operator as a      *)
(* parameter; the well-foundedness of < on Nat is a fact about sets, and   *)
(* enough.                                                                 *)

LEMMA LeastElement ==
  ASSUME NEW T \in SUBSET Nat, T # {}
  PROVE  \E m \in T : \A k \in T : m <= k
<1> DEFINE R == OpToRel(<, Nat)
<1>1. IsWellFoundedOn(R, Nat)
  BY NatLessThanWellFounded
<1>2. \A a, b \in Nat : a < b => <<a, b>> \in R
  BY DEF OpToRel
<1> HIDE DEF R
<1>3. PICK x \in T : \A y \in T : ~(<<y, x>> \in R)
  BY <1>1, WFMin
<1>4. \A y \in T : ~(y < x)
  BY <1>2, <1>3
<1>5. \A y \in T : x <= y
  BY <1>4
<1> QED BY <1>5

LEMMA GreatestElement ==
  ASSUME NEW n \in Nat, NEW T \in SUBSET (0..n), T # {}
  PROVE  \E m \in T : \A k \in T : k <= m
<1> DEFINE D == {n - k : k \in T}
<1>1. D \in SUBSET Nat /\ D # {}
  <2>1. \A k \in T : k \in 0..n
    OBVIOUS
  <2>2. \A k \in T : n - k \in Nat
    BY <2>1
  <2> QED BY <2>2
<1>2. PICK d \in D : \A e \in D : d <= e
  BY <1>1, LeastElement
<1>3. PICK m \in T : d = n - m
  BY <1>2
<1>4. \A k \in T : n - m <= n - k
  BY <1>2, <1>3
<1>5. \A k \in T : k <= m
  BY <1>4
<1> QED BY <1>5

LEMMA SetInduction ==
  ASSUME NEW T, 0 \in T, \A n \in Nat : n \in T => n + 1 \in T
  PROVE  Nat \subseteq T
<1> DEFINE B == Nat \ T
<1> SUFFICES ASSUME B # {} PROVE FALSE
  OBVIOUS
<1>1. PICK m \in B : \A k \in B : m <= k
  BY LeastElement
<1>2. m \in Nat /\ m # 0 /\ m - 1 \in Nat /\ m - 1 \notin B
  BY <1>1
<1> QED BY <1>1, <1>2

-----------------------------------------------------------------------------
(* The bytes of the first units of a sequence.                             *)

(* f is the running total of the sizes in s, up to its n-th unit. *)
IsTotal(f, s, n) ==
  f = [i \in 0..n |-> IF i = 0 THEN 0 ELSE f[i-1] + s[i].size]

LEMMA TotalExists ==
  ASSUME NEW s, NEW n \in Nat
  PROVE  \E f : IsTotal(f, s, n)
<1> DEFINE T == {m \in Nat : \E f : IsTotal(f, s, m)}
<1>1. 0 \in T
  <2> DEFINE f == [i \in 0..0 |-> 0]
  <2>1. f = [i \in 0..0 |-> IF i = 0 THEN 0 ELSE f[i-1] + s[i].size]
    OBVIOUS
  <2> QED BY <2>1 DEF IsTotal
<1>2. ASSUME NEW m \in Nat, m \in T PROVE m + 1 \in T
  <2>1. PICK f : IsTotal(f, s, m)
    BY <1>2
  <2> DEFINE g == [i \in 0..m+1 |-> IF i = m + 1 THEN f[m] + s[m+1].size ELSE f[i]]
  <2>2. ASSUME NEW i \in 0..m+1
        PROVE  g[i] = IF i = 0 THEN 0 ELSE g[i-1] + s[i].size
    <3>1. CASE i = m + 1
      BY <3>1
    <3>2. CASE i \in 0..m
      <4>1. g[i] = f[i] /\ (i # 0 => g[i-1] = f[i-1])
        BY <3>2
      <4>2. f[i] = IF i = 0 THEN 0 ELSE f[i-1] + s[i].size
        BY <2>1, <3>2 DEF IsTotal
      <4> HIDE DEF g
      <4> QED BY <4>1, <4>2
    <3> QED BY <3>1, <3>2
  <2>3. g = [i \in 0..m+1 |-> g[i]]
    OBVIOUS
  <2> HIDE DEF g
  <2>4. IsTotal(g, s, m + 1)
    BY <2>2, <2>3 DEF IsTotal
  <2> QED BY <2>4
<1> HIDE DEF T
<1>3. Nat \subseteq T
  BY <1>1, <1>2, SetInduction
<1> QED BY <1>3 DEF T

(* SizeOfFirst satisfies its recursion equations. *)
LEMMA SizeOfFirstDef ==
  ASSUME NEW s, Len(s) \in Nat
  PROVE  /\ SizeOfFirst(s, 0) = 0
         /\ \A i \in 1..Len(s) : SizeOfFirst(s, i) = SizeOfFirst(s, i-1) + s[i].size
<1> DEFINE total == CHOOSE f : IsTotal(f, s, Len(s))
<1>1. \A i \in 0..Len(s) : SizeOfFirst(s, i) = total[i]
  BY DEF SizeOfFirst, IsTotal
<1>2. IsTotal(total, s, Len(s))
  <2>1. \E f : IsTotal(f, s, Len(s))
    BY TotalExists
  <2> QED BY <2>1, Zenon
<1> HIDE DEF total
<1>3. \A i \in 0..Len(s) : total[i] = IF i = 0 THEN 0 ELSE total[i-1] + s[i].size
  BY <1>2 DEF IsTotal
<1> QED BY <1>1, <1>3

LEMMA UnitFields ==
  ASSUME NEW s \in Seq(AccessUnit), NEW i \in 1..Len(s)
  PROVE  s[i] \in AccessUnit /\ s[i].size \in Nat /\ s[i].ts \in Nat /\ s[i].idr \in BOOLEAN
<1>1. s[i] \in AccessUnit
  OBVIOUS
<1> QED BY <1>1 DEF AccessUnit

LEMMA SizeOfFirstNat ==
  ASSUME NEW s \in Seq(AccessUnit)
  PROVE  \A n \in 0..Len(s) : SizeOfFirst(s, n) \in Nat
<1> DEFINE T == {n \in Nat : n <= Len(s) => SizeOfFirst(s, n) \in Nat}
<1>1. 0 \in T
  BY SizeOfFirstDef
<1>2. ASSUME NEW n \in Nat, n \in T PROVE n + 1 \in T
  <2>1. CASE n + 1 <= Len(s)
    <3>1. s[n+1].size \in Nat
      BY <2>1, UnitFields
    <3>2. SizeOfFirst(s, n+1) = SizeOfFirst(s, n) + s[n+1].size
      BY <2>1, SizeOfFirstDef
    <3> QED BY <1>2, <2>1, <3>1, <3>2
  <2> QED BY <2>1
<1> HIDE DEF T
<1>3. Nat \subseteq T
  BY <1>1, <1>2, SetInduction
<1> QED BY <1>3 DEF T

LEMMA SizeOfFirstGrows ==
  ASSUME NEW s \in Seq(AccessUnit), NEW i \in 0..Len(s), NEW j \in 0..Len(s), i <= j
  PROVE  SizeOfFirst(s, i) <= SizeOfFirst(s, j)
<1> DEFINE T == {d \in Nat : i + d <= Len(s) => SizeOfFirst(s, i) <= SizeOfFirst(s, i + d)}
<1>1. 0 \in T
  BY SizeOfFirstNat
<1>2. ASSUME NEW d \in Nat, d \in T PROVE d + 1 \in T
  <2>1. CASE i + d + 1 <= Len(s)
    <3>1. s[i+d+1].size \in Nat
      BY <2>1, UnitFields
    <3>2. SizeOfFirst(s, i+d+1) = SizeOfFirst(s, i+d) + s[i+d+1].size
      BY <2>1, SizeOfFirstDef
    <3>3. SizeOfFirst(s, i) \in Nat /\ SizeOfFirst(s, i+d) \in Nat
      BY <2>1, SizeOfFirstNat
    <3> QED BY <1>2, <2>1, <3>1, <3>2, <3>3
  <2> QED BY <2>1
<1> HIDE DEF T
<1>3. Nat \subseteq T
  BY <1>1, <1>2, SetInduction
<1>4. j - i \in T
  BY <1>3
<1> QED BY <1>4 DEF T

(* What is appended does not count among the first. *)
LEMMA SizeOfFirstAppend ==
  ASSUME NEW s \in Seq(AccessUnit), NEW u \in AccessUnit
  PROVE  \A n \in 0..Len(s) : SizeOfFirst(Append(s, u), n) = SizeOfFirst(s, n)
<1> DEFINE a == Append(s, u)
           T == {n \in Nat : n <= Len(s) => SizeOfFirst(a, n) = SizeOfFirst(s, n)}
<1>0. a \in Seq(AccessUnit) /\ Len(a) = Len(s) + 1 /\ \A i \in 1..Len(s) : a[i] = s[i]
  OBVIOUS
<1> HIDE DEF a
<1>1. 0 \in T
  BY <1>0, SizeOfFirstDef
<1>2. ASSUME NEW n \in Nat, n \in T PROVE n + 1 \in T
  <2>1. CASE n + 1 <= Len(s)
    <3>1. /\ SizeOfFirst(s, n+1) = SizeOfFirst(s, n) + s[n+1].size
          /\ SizeOfFirst(a, n+1) = SizeOfFirst(a, n) + a[n+1].size
      BY <1>0, <2>1, SizeOfFirstDef
    <3> QED BY <1>0, <1>2, <2>1, <3>1
  <2> QED BY <2>1
<1> HIDE DEF T
<1>3. Nat \subseteq T
  BY <1>1, <1>2, SetInduction
<1> QED BY <1>3 DEF T, a

(* The first units of a suffix come after those it leaves out. *)
LEMMA SizeOfFirstFrom ==
  ASSUME NEW s \in Seq(AccessUnit), NEW k \in 1..Len(s)+1
  PROVE  \A n \in 0..Len(s)-k+1 :
           SizeOfFirst(From(s, k), n) = SizeOfFirst(s, k-1+n) - SizeOfFirst(s, k-1)
<1> DEFINE f == From(s, k)
           T == {n \in Nat : n <= Len(s)-k+1 =>
                   SizeOfFirst(f, n) = SizeOfFirst(s, k-1+n) - SizeOfFirst(s, k-1)}
<1>0. /\ f \in Seq(AccessUnit) /\ Len(f) = Len(s) - k + 1
      /\ \A i \in 1..Len(f) : f[i] = s[k + i - 1]
  BY FromFacts
<1> HIDE DEF f
<1>1. 0 \in T
  <2>1. SizeOfFirst(f, 0) = 0
    BY <1>0, SizeOfFirstDef
  <2>2. SizeOfFirst(s, k-1) \in Nat
    BY SizeOfFirstNat
  <2> QED BY <2>1, <2>2
<1>2. ASSUME NEW n \in Nat, n \in T PROVE n + 1 \in T
  <2>1. CASE n + 1 <= Len(s)-k+1
    <3>1. /\ SizeOfFirst(f, n+1) = SizeOfFirst(f, n) + f[n+1].size
          /\ f[n+1] = s[k+n]
      <4>1. n + 1 \in 1..Len(f) /\ n + 1 - 1 = n /\ k + (n + 1) - 1 = k + n
        BY <1>0, <2>1
      <4>0. \A i \in 1..Len(f) : SizeOfFirst(f, i) = SizeOfFirst(f, i-1) + f[i].size
        BY <1>0, SizeOfFirstDef
      <4>2. SizeOfFirst(f, n+1) = SizeOfFirst(f, n+1-1) + f[n+1].size
        BY <4>0, <4>1
      <4>3. f[n+1] = s[k+(n+1)-1]
        BY <1>0, <4>1
      <4> QED BY <4>1, <4>2, <4>3
    <3>2. k + n \in 1..Len(s)
      BY <2>1
    <3>3. SizeOfFirst(s, k+n) = SizeOfFirst(s, k+n-1) + s[k+n].size
      BY <3>2, SizeOfFirstDef
    <3>4. s[k+n].size \in Nat
      BY <3>2, UnitFields
    <3>5. /\ SizeOfFirst(s, k-1) \in Nat
          /\ SizeOfFirst(s, k+n-1) \in Nat /\ SizeOfFirst(s, k+n) \in Nat
      BY <3>2, SizeOfFirstNat
    <3>6. k-1+n = k+n-1 /\ k-1+(n+1) = k+n
      BY <3>2
    <3>7. SizeOfFirst(f, n) = SizeOfFirst(s, k+n-1) - SizeOfFirst(s, k-1)
      BY <1>2, <2>1, <3>6
    <3>8. SizeOfFirst(f, n+1) = SizeOfFirst(s, k+n) - SizeOfFirst(s, k-1)
      <4> DEFINE a == SizeOfFirst(s, k+n-1)
                 b == SizeOfFirst(s, k-1)
                 c == s[k+n].size
                 d == SizeOfFirst(s, k+n)
                 g == SizeOfFirst(f, n)
                 h == SizeOfFirst(f, n+1)
      <4>1. /\ a \in Nat /\ b \in Nat /\ c \in Nat /\ d \in Nat
            /\ h = g + c /\ d = a + c /\ g = a - b
        BY <3>1, <3>3, <3>4, <3>5, <3>7
      <4> HIDE DEF a, b, c, d, g, h
      <4>2. h = d - b
        BY <4>1
      <4> QED BY <4>2 DEF b, d, h
    <3> QED BY <3>6, <3>8
  <2> QED BY <2>1
<1> HIDE DEF T
<1>3. Nat \subseteq T
  BY <1>1, <1>2, SetInduction
<1> QED BY <1>3 DEF T, f

-----------------------------------------------------------------------------
(* The window of the accepted history.                                     *)

(* Accepted units: in time order, none of them without a timestamp. *)
Ordered(e) ==
  /\ e \in Seq(AccessUnit)
  /\ \A i \in 1..Len(e) : e[i].ts # 0
  /\ \A i, j \in 1..Len(e) : i <= j => e[i].ts <= e[j].ts

(* The longest window of e starts at w; there is none if w is behind e. *)
WindowAt(e, w) ==
  /\ w \in 1..Len(e)+1
  /\ w <= Len(e) => StartsWindow(e, w)
  /\ \A i \in 1..w-1 : ~StartsWindow(e, i)

(* Discarding twice is discarding once. *)
LEMMA FromFrom ==
  ASSUME NEW S, NEW s \in Seq(S), NEW k \in 1..Len(s)+1, NEW m \in 1..Len(s)-k+2
  PROVE  From(From(s, k), m) = From(s, k+m-1)
<1> DEFINE f == From(s, k)
           g == From(f, m)
           h == From(s, k+m-1)
<1>1. /\ f \in Seq(S) /\ Len(f) = Len(s) - k + 1
      /\ \A i \in 1..Len(f) : f[i] = s[k + i - 1]
  BY FromFacts
<1>2. m \in 1..Len(f)+1 /\ k+m-1 \in 1..Len(s)+1
  <2>1. Len(f) = Len(s) - k + 1 /\ Len(s) \in Nat
    BY <1>1
  <2> HIDE DEF f
  <2> QED BY <2>1
<1>3. /\ g \in Seq(S) /\ Len(g) = Len(f) - m + 1
      /\ \A i \in 1..Len(g) : g[i] = f[m + i - 1]
  <2>1. f \in Seq(S) /\ m \in 1..Len(f)+1
    BY <1>1, <1>2
  <2> HIDE DEF f
  <2> QED BY <2>1, FromFacts
<1>4. /\ h \in Seq(S) /\ Len(h) = Len(s) - (k+m-1) + 1
      /\ \A i \in 1..Len(h) : h[i] = s[k+m-1 + i - 1]
  BY <1>2, FromFacts
<1> HIDE DEF f, g, h
<1>5. /\ Len(f) = Len(s) - k + 1 /\ Len(g) = Len(f) - m + 1
      /\ Len(h) = Len(s) - (k+m-1) + 1 /\ Len(s) \in Nat
  BY <1>1, <1>3, <1>4
<1>6. Len(g) = Len(h)
  BY <1>5
<1>7. ASSUME NEW i \in 1..Len(g) PROVE g[i] = h[i]
  <2>1. m + i - 1 \in 1..Len(f) /\ k + (m + i - 1) - 1 = k+m-1 + i - 1
    BY <1>5
  <2>2. g[i] = f[m + i - 1] /\ h[i] = s[k+m-1 + i - 1]
    BY <1>3, <1>4, <1>6
  <2>3. f[m + i - 1] = s[k + (m + i - 1) - 1]
    BY <1>1, <2>1
  <2> QED BY <2>1, <2>2, <2>3
<1>8. g = h
  BY <1>3, <1>4, <1>6, <1>7
<1> QED BY <1>8 DEF f, g, h

LEMMA SizeFromFrom ==
  ASSUME NEW s \in Seq(AccessUnit), NEW k \in 1..Len(s)+1, NEW j \in 1..Len(s)-k+2
  PROVE  SizeFrom(From(s, k), j) = SizeFrom(s, k+j-1)
<1> DEFINE f == From(s, k)
<1>1. f \in Seq(AccessUnit) /\ Len(f) = Len(s) - k + 1
  BY FromFacts
<1>2. SizeOfFirst(f, Len(f)) = SizeOfFirst(s, k-1+Len(f)) - SizeOfFirst(s, k-1)
  BY <1>1, SizeOfFirstFrom
<1>3. SizeOfFirst(f, j-1) = SizeOfFirst(s, k-1+(j-1)) - SizeOfFirst(s, k-1)
  BY SizeOfFirstFrom
<1>4. k-1+Len(f) = Len(s) /\ k-1+(j-1) = k+j-1-1 /\ k+j-1-1 \in 0..Len(s)
  BY <1>1
<1>5. /\ SizeOfFirst(s, k-1) \in Nat /\ SizeOfFirst(s, Len(s)) \in Nat
      /\ SizeOfFirst(s, k+j-1-1) \in Nat
  BY <1>4, SizeOfFirstNat
<1> HIDE DEF f
<1>6. SizeOfFirst(f, Len(f)) - SizeOfFirst(f, j-1)
        = SizeOfFirst(s, Len(s)) - SizeOfFirst(s, k+j-1-1)
  <2>1. \A a, b, c \in Nat : (a - c) - (b - c) = a - b
    OBVIOUS
  <2>2. /\ SizeOfFirst(f, Len(f)) = SizeOfFirst(s, Len(s)) - SizeOfFirst(s, k-1)
        /\ SizeOfFirst(f, j-1) = SizeOfFirst(s, k+j-1-1) - SizeOfFirst(s, k-1)
    BY <1>2, <1>3, <1>4
  <2> QED BY <1>5, <2>1, <2>2
<1> QED BY <1>6 DEF SizeFrom, f

(* A later start takes less. *)
LEMMA SizeFromFalls ==
  ASSUME NEW s \in Seq(AccessUnit), NEW i \in 1..Len(s)+1, NEW j \in 1..Len(s)+1, i <= j
  PROVE  SizeFrom(s, i) \in Nat /\ SizeFrom(s, j) \in Nat /\ SizeFrom(s, j) <= SizeFrom(s, i)
<1>1. SizeOfFirst(s, i-1) <= SizeOfFirst(s, j-1) /\ SizeOfFirst(s, j-1) <= SizeOfFirst(s, Len(s))
  BY SizeOfFirstGrows
<1>2. /\ SizeOfFirst(s, i-1) \in Nat /\ SizeOfFirst(s, j-1) \in Nat
      /\ SizeOfFirst(s, Len(s)) \in Nat
  BY SizeOfFirstNat
<1> QED BY <1>1, <1>2 DEF SizeFrom

(* pruneByTimeLocked drops no start of a window, and what it keeps has no  *)
(* decodable unit at or before the cutoff but possibly its first.          *)
LEMMA AgedOut ==
  ASSUME NEW e, Ordered(e), NEW w \in 1..Len(e), NEW k \in 1..Len(e)-w+1,
         PruneByTimeKeeps(From(e, w), e[Len(e)].ts, k)
  PROVE  /\ \A i \in w..w+k-2 : ~StartsWindow(e, i)
         /\ \A j \in w+k..Len(e) : ~(e[j].idr /\ e[j].ts <= e[Len(e)].ts - Retention)
<1> DEFINE s == From(e, w)
           n == Len(e)
           now == e[n].ts
<1>1. /\ e \in Seq(AccessUnit) /\ n \in Nat
      /\ s \in Seq(AccessUnit) /\ Len(s) = n - w + 1
      /\ \A i \in 1..Len(s) : s[i] = e[w + i - 1]
  <2>1. e \in Seq(AccessUnit)
    BY DEF Ordered
  <2>2. n \in Nat /\ w \in 1..n+1
    BY <2>1
  <2> QED BY <2>1, <2>2, FromFacts
<1>2. \A i \in 1..n : e[i].ts \in Nat /\ e[i].ts # 0
  BY <1>1, UnitFields DEF Ordered
<1>3. now \in Nat /\ Retention \in Nat
  BY <1>1, <1>2, RingAssumption
<1> HIDE DEF s, now
<1>4. ASSUME NEW j \in w..n
      PROVE  /\ j-w+1 \in 1..Len(s) /\ s[j-w+1] = e[j]
             /\ DecodableBeforeCutoff(s, now, j-w+1) <=> e[j].idr /\ e[j].ts <= now - Retention
  <2>1. j \in 1..n /\ j-w+1 \in 1..Len(s) /\ w + (j-w+1) - 1 = j
    BY <1>1
  <2>2. s[j-w+1] = e[j]
    BY <1>1, <2>1
  <2>3. ASSUME e[j].ts <= now - Retention, NEW i \in 1..j-w+1
        PROVE  s[i].ts <= now - Retention
    <3>1. i \in 1..Len(s) /\ w+i-1 \in 1..n /\ w+i-1 <= j
      BY <1>1
    <3>2. s[i] = e[w+i-1]
      BY <1>1, <3>1
    <3>3. e[w+i-1].ts <= e[j].ts
      BY <2>1, <3>1 DEF Ordered
    <3>4. e[w+i-1].ts \in Nat /\ e[j].ts \in Nat
      BY <1>2, <2>1, <3>1
    <3>5. e[w+i-1].ts <= now - Retention
      <4>1. \A a, b \in Nat, c \in Int : a <= b /\ b <= c => a <= c
        OBVIOUS
      <4>2. now - Retention \in Int
        BY <1>3, RingAssumption
      <4> QED BY <2>3, <3>3, <3>4, <4>1, <4>2
    <3> QED BY <3>2, <3>5
  <2>4. j-w+1 \in 1..j-w+1
    BY <2>1
  <2> QED BY <2>1, <2>2, <2>3, <2>4 DEF DecodableBeforeCutoff
<1>5. \A i \in 1..n :
        StartsWindow(e, i) =>
          e[i].idr /\ \A j \in i+1..n : ~(e[j].idr /\ e[j].ts <= now - Retention)
  BY DEF StartsWindow, now
<1>6. PruneByTimeKeeps(s, now, k) /\ k \in 1..Len(s)
  BY <1>1 DEF s, now
<1>7. CASE (Len(s) < 2 \/ now <= Retention) /\ k = 1
  <2>1. \A i \in w..w+k-2 : FALSE
    BY <1>7
  <2>2. ASSUME NEW j \in w+k..n, e[j].ts <= now - Retention PROVE FALSE
    <3>1. j \in 1..n /\ e[j].ts \in Nat /\ e[j].ts # 0
      BY <1>2, <1>7
    <3>2. n >= w + 1
      BY <1>1, <1>7
    <3> QED BY <1>1, <1>3, <1>7, <2>2, <3>1, <3>2
  <2> QED BY <2>1, <2>2 DEF now
<1>8. CASE /\ DecodableBeforeCutoff(s, now, k)
           /\ \A j \in k+1..Len(s) : ~DecodableBeforeCutoff(s, now, j)
  <2>1. w+k-1 \in w..n /\ (w+k-1)-w+1 = k
    BY <1>1, <1>6
  <2>2. e[w+k-1].idr /\ e[w+k-1].ts <= now - Retention
    BY <1>4, <1>8, <2>1
  <2>3. ASSUME NEW i \in w..w+k-2 PROVE ~StartsWindow(e, i)
    <3>1. i \in 1..n /\ w+k-1 \in i+1..n
      BY <2>1
    <3> QED BY <1>5, <2>2, <3>1
  <2>4. ASSUME NEW j \in w+k..n PROVE ~(e[j].idr /\ e[j].ts <= now - Retention)
    <3>1. j \in w..n /\ j-w+1 \in k+1..Len(s)
      BY <1>1
    <3> QED BY <1>4, <1>8, <3>1
  <2> QED BY <2>3, <2>4 DEF now
<1>9. CASE /\ \A j \in 1..Len(s) : ~DecodableBeforeCutoff(s, now, j)
           /\ \A j \in 1..k-1 : s[j].ts < now - Retention
  <2>1. ASSUME NEW j \in w..n PROVE ~(e[j].idr /\ e[j].ts <= now - Retention)
    BY <1>4, <1>9
  <2>2. ASSUME NEW i \in w..w+k-2 PROVE ~StartsWindow(e, i)
    <3>1. i \in w..n /\ i \in 1..n /\ i-w+1 \in 1..k-1
      BY <1>1, <1>6
    <3>2. e[i].ts < now - Retention /\ e[i].ts \in Nat
      BY <1>2, <1>4, <1>9, <3>1
    <3>3. ~e[i].idr
      BY <1>3, <2>1, <3>1, <3>2
    <3> QED BY <1>5, <3>1, <3>3
  <2>3. \A j \in w+k..n : j \in w..n
    OBVIOUS
  <2> QED BY <2>1, <2>2, <2>3 DEF now
<1> QED BY <1>6, <1>7, <1>8, <1>9 DEF PruneByTimeKeeps

(* All of a sequence. *)
LEMMA SizeFromFirst ==
  ASSUME NEW s \in Seq(AccessUnit)
  PROVE  SizeFrom(s, 1) = SizeOfFirst(s, Len(s))
<1>1. SizeOfFirst(s, 0) = 0 /\ SizeOfFirst(s, Len(s)) \in Nat
  BY SizeOfFirstDef, SizeOfFirstNat
<1> QED BY <1>1 DEF SizeFrom

(* pruneByBytesLocked drops no start of a window, and starts what it keeps *)
(* with a decodable unit from which on everything fits.                    *)
LEMMA PrunedBytes ==
  ASSUME NEW e \in Seq(AccessUnit), NEW x \in 1..Len(e), NEW m \in 1..Len(e)-x+2,
         PruneByBytesKeeps(From(e, x), SizeFrom(e, x), m)
  PROVE  /\ \A i \in x..x+m-2 : ~StartsWindow(e, i)
         /\ x+m-1 <= Len(e) => e[x+m-1].idr /\ SizeFrom(e, x+m-1) <= MaxBytes
<1> DEFINE a == From(e, x)
           left == SizeFrom(e, x)
           n == Len(e)
<1>1. /\ a \in Seq(AccessUnit) /\ Len(a) = n - x + 1 /\ n \in Nat
      /\ \A i \in 1..Len(a) : a[i] = e[x + i - 1]
  <2>1. n \in Nat /\ x \in 1..n+1
    OBVIOUS
  <2> QED BY <2>1, FromFacts
<1>2. ASSUME NEW j \in 1..Len(a)+1
      PROVE  left - SizeOfFirst(a, j-1) = SizeFrom(e, x+j-1)
  <2>0. x \in 1..n+1 /\ j \in 1..n-x+2
    <3>1. Len(a) = n - x + 1 /\ n \in Nat
      BY <1>1
    <3> HIDE DEF a
    <3> QED BY <3>1
  <2>1. SizeFrom(a, j) = SizeFrom(e, x+j-1)
    BY <2>0, SizeFromFrom
  <2>2. 1 \in 1..n-x+2 /\ x + 1 - 1 = x
    OBVIOUS
  <2>3. SizeFrom(a, 1) = left
    BY <2>2, SizeFromFrom
  <2>4. left = SizeOfFirst(a, Len(a))
    BY <1>1, <2>3, SizeFromFirst
  <2> QED BY <2>1, <2>4 DEF SizeFrom
<1>3. PICK f \in 1..m :
        /\ \A j \in 1..f-1 : left - SizeOfFirst(a, j-1) > MaxBytes
        /\ f <= Len(a) => left - SizeOfFirst(a, f-1) <= MaxBytes
        /\ \A j \in f..m-1 : ~a[j].idr
        /\ m <= Len(a) => a[m].idr
  BY DEF PruneByBytesKeeps
<1> HIDE DEF a, left
<1>4. MaxBytes \in Nat
  BY RingAssumption
<1>5. ASSUME NEW i \in x..x+m-2 PROVE ~StartsWindow(e, i)
  <2>1. i \in 1..n /\ i-x+1 \in 1..m-1 /\ i-x+1 \in 1..Len(a) /\ x+(i-x+1)-1 = i
    BY <1>1
  <2>2. CASE i-x+1 \in 1..f-1
    <3>1. SizeFrom(e, i) > MaxBytes
      <4> DEFINE j == i-x+1
      <4>1. j \in 1..f-1 /\ j \in 1..Len(a)+1 /\ x+j-1 = i
        BY <2>1, <2>2
      <4> HIDE DEF j
      <4>2. left - SizeOfFirst(a, j-1) = SizeFrom(e, x+j-1)
        BY <1>2, <4>1
      <4> QED BY <1>3, <4>1, <4>2
    <3>2. SizeFrom(e, i) \in Nat
      BY <2>1, SizeFromFalls
    <3> QED BY <1>4, <3>1, <3>2 DEF StartsWindow
  <2>3. CASE i-x+1 \in f..m-1
    <3>1. ~a[i-x+1].idr /\ a[i-x+1] = e[i]
      BY <1>1, <1>3, <2>1, <2>3
    <3> QED BY <3>1 DEF StartsWindow
  <2> QED BY <2>1, <2>2, <2>3
<1>6. ASSUME x+m-1 <= n PROVE e[x+m-1].idr /\ SizeFrom(e, x+m-1) <= MaxBytes
  <2>1. m \in 1..Len(a) /\ f \in 1..Len(a) /\ x+f-1 \in 1..n /\ x+m-1 \in 1..n
        /\ x+f-1 <= x+m-1
    <3>1. Len(a) = n - x + 1 /\ n \in Nat
      BY <1>1
    <3> HIDE DEF a
    <3> QED BY <1>6, <3>1
  <2>2. e[x+m-1].idr
    BY <1>1, <1>3, <2>1
  <2>3. SizeFrom(e, x+f-1) <= MaxBytes
    BY <1>2, <1>3, <2>1
  <2>4. /\ SizeFrom(e, x+m-1) <= SizeFrom(e, x+f-1)
        /\ SizeFrom(e, x+m-1) \in Nat /\ SizeFrom(e, x+f-1) \in Nat
    BY <2>1, SizeFromFalls, SMTT(20)
  <2> QED BY <1>4, <2>2, <2>3, <2>4
<1> QED BY <1>5, <1>6

(* Both loops, run on the end of a history from which no earlier window    *)
(* starts, leave its longest window and count its bytes.                   *)
LEMMA PruneWindow ==
  ASSUME NEW e, Ordered(e), NEW w \in 1..Len(e), \A i \in 1..w-1 : ~StartsWindow(e, i),
         Prune(From(e, w), SizeFrom(e, w), e[Len(e)])
  PROVE  /\ \E x : WindowAt(e, x) /\ units' = From(e, x)
         /\ units' \in Seq(AccessUnit)
         /\ bytes' = SizeOfFirst(units', Len(units'))
         /\ bytes' <= MaxBytes
<1> DEFINE s == From(e, w)
           n == Len(e)
           u == e[n]
<1>1. /\ e \in Seq(AccessUnit) /\ n \in Nat
      /\ s \in Seq(AccessUnit) /\ Len(s) = n - w + 1
  BY FromFacts DEF Ordered
<1>2. PICK k \in 1..Len(s) :
        /\ PruneByTimeKeeps(s, u.ts, k)
        /\ \E m \in 1..Len(From(s, k))+1 :
             /\ PruneByBytesKeeps(From(s, k), SizeFrom(e, w) - SizeOfFirst(s, k-1), m)
             /\ units' = From(From(s, k), m)
             /\ bytes' = (SizeFrom(e, w) - SizeOfFirst(s, k-1)) - SizeOfFirst(From(s, k), m-1)
  BY DEF Prune
<1> DEFINE x == w+k-1
           aged == From(e, x)
<1>3. x \in 1..n /\ k \in 1..n-w+1
  BY <1>1
<1>4. From(s, k) = aged /\ Len(aged) = n - x + 1 /\ aged \in Seq(AccessUnit)
  <2>1. w \in 1..n+1 /\ k \in 1..n-w+2 /\ x \in 1..n+1
    BY <1>1, <1>3
  <2>2. From(s, k) = aged
    BY <1>1, <2>1, FromFrom
  <2> HIDE DEF x
  <2> QED BY <1>1, <2>1, <2>2, FromFacts
<1>5. SizeFrom(e, w) - SizeOfFirst(s, k-1) = SizeFrom(e, x)
  <2>0. w \in 1..n+1 /\ k \in 1..n-w+2
    BY <1>1, <1>3
  <2>1. SizeFrom(s, k) = SizeFrom(e, x)
    <3>1. e \in Seq(AccessUnit)
      BY <1>1
    <3> QED BY <2>0, <3>1, SizeFromFrom
  <2>2. 1 \in 1..n-w+2 /\ w + 1 - 1 = w
    BY <1>1
  <2>3. SizeFrom(s, 1) = SizeFrom(e, w)
    <3>1. e \in Seq(AccessUnit)
      BY <1>1
    <3>2. SizeFrom(s, 1) = SizeFrom(e, w + 1 - 1)
      BY <2>0, <2>2, <3>1, SizeFromFrom
    <3> QED BY <2>2, <3>2
  <2>4. SizeFrom(e, w) = SizeOfFirst(s, Len(s))
    BY <1>1, <2>3, SizeFromFirst
  <2> HIDE DEF s
  <2> QED BY <2>1, <2>4 DEF SizeFrom
<1>6. PICK m \in 1..n-x+2 :
        /\ PruneByBytesKeeps(aged, SizeFrom(e, x), m)
        /\ units' = From(aged, m)
        /\ bytes' = SizeFrom(e, x) - SizeOfFirst(aged, m-1)
  BY <1>2, <1>3, <1>4, <1>5
<1>7. /\ \A i \in w..w+k-2 : ~StartsWindow(e, i)
      /\ \A j \in w+k..n : ~(e[j].idr /\ e[j].ts <= u.ts - Retention)
  BY <1>2, <1>3, AgedOut
<1> DEFINE y == x+m-1
<1>8. /\ \A i \in x..x+m-2 : ~StartsWindow(e, i)
      /\ y <= n => e[y].idr /\ SizeFrom(e, y) <= MaxBytes
  <2> HIDE DEF x
  <2> QED BY <1>1, <1>3, <1>6, PrunedBytes
<1>9. y \in 1..n+1 /\ y >= x
  BY <1>3
<1>10. units' = From(e, y) /\ units' \in Seq(AccessUnit)
  <2> HIDE DEF x
  <2>1. x \in 1..n+1
    BY <1>1, <1>3
  <2>2. From(aged, m) = From(e, y)
    BY <1>1, <2>1, FromFrom
  <2>3. From(e, y) \in Seq(AccessUnit)
    BY <1>1, <1>9, FromFacts
  <2> QED BY <1>6, <2>2, <2>3
<1>11. WindowAt(e, y)
  <2>1. ASSUME y <= n PROVE StartsWindow(e, y)
    <3>1. \A j \in y+1..n : j \in w+k..n
      BY <1>9
    <3> QED BY <1>7, <1>8, <2>1, <3>1 DEF StartsWindow
  <2>2. ASSUME NEW i \in 1..y-1 PROVE ~StartsWindow(e, i)
    <3>1. i \in 1..w-1 \/ i \in w..w+k-2 \/ i \in x..x+m-2
      OBVIOUS
    <3> HIDE DEF x, y
    <3> QED BY <1>7, <1>8, <3>1
  <2> HIDE DEF y
  <2> QED BY <1>9, <2>1, <2>2 DEF WindowAt
<1>12. bytes' = SizeFrom(e, y)
  <2> HIDE DEF x
  <2>0. x \in 1..n+1
    BY <1>1, <1>3
  <2>1. SizeFrom(aged, m) = SizeFrom(e, y)
    BY <1>1, <2>0, SizeFromFrom
  <2>2. 1 \in 1..n-x+2 /\ x + 1 - 1 = x
    BY <1>1, <1>3
  <2>3. SizeFrom(aged, 1) = SizeFrom(e, x)
    <3>1. e \in Seq(AccessUnit)
      BY <1>1
    <3>2. SizeFrom(aged, 1) = SizeFrom(e, x + 1 - 1)
      BY <2>0, <2>2, <3>1, SizeFromFrom
    <3> QED BY <2>2, <3>2
  <2>4. SizeFrom(e, x) = SizeOfFirst(aged, Len(aged))
    BY <1>4, <2>3, SizeFromFirst
  <2> HIDE DEF aged
  <2> QED BY <1>6, <2>1, <2>4 DEF SizeFrom
<1>13. bytes' = SizeOfFirst(units', Len(units'))
  <2> HIDE DEF y
  <2>1. 1 \in 1..n-y+2 /\ y + 1 - 1 = y
    BY <1>1, <1>9
  <2>2. SizeFrom(From(e, y), 1) = SizeFrom(e, y)
    BY <1>1, <1>9, <2>1, SizeFromFrom
  <2> QED BY <1>10, <1>12, <2>2, SizeFromFirst
<1>14. bytes' <= MaxBytes
  <2> HIDE DEF y
  <2>1. CASE y = n + 1
    <3>1. SizeFrom(e, y) = 0
      <4>1. SizeOfFirst(e, n) \in Nat /\ y - 1 = n
        BY <1>1, <2>1, SizeOfFirstNat
      <4> QED BY <4>1 DEF SizeFrom
    <3> QED BY <1>12, <3>1, RingAssumption
  <2>2. CASE y <= n
    BY <1>8, <1>12, <2>2
  <2> QED BY <1>1, <1>9, <2>1, <2>2
<1> HIDE DEF y
<1> QED BY <1>10, <1>11, <1>13, <1>14

(* The inductive invariant: the ring is the longest window of its history. *)
WindowInv ==
  /\ RingInv /\ Ordered(epoch)
  /\ \E w : WindowAt(epoch, w) /\ units = From(epoch, w)
  /\ bytes = SizeOfFirst(units, Len(units))
  /\ peak_bytes \in Nat /\ bytes <= peak_bytes /\ peak_bytes <= MaxBytes

LEMMA AppendFacts ==
  ASSUME NEW S, NEW s \in Seq(S), NEW u \in S
  PROVE  /\ Append(s, u) \in Seq(S) /\ Len(Append(s, u)) = Len(s) + 1
         /\ Append(s, u)[Len(s) + 1] = u
         /\ \A i \in 1..Len(s) : Append(s, u)[i] = s[i]
OBVIOUS

(* A history of one unit. *)
LEMMA FirstUnit ==
  ASSUME NEW u \in AccessUnit, ~Rejected(u)
  PROVE  LET e == <<u>> IN
         /\ Ordered(e) /\ 1 \in 1..Len(e) /\ e[Len(e)] = u
         /\ \A i \in 1..1-1 : ~StartsWindow(e, i)
         /\ From(e, 1) = e /\ SizeFrom(e, 1) = u.size
<1> DEFINE e == <<u>>
<1>1. e \in Seq(AccessUnit) /\ Len(e) = 1 /\ e[1] = u
  OBVIOUS
<1> HIDE DEF e
<1>2. u.ts \in Nat /\ u.ts # 0 /\ u.size \in Nat
  BY DEF AccessUnit, Rejected, RejectedInvalid
<1>3. Ordered(e)
  BY <1>1, <1>2 DEF Ordered
<1>4. From(e, 1) = e
  <2>1. 1 \in 1..Len(e)+1 /\ 1 + 1 - 1 = 1
    BY <1>1
  <2>2. /\ From(e, 1) \in Seq(AccessUnit) /\ Len(From(e, 1)) = 1
        /\ From(e, 1)[1] = e[1]
    BY <1>1, <2>1, FromFacts
  <2> QED BY <1>1, <2>2
<1>5. SizeOfFirst(e, 1) = 0 + u.size
  <2>1. /\ SizeOfFirst(e, 0) = 0
        /\ \A i \in 1..Len(e) : SizeOfFirst(e, i) = SizeOfFirst(e, i-1) + e[i].size
    BY <1>1, SizeOfFirstDef
  <2>2. 1 \in 1..Len(e) /\ 1 - 1 = 0
    BY <1>1
  <2>3. SizeOfFirst(e, 1) = SizeOfFirst(e, 1-1) + e[1].size
    BY <2>1, <2>2
  <2> QED BY <1>1, <2>1, <2>2, <2>3
<1>6. SizeFrom(e, 1) = u.size
  <2>1. SizeFrom(e, 1) = SizeOfFirst(e, 1)
    BY <1>1, SizeFromFirst
  <2> QED BY <1>2, <1>5, <2>1
<1> QED BY <1>1, <1>3, <1>4, <1>6 DEF e

(* A unit more: the end of the history from w on is the ring with it, and  *)
(* where no window starts none starts later on.                            *)
LEMMA NextUnit ==
  ASSUME NEW h, Ordered(h), Len(h) >= 1, NEW u \in AccessUnit, u.ts # 0,
         h[Len(h)].ts <= u.ts, NEW w \in 1..Len(h)
  PROVE  LET e == Append(h, u) IN
         /\ Ordered(e) /\ w \in 1..Len(e) /\ e[Len(e)] = u
         /\ \A i \in 1..Len(h) : StartsWindow(e, i) => StartsWindow(h, i)
         /\ From(e, w) = Append(From(h, w), u)
         /\ SizeFrom(e, w) = SizeFrom(h, w) + u.size
<1> DEFINE e == Append(h, u)
           n == Len(h)
<1>1. /\ h \in Seq(AccessUnit) /\ n \in Nat
      /\ e \in Seq(AccessUnit) /\ Len(e) = n + 1 /\ e[n+1] = u
      /\ \A i \in 1..n : e[i] = h[i]
  BY DEF Ordered
<1>2. /\ u.ts \in Nat /\ u.size \in Nat
      /\ \A i \in 1..n : h[i].ts \in Nat /\ h[i].ts # 0
  BY <1>1, UnitFields DEF AccessUnit, Ordered
<1>3. \A i \in 1..n : h[i].ts <= u.ts
  <2> SUFFICES ASSUME NEW i \in 1..n PROVE h[i].ts <= u.ts
    OBVIOUS
  <2>1. n \in 1..n /\ i <= n
    BY <1>1
  <2>2. h[i].ts <= h[n].ts
    BY <2>1 DEF Ordered
  <2> QED BY <1>2, <2>1, <2>2
<1> HIDE DEF e
<1>4. Ordered(e)
  <2>1. ASSUME NEW i \in 1..n+1 PROVE e[i].ts # 0
    BY <1>1, <1>2
  <2>2. ASSUME NEW i \in 1..n+1, NEW j \in 1..n+1, i <= j PROVE e[i].ts <= e[j].ts
    <3>1. CASE j \in 1..n
      <4>1. i \in 1..n /\ h[i].ts <= h[j].ts
        BY <1>1, <2>2, <3>1 DEF Ordered
      <4> QED BY <1>1, <3>1, <4>1
    <3>2. CASE j = n + 1 /\ i \in 1..n
      BY <1>1, <1>3, <3>2
    <3>3. CASE j = n + 1 /\ i = n + 1
      BY <1>1, <1>2, <3>3
    <3> QED BY <1>1, <2>2, <3>1, <3>2, <3>3
  <2> QED BY <1>1, <2>1, <2>2 DEF Ordered
<1>5. ASSUME NEW i \in 1..n
      PROVE  SizeFrom(e, i) = SizeFrom(h, i) + u.size /\ SizeFrom(h, i) \in Nat
  <2>1. SizeOfFirst(e, i-1) = SizeOfFirst(h, i-1) /\ SizeOfFirst(e, n) = SizeOfFirst(h, n)
    BY <1>1, SizeOfFirstAppend DEF e
  <2>2. SizeOfFirst(e, n+1) = SizeOfFirst(e, n) + u.size
    <3>1. n + 1 \in 1..Len(e) /\ n + 1 - 1 = n
      BY <1>1
    <3>2. SizeOfFirst(e, n+1) = SizeOfFirst(e, n+1-1) + e[n+1].size
      BY <1>1, <3>1, SizeOfFirstDef
    <3> QED BY <1>1, <3>1, <3>2
  <2>3. SizeOfFirst(h, n) \in Nat /\ SizeOfFirst(h, i-1) \in Nat
    <3>1. n \in 0..Len(h) /\ i-1 \in 0..Len(h)
      BY <1>1
    <3>2. h \in Seq(AccessUnit)
      BY <1>1
    <3> QED BY <3>1, <3>2, SizeOfFirstNat
  <2>4. SizeFrom(h, i) \in Nat
    BY <1>1, SizeFromFalls
  <2> QED BY <1>1, <1>2, <2>1, <2>2, <2>3, <2>4 DEF SizeFrom
<1>6. ASSUME NEW i \in 1..n, StartsWindow(e, i) PROVE StartsWindow(h, i)
  <2>1. /\ e[i].idr /\ SizeFrom(e, i) <= MaxBytes
        /\ \A j \in i+1..n+1 : ~(e[j].idr /\ e[j].ts <= u.ts - Retention)
    BY <1>1, <1>6 DEF StartsWindow
  <2>2. h[i].idr /\ SizeFrom(h, i) <= MaxBytes
    <3>1. \A a, b, c \in Nat : a + b <= c => a <= c
      OBVIOUS
    <3>2. SizeFrom(h, i) + u.size <= MaxBytes /\ SizeFrom(h, i) \in Nat
      BY <1>5, <2>1
    <3>3. SizeFrom(h, i) <= MaxBytes
      BY <1>2, <3>1, <3>2, RingAssumption
    <3> QED BY <1>1, <2>1, <3>3
  <2>3. ASSUME NEW j \in i+1..n, h[j].ts <= h[n].ts - Retention PROVE ~h[j].idr
    <3>1. j \in 1..n /\ n \in 1..n /\ j \in i+1..n+1
      BY <1>1
    <3>2. h[j].ts \in Nat /\ h[n].ts \in Nat /\ h[n].ts <= u.ts /\ e[j] = h[j]
      BY <1>1, <1>2, <1>3, <3>1
    <3>3. Retention \in Nat
      BY RingAssumption
    <3>4. h[j].ts <= u.ts - Retention
      <4>1. \A a, b, c, d \in Nat : a <= b - d /\ b <= c => a <= c - d
        OBVIOUS
      <4>2. h[j].ts <= h[n].ts - Retention
        BY <2>3
      <4>3. u.ts \in Nat
        BY <1>2
      <4> HIDE DEF n
      <4> QED BY <3>2, <3>3, <4>1, <4>2, <4>3
    <3> QED BY <2>1, <3>1, <3>2, <3>4
  <2> QED BY <2>2, <2>3 DEF StartsWindow
<1>7. From(e, w) = Append(From(h, w), u)
  <2> DEFINE f == From(e, w)
             g == From(h, w)
  <2>1. w \in 1..n+1 /\ w \in 1..Len(e)+1
    BY <1>1
  <2>2. /\ f \in Seq(AccessUnit) /\ Len(f) = n - w + 2
        /\ \A i \in 1..Len(f) : f[i] = e[w + i - 1]
    BY <1>1, <2>1, FromFacts
  <2>3. /\ g \in Seq(AccessUnit) /\ Len(g) = n - w + 1
        /\ \A i \in 1..Len(g) : g[i] = h[w + i - 1]
    BY <1>1, <2>1, FromFacts
  <2> HIDE DEF f, g
  <2> DEFINE a == Append(g, u)
  <2>4. /\ a \in Seq(AccessUnit) /\ Len(a) = Len(f)
        /\ a[Len(g)+1] = u /\ \A i \in 1..Len(g) : a[i] = g[i]
    <3>1. /\ a \in Seq(AccessUnit) /\ Len(a) = Len(g) + 1
          /\ a[Len(g)+1] = u /\ \A i \in 1..Len(g) : a[i] = g[i]
      BY <2>3, AppendFacts
    <3> HIDE DEF a
    <3> QED BY <1>1, <2>2, <2>3, <3>1
  <2> HIDE DEF a
  <2>5. ASSUME NEW i \in 1..Len(f) PROVE f[i] = a[i]
    <3>1. CASE i = n - w + 2
      <4>1. w + i - 1 = n + 1
        BY <1>1, <3>1
      <4>2. f[i] = u
        BY <1>1, <2>2, <4>1
      <4>3. i = Len(g) + 1
        BY <1>1, <2>3, <3>1
      <4> QED BY <2>4, <4>2, <4>3
    <3>2. CASE i \in 1..n-w+1
      <4>1. w + i - 1 \in 1..n
        BY <1>1, <3>2
      <4>2. f[i] = h[w + i - 1]
        BY <1>1, <2>2, <4>1
      <4>3. g[i] = h[w + i - 1] /\ a[i] = g[i]
        BY <2>3, <2>4, <3>2
      <4> QED BY <4>2, <4>3
    <3> QED BY <1>1, <2>2, <3>1, <3>2
  <2>6. f = a
    BY <2>2, <2>4, <2>5
  <2> QED BY <2>6 DEF f, g, a
<1> QED BY <1>1, <1>4, <1>5, <1>6, <1>7 DEF e

(* The window and the byte count after push() has pruned a history e. *)
LEMMA StoredWindow ==
  ASSUME WindowInv, NEW u \in AccessUnit, ~Rejected(u), Store(u),
         NEW e, Ordered(e), NEW w \in 1..Len(e), \A i \in 1..w-1 : ~StartsWindow(e, i),
         e[Len(e)] = u, epoch' = e,
         Prune(From(e, w), SizeFrom(e, w), u)
  PROVE  WindowInv'
<1>1. /\ \E x : WindowAt(e, x) /\ units' = From(e, x)
      /\ units' \in Seq(AccessUnit)
      /\ bytes' = SizeOfFirst(units', Len(units'))
      /\ bytes' <= MaxBytes
  BY PruneWindow
<1>2. bytes' \in Nat
  BY <1>1, SizeOfFirstNat
<1>3. peak_bytes' = IF bytes' > peak_bytes THEN bytes' ELSE peak_bytes
  BY DEF Store
<1>4. peak_bytes \in Nat /\ peak_bytes <= MaxBytes
  BY DEF WindowInv
<1>5. peak_bytes' \in Nat /\ bytes' <= peak_bytes' /\ peak_bytes' <= MaxBytes
  BY <1>1, <1>2, <1>3, <1>4
<1>6. RingInv'
  BY StoreInv DEF WindowInv
<1>7. Ordered(epoch') /\ \E x : WindowAt(epoch', x) /\ units' = From(epoch', x)
  BY <1>1
<1> QED BY <1>1, <1>5, <1>6, <1>7 DEF WindowInv

LEMMA RecordedPushWindow ==
  ASSUME WindowInv, NEW u \in AccessUnit, RecordedPush(u)
  PROVE  WindowInv'
<1>1. CASE Rejected(u)
  <2>1. push(u) /\ epoch' = epoch
    BY <1>1 DEF RecordedPush
  <2>2. units' = units /\ bytes' = bytes /\ peak_bytes' = peak_bytes
    BY <1>1, <2>1 DEF push, ringVars
  <2>3. RingInv'
    BY <2>1, PushInv DEF WindowInv
  <2> QED BY <2>1, <2>2, <2>3 DEF WindowInv
<1>2. CASE ~Rejected(u)
  <2>1. Store(u) /\ epoch' = IF StartsEpoch(u) THEN <<u>> ELSE Append(epoch, u)
    BY <1>2 DEF RecordedPush, push
  <2>2. u.ts # 0 /\ u.ts \in Nat /\ u.size \in Nat
    BY <1>2 DEF Rejected, RejectedInvalid, AccessUnit
  <2>3. CASE StartsEpoch(u)
    <3>1. Prune(<<u>>, u.size, u)
      <4>1. CASE ResetsRing(u)
        BY <2>1, <4>1 DEF Store
      <4>2. CASE ~ResetsRing(u)
        <5>1. units = <<>>
          BY <2>3, <4>2 DEF StartsEpoch
        <5>2. SizeOfFirst(<<>>, 0) = 0
          BY SizeOfFirstDef
        <5>3. Append(units, u) = <<u>> /\ bytes + u.size = u.size
          BY <2>2, <5>1, <5>2 DEF WindowInv
        <5> QED BY <2>1, <4>2, <5>3 DEF Store
      <4> QED BY <4>1, <4>2
    <3> DEFINE e == <<u>>
    <3>2. /\ Ordered(e) /\ 1 \in 1..Len(e) /\ e[Len(e)] = u
          /\ \A i \in 1..1-1 : ~StartsWindow(e, i)
          /\ From(e, 1) = e /\ SizeFrom(e, 1) = u.size
      BY <1>2, FirstUnit
    <3>3. Prune(From(e, 1), SizeFrom(e, 1), u)
      BY <3>1, <3>2
    <3>4. epoch' = e
      BY <2>1, <2>3
    <3> HIDE DEF e
    <3> QED BY <1>2, <2>1, <3>2, <3>3, <3>4, StoredWindow
  <2>4. CASE ~StartsEpoch(u)
    <3>1. units # <<>> /\ ~ResetsRing(u) /\ ~(u.ts < latest)
      BY <2>4 DEF StartsEpoch, ResetsRing
    <3>2. Prune(Append(units, u), bytes + u.size, u)
      BY <2>1, <3>1 DEF Store
    <3>3. PICK w : WindowAt(epoch, w) /\ units = From(epoch, w)
      BY DEF WindowInv
    <3>4. /\ epoch \in Seq(AccessUnit) /\ Ordered(epoch) /\ units \in Seq(AccessUnit)
          /\ Len(epoch) \in Nat
      BY DEF WindowInv, RingInv, RingTypeOK, Ordered
    <3>5. /\ w \in 1..Len(epoch)+1 /\ Len(units) = Len(epoch) - w + 1
          /\ \A i \in 1..Len(units) : units[i] = epoch[w + i - 1]
      BY <3>3, <3>4, FromFacts DEF WindowAt
    <3>6. w \in 1..Len(epoch) /\ Len(units) \in 1..Len(units)
          /\ w + Len(units) - 1 = Len(epoch)
      BY <3>1, <3>4, <3>5
    <3>7. epoch[Len(epoch)].ts <= u.ts
      <4>1. latest = units[Len(units)].ts /\ latest \in Nat
        BY <3>1 DEF WindowInv, RingInv, RingTypeOK, RingOrdered, TimeOrdered
      <4>2. units[Len(units)] = epoch[Len(epoch)]
        BY <3>5, <3>6
      <4> QED BY <2>2, <3>1, <4>1, <4>2
    <3> DEFINE e == Append(epoch, u)
    <3>8. /\ Ordered(e) /\ w \in 1..Len(e) /\ e[Len(e)] = u
          /\ \A i \in 1..Len(epoch) : StartsWindow(e, i) => StartsWindow(epoch, i)
          /\ From(e, w) = Append(From(epoch, w), u)
          /\ SizeFrom(e, w) = SizeFrom(epoch, w) + u.size
      <4>1. Len(epoch) >= 1
        BY <3>4, <3>6
      <4>2. u.ts # 0 /\ Ordered(epoch) /\ epoch[Len(epoch)].ts <= u.ts /\ w \in 1..Len(epoch)
        BY <2>2, <3>4, <3>6, <3>7
      <4> QED BY <4>1, <4>2, NextUnit
    <3>9. epoch' = e
      BY <2>1, <2>4
    <3> HIDE DEF e
    <3>10. \A i \in 1..w-1 : ~StartsWindow(e, i)
      <4>1. \A i \in 1..w-1 : i \in 1..Len(epoch)
        BY <3>4, <3>6
      <4> QED BY <3>3, <3>8, <4>1 DEF WindowAt
    <3>11. bytes = SizeFrom(epoch, w)
      <4>1. 1 \in 1..Len(epoch)-w+2 /\ w + 1 - 1 = w
        BY <3>4, <3>6
      <4>2. SizeFrom(From(epoch, w), 1) = SizeFrom(epoch, w)
        BY <3>4, <3>5, <4>1, SizeFromFrom
      <4>3. SizeFrom(units, 1) = SizeOfFirst(units, Len(units))
        BY <3>4, SizeFromFirst
      <4> QED BY <3>3, <4>2, <4>3 DEF WindowInv
    <3>12. Prune(From(e, w), SizeFrom(e, w), u)
      BY <3>2, <3>3, <3>8, <3>11
    <3> QED BY <1>2, <2>1, <3>8, <3>9, <3>10, <3>12, StoredWindow
  <2> QED BY <2>3, <2>4
<1> QED BY <1>1, <1>2

(* The empty ring is the window of the empty history. *)
LEMMA EmptyWindow == WindowAt(<<>>, 1) /\ From(<<>>, 1) = <<>> /\ SizeOfFirst(<<>>, Len(<<>>)) = 0
                       /\ Ordered(<<>>)
<1>1. <<>> \in Seq(AccessUnit) /\ Len(<<>>) = 0
  OBVIOUS
<1>2. From(<<>>, 1) = <<>>
  BY DEF From
<1>3. SizeOfFirst(<<>>, 0) = 0
  BY SizeOfFirstDef
<1> QED BY <1>1, <1>2, <1>3 DEF WindowAt, Ordered

LEMMA HistoryInitWindow == HistoryInit => WindowInv
<1> SUFFICES ASSUME HistoryInit PROVE WindowInv
  OBVIOUS
<1>1. RingInv
  BY DEF HistoryInit, RingInit, RingInv, RingTypeOK, RingOrdered, StartsDecodable,
         OneGeneration, TimeOrdered
<1> QED BY <1>1, EmptyWindow, RingAssumption DEF HistoryInit, RingInit, WindowInv

LEMMA RecordedClearWindow ==
  ASSUME WindowInv, RecordedClear
  PROVE  WindowInv'
<1>1. RingInv'
  BY ClearInv DEF WindowInv, RecordedClear
<1>2. /\ units' = <<>> /\ epoch' = <<>> /\ bytes' = 0 /\ peak_bytes' = peak_bytes
      /\ peak_bytes \in Nat /\ peak_bytes <= MaxBytes
  BY DEF RecordedClear, clear, WindowInv
<1>3. /\ Ordered(epoch') /\ WindowAt(epoch', 1) /\ units' = From(epoch', 1)
      /\ bytes' = SizeOfFirst(units', Len(units'))
  BY <1>2, EmptyWindow
<1>4. bytes' <= peak_bytes'
  BY <1>2
<1> QED BY <1>1, <1>2, <1>3, <1>4 DEF WindowInv

LEMMA WindowInductive == WindowInv /\ [HistoryNext]_historyVars => WindowInv'
<1> SUFFICES ASSUME WindowInv, [HistoryNext]_historyVars
             PROVE  WindowInv'
  OBVIOUS
<1>1. CASE \E u \in AccessUnit : RecordedPush(u)
  BY <1>1, RecordedPushWindow
<1>2. CASE RecordedClear
  BY <1>2, RecordedClearWindow
<1>3. CASE UNCHANGED historyVars
  <2>1. /\ units' = units /\ bytes' = bytes /\ peak_bytes' = peak_bytes
        /\ epoch' = epoch /\ UNCHANGED ringVars
    BY <1>3 DEF historyVars, ringVars
  <2>2. RingInv'
    BY <2>1 DEF WindowInv, ringVars, RingInv, RingTypeOK, RingOrdered, StartsDecodable,
                OneGeneration, TimeOrdered
  <2> QED BY <2>1, <2>2 DEF WindowInv
<1> QED BY <1>1, <1>2, <1>3 DEF HistoryNext

LEMMA MinIs ==
  ASSUME NEW S \in SUBSET Int, NEW m \in S, \A x \in S : m <= x
  PROVE  Min(S) = m
<1>1. \A x \in S : (\A y \in S : x <= y) => x = m
  OBVIOUS
<1> QED BY <1>1 DEF Min

LEMMA MaxIs ==
  ASSUME NEW S \in SUBSET Int, NEW m \in S, \A x \in S : x <= m
  PROVE  Max(S) = m
<1>1. \A x \in S : (\A y \in S : x >= y) => x = m
  OBVIOUS
<1>2. \A y \in S : m >= y
  OBVIOUS
<1> QED BY <1>1, <1>2 DEF Max

LEMMA WindowInvWindow == WindowInv => RingIsRetentionWindow
<1> SUFFICES ASSUME WindowInv PROVE RingIsRetentionWindow
  OBVIOUS
<1> DEFINE n == Len(epoch)
           starts == {i \in 1..n : StartsWindow(epoch, i)}
<1>1. PICK w : WindowAt(epoch, w) /\ units = From(epoch, w)
  BY DEF WindowInv
<1>2. epoch \in Seq(AccessUnit) /\ n \in Nat /\ w \in 1..n+1
  BY <1>1 DEF WindowInv, Ordered, WindowAt
<1>3. units = IF starts = {} THEN <<>> ELSE From(epoch, Min(starts))
  <2>1. CASE w = n + 1
    <3>1. starts = {}
      BY <1>1, <1>2, <2>1 DEF WindowAt
    <3>2. units \in Seq(AccessUnit) /\ Len(units) = 0
      BY <1>1, <1>2, <2>1, FromFacts
    <3> QED BY <3>1, <3>2
  <2>2. CASE w \in 1..n
    <3>1. w \in starts
      BY <1>1, <1>2, <2>2 DEF WindowAt
    <3>2. ASSUME NEW i \in starts PROVE w <= i
      <4>1. i \in 1..n /\ ~(i \in 1..w-1)
        BY <1>1 DEF WindowAt
      <4> QED BY <1>2, <4>1
    <3>3. starts \in SUBSET Int
      BY <1>2
    <3> HIDE DEF starts
    <3>4. Min(starts) = w
      BY <3>1, <3>2, <3>3, MinIs
    <3> QED BY <1>1, <3>1, <3>4
  <2> QED BY <1>2, <2>1, <2>2
<1> QED BY <1>3 DEF WindowInv, RingIsRetentionWindow

(* For every retention and byte limit and every sequence of push() and     *)
(* clear() calls: the ring is the longest window of the accepted units     *)
(* that starts decodable, fits and is not made redundant, and bytes_ and   *)
(* its peak are right.                                                     *)
THEOREM RingAlwaysRetentionWindow == HistorySpec => []RingIsRetentionWindow
BY HistoryInitWindow, WindowInductive, WindowInvWindow, PTL DEF HistorySpec

-----------------------------------------------------------------------------
(* selectPreRoll().                                                        *)

(* The last and the first index with a property that is given as a set. *)
LEMMA LastIndex ==
  ASSUME NEW n \in Nat, NEW T \in SUBSET (1..n), T # {}
  PROVE  \E k \in T : \A j \in k+1..n : j \notin T
<1>1. T \in SUBSET (0..n)
  OBVIOUS
<1>2. PICK k \in T : \A j \in T : j <= k
  BY <1>1, GreatestElement
<1>3. k \in 1..n
  OBVIOUS
<1>4. \A j \in k+1..n : ~(j <= k)
  BY <1>3
<1> QED BY <1>2, <1>4

LEMMA FirstIndex ==
  ASSUME NEW n \in Nat, NEW T \in SUBSET (1..n), T # {}
  PROVE  \E k \in T : \A j \in 1..k-1 : j \notin T
<1>1. T \in SUBSET Nat
  OBVIOUS
<1>2. PICK k \in T : \A j \in T : k <= j
  BY <1>1, LeastElement
<1>3. k \in 1..n
  OBVIOUS
<1>4. \A j \in 1..k-1 : ~(k <= j)
  BY <1>3
<1> QED BY <1>2, <1>4

(* In a ring in time order only the candidate's own timestamp matters. *)
LEMMA CandidateIs ==
  ASSUME RingInv, NEW b \in Int, NEW j \in 1..Len(units)
  PROVE  StartCandidate(b, j) <=> units[j].idr /\ units[j].ts <= b
<1>1. units \in Seq(AccessUnit) /\ Len(units) \in Nat
  BY DEF RingInv, RingTypeOK
<1>2. ASSUME units[j].ts <= b, NEW i \in 1..j PROVE units[i].ts <= b
  <2>1. i \in 1..Len(units) /\ i <= j
    BY <1>1
  <2>2. units[i].ts <= units[j].ts
    BY <2>1 DEF RingInv, RingOrdered, TimeOrdered
  <2>3. units[i].ts \in Nat /\ units[j].ts \in Nat
    BY <1>1, <2>1, UnitFields
  <2> QED BY <1>2, <2>2, <2>3
<1>3. j \in 1..j
  BY <1>1
<1> QED BY <1>2, <1>3 DEF StartCandidate

(* The decodable units of the ring at or before b. *)
DecodableBy(b) == {j \in 1..Len(units) : units[j].idr /\ units[j].ts <= b}

LEMMA SelectsFromIs ==
  ASSUME RingInv, NEW trigger \in Nat, NEW pre \in Nat, NEW k \in 1..Len(units)+1,
         NEW E, E = DecodableBy(RequestedStart(trigger, pre)),
         NEW L, L = DecodableBy(trigger)
  PROVE  SelectsFrom(trigger, pre, k) <=>
           \/ k \in E /\ \A j \in k+1..Len(units) : j \notin E
           \/ E = {} /\ k \in L /\ \A j \in 1..k-1 : j \notin L
           \/ E = {} /\ L = {} /\ k = Len(units) + 1
<1> DEFINE n == Len(units)
           want == RequestedStart(trigger, pre)
<1>1. n \in Nat
  BY DEF RingInv, RingTypeOK
<1>2. want \in Int
  BY DEF RequestedStart
<1>3. \A j \in 1..n : StartCandidate(want, j) <=> j \in E
  BY <1>2, CandidateIs DEF DecodableBy
<1>4. \A j \in 1..n : StartCandidate(trigger, j) <=> j \in L
  BY CandidateIs DEF DecodableBy
<1>5. E \in SUBSET (1..n) /\ L \in SUBSET (1..n)
  BY DEF DecodableBy
<1>6. \A j \in k+1..n : j \in 1..n
  BY <1>1
<1>7. \A j \in 1..k-1 : j \in 1..n
  BY <1>1
<1> HIDE DEF n, want
<1>8. SelectsFrom(trigger, pre, k) <=>
        \/ /\ k \in 1..n /\ StartCandidate(want, k)
           /\ \A j \in k+1..n : ~StartCandidate(want, j)
        \/ /\ \A j \in 1..n : ~StartCandidate(want, j)
           /\ k \in 1..n /\ StartCandidate(trigger, k)
           /\ \A j \in 1..k-1 : ~StartCandidate(trigger, j)
        \/ /\ \A j \in 1..n : ~StartCandidate(want, j) /\ ~StartCandidate(trigger, j)
           /\ k = n + 1
  BY DEF SelectsFrom, n, want
<1>9. (\A j \in 1..n : ~StartCandidate(want, j)) <=> E = {}
  BY <1>3, <1>5
<1>10. (\A j \in 1..n : ~StartCandidate(trigger, j)) <=> L = {}
  BY <1>4, <1>5
<1>11. k \in 1..n => /\ StartCandidate(want, k) <=> k \in E
                     /\ StartCandidate(trigger, k) <=> k \in L
  BY <1>3, <1>4
<1>12. (\A j \in k+1..n : ~StartCandidate(want, j)) <=> \A j \in k+1..n : j \notin E
  BY <1>3, <1>6
<1>13. (\A j \in 1..k-1 : ~StartCandidate(trigger, j)) <=> \A j \in 1..k-1 : j \notin L
  BY <1>4, <1>7
<1>14. (k \in E => k \in 1..n) /\ (k \in L => k \in 1..n)
  BY <1>5
<1>15. (\A j \in 1..n : ~StartCandidate(want, j) /\ ~StartCandidate(trigger, j))
         <=> E = {} /\ L = {}
  BY <1>9, <1>10
<1> QED BY <1>8, <1>9, <1>11, <1>12, <1>13, <1>14, <1>15 DEF n

(* selectPreRoll() determines one start; it is the newest decodable unit   *)
(* by the requested start, if there is one.                                *)
LEMMA SelectsOne ==
  ASSUME RingInv, NEW trigger \in Nat, NEW pre \in Nat,
         NEW E, E = DecodableBy(RequestedStart(trigger, pre))
  PROVE  \E k \in 1..Len(units)+1 :
           /\ SelectsFrom(trigger, pre, k)
           /\ \A x \in 1..Len(units)+1 : SelectsFrom(trigger, pre, x) => x = k
           /\ k <= Len(units) => units[k].idr /\ units[k].ts <= trigger
           /\ E # {} => k \in E /\ \A j \in k+1..Len(units) : j \notin E
<1> DEFINE n == Len(units)
           L == DecodableBy(trigger)
           want == RequestedStart(trigger, pre)
           Sel(k) == \/ k \in E /\ \A j \in k+1..n : j \notin E
                     \/ E = {} /\ k \in L /\ \A j \in 1..k-1 : j \notin L
                     \/ E = {} /\ L = {} /\ k = n + 1
<1>1. n \in Nat /\ units \in Seq(AccessUnit)
  BY DEF RingInv, RingTypeOK
<1>2. \A k \in 1..n+1 : SelectsFrom(trigger, pre, k) <=> Sel(k)
  BY SelectsFromIs
<1>3. E \in SUBSET (1..n) /\ L \in SUBSET (1..n)
  BY DEF DecodableBy
<1>4. E \subseteq L
  <2>1. want \in Nat /\ want <= trigger
    BY DEF RequestedStart
  <2>2. \A j \in 1..n : units[j].ts \in Nat
    BY <1>1, UnitFields
  <2>3. \A j \in 1..n : units[j].ts <= want => units[j].ts <= trigger
    BY <2>1, <2>2
  <2> QED BY <2>3 DEF DecodableBy
<1>5. \A j \in L : units[j].idr /\ units[j].ts <= trigger
  BY DEF DecodableBy
<1> HIDE DEF L
<1>6. \E k \in 1..n+1 :
        /\ Sel(k) /\ \A x \in 1..n+1 : Sel(x) => x = k
        /\ k <= n => k \in L
        /\ E # {} => k \in E /\ \A j \in k+1..n : j \notin E
  <2>1. CASE E # {}
    <3>1. PICK k \in E : \A j \in k+1..n : j \notin E
      BY <1>1, <1>3, <2>1, LastIndex
    <3>2. k \in 1..n /\ k \in L /\ k \in 1..n+1
      BY <1>1, <1>3, <1>4
    <3>3. ASSUME NEW x \in E, \A j \in x+1..n : j \notin E PROVE x = k
      <4>1. x \in 1..n /\ k \in 1..n
        BY <1>3
      <4>2. ~(x < k) /\ ~(k < x)
        BY <1>1, <3>1, <3>3, <4>1
      <4> QED BY <1>1, <4>1, <4>2
    <3> QED BY <2>1, <3>1, <3>2, <3>3
  <2>2. CASE E = {} /\ L # {}
    <3>1. PICK k \in L : \A j \in 1..k-1 : j \notin L
      BY <1>1, <1>3, <2>2, FirstIndex
    <3>2. k \in 1..n /\ k \in 1..n+1
      BY <1>1, <1>3
    <3>3. ASSUME NEW x \in L, \A j \in 1..x-1 : j \notin L PROVE x = k
      <4>1. x \in 1..n /\ k \in 1..n
        BY <1>3
      <4>2. ~(x < k) /\ ~(k < x)
        BY <1>1, <3>1, <3>3, <4>1
      <4> QED BY <1>1, <4>1, <4>2
    <3> QED BY <2>2, <3>1, <3>2, <3>3
  <2>3. CASE E = {} /\ L = {}
    <3>1. n + 1 \in 1..n+1 /\ ~(n + 1 <= n)
      BY <1>1
    <3> QED BY <2>3, <3>1
  <2> QED BY <2>1, <2>2, <2>3
<1> HIDE DEF Sel
<1> QED BY <1>2, <1>5, <1>6

(* The newest usable unit of the history is in the ring, because nothing   *)
(* but a later usable one makes it redundant, and there it is the newest   *)
(* decodable one by the requested start.                                   *)
LEMMA NewestUsableKept ==
  ASSUME WindowInv, units # <<>>, NEW want \in Int, want >= latest - Retention,
         NEW U, U = Usables(want), U # {}, NEW E, E = DecodableBy(want)
  PROVE  /\ E # {}
         /\ \A k \in E : (\A j \in k+1..Len(units) : j \notin E) =>
              From(units, k) = From(epoch, Max(U))
<1> DEFINE n == Len(epoch)
           m == Len(units)
<1>1. PICK w : WindowAt(epoch, w) /\ units = From(epoch, w)
  BY DEF WindowInv
<1>2. /\ RingInv /\ Ordered(epoch) /\ epoch \in Seq(AccessUnit) /\ n \in Nat
      /\ units \in Seq(AccessUnit) /\ m \in Nat
  BY DEF WindowInv, RingInv, RingTypeOK, Ordered
<1>3. /\ w \in 1..n+1 /\ m = n - w + 1
      /\ \A i \in 1..m : units[i] = epoch[w + i - 1]
  BY <1>1, <1>2, FromFacts DEF WindowAt
<1>4. w \in 1..n /\ m \in 1..m /\ w + m - 1 = n /\ n \in 1..n
  BY <1>2, <1>3
<1>5. latest = epoch[n].ts
  <2>1. latest = units[m].ts
    BY <1>2 DEF RingInv, RingOrdered, TimeOrdered
  <2>2. units[m] = epoch[w + m - 1]
    BY <1>3, <1>4
  <2> QED BY <1>4, <2>1, <2>2
<1>6. \A i \in 1..n : epoch[i].ts \in Nat /\ epoch[i].idr \in BOOLEAN
  BY <1>2, UnitFields
<1>7. \A i \in 1..n : i \in U <=>
        epoch[i].idr /\ epoch[i].ts <= want /\ SizeFrom(epoch, i) <= MaxBytes
  BY DEF Usables
<1>8. U \in SUBSET (1..n)
  BY DEF Usables
<1>9. PICK x \in U : \A j \in x+1..n : j \notin U
  BY <1>2, <1>8, LastIndex
<1>10. x \in 1..n
  BY <1>8
<1>11. ASSUME NEW j \in x+1..n, epoch[j].idr, epoch[j].ts <= latest - Retention
       PROVE  FALSE
  <2>1. j \in 1..n /\ x <= j /\ x \in 1..n+1 /\ j \in 1..n+1
    BY <1>2, <1>10
  <2>2. epoch[j].ts <= want
    <3>1. \A a, b, c \in Int : a <= b /\ c >= b => a <= c
      OBVIOUS
    <3>2. latest - Retention \in Int /\ epoch[j].ts \in Int
      <4>1. latest \in Nat /\ epoch[j].ts \in Nat
        BY <1>4, <1>5, <1>6, <2>1
      <4> QED BY <4>1, RingAssumption
    <3> QED BY <1>11, <3>1, <3>2
  <2>3. SizeFrom(epoch, x) <= MaxBytes
    BY <1>7, <1>10
  <2>4. /\ SizeFrom(epoch, j) <= SizeFrom(epoch, x)
        /\ SizeFrom(epoch, j) \in Nat /\ SizeFrom(epoch, x) \in Nat
    BY <1>2, <2>1, SizeFromFalls
  <2>5. SizeFrom(epoch, j) <= MaxBytes
    BY <2>3, <2>4, RingAssumption
  <2> QED BY <1>7, <1>9, <1>11, <2>1, <2>2, <2>5
<1>12. StartsWindow(epoch, x)
  <2>1. epoch[x].idr /\ SizeFrom(epoch, x) <= MaxBytes
    BY <1>7, <1>10
  <2> QED BY <1>5, <1>11, <2>1 DEF StartsWindow
<1>13. w <= x
  <2>1. ~(x \in 1..w-1)
    BY <1>1, <1>12 DEF WindowAt
  <2> QED BY <1>4, <1>10, <2>1
<1>14. \A j \in 1..m : w+j-1 \in 1..n /\ w <= w+j-1
  BY <1>2, <1>3
<1>15. \A j \in 1..m : j \in E <=> epoch[w+j-1].idr /\ epoch[w+j-1].ts <= want
  BY <1>3 DEF DecodableBy
<1>16. \A j \in 1..m : j \in E <=> w+j-1 \in U
  <2> SUFFICES ASSUME NEW j \in 1..m PROVE SizeFrom(epoch, w+j-1) <= MaxBytes
    BY <1>7, <1>14, <1>15
  <2>1. StartsWindow(epoch, w)
    BY <1>1, <1>4 DEF WindowAt
  <2>2. SizeFrom(epoch, w) <= MaxBytes
    BY <2>1 DEF StartsWindow
  <2>3. w+j-1 \in 1..n+1 /\ w <= w+j-1 /\ w \in 1..n+1
    BY <1>2, <1>3, <1>4
  <2>4. /\ SizeFrom(epoch, w+j-1) <= SizeFrom(epoch, w)
        /\ SizeFrom(epoch, w+j-1) \in Nat /\ SizeFrom(epoch, w) \in Nat
    BY <1>2, <2>3, SizeFromFalls
  <2> QED BY <2>2, <2>4, RingAssumption
<1>17. x-w+1 \in 1..m /\ w+(x-w+1)-1 = x
  BY <1>3, <1>4, <1>10, <1>13
<1>18. x-w+1 \in E
  BY <1>16, <1>17
<1>19. Max(U) = x
  <2>1. U \in SUBSET Int
    BY <1>8
  <2>2. ASSUME NEW j \in U PROVE j <= x
    <3>1. j \in 1..n /\ ~(j \in x+1..n)
      BY <1>8, <1>9
    <3> QED BY <1>2, <1>10, <3>1
  <2> QED BY <2>1, <2>2, MaxIs
<1>20. ASSUME NEW k \in E, \A j \in k+1..m : j \notin E
       PROVE  From(units, k) = From(epoch, x)
  <2>1. k \in 1..m
    BY DEF DecodableBy
  <2>2. w+k-1 \in U
    BY <1>16, <2>1
  <2>3. w+k-1 \in 1..n /\ ~(w+k-1 \in x+1..n)
    BY <1>8, <1>9, <2>2
  <2>4. ~(x-w+1 \in k+1..m)
    BY <1>18, <1>20
  <2>5. w+k-1 = x
    BY <1>2, <1>4, <1>10, <1>17, <2>1, <2>3, <2>4
  <2>6. w \in 1..n+1 /\ k \in 1..n-w+2
    BY <1>2, <1>3, <2>1
  <2>7. From(From(epoch, w), k) = From(epoch, w+k-1)
    BY <1>2, <2>6, FromFrom
  <2> QED BY <1>1, <2>5, <2>7
<1> QED BY <1>18, <1>19, <1>20

LEMMA WindowInvPreRoll == WindowInv => PreRollRetained
<1> SUFFICES ASSUME WindowInv, NEW trigger \in 1..MaxTime, NEW pre \in 1..MaxTime
             PROVE  LET want == RequestedStart(trigger, pre)
                        starts == {k \in 1..Len(units)+1 : SelectsFrom(trigger, pre, k)}
                    IN \E k \in starts :
                         /\ starts = {k}
                         /\ k <= Len(units) => units[k].idr /\ units[k].ts <= trigger
                         /\ units # <<>> /\ want >= latest - Retention /\ Usables(want) # {} =>
                              /\ PreRollComplete(trigger, pre, k)
                              /\ SelectedUnits(k) = From(epoch, Max(Usables(want)))
  BY DEF PreRollRetained
<1> DEFINE want == RequestedStart(trigger, pre)
           starts == {k \in 1..Len(units)+1 : SelectsFrom(trigger, pre, k)}
           E == DecodableBy(want)
<1>1. RingInv /\ trigger \in Nat /\ pre \in Nat /\ want \in Int
  BY RingBoundAssumption DEF WindowInv, RequestedStart
<1>2. PICK k \in 1..Len(units)+1 :
        /\ SelectsFrom(trigger, pre, k)
        /\ \A x \in 1..Len(units)+1 : SelectsFrom(trigger, pre, x) => x = k
        /\ k <= Len(units) => units[k].idr /\ units[k].ts <= trigger
        /\ E # {} => k \in E /\ \A j \in k+1..Len(units) : j \notin E
  BY <1>1, SelectsOne
<1>3. k \in starts /\ starts = {k}
  BY <1>2
<1>4. ASSUME units # <<>>, want >= latest - Retention, Usables(want) # {}
      PROVE  /\ PreRollComplete(trigger, pre, k)
             /\ SelectedUnits(k) = From(epoch, Max(Usables(want)))
  <2>1. /\ E # {}
        /\ \A i \in E : (\A j \in i+1..Len(units) : j \notin E) =>
             From(units, i) = From(epoch, Max(Usables(want)))
    BY <1>1, <1>4, NewestUsableKept
  <2>2. k \in E /\ \A j \in k+1..Len(units) : j \notin E
    BY <1>2, <2>1
  <2>3. k \in 1..Len(units) /\ units[k].ts <= want /\ Len(units) \in Nat
    BY <1>1, <2>2 DEF DecodableBy, RingInv, RingTypeOK
  <2>4. From(units, k) = From(epoch, Max(Usables(want)))
    <3> HIDE DEF E
    <3> QED BY <2>1, <2>2
  <2>5. k <= Len(units)
    BY <2>3
  <2> HIDE DEF want
  <2>6. PreRollComplete(trigger, pre, k)
    BY <2>3, <2>5 DEF PreRollComplete, want
  <2> QED BY <2>4, <2>6 DEF SelectedUnits
<1> HIDE DEF starts, want, E
<1>5. \E i \in starts :
        /\ starts = {i}
        /\ i <= Len(units) => units[i].idr /\ units[i].ts <= trigger
        /\ units # <<>> /\ want >= latest - Retention /\ Usables(want) # {} =>
             /\ PreRollComplete(trigger, pre, i)
             /\ SelectedUnits(i) = From(epoch, Max(Usables(want)))
  BY <1>2, <1>3, <1>4
<1> QED BY <1>5 DEF starts, want

(* For every retention, byte limit, trigger, pre-roll and history of       *)
(* push() and clear(): selectPreRoll() determines one start, and whatever  *)
(* it could have used of the accepted history for a complete clip is still *)
(* there and used.                                                         *)
THEOREM PreRollAlwaysRetained == HistorySpec => []PreRollRetained
BY HistoryInitWindow, WindowInductive, WindowInvPreRoll, PTL DEF HistorySpec
=============================================================================
