--------------------------- MODULE ProbeListsProofs ---------------------------
(***************************************************************************)
(* Proofs about ProbeLists, for any number of sets and ways and any        *)
(* sequence of calls: the arrays agree with the mask, and each time that a *)
(* probe reports is that of all ways of the set at its place.              *)
(*                                                                         *)
(* The argument follows a walk access by access.  Visit is the order in    *)
(* which a walk touches the ways of a set; Inside and Ring say that the    *)
(* links lead from each way to the next in this order, and from the last   *)
(* one on to where the walk has to go.                                     *)
(***************************************************************************)
EXTENDS ProbeLists, FiniteSetTheorems, SequenceTheorems, TLAPS

Dir == {Fwd, Bkw}

\* The way touched by the n-th access of a segment in direction d.
Visit(d, n) ==
  IF d = Fwd THEN n
  ELSE IF buffer = "L1" THEN NWays - 1 - n
  ELSE IF n = 0 THEN 0 ELSE NWays - n

At(s, d, n) == <<s, Visit(d, n), d>>

\* Where the walk goes from the last way of the k-th set.
Onward(k) == IF k = Len(monitored) THEN 1 ELSE k + 1
After(k, d) ==
  IF buffer = "L1I" THEN NULL
  ELSE At(monitored[IF buffer = "L1" THEN Onward(k) ELSE k], d, 0)

Chained(s, d) == \A n \in Way : n + 1 < NWays => mem[At(s, d, n)] = At(s, d, n + 1)
Linked(s, t, d) == mem[At(s, d, NWays - 1)] = At(t, d, 0)

-----------------------------------------------------------------------------
(* The invariant *)

\* The arrays, at every moment and in whatever order they are.
Arrays ==
  /\ monitored \in Seq(Set) /\ IsInjective(monitored) /\ ToSet(monitored) = mask
  /\ heads \in Seq(Addr)
  /\ buffer = "L3" => heads = [k \in DOMAIN monitored |-> <<monitored[k], 0, Fwd>>]
  /\ buffer = "L1" => mask # {}

\* The links inside each set.
Inside ==
  /\ buffer = "L1" => \A s \in Set, d \in Dir : Chained(s, d)
  /\ buffer = "L1I" => \A s \in Set : Chained(s, Fwd) /\ mem[At(s, Fwd, NWays - 1)] = NULL
  /\ buffer = "L3" => \A s \in mask, d \in Dir : Chained(s, d) /\ Linked(s, s, d)

\* The ring of L1: closed, unless it is being linked.
Ring ==
  buffer = "L1" =>
    /\ pc = "link" =>
         \A k \in 1..(i - 1), d \in Dir : Linked(monitored[k], monitored[k + 1], d)
    /\ pc \in {"ready", "probe", "walk"} =>
         /\ \A k \in DOMAIN monitored, d \in Dir :
              Linked(monitored[k], monitored[Onward(k)], d)
         /\ \A d \in Dir : list[d] = At(monitored[1], d, 0)

\* The segments up to the k-th have been measured, the later ones not.
Measured(k) == {monitored[k]} \X Way
MeasuredUpTo(k) ==
  \A j \in DOMAIN monitored : /\ j < k => touched[j] = Measured(j)
                              /\ j > k => touched[j] = {}

\* The walk before its n-th access in segment i.
Walking(n) ==
  /\ p = At(monitored[i], dir, n)
  /\ touched[i] = {<<monitored[i], Visit(dir, j)>> : j \in 0..(n - 1)}
  /\ buffer = "L1" => left = NWays - n
  /\ buffer = "L3" => head = At(monitored[i], dir, 0)

Progress ==
  /\ touched \in Seq(SUBSET (Set \X Way))
  /\ pc \in {"shuffle", "link"} => touched = <<>>
  /\ pc = "ready" => touched = <<>> \/ MeasuredUpTo(Len(monitored) + 1)
  /\ pc = "ready" /\ touched # <<>> /\ buffer = "L1" => p = head
  /\ pc \in {"shuffle", "probe"} => i \in 1..(Len(monitored) + 1)
  /\ pc \in {"link", "walk"} => i \in 1..Len(monitored)
  /\ pc = "link" => buffer = "L1"
  /\ pc \in {"probe", "walk"} =>
       /\ Len(touched) = Len(monitored) /\ MeasuredUpTo(i)
       /\ buffer = "L1I" => dir = Fwd
       /\ buffer = "L1" => head = At(monitored[1], dir, 0)
  /\ pc = "probe" =>
       /\ i \in DOMAIN monitored => touched[i] = {}
       /\ buffer = "L1" => p = At(monitored[IF i > Len(monitored) THEN 1 ELSE i], dir, 0)
  /\ pc = "walk" => \E n \in Way : Walking(n)

PInv == TypeOK /\ Arrays /\ Inside /\ Ring /\ Progress

-----------------------------------------------------------------------------
(* Sequences without duplicates *)

\* A set of numbers has a least member.
LEMMA LeastNumber ==
  ASSUME NEW S \in SUBSET Nat, S # {}
  PROVE  \E x \in S : \A y \in S : x <= y
<1>1. PICK x \in S : \A y \in S : ~(<<y, x>> \in OpToRel(<, Nat))
  BY NatLessThanWellFounded, WFMin, Zenon
<1>2. ASSUME NEW y \in S, y < x PROVE FALSE
  <2>1. <<y, x>> \in Nat \X Nat /\ <<y, x>>[1] = y /\ <<y, x>>[2] = x
    OBVIOUS
  <2> QED
    BY <1>1, <1>2, <2>1, Zenon DEF OpToRel
<1> QED
  BY <1>2

LEMMA SeqOfFunction ==
  ASSUME NEW S, NEW n \in Nat, NEW f \in [1..n -> S]
  PROVE  f \in Seq(S) /\ Len(f) = n
OBVIOUS

Ordered(s) == \A j, k \in DOMAIN s : j < k => s[j] < s[k]

\* Every mask can be read in ascending order.
LEMMA OrderExists ==
  ASSUME NEW m \in SUBSET Set
  PROVE  \E s \in [1..Cardinality(m) -> m] : Ordered(s)
<1> DEFINE Below(n) == m \cap (0..(n - 1))
           Listed(n) == \E s \in [1..Cardinality(Below(n)) -> Below(n)] : Ordered(s)
           bad == {n \in Nat : ~Listed(n)}
<1>1. ASSUME NEW n \in Nat PROVE IsFiniteSet(Below(n)) /\ Cardinality(Below(n)) \in Nat
  <2>1. IsFiniteSet(0..(n - 1))
    BY FS_Interval
  <2>2. IsFiniteSet(Below(n))
    BY <2>1, FS_Subset
  <2> QED
    BY <2>2, FS_CardinalityType
<1>2. Listed(0)
  <2>1. Below(0) = {}
    OBVIOUS
  <2>2. Cardinality(Below(0)) = 0
    BY <2>1, FS_EmptySet
  <2>3. <<>> \in [1..0 -> Below(0)] /\ Ordered(<<>>)
    BY DEF Ordered
  <2> QED
    BY <2>2, <2>3
<1>3. ASSUME NEW n \in Nat, Listed(n) PROVE Listed(n + 1)
  <2>1. CASE n \notin m
    <3>1. Below(n + 1) = Below(n)
      BY <2>1
    <3> QED
      BY <1>3, <3>1
  <2>2. CASE n \in m
    <3>1. Below(n + 1) = Below(n) \cup {n} /\ n \notin Below(n)
      BY <2>2
    <3> DEFINE c == Cardinality(Below(n))
    <3>2. c \in Nat /\ Cardinality(Below(n + 1)) = c + 1
      BY <1>1, <3>1, FS_AddElement
    <3>3. PICK s \in [1..c -> Below(n)] : Ordered(s)
      BY <1>3
    <3> DEFINE t == [k \in 1..(c + 1) |-> IF k = c + 1 THEN n ELSE s[k]]
    <3> HIDE DEF c
    <3>4. t \in [1..(c + 1) -> Below(n + 1)]
      BY <3>1, <3>2, <3>3
    <3>5. Ordered(t)
      <4> SUFFICES ASSUME NEW j \in 1..(c + 1), NEW k \in 1..(c + 1), j < k
                   PROVE  t[j] < t[k]
        BY DEF Ordered
      <4>1. j \in 1..c /\ t[j] = s[j] /\ s[j] \in 0..(n - 1)
        BY <3>2, <3>3
      <4>2. CASE k = c + 1
        BY <4>1, <4>2
      <4>3. CASE k # c + 1
        BY <3>2, <3>3, <4>1, <4>3 DEF Ordered
      <4> QED
        BY <4>2, <4>3
    <3> QED
      BY <3>2, <3>4, <3>5
  <2> QED
    BY <2>1, <2>2
<1>4. bad = {}
  <2> SUFFICES ASSUME bad # {} PROVE FALSE
    OBVIOUS
  <2> HIDE DEF Listed
  <2>1. bad \in SUBSET Nat
    OBVIOUS
  <2>2. PICK n \in bad : \A k \in bad : n <= k
    BY <2>1, LeastNumber
  <2>3. n \in Nat /\ ~Listed(n) /\ n # 0
    BY <1>2, <2>2
  <2>4. n - 1 \in Nat /\ n - 1 \notin bad
    BY <2>2, <2>3
  <2> QED
    BY <1>3, <2>3, <2>4
<1>5. Listed(NSets)
  BY <1>4, ProbeListsAssumption
<1>6. Below(NSets) = m
  BY ProbeListsAssumption DEF Set
<1> QED
  BY <1>5, <1>6

\* An injective list names as many elements as it is long.
LEMMA ShortList ==
  ASSUME NEW T, IsFiniteSet(T), NEW s \in Seq(T), IsInjective(s)
  PROVE  Len(s) <= Cardinality(T)
<1>1. Len(s) \in Nat /\ s \in [1..Len(s) -> T]
  BY LenProperties
<1>2. s \in Injection(1..Len(s), T)
  BY <1>1 DEF Injection, IsInjective
<1>3. Cardinality(1..Len(s)) = Len(s)
  BY <1>1, FS_Interval
<1> QED
  BY <1>2, <1>3, FS_Injection

LEMMA AscendingFacts ==
  ASSUME NEW m \in SUBSET Set
  PROVE  /\ Ascending(m) \in Seq(Set) /\ IsInjective(Ascending(m))
         /\ ToSet(Ascending(m)) = m
<1> DEFINE s == Ascending(m)
           n == Cardinality(m)
<1>1. s \in [1..n -> m] /\ Ordered(s)
  BY OrderExists DEF Ascending, Ordered
<1>2. IsFiniteSet(m) /\ n \in Nat
  <2>1. IsFiniteSet(Set)
    BY ProbeListsAssumption, FS_Interval DEF Set
  <2> QED
    BY <2>1, FS_Subset, FS_CardinalityType
<1> HIDE DEF s, n
<1>3. s \in Seq(Set)
  BY <1>1, <1>2, SeqOfFunction
<1>4. \A j, k \in 1..n : s[j] = s[k] => j = k
  <2> SUFFICES ASSUME NEW j \in 1..n, NEW k \in 1..n, s[j] = s[k], j # k PROVE FALSE
    OBVIOUS
  <2>1. s[j] \in Int /\ s[k] \in Int
    <3>1. s[j] \in Set /\ s[k] \in Set
      BY <1>1
    <3>2. Set \subseteq Int
      BY DEF Set
    <3> QED
      BY <3>1, <3>2
  <2>2. j < k \/ k < j
    BY <1>2
  <2> QED
    BY <1>1, <2>1, <2>2 DEF Ordered
<1>5. s \in Injection(1..n, m)
  BY <1>1, <1>4 DEF Injection, IsInjective
<1>6. Cardinality(1..n) = n
  BY <1>2, FS_Interval
<1>7. s \in Surjection(1..n, m)
  BY <1>2, <1>5, <1>6, FS_Injection DEF n
<1>8. ToSet(s) = m
  BY <1>1, <1>7 DEF Surjection, ToSet
<1>9. IsInjective(s)
  BY <1>1, <1>4 DEF IsInjective
<1> QED
  BY <1>3, <1>8, <1>9 DEF s

\* Two elements change places.
LEMMA SwapFacts ==
  ASSUME NEW S, NEW s \in Seq(S), NEW j \in 1..Len(s), NEW k \in 1..Len(s)
  PROVE  /\ Swap(s, j, k) \in Seq(S) /\ Len(Swap(s, j, k)) = Len(s)
         /\ Swap(s, j, k)[j] = s[k] /\ Swap(s, j, k)[k] = s[j]
         /\ \A x \in 1..Len(s) : x # j /\ x # k => Swap(s, j, k)[x] = s[x]
         /\ ToSet(Swap(s, j, k)) = ToSet(s)
         /\ IsInjective(s) => IsInjective(Swap(s, j, k))
<1> DEFINE t == Swap(s, j, k)
           Other(x) == IF x = k THEN j ELSE IF x = j THEN k ELSE x
<1>1. Len(s) \in Nat /\ s \in [1..Len(s) -> S]
  BY LenProperties
<1>2. t \in [1..Len(s) -> S]
  BY <1>1 DEF Swap
<1>3. \A x \in 1..Len(s) : t[x] = s[Other(x)]
  BY <1>1 DEF Swap
<1>4. \A x \in 1..Len(s) : Other(x) \in 1..Len(s) /\ Other(Other(x)) = x
  OBVIOUS
<1> HIDE DEF t, Other
<1>5. t \in Seq(S) /\ Len(t) = Len(s)
  BY <1>1, <1>2, SeqOfFunction
<1>6. ToSet(t) = ToSet(s)
  BY <1>1, <1>2, <1>3, <1>4 DEF ToSet
<1>7. IsInjective(s) => IsInjective(t)
  BY <1>1, <1>2, <1>3, <1>4 DEF IsInjective
<1> QED
  BY <1>1, <1>5, <1>6, <1>7 DEF t, Swap

\* The last element takes the place of the k-th.
LEMMA FillFacts ==
  ASSUME NEW S, NEW s \in Seq(S), NEW k \in 1..Len(s)
  PROVE  /\ FillWithLast(s, k) \in Seq(S) /\ Len(FillWithLast(s, k)) = Len(s) - 1
         /\ \A x \in 1..(Len(s) - 1) : x # k => FillWithLast(s, k)[x] = s[x]
         /\ k # Len(s) => FillWithLast(s, k)[k] = s[Len(s)]
         /\ IsInjective(s) => /\ IsInjective(FillWithLast(s, k))
                              /\ ToSet(FillWithLast(s, k)) = ToSet(s) \ {s[k]}
<1> DEFINE t == FillWithLast(s, k)
           n == Len(s)
<1>1. n \in Nat \ {0} /\ s \in [1..n -> S]
  BY LenProperties
<1>2. t = [x \in 1..(n - 1) |-> s[IF x = k THEN n ELSE x]]
  BY DEF FillWithLast, Last
<1> HIDE DEF t, n
<1>3. t \in [1..(n - 1) -> S] /\ n - 1 \in Nat /\ k \in 1..n
  BY <1>1, <1>2 DEF n
<1>4. t \in Seq(S) /\ Len(t) = n - 1
  BY <1>3, SeqOfFunction
<1>5. \A x \in 1..(n - 1) : t[x] = s[IF x = k THEN n ELSE x]
  BY <1>2
<1>6. ASSUME \A x, y \in 1..n : s[x] = s[y] => x = y
      PROVE  /\ \A x, y \in 1..(n - 1) : t[x] = t[y] => x = y
             /\ \A x \in 1..(n - 1) : \E y \in 1..n : y # k /\ t[x] = s[y]
             /\ \A y \in 1..n : y # k => \E x \in 1..(n - 1) : t[x] = s[y]
  <2>1. ASSUME NEW x \in 1..(n - 1), NEW y \in 1..(n - 1), t[x] = t[y] PROVE x = y
    <3>1. (IF x = k THEN n ELSE x) = (IF y = k THEN n ELSE y)
      BY <1>1, <1>5, <1>6, <2>1
    <3> QED
      BY <1>1, <3>1
  <2>2. ASSUME NEW x \in 1..(n - 1) PROVE \E y \in 1..n : y # k /\ t[x] = s[y]
    BY <1>1, <1>3, <1>5
  <2>3. ASSUME NEW y \in 1..n, y # k PROVE \E x \in 1..(n - 1) : t[x] = s[y]
    <3>1. CASE y = n
      BY <1>1, <1>3, <1>5, <2>3, <3>1
    <3>2. CASE y # n
      BY <1>1, <1>5, <2>3, <3>2
    <3> QED
      BY <3>1, <3>2
  <2> QED
    BY <2>1, <2>2, <2>3
<1>7. ASSUME IsInjective(s) PROVE IsInjective(t) /\ ToSet(t) = ToSet(s) \ {s[k]}
  <2>1. \A x, y \in 1..n : s[x] = s[y] => x = y
    BY <1>1, <1>7 DEF IsInjective
  <2>2. IsInjective(t)
    BY <1>3, <1>6, <2>1 DEF IsInjective
  <2>3. ToSet(s) = {s[y] : y \in 1..n} /\ ToSet(t) = {t[x] : x \in 1..(n - 1)}
    BY <1>1, <1>3 DEF ToSet
  <2>4. ASSUME NEW x \in 1..(n - 1) PROVE t[x] \in ToSet(s) \ {s[k]}
    BY <1>3, <1>6, <2>1, <2>3, SMTT(30)
  <2>5. ASSUME NEW y \in 1..n, s[y] # s[k] PROVE s[y] \in ToSet(t)
    BY <1>3, <1>6, <2>1, <2>3, <2>5, SMTT(30)
  <2> QED
    BY <2>2, <2>3, <2>4, <2>5
<1>8. /\ \A x \in 1..(n - 1) : x # k => t[x] = s[x]
      /\ k # n => t[k] = s[n]
  BY <1>1, <1>3, <1>5
<1> QED
  BY <1>4, <1>7, <1>8 DEF t, n

\* A new element at the end.
LEMMA AppendFacts ==
  ASSUME NEW S, NEW s \in Seq(S), NEW e \in S
  PROVE  /\ Append(s, e) \in Seq(S) /\ Len(Append(s, e)) = Len(s) + 1
         /\ \A x \in 1..(Len(s) + 1) :
              Append(s, e)[x] = IF x = Len(s) + 1 THEN e ELSE s[x]
         /\ ToSet(Append(s, e)) = ToSet(s) \cup {e}
         /\ IsInjective(s) /\ e \notin ToSet(s) => IsInjective(Append(s, e))
<1> DEFINE t == Append(s, e)
           n == Len(s)
<1>1. n \in Nat /\ DOMAIN s = 1..n
  BY LenProperties
<1>2. /\ t \in Seq(S) /\ Len(t) = n + 1
      /\ \A x \in 1..n : t[x] = s[x]
      /\ t[n + 1] = e
  BY AppendProperties
<1> HIDE DEF t, n
<1>3. DOMAIN t = 1..(n + 1)
  BY <1>2, LenProperties
<1>4. \A x \in 1..(n + 1) : t[x] = IF x = n + 1 THEN e ELSE s[x]
  BY <1>1, <1>2
<1>5. ToSet(s) = {s[x] : x \in 1..n} /\ ToSet(t) = {t[x] : x \in 1..(n + 1)}
  BY <1>1, <1>3 DEF ToSet
<1>6. 1..(n + 1) = (1..n) \cup {n + 1}
  BY <1>1
<1>7. ToSet(t) = ToSet(s) \cup {e}
  BY <1>1, <1>2, <1>5, <1>6
<1>8. IsInjective(s) /\ e \notin ToSet(s) => IsInjective(t)
  BY <1>1, <1>3, <1>4, <1>5 DEF IsInjective
<1> QED
  BY <1>2, <1>4, <1>7, <1>8 DEF t, n

-----------------------------------------------------------------------------
(* The order of a walk *)

\* The n-th access is to another way each time, and NWays of them meet all.
LEMMA VisitFacts ==
  ASSUME buffer \in Buffers, NEW d \in Dir
  PROVE  /\ \A n \in Way : Visit(d, n) \in Way
         /\ \A n, m \in Way : Visit(d, n) = Visit(d, m) => n = m
         /\ \A w \in Way : \E n \in Way : Visit(d, n) = w
         /\ \A s \in Set, n \in Way : At(s, d, n) \in Addr
<1>1. \A n \in Way : Visit(d, n) \in Way
  BY ProbeListsAssumption DEF Visit, Way
<1>2. \A n, m \in Way : Visit(d, n) = Visit(d, m) => n = m
  BY ProbeListsAssumption DEF Visit, Way
<1>3. ASSUME NEW w \in Way PROVE \E n \in Way : Visit(d, n) = w
  <2>1. Visit(d, w) \in Way /\ Visit(d, Visit(d, w)) = w
    BY <1>1, ProbeListsAssumption DEF Visit, Way
  <2> QED
    BY <2>1
<1>4. d \in 0..3
  BY DEF Dir, Fwd, Bkw
<1> QED
  BY <1>1, <1>2, <1>3, <1>4 DEF At, Addr

-----------------------------------------------------------------------------
(* What the invariant says at any place *)

LEMMA ListFacts ==
  ASSUME NEW s \in Seq(Set), IsInjective(s)
  PROVE  /\ Len(s) \in 0..NSets /\ DOMAIN s = 1..Len(s)
         /\ ToSet(s) \subseteq Set
         /\ \A k \in 1..Len(s) : s[k] \in Set /\ s[k] \in ToSet(s)
         /\ \A j, k \in 1..Len(s) : s[j] = s[k] => j = k
<1>1. Len(s) \in Nat /\ DOMAIN s = 1..Len(s) /\ s \in [1..Len(s) -> Set]
  BY LenProperties
<1>2. IsFiniteSet(Set) /\ Cardinality(Set) = NSets
  BY ProbeListsAssumption, FS_Interval DEF Set
<1>3. Len(s) <= NSets
  BY <1>2, ShortList
<1>4. Len(s) \in 0..NSets
  BY <1>1, <1>3, ProbeListsAssumption
<1> QED
  BY <1>1, <1>4 DEF ToSet, IsInjective

LEMMA Constants ==
  /\ NSets \in Nat \ {0} /\ NWays \in Nat \ {0} /\ NULL \notin Addr
  /\ Fwd \in Dir /\ Bkw \in Dir /\ Fwd = 0 /\ Bkw = 1
  /\ 0 \in Way /\ NWays - 1 \in Way
  /\ \A d \in Dir : d = Fwd \/ d = Bkw
BY ProbeListsAssumption DEF Dir, Fwd, Bkw, Way

\* The words that hold links.
LEMMA LinkWords ==
  ASSUME buffer \in Buffers, NEW s \in Set, NEW d \in Dir, NEW n \in Way
  PROVE  At(s, d, n) \in Addr /\ At(s, d, n)[1] = s /\ At(s, d, n)[3] = d
BY VisitFacts DEF At

\* The links of a buffer depend on words 0 and 1 only.
SameLinks == \A a \in Addr : a[3] \in Dir => mem'[a] = mem[a]

LEMMA LinksKept ==
  ASSUME buffer \in Buffers, buffer' = buffer, SameLinks
  PROVE  /\ \A s \in Set, d \in Dir : Chained(s, d) <=> Chained(s, d)'
         /\ \A s, t \in Set, d \in Dir : Linked(s, t, d) <=> Linked(s, t, d)'
         /\ \A s, d, n : At(s, d, n)' = At(s, d, n)
         /\ \A s \in Set, d \in Dir : mem'[At(s, d, NWays - 1)] = mem[At(s, d, NWays - 1)]
<1>1. \A s, d, n : At(s, d, n)' = At(s, d, n)
  BY DEF At, Visit
<1>2. \A s \in Set, d \in Dir, n \in Way : mem'[At(s, d, n)] = mem[At(s, d, n)]
  BY LinkWords DEF SameLinks
<1>3. ASSUME NEW s \in Set, NEW d \in Dir PROVE Chained(s, d) <=> Chained(s, d)'
  BY <1>1, <1>2 DEF Chained
<1>4. ASSUME NEW s \in Set, NEW t \in Set, NEW d \in Dir
      PROVE  Linked(s, t, d) <=> Linked(s, t, d)'
  BY <1>1, <1>2, Constants DEF Linked
<1> QED
  BY <1>1, <1>2, <1>3, <1>4, Constants

LEMMA InsideKept ==
  ASSUME PInv, buffer' = buffer, SameLinks, mask' \subseteq mask \/ buffer # "L3"
  PROVE  Inside'
<1>1. buffer \in Buffers /\ mask \subseteq Set
  BY DEF PInv, TypeOK
<1>2. buffer = "L1" => \A s \in Set, d \in Dir : Chained(s, d)'
  BY <1>1, LinksKept DEF PInv, Inside
<1>3. buffer = "L1I" => \A s \in Set : Chained(s, Fwd)' /\ mem'[At(s, Fwd, NWays - 1)'] = NULL
  BY <1>1, LinksKept, Constants DEF PInv, Inside
<1>4. buffer = "L3" => \A s \in mask', d \in Dir : Chained(s, d)' /\ Linked(s, s, d)'
  BY <1>1, LinksKept DEF PInv, Inside
<1> QED
  BY <1>2, <1>3, <1>4 DEF Inside

LEMMA RingKept ==
  ASSUME PInv, buffer' = buffer, SameLinks, UNCHANGED <<monitored, list>>,
         pc \in {"ready", "probe", "walk"}, pc' \in {"ready", "probe", "walk"}
  PROVE  Ring'
<1> SUFFICES ASSUME buffer = "L1" PROVE Ring'
  BY DEF Ring
<1>1. buffer \in Buffers /\ DOMAIN monitored = 1..Len(monitored) /\ Len(monitored) \in Nat
  BY ListFacts DEF PInv, TypeOK, Arrays
<1>2. \A k \in DOMAIN monitored : monitored[k] \in Set /\ monitored[Onward(k)] \in Set
  BY <1>1, ListFacts DEF PInv, Arrays, Onward
<1>3. \A k \in DOMAIN monitored, d \in Dir : Linked(monitored[k], monitored[Onward(k)], d)'
  <2>1. \A k \in DOMAIN monitored, d \in Dir : Linked(monitored[k], monitored[Onward(k)], d)
    BY DEF PInv, Ring
  <2>2. UNCHANGED monitored /\ \A k : Onward(k)' = Onward(k)
    BY DEF Onward
  <2> SUFFICES ASSUME NEW k \in DOMAIN monitored, NEW d \in Dir
               PROVE  Linked(monitored[k], monitored[Onward(k)], d)'
    OBVIOUS
  <2>3. mem'[At(monitored[k], d, NWays - 1)'] = At(monitored[Onward(k)], d, 0)'
    BY <1>1, <1>2, <2>1, <2>2, LinksKept DEF Linked
  <2> QED
    BY <2>2, <2>3 DEF Linked
<1>4. \A k : Onward(k)' = Onward(k)
  BY DEF Onward
<1>5. \A d \in Dir : list[d] = At(monitored[1], d, 0)'
  BY <1>1, LinksKept DEF PInv, Ring
<1> QED
  BY <1>3, <1>4, <1>5 DEF Ring

-----------------------------------------------------------------------------
(* Choosing and ordering the sets *)

LEMMA InitPInv == Init => PInv
<1> SUFFICES ASSUME Init PROVE PInv
  OBVIOUS
<1>1. buffer \in Buffers /\ buffer \in {"L1", "L1I", "L3"} /\ mask \subseteq Set
  BY ProbeListsAssumption DEF Init
<1>2. monitored \in Seq(Set) /\ IsInjective(monitored) /\ ToSet(monitored) = mask
  BY <1>1, AscendingFacts DEF Init
<1>3. /\ Len(monitored) \in 0..NSets /\ ToSet(monitored) \subseteq Set
      /\ DOMAIN monitored = 1..Len(monitored)
  BY <1>2, ListFacts
<1>4. buffer = "L3" => heads = [k \in DOMAIN monitored |-> <<monitored[k], 0, Fwd>>]
  <2> SUFFICES ASSUME buffer = "L3" PROVE DOMAIN monitored = {}
    BY DEF Init
  <2> QED
    BY <1>2 DEF Init, ToSet
<1>5. heads \in Seq(Addr) /\ ToSet(heads) \subseteq Addr /\ touched = <<>>
  BY DEF Init, ToSet
<1>6. 0 \in Set
  BY Constants DEF Set
<1>7. Arrays
  BY <1>2, <1>4, <1>5, <1>6 DEF Init, Arrays
<1>8. TypeOK
  <2>1. ASSUME NEW a \in Addr PROVE Prepared(a) \in Addr \cup {NULL, Data}
    <3>1. a[1] \in Set /\ a[2] \in Way /\ a[3] \in 0..3
      BY DEF Addr
    <3>2. a[2] < NWays - 1 => <<a[1], a[2] + 1, Fwd>> \in Addr
      BY <3>1, Constants DEF Addr, Way
    <3>3. a[2] > 0 => <<a[1], a[2] - 1, Bkw>> \in Addr
      BY <3>1, Constants DEF Addr, Way
    <3> QED
      BY <3>2, <3>3 DEF Prepared
  <2>2. mem \in [Addr -> Addr \cup {NULL, Data}]
    BY <2>1 DEF Init
  <2> QED
    BY <1>1, <1>3, <1>5, <2>2, Constants DEF Init, TypeOK
<1>9. Inside
  <2>1. ASSUME NEW s \in Set, NEW d \in Dir, NEW n \in Way, n + 1 < NWays,
               buffer = "L1" \/ (buffer = "L1I" /\ d = Fwd)
        PROVE  mem[At(s, d, n)] = At(s, d, n + 1)
    <3>1. At(s, d, n) \in Addr /\ mem[At(s, d, n)] = Prepared(At(s, d, n))
      BY <1>1, LinkWords DEF Init
    <3> QED
      BY <2>1, <3>1, Constants DEF Prepared, At, Visit, Way
  <2>2. ASSUME NEW s \in Set, buffer = "L1I" PROVE mem[At(s, Fwd, NWays - 1)] = NULL
    <3>1. /\ At(s, Fwd, NWays - 1) \in Addr
          /\ mem[At(s, Fwd, NWays - 1)] = Prepared(At(s, Fwd, NWays - 1))
      BY <1>1, LinkWords, Constants DEF Init
    <3> QED
      BY <2>2, <3>1, Constants DEF Prepared, At, Visit, Way
  <2>3. buffer = "L3" => mask = {}
    BY DEF Init
  <2> QED
    BY <2>1, <2>2, <2>3, Constants DEF Inside, Chained
<1>10. Ring /\ Progress
  <2>1. touched \in Seq(SUBSET (Set \X Way))
    BY <1>5
  <2> QED
    BY <1>3, <1>5, <2>1 DEF Init, Ring, Progress
<1> QED
  BY <1>7, <1>8, <1>9, <1>10 DEF PInv

\* A new choice of sets, in ascending order.
LEMMA SetMonitoredInv == ASSUME PInv, SetMonitored PROVE PInv'
<1>1. /\ pc' = "shuffle" /\ i' = 1 /\ touched' = <<>> /\ buffer # "L3"
      /\ UNCHANGED <<buffer, mem, heads, list, dir, head, p, left>>
      /\ mask' \subseteq Set /\ monitored' = Ascending(mask')
      /\ buffer = "L1" => mask' # {}
  <2>1. mask' \in Masks
    BY DEF SetMonitored
  <2>2. mask' \subseteq Set /\ (buffer = "L1" => mask' # {})
    BY <2>1 DEF Masks
  <2> QED
    BY <2>2 DEF SetMonitored
<1>2. monitored' \in Seq(Set) /\ IsInjective(monitored') /\ ToSet(monitored') = mask'
  BY <1>1, AscendingFacts
<1>3. Len(monitored') \in 0..NSets /\ ToSet(monitored') \subseteq Set
  BY <1>2, ListFacts
<1>4. Arrays'
  BY <1>1, <1>2 DEF PInv, Arrays
<1>5. TypeOK'
  BY <1>1, <1>3, Constants DEF PInv, TypeOK
<1>6. Inside'
  BY <1>1, InsideKept DEF SameLinks
<1>7. touched' \in Seq(SUBSET (Set \X Way))
  BY <1>1
<1>8. Ring' /\ Progress'
  BY <1>1, <1>3, <1>7 DEF Ring, Progress
<1> QED
  BY <1>4, <1>5, <1>6, <1>8 DEF PInv

LEMMA RandomiseInv == ASSUME PInv, Randomise PROVE PInv'
<1>1. /\ pc' = "shuffle" /\ i' = 1 /\ touched' = <<>>
      /\ UNCHANGED <<buffer, mem, mask, monitored, heads, list, dir, head, p, left>>
  BY DEF Randomise, listVars
<1>2. Len(monitored) \in 0..NSets
  BY ListFacts DEF PInv, Arrays
<1>3. Arrays' /\ TypeOK'
  BY <1>1, Constants DEF PInv, Arrays, TypeOK
<1>4. Inside'
  BY <1>1, InsideKept DEF SameLinks
<1>5. touched' \in Seq(SUBSET (Set \X Way))
  BY <1>1
<1>6. Ring' /\ Progress'
  BY <1>1, <1>2, <1>5 DEF Ring, Progress
<1> QED
  BY <1>3, <1>4, <1>6 DEF PInv

\* A step of the shuffle: the heads move with their sets.
LEMMA ShuffleInv == ASSUME PInv, Shuffle PROVE PInv'
<1>1. /\ pc = "shuffle" /\ i <= Len(monitored) /\ i' = i + 1
      /\ UNCHANGED <<buffer, pc, mem, mask, list, dir, head, p, left, touched>>
  BY DEF Shuffle, walkVars
<1>2. PICK k \in i..Len(monitored) :
        /\ monitored' = Swap(monitored, i, k)
        /\ heads' = IF buffer = "L3" THEN Swap(heads, i, k) ELSE heads
  BY DEF Shuffle
<1>3. /\ Len(monitored) \in 0..NSets /\ DOMAIN monitored = 1..Len(monitored)
      /\ i \in 1..Len(monitored) /\ k \in 1..Len(monitored)
  BY <1>1, <1>2, ListFacts DEF PInv, Arrays, Progress
<1>4. /\ monitored' \in Seq(Set) /\ Len(monitored') = Len(monitored)
      /\ IsInjective(monitored') /\ ToSet(monitored') = mask
      /\ monitored'[i] = monitored[k] /\ monitored'[k] = monitored[i]
      /\ \A x \in 1..Len(monitored) : x # i /\ x # k => monitored'[x] = monitored[x]
  <2>1. monitored \in Seq(Set) /\ IsInjective(monitored) /\ ToSet(monitored) = mask
    BY DEF PInv, Arrays
  <2> QED
    BY <1>2, <1>3, <2>1, SwapFacts, ZenonT(60)
<1>5. /\ heads' \in Seq(Addr) /\ ToSet(heads') \subseteq Addr
      /\ buffer = "L3" => heads' = [x \in 1..Len(monitored) |-> <<monitored'[x], 0, Fwd>>]
  <2>1. CASE buffer # "L3"
    BY <1>2, <2>1 DEF PInv, Arrays, TypeOK
  <2>2. CASE buffer = "L3"
    <3>1. heads \in Seq(Addr) /\ heads = [x \in 1..Len(monitored) |-> <<monitored[x], 0, Fwd>>]
      BY <1>3, <2>2 DEF PInv, Arrays
    <3>2. Len(heads) = Len(monitored)
      <4>1. DOMAIN heads = 1..Len(heads) /\ Len(heads) \in Nat
        BY <3>1, LenProperties
      <4> QED
        BY <1>3, <3>1, <4>1
    <3>3. /\ heads' \in Seq(Addr) /\ Len(heads') = Len(heads)
          /\ ToSet(heads') = ToSet(heads)
          /\ heads'[i] = heads[k] /\ heads'[k] = heads[i]
          /\ \A x \in 1..Len(heads) : x # i /\ x # k => heads'[x] = heads[x]
      <4>1. heads' = Swap(heads, i, k) /\ i \in 1..Len(heads) /\ k \in 1..Len(heads)
        BY <1>2, <1>3, <2>2, <3>2
      <4>2. heads \in Seq(Addr)
        BY <3>1
      <4> QED
        BY <4>1, <4>2, SwapFacts, ZenonT(60)
    <3>4. DOMAIN heads' = 1..Len(monitored) /\ heads' = [x \in DOMAIN heads' |-> heads'[x]]
      BY <3>2, <3>3, LenProperties
    <3>5. \A x \in 1..Len(monitored) : heads'[x] = <<monitored'[x], 0, Fwd>>
      BY <1>3, <1>4, <3>1, <3>2, <3>3
    <3> QED
      BY <3>3, <3>4, <3>5 DEF PInv, TypeOK
  <2> QED
    BY <2>1, <2>2
<1>6. DOMAIN monitored' = 1..Len(monitored) /\ ToSet(monitored') \subseteq Set
  BY <1>4, ListFacts
<1>7. Arrays'
  BY <1>1, <1>4, <1>5, <1>6 DEF PInv, Arrays
<1>8. touched = <<>>
  BY <1>1 DEF PInv, Progress
<1>9. TypeOK'
  BY <1>1, <1>3, <1>4, <1>5, <1>6, <1>8, Constants DEF PInv, TypeOK
<1>10. Inside'
  BY <1>1, InsideKept DEF SameLinks
<1>11. Ring' /\ Progress'
  BY <1>1, <1>3, <1>4, <1>8 DEF PInv, Ring, Progress
<1> QED
  BY <1>7, <1>9, <1>10, <1>11 DEF PInv

LEMMA ShuffleDoneInv == ASSUME PInv, ShuffleDone PROVE PInv'
<1>1. /\ pc = "shuffle" /\ pc' = (IF buffer = "L1" THEN "link" ELSE "ready") /\ i' = 1
      /\ UNCHANGED <<buffer, mem, mask, monitored, heads, list, dir, head, p, left, touched>>
  BY DEF ShuffleDone, listVars, walkVars
<1>2. Len(monitored) \in 0..NSets /\ DOMAIN monitored = 1..Len(monitored) /\ touched = <<>>
  BY <1>1, ListFacts DEF PInv, Arrays, Progress
<1>3. buffer = "L1" => Len(monitored) >= 1
  BY <1>2 DEF PInv, Arrays, ToSet
<1>4. Arrays' /\ TypeOK'
  BY <1>1, Constants DEF PInv, Arrays, TypeOK
<1>5. Inside'
  BY <1>1, InsideKept DEF SameLinks
<1>6. Ring'
  BY <1>1 DEF Ring
<1>7. Progress'
  BY <1>1, <1>2, <1>3 DEF PInv, Progress
<1> QED
  BY <1>4, <1>5, <1>6, <1>7 DEF PInv

-----------------------------------------------------------------------------
(* The ring of L1 *)

\* A set is linked to the next one in both directions; nothing else changes.
LEMMA LinkSetFacts ==
  ASSUME buffer = "L1", mem \in [Addr -> Addr \cup {NULL, Data}],
         NEW s \in Set, NEW t \in Set
  PROVE  /\ LinkSet(s, t) \in [Addr -> Addr \cup {NULL, Data}]
         /\ \A u \in Set, d \in Dir, n \in Way :
              u # s \/ n # NWays - 1 => LinkSet(s, t)[At(u, d, n)] = mem[At(u, d, n)]
         /\ \A d \in Dir : LinkSet(s, t)[At(s, d, NWays - 1)] = At(t, d, 0)
<1> USE Constants
<1>1. /\ At(s, Fwd, NWays - 1) = <<s, NWays - 1, Fwd>> /\ At(s, Bkw, NWays - 1) = <<s, 0, Bkw>>
      /\ At(t, Fwd, 0) = <<t, 0, Fwd>> /\ At(t, Bkw, 0) = <<t, NWays - 1, Bkw>>
  BY DEF At, Visit
<1>2. /\ <<s, NWays - 1, Fwd>> \in Addr /\ <<s, 0, Bkw>> \in Addr
      /\ <<t, 0, Fwd>> \in Addr /\ <<t, NWays - 1, Bkw>> \in Addr
  BY DEF Addr
<1>3. <<s, NWays - 1, Fwd>> # <<s, 0, Bkw>>
  OBVIOUS
<1>4. \A a \in Addr : a # <<s, NWays - 1, Fwd>> /\ a # <<s, 0, Bkw>> => LinkSet(s, t)[a] = mem[a]
  BY DEF LinkSet
<1>5. /\ LinkSet(s, t)[<<s, NWays - 1, Fwd>>] = <<t, 0, Fwd>>
      /\ LinkSet(s, t)[<<s, 0, Bkw>>] = <<t, NWays - 1, Bkw>>
  BY <1>2, <1>3 DEF LinkSet
<1>6. LinkSet(s, t) \in [Addr -> Addr \cup {NULL, Data}]
  BY <1>2 DEF LinkSet
<1>7. ASSUME NEW u \in Set, NEW d \in Dir, NEW n \in Way, u # s \/ n # NWays - 1
      PROVE  LinkSet(s, t)[At(u, d, n)] = mem[At(u, d, n)]
  <2>1. At(u, d, n) \in Addr
    BY <1>7 DEF At, Visit, Addr, Way
  <2>2. At(u, d, n) # <<s, NWays - 1, Fwd>> /\ At(u, d, n) # <<s, 0, Bkw>>
    BY <1>7 DEF At, Visit, Way
  <2> QED
    BY <1>4, <2>1, <2>2
<1> QED
  BY <1>1, <1>5, <1>6, <1>7

\* What linking the i-th set leaves: the chains inside, and the links before.
LEMMA LinkingEffect ==
  ASSUME PInv, pc = "link", buffer' = buffer, NEW t \in Set,
         mem' = LinkSet(monitored[i], t)
  PROVE  /\ mem' \in [Addr -> Addr \cup {NULL, Data}] /\ Inside'
         /\ \A k \in 1..(i - 1), d \in Dir :
              mem'[At(monitored[k], d, NWays - 1)] = At(monitored[k + 1], d, 0)
         /\ \A d \in Dir : mem'[At(monitored[i], d, NWays - 1)] = At(t, d, 0)
<1>1. /\ buffer = "L1" /\ mem \in [Addr -> Addr \cup {NULL, Data}]
      /\ i \in 1..Len(monitored) /\ Len(monitored) \in Nat
      /\ \A k \in 1..Len(monitored) : monitored[k] \in Set
      /\ \A j, k \in 1..Len(monitored) : monitored[j] = monitored[k] => j = k
  BY ListFacts DEF PInv, TypeOK, Progress, Arrays
<1>2. monitored[i] \in Set
  BY <1>1
<1>3. /\ mem' \in [Addr -> Addr \cup {NULL, Data}]
      /\ \A u \in Set, d \in Dir, n \in Way :
           u # monitored[i] \/ n # NWays - 1 => mem'[At(u, d, n)] = mem[At(u, d, n)]
      /\ \A d \in Dir : mem'[At(monitored[i], d, NWays - 1)] = At(t, d, 0)
  BY <1>1, <1>2, LinkSetFacts
<1>4. \A s, d, n : At(s, d, n)' = At(s, d, n)
  BY DEF At, Visit
<1>5. ASSUME NEW s \in Set, NEW d \in Dir PROVE Chained(s, d)'
  <2> SUFFICES ASSUME NEW n \in Way, n + 1 < NWays
               PROVE  mem'[At(s, d, n)] = At(s, d, n + 1)
    BY <1>4 DEF Chained
  <2>1. n # NWays - 1
    BY Constants
  <2>2. mem'[At(s, d, n)] = mem[At(s, d, n)]
    BY <1>3, <2>1
  <2> QED
    BY <1>1, <2>2 DEF PInv, Inside, Chained
<1>6. ASSUME NEW k \in 1..(i - 1), NEW d \in Dir
      PROVE  mem'[At(monitored[k], d, NWays - 1)] = At(monitored[k + 1], d, 0)
  <2>1. k \in 1..Len(monitored) /\ k # i /\ monitored[k] \in Set /\ monitored[k] # monitored[i]
    BY <1>1
  <2>2. mem'[At(monitored[k], d, NWays - 1)] = mem[At(monitored[k], d, NWays - 1)]
    BY <1>3, <2>1, Constants
  <2> QED
    BY <1>1, <2>2 DEF PInv, Ring, Linked
<1>7. Inside'
  BY <1>1, <1>5 DEF Inside
<1> QED
  BY <1>3, <1>6, <1>7

LEMMA LinkInv == ASSUME PInv, Link PROVE PInv'
<1>1. /\ pc = "link" /\ i < Len(monitored) /\ i' = i + 1
      /\ mem' = LinkSet(monitored[i], monitored[i + 1])
      /\ UNCHANGED <<buffer, pc, mask, monitored, heads, list, dir, head, p, left, touched>>
  BY DEF Link, walkVars
<1>2. /\ i \in 1..Len(monitored) /\ Len(monitored) \in 0..NSets
      /\ \A k \in 1..Len(monitored) : monitored[k] \in Set
  BY <1>1, ListFacts DEF PInv, Progress, Arrays
<1>3. i + 1 \in 1..Len(monitored) /\ monitored[i + 1] \in Set
  BY <1>1, <1>2
<1>4. /\ mem' \in [Addr -> Addr \cup {NULL, Data}] /\ Inside'
      /\ \A k \in 1..(i - 1), d \in Dir :
           mem'[At(monitored[k], d, NWays - 1)] = At(monitored[k + 1], d, 0)
      /\ \A d \in Dir : mem'[At(monitored[i], d, NWays - 1)] = At(monitored[i + 1], d, 0)
  BY <1>1, <1>3, LinkingEffect
<1>5. Arrays'
  BY <1>1 DEF PInv, Arrays
<1>6. TypeOK'
  BY <1>1, <1>2, <1>3, <1>4, Constants DEF PInv, TypeOK
<1>7. Ring'
  <2>1. \A s, d, n : At(s, d, n)' = At(s, d, n)
    BY <1>1 DEF At, Visit
  <2>2. ASSUME NEW k \in 1..(i' - 1), NEW d \in Dir
        PROVE  mem'[At(monitored[k], d, NWays - 1)] = At(monitored[k + 1], d, 0)
    BY <1>1, <1>2, <1>4
  <2>3. \A k \in 1..(i' - 1), d \in Dir : Linked(monitored[k], monitored[k + 1], d)'
    BY <1>1, <2>1, <2>2 DEF Linked
  <2> QED
    BY <1>1, <2>3 DEF Ring
<1>8. Progress'
  BY <1>1, <1>2, <1>3 DEF PInv, Progress
<1> QED
  BY <1>4, <1>5, <1>6, <1>7, <1>8 DEF PInv

LEMMA CloseRingInv == ASSUME PInv, CloseRing PROVE PInv'
<1>1. /\ pc = "link" /\ i = Len(monitored) /\ i' = 1 /\ pc' = "ready"
      /\ mem' = LinkSet(monitored[i], monitored[1])
      /\ list' = [list EXCEPT ![Fwd] = <<monitored[1], 0, Fwd>>,
                              ![Bkw] = <<monitored[1], NWays - 1, Bkw>>]
      /\ UNCHANGED <<buffer, mask, monitored, heads, dir, head, p, left, touched>>
  BY DEF CloseRing, walkVars
<1>2. /\ i \in 1..Len(monitored) /\ Len(monitored) \in 0..NSets
      /\ DOMAIN monitored = 1..Len(monitored)
      /\ \A k \in 1..Len(monitored) : monitored[k] \in Set
      /\ buffer = "L1" /\ touched = <<>> /\ list \in [{Fwd, Bkw} -> Addr \cup {NULL}]
  BY <1>1, ListFacts DEF PInv, TypeOK, Progress, Arrays
<1>3. 1 \in 1..Len(monitored) /\ monitored[1] \in Set
  BY <1>1, <1>2
<1>4. /\ mem' \in [Addr -> Addr \cup {NULL, Data}] /\ Inside'
      /\ \A k \in 1..(i - 1), d \in Dir :
           mem'[At(monitored[k], d, NWays - 1)] = At(monitored[k + 1], d, 0)
      /\ \A d \in Dir : mem'[At(monitored[i], d, NWays - 1)] = At(monitored[1], d, 0)
  BY <1>1, <1>3, LinkingEffect
<1>5. Arrays'
  BY <1>1 DEF PInv, Arrays
<1>6. /\ <<monitored[1], 0, Fwd>> \in Addr /\ <<monitored[1], NWays - 1, Bkw>> \in Addr
      /\ <<monitored[1], 0, Fwd>> = At(monitored[1], Fwd, 0)
      /\ <<monitored[1], NWays - 1, Bkw>> = At(monitored[1], Bkw, 0)
  BY <1>2, <1>3, Constants DEF Addr, At, Visit
<1>7. list' \in [{Fwd, Bkw} -> Addr \cup {NULL}] /\ \A d \in Dir : list'[d] = At(monitored[1], d, 0)
  BY <1>1, <1>2, <1>6, Constants
<1>8. TypeOK'
  <2>1. i' \in 1..(NSets + 1)
    BY <1>1, Constants
  <2> QED
    BY <1>1, <1>4, <1>7, <2>1 DEF PInv, TypeOK
<1>9. Ring'
  <2>1. /\ \A s, d, n : At(s, d, n)' = At(s, d, n)
        /\ \A k : Onward(k)' = Onward(k)
    BY <1>1 DEF At, Visit, Onward
  <2>2. ASSUME NEW k \in DOMAIN monitored, NEW d \in Dir
        PROVE  mem'[At(monitored[k], d, NWays - 1)] = At(monitored[Onward(k)], d, 0)
    BY <1>1, <1>2, <1>4 DEF Onward
  <2>3. \A k \in DOMAIN monitored, d \in Dir : Linked(monitored[k], monitored[Onward(k)], d)'
    BY <1>1, <2>1, <2>2 DEF Linked
  <2>4. \A d \in Dir : list'[d] = At(monitored[1], d, 0)'
    BY <1>1, <1>7, <2>1
  <2> QED
    BY <1>1, <2>1, <2>3, <2>4 DEF Ring
<1>10. Progress'
  BY <1>1, <1>2 DEF PInv, Progress
<1> QED
  BY <1>4, <1>5, <1>8, <1>9, <1>10 DEF PInv

-----------------------------------------------------------------------------
(* The sets of L3 *)

\* Adding modulo the associativity.
LEMMA ModWays ==
  ASSUME NEW w \in Way
  PROVE  /\ (w + 1) % NWays = IF w = NWays - 1 THEN 0 ELSE w + 1
         /\ (w + NWays - 1) % NWays = IF w = 0 THEN NWays - 1 ELSE w - 1
<1> USE Constants DEF Way
<1>1. CASE w = NWays - 1
  BY <1>1
<1>2. CASE w # NWays - 1
  BY <1>2
<1>3. (w + NWays - 1) % NWays = IF w = 0 THEN NWays - 1 ELSE w - 1
  <2>1. CASE w = 0
    BY <2>1
  <2>2. CASE w # 0
    <3>1. w - 1 \in 0..(NWays - 1) /\ w + NWays - 1 = (w - 1) + NWays
      BY <2>2
    <3>2. (w - 1) % NWays = w - 1
      BY <3>1
    <3> QED
      BY <2>2, <3>1, <3>2
  <2> QED
    BY <2>1, <2>2
<1> QED
  BY <1>1, <1>2, <1>3

\* sethead makes two rings of a set, whatever its lines held before.
LEMMA SetHeadFacts ==
  ASSUME buffer = "L3", mem \in [Addr -> Addr \cup {NULL, Data}], NEW s \in Set
  PROVE  /\ SetHead(s) \in [Addr -> Addr \cup {NULL, Data}]
         /\ \A u \in Set, d \in Dir, n \in Way :
              u # s => SetHead(s)[At(u, d, n)] = mem[At(u, d, n)]
         /\ \A d \in Dir, n \in Way :
              SetHead(s)[At(s, d, n)] = At(s, d, IF n = NWays - 1 THEN 0 ELSE n + 1)
<1> USE Constants
<1>1. ASSUME NEW u \in Set, NEW d \in Dir, NEW n \in Way
      PROVE  /\ At(u, d, n) = <<u, Visit(d, n), d>> /\ At(u, d, n) \in Addr /\ Visit(d, n) \in Way
             /\ Visit(Fwd, n) = n /\ Visit(Bkw, n) = IF n = 0 THEN 0 ELSE NWays - n
  BY DEF At, Addr, Visit, Way
<1>2. ASSUME NEW a \in Addr PROVE SetHead(s)[a] \in Addr \cup {NULL, Data}
  <2>1. a[2] \in Way /\ mem[a] \in Addr \cup {NULL, Data}
    BY DEF Addr
  <2>2. (a[2] + 1) % NWays \in Way /\ (a[2] + NWays - 1) % NWays \in Way
    <3> DEFINE w == a[2]
    <3> HIDE DEF w
    <3>1. w \in Way
      BY <2>1 DEF w
    <3>2. (w + 1) % NWays \in Way /\ (w + NWays - 1) % NWays \in Way
      BY <3>1, ModWays DEF Way
    <3> QED
      BY <3>2 DEF w
  <2>3. <<s, (a[2] + 1) % NWays, Fwd>> \in Addr /\ <<s, (a[2] + NWays - 1) % NWays, Bkw>> \in Addr
    BY <2>2 DEF Addr
  <2> QED
    BY <2>1, <2>3 DEF SetHead
<1>3. SetHead(s) \in [Addr -> Addr \cup {NULL, Data}]
  BY <1>2 DEF SetHead
<1>4. ASSUME NEW u \in Set, NEW d \in Dir, NEW n \in Way, u # s
      PROVE  SetHead(s)[At(u, d, n)] = mem[At(u, d, n)]
  BY <1>1, <1>4 DEF SetHead
<1>5. ASSUME NEW d \in Dir, NEW n \in Way
      PROVE  SetHead(s)[At(s, d, n)] = At(s, d, IF n = NWays - 1 THEN 0 ELSE n + 1)
  <2> DEFINE w == Visit(d, n)
  <2>1. /\ At(s, d, n) \in Addr /\ At(s, d, n)[1] = s /\ At(s, d, n)[2] = w
        /\ At(s, d, n)[3] = d /\ w \in Way
    BY <1>1
  <2>2. CASE d = Fwd
    <3>1. SetHead(s)[At(s, d, n)] = <<s, (w + 1) % NWays, Fwd>>
      BY <2>1, <2>2 DEF SetHead
    <3> QED
      BY <1>1, <2>1, <2>2, <3>1, ModWays DEF At, Visit, Way
  <2>3. CASE d = Bkw
    <3>1. SetHead(s)[At(s, d, n)] = <<s, (w + NWays - 1) % NWays, Bkw>>
      BY <2>1, <2>3 DEF SetHead
    <3>2. (w + NWays - 1) % NWays = IF w = 0 THEN NWays - 1 ELSE w - 1
      BY <2>1, ModWays
    <3>3. w = IF n = 0 THEN 0 ELSE NWays - n
      BY <1>1, <2>3
    <3>4. Visit(Bkw, IF n = NWays - 1 THEN 0 ELSE n + 1) = IF w = 0 THEN NWays - 1 ELSE w - 1
      BY <3>3 DEF Visit, Way
    <3> QED
      BY <2>3, <3>1, <3>2, <3>4 DEF At
  <2> QED
    BY <2>2, <2>3
<1> QED
  BY <1>3, <1>4, <1>5

LEMMA MonitorInv == ASSUME PInv, Monitor PROVE PInv'
<1>1. PICK s \in Set \ mask :
        /\ mask' = mask \cup {s}
        /\ monitored' = Append(monitored, s)
        /\ heads' = Append(heads, <<s, 0, Fwd>>)
        /\ mem' = SetHead(s)
  BY DEF Monitor
<1>2. /\ pc = "ready" /\ buffer = "L3" /\ touched' = <<>>
      /\ UNCHANGED <<buffer, pc, list, i, dir, head, p, left>>
  BY DEF Monitor
<1>3. /\ monitored \in Seq(Set) /\ IsInjective(monitored) /\ ToSet(monitored) = mask
      /\ Len(monitored) \in Nat /\ DOMAIN monitored = 1..Len(monitored)
      /\ heads \in Seq(Addr)
      /\ heads = [k \in 1..Len(monitored) |-> <<monitored[k], 0, Fwd>>]
      /\ mem \in [Addr -> Addr \cup {NULL, Data}] /\ mask \subseteq Set
      /\ ToSet(heads) \subseteq Addr
  BY <1>2, ListFacts DEF PInv, Arrays, TypeOK
<1>4. /\ monitored' \in Seq(Set) /\ Len(monitored') = Len(monitored) + 1
      /\ \A k \in 1..(Len(monitored) + 1) :
           monitored'[k] = IF k = Len(monitored) + 1 THEN s ELSE monitored[k]
      /\ ToSet(monitored') = mask' /\ IsInjective(monitored')
  BY <1>1, <1>3, AppendFacts
<1>5. <<s, 0, Fwd>> \in Addr
  BY Constants DEF Addr
<1>6. Len(heads) = Len(monitored)
  <2>1. DOMAIN heads = 1..Len(heads) /\ Len(heads) \in Nat
    BY <1>3, LenProperties
  <2> QED
    BY <1>3, <2>1
<1>7. /\ heads' \in Seq(Addr) /\ Len(heads') = Len(monitored) + 1
      /\ \A k \in 1..(Len(monitored) + 1) :
           heads'[k] = IF k = Len(monitored) + 1 THEN <<s, 0, Fwd>> ELSE heads[k]
      /\ ToSet(heads') = ToSet(heads) \cup {<<s, 0, Fwd>>}
  <2>1. heads \in Seq(Addr) /\ heads' = Append(heads, <<s, 0, Fwd>>)
    BY <1>1, <1>3
  <2> QED
    BY <1>5, <1>6, <2>1, AppendFacts
<1>8. DOMAIN monitored' = 1..(Len(monitored) + 1) /\ Len(monitored') \in 0..NSets
  BY <1>4, ListFacts
<1>9. heads' = [k \in DOMAIN monitored' |-> <<monitored'[k], 0, Fwd>>]
  <2>1. DOMAIN heads' = 1..(Len(monitored) + 1) /\ heads' = [k \in DOMAIN heads' |-> heads'[k]]
    BY <1>7, LenProperties
  <2>2. ASSUME NEW k \in 1..(Len(monitored) + 1) PROVE heads'[k] = <<monitored'[k], 0, Fwd>>
    <3>1. CASE k = Len(monitored) + 1
      BY <1>4, <1>7, <3>1
    <3>2. CASE k # Len(monitored) + 1
      <4>1. k \in 1..Len(monitored)
        BY <1>3, <3>2
      <4> QED
        BY <1>3, <1>4, <1>7, <3>2, <4>1
    <3> QED
      BY <3>1, <3>2
  <2> QED
    BY <1>8, <2>1, <2>2
<1>10. Arrays'
  BY <1>2, <1>4, <1>7, <1>9 DEF Arrays
<1>11. /\ mem' \in [Addr -> Addr \cup {NULL, Data}]
       /\ \A u \in Set, d \in Dir, n \in Way : u # s => mem'[At(u, d, n)] = mem[At(u, d, n)]
       /\ \A d \in Dir, n \in Way :
            mem'[At(s, d, n)] = At(s, d, IF n = NWays - 1 THEN 0 ELSE n + 1)
  BY <1>1, <1>2, <1>3, SetHeadFacts
<1>12. TypeOK'
  <2>1. ToSet(heads') \subseteq Addr /\ mask' \subseteq Set /\ ToSet(monitored') \subseteq Set
    BY <1>1, <1>3, <1>4, <1>5, <1>7
  <2>2. Len(monitored') <= NSets
    BY <1>8
  <2> QED
    BY <1>2, <1>11, <2>1, <2>2 DEF PInv, TypeOK
<1>13. Inside'
  <2>1. \A u, d, n : At(u, d, n)' = At(u, d, n)
    BY <1>2 DEF At, Visit
  <2>2. ASSUME NEW u \in mask', NEW d \in Dir
        PROVE  /\ \A n \in Way : n + 1 < NWays => mem'[At(u, d, n)] = At(u, d, n + 1)
               /\ mem'[At(u, d, NWays - 1)] = At(u, d, 0)
    <3>1. CASE u = s
      BY <1>11, <3>1, Constants DEF Way
    <3>2. CASE u # s
      <4>1. u \in mask /\ u \in Set
        BY <1>1, <1>3, <3>2
      <4>2. Chained(u, d) /\ Linked(u, u, d)
        BY <1>2, <4>1 DEF PInv, Inside
      <4> QED
        BY <1>11, <3>2, <4>1, <4>2, Constants DEF Chained, Linked
    <3> QED
      BY <3>1, <3>2
  <2>3. \A u \in mask', d \in Dir : Chained(u, d)' /\ Linked(u, u, d)'
    BY <2>1, <2>2 DEF Chained, Linked
  <2> QED
    BY <1>2, <2>3 DEF Inside
<1>14. touched' \in Seq(SUBSET (Set \X Way))
  BY <1>2
<1>15. Ring' /\ Progress'
  BY <1>2, <1>14 DEF Ring, Progress
<1> QED
  BY <1>10, <1>12, <1>13, <1>15 DEF PInv

LEMMA UnmonitorInv == ASSUME PInv, Unmonitor PROVE PInv'
<1>1. PICK k \in DOMAIN monitored :
        /\ mask' = mask \ {monitored[k]}
        /\ monitored' = FillWithLast(monitored, k)
        /\ heads' = FillWithLast(heads, k)
  BY DEF Unmonitor
<1>2. /\ pc = "ready" /\ buffer = "L3" /\ touched' = <<>>
      /\ UNCHANGED <<buffer, pc, mem, list, i, dir, head, p, left>>
  BY DEF Unmonitor
<1>3. /\ monitored \in Seq(Set) /\ IsInjective(monitored) /\ ToSet(monitored) = mask
      /\ Len(monitored) \in Nat /\ DOMAIN monitored = 1..Len(monitored)
      /\ heads \in Seq(Addr)
      /\ heads = [x \in 1..Len(monitored) |-> <<monitored[x], 0, Fwd>>]
      /\ \A x \in 1..Len(monitored) : monitored[x] \in Set
  BY <1>2, ListFacts DEF PInv, Arrays
<1>4. /\ monitored' \in Seq(Set) /\ Len(monitored') = Len(monitored) - 1
      /\ \A x \in 1..(Len(monitored) - 1) : x # k => monitored'[x] = monitored[x]
      /\ k # Len(monitored) => monitored'[k] = monitored[Len(monitored)]
      /\ ToSet(monitored') = mask' /\ IsInjective(monitored')
  <2>1. k \in 1..Len(monitored) /\ monitored' = FillWithLast(monitored, k)
    BY <1>1, <1>3
  <2>2. monitored \in Seq(Set) /\ IsInjective(monitored)
    BY <1>3
  <2>3. /\ IsInjective(FillWithLast(monitored, k))
        /\ ToSet(FillWithLast(monitored, k)) = ToSet(monitored) \ {monitored[k]}
    BY <2>1, <2>2, FillFacts
  <2>4. ToSet(monitored') = mask' /\ IsInjective(monitored')
    BY <1>1, <1>3, <2>3
  <2> QED
    BY <2>1, <2>2, <2>4, FillFacts, ZenonT(60)
<1>5. Len(heads) = Len(monitored)
  <2>1. DOMAIN heads = 1..Len(heads) /\ Len(heads) \in Nat
    BY <1>3, LenProperties
  <2> QED
    BY <1>3, <2>1
<1>6. /\ heads' \in Seq(Addr) /\ Len(heads') = Len(monitored) - 1
      /\ \A x \in 1..(Len(monitored) - 1) : x # k => heads'[x] = heads[x]
      /\ k # Len(monitored) => heads'[k] = heads[Len(monitored)]
  <2>1. k \in 1..Len(heads) /\ heads' = FillWithLast(heads, k)
    BY <1>1, <1>3, <1>5
  <2>2. heads \in Seq(Addr)
    BY <1>3
  <2> QED
    <3> DEFINE f == FillWithLast(heads, k)
    <3>1. /\ f \in Seq(Addr) /\ Len(f) = Len(heads) - 1
          /\ \A x \in 1..(Len(heads) - 1) : x # k => f[x] = heads[x]
          /\ k # Len(heads) => f[k] = heads[Len(heads)]
      BY <2>1, <2>2, FillFacts, ZenonT(60)
    <3> QED
      BY <1>5, <2>1, <3>1
<1>7. /\ DOMAIN monitored' = 1..(Len(monitored) - 1) /\ Len(monitored') \in 0..NSets
      /\ ToSet(monitored') \subseteq Set
  BY <1>4, ListFacts
<1>8. heads' = [x \in DOMAIN monitored' |-> <<monitored'[x], 0, Fwd>>]
  <2>1. DOMAIN heads' = 1..(Len(monitored) - 1) /\ heads' = [x \in DOMAIN heads' |-> heads'[x]]
    BY <1>6, LenProperties
  <2>2. ASSUME NEW x \in 1..(Len(monitored) - 1) PROVE heads'[x] = <<monitored'[x], 0, Fwd>>
    <3>1. CASE x = k
      BY <1>3, <1>4, <1>6, <3>1
    <3>2. CASE x # k
      <4>1. x \in 1..Len(monitored)
        BY <1>3
      <4> QED
        BY <1>3, <1>4, <1>6, <3>2, <4>1
    <3> QED
      BY <3>1, <3>2
  <2> QED
    BY <1>7, <2>1, <2>2
<1>9. ToSet(heads') \subseteq Addr
  <2>1. DOMAIN heads' = 1..Len(heads') /\ heads' \in [1..Len(heads') -> Addr]
    BY <1>6, LenProperties
  <2> QED
    BY <2>1 DEF ToSet
<1>10. Arrays'
  BY <1>2, <1>4, <1>6, <1>8 DEF Arrays
<1>11. TypeOK'
  BY <1>1, <1>2, <1>4, <1>7, <1>9 DEF PInv, TypeOK
<1>12. Inside'
  BY <1>1, <1>2, InsideKept DEF SameLinks
<1>13. touched' \in Seq(SUBSET (Set \X Way))
  BY <1>2
<1>14. Ring' /\ Progress'
  BY <1>2, <1>13 DEF Ring, Progress
<1> QED
  BY <1>10, <1>11, <1>12, <1>14 DEF PInv

LEMMA UnmonitorAllInv == ASSUME PInv, UnmonitorAll PROVE PInv'
<1>1. /\ pc = "ready" /\ buffer = "L3" /\ touched' = <<>>
      /\ mask' = {} /\ monitored' = <<>> /\ heads' = <<>>
      /\ UNCHANGED <<buffer, pc, mem, list, i, dir, head, p, left>>
  BY DEF UnmonitorAll
<1>2. Arrays'
  <2>1. <<>> \in Seq(Set) /\ <<>> \in Seq(Addr) /\ DOMAIN <<>> = {}
    OBVIOUS
  <2>2. IsInjective(<<>>) /\ ToSet(<<>>) = {}
    BY <2>1 DEF IsInjective, ToSet
  <2>3. heads' = [k \in DOMAIN monitored' |-> <<monitored'[k], 0, Fwd>>]
    BY <1>1
  <2> QED
    BY <1>1, <2>1, <2>2, <2>3 DEF Arrays
<1>3. Len(monitored') = 0 /\ ToSet(monitored') = {} /\ ToSet(heads') = {}
  BY <1>1 DEF ToSet
<1>4. TypeOK'
  BY <1>1, <1>3, Constants DEF PInv, TypeOK
<1>5. Inside'
  BY <1>1, InsideKept DEF SameLinks
<1>6. touched' \in Seq(SUBSET (Set \X Way))
  BY <1>1
<1>7. Ring' /\ Progress'
  BY <1>1, <1>6 DEF Ring, Progress
<1> QED
  BY <1>2, <1>4, <1>5, <1>7 DEF PInv

-----------------------------------------------------------------------------
(* The walk *)

\* A walk goes from way to way, and from the last one on.
LEMMA NextStop ==
  ASSUME PInv, pc \in {"probe", "walk"}, NEW k \in DOMAIN monitored, NEW n \in Way
  PROVE  mem[At(monitored[k], dir, n)] =
           IF n + 1 < NWays THEN At(monitored[k], dir, n + 1) ELSE After(k, dir)
<1>1. /\ buffer \in {"L1", "L1I", "L3"} /\ dir \in Dir /\ (buffer = "L1I" => dir = Fwd)
      /\ monitored[k] \in Set /\ monitored[k] \in mask
  BY ProbeListsAssumption, ListFacts DEF PInv, TypeOK, Arrays, Progress, Dir
<1>2. CASE n + 1 < NWays
  BY <1>1, <1>2 DEF PInv, Inside, Chained
<1>3. CASE ~(n + 1 < NWays)
  <2>1. n = NWays - 1
    BY <1>3, Constants DEF Way
  <2>2. CASE buffer = "L1"
    BY <1>1, <1>3, <2>1, <2>2 DEF PInv, Ring, Linked, After
  <2>3. CASE buffer = "L1I"
    BY <1>1, <1>3, <2>1, <2>3 DEF PInv, Inside, After
  <2>4. CASE buffer = "L3"
    BY <1>1, <1>3, <2>1, <2>4 DEF PInv, Inside, Linked, After
  <2> QED
    BY <1>1, <2>2, <2>3, <2>4
<1> QED
  BY <1>2, <1>3

LEMMA ProbeStartInv == ASSUME PInv, ProbeStart PROVE PInv'
<1>1. /\ pc = "ready" /\ pc' = "probe" /\ i' = 1
      /\ dir' \in Dir /\ (buffer = "L1I" => dir' = Fwd)
      /\ p' = (IF buffer = "L1" THEN list[dir'] ELSE NULL) /\ head' = p'
      /\ touched' = [k \in DOMAIN monitored |-> {}]
      /\ UNCHANGED <<buffer, mem, mask, monitored, heads, list, left>>
  <2>1. dir' \in Dir /\ (buffer = "L1I" => dir' = Fwd)
    BY DEF ProbeStart, Dir
  <2> QED
    BY <2>1 DEF ProbeStart, listVars
<1>2. Len(monitored) \in 0..NSets /\ DOMAIN monitored = 1..Len(monitored)
  BY ListFacts DEF PInv, Arrays
<1>3. touched' \in Seq(SUBSET (Set \X Way)) /\ Len(touched') = Len(monitored)
  <2>1. touched' \in [1..Len(monitored) -> SUBSET (Set \X Way)] /\ Len(monitored) \in Nat
    BY <1>1, <1>2
  <2> QED
    BY <2>1, SeqOfFunction
<1>4. Arrays'
  BY <1>1 DEF PInv, Arrays
<1>5. TypeOK'
  <2>1. p' \in Addr \cup {NULL}
    BY <1>1 DEF PInv, TypeOK, Dir
  <2> QED
    BY <1>1, <1>3, <2>1, Constants DEF PInv, TypeOK, Dir
<1>6. Inside' /\ Ring'
  BY <1>1, InsideKept, RingKept DEF SameLinks
<1>7. buffer = "L1" => p' = At(monitored[1], dir', 0) /\ p' = At(monitored[1], dir, 0)'
  <2> SUFFICES ASSUME buffer = "L1"
               PROVE  p' = At(monitored[1], dir', 0) /\ p' = At(monitored[1], dir, 0)'
    OBVIOUS
  <2>1. p' = At(monitored[1], dir', 0)
    BY <1>1 DEF PInv, Ring
  <2> QED
    BY <1>1, <2>1 DEF At, Visit
<1>8. MeasuredUpTo(1)'
  BY <1>1, <1>2 DEF MeasuredUpTo
<1>9. Progress'
  <2>1. i' \in 1..(Len(monitored') + 1)
    BY <1>1, <1>2
  <2>2. MeasuredUpTo(i)'
    BY <1>1, <1>8 DEF MeasuredUpTo
  <2>3. i' \in DOMAIN monitored' => touched'[i'] = {}
    BY <1>1
  <2>4. buffer = "L1" => p' = At(monitored[IF i > Len(monitored) THEN 1 ELSE i], dir, 0)'
    BY <1>1, <1>7
  <2> QED
    BY <1>1, <1>3, <1>7, <2>1, <2>2, <2>3, <2>4 DEF Progress
<1> QED
  BY <1>4, <1>5, <1>6, <1>9 DEF PInv

\* The walk stands at the entry of the i-th set.
LEMMA SegmentInv == ASSUME PInv, Segment PROVE PInv'
<1>1. /\ pc = "probe" /\ pc' = "walk" /\ i <= Len(monitored)
      /\ buffer = "L1" => UNCHANGED <<head, p>> /\ left' = NWays
      /\ buffer = "L1I" => p' = <<monitored[i], 0, Fwd>> /\ UNCHANGED <<head, left>>
      /\ buffer = "L3" => /\ p' = <<heads[i][1], heads[i][2], dir>>
                          /\ head' = <<heads[i][1], heads[i][2], dir>> /\ UNCHANGED left
      /\ UNCHANGED <<buffer, mem, mask, monitored, heads, list, i, dir, touched>>
  BY DEF Segment, SegmentHead, listVars
<1>2. /\ buffer \in {"L1", "L1I", "L3"} /\ dir \in Dir /\ (buffer = "L1I" => dir = Fwd)
      /\ Len(monitored) \in 0..NSets /\ DOMAIN monitored = 1..Len(monitored)
      /\ i \in DOMAIN monitored /\ monitored[i] \in Set /\ touched[i] = {}
  BY <1>1, ProbeListsAssumption, ListFacts DEF PInv, TypeOK, Arrays, Progress, Dir
<1>3. At(monitored[i], dir, 0) \in Addr /\ \A s, d, n : At(s, d, n)' = At(s, d, n)
  <2>1. At(monitored[i], dir, 0) \in Addr
    BY <1>2, LinkWords, Constants DEF PInv, TypeOK
  <2> QED
    BY <1>1, <2>1 DEF At, Visit
<1>4. p' = At(monitored[i], dir, 0)
  <2>1. CASE buffer = "L1"
    BY <1>1, <1>2, <2>1 DEF PInv, Progress
  <2>2. CASE buffer = "L1I"
    BY <1>1, <1>2, <2>2 DEF At, Visit
  <2>3. CASE buffer = "L3"
    BY <1>1, <1>2, <2>3, Constants DEF PInv, Arrays, At, Visit
  <2> QED
    BY <1>2, <2>1, <2>2, <2>3
<1>5. buffer = "L3" => head' = At(monitored[i], dir, 0)
  BY <1>1, <1>4
<1>6. Arrays'
  BY <1>1 DEF PInv, Arrays
<1>7. TypeOK'
  <2>1. p' \in Addr /\ head' \in Addr \cup {NULL} /\ left' \in 0..NWays
    BY <1>1, <1>2, <1>3, <1>4, <1>5, Constants DEF PInv, TypeOK
  <2> QED
    BY <1>1, <2>1 DEF PInv, TypeOK
<1>8. Inside' /\ Ring'
  BY <1>1, InsideKept, RingKept DEF SameLinks
<1>9. Walking(0)'
  <2>1. {<<monitored[i], Visit(dir, j)>> : j \in 0..(0 - 1)}' = {}
    OBVIOUS
  <2>2. buffer = "L1" => left' = NWays - 0
    BY <1>1, Constants
  <2> QED
    BY <1>1, <1>2, <1>3, <1>4, <1>5, <2>1, <2>2 DEF Walking
<1>10. Progress'
  <2>1. MeasuredUpTo(i)'
    BY <1>1 DEF PInv, Progress, MeasuredUpTo, Measured
  <2>2. \E n \in Way : Walking(n)'
    BY <1>9, Constants
  <2>3. buffer = "L1" => head' = At(monitored[1], dir, 0)'
    BY <1>1, <1>3 DEF PInv, Progress
  <2> QED
    BY <1>1, <1>2, <2>1, <2>2, <2>3 DEF PInv, Progress
<1> QED
  BY <1>6, <1>7, <1>8, <1>10 DEF PInv

LEMMA ProbeDoneInv == ASSUME PInv, ProbeDone PROVE PInv'
<1>1. /\ pc = "probe" /\ pc' = "ready" /\ i > Len(monitored) /\ i' = 1
      /\ UNCHANGED <<buffer, mem, mask, monitored, heads, list, dir, head, p, left, touched>>
  BY DEF ProbeDone, listVars, walkVars
<1>2. /\ Len(monitored) \in 0..NSets /\ i \in 1..(Len(monitored) + 1)
  BY <1>1, ListFacts DEF PInv, Arrays, Progress
<1>3. i = Len(monitored) + 1
  BY <1>1, <1>2
<1>4. Arrays' /\ TypeOK'
  BY <1>1, Constants DEF PInv, Arrays, TypeOK
<1>5. Inside' /\ Ring'
  BY <1>1, InsideKept, RingKept DEF SameLinks
<1>6. MeasuredUpTo(Len(monitored) + 1)'
  <2>1. MeasuredUpTo(Len(monitored) + 1)
    BY <1>1, <1>3 DEF PInv, Progress
  <2> QED
    BY <1>1, <2>1 DEF MeasuredUpTo, Measured
<1>7. buffer = "L1" => p' = head'
  BY <1>1, <1>3 DEF PInv, Progress
<1>8. Progress'
  BY <1>1, <1>6, <1>7 DEF PInv, Progress
<1> QED
  BY <1>4, <1>5, <1>8 DEF PInv

\* An access: the next way of the set, or the end of the segment.
LEMMA AccessInv == ASSUME PInv, Access PROVE PInv'
<1>1. /\ pc = "walk" /\ p \in Addr
      /\ mem' = IF buffer = "L1I" THEN mem ELSE [mem EXCEPT ![Written(p)] = Data]
      /\ p' = mem'[p]
      /\ touched' = [touched EXCEPT ![i] = @ \cup {Line(p)}]
      /\ left' = IF buffer = "L1" THEN left - 1 ELSE left
      /\ IF LastAccess(p') THEN pc' = "probe" /\ i' = i + 1 ELSE UNCHANGED <<pc, i>>
      /\ UNCHANGED <<buffer, mask, monitored, heads, list, dir, head>>
  BY DEF Access
<1>2. /\ buffer \in Buffers /\ buffer \in {"L1", "L1I", "L3"} /\ dir \in Dir
      /\ Len(monitored) \in 0..NSets /\ DOMAIN monitored = 1..Len(monitored)
      /\ i \in 1..Len(monitored)
      /\ \A k \in DOMAIN monitored : monitored[k] \in Set
      /\ touched \in Seq(SUBSET (Set \X Way)) /\ Len(touched) = Len(monitored)
      /\ MeasuredUpTo(i)
  BY <1>1, ProbeListsAssumption, ListFacts DEF PInv, TypeOK, Arrays, Progress, Dir
<1>3. PICK n \in Way : Walking(n)
  BY <1>1 DEF PInv, Progress
<1>4. /\ p = At(monitored[i], dir, n) /\ p[3] = dir /\ Line(p) = <<monitored[i], Visit(dir, n)>>
      /\ touched[i] = {<<monitored[i], Visit(dir, j)>> : j \in 0..(n - 1)}
      /\ buffer = "L1" => left = NWays - n
      /\ buffer = "L3" => head = At(monitored[i], dir, 0)
  BY <1>3 DEF Walking, At, Line
<1>5. SameLinks /\ mem' \in [Addr -> Addr \cup {NULL, Data}]
  <2>1. \A a \in Addr : a[3] \in Dir => a # Written(p)
    BY <1>2, <1>4 DEF Written, Dir, Fwd, Bkw
  <2>2. mem \in [Addr -> Addr \cup {NULL, Data}]
    BY DEF PInv, TypeOK
  <2> QED
    BY <1>1, <2>1, <2>2 DEF SameLinks
<1>6. p' = IF n + 1 < NWays THEN At(monitored[i], dir, n + 1) ELSE After(i, dir)
  <2>1. mem'[p] = mem[p]
    BY <1>1, <1>2, <1>4, <1>5 DEF SameLinks
  <2> QED
    BY <1>1, <1>2, <1>4, <2>1, NextStop
<1>7. /\ \A k \in DOMAIN monitored, m \in Way : At(monitored[k], dir, m) \in Addr
      /\ 1 \in 1..Len(monitored) /\ Onward(i) \in 1..Len(monitored)
  <2>1. \A k \in DOMAIN monitored, m \in Way : At(monitored[k], dir, m) \in Addr
    BY <1>2, LinkWords
  <2>2. Len(monitored) \in Nat /\ i \in 1..Len(monitored)
    BY <1>2, Constants
  <2>3. 1 \in 1..Len(monitored) /\ Onward(i) \in 1..Len(monitored)
    BY <2>2 DEF Onward
  <2> QED
    BY <2>1, <2>3
<1>8. LastAccess(p') <=> n = NWays - 1
  <2>0. n + 1 < NWays <=> n # NWays - 1
    BY Constants DEF Way
  <2>1. CASE buffer = "L1"
    BY <1>4, <2>1, Constants DEF LastAccess, Way
  <2>2. CASE buffer = "L1I"
    <3>1. n + 1 < NWays => p' \in Addr
      BY <1>2, <1>6, <1>7, Constants DEF Way
    <3> QED
      BY <1>6, <2>0, <2>2, <3>1, Constants DEF LastAccess, After
  <2>3. CASE buffer = "L3"
    <3>1. n + 1 < NWays => At(monitored[i], dir, n + 1) # At(monitored[i], dir, 0)
      BY <1>2, VisitFacts, Constants DEF At, Way
    <3> QED
      BY <1>4, <1>6, <2>0, <2>3, <3>1 DEF LastAccess, After
  <2> QED
    BY <1>2, <2>1, <2>2, <2>3
<1>9. /\ touched' \in Seq(SUBSET (Set \X Way)) /\ Len(touched') = Len(monitored)
      /\ \A k \in 1..Len(monitored) : k # i => touched'[k] = touched[k]
      /\ touched'[i] = {<<monitored[i], Visit(dir, j)>> : j \in 0..n}
  <2>1. touched[i] \cup {Line(p)} = {<<monitored[i], Visit(dir, j)>> : j \in 0..n}
    <3>1. 0..n = (0..(n - 1)) \cup {n}
      BY DEF Way
    <3> QED
      BY <1>4, <3>1
  <2>2. touched[i] \cup {Line(p)} \in SUBSET (Set \X Way)
    <3>1. \A j \in 0..n : j \in Way
      BY Constants DEF Way
    <3>2. \A j \in 0..n : Visit(dir, j) \in Way
      BY <1>2, <3>1, VisitFacts
    <3> QED
      BY <1>2, <2>1, <3>2
  <2>3. touched' = [touched EXCEPT ![i] = touched[i] \cup {Line(p)}]
    BY <1>1
  <2>4. i \in 1..Len(touched)
    BY <1>2
  <2> DEFINE e == touched[i] \cup {Line(p)}
  <2> HIDE DEF e
  <2>5. /\ [touched EXCEPT ![i] = e] \in Seq(SUBSET (Set \X Way))
        /\ Len([touched EXCEPT ![i] = e]) = Len(touched)
        /\ \A k \in 1..Len(touched) : [touched EXCEPT ![i] = e][k] = IF k = i THEN e ELSE touched[k]
    BY <1>2, <2>2, <2>4, ExceptSeq DEF e
  <2> QED
    BY <1>2, <2>1, <2>3, <2>4, <2>5 DEF e
<1>10. p' \in Addr \cup {NULL} /\ left' \in 0..NWays
  <2>1. n + 1 < NWays => n + 1 \in Way
    BY Constants DEF Way
  <2>2. p' \in Addr \cup {NULL}
    BY <1>2, <1>6, <1>7, <2>1, Constants DEF After
  <2>3. left' \in 0..NWays
    BY <1>1, <1>4, Constants DEF PInv, TypeOK, Way
  <2> QED
    BY <2>2, <2>3
<1>11. Arrays'
  BY <1>1 DEF PInv, Arrays
<1>12. TypeOK'
  <2>1. i' \in 1..(NSets + 1) /\ pc' \in {"probe", "walk"}
    BY <1>1, <1>2, Constants
  <2> QED
    BY <1>1, <1>5, <1>9, <1>10, <2>1 DEF PInv, TypeOK
<1>13. Inside' /\ Ring'
  BY <1>1, <1>5, InsideKept, RingKept
<1>14. \A s, d, m : At(s, d, m)' = At(s, d, m) /\ Visit(d, m)' = Visit(d, m)
  BY <1>1 DEF At, Visit
<1>15. (buffer = "L1I" => dir = Fwd) /\ (buffer = "L1" => head = At(monitored[1], dir, 0))
  BY <1>1 DEF PInv, Progress
<1>16. CASE n # NWays - 1
  <2>1. pc' = "walk" /\ i' = i /\ n + 1 \in Way /\ n + 1 < NWays
    BY <1>1, <1>8, <1>16, Constants DEF Way
  <2>2. ASSUME NEW m \in Way, m = n + 1 PROVE Walking(m)'
    <3>1. p' = At(monitored[i], dir, m)'
      BY <1>1, <1>6, <1>14, <2>1, <2>2
    <3>2. touched'[i'] = {<<monitored[i], Visit(dir, j)>> : j \in 0..(m - 1)}'
      <4>1. m - 1 = n
        BY <2>2 DEF Way
      <4> QED
        BY <1>1, <1>9, <1>14, <2>1, <4>1
    <3>3. buffer = "L1" => left' = NWays - m
      BY <1>1, <1>4, <2>2, Constants DEF Way
    <3>4. buffer = "L3" => head' = At(monitored[i], dir, 0)'
      BY <1>1, <1>4, <1>14, <2>1
    <3> QED
      BY <1>1, <3>1, <3>2, <3>3, <3>4 DEF Walking
  <2>3. MeasuredUpTo(i)'
    BY <1>1, <1>2, <1>9, <2>1 DEF MeasuredUpTo, Measured
  <2>4. Progress'
    BY <1>1, <1>2, <1>9, <1>14, <1>15, <2>1, <2>2, <2>3 DEF Progress
  <2> QED
    BY <1>11, <1>12, <1>13, <2>4 DEF PInv
<1>17. CASE n = NWays - 1
  <2>1. pc' = "probe" /\ i' = i + 1
    BY <1>1, <1>8, <1>17
  <2>2. touched'[i] = Measured(i)
    <3>1. \A w \in Way : \E j \in 0..n : Visit(dir, j) = w
      BY <1>2, <1>17, VisitFacts DEF Way
    <3>2. \A j \in 0..n : Visit(dir, j) \in Way
      BY <1>2, <1>17, VisitFacts DEF Way
    <3> QED
      BY <1>9, <3>1, <3>2 DEF Measured
  <2>3. MeasuredUpTo(i)'
    <3>1. ASSUME NEW j \in 1..Len(monitored), j < i + 1 PROVE touched'[j] = Measured(j)
      BY <1>2, <1>9, <2>2, <3>1 DEF MeasuredUpTo
    <3>2. ASSUME NEW j \in 1..Len(monitored), j > i + 1 PROVE touched'[j] = {}
      BY <1>2, <1>9, <3>2 DEF MeasuredUpTo
    <3> QED
      BY <1>1, <1>2, <2>1, <3>1, <3>2 DEF MeasuredUpTo, Measured
  <2>4. i + 1 \in DOMAIN monitored => touched'[i + 1] = {}
    BY <1>2, <1>9 DEF MeasuredUpTo
  <2>5. buffer = "L1" => p' = At(monitored[IF i > Len(monitored) THEN 1 ELSE i], dir, 0)'
    <3>1. Onward(i) = IF i + 1 > Len(monitored) THEN 1 ELSE i + 1
      <4>1. Len(monitored) \in Nat /\ i \in 1..Len(monitored)
        BY <1>2, Constants
      <4> QED
        BY <4>1 DEF Onward
    <3>2. buffer = "L1" => p' = At(monitored[Onward(i)], dir, 0)
      BY <1>6, <1>17, Constants DEF After
    <3> QED
      BY <1>1, <1>14, <2>1, <3>1, <3>2
  <2>6. i' \in 1..(Len(monitored') + 1)
    BY <1>1, <1>2, <2>1
  <2>7. Progress'
    BY <1>1, <1>2, <1>9, <1>14, <1>15, <2>1, <2>3, <2>4, <2>5, <2>6 DEF Progress
  <2> QED
    BY <1>11, <1>12, <1>13, <2>7 DEF PInv
<1> QED
  BY <1>16, <1>17

-----------------------------------------------------------------------------
(* The invariant, and what it says between two operations *)

LEMMA StutterPInv == ASSUME PInv, UNCHANGED vars PROVE PInv'
<1>1. UNCHANGED <<buffer, pc, mem, mask, monitored, heads, list, i, dir, head, p, left, touched>>
  BY DEF vars, listVars, walkVars
<1>2. TypeOK' /\ Arrays'
  BY <1>1 DEF PInv, TypeOK, Arrays
<1>3. /\ \A s, d, n : At(s, d, n)' = At(s, d, n)
      /\ \A k : Onward(k)' = Onward(k)
  BY <1>1 DEF At, Visit, Onward
<1>4. Inside'
  BY <1>1, InsideKept DEF SameLinks
<1>5. Ring'
  BY <1>1, <1>3 DEF PInv, Ring, Linked
<1>6. \A n : Walking(n) => Walking(n)'
  BY <1>1, <1>3 DEF Walking, Visit
<1>7. \A k : MeasuredUpTo(k) => MeasuredUpTo(k)'
  BY <1>1 DEF MeasuredUpTo, Measured
<1>8. Progress'
  BY <1>1, <1>3, <1>6, <1>7 DEF PInv, Progress
<1> QED
  BY <1>2, <1>4, <1>5, <1>8 DEF PInv

LEMMA NextPInv == PInv /\ [Next]_vars => PInv'
BY SetMonitoredInv, RandomiseInv, ShuffleInv, ShuffleDoneInv, LinkInv, CloseRingInv, MonitorInv,
   UnmonitorInv, UnmonitorAllInv, ProbeStartInv, SegmentInv, AccessInv, ProbeDoneInv, StutterPInv
   DEF Next, Probing

\* Where the links of every buffer lead, and how far a walk has come.
THEOREM ProbeInvariance == Spec => []PInv
BY InitPInv, NextPInv, PTL DEF Spec

\* No index leaves its array and no walk leaves the buffer.
THEOREM ProbeTypeCorrect == Spec => []TypeOK
<1>1. PInv => TypeOK
  BY DEF PInv
<1> QED
  BY <1>1, ProbeInvariance, PTL

\* The mask, the array and the heads name the same sets.
THEOREM ArraysAgree == Spec => []ListsAgree
<1>1. PInv => ListsAgree
  BY DEF PInv, Arrays, ListsAgree
<1> QED
  BY <1>1, ProbeInvariance, PTL

\* Each reported time is that of the ways of its own set, in both directions.
THEOREM EveryProbeExact == Spec => []ProbeExact
<1>1. ASSUME PInv PROVE ProbeExact
  <2> SUFFICES ASSUME pc = "ready", touched # <<>>
               PROVE  /\ \A k \in DOMAIN monitored : touched[k] = {monitored[k]} \X Way
                      /\ buffer = "L1" => p = head
    BY DEF ProbeExact
  <2>1. MeasuredUpTo(Len(monitored) + 1) /\ (buffer = "L1" => p = head)
    BY <1>1 DEF PInv, Progress
  <2>2. DOMAIN monitored = 1..Len(monitored) /\ Len(monitored) \in Nat
    BY <1>1, ListFacts DEF PInv, Arrays
  <2> QED
    BY <2>1, <2>2 DEF MeasuredUpTo, Measured
<1> QED
  BY <1>1, ProbeInvariance, PTL

===============================================================================
