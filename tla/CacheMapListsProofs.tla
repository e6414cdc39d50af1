-------------------------- MODULE CacheMapListsProofs --------------------------
(***************************************************************************)
(* The search on vlists implements the search on sets, for every buffer,   *)
(* associativity and number of passes.                                     *)
(***************************************************************************)
EXTENDS CacheMapLists, FiniteSetTheorems, SequenceTheorems, TLAPS

Line == DOMAIN machine.colour

Distinct(v) == \A j, k \in DOMAIN v : v[j] = v[k] => j = k

-----------------------------------------------------------------------------
(* vlists *)

\* Deletion moves the last element into the hole.
LEMMA DelFacts ==
  ASSUME NEW S, NEW v \in Seq(S), NEW k \in 1..Len(v)
  PROVE  /\ VlDel(v, k) \in Seq(S)
         /\ Len(VlDel(v, k)) = Len(v) - 1
         /\ \A j \in 1..(Len(v) - 1) :
              VlDel(v, k)[j] = IF j = k THEN v[Len(v)] ELSE v[j]
<1> DEFINE w == [v EXCEPT ![k] = v[Len(v)]]
<1>1. Len(v) \in Nat /\ Len(v) \in 1..Len(v) /\ v[Len(v)] \in S
  BY LenProperties, ElementOfSeq
<1>2. /\ w \in Seq(S) /\ Len(w) = Len(v)
      /\ \A j \in 1..Len(v) : w[j] = IF j = k THEN v[Len(v)] ELSE v[j]
  BY <1>1, ExceptSeq
<1>3. VlDel(v, k) = SubSeq(w, 1, Len(v) - 1)
  BY <1>2 DEF VlDel, Front, Last
<1> HIDE DEF w
<1>4. \A j \in 1..(Len(v) - 1) : w[j] \in S
  BY <1>1, <1>2, ElementOfSeq
<1>5. 1 \in Int /\ Len(v) - 1 \in Int
  BY <1>1
<1>6. /\ SubSeq(w, 1, Len(v) - 1) \in Seq(S)
      /\ Len(SubSeq(w, 1, Len(v) - 1))
           = IF 1 <= Len(v) - 1 THEN (Len(v) - 1) - 1 + 1 ELSE 0
      /\ \A j \in 1..((Len(v) - 1) - 1 + 1) :
           SubSeq(w, 1, Len(v) - 1)[j] = w[1 + j - 1]
  BY <1>4, <1>5, SubSeqProperties
<1>7. QED
  BY <1>1, <1>2, <1>3, <1>6

\* On a list without duplicates it removes just its element.
LEMMA DelDistinct ==
  ASSUME NEW S, NEW v \in Seq(S), NEW k \in 1..Len(v), Distinct(v)
  PROVE  /\ Distinct(VlDel(v, k))
         /\ ToSet(VlDel(v, k)) = ToSet(v) \ {v[k]}
<1> DEFINE d == VlDel(v, k)
<1>0. Len(v) \in Nat
  BY LenProperties
<1>1. /\ Len(v) \in Nat /\ DOMAIN v = 1..Len(v) /\ DOMAIN d = 1..(Len(v) - 1)
      /\ \A j \in 1..(Len(v) - 1) : d[j] = IF j = k THEN v[Len(v)] ELSE v[j]
  BY DelFacts, LenProperties
<1> HIDE DEF d
<1>2. Distinct(d)
  BY <1>1 DEF Distinct
<1>3. ASSUME NEW x \in ToSet(d)
      PROVE  x \in ToSet(v) \ {v[k]}
  <2>1. PICK j \in 1..(Len(v) - 1) : x = d[j]
    BY <1>1, <1>3 DEF ToSet
  <2>2. CASE j = k
    BY <1>1, <2>1, <2>2 DEF ToSet, Distinct
  <2>3. CASE j # k
    BY <1>1, <2>1, <2>3 DEF ToSet, Distinct
  <2>4. QED
    BY <2>2, <2>3
<1>4. ASSUME NEW x \in ToSet(v) \ {v[k]}
      PROVE  x \in ToSet(d)
  <2>1. PICK j \in 1..Len(v) : x = v[j] /\ j # k
    BY <1>1 DEF ToSet
  <2>2. CASE j = Len(v)
    <3>1. k \in 1..(Len(v) - 1)
      BY <1>0, <2>1, <2>2
    <3>2. d[k] = v[Len(v)]
      BY <1>1, <3>1
    <3>3. QED
      BY <1>1, <2>1, <2>2, <3>1, <3>2 DEF ToSet
  <2>3. CASE j # Len(v)
    <3>1. j \in 1..(Len(v) - 1)
      BY <1>0, <2>3
    <3>2. d[j] = v[j]
      BY <1>1, <2>1, <3>1
    <3>3. QED
      BY <1>1, <2>1, <3>1, <3>2 DEF ToSet
  <2>4. QED
    BY <2>2, <2>3
<1>5. QED
  BY <1>2, <1>3, <1>4 DEF d

LEMMA AppendFacts ==
  ASSUME NEW S, NEW v \in Seq(S), NEW e \in S
  PROVE  /\ Append(v, e) \in Seq(S)
         /\ Len(Append(v, e)) = Len(v) + 1
         /\ \A j \in 1..(Len(v) + 1) :
              Append(v, e)[j] = IF j = Len(v) + 1 THEN e ELSE v[j]
         /\ ToSet(Append(v, e)) = ToSet(v) \cup {e}
         /\ Distinct(v) /\ e \notin ToSet(v) => Distinct(Append(v, e))
<1> DEFINE a == Append(v, e)
<1>1. /\ a \in Seq(S) /\ Len(a) = Len(v) + 1 /\ Len(v) \in Nat
      /\ \A j \in 1..Len(v) : a[j] = v[j]
      /\ a[Len(v) + 1] = e
  BY AppendProperties, LenProperties
<1> HIDE DEF a
<1>2. DOMAIN a = 1..(Len(v) + 1) /\ DOMAIN v = 1..Len(v)
  BY <1>1, LenProperties
<1>3. \A j \in 1..(Len(v) + 1) : a[j] = IF j = Len(v) + 1 THEN e ELSE v[j]
  BY <1>1
<1>4. ASSUME NEW x
      PROVE  x \in ToSet(a) <=> x \in ToSet(v) \/ x = e
  <2>1. ASSUME NEW j \in 1..(Len(v) + 1)
        PROVE  a[j] \in ToSet(v) \cup {e}
    BY <1>1, <1>2, <1>3 DEF ToSet
  <2>2. ASSUME NEW j \in 1..Len(v)
        PROVE  v[j] \in ToSet(a)
    <3>1. j \in DOMAIN a /\ a[j] = v[j]
      BY <1>1, <1>2
    <3>2. QED
      BY <3>1 DEF ToSet
  <2>3. e \in ToSet(a)
    <3>1. Len(v) + 1 \in DOMAIN a
      BY <1>1, <1>2
    <3>2. QED
      BY <1>1, <3>1 DEF ToSet
  <2>4. QED
    BY <1>2, <2>1, <2>2, <2>3 DEF ToSet
<1>5. Distinct(v) /\ e \notin ToSet(v) => Distinct(a)
  BY <1>1, <1>2, <1>3 DEF Distinct, ToSet
<1>6. QED
  BY <1>1, <1>3, <1>4, <1>5 DEF a

\* contract puts a line back where it took it from: nothing changes.
LEMMA InsertBack ==
  ASSUME NEW S, NEW v \in Seq(S), NEW k \in 1..Len(v)
  PROVE  VlInsert(VlDel(v, k), k, v[k]) = v
<1> DEFINE d == VlDel(v, k)
<1>1. /\ d \in Seq(S) /\ Len(d) = Len(v) - 1 /\ Len(v) \in Nat
      /\ \A j \in 1..(Len(v) - 1) : d[j] = IF j = k THEN v[Len(v)] ELSE v[j]
      /\ v[k] \in S /\ v[Len(v)] \in S
  BY DelFacts, LenProperties, ElementOfSeq
<1> HIDE DEF d
<1>2. CASE k = Len(d) + 1
  <2>1. /\ Append(d, v[k]) \in Seq(S) /\ Len(Append(d, v[k])) = Len(v)
        /\ \A j \in 1..Len(v) : Append(d, v[k])[j] = v[j]
    BY <1>1, <1>2, AppendFacts
  <2>2. Append(d, v[k]) = v
    BY <2>1, SeqEqual
  <2>3. QED
    BY <1>2, <2>2 DEF VlInsert, d
<1>3. CASE k # Len(d) + 1
  <2> DEFINE w == [d EXCEPT ![k] = v[k]]
  <2>1. k \in 1..Len(d) /\ d[k] = v[Len(v)]
    BY <1>1, <1>3
  <2>2. /\ w \in Seq(S) /\ Len(w) = Len(d)
        /\ \A j \in 1..Len(d) : w[j] = IF j = k THEN v[k] ELSE d[j]
    BY <1>1, <2>1, ExceptSeq
  <2> HIDE DEF w
  <2>3. /\ Append(w, d[k]) \in Seq(S) /\ Len(Append(w, d[k])) = Len(w) + 1
        /\ \A j \in 1..(Len(w) + 1) :
             Append(w, d[k])[j] = IF j = Len(w) + 1 THEN d[k] ELSE w[j]
    <3>1. d[k] \in S
      BY <1>1, <2>1
    <3>2. QED
      BY <2>2, <3>1, AppendFacts
  <2>4. \A j \in 1..Len(v) : Append(w, d[k])[j] = v[j]
    BY <1>1, <2>1, <2>2, <2>3
  <2>5. Append(w, d[k]) = v
    BY <1>1, <2>2, <2>3, <2>4, SeqEqual
  <2>6. QED
    BY <1>3, <2>5 DEF VlInsert, d, w
<1>4. QED
  BY <1>2, <1>3

LEMMA ConcatFacts ==
  ASSUME NEW S, NEW u \in Seq(S), NEW v \in Seq(S)
  PROVE  /\ u \o v \in Seq(S)
         /\ ToSet(u \o v) = ToSet(u) \cup ToSet(v)
         /\ Distinct(u) /\ Distinct(v) /\ ToSet(u) \cap ToSet(v) = {}
              => Distinct(u \o v)
<1> DEFINE w == u \o v
<1>1. /\ w \in Seq(S) /\ Len(w) = Len(u) + Len(v)
      /\ \A j \in 1..(Len(u) + Len(v)) :
           w[j] = IF j <= Len(u) THEN u[j] ELSE v[j - Len(u)]
  BY ConcatProperties
<1> HIDE DEF w
<1>2. /\ Len(u) \in Nat /\ Len(v) \in Nat
      /\ DOMAIN u = 1..Len(u) /\ DOMAIN v = 1..Len(v)
      /\ DOMAIN w = 1..(Len(u) + Len(v))
  BY <1>1, LenProperties
<1>3. ASSUME NEW j \in 1..(Len(u) + Len(v))
      PROVE  w[j] \in ToSet(u) \cup ToSet(v)
  <2>1. CASE j <= Len(u)
    BY <1>1, <1>2, <2>1 DEF ToSet
  <2>2. CASE ~(j <= Len(u))
    <3>1. j - Len(u) \in 1..Len(v)
      BY <1>2, <2>2
    <3>2. QED
      BY <1>1, <1>2, <2>2, <3>1 DEF ToSet
  <2>3. QED
    BY <2>1, <2>2
<1>4. ASSUME NEW j \in 1..Len(u)
      PROVE  u[j] \in ToSet(w)
  <2>1. j \in DOMAIN w /\ w[j] = u[j]
    BY <1>1, <1>2
  <2>2. QED
    BY <2>1 DEF ToSet
<1>5. ASSUME NEW j \in 1..Len(v)
      PROVE  v[j] \in ToSet(w)
  <2>1. Len(u) + j \in DOMAIN w /\ ~(Len(u) + j <= Len(u)) /\ (Len(u) + j) - Len(u) = j
    BY <1>2
  <2>2. w[Len(u) + j] = v[j]
    BY <1>1, <1>2, <2>1
  <2>3. QED
    BY <2>1, <2>2 DEF ToSet
<1>6. ToSet(w) = ToSet(u) \cup ToSet(v)
  <2>1. \A x \in ToSet(w) : x \in ToSet(u) \cup ToSet(v)
    BY <1>2, <1>3 DEF ToSet
  <2>2. \A x \in ToSet(u) : x \in ToSet(w)
    BY <1>2, <1>4 DEF ToSet
  <2>3. \A x \in ToSet(v) : x \in ToSet(w)
    BY <1>2, <1>5 DEF ToSet
  <2>4. QED
    BY <2>1, <2>2, <2>3
<1>7. ASSUME Distinct(u), Distinct(v), ToSet(u) \cap ToSet(v) = {}
      PROVE  Distinct(w)
  <2> SUFFICES ASSUME NEW j \in DOMAIN w, NEW k \in DOMAIN w, w[j] = w[k]
               PROVE  j = k
    BY DEF Distinct
  <2>1. CASE j <= Len(u) /\ k <= Len(u)
    <3>1. j \in DOMAIN u /\ k \in DOMAIN u /\ u[j] = u[k]
      BY <1>1, <1>2, <2>1
    <3>2. QED
      BY <1>7, <3>1 DEF Distinct
  <2>2. CASE ~(j <= Len(u)) /\ ~(k <= Len(u))
    <3>1. j - Len(u) \in DOMAIN v /\ k - Len(u) \in DOMAIN v
      BY <1>2, <2>2
    <3>2. v[j - Len(u)] = v[k - Len(u)]
      BY <1>1, <1>2, <2>2
    <3>3. j - Len(u) = k - Len(u)
      BY <1>7, <3>1, <3>2 DEF Distinct
    <3>4. QED
      BY <1>2, <3>3
  <2>3. CASE j <= Len(u) /\ ~(k <= Len(u))
    <3>1. j \in DOMAIN u /\ k - Len(u) \in DOMAIN v
      BY <1>2, <2>3
    <3>2. u[j] = v[k - Len(u)]
      BY <1>1, <1>2, <2>3
    <3>3. QED
      BY <1>7, <3>1, <3>2 DEF ToSet
  <2>4. CASE ~(j <= Len(u)) /\ k <= Len(u)
    <3>1. k \in DOMAIN u /\ j - Len(u) \in DOMAIN v
      BY <1>2, <2>4
    <3>2. u[k] = v[j - Len(u)]
      BY <1>1, <1>2, <2>4
    <3>3. QED
      BY <1>7, <3>1, <3>2 DEF ToSet
  <2>5. QED
    BY <2>1, <2>2, <2>3, <2>4
<1>8. QED
  BY <1>1, <1>6, <1>7 DEF w

LEMMA ReverseFacts ==
  ASSUME NEW S, NEW v \in Seq(S)
  PROVE  /\ Reverse(v) \in Seq(S)
         /\ ToSet(Reverse(v)) = ToSet(v)
         /\ Distinct(v) => Distinct(Reverse(v))
<1> DEFINE r == Reverse(v)
<1>1. Len(v) \in Nat /\ DOMAIN v = 1..Len(v) /\ \A j \in 1..Len(v) : v[j] \in S
  BY LenProperties, ElementOfSeq
<1>2. /\ DOMAIN r = 1..Len(v)
      /\ \A j \in 1..Len(v) : r[j] = v[(Len(v) - j) + 1]
  BY DEF Reverse
<1>3. \A j \in 1..Len(v) : (Len(v) - j) + 1 \in 1..Len(v)
  BY <1>1
<1>4. r \in [1..Len(v) -> S]
  BY <1>1, <1>3 DEF Reverse
<1>5. r \in Seq(S)
  BY <1>1, <1>4
<1> HIDE DEF r
<1>6. \A x \in ToSet(r) : x \in ToSet(v)
  BY <1>1, <1>2, <1>3 DEF ToSet
<1>7. ASSUME NEW j \in 1..Len(v)
      PROVE  v[j] \in ToSet(r)
  <2> DEFINE k == (Len(v) - j) + 1
  <2>1. k \in 1..Len(v) /\ (Len(v) - k) + 1 = j
    BY <1>1
  <2> HIDE DEF k
  <2>2. r[k] = v[j]
    BY <1>2, <2>1
  <2>3. QED
    BY <1>2, <2>1, <2>2 DEF ToSet
<1>8. \A x \in ToSet(v) : x \in ToSet(r)
  BY <1>1, <1>7 DEF ToSet
<1>9. ASSUME Distinct(v), NEW j \in 1..Len(v), NEW k \in 1..Len(v), r[j] = r[k]
      PROVE  j = k
  <2>1. (Len(v) - j) + 1 = (Len(v) - k) + 1
    BY <1>1, <1>2, <1>3, <1>9 DEF Distinct
  <2>2. QED
    BY <1>1, <2>1
<1>10. Distinct(v) => Distinct(r)
  BY <1>2, <1>9 DEF Distinct
<1>11. QED
  BY <1>5, <1>6, <1>8, <1>10 DEF r

\* Emptying one list into another keeps what is in them.
LEMMA DrainFacts ==
  ASSUME NEW S, NEW from \in Seq(S), NEW to \in Seq(S)
  PROVE  /\ VlDrain(from, to) \in Seq(S)
         /\ ToSet(VlDrain(from, to)) = ToSet(from) \cup ToSet(to)
         /\ Distinct(from) /\ Distinct(to) /\ ToSet(from) \cap ToSet(to) = {}
              => Distinct(VlDrain(from, to))
<1>1. CASE from = <<>>
  <2>1. ToSet(from) = {}
    BY <1>1 DEF ToSet
  <2>2. QED
    BY <1>1, <2>1 DEF VlDrain
<1>2. CASE from # <<>>
  <2> DEFINE h == Head(from)
             t == Tail(from)
             a == Append(to, h)
  <2>1. /\ h \in S /\ t \in Seq(S) /\ Len(t) = Len(from) - 1
        /\ \A j \in 1..Len(t) : t[j] = from[j + 1]
    BY <1>2, HeadTailProperties
  <2>2. h = from[1]
    BY <1>2
  <2>3. /\ Len(from) \in Nat \ {0} /\ DOMAIN from = 1..Len(from)
        /\ DOMAIN t = 1..(Len(from) - 1)
    BY <1>2, <2>1, EmptySeq, LenProperties
  <2>4. VlDrain(from, to) = a \o Reverse(t)
    BY <1>2 DEF VlDrain
  <2> HIDE DEF h, t
  <2>5. ToSet(from) = ToSet(t) \cup {h}
    <3>1. \A x \in ToSet(t) : x \in ToSet(from)
      <4>1. \A j \in 1..(Len(from) - 1) : j + 1 \in 1..Len(from) /\ t[j] = from[j + 1]
        BY <2>1, <2>3
      <4>2. QED
        BY <2>3, <4>1 DEF ToSet
    <3>2. h \in ToSet(from)
      BY <2>2, <2>3 DEF ToSet
    <3>3. ASSUME NEW x \in ToSet(from), x # h
          PROVE  x \in ToSet(t)
      <4>1. PICK j \in 1..Len(from) : x = from[j] /\ j # 1
        BY <2>2, <2>3, <3>3 DEF ToSet
      <4>2. j - 1 \in 1..(Len(from) - 1) /\ (j - 1) + 1 = j
        BY <2>3, <4>1
      <4>3. t[j - 1] = x
        BY <2>1, <2>3, <4>1, <4>2
      <4>4. QED
        BY <2>3, <4>2, <4>3 DEF ToSet
    <3>4. QED
      BY <3>1, <3>2, <3>3
  <2>6. Distinct(from) => Distinct(t) /\ h \notin ToSet(t)
    <3> SUFFICES ASSUME Distinct(from)
                 PROVE  Distinct(t) /\ h \notin ToSet(t)
      OBVIOUS
    <3>1. \A j \in 1..(Len(from) - 1) : /\ j + 1 \in 1..Len(from) /\ j + 1 # 1
                                        /\ t[j] = from[j + 1]
      BY <2>1, <2>3
    <3>2. \A j, k \in 1..(Len(from) - 1) : j + 1 = k + 1 => j = k
      BY <2>3
    <3>3. Distinct(t)
      BY <2>3, <3>1, <3>2 DEF Distinct
    <3>4. 1 \in DOMAIN from
      BY <2>3
    <3>5. h \notin ToSet(t)
      <4>1. \A j \in 1..(Len(from) - 1) : t[j] # h
        BY <2>2, <2>3, <3>1, <3>4 DEF Distinct
      <4>2. QED
        BY <2>3, <4>1 DEF ToSet
    <3>6. QED
      BY <3>3, <3>5
  <2>7. /\ a \in Seq(S) /\ ToSet(a) = ToSet(to) \cup {h}
        /\ Distinct(to) /\ h \notin ToSet(to) => Distinct(a)
    BY <2>1, AppendFacts
  <2> HIDE DEF a
  <2>8. /\ Reverse(t) \in Seq(S) /\ ToSet(Reverse(t)) = ToSet(t)
        /\ Distinct(t) => Distinct(Reverse(t))
    BY <2>1, ReverseFacts
  <2>9. /\ a \o Reverse(t) \in Seq(S)
        /\ ToSet(a \o Reverse(t)) = ToSet(a) \cup ToSet(Reverse(t))
        /\ Distinct(a) /\ Distinct(Reverse(t)) /\ ToSet(a) \cap ToSet(Reverse(t)) = {}
              => Distinct(a \o Reverse(t))
    BY <2>7, <2>8, ConcatFacts
  <2>10. QED
    BY <2>4, <2>5, <2>6, <2>7, <2>8, <2>9
<1>3. QED
  BY <1>1, <1>2

\* The last n elements of a list, and the others.
LEMMA SplitFacts ==
  ASSUME NEW S, NEW v \in Seq(S), Distinct(v), NEW n \in 0..Len(v)
  PROVE  LET head == SubSeq(v, 1, Len(v) - n)
             tail == SubSeq(v, Len(v) - n + 1, Len(v))
         IN  /\ head \in Seq(S) /\ tail \in Seq(S) /\ Len(tail) = n
             /\ Distinct(head) /\ Distinct(tail)
             /\ ToSet(tail) \subseteq ToSet(v)
             /\ ToSet(head) = ToSet(v) \ ToSet(tail)
<1> DEFINE m == Len(v) - n
           head == SubSeq(v, 1, m)
           tail == SubSeq(v, m + 1, Len(v))
<1>1. /\ Len(v) \in Nat /\ DOMAIN v = 1..Len(v) /\ \A j \in 1..Len(v) : v[j] \in S
  BY LenProperties, ElementOfSeq
<1>0. Len(v) \in Nat
  BY LenProperties
<1>2. m \in Nat /\ m <= Len(v) /\ Len(v) - m = n /\ Len(v) = m + n /\ n \in Nat
  BY <1>0
<1> HIDE DEF m
<1>3. /\ head \in Seq(S)
      /\ Len(head) = IF 1 <= m THEN m - 1 + 1 ELSE 0
      /\ \A j \in 1..(m - 1 + 1) : head[j] = v[1 + j - 1]
  <2>1. 1 \in Int /\ m \in Int /\ \A j \in 1..m : v[j] \in S
    BY <1>1, <1>2
  <2>2. QED
    BY <2>1, SubSeqProperties
<1>4. /\ tail \in Seq(S)
      /\ Len(tail) = IF m + 1 <= Len(v) THEN Len(v) - (m + 1) + 1 ELSE 0
      /\ \A j \in 1..(Len(v) - (m + 1) + 1) : tail[j] = v[(m + 1) + j - 1]
  <2>1. m + 1 \in Int /\ Len(v) \in Int /\ \A j \in (m + 1)..Len(v) : v[j] \in S
    BY <1>1, <1>2
  <2>2. QED
    BY <2>1, SubSeqProperties
<1> HIDE DEF head, tail
<1>5. /\ Len(head) = m /\ DOMAIN head = 1..m
      /\ \A j \in 1..m : head[j] = v[j] /\ j \in 1..Len(v)
  <2>1. Len(head) = m
    BY <1>2, <1>3
  <2>2. QED
    BY <1>2, <1>3, <2>1, LenProperties
<1>6. /\ Len(tail) = n /\ DOMAIN tail = 1..n
      /\ \A j \in 1..n : tail[j] = v[m + j] /\ m + j \in 1..Len(v)
  <2>1. Len(tail) = n
    <3>1. CASE m + 1 <= Len(v)
      <4>1. Len(tail) = Len(v) - (m + 1) + 1
        BY <1>4, <3>1
      <4>2. Len(v) - (m + 1) + 1 = n
        BY <1>2
      <4>3. QED
        BY <4>1, <4>2
    <3>2. CASE ~(m + 1 <= Len(v))
      <4>1. Len(tail) = 0
        BY <1>4, <3>2
      <4>2. n = 0
        BY <1>2, <3>2
      <4>3. QED
        BY <4>1, <4>2
    <3>3. QED
      BY <3>1, <3>2
  <2>2. ASSUME NEW j \in 1..n
        PROVE  tail[j] = v[m + j] /\ m + j \in 1..Len(v)
    <3>1. j \in 1..(Len(v) - (m + 1) + 1) /\ (m + 1) + j - 1 = m + j
      BY <1>1, <1>2
    <3>2. tail[j] = v[m + j]
      BY <1>4, <3>1
    <3>3. QED
      BY <1>1, <1>2, <3>2
  <2>3. QED
    BY <1>4, <2>1, <2>2, LenProperties
<1>7. Distinct(head)
  BY <1>1, <1>5 DEF Distinct
<1>8. Distinct(tail)
  <2> SUFFICES ASSUME NEW j \in 1..n, NEW k \in 1..n, tail[j] = tail[k]
               PROVE  j = k
    BY <1>6 DEF Distinct
  <2>1. m + j = m + k
    BY <1>1, <1>6 DEF Distinct
  <2>2. QED
    BY <1>2, <2>1
<1>9. ToSet(tail) \subseteq ToSet(v)
  BY <1>1, <1>6 DEF ToSet
<1>10. ASSUME NEW x \in ToSet(head)
       PROVE  x \in ToSet(v) \ ToSet(tail)
  <2>1. PICK j \in 1..m : x = v[j] /\ j \in 1..Len(v)
    BY <1>5 DEF ToSet
  <2>2. ASSUME NEW k \in 1..n, x = tail[k]
        PROVE  FALSE
    <3>1. m + k = j
      BY <1>1, <1>6, <2>1, <2>2 DEF Distinct
    <3>2. QED
      BY <1>2, <3>1
  <2>3. QED
    BY <1>1, <1>6, <2>1, <2>2 DEF ToSet
<1>11. ASSUME NEW x \in ToSet(v), x \notin ToSet(tail)
       PROVE  x \in ToSet(head)
  <2>1. PICK j \in 1..Len(v) : x = v[j]
    BY <1>1 DEF ToSet
  <2>2. CASE j <= m
    <3>1. j \in 1..m
      BY <1>2, <2>2
    <3>2. QED
      BY <1>5, <2>1, <3>1 DEF ToSet
  <2>3. CASE ~(j <= m)
    <3>1. j - m \in 1..n /\ m + (j - m) = j
      BY <1>1, <1>2, <2>3
    <3>2. tail[j - m] = x
      BY <1>6, <2>1, <3>1
    <3>3. QED
      BY <1>6, <1>11, <3>1, <3>2 DEF ToSet
  <2>4. QED
    BY <2>2, <2>3
<1>12. ToSet(head) = ToSet(v) \ ToSet(tail)
  BY <1>10, <1>11
<1>13. QED
  BY <1>3, <1>4, <1>6, <1>7, <1>8, <1>9, <1>12 DEF head, tail, m

\* A list without duplicates holds as many of some elements as there are.
LEMMA CountFacts ==
  ASSUME NEW S, NEW v \in Seq(S), Distinct(v), NEW T \in SUBSET ToSet(v)
  PROVE  /\ IsFiniteSet(T)
         /\ Cardinality({k \in DOMAIN v : v[k] \in T}) = Cardinality(T)
<1> DEFINE K == {k \in DOMAIN v : v[k] \in T}
           f == [k \in K |-> v[k]]
<1>1. Len(v) \in Nat /\ DOMAIN v = 1..Len(v)
  BY LenProperties
<1>2. IsFiniteSet(1..Len(v))
  <2>1. 1 \in Int /\ Len(v) \in Int
    BY <1>1
  <2>2. QED
    BY <2>1, FS_Interval, Zenon
<1>3. K \in SUBSET (1..Len(v))
  BY <1>1
<1>4. IsFiniteSet(K)
  BY <1>2, <1>3, FS_Subset, Zenon
<1>5. f \in Bijection(K, T)
  <2>1. f \in [K -> T]
    OBVIOUS
  <2>2. \A j, k \in K : f[j] = f[k] => j = k
    BY DEF Distinct
  <2>3. \A x \in T : \E k \in K : f[k] = x
    BY DEF ToSet
  <2>4. QED
    BY <2>1, <2>2, <2>3 DEF Bijection, Injection, IsInjective, Surjection
<1>6. ExistsBijection(K, T)
  BY <1>5 DEF ExistsBijection
<1> HIDE DEF K, f
<1>7. IsFiniteSet(T) /\ Cardinality(T) = Cardinality(K)
  BY <1>4, <1>6, FS_Bijection, Zenon
<1>8. QED
  BY <1>7 DEF K

LEMMA LengthFacts ==
  ASSUME NEW S, NEW v \in Seq(S), Distinct(v)
  PROVE  IsFiniteSet(ToSet(v)) /\ Cardinality(ToSet(v)) = Len(v)
<1>1. Len(v) \in Nat /\ DOMAIN v = 1..Len(v)
  BY LenProperties
<1>2. {k \in DOMAIN v : v[k] \in ToSet(v)} = 1..Len(v)
  BY <1>1 DEF ToSet
<1>3. /\ IsFiniteSet(ToSet(v))
      /\ Cardinality({k \in DOMAIN v : v[k] \in ToSet(v)}) = Cardinality(ToSet(v))
  BY CountFacts
<1>4. Cardinality(1..Len(v)) = Len(v)
  <2>1. 1 \in Int /\ Len(v) \in Int /\ (~(1 > Len(v)) \/ Len(v) = 0)
    BY <1>1
  <2>2. Cardinality(1..Len(v)) = IF 1 > Len(v) THEN 0 ELSE Len(v) - 1 + 1
    BY <2>1, FS_Interval, Zenon
  <2>3. QED
    BY <1>1, <2>1, <2>2
<1>5. QED
  BY <1>2, <1>3, <1>4

-----------------------------------------------------------------------------
(* The inductive invariant *)

Lists ==
  /\ machine \in Machines
  /\ lines \in Seq(Line) /\ es \in Seq(Line) /\ set \in Seq(Line)
  /\ IF pc \in {"contract", "check"} THEN c \in Line ELSE c = NoLine
  /\ pc = "contract" => i \in 1..(Len(es) + 1)
  /\ pc = "collect" => i \in 0..Len(lines)

\* An element is in at most one list, and there once: only then does a list
\* lose an element when its set does.
Separate ==
  /\ Distinct(lines) /\ Distinct(es) /\ Distinct(set)
  /\ ToSet(lines) \cap ToSet(es) = {} /\ ToSet(lines) \cap ToSet(set) = {}
  /\ ToSet(es) \cap ToSet(set) = {}
  /\ c \notin ToSet(lines) /\ c \notin ToSet(es) /\ c \notin ToSet(set)

LInv == Lists /\ Separate

\* The lists hold lines, and each position holds one.
LEMMA ListFacts ==
  ASSUME Lists
  PROVE  /\ NoLine \notin Line
         /\ \A v \in {lines, es, set} :
              /\ Len(v) \in Nat /\ DOMAIN v = 1..Len(v) /\ ToSet(v) \subseteq Line
              /\ \A k \in 1..Len(v) : v[k] \in Line /\ v[k] \in ToSet(v)
<1>1. NoLine \notin Line
  BY CacheMapListsAssumption DEF Lists, Line
<1>2. ASSUME NEW v \in Seq(Line)
      PROVE  /\ Len(v) \in Nat /\ DOMAIN v = 1..Len(v) /\ ToSet(v) \subseteq Line
             /\ \A k \in 1..Len(v) : v[k] \in Line /\ v[k] \in ToSet(v)
  <2>1. /\ Len(v) \in Nat /\ DOMAIN v = 1..Len(v)
        /\ \A k \in 1..Len(v) : v[k] \in Line
    BY LenProperties, ElementOfSeq
  <2>2. QED
    BY <2>1 DEF ToSet
<1>3. QED
  BY <1>1, <1>2 DEF Lists

\* The instance's cardinality is the cardinality.
LEMMA SameCardinality == \A S : CacheMap!Cardinality(S) = Cardinality(S)
BY DEF CacheMap!Cardinality, Cardinality

\* The timing test sees no difference between a list and its set.
LEMMA SameTest ==
  ASSUME NEW v \in Seq(Line), Distinct(v), NEW l
  PROVE  CacheMap!CheckEvict(ToSet(v), l) = CheckEvict(v, l)
<1> DEFINE like == {x \in ToSet(v) : machine.colour[x] = machine.colour[l]}
           at == {k \in DOMAIN v : machine.colour[v[k]] = machine.colour[l]}
<1>1. at = {k \in DOMAIN v : v[k] \in like}
  BY DEF ToSet
<1>2. Cardinality(at) = Cardinality(like)
  <2>1. like \in SUBSET ToSet(v)
    OBVIOUS
  <2> HIDE DEF like
  <2>2. Cardinality({k \in DOMAIN v : v[k] \in like}) = Cardinality(like)
    BY <2>1, CountFacts
  <2>3. QED
    BY <1>1, <2>2
<1>3. ToSet(v) = {} <=> v = <<>>
  <2>1. Len(v) \in Nat /\ DOMAIN v = 1..Len(v) /\ (v # <<>> => Len(v) # 0)
    BY LenProperties, EmptySeq
  <2>2. ASSUME v # <<>>
        PROVE  ToSet(v) # {}
    <3>1. 1 \in DOMAIN v
      BY <2>1, <2>2
    <3>2. QED
      BY <3>1 DEF ToSet
  <2>3. ASSUME v = <<>>
        PROVE  ToSet(v) = {}
    BY <2>3 DEF ToSet
  <2>4. QED
    BY <2>2, <2>3
<1>4. CheckEvict(v, l) = IF v = <<>> THEN {FALSE}
                         ELSE IF machine.noise THEN BOOLEAN
                         ELSE {Cardinality(at) >= Assoc}
  BY Zenon DEF CheckEvict
<1>5. CacheMap!CheckEvict(ToSet(v), l) = IF ToSet(v) = {} THEN {FALSE}
                                         ELSE IF machine.noise THEN BOOLEAN
                                         ELSE {Cardinality(like) >= Assoc}
  BY SameCardinality, Zenon DEF CacheMap!CheckEvict, CacheMap!Colour
<1>6. QED
  BY <1>2, <1>3, <1>4, <1>5, Zenon

LEMMA EmptyList ==
  ASSUME NEW S, NEW v \in Seq(S)
  PROVE  /\ v = <<>> <=> ToSet(v) = {}
         /\ v = <<>> <=> Len(v) = 0
<1>1. Len(v) \in Nat /\ DOMAIN v = 1..Len(v) /\ (v # <<>> => Len(v) # 0)
  BY LenProperties, EmptySeq
<1>2. v # <<>> => 1 \in DOMAIN v
  BY <1>1
<1>3. v # <<>> => ToSet(v) # {}
  BY <1>2 DEF ToSet
<1>4. v = <<>> => ToSet(v) = {} /\ Len(v) = 0
  BY DEF ToSet
<1>5. QED
  BY <1>1, <1>3, <1>4

LEMMA InitRefines == Init => LInv /\ CacheMap!Init
<1> SUFFICES ASSUME Init
             PROVE  LInv /\ CacheMap!Init
  OBVIOUS
<1> USE DEF Init
<1>1. PICK n \in Nat : Line = 1..n
  <2>1. IsFiniteSet(Line) /\ Line = 1..Cardinality(Line)
    BY CacheMapListsAssumption DEF Line
  <2>2. QED
    BY <2>1, FS_CardinalityType
<1>2. lines \in [1..n -> Line] /\ DOMAIN lines = Line /\ \A l \in Line : lines[l] = l
  BY <1>1 DEF Line
<1>3. lines \in Seq(Line)
  BY <1>1, <1>2
<1>4. Distinct(lines) /\ ToSet(lines) = Line
  BY <1>2 DEF Distinct, ToSet
<1>5. es \in Seq(Line) /\ set \in Seq(Line) /\ ToSet(es) = {} /\ ToSet(set) = {}
  BY DEF ToSet
<1>6. NoLine \notin Line
  BY CacheMapListsAssumption DEF Line
<1>7. LInv
  BY <1>3, <1>4, <1>5, <1>6 DEF LInv, Lists, Separate, Distinct
<1>8. CacheMap!Init
  BY <1>4, <1>5 DEF CacheMap!Init, CacheMap!Line, CacheMap!Colour, Line, Untested
<1>9. QED
  BY <1>7, <1>8

-----------------------------------------------------------------------------
(* Each step preserves the invariant and is a step of the sets *)

LEMMA LoopRefines == LInv /\ Loop => LInv' /\ CacheMap!Loop
<1> SUFFICES ASSUME LInv, Loop
             PROVE  LInv' /\ CacheMap!Loop
  OBVIOUS
<1> USE DEF LInv, Loop
<1>1. LInv'
  <2>1. Lists'
    BY DEF Lists, Line
  <2>2. Separate'
    BY DEF Separate
  <2>3. QED
    BY <2>1, <2>2
<1>2. lines = <<>> <=> ToSet(lines) = {}
  BY EmptyList DEF Lists
<1>3. CacheMap!Loop
  BY <1>2 DEF CacheMap!Loop, Untested, ToSet
<1>4. QED
  BY <1>1, <1>3

LEMMA ExpandRefines == LInv /\ Expand => LInv' /\ CacheMap!Expand
<1> SUFFICES ASSUME LInv, Expand
             PROVE  LInv' /\ CacheMap!Expand
  OBVIOUS
<1> USE DEF LInv
<1>1. PICK k \in DOMAIN lines, evicted \in BOOLEAN :
        /\ evicted \in CheckEvict(es, lines[k])
        /\ lines' = VlDel(lines, k)
        /\ IF evicted
           THEN /\ c' = lines[k] /\ pc' = "contract"
                /\ i' = 1 /\ pass' = machine.contractions
                /\ UNCHANGED es
           ELSE es' = Append(es, lines[k]) /\ UNCHANGED <<pc, c, i, pass>>
  BY DEF Expand
<1>2. pc = "expand" /\ UNCHANGED <<machine, sets, fail, set>>
  BY DEF Expand
<1> DEFINE current == lines[k]
<1>3. k \in 1..Len(lines) /\ current \in Line /\ current \in ToSet(lines)
  BY ListFacts
<1>4. /\ lines' \in Seq(Line) /\ Distinct(lines')
      /\ ToSet(lines') = ToSet(lines) \ {current}
  BY <1>1, <1>3, DelFacts, DelDistinct DEF Lists, Separate
<1>5. evicted \in CacheMap!CheckEvict(ToSet(es), current)
  BY <1>1, SameTest DEF Lists, Separate
<1> HIDE DEF current
<1>6. CASE evicted
  <2>1. /\ c' = current /\ pc' = "contract" /\ i' = 1
        /\ pass' = machine.contractions /\ es' = es
    BY <1>1, <1>6 DEF current
  <2>2. 1 \in 1..(Len(es) + 1)
    BY ListFacts
  <2>3. Lists'
    BY <1>2, <1>3, <1>4, <2>1, <2>2 DEF Lists, Line
  <2>4. Separate'
    BY <1>2, <1>3, <1>4, <2>1 DEF Separate
  <2>5. Untested' = ToSet(es)
    BY <2>1, ListFacts DEF Untested, ToSet
  <2>6. CacheMap!Expand
    BY <1>2, <1>3, <1>4, <1>5, <1>6, <2>1, <2>5 DEF CacheMap!Expand
  <2>7. QED
    BY <2>3, <2>4, <2>6
<1>7. CASE ~evicted
  <2>1. es' = Append(es, current) /\ UNCHANGED <<pc, c, i, pass>>
    BY <1>1, <1>7 DEF current
  <2>2. current \notin ToSet(es) /\ current \notin ToSet(set) /\ current # c
    BY <1>3 DEF Separate
  <2>3. /\ es' \in Seq(Line) /\ ToSet(es') = ToSet(es) \cup {current} /\ Distinct(es')
    BY <1>3, <2>1, <2>2, AppendFacts DEF Lists, Separate
  <2>4. Lists'
    BY <1>2, <1>4, <2>1, <2>3 DEF Lists, Line
  <2>5. Separate'
    BY <1>2, <1>4, <2>1, <2>2, <2>3 DEF Separate
  <2>6. Untested' = Untested
    BY <1>2, <2>1 DEF Untested
  <2>7. CacheMap!Expand
    BY <1>2, <1>3, <1>4, <1>5, <1>7, <2>1, <2>3, <2>6 DEF CacheMap!Expand
  <2>8. QED
    BY <2>4, <2>5, <2>7
<1>8. QED
  BY <1>1, <1>6, <1>7

LEMMA ExpandFailsRefines == LInv /\ ExpandFails => LInv' /\ CacheMap!ExpandFails
<1> SUFFICES ASSUME LInv, ExpandFails
             PROVE  LInv' /\ CacheMap!ExpandFails
  OBVIOUS
<1> USE DEF LInv
<1>1. /\ pc = "expand" /\ lines = <<>> /\ lines' = VlDrain(es, lines) /\ es' = <<>>
      /\ fail' = fail + 1 /\ pc' = "loop"
      /\ UNCHANGED <<machine, c, sets, pass, set, i>>
  BY DEF ExpandFails
<1>2. ToSet(lines) = {}
  BY <1>1 DEF ToSet
<1>3. es' \in Seq(Line) /\ ToSet(es') = {} /\ Distinct(es')
  BY <1>1 DEF ToSet, Distinct
<1>4. lines' \in Seq(Line) /\ ToSet(lines') = ToSet(es) /\ Distinct(lines')
  <2>1. /\ es \in Seq(Line) /\ lines \in Seq(Line) /\ Distinct(es) /\ Distinct(lines)
        /\ ToSet(es) \cap ToSet(lines) = {}
    BY <1>2 DEF Lists, Separate
  <2>2. /\ VlDrain(es, lines) \in Seq(Line) /\ Distinct(VlDrain(es, lines))
        /\ ToSet(VlDrain(es, lines)) = ToSet(es) \cup ToSet(lines)
    BY <2>1, DrainFacts
  <2>3. QED
    BY <1>1, <1>2, <2>2
<1>5. Lists'
  BY <1>1, <1>3, <1>4 DEF Lists, Line
<1>6. Separate'
  BY <1>1, <1>3, <1>4 DEF Separate
<1>7. Untested = {} /\ Untested' = {}
  BY <1>1 DEF Untested
<1>8. CacheMap!ExpandFails
  BY <1>1, <1>2, <1>3, <1>4, <1>7 DEF CacheMap!ExpandFails
<1>9. QED
  BY <1>5, <1>6, <1>8

\* contract walks upwards; a deletion puts the last element at the index,
\* where it is tested next (l3_arm.c:297-311).
LEMMA ContractRefines == LInv /\ Contract => LInv' /\ CacheMap!Contract
<1> SUFFICES ASSUME LInv, Contract
             PROVE  LInv' /\ CacheMap!Contract
  OBVIOUS
<1> USE DEF LInv
<1> DEFINE cand == es[i]
           rest == VlDel(es, i)
<1>1. /\ pc = "contract" /\ i <= Len(es)
      /\ UNCHANGED <<machine, pc, c, sets, fail, pass, set>>
  BY DEF Contract
<1>2. PICK evicted \in CheckEvict(rest, c) :
        IF evicted
        THEN es' = rest /\ lines' = Append(lines, cand) /\ UNCHANGED i
        ELSE /\ es' = VlInsert(rest, i, cand) /\ i' = i + 1
             /\ UNCHANGED lines
  BY DEF Contract
<1>3. /\ es \in Seq(Line) /\ Distinct(es) /\ Len(es) \in Nat /\ i \in 1..Len(es)
      /\ cand \in Line /\ cand \in ToSet(es) /\ DOMAIN es = 1..Len(es)
  <2>1. Len(es) \in Nat /\ i \in 1..(Len(es) + 1)
    BY <1>1, ListFacts DEF Lists
  <2>2. i \in 1..Len(es)
    BY <1>1, <2>1
  <2>3. QED
    BY <2>1, <2>2, ListFacts DEF Lists, Separate
<1>0. Len(es) \in Nat /\ i \in 1..Len(es)
  BY <1>3
<1>4. /\ rest \in Seq(Line) /\ Len(rest) = Len(es) - 1
      /\ \A j \in 1..(Len(es) - 1) : rest[j] = IF j = i THEN es[Len(es)] ELSE es[j]
      /\ Distinct(rest) /\ ToSet(rest) = ToSet(es) \ {cand}
  BY <1>3, DelFacts, DelDistinct
<1>5. DOMAIN rest = 1..(Len(es) - 1)
  BY <1>4, LenProperties
<1>6. evicted \in CacheMap!CheckEvict(ToSet(es) \ {cand}, c)
  BY <1>2, <1>4, SameTest
<1>7. VlInsert(rest, i, cand) = es
  BY <1>3, InsertBack
<1>8. cand \in Untested
  BY <1>1, <1>3 DEF Untested
<1> HIDE DEF cand, rest
<1>9. cand = es[i]
  BY DEF cand
<1>10. CASE evicted
  <2>1. es' = rest /\ lines' = Append(lines, cand) /\ i' = i
    BY <1>2, <1>10
  <2>2. cand \notin ToSet(lines) /\ cand \notin ToSet(set) /\ cand # c
    BY <1>3 DEF Separate
  <2>3. /\ lines' \in Seq(Line) /\ Distinct(lines')
        /\ ToSet(lines') = ToSet(lines) \cup {cand}
    BY <1>3, <2>1, <2>2, AppendFacts DEF Lists, Separate
  <2>4. i \in 1..(Len(es') + 1)
    BY <1>3, <1>4, <2>1
  <2>5. Lists'
    BY <1>1, <1>4, <2>1, <2>3, <2>4 DEF Lists, Line
  <2>6. Separate'
    BY <1>1, <1>4, <2>1, <2>2, <2>3 DEF Separate
  <2>7. Untested = {es[k] : k \in i..Len(es)}
    BY <1>1 DEF Untested
  <2>8. Untested' = {rest[k] : k \in i..(Len(es) - 1)}
    BY <1>1, <1>4, <2>1 DEF Untested
  <2>9. ASSUME NEW x \in Untested'
        PROVE  x \in Untested \ {cand}
    <3>1. PICK k \in i..(Len(es) - 1) : x = rest[k]
      BY <2>8
    <3>2. k \in 1..(Len(es) - 1) /\ k \in i..Len(es) /\ k \in 1..Len(es)
      BY <1>3
    <3>3. k = i => Len(es) \in i..Len(es) /\ Len(es) # i /\ Len(es) \in 1..Len(es)
      BY <1>0, <3>2
    <3>4. x = IF k = i THEN es[Len(es)] ELSE es[k]
      BY <1>4, <3>1, <3>2
    <3>5. x # cand
      BY <1>3, <1>9, <3>2, <3>3, <3>4 DEF Distinct
    <3>6. x \in Untested
      BY <2>7, <3>2, <3>3, <3>4
    <3>7. QED
      BY <3>5, <3>6
  <2>10. ASSUME NEW x \in Untested, x # cand
         PROVE  x \in Untested'
    <3>1. PICK k \in i..Len(es) : x = es[k]
      BY <2>7
    <3>2. k # i
      BY <1>9, <2>10, <3>1
    <3>3. CASE k = Len(es)
      <4>1. i \in i..(Len(es) - 1) /\ i \in 1..(Len(es) - 1)
        BY <1>0, <3>2, <3>3
      <4>2. rest[i] = x
        BY <1>4, <3>1, <3>3, <4>1
      <4>3. QED
        BY <2>8, <4>1, <4>2
    <3>4. CASE k # Len(es)
      <4>1. k \in i..(Len(es) - 1) /\ k \in 1..(Len(es) - 1)
        BY <1>0, <3>4
      <4>2. rest[k] = x
        BY <1>4, <3>1, <3>2, <4>1
      <4>3. QED
        BY <2>8, <4>1, <4>2
    <3>5. QED
      BY <3>3, <3>4
  <2>11. Untested' = Untested \ {cand}
    BY <2>9, <2>10
  <2>12. CacheMap!Contract
    BY <1>1, <1>4, <1>6, <1>8, <1>10, <2>1, <2>3, <2>11 DEF CacheMap!Contract
  <2>13. QED
    BY <2>5, <2>6, <2>12
<1>11. CASE ~evicted
  <2>1. es' = es /\ i' = i + 1 /\ lines' = lines
    BY <1>2, <1>7, <1>11
  <2>2. i' \in 1..(Len(es') + 1)
    BY <1>3, <2>1
  <2>3. Lists'
    BY <1>1, <2>1, <2>2 DEF Lists, Line
  <2>4. Separate'
    BY <1>1, <2>1 DEF Separate
  <2>5. /\ Untested = {es[k] : k \in i..Len(es)}
        /\ Untested' = {es[k] : k \in (i + 1)..Len(es)}
    BY <1>1, <2>1 DEF Untested
  <2>6. \A k \in (i + 1)..Len(es) : k \in i..Len(es) /\ k # i /\ k \in 1..Len(es)
    BY <1>3
  <2>7. \A k \in i..Len(es) : k = i \/ k \in (i + 1)..Len(es)
    BY <1>3
  <2>8. \A x \in Untested' : x \in Untested /\ x # cand
    BY <1>3, <1>9, <2>5, <2>6 DEF Distinct
  <2>9. \A x \in Untested : x = cand \/ x \in Untested'
    BY <1>9, <2>5, <2>7
  <2>10. Untested' = Untested \ {cand}
    BY <2>8, <2>9
  <2>11. CacheMap!Contract
    BY <1>1, <1>6, <1>8, <1>11, <2>1, <2>10 DEF CacheMap!Contract
  <2>12. QED
    BY <2>3, <2>4, <2>11
<1>12. QED
  BY <1>10, <1>11

LEMMA ContractPassRefines == LInv /\ ContractPass => LInv' /\ CacheMap!ContractPass
<1> SUFFICES ASSUME LInv, ContractPass
             PROVE  LInv' /\ CacheMap!ContractPass
  OBVIOUS
<1> USE DEF LInv
<1>1. /\ pc = "contract" /\ i > Len(es) /\ pass' = pass - 1
      /\ IF pass' > 0 THEN i' = 1 /\ UNCHANGED pc ELSE i' = 0 /\ pc' = "check"
      /\ UNCHANGED <<machine, c, sets, fail, lines, es, set>>
  BY DEF ContractPass
<1>2. Len(es) \in Nat /\ DOMAIN es = 1..Len(es) /\ i \in 1..(Len(es) + 1)
  BY <1>1, ListFacts DEF Lists
<1>3. Untested = {}
  BY <1>1, <1>2 DEF Untested
<1>4. 1 \in 1..(Len(es) + 1)
  BY <1>2
<1>5. Separate'
  BY <1>1 DEF Separate
<1>6. CASE pass' > 0
  <2>1. Lists'
    BY <1>1, <1>4, <1>6 DEF Lists, Line
  <2>2. Untested' = ToSet(es)
    BY <1>1, <1>2, <1>6 DEF Untested, ToSet
  <2>3. CacheMap!ContractPass
    BY <1>1, <1>3, <1>6, <2>2 DEF CacheMap!ContractPass
  <2>4. QED
    BY <1>5, <2>1, <2>3
<1>7. CASE ~(pass' > 0)
  <2>1. Lists'
    BY <1>1, <1>7 DEF Lists, Line
  <2>2. Untested' = {}
    BY <1>1, <1>7 DEF Untested
  <2>3. CacheMap!ContractPass
    BY <1>1, <1>3, <1>7, <2>2 DEF CacheMap!ContractPass
  <2>4. QED
    BY <1>5, <2>1, <2>3
<1>8. QED
  BY <1>6, <1>7

\* The length of es is the size of its set.
LEMMA SameSize ==
  ASSUME LInv
  PROVE  /\ CacheMap!BadSize <=> BadSize
         /\ Len(es) = Cardinality(ToSet(es))
<1>1. Len(es) = Cardinality(ToSet(es))
  BY LengthFacts DEF LInv, Lists, Separate
<1>2. Cardinality(ToSet(es)) = CacheMap!Cardinality(ToSet(es))
  BY SameCardinality
<1>3. QED
  BY <1>1, <1>2 DEF BadSize, CacheMap!BadSize

LEMMA RejectRefines == LInv /\ Reject => LInv' /\ CacheMap!Reject
<1> SUFFICES ASSUME LInv, Reject
             PROVE  LInv' /\ CacheMap!Reject
  OBVIOUS
<1> USE DEF LInv
<1> DEFINE to == IF machine.giveBack THEN Append(lines, c) ELSE lines
<1>1. /\ pc = "check" /\ BadSize /\ lines' = VlDrain(es, to)
      /\ es' = <<>> /\ c' = NoLine /\ fail' = fail + 1 /\ pc' = "loop"
      /\ UNCHANGED <<machine, sets, pass, set, i>>
  BY DEF Reject
<1>2. /\ to \in Seq(Line) /\ Distinct(to)
      /\ ToSet(to) = ToSet(lines) \cup (IF machine.giveBack THEN {c} ELSE {})
  <2>1. CASE machine.giveBack
    BY <1>1, <2>1, AppendFacts DEF Lists, Separate
  <2>2. CASE ~machine.giveBack
    BY <2>2 DEF Lists, Separate
  <2>3. QED
    BY <2>1, <2>2
<1> HIDE DEF to
<1>3. ToSet(es) \cap ToSet(to) = {} /\ es \in Seq(Line) /\ Distinct(es)
  BY <1>2 DEF Lists, Separate
<1>4. /\ lines' \in Seq(Line) /\ Distinct(lines')
      /\ ToSet(lines') = ToSet(es) \cup ToSet(to)
  BY <1>1, <1>2, <1>3, DrainFacts
<1>5. es' \in Seq(Line) /\ ToSet(es') = {} /\ Distinct(es')
  BY <1>1 DEF ToSet, Distinct
<1>6. NoLine \notin ToSet(lines') /\ NoLine \notin ToSet(set)
  BY <1>1, <1>2, <1>4, ListFacts DEF Lists
<1>7. Lists'
  BY <1>1, <1>4, <1>5 DEF Lists, Line
<1>8. Separate'
  BY <1>1, <1>2, <1>4, <1>5, <1>6 DEF Separate
<1>9. Untested = {} /\ Untested' = {}
  BY <1>1 DEF Untested
<1>10. CacheMap!Reject
  BY <1>1, <1>2, <1>4, <1>5, <1>9, SameSize DEF CacheMap!Reject
<1>11. QED
  BY <1>7, <1>8, <1>10

LEMMA AcceptRefines == LInv /\ Accept => LInv' /\ CacheMap!Accept
<1> SUFFICES ASSUME LInv, Accept
             PROVE  LInv' /\ CacheMap!Accept
  OBVIOUS
<1> USE DEF LInv
<1>1. /\ pc = "check" /\ ~BadSize /\ fail' = 0 /\ set' = <<c>> /\ c' = NoLine
      /\ i' = Len(lines) /\ pass' = machine.collections /\ pc' = "collect"
      /\ UNCHANGED <<machine, sets, lines, es>>
  BY DEF Accept
<1>2. /\ c \in Line /\ Len(lines) \in Nat /\ DOMAIN lines = 1..Len(lines)
      /\ NoLine \notin ToSet(lines) /\ NoLine \notin ToSet(es) /\ NoLine # c
  BY <1>1, ListFacts DEF Lists
<1>3. set' \in Seq(Line) /\ Distinct(set') /\ ToSet(set') = {c}
  <2>1. set' = Append(<<>>, c) /\ <<>> \in Seq(Line)
    BY <1>1
  <2>2. ToSet(<<>>) = {} /\ Distinct(<<>>)
    BY DEF ToSet, Distinct
  <2>3. /\ Append(<<>>, c) \in Seq(Line)
        /\ ToSet(Append(<<>>, c)) = ToSet(<<>>) \cup {c}
        /\ Distinct(<<>>) /\ c \notin ToSet(<<>>) => Distinct(Append(<<>>, c))
    BY <1>2, <2>1, AppendFacts
  <2>4. QED
    BY <2>1, <2>2, <2>3, Zenon
<1>4. Lists'
  BY <1>1, <1>2, <1>3 DEF Lists, Line
<1>5. Separate'
  BY <1>1, <1>2, <1>3 DEF Separate
<1>6. Untested' = ToSet(lines)
  BY <1>1, <1>2 DEF Untested, ToSet
<1>7. CacheMap!Accept
  BY <1>1, <1>3, <1>6, SameSize DEF CacheMap!Accept
<1>8. QED
  BY <1>4, <1>5, <1>7

\* collect walks downwards; what it deletes or keeps, the elements below the
\* index stay where they are (cachemap.c:82-90).
LEMMA CollectRefines == LInv /\ Collect => LInv' /\ CacheMap!Collect
<1> SUFFICES ASSUME LInv, Collect
             PROVE  LInv' /\ CacheMap!Collect
  OBVIOUS
<1> USE DEF LInv
<1> DEFINE p == lines[i]
           rest == VlDel(lines, i)
<1>1. /\ pc = "collect" /\ i > 0 /\ i' = i - 1
      /\ UNCHANGED <<machine, pc, c, sets, fail, pass, es>>
  BY DEF Collect
<1>2. PICK evicted \in CheckEvict(es, p) :
        IF evicted
        THEN lines' = rest /\ set' = Append(set, p)
        ELSE lines' = Append(rest, p) /\ UNCHANGED set
  BY DEF Collect
<1>3. /\ lines \in Seq(Line) /\ Distinct(lines) /\ Len(lines) \in Nat
      /\ i \in 1..Len(lines) /\ DOMAIN lines = 1..Len(lines)
      /\ p \in Line /\ p \in ToSet(lines)
  <2>1. Len(lines) \in Nat /\ i \in 0..Len(lines)
    BY <1>1, ListFacts DEF Lists
  <2>2. i \in 1..Len(lines)
    BY <1>1, <2>1
  <2>3. QED
    BY <2>1, <2>2, ListFacts DEF Lists, Separate
<1>4. Len(lines) \in Nat /\ i \in 1..Len(lines)
  BY <1>3
<1>5. /\ rest \in Seq(Line) /\ Len(rest) = Len(lines) - 1
      /\ \A j \in 1..(Len(lines) - 1) :
           rest[j] = IF j = i THEN lines[Len(lines)] ELSE lines[j]
      /\ Distinct(rest) /\ ToSet(rest) = ToSet(lines) \ {p}
  BY <1>3, DelFacts, DelDistinct
<1>6. evicted \in CacheMap!CheckEvict(ToSet(es), p)
  BY <1>2, SameTest DEF Lists, Separate
<1>7. Untested = {lines[k] : k \in 1..i}
  BY <1>1 DEF Untested
<1>8. p \in Untested
  BY <1>4, <1>7
<1>9. \A j \in 1..(i - 1) : j \in 1..(Len(lines) - 1) /\ j # i /\ j \in 1..Len(lines)
  BY <1>4
<1>10. \A j \in 1..i : j = i \/ j \in 1..(i - 1)
  BY <1>4
<1>11. \A j \in 1..(i - 1) : j \in 1..i
  BY <1>4
<1>12. \A j \in 1..(i - 1) : rest[j] = lines[j]
  BY <1>5, <1>9
<1>13. {lines[k] : k \in 1..(i - 1)} = Untested \ {p}
  <2>1. \A k \in 1..(i - 1) : lines[k] # p
    BY <1>3, <1>9 DEF Distinct
  <2>2. QED
    BY <1>7, <1>10, <1>11, <2>1
<1> HIDE DEF p, rest
<1>14. CASE evicted
  <2>1. lines' = rest /\ set' = Append(set, p)
    BY <1>2, <1>14
  <2>2. p \notin ToSet(es) /\ p \notin ToSet(set) /\ p # c
    BY <1>3 DEF Separate
  <2>3. /\ set' \in Seq(Line) /\ Distinct(set') /\ ToSet(set') = ToSet(set) \cup {p}
    BY <1>3, <2>1, <2>2, AppendFacts DEF Lists, Separate
  <2>4. i' \in 0..Len(lines')
    BY <1>1, <1>4, <1>5, <2>1
  <2>5. Lists'
    BY <1>1, <1>5, <2>1, <2>3, <2>4 DEF Lists, Line
  <2>6. Separate'
    BY <1>1, <1>5, <2>1, <2>2, <2>3 DEF Separate
  <2>7. Untested' = {rest[k] : k \in 1..(i - 1)}
    BY <1>1, <2>1 DEF Untested
  <2>8. Untested' = Untested \ {p}
    BY <1>12, <1>13, <2>7
  <2>9. CacheMap!Collect
    BY <1>1, <1>5, <1>6, <1>8, <1>14, <2>1, <2>3, <2>8 DEF CacheMap!Collect
  <2>10. QED
    BY <2>5, <2>6, <2>9
<1>15. CASE ~evicted
  <2>1. lines' = Append(rest, p) /\ set' = set
    BY <1>2, <1>15
  <2>2. /\ lines' \in Seq(Line) /\ Distinct(lines') /\ Len(lines') = Len(rest) + 1
        /\ \A j \in 1..(Len(rest) + 1) :
             lines'[j] = IF j = Len(rest) + 1 THEN p ELSE rest[j]
        /\ ToSet(lines') = ToSet(lines)
    <3>1. p \notin ToSet(rest)
      BY <1>5
    <3>2. /\ Append(rest, p) \in Seq(Line) /\ Len(Append(rest, p)) = Len(rest) + 1
          /\ \A j \in 1..(Len(rest) + 1) :
               Append(rest, p)[j] = IF j = Len(rest) + 1 THEN p ELSE rest[j]
          /\ ToSet(Append(rest, p)) = ToSet(rest) \cup {p}
          /\ Distinct(rest) /\ p \notin ToSet(rest) => Distinct(Append(rest, p))
      <4>1. rest \in Seq(Line) /\ p \in Line
        BY <1>3, <1>5 DEF p
      <4>2. QED
        BY <4>1, AppendFacts
    <3>3. ToSet(rest) \cup {p} = ToSet(lines)
      BY <1>3, <1>5 DEF p
    <3>4. QED
      BY <1>5, <2>1, <3>1, <3>2, <3>3
  <2>3. i' \in 0..Len(lines')
    BY <1>1, <1>4, <1>5, <2>2
  <2>4. Lists'
    BY <1>1, <2>1, <2>2, <2>3 DEF Lists, Line
  <2>5. Separate'
    BY <1>1, <2>1, <2>2 DEF Separate
  <2>6. \A j \in 1..(i - 1) : lines'[j] = lines[j]
    <3>1. \A j \in 1..(i - 1) : j \in 1..(Len(rest) + 1) /\ j # Len(rest) + 1
      BY <1>4, <1>5
    <3>2. QED
      BY <1>12, <2>2, <3>1
  <2>7. Untested' = {lines'[k] : k \in 1..(i - 1)}
    BY <1>1 DEF Untested
  <2>8. Untested' = Untested \ {p}
    BY <1>13, <2>6, <2>7
  <2>9. CacheMap!Collect
    BY <1>1, <1>6, <1>8, <1>15, <2>1, <2>2, <2>8 DEF CacheMap!Collect
  <2>10. QED
    BY <2>4, <2>5, <2>9
<1>16. QED
  BY <1>14, <1>15

\* The loop that fills es up takes as many lines as fit, or all there are.
LEMMA RefillRefines == LInv /\ Refill => LInv' /\ CacheMap!Refill
<1> SUFFICES ASSUME LInv, Refill
             PROVE  LInv' /\ CacheMap!Refill
  OBVIOUS
<1> USE DEF LInv
<1> DEFINE n == IF Len(es) >= Assoc THEN 0
                ELSE IF Assoc - Len(es) < Len(set) THEN Assoc - Len(es)
                ELSE Len(set)
           head == SubSeq(set, 1, Len(set) - n)
           tail == SubSeq(set, Len(set) - n + 1, Len(set))
           s == ToSet(tail)
<1>1. /\ pc = "collect" /\ i = 0 /\ pass = machine.collections /\ pass > 1
      /\ es' = es \o Reverse(tail) /\ set' = head
      /\ i' = Len(lines) /\ pass' = pass - 1
      /\ UNCHANGED <<machine, pc, c, sets, fail, lines>>
  BY DEF Refill
<1>2. Len(es) \in Nat /\ Len(set) \in Nat /\ Assoc \in Nat
  BY ListFacts, CacheMapListsAssumption
<1>3. /\ n \in 0..Len(set)
      /\ \/ n + Len(es) = Assoc
         \/ n = 0 /\ Len(es) >= Assoc
         \/ n = Len(set) /\ n + Len(es) < Assoc
  BY <1>2
<1> HIDE DEF n
<1>4. /\ head \in Seq(Line) /\ tail \in Seq(Line) /\ Len(tail) = n
      /\ Distinct(head) /\ Distinct(tail)
      /\ ToSet(tail) \subseteq ToSet(set)
      /\ ToSet(head) = ToSet(set) \ ToSet(tail)
  BY <1>3, SplitFacts DEF Lists, Separate
<1> HIDE DEF head, tail
<1>5. /\ Reverse(tail) \in Seq(Line) /\ Distinct(Reverse(tail))
      /\ ToSet(Reverse(tail)) = s
  BY <1>4, ReverseFacts
<1>6. /\ es' \in Seq(Line) /\ ToSet(es') = ToSet(es) \cup s /\ Distinct(es')
  <2>1. es \in Seq(Line) /\ Distinct(es) /\ ToSet(es) \cap ToSet(Reverse(tail)) = {}
    BY <1>4, <1>5 DEF Lists, Separate
  <2>2. QED
    BY <1>1, <1>5, <2>1, ConcatFacts
<1>7. Cardinality(s) = n /\ IsFiniteSet(ToSet(set)) /\ Cardinality(ToSet(set)) = Len(set)
  BY <1>4, LengthFacts DEF Lists, Separate
<1>8. n = 0 => s = {}
  BY <1>4, EmptyList
<1>9. n = Len(set) => s = ToSet(set)
  <2>1. s \in SUBSET ToSet(set)
    BY <1>4
  <2>2. Cardinality(s) = Cardinality(ToSet(set)) => ToSet(set) = s
    BY <1>7, <2>1, FS_Subset, Zenon
  <2>3. QED
    BY <1>7, <2>2
<1> HIDE DEF s
<1>10. Len(lines) \in Nat /\ DOMAIN lines = 1..Len(lines)
  BY ListFacts
<1>11. Lists'
  BY <1>1, <1>4, <1>6, <1>10 DEF Lists, Line
<1>12. s \subseteq ToSet(set) /\ ToSet(set') = ToSet(set) \ s
  BY <1>1, <1>4 DEF s
<1>13. Separate'
  BY <1>1, <1>4, <1>6, <1>12 DEF Separate
<1>14. Untested = {} /\ Untested' = ToSet(lines)
  BY <1>1, <1>10 DEF Untested, ToSet
<1>15. \/ CacheMap!Cardinality(s) + CacheMap!Cardinality(ToSet(es)) = Assoc
       \/ s = {} /\ CacheMap!Cardinality(ToSet(es)) >= Assoc
       \/ s = ToSet(set) /\ CacheMap!Cardinality(s) + CacheMap!Cardinality(ToSet(es)) < Assoc
  <2>1. CacheMap!Cardinality(s) = n /\ CacheMap!Cardinality(ToSet(es)) = Len(es)
    BY <1>7, SameCardinality, SameSize
  <2>2. QED
    BY <1>3, <1>8, <1>9, <2>1
<1>16. CacheMap!Refill
  BY <1>1, <1>6, <1>12, <1>14, <1>15 DEF CacheMap!Refill
<1>17. QED
  BY <1>11, <1>13, <1>16

LEMMA CollectPassRefines == LInv /\ CollectPass => LInv' /\ CacheMap!CollectPass
<1> SUFFICES ASSUME LInv, CollectPass
             PROVE  LInv' /\ CacheMap!CollectPass
  OBVIOUS
<1> USE DEF LInv
<1>1. /\ pc = "collect" /\ i = 0 /\ pass < machine.collections /\ pass > 1
      /\ i' = Len(lines) /\ pass' = pass - 1
      /\ UNCHANGED <<machine, pc, c, sets, fail, lines, es, set>>
  BY DEF CollectPass
<1>2. Len(lines) \in Nat /\ DOMAIN lines = 1..Len(lines)
  BY ListFacts
<1>3. Lists'
  BY <1>1, <1>2 DEF Lists, Line
<1>4. Separate'
  BY <1>1 DEF Separate
<1>5. Untested = {} /\ Untested' = ToSet(lines)
  BY <1>1, <1>2 DEF Untested, ToSet
<1>6. CacheMap!CollectPass
  BY <1>1, <1>5 DEF CacheMap!CollectPass
<1>7. QED
  BY <1>3, <1>4, <1>6

LEMMA FinishRefines == LInv /\ Finish => LInv' /\ CacheMap!Finish
<1> SUFFICES ASSUME LInv, Finish
             PROVE  LInv' /\ CacheMap!Finish
  OBVIOUS
<1> USE DEF LInv
<1>1. /\ pc = "collect" /\ i = 0 /\ pass = 1
      /\ sets' = sets \cup {ToSet(VlDrain(es, set))}
      /\ set' = <<>> /\ es' = <<>> /\ pc' = "loop" /\ pass' = 0
      /\ UNCHANGED <<machine, c, fail, lines, i>>
  BY DEF Finish
<1>2. ToSet(VlDrain(es, set)) = ToSet(set) \cup ToSet(es)
  BY DrainFacts DEF Lists
<1>3. /\ ToSet(set') = {} /\ ToSet(es') = {} /\ Distinct(set') /\ Distinct(es')
      /\ set' \in Seq(Line) /\ es' \in Seq(Line)
  BY <1>1 DEF ToSet, Distinct
<1>4. Lists'
  BY <1>1, <1>3 DEF Lists, Line
<1>5. Separate'
  BY <1>1, <1>3 DEF Separate
<1>6. Untested = {} /\ Untested' = {}
  BY <1>1 DEF Untested
<1>7. CacheMap!Finish
  BY <1>1, <1>2, <1>3, <1>6 DEF CacheMap!Finish
<1>8. QED
  BY <1>4, <1>5, <1>7

LEMMA NextRefines == LInv /\ [Next]_vars => LInv' /\ [CacheMap!Next]_CacheMap!vars
<1> SUFFICES ASSUME LInv, [Next]_vars
             PROVE  LInv' /\ [CacheMap!Next]_CacheMap!vars
  OBVIOUS
<1>1. CASE Next
  <2>1. LInv' /\ CacheMap!Next
    BY <1>1, LoopRefines, ExpandRefines, ExpandFailsRefines, ContractRefines,
       ContractPassRefines, RejectRefines, AcceptRefines, CollectRefines,
       RefillRefines, CollectPassRefines, FinishRefines DEF Next, CacheMap!Next
  <2>2. QED
    BY <2>1
<1>2. CASE UNCHANGED vars
  <2>1. LInv'
    BY <1>2 DEF vars, LInv, Lists, Separate, Line
  <2>2. UNCHANGED CacheMap!vars
    BY <1>2 DEF vars, CacheMap!vars, Untested, ToSet
  <2>3. QED
    BY <2>1, <2>2
<1>3. QED
  BY <1>1, <1>2

-----------------------------------------------------------------------------
\* The index loops over lists that change under them implement the search on
\* sets, step by step: each pass tests every element once, whatever moves into
\* a hole, for every buffer, associativity and number of passes.
THEOREM ListsImplementSets == Spec => CacheMap!Spec
<1>1. Init => LInv /\ CacheMap!Init
  BY InitRefines
<1>2. LInv /\ [Next]_vars => LInv' /\ [CacheMap!Next]_CacheMap!vars
  BY NextRefines
<1>3. QED
  BY <1>1, <1>2, PTL DEF Spec, CacheMap!Spec

\* No vlist ever holds a line twice, not even while contract and collect move
\* elements (vlist.c:68-96).
THEOREM ListsStayDistinct == Spec => []NoDuplicates
<1>1. LInv => NoDuplicates
  BY DEF LInv, Separate, Distinct, NoDuplicates
<1>2. Init => LInv
  BY InitRefines
<1>3. LInv /\ [Next]_vars => LInv'
  BY NextRefines
<1>4. QED
  BY <1>1, <1>2, <1>3, PTL DEF Spec
=============================================================================
