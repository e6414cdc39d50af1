---------------------------- MODULE CacheMapProofs ----------------------------
(***************************************************************************)
(* The search for cache sets is right for every buffer, every              *)
(* associativity and every number of passes: it loses no line, and where   *)
(* the timing test is reliable its eviction sets are minimal and its map   *)
(* is exact.                                                               *)
(***************************************************************************)
EXTENDS CacheMap, FiniteSetTheorems, TLAPS

\* The lines of s that fall into the cache set of l.
Like(s, l) == {x \in s : Colour[x] = Colour[l]}

-----------------------------------------------------------------------------
(* The inductive invariant *)

\* What each statement finds in the lists, and the counts it may decrement.
Phases ==
  /\ IF pc \in {"contract", "check"} THEN c \in Line ELSE c = NoLine
  /\ pc # "collect" => set = {}
  /\ pc \in {"loop", "done"} => es = {}
  /\ pc = "contract" => todo \subseteq es /\ pass \in 1..machine.contractions
  /\ pc = "collect" => todo \subseteq lines /\ pass \in 1..machine.collections
  /\ pc \notin {"contract", "collect"} => todo = {}
  /\ pc \notin {"loop", "done"} => fail <= machine.maxFail
  /\ pc = "done" => lines = {} \/ fail > machine.maxFail

\* No line is held twice.
Apart ==
  /\ lines \cap es = {} /\ lines \cap set = {} /\ es \cap set = {}
  /\ c \notin lines /\ c \notin es /\ c \notin set
  /\ \A s \in sets : /\ s \cap lines = {} /\ s \cap es = {} /\ s \cap set = {}
                     /\ c \notin s
  /\ \A s, r \in sets : s = r \/ s \cap r = {}

\* No line is lost.
Kept ==
  machine.giveBack \/ ~machine.noise =>
    \A l \in Line : \/ l \in lines \/ l \in es \/ l \in set \/ l = c
                    \/ \E s \in sets : l \in s

\* With a reliable test: expand keeps at most Assoc lines of a colour; the
\* lines already tested by contract are those that it keeps, and c has Assoc
\* companions; collect leaves no line of its colour behind.
QuietExpand ==
  /\ pc = "expand" => \A l \in Line : Cardinality(Like(es, l)) <= Assoc
  /\ pc \in {"contract", "check", "collect"} => fail = 0
  /\ pc \in {"contract", "check"} => Cardinality(Like(es, c)) = Assoc

QuietContract ==
  /\ pc = "contract" => \A l \in es \ todo : Colour[l] = Colour[c]
  /\ pc = "check" => \A l \in es : Colour[l] = Colour[c]

QuietCollect ==
  pc = "collect" =>
    /\ Cardinality(es) = Assoc /\ set # {}
    /\ \A l \in es \cup set, m \in es : Colour[l] = Colour[m]
    /\ \A l \in lines \ todo, m \in es : Colour[l] # Colour[m]

\* The sets found are whole cache sets; after a failure none is left that has
\* more lines than ways.
QuietSets ==
  /\ \A s \in sets : s \in Colours /\ Cardinality(s) > Assoc
  /\ fail > 0 => \A l \in Line : Cardinality(Like(lines \cup es, l)) <= Assoc

Quiet ==
  ~machine.noise => QuietExpand /\ QuietContract /\ QuietCollect /\ QuietSets

IInv == TypeOK /\ Phases /\ Apart /\ Kept /\ Quiet

-----------------------------------------------------------------------------
(* Facts about colours and cardinalities *)

\* A machine of the family, with the parameters the code gives it.
LEMMA MachineFacts ==
  ASSUME machine \in Machines
  PROVE  /\ IsFiniteSet(Line) /\ NoLine \notin Line
         /\ machine.contractions \in Nat \ {0}
         /\ machine.collections \in Nat \ {0}
         /\ machine.giveBack \in BOOLEAN /\ machine.noise \in BOOLEAN
         /\ machine.maxFail \in Nat /\ Assoc \in Nat \ {0} /\ Slack \in 0..Assoc
BY CacheMapAssumption DEF Line, Colour

\* Subsets of the buffer are finite.
LEMMA Finite ==
  ASSUME machine \in Machines, NEW s \in SUBSET Line
  PROVE  IsFiniteSet(s) /\ Cardinality(s) \in Nat
BY MachineFacts, FS_Subset, FS_CardinalityType, Zenon

\* A subset has no more members.
LEMMA SmallerSubset ==
  ASSUME machine \in Machines, NEW s \in SUBSET Line, NEW r \in SUBSET s
  PROVE  /\ Cardinality(r) \in Nat /\ Cardinality(s) \in Nat
         /\ Cardinality(r) <= Cardinality(s)
         /\ Cardinality(r) = Cardinality(s) => r = s
<1>1. IsFiniteSet(s) /\ Cardinality(s) \in Nat
  BY Finite
<1>2. IsFiniteSet(r) /\ Cardinality(r) \in Nat
  BY Finite
<1>3. Cardinality(r) <= Cardinality(s) /\ (Cardinality(s) = Cardinality(r) => s = r)
  BY <1>1, FS_Subset, Zenon
<1>4. QED
  BY <1>1, <1>2, <1>3

\* One more member.
LEMMA OneMore ==
  ASSUME machine \in Machines, NEW s \in SUBSET Line, NEW x \in Line, x \notin s
  PROVE  Cardinality(s \cup {x}) = Cardinality(s) + 1
BY Finite, FS_AddElement, Zenon

\* What the timing test of a quiet machine answers.
LEMMA QuietTest ==
  ASSUME machine \in Machines, ~machine.noise, NEW s \in SUBSET Line,
         NEW l \in Line, NEW evicted \in CheckEvict(s, l)
  PROVE  evicted <=> Cardinality(Like(s, l)) >= Assoc
<1>1. CASE s = {}
  <2>1. Like(s, l) = {}
    BY <1>1 DEF Like
  <2>2. ~(Cardinality(Like(s, l)) >= Assoc)
    BY <2>1, FS_EmptySet, MachineFacts
  <2>3. evicted = FALSE
    BY <1>1 DEF CheckEvict
  <2>4. QED
    BY <2>2, <2>3, Zenon
<1>2. CASE s # {}
  BY <1>2, Zenon DEF CheckEvict, Like
<1>3. QED
  BY <1>1, <1>2

LEMMA InitIInv == Init => IInv
<1> SUFFICES ASSUME Init
             PROVE  IInv
  OBVIOUS
<1> USE DEF Init
<1>1. TypeOK
  BY MachineFacts DEF TypeOK
<1>2. Phases
  BY DEF Phases
<1>3. Apart
  BY MachineFacts DEF Apart
<1>4. Kept
  BY DEF Kept
<1>5. Quiet
  BY DEF Quiet, QuietExpand, QuietContract, QuietCollect, QuietSets
<1>6. QED
  BY <1>1, <1>2, <1>3, <1>4, <1>5 DEF IInv

-----------------------------------------------------------------------------
(* Each step preserves the invariant *)

LEMMA LoopIInv == IInv /\ Loop => IInv'
<1> SUFFICES ASSUME IInv, Loop
             PROVE  IInv'
  OBVIOUS
<1> USE DEF IInv, Loop
<1>1. TypeOK'
  BY DEF TypeOK, Line, Colour
<1>2. Phases'
  BY MachineFacts DEF TypeOK, Phases, Line, Colour
<1>3. Apart'
  BY DEF Apart
<1>4. Kept'
  BY DEF Kept, Line, Colour
<1>5. Quiet'
  <2> SUFFICES ASSUME ~machine.noise
               PROVE  QuietExpand' /\ QuietContract' /\ QuietCollect' /\ QuietSets'
    BY DEF Quiet
  <2>1. QuietSets'
    BY DEF Quiet, QuietSets, Colours, Like, Line, Colour
  <2>2. ASSUME NEW l \in Line
        PROVE  Cardinality(Like(es, l)) <= Assoc
    <3>1. Like(es, l) = {}
      BY DEF Phases, Like
    <3>2. QED
      BY <3>1, FS_EmptySet, MachineFacts DEF TypeOK
  <2>3. QuietExpand'
    BY <2>2 DEF QuietExpand, Like, Line, Colour
  <2>4. QuietContract' /\ QuietCollect'
    BY DEF QuietContract, QuietCollect
  <2>5. QED
    BY <2>1, <2>3, <2>4
<1>6. QED
  BY <1>1, <1>2, <1>3, <1>4, <1>5

LEMMA ExpandFailsIInv == IInv /\ ExpandFails => IInv'
<1> SUFFICES ASSUME IInv, ExpandFails
             PROVE  IInv'
  OBVIOUS
<1> USE DEF IInv, ExpandFails
<1>1. TypeOK'
  BY MachineFacts DEF TypeOK, Phases, Line, Colour
<1>2. Phases'
  BY DEF TypeOK, Phases, Line, Colour
<1>3. Apart'
  BY DEF Apart
<1>4. Kept'
  BY DEF Kept, Line, Colour
<1>5. Quiet'
  <2> SUFFICES ASSUME ~machine.noise
               PROVE  QuietExpand' /\ QuietContract' /\ QuietCollect' /\ QuietSets'
    BY DEF Quiet
  <2>1. \A l \in Line : Cardinality(Like(es, l)) <= Assoc
    BY DEF Quiet, QuietExpand
  <2>2. lines' \cup es' = es
    OBVIOUS
  <2>3. QuietSets'
    <3>1. \A s \in sets' : s \in Colours' /\ Cardinality(s) > Assoc
      BY DEF Quiet, QuietSets, Colours, Line, Colour
    <3>2. \A l \in Line : Cardinality(Like(lines \cup es, l))' <= Assoc
      BY <2>1, <2>2 DEF Like, Line, Colour
    <3>3. QED
      BY <3>1, <3>2 DEF QuietSets, Line, Colour
  <2>4. QuietExpand' /\ QuietContract' /\ QuietCollect'
    BY DEF QuietExpand, QuietContract, QuietCollect
  <2>5. QED
    BY <2>3, <2>4
<1>6. QED
  BY <1>1, <1>2, <1>3, <1>4, <1>5

LEMMA ExpandIInv == IInv /\ Expand => IInv'
<1> SUFFICES ASSUME IInv, Expand
             PROVE  IInv'
  OBVIOUS
<1> USE DEF IInv
<1>1. PICK current \in lines :
        /\ lines' = lines \ {current}
        /\ \E evicted \in CheckEvict(es, current) :
             IF evicted
             THEN /\ c' = current /\ pc' = "contract"
                  /\ todo' = es /\ pass' = machine.contractions
                  /\ UNCHANGED es
             ELSE es' = es \cup {current} /\ UNCHANGED <<pc, c, todo, pass>>
  BY DEF Expand
<1>2. PICK evicted \in CheckEvict(es, current) :
        IF evicted
        THEN /\ c' = current /\ pc' = "contract"
             /\ todo' = es /\ pass' = machine.contractions
             /\ UNCHANGED es
        ELSE es' = es \cup {current} /\ UNCHANGED <<pc, c, todo, pass>>
  BY <1>1
<1>3. pc = "expand" /\ UNCHANGED <<machine, set, sets, fail>>
  BY DEF Expand
<1>4. current \in Line /\ current \notin es /\ current # NoLine
  BY MachineFacts DEF TypeOK, Apart
<1>5. TypeOK'
  BY <1>1, <1>2, <1>3, <1>4, MachineFacts DEF TypeOK, Phases, Line, Colour
<1>6. Phases'
  BY <1>1, <1>2, <1>3, <1>4, MachineFacts DEF TypeOK, Phases, Line, Colour
<1>7. Apart'
  BY <1>1, <1>2, <1>3, <1>4 DEF Phases, Apart
<1>8. Kept'
  <2>1. c = NoLine
    BY <1>3 DEF Phases
  <2>2. CASE evicted
    BY <1>1, <1>2, <1>3, <2>1, <2>2, MachineFacts DEF TypeOK, Kept, Line, Colour
  <2>3. CASE ~evicted
    BY <1>1, <1>2, <1>3, <2>1, <2>3, MachineFacts DEF TypeOK, Kept, Line, Colour
  <2>4. QED
    BY <2>2, <2>3
<1>9. ASSUME ~machine.noise
      PROVE  QuietExpand' /\ QuietContract' /\ QuietCollect' /\ QuietSets'
  <2>1. evicted <=> Cardinality(Like(es, current)) >= Assoc
    BY <1>4, <1>9, QuietTest DEF TypeOK
  <2>2. /\ Like(es, current) \in SUBSET Line
        /\ Cardinality(Like(es, current)) \in Nat /\ Assoc \in Nat
        /\ Cardinality(Like(es, current)) <= Assoc
    BY <1>3, <1>4, <1>9, Finite, MachineFacts
       DEF TypeOK, Like, Quiet, QuietExpand
  <2>3. \A s \in sets : s \in Colours /\ Cardinality(s) > Assoc
    BY <1>9 DEF Quiet, QuietSets
  <2>4. CASE evicted
    <3>1. Cardinality(Like(es, current)) = Assoc
      BY <2>1, <2>2, <2>4
    <3>2. ~(fail > 0)
      <4> SUFFICES ASSUME fail > 0
                   PROVE  FALSE
        OBVIOUS
      <4> DEFINE held == Like(lines \cup es, current)
                 more == Like(es, current) \cup {current}
      <4>1. held \in SUBSET Line /\ more \in SUBSET held
        BY <1>1, <1>4 DEF TypeOK, Like
      <4>2. Cardinality(more) = Assoc + 1
        BY <1>4, <2>2, <3>1, OneMore DEF TypeOK, Like
      <4>3. Cardinality(more) <= Cardinality(held) /\ Cardinality(held) \in Nat
        BY <4>1, SmallerSubset DEF TypeOK
      <4>4. Cardinality(held) <= Assoc
        BY <1>4, <1>9 DEF Quiet, QuietSets
      <4>5. QED
        BY <2>2, <4>2, <4>3, <4>4
    <3>3. fail = 0
      BY <3>2, MachineFacts DEF TypeOK
    <3>4. QuietExpand'
      BY <1>2, <1>3, <2>4, <3>1, <3>3 DEF QuietExpand, Like, Line, Colour
    <3>5. QuietContract' /\ QuietCollect'
      BY <1>2, <2>4 DEF QuietContract, QuietCollect
    <3>6. QuietSets'
      BY <1>3, <2>3, <3>3 DEF QuietSets, Colours, Line, Colour
    <3>7. QED
      BY <3>4, <3>5, <3>6
  <2>5. CASE ~evicted
    <3>1. Cardinality(Like(es, current)) + 1 <= Assoc
      BY <2>1, <2>2, <2>5
    <3>2. ASSUME NEW l \in Line
          PROVE  Cardinality(Like(es \cup {current}, l)) <= Assoc
      <4>1. CASE Colour[l] = Colour[current]
        <5>1. Like(es \cup {current}, l) = Like(es, current) \cup {current}
          BY <4>1 DEF Like
        <5>2. Cardinality(Like(es, current) \cup {current})
                = Cardinality(Like(es, current)) + 1
          BY <1>4, <2>2, OneMore DEF TypeOK, Like
        <5>3. QED
          BY <3>1, <5>1, <5>2
      <4>2. CASE Colour[l] # Colour[current]
        <5>1. Like(es \cup {current}, l) = Like(es, l)
          BY <4>2 DEF Like
        <5>2. QED
          BY <1>3, <1>9, <5>1 DEF Quiet, QuietExpand
      <4>3. QED
        BY <4>1, <4>2
    <3>3. QuietExpand'
      BY <1>2, <1>3, <2>5, <3>2 DEF QuietExpand, Like, Line, Colour
    <3>4. QuietContract' /\ QuietCollect'
      BY <1>2, <1>3, <2>5 DEF QuietContract, QuietCollect
    <3>5. lines' \cup es' = lines \cup es
      BY <1>1, <1>2, <2>5
    <3>6. QuietSets'
      BY <1>3, <1>9, <2>3, <3>5 DEF Quiet, QuietSets, Colours, Like, Line, Colour
    <3>7. QED
      BY <3>3, <3>4, <3>6
  <2>6. QED
    BY <2>4, <2>5
<1>10. Quiet'
  BY <1>3, <1>9 DEF Quiet
<1>11. QED
  BY <1>5, <1>6, <1>7, <1>8, <1>10

\* With a reliable test, contract keeps the lines of the colour of c and gives
\* the others back (cachemap.c:68-80).
LEMMA ContractIInv == IInv /\ Contract => IInv'
<1> SUFFICES ASSUME IInv, Contract
             PROVE  IInv'
  OBVIOUS
<1> USE DEF IInv
<1>1. PICK cand \in todo :
        /\ todo' = todo \ {cand}
        /\ \E evicted \in CheckEvict(es \ {cand}, c) :
             IF evicted THEN es' = es \ {cand} /\ lines' = lines \cup {cand}
                        ELSE UNCHANGED <<es, lines>>
  BY DEF Contract
<1>2. PICK evicted \in CheckEvict(es \ {cand}, c) :
        IF evicted THEN es' = es \ {cand} /\ lines' = lines \cup {cand}
                   ELSE UNCHANGED <<es, lines>>
  BY <1>1
<1>3. pc = "contract" /\ UNCHANGED <<machine, pc, c, set, sets, fail, pass>>
  BY DEF Contract
<1>4. cand \in es /\ cand \in Line /\ c \in Line /\ cand # c
  BY <1>1, <1>3 DEF TypeOK, Phases, Apart
<1>5. TypeOK'
  BY <1>1, <1>2, <1>3, <1>4 DEF TypeOK, Phases, Line, Colour
<1>6. Phases'
  BY <1>1, <1>2, <1>3, <1>4 DEF Phases, Line, Colour
<1>7. Apart'
  BY <1>1, <1>2, <1>3, <1>4 DEF Apart
<1>8. Kept'
  <2>1. CASE evicted
    BY <1>2, <1>3, <2>1 DEF Kept, Line, Colour
  <2>2. CASE ~evicted
    BY <1>2, <1>3, <2>2 DEF Kept, Line, Colour
  <2>3. QED
    BY <2>1, <2>2
<1>9. ASSUME ~machine.noise
      PROVE  QuietExpand' /\ QuietContract' /\ QuietCollect' /\ QuietSets'
  <2>1. evicted <=> Cardinality(Like(es \ {cand}, c)) >= Assoc
    BY <1>4, <1>9, QuietTest DEF TypeOK
  <2>2. /\ Like(es, c) \in SUBSET Line /\ Cardinality(Like(es, c)) = Assoc
        /\ Assoc \in Nat /\ fail = 0
    BY <1>3, <1>9, MachineFacts DEF TypeOK, Like, Quiet, QuietExpand
  <2>3. \A l \in es \ todo : Colour[l] = Colour[c]
    BY <1>3, <1>9 DEF Quiet, QuietContract
  <2>4. QuietSets'
    BY <1>3, <1>9, <2>2 DEF Quiet, QuietSets, Colours, Line, Colour
  <2>5. CASE Colour[cand] = Colour[c]
    <3>1. /\ Like(es \ {cand}, c) \in SUBSET Like(es, c)
          /\ cand \in Like(es, c) /\ cand \notin Like(es \ {cand}, c)
      BY <1>4, <2>5 DEF Like
    <3>2. ~evicted
      <4> DEFINE kept == Like(es \ {cand}, c)
                 all == Like(es, c)
      <4>1. kept # all
        BY <3>1
      <4> HIDE DEF kept, all
      <4>2. /\ Cardinality(kept) \in Nat /\ Cardinality(kept) <= Cardinality(all)
            /\ Cardinality(kept) # Cardinality(all)
        BY <2>2, <3>1, <4>1, SmallerSubset DEF TypeOK, kept, all
      <4>3. ~(Cardinality(kept) >= Assoc)
        BY <2>2, <4>2 DEF all
      <4>4. QED
        BY <2>1, <4>3, Zenon DEF kept
    <3>3. UNCHANGED <<es, lines>>
      BY <1>2, <3>2
    <3>4. QuietExpand' /\ QuietContract' /\ QuietCollect'
      BY <1>1, <1>3, <2>2, <2>3, <2>5, <3>3
         DEF QuietExpand, QuietContract, QuietCollect, Like, Colour
    <3>5. QED
      BY <2>4, <3>4
  <2>6. CASE Colour[cand] # Colour[c]
    <3>1. Like(es \ {cand}, c) = Like(es, c)
      BY <2>6 DEF Like
    <3>2. evicted
      BY <2>1, <2>2, <3>1
    <3>3. es' = es \ {cand}
      BY <1>2, <3>2
    <3>4. QuietExpand'
      BY <1>3, <2>2, <3>1, <3>3 DEF QuietExpand, Like, Colour
    <3>5. QuietContract' /\ QuietCollect'
      BY <1>1, <1>3, <2>3, <3>3 DEF QuietContract, QuietCollect, Colour
    <3>6. QED
      BY <2>4, <3>4, <3>5
  <2>7. QED
    BY <2>5, <2>6
<1>10. Quiet'
  BY <1>3, <1>9 DEF Quiet
<1>11. QED
  BY <1>5, <1>6, <1>7, <1>8, <1>10

LEMMA ContractPassIInv == IInv /\ ContractPass => IInv'
<1> SUFFICES ASSUME IInv, ContractPass
             PROVE  IInv'
  OBVIOUS
<1> USE DEF IInv, ContractPass
<1>1. TypeOK' /\ Phases'
  BY MachineFacts DEF TypeOK, Phases, Line, Colour
<1>2. Apart'
  BY DEF Apart
<1>3. Kept'
  BY DEF Kept, Line, Colour
<1>4. Quiet'
  <2> SUFFICES ASSUME ~machine.noise
               PROVE  QuietExpand' /\ QuietContract' /\ QuietCollect' /\ QuietSets'
    BY DEF Quiet
  <2>1. QuietExpand' /\ QuietSets'
    BY DEF Quiet, QuietExpand, QuietSets, Colours, Like, Line, Colour
  <2>2. QuietContract' /\ QuietCollect'
    BY DEF Quiet, QuietContract, QuietCollect, Line, Colour
  <2>3. QED
    BY <2>1, <2>2
<1>5. QED
  BY <1>1, <1>2, <1>3, <1>4

\* With a reliable test contract leaves just Assoc lines.
LEMMA QuietSize ==
  ASSUME IInv, pc = "check", ~machine.noise
  PROVE  Cardinality(es) = Assoc /\ \A l \in es : Colour[l] = Colour[c]
<1>1. \A l \in es : Colour[l] = Colour[c]
  BY DEF IInv, Quiet, QuietContract
<1>2. Like(es, c) = es
  BY <1>1 DEF Like
<1>3. QED
  BY <1>1, <1>2 DEF IInv, Quiet, QuietExpand

\* So it is only rejected after a wrong answer.
LEMMA QuietNotRejected ==
  ASSUME IInv, Reject
  PROVE  machine.noise
<1> SUFFICES ASSUME ~machine.noise
             PROVE  FALSE
  OBVIOUS
<1>1. Cardinality(es) = Assoc
  BY QuietSize DEF Reject
<1>2. QED
  BY <1>1, MachineFacts DEF IInv, TypeOK, Reject, BadSize

LEMMA RejectIInv == IInv /\ Reject => IInv'
<1> SUFFICES ASSUME IInv, Reject
             PROVE  IInv'
  OBVIOUS
<1>1. machine.noise
  BY QuietNotRejected
<1> USE DEF IInv, Reject
<1>2. TypeOK' /\ Phases'
  BY MachineFacts DEF TypeOK, Phases, Line, Colour
<1>3. Apart'
  BY MachineFacts DEF TypeOK, Phases, Apart
<1>4. Kept'
  BY <1>1 DEF Kept, Line, Colour
<1>5. Quiet'
  BY <1>1 DEF Quiet
<1>6. QED
  BY <1>2, <1>3, <1>4, <1>5

LEMMA AcceptIInv == IInv /\ Accept => IInv'
<1> SUFFICES ASSUME IInv, Accept
             PROVE  IInv'
  OBVIOUS
<1> USE DEF IInv, Accept
<1>1. TypeOK' /\ Phases'
  BY MachineFacts DEF TypeOK, Phases, Line, Colour
<1>2. Apart'
  BY MachineFacts DEF TypeOK, Phases, Apart
<1>3. Kept'
  BY DEF Phases, Kept, Line, Colour
<1>4. Quiet'
  <2> SUFFICES ASSUME ~machine.noise
               PROVE  QuietExpand' /\ QuietContract' /\ QuietCollect' /\ QuietSets'
    BY DEF Quiet
  <2>1. Cardinality(es) = Assoc /\ \A l \in es : Colour[l] = Colour[c]
    BY QuietSize
  <2>2. fail = 0
    BY DEF Quiet, QuietExpand
  <2>3. QuietExpand' /\ QuietContract'
    BY DEF QuietExpand, QuietContract
  <2>4. QuietCollect'
    BY <2>1 DEF QuietCollect, Colour
  <2>5. QuietSets'
    BY <2>2 DEF Quiet, QuietSets, Colours, Line, Colour
  <2>6. QED
    BY <2>3, <2>4, <2>5
<1>5. QED
  BY <1>1, <1>2, <1>3, <1>4

\* With a reliable test, collect takes just the lines of the colour of es
\* (cachemap.c:82-90).
LEMMA CollectIInv == IInv /\ Collect => IInv'
<1> SUFFICES ASSUME IInv, Collect
             PROVE  IInv'
  OBVIOUS
<1> USE DEF IInv
<1>1. PICK p \in todo :
        /\ todo' = todo \ {p}
        /\ \E evicted \in CheckEvict(es, p) :
             IF evicted THEN lines' = lines \ {p} /\ set' = set \cup {p}
                        ELSE UNCHANGED <<lines, set>>
  BY DEF Collect
<1>2. PICK evicted \in CheckEvict(es, p) :
        IF evicted THEN lines' = lines \ {p} /\ set' = set \cup {p}
                   ELSE UNCHANGED <<lines, set>>
  BY <1>1
<1>3. pc = "collect" /\ UNCHANGED <<machine, pc, es, c, sets, fail, pass>>
  BY DEF Collect
<1>4. p \in lines /\ p \in Line
  BY <1>1, <1>3 DEF TypeOK, Phases
<1>5. TypeOK'
  BY <1>1, <1>2, <1>3, <1>4 DEF TypeOK, Phases, Line, Colour
<1>6. Phases'
  BY <1>1, <1>2, <1>3, <1>4 DEF Phases, Line, Colour
<1>7. Apart'
  <2>1. c = NoLine /\ p # c
    BY <1>3, <1>4, MachineFacts DEF TypeOK, Phases
  <2>2. CASE evicted
    BY <1>2, <1>3, <1>4, <2>1, <2>2 DEF Apart
  <2>3. CASE ~evicted
    BY <1>2, <1>3, <2>3 DEF Apart
  <2>4. QED
    BY <2>2, <2>3
<1>8. Kept'
  <2>1. CASE evicted
    BY <1>2, <1>3, <2>1 DEF Kept, Line, Colour
  <2>2. CASE ~evicted
    BY <1>2, <1>3, <2>2 DEF Kept, Line, Colour
  <2>3. QED
    BY <2>1, <2>2
<1>9. ASSUME ~machine.noise
      PROVE  QuietExpand' /\ QuietContract' /\ QuietCollect' /\ QuietSets'
  <2>1. evicted <=> Cardinality(Like(es, p)) >= Assoc
    BY <1>4, <1>9, QuietTest DEF TypeOK
  <2>2. /\ Cardinality(es) = Assoc /\ Assoc \in Nat \ {0} /\ set # {}
        /\ \A l \in es \cup set, m \in es : Colour[l] = Colour[m]
        /\ \A l \in lines \ todo, m \in es : Colour[l] # Colour[m]
    BY <1>3, <1>9, MachineFacts DEF TypeOK, Quiet, QuietCollect
  <2>3. fail = 0
    BY <1>3, <1>9 DEF Quiet, QuietExpand
  <2>4. QuietExpand' /\ QuietContract'
    BY <1>3, <2>3 DEF QuietExpand, QuietContract
  <2>5. QuietSets'
    BY <1>3, <1>9, <2>3 DEF Quiet, QuietSets, Colours, Line, Colour
  <2>6. PICK m \in es : TRUE
    BY <2>2, FS_EmptySet
  <2>7. CASE Colour[p] = Colour[m]
    <3>1. Like(es, p) = es
      BY <2>2, <2>6, <2>7 DEF Like
    <3>2. evicted
      BY <2>1, <2>2, <3>1
    <3>3. lines' = lines \ {p} /\ set' = set \cup {p}
      BY <1>2, <3>2
    <3>4. QuietCollect'
      BY <1>1, <1>3, <2>2, <2>6, <2>7, <3>3 DEF QuietCollect, Colour
    <3>5. QED
      BY <2>4, <2>5, <3>4
  <2>8. CASE Colour[p] # Colour[m]
    <3>1. Like(es, p) = {}
      BY <2>2, <2>6, <2>8 DEF Like
    <3>2. ~(Cardinality(Like(es, p)) >= Assoc)
      BY <2>2, <3>1, FS_EmptySet
    <3>3. UNCHANGED <<lines, set>>
      BY <1>2, <2>1, <3>2
    <3>4. QuietCollect'
      BY <1>1, <1>3, <2>2, <2>6, <2>8, <3>3 DEF QuietCollect, Colour
    <3>5. QED
      BY <2>4, <2>5, <3>4
  <2>9. QED
    BY <2>7, <2>8
<1>10. Quiet'
  BY <1>3, <1>9 DEF Quiet
<1>11. QED
  BY <1>5, <1>6, <1>7, <1>8, <1>10

\* With a reliable test there is nothing to fill up (l3_arm.c:386-389).
LEMMA RefillIInv == IInv /\ Refill => IInv'
<1> SUFFICES ASSUME IInv, Refill
             PROVE  IInv'
  OBVIOUS
<1> USE DEF IInv
<1>1. PICK s \in SUBSET set :
        /\ \/ Cardinality(s) + Cardinality(es) = Assoc
           \/ s = {} /\ Cardinality(es) >= Assoc
           \/ s = set /\ Cardinality(s) + Cardinality(es) < Assoc
        /\ es' = es \cup s /\ set' = set \ s
  BY DEF Refill
<1>2. /\ pc = "collect" /\ todo' = lines /\ pass' = pass - 1 /\ pass > 1
      /\ UNCHANGED <<machine, pc, lines, c, sets, fail>>
  BY DEF Refill
<1>3. TypeOK' /\ Phases'
  BY <1>1, <1>2, MachineFacts DEF TypeOK, Phases, Line, Colour
<1>4. Apart'
  BY <1>1, <1>2 DEF Apart
<1>5. Kept'
  BY <1>1, <1>2 DEF Kept, Line, Colour
<1>6. ASSUME ~machine.noise
      PROVE  QuietExpand' /\ QuietContract' /\ QuietCollect' /\ QuietSets'
  <2>1. Cardinality(es) = Assoc /\ Assoc \in Nat
    BY <1>2, <1>6, MachineFacts DEF TypeOK, Quiet, QuietCollect
  <2>2. s \in SUBSET Line /\ IsFiniteSet(s) /\ Cardinality(s) \in Nat
    BY <1>1, Finite DEF TypeOK
  <2>3. s = {}
    BY <1>1, <2>1, <2>2, FS_EmptySet
  <2>4. es' = es /\ set' = set
    BY <1>1, <2>3
  <2>5. QuietExpand' /\ QuietContract'
    BY <1>2, <1>6 DEF Quiet, QuietExpand, QuietContract
  <2>6. QuietCollect'
    BY <1>2, <1>6, <2>4 DEF Quiet, QuietCollect, Colour
  <2>7. QuietSets'
    BY <1>2, <1>6, <2>4 DEF Quiet, QuietSets, Colours, Like, Line, Colour
  <2>8. QED
    BY <2>5, <2>6, <2>7
<1>7. Quiet'
  BY <1>2, <1>6 DEF Quiet
<1>8. QED
  BY <1>3, <1>4, <1>5, <1>7

LEMMA CollectPassIInv == IInv /\ CollectPass => IInv'
<1> SUFFICES ASSUME IInv, CollectPass
             PROVE  IInv'
  OBVIOUS
<1> USE DEF IInv, CollectPass
<1>1. TypeOK' /\ Phases'
  BY MachineFacts DEF TypeOK, Phases, Line, Colour
<1>2. Apart'
  BY DEF Apart
<1>3. Kept'
  BY DEF Kept, Line, Colour
<1>4. Quiet'
  <2> SUFFICES ASSUME ~machine.noise
               PROVE  QuietExpand' /\ QuietContract' /\ QuietCollect' /\ QuietSets'
    BY DEF Quiet
  <2>1. QuietExpand' /\ QuietContract'
    BY DEF Quiet, QuietExpand, QuietContract
  <2>2. QuietCollect'
    BY DEF Quiet, QuietCollect, Colour
  <2>3. QuietSets'
    BY DEF Quiet, QuietSets, Colours, Like, Line, Colour
  <2>4. QED
    BY <2>1, <2>2, <2>3
<1>5. QED
  BY <1>1, <1>2, <1>3, <1>4

\* With a reliable test, what collect has gathered is a whole cache set, of
\* more lines than ways.
LEMMA WholeClass ==
  ASSUME IInv, pc = "collect", todo = {}, ~machine.noise
  PROVE  set \cup es \in Colours /\ Cardinality(set \cup es) > Assoc
<1> USE DEF IInv
<1>1. /\ Cardinality(es) = Assoc /\ Assoc \in Nat \ {0} /\ set # {}
      /\ \A l \in es \cup set, m \in es : Colour[l] = Colour[m]
      /\ \A l \in lines, m \in es : Colour[l] # Colour[m]
  BY MachineFacts DEF TypeOK, Quiet, QuietCollect
<1>2. PICK m \in es : m \in Line
  BY <1>1, FS_EmptySet DEF TypeOK
<1>3. \A s \in sets : \E k \in Line : s = {l \in Line : Colour[l] = Colour[k]}
  BY DEF Quiet, QuietSets, Colours
<1>4. ASSUME NEW l \in Line, Colour[l] = Colour[m]
      PROVE  l \in set \cup es
  <2>1. l \notin lines /\ l # c
    BY <1>1, <1>2, <1>4, MachineFacts DEF TypeOK, Phases
  <2>2. ASSUME NEW s \in sets, l \in s
        PROVE  FALSE
    <3>1. m \in s
      BY <1>2, <1>3, <1>4, <2>2
    <3>2. QED
      BY <1>2, <3>1 DEF Apart
  <2>3. QED
    BY <2>1, <2>2 DEF Kept
<1>5. set \cup es = {l \in Line : Colour[l] = Colour[m]}
  BY <1>1, <1>2, <1>4 DEF TypeOK
<1>6. set \cup es \in Colours
  BY <1>2, <1>5 DEF Colours
<1>7. PICK x \in set : x \in Line /\ x \notin es
  BY <1>1 DEF TypeOK, Apart
<1>8. Cardinality(es \cup {x}) = Assoc + 1
  BY <1>1, <1>7, OneMore DEF TypeOK
<1>9. /\ Cardinality(set \cup es) \in Nat
      /\ Cardinality(es \cup {x}) <= Cardinality(set \cup es)
  <2>1. set \cup es \in SUBSET Line /\ es \cup {x} \in SUBSET (set \cup es)
    BY <1>7 DEF TypeOK
  <2>2. QED
    BY <2>1, SmallerSubset DEF TypeOK
<1>10. QED
  BY <1>1, <1>6, <1>8, <1>9

LEMMA FinishIInv == IInv /\ Finish => IInv'
<1> SUFFICES ASSUME IInv, Finish
             PROVE  IInv'
  OBVIOUS
<1> USE DEF IInv, Finish
<1>1. TypeOK' /\ Phases'
  BY MachineFacts DEF TypeOK, Phases, Line, Colour
<1>2. Apart'
  <2> DEFINE new == set \cup es
  <2>1. c = NoLine /\ c \notin new /\ new \cap lines = {}
    BY DEF Phases, Apart
  <2>2. \A s \in sets : s \cap new = {}
    BY DEF Apart
  <2>3. sets' = sets \cup {new} /\ es' = {} /\ set' = {}
    OBVIOUS
  <2> HIDE DEF new
  <2>4. \A s \in sets' : s \cap lines = {} /\ c \notin s
    BY <2>1, <2>3 DEF Apart
  <2>5. \A s, r \in sets' : s = r \/ s \cap r = {}
    BY <2>2, <2>3 DEF Apart
  <2>6. QED
    BY <2>3, <2>4, <2>5 DEF Apart
<1>3. Kept'
  BY DEF Kept, Line, Colour
<1>4. Quiet'
  <2> SUFFICES ASSUME ~machine.noise
               PROVE  QuietExpand' /\ QuietContract' /\ QuietCollect' /\ QuietSets'
    BY DEF Quiet
  <2>1. fail = 0
    BY DEF Quiet, QuietExpand
  <2>2. QuietExpand' /\ QuietContract' /\ QuietCollect'
    BY DEF QuietExpand, QuietContract, QuietCollect
  <2>3. set \cup es \in Colours /\ Cardinality(set \cup es) > Assoc
    BY WholeClass
  <2>4. Colours' = Colours
    BY DEF Colours, Line, Colour
  <2>5. QuietSets'
    <3>1. \A s \in sets : s \in Colours /\ Cardinality(s) > Assoc
      BY DEF Quiet, QuietSets
    <3>2. \A s \in sets' : s \in Colours' /\ Cardinality(s) > Assoc
      <4>1. sets' = sets \cup {set \cup es}
        OBVIOUS
      <4> HIDE DEF Finish
      <4>2. QED
        BY <2>3, <2>4, <3>1, <4>1
    <3>3. ~(fail' > 0)
      BY <2>1
    <3>4. QED
      BY <3>2, <3>3 DEF QuietSets
  <2>6. QED
    BY <2>2, <2>5
<1>5. QED
  BY <1>1, <1>2, <1>3, <1>4

LEMMA NextIInv == IInv /\ [Next]_vars => IInv'
<1> SUFFICES ASSUME IInv, [Next]_vars
             PROVE  IInv'
  OBVIOUS
<1>1. CASE Next
  BY <1>1, LoopIInv, ExpandIInv, ExpandFailsIInv, ContractIInv,
     ContractPassIInv, RejectIInv, AcceptIInv, CollectIInv, RefillIInv,
     CollectPassIInv, FinishIInv DEF Next
<1>2. CASE UNCHANGED vars
  <2>1. TypeOK' /\ Phases' /\ Apart' /\ Kept'
    BY <1>2 DEF vars, IInv, TypeOK, Phases, Apart, Kept, Line, Colour
  <2>2. QuietExpand' = QuietExpand /\ QuietContract' = QuietContract
    BY <1>2 DEF vars, QuietExpand, QuietContract, Like, Line, Colour
  <2>3. QuietCollect' = QuietCollect
    BY <1>2 DEF vars, QuietCollect, Colour
  <2>4. QuietSets' = QuietSets
    BY <1>2 DEF vars, QuietSets, Colours, Like, Line, Colour
  <2>5. QED
    BY <1>2, <2>1, <2>2, <2>3, <2>4 DEF vars, IInv, Quiet
<1>3. QED
  BY <1>1, <1>2

THEOREM Invariant == Spec => []IInv
BY InitIInv, NextIInv, PTL DEF Spec

-----------------------------------------------------------------------------
(* What follows from the invariant *)

\* The variables of the search stay in their domains.
THEOREM TypeCorrect == Spec => []TypeOK
<1>1. IInv => TypeOK
  BY DEF IInv
<1>2. QED
  BY <1>1, Invariant, PTL

\* A line held in one place only is held once, for the count of Copies.
LEMMA HeldOnce ==
  ASSUME IInv, machine.giveBack \/ ~machine.noise, NEW l \in Line
  PROVE  Copies(l) = 1
<1> DEFINE places == {k \in DOMAIN Held : l \in Held[k]}
           found == {s \in sets : l \in s}
<1>1. /\ places \subseteq {1, 2, 3, 4}
      /\ 1 \in places <=> l \in lines
      /\ 2 \in places <=> l \in es
      /\ 3 \in places <=> l \in set
      /\ 4 \in places <=> l = c
  <2>1. /\ DOMAIN Held = {1, 2, 3, 4}
        /\ Held[1] = lines /\ Held[2] = es /\ Held[3] = set /\ Held[4] = {c}
    BY DEF Held
  <2>2. QED
    BY <2>1
<1> HIDE DEF places
<1>2. \/ \E k \in 1..4 : places = {k} /\ found = {}
      \/ places = {} /\ \E s \in sets : found = {s}
  <2>1. CASE \E s \in sets : l \in s
    <3>1. PICK s \in sets : l \in s
      BY <2>1
    <3>2. l \notin lines /\ l \notin es /\ l \notin set /\ l # c
      BY <3>1 DEF IInv, Apart
    <3>3. found = {s}
      BY <3>1 DEF IInv, Apart
    <3>4. QED
      BY <1>1, <3>2, <3>3
  <2>2. CASE ~(\E s \in sets : l \in s)
    <3>1. found = {}
      BY <2>2
    <3>2. l \in lines \/ l \in es \/ l \in set \/ l = c
      BY <2>2 DEF IInv, Kept
    <3>3. CASE l \in lines
      <4>1. l \notin es /\ l \notin set /\ l # c
        BY <3>3 DEF IInv, Apart
      <4>2. places = {1}
        BY <1>1, <3>3, <4>1
      <4>3. QED
        BY <3>1, <4>2
    <3>4. CASE l \in es
      <4>1. l \notin lines /\ l \notin set /\ l # c
        BY <3>4 DEF IInv, Apart
      <4>2. places = {2}
        BY <1>1, <3>4, <4>1
      <4>3. QED
        BY <3>1, <4>2
    <3>5. CASE l \in set
      <4>1. l \notin lines /\ l \notin es /\ l # c
        BY <3>5 DEF IInv, Apart
      <4>2. places = {3}
        BY <1>1, <3>5, <4>1
      <4>3. QED
        BY <3>1, <4>2
    <3>6. CASE l = c
      <4>1. l \notin lines /\ l \notin es /\ l \notin set
        BY <3>6 DEF IInv, Apart
      <4>2. places = {4}
        BY <1>1, <3>6, <4>1
      <4>3. QED
        BY <3>1, <4>2
    <3>7. QED
      BY <3>2, <3>3, <3>4, <3>5, <3>6
  <2>3. QED
    BY <2>1, <2>2
<1> HIDE DEF found
<1>3. Cardinality(places) + Cardinality(found) = 1
  <2>1. CASE \E k \in 1..4 : places = {k} /\ found = {}
    <3>1. PICK k \in 1..4 : places = {k} /\ found = {}
      BY <2>1
    <3>2. Cardinality(places) = 1 /\ Cardinality(found) = 0
      BY <3>1, FS_EmptySet, FS_Singleton, Zenon
    <3>3. QED
      BY <3>2
  <2>2. CASE places = {} /\ \E s \in sets : found = {s}
    <3>1. PICK s \in sets : places = {} /\ found = {s}
      BY <2>2
    <3>2. Cardinality(places) = 0 /\ Cardinality(found) = 1
      BY <3>1, FS_EmptySet, FS_Singleton, Zenon
    <3>3. QED
      BY <3>2
  <2>3. QED
    BY <1>2, <2>1, <2>2
<1>4. QED
  BY <1>3 DEF Copies, places, found

\* A machine that gives the line under test back, or whose timing test is
\* reliable, never loses a line and never holds one twice, for every buffer,
\* associativity and number of passes (cachemap.c:93-130, l3_arm.c:323-403).
THEOREM LinesAreKept == Spec => []KeepsLines
<1>1. IInv => KeepsLines
  BY HeldOnce DEF KeepsLines, NoLineLost
<1>2. QED
  BY <1>1, Invariant, PTL

\* With a reliable timing test, a contracted eviction set has as many lines as
\* the cache has ways, all of the set of the line they evict.
THEOREM EvictionSetsMinimal == Spec => []Minimal
<1>1. IInv => Minimal
  BY QuietSize DEF Minimal
<1>2. QED
  BY <1>1, Invariant, PTL

\* With a reliable timing test, the sets found are the cache sets with more
\* lines than ways, each whole: one failed expansion proves that no other is
\* left.
THEOREM MapCorrect == Spec => []MapIsExact
<1>1. ASSUME IInv, pc = "done", ~machine.noise
      PROVE  sets = {k \in Colours : Cardinality(k) > Assoc}
  <2> USE DEF IInv
  <2>1. \A s \in sets : s \in Colours /\ Cardinality(s) > Assoc
    BY <1>1 DEF Quiet, QuietSets
  <2>2. ASSUME NEW k \in Colours, Cardinality(k) > Assoc
        PROVE  k \in sets
    <3>1. PICK m \in Line : k = {l \in Line : Colour[l] = Colour[m]}
      BY DEF Colours
    <3>2. ASSUME NEW s \in sets, NEW l \in s, l \in k
          PROVE  s = k
      <4>1. PICK n \in Line : s = {x \in Line : Colour[x] = Colour[n]}
        BY <2>1 DEF Colours
      <4>2. QED
        BY <3>1, <3>2, <4>1
    <3>3. CASE \E s \in sets : m \in s
      BY <3>1, <3>2, <3>3
    <3>4. CASE ~(\E s \in sets : m \in s)
      <4>1. \A l \in k : l \in lines
        BY <1>1, <3>1, <3>2, <3>4, MachineFacts DEF TypeOK, Phases, Kept
      <4>2. fail > 0
        BY <1>1, <3>1, <4>1, MachineFacts DEF TypeOK, Phases
      <4>3. Like(lines \cup es, m) = k
        BY <1>1, <3>1, <4>1 DEF TypeOK, Phases, Like
      <4>4. Cardinality(k) <= Assoc
        BY <1>1, <3>1, <4>2, <4>3 DEF Quiet, QuietSets
      <4>5. Cardinality(k) \in Nat /\ Assoc \in Nat
        <5>1. machine \in Machines /\ k \in SUBSET Line
          BY <1>1, <3>1 DEF TypeOK
        <5>2. QED
          BY <5>1, Finite, MachineFacts
      <4>6. QED
        BY <2>2, <4>4, <4>5
    <3>5. QED
      BY <3>3, <3>4
  <2>3. QED
    BY <2>1, <2>2
<1>2. IInv => MapIsExact
  BY <1>1 DEF MapIsExact
<1>3. QED
  BY <1>2, Invariant, PTL
=============================================================================
