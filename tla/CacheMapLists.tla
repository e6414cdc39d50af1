---------------------------- MODULE CacheMapLists ----------------------------
(***************************************************************************)
(* The search of CacheMap as the code performs it: on vlists, whose        *)
(* deletion moves the last element into the hole, while loops with an      *)
(* index walk over them.  It implements CacheMap, where a pass simply      *)
(* visits every element of a set once.                                     *)
(*                                                                         *)
(* A vlist is a sequence here: vl_push doubles the array when it is full.  *)
(***************************************************************************)
EXTENDS Naturals, FiniteSets, SequencesExt

CONSTANTS Machines, Assoc, Slack, NoLine \* see CacheMap

ASSUME CacheMapListsAssumption ==
  /\ Assoc \in Nat \ {0} /\ Slack \in 0..Assoc
  /\ \A m \in Machines :
       /\ IsFiniteSet(DOMAIN m.colour) \* the buffer, in order
       /\ DOMAIN m.colour = 1..Cardinality(DOMAIN m.colour)
       /\ m.contractions \in Nat \ {0} /\ m.collections \in Nat \ {0}
       /\ m.giveBack \in BOOLEAN /\ m.maxFail \in Nat /\ m.noise \in BOOLEAN
       /\ NoLine \notin DOMAIN m.colour

VARIABLES
  machine, pc, c, sets, fail, pass, \* as in CacheMap
  lines, es, set,                   \* vlists
  i                                 \* index of contract or collect

vars == <<machine, pc, c, sets, fail, pass, lines, es, set, i>>

CheckEvict(s, l) ==
  IF s = <<>> THEN {FALSE}
  ELSE IF machine.noise THEN BOOLEAN
  ELSE {Cardinality({k \in DOMAIN s : machine.colour[s[k]] = machine.colour[l]})
          >= Assoc}

-----------------------------------------------------------------------------
(* vlist; indices start at 1 *)

VlDel(v, k) == Front([v EXCEPT ![k] = Last(v)])

\* Mutant: the element is moved to the end, but nothing stored in its place.
VlInsertNoStore(v, k, d) == IF k = Len(v) + 1 THEN Append(v, d) ELSE Append(v, v[k])

VlInsert(v, k, d) ==
  IF k = Len(v) + 1 THEN Append(v, d) ELSE Append([v EXCEPT ![k] = d], v[k])

\* while (vl_len(from)) vl_push(to, vl_del(from, 0))
VlDrain(from, to) ==
  IF from = <<>> THEN to ELSE Append(to, Head(from)) \o Reverse(Tail(from))

-----------------------------------------------------------------------------
Init ==
  /\ machine \in Machines
  /\ pc = "loop" /\ i = 0 /\ pass = 0 /\ fail = 0
  /\ lines = [l \in DOMAIN machine.colour |-> l]
  /\ es = <<>> /\ set = <<>> /\ sets = {} /\ c = NoLine

Loop ==
  /\ pc = "loop"
  /\ pc' = IF lines = <<>> \/ fail > machine.maxFail THEN "done" ELSE "expand"
  /\ UNCHANGED <<machine, c, sets, fail, pass, lines, es, set, i>>

\* vl_poprand, and the test of the line drawn.
Expand ==
  /\ pc = "expand"
  /\ \E k \in DOMAIN lines, evicted \in BOOLEAN :
       /\ evicted \in CheckEvict(es, lines[k])
       /\ lines' = VlDel(lines, k)
       /\ IF evicted
          THEN /\ c' = lines[k] /\ pc' = "contract"
               /\ i' = 1 /\ pass' = machine.contractions
               /\ UNCHANGED es
          ELSE es' = Append(es, lines[k]) /\ UNCHANGED <<pc, c, i, pass>>
  /\ UNCHANGED <<machine, sets, fail, set>>

ExpandFails ==
  /\ pc = "expand" /\ lines = <<>>
  /\ lines' = VlDrain(es, lines) /\ es' = <<>>
  /\ fail' = fail + 1 /\ pc' = "loop"
  /\ UNCHANGED <<machine, c, sets, pass, set, i>>

\* Mutant: the index moves on although the deletion has filled the hole.
ContractSkips ==
  /\ pc = "contract" /\ i <= Len(es)
  /\ \E evicted \in CheckEvict(VlDel(es, i), c) :
       IF evicted
       THEN /\ es' = VlDel(es, i) /\ lines' = Append(lines, es[i])
            /\ i' = i + 1
       ELSE es' = VlInsert(VlDel(es, i), i, es[i]) /\ i' = i + 1
            /\ UNCHANGED lines
  /\ UNCHANGED <<machine, pc, c, sets, fail, pass, set>>

Contract ==
  /\ pc = "contract" /\ i <= Len(es)
  /\ \E evicted \in CheckEvict(VlDel(es, i), c) :
       IF evicted
       THEN es' = VlDel(es, i) /\ lines' = Append(lines, es[i]) /\ UNCHANGED i
       ELSE /\ es' = VlInsert(VlDel(es, i), i, es[i]) /\ i' = i + 1
            /\ UNCHANGED lines
  /\ UNCHANGED <<machine, pc, c, sets, fail, pass, set>>

ContractPass ==
  /\ pc = "contract" /\ i > Len(es)
  /\ pass' = pass - 1
  /\ IF pass' > 0 THEN i' = 1 /\ UNCHANGED pc
                  ELSE i' = 0 /\ pc' = "check"
  /\ UNCHANGED <<machine, c, sets, fail, lines, es, set>>

BadSize == Len(es) > Assoc \/ Len(es) + Slack < Assoc

Reject ==
  /\ pc = "check" /\ BadSize
  /\ lines' = VlDrain(es, IF machine.giveBack THEN Append(lines, c) ELSE lines)
  /\ es' = <<>> /\ c' = NoLine
  /\ fail' = fail + 1 /\ pc' = "loop"
  /\ UNCHANGED <<machine, sets, pass, set, i>>

Accept ==
  /\ pc = "check" /\ ~BadSize
  /\ fail' = 0 /\ set' = <<c>> /\ c' = NoLine
  /\ i' = Len(lines) /\ pass' = machine.collections
  /\ pc' = "collect"
  /\ UNCHANGED <<machine, sets, lines, es>>

\* The loop runs downwards: it pushes what it keeps behind the index.
Collect ==
  /\ pc = "collect" /\ i > 0
  /\ \E evicted \in CheckEvict(es, lines[i]) :
       IF evicted
       THEN lines' = VlDel(lines, i) /\ set' = Append(set, lines[i])
       ELSE lines' = Append(VlDel(lines, i), lines[i]) /\ UNCHANGED set
  /\ i' = i - 1
  /\ UNCHANGED <<machine, pc, c, sets, fail, pass, es>>

\* while (vl_len(es) < associativity && vl_len(set) > 0) move one line
Refill ==
  /\ pc = "collect" /\ i = 0 /\ pass = machine.collections /\ pass > 1
  /\ LET n == IF Len(es) >= Assoc THEN 0
              ELSE IF Assoc - Len(es) < Len(set) THEN Assoc - Len(es)
              ELSE Len(set)
     IN  /\ es' = es \o Reverse(SubSeq(set, Len(set) - n + 1, Len(set)))
         /\ set' = SubSeq(set, 1, Len(set) - n)
  /\ i' = Len(lines) /\ pass' = pass - 1
  /\ UNCHANGED <<machine, pc, c, sets, fail, lines>>

CollectPass ==
  /\ pc = "collect" /\ i = 0 /\ pass < machine.collections /\ pass > 1
  /\ i' = Len(lines) /\ pass' = pass - 1
  /\ UNCHANGED <<machine, pc, c, sets, fail, lines, es, set>>

Finish ==
  /\ pc = "collect" /\ i = 0 /\ pass = 1
  /\ sets' = sets \cup {ToSet(VlDrain(es, set))}
  /\ set' = <<>> /\ es' = <<>>
  /\ pc' = "loop" /\ pass' = 0
  /\ UNCHANGED <<machine, c, fail, lines, i>>

Next ==
  \/ Loop \/ Expand \/ ExpandFails
  \/ Contract \/ ContractPass \/ Reject \/ Accept
  \/ Collect \/ Refill \/ CollectPass \/ Finish

Spec == Init /\ [][Next]_vars
FairSpec == Spec /\ WF_vars(Next)

-----------------------------------------------------------------------------
\* What the current pass has still to test: the lists from index i on when
\* contract walks up, the lists up to i when collect walks down.
Untested ==
  IF pc = "contract" THEN {es[k] : k \in i..Len(es)}
  ELSE IF pc = "collect" THEN {lines[k] : k \in 1..i}
  ELSE {}

CacheMap == INSTANCE CacheMap WITH
  lines <- ToSet(lines), es <- ToSet(es), set <- ToSet(set), todo <- Untested

\* The index loops over lists that change under them test every element
\* exactly once: each step of the lists is a step of the sets, and the search
\* goes on as long as that of the sets does.
ImplementsCacheMap == CacheMap!FairSpec

\* No line is in a list twice, which the sets of CacheMap could not tell.
NoDuplicates ==
  \A v \in {lines, es, set} : \A j, k \in DOMAIN v : v[j] = v[k] => j = k
=============================================================================
