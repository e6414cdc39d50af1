------------------------------- MODULE CacheMap -------------------------------
(***************************************************************************)
(* The search for the sets of the last-level cache: cm_linelist (x86) and  *)
(* map (ARM) sort lines into groups that evict each other, with nothing    *)
(* but a timing test, checkevict.  A step is one call of checkevict, or    *)
(* the code between two calls.                                             *)
(*                                                                         *)
(* The lists of the code are sets here: expand draws from its list at      *)
(* random, and the loops of contract and collect, which delete by moving   *)
(* the last element, visit every element once.                             *)
(***************************************************************************)
EXTENDS Naturals, FiniteSets

CONSTANTS
  Machines, \* the platforms and buffers: records [colour, contractions,
            \* collections, giveBack, maxFail, noise]
  Assoc,    \* L3_ASSOCIATIVITY
  Slack,    \* the 3 of L3_ASSOCIATIVITY - 3
  NoLine    \* NULL

ASSUME CacheMapAssumption ==
  /\ Assoc \in Nat \ {0} /\ Slack \in 0..Assoc
  /\ \A m \in Machines :
       /\ IsFiniteSet(DOMAIN m.colour) \* colour[l]: the set line l falls into
       /\ m.contractions \in Nat \ {0} \* passes of contract: 3, ARM 5
       /\ m.collections \in Nat \ {0}  \* passes of collect: 1, ARM 3
       /\ m.giveBack \in BOOLEAN       \* is c kept when a contraction fails?
       /\ m.maxFail \in Nat            \* 5, ARM 8
       /\ m.noise \in BOOLEAN          \* may the timing test be wrong?
       /\ NoLine \notin DOMAIN m.colour

VARIABLES
  machine, \* the member of Machines the program runs on
  pc,
  lines, \* lines not mapped yet
  es,    \* the eviction set under construction
  c,     \* the line es evicts
  set,   \* lines found to collide with es
  sets,  \* the sets found
  fail,  \* failures since the last success
  todo,  \* lines the current pass of contract or collect has still to test
  pass   \* passes left

vars == <<machine, pc, lines, es, c, set, sets, fail, todo, pass>>

Colour == machine.colour
Line == DOMAIN Colour

TypeOK ==
  /\ machine \in Machines
  /\ pc \in {"loop", "expand", "contract", "check", "collect",
             "done"}
  /\ lines \subseteq Line /\ es \subseteq Line /\ set \subseteq Line
  /\ c \in Line \cup {NoLine}
  /\ sets \subseteq SUBSET Line
  /\ fail \in 0..(machine.maxFail + 1)
  /\ todo \subseteq lines \cup es
  /\ pass \in 0..machine.contractions + machine.collections

Init ==
  /\ machine \in Machines
  /\ pc = "loop"
  /\ lines = Line /\ es = {} /\ c = NoLine /\ set = {} /\ sets = {}
  /\ fail = 0 /\ todo = {} /\ pass = 0

\* checkevict: the outcomes of walking s and timing l.
CheckEvict(s, l) ==
  IF s = {} THEN {FALSE}
  ELSE IF machine.noise THEN BOOLEAN
  ELSE {Cardinality({x \in s : Colour[x] = Colour[l]}) >= Assoc}

-----------------------------------------------------------------------------
Loop ==
  /\ pc = "loop"
  /\ pc' = IF lines = {} \/ fail > machine.maxFail THEN "done" ELSE "expand"
  /\ UNCHANGED <<machine, lines, es, c, set, sets, fail, todo, pass>>

Expand ==
  /\ pc = "expand"
  /\ \E current \in lines :
       /\ lines' = lines \ {current}
       /\ \E evicted \in CheckEvict(es, current) :
            IF evicted
            THEN /\ c' = current /\ pc' = "contract"
                 /\ todo' = es /\ pass' = machine.contractions
                 /\ UNCHANGED es
            ELSE es' = es \cup {current} /\ UNCHANGED <<pc, c, todo, pass>>
  /\ UNCHANGED <<machine, set, sets, fail>>

\* Mutant: the failure is not counted.
ExpandFailsUncounted ==
  /\ pc = "expand" /\ lines = {}
  /\ lines' = es /\ es' = {}
  /\ pc' = "loop"
  /\ UNCHANGED <<machine, c, set, sets, fail, todo, pass>>

\* expand returns NULL.
ExpandFails ==
  /\ pc = "expand" /\ lines = {}
  /\ lines' = es /\ es' = {}
  /\ fail' = fail + 1
  /\ pc' = "loop"
  /\ UNCHANGED <<machine, c, set, sets, todo, pass>>

\* Mutant: a line is dropped without a test.
ContractDrops ==
  /\ pc = "contract"
  /\ \E cand \in todo :
       /\ todo' = todo \ {cand}
       /\ es' = es \ {cand} /\ lines' = lines \cup {cand}
  /\ UNCHANGED <<machine, pc, c, set, sets, fail, pass>>

\* A line that es evicts c without goes back to the lines.
Contract ==
  /\ pc = "contract"
  /\ \E cand \in todo :
       /\ todo' = todo \ {cand}
       /\ \E evicted \in CheckEvict(es \ {cand}, c) :
            IF evicted THEN es' = es \ {cand} /\ lines' = lines \cup {cand}
                       ELSE UNCHANGED <<es, lines>>
  /\ UNCHANGED <<machine, pc, c, set, sets, fail, pass>>

ContractPass ==
  /\ pc = "contract" /\ todo = {}
  /\ pass' = pass - 1
  /\ IF pass' > 0 THEN todo' = es /\ UNCHANGED pc
                  ELSE pc' = "check" /\ UNCHANGED todo
  /\ UNCHANGED <<machine, lines, es, c, set, sets, fail>>

BadSize == Cardinality(es) > Assoc \/ Cardinality(es) + Slack < Assoc

\* Mutant (of the ARM version): c is not given back.
RejectDrops ==
  /\ pc = "check" /\ BadSize
  /\ lines' = lines \cup es
  /\ es' = {} /\ c' = NoLine
  /\ fail' = fail + 1
  /\ pc' = "loop"
  /\ UNCHANGED <<machine, set, sets, todo, pass>>

Reject ==
  /\ pc = "check" /\ BadSize
  /\ lines' = lines \cup es \cup (IF machine.giveBack THEN {c} ELSE {})
  /\ es' = {} /\ c' = NoLine
  /\ fail' = fail + 1
  /\ pc' = "loop"
  /\ UNCHANGED <<machine, set, sets, todo, pass>>

Accept ==
  /\ pc = "check" /\ ~BadSize
  /\ fail' = 0
  /\ set' = {c} /\ c' = NoLine
  /\ todo' = lines /\ pass' = machine.collections
  /\ pc' = "collect"
  /\ UNCHANGED <<machine, lines, es, sets>>

Collect ==
  /\ pc = "collect"
  /\ \E p \in todo :
       /\ todo' = todo \ {p}
       /\ \E evicted \in CheckEvict(es, p) :
            IF evicted THEN lines' = lines \ {p} /\ set' = set \cup {p}
                       ELSE UNCHANGED <<lines, set>>
  /\ UNCHANGED <<machine, pc, es, c, sets, fail, pass>>

\* ARM, after the first of its passes: es is filled up from the lines found.
Refill ==
  /\ pc = "collect" /\ todo = {} /\ pass = machine.collections /\ pass > 1
  /\ \E s \in SUBSET set :
       /\ \/ Cardinality(s) + Cardinality(es) = Assoc
          \/ s = {} /\ Cardinality(es) >= Assoc
          \/ s = set /\ Cardinality(s) + Cardinality(es) < Assoc
       /\ es' = es \cup s /\ set' = set \ s
  /\ todo' = lines /\ pass' = pass - 1
  /\ UNCHANGED <<machine, pc, lines, c, sets, fail>>

CollectPass ==
  /\ pc = "collect" /\ todo = {} /\ pass < machine.collections /\ pass > 1
  /\ todo' = lines /\ pass' = pass - 1
  /\ UNCHANGED <<machine, pc, lines, es, c, set, sets, fail>>

\* Mutant: the eviction set itself is left out of the set.
FinishWithout ==
  /\ pc = "collect" /\ todo = {} /\ pass = 1
  /\ sets' = sets \cup {set}
  /\ set' = {} /\ es' = {}
  /\ pc' = "loop" /\ pass' = 0
  /\ UNCHANGED <<machine, lines, c, fail, todo>>

Finish ==
  /\ pc = "collect" /\ todo = {} /\ pass = 1
  /\ sets' = sets \cup {set \cup es}
  /\ set' = {} /\ es' = {}
  /\ pc' = "loop" /\ pass' = 0
  /\ UNCHANGED <<machine, lines, c, fail, todo>>

Next ==
  \/ Loop \/ Expand \/ ExpandFails
  \/ Contract \/ ContractPass \/ Reject \/ Accept
  \/ Collect \/ Refill \/ CollectPass \/ Finish

Spec == Init /\ [][Next]_vars

\* A sequential program, whose loops are bounded.
FairSpec == Spec /\ WF_vars(Next)

-----------------------------------------------------------------------------
\* How often a line is held: among the lines not mapped yet, in a list under
\* test, or in a set found.
Held == <<lines, es, set, {c}>>
Copies(l) ==
  Cardinality({k \in DOMAIN Held : l \in Held[k]})
    + Cardinality({s \in sets : l \in s})

\* Whatever the timing test says, no line is lost and none is held twice
\* ("%d sets, %d unloved").
NoLineLost == \A l \in Line : Copies(l) = 1

\* The same for the machines that give c back or have no noise.
KeepsLines == machine.giveBack \/ ~machine.noise => NoLineLost

Colours == {{l \in Line : Colour[l] = k} : k \in {Colour[l] : l \in Line}}

\* With a reliable timing test the map is exact: its sets are the cache sets
\* for which there are more lines than ways, each with all its lines.
MapIsExact ==
  pc = "done" /\ ~machine.noise =>
    sets = {k \in Colours : Cardinality(k) > Assoc}

\* With a reliable timing test, the passes over es are enough: what is left
\* are as many lines of the colour of c as the cache has ways.
Minimal ==
  pc = "check" /\ ~machine.noise =>
    Cardinality(es) = Assoc /\ \A l \in es : Colour[l] = Colour[c]

\* The search ends, however often the timing test is wrong.
Terminates == <>(pc = "done")
=============================================================================
