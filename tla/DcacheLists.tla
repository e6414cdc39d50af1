------------------------------ MODULE DcacheLists ------------------------------
(***************************************************************************)
(* The prime and probe buffer of dcache.c.  Every line of the buffer holds *)
(* a node; the nodes of a set form a doubly linked list in random order.   *)
(* Priming walks each list forward and leaves it at its tail, probing      *)
(* walks it backward and leaves it at its head, where it also stores the   *)
(* time; next_set of a tail leads to a head, next_set of a head to a tail. *)
(* record walks like the probe and adds the times to the table of each     *)
(* byte of the message.                                                    *)
(*                                                                         *)
(* The encryption between priming and probing evicts any lines.  The time  *)
(* of a set is the number of its lines that are not cached.                *)
(***************************************************************************)
EXTENDS Integers, FiniteSets

CONSTANTS
  DcSets, DcWays,  \* N_L1D_SETS, N_L1D_WAYS
  AES_MSG_SIZE,
  PlainBytes,      \* values of a byte of the message
  N_D_TESTS,       \* encryptions
  Patterns,        \* the sets of lines an encryption may evict
  NIL

DcLine == (0..(DcSets - 1)) \X (0..(DcWays - 1))

ASSUME DcacheAssumption ==
  /\ DcSets \in Nat \ {0} /\ DcWays \in Nat \ {0, 1}
  /\ AES_MSG_SIZE \in Nat /\ N_D_TESTS \in Nat \ {0} /\ PlainBytes # {}
  /\ Patterns \subseteq SUBSET DcLine
  /\ NIL \notin DcLine

Byte == 1..AES_MSG_SIZE

VARIABLES
  dcPc,      \* "init", "prime", "probe", "record", "end"
  node,      \* node[l]: the fields of the line
  set0,      \* set0.head, set0.tail
  bit_mask,  \* ways of the current set that are connected
  setHead, setTail, \* set_h and set_t: of the current set
  prevHead, prevTail, \* p_set_h and p_set_t: of the set before
  l,         \* the line a walk stands at, or NIL at its end
  s,         \* the set, in buffer_init and record
  elapsed_s, \* the misses of the walk so far
  byte,      \* record's loop over the message
  text,      \* p_text
  cached,    \* the lines in the cache
  table,     \* msg_time: table[i][p][s]
  tests,     \* encryptions so far
  evictions  \* history variable: what table should hold

dcacheVars ==
  <<dcPc, node, set0, bit_mask, setHead, setTail, prevHead, prevTail, l, s,
    elapsed_s, byte, text, cached, table, tests, evictions>>
initVars == <<set0, bit_mask, setHead, setTail, prevHead, prevTail>>

Zero == [k \in Byte |-> [p \in PlainBytes |-> [x \in 0..(DcSets - 1) |-> 0]]]
Pointer == DcLine \cup {NIL}

DcacheTypeOK ==
  /\ dcPc \in {"init", "prime", "probe", "record", "end"}
  /\ \A x \in DcLine : /\ {node[x].prev, node[x].next, node[x].next_set} \subseteq Pointer
                       /\ node[x].time \in 0..DcWays
  /\ {set0.head, set0.tail, setHead, setTail, prevHead, prevTail, l} \subseteq Pointer
  /\ bit_mask \subseteq 0..(DcWays - 1)
  /\ s \in 0..DcSets /\ elapsed_s \in 0..DcWays
  /\ byte \in 1..(AES_MSG_SIZE + 1) /\ tests \in 0..N_D_TESTS
  /\ text \in [Byte -> PlainBytes] /\ cached \subseteq DcLine

DcacheInit ==
  /\ dcPc = "init"
  /\ node = [x \in DcLine |-> [prev |-> NIL, next |-> NIL, next_set |-> NIL, time |-> 0]]
  /\ set0 = [head |-> NIL, tail |-> NIL]
  /\ bit_mask = {} /\ setHead = NIL /\ setTail = NIL
  /\ prevHead = NIL /\ prevTail = NIL
  /\ l = NIL /\ s = 0 /\ elapsed_s = 0 /\ byte = 1
  /\ text = [k \in Byte |-> CHOOSE p \in PlainBytes : TRUE]
  /\ cached = {} /\ table = Zero /\ tests = 0 /\ evictions = Zero

-----------------------------------------------------------------------------
(* buffer_init *)

\* rand() has come upon a way that is not connected yet.
ConnectWay ==
  /\ dcPc = "init" /\ s < DcSets /\ bit_mask # 0..(DcWays - 1)
  /\ \E w \in (0..(DcWays - 1)) \ bit_mask :
       /\ node' = [x \in DcLine |->
            IF x = <<s, w>> THEN [node[x] EXCEPT !.prev = l]
            ELSE IF x = l THEN [node[x] EXCEPT !.next = <<s, w>>] ELSE node[x]]
       /\ bit_mask' = bit_mask \cup {w}
       /\ setHead' = IF bit_mask = {} THEN <<s, w>> ELSE setHead
       /\ setTail' = IF bit_mask' = 0..(DcWays - 1) THEN <<s, w>> ELSE setTail
       /\ l' = <<s, w>>
  /\ UNCHANGED <<dcPc, set0, prevHead, prevTail, s, elapsed_s, byte, text,
                 cached, table, tests, evictions>>

\* Mutant: heads lead to heads and tails to tails.
CrossStraight ==
  [node EXCEPT ![prevHead].next_set = setHead, ![prevTail].next_set = setTail]

\* "reversing connection, see fig 7"
Cross ==
  [node EXCEPT ![prevHead].next_set = setTail, ![prevTail].next_set = setHead]

ConnectSet ==
  /\ dcPc = "init" /\ s < DcSets /\ bit_mask = 0..(DcWays - 1)
  /\ IF s = 0
     THEN set0' = [head |-> setHead, tail |-> setTail] /\ UNCHANGED node
     ELSE node' = Cross /\ UNCHANGED set0
  /\ prevHead' = setHead /\ prevTail' = setTail
  /\ bit_mask' = {} /\ l' = NIL /\ s' = s + 1
  /\ UNCHANGED <<dcPc, setHead, setTail, elapsed_s, byte, text, cached, table,
                 tests, evictions>>

-----------------------------------------------------------------------------
(* dcache_attack *)

BeginPrime ==
  /\ dcPc = "init" /\ s = DcSets
  /\ dcPc' = "prime" /\ l' = set0.head /\ s' = 0
  /\ UNCHANGED <<initVars, node, elapsed_s, byte, text, cached, table, tests,
                 evictions>>

\* The loads of one line, and the way on from it.
PrimeLine ==
  /\ dcPc = "prime" /\ l # NIL
  /\ cached' = cached \cup {l}
  /\ l' = IF node[l].next # NIL THEN node[l].next ELSE node[l].next_set
  /\ UNCHANGED <<initVars, dcPc, node, s, elapsed_s, byte, text, table, tests,
                 evictions>>

\* encry: a message, and the lines its encryption evicts.
Encrypt ==
  /\ dcPc = "prime" /\ l = NIL
  /\ text' \in [Byte -> PlainBytes]
  /\ \E out \in Patterns :
       /\ cached' = cached \ out
       /\ evictions' = [k \in Byte |-> [p \in PlainBytes |->
            [x \in 0..(DcSets - 1) |->
               evictions[k][p][x] + IF p = text'[k]
                                    THEN Cardinality({a \in out : a[1] = x})
                                    ELSE 0]]]
  /\ dcPc' = "probe" /\ l' = set0.tail /\ elapsed_s' = 0
  /\ UNCHANGED <<initVars, node, s, byte, table, tests>>

\* Mutant: all times go to one line.
TimedLineFirst == set0.head

\* The line that is visited last holds the time.
TimedLine == l

\* Walking back along a list; at its head the time is stored, next to the
\* links ("record the time in the set, not polluting cache").
ProbeLine ==
  /\ dcPc = "probe" /\ l # NIL
  /\ cached' = cached \cup {l}
  /\ LET t == elapsed_s + IF l \in cached THEN 0 ELSE 1
     IN  IF node[l].prev # NIL
         THEN /\ elapsed_s' = t /\ l' = node[l].prev /\ UNCHANGED node
         ELSE /\ elapsed_s' = 0 /\ l' = node[l].next_set
              /\ node' = [node EXCEPT ![TimedLine].time = t]
  /\ UNCHANGED <<initVars, dcPc, s, byte, text, table, tests, evictions>>

BeginRecord ==
  /\ dcPc = "probe" /\ l = NIL
  /\ dcPc' = "record" /\ byte' = 1 /\ s' = 0 /\ l' = set0.tail
  /\ UNCHANGED <<initVars, node, elapsed_s, text, cached, table, tests, evictions>>

RecordLine ==
  /\ dcPc = "record" /\ byte <= AES_MSG_SIZE /\ s < DcSets
  /\ IF node[l].prev # NIL
     THEN l' = node[l].prev /\ UNCHANGED <<table, s>>
     ELSE /\ table' = [table EXCEPT ![byte][text[byte]][s] = @ + node[l].time]
          /\ l' = node[l].next_set /\ s' = s + 1
  /\ UNCHANGED <<initVars, dcPc, node, elapsed_s, byte, text, cached, tests, evictions>>

RecordByte ==
  /\ dcPc = "record" /\ byte <= AES_MSG_SIZE /\ s = DcSets
  /\ byte' = byte + 1 /\ s' = 0 /\ l' = set0.tail
  /\ UNCHANGED <<initVars, dcPc, node, elapsed_s, text, cached, table, tests, evictions>>

EndRun ==
  /\ dcPc = "record" /\ byte > AES_MSG_SIZE
  /\ tests' = tests + 1
  /\ byte' = 1
  /\ IF tests' < N_D_TESTS THEN dcPc' = "prime" /\ l' = set0.head
                           ELSE dcPc' = "end" /\ UNCHANGED l
  /\ UNCHANGED <<initVars, node, s, elapsed_s, text, cached, table, evictions>>

DcacheNext ==
  \/ ConnectWay \/ ConnectSet \/ BeginPrime \/ PrimeLine \/ Encrypt
  \/ ProbeLine \/ BeginRecord \/ RecordLine \/ RecordByte \/ EndRun

-----------------------------------------------------------------------------
\* Whatever the order of the lists: the encryption starts with the whole
\* buffer in the cache, and after each test the table of each byte of the
\* message holds, for each value and set, the evictions under that value.
TableExact ==
  /\ dcPc = "record" \/ (dcPc = "prime" /\ l = NIL) => cached = DcLine
  /\ dcPc = "end" \/ (dcPc = "record" /\ byte > AES_MSG_SIZE)
       => table = evictions
=============================================================================
