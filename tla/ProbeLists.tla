------------------------------ MODULE ProbeLists ------------------------------
(***************************************************************************)
(* The probe buffers: which cache sets a thread monitors, and the linked   *)
(* lists through the buffer that a probe walks.                            *)
(*                                                                         *)
(*   L1   one ring through all monitored sets, relinked whenever the       *)
(*        monitored sets or their order change (l1.c);                     *)
(*   L1I  one chain of jumps per set, entered through an array (l1i.c);    *)
(*   L3   one ring per set, entered through an array of heads (l3_arm.c).  *)
(*                                                                         *)
(* Links live in the buffer itself: word 0 of a line holds the forward     *)
(* link, word 1 the backward link, and a probe that walks word w also      *)
(* writes the line, two words further.                                     *)
(***************************************************************************)
EXTENDS Integers, FiniteSets, SequencesExt

CONSTANTS
  Buffers, \* the kinds of buffer: a subset of {"L1", "L1I", "L3"}
  NSets,   \* L1_SETS, L1I_SETS, ngroups * groupsize
  NWays,   \* the associativity
  NULL,    \* also stands for the return instruction at the end of a chain
  Data     \* what a probe writes

Set == 0..(NSets - 1)
Way == 0..(NWays - 1)
Fwd == 0
Bkw == 1
Addr == Set \X Way \X (0..3)
Line(a) == <<a[1], a[2]>>

ASSUME ProbeListsAssumption ==
  /\ Buffers \subseteq {"L1", "L1I", "L3"}
  /\ NSets \in Nat \ {0} /\ NWays \in Nat \ {0}
  /\ NULL \notin Addr

VARIABLES
  buffer,
  pc,
  mem,       \* the words of the buffer
  mask,      \* monitored_sets, monitoredbitmap
  monitored, \* monitored[0..nsets-1], monitoredset[0..nmonitored-1]
  heads,     \* monitoredhead (L3)
  list,      \* list[Fwd], list[Bkw]: fwdlist and bkwlist (L1)
  i,         \* the index of the loop being run
  dir,       \* is the probe the forward or the backward one?
  head, p,   \* pp and p of the walk
  left,      \* lines left in the segment (L1)
  touched    \* touched[k]: the lines whose accesses went into results[k]

listVars == <<mem, mask, monitored, heads, list>>
walkVars == <<dir, head, p, left, touched>>
vars == <<buffer, pc, listVars, i, walkVars>>

TypeOK ==
  /\ buffer \in Buffers
  /\ pc \in {"ready", "shuffle", "link", "probe", "walk"}
  /\ mem \in [Addr -> Addr \cup {NULL, Data}]
  /\ mask \subseteq Set
  /\ Len(monitored) <= NSets /\ ToSet(monitored) \subseteq Set
  /\ ToSet(heads) \subseteq Addr
  /\ list \in [{Fwd, Bkw} -> Addr \cup {NULL}]
  /\ i \in 1..(NSets + 1)
  /\ dir \in {Fwd, Bkw}
  /\ {head, p} \subseteq Addr \cup {NULL}
  /\ left \in 0..NWays
  /\ Len(touched) = Len(monitored) \/ touched = <<>>

-----------------------------------------------------------------------------
\* The links l1_prepare and l1i_prepare make inside each set.
Prepared(a) ==
  CASE a[3] = Fwd /\ a[2] < NWays - 1 /\ buffer # "L3" -> <<a[1], a[2] + 1, Fwd>>
    [] a[3] = Bkw /\ a[2] > 0 /\ buffer = "L1"         -> <<a[1], a[2] - 1, Bkw>>
    [] a[3] > Bkw                                      -> Data
    [] OTHER                                           -> NULL

\* The sets of a mask in the order of its bits.
Ascending(m) ==
  CHOOSE s \in [1..Cardinality(m) -> m] :
    \A j, k \in DOMAIN s : j < k => s[j] < s[k]

\* An L1 buffer needs a set: l1_randomise links monitored[nsets - 1].
Masks == IF buffer = "L1" THEN (SUBSET Set) \ {{}} ELSE SUBSET Set

Init ==
  /\ buffer \in Buffers
  /\ mem = [a \in Addr |-> Prepared(a)]
  /\ mask = (IF buffer = "L3" THEN {} ELSE Set)
  /\ monitored = Ascending(mask)
  /\ pc = (IF buffer = "L3" THEN "ready" ELSE "shuffle")
  /\ heads = <<>> /\ list = [d \in {Fwd, Bkw} |-> NULL]
  /\ i = 1
  /\ dir = Fwd /\ head = NULL /\ p = NULL /\ left = 0 /\ touched = <<>>

-----------------------------------------------------------------------------
(* l1_set_monitored_set, l1i_set_monitored_set, and the randomisation *)

SetMonitored ==
  /\ pc = "ready" /\ buffer # "L3"
  /\ mask' \in Masks
  /\ monitored' = Ascending(mask')
  /\ pc' = "shuffle" /\ i' = 1 /\ touched' = <<>>
  /\ UNCHANGED <<buffer, mem, heads, list, dir, head, p, left>>

Randomise ==
  /\ pc = "ready" /\ buffer # "L1I"
  /\ pc' = "shuffle" /\ i' = 1 /\ touched' = <<>>
  /\ UNCHANGED <<buffer, listVars, dir, head, p, left>>

Swap(s, j, k) == [s EXCEPT ![j] = s[k], ![k] = s[j]]

Shuffle ==
  /\ pc = "shuffle" /\ i <= Len(monitored)
  /\ \E k \in i..Len(monitored) :
       /\ monitored' = Swap(monitored, i, k)
       /\ heads' = IF buffer = "L3" THEN Swap(heads, i, k) ELSE heads
  /\ i' = i + 1
  /\ UNCHANGED <<buffer, pc, mem, mask, list, walkVars>>

ShuffleDone ==
  /\ pc = "shuffle" /\ i > Len(monitored)
  /\ pc' = (IF buffer = "L1" THEN "link" ELSE "ready") /\ i' = 1
  /\ UNCHANGED <<buffer, listVars, walkVars>>

\* Mutant: the backward list enters the next set at its first way.
LinkSetEntersFront(s, t) ==
  [mem EXCEPT ![<<s, NWays - 1, Fwd>>] = <<t, 0, Fwd>>,
              ![<<s, 0, Bkw>>] = <<t, 0, Bkw>>]

\* From the last way of set s to the first of set t, and backwards.
LinkSet(s, t) ==
  [mem EXCEPT ![<<s, NWays - 1, Fwd>>] = <<t, 0, Fwd>>,
              ![<<s, 0, Bkw>>] = <<t, NWays - 1, Bkw>>]

Link ==
  /\ pc = "link" /\ i < Len(monitored)
  /\ mem' = LinkSet(monitored[i], monitored[i + 1])
  /\ i' = i + 1
  /\ UNCHANGED <<buffer, pc, mask, monitored, heads, list, walkVars>>

\* Mutant: the backward list starts one way behind the last.
CloseRingBehind ==
  /\ pc = "link" /\ i = Len(monitored)
  /\ mem' = LinkSet(monitored[i], monitored[1])
  /\ list' = [list EXCEPT ![Fwd] = <<monitored[1], 0, Fwd>>,
                          ![Bkw] = <<monitored[1], NWays, Bkw>>]
  /\ pc' = "ready" /\ i' = 1
  /\ UNCHANGED <<buffer, mask, monitored, heads, walkVars>>

CloseRing ==
  /\ pc = "link" /\ i = Len(monitored)
  /\ mem' = LinkSet(monitored[i], monitored[1])
  /\ list' = [list EXCEPT ![Fwd] = <<monitored[1], 0, Fwd>>,
                          ![Bkw] = <<monitored[1], NWays - 1, Bkw>>]
  /\ pc' = "ready" /\ i' = 1
  /\ UNCHANGED <<buffer, mask, monitored, heads, walkVars>>

-----------------------------------------------------------------------------
(* l3_monitor, l3_unmonitor, l3_unmonitorall *)

SetHead(s) ==
  [a \in Addr |->
     IF a[1] # s \/ a[3] > Bkw THEN mem[a]
     ELSE IF a[3] = Fwd THEN <<s, (a[2] + 1) % NWays, Fwd>>
     ELSE <<s, (a[2] + NWays - 1) % NWays, Bkw>>]

Monitor ==
  /\ pc = "ready" /\ buffer = "L3"
  /\ \E s \in Set \ mask :
       /\ mask' = mask \cup {s}
       /\ monitored' = Append(monitored, s)
       /\ heads' = Append(heads, <<s, 0, Fwd>>)
       /\ mem' = SetHead(s)
  /\ touched' = <<>>
  /\ UNCHANGED <<buffer, pc, list, i, dir, head, p, left>>

\* s without its k-th element, whose place the last element takes.
FillWithLast(s, k) == [j \in 1..(Len(s) - 1) |-> IF j = k THEN Last(s) ELSE s[j]]

\* Mutant: the head of the removed set is left in its place.
UnmonitorKeepsHead ==
  /\ pc = "ready" /\ buffer = "L3"
  /\ \E k \in DOMAIN monitored :
       /\ mask' = mask \ {monitored[k]}
       /\ monitored' = FillWithLast(monitored, k)
       /\ heads' = Front(heads)
  /\ touched' = <<>>
  /\ UNCHANGED <<buffer, pc, mem, list, i, dir, head, p, left>>

Unmonitor ==
  /\ pc = "ready" /\ buffer = "L3"
  /\ \E k \in DOMAIN monitored :
       /\ mask' = mask \ {monitored[k]}
       /\ monitored' = FillWithLast(monitored, k)
       /\ heads' = FillWithLast(heads, k)
  /\ touched' = <<>>
  /\ UNCHANGED <<buffer, pc, mem, list, i, dir, head, p, left>>

UnmonitorAll ==
  /\ pc = "ready" /\ buffer = "L3"
  /\ mask' = {} /\ monitored' = <<>> /\ heads' = <<>>
  /\ touched' = <<>>
  /\ UNCHANGED <<buffer, pc, mem, list, i, dir, head, p, left>>

-----------------------------------------------------------------------------
(* The probes *)

ProbeStart ==
  /\ pc = "ready"
  /\ dir' \in IF buffer = "L1I" THEN {Fwd} ELSE {Fwd, Bkw}
  /\ p' = IF buffer = "L1" THEN list[dir'] ELSE NULL
  /\ head' = p'
  /\ touched' = [k \in DOMAIN monitored |-> {}]
  /\ pc' = "probe" /\ i' = 1
  /\ UNCHANGED <<buffer, listVars, left>>

\* Mutant: the backward probe starts at the backward word but waits for the
\* forward one to come round.
SegmentHeadForward(k) == <<heads[k][1], heads[k][2], Fwd>>

\* The address at which the walk of segment k starts, and for L3 ends.
SegmentHead(k) == <<heads[k][1], heads[k][2], dir>>

Segment ==
  /\ pc = "probe" /\ i <= Len(monitored)
  /\ CASE buffer = "L1"  -> UNCHANGED <<head, p>> /\ left' = NWays
       [] buffer = "L1I" -> p' = <<monitored[i], 0, Fwd>> /\ UNCHANGED <<head, left>>
       [] buffer = "L3"  -> /\ p' = <<heads[i][1], heads[i][2], dir>>
                            /\ head' = SegmentHead(i) /\ UNCHANGED left
  /\ pc' = "walk"
  /\ UNCHANGED <<buffer, listVars, i, dir, touched>>

\* The word of the line that a probe standing at link a increments.
Written(a) == <<a[1], a[2], a[3] + 2>>

\* Is this the last access of the segment?
LastAccess(next) ==
  CASE buffer = "L1"  -> left = 1
    [] buffer = "L1I" -> next = NULL
    [] buffer = "L3"  -> next = head

Access ==
  /\ pc = "walk" /\ p \in Addr
  /\ mem' = IF buffer = "L1I" THEN mem ELSE [mem EXCEPT ![Written(p)] = Data]
  /\ p' = mem'[p]
  /\ touched' = [touched EXCEPT ![i] = @ \cup {Line(p)}]
  /\ left' = IF buffer = "L1" THEN left - 1 ELSE left
  /\ IF LastAccess(p') THEN pc' = "probe" /\ i' = i + 1 ELSE UNCHANGED <<pc, i>>
  /\ UNCHANGED <<buffer, mask, monitored, heads, list, dir, head>>

ProbeDone ==
  /\ pc = "probe" /\ i > Len(monitored)
  /\ pc' = "ready" /\ i' = 1
  /\ UNCHANGED <<buffer, listVars, walkVars>>

Probing == Segment \/ Access \/ ProbeDone

Next ==
  \/ SetMonitored \/ Randomise \/ Shuffle \/ ShuffleDone \/ Link \/ CloseRing
  \/ Monitor \/ Unmonitor \/ UnmonitorAll
  \/ ProbeStart \/ Probing

\* A probe, once called, runs; nothing makes a program call another operation.
Spec == Init /\ [][Next]_vars
FairSpec == Spec /\ WF_vars(Probing)

-----------------------------------------------------------------------------
(* Properties *)

\* Between two operations the mask and the array name the same sets, none
\* twice, and the heads of L3 stay next to the sets they belong to.
ListsAgree ==
  pc = "ready" =>
    /\ ToSet(monitored) = mask /\ IsInjective(monitored)
    /\ buffer = "L3" => heads = [k \in DOMAIN monitored |-> <<monitored[k], 0, Fwd>>]

\* The k-th time of a probe, in either direction, is the time of every way of
\* the k-th monitored set and of nothing else; the ring of L1 has come round
\* to its head, whatever links an earlier choice of sets has left behind.
ProbeExact ==
  pc = "ready" /\ touched # <<>> =>
    /\ \A k \in DOMAIN monitored : touched[k] = {monitored[k]} \X Way
    /\ buffer = "L1" => p = head

\* Every probe returns: no list of L3 misses its own head.
ProbeReturns == (pc = "probe") ~> (pc = "ready")
===============================================================================
