----------------------------- MODULE MCAlgorithms -----------------------------
(***************************************************************************)
(* The sequential algorithms for TLC.  The x86 timing test has its own 16  *)
(* samples; that of ARM has a quarter of its 256.                          *)
(***************************************************************************)
EXTENDS Algorithms, MCKeySearch

\* The theorem about the search holds for this instance.
ASSUME TolerableHere == Tolerable

MCWalks == {[checkTimes |-> 16, percentile |-> 0],
            [checkTimes |-> 64, percentile |-> 90]}
MCStub == <<1, 2>>

\* Disjoint and overlapping footprints, equal ones, empty ones, one that
\* contains the others, and sets that the test itself evicts.
MCFootprints ==
  {[api |-> f, own |-> o] :
     f \in {<<{0}, {1}, {2}>>, <<{0, 1}, {1, 2}, {0, 2}>>,
            <<{0, 1, 2}, {0, 1, 2}, {0, 1, 2}>>, <<{}, {1, 2}, {1, 2}>>,
            <<{2}, {}, {2}>>, <<{1}, {0, 1, 2}, {0, 1, 2}>>},
     o \in {{}, {1}}}

\* The lists are in every order, so few patterns suffice: none, one line in
\* either set, two of one set and one of the other.
MCPatterns ==
  {{}, {<<0, 0>>}, {<<1, 2>>}, {<<0, 0>>, <<0, 1>>, <<1, 1>>}}
=============================================================================
