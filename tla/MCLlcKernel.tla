----------------------------- MODULE MCLlcKernel -----------------------------
(***************************************************************************)
(* LlcKernel with two system calls whose kernel footprints overlap.        *)
(***************************************************************************)
EXTENDS LlcKernel

CONSTANTS signal, poll
MCApi == {signal, poll}
MCFoot == [a \in MCApi |-> IF a = signal THEN {1, 2} ELSE {2, 3, 4}]
=============================================================================
