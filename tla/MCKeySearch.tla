---------------------------- MODULE MCKeySearch ----------------------------
(***************************************************************************)
(* KeySearch with records of nine samples; the shortest that yields a key  *)
(* has a gap, a burst, and two bits of different lengths.                  *)
(***************************************************************************)
EXTENDS KeySearch

MCMask == <<".", "@", "@">>
MCKeyBits == 2..3
=============================================================================
