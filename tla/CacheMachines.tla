---------------------------- MODULE CacheMachines ----------------------------
(***************************************************************************)
(* The machines the search for cache sets is checked on: a quiet one with  *)
(* two full colours and one colour that has too few lines, and a noisy one *)
(* whose timing test may say anything; the bounds on passes and failures   *)
(* are those of the code where the machine is quiet.                       *)
(***************************************************************************)

Quiet == [colour |-> <<1, 1, 1, 2, 2, 2, 2, 3>>, noise |-> FALSE]
Noisy == [colour |-> <<1, 1, 1, 2, 2>>, noise |-> TRUE]
Small == [colour |-> <<1, 2, 1, 1>>, noise |-> FALSE]
SmallNoisy == [colour |-> <<1, 2, 1, 1>>, noise |-> TRUE]

X86(m, fails) ==
  [colour |-> m.colour, noise |-> m.noise, contractions |-> 3,
   collections |-> 1, giveBack |-> FALSE, maxFail |-> fails]
Arm(m, passes, fails) ==
  [colour |-> m.colour, noise |-> m.noise, contractions |-> passes,
   collections |-> 3, giveBack |-> TRUE, maxFail |-> fails]

AllMachines == {X86(Quiet, 5), Arm(Quiet, 5, 8), X86(Noisy, 2), Arm(Noisy, 2, 2)}
NoisyX86 == {X86(Noisy, 5)}
SmallMachines == {X86(Small, 5), Arm(Small, 5, 8), X86(SmallNoisy, 1),
                  Arm(SmallNoisy, 2, 1)}
=============================================================================
