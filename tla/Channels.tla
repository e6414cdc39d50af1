------------------------------ MODULE Channels ------------------------------
(***************************************************************************)
(* The members of the channel family of module CovertChannel.  A channel   *)
(* is what distinguishes one trojan/spy pair from another: the protocol    *)
(* (the one of CovertChannel, of KdChannel or of ArmKernelChannel), the    *)
(* order of publishing and touching, the secrets the trojan draws, the     *)
(* units (cache sets, TLB pages, branch entries) a secret touches, the     *)
(* units the spy probes, and the content of the shared word at the start.  *)
(*                                                                         *)
(* Units stands for the size of the structure: 64 to 256 sets, 64 pages,   *)
(* 512 or 4096 branches in the source.                                     *)
(***************************************************************************)
EXTENDS Integers

CONSTANTS Units, Unset

ASSUME UnitsAssumption == Units \in Nat \ {0}

AllUnits == 0..(Units - 1)

\* Visit units 0 .. s-1 (l1d_data_access, tlb_access, monitored sets < s).
Prefix(s) == 0..(s - 1)
\* Jump into the chain of branches so that the last s of them execute.
Suffix(s) == (Units - s)..(Units - 1)

L1X86 ==
  [protocol |-> "single", order |-> "touchFirst", secrets |-> 0..Units,
   label |-> Unset, touch |-> [s \in 0..Units |-> Prefix(s)],
   probe |-> AllUnits]

\* The instruction cache of x86: a jump chain through the sets < secret.
L1IX86 == L1X86

L1Arm ==
  [protocol |-> "single", order |-> "touchFirst", secrets |-> 0..Units,
   label |-> 0, touch |-> [s \in 0..Units |-> Prefix(s)],
   probe |-> AllUnits]

\* The mask of monitored sets is built from four words of 64 bits.
L1IArm == L1Arm

\* The x86 TLB spy walks 32 of the 64 pages the trojan may walk.
TlbX86 ==
  [protocol |-> "single", order |-> "touchFirst", secrets |-> 0..Units,
   label |-> Unset, touch |-> [s \in 0..Units |-> Prefix(s)],
   probe |-> 0..(Units \div 2 - 1)]

\* TLB_PROBE_PAGES is half of TLB_ENTRIES on the ARM platforms too.
TlbArm == TlbX86

\* l3_trojan_single / l3_spy_single: the whole last-level cache on one core.
L3Arm == L1X86

\* The x86 BTB trojan draws from the upper end of the range only.
BtbX86 ==
  [protocol |-> "single", order |-> "touchFirst", secrets |-> (Units - 1)..Units,
   label |-> Unset, touch |-> [s \in (Units - 1)..Units |-> Suffix(s)],
   probe |-> AllUnits]

BtbArm ==
  [protocol |-> "single", order |-> "touchFirst", secrets |-> 0..Units,
   label |-> 0, touch |-> [s \in 0..Units |-> Suffix(s)],
   probe |-> AllUnits]

\* One branch, trained taken (1) or not taken (0).
BpX86 ==
  [protocol |-> "single", order |-> "publishFirst", secrets |-> {0, 1},
   label |-> Unset, touch |-> [s \in {0, 1} |-> Prefix(s)], probe |-> {0}]

BpArm ==
  [protocol |-> "single", order |-> "touchFirst", secrets |-> {0, 1},
   label |-> Unset, touch |-> [s \in {0, 1} |-> Prefix(s)], probe |-> {0}]

\* The kernel scheduling channel: the trojan's slice is what is measured.
Schedule == [L1X86 EXCEPT !.protocol = "schedule"]

\* The shared kernel image on ARM: nothing, or three system calls, whose
\* footprints together are the sets on the spy's three probe lists.
KernelArm ==
  [protocol |-> "kernel", order |-> "touchFirst", secrets |-> {0, 1},
   label |-> Unset, touch |-> [s \in {0, 1} |-> IF s = 0 THEN {} ELSE AllUnits],
   probe |-> AllUnits]

-----------------------------------------------------------------------------
\* The table of benchmark functions; an image is configured for one of them.
AllChannels == {L1X86, L1IX86, L1Arm, L1IArm, TlbX86, TlbArm, L3Arm, BtbX86,
                BtbArm, BpX86, BpArm, Schedule, KernelArm}
\* Part of it.
BranchPredictor == {BpX86}
=============================================================================
