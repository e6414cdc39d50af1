------------------------------ MODULE SingleCore ------------------------------
(***************************************************************************)
(* Every covert channel between two threads of one core: the channels of   *)
(* one protocol (CovertChannel), the kernel scheduling channel (KdChannel) *)
(* and the ARM kernel image (ArmKernelChannel).  chan.protocol says which  *)
(* of them the image is configured for.                                    *)
(***************************************************************************)
EXTENDS KdChannel, ArmKernelChannel, FiniteSets

\* Only the channels of CovertChannel's protocol come in two orders.
ASSUME SingleAssumption ==
  \A c \in Family :
    /\ c.protocol \in {"single", "schedule", "kernel"}
    /\ c.order = "publishFirst" => c.protocol = "single"

SingleInit ==
  /\ \/ Init /\ chan.protocol = "single"
     \/ Init /\ chan.protocol = "schedule"
     \/ AkInit /\ chan.protocol = "kernel"
  /\ KdLocals

SingleNext ==
  \/ chan.protocol = "single" /\ Next /\ UNCHANGED kdVars
  \/ chan.protocol = "schedule" /\ KdNext
  \/ chan.protocol = "kernel" /\ AkNext /\ UNCHANGED kdVars

\* The steps that end a preparation of any, but finite length.
Prepared ==
  \/ chan.protocol = "schedule" /\ KdTrojan
  \/ chan.protocol = "kernel" /\ SpyAnnounce /\ UNCHANGED kdVars

SingleSpec == SingleInit /\ [][SingleNext]_allVars

\* A core always executes something, and the timer tick, a step of
\* SingleNext, is all that is left when a thread spins; warmup and search are
\* finite.
SingleFairSpec ==
  /\ SingleSpec
  /\ WF_allVars(SingleNext)
  /\ SF_allVars(Prepared)

-----------------------------------------------------------------------------
\* What the channels rely on: a slice is long enough for the longest loop body,
\* and the warmups discard the sample before the first round, for the
\* scheduling channel also the one whose online time began there.
SliceFits ==
  \A c \in Family :
    /\ Warmups >= IF c.protocol = "schedule" THEN 2 ELSE 1
    /\ IsFiniteSet(c.probe) /\ Cardinality(c.probe) + 4 <= Slice
    /\ \A s \in c.secrets :
         IsFiniteSet(c.touch[s]) /\ Cardinality(c.touch[s]) + 4 <= Slice

\* What a printed line says is caused by the secret it is labelled with: for
\* the channels that probe, and for the one that watches the clock.
EveryLineAgrees ==
  IF chan.protocol = "schedule" THEN GapsAgree ELSE LabelsAgree

\* Every sample measures a secret of its own ("secret is updated by trojan in
\* the previous system tick"), and a gap of the scheduling channel exactly one.
\* When the trojan publishes before it acts, the last sample may repeat a
\* secret: the trojan is a round ahead and stops a round early.
FreshSecrets ==
  [][/\ i[Spy]' # i[Spy] /\ i[Spy] >= Warmups
     /\ chan.order = "publishFirst" => i[Spy] < DataPoints - 1
     => IF chan.protocol = "schedule" THEN seen' = seen + 1
        ELSE seen' > seen]_allVars
=============================================================================
