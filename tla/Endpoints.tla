------------------------------ MODULE Endpoints ------------------------------
(***************************************************************************)
(* Synchronous seL4 endpoints, as the code under src/ uses them.  The      *)
(* kernel is not part of this repository.                                  *)
(*                                                                         *)
(* A thread that executes a blocking call has already moved its program    *)
(* counter past the call; ipc[t] says what the kernel still waits for on   *)
(* its behalf.  When the peer arrives, ipc[t] becomes Ready and t is       *)
(* schedulable again.                                                      *)
(***************************************************************************)
EXTENDS Integers

CONSTANTS
  Thread,   \* every thread, the root task included
  Endpoint  \* the synchronous endpoints

VARIABLE ipc \* ipc[t]: Ready, or the endpoint operation t is blocked in

Ready == [op |-> "none"]
Blocked(op, ep) == [op |-> op, ep |-> ep]
IpcState == {Ready} \cup [op: {"send", "recv"}, ep: Endpoint]

Waiting(op, ep) == {u \in Thread : ipc[u] = Blocked(op, ep)}

\* seL4_Send: hand over to a waiting receiver or block until one arrives.
SendTransfer(t, ep) ==
  IF Waiting("recv", ep) # {}
  THEN \E r \in Waiting("recv", ep) : ipc' = [ipc EXCEPT ![r] = Ready]
  ELSE ipc' = [ipc EXCEPT ![t] = Blocked("send", ep)]

\* seL4_Recv, and seL4_Wait on an endpoint, opposite plain senders.
RecvTransfer(t, ep) ==
  IF Waiting("send", ep) # {}
  THEN \E s \in Waiting("send", ep) : ipc' = [ipc EXCEPT ![s] = Ready]
  ELSE ipc' = [ipc EXCEPT ![t] = Blocked("recv", ep)]
=============================================================================
