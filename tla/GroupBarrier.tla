----------------------------- MODULE GroupBarrier -----------------------------
(***************************************************************************)
(* What a barrier of a collective call promises, abstractly: every process *)
(* makes NRounds calls; in each it works, arrives, and leaves, and it may  *)
(* leave a call only once every member of its group has arrived in that    *)
(* call (or is already further).  The group of a process is the set of     *)
(* processes whose accesses to its buffers the barrier has to fence: for   *)
(* a full barrier every process, for the cluster all-to-all the PE's       *)
(* cluster and ring group.                                                 *)
(***************************************************************************)
EXTENDS Naturals

CONSTANTS
  Procs,        \* the processes
  Group(_),     \* Group(p): whom p must wait for
  NRounds       \* calls per process

VARIABLES
  round,        \* round[p]: the call p is in
  phase         \* phase[p] \in {"work", "arrived", "left"}

vars == <<round, phase>>

Init ==
  /\ round = [p \in Procs |-> 1]
  /\ phase = [p \in Procs |-> "work"]

Arrive(p) ==
  /\ phase[p] = "work"
  /\ phase' = [phase EXCEPT ![p] = "arrived"]
  /\ UNCHANGED round

\* q has arrived in p's current call, or is past it.
Reached(q, p) ==
  \/ round[q] > round[p]
  \/ round[q] = round[p] /\ phase[q] # "work"

Leave(p) ==
  /\ phase[p] = "arrived"
  /\ \A q \in Group(p) : Reached(q, p)
  /\ phase' = [phase EXCEPT ![p] = "left"]
  /\ UNCHANGED round

NextCall(p) ==
  /\ phase[p] = "left"
  /\ round[p] < NRounds
  /\ round' = [round EXCEPT ![p] = @ + 1]
  /\ phase' = [phase EXCEPT ![p] = "work"]

Next == \E p \in Procs : Arrive(p) \/ Leave(p) \/ NextCall(p)

Spec == Init /\ [][Next]_vars

=============================================================================
