------------------------------ MODULE Allreduce ------------------------------
(***************************************************************************)
(* What to_all promises its callers (spec 4.5, 8), whichever algorithm it  *)
(* picks: every process makes NRounds calls; in each it enters, handing    *)
(* over its contribution, and it returns only once every process of the    *)
(* team has entered that same call, with the reduction of the call's       *)
(* contributions, Full(c), as its result.  Nothing is said about how the   *)
(* contributions travel: an all-reduce is, to its callers, one atomic      *)
(* step per process.                                                       *)
(***************************************************************************)
EXTENDS Naturals

CONSTANTS
  Procs,        \* the team
  NRounds,      \* calls per process
  Full(_),      \* Full(c): the result every process must get from call c
  NoResult      \* what a process holds as result while inside a call

VARIABLES
  round,        \* round[p]: the call p is in
  phase,        \* phase[p] \in {"work", "entered", "returned"}
  res           \* res[p]: the result of p's current call once it returned

vars == <<round, phase, res>>

Init ==
  /\ round = [p \in Procs |-> 1]
  /\ phase = [p \in Procs |-> "work"]
  /\ res = [p \in Procs |-> NoResult]

Enter(p) ==
  /\ phase[p] = "work"
  /\ phase' = [phase EXCEPT ![p] = "entered"]
  /\ UNCHANGED <<round, res>>

\* q has handed over its contribution to p's current call.
Contributed(q, p) ==
  \/ round[q] > round[p]
  \/ round[q] = round[p] /\ phase[q] # "work"

Return(p) ==
  /\ phase[p] = "entered"
  /\ \A q \in Procs : Contributed(q, p)
  /\ phase' = [phase EXCEPT ![p] = "returned"]
  /\ res' = [res EXCEPT ![p] = Full(round[p])]
  /\ UNCHANGED round

NextCall(p) ==
  /\ phase[p] = "returned"
  /\ round[p] < NRounds
  /\ round' = [round EXCEPT ![p] = @ + 1]
  /\ phase' = [phase EXCEPT ![p] = "work"]
  /\ res' = [res EXCEPT ![p] = NoResult]

Next == \E p \in Procs : Enter(p) \/ Return(p) \/ NextCall(p)

Spec == Init /\ [][Next]_vars

=============================================================================
