---------------------------- MODULE BruckAlltoall ----------------------------
(***************************************************************************)
(* GPUIBContext::alltoall_brucks (src/src/gpu_ib/context_ib_tmpl_device.hpp*)
(* lines 516-612), Bruck's all-to-all over a team of N PEs, each sending   *)
(* NE elements to every PE.                                                *)
(*                                                                         *)
(* Each PE runs the phases of BruckIndex on its own buffers: phase 1,     *)
(* then per round a pack, a put_wg of data_size elements into the dst of   *)
(* PE (me + 2^shift) % N followed by quiet (complete at the target when it *)
(* returns), internal_sync over the team, and the unpack of its own dst;   *)
(* then phase 3 and a closing internal_sync.  internal_sync is not in the  *)
(* repository's sources: it is modelled from the spec (4.4) as a barrier   *)
(* no PE leaves before every team member has entered it.                  *)
(* Threads of a workgroup are abstracted: __syncthreads makes every phase  *)
(* of a PE one step.                                                       *)
(***************************************************************************)
EXTENDS Integers, FiniteSets, BruckIndex

CONSTANTS
  N,          \* team size (pe_size) of the concurrent protocol
  NE          \* nelems

ASSUME N \in 1..5 /\ NE \in 1..3

Team == 0 .. N - 1
Slots == Idx(N, NE)
Buf == [Slots -> {Elem(q, k) : q \in Team, k \in Slots} \cup {Garbage}]

VARIABLES
  pc,       \* pc[p] \in {"rotate","pack","send","sync","unpack","final","sync2","done"}
  shift,    \* shift[p]: the round PE p is in
  pAta1,    \* pAta1[p]: first half of p's team pAta
  pAta2,    \* pAta2[p]: second half of p's team pAta
  dst,      \* dst[p]: p's dst buffer
  arrived   \* arrived[p]: how many internal_sync calls p has entered

vars == <<pc, shift, pAta1, pAta2, dst, arrived>>

TypeOK ==
  /\ pc \in [Team -> {"rotate", "pack", "send", "sync", "unpack", "final",
                      "sync2", "done"}]
  /\ shift \in [Team -> 0..NRounds(N)]
  /\ pAta1 \in [Team -> Buf]
  /\ pAta2 \in [Team -> Buf]
  /\ dst \in [Team -> Buf]
  /\ arrived \in [Team -> 0..NRounds(N) + 1]

Init ==
  /\ pc = [p \in Team |-> "rotate"]
  /\ shift = [p \in Team |-> 0]
  /\ pAta1 = [p \in Team |-> [k \in Slots |-> Garbage]]
  /\ pAta2 = [p \in Team |-> [k \in Slots |-> Garbage]]
  /\ dst = [p \in Team |-> [k \in Slots |-> Garbage]]
  /\ arrived = [p \in Team |-> 0]

\* After phase 1 or an unpack: the next round, or phase 3 when none is left.
NextPhase(s) == IF s < NRounds(N) THEN "pack" ELSE "final"

DoRotate(p) ==
  /\ pc[p] = "rotate"
  /\ pAta1' = [pAta1 EXCEPT ![p] = Rotate(N, NE, p, Src(NE, p, N))]
  /\ pc' = [pc EXCEPT ![p] = NextPhase(0)]
  /\ UNCHANGED <<shift, pAta2, dst, arrived>>

DoPack(p) ==
  /\ pc[p] = "pack"
  /\ pAta2' = [pAta2 EXCEPT ![p] = Pack(N, NE, shift[p], pAta1[p], @)]
  /\ pc' = [pc EXCEPT ![p] = "send"]
  /\ UNCHANGED <<shift, pAta1, dst, arrived>>

(* put_wg into the next PE's dst, quiet, and entry into internal_sync.     *)
DoSend(p) ==
  LET t == SendTo(N, p, shift[p]) IN
  /\ pc[p] = "send"
  /\ dst' = [dst EXCEPT ![t] = Receive(N, NE, shift[p], pAta2[p], @)]
  /\ arrived' = [arrived EXCEPT ![p] = @ + 1]
  /\ pc' = [pc EXCEPT ![p] = "sync"]
  /\ UNCHANGED <<shift, pAta1, pAta2>>

(* internal_sync returns once every team member has entered it.           *)
LeaveSync(p) ==
  /\ pc[p] \in {"sync", "sync2"}
  /\ \A q \in Team : arrived[q] >= arrived[p]
  /\ pc' = [pc EXCEPT ![p] = IF @ = "sync" THEN "unpack" ELSE "done"]
  /\ UNCHANGED <<shift, pAta1, pAta2, dst, arrived>>

DoUnpack(p) ==
  /\ pc[p] = "unpack"
  /\ pAta1' = [pAta1 EXCEPT ![p] = Unpack(N, NE, shift[p], @, dst[p])]
  /\ shift' = [shift EXCEPT ![p] = @ + 1]
  /\ pc' = [pc EXCEPT ![p] = NextPhase(shift[p] + 1)]
  /\ UNCHANGED <<pAta2, dst, arrived>>

(* Phase 3, then the closing internal_sync.                                *)
DoFinal(p) ==
  /\ pc[p] = "final"
  /\ dst' = [dst EXCEPT ![p] = InvRotate(N, NE, p, pAta1[p], @)]
  /\ arrived' = [arrived EXCEPT ![p] = @ + 1]
  /\ pc' = [pc EXCEPT ![p] = "sync2"]
  /\ UNCHANGED <<shift, pAta1, pAta2>>

Finished ==
  /\ \A p \in Team : pc[p] = "done"
  /\ UNCHANGED vars

Step(p) ==
  DoRotate(p) \/ DoPack(p) \/ DoSend(p) \/ LeaveSync(p) \/ DoUnpack(p)
    \/ DoFinal(p)

Next == (\E p \in Team : Step(p)) \/ Finished

Spec == Init /\ [][Next]_vars /\ \A p \in Team : WF_vars(Step(p))

-----------------------------------------------------------------------------
\* All-to-all transpose (spec 8): a PE that has returned from
\* alltoall_brucks holds block p of every PE's src, in rank order, however
\* the PEs' rounds interleave between the barriers.
TransposeCorrect ==
  \A p \in Team : pc[p] = "done" => dst[p] = Transposed(N, NE, p)

=============================================================================
