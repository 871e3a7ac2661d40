----------------------------- MODULE BruckLockstep -----------------------------
(***************************************************************************)
(* alltoall_brucks with every PE of the team running each phase at the     *)
(* same time: the algorithm as its authors reason about it.  A behaviour   *)
(* picks a team size and nelems, then takes the whole team through phase 1,*)
(* one round after the other, and phase 3.  Each state is the buffers of   *)
(* every PE between two phases, so the index arithmetic of BruckIndex is   *)
(* checked against the transpose for every size the cfg lists.             *)
(* fcollect_brucks (834-895) is run the same way: its rounds grow one      *)
(* pAta by put_wg from the PE 2^shift below, each round closed by          *)
(* internal_sync, and its phase 2 is alltoall_brucks' inverse rotation.    *)
(***************************************************************************)
EXTENDS Integers, BruckIndex

CONSTANTS
  Cases       \* set of <<pe_size, nelems>> pairs to run

ASSUME Cases \subseteq (1..16) \X (1..4)

VARIABLES
  alg,      \* "alltoall" (alltoall_brucks) or "fcollect" (fcollect_brucks)
  P,        \* pe_size of the team
  ne,       \* nelems
  shift,    \* the next round to run
  phase,    \* "rounds" while rounds remain, then "done"
  a1,       \* a1[p]: pAta1 of PE p (fcollect: pAta)
  a2,       \* a2[p]: pAta2 of PE p
  d         \* d[p]: dst of PE p

vars == <<alg, P, ne, shift, phase, a1, a2, d>>

TypeOK ==
  /\ alg \in {"alltoall", "fcollect"}
  /\ <<P, ne>> \in Cases
  /\ shift \in 0..NRounds(P)
  /\ phase \in {"rounds", "done"}
  /\ \A p \in 0..P-1 : DOMAIN a1[p] = Idx(P, ne) /\ DOMAIN d[p] = Idx(P, ne)

\* fcollect: put_wg(pAta, src, nelems, my_pe) copies the PE's own nelems.
FcInitial(n, e, q) ==
  [k \in Idx(n, e) |-> IF k < e THEN Elem(q, k) ELSE Garbage]

(* Phase 1 at every PE (fcollect: the initial src transfer). *)
Init ==
  /\ alg \in {"alltoall", "fcollect"}
  /\ \E c \in Cases : P = c[1] /\ ne = c[2]
  /\ shift = 0
  /\ phase = "rounds"
  /\ a1 = [p \in 0..P-1 |-> IF alg = "alltoall" THEN Rotate(P, ne, p, Src(ne, p, P))
                                                 ELSE FcInitial(P, ne, p)]
  /\ a2 = [p \in 0..P-1 |-> [k \in Idx(P, ne) |-> Garbage]]
  /\ d = [p \in 0..P-1 |-> [k \in Idx(P, ne) |-> Garbage]]

(* Round shift at every PE: pack, put_wg to (me + 2^shift) % P, unpack.    *)
Round ==
  LET a2n == [p \in 0..P-1 |-> Pack(P, ne, shift, a1[p], a2[p])]
      dn  == [p \in 0..P-1 |-> Receive(P, ne, shift, a2n[RecvFrom(P, p, shift)], d[p])]
  IN /\ alg = "alltoall"
     /\ phase = "rounds"
     /\ shift < NRounds(P)
     /\ a2' = a2n
     /\ d' = dn
     /\ a1' = [p \in 0..P-1 |-> Unpack(P, ne, shift, a1[p], dn[p])]
     /\ shift' = shift + 1
     /\ UNCHANGED <<alg, P, ne, phase>>

(* Phase 3 at every PE. *)
Final ==
  /\ alg = "alltoall"
  /\ phase = "rounds"
  /\ shift = NRounds(P)
  /\ d' = [p \in 0..P-1 |-> InvRotate(P, ne, p, a1[p], d[p])]
  /\ phase' = "done"
  /\ UNCHANGED <<alg, P, ne, shift, a1, a2>>

\* Mutant: the amount sent lacks the factor nelems.
FcDataSizeNoNelems(n, s, e) == IF 2^s < n - 2^s THEN 2^s ELSE n - 2^s

\* data_size = min(shift_decimal, pe_size - shift_decimal) * nelems
FcDataSize(n, s, e) == (IF 2^s < n - 2^s THEN 2^s ELSE n - 2^s) * e

(* put_wg(&pAta[shift_decimal * nelems], pAta, data_size, dest_pe), at    *)
(* the receiver a: the first data_size elements of the sender's pAta.     *)
FcReceive(n, e, s, sender, a) ==
  LET off == 2^s * e IN
  [k \in Idx(n, e) |->
     IF k >= off /\ k - off < FcDataSize(n, s, e) THEN sender[k - off] ELSE a[k]]

(* fcollect round shift at every PE: put_wg to (me + 2^shift) % P, then   *)
(* internal_sync over the team.                                            *)
FcRound ==
  /\ alg = "fcollect"
  /\ phase = "rounds"
  /\ shift < NRounds(P)
  /\ a1' = [p \in 0..P-1 |-> FcReceive(P, ne, shift, a1[RecvFrom(P, p, shift)], a1[p])]
  /\ shift' = shift + 1
  /\ UNCHANGED <<alg, P, ne, phase, a2, d>>

(* fcollect phase 2, the inverse rotation into dst, at every PE.          *)
FcFinal ==
  /\ alg = "fcollect"
  /\ phase = "rounds"
  /\ shift = NRounds(P)
  /\ d' = [p \in 0..P-1 |-> InvRotate(P, ne, p, a1[p], d[p])]
  /\ phase' = "done"
  /\ UNCHANGED <<alg, P, ne, shift, a1, a2>>

Done == phase = "done" /\ UNCHANGED vars

Next == Round \/ Final \/ FcRound \/ FcFinal \/ Done

Spec == Init /\ [][Next]_vars

\* Bruck arithmetic (spec 4.7: "correctness depends on the pack/unpack index
\* arithmetic being the exact inverse of the final rotation step"): after the
\* last round and phase 3, every PE's dst holds block p of every PE's src in
\* rank order, the transpose alltoall_broadcast computes.
LockstepIsTranspose ==
  alg = "alltoall" /\ phase = "done" => \A p \in 0..P-1 : d[p] = Transposed(P, ne, p)

\* fcollect_brucks (spec 4.7, 8): after the last round and phase 2, every PE's
\* dst holds every PE's src in rank order.  The rounds double the prefix
\* of pAta a PE holds, so a wrong data_size or receive offset leaves a hole
\* or a duplicate only at some team sizes and nelems.
FcollectIsConcat ==
  alg = "fcollect" /\ phase = "done" =>
    \A p \in 0..P-1 : d[p] = [k \in Idx(P, ne) |-> Elem(k \div ne, k % ne)]

=============================================================================
