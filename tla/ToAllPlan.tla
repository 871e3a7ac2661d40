------------------------------ MODULE ToAllPlan ------------------------------
(***************************************************************************)
(* How GPUIBContext::to_all chooses and sizes the reduction algorithm      *)
(* (src/src/gpu_ib/context_ib_tmpl_device.hpp, lines 192-237), and which   *)
(* elements and scratch slots the chosen algorithm then touches            *)
(* (internal_direct_allreduce, lines 114-166; internal_ring_allreduce,     *)
(* lines 50-112).                                                          *)
(*                                                                         *)
(* A behaviour is one call: Init picks num_pes and nreduce, Plan is the    *)
(* body of to_all.  All quantities are element counts, integer division    *)
(* is C++'s on non-negative values.  The library's size constants          *)
(* (ROCSHMEM_REDUCE_MIN_WRKDATA_SIZE, ROCSHMEM_REDUCE_SYNC_SIZE and the    *)
(* literal ring chunk of 1024) are parameters scaled down together so that *)
(* every branch is reached with small nreduce.                             *)
(***************************************************************************)
EXTENDS Integers, FiniteSets

CONSTANTS
  MinWrk,       \* ROCSHMEM_REDUCE_MIN_WRKDATA_SIZE
  SyncSize,     \* ROCSHMEM_REDUCE_SYNC_SIZE
  Chunk,        \* the initial chunk_size (1024 in the code)
  NumPes,       \* the values of num_pes a call may see
  NReduce       \* the values of nreduce a call may pass

ASSUME MinWrk \in Nat \ {0} /\ SyncSize \in Nat \ {0} /\ Chunk \in Nat \ {0}
ASSUME NumPes \subseteq 1..8 /\ NReduce \subseteq 1..64

MaxReduce == CHOOSE m \in NReduce : \A n \in NReduce : n <= m
MaxPEs == CHOOSE m \in NumPes : \A n \in NumPes : n <= m

Max2(a, b) == IF a >= b THEN a ELSE b

NoPlan == [algo |-> "none", nSeg |-> 0, segSize |-> 0, chunk |-> 0]

Plans ==
  {NoPlan}
  \cup [algo : {"direct", "unsupported"}, nSeg : {0}, segSize : {0}, chunk : {0}]
  \cup [algo : {"ring"}, nSeg : 0..MaxReduce, segSize : 0..MaxReduce * MaxPEs,
        chunk : 0..Max2(Chunk, MaxReduce)]

VARIABLES
  numPes,     \* num_pes of the context (the team is the world)
  nreduce,    \* nreduce of the call
  plan        \* what to_all decided: the algorithm and its ring parameters

vars == <<numPes, nreduce, plan>>

TypeOK ==
  /\ numPes \in NumPes
  /\ nreduce \in NReduce
  /\ plan \in Plans

Init ==
  /\ numPes \in NumPes
  /\ nreduce \in NReduce
  /\ plan = NoPlan

\* provided_pWrk = max(nreduce / 2 + 1, ROCSHMEM_REDUCE_MIN_WRKDATA_SIZE):
\* the pWrk size the caller is required to provide.
ProvidedWrk(nr) == Max2(nr \div 2 + 1, MinWrk)

\* Mutant: the shrunken ring workspace keeps the initial chunk size.
RingPlanKeepChunk(np, nr) ==
  LET ringWrk == IF ProvidedWrk(nr) < Chunk * np THEN Max2(nr \div 2, MinWrk)
                                                 ELSE Chunk * np
      nSeg0 == nr \div ringWrk
  IN IF nSeg0 = 0
       THEN [algo |-> "ring", nSeg |-> 1, segSize |-> nr, chunk |-> nr \div np]
       ELSE [algo |-> "ring", nSeg |-> nSeg0, segSize |-> ringWrk, chunk |-> Chunk]

\* int chunk_size = 1024; size_t ring_pWrk = chunk_size * num_pes;
\* if (provided_pWrk < ring_pWrk) { ring_pWrk = max(nreduce / 2, MIN);
\*                                  chunk_size = ring_pWrk / num_pes; }
\* int seg_size = ring_pWrk; int n_seg = nreduce / seg_size;
\* if (n_seg == 0) { n_seg = 1; seg_size = nreduce;
\*                   chunk_size = seg_size / num_pes; }
RingPlan(np, nr) ==
  LET shrink  == ProvidedWrk(nr) < Chunk * np
      ringWrk == IF shrink THEN Max2(nr \div 2, MinWrk) ELSE Chunk * np
      chunk0  == IF shrink THEN ringWrk \div np ELSE Chunk
      nSeg0   == nr \div ringWrk
  IN IF nSeg0 = 0
       THEN [algo |-> "ring", nSeg |-> 1, segSize |-> nr, chunk |-> nr \div np]
       ELSE [algo |-> "ring", nSeg |-> nSeg0, segSize |-> ringWrk, chunk |-> chunk0]

(* The body of to_all: direct if pWrk and pSync can hold one slot per PE, *)
(* else ring if pSync has 2 * num_pes slots, else "Unsupported reduction   *)
(* size" is printed and the call returns.                                  *)
Plan ==
  /\ plan = NoPlan
  /\ plan' =
       IF ProvidedWrk(nreduce) >= numPes * nreduce /\ SyncSize >= numPes
         THEN [NoPlan EXCEPT !.algo = "direct"]
       ELSE IF 2 * numPes <= SyncSize
         THEN RingPlan(numPes, nreduce)
       ELSE [NoPlan EXCEPT !.algo = "unsupported"]
  /\ UNCHANGED <<numPes, nreduce>>

Done == plan # NoPlan /\ UNCHANGED vars

Next == Plan \/ Done

Spec == Init /\ [][Next]_vars

-----------------------------------------------------------------------------
(* What the chosen algorithm touches.  The ring reduces, in segment seg,   *)
(* chunk c (c = 0 .. num_pes-1) at dst[seg * seg_size + c * chunk_size ..] *)
(* and stages it at pWrk[c * chunk_size ..]; round r uses pSync[r] for     *)
(* r < 2 * num_pes - 2.  The direct algorithm stages PE p's vector at      *)
(* pWrk[p * nreduce ..] and uses pSync[p].                                 *)

RingDst(pl, np) ==
  {seg * pl.segSize + c * pl.chunk + k :
     seg \in 0..pl.nSeg - 1, c \in 0..np - 1, k \in 0..pl.chunk - 1}

RingWrk(pl, np) == {c * pl.chunk + k : c \in 0..np - 1, k \in 0..pl.chunk - 1}

\* The dst elements the planned call combines across PEs.
Reduced ==
  CASE plan.algo = "direct" -> 0..nreduce - 1
    [] plan.algo = "ring"   -> RingDst(plan, numPes)
    [] OTHER                -> {}

\* The pWrk elements and pSync slots the planned call writes.
WrkUsed ==
  CASE plan.algo = "direct" -> 0..numPes * nreduce - 1
    [] plan.algo = "ring"   -> RingWrk(plan, numPes)
    [] OTHER                -> {}
SyncUsed ==
  CASE plan.algo = "direct" -> 0..numPes - 1
    [] plan.algo = "ring"   -> 0..2 * numPes - 3
    [] OTHER                -> {}

\* Scratch bounds (spec 6, configuration contracts): the planned algorithm
\* reads and writes only dst[0 .. nreduce-1], the pWrk elements a caller
\* that honours "pWrk >= max(nreduce/2 + 1, MIN_WRKDATA)" provides, and
\* pSync slots below ROCSHMEM_REDUCE_SYNC_SIZE.
ScratchInBounds ==
  plan # NoPlan =>
    /\ Reduced \subseteq 0..nreduce - 1
    /\ WrkUsed \subseteq 0..ProvidedWrk(nreduce) - 1
    /\ SyncUsed \subseteq 0..SyncSize - 1

\* Reduction correctness (spec 4.5, 8): whichever algorithm to_all picks,
\* every one of the nreduce elements is reduced across the PEs.
ReducesEveryElement ==
  plan # NoPlan => Reduced = 0..nreduce - 1

=============================================================================
