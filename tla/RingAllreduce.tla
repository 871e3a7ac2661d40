---------------------------- MODULE RingAllreduce ----------------------------
(***************************************************************************)
(* GPUIBContext::internal_ring_allreduce (src/src/gpu_ib/                  *)
(* context_ib_tmpl_device.hpp, lines 50-112), the reduction to_all runs    *)
(* when pWrk cannot hold one contribution per PE.                          *)
(*                                                                         *)
(* dst is cut into NSeg segments of N chunks.  Per segment, round r of the *)
(* reduce-scatter (r < N-1) puts the PE's partial chunk (me+1-r) % N into  *)
(* the same chunk of the next PE's pWrk, fences, sets the next PE's        *)
(* pSync[r] to seg+100, waits for its own pSync[r] = seg+100 and folds     *)
(* pWrk chunk (me-r) % N into dst.  Round r of the all-gather              *)
(* (N-1 <= r < 2N-2) puts the finished chunk (me+1-r) % N straight into    *)
(* the next PE's dst, fences, flags and waits the same way.  At the end    *)
(* the PE resets pSync[0 .. 2N-3].  Every PE makes NCalls calls in a row.  *)
(*                                                                         *)
(* As in DirectAllreduce: the workgroup is its leader, a chunk is one      *)
(* value, the reduction is multiset union (a chunk's value is the bag of   *)
(* PEs folded into it), and puts from one PE to another are placed in any  *)
(* order that keeps them behind a fence issued before them.  A put reads   *)
(* its source when it is issued.                                           *)
(***************************************************************************)
EXTENDS Integers, Sequences, Bags

CONSTANTS
  N,          \* num_pes, the number of PEs of the world
  NSeg,       \* n_seg, the number of segments of the call
  NCalls,     \* number of back-to-back to_all calls every PE makes
  Team        \* the PEs of the team to_all(team, ...) is called on

ASSUME N \in 2..4 /\ NSeg \in 1..3 /\ NCalls \in 1..2
ASSUME Team \subseteq 0 .. N - 1 /\ Team # {}

PEs == 0 .. N - 1
Chunks == 0 .. N - 1
Segs == 0 .. NSeg - 1
Rounds == 0 .. 2 * N - 3
SyncValue == 0                                  \* ROCSHMEM_SYNC_VALUE

\* A chunk's value: the bag of the PEs whose contribution was folded in,
\* or what pWrk holds before any put reached it.
Own(p) == SetToBag({p})
Garbage == SetToBag({-1})

\* wait_val = seg + 100
WaitVal(s) == s + 100

VARIABLES
  pc,       \* pc[p] \in {"copy","put","wait","reduce","reset","done"}
  callNo,   \* callNo[p]: which of its calls p is in
  seg,      \* seg[p]: the segment loop variable
  round,    \* round[p]: the round loop variable
  dst,      \* dst[p][s][c]: chunk c of segment s of p's dst
  pWrk,     \* pWrk[p][c]: chunk c of p's pWrk
  pSync,    \* pSync[p][r]: slot r of p's pSync
  chan      \* chan[<<s, r>>]: puts issued by s to r and not yet placed

vars == <<pc, callNo, seg, round, dst, pWrk, pSync, chan>>

FlagMsgs == [kind : {"flag"}, slot : Rounds, val : {WaitVal(s) : s \in Segs},
             fenced : BOOLEAN]

\* The loop variables stay within the loops' bounds and pSync slots hold
\* either the sync value or a wait_val of this call.
TypeOK ==
  /\ pc \in [PEs -> {"copy", "put", "wait", "reduce", "reset", "done"}]
  /\ callNo \in [PEs -> 1..NCalls]
  /\ seg \in [PEs -> Segs]
  /\ round \in [PEs -> Rounds]
  /\ pSync \in [PEs -> [Rounds -> {SyncValue} \cup {WaitVal(s) : s \in Segs}]]
  /\ \A e \in PEs \X PEs : \A k \in 1..Len(chan[e]) :
       chan[e][k].kind = "flag" => chan[e][k] \in FlagMsgs

SendPE(p) == (p + 1) % N                         \* send_pe
OffSend(p, r) == (p + 1 - r + 2 * N) % N         \* off_send / chunk_size
\* Mutant: the group folds in the chunk it has just sent.
OffRecvSent(p, r) == (p + 1 - r + 2 * N) % N
OffRecv(p, r) == (p - r + 2 * N) % N             \* off_recv / chunk_size

\* Only the team's PEs call to_all; PE_start, logPE_stride and PE_size are
\* [[maybe_unused]]: the ring runs over my_pe and num_pes of the world.
Init ==
  /\ pc = [p \in PEs |-> IF p \in Team THEN "copy" ELSE "done"]
  /\ callNo = [p \in PEs |-> 1]
  /\ seg = [p \in PEs |-> 0]
  /\ round = [p \in PEs |-> 0]
  /\ dst = [p \in PEs |-> [s \in Segs |-> [c \in Chunks |-> Garbage]]]
  /\ pWrk = [p \in PEs |-> [c \in Chunks |-> Garbage]]
  /\ pSync = [p \in PEs |-> [r \in Rounds |-> SyncValue]]
  /\ chan = [e \in PEs \X PEs |-> <<>>]

-----------------------------------------------------------------------------
(* for (i = wg_id; i < nelems; i += wg_size) dst[i] = src[i];              *)
Copy(p) ==
  /\ pc[p] = "copy"
  /\ dst' = [dst EXCEPT ![p] = [s \in Segs |-> [c \in Chunks |-> Own(p)]]]
  /\ pc' = [pc EXCEPT ![p] = "put"]
  /\ UNCHANGED <<callNo, seg, round, pWrk, pSync, chan>>

\* The data put of a round: into pWrk in the reduce-scatter, into dst in
\* the all-gather; the chunk is read from the sender's dst when issued.
DataMsg(p) ==
  LET c == OffSend(p, round[p]) IN
  [kind |-> IF round[p] < N - 1 THEN "wrk" ELSE "dst",
   seg |-> seg[p], chunk |-> c, val |-> dst[p][seg[p]][c], fenced |-> FALSE]

\* Mutant: the flag is set in the slot of the next round.
FlagMsgNextSlot(p) ==
  [kind |-> "flag", slot |-> (round[p] + 1) % (2 * N - 2),
   val |-> WaitVal(seg[p]), fenced |-> TRUE]

\* fence(); p(&pSync[round], wait_val, send_pe)
FlagMsg(p) ==
  [kind |-> "flag", slot |-> round[p], val |-> WaitVal(seg[p]), fenced |-> TRUE]

(* putmem_nbi_wg of the round's chunk, then the leader's fence and flag.   *)
Put(p) ==
  /\ pc[p] = "put"
  /\ chan' = [chan EXCEPT ![<<p, SendPE(p)>>] = @ \o <<DataMsg(p), FlagMsg(p)>>]
  /\ pc' = [pc EXCEPT ![p] = "wait"]
  /\ UNCHANGED <<callNo, seg, round, dst, pWrk, pSync>>

\* Mutant: the all-gather loop runs one round too many.
AdvanceExtraRound(p) ==
  IF round[p] + 1 <= 2 * N - 2
    THEN /\ round' = [round EXCEPT ![p] = @ + 1]
         /\ pc' = [pc EXCEPT ![p] = "put"] /\ UNCHANGED seg
  ELSE IF seg[p] + 1 < NSeg
    THEN /\ round' = [round EXCEPT ![p] = 0]
         /\ seg' = [seg EXCEPT ![p] = @ + 1]
         /\ pc' = [pc EXCEPT ![p] = "put"]
  ELSE /\ pc' = [pc EXCEPT ![p] = "reset"] /\ UNCHANGED <<seg, round>>

\* After a round: the next round, the next segment, or the final reset.
Advance(p) ==
  IF round[p] + 1 < 2 * N - 2
    THEN /\ round' = [round EXCEPT ![p] = @ + 1]
         /\ pc' = [pc EXCEPT ![p] = "put"] /\ UNCHANGED seg
  ELSE IF seg[p] + 1 < NSeg
    THEN /\ round' = [round EXCEPT ![p] = 0]
         /\ seg' = [seg EXCEPT ![p] = @ + 1]
         /\ pc' = [pc EXCEPT ![p] = "put"]
  ELSE /\ pc' = [pc EXCEPT ![p] = "reset"] /\ UNCHANGED <<seg, round>>

(* wait_until(&pSync[round], EQ, wait_val); in the all-gather the round    *)
(* ends there, in the reduce-scatter the group goes on to compute_reduce.  *)
Wait(p) ==
  /\ pc[p] = "wait"
  /\ pSync[p][round[p]] = WaitVal(seg[p])
  /\ IF round[p] < N - 1
       THEN pc' = [pc EXCEPT ![p] = "reduce"] /\ UNCHANGED <<seg, round>>
       ELSE Advance(p)
  /\ UNCHANGED <<callNo, dst, pWrk, pSync, chan>>

(* compute_reduce(&pWrk[off_recv], &dst[off_seg + off_recv], chunk_size)   *)
Reduce(p) ==
  LET c == OffRecv(p, round[p]) IN
  /\ pc[p] = "reduce"
  /\ dst' = [dst EXCEPT ![p][seg[p]][c] = @ (+) pWrk[p][c]]
  /\ Advance(p)
  /\ UNCHANGED <<callNo, pWrk, pSync, chan>>

(* for (i = wg_id; i < 2 * num_pes - 2; i += wg_size) pSync[i] = SYNC_VALUE*)
(* then the call returns and the PE makes its next call, if any.           *)
Reset(p) ==
  /\ pc[p] = "reset"
  /\ pSync' = [pSync EXCEPT ![p] = [r \in Rounds |-> SyncValue]]
  /\ IF callNo[p] < NCalls
       THEN /\ pc' = [pc EXCEPT ![p] = "copy"]
            /\ callNo' = [callNo EXCEPT ![p] = @ + 1]
            /\ seg' = [seg EXCEPT ![p] = 0]
            /\ round' = [round EXCEPT ![p] = 0]
       ELSE pc' = [pc EXCEPT ![p] = "done"] /\ UNCHANGED <<callNo, seg, round>>
  /\ UNCHANGED <<dst, pWrk, chan>>

\* Message k of a channel may be placed now: no fence lies between it and
\* any message issued before it.
Deliverable(ch, k) == \A l \in 2..k : ~ch[l].fenced

(* The target's NIC places message k of the channel from s to r.           *)
Deliver(s, r) ==
  \E k \in 1..Len(chan[<<s, r>>]) :
    LET m == chan[<<s, r>>][k] IN
    /\ Deliverable(chan[<<s, r>>], k)
    /\ chan' = [chan EXCEPT ![<<s, r>>] =
                  SubSeq(@, 1, k - 1) \o SubSeq(@, k + 1, Len(@))]
    /\ CASE m.kind = "wrk" -> /\ pWrk' = [pWrk EXCEPT ![r][m.chunk] = m.val]
                              /\ UNCHANGED <<dst, pSync>>
         [] m.kind = "dst" -> /\ dst' = [dst EXCEPT ![r][m.seg][m.chunk] = m.val]
                              /\ UNCHANGED <<pWrk, pSync>>
         [] OTHER          -> /\ pSync' = [pSync EXCEPT ![r][m.slot] = m.val]
                              /\ UNCHANGED <<dst, pWrk>>
    /\ UNCHANGED <<pc, callNo, seg, round>>

Finished ==
  /\ \A p \in PEs : pc[p] = "done"
  /\ \A e \in PEs \X PEs : chan[e] = <<>>
  /\ UNCHANGED vars

Step(p) == Copy(p) \/ Put(p) \/ Wait(p) \/ Reduce(p) \/ Reset(p)

Next ==
  \/ \E p \in PEs : Step(p)
  \/ \E s, r \in PEs : Deliver(s, r)
  \/ Finished

\* A workgroup runs until its call returns, and the reliable-connected
\* transport places every put it accepted.
Fairness ==
  /\ \A p \in PEs : WF_vars(Step(p))
  /\ \A s, r \in PEs : WF_vars(Deliver(s, r))

Spec == Init /\ [][Next]_vars /\ Fairness

-----------------------------------------------------------------------------
\* Every chunk holds every team member's contribution exactly once.
Complete == SetToBag(Team)

\* What every call must return: every chunk of every segment complete.
FullDst(c) == [s \in Segs |-> [ch \in Chunks |-> Complete]]

\* The call as its callers see it: working before the copy, inside the
\* call through both phases of the ring, returned from the final reset on.
CallPhase(p) ==
  CASE pc[p] = "copy"                      -> "work"
    [] pc[p] \in {"put", "wait", "reduce"} -> "entered"
    [] pc[p] \in {"reset", "done"}         -> "returned"

CallResult(p) == IF CallPhase(p) = "returned" THEN dst[p] ELSE EmptyBag

Abstract == INSTANCE Allreduce
              WITH Procs <- Team, NRounds <- NCalls, Full <- FullDst,
                   NoResult <- EmptyBag, round <- [p \in Team |-> callNo[p]],
                   phase <- [p \in Team |-> CallPhase(p)],
                   res <- [p \in Team |-> CallResult(p)]

\* Reduction correctness (spec 4.5, 8) as a refinement: the ring to_all
\* implements the atomic all-reduce of Allreduce.  No PE returns before
\* every PE has entered the call, and it returns every chunk of every
\* segment reduced over all PEs' contributions, each counted once,
\* whatever order the puts were placed in and however far a neighbour ran
\* ahead.
AllreduceRefinement == Abstract!Spec

\* Every to_all call of every team member returns: no PE waits forever on
\* a pSync slot that a neighbour's later round or later call overwrote.
AllCallsReturn == <>(\A p \in Team : pc[p] = "done")

=============================================================================
