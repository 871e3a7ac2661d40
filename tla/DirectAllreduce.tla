--------------------------- MODULE DirectAllreduce ---------------------------
(***************************************************************************)
(* GPUIBContext::internal_direct_allreduce, the reduction to_all runs when *)
(* the team's pWrk holds one contribution per PE                           *)
(* (src/src/gpu_ib/context_ib_tmpl_device.hpp, lines 114-166, 192-213).    *)
(*                                                                         *)
(* Each PE copies src to dst, then for every other PE i puts its src into  *)
(* slot my_pe of i's pWrk (putmem_nbi_wg), fences, and sets slot my_pe of  *)
(* i's pSync to 1 (p(), itself a putmem_nbi).  It then waits, peer by peer,*)
(* for pSync[i] = 1 and folds pWrk[i] into dst, and finally resets its     *)
(* pSync to ROCSHMEM_SYNC_VALUE.  Every PE makes NCalls calls in a row on  *)
(* the same pWrk and pSync, as repeated to_all calls on one team do.       *)
(*                                                                         *)
(* The workgroup is abstracted to its leader: __syncthreads separates the  *)
(* steps below, so each is atomic for the PE.  Elements are abstracted to  *)
(* one, and the reduction operator to multiset union: dst is the bag of    *)
(* contributions folded into it, so a missing, stale or doubly counted     *)
(* contribution is visible whatever the operator.                          *)
(*                                                                         *)
(* The network: every non-blocking put travels on the queue pair from its  *)
(* sender to its target.  Puts to one target may be placed out of order,   *)
(* except that none passes a fence() issued before it.                     *)
(***************************************************************************)
EXTENDS Integers, Sequences, FiniteSets, Bags

CONSTANTS
  N,          \* number of PEs; the team is the world: PE_start 0, stride 1
  NCalls      \* number of back-to-back to_all calls every PE makes

ASSUME N \in 2..4 /\ NCalls \in 1..3

PEs == 0 .. N - 1

SyncValue == 0                          \* ROCSHMEM_SYNC_VALUE

\* The contribution of PE p to its call c (src at that call).
Contrib(p, c) == [pe |-> p, call |-> c]
\* What pWrk holds before anything was put there.
Garbage == [pe |-> -1, call |-> 0]
Contribs == {Contrib(p, c) : p \in PEs, c \in 1..NCalls} \cup {Garbage}

Msgs ==
       [kind : {"data"}, slot : PEs, val : Contribs, fenced : BOOLEAN]
  \cup [kind : {"flag"}, slot : PEs, fenced : BOOLEAN]

VARIABLES
  pc,       \* pc[p] \in {"copy", "put", "reduce", "reset", "done"}
  callNo,   \* callNo[p]: which of its calls PE p is in
  i,        \* i[p]: the loop variable i of the put or the reduce loop
  dst,      \* dst[p]: bag of contributions folded into p's dst
  pWrk,     \* pWrk[p][s]: what slot s of p's pWrk holds
  pSync,    \* pSync[p][s]: slot s of p's pSync
  chan      \* chan[<<s, r>>]: puts issued by s to r and not yet placed

vars == <<pc, callNo, i, dst, pWrk, pSync, chan>>

TypeOK ==
  /\ pc \in [PEs -> {"copy", "put", "reduce", "reset", "done"}]
  /\ callNo \in [PEs -> 1..NCalls]
  /\ i \in [PEs -> PEs]
  /\ \A p \in PEs : IsABag(dst[p]) /\ BagToSet(dst[p]) \subseteq Contribs
  /\ pWrk \in [PEs -> [PEs -> Contribs]]
  /\ pSync \in [PEs -> [PEs -> {SyncValue, 1}]]
  /\ chan \in [PEs \X PEs -> Seq(Msgs)]

Init ==
  /\ pc = [p \in PEs |-> "copy"]
  /\ callNo = [p \in PEs |-> 1]
  /\ i = [p \in PEs |-> 0]
  /\ dst = [p \in PEs |-> EmptyBag]
  /\ pWrk = [p \in PEs |-> [s \in PEs |-> Garbage]]
  /\ pSync = [p \in PEs |-> [s \in PEs |-> SyncValue]]
  /\ chan = [e \in PEs \X PEs |-> <<>>]

-----------------------------------------------------------------------------
(* The messages one iteration of the put loop issues.                      *)

\* putmem_nbi_wg(&pWrk[pe * nelems], src, ..., i)
DataMsg(p) == [kind |-> "data", slot |-> p, val |-> Contrib(p, callNo[p]),
               fenced |-> FALSE]

\* Mutant: the leader sets the flag without the fence() before it.
FlagMsgNoFence(p, t) == [kind |-> "flag", slot |-> p, fenced |-> FALSE]

\* Mutant: the flag goes to the target's own slot instead of slot pe.
FlagMsgWrongSlot(p, t) == [kind |-> "flag", slot |-> t, fenced |-> TRUE]

\* fence(); p(&pSync[pe], 1L, i): the flag cannot pass the data put.
FlagMsg(p, t) == [kind |-> "flag", slot |-> p, fenced |-> TRUE]

\* Message k of a channel may be placed now: no fence lies between it and
\* any message issued before it.
Deliverable(ch, k) == \A l \in 2..k : ~ch[l].fenced

-----------------------------------------------------------------------------
(* for (i = wg_id; i < nelems; i += wg_size) dst[i] = src[i];              *)
Copy(p) ==
  /\ pc[p] = "copy"
  /\ dst' = [dst EXCEPT ![p] = SetToBag({Contrib(p, callNo[p])})]
  /\ pc' = [pc EXCEPT ![p] = "put"]
  /\ i' = [i EXCEPT ![p] = 0]
  /\ UNCHANGED <<callNo, pWrk, pSync, chan>>

\* Mutant: the put loop runs while i <= num_pes.
PutStepPastEnd(p) ==
  LET t == i[p] IN
  /\ pc[p] = "put"
  /\ chan' = IF t # p /\ t \in PEs
               THEN [chan EXCEPT ![<<p, t>>] = @ \o <<DataMsg(p), FlagMsg(p, t)>>]
               ELSE chan
  /\ IF t + 1 <= N
       THEN i' = [i EXCEPT ![p] = t + 1] /\ UNCHANGED pc
       ELSE i' = [i EXCEPT ![p] = 0] /\ pc' = [pc EXCEPT ![p] = "reduce"]
  /\ UNCHANGED <<callNo, dst, pWrk, pSync>>

(* One iteration of the put loop: for i != pe, the data put to i, then the *)
(* leader's fence and flag.  The last iteration falls into the reduce loop.*)
PutStep(p) ==
  LET t == i[p] IN
  /\ pc[p] = "put"
  /\ chan' = IF t # p
               THEN [chan EXCEPT ![<<p, t>>] = @ \o <<DataMsg(p), FlagMsg(p, t)>>]
               ELSE chan
  /\ IF t + 1 < N
       THEN i' = [i EXCEPT ![p] = t + 1] /\ UNCHANGED pc
       ELSE i' = [i EXCEPT ![p] = 0] /\ pc' = [pc EXCEPT ![p] = "reduce"]
  /\ UNCHANGED <<callNo, dst, pWrk, pSync>>

\* compute_reduce: OpWrap<Op>::Calc folds every element of the source into
\* dst; with values as bags of contributions, the fold is bag union.
compute_reduce(d, w) == d (+) SetToBag({w})

(* One iteration of the reduce loop: for i != pe, the leader spins until   *)
(* pSync[i] = 1, then the group folds pWrk[i] into dst.                    *)
ReduceStep(p) ==
  LET t == i[p] IN
  /\ pc[p] = "reduce"
  /\ t # p => pSync[p][t] = 1                    \* wait_until(&pSync[i], EQ, 1)
  /\ dst' = IF t # p THEN [dst EXCEPT ![p] = compute_reduce(@, pWrk[p][t])]
                     ELSE dst
  /\ IF t + 1 < N
       THEN i' = [i EXCEPT ![p] = t + 1] /\ UNCHANGED pc
       ELSE i' = [i EXCEPT ![p] = 0] /\ pc' = [pc EXCEPT ![p] = "reset"]
  /\ UNCHANGED <<callNo, pWrk, pSync, chan>>

\* Mutant: the call returns without resetting its pSync.
ResetSkipped(p) ==
  /\ pc[p] = "reset"
  /\ IF callNo[p] < NCalls
       THEN pc' = [pc EXCEPT ![p] = "copy"] /\ callNo' = [callNo EXCEPT ![p] = @ + 1]
       ELSE pc' = [pc EXCEPT ![p] = "done"] /\ UNCHANGED callNo
  /\ UNCHANGED <<i, dst, pWrk, pSync, chan>>

(* for (i = wg_id; i < num_pes; i += wg_size) pSync[i] = SYNC_VALUE; then  *)
(* the call returns and the PE makes its next call, if any.                *)
Reset(p) ==
  /\ pc[p] = "reset"
  /\ pSync' = [pSync EXCEPT ![p] = [s \in PEs |-> SyncValue]]
  /\ IF callNo[p] < NCalls
       THEN pc' = [pc EXCEPT ![p] = "copy"] /\ callNo' = [callNo EXCEPT ![p] = @ + 1]
       ELSE pc' = [pc EXCEPT ![p] = "done"] /\ UNCHANGED callNo
  /\ UNCHANGED <<i, dst, pWrk, chan>>

(* The target's NIC places message k of the channel from s to r.           *)
Deliver(s, r) ==
  \E k \in 1..Len(chan[<<s, r>>]) :
    LET m == chan[<<s, r>>][k] IN
    /\ Deliverable(chan[<<s, r>>], k)
    /\ chan' = [chan EXCEPT ![<<s, r>>] =
                  SubSeq(@, 1, k - 1) \o SubSeq(@, k + 1, Len(@))]
    /\ IF m.kind = "data"
         THEN pWrk' = [pWrk EXCEPT ![r][m.slot] = m.val] /\ UNCHANGED pSync
         ELSE pSync' = [pSync EXCEPT ![r][m.slot] = 1] /\ UNCHANGED pWrk
    /\ UNCHANGED <<pc, callNo, i, dst>>

\* Every call returned and every put was placed: nothing more happens.
Finished ==
  /\ \A p \in PEs : pc[p] = "done"
  /\ \A e \in PEs \X PEs : chan[e] = <<>>
  /\ UNCHANGED vars

Step(p) == Copy(p) \/ PutStep(p) \/ ReduceStep(p) \/ Reset(p)

Next ==
  \/ \E p \in PEs : Step(p)
  \/ \E s, r \in PEs : Deliver(s, r)
  \/ Finished

\* A PE's workgroup runs until its call returns (it busy-waits, it is never
\* descheduled), and the reliable-connected transport places every put it
\* accepted.
Fairness ==
  /\ \A p \in PEs : WF_vars(Step(p))
  /\ \A s, r \in PEs : WF_vars(Deliver(s, r))

Spec == Init /\ [][Next]_vars /\ Fairness

-----------------------------------------------------------------------------
\* What dst must hold when call c returns: every PE's contribution to call
\* c, each exactly once.
Expected(c) == SetToBag({Contrib(q, c) : q \in PEs})

\* The call as its callers see it: a PE is working before its copy, inside
\* the call until its last slot is folded in, and has returned, with dst as
\* its result, from then until its next call's copy.
CallPhase(p) ==
  CASE pc[p] = "copy"                 -> "work"
    [] pc[p] \in {"put", "reduce"}    -> "entered"
    [] pc[p] \in {"reset", "done"}    -> "returned"

CallResult(p) == IF CallPhase(p) = "returned" THEN dst[p] ELSE EmptyBag

Abstract == INSTANCE Allreduce
              WITH Procs <- PEs, NRounds <- NCalls, Full <- Expected,
                   NoResult <- EmptyBag, round <- callNo,
                   phase <- [p \in PEs |-> CallPhase(p)],
                   res <- [p \in PEs |-> CallResult(p)]

\* Reduction correctness (spec 4.5, 8) as a refinement: the direct to_all
\* implements the atomic all-reduce of Allreduce.  No PE returns from a
\* call before every PE has entered it, and what it returns is every PE's
\* contribution to that very call, each once: the fence keeps a flag from
\* overtaking its data, and no PE's next call overwrites a pWrk slot
\* before its owner has read it.
AllreduceRefinement == Abstract!Spec

\* Sync-slot idempotence (spec 3, "SyncSlot"): once every PE has returned
\* from its calls and every put has been placed, every pSync slot is back at
\* ROCSHMEM_SYNC_VALUE, ready for the next collective on the team.
SyncAtBaseline ==
  (\A p \in PEs : pc[p] = "done") /\ (\A e \in PEs \X PEs : chan[e] = <<>>)
    => \A p, s \in PEs : pSync[p][s] = SyncValue

\* Every to_all call of every PE returns: no PE spins forever on a flag.
AllCallsReturn == <>(\A p \in PEs : pc[p] = "done")

=============================================================================
