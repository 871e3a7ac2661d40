------------------------------- MODULE AmoSet -------------------------------
(***************************************************************************)
(* The remote atomic operations of GPUIBContext on ONE symmetric-heap      *)
(* word that several PEs target concurrently                                *)
(* (src/src/gpu_ib/context_ib_tmpl_device.hpp, lines 295-409).             *)
(*                                                                         *)
(* amo_fetch_add, amo_add, amo_fetch_cas and amo_cas are single atomic     *)
(* steps on the target word, whether they go through the IPC fast path or  *)
(* through the queue pair.  amo_set is an atomic store on the IPC path and *)
(* an optimistic compare-and-swap loop on the queue-pair path: the guess   *)
(* starts at 0 and every failed CAS makes the returned value the next      *)
(* guess.  Each CAS of that loop is one step, so other PEs' operations     *)
(* interleave between the iterations.                                      *)
(*                                                                         *)
(* The word has W bits: additions wrap modulo 2^W like the C++ unsigned    *)
(* type they are instantiated with.                                        *)
(***************************************************************************)
EXTENDS Integers, FiniteSets, SequencesExt

CONSTANTS
  PEs,        \* the PEs that each issue one atomic call on the word
  W,          \* width of the word in bits
  OpKinds     \* which calls the PEs may issue: subset of {"set","cas","add"}

ASSUME W \in 1..4
ASSUME OpKinds \subseteq {"set", "cas", "add"} /\ OpKinds # {}

Vals == 0 .. (2^W - 1)

\* The calls a PE may issue.  "cas" stands for amo_cas and amo_fetch_cas,
\* "add" for amo_add and amo_fetch_add: they change the word identically.
Calls ==
       [kind : {"set"} \cap OpKinds, val : Vals]
  \cup [kind : {"cas"} \cap OpKinds, val : Vals, cond : Vals]
  \cup [kind : {"add"} \cap OpKinds, val : Vals]

VARIABLES
  word,     \* the target word in the owner PE's symmetric heap
  x0,       \* the word's value before any call (history, for properties)
  call,     \* call[p]: the atomic call PE p issues
  ipc,      \* ipc[p]: ipcImpl_.isIpcAvailable(my_pe, pe) for PE p
  cond,     \* cond[p]: the current guess of p's amo_set CAS loop
  pc        \* pc[p] \in {"start", "loop", "done"}

vars == <<word, x0, call, ipc, cond, pc>>

TypeOK ==
  /\ word \in Vals
  /\ x0 \in Vals
  /\ call \in [PEs -> Calls]
  /\ ipc \in [PEs -> BOOLEAN]
  /\ cond \in [PEs -> Vals]
  /\ pc \in [PEs -> {"start", "loop", "done"}]

Init ==
  /\ word \in Vals
  /\ x0 = word
  /\ call \in [PEs -> Calls]
  /\ ipc \in [PEs -> BOOLEAN]
  /\ cond = [p \in PEs |-> 0]          \* T cond = 0;
  /\ pc = [p \in PEs |-> "start"]

-----------------------------------------------------------------------------
(* The hardware atomics, as the target word sees them.                     *)

\* MLX5_OPCODE_ATOMIC_CS / ipcAMOCas: store v if the word equals c.
CasResult(x, c, v) == IF x = c THEN v ELSE x

\* MLX5_OPCODE_ATOMIC_FA / ipcAMOAdd, wrapping at the word width.
AddResult(x, d) == (x + d) % (2^W)

\* Mutant: the loop gives up after its first CAS whatever it returned.
SetLoopExitsFirstTry(ret, c) == TRUE

\* Mutant: the loop lacks the "ret_val == cond" break and only stops on 0.
SetLoopExitsOnZeroOnly(ret, c) == ret = 0

\* The loop test of amo_set after a CAS returned ret with guess c:
\* while ((ret_val = atomic_fetch(..))) { if (ret_val == cond) break; ... }
SetLoopExits(ret, c) == ret = 0 \/ ret = c

-----------------------------------------------------------------------------
(* amo_set on the IPC path: ipcAMOSet is one atomic store.                 *)
IpcAmoSet(p) ==
  /\ pc[p] = "start"
  /\ call[p].kind = "set"
  /\ ipc[p]
  /\ word' = call[p].val
  /\ pc' = [pc EXCEPT ![p] = "done"]
  /\ UNCHANGED <<x0, call, ipc, cond>>

(* One iteration of the amo_set CAS loop on the queue-pair path: the CAS   *)
(* with the current guess, then the loop test on the value it returned.    *)
AmoSetCas(p) ==
  LET ret == word IN
  /\ pc[p] \in {"start", "loop"}
  /\ call[p].kind = "set"
  /\ ~ipc[p]
  /\ word' = CasResult(word, cond[p], call[p].val)
  /\ IF SetLoopExits(ret, cond[p])
       THEN /\ pc' = [pc EXCEPT ![p] = "done"]
            /\ UNCHANGED cond
       ELSE /\ cond' = [cond EXCEPT ![p] = ret]     \* cond = ret_val;
            /\ pc' = [pc EXCEPT ![p] = "loop"]
  /\ UNCHANGED <<x0, call, ipc>>

(* amo_cas / amo_fetch_cas: one CAS, on either path.                       *)
AmoCas(p) ==
  /\ pc[p] = "start"
  /\ call[p].kind = "cas"
  /\ word' = CasResult(word, call[p].cond, call[p].val)
  /\ pc' = [pc EXCEPT ![p] = "done"]
  /\ UNCHANGED <<x0, call, ipc, cond>>

(* amo_add / amo_fetch_add: one fetch-and-add, on either path.             *)
AmoAdd(p) ==
  /\ pc[p] = "start"
  /\ call[p].kind = "add"
  /\ word' = AddResult(word, call[p].val)
  /\ pc' = [pc EXCEPT ![p] = "done"]
  /\ UNCHANGED <<x0, call, ipc, cond>>

\* Once every call has returned the PEs stop issuing atomics.
Finished ==
  /\ \A p \in PEs : pc[p] = "done"
  /\ UNCHANGED vars

Next ==
  \/ \E p \in PEs : IpcAmoSet(p) \/ AmoSetCas(p) \/ AmoCas(p) \/ AmoAdd(p)
  \/ Finished

\* Each PE's calling thread keeps running until its call returns: the GPU
\* thread spins in the loop, nothing suspends it.
Fairness ==
  \A p \in PEs : WF_vars(IpcAmoSet(p) \/ AmoSetCas(p) \/ AmoCas(p) \/ AmoAdd(p))

Spec == Init /\ [][Next]_vars /\ Fairness

-----------------------------------------------------------------------------
(* The effect each call promises, one call at a time.                      *)
SeqEffect(x, c) ==
  CASE c.kind = "set" -> c.val
    [] c.kind = "cas" -> CasResult(x, c.cond, c.val)
    [] c.kind = "add" -> AddResult(x, c.val)

\* The values the word may hold after the calls ran one after the other in
\* some order, starting from init.
SequentialOutcomes(init) ==
  { FoldLeft(SeqEffect, init, [i \in DOMAIN order |-> call[order[i]]]) :
      order \in SetToSeqs(PEs) }

\* Atomicity of the calls (spec 4.2 and 8, "CAS-retry convergence"): once
\* every call has returned, the word holds a value that some serial order
\* of the same calls produces.  An amo_set whose CAS loop gives up without
\* storing its value leaves the word in a state no serial order reaches.
SerialOutcome ==
  (\A p \in PEs : pc[p] = "done") => word \in SequentialOutcomes(x0)

\* The same atomicity, for the histories in which every call is an
\* amo_set: concurrent amo_set calls, on either path, leave the value of
\* one of them, however their CAS iterations interleave.
SetsSerialOutcome ==
  (\A p \in PEs : call[p].kind = "set") => SerialOutcome

\* Every call returns: the amo_set CAS loop converges however the other
\* PEs' calls interleave with its iterations (spec 4.2: "never fails
\* permanently").
AllCallsReturn == <>(\A p \in PEs : pc[p] = "done")

=============================================================================
