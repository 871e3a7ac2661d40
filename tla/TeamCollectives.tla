---------------------------- MODULE TeamCollectives ----------------------------
(***************************************************************************)
(* The team collectives of GPUIBContext built from put/get and            *)
(* internal_sync (src/src/gpu_ib/context_ib_tmpl_device.hpp): broadcast    *)
(* (411-475), alltoall_broadcast (484-514), fcollect_broadcast (801-832),  *)
(* and the cluster ("gcen") variants alltoall_gcen (614-707),              *)
(* alltoall_gcen2 (709-790), fcollect_gcen (897-976) and fcollect_gcen2    *)
(* (978-1041), over a team of N PEs (the world, stride 1), one element per *)
(* block.                                                                  *)
(*                                                                         *)
(* The broadcast family: alltoall_broadcast and fcollect_broadcast put     *)
(* one block to every PE, themselves included, quiet and internal_sync     *)
(* over the team.  broadcast pushes (the root put_nbi's to every other PE) *)
(* when num_pes < 4 and pulls (every other PE get_wg's from the root)      *)
(* otherwise; the push path does not quiet before internal_sync.           *)
(*                                                                         *)
(* num_clust = floor(sqrt(N)) clusters of clust_size PEs.  Step 1: a PE    *)
(* gets, from every PE of its cluster, into pAta (for the all-to-all the   *)
(* blocks that PE sends to the PEs at its own position in every cluster,   *)
(* its "ring"; for fcollect that PE's src), and quiets.  Step 2: it puts,  *)
(* to each ring member, clust_size blocks of pAta into dst, and quiets.    *)
(* The variants differ in their synchronisation:                           *)
(*   gcen            after step 2, amo_add on the cluster leader's pSync2  *)
(*                   and on the ring leader's pSync[0]; each leader waits  *)
(*                   for its count, resets it and releases the members     *)
(*                   with put_nbi; members wait for the release and reset; *)
(*   gcen2,          the cluster amo_add is issued with the step-1 gets,   *)
(*   fcollect_gcen   before the quiet; after step 2 the cluster counter    *)
(*                   wait, then internal_sync over the ring group;         *)
(*   fcollect_gcen2  internal_sync over the cluster after step 1 and over  *)
(*                   the ring group after step 2, both on the same pSync.  *)
(* internal_sync is not in the repository's sources and is modelled from   *)
(* the spec (4.4) as a barrier no member leaves before all have entered.   *)
(*                                                                         *)
(* All gets of one PE from one source are one read, all puts of a block    *)
(* are one write; non-blocking operations complete in any order before the *)
(* quiet that waits for them.  Every PE makes NCalls calls in a row and    *)
(* its caller fills src for each call just before it.  Which collective    *)
(* the team runs is chosen once, from Variants.                            *)
(***************************************************************************)
EXTENDS Integers, FiniteSets

CONSTANTS
  N,          \* pe_size; the assertion num_clust * clust_size == pe_size holds
  NCalls,     \* calls every PE makes
  Variants,   \* the collectives the team may be running
  Root        \* pe_root of broadcast

ClusterVariants == {"gcen", "gcen2", "fcollect_gcen", "fcollect_gcen2"}
BcastFamily == {"alltoall_broadcast", "fcollect_broadcast", "broadcast"}
AllVariants == ClusterVariants \cup BcastFamily

PEs == 0 .. N - 1

\* int num_clust = sqrt(pe_size); int clust_size = (pe_size + num_clust - 1) / num_clust;
NumClust == CHOOSE k \in 1..N : k * k <= N /\ (k + 1) * (k + 1) > N
ClustSize == (N + NumClust - 1) \div NumClust

ASSUME N \in 2..9 /\ NCalls \in 1..2 /\ Variants \subseteq AllVariants /\ Root \in PEs
ASSUME Variants \cap ClusterVariants # {} => NumClust * ClustSize = N

\* if (num_pes < 4): the team is the world here.
Push == N < 4

ClustId(p) == p \div ClustSize
Pos(p) == p % ClustSize                          \* my_pe_in_team % clust_size
ClusterLeader(p) == ClustId(p) * ClustSize       \* dest_pe
RingLeader(p) == Pos(p)                          \* dest_pe2
Cluster(p) == {q \in PEs : ClustId(q) = ClustId(p)}
Ring(p) == {q \in PEs : Pos(q) = Pos(p)}

\* Element idx of PE q's src in its call c (fcollect's src is one block,
\* idx 0).
Val(q, idx, c) == [from |-> q, idx |-> idx, call |-> c]
Garbage == [from |-> -1, idx |-> -1, call |-> 0]

VARIABLES
  variant,  \* the collective the team runs
  pc,       \* pc[p]: "start","q1","sc","put","q2","cw","rw","sw","ret","done"
  callNo,   \* callNo[p]: the call p is in
  srcCall,  \* srcCall[q]: the call whose data the caller put into q's src
  pAta,     \* pAta[p][i]: element i of p's pAta
  dst,      \* dst[p][j]: block j of p's dst
  pSync2,   \* pSync2[p]: the cluster counter / release word of p
  pSync0,   \* pSync0[p]: pSync[0], the ring counter / release word of p
  entered,  \* entered[p]: internal_sync calls p has entered
  net       \* operations issued and not yet completed

vars == <<variant, pc, callNo, srcCall, pAta, dst, pSync2, pSync0, entered, net>>

IsFcollect == variant \in {"fcollect_gcen", "fcollect_gcen2", "fcollect_broadcast"}
IsBcast == variant \in BcastFamily
\* The variants whose cluster amo_add goes out with the step-1 gets.
EarlyAdd == variant \in {"gcen2", "fcollect_gcen"}

Init ==
  /\ variant \in Variants
  /\ pc = [p \in PEs |-> "start"]
  /\ callNo = [p \in PEs |-> 1]
  /\ srcCall = [p \in PEs |-> 1]      \* src of the first call is filled
  /\ pAta = [p \in PEs |-> [i \in PEs |-> Garbage]]
  /\ dst = [p \in PEs |-> [j \in PEs |-> Garbage]]
  /\ pSync2 = [p \in PEs |-> 0]
  /\ pSync0 = [p \in PEs |-> 0]
  /\ entered = [p \in PEs |-> 0]
  /\ net = {}

-----------------------------------------------------------------------------
(* The operations.                                                         *)

\* Step 1: get_nbi_wg from every src_pe = clust_id * clust_size + i % clust_size
\* of the cluster: one read per source.
GetsOf(p) ==
  {[kind |-> "get", from |-> p, to |-> q, call |-> callNo[p]] : q \in Cluster(p)}

\* Mutant: the source index uses the cluster id instead of the position.
SrcLocClustId(p, i) == (i \div ClustSize) * ClustSize + ClustId(p)

\* all-to-all: src_loc = (i / clust_size) * clust_size + my_pe % clust_size.
SrcLoc(p, i) == (i \div ClustSize) * ClustSize + Pos(p)

\* What a completed get of p from q writes into p's pAta: for the
\* all-to-all every i that q serves, with q's src[src_loc]; for fcollect
\* pAta[i] with q's src, for q = clust_id * clust_size + i.
GetResult(p, q) ==
  [i \in PEs |->
     IF IsFcollect
       THEN IF i = Pos(q) THEN Val(q, 0, srcCall[q]) ELSE pAta[p][i]
     ELSE IF ClustId(p) * ClustSize + (i % ClustSize) = q
       THEN Val(q, SrcLoc(p, i), srcCall[q]) ELSE pAta[p][i]]

\* Step 2: put_nbi_wg(&dst[clust_id * clust_size], &pAta[off], clust_size,
\* Pos + i * clust_size) for every cluster i; off is i * clust_size for the
\* all-to-all and 0 for fcollect.
PutsOf(p) ==
  {[kind |-> "put", from |-> p, to |-> Pos(p) + i * ClustSize, call |-> callNo[p],
    vals |-> [j \in ClusterLeader(p) .. ClusterLeader(p) + ClustSize - 1 |->
                pAta[p][IF IsFcollect THEN j - ClusterLeader(p)
                        ELSE i * ClustSize + j - ClusterLeader(p)]]] :
     i \in 0..NumClust - 1}

\* Mutant: alltoall_broadcast sends its own block, &src[my_pe * nelems].
AllBlockSelf(p, j) == Val(p, p, callNo[p])

\* The block alltoall_broadcast sends to PE j: &src[j * nelems].
AllBlock(p, j) == Val(p, j, callNo[p])

\* A put_nbi_wg from p to q of the dst blocks v.
PutOp(p, q, v) == [kind |-> "put", from |-> p, to |-> q, call |-> callNo[p], vals |-> v]

\* alltoall_broadcast: put_nbi_wg(&dst[my_pe_in_team * nelems],
\* &src[j * nelems], nelems, j) for every j of the team, itself included.
AlltoallBcastPuts(p) == {PutOp(p, j, [i \in {p} |-> AllBlock(p, j)]) : j \in PEs}

\* fcollect_broadcast: put_nbi_wg(&dst[my_pe_in_team * nelems], src,
\* nelems, j) for every j of the team.
FcollectBcastPuts(p) == {PutOp(p, j, [i \in {p} |-> Val(p, 0, callNo[p])]) : j \in PEs}

\* broadcast: the push from the root to every other PE of all of src, or
\* the pull (get_wg) of all of the root's src by every other PE.
BroadcastOps(p) ==
  CASE p = Root /\ Push -> {PutOp(p, q, [j \in PEs |-> Val(p, j, callNo[p])]) : q \in PEs \ {p}}
    [] p # Root /\ ~Push -> {[kind |-> "bget", from |-> p, to |-> Root, call |-> callNo[p]]}
    [] OTHER -> {}

\* What p issues in a call of the broadcast family.
BcastOpsOf(p) ==
  CASE variant = "alltoall_broadcast" -> AlltoallBcastPuts(p)
    [] variant = "fcollect_broadcast" -> FcollectBcastPuts(p)
    [] OTHER                          -> BroadcastOps(p)

\* Mutant: the "dest_pe != my_pe" test is dropped; a leader adds to itself.
AddToSelfToo(kind, p, leader) ==
  {[kind |-> kind, from |-> p, to |-> leader, call |-> callNo[p]]}

\* amo_add<int64_t>(counter, 1, leader) when the leader is not p itself.
AddTo(kind, p, leader) ==
  IF leader = p THEN {}
  ELSE {[kind |-> kind, from |-> p, to |-> leader, call |-> callNo[p]]}

\* Mutant: the release loop stops one member short.
ReleasesSkipLast(kind, p, members) ==
  LET last == CHOOSE q \in members : \A r \in members : r <= q IN
  {[kind |-> kind, from |-> p, to |-> q, call |-> callNo[p]] : q \in members \ {p, last}}

\* put_nbi(&flag, 1) from a leader to the other members of its group.
Releases(kind, p, members) ==
  {[kind |-> kind, from |-> p, to |-> q, call |-> callNo[p]] : q \in members \ {p}}

Pending(p, kinds) == {m \in net : m.from = p /\ m.kind \in kinds}

\* p enters internal_sync, whose group is then fixed by where p is.
EnterSync(p, where) ==
  /\ pc' = [pc EXCEPT ![p] = where]
  /\ entered' = [entered EXCEPT ![p] = @ + 1]

-----------------------------------------------------------------------------
(* The caller fills src (for the first call, before the run), then step 1 *)
(* issues the gets; gcen2 and fcollect_gcen also issue their cluster      *)
(* amo_add here, before the quiet.                                         *)
Begin(p) ==
  /\ pc[p] = "start"
  /\ ~IsBcast
  /\ srcCall' = [srcCall EXCEPT ![p] = callNo[p]]
  /\ net' = net \cup GetsOf(p)
            \cup (IF EarlyAdd THEN AddTo("add2", p, ClusterLeader(p)) ELSE {})
  /\ pc' = [pc EXCEPT ![p] = "q1"]
  /\ UNCHANGED <<variant, callNo, pAta, dst, pSync2, pSync0, entered>>

(* quiet(): every operation p issued so far has completed; fcollect_gcen2 *)
(* then enters internal_sync over its cluster.                            *)
(* A broadcast-family call issues its puts or its get; the push path goes *)
(* straight into internal_sync, the others wait for completion first.     *)
BcastBegin(p) ==
  /\ pc[p] = "start"
  /\ IsBcast
  /\ srcCall' = [srcCall EXCEPT ![p] = callNo[p]]
  /\ net' = net \cup BcastOpsOf(p)
  /\ IF variant = "broadcast" /\ Push
       THEN EnterSync(p, "sw")
       ELSE pc' = [pc EXCEPT ![p] = "q2"] /\ UNCHANGED entered
  /\ UNCHANGED <<variant, callNo, pAta, dst, pSync2, pSync0>>

Quiet1(p) ==
  /\ pc[p] = "q1"
  /\ Pending(p, {"get", "add2"}) = {}
  /\ IF variant = "fcollect_gcen2"
       THEN EnterSync(p, "sc")
       ELSE pc' = [pc EXCEPT ![p] = "put"] /\ UNCHANGED entered
  /\ UNCHANGED <<variant, callNo, srcCall, pAta, dst, pSync2, pSync0, net>>

Step2(p) ==
  /\ pc[p] = "put"
  /\ net' = net \cup PutsOf(p)
  /\ pc' = [pc EXCEPT ![p] = "q2"]
  /\ UNCHANGED <<variant, callNo, srcCall, pAta, dst, pSync2, pSync0, entered>>

\* What follows the step-2 quiet: gcen signals both leaders; fcollect_gcen2
\* and the broadcast family enter internal_sync over the ring group or the
\* team; the others go to the cluster counter wait.
AfterQuiet2(p) ==
  /\ net' = IF variant = "gcen"
              THEN net \cup AddTo("add2", p, ClusterLeader(p))
                       \cup AddTo("add0", p, RingLeader(p))
              ELSE net
  /\ IF variant = "fcollect_gcen2" \/ IsBcast
       THEN EnterSync(p, "sw")
       ELSE pc' = [pc EXCEPT ![p] = "cw"] /\ UNCHANGED entered

\* Mutant: the leaders are signalled without the quiet of step 2.
Quiet2NoWait(p) ==
  /\ pc[p] = "q2"
  /\ AfterQuiet2(p)
  /\ UNCHANGED <<variant, callNo, srcCall, pAta, dst, pSync2, pSync0>>

Quiet2(p) ==
  /\ pc[p] = "q2"
  /\ Pending(p, {"put", "bget"}) = {}
  /\ AfterQuiet2(p)
  /\ UNCHANGED <<variant, callNo, srcCall, pAta, dst, pSync2, pSync0>>

\* Where the cluster wait leads: gcen's ring wait, or the entry into
\* internal_sync over the ring group.
AfterClusterWait(p) ==
  IF variant = "gcen"
    THEN pc' = [pc EXCEPT ![p] = "rw"] /\ UNCHANGED entered
    ELSE EnterSync(p, "sw")

\* Mutant: a member leaves the cluster wait without resetting pSync2.
ClusterWaitNoReset(p) ==
  /\ pc[p] = "cw"
  /\ IF p = ClusterLeader(p)
       THEN /\ pSync2[p] = ClustSize - 1
            /\ net' = net \cup Releases("rel2", p, Cluster(p))
            /\ pSync2' = [pSync2 EXCEPT ![p] = 0]
       ELSE /\ pSync2[p] = 1
            /\ UNCHANGED <<net, pSync2>>
  /\ AfterClusterWait(p)
  /\ UNCHANGED <<variant, callNo, srcCall, pAta, dst, pSync0>>

(* The cluster leader waits for clust_size - 1 adds, resets and releases;  *)
(* a member waits for the release and resets.                             *)
ClusterWait(p) ==
  /\ pc[p] = "cw"
  /\ IF p = ClusterLeader(p)
       THEN /\ pSync2[p] = ClustSize - 1
            /\ net' = net \cup Releases("rel2", p, Cluster(p))
       ELSE /\ pSync2[p] = 1
            /\ UNCHANGED net
  /\ pSync2' = [pSync2 EXCEPT ![p] = 0]
  /\ AfterClusterWait(p)
  /\ UNCHANGED <<variant, callNo, srcCall, pAta, dst, pSync0>>

\* Mutant: the ring leader waits for one add fewer than num_clust - 1.
RingWaitEarly(p) ==
  /\ pc[p] = "rw"
  /\ IF p = RingLeader(p)
       THEN /\ pSync0[p] >= NumClust - 2
            /\ net' = net \cup Releases("rel0", p, Ring(p))
       ELSE /\ pSync0[p] = 1
            /\ UNCHANGED net
  /\ pSync0' = [pSync0 EXCEPT ![p] = 0]
  /\ pc' = [pc EXCEPT ![p] = "ret"]
  /\ UNCHANGED <<variant, callNo, srcCall, pAta, dst, pSync2, entered>>

(* gcen: the same with the ring leader's pSync[0] and num_clust - 1.      *)
RingWait(p) ==
  /\ pc[p] = "rw"
  /\ IF p = RingLeader(p)
       THEN /\ pSync0[p] = NumClust - 1
            /\ net' = net \cup Releases("rel0", p, Ring(p))
       ELSE /\ pSync0[p] = 1
            /\ UNCHANGED net
  /\ pSync0' = [pSync0 EXCEPT ![p] = 0]
  /\ pc' = [pc EXCEPT ![p] = "ret"]
  /\ UNCHANGED <<variant, callNo, srcCall, pAta, dst, pSync2, entered>>

(* internal_sync returns once every member of its group has entered it:   *)
(* the cluster after step 1 ("sc"), the ring group at the end ("sw").     *)
LeaveSync(p) ==
  LET group == CASE pc[p] = "sc" -> Cluster(p)
                  [] IsBcast     -> PEs
                  [] OTHER       -> Ring(p) IN
  /\ pc[p] \in {"sc", "sw"}
  /\ \A q \in group : entered[q] >= entered[p]
  /\ pc' = [pc EXCEPT ![p] = IF @ = "sc" THEN "put" ELSE "ret"]
  /\ UNCHANGED <<variant, callNo, srcCall, pAta, dst, pSync2, pSync0, entered, net>>

(* The call has returned; the PE makes its next call, if any.             *)
Return(p) ==
  /\ pc[p] = "ret"
  /\ IF callNo[p] < NCalls
       THEN pc' = [pc EXCEPT ![p] = "start"] /\ callNo' = [callNo EXCEPT ![p] = @ + 1]
       ELSE pc' = [pc EXCEPT ![p] = "done"] /\ UNCHANGED callNo
  /\ UNCHANGED <<variant, srcCall, pAta, dst, pSync2, pSync0, entered, net>>

(* An operation completes at its target.  A get reads the source's src as *)
(* it is at that moment.                                                   *)
Complete(m) ==
  /\ m \in net
  /\ net' = net \ {m}
  /\ CASE m.kind = "get" ->
            /\ pAta' = [pAta EXCEPT ![m.from] = GetResult(m.from, m.to)]
            /\ UNCHANGED <<dst, pSync2, pSync0>>
       [] m.kind = "put" ->
            /\ dst' = [dst EXCEPT ![m.to] =
                 [j \in PEs |-> IF j \in DOMAIN m.vals THEN m.vals[j] ELSE @[j]]]
            /\ UNCHANGED <<pAta, pSync2, pSync0>>
       [] m.kind = "bget" ->
            /\ dst' = [dst EXCEPT ![m.from] = [j \in PEs |-> Val(m.to, j, srcCall[m.to])]]
            /\ UNCHANGED <<pAta, pSync2, pSync0>>
       [] m.kind = "add2" -> pSync2' = [pSync2 EXCEPT ![m.to] = @ + 1]
                             /\ UNCHANGED <<pAta, dst, pSync0>>
       [] m.kind = "add0" -> pSync0' = [pSync0 EXCEPT ![m.to] = @ + 1]
                             /\ UNCHANGED <<pAta, dst, pSync2>>
       [] m.kind = "rel2" -> pSync2' = [pSync2 EXCEPT ![m.to] = 1]
                             /\ UNCHANGED <<pAta, dst, pSync0>>
       [] m.kind = "rel0" -> pSync0' = [pSync0 EXCEPT ![m.to] = 1]
                             /\ UNCHANGED <<pAta, dst, pSync2>>
  /\ UNCHANGED <<variant, pc, callNo, srcCall, entered>>

Finished ==
  /\ \A p \in PEs : pc[p] = "done"
  /\ net = {}
  /\ UNCHANGED vars

Step(p) ==
  \/ Begin(p) \/ BcastBegin(p) \/ Quiet1(p) \/ Step2(p) \/ Quiet2(p)
  \/ ClusterWait(p) \/ RingWait(p) \/ LeaveSync(p) \/ Return(p)

Next ==
  \/ \E p \in PEs : Step(p)
  \/ \E m \in net : Complete(m)
  \/ Finished

\* A PE's leader thread spins until its call returns, and the transport
\* completes every operation it accepted.  Every PE takes finitely many
\* steps (NCalls calls of a fixed number of phases), net only ever receives
\* finitely many operations, and a wait is a guard, never a spinning step:
\* every behaviour of Next is finite.  So weak fairness of Next as a whole,
\* which is weaker than fairness per PE and per NIC, already forbids
\* stopping while some step is enabled.
Fairness == WF_vars(Next)

Spec == Init /\ [][Next]_vars /\ Fairness

-----------------------------------------------------------------------------
TypeOK ==
  /\ variant \in Variants
  /\ pc \in [PEs -> {"start", "q1", "sc", "put", "q2", "cw", "rw", "sw", "ret", "done"}]
  /\ callNo \in [PEs -> 1..NCalls]
  /\ srcCall \in [PEs -> 1..NCalls]
  /\ pSync2 \in [PEs -> 0..ClustSize - 1]
  /\ pSync0 \in [PEs -> 0..NumClust - 1]
  /\ entered \in [PEs -> 0..2 * NCalls]

\* p's call c has returned.
Returned(p, c) == callNo[p] > c \/ (callNo[p] = c /\ pc[p] \in {"ret", "done"})

\* Block j of PE p's dst after call c: the all-to-all transposes (block p
\* of j's src), fcollect concatenates (j's src) in rank order, broadcast
\* copies the root's src.
Expected(p, j, c) ==
  CASE variant = "broadcast" -> Val(Root, j, c)
    [] IsFcollect            -> Val(j, 0, c)
    [] OTHER                 -> Val(j, p, c)

\* Broadcast, all-to-all transpose and fcollect concatenation (spec 4.6,
\* 4.7, 8): when a call returns, every block of the PE's dst holds what the
\* collective promises for this same call (broadcast leaves the root's dst
\* alone).
ResultAtReturn ==
  \A p \in PEs :
    pc[p] = "ret" /\ ~(variant = "broadcast" /\ p = Root) =>
      \A j \in PEs : dst[p][j] = Expected(p, j, callNo[p])

\* The caller owns src and dst again once the call returns (spec 5): no
\* get of a call is still reading a PE's src, and no put is still writing
\* its dst, after that PE returned from the call, and no get reads a src
\* its caller has not filled for the call yet.
BuffersReleasedAtReturn ==
  \A m \in net :
    /\ m.kind \in {"get", "bget"} => srcCall[m.to] = m.call /\ ~Returned(m.to, m.call)
    /\ m.kind = "put" => ~Returned(m.to, m.call)

\* Sync-slot idempotence (spec 3, 8): when every call has returned and
\* every operation completed, every pSync2 and pSync[0] is back at 0.
SyncAtBaseline ==
  (\A p \in PEs : pc[p] = "done") /\ net = {} =>
    \A p \in PEs : pSync2[p] = 0 /\ pSync0[p] = 0

\* Every call of every PE returns.
AllCallsReturn == <>(\A p \in PEs : pc[p] = "done")

-----------------------------------------------------------------------------
(* The two-level barrier as a barrier: a PE has arrived once its step-2    *)
(* quiet is done, and leaves when its call returns.  The PEs it must wait  *)
(* for are those that read its src (its cluster) and write its dst (its   *)
(* ring group).                                                            *)
BarrierGroup(p) == Cluster(p) \cup Ring(p)

BarrierPhase(p) ==
  CASE pc[p] \in {"start", "q1", "sc", "put", "q2"} -> "work"
    [] pc[p] \in {"cw", "rw", "sw"}            -> "arrived"
    [] OTHER                                  -> "left"

Barrier == INSTANCE GroupBarrier
             WITH Procs <- PEs, Group <- BarrierGroup, NRounds <- NCalls,
                  round <- callNo, phase <- [p \in PEs |-> BarrierPhase(p)]

\* The counters and releases implement a barrier over each PE's cluster and
\* ring group: no PE returns from a call before all of them arrived in it.
BarrierRefinement == Barrier!Spec

=============================================================================
