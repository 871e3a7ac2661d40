# TLA+ models of rocSHMEM's GPU-IB device collectives and atomics

This directory holds TLA+ models of the device-side code of the GPU-IB
backend, `src/src/gpu_ib/context_ib_tmpl_device.hpp`. That file holds the
remote atomics, the reductions, the broadcasts, the all-to-all and
full-collect algorithms, and the point-to-point wrappers. Every run is listed
in `PROJECT.json`, together with its properties, its mutants, the source lines
behind every definition, the findings and the hazards.

## The system and how its parts interact

Each PE runs a GPU kernel. A collective is called by one work-group per PE.
The work-group's threads split the element loops among themselves and meet at
`__syncthreads`. Thread 0 alone issues `fence`, `quiet`, flag puts and
`wait_until`.

PEs talk only through one-sided operations on the symmetric heap:

- `putmem_nbi`, `getmem_nbi` and atomics go into a per-destination queue pair
  (RDMA).
- The `ipcImpl_` path uses direct loads and stores.
- `fence()` orders the puts to one PE.
- `quiet()` waits until every operation the PE issued has completed.

The collectives synchronise through scratch arrays of the team: `pSync`,
`pWrk` and `pAta`. Some also call `internal_sync`, a barrier whose body is not
in this repository's sources.

Parts:

| Part | Code (lines of the .hpp) | Module |
|---|---|---|
| Remote atomics: `amo_add`, `amo_cas`, `amo_set`, and the fetch forms | 295-409 | `AmoSet` |
| `to_all`: choice and sizing of the algorithm | 192-237 | `ToAllPlan` |
| Direct all-reduce | 36-43, 114-166 | `DirectAllreduce`, refines `Allreduce` |
| Ring all-reduce | 50-112 | `RingAllreduce`, refines `Allreduce` |
| Bruck all-to-all and `fcollect_brucks` | 516-612, 834-895 | `BruckIndex`, `BruckLockstep`, `BruckAlltoall` |
| Broadcast (push and pull), `alltoall_broadcast`, `fcollect_broadcast` | 411-514, 792-832 | `TeamCollectives` |
| Cluster all-to-all and fcollect: `gcen`, `gcen2`, `fcollect_gcen`, `fcollect_gcen2` | 614-790, 897-1041 | `TeamCollectives`; `gcen` refines `GroupBarrier` |
| `g()` and the point-to-point wrappers | 40-48, 240-290, 1043- | not yet |
| Test programs and examples | `src/tests`, `src/examples` | not modelled |
| Reverse-offload host context | declarations only | not modelled |

## Modelling conventions

- **One step per phase.** A PE's work-group is one process. Each action is a
  phase between two `__syncthreads`: the whole element loop, plus what thread
  0 does there. Threads inside a work-group never touch the same element in
  the same phase, so this loses no interleaving that matters. The exception is
  `g()`'s coalescer, which is listed as not yet modelled.
- **Transport.** It is modelled from the queue-pair semantics of spec 4.1,
  because the queue pair's code is not in these sources.
  - In `DirectAllreduce` and `RingAllreduce`, each ordered pair of PEs has a
    channel, a sequence of issued operations. `Deliver` places any message
    that has no fenced message before it: unfenced operations may overtake
    each other, and `fence()` is modelled by the `fenced` mark on the message
    that follows it.
  - In `TeamCollectives`, operations in flight form a set `net`. `quiet()` is the
    guard "none of my operations is pending".
  - A get reads its source at the moment it completes, not when it was
    issued.
- **Data.** A value is a record that says whose it is and, where calls can
  mix, which call it belongs to. A reduction is a bag union of contributions,
  so "reduced exactly once" is "equals the bag of every PE's contribution".
- **`internal_sync`** is marked `spec_modelled` in the map. It is an ideal
  barrier: no member leaves before every member has entered (a counter
  `entered` per PE). It does not wait for the caller's own operations: spec
  4.4 describes it as increments and waits on counters, not as a quiet.
- **One module for the team collectives.** `TeamCollectives` holds the seven
  collectives that are built from non-blocking put/get, quiet and barriers.
  The collective is a variable `variant`, chosen once from the constant
  `Variants`, so one run covers several of them. The actions are the phases
  the collectives share (issue, quiet, counter wait, ring wait,
  `internal_sync`), and their guards name the variant.
- **Abstract specifications.** Two modules state what a component promises,
  with no transport and no scratch arrays:
  - `Allreduce`: to_all as one atomic step per PE, with the reduction of the
    call's contributions as its result;
  - `GroupBarrier`: a barrier over a group of each PE.
  The detailed modules instantiate them with `INSTANCE ... WITH` a mapping
  of `pc`, `callNo` and `dst`, and check the abstract `Spec` as a `PROPERTY`.
- **Sizes.** `ToAllPlan` scales the size constants down together: MinWrk=4
  for 1024, Chunk=4 for 1024, SyncSize 6 or 8. With these, every branch of
  `to_all` is reached with `nreduce <= 30`.

## Runs

Pass runs:

- **amo_atomics** (3 PEs, each issuing one `amo_set`, `amo_cas` or
  `amo_add` on a one-bit word, on the IPC or the queue-pair path, from either
  initial value).
  - When every call is an `amo_set`, the word ends at one of the set values
    (`SetsSerialOutcome`).
  - Every call returns, the CAS loop included, whatever the others do
    (`AllCallsReturn`).
- **direct_allreduce** (3 PEs, one call). In any delivery order allowed by
  the fences, the algorithm implements the atomic all-reduce of `Allreduce`
  (`AllreduceRefinement`). No PE returns before every PE has entered the
  call, and each returns the bag of all contributions to that call. `pSync`
  ends at baseline (`SyncAtBaseline`), and every PE returns.
- **ring_allreduce** (3 PEs, 2 segments, one call, `Team` the world). The
  same refinement of `Allreduce`: every chunk of every segment is reduced
  exactly once. Every PE returns. The constant `Team` is the set of PEs that
  call `to_all`. The ring itself ignores it: `PE_start`, `logPE_stride` and
  `PE_size` are `[[maybe_unused]]`, and `send_pe` is `(my_pe + 1) % num_pes`.
  - The refinement mapping, in both modules: a PE is working until its copy,
    inside the call until its last fold, and returned, with `dst` as its
    result, from then until its next call.
  - At 4 PEs the ring run passes in 20 s. A mutant's counterexample,
    however, only appears at the depth of a whole call, which takes TLC
    7 minutes to reach; so the run keeps 3 PEs.
- **toall_plan** (`num_pes` 2..4, `nreduce` 1..30). Direct or ring stays
  inside `dst`, inside the `pWrk` the caller must provide, and inside
  `ROCSHMEM_REDUCE_SYNC_SIZE` (`ScratchInBounds`).
- **bruck_lockstep**. The index arithmetic gives the transpose for team sizes
  1..16 with one element, and for powers of two with 2..3 elements
  (`LockstepIsTranspose`). `fcollect_brucks` gives the rank-ordered
  concatenation for the same sizes (`FcollectIsConcat`).
- **cluster_gcen** (4 PEs, 2x2 clusters, one call of `alltoall_gcen`,
  `alltoall_broadcast` or `broadcast`, which pulls at four PEs).
  - The result is right at return (`ResultAtReturn`): the transpose or the
    root's `src`.
  - No get of a PE's `src` and no put into its `dst` is pending once that PE
    has returned (`BuffersReleasedAtReturn`).
  - Barrier counters are reset.
  - The synchronisation implements `GroupBarrier` over cluster and ring
    (`BarrierRefinement`). For the broadcast family it is `internal_sync`
    over the whole team.
- **cluster_others** (4 PEs, one call of `alltoall_gcen2`, `fcollect_gcen`,
  `fcollect_gcen2` or `fcollect_broadcast`). The result is right (the
  transpose or the concatenation), the cluster counter is reset, and
  every PE returns. These variants do not refine `GroupBarrier`:
  `fcollect_gcen2` lets a PE return while a cluster peer is still putting
  into other PEs, which is harmless because only its ring group writes its
  `dst`.

Violation runs, the disagreements found. Each is described in `findings`.

- **amo_set_mixed**. `amo_set` racing an `amo_cas` or `amo_add` can exit its
  loop without storing. After a failed first CAS its guess is non-zero; if
  another PE then moves the word to 0, the next CAS fails, returns 0, and
  the `while` test at line 349 exits.
- **toall_cover**. The ring's `n_seg` and `chunk_size` truncate, so trailing
  elements are not reduced. At real sizes, 2 PEs with nreduce=1100 leave
  elements 1024..1099 unreduced.
- **bruck_remainder**. `data_size`'s remainder term misses `* nelems` (line
  576).
- **bruck_round_race**. Round s+1's `put_wg` overwrites a peer's `dst` before
  the peer unpacked round s. There is only one barrier per round.
- **cluster_src_race**. `alltoall_gcen2` (line 756) and `fcollect_gcen`
  (line 942) signal their leader before the quiet of their gets. The leader
  can return while its `src` is still being read.

Back-to-back calls and sub-teams. Five more disagreements were found while modelling. They
are recorded as hazards in `PROJECT.json`, each with the constants that show
it, rather than as runs:

- A second direct all-reduce overwrites `pWrk` that is still unreduced
  (`DirectAllreduce`, NCalls=2, `AllreduceRefinement`). The slow PE returns
  a bag holding the fast PE's call-2 contribution.
- The ring's final `pSync` reset wipes the neighbour's next flag, so the PE
  deadlocks (`RingAllreduce`, N=2, NCalls=2, `AllCallsReturn`).
- The ring on a team smaller than the world waits for a PE that never calls
  `to_all`. It also puts into that PE's `pWrk` and `pSync`
  (`RingAllreduce`, N=3, Team={0, 1}: a deadlock with PEs 0 and 1 in the
  wait of line 84).
- `gcen` has no entry barrier, so a fast PE's next call reads stale `src`
  (`TeamCollectives`, NCalls=2, Variants={"gcen"}, `ResultAtReturn`).
- An unsupported `to_all` size only prints, then returns
  (`ToAllPlan`, NumPes={4}, NReduce={2}).

The push broadcast (N=3, Variants={"broadcast"}) is in the same list. Its
root's `put_nbi_wg`s can still be in flight when the others leave
`internal_sync`. That result depends on `internal_sync` having no quiet,
and its body is not in these sources.

Spec 8 says back-to-back collectives succeed, and spec 4.5 says an unsupported
size aborts.

Every property of a pass run has a mutant in `PROJECT.json`: a plausible bug
in the mapped definition that TLC shows the property catches.

## Bounds

- **3 PEs** is the smallest team where a PE's sender and receiver differ, and
  where unfenced puts from two sources interleave.
- **4 PEs** is the smallest team that `gcen` accepts with more than one
  cluster, and the smallest at which `broadcast` pulls.
- **Two calls** are enough to expose every cross-call race above.
- **Two segments** exercise the reuse of ring flags across segments.

## Fairness

- Weak fairness on each PE's step. A running kernel's work-group keeps
  executing.
- Weak fairness on delivery and completion. The NIC eventually completes
  every posted operation.

`wait_until` spins, so a waiting PE is enabled only once its flag is set.
Liveness therefore needs no strong fairness.

`TeamCollectives` assumes only `WF_vars(Next)`, which is weaker than the
fairness above. Each PE makes at most NCalls calls of a fixed number of
phases, and `net` receives finitely many operations, so every behaviour of
`Next` is finite. Weak fairness of the whole relation then already forbids
stopping while a step is enabled. It also makes the liveness runs lighter.

`fcollect_broadcast` runs in `cluster_others`, not `cluster_gcen`. It issues
no get, so `BuffersReleasedAtReturn` says nothing about it. Its control is
that of `alltoall_broadcast` (the same puts, quiet and `internal_sync`), and
`cluster_gcen` checks `BarrierRefinement` on that control.

## Not modelled, and the plan

1. `g()`'s coalescing path, which returns an uninitialised `ret`, and `p()`,
   which hands the address of its by-value parameter to `putmem_nbi`. The
   same question arises for the release puts of `flag_val`, a local of the
   cluster collectives (lines 684, 698, 778, 964), and for
   `internal_direct_allreduce`, which returns without a quiet on its
   `putmem_nbi_wg` from the caller's `src` (line 133): `DirectAllreduce`
   reads `src` at issue. Each depends on the
   coalescer or the queue pair (when a put reads its source), and neither is
   in these sources.
2. The test programs and examples. What they can show is decided by calls
   whose bodies are not in these sources: `rocshmem_malloc`'s initial
   contents, `barrier_all`, `wait_until`, `wait_until_all`, `put_signal`, and
   the host `p` and `test` (`context_ro_host.hpp` only declares them). Their
   hazards are listed at the lines where they bite: the initialisation races
   of `shmem_test.cpp` and the `getmem` example, `ping_all_tester`'s `r_buf`
   that is never reset, and `put_signal`'s signal word that is never
   initialised.
3. Whether `fcollect_gcen2`'s two `internal_sync`s collide on `pSync`. This
   needs `internal_sync`'s counter layout, which is not in these sources.
   Also whether `internal_sync` drains the caller's puts: `fcollect_brucks`'
   `put_wg` (line 879) completes only locally before the barrier.
   `BruckLockstep` places each round's puts at the barrier.
4. Not modelled at all:
   - the unsupported atomics (`assert(false)`) and the size assertions;
   - the reverse-offload host context, whose methods are only declared;
   - the team and host setup code, which is pure I/O.
