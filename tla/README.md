# Model checking GraphClusteringByDevice

TLA+ models of `src/compiler/lib/Transforms/GraphClusteringByDevice.cpp`. This
pass takes the ops of a `func.func` that are not marked host, groups them into
contiguous, dependency-respecting device clusters, outlines those clusters into
new functions, and replaces them with calls.

## 1. The system: parts, state and operations

| Part | Source (lines) | State | Operations |
|---|---|---|---|
| Cluster algebra `ActiveDeviceCluster` | 157-372 | `operations` (SetVector of ops, kept in block order), `mergedInto` (union-find parent), the block's op order | `getRoot`, `isBeforeInBlock`, `computeMoveUpSet`, `computeMoveDownSet`, `tryMergeInto` (two branches, one per cluster order), `tryMerge` (lhs into rhs, then rhs into lhs) |
| Clustering helper | 374-492 | `op2cluster` (a DenseMap from op to cluster), `candidates` | constructor (host filter), `getCluster`, `populateCandidates` (work list in DenseMap order, stable sort by size, coalescing loop with erase-while-iterating, unstable final sort), `getFunctionMetadatas` (validation, `enableMultiGraph`) |
| Directed strategies | 494-549 | the op snapshot `ops`, `curCluster` | top-down: each op merged with its operands' clusters; bottom-up: each op, in reverse order, merged with its users' clusters |
| Host marking and fallback | 55-155 | `hostOps` (closure of host ops under operands) | `isHostOp`, `insertOpsRecursively`, `getFunctionMetadatasFallback` |
| Materialization | 551-660, 779-791 | the module's functions, the block, the return operands | `createFunctions`, `createCalls` (call before the metadata's last op, value mapping, `dupOutputs` return rewiring), reverse erase of the originals |
| Driver | 662-795 | `originalFuncs`, the module's func ops, strategy choice, greedy clones | `GraphClustingByDevice`: constant replication, then per function: strategy, failure on `nullopt`, materialize |
| Pass wrapper | 797-841 | options | forwards options |

How they interact: the constructor decides which ops take part (`op2cluster`).
The strategy calls `tryMerge` on pairs of clusters, which reorders the block
and merges union-find records. `populateCandidates` coalesces what is left and
ranks it. `getFunctionMetadatas` turns the ranked clusters into outlining
requests. The driver then materializes them. Each stage reads the block order
the previous stage left behind.

What makes this code hard to test:
* A merge moves the ops that lie between two clusters. It moves them either up
  above the earlier cluster or down below the later one, and rejects a whole
  gap cluster if any one of its ops cannot move. A wrong choice silently breaks
  SSA dominance or splits a cluster.
* The code's correctness rests on an invariant kept across many merges: every
  cluster stays contiguous in the block.
* A side effect sits inside `assert` (lines 249 and 280), so release and debug
  builds behave differently.
* Orders the code does not fix decide the result: operand and use order,
  DenseMap pointer order, and the ties `llvm::sort` leaves.
* The coalescing loop erases list entries while it iterates over the list.
* Validation rejection and the fallback paths rarely run.
* Greedy measures both strategies on clones and trusts that a re-run on the
  original gives the same result, although the DenseMap order differs.
* Materialization rewires values across metadata through one `IRMapping` and,
  with `dupOutputs`, through per-value index lists of the terminator.

## 2. Modules

| Module | Models | Kind |
|---|---|---|
| `ClusterLayout` | What a merge promises (spec §4.2): the block is always a topological order, each cluster is a contiguous run, and a merge concatenates two clusters in block order. | abstract specification |
| `ActiveDeviceCluster` | The cluster algebra: `tryMerge` called on any pair of clusters (or `nullptr`), for every dependency graph of N ops and every host choice. | component |
| `DeviceClustering` | The top-down and bottom-up strategies, `populateCandidates` and `getFunctionMetadatas`. It EXTENDS `ActiveDeviceCluster`, so every merge goes through the same definitions. | composition |
| `HostMarking` | `isHostOp`, `insertOpsRecursively`, the fallback's `hostOps`, and the constructor's filter (which ops get a cluster). | component |
| `Materialization` | `createFunctions`, `createCalls` and the reverse erasure of the originals, for any list of metadata. | component |
| `GraphClustering` | The driver `GraphClustingByDevice` on one function. Host marking decides `op2cluster`, then one of four strategies runs (top-down, bottom-up, greedy, fallback), failure on `nullopt`, then materialization. It EXTENDS `DeviceClustering`, and INSTANCEs `HostMarking` and `Materialization` (with `groups <- emitted`). | composition |
| `PassDriver` | The two module loops of `GraphClustingByDevice`. The first runs the replication hook on every function and collects `originalFuncs`. The second clusters each collected function, returns `failure()` on the first `nullopt`, and otherwise inserts the outlined functions right after it. What happens inside one function is `GraphClustering`'s, abstracted here to its outcome. | component |
| `MC_ActiveDeviceCluster`, `MC_DeviceClustering` (N = 4), `MC_DeviceClusteringLive` (N = 3), `MC_GraphClustering` (N = 3, up to 2 returned values), `MC_GraphClusteringGreedy` (N = 4, no returned values), `MC_PassDriver` (4 functions, up to 2 outlined each) | Bind the constants for TLC. | MC |

### State mapping (ActiveDeviceCluster)

Ops are the numbers `1..N`, in their original block order. The variables
correspond to the code as follows:
* `operands[o]` holds the ops whose results `o` uses. Regions nested in an op
  are folded into this relation. That is how `anyDefIn`/`anyUseIn` walk them,
  but the strategies' `getOperands()` (522) and `getUses()` (546) and
  `insertOpsRecursively` (67) look at direct operands and uses only. The
  model is therefore exact for functions without nested regions, and the
  region case is not checked.
  Only SSA-valid graphs are enumerated: an op uses only earlier ops.
* `clustered` is the key set of `op2cluster`. In `ActiveDeviceCluster` and
  `DeviceClustering` any subset is allowed, because any op may carry the host
  attribute. In `GraphClustering` it is computed by `HostMarking`.
* `block` is the block order, as a permutation.
* `operations[c]` and `mergedInto[c]` are the fields of the record of op `c`.
* `fault` records an `assert` that failed. In a release build it records
  undefined behaviour instead: `moveBefore` and `moveAfter` applied over a
  reversed range.
* The constant `NDEBUG` selects the build.

Each definition keeps its source name:
* `MoveUpStep` and `MoveDownStep` are the loop bodies of lines 236-257 and
  267-288.
* `Relocate` is the two `move*` loops.
* `Splice` is the `takeVector`/`insert` that concatenates the two lists.
* `TryMergeInto` is the whole function, with both branches.
* `TryMerge` is the whole two-direction attempt.

Path compression in `getRoot` is left out, because it never changes a root.

### State mapping (DeviceClustering)

* `pc` gives the phase, so one TLC step is one `tryMerge` call or one
  list-manipulation step.
* `opsList` is the snapshot `ops`.
* `i`, `pending` and `cur` are the loop index, the operands or uses not yet
  tried, and `curCluster`. The choice of `v ∈ pending` covers every operand
  order.
* `workList`, `head` and `iter` are the coalescing loop's `std::list`, its
  `cluster` and its iterator.
* `candidates`, `failed` and `emitted` are the helper's `candidates`, the
  `nullopt` result, and the metadata op lists.
* The DenseMap iteration order, the sort ties and `validateSubGraphFn` are all
  chosen nondeterministically. `MetadatasWith(accepted)` is
  `getFunctionMetadatas` for a given set of accepted candidates.
* `SortBySize` is `llvm::sort` of `candidates`: any reordering of the
  vector that is sorted by size, duplicates kept, so a coalescing loop that
  pushed a cluster twice is seen by `CandidatesCoverDeviceOps`.

### State mapping (HostMarking, Materialization, GraphClustering)

* `hostAttr` holds the ops `isHostOp` accepts (nested regions folded in).
  `constLike` holds the ops `isMhloConstantLike` accepts, chosen among the
  ops without operands. `retVals` holds the terminator's operands.
  `UseCount` counts the terminator's uses too, as `hasOneUse` does. It
  counts users, not uses: an op that uses the same value twice counts
  once, where `hasOneUse` (412) sees two uses. Operands are a set in the
  model, so that case is not represented.
* In `Materialization`, op `o`'s result is `<<o, 1>>`. The call for
  metadata `k` is item `N + k`, and its `j`-th result is `<<N + k, j>>`.
  `items` is the block being rewritten. `args[x]` is the set of values item
  `x` uses. `term` is the terminator's operand list. `mapping` is
  `createCalls`' `IRMapping`. `funcs` holds the outlined functions: each
  body op uses refs `<<"arg", i>>`, `<<"body", p>>`, or `<<"ext", o>>` for a
  value the mapping missed.
* `CreateCall` is one iteration of `createCalls`' loop:
  * the call goes in before the metadata's last op (`InsertAt` at that op);
  * its operands are the inputs passed twice through the mapping
    (`lookupOrDefault`, then the clone);
  * `WireResult` is the result loop, including the `dupOutputs` branch
    with `retOperand2Indices` (`RetIndices`, popped from the back).
* `EraseGroup` erases a metadata's ops last first. Erasing an op that is
  still used fails the assert of `~Operation`.
* `getInputsOfCluster` and `getOutputsOfCluster` live outside `src/`.
  `Inputs` and `Outputs` model them from spec §4.5: external operands, and
  results used outside the cluster, repeated per terminator multiplicity
  with `dupOutputs`.
* `GraphClustering` adds the greedy state:
  * `gphase`: which clone is running, or the final run;
  * `tdSize` and `buSize`: the accumulated op counts, with -1 for `nullopt`;
  * `verdict`: the answers the validator gave, by set of ops, so that the
    validator answers the same set the same way on the clones and on the
    original.
  `Rerun(a)` constructs a strategy on a fresh copy of the unclustered
  function. This is what both `funcOp.clone()` and the untouched original
  are.

## 3. Runs

| Run | cfg | Expect | Shows |
|---|---|---|---|
| merge_debug | `ActiveDeviceCluster_debug.cfg` | pass | Any sequence of `tryMerge` calls keeps the following, in a debug build: SSA order (`DefsBeforeUses`), contiguous clusters (`ClustersContiguous`), a union-find in which every clustered op belongs to exactly one root's list (`UnionFindPartition`), and no failed assert (`NoAssertionFailure`). |
| merge_refines_layout | `ActiveDeviceCluster_refines.cfg` | pass | `ActiveDeviceCluster` implements `ClusterLayout` under the mapping `parts <- {operations[c] : c ∈ Roots}`. |
| strategies | `DeviceClustering.cfg` | pass | Both strategies, with coalescing and metadata selection, over every operand order, DenseMap order and validator. The candidates are exactly the root clusters, covering every device op once (`CandidatesCoverDeviceOps`). Every emitted cluster is convex (`EmittedClustersConvex`). The merge asserts are checked in `merge_debug`, whose merge states include this run's. |
| strategies_terminate | `DeviceClustering_terminates.cfg` | pass | Under weak fairness, every loop of a strategy ends: `getFunctionMetadatas` returns, or an assert aborts (`ClusteringTerminates`). |
| strategies_reject_all | `DeviceClustering_reject.cfg` | violation | When the validator rejects every candidate, the pass succeeds with no partition, where spec §7 says it fails (finding 2). |
| strategies_release | `DeviceClustering_release.cfg` | violation | With `NDEBUG`, bottom-up merges across an op and places it above the definition of its operand (finding 1). |
| materialize | `GraphClustering_materialize.cfg` | pass | Top-down, bottom-up and greedy, followed by materialization, for every input. The rewritten block is valid SSA (`UsesDominated`). It computes what the original did (`DataflowPreserved`, spec §8 properties 1 and 4). With `dupOutputs`, each returned copy gets its own call result (`DupOutputsDistinct`, property 7). Outlined functions are closed (`FunctionsClosed`). No op still in use is erased (`NoAssertionFailure`). |
| fallback | `GraphClustering_fallback.cfg` | pass | The fallback's host and device metadata, once materialized, preserve dataflow through the cross-metadata mapping, and no assert fails. |
| fallback_dominance | `GraphClustering_fallback_dominance.cfg` | violation | In the fallback, a call can use the result of a call placed after it (finding 3). |
| host_closure | `GraphClustering_host_closure.cfg` | violation | An op used by a host op gets a device cluster, although spec §4.1 excludes the whole host set H (finding 4). |
| greedy_stale | `GraphClustering_greedy_stale.cfg` | violation | Greedy can return fewer ops than the strategy it chose covered on its clone (finding 5). |
| pass_driver | `PassDriver.cfg` | pass | The strategy runs at most once on each input function, and never on a function the pass created (`ClusteredOnceInputsOnly`). The outlined functions land right after the function being rewritten, so a loop over the live module would reach them next; the mutant that iterates the module instead of `originalFuncs` is caught. A failure leaves exactly the functions collected before the failing one rewritten, and none after it (`FailureStopsPass`); the mutant that reports the error and goes on is caught. |

Each property of a passing run has a mutant in `PROJECT.json`: a plausible
bug in the mapped code that TLC catches. Examples:
* dropping the whole-cluster cascade or the residual check;
* leaving the absorbed cluster's list in place;
* not erasing the merged work-list entry;
* a loop index not advanced;
* the call built at the terminator;
* every result wired to result 0;
* the `mapping.map` left out;
* the `dupOutputs` branch left out;
* the function's mapping not seeded with its arguments;
* the second module loop walking the live module list;
* a failing function reported, and the loop continued.

### State mapping (PassDriver)

* `funcs` is the module's list of func ops. Ids `1..NumFuncs` are the
  input functions; the pass numbers the ones it creates from `nextFn` on.
* `originalFuncs` is the vector of the same name. `replicated` holds the
  functions `replicateDefiningOp` has run on, and `clusterRuns[f]` counts
  the strategy runs on `f`.
* `Collect` is one iteration of the first loop (lines 676-696).
  `failedFn` is the function `emitError` is called on.
  `ClusterFunc` is one iteration of the second loop: `ClusterWith` fails,
  or creates `n ≤ MaxOut` functions, which `InsertAfter` places where
  `symbolTable.insert(funcOp, metadata.insertionPoint++)` puts them.

### Findings

1. **Side effect in assert (lines 249 and 280).** The statement
   `assert(remain.insert(clusterOp))` is compiled out with `NDEBUG`. In a
   release build the cluster mates of a rejected op vanish from both move sets.
   The merge then succeeds and leaves a host op above the device op it uses.
   TLC's trace at N = 4: op 3 is host and uses op 2, and op 4 uses ops 1 and 3.
   Bottom-up merges `{4}` into `{1}` and produces `<<3,1,2,4>>`.
2. **Rejected candidates (lines 445-465).** `getFunctionMetadatas` returns an
   empty vector, not `nullopt`, when `validateSubGraphFn` rejects every
   candidate. The pass then reports success and outlines nothing. Without
   `enableMultiGraph` it also goes on to the next candidate after rejecting the
   first.
3. **Fallback calls out of order (line 615).** `createCalls` puts each call
   before the last op of its metadata. The fallback's host metadata need not
   be contiguous, and it comes first. The trace: block `[1 host, 2(1), 3 host]`
   gives `[device call(host call.0), host call]`, a use before its definition.
4. **Host closure (line 409).** The constructor skips only ops that
   `isHostOp` accepts, plus constants used only by one host op. Spec §4.1
   excludes the closure H under operands. An op whose result a host op uses
   is clustered for the device.
5. **Greedy measures clones (line 741).** Greedy compares counts measured on
   two clones, then runs the winner again on the original, whose DenseMap
   iterates in another pointer order. The trace at N = 4, with a validator
   and without `enableMultiGraph`: bottom-up's clone coalesces `{1,2}`, which
   the validator accepts. The re-run coalesces `{2,4}` and leaves `{1}`, both
   rejected, so greedy outlines nothing. Without a validator no such case
   exists at N = 4.

### Bounds

* **`ActiveDeviceCluster` and `DeviceClustering`:** N = 4 ops.
  * Init enumerates every SSA dependency graph on 4 ops, with every host
    subset. Cascades of two-op gap clusters, nested move-up/move-down
    conflicts and both `tryMergeInto` branches all occur.
  * Findings 1 and 2 need only 4 ops.
  * At N = 5 the strategies run takes about 7 minutes, longer than a run
    may, so N = 5 has not been checked.
* **Liveness:** checked at N = 3. At N = 4 it did not finish within 30
  minutes.
* **`GraphClustering`:** N = 3, with terminators of 0 to 2 operands over any
  ops, every host and constant marking, and both values of `dupOutputs`.
  * Three ops give two metadata where one consumes the other's result, a
    value returned twice, and a host op between a device op and its user.
  * The greedy run takes N = 4 with no returned values, because at N = 3 both
    strategies always cover the same ops.
* **`PassDriver`:** 4 input functions, each failing or outlined into 0 to
  2 functions, with room for 12 functions in all (`MaxFuncs`, a bound on
  the ids only). The outlined functions of the first function already sit
  where the next iteration of a live loop would look.
* Clusters are bounded by N. No counter grows without a bound.

### Fairness and termination

The code is sequential and single-threaded: a step that is enabled is taken.
* `strategies_terminate` assumes weak fairness of `DStep`, which is justified
  for this reason. No other run assumes fairness.
* `Finished`, `GFinished` and `Returned` are the terminal steps: done, failed, or the
  process aborted on an assert. Deadlock checking therefore stays on.
* `ActiveDeviceCluster` always has a step: `tryMerge(nullptr, …)`, a no-op,
  is always enabled.

## 4. Not modelled, and what is left

* `replicateDefiningOp`, `isMhloConstantLike` and `isSplatMhloConstantLike`
  are outside `src/`.
  * The graphs enumerated include every graph the replication pre-pass can
    leave.
  * `constLike` is any subset of the ops without operands.
* `getInputsOfCluster` and `getOutputsOfCluster` are also outside `src/`.
  They are modelled from spec §4.5.
* Symbol-table renaming, types, attribute wording and the error message are
  naming and formatting, and no property is about them. The pass wrapper
  only forwards options.
* Call operands are a set in the model, not an ordered list. The order of a
  call's operands relative to its function's arguments is therefore not
  checked.
* The clustering of one function is modelled once (`GraphClustering`).
  Functions of a module do not interact except through the symbol table
  and the module's op list. `PassDriver` models that list and abstracts
  each function to its outcome.
* After `return failure()`, the functions already rewritten stay
  rewritten: there is no rollback, and none is modelled. `FailureStopsPass`
  states the extent of that partial rewrite.
* No abstract specification of materialization with a refinement.
  `DataflowPreserved` and `DupOutputsDistinct` already state what the
  rewrite promises about values. An atomic "replace each cluster by a
  call at its last op" specification would add only where the calls sit.
  For the convex clusters of the directed strategies, a call at the first
  op and a call at the last op give the same block once the originals are
  erased, so no mutant of `createCalls` could break it without also
  breaking `UsesDominated`. For the fallback it is violated anyway
  (finding 3).
* N = 5 for the strategies is out of the time budget.
