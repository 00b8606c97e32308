--------------------------- MODULE DeviceClustering ---------------------------
(***************************************************************************)
(* The clustering strategies of GraphClusteringByDevice.cpp on one         *)
(* function: TopDownDeviceClustering / BottomUpDeviceClustering::          *)
(* mergeDeviceClustersProgressively, then                                  *)
(* DeviceClusteringAlgoBaseHelper::populateCandidates and                  *)
(* getFunctionMetadatas.  Every tryMerge is one step, through the cluster  *)
(* algebra of ActiveDeviceCluster.                                         *)
(*                                                                         *)
(* Orders the code does not fix are chosen nondeterministically: the order *)
(* of an op's operands or uses (any order is a possible input), the        *)
(* iteration order of the DenseMap op2cluster, which depends on pointer    *)
(* values, and the order llvm::sort leaves clusters of equal size in.      *)
(* The caller's validateSubGraphFn is any predicate on clusters.           *)
(***************************************************************************)
EXTENDS ActiveDeviceCluster

CONSTANTS
    EnableMultiGraph,   \* enableMultiGraph
    HasValidateFn       \* validateSubGraphFn != nullptr

ASSUME EnableMultiGraph \in BOOLEAN /\ HasValidateFn \in BOOLEAN

VARIABLES
    algo,        \* "top_down" or "bottom_up"
    pc,          \* "merge", "populate", "coalesce", "sort", "metadata", "done"
    opsList,     \* the ops vector snapshotted before merging
    i,           \* index in opsList of the op being processed
    pending,     \* its operands (top-down) or users (bottom-up) not yet tried
    cur,         \* curCluster
    workList,    \* populateCandidates' std::list of clusters
    head,        \* the cluster popped from workList, or Nil
    iter,        \* the position of the iterator in workList
    candidates,  \* DeviceClusteringAlgoBaseHelper::candidates
    failed,      \* getFunctionMetadatas returned std::nullopt
    emitted      \* op lists of the returned FunctionMetadata, in order

driverVars == <<algo, pc, opsList, i, pending, cur, workList, head, iter,
                candidates, failed, emitted>>
allVars == <<vars, driverVars>>

\* Mutant: getCluster without the op2cluster.find(op) == end() test.
GetCluster_noLookup(o) == GetRoot(o)

\* getCluster(op): the root of op's cluster, or nullptr outside op2cluster.
GetCluster(o) == IF o \in clustered THEN GetRoot(o) ELSE Nil

\* The ops whose clusters are tried against op o's cluster.
Neighbours(o) == IF algo = "top_down" THEN operands[o] ELSE Users(o)

Size(c) == Len(operations[c])

\* Every order of the clusters of S sorted by descending size.
SortedBySize(S) ==
    {s \in SetToSeqs(S) : \A a, b \in 1..Len(s) : a < b => Size(s[a]) >= Size(s[b])}

\* llvm::sort of a vector: every reordering of its entries, duplicates
\* kept, that is sorted by descending size.
SortBySize(v) ==
    {s \in {[j \in DOMAIN v |-> v[p[j]]] : p \in SetToSeqs(DOMAIN v)} :
        \A a, b \in 1..Len(s) : a < b => Size(s[a]) >= Size(s[b])}

\* Sets up op `k` of opsList as the one being processed.
Visit(k) ==
    /\ i' = k
    /\ cur' = GetCluster(opsList[k])
    /\ pending' = Neighbours(opsList[k])

-----------------------------------------------------------------------------

\* The strategy object's construction for algorithm a: the ops vector
\* snapshotted (reversed bottom-up) and the loop at its first op.
StrategyInit(a) ==
    /\ algo = a
    /\ opsList = IF a = "top_down" THEN block ELSE Reverse(block)
    /\ \/ N = 0 /\ pc = "populate" /\ i = 0 /\ cur = Nil /\ pending = {}
       \/ N > 0 /\ pc = "merge" /\ i = 1 /\ cur = GetCluster(opsList[1])
                /\ pending = Neighbours(opsList[1])
    /\ workList = <<>> /\ head = Nil /\ iter = 1
    /\ candidates = <<>> /\ failed = FALSE /\ emitted = <<>>

DInit == Init /\ \E a \in {"top_down", "bottom_up"} : StrategyInit(a)

\* Inner loop body: `if (auto merged = tryMerge(getCluster(v), curCluster))
\* curCluster = merged;` for one operand (top-down) or use owner
\* (bottom-up) v not yet tried, with m the outcome of that tryMerge.
MergeNeighbourWith(m, v) ==
    /\ Perform(m)
    /\ pending' = pending \ {v}
    /\ cur' = Survivor(m, cur)
    /\ UNCHANGED <<algo, pc, opsList, i, workList, head, iter, candidates, failed, emitted>>

MergeNeighbour ==
    /\ pc = "merge"
    /\ \E v \in pending : MergeNeighbourWith(MergeOutcome(GetCluster(v), cur), v)

\* Mutant: the outer loop index is not advanced.
NextOp_noAdvance ==
    /\ pc = "merge" /\ pending = {}
    /\ IF i < Len(opsList)
       THEN Visit(i) /\ UNCHANGED pc
       ELSE pc' = "populate" /\ UNCHANGED <<i, cur, pending>>
    /\ UNCHANGED <<vars, algo, opsList, workList, head, iter, candidates, failed, emitted>>

\* Outer loop: the next op, or populateCandidates once all are done.
NextOp ==
    /\ pc = "merge" /\ pending = {}
    /\ IF i < Len(opsList)
       THEN Visit(i + 1) /\ UNCHANGED pc
       ELSE pc' = "populate" /\ UNCHANGED <<i, cur, pending>>
    /\ UNCHANGED <<vars, algo, opsList, workList, head, iter, candidates, failed, emitted>>

\* populateCandidates: collect the roots of op2cluster in DenseMap order
\* and stable-sort them by descending size.
Populate ==
    /\ pc = "populate"
    /\ workList' \in SortedBySize(Roots)
    /\ candidates' = <<>>
    /\ pc' = "coalesce"
    /\ UNCHANGED <<vars, algo, opsList, i, pending, cur, head, iter, failed, emitted>>

\* cluster = workList.front(); workList.pop_front(); iter = begin.
PopHead ==
    /\ pc = "coalesce" /\ head = Nil /\ workList # <<>>
    /\ head' = workList[1]
    /\ workList' = Tail(workList)
    /\ iter' = 1
    /\ UNCHANGED <<vars, algo, pc, opsList, i, pending, cur, candidates, failed, emitted>>

\* Mutant: the merged-away entry is left in the work list.
AbsorbWith_noErase(m) ==
    /\ Perform(m)
    /\ head' = Survivor(m, head)
    /\ iter' = iter + 1
    /\ UNCHANGED workList
    /\ UNCHANGED <<algo, pc, opsList, i, pending, cur, candidates, failed, emitted>>

\* `if (auto merged = tryMerge(*iter, cluster))`, with m its outcome: on
\* success cluster = merged and the entry is erased (the iterator then
\* points at the next entry), otherwise iter++.
AbsorbWith(m) ==
    /\ Perform(m)
    /\ IF m.kind = "into"
       THEN /\ head' = Survivor(m, head)
            /\ workList' = RemoveAt(workList, iter)
            /\ UNCHANGED iter
       ELSE /\ iter' = iter + 1
            /\ UNCHANGED <<head, workList>>
    /\ UNCHANGED <<algo, pc, opsList, i, pending, cur, candidates, failed, emitted>>

Absorb ==
    /\ pc = "coalesce" /\ head # Nil /\ iter <= Len(workList)
    /\ AbsorbWith(MergeOutcome(workList[iter], head))

\* candidates.push_back(cluster) once the iterator reaches the end; the
\* final llvm::sort once the work list is empty.
PushCandidate ==
    /\ pc = "coalesce" /\ head # Nil /\ iter > Len(workList)
    /\ candidates' = Append(candidates, head)
    /\ head' = Nil
    /\ UNCHANGED <<vars, algo, pc, opsList, i, pending, cur, workList, iter, failed, emitted>>

SortCandidates ==
    /\ pc = "coalesce" /\ head = Nil /\ workList = <<>>
    /\ candidates' \in SortBySize(candidates)
    /\ pc' = "metadata"
    /\ UNCHANGED <<vars, algo, opsList, i, pending, cur, workList, head, iter, failed, emitted>>

\* getFunctionMetadatas with `accepted` the candidates validateSubGraphFn
\* accepts: nullopt without a non-empty first candidate; then every
\* candidate accepted, or only the first one accepted without
\* enableMultiGraph.
MetadatasWith(accepted) ==
    LET ok(c) == Size(c) > 0 /\ (~HasValidateFn \/ c \in accepted)
        kept  == SelectSeq(candidates, ok)
    IN  /\ failed' = (candidates = <<>> \/ Size(candidates[1]) = 0)
        /\ emitted' = CASE failed'                        -> <<>>
                        [] EnableMultiGraph \/ kept = <<>>
                             -> [k \in 1..Len(kept) |-> operations[kept[k]]]
                        [] OTHER -> <<operations[kept[1]]>>
        /\ pc' = "done"
        /\ UNCHANGED <<vars, algo, opsList, i, pending, cur, workList, head, iter, candidates>>

Metadatas ==
    /\ pc = "metadata"
    /\ \E accepted \in SUBSET ToSet(candidates) : MetadatasWith(accepted)

\* The clustering of this function is over, or the process aborted.
Finished ==
    /\ pc = "done" \/ fault # "none"
    /\ UNCHANGED allVars

\* The strategy's merging and populateCandidates.
Clustering ==
    \/ MergeNeighbour \/ NextOp \/ Populate \/ PopHead \/ Absorb
    \/ PushCandidate \/ SortCandidates

DStep == fault = "none" /\ (Clustering \/ Metadatas)

DNext == DStep \/ Finished

DSpec == DInit /\ [][DNext]_allVars

\* The pass runs on one thread with no waiting: an enabled step is taken.
DFairSpec == DSpec /\ WF_allVars(DStep)

-----------------------------------------------------------------------------
(* Properties                                                              *)

\* The ops that use, directly or through other ops, a result of an op of S.
RECURSIVE Downstream(_)
Downstream(S) ==
    LET next == S \cup UNION {Users(o) : o \in S}
    IN  IF next = S THEN S ELSE Downstream(next)

Feeds(a, b) == b \in Downstream(Users(a))

\* Candidates' and results' shapes, and the driver's bookkeeping.
DTypeOK ==
    /\ algo \in {"top_down", "bottom_up"}
    /\ pc \in {"merge", "populate", "coalesce", "metadata", "done"}
    /\ opsList \in Seq(Op) /\ i \in 0..N /\ pending \subseteq Op
    /\ cur \in clustered \cup {Nil}
    /\ workList \in Seq(clustered) /\ head \in clustered \cup {Nil}
    /\ iter \in 1..(N + 1)
    /\ candidates \in Seq(clustered)
    /\ failed \in BOOLEAN /\ emitted \in Seq(Seq(Op))

\* Coverage (spec, testable property 1): once populateCandidates is over,
\* the candidates are exactly the root clusters, each listed once, so every
\* device op is in exactly one candidate; the progressive coalescing loop,
\* which erases list entries while iterating, loses none and keeps none
\* that was merged away.
CandidatesCoverDeviceOps ==
    pc \in {"metadata", "done"} =>
        /\ Len(candidates) = Cardinality(ToSet(candidates))
        /\ ToSet(candidates) = Roots
        /\ UNION {ToSet(operations[c]) : c \in ToSet(candidates)} = clustered

\* Every emitted cluster is convex in the dataflow graph: no op outside it
\* both uses a result of the cluster and feeds an op of it.  A non-convex
\* cluster cannot be outlined into one function called in one place.
EmittedClustersConvex ==
    pc = "done" =>
        \A k \in 1..Len(emitted) :
            \A a, b \in ToSet(emitted[k]) : \A x \in Op \ ToSet(emitted[k]) :
                ~(Feeds(a, x) /\ Feeds(x, b))

\* Every loop of the strategy ends (merging, the coalescing loop that
\* erases entries of the list it walks, metadata): getFunctionMetadatas
\* returns, or an assert aborted the process.
ClusteringTerminates == <>(pc = "done" \/ fault # "none")

\* Spec section 7: when the candidate(s) fail validateSubGraphFn the pass
\* fails ("unresolvable clustering"); it never ends with no partition.
RejectedClusteringFails ==
    pc = "done" => (failed \/ emitted # <<>>)

=============================================================================
