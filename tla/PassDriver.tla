------------------------------ MODULE PassDriver ------------------------------
(***************************************************************************)
(* GraphClustingByDevice over a whole module: a first loop over the func  *)
(* ops of moduleOp runs the replication pre-pass on each and collects it  *)
(* in originalFuncs; a second loop over originalFuncs runs the clustering *)
(* strategy on each function and either returns failure() on the first  *)
(* std::nullopt or materializes the metadata, which inserts one new func *)
(* op per metadata into the module right after the function.             *)
(*                                                                         *)
(* What happens inside one function is GraphClustering's: here it is     *)
(* abstracted to its outcome, nullopt or n metadata.  Functions are ids; *)
(* 1..NumFuncs are those of the input module, the others are created by  *)
(* createFunctions in the order of nextFn.                                *)
(***************************************************************************)
EXTENDS Naturals, Sequences, SequencesExt

CONSTANTS
    NumFuncs,   \* func ops of the input module
    MaxOut,     \* bound on the metadata one function yields
    MaxFuncs    \* bound on the func ops the module can hold

ASSUME NumFuncs <= MaxFuncs

Fn       == 1..MaxFuncs
InputFns == 1..NumFuncs

VARIABLES
    funcs,          \* Seq(Fn): the func ops of moduleOp, in module order
    originalFuncs,  \* Seq(Fn): the functions the first loop collected
    replicated,     \* the functions replicateDefiningOp ran on
    clusterRuns,    \* [Fn -> Nat]: strategy runs on each function
    nextFn,         \* the id of the next function createFunctions makes
    k,              \* position of the loop running
    failedFn,       \* the function emitError was called on, 0 for none
    dpc             \* "collect", "cluster", "success", "failure"

dvars == <<funcs, originalFuncs, replicated, clusterRuns, nextFn, k, failedFn, dpc>>

DInit ==
    /\ funcs = [i \in InputFns |-> i]
    /\ originalFuncs = <<>>
    /\ replicated = {}
    /\ clusterRuns = [f \in Fn |-> 0]
    /\ nextFn = NumFuncs + 1
    /\ k = 1
    /\ failedFn = 0
    /\ dpc = "collect"

\* One iteration of the first loop: replicateDefiningOp on each block of
\* the function (with the predicate over its terminator's operands), then
\* originalFuncs.push_back(funcOp).
Collect ==
    /\ dpc = "collect" /\ k <= Len(funcs)
    /\ replicated' = replicated \cup {funcs[k]}
    /\ originalFuncs' = Append(originalFuncs, funcs[k])
    /\ k' = k + 1
    /\ UNCHANGED <<funcs, clusterRuns, nextFn, failedFn, dpc>>

CollectDone ==
    /\ dpc = "collect" /\ k > Len(funcs)
    /\ dpc' = "cluster" /\ k' = 1
    /\ UNCHANGED <<funcs, originalFuncs, replicated, clusterRuns, nextFn, failedFn>>

\* symbolTable.insert(funcOp, metadata.insertionPoint++) with insertionPoint
\* = ++Block::iterator(f): the n new functions land between f and the op
\* that followed it, in metadata order.
InsertAfter(s, f, n) ==
    LET p == SelectInSeq(s, LAMBDA x : x = f)
    IN  SubSeq(s, 1, p) \o [i \in 1..n |-> nextFn + i - 1] \o SubSeq(s, p + 1, Len(s))

\* Mutant: the error is reported and the loop goes on to the next function.
ClusterWith_deferred(f) ==
    /\ clusterRuns' = [clusterRuns EXCEPT ![f] = @ + 1]
    /\ \/ /\ failedFn' = f /\ k' = k + 1
          /\ UNCHANGED <<funcs, nextFn, dpc>>
       \/ \E n \in 0..MaxOut :
            /\ nextFn + n - 1 <= MaxFuncs
            /\ funcs' = InsertAfter(funcs, f, n)
            /\ nextFn' = nextFn + n
            /\ k' = k + 1
            /\ UNCHANGED <<dpc, failedFn>>
    /\ UNCHANGED <<originalFuncs, replicated>>

\* One iteration of the second loop on function f: `if (!metadatas) return
\* failure();`, else createFunctions (n functions), createCalls and the
\* erasure, and the loop moves on.
ClusterWith(f) ==
    /\ clusterRuns' = [clusterRuns EXCEPT ![f] = @ + 1]
    /\ \/ /\ failedFn' = f /\ dpc' = "failure"
          /\ UNCHANGED <<funcs, nextFn, k>>
       \/ \E n \in 0..MaxOut :
            /\ nextFn + n - 1 <= MaxFuncs
            /\ funcs' = InsertAfter(funcs, f, n)
            /\ nextFn' = nextFn + n
            /\ k' = k + 1
            /\ UNCHANGED <<dpc, failedFn>>
    /\ UNCHANGED <<originalFuncs, replicated>>

\* Mutant: the second loop walks moduleOp.getOps<func::FuncOp>() itself.
ClusterFunc_live ==
    /\ dpc = "cluster" /\ k <= Len(funcs)
    /\ ClusterWith(funcs[k])

ClusterFunc ==
    /\ dpc = "cluster" /\ k <= Len(originalFuncs)
    /\ ClusterWith(originalFuncs[k])

\* `return success();`
ClusterDone ==
    /\ dpc = "cluster" /\ k > Len(originalFuncs)
    /\ dpc' = "success"
    /\ UNCHANGED <<funcs, originalFuncs, replicated, clusterRuns, nextFn, k, failedFn>>

\* The pass has returned.
Returned ==
    /\ dpc \in {"success", "failure"}
    /\ UNCHANGED dvars

DNext == Collect \/ CollectDone \/ ClusterFunc \/ ClusterDone \/ Returned

DSpec == DInit /\ [][DNext]_dvars

-----------------------------------------------------------------------------
(* Properties                                                              *)

\* The strategy runs at most once on each function of the input module and
\* never on a function the pass created: createFunctions inserts the new
\* functions right after the one being rewritten, so only the list the
\* first loop collected before any rewrite keeps the second loop from
\* clustering (and outlining again) what it has just outlined.
ClusteredOnceInputsOnly ==
    \A f \in Fn : clusterRuns[f] <= IF f \in InputFns THEN 1 ELSE 0

\* A failure aborts the module at the function that failed: every function
\* collected before it has been clustered (and stays outlined, with its new
\* functions in the module), and no function after it is touched.  This
\* is the partial state `return failure()` leaves; a loop that reports the
\* error and goes on would rewrite the functions after it as well.
FailureStopsPass ==
    failedFn # 0 =>
        LET p == SelectInSeq(originalFuncs, LAMBDA x : x = failedFn) IN
        \A i \in 1..Len(originalFuncs) :
            clusterRuns[originalFuncs[i]] = IF i <= p THEN 1 ELSE 0

=============================================================================
