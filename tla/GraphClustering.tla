--------------------------- MODULE GraphClustering ---------------------------
(***************************************************************************)
(* GraphClustingByDevice on one function: host marking and the clustering *)
(* constructor (HostMarking), a strategy (top-down or bottom-up through    *)
(* DeviceClustering, or getFunctionMetadatasFallback), the failure when    *)
(* no metadata vector comes back, and else createFunctions, createCalls   *)
(* and the erasure of the originals (Materialization).                    *)
(*                                                                         *)
(* The input is any SSA dependency graph of N ops, any host marking, any   *)
(* constants among the ops without operands, any terminator of at most    *)
(* MaxRet operands and either value of dupOutputs.  The replication       *)
(* pre-pass (replicateDefiningOp, outside this file) is left out: the     *)
(* graphs enumerated include every graph it can leave.                    *)
(***************************************************************************)
EXTENDS DeviceClustering

CONSTANTS
    Algos,    \* the clusterAlgo values checked: "top_down", "bottom_up",
              \* "greedy", "fallback"
    MaxRet    \* bound on the number of terminator operands

VARIABLES
    hostAttr, constLike, retVals, dupOutputs,
    items, args, term, mapping, funcs, mpc, mk,
    gphase,   \* greedy: "td" / "bu" (a clone is clustered), "final"; else "none"
    tdSize,   \* greedy: ops covered by top-down on its clone, -1 for nullopt
    buSize,   \* greedy: the same for bottom-up
    verdict   \* the answers validateSubGraphFn gave so far, by set of ops

ASSUME N > 0

hostVars   == <<hostAttr, constLike, retVals, dupOutputs>>
matVars    == <<items, args, term, mapping, funcs, mpc, mk>>
greedyVars == <<gphase, tdSize, buSize, verdict>>
gVars      == <<allVars, hostVars, matVars, greedyVars>>

Host == INSTANCE HostMarking
M    == INSTANCE Materialization WITH groups <- emitted

-----------------------------------------------------------------------------

\* The fallback strategy starts from the unchanged block.
FallbackInit ==
    /\ algo = "fallback" /\ pc = "fallback"
    /\ opsList = block /\ i = 0 /\ cur = Nil /\ pending = {}
    /\ workList = <<>> /\ head = Nil /\ iter = 1
    /\ candidates = <<>> /\ failed = FALSE /\ emitted = <<>>

GInit ==
    /\ Init
    /\ Host!InputsOK(MaxRet)
    /\ dupOutputs \in BOOLEAN
    /\ clustered = Host!ClusterableOps
    /\ \E a \in Algos :
         CASE a = "fallback" -> FallbackInit /\ gphase = "none"
           [] a = "greedy"   -> StrategyInit("top_down") /\ gphase = "td"
           [] OTHER          -> StrategyInit(a) /\ gphase = "none"
    /\ tdSize = -1 /\ buSize = -1 /\ verdict = <<>>
    /\ items = <<>> /\ args = <<>> /\ term = <<>> /\ mapping = <<>>
    /\ funcs = <<>> /\ mpc = "idle" /\ mk = 1

\* getFunctionMetadatasFallback once the host closure H is known: a host
\* metadata of H in block order when H is not empty (never validated), and
\* a device metadata of every other op when there is one, which a
\* rejecting validateSubGraphFn turns into std::nullopt.
FallbackWith(H) ==
    LET hostG == SelectSeq(block, LAMBDA o : o \in H)
        devG  == SelectSeq(block, LAMBDA o : o \notin H)
    IN  \E accepted \in BOOLEAN :
          /\ failed' = (devG # <<>> /\ HasValidateFn /\ ~accepted)
          /\ emitted' = IF failed' THEN <<>>
                        ELSE (IF H # {} THEN <<hostG>> ELSE <<>>)
                             \o (IF devG # <<>> THEN <<devG>> ELSE <<>>)

Fallback ==
    /\ fault = "none" /\ pc = "fallback"
    /\ FallbackWith(Host!HostOps(block))
    /\ pc' = "done"
    /\ UNCHANGED <<vars, algo, opsList, i, pending, cur, workList, head, iter,
                   candidates, hostVars, matVars, greedyVars>>

-----------------------------------------------------------------------------
(* Validation and the greedy strategy                                      *)

\* validateSubGraphFn judges the ops it is given, whatever their order: an
\* answer given for a set of ops on a clone is given again for it on the
\* original.
Consistent(accepted) ==
    \A c \in ToSet(candidates) :
        ToSet(operations[c]) \in DOMAIN verdict =>
            (verdict[ToSet(operations[c])] <=> c \in accepted)

Remember(accepted) ==
    [S \in DOMAIN verdict \cup {ToSet(operations[c]) : c \in ToSet(candidates)} |->
        IF S \in DOMAIN verdict THEN verdict[S]
        ELSE \E c \in accepted : ToSet(operations[c]) = S]

\* getFunctionMetadatas of any strategy object, with that validator.
ValidatedMetadatas ==
    /\ fault = "none" /\ pc = "metadata"
    /\ \E accepted \in SUBSET ToSet(candidates) :
         /\ Consistent(accepted)
         /\ MetadatasWith(accepted)
         /\ verdict' = IF gphase = "none" \/ ~HasValidateFn THEN verdict
                       ELSE Remember(accepted)
    /\ UNCHANGED <<hostVars, matVars, gphase, tdSize, buSize>>

Origin == [k \in 1..N |-> k]

\* A strategy object of algorithm a constructed on a fresh copy of the
\* function as it was before any clustering (funcOp.clone(), or the
\* original, which the clones leave untouched), and its loop at op 1.
Rerun(a) ==
    LET ops   == IF a = "top_down" THEN Origin ELSE Reverse(Origin)
        first == ops[1]
    IN  /\ block' = Origin
        /\ operations' = [c \in Op |-> IF c \in clustered THEN <<c>> ELSE <<>>]
        /\ mergedInto' = [c \in Op |-> Nil]
        /\ algo' = a /\ opsList' = ops /\ pc' = "merge" /\ i' = 1
        /\ cur' = IF first \in clustered THEN first ELSE Nil
        /\ pending' = IF a = "top_down" THEN operands[first] ELSE Users(first)
        /\ workList' = <<>> /\ head' = Nil /\ iter' = 1
        /\ candidates' = <<>> /\ failed' = FALSE /\ emitted' = <<>>
        /\ UNCHANGED <<operands, clustered, fault>>

\* The std::accumulate of metadata.ops.size() over the metadata, or -1
\* for nullopt.
CoveredSize == IF failed THEN -1 ELSE FoldLeft(LAMBDA acc, g : acc + Len(g), 0, emitted)

\* Top-down on its clone is done; bottom-up runs on the other clone.
MeasureTopDown ==
    /\ fault = "none" /\ gphase = "td" /\ pc = "done"
    /\ tdSize' = CoveredSize
    /\ gphase' = "bu"
    /\ Rerun("bottom_up")
    /\ UNCHANGED <<hostVars, matVars, buSize, verdict>>

\* Both clones are measured: the strategy covering more ops (bottom-up on
\* a tie) is run again on the original, or the only one that succeeded;
\* metadatas stays nullopt when neither did.
ChooseWith(bu) ==
    /\ buSize' = bu
    /\ gphase' = "final"
    /\ CASE tdSize >= 0 /\ bu >= 0 -> Rerun(IF tdSize > bu THEN "top_down" ELSE "bottom_up")
         [] tdSize >= 0            -> Rerun("top_down")
         [] bu >= 0                -> Rerun("bottom_up")
         [] OTHER -> /\ failed' = TRUE /\ emitted' = <<>>
                     /\ UNCHANGED <<vars, algo, pc, opsList, i, pending, cur,
                                    workList, head, iter, candidates>>
    /\ UNCHANGED <<hostVars, matVars, tdSize, verdict>>

ChooseStrategy ==
    /\ fault = "none" /\ gphase = "bu" /\ pc = "done"
    /\ ChooseWith(CoveredSize)

\* `if (!metadatas) return failure();`, else the metadata are materialized.
Materialize ==
    /\ pc = "done" /\ ~failed /\ gphase \in {"none", "final"}
    /\ M!MNext
    /\ UNCHANGED <<operands, clustered, operations, mergedInto, driverVars,
                   hostAttr, constLike, greedyVars>>

\* The function is done: the pass failed, the rewrite is complete, or the
\* process died on an assert.
GFinished ==
    /\ \/ pc = "done" /\ gphase \in {"none", "final"} /\ (failed \/ mpc = "done")
       \/ fault # "none"
    /\ UNCHANGED gVars

GNext ==
    \/ fault = "none" /\ Clustering /\ UNCHANGED <<hostVars, matVars, greedyVars>>
    \/ ValidatedMetadatas
    \/ MeasureTopDown
    \/ ChooseStrategy
    \/ Fallback
    \/ Materialize
    \/ GFinished

GSpec == GInit /\ [][GNext]_gVars

-----------------------------------------------------------------------------
(* Properties                                                              *)

\* The original value a value of the rewritten function stands for: result
\* j of the call of metadata k stands for results[j] of that metadata.
Resolve(v) == IF v[1] > N THEN M!Outputs(emitted[v[1] - N])[v[2]] ELSE v

\* The rewritten block is valid IR: every op and call comes after the
\* items defining the values it uses, and the terminator returns values
\* of items still in the block.  createCalls puts each call before the
\* last op of its metadata and rewires the users of its results, so this
\* rests on where the metadata's ops lie relative to their users.
UsesDominated ==
    mpc = "done" =>
        /\ \A p \in 1..Len(items) :
              \A v \in args[items[p]] : v[1] \in ToSet(SubSeq(items, 1, p - 1))
        /\ \A r \in 1..Len(term) : term[r][1] \in ToSet(items)

\* Dataflow preservation (spec, testable properties 1 and 4): after the
\* calls are wired and the originals erased, the block holds exactly the
\* ops of no metadata plus one call per metadata; every terminator operand
\* stands for the value it returned before, every call is fed the values
\* its metadata's inputs stand for, and every op left uses what it used.
DataflowPreserved ==
    mpc = "done" =>
        /\ ToSet(items) = (Op \ UNION {ToSet(g) : g \in ToSet(emitted)})
                         \cup {N + k : k \in DOMAIN emitted}
        /\ \A r \in 1..Len(term) : Resolve(term[r]) = M!Val(retVals[r])
        /\ \A x \in ToSet(items) :
              {Resolve(v) : v \in args[x]} =
                  IF x <= N THEN {M!Val(d) : d \in operands[x]}
                  ELSE ToSet(M!Inputs(emitted[x - N]))

\* Multi-multiplicity preservation (spec, testable property 7): with
\* dupOutputs, two terminator operands share a call result never: a value
\* returned k times is replaced by k distinct results, one per
\* retOperand2Indices entry popped.
DupOutputsDistinct ==
    (mpc = "done" /\ dupOutputs) =>
        \A r1, r2 \in 1..Len(term) :
            (r1 # r2 /\ term[r1] = term[r2]) => term[r1][1] <= N

\* Every outlined function is closed: each cloned op uses arguments or ops
\* cloned before it, never a value of the original function, and its
\* return yields cloned values or arguments.
FunctionsClosed ==
    \A k \in DOMAIN funcs :
        /\ \A p \in DOMAIN funcs[k].body :
              \A ref \in funcs[k].body[p] :
                  ref[1] = "arg" \/ (ref[1] = "body" /\ ref[2] < p)
        /\ \A q \in DOMAIN funcs[k].rets : funcs[k].rets[q][1] \in {"arg", "body"}

\* Greedy (spec section 4.3): "pick whichever yields a larger total covered
\* operation count".  The metadata greedy returns cover at least as many
\* ops as each strategy covered when it was measured on its clone; the
\* winner is run again on the original, with the DenseMap op2cluster of
\* other Operation pointers.
GreedyCoversMost ==
    (gphase = "final" /\ pc = "done" /\ fault = "none") =>
        /\ CoveredSize >= tdSize
        /\ CoveredSize >= buSize

\* Spec section 4.1: the host set H, closed under operands, is excluded
\* from clusters ("host-marked operations are never entered into any
\* cluster").  The constructor of DeviceClusteringAlgoBaseHelper tests
\* isHostOp on each op itself.
ExcludesHostClosure == clustered \cap Host!HostOps(block) = {}

=============================================================================
