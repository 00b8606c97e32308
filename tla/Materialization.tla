--------------------------- MODULE Materialization ---------------------------
(***************************************************************************)
(* What GraphClustingByDevice does with the FunctionMetadata of one       *)
(* function: createFunctions (one outlined function per metadata),        *)
(* createCalls (one call per metadata, inserted before the metadata's     *)
(* last op, with the results rewired) and the erasure of the original     *)
(* ops, last op first.                                                     *)
(*                                                                         *)
(* Ops are 1..N with one result each, <<o, 1>>.  The call created for     *)
(* metadata k is item N + k and its j-th result is <<N + k, j>>.  items   *)
(* is the block (terminator left out), args[x] the values item x uses,    *)
(* term the terminator's operands.  groups holds metadata.ops of each     *)
(* metadata; its inputs and results are computed by getInputsOfCluster   *)
(* and getOutputsOfCluster, which live outside this file and are         *)
(* modelled from their description.                                       *)
(***************************************************************************)
EXTENDS Naturals, Sequences, SequencesExt, FiniteSets

CONSTANTS N, NDEBUG

Op == 1..N

VARIABLES
    operands,    \* [Op -> SUBSET Op], as clustering left it
    retVals,     \* Seq(Op): the terminator's operands before the pass
    dupOutputs,  \* the dupOutputs option
    block,       \* Seq(Op): the block after clustering
    groups,      \* Seq(Seq(Op)): metadata.ops of each metadata, in order
    items,       \* Seq of item ids: the block as the pass rewrites it
    args,        \* item id -> set of values it uses
    term,        \* Seq of values: operands of the terminator
    mapping,     \* createCalls' IRMapping: original value -> call result
    funcs,       \* the outlined functions created so far
    mpc,         \* "idle", "functions", "calls", "erase", "done"
    mk,          \* index of the metadata being processed
    fault        \* "none", or how the process died

mvars == <<items, args, term, mapping, funcs, mpc, mk>>

Val(o) == <<o, 1>>

Users(o) == {u \in Op : o \in operands[u]}

Count(o) == Cardinality({i \in 1..Len(retVals) : retVals[i] = o})

\* getInputsOfCluster(ops): the values ops use that no op of ops defines.
Inputs(g) ==
    LET ext == UNION {operands[o] : o \in ToSet(g)} \ ToSet(g)
        s   == SetToSortSeq(ext, LAMBDA a, b : a < b)
    IN  [i \in DOMAIN s |-> Val(s[i])]

\* getOutputsOfCluster(ops, dupOutputs ? &retStats : nullptr): the results
\* used outside ops, in op order; with retStats a value the terminator
\* returns k times is listed k times.
Outputs(g) ==
    LET times(o) == IF dupOutputs /\ Count(o) > 0 THEN Count(o) ELSE 1
        used(o)  == ~(Users(o) \subseteq ToSet(g)) \/ Count(o) > 0
    IN  FoldLeft(LAMBDA acc, o : IF used(o) THEN acc \o [i \in 1..times(o) |-> Val(o)]
                                            ELSE acc,
                 <<>>, g)

\* IRMapping::lookupOrDefault and IRMapping::map.
Lookup(m, v) == IF v \in DOMAIN m THEN m[v] ELSE v
Remap(m, v, nv) == [x \in DOMAIN m \cup {v} |-> IF x = v THEN nv ELSE m[x]]

Crashed == IF NDEBUG THEN "ub" ELSE "assert"

-----------------------------------------------------------------------------
(* createFunctions                                                         *)

\* A value inside the outlined function: its i-th argument, the result of
\* its p-th cloned op, or (a value the mapping missed) op o's result in the
\* original function.
FnRef(m, v) == IF v \in DOMAIN m THEN m[v] ELSE <<"ext", v[1]>>

\* Mutant: the mapping is not seeded with inputs[i] -> argument i.
FunctionOf_unseeded(g) ==
    LET step(acc, o) ==
            [body |-> Append(acc.body, {FnRef(acc.map, Val(d)) : d \in operands[o]}),
             map  |-> Remap(acc.map, Val(o), <<"body", Len(acc.body) + 1>>)]
        r == FoldLeft(step, [body |-> <<>>, map |-> <<>>], g)
    IN  [body |-> r.body, rets |-> [i \in DOMAIN Outputs(g) |-> FnRef(r.map, Outputs(g)[i])]]

\* The body of createFunctions' loop for one metadata: arguments mapped
\* to the inputs, each op cloned in metadata order through the mapping,
\* then a return of the mapped results.
FunctionOf(g) ==
    LET ins  == Inputs(g)
        seed == [v \in ToSet(ins) |-> <<"arg", SelectInSeq(ins, LAMBDA x : x = v)>>]
        step(acc, o) ==
            [body |-> Append(acc.body, {FnRef(acc.map, Val(d)) : d \in operands[o]}),
             map  |-> Remap(acc.map, Val(o), <<"body", Len(acc.body) + 1>>)]
        r == FoldLeft(step, [body |-> <<>>, map |-> seed], g)
    IN  [body |-> r.body, rets |-> [i \in DOMAIN Outputs(g) |-> FnRef(r.map, Outputs(g)[i])]]

Start ==
    /\ mpc = "idle"
    /\ items' = block
    /\ args' = [o \in Op |-> {Val(d) : d \in operands[o]}]
    /\ term' = [i \in DOMAIN retVals |-> Val(retVals[i])]
    /\ mapping' = <<>>
    /\ funcs' = <<>>
    /\ mpc' = "functions" /\ mk' = 1
    /\ UNCHANGED fault

CreateFunction ==
    /\ mpc = "functions" /\ mk <= Len(groups)
    /\ funcs' = Append(funcs, FunctionOf(groups[mk]))
    /\ mk' = mk + 1
    /\ UNCHANGED <<items, args, term, mapping, mpc, fault>>

\* The loop ends; createCalls starts with a fresh IRMapping.
FunctionsDone ==
    /\ mpc = "functions" /\ mk > Len(groups)
    /\ mpc' = "calls" /\ mk' = 1
    /\ UNCHANGED <<items, args, term, mapping, funcs, fault>>

-----------------------------------------------------------------------------
(* createCalls                                                             *)

\* Value::replaceAllUsesWith / replaceAllUsesExcept(new, retOp) on the
\* ops and calls of the block, and on the terminator.
ReplaceInArgs(a, v, nv) ==
    [x \in DOMAIN a |-> IF v \in a[x] THEN (a[x] \ {v}) \cup {nv} ELSE a[x]]
ReplaceInTerm(t, v, nv) == [i \in DOMAIN t |-> IF t[i] = v THEN nv ELSE t[i]]

\* retOperand2Indices: for each returned value the indices returning it,
\* pushed from the last operand to the first, so back() is the lowest.
RetIndices(t) ==
    [v \in ToSet(t) |-> SetToSortSeq({i \in DOMAIN t : t[i] = v}, LAMBDA a, b : a > b)]

\* Mutant: with dupOutputs the terminator is rewired like any other use.
WireResult_noDup(c, res, acc, j) ==
    [acc EXCEPT !.args = ReplaceInArgs(@, res[j], <<c, j>>),
                !.term = ReplaceInTerm(@, res[j], <<c, j>>),
                !.map  = Remap(@, res[j], <<c, j>>)]

\* Mutant: every original value is replaced by the call's first result.
WireResult_firstResult(c, res, acc, j) ==
    [acc EXCEPT !.args = ReplaceInArgs(@, res[j], <<c, 1>>),
                !.term = ReplaceInTerm(@, res[j], <<c, 1>>),
                !.map  = Remap(@, res[j], <<c, 1>>)]

\* Mutant: mapping.map(originalValue, newValue) is left out.
WireResult_noMap(c, res, acc, j) ==
    [acc EXCEPT !.args = ReplaceInArgs(@, res[j], <<c, j>>),
                !.term = ReplaceInTerm(@, res[j], <<c, j>>)]

\* One iteration of the loop over metadata.results: result j of call c
\* replaces the original value res[j]; with dupOutputs it takes every use
\* but the terminator's and then one terminator operand, the lowest index
\* still returning the value (an empty index list fails the assert).
WireResult(c, res, acc, j) ==
    LET v == res[j]
        nv == <<c, j>>
    IN
    IF ~dupOutputs
    THEN [acc EXCEPT !.args = ReplaceInArgs(@, v, nv),
                     !.term = ReplaceInTerm(@, v, nv),
                     !.map  = Remap(@, v, nv)]
    ELSE IF v \notin DOMAIN acc.idx
    THEN [acc EXCEPT !.args = ReplaceInArgs(@, v, nv), !.map = Remap(@, v, nv)]
    ELSE IF acc.idx[v] = <<>>
    THEN [acc EXCEPT !.args = ReplaceInArgs(@, v, nv), !.map = Remap(@, v, nv),
                     !.ok = FALSE]
    ELSE [acc EXCEPT !.args = ReplaceInArgs(@, v, nv), !.map = Remap(@, v, nv),
                     !.term = [@ EXCEPT ![Last(acc.idx[v])] = nv],
                     !.idx  = [@ EXCEPT ![v] = Front(@)]]

\* Installs call c, whose operands are the mapped inputs (mapped once by
\* lookupOrDefault, once more by cloning the call), before the metadata's
\* last op, then rewires its results.
InstallCall(c, g, pos, r) ==
    /\ items' = InsertAt(items, pos, c)
    /\ args' = r.args
    /\ term' = r.term
    /\ mapping' = r.map
    /\ fault' = IF r.ok THEN fault ELSE Crashed
    /\ mk' = mk + 1
    /\ UNCHANGED <<funcs, mpc>>

WireCall(c, g, withCall) ==
    LET res == Outputs(g) IN
    FoldLeft(LAMBDA acc, j : WireResult(c, res, acc, j),
             [args |-> withCall, term |-> term, map |-> mapping,
              idx |-> RetIndices(term), ok |-> TRUE],
             [j \in 1..Len(res) |-> j])

CallArgs(g) == {Lookup(mapping, Lookup(mapping, v)) : v \in ToSet(Inputs(g))}

\* Mutant: the builder is set before the terminator, not before the
\* metadata's last op.
CreateCall_atTerminator ==
    /\ mpc = "calls" /\ mk <= Len(groups)
    /\ InstallCall(N + mk, groups[mk], Len(items) + 1,
                   WireCall(N + mk, groups[mk],
                            [x \in DOMAIN args \cup {N + mk} |->
                                IF x = N + mk THEN CallArgs(groups[mk]) ELSE args[x]]))

CreateCall ==
    /\ mpc = "calls" /\ mk <= Len(groups)
    /\ InstallCall(N + mk, groups[mk],
                   SelectInSeq(items, LAMBDA x : x = Last(groups[mk])),
                   WireCall(N + mk, groups[mk],
                            [x \in DOMAIN args \cup {N + mk} |->
                                IF x = N + mk THEN CallArgs(groups[mk]) ELSE args[x]]))

CallsDone ==
    /\ mpc = "calls" /\ mk > Len(groups)
    /\ mpc' = "erase" /\ mk' = 1
    /\ UNCHANGED <<items, args, term, mapping, funcs, fault>>

-----------------------------------------------------------------------------
(* Erasure of the originals                                                *)

\* The value of op o is still used by an item of its or the terminator.
StillUsed(its, o) ==
    \/ \E x \in ToSet(its) \ {o} : Val(o) \in args[x]
    \/ Val(o) \in ToSet(term)

\* `for (i = ops.size() - 1; i >= 0; i--) ops[i]->erase();`; erasing an
\* op whose result still has uses fails the assert of ~Operation.
EraseGroup(g) ==
    FoldLeft(LAMBDA acc, o :
                 [items |-> SelectSeq(acc.items, LAMBDA x : x # o),
                  ok    |-> acc.ok /\ ~StillUsed(acc.items, o)],
             [items |-> items, ok |-> TRUE], Reverse(g))

ApplyErase(r) ==
    /\ items' = r.items
    /\ fault' = IF r.ok THEN fault ELSE Crashed
    /\ mk' = mk + 1
    /\ UNCHANGED <<args, term, mapping, funcs, mpc>>

EraseOriginals ==
    /\ mpc = "erase" /\ mk <= Len(groups)
    /\ ApplyErase(EraseGroup(groups[mk]))

EraseDone ==
    /\ mpc = "erase" /\ mk > Len(groups)
    /\ mpc' = "done"
    /\ UNCHANGED <<items, args, term, mapping, funcs, mk, fault>>

\* One step of materialization; a fault ends the process.
MNext ==
    /\ fault = "none"
    /\ \/ Start \/ CreateFunction \/ FunctionsDone \/ CreateCall \/ CallsDone
       \/ EraseOriginals \/ EraseDone
    /\ UNCHANGED <<operands, retVals, dupOutputs, block, groups>>

=============================================================================
