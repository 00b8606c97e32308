----------------------------- MODULE HostMarking -----------------------------
(***************************************************************************)
(* Which ops of the block run on the host, in GraphClusteringByDevice.cpp: *)
(* isHostOp, the operand closure insertOpsRecursively that the fallback    *)
(* strategy builds, and the filter by which the constructor of             *)
(* DeviceClusteringAlgoBaseHelper decides which ops get a cluster.         *)
(*                                                                         *)
(* Nested regions are folded into the op that holds them: hostAttr is the  *)
(* set of ops that carry attrName = "host" themselves or hold an op that   *)
(* does (the recursion of isHostOp over regions), and operands[o] already  *)
(* includes the values used inside o's regions.  constLike is the set of   *)
(* ops isMhloConstantLike accepts; retVals lists the terminator's          *)
(* operands, each the result of an op.                                     *)
(***************************************************************************)
EXTENDS Naturals, Sequences, SequencesExt, FiniteSets, FiniteSetsExt

CONSTANT N

Op == 1..N

VARIABLES
    operands,    \* [Op -> SUBSET Op]
    hostAttr,    \* SUBSET Op
    constLike,   \* SUBSET Op
    retVals      \* Seq(Op): operands of the terminator

Users(o) == {u \in Op : o \in operands[u]}

\* isHostOp(op, attrName)
IsHostOp(o) == o \in hostAttr

\* insertOpsRecursively(op, opSet): op and every op it reaches through
\* the defining ops of operands, stopping at ops already in the set.
RECURSIVE InsertOpsRecursively(_, _)
InsertOpsRecursively(o, S) ==
    IF o \in S THEN S
    ELSE FoldSet(LAMBDA d, acc : InsertOpsRecursively(d, acc),
                 S \cup {o}, operands[o])

\* hostOps of getFunctionMetadatasFallback: the closure of every host op
\* of the block, `block` being the block's op order.
HostOps(block) ==
    FoldLeft(LAMBDA acc, o : IF IsHostOp(o) THEN InsertOpsRecursively(o, acc)
                                           ELSE acc,
             {}, block)

\* Value::hasOneUse counts every use, those of the terminator included.
UseCount(o) == Cardinality(Users(o)) + Cardinality({i \in 1..Len(retVals) : retVals[i] = o})

\* The constructor's loop body: host ops get no cluster, nor does a
\* constant whose only use is by a host op.
Clusterable(o) ==
    /\ ~IsHostOp(o)
    /\ ~(o \in constLike /\ UseCount(o) = 1 /\ \E u \in Users(o) : IsHostOp(u))

ClusterableOps == {o \in Op : Clusterable(o)}

\* The inputs the pass can meet: any host marking, constants among the ops
\* without operands, and a terminator returning up to maxRet values.
InputsOK(maxRet) ==
    /\ hostAttr \in SUBSET Op
    /\ constLike \in SUBSET {o \in Op : operands[o] = {}}
    /\ retVals \in BoundedSeq(Op, maxRet)

=============================================================================
