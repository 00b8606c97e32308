------------------------- MODULE ActiveDeviceCluster -------------------------
(***************************************************************************)
(* The cluster algebra of GraphClusteringByDevice.cpp: the union-find     *)
(* records of struct ActiveDeviceCluster, the move-up / move-down sets    *)
(* computed for the ops lying between two clusters, and tryMerge /        *)
(* tryMergeInto, which relocate those ops inside the single block of the  *)
(* function and splice the two op lists.                                  *)
(*                                                                         *)
(* Ops are 1..N; op i has one result, and operands[i] is the set of ops   *)
(* whose results i (or an op nested in its regions) uses.  Because the    *)
(* block starts in SSA order, operands[i] \subseteq 1..i-1 initially.     *)
(* clustered is the key set of op2cluster: the ops the constructor of     *)
(* DeviceClusteringAlgoBaseHelper gave a singleton cluster.  A cluster    *)
(* record is identified by the op that keys it in op2cluster.             *)
(*                                                                         *)
(* The environment of this module calls tryMerge on any two root         *)
(* clusters, in any order; the clustering strategies (modelled in         *)
(* DeviceClustering) call it on particular pairs.                         *)
(***************************************************************************)
EXTENDS Naturals, Sequences, SequencesExt, FiniteSets

CONSTANTS
    N,          \* number of non-terminator ops in the block
    NDEBUG      \* TRUE for a release build: assert(...) is compiled out

ASSUME N \in Nat /\ NDEBUG \in BOOLEAN

Op  == 1..N
Nil == 0        \* the null ActiveDeviceCluster* / absent mergedInto

VARIABLES
    operands,    \* [Op -> SUBSET Op]: def-use edges of the block (fixed)
    clustered,   \* SUBSET Op: keys of op2cluster (fixed after construction)
    block,       \* Seq(Op): the block's ops in order, terminator left out
    operations,  \* [Op -> Seq(Op)]: ActiveDeviceCluster::operations
    mergedInto,  \* [Op -> Op \cup {Nil}]: ActiveDeviceCluster::mergedInto
    fault        \* "none", or "assert"/"ub" once an assert fires (debug)
                 \* or the code runs into undefined behaviour (release)

vars == <<operands, clustered, block, operations, mergedInto, fault>>

-----------------------------------------------------------------------------
(* Def-use structure of the block.                                         *)

Users(o) == {u \in Op : o \in operands[u]}

\* All dependency graphs of k ops in SSA order: op i uses only ops < i.
RECURSIVE DepGraphs(_)
DepGraphs(k) ==
    IF k = 0 THEN {<<>>}
    ELSE {Append(g, s) : g \in DepGraphs(k - 1), s \in SUBSET (1..(k - 1))}

Pos(o) == SelectInSeq(block, LAMBDA x : x = o)

\* Operation::isBeforeInBlock
IsBeforeInBlock(a, b) == Pos(a) < Pos(b)

\* The ops strictly between a and b in the block.
Between(a, b) == SubSeq(block, Pos(a) + 1, Pos(b) - 1)

-----------------------------------------------------------------------------
(* struct ActiveDeviceCluster                                              *)

\* getRoot(); path compression only shortens mergedInto chains and never
\* changes the root reached, so it is left out.
RECURSIVE GetRoot(_)
GetRoot(c) == IF mergedInto[c] = Nil THEN c ELSE GetRoot(mergedInto[c])

Roots == {c \in clustered : mergedInto[c] = Nil}

\* ActiveDeviceCluster::isBeforeInBlock
ClusterIsBefore(c, d) == IsBeforeInBlock(Last(operations[c]), operations[d][1])

\* anyDefIn / anyUseIn, with nested regions folded into operands.
AnyDefIn(o, S) == operands[o] \cap S # {}
AnyUseIn(o, S) == Users(o) \cap S # {}

\* Mutant: computeMoveUpSet testing only anyDefIn(op, target).
MoveUpStep_noResidualCheck(target, vec, acc, o) ==
    IF o \in ToSet(acc.remain) THEN acc
    ELSE IF ~AnyDefIn(o, target) THEN [acc EXCEPT !.moved = Append(@, o)]
    ELSE IF o \notin clustered THEN [acc EXCEPT !.remain = Append(@, o)]
    ELSE LET mates == operations[GetRoot(o)] IN
         [acc EXCEPT !.remain = @ \o mates,
                     !.moved = SelectSeq(@, LAMBDA x : x \notin ToSet(mates))]

\* Mutant: computeMoveUpSet keeping only the rejected op, not its cluster.
MoveUpStep_noCascade(target, vec, acc, o) ==
    IF o \in ToSet(acc.remain) THEN acc
    ELSE IF ~AnyDefIn(o, target \cup ToSet(acc.remain))
         THEN [acc EXCEPT !.moved = Append(@, o)]
    ELSE [acc EXCEPT !.remain = Append(@, o)]

\* One iteration of the loop of computeMoveUpSet over op o of vec.
\* acc.remain is the OpList src being refilled, acc.moved is moveUp, and
\* acc.ok records that the asserts of the loop held.  In a release build
\* assert(remain.insert(clusterOp)) does not insert.
MoveUpStep(target, vec, acc, o) ==
    LET mates == operations[GetRoot(o)] IN
    IF o \in ToSet(acc.remain) THEN acc
    ELSE IF ~AnyDefIn(o, target \cup ToSet(acc.remain))
         THEN [acc EXCEPT !.moved = Append(@, o)]
    ELSE IF o \notin clustered THEN [acc EXCEPT !.remain = Append(@, o)]
    ELSE [remain |-> IF NDEBUG THEN acc.remain ELSE acc.remain \o mates,
          moved  |-> SelectSeq(acc.moved, LAMBDA x : x \notin ToSet(mates)),
          ok     |-> acc.ok /\ (NDEBUG \/ /\ ToSet(mates) \subseteq ToSet(vec)
                                          /\ ToSet(mates) \cap ToSet(acc.remain) = {})]

\* computeMoveUpSet(target, src, moveUp, op2cluster): pre-order walk.
ComputeMoveUpSet(target, vec) ==
    FoldLeft(LAMBDA acc, o : MoveUpStep(target, vec, acc, o),
             [remain |-> <<>>, moved |-> <<>>, ok |-> TRUE], vec)

\* Mutant: computeMoveDownSet keeping only the rejected op, not its cluster.
MoveDownStep_noCascade(target, vec, acc, o) ==
    IF o \in ToSet(acc.remain) THEN acc
    ELSE IF ~AnyUseIn(o, target \cup ToSet(acc.remain))
         THEN [acc EXCEPT !.moved = Append(@, o)]
    ELSE [acc EXCEPT !.remain = Append(@, o)]

\* One iteration of the reverse loop of computeMoveDownSet.
MoveDownStep(target, vec, acc, o) ==
    LET mates == operations[GetRoot(o)] IN
    IF o \in ToSet(acc.remain) THEN acc
    ELSE IF ~AnyUseIn(o, target \cup ToSet(acc.remain))
         THEN [acc EXCEPT !.moved = Append(@, o)]
    ELSE IF o \notin clustered THEN [acc EXCEPT !.remain = Append(@, o)]
    ELSE [remain |-> IF NDEBUG THEN acc.remain ELSE acc.remain \o Reverse(mates),
          moved  |-> SelectSeq(acc.moved, LAMBDA x : x \notin ToSet(mates)),
          ok     |-> acc.ok /\ (NDEBUG \/ /\ ToSet(mates) \subseteq ToSet(vec)
                                          /\ ToSet(mates) \cap ToSet(acc.remain) = {})]

\* computeMoveDownSet: post-order walk; moveDown is left in post-order and
\* the remaining ops are put back in pre-order.
ComputeMoveDownSet(target, vec) ==
    LET r == FoldLeft(LAMBDA acc, o : MoveDownStep(target, vec, acc, o),
                      [remain |-> <<>>, moved |-> <<>>, ok |-> TRUE], Reverse(vec))
    IN  [r EXCEPT !.remain = Reverse(@)]

\* Mutant: the moved ops are copied to their new place, not moved.
Relocate_keepMoved(up, upAnchor, down, downAnchor) ==
    LET i   == SelectInSeq(block, LAMBDA x : x = upAnchor)
        mid == SubSeq(block, 1, i - 1) \o up \o SubSeq(block, i, Len(block))
        j   == SelectInSeq(mid, LAMBDA x : x = downAnchor)
    IN  SubSeq(mid, 1, j) \o Reverse(down) \o SubSeq(mid, j + 1, Len(mid))

\* The block after `op->moveBefore(upAnchor)` for each op of up, in order,
\* then `op->moveAfter(downAnchor)` for each op of down, in order.
Relocate(up, upAnchor, down, downAnchor) ==
    LET rest == SelectSeq(block, LAMBDA x : x \notin ToSet(up) \cup ToSet(down))
        i    == SelectInSeq(rest, LAMBDA x : x = upAnchor)
        mid  == SubSeq(rest, 1, i - 1) \o up \o SubSeq(rest, i, Len(rest))
        j    == SelectInSeq(mid, LAMBDA x : x = downAnchor)
    IN  SubSeq(mid, 1, j) \o Reverse(down) \o SubSeq(mid, j + 1, Len(mid))

\* Mutant: the emptiness test of toMove is dropped.
Cleared_ignored(residual) == TRUE

\* `if (!toMove.empty()) return false;`: the merge needs the gap cleared.
Cleared(residual) == residual = <<>>

\* Mutant: the later cluster's ops are put first.
Splice_swapped(first, second) == second \o first

\* The op list of the merged cluster: the earlier cluster's ops, then the
\* later one's (SetVector::insert of the second list into the first).
Splice(first, second) == first \o second

\* The outcome of tryMergeInto once both move sets are known: `first` is
\* the earlier cluster's list, `second` the later one's, and `residual`
\* what is left of the gap after the second walk.
MergeResult(up, down, residual, first, second) ==
    [fault  |-> ~(up.ok /\ down.ok),
     merged |-> Cleared(residual),
     block  |-> Relocate(up.moved, first[1], down.moved, Last(second)),
     ops    |-> Splice(first, second)]

\* `from` precedes `to`: the gap is walked for moveUp, then its residual
\* for moveDown.
UpThenDown(F, T, up) ==
    LET down == ComputeMoveDownSet(ToSet(T), up.remain)
    IN  MergeResult(up, down, down.remain, F, T)

\* `to` precedes `from`: the gap is walked for moveDown, then its residual
\* for moveUp.
DownThenUp(F, T, down) ==
    LET up == ComputeMoveUpSet(ToSet(T), down.remain)
    IN  MergeResult(up, down, up.remain, T, F)

\* tryMergeInto(from, to) as a pure function of the state: whether it hit
\* an assert or undefined behaviour, whether it merges, and the block and
\* the op list of `to` it leaves.
TryMergeInto(from, to) ==
    LET F == operations[from]
        T == operations[to]
    IN
    IF ClusterIsBefore(from, to) THEN
        UpThenDown(F, T, ComputeMoveUpSet(ToSet(F), Between(Last(F), T[1])))
    ELSE IF ClusterIsBefore(to, from) THEN
        DownThenUp(F, T, ComputeMoveDownSet(ToSet(F), Between(Last(T), F[1])))
    \* assert(to->isBeforeInBlock(from)) fails; a release build walks an
    \* iterator range whose end precedes its begin.
    ELSE [fault |-> TRUE, merged |-> FALSE, block |-> block, ops |-> T]

\* Mutant: `from`'s op list is copied, not drained.
ApplyMergeInto_keepFrom(r, from, to) ==
    /\ block' = r.block
    /\ operations' = [operations EXCEPT ![to] = r.ops]
    /\ mergedInto' = [mergedInto EXCEPT ![from] = to]
    /\ UNCHANGED <<operands, clustered, fault>>

\* Installs a successful tryMergeInto(from, to): `from`'s list is drained
\* (takeVector / std::move) and from->mergedInto = to.
ApplyMergeInto(r, from, to) ==
    /\ block' = r.block
    /\ operations' = [operations EXCEPT ![to] = r.ops, ![from] = <<>>]
    /\ mergedInto' = [mergedInto EXCEPT ![from] = to]
    /\ UNCHANGED <<operands, clustered, fault>>

Crash == /\ fault' = IF NDEBUG THEN "ub" ELSE "assert"
         /\ UNCHANGED <<operands, clustered, block, operations, mergedInto>>

\* The second half of tryMerge: r1 is tryMergeInto(lhs, rhs), tried first,
\* and r2 is tryMergeInto(rhs, lhs), tried only when r1 fails.
Decide(r1, r2, lhs, rhs) ==
    CASE r1.fault  -> [kind |-> "fault"]
      [] r1.merged -> [kind |-> "into", r |-> r1, from |-> lhs, to |-> rhs]
      [] r2.fault  -> [kind |-> "fault"]
      [] r2.merged -> [kind |-> "into", r |-> r2, from |-> rhs, to |-> lhs]
      [] OTHER     -> [kind |-> "none"]

\* ActiveDeviceCluster::tryMerge(lhs, rhs): nullptr or identical arguments
\* give nullptr; otherwise first lhs into rhs, then rhs into lhs.  The
\* outcome names the surviving cluster; Perform makes the state change.
MergeOutcome(lhs, rhs) ==
    IF \/ lhs = Nil \/ rhs = Nil \/ lhs = rhs
       \/ mergedInto[lhs] # Nil \/ mergedInto[rhs] # Nil
    THEN [kind |-> "none"]
    ELSE Decide(TryMergeInto(lhs, rhs), TryMergeInto(rhs, lhs), lhs, rhs)

Survivor(m, default) == IF m.kind = "into" THEN m.to ELSE default

Perform(m) ==
    CASE m.kind = "into"  -> ApplyMergeInto(m.r, m.from, m.to)
      [] m.kind = "fault" -> Crash
      [] OTHER            -> UNCHANGED vars

TryMerge(lhs, rhs) == Perform(MergeOutcome(lhs, rhs))

-----------------------------------------------------------------------------
(* Specification: the constructor of DeviceClusteringAlgoBaseHelper, then  *)
(* tryMerge on any two results of getCluster: a root, or nullptr for an    *)
(* op outside op2cluster (the strategies pass both).                       *)

Init ==
    /\ operands \in DepGraphs(N)
    /\ clustered \in SUBSET Op
    /\ block = [k \in 1..N |-> k]
    /\ operations = [c \in Op |-> IF c \in clustered THEN <<c>> ELSE <<>>]
    /\ mergedInto = [c \in Op |-> Nil]
    /\ fault = "none"

\* A failed assert aborts the process: nothing happens after it.
Next ==
    /\ fault = "none"
    /\ \E lhs, rhs \in Roots \cup {Nil} : TryMerge(lhs, rhs)

Spec == Init /\ [][Next]_vars

-----------------------------------------------------------------------------
(* Properties                                                              *)

\* The block is a permutation of the ops, each cluster's list is a
\* duplicate-free SetVector of ops, and mergedInto points at clusters.
TypeOK ==
    /\ operands \in [Op -> SUBSET Op]
    /\ clustered \subseteq Op
    /\ Len(block) = N /\ ToSet(block) = Op
    /\ operations \in [Op -> Seq(Op)]
    /\ \A c \in Op : Len(operations[c]) = Cardinality(ToSet(operations[c]))
    /\ mergedInto \in [Op -> clustered \cup {Nil}]
    /\ fault \in {"none", "assert", "ub"}

\* Every op still comes after the ops whose results it uses: the moves that
\* tryMergeInto makes to clear the gap between two clusters never place a
\* use above its definition (SSA dominance in the block).
DefsBeforeUses ==
    \A o \in Op : \A d \in operands[o] : IsBeforeInBlock(d, o)

\* The op list of every root cluster is a contiguous run of the block, in
\* block order: what tryMergeInto establishes by moving the gap away, and
\* what isBeforeInBlock and the gap computation of later merges rely on.
ClustersContiguous ==
    \A c \in Roots :
        LET L == operations[c] IN
        L = SubSeq(block, Pos(L[1]), Pos(L[1]) + Len(L) - 1)

\* Union-find correctness (spec, testable property 6): every clustered op
\* resolves to a root whose list holds it, no other list holds it, merged
\* records hold nothing, and no unclustered (host) op is in any list.
UnionFindPartition ==
    /\ \A o \in clustered :
          /\ o \in ToSet(operations[GetRoot(o)])
          /\ \A c \in clustered \ {GetRoot(o)} : o \notin ToSet(operations[c])
    /\ \A c \in clustered \ Roots : operations[c] = <<>>
    /\ \A c \in Op : ToSet(operations[c]) \subseteq clustered

\* None of the asserts of computeMoveUpSet, computeMoveDownSet and
\* tryMergeInto fires: cluster mates of a rejected op all lie in the gap,
\* none of them is already in the residual, and of two distinct clusters
\* one is before the other.
NoAssertionFailure == fault = "none"

-----------------------------------------------------------------------------
(* Refinement: tryMerge implements the abstract cluster layout, with the   *)
(* root clusters' op lists as the abstract clusters.                        *)

Layout == INSTANCE ClusterLayout
              WITH deps <- operands,
                   parts <- {operations[c] : c \in Roots},
                   order <- block

\* Every behaviour of tryMerge calls is a behaviour of ClusterLayout: each
\* successful merge joins two clusters in block order, keeps both internal
\* orders, and leaves an SSA-ordered block in which all clusters are runs.
RefinesClusterLayout == Layout!Spec

=============================================================================
