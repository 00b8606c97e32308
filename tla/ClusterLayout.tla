---------------------------- MODULE ClusterLayout ----------------------------
(***************************************************************************)
(* What merging device clusters promises (spec section 4.2), stated        *)
(* without move-up / move-down sets: the block is always an ordering of    *)
(* the ops that respects every def-use edge, every cluster is a run of    *)
(* consecutive ops of it, and a merge replaces two clusters by their       *)
(* concatenation in block order, each keeping its own internal order,     *)
(* while the block may be rearranged into any other such ordering.        *)
(***************************************************************************)
EXTENDS Naturals, Sequences, SequencesExt

CONSTANT N

Op == 1..N

VARIABLES
    deps,      \* [Op -> SUBSET Op]: the ops whose results an op uses
    parts,     \* set of clusters, each a sequence of ops
    order      \* the block, a sequence of all ops

RECURSIVE SSAGraphs(_)
SSAGraphs(k) ==
    IF k = 0 THEN {<<>>}
    ELSE {Append(g, s) : g \in SSAGraphs(k - 1), s \in SUBSET (1..(k - 1))}

At(s, o) == SelectInSeq(s, LAMBDA x : x = o)

\* s lists every op once, after the ops it uses, and each cluster of P
\* occupies consecutive positions of s in its own order.
IsLayout(s, P) ==
    /\ s \in [1..N -> Op] /\ ToSet(s) = Op
    /\ \A o \in Op : \A d \in deps[o] : At(s, d) < At(s, o)
    /\ \A p \in P : p = SubSeq(s, At(s, p[1]), At(s, p[1]) + Len(p) - 1)

Init ==
    /\ deps \in SSAGraphs(N)
    /\ \E device \in SUBSET Op : parts = {<<o>> : o \in device}
    /\ order = [i \in 1..N |-> i]

\* Two clusters become one; the first precedes the second in the block.
Merge(p, q) ==
    /\ p # q
    /\ At(order, Last(p)) < At(order, q[1])
    /\ parts' = (parts \ {p, q}) \cup {p \o q}
    /\ order' \in [1..N -> Op]
    /\ IsLayout(order', parts')
    /\ UNCHANGED deps

Next == \E p, q \in parts : Merge(p, q)

Spec == Init /\ [][Next]_<<deps, parts, order>>

\* The ordering invariant the merges maintain.
LayoutOK == IsLayout(order, parts)

=============================================================================
