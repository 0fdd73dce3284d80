------------------------------ MODULE UnionFind ------------------------------
(***************************************************************************)
(* cth::dt::union_find (cth/incl/cth/data/union_find.hpp): a forest of     *)
(* parents, find() with path halving, and the two merges; beside it the    *)
(* partition that the merges ask for.                                      *)
(***************************************************************************)
EXTENDS Naturals, FiniteSets, SequencesExt

CONSTANTS
    Elements,   \* number of indices
    Groups,     \* the groups merge(group_t) is called with
    MaxSize     \* bound: of the sizes, which merge(group_t) may count too high

ASSUME UnionFindAssumption ==
    /\ Elements \in Nat \ {0}
    /\ Groups \subseteq Seq(0 .. Elements - 1)
    /\ MaxSize \in Nat

VARIABLES
    parent,     \* _data.data<0>()
    setSize,    \* _data.data<1>(), meaningful at the roots
    partition,  \* what the merges asked for: the set of sets
    lastGroup,  \* the members of the last merge(group_t), until the next merge
    paired,     \* only merge(index, index) has been called
    exact       \* no merge(group_t) has taken a member out of a larger set

unionFindVars == <<parent, setSize, partition, lastGroup, paired, exact>>

Indices == 0 .. Elements - 1

(* union_find(size_t) *)
UnionFindInit ==
    /\ parent = [i \in Indices |-> i]
    /\ setSize = [i \in Indices |-> 1]
    /\ partition = {{i} : i \in Indices}
    /\ lastGroup = {}
    /\ paired = TRUE
    /\ exact = TRUE

SetOf(x) == CHOOSE S \in partition : x \in S

Root(p, x) == p[x] = x

(* The chain of parents above x, and its end: Elements steps reach it. *)
Above(p, x) == LET Up[k \in Nat] == IF k = 0 THEN x ELSE p[Up[k - 1]] IN Up

RootOf(p, x) == Above(p, x)[Elements]

(* What find(x), a const operation that returns RootOf(p, x), leaves: every *)
(* second index of the chain, from x on, hangs under its grandparent.      *)
Halved(p, x) ==
    LET chain == Above(p, x)
        passed == {chain[2 * k] : k \in 0 .. Elements}
    IN  [i \in Indices |-> IF i \in passed THEN p[p[i]] ELSE p[i]]

FindStep(x) ==
    /\ parent' = Halved(parent, x)
    /\ UNCHANGED <<setSize, partition, lastGroup, paired, exact>>

Joined(members) ==
    LET touched == {S \in partition : S \cap members # {}}
    IN  (partition \ touched) \cup {UNION touched}

(* Mutation: the smaller root stays the parent. *)
MergeKeepsOrder(lhs, rhs) ==
    LET once == Halved(parent, lhs)
        left == RootOf(parent, lhs)
        right == RootOf(once, rhs)
        child == IF left < right THEN right ELSE left
        top == IF left < right THEN left ELSE right
    IN  /\ parent' = [Halved(once, rhs) EXCEPT ![child] = top]
        /\ setSize' = IF child = top THEN setSize
                      ELSE [setSize EXCEPT ![top] = @ + setSize[child]]
        /\ partition' = Joined({lhs, rhs})
        /\ lastGroup' = {}
        /\ UNCHANGED <<paired, exact>>

(* merge(index, index): the larger of the two roots stays one. *)
Merge(lhs, rhs) ==
    LET once == Halved(parent, lhs)
        left == RootOf(parent, lhs)
        right == RootOf(once, rhs)
        child == IF right < left THEN right ELSE left
        top == IF right < left THEN left ELSE right
    IN  /\ parent' = [Halved(once, rhs) EXCEPT ![child] = top]
        /\ setSize' = IF child = top THEN setSize
                      ELSE [setSize EXCEPT ![top] = @ + setSize[child]]
        /\ partition' = Joined({lhs, rhs})
        /\ lastGroup' = {}
        /\ UNCHANGED <<paired, exact>>

(* merge(group_t): the members themselves, and not their roots, are hung   *)
(* under the root of the first one, and each of them counts for one.       *)
MergeGroup(group) ==
    LET root == RootOf(parent, group[1])
        found == Halved(parent, group[1])
        hung == {x \in ToSet(group) : found[x] # root}
    IN  /\ group # <<>>
        /\ setSize[root] + Cardinality(hung) <= MaxSize
        /\ parent' = [i \in Indices |-> IF i \in hung THEN root ELSE found[i]]
        /\ setSize' = [setSize EXCEPT ![root] = @ + Cardinality(hung)]
        /\ partition' = Joined(ToSet(group))
        /\ lastGroup' = ToSet(group)
        /\ paired' = FALSE
        /\ exact' = (exact /\ \A x \in hung : Cardinality(SetOf(x)) = 1)

UnionFindNext ==
    \/ \E x \in Indices : FindStep(x)
    \/ \E lhs, rhs \in Indices : Merge(lhs, rhs)
    \/ \E group \in Groups : MergeGroup(group)

UnionFindSpec == UnionFindInit /\ [][UnionFindNext]_unionFindVars

-----------------------------------------------------------------------------

UnionFindTypeOK ==
    /\ parent \in [Indices -> Indices]
    /\ setSize \in [Indices -> Nat]
    /\ UNION partition = Indices

(* all(): the indices that find() gives the same root, together. *)
All(p) == {{y \in Indices : RootOf(p, y) = RootOf(p, x)} : x \in Indices}

(* "delegates to merge(index_type, index_type)": a merge of a group gives  *)
(* the partition that merging its members pair by pair would.              *)
MergesAreUnions == All(parent) = partition

(* The parents never form a cycle, and the members of a group just merged  *)
(* are together.  As long as every group met only loose elements, all() is *)
(* the partition that the merges asked for and the roots know its sizes;   *)
(* and while only pairs are merged each root is the largest of its set,    *)
(* so that operator==, which compares roots, compares partitions.          *)
ForestIsPartition ==
    /\ \A x \in Indices : Root(parent, RootOf(parent, x))
    /\ \A x, y \in lastGroup : RootOf(parent, x) = RootOf(parent, y)
    /\ exact => /\ MergesAreUnions
                /\ \A x \in Indices : Root(parent, x) => setSize[x] = Cardinality(SetOf(x))
    /\ paired => \A x \in Indices : \A y \in SetOf(x) : y <= RootOf(parent, x)
=============================================================================
