---------------------------- MODULE MembersTree ----------------------------
(***************************************************************************)
(* The members tree of core/members_tree.js: a left-filled, zero-padded    *)
(* Merkle tree of fixed depth, of which a gateway keeps the leaves, the    *)
(* root and one waiting left sibling per level (the frontier).  A rebuild  *)
(* folds the leaves with a carry stack, an append touches one node per     *)
(* level; a prover builds all levels from the leaves.                      *)
(*                                                                         *)
(* The hash is a free constructor: equal hashes have equal arguments.      *)
(***************************************************************************)
EXTENDS Integers, Sequences

CONSTANTS Depth   \* TREE_DEPTH

ASSUME DepthAssumption == Depth \in Nat \ {0}

Levels == 0 .. Depth - 1

\* Width[h]: the leaves below a node h levels up, 2 ** h.
Width[h \in 0..Depth] == IF h = 0 THEN 1 ELSE 2 * Width[h - 1]
capacity == Width[Depth]

EmptyLeaf == [zero |-> 0]
poseidon(l, r) == [left |-> l, right |-> r]

\* The root of an all-zero subtree of each height.
zeros[l \in 0..Depth] ==
  IF l = 0 THEN EmptyLeaf ELSE poseidon(zeros[l - 1], zeros[l - 1])

\* n >> l: the index, at each level, of the node above position n.
above(n) ==
  LET idx[l \in 0..Depth] == IF l = 0 THEN n ELSE idx[l - 1] \div 2
  IN idx

bit(n, l) == above(n)[l] % 2
bits(n) == [l \in Levels |-> bit(n, l)]

\* The nodes on the way up h levels from a node: where the bit is 0 it is a left
\* child and paired with right[l], else a right child and paired with left[l].
Climb(start, h, sides, left, right) ==
  LET node[l \in 0..h] ==
        IF l = 0 THEN start
        ELSE IF sides[l - 1] = 0 THEN poseidon(node[l - 1], right[l - 1])
        ELSE poseidon(left[l - 1], node[l - 1])
  IN node

NoNode == <<>>
EmptyTree ==
  [commitments |-> <<>>, frontier |-> [l \in Levels |-> NoNode], root |-> zeros[Depth]]

size(t) == Len(t.commitments)
full(t) == size(t) >= capacity
-----------------------------------------------------------------------------
(* append()                                                                *)

\* The nodes #insert() visits: a left child is paired with an empty subtree, a
\* right child with the sibling remembered at its level.
NodesUp(t, leaf) == Climb(leaf, Depth, bits(size(t)), t.frontier, zeros)

\* append() to a tree that is not full: a left child is remembered.
append(t, leaf) ==
  LET node == NodesUp(t, leaf)
  IN [commitments |-> Append(t.commitments, leaf),
      frontier |-> [l \in Levels |-> IF bit(size(t), l) = 0 THEN node[l] ELSE t.frontier[l]],
      root |-> node[Depth]]
-----------------------------------------------------------------------------
(* fromCommitments()                                                       *)

\* A leaf enters the carry stack at level 0 and combines with the completed
\* subtrees on top of it as long as they are of its level.
Carried(stack, leaf) ==
  LET top(k) == stack[Len(stack) - k]
      waiting == [k \in 0..Len(stack) - 1 |-> top(k).node]
      allRight == [k \in 0..Len(stack) - 1 |-> 1]
      node == Climb(leaf, Len(stack), allRight, waiting, waiting)
      combines == CHOOSE k \in 0..Len(stack) :
                    /\ \A j \in 0..k - 1 : top(j).level = j
                    /\ k < Len(stack) => top(k).level # k
  IN Append(SubSeq(stack, 1, Len(stack) - combines),
            [level |-> combines, node |-> node[combines]])

\* CarryStacks(leaves)[n]: the stack after n leaves.
CarryStacks(leaves) ==
  LET stack[n \in 0..Len(leaves)] ==
        IF n = 0 THEN <<>> ELSE Carried(stack[n - 1], leaves[n])
  IN stack

CarryStack(leaves) == CarryStacks(leaves)[Len(leaves)]

\* What the stack leaves behind below the root.
FrontierOf(stack) ==
  [l \in Levels |->
    IF \E i \in DOMAIN stack : stack[i].level = l
      THEN stack[CHOOSE i \in DOMAIN stack : stack[i].level = l].node ELSE NoNode]

\* The root of a tree of n leaves: the subtree of the next position, paired
\* with its completed left sibling or with an empty right one.
FoldedRoot(frontier, n) == Climb(EmptyLeaf, Depth, bits(n), frontier, zeros)[Depth]

fromCommitmentsFolding(leaves) ==   \* slip: a full tree is folded like any other
  LET frontier == FrontierOf(CarryStack(leaves))
  IN [commitments |-> leaves, frontier |-> frontier,
      root |-> FoldedRoot(frontier, Len(leaves))]

\* Of at most `capacity` leaves.  A full tree has no next position: its root is
\* the one entry of the stack.
fromCommitments(leaves) ==
  LET stack == CarryStack(leaves)
      frontier == FrontierOf(stack)
  IN [commitments |-> leaves, frontier |-> frontier,
      root |-> IF Len(leaves) = capacity THEN stack[1].node
                                         ELSE FoldedRoot(frontier, Len(leaves))]
-----------------------------------------------------------------------------
(* levels(), rootFromFullBuild() and pathFor(): the definition a prover    *)
(* uses, over the padded leaves.                                           *)

levelsOf(leaves) ==
  LET at[l \in 0..Depth] ==
        [i \in 0..Width[Depth - l] - 1 |->
           IF l > 0 THEN poseidon(at[l - 1][2 * i], at[l - 1][2 * i + 1])
           ELSE IF i < Len(leaves) THEN leaves[i + 1] ELSE EmptyLeaf]
  IN at

rootFromFullBuild(leaves) == levelsOf(leaves)[Depth][0]

\* The siblings on the way up from a leaf, with the side the leaf is on.
pathFor(leaves, index) ==
  LET at == levelsOf(leaves)
      idx == above(index)
      sibling(l) == IF bit(index, l) = 0 THEN idx[l] + 1 ELSE idx[l] - 1
  IN [l \in Levels |-> [element |-> at[l][sibling(l)], bit |-> bit(index, l)]]

\* What a membership proof computes from a leaf and its path.
RootOfPath(leaf, path) ==
  LET sides == [l \in Levels |-> path[l].bit]
      elements == [l \in Levels |-> path[l].element]
  IN Climb(leaf, Depth, sides, elements, elements)[Depth]

\* What the gateway must hold: the root that every member's path leads to.
EveryPathLeadsToRoot(t) ==
  /\ t.root = rootFromFullBuild(t.commitments)
  /\ \A i \in DOMAIN t.commitments :
       RootOfPath(t.commitments[i], pathFor(t.commitments, i - 1)) = t.root
=============================================================================
