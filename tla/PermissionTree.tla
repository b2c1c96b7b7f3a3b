--------------------------- MODULE PermissionTree ---------------------------
(***************************************************************************)
(* The claim arguments the node serves for an exit family (exit_views of   *)
(* node/src/da_store.rs): the siblings of every leaf and the root after    *)
(* its claim, over the padded permission tree whose claimed slots are      *)
(* empty.  A claimant takes both from the view; L1 accepts the claim when  *)
(* the leaf folds to the root of the family's output, and the output it    *)
(* creates is keyed by the root that the claimant computed.                *)
(*                                                                         *)
(* A hash is the term that was hashed, so two hashes are equal exactly     *)
(* when their trees are.                                                   *)
(***************************************************************************)
EXTENDS Integers, Sequences

VARIABLES
  leaves,    \* ExitRecord::leaves, at 0-based positions
  emptied,   \* the leaf_index entries of ExitRecord::emptied
  root       \* the root the record is keyed by

Positions == 0..(Len(leaves) - 1)

---------------------------------------------------------------------------
(* Hashes (PermissionTreeAccumulator) *)

HashLeaf(leaf) == <<"Leaf", leaf>>
HashEmpty == <<"Empty">>
HashBranch(left, right) == <<"Branch", left, right>>

(* 1 << d *)
Width[d \in Nat] == IF d = 0 THEN 1 ELSE 2 * Width[d - 1]

(* At least one level of branches. *)
RequiredDepth(n) == CHOOSE d \in 1..n : n <= Width[d] /\ (d = 1 \/ n > Width[d - 1])

Depth == RequiredDepth(Len(leaves))

(* idx >>= 1, once per level. *)
Path(i) == LET idx[d \in 0..Depth] == IF d = 0 THEN i ELSE idx[d - 1] \div 2
           IN  idx

Sibling(i) == IF i % 2 = 0 THEN i + 1 ELSE i - 1

(* The branch levels over a row of slots, up to the root. *)
TreeOver(slots) ==
  LET level[d \in 0..Depth] ==
        IF d = 0 THEN slots
        ELSE [i \in 0..(Width[Depth - d] - 1) |->
                HashBranch(level[d - 1][2 * i], level[d - 1][2 * i + 1])]
  IN  level

---------------------------------------------------------------------------
(* The view (exit_views), when `gone` are claimed *)

SlotsFresh(gone) ==
  [i \in 0..(Width[Depth] - 1) |->
     IF i \in Positions THEN HashLeaf(leaves[i + 1]) ELSE HashEmpty]

(* Level 0: live leaves, the empty hash for padding and claimed slots. *)
Slots(gone) ==
  [i \in 0..(Width[Depth] - 1) |->
     IF i \in Positions \ gone THEN HashLeaf(leaves[i + 1]) ELSE HashEmpty]

Levels(gone) == TreeOver(Slots(gone))

Siblings(gone, i) == [d \in 1..Depth |-> Levels(gone)[d - 1][Sibling(Path(i)[d - 1])]]

(* The path of position i folded over its siblings, from the hash in its slot. *)
Folded(i, slot, siblings) ==
  LET current[d \in 0..Depth] ==
        IF d = 0 THEN slot
        ELSE IF Path(i)[d - 1] % 2 = 0 THEN HashBranch(current[d - 1], siblings[d])
                                       ELSE HashBranch(siblings[d], current[d - 1])
  IN  current[Depth]

FullClaimRoot(gone, i) == Folded(i, HashEmpty, Siblings(gone, i))

---------------------------------------------------------------------------
(* The root over the leaves that are left, what L1 holds                      *)
(* (PermissionTreeView::from_leaves(..).root() when none is claimed).         *)
RootWithout(gone) ==
  TreeOver([i \in 0..(Width[Depth] - 1) |->
              IF i < Len(leaves) /\ i \notin gone THEN HashLeaf(leaves[i + 1])
              ELSE HashEmpty])[Depth][0]

---------------------------------------------------------------------------
(* Every leaf left can be claimed with the arguments served, whatever was     *)
(* claimed before and in whichever order: its leaf folds over its siblings to *)
(* the root of the output, the tree "the next claim's redeem verifies         *)
(* against, so they stay valid across a family's whole claim chain"           *)
(* (node/src/da_store.rs:237-241).                                            *)
EveryLeafClaimable ==
  \A i \in Positions \ emptied : Folded(i, HashLeaf(leaves[i + 1]), Siblings(emptied, i)) = root

=============================================================================
