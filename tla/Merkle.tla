------------------------------- MODULE Merkle -------------------------------
(***************************************************************************)
(* The Merkle tree over the verified requests (nori-hash,                  *)
(* merkle_poseidon_fixed.rs): the root folded in place, the tree built     *)
(* level by level, the path of a leaf taken from either, and the root      *)
(* recomputed from a path.  One step of the model is one step of a loop.   *)
(* The leaves are a sequence; the vectors of nodes are functions on        *)
(* 0 .. n-1, the code's indices.                                           *)
(***************************************************************************)
EXTENDS Naturals, Sequences

CONSTANTS
  LeafLists,       \* the leaf vectors the functions are called with
  Hash(_, _),      \* poseidon_hash of two field elements
  Zero,            \* Fp::from(0), the padding leaf
  MAX_TREE_DEPTH,
  Width,           \* Width[d] = 1 << d
  Zeros,           \* the precomputed roots of all-padding trees
  Reference(_, _)  \* Reference(leaves, d): every pair of the padded tree hashed

VARIABLES
  leaves, depth, index, \* the arguments
  call,                 \* the function called: "fold", "path" or "tree"
  nodes,                \* fold, path: the vector overwritten in place
  tree,                 \* tree: the levels, root level first
  level, i,             \* the loop counters
  n_non_dummy_nodes,
  position,             \* index shifted right by 0, 1, ... : one per level climbed
  path,                 \* the siblings taken, leaf level first
  hash, checked         \* the root recomputed from the first checked siblings

vars == <<leaves, depth, index, call, nodes, tree, level, i, n_non_dummy_nodes,
          position, path, hash, checked>>

(* compute_merkle_tree_depth_and_size: d edges, and 1 << d the next power  *)
(* of two from n.                                                          *)
IsDepth(n, d) == n <= Width[d] /\ (d = 0 \/ Width[d - 1] < n)

(* The leaf at j once the vector is padded; a mutant repeats the last leaf.*)
PaddedWithLast(v, j) ==
  IF v = <<>> THEN Zero ELSE IF j < Len(v) THEN v[j + 1] ELSE v[Len(v)]

Padded(v, j) == IF j < Len(v) THEN v[j + 1] ELSE Zero

(* T is the tree over the padded leaves v with every node the hash of its  *)
(* two children, no zero hash looked up: what the tests' reference roots   *)
(* compute.                                                                *)
IsTree(T, v, d) ==
  /\ \A j \in 0 .. Width[d] - 1 : T[d][j] = Padded(v, j)
  /\ \A l \in 1 .. d : \A j \in 0 .. Width[l - 1] - 1 :
        T[l - 1][j] = Hash(T[l][2 * j], T[l][2 * j + 1])

ASSUME MerkleAssumption ==
  /\ MAX_TREE_DEPTH \in Nat
  /\ Width[0] = 1
  /\ \A d \in 0 .. MAX_TREE_DEPTH : Width[d] \in Nat
  /\ \A d \in 1 .. MAX_TREE_DEPTH : Width[d] = 2 * Width[d - 1]
  /\ Zeros[0] = Zero
  /\ \A d \in 1 .. MAX_TREE_DEPTH : Zeros[d] = Hash(Zeros[d - 1], Zeros[d - 1])
  /\ \A v \in LeafLists :
       /\ Len(v) \in Nat /\ v = [k \in 1 .. Len(v) |-> v[k]]
       /\ \A d \in 0 .. MAX_TREE_DEPTH :
            IsDepth(Len(v), d) => IsTree(Reference(v, d), v, d)

-----------------------------------------------------------------------------

Init ==
  /\ leaves \in LeafLists
  /\ depth \in {d \in 0 .. MAX_TREE_DEPTH : IsDepth(Len(leaves), d)}
  /\ index \in 0 .. Width[depth] - 1
  /\ call \in {"fold", "path", "tree"}
  /\ nodes = [j \in 0 .. Width[depth] - 1 |-> Padded(leaves, j)]
  /\ tree = [l \in 0 .. depth |-> IF l = depth THEN nodes ELSE [j \in {} |-> Zero]]
  /\ level = depth
  /\ i = 0
  /\ n_non_dummy_nodes = Len(leaves)
  /\ position = <<index>>
  /\ path = <<>>
  /\ hash = Padded(leaves, index)
  /\ checked = 0

(* The parent of the children 2i and 2i + 1 of the vector v: looked up     *)
(* when the left child is padding, for then the right child is as well.    *)
(* The mutant looks it up when only the right child is.                    *)
ParentOfHalfPadded(v) ==
  IF 2 * i + 1 >= n_non_dummy_nodes
    THEN Zeros[depth + 1 - level]
    ELSE Hash(v[2 * i], v[2 * i + 1])

Parent(v) ==
  IF 2 * i >= n_non_dummy_nodes
    THEN Zeros[depth + 1 - level]
    ELSE Hash(v[2 * i], v[2 * i + 1])

(* The node index ^ 1; a mutant takes the left neighbour wherever there is *)
(* one.                                                                    *)
LeftNeighbour(p) == IF p > 0 THEN p - 1 ELSE p + 1

Sibling(p) == IF p % 2 = 1 THEN p - 1 ELSE p + 1

Here == position[Len(position)]

(* get_merkle_path_from_leaves reads the sibling before it folds the level.*)
TakeSibling ==
  /\ call = "path" /\ level > 0
  /\ Len(path) = depth - level
  /\ path' = Append(path, nodes[Sibling(Here)])
  /\ UNCHANGED <<leaves, depth, index, call, nodes, tree, level, i, n_non_dummy_nodes,
                 position, hash, checked>>

Combine ==
  /\ level > 0 /\ i < Width[level - 1]
  /\ call = "path" => Len(path) > depth - level
  /\ IF call = "tree"
       THEN /\ tree' = [tree EXCEPT ![level - 1] =
                          [j \in 0 .. i |-> IF j = i THEN Parent(tree[level]) ELSE @[j]]]
            /\ UNCHANGED nodes
       ELSE /\ nodes' = [nodes EXCEPT ![i] = Parent(nodes)]
            /\ UNCHANGED tree
  /\ i' = i + 1
  /\ UNCHANGED <<leaves, depth, index, call, level, n_non_dummy_nodes, position, path,
                 hash, checked>>

(* n.div_ceil(2). *)
Halved(n) == (n + 1) \div 2

(* The folded level is half as wide; a mutant does not shift the index.    *)
LevelDoneUnshifted ==
  /\ level > 0 /\ i = Width[level - 1]
  /\ level' = level - 1
  /\ i' = 0
  /\ n_non_dummy_nodes' = Halved(n_non_dummy_nodes)
  /\ position' = IF call = "path" THEN Append(position, Here) ELSE position
  /\ UNCHANGED <<leaves, depth, index, call, nodes, tree, path, hash, checked>>

LevelDone ==
  /\ level > 0 /\ i = Width[level - 1]
  /\ level' = level - 1
  /\ i' = 0
  /\ n_non_dummy_nodes' = Halved(n_non_dummy_nodes)
  /\ position' = IF call = "path" THEN Append(position, Here \div 2) ELSE position
  /\ UNCHANGED <<leaves, depth, index, call, nodes, tree, path, hash, checked>>

(* get_merkle_path_from_tree.                                              *)
TakeFromTree ==
  /\ call = "tree" /\ level = 0
  /\ Len(path) < depth
  /\ path' = Append(path, tree[depth - Len(path)][Sibling(Here)])
  /\ position' = Append(position, Here \div 2)
  /\ UNCHANGED <<leaves, depth, index, call, nodes, tree, level, i, n_non_dummy_nodes,
                 hash, checked>>

PathTaken == call # "fold" /\ level = 0 /\ Len(path) = depth

(* compute_merkle_root_from_path: the bit of the index at this level       *)
(* decides on which side the sibling is hashed.                            *)
CheckLevel ==
  /\ PathTaken /\ checked < depth
  /\ hash' = IF position[checked + 1] % 2 = 1
               THEN Hash(path[checked + 1], hash)
               ELSE Hash(hash, path[checked + 1])
  /\ checked' = checked + 1
  /\ UNCHANGED <<leaves, depth, index, call, nodes, tree, level, i, n_non_dummy_nodes,
                 position, path>>

Next == TakeSibling \/ Combine \/ LevelDone \/ TakeFromTree \/ CheckLevel

Spec == Init /\ [][Next]_vars

-----------------------------------------------------------------------------

(* The counters stay within the vectors they index: no access of the       *)
(* loops is out of bounds.                                                 *)
TypeOK ==
  /\ leaves \in LeafLists
  /\ depth \in 0 .. MAX_TREE_DEPTH /\ IsDepth(Len(leaves), depth)
  /\ index \in 0 .. Width[depth] - 1
  /\ call \in {"fold", "path", "tree"}
  /\ DOMAIN nodes = 0 .. Width[depth] - 1
  /\ DOMAIN tree = 0 .. depth
  /\ level \in 0 .. depth
  /\ i \in Nat /\ (level = 0 => i = 0) /\ (level > 0 => i <= Width[level - 1])
  /\ n_non_dummy_nodes \in Nat
  /\ position \in Seq(Nat) /\ Len(position) \in 1 .. depth + 1
  /\ \A k \in 1 .. Len(position) : position[k] < Width[depth + 1 - k]
  /\ Len(path) \in 0 .. depth
  /\ checked \in 0 .. depth

(* The value fold_merkle_left, or the first level of build_merkle_tree,    *)
(* returns.                                                                *)
Root == IF call = "tree" THEN tree[0][0] ELSE nodes[0]

(* With zero hashes looked up instead of computed, and parents written     *)
(* over children not yet all read, fold_merkle_left,                       *)
(* get_merkle_path_from_leaves and build_merkle_tree all end with the root *)
(* of the tree in which every pair is hashed.                              *)
RootIsReference == level = 0 => Root = Reference(leaves, depth)[0][0]

(* A path taken from the leaves, while they are being overwritten, or from *)
(* the tree leads compute_merkle_root_from_path back to the root, for      *)
(* every index of the padded tree, padding leaves included.                *)
PathLeadsToRoot ==
  PathTaken /\ checked = depth => hash = Reference(leaves, depth)[0][0]

(* The root commits to the leaves: no two of the vectors, of equal or of   *)
(* different lengths, fold to the same root (padding in                    *)
(* fold_merkle_left cannot be mistaken for leaves).                        *)
RootBindsLeaves ==
  call = "fold" /\ level = 0 =>
    \A v \in LeafLists \ {leaves} : \A d \in 0 .. MAX_TREE_DEPTH :
      IsDepth(Len(v), d) => Reference(v, d)[0][0] # nodes[0]

=============================================================================
