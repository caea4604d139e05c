---------------------------- MODULE MerkleProofs ----------------------------
(***************************************************************************)
(* The roots and paths of Merkle.tla are right for every leaf vector,      *)
(* every depth and every hash function, and a root binds its leaves when   *)
(* the hash is ideal.                                                      *)
(***************************************************************************)
EXTENDS Merkle, Induction, TLAPS

(* The tree the loops are compared with.                                   *)
T == Reference(leaves, depth)

(* The loops half-way: parents written below i, children still to be read  *)
(* from 2i on, everything from n_non_dummy_nodes on a looked-up zero hash; *)
(* each sibling taken and each recomputed hash the one of the tree.        *)
Folding ==
  /\ Width[level] <= Width[depth]
  /\ \A j \in 0 .. Width[level] - 1 : j >= n_non_dummy_nodes => T[level][j] = Zeros[depth - level]
  /\ call # "tree" =>
       /\ \A j \in 0 .. i - 1 : nodes[j] = T[level - 1][j]
       /\ \A j \in 2 * i .. Width[level] - 1 : nodes[j] = T[level][j]

Building ==
  call = "tree" =>
    /\ \A l \in level .. depth : \A j \in 0 .. Width[l] - 1 : tree[l][j] = T[l][j]
    /\ \A j \in 0 .. i - 1 : tree[level - 1][j] = T[level - 1][j]

TreeNodes == UNION {{T[l][j] : j \in 0 .. Width[l] - 1} : l \in 0 .. depth}

Climbing ==
  /\ path \in Seq(TreeNodes)
  /\ call = "fold" => path = <<>> /\ position = <<index>>
  /\ call = "path" =>
       /\ Len(position) = depth - level + 1
       /\ Len(path) \in {depth - level, depth - level + 1}
       /\ i > 0 => Len(path) = depth - level + 1
  /\ call = "tree" =>
       /\ Len(position) = Len(path) + 1
       /\ level > 0 => path = <<>>
  /\ position[1] = index
  /\ \A k \in 1 .. Len(position) - 1 : position[k + 1] = position[k] \div 2
  /\ \A k \in 1 .. Len(path) : path[k] = T[depth - k + 1][Sibling(position[k])]

Checking ==
  /\ checked > 0 => PathTaken
  /\ hash = T[depth - checked][position[checked + 1]]

IInv == TypeOK /\ Folding /\ Building /\ Climbing /\ Checking

(* The assumption split into the facts the proofs cite. *)
LEMMA Widths ==
  ASSUME NEW d \in 0 .. MAX_TREE_DEPTH
  PROVE  /\ Width[d] \in Nat /\ Width[0] = 1
         /\ d > 0 => Width[d] = 2 * Width[d - 1] /\ Width[d - 1] \in Nat
BY MerkleAssumption

LEMMA Bounds ==
  ASSUME TypeOK
  PROVE  /\ depth \in 0 .. MAX_TREE_DEPTH /\ level \in 0 .. MAX_TREE_DEPTH
         /\ MAX_TREE_DEPTH \in Nat /\ depth \in Nat /\ level \in Nat
         /\ level <= depth /\ i \in Nat /\ n_non_dummy_nodes \in Nat
         /\ Width[level] \in Nat
         /\ level > 0 => /\ Width[level - 1] \in Nat /\ Width[level] = 2 * Width[level - 1]
                        /\ i <= Width[level - 1]
<1>1. /\ MAX_TREE_DEPTH \in Nat /\ depth \in 0 .. MAX_TREE_DEPTH /\ level \in 0 .. depth
  BY MerkleAssumption DEF TypeOK
<1>2. level \in 0 .. MAX_TREE_DEPTH
  BY <1>1
<1> QED
  BY SMTT(30), <1>1, <1>2, Widths DEF TypeOK

LEMMA Hashes ==
  ASSUME TypeOK
  PROVE  /\ \A j \in 0 .. Width[depth] - 1 : T[depth][j] = Padded(leaves, j)
         /\ \A l \in 1 .. depth : \A j \in 0 .. Width[l - 1] - 1 :
               T[l - 1][j] = Hash(T[l][2 * j], T[l][2 * j + 1])
<1>1. /\ leaves \in LeafLists /\ depth \in 0 .. MAX_TREE_DEPTH
      /\ IsDepth(Len(leaves), depth)
  BY DEF TypeOK
<1>2. IsTree(T, leaves, depth)
  BY <1>1, MerkleAssumption, Zenon DEF T
<1> QED
  BY <1>2, Zenon DEF IsTree

LEMMA Parity ==
  ASSUME NEW p \in Nat
  PROVE  /\ p \div 2 \in Nat
         /\ p % 2 = 1 => p = 2 * (p \div 2) + 1 /\ Sibling(p) = 2 * (p \div 2)
         /\ p % 2 # 1 => p = 2 * (p \div 2) /\ Sibling(p) = 2 * (p \div 2) + 1
<1>1. p % 2 \in {0, 1} /\ p = 2 * (p \div 2) + (p % 2) /\ p \div 2 \in Nat
  OBVIOUS
<1> QED
  BY <1>1 DEF Sibling

LEMMA InitOK ==
  ASSUME Init
  PROVE  IInv
<1>1. depth \in 0 .. MAX_TREE_DEPTH /\ Len(leaves) \in Nat
  BY MerkleAssumption DEF Init
<1>2. Width[depth] \in Nat
  BY <1>1, Widths
<1>3. TypeOK
  <2>1. position \in Seq(Nat) /\ Len(position) = 1 /\ position[1] = index /\ index < Width[depth]
        /\ depth + 1 - 1 = depth
    BY <1>1, <1>2 DEF Init
  <2>2. i = 0 /\ (level > 0 => i <= Width[level - 1])
    BY <1>1, Widths DEF Init
  <2> QED
    BY <1>1, <1>2, <2>1, <2>2 DEF Init, TypeOK
<1>4. \A j \in 0 .. Width[depth] - 1 : T[depth][j] = Padded(leaves, j)
  BY <1>3, Hashes
<1>5. Folding
  BY <1>1, <1>2, <1>4, MerkleAssumption DEF Init, Folding, Padded
<1>6. Building
  <2>1. /\ level = depth /\ i = 0
        /\ \A j \in 0 .. Width[depth] - 1 : tree[depth][j] = T[depth][j]
    <3>1. /\ level = depth /\ i = 0 /\ depth \in 0 .. depth
          /\ nodes = [j \in 0 .. Width[depth] - 1 |-> Padded(leaves, j)]
          /\ tree = [l \in 0 .. depth |-> IF l = depth THEN nodes ELSE [j \in {} |-> Zero]]
      BY <1>1 DEF Init
    <3>2. tree[depth] = nodes
      BY <3>1, Zenon
    <3>3. \A j \in 0 .. Width[depth] - 1 : nodes[j] = Padded(leaves, j)
      BY <3>1, Zenon
    <3> QED
      BY <1>4, <3>1, <3>2, <3>3, Zenon
  <2>2. \A l \in level .. depth : l = depth
    BY <1>1, <2>1
  <2>3. \A j \in 0 .. i - 1 : FALSE
    BY <2>1
  <2> QED
    BY <2>1, <2>2, <2>3, Zenon DEF Building
<1>7. Climbing /\ Checking
  BY <1>1, <1>2, <1>4 DEF Init, Climbing, Checking
<1> QED
  BY <1>3, <1>5, <1>6, <1>7 DEF IInv

(* No action changes what the loops are called with. *)
LEMMA SameTree ==
  ASSUME Next
  PROVE  UNCHANGED <<leaves, depth, index, call, T, TreeNodes>>
BY DEF Next, TakeSibling, Combine, LevelDone, TakeFromTree, CheckLevel, T, TreeNodes

(* A place of the climb and its sibling are within their level. *)
LEMMA SiblingInLevel ==
  ASSUME NEW d \in 0 .. MAX_TREE_DEPTH, d > 0, NEW p \in Nat, p < Width[d]
  PROVE  Sibling(p) \in 0 .. Width[d] - 1 /\ p \div 2 \in 0 .. Width[d - 1] - 1
BY SMTT(30), Widths, Parity

(* One place up the tree: the place reached is within the level above, and *)
(* what was known of the places before stays.                              *)
LEMMA ClimbOne ==
  ASSUME TypeOK, Climbing, Len(position) <= depth,
         position' = Append(position, Here \div 2), UNCHANGED <<depth, index>>
  PROVE  /\ position' \in Seq(Nat) /\ Len(position') = Len(position) + 1
         /\ Len(position') \in 1 .. depth + 1
         /\ \A k \in 1 .. Len(position) : position'[k] = position[k]
         /\ \A k \in 1 .. Len(position') : position'[k] < Width[depth + 1 - k]
         /\ \A k \in 1 .. Len(position') - 1 : position'[k + 1] = position'[k] \div 2
         /\ position'[1] = index
         /\ Here \in Nat /\ Here < Width[depth + 1 - Len(position)]
<1> DEFINE n == Len(position)
<1>1. /\ position \in Seq(Nat) /\ n \in 1 .. depth /\ depth \in Nat /\ n \in Nat
      /\ Here = position[n] /\ n \in 1 .. n
      /\ \A k \in 1 .. n : position[k] < Width[depth + 1 - k]
      /\ MAX_TREE_DEPTH \in Nat /\ depth \in 0 .. MAX_TREE_DEPTH
  BY Bounds DEF TypeOK, Here
<1>2. Here \in Nat /\ Here < Width[depth + 1 - n]
  BY <1>1
<1>3. Here \div 2 \in Nat /\ Here \div 2 < Width[depth + 1 - (n + 1)]
  <2>1. depth + 1 - n \in 0 .. MAX_TREE_DEPTH /\ depth + 1 - n > 0
        /\ (depth + 1 - n) - 1 = depth + 1 - (n + 1)
    BY <1>1
  <2>2. (Here \div 2) \in 0 .. Width[(depth + 1 - n) - 1] - 1
    BY <1>2, <2>1, SiblingInLevel
  <2>3. Width[(depth + 1 - n) - 1] \in Nat
    BY <2>1, Widths
  <2> QED
    BY <2>1, <2>2, <2>3
<1>4. /\ position' \in Seq(Nat) /\ Len(position') = n + 1
      /\ \A k \in 1 .. n : position'[k] = position[k]
      /\ position'[n + 1] = Here \div 2
  BY <1>1, <1>3
<1>5. \A k \in 1 .. n + 1 : k \in 1 .. n \/ k = n + 1
  BY <1>1
<1>6. \A k \in 1 .. n + 1 : position'[k] < Width[depth + 1 - k]
  BY <1>1, <1>3, <1>4, <1>5
<1>7. \A k \in 1 .. n : position'[k + 1] = position'[k] \div 2
  <2> SUFFICES ASSUME NEW k \in 1 .. n
               PROVE  position'[k + 1] = position'[k] \div 2
    OBVIOUS
  <2>1. CASE k = n
    BY <1>1, <1>4, <2>1
  <2>2. CASE k # n
    <3>1. k \in 1 .. n - 1 /\ k + 1 \in 1 .. n
      BY <1>1, <2>2
    <3> QED
      BY <1>4, <3>1 DEF Climbing
  <2> QED
    BY <2>1, <2>2
<1>8. position'[1] = index
  BY <1>1, <1>4 DEF Climbing
<1>9. n + 1 \in 1 .. depth + 1 /\ (n + 1) - 1 = n
  BY <1>1
<1> QED
  BY ZenonT(30), <1>2, <1>4, <1>6, <1>7, <1>8, <1>9

LEMMA TakeSiblingOK ==
  ASSUME IInv, TakeSibling
  PROVE  IInv'
<1> USE DEF IInv
<1>1. UNCHANGED <<leaves, depth, index, call, T, TreeNodes>>
  BY SameTree DEF Next
<1>2. /\ Len(position) = depth - level + 1 /\ i = 0 /\ Here \in Nat /\ Here < Width[level]
      /\ Here = position[depth - level + 1]
  <2>1. Len(position) = depth - level + 1 /\ i = 0
    BY SMTT(30), Bounds DEF TakeSibling, Climbing
  <2>2. /\ Len(position) \in 1 .. Len(position) /\ Here = position[Len(position)]
        /\ position \in Seq(Nat) /\ depth + 1 - Len(position) = level
    BY <2>1, Bounds DEF Here, TypeOK
  <2>3. Here \in Nat /\ Here < Width[level]
    BY SMTT(30), <2>2 DEF TypeOK
  <2> QED
    BY <2>1, <2>2, <2>3
<1>3. nodes[Sibling(Here)] = T[level][Sibling(Here)] /\ nodes[Sibling(Here)] \in TreeNodes
  <2>1. Sibling(Here) \in 0 .. Width[level] - 1
    BY SMTT(30), <1>2, Bounds, SiblingInLevel DEF TakeSibling
  <2>2. nodes[Sibling(Here)] = T[level][Sibling(Here)]
    <3>1. 2 * i = 0 /\ call # "tree"
      BY <1>2 DEF TakeSibling
    <3> QED
      BY <2>1, <3>1 DEF Folding
  <2> QED
    BY <2>1, <2>2, Bounds DEF TreeNodes
<1>4. /\ Len(path') = Len(path) + 1 /\ Len(path) = depth - level
      /\ \A k \in 1 .. Len(path) : path'[k] = path[k]
      /\ path'[Len(path) + 1] = nodes[Sibling(Here)]
      /\ path' \in Seq(TreeNodes)
  BY <1>3 DEF TakeSibling, Climbing
<1>5. TypeOK'
  <2>1. Len(path') \in 0 .. depth
    BY SMTT(30), <1>4, Bounds DEF TakeSibling
  <2> QED
    BY <1>1, <2>1 DEF TakeSibling, TypeOK
<1>6. Folding' /\ Building'
  BY <1>1 DEF TakeSibling, Folding, Building
<1>7. Climbing'
  <2>1. \A k \in 1 .. Len(path') : path'[k] = T'[depth' - k + 1][Sibling(position'[k])]
    <3> SUFFICES ASSUME NEW k \in 1 .. Len(path')
                 PROVE  path'[k] = T[depth - k + 1][Sibling(position[k])]
      BY <1>1 DEF TakeSibling
    <3>1. CASE k \in 1 .. Len(path)
      BY <1>4, <3>1 DEF Climbing
    <3>2. CASE k = Len(path) + 1
      <4>1. depth - k + 1 = level /\ position[k] = Here
        BY SMTT(30), <1>2, <1>4, <3>2, Bounds
      <4> QED
        BY <1>3, <1>4, <3>2, <4>1
    <3> QED
      BY <1>4, <3>1, <3>2, Bounds
  <2> QED
    BY ZenonT(30), <1>1, <1>2, <1>4, <2>1, Bounds DEF TakeSibling, Climbing
<1>8. Checking'
  BY <1>1, <1>2 DEF TakeSibling, Checking, PathTaken
<1> QED
  BY <1>5, <1>6, <1>7, <1>8

(* The parent written is the one of the tree: hashed from children not yet *)
(* overwritten, or the zero hash the tree has there as well.               *)
LEMMA ParentOfTree ==
  ASSUME IInv, level > 0, i < Width[level - 1], NEW v,
         v[2 * i] = T[level][2 * i], v[2 * i + 1] = T[level][2 * i + 1]
  PROVE  Parent(v) = T[level - 1][i]
<1> USE DEF IInv
<1>1. /\ level \in 1 .. depth /\ depth \in 0 .. MAX_TREE_DEPTH /\ MAX_TREE_DEPTH \in Nat
      /\ i \in 0 .. Width[level - 1] - 1 /\ n_non_dummy_nodes \in Nat
      /\ Width[level] = 2 * Width[level - 1] /\ Width[level - 1] \in Nat
  BY Bounds
<1>2. T[level - 1][i] = Hash(T[level][2 * i], T[level][2 * i + 1])
  BY <1>1, Hashes
<1>3. CASE 2 * i >= n_non_dummy_nodes
  <2>1. T[level][2 * i] = Zeros[depth - level] /\ T[level][2 * i + 1] = Zeros[depth - level]
    BY <1>1, <1>3 DEF Folding
  <2>2. Zeros[depth + 1 - level] = Hash(Zeros[depth - level], Zeros[depth - level])
    <3>1. /\ depth + 1 - level \in 1 .. MAX_TREE_DEPTH
          /\ (depth + 1 - level) - 1 = depth - level
      BY <1>1
    <3> QED
      BY <3>1, MerkleAssumption
  <2> QED
    BY <1>2, <1>3, <2>1, <2>2 DEF Parent
<1>4. CASE ~(2 * i >= n_non_dummy_nodes)
  BY <1>2, <1>4 DEF Parent
<1> QED
  BY <1>3, <1>4

LEMMA CombineOK ==
  ASSUME IInv, Combine
  PROVE  IInv'
<1> USE DEF IInv
<1>1. UNCHANGED <<leaves, depth, index, call, T, TreeNodes>>
  BY SameTree DEF Next
<1>2. /\ level \in 1 .. depth /\ depth \in 0 .. MAX_TREE_DEPTH /\ MAX_TREE_DEPTH \in Nat
      /\ i \in 0 .. Width[level - 1] - 1 /\ i' = i + 1 /\ level' = level
      /\ Width[level] = 2 * Width[level - 1] /\ Width[level - 1] \in Nat
      /\ Width[level] <= Width[depth] /\ Width[depth] \in Nat
  BY SMTT(30), Bounds, Widths DEF Combine, Folding
<1>3. CASE call = "tree"
  <2>1. Parent(tree[level]) = T[level - 1][i]
    BY <1>2, <1>3, ParentOfTree DEF Building
  <2>2. /\ DOMAIN tree' = DOMAIN tree /\ nodes' = nodes
        /\ \A l \in DOMAIN tree : l # level - 1 => tree'[l] = tree[l]
        /\ tree'[level - 1][i] = Parent(tree[level])
        /\ \A j \in 0 .. i - 1 : tree'[level - 1][j] = tree[level - 1][j]
    <3> DEFINE row == [j \in 0 .. i |-> IF j = i THEN Parent(tree[level]) ELSE tree[level - 1][j]]
    <3>1. tree' = [tree EXCEPT ![level - 1] = row] /\ nodes' = nodes
      BY <1>3 DEF Combine
    <3>2. level - 1 \in DOMAIN tree /\ i \in Nat
      BY <1>2 DEF TypeOK
    <3>3. row[i] = Parent(tree[level]) /\ \A j \in 0 .. i - 1 : row[j] = tree[level - 1][j]
      BY <3>2
    <3> QED
      BY <3>1, <3>2, <3>3
  <2>3. TypeOK'
    <3>1. i' \in Nat /\ level' > 0 /\ i' <= Width[level' - 1]
      BY <1>2
    <3> QED
      BY <1>1, <1>2, <2>2, <3>1 DEF Combine, TypeOK
  <2>4. Folding'
    BY <1>1, <1>3 DEF Combine, Folding
  <2>5. Building'
    <3>1. \A l \in level .. depth : tree'[l] = tree[l]
      <4>1. DOMAIN tree = 0 .. depth
        BY DEF TypeOK
      <4> QED
        BY <1>2, <2>2, <4>1
    <3>2. \A j \in 0 .. i : tree'[level - 1][j] = T[level - 1][j]
      BY <1>2, <1>3, <2>1, <2>2 DEF Building
    <3> QED
      BY <1>1, <1>2, <1>3, <3>1, <3>2 DEF Building
  <2>6. Climbing' /\ Checking'
    BY <1>1, <1>2, <1>3 DEF Combine, Climbing, Checking, PathTaken
  <2> QED
    BY <2>3, <2>4, <2>5, <2>6
<1>4. CASE call # "tree"
  <2>1. Parent(nodes) = T[level - 1][i]
    BY <1>2, <1>4, ParentOfTree DEF Folding
  <2>2. /\ DOMAIN nodes' = DOMAIN nodes /\ tree' = tree
        /\ \A j \in DOMAIN nodes : j # i => nodes'[j] = nodes[j]
        /\ i \in DOMAIN nodes => nodes'[i] = Parent(nodes)
    BY <1>2, <1>4 DEF Combine
  <2>3. TypeOK'
    <3>1. i' \in Nat /\ level' > 0 /\ i' <= Width[level' - 1]
      BY <1>2
    <3> QED
      BY <1>1, <1>2, <2>2, <3>1 DEF Combine, TypeOK
  <2>4. Folding'
    <3>1. /\ i \in DOMAIN nodes
          /\ \A j \in 0 .. Width[level] - 1 : j \in DOMAIN nodes
      <4>1. DOMAIN nodes = 0 .. Width[depth] - 1
        BY DEF TypeOK
      <4> QED
        BY SMTT(30), <1>2, <4>1
    <3>2. \A j \in 0 .. i : nodes'[j] = T[level - 1][j]
      BY <1>2, <1>4, <2>1, <2>2, <3>1 DEF Folding
    <3>3. \A j \in 2 * i + 2 .. Width[level] - 1 : nodes'[j] = T[level][j]
      BY <1>2, <1>4, <2>2, <3>1 DEF Folding
    <3> QED
      BY SMTT(30), <1>1, <1>2, <3>2, <3>3 DEF Combine, Folding
  <2>5. Building'
    BY <1>1, <1>4 DEF Building
  <2>6. Climbing' /\ Checking'
    BY <1>1, <1>2, <1>4 DEF Combine, Climbing, Checking, PathTaken
  <2> QED
    BY <2>3, <2>4, <2>5, <2>6
<1> QED
  BY <1>3, <1>4

(* One level up the tree: where only padding lies below, the tree has the  *)
(* next zero hash.                                                         *)
LEMMA LevelDoneOK ==
  ASSUME IInv, LevelDone
  PROVE  IInv'
<1> USE DEF IInv
<1>1. UNCHANGED <<leaves, depth, index, call, T, TreeNodes, nodes, tree, path, hash, checked>>
  BY SameTree DEF Next, LevelDone
<1>2. /\ level \in 1 .. depth /\ depth \in 0 .. MAX_TREE_DEPTH /\ MAX_TREE_DEPTH \in Nat
      /\ i = Width[level - 1] /\ i' = 0 /\ level' = level - 1 /\ level' \in 0 .. depth
      /\ Width[level] = 2 * Width[level - 1] /\ Width[level - 1] \in Nat
      /\ Width[level] <= Width[depth] /\ Width[depth] \in Nat
      /\ n_non_dummy_nodes \in Nat /\ depth - level' = (depth - level) + 1
  <2>1. /\ level > 0 /\ i = Width[level - 1] /\ i' = 0 /\ level' = level - 1
        /\ Width[level] <= Width[depth]
    BY DEF LevelDone, Folding
  <2>2. Width[depth] \in Nat
    BY Bounds, Widths
  <2> QED
    BY <2>1, <2>2, Bounds
<1>3. /\ n_non_dummy_nodes' \in Nat
      /\ \A j \in Nat : j >= n_non_dummy_nodes' => 2 * j >= n_non_dummy_nodes
  BY <1>2 DEF LevelDone, Halved
<1>4. Folding'
  <2>1. \A j \in 0 .. Width[level - 1] - 1 :
          j >= n_non_dummy_nodes' => T[level - 1][j] = Zeros[depth - level + 1]
    <3> SUFFICES ASSUME NEW j \in 0 .. Width[level - 1] - 1, j >= n_non_dummy_nodes'
                 PROVE  T[level - 1][j] = Zeros[depth - level + 1]
      OBVIOUS
    <3>1. T[level - 1][j] = Hash(T[level][2 * j], T[level][2 * j + 1])
      BY <1>2, Hashes
    <3>2. T[level][2 * j] = Zeros[depth - level] /\ T[level][2 * j + 1] = Zeros[depth - level]
      BY <1>2, <1>3 DEF Folding
    <3>3. /\ depth - level + 1 \in 1 .. MAX_TREE_DEPTH
          /\ (depth - level + 1) - 1 = depth - level
      BY <1>2
    <3> QED
      BY <3>1, <3>2, <3>3, MerkleAssumption
  <2>2. call # "tree" => \A j \in 0 .. Width[level - 1] - 1 : nodes[j] = T[level - 1][j]
    BY <1>2 DEF Folding
  <2> QED
    BY <1>1, <1>2, <2>1, <2>2 DEF Folding
<1>5. Building'
  <2>1. call = "tree" => \A j \in 0 .. Width[level - 1] - 1 : tree[level - 1][j] = T[level - 1][j]
    BY <1>2 DEF Building
  <2>2. \A l \in level - 1 .. depth : l = level - 1 \/ l \in level .. depth
    BY <1>2
  <2> QED
    BY <1>1, <1>2, <2>1, <2>2 DEF Building
<1>6. CASE call = "path"
  <2>1. /\ position' = Append(position, Here \div 2) /\ Len(position) = depth - level + 1
        /\ Len(position) <= depth /\ depth + 1 - Len(position) = level
    BY <1>2, <1>6 DEF LevelDone, Climbing
  <2>2. /\ position' \in Seq(Nat) /\ Len(position') = Len(position) + 1
        /\ Len(position') \in 1 .. depth + 1
        /\ \A k \in 1 .. Len(position) : position'[k] = position[k]
        /\ \A k \in 1 .. Len(position') : position'[k] < Width[depth + 1 - k]
        /\ \A k \in 1 .. Len(position') - 1 : position'[k + 1] = position'[k] \div 2
        /\ position'[1] = index
        /\ Here \in Nat /\ Here < Width[level]
    BY ZenonT(30), <1>1, <2>1, ClimbOne
  <2>3. Len(path) = depth - level + 1
    <3>1. i > 0
      BY <1>2, <2>2
    <3> QED
      BY <1>6, <3>1 DEF Climbing
  <2>4. TypeOK'
    <3>1. i' \in Nat /\ (level' = 0 => i' = 0) /\ (level' > 0 => i' <= Width[level' - 1])
      BY <1>2, Widths
    <3> QED
      BY <1>1, <1>2, <1>3, <2>2, <3>1 DEF TypeOK
  <2>5. Climbing'
    <3>1. \A k \in 1 .. Len(path') : path'[k] = T'[depth' - k + 1][Sibling(position'[k])]
      BY ZenonT(30), <1>1, <1>2, <2>1, <2>2, <2>3 DEF Climbing
    <3>2. /\ Len(position') = depth' - level' + 1 /\ Len(path') = depth' - level'
          /\ ~(i' > 0)
      BY <1>1, <1>2, <2>1, <2>2, <2>3
    <3> QED
      BY <1>1, <1>6, <2>2, <3>1, <3>2 DEF Climbing
  <2>6. Checking'
    <3>1. checked = 0
      BY <1>2 DEF Checking, PathTaken, TypeOK
    <3> QED
      BY <1>1, <2>2, <3>1 DEF Checking, Climbing
  <2> QED
    BY <1>4, <1>5, <2>4, <2>5, <2>6
<1>7. CASE call # "path"
  <2>1. position' = position
    BY <1>7 DEF LevelDone
  <2>2. TypeOK'
    <3>1. i' \in Nat /\ (level' = 0 => i' = 0) /\ (level' > 0 => i' <= Width[level' - 1])
      BY <1>2, Widths
    <3> QED
      BY <1>1, <1>2, <1>3, <2>1, <3>1 DEF TypeOK
  <2>3. Climbing' /\ Checking'
    BY <1>1, <1>2, <1>7, <2>1 DEF Climbing, Checking, PathTaken
  <2> QED
    BY <1>4, <1>5, <2>2, <2>3
<1> QED
  BY <1>6, <1>7

LEMMA TakeFromTreeOK ==
  ASSUME IInv, TakeFromTree
  PROVE  IInv'
<1> USE DEF IInv
<1>1. UNCHANGED <<leaves, depth, index, call, T, TreeNodes, nodes, tree, level, i,
                  n_non_dummy_nodes, hash, checked>>
  BY SameTree DEF Next, TakeFromTree
<1> DEFINE n == Len(path)
<1>2. /\ call = "tree" /\ level = 0 /\ n \in Nat /\ n < depth /\ depth \in Nat
      /\ Len(position) = n + 1 /\ Len(position) <= depth
      /\ depth + 1 - Len(position) = depth - n /\ depth \in 0 .. MAX_TREE_DEPTH
      /\ MAX_TREE_DEPTH \in Nat
  BY Bounds DEF TakeFromTree, Climbing
<1>3. /\ position' \in Seq(Nat) /\ Len(position') = Len(position) + 1
      /\ Len(position') \in 1 .. depth + 1
      /\ \A k \in 1 .. Len(position) : position'[k] = position[k]
      /\ \A k \in 1 .. Len(position') : position'[k] < Width[depth + 1 - k]
      /\ \A k \in 1 .. Len(position') - 1 : position'[k + 1] = position'[k] \div 2
      /\ position'[1] = index
      /\ Here \in Nat /\ Here < Width[depth - n]
  BY ZenonT(30), <1>1, <1>2, ClimbOne DEF TakeFromTree
<1>4. /\ tree[depth - n][Sibling(Here)] = T[depth - n][Sibling(Here)]
      /\ tree[depth - n][Sibling(Here)] \in TreeNodes
  <2>1. depth - n \in 0 .. MAX_TREE_DEPTH /\ depth - n > 0 /\ depth - n \in 0 .. depth
    BY <1>2
  <2>2. Sibling(Here) \in 0 .. Width[depth - n] - 1
    BY <1>3, <2>1, SiblingInLevel
  <2>3. tree[depth - n][Sibling(Here)] = T[depth - n][Sibling(Here)]
    BY <1>2, <2>1, <2>2 DEF Building
  <2> QED
    BY <2>1, <2>2, <2>3 DEF TreeNodes
<1>5. /\ path' \in Seq(TreeNodes) /\ Len(path') = n + 1
      /\ \A k \in 1 .. n : path'[k] = path[k]
      /\ path'[n + 1] = tree[depth - n][Sibling(Here)]
  BY <1>4 DEF TakeFromTree, Climbing
<1>6. TypeOK'
  BY <1>1, <1>2, <1>3, <1>5 DEF TypeOK
<1>7. Folding' /\ Building'
  BY <1>1 DEF Folding, Building
<1>8. Climbing'
  <2>1. \A k \in 1 .. Len(path') : path'[k] = T[depth - k + 1][Sibling(position'[k])]
    <3> SUFFICES ASSUME NEW k \in 1 .. n + 1
                 PROVE  path'[k] = T[depth - k + 1][Sibling(position'[k])]
      BY <1>5
    <3>1. CASE k \in 1 .. n
      <4>1. position'[k] = position[k]
        BY <1>2, <1>3, <3>1
      <4> QED
        BY <1>5, <3>1, <4>1 DEF Climbing
    <3>2. CASE k = n + 1
      <4>1. depth - k + 1 = depth - n /\ position'[k] = Here
        BY SMTT(30), <1>2, <1>3, <3>2 DEF Here
      <4> QED
        BY <1>4, <1>5, <3>2, <4>1
    <3> QED
      BY <1>2, <3>1, <3>2
  <2> QED
    BY <1>1, <1>2, <1>3, <1>5, <2>1 DEF Climbing
<1>9. Checking'
  <2>1. checked = 0
    BY <1>2 DEF Checking, PathTaken, TypeOK
  <2> QED
    BY <1>1, <1>3, <2>1 DEF Checking, Climbing
<1> QED
  BY <1>6, <1>7, <1>8, <1>9

(* The bit of the index puts the sibling on the side it has in the tree.   *)
LEMMA CheckLevelOK ==
  ASSUME IInv, CheckLevel
  PROVE  IInv'
<1> USE DEF IInv
<1>1. UNCHANGED <<leaves, depth, index, call, T, TreeNodes, nodes, tree, level, i,
                  n_non_dummy_nodes, position, path>>
  BY SameTree DEF Next, CheckLevel
<1> DEFINE c == checked
           p == position[c + 1]
           q == p \div 2
<1>2. /\ c \in Nat /\ c < depth /\ depth \in Nat /\ Len(path) = depth /\ PathTaken
      /\ Len(position) = depth + 1 /\ position \in Seq(Nat)
      /\ depth \in 0 .. MAX_TREE_DEPTH /\ MAX_TREE_DEPTH \in Nat
  BY Bounds DEF CheckLevel, PathTaken, Climbing, TypeOK
<1>3. p \in Nat /\ position[(c + 1) + 1] = q /\ q \in Nat /\ q < Width[(depth - c) - 1]
  <2>1. /\ c + 1 \in 1 .. Len(position) - 1 /\ c + 1 \in 1 .. Len(position)
        /\ depth + 1 - (c + 1) = depth - c
        /\ depth - c \in 0 .. MAX_TREE_DEPTH /\ depth - c > 0
    BY <1>2
  <2>2. p \in Nat /\ p < Width[depth - c] /\ position[(c + 1) + 1] = q
    <3>1. p < Width[depth + 1 - (c + 1)]
      BY <2>1 DEF TypeOK
    <3>2. position[(c + 1) + 1] = q
      BY SMTT(30), <2>1 DEF Climbing
    <3> QED
      BY SMTT(30), <1>2, <2>1, <3>1, <3>2
  <2>3. q \in 0 .. Width[(depth - c) - 1] - 1 /\ Width[(depth - c) - 1] \in Nat
    BY ZenonT(30), <2>1, <2>2, SiblingInLevel, Widths
  <2> QED
    BY <2>2, <2>3
<1>4. path[c + 1] = T[depth - c][Sibling(p)]
  <2>1. c + 1 \in 1 .. Len(path) /\ depth - (c + 1) + 1 = depth - c
    BY <1>2
  <2> QED
    BY <2>1 DEF Climbing
<1>5. T[(depth - c) - 1][q] = Hash(T[depth - c][2 * q], T[depth - c][2 * q + 1])
  <2>1. /\ depth - c \in 1 .. depth /\ Width[(depth - c) - 1] \in Nat
    BY <1>2, Widths
  <2>2. q \in 0 .. Width[(depth - c) - 1] - 1
    BY <1>3, <2>1
  <2> QED
    BY <2>1, <2>2, Hashes
<1>6. hash = T[depth - c][p]
  BY DEF Checking
<1>7. hash' = T[(depth - c) - 1][q] /\ checked' = c + 1
  <2>1. CASE p % 2 = 1
    <3>1. p = 2 * q + 1 /\ Sibling(p) = 2 * q
      BY ZenonT(30), <1>3, <2>1, Parity
    <3> QED
      BY <1>4, <1>5, <1>6, <2>1, <3>1 DEF CheckLevel
  <2>2. CASE p % 2 # 1
    <3>1. p = 2 * q /\ Sibling(p) = 2 * q + 1
      BY ZenonT(30), <1>3, <2>2, Parity
    <3> QED
      BY <1>4, <1>5, <1>6, <2>2, <3>1 DEF CheckLevel
  <2> QED
    BY SMTT(30), <2>1, <2>2
<1>8. Checking'
  <2>1. depth - (c + 1) = (depth - c) - 1
    BY <1>2
  <2> QED
    BY SMTT(30), <1>1, <1>2, <1>3, <1>7, <2>1 DEF Checking, PathTaken
<1>9. TypeOK' /\ Folding' /\ Building' /\ Climbing'
  <2>1. checked' \in 0 .. depth
    BY <1>2, <1>7
  <2>2. TypeOK'
    BY <1>1, <2>1 DEF TypeOK
  <2> QED
    BY SMTT(30), <1>1, <2>2 DEF Folding, Building, Climbing
<1> QED
  BY <1>8, <1>9

(* What the loops maintain, for every leaf vector, depth and hash.         *)
THEOREM LoopsFollowTree == Spec => []IInv
<1>1. Init => IInv
  BY InitOK
<1>2. IInv /\ [Next]_vars => IInv'
  <2> SUFFICES ASSUME IInv, [Next]_vars PROVE IInv'
    OBVIOUS
  <2>1. CASE Next
    BY SMTT(30), <2>1, TakeSiblingOK, CombineOK, LevelDoneOK, TakeFromTreeOK, CheckLevelOK DEF Next
  <2>2. CASE UNCHANGED vars
    <3>1. UNCHANGED <<T, TreeNodes, PathTaken>>
      BY <2>2 DEF vars, T, TreeNodes, PathTaken
    <3>2. TypeOK'
      BY <2>2 DEF vars, IInv, TypeOK
    <3>3. Folding' /\ Building'
      BY <2>2, <3>1 DEF vars, IInv, Folding, Building
    <3>4. Climbing'
      BY <2>2, <3>1 DEF vars, IInv, Climbing
    <3>5. Checking'
      BY <2>2, <3>1, Zenon DEF vars, IInv, Checking
    <3> QED
      BY <3>2, <3>3, <3>4, <3>5 DEF IInv
  <2> QED
    BY <2>1, <2>2
<1> QED
  BY <1>1, <1>2, PTL DEF Spec

(* fold_merkle_left, get_merkle_path_from_leaves and build_merkle_tree     *)
(* return the root of the tree with every pair hashed, whatever the number *)
(* of leaves.                                                              *)
THEOREM RootsAreReference == Spec => []RootIsReference
<1>1. IInv => RootIsReference
  <2> SUFFICES ASSUME IInv, level = 0 PROVE Root = T[0][0]
    BY DEF RootIsReference, T
  <2>1. Width[0] = 1 /\ i = 0 /\ depth \in Nat
    BY MerkleAssumption, Bounds DEF IInv, TypeOK
  <2>2. 0 \in 2 * i .. Width[level] - 1 /\ 0 \in 0 .. Width[0] - 1 /\ 0 \in level .. depth
    BY <2>1
  <2>3. call # "tree" => nodes[0] = T[0][0]
    BY <2>2, Zenon DEF IInv, Folding
  <2>4. call = "tree" => tree[0][0] = T[0][0]
    BY <2>2, Zenon DEF IInv, Building
  <2> QED
    BY <2>3, <2>4, Zenon DEF Root
<1> QED
  BY <1>1, LoopsFollowTree, PTL

(* compute_merkle_root_from_path returns that root from the path of any    *)
(* index, taken from the leaves or from the tree.                          *)
THEOREM PathsLeadToRoot == Spec => []PathLeadsToRoot
<1>1. IInv => PathLeadsToRoot
  <2> SUFFICES ASSUME IInv, PathTaken, checked = depth PROVE hash = T[0][0]
    BY DEF PathLeadsToRoot, T
  <2>1. depth \in Nat /\ Len(position) = depth + 1 /\ position \in Seq(Nat)
    BY Bounds DEF IInv, PathTaken, Climbing, TypeOK
  <2>2. hash = T[0][position[depth + 1]]
    BY <2>1 DEF IInv, Checking
  <2>3. position[depth + 1] \in Nat /\ position[depth + 1] < Width[0]
    <3>1. depth + 1 \in 1 .. Len(position) /\ depth + 1 - (depth + 1) = 0
      BY <2>1
    <3> QED
      BY <2>1, <3>1 DEF IInv, TypeOK
  <2>4. position[depth + 1] = 0
    BY <2>3, MerkleAssumption
  <2> QED
    BY <2>2, <2>4
<1> QED
  BY <1>1, LoopsFollowTree, PTL

(* A hash without collisions, whose values are neither leaves nor padding, *)
(* and leaves that are not padding: leaves are hashes of requests.         *)
IdealHash ==
  /\ \A a, b, c, d : Hash(a, b) = Hash(c, d) => a = c /\ b = d
  /\ \A a, b : Hash(a, b) # Zero
  /\ \A v \in LeafLists : \A k \in 1 .. Len(v) : v[k] # Zero /\ \A a, b : Hash(a, b) # v[k]

LEMMA PaddedIsNoHash ==
  ASSUME IdealHash, NEW v \in LeafLists, NEW j \in Nat, NEW a, NEW b
  PROVE  Padded(v, j) # Hash(a, b)
  <1>1. Len(v) \in Nat
    BY MerkleAssumption
  <1>2. CASE j < Len(v)
    <2>1. j + 1 \in 1 .. Len(v)
      BY <1>1, <1>2
    <2> QED
      BY <1>2, <2>1 DEF Padded, IdealHash
  <1>3. CASE ~(j < Len(v))
    BY <1>3 DEF Padded, IdealHash
  <1> QED
    BY <1>2, <1>3

(* Equal roots have equal nodes on every level both trees have.            *)
LEMMA EqualRootsEqualNodes ==
  ASSUME IdealHash, NEW A, NEW B, NEW v, NEW w,
         NEW d \in 0 .. MAX_TREE_DEPTH, NEW e \in 0 .. MAX_TREE_DEPTH,
         IsTree(A, v, d), IsTree(B, w, e), A[0][0] = B[0][0]
  PROVE  \A l \in Nat : l <= d /\ l <= e => \A j \in 0 .. Width[l] - 1 : A[l][j] = B[l][j]
  <1>0. MAX_TREE_DEPTH \in Nat /\ Width[0] = 1
    BY MerkleAssumption
  <1> DEFINE S == {l \in Nat : l <= d /\ l <= e => \A j \in 0 .. Width[l] - 1 : A[l][j] = B[l][j]}
  <1>1. 0 \in S
    <2>1. \A j \in 0 .. Width[0] - 1 : j = 0
      BY <1>0
    <2> QED
      BY <2>1
  <1>2. ASSUME NEW l \in Nat, l \in S
        PROVE  l + 1 \in S
    <2> SUFFICES ASSUME l + 1 <= d, l + 1 <= e, NEW p \in 0 .. Width[l + 1] - 1
                 PROVE  A[l + 1][p] = B[l + 1][p]
      OBVIOUS
    <2>1. l + 1 \in 0 .. MAX_TREE_DEPTH /\ l + 1 \in 1 .. d /\ l + 1 \in 1 .. e /\ (l + 1) - 1 = l
      BY <1>0
    <2>2. Width[l + 1] = 2 * Width[l] /\ Width[l] \in Nat
      BY <2>1, Widths
    <2>3. p \in Nat /\ p < 2 * Width[l]
      BY <2>2
    <2>4. PICK q \in Nat : p = 2 * q \/ p = 2 * q + 1
      BY <2>3, Parity
    <2>5. q \in 0 .. Width[l] - 1
      BY <2>2, <2>3, <2>4
    <2>6. A[l][q] = B[l][q]
      BY <1>2, <2>1, <2>5
    <2>7. A[l][q] = Hash(A[l + 1][2 * q], A[l + 1][2 * q + 1])
      BY <2>1, <2>5 DEF IsTree
    <2>8. B[l][q] = Hash(B[l + 1][2 * q], B[l + 1][2 * q + 1])
      BY <2>1, <2>5 DEF IsTree
    <2>9. A[l + 1][2 * q] = B[l + 1][2 * q] /\ A[l + 1][2 * q + 1] = B[l + 1][2 * q + 1]
      <3>1. PICK a1, a2, b1, b2 :
              /\ a1 = A[l + 1][2 * q] /\ a2 = A[l + 1][2 * q + 1]
              /\ b1 = B[l + 1][2 * q] /\ b2 = B[l + 1][2 * q + 1]
        OBVIOUS
      <3>2. Hash(a1, a2) = Hash(b1, b2)
        BY <2>6, <2>7, <2>8, <3>1, Zenon
      <3>3. a1 = b1 /\ a2 = b2
        BY <3>2, Zenon DEF IdealHash
      <3> QED
        BY <3>1, <3>3, Zenon
    <2> QED
      BY <2>4, <2>9
  <1>3. \A l \in Nat : l \in S
    <2> HIDE DEF S
    <2> QED
      BY <1>1, <1>2, Induct
  <1> QED
    BY <1>3

(* A deeper tree has a hash where the other has a leaf or padding.         *)
LEMMA EqualRootsEqualDepths ==
  ASSUME IdealHash, NEW A, NEW B, NEW v \in LeafLists, NEW w,
         NEW d \in 0 .. MAX_TREE_DEPTH, NEW e \in 0 .. MAX_TREE_DEPTH,
         IsTree(A, v, d), IsTree(B, w, e), A[0][0] = B[0][0]
  PROVE  ~(d < e)
  <1> SUFFICES ASSUME d < e
               PROVE  FALSE
    OBVIOUS
  <1>1. MAX_TREE_DEPTH \in Nat /\ d \in Nat /\ e \in Nat /\ d + 1 \in 1 .. e /\ (d + 1) - 1 = d
    BY MerkleAssumption
  <1>2. Width[d] \in Nat /\ 0 \in 0 .. Width[d] - 1
    <2> DEFINE S == {l \in Nat : l <= MAX_TREE_DEPTH => Width[l] \in Nat /\ Width[l] >= 1}
    <2>1. 0 \in S
      BY MerkleAssumption
    <2>2. ASSUME NEW l \in Nat, l \in S
          PROVE  l + 1 \in S
      <3> SUFFICES ASSUME l + 1 <= MAX_TREE_DEPTH
                   PROVE  Width[l + 1] \in Nat /\ Width[l + 1] >= 1
        OBVIOUS
      <3>1. l + 1 \in 0 .. MAX_TREE_DEPTH /\ (l + 1) - 1 = l
        BY <1>1
      <3>2. Width[l + 1] = 2 * Width[l]
        BY <3>1, Widths
      <3>3. Width[l] \in Nat /\ Width[l] >= 1
        BY <1>1, <2>2
      <3> QED
        BY <3>2, <3>3
    <2>3. d \in S
      <3> HIDE DEF S
      <3> QED
        BY <1>1, <2>1, <2>2, Induct
    <2> QED
      BY <1>1, <2>3
  <1>3. A[d][0] = B[d][0]
    BY <1>1, <1>2, EqualRootsEqualNodes
  <1>4. A[d][0] = Padded(v, 0)
    BY <1>2 DEF IsTree
  <1>5. B[d][0] = Hash(B[d + 1][2 * 0], B[d + 1][2 * 0 + 1])
    BY <1>1, <1>2 DEF IsTree
  <1> QED
    BY <1>3, <1>4, <1>5, PaddedIsNoHash

(* Padding is not mistaken for leaves.                                     *)
LEMMA EqualPaddedNotShorter ==
  ASSUME IdealHash, NEW v \in LeafLists, NEW w \in LeafLists, NEW n \in Nat, Len(w) <= n,
         \A j \in 0 .. n - 1 : Padded(v, j) = Padded(w, j)
  PROVE  ~(Len(v) < Len(w))
  <1> SUFFICES ASSUME Len(v) < Len(w)
               PROVE  FALSE
    OBVIOUS
  <1>1. Len(v) \in Nat /\ Len(w) \in Nat
    BY MerkleAssumption
  <1>2. Len(v) \in 0 .. n - 1 /\ Len(v) + 1 \in 1 .. Len(w) /\ ~(Len(v) < Len(v))
    BY <1>1
  <1>3. Padded(v, Len(v)) = Zero /\ Padded(w, Len(v)) = w[Len(v) + 1]
    BY <1>2 DEF Padded
  <1> QED
    BY <1>2, <1>3 DEF IdealHash

LEMMA EqualRootsEqualLeaves ==
  ASSUME IdealHash, NEW v \in LeafLists, NEW w \in LeafLists,
         NEW d \in 0 .. MAX_TREE_DEPTH, NEW e \in 0 .. MAX_TREE_DEPTH,
         IsDepth(Len(v), d), IsDepth(Len(w), e),
         Reference(v, d)[0][0] = Reference(w, e)[0][0]
  PROVE  v = w
  <1>1. PICK A, B : A = Reference(v, d) /\ B = Reference(w, e)
    OBVIOUS
  <1>2. IsTree(A, v, d) /\ IsTree(B, w, e) /\ A[0][0] = B[0][0]
    BY <1>1, MerkleAssumption
  <1>3. ~(d < e) /\ ~(e < d)
    BY <1>2, EqualRootsEqualDepths
  <1>4. d = e /\ d \in Nat
    BY <1>3, MerkleAssumption
  <1>5. \A j \in 0 .. Width[d] - 1 : A[d][j] = B[d][j]
    BY <1>2, <1>4, EqualRootsEqualNodes
  <1>6. \A j \in 0 .. Width[d] - 1 : Padded(v, j) = Padded(w, j)
    BY <1>2, <1>4, <1>5 DEF IsTree
  <1>7. Width[d] \in Nat /\ Len(v) <= Width[d] /\ Len(w) <= Width[d]
    BY <1>4, Widths DEF IsDepth
  <1>8. Len(v) \in Nat /\ Len(w) \in Nat
    BY MerkleAssumption
  <1>9. ~(Len(v) < Len(w)) /\ ~(Len(w) < Len(v))
    BY <1>6, <1>7, EqualPaddedNotShorter
  <1>10. Len(v) = Len(w)
    BY <1>8, <1>9
  <1>11. \A k \in 1 .. Len(v) : v[k] = w[k]
    <2> TAKE k \in 1 .. Len(v)
    <2>1. k - 1 \in 0 .. Width[d] - 1 /\ k - 1 < Len(v) /\ k - 1 < Len(w) /\ (k - 1) + 1 = k
      BY <1>7, <1>8, <1>10
    <2>2. Padded(v, k - 1) = v[k] /\ Padded(w, k - 1) = w[k]
      BY <2>1 DEF Padded
    <2> QED
      BY <1>6, <2>1, <2>2
  <1>12. v = [k \in 1 .. Len(v) |-> v[k]] /\ w = [k \in 1 .. Len(w) |-> w[k]]
    BY MerkleAssumption
  <1> QED
    BY <1>10, <1>11, <1>12

(* Under an ideal hash, for leaf vectors of any lengths: the root that     *)
(* fold_merkle_left returns is the root of no other vector, whatever depth *)
(* and padding that one has.                                               *)
THEOREM RootsBindLeaves ==
  ASSUME IdealHash
  PROVE  Spec => []RootBindsLeaves
  <1>1. IInv => RootBindsLeaves
    <2> SUFFICES ASSUME IInv, call = "fold", level = 0, NEW v \in LeafLists \ {leaves},
                        NEW d \in 0 .. MAX_TREE_DEPTH, IsDepth(Len(v), d),
                        Reference(v, d)[0][0] = nodes[0]
                 PROVE  FALSE
      BY DEF RootBindsLeaves
    <2>1. PICK w, e : w = leaves /\ e = depth
      OBVIOUS
    <2>2. w \in LeafLists /\ e \in 0 .. MAX_TREE_DEPTH /\ IsDepth(Len(w), e)
      BY <2>1 DEF IInv, TypeOK
    <2>3. Width[0] = 1 /\ i = 0
      BY MerkleAssumption DEF IInv, TypeOK
    <2>4. nodes[0] = Reference(w, e)[0][0]
      BY <2>1, <2>3 DEF IInv, Folding, T
    <2> QED
      BY <2>1, <2>2, <2>4, EqualRootsEqualLeaves
  <1> QED
    BY <1>1, LoopsFollowTree, PTL

=============================================================================
