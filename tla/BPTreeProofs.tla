----------------------------- MODULE BPTreeProofs -----------------------------
(***************************************************************************)
(* Proofs about BPTree, for every degree, set of keys and number of pages: *)
(* the nodes keep their form, an operation that is not cut short gives     *)
(* back its pins, the separators bound what is below them, the tree        *)
(* implements an index, its leaves are at one depth and in a chain, and a  *)
(* search finds exactly what is in its range.                              *)
(*                                                                         *)
(* The last four need what the code never computes: which pages are in the *)
(* tree, a height for each that falls on the way down, and which keys may  *)
(* be below it.  TreeInv says such labels exist; ChainInv says that how    *)
(* many levels a page is above the leaves, and which leaves are the first  *)
(* and the last below it, exist too; a place for each leaf along the chain *)
(* follows from those.                                                     *)
(***************************************************************************)
EXTENDS BPTree, Induction

AnyKey == Keys \cup {EmptyKey}
AnyPtr == {NULL_PAGE} \cup NodeIds \cup Refs

NodeType ==
  [is_leaf : BOOLEAN, n_keys : 0 .. 2 * min_degree - 1,
   keys : [KeySlots -> AnyKey], ptrs : [PtrSlots -> AnyPtr]]

Inserting == op.kind \in {"insert", "split_root"}

\* Every node has its form, and an inner one points to pages of the tree.
ChildrenIn(x, pages) == ~x.is_leaf => \A i \in 0 .. x.n_keys : x.ptrs[i] \in pages

NodesInv ==
  /\ nodes \in [NodeIds -> NodeType]
  /\ allocated \in SUBSET NodeIds
  /\ \A p \in NodeIds : ChildrenIn(nodes[p], allocated)

InsertType ==
  [kind : {"insert", "split_root"}, key : Keys, ref : Refs, at : NodeIds,
   copy : {NULL_PAGE} \cup NodeIds]

RemoveType == [kind : {"remove"}, key : Keys, at : NodeIds]

\* What an operation under way has found: an insertion never comes to a full node.
OpInv ==
  /\ op = Idle \/ op \in InsertType \/ op \in RemoveType
  /\ op.kind # "none" => op.at \in allocated
  /\ op.kind = "insert" => ~Full(nodes[op.at])
  /\ op.kind = "split_root" =>
       /\ op.at = root_id
       /\ Full(nodes[root_id])
       /\ op.copy # NULL_PAGE =>
            op.copy \in allocated \ {root_id} /\ nodes[op.copy] = nodes[root_id]

CountInv ==
  /\ root_id \in allocated
  /\ inserts \in 0 .. MaxInserts
  /\ failures \in 0 .. MaxFailures
  /\ op.kind # "none" => failures < MaxFailures

\* Only the page an operation is at is pinned, until one is cut short.
PinsInv ==
  /\ pins \in [NodeIds -> Nat]
  /\ failures = 0 =>
       /\ op.kind = "none" => \A p \in NodeIds : pins[p] = 0
       /\ op.kind # "none" => /\ \A p \in NodeIds \ {op.at} : pins[p] = 0
                              /\ pins[op.at] <= 1

TypeInv == NodesInv /\ OpInv /\ CountInv /\ PinsInv
-----------------------------------------------------------------------------
(* The helpers keep the form of a node.                                    *)

LEMMA Sizes ==
  /\ min_degree \in Nat /\ min_degree >= 2
  /\ AnyKey \subseteq Int
  /\ EmptyKey \in AnyKey /\ NULL_PAGE \in AnyPtr /\ root_id \in NodeIds
  /\ NodeIds \subseteq AnyPtr /\ Refs \subseteq AnyPtr /\ NodeIds \subseteq Nat \ {0}
  /\ Keys \subseteq AnyKey
BY BPTreeAssumption DEF AnyKey, AnyPtr, EmptyKey, NULL_PAGE, root_id, NodeIds, Refs

\* A set of numbers has a least one.
LEMMA LeastIndex ==
  ASSUME NEW S \in SUBSET Nat, NEW n \in S
  PROVE  \E i \in S : \A j \in S : i <= j
<1>1. PICK i \in S : \A j \in S : ~(<<j, i>> \in OpToRel(<, Nat))
  BY WFMin, NatLessThanWellFounded, Zenon
<1>2. \A j \in S : ~(j < i)
  BY <1>1, Zenon DEF OpToRel
<1> QED BY <1>2

\* And, when it is bounded, a greatest one.
LEMMA GreatestIndex ==
  ASSUME NEW n \in Nat, NEW S \in SUBSET (0 .. n), NEW m \in S
  PROVE  \E i \in S : \A j \in S : j <= i
<1> DEFINE T == {n - i : i \in S}
<1>1. T \in SUBSET Nat /\ n - m \in T
  OBVIOUS
<1>2. PICK k \in T : \A j \in T : k <= j
  <2> HIDE DEF T
  <2> QED BY <1>1, LeastIndex
<1>3. PICK i \in S : k = n - i
  OBVIOUS
<1>4. \A j \in S : n - i <= n - j
  BY <1>2, <1>3
<1> QED BY <1>4

LEMMA UpperIndexFacts ==
  ASSUME NEW x \in NodeType, NEW key \in Keys
  PROVE  LET i == UpperIndex(x, key)
         IN  /\ i \in 0 .. x.n_keys
             /\ i = 0 \/ key >= x.keys[i - 1]
             /\ \A j \in i .. x.n_keys - 1 : key < x.keys[j]
<1> DEFINE n == x.n_keys
           S == {i \in 0 .. n : i = 0 \/ key >= x.keys[i - 1]}
<1>1. n \in Nat /\ n <= 2 * min_degree - 1 /\ x.keys \in [KeySlots -> AnyKey]
  BY Sizes DEF NodeType
<1>2. PICK i \in S : \A j \in S : j <= i
  <2>1. S \in SUBSET (0 .. n) /\ 0 \in S
    BY <1>1
  <2> HIDE DEF S, n
  <2> QED BY <1>1, <2>1, GreatestIndex
<1>3. ASSUME NEW j \in i .. n - 1 PROVE key < x.keys[j]
  <2>1. j + 1 \in 0 .. n /\ j + 1 \notin S /\ j \in KeySlots
    <3>1. i \in 0 .. n /\ j \in Nat /\ i <= j /\ j <= n - 1
      BY <1>1
    <3>2. ~(j + 1 <= i)
      BY <3>1
    <3> HIDE DEF S, n
    <3>3. j + 1 \notin S
      BY <1>2, <3>2
    <3> QED BY <1>1, <3>1, <3>3, Sizes DEF KeySlots
  <2>2. ~(key >= x.keys[j])
    <3>1. (j + 1) - 1 = j
      BY <1>1
    <3>2. ~(j + 1 = 0 \/ key >= x.keys[(j + 1) - 1])
      BY <2>1
    <3> QED BY <3>1, <3>2
  <2>3. x.keys[j] \in Int /\ key \in Int
    BY <1>1, <2>1, Sizes
  <2> QED BY <2>2, <2>3
<1>4. /\ i \in 0 .. x.n_keys
      /\ i = 0 \/ key >= x.keys[i - 1]
      /\ \A j \in i .. x.n_keys - 1 : key < x.keys[j]
  BY <1>3
<1> QED BY <1>4, Zenon DEF UpperIndex

LEMMA LowerIndexFacts ==
  ASSUME NEW x \in NodeType, NEW key \in Keys
  PROVE  LET i == LowerIndex(x, key)
         IN  /\ i \in 0 .. x.n_keys
             /\ i = x.n_keys \/ key <= x.keys[i]
             /\ \A j \in 0 .. i - 1 : key > x.keys[j]
<1> DEFINE n == x.n_keys
           S == {i \in 0 .. n : i = n \/ key <= x.keys[i]}
<1>1. n \in Nat /\ n <= 2 * min_degree - 1 /\ x.keys \in [KeySlots -> AnyKey]
  BY Sizes DEF NodeType
<1>2. PICK i \in S : \A j \in S : i <= j
  <2>1. S \in SUBSET Nat /\ n \in S
    BY <1>1
  <2> HIDE DEF S, n
  <2> QED BY <2>1, LeastIndex
<1>3. ASSUME NEW j \in 0 .. i - 1 PROVE key > x.keys[j]
  <2>1. j \in 0 .. n /\ j \notin S /\ j # n /\ j \in KeySlots
    BY <1>1, <1>2, Sizes DEF KeySlots
  <2>2. ~(key <= x.keys[j])
    BY <2>1
  <2>3. x.keys[j] \in Int /\ key \in Int
    BY <1>1, <2>1, Sizes
  <2> QED BY <2>2, <2>3
<1>4. /\ i \in 0 .. x.n_keys
      /\ i = x.n_keys \/ key <= x.keys[i]
      /\ \A j \in 0 .. i - 1 : key > x.keys[j]
  BY <1>3
<1> QED BY <1>4, Zenon DEF LowerIndex

\* Opening a place keeps an array's form.
LEMMA OpenedType ==
  ASSUME NEW V, NEW top \in Nat, NEW array \in [0 .. top -> V], NEW value \in V,
         NEW i \in Nat, NEW last \in Int
  PROVE  Opened(array, i, last, value) \in [0 .. top -> V]
BY DEF Opened

LEMMA NodeFields ==
  ASSUME NEW x \in NodeType
  PROVE  /\ x.is_leaf \in BOOLEAN
         /\ x.n_keys \in Nat /\ x.n_keys <= 2 * min_degree - 1
         /\ x.keys \in [KeySlots -> AnyKey] /\ x.ptrs \in [PtrSlots -> AnyPtr]
BY Sizes DEF NodeType

LEMMA NodeMade ==
  ASSUME NEW leaf \in BOOLEAN, NEW n \in 0 .. 2 * min_degree - 1,
         NEW keys \in [KeySlots -> AnyKey], NEW ptrs \in [PtrSlots -> AnyPtr]
  PROVE  [is_leaf |-> leaf, n_keys |-> n, keys |-> keys, ptrs |-> ptrs] \in NodeType
BY DEF NodeType

\* A node that differs in its keys, pointers and count.
LEMMA NodeChanged ==
  ASSUME NEW x \in NodeType, NEW n \in 0 .. 2 * min_degree - 1,
         NEW keys \in [KeySlots -> AnyKey], NEW ptrs \in [PtrSlots -> AnyPtr]
  PROVE  [x EXCEPT !.keys = keys, !.ptrs = ptrs, !.n_keys = n] \in NodeType
BY DEF NodeType

LEMMA NewNodeType == EmptyNode \in NodeType
<1>1. 0 \in 0 .. 2 * min_degree - 1 /\ EmptyKey \in AnyKey /\ NULL_PAGE \in AnyPtr
  BY Sizes
<1> QED BY <1>1 DEF EmptyNode, NodeType
\* A leaf with an entry more.
LEMMA WithEntryType ==
  ASSUME NEW x \in NodeType, ~Full(x), NEW key \in Keys, NEW ref \in AnyPtr
  PROVE  WithEntry(x, key, ref) \in NodeType /\ WithEntry(x, key, ref).is_leaf = x.is_leaf
<1> DEFINE i == UpperIndex(x, key)
           keys == Opened(x.keys, i, x.n_keys, key)
           ptrs == Opened(x.ptrs, i, x.n_keys + 1, ref)
<1>1. i \in Nat /\ x.n_keys + 1 \in 0 .. 2 * min_degree - 1
  BY UpperIndexFacts, NodeFields, Sizes DEF Full
<1>2. keys \in [KeySlots -> AnyKey]
  <2>1. 2 * min_degree - 2 \in Nat /\ key \in AnyKey /\ x.n_keys \in Int
    BY Sizes, NodeFields
  <2>2. x.keys \in [0 .. 2 * min_degree - 2 -> AnyKey]
    BY NodeFields DEF KeySlots
  <2> HIDE DEF i
  <2> QED BY <1>1, <2>1, <2>2, OpenedType DEF KeySlots
<1>3. ptrs \in [PtrSlots -> AnyPtr]
  <2>1. 2 * min_degree - 1 \in Nat /\ x.n_keys + 1 \in Int
    BY Sizes, NodeFields
  <2>2. x.ptrs \in [0 .. 2 * min_degree - 1 -> AnyPtr]
    BY NodeFields DEF PtrSlots
  <2> HIDE DEF i
  <2> QED BY <1>1, <2>1, <2>2, OpenedType DEF PtrSlots
<1> DEFINE n == x.n_keys + 1
<1>4. WithEntry(x, key, ref) = [x EXCEPT !.keys = keys, !.ptrs = ptrs, !.n_keys = n]
  BY Zenon DEF WithEntry
<1> HIDE DEF i, keys, ptrs, n
<1>5. WithEntry(x, key, ref) \in NodeType
  <2>1. n \in 0 .. 2 * min_degree - 1
    BY <1>1 DEF n
  <2>2. [x EXCEPT !.keys = keys, !.ptrs = ptrs, !.n_keys = n] \in NodeType
    BY <1>2, <1>3, <2>1, NodeChanged
  <2> QED BY <1>4, <2>2, Zenon
<1> QED BY <1>4, <1>5 DEF NodeType

\* Half of a full node stays where it was...
LEMMA LeftHalfType ==
  ASSUME NEW y \in NodeType, NEW z \in NodeIds
  PROVE  /\ LeftHalf(y, z) \in NodeType
         /\ LeftHalf(y, z).is_leaf = y.is_leaf
         /\ LeftHalf(y, z).n_keys = min_degree - 1
         /\ LeftHalf(y, z).keys = y.keys
         /\ ~y.is_leaf => LeftHalf(y, z).ptrs = y.ptrs
         /\ ~Full(LeftHalf(y, z))
<1> DEFINE ptrs == IF y.is_leaf THEN [y.ptrs EXCEPT ![min_degree - 1] = z] ELSE y.ptrs
<1>1. ptrs \in [PtrSlots -> AnyPtr]
  BY NodeFields, Sizes
<1>2. LeftHalf(y, z) = [y EXCEPT !.n_keys = min_degree - 1, !.ptrs = ptrs]
  BY Zenon DEF LeftHalf
<1>3. min_degree - 1 \in 0 .. 2 * min_degree - 1 /\ min_degree - 1 # 2 * min_degree - 1
  BY Sizes
<1>4. ~y.is_leaf => ptrs = y.ptrs
  OBVIOUS
<1> HIDE DEF ptrs
<1> QED BY <1>1, <1>2, <1>3, <1>4 DEF NodeType, Full

\* ...and half goes to a new one, an inner node's without the separator.
LEMMA RightHalfType ==
  ASSUME NEW y \in NodeType
  PROVE  /\ RightHalf(y) \in NodeType
         /\ RightHalf(y).is_leaf = y.is_leaf
         /\ RightHalf(y).n_keys = IF y.is_leaf THEN min_degree ELSE min_degree - 1
         /\ \A j \in 0 .. RightHalf(y).n_keys - 1 :
              RightHalf(y).keys[j] = y.keys[j + (2 * min_degree - 1 - RightHalf(y).n_keys)]
         /\ \A j \in 0 .. RightHalf(y).n_keys :
              RightHalf(y).ptrs[j] = y.ptrs[j + (2 * min_degree - 1 - RightHalf(y).n_keys)]
         /\ ~Full(RightHalf(y))
<1> DEFINE n == IF y.is_leaf THEN min_degree ELSE min_degree - 1
           from == 2 * min_degree - 1 - n
           keys == [j \in KeySlots |-> IF j < n THEN y.keys[j + from] ELSE EmptyKey]
           ptrs == [j \in PtrSlots |-> IF j <= n THEN y.ptrs[j + from] ELSE NULL_PAGE]
<1>1. RightHalf(y) = [is_leaf |-> y.is_leaf, n_keys |-> n, keys |-> keys, ptrs |-> ptrs]
  BY Zenon DEF RightHalf
<1>2. n \in 0 .. 2 * min_degree - 2 /\ from \in Nat /\ n + from = 2 * min_degree - 1
  BY Sizes
<1> HIDE DEF n, from
<1>3. /\ \A j \in KeySlots : j < n => j + from \in KeySlots
      /\ \A j \in PtrSlots : j <= n => j + from \in PtrSlots
  BY <1>2, Sizes DEF KeySlots, PtrSlots
<1>4. keys \in [KeySlots -> AnyKey] /\ ptrs \in [PtrSlots -> AnyPtr]
  BY <1>3, NodeFields, Sizes
<1>5. y.is_leaf \in BOOLEAN /\ n \in 0 .. 2 * min_degree - 1 /\ n # 2 * min_degree - 1
  BY <1>2, NodeFields, Sizes
<1>6. RightHalf(y) \in NodeType
  <2> HIDE DEF keys, ptrs
  <2> QED BY <1>1, <1>4, <1>5, NodeMade
<1>7. /\ \A j \in 0 .. n - 1 : keys[j] = y.keys[j + from]
      /\ \A j \in 0 .. n : ptrs[j] = y.ptrs[j + from]
  BY <1>2, Sizes DEF KeySlots, PtrSlots
<1>8. from = 2 * min_degree - 1 - n
  BY DEF from
<1>9. n = IF y.is_leaf THEN min_degree ELSE min_degree - 1
  BY DEF n
<1> HIDE DEF keys, ptrs
<1> QED BY <1>1, <1>5, <1>6, <1>7, <1>8, <1>9 DEF Full

\* A node with a child more.
LEMMA WithChildType ==
  ASSUME NEW x \in NodeType, ~Full(x), NEW i \in 0 .. x.n_keys, NEW separator \in AnyKey,
         NEW z \in NodeIds
  PROVE  /\ WithChild(x, i, separator, z) \in NodeType
         /\ WithChild(x, i, separator, z).is_leaf = x.is_leaf
         /\ WithChild(x, i, separator, z).n_keys = x.n_keys + 1
         /\ \A j \in 0 .. x.n_keys :
              WithChild(x, i, separator, z).keys[j] =
                IF j < i THEN x.keys[j] ELSE IF j = i THEN separator ELSE x.keys[j - 1]
         /\ \A j \in 0 .. x.n_keys + 1 :
              WithChild(x, i, separator, z).ptrs[j] =
                IF j <= i THEN x.ptrs[j] ELSE IF j = i + 1 THEN z ELSE x.ptrs[j - 1]
<1> DEFINE w == WithChild(x, i, separator, z)
           keys == Opened(x.keys, i, x.n_keys, separator)
           ptrs == Opened(x.ptrs, i + 1, x.n_keys + 1, z)
           n == x.n_keys
<1>1. /\ n \in Nat /\ n + 1 \in 0 .. 2 * min_degree - 1 /\ i \in 0 .. n
      /\ x.keys \in [KeySlots -> AnyKey] /\ x.ptrs \in [PtrSlots -> AnyPtr]
  BY NodeFields, Sizes DEF Full
<1>2. w = [x EXCEPT !.keys = keys, !.ptrs = ptrs, !.n_keys = n + 1]
  BY Zenon DEF WithChild
<1> HIDE DEF n
<1>3. keys \in [KeySlots -> AnyKey] /\ ptrs \in [PtrSlots -> AnyPtr]
  <2>1. 2 * min_degree - 2 \in Nat /\ 2 * min_degree - 1 \in Nat /\ n + 1 \in Int /\ i + 1 \in Nat
    BY <1>1, Sizes
  <2>2. x.keys \in [0 .. 2 * min_degree - 2 -> AnyKey] /\ x.ptrs \in [0 .. 2 * min_degree - 1 -> AnyPtr]
    BY <1>1 DEF KeySlots, PtrSlots
  <2>3. z \in AnyPtr /\ i \in Nat /\ n \in Int
    BY <1>1, Sizes
  <2>4. keys \in [0 .. 2 * min_degree - 2 -> AnyKey]
    BY <2>1, <2>2, <2>3, OpenedType DEF n
  <2>5. ptrs \in [0 .. 2 * min_degree - 1 -> AnyPtr]
    BY <2>1, <2>2, <2>3, OpenedType DEF n
  <2> QED BY <2>4, <2>5 DEF KeySlots, PtrSlots
<1>4. \A j \in 0 .. n : keys[j] = IF j < i THEN x.keys[j] ELSE IF j = i THEN separator ELSE x.keys[j - 1]
  <2>1. \A j \in 0 .. n : j \in DOMAIN x.keys
    <3>1. DOMAIN x.keys = 0 .. 2 * min_degree - 2 /\ n <= 2 * min_degree - 2
      BY <1>1, Sizes DEF KeySlots
    <3> QED BY <1>1, <3>1, Sizes
  <2> QED BY <1>1, <2>1 DEF Opened, n
<1>5. \A j \in 0 .. n + 1 : ptrs[j] = IF j <= i THEN x.ptrs[j] ELSE IF j = i + 1 THEN z ELSE x.ptrs[j - 1]
  <2>1. \A j \in 0 .. n + 1 : j \in DOMAIN x.ptrs
    <3>1. DOMAIN x.ptrs = 0 .. 2 * min_degree - 1 /\ n + 1 <= 2 * min_degree - 1
      BY <1>1, Sizes DEF PtrSlots
    <3> QED BY <1>1, <3>1, Sizes
  <2> QED BY <1>1, <2>1 DEF Opened, n
<1> HIDE DEF w, keys, ptrs
<1>6. w \in NodeType
  BY <1>1, <1>2, <1>3, NodeChanged
<1>7. w.is_leaf = x.is_leaf /\ w.n_keys = n + 1 /\ w.keys = keys /\ w.ptrs = ptrs
  BY <1>2 DEF NodeType
<1> QED BY <1>4, <1>5, <1>6, <1>7 DEF w, n

\* A leaf with an entry less.
LEMMA WithoutEntryType ==
  ASSUME NEW x \in NodeType, NEW i \in KeySlots, i <= x.n_keys, x.n_keys > 0
  PROVE  WithoutEntry(x, i) \in NodeType /\ WithoutEntry(x, i).is_leaf = x.is_leaf
<1> DEFINE last == IF i < x.n_keys - 1 THEN x.n_keys - 1 ELSE i
           keys == [j \in KeySlots |-> IF j \in i .. last - 1 THEN x.keys[j + 1] ELSE x.keys[j]]
           ptrs == [j \in PtrSlots |-> IF j \in i .. last THEN x.ptrs[j + 1] ELSE x.ptrs[j]]
<1>1. /\ x.n_keys \in Nat /\ x.n_keys - 1 \in 0 .. 2 * min_degree - 1
      /\ x.keys \in [KeySlots -> AnyKey] /\ x.ptrs \in [PtrSlots -> AnyPtr]
  BY NodeFields, Sizes
<1>2. last \in KeySlots
  BY NodeFields, Sizes DEF KeySlots
<1> HIDE DEF last
<1>3. /\ \A j \in i .. last - 1 : j + 1 \in KeySlots
      /\ \A j \in i .. last : j + 1 \in PtrSlots
  BY <1>2, Sizes DEF KeySlots, PtrSlots
<1>4. keys \in [KeySlots -> AnyKey] /\ ptrs \in [PtrSlots -> AnyPtr]
  BY <1>1, <1>3
<1> DEFINE n == x.n_keys - 1
<1>5. WithoutEntry(x, i) = [x EXCEPT !.keys = keys, !.ptrs = ptrs, !.n_keys = n]
  BY Zenon DEF WithoutEntry, last
<1> HIDE DEF keys, ptrs, n
<1>6. WithoutEntry(x, i) \in NodeType
  <2>1. n \in 0 .. 2 * min_degree - 1
    BY <1>1 DEF n
  <2>2. [x EXCEPT !.keys = keys, !.ptrs = ptrs, !.n_keys = n] \in NodeType
    BY <1>4, <2>1, NodeChanged
  <2> QED BY <1>5, <2>2, Zenon
<1> QED BY <1>5, <1>6 DEF NodeType
-----------------------------------------------------------------------------
(* A split keeps the nodes.                                                *)

\* split_child of x, whose pages the tree has, at its full child i.
CanSplit(x, x_id, i, z) ==
  /\ x \in NodeType /\ ~x.is_leaf /\ ~Full(x) /\ i \in 0 .. x.n_keys
  /\ ChildrenIn(x, allocated)
  /\ x_id \in allocated /\ z \in NodeIds \ allocated
  /\ x.ptrs[i] # x_id /\ Full(nodes[x.ptrs[i]])

LEMMA SplitPages ==
  ASSUME NodesInv, NEW x, NEW x_id, NEW i, NEW z, CanSplit(x, x_id, i, z)
  PROVE  LET after == SplitChild(x, x_id, i, z)
             y == nodes[x.ptrs[i]]
         IN  /\ x.ptrs[i] \in allocated /\ y \in NodeType
             /\ after \in [NodeIds -> NodeType]
             /\ after[x.ptrs[i]] = LeftHalf(y, z)
             /\ after[z] = RightHalf(y)
             /\ after[x_id] = WithChild(x, i, y.keys[min_degree - 1], z)
             /\ \A p \in NodeIds \ {x.ptrs[i], x_id, z} : after[p] = nodes[p]
<1> DEFINE c == x.ptrs[i]
           y == nodes[c]
           left == LeftHalf(y, z)
           right == RightHalf(y)
           above == WithChild(x, i, y.keys[min_degree - 1], z)
<1>1. /\ c \in allocated /\ c \in NodeIds /\ x_id \in NodeIds /\ x_id \in allocated
      /\ z \in NodeIds /\ z \notin allocated /\ y \in NodeType
      /\ c # x_id /\ c # z /\ x_id # z /\ nodes \in [NodeIds -> NodeType]
  BY DEF CanSplit, NodesInv, ChildrenIn
<1>2. left \in NodeType /\ right \in NodeType
  <2> HIDE DEF y
  <2> QED BY <1>1, LeftHalfType, RightHalfType
<1>3. above \in NodeType
  <2>1. y.keys[min_degree - 1] \in AnyKey
    <3>1. min_degree - 1 \in KeySlots
      BY Sizes DEF KeySlots
    <3> HIDE DEF y
    <3> QED BY <1>1, <3>1, NodeFields
  <2> DEFINE s == y.keys[min_degree - 1]
  <2> HIDE DEF y, s, c
  <2>2. s \in AnyKey
    BY <2>1 DEF s
  <2>3. WithChild(x, i, s, z) \in NodeType
    BY <1>1, <2>2, WithChildType DEF CanSplit
  <2> QED BY <2>3 DEF s
<1>4. SplitChild(x, x_id, i, z) = [nodes EXCEPT ![c] = left, ![z] = right, ![x_id] = above]
  BY Zenon DEF SplitChild
<1> HIDE DEF left, right, above, y
<1>5. /\ SplitChild(x, x_id, i, z) \in [NodeIds -> NodeType]
      /\ SplitChild(x, x_id, i, z)[c] = left
      /\ SplitChild(x, x_id, i, z)[z] = right
      /\ SplitChild(x, x_id, i, z)[x_id] = above
      /\ \A p \in NodeIds \ {c, x_id, z} : SplitChild(x, x_id, i, z)[p] = nodes[p]
  <2> HIDE DEF c
  <2> QED BY <1>1, <1>2, <1>3, <1>4
<1> QED BY <1>1, <1>5 DEF left, right, above, y

LEMMA SplitKeepsChildren ==
  ASSUME NodesInv, NEW x, NEW x_id, NEW i, NEW z, CanSplit(x, x_id, i, z)
  PROVE  \A p \in NodeIds : ChildrenIn(SplitChild(x, x_id, i, z)[p], allocated \cup {z})
<1> DEFINE after == SplitChild(x, x_id, i, z)
           c == x.ptrs[i]
           y == nodes[c]
           pages == allocated \cup {z}
<1>1. /\ c \in allocated /\ y \in NodeType /\ z \in NodeIds
      /\ after \in [NodeIds -> NodeType]
      /\ after[c] = LeftHalf(y, z) /\ after[z] = RightHalf(y)
      /\ after[x_id] = WithChild(x, i, y.keys[min_degree - 1], z)
      /\ \A p \in NodeIds \ {c, x_id, z} : after[p] = nodes[p]
  <2>1. z \in NodeIds
    BY DEF CanSplit
  <2> QED BY <2>1, SplitPages
<1>2. ChildrenIn(y, allocated) /\ \A p \in NodeIds : ChildrenIn(nodes[p], allocated)
  BY <1>1 DEF NodesInv
<1>3. Full(y) /\ i \in 0 .. x.n_keys /\ x \in NodeType /\ ~Full(x) /\ ChildrenIn(x, allocated) /\ ~x.is_leaf
  BY DEF CanSplit
<1> HIDE DEF after, y, c
<1>4. ChildrenIn(LeftHalf(y, z), pages)
  <2> SUFFICES ASSUME ~y.is_leaf, NEW j \in 0 .. min_degree - 1 PROVE y.ptrs[j] \in pages
    BY <1>1, LeftHalfType DEF ChildrenIn
  <2>1. j \in 0 .. y.n_keys
    BY <1>3, Sizes DEF Full
  <2> QED BY <1>2, <2>1 DEF ChildrenIn
<1>5. ChildrenIn(RightHalf(y), pages)
  <2> DEFINE r == RightHalf(y)
  <2>1. /\ r.is_leaf = y.is_leaf
        /\ r.n_keys = IF y.is_leaf THEN min_degree ELSE min_degree - 1
        /\ \A j \in 0 .. r.n_keys : r.ptrs[j] = y.ptrs[j + (2 * min_degree - 1 - r.n_keys)]
    BY <1>1, RightHalfType, Zenon
  <2> HIDE DEF r
  <2> SUFFICES ASSUME ~r.is_leaf, NEW j \in 0 .. r.n_keys PROVE r.ptrs[j] \in pages
    BY DEF ChildrenIn, r
  <2>2. r.n_keys = min_degree - 1
    BY <2>1
  <2> DEFINE k == j + (2 * min_degree - 1 - r.n_keys)
  <2>3. k \in 0 .. y.n_keys
    BY <1>3, <2>2, Sizes DEF Full
  <2>4. r.ptrs[j] = y.ptrs[k]
    BY <2>1
  <2> HIDE DEF k
  <2> QED BY <1>2, <2>1, <2>3, <2>4 DEF ChildrenIn
<1>6. ChildrenIn(after[x_id], pages)
  <2> DEFINE s == y.keys[min_degree - 1]
             w == WithChild(x, i, s, z)
  <2>1. s \in AnyKey
    <3>1. min_degree - 1 \in KeySlots
      BY Sizes DEF KeySlots
    <3> QED BY <1>1, <3>1, NodeFields
  <2> HIDE DEF s
  <2>2. /\ w.n_keys = x.n_keys + 1
        /\ \A j \in 0 .. x.n_keys + 1 :
             w.ptrs[j] = IF j <= i THEN x.ptrs[j] ELSE IF j = i + 1 THEN z ELSE x.ptrs[j - 1]
    BY <1>1, <1>3, <2>1, WithChildType
  <2>3. after[x_id] = w
    BY <1>1 DEF s
  <2> HIDE DEF w
  <2> SUFFICES ASSUME NEW j \in 0 .. x.n_keys + 1 PROVE w.ptrs[j] \in pages
    BY <2>2, <2>3 DEF ChildrenIn
  <2>4. x.n_keys \in Nat
    BY <1>3, NodeFields
  <2>5. \A k \in 0 .. x.n_keys : x.ptrs[k] \in pages
    BY <1>3 DEF ChildrenIn
  <2>6. CASE j <= i
    BY <1>3, <2>2, <2>4, <2>5, <2>6
  <2>7. CASE j = i + 1
    BY <1>3, <2>2, <2>4, <2>7
  <2>8. CASE j > i + 1
    <3>1. j - 1 \in 0 .. x.n_keys /\ w.ptrs[j] = x.ptrs[j - 1]
      BY <1>3, <2>2, <2>4, <2>8
    <3> QED BY <2>5, <3>1
  <2> QED BY <1>3, <2>4, <2>6, <2>7, <2>8
<1>7. ASSUME NEW p \in NodeIds PROVE ChildrenIn(after[p], pages)
  <2>1. CASE p \notin {c, x_id, z}
    <3>1. ChildrenIn(after[p], allocated)
      BY <1>1, <1>2, <2>1
    <3> QED BY <3>1 DEF ChildrenIn
  <2> QED BY <1>1, <1>4, <1>5, <1>6, <2>1, Zenon
<1> QED BY <1>7 DEF after
-----------------------------------------------------------------------------
(* The steps.                                                              *)

LEMMA OpKinds ==
  ASSUME OpInv
  PROVE  /\ op.kind = "none" <=> op = Idle
         /\ op.kind \in {"insert", "split_root"} => op \in InsertType
         /\ op.kind = "remove" => op \in RemoveType
         /\ op.kind \in {"none", "insert", "remove", "split_root"}
<1>1. op = Idle => op.kind = "none"
  BY DEF Idle
<1>2. op \in InsertType => op.kind \in {"insert", "split_root"}
  BY DEF InsertType
<1>3. op \in RemoveType => op.kind = "remove"
  BY DEF RemoveType
<1>4. op = Idle \/ op \in InsertType \/ op \in RemoveType
  BY DEF OpInv
<1> QED BY <1>1, <1>2, <1>3, <1>4

LEMMA PinTypes ==
  ASSUME NEW counts \in [NodeIds -> Nat], NEW p \in NodeIds
  PROVE  /\ Pinned(counts, p) \in [NodeIds -> Nat]
         /\ Pinned(counts, p)[p] = counts[p] + 1
         /\ \A q \in NodeIds \ {p} : Pinned(counts, p)[q] = counts[q]
         /\ Unpinned(counts, p) \in [NodeIds -> Nat]
         /\ Unpinned(counts, p)[p] = IF counts[p] > 0 THEN counts[p] - 1 ELSE 0
         /\ \A q \in NodeIds \ {p} : Unpinned(counts, p)[q] = counts[q]
BY DEF Pinned, Unpinned

LEMMA InitTyped ==
  ASSUME Init
  PROVE  TypeInv
<1>1. NodesInv
  <2>1. EmptyNode.is_leaf = TRUE
    BY DEF EmptyNode
  <2>2. nodes \in [NodeIds -> NodeType] /\ \A p \in NodeIds : nodes[p] = EmptyNode
    BY NewNodeType DEF Init
  <2>3. allocated \in SUBSET NodeIds
    BY Sizes DEF Init
  <2> QED BY <2>1, <2>2, <2>3 DEF NodesInv, ChildrenIn
<1>2. op = Idle /\ op.kind = "none"
  BY DEF Init, Idle
<1>3. OpInv
  BY <1>2 DEF OpInv
<1>4. CountInv
  BY <1>2, BPTreeAssumption DEF Init, CountInv
<1>5. PinsInv
  BY <1>2 DEF Init, PinsInv
<1> QED BY <1>1, <1>3, <1>4, <1>5 DEF TypeInv

\* The next child of a node on the way of a key.
LEMMA ChildOnWay ==
  ASSUME NodesInv, NEW p \in allocated, ~nodes[p].is_leaf, NEW key \in Keys
  PROVE  /\ UpperIndex(nodes[p], key) \in 0 .. nodes[p].n_keys
         /\ LowerIndex(nodes[p], key) \in 0 .. nodes[p].n_keys
         /\ nodes[p].ptrs[UpperIndex(nodes[p], key)] \in allocated
         /\ nodes[p].ptrs[LowerIndex(nodes[p], key)] \in allocated
<1>1. nodes[p] \in NodeType /\ ChildrenIn(nodes[p], allocated)
  BY DEF NodesInv
<1> DEFINE x == nodes[p]
<1> HIDE DEF x
<1>2. x \in NodeType /\ ChildrenIn(x, allocated) /\ ~x.is_leaf
  BY <1>1 DEF x
<1>3. UpperIndex(x, key) \in 0 .. x.n_keys /\ LowerIndex(x, key) \in 0 .. x.n_keys
  BY <1>2, UpperIndexFacts, LowerIndexFacts
<1>4. x.ptrs[UpperIndex(x, key)] \in allocated /\ x.ptrs[LowerIndex(x, key)] \in allocated
  BY <1>2, <1>3 DEF ChildrenIn
<1> QED BY <1>3, <1>4 DEF x

LEMMA BeginInsertTyped ==
  ASSUME TypeInv, NEW key \in Keys, BeginInsert(key)
  PROVE  TypeInv'
<1> USE DEF TypeInv
<1> DEFINE k == IF Full(nodes[root_id]) THEN "split_root" ELSE "insert"
           ref == MaxNodes + inserts'
<1>1. /\ op = Idle /\ inserts < MaxInserts /\ failures < MaxFailures /\ inserts' = inserts + 1
      /\ op' = [kind |-> k, key |-> key, ref |-> ref, at |-> root_id, copy |-> NULL_PAGE]
      /\ pins' = Pinned(pins, root_id)
      /\ nodes' = nodes /\ allocated' = allocated /\ failures' = failures
  BY DEF BeginInsert
<1>2. op.kind = "none"
  BY <1>1, OpKinds
<1>3. inserts \in Nat /\ inserts' \in 0 .. MaxInserts /\ ref \in Refs /\ inserts' \in 1 .. MaxInserts
  BY <1>1, BPTreeAssumption DEF CountInv, Refs
<1>4. k \in {"insert", "split_root"} /\ (k = "split_root" <=> Full(nodes[root_id]))
  OBVIOUS
<1> HIDE DEF k, ref
<1>5. /\ op'.kind = k /\ op'.key = key /\ op'.at = root_id /\ op'.copy = NULL_PAGE
      /\ op' \in InsertType
  BY ONLY <1>1, <1>3, <1>4, Sizes DEF InsertType
<1>6. root_id \in allocated /\ k # "none" /\ allocated \in SUBSET NodeIds
  BY <1>4 DEF CountInv, NodesInv
<1>7. NodesInv'
  BY <1>1 DEF NodesInv
<1>8. OpInv'
  BY <1>1, <1>4, <1>5, <1>6 DEF OpInv
<1>9. CountInv'
  BY <1>1, <1>3, <1>6 DEF CountInv
<1>10. PinsInv'
  <2>1. pins \in [NodeIds -> Nat] /\ (failures = 0 => \A p \in NodeIds : pins[p] = 0)
    BY <1>2 DEF PinsInv
  <2>2. /\ pins' \in [NodeIds -> Nat] /\ pins'[root_id] = pins[root_id] + 1
        /\ \A q \in NodeIds \ {root_id} : pins'[q] = pins[q]
    BY <1>1, <2>1, PinTypes, Sizes
  <2> QED BY <1>1, <1>5, <1>6, <2>1, <2>2, Sizes DEF PinsInv
<1> QED BY <1>7, <1>8, <1>9, <1>10

LEMMA BeginRemoveTyped ==
  ASSUME TypeInv, NEW key \in Keys, BeginRemove(key)
  PROVE  TypeInv'
<1> USE DEF TypeInv
<1>1. /\ op = Idle /\ failures < MaxFailures
      /\ op' = [kind |-> "remove", key |-> key, at |-> root_id]
      /\ pins' = Pinned(pins, root_id)
      /\ nodes' = nodes /\ allocated' = allocated /\ failures' = failures /\ inserts' = inserts
  BY DEF BeginRemove
<1>2. op.kind = "none"
  BY <1>1, OpKinds
<1>5. op'.kind = "remove" /\ op'.at = root_id /\ op' \in RemoveType
  BY ONLY <1>1, key \in Keys, Sizes DEF RemoveType
<1>6. root_id \in allocated
  BY DEF CountInv
<1>7. NodesInv'
  BY <1>1 DEF NodesInv
<1>8. OpInv'
  BY <1>1, <1>5, <1>6 DEF OpInv
<1>9. CountInv'
  BY <1>1 DEF CountInv
<1>10. PinsInv'
  <2>1. pins \in [NodeIds -> Nat] /\ (failures = 0 => \A p \in NodeIds : pins[p] = 0)
    BY <1>2 DEF PinsInv
  <2>2. /\ pins' \in [NodeIds -> Nat] /\ pins'[root_id] = pins[root_id] + 1
        /\ \A q \in NodeIds \ {root_id} : pins'[q] = pins[q]
    BY <1>1, <2>1, PinTypes, Sizes
  <2> QED BY <1>1, <1>5, <2>1, <2>2, Sizes DEF PinsInv
<1> QED BY <1>7, <1>8, <1>9, <1>10
LEMMA CopyRootTyped ==
  ASSUME TypeInv, CopyRoot
  PROVE  TypeInv'
<1> USE DEF TypeInv
<1>1. PICK s \in NodeIds :
        /\ s \notin allocated /\ allocated' = allocated \cup {s}
        /\ nodes' = [nodes EXCEPT ![s] = nodes[root_id]]
        /\ op' = [op EXCEPT !.copy = s]
  BY DEF CopyRoot, IsNewPage
<1>2. /\ op.kind = "split_root" /\ op.copy = NULL_PAGE /\ pins' = pins /\ inserts' = inserts
      /\ failures' = failures
  BY DEF CopyRoot
<1>3. op \in InsertType
  BY <1>2, OpKinds
<1>4. op' \in InsertType /\ op'.kind = "split_root" /\ op'.at = op.at /\ op'.copy = s
  BY ONLY <1>1, <1>2, <1>3 DEF InsertType
<1>5. /\ nodes \in [NodeIds -> NodeType] /\ root_id \in allocated /\ root_id \in NodeIds
      /\ root_id # s /\ s # NULL_PAGE /\ allocated \in SUBSET NodeIds
  BY <1>1, Sizes DEF NodesInv, CountInv, NULL_PAGE
<1>6. /\ nodes' \in [NodeIds -> NodeType] /\ nodes'[s] = nodes[root_id]
      /\ \A p \in NodeIds \ {s} : nodes'[p] = nodes[p]
  BY <1>1, <1>5
<1>7. NodesInv'
  <2>1. \A p \in NodeIds : ChildrenIn(nodes[p], allocated')
    BY <1>1 DEF NodesInv, ChildrenIn
  <2>2. \A p \in NodeIds : ChildrenIn(nodes'[p], allocated')
    BY <1>5, <1>6, <2>1, Zenon
  <2> QED BY <1>1, <1>5, <1>6, <2>2 DEF NodesInv
<1>8. OpInv'
  <2>1. op.at = root_id /\ Full(nodes[root_id])
    BY <1>2 DEF OpInv
  <2>2. nodes'[root_id] = nodes[root_id]
    BY <1>5, <1>6
  <2>3. root_id \in allocated' /\ s \in allocated' \ {root_id}
    BY <1>1, <1>5
  <2>4. Full(nodes'[root_id]) /\ nodes'[s] = nodes'[root_id]
    BY <1>6, <2>1, <2>2
  <2> QED BY <1>4, <2>1, <2>3, <2>4 DEF OpInv
<1>9. CountInv'
  BY <1>1, <1>2, <1>4 DEF CountInv
<1>10. PinsInv'
  BY <1>2, <1>4 DEF PinsInv
<1> QED BY <1>7, <1>8, <1>9, <1>10

\* The root on its way to being split: an empty inner node above its copy.
NewRoot == [nodes[root_id] EXCEPT !.is_leaf = FALSE, !.n_keys = 0, !.ptrs = [@ EXCEPT ![0] = op.copy]]

LEMMA RootCanSplit ==
  ASSUME TypeInv, op.kind = "split_root", op.copy # NULL_PAGE, NEW z \in NodeIds \ allocated
  PROVE  /\ CanSplit(NewRoot, root_id, 0, z)
         /\ NewRoot.n_keys = 0 /\ NewRoot.ptrs[0] = op.copy
<1> USE DEF TypeInv
<1>1. /\ op.copy \in allocated /\ op.copy # root_id /\ nodes[op.copy] = nodes[root_id]
      /\ Full(nodes[root_id])
  BY DEF OpInv
<1>2. /\ nodes[root_id] \in NodeType /\ root_id \in allocated /\ op.copy \in AnyPtr
      /\ op.copy \in NodeIds
  BY <1>1, Sizes DEF NodesInv, CountInv
<1> DEFINE r == nodes[root_id]
           c == op.copy
           ptrs == [r.ptrs EXCEPT ![0] = c]
<1>3. NewRoot = [r EXCEPT !.is_leaf = FALSE, !.n_keys = 0, !.ptrs = ptrs]
  BY Zenon DEF NewRoot
<1> HIDE DEF r, c
<1>4. ptrs \in [PtrSlots -> AnyPtr] /\ ptrs[0] = c
  <2>1. r.ptrs \in [PtrSlots -> AnyPtr] /\ c \in AnyPtr /\ 0 \in PtrSlots
    BY <1>2, NodeFields, Sizes DEF r, c, PtrSlots
  <2> QED BY <2>1
<1> HIDE DEF ptrs
<1>5. 0 \in 0 .. 2 * min_degree - 1 /\ 0 # 2 * min_degree - 1
  BY Sizes
<1>6. /\ NewRoot \in NodeType /\ ~NewRoot.is_leaf /\ NewRoot.n_keys = 0 /\ NewRoot.ptrs = ptrs
  BY <1>2, <1>3, <1>4, <1>5 DEF NodeType, r
<1>7. ChildrenIn(NewRoot, allocated)
  BY <1>1, <1>4, <1>6 DEF ChildrenIn, c
<1> QED BY <1>1, <1>2, <1>4, <1>5, <1>6, <1>7 DEF CanSplit, Full, c

LEMMA SplitRootTyped ==
  ASSUME TypeInv, SplitRoot
  PROVE  TypeInv'
<1> USE DEF TypeInv
<1>1. PICK z \in NodeIds :
        /\ z \notin allocated /\ allocated' = allocated \cup {z}
        /\ nodes' = SplitChild(NewRoot, root_id, 0, z)
  BY Zenon DEF SplitRoot, IsNewPage, NewRoot
<1>2. /\ op.kind = "split_root" /\ op.copy # NULL_PAGE /\ pins' = Unpinned(pins, root_id)
      /\ op' = [op EXCEPT !.kind = "insert"] /\ inserts' = inserts /\ failures' = failures
  BY DEF SplitRoot
<1>3. op \in InsertType /\ op.at = root_id
  BY <1>2, OpKinds DEF OpInv
<1>4. op' \in InsertType /\ op'.kind = "insert" /\ op'.at = root_id
  BY ONLY <1>2, <1>3 DEF InsertType
<1>5. CanSplit(NewRoot, root_id, 0, z) /\ NewRoot.n_keys = 0
  BY <1>1, <1>2, RootCanSplit
<1> DEFINE c == NewRoot.ptrs[0]
           s == nodes[c].keys[min_degree - 1]
<1>6. /\ nodes' \in [NodeIds -> NodeType] /\ nodes'[root_id] = WithChild(NewRoot, 0, s, z)
      /\ c \in allocated /\ nodes[c] \in NodeType
  BY <1>1, <1>5, SplitPages
<1>7. s \in AnyKey
  <2>1. min_degree - 1 \in KeySlots
    BY Sizes DEF KeySlots
  <2> HIDE DEF c
  <2> QED BY <1>6, <2>1, NodeFields
<1>8. nodes'[root_id].n_keys = 1 /\ ~Full(nodes'[root_id])
  <2> HIDE DEF s
  <2>1. NewRoot \in NodeType /\ ~Full(NewRoot) /\ 0 \in 0 .. NewRoot.n_keys
    BY <1>5 DEF CanSplit
  <2>2. WithChild(NewRoot, 0, s, z).n_keys = NewRoot.n_keys + 1
    BY <1>7, <2>1, WithChildType
  <2> QED BY <1>5, <1>6, <2>2, Sizes DEF Full
<1>9. NodesInv'
  <2>1. \A p \in NodeIds : ChildrenIn(nodes'[p], allocated')
    BY <1>1, <1>5, SplitKeepsChildren
  <2> QED BY <1>1, <1>6, <2>1 DEF NodesInv
<1>10. root_id \in allocated
  BY DEF CountInv
<1>11. OpInv'
  BY <1>1, <1>4, <1>8, <1>10 DEF OpInv
<1>12. CountInv'
  BY <1>1, <1>2, <1>4 DEF CountInv
<1>13. PinsInv'
  <2>1. pins \in [NodeIds -> Nat]
    BY DEF PinsInv
  <2>2. /\ pins' \in [NodeIds -> Nat]
        /\ pins'[root_id] = IF pins[root_id] > 0 THEN pins[root_id] - 1 ELSE 0
        /\ \A q \in NodeIds \ {root_id} : pins'[q] = pins[q]
    BY <1>2, <2>1, PinTypes, Sizes
  <2>3. failures = 0 => pins[root_id] <= 1 /\ \A p \in NodeIds \ {root_id} : pins[p] = 0
    BY <1>2, <1>3 DEF PinsInv
  <2>4. pins[root_id] \in Nat
    BY <2>1, Sizes
  <2> QED BY <1>2, <1>4, <2>2, <2>3, <2>4 DEF PinsInv
<1> QED BY <1>9, <1>11, <1>12, <1>13

LEMMA InsertInLeafTyped ==
  ASSUME TypeInv, InsertInLeaf
  PROVE  TypeInv'
<1> USE DEF TypeInv
<1>1. /\ op.kind = "insert" /\ nodes[op.at].is_leaf
      /\ nodes' = [nodes EXCEPT ![op.at] = WithEntry(@, op.key, op.ref)]
      /\ pins' = Unpinned(pins, op.at) /\ op' = Idle
      /\ allocated' = allocated /\ inserts' = inserts /\ failures' = failures
  BY DEF InsertInLeaf
<1>2. op \in InsertType /\ op.at \in allocated /\ ~Full(nodes[op.at])
  BY <1>1, OpKinds DEF OpInv
<1>3. /\ op.at \in NodeIds /\ op.key \in Keys /\ op.ref \in AnyPtr
      /\ nodes \in [NodeIds -> NodeType] /\ nodes[op.at] \in NodeType
  BY <1>2, Sizes DEF InsertType, NodesInv
<1> DEFINE new == WithEntry(nodes[op.at], op.key, op.ref)
<1>4. new \in NodeType /\ new.is_leaf
  BY <1>1, <1>2, <1>3, WithEntryType
<1>5. nodes' = [nodes EXCEPT ![op.at] = new]
  BY <1>1
<1> HIDE DEF new
<1>6. NodesInv'
  <2>1. nodes' \in [NodeIds -> NodeType]
    BY <1>3, <1>4, <1>5
  <2>2. ASSUME NEW p \in NodeIds PROVE ChildrenIn(nodes'[p], allocated)
    <3>1. CASE p = op.at
      BY <1>3, <1>4, <1>5, <3>1 DEF ChildrenIn
    <3>2. CASE p # op.at
      <4>1. nodes'[p] = nodes[p]
        BY <1>3, <1>5, <3>2
      <4> QED BY <4>1 DEF NodesInv
    <3> QED BY <3>1, <3>2
  <2> QED BY <1>1, <2>1, <2>2 DEF NodesInv
<1>7. op'.kind = "none"
  BY <1>1 DEF Idle
<1>8. OpInv'
  BY <1>1, <1>7 DEF OpInv
<1>9. CountInv'
  BY <1>1, <1>7 DEF CountInv
<1>10. PinsInv'
  <2>1. pins \in [NodeIds -> Nat]
    BY DEF PinsInv
  <2>2. /\ pins' \in [NodeIds -> Nat]
        /\ pins'[op.at] = IF pins[op.at] > 0 THEN pins[op.at] - 1 ELSE 0
        /\ \A q \in NodeIds \ {op.at} : pins'[q] = pins[q]
    BY <1>1, <1>3, <2>1, PinTypes
  <2>3. failures = 0 => pins[op.at] <= 1 /\ \A p \in NodeIds \ {op.at} : pins[p] = 0
    BY <1>1 DEF PinsInv
  <2>4. pins[op.at] \in Nat
    BY <1>3, <2>1
  <2> QED BY <1>1, <1>7, <2>2, <2>3, <2>4 DEF PinsInv
<1> QED BY <1>6, <1>8, <1>9, <1>10
\* Going down pins the child and unpins the node above it.
LEMMA PinsGoDown ==
  ASSUME NEW counts \in [NodeIds -> Nat], NEW p \in NodeIds, NEW c \in NodeIds,
         \A q \in NodeIds \ {p} : counts[q] = 0, counts[p] <= 1
  PROVE  LET after == Unpinned(Pinned(counts, c), p)
         IN  after[c] <= 1 /\ \A q \in NodeIds \ {c} : after[q] = 0
<1> DEFINE mid == Pinned(counts, c)
           after == Unpinned(mid, p)
<1>1. /\ mid \in [NodeIds -> Nat] /\ mid[c] = counts[c] + 1
      /\ \A q \in NodeIds \ {c} : mid[q] = counts[q]
  BY PinTypes
<1> HIDE DEF mid
<1>2. /\ after[p] = IF mid[p] > 0 THEN mid[p] - 1 ELSE 0
      /\ \A q \in NodeIds \ {p} : after[q] = mid[q]
  BY <1>1, PinTypes
<1> HIDE DEF after
<1>3. counts[p] \in Nat /\ counts[c] \in Nat
  OBVIOUS
<1>4. c = p => after[c] <= 1 /\ \A q \in NodeIds \ {c} : after[q] = 0
  BY <1>1, <1>2, <1>3
<1>5. c # p => after[c] <= 1 /\ \A q \in NodeIds \ {c} : after[q] = 0
  <2> SUFFICES ASSUME c # p PROVE after[c] <= 1 /\ \A q \in NodeIds \ {c} : after[q] = 0
    OBVIOUS
  <2>1. counts[c] = 0 /\ mid[c] = 1 /\ after[c] = 1
    BY <1>1, <1>2, <1>3
  <2>2. mid[p] = counts[p] /\ after[p] = 0
    BY <1>1, <1>2, <1>3
  <2> QED BY <1>1, <1>2, <2>1, <2>2
<1>6. after[c] <= 1 /\ \A q \in NodeIds \ {c} : after[q] = 0
  BY <1>4, <1>5
<1> QED BY <1>6 DEF after, mid

\* So a step down keeps the pins in order.
LEMMA DownKeepsPins ==
  ASSUME PinsInv, op.kind # "none", op.at \in NodeIds, NEW child \in NodeIds,
         pins' = Unpinned(Pinned(pins, child), op.at), failures' = failures,
         op'.at = child, op'.kind # "none"
  PROVE  PinsInv'
<1>1. pins \in [NodeIds -> Nat]
  BY DEF PinsInv
<1>2. pins' \in [NodeIds -> Nat]
  <2>1. Pinned(pins, child) \in [NodeIds -> Nat]
    BY <1>1, PinTypes
  <2> QED BY <2>1, PinTypes
<1>3. failures = 0 => pins[op.at] <= 1 /\ \A p \in NodeIds \ {op.at} : pins[p] = 0
  BY DEF PinsInv
<1>4. failures = 0 => pins'[child] <= 1 /\ \A p \in NodeIds \ {child} : pins'[p] = 0
  BY <1>1, <1>3, PinsGoDown
<1> QED BY <1>2, <1>4 DEF PinsInv

LEMMA InsertBelowTyped ==
  ASSUME TypeInv, InsertBelow
  PROVE  TypeInv'
<1> USE DEF TypeInv
<1> DEFINE child == nodes[op.at].ptrs[UpperIndex(nodes[op.at], op.key)]
<1>1. /\ op.kind = "insert" /\ ~nodes[op.at].is_leaf /\ ~Full(nodes[child])
      /\ pins' = Unpinned(Pinned(pins, child), op.at) /\ op' = [op EXCEPT !.at = child]
      /\ nodes' = nodes /\ allocated' = allocated /\ inserts' = inserts /\ failures' = failures
  BY DEF InsertBelow, PinsBelow
<1>2. op \in InsertType /\ op.at \in allocated /\ op.key \in Keys /\ op.at \in NodeIds
  BY <1>1, OpKinds DEF OpInv, InsertType
<1>3. child \in allocated /\ child \in NodeIds
  BY <1>1, <1>2, ChildOnWay DEF NodesInv
<1> HIDE DEF child
<1>4. op' \in InsertType /\ op'.kind = "insert" /\ op'.at = child
  BY ONLY <1>1, <1>2, <1>3 DEF InsertType
<1>5. NodesInv'
  BY <1>1 DEF NodesInv
<1>6. OpInv'
  BY <1>1, <1>3, <1>4 DEF OpInv
<1>7. CountInv'
  BY <1>1, <1>4 DEF CountInv
<1>8. PinsInv'
  BY <1>1, <1>2, <1>3, <1>4, DownKeepsPins
<1> QED BY <1>5, <1>6, <1>7, <1>8

LEMMA RemoveBelowTyped ==
  ASSUME TypeInv, RemoveBelow
  PROVE  TypeInv'
<1> USE DEF TypeInv
<1> DEFINE child == nodes[op.at].ptrs[LowerIndex(nodes[op.at], op.key)]
<1>1. /\ op.kind = "remove" /\ ~nodes[op.at].is_leaf
      /\ pins' = Unpinned(Pinned(pins, child), op.at) /\ op' = [op EXCEPT !.at = child]
      /\ nodes' = nodes /\ allocated' = allocated /\ inserts' = inserts /\ failures' = failures
  BY DEF RemoveBelow, PinsBelow
<1>2. op \in RemoveType /\ op.at \in allocated /\ op.key \in Keys /\ op.at \in NodeIds
  BY <1>1, OpKinds DEF OpInv, RemoveType
<1>3. child \in allocated /\ child \in NodeIds
  BY <1>1, <1>2, ChildOnWay DEF NodesInv
<1> HIDE DEF child
<1>4. op' \in RemoveType /\ op'.kind = "remove" /\ op'.at = child
  BY ONLY <1>1, <1>2, <1>3 DEF RemoveType
<1>5. NodesInv'
  BY <1>1 DEF NodesInv
<1>6. OpInv'
  BY <1>1, <1>3, <1>4 DEF OpInv
<1>7. CountInv'
  BY <1>1, <1>4 DEF CountInv
<1>8. PinsInv'
  BY <1>1, <1>2, <1>3, <1>4, DownKeepsPins
<1> QED BY <1>5, <1>6, <1>7, <1>8

\* A split on the way down: the node above has room, and neither half is full.
LEMMA ChildCanSplit ==
  ASSUME TypeInv, op.kind = "insert", ~nodes[op.at].is_leaf, NEW z \in NodeIds \ allocated,
         Full(nodes[nodes[op.at].ptrs[UpperIndex(nodes[op.at], op.key)]])
  PROVE  CanSplit(nodes[op.at], op.at, UpperIndex(nodes[op.at], op.key), z)
<1> USE DEF TypeInv
<1> DEFINE x == nodes[op.at]
           i == UpperIndex(x, op.key)
<1>1. /\ op \in InsertType /\ op.at \in allocated /\ op.key \in Keys /\ op.at \in NodeIds
      /\ ~Full(x)
  BY OpKinds DEF OpInv, InsertType
<1>2. x \in NodeType /\ ChildrenIn(x, allocated)
  BY <1>1 DEF NodesInv
<1>3. i \in 0 .. x.n_keys
  BY <1>1, ChildOnWay
<1>4. x.ptrs[i] # op.at
  BY <1>1
<1> QED BY <1>1, <1>2, <1>3, <1>4 DEF CanSplit

LEMMA SplitAndInsertBelowTyped ==
  ASSUME TypeInv, SplitAndInsertBelow
  PROVE  TypeInv'
<1> USE DEF TypeInv
<1> DEFINE x == nodes[op.at]
           i == UpperIndex(x, op.key)
           c == x.ptrs[i]
           w == nodes'[op.at]
           k == Side(op.key, w.keys[i], i)
           child == w.ptrs[k]
<1>1. PICK z \in NodeIds :
        /\ z \notin allocated /\ allocated' = allocated \cup {z}
        /\ nodes' = SplitChild(x, op.at, i, z)
  BY DEF SplitAndInsertBelow, IsNewPage
<1>2. /\ op.kind = "insert" /\ ~x.is_leaf /\ Full(nodes[c])
      /\ pins' = Unpinned(Pinned(pins, child), op.at) /\ op' = [op EXCEPT !.at = child]
      /\ inserts' = inserts /\ failures' = failures
  BY DEF SplitAndInsertBelow
<1>3. op \in InsertType /\ op.at \in allocated /\ op.key \in Keys /\ op.at \in NodeIds
  BY <1>2, OpKinds DEF OpInv, InsertType
<1>4. CanSplit(x, op.at, i, z)
  BY <1>1, <1>2, ChildCanSplit
<1>5. /\ nodes' \in [NodeIds -> NodeType] /\ c \in allocated /\ nodes[c] \in NodeType
      /\ nodes'[c] = LeftHalf(nodes[c], z) /\ nodes'[z] = RightHalf(nodes[c])
      /\ w = WithChild(x, i, nodes[c].keys[min_degree - 1], z)
  BY <1>1, <1>4, SplitPages
<1>6. child \in {c, z}
  <2> DEFINE s == nodes[c].keys[min_degree - 1]
  <2>1. s \in AnyKey
    <3>1. min_degree - 1 \in KeySlots
      BY Sizes DEF KeySlots
    <3> HIDE DEF c
    <3> QED BY <1>5, <3>1, NodeFields
  <2> HIDE DEF s, i, x, w, c
  <2>2. /\ x \in NodeType /\ ~Full(x) /\ i \in 0 .. x.n_keys /\ w = WithChild(x, i, s, z)
    BY <1>4, <1>5 DEF CanSplit, s
  <2>3. \A j \in 0 .. x.n_keys + 1 :
          w.ptrs[j] = IF j <= i THEN x.ptrs[j] ELSE IF j = i + 1 THEN z ELSE x.ptrs[j - 1]
    BY <2>1, <2>2, WithChildType
  <2>4. k \in {i, i + 1}
    BY DEF Side
  <2>5. x.n_keys \in Nat
    BY <2>2, NodeFields
  <2>6. w.ptrs[i] = x.ptrs[i] /\ w.ptrs[i + 1] = z
    BY <2>2, <2>3, <2>5
  <2> QED BY <2>4, <2>6 DEF c
<1>7. child \in allocated' /\ child \in NodeIds
  BY <1>1, <1>5, <1>6 DEF NodesInv
<1>8. ~Full(nodes'[child])
  <2>1. ~Full(LeftHalf(nodes[c], z)) /\ ~Full(RightHalf(nodes[c]))
    <3> DEFINE y == nodes[c]
    <3>1. y \in NodeType
      BY <1>5
    <3> HIDE DEF y
    <3>2. ~Full(LeftHalf(y, z)) /\ ~Full(RightHalf(y))
      BY <3>1, LeftHalfType, RightHalfType
    <3> QED BY <3>2 DEF y
  <2> HIDE DEF child, c
  <2> QED BY <1>5, <1>6, <2>1
<1> HIDE DEF child
<1>9. op' \in InsertType /\ op'.kind = "insert" /\ op'.at = child
  BY ONLY <1>2, <1>3, <1>7 DEF InsertType
<1>10. NodesInv'
  <2>1. \A p \in NodeIds : ChildrenIn(nodes'[p], allocated')
    BY <1>1, <1>4, SplitKeepsChildren
  <2> QED BY <1>1, <1>5, <2>1 DEF NodesInv
<1>11. OpInv'
  BY <1>7, <1>8, <1>9 DEF OpInv
<1>12. CountInv'
  BY <1>1, <1>2, <1>9 DEF CountInv
<1>13. PinsInv'
  BY <1>2, <1>3, <1>7, <1>9, DownKeepsPins
<1> QED BY <1>10, <1>11, <1>12, <1>13
LEMMA RemoveFromLeafTyped ==
  ASSUME TypeInv, RemoveFromLeaf
  PROVE  TypeInv'
<1> USE DEF TypeInv
<1> DEFINE x == nodes[op.at]
           i == LowerIndex(x, op.key)
           new == WithoutEntry(x, i)
<1>1. /\ op.kind = "remove" /\ x.is_leaf /\ op' = Idle
      /\ allocated' = allocated /\ inserts' = inserts /\ i \in KeySlots
  BY DEF RemoveFromLeaf
<1>2. op \in RemoveType /\ op.at \in allocated /\ op.key \in Keys /\ op.at \in NodeIds
  BY <1>1, OpKinds DEF OpInv, RemoveType
<1>3. op'.kind = "none"
  BY <1>1 DEF Idle
<1>4. OpInv'
  BY <1>1, <1>3 DEF OpInv
<1>5. failures \in Nat /\ failures < MaxFailures
  BY <1>1 DEF CountInv
<1>6. CASE failures' = failures + 1 /\ nodes' = nodes /\ pins' = pins
  <2>1. NodesInv'
    BY <1>1, <1>6 DEF NodesInv
  <2>2. CountInv'
    BY <1>1, <1>3, <1>5, <1>6, BPTreeAssumption DEF CountInv
  <2>3. PinsInv'
    BY <1>5, <1>6 DEF PinsInv
  <2> QED BY <1>4, <2>1, <2>2, <2>3
<1>7. CASE /\ x.n_keys > 0 /\ nodes' = [nodes EXCEPT ![op.at] = new]
           /\ pins' = Unpinned(pins, op.at) /\ failures' = failures
  <2>1. x \in NodeType /\ nodes \in [NodeIds -> NodeType]
    BY <1>2 DEF NodesInv
  <2>2. i <= x.n_keys
    <3> HIDE DEF x
    <3>1. LowerIndex(x, op.key) \in 0 .. x.n_keys
      BY <1>2, <2>1, LowerIndexFacts
    <3> QED BY <2>1, <3>1, NodeFields
  <2>3. new \in NodeType /\ new.is_leaf
    <3> HIDE DEF x, i
    <3> QED BY <1>1, <1>7, <2>1, <2>2, WithoutEntryType
  <2> HIDE DEF new
  <2>4. NodesInv'
    <3>1. nodes' \in [NodeIds -> NodeType]
      BY <1>2, <1>7, <2>1, <2>3
    <3>2. ASSUME NEW p \in NodeIds PROVE ChildrenIn(nodes'[p], allocated)
      <4>1. CASE p = op.at
        BY <1>2, <1>7, <2>1, <2>3, <4>1 DEF ChildrenIn
      <4>2. CASE p # op.at
        <5>1. nodes'[p] = nodes[p]
          BY <1>2, <1>7, <2>1, <4>2
        <5> QED BY <5>1 DEF NodesInv
      <4> QED BY <4>1, <4>2
    <3> QED BY <1>1, <3>1, <3>2 DEF NodesInv
  <2>5. CountInv'
    BY <1>1, <1>3, <1>7 DEF CountInv
  <2>6. PinsInv'
    <3>1. pins \in [NodeIds -> Nat] /\ pins[op.at] \in Nat
      BY <1>2 DEF PinsInv
    <3>2. /\ pins' \in [NodeIds -> Nat]
          /\ pins'[op.at] = IF pins[op.at] > 0 THEN pins[op.at] - 1 ELSE 0
          /\ \A q \in NodeIds \ {op.at} : pins'[q] = pins[q]
      BY <1>2, <1>7, <3>1, PinTypes
    <3>3. failures = 0 => pins[op.at] <= 1 /\ \A p \in NodeIds \ {op.at} : pins[p] = 0
      BY <1>1 DEF PinsInv
    <3> QED BY <1>3, <1>7, <3>1, <3>2, <3>3 DEF PinsInv
  <2> QED BY <1>4, <2>4, <2>5, <2>6
<1>8. \/ failures' = failures + 1 /\ nodes' = nodes /\ pins' = pins
      \/ /\ x.n_keys > 0 /\ nodes' = [nodes EXCEPT ![op.at] = new]
         /\ pins' = Unpinned(pins, op.at) /\ failures' = failures
  BY DEF RemoveFromLeaf
<1> HIDE DEF x, i, new
<1> QED BY <1>6, <1>7, <1>8

LEMMA LoadFailsTyped ==
  ASSUME TypeInv, LoadFails
  PROVE  TypeInv'
<1> USE DEF TypeInv
<1> DEFINE child == nodes[op.at].ptrs[UpperIndex(nodes[op.at], op.key)]
<1>1. /\ op' = Idle /\ failures' = failures + 1
      /\ nodes' = nodes /\ allocated' = allocated /\ inserts' = inserts
  BY DEF LoadFails
<1>2. op'.kind = "none"
  BY <1>1 DEF Idle
<1>3. /\ op.kind \in {"insert", "remove", "split_root"} /\ op.kind # "none"
      /\ failures \in Nat /\ failures < MaxFailures
  <2>1. op.kind \in {"insert", "remove", "split_root"}
    BY DEF LoadFails
  <2> QED BY <2>1 DEF CountInv
<1>4. pins \in [NodeIds -> Nat]
  BY DEF PinsInv
<1>5. pins' \in [NodeIds -> Nat]
  <2>1. CASE op.kind = "split_root"
    <3>1. op.copy # NULL_PAGE => op.copy \in NodeIds
      BY <2>1 DEF OpInv, NodesInv
    <3>2. pins' = IF op.copy = NULL_PAGE THEN pins ELSE Pinned(pins, op.copy)
      BY <2>1 DEF LoadFails
    <3> QED BY <1>4, <3>1, <3>2, PinTypes
  <2>2. CASE op.kind = "insert"
    <3>1. ~nodes[op.at].is_leaf /\ (pins' = pins \/ pins' = Pinned(Pinned(pins, child), child))
      BY <2>2 DEF LoadFails
    <3>2. op \in InsertType /\ op.at \in allocated /\ op.key \in Keys /\ op.at \in NodeIds
      BY <2>2, OpKinds DEF OpInv, InsertType
    <3>3. child \in NodeIds
      BY <3>1, <3>2, ChildOnWay DEF NodesInv
    <3> HIDE DEF child
    <3>4. Pinned(pins, child) \in [NodeIds -> Nat]
      BY <1>4, <3>3, PinTypes
    <3>5. Pinned(Pinned(pins, child), child) \in [NodeIds -> Nat]
      BY <3>3, <3>4, PinTypes
    <3> QED BY <1>4, <3>1, <3>5
  <2>3. CASE op.kind = "remove"
    BY <1>4, <2>3 DEF LoadFails
  <2> QED BY <1>3, <2>1, <2>2, <2>3
<1>6. NodesInv'
  BY <1>1 DEF NodesInv
<1>7. OpInv'
  BY <1>1, <1>2 DEF OpInv
<1>8. CountInv'
  BY <1>1, <1>2, <1>3, BPTreeAssumption DEF CountInv
<1>9. PinsInv'
  BY <1>1, <1>3, <1>5 DEF PinsInv
<1> QED BY <1>6, <1>7, <1>8, <1>9

LEMMA StepTyped ==
  ASSUME TypeInv, [Next]_vars
  PROVE  TypeInv'
<1>1. CASE UNCHANGED vars
  BY <1>1 DEF vars, TypeInv, NodesInv, OpInv, CountInv, PinsInv
<1>2. CASE Step
  BY <1>2, CopyRootTyped, SplitRootTyped, InsertInLeafTyped, InsertBelowTyped,
     SplitAndInsertBelowTyped, RemoveBelowTyped, RemoveFromLeafTyped, LoadFailsTyped, Zenon
  DEF Step
<1>3. ASSUME NEW key \in Keys, BeginInsert(key) PROVE TypeInv'
  BY <1>3, BeginInsertTyped
<1>4. ASSUME NEW key \in Keys, BeginRemove(key) PROVE TypeInv'
  BY <1>4, BeginRemoveTyped
<1>5. Next \/ UNCHANGED vars
  OBVIOUS
<1> QED BY <1>1, <1>2, <1>3, <1>4, <1>5, Zenon DEF Next

\* The steps of the regular behaviours are steps.
LEMMA RegularSteps == [RegularNext]_vars => [Next]_vars
BY Zenon DEF RegularNext, Next

LEMMA TypeInvGivesTypes ==
  ASSUME TypeInv
  PROVE  TypeOK
<1>1. allocated \in SUBSET NodeIds /\ nodes \in [NodeIds -> NodeType]
  BY DEF TypeInv, NodesInv
<1>2. \A p \in NodeIds : /\ nodes[p].n_keys \in 0 .. 2 * min_degree - 1
                         /\ nodes[p].keys \in [KeySlots -> Keys \cup {EmptyKey}]
                         /\ nodes[p].ptrs \in [PtrSlots -> {NULL_PAGE} \cup NodeIds \cup Refs]
  BY <1>1 DEF NodeType, AnyKey, AnyPtr
<1>3. op.kind \in {"none", "insert", "remove", "split_root"}
  BY OpKinds DEF TypeInv
<1>4. /\ pins \in [NodeIds -> Nat] /\ inserts \in 0 .. MaxInserts /\ failures \in 0 .. MaxFailures
  BY DEF TypeInv, PinsInv, CountInv
<1> QED BY <1>1, <1>2, <1>3, <1>4 DEF TypeOK

THEOREM TreeInvariant == Spec => []TypeInv
<1>1. Init => TypeInv
  BY InitTyped
<1>2. TypeInv /\ [Next]_vars => TypeInv'
  BY StepTyped
<1> QED BY <1>1, <1>2, PTL DEF Spec

THEOREM RegularTreeInvariant == RegularSpec => []TypeInv
<1>1. Init => TypeInv
  BY InitTyped
<1>2. TypeInv /\ [RegularNext]_vars => TypeInv'
  BY StepTyped, RegularSteps
<1> QED BY <1>1, <1>2, PTL DEF RegularSpec

\* Whatever is inserted, removed, or cut short by a failed load, with the removals that
\* take a place past the keys for an entry too: every node keeps its form, an insertion
\* never opens a place in a full one, and the way down meets pages of the tree only.
THEOREM TreeTypeCorrect == (Spec \/ RegularSpec) => []TypeOK
<1>1. TypeInv => TypeOK
  BY TypeInvGivesTypes
<1> QED BY <1>1, TreeInvariant, RegularTreeInvariant, PTL

\* An operation that is not cut short gives back every pin it took: the way down holds
\* one page at a time, and the root a split gives back unpinned is not unpinned below zero.
THEOREM TreePinsReturned == (Spec \/ RegularSpec) => []PinsReturned
<1>1. TypeInv => PinsReturned
  BY OpKinds DEF TypeInv, PinsInv, PinsReturned
<1> QED BY <1>1, TreeInvariant, RegularTreeInvariant, PTL
-----------------------------------------------------------------------------
(* The tree: which nodes are in it, how high each is, and which keys may   *)
(* be below it.                                                            *)

ChildIndices(x) == IF x.is_leaf THEN {} ELSE 0 .. x.n_keys

Between(x, i, key) == (i > 0 => x.keys[i - 1] <= key) /\ (i < x.n_keys => key <= x.keys[i])

InOrder(x) == \A i, j \in 0 .. x.n_keys - 1 : i <= j => x.keys[i] <= x.keys[j]

\* A child is lower than the node above it, and never the root.
Lowers(N, height) ==
  /\ height \in [NodeIds -> Nat]
  /\ \A p \in NodeIds : \A i \in ChildIndices(N[p]) :
       N[p].ptrs[i] \in NodeIds \ {root_id} /\ height[N[p].ptrs[i]] < height[p]

\* The nodes in the tree: the root, and those with one of them above, in one place only.
Hangs(N, live) ==
  /\ live \in SUBSET NodeIds /\ root_id \in live
  /\ \A p \in live : \A i \in ChildIndices(N[p]) : N[p].ptrs[i] \in live
  /\ \A p, q \in live : \A i \in ChildIndices(N[p]) : \A j \in ChildIndices(N[q]) :
       N[p].ptrs[i] = N[q].ptrs[j] => p = q /\ i = j
  /\ \A q \in live \ {root_id} : \E p \in live : \E i \in ChildIndices(N[p]) : N[p].ptrs[i] = q

\* The keys of a node are in order, and may be there; below a child, those between the
\* separators next to it.
Parts(N, live, allowed) ==
  /\ allowed \in [NodeIds -> SUBSET AnyKey]
  /\ allowed[root_id] = AnyKey
  /\ \A p \in live : \A i \in ChildIndices(N[p]) :
       allowed[N[p].ptrs[i]] = {key \in allowed[p] : Between(N[p], i, key)}
  /\ \A p \in live :
       InOrder(N[p]) /\ \A i \in 0 .. N[p].n_keys - 1 : N[p].keys[i] \in allowed[p]

IsTree(N, live, height, allowed) ==
  Lowers(N, height) /\ Hangs(N, live) /\ Parts(N, live, allowed)

\* An insertion is where its key may be; the copy of the root is not in the tree yet.
OpInTree(live, allowed) ==
  /\ live \in SUBSET allocated
  /\ op.kind \in {"insert", "remove"} => op.at \in live
  /\ op.kind = "insert" => op.key \in allowed[op.at]
  /\ op.kind = "split_root" /\ op.copy # NULL_PAGE =>
       /\ op.copy \notin live
       /\ \A p \in NodeIds : \A i \in ChildIndices(nodes[p]) : nodes[p].ptrs[i] # op.copy

TreeInv ==
  \E live, height, allowed : IsTree(nodes, live, height, allowed) /\ OpInTree(live, allowed)
-----------------------------------------------------------------------------
(* A split in a tree.                                                      *)

\* M is N after a split of the full child i of the inner node x_id, which has room.
SplitIn(N, M, live, x_id, i, z) ==
  /\ N \in [NodeIds -> NodeType] /\ M \in [NodeIds -> NodeType]
  /\ x_id \in live /\ ~N[x_id].is_leaf /\ ~Full(N[x_id])
  /\ i \in 0 .. N[x_id].n_keys
  /\ Full(N[N[x_id].ptrs[i]])
  /\ z \in NodeIds /\ z \notin live /\ z # root_id
  /\ \A p \in NodeIds : \A j \in ChildIndices(N[p]) : N[p].ptrs[j] # z
  /\ M[N[x_id].ptrs[i]] = LeftHalf(N[N[x_id].ptrs[i]], z)
  /\ M[z] = RightHalf(N[N[x_id].ptrs[i]])
  /\ M[x_id] = WithChild(N[x_id], i, N[N[x_id].ptrs[i]].keys[min_degree - 1], z)
  /\ \A p \in NodeIds \ {N[x_id].ptrs[i], x_id, z} : M[p] = N[p]

\* What a split makes of the full node y on page c, of the new node on page z and of the
\* node x above, s being the separator.
Halves(x, y, s, i, left, right, above, z) ==
  /\ x.n_keys \in Nat /\ i \in 0 .. x.n_keys /\ y.n_keys = 2 * min_degree - 1
  /\ ~x.is_leaf /\ ~above.is_leaf
  /\ left.is_leaf = y.is_leaf /\ right.is_leaf = y.is_leaf
  /\ s = y.keys[min_degree - 1]
  /\ left.n_keys = min_degree - 1 /\ left.keys = y.keys
  /\ ~y.is_leaf => left.ptrs = y.ptrs /\ right.n_keys = min_degree - 1
  /\ right.n_keys \in {min_degree - 1, min_degree}
  /\ \A j \in 0 .. right.n_keys - 1 : right.keys[j] = y.keys[j + (2 * min_degree - 1 - right.n_keys)]
  /\ \A j \in 0 .. right.n_keys : right.ptrs[j] = y.ptrs[j + (2 * min_degree - 1 - right.n_keys)]
  /\ above.n_keys = x.n_keys + 1
  /\ \A j \in 0 .. x.n_keys :
       above.keys[j] = IF j < i THEN x.keys[j] ELSE IF j = i THEN s ELSE x.keys[j - 1]
  /\ \A j \in 0 .. x.n_keys + 1 :
       above.ptrs[j] = IF j <= i THEN x.ptrs[j] ELSE IF j = i + 1 THEN z ELSE x.ptrs[j - 1]

\* The keys of a node are numbers.
LEMMA KeysAreNumbers ==
  ASSUME NEW x \in NodeType
  PROVE  /\ x.n_keys \in Nat /\ x.n_keys <= 2 * min_degree - 1
         /\ \A j \in 0 .. 2 * min_degree - 2 : x.keys[j] \in Int /\ x.keys[j] \in AnyKey
         /\ \A j \in 0 .. x.n_keys - 1 : x.keys[j] \in Int /\ x.keys[j] \in AnyKey
<1>1. x.keys \in [0 .. 2 * min_degree - 2 -> AnyKey]
  BY NodeFields DEF KeySlots
<1>2. x.n_keys \in Nat /\ x.n_keys <= 2 * min_degree - 1
  BY NodeFields
<1>3. \A j \in 0 .. x.n_keys - 1 : j \in 0 .. 2 * min_degree - 2
  BY <1>2, Sizes
<1> QED BY <1>1, <1>2, <1>3, Sizes

LEMMA SplitHalves ==
  ASSUME NEW N, NEW M, NEW live, NEW height, NEW x_id, NEW i, NEW z,
         SplitIn(N, M, live, x_id, i, z), Hangs(N, live), Lowers(N, height)
  PROVE  LET c == N[x_id].ptrs[i]
         IN  /\ x_id \in NodeIds /\ c \in NodeIds /\ c \in live
             /\ c # x_id /\ c # z /\ x_id # z /\ c # root_id
             /\ N[x_id] \in NodeType /\ N[c] \in NodeType /\ M[c] \in NodeType
             /\ M[z] \in NodeType /\ M[x_id] \in NodeType
             /\ Halves(N[x_id], N[c], N[c].keys[min_degree - 1], i, M[c], M[z], M[x_id], z)
<1> DEFINE x == N[x_id]
           c == x.ptrs[i]
           y == N[c]
           s == y.keys[min_degree - 1]
<1>1. /\ N \in [NodeIds -> NodeType] /\ M \in [NodeIds -> NodeType]
      /\ x_id \in live /\ ~x.is_leaf /\ ~Full(x) /\ i \in 0 .. x.n_keys /\ Full(y)
      /\ z \in NodeIds /\ z \notin live
      /\ M[c] = LeftHalf(y, z) /\ M[z] = RightHalf(y) /\ M[x_id] = WithChild(x, i, s, z)
  BY DEF SplitIn
<1>2. live \in SUBSET NodeIds /\ x_id \in NodeIds /\ x \in NodeType
  BY <1>1 DEF Hangs
<1>3. i \in ChildIndices(x)
  BY <1>1 DEF ChildIndices
<1>4. c \in live /\ height[c] < height[x_id] /\ c # root_id
  BY <1>1, <1>2, <1>3 DEF Hangs, Lowers
<1>5. c \in NodeIds /\ y \in NodeType /\ height[c] \in Nat
  BY <1>1, <1>2, <1>4 DEF Lowers
<1>6. c # x_id /\ c # z /\ x_id # z
  BY <1>1, <1>4, <1>5
<1>7. s \in AnyKey
  <2>1. min_degree - 1 \in KeySlots
    BY Sizes DEF KeySlots
  <2> HIDE DEF y
  <2> QED BY <1>5, <2>1, NodeFields
<1>8. M[c] \in NodeType /\ M[z] \in NodeType /\ M[x_id] \in NodeType
  BY <1>1, <1>2, <1>5
<1>9. Halves(x, y, s, i, M[c], M[z], M[x_id], z)
  <2> DEFINE left == LeftHalf(y, z)
             right == RightHalf(y)
             above == WithChild(x, i, s, z)
  <2> HIDE DEF x, y, s
  <2>1. /\ left.is_leaf = y.is_leaf /\ left.n_keys = min_degree - 1 /\ left.keys = y.keys
        /\ ~y.is_leaf => left.ptrs = y.ptrs
    BY <1>1, <1>5, LeftHalfType
  <2>2. /\ right.is_leaf = y.is_leaf
        /\ right.n_keys = IF y.is_leaf THEN min_degree ELSE min_degree - 1
        /\ \A j \in 0 .. right.n_keys - 1 :
             right.keys[j] = y.keys[j + (2 * min_degree - 1 - right.n_keys)]
        /\ \A j \in 0 .. right.n_keys :
             right.ptrs[j] = y.ptrs[j + (2 * min_degree - 1 - right.n_keys)]
    BY <1>5, RightHalfType
  <2>3. /\ above.is_leaf = x.is_leaf /\ above.n_keys = x.n_keys + 1
        /\ \A j \in 0 .. x.n_keys :
             above.keys[j] = IF j < i THEN x.keys[j] ELSE IF j = i THEN s ELSE x.keys[j - 1]
        /\ \A j \in 0 .. x.n_keys + 1 :
             above.ptrs[j] = IF j <= i THEN x.ptrs[j] ELSE IF j = i + 1 THEN z ELSE x.ptrs[j - 1]
    BY <1>1, <1>2, <1>7, WithChildType
  <2>4. x.n_keys \in Nat /\ y.n_keys = 2 * min_degree - 1 /\ s = y.keys[min_degree - 1]
    BY <1>1, <1>2, NodeFields DEF Full, s
  <2>5. right.n_keys \in {min_degree - 1, min_degree} /\ (~y.is_leaf => right.n_keys = min_degree - 1)
    BY <2>2
  <2>6. M[c] = left /\ M[z] = right /\ M[x_id] = above
    BY <1>1
  <2> HIDE DEF left, right, above, c
  <2> QED BY <1>1, <2>1, <2>2, <2>3, <2>4, <2>5, <2>6, Zenon DEF Halves
<1> HIDE DEF s
<1>10. /\ x_id \in NodeIds /\ c \in NodeIds /\ c \in live /\ c # x_id /\ c # z /\ x_id # z
       /\ c # root_id /\ x \in NodeType /\ y \in NodeType
  BY <1>2, <1>4, <1>5, <1>6
<1> QED BY <1>8, <1>9, <1>10 DEF s
\* Where the pointer j of node p was before the split.
Home(p, c, z) == IF p = z THEN c ELSE p
Slot(p, j, x_id, i, z) ==
  IF p = z THEN j + min_degree ELSE IF p = x_id /\ j > i THEN j - 1 ELSE j

IsNewSlot(p, j, x_id, i) == p = x_id /\ j = i + 1

\* Every pointer but the one to the new node was in the tree before...
LEMMA SplitSlots ==
  ASSUME NEW N, NEW M, NEW live, NEW height, NEW x_id, NEW i, NEW z,
         SplitIn(N, M, live, x_id, i, z), Hangs(N, live), Lowers(N, height)
  PROVE  LET c == N[x_id].ptrs[i]
         IN  /\ i + 1 \in ChildIndices(M[x_id]) /\ M[x_id].ptrs[i + 1] = z
             /\ \A p \in NodeIds : \A j \in ChildIndices(M[p]) :
                  ~IsNewSlot(p, j, x_id, i) =>
                    /\ Slot(p, j, x_id, i, z) \in ChildIndices(N[Home(p, c, z)])
                    /\ M[p].ptrs[j] = N[Home(p, c, z)].ptrs[Slot(p, j, x_id, i, z)]
<1> DEFINE x == N[x_id]
           c == x.ptrs[i]
           y == N[c]
           s == y.keys[min_degree - 1]
<1>1. /\ x_id \in NodeIds /\ c \in NodeIds /\ c \in live
      /\ c # x_id /\ c # z /\ x_id # z
      /\ x \in NodeType /\ y \in NodeType
      /\ Halves(x, y, s, i, M[c], M[z], M[x_id], z)
  BY SplitHalves
<1>2. \A p \in NodeIds \ {c, x_id, z} : M[p] = N[p]
  BY DEF SplitIn
<1> HIDE DEF x, c, y, s
<1>3. i + 1 \in ChildIndices(M[x_id]) /\ M[x_id].ptrs[i + 1] = z
  BY <1>1 DEF Halves, ChildIndices
<1>4. ASSUME NEW p \in NodeIds, NEW j \in ChildIndices(M[p]), ~IsNewSlot(p, j, x_id, i)
      PROVE  /\ Slot(p, j, x_id, i, z) \in ChildIndices(N[Home(p, c, z)])
             /\ M[p].ptrs[j] = N[Home(p, c, z)].ptrs[Slot(p, j, x_id, i, z)]
  <2>1. CASE p = c
    <3>1. Home(p, c, z) = c /\ Slot(p, j, x_id, i, z) = j
      BY <1>1, <2>1 DEF Home, Slot
    <3>2. ~y.is_leaf /\ j \in 0 .. min_degree - 1 /\ M[c].ptrs = y.ptrs /\ y.n_keys = 2 * min_degree - 1
      BY <1>1, <2>1 DEF Halves, ChildIndices
    <3>3. j \in ChildIndices(y)
      BY <3>2, Sizes DEF ChildIndices
    <3> QED BY <2>1, <3>1, <3>2, <3>3 DEF y
  <2>2. CASE p = z
    <3>1. Home(p, c, z) = c /\ Slot(p, j, x_id, i, z) = j + min_degree
      BY <2>2 DEF Home, Slot
    <3>2. ~y.is_leaf /\ M[z].n_keys = min_degree - 1
      BY <1>1, <2>2 DEF Halves, ChildIndices
    <3>3. j \in 0 .. min_degree - 1 /\ y.n_keys = 2 * min_degree - 1
      BY <1>1, <2>2, <3>2 DEF Halves, ChildIndices
    <3>4. M[z].ptrs[j] = y.ptrs[j + (2 * min_degree - 1 - (min_degree - 1))]
      BY <1>1, <3>2, <3>3 DEF Halves
    <3>5. j + (2 * min_degree - 1 - (min_degree - 1)) = j + min_degree
      BY <3>3, Sizes
    <3>6. j + min_degree \in ChildIndices(y)
      BY <3>2, <3>3, Sizes DEF ChildIndices
    <3> QED BY <2>2, <3>1, <3>4, <3>5, <3>6 DEF y
  <2>3. CASE p = x_id
    <3>1. Home(p, c, z) = x_id /\ Slot(p, j, x_id, i, z) = IF j > i THEN j - 1 ELSE j
      BY <1>1, <2>3 DEF Home, Slot
    <3>2. /\ j \in 0 .. x.n_keys + 1 /\ x.n_keys \in Nat /\ i \in 0 .. x.n_keys /\ ~x.is_leaf
          /\ M[x_id].ptrs[j] = IF j <= i THEN x.ptrs[j] ELSE IF j = i + 1 THEN z ELSE x.ptrs[j - 1]
      BY <1>1, <2>3 DEF Halves, ChildIndices
    <3>3. j # i + 1
      BY <1>4, <2>3 DEF IsNewSlot
    <3>4. CASE j <= i
      <4>1. j \in ChildIndices(x) /\ ~(j > i)
        BY <3>2, <3>4 DEF ChildIndices
      <4> QED BY <2>3, <3>1, <3>2, <3>4, <4>1 DEF x
    <3>5. CASE j > i
      <4>1. j - 1 \in ChildIndices(x) /\ ~(j <= i)
        BY <3>2, <3>3, <3>5 DEF ChildIndices
      <4> QED BY <2>3, <3>1, <3>2, <3>3, <3>5, <4>1 DEF x
    <3> QED BY <3>2, <3>4, <3>5
  <2>4. CASE p \notin {c, x_id, z}
    <3>1. Home(p, c, z) = p /\ Slot(p, j, x_id, i, z) = j /\ M[p] = N[p]
      BY <1>2, <2>4 DEF Home, Slot
    <3> QED BY <3>1
  <2> QED BY <2>1, <2>2, <2>3, <2>4
<1> QED BY <1>3, <1>4 DEF c, x

\* ...in a place of its own...
LEMMA SplitSlotsDiffer ==
  ASSUME NEW N, NEW M, NEW live, NEW height, NEW x_id, NEW i, NEW z,
         SplitIn(N, M, live, x_id, i, z), Hangs(N, live), Lowers(N, height),
         NEW c, c = N[x_id].ptrs[i],
         NEW p \in NodeIds, NEW q \in NodeIds,
         NEW j \in ChildIndices(M[p]), NEW k \in ChildIndices(M[q]),
         ~IsNewSlot(p, j, x_id, i), ~IsNewSlot(q, k, x_id, i),
         Home(p, c, z) = Home(q, c, z), Slot(p, j, x_id, i, z) = Slot(q, k, x_id, i, z)
  PROVE  p = q /\ j = k
<1> DEFINE y == N[c]
           x == N[x_id]
           s == y.keys[min_degree - 1]
<1>1. /\ c # x_id /\ c # z /\ x_id # z /\ M[p] \in NodeType /\ M[q] \in NodeType
      /\ Halves(x, y, s, i, M[c], M[z], M[x_id], z)
  <2>1. c # x_id /\ c # z /\ x_id # z /\ Halves(x, y, s, i, M[c], M[z], M[x_id], z)
    BY SplitHalves
  <2>2. M \in [NodeIds -> NodeType]
    BY DEF SplitIn
  <2> QED BY <2>1, <2>2
<1>2. j \in Nat /\ k \in Nat /\ ~M[p].is_leaf /\ ~M[q].is_leaf
  BY <1>1, NodeFields DEF ChildIndices
<1> HIDE DEF x, y, s
<1>3. ASSUME NEW r \in NodeIds, NEW l \in ChildIndices(M[r]), r = c PROVE l < min_degree
  BY <1>1, <1>3, Sizes DEF Halves, ChildIndices
<1>4. CASE p = z /\ q = z
  BY <1>2, <1>4, Sizes DEF Slot
<1>5. CASE p = z /\ q # z
  <2>1. q = c /\ Slot(q, k, x_id, i, z) = k /\ Slot(p, j, x_id, i, z) = j + min_degree
    BY <1>1, <1>5 DEF Home, Slot
  <2> QED BY <1>2, <1>3, <2>1, Sizes
<1>6. CASE p # z /\ q = z
  <2>1. p = c /\ Slot(p, j, x_id, i, z) = j /\ Slot(q, k, x_id, i, z) = k + min_degree
    BY <1>1, <1>6 DEF Home, Slot
  <2> QED BY <1>2, <1>3, <2>1, Sizes
<1>7. CASE p # z /\ q # z
  <2>1. p = q
    BY <1>7 DEF Home
  <2>2. CASE p = x_id
    <3>1. /\ (IF j > i THEN j - 1 ELSE j) = (IF k > i THEN k - 1 ELSE k) /\ j # i + 1 /\ k # i + 1
          /\ i \in Nat
      BY <1>1, <1>7, <2>1, <2>2 DEF Slot, IsNewSlot, Halves
    <3> QED BY <1>2, <2>1, <3>1
  <2>3. CASE p # x_id
    BY <1>7, <2>1, <2>3 DEF Slot
  <2> QED BY <2>2, <2>3
<1> QED BY <1>4, <1>5, <1>6, <1>7

\* ...and every pointer there was has a place still, in its node or the new one.
LEMMA SplitSlotsStay ==
  ASSUME NEW N, NEW M, NEW live, NEW height, NEW x_id, NEW i, NEW z,
         SplitIn(N, M, live, x_id, i, z), Hangs(N, live), Lowers(N, height),
         NEW p \in NodeIds, p # z, NEW j \in ChildIndices(N[p])
  PROVE  \E q \in {p, z} : \E k \in ChildIndices(M[q]) : M[q].ptrs[k] = N[p].ptrs[j]
<1> DEFINE x == N[x_id]
           c == x.ptrs[i]
           y == N[c]
           s == y.keys[min_degree - 1]
<1>1. /\ c # x_id /\ c # z /\ x_id # z
      /\ x \in NodeType /\ y \in NodeType
      /\ Halves(x, y, s, i, M[c], M[z], M[x_id], z)
  BY SplitHalves
<1>2. \A r \in NodeIds \ {c, x_id, z} : M[r] = N[r]
  BY DEF SplitIn
<1> HIDE DEF x, c, y, s
<1>3. CASE p = c
  <2>1. ~y.is_leaf /\ j \in 0 .. 2 * min_degree - 1
    BY <1>1, <1>3 DEF ChildIndices, Halves, y
  <2>2. CASE j < min_degree
    <3>1. j \in ChildIndices(M[c]) /\ M[c].ptrs = y.ptrs
      BY <1>1, <2>1, <2>2, Sizes DEF ChildIndices, Halves
    <3> QED BY <1>3, <3>1 DEF y
  <2>3. CASE j >= min_degree
    <3> DEFINE k == j - min_degree
    <3>1. M[z].n_keys = min_degree - 1 /\ ~M[z].is_leaf
      BY <1>1, <2>1 DEF Halves
    <3>2. k \in 0 .. min_degree - 1 /\ k + (2 * min_degree - 1 - (min_degree - 1)) = j
      BY <2>1, <2>3, Sizes
    <3> HIDE DEF k
    <3>3. M[z].ptrs[k] = y.ptrs[k + (2 * min_degree - 1 - (min_degree - 1))]
      BY <1>1, <3>1, <3>2 DEF Halves
    <3>4. k \in ChildIndices(M[z])
      BY <3>1, <3>2 DEF ChildIndices
    <3> QED BY <1>3, <3>2, <3>3, <3>4 DEF y
  <2> QED BY <2>1, <2>2, <2>3, Sizes
<1>4. CASE p = x_id
  <2>1. /\ ~x.is_leaf /\ j \in 0 .. x.n_keys /\ x.n_keys \in Nat /\ i \in 0 .. x.n_keys
        /\ ~M[x_id].is_leaf /\ M[x_id].n_keys = x.n_keys + 1
        /\ \A k \in 0 .. x.n_keys + 1 :
             M[x_id].ptrs[k] = IF k <= i THEN x.ptrs[k] ELSE IF k = i + 1 THEN z ELSE x.ptrs[k - 1]
    BY <1>1, <1>4 DEF ChildIndices, Halves, x
  <2>2. CASE j <= i
    <3>1. j \in ChildIndices(M[x_id]) /\ M[x_id].ptrs[j] = x.ptrs[j]
      BY <2>1, <2>2 DEF ChildIndices
    <3> QED BY <1>4, <3>1 DEF x
  <2>3. CASE j > i
    <3> DEFINE k == j + 1
    <3>1. k \in 0 .. x.n_keys + 1 /\ ~(k <= i) /\ k # i + 1 /\ k - 1 = j
      BY <2>1, <2>3
    <3> HIDE DEF k
    <3>2. k \in ChildIndices(M[x_id]) /\ M[x_id].ptrs[k] = x.ptrs[j]
      BY <2>1, <3>1 DEF ChildIndices
    <3> QED BY <1>4, <3>2 DEF x
  <2> QED BY <2>1, <2>2, <2>3
<1>5. CASE p \notin {c, x_id}
  BY <1>2, <1>5
<1> QED BY <1>3, <1>4, <1>5
LEMMA SplitLowers ==
  ASSUME NEW N, NEW M, NEW live, NEW height, NEW x_id, NEW i, NEW z,
         SplitIn(N, M, live, x_id, i, z), Hangs(N, live), Lowers(N, height)
  PROVE  Lowers(M, [height EXCEPT ![z] = height[N[x_id].ptrs[i]]])
<1> DEFINE c == N[x_id].ptrs[i]
           after == [height EXCEPT ![z] = height[c]]
<1>1. /\ x_id \in NodeIds /\ c \in NodeIds /\ c # x_id /\ c # z /\ x_id # z
  BY SplitHalves
<1>2. /\ height \in [NodeIds -> Nat] /\ z \in NodeIds /\ z # root_id
      /\ \A p \in NodeIds : \A j \in ChildIndices(N[p]) :
           /\ N[p].ptrs[j] \in NodeIds \ {root_id} /\ height[N[p].ptrs[j]] < height[p]
           /\ N[p].ptrs[j] # z
  BY DEF Lowers, SplitIn
<1>3. /\ M[x_id].ptrs[i + 1] = z
      /\ \A p \in NodeIds : \A j \in ChildIndices(M[p]) :
           ~IsNewSlot(p, j, x_id, i) =>
             /\ Slot(p, j, x_id, i, z) \in ChildIndices(N[Home(p, c, z)])
             /\ M[p].ptrs[j] = N[Home(p, c, z)].ptrs[Slot(p, j, x_id, i, z)]
  BY SplitSlots
<1>4. height[c] < height[x_id]
  BY <1>2 DEF SplitIn, ChildIndices, Hangs
<1> HIDE DEF c
<1>5. /\ after \in [NodeIds -> Nat] /\ after[z] = height[c]
      /\ \A p \in NodeIds \ {z} : after[p] = height[p]
  BY <1>1, <1>2
<1> HIDE DEF after
<1>6. ASSUME NEW p \in NodeIds, NEW j \in ChildIndices(M[p])
      PROVE  M[p].ptrs[j] \in NodeIds \ {root_id} /\ after[M[p].ptrs[j]] < after[p]
  <2>1. CASE IsNewSlot(p, j, x_id, i)
    BY <1>1, <1>2, <1>3, <1>4, <1>5, <2>1 DEF IsNewSlot
  <2>2. CASE ~IsNewSlot(p, j, x_id, i)
    <3> DEFINE h == Home(p, c, z)
               k == Slot(p, j, x_id, i, z)
               r == M[p].ptrs[j]
    <3>1. h \in NodeIds /\ after[p] = height[h]
      BY <1>1, <1>5 DEF Home
    <3>2. k \in ChildIndices(N[h]) /\ r = N[h].ptrs[k]
      BY <1>3, <2>2
    <3> HIDE DEF h, k, r
    <3>3. r \in NodeIds \ {root_id} /\ height[r] < height[h] /\ r # z
      BY <1>2, <3>1, <3>2
    <3>4. after[r] = height[r]
      BY <1>5, <3>3
    <3> QED BY <3>1, <3>3, <3>4 DEF r
  <2> QED BY <2>1, <2>2
<1> QED BY <1>5, <1>6 DEF Lowers, after, c

LEMMA SplitHangs ==
  ASSUME NEW N, NEW M, NEW live, NEW height, NEW x_id, NEW i, NEW z,
         SplitIn(N, M, live, x_id, i, z), Hangs(N, live), Lowers(N, height)
  PROVE  Hangs(M, live \cup {z})
<1> DEFINE c == N[x_id].ptrs[i]
           after == live \cup {z}
<1>1. /\ x_id \in NodeIds /\ c \in NodeIds /\ c \in live /\ c # x_id /\ c # z /\ x_id # z
  BY SplitHalves
<1>2. /\ live \in SUBSET NodeIds /\ root_id \in live
      /\ \A p \in live : \A j \in ChildIndices(N[p]) : N[p].ptrs[j] \in live
      /\ \A p, q \in live : \A j \in ChildIndices(N[p]) : \A k \in ChildIndices(N[q]) :
           N[p].ptrs[j] = N[q].ptrs[k] => p = q /\ j = k
      /\ \A q \in live \ {root_id} : \E p \in live : \E j \in ChildIndices(N[p]) : N[p].ptrs[j] = q
  BY DEF Hangs
<1>3. /\ i + 1 \in ChildIndices(M[x_id]) /\ M[x_id].ptrs[i + 1] = z
      /\ \A p \in NodeIds : \A j \in ChildIndices(M[p]) :
           ~IsNewSlot(p, j, x_id, i) =>
             /\ Slot(p, j, x_id, i, z) \in ChildIndices(N[Home(p, c, z)])
             /\ M[p].ptrs[j] = N[Home(p, c, z)].ptrs[Slot(p, j, x_id, i, z)]
  BY SplitSlots
<1>4. z \in NodeIds /\ z \notin live /\ x_id \in live
  BY DEF SplitIn
<1>5. after \in SUBSET NodeIds /\ root_id \in after
  BY <1>2, <1>4
<1>6. ASSUME NEW p \in after, NEW j \in ChildIndices(M[p]), ~IsNewSlot(p, j, x_id, i)
      PROVE  /\ Home(p, c, z) \in live /\ M[p].ptrs[j] \in live /\ M[p].ptrs[j] # z
             /\ Slot(p, j, x_id, i, z) \in ChildIndices(N[Home(p, c, z)])
             /\ M[p].ptrs[j] = N[Home(p, c, z)].ptrs[Slot(p, j, x_id, i, z)]
  <2> DEFINE h == Home(p, c, z)
             k == Slot(p, j, x_id, i, z)
  <2>1. h \in live /\ p \in NodeIds
    BY <1>1, <1>2, <1>4 DEF Home
  <2>2. k \in ChildIndices(N[h]) /\ M[p].ptrs[j] = N[h].ptrs[k]
    BY <1>3, <1>6, <2>1
  <2> HIDE DEF h, k
  <2>3. M[p].ptrs[j] \in live
    BY <1>2, <2>1, <2>2
  <2> QED BY <1>4, <2>1, <2>2, <2>3 DEF h, k
<1> HIDE DEF c
<1>7. ASSUME NEW p \in after, NEW j \in ChildIndices(M[p]) PROVE M[p].ptrs[j] \in after
  <2>1. CASE IsNewSlot(p, j, x_id, i)
    BY <1>3, <2>1 DEF IsNewSlot
  <2>2. CASE ~IsNewSlot(p, j, x_id, i)
    BY <1>6, <2>2
  <2> QED BY <2>1, <2>2
<1>8. ASSUME NEW p \in after, NEW q \in after, NEW j \in ChildIndices(M[p]),
             NEW k \in ChildIndices(M[q]), M[p].ptrs[j] = M[q].ptrs[k]
      PROVE  p = q /\ j = k
  <2>1. CASE IsNewSlot(p, j, x_id, i) /\ IsNewSlot(q, k, x_id, i)
    BY <2>1 DEF IsNewSlot
  <2>2. CASE IsNewSlot(p, j, x_id, i) /\ ~IsNewSlot(q, k, x_id, i)
    <3>1. M[p].ptrs[j] = z
      BY <1>3, <2>2 DEF IsNewSlot
    <3>2. M[q].ptrs[k] # z
      BY <1>6, <2>2
    <3> QED BY <1>8, <3>1, <3>2
  <2>3. CASE ~IsNewSlot(p, j, x_id, i) /\ IsNewSlot(q, k, x_id, i)
    <3>1. M[q].ptrs[k] = z
      BY <1>3, <2>3 DEF IsNewSlot
    <3>2. M[p].ptrs[j] # z
      BY <1>6, <2>3
    <3> QED BY <1>8, <3>1, <3>2
  <2>4. CASE ~IsNewSlot(p, j, x_id, i) /\ ~IsNewSlot(q, k, x_id, i)
    <3> DEFINE hp == Home(p, c, z)
               hq == Home(q, c, z)
               kp == Slot(p, j, x_id, i, z)
               kq == Slot(q, k, x_id, i, z)
    <3>1. hp \in live /\ kp \in ChildIndices(N[hp]) /\ M[p].ptrs[j] = N[hp].ptrs[kp]
      BY <1>6, <2>4
    <3>2. hq \in live /\ kq \in ChildIndices(N[hq]) /\ M[q].ptrs[k] = N[hq].ptrs[kq]
      BY <1>6, <2>4
    <3> HIDE DEF hp, hq, kp, kq
    <3>3. hp = hq /\ kp = kq
      <4>1. N[hp].ptrs[kp] = N[hq].ptrs[kq]
        BY <1>8, <3>1, <3>2
      <4>2. \A l \in ChildIndices(N[hp]) : \A m \in ChildIndices(N[hq]) :
              N[hp].ptrs[l] = N[hq].ptrs[m] => hp = hq /\ l = m
        BY <1>2, <3>1, <3>2
      <4> QED BY <3>1, <3>2, <4>1, <4>2
    <3>4. p \in NodeIds /\ q \in NodeIds
      BY <1>5
    <3>5. Home(p, c, z) = Home(q, c, z) /\ Slot(p, j, x_id, i, z) = Slot(q, k, x_id, i, z)
      BY <3>3 DEF hp, hq, kp, kq
    <3>6. c = N[x_id].ptrs[i]
      BY DEF c
    <3> QED BY <2>4, <3>4, <3>5, <3>6, SplitSlotsDiffer
  <2> QED BY <2>1, <2>2, <2>3, <2>4
<1>9. ASSUME NEW q \in after \ {root_id}
      PROVE  \E p \in after : \E j \in ChildIndices(M[p]) : M[p].ptrs[j] = q
  <2>1. CASE q = z
    BY <1>3, <1>4, <2>1
  <2>2. CASE q # z
    <3>1. PICK p \in live : \E j \in ChildIndices(N[p]) : N[p].ptrs[j] = q
      BY <1>2, <2>2
    <3>2. PICK j \in ChildIndices(N[p]) : N[p].ptrs[j] = q
      BY <3>1
    <3>3. p \in NodeIds /\ p # z
      BY <1>2, <1>4
    <3>4. \E r \in {p, z} : \E k \in ChildIndices(M[r]) : M[r].ptrs[k] = N[p].ptrs[j]
      BY <3>3, SplitSlotsStay
    <3>5. p \in after /\ z \in after
      OBVIOUS
    <3> QED BY <3>2, <3>4, <3>5
  <2> QED BY <2>1, <2>2
<1> HIDE DEF after
<1>10. Hangs(M, after)
  BY <1>5, <1>7, <1>8, <1>9, Zenon DEF Hangs
<1> QED BY <1>10 DEF after
\* The separator between the halves is above what stays and not above what goes.
LEMMA SplitOrder ==
  ASSUME NEW x \in NodeType, NEW y \in NodeType, NEW s, NEW i, NEW left \in NodeType,
         NEW right \in NodeType, NEW above \in NodeType, NEW z,
         Halves(x, y, s, i, left, right, above, z), InOrder(x), InOrder(y),
         i > 0 => x.keys[i - 1] <= s, i < x.n_keys => s <= x.keys[i]
  PROVE  /\ s \in Int /\ s \in AnyKey
         /\ InOrder(left) /\ \A j \in 0 .. left.n_keys - 1 : left.keys[j] <= s
         /\ InOrder(right) /\ \A j \in 0 .. right.n_keys - 1 : s <= right.keys[j]
         /\ InOrder(above)
<1>1. /\ x.n_keys \in Nat /\ i \in 0 .. x.n_keys /\ y.n_keys = 2 * min_degree - 1
      /\ s = y.keys[min_degree - 1]
      /\ left.n_keys = min_degree - 1 /\ left.keys = y.keys
      /\ right.n_keys \in {min_degree - 1, min_degree}
      /\ \A j \in 0 .. right.n_keys - 1 : right.keys[j] = y.keys[j + (2 * min_degree - 1 - right.n_keys)]
      /\ above.n_keys = x.n_keys + 1
      /\ \A j \in 0 .. x.n_keys :
           above.keys[j] = IF j < i THEN x.keys[j] ELSE IF j = i THEN s ELSE x.keys[j - 1]
  BY DEF Halves
<1>2. /\ \A j \in 0 .. 2 * min_degree - 2 : y.keys[j] \in Int /\ y.keys[j] \in AnyKey
      /\ \A j \in 0 .. x.n_keys - 1 : x.keys[j] \in Int
  BY KeysAreNumbers
<1>3. /\ \A j, k \in 0 .. 2 * min_degree - 2 : j <= k => y.keys[j] <= y.keys[k]
  BY <1>1, Sizes DEF InOrder
<1>4. \A j, k \in 0 .. x.n_keys - 1 : j <= k => x.keys[j] <= x.keys[k]
  BY DEF InOrder
<1>5. min_degree - 1 \in 0 .. 2 * min_degree - 2 /\ min_degree \in Nat
  BY Sizes
<1>6. s \in Int /\ s \in AnyKey
  BY <1>1, <1>2, <1>5
<1>7. InOrder(left) /\ \A j \in 0 .. left.n_keys - 1 : left.keys[j] <= s
  <2>1. \A j \in 0 .. min_degree - 2 : j \in 0 .. 2 * min_degree - 2 /\ j <= min_degree - 1
    BY <1>5, Sizes
  <2> QED BY <1>1, <1>3, <1>5, <2>1 DEF InOrder
<1>8. InOrder(right) /\ \A j \in 0 .. right.n_keys - 1 : s <= right.keys[j]
  <2> DEFINE n == right.n_keys
             from == 2 * min_degree - 1 - n
  <2>1. n \in Nat /\ from \in Nat /\ n + from = 2 * min_degree - 1 /\ from >= min_degree - 1
    BY <1>1, Sizes
  <2>2. \A j \in 0 .. n - 1 : right.keys[j] = y.keys[j + from]
    BY <1>1
  <2> HIDE DEF n, from
  <2>3. \A j \in 0 .. n - 1 : j + from \in 0 .. 2 * min_degree - 2 /\ min_degree - 1 <= j + from
    BY <1>5, <2>1
  <2>4. \A j, k \in 0 .. n - 1 : j <= k => j + from <= k + from
    BY <2>1
  <2>5. \A j, k \in 0 .. n - 1 : j <= k => right.keys[j] <= right.keys[k]
    BY <1>3, <2>2, <2>3, <2>4
  <2>6. \A j \in 0 .. n - 1 : s <= right.keys[j]
    BY <1>1, <1>3, <1>5, <2>2, <2>3
  <2> QED BY <2>5, <2>6 DEF InOrder, n
<1>9. ASSUME NEW j \in 0 .. x.n_keys, NEW k \in 0 .. x.n_keys, j <= k
      PROVE  above.keys[j] <= above.keys[k]
  <2> DEFINE n == x.n_keys
  <2>1. /\ n \in Nat /\ i \in 0 .. n /\ j \in 0 .. n /\ k \in 0 .. n
    BY <1>1
  <2>2. /\ above.keys[j] = IF j < i THEN x.keys[j] ELSE IF j = i THEN s ELSE x.keys[j - 1]
        /\ above.keys[k] = IF k < i THEN x.keys[k] ELSE IF k = i THEN s ELSE x.keys[k - 1]
    BY <1>1
  <2>3. ASSUME NEW l \in 0 .. n, l < i PROVE x.keys[l] <= s /\ x.keys[l] \in Int
    <3>1. l \in 0 .. n - 1 /\ i - 1 \in 0 .. n - 1 /\ l <= i - 1
      BY <2>1, <2>3
    <3>2. x.keys[l] <= x.keys[i - 1] /\ x.keys[i - 1] <= s /\ x.keys[l] \in Int /\ x.keys[i - 1] \in Int
      BY <1>2, <1>4, <2>1, <3>1
    <3> QED BY <1>6, <3>2
  <2>4. ASSUME NEW l \in 0 .. n, l > i PROVE s <= x.keys[l - 1] /\ x.keys[l - 1] \in Int
    <3>1. l - 1 \in 0 .. n - 1 /\ i \in 0 .. n - 1 /\ i <= l - 1
      BY <2>1, <2>4
    <3>2. x.keys[i] <= x.keys[l - 1] /\ s <= x.keys[i] /\ x.keys[l - 1] \in Int /\ x.keys[i] \in Int
      BY <1>2, <1>4, <2>1, <3>1
    <3> QED BY <1>6, <3>2
  <2>5. CASE k < i
    <3>1. j < i /\ j \in 0 .. n - 1 /\ k \in 0 .. n - 1
      BY <1>9, <2>1, <2>5
    <3>2. x.keys[j] <= x.keys[k]
      BY <1>4, <1>9, <3>1
    <3> QED BY <2>2, <2>5, <3>1, <3>2
  <2>6. CASE k = i
    <3>1. j < i \/ j = i
      BY <1>9, <2>1, <2>6
    <3> QED BY <1>6, <2>1, <2>2, <2>3, <2>6, <3>1
  <2>7. CASE k > i
    <3>1. ~(k < i) /\ k # i /\ above.keys[k] = x.keys[k - 1]
      BY <2>1, <2>2, <2>7
    <3>2. s <= x.keys[k - 1] /\ x.keys[k - 1] \in Int
      BY <2>4, <2>7
    <3>3. CASE j < i
      <4>1. above.keys[j] = x.keys[j] /\ x.keys[j] <= s /\ x.keys[j] \in Int
        BY <2>2, <2>3, <3>3
      <4> QED BY <1>6, <3>1, <3>2, <4>1
    <3>4. CASE j = i
      BY <2>1, <2>2, <3>1, <3>2, <3>4
    <3>5. CASE j > i
      <4>1. ~(j < i) /\ j # i /\ j - 1 \in 0 .. n - 1 /\ k - 1 \in 0 .. n - 1 /\ j - 1 <= k - 1
        BY <1>9, <2>1, <3>5
      <4>2. x.keys[j - 1] <= x.keys[k - 1]
        BY <1>4, <4>1
      <4> QED BY <2>2, <3>1, <4>1, <4>2
    <3> QED BY <2>1, <3>3, <3>4, <3>5
  <2> QED BY <2>1, <2>5, <2>6, <2>7
<1>10. InOrder(above)
  BY <1>1, <1>9 DEF InOrder
<1> QED BY <1>6, <1>7, <1>8, <1>10
\* The keys below a child are divided at the separator.
SplitAllowed(allowed, c, z, s) ==
  [allowed EXCEPT ![c] = {key \in allowed[c] : key <= s}, ![z] = {key \in allowed[c] : s <= key}]

\* Which keys go below the children of the halves and of the node above.
KeyGoes(x, y, s, i, left, right, above, key) ==
  /\ \A j \in 0 .. min_degree - 1 :
       key <= s /\ Between(left, j, key) <=> Between(y, j, key)
  /\ ~y.is_leaf => \A j \in 0 .. min_degree - 1 :
       s <= key /\ Between(right, j, key) <=> Between(y, j + min_degree, key)
  /\ \A j \in 0 .. x.n_keys : j < i => (Between(above, j, key) <=> Between(x, j, key))
  /\ Between(above, i, key) <=> Between(x, i, key) /\ key <= s
  /\ Between(above, i + 1, key) <=> Between(x, i, key) /\ s <= key
  /\ \A j \in 0 .. x.n_keys + 1 :
       j > i + 1 => (Between(above, j, key) <=> Between(x, j - 1, key))

LEMMA SplitBetween ==
  ASSUME NEW x \in NodeType, NEW y \in NodeType, NEW s, NEW i, NEW left \in NodeType,
         NEW right \in NodeType, NEW above \in NodeType, NEW z,
         Halves(x, y, s, i, left, right, above, z), InOrder(x), InOrder(y),
         i > 0 => x.keys[i - 1] <= s, i < x.n_keys => s <= x.keys[i], NEW key \in AnyKey
  PROVE  KeyGoes(x, y, s, i, left, right, above, key)
<1>1. /\ x.n_keys \in Nat /\ i \in 0 .. x.n_keys /\ y.n_keys = 2 * min_degree - 1
      /\ s = y.keys[min_degree - 1]
      /\ left.n_keys = min_degree - 1 /\ left.keys = y.keys
      /\ above.n_keys = x.n_keys + 1
      /\ \A j \in 0 .. x.n_keys :
           above.keys[j] = IF j < i THEN x.keys[j] ELSE IF j = i THEN s ELSE x.keys[j - 1]
  BY DEF Halves
<1>2. /\ \A j \in 0 .. 2 * min_degree - 2 : y.keys[j] \in Int /\ y.keys[j] \in AnyKey
      /\ \A j \in 0 .. x.n_keys - 1 : x.keys[j] \in Int
  BY KeysAreNumbers
<1>3. \A j, k \in 0 .. 2 * min_degree - 2 : j <= k => y.keys[j] <= y.keys[k]
  BY <1>1, Sizes DEF InOrder
<1>5. min_degree - 1 \in 0 .. 2 * min_degree - 2 /\ min_degree \in Nat /\ min_degree >= 2
  BY Sizes
<1>6. s \in Int /\ key \in Int
  BY <1>1, <1>2, <1>5, Sizes
<1>7. ASSUME NEW j \in 0 .. min_degree - 1
      PROVE  key <= s /\ Between(left, j, key) <=> Between(y, j, key)
  <2>1. Between(left, j, key) <=>
          (j > 0 => y.keys[j - 1] <= key) /\ (j < min_degree - 1 => key <= y.keys[j])
    BY <1>1 DEF Between
  <2>2. Between(y, j, key) <=> (j > 0 => y.keys[j - 1] <= key) /\ key <= y.keys[j]
    BY <1>1, <1>5 DEF Between
  <2>3. y.keys[j] <= s /\ y.keys[j] \in Int
    BY <1>1, <1>2, <1>3, <1>5
  <2>4. CASE j = min_degree - 1
    BY <1>1, <1>6, <2>1, <2>2, <2>4
  <2>5. CASE j # min_degree - 1
    <3>1. j < min_degree - 1
      BY <1>5, <2>5
    <3> QED BY <1>6, <2>1, <2>2, <2>3, <3>1
  <2> QED BY <2>4, <2>5
<1>8. ASSUME ~y.is_leaf, NEW j \in 0 .. min_degree - 1
      PROVE  s <= key /\ Between(right, j, key) <=> Between(y, j + min_degree, key)
  <2>1. right.n_keys = min_degree - 1
    BY <1>8 DEF Halves
  <2>2. \A l \in 0 .. min_degree - 2 : right.keys[l] = y.keys[l + min_degree]
    <3>1. 2 * min_degree - 1 - (min_degree - 1) = min_degree /\ (min_degree - 1) - 1 = min_degree - 2
      BY <1>5
    <3> QED BY <2>1, <3>1 DEF Halves
  <2>3. Between(right, j, key) <=>
          (j > 0 => right.keys[j - 1] <= key) /\ (j < min_degree - 1 => key <= right.keys[j])
    BY <2>1 DEF Between
  <2>4. j < min_degree - 1 => right.keys[j] = y.keys[j + min_degree]
    BY <1>5, <2>2
  <2>5. j > 0 => right.keys[j - 1] = y.keys[j + min_degree - 1]
    <3>1. j > 0 => j - 1 \in 0 .. min_degree - 2 /\ (j - 1) + min_degree = j + min_degree - 1
      BY <1>5
    <3> QED BY <2>2, <3>1
  <2>6. Between(y, j + min_degree, key) <=>
          y.keys[j + min_degree - 1] <= key /\ (j < min_degree - 1 => key <= y.keys[j + min_degree])
    BY <1>1, <1>5 DEF Between
  <2>7. /\ s <= y.keys[j + min_degree - 1] /\ y.keys[j + min_degree - 1] \in Int
        /\ j = 0 => y.keys[j + min_degree - 1] = s
    <3>1. j + min_degree - 1 \in 0 .. 2 * min_degree - 2 /\ min_degree - 1 <= j + min_degree - 1
      BY <1>5
    <3>2. j = 0 => j + min_degree - 1 = min_degree - 1
      BY <1>5
    <3> QED BY <1>1, <1>2, <1>3, <1>5, <3>1, <3>2
  <2>8. CASE j = 0
    BY <1>5, <1>6, <2>3, <2>4, <2>6, <2>7, <2>8
  <2>9. CASE j > 0
    <3>1. y.keys[j + min_degree - 1] <= key => s <= key
      BY <1>6, <2>7
    <3> QED BY <2>3, <2>4, <2>5, <2>6, <2>9, <3>1
  <2> QED BY <2>8, <2>9
<1> DEFINE n == x.n_keys
<1>9. \A j \in 0 .. n + 1 :
        Between(above, j, key) <=>
          (j > 0 => above.keys[j - 1] <= key) /\ (j < n + 1 => key <= above.keys[j])
  BY <1>1 DEF Between
<1>10. \A j \in 0 .. n :
         Between(x, j, key) <=> (j > 0 => x.keys[j - 1] <= key) /\ (j < n => key <= x.keys[j])
  BY DEF Between
<1>11. ASSUME NEW j \in 0 .. n, j < i PROVE Between(above, j, key) <=> Between(x, j, key)
  <2>1. /\ above.keys[j] = x.keys[j] /\ j < n /\ j < n + 1 /\ j \in 0 .. n + 1
        /\ j > 0 => j - 1 \in 0 .. n /\ j - 1 < i
    BY <1>1, <1>11
  <2>2. j > 0 => above.keys[j - 1] = x.keys[j - 1]
    BY <1>1, <2>1
  <2> QED BY <1>9, <1>10, <2>1, <2>2
<1>12. Between(above, i, key) <=> Between(x, i, key) /\ key <= s
  <2>1. above.keys[i] = s /\ i < n + 1 /\ i \in 0 .. n + 1 /\ i \in 0 .. n
    BY <1>1
  <2>2. i > 0 => above.keys[i - 1] = x.keys[i - 1]
    BY <1>1
  <2>3. i < n => (key <= s => key <= x.keys[i])
    <3>1. i < n => x.keys[i] \in Int
      BY <1>1, <1>2
    <3> QED BY <1>6, <3>1
  <2> QED BY <1>9, <1>10, <2>1, <2>2, <2>3
<1>13. Between(above, i + 1, key) <=> Between(x, i, key) /\ s <= key
  <2>1. above.keys[i] = s /\ i + 1 \in 0 .. n + 1 /\ i \in 0 .. n /\ (i + 1) - 1 = i /\ i + 1 > 0
    BY <1>1
  <2>2. i + 1 < n + 1 => above.keys[i + 1] = x.keys[i] /\ i < n
    <3>1. i + 1 < n + 1 => i + 1 \in 0 .. n /\ ~(i + 1 < i) /\ i + 1 # i /\ (i + 1) - 1 = i /\ i < n
      BY <1>1
    <3> QED BY <1>1, <3>1
  <2>3. i < n => i + 1 < n + 1
    BY <1>1
  <2>4. i > 0 => (s <= key => x.keys[i - 1] <= key)
    <3>1. i > 0 => x.keys[i - 1] \in Int
      BY <1>1, <1>2
    <3> QED BY <1>6, <3>1
  <2> QED BY <1>9, <1>10, <2>1, <2>2, <2>3, <2>4
<1>14. ASSUME NEW j \in 0 .. n + 1, j > i + 1
       PROVE  Between(above, j, key) <=> Between(x, j - 1, key)
  <2>1. j - 1 \in 0 .. n /\ ~(j - 1 < i) /\ j - 1 # i /\ j > 0 /\ j - 1 > 0
    BY <1>1, <1>14
  <2>2. above.keys[j - 1] = x.keys[(j - 1) - 1]
    BY <1>1, <2>1
  <2>3. j < n + 1 => above.keys[j] = x.keys[j - 1] /\ j - 1 < n
    BY <1>1, <1>14
  <2>4. j - 1 < n => j < n + 1
    BY <1>1
  <2> QED BY <1>9, <1>10, <2>1, <2>2, <2>3, <2>4
<1> QED BY <1>7, <1>8, <1>11, <1>12, <1>13, <1>14, Zenon DEF KeyGoes
LEMMA SplitParts ==
  ASSUME NEW N, NEW M, NEW live, NEW height, NEW allowed, NEW x_id, NEW i, NEW z,
         SplitIn(N, M, live, x_id, i, z), IsTree(N, live, height, allowed)
  PROVE  LET c == N[x_id].ptrs[i]
         IN  Parts(M, live \cup {z}, SplitAllowed(allowed, c, z, N[c].keys[min_degree - 1]))
<1> DEFINE x == N[x_id]
           c == x.ptrs[i]
           y == N[c]
           s == y.keys[min_degree - 1]
           after == SplitAllowed(allowed, c, z, s)
<1>1. Lowers(N, height) /\ Hangs(N, live) /\ Parts(N, live, allowed)
  BY DEF IsTree
<1>2. /\ x_id \in NodeIds /\ c \in NodeIds /\ c \in live /\ c # x_id /\ c # z /\ x_id # z
      /\ c # root_id /\ x \in NodeType /\ y \in NodeType /\ M[c] \in NodeType
      /\ M[z] \in NodeType /\ M[x_id] \in NodeType
      /\ Halves(x, y, s, i, M[c], M[z], M[x_id], z)
  BY <1>1, SplitHalves
<1>3. /\ \A p \in NodeIds \ {c, x_id, z} : M[p] = N[p]
      /\ z \in NodeIds /\ z \notin live /\ z # root_id /\ x_id \in live
      /\ i \in ChildIndices(x)
      /\ \A p \in NodeIds : \A j \in ChildIndices(N[p]) : N[p].ptrs[j] # z
  BY DEF SplitIn, ChildIndices
<1>4. /\ allowed \in [NodeIds -> SUBSET AnyKey] /\ allowed[root_id] = AnyKey
      /\ \A p \in live : \A j \in ChildIndices(N[p]) :
           allowed[N[p].ptrs[j]] = {key \in allowed[p] : Between(N[p], j, key)}
      /\ \A p \in live :
           InOrder(N[p]) /\ \A j \in 0 .. N[p].n_keys - 1 : N[p].keys[j] \in allowed[p]
  BY <1>1 DEF Parts
<1>5. live \in SUBSET NodeIds
  BY <1>1 DEF Hangs
<1>6. allowed[c] = {key \in allowed[x_id] : Between(x, i, key)} /\ InOrder(x) /\ InOrder(y)
  BY <1>2, <1>3, <1>4
<1>7. s \in allowed[c]
  <2>1. y.n_keys = 2 * min_degree - 1
    <3> HIDE DEF y
    <3> QED BY ONLY <1>2 DEF Halves
  <2>2. min_degree - 1 \in 0 .. y.n_keys - 1
    <3> HIDE DEF y
    <3> QED BY ONLY <2>1, Sizes
  <2> QED BY <1>2, <1>4, <2>2
<1>8. s \in allowed[x_id] /\ Between(x, i, s)
  BY <1>6, <1>7
<1>9. (i > 0 => x.keys[i - 1] <= s) /\ (i < x.n_keys => s <= x.keys[i])
  BY <1>8 DEF Between
<1> HIDE DEF s
<1>10. /\ s \in Int /\ InOrder(M[c]) /\ \A j \in 0 .. M[c].n_keys - 1 : M[c].keys[j] <= s
       /\ InOrder(M[z]) /\ \A j \in 0 .. M[z].n_keys - 1 : s <= M[z].keys[j]
       /\ InOrder(M[x_id])
  <2> HIDE DEF x, y, c
  <2> QED BY <1>2, <1>6, <1>9, SplitOrder
<1>11. /\ after \in [NodeIds -> SUBSET AnyKey]
       /\ after[c] = {key \in allowed[c] : key <= s}
       /\ after[z] = {key \in allowed[c] : s <= key}
       /\ \A p \in NodeIds \ {c, z} : after[p] = allowed[p]
  <2> HIDE DEF c
  <2>1. allowed[c] \in SUBSET AnyKey
    BY <1>2, <1>4
  <2> QED BY <1>2, <1>3, <1>4, <2>1 DEF SplitAllowed
<1> HIDE DEF after
<1>12. after[root_id] = AnyKey
  BY <1>2, <1>3, <1>4, <1>11, Sizes
<1>13. \A key \in AnyKey : KeyGoes(x, y, s, i, M[c], M[z], M[x_id], key)
  <2> HIDE DEF x, y, c
  <2> QED BY <1>2, <1>6, <1>9, SplitBetween, Zenon
\* Children of c, other nodes: those the new function does not touch.
<1>14. ASSUME NEW p \in live, NEW j \in ChildIndices(N[p]), p # x_id \/ j # i
       PROVE  after[N[p].ptrs[j]] = {key \in allowed[p] : Between(N[p], j, key)}
  <2>1. N[p].ptrs[j] \in live /\ N[p].ptrs[j] # c
    <3>1. N[p].ptrs[j] \in live
      BY <1>1 DEF Hangs
    <3>2. N[p].ptrs[j] = N[x_id].ptrs[i] => p = x_id /\ j = i
      BY <1>1, <1>3 DEF Hangs
    <3> QED BY <1>14, <3>1, <3>2
  <2> DEFINE r == N[p].ptrs[j]
  <2>2. r \in NodeIds \ {c, z}
    BY <1>3, <1>5, <2>1
  <2>3. allowed[r] = {key \in allowed[p] : Between(N[p], j, key)}
    BY <1>4
  <2> HIDE DEF r, c
  <2>4. after[r] = allowed[r]
    BY <1>11, <2>2
  <2> QED BY <2>3, <2>4 DEF r
<1>15. ASSUME NEW p \in live \cup {z}, NEW j \in ChildIndices(M[p])
       PROVE  after[M[p].ptrs[j]] = {key \in after[p] : Between(M[p], j, key)}
  <2>1. CASE p = c
    <3>1. /\ ~y.is_leaf /\ j \in 0 .. min_degree - 1 /\ M[c].ptrs = y.ptrs
          /\ y.n_keys = 2 * min_degree - 1
      <4> HIDE DEF x, y, c
      <4> QED BY <1>2, <2>1 DEF Halves, ChildIndices
    <3>2. j \in ChildIndices(y)
      BY <3>1, Sizes DEF ChildIndices
    <3>3. after[y.ptrs[j]] = {key \in allowed[c] : Between(y, j, key)}
      BY <1>2, <1>14, <3>2
    <3>4. \A key \in AnyKey : Between(y, j, key) <=> key <= s /\ Between(M[c], j, key)
      <4>1. j < min_degree
        BY <3>1, Sizes
      <4> HIDE DEF x, y, c
      <4> QED BY <1>13, <3>1, <4>1 DEF KeyGoes
    <3>5. allowed[c] \in SUBSET AnyKey
      BY <1>2, <1>4
    <3> HIDE DEF x, y, c
    <3>6. M[p].ptrs[j] = y.ptrs[j]
      BY <2>1, <3>1
    <3>7. {key \in after[c] : Between(M[c], j, key)} = {key \in allowed[c] : Between(y, j, key)}
      BY <1>11, <3>4, <3>5
    <3> QED BY <2>1, <3>3, <3>6, <3>7
  <2>2. CASE p = z
    <3>1. /\ ~y.is_leaf /\ M[z].n_keys = min_degree - 1 /\ j \in 0 .. min_degree - 1
          /\ y.n_keys = 2 * min_degree - 1
          /\ M[z].ptrs[j] = y.ptrs[j + (2 * min_degree - 1 - (min_degree - 1))]
      <4> HIDE DEF x, y, c
      <4>1. ~y.is_leaf /\ M[z].n_keys = min_degree - 1 /\ j \in 0 .. min_degree - 1
        BY <1>2, <2>2 DEF Halves, ChildIndices
      <4> QED BY <1>2, <4>1 DEF Halves
    <3>2. j + (2 * min_degree - 1 - (min_degree - 1)) = j + min_degree
      BY <3>1, Sizes
    <3>3. j + min_degree \in ChildIndices(y)
      BY <3>1, Sizes DEF ChildIndices
    <3>4. after[y.ptrs[j + min_degree]] = {key \in allowed[c] : Between(y, j + min_degree, key)}
      BY <1>2, <1>14, <3>3
    <3>5. allowed[c] \in SUBSET AnyKey
      BY <1>2, <1>4
    <3> HIDE DEF x, y, c
    <3>6. \A key \in AnyKey : Between(y, j + min_degree, key) <=> s <= key /\ Between(M[z], j, key)
      BY <1>13, <3>1 DEF KeyGoes
    <3>7. M[p].ptrs[j] = y.ptrs[j + min_degree]
      BY <2>2, <3>1, <3>2
    <3>8. {key \in after[z] : Between(M[z], j, key)} = {key \in allowed[c] : Between(y, j + min_degree, key)}
      BY <1>11, <3>5, <3>6
    <3> QED BY <2>2, <3>4, <3>7, <3>8
  <2>3. CASE p = x_id
    <3> DEFINE w == M[x_id]
    <3>1. /\ ~x.is_leaf /\ j \in 0 .. x.n_keys + 1 /\ x.n_keys \in Nat /\ i \in 0 .. x.n_keys
          /\ w.ptrs[j] = IF j <= i THEN x.ptrs[j] ELSE IF j = i + 1 THEN z ELSE x.ptrs[j - 1]
      <4> HIDE DEF x, y, c
      <4> QED BY <1>2, <2>3 DEF Halves, ChildIndices
    <3>2. after[x_id] = allowed[x_id] /\ allowed[x_id] \in SUBSET AnyKey
      BY <1>2, <1>4, <1>11
    <3>3. CASE j < i
      <4>1. j \in ChildIndices(x) /\ w.ptrs[j] = x.ptrs[j] /\ j # i /\ j \in 0 .. x.n_keys
        BY <3>1, <3>3 DEF ChildIndices
      <4>2. after[x.ptrs[j]] = {key \in allowed[x_id] : Between(x, j, key)}
        BY <1>3, <1>14, <4>1
      <4> HIDE DEF x, y, c, w
      <4>3. \A key \in AnyKey : Between(M[x_id], j, key) <=> Between(x, j, key)
        BY <1>13, <3>3, <4>1 DEF KeyGoes
      <4>4. {key \in after[x_id] : Between(M[x_id], j, key)} = {key \in allowed[x_id] : Between(x, j, key)}
        BY <3>2, <4>3
      <4> QED BY <2>3, <4>1, <4>2, <4>4 DEF w
    <3>4. CASE j = i
      <4>1. w.ptrs[j] = c
        BY <3>1, <3>4
      <4> HIDE DEF x, y, c, w
      <4>2. \A key \in AnyKey : Between(M[x_id], j, key) <=> Between(x, i, key) /\ key <= s
        BY <1>13, <3>4 DEF KeyGoes
      <4>3. {key \in after[x_id] : Between(M[x_id], j, key)} = {key \in allowed[c] : key <= s}
        BY <1>6, <3>2, <4>2
      <4> QED BY <1>11, <2>3, <4>1, <4>3 DEF w
    <3>5. CASE j = i + 1
      <4>1. w.ptrs[j] = z
        BY <3>1, <3>5
      <4> HIDE DEF x, y, c, w
      <4>2. \A key \in AnyKey : Between(M[x_id], j, key) <=> Between(x, i, key) /\ s <= key
        BY <1>13, <3>5 DEF KeyGoes
      <4>3. {key \in after[x_id] : Between(M[x_id], j, key)} = {key \in allowed[c] : s <= key}
        BY <1>6, <3>2, <4>2
      <4> QED BY <1>11, <2>3, <4>1, <4>3 DEF w
    <3>6. CASE j > i + 1
      <4>1. j - 1 \in ChildIndices(x) /\ w.ptrs[j] = x.ptrs[j - 1] /\ j - 1 # i
        BY <3>1, <3>6 DEF ChildIndices
      <4>2. after[x.ptrs[j - 1]] = {key \in allowed[x_id] : Between(x, j - 1, key)}
        BY <1>3, <1>14, <4>1
      <4> HIDE DEF x, y, c, w
      <4>3. \A key \in AnyKey : Between(M[x_id], j, key) <=> Between(x, j - 1, key)
        BY <1>13, <3>1, <3>6 DEF KeyGoes
      <4>4. {key \in after[x_id] : Between(M[x_id], j, key)} = {key \in allowed[x_id] : Between(x, j - 1, key)}
        BY <3>2, <4>3
      <4> QED BY <2>3, <4>1, <4>2, <4>4 DEF w
    <3> QED BY <3>1, <3>3, <3>4, <3>5, <3>6
  <2>4. CASE p \notin {c, z, x_id}
    <3>1. p \in live /\ p \in NodeIds /\ M[p] = N[p] /\ after[p] = allowed[p]
      BY <1>3, <1>5, <1>11, <2>4
    <3>2. after[N[p].ptrs[j]] = {key \in allowed[p] : Between(N[p], j, key)}
      BY <1>14, <2>4, <3>1
    <3> QED BY <3>1, <3>2
  <2> QED BY <2>1, <2>2, <2>3, <2>4
<1>16. ASSUME NEW p \in live \cup {z}
       PROVE  InOrder(M[p]) /\ \A j \in 0 .. M[p].n_keys - 1 : M[p].keys[j] \in after[p]
  <2>1. CASE p = c
    <3>1. ASSUME NEW j \in 0 .. M[c].n_keys - 1 PROVE M[c].keys[j] \in after[c]
      <4>1. M[c].keys[j] = y.keys[j] /\ j \in 0 .. y.n_keys - 1
        <5> HIDE DEF x, y, c
        <5> QED BY <1>2, <3>1, Sizes DEF Halves
      <4>2. y.keys[j] \in allowed[c]
        BY <1>2, <1>4, <4>1
      <4> HIDE DEF y, c, x
      <4> QED BY <1>10, <1>11, <4>1, <4>2
    <3> HIDE DEF c, x, y
    <3> QED BY <1>10, <2>1, <3>1
  <2>2. CASE p = z
    <3>1. ASSUME NEW j \in 0 .. M[z].n_keys - 1 PROVE M[z].keys[j] \in after[z]
      <4> DEFINE k == j + (2 * min_degree - 1 - M[z].n_keys)
      <4>1. M[z].keys[j] = y.keys[k] /\ k \in 0 .. y.n_keys - 1
        <5> HIDE DEF x, y, c
        <5> QED BY <1>2, <3>1, Sizes DEF Halves
      <4> HIDE DEF k
      <4>2. y.keys[k] \in allowed[c]
        BY <1>2, <1>4, <4>1
      <4> HIDE DEF y, c, x
      <4> QED BY <1>10, <1>11, <3>1, <4>1, <4>2
    <3> QED BY <1>10, <2>2, <3>1
  <2>3. CASE p = x_id
    <3>1. ASSUME NEW j \in 0 .. M[x_id].n_keys - 1 PROVE M[x_id].keys[j] \in after[x_id]
      <4>1. /\ j \in 0 .. x.n_keys /\ x.n_keys \in Nat /\ i \in 0 .. x.n_keys
            /\ M[x_id].keys[j] = IF j < i THEN x.keys[j] ELSE IF j = i THEN s ELSE x.keys[j - 1]
        <5> HIDE DEF x, y, c
        <5> QED BY <1>2, <3>1 DEF Halves
      <4>2. after[x_id] = allowed[x_id]
        BY <1>2, <1>11
      <4>3. \A k \in 0 .. x.n_keys - 1 : x.keys[k] \in allowed[x_id]
        BY <1>3, <1>4
      <4> HIDE DEF x, y, c
      <4>4. CASE j < i
        BY <4>1, <4>2, <4>3, <4>4
      <4>5. CASE j = i
        BY <1>8, <4>1, <4>2, <4>5
      <4>6. CASE j > i
        <5>1. j - 1 \in 0 .. x.n_keys - 1 /\ M[x_id].keys[j] = x.keys[j - 1]
          BY <4>1, <4>6
        <5> QED BY <4>2, <4>3, <5>1
      <4> QED BY <4>1, <4>4, <4>5, <4>6
    <3> QED BY <1>10, <2>3, <3>1
  <2>4. CASE p \notin {c, z, x_id}
    <3>1. p \in live /\ p \in NodeIds /\ M[p] = N[p] /\ after[p] = allowed[p]
      BY <1>3, <1>5, <1>11, <2>4
    <3> QED BY <1>4, <3>1
  <2> QED BY <2>1, <2>2, <2>3, <2>4
<1>17. Parts(M, live \cup {z}, after)
  BY <1>11, <1>12, <1>15, <1>16, Zenon DEF Parts
<1> QED BY <1>17 DEF after, s
LEMMA SplitTree ==
  ASSUME NEW N, NEW M, NEW live, NEW height, NEW allowed, NEW x_id, NEW i, NEW z,
         SplitIn(N, M, live, x_id, i, z), IsTree(N, live, height, allowed),
         NEW c, c = N[x_id].ptrs[i], NEW s, s = N[c].keys[min_degree - 1]
  PROVE  IsTree(M, live \cup {z}, [height EXCEPT ![z] = height[c]], SplitAllowed(allowed, c, z, s))
<1>1. Lowers(N, height) /\ Hangs(N, live)
  BY DEF IsTree
<1>2. Lowers(M, [height EXCEPT ![z] = height[c]])
  BY <1>1, SplitLowers
<1>3. Hangs(M, live \cup {z})
  BY <1>1, SplitHangs
<1>4. Parts(M, live \cup {z}, SplitAllowed(allowed, c, z, s))
  BY SplitParts
<1> QED BY <1>2, <1>3, <1>4, Zenon DEF IsTree
-----------------------------------------------------------------------------
(* The steps keep the tree.                                                *)

Grows(live, height, allowed) == IsTree(nodes', live, height, allowed) /\ OpInTree(live, allowed)'

GrowsTo(live) == \E height, allowed : Grows(live, height, allowed)

LEMMA InitTree ==
  ASSUME Init
  PROVE  TreeInv
<1> DEFINE live == {root_id}
           height == [p \in NodeIds |-> 0]
           allowed == [p \in NodeIds |-> AnyKey]
<1>1. /\ \A p \in NodeIds : nodes[p] = EmptyNode
      /\ op.kind = "none" /\ allocated = {root_id} /\ root_id \in NodeIds
  BY Sizes DEF Init, Idle
<1>2. \A p \in NodeIds : ChildIndices(nodes[p]) = {}
  BY <1>1 DEF ChildIndices, EmptyNode
<1>3. Lowers(nodes, height)
  BY <1>2 DEF Lowers
<1>4. Hangs(nodes, live)
  BY <1>1, <1>2 DEF Hangs
<1>5. EmptyNode.n_keys = 0
  BY DEF EmptyNode
<1>6. Parts(nodes, live, allowed)
  <2>1. \A p \in live : p \in NodeIds /\ nodes[p].n_keys = 0
    BY <1>1, <1>5
  <2>2. \A p \in live : InOrder(nodes[p]) /\ \A i \in 0 .. nodes[p].n_keys - 1 : nodes[p].keys[i] \in allowed[p]
    BY <2>1 DEF InOrder
  <2>3. \A p \in live : ChildIndices(nodes[p]) = {}
    BY <1>2, <2>1
  <2>4. allowed \in [NodeIds -> SUBSET AnyKey] /\ allowed[root_id] = AnyKey
    BY <1>1
  <2> HIDE DEF allowed, live
  <2> QED BY <2>2, <2>3, <2>4 DEF Parts
<1>7. OpInTree(live, allowed)
  BY <1>1 DEF OpInTree
<1> HIDE DEF live, height, allowed
<1> QED BY <1>3, <1>4, <1>6, <1>7 DEF TreeInv, IsTree

\* A step that leaves the nodes alone.
LEMMA NodesStay ==
  ASSUME NEW live, NEW height, NEW allowed, IsTree(nodes, live, height, allowed), nodes' = nodes,
         OpInTree(live, allowed)'
  PROVE  GrowsTo(live)
<1>1. Grows(live, height, allowed)
  BY DEF Grows
<1> QED BY <1>1, Zenon DEF GrowsTo

\* A leaf that is changed in order, with keys that may be there.
LEMMA LeafChanged ==
  ASSUME NEW N \in [NodeIds -> NodeType], NEW live, NEW height, NEW allowed,
         IsTree(N, live, height, allowed),
         NEW p \in live, NEW new, N[p].is_leaf, new.is_leaf, InOrder(new),
         \A i \in 0 .. new.n_keys - 1 : new.keys[i] \in allowed[p]
  PROVE  IsTree([N EXCEPT ![p] = new], live, height, allowed)
<1> DEFINE M == [N EXCEPT ![p] = new]
<1>1. live \in SUBSET NodeIds
  BY DEF IsTree, Hangs
<1>2. M[p] = new /\ \A q \in NodeIds \ {p} : M[q] = N[q]
  BY <1>1
<1> HIDE DEF M
<1>3. ASSUME NEW q \in NodeIds PROVE /\ ChildIndices(M[q]) = ChildIndices(N[q])
                                    /\ \A i \in ChildIndices(N[q]) : M[q] = N[q]
  BY <1>2 DEF ChildIndices
<1>4. Lowers(M, height)
  BY <1>3 DEF IsTree, Lowers
<1>5. Hangs(M, live)
  <2>1. /\ \A q \in live : \A i \in ChildIndices(N[q]) : N[q].ptrs[i] \in live
        /\ \A q, r \in live : \A i \in ChildIndices(N[q]) : \A j \in ChildIndices(N[r]) :
             N[q].ptrs[i] = N[r].ptrs[j] => q = r /\ i = j
        /\ \A r \in live \ {root_id} : \E q \in live : \E i \in ChildIndices(N[q]) : N[q].ptrs[i] = r
        /\ root_id \in live
    BY DEF IsTree, Hangs
  <2>2. \A q \in live : \A i \in ChildIndices(M[q]) : i \in ChildIndices(N[q]) /\ M[q].ptrs[i] = N[q].ptrs[i]
    BY <1>1, <1>3
  <2>3. \A q \in live : \A i \in ChildIndices(N[q]) : i \in ChildIndices(M[q]) /\ M[q].ptrs[i] = N[q].ptrs[i]
    BY <1>1, <1>3
  <2>4. \A q \in live : \A i \in ChildIndices(M[q]) : M[q].ptrs[i] \in live
    BY <2>1, <2>2
  <2>5. ASSUME NEW q \in live, NEW r \in live, NEW i \in ChildIndices(M[q]),
               NEW j \in ChildIndices(M[r]), M[q].ptrs[i] = M[r].ptrs[j]
        PROVE  q = r /\ i = j
    <3>1. N[q].ptrs[i] = N[r].ptrs[j] /\ i \in ChildIndices(N[q]) /\ j \in ChildIndices(N[r])
      BY <2>2, <2>5
    <3> QED BY <2>1, <3>1
  <2>6. \A r \in live \ {root_id} : \E q \in live : \E i \in ChildIndices(M[q]) : M[q].ptrs[i] = r
    BY <2>1, <2>3
  <2> QED BY <1>1, <2>1, <2>4, <2>5, <2>6, Zenon DEF Hangs
<1>6. Parts(M, live, allowed)
  <2>1. \A q \in live : \A i \in ChildIndices(M[q]) :
          allowed[M[q].ptrs[i]] = {key \in allowed[q] : Between(M[q], i, key)}
    BY <1>1, <1>3 DEF IsTree, Parts
  <2>2. \A q \in live :
          InOrder(M[q]) /\ \A i \in 0 .. M[q].n_keys - 1 : M[q].keys[i] \in allowed[q]
    <3> SUFFICES ASSUME NEW q \in live
                 PROVE  InOrder(M[q]) /\ \A i \in 0 .. M[q].n_keys - 1 : M[q].keys[i] \in allowed[q]
      OBVIOUS
    <3>1. CASE q = p
      BY <1>2, <3>1
    <3>2. CASE q # p
      <4>1. M[q] = N[q]
        BY <1>1, <1>2, <3>2
      <4> QED BY <4>1 DEF IsTree, Parts
    <3> QED BY <3>1, <3>2
  <2> QED BY <2>1, <2>2, Zenon DEF IsTree, Parts
<1> QED BY <1>4, <1>5, <1>6, Zenon DEF IsTree, M

\* An entry goes where it keeps the order.
LEMMA WithEntryOrder ==
  ASSUME NEW x \in NodeType, ~Full(x), InOrder(x), NEW key \in Keys, NEW ref
  PROVE  LET new == WithEntry(x, key, ref)
         IN  /\ new.n_keys = x.n_keys + 1
             /\ InOrder(new)
             /\ \A i \in 0 .. new.n_keys - 1 :
                  new.keys[i] = key \/ \E j \in 0 .. x.n_keys - 1 : new.keys[i] = x.keys[j]
<1> DEFINE n == x.n_keys
           k == UpperIndex(x, key)
           keys == Opened(x.keys, k, n, key)
           new == WithEntry(x, key, ref)
<1>1. /\ n \in Nat /\ n <= 2 * min_degree - 2 /\ x.keys \in [KeySlots -> AnyKey]
      /\ \A j \in 0 .. n - 1 : x.keys[j] \in Int
  BY NodeFields, KeysAreNumbers, Sizes DEF Full
<1>2. /\ k \in 0 .. n /\ (k = 0 \/ key >= x.keys[k - 1])
      /\ \A j \in k .. n - 1 : key < x.keys[j]
  BY UpperIndexFacts
<1>3. new.n_keys = n + 1 /\ new.keys = keys
  <2>1. DOMAIN x = {"is_leaf", "n_keys", "keys", "ptrs"}
    BY DEF NodeType
  <2> HIDE DEF keys
  <2> QED BY <2>1 DEF WithEntry, keys
<1> HIDE DEF k
<1>4. \A j \in 0 .. n : keys[j] = IF j < k THEN x.keys[j] ELSE IF j = k THEN key ELSE x.keys[j - 1]
  <2>1. DOMAIN x.keys = 0 .. 2 * min_degree - 2
    BY <1>1 DEF KeySlots
  <2>2. \A j \in 0 .. n : j \in DOMAIN x.keys
    BY <1>1, <2>1, Sizes
  <2> QED BY <1>1, <1>2, <2>2 DEF Opened
<1> HIDE DEF n, keys, new
<1>5. key \in Int
  BY Sizes
<1>6. \A i, j \in 0 .. n - 1 : i <= j => x.keys[i] <= x.keys[j]
  BY DEF InOrder, n
<1>7. ASSUME NEW l \in 0 .. n, l < k PROVE x.keys[l] <= key
  <2>1. l \in 0 .. n - 1 /\ k - 1 \in 0 .. n - 1 /\ l <= k - 1 /\ k # 0
    BY <1>1, <1>2, <1>7
  <2>2. x.keys[l] <= x.keys[k - 1] /\ key >= x.keys[k - 1] /\ x.keys[l] \in Int /\ x.keys[k - 1] \in Int
    BY <1>1, <1>2, <1>6, <2>1
  <2> QED BY <1>5, <2>2
<1>8. ASSUME NEW i \in 0 .. n, NEW j \in 0 .. n, i <= j PROVE keys[i] <= keys[j]
  <2>1. CASE j < k
    <3>1. i < k /\ i \in 0 .. n - 1 /\ j \in 0 .. n - 1
      BY <1>1, <1>2, <1>8, <2>1
    <3> QED BY <1>4, <1>6, <1>8, <2>1, <3>1
  <2>2. CASE j = k
    <3>1. keys[j] = key
      BY <1>4, <2>2
    <3>2. i < k \/ i = k
      BY <1>1, <1>2, <1>8, <2>2
    <3> QED BY <1>4, <1>5, <1>7, <3>1, <3>2
  <2>3. CASE j > k
    <3>1. keys[j] = x.keys[j - 1] /\ j - 1 \in k .. n - 1 /\ j - 1 \in 0 .. n - 1 /\ x.keys[j - 1] \in Int
      <4>1. ~(j < k) /\ j # k /\ j - 1 \in k .. n - 1 /\ j - 1 \in 0 .. n - 1
        BY <1>1, <1>2, <2>3
      <4> QED BY <1>1, <1>4, <4>1
    <3>2. key < x.keys[j - 1]
      BY <1>2, <3>1 DEF n
    <3>3. CASE i < k
      <4>1. keys[i] = x.keys[i] /\ x.keys[i] <= key /\ x.keys[i] \in Int
        <5>1. i \in 0 .. n - 1
          BY <1>1, <1>2, <3>3
        <5> QED BY <1>1, <1>4, <1>7, <3>3, <5>1
      <4> QED BY <1>5, <3>1, <3>2, <4>1
    <3>4. CASE i = k
      <4>1. keys[i] = key
        BY <1>4, <3>4
      <4> QED BY <1>5, <3>1, <3>2, <4>1
    <3>5. CASE i > k
      <4>1. ~(i < k) /\ i # k /\ i - 1 \in 0 .. n - 1 /\ i - 1 <= j - 1
        BY <1>1, <1>2, <1>8, <3>5
      <4> QED BY <1>4, <1>6, <3>1, <4>1
    <3> QED BY <1>1, <1>2, <3>3, <3>4, <3>5
  <2> QED BY <1>1, <1>2, <2>1, <2>2, <2>3
<1>9. InOrder(new)
  <2>1. (n + 1) - 1 = n
    BY <1>1
  <2> QED BY <1>3, <1>8, <2>1 DEF InOrder
<1>10. ASSUME NEW i \in 0 .. n PROVE keys[i] = key \/ \E j \in 0 .. n - 1 : keys[i] = x.keys[j]
  <2>1. i < k => i \in 0 .. n - 1
    BY <1>1, <1>2
  <2>2. i > k => i - 1 \in 0 .. n - 1
    BY <1>1, <1>2
  <2>3. i < k \/ i = k \/ i > k
    BY <1>1, <1>2
  <2> QED BY <1>1, <1>2, <1>4, <2>1, <2>2, <2>3
<1>11. new.n_keys - 1 = n
  BY <1>1, <1>3
<1> QED BY <1>3, <1>9, <1>10, <1>11 DEF n, new

LEMMA WithoutEntryOrder ==
  ASSUME NEW x \in NodeType, InOrder(x), NEW i \in KeySlots, i <= x.n_keys, x.n_keys > 0
  PROVE  LET new == WithoutEntry(x, i)
         IN  /\ new.n_keys = x.n_keys - 1
             /\ InOrder(new)
             /\ \A j \in 0 .. new.n_keys - 1 :
                  \E k \in 0 .. x.n_keys - 1 : new.keys[j] = x.keys[k]
<1> DEFINE n == x.n_keys
           last == IF i < n - 1 THEN n - 1 ELSE i
           keys == [j \in KeySlots |-> IF j \in i .. last - 1 THEN x.keys[j + 1] ELSE x.keys[j]]
           new == WithoutEntry(x, i)
<1>1. n \in Nat /\ n <= 2 * min_degree - 1 /\ n > 0 /\ i \in Nat /\ i <= n
  BY NodeFields, Sizes DEF KeySlots
<1>2. new.n_keys = n - 1 /\ new.keys = keys
  <2>1. DOMAIN x = {"is_leaf", "n_keys", "keys", "ptrs"}
    BY DEF NodeType
  <2> HIDE DEF keys
  <2> QED BY <2>1 DEF WithoutEntry, keys
<1> DEFINE from(j) == IF j < i THEN j ELSE j + 1
<1>3. \A j \in 0 .. n - 2 : keys[j] = x.keys[from(j)] /\ from(j) \in 0 .. n - 1
  <2> SUFFICES ASSUME NEW j \in 0 .. n - 2 PROVE keys[j] = x.keys[from(j)] /\ from(j) \in 0 .. n - 1
    OBVIOUS
  <2>1. j \in KeySlots
    BY <1>1, Sizes DEF KeySlots
  <2>2. j \in i .. last - 1 <=> ~(j < i)
    BY <1>1
  <2>3. from(j) \in 0 .. n - 1
    BY <1>1
  <2> HIDE DEF last, n
  <2> QED BY <2>1, <2>2, <2>3
<1>4. \A j, k \in 0 .. n - 2 : j <= k => from(j) <= from(k)
  BY <1>1
<1>5. \A j, k \in 0 .. n - 1 : j <= k => x.keys[j] <= x.keys[k]
  BY DEF InOrder
<1> HIDE DEF keys, new, n, from
<1>6. (n - 1) - 1 = n - 2
  BY <1>1
<1>7. InOrder(new)
  BY <1>2, <1>3, <1>4, <1>5, <1>6 DEF InOrder
<1>8. \A j \in 0 .. new.n_keys - 1 : \E k \in 0 .. n - 1 : new.keys[j] = x.keys[k]
  BY <1>2, <1>3, <1>6
<1> QED BY <1>2, <1>7, <1>8 DEF n, new
LEMMA BeginTree ==
  ASSUME TypeInv, NEW live, NEW height, NEW allowed,
         IsTree(nodes, live, height, allowed), OpInTree(live, allowed),
         NEW key \in Keys, BeginInsert(key) \/ BeginRemove(key)
  PROVE  GrowsTo(live)
<1>1. IsTree(nodes, live, height, allowed) /\ OpInTree(live, allowed)
  OBVIOUS
<1>2. /\ nodes' = nodes /\ allocated' = allocated
      /\ op'.kind = "remove" \/ (op'.key = key /\ op'.copy = NULL_PAGE)
      /\ op'.kind \in {"insert", "remove", "split_root"}
      /\ op'.at = root_id
  <2>1. CASE BeginInsert(key)
    BY <2>1 DEF BeginInsert
  <2>2. CASE BeginRemove(key)
    BY <2>2 DEF BeginRemove
  <2> QED BY <2>1, <2>2
<1>3. root_id \in live /\ live \in SUBSET allocated /\ key \in allowed[root_id]
  BY <1>1, Sizes DEF IsTree, Hangs, Parts, OpInTree
<1>4. OpInTree(live, allowed)'
  BY <1>2, <1>3 DEF OpInTree
<1> QED BY <1>1, <1>2, <1>4, NodesStay

LEMMA DownTree ==
  ASSUME TypeInv, NEW live, NEW height, NEW allowed,
         IsTree(nodes, live, height, allowed), OpInTree(live, allowed), InsertBelow \/ RemoveBelow
  PROVE  GrowsTo(live)
<1>1. IsTree(nodes, live, height, allowed) /\ OpInTree(live, allowed)
  OBVIOUS
<1> DEFINE x == nodes[op.at]
<1>2. PICK i :
        /\ i \in ChildIndices(x)
        /\ op.kind = "insert" => \A s \in {op.key} : Between(x, i, s)
        /\ op' = [op EXCEPT !.at = x.ptrs[i]]
        /\ op.kind \in {"insert", "remove"}
        /\ nodes' = nodes /\ allocated' = allocated
  <2>1. CASE InsertBelow
    <3> DEFINE i == UpperIndex(x, op.key)
    <3>1. /\ op.kind = "insert" /\ ~x.is_leaf /\ op' = [op EXCEPT !.at = x.ptrs[i]]
          /\ nodes' = nodes /\ allocated' = allocated
      BY <2>1 DEF InsertBelow
    <3>2. op.key \in Keys /\ x \in NodeType
      BY <3>1, OpKinds DEF TypeInv, OpInv, InsertType, NodesInv
    <3> HIDE DEF x
    <3>3. /\ i \in 0 .. x.n_keys /\ (i = 0 \/ op.key >= x.keys[i - 1])
          /\ \A j \in i .. x.n_keys - 1 : op.key < x.keys[j]
      BY <3>2, UpperIndexFacts
    <3>4. \A j \in 0 .. x.n_keys - 1 : x.keys[j] \in Int
      BY <3>2, KeysAreNumbers
    <3>5. x.n_keys \in Nat /\ op.key \in Int
      BY <3>2, NodeFields, Sizes
    <3> HIDE DEF i
    <3>6. Between(x, i, op.key)
      <4>1. i > 0 => x.keys[i - 1] <= op.key
        <5>1. i > 0 => i - 1 \in 0 .. x.n_keys - 1
          BY <3>3, <3>5
        <5> QED BY <3>3, <3>4, <3>5, <5>1
      <4>2. i < x.n_keys => op.key <= x.keys[i]
        <5>1. i < x.n_keys => i \in i .. x.n_keys - 1 /\ i \in 0 .. x.n_keys - 1
          BY <3>3, <3>5
        <5> QED BY <3>3, <3>4, <3>5, <5>1
      <4> QED BY <4>1, <4>2 DEF Between
    <3>7. i \in ChildIndices(x)
      BY <3>1, <3>3 DEF ChildIndices, i
    <3> QED BY <3>1, <3>6, <3>7 DEF i
  <2>2. CASE RemoveBelow
    <3> DEFINE i == LowerIndex(x, op.key)
    <3>1. /\ op.kind = "remove" /\ ~x.is_leaf /\ op' = [op EXCEPT !.at = x.ptrs[i]]
          /\ nodes' = nodes /\ allocated' = allocated
      BY <2>2 DEF RemoveBelow
    <3>2. op.key \in Keys /\ x \in NodeType
      BY <3>1, OpKinds DEF TypeInv, OpInv, RemoveType, NodesInv
    <3>3. i \in ChildIndices(x)
      <4> HIDE DEF x
      <4> QED BY <3>1, <3>2, LowerIndexFacts DEF ChildIndices
    <3> QED BY <3>1, <3>3
  <2> QED BY <2>1, <2>2
<1> DEFINE child == x.ptrs[i]
<1>3. op.at \in live /\ live \in SUBSET allocated /\ (op.kind = "insert" => op.key \in allowed[op.at])
  BY <1>1, <1>2 DEF OpInTree
<1>4. child \in live /\ allowed[child] = {key \in allowed[op.at] : Between(x, i, key)}
  BY <1>1, <1>2, <1>3 DEF IsTree, Hangs, Parts
<1> HIDE DEF child
<1>5. /\ op'.kind = op.kind /\ op'.at = child
      /\ op.kind = "insert" => op'.key = op.key
  <2>1. op \in InsertType \/ op \in RemoveType
    BY <1>2, OpKinds DEF TypeInv
  <2>2. op' = [op EXCEPT !.at = child]
    BY <1>2 DEF child
  <2>3. CASE op \in InsertType
    BY <2>2, <2>3 DEF InsertType
  <2>4. CASE op \in RemoveType
    BY <2>2, <2>4 DEF RemoveType
  <2> QED BY <2>1, <2>3, <2>4
<1>6. op.kind = "insert" => op.key \in allowed[child]
  BY <1>2, <1>3, <1>4
<1>7. OpInTree(live, allowed)'
  BY <1>2, <1>3, <1>4, <1>5, <1>6 DEF OpInTree
<1> QED BY <1>1, <1>2, <1>7, NodesStay

LEMMA LoadFailsTree ==
  ASSUME TypeInv, NEW live, NEW height, NEW allowed,
         IsTree(nodes, live, height, allowed), OpInTree(live, allowed), LoadFails
  PROVE  GrowsTo(live)
<1>1. IsTree(nodes, live, height, allowed) /\ OpInTree(live, allowed)
  OBVIOUS
<1>2. nodes' = nodes /\ allocated' = allocated /\ op'.kind = "none"
  BY DEF LoadFails, Idle
<1>3. OpInTree(live, allowed)'
  BY <1>1, <1>2 DEF OpInTree
<1> QED BY <1>1, <1>2, <1>3, NodesStay

LEMMA InsertInLeafTree ==
  ASSUME TypeInv, NEW live, NEW height, NEW allowed,
         IsTree(nodes, live, height, allowed), OpInTree(live, allowed), InsertInLeaf
  PROVE  GrowsTo(live)
<1>1. IsTree(nodes, live, height, allowed) /\ OpInTree(live, allowed)
  OBVIOUS
<1>2. /\ op.kind = "insert" /\ nodes[op.at].is_leaf
      /\ nodes' = [nodes EXCEPT ![op.at] = WithEntry(@, op.key, op.ref)]
      /\ op' = Idle /\ allocated' = allocated
  BY DEF InsertInLeaf
<1>3. op \in InsertType /\ op.at \in NodeIds /\ op.key \in Keys /\ op.ref \in AnyPtr /\ ~Full(nodes[op.at])
  BY <1>2, OpKinds, Sizes DEF TypeInv, OpInv, InsertType
<1> DEFINE x == nodes[op.at]
           new == WithEntry(x, op.key, op.ref)
<1>4. nodes \in [NodeIds -> NodeType] /\ x \in NodeType
  BY <1>3 DEF TypeInv, NodesInv
<1>5. /\ op.at \in live /\ op.key \in allowed[op.at] /\ InOrder(x)
      /\ \A j \in 0 .. x.n_keys - 1 : x.keys[j] \in allowed[op.at]
  BY <1>1, <1>2 DEF OpInTree, IsTree, Parts
<1>6. new.is_leaf
  BY <1>2, <1>3, <1>4, WithEntryType
<1> HIDE DEF x
<1>7. InOrder(new) /\ \A i \in 0 .. new.n_keys - 1 : new.keys[i] \in allowed[op.at]
  <2>1. /\ InOrder(new)
        /\ \A i \in 0 .. new.n_keys - 1 :
             new.keys[i] = op.key \/ \E j \in 0 .. x.n_keys - 1 : new.keys[i] = x.keys[j]
    BY <1>3, <1>4, <1>5, WithEntryOrder DEF x
  <2> HIDE DEF new
  <2> QED BY <1>5, <2>1
<1>8. nodes' = [nodes EXCEPT ![op.at] = new]
  BY <1>2 DEF x
<1> HIDE DEF new
<1>9. IsTree(nodes', live, height, allowed)
  <2>1. IsTree([nodes EXCEPT ![op.at] = new], live, height, allowed)
    BY <1>1, <1>2, <1>4, <1>5, <1>6, <1>7, LeafChanged
  <2> QED BY <1>8, <2>1
<1>10. OpInTree(live, allowed)'
  BY <1>1, <1>2 DEF OpInTree, Idle
<1>11. Grows(live, height, allowed)
  BY <1>9, <1>10, Zenon DEF Grows
<1> QED BY <1>11, Zenon DEF GrowsTo

LEMMA RemoveFromLeafTree ==
  ASSUME TypeInv, NEW live, NEW height, NEW allowed,
         IsTree(nodes, live, height, allowed), OpInTree(live, allowed), RemoveFromLeaf
  PROVE  GrowsTo(live)
<1>1. IsTree(nodes, live, height, allowed) /\ OpInTree(live, allowed)
  OBVIOUS
<1> DEFINE x == nodes[op.at]
           i == LowerIndex(x, op.key)
           new == WithoutEntry(x, i)
<1>2. /\ op.kind = "remove" /\ x.is_leaf /\ op' = Idle /\ allocated' = allocated /\ i \in KeySlots
      /\ \/ nodes' = nodes
         \/ x.n_keys > 0 /\ nodes' = [nodes EXCEPT ![op.at] = new]
  BY DEF RemoveFromLeaf
<1>3. OpInTree(live, allowed)'
  BY <1>1, <1>2 DEF OpInTree, Idle
<1>4. CASE nodes' = nodes
  BY <1>1, <1>3, <1>4, NodesStay
<1>5. CASE x.n_keys > 0 /\ nodes' = [nodes EXCEPT ![op.at] = new]
  <2>1. op \in RemoveType /\ op.at \in NodeIds /\ op.key \in Keys
    BY <1>2, OpKinds DEF TypeInv, RemoveType
  <2>2. nodes \in [NodeIds -> NodeType] /\ x \in NodeType
    BY <2>1 DEF TypeInv, NodesInv
  <2>3. /\ op.at \in live /\ InOrder(x)
        /\ \A j \in 0 .. x.n_keys - 1 : x.keys[j] \in allowed[op.at]
    BY <1>1, <1>2 DEF OpInTree, IsTree, Parts
  <2>4. i <= x.n_keys
    <3> HIDE DEF x
    <3>1. LowerIndex(x, op.key) \in 0 .. x.n_keys
      BY <2>1, <2>2, LowerIndexFacts
    <3> QED BY <2>2, <3>1, NodeFields
  <2>5. new.is_leaf /\ InOrder(new) /\ \A j \in 0 .. new.n_keys - 1 : new.keys[j] \in allowed[op.at]
    <3> HIDE DEF x, i
    <3>1. new.is_leaf
      BY <1>2, <1>5, <2>2, <2>4, WithoutEntryType
    <3>2. /\ InOrder(new)
          /\ \A j \in 0 .. new.n_keys - 1 : \E k \in 0 .. x.n_keys - 1 : new.keys[j] = x.keys[k]
      BY <1>2, <1>5, <2>2, <2>3, <2>4, WithoutEntryOrder
    <3> HIDE DEF new
    <3> QED BY <2>3, <3>1, <3>2
  <2>6. x.is_leaf
    BY <1>2
  <2> HIDE DEF new
  <2>7. IsTree([nodes EXCEPT ![op.at] = new], live, height, allowed)
    BY <1>1, <2>2, <2>3, <2>5, <2>6, LeafChanged
  <2>8. IsTree(nodes', live, height, allowed)
    BY <1>5, <2>7
  <2>9. Grows(live, height, allowed)
    BY <1>3, <2>8, Zenon DEF Grows
  <2> QED BY <2>9, Zenon DEF GrowsTo
<1> QED BY <1>2, <1>4, <1>5

LEMMA CopyRootTree ==
  ASSUME TypeInv, NEW live, NEW height, NEW allowed,
         IsTree(nodes, live, height, allowed), OpInTree(live, allowed), CopyRoot
  PROVE  GrowsTo(live)
<1>1. IsTree(nodes, live, height, allowed) /\ OpInTree(live, allowed)
  OBVIOUS
<1>2. PICK s \in NodeIds :
        /\ s \notin allocated /\ allocated' = allocated \cup {s}
        /\ nodes' = [nodes EXCEPT ![s] = nodes[root_id]]
        /\ op' = [op EXCEPT !.copy = s]
  BY DEF CopyRoot, IsNewPage
<1>3. /\ nodes \in [NodeIds -> NodeType] /\ root_id \in allocated /\ root_id \in NodeIds
      /\ root_id # s /\ live \in SUBSET allocated
      /\ \A p \in NodeIds : \A i \in ChildIndices(nodes[p]) : nodes[p].ptrs[i] \in allocated
  BY <1>1, <1>2, Sizes DEF TypeInv, NodesInv, CountInv, OpInTree, ChildrenIn, ChildIndices
<1>4. /\ nodes'[s] = nodes[root_id] /\ \A p \in NodeIds \ {s} : nodes'[p] = nodes[p]
  BY <1>2, <1>3
<1>5. live \in SUBSET NodeIds /\ s \notin live /\ \A p \in live : nodes'[p] = nodes[p]
  BY <1>1, <1>2, <1>3, <1>4 DEF IsTree, Hangs
<1> DEFINE after == [height EXCEPT ![s] = height[root_id]]
<1>6. Lowers(nodes', after)
  <2>1. /\ height \in [NodeIds -> Nat]
        /\ \A p \in NodeIds : \A i \in ChildIndices(nodes[p]) :
             nodes[p].ptrs[i] \in NodeIds \ {root_id} /\ height[nodes[p].ptrs[i]] < height[p]
    BY <1>1 DEF IsTree, Lowers
  <2>2. /\ after \in [NodeIds -> Nat] /\ after[s] = height[root_id]
        /\ \A p \in NodeIds \ {s} : after[p] = height[p]
    BY <1>3, <2>1
  <2> HIDE DEF after
  <2>3. ASSUME NEW p \in NodeIds, NEW i \in ChildIndices(nodes'[p])
        PROVE  nodes'[p].ptrs[i] \in NodeIds \ {root_id} /\ after[nodes'[p].ptrs[i]] < after[p]
    <3> DEFINE q == IF p = s THEN root_id ELSE p
               r == nodes'[p].ptrs[i]
    <3>1. q \in NodeIds /\ nodes'[p] = nodes[q] /\ after[p] = height[q]
      BY <1>3, <1>4, <2>2
    <3> HIDE DEF q
    <3>2. i \in ChildIndices(nodes[q]) /\ r = nodes[q].ptrs[i]
      BY <2>3, <3>1
    <3> HIDE DEF r
    <3>3. r \in NodeIds \ {root_id} /\ height[r] < height[q] /\ r \in allocated
      BY <1>3, <2>1, <3>1, <3>2
    <3>4. after[r] = height[r]
      BY <1>2, <2>2, <3>3
    <3> QED BY <3>1, <3>3, <3>4 DEF r
  <2> QED BY <2>2, <2>3 DEF Lowers
<1> HIDE DEF after
<1>7. Hangs(nodes', live)
  BY <1>1, <1>5 DEF IsTree, Hangs
<1>8. Parts(nodes', live, allowed)
  BY <1>1, <1>5 DEF IsTree, Parts
<1>9. OpInTree(live, allowed)'
  <2>1. op \in InsertType /\ op.kind = "split_root"
    BY OpKinds DEF CopyRoot, TypeInv
  <2>2. op'.kind = "split_root" /\ op'.copy = s
    BY <1>2, <2>1 DEF InsertType
  <2>3. ASSUME NEW p \in NodeIds, NEW i \in ChildIndices(nodes'[p]) PROVE nodes'[p].ptrs[i] # s
    <3> DEFINE q == IF p = s THEN root_id ELSE p
    <3>1. q \in NodeIds /\ nodes'[p] = nodes[q]
      BY <1>3, <1>4
    <3> HIDE DEF q
    <3> QED BY <1>2, <1>3, <2>3, <3>1
  <2>4. live \in SUBSET allocated'
    BY <1>2, <1>3
  <2> QED BY <1>5, <2>2, <2>3, <2>4 DEF OpInTree
<1>10. Grows(live, after, allowed)
  BY <1>6, <1>7, <1>8, <1>9, Zenon DEF Grows, IsTree
<1> QED BY <1>10, Zenon DEF GrowsTo
LEMMA SplitAndInsertBelowTree ==
  ASSUME TypeInv, NEW live, NEW height, NEW allowed,
         IsTree(nodes, live, height, allowed), OpInTree(live, allowed), SplitAndInsertBelow
  PROVE  \E z \in NodeIds :
           /\ SplitIn(nodes, nodes', live, op.at, UpperIndex(nodes[op.at], op.key), z)
           /\ GrowsTo(live \cup {z})
<1>1. IsTree(nodes, live, height, allowed) /\ OpInTree(live, allowed)
  OBVIOUS
<1> DEFINE x == nodes[op.at]
           i == UpperIndex(x, op.key)
           c == x.ptrs[i]
           y == nodes[c]
           s == y.keys[min_degree - 1]
           w == nodes'[op.at]
           k == Side(op.key, w.keys[i], i)
           child == w.ptrs[k]
<1>2. PICK z \in NodeIds :
        /\ z \notin allocated /\ allocated' = allocated \cup {z}
        /\ nodes' = SplitChild(x, op.at, i, z)
  BY DEF SplitAndInsertBelow, IsNewPage
<1>3. /\ op.kind = "insert" /\ ~x.is_leaf /\ Full(y) /\ op' = [op EXCEPT !.at = child]
  BY DEF SplitAndInsertBelow
<1>4. op \in InsertType /\ op.at \in NodeIds /\ op.key \in Keys
  BY <1>3, OpKinds DEF TypeInv, InsertType
<1>5. CanSplit(x, op.at, i, z)
  BY <1>2, <1>3, ChildCanSplit
<1>6. /\ nodes' \in [NodeIds -> NodeType] /\ nodes \in [NodeIds -> NodeType]
      /\ nodes'[c] = LeftHalf(y, z) /\ nodes'[z] = RightHalf(y)
      /\ nodes'[op.at] = WithChild(x, i, s, z)
      /\ \A p \in NodeIds \ {c, op.at, z} : nodes'[p] = nodes[p]
  BY <1>2, <1>5, SplitPages DEF TypeInv, NodesInv
<1>7. op.at \in live /\ op.key \in allowed[op.at] /\ live \in SUBSET allocated
  BY <1>1, <1>3 DEF OpInTree
<1>8. /\ z \notin live /\ z # root_id
      /\ \A p \in NodeIds : \A j \in ChildIndices(nodes[p]) : nodes[p].ptrs[j] # z
  BY <1>2, <1>7 DEF TypeInv, NodesInv, CountInv, ChildrenIn, ChildIndices
<1>9. SplitIn(nodes, nodes', live, op.at, i, z)
  BY <1>3, <1>5, <1>6, <1>7, <1>8 DEF SplitIn, CanSplit
<1> DEFINE height2 == [height EXCEPT ![z] = height[c]]
           allowed2 == SplitAllowed(allowed, c, z, s)
<1>10. IsTree(nodes', live \cup {z}, height2, allowed2)
  BY <1>1, <1>9, SplitTree
<1>11. /\ c \in NodeIds /\ c \in live /\ c # z /\ c # op.at /\ op.at # z
       /\ Halves(x, y, s, i, nodes'[c], nodes'[z], w, z) /\ x \in NodeType /\ y \in NodeType
  BY <1>1, <1>9, SplitHalves DEF IsTree
<1>12. i \in 0 .. x.n_keys /\ (i = 0 \/ op.key >= x.keys[i - 1]) /\ \A j \in i .. x.n_keys - 1 : op.key < x.keys[j]
  <2> HIDE DEF x
  <2> QED BY <1>4, <1>11, UpperIndexFacts
<1>13. allowed[c] = {key \in allowed[op.at] : Between(x, i, key)} /\ allowed \in [NodeIds -> SUBSET AnyKey]
  BY <1>1, <1>3, <1>7, <1>12 DEF IsTree, Parts, ChildIndices
<1>14. s \in Int /\ op.key \in Int
  <2>1. min_degree - 1 \in 0 .. 2 * min_degree - 2
    BY Sizes
  <2> HIDE DEF y
  <2> QED BY <1>4, <1>11, <2>1, KeysAreNumbers, Sizes
<1> HIDE DEF i, x, c, y, s, w
<1>15. Between(x, i, op.key)
  <2>1. \A j \in 0 .. x.n_keys - 1 : x.keys[j] \in Int
    BY <1>11, KeysAreNumbers
  <2>2. x.n_keys \in Nat
    BY <1>11, NodeFields
  <2>3. i > 0 => x.keys[i - 1] <= op.key
    <3>1. i > 0 => i - 1 \in 0 .. x.n_keys - 1
      BY <1>12, <2>2
    <3> QED BY <1>12, <1>14, <2>1, <3>1
  <2>4. i < x.n_keys => op.key <= x.keys[i]
    <3>1. i < x.n_keys => i \in i .. x.n_keys - 1 /\ i \in 0 .. x.n_keys - 1
      BY <1>12, <2>2
    <3> QED BY <1>12, <1>14, <2>1, <3>1
  <2> QED BY <2>3, <2>4 DEF Between
<1>16. op.key \in allowed[c] /\ op.key \in AnyKey
  BY <1>4, <1>7, <1>13, <1>15, Sizes
<1>17. /\ w.keys[i] = s /\ w.ptrs[i] = c /\ w.ptrs[i + 1] = z
  BY <1>11, <1>12 DEF Halves, c
<1>18. /\ allowed2[c] = {key \in allowed[c] : key <= s}
       /\ allowed2[z] = {key \in allowed[c] : s <= key}
  BY <1>11, <1>13 DEF SplitAllowed
<1>19. child \in live \cup {z} /\ op.key \in allowed2[child]
  <2>1. CASE op.key > s
    <3>1. child = z
      BY <1>17, <2>1 DEF Side
    <3> QED BY <1>14, <1>16, <1>18, <2>1, <3>1
  <2>2. CASE ~(op.key > s)
    <3>1. child = c
      BY <1>17, <2>2 DEF Side
    <3> QED BY <1>11, <1>14, <1>16, <1>18, <2>2, <3>1
  <2> QED BY <2>1, <2>2
<1> HIDE DEF child, allowed2, height2
<1>20. op'.kind = "insert" /\ op'.at = child /\ op'.key = op.key
  BY <1>3, <1>4 DEF InsertType
<1>21. PICK low : low = height2
  OBVIOUS
<1>22. PICK parts : parts = allowed2
  OBVIOUS
<1>23. op'.key \in parts[op'.at] /\ op'.at \in live \cup {z}
  BY <1>19, <1>20, <1>22
<1>24. OpInTree(live \cup {z}, parts)'
  <2>1. live \cup {z} \in SUBSET allocated'
    BY <1>2, <1>7
  <2> QED BY <1>20, <1>23, <2>1 DEF OpInTree
<1>25. Grows(live \cup {z}, low, parts)
  BY <1>10, <1>21, <1>22, <1>24 DEF Grows
<1>26. GrowsTo(live \cup {z})
  BY <1>25, Zenon DEF GrowsTo
<1> QED BY <1>9, <1>26, Zenon DEF i, x

\* The nodes with an empty root above the copy of the old one.
WithNewRoot == [nodes EXCEPT ![root_id] = NewRoot]

LEMMA NewRootTree ==
  ASSUME TypeInv, NEW live, NEW height, NEW allowed,
         IsTree(nodes, live, height, allowed), OpInTree(live, allowed),
         op.kind = "split_root", op.copy # NULL_PAGE
  PROVE  IsTree(WithNewRoot, live \cup {op.copy},
                [height EXCEPT ![op.copy] = height[root_id], ![root_id] = height[root_id] + 1],
                [allowed EXCEPT ![op.copy] = AnyKey])
<1> DEFINE s == op.copy
           N == WithNewRoot
           live2 == live \cup {s}
           height2 == [height EXCEPT ![s] = height[root_id], ![root_id] = height[root_id] + 1]
           allowed2 == [allowed EXCEPT ![s] = AnyKey]
<1>1. /\ s \in allocated /\ s # root_id /\ nodes[s] = nodes[root_id]
      /\ nodes \in [NodeIds -> NodeType] /\ root_id \in NodeIds /\ s \in NodeIds
      /\ allocated \in SUBSET NodeIds
  BY Sizes DEF TypeInv, OpInv, NodesInv
<1>2. /\ s \notin live /\ live \in SUBSET allocated
      /\ \A p \in NodeIds : \A i \in ChildIndices(nodes[p]) : nodes[p].ptrs[i] # s
  BY DEF OpInTree
<1>3. NewRoot \in NodeType /\ ~NewRoot.is_leaf /\ NewRoot.n_keys = 0 /\ NewRoot.ptrs[0] = s
  <2> DEFINE ptrs == [nodes[root_id].ptrs EXCEPT ![0] = s]
             r == nodes[root_id]
  <2>1. NewRoot = [r EXCEPT !.is_leaf = FALSE, !.n_keys = 0, !.ptrs = ptrs]
    BY Zenon DEF NewRoot
  <2>2. r.ptrs \in [PtrSlots -> AnyPtr] /\ s \in AnyPtr /\ 0 \in PtrSlots /\ r \in NodeType
    BY <1>1, NodeFields, Sizes DEF PtrSlots
  <2>3. ptrs \in [PtrSlots -> AnyPtr] /\ ptrs[0] = s
    BY <2>2
  <2>4. 0 \in 0 .. 2 * min_degree - 1
    BY Sizes
  <2> HIDE DEF ptrs, r, s
  <2> QED BY <2>1, <2>2, <2>3, <2>4 DEF NodeType
<1>4. N[root_id] = NewRoot /\ \A p \in NodeIds \ {root_id} : N[p] = nodes[p]
  BY <1>1 DEF WithNewRoot
<1>5. ChildIndices(NewRoot) = {0}
  BY <1>3 DEF ChildIndices
<1> HIDE DEF N, s
\* Every pointer but the one to the copy was there before, the copy's at the root.
<1> DEFINE home(p) == IF p = s THEN root_id ELSE p
<1>6. ASSUME NEW p \in NodeIds \ {root_id}
      PROVE  home(p) \in NodeIds /\ N[p] = nodes[home(p)]
  BY <1>1, <1>4
<1>7. /\ height \in [NodeIds -> Nat]
      /\ \A p \in NodeIds : \A i \in ChildIndices(nodes[p]) :
           nodes[p].ptrs[i] \in NodeIds \ {root_id} /\ height[nodes[p].ptrs[i]] < height[p]
  BY DEF IsTree, Lowers
<1>8. /\ live \in SUBSET NodeIds /\ root_id \in live
      /\ \A p \in live : \A i \in ChildIndices(nodes[p]) : nodes[p].ptrs[i] \in live
      /\ \A p, q \in live : \A i \in ChildIndices(nodes[p]) : \A j \in ChildIndices(nodes[q]) :
           nodes[p].ptrs[i] = nodes[q].ptrs[j] => p = q /\ i = j
      /\ \A q \in live \ {root_id} : \E p \in live : \E i \in ChildIndices(nodes[p]) : nodes[p].ptrs[i] = q
  BY DEF IsTree, Hangs
<1>9. /\ height2 \in [NodeIds -> Nat] /\ height2[s] = height[root_id]
      /\ height2[root_id] = height[root_id] + 1
      /\ \A p \in NodeIds \ {s, root_id} : height2[p] = height[p]
  BY <1>1, <1>7
<1> HIDE DEF height2
<1>10. Lowers(N, height2)
  <2>1. ASSUME NEW p \in NodeIds, NEW i \in ChildIndices(N[p])
        PROVE  N[p].ptrs[i] \in NodeIds \ {root_id} /\ height2[N[p].ptrs[i]] < height2[p]
    <3>1. CASE p = root_id
      <4>1. i = 0 /\ N[p].ptrs[i] = s
        BY <1>3, <1>4, <1>5, <2>1, <3>1
      <4>2. height[root_id] \in Nat
        BY <1>1, <1>7
      <4> QED BY <1>1, <1>9, <3>1, <4>1, <4>2
    <3>2. CASE p # root_id
      <4> DEFINE h == home(p)
                 r == N[p].ptrs[i]
      <4>1. h \in NodeIds /\ N[p] = nodes[h] /\ height2[p] = height[h]
        BY <1>1, <1>6, <1>9, <3>2
      <4> HIDE DEF h
      <4>2. r \in NodeIds \ {root_id} /\ height[r] < height[h] /\ r # s
        BY <1>2, <1>7, <2>1, <4>1
      <4>3. height2[r] = height[r]
        BY <1>9, <4>2
      <4> QED BY <4>1, <4>2, <4>3
    <3> QED BY <3>1, <3>2
  <2> QED BY <1>9, <2>1 DEF Lowers
<1>11. ASSUME NEW p \in live2, p # root_id
       PROVE  home(p) \in live /\ N[p] = nodes[home(p)]
  BY <1>1, <1>6, <1>8, <1>11
<1>12. Hangs(N, live2)
  <2>1. ASSUME NEW p \in live2, NEW i \in ChildIndices(N[p]), p # root_id
        PROVE  /\ N[p].ptrs[i] \in live /\ N[p].ptrs[i] # s
               /\ i \in ChildIndices(nodes[home(p)]) /\ N[p].ptrs[i] = nodes[home(p)].ptrs[i]
    <3> DEFINE h == home(p)
    <3>1. h \in live /\ N[p] = nodes[h]
      BY <1>11, <2>1
    <3> HIDE DEF h
    <3>2. N[p].ptrs[i] \in live /\ N[p].ptrs[i] # s /\ i \in ChildIndices(nodes[h])
      BY <1>2, <1>8, <2>1, <3>1
    <3> QED BY <3>1, <3>2 DEF h
  <2>2. ASSUME NEW i \in ChildIndices(N[root_id]) PROVE i = 0 /\ N[root_id].ptrs[i] = s
    BY <1>3, <1>4, <1>5, <2>2
  <2>3. \A p \in live2 : \A i \in ChildIndices(N[p]) : N[p].ptrs[i] \in live2
    BY <2>1, <2>2
  <2>4. ASSUME NEW p \in live2, NEW q \in live2, NEW i \in ChildIndices(N[p]),
               NEW j \in ChildIndices(N[q]), N[p].ptrs[i] = N[q].ptrs[j]
        PROVE  p = q /\ i = j
    <3>1. CASE p = root_id /\ q = root_id
      BY <2>2, <3>1
    <3>2. CASE p = root_id /\ q # root_id
      BY <2>1, <2>2, <2>4, <3>2
    <3>3. CASE p # root_id /\ q = root_id
      BY <2>1, <2>2, <2>4, <3>3
    <3>4. CASE p # root_id /\ q # root_id
      <4> DEFINE hp == home(p)
                 hq == home(q)
      <4>1. hp \in live /\ i \in ChildIndices(nodes[hp]) /\ N[p].ptrs[i] = nodes[hp].ptrs[i]
        BY <1>11, <2>1, <3>4
      <4>2. hq \in live /\ j \in ChildIndices(nodes[hq]) /\ N[q].ptrs[j] = nodes[hq].ptrs[j]
        BY <1>11, <2>1, <3>4
      <4> HIDE DEF hp, hq
      <4>3. nodes[hp].ptrs[i] = nodes[hq].ptrs[j]
        BY <2>4, <4>1, <4>2
      <4>4. hp = hq /\ i = j
        BY <1>8, <4>1, <4>2, <4>3
      <4> QED BY <3>4, <4>4 DEF hp, hq
    <3> QED BY <3>1, <3>2, <3>3, <3>4
  <2>5. ASSUME NEW q \in live2 \ {root_id}
        PROVE  \E p \in live2 : \E i \in ChildIndices(N[p]) : N[p].ptrs[i] = q
    <3>1. CASE q = s
      <4>1. root_id \in live2 /\ 0 \in ChildIndices(N[root_id]) /\ N[root_id].ptrs[0] = s
        BY <1>3, <1>4, <1>5, <1>8
      <4> QED BY <3>1, <4>1
    <3>2. CASE q # s
      <4>1. PICK p \in live : \E i \in ChildIndices(nodes[p]) : nodes[p].ptrs[i] = q
        BY <1>8, <3>2
      <4> DEFINE r == IF p = root_id THEN s ELSE p
      <4>2. r \in live2 /\ r # root_id /\ home(r) = p
        BY <1>1, <1>2, <4>1
      <4>3. N[r] = nodes[p]
        BY <1>11, <4>2
      <4> HIDE DEF r
      <4> QED BY <4>1, <4>2, <4>3
    <3> QED BY <3>1, <3>2
  <2>6. live2 \in SUBSET NodeIds /\ root_id \in live2
    BY <1>1, <1>8
  <2> HIDE DEF live2
  <2> QED BY <2>3, <2>4, <2>5, <2>6, Zenon DEF Hangs
<1>13. Parts(N, live2, allowed2)
  <2>1. /\ allowed \in [NodeIds -> SUBSET AnyKey] /\ allowed[root_id] = AnyKey
        /\ \A p \in live : \A i \in ChildIndices(nodes[p]) :
             allowed[nodes[p].ptrs[i]] = {key \in allowed[p] : Between(nodes[p], i, key)}
        /\ \A p \in live :
             InOrder(nodes[p]) /\ \A i \in 0 .. nodes[p].n_keys - 1 : nodes[p].keys[i] \in allowed[p]
    BY DEF IsTree, Parts
  <2>2. /\ allowed2 \in [NodeIds -> SUBSET AnyKey] /\ allowed2[s] = AnyKey
        /\ \A p \in NodeIds \ {s} : allowed2[p] = allowed[p]
    BY <1>1, <2>1
  <2> HIDE DEF allowed2
  <2>3. allowed2[root_id] = AnyKey
    BY <1>1, <2>1, <2>2
  <2>4. ASSUME NEW p \in live2, NEW i \in ChildIndices(N[p])
        PROVE  allowed2[N[p].ptrs[i]] = {key \in allowed2[p] : Between(N[p], i, key)}
    <3>1. CASE p = root_id
      <4>1. i = 0 /\ N[p].ptrs[i] = s
        BY <1>3, <1>4, <1>5, <2>4, <3>1
      <4>2. \A key \in AnyKey : Between(N[p], i, key)
        BY <1>3, <1>4, <3>1, <4>1 DEF Between
      <4>3. {key \in AnyKey : Between(N[p], i, key)} = AnyKey
        BY <4>2
      <4> QED BY <2>2, <2>3, <3>1, <4>1, <4>3
    <3>2. CASE p # root_id
      <4> DEFINE h == home(p)
                 r == N[p].ptrs[i]
      <4>1. h \in live /\ N[p] = nodes[h] /\ p \in NodeIds
        BY <1>1, <1>8, <1>11, <3>2
      <4>2. allowed2[p] = allowed[h]
        BY <2>1, <2>2, <4>1
      <4> HIDE DEF h
      <4>3. r \in live /\ r # s
        BY <1>2, <1>8, <2>4, <4>1
      <4>4. allowed[r] = {key \in allowed[h] : Between(nodes[h], i, key)}
        BY <2>1, <2>4, <4>1
      <4> HIDE DEF r
      <4>5. allowed2[r] = allowed[r]
        BY <1>8, <2>2, <4>3
      <4>6. allowed2[r] = {key \in allowed2[p] : Between(N[p], i, key)}
        BY <4>1, <4>2, <4>4, <4>5
      <4> QED BY <4>6 DEF r
    <3> QED BY <3>1, <3>2
  <2>5. ASSUME NEW p \in live2
        PROVE  InOrder(N[p]) /\ \A i \in 0 .. N[p].n_keys - 1 : N[p].keys[i] \in allowed2[p]
    <3>1. CASE p = root_id
      BY <1>3, <1>4, <3>1 DEF InOrder
    <3>2. CASE p # root_id
      <4> DEFINE h == home(p)
      <4>1. h \in live /\ N[p] = nodes[h] /\ p \in NodeIds
        BY <1>1, <1>8, <1>11, <3>2
      <4>2. allowed2[p] = allowed[h]
        BY <2>1, <2>2, <4>1
      <4> HIDE DEF h
      <4> QED BY <2>1, <4>1, <4>2
    <3> QED BY <3>1, <3>2
  <2> HIDE DEF live2
  <2> QED BY <2>2, <2>3, <2>4, <2>5, Zenon DEF Parts
<1> HIDE DEF live2, allowed2
<1>14. IsTree(N, live2, height2, allowed2)
  BY <1>10, <1>12, <1>13, Zenon DEF IsTree
<1> QED BY <1>14 DEF N, live2, height2, allowed2, s
LEMMA SplitRootTree ==
  ASSUME TypeInv, NEW live, NEW height, NEW allowed,
         IsTree(nodes, live, height, allowed), OpInTree(live, allowed), SplitRoot
  PROVE  \E z \in NodeIds :
           /\ SplitIn(WithNewRoot, nodes', live \cup {op.copy}, root_id, 0, z)
           /\ \E more : more = (live \cup {op.copy}) \cup {z} /\ GrowsTo(more)
<1>1. IsTree(nodes, live, height, allowed) /\ OpInTree(live, allowed)
  OBVIOUS
<1>2. PICK z \in NodeIds :
        /\ z \notin allocated /\ allocated' = allocated \cup {z}
        /\ nodes' = SplitChild(NewRoot, root_id, 0, z)
  BY Zenon DEF SplitRoot, IsNewPage, NewRoot
<1>3. /\ op.kind = "split_root" /\ op.copy # NULL_PAGE /\ op' = [op EXCEPT !.kind = "insert"]
  BY DEF SplitRoot
<1>4. op \in InsertType /\ op.at = root_id /\ op.key \in Keys
  BY <1>3, OpKinds DEF TypeInv, OpInv, InsertType
<1>5. CanSplit(NewRoot, root_id, 0, z) /\ NewRoot.n_keys = 0 /\ NewRoot.ptrs[0] = op.copy
  BY <1>2, <1>3, RootCanSplit
<1> DEFINE N == WithNewRoot
           c == op.copy
           y == nodes[c]
           s == y.keys[min_degree - 1]
           live1 == live \cup {c}
           height1 == [height EXCEPT ![c] = height[root_id], ![root_id] = height[root_id] + 1]
           allowed1 == [allowed EXCEPT ![c] = AnyKey]
           live2 == live1 \cup {z}
           height2 == [height1 EXCEPT ![z] = height1[c]]
           allowed2 == SplitAllowed(allowed1, c, z, s)
<1>6. IsTree(N, live1, height1, allowed1)
  BY <1>1, <1>3, NewRootTree
<1>7. /\ c \in allocated /\ c # root_id /\ nodes \in [NodeIds -> NodeType]
      /\ root_id \in NodeIds /\ root_id \in allocated /\ c \in NodeIds /\ live \in SUBSET allocated
      /\ allocated \in SUBSET NodeIds
      /\ \A p \in NodeIds : \A j \in ChildIndices(nodes[p]) : nodes[p].ptrs[j] \in allocated
  BY <1>1, <1>3, Sizes
  DEF TypeInv, OpInv, NodesInv, CountInv, OpInTree, ChildrenIn, ChildIndices
<1>8. /\ nodes' \in [NodeIds -> NodeType]
      /\ nodes'[c] = LeftHalf(y, z) /\ nodes'[z] = RightHalf(y)
      /\ nodes'[root_id] = WithChild(NewRoot, 0, s, z)
      /\ \A p \in NodeIds \ {c, root_id, z} : nodes'[p] = nodes[p]
  BY <1>2, <1>5, SplitPages DEF TypeInv
<1>9. N[root_id] = NewRoot /\ N \in [NodeIds -> NodeType] /\ \A p \in NodeIds \ {root_id} : N[p] = nodes[p]
  <2>1. NewRoot \in NodeType
    BY <1>5 DEF CanSplit
  <2> QED BY <1>7, <2>1 DEF WithNewRoot
<1> HIDE DEF N
<1>10. SplitIn(N, nodes', live1, root_id, 0, z)
  <2>1. root_id \in live1 /\ z \notin live1 /\ z # root_id
    BY <1>1, <1>2, <1>7 DEF IsTree, Hangs
  <2>2. \A p \in NodeIds : \A j \in ChildIndices(N[p]) : N[p].ptrs[j] # z
    <3> SUFFICES ASSUME NEW p \in NodeIds, NEW j \in ChildIndices(N[p]) PROVE N[p].ptrs[j] # z
      OBVIOUS
    <3>1. CASE p = root_id
      <4>1. ~NewRoot.is_leaf
        BY <1>5 DEF CanSplit
      <4>2. j = 0
        BY <1>5, <1>9, <3>1, <4>1 DEF ChildIndices
      <4> QED BY <1>2, <1>5, <1>7, <1>9, <3>1, <4>2
    <3>2. CASE p # root_id
      <4>1. N[p] = nodes[p]
        BY <1>9, <3>2
      <4> QED BY <1>2, <1>7, <4>1
    <3> QED BY <3>1, <3>2
  <2>3. /\ ~N[root_id].is_leaf /\ ~Full(N[root_id]) /\ 0 \in 0 .. N[root_id].n_keys
        /\ N[root_id].ptrs[0] = c /\ N[c] = y /\ Full(y)
    BY <1>5, <1>7, <1>9 DEF CanSplit
  <2>4. \A p \in NodeIds \ {c, root_id, z} : nodes'[p] = N[p]
    BY <1>8, <1>9
  <2> HIDE DEF live1, y, s, c
  <2>5. /\ nodes'[N[root_id].ptrs[0]] = LeftHalf(N[N[root_id].ptrs[0]], z)
        /\ nodes'[z] = RightHalf(N[N[root_id].ptrs[0]])
    BY <1>8, <2>3
  <2>6. nodes'[root_id] = WithChild(N[root_id], 0, N[N[root_id].ptrs[0]].keys[min_degree - 1], z)
    BY <1>8, <1>9, <2>3 DEF s
  <2> QED BY <1>2, <1>8, <1>9, <2>1, <2>2, <2>3, <2>4, <2>5, <2>6 DEF SplitIn
<1>11. c = N[root_id].ptrs[0] /\ s = N[c].keys[min_degree - 1]
  BY <1>5, <1>7, <1>9
<1>12. IsTree(nodes', live2, height2, allowed2)
  <2> HIDE DEF c, s, live1, height1, allowed1
  <2> QED BY <1>6, <1>10, <1>11, SplitTree
<1>13. allowed2[root_id] = AnyKey /\ root_id \in live2 /\ live2 \in SUBSET allocated'
  <2>1. allowed1 \in [NodeIds -> SUBSET AnyKey] /\ allowed1[root_id] = AnyKey
    BY <1>6 DEF IsTree, Parts
  <2>2. root_id \in live
    BY <1>1 DEF IsTree, Hangs
  <2>3. z # root_id
    BY <1>2, <1>7
  <2> HIDE DEF allowed1
  <2> QED BY <1>2, <1>7, <2>1, <2>2, <2>3 DEF SplitAllowed
<1> HIDE DEF live2, height2, allowed2
<1>14. op'.kind = "insert" /\ op'.at = root_id /\ op'.key \in AnyKey
  BY <1>3, <1>4, Sizes DEF InsertType
<1>15. PICK inside : inside = live2
  OBVIOUS
<1>16. PICK low : low = height2
  OBVIOUS
<1>17. PICK parts : parts = allowed2
  OBVIOUS
<1>18. parts[root_id] = AnyKey /\ root_id \in inside /\ inside \in SUBSET allocated'
  BY <1>13, <1>15, <1>17
<1>19. OpInTree(inside, parts)'
  BY <1>14, <1>18 DEF OpInTree
<1>20. Grows(inside, low, parts)
  BY <1>12, <1>15, <1>16, <1>17, <1>19 DEF Grows
<1>21. inside = (live \cup {c}) \cup {z} /\ GrowsTo(inside)
  BY <1>15, <1>20, Zenon DEF GrowsTo, live2
<1> QED BY <1>10, <1>21, Zenon DEF N

LEMMA GrownTree ==
  ASSUME NEW live, GrowsTo(live)
  PROVE  TreeInv'
BY Zenon DEF GrowsTo, Grows, TreeInv

LEMMA StepTree ==
  ASSUME TypeInv, TreeInv, [Next]_vars
  PROVE  TreeInv'
<1>1. CASE UNCHANGED vars
  BY <1>1 DEF vars, TreeInv, OpInTree
<1>2. PICK live, height, allowed : IsTree(nodes, live, height, allowed) /\ OpInTree(live, allowed)
  BY Zenon DEF TreeInv
<1>3. CASE CopyRoot \/ InsertInLeaf \/ InsertBelow \/ RemoveBelow \/ RemoveFromLeaf \/ LoadFails
  <2>1. GrowsTo(live)
    BY <1>2, <1>3, CopyRootTree, InsertInLeafTree, DownTree, RemoveFromLeafTree, LoadFailsTree, Zenon
  <2> QED BY <2>1, GrownTree
<1>4. CASE SplitAndInsertBelow
  <2>1. \E z : GrowsTo(live \cup {z})
    BY <1>2, <1>4, SplitAndInsertBelowTree, Zenon
  <2> QED BY <2>1, GrownTree, Zenon
<1>5. CASE SplitRoot
  <2>1. \E more : GrowsTo(more)
    BY <1>2, <1>5, SplitRootTree, Zenon
  <2> QED BY <2>1, GrownTree, Zenon
<1>6. ASSUME NEW key \in Keys, BeginInsert(key) \/ BeginRemove(key) PROVE TreeInv'
  <2>1. GrowsTo(live)
    BY <1>2, <1>6, BeginTree
  <2> QED BY <2>1, GrownTree
<1>7. Next \/ UNCHANGED vars
  OBVIOUS
<1> QED BY <1>1, <1>3, <1>4, <1>5, <1>6, <1>7, Zenon DEF Next, Step
-----------------------------------------------------------------------------
(* What is reached from a node: the least set with it that is closed under *)
(* going on.                                                               *)

ClosedUnder(next, S) == \A p \in S : next[p] \subseteq S

Reach(next, p) == {r \in NodeIds : \A S \in SUBSET NodeIds : p \in S /\ ClosedUnder(next, S) => r \in S}

LEMMA ReachOneOn ==
  ASSUME NEW next, \A q \in NodeIds : next[q] \subseteq NodeIds, NEW p \in NodeIds
  PROVE  Reach(next, p) = {p} \cup UNION {Reach(next, c) : c \in next[p]}
<1> DEFINE T == {p} \cup UNION {Reach(next, c) : c \in next[p]}
<1>1. next[p] \subseteq NodeIds
  OBVIOUS
<1>2. ASSUME NEW c \in NodeIds, NEW r \in Reach(next, c) PROVE next[r] \subseteq Reach(next, c)
  <2>1. r \in NodeIds /\ \A S \in SUBSET NodeIds : c \in S /\ ClosedUnder(next, S) => r \in S
    BY <1>2 DEF Reach
  <2> SUFFICES ASSUME NEW d \in next[r] PROVE d \in Reach(next, c)
    OBVIOUS
  <2>2. d \in NodeIds
    BY <2>1
  <2>3. ASSUME NEW S \in SUBSET NodeIds, c \in S, ClosedUnder(next, S) PROVE d \in S
    BY <2>1, <2>3 DEF ClosedUnder
  <2> QED BY <2>2, <2>3 DEF Reach
<1>3. \A c \in NodeIds : c \in Reach(next, c)
  BY DEF Reach
<1>4. T \in SUBSET NodeIds
  BY DEF Reach
<1>5. ClosedUnder(next, T)
  <2> SUFFICES ASSUME NEW r \in T, NEW d \in next[r] PROVE d \in T
    BY DEF ClosedUnder
  <2>1. CASE r = p
    BY <1>1, <1>3, <2>1
  <2>2. CASE r # p
    <3>1. PICK c \in next[p] : r \in Reach(next, c)
      BY <2>2
    <3>2. d \in Reach(next, c)
      BY <1>1, <1>2, <3>1
    <3> QED BY <3>1, <3>2
  <2> QED BY <2>1, <2>2
<1>6. Reach(next, p) \subseteq T
  <2>1. p \in T
    OBVIOUS
  <2> HIDE DEF T
  <2> QED BY <1>4, <1>5, <2>1 DEF Reach
<1>7. ASSUME NEW c \in next[p], NEW r \in Reach(next, c) PROVE r \in Reach(next, p)
  <2>1. r \in NodeIds /\ \A S \in SUBSET NodeIds : c \in S /\ ClosedUnder(next, S) => r \in S
    BY <1>7 DEF Reach
  <2>2. ASSUME NEW S \in SUBSET NodeIds, p \in S, ClosedUnder(next, S) PROVE r \in S
    BY <2>1, <2>2 DEF ClosedUnder
  <2> QED BY <2>1, <2>2 DEF Reach
<1>8. T \subseteq Reach(next, p)
  BY <1>3, <1>7
<1> QED BY <1>6, <1>8

Children(p) == {nodes[p].ptrs[i] : i \in ChildIndices(nodes[p])}

\* From a node to its children.
Down == [p \in NodeIds |-> Children(p)]

Under(p) == Reach(Down, p)

ChildrenAreNodes == \A p \in NodeIds : Children(p) \subseteq NodeIds

LEMMA UnderOneOn ==
  ASSUME ChildrenAreNodes, NEW p \in NodeIds
  PROVE  Under(p) = {p} \cup UNION {Under(c) : c \in Children(p)}
<1>1. \A q \in NodeIds : Down[q] = Children(q)
  BY DEF Down
<1>2. Reach(Down, p) = {p} \cup UNION {Reach(Down, c) : c \in Down[p]}
  BY <1>1, ReachOneOn DEF ChildrenAreNodes
<1> QED BY <1>1, <1>2 DEF Under

\* What holds of a node when it holds of its children holds of all nodes in the tree.
LEMMA TreeInduction ==
  ASSUME NEW N, NEW live, NEW height, Lowers(N, height), Hangs(N, live), NEW good,
         \A p \in live : (\A i \in ChildIndices(N[p]) : N[p].ptrs[i] \in good) => p \in good
  PROVE  live \subseteq good
<1> SUFFICES ASSUME NEW p \in live PROVE p \in good
  OBVIOUS
<1> DEFINE low == {n \in Nat : \A q \in live : height[q] <= n => q \in good}
<1>1. /\ height \in [NodeIds -> Nat] /\ live \in SUBSET NodeIds
      /\ \A q \in NodeIds : \A i \in ChildIndices(N[q]) : height[N[q].ptrs[i]] < height[q]
      /\ \A q \in live : \A i \in ChildIndices(N[q]) : N[q].ptrs[i] \in live
  BY DEF Lowers, Hangs
<1>2. 0 \in low
  <2>1. ASSUME NEW q \in live, height[q] <= 0 PROVE q \in good
    <3>1. \A i \in ChildIndices(N[q]) : FALSE
      <4> SUFFICES ASSUME NEW i \in ChildIndices(N[q]) PROVE FALSE
        OBVIOUS
      <4>1. height[N[q].ptrs[i]] < height[q] /\ N[q].ptrs[i] \in NodeIds
        BY <1>1
      <4>2. height[N[q].ptrs[i]] \in Nat /\ height[q] \in Nat
        BY <1>1, <4>1
      <4> QED BY <2>1, <4>1, <4>2
    <3> QED BY <3>1
  <2> QED BY <2>1
<1>3. ASSUME NEW n \in 0 .. height[p] - 1, n \in low PROVE n + 1 \in low
  <2>1. n \in Nat /\ n + 1 \in Nat
    OBVIOUS
  <2>2. ASSUME NEW q \in live, height[q] <= n + 1 PROVE q \in good
    <3>1. ASSUME NEW i \in ChildIndices(N[q]) PROVE N[q].ptrs[i] \in good
      <4> DEFINE r == N[q].ptrs[i]
      <4>1. height[r] < height[q] /\ r \in live /\ r \in NodeIds /\ q \in NodeIds
        BY <1>1, <3>1
      <4> HIDE DEF r
      <4>2. height[r] \in Nat /\ height[q] \in Nat
        BY <1>1, <4>1
      <4>3. height[r] <= n
        BY <2>1, <2>2, <4>1, <4>2
      <4>4. r \in good
        BY <1>3, <4>1, <4>3
      <4> QED BY <4>4 DEF r
    <3> QED BY <3>1
  <2> QED BY <2>1, <2>2
<1>4. height[p] \in Nat
  BY <1>1
<1> HIDE DEF low
<1>5. \A n \in 0 .. height[p] : n \in low
  BY <1>2, <1>3, <1>4, SetInduction
<1>6. height[p] \in low
  BY <1>4, <1>5
<1> QED BY <1>4, <1>6 DEF low
-----------------------------------------------------------------------------
(* The separators.                                                         *)

KeysIn(x) == {x.keys[i] : i \in 0 .. x.n_keys - 1}

\* What is to be below node q, given what is below its children.
KeysBody(g) ==
  [q \in NodeIds |->
     IF nodes[q].is_leaf THEN {nodes[q].keys[i] : i \in 0 .. nodes[q].n_keys - 1}
     ELSE UNION {g[nodes[q].ptrs[i]] : i \in 0 .. nodes[q].n_keys}]

KeysBelow == CHOOSE g : g = KeysBody(g)

BoundsBody(f, below) ==
  [p \in NodeIds |->
     /\ \A i \in 1 .. nodes[p].n_keys - 1 : nodes[p].keys[i - 1] <= nodes[p].keys[i]
     /\ ~nodes[p].is_leaf =>
          \A i \in 0 .. nodes[p].n_keys :
            /\ f[nodes[p].ptrs[i]]
            /\ \A key \in below[nodes[p].ptrs[i]] :
                 /\ i > 0 => nodes[p].keys[i - 1] <= key
                 /\ i < nodes[p].n_keys => key <= nodes[p].keys[i]]

LEMMA SeparatorsMean ==
  SeparatorsHold <=> (CHOOSE f : f = BoundsBody(f, KeysBelow))[root_id]
BY Zenon DEF SeparatorsHold, BoundsBody, KeysBelow, KeysBody

LEMMA NodeChildren ==
  ASSUME TypeInv
  PROVE  /\ ChildrenAreNodes
         /\ \A p \in NodeIds : ~nodes[p].is_leaf => ChildIndices(nodes[p]) = 0 .. nodes[p].n_keys
         /\ \A p \in NodeIds : nodes[p].is_leaf => ChildIndices(nodes[p]) = {}
BY DEF TypeInv, NodesInv, ChildrenIn, ChildrenAreNodes, Children, ChildIndices

LEMMA KeysBelowIs ==
  ASSUME TypeInv
  PROVE  KeysBelow = KeysBody(KeysBelow)
<1> DEFINE leafKeys(r) == IF nodes[r].is_leaf THEN {nodes[r].keys[i] : i \in 0 .. nodes[r].n_keys - 1} ELSE {}
           g == [q \in NodeIds |-> UNION {leafKeys(r) : r \in Under(q)}]
<1>1. ChildrenAreNodes
  BY NodeChildren
<1>2. ASSUME NEW q \in NodeIds
      PROVE  g[q] = IF nodes[q].is_leaf THEN {nodes[q].keys[i] : i \in 0 .. nodes[q].n_keys - 1}
                    ELSE UNION {g[nodes[q].ptrs[i]] : i \in 0 .. nodes[q].n_keys}
  <2>1. Under(q) = {q} \cup UNION {Under(c) : c \in Children(q)}
    BY <1>1, UnderOneOn
  <2>2. Children(q) \subseteq NodeIds
    BY <1>1 DEF ChildrenAreNodes
  <2>3. g[q] = UNION {leafKeys(r) : r \in Under(q)} /\ \A c \in Children(q) : g[c] = UNION {leafKeys(r) : r \in Under(c)}
    BY <2>2
  <2> HIDE DEF g
  <2>4. CASE nodes[q].is_leaf
    <3>1. Children(q) = {}
      BY <2>4 DEF Children, ChildIndices
    <3>2. Under(q) = {q}
      BY <2>1, <3>1
    <3> QED BY <2>3, <2>4, <3>2
  <2>5. CASE ~nodes[q].is_leaf
    <3>1. Children(q) = {nodes[q].ptrs[i] : i \in 0 .. nodes[q].n_keys}
      BY <2>5 DEF Children, ChildIndices
    <3>2. leafKeys(q) = {}
      BY <2>5
    <3> HIDE DEF leafKeys
    <3>3. g[q] = UNION {g[c] : c \in Children(q)}
      <4>1. ASSUME NEW k \in g[q] PROVE k \in UNION {g[c] : c \in Children(q)}
        <5>1. PICK r \in Under(q) : k \in leafKeys(r)
          BY <2>3, <4>1
        <5>2. PICK c \in Children(q) : r \in Under(c)
          BY <2>1, <3>2, <5>1
        <5>3. k \in g[c]
          BY <2>3, <5>1, <5>2
        <5> QED BY <5>2, <5>3
      <4>2. ASSUME NEW c \in Children(q), NEW k \in g[c] PROVE k \in g[q]
        <5>1. PICK r \in Under(c) : k \in leafKeys(r)
          BY <2>3, <4>2
        <5>2. r \in Under(q)
          BY <2>1, <5>1
        <5> QED BY <2>3, <5>1, <5>2
      <4> QED BY <4>1, <4>2
    <3>4. UNION {g[c] : c \in Children(q)} = UNION {g[nodes[q].ptrs[i]] : i \in 0 .. nodes[q].n_keys}
      BY <3>1
    <3> QED BY <2>5, <3>3, <3>4
  <2> QED BY <2>4, <2>5
<1>3. g = KeysBody(g)
  <2>1. g = [q \in NodeIds |-> g[q]]
    OBVIOUS
  <2> HIDE DEF g
  <2> QED BY <1>2, <2>1 DEF KeysBody
<1> HIDE DEF g
<1> QED BY <1>3, Zenon DEF KeysBelow
-----------------------------------------------------------------------------
(* The separators bound what is below them.                                *)

\* What is below a node in the tree may be there.
LEMMA BelowAllowed ==
  ASSUME TypeInv, NEW live, NEW height, NEW allowed, IsTree(nodes, live, height, allowed)
  PROVE  \A q \in live : KeysBelow[q] \subseteq allowed[q]
<1> DEFINE good == {q \in NodeIds : KeysBelow[q] \subseteq allowed[q]}
<1>1. Lowers(nodes, height) /\ Hangs(nodes, live) /\ Parts(nodes, live, allowed)
  BY DEF IsTree
<1>2. ASSUME NEW q \in live, \A i \in ChildIndices(nodes[q]) : nodes[q].ptrs[i] \in good
      PROVE  q \in good
  <2>1. q \in NodeIds
    BY <1>1 DEF Hangs
  <2>2. KeysBelow[q] = IF nodes[q].is_leaf THEN {nodes[q].keys[i] : i \in 0 .. nodes[q].n_keys - 1}
                       ELSE UNION {KeysBelow[nodes[q].ptrs[i]] : i \in 0 .. nodes[q].n_keys}
    <3>1. KeysBelow = KeysBody(KeysBelow)
      BY KeysBelowIs
    <3>2. KeysBody(KeysBelow)[q] =
            IF nodes[q].is_leaf THEN {nodes[q].keys[i] : i \in 0 .. nodes[q].n_keys - 1}
            ELSE UNION {KeysBelow[nodes[q].ptrs[i]] : i \in 0 .. nodes[q].n_keys}
      BY <2>1 DEF KeysBody
    <3> QED BY <3>1, <3>2, Zenon
  <2>3. CASE nodes[q].is_leaf
    <3>1. \A i \in 0 .. nodes[q].n_keys - 1 : nodes[q].keys[i] \in allowed[q]
      BY <1>1 DEF Parts
    <3> QED BY <2>1, <2>2, <2>3, <3>1
  <2>4. CASE ~nodes[q].is_leaf
    <3>1. ASSUME NEW i \in 0 .. nodes[q].n_keys PROVE KeysBelow[nodes[q].ptrs[i]] \subseteq allowed[q]
      <4>1. i \in ChildIndices(nodes[q])
        BY <2>1, <2>4, NodeChildren
      <4>2. nodes[q].ptrs[i] \in good
        BY <1>2, <4>1
      <4>3. allowed[nodes[q].ptrs[i]] \subseteq allowed[q]
        BY <1>1, <4>1 DEF Parts
      <4> QED BY <4>2, <4>3
    <3> QED BY <2>1, <2>2, <2>4, <3>1
  <2> QED BY <2>3, <2>4
<1> HIDE DEF good
<1>3. live \subseteq good
  BY <1>1, <1>2, TreeInduction
<1> QED BY <1>3 DEF good

Sorted(x) == \A i \in 1 .. x.n_keys - 1 : x.keys[i - 1] <= x.keys[i]

Separates(x, below) ==
  \A i \in 0 .. x.n_keys : \A key \in below[x.ptrs[i]] : Between(x, i, key)

IsBounded(p) == Sorted(nodes[p]) /\ (~nodes[p].is_leaf => Separates(nodes[p], KeysBelow))

Bounded == CHOOSE f : f = BoundsBody(f, KeysBelow)

\* One step of the definition of bounded.
LEMMA BoundsBodyAt ==
  ASSUME NEW f, NEW p \in NodeIds
  PROVE  BoundsBody(f, KeysBelow)[p] <=>
           /\ IsBounded(p)
           /\ ~nodes[p].is_leaf => \A i \in 0 .. nodes[p].n_keys : f[nodes[p].ptrs[i]]
<1>1. BoundsBody(f, KeysBelow)[p] =
        (/\ \A i \in 1 .. nodes[p].n_keys - 1 : nodes[p].keys[i - 1] <= nodes[p].keys[i]
         /\ ~nodes[p].is_leaf =>
              \A i \in 0 .. nodes[p].n_keys :
                /\ f[nodes[p].ptrs[i]]
                /\ \A key \in KeysBelow[nodes[p].ptrs[i]] :
                     /\ i > 0 => nodes[p].keys[i - 1] <= key
                     /\ i < nodes[p].n_keys => key <= nodes[p].keys[i])
  BY Zenon DEF BoundsBody
<1> QED BY <1>1, Zenon DEF IsBounded, Sorted, Separates, Between

\* There is such a function: the nodes with all that is under them in order.
LEMMA BoundedIs ==
  ASSUME TypeInv
  PROVE  Bounded = BoundsBody(Bounded, KeysBelow)
<1> DEFINE f == [p \in NodeIds |-> \A r \in Under(p) : IsBounded(r)]
<1>1. ChildrenAreNodes
  BY NodeChildren
<1>2. ASSUME NEW p \in NodeIds
      PROVE  f[p] = BoundsBody(f, KeysBelow)[p]
  <2>1. Under(p) = {p} \cup UNION {Under(c) : c \in Children(p)}
    BY <1>1, UnderOneOn
  <2>2. Children(p) \subseteq NodeIds
    BY <1>1 DEF ChildrenAreNodes
  <2>3. /\ f[p] <=> \A r \in Under(p) : IsBounded(r)
        /\ \A c \in Children(p) : f[c] <=> \A r \in Under(c) : IsBounded(r)
    BY <2>2, Zenon
  <2>4. f[p] \in BOOLEAN /\ BoundsBody(f, KeysBelow)[p] \in BOOLEAN
    BY Zenon DEF BoundsBody
  <2> HIDE DEF f
  <2>5. f[p] <=> IsBounded(p) /\ \A c \in Children(p) : f[c]
    BY <2>1, <2>3, Zenon
  <2>6. nodes[p].is_leaf => Children(p) = {}
    BY DEF Children, ChildIndices
  <2>7. ~nodes[p].is_leaf => Children(p) = {nodes[p].ptrs[i] : i \in 0 .. nodes[p].n_keys}
    BY DEF Children, ChildIndices
  <2>8. (\A c \in Children(p) : f[c]) <=>
          (~nodes[p].is_leaf => \A i \in 0 .. nodes[p].n_keys : f[nodes[p].ptrs[i]])
    BY <2>6, <2>7, Zenon
  <2>9. f[p] <=> BoundsBody(f, KeysBelow)[p]
    BY <2>5, <2>8, BoundsBodyAt, Zenon
  <2>10. \A a, b \in BOOLEAN : (a <=> b) => a = b
    OBVIOUS
  <2> QED BY ONLY <2>4, <2>9, <2>10, Zenon
<1>3. f = BoundsBody(f, KeysBelow)
  <2>1. f = [p \in NodeIds |-> f[p]]
    OBVIOUS
  <2>2. BoundsBody(f, KeysBelow) = [p \in NodeIds |-> BoundsBody(f, KeysBelow)[p]]
    BY Zenon DEF BoundsBody
  <2> HIDE DEF f
  <2> QED BY <1>2, <2>1, <2>2, Zenon
<1> HIDE DEF f
<1> QED BY <1>3, Zenon DEF Bounded

LEMMA TreeIsBounded ==
  ASSUME TypeInv, TreeInv
  PROVE  SeparatorsHold
<1>1. PICK live, height, allowed : IsTree(nodes, live, height, allowed)
  BY Zenon DEF TreeInv
<1>2. Lowers(nodes, height) /\ Hangs(nodes, live) /\ Parts(nodes, live, allowed)
  BY <1>1 DEF IsTree
<1>3. \A q \in live : KeysBelow[q] \subseteq allowed[q]
  BY <1>1, BelowAllowed
<1>4. root_id \in live /\ live \subseteq NodeIds
  BY <1>2 DEF Hangs
<1>5. ASSUME NEW p \in live PROVE IsBounded(p)
  <2>1. nodes[p].n_keys \in Nat /\ InOrder(nodes[p])
    BY <1>2, <1>4, <1>5, NodeFields DEF Parts, TypeInv, NodesInv
  <2>2. Sorted(nodes[p])
    BY <2>1 DEF InOrder, Sorted
  <2>3. ASSUME ~nodes[p].is_leaf, NEW i \in 0 .. nodes[p].n_keys,
               NEW key \in KeysBelow[nodes[p].ptrs[i]]
        PROVE  Between(nodes[p], i, key)
    <3>1. i \in ChildIndices(nodes[p])
      BY <2>3 DEF ChildIndices
    <3>2. nodes[p].ptrs[i] \in live
      BY <1>2, <3>1 DEF Hangs
    <3>3. key \in allowed[nodes[p].ptrs[i]]
      BY <1>3, <2>3, <3>2
    <3>4. allowed[nodes[p].ptrs[i]] = {k \in allowed[p] : Between(nodes[p], i, k)}
      BY <1>2, <3>1 DEF Parts
    <3> QED BY <3>3, <3>4
  <2> QED BY <2>2, <2>3, Zenon DEF IsBounded, Separates
<1> DEFINE good == {p \in NodeIds : Bounded[p]}
<1>6. ASSUME NEW p \in live, \A i \in ChildIndices(nodes[p]) : nodes[p].ptrs[i] \in good
      PROVE  p \in good
  <2>1. p \in NodeIds /\ IsBounded(p)
    BY <1>4, <1>5
  <2>2. ~nodes[p].is_leaf => \A i \in 0 .. nodes[p].n_keys : Bounded[nodes[p].ptrs[i]]
    <3>1. ~nodes[p].is_leaf => ChildIndices(nodes[p]) = 0 .. nodes[p].n_keys
      BY DEF ChildIndices
    <3> QED BY <1>6, <3>1, Zenon
  <2>3. Bounded[p] = BoundsBody(Bounded, KeysBelow)[p]
    BY BoundedIs, Zenon
  <2>4. BoundsBody(Bounded, KeysBelow)[p]
    BY <2>1, <2>2, BoundsBodyAt, Zenon
  <2>5. Bounded[p]
    BY <2>3, <2>4, Zenon
  <2> QED BY <2>1, <2>5, Zenon
<1> HIDE DEF good
<1>7. live \subseteq good
  BY <1>2, <1>6, TreeInduction
<1>8. Bounded[root_id]
  BY <1>4, <1>7, Zenon DEF good
<1> QED BY <1>8, SeparatorsMean, Zenon DEF Bounded

\* Whatever is inserted, removed, or cut short by a failed load, with the removals that
\* take a place past the keys for an entry too: no node of the tree has two keys out of
\* order, and every key below a child is between the separators on its two sides.  A
\* split (split.cpp) parts the keys a node may hold at the one it sends up, an insertion
\* (insert.cpp) goes down only where its key may be, and a removal (remove.cpp) moves
\* keys down by one place without reordering them.
THEOREM TreeSeparatorsHold == (Spec \/ RegularSpec) => []SeparatorsHold
<1>1. Init => TypeInv /\ TreeInv
  BY InitTyped, InitTree
<1>2. TypeInv /\ TreeInv /\ [Next]_vars => TypeInv' /\ TreeInv'
  BY StepTyped, StepTree
<1>3. TypeInv /\ TreeInv /\ [RegularNext]_vars => TypeInv' /\ TreeInv'
  BY <1>2, RegularSteps
<1>4. TypeInv /\ TreeInv => SeparatorsHold
  BY TreeIsBounded
<1> QED BY <1>1, <1>2, <1>3, <1>4, PTL DEF Spec, RegularSpec
-----------------------------------------------------------------------------
(* What the tree holds.                                                    *)

Live == Under(root_id)

LeavesIn(N, live) == {p \in live : N[p].is_leaf}

EntriesIn(N, live) == UNION {EntriesOf(N[p]) : p \in LeavesIn(N, live)}

EntriesBody(f) ==
  [p \in NodeIds |->
     IF nodes[p].is_leaf THEN EntriesOf(nodes[p])
     ELSE UNION {f[nodes[p].ptrs[i]] : i \in 0 .. nodes[p].n_keys}]

EntriesBelow == CHOOSE f : f = EntriesBody(f)

LEMMA EntriesMean == Entries = EntriesBelow[root_id]
BY Zenon DEF Entries, EntriesBelow, EntriesBody

\* A set for every leaf makes one for every node: the union of those under it.
SetsUnder(own) == [p \in NodeIds |-> UNION {own[r] : r \in LeavesIn(nodes, Under(p))}]

LEMMA SetsUnderNode ==
  ASSUME ChildrenAreNodes, NEW own, NEW q \in NodeIds
  PROVE  SetsUnder(own)[q] =
           IF nodes[q].is_leaf THEN own[q]
           ELSE UNION {SetsUnder(own)[nodes[q].ptrs[i]] : i \in 0 .. nodes[q].n_keys}
<1> DEFINE g == SetsUnder(own)
<1>1. Under(q) = {q} \cup UNION {Under(c) : c \in Children(q)}
  BY UnderOneOn
<1>2. Children(q) \subseteq NodeIds
  BY DEF ChildrenAreNodes
<1>3. /\ g[q] = UNION {own[r] : r \in LeavesIn(nodes, Under(q))}
      /\ \A c \in Children(q) : g[c] = UNION {own[r] : r \in LeavesIn(nodes, Under(c))}
  BY <1>2 DEF SetsUnder
<1> HIDE DEF g
<1>4. CASE nodes[q].is_leaf
  <2>1. Children(q) = {}
    BY <1>4 DEF Children, ChildIndices
  <2>2. Under(q) = {q}
    BY <1>1, <2>1
  <2>3. LeavesIn(nodes, Under(q)) = {q}
    BY <1>4, <2>2 DEF LeavesIn
  <2>4. g[q] = own[q]
    BY <1>3, <2>3
  <2> QED BY <1>4, <2>4 DEF g
<1>5. CASE ~nodes[q].is_leaf
  <2>1. Children(q) = {nodes[q].ptrs[i] : i \in 0 .. nodes[q].n_keys}
    BY <1>5 DEF Children, ChildIndices
  <2>2. g[q] = UNION {g[c] : c \in Children(q)}
    <3>1. ASSUME NEW k \in g[q] PROVE k \in UNION {g[c] : c \in Children(q)}
      <4>1. PICK r \in LeavesIn(nodes, Under(q)) : k \in own[r]
        BY <1>3, <3>1
      <4>2. r \in Under(q) /\ nodes[r].is_leaf
        BY DEF LeavesIn
      <4>3. PICK c \in Children(q) : r \in Under(c)
        BY <1>1, <1>5, <4>2
      <4>4. k \in g[c]
        BY <1>3, <4>1, <4>2, <4>3 DEF LeavesIn
      <4> QED BY <4>3, <4>4
    <3>2. ASSUME NEW c \in Children(q), NEW k \in g[c] PROVE k \in g[q]
      <4>1. PICK r \in LeavesIn(nodes, Under(c)) : k \in own[r]
        BY <1>3, <3>2
      <4>2. r \in LeavesIn(nodes, Under(q))
        BY <1>1, <4>1 DEF LeavesIn
      <4> QED BY <1>3, <4>1, <4>2
    <3> QED BY <3>1, <3>2
  <2>3. UNION {g[c] : c \in Children(q)} = UNION {g[nodes[q].ptrs[i]] : i \in 0 .. nodes[q].n_keys}
    BY <2>1
  <2> QED BY <1>5, <2>2, <2>3 DEF g
<1> QED BY <1>4, <1>5

LEMMA EntriesBelowIs ==
  ASSUME ChildrenAreNodes
  PROVE  EntriesBelow = EntriesBody(EntriesBelow)
<1> DEFINE own == [r \in NodeIds |-> EntriesOf(nodes[r])]
           g == SetsUnder(own)
<1>1. ASSUME NEW q \in NodeIds
      PROVE  g[q] = IF nodes[q].is_leaf THEN EntriesOf(nodes[q])
                    ELSE UNION {g[nodes[q].ptrs[i]] : i \in 0 .. nodes[q].n_keys}
  <2>1. own[q] = EntriesOf(nodes[q])
    OBVIOUS
  <2> HIDE DEF own
  <2>2. g[q] = IF nodes[q].is_leaf THEN own[q]
               ELSE UNION {g[nodes[q].ptrs[i]] : i \in 0 .. nodes[q].n_keys}
    BY SetsUnderNode, Zenon
  <2> HIDE DEF g
  <2> QED BY <2>1, <2>2
<1>2. g = EntriesBody(g)
  <2>1. g = [q \in NodeIds |-> g[q]]
    BY DEF SetsUnder
  <2> HIDE DEF g
  <2> QED BY <1>1, <2>1 DEF EntriesBody
<1> HIDE DEF g
<1> QED BY <1>2, Zenon DEF EntriesBelow

\* In a tree every page is under the root.
LEMMA LiveIsUnder ==
  ASSUME ChildrenAreNodes, NEW live, NEW height, Lowers(nodes, height), Hangs(nodes, live)
  PROVE  live = Live
<1>1. /\ live \in SUBSET NodeIds /\ root_id \in live /\ root_id \in NodeIds
      /\ \A p \in live : \A i \in ChildIndices(nodes[p]) : nodes[p].ptrs[i] \in live
      /\ \A q \in live \ {root_id} :
           \E p \in live : \E i \in ChildIndices(nodes[p]) : nodes[p].ptrs[i] = q
  BY Sizes DEF Hangs
<1>2. Live \subseteq live
  <2>1. ClosedUnder(Down, live)
    BY <1>1 DEF ClosedUnder, Down, Children
  <2> QED BY <1>1, <2>1 DEF Live, Under, Reach
<1>3. ASSUME NEW p \in Live PROVE Children(p) \subseteq Live
  <2>1. p \in NodeIds /\ \A S \in SUBSET NodeIds : root_id \in S /\ ClosedUnder(Down, S) => p \in S
    BY <1>3 DEF Live, Under, Reach
  <2>2. ASSUME NEW d \in Children(p) PROVE d \in Live
    <3>1. d \in NodeIds
      BY <2>1 DEF ChildrenAreNodes
    <3>2. ASSUME NEW S \in SUBSET NodeIds, root_id \in S, ClosedUnder(Down, S) PROVE d \in S
      BY <2>1, <3>2 DEF ClosedUnder, Down
    <3> QED BY <3>1, <3>2 DEF Live, Under, Reach
  <2> QED BY <2>2
<1>4. root_id \in Live
  BY <1>1 DEF Live, Under, Reach
<1> HIDE DEF Live
<1>5. height \in [NodeIds -> Nat] /\ \A p \in NodeIds : \A i \in ChildIndices(nodes[p]) :
         height[nodes[p].ptrs[i]] < height[p]
  BY DEF Lowers
<1>6. PICK top \in Nat : \A p \in NodeIds : height[p] <= top
  <2> DEFINE good == {n \in Nat : \E b \in Nat : \A p \in 1 .. n : height[p] <= b}
  <2>1. MaxNodes \in Nat /\ NodeIds = 1 .. MaxNodes
    BY BPTreeAssumption DEF NodeIds
  <2>2. 0 \in good
    <3>1. \A p \in 1 .. 0 : height[p] <= 0
      OBVIOUS
    <3> QED BY <3>1
  <2>3. ASSUME NEW n \in 0 .. MaxNodes - 1, n \in good PROVE n + 1 \in good
    <3>1. PICK b \in Nat : \A p \in 1 .. n : height[p] <= b
      BY <2>3
    <3>2. n + 1 \in NodeIds /\ height[n + 1] \in Nat /\ n \in Nat
      BY <1>5, <2>1
    <3>3. \A p \in 1 .. n : height[p] \in Nat
      BY <1>5, <2>1
    <3> DEFINE c == height[n + 1]
    <3>4. \A p \in 1 .. n + 1 : height[p] <= b + c
      <4> SUFFICES ASSUME NEW p \in 1 .. n + 1 PROVE height[p] <= b + c
        OBVIOUS
      <4>1. CASE p = n + 1
        BY <3>2, <4>1
      <4>2. CASE p # n + 1
        <5>1. p \in 1 .. n
          BY <3>2, <4>2
        <5> HIDE DEF c
        <5>2. height[p] \in Nat /\ height[p] <= b
          BY <3>1, <3>3, <5>1
        <5>3. c \in Nat
          BY <3>2 DEF c
        <5> QED BY <5>2, <5>3
      <4> QED BY <4>1, <4>2
    <3>5. b + c \in Nat
      BY <3>2
    <3> HIDE DEF c
    <3> QED BY <3>2, <3>4, <3>5
  <2> HIDE DEF good
  <2>4. MaxNodes \in good
    <3>1. \A n \in 0 .. MaxNodes : n \in good
      BY <2>1, <2>2, <2>3, SetInduction
    <3> QED BY <2>1, <3>1
  <2> QED BY <2>1, <2>4 DEF good
<1>7. live \subseteq Live
  <2> SUFFICES ASSUME NEW p \in live PROVE p \in Live
    OBVIOUS
  <2> DEFINE good == {n \in Nat : \A q \in live : top - height[q] <= n => q \in Live}
  <2>1. ASSUME NEW q \in live, q # root_id
        PROVE  \E r \in live : height[q] < height[r] /\ (r \in Live => q \in Live)
    <3>1. PICK r \in live : \E i \in ChildIndices(nodes[r]) : nodes[r].ptrs[i] = q
      BY <1>1, <2>1
    <3>2. q \in Children(r)
      BY <3>1 DEF Children
    <3> QED BY <1>1, <1>3, <1>5, <3>1, <3>2
  <2>2. 0 \in good
    <3>1. ASSUME NEW q \in live, top - height[q] <= 0 PROVE q \in Live
      <4>1. CASE q = root_id
        BY <1>4, <4>1
      <4>2. CASE q # root_id
        <5>1. PICK r \in live : height[q] < height[r]
          BY <2>1, <4>2
        <5>2. height[q] \in Nat /\ height[r] \in Nat /\ height[r] <= top
          BY <1>1, <1>5, <1>6
        <5> QED BY <3>1, <5>1, <5>2
      <4> QED BY <4>1, <4>2
    <3> QED BY <3>1
  <2>3. ASSUME NEW n \in 0 .. top - 1, n \in good PROVE n + 1 \in good
    <3>1. n \in Nat /\ n + 1 \in Nat
      OBVIOUS
    <3>2. ASSUME NEW q \in live, top - height[q] <= n + 1 PROVE q \in Live
      <4>1. CASE q = root_id
        BY <1>4, <4>1
      <4>2. CASE q # root_id
        <5>1. PICK r \in live : height[q] < height[r] /\ (r \in Live => q \in Live)
          BY <2>1, <4>2
        <5>2. height[q] \in Nat /\ height[r] \in Nat /\ height[r] <= top
          BY <1>1, <1>5, <1>6
        <5>3. top - height[r] <= n
          BY <3>1, <3>2, <5>1, <5>2
        <5> QED BY <2>3, <5>1, <5>3
      <4> QED BY <4>1, <4>2
    <3> QED BY <3>1, <3>2
  <2> HIDE DEF good
  <2>4. \A n \in 0 .. top : n \in good
    BY <2>2, <2>3, SetInduction
  <2>5. top \in good
    BY <2>4
  <2>6. height[p] \in Nat
    BY <1>1, <1>5
  <2>7. top - height[p] <= top
    BY <2>6
  <2> QED BY <2>5, <2>7 DEF good
<1> QED BY <1>2, <1>7

\* So there is one set of pages in a tree, and the entries are those of its leaves.
TreeIsLive ==
  \A live, height, allowed :
    IsTree(nodes, live, height, allowed) => live = Live /\ Entries = EntriesIn(nodes, live)

LEMMA LiveIs ==
  ASSUME TypeInv
  PROVE  TreeIsLive
<1> SUFFICES ASSUME NEW live, NEW height, NEW allowed, IsTree(nodes, live, height, allowed)
             PROVE  live = Live /\ Entries = EntriesIn(nodes, live)
  BY DEF TreeIsLive
<1>1. Lowers(nodes, height) /\ Hangs(nodes, live)
  BY DEF IsTree
<1>2. ChildrenAreNodes
  BY NodeChildren
<1>3. live = Live
  BY <1>1, <1>2, LiveIsUnder
<1>4. live \in SUBSET NodeIds /\ root_id \in live /\ root_id \in NodeIds
  BY <1>1, Sizes DEF Hangs
<1> DEFINE own == [r \in NodeIds |-> EntriesOf(nodes[r])]
           good == {p \in NodeIds : EntriesBelow[p] = SetsUnder(own)[p]}
<1>5. ASSUME NEW p \in live, \A i \in ChildIndices(nodes[p]) : nodes[p].ptrs[i] \in good
      PROVE  p \in good
  <2>1. p \in NodeIds
    BY <1>4
  <2>2. own[p] = EntriesOf(nodes[p])
    BY <2>1
  <2> HIDE DEF own
  <2>3. EntriesBelow[p] = IF nodes[p].is_leaf THEN EntriesOf(nodes[p])
                          ELSE UNION {EntriesBelow[nodes[p].ptrs[i]] : i \in 0 .. nodes[p].n_keys}
    <3>1. EntriesBelow = EntriesBody(EntriesBelow)
      BY <1>2, EntriesBelowIs
    <3>2. EntriesBody(EntriesBelow)[p] =
            IF nodes[p].is_leaf THEN EntriesOf(nodes[p])
            ELSE UNION {EntriesBelow[nodes[p].ptrs[i]] : i \in 0 .. nodes[p].n_keys}
      BY <2>1 DEF EntriesBody
    <3> QED BY <3>1, <3>2, Zenon
  <2>4. SetsUnder(own)[p] =
          IF nodes[p].is_leaf THEN own[p]
          ELSE UNION {SetsUnder(own)[nodes[p].ptrs[i]] : i \in 0 .. nodes[p].n_keys}
    BY <1>2, <2>1, SetsUnderNode, Zenon
  <2>5. ~nodes[p].is_leaf =>
          \A i \in 0 .. nodes[p].n_keys :
            EntriesBelow[nodes[p].ptrs[i]] = SetsUnder(own)[nodes[p].ptrs[i]]
    BY <1>5 DEF ChildIndices
  <2> QED BY <2>1, <2>2, <2>3, <2>4, <2>5
<1> HIDE DEF good
<1>6. live \subseteq good
  BY <1>1, <1>5, TreeInduction
<1>7. EntriesBelow[root_id] = SetsUnder(own)[root_id]
  BY <1>4, <1>6 DEF good
<1>8. SetsUnder(own)[root_id] = UNION {own[r] : r \in LeavesIn(nodes, live)}
  BY <1>3, <1>4 DEF SetsUnder, Live
<1>9. {own[r] : r \in LeavesIn(nodes, live)} = {EntriesOf(nodes[r]) : r \in LeavesIn(nodes, live)}
  BY <1>4 DEF LeavesIn
<1> HIDE DEF own
<1>10. Entries = EntriesIn(nodes, live)
  BY <1>7, <1>8, <1>9, EntriesMean DEF EntriesIn
<1> QED BY <1>3, <1>10

LEMMA LiveIsLater == TypeInv' => TreeIsLive'
<1>1. TypeInv => TreeIsLive
  BY LiveIs
<1> QED BY <1>1, PTL
-----------------------------------------------------------------------------
(* Entries in leaves that change.                                          *)

\* No pointer is in two places.
Unique(N, live) ==
  \A p, q \in LeavesIn(N, live) :
    \A i \in 0 .. N[p].n_keys - 1 : \A j \in 0 .. N[q].n_keys - 1 :
      N[p].ptrs[i] = N[q].ptrs[j] => p = q /\ i = j

LEMMA LeafHalves ==
  ASSUME NEW y \in NodeType, y.is_leaf, NEW z \in NodeIds
  PROVE  LET left == LeftHalf(y, z)
             right == RightHalf(y)
         IN  /\ left.n_keys = min_degree - 1 /\ right.n_keys = min_degree
             /\ left.ptrs[min_degree - 1] = z
             /\ \A j \in 0 .. min_degree - 2 : left.keys[j] = y.keys[j] /\ left.ptrs[j] = y.ptrs[j]
             /\ \A j \in 0 .. min_degree - 1 :
                  /\ right.keys[j] = y.keys[j + (min_degree - 1)]
                  /\ right.ptrs[j] = y.ptrs[j + (min_degree - 1)]
             /\ right.ptrs[min_degree] = y.ptrs[2 * min_degree - 1]
<1> DEFINE left == LeftHalf(y, z)
           right == RightHalf(y)
           ptrs == [y.ptrs EXCEPT ![min_degree - 1] = z]
<1>1. min_degree \in Nat /\ min_degree >= 2
  BY Sizes
<1>2. left.n_keys = min_degree - 1 /\ left.keys = y.keys
  BY LeftHalfType
<1>3. left.ptrs = ptrs
  <2>1. left = [y EXCEPT !.n_keys = min_degree - 1, !.ptrs = ptrs]
    BY Zenon DEF LeftHalf
  <2> HIDE DEF ptrs, left
  <2> QED BY <2>1 DEF NodeType
<1>4. ptrs[min_degree - 1] = z /\ \A j \in 0 .. min_degree - 2 : ptrs[j] = y.ptrs[j]
  <2>1. y.ptrs \in [0 .. 2 * min_degree - 1 -> AnyPtr]
    BY NodeFields DEF PtrSlots
  <2>2. min_degree - 1 \in 0 .. 2 * min_degree - 1
    BY <1>1
  <2>3. \A j \in 0 .. min_degree - 2 : j # min_degree - 1 /\ j \in 0 .. 2 * min_degree - 1
    BY <1>1
  <2> QED BY <2>1, <2>2, <2>3
<1>5. /\ right.n_keys = min_degree
      /\ \A j \in 0 .. right.n_keys - 1 : right.keys[j] = y.keys[j + (2 * min_degree - 1 - right.n_keys)]
      /\ \A j \in 0 .. right.n_keys : right.ptrs[j] = y.ptrs[j + (2 * min_degree - 1 - right.n_keys)]
  BY RightHalfType
<1>6. /\ 2 * min_degree - 1 - min_degree = min_degree - 1
      /\ min_degree + (min_degree - 1) = 2 * min_degree - 1
  BY <1>1
<1> HIDE DEF left, right, ptrs
<1>7. /\ \A j \in 0 .. min_degree - 1 : right.keys[j] = y.keys[j + (min_degree - 1)]
      /\ \A j \in 0 .. min_degree : right.ptrs[j] = y.ptrs[j + (min_degree - 1)]
  BY <1>5, <1>6
<1>8. min_degree \in 0 .. min_degree /\ \A j \in 0 .. min_degree - 1 : j \in 0 .. min_degree
  BY <1>1
<1>9. right.ptrs[min_degree] = y.ptrs[2 * min_degree - 1]
  BY <1>6, <1>7, <1>8
<1> QED BY <1>2, <1>3, <1>4, <1>5, <1>7, <1>8, <1>9 DEF left, right

\* An entry of M is the one of N in another place, and no two are the same.
Placed(N, M, live, more, p, j, q, k) ==
  /\ q \in LeavesIn(N, live) /\ k \in 0 .. N[q].n_keys - 1
  /\ p \in LeavesIn(M, more) /\ j \in 0 .. M[p].n_keys - 1
  /\ M[p].keys[j] = N[q].keys[k] /\ M[p].ptrs[j] = N[q].ptrs[k]

LEMMA SplitEntries ==
  ASSUME NEW N, NEW M, NEW live, NEW height, NEW x_id, NEW i, NEW z,
         SplitIn(N, M, live, x_id, i, z), Hangs(N, live), Lowers(N, height)
  PROVE  /\ EntriesIn(M, live \cup {z}) = EntriesIn(N, live)
         /\ Unique(N, live) => Unique(M, live \cup {z})
<1> DEFINE x == N[x_id]
           c == x.ptrs[i]
           y == N[c]
           s == y.keys[min_degree - 1]
           more == live \cup {z}
<1>1. /\ x_id \in NodeIds /\ c \in NodeIds /\ c \in live /\ c # x_id /\ c # z /\ x_id # z
      /\ x \in NodeType /\ y \in NodeType /\ Halves(x, y, s, i, M[c], M[z], M[x_id], z)
  BY SplitHalves
<1>2. /\ ~x.is_leaf /\ Full(y) /\ z \notin live /\ z \in NodeIds /\ live \in SUBSET NodeIds
      /\ M[c] = LeftHalf(y, z) /\ M[z] = RightHalf(y)
      /\ \A p \in NodeIds \ {c, x_id, z} : M[p] = N[p]
  BY DEF SplitIn, Hangs
<1>3. M[c].is_leaf = y.is_leaf /\ M[z].is_leaf = y.is_leaf /\ ~M[x_id].is_leaf
  BY <1>1 DEF Halves
<1>4. \A p \in live : p \notin {c, x_id, z} => M[p] = N[p]
  BY <1>2
<1>5. min_degree \in Nat /\ min_degree >= 2
  BY Sizes
<1> HIDE DEF x, c, y, s, more
<1>6. N[c] = y /\ N[x_id] = x
  BY DEF x, y
<1>7. CASE ~y.is_leaf
  <2>1. LeavesIn(M, more) = LeavesIn(N, live)
    BY <1>1, <1>2, <1>3, <1>4, <1>6, <1>7 DEF LeavesIn, more
  <2>2. \A p \in LeavesIn(N, live) : M[p] = N[p]
    BY <1>1, <1>2, <1>4, <1>6, <1>7 DEF LeavesIn
  <2>3. EntriesIn(M, more) = EntriesIn(N, live)
    BY <2>1, <2>2 DEF EntriesIn
  <2>4. Unique(N, live) => Unique(M, more)
    BY <2>1, <2>2 DEF Unique
  <2> QED BY <2>3, <2>4 DEF more
<1>8. CASE y.is_leaf
  <2> DEFINE home(p) == IF p = z THEN c ELSE p
             place(p, j) == IF p = z THEN j + (min_degree - 1) ELSE j
  <2>1. /\ M[c].n_keys = min_degree - 1 /\ M[z].n_keys = min_degree
        /\ \A j \in 0 .. min_degree - 2 : M[c].keys[j] = y.keys[j] /\ M[c].ptrs[j] = y.ptrs[j]
        /\ \A j \in 0 .. min_degree - 1 :
             /\ M[z].keys[j] = y.keys[j + (min_degree - 1)]
             /\ M[z].ptrs[j] = y.ptrs[j + (min_degree - 1)]
    <3>1. /\ LeftHalf(y, z).n_keys = min_degree - 1 /\ RightHalf(y).n_keys = min_degree
          /\ \A j \in 0 .. min_degree - 2 :
               LeftHalf(y, z).keys[j] = y.keys[j] /\ LeftHalf(y, z).ptrs[j] = y.ptrs[j]
          /\ \A j \in 0 .. min_degree - 1 :
               /\ RightHalf(y).keys[j] = y.keys[j + (min_degree - 1)]
               /\ RightHalf(y).ptrs[j] = y.ptrs[j + (min_degree - 1)]
      BY <1>1, <1>2, <1>8, LeafHalves
    <3> QED BY ONLY <1>2, <3>1
  <2>2. y.n_keys = 2 * min_degree - 1
    BY <1>2 DEF Full
  <2>3. /\ LeavesIn(M, more) = LeavesIn(N, live) \cup {z}
        /\ c \in LeavesIn(N, live)
        /\ \A p \in LeavesIn(N, live) : p # c => M[p] = N[p]
        /\ z \notin LeavesIn(N, live)
    BY <1>1, <1>2, <1>3, <1>4, <1>6, <1>8 DEF LeavesIn, more
  <2>4. ASSUME NEW p \in LeavesIn(M, more), NEW j \in 0 .. M[p].n_keys - 1
        PROVE  Placed(N, M, live, more, p, j, home(p), place(p, j))
    <3>1. CASE p = z
      <4>1. j \in 0 .. min_degree - 1 /\ j + (min_degree - 1) \in 0 .. 2 * min_degree - 2
        BY <1>5, <2>1, <3>1
      <4>2. j + (min_degree - 1) \in 0 .. N[c].n_keys - 1
        BY <1>5, <1>6, <2>2, <4>1
      <4> QED BY <1>6, <2>1, <2>3, <3>1, <4>1, <4>2 DEF Placed
    <3>2. CASE p = c
      <4>1. j \in 0 .. min_degree - 2 /\ j \in 0 .. 2 * min_degree - 2
        BY <1>5, <2>1, <3>2
      <4>2. j \in 0 .. N[c].n_keys - 1
        BY <1>5, <1>6, <2>2, <4>1
      <4> QED BY <1>1, <1>6, <2>1, <2>3, <3>2, <4>1, <4>2 DEF Placed
    <3>3. CASE p # z /\ p # c
      <4>1. p \in LeavesIn(N, live) /\ M[p] = N[p]
        BY <2>3, <3>3
      <4> QED BY <3>3, <4>1 DEF Placed
    <3> QED BY <3>1, <3>2, <3>3
  <2>5. ASSUME NEW q \in LeavesIn(N, live), NEW k \in 0 .. N[q].n_keys - 1
        PROVE  \E p \in LeavesIn(M, more) : \E j \in 0 .. M[p].n_keys - 1 :
                 M[p].keys[j] = N[q].keys[k] /\ M[p].ptrs[j] = N[q].ptrs[k]
    <3>1. CASE q # c
      BY <2>3, <3>1
    <3>2. CASE q = c /\ k < min_degree - 1
      <4>1. k \in 0 .. min_degree - 2 /\ k \in 0 .. M[c].n_keys - 1 /\ c \in LeavesIn(M, more)
        BY <1>5, <2>1, <2>3, <3>2
      <4> QED BY <1>6, <2>1, <3>2, <4>1
    <3>3. CASE q = c /\ ~(k < min_degree - 1)
      <4> DEFINE j == k - (min_degree - 1)
      <4>1. /\ j \in 0 .. min_degree - 1 /\ j \in 0 .. M[z].n_keys - 1 /\ j + (min_degree - 1) = k
        BY <1>5, <1>6, <2>1, <2>2, <3>3
      <4>2. z \in LeavesIn(M, more)
        BY <2>3
      <4> HIDE DEF j
      <4>3. M[z].keys[j] = N[q].keys[k] /\ M[z].ptrs[j] = N[q].ptrs[k]
        BY <1>6, <2>1, <3>3, <4>1
      <4> QED BY <4>1, <4>2, <4>3
    <3> QED BY <3>1, <3>2, <3>3
  <2>6. EntriesIn(M, more) = EntriesIn(N, live)
    <3>1. ASSUME NEW e \in EntriesIn(M, more) PROVE e \in EntriesIn(N, live)
      <4>1. PICK p \in LeavesIn(M, more) : e \in EntriesOf(M[p])
        BY <3>1 DEF EntriesIn
      <4>2. PICK j \in 0 .. M[p].n_keys - 1 : e = <<M[p].keys[j], M[p].ptrs[j]>>
        BY <4>1 DEF EntriesOf
      <4>3. Placed(N, M, live, more, p, j, home(p), place(p, j))
        BY <2>4
      <4> HIDE DEF home, place
      <4>4. e \in EntriesOf(N[home(p)]) /\ home(p) \in LeavesIn(N, live)
        BY <4>2, <4>3 DEF Placed, EntriesOf
      <4> QED BY <4>4 DEF EntriesIn
    <3>2. ASSUME NEW e \in EntriesIn(N, live) PROVE e \in EntriesIn(M, more)
      <4>1. PICK q \in LeavesIn(N, live) : e \in EntriesOf(N[q])
        BY <3>2 DEF EntriesIn
      <4>2. PICK k \in 0 .. N[q].n_keys - 1 : e = <<N[q].keys[k], N[q].ptrs[k]>>
        BY <4>1 DEF EntriesOf
      <4>3. PICK p \in LeavesIn(M, more) : \E j \in 0 .. M[p].n_keys - 1 :
              M[p].keys[j] = N[q].keys[k] /\ M[p].ptrs[j] = N[q].ptrs[k]
        BY <2>5
      <4>4. e \in EntriesOf(M[p])
        BY <4>2, <4>3 DEF EntriesOf
      <4> QED BY <4>3, <4>4 DEF EntriesIn
    <3> QED BY <3>1, <3>2
  <2>7. ASSUME Unique(N, live), NEW p \in LeavesIn(M, more), NEW q \in LeavesIn(M, more),
               NEW j \in 0 .. M[p].n_keys - 1, NEW k \in 0 .. M[q].n_keys - 1,
               M[p].ptrs[j] = M[q].ptrs[k]
        PROVE  p = q /\ j = k
    <3>1. /\ Placed(N, M, live, more, p, j, home(p), place(p, j))
          /\ Placed(N, M, live, more, q, k, home(q), place(q, k))
      BY <2>4
    <3>2. home(p) = home(q) /\ place(p, j) = place(q, k)
      <4>1. PICK h1, h2, k1, k2 : /\ h1 = home(p) /\ h2 = home(q)
                                  /\ k1 = place(p, j) /\ k2 = place(q, k)
        OBVIOUS
      <4>2. /\ Placed(N, M, live, more, p, j, h1, k1)
            /\ Placed(N, M, live, more, q, k, h2, k2)
        BY ONLY <3>1, <4>1
      <4>3. /\ h1 \in LeavesIn(N, live) /\ k1 \in 0 .. N[h1].n_keys - 1
            /\ h2 \in LeavesIn(N, live) /\ k2 \in 0 .. N[h2].n_keys - 1
            /\ N[h1].ptrs[k1] = N[h2].ptrs[k2]
        BY ONLY <2>7, <4>2 DEF Placed
      <4>4. h1 = h2 /\ k1 = k2
        BY ONLY <2>7, <4>3 DEF Unique
      <4> QED BY ONLY <4>1, <4>4
    <3>3. j \in Nat /\ k \in Nat
      OBVIOUS
    <3>4. p = c => j < min_degree - 1
      BY <1>5, <2>1
    <3>5. q = c => k < min_degree - 1
      BY <1>5, <2>1
    <3>6. p = q
      <4>1. CASE p = z /\ q # z
        <5>1. q = c /\ j + (min_degree - 1) = k
          BY <3>2, <4>1
        <5> QED BY <1>5, <3>3, <3>5, <5>1
      <4>2. CASE q = z /\ p # z
        <5>1. p = c /\ k + (min_degree - 1) = j
          BY <3>2, <4>2
        <5> QED BY <1>5, <3>3, <3>4, <5>1
      <4>3. CASE p # z /\ q # z
        BY <3>2, <4>3
      <4> QED BY <4>1, <4>2, <4>3
    <3> QED BY <1>5, <3>2, <3>3, <3>6
  <2>8. Unique(N, live) => Unique(M, more)
    BY <2>7, Zenon DEF Unique
  <2> QED BY <2>6, <2>8 DEF more
<1> QED BY <1>7, <1>8

\* The same leaves on other pages hold the same.
LEMMA LeavesMoved ==
  ASSUME NEW N, NEW M, NEW live, NEW more,
         NEW home \in [LeavesIn(M, more) -> LeavesIn(N, live)],
         \A p, q \in LeavesIn(M, more) : home[p] = home[q] => p = q,
         \A q \in LeavesIn(N, live) : \E p \in LeavesIn(M, more) : home[p] = q,
         \A p \in LeavesIn(M, more) : M[p] = N[home[p]]
  PROVE  /\ EntriesIn(M, more) = EntriesIn(N, live)
         /\ Unique(N, live) => Unique(M, more)
<1>1. EntriesIn(M, more) \subseteq EntriesIn(N, live)
  <2> SUFFICES ASSUME NEW e \in EntriesIn(M, more) PROVE e \in EntriesIn(N, live)
    OBVIOUS
  <2>1. PICK p \in LeavesIn(M, more) : e \in EntriesOf(M[p])
    BY DEF EntriesIn
  <2>2. home[p] \in LeavesIn(N, live) /\ M[p] = N[home[p]]
    OBVIOUS
  <2> QED BY <2>1, <2>2 DEF EntriesIn
<1>2. EntriesIn(N, live) \subseteq EntriesIn(M, more)
  <2> SUFFICES ASSUME NEW e \in EntriesIn(N, live) PROVE e \in EntriesIn(M, more)
    OBVIOUS
  <2>1. PICK q \in LeavesIn(N, live) : e \in EntriesOf(N[q])
    BY DEF EntriesIn
  <2>2. PICK p \in LeavesIn(M, more) : home[p] = q
    OBVIOUS
  <2> QED BY <2>1, <2>2 DEF EntriesIn
<1>3. ASSUME Unique(N, live) PROVE Unique(M, more)
  <2> SUFFICES ASSUME NEW p \in LeavesIn(M, more), NEW q \in LeavesIn(M, more),
                      NEW i \in 0 .. M[p].n_keys - 1, NEW j \in 0 .. M[q].n_keys - 1,
                      M[p].ptrs[i] = M[q].ptrs[j]
               PROVE  p = q /\ i = j
    BY Zenon DEF Unique
  <2>1. PICK h1, h2 : h1 = home[p] /\ h2 = home[q]
    OBVIOUS
  <2>2. /\ h1 \in LeavesIn(N, live) /\ M[p] = N[h1]
        /\ h2 \in LeavesIn(N, live) /\ M[q] = N[h2]
    BY <2>1
  <2>3. /\ i \in 0 .. N[h1].n_keys - 1 /\ j \in 0 .. N[h2].n_keys - 1
        /\ N[h1].ptrs[i] = N[h2].ptrs[j]
    BY <2>2
  <2>4. h1 = h2 /\ i = j
    BY ONLY <1>3, <2>2, <2>3 DEF Unique
  <2> QED BY <2>1, <2>4
<1> QED BY <1>1, <1>2, <1>3

\* An entry is added in place k of a leaf, one is taken from place i.  The link stays last.
Added(x, new, k, key, ref) ==
  /\ k \in 0 .. x.n_keys /\ x.n_keys \in Nat
  /\ new.n_keys = x.n_keys + 1
  /\ new.keys[k] = key /\ new.ptrs[k] = ref
  /\ \A j \in 0 .. k - 1 : new.keys[j] = x.keys[j] /\ new.ptrs[j] = x.ptrs[j]
  /\ \A j \in k .. x.n_keys - 1 :
       new.keys[j + 1] = x.keys[j] /\ new.ptrs[j + 1] = x.ptrs[j]
  /\ new.ptrs[x.n_keys + 1] = x.ptrs[x.n_keys]

Taken(x, new, i) ==
  /\ i \in 0 .. x.n_keys - 1 /\ x.n_keys \in Nat
  /\ new.n_keys = x.n_keys - 1
  /\ \A j \in 0 .. i - 1 : new.keys[j] = x.keys[j] /\ new.ptrs[j] = x.ptrs[j]
  /\ \A j \in i + 1 .. x.n_keys - 1 :
       new.keys[j - 1] = x.keys[j] /\ new.ptrs[j - 1] = x.ptrs[j]
  /\ new.ptrs[x.n_keys - 1] = x.ptrs[x.n_keys]

LEMMA WithEntryPlaces ==
  ASSUME NEW x \in NodeType, ~Full(x), NEW key \in Keys, NEW ref \in AnyPtr
  PROVE  Added(x, WithEntry(x, key, ref), UpperIndex(x, key), key, ref)
<1> DEFINE n == x.n_keys
           k == UpperIndex(x, key)
           keys == Opened(x.keys, k, n, key)
           ptrs == Opened(x.ptrs, k, n + 1, ref)
           new == WithEntry(x, key, ref)
<1>1. /\ n \in Nat /\ n <= 2 * min_degree - 2
      /\ DOMAIN x.keys = 0 .. 2 * min_degree - 2 /\ DOMAIN x.ptrs = 0 .. 2 * min_degree - 1
  BY NodeFields, Sizes DEF Full, KeySlots, PtrSlots
<1>2. k \in 0 .. n
  BY UpperIndexFacts
<1>3. new.n_keys = n + 1 /\ new.keys = keys /\ new.ptrs = ptrs
  <2>1. DOMAIN x = {"is_leaf", "n_keys", "keys", "ptrs"}
    BY DEF NodeType
  <2> HIDE DEF keys, ptrs
  <2> QED BY <2>1 DEF WithEntry, keys, ptrs
<1> HIDE DEF k, n
<1>4. \A j \in 0 .. n : j \in DOMAIN x.keys /\ j \in DOMAIN x.ptrs
  BY <1>1, Sizes
<1>5. keys[k] = key /\ ptrs[k] = ref
  BY <1>2, <1>4 DEF Opened
<1>6. ASSUME NEW j \in 0 .. k - 1 PROVE keys[j] = x.keys[j] /\ ptrs[j] = x.ptrs[j]
  <2>1. j \in 0 .. n /\ j # k /\ j \notin k + 1 .. n /\ j \notin k + 1 .. n + 1
    BY <1>1, <1>2
  <2> QED BY <1>4, <2>1 DEF Opened
<1>7. ASSUME NEW j \in k .. n - 1 PROVE keys[j + 1] = x.keys[j] /\ ptrs[j + 1] = x.ptrs[j]
  <2>1. /\ j + 1 \in 0 .. n /\ j + 1 # k /\ j + 1 \in k + 1 .. n /\ j + 1 \in k + 1 .. n + 1
        /\ (j + 1) - 1 = j
    BY <1>1, <1>2
  <2> QED BY <1>4, <2>1 DEF Opened
<1>8. ptrs[n + 1] = x.ptrs[n]
  <2>1. n + 1 \in DOMAIN x.ptrs /\ n + 1 # k /\ n + 1 \in k + 1 .. n + 1 /\ (n + 1) - 1 = n
    BY <1>1, <1>2, Sizes
  <2> QED BY <2>1 DEF Opened
<1> HIDE DEF keys, ptrs, new
<1>9. Added(x, new, k, key, ref)
  BY <1>1, <1>2, <1>3, <1>5, <1>6, <1>7, <1>8 DEF n, Added
<1> QED BY <1>9 DEF k, new

LEMMA WithoutEntryPlaces ==
  ASSUME NEW x \in NodeType, NEW i \in 0 .. x.n_keys - 1
  PROVE  Taken(x, WithoutEntry(x, i), i)
<1> DEFINE n == x.n_keys
           last == IF i < n - 1 THEN n - 1 ELSE i
           keys == [j \in KeySlots |-> IF j \in i .. last - 1 THEN x.keys[j + 1] ELSE x.keys[j]]
           ptrs == [j \in PtrSlots |-> IF j \in i .. last THEN x.ptrs[j + 1] ELSE x.ptrs[j]]
           new == WithoutEntry(x, i)
<1>1. n \in Nat /\ n <= 2 * min_degree - 1
  BY NodeFields
<1>2. new.n_keys = n - 1 /\ new.keys = keys /\ new.ptrs = ptrs
  <2>1. DOMAIN x = {"is_leaf", "n_keys", "keys", "ptrs"}
    BY DEF NodeType
  <2> HIDE DEF keys, ptrs
  <2> QED BY <2>1 DEF WithoutEntry, keys, ptrs
<1> HIDE DEF n
<1>3. i \in 0 .. n - 1 /\ last = n - 1
  BY <1>1 DEF n
<1> HIDE DEF last
<1>4. ASSUME NEW j \in 0 .. i - 1 PROVE keys[j] = x.keys[j] /\ ptrs[j] = x.ptrs[j]
  <2>1. j \in KeySlots /\ j \in PtrSlots /\ j \notin i .. last - 1 /\ j \notin i .. last
    BY <1>1, <1>3, Sizes DEF KeySlots, PtrSlots
  <2> QED BY <2>1
<1>5. ASSUME NEW j \in i + 1 .. n - 1
      PROVE  keys[j - 1] = x.keys[j] /\ ptrs[j - 1] = x.ptrs[j]
  <2>1. /\ j - 1 \in KeySlots /\ j - 1 \in PtrSlots
        /\ j - 1 \in i .. last - 1 /\ j - 1 \in i .. last /\ (j - 1) + 1 = j
    BY <1>1, <1>3, Sizes DEF KeySlots, PtrSlots
  <2> QED BY <2>1
<1>6. ptrs[n - 1] = x.ptrs[n]
  <2>1. n - 1 \in PtrSlots /\ n - 1 \in i .. last /\ (n - 1) + 1 = n
    BY <1>1, <1>3, Sizes DEF PtrSlots
  <2> QED BY <2>1
<1> HIDE DEF keys, ptrs, new
<1>7. Taken(x, new, i)
  BY <1>1, <1>2, <1>4, <1>5, <1>6 DEF n, Taken
<1> QED BY <1>7 DEF new

LEMMA EntryAdded ==
  ASSUME NEW N, NEW M, NEW live, NEW p \in LeavesIn(N, live),
         LeavesIn(M, live) = LeavesIn(N, live), \A q \in LeavesIn(N, live) \ {p} : M[q] = N[q],
         NEW k, NEW key, NEW ref, Added(N[p], M[p], k, key, ref)
  PROVE  /\ EntriesIn(M, live) = EntriesIn(N, live) \cup {<<key, ref>>}
         /\ Unique(N, live) /\ (\A e \in EntriesIn(N, live) : e[2] # ref) => Unique(M, live)
<1> DEFINE leaves == LeavesIn(N, live)
           x == N[p]
           new == M[p]
<1>1. /\ k \in 0 .. x.n_keys /\ x.n_keys \in Nat
      /\ new.n_keys = x.n_keys + 1
      /\ new.keys[k] = key /\ new.ptrs[k] = ref
      /\ \A j \in 0 .. k - 1 : new.keys[j] = x.keys[j] /\ new.ptrs[j] = x.ptrs[j]
      /\ \A j \in k .. x.n_keys - 1 :
           new.keys[j + 1] = x.keys[j] /\ new.ptrs[j + 1] = x.ptrs[j]
  BY DEF Added
<1>2. /\ EntriesIn(N, live) = UNION {EntriesOf(N[q]) : q \in leaves}
      /\ EntriesIn(M, live) = UNION {EntriesOf(M[q]) : q \in leaves}
      /\ p \in leaves
      /\ \A q \in leaves : q # p => M[q] = N[q]
  BY DEF EntriesIn
\* Where an entry came from.
<1> DEFINE back(q, i) == IF q = p /\ i > k THEN i - 1 ELSE i
<1>3. ASSUME NEW q \in leaves, NEW i \in 0 .. M[q].n_keys - 1, q # p \/ i # k
      PROVE  /\ back(q, i) \in 0 .. N[q].n_keys - 1
             /\ M[q].keys[i] = N[q].keys[back(q, i)] /\ M[q].ptrs[i] = N[q].ptrs[back(q, i)]
  <2>1. CASE q # p
    BY <1>2, <2>1
  <2>2. CASE q = p /\ i < k
    <3>1. i \in 0 .. k - 1 /\ ~(i > k) /\ i \in 0 .. x.n_keys - 1
      BY <1>1, <2>2
    <3> QED BY <1>1, <2>2, <3>1
  <2>3. CASE q = p /\ i > k
    <3> DEFINE j == i - 1
    <3>1. j \in k .. x.n_keys - 1 /\ j \in 0 .. x.n_keys - 1 /\ j + 1 = i
      BY <1>1, <2>3
    <3> HIDE DEF j
    <3>2. new.keys[i] = x.keys[j] /\ new.ptrs[i] = x.ptrs[j]
      BY <1>1, <3>1
    <3> QED BY <2>3, <3>1, <3>2 DEF j
  <2>4. q = p => i < k \/ i > k
    BY <1>1, <1>3
  <2> QED BY <2>1, <2>2, <2>3, <2>4
<1>4. ASSUME NEW j \in 0 .. x.n_keys - 1
      PROVE  \E i \in 0 .. new.n_keys - 1 : new.keys[i] = x.keys[j] /\ new.ptrs[i] = x.ptrs[j]
  <2>1. CASE j < k
    <3>1. j \in 0 .. k - 1 /\ j \in 0 .. new.n_keys - 1
      BY <1>1, <2>1
    <3> QED BY <1>1, <3>1
  <2>2. CASE ~(j < k)
    <3>1. j \in k .. x.n_keys - 1 /\ j + 1 \in 0 .. new.n_keys - 1
      BY <1>1, <2>2
    <3> QED BY <1>1, <3>1
  <2> QED BY <2>1, <2>2
<1>5. k \in 0 .. new.n_keys - 1
  BY <1>1
<1>6. EntriesIn(M, live) = EntriesIn(N, live) \cup {<<key, ref>>}
  <2>1. ASSUME NEW e \in EntriesIn(M, live), e # <<key, ref>> PROVE e \in EntriesIn(N, live)
    <3>1. PICK q \in leaves : e \in EntriesOf(M[q])
      BY <1>2
    <3>2. PICK i \in 0 .. M[q].n_keys - 1 : e = <<M[q].keys[i], M[q].ptrs[i]>>
      BY <3>1 DEF EntriesOf
    <3>3. q # p \/ i # k
      BY <1>1, <2>1, <3>2
    <3>4. PICK j : /\ j \in 0 .. N[q].n_keys - 1
                   /\ M[q].keys[i] = N[q].keys[j] /\ M[q].ptrs[i] = N[q].ptrs[j]
      BY <1>3, <3>3
    <3>5. e \in EntriesOf(N[q])
      BY <3>2, <3>4 DEF EntriesOf
    <3> QED BY <1>2, <3>5
  <2>2. ASSUME NEW e \in EntriesIn(N, live) PROVE e \in EntriesIn(M, live)
    <3>1. PICK q \in leaves : e \in EntriesOf(N[q])
      BY <1>2
    <3>2. CASE q = p
      <4>1. PICK j \in 0 .. x.n_keys - 1 : e = <<x.keys[j], x.ptrs[j]>>
        BY <3>1, <3>2 DEF EntriesOf
      <4>2. PICK i \in 0 .. new.n_keys - 1 : new.keys[i] = x.keys[j] /\ new.ptrs[i] = x.ptrs[j]
        BY <1>4
      <4>3. e \in EntriesOf(M[q])
        BY <3>2, <4>1, <4>2 DEF EntriesOf
      <4> QED BY <1>2, <4>3
    <3>3. CASE q # p
      BY <1>2, <3>1, <3>3
    <3> QED BY <3>2, <3>3
  <2>3. <<key, ref>> \in EntriesIn(M, live)
    <3>1. <<key, ref>> \in EntriesOf(M[p])
      BY <1>1, <1>5 DEF EntriesOf
    <3> QED BY <1>2, <3>1
  <2> QED BY <2>1, <2>2, <2>3
<1>7. ASSUME Unique(N, live), \A e \in EntriesIn(N, live) : e[2] # ref PROVE Unique(M, live)
  <2>1. ASSUME NEW q \in leaves, NEW i \in 0 .. N[q].n_keys - 1 PROVE N[q].ptrs[i] # ref
    <3>1. <<N[q].keys[i], N[q].ptrs[i]>> \in EntriesIn(N, live)
      BY <1>2 DEF EntriesOf
    <3> QED BY <1>7, <3>1
  <2>2. SUFFICES ASSUME NEW q \in leaves, NEW r \in leaves,
                        NEW i \in 0 .. M[q].n_keys - 1, NEW j \in 0 .. M[r].n_keys - 1,
                        M[q].ptrs[i] = M[r].ptrs[j]
                 PROVE  q = r /\ i = j
    BY Zenon DEF Unique
  <2>3. CASE (q = p /\ i = k) /\ (r = p /\ j = k)
    BY <2>3
  <2>4. CASE (q = p /\ i = k) /\ ~(r = p /\ j = k)
    <3>1. PICK m : m \in 0 .. N[r].n_keys - 1 /\ M[r].ptrs[j] = N[r].ptrs[m]
      BY <1>3, <2>4
    <3> QED BY <1>1, <2>1, <2>2, <2>4, <3>1
  <2>5. CASE ~(q = p /\ i = k) /\ (r = p /\ j = k)
    <3>1. PICK m : m \in 0 .. N[q].n_keys - 1 /\ M[q].ptrs[i] = N[q].ptrs[m]
      BY <1>3, <2>5
    <3> QED BY <1>1, <2>1, <2>2, <2>5, <3>1
  <2>6. CASE ~(q = p /\ i = k) /\ ~(r = p /\ j = k)
    <3>1. PICK l, m : l = back(q, i) /\ m = back(r, j)
      OBVIOUS
    <3>2. l \in 0 .. N[q].n_keys - 1 /\ M[q].ptrs[i] = N[q].ptrs[l]
      BY <1>3, <2>6, <3>1
    <3>3. m \in 0 .. N[r].n_keys - 1 /\ M[r].ptrs[j] = N[r].ptrs[m]
      BY <1>3, <2>6, <3>1
    <3>4. q \in LeavesIn(N, live) /\ r \in LeavesIn(N, live) /\ N[q].ptrs[l] = N[r].ptrs[m]
      BY <2>2, <3>2, <3>3
    <3>5. q = r /\ l = m
      BY ONLY <1>7, <3>2, <3>3, <3>4 DEF Unique
    <3>6. i \in Int /\ j \in Int /\ k \in Int
      BY <1>1
    <3>7. q = p => i # k /\ j # k
      BY <2>6, <3>5
    <3> QED BY <3>1, <3>5, <3>6, <3>7
  <2> QED BY <2>3, <2>4, <2>5, <2>6
<1> QED BY <1>6, <1>7

LEMMA EntryTaken ==
  ASSUME NEW N, NEW M, NEW live, NEW p \in LeavesIn(N, live),
         LeavesIn(M, live) = LeavesIn(N, live), \A q \in LeavesIn(N, live) \ {p} : M[q] = N[q],
         NEW k, Taken(N[p], M[p], k), Unique(N, live)
  PROVE  /\ <<N[p].keys[k], N[p].ptrs[k]>> \in EntriesIn(N, live)
         /\ EntriesIn(M, live) = EntriesIn(N, live) \ {<<N[p].keys[k], N[p].ptrs[k]>>}
         /\ Unique(M, live)
<1> DEFINE leaves == LeavesIn(N, live)
           x == N[p]
           new == M[p]
           gone == <<x.keys[k], x.ptrs[k]>>
<1>1. /\ k \in 0 .. x.n_keys - 1 /\ x.n_keys \in Nat
      /\ new.n_keys = x.n_keys - 1
      /\ \A j \in 0 .. k - 1 : new.keys[j] = x.keys[j] /\ new.ptrs[j] = x.ptrs[j]
      /\ \A j \in k + 1 .. x.n_keys - 1 :
           new.keys[j - 1] = x.keys[j] /\ new.ptrs[j - 1] = x.ptrs[j]
  BY DEF Taken
<1>2. /\ EntriesIn(N, live) = UNION {EntriesOf(N[q]) : q \in leaves}
      /\ EntriesIn(M, live) = UNION {EntriesOf(M[q]) : q \in leaves}
      /\ p \in leaves
      /\ \A q \in leaves : q # p => M[q] = N[q]
  BY DEF EntriesIn
<1> DEFINE back(q, i) == IF q = p /\ ~(i < k) THEN i + 1 ELSE i
<1>3. ASSUME NEW q \in leaves, NEW i \in 0 .. M[q].n_keys - 1
      PROVE  /\ back(q, i) \in 0 .. N[q].n_keys - 1 /\ (q = p => back(q, i) # k)
             /\ M[q].keys[i] = N[q].keys[back(q, i)] /\ M[q].ptrs[i] = N[q].ptrs[back(q, i)]
  <2>1. CASE q # p
    BY <1>2, <2>1
  <2>2. CASE q = p /\ i < k
    <3>1. i \in 0 .. k - 1 /\ i \in 0 .. x.n_keys - 1 /\ i # k
      BY <1>1, <2>2
    <3> QED BY <1>1, <2>2, <3>1
  <2>3. CASE q = p /\ ~(i < k)
    <3> DEFINE j == i + 1
    <3>1. j \in k + 1 .. x.n_keys - 1 /\ j \in 0 .. x.n_keys - 1 /\ j - 1 = i /\ j # k
      BY <1>1, <2>3
    <3> HIDE DEF j
    <3>2. new.keys[i] = x.keys[j] /\ new.ptrs[i] = x.ptrs[j]
      BY <1>1, <3>1
    <3> QED BY <2>3, <3>1, <3>2 DEF j
  <2> QED BY <2>1, <2>2, <2>3
<1>4. ASSUME NEW j \in 0 .. x.n_keys - 1, j # k
      PROVE  \E i \in 0 .. new.n_keys - 1 : new.keys[i] = x.keys[j] /\ new.ptrs[i] = x.ptrs[j]
  <2>1. CASE j < k
    <3>1. j \in 0 .. k - 1 /\ j \in 0 .. new.n_keys - 1
      BY <1>1, <2>1
    <3> QED BY <1>1, <3>1
  <2>2. CASE ~(j < k)
    <3>1. j \in k + 1 .. x.n_keys - 1 /\ j - 1 \in 0 .. new.n_keys - 1
      BY <1>1, <1>4, <2>2
    <3> QED BY <1>1, <3>1
  <2> QED BY <2>1, <2>2
\* The pointer is in no other place.
<1>5. ASSUME NEW q \in leaves, NEW i \in 0 .. N[q].n_keys - 1, N[q].ptrs[i] = x.ptrs[k]
      PROVE  q = p /\ i = k
  <2>1. q \in LeavesIn(N, live) /\ p \in LeavesIn(N, live) /\ k \in 0 .. N[p].n_keys - 1
    BY <1>1
  <2> QED BY ONLY <1>5, <2>1, Unique(N, live) DEF Unique
<1>6. gone \in EntriesIn(N, live)
  <2>1. gone \in EntriesOf(N[p])
    BY <1>1 DEF EntriesOf
  <2> QED BY <1>2, <2>1
<1>7. EntriesIn(M, live) = EntriesIn(N, live) \ {gone}
  <2>1. ASSUME NEW e \in EntriesIn(M, live) PROVE e \in EntriesIn(N, live) /\ e # gone
    <3>1. PICK q \in leaves : e \in EntriesOf(M[q])
      BY <1>2
    <3>2. PICK i \in 0 .. M[q].n_keys - 1 : e = <<M[q].keys[i], M[q].ptrs[i]>>
      BY <3>1 DEF EntriesOf
    <3>3. PICK j : /\ j \in 0 .. N[q].n_keys - 1 /\ (q = p => j # k)
                   /\ M[q].keys[i] = N[q].keys[j] /\ M[q].ptrs[i] = N[q].ptrs[j]
      BY <1>3
    <3>4. e \in EntriesOf(N[q])
      BY <3>2, <3>3 DEF EntriesOf
    <3>5. e[2] = N[q].ptrs[j] /\ gone[2] = x.ptrs[k]
      BY <3>2, <3>3
    <3>6. e # gone
      BY <1>5, <3>3, <3>5
    <3> QED BY <1>2, <3>4, <3>6
  <2>2. ASSUME NEW e \in EntriesIn(N, live), e # gone PROVE e \in EntriesIn(M, live)
    <3>1. PICK q \in leaves : e \in EntriesOf(N[q])
      BY <1>2
    <3>2. CASE q = p
      <4>1. PICK j \in 0 .. x.n_keys - 1 : e = <<x.keys[j], x.ptrs[j]>>
        BY <3>1, <3>2 DEF EntriesOf
      <4>2. j # k
        BY <2>2, <4>1
      <4>3. PICK i \in 0 .. new.n_keys - 1 : new.keys[i] = x.keys[j] /\ new.ptrs[i] = x.ptrs[j]
        BY <1>4, <4>2
      <4>4. e \in EntriesOf(M[q])
        BY <3>2, <4>1, <4>3 DEF EntriesOf
      <4> QED BY <1>2, <4>4
    <3>3. CASE q # p
      BY <1>2, <3>1, <3>3
    <3> QED BY <3>2, <3>3
  <2> QED BY <2>1, <2>2
<1>8. Unique(M, live)
  <2>1. SUFFICES ASSUME NEW q \in leaves, NEW r \in leaves,
                        NEW i \in 0 .. M[q].n_keys - 1, NEW j \in 0 .. M[r].n_keys - 1,
                        M[q].ptrs[i] = M[r].ptrs[j]
                 PROVE  q = r /\ i = j
    BY Zenon DEF Unique
  <2>2. PICK l, m : l = back(q, i) /\ m = back(r, j)
    OBVIOUS
  <2>3. l \in 0 .. N[q].n_keys - 1 /\ M[q].ptrs[i] = N[q].ptrs[l]
    BY <1>3, <2>2
  <2>4. m \in 0 .. N[r].n_keys - 1 /\ M[r].ptrs[j] = N[r].ptrs[m]
    BY <1>3, <2>2
  <2>5. q \in LeavesIn(N, live) /\ r \in LeavesIn(N, live) /\ N[q].ptrs[l] = N[r].ptrs[m]
    BY <2>1, <2>3, <2>4
  <2>6. q = r /\ l = m
    BY ONLY <2>3, <2>4, <2>5, Unique(N, live) DEF Unique
  <2>7. i \in Int /\ j \in Int /\ k \in Int
    BY <1>1
  <2> QED BY <2>2, <2>6, <2>7
<1> QED BY <1>6, <1>7, <1>8
-----------------------------------------------------------------------------
(* What the steps do to the entries.                                       *)

EntriesStay == Entries' = Entries /\ (Unique(nodes, Live) => Unique(nodes, Live)')

LEMMA EntriesNow ==
  ASSUME TypeInv, NEW live, NEW height, NEW allowed, IsTree(nodes, live, height, allowed)
  PROVE  Live = live /\ Entries = EntriesIn(nodes, live)
BY LiveIs, Zenon DEF TreeIsLive

LEMMA EntriesLater ==
  ASSUME TypeInv', NEW live, GrowsTo(live)
  PROVE  Live' = live /\ Entries' = EntriesIn(nodes', live)
<1>1. PICK height, allowed : IsTree(nodes', live, height, allowed)
  BY Zenon DEF GrowsTo, Grows
<1>2. TreeIsLive'
  BY LiveIsLater
<1> QED BY <1>1, <1>2, Zenon DEF TreeIsLive

LEMMA SameEntries ==
  ASSUME TypeInv, TypeInv',
         NEW live, NEW height, NEW allowed, IsTree(nodes, live, height, allowed),
         NEW more, GrowsTo(more), EntriesIn(nodes', more) = EntriesIn(nodes, live),
         Unique(nodes, live) => Unique(nodes', more)
  PROVE  EntriesStay
<1>1. Live = live /\ Entries = EntriesIn(nodes, live)
  BY EntriesNow
<1>2. Live' = more /\ Entries' = EntriesIn(nodes', more)
  BY EntriesLater
<1>3. Unique(nodes, Live)' <=> Unique(nodes', Live')
  BY Zenon DEF Unique, LeavesIn
<1>4. Unique(nodes, live) <=> Unique(nodes, Live)
  BY <1>1
<1>5. Unique(nodes', more) <=> Unique(nodes', Live')
  BY <1>2
<1> QED BY <1>1, <1>2, <1>3, <1>4, <1>5, Zenon DEF EntriesStay

\* The leaves of the tree are where they were.
LEMMA LeavesStay ==
  ASSUME TypeInv, TypeInv',
         NEW live, NEW height, NEW allowed, IsTree(nodes, live, height, allowed),
         GrowsTo(live), \A p \in live : nodes'[p] = nodes[p]
  PROVE  EntriesStay
<1> DEFINE home == [p \in LeavesIn(nodes', live) |-> p]
<1>1. LeavesIn(nodes', live) = LeavesIn(nodes, live)
  BY DEF LeavesIn
<1>2. \A p \in LeavesIn(nodes', live) : home[p] = p /\ nodes'[p] = nodes[p]
  BY DEF LeavesIn
<1>3. home \in [LeavesIn(nodes', live) -> LeavesIn(nodes, live)]
  BY <1>1
<1> HIDE DEF home
<1>4. /\ EntriesIn(nodes', live) = EntriesIn(nodes, live)
      /\ Unique(nodes, live) => Unique(nodes', live)
  BY <1>1, <1>2, <1>3, LeavesMoved
<1> QED BY <1>4, SameEntries

LEMMA NodesStayEntries ==
  ASSUME TypeInv, TypeInv', TreeInv, nodes' = nodes
  PROVE  EntriesStay
<1>1. TreeIsLive /\ TreeIsLive'
  BY LiveIs, LiveIsLater
<1>2. PICK live, height, allowed : IsTree(nodes, live, height, allowed)
  BY Zenon DEF TreeInv
<1>3. Live = live /\ Entries = EntriesIn(nodes, live)
  BY <1>1, <1>2, Zenon DEF TreeIsLive
<1>4. IsTree(nodes', live, height, allowed)
  BY <1>2
<1>5. Live' = live /\ Entries' = EntriesIn(nodes', live)
  BY <1>1, <1>4, Zenon DEF TreeIsLive
<1>6. Unique(nodes, Live)' <=> Unique(nodes', Live')
  BY Zenon DEF Unique, LeavesIn
<1>7. Unique(nodes, Live) <=> Unique(nodes', Live')
  BY <1>3, <1>5
<1> QED BY <1>3, <1>5, <1>6, <1>7, Zenon DEF EntriesStay

LEMMA CopyRootEntries ==
  ASSUME TypeInv, TypeInv', TreeInv, CopyRoot
  PROVE  EntriesStay
<1>1. PICK live, height, allowed : IsTree(nodes, live, height, allowed) /\ OpInTree(live, allowed)
  BY Zenon DEF TreeInv
<1>2. GrowsTo(live)
  BY <1>1, CopyRootTree
<1>3. PICK s \in NodeIds : s \notin allocated /\ nodes' = [nodes EXCEPT ![s] = nodes[root_id]]
  BY DEF CopyRoot, IsNewPage
<1>4. live \in SUBSET allocated /\ live \in SUBSET NodeIds
  BY <1>1 DEF OpInTree, IsTree, Hangs
<1>5. \A p \in live : nodes'[p] = nodes[p]
  BY <1>3, <1>4 DEF TypeInv, NodesInv
<1> QED BY <1>1, <1>2, <1>5, LeavesStay

\* The copy of the root holds what the root held.
LEMMA NewRootEntries ==
  ASSUME TypeInv, NEW live, NEW height, NEW allowed,
         IsTree(nodes, live, height, allowed), OpInTree(live, allowed),
         op.kind = "split_root", op.copy # NULL_PAGE
  PROVE  /\ EntriesIn(WithNewRoot, live \cup {op.copy}) = EntriesIn(nodes, live)
         /\ Unique(nodes, live) => Unique(WithNewRoot, live \cup {op.copy})
<1> DEFINE s == op.copy
           N == WithNewRoot
           more == live \cup {s}
           home == [p \in LeavesIn(N, more) |-> IF p = s THEN root_id ELSE p]
<1>1. /\ s \in NodeIds /\ s # root_id /\ nodes[s] = nodes[root_id] /\ root_id \in NodeIds
      /\ nodes \in [NodeIds -> NodeType]
  BY Sizes DEF TypeInv, OpInv, NodesInv
<1>2. s \notin live /\ live \in SUBSET NodeIds /\ root_id \in live
  BY DEF OpInTree, IsTree, Hangs
<1>3. ~N[root_id].is_leaf /\ \A p \in NodeIds \ {root_id} : N[p] = nodes[p]
  <2>1. N[root_id] = NewRoot /\ \A p \in NodeIds \ {root_id} : N[p] = nodes[p]
    BY <1>1 DEF WithNewRoot
  <2> DEFINE r == nodes[root_id]
             ptrs == [r.ptrs EXCEPT ![0] = s]
  <2>2. NewRoot = [r EXCEPT !.is_leaf = FALSE, !.n_keys = 0, !.ptrs = ptrs]
    BY Zenon DEF NewRoot
  <2>3. r \in NodeType
    BY <1>1
  <2> HIDE DEF r, ptrs
  <2>4. ~NewRoot.is_leaf
    BY <2>2, <2>3 DEF NodeType
  <2> QED BY <2>1, <2>4
<1> HIDE DEF N, s
<1>4. ASSUME NEW p \in LeavesIn(N, more)
      PROVE  /\ p \in more /\ p # root_id /\ N[p] = nodes[p]
             /\ home[p] \in LeavesIn(nodes, live) /\ N[p] = nodes[home[p]]
  <2>1. p \in more /\ N[p].is_leaf
    BY DEF LeavesIn
  <2>2. p # root_id /\ N[p] = nodes[p]
    BY <1>1, <1>2, <1>3, <2>1
  <2>3. home[p] = IF p = s THEN root_id ELSE p
    OBVIOUS
  <2> HIDE DEF home
  <2> QED BY <1>1, <1>2, <2>1, <2>2, <2>3 DEF LeavesIn
<1>5. ASSUME NEW q \in LeavesIn(nodes, live) PROVE \E p \in LeavesIn(N, more) : home[p] = q
  <2>1. q \in live /\ nodes[q].is_leaf
    BY DEF LeavesIn
  <2>2. CASE q = root_id
    <3>1. s \in LeavesIn(N, more)
      BY <1>1, <1>3, <2>1, <2>2 DEF LeavesIn
    <3>2. home[s] = root_id
      BY <3>1
    <3> QED BY <2>2, <3>1, <3>2
  <2>3. CASE q # root_id
    <3>1. q \in LeavesIn(N, more) /\ q # s
      BY <1>2, <1>3, <2>1, <2>3 DEF LeavesIn
    <3>2. home[q] = q
      BY <3>1
    <3> QED BY <3>1, <3>2
  <2> QED BY <2>2, <2>3
<1>6. home \in [LeavesIn(N, more) -> LeavesIn(nodes, live)]
  <2>1. \A p \in LeavesIn(N, more) : home[p] = IF p = s THEN root_id ELSE p
    OBVIOUS
  <2> QED BY <1>4, <2>1
<1>7. \A p, q \in LeavesIn(N, more) : home[p] = home[q] => p = q
  BY <1>4
<1> HIDE DEF home, more
<1>8. /\ EntriesIn(N, more) = EntriesIn(nodes, live)
      /\ Unique(nodes, live) => Unique(N, more)
  BY <1>4, <1>5, <1>6, <1>7, LeavesMoved
<1> QED BY <1>8 DEF more, N, s

LEMMA SplitAndInsertBelowEntries ==
  ASSUME TypeInv, TypeInv', TreeInv, SplitAndInsertBelow
  PROVE  EntriesStay
<1>1. PICK live, height, allowed : IsTree(nodes, live, height, allowed) /\ OpInTree(live, allowed)
  BY Zenon DEF TreeInv
<1> DEFINE i == UpperIndex(nodes[op.at], op.key)
<1>2. PICK z \in NodeIds :
        SplitIn(nodes, nodes', live, op.at, i, z) /\ GrowsTo(live \cup {z})
  BY <1>1, SplitAndInsertBelowTree
<1>3. Hangs(nodes, live) /\ Lowers(nodes, height)
  BY <1>1 DEF IsTree
<1> HIDE DEF i
<1>4. /\ EntriesIn(nodes', live \cup {z}) = EntriesIn(nodes, live)
      /\ Unique(nodes, live) => Unique(nodes', live \cup {z})
  BY <1>2, <1>3, SplitEntries
<1>5. PICK more : more = live \cup {z}
  OBVIOUS
<1> QED BY <1>1, <1>2, <1>4, <1>5, SameEntries

LEMMA SplitRootEntries ==
  ASSUME TypeInv, TypeInv', TreeInv, SplitRoot
  PROVE  EntriesStay
<1>1. PICK live, height, allowed : IsTree(nodes, live, height, allowed) /\ OpInTree(live, allowed)
  BY Zenon DEF TreeInv
<1>2. PICK z \in NodeIds :
        /\ SplitIn(WithNewRoot, nodes', live \cup {op.copy}, root_id, 0, z)
        /\ \E more : more = (live \cup {op.copy}) \cup {z} /\ GrowsTo(more)
  BY <1>1, SplitRootTree
<1>3. PICK more : more = (live \cup {op.copy}) \cup {z} /\ GrowsTo(more)
  BY <1>2
<1>4. op.kind = "split_root" /\ op.copy # NULL_PAGE
  BY DEF SplitRoot
<1>5. PICK pages : pages = live \cup {op.copy}
  OBVIOUS
<1>6. /\ EntriesIn(WithNewRoot, pages) = EntriesIn(nodes, live)
      /\ Unique(nodes, live) => Unique(WithNewRoot, pages)
  BY <1>1, <1>4, <1>5, NewRootEntries
<1>7. PICK low : Hangs(WithNewRoot, pages) /\ Lowers(WithNewRoot, low)
  <2>1. \E low, parts : IsTree(WithNewRoot, live \cup {op.copy}, low, parts)
    BY <1>1, <1>4, NewRootTree, Zenon
  <2> QED BY <1>5, <2>1, Zenon DEF IsTree
<1>8. SplitIn(WithNewRoot, nodes', pages, root_id, 0, z)
  BY <1>2, <1>5
<1>9. /\ EntriesIn(nodes', pages \cup {z}) = EntriesIn(WithNewRoot, pages)
      /\ Unique(WithNewRoot, pages) => Unique(nodes', pages \cup {z})
  BY <1>7, <1>8, SplitEntries
<1>10. more = pages \cup {z}
  BY <1>3, <1>5
<1>11. /\ EntriesIn(nodes', more) = EntriesIn(nodes, live)
       /\ Unique(nodes, live) => Unique(nodes', more)
  BY <1>6, <1>9, <1>10
<1> QED BY <1>1, <1>3, <1>11, SameEntries

\* An insertion ends with its entry in the tree.
LEMMA InsertInLeafEntries ==
  ASSUME TypeInv, TypeInv', TreeInv, InsertInLeaf
  PROVE  /\ Entries' = Entries \cup {<<op.key, op.ref>>}
         /\ Unique(nodes, Live) /\ (\A e \in Entries : e[2] # op.ref) => Unique(nodes, Live)'
<1>1. PICK live, height, allowed : IsTree(nodes, live, height, allowed) /\ OpInTree(live, allowed)
  BY Zenon DEF TreeInv
<1>2. GrowsTo(live)
  BY <1>1, InsertInLeafTree
<1>3. /\ op.kind = "insert" /\ nodes[op.at].is_leaf
      /\ nodes' = [nodes EXCEPT ![op.at] = WithEntry(@, op.key, op.ref)]
  BY DEF InsertInLeaf
<1>4. PICK p, key, ref : p = op.at /\ key = op.key /\ ref = op.ref
  OBVIOUS
<1>5. p \in NodeIds /\ key \in Keys /\ ref \in AnyPtr /\ ~Full(nodes[p])
  BY <1>3, <1>4, OpKinds, Sizes DEF TypeInv, OpInv, InsertType
<1>6. nodes \in [NodeIds -> NodeType] /\ nodes[p] \in NodeType
  BY <1>5 DEF TypeInv, NodesInv
<1>7. p \in live /\ p \in LeavesIn(nodes, live) /\ live \in SUBSET NodeIds
  BY <1>1, <1>3, <1>4 DEF OpInTree, IsTree, Hangs, LeavesIn
<1> DEFINE new == WithEntry(nodes[p], key, ref)
<1>8. nodes' = [nodes EXCEPT ![p] = new]
  BY <1>3, <1>4
<1>9. new.is_leaf
  BY <1>3, <1>4, <1>5, <1>6, WithEntryType
<1>10. Added(nodes[p], new, UpperIndex(nodes[p], key), key, ref)
  BY <1>5, <1>6, WithEntryPlaces
<1> HIDE DEF new
<1>11. nodes'[p] = new /\ \A q \in NodeIds \ {p} : nodes'[q] = nodes[q]
  BY <1>5, <1>6, <1>8
<1>12. /\ LeavesIn(nodes', live) = LeavesIn(nodes, live)
       /\ \A q \in LeavesIn(nodes, live) \ {p} : nodes'[q] = nodes[q]
  BY <1>3, <1>4, <1>7, <1>9, <1>11 DEF LeavesIn
<1>13. PICK k : Added(nodes[p], nodes'[p], k, key, ref)
  BY <1>10, <1>11
<1>14. /\ EntriesIn(nodes', live) = EntriesIn(nodes, live) \cup {<<key, ref>>}
       /\ Unique(nodes, live) /\ (\A e \in EntriesIn(nodes, live) : e[2] # ref) => Unique(nodes', live)
  BY <1>7, <1>12, <1>13, EntryAdded
<1>15. Live = live /\ Entries = EntriesIn(nodes, live)
  BY <1>1, EntriesNow
<1>16. Live' = live /\ Entries' = EntriesIn(nodes', live)
  BY <1>2, EntriesLater
<1>17. Unique(nodes, Live)' <=> Unique(nodes', Live')
  BY Zenon DEF Unique, LeavesIn
<1>18. Unique(nodes, Live) /\ (\A e \in Entries : e[2] # op.ref) => Unique(nodes', live)
  BY <1>4, <1>14, <1>15
<1> QED BY <1>4, <1>14, <1>15, <1>16, <1>17, <1>18

\* A removal that finds its key in the leaf takes the entry there.
LEMMA RemoveFromLeafEntries ==
  ASSUME TypeInv, TypeInv', TreeInv, RemoveFromLeaf, Unique(nodes, Live), nodes' # nodes,
         LowerIndex(nodes[op.at], op.key) # nodes[op.at].n_keys
  PROVE  /\ \E e \in Entries : e[1] = op.key /\ Entries' = Entries \ {e}
         /\ Unique(nodes, Live)'
<1>1. PICK live, height, allowed : IsTree(nodes, live, height, allowed) /\ OpInTree(live, allowed)
  BY Zenon DEF TreeInv
<1>2. GrowsTo(live)
  BY <1>1, RemoveFromLeafTree
<1>3. PICK p, key : p = op.at /\ key = op.key
  OBVIOUS
<1>4. PICK k : k = LowerIndex(nodes[p], key)
  OBVIOUS
<1>5. /\ op.kind = "remove" /\ nodes[p].is_leaf /\ k # nodes[p].n_keys /\ k \in KeySlots
      /\ key = nodes[p].keys[k] /\ nodes[p].n_keys > 0
      /\ nodes' = [nodes EXCEPT ![p] = WithoutEntry(nodes[p], k)]
  BY <1>3, <1>4 DEF RemoveFromLeaf
<1>6. p \in NodeIds /\ key \in Keys
  BY <1>3, <1>5, OpKinds DEF TypeInv, RemoveType
<1>7. nodes \in [NodeIds -> NodeType] /\ nodes[p] \in NodeType
  BY <1>6 DEF TypeInv, NodesInv
<1>8. p \in live /\ p \in LeavesIn(nodes, live) /\ live \in SUBSET NodeIds
  BY <1>1, <1>3, <1>5 DEF OpInTree, IsTree, Hangs, LeavesIn
<1>9. k \in 0 .. nodes[p].n_keys - 1 /\ k <= nodes[p].n_keys
  <2>1. PICK x : x = nodes[p]
    OBVIOUS
  <2>2. LowerIndex(x, key) \in 0 .. x.n_keys /\ x.n_keys \in Nat
    BY <1>6, <1>7, <2>1, LowerIndexFacts, NodeFields
  <2> QED BY <1>4, <1>5, <2>1, <2>2
<1> DEFINE new == WithoutEntry(nodes[p], k)
<1>10. new.is_leaf
  BY <1>5, <1>7, <1>9, WithoutEntryType
<1>11. Taken(nodes[p], new, k)
  BY <1>7, <1>9, WithoutEntryPlaces
<1>12. nodes' = [nodes EXCEPT ![p] = new]
  BY <1>5
<1> HIDE DEF new
<1>13. nodes'[p] = new /\ \A q \in NodeIds \ {p} : nodes'[q] = nodes[q]
  BY ONLY <1>6, <1>7, <1>12
<1>14. /\ LeavesIn(nodes', live) = LeavesIn(nodes, live)
       /\ \A q \in LeavesIn(nodes, live) \ {p} : nodes'[q] = nodes[q]
  BY <1>5, <1>8, <1>10, <1>13 DEF LeavesIn
<1>15. Taken(nodes[p], nodes'[p], k)
  BY <1>11, <1>13
<1>16. Live = live /\ Entries = EntriesIn(nodes, live)
  BY <1>1, EntriesNow
<1>17. Unique(nodes, live)
  BY <1>16
<1>18. PICK e : e = <<nodes[p].keys[k], nodes[p].ptrs[k]>>
  OBVIOUS
<1>19. e \in EntriesIn(nodes, live) /\ EntriesIn(nodes', live) = EntriesIn(nodes, live) \ {e} /\ Unique(nodes', live)
  BY <1>8, <1>14, <1>15, <1>17, <1>18, EntryTaken
<1>20. Live' = live /\ Entries' = EntriesIn(nodes', live)
  BY <1>2, EntriesLater
<1>21. Unique(nodes, Live)' <=> Unique(nodes', Live')
  BY Zenon DEF Unique, LeavesIn
<1>22. e[1] = op.key
  BY <1>3, <1>5, <1>18
<1> QED BY <1>16, <1>19, <1>20, <1>21, <1>22
-----------------------------------------------------------------------------
(* The way of a removal.                                                   *)

DescendBody(N, f, key) ==
  [p \in NodeIds |->
     IF N[p].is_leaf THEN p ELSE f[N[p].ptrs[LowerIndex(N[p], key)]]]

WayTo(N, key) == CHOOSE f : f = DescendBody(N, f, key)

Stale(x, key) ==
  LET i == LowerIndex(x, key)
  IN  i = x.n_keys /\ (i \in KeySlots => x.keys[i] = key)

LEMMA LeafForMeans == \A key : LeafFor(key) = WayTo(nodes, key)[root_id]
BY Zenon DEF LeafFor, WayTo, DescendBody

LEMMA StaleMeans ==
  \A key : MeetsStaleKey(key) <=> Stale(nodes[WayTo(nodes, key)[root_id]], key)
BY LeafForMeans, Zenon DEF MeetsStaleKey, Stale

\* Where a removal goes on to.
Toward(key) ==
  [p \in NodeIds |-> IF nodes[p].is_leaf THEN {}
                     ELSE {nodes[p].ptrs[LowerIndex(nodes[p], key)]}]

LEMMA WayToIs ==
  ASSUME TypeInv, NEW key \in Keys
  PROVE  WayTo(nodes, key) = DescendBody(nodes, WayTo(nodes, key), key)
<1> DEFINE next == Toward(key)
           f == [p \in NodeIds |-> CHOOSE r \in LeavesIn(nodes, Reach(next, p)) : TRUE]
<1>1. ASSUME NEW p \in NodeIds, ~nodes[p].is_leaf
      PROVE  nodes[p].ptrs[LowerIndex(nodes[p], key)] \in NodeIds
  <2>1. nodes[p] \in NodeType /\ ChildrenIn(nodes[p], NodeIds)
    BY DEF TypeInv, NodesInv, CountInv, ChildrenIn
  <2>2. PICK x : x = nodes[p]
    OBVIOUS
  <2>3. LowerIndex(x, key) \in 0 .. x.n_keys
    BY <2>1, <2>2, LowerIndexFacts
  <2> QED BY <1>1, <2>1, <2>2, <2>3 DEF ChildrenIn
<1>2. \A p \in NodeIds : next[p] \subseteq NodeIds
  BY <1>1 DEF Toward
<1>3. ASSUME NEW p \in NodeIds
      PROVE  f[p] = IF nodes[p].is_leaf THEN p ELSE f[nodes[p].ptrs[LowerIndex(nodes[p], key)]]
  <2>1. Reach(next, p) = {p} \cup UNION {Reach(next, c) : c \in next[p]}
    <3> HIDE DEF next
    <3> QED BY <1>2, ReachOneOn
  <2>2. f[p] = CHOOSE r \in LeavesIn(nodes, Reach(next, p)) : TRUE
    BY Zenon
  <2>3. CASE nodes[p].is_leaf
    <3>1. next[p] = {}
      BY <2>3 DEF Toward
    <3> HIDE DEF f, next
    <3>2. Reach(next, p) = {p}
      BY <2>1, <3>1
    <3>3. LeavesIn(nodes, Reach(next, p)) = {p}
      BY <2>3, <3>2 DEF LeavesIn
    <3>4. f[p] = CHOOSE r \in {p} : TRUE
      BY <2>2, <3>3
    <3> QED BY <2>3, <3>4
  <2>4. CASE ~nodes[p].is_leaf
    <3>1. PICK c : c = nodes[p].ptrs[LowerIndex(nodes[p], key)]
      OBVIOUS
    <3>2. c \in NodeIds /\ next[p] = {c}
      BY <1>1, <2>4, <3>1 DEF Toward
    <3>3. f[c] = CHOOSE r \in LeavesIn(nodes, Reach(next, c)) : TRUE
      BY <3>2, Zenon
    <3> HIDE DEF f, next
    <3>4. Reach(next, p) = {p} \cup Reach(next, c)
      BY <2>1, <3>2
    <3>5. LeavesIn(nodes, Reach(next, p)) = LeavesIn(nodes, Reach(next, c))
      BY <2>4, <3>4 DEF LeavesIn
    <3>6. f[p] = f[c]
      BY <2>2, <3>3, <3>5
    <3> QED BY <2>4, <3>1, <3>6
  <2> QED BY <2>3, <2>4
<1>4. f = DescendBody(nodes, f, key)
  <2>1. f = [p \in NodeIds |-> f[p]]
    OBVIOUS
  <2> HIDE DEF f
  <2> QED BY <1>3, <2>1 DEF DescendBody
<1> HIDE DEF f
<1> QED BY <1>4, Zenon DEF WayTo

LEMMA WayToAt ==
  ASSUME TypeInv, NEW key \in Keys, NEW p \in NodeIds
  PROVE  WayTo(nodes, key)[p] =
           IF nodes[p].is_leaf THEN p
           ELSE WayTo(nodes, key)[nodes[p].ptrs[LowerIndex(nodes[p], key)]]
<1> DEFINE f == WayTo(nodes, key)
<1>1. f = DescendBody(nodes, f, key)
  BY WayToIs
<1> HIDE DEF f
<1>2. DescendBody(nodes, f, key)[p] =
        IF nodes[p].is_leaf THEN p ELSE f[nodes[p].ptrs[LowerIndex(nodes[p], key)]]
  BY DEF DescendBody
<1>3. f[p] = IF nodes[p].is_leaf THEN p ELSE f[nodes[p].ptrs[LowerIndex(nodes[p], key)]]
  BY <1>1, <1>2, Zenon
<1> QED BY <1>3 DEF f
-----------------------------------------------------------------------------
(* The tree as an index.                                                   *)

\* Pointers to records are never used again, so that an entry is in one place.
RefsInv ==
  /\ Unique(nodes, Live)
  /\ \A e \in Entries : e[2] \in 0 .. MaxNodes + inserts
  /\ Inserting => op.ref = MaxNodes + inserts /\ \A e \in Entries : e[2] # op.ref

\* A removal is on its way to the leaf where it will not meet a key past the others.
RemovalInv ==
  op.kind = "remove" =>
    /\ WayTo(nodes, op.key)[op.at] = WayTo(nodes, op.key)[root_id]
    /\ ~Stale(nodes[WayTo(nodes, op.key)[root_id]], op.key)

IndexInv == RefsInv /\ RemovalInv

\* The steps in which the tree only gets ready.
GetsReady == CopyRoot \/ SplitRoot \/ InsertBelow \/ SplitAndInsertBelow \/ RemoveBelow

LEMMA ReadyOps ==
  ASSUME TypeInv, GetsReady
  PROVE  /\ op # Idle /\ op' # Idle
         /\ inserts' = inserts
         /\ \/ Inserting /\ Inserting' /\ op'.key = op.key /\ op'.ref = op.ref
            \/ op.kind = "remove" /\ op'.kind = "remove" /\ op'.key = op.key
<1>1. /\ op.kind \in {"insert", "split_root"} => op \in InsertType
      /\ op.kind = "remove" => op \in RemoveType
  BY OpKinds DEF TypeInv
<1>2. inserts' = inserts
  BY DEF GetsReady, CopyRoot, SplitRoot, InsertBelow, SplitAndInsertBelow, RemoveBelow
<1>3. Idle.kind = "none"
  BY DEF Idle
<1>4. CASE CopyRoot
  <2>1. op.kind = "split_root" /\ \E s : op' = [op EXCEPT !.copy = s]
    BY <1>4 DEF CopyRoot
  <2>2. op'.kind = "split_root" /\ op'.key = op.key /\ op'.ref = op.ref
    BY <1>1, <2>1 DEF InsertType
  <2> QED BY <1>2, <1>3, <2>1, <2>2 DEF Inserting
<1>5. CASE SplitRoot
  <2>1. op.kind = "split_root" /\ op' = [op EXCEPT !.kind = "insert"]
    BY <1>5 DEF SplitRoot
  <2>2. op'.kind = "insert" /\ op'.key = op.key /\ op'.ref = op.ref
    BY <1>1, <2>1 DEF InsertType
  <2> QED BY <1>2, <1>3, <2>1, <2>2 DEF Inserting
<1>6. CASE InsertBelow \/ SplitAndInsertBelow
  <2>1. op.kind = "insert" /\ \E c : op' = [op EXCEPT !.at = c]
    BY <1>6 DEF InsertBelow, SplitAndInsertBelow
  <2>2. op'.kind = "insert" /\ op'.key = op.key /\ op'.ref = op.ref
    BY <1>1, <2>1 DEF InsertType
  <2> QED BY <1>2, <1>3, <2>1, <2>2 DEF Inserting
<1>7. CASE RemoveBelow
  <2>1. op.kind = "remove" /\ \E c : op' = [op EXCEPT !.at = c]
    BY <1>7 DEF RemoveBelow
  <2>2. op'.kind = "remove" /\ op'.key = op.key
    BY <1>1, <2>1 DEF RemoveType
  <2> QED BY <1>2, <1>3, <2>1, <2>2
<1> QED BY <1>4, <1>5, <1>6, <1>7 DEF GetsReady

LEMMA ReadyEntries ==
  ASSUME TypeInv, TypeInv', TreeInv, GetsReady
  PROVE  EntriesStay
<1>1. CASE InsertBelow \/ RemoveBelow
  <2>1. nodes' = nodes
    BY <1>1 DEF InsertBelow, RemoveBelow
  <2> QED BY <2>1, NodesStayEntries
<1> QED BY <1>1, CopyRootEntries, SplitRootEntries, SplitAndInsertBelowEntries, Zenon DEF GetsReady

\* A removal that changes its leaf does so at a key there.
LEMMA RemovalFinds ==
  ASSUME TypeInv, RemovalInv, RemoveFromLeaf, nodes' # nodes
  PROVE  LowerIndex(nodes[op.at], op.key) # nodes[op.at].n_keys
<1>1. PICK p, key, k : p = op.at /\ key = op.key /\ k = LowerIndex(nodes[p], key)
  OBVIOUS
<1>2. /\ op.kind = "remove" /\ nodes[p].is_leaf /\ k \in KeySlots /\ key = nodes[p].keys[k]
  BY <1>1 DEF RemoveFromLeaf
<1>3. p \in NodeIds /\ key \in Keys
  BY <1>1, <1>2, OpKinds DEF TypeInv, RemoveType
<1>4. WayTo(nodes, key)[p] = p
  BY <1>2, <1>3, WayToAt
<1>5. WayTo(nodes, key)[p] = WayTo(nodes, key)[root_id] /\ ~Stale(nodes[WayTo(nodes, key)[root_id]], key)
  BY <1>1, <1>2 DEF RemovalInv
<1>6. ~Stale(nodes[p], key)
  BY <1>4, <1>5
<1>7. k # nodes[p].n_keys
  BY <1>1, <1>2, <1>6 DEF Stale
<1> QED BY <1>1, <1>7

LEMMA RefsStay ==
  ASSUME TypeInv, RefsInv, EntriesStay, inserts' = inserts,
         Inserting' => Inserting /\ op'.ref = op.ref
  PROVE  RefsInv'
<1>1. Unique(nodes, Live)' /\ Entries' = Entries
  BY DEF RefsInv, EntriesStay
<1> QED BY <1>1 DEF RefsInv

LEMMA InitIndex ==
  ASSUME Init
  PROVE  Entries = {} /\ IndexInv
<1>1. TypeInv /\ TreeInv
  BY InitTyped, InitTree
<1>2. PICK live, height, allowed : IsTree(nodes, live, height, allowed)
  BY <1>1, Zenon DEF TreeInv
<1>3. Live = live /\ Entries = EntriesIn(nodes, live)
  BY <1>1, <1>2, EntriesNow
<1>4. live \in SUBSET NodeIds
  BY <1>2 DEF IsTree, Hangs
<1>5. \A p \in live : nodes[p].n_keys = 0
  BY <1>4 DEF Init, EmptyNode
<1>6. Entries = {}
  <2>1. \A p \in live : EntriesOf(nodes[p]) = {}
    BY <1>5 DEF EntriesOf
  <2> QED BY <1>3, <2>1 DEF EntriesIn, LeavesIn
<1>7. Unique(nodes, live)
  <2>1. \A p \in LeavesIn(nodes, live) : 0 .. nodes[p].n_keys - 1 = {}
    BY <1>5 DEF LeavesIn
  <2> QED BY <2>1 DEF Unique
<1>8. op.kind = "none"
  BY DEF Init, Idle
<1> QED BY <1>3, <1>6, <1>7, <1>8 DEF IndexInv, RefsInv, RemovalInv, Inserting

LEMMA RefsStep ==
  ASSUME TypeInv, TypeInv', TreeInv, IndexInv, [RegularNext]_vars
  PROVE  RefsInv'
<1>1. RefsInv /\ RemovalInv
  BY DEF IndexInv
<1>2. CASE UNCHANGED vars
  <2>1. EntriesStay
    BY <1>2, NodesStayEntries DEF vars
  <2> QED BY <1>1, <1>2, <2>1, RefsStay DEF vars, Inserting
<1>3. CASE GetsReady
  <2>1. EntriesStay
    BY <1>3, ReadyEntries
  <2>2. inserts' = inserts /\ (Inserting' => Inserting /\ op'.ref = op.ref)
    BY <1>3, ReadyOps DEF Inserting
  <2> QED BY <1>1, <2>1, <2>2, RefsStay
<1>4. CASE LoadFails \/ (RemoveFromLeaf /\ nodes' = nodes)
  <2>1. nodes' = nodes /\ op'.kind = "none" /\ inserts' = inserts
    BY <1>4 DEF LoadFails, RemoveFromLeaf, Idle
  <2>2. EntriesStay
    BY <2>1, NodesStayEntries
  <2>3. ~Inserting'
    BY <2>1 DEF Inserting
  <2> QED BY <1>1, <2>1, <2>2, <2>3, RefsStay
<1>5. CASE InsertInLeaf
  <2>1. op'.kind = "none" /\ inserts' = inserts /\ op.kind = "insert"
    BY <1>5 DEF InsertInLeaf, Idle
  <2>2. ~Inserting' /\ Inserting
    BY <2>1 DEF Inserting
  <2>3. /\ Unique(nodes, Live) /\ \A e \in Entries : e[2] \in 0 .. MaxNodes + inserts
        /\ op.ref = MaxNodes + inserts /\ \A e \in Entries : e[2] # op.ref
    BY <1>1, <2>2 DEF RefsInv
  <2>4. Entries' = Entries \cup {<<op.key, op.ref>>} /\ Unique(nodes, Live)'
    BY <1>5, <2>3, InsertInLeafEntries
  <2>5. MaxNodes + inserts \in 0 .. MaxNodes + inserts
    BY BPTreeAssumption DEF TypeInv, CountInv
  <2>6. \A e \in Entries' : e[2] \in 0 .. MaxNodes + inserts'
    BY <2>1, <2>3, <2>4, <2>5
  <2> QED BY <2>2, <2>4, <2>6 DEF RefsInv
<1>6. CASE RemoveFromLeaf /\ nodes' # nodes
  <2>1. op'.kind = "none" /\ inserts' = inserts
    BY <1>6 DEF RemoveFromLeaf, Idle
  <2>2. ~Inserting'
    BY <2>1 DEF Inserting
  <2>3. Unique(nodes, Live) /\ \A e \in Entries : e[2] \in 0 .. MaxNodes + inserts
    BY <1>1 DEF RefsInv
  <2>4. LowerIndex(nodes[op.at], op.key) # nodes[op.at].n_keys
    BY <1>1, <1>6, RemovalFinds
  <2>5. Unique(nodes, Live)' /\ \E e \in Entries : Entries' = Entries \ {e}
    BY <1>6, <2>3, <2>4, RemoveFromLeafEntries
  <2>6. \A e \in Entries' : e[2] \in 0 .. MaxNodes + inserts'
    BY <2>1, <2>3, <2>5
  <2> QED BY <2>2, <2>5, <2>6 DEF RefsInv
<1>7. ASSUME NEW key \in Keys, BeginInsert(key) PROVE RefsInv'
  <2>1. nodes' = nodes /\ inserts' = inserts + 1 /\ op'.ref = MaxNodes + inserts'
    BY <1>7 DEF BeginInsert
  <2>2. EntriesStay
    BY <2>1, NodesStayEntries
  <2>3. Entries' = Entries /\ Unique(nodes, Live)'
    BY <1>1, <2>2 DEF EntriesStay, RefsInv
  <2>4. \A e \in Entries : e[2] \in 0 .. MaxNodes + inserts
    BY <1>1 DEF RefsInv
  <2>5. MaxNodes \in Nat /\ inserts \in Nat
    BY BPTreeAssumption DEF TypeInv, CountInv
  <2>6. \A r \in 0 .. MaxNodes + inserts :
          r \in 0 .. MaxNodes + (inserts + 1) /\ r # MaxNodes + (inserts + 1)
    BY <2>5
  <2>7. \A e \in Entries' : e[2] \in 0 .. MaxNodes + inserts' /\ e[2] # op'.ref
    BY <2>1, <2>3, <2>4, <2>6
  <2> QED BY <2>1, <2>3, <2>7 DEF RefsInv
<1>8. ASSUME NEW key \in Keys, BeginRemove(key) PROVE RefsInv'
  <2>1. nodes' = nodes /\ inserts' = inserts /\ op'.kind = "remove"
    BY <1>8 DEF BeginRemove
  <2>2. EntriesStay
    BY <2>1, NodesStayEntries
  <2>3. ~Inserting'
    BY <2>1 DEF Inserting
  <2> QED BY <1>1, <2>1, <2>2, <2>3, RefsStay
<1>9. RegularNext \/ UNCHANGED vars
  OBVIOUS
<1> QED BY <1>2, <1>3, <1>4, <1>5, <1>6, <1>7, <1>8, <1>9, Zenon DEF RegularNext, Step, GetsReady

LEMMA RemovalStep ==
  ASSUME TypeInv, RemovalInv, [RegularNext]_vars
  PROVE  RemovalInv'
<1>1. CASE UNCHANGED vars
  BY <1>1 DEF vars, RemovalInv
<1>2. CASE op'.kind # "remove"
  BY <1>2 DEF RemovalInv
<1>3. CASE GetsReady /\ op'.kind = "remove"
  <2>1. op.kind = "remove" /\ op'.key = op.key
    BY <1>3, ReadyOps DEF Inserting
  <2>2. PICK p, key : p = op.at /\ key = op.key
    OBVIOUS
  <2>3. /\ ~nodes[p].is_leaf /\ nodes' = nodes
        /\ op' = [op EXCEPT !.at = nodes[p].ptrs[LowerIndex(nodes[p], key)]]
    BY <1>3, <2>1, <2>2 DEF GetsReady, CopyRoot, SplitRoot, InsertBelow, SplitAndInsertBelow, RemoveBelow
  <2>4. op \in RemoveType
    BY <2>1, OpKinds DEF TypeInv
  <2>5. p \in NodeIds /\ key \in Keys /\ op'.at = nodes[p].ptrs[LowerIndex(nodes[p], key)]
    BY <2>2, <2>3, <2>4 DEF RemoveType
  <2>6. WayTo(nodes, key)[p] = WayTo(nodes, key)[op'.at]
    BY <2>3, <2>5, WayToAt
  <2> QED BY <2>1, <2>2, <2>3, <2>6 DEF RemovalInv
<1>4. ASSUME NEW key \in Keys, BeginRemove(key), ~MeetsStaleKey(key) PROVE RemovalInv'
  <2>1. nodes' = nodes /\ op'.at = root_id /\ op'.key = key
    BY <1>4 DEF BeginRemove
  <2>2. ~Stale(nodes[WayTo(nodes, key)[root_id]], key)
    BY <1>4, StaleMeans
  <2> QED BY <2>1, <2>2 DEF RemovalInv
<1>5. ASSUME NEW key \in Keys, BeginInsert(key) PROVE op'.kind # "remove"
  BY <1>5 DEF BeginInsert
<1>6. InsertInLeaf \/ RemoveFromLeaf \/ LoadFails => op'.kind # "remove"
  BY DEF InsertInLeaf, RemoveFromLeaf, LoadFails, Idle
<1>7. RegularNext \/ UNCHANGED vars
  OBVIOUS
<1> QED BY <1>1, <1>2, <1>3, <1>4, <1>5, <1>6, <1>7, Zenon DEF RegularNext, Step, GetsReady
-----------------------------------------------------------------------------
(* The steps of the index.                                                 *)

\* What the tree was asked, by the kind of its operation.
RequestMeans ==
  /\ op.kind = "none" => Request = Idle
  /\ Inserting => Request = [kind |-> "insert", key |-> op.key, ref |-> op.ref]
  /\ op.kind = "remove" => Request = [kind |-> "remove", key |-> op.key]

LEMMA RequestIs == OpInv => RequestMeans
<1> SUFFICES ASSUME OpInv PROVE RequestMeans
  OBVIOUS
<1>1. op.kind = "none" <=> op = Idle
  BY OpKinds
<1> QED BY <1>1, Zenon DEF RequestMeans, Request, Inserting, Idle

LEMMA RequestIsLater == OpInv' => RequestMeans'
BY RequestIs, PTL

IndexStep == [Store!Next]_(Store!storeVars)

LEMMA IndexStepKinds ==
  /\ Entries' = Entries /\ Request' = Request => IndexStep
  /\ Request = Idle /\ Request' \in Store!Requests /\ Entries' = Entries => IndexStep
  /\ \A key, ref :
       /\ Request = [kind |-> "insert", key |-> key, ref |-> ref]
       /\ Entries' = Entries \cup {<<key, ref>>}
       /\ Request' = Idle
       => IndexStep
  /\ \A key :
       /\ Request = [kind |-> "remove", key |-> key]
       /\ \E e \in Entries : e[1] = key /\ Entries' = Entries \ {e}
       /\ Request' = Idle
       => IndexStep
  /\ Request # Idle /\ Request' = Idle /\ Entries' = Entries => IndexStep
<1>1. Entries' = Entries /\ Request' = Request => IndexStep
  BY DEF IndexStep, Store!storeVars
<1>2. Request = Idle /\ Request' \in Store!Requests /\ Entries' = Entries => IndexStep
  BY DEF IndexStep, Store!Next, Store!Ask, Store!NoRequest, Idle
<1>3. ASSUME NEW key, NEW ref, Request = [kind |-> "insert", key |-> key, ref |-> ref],
             Entries' = Entries \cup {<<key, ref>>}, Request' = Idle
      PROVE  IndexStep
  <2>1. Request.kind = "insert" /\ Request.key = key /\ Request.ref = ref
    BY <1>3
  <2>2. Store!Insert
    BY <1>3, <2>1 DEF Store!Insert, Store!NoRequest, Idle
  <2> QED BY <2>2 DEF IndexStep, Store!Next
<1>4. ASSUME NEW key, Request = [kind |-> "remove", key |-> key],
             \E e \in Entries : e[1] = key /\ Entries' = Entries \ {e}, Request' = Idle
      PROVE  IndexStep
  <2>1. Request.kind = "remove" /\ Request.key = key
    BY <1>4
  <2>2. Store!Remove
    BY <1>4, <2>1 DEF Store!Remove, Store!NoRequest, Idle
  <2> QED BY <2>2 DEF IndexStep, Store!Next
<1>5. Request # Idle /\ Request' = Idle /\ Entries' = Entries => IndexStep
  BY DEF IndexStep, Store!Next, Store!Fail, Store!NoRequest, Idle
<1> QED BY <1>1, <1>2, <1>3, <1>4, <1>5

LEMMA EveryIndexStep ==
  ASSUME TypeInv, TypeInv', TreeInv, IndexInv, [RegularNext]_vars
  PROVE  IndexStep
<1>1. RefsInv /\ RemovalInv /\ OpInv /\ OpInv'
  BY DEF IndexInv, TypeInv
<1>2. /\ op.kind = "none" => Request = Idle
      /\ Inserting => Request = [kind |-> "insert", key |-> op.key, ref |-> op.ref]
      /\ op.kind = "remove" => Request = [kind |-> "remove", key |-> op.key]
  BY <1>1, RequestIs DEF RequestMeans
<1>3. /\ op'.kind = "none" => Request' = Idle
      /\ Inserting' => Request' = [kind |-> "insert", key |-> op'.key, ref |-> op'.ref]
      /\ op'.kind = "remove" => Request' = [kind |-> "remove", key |-> op'.key]
  BY <1>1, RequestIsLater DEF RequestMeans
<1>4. nodes' = nodes => Entries' = Entries
  BY NodesStayEntries DEF EntriesStay
<1>5. op.kind # "none" => Request # Idle
  <2>1. op.kind # "none" => Inserting \/ op.kind = "remove"
    BY <1>1, OpKinds DEF Inserting
  <2> QED BY <1>2, <2>1 DEF Idle
<1>6. CASE UNCHANGED vars
  <2>1. Request' = Request /\ nodes' = nodes
    BY <1>6 DEF vars, Request
  <2> QED BY <1>4, <2>1, IndexStepKinds
<1>7. CASE GetsReady
  <2>1. Entries' = Entries
    BY <1>7, ReadyEntries DEF EntriesStay
  <2>2. Request' = Request
    BY <1>2, <1>3, <1>7, ReadyOps
  <2> QED BY <2>1, <2>2, IndexStepKinds
<1>8. CASE LoadFails \/ (RemoveFromLeaf /\ nodes' = nodes)
  <2>1. nodes' = nodes /\ op'.kind = "none" /\ op.kind # "none"
    BY <1>8 DEF LoadFails, RemoveFromLeaf, Idle
  <2> QED BY <1>3, <1>4, <1>5, <2>1, IndexStepKinds
<1>9. CASE InsertInLeaf
  <2>1. op'.kind = "none" /\ op.kind = "insert"
    BY <1>9 DEF InsertInLeaf, Idle
  <2>2. Entries' = Entries \cup {<<op.key, op.ref>>}
    BY <1>9, InsertInLeafEntries
  <2>3. Request = [kind |-> "insert", key |-> op.key, ref |-> op.ref] /\ Request' = Idle
    BY <1>2, <1>3, <2>1 DEF Inserting
  <2> QED BY <2>2, <2>3, IndexStepKinds
<1>10. CASE RemoveFromLeaf /\ nodes' # nodes
  <2>1. op'.kind = "none" /\ op.kind = "remove"
    BY <1>10 DEF RemoveFromLeaf, Idle
  <2>2. LowerIndex(nodes[op.at], op.key) # nodes[op.at].n_keys /\ Unique(nodes, Live)
    BY <1>1, <1>10, RemovalFinds DEF RefsInv
  <2>3. \E e \in Entries : e[1] = op.key /\ Entries' = Entries \ {e}
    BY <1>10, <2>2, RemoveFromLeafEntries
  <2>4. Request = [kind |-> "remove", key |-> op.key] /\ Request' = Idle
    BY <1>2, <1>3, <2>1
  <2> QED BY <2>3, <2>4, IndexStepKinds
<1>11. ASSUME NEW key \in Keys, BeginInsert(key) PROVE IndexStep
  <2>1. op.kind = "none" /\ Inserting' /\ op'.key = key /\ op'.ref = MaxNodes + inserts' /\ nodes' = nodes
    BY <1>11 DEF BeginInsert, Inserting, Idle
  <2>2. op' \in InsertType
    BY <1>1, <2>1 DEF OpInv, Inserting, Idle, RemoveType
  <2>3. op'.ref \in Refs
    BY <2>2 DEF InsertType
  <2>4. Request' \in Store!Requests
    BY <1>3, <2>1, <2>3 DEF Store!Requests
  <2> QED BY <1>2, <1>4, <2>1, <2>4, IndexStepKinds
<1>12. ASSUME NEW key \in Keys, BeginRemove(key) PROVE IndexStep
  <2>1. op.kind = "none" /\ op'.kind = "remove" /\ op'.key = key /\ nodes' = nodes
    BY <1>12 DEF BeginRemove, Idle
  <2>2. Request' \in Store!Requests
    BY <1>3, <2>1 DEF Store!Requests
  <2> QED BY <1>2, <1>4, <2>1, <2>2, IndexStepKinds
<1>13. RegularNext \/ UNCHANGED vars
  OBVIOUS
<1> QED
  BY <1>6, <1>7, <1>8, <1>9, <1>10, <1>11, <1>12, <1>13, Zenon DEF RegularNext, Step, GetsReady

\* As long as no removal meets a key that a split or an earlier removal left past the others,
\* the tree is an index: splits of the root and of full nodes on the way down (split.cpp) keep
\* the entries of its leaves, an insertion (insert.cpp) ends with its entry among them, a
\* removal (remove.cpp) takes one entry with its key, and a load that fails on the way
\* changes nothing.
THEOREM TreeImplementsIndex == RegularSpec => ImplementsIndex
<1>1. Init => TypeInv /\ TreeInv /\ IndexInv
  BY InitTyped, InitTree, InitIndex
<1>2. Init => Store!Init
  <2> SUFFICES ASSUME Init PROVE Store!Init
    OBVIOUS
  <2>1. Entries = {} /\ OpInv /\ op.kind = "none"
    BY InitIndex, InitTyped DEF TypeInv, Init, Idle
  <2>2. Request = Idle
    BY <2>1, RequestIs DEF RequestMeans
  <2> QED BY <2>1, <2>2 DEF Store!Init, Store!NoRequest, Idle
<1>3. TypeInv /\ TreeInv /\ [RegularNext]_vars => TypeInv' /\ TreeInv'
  BY StepTyped, StepTree, RegularSteps
<1>4. TypeInv /\ TypeInv' /\ TreeInv /\ IndexInv /\ [RegularNext]_vars => IndexInv'
  BY RefsStep, RemovalStep DEF IndexInv
<1>5. TypeInv /\ TypeInv' /\ TreeInv /\ IndexInv /\ [RegularNext]_vars
        => [Store!Next]_(Store!storeVars)
  BY EveryIndexStep DEF IndexStep
<1> QED BY <1>1, <1>2, <1>3, <1>4, <1>5, PTL DEF RegularSpec, ImplementsIndex, Store!Spec
-----------------------------------------------------------------------------
(* The leaves from left to right: how many levels each page is above them, *)
(* and the first and the last of them below it.                            *)

Link(N, p) == N[p].ptrs[N[p].n_keys]

Joins(N, p, level, first, last) ==
  /\ N[p].is_leaf => level[p] = 0 /\ first[p] = p /\ last[p] = p
  /\ ~N[p].is_leaf =>
       /\ first[p] = first[N[p].ptrs[0]] /\ last[p] = last[N[p].ptrs[N[p].n_keys]]
       /\ \A i \in 0 .. N[p].n_keys : level[p] = level[N[p].ptrs[i]] + 1
       /\ \A i \in 1 .. N[p].n_keys : Link(N, last[N[p].ptrs[i - 1]]) = first[N[p].ptrs[i]]

Labels(N, live, level, first, last) ==
  /\ level \in [NodeIds -> Nat] /\ first \in [NodeIds -> NodeIds] /\ last \in [NodeIds -> NodeIds]
  /\ \A p \in live : first[p] \in LeavesIn(N, live) /\ last[p] \in LeavesIn(N, live)

IsChained(N, live, level, first, last) ==
  /\ Labels(N, live, level, first, last)
  /\ \A p \in live : Joins(N, p, level, first, last)
  /\ Link(N, last[root_id]) = NULL_PAGE
  /\ \A p \in NodeIds \ live : N[p].is_leaf => Link(N, p) = NULL_PAGE

Chained(N, live) == \E level, first, last : IsChained(N, live, level, first, last)

\* What a split does to the labels: the new page z comes after c among the leaves.
Spliced(N, M, live, c, z, level, first, last, level2, first2, last2) ==
  /\ Labels(M, live \cup {z}, level2, first2, last2)
  /\ \A q \in live : first2[q] = first[q] /\ level2[q] = level[q]
  /\ level2[z] = level[c]
  /\ \A q \in live \ {c} : N[q].is_leaf => last2[q] = q
  /\ \A q, r \in live \ {c} : last[q] = last[r] => last2[q] = last2[r]
  /\ \A q \in live \ {c} : last[q] = last[c] => last2[q] = last2[z]
  /\ \A q \in live \ {c} : Link(M, last2[q]) = Link(N, last[q])
  /\ Link(M, last2[z]) = Link(N, last[c])
  /\ Link(M, last2[c]) = first2[z]
  /\ Joins(M, c, level2, first2, last2) /\ Joins(M, z, level2, first2, last2)

\* The leaves besides the full one stay as they are.
LEMMA SplitLeavesLinks ==
  ASSUME NEW N, NEW M, NEW live, NEW height, NEW x_id, NEW i, NEW z,
         SplitIn(N, M, live, x_id, i, z), Hangs(N, live), Lowers(N, height),
         NEW q \in LeavesIn(N, live), q # N[x_id].ptrs[i]
  PROVE  q \in LeavesIn(M, live \cup {z}) /\ M[q] = N[q] /\ Link(M, q) = Link(N, q)
<1>1. q \in live /\ N[q].is_leaf /\ q \in NodeIds
  BY DEF LeavesIn, Hangs
<1>2. M[q] = N[q]
  BY <1>1 DEF SplitIn
<1> QED BY <1>1, <1>2 DEF LeavesIn, Link

LEMMA LeafSplice ==
  ASSUME NEW N, NEW M, NEW live, NEW height, NEW x_id, NEW i, NEW z,
         SplitIn(N, M, live, x_id, i, z), Hangs(N, live), Lowers(N, height),
         NEW level, NEW first, NEW last, IsChained(N, live, level, first, last),
         NEW c, c = N[x_id].ptrs[i], N[c].is_leaf
  PROVE  Spliced(N, M, live, c, z, level, first, last,
                 [level EXCEPT ![z] = level[c]], [first EXCEPT ![z] = z],
                 [q \in NodeIds |->
                    IF q = z \/ (q \in live \ {c} /\ last[q] = c) THEN z ELSE last[q]])
<1> DEFINE more == live \cup {z}
           level2 == [level EXCEPT ![z] = level[c]]
           first2 == [first EXCEPT ![z] = z]
           last2 == [q \in NodeIds |->
                       IF q = z \/ (q \in live \ {c} /\ last[q] = c) THEN z ELSE last[q]]
           y == N[c]
<1>1. /\ x_id \in NodeIds /\ c \in NodeIds /\ c \in live /\ c # x_id /\ c # z /\ x_id # z
      /\ y \in NodeType
  BY SplitHalves
<1>2. /\ Full(y) /\ z \notin live /\ z \in NodeIds /\ live \in SUBSET NodeIds
      /\ M[c] = LeftHalf(y, z) /\ M[z] = RightHalf(y)
  BY DEF SplitIn, Hangs
<1>3. /\ level \in [NodeIds -> Nat] /\ first \in [NodeIds -> NodeIds] /\ last \in [NodeIds -> NodeIds]
      /\ \A p \in live : first[p] \in LeavesIn(N, live) /\ last[p] \in LeavesIn(N, live)
      /\ \A p \in live : Joins(N, p, level, first, last)
  BY DEF IsChained, Labels
<1>4. level[c] = 0 /\ first[c] = c /\ last[c] = c
  BY <1>1, <1>3 DEF Joins
<1>5. M[c].is_leaf /\ M[z].is_leaf /\ Link(M, c) = z /\ Link(M, z) = Link(N, c)
  <2>1. /\ M[c].n_keys = min_degree - 1 /\ M[z].n_keys = min_degree
        /\ M[c].ptrs[min_degree - 1] = z
        /\ M[z].ptrs[min_degree] = y.ptrs[2 * min_degree - 1]
    BY <1>1, <1>2, LeafHalves
  <2>2. M[c].is_leaf /\ M[z].is_leaf
    <3>1. M[c].is_leaf = y.is_leaf /\ M[z].is_leaf = y.is_leaf
      <4> HIDE DEF y
      <4> QED BY <1>1, <1>2, LeftHalfType, RightHalfType
    <3> QED BY <3>1
  <2> QED BY <1>2, <2>1, <2>2 DEF Link, Full
<1>6. \A q \in LeavesIn(N, live) : q # c =>
        q \in LeavesIn(M, more) /\ Link(M, q) = Link(N, q)
  BY SplitLeavesLinks
<1>7. c \in LeavesIn(M, more) /\ z \in LeavesIn(M, more)
  BY <1>1, <1>5 DEF LeavesIn
<1>8. /\ level2 \in [NodeIds -> Nat] /\ first2 \in [NodeIds -> NodeIds] /\ last2 \in [NodeIds -> NodeIds]
      /\ level2[z] = 0 /\ first2[z] = z /\ last2[z] = z /\ last2[c] = c
      /\ \A q \in live : first2[q] = first[q] /\ level2[q] = level[q]
      /\ \A q \in live \ {c} : last2[q] = IF last[q] = c THEN z ELSE last[q]
  BY <1>1, <1>2, <1>3, <1>4
<1> HIDE DEF more, level2, first2, last2, y
<1>9. \A q \in more : first2[q] \in LeavesIn(M, more) /\ last2[q] \in LeavesIn(M, more)
  BY <1>3, <1>4, <1>6, <1>7, <1>8 DEF more
<1>10. \A q \in live \ {c} : Link(M, last2[q]) = Link(N, last[q])
  BY <1>3, <1>5, <1>6, <1>8
<1>11. \A q \in live \ {c} : last[q] = last[c] => last2[q] = last2[z]
  BY <1>4, <1>8
<1>12. \A q, r \in live \ {c} : last[q] = last[r] => last2[q] = last2[r]
  BY <1>8
<1>13. Link(M, last2[z]) = Link(N, last[c]) /\ Link(M, last2[c]) = first2[z]
  BY <1>4, <1>5, <1>8
<1>14. Joins(M, c, level2, first2, last2) /\ Joins(M, z, level2, first2, last2)
  BY <1>1, <1>4, <1>5, <1>8 DEF Joins
<1>15. level2[z] = level[c]
  BY <1>4, <1>8
<1>16. Labels(M, more, level2, first2, last2)
  BY <1>8, <1>9, Zenon DEF Labels
<1>17. \A q \in live \ {c} : N[q].is_leaf => last2[q] = q
  BY <1>3, <1>8 DEF Joins
<1>18. Spliced(N, M, live, c, z, level, first, last, level2, first2, last2)
  BY <1>8, <1>10, <1>11, <1>12, <1>13, <1>14, <1>15, <1>16, <1>17 DEF Spliced, more
<1> QED BY <1>18 DEF level2, first2, last2

LEMMA NodeSplice ==
  ASSUME NEW N, NEW M, NEW live, NEW height, NEW x_id, NEW i, NEW z,
         SplitIn(N, M, live, x_id, i, z), Hangs(N, live), Lowers(N, height),
         NEW level, NEW first, NEW last, IsChained(N, live, level, first, last),
         NEW c, c = N[x_id].ptrs[i], ~N[c].is_leaf
  PROVE  Spliced(N, M, live, c, z, level, first, last,
                 [level EXCEPT ![z] = level[c]],
                 [first EXCEPT ![z] = first[N[c].ptrs[min_degree]]],
                 [last EXCEPT ![z] = last[c], ![c] = last[N[c].ptrs[min_degree - 1]]])
<1> DEFINE more == live \cup {z}
           y == N[c]
           level2 == [level EXCEPT ![z] = level[c]]
           first2 == [first EXCEPT ![z] = first[y.ptrs[min_degree]]]
           last2 == [last EXCEPT ![z] = last[c], ![c] = last[y.ptrs[min_degree - 1]]]
           s == y.keys[min_degree - 1]
<1>0. min_degree \in Nat /\ min_degree >= 2
  BY Sizes
<1>1. /\ x_id \in NodeIds /\ c \in NodeIds /\ c \in live /\ c # x_id /\ c # z /\ x_id # z
      /\ y \in NodeType /\ Halves(N[x_id], y, s, i, M[c], M[z], M[x_id], z)
  BY SplitHalves
<1>2. /\ z \notin live /\ z \in NodeIds /\ live \in SUBSET NodeIds
      /\ \A p \in live : \A j \in ChildIndices(N[p]) : N[p].ptrs[j] \in live
  BY DEF SplitIn, Hangs
<1>3. /\ level \in [NodeIds -> Nat] /\ first \in [NodeIds -> NodeIds] /\ last \in [NodeIds -> NodeIds]
      /\ \A p \in live : first[p] \in LeavesIn(N, live) /\ last[p] \in LeavesIn(N, live)
      /\ \A p \in live : Joins(N, p, level, first, last)
  BY DEF IsChained, Labels
<1>4. /\ ~M[c].is_leaf /\ ~M[z].is_leaf /\ y.n_keys = 2 * min_degree - 1
      /\ M[c].n_keys = min_degree - 1 /\ M[z].n_keys = min_degree - 1
      /\ M[c].ptrs = y.ptrs
      /\ \A j \in 0 .. min_degree - 1 : M[z].ptrs[j] = y.ptrs[j + min_degree]
  <2>1. (2 * min_degree - 1) - (min_degree - 1) = min_degree
    BY <1>0
  <2> HIDE DEF y
  <2>2. ~y.is_leaf
    BY DEF y
  <2> QED BY <1>1, <2>1, <2>2 DEF Halves
<1>5. /\ first[c] = first[y.ptrs[0]] /\ last[c] = last[y.ptrs[2 * min_degree - 1]]
      /\ \A j \in 0 .. 2 * min_degree - 1 : level[c] = level[y.ptrs[j]] + 1
      /\ \A j \in 1 .. 2 * min_degree - 1 : Link(N, last[y.ptrs[j - 1]]) = first[y.ptrs[j]]
  <2>1. Joins(N, c, level, first, last) /\ ~N[c].is_leaf
    BY <1>1, <1>3
  <2>2. /\ first[c] = first[N[c].ptrs[0]] /\ last[c] = last[N[c].ptrs[N[c].n_keys]]
        /\ \A j \in 0 .. N[c].n_keys : level[c] = level[N[c].ptrs[j]] + 1
        /\ \A j \in 1 .. N[c].n_keys : Link(N, last[N[c].ptrs[j - 1]]) = first[N[c].ptrs[j]]
    BY ONLY <2>1 DEF Joins
  <2> QED BY <1>4, <2>2
<1>6. \A j \in 0 .. 2 * min_degree - 1 : y.ptrs[j] \in live /\ y.ptrs[j] # c
  <2> SUFFICES ASSUME NEW j \in 0 .. 2 * min_degree - 1 PROVE y.ptrs[j] \in live /\ y.ptrs[j] # c
    OBVIOUS
  <2>1. j \in ChildIndices(y)
    BY <1>4 DEF ChildIndices
  <2>2. height[y.ptrs[j]] < height[c] /\ y.ptrs[j] \in NodeIds /\ height \in [NodeIds -> Nat]
    BY <1>1, <2>1 DEF Lowers
  <2>3. height[c] \in Nat
    BY <1>1, <2>2
  <2>4. y.ptrs[j] \in live
    BY ONLY <1>1, <1>2, <2>1
  <2>5. y.ptrs[j] # c
    BY ONLY <2>2, <2>3
  <2> QED BY <2>4, <2>5
<1>7. \A q \in LeavesIn(N, live) : q \in LeavesIn(M, more) /\ Link(M, q) = Link(N, q)
  <2>1. \A q \in LeavesIn(N, live) : q # c
    BY DEF LeavesIn
  <2> QED BY <2>1, SplitLeavesLinks
<1>8. /\ 0 \in 0 .. 2 * min_degree - 1 /\ min_degree \in 0 .. 2 * min_degree - 1
      /\ min_degree - 1 \in 0 .. 2 * min_degree - 1 /\ 2 * min_degree - 1 \in 0 .. 2 * min_degree - 1
      /\ min_degree \in 1 .. 2 * min_degree - 1
  BY <1>0
<1>9. /\ level2 \in [NodeIds -> Nat] /\ first2 \in [NodeIds -> NodeIds] /\ last2 \in [NodeIds -> NodeIds]
      /\ level2[z] = level[c] /\ first2[z] = first[y.ptrs[min_degree]] /\ last2[z] = last[c]
      /\ last2[c] = last[y.ptrs[min_degree - 1]]
      /\ \A q \in live : first2[q] = first[q] /\ level2[q] = level[q]
      /\ \A q \in live \ {c} : last2[q] = last[q]
  <2>1. y.ptrs[min_degree] \in NodeIds /\ y.ptrs[min_degree - 1] \in NodeIds
    BY <1>2, <1>6, <1>8
  <2> QED BY <1>1, <1>2, <1>3, <2>1
<1> HIDE DEF more, level2, first2, last2, y
<1>10. \A q \in more : first2[q] \in LeavesIn(M, more) /\ last2[q] \in LeavesIn(M, more)
  <2>1. y.ptrs[min_degree] \in live /\ y.ptrs[min_degree - 1] \in live
    BY <1>6, <1>8
  <2> QED BY <1>1, <1>3, <1>7, <1>9, <2>1 DEF more
<1>11. \A q \in live \ {c} : Link(M, last2[q]) = Link(N, last[q])
  BY <1>3, <1>7, <1>9
<1>12. Link(M, last2[z]) = Link(N, last[c])
  BY <1>1, <1>3, <1>7, <1>9
<1>13. Link(M, last2[c]) = first2[z]
  BY <1>3, <1>5, <1>6, <1>7, <1>8, <1>9
<1>14. Joins(M, c, level2, first2, last2)
  <2>1. \A j \in 0 .. min_degree - 1 : j \in 0 .. 2 * min_degree - 1
    BY <1>0
  <2>2. \A j \in 1 .. min_degree - 1 : j \in 1 .. 2 * min_degree - 1 /\ j - 1 \in 0 .. min_degree - 1 /\ j \in 0 .. min_degree - 1
    BY <1>0
  <2>3. /\ first2[c] = first2[y.ptrs[0]] /\ last2[c] = last2[y.ptrs[min_degree - 1]]
        /\ \A j \in 0 .. min_degree - 1 : level2[c] = level2[y.ptrs[j]] + 1
    BY <1>1, <1>5, <1>6, <1>8, <1>9, <2>1
  <2>4. \A j \in 1 .. min_degree - 1 : Link(M, last2[y.ptrs[j - 1]]) = first2[y.ptrs[j]]
    BY <1>3, <1>5, <1>6, <1>7, <1>9, <2>1, <2>2
  <2> QED BY <1>4, <2>3, <2>4 DEF Joins
<1>15. Joins(M, z, level2, first2, last2)
  <2>1. \A j \in 0 .. min_degree - 1 : j + min_degree \in 0 .. 2 * min_degree - 1
    BY <1>0
  <2>2. \A j \in 1 .. min_degree - 1 :
          /\ j + min_degree \in 1 .. 2 * min_degree - 1 /\ (j + min_degree) - 1 = (j - 1) + min_degree
          /\ j - 1 \in 0 .. min_degree - 1 /\ j \in 0 .. min_degree - 1
    BY <1>0
  <2>3. 0 \in 0 .. min_degree - 1 /\ min_degree - 1 \in 0 .. min_degree - 1
        /\ 0 + min_degree = min_degree /\ (min_degree - 1) + min_degree = 2 * min_degree - 1
    BY <1>0
  <2>4. M[z].ptrs[0] = y.ptrs[min_degree] /\ M[z].ptrs[min_degree - 1] = y.ptrs[2 * min_degree - 1]
    BY <1>4, <2>3
  <2>5. first2[z] = first2[M[z].ptrs[0]] /\ last2[z] = last2[M[z].ptrs[min_degree - 1]]
    BY <1>5, <1>6, <1>8, <1>9, <2>4
  <2>6. \A j \in 0 .. min_degree - 1 : level2[z] = level2[M[z].ptrs[j]] + 1
    BY <1>4, <1>5, <1>6, <1>9, <2>1
  <2>7. \A j \in 1 .. min_degree - 1 : Link(M, last2[M[z].ptrs[j - 1]]) = first2[M[z].ptrs[j]]
    <3> SUFFICES ASSUME NEW j \in 1 .. min_degree - 1
                 PROVE  Link(M, last2[M[z].ptrs[j - 1]]) = first2[M[z].ptrs[j]]
      OBVIOUS
    <3>1. M[z].ptrs[j] = y.ptrs[j + min_degree] /\ M[z].ptrs[j - 1] = y.ptrs[(j + min_degree) - 1]
      BY <1>4, <2>2
    <3>2. Link(N, last[y.ptrs[(j + min_degree) - 1]]) = first[y.ptrs[j + min_degree]]
      BY <1>5, <2>2
    <3>3. y.ptrs[(j + min_degree) - 1] \in live \ {c} /\ y.ptrs[j + min_degree] \in live
      BY <1>6, <2>1, <2>2
    <3> QED BY <1>9, <1>11, <3>1, <3>2, <3>3
  <2> QED BY <1>4, <2>5, <2>6, <2>7 DEF Joins
<1>16. \A q \in live \ {c} : last[q] = last[c] => last2[q] = last2[z]
  BY <1>9
<1>17. \A q, r \in live \ {c} : last[q] = last[r] => last2[q] = last2[r]
  BY <1>9
<1>18. Labels(M, more, level2, first2, last2)
  BY <1>9, <1>10, Zenon DEF Labels
<1>19. \A q \in live \ {c} : N[q].is_leaf => last2[q] = q
  BY <1>3, <1>9 DEF Joins
<1>20. Spliced(N, M, live, c, z, level, first, last, level2, first2, last2)
  BY <1>9, <1>11, <1>12, <1>13, <1>14, <1>15, <1>16, <1>17, <1>18, <1>19 DEF Spliced, more
<1> QED BY <1>20 DEF level2, first2, last2, y

\* The pages besides the halves: their children, and those of the page above.
LEMMA SplicedAbove ==
  ASSUME NEW N, NEW M, NEW live, NEW height, NEW x_id, NEW i, NEW z,
         SplitIn(N, M, live, x_id, i, z), Hangs(N, live), Lowers(N, height),
         NEW level, NEW first, NEW last, IsChained(N, live, level, first, last),
         NEW c, c = N[x_id].ptrs[i], NEW level2, NEW first2, NEW last2,
         Spliced(N, M, live, c, z, level, first, last, level2, first2, last2)
  PROVE  Joins(M, x_id, level2, first2, last2)
<1> DEFINE x == N[x_id]
           w == M[x_id]
           n == x.n_keys
           s == N[c].keys[min_degree - 1]
<1>1. /\ x_id \in NodeIds /\ c \in live /\ c # x_id /\ x \in NodeType
      /\ Halves(x, N[c], s, i, M[c], M[z], w, z)
  BY SplitHalves
<1>2. /\ x_id \in live /\ ~x.is_leaf /\ i \in 0 .. n
      /\ \A j \in 0 .. n : x.ptrs[j] \in live
      /\ \A j \in 0 .. n : j # i => x.ptrs[j] # c
  <2>1. x_id \in live /\ ~x.is_leaf /\ i \in 0 .. n
    BY DEF SplitIn
  <2>2. \A j \in 0 .. n : j \in ChildIndices(x)
    BY <2>1 DEF ChildIndices
  <2> QED BY <2>1, <2>2 DEF Hangs
<1>3. n \in Nat /\ i \in Nat /\ i <= n
  BY <1>1, <1>2, NodeFields
<1>4. /\ first[x_id] = first[x.ptrs[0]] /\ last[x_id] = last[x.ptrs[n]]
      /\ \A j \in 0 .. n : level[x_id] = level[x.ptrs[j]] + 1
      /\ \A j \in 1 .. n : Link(N, last[x.ptrs[j - 1]]) = first[x.ptrs[j]]
  <2>1. Joins(N, x_id, level, first, last) /\ ~N[x_id].is_leaf
    BY <1>2 DEF IsChained
  <2> QED BY ONLY <2>1 DEF Joins
<1>5. /\ ~w.is_leaf /\ w.n_keys = n + 1
      /\ \A j \in 0 .. n + 1 :
           w.ptrs[j] = IF j <= i THEN x.ptrs[j] ELSE IF j = i + 1 THEN z ELSE x.ptrs[j - 1]
  BY ONLY <1>1 DEF Halves
<1>6. /\ \A q \in live : first2[q] = first[q] /\ level2[q] = level[q]
      /\ level2[z] = level[c]
      /\ \A q, r \in live \ {c} : last[q] = last[r] => last2[q] = last2[r]
      /\ \A q \in live \ {c} : last[q] = last[c] => last2[q] = last2[z]
      /\ \A q \in live \ {c} : Link(M, last2[q]) = Link(N, last[q])
      /\ Link(M, last2[z]) = Link(N, last[c])
      /\ Link(M, last2[c]) = first2[z]
  BY DEF Spliced
<1>7. x.ptrs[i] = c
  OBVIOUS
<1> HIDE DEF x, w, n, s
<1>8. w.ptrs[0] = x.ptrs[0] /\ first2[x_id] = first2[w.ptrs[0]]
  <2>1. 0 \in 0 .. n + 1 /\ 0 <= i /\ 0 \in 0 .. n
    BY <1>3
  <2> QED BY <1>2, <1>4, <1>5, <1>6, <2>1
<1>9. last2[x_id] = last2[w.ptrs[n + 1]]
  <2>1. n + 1 \in 0 .. n + 1 /\ ~(n + 1 <= i) /\ n \in 0 .. n /\ (n + 1) - 1 = n
    BY <1>3
  <2>2. CASE i = n
    <3>1. w.ptrs[n + 1] = z /\ last[x_id] = last[c]
      BY <1>4, <1>5, <1>7, <2>1, <2>2
    <3> QED BY <1>1, <1>2, <1>6, <3>1
  <2>3. CASE i # n
    <3>0. n + 1 # i + 1
      BY <1>3, <2>3
    <3>1. w.ptrs[n + 1] = x.ptrs[n]
      BY <1>5, <2>1, <3>0
    <3>2. x.ptrs[n] \in live \ {c}
      BY <1>2, <2>1, <2>3
    <3> QED BY <1>1, <1>2, <1>4, <1>6, <3>1, <3>2
  <2> QED BY <2>2, <2>3
<1>10. ASSUME NEW j \in 0 .. n + 1 PROVE level2[x_id] = level2[w.ptrs[j]] + 1
  <2>1. CASE j <= i
    <3>1. j \in 0 .. n /\ w.ptrs[j] = x.ptrs[j]
      BY <1>3, <1>5, <2>1
    <3> QED BY <1>2, <1>4, <1>6, <3>1
  <2>2. CASE j = i + 1
    <3>1. w.ptrs[j] = z
      BY <1>3, <1>5, <2>2
    <3> QED BY <1>2, <1>4, <1>6, <1>7, <3>1
  <2>3. CASE j > i + 1
    <3>1. j - 1 \in 0 .. n /\ w.ptrs[j] = x.ptrs[j - 1]
      BY <1>3, <1>5, <2>3
    <3> QED BY <1>2, <1>4, <1>6, <3>1
  <2> QED BY <1>3, <2>1, <2>2, <2>3
<1>11. ASSUME NEW j \in 1 .. n + 1 PROVE Link(M, last2[w.ptrs[j - 1]]) = first2[w.ptrs[j]]
  <2>0. j \in 0 .. n + 1 /\ j - 1 \in 0 .. n + 1
    BY <1>3
  <2>1. CASE j <= i
    <3>1. j \in 1 .. n /\ j \in 0 .. n /\ j - 1 \in 0 .. n /\ j - 1 # i /\ j - 1 <= i
      BY <1>3, <2>1
    <3>2. w.ptrs[j] = x.ptrs[j] /\ w.ptrs[j - 1] = x.ptrs[j - 1]
      BY <1>5, <2>0, <2>1, <3>1
    <3>3. x.ptrs[j] \in live /\ x.ptrs[j - 1] \in live \ {c}
      BY <1>2, <3>1
    <3> QED BY <1>4, <1>6, <3>1, <3>2, <3>3
  <2>2. CASE j = i + 1
    <3>1. w.ptrs[j] = z /\ w.ptrs[j - 1] = c
      <4>1. j - 1 = i /\ ~(j <= i)
        BY <1>3, <2>2
      <4> QED BY <1>3, <1>5, <1>7, <2>0, <2>2, <4>1
    <3> QED BY <1>6, <3>1
  <2>3. CASE j = i + 2
    <3>1. ~(j <= i) /\ j # i + 1 /\ ~(j - 1 <= i) /\ j - 1 = i + 1 /\ i + 1 \in 1 .. n /\ (i + 1) - 1 = i
          /\ i + 1 \in 0 .. n
      BY <1>3, <2>3
    <3>2. w.ptrs[j] = x.ptrs[i + 1] /\ w.ptrs[j - 1] = z
      BY <1>5, <2>0, <3>1
    <3>3. Link(N, last[c]) = first[x.ptrs[i + 1]]
      BY <1>4, <1>7, <3>1
    <3> QED BY <1>2, <1>6, <3>1, <3>2, <3>3
  <2>4. CASE j > i + 2
    <3>1. /\ ~(j <= i) /\ j # i + 1 /\ ~(j - 1 <= i) /\ j - 1 # i + 1
          /\ j - 1 \in 1 .. n /\ j - 1 \in 0 .. n /\ (j - 1) - 1 \in 0 .. n /\ (j - 1) - 1 # i
      BY <1>3, <2>4
    <3>2. w.ptrs[j] = x.ptrs[j - 1] /\ w.ptrs[j - 1] = x.ptrs[(j - 1) - 1]
      BY <1>5, <2>0, <3>1
    <3>3. Link(N, last[x.ptrs[(j - 1) - 1]]) = first[x.ptrs[j - 1]]
      BY <1>4, <3>1
    <3>4. x.ptrs[j - 1] \in live /\ x.ptrs[(j - 1) - 1] \in live \ {c}
      BY <1>2, <3>1
    <3> QED BY <1>6, <3>2, <3>3, <3>4
  <2> QED BY <1>3, <2>1, <2>2, <2>3, <2>4
<1>12. Joins(M, x_id, level2, first2, last2)
  BY <1>5, <1>8, <1>9, <1>10, <1>11 DEF Joins, w
<1> QED BY <1>12

LEMMA SplicedChain ==
  ASSUME NEW N, NEW M, NEW live, NEW height, NEW x_id, NEW i, NEW z,
         SplitIn(N, M, live, x_id, i, z), Hangs(N, live), Lowers(N, height),
         NEW level, NEW first, NEW last, IsChained(N, live, level, first, last),
         NEW c, c = N[x_id].ptrs[i], NEW level2, NEW first2, NEW last2,
         Spliced(N, M, live, c, z, level, first, last, level2, first2, last2)
  PROVE  IsChained(M, live \cup {z}, level2, first2, last2)
<1>1. /\ x_id \in NodeIds /\ c \in live /\ c # x_id /\ c # z /\ x_id # z /\ c # root_id
  BY SplitHalves
<1>2. /\ x_id \in live /\ i \in ChildIndices(N[x_id]) /\ live \in SUBSET NodeIds /\ root_id \in live
      /\ z \notin live /\ z \in NodeIds
      /\ \A p \in NodeIds \ {c, x_id, z} : M[p] = N[p]
      /\ \A p \in live : \A j \in ChildIndices(N[p]) : N[p].ptrs[j] \in live
      /\ \A p \in live : \A j \in ChildIndices(N[p]) : N[p].ptrs[j] = c => p = x_id
  BY DEF SplitIn, Hangs, ChildIndices
<1>3. /\ \A q \in live : first2[q] = first[q] /\ level2[q] = level[q]
      /\ \A q, r \in live \ {c} : last[q] = last[r] => last2[q] = last2[r]
      /\ \A q \in live \ {c} : Link(M, last2[q]) = Link(N, last[q])
      /\ Joins(M, c, level2, first2, last2) /\ Joins(M, z, level2, first2, last2)
      /\ Labels(M, live \cup {z}, level2, first2, last2)
  BY DEF Spliced
<1>4. /\ \A p \in live : Joins(N, p, level, first, last)
      /\ \A p \in live : first[p] \in LeavesIn(N, live) /\ last[p] \in LeavesIn(N, live)
      /\ Link(N, last[root_id]) = NULL_PAGE
      /\ \A p \in NodeIds \ live : N[p].is_leaf => Link(N, p) = NULL_PAGE
  BY DEF IsChained, Labels
<1>5. ASSUME NEW p \in live \ {c, x_id} PROVE Joins(M, p, level2, first2, last2)
  <2>1. M[p] = N[p]
    BY <1>2
  <2>2. CASE N[p].is_leaf
    <3>1. level[p] = 0 /\ first[p] = p /\ last[p] = p
      BY <1>4, <2>2 DEF Joins
    <3>2. last2[p] = p
      BY <2>2 DEF Spliced
    <3> QED BY <1>3, <2>1, <2>2, <3>1, <3>2 DEF Joins
  <2>3. CASE ~N[p].is_leaf
    <3>1. /\ first[p] = first[N[p].ptrs[0]] /\ last[p] = last[N[p].ptrs[N[p].n_keys]]
          /\ \A j \in 0 .. N[p].n_keys : level[p] = level[N[p].ptrs[j]] + 1
          /\ \A j \in 1 .. N[p].n_keys : Link(N, last[N[p].ptrs[j - 1]]) = first[N[p].ptrs[j]]
      BY <1>4, <2>3 DEF Joins
    <3>2. \A j \in 0 .. N[p].n_keys : N[p].ptrs[j] \in live \ {c}
      BY <1>2, <2>3 DEF ChildIndices
    <3>3. N[p].n_keys \in Nat
      BY <1>2, NodeFields DEF SplitIn
    <3>4. \A j \in 1 .. N[p].n_keys : j \in 0 .. N[p].n_keys /\ j - 1 \in 0 .. N[p].n_keys
      BY <3>3
    <3>5. 0 \in 0 .. N[p].n_keys /\ N[p].n_keys \in 0 .. N[p].n_keys
      BY <3>3
    <3>6. /\ first2[p] = first2[N[p].ptrs[0]] /\ last2[p] = last2[N[p].ptrs[N[p].n_keys]]
          /\ \A j \in 0 .. N[p].n_keys : level2[p] = level2[N[p].ptrs[j]] + 1
      BY <1>3, <3>1, <3>2, <3>5
    <3>7. \A j \in 1 .. N[p].n_keys : Link(M, last2[N[p].ptrs[j - 1]]) = first2[N[p].ptrs[j]]
      BY <1>3, <3>1, <3>2, <3>4
    <3> QED BY <2>1, <2>3, <3>6, <3>7 DEF Joins
  <2> QED BY <2>2, <2>3
<1>6. Joins(M, x_id, level2, first2, last2)
  BY SplicedAbove
<1>7. \A p \in live \cup {z} : Joins(M, p, level2, first2, last2)
  BY <1>3, <1>5, <1>6
<1>8. Link(M, last2[root_id]) = NULL_PAGE
  BY <1>1, <1>2, <1>3, <1>4
<1>9. \A p \in NodeIds \ (live \cup {z}) : M[p].is_leaf => Link(M, p) = NULL_PAGE
  BY <1>1, <1>2, <1>4 DEF Link
<1> QED BY <1>3, <1>7, <1>8, <1>9, Zenon DEF IsChained

\* A split keeps the chain.
LEMMA SplitChained ==
  ASSUME NEW N, NEW M, NEW live, NEW height, NEW x_id, NEW i, NEW z,
         SplitIn(N, M, live, x_id, i, z), Hangs(N, live), Lowers(N, height), Chained(N, live)
  PROVE  Chained(M, live \cup {z})
<1>1. PICK level, first, last : IsChained(N, live, level, first, last)
  BY Zenon DEF Chained
<1>2. PICK c : c = N[x_id].ptrs[i]
  OBVIOUS
<1>3. PICK level2, first2, last2 :
        Spliced(N, M, live, c, z, level, first, last, level2, first2, last2)
  <2>1. CASE N[c].is_leaf
    <3>1. Spliced(N, M, live, c, z, level, first, last,
                  [level EXCEPT ![z] = level[c]], [first EXCEPT ![z] = z],
                  [q \in NodeIds |->
                     IF q = z \/ (q \in live \ {c} /\ last[q] = c) THEN z ELSE last[q]])
      BY <1>1, <1>2, <2>1, LeafSplice
    <3> QED BY <3>1, Zenon
  <2>2. CASE ~N[c].is_leaf
    <3>1. Spliced(N, M, live, c, z, level, first, last,
                  [level EXCEPT ![z] = level[c]],
                  [first EXCEPT ![z] = first[N[c].ptrs[min_degree]]],
                  [last EXCEPT ![z] = last[c], ![c] = last[N[c].ptrs[min_degree - 1]]])
      BY <1>1, <1>2, <2>2, NodeSplice
    <3> QED BY <3>1, Zenon
  <2> QED BY <2>1, <2>2
<1>4. IsChained(M, live \cup {z}, level2, first2, last2)
  BY <1>1, <1>2, <1>3, SplicedChain
<1> QED BY <1>4, Zenon DEF Chained
-----------------------------------------------------------------------------
(* The steps keep the chain.                                               *)

ChainInv == Chained(nodes, Live)

LEMMA ChainNow ==
  ASSUME TypeInv, ChainInv, NEW live, NEW height, NEW allowed, IsTree(nodes, live, height, allowed)
  PROVE  Chained(nodes, live)
BY EntriesNow, Zenon DEF ChainInv

LEMMA ChainLater ==
  ASSUME TypeInv', NEW live, GrowsTo(live), Chained(nodes', live)
  PROVE  ChainInv'
<1>1. Live' = live
  BY EntriesLater
<1>2. Chained(nodes', Live')
  BY <1>1
<1> QED BY <1>2, Zenon DEF ChainInv, Chained, IsChained, Labels, Joins, Link, LeavesIn

LEMMA InitChain ==
  ASSUME Init
  PROVE  ChainInv
<1>1. TypeInv /\ TreeInv
  BY InitTyped, InitTree
<1>2. PICK live, height, allowed : IsTree(nodes, live, height, allowed)
  BY <1>1, Zenon DEF TreeInv
<1>3. Live = live
  BY <1>1, <1>2, EntriesNow
<1>4. live \in SUBSET NodeIds /\ root_id \in NodeIds
  BY <1>2, Sizes DEF IsTree, Hangs
<1>5. \A p \in NodeIds : nodes[p].is_leaf /\ Link(nodes, p) = NULL_PAGE
  <2>1. 0 \in PtrSlots
    BY Sizes DEF PtrSlots
  <2> QED BY <2>1 DEF Init, EmptyNode, Link
<1> DEFINE level == [p \in NodeIds |-> 0]
           same == [p \in NodeIds |-> p]
<1>6. \A p \in NodeIds : level[p] = 0 /\ same[p] = p
  OBVIOUS
<1>7. level \in [NodeIds -> Nat] /\ same \in [NodeIds -> NodeIds]
  OBVIOUS
<1> HIDE DEF level, same
<1>8. Labels(nodes, live, level, same, same)
  BY <1>4, <1>5, <1>6, <1>7 DEF Labels, LeavesIn
<1>9. \A p \in live : Joins(nodes, p, level, same, same)
  BY <1>4, <1>5, <1>6 DEF Joins
<1>10. IsChained(nodes, live, level, same, same)
  BY <1>4, <1>5, <1>6, <1>8, <1>9 DEF IsChained
<1>11. Chained(nodes, live)
  BY <1>10, Zenon DEF Chained
<1> QED BY <1>3, <1>11 DEF ChainInv

LEMMA NodesStayChain ==
  ASSUME TypeInv, TypeInv', TreeInv, ChainInv, nodes' = nodes
  PROVE  ChainInv'
<1>1. TreeIsLive /\ TreeIsLive'
  BY LiveIs, LiveIsLater
<1>2. PICK live, height, allowed : IsTree(nodes, live, height, allowed)
  BY Zenon DEF TreeInv
<1>3. Live = live /\ Live' = live
  <2>1. IsTree(nodes', live, height, allowed)
    BY <1>2
  <2> QED BY <1>1, <1>2, <2>1, Zenon DEF TreeIsLive
<1>4. Chained(nodes', Live')
  BY <1>3 DEF ChainInv
<1> QED BY <1>4, Zenon DEF ChainInv, Chained, IsChained, Labels, Joins, Link, LeavesIn

\* A leaf that changes and keeps its link, or a page outside the tree.
LEMMA LinkStays ==
  ASSUME NEW N \in [NodeIds -> NodeType], NEW M, NEW live, Hangs(N, live), Chained(N, live),
         NEW p \in NodeIds, \A q \in NodeIds \ {p} : M[q] = N[q],
         \/ p \in live /\ N[p].is_leaf /\ M[p].is_leaf /\ Link(M, p) = Link(N, p)
         \/ p \notin live /\ (M[p].is_leaf => Link(M, p) = NULL_PAGE)
  PROVE  Chained(M, live)
<1>1. PICK level, first, last : IsChained(N, live, level, first, last)
  BY Zenon DEF Chained
<1>2. /\ \A q \in live : first[q] \in LeavesIn(N, live) /\ last[q] \in LeavesIn(N, live)
      /\ level \in [NodeIds -> Nat] /\ first \in [NodeIds -> NodeIds] /\ last \in [NodeIds -> NodeIds]
      /\ \A q \in live : Joins(N, q, level, first, last)
      /\ Link(N, last[root_id]) = NULL_PAGE
      /\ \A q \in NodeIds \ live : N[q].is_leaf => Link(N, q) = NULL_PAGE
  BY <1>1 DEF IsChained, Labels
<1>3. /\ live \in SUBSET NodeIds /\ root_id \in live
      /\ \A q \in live : \A i \in ChildIndices(N[q]) : N[q].ptrs[i] \in live
  BY DEF Hangs
<1>4. LeavesIn(M, live) = LeavesIn(N, live)
  BY <1>3 DEF LeavesIn
<1>5. \A q \in LeavesIn(N, live) : Link(M, q) = Link(N, q)
  BY <1>3 DEF LeavesIn, Link
<1>6. ASSUME NEW q \in live PROVE Joins(M, q, level, first, last)
  <2>1. CASE N[q].is_leaf
    <3>1. level[q] = 0 /\ first[q] = q /\ last[q] = q
      BY <1>2, <2>1 DEF Joins
    <3>2. M[q].is_leaf
      BY <1>3, <2>1
    <3> QED BY <3>1, <3>2 DEF Joins
  <2>2. CASE ~N[q].is_leaf
    <3>1. M[q] = N[q]
      BY <1>3, <2>2
    <3>2. N[q].n_keys \in Nat
      BY <1>3, NodeFields
    <3>3. \A i \in 1 .. N[q].n_keys : i - 1 \in 0 .. N[q].n_keys
      BY <3>2
    <3>4. \A i \in 0 .. N[q].n_keys : N[q].ptrs[i] \in live
      BY <1>3, <2>2 DEF ChildIndices
    <3>5. /\ first[q] = first[N[q].ptrs[0]] /\ last[q] = last[N[q].ptrs[N[q].n_keys]]
          /\ \A i \in 0 .. N[q].n_keys : level[q] = level[N[q].ptrs[i]] + 1
          /\ \A i \in 1 .. N[q].n_keys : Link(N, last[N[q].ptrs[i - 1]]) = first[N[q].ptrs[i]]
      BY <1>2, <2>2 DEF Joins
    <3>6. \A i \in 1 .. N[q].n_keys : Link(M, last[N[q].ptrs[i - 1]]) = first[N[q].ptrs[i]]
      BY <1>2, <1>5, <3>3, <3>4, <3>5
    <3> QED BY <2>2, <3>1, <3>5, <3>6 DEF Joins
  <2> QED BY <2>1, <2>2
<1>7. Link(M, last[root_id]) = NULL_PAGE
  BY <1>2, <1>3, <1>5
<1>8. \A q \in NodeIds \ live : M[q].is_leaf => Link(M, q) = NULL_PAGE
  BY <1>2 DEF Link
<1>9. Labels(M, live, level, first, last)
  BY <1>2, <1>4, Zenon DEF Labels
<1>10. IsChained(M, live, level, first, last)
  BY <1>6, <1>7, <1>8, <1>9, Zenon DEF IsChained
<1> QED BY <1>10, Zenon DEF Chained

LEMMA CopyRootChain ==
  ASSUME TypeInv, TypeInv', TreeInv, ChainInv, CopyRoot
  PROVE  ChainInv'
<1>1. PICK live, height, allowed : IsTree(nodes, live, height, allowed) /\ OpInTree(live, allowed)
  BY Zenon DEF TreeInv
<1>2. GrowsTo(live) /\ Chained(nodes, live)
  BY <1>1, CopyRootTree, ChainNow
<1>3. PICK s \in NodeIds : s \notin allocated /\ nodes' = [nodes EXCEPT ![s] = nodes[root_id]]
  BY DEF CopyRoot, IsNewPage
<1>4. live \in SUBSET allocated /\ Hangs(nodes, live) /\ root_id \in live
  BY <1>1 DEF OpInTree, IsTree, Hangs
<1>5. nodes \in [NodeIds -> NodeType]
  BY DEF TypeInv, NodesInv
<1>6. nodes'[s] = nodes[root_id] /\ \A q \in NodeIds \ {s} : nodes'[q] = nodes[q]
  BY <1>3, <1>5
<1>7. nodes[root_id].is_leaf => Link(nodes, root_id) = NULL_PAGE
  BY <1>2, <1>4 DEF Chained, IsChained, Joins
<1>8. nodes'[s].is_leaf => Link(nodes', s) = NULL_PAGE
  BY <1>6, <1>7 DEF Link
<1>9. PICK M : M = nodes'
  OBVIOUS
<1>10. Chained(M, live)
  <2>1. s \notin live /\ (M[s].is_leaf => Link(M, s) = NULL_PAGE) /\ \A q \in NodeIds \ {s} : M[q] = nodes[q]
    BY <1>3, <1>4, <1>6, <1>8, <1>9
  <2> QED BY <1>2, <1>4, <1>5, <2>1, LinkStays
<1> QED BY <1>2, <1>9, <1>10, ChainLater

LEMMA InsertInLeafChain ==
  ASSUME TypeInv, TypeInv', TreeInv, ChainInv, InsertInLeaf
  PROVE  ChainInv'
<1>1. PICK live, height, allowed : IsTree(nodes, live, height, allowed) /\ OpInTree(live, allowed)
  BY Zenon DEF TreeInv
<1>2. GrowsTo(live) /\ Chained(nodes, live)
  BY <1>1, InsertInLeafTree, ChainNow
<1>3. /\ op.kind = "insert" /\ nodes[op.at].is_leaf
      /\ nodes' = [nodes EXCEPT ![op.at] = WithEntry(@, op.key, op.ref)]
  BY DEF InsertInLeaf
<1>4. PICK p, key, ref : p = op.at /\ key = op.key /\ ref = op.ref
  OBVIOUS
<1>5. p \in NodeIds /\ key \in Keys /\ ref \in AnyPtr /\ ~Full(nodes[p])
  BY <1>3, <1>4, OpKinds, Sizes DEF TypeInv, OpInv, InsertType
<1>6. nodes \in [NodeIds -> NodeType] /\ nodes[p] \in NodeType
  BY <1>5 DEF TypeInv, NodesInv
<1>7. p \in live /\ Hangs(nodes, live)
  BY <1>1, <1>3, <1>4 DEF OpInTree, IsTree
<1> DEFINE new == WithEntry(nodes[p], key, ref)
<1>8. nodes' = [nodes EXCEPT ![p] = new]
  BY <1>3, <1>4
<1>9. new.is_leaf
  BY <1>3, <1>4, <1>5, <1>6, WithEntryType
<1>10. Added(nodes[p], new, UpperIndex(nodes[p], key), key, ref)
  BY <1>5, <1>6, WithEntryPlaces
<1> HIDE DEF new
<1>11. PICK M : M = nodes'
  OBVIOUS
<1>12. M[p] = new /\ \A q \in NodeIds \ {p} : M[q] = nodes[q]
  BY <1>5, <1>6, <1>8, <1>11
<1>13. Link(M, p) = Link(nodes, p)
  BY <1>10, <1>12 DEF Link, Added
<1>14. Chained(M, live)
  <2>1. nodes[p].is_leaf /\ M[p].is_leaf
    BY <1>3, <1>4, <1>9, <1>12
  <2> QED BY <1>2, <1>5, <1>6, <1>7, <1>12, <1>13, <2>1, LinkStays
<1> QED BY <1>2, <1>11, <1>14, ChainLater

LEMMA RemoveFromLeafChain ==
  ASSUME TypeInv, TypeInv', TreeInv, ChainInv, RemoveFromLeaf, nodes' # nodes,
         LowerIndex(nodes[op.at], op.key) # nodes[op.at].n_keys
  PROVE  ChainInv'
<1>1. PICK live, height, allowed : IsTree(nodes, live, height, allowed) /\ OpInTree(live, allowed)
  BY Zenon DEF TreeInv
<1>2. GrowsTo(live) /\ Chained(nodes, live)
  BY <1>1, RemoveFromLeafTree, ChainNow
<1>3. PICK p, key : p = op.at /\ key = op.key
  OBVIOUS
<1>4. PICK k : k = LowerIndex(nodes[p], key)
  OBVIOUS
<1>5. /\ op.kind = "remove" /\ nodes[p].is_leaf /\ k # nodes[p].n_keys /\ k \in KeySlots
      /\ nodes[p].n_keys > 0
      /\ nodes' = [nodes EXCEPT ![p] = WithoutEntry(nodes[p], k)]
  BY <1>3, <1>4 DEF RemoveFromLeaf
<1>6. p \in NodeIds /\ key \in Keys
  BY <1>3, <1>5, OpKinds DEF TypeInv, RemoveType
<1>7. nodes \in [NodeIds -> NodeType] /\ nodes[p] \in NodeType
  BY <1>6 DEF TypeInv, NodesInv
<1>8. p \in live /\ Hangs(nodes, live)
  BY <1>1, <1>3, <1>5 DEF OpInTree, IsTree
<1>9. k \in 0 .. nodes[p].n_keys - 1 /\ k <= nodes[p].n_keys
  <2>1. PICK x : x = nodes[p]
    OBVIOUS
  <2>2. LowerIndex(x, key) \in 0 .. x.n_keys /\ x.n_keys \in Nat
    BY <1>6, <1>7, <2>1, LowerIndexFacts, NodeFields
  <2> QED BY <1>4, <1>5, <2>1, <2>2
<1> DEFINE new == WithoutEntry(nodes[p], k)
<1>10. new.is_leaf
  BY <1>5, <1>7, <1>9, WithoutEntryType
<1>11. Taken(nodes[p], new, k)
  BY <1>7, <1>9, WithoutEntryPlaces
<1>12. nodes' = [nodes EXCEPT ![p] = new]
  BY <1>5
<1> HIDE DEF new
<1>13. PICK M : M = nodes'
  OBVIOUS
<1>14. M[p] = new /\ \A q \in NodeIds \ {p} : M[q] = nodes[q]
  BY ONLY <1>6, <1>7, <1>12, <1>13
<1>15. Link(M, p) = Link(nodes, p)
  BY <1>11, <1>14 DEF Link, Taken
<1>16. Chained(M, live)
  BY <1>2, <1>5, <1>6, <1>7, <1>8, <1>10, <1>14, <1>15, LinkStays
<1> QED BY <1>2, <1>13, <1>16, ChainLater

LEMMA SplitAndInsertBelowChain ==
  ASSUME TypeInv, TypeInv', TreeInv, ChainInv, SplitAndInsertBelow
  PROVE  ChainInv'
<1>1. PICK live, height, allowed : IsTree(nodes, live, height, allowed) /\ OpInTree(live, allowed)
  BY Zenon DEF TreeInv
<1> DEFINE i == UpperIndex(nodes[op.at], op.key)
<1>2. PICK z \in NodeIds :
        SplitIn(nodes, nodes', live, op.at, i, z) /\ GrowsTo(live \cup {z})
  BY <1>1, SplitAndInsertBelowTree
<1>3. Hangs(nodes, live) /\ Lowers(nodes, height) /\ Chained(nodes, live)
  BY <1>1, ChainNow DEF IsTree
<1> HIDE DEF i
<1>4. Chained(nodes', live \cup {z})
  BY <1>2, <1>3, SplitChained
<1>5. PICK more : more = live \cup {z}
  OBVIOUS
<1>6. GrowsTo(more) /\ Chained(nodes', more)
  BY <1>2, <1>4, <1>5
<1> QED BY <1>6, ChainLater

\* The copy of the root takes its place in the chain.
LEMMA NewRootChain ==
  ASSUME TypeInv, NEW live, NEW height, NEW allowed,
         IsTree(nodes, live, height, allowed), OpInTree(live, allowed),
         op.kind = "split_root", op.copy # NULL_PAGE, Chained(nodes, live)
  PROVE  Chained(WithNewRoot, live \cup {op.copy})
<1> DEFINE s == op.copy
           N == WithNewRoot
           more == live \cup {s}
           r == nodes[root_id]
<1>1. /\ s \in NodeIds /\ s # root_id /\ nodes[s] = r /\ root_id \in NodeIds
      /\ nodes \in [NodeIds -> NodeType]
  BY Sizes DEF TypeInv, OpInv, NodesInv
<1>2. /\ s \notin live /\ live \in SUBSET NodeIds /\ root_id \in live
      /\ \A q \in live : \A i \in ChildIndices(nodes[q]) : nodes[q].ptrs[i] \in live \ {root_id}
  BY DEF OpInTree, IsTree, Hangs, Lowers
<1>3. /\ ~N[root_id].is_leaf /\ N[root_id].n_keys = 0 /\ N[root_id].ptrs[0] = s
      /\ \A p \in NodeIds \ {root_id} : N[p] = nodes[p]
  <2>1. N[root_id] = NewRoot /\ \A p \in NodeIds \ {root_id} : N[p] = nodes[p]
    BY <1>1 DEF WithNewRoot
  <2> DEFINE ptrs == [r.ptrs EXCEPT ![0] = s]
  <2>2. NewRoot = [r EXCEPT !.is_leaf = FALSE, !.n_keys = 0, !.ptrs = ptrs]
    BY Zenon DEF NewRoot
  <2>3. r \in NodeType /\ r.ptrs \in [PtrSlots -> AnyPtr] /\ 0 \in PtrSlots
    BY <1>1, NodeFields, Sizes DEF PtrSlots
  <2>4. ptrs[0] = s
    BY <2>3
  <2> HIDE DEF r, ptrs
  <2>5. ~NewRoot.is_leaf /\ NewRoot.n_keys = 0 /\ NewRoot.ptrs = ptrs
    BY <2>2, <2>3 DEF NodeType
  <2> QED BY <2>1, <2>4, <2>5
<1>4. r.is_leaf => live = {root_id}
  <2>1. live = Under(root_id) /\ ChildrenAreNodes
    BY EntriesNow, NodeChildren DEF Live
  <2>2. r.is_leaf => Children(root_id) = {}
    BY DEF Children, ChildIndices
  <2>3. Under(root_id) = {root_id} \cup UNION {Under(c) : c \in Children(root_id)}
    BY <1>1, <2>1, UnderOneOn
  <2> QED BY <2>1, <2>2, <2>3
<1>5. PICK level, first, last : IsChained(nodes, live, level, first, last)
  BY Zenon DEF Chained
<1>6. /\ \A q \in live : first[q] \in LeavesIn(nodes, live) /\ last[q] \in LeavesIn(nodes, live)
      /\ level \in [NodeIds -> Nat] /\ first \in [NodeIds -> NodeIds] /\ last \in [NodeIds -> NodeIds]
      /\ \A q \in live : Joins(nodes, q, level, first, last)
      /\ Link(nodes, last[root_id]) = NULL_PAGE
      /\ \A q \in NodeIds \ live : nodes[q].is_leaf => Link(nodes, q) = NULL_PAGE
  BY <1>5 DEF IsChained, Labels
<1> DEFINE a == IF r.is_leaf THEN s ELSE first[root_id]
           z == IF r.is_leaf THEN s ELSE last[root_id]
           level2 == [level EXCEPT ![s] = level[root_id], ![root_id] = level[root_id] + 1]
           first2 == [first EXCEPT ![s] = a, ![root_id] = a]
           last2 == [last EXCEPT ![s] = z, ![root_id] = z]
<1>7. a \in NodeIds /\ z \in NodeIds
  BY <1>1, <1>6
<1>8. /\ level2 \in [NodeIds -> Nat] /\ first2 \in [NodeIds -> NodeIds] /\ last2 \in [NodeIds -> NodeIds]
      /\ level2[s] = level[root_id] /\ level2[root_id] = level2[s] + 1
      /\ first2[s] = a /\ first2[root_id] = a /\ last2[s] = z /\ last2[root_id] = z
      /\ \A q \in NodeIds \ {s, root_id} :
           level2[q] = level[q] /\ first2[q] = first[q] /\ last2[q] = last[q]
  <2> HIDE DEF a, z
  <2> QED BY <1>1, <1>6, <1>7
<1> HIDE DEF level2, first2, last2, N, s
<1>9. \A q \in LeavesIn(nodes, live) : q # root_id =>
        q \in LeavesIn(N, more) /\ Link(N, q) = Link(nodes, q)
  BY <1>2, <1>3 DEF LeavesIn, Link
<1>10. r.is_leaf => s \in LeavesIn(N, more) /\ Link(N, s) = NULL_PAGE
  <2>1. N[s] = r
    BY <1>1, <1>3
  <2>2. r.is_leaf => last[root_id] = root_id
    BY <1>2, <1>6 DEF Joins
  <2> QED BY <1>1, <1>6, <2>1, <2>2 DEF LeavesIn, Link
<1>11. ~r.is_leaf => a \in LeavesIn(N, more) /\ z \in LeavesIn(N, more) /\ Link(N, z) = NULL_PAGE
  <2>1. ~r.is_leaf => first[root_id] # root_id /\ last[root_id] # root_id
    BY <1>2, <1>6 DEF LeavesIn
  <2> QED BY <1>2, <1>6, <1>9, <2>1
<1>12. a \in LeavesIn(N, more) /\ z \in LeavesIn(N, more) /\ Link(N, z) = NULL_PAGE
  BY <1>10, <1>11
<1> HIDE DEF a, z, more
<1>13. \A q \in live \ {root_id} :
         /\ level2[q] = level[q] /\ first2[q] = first[q] /\ last2[q] = last[q]
         /\ last2[q] \in LeavesIn(N, more) /\ first2[q] \in LeavesIn(N, more)
         /\ Link(N, last2[q]) = Link(nodes, last[q])
  <2> SUFFICES ASSUME NEW q \in live \ {root_id}
               PROVE  /\ level2[q] = level[q] /\ first2[q] = first[q] /\ last2[q] = last[q]
                      /\ last2[q] \in LeavesIn(N, more) /\ first2[q] \in LeavesIn(N, more)
                      /\ Link(N, last2[q]) = Link(nodes, last[q])
    OBVIOUS
  <2>1. q \in NodeIds \ {s, root_id} /\ ~r.is_leaf
    BY <1>2, <1>4 DEF s
  <2>2. root_id \notin LeavesIn(nodes, live)
    BY <2>1 DEF LeavesIn
  <2> QED BY <1>6, <1>8, <1>9, <2>1, <2>2
<1>14. Labels(N, more, level2, first2, last2)
  <2>1. \A q \in more : first2[q] \in LeavesIn(N, more) /\ last2[q] \in LeavesIn(N, more)
    BY <1>8, <1>12, <1>13 DEF more
  <2> QED BY <1>8, <2>1, Zenon DEF Labels
\* The copy and the other pages below the new root have children that were there before.
<1>15. ASSUME NEW p \in NodeIds \ {root_id}, NEW q \in live, N[p] = nodes[q],
              level2[p] = level[q],
              nodes[q].is_leaf => first2[p] = p /\ last2[p] = p,
              ~nodes[q].is_leaf => first2[p] = first[q] /\ last2[p] = last[q]
       PROVE  Joins(N, p, level2, first2, last2)
  <2>1. CASE nodes[q].is_leaf
    <3>1. level[q] = 0
      BY <1>6, <2>1 DEF Joins
    <3> QED BY <1>15, <2>1, <3>1 DEF Joins
  <2>2. CASE ~nodes[q].is_leaf
    <3>1. \A i \in 0 .. nodes[q].n_keys : nodes[q].ptrs[i] \in live \ {root_id}
      BY <1>2, <2>2 DEF ChildIndices
    <3>2. nodes[q].n_keys \in Nat
      BY <1>1, <1>2, NodeFields
    <3>3. /\ \A i \in 1 .. nodes[q].n_keys : i - 1 \in 0 .. nodes[q].n_keys /\ i \in 0 .. nodes[q].n_keys
          /\ 0 \in 0 .. nodes[q].n_keys /\ nodes[q].n_keys \in 0 .. nodes[q].n_keys
      BY <3>2
    <3>4. /\ first[q] = first[nodes[q].ptrs[0]] /\ last[q] = last[nodes[q].ptrs[nodes[q].n_keys]]
          /\ \A i \in 0 .. nodes[q].n_keys : level[q] = level[nodes[q].ptrs[i]] + 1
          /\ \A i \in 1 .. nodes[q].n_keys :
               Link(nodes, last[nodes[q].ptrs[i - 1]]) = first[nodes[q].ptrs[i]]
      BY <1>6, <2>2 DEF Joins
    <3>5. /\ first2[p] = first2[nodes[q].ptrs[0]] /\ last2[p] = last2[nodes[q].ptrs[nodes[q].n_keys]]
          /\ \A i \in 0 .. nodes[q].n_keys : level2[p] = level2[nodes[q].ptrs[i]] + 1
      BY <1>13, <1>15, <2>2, <3>1, <3>3, <3>4
    <3>6. \A i \in 1 .. nodes[q].n_keys :
            Link(N, last2[nodes[q].ptrs[i - 1]]) = first2[nodes[q].ptrs[i]]
      BY <1>13, <3>1, <3>3, <3>4
    <3> QED BY <1>15, <2>2, <3>5, <3>6 DEF Joins
  <2> QED BY <2>1, <2>2
<1>16. ASSUME NEW p \in live \ {root_id} PROVE Joins(N, p, level2, first2, last2)
  <2>1. p \in NodeIds \ {root_id} /\ N[p] = nodes[p]
    BY <1>2, <1>3
  <2>2. level2[p] = level[p] /\ first2[p] = first[p] /\ last2[p] = last[p]
    BY <1>13
  <2>3. nodes[p].is_leaf => first[p] = p /\ last[p] = p
    BY <1>6 DEF Joins
  <2> QED BY <1>15, <2>1, <2>2, <2>3
<1>17. Joins(N, s, level2, first2, last2)
  <2>1. s \in NodeIds \ {root_id} /\ N[s] = nodes[root_id]
    BY <1>1, <1>3 DEF s
  <2>2. nodes[root_id].is_leaf => first2[s] = s /\ last2[s] = s
    BY <1>8 DEF a, z
  <2>3. ~nodes[root_id].is_leaf => first2[s] = first[root_id] /\ last2[s] = last[root_id]
    BY <1>8 DEF a, z
  <2> QED BY <1>2, <1>8, <1>15, <2>1, <2>2, <2>3
<1>18. Joins(N, root_id, level2, first2, last2)
  <2>1. \A i \in 1 .. 0 : FALSE
    OBVIOUS
  <2>2. \A i \in 0 .. 0 : i = 0
    OBVIOUS
  <2> QED BY <1>3, <1>8, <2>1, <2>2 DEF Joins
<1>19. \A p \in more : Joins(N, p, level2, first2, last2)
  BY <1>16, <1>17, <1>18 DEF more
<1>20. Link(N, last2[root_id]) = NULL_PAGE
  BY <1>8, <1>12
<1>21. \A q \in NodeIds \ more : N[q].is_leaf => Link(N, q) = NULL_PAGE
  BY <1>2, <1>3, <1>6 DEF more, Link
<1>22. IsChained(N, more, level2, first2, last2)
  BY <1>14, <1>19, <1>20, <1>21, Zenon DEF IsChained
<1>23. Chained(N, more)
  BY <1>22, Zenon DEF Chained
<1> QED BY <1>23 DEF N, more, s

LEMMA SplitRootChain ==
  ASSUME TypeInv, TypeInv', TreeInv, ChainInv, SplitRoot
  PROVE  ChainInv'
<1>1. PICK live, height, allowed : IsTree(nodes, live, height, allowed) /\ OpInTree(live, allowed)
  BY Zenon DEF TreeInv
<1>2. PICK z \in NodeIds :
        /\ SplitIn(WithNewRoot, nodes', live \cup {op.copy}, root_id, 0, z)
        /\ \E more : more = (live \cup {op.copy}) \cup {z} /\ GrowsTo(more)
  BY <1>1, SplitRootTree
<1>3. op.kind = "split_root" /\ op.copy # NULL_PAGE
  BY DEF SplitRoot
<1>4. PICK N, live1 : N = WithNewRoot /\ live1 = live \cup {op.copy}
  OBVIOUS
<1>5. \E height1, allowed1 : IsTree(N, live1, height1, allowed1)
  BY <1>1, <1>3, <1>4, NewRootTree, Zenon
<1>6. PICK height1 : Hangs(N, live1) /\ Lowers(N, height1)
  BY <1>5, Zenon DEF IsTree
<1>7. Chained(nodes, live)
  BY <1>1, ChainNow
<1>8. Chained(N, live1)
  BY <1>1, <1>3, <1>4, <1>7, NewRootChain
<1>9. SplitIn(N, nodes', live1, root_id, 0, z)
  BY <1>2, <1>4
<1>10. Chained(nodes', live1 \cup {z})
  BY <1>6, <1>8, <1>9, SplitChained
<1>11. PICK more : more = live1 \cup {z} /\ GrowsTo(more)
  BY <1>2, <1>4
<1>12. Chained(nodes', more)
  BY <1>10, <1>11
<1> QED BY <1>11, <1>12, ChainLater

LEMMA ChainStep ==
  ASSUME TypeInv, TypeInv', TreeInv, RemovalInv, ChainInv, [RegularNext]_vars
  PROVE  ChainInv'
<1>1. CASE nodes' = nodes
  BY <1>1, NodesStayChain
<1>2. CASE RemoveFromLeaf /\ nodes' # nodes
  BY <1>2, RemovalFinds, RemoveFromLeafChain
<1>3. UNCHANGED vars \/ InsertBelow \/ RemoveBelow \/ LoadFails => nodes' = nodes
  BY DEF vars, InsertBelow, RemoveBelow, LoadFails
<1>4. ASSUME NEW key \in Keys, BeginInsert(key) \/ BeginRemove(key) PROVE nodes' = nodes
  BY <1>4 DEF BeginInsert, BeginRemove
<1>5. RegularNext \/ UNCHANGED vars
  OBVIOUS
<1> QED
  BY <1>1, <1>2, <1>3, <1>4, <1>5, CopyRootChain, SplitRootChain, InsertInLeafChain,
     SplitAndInsertBelowChain, Zenon DEF RegularNext, Step
-----------------------------------------------------------------------------
(* Sequences one after the other.                                          *)

UpToBody(f, parts, n) ==
  [i \in 0 .. n |-> (IF i = 0 THEN <<>> ELSE f[i - 1]) \o parts[i]]

UpTo(parts, n) == CHOOSE f : f = UpToBody(f, parts, n)

IsUpTo(up, parts, n, S) ==
  /\ up \in [0 .. n -> Seq(S)]
  /\ up[0] = parts[0]
  /\ \A i \in 1 .. n : up[i] = up[i - 1] \o parts[i]

LEMMA JoinedIs ==
  ASSUME NEW S, NEW n \in Nat, NEW parts \in [0 .. n -> Seq(S)]
  PROVE  IsUpTo(UpTo(parts, n), parts, n, S) /\ Joined(parts, n) = UpTo(parts, n)[n]
<1> DEFINE P == 0 .. n
           V == Seq(S)
           rank == [i \in P |-> i]
           body == [f \in [P -> V] |-> UpToBody(f, parts, n)]
<1>1. \A f \in [P -> V] : UpToBody(f, parts, n) \in [P -> V]
  <2> SUFFICES ASSUME NEW f \in [P -> V], NEW i \in P
               PROVE  (IF i = 0 THEN <<>> ELSE f[i - 1]) \o parts[i] \in V
    BY DEF UpToBody
  <2>1. (IF i = 0 THEN <<>> ELSE f[i - 1]) \in V
    OBVIOUS
  <2> QED BY <2>1
<1>2. IsRecursion(body, P, V, n, rank)
  <2>1. ASSUME NEW i \in P, NEW f \in [P -> V], NEW g \in [P -> V],
               \A j \in P : rank[j] < rank[i] => f[j] = g[j]
        PROVE  body[f][i] = body[g][i]
    <3>1. i # 0 => f[i - 1] = g[i - 1]
      BY <2>1
    <3>2. UpToBody(f, parts, n)[i] = UpToBody(g, parts, n)[i]
      BY <3>1 DEF UpToBody
    <3> QED BY <3>2
  <2>2. rank \in [P -> 0 .. n] /\ body \in [[P -> V] -> [P -> V]]
    BY <1>1
  <2> HIDE DEF rank, body, P, V
  <2> QED BY <2>1, <2>2 DEF IsRecursion
<1>3. <<>> \in V
  OBVIOUS
<1> HIDE DEF P, V, rank, body
<1>4. PICK f : IsDefinedBy(f, body, P, V)
  BY <1>2, <1>3, RecursionHasFunction
<1>5. f = UpToBody(f, parts, n) /\ f \in [P -> V]
  BY <1>4 DEF IsDefinedBy, body
<1>6. UpTo(parts, n) = UpToBody(UpTo(parts, n), parts, n)
  BY <1>5, Zenon DEF UpTo
<1> DEFINE up == UpTo(parts, n)
<1> HIDE DEF up
<1>7. up = UpToBody(up, parts, n)
  BY <1>6 DEF up
<1>8. \A i \in 0 .. n : up[i] = (IF i = 0 THEN <<>> ELSE up[i - 1]) \o parts[i]
  BY <1>7 DEF UpToBody
<1>9. up[0] = parts[0]
  <2>1. 0 \in 0 .. n /\ parts[0] \in Seq(S)
    OBVIOUS
  <2>2. up[0] = <<>> \o parts[0]
    <3>1. up[0] = (IF 0 = 0 THEN <<>> ELSE up[0 - 1]) \o parts[0]
      BY ONLY <1>8, <2>1, Zenon
    <3> QED BY ONLY <3>1, Zenon
  <2> QED BY ONLY <2>1, <2>2
<1>10. \A i \in 1 .. n : up[i] = up[i - 1] \o parts[i]
  <2> SUFFICES ASSUME NEW i \in 1 .. n PROVE up[i] = up[i - 1] \o parts[i]
    OBVIOUS
  <2>1. i \in 0 .. n /\ ~(i = 0)
    BY ONLY n \in Nat, i \in 1 .. n
  <2> QED BY ONLY <1>8, <2>1, Zenon
<1> DEFINE good == {i \in 0 .. n : up[i] \in Seq(S)}
<1>11. 0 \in good
  BY <1>9
<1>12. ASSUME NEW i \in 0 .. n - 1, i \in good PROVE i + 1 \in good
  <2>1. i + 1 \in 1 .. n /\ (i + 1) - 1 = i
    OBVIOUS
  <2>2. up[i + 1] = up[i] \o parts[i + 1]
    BY <1>10, <2>1
  <2>3. up[i] \in Seq(S) /\ parts[i + 1] \in Seq(S)
    BY <1>12
  <2>4. up[i + 1] \in Seq(S)
    BY ONLY <2>2, <2>3
  <2>5. i + 1 \in 0 .. n
    BY ONLY n \in Nat, i \in 0 .. n - 1
  <2> QED BY <2>4, <2>5
<1> HIDE DEF good
<1>13. \A i \in 0 .. n : i \in good
  BY <1>11, <1>12, SetInduction
<1>14. up \in [0 .. n -> Seq(S)]
  <2>1. up = [i \in 0 .. n |-> up[i]]
    BY <1>7 DEF UpToBody
  <2> QED BY <1>13, <2>1 DEF good
<1>15. IsUpTo(up, parts, n, S)
  BY <1>9, <1>10, <1>14 DEF IsUpTo
<1>16. Joined(parts, n) = UpTo(parts, n)[n]
  BY Zenon DEF Joined, UpTo, UpToBody
<1> QED BY <1>15, <1>16 DEF up
-----------------------------------------------------------------------------
(* The leaves below each page, from left to right.                         *)

LeavesBody(f) ==
  [p \in NodeIds |->
     IF nodes[p].is_leaf THEN <<p>>
     ELSE Joined([i \in 0 .. nodes[p].n_keys |-> f[nodes[p].ptrs[i]]], nodes[p].n_keys)]

LeavesOf == CHOOSE f : f = LeavesBody(f)

LevelsBody(f) ==
  [n \in 0 .. MaxNodes |->
     IF n = 0 THEN {root_id}
     ELSE UNION {{nodes[p].ptrs[i] : i \in 0 .. nodes[p].n_keys} :
                   p \in {q \in f[n - 1] : ~nodes[q].is_leaf}}]

LevelsOf == CHOOSE f : f = LevelsBody(f)

LEMMA ChainMeans ==
  LeavesInChain <=>
    /\ \A n \in 0 .. MaxNodes : \A p, q \in LevelsOf[n] : nodes[p].is_leaf <=> nodes[q].is_leaf
    /\ \A i \in DOMAIN LeavesOf[root_id] :
         nodes[LeavesOf[root_id][i]].ptrs[nodes[LeavesOf[root_id][i]].n_keys] =
           IF i < Len(LeavesOf[root_id]) THEN LeavesOf[root_id][i + 1] ELSE NULL_PAGE
<1>1. Levels = [n \in 0 .. MaxNodes |-> LevelsOf[n]]
  BY Zenon DEF Levels, LevelsOf, LevelsBody
<1>2. DOMAIN Levels = 0 .. MaxNodes /\ \A n \in 0 .. MaxNodes : Levels[n] = LevelsOf[n]
  BY <1>1
<1>3. LeavesInChain <=>
    /\ \A n \in DOMAIN Levels : \A p, q \in Levels[n] : nodes[p].is_leaf <=> nodes[q].is_leaf
    /\ \A i \in DOMAIN LeavesOf[root_id] :
         nodes[LeavesOf[root_id][i]].ptrs[nodes[LeavesOf[root_id][i]].n_keys] =
           IF i < Len(LeavesOf[root_id]) THEN LeavesOf[root_id][i + 1] ELSE NULL_PAGE
  BY Zenon DEF LeavesInChain, LeavesOf, LeavesBody
<1> QED BY <1>2, <1>3, Zenon

LEMMA HeightsBounded ==
  ASSUME NEW height \in [NodeIds -> Nat]
  PROVE  \E top \in Nat : height \in [NodeIds -> 0 .. top]
<1> DEFINE good == {n \in Nat : \E top \in Nat : \A p \in 1 .. n : height[p] <= top}
           good2 == {n \in Nat : n <= MaxNodes => n \in good}
<1>1. MaxNodes \in Nat
  BY BPTreeAssumption
<1>2. 0 \in good
  <2>1. \A p \in 1 .. 0 : height[p] <= 0
    OBVIOUS
  <2> QED BY <2>1
<1>3. ASSUME NEW n \in 0 .. MaxNodes - 1, n \in good PROVE n + 1 \in good
  <2>1. PICK top \in Nat : \A p \in 1 .. n : height[p] <= top
    BY <1>3
  <2>2. n + 1 \in NodeIds
    BY <1>1 DEF NodeIds
  <2>3. height[n + 1] \in Nat
    BY <2>2
  <2>4. \A p \in 1 .. n : p \in NodeIds
    BY <1>1 DEF NodeIds
  <2>5. \A p \in 1 .. n : height[p] \in Nat
    BY <2>4
  <2> DEFINE more == top + height[n + 1]
  <2>6. more \in Nat /\ height[n + 1] <= more /\ \A p \in 1 .. n : height[p] <= more
    BY <2>1, <2>3, <2>5
  <2> HIDE DEF more
  <2>7. \A p \in 1 .. n + 1 : p \in 1 .. n \/ p = n + 1
    OBVIOUS
  <2>8. \A p \in 1 .. n + 1 : height[p] <= more
    BY <2>6, <2>7
  <2> QED BY <2>6, <2>8
<1> HIDE DEF good
<1>4. \A n \in 0 .. MaxNodes : n \in good
  BY <1>1, <1>2, <1>3, SetInduction
<1>5. MaxNodes \in good
  BY <1>1, <1>4
<1>6. PICK top \in Nat : \A p \in 1 .. MaxNodes : height[p] <= top
  BY <1>5 DEF good
<1>7. \A p \in NodeIds : height[p] \in 0 .. top
  BY <1>6 DEF NodeIds
<1>8. height = [p \in NodeIds |-> height[p]]
  OBVIOUS
<1> QED BY <1>7, <1>8

LEMMA LeavesOfIs ==
  ASSUME TypeInv, NEW height, Lowers(nodes, height)
  PROVE  LeavesOf = LeavesBody(LeavesOf)
<1> DEFINE V == Seq(NodeIds)
           body == [f \in [NodeIds -> V] |-> LeavesBody(f)]
<1>1. PICK top \in Nat : height \in [NodeIds -> 0 .. top]
  BY HeightsBounded DEF Lowers
<1>2. \A p \in NodeIds : ~nodes[p].is_leaf =>
        /\ nodes[p].n_keys \in Nat
        /\ \A i \in 0 .. nodes[p].n_keys : nodes[p].ptrs[i] \in NodeIds /\ height[nodes[p].ptrs[i]] < height[p]
  BY NodeFields DEF Lowers, ChildIndices, TypeInv, NodesInv
<1>3. \A f \in [NodeIds -> V] : LeavesBody(f) \in [NodeIds -> V]
  <2> SUFFICES ASSUME NEW f \in [NodeIds -> V], NEW p \in NodeIds
               PROVE  (IF nodes[p].is_leaf THEN <<p>>
                       ELSE Joined([i \in 0 .. nodes[p].n_keys |-> f[nodes[p].ptrs[i]]], nodes[p].n_keys)) \in V
    BY DEF LeavesBody
  <2>1. CASE nodes[p].is_leaf
    BY <2>1
  <2>2. CASE ~nodes[p].is_leaf
    <3> DEFINE n == nodes[p].n_keys
               parts == [i \in 0 .. n |-> f[nodes[p].ptrs[i]]]
    <3>1. n \in Nat /\ parts \in [0 .. n -> Seq(NodeIds)]
      BY <1>2, <2>2
    <3> HIDE DEF n, parts
    <3>2. Joined(parts, n) = UpTo(parts, n)[n] /\ UpTo(parts, n) \in [0 .. n -> Seq(NodeIds)]
      BY <3>1, JoinedIs DEF IsUpTo
    <3>3. Joined(parts, n) \in V
      BY <3>1, <3>2
    <3> QED BY <2>2, <3>3 DEF n, parts
  <2> QED BY <2>1, <2>2
<1>4. IsRecursion(body, NodeIds, V, top, height)
  <2>1. ASSUME NEW p \in NodeIds, NEW f \in [NodeIds -> V], NEW g \in [NodeIds -> V],
               \A q \in NodeIds : height[q] < height[p] => f[q] = g[q]
        PROVE  body[f][p] = body[g][p]
    <3>1. ~nodes[p].is_leaf =>
            [i \in 0 .. nodes[p].n_keys |-> f[nodes[p].ptrs[i]]]
              = [i \in 0 .. nodes[p].n_keys |-> g[nodes[p].ptrs[i]]]
      BY <1>2, <2>1
    <3>2. LeavesBody(f)[p] = LeavesBody(g)[p]
      BY <3>1, Zenon DEF LeavesBody
    <3> QED BY <3>2
  <2>2. body \in [[NodeIds -> V] -> [NodeIds -> V]]
    BY <1>3
  <2> HIDE DEF body, V
  <2> QED BY <1>1, <2>1, <2>2 DEF IsRecursion
<1>5. <<>> \in V
  OBVIOUS
<1> HIDE DEF V, body
<1>6. PICK f : IsDefinedBy(f, body, NodeIds, V)
  BY <1>1, <1>4, <1>5, RecursionHasFunction
<1>7. f = LeavesBody(f)
  BY <1>6 DEF IsDefinedBy, body
<1> QED BY <1>7, Zenon DEF LeavesOf

LEMMA LevelsOfIs ==
  ASSUME TypeInv
  PROVE  LevelsOf = LevelsBody(LevelsOf)
<1> DEFINE P == 0 .. MaxNodes
           V == SUBSET NodeIds
           rank == [n \in P |-> n]
           body == [f \in [P -> V] |-> LevelsBody(f)]
<1>1. MaxNodes \in Nat /\ root_id \in NodeIds
  BY BPTreeAssumption, Sizes
<1>2. \A p \in NodeIds : ~nodes[p].is_leaf =>
        \A i \in 0 .. nodes[p].n_keys : nodes[p].ptrs[i] \in NodeIds
  BY NodeChildren DEF ChildrenAreNodes, Children
<1>3. \A f \in [P -> V] : LevelsBody(f) \in [P -> V]
  <2> SUFFICES ASSUME NEW f \in [P -> V], NEW n \in P
               PROVE  (IF n = 0 THEN {root_id}
                       ELSE UNION {{nodes[p].ptrs[i] : i \in 0 .. nodes[p].n_keys} :
                                     p \in {q \in f[n - 1] : ~nodes[q].is_leaf}}) \in V
    BY DEF LevelsBody
  <2>1. n # 0 => f[n - 1] \in SUBSET NodeIds
    BY <1>1
  <2> QED BY <1>1, <1>2, <2>1
<1>4. IsRecursion(body, P, V, MaxNodes, rank)
  <2>1. ASSUME NEW n \in P, NEW f \in [P -> V], NEW g \in [P -> V],
               \A m \in P : rank[m] < rank[n] => f[m] = g[m]
        PROVE  body[f][n] = body[g][n]
    <3>1. n # 0 => f[n - 1] = g[n - 1]
      BY <1>1, <2>1
    <3>2. LevelsBody(f)[n] = LevelsBody(g)[n]
      BY <3>1, Zenon DEF LevelsBody
    <3> QED BY <3>2
  <2>2. rank \in [P -> 0 .. MaxNodes] /\ body \in [[P -> V] -> [P -> V]]
    BY <1>3
  <2> HIDE DEF rank, body, P, V
  <2> QED BY <2>1, <2>2 DEF IsRecursion
<1>5. {} \in V
  OBVIOUS
<1> HIDE DEF P, V, rank, body
<1>6. PICK f : IsDefinedBy(f, body, P, V)
  BY <1>1, <1>4, <1>5, RecursionHasFunction
<1>7. f = LevelsBody(f)
  BY <1>6 DEF IsDefinedBy, body
<1> QED BY <1>7, Zenon DEF LevelsOf

\* A sequence of leaves, each linked to the next.
IsRun(N, leaves, seq, a, b) ==
  /\ seq \in Seq(leaves) /\ Len(seq) >= 1
  /\ seq[1] = a /\ seq[Len(seq)] = b
  /\ \A i \in 1 .. Len(seq) - 1 : Link(N, seq[i]) = seq[i + 1]

LEMMA RunsJoin ==
  ASSUME NEW N, NEW leaves, NEW s, NEW t, NEW a, NEW b, NEW c, NEW d,
         IsRun(N, leaves, s, a, b), IsRun(N, leaves, t, c, d), Link(N, b) = c
  PROVE  IsRun(N, leaves, s \o t, a, d)
<1>1. /\ s \in Seq(leaves) /\ t \in Seq(leaves) /\ Len(s) >= 1 /\ Len(t) >= 1
      /\ s[1] = a /\ s[Len(s)] = b /\ t[1] = c /\ t[Len(t)] = d
      /\ \A i \in 1 .. Len(s) - 1 : Link(N, s[i]) = s[i + 1]
      /\ \A i \in 1 .. Len(t) - 1 : Link(N, t[i]) = t[i + 1]
  BY DEF IsRun
<1> DEFINE u == s \o t
           k == Len(s)
           m == Len(t)
<1>2. /\ u \in Seq(leaves) /\ Len(u) = k + m /\ k \in Nat /\ m \in Nat
      /\ \A i \in 1 .. k : u[i] = s[i]
      /\ \A i \in k + 1 .. k + m : u[i] = t[i - k]
  BY <1>1
<1> HIDE DEF u
<1>3. u[1] = a
  BY <1>1, <1>2
<1>4. u[Len(u)] = d
  <2>1. k + m \in k + 1 .. k + m /\ (k + m) - k = m
    BY <1>1, <1>2
  <2> QED BY <1>1, <1>2, <2>1
<1>5. ASSUME NEW i \in 1 .. Len(u) - 1 PROVE Link(N, u[i]) = u[i + 1]
  <2>1. CASE i < k
    <3>1. i \in 1 .. k - 1 /\ i \in 1 .. k /\ i + 1 \in 1 .. k
      BY <1>2, <2>1
    <3> QED BY <1>1, <1>2, <3>1
  <2>2. CASE i = k
    <3>1. k \in 1 .. k /\ k + 1 \in k + 1 .. k + m /\ (k + 1) - k = 1
      BY <1>1, <1>2
    <3> QED BY <1>1, <1>2, <2>2, <3>1
  <2>3. CASE i > k
    <3>1. /\ i \in k + 1 .. k + m /\ i + 1 \in k + 1 .. k + m
          /\ i - k \in 1 .. m - 1 /\ (i + 1) - k = (i - k) + 1
      BY <1>2, <2>3
    <3>2. Link(N, t[i - k]) = t[(i - k) + 1]
      BY <1>1, <3>1
    <3> QED BY <1>2, <3>1, <3>2
  <2> QED BY <1>2, <2>1, <2>2, <2>3
<1>6. Len(u) >= 1
  BY <1>1, <1>2
<1>7. IsRun(N, leaves, u, a, d)
  BY <1>2, <1>3, <1>4, <1>5, <1>6 DEF IsRun
<1> QED BY <1>7 DEF u

\* The leaves below a page in the tree, linked from its first to its last.
LEMMA LeavesRun ==
  ASSUME TypeInv, NEW live, NEW height, Lowers(nodes, height), Hangs(nodes, live),
         NEW level, NEW first, NEW last, IsChained(nodes, live, level, first, last)
  PROVE  \A p \in live : IsRun(nodes, LeavesIn(nodes, live), LeavesOf[p], first[p], last[p])
<1> DEFINE leaves == LeavesIn(nodes, live)
           good == {p \in NodeIds : IsRun(nodes, leaves, LeavesOf[p], first[p], last[p])}
<1>1. live \in SUBSET NodeIds /\ \A p \in live : Joins(nodes, p, level, first, last)
  BY DEF Hangs, IsChained
<1>2. ASSUME NEW p \in live, \A i \in ChildIndices(nodes[p]) : nodes[p].ptrs[i] \in good
      PROVE  p \in good
  <2>1. p \in NodeIds
    BY <1>1
  <2>2. LeavesOf[p] = IF nodes[p].is_leaf THEN <<p>>
                      ELSE Joined([i \in 0 .. nodes[p].n_keys |-> LeavesOf[nodes[p].ptrs[i]]], nodes[p].n_keys)
    <3>1. LeavesOf = LeavesBody(LeavesOf)
      BY LeavesOfIs
    <3>2. LeavesBody(LeavesOf)[p] =
            IF nodes[p].is_leaf THEN <<p>>
            ELSE Joined([i \in 0 .. nodes[p].n_keys |-> LeavesOf[nodes[p].ptrs[i]]], nodes[p].n_keys)
      BY <2>1, Zenon DEF LeavesBody
    <3> QED BY <3>1, <3>2, Zenon
  <2>3. CASE nodes[p].is_leaf
    <3>1. LeavesOf[p] = <<p>> /\ first[p] = p /\ last[p] = p /\ p \in leaves
      BY <1>1, <2>2, <2>3 DEF Joins, LeavesIn
    <3> HIDE DEF leaves
    <3>2. IsRun(nodes, leaves, <<p>>, p, p)
      BY <3>1 DEF IsRun
    <3> QED BY <2>1, <3>1, <3>2
  <2>4. CASE ~nodes[p].is_leaf
    <3> DEFINE n == nodes[p].n_keys
               kids == nodes[p].ptrs
               parts == [i \in 0 .. n |-> LeavesOf[kids[i]]]
               up == UpTo(parts, n)
               done == {i \in 0 .. n : IsRun(nodes, leaves, up[i], first[kids[0]], last[kids[i]])}
    <3>1. n \in Nat
      BY <2>1, NodeFields DEF TypeInv, NodesInv
    <3>2. /\ first[p] = first[kids[0]] /\ last[p] = last[kids[n]]
          /\ \A i \in 1 .. n : Link(nodes, last[kids[i - 1]]) = first[kids[i]]
      BY <1>1, <2>4 DEF Joins
    <3>3. LeavesOf[p] = Joined(parts, n)
      BY <2>2, <2>4
    <3>4. \A i \in 0 .. n : IsRun(nodes, leaves, LeavesOf[kids[i]], first[kids[i]], last[kids[i]])
      BY <1>2, <2>4 DEF ChildIndices
    <3> HIDE DEF n, kids, good, leaves
    <3>5. \A i \in 0 .. n : parts[i] = LeavesOf[kids[i]]
      OBVIOUS
    <3>6. parts \in [0 .. n -> Seq(leaves)]
      BY <3>4 DEF IsRun
    <3> HIDE DEF parts
    <3>7. IsUpTo(up, parts, n, leaves) /\ Joined(parts, n) = up[n]
      BY <3>1, <3>6, JoinedIs
    <3> HIDE DEF up
    <3>8. up[0] = parts[0] /\ \A i \in 1 .. n : up[i] = up[i - 1] \o parts[i]
      BY <3>7 DEF IsUpTo
    <3>9. 0 \in done
      BY <3>1, <3>4, <3>5, <3>8
    <3>10. ASSUME NEW i \in 0 .. n - 1, i \in done PROVE i + 1 \in done
      <4>1. i + 1 \in 1 .. n /\ i + 1 \in 0 .. n /\ (i + 1) - 1 = i
        BY <3>1
      <4>2. up[i + 1] = up[i] \o LeavesOf[kids[i + 1]]
        BY <3>5, <3>8, <4>1
      <4>3. Link(nodes, last[kids[i]]) = first[kids[i + 1]]
        BY <3>2, <4>1
      <4>4. IsRun(nodes, leaves, up[i] \o LeavesOf[kids[i + 1]], first[kids[0]], last[kids[i + 1]])
        BY <3>4, <3>10, <4>1, <4>3, RunsJoin
      <4> QED BY <4>1, <4>2, <4>4
    <3> HIDE DEF done
    <3>11. \A i \in 0 .. n : i \in done
      BY <3>1, <3>9, <3>10, SetInduction
    <3>12. IsRun(nodes, leaves, up[n], first[kids[0]], last[kids[n]])
      BY <3>1, <3>11 DEF done
    <3> QED BY <2>1, <3>2, <3>3, <3>7, <3>12 DEF good
  <2> QED BY <2>3, <2>4
<1> HIDE DEF good
<1>3. live \subseteq good
  BY <1>2, TreeInduction
<1> QED BY <1>3 DEF good

\* Level by level, the pages of the tree.
LEMMA LevelsAre ==
  ASSUME TypeInv, NEW live, Hangs(nodes, live),
         NEW level, NEW first, NEW last, IsChained(nodes, live, level, first, last)
  PROVE  \A n \in 0 .. MaxNodes : \A p \in LevelsOf[n] : p \in live /\ level[p] + n = level[root_id]
<1> DEFINE good == {n \in 0 .. MaxNodes : \A p \in LevelsOf[n] : p \in live /\ level[p] + n = level[root_id]}
<1>1. MaxNodes \in Nat
  BY BPTreeAssumption
<1>2. /\ live \in SUBSET NodeIds /\ root_id \in live
      /\ \A p \in live : \A i \in ChildIndices(nodes[p]) : nodes[p].ptrs[i] \in live
      /\ level \in [NodeIds -> Nat] /\ \A p \in live : Joins(nodes, p, level, first, last)
  BY DEF Hangs, IsChained, Labels
<1>3. \A n \in 0 .. MaxNodes :
        LevelsOf[n] = IF n = 0 THEN {root_id}
                      ELSE UNION {{nodes[p].ptrs[i] : i \in 0 .. nodes[p].n_keys} :
                                    p \in {q \in LevelsOf[n - 1] : ~nodes[q].is_leaf}}
  <2>1. LevelsOf = LevelsBody(LevelsOf)
    BY LevelsOfIs
  <2>2. \A n \in 0 .. MaxNodes :
          LevelsBody(LevelsOf)[n] =
            IF n = 0 THEN {root_id}
            ELSE UNION {{nodes[p].ptrs[i] : i \in 0 .. nodes[p].n_keys} :
                          p \in {q \in LevelsOf[n - 1] : ~nodes[q].is_leaf}}
    BY DEF LevelsBody
  <2> QED BY <2>1, <2>2, Zenon
<1>4. 0 \in good
  <2>1. 0 \in 0 .. MaxNodes
    BY <1>1
  <2>2. LevelsOf[0] = {root_id}
    <3>1. LevelsOf[0] = IF 0 = 0 THEN {root_id}
                        ELSE UNION {{nodes[p].ptrs[i] : i \in 0 .. nodes[p].n_keys} :
                                      p \in {q \in LevelsOf[0 - 1] : ~nodes[q].is_leaf}}
      BY ONLY <1>3, <2>1, Zenon
    <3> QED BY ONLY <3>1, Zenon
  <2> QED BY <1>1, <1>2, <2>2
<1>5. ASSUME NEW n \in 0 .. MaxNodes - 1, n \in good PROVE n + 1 \in good
  <2>1. n + 1 \in 0 .. MaxNodes /\ n + 1 # 0 /\ (n + 1) - 1 = n
    BY <1>1
  <2>2. ASSUME NEW p \in LevelsOf[n + 1] PROVE p \in live /\ level[p] + (n + 1) = level[root_id]
    <3>1. PICK q \in LevelsOf[n] : ~nodes[q].is_leaf /\ p \in {nodes[q].ptrs[i] : i \in 0 .. nodes[q].n_keys}
      <4>1. LevelsOf[n + 1] = UNION {{nodes[r].ptrs[i] : i \in 0 .. nodes[r].n_keys} :
                                       r \in {q \in LevelsOf[(n + 1) - 1] : ~nodes[q].is_leaf}}
        BY ONLY <1>3, <2>1, Zenon
      <4>2. p \in UNION {{nodes[r].ptrs[i] : i \in 0 .. nodes[r].n_keys} :
                            r \in {q \in LevelsOf[n] : ~nodes[q].is_leaf}}
        BY ONLY <2>1, <2>2, <4>1, Zenon
      <4> QED BY ONLY <4>2, Zenon
    <3>2. PICK i \in 0 .. nodes[q].n_keys : p = nodes[q].ptrs[i]
      BY <3>1
    <3>3. q \in live /\ level[q] + n = level[root_id]
      BY <1>5, <3>1
    <3>4. p \in live /\ level[q] = level[p] + 1
      BY <1>2, <3>1, <3>2, <3>3 DEF Joins, ChildIndices
    <3>5. level[p] \in Nat /\ level[q] \in Nat /\ level[root_id] \in Nat
      BY <1>2, <3>3, <3>4
    <3> QED BY <3>3, <3>4, <3>5
  <2> QED BY <2>1, <2>2
<1> HIDE DEF good
<1>6. \A n \in 0 .. MaxNodes : n \in good
  BY <1>1, <1>4, <1>5, SetInduction
<1> QED BY <1>6 DEF good

LEMMA TreeIsChained ==
  ASSUME TypeInv, TreeInv, ChainInv
  PROVE  LeavesInChain
<1>1. PICK live, height, allowed : IsTree(nodes, live, height, allowed)
  BY Zenon DEF TreeInv
<1>2. Lowers(nodes, height) /\ Hangs(nodes, live) /\ Chained(nodes, live)
  BY <1>1, ChainNow DEF IsTree
<1>3. PICK level, first, last : IsChained(nodes, live, level, first, last)
  BY <1>2, Zenon DEF Chained
<1>4. /\ live \in SUBSET NodeIds /\ root_id \in live
      /\ \A p \in live : \A i \in ChildIndices(nodes[p]) : nodes[p].ptrs[i] \in live
      /\ level \in [NodeIds -> Nat] /\ \A p \in live : Joins(nodes, p, level, first, last)
      /\ Link(nodes, last[root_id]) = NULL_PAGE
  BY <1>2, <1>3 DEF Hangs, IsChained, Labels
<1>5. \A p \in live : nodes[p].is_leaf <=> level[p] = 0
  <2> SUFFICES ASSUME NEW p \in live PROVE nodes[p].is_leaf <=> level[p] = 0
    OBVIOUS
  <2>1. nodes[p].is_leaf => level[p] = 0
    BY <1>4 DEF Joins
  <2>2. ASSUME ~nodes[p].is_leaf PROVE level[p] # 0
    <3>1. nodes[p].n_keys \in Nat
      BY <1>4, NodeFields DEF TypeInv, NodesInv
    <3>2. 0 \in 0 .. nodes[p].n_keys
      BY <3>1
    <3>3. nodes[p].ptrs[0] \in live /\ level[p] = level[nodes[p].ptrs[0]] + 1
      BY <1>4, <2>2, <3>2 DEF Joins, ChildIndices
    <3>4. level[nodes[p].ptrs[0]] \in Nat
      BY <1>4, <3>3
    <3> QED BY <3>3, <3>4
  <2> QED BY <2>1, <2>2
<1>6. ASSUME NEW n \in 0 .. MaxNodes, NEW p \in LevelsOf[n], NEW q \in LevelsOf[n]
      PROVE  nodes[p].is_leaf <=> nodes[q].is_leaf
  <2>1. /\ p \in live /\ level[p] + n = level[root_id]
        /\ q \in live /\ level[q] + n = level[root_id]
    BY <1>2, <1>3, LevelsAre
  <2>2. level[p] \in Nat /\ level[q] \in Nat
    BY <1>4, <2>1
  <2>3. level[p] = level[q]
    BY <2>1, <2>2
  <2> QED BY <1>5, <2>1, <2>3
<1> DEFINE order == LeavesOf[root_id]
<1>7. IsRun(nodes, LeavesIn(nodes, live), order, first[root_id], last[root_id])
  BY <1>2, <1>3, <1>4, LeavesRun
<1> HIDE DEF order
<1>8. ASSUME NEW i \in DOMAIN order
      PROVE  nodes[order[i]].ptrs[nodes[order[i]].n_keys] =
               IF i < Len(order) THEN order[i + 1] ELSE NULL_PAGE
  <2>1. /\ order \in Seq(LeavesIn(nodes, live)) /\ order[Len(order)] = last[root_id]
        /\ \A j \in 1 .. Len(order) - 1 : Link(nodes, order[j]) = order[j + 1]
    BY <1>7 DEF IsRun
  <2>2. i \in 1 .. Len(order) /\ Len(order) \in Nat
    BY <2>1
  <2>3. CASE i < Len(order)
    <3>1. i \in 1 .. Len(order) - 1
      BY <2>2, <2>3
    <3> QED BY <2>1, <2>3, <3>1 DEF Link
  <2>4. CASE ~(i < Len(order))
    <3>1. i = Len(order)
      BY <2>2, <2>4
    <3>2. Link(nodes, order[i]) = NULL_PAGE
      BY <1>4, <2>1, <3>1
    <3> QED BY <2>4, <3>2 DEF Link
  <2> QED BY <2>3, <2>4
<1> QED BY <1>6, <1>8, ChainMeans, Zenon DEF order

\* As long as no removal meets a key past the others, the labels of the tree and of its chain
\* of leaves exist whatever is inserted, removed or cut short.
THEOREM RegularTreeChained == RegularSpec => [](TypeInv /\ TreeInv /\ IndexInv /\ ChainInv)
<1>1. Init => TypeInv /\ TreeInv /\ IndexInv /\ ChainInv
  BY InitTyped, InitTree, InitIndex, InitChain
<1>2. TypeInv /\ TreeInv /\ [RegularNext]_vars => TypeInv' /\ TreeInv'
  BY StepTyped, StepTree, RegularSteps
<1>3. TypeInv /\ TypeInv' /\ TreeInv /\ IndexInv /\ [RegularNext]_vars => IndexInv'
  BY RefsStep, RemovalStep DEF IndexInv
<1>4. TypeInv /\ TypeInv' /\ TreeInv /\ IndexInv /\ ChainInv /\ [RegularNext]_vars => ChainInv'
  BY ChainStep DEF IndexInv
<1> QED BY <1>1, <1>2, <1>3, <1>4, PTL DEF RegularSpec

\* As long as no removal meets a key that a split or an earlier removal left past the others,
\* all leaves are at one depth and linked from the first to the last: a split of a leaf
\* (split.cpp) puts the new page into the chain after the old one, an insertion and a removal
\* move the link of their leaf with its entries, and a new root copies a leaf that is alone.
THEOREM TreeLeavesInChain == RegularSpec => []LeavesInChain
<1>1. TypeInv /\ TreeInv /\ ChainInv => LeavesInChain
  BY TreeIsChained
<1> QED BY <1>1, RegularTreeChained, PTL
-----------------------------------------------------------------------------
(* The places of the leaves in their chain.                                *)

\* A run that has no link at its end has every leaf once.
LEMMA RunIsDistinct ==
  ASSUME NEW N, NEW leaves, NULL_PAGE \notin leaves, NEW seq, NEW a, NEW b,
         IsRun(N, leaves, seq, a, b), Link(N, b) = NULL_PAGE
  PROVE  \A i, j \in 1 .. Len(seq) : seq[i] = seq[j] => i = j
<1> DEFINE m == Len(seq)
           good == {k \in 0 .. m - 1 : \A j \in 1 .. m : m - k < j => seq[m - k] # seq[j]}
<1>1. /\ seq \in Seq(leaves) /\ m >= 1 /\ seq[m] = b
      /\ \A i \in 1 .. m - 1 : Link(N, seq[i]) = seq[i + 1]
  BY DEF IsRun
<1>2. m \in Nat /\ \A i \in 1 .. m : seq[i] # NULL_PAGE
  BY <1>1
<1> HIDE DEF m
<1>3. 0 \in good
  BY <1>1, <1>2
<1>4. ASSUME NEW k \in 0 .. (m - 1) - 1, k \in good PROVE k + 1 \in good
  <2>1. k \in Nat /\ k + 1 \in 0 .. m - 1
    BY <1>2
  <2> DEFINE i == m - (k + 1)
  <2>2. i \in 1 .. m - 1 /\ i + 1 = m - k
    BY <1>2, <2>1
  <2> HIDE DEF i
  <2>3. ASSUME NEW j \in 1 .. m, i < j, seq[i] = seq[j] PROVE FALSE
    <3>1. Link(N, seq[i]) = seq[i + 1] /\ i + 1 \in 1 .. m
      BY <1>1, <1>2, <2>2
    <3>2. CASE j = m
      BY <1>1, <1>2, <2>3, <3>1, <3>2
    <3>3. CASE j # m
      <4>1. j \in 1 .. m - 1 /\ j + 1 \in 1 .. m /\ m - k < j + 1
        BY <1>2, <2>2, <2>3, <3>3
      <4>2. seq[i + 1] = seq[j + 1]
        BY <1>1, <2>3, <3>1, <4>1
      <4> QED BY <1>4, <2>2, <4>1, <4>2
    <3> QED BY <3>2, <3>3
  <2>4. \A j \in 1 .. m : m - (k + 1) < j => seq[m - (k + 1)] # seq[j]
    BY <2>3 DEF i
  <2> QED BY <2>1, <2>4
<1> HIDE DEF good
<1>5. m - 1 \in Nat
  BY <1>1, <1>2
<1>6. \A k \in 0 .. m - 1 : k \in good
  BY <1>3, <1>4, <1>5, SetInduction
<1>7. ASSUME NEW i \in 1 .. m, NEW j \in 1 .. m, i < j PROVE seq[i] # seq[j]
  <2>1. m - i \in 0 .. m - 1 /\ m - (m - i) = i
    BY <1>2, <1>7
  <2>2. m - i \in good
    BY <1>6, <2>1
  <2>3. \A l \in 1 .. m : m - (m - i) < l => seq[m - (m - i)] # seq[l]
    BY <2>2 DEF good
  <2> QED BY <1>7, <2>1, <2>3
<1>8. ASSUME NEW i \in 1 .. m, NEW j \in 1 .. m, seq[i] = seq[j] PROVE i = j
  <2>1. ~(i < j) /\ ~(j < i)
    BY <1>7, <1>8
  <2> QED BY <1>2, <2>1
<1> QED BY <1>8 DEF m

\* A run that begins on another one follows it.
LEMMA RunFollows ==
  ASSUME NEW N, NEW leaves, NULL_PAGE \notin leaves, NEW order, NEW a, NEW b,
         IsRun(N, leaves, order, a, b), Link(N, b) = NULL_PAGE,
         NEW seq, NEW c, NEW d, IsRun(N, leaves, seq, c, d),
         NEW k \in 1 .. Len(order), order[k] = c
  PROVE  \E l \in k .. Len(order) : order[l] = d
<1> DEFINE m == Len(order)
           n == Len(seq)
           good == {i \in 0 .. n - 1 : k + i <= m /\ order[k + i] = seq[i + 1]}
<1>1. /\ order \in Seq(leaves) /\ order[m] = b /\ m \in Nat /\ k \in 1 .. m
      /\ \A i \in 1 .. m - 1 : Link(N, order[i]) = order[i + 1]
  BY DEF IsRun
<1>2. /\ seq \in Seq(leaves) /\ n \in Nat /\ n >= 1 /\ seq[1] = c /\ seq[n] = d
      /\ \A i \in 1 .. n - 1 : Link(N, seq[i]) = seq[i + 1]
      /\ \A i \in 1 .. n : seq[i] # NULL_PAGE
  BY DEF IsRun
<1> HIDE DEF m, n
<1>3. 0 \in good
  BY <1>1, <1>2
<1>4. ASSUME NEW i \in 0 .. (n - 1) - 1, i \in good PROVE i + 1 \in good
  <2>1. i \in Nat /\ i + 1 \in 0 .. n - 1 /\ i + 1 \in 1 .. n - 1 /\ (i + 1) + 1 \in 1 .. n
    BY <1>2
  <2>2. k + i <= m /\ order[k + i] = seq[i + 1]
    BY <1>4
  <2>3. Link(N, seq[i + 1]) = seq[(i + 1) + 1] /\ seq[(i + 1) + 1] # NULL_PAGE
    BY <1>2, <2>1
  <2>4. k + i # m
    BY <1>1, <2>2, <2>3
  <2>5. k + i \in 1 .. m - 1 /\ (k + i) + 1 = k + (i + 1) /\ k + (i + 1) <= m
    BY <1>1, <2>1, <2>2, <2>4
  <2>6. order[k + (i + 1)] = seq[(i + 1) + 1]
    BY <1>1, <2>2, <2>3, <2>5
  <2> QED BY <2>1, <2>5, <2>6
<1> HIDE DEF good
<1>5. n - 1 \in Nat
  BY <1>2
<1>6. n - 1 \in good
  <2>1. \A i \in 0 .. n - 1 : i \in good
    BY <1>3, <1>4, <1>5, SetInduction
  <2> QED BY <1>5, <2>1
<1>7. k + (n - 1) <= m /\ order[k + (n - 1)] = seq[(n - 1) + 1]
  BY <1>6 DEF good
<1>8. (n - 1) + 1 = n /\ k + (n - 1) \in k .. m
  BY <1>1, <1>2, <1>7
<1> QED BY <1>2, <1>7, <1>8 DEF m

\* The leaves have places from 1 to m, in the order of their links, and those of the first
\* and the last below a page are in order.
IsPlaced(N, live, first, last, m, pos) ==
  /\ m \in Nat /\ pos \in [NodeIds -> Nat]
  /\ \A q \in LeavesIn(N, live) : pos[q] \in 1 .. m
  /\ \A q, r \in LeavesIn(N, live) : pos[q] = pos[r] => q = r
  /\ \A q \in LeavesIn(N, live) :
       IF pos[q] = m THEN Link(N, q) = NULL_PAGE
       ELSE Link(N, q) \in LeavesIn(N, live) /\ pos[Link(N, q)] = pos[q] + 1
  /\ \A p \in live : pos[first[p]] <= pos[last[p]]
  /\ pos[first[root_id]] = 1 /\ pos[last[root_id]] = m

LEMMA LeavesPlaced ==
  ASSUME TypeInv, NEW live, NEW height, NEW allowed, IsTree(nodes, live, height, allowed),
         NEW level, NEW first, NEW last, IsChained(nodes, live, level, first, last)
  PROVE  \E m, pos : IsPlaced(nodes, live, first, last, m, pos)
<1> DEFINE leaves == LeavesIn(nodes, live)
           order == LeavesOf[root_id]
           m == Len(order)
           onway == {p \in live : \E k \in 1 .. m : order[k] = first[p]}
           pos == [q \in NodeIds |->
                     IF \E k \in 1 .. m : order[k] = q THEN CHOOSE k \in 1 .. m : order[k] = q ELSE 0]
<1>1. /\ Lowers(nodes, height) /\ Hangs(nodes, live) /\ live = Live
      /\ live \in SUBSET NodeIds /\ root_id \in live /\ leaves \in SUBSET NodeIds
  BY LiveIs DEF IsTree, Hangs, LeavesIn, TreeIsLive
<1>2. /\ \A p \in live : Joins(nodes, p, level, first, last)
      /\ \A p \in live : first[p] \in leaves /\ last[p] \in leaves
      /\ Link(nodes, last[root_id]) = NULL_PAGE
  BY DEF IsChained, Labels
<1>3. \A p \in live : IsRun(nodes, leaves, LeavesOf[p], first[p], last[p])
  BY <1>1, LeavesRun
<1>4. NULL_PAGE \notin leaves
  BY <1>1, Sizes DEF NULL_PAGE
<1>5. IsRun(nodes, leaves, order, first[root_id], last[root_id])
  BY <1>1, <1>3
<1> HIDE DEF leaves, order
<1>6. /\ order \in Seq(leaves) /\ m \in Nat /\ m >= 1
      /\ order[1] = first[root_id] /\ order[m] = last[root_id]
      /\ \A i \in 1 .. m - 1 : Link(nodes, order[i]) = order[i + 1]
  BY <1>5 DEF IsRun
<1>7. \A i, j \in 1 .. m : order[i] = order[j] => i = j
  BY <1>2, <1>4, <1>5, RunIsDistinct
<1>8. ASSUME NEW p \in live, NEW k \in 1 .. m, order[k] = first[p]
      PROVE  \E l \in k .. m : order[l] = last[p]
  BY <1>2, <1>3, <1>4, <1>5, <1>8, RunFollows
<1> HIDE DEF m
<1>9. live \subseteq onway
  <2>1. root_id \in onway /\ onway \in SUBSET NodeIds
    BY <1>1, <1>6
  <2>2. ASSUME NEW p \in onway, NEW c \in Children(p) PROVE c \in onway
    <3> DEFINE kids == nodes[p].ptrs
               n == nodes[p].n_keys
               good == {i \in 0 .. n : \E k \in 1 .. m : order[k] = first[kids[i]]}
    <3>1. PICK i \in ChildIndices(nodes[p]) : c = kids[i]
      BY <2>2 DEF Children
    <3>2. ~nodes[p].is_leaf /\ i \in 0 .. n /\ ChildIndices(nodes[p]) = 0 .. n /\ p \in live
      BY <3>1 DEF ChildIndices
    <3>3. n \in Nat
      BY <1>1, <3>2, NodeFields DEF TypeInv, NodesInv
    <3>4. \A j \in 0 .. n : kids[j] \in live
      BY <1>1, <3>2 DEF Hangs
    <3>5. first[p] = first[kids[0]] /\ \A j \in 1 .. n : Link(nodes, last[kids[j - 1]]) = first[kids[j]]
      BY <1>2, <3>2 DEF Joins
    <3> HIDE DEF kids, n
    <3>6. 0 \in good
      BY <2>2, <3>3, <3>5
    <3>7. ASSUME NEW j \in 0 .. n - 1, j \in good PROVE j + 1 \in good
      <4>1. j \in 0 .. n /\ j + 1 \in 1 .. n /\ j + 1 \in 0 .. n /\ (j + 1) - 1 = j
        BY <3>3
      <4>2. PICK k \in 1 .. m : order[k] = first[kids[j]]
        BY <3>7
      <4>3. PICK l \in k .. m : order[l] = last[kids[j]]
        BY <1>8, <3>4, <4>1, <4>2
      <4>4. Link(nodes, last[kids[j]]) = first[kids[j + 1]]
        BY <3>5, <4>1
      <4>5. first[kids[j + 1]] \in leaves
        BY <1>2, <3>4, <4>1
      <4>6. l # m
        BY <1>2, <1>4, <1>6, <4>3, <4>4, <4>5
      <4>7. l \in 1 .. m - 1 /\ l + 1 \in 1 .. m
        BY <1>6, <4>2, <4>3, <4>6
      <4>8. order[l + 1] = first[kids[j + 1]]
        BY <1>6, <4>3, <4>4, <4>7
      <4> QED BY <4>1, <4>7, <4>8
    <3> HIDE DEF good
    <3>8. \A j \in 0 .. n : j \in good
      BY <3>3, <3>6, <3>7, SetInduction
    <3>9. \E k \in 1 .. m : order[k] = first[kids[i]]
      BY <3>2, <3>8 DEF good
    <3> QED BY <3>1, <3>2, <3>4, <3>9
  <2> HIDE DEF onway
  <2>3. \A p \in onway : Down[p] = Children(p)
    BY <2>1 DEF Down
  <2>4. ClosedUnder(Down, onway)
    BY <2>2, <2>3 DEF ClosedUnder
  <2>5. Live \subseteq onway
    BY <2>1, <2>4 DEF Live, Under, Reach
  <2> QED BY <1>1, <2>5
<1>10. \A q \in leaves : q \in live /\ nodes[q].is_leaf /\ q \in NodeIds
  BY <1>1 DEF leaves, LeavesIn
<1>11. \A q \in leaves : \E k \in 1 .. m : order[k] = q
  <2>1. \A q \in leaves : first[q] = q
    BY <1>2, <1>10 DEF Joins
  <2> QED BY <1>9, <1>10, <2>1
<1>12. ASSUME NEW k \in 1 .. m PROVE order[k] \in leaves /\ order[k] \in NodeIds /\ pos[order[k]] = k
  <2>1. order[k] \in leaves
    BY <1>6 DEF m
  <2>2. order[k] \in NodeIds
    BY <1>10, <2>1
  <2>3. pos[order[k]] = CHOOSE j \in 1 .. m : order[j] = order[k]
    BY <2>2
  <2> HIDE DEF pos
  <2> QED BY <1>7, <2>1, <2>2, <2>3
<1>13. pos \in [NodeIds -> Nat]
  <2>1. ASSUME NEW q \in NodeIds
        PROVE  (IF \E k \in 1 .. m : order[k] = q THEN CHOOSE k \in 1 .. m : order[k] = q ELSE 0) \in Nat
    <3>1. CASE \E k \in 1 .. m : order[k] = q
      <4>1. (CHOOSE k \in 1 .. m : order[k] = q) \in 1 .. m
        BY <3>1, Zenon
      <4> QED BY <1>6, <3>1, <4>1
    <3>2. CASE ~\E k \in 1 .. m : order[k] = q
      BY <3>2
    <3> QED BY <3>1, <3>2
  <2> QED BY <2>1
<1> HIDE DEF pos
<1>14. \A q \in leaves : pos[q] \in 1 .. m /\ order[pos[q]] = q
  BY <1>11, <1>12
<1>15. ASSUME NEW q \in leaves
       PROVE  IF pos[q] = m THEN Link(nodes, q) = NULL_PAGE
              ELSE Link(nodes, q) \in leaves /\ pos[Link(nodes, q)] = pos[q] + 1
  <2>1. pos[q] \in 1 .. m /\ order[pos[q]] = q
    BY <1>14
  <2>2. CASE pos[q] = m
    BY <1>2, <1>6, <2>1, <2>2
  <2>3. CASE pos[q] # m
    <3>1. pos[q] \in 1 .. m - 1 /\ pos[q] + 1 \in 1 .. m
      BY <1>6, <2>1, <2>3
    <3>2. Link(nodes, q) = order[pos[q] + 1]
      BY <1>6, <2>1, <3>1
    <3> QED BY <1>12, <2>3, <3>1, <3>2
  <2> QED BY <2>2, <2>3
<1>16. ASSUME NEW p \in live PROVE pos[first[p]] <= pos[last[p]]
  <2>1. PICK k \in 1 .. m : order[k] = first[p]
    BY <1>9
  <2>2. PICK l \in k .. m : order[l] = last[p]
    BY <1>8, <2>1
  <2>3. l \in 1 .. m /\ k <= l
    BY <1>6, <2>1, <2>2
  <2> QED BY <1>12, <2>1, <2>2, <2>3
<1>17. pos[first[root_id]] = 1 /\ pos[last[root_id]] = m
  <2>1. 1 \in 1 .. m /\ m \in 1 .. m
    BY <1>6
  <2> QED BY <1>6, <1>12, <2>1
<1>18. IsPlaced(nodes, live, first, last, m, pos)
  <2>1. \A q, r \in leaves : pos[q] = pos[r] => q = r
    BY <1>14
  <2> QED BY <1>6, <1>13, <1>14, <1>15, <1>16, <1>17, <2>1 DEF IsPlaced, leaves
<1> QED BY <1>18, Zenon
-----------------------------------------------------------------------------
\* Ranges of numbers, each after the one before it.
Ranged(lo, hi, n) ==
  /\ lo \in [0 .. n -> Nat] /\ hi \in [0 .. n -> Nat]
  /\ \A i \in 0 .. n : lo[i] <= hi[i]
  /\ \A i \in 1 .. n : lo[i] = hi[i - 1] + 1

LEMMA RangesInOrder ==
  ASSUME NEW n \in Nat, NEW lo, NEW hi, Ranged(lo, hi, n)
  PROVE  /\ \A i, j \in 0 .. n : i < j => hi[i] < lo[j]
         /\ \A v \in lo[0] .. hi[n] : \E i \in 0 .. n : v \in lo[i] .. hi[i]
<1> DEFINE after == {j \in 0 .. n : \A i \in 0 .. n : i < j => hi[i] < lo[j]}
           full == {j \in 0 .. n : \A v \in lo[0] .. hi[j] : \E i \in 0 .. n : v \in lo[i] .. hi[i]}
<1>1. \A i \in 0 .. n : lo[i] \in Nat /\ hi[i] \in Nat /\ lo[i] <= hi[i]
  BY DEF Ranged
<1>2. \A j \in 0 .. n - 1 : j \in 0 .. n /\ j + 1 \in 0 .. n /\ lo[j + 1] = hi[j] + 1
  <2> SUFFICES ASSUME NEW j \in 0 .. n - 1
               PROVE  j \in 0 .. n /\ j + 1 \in 0 .. n /\ lo[j + 1] = hi[j] + 1
    OBVIOUS
  <2>1. j \in 0 .. n /\ j + 1 \in 0 .. n /\ j + 1 \in 1 .. n /\ (j + 1) - 1 = j
    OBVIOUS
  <2>2. lo[j + 1] = hi[(j + 1) - 1] + 1
    BY <2>1 DEF Ranged
  <2> QED BY <2>1, <2>2
<1>3. 0 \in after
  OBVIOUS
<1>4. ASSUME NEW j \in 0 .. n - 1, j \in after PROVE j + 1 \in after
  <2>1. ASSUME NEW i \in 0 .. n, i < j + 1 PROVE hi[i] < lo[j + 1]
    <3>1. i < j \/ i = j
      BY <2>1
    <3>2. i < j => hi[i] < lo[j]
      BY <1>4
    <3> QED BY <1>1, <1>2, <3>1, <3>2
  <2> QED BY <1>2, <2>1
<1>5. 0 \in full
  OBVIOUS
<1>6. ASSUME NEW j \in 0 .. n - 1, j \in full PROVE j + 1 \in full
  <2>1. ASSUME NEW v \in lo[0] .. hi[j + 1] PROVE \E i \in 0 .. n : v \in lo[i] .. hi[i]
    <3>1. v \in Int /\ (v \in lo[0] .. hi[j] \/ v \in lo[j + 1] .. hi[j + 1])
      <4>1. 0 \in 0 .. n
        OBVIOUS
      <4>2. lo[0] \in Nat /\ hi[j] \in Nat /\ hi[j + 1] \in Nat /\ lo[j + 1] = hi[j] + 1
        BY <1>1, <1>2, <4>1
      <4> QED BY <4>2
    <3> QED BY <1>2, <1>6, <3>1
  <2> QED BY <1>2, <2>1
<1> HIDE DEF after, full
<1>7. (\A j \in 0 .. n : j \in after)
  BY <1>3, <1>4, SetInduction
<1>8. (\A j \in 0 .. n : j \in full)
  BY <1>5, <1>6, SetInduction
<1>9. n \in full
  BY <1>8
<1> QED BY <1>7, <1>9 DEF after, full
-----------------------------------------------------------------------------
(* The leaves below each page, by their places.                            *)

Span(N, live, first, last, pos, p) ==
  {q \in LeavesIn(N, live) : pos[q] \in pos[first[p]] .. pos[last[p]]}

\* The leaves below an inner page are those below its children, child by child.
LEMMA SpansBelow ==
  ASSUME TypeInv, NEW live, NEW height, NEW allowed, IsTree(nodes, live, height, allowed),
         NEW level, NEW first, NEW last, IsChained(nodes, live, level, first, last),
         NEW m, NEW pos, IsPlaced(nodes, live, first, last, m, pos),
         NEW p \in live, ~nodes[p].is_leaf
  PROVE  /\ \A q \in Span(nodes, live, first, last, pos, p) :
              \E i \in 0 .. nodes[p].n_keys : q \in Span(nodes, live, first, last, pos, nodes[p].ptrs[i])
         /\ \A i, j \in 0 .. nodes[p].n_keys :
              \A q \in Span(nodes, live, first, last, pos, nodes[p].ptrs[i]),
                 r \in Span(nodes, live, first, last, pos, nodes[p].ptrs[j]) :
                i < j => pos[q] < pos[r]
         /\ \A i \in 0 .. nodes[p].n_keys :
              Span(nodes, live, first, last, pos, nodes[p].ptrs[i])
                \subseteq Span(nodes, live, first, last, pos, p)
<1> DEFINE n == nodes[p].n_keys
           kids == nodes[p].ptrs
           lo == [i \in 0 .. n |-> pos[first[kids[i]]]]
           hi == [i \in 0 .. n |-> pos[last[kids[i]]]]
           leaves == LeavesIn(nodes, live)
           span(c) == Span(nodes, live, first, last, pos, c)
<1>1. /\ live \in SUBSET NodeIds /\ n \in Nat /\ \A i \in 0 .. n : kids[i] \in live
      /\ \A c \in live : first[c] \in leaves /\ last[c] \in leaves
      /\ first[p] = first[kids[0]] /\ last[p] = last[kids[n]]
      /\ \A i \in 1 .. n : Link(nodes, last[kids[i - 1]]) = first[kids[i]]
  <2>1. live \in SUBSET NodeIds
    BY DEF IsTree, Hangs
  <2>2. n \in Nat
    BY <2>1, NodeFields DEF TypeInv, NodesInv
  <2>3. \A i \in 0 .. n : kids[i] \in live
    BY DEF IsTree, Hangs, ChildIndices
  <2>4. Joins(nodes, p, level, first, last)
    BY DEF IsChained
  <2> QED BY <2>1, <2>2, <2>3, <2>4 DEF IsChained, Labels, Joins
<1>2. /\ m \in Nat /\ \A q \in leaves : pos[q] \in 1 .. m
      /\ \A q \in leaves :
           IF pos[q] = m THEN Link(nodes, q) = NULL_PAGE
           ELSE Link(nodes, q) \in leaves /\ pos[Link(nodes, q)] = pos[q] + 1
      /\ \A c \in live : pos[first[c]] <= pos[last[c]]
  BY DEF IsPlaced
<1>3. NULL_PAGE \notin leaves
  BY <1>1, Sizes DEF LeavesIn, NULL_PAGE
<1>4. /\ first[p] = first[kids[0]] /\ last[p] = last[kids[n]]
      /\ \A c : span(c) = {q \in leaves : pos[q] \in pos[first[c]] .. pos[last[c]]}
  BY <1>1 DEF Span
<1> HIDE DEF n, kids, leaves, span
<1>5. Ranged(lo, hi, n)
  <2>1. \A i \in 0 .. n : pos[first[kids[i]]] \in Nat /\ pos[last[kids[i]]] \in Nat
    BY <1>1, <1>2
  <2>2. ASSUME NEW i \in 1 .. n PROVE pos[first[kids[i]]] = pos[last[kids[i - 1]]] + 1
    <3>1. i - 1 \in 0 .. n /\ i \in 0 .. n
      BY <1>1
    <3>2. last[kids[i - 1]] \in leaves /\ first[kids[i]] \in leaves
      BY <1>1, <3>1
    <3>3. Link(nodes, last[kids[i - 1]]) = first[kids[i]]
      BY <1>1
    <3> QED BY <1>2, <1>3, <3>2, <3>3
  <2>3. \A i \in 1 .. n : i - 1 \in 0 .. n /\ i \in 0 .. n
    BY <1>1
  <2>4. lo \in [0 .. n -> Nat] /\ hi \in [0 .. n -> Nat]
    BY <2>1
  <2>5. \A i \in 0 .. n : lo[i] <= hi[i]
    BY <1>1, <1>2
  <2>6. \A i \in 1 .. n : lo[i] = hi[i - 1] + 1
    BY <2>2, <2>3
  <2> HIDE DEF lo, hi
  <2> QED BY <2>4, <2>5, <2>6 DEF Ranged
<1>6. /\ \A i, j \in 0 .. n : i < j => hi[i] < lo[j]
      /\ \A v \in lo[0] .. hi[n] : \E i \in 0 .. n : v \in lo[i] .. hi[i]
  <2> HIDE DEF lo, hi
  <2> QED BY <1>1, <1>5, RangesInOrder
<1>7. /\ \A i \in 0 .. n : lo[i] = pos[first[kids[i]]] /\ hi[i] = pos[last[kids[i]]]
      /\ \A i \in 0 .. n : lo[i] \in Nat /\ hi[i] \in Nat /\ lo[i] <= hi[i]
      /\ 0 \in 0 .. n /\ n \in 0 .. n
  BY <1>1, <1>5 DEF Ranged
<1> HIDE DEF lo, hi
<1>8. \A i \in 0 .. n : span(kids[i]) = {q \in leaves : pos[q] \in lo[i] .. hi[i]}
  BY <1>4, <1>7
<1>9. span(p) = {q \in leaves : pos[q] \in lo[0] .. hi[n]}
  BY <1>4, <1>7
<1>10. \A q \in span(p) : \E i \in 0 .. n : q \in span(kids[i])
  BY <1>6, <1>8, <1>9
<1>11. ASSUME NEW i \in 0 .. n, NEW j \in 0 .. n, NEW q \in span(kids[i]), NEW r \in span(kids[j]), i < j
       PROVE  pos[q] < pos[r]
  <2>1. pos[q] \in lo[i] .. hi[i] /\ pos[r] \in lo[j] .. hi[j] /\ hi[i] < lo[j]
    BY <1>6, <1>8, <1>11
  <2> QED BY <1>7, <2>1
<1>12. ASSUME NEW i \in 0 .. n, NEW q \in span(kids[i]) PROVE q \in span(p)
  <2>1. pos[q] \in lo[i] .. hi[i] /\ q \in leaves
    BY <1>8
  <2>2. lo[0] <= lo[i] /\ hi[i] <= hi[n]
    <3>1. i = 0 \/ hi[0] < lo[i]
      BY <1>1, <1>6, <1>7
    <3>2. i = n \/ hi[i] < lo[n]
      BY <1>1, <1>6, <1>7
    <3> QED BY <1>7, <3>1, <3>2
  <2>3. pos[q] \in lo[0] .. hi[n]
    BY <1>7, <2>1, <2>2
  <2> QED BY <1>9, <2>1, <2>3
<1> QED BY <1>10, <1>11, <1>12 DEF n, kids, span

LEMMA SpanOfLeaf ==
  ASSUME NEW N, NEW live, NEW level, NEW first, NEW last, IsChained(N, live, level, first, last),
         NEW m, NEW pos, IsPlaced(N, live, first, last, m, pos),
         NEW p \in LeavesIn(N, live)
  PROVE  Span(N, live, first, last, pos, p) = {p}
<1>1. first[p] = p /\ last[p] = p /\ pos[p] \in Nat
  BY DEF IsChained, Joins, LeavesIn, IsPlaced
<1>2. \A q \in LeavesIn(N, live) : pos[q] \in pos[p] .. pos[p] => q = p
  BY <1>1 DEF IsPlaced
<1>3. pos[p] \in pos[p] .. pos[p]
  BY <1>1
<1> QED BY <1>1, <1>2, <1>3 DEF Span

LEMMA SpanOfRoot ==
  ASSUME NEW N, NEW live, NEW first, NEW last, NEW m, NEW pos,
         IsPlaced(N, live, first, last, m, pos)
  PROVE  Span(N, live, first, last, pos, root_id) = LeavesIn(N, live)
BY DEF IsPlaced, Span

\* The keys of the leaves below a page may be there.
LEMMA SpanAllowed ==
  ASSUME TypeInv, NEW live, NEW height, NEW allowed, IsTree(nodes, live, height, allowed),
         NEW level, NEW first, NEW last, IsChained(nodes, live, level, first, last),
         NEW m, NEW pos, IsPlaced(nodes, live, first, last, m, pos)
  PROVE  \A p \in live : \A q \in Span(nodes, live, first, last, pos, p) :
           KeysIn(nodes[q]) \subseteq allowed[p]
<1> DEFINE span(p) == Span(nodes, live, first, last, pos, p)
           good == {p \in live : \A q \in span(p) : KeysIn(nodes[q]) \subseteq allowed[p]}
<1>1. Lowers(nodes, height) /\ Hangs(nodes, live) /\ Parts(nodes, live, allowed)
  BY DEF IsTree
<1>2. ASSUME NEW p \in live, \A i \in ChildIndices(nodes[p]) : nodes[p].ptrs[i] \in good
      PROVE  p \in good
  <2>1. CASE nodes[p].is_leaf
    <3>1. p \in LeavesIn(nodes, live)
      BY <2>1 DEF LeavesIn
    <3>2. span(p) = {p}
      BY <3>1, SpanOfLeaf
    <3>3. KeysIn(nodes[p]) \subseteq allowed[p]
      BY <1>1 DEF Parts, KeysIn
    <3> HIDE DEF span
    <3> QED BY <3>2, <3>3
  <2>2. CASE ~nodes[p].is_leaf
    <3>1. \A q \in span(p) : \E i \in 0 .. nodes[p].n_keys : q \in span(nodes[p].ptrs[i])
      BY <2>2, SpansBelow
    <3>2. ChildIndices(nodes[p]) = 0 .. nodes[p].n_keys
      BY <2>2 DEF ChildIndices
    <3>3. \A i \in ChildIndices(nodes[p]) : allowed[nodes[p].ptrs[i]] \subseteq allowed[p]
      BY <1>1 DEF Parts
    <3> HIDE DEF span
    <3> QED BY <1>2, <3>1, <3>2, <3>3
  <2> QED BY <2>1, <2>2
<1> HIDE DEF good
<1>3. live \subseteq good
  BY <1>1, <1>2, TreeInduction
<1> QED BY <1>3 DEF good

\* No key of a leaf is above one of a leaf after it.
LEMMA LeavesInOrder ==
  ASSUME TypeInv, NEW live, NEW height, NEW allowed, IsTree(nodes, live, height, allowed),
         NEW level, NEW first, NEW last, IsChained(nodes, live, level, first, last),
         NEW m, NEW pos, IsPlaced(nodes, live, first, last, m, pos)
  PROVE  \A q, r \in LeavesIn(nodes, live) : pos[q] < pos[r] =>
           \A k \in KeysIn(nodes[q]), l \in KeysIn(nodes[r]) : k <= l
<1> DEFINE span(p) == Span(nodes, live, first, last, pos, p)
           good == {p \in live :
                      \A q, r \in span(p) : pos[q] < pos[r] =>
                        \A k \in KeysIn(nodes[q]), l \in KeysIn(nodes[r]) : k <= l}
<1>1. Lowers(nodes, height) /\ Hangs(nodes, live) /\ Parts(nodes, live, allowed)
  BY DEF IsTree
<1>2. ASSUME NEW p \in live, \A i \in ChildIndices(nodes[p]) : nodes[p].ptrs[i] \in good
      PROVE  p \in good
  <2>1. CASE nodes[p].is_leaf
    <3>1. p \in LeavesIn(nodes, live)
      BY <2>1 DEF LeavesIn
    <3>2. span(p) = {p} /\ pos[p] \in Nat
      BY <3>1, SpanOfLeaf DEF IsPlaced
    <3> HIDE DEF span
    <3> QED BY <3>2
  <2>2. CASE ~nodes[p].is_leaf
    <3> DEFINE n == nodes[p].n_keys
               kids == nodes[p].ptrs
               keys == nodes[p].keys
    <3>1. /\ \A q \in span(p) : \E i \in 0 .. n : q \in span(kids[i])
          /\ \A i, j \in 0 .. n : \A q \in span(kids[i]), r \in span(kids[j]) :
               i < j => pos[q] < pos[r]
      BY <2>2, SpansBelow
    <3>2. \A q \in span(p) : pos[q] \in Nat
      BY DEF IsPlaced, Span
    <3>3. ChildIndices(nodes[p]) = 0 .. n
      BY <2>2 DEF ChildIndices
    <3>4. n \in Nat /\ \A j \in 0 .. n - 1 : keys[j] \in Int
      BY <1>1, KeysAreNumbers DEF Hangs, TypeInv, NodesInv
    <3>5. \A i, j \in 0 .. n - 1 : i <= j => keys[i] <= keys[j]
      BY <1>1 DEF Parts, InOrder
    <3>6. \A i \in 0 .. n : kids[i] \in live
      BY <1>1, <3>3 DEF Hangs
    <3>7. \A i \in 0 .. n : \A q \in span(kids[i]) : KeysIn(nodes[q]) \subseteq allowed[kids[i]]
      BY <3>6, SpanAllowed
    <3>8. \A i \in 0 .. n : allowed[kids[i]] = {k \in allowed[p] : Between(nodes[p], i, k)}
      BY <1>1, <3>3 DEF Parts
    <3>9. \A i \in 0 .. n : \A k \in allowed[kids[i]] :
            k \in Int /\ (i > 0 => keys[i - 1] <= k) /\ (i < n => k <= keys[i])
      <4>1. p \in NodeIds
        BY <1>1 DEF Hangs
      <4>2. \A k \in allowed[p] : k \in Int
        BY <1>1, <4>1, Sizes DEF Parts
      <4> QED BY <3>8, <4>2 DEF Between
    <3> HIDE DEF span, n, kids, keys
    <3> SUFFICES ASSUME NEW q \in span(p), NEW r \in span(p), pos[q] < pos[r],
                        NEW k \in KeysIn(nodes[q]), NEW l \in KeysIn(nodes[r])
                 PROVE  k <= l
      BY DEF good
    <3>10. PICK i \in 0 .. n : q \in span(kids[i])
      BY <3>1
    <3>11. PICK j \in 0 .. n : r \in span(kids[j])
      BY <3>1
    <3>12. CASE i = j
      <4>1. kids[i] \in good
        BY <1>2, <3>3 DEF kids
      <4> QED BY <3>10, <3>11, <3>12, <4>1 DEF good
    <3>13. CASE i < j
      <4>1. k \in allowed[kids[i]] /\ l \in allowed[kids[j]]
        BY <3>7, <3>10, <3>11
      <4>2. i \in 0 .. n - 1 /\ j - 1 \in 0 .. n - 1 /\ i <= j - 1 /\ i < n /\ j > 0
        BY <3>4, <3>13
      <4>3. k \in Int /\ l \in Int /\ k <= keys[i] /\ keys[j - 1] <= l
        BY <3>9, <4>1, <4>2
      <4>4. keys[i] \in Int /\ keys[j - 1] \in Int /\ keys[i] <= keys[j - 1]
        BY <3>4, <3>5, <4>2
      <4> QED BY <4>3, <4>4
    <3>14. CASE j < i
      <4>1. pos[r] < pos[q]
        BY <3>1, <3>10, <3>11, <3>14
      <4> QED BY <3>2, <4>1
    <3> QED BY <3>4, <3>12, <3>13, <3>14
  <2> QED BY <2>1, <2>2
<1> HIDE DEF good
<1>3. live \subseteq good
  BY <1>1, <1>2, TreeInduction
<1>4. root_id \in good
  BY <1>1, <1>3 DEF Hangs
<1>5. span(root_id) = LeavesIn(nodes, live)
  BY SpanOfRoot
<1> HIDE DEF span
<1> QED BY <1>4, <1>5 DEF good
-----------------------------------------------------------------------------
(* Conditions.                                                             *)

Types == {"EQUALS", "LESS", "LESS_EQUAL", "GREATER", "GREATER_EQUAL"}

ValueBody(f, comp, value) ==
  [i \in 0 .. Len(comp) |->
     IF i = 0 THEN TRUE
     ELSE IF i > 1 /\ ~comp[i - 1].is_next_and THEN f[i - 1] \/ condition(comp[i], value)
     ELSE f[i - 1] /\ condition(comp[i], value)]

ValueOf(comp, value) == CHOOSE f : f = ValueBody(f, comp, value)

LEMMA EvaluateMeans == \A comp, value : evaluate(comp, value) = ValueOf(comp, value)[Len(comp)]
BY Zenon DEF evaluate, ValueOf, ValueBody

\* Up to two comparisons, all of which must be true.
Conjuncts == [type : Types, compared : Int, is_next_and : {TRUE}]

LEMMA EvaluateAll ==
  ASSUME NEW comp \in Seq(Conjuncts), Len(comp) <= 2, NEW value \in Int
  PROVE  evaluate(comp, value) <=> \A i \in 1 .. Len(comp) : condition(comp[i], value)
<1>a. Len(comp) \in 0 .. 2 /\ \A i \in 1 .. Len(comp) : comp[i] \in Conjuncts
  <2>1. Len(comp) \in Nat /\ \A i \in 1 .. Len(comp) : comp[i] \in Conjuncts
    OBVIOUS
  <2>2. Len(comp) <= 2
    OBVIOUS
  <2>3. \A m \in Nat : m <= 2 => m \in 0 .. 2
    OBVIOUS
  <2> QED BY ONLY <2>1, <2>2, <2>3, Zenon
<1> DEFINE n == Len(comp)
           f == [i \in 0 .. n |-> \A j \in 1 .. i : condition(comp[j], value)]
<1>1. n \in 0 .. 2
  BY ONLY <1>a
<1>2. \A i \in 1 .. n : comp[i].is_next_and
  <2>1. \A i \in 1 .. n : comp[i] \in Conjuncts
    BY <1>a
  <2>2. \A c \in Conjuncts : c.is_next_and
    BY DEF Conjuncts
  <2> QED BY ONLY <2>1, <2>2, Zenon
<1>3. ASSUME NEW i \in 0 .. n
      PROVE  f[i] = IF i = 0 THEN TRUE
                    ELSE IF i > 1 /\ ~comp[i - 1].is_next_and THEN f[i - 1] \/ condition(comp[i], value)
                    ELSE f[i - 1] /\ condition(comp[i], value)
  <2>1. f[i] = (\A j \in 1 .. i : condition(comp[j], value))
    OBVIOUS
  <2>2. CASE i = 0
    BY <2>1, <2>2
  <2>3. CASE i # 0
    <3>1. i - 1 \in 0 .. n /\ i \in 1 .. n
      BY <1>1, <2>3
    <3>2. f[i - 1] = (\A j \in 1 .. i - 1 : condition(comp[j], value))
      BY <3>1
    <3>3. i > 1 => comp[i - 1].is_next_and
      <4>1. i > 1 => i - 1 \in 1 .. n
        BY <1>1
      <4> QED BY <1>2, <4>1
    <3> HIDE DEF f
    <3>4. (\A j \in 1 .. i : condition(comp[j], value))
            <=> (\A j \in 1 .. i - 1 : condition(comp[j], value)) /\ condition(comp[i], value)
      <4>1. \A j : j \in 1 .. i <=> j \in 1 .. i - 1 \/ j = i
        BY <1>1, <2>3
      <4> HIDE DEF n
      <4> QED BY ONLY <4>1, Zenon
    <3>5. f[i] = (f[i - 1] /\ condition(comp[i], value))
      BY ONLY <2>1, <3>2, <3>4, Zenon
    <3> QED BY ONLY <2>3, <3>3, <3>5, Zenon
  <2> QED BY <2>2, <2>3
<1>4. f = ValueBody(f, comp, value)
  <2>1. f = [i \in 0 .. n |-> f[i]]
    OBVIOUS
  <2> HIDE DEF f
  <2>2. [i \in 0 .. n |-> f[i]] = ValueBody(f, comp, value)
    BY <1>3, Zenon DEF ValueBody
  <2> QED BY <2>1, <2>2
<1> HIDE DEF f
<1> DEFINE g == ValueOf(comp, value)
<1>5. g = ValueBody(g, comp, value)
  BY <1>4, Zenon DEF ValueOf
<1> HIDE DEF g
<1>6. ASSUME NEW i \in 0 .. n
      PROVE  g[i] = IF i = 0 THEN TRUE
                    ELSE IF i > 1 /\ ~comp[i - 1].is_next_and THEN g[i - 1] \/ condition(comp[i], value)
                    ELSE g[i - 1] /\ condition(comp[i], value)
  <2>1. ValueBody(g, comp, value)[i] =
          IF i = 0 THEN TRUE
          ELSE IF i > 1 /\ ~comp[i - 1].is_next_and THEN g[i - 1] \/ condition(comp[i], value)
          ELSE g[i - 1] /\ condition(comp[i], value)
    BY Zenon DEF ValueBody
  <2> QED BY <1>5, <2>1, Zenon
<1>7. evaluate(comp, value) = g[n]
  BY EvaluateMeans DEF g
<1> HIDE DEF n
<1>8. g[0]
  <2>1. 0 \in 0 .. n
    BY <1>1
  <2> QED BY <1>6, <2>1
<1>9. n >= 1 => (g[1] <=> condition(comp[1], value))
  <2> SUFFICES ASSUME n >= 1 PROVE g[1] <=> condition(comp[1], value)
    OBVIOUS
  <2>1. 1 \in 0 .. n /\ ~(1 = 0) /\ ~(1 > 1) /\ 1 - 1 = 0
    BY <1>1
  <2>2. g[1] = (g[1 - 1] /\ condition(comp[1], value))
    BY ONLY <1>6, <2>1, Zenon
  <2> QED BY ONLY <1>8, <2>1, <2>2, Zenon
<1>10. n = 2 => (g[2] <=> g[1] /\ condition(comp[2], value))
  <2> SUFFICES ASSUME n = 2 PROVE g[2] <=> g[1] /\ condition(comp[2], value)
    OBVIOUS
  <2>1. 2 \in 0 .. n /\ ~(2 = 0) /\ 2 - 1 = 1 /\ comp[1].is_next_and
    BY <1>1, <1>2
  <2>2. g[2] = (g[2 - 1] /\ condition(comp[2], value))
    BY ONLY <1>6, <2>1, Zenon
  <2> QED BY ONLY <2>1, <2>2, Zenon
<1>11. CASE n = 0
  <2>1. \A i : i \notin 1 .. n
    BY <1>11
  <2> QED BY ONLY <1>7, <1>8, <1>11, <2>1, Zenon DEF n
<1>12. CASE n = 1
  <2>1. \A i : i \in 1 .. n <=> i = 1
    BY <1>12
  <2>2. n >= 1
    BY <1>12
  <2>3. (\A i \in 1 .. n : condition(comp[i], value)) <=> condition(comp[1], value)
    BY ONLY <2>1, Zenon
  <2> QED BY ONLY <1>7, <1>9, <1>12, <2>2, <2>3, Zenon DEF n
<1>13. CASE n = 2
  <2>1. \A i : i \in 1 .. n <=> i = 1 \/ i = 2
    BY <1>13
  <2>2. n >= 1
    BY <1>13
  <2>3. (\A i \in 1 .. n : condition(comp[i], value))
          <=> condition(comp[1], value) /\ condition(comp[2], value)
    BY ONLY <2>1, Zenon
  <2> QED BY ONLY <1>7, <1>9, <1>10, <1>13, <2>2, <2>3, Zenon DEF n
<1> QED BY <1>1, <1>11, <1>12, <1>13 DEF n
-----------------------------------------------------------------------------
(* What a condition is searched with.                                      *)

\* The keys that are not too low, and not too high.
IsFloor(low) ==
  \A k, l \in Int : k <= l => (evaluate(low, k) => evaluate(low, l))

IsCeiling(high) ==
  \A k, l \in Int : k <= l => (evaluate(high, l) => evaluate(high, k))

LEMMA FirstOfOne ==
  ASSUME NEW types, NEW c
  PROVE  FirstOf(types, <<c>>) = IF c.type \in types THEN <<c>> ELSE <<>>
<1> DEFINE comp == <<c>>
           found == {i \in DOMAIN comp : comp[i].type \in types}
<1>1. DOMAIN comp = {1} /\ comp[1] = c
  OBVIOUS
<1>2. FirstOf(types, comp) =
        IF found = {} THEN <<>> ELSE <<comp[CHOOSE i \in found : \A j \in found : i <= j]>>
  BY Zenon DEF FirstOf
<1> HIDE DEF comp
<1>3. CASE c.type \in types
  <2>1. found = {1}
    BY <1>1, <1>3
  <2> HIDE DEF found
  <2>2. \A i \in found : (\A j \in found : i <= j) => i = 1
    BY <2>1
  <2>3. \E i \in found : \A j \in found : i <= j
    BY <2>1
  <2>4. (CHOOSE i \in found : \A j \in found : i <= j) = 1
    BY <2>2, <2>3, Zenon
  <2>5. found # {}
    BY <2>1
  <2> QED BY <1>1, <1>2, <1>3, <2>4, <2>5 DEF comp
<1>4. CASE c.type \notin types
  <2>1. found = {}
    BY <1>1, <1>4
  <2> HIDE DEF found
  <2> QED BY <1>2, <1>4, <2>1 DEF comp
<1> QED BY <1>3, <1>4

LEMMA FirstOfTwo ==
  ASSUME NEW types, NEW c, NEW d
  PROVE  /\ c.type \in types => FirstOf(types, <<c, d>>) = <<c>>
         /\ c.type \notin types /\ d.type \in types => FirstOf(types, <<c, d>>) = <<d>>
<1> DEFINE comp == <<c, d>>
           found == {i \in DOMAIN comp : comp[i].type \in types}
<1>1. DOMAIN comp = {1, 2} /\ comp[1] = c /\ comp[2] = d
  OBVIOUS
<1>2. FirstOf(types, comp) =
        IF found = {} THEN <<>> ELSE <<comp[CHOOSE i \in found : \A j \in found : i <= j]>>
  BY Zenon DEF FirstOf
<1> HIDE DEF comp
<1>3. ASSUME c.type \in types PROVE FirstOf(types, comp) = <<c>>
  <2>1. 1 \in found /\ \A i \in found : i = 1 \/ i = 2
    BY <1>1, <1>3
  <2> HIDE DEF found
  <2>2. \A i \in found : (\A j \in found : i <= j) => i = 1
    BY <2>1
  <2>3. \E i \in found : \A j \in found : i <= j
    BY <2>1
  <2>4. (CHOOSE i \in found : \A j \in found : i <= j) = 1
    BY <2>2, <2>3, Zenon
  <2>5. found # {}
    BY <2>1
  <2> QED BY <1>1, <1>2, <2>4, <2>5
<1>4. ASSUME c.type \notin types, d.type \in types PROVE FirstOf(types, comp) = <<d>>
  <2>1. found = {2}
    BY <1>1, <1>4
  <2> HIDE DEF found
  <2>2. \A i \in found : (\A j \in found : i <= j) => i = 2
    BY <2>1
  <2>3. \E i \in found : \A j \in found : i <= j
    BY <2>1
  <2>4. (CHOOSE i \in found : \A j \in found : i <= j) = 2
    BY <2>2, <2>3, Zenon
  <2>5. found # {}
    BY <2>1
  <2> QED BY <1>1, <1>2, <2>4, <2>5
<1> QED BY <1>3, <1>4 DEF comp

\* A search for a range meets the keys that are neither too low nor too high.
LEMMA BoundsOfRange ==
  ASSUME NEW comp \in SearchedRanges
  PROVE  /\ IsFloor(get_low(comp)) /\ IsCeiling(get_high(comp))
         /\ \A key \in Int : evaluate(comp, key) <=> evaluate(get_low(comp), key) /\ evaluate(get_high(comp), key)
<1> DEFINE S == [type : Types, compared : Int, is_next_and : {TRUE}]
<1>0. S = Conjuncts
  BY DEF Conjuncts
<1>1. Keys \subseteq Int
  BY BPTreeAssumption
<1>2. \A key \in Int : evaluate(<<>>, key)
  <2> SUFFICES ASSUME NEW key \in Int PROVE evaluate(<<>>, key)
    OBVIOUS
  <2>1. <<>> \in Seq(S) /\ Len(<<>>) = 0 /\ Len(<<>>) <= 2
    OBVIOUS
  <2> HIDE DEF S
  <2>2. evaluate(<<>>, key) <=> \A i \in 1 .. Len(<<>>) : condition(<<>>[i], key)
    BY <1>0, <2>1, EvaluateAll
  <2> QED BY <2>1, <2>2
<1>3. ASSUME NEW c \in S, NEW key \in Int PROVE evaluate(<<c>>, key) <=> condition(c, key)
  <2> HIDE DEF S
  <2>1. <<c>> \in Seq(S) /\ Len(<<c>>) = 1 /\ Len(<<c>>) <= 2 /\ <<c>>[1] = c
    OBVIOUS
  <2>2. evaluate(<<c>>, key) <=> \A i \in 1 .. Len(<<c>>) : condition(<<c>>[i], key)
    BY <1>0, <2>1, EvaluateAll
  <2>3. \A i \in 1 .. 1 : i = 1
    OBVIOUS
  <2>4. 1 \in 1 .. 1
    OBVIOUS
  <2> QED BY <2>1, <2>2, <2>3, <2>4
<1>4. ASSUME NEW c \in S, NEW d \in S, NEW key \in Int
      PROVE  evaluate(<<c, d>>, key) <=> condition(c, key) /\ condition(d, key)
  <2> HIDE DEF S
  <2>1. /\ <<c, d>> \in Seq(S) /\ Len(<<c, d>>) = 2 /\ Len(<<c, d>>) <= 2
        /\ <<c, d>>[1] = c /\ <<c, d>>[2] = d
    OBVIOUS
  <2>2. evaluate(<<c, d>>, key) <=> \A i \in 1 .. Len(<<c, d>>) : condition(<<c, d>>[i], key)
    BY <1>0, <2>1, EvaluateAll
  <2>3. \A i \in 1 .. 2 : i = 1 \/ i = 2
    OBVIOUS
  <2>4. 1 \in 1 .. 2 /\ 2 \in 1 .. 2
    OBVIOUS
  <2> QED BY <2>1, <2>2, <2>3, <2>4
<1>5. \A type \in Types, v \in Keys :
        Comparison(type, v) \in S /\ Comparison(type, v).type = type /\ Comparison(type, v).compared = v
  BY <1>1 DEF Comparison
<1>6. ASSUME NEW c \in S, c.type \in Lower PROVE IsFloor(<<c>>)
  <2>1. \A k, l \in Int : k <= l => (condition(c, k) => condition(c, l))
    <3>1. c.type = "GREATER" \/ c.type = "GREATER_EQUAL"
      BY <1>6 DEF Lower
    <3>2. CASE c.type = "GREATER"
      BY <3>2 DEF condition
    <3>3. CASE c.type = "GREATER_EQUAL"
      BY <3>3 DEF condition
    <3> QED BY <3>1, <3>2, <3>3
  <2> HIDE DEF S
  <2> QED BY <1>3, <2>1 DEF IsFloor
<1>7. ASSUME NEW c \in S, c.type \in Upper PROVE IsCeiling(<<c>>)
  <2>1. \A k, l \in Int : k <= l => (condition(c, l) => condition(c, k))
    <3>1. c.type = "LESS" \/ c.type = "LESS_EQUAL"
      BY <1>7 DEF Upper
    <3>2. CASE c.type = "LESS"
      BY <3>2 DEF condition
    <3>3. CASE c.type = "LESS_EQUAL"
      BY <3>3 DEF condition
    <3> QED BY <3>1, <3>2, <3>3
  <2> HIDE DEF S
  <2> QED BY <1>3, <2>1 DEF IsCeiling
<1>8. IsFloor(<<>>) /\ IsCeiling(<<>>)
  BY <1>2 DEF IsFloor, IsCeiling
<1>9. Lower \cup Upper \subseteq Types /\ Lower \cap Upper = {}
  BY DEF Lower, Upper, Types
<1> HIDE DEF S
<1>10. \/ \E type \in Lower \cup Upper, v \in Keys : comp = <<Comparison(type, v)>>
       \/ \E v, w \in Keys : comp = <<Comparison("GREATER_EQUAL", v), Comparison("LESS_EQUAL", w)>>
  BY DEF SearchedRanges, Ranges
<1>11. ASSUME NEW type \in Lower \cup Upper, NEW v \in Keys, comp = <<Comparison(type, v)>>
       PROVE  /\ IsFloor(get_low(comp)) /\ IsCeiling(get_high(comp))
              /\ \A key \in Int : evaluate(comp, key) <=> evaluate(get_low(comp), key) /\ evaluate(get_high(comp), key)
  <2>1. PICK c : c = Comparison(type, v)
    OBVIOUS
  <2>2. c \in S /\ c.type = type /\ comp = <<c>>
    BY <1>5, <1>9, <1>11, <2>1
  <2>3. CASE type \in Lower
    <3>1. get_low(comp) = <<c>> /\ get_high(comp) = <<>>
      BY <1>9, <2>2, <2>3, FirstOfOne DEF get_low, get_high
    <3> QED BY <1>2, <1>6, <1>8, <2>2, <2>3, <3>1
  <2>4. CASE type \in Upper
    <3>1. get_low(comp) = <<>> /\ get_high(comp) = <<c>>
      BY <1>9, <2>2, <2>4, FirstOfOne DEF get_low, get_high
    <3> QED BY <1>2, <1>7, <1>8, <2>2, <2>4, <3>1
  <2> QED BY <2>3, <2>4
<1>12. ASSUME NEW v \in Keys, NEW w \in Keys,
              comp = <<Comparison("GREATER_EQUAL", v), Comparison("LESS_EQUAL", w)>>
       PROVE  /\ IsFloor(get_low(comp)) /\ IsCeiling(get_high(comp))
              /\ \A key \in Int : evaluate(comp, key) <=> evaluate(get_low(comp), key) /\ evaluate(get_high(comp), key)
  <2>1. PICK c, d : c = Comparison("GREATER_EQUAL", v) /\ d = Comparison("LESS_EQUAL", w)
    OBVIOUS
  <2>2. "GREATER_EQUAL" \in Types /\ "LESS_EQUAL" \in Types /\ "GREATER_EQUAL" \in Lower /\ "LESS_EQUAL" \in Upper
    BY DEF Types, Lower, Upper
  <2>3. /\ c \in S /\ d \in S /\ c.type = "GREATER_EQUAL" /\ d.type = "LESS_EQUAL"
        /\ comp = <<c, d>>
    BY <1>5, <1>12, <2>1, <2>2
  <2>4. c.type \in Lower /\ c.type \notin Upper /\ d.type \in Upper
    BY <2>3 DEF Lower, Upper
  <2>5. get_low(comp) = <<c>> /\ get_high(comp) = <<d>>
    BY <2>3, <2>4, FirstOfTwo DEF get_low, get_high
  <2> QED BY <1>3, <1>4, <1>6, <1>7, <2>3, <2>4, <2>5
<1> QED BY <1>10, <1>11, <1>12
-----------------------------------------------------------------------------
(* The search as it goes down and along.                                   *)

LEMMA FirstIndexFacts ==
  ASSUME NEW x \in NodeType, NEW low
  PROVE  LET i == FirstIndex(x, low)
         IN  /\ i \in 0 .. x.n_keys
             /\ i = x.n_keys \/ evaluate(low, x.keys[i])
             /\ \A j \in 0 .. i - 1 : ~evaluate(low, x.keys[j])
<1> DEFINE n == x.n_keys
           S == {i \in 0 .. n : i = n \/ evaluate(low, x.keys[i])}
<1>1. n \in Nat
  BY NodeFields
<1>2. PICK i \in S : \A j \in S : i <= j
  <2>1. S \in SUBSET Nat /\ n \in S
    BY <1>1
  <2> HIDE DEF S, n
  <2> QED BY <2>1, LeastIndex
<1>3. ASSUME NEW j \in 0 .. i - 1 PROVE ~evaluate(low, x.keys[j])
  <2>1. j \in 0 .. n /\ j \notin S
    BY <1>1, <1>2
  <2> QED BY <2>1
<1>4. /\ i \in 0 .. x.n_keys
      /\ i = x.n_keys \/ evaluate(low, x.keys[i])
      /\ \A j \in 0 .. i - 1 : ~evaluate(low, x.keys[j])
  BY <1>3
<1> QED BY <1>4, Zenon DEF FirstIndex

SeekBody(f, low) ==
  [p \in NodeIds |-> IF nodes[p].is_leaf THEN p ELSE f[nodes[p].ptrs[FirstIndex(nodes[p], low)]]]

Seek(low) == CHOOSE f : f = SeekBody(f, low)

AlongBody(f, high) ==
  [at \in NodeIds \X PtrSlots |->
     LET x == nodes[at[1]]
         i == at[2]
     IN  IF i < x.n_keys /\ evaluate(high, x.keys[i])
           THEN <<x.ptrs[i]>> \o f[<<at[1], i + 1>>]
         ELSE IF i = x.n_keys /\ x.ptrs[i] # NULL_PAGE THEN f[<<x.ptrs[i], 0>>]
         ELSE <<>>]

Along(high) == CHOOSE f : f = AlongBody(f, high)

LEMMA SearchMeans ==
  \A comp :
    search(comp) =
      Along(get_high(comp))[<<Seek(get_low(comp))[root_id],
                              FirstIndex(nodes[Seek(get_low(comp))[root_id]], get_low(comp))>>]
BY Zenon DEF search, Along, AlongBody, Seek, SeekBody

LEMMA SeekAt ==
  ASSUME TypeInv, NEW height, Lowers(nodes, height), NEW low
  PROVE  \A p \in NodeIds :
           Seek(low)[p] = IF nodes[p].is_leaf THEN p
                          ELSE Seek(low)[nodes[p].ptrs[FirstIndex(nodes[p], low)]]
<1> DEFINE body == [f \in [NodeIds -> NodeIds] |-> SeekBody(f, low)]
<1>1. PICK top \in Nat : height \in [NodeIds -> 0 .. top]
  BY HeightsBounded DEF Lowers
<1>2. ASSUME NEW p \in NodeIds, ~nodes[p].is_leaf
      PROVE  /\ nodes[p].ptrs[FirstIndex(nodes[p], low)] \in NodeIds
             /\ height[nodes[p].ptrs[FirstIndex(nodes[p], low)]] < height[p]
  <2>1. nodes[p] \in NodeType
    BY DEF TypeInv, NodesInv
  <2>2. PICK x : x = nodes[p]
    OBVIOUS
  <2>3. FirstIndex(x, low) \in 0 .. x.n_keys
    BY <2>1, <2>2, FirstIndexFacts
  <2>4. \A i \in 0 .. nodes[p].n_keys : nodes[p].ptrs[i] \in NodeIds /\ height[nodes[p].ptrs[i]] < height[p]
    BY <1>2 DEF Lowers, ChildIndices
  <2> QED BY <2>2, <2>3, <2>4
<1>3. \A f \in [NodeIds -> NodeIds] : SeekBody(f, low) \in [NodeIds -> NodeIds]
  BY <1>2 DEF SeekBody
<1>4. IsRecursion(body, NodeIds, NodeIds, top, height)
  <2>1. ASSUME NEW p \in NodeIds, NEW f \in [NodeIds -> NodeIds], NEW g \in [NodeIds -> NodeIds],
               \A q \in NodeIds : height[q] < height[p] => f[q] = g[q]
        PROVE  body[f][p] = body[g][p]
    <3>1. SeekBody(f, low)[p] = SeekBody(g, low)[p]
      BY <1>2, <2>1 DEF SeekBody
    <3> QED BY <3>1
  <2>2. body \in [[NodeIds -> NodeIds] -> [NodeIds -> NodeIds]]
    BY <1>3
  <2> HIDE DEF body
  <2> QED BY <1>1, <2>1, <2>2 DEF IsRecursion
<1>5. root_id \in NodeIds
  BY Sizes
<1> HIDE DEF body
<1>6. PICK f : IsDefinedBy(f, body, NodeIds, NodeIds)
  BY <1>1, <1>4, <1>5, RecursionHasFunction
<1>7. f = SeekBody(f, low)
  BY <1>6 DEF IsDefinedBy, body
<1>8. Seek(low) = SeekBody(Seek(low), low)
  BY <1>7, Zenon DEF Seek
<1>9. \A p \in NodeIds :
        SeekBody(Seek(low), low)[p] = IF nodes[p].is_leaf THEN p
                                      ELSE Seek(low)[nodes[p].ptrs[FirstIndex(nodes[p], low)]]
  BY Zenon DEF SeekBody
<1> QED BY <1>8, <1>9, Zenon

\* A number for each page, less for the page its last pointer leads to.
Falls(far, top) ==
  /\ far \in [NodeIds -> 0 .. top]
  /\ \A p \in NodeIds :
       Link(nodes, p) # NULL_PAGE =>
         Link(nodes, p) \in NodeIds /\ far[Link(nodes, p)] < far[p]

LEMMA LinksFall ==
  ASSUME TypeInv, NEW live, NEW height, NEW allowed, IsTree(nodes, live, height, allowed),
         NEW level, NEW first, NEW last, IsChained(nodes, live, level, first, last),
         NEW m, NEW pos, IsPlaced(nodes, live, first, last, m, pos)
  PROVE  \E top \in Nat : \E far : Falls(far, top)
<1>1. Lowers(nodes, height) /\ live \in SUBSET NodeIds
  BY DEF IsTree, Hangs
<1>2. PICK top \in Nat : height \in [NodeIds -> 0 .. top]
  BY <1>1, HeightsBounded DEF Lowers
<1> DEFINE leaves == LeavesIn(nodes, live)
           far == [p \in NodeIds |-> IF ~nodes[p].is_leaf THEN m + 1 + height[p]
                                     ELSE IF p \in live THEN m - pos[p] ELSE 0]
<1>3. /\ m \in Nat /\ \A q \in leaves : pos[q] \in 1 .. m
      /\ \A q \in leaves :
           IF pos[q] = m THEN Link(nodes, q) = NULL_PAGE
           ELSE Link(nodes, q) \in leaves /\ pos[Link(nodes, q)] = pos[q] + 1
  BY DEF IsPlaced
<1>4. \A p : p \in leaves <=> p \in live /\ nodes[p].is_leaf
  BY DEF LeavesIn
<1> HIDE DEF leaves
<1>5. ASSUME NEW p \in NodeIds PROVE far[p] \in 0 .. m + 1 + top
  <2>1. CASE ~nodes[p].is_leaf
    <3>1. height[p] \in 0 .. top
      BY <1>2
    <3> QED BY <1>3, <2>1, <3>1
  <2>2. CASE nodes[p].is_leaf /\ p \in live
    <3>1. pos[p] \in 1 .. m
      BY <1>3, <1>4, <2>2
    <3> QED BY <1>3, <2>2, <3>1
  <2>3. CASE nodes[p].is_leaf /\ p \notin live
    BY <1>3, <2>3
  <2> QED BY <2>1, <2>2, <2>3
<1>6. ASSUME NEW p \in NodeIds, Link(nodes, p) # NULL_PAGE
      PROVE  Link(nodes, p) \in NodeIds /\ far[Link(nodes, p)] < far[p]
  <2>1. CASE ~nodes[p].is_leaf
    <3> DEFINE c == Link(nodes, p)
    <3>1. nodes[p].n_keys \in 0 .. nodes[p].n_keys
      BY NodeFields DEF TypeInv, NodesInv
    <3>2. c \in NodeIds /\ height[c] < height[p]
      BY <1>1, <2>1, <3>1 DEF Lowers, ChildIndices, Link
    <3> HIDE DEF c
    <3>3. far[p] = m + 1 + height[p] /\ height[p] \in Nat /\ height[c] \in Nat
      BY <1>2, <2>1, <3>2
    <3>4. far[c] = IF ~nodes[c].is_leaf THEN m + 1 + height[c]
                   ELSE IF c \in live THEN m - pos[c] ELSE 0
      BY <3>2
    <3>5. nodes[c].is_leaf /\ c \in live => pos[c] \in 1 .. m
      BY <1>3, <1>4
    <3> HIDE DEF far
    <3>6. far[c] < far[p]
      BY <1>3, <3>2, <3>3, <3>4, <3>5
    <3> QED BY <3>2, <3>6 DEF c
  <2>2. CASE nodes[p].is_leaf /\ p \in live
    <3> DEFINE c == Link(nodes, p)
    <3>1. pos[p] \in 1 .. m /\ c \in leaves /\ pos[c] = pos[p] + 1 /\ pos[c] \in 1 .. m
      BY <1>3, <1>4, <1>6, <2>2
    <3> HIDE DEF c
    <3>2. c \in live /\ c \in NodeIds /\ nodes[c].is_leaf
      BY <1>1, <1>4, <3>1
    <3>3. far[p] = m - pos[p] /\ far[c] = m - pos[c]
      BY <2>2, <3>2
    <3> HIDE DEF far
    <3>4. far[c] < far[p]
      BY <1>3, <3>1, <3>3
    <3> QED BY <3>2, <3>4 DEF c
  <2>3. CASE nodes[p].is_leaf /\ p \notin live
    BY <1>6, <2>3 DEF IsChained
  <2> QED BY <2>1, <2>2, <2>3
<1>7. far \in [NodeIds -> 0 .. m + 1 + top]
  BY <1>5
<1>8. m + 1 + top \in Nat
  BY <1>3
<1> HIDE DEF far
<1>9. Falls(far, m + 1 + top)
  BY <1>6, <1>7 DEF Falls
<1> QED BY <1>8, <1>9

LEMMA Products ==
  ASSUME NEW K \in Nat, NEW d \in Nat, NEW e \in Nat, d < e
  PROVE  d * K + K <= e * K /\ d * K \in Nat /\ e * K \in Nat
<1>1. PICK r \in Nat : e = d + 1 + r
  <2>1. e - d - 1 \in Nat /\ e = d + 1 + (e - d - 1)
    OBVIOUS
  <2> QED BY <2>1
<1>2. (d + 1 + r) * K = d * K + K + r * K
  OBVIOUS
<1>3. r * K \in Nat /\ d * K \in Nat /\ e * K \in Nat
  OBVIOUS
<1> QED BY <1>1, <1>2, <1>3

\* Where the search goes on from place i of page p is less far.
LEMMA AlongAt ==
  ASSUME TypeInv, NEW top \in Nat, NEW far, Falls(far, top), NEW high
  PROVE  \A p \in NodeIds, i \in PtrSlots :
           Along(high)[<<p, i>>] =
             IF i < nodes[p].n_keys /\ evaluate(high, nodes[p].keys[i])
               THEN <<nodes[p].ptrs[i]>> \o Along(high)[<<p, i + 1>>]
             ELSE IF i = nodes[p].n_keys /\ nodes[p].ptrs[i] # NULL_PAGE
               THEN Along(high)[<<nodes[p].ptrs[i], 0>>]
             ELSE <<>>
<1> DEFINE P == NodeIds \X PtrSlots
           V == Seq(AnyPtr)
           K == 2 * min_degree
           rank == [at \in P |-> far[at[1]] * K + (K - at[2])]
           N == top * K + K
           body == [f \in [P -> V] |-> AlongBody(f, high)]
<1>1. K \in Nat /\ K >= 4 /\ PtrSlots = 0 .. K - 1 /\ 0 \in PtrSlots
  BY Sizes DEF PtrSlots
<1> HIDE DEF K
<1>2. /\ \A p \in NodeIds : far[p] \in 0 .. top
      /\ \A p \in NodeIds : Link(nodes, p) # NULL_PAGE =>
           Link(nodes, p) \in NodeIds /\ far[Link(nodes, p)] < far[p]
  BY DEF Falls
<1>3. \A p \in NodeIds : \A i \in PtrSlots : nodes[p].ptrs[i] \in AnyPtr
  BY NodeFields DEF TypeInv, NodesInv
<1>4. \A p \in NodeIds : \A i \in PtrSlots : i < nodes[p].n_keys => i + 1 \in PtrSlots
  <2>1. \A p \in NodeIds : nodes[p].n_keys \in Nat /\ nodes[p].n_keys <= K - 1
    BY NodeFields DEF TypeInv, NodesInv, K
  <2> QED BY <1>1, <2>1
<1>5. \A p \in NodeIds : \A i \in PtrSlots :
        i = nodes[p].n_keys /\ nodes[p].ptrs[i] # NULL_PAGE =>
          nodes[p].ptrs[i] \in NodeIds /\ far[nodes[p].ptrs[i]] < far[p]
  BY <1>2 DEF Link
<1>6. rank \in [P -> 0 .. N] /\ N \in Nat
  <2>1. ASSUME NEW at \in P PROVE far[at[1]] * K + (K - at[2]) \in 0 .. N
    <3>1. far[at[1]] \in 0 .. top /\ at[2] \in 0 .. K - 1
      BY <1>1, <1>2
    <3>2. PICK d : d = far[at[1]]
      OBVIOUS
    <3>3. d \in Nat /\ d < top + 1
      BY <3>1, <3>2
    <3>4. d * K + K <= (top + 1) * K /\ d * K \in Nat
      BY <1>1, <3>3, Products
    <3>5. (top + 1) * K = top * K + K
      BY <1>1
    <3> QED BY <1>1, <3>1, <3>2, <3>4, <3>5
  <2>2. top * K \in Nat
    BY <1>1
  <2> QED BY <1>1, <2>1, <2>2
<1>7. ASSUME NEW f \in [P -> V] PROVE AlongBody(f, high) \in [P -> V]
  <2> SUFFICES ASSUME NEW at \in P
               PROVE  (IF at[2] < nodes[at[1]].n_keys /\ evaluate(high, nodes[at[1]].keys[at[2]])
                         THEN <<nodes[at[1]].ptrs[at[2]]>> \o f[<<at[1], at[2] + 1>>]
                       ELSE IF at[2] = nodes[at[1]].n_keys /\ nodes[at[1]].ptrs[at[2]] # NULL_PAGE
                         THEN f[<<nodes[at[1]].ptrs[at[2]], 0>>]
                       ELSE <<>>) \in V
    BY DEF AlongBody
  <2>1. at[1] \in NodeIds /\ at[2] \in PtrSlots
    OBVIOUS
  <2>2. CASE at[2] < nodes[at[1]].n_keys /\ evaluate(high, nodes[at[1]].keys[at[2]])
    <3>1. <<at[1], at[2] + 1>> \in P
      BY <1>4, <2>1, <2>2
    <3>2. f[<<at[1], at[2] + 1>>] \in V /\ <<nodes[at[1]].ptrs[at[2]]>> \in V
      BY <1>3, <2>1, <3>1
    <3> HIDE DEF P
    <3>3. <<nodes[at[1]].ptrs[at[2]]>> \o f[<<at[1], at[2] + 1>>] \in V
      BY <3>2
    <3> QED BY <2>2, <3>3
  <2>3. CASE ~(at[2] < nodes[at[1]].n_keys /\ evaluate(high, nodes[at[1]].keys[at[2]]))
             /\ at[2] = nodes[at[1]].n_keys /\ nodes[at[1]].ptrs[at[2]] # NULL_PAGE
    <3>1. <<nodes[at[1]].ptrs[at[2]], 0>> \in P
      BY <1>1, <1>5, <2>1, <2>3
    <3>2. f[<<nodes[at[1]].ptrs[at[2]], 0>>] \in V
      BY <3>1
    <3> HIDE DEF P, V
    <3> QED BY <2>3, <3>2
  <2>4. CASE ~(at[2] < nodes[at[1]].n_keys /\ evaluate(high, nodes[at[1]].keys[at[2]]))
             /\ ~(at[2] = nodes[at[1]].n_keys /\ nodes[at[1]].ptrs[at[2]] # NULL_PAGE)
    <3>1. <<>> \in V
      OBVIOUS
    <3> HIDE DEF P, V
    <3> QED BY <2>4, <3>1
  <2> QED BY <2>2, <2>3, <2>4
<1>8. ASSUME NEW at \in P, NEW f \in [P -> V], NEW g \in [P -> V],
             \A b \in P : rank[b] < rank[at] => f[b] = g[b]
      PROVE  body[f][at] = body[g][at]
  <2>1. at[1] \in NodeIds /\ at[2] \in PtrSlots /\ at[2] \in 0 .. K - 1
    BY <1>1
  <2>2. rank[at] = far[at[1]] * K + (K - at[2])
    OBVIOUS
  <2>3. ASSUME at[2] < nodes[at[1]].n_keys PROVE f[<<at[1], at[2] + 1>>] = g[<<at[1], at[2] + 1>>]
    <3>1. <<at[1], at[2] + 1>> \in P
      BY <1>4, <2>1, <2>3
    <3>2. rank[<<at[1], at[2] + 1>>] = far[at[1]] * K + (K - (at[2] + 1))
      BY <3>1
    <3>3. far[at[1]] * K \in Int
      <4>1. far[at[1]] \in Nat
        BY <1>2, <2>1
      <4> QED BY <1>1, <4>1
    <3> HIDE DEF rank, P
    <3>4. rank[<<at[1], at[2] + 1>>] < rank[at]
      BY <1>1, <2>1, <2>2, <3>2, <3>3
    <3> QED BY <1>8, <3>1, <3>4
  <2>4. ASSUME at[2] = nodes[at[1]].n_keys, nodes[at[1]].ptrs[at[2]] # NULL_PAGE
        PROVE  f[<<nodes[at[1]].ptrs[at[2]], 0>>] = g[<<nodes[at[1]].ptrs[at[2]], 0>>]
    <3>1. PICK c : c = nodes[at[1]].ptrs[at[2]]
      OBVIOUS
    <3>2. c \in NodeIds /\ far[c] < far[at[1]] /\ far[c] \in Nat /\ far[at[1]] \in Nat
      BY <1>2, <1>5, <2>1, <2>4, <3>1
    <3>3. <<c, 0>> \in P
      BY <1>1, <3>2
    <3>4. rank[<<c, 0>>] = far[c] * K + (K - 0)
      BY <3>3
    <3>5. far[c] * K + K <= far[at[1]] * K /\ far[c] * K \in Nat /\ far[at[1]] * K \in Nat
      BY <1>1, <3>2, Products
    <3> HIDE DEF rank, P
    <3>6. rank[<<c, 0>>] < rank[at]
      BY <1>1, <2>1, <2>2, <3>4, <3>5
    <3> QED BY <1>8, <3>1, <3>3, <3>6
  <2>5. AlongBody(f, high)[at] = AlongBody(g, high)[at]
    <3>1. \A h : AlongBody(h, high)[at] =
                   IF at[2] < nodes[at[1]].n_keys /\ evaluate(high, nodes[at[1]].keys[at[2]])
                     THEN <<nodes[at[1]].ptrs[at[2]]>> \o h[<<at[1], at[2] + 1>>]
                   ELSE IF at[2] = nodes[at[1]].n_keys /\ nodes[at[1]].ptrs[at[2]] # NULL_PAGE
                     THEN h[<<nodes[at[1]].ptrs[at[2]], 0>>]
                   ELSE <<>>
      BY Zenon DEF AlongBody
    <3> QED BY <2>3, <2>4, <3>1, Zenon
  <2> QED BY <2>5
<1>9. body \in [[P -> V] -> [P -> V]]
  BY <1>7
<1>10. <<>> \in V
  OBVIOUS
<1> HIDE DEF P, V, rank, N, body
<1>11. IsRecursion(body, P, V, N, rank)
  BY <1>6, <1>8, <1>9 DEF IsRecursion
<1>12. PICK f : IsDefinedBy(f, body, P, V)
  BY <1>6, <1>10, <1>11, RecursionHasFunction
<1>13. f = AlongBody(f, high)
  BY <1>12 DEF IsDefinedBy, body
<1>14. Along(high) = AlongBody(Along(high), high)
  BY <1>13, Zenon DEF Along
<1>15. ASSUME NEW p \in NodeIds, NEW i \in PtrSlots
       PROVE  AlongBody(Along(high), high)[<<p, i>>] =
             IF i < nodes[p].n_keys /\ evaluate(high, nodes[p].keys[i])
               THEN <<nodes[p].ptrs[i]>> \o Along(high)[<<p, i + 1>>]
             ELSE IF i = nodes[p].n_keys /\ nodes[p].ptrs[i] # NULL_PAGE
               THEN Along(high)[<<nodes[p].ptrs[i], 0>>]
             ELSE <<>>
  <2>1. <<p, i>> \in NodeIds \X PtrSlots /\ <<p, i>>[1] = p /\ <<p, i>>[2] = i
    OBVIOUS
  <2> QED BY <2>1 DEF AlongBody
<1> SUFFICES ASSUME NEW p \in NodeIds, NEW i \in PtrSlots
             PROVE  Along(high)[<<p, i>>] =
                      IF i < nodes[p].n_keys /\ evaluate(high, nodes[p].keys[i])
                        THEN <<nodes[p].ptrs[i]>> \o Along(high)[<<p, i + 1>>]
                      ELSE IF i = nodes[p].n_keys /\ nodes[p].ptrs[i] # NULL_PAGE
                        THEN Along(high)[<<nodes[p].ptrs[i], 0>>]
                      ELSE <<>>
  BY Zenon
<1>16. Along(high)[<<p, i>>] = AlongBody(Along(high), high)[<<p, i>>]
  BY <1>14, Zenon
<1> QED BY ONLY <1>15, <1>16, p \in NodeIds, i \in PtrSlots, Zenon
-----------------------------------------------------------------------------
(* The search is exact.                                                    *)

\* Leaves before the one a search comes to have only keys that are too low, those after it
\* none.
LEMMA SeekParts ==
  ASSUME TypeInv, NEW live, NEW height, NEW allowed, IsTree(nodes, live, height, allowed),
         NEW level, NEW first, NEW last, IsChained(nodes, live, level, first, last),
         NEW m, NEW pos, IsPlaced(nodes, live, first, last, m, pos),
         NEW low, IsFloor(low)
  PROVE  /\ Seek(low)[root_id] \in LeavesIn(nodes, live)
         /\ \A q \in LeavesIn(nodes, live) : \A k \in KeysIn(nodes[q]) :
              /\ pos[q] < pos[Seek(low)[root_id]] => ~evaluate(low, k)
              /\ pos[Seek(low)[root_id]] < pos[q] => evaluate(low, k)
<1> DEFINE span(p) == Span(nodes, live, first, last, pos, p)
           good == {p \in live :
                      /\ Seek(low)[p] \in span(p)
                      /\ \A q \in span(p) : \A k \in KeysIn(nodes[q]) :
                           /\ pos[q] < pos[Seek(low)[p]] => ~evaluate(low, k)
                           /\ pos[Seek(low)[p]] < pos[q] => evaluate(low, k)}
<1>1. /\ Lowers(nodes, height) /\ Hangs(nodes, live) /\ Parts(nodes, live, allowed)
      /\ live \in SUBSET NodeIds
  BY DEF IsTree, Hangs
<1>2. \A p \in NodeIds :
        Seek(low)[p] = IF nodes[p].is_leaf THEN p
                       ELSE Seek(low)[nodes[p].ptrs[FirstIndex(nodes[p], low)]]
  BY <1>1, SeekAt
<1>3. ASSUME NEW p \in live, \A i \in ChildIndices(nodes[p]) : nodes[p].ptrs[i] \in good
      PROVE  p \in good
  <2>1. CASE nodes[p].is_leaf
    <3>1. p \in LeavesIn(nodes, live)
      BY <2>1 DEF LeavesIn
    <3>2. span(p) = {p} /\ pos[p] \in Nat
      BY <3>1, SpanOfLeaf DEF IsPlaced
    <3>3. Seek(low)[p] = p
      BY <1>1, <1>2, <2>1
    <3> HIDE DEF span
    <3> QED BY <3>2, <3>3
  <2>2. CASE ~nodes[p].is_leaf
    <3> DEFINE n == nodes[p].n_keys
               kids == nodes[p].ptrs
               keys == nodes[p].keys
               i == FirstIndex(nodes[p], low)
               L == Seek(low)[kids[i]]
    <3>1. /\ \A q \in span(p) : \E j \in 0 .. n : q \in span(kids[j])
          /\ \A j, l \in 0 .. n : \A q \in span(kids[j]), r \in span(kids[l]) :
               j < l => pos[q] < pos[r]
          /\ \A j \in 0 .. n : span(kids[j]) \subseteq span(p)
      BY <2>2, SpansBelow
    <3>2. \A q \in span(p) : pos[q] \in Nat
      BY DEF IsPlaced, Span
    <3>3. ChildIndices(nodes[p]) = 0 .. n
      BY <2>2 DEF ChildIndices
    <3>4. n \in Nat /\ \A j \in 0 .. n - 1 : keys[j] \in Int
      BY <1>1, KeysAreNumbers DEF Hangs, TypeInv, NodesInv
    <3>5. \A j, l \in 0 .. n - 1 : j <= l => keys[j] <= keys[l]
      BY <1>1 DEF Parts, InOrder
    <3>6. \A j \in 0 .. n : kids[j] \in live
      BY <1>1, <3>3 DEF Hangs
    <3>7. \A j \in 0 .. n : \A q \in span(kids[j]) : KeysIn(nodes[q]) \subseteq allowed[kids[j]]
      BY <3>6, SpanAllowed
    <3>8. \A j \in 0 .. n : allowed[kids[j]] = {k \in allowed[p] : Between(nodes[p], j, k)}
      BY <1>1, <3>3 DEF Parts
    <3>9. \A j \in 0 .. n : \A k \in allowed[kids[j]] :
            k \in Int /\ (j > 0 => keys[j - 1] <= k) /\ (j < n => k <= keys[j])
      <4>1. p \in NodeIds
        BY <1>1 DEF Hangs
      <4>2. \A k \in allowed[p] : k \in Int
        BY <1>1, <4>1, Sizes DEF Parts
      <4> QED BY <3>8, <4>2 DEF Between
    <3>10. /\ i \in 0 .. n /\ (i = n \/ evaluate(low, keys[i]))
           /\ \A j \in 0 .. i - 1 : ~evaluate(low, keys[j])
      <4>1. nodes[p] \in NodeType
        BY <1>1 DEF TypeInv, NodesInv
      <4> QED BY <4>1, FirstIndexFacts
    <3>11. Seek(low)[p] = L
      BY <1>1, <1>2, <2>2
    <3>12. kids[i] \in good
      BY <1>3, <3>3, <3>10
    <3> HIDE DEF span, n, kids, keys, i
    <3>13. /\ L \in span(kids[i]) /\ L \in span(p)
           /\ \A q \in span(kids[i]) : \A k \in KeysIn(nodes[q]) :
                /\ pos[q] < pos[L] => ~evaluate(low, k)
                /\ pos[L] < pos[q] => evaluate(low, k)
      BY <3>1, <3>10, <3>12 DEF good
    <3> HIDE DEF L
    <3>14. ASSUME NEW q \in span(p), NEW k \in KeysIn(nodes[q])
           PROVE  /\ pos[q] < pos[L] => ~evaluate(low, k)
                  /\ pos[L] < pos[q] => evaluate(low, k)
      <4>1. PICK j \in 0 .. n : q \in span(kids[j])
        BY <3>1
      <4>2. k \in allowed[kids[j]] /\ k \in Int
        BY <3>7, <3>9, <4>1
      <4>3. CASE j = i
        BY <3>13, <4>1, <4>3
      <4>4. CASE j < i
        <5>1. pos[q] < pos[L] /\ ~(pos[L] < pos[q])
          BY <3>1, <3>2, <3>10, <3>13, <4>1, <4>4
        <5>2. j \in 0 .. i - 1 /\ j \in 0 .. n - 1 /\ j < n
          BY <3>4, <3>10, <4>4
        <5>3. k <= keys[j] /\ keys[j] \in Int /\ ~evaluate(low, keys[j])
          BY <3>4, <3>9, <3>10, <4>2, <5>2
        <5>4. ~evaluate(low, k)
          BY <4>2, <5>3 DEF IsFloor
        <5> QED BY <5>1, <5>4
      <4>5. CASE i < j
        <5>1. pos[L] < pos[q] /\ ~(pos[q] < pos[L])
          BY <3>1, <3>2, <3>10, <3>13, <4>1, <4>5
        <5>2. /\ i # n /\ i \in 0 .. n - 1 /\ j - 1 \in 0 .. n - 1
              /\ i <= j - 1 /\ j > 0
          BY <3>4, <3>10, <4>5
        <5>3. /\ evaluate(low, keys[i]) /\ keys[i] \in Int /\ keys[j - 1] \in Int
              /\ keys[i] <= keys[j - 1] /\ keys[j - 1] <= k
          BY <3>4, <3>5, <3>9, <3>10, <4>2, <5>2
        <5>4. keys[i] <= k
          BY <4>2, <5>3
        <5>5. evaluate(low, k)
          BY <4>2, <5>3, <5>4 DEF IsFloor
        <5> QED BY <5>1, <5>5
      <4> QED BY <3>4, <3>10, <4>1, <4>3, <4>4, <4>5
    <3> QED BY <3>11, <3>13, <3>14 DEF good
  <2> QED BY <2>1, <2>2
<1> HIDE DEF good
<1>4. live \subseteq good
  BY <1>1, <1>3, TreeInduction
<1>5. root_id \in good
  BY <1>1, <1>4 DEF Hangs
<1>6. span(root_id) = LeavesIn(nodes, live)
  BY SpanOfRoot
<1> HIDE DEF span
<1> QED BY <1>5, <1>6 DEF good

\* The pointers from place i of leaf q on whose keys are not too high.
PlacesFrom(live, pos, high, q, i) ==
  {w \in LeavesIn(nodes, live) \X PtrSlots :
     /\ w[2] < nodes[w[1]].n_keys
     /\ evaluate(high, nodes[w[1]].keys[w[2]])
     /\ pos[q] < pos[w[1]] \/ (w[1] = q /\ i <= w[2])}

RefsFrom(live, pos, high, q, i) ==
  {nodes[w[1]].ptrs[w[2]] : w \in PlacesFrom(live, pos, high, q, i)}

\* A sequence of the members of a set, each once.
Lists(s, S) ==
  /\ s \in Seq(S)
  /\ \A v \in S : \E h \in 1 .. Len(s) : s[h] = v
  /\ \A h, l \in 1 .. Len(s) : s[h] = s[l] => h = l

LEMMA ListWithOneMore ==
  ASSUME NEW S, NEW s, Lists(s, S), NEW v, v \notin S
  PROVE  Lists(<<v>> \o s, S \cup {v})
<1> DEFINE T == S \cup {v}
           t == <<v>> \o s
           n == Len(s)
<1>1. s \in Seq(S) /\ n \in Nat /\ \A h \in 1 .. n : s[h] \in S
  BY DEF Lists
<1>2. s \in Seq(T) /\ <<v>> \in Seq(T)
  BY <1>1
<1>3. /\ t \in Seq(T) /\ Len(t) = n + 1 /\ t[1] = v
      /\ \A h \in 2 .. n + 1 : t[h] = s[h - 1]
  BY <1>1, <1>2
<1> HIDE DEF t, n, T
<1>4. ASSUME NEW u \in T PROVE \E h \in 1 .. Len(t) : t[h] = u
  <2>1. CASE u = v
    <3>1. 1 \in 1 .. Len(t)
      BY <1>1, <1>3
    <3> QED BY <1>3, <2>1, <3>1
  <2>2. CASE u \in S
    <3>1. PICK h \in 1 .. n : s[h] = u
      BY <2>2 DEF Lists, n
    <3>2. h + 1 \in 2 .. n + 1 /\ (h + 1) - 1 = h /\ h + 1 \in 1 .. Len(t)
      BY <1>1, <1>3
    <3> QED BY <1>3, <3>1, <3>2
  <2> QED BY <2>1, <2>2 DEF T
<1>5. ASSUME NEW h \in 1 .. Len(t), NEW l \in 1 .. Len(t), t[h] = t[l] PROVE h = l
  <2>1. \A j \in 1 .. Len(t) : j = 1 \/ (j \in 2 .. n + 1 /\ j - 1 \in 1 .. n)
    BY <1>1, <1>3
  <2>2. \A j \in 1 .. Len(t) : j # 1 => t[j] = s[j - 1] /\ s[j - 1] \in S /\ t[j] # v
    BY <1>1, <1>3, <2>1
  <2>3. \A a, b \in 1 .. n : s[a] = s[b] => a = b
    BY DEF Lists, n
  <2>4. h # 1 /\ l # 1 => h - 1 = l - 1
    BY <1>5, <2>1, <2>2, <2>3
  <2> QED BY <1>3, <1>5, <2>2, <2>4
<1>6. Lists(t, T)
  BY <1>3, <1>4, <1>5 DEF Lists
<1> QED BY <1>6 DEF t, T

\* Along the rest of a leaf, from what comes after it.
LEMMA AlongLeaf ==
  ASSUME TypeInv, NEW live, NEW height, NEW allowed, IsTree(nodes, live, height, allowed),
         NEW level, NEW first, NEW last, IsChained(nodes, live, level, first, last),
         NEW m, NEW pos, IsPlaced(nodes, live, first, last, m, pos),
         NEW high, IsCeiling(high), Unique(nodes, live),
         NEW q \in LeavesIn(nodes, live),
         Lists(Along(high)[<<q, nodes[q].n_keys>>], RefsFrom(live, pos, high, q, nodes[q].n_keys))
  PROVE  \A i \in 0 .. nodes[q].n_keys :
           Lists(Along(high)[<<q, i>>], RefsFrom(live, pos, high, q, i))
<1> DEFINE n == nodes[q].n_keys
           leaves == LeavesIn(nodes, live)
           good == {k \in 0 .. n : Lists(Along(high)[<<q, n - k>>], RefsFrom(live, pos, high, q, n - k))}
<1>1. leaves \in SUBSET NodeIds /\ q \in NodeIds /\ nodes[q] \in NodeType
  BY DEF IsTree, Hangs, LeavesIn, TypeInv, NodesInv
<1>2. n \in Nat /\ 0 .. n \subseteq PtrSlots
  BY <1>1, NodeFields, Sizes DEF PtrSlots
<1>3. \A r \in leaves : \A j \in PtrSlots :
        j < nodes[r].n_keys => nodes[r].keys[j] \in KeysIn(nodes[r]) /\ nodes[r].keys[j] \in Int
  <2> SUFFICES ASSUME NEW r \in leaves, NEW j \in PtrSlots, j < nodes[r].n_keys
               PROVE  nodes[r].keys[j] \in KeysIn(nodes[r]) /\ nodes[r].keys[j] \in Int
    OBVIOUS
  <2>1. nodes[r] \in NodeType
    BY <1>1 DEF TypeInv, NodesInv
  <2>2. nodes[r].n_keys \in Nat /\ \A l \in 0 .. nodes[r].n_keys - 1 : nodes[r].keys[l] \in Int
    BY <2>1, KeysAreNumbers
  <2>3. j \in 0 .. nodes[r].n_keys - 1
    BY <2>2, Sizes DEF PtrSlots
  <2> QED BY <2>2, <2>3 DEF KeysIn
<1>4. \A r \in leaves : pos[r] \in Nat /\ (pos[q] < pos[r] => r # q)
  BY DEF IsPlaced
<1>5. \A r \in leaves : pos[q] < pos[r] =>
        \A k \in KeysIn(nodes[q]), l \in KeysIn(nodes[r]) : k <= l
  BY LeavesInOrder
<1>6. \A i, j \in 0 .. n - 1 : i <= j => nodes[q].keys[i] <= nodes[q].keys[j]
  BY DEF IsTree, Parts, InOrder, LeavesIn
<1>7. \A i \in PtrSlots :
           Along(high)[<<q, i>>] =
             IF i < n /\ evaluate(high, nodes[q].keys[i])
               THEN <<nodes[q].ptrs[i]>> \o Along(high)[<<q, i + 1>>]
             ELSE IF i = n /\ nodes[q].ptrs[i] # NULL_PAGE
               THEN Along(high)[<<nodes[q].ptrs[i], 0>>]
             ELSE <<>>
  <2>1. PICK top \in Nat : \E far : Falls(far, top)
    BY LinksFall
  <2>2. PICK far : Falls(far, top)
    BY <2>1
  <2> QED BY <1>1, <2>2, AlongAt
<1>8. 0 \in good
  BY <1>2
<1>9. ASSUME NEW k \in 0 .. n - 1, k \in good PROVE k + 1 \in good
  <2> DEFINE i == n - (k + 1)
             rest == RefsFrom(live, pos, high, q, i + 1)
  <2>1. i \in 0 .. n - 1 /\ i + 1 = n - k /\ i \in PtrSlots /\ i < n /\ i \in Nat
    BY <1>2
  <2>2. Lists(Along(high)[<<q, i + 1>>], rest)
    BY <1>9, <2>1
  <2>3. nodes[q].keys[i] \in KeysIn(nodes[q]) /\ nodes[q].keys[i] \in Int
    BY <1>3, <2>1
  <2> HIDE DEF i
  <2>4. CASE evaluate(high, nodes[q].keys[i])
    <3> DEFINE ref == nodes[q].ptrs[i]
               here == PlacesFrom(live, pos, high, q, i)
               there == PlacesFrom(live, pos, high, q, i + 1)
    <3>1. Along(high)[<<q, i>>] = <<ref>> \o Along(high)[<<q, i + 1>>]
      BY <1>7, <2>1, <2>4
    <3>2. here = there \cup {<<q, i>>}
      <4>1. <<q, i>> \in here
        BY <2>1, <2>4 DEF PlacesFrom
      <4>2. ASSUME NEW w \in there PROVE w \in here
        <5>1. w[2] \in Int
          BY <1>2, Sizes DEF PlacesFrom, PtrSlots
        <5>2. i + 1 <= w[2] => i <= w[2]
          BY <2>1, <5>1
        <5> QED BY <5>2 DEF PlacesFrom
      <4>3. ASSUME NEW w \in here, w # <<q, i>> PROVE w \in there
        <5>1. w[2] \in Int /\ w = <<w[1], w[2]>>
          BY <1>2, Sizes DEF PlacesFrom, PtrSlots
        <5>2. w[1] = q => w[2] # i
          BY <4>3, <5>1
        <5>3. w[1] = q /\ i <= w[2] => i + 1 <= w[2]
          BY <2>1, <5>1, <5>2
        <5> QED BY <5>3 DEF PlacesFrom
      <4> QED BY <4>1, <4>2, <4>3
    <3>3. RefsFrom(live, pos, high, q, i) = rest \cup {ref}
      <4>1. /\ RefsFrom(live, pos, high, q, i) = {nodes[w[1]].ptrs[w[2]] : w \in here}
            /\ rest = {nodes[w[1]].ptrs[w[2]] : w \in there}
            /\ <<q, i>>[1] = q /\ <<q, i>>[2] = i
        BY DEF RefsFrom
      <4> HIDE DEF here, there, rest
      <4>2. ASSUME NEW v \in RefsFrom(live, pos, high, q, i) PROVE v \in rest \cup {ref}
        <5>1. PICK w \in here : v = nodes[w[1]].ptrs[w[2]]
          BY <4>1
        <5> QED BY <3>2, <4>1, <5>1
      <4>3. ASSUME NEW v \in rest \cup {ref} PROVE v \in RefsFrom(live, pos, high, q, i)
        <5>1. CASE v = ref
          BY <3>2, <4>1, <5>1
        <5>2. CASE v \in rest
          BY <3>2, <4>1, <5>2
        <5> QED BY <5>1, <5>2
      <4> QED BY <4>2, <4>3
    <3>4. ref \notin rest
      <4> SUFFICES ASSUME ref \in rest PROVE FALSE
        OBVIOUS
      <4>1. PICK w \in there : ref = nodes[w[1]].ptrs[w[2]]
        BY DEF RefsFrom
      <4>2. /\ w[1] \in leaves /\ w[2] \in PtrSlots /\ w[2] < nodes[w[1]].n_keys
            /\ pos[q] < pos[w[1]] \/ (w[1] = q /\ i + 1 <= w[2])
        BY DEF PlacesFrom
      <4>3. w[2] \in Nat
        BY <4>2, Sizes DEF PtrSlots
      <4>4. nodes[w[1]].n_keys \in Nat
        BY <1>1, <4>2, NodeFields DEF TypeInv, NodesInv
      <4>5. w[2] \in 0 .. nodes[w[1]].n_keys - 1
        BY <4>2, <4>3, <4>4
      <4>6. q = w[1] /\ i = w[2]
        BY <2>1, <4>1, <4>2, <4>5 DEF Unique
      <4> QED BY <1>4, <2>1, <4>2, <4>3, <4>6
    <3> HIDE DEF ref, rest
    <3>5. Lists(<<ref>> \o Along(high)[<<q, i + 1>>], rest \cup {ref})
      BY <2>2, <3>4, ListWithOneMore
    <3>6. Lists(Along(high)[<<q, i>>], RefsFrom(live, pos, high, q, i))
      BY <3>1, <3>3, <3>5
    <3> QED BY <1>2, <3>6 DEF i
  <2>5. CASE ~evaluate(high, nodes[q].keys[i])
    <3>1. Along(high)[<<q, i>>] = <<>>
      <4>1. i # n
        BY <1>2, <2>1
      <4> QED BY ONLY <1>7, <2>1, <2>5, <4>1, Zenon
    <3>2. PlacesFrom(live, pos, high, q, i) = {}
      <4> SUFFICES ASSUME NEW w \in PlacesFrom(live, pos, high, q, i) PROVE FALSE
        OBVIOUS
      <4>1. /\ w[1] \in leaves /\ w[2] \in PtrSlots /\ w[2] < nodes[w[1]].n_keys
            /\ evaluate(high, nodes[w[1]].keys[w[2]])
            /\ pos[q] < pos[w[1]] \/ (w[1] = q /\ i <= w[2])
        BY DEF PlacesFrom
      <4>2. nodes[w[1]].keys[w[2]] \in KeysIn(nodes[w[1]]) /\ nodes[w[1]].keys[w[2]] \in Int
        BY <1>3, <4>1
      <4>3. nodes[q].keys[i] <= nodes[w[1]].keys[w[2]]
        <5>1. CASE pos[q] < pos[w[1]]
          BY <1>5, <2>3, <4>1, <4>2, <5>1
        <5>2. CASE w[1] = q /\ i <= w[2]
          <6>1. w[2] \in 0 .. n - 1
            BY <1>2, <4>1, <5>2, Sizes DEF PtrSlots
          <6> QED BY <1>6, <2>1, <5>2, <6>1
        <5> QED BY <4>1, <5>1, <5>2
      <4> QED BY <2>3, <2>5, <4>1, <4>2, <4>3 DEF IsCeiling
    <3>3. RefsFrom(live, pos, high, q, i) = {}
      BY <3>2 DEF RefsFrom
    <3>4. Lists(<<>>, {})
      BY DEF Lists
    <3>5. Lists(Along(high)[<<q, i>>], RefsFrom(live, pos, high, q, i))
      BY <3>1, <3>3, <3>4
    <3> QED BY <1>2, <3>5 DEF i
  <2> QED BY <2>4, <2>5
<1> HIDE DEF good
<1>10. \A k \in 0 .. n : k \in good
  BY <1>2, <1>8, <1>9, SetInduction
<1>11. ASSUME NEW i \in 0 .. n PROVE Lists(Along(high)[<<q, i>>], RefsFrom(live, pos, high, q, i))
  <2>1. n - i \in 0 .. n /\ n - (n - i) = i
    BY <1>2
  <2>2. n - i \in good
    BY <1>10, <2>1
  <2>3. Lists(Along(high)[<<q, n - (n - i)>>], RefsFrom(live, pos, high, q, n - (n - i)))
    BY <2>2 DEF good
  <2> QED BY <2>1, <2>3
<1> QED BY <1>11

\* From any place the search gives every pointer whose key is not too high, once.
LEMMA AlongLists ==
  ASSUME TypeInv, NEW live, NEW height, NEW allowed, IsTree(nodes, live, height, allowed),
         NEW level, NEW first, NEW last, IsChained(nodes, live, level, first, last),
         NEW m, NEW pos, IsPlaced(nodes, live, first, last, m, pos),
         NEW high, IsCeiling(high), Unique(nodes, live)
  PROVE  \A q \in LeavesIn(nodes, live) : \A i \in 0 .. nodes[q].n_keys :
           Lists(Along(high)[<<q, i>>], RefsFrom(live, pos, high, q, i))
<1> DEFINE leaves == LeavesIn(nodes, live)
           Listed(q) == \A i \in 0 .. nodes[q].n_keys :
                          Lists(Along(high)[<<q, i>>], RefsFrom(live, pos, high, q, i))
           good == {d \in 0 .. m : \A q \in leaves : m - pos[q] <= d => Listed(q)}
<1>1. leaves \in SUBSET NodeIds
  BY DEF IsTree, Hangs, LeavesIn
<1>2. /\ m \in Nat /\ \A q \in leaves : pos[q] \in 1 .. m
      /\ \A q, r \in leaves : pos[q] = pos[r] => q = r
      /\ \A q \in leaves :
           IF pos[q] = m THEN Link(nodes, q) = NULL_PAGE
           ELSE Link(nodes, q) \in leaves /\ pos[Link(nodes, q)] = pos[q] + 1
  BY DEF IsPlaced
<1>3. NULL_PAGE \notin leaves
  BY <1>1, Sizes DEF NULL_PAGE
<1>4. \A q \in leaves : nodes[q].n_keys \in Nat /\ nodes[q].n_keys \in PtrSlots /\ 0 \in PtrSlots
  <2> SUFFICES ASSUME NEW q \in leaves
               PROVE  nodes[q].n_keys \in Nat /\ nodes[q].n_keys \in PtrSlots /\ 0 \in PtrSlots
    OBVIOUS
  <2>1. nodes[q] \in NodeType
    BY <1>1 DEF TypeInv, NodesInv
  <2>2. nodes[q].n_keys \in Nat /\ nodes[q].n_keys <= 2 * min_degree - 1
    BY <2>1, NodeFields
  <2> QED BY <2>2, Sizes DEF PtrSlots
<1>5. ASSUME NEW q \in leaves PROVE
           Along(high)[<<q, nodes[q].n_keys>>] =
             IF Link(nodes, q) # NULL_PAGE THEN Along(high)[<<Link(nodes, q), 0>>] ELSE <<>>
  <2>1. PICK top \in Nat : \E far : Falls(far, top)
    BY LinksFall
  <2>2. PICK far : Falls(far, top)
    BY <2>1
  <2>3. PICK n : n = nodes[q].n_keys
    OBVIOUS
  <2>4. n \in PtrSlots /\ q \in NodeIds /\ n \in Nat /\ ~(n < n)
    BY <1>1, <1>4, <2>3
  <2>5. Along(high)[<<q, n>>] =
             IF n < nodes[q].n_keys /\ evaluate(high, nodes[q].keys[n])
               THEN <<nodes[q].ptrs[n]>> \o Along(high)[<<q, n + 1>>]
             ELSE IF n = nodes[q].n_keys /\ nodes[q].ptrs[n] # NULL_PAGE
               THEN Along(high)[<<nodes[q].ptrs[n], 0>>]
             ELSE <<>>
    BY <2>2, <2>4, AlongAt
  <2> QED BY <2>3, <2>4, <2>5 DEF Link
<1>6. ASSUME NEW q \in leaves,
             Link(nodes, q) # NULL_PAGE => Listed(Link(nodes, q))
      PROVE  Listed(q)
  <2> DEFINE n == nodes[q].n_keys
             here == PlacesFrom(live, pos, high, q, n)
  <2>1. \A w \in here : w[1] \in leaves /\ pos[q] < pos[w[1]]
    <3> SUFFICES ASSUME NEW w \in here PROVE w[1] \in leaves /\ pos[q] < pos[w[1]]
      OBVIOUS
    <3>1. /\ w[1] \in leaves /\ w[2] \in PtrSlots /\ w[2] < nodes[w[1]].n_keys
          /\ pos[q] < pos[w[1]] \/ (w[1] = q /\ n <= w[2])
      BY DEF PlacesFrom
    <3>2. w[2] \in Nat /\ n \in Nat
      BY <1>4, <3>1, Sizes DEF PtrSlots
    <3>3. w[1] = q => ~(n <= w[2])
      BY <3>1, <3>2
    <3> QED BY <3>1, <3>3
  <2>2. Lists(Along(high)[<<q, n>>], RefsFrom(live, pos, high, q, n))
    <3>1. CASE pos[q] = m
      <4>1. Along(high)[<<q, n>>] = <<>>
        BY <1>2, <1>5, <3>1
      <4>2. here = {}
        <5> SUFFICES ASSUME NEW w \in here PROVE FALSE
          OBVIOUS
        <5>1. w[1] \in leaves /\ pos[q] < pos[w[1]]
          BY <2>1
        <5>2. pos[w[1]] \in 1 .. m
          BY <1>2, <5>1
        <5> QED BY <1>2, <3>1, <5>1, <5>2
      <4>3. RefsFrom(live, pos, high, q, n) = {}
        BY <4>2 DEF RefsFrom
      <4>4. Lists(<<>>, {})
        BY DEF Lists
      <4> QED BY <4>1, <4>3, <4>4
    <3>2. CASE pos[q] # m
      <4>1. PICK r : r = Link(nodes, q)
        OBVIOUS
      <4>2. r \in leaves /\ pos[r] = pos[q] + 1 /\ r # NULL_PAGE
        BY <1>2, <1>3, <3>2, <4>1
      <4>3. Along(high)[<<q, n>>] = Along(high)[<<r, 0>>]
        BY <1>5, <4>1, <4>2
      <4>4. 0 \in 0 .. nodes[r].n_keys
        BY <1>4, <4>2
      <4>5. Lists(Along(high)[<<r, 0>>], RefsFrom(live, pos, high, r, 0))
        BY <1>6, <4>1, <4>2, <4>4
      <4>6. here = PlacesFrom(live, pos, high, r, 0)
        <5>1. ASSUME NEW w \in here PROVE w \in PlacesFrom(live, pos, high, r, 0)
          <6>1. w[1] \in leaves /\ w[2] \in PtrSlots /\ w[2] < nodes[w[1]].n_keys
                /\ evaluate(high, nodes[w[1]].keys[w[2]]) /\ w \in LeavesIn(nodes, live) \X PtrSlots
            BY DEF PlacesFrom
          <6>2. pos[q] < pos[w[1]] /\ pos[q] \in Nat /\ pos[w[1]] \in Nat
            BY <1>2, <2>1, <6>1
          <6>3. pos[r] < pos[w[1]] \/ pos[r] = pos[w[1]]
            BY <4>2, <6>2
          <6>4. pos[r] < pos[w[1]] \/ w[1] = r
            BY <1>2, <4>2, <6>1, <6>3
          <6>5. 0 <= w[2]
            BY <6>1, Sizes DEF PtrSlots
          <6> QED BY <6>1, <6>4, <6>5 DEF PlacesFrom
        <5>2. ASSUME NEW w \in PlacesFrom(live, pos, high, r, 0) PROVE w \in here
          <6>1. w[1] \in leaves /\ w[2] \in PtrSlots /\ w[2] < nodes[w[1]].n_keys
                /\ evaluate(high, nodes[w[1]].keys[w[2]]) /\ w \in LeavesIn(nodes, live) \X PtrSlots
                /\ (pos[r] < pos[w[1]] \/ w[1] = r)
            BY DEF PlacesFrom
          <6>2. pos[q] \in Nat /\ pos[w[1]] \in Nat
            BY <1>2, <6>1
          <6>3. pos[q] < pos[w[1]]
            BY <4>2, <6>1, <6>2
          <6> QED BY <6>1, <6>3 DEF PlacesFrom
        <5> QED BY <5>1, <5>2
      <4> QED BY <4>3, <4>5, <4>6 DEF RefsFrom
    <3> QED BY <3>1, <3>2
  <2> QED BY <2>2, AlongLeaf
<1> HIDE DEF leaves, Listed
<1>7. 0 \in good
  <2>1. ASSUME NEW q \in leaves, m - pos[q] <= 0 PROVE Listed(q)
    <3>1. pos[q] = m
      BY <1>2, <2>1
    <3> QED BY <1>2, <1>6, <3>1
  <2> QED BY <1>2, <2>1
<1>8. ASSUME NEW d \in 0 .. m - 1, d \in good PROVE d + 1 \in good
  <2>1. ASSUME NEW q \in leaves, m - pos[q] <= d + 1 PROVE Listed(q)
    <3>1. CASE pos[q] = m
      BY <1>2, <1>6, <3>1
    <3>2. CASE pos[q] # m
      <4>1. Link(nodes, q) \in leaves /\ pos[Link(nodes, q)] = pos[q] + 1 /\ pos[q] \in 1 .. m
        BY <1>2, <3>2
      <4>2. m - pos[Link(nodes, q)] <= d
        BY <1>2, <2>1, <4>1
      <4>3. Listed(Link(nodes, q))
        BY <1>8, <4>1, <4>2
      <4> QED BY <1>6, <4>3
    <3> QED BY <3>1, <3>2
  <2>2. d + 1 \in 0 .. m
    BY <1>2
  <2> QED BY <2>1, <2>2
<1> HIDE DEF good
<1>9. \A d \in 0 .. m : d \in good
  BY <1>2, <1>7, <1>8, SetInduction
<1>10. m \in good
  BY <1>2, <1>9
<1>11. ASSUME NEW q \in leaves PROVE Listed(q)
  <2>1. pos[q] \in 1 .. m /\ m - pos[q] <= m
    BY <1>2
  <2> QED BY <1>10, <2>1 DEF good
<1> QED BY <1>11 DEF leaves, Listed

\* As many as the members of a set that the listed values tell apart.
LEMMA ListCounts ==
  ASSUME NEW S, NEW s, Lists(s, S), NEW W, S = {e[2] : e \in W},
         \A e, g \in W : e[2] = g[2] => e = g
  PROVE  Len(s) = Cardinality(W)
<1> DEFINE n == Len(s)
           f == [h \in 1 .. n |-> CHOOSE e \in W : e[2] = s[h]]
<1>1. s \in Seq(S) /\ n \in Nat /\ \A h \in 1 .. n : s[h] \in S
  BY DEF Lists
<1> HIDE DEF n
<1>2. \A h \in 1 .. n : f[h] \in W /\ f[h][2] = s[h]
  <2> SUFFICES ASSUME NEW h \in 1 .. n PROVE f[h] \in W /\ f[h][2] = s[h]
    OBVIOUS
  <2>1. PICK e \in W : e[2] = s[h]
    BY <1>1
  <2>2. f[h] = CHOOSE d \in W : d[2] = s[h]
    OBVIOUS
  <2> HIDE DEF f
  <2> QED BY <2>1, <2>2, Zenon
<1>3. f \in [1 .. n -> W]
  BY <1>2
<1> HIDE DEF f
<1>4. \A h, l \in 1 .. n : f[h] = f[l] => h = l
  <2>1. \A h, l \in 1 .. n : s[h] = s[l] => h = l
    BY DEF Lists, n
  <2> QED BY <1>2, <2>1
<1>5. \A e \in W : \E h \in 1 .. n : f[h] = e
  <2> SUFFICES ASSUME NEW e \in W PROVE \E h \in 1 .. n : f[h] = e
    OBVIOUS
  <2>1. e[2] \in S
    OBVIOUS
  <2>2. PICK h \in 1 .. n : s[h] = e[2]
    BY <2>1 DEF Lists, n
  <2> QED BY <1>2, <2>2
<1>6. f \in Injection(1 .. n, W) /\ f \in Surjection(1 .. n, W)
  BY <1>3, <1>4, <1>5 DEF Injection, Surjection, IsInjective
<1>7. IsFiniteSet(1 .. n) /\ Cardinality(1 .. n) = n
  <2>1. 1 \in Int /\ n \in Int
    BY <1>1
  <2>2. /\ IsFiniteSet(1 .. n)
        /\ Cardinality(1 .. n) = IF 1 > n THEN 0 ELSE n - 1 + 1
    BY <2>1, FS_Interval
  <2> QED BY <1>1, <2>2
<1>8. Cardinality(W) = Cardinality(1 .. n)
  BY <1>6, <1>7, FS_Surjection
<1> QED BY <1>7, <1>8 DEF n

LEMMA TreeIsSearched ==
  ASSUME TypeInv, TreeInv, ChainInv, RefsInv
  PROVE  SearchIsExact
<1>1. PICK live, height, allowed : IsTree(nodes, live, height, allowed)
  BY Zenon DEF TreeInv
<1>2. Live = live /\ Entries = EntriesIn(nodes, live) /\ Chained(nodes, live)
  BY <1>1, EntriesNow, ChainNow
<1>3. PICK level, first, last : IsChained(nodes, live, level, first, last)
  BY <1>2, Zenon DEF Chained
<1>4. PICK m, pos : IsPlaced(nodes, live, first, last, m, pos)
  BY <1>1, <1>3, LeavesPlaced
<1>5. Unique(nodes, live)
  BY <1>2 DEF RefsInv
<1> DEFINE leaves == LeavesIn(nodes, live)
<1>6. \A e : e \in Entries <=>
        \E r \in leaves : \E j \in 0 .. nodes[r].n_keys - 1 : e = <<nodes[r].keys[j], nodes[r].ptrs[j]>>
  BY <1>2 DEF EntriesIn, EntriesOf
<1>7. \A r \in leaves :
        /\ nodes[r] \in NodeType /\ nodes[r].n_keys \in Nat
        /\ \A j \in 0 .. nodes[r].n_keys - 1 :
             j \in PtrSlots /\ nodes[r].keys[j] \in KeysIn(nodes[r]) /\ nodes[r].keys[j] \in Int
        /\ \A j \in PtrSlots : j < nodes[r].n_keys => j \in 0 .. nodes[r].n_keys - 1
  <2> SUFFICES ASSUME NEW r \in leaves
               PROVE  /\ nodes[r] \in NodeType /\ nodes[r].n_keys \in Nat
                      /\ \A j \in 0 .. nodes[r].n_keys - 1 :
                           j \in PtrSlots /\ nodes[r].keys[j] \in KeysIn(nodes[r]) /\ nodes[r].keys[j] \in Int
                      /\ \A j \in PtrSlots : j < nodes[r].n_keys => j \in 0 .. nodes[r].n_keys - 1
    OBVIOUS
  <2>1. nodes[r] \in NodeType
    BY <1>1 DEF IsTree, Hangs, LeavesIn, TypeInv, NodesInv
  <2>2. /\ nodes[r].n_keys \in Nat /\ nodes[r].n_keys <= 2 * min_degree - 1
        /\ \A j \in 0 .. nodes[r].n_keys - 1 : nodes[r].keys[j] \in Int
    BY <2>1, KeysAreNumbers
  <2> QED BY <2>1, <2>2, Sizes DEF KeysIn, PtrSlots
<1>8. \A r \in leaves : \A i, j \in 0 .. nodes[r].n_keys - 1 :
        i <= j => nodes[r].keys[i] <= nodes[r].keys[j]
  BY <1>1 DEF IsTree, Parts, InOrder, LeavesIn
<1>9. \A q, r \in leaves : pos[q] \in Nat /\ (pos[q] = pos[r] => q = r)
  BY <1>4 DEF IsPlaced
<1>10. ASSUME NEW comp \in SearchedRanges
       PROVE  LET found == search(comp)
                  wanted == {e \in Entries : evaluate(comp, e[1])}
              IN  /\ {found[i] : i \in DOMAIN found} = {e[2] : e \in wanted}
                  /\ Len(found) = Cardinality(wanted)
  <2>1. PICK low, high : low = get_low(comp) /\ high = get_high(comp)
    OBVIOUS
  <2>2. /\ IsFloor(low) /\ IsCeiling(high)
        /\ \A key \in Int : evaluate(comp, key) <=> evaluate(low, key) /\ evaluate(high, key)
    BY <2>1, BoundsOfRange
  <2>3. PICK L : L = Seek(low)[root_id]
    OBVIOUS
  <2>4. /\ L \in leaves
        /\ \A q \in leaves : \A k \in KeysIn(nodes[q]) :
             /\ pos[q] < pos[L] => ~evaluate(low, k)
             /\ pos[L] < pos[q] => evaluate(low, k)
    BY <1>1, <1>3, <1>4, <2>2, <2>3, SeekParts
  <2>5. PICK i : i = FirstIndex(nodes[L], low)
    OBVIOUS
  <2>6. /\ i \in 0 .. nodes[L].n_keys
        /\ i = nodes[L].n_keys \/ evaluate(low, nodes[L].keys[i])
        /\ \A j \in 0 .. i - 1 : ~evaluate(low, nodes[L].keys[j])
    <3>1. nodes[L] \in NodeType
      BY <1>7, <2>4
    <3>2. PICK x : x = nodes[L]
      OBVIOUS
    <3>3. LET k == FirstIndex(x, low)
          IN  /\ k \in 0 .. x.n_keys
              /\ k = x.n_keys \/ evaluate(low, x.keys[k])
              /\ \A j \in 0 .. k - 1 : ~evaluate(low, x.keys[j])
      BY <3>1, <3>2, FirstIndexFacts
    <3> QED BY <2>5, <3>2, <3>3
  <2> DEFINE found == search(comp)
             refs == RefsFrom(live, pos, high, L, i)
             wanted == {e \in Entries : evaluate(comp, e[1])}
  <2>7. found = Along(high)[<<L, i>>]
    BY <2>1, <2>3, <2>5, SearchMeans, Zenon
  <2>8. Lists(found, refs)
    BY <1>1, <1>3, <1>4, <1>5, <2>2, <2>4, <2>6, <2>7, AlongLists
  <2> HIDE DEF found
  <2>9. ASSUME NEW r \in leaves, NEW j \in 0 .. nodes[r].n_keys - 1
        PROVE  evaluate(low, nodes[r].keys[j]) <=> pos[L] < pos[r] \/ (r = L /\ i <= j)
    <3>1. nodes[r].keys[j] \in KeysIn(nodes[r]) /\ nodes[r].keys[j] \in Int
      BY <1>7
    <3>2. CASE pos[r] < pos[L]
      <4>1. ~(pos[L] < pos[r]) /\ r # L
        BY <1>9, <2>4, <3>2
      <4>2. ~evaluate(low, nodes[r].keys[j])
        BY <2>4, <3>1, <3>2
      <4> QED BY <4>1, <4>2
    <3>3. CASE pos[L] < pos[r]
      BY <2>4, <3>1, <3>3
    <3>4. CASE r = L
      <4>1. ~(pos[L] < pos[r])
        BY <1>9, <3>4
      <4>2. CASE i <= j
        <5>1. i \in 0 .. nodes[L].n_keys - 1 /\ i # nodes[L].n_keys
          BY <1>7, <2>4, <2>6, <3>4, <4>2
        <5>2. evaluate(low, nodes[L].keys[i]) /\ nodes[L].keys[i] \in Int
          BY <1>7, <2>4, <2>6, <5>1
        <5>3. nodes[L].keys[i] <= nodes[L].keys[j]
          BY <1>8, <2>4, <3>4, <4>2, <5>1
        <5>4. evaluate(low, nodes[L].keys[j])
          BY <2>2, <3>1, <3>4, <5>2, <5>3 DEF IsFloor
        <5> QED BY <3>4, <4>2, <5>4
      <4>3. CASE ~(i <= j)
        <5>1. j \in 0 .. i - 1
          BY <1>7, <2>4, <2>6, <3>4, <4>3
        <5>2. ~evaluate(low, nodes[L].keys[j])
          BY <2>6, <5>1
        <5> QED BY <3>4, <4>1, <4>3, <5>2
      <4> QED BY <4>2, <4>3
    <3>5. pos[r] \in Nat /\ pos[L] \in Nat /\ (pos[r] = pos[L] => r = L)
      BY <1>9, <2>4
    <3> QED BY <3>2, <3>3, <3>4, <3>5
  <2>10. refs = {e[2] : e \in wanted}
    <3>1. ASSUME NEW ref \in refs PROVE ref \in {e[2] : e \in wanted}
      <4>1. PICK w \in PlacesFrom(live, pos, high, L, i) : ref = nodes[w[1]].ptrs[w[2]]
        BY DEF RefsFrom
      <4>2. /\ w[1] \in leaves /\ w[2] \in PtrSlots /\ w[2] < nodes[w[1]].n_keys
            /\ evaluate(high, nodes[w[1]].keys[w[2]])
            /\ pos[L] < pos[w[1]] \/ (w[1] = L /\ i <= w[2])
        BY DEF PlacesFrom
      <4>3. PICK r, j : r = w[1] /\ j = w[2]
        OBVIOUS
      <4>4. /\ r \in leaves /\ j \in 0 .. nodes[r].n_keys - 1 /\ nodes[r].keys[j] \in Int
            /\ evaluate(high, nodes[r].keys[j]) /\ ref = nodes[r].ptrs[j]
        BY <1>7, <4>1, <4>2, <4>3
      <4>5. evaluate(low, nodes[r].keys[j])
        BY <2>9, <4>2, <4>3, <4>4
      <4>6. evaluate(comp, nodes[r].keys[j])
        BY <2>2, <4>4, <4>5
      <4> DEFINE e == <<nodes[r].keys[j], nodes[r].ptrs[j]>>
      <4>7. e \in Entries /\ e[1] = nodes[r].keys[j] /\ e[2] = ref
        BY <1>6, <4>4
      <4> HIDE DEF e
      <4>8. e \in wanted
        BY <4>6, <4>7
      <4> QED BY <4>7, <4>8
    <3>2. ASSUME NEW e \in wanted PROVE e[2] \in refs
      <4>1. PICK r \in leaves : \E j \in 0 .. nodes[r].n_keys - 1 : e = <<nodes[r].keys[j], nodes[r].ptrs[j]>>
        BY <1>6
      <4>2. PICK j \in 0 .. nodes[r].n_keys - 1 : e = <<nodes[r].keys[j], nodes[r].ptrs[j]>>
        BY <4>1
      <4>3. /\ e[1] = nodes[r].keys[j] /\ e[2] = nodes[r].ptrs[j] /\ nodes[r].keys[j] \in Int
            /\ j \in PtrSlots /\ nodes[r].n_keys \in Nat /\ j < nodes[r].n_keys
        BY <1>7, <4>2
      <4>4. evaluate(low, nodes[r].keys[j]) /\ evaluate(high, nodes[r].keys[j])
        BY <2>2, <4>3
      <4>5. pos[L] < pos[r] \/ (r = L /\ i <= j)
        BY <2>9, <4>4
      <4> DEFINE w == <<r, j>>
      <4>6. w[1] = r /\ w[2] = j /\ w \in LeavesIn(nodes, live) \X PtrSlots
        BY <4>3
      <4> HIDE DEF w
      <4>7. w \in PlacesFrom(live, pos, high, L, i)
        BY <4>3, <4>4, <4>5, <4>6 DEF PlacesFrom
      <4> QED BY <4>3, <4>6, <4>7 DEF RefsFrom
    <3> QED BY <3>1, <3>2
  <2>11. \A e, g \in wanted : e[2] = g[2] => e = g
    <3> SUFFICES ASSUME NEW e \in wanted, NEW g \in wanted, e[2] = g[2] PROVE e = g
      OBVIOUS
    <3>1. PICK r \in leaves : \E j \in 0 .. nodes[r].n_keys - 1 : e = <<nodes[r].keys[j], nodes[r].ptrs[j]>>
      BY <1>6
    <3>2. PICK j \in 0 .. nodes[r].n_keys - 1 : e = <<nodes[r].keys[j], nodes[r].ptrs[j]>>
      BY <3>1
    <3>3. PICK q \in leaves : \E l \in 0 .. nodes[q].n_keys - 1 : g = <<nodes[q].keys[l], nodes[q].ptrs[l]>>
      BY <1>6
    <3>4. PICK l \in 0 .. nodes[q].n_keys - 1 : g = <<nodes[q].keys[l], nodes[q].ptrs[l]>>
      BY <3>3
    <3>5. nodes[r].ptrs[j] = nodes[q].ptrs[l]
      BY <3>2, <3>4
    <3>6. r = q /\ j = l
      BY <1>5, <3>5 DEF Unique
    <3> QED BY <3>2, <3>4, <3>6
  <2> HIDE DEF wanted, refs
  <2>12. Len(found) = Cardinality(wanted)
    BY <2>8, <2>10, <2>11, ListCounts
  <2>13. {found[h] : h \in DOMAIN found} = refs
    <3>1. DOMAIN found = 1 .. Len(found) /\ \A h \in 1 .. Len(found) : found[h] \in refs
      BY <2>8 DEF Lists
    <3>2. \A v \in refs : \E h \in 1 .. Len(found) : found[h] = v
      BY <2>8 DEF Lists
    <3> QED BY <3>1, <3>2
  <2> QED BY <2>10, <2>12, <2>13 DEF found, wanted
<1> QED BY <1>10, Zenon DEF SearchIsExact

\* Whatever was inserted, removed or cut short before, a search for a range gives every entry
\* in it, once, and nothing else, unless a removal met a key past the others.
THEOREM TreeSearchIsExact == RegularSpec => []SearchIsExact
<1>1. TypeInv /\ TreeInv /\ ChainInv /\ IndexInv => SearchIsExact
  BY TreeIsSearched DEF IndexInv
<1> QED BY <1>1, RegularTreeChained, PTL
=============================================================================
