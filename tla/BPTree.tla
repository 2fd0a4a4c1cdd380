------------------------------- MODULE BPTree --------------------------------
(***************************************************************************)
(* The B+ tree index (src/src/megatron/bptree): nodes on pages, split on   *)
(* the way down, leaves linked from left to right.                         *)
(*                                                                         *)
(* A node in memory is a copy of its page, written back when it is         *)
(* unloaded dirty.  Between two loads nothing else runs, so a step here    *)
(* goes from one load that may fail to the next.  A failed load (every     *)
(* frame pinned, no block left) ends the operation where it is.            *)
(***************************************************************************)
EXTENDS Conditions, FiniteSets

CONSTANTS
  min_degree,
  Keys,         \* the keys, in their order
  MaxNodes,     \* bound of the model: pages for nodes
  MaxInserts,   \* bound of the model: records ever indexed
  MaxFailures   \* bound of the model: no operation begins after so many ended early

ASSUME BPTreeAssumption ==
  /\ min_degree \in Nat /\ min_degree >= 2
  /\ Keys \subseteq Int
  /\ MaxNodes \in Nat \ {0} /\ MaxInserts \in Nat /\ MaxFailures \in Nat

VARIABLES
  nodes,      \* what the page of every node holds
  allocated,  \* the pages given to the tree
  pins,       \* the pins the tree has on every page
  op,         \* the operation under way
  inserts,    \* how many records were indexed
  failures    \* how many operations ended early, with pages pinned

vars == <<nodes, allocated, pins, op, inserts, failures>>

NodeIds == 1 .. MaxNodes

\* The root stays on its page for ever.
root_id == 1

NULL_PAGE == 0

\* Pointers to records, told from those to nodes; the slot goes with the page.
Refs == MaxNodes + 1 .. MaxNodes + MaxInserts

KeySlots == 0 .. 2 * min_degree - 2
PtrSlots == 0 .. 2 * min_degree - 1

\* What the arrays of a new node hold.
EmptyKey == 0

EmptyNode ==
  [is_leaf |-> TRUE, n_keys |-> 0,
   keys |-> [j \in KeySlots |-> EmptyKey], ptrs |-> [j \in PtrSlots |-> NULL_PAGE]]

Idle == [kind |-> "none"]

Full(x) == x.n_keys = 2 * min_degree - 1

\* Faulty: below zero.
UnpinnedTwice(counts, p) == [counts EXCEPT ![p] = @ - 1]

\* free_unpin_page stops at zero.
Unpinned(counts, p) == [counts EXCEPT ![p] = IF @ > 0 THEN @ - 1 ELSE @]

Pinned(counts, p) == [counts EXCEPT ![p] = @ + 1]
-----------------------------------------------------------------------------
(* Nodes.                                                                  *)

\* Where an insertion of key goes in x: after the last key that is not above it.
UpperIndex(x, key) ==
  CHOOSE i \in 0 .. x.n_keys :
    /\ i = 0 \/ key >= x.keys[i - 1]
    /\ \A j \in i .. x.n_keys - 1 : key < x.keys[j]

\* Faulty: past the keys equal to it.
LowerIndexPastEquals(x, key) ==
  CHOOSE i \in 0 .. x.n_keys :
    /\ i = x.n_keys \/ key < x.keys[i]
    /\ \A j \in 0 .. i - 1 : key >= x.keys[j]

\* Where a search or a removal of key goes in x: to the first key not below it.
LowerIndex(x, key) ==
  CHOOSE i \in 0 .. x.n_keys :
    /\ i = x.n_keys \/ key <= x.keys[i]
    /\ \A j \in 0 .. i - 1 : key > x.keys[j]

\* An array with a place opened at i for a new value; what follows moves up, to last.
Opened(array, i, last, value) ==
  [j \in DOMAIN array |->
     IF j = i THEN value ELSE IF j \in i + 1 .. last THEN array[j - 1] ELSE array[j]]

\* insert_non_full in a leaf.
WithEntry(x, key, ref) ==
  LET i == UpperIndex(x, key)
  IN  [x EXCEPT !.keys = Opened(@, i, x.n_keys, key),
                !.ptrs = Opened(@, i, x.n_keys + 1, ref),
                !.n_keys = @ + 1]

\* Faulty: the left half is not linked to the right one.
LeftHalfUnlinked(y, z_id) == [y EXCEPT !.n_keys = min_degree - 1]

\* split_child leaves min_degree - 1 keys in y.
LeftHalf(y, z_id) ==
  [y EXCEPT !.n_keys = min_degree - 1,
            !.ptrs = IF y.is_leaf THEN [@ EXCEPT ![min_degree - 1] = z_id] ELSE @]

\* Faulty: the separator moves up from a leaf as it does from an inner node.
RightHalfAboveSeparator(y) ==
  [is_leaf |-> y.is_leaf, n_keys |-> min_degree - 1,
   keys |-> [j \in KeySlots |-> IF j < min_degree - 1 THEN y.keys[j + min_degree] ELSE EmptyKey],
   ptrs |-> [j \in PtrSlots |-> IF j < min_degree THEN y.ptrs[j + min_degree] ELSE NULL_PAGE]]

\* The rest goes to z: min_degree keys of a leaf, the first of them also being the
\* separator; one less of an inner node, where the separator moves up.
RightHalf(y) ==
  LET n == IF y.is_leaf THEN min_degree ELSE min_degree - 1
      from == 2 * min_degree - 1 - n
  IN  [is_leaf |-> y.is_leaf, n_keys |-> n,
       keys |-> [j \in KeySlots |-> IF j < n THEN y.keys[j + from] ELSE EmptyKey],
       ptrs |-> [j \in PtrSlots |-> IF j <= n THEN y.ptrs[j + from] ELSE NULL_PAGE]]

\* x with the separator in i and the new child after it.
WithChild(x, i, separator, z_id) ==
  [x EXCEPT !.keys = Opened(@, i, x.n_keys, separator),
            !.ptrs = Opened(@, i + 1, x.n_keys + 1, z_id),
            !.n_keys = @ + 1]

\* The pages after split_child(x, i), x being on page x_id.
SplitChild(x, x_id, i, z_id) ==
  LET y == nodes[x.ptrs[i]]
  IN  [nodes EXCEPT ![x.ptrs[i]] = LeftHalf(y, z_id),
                    ![z_id] = RightHalf(y),
                    ![x_id] = WithChild(x, i, y.keys[min_degree - 1], z_id)]

\* remove in a leaf: the entries after i move down, and the pointer after them.
WithoutEntry(x, i) ==
  LET last == IF i < x.n_keys - 1 THEN x.n_keys - 1 ELSE i
  IN  [x EXCEPT !.keys = [j \in KeySlots |-> IF j \in i .. last - 1 THEN @[j + 1] ELSE @[j]],
                !.ptrs = [j \in PtrSlots |-> IF j \in i .. last THEN @[j + 1] ELSE @[j]],
                !.n_keys = @ - 1]
-----------------------------------------------------------------------------
(* Searching.                                                              *)

\* The leaf a removal of key comes to.
LeafFor(key) ==
  LET descend[p \in NodeIds] ==
        IF nodes[p].is_leaf THEN p
        ELSE descend[nodes[p].ptrs[LowerIndex(nodes[p], key)]]
  IN  descend[root_id]

\* Where a search goes in x: to the first key that is not too low.
FirstIndex(x, low) ==
  CHOOSE i \in 0 .. x.n_keys :
    /\ i = x.n_keys \/ evaluate(low, x.keys[i])
    /\ \A j \in 0 .. i - 1 : ~evaluate(low, x.keys[j])

\* search: to the leaf of the lower bound, and along the leaves up to the upper one.
\* What comp says besides is not looked at.
search(comp) ==
  LET low == get_low(comp)
      high == get_high(comp)
      descend[p \in NodeIds] ==
        IF nodes[p].is_leaf THEN p ELSE descend[nodes[p].ptrs[FirstIndex(nodes[p], low)]]
      along[at \in NodeIds \X PtrSlots] ==
        LET x == nodes[at[1]]
            i == at[2]
        IN  IF i < x.n_keys /\ evaluate(high, x.keys[i])
              THEN <<x.ptrs[i]>> \o along[<<at[1], i + 1>>]
            ELSE IF i = x.n_keys /\ x.ptrs[i] # NULL_PAGE THEN along[<<x.ptrs[i], 0>>]
            ELSE <<>>
      leaf == descend[root_id]
  IN  along[<<leaf, FirstIndex(nodes[leaf], low)>>]
-----------------------------------------------------------------------------
(* Operations.                                                             *)

TypeOK ==
  /\ allocated \in SUBSET NodeIds
  /\ \A p \in NodeIds :
       /\ nodes[p].n_keys \in 0 .. 2 * min_degree - 1
       /\ nodes[p].keys \in [KeySlots -> Keys \cup {EmptyKey}]
       /\ nodes[p].ptrs \in [PtrSlots -> {NULL_PAGE} \cup NodeIds \cup Refs]
  /\ pins \in [NodeIds -> Nat]
  /\ op.kind \in {"none", "insert", "remove", "split_root"}
  /\ inserts \in 0 .. MaxInserts
  /\ failures \in 0 .. MaxFailures

\* add_index_to_table: a tree with an empty root.
Init ==
  /\ nodes = [p \in NodeIds |-> EmptyNode]
  /\ allocated = {root_id}
  /\ pins = [p \in NodeIds |-> 0]
  /\ op = Idle
  /\ inserts = 0
  /\ failures = 0

\* get_load_free_frame gives the first free page.
IsNewPage(p) == p \in NodeIds \ allocated /\ \A q \in NodeIds \ allocated : p <= q

BeginInsert(key) ==
  /\ op = Idle
  /\ inserts < MaxInserts
  /\ failures < MaxFailures
  /\ inserts' = inserts + 1
  /\ op' = [kind |-> IF Full(nodes[root_id]) THEN "split_root" ELSE "insert",
            key |-> key, ref |-> MaxNodes + inserts', at |-> root_id, copy |-> NULL_PAGE]
  /\ pins' = Pinned(pins, root_id)
  /\ UNCHANGED <<nodes, allocated, failures>>

\* split_root writes a copy of the root...
CopyRoot ==
  /\ op.kind = "split_root"
  /\ op.copy = NULL_PAGE
  /\ \E s \in NodeIds :
       /\ IsNewPage(s)
       /\ allocated' = allocated \cup {s}
       /\ nodes' = [nodes EXCEPT ![s] = nodes[root_id]]
       /\ op' = [op EXCEPT !.copy = s]
  /\ UNCHANGED <<pins, inserts, failures>>

\* ...and splits it as the only child of an empty root.  The root it gives back is
\* not pinned any more, and the insertion unpins it again.
SplitRoot ==
  /\ op.kind = "split_root"
  /\ op.copy # NULL_PAGE
  /\ \E z \in NodeIds :
       /\ IsNewPage(z)
       /\ allocated' = allocated \cup {z}
       /\ nodes' = SplitChild([nodes[root_id] EXCEPT !.is_leaf = FALSE, !.n_keys = 0,
                                                     !.ptrs = [@ EXCEPT ![0] = op.copy]],
                              root_id, 0, z)
  /\ pins' = Unpinned(pins, root_id)
  /\ op' = [op EXCEPT !.kind = "insert"]
  /\ UNCHANGED <<inserts, failures>>

InsertInLeaf ==
  /\ op.kind = "insert"
  /\ nodes[op.at].is_leaf
  /\ nodes' = [nodes EXCEPT ![op.at] = WithEntry(@, op.key, op.ref)]
  /\ pins' = Unpinned(pins, op.at)
  /\ op' = Idle
  /\ UNCHANGED <<allocated, inserts, failures>>

\* Faulty: the node above stays pinned.
PinsWithParent(parent, child) == Pinned(pins, child)

PinsBelow(parent, child) == Unpinned(Pinned(pins, child), parent)

InsertBelow ==
  /\ op.kind = "insert"
  /\ ~nodes[op.at].is_leaf
  /\ LET child == nodes[op.at].ptrs[UpperIndex(nodes[op.at], op.key)]
     IN  /\ ~Full(nodes[child])
         /\ pins' = PinsBelow(op.at, child)
         /\ op' = [op EXCEPT !.at = child]
  /\ UNCHANGED <<nodes, allocated, inserts, failures>>

\* Faulty: always into the left half.
LeftSide(key, separator, i) == i

\* A key equal to the separator goes left.
Side(key, separator, i) == IF key > separator THEN i + 1 ELSE i

\* The child is full.
SplitAndInsertBelow ==
  /\ op.kind = "insert"
  /\ ~nodes[op.at].is_leaf
  /\ LET i == UpperIndex(nodes[op.at], op.key)
     IN  /\ Full(nodes[nodes[op.at].ptrs[i]])
         /\ \E z \in NodeIds :
              /\ IsNewPage(z)
              /\ allocated' = allocated \cup {z}
              /\ nodes' = SplitChild(nodes[op.at], op.at, i, z)
         /\ LET x == nodes'[op.at]
                child == x.ptrs[Side(op.key, x.keys[i], i)]
            IN  /\ pins' = Unpinned(Pinned(pins, child), op.at)
                /\ op' = [op EXCEPT !.at = child]
  /\ UNCHANGED <<inserts, failures>>

BeginRemove(key) ==
  /\ op = Idle
  /\ failures < MaxFailures
  /\ op' = [kind |-> "remove", key |-> key, at |-> root_id]
  /\ pins' = Pinned(pins, root_id)
  /\ UNCHANGED <<nodes, allocated, inserts, failures>>

RemoveBelow ==
  /\ op.kind = "remove"
  /\ ~nodes[op.at].is_leaf
  /\ LET child == nodes[op.at].ptrs[LowerIndex(nodes[op.at], op.key)]
     IN  /\ pins' = PinsBelow(op.at, child)
         /\ op' = [op EXCEPT !.at = child]
  /\ UNCHANGED <<nodes, allocated, inserts, failures>>

\* A key that is not found ends the removal with the leaf pinned.  The key in place i is
\* compared even when i is past the last key: it is then what an earlier split or removal
\* left there.  Past the array, or with no key to take away, the code has no defined
\* outcome; the model goes no further there.
RemoveFromLeaf ==
  /\ op.kind = "remove"
  /\ nodes[op.at].is_leaf
  /\ LET x == nodes[op.at]
         i == LowerIndex(x, op.key)
     IN  /\ i \in KeySlots
         /\ \/ /\ op.key # x.keys[i]
               /\ failures' = failures + 1
               /\ UNCHANGED <<nodes, pins>>
            \/ /\ op.key = x.keys[i]
               /\ x.n_keys > 0
               /\ nodes' = [nodes EXCEPT ![op.at] = WithoutEntry(x, i)]
               /\ pins' = Unpinned(pins, op.at)
               /\ UNCHANGED failures
  /\ op' = Idle
  /\ UNCHANGED <<allocated, inserts>>

\* split_root just returned: the page to load next is still in the pool.
IsRootSplit == op.kind = "insert" /\ op.at = root_id /\ op.copy # NULL_PAGE

\* The loads that may fail: of a child, of a new page.  What is pinned stays so; when it
\* was the new page of a split, with the full child, which an insertion loads twice.
LoadFails ==
  /\ \/ /\ op.kind = "split_root"
        /\ pins' = IF op.copy = NULL_PAGE THEN pins ELSE Pinned(pins, op.copy)
     \/ /\ op.kind = "insert" /\ ~nodes[op.at].is_leaf /\ ~IsRootSplit
        /\ LET child == nodes[op.at].ptrs[UpperIndex(nodes[op.at], op.key)]
           IN  \/ UNCHANGED pins
               \/ Full(nodes[child]) /\ pins' = Pinned(Pinned(pins, child), child)
     \/ op.kind = "remove" /\ ~nodes[op.at].is_leaf /\ UNCHANGED pins
  /\ op' = Idle
  /\ failures' = failures + 1
  /\ UNCHANGED <<nodes, allocated, inserts>>
-----------------------------------------------------------------------------
\* A leaf's entries, and those of the tree below page p.
EntriesOf(x) == {<<x.keys[i], x.ptrs[i]>> : i \in 0 .. x.n_keys - 1}

Entries ==
  LET below[p \in NodeIds] ==
        IF nodes[p].is_leaf THEN EntriesOf(nodes[p])
        ELSE UNION {below[nodes[p].ptrs[i]] : i \in 0 .. nodes[p].n_keys}
  IN  below[root_id]

\* The removal of key ends at a place past the keys of its leaf that holds key.
MeetsStaleKey(key) ==
  LET x == nodes[LeafFor(key)]
      i == LowerIndex(x, key)
  IN  i = x.n_keys /\ (i \in KeySlots => x.keys[i] = key)

Step ==
  \/ CopyRoot
  \/ SplitRoot
  \/ InsertInLeaf
  \/ InsertBelow
  \/ SplitAndInsertBelow
  \/ RemoveBelow
  \/ RemoveFromLeaf
  \/ LoadFails

\* The keys removed are those of records just deleted, which have an entry here unless an
\* operation on the tree ended early.
HasRecord(key) == failures = 0 => \E e \in Entries : e[1] = key

Next ==
  \/ Step
  \/ \E key \in Keys :
       \/ BeginInsert(key)
       \/ HasRecord(key) /\ BeginRemove(key)

Spec == Init /\ [][Next]_vars

\* The same without the removals that take a place past the keys for an entry.
RegularNext ==
  \/ Step
  \/ \E key \in Keys :
       \/ BeginInsert(key)
       \/ /\ HasRecord(key)
          /\ ~MeetsStaleKey(key)
          /\ BeginRemove(key)

RegularSpec == Init /\ [][RegularNext]_vars
-----------------------------------------------------------------------------
(* Properties.                                                             *)

\* The nodes of the tree, from the root down.
Levels ==
  LET level[n \in 0 .. MaxNodes] ==
        IF n = 0 THEN {root_id}
        ELSE UNION {{nodes[p].ptrs[i] : i \in 0 .. nodes[p].n_keys} :
                      p \in {q \in level[n - 1] : ~nodes[q].is_leaf}}
  IN  [n \in 0 .. MaxNodes |-> level[n]]

\* Keys are in order in every node, and what is below a child lies between the two
\* separators next to it, those equal to one being allowed on both its sides.
SeparatorsHold ==
  LET bounded[p \in NodeIds] ==
        LET x == nodes[p]
            keysOf[q \in NodeIds] ==
              IF nodes[q].is_leaf THEN {nodes[q].keys[i] : i \in 0 .. nodes[q].n_keys - 1}
              ELSE UNION {keysOf[nodes[q].ptrs[i]] : i \in 0 .. nodes[q].n_keys}
        IN  /\ \A i \in 1 .. x.n_keys - 1 : x.keys[i - 1] <= x.keys[i]
            /\ ~x.is_leaf =>
                 \A i \in 0 .. x.n_keys :
                   /\ bounded[x.ptrs[i]]
                   /\ \A key \in keysOf[x.ptrs[i]] :
                        /\ i > 0 => x.keys[i - 1] <= key
                        /\ i < x.n_keys => key <= x.keys[i]
  IN  bounded[root_id]

\* The sequences of parts, one after the other.
Joined(parts, n) ==
  LET upTo[i \in 0 .. n] == (IF i = 0 THEN <<>> ELSE upTo[i - 1]) \o parts[i]
  IN  upTo[n]

\* All leaves are at one depth, and the links go through them from left to right and
\* end there.
LeavesInChain ==
  LET leaves[p \in NodeIds] ==
        IF nodes[p].is_leaf THEN <<p>>
        ELSE Joined([i \in 0 .. nodes[p].n_keys |-> leaves[nodes[p].ptrs[i]]], nodes[p].n_keys)
      order == leaves[root_id]
  IN  /\ \A n \in DOMAIN Levels : \A p, q \in Levels[n] : nodes[p].is_leaf <=> nodes[q].is_leaf
      /\ \A i \in DOMAIN order :
           nodes[order[i]].ptrs[nodes[order[i]].n_keys] =
             IF i < Len(order) THEN order[i + 1] ELSE NULL_PAGE

SearchedRanges == {comp \in Ranges(Keys) : is_index_worthy(comp)}

\* Whatever was inserted, removed or cut short before, a search for a range gives every
\* entry the condition is true of, once, and nothing else (search.cpp:5-67).
SearchIsExact ==
  op = Idle => \A comp \in SearchedRanges :
    LET found == search(comp)
        wanted == {e \in Entries : evaluate(comp, e[1])}
    IN  /\ {found[i] : i \in DOMAIN found} = {e[2] : e \in wanted}
        /\ Len(found) = Cardinality(wanted)

\* An operation that is not cut short gives back every pin it took.
PinsReturned == op = Idle /\ failures = 0 => \A p \in NodeIds : pins[p] = 0

\* What the tree was asked.
Request ==
  IF op = Idle THEN op
  ELSE IF op.kind = "remove" THEN [kind |-> "remove", key |-> op.key]
  ELSE [kind |-> "insert", key |-> op.key, ref |-> op.ref]

Store == INSTANCE IndexStore WITH entries <- Entries, request <- Request

\* The tree is an index: splits do not change what it holds, an insertion adds its
\* entry and a removal takes one with its key, and a failed operation changes nothing.
ImplementsIndex == Store!Spec

\* bpnode.hpp:14: the last pointer of a leaf is the one to the next leaf.
LastPointerIsSibling ==
  \A p \in allocated :
    nodes[p].is_leaf => nodes[p].ptrs[nodes[p].n_keys] \in NodeIds \cup {NULL_PAGE}
=============================================================================
