--------------------------- MODULE ExtendibleHash ----------------------------
(***************************************************************************)
(* The extendible hash index (src/src/megatron/hashes): a directory of     *)
(* buckets, doubled as buckets split, and chains of overflow buckets for   *)
(* keys no split can tell apart.                                           *)
(*                                                                         *)
(* A directory or a bucket in memory is a copy of its page, written back   *)
(* when it is unloaded dirty.  As in BPTree, a step goes from one load     *)
(* that may fail to the next, and a failed load ends the operation.        *)
(***************************************************************************)
EXTENDS Integers, FiniteSets, Sequences

CONSTANTS
  bucket_capacity,
  directory_capacity,
  SizeValues,   \* how many values there are for the size of a bucket: it is one byte
  Keys,         \* the keys, as the number their bytes make
  MaxBuckets,   \* bound of the model: pages for buckets
  MaxCopies,    \* bound of the model: records with one key
  MaxFailures   \* bound of the model: no operation begins after so many ended early

ASSUME ExtendibleHashAssumption ==
  /\ bucket_capacity \in Nat \ {0}
  /\ directory_capacity \in Nat \ {0}
  /\ SizeValues \in Nat \ {0}
  /\ Keys \subseteq Nat
  /\ MaxBuckets \in Nat \ {0} /\ MaxCopies \in Nat /\ MaxFailures \in Nat

\* Arithmetic the provers do not know.
ASSUME PowersOfTwo ==
  \A n \in 0 .. directory_capacity : 2 ^ n \in Nat /\ n < 2 ^ n /\ 2 ^ (n + 1) = 2 * 2 ^ n

VARIABLES
  directory,  \* what the page of the directory holds
  buckets,    \* what the page of every bucket holds
  allocated,  \* the pages given to buckets
  pins,       \* the pins the index has on every page
  op,         \* the operation under way
  failures    \* how many operations ended early

vars == <<directory, buckets, allocated, pins, op, failures>>

BucketIds == 1 .. MaxBuckets

NULL_PAGE == 0

directory_id == MaxBuckets + 1

Pages == BucketIds \cup {directory_id}

Places == 0 .. bucket_capacity - 1

\* Pointers to records, told apart among those of one key.
Refs == 1 .. MaxCopies

NoEntry == <<>>

NewBucket(prefix, local_depth) ==
  [prefix |-> prefix, local_depth |-> local_depth, size |-> 0,
   overflow_page |-> NULL_PAGE, entries |-> [j \in Places |-> NoEntry]]

Idle == [kind |-> "none"]

\* free_unpin_page stops at zero.
Unpinned(counts, p) == [counts EXCEPT ![p] = IF @ > 0 THEN @ - 1 ELSE @]

Pinned(counts, p) == [counts EXCEPT ![p] = @ + 1]

\* Faulty: the pin of the load before stays.
UnloadedOnce(counts, p) == Unpinned(Pinned(counts, p), p)

\* unload_bucket and unload_directory, dirty: the page is loaded once more to be written.
Unloaded(counts, p) == Unpinned(Unpinned(Pinned(counts, p), p), p)

Visited(counts, p) == Unloaded(Pinned(counts, p), p)
-----------------------------------------------------------------------------
(* Directory and buckets.                                                  *)

\* The d low bits of the key; d stays far below the 32 the code caps it at.
hash_key(key, d) == key % 2 ^ d

\* locate_bucket.  DirectoryComplete says it always finds one.
locate_bucket(key) == directory.bucket_ptrs[hash_key(key, directory.global_depth)]

Used(b) == {j \in Places : b.entries[j] # NoEntry}

\* Never, when the capacity is too much for the size.
Full(b) == b.size = bucket_capacity

\* Faulty: the size stays.
PutUncounted(b, entry) ==
  LET free == Places \ Used(b)
  IN  IF free = {} THEN b
      ELSE [b EXCEPT !.entries[CHOOSE j \in free : \A i \in free : j <= i] = entry]

\* insert_non_full_bucket: in the first free place, if there is one.  The size may wrap.
Put(b, entry) ==
  LET free == Places \ Used(b)
  IN  IF free = {} THEN b
      ELSE [b EXCEPT !.entries[CHOOSE j \in free : \A i \in free : j <= i] = entry,
                     !.size = (@ + 1) % SizeValues]

\* check_bucket_keys_same_prefix, of the keys in the bucket and not of the new one.
SamePrefix(b, depth) ==
  \A i, j \in Used(b) : hash_key(b.entries[i][1], depth) = hash_key(b.entries[j][1], depth)

\* Faulty: the depth is raised after the loop.
MovedAtOldDepth(b) == {j \in Used(b) : hash_key(b.entries[j][1], b.local_depth) # b.prefix}

\* What split_bucket moves out of b.
Moved(b) ==
  {j \in Used(b) : hash_key(b.entries[j][1], b.local_depth + 1) # b.prefix}

SplitOld(b) ==
  [b EXCEPT !.local_depth = @ + 1,
            !.size = (@ - Cardinality(Moved(b))) % SizeValues,
            !.entries = [j \in Places |-> IF j \in Moved(b) THEN NoEntry ELSE @[j]]]

SplitNew(b) ==
  LET upTo[j \in 0 .. bucket_capacity] ==
        IF j = 0 THEN NewBucket(2 ^ b.local_depth + b.prefix, b.local_depth + 1)
        ELSE IF j - 1 \in Moved(b) THEN Put(upTo[j - 1], b.entries[j - 1])
        ELSE upTo[j - 1]
  IN  upTo[bucket_capacity]

\* Faulty: the new half is left empty.
HalfExpanded(d) == [d EXCEPT !.global_depth = @ + 1]

\* expand_directory: the new half is a copy of the old one.
Expanded(d) ==
  LET offset == 2 ^ d.global_depth
  IN  [global_depth |-> d.global_depth + 1,
       bucket_ptrs |-> [i \in DOMAIN d.bucket_ptrs |->
                          IF i \in offset .. 2 * offset - 1 THEN d.bucket_ptrs[i - offset]
                          ELSE d.bucket_ptrs[i]]]

\* A bucket and its overflow buckets.
Chain(first) ==
  LET along[p \in BucketIds \cup {NULL_PAGE}] ==
        IF p = NULL_PAGE THEN {} ELSE {p} \cup along[buckets[p].overflow_page]
  IN  along[first]

\* search_in_bucket, in one of them: the entries with the key, as many as the size at most.
FoundIn(b, key) ==
  LET matches == {j \in Used(b) : b.entries[j][1] = key}
  IN  {b.entries[j] : j \in {k \in matches : Cardinality({i \in matches : i < k}) < b.size}}

\* What a search for key finds.
search(key) == UNION {FoundIn(buckets[p], key) : p \in Chain(locate_bucket(key))}
-----------------------------------------------------------------------------
(* Operations.                                                             *)

TypeOK ==
  /\ directory.global_depth \in Nat
  /\ directory.bucket_ptrs \in [0 .. directory_capacity - 1 -> {NULL_PAGE} \cup allocated]
  /\ allocated \in SUBSET BucketIds
  /\ \A p \in BucketIds :
       /\ buckets[p].overflow_page \in {NULL_PAGE} \cup allocated
       /\ buckets[p].entries \in [Places -> {NoEntry} \cup (Keys \X Refs)]
       /\ buckets[p].size = Cardinality(Used(buckets[p])) % SizeValues
       /\ buckets[p].local_depth <= directory.global_depth
  /\ pins \in [Pages -> Nat]
  /\ op.kind \in {"none", "insert", "split", "overflow", "relink"}
  /\ failures \in 0 .. MaxFailures

\* A new index: a directory of one entry and its bucket.
Init ==
  /\ directory = [global_depth |-> 0,
                  bucket_ptrs |-> [i \in 0 .. directory_capacity - 1 |->
                                     IF i = 0 THEN 1 ELSE NULL_PAGE]]
  /\ buckets = [p \in BucketIds |-> NewBucket(0, 0)]
  /\ allocated = {1}
  /\ pins = [p \in Pages |-> 0]
  /\ op = Idle
  /\ failures = 0

\* get_load_free_frame gives the first free page.
IsNewPage(p) == p \in BucketIds \ allocated /\ \A q \in BucketIds \ allocated : p <= q

\* The first pointer that is nowhere in the index with that key.
IsNewRef(key, ref) ==
  LET held == UNION {{buckets[p].entries[j] : j \in Used(buckets[p])} : p \in BucketIds}
  IN  <<key, ref>> \notin held /\ \A n \in 1 .. ref - 1 : <<key, n>> \in held

\* What an insertion in bucket b takes.
HowToInsert(b) ==
  IF ~Full(b) THEN "insert"
  ELSE IF SamePrefix(b, b.local_depth + 1) THEN "overflow"
  ELSE "split"

BeginInsert(key) ==
  /\ op = Idle
  /\ failures < MaxFailures
  /\ LET p == locate_bucket(key)
     IN  \E ref \in Refs :
           /\ IsNewRef(key, ref)
           /\ op' = [kind |-> HowToInsert(buckets[p]), entry |-> <<key, ref>>, at |-> p,
                     above |-> <<>>]
  /\ UNCHANGED <<directory, buckets, allocated, pins, failures>>

InsertInBucket ==
  /\ op.kind = "insert"
  /\ buckets' = [buckets EXCEPT ![op.at] = Put(@, op.entry)]
  /\ pins' = Visited(pins, op.at)
  /\ op' = Idle
  /\ UNCHANGED <<directory, allocated, failures>>

\* The key that came is not inserted afterwards.  With no room in the directory to double
\* it the code writes past its end and has no defined outcome; the model stops there.
SplitBucket ==
  /\ op.kind = "split"
  /\ LET b == buckets[op.at]
         grows == b.local_depth >= directory.global_depth
         d == IF grows THEN Expanded(directory) ELSE directory
     IN  /\ grows => 2 ^ (directory.global_depth + 1) <= directory_capacity
         /\ \E p \in BucketIds :
              /\ IsNewPage(p)
              /\ allocated' = allocated \cup {p}
              /\ buckets' = [buckets EXCEPT ![op.at] = SplitOld(b), ![p] = SplitNew(b)]
              /\ directory' = [d EXCEPT !.bucket_ptrs[SplitNew(b).prefix] = p]
              /\ pins' = Visited(Visited(Visited(pins, directory_id), op.at), p)
  /\ op' = Idle
  /\ UNCHANGED failures

\* insert_overflow_bucket in a bucket with room...
InsertInOverflow ==
  /\ op.kind = "overflow"
  /\ ~Full(buckets[op.at])
  /\ buckets' = [buckets EXCEPT ![op.at] = Put(@, op.entry)]
  /\ pins' = Visited(pins, op.at)
  /\ op' = IF op.above = <<>> THEN Idle ELSE [op EXCEPT !.kind = "relink"]
  /\ UNCHANGED <<directory, allocated, failures>>

\* ...in a full one that has an overflow bucket...
FollowOverflow ==
  /\ op.kind = "overflow"
  /\ Full(buckets[op.at])
  /\ LET next == buckets[op.at].overflow_page
     IN  /\ next # NULL_PAGE
         /\ op' = [op EXCEPT !.at = next, !.above = Append(@, <<op.at, next>>)]
  /\ UNCHANGED <<directory, buckets, allocated, pins, failures>>

\* ...and in a full one that gets its first: only the copy in memory is linked to it yet.
AddOverflow ==
  /\ op.kind = "overflow"
  /\ LET b == buckets[op.at]
     IN  /\ Full(b)
         /\ b.overflow_page = NULL_PAGE
         /\ \E p \in BucketIds :
              /\ IsNewPage(p)
              /\ allocated' = allocated \cup {p}
              /\ buckets' = [buckets EXCEPT ![p] = NewBucket(b.prefix, b.local_depth)]
              /\ op' = [op EXCEPT !.at = p, !.above = Append(@, <<op.at, p>>)]
  /\ UNCHANGED <<directory, pins, failures>>

\* Faulty: the copy is thrown away with its link.
ForgottenLink(b, p) == b

Linked(b, p) == [b EXCEPT !.overflow_page = p]

\* Back from the recursion every full bucket of the chain is unloaded again, dirty this
\* time: it takes away a pin a failed operation left on it.
Relink ==
  /\ op.kind = "relink"
  /\ LET copy == op.above[Len(op.above)]
     IN  /\ buckets' = [buckets EXCEPT ![copy[1]] = Linked(@, copy[2])]
         /\ pins' = Unloaded(pins, copy[1])
  /\ op' = IF Len(op.above) = 1 THEN Idle ELSE [op EXCEPT !.above = SubSeq(@, 1, Len(@) - 1)]
  /\ UNCHANGED <<directory, allocated, failures>>

\* The entries are cleared in a copy that is not written back: the page keeps them.
Cleared(b, key) == b

\* remove, along the chain; a load that fails on the way leaves nothing pinned.
RemoveKey(key) ==
  /\ op = Idle
  /\ buckets' = [p \in BucketIds |->
                   IF p \in Chain(locate_bucket(key)) THEN Cleared(buckets[p], key) ELSE buckets[p]]
  /\ UNCHANGED <<directory, allocated, pins, op, failures>>

\* The loads that may fail.  A split leaves pinned the directory, and the bucket when it
\* was the new page; a new overflow page, the bucket it was for.
LoadFails ==
  /\ op # Idle
  /\ \/ UNCHANGED pins
     \/ /\ op.kind = "split"
        /\ \/ pins' = Pinned(pins, directory_id)
           \/ pins' = Pinned(Pinned(pins, directory_id), op.at)
     \/ /\ op.kind = "overflow"
        /\ Full(buckets[op.at])
        /\ buckets[op.at].overflow_page = NULL_PAGE
        /\ pins' = Pinned(pins, op.at)
  /\ op' = Idle
  /\ failures' = failures + 1
  /\ UNCHANGED <<directory, buckets, allocated>>

Next ==
  \/ InsertInBucket
  \/ SplitBucket
  \/ InsertInOverflow
  \/ FollowOverflow
  \/ AddOverflow
  \/ Relink
  \/ LoadFails
  \/ \E key \in Keys : BeginInsert(key) \/ RemoveKey(key)

Spec == Init /\ [][Next]_vars
-----------------------------------------------------------------------------
(* Properties.                                                             *)

DirectoryEntries == 0 .. 2 ^ directory.global_depth - 1

\* Every key has a bucket, so the early return of locate_bucket (hlpr.cpp:49-51), which
\* would leave the directory pinned, is never taken.
DirectoryComplete ==
  \A i \in DirectoryEntries :
    /\ i < directory_capacity
    /\ directory.bucket_ptrs[i] # NULL_PAGE

\* The pages of the index that a search for some key can come to.
Reached == UNION {Chain(directory.bucket_ptrs[i]) : i \in DirectoryEntries}

\* As long as no operation is cut short, no page is given to the index and then lost to
\* it, as it would be if a new bucket were left out of the directory or of its chain.
PagesReached == op = Idle /\ failures = 0 => allocated = Reached

\* An operation that is not cut short gives back every pin it took.
PinsReturned == op = Idle /\ failures = 0 => \A p \in Pages : pins[p] = 0

Entries == UNION {search(key) : key \in Keys}

\* What the index was asked.  In relink it was done, unless the link is the one missing.
Request ==
  CASE op = Idle -> Idle
    [] op.kind = "relink" /\ op.entry \in Entries -> Idle
    [] OTHER -> [kind |-> "insert", key |-> op.entry[1], ref |-> op.entry[2]]

Store == INSTANCE IndexStore WITH entries <- Entries, request <- Request

\* Every entry of the directory leads to the bucket of its prefix.
DirectoryRight ==
  \A i \in DirectoryEntries :
    LET b == buckets[directory.bucket_ptrs[i]] IN hash_key(i, b.local_depth) = b.prefix

\* No size has wrapped.
SizesTell == \A p \in BucketIds : buckets[p].size = Cardinality(Used(buckets[p]))

Regular == DirectoryRight /\ SizesTell

\* The bucket to split is two levels or more above the directory: the one entry that is
\* redirected is not all those its new half needs.
SplitsDeep == op.kind = "split" /\ buckets[op.at].local_depth + 1 < directory.global_depth

\* The entry to insert is one more than a size can tell: search stops at the size, and finds
\* some of the entries no more, or none.
SizeWraps == op.kind = "insert" /\ buckets[op.at].size = SizeValues - 1

\* Until a bucket is split that deep, or gets more entries than its size can tell, every step
\* is one of an index: an entry that was put in is found from then on, and only then.
IndexWhileRegular ==
  [][Regular /\ ~SplitsDeep /\ ~SizeWraps =>
       Regular' /\ (Store!Next \/ UNCHANGED <<Entries, Request>>)]_vars
=============================================================================
