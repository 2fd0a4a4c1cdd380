-------------------------- MODULE ExtendibleHashProofs --------------------------
(***************************************************************************)
(* What holds of ExtendibleHash for every capacity of a bucket and of the  *)
(* directory, every number of pages and of failures.                       *)
(***************************************************************************)
EXTENDS ExtendibleHash, Induction

\* The directory has room for all the entries its depth says, and every one is given.
DirectoryInv ==
  /\ directory = [global_depth |-> directory.global_depth, bucket_ptrs |-> directory.bucket_ptrs]
  /\ DOMAIN directory.bucket_ptrs = 0 .. directory_capacity - 1
  /\ directory.bucket_ptrs = [i \in 0 .. directory_capacity - 1 |-> directory.bucket_ptrs[i]]
  /\ directory.global_depth \in 0 .. directory_capacity
  /\ 2 ^ directory.global_depth <= directory_capacity
  /\ \A i \in 0 .. 2 ^ directory.global_depth - 1 : directory.bucket_ptrs[i] # NULL_PAGE

\* As long as nothing failed, nothing is pinned between two steps.
PinsInv ==
  /\ failures \in Nat
  /\ DOMAIN pins = Pages
  /\ failures = 0 => \A p \in Pages : pins[p] = 0

IInv == DirectoryInv /\ PinsInv
-----------------------------------------------------------------------------
\* A page unloaded loses a pin, if it has one, and no other page does.
LEMMA UnloadedPins ==
  ASSUME NEW counts, NEW p, DOMAIN counts = Pages, \A q \in Pages : counts[q] = 0
  PROVE  /\ DOMAIN Unloaded(counts, p) = Pages
         /\ \A q \in Pages : Unloaded(counts, p)[q] = 0
<1> DEFINE loaded == Pinned(counts, p)
           written == Unpinned(loaded, p)
<1>1. DOMAIN loaded = Pages /\ \A q \in Pages : loaded[q] = IF q = p THEN 1 ELSE 0
  BY DEF Pinned
<1> HIDE DEF loaded
<1>2. DOMAIN written = Pages /\ \A q \in Pages : written[q] = 0
  BY <1>1 DEF Unpinned
<1> HIDE DEF written
<1>3. DOMAIN Unpinned(written, p) = Pages /\ \A q \in Pages : Unpinned(written, p)[q] = 0
  BY <1>2 DEF Unpinned
<1> QED BY <1>3 DEF Unloaded, written, loaded

\* A page visited keeps its pins.
LEMMA VisitedPins ==
  ASSUME NEW counts, NEW p, DOMAIN counts = Pages, \A q \in Pages : counts[q] = 0
  PROVE  /\ DOMAIN Visited(counts, p) = Pages
         /\ \A q \in Pages : Visited(counts, p)[q] = 0
<1> DEFINE loaded == Pinned(counts, p)
           again == Pinned(loaded, p)
           once == Unpinned(again, p)
<1>1. DOMAIN loaded = Pages /\ \A q \in Pages : loaded[q] = IF q = p THEN 1 ELSE 0
  BY DEF Pinned
<1> HIDE DEF loaded
<1>2. DOMAIN again = Pages /\ \A q \in Pages : again[q] = IF q = p THEN 2 ELSE 0
  BY <1>1 DEF Pinned
<1> HIDE DEF again
<1>3. DOMAIN once = Pages /\ \A q \in Pages : once[q] = IF q = p THEN 1 ELSE 0
  BY <1>2 DEF Unpinned
<1> HIDE DEF once
<1>4. DOMAIN Unpinned(once, p) = Pages /\ \A q \in Pages : Unpinned(once, p)[q] = 0
  BY <1>3 DEF Unpinned
<1> QED BY <1>4 DEF Visited, Unloaded, once, again, loaded

\* The pages whatever the pins are.
LEMMA DomainsKept ==
  ASSUME NEW counts, NEW p
  PROVE  /\ DOMAIN Pinned(counts, p) = DOMAIN counts
         /\ DOMAIN Unpinned(counts, p) = DOMAIN counts
         /\ DOMAIN Unloaded(counts, p) = DOMAIN counts
         /\ DOMAIN Visited(counts, p) = DOMAIN counts
<1>1. ASSUME NEW c
      PROVE  DOMAIN Pinned(c, p) = DOMAIN c /\ DOMAIN Unpinned(c, p) = DOMAIN c
  BY DEF Pinned, Unpinned
<1> QED BY <1>1 DEF Unloaded, Visited
-----------------------------------------------------------------------------
\* A new index has one entry and a bucket for it.
LEMMA InitInv == Init => IInv
<1> SUFFICES ASSUME Init PROVE IInv
  OBVIOUS
<1>1. 2 ^ 0 = 1 /\ 0 < 2 ^ 0
  OBVIOUS
<1>2. DirectoryInv
  BY <1>1, ExtendibleHashAssumption DEF Init, DirectoryInv, NULL_PAGE, ExtendibleHashAssumption
<1>3. PinsInv
  BY DEF Init, PinsInv
<1> QED BY <1>2, <1>3 DEF IInv

\* expand_directory and the redirection of an entry.
LEMMA NextDirectory == DirectoryInv /\ [Next]_vars => DirectoryInv'
<1> SUFFICES ASSUME DirectoryInv, [Next]_vars PROVE DirectoryInv'
  OBVIOUS
<1>1. CASE UNCHANGED directory
  BY <1>1 DEF DirectoryInv
<1>2. CASE SplitBucket
  <2> DEFINE b == buckets[op.at]
             g == directory.global_depth
             ptrs == directory.bucket_ptrs
             d == IF b.local_depth >= g THEN Expanded(directory) ELSE directory
             place == SplitNew(b).prefix
  <2>1. PICK p \in BucketIds :
          /\ b.local_depth >= g => 2 ^ (g + 1) <= directory_capacity
          /\ directory' = [d EXCEPT !.bucket_ptrs[place] = p]
    BY <1>2 DEF SplitBucket
  <2>2. p # NULL_PAGE
    BY ExtendibleHashAssumption DEF BucketIds, NULL_PAGE
  <2>3. /\ g \in 0 .. directory_capacity
        /\ directory_capacity \in Nat
        /\ 2 ^ g \in Nat /\ g < 2 ^ g /\ 2 ^ (g + 1) = 2 * 2 ^ g
        /\ 2 ^ g <= directory_capacity
    BY PowersOfTwo, ExtendibleHashAssumption DEF DirectoryInv, ExtendibleHashAssumption
  <2>4. /\ d = [global_depth |-> d.global_depth, bucket_ptrs |-> d.bucket_ptrs]
        /\ d.bucket_ptrs = [i \in 0 .. directory_capacity - 1 |-> d.bucket_ptrs[i]]
        /\ d.global_depth \in 0 .. directory_capacity
        /\ 2 ^ d.global_depth <= directory_capacity
        /\ \A i \in 0 .. 2 ^ d.global_depth - 1 : d.bucket_ptrs[i] # NULL_PAGE
    <3>1. CASE ~(b.local_depth >= g)
      BY <3>1 DEF DirectoryInv
    <3>2. CASE b.local_depth >= g
      <4>1. d = Expanded(directory)
        BY <3>2
      <4>2. /\ d.global_depth = g + 1
            /\ d = [global_depth |-> d.global_depth, bucket_ptrs |-> d.bucket_ptrs]
            /\ d.bucket_ptrs = [i \in 0 .. directory_capacity - 1 |->
                                  IF i \in 2 ^ g .. 2 * 2 ^ g - 1 THEN ptrs[i - 2 ^ g] ELSE ptrs[i]]
        <5>1. DOMAIN ptrs = 0 .. directory_capacity - 1
          BY DEF DirectoryInv
        <5>2. Expanded(directory) =
                [global_depth |-> g + 1,
                 bucket_ptrs |-> [i \in 0 .. directory_capacity - 1 |->
                                    IF i \in 2 ^ g .. 2 * 2 ^ g - 1 THEN ptrs[i - 2 ^ g] ELSE ptrs[i]]]
          BY <5>1, Zenon DEF Expanded
        <5> HIDE DEF d, ptrs, g
        <5> QED BY <4>1, <5>2
      <4>3. 2 * 2 ^ g <= directory_capacity /\ g + 1 \in 0 .. directory_capacity
        BY <2>1, <2>3, <3>2
      <4> HIDE DEF d, b
      <4>4. ASSUME NEW i \in 0 .. 2 * 2 ^ g - 1
            PROVE  d.bucket_ptrs[i] # NULL_PAGE
        <5>1. i \in 0 .. directory_capacity - 1
          BY <2>3, <4>3
        <5>2. CASE i \in 2 ^ g .. 2 * 2 ^ g - 1
          <6>1. i - 2 ^ g \in 0 .. 2 ^ g - 1
            BY <2>3, <5>2
          <6> QED BY <4>2, <5>1, <5>2, <6>1 DEF DirectoryInv
        <5>3. CASE ~(i \in 2 ^ g .. 2 * 2 ^ g - 1)
          <6>1. i \in 0 .. 2 ^ g - 1
            BY <2>3, <5>3
          <6> QED BY <4>2, <5>1, <5>3, <6>1 DEF DirectoryInv
        <5> QED BY <5>2, <5>3
      <4> QED BY <2>3, <4>2, <4>3, <4>4
    <3> QED BY <3>1, <3>2
  <2> HIDE DEF d, place
  <2>5. /\ directory' = [global_depth |-> directory'.global_depth,
                         bucket_ptrs |-> directory'.bucket_ptrs]
        /\ directory'.global_depth = d.global_depth
        /\ directory'.bucket_ptrs = [d.bucket_ptrs EXCEPT ![place] = p]
    BY <2>1, <2>4
  <2>6. /\ DOMAIN directory'.bucket_ptrs = 0 .. directory_capacity - 1
        /\ directory'.bucket_ptrs = [i \in 0 .. directory_capacity - 1 |-> directory'.bucket_ptrs[i]]
        /\ \A i \in 0 .. directory_capacity - 1 :
             directory'.bucket_ptrs[i] = IF i = place THEN p ELSE d.bucket_ptrs[i]
    BY <2>4, <2>5
  <2>7. 2 ^ d.global_depth \in Nat
    BY <2>4, PowersOfTwo
  <2>8. \A i \in 0 .. 2 ^ d.global_depth - 1 : directory'.bucket_ptrs[i] # NULL_PAGE
    <3> DEFINE entries == 2 ^ d.global_depth
    <3>1. /\ entries \in Nat /\ entries <= directory_capacity
          /\ \A i \in 0 .. entries - 1 : d.bucket_ptrs[i] # NULL_PAGE
      BY <2>4, <2>7
    <3> HIDE DEF entries
    <3>2. ASSUME NEW i \in 0 .. entries - 1 PROVE directory'.bucket_ptrs[i] # NULL_PAGE
      <4>1. i \in 0 .. directory_capacity - 1 /\ d.bucket_ptrs[i] # NULL_PAGE
        BY <2>3, <3>1
      <4> QED BY <2>2, <2>6, <4>1
    <3> QED BY <3>2 DEF entries
  <2> QED BY <2>4, <2>5, <2>6, <2>8 DEF DirectoryInv
<1>3. CASE InsertInBucket \/ InsertInOverflow \/ FollowOverflow \/ AddOverflow \/ Relink \/ LoadFails
  BY <1>1, <1>3
  DEF InsertInBucket, InsertInOverflow, FollowOverflow, AddOverflow, Relink, LoadFails
<1>4. CASE \E key \in Keys : BeginInsert(key) \/ RemoveKey(key)
  BY <1>1, <1>4 DEF BeginInsert, RemoveKey
<1>5. CASE UNCHANGED vars
  BY <1>1, <1>5 DEF vars
<1> QED BY <1>2, <1>3, <1>4, <1>5 DEF Next

\* Loads and unloads pair up.
LEMMA NextPins == PinsInv /\ [Next]_vars => PinsInv'
<1> SUFFICES ASSUME PinsInv, [Next]_vars PROVE PinsInv'
  OBVIOUS
<1>1. CASE UNCHANGED <<pins, failures>>
  BY <1>1 DEF PinsInv
<1>2. CASE InsertInBucket
  BY <1>2, VisitedPins, DomainsKept DEF InsertInBucket, PinsInv
<1>3. CASE InsertInOverflow
  BY <1>3, VisitedPins, DomainsKept DEF InsertInOverflow, PinsInv
<1>4. CASE SplitBucket
  <2> DEFINE one == Visited(pins, directory_id)
             two == Visited(one, op.at)
  <2>1. DOMAIN one = Pages /\ (failures = 0 => \A q \in Pages : one[q] = 0)
    BY VisitedPins, DomainsKept DEF PinsInv
  <2>2. DOMAIN two = Pages /\ (failures = 0 => \A q \in Pages : two[q] = 0)
    <3> HIDE DEF one
    <3> QED BY <2>1, VisitedPins, DomainsKept
  <2>3. PICK p : pins' = Visited(two, p)
    BY <1>4 DEF SplitBucket
  <2>4. failures' = failures
    BY <1>4 DEF SplitBucket
  <2> HIDE DEF two
  <2>5. DOMAIN pins' = Pages /\ (failures = 0 => \A q \in Pages : pins'[q] = 0)
    BY <2>2, <2>3, VisitedPins, DomainsKept
  <2> QED BY <2>4, <2>5 DEF PinsInv
<1>5. CASE Relink
  <2>1. PICK p : pins' = Unloaded(pins, p)
    BY <1>5 DEF Relink
  <2>2. failures' = failures
    BY <1>5 DEF Relink
  <2> QED BY <2>1, <2>2, UnloadedPins, DomainsKept DEF PinsInv
<1>6. CASE LoadFails
  <2>1. failures' = failures + 1 /\ failures' # 0 /\ failures' \in Nat
    BY <1>6 DEF LoadFails, PinsInv
  <2>2. DOMAIN pins' = Pages
    BY <1>6, DomainsKept DEF LoadFails, PinsInv
  <2> QED BY <2>1, <2>2 DEF PinsInv
<1>7. CASE FollowOverflow \/ AddOverflow
  BY <1>1, <1>7 DEF FollowOverflow, AddOverflow
<1>8. CASE \E key \in Keys : BeginInsert(key) \/ RemoveKey(key)
  BY <1>1, <1>8 DEF BeginInsert, RemoveKey
<1>9. CASE UNCHANGED vars
  BY <1>1, <1>9 DEF vars
<1> QED BY <1>2, <1>3, <1>4, <1>5, <1>6, <1>7, <1>8, <1>9 DEF Next

LEMMA Inductive == Spec => []IInv
<1>1. IInv /\ [Next]_vars => IInv'
  BY NextDirectory, NextPins DEF IInv
<1> QED BY <1>1, InitInv, PTL DEF Spec
-----------------------------------------------------------------------------
\* Every key has a bucket, whatever was split and whatever failed: locate_bucket never
\* returns early, with the directory pinned.
THEOREM DirectoryIsAlwaysComplete == Spec => []DirectoryComplete
<1>1. IInv => DirectoryComplete
  <2> SUFFICES ASSUME IInv PROVE DirectoryComplete
    OBVIOUS
  <2> DEFINE entries == 2 ^ directory.global_depth
  <2>1. /\ entries \in Nat /\ entries <= directory_capacity /\ directory_capacity \in Nat
        /\ \A i \in 0 .. entries - 1 : directory.bucket_ptrs[i] # NULL_PAGE
    BY PowersOfTwo, ExtendibleHashAssumption DEF IInv, DirectoryInv, ExtendibleHashAssumption
  <2>2. DirectoryComplete <=>
          \A i \in 0 .. entries - 1 : i < directory_capacity /\ directory.bucket_ptrs[i] # NULL_PAGE
    BY DEF DirectoryComplete, DirectoryEntries
  <2> HIDE DEF entries
  <2> QED BY <2>1, <2>2
<1> QED BY <1>1, Inductive, PTL

\* An operation on the hash that is not cut short gives back every pin it took.
THEOREM PinsAreReturned == Spec => []PinsReturned
<1>1. IInv => PinsReturned
  BY DEF IInv, PinsInv, PinsReturned
<1> QED BY <1>1, Inductive, PTL
-----------------------------------------------------------------------------

(* Sizes.                                                                  *)

\* A small number is its own rest.
LEMMA RestOfSmall ==
  ASSUME NEW m \in Nat \ {0}, NEW r \in 0 .. m - 1
  PROVE  r % m = r
OBVIOUS

LEMMA IntDivision ==
  ASSUME NEW x \in Int, NEW m \in Nat \ {0}
  PROVE  /\ x \div m \in Int /\ x % m \in 0 .. m - 1
         /\ x = m * (x \div m) + (x % m)
OBVIOUS

LEMMA IntRestIs ==
  ASSUME NEW m \in Nat \ {0}, NEW q \in Int, NEW r \in 0 .. m - 1
  PROVE  (m * q + r) % m = r
OBVIOUS

\* A rest changed and cut again is the number changed and cut once.
LEMMA RestOfRest ==
  ASSUME NEW x \in Int, NEW n \in Int, NEW m \in Nat \ {0}
  PROVE  ((x % m) + n) % m = (x + n) % m
<1>1. PICK q \in Int : x = m * q + (x % m) /\ x % m \in 0 .. m - 1
  BY IntDivision
<1> DEFINE y == (x % m) + n
<1>2. y \in Int /\ x + n = m * q + y
  BY <1>1
<1> HIDE DEF y
<1>3. PICK p \in Int : y = m * p + (y % m) /\ y % m \in 0 .. m - 1
  BY <1>2, IntDivision
<1> DEFINE r == y % m
<1>4. r \in 0 .. m - 1 /\ y = m * p + r
  BY <1>3
<1> HIDE DEF r
<1>5. x + n = m * (q + p) + r /\ q + p \in Int
  BY <1>2, <1>4
<1>6. (m * (q + p) + r) % m = r
  BY <1>4, <1>5, IntRestIs
<1> QED BY <1>5, <1>6 DEF y, r

\* What the size byte makes of a number.
SizeOf(n) == n % SizeValues

\* A number the byte can tell is told, and what it makes of one is a number it can tell.
LEMMA SizeFacts ==
  /\ SizeValues \in Nat \ {0}
  /\ \A n \in Int : SizeOf(n) \in Nat /\ SizeOf(n) < SizeValues
  /\ \A n \in Nat : n < SizeValues => SizeOf(n) = n
  /\ \A n, k \in Int : SizeOf(SizeOf(n) + k) = SizeOf(n + k)
<1>1. SizeValues \in Nat \ {0}
  BY ExtendibleHashAssumption DEF ExtendibleHashAssumption
<1>2. ASSUME NEW n \in Int PROVE SizeOf(n) \in Nat /\ SizeOf(n) < SizeValues
  BY <1>1, IntDivision DEF SizeOf
<1>3. ASSUME NEW n \in Nat, n < SizeValues PROVE SizeOf(n) = n
  <2>1. n \in 0 .. SizeValues - 1
    BY <1>1, <1>3
  <2> QED BY <1>1, <2>1, RestOfSmall DEF SizeOf
<1>4. ASSUME NEW n \in Int, NEW k \in Int PROVE SizeOf(SizeOf(n) + k) = SizeOf(n + k)
  BY <1>1, RestOfRest DEF SizeOf
<1> QED BY <1>1, <1>2, <1>3, <1>4
-----------------------------------------------------------------------------
(* Buckets.                                                                *)

\* What a bucket is.
BucketType ==
  [prefix : Nat, local_depth : Nat, size : Nat, overflow_page : Nat,
   entries : [Places -> {NoEntry} \cup (Keys \X Refs)]]

\* A bucket that counts its entries, as far as its size can tell.
Counted(b) == b \in BucketType /\ b.size = SizeOf(Cardinality(Used(b)))

LEMMA PlacesFacts ==
  /\ Places \subseteq Nat
  /\ IsFiniteSet(Places)
  /\ Cardinality(Places) = bucket_capacity
  /\ bucket_capacity \in Nat \ {0}
<1>1. bucket_capacity \in Nat \ {0}
  BY ExtendibleHashAssumption DEF ExtendibleHashAssumption
<1>2. 0 \in Int /\ bucket_capacity - 1 \in Int /\ 0 .. bucket_capacity - 1 \subseteq Nat
  BY <1>1
<1>3. /\ IsFiniteSet(0 .. bucket_capacity - 1)
      /\ Cardinality(0 .. bucket_capacity - 1) =
           IF 0 > bucket_capacity - 1 THEN 0 ELSE (bucket_capacity - 1) - 0 + 1
  BY <1>2, FS_Interval
<1> QED BY <1>1, <1>2, <1>3 DEF Places

LEMMA UsedFinite ==
  ASSUME NEW b
  PROVE  Used(b) \subseteq Places /\ IsFiniteSet(Used(b)) /\ Cardinality(Used(b)) \in Nat
<1>1. Used(b) \subseteq Places
  BY DEF Used
<1> QED BY <1>1, PlacesFacts, FS_Subset, FS_CardinalityType

\* The place an entry is put in.
FirstFree(b) == CHOOSE j \in Places \ Used(b) : \A i \in Places \ Used(b) : j <= i

LEMMA FirstFreeIsFree ==
  ASSUME NEW b, Places \ Used(b) # {}
  PROVE  FirstFree(b) \in Places \ Used(b)
<1> DEFINE free == Places \ Used(b)
<1>1. free \subseteq Nat
  BY PlacesFacts
<1>2. PICK i \in free : \A j \in free : ~(<<j, i>> \in OpToRel(<, Nat))
  BY <1>1, WFMin, NatLessThanWellFounded, Zenon
<1>3. \A j \in free : ~(j < i)
  BY <1>1, <1>2, Zenon DEF OpToRel
<1>4. \A j \in free : i <= j
  BY <1>1, <1>3
<1> QED BY <1>4, Zenon DEF FirstFree

LEMMA NoEntryDiffers == NoEntry \notin Keys \X Refs
BY DEF NoEntry

\* A bucket with an entry more, or the same when there is no place.
LEMMA PutIsCounted ==
  ASSUME NEW b, Counted(b), NEW entry \in Keys \X Refs
  PROVE  /\ Counted(Put(b, entry))
         /\ Put(b, entry).prefix = b.prefix
         /\ Put(b, entry).local_depth = b.local_depth
         /\ Put(b, entry).overflow_page = b.overflow_page
<1>1. CASE Places \ Used(b) = {}
  BY <1>1, Zenon DEF Put
<1>2. CASE Places \ Used(b) # {}
  <2> DEFINE i == FirstFree(b)
  <2>1. Put(b, entry) = [b EXCEPT !.entries[i] = entry, !.size = SizeOf(@ + 1)]
    BY <1>2, Zenon DEF Put, FirstFree, SizeOf
  <2>2. i \in Places /\ i \notin Used(b)
    BY <1>2, FirstFreeIsFree
  <2> HIDE DEF i
  <2> DEFINE c == [b EXCEPT !.entries[i] = entry, !.size = SizeOf(@ + 1)]
  <2>3. /\ c.prefix = b.prefix /\ c.local_depth = b.local_depth
        /\ c.overflow_page = b.overflow_page /\ c.size = SizeOf(b.size + 1)
        /\ c.entries = [b.entries EXCEPT ![i] = entry]
        /\ c \in BucketType
    <3>1. /\ b = [prefix |-> b.prefix, local_depth |-> b.local_depth, size |-> b.size,
                  overflow_page |-> b.overflow_page, entries |-> b.entries]
          /\ b.prefix \in Nat /\ b.local_depth \in Nat /\ b.size \in Nat
          /\ b.overflow_page \in Nat
          /\ b.entries \in [Places -> {NoEntry} \cup (Keys \X Refs)]
      BY DEF Counted, BucketType
    <3>2. /\ c.prefix = b.prefix /\ c.local_depth = b.local_depth
          /\ c.overflow_page = b.overflow_page /\ c.size = SizeOf(b.size + 1)
          /\ c.entries = [b.entries EXCEPT ![i] = entry]
          /\ c = [prefix |-> c.prefix, local_depth |-> c.local_depth, size |-> c.size,
                  overflow_page |-> c.overflow_page, entries |-> c.entries]
      <4> DEFINE d == [b.entries EXCEPT ![i] = entry]
                 n == SizeOf(b.size + 1)
      <4>1. c = [b EXCEPT !.entries = d, !.size = n]
        BY <3>1
      <4> HIDE DEF c, d, n
      <4>2. /\ c.prefix = b.prefix /\ c.local_depth = b.local_depth
            /\ c.overflow_page = b.overflow_page /\ c.size = n /\ c.entries = d
            /\ c = [prefix |-> c.prefix, local_depth |-> c.local_depth, size |-> c.size,
                    overflow_page |-> c.overflow_page, entries |-> c.entries]
        BY <3>1, <4>1
      <4> QED BY <4>2 DEF d, n
    <3> HIDE DEF c
    <3>3. c.size \in Nat
      BY <3>1, <3>2, SizeFacts
    <3>4. c.entries \in [Places -> {NoEntry} \cup (Keys \X Refs)]
      <4> DEFINE V == {NoEntry} \cup (Keys \X Refs)
      <4>1. entry \in V /\ b.entries \in [Places -> V]
        BY <3>1
      <4> HIDE DEF V
      <4>2. c.entries \in [Places -> V]
        BY <3>2, <4>1
      <4> QED BY <4>2 DEF V
    <3> QED BY <3>1, <3>2, <3>3, <3>4 DEF BucketType
  <2> HIDE DEF c
  <2>4. Used(c) = Used(b) \cup {i}
    <3>1. b.entries \in [Places -> {NoEntry} \cup (Keys \X Refs)]
      BY DEF Counted, BucketType
    <3>2. \A j \in Places : c.entries[j] = IF j = i THEN entry ELSE b.entries[j]
      BY <2>3, <3>1
    <3>3. entry # NoEntry
      BY NoEntryDiffers
    <3> QED BY <2>2, <3>2, <3>3 DEF Used
  <2>5. Cardinality(Used(c)) = Cardinality(Used(b)) + 1
    BY <2>2, <2>4, UsedFinite, FS_AddElement
  <2>6. Counted(c)
    <3> DEFINE n == Cardinality(Used(b))
    <3>1. n \in Int /\ 1 \in Int
      BY UsedFinite
    <3>2. b.size = SizeOf(n) /\ Cardinality(Used(c)) = n + 1
      BY <2>5 DEF Counted
    <3> HIDE DEF n
    <3>3. SizeOf(SizeOf(n) + 1) = SizeOf(n + 1)
      BY <3>1, SizeFacts
    <3> QED BY <2>3, <3>2, <3>3 DEF Counted
  <2> QED BY <2>1, <2>3, <2>6 DEF c
<1> QED BY <1>1, <1>2

\* The entries of a bucket.
ContentOf(b) == {b.entries[j] : j \in Used(b)}

\* A bucket with room holds what it held, and the entry put in it.
LEMMA PutAddsEntry ==
  ASSUME NEW b, Counted(b), NEW entry \in Keys \X Refs,
         Cardinality(Used(b)) < bucket_capacity
  PROVE  /\ ContentOf(Put(b, entry)) = ContentOf(b) \cup {entry}
         /\ Cardinality(Used(Put(b, entry))) = Cardinality(Used(b)) + 1
<1>1. Cardinality(Used(b)) \in Nat
  BY UsedFinite
<1>2. Places \ Used(b) # {}
  <2> SUFFICES ASSUME Places \ Used(b) = {} PROVE FALSE
    OBVIOUS
  <2>1. Used(b) = Places
    BY UsedFinite
  <2> QED BY <1>1, <2>1, PlacesFacts
<1> DEFINE i == FirstFree(b)
<1>3. Put(b, entry) = [b EXCEPT !.entries[i] = entry, !.size = SizeOf(@ + 1)]
  BY <1>2, Zenon DEF Put, FirstFree, SizeOf
<1>4. i \in Places /\ i \notin Used(b)
  BY <1>2, FirstFreeIsFree
<1> HIDE DEF i
<1> DEFINE c == [b EXCEPT !.entries[i] = entry, !.size = SizeOf(@ + 1)]
<1>5. /\ b = [prefix |-> b.prefix, local_depth |-> b.local_depth, size |-> b.size,
              overflow_page |-> b.overflow_page, entries |-> b.entries]
      /\ b.entries \in [Places -> {NoEntry} \cup (Keys \X Refs)]
  BY DEF Counted, BucketType
<1>6. c.entries = [b.entries EXCEPT ![i] = entry]
  BY <1>5
<1> HIDE DEF c
<1>7. \A j \in Places : c.entries[j] = IF j = i THEN entry ELSE b.entries[j]
  BY <1>5, <1>6
<1>8. entry # NoEntry
  BY NoEntryDiffers
<1>9. Used(c) = Used(b) \cup {i}
  BY <1>4, <1>7, <1>8 DEF Used
<1>10. ContentOf(c) = ContentOf(b) \cup {entry}
  <2>1. \A j \in Used(b) : c.entries[j] = b.entries[j]
    BY <1>4, <1>7 DEF Used
  <2>2. c.entries[i] = entry
    BY <1>4, <1>7
  <2> QED BY <1>9, <2>1, <2>2 DEF ContentOf
<1>11. Cardinality(Used(c)) = Cardinality(Used(b)) + 1
  BY <1>4, <1>9, UsedFinite, FS_AddElement
<1> QED BY <1>3, <1>10, <1>11 DEF c

\* A new bucket.
LEMMA NewIsCounted ==
  ASSUME NEW prefix \in Nat, NEW local_depth \in Nat
  PROVE  /\ Counted(NewBucket(prefix, local_depth))
         /\ NewBucket(prefix, local_depth).prefix = prefix
         /\ NewBucket(prefix, local_depth).local_depth = local_depth
         /\ NewBucket(prefix, local_depth).overflow_page = NULL_PAGE
         /\ NewBucket(prefix, local_depth).size = 0
         /\ Cardinality(Used(NewBucket(prefix, local_depth))) = 0
         /\ ContentOf(NewBucket(prefix, local_depth)) = {}
<1> DEFINE c == NewBucket(prefix, local_depth)
<1>1. /\ c \in BucketType /\ c.size = 0 /\ \A j \in Places : c.entries[j] = NoEntry
      /\ c.prefix = prefix /\ c.local_depth = local_depth /\ c.overflow_page = NULL_PAGE
  BY DEF NewBucket, BucketType, NULL_PAGE
<1>2. Used(c) = {}
  BY <1>1, Zenon DEF Used
<1> HIDE DEF c
<1>3. Cardinality(Used(c)) = 0
  BY <1>2, FS_EmptySet
<1>4. Counted(c) /\ ContentOf(c) = {}
  <2>1. SizeOf(0) = 0
    BY SizeFacts
  <2> QED BY <1>1, <1>2, <1>3, <2>1 DEF Counted, ContentOf
<1> QED BY <1>1, <1>3, <1>4 DEF c

LEMMA OldIsCounted ==
  ASSUME NEW b, Counted(b)
  PROVE  /\ Counted(SplitOld(b))
         /\ SplitOld(b).prefix = b.prefix
         /\ SplitOld(b).local_depth = b.local_depth + 1
         /\ SplitOld(b).overflow_page = b.overflow_page
         /\ ContentOf(SplitOld(b)) = {b.entries[j] : j \in Used(b) \ Moved(b)}
<1> DEFINE moved == Moved(b)
           c == [b EXCEPT !.local_depth = @ + 1,
                          !.size = SizeOf(@ - Cardinality(moved)),
                          !.entries = [j \in Places |-> IF j \in moved THEN NoEntry ELSE @[j]]]
<1>1. moved \subseteq Used(b)
  BY DEF Moved
<1>2. SplitOld(b) = c
  BY DEF SplitOld, SizeOf
<1> HIDE DEF moved
<1>3. b \in BucketType /\ b.entries \in [Places -> {NoEntry} \cup (Keys \X Refs)]
  BY DEF Counted, BucketType
<1>15. b = [prefix |-> b.prefix, local_depth |-> b.local_depth, size |-> b.size,
            overflow_page |-> b.overflow_page, entries |-> b.entries]
  BY <1>3 DEF BucketType
<1>4. /\ c.prefix = b.prefix /\ c.local_depth = b.local_depth + 1
      /\ c.overflow_page = b.overflow_page /\ c.size = SizeOf(b.size - Cardinality(moved))
      /\ c.entries = [j \in Places |-> IF j \in moved THEN NoEntry ELSE b.entries[j]]
      /\ c = [prefix |-> c.prefix, local_depth |-> c.local_depth, size |-> c.size,
              overflow_page |-> c.overflow_page, entries |-> c.entries]
  <2> DEFINE kept == [j \in Places |-> IF j \in moved THEN NoEntry ELSE b.entries[j]]
             n == SizeOf(b.size - Cardinality(moved))
  <2>1. c = [b EXCEPT !.local_depth = b.local_depth + 1, !.size = n, !.entries = kept]
    BY <1>15, Zenon
  <2> HIDE DEF c, kept, n
  <2>2. /\ c.prefix = b.prefix /\ c.local_depth = b.local_depth + 1
        /\ c.overflow_page = b.overflow_page /\ c.size = n /\ c.entries = kept
        /\ c = [prefix |-> c.prefix, local_depth |-> c.local_depth, size |-> c.size,
                overflow_page |-> c.overflow_page, entries |-> c.entries]
    BY <1>15, <2>1
  <2> QED BY <2>2 DEF kept, n
<1>5. b.prefix \in Nat /\ b.local_depth \in Nat /\ b.overflow_page \in Nat
  BY <1>3 DEF BucketType
<1> HIDE DEF c
<1>6. Used(c) = Used(b) \ moved
  BY <1>1, <1>4 DEF Used
<1>7. /\ IsFiniteSet(Used(b)) /\ IsFiniteSet(moved) /\ moved = Used(b) \cap moved
  BY <1>1, UsedFinite, FS_Subset
<1>8. Cardinality(Used(b) \ moved) = Cardinality(Used(b)) - Cardinality(moved)
  BY <1>7, FS_Difference
<1>9. c.size = SizeOf(Cardinality(Used(c))) /\ c.size \in Nat
  <2> DEFINE n == Cardinality(Used(b))
             m == Cardinality(moved)
  <2>1. n \in Int /\ m \in Int
    BY <1>7, UsedFinite, FS_CardinalityType
  <2>2. b.size = SizeOf(n) /\ Cardinality(Used(c)) = n - m /\ c.size = SizeOf(b.size - m)
    BY <1>4, <1>6, <1>8 DEF Counted
  <2> HIDE DEF n, m
  <2>3. -m \in Int /\ n + (-m) = n - m /\ n - m \in Int
    BY <2>1
  <2>4. SizeOf(n) \in Nat /\ SizeOf(n) + (-m) = SizeOf(n) - m
    BY <2>1, SizeFacts
  <2>5. SizeOf(SizeOf(n) + (-m)) = SizeOf(n + (-m))
    BY <2>1, <2>3, SizeFacts
  <2> QED BY <2>2, <2>3, <2>4, <2>5, SizeFacts
<1>10. c.entries \in [Places -> {NoEntry} \cup (Keys \X Refs)]
  BY <1>3, <1>4
<1>11. c \in BucketType
  BY <1>4, <1>5, <1>9, <1>10 DEF BucketType
<1>12. ContentOf(c) = {b.entries[j] : j \in Used(b) \ moved}
  <2>1. \A j \in Used(b) \ moved : c.entries[j] = b.entries[j]
    BY <1>4 DEF Used
  <2> QED BY <1>6, <2>1 DEF ContentOf
<1> QED BY <1>2, <1>4, <1>9, <1>11, <1>12 DEF Counted, moved

\* What split_bucket moves goes to a bucket of its own, one level deeper.
LEMMA NewIsMoved ==
  ASSUME NEW b, Counted(b), 2 ^ b.local_depth \in Nat
  PROVE  /\ Counted(SplitNew(b))
         /\ SplitNew(b).prefix = 2 ^ b.local_depth + b.prefix
         /\ SplitNew(b).local_depth = b.local_depth + 1
         /\ SplitNew(b).overflow_page = NULL_PAGE
         /\ ContentOf(SplitNew(b)) = {b.entries[j] : j \in Moved(b)}
<1> DEFINE n == bucket_capacity
           first == NewBucket(2 ^ b.local_depth + b.prefix, b.local_depth + 1)
           IsNew(c) == /\ Counted(c)
                       /\ c.prefix = 2 ^ b.local_depth + b.prefix
                       /\ c.local_depth = b.local_depth + 1
                       /\ c.overflow_page = NULL_PAGE
           V == {c \in BucketType : IsNew(c)}
           more(j, c) == IF j - 1 \in Moved(b) THEN Put(c, b.entries[j - 1]) ELSE c
           Body(u) == [j \in 0 .. n |-> IF j = 0 THEN first ELSE more(j, u[j - 1])]
           upTo == CHOOSE u : u = Body(u)
<1>1. n \in Nat
  BY PlacesFacts
<1>2. first \in V
  <2>1. 2 ^ b.local_depth + b.prefix \in Nat /\ b.local_depth + 1 \in Nat
    BY DEF Counted, BucketType
  <2> QED BY <2>1, NewIsCounted DEF Counted
<1>3. SplitNew(b) = upTo[n]
  BY Zenon DEF SplitNew
<1>4. ASSUME NEW j \in 1 .. n, NEW c \in V PROVE more(j, c) \in V
  <2>1. CASE j - 1 \notin Moved(b)
    BY <2>1
  <2>2. CASE j - 1 \in Moved(b)
    <3>1. j - 1 \in Places /\ b.entries[j - 1] # NoEntry
      BY <2>2 DEF Moved, Used
    <3>2. b.entries \in [Places -> {NoEntry} \cup (Keys \X Refs)]
      BY DEF Counted, BucketType
    <3>3. b.entries[j - 1] \in Keys \X Refs
      BY <3>1, <3>2
    <3> DEFINE e == b.entries[j - 1]
    <3> HIDE DEF e
    <3>4. IsNew(Put(c, e))
      BY <3>3, PutIsCounted DEF e
    <3> QED BY <2>2, <3>4 DEF e, Counted
  <2> QED BY <2>1, <2>2
<1> HIDE DEF first, V, more
<1>5. PICK w : /\ w \in [0 .. n -> V] /\ w[0] = first
               /\ \A j \in 1 .. n : w[j] = more(j, w[j - 1])
  <2> DEFINE step == [x \in (1 .. n) \X V |-> more(x[1], x[2])]
  <2>1. IsStep(step, n, V)
    BY <1>4 DEF IsStep
  <2> HIDE DEF step, n
  <2>2. PICK w : IsWalkOf(w, n, V, first, step)
    BY <1>1, <1>2, <2>1, WalkExists, Zenon
  <2>3. ASSUME NEW j \in 1 .. n PROVE w[j] = more(j, w[j - 1])
    <3>1. w[j] = step[<<j, w[j - 1]>>] /\ j - 1 \in 0 .. n
      BY <1>1, <2>2 DEF IsWalkOf
    <3>2. w[j - 1] \in V
      BY <2>2, <3>1 DEF IsWalkOf
    <3> QED BY <3>1, <3>2 DEF step
  <2> QED BY <2>2, <2>3 DEF IsWalkOf
<1> HIDE DEF n
<1>6. w = Body(w)
  <2>1. ASSUME NEW j \in 0 .. n PROVE w[j] = IF j = 0 THEN first ELSE more(j, w[j - 1])
    <3>1. j = 0 \/ (j \in 1 .. n /\ j # 0)
      BY <1>1
    <3> QED BY <1>5, <3>1, Zenon
  <2>2. w = [j \in 0 .. n |-> w[j]]
    BY <1>5
  <2> QED BY <2>1, <2>2, Zenon
<1>7. upTo = Body(upTo)
  BY <1>6, Zenon
<1> HIDE DEF upTo
<1>8. upTo[0] = first /\ \A j \in 1 .. n : upTo[j] = more(j, upTo[j - 1])
  <2>1. \A j \in 0 .. n : upTo[j] = IF j = 0 THEN first ELSE more(j, upTo[j - 1])
    BY <1>7, Zenon
  <2>2. 0 \in 0 .. n /\ \A j \in 1 .. n : j \in 0 .. n /\ j # 0
    BY <1>1
  <2> QED BY <2>1, <2>2, Zenon
<1> DEFINE before(j) == {i \in Moved(b) : i < j}
           good == {j \in Nat : /\ upTo[j] \in V /\ Cardinality(Used(upTo[j])) <= j
                                /\ ContentOf(upTo[j]) = {b.entries[i] : i \in before(j)}}
<1>9. 0 \in good
  <2>1. before(0) = {}
    <3>1. \A i \in Moved(b) : i \in 0 .. bucket_capacity - 1
      BY DEF Moved, Used, Places
    <3>2. \A i \in Moved(b) : ~(i < 0)
      BY <3>1
    <3> QED BY <3>2
  <2>2. Cardinality(Used(first)) = 0 /\ ContentOf(first) = {}
    <3>1. 2 ^ b.local_depth + b.prefix \in Nat /\ b.local_depth + 1 \in Nat
      BY DEF Counted, BucketType
    <3> QED BY <3>1, NewIsCounted DEF first
  <2> QED BY <1>2, <1>8, <2>1, <2>2
<1>10. ASSUME NEW j \in 0 .. n - 1, j \in good PROVE j + 1 \in good
  <2>1. j + 1 \in 1 .. n /\ (j + 1) - 1 = j /\ j + 1 \in Nat
    BY <1>1
  <2> DEFINE c == upTo[j]
             e == b.entries[j]
  <2>2. upTo[j + 1] = IF j \in Moved(b) THEN Put(c, e) ELSE c
    <3>1. upTo[j + 1] = more(j + 1, c)
      BY <1>8, <2>1
    <3> QED BY <2>1, <3>1 DEF more
  <2>3. c \in V /\ Cardinality(Used(c)) <= j /\ ContentOf(c) = {b.entries[i] : i \in before(j)}
    BY <1>10
  <2>4. upTo[j + 1] \in V
    <3>1. upTo[j + 1] = more(j + 1, c)
      BY <1>8, <2>1
    <3> QED BY <1>4, <2>1, <2>3, <3>1
  <2>5. Counted(c) /\ Cardinality(Used(c)) \in Nat
    BY <2>3, UsedFinite DEF V
  <2>6. j \in Nat /\ j < bucket_capacity
    BY <1>1 DEF n
  <2>7. \A i \in Moved(b) : i \in Nat
    BY PlacesFacts DEF Moved, Used
  <2>8. j \in Moved(b) => e \in Keys \X Refs
    <3>1. b.entries \in [Places -> {NoEntry} \cup (Keys \X Refs)]
      BY DEF Counted, BucketType
    <3>2. j \in Moved(b) => j \in Places /\ e # NoEntry
      BY DEF Moved, Used
    <3> QED BY <3>1, <3>2
  <2>9. before(j + 1) = before(j) \cup (Moved(b) \cap {j})
    BY <2>6, <2>7
  <2>10. Cardinality(Used(upTo[j + 1])) <= j + 1
         /\ ContentOf(upTo[j + 1]) = {b.entries[i] : i \in before(j + 1)}
    <3> HIDE DEF before, V, good
    <3>1. CASE j \notin Moved(b)
      <4>1. upTo[j + 1] = c /\ before(j + 1) = before(j)
        BY <2>2, <2>9, <3>1
      <4> HIDE DEF c
      <4> QED BY <2>3, <2>5, <2>6, <4>1
    <3>2. CASE j \in Moved(b)
      <4>1. upTo[j + 1] = Put(c, e) /\ before(j + 1) = before(j) \cup {j} /\ e \in Keys \X Refs
        BY <2>2, <2>8, <2>9, <3>2
      <4>2. {b.entries[i] : i \in before(j + 1)} = {b.entries[i] : i \in before(j)} \cup {e}
        BY <4>1
      <4> HIDE DEF c, e
      <4>3. Cardinality(Used(c)) < bucket_capacity
        BY <2>3, <2>5, <2>6, PlacesFacts
      <4>4. /\ ContentOf(Put(c, e)) = ContentOf(c) \cup {e}
             /\ Cardinality(Used(Put(c, e))) = Cardinality(Used(c)) + 1
        BY <2>5, <4>1, <4>3, PutAddsEntry
      <4>5. Cardinality(Used(c)) + 1 <= j + 1
        BY <2>3, <2>5, <2>6
      <4> QED BY <2>3, <4>1, <4>2, <4>4, <4>5
    <3> QED BY <3>1, <3>2
  <2> QED BY <2>1, <2>4, <2>10
<1>11. n \in good
  <2>1. n \in 0 .. n
    BY <1>1
  <2> HIDE DEF good
  <2>2. \A j \in 0 .. n - 1 : j \in good => j + 1 \in good
    BY <1>10
  <2> QED BY <1>1, <1>9, <2>1, <2>2, SetInduction
<1>12. before(n) = Moved(b)
  <2>1. \A i \in Moved(b) : i \in 0 .. n - 1
    BY DEF Moved, Used, Places, n
  <2> QED BY <1>1, <2>1
<1> QED BY <1>3, <1>11, <1>12 DEF V
-----------------------------------------------------------------------------
\* A bucket that may be on a page of an index of these pages and this depth.
Fits(b, given, depth) ==
  /\ Counted(b)
  /\ b.overflow_page \in {NULL_PAGE} \cup given
  /\ b.local_depth <= depth

BucketsInv ==
  /\ buckets = [p \in BucketIds |-> buckets[p]]
  /\ \A p \in BucketIds : Fits(buckets[p], allocated, directory.global_depth)

\* The directory leads to pages of the index.
SpaceInv ==
  /\ allocated \in SUBSET BucketIds
  /\ \A i \in 0 .. directory_capacity - 1 : directory.bucket_ptrs[i] \in {NULL_PAGE} \cup allocated

\* So does an insertion on its way along a chain.
OpInv ==
  op = Idle \/
    /\ op = [kind |-> op.kind, entry |-> op.entry, at |-> op.at, above |-> op.above]
    /\ op.kind \in {"insert", "split", "overflow", "relink"}
    /\ op.entry \in Keys \X Refs
    /\ op.at \in allocated
    /\ op.above \in Seq(BucketIds \X BucketIds)
    /\ \A k \in 1 .. Len(op.above) : op.above[k][1] \in allocated /\ op.above[k][2] \in allocated
    /\ op.kind = "relink" => Len(op.above) > 0
    /\ failures < MaxFailures

CountInv == pins \in [Pages -> Nat] /\ failures \in 0 .. MaxFailures

TypeInv == BucketsInv /\ SpaceInv /\ OpInv /\ CountInv

LEMMA DepthFacts ==
  ASSUME DirectoryInv
  PROVE  /\ directory.global_depth \in Nat
         /\ 2 ^ directory.global_depth \in Nat \ {0}
         /\ 2 ^ directory.global_depth <= directory_capacity
         /\ directory_capacity \in Nat
         /\ \A n \in 0 .. directory.global_depth :
              2 ^ n \in Nat /\ n < 2 ^ n /\ 2 ^ (n + 1) = 2 * 2 ^ n
<1>1. directory.global_depth \in 0 .. directory_capacity /\ directory_capacity \in Nat
  BY ExtendibleHashAssumption DEF DirectoryInv, ExtendibleHashAssumption
<1>2. \A n \in 0 .. directory.global_depth : n \in 0 .. directory_capacity
  BY <1>1
<1> QED BY <1>1, <1>2, PowersOfTwo DEF DirectoryInv

LEMMA Remainder ==
  ASSUME NEW k \in Nat, NEW n \in Nat \ {0}
  PROVE  k % n \in 0 .. n - 1
OBVIOUS

\* locate_bucket finds a page of the index.
LEMMA LocatedIsGiven ==
  ASSUME DirectoryInv, SpaceInv, NEW key \in Keys
  PROVE  locate_bucket(key) \in allocated
<1> DEFINE n == 2 ^ directory.global_depth
           i == key % n
<1>1. /\ n \in Nat \ {0} /\ n <= directory_capacity /\ directory_capacity \in Nat
      /\ \A j \in 0 .. n - 1 : directory.bucket_ptrs[j] # NULL_PAGE
  BY DepthFacts DEF DirectoryInv
<1>2. key \in Nat
  BY ExtendibleHashAssumption DEF ExtendibleHashAssumption
<1>3. locate_bucket(key) = directory.bucket_ptrs[i]
  BY DEF locate_bucket, hash_key
<1> HIDE DEF n
<1>4. i \in 0 .. n - 1
  BY <1>1, <1>2, Remainder
<1> HIDE DEF i
<1>5. i \in 0 .. directory_capacity - 1
  BY <1>1, <1>4
<1> QED BY <1>1, <1>3, <1>4, <1>5 DEF SpaceInv

\* A bucket still fits in a larger index.
LEMMA FitsLater ==
  ASSUME NEW b, NEW given, NEW later, given \subseteq later,
         NEW depth \in Nat, NEW deeper \in Nat, depth <= deeper, Fits(b, given, depth)
  PROVE  Fits(b, later, deeper)
<1>1. b.local_depth \in Nat
  BY DEF Fits, Counted, BucketType
<1> QED BY <1>1 DEF Fits

\* One bucket changed.
LEMMA BucketReplaced ==
  ASSUME BucketsInv, NEW q \in BucketIds, NEW b, buckets' = [buckets EXCEPT ![q] = b],
         allocated \subseteq allocated',
         directory.global_depth \in Nat, directory'.global_depth \in Nat,
         directory.global_depth <= directory'.global_depth,
         Fits(b, allocated', directory'.global_depth)
  PROVE  BucketsInv'
<1>1. /\ buckets' = [p \in BucketIds |-> buckets'[p]]
      /\ \A p \in BucketIds : buckets'[p] = IF p = q THEN b ELSE buckets[p]
  BY DEF BucketsInv
<1>2. \A p \in BucketIds : Fits(buckets[p], allocated', directory'.global_depth)
  BY FitsLater DEF BucketsInv
<1>3. \A p \in BucketIds : Fits(buckets'[p], allocated', directory'.global_depth)
  BY <1>1, <1>2
<1> QED BY <1>1, <1>3 DEF BucketsInv

\* Pins are counts.
LEMMA PinsAreCounts ==
  ASSUME NEW counts \in [Pages -> Nat], NEW p
  PROVE  /\ Pinned(counts, p) \in [Pages -> Nat]
         /\ Unpinned(counts, p) \in [Pages -> Nat]
<1>1. DOMAIN counts = Pages /\ \A q \in Pages : counts[q] \in Nat
  OBVIOUS
<1>2. /\ Pinned(counts, p) = [q \in Pages |-> IF q = p THEN counts[p] + 1 ELSE counts[q]]
      /\ Unpinned(counts, p) =
           [q \in Pages |-> IF q = p THEN IF counts[p] > 0 THEN counts[p] - 1 ELSE counts[p]
                           ELSE counts[q]]
  <2>1. Pinned(counts, p) = [counts EXCEPT ![p] = counts[p] + 1]
    BY Zenon DEF Pinned
  <2> DEFINE less == IF counts[p] > 0 THEN counts[p] - 1 ELSE counts[p]
  <2>2. Unpinned(counts, p) = [counts EXCEPT ![p] = less]
    BY Zenon DEF Unpinned
  <2> HIDE DEF less
  <2>3. [counts EXCEPT ![p] = less] = [q \in Pages |-> IF q = p THEN less ELSE counts[q]]
    OBVIOUS
  <2>4. [counts EXCEPT ![p] = counts[p] + 1] =
          [q \in Pages |-> IF q = p THEN counts[p] + 1 ELSE counts[q]]
    OBVIOUS
  <2> QED BY <2>1, <2>2, <2>3, <2>4, Zenon DEF less
<1>3. p \in Pages => counts[p] \in Nat /\ counts[p] + 1 \in Nat
                    /\ (counts[p] > 0 => counts[p] - 1 \in Nat)
  OBVIOUS
<1> QED BY <1>1, <1>2, <1>3

LEMMA LoadsKeepCounts ==
  ASSUME NEW counts \in [Pages -> Nat], NEW p
  PROVE  Unloaded(counts, p) \in [Pages -> Nat] /\ Visited(counts, p) \in [Pages -> Nat]
<1>1. ASSUME NEW c \in [Pages -> Nat] PROVE Unloaded(c, p) \in [Pages -> Nat]
  BY PinsAreCounts DEF Unloaded
<1> QED BY <1>1, PinsAreCounts DEF Visited

\* An entry put in a bucket of the index.
LEMMA EntryPut ==
  ASSUME DirectoryInv, TypeInv, op # Idle,
         buckets' = [buckets EXCEPT ![op.at] = Put(@, op.entry)],
         UNCHANGED <<directory, allocated>>
  PROVE  BucketsInv'
<1> DEFINE p == op.at
           b == buckets[p]
           e == op.entry
           c == Put(b, e)
<1>1. p \in BucketIds /\ e \in Keys \X Refs
  BY DEF TypeInv, OpInv, SpaceInv
<1>2. Fits(b, allocated, directory.global_depth)
  BY <1>1 DEF TypeInv, BucketsInv
<1> HIDE DEF b, e
<1>3. Fits(c, allocated, directory.global_depth)
  BY <1>1, <1>2, PutIsCounted DEF Fits
<1>4. buckets' = [buckets EXCEPT ![p] = c]
  BY DEF b, e
<1> HIDE DEF c, p
<1>5. /\ allocated \subseteq allocated' /\ BucketsInv
      /\ directory.global_depth \in Nat /\ directory'.global_depth \in Nat
      /\ directory.global_depth <= directory'.global_depth
      /\ Fits(c, allocated', directory'.global_depth)
  BY <1>3, DepthFacts DEF TypeInv
<1> QED BY <1>1, <1>4, <1>5, BucketReplaced

LEMMA InitTypes == Init => TypeInv
<1> SUFFICES ASSUME Init PROVE TypeInv
  OBVIOUS
<1>1. /\ 1 \in BucketIds /\ NULL_PAGE = 0 /\ MaxFailures \in Nat
  BY ExtendibleHashAssumption DEF BucketIds, NULL_PAGE, ExtendibleHashAssumption
<1> DEFINE b == NewBucket(0, 0)
<1>2. Fits(b, allocated, directory.global_depth)
  BY NewIsCounted DEF Fits, Init
<1> HIDE DEF b
<1>3. BucketsInv
  BY <1>2 DEF Init, BucketsInv, b
<1>4. SpaceInv
  BY <1>1 DEF Init, SpaceInv
<1>5. OpInv
  BY DEF Init, OpInv
<1>6. CountInv
  BY <1>1 DEF Init, CountInv
<1> QED BY <1>3, <1>4, <1>5, <1>6 DEF TypeInv

LEMMA BegunTyped ==
  ASSUME DirectoryInv, TypeInv, NEW key \in Keys, BeginInsert(key)
  PROVE  TypeInv'
<1> DEFINE p == locate_bucket(key)
<1>1. PICK ref \in Refs :
        op' = [kind |-> HowToInsert(buckets[p]), entry |-> <<key, ref>>, at |-> p, above |-> <<>>]
  BY DEF BeginInsert
<1>2. p \in allocated
  BY LocatedIsGiven DEF TypeInv
<1>3. HowToInsert(buckets[p]) \in {"insert", "split", "overflow"}
  BY DEF HowToInsert
<1> HIDE DEF p
<1>4. UNCHANGED <<directory, buckets, allocated, pins, failures>> /\ failures < MaxFailures
  BY DEF BeginInsert
<1>5. OpInv'
  <2> DEFINE how == HowToInsert(buckets[p])
             none == <<>>
  <2>1. none \in Seq(BucketIds \X BucketIds) /\ Len(none) = 0
    OBVIOUS
  <2>2. how \in {"insert", "split", "overflow"} /\ <<key, ref>> \in Keys \X Refs
    BY <1>3
  <2> HIDE DEF how, none
  <2>3. op' = [kind |-> how, entry |-> <<key, ref>>, at |-> p, above |-> none]
    BY <1>1 DEF how, none
  <2> DEFINE e == <<key, ref>>
  <2> HIDE DEF e
  <2>4. op'.kind = how /\ op'.entry = e /\ op'.at = p /\ op'.above = none
    BY <2>3 DEF e
  <2>5. op' = [kind |-> op'.kind, entry |-> op'.entry, at |-> op'.at, above |-> op'.above]
    BY <2>3, <2>4 DEF e
  <2>6. how # "relink" /\ \A k \in 1 .. 0 : FALSE
    BY <2>2
  <2> QED BY <1>2, <1>4, <2>1, <2>2, <2>4, <2>5, <2>6 DEF OpInv, e
<1> QED BY <1>4, <1>5 DEF TypeInv, BucketsInv, SpaceInv, CountInv

LEMMA InsertedTyped ==
  ASSUME DirectoryInv, TypeInv, InsertInBucket \/ InsertInOverflow
  PROVE  TypeInv'
<1>1. /\ op # Idle
      /\ buckets' = [buckets EXCEPT ![op.at] = Put(@, op.entry)]
      /\ UNCHANGED <<directory, allocated, failures>>
      /\ pins' = Visited(pins, op.at)
  BY DEF InsertInBucket, InsertInOverflow, Idle
<1>2. BucketsInv'
  BY <1>1, EntryPut
<1>3. CountInv'
  BY <1>1, LoadsKeepCounts DEF TypeInv, CountInv
<1>4. SpaceInv'
  BY <1>1 DEF TypeInv, SpaceInv
<1>5. OpInv'
  <2>1. CASE op' = Idle
    BY <2>1 DEF OpInv
  <2>2. CASE op' # Idle
    <3>1. InsertInOverflow /\ op.above # <<>> /\ op' = [op EXCEPT !.kind = "relink"]
      BY <2>2, Zenon DEF InsertInBucket, InsertInOverflow
    <3>2. /\ op = [kind |-> op.kind, entry |-> op.entry, at |-> op.at, above |-> op.above]
      BY <1>1 DEF TypeInv, OpInv
    <3>3. /\ op'.kind = "relink" /\ op'.entry = op.entry /\ op'.at = op.at /\ op'.above = op.above
          /\ op' = [kind |-> op'.kind, entry |-> op'.entry, at |-> op'.at, above |-> op'.above]
      BY <3>1, <3>2
    <3>4. Len(op.above) > 0
      <4>1. op.above \in Seq(BucketIds \X BucketIds) /\ op.above # <<>>
        BY <1>1, <3>1 DEF TypeInv, OpInv
      <4> QED BY <4>1
    <3> QED BY <1>1, <3>3, <3>4 DEF TypeInv, OpInv
  <2> QED BY <2>1, <2>2
<1> QED BY <1>2, <1>3, <1>4, <1>5 DEF TypeInv

\* The directory after a split is as deep as before, or one level deeper, and as deep as
\* the bucket that was split.
LEMMA SplitDepth ==
  ASSUME DirectoryInv, NEW b, Counted(b), b.local_depth <= directory.global_depth,
         NEW p, NEW d, d = IF b.local_depth >= directory.global_depth THEN Expanded(directory)
                           ELSE directory,
         directory' = [d EXCEPT !.bucket_ptrs[SplitNew(b).prefix] = p]
  PROVE  /\ directory'.global_depth \in Nat
         /\ directory.global_depth <= directory'.global_depth
         /\ b.local_depth + 1 <= directory'.global_depth
<1> DEFINE g == directory.global_depth
<1>1. g \in Nat /\ b.local_depth \in Nat
  BY DepthFacts DEF Counted, BucketType
<1>2. directory = [global_depth |-> g, bucket_ptrs |-> directory.bucket_ptrs]
  BY DEF DirectoryInv
<1> DEFINE place == SplitNew(b).prefix
<1> HIDE DEF place
<1>3. CASE ~(b.local_depth >= g)
  <2>1. directory' = [directory EXCEPT !.bucket_ptrs[place] = p]
    BY <1>3 DEF place
  <2>2. directory'.global_depth = g
    BY <1>2, <2>1
  <2> QED BY <1>1, <1>3, <2>2
<1>4. CASE b.local_depth >= g
  <2> DEFINE ptrs == Expanded(directory).bucket_ptrs
  <2>1. d = [global_depth |-> g + 1, bucket_ptrs |-> ptrs]
    BY <1>4 DEF Expanded
  <2>2. directory' = [d EXCEPT !.bucket_ptrs[place] = p]
    BY DEF place
  <2> HIDE DEF ptrs, g
  <2>3. directory'.global_depth = g + 1
    BY <2>1, <2>2
  <2> QED BY <1>1, <1>4, <2>3 DEF g
<1> QED BY <1>3, <1>4

\* The entries of the directory after a split.
SplitFrom(b, p, d) ==
  /\ d = IF b.local_depth >= directory.global_depth THEN Expanded(directory) ELSE directory
  /\ directory' = [d EXCEPT !.bucket_ptrs[SplitNew(b).prefix] = p]

Doubled(d) ==
  /\ d.global_depth = directory.global_depth + 1
  /\ d.bucket_ptrs =
       [i \in 0 .. directory_capacity - 1 |->
          IF i \in 2 ^ directory.global_depth .. 2 * 2 ^ directory.global_depth - 1
          THEN directory.bucket_ptrs[i - 2 ^ directory.global_depth]
          ELSE directory.bucket_ptrs[i]]

SplitTo(b, p, d) ==
  /\ directory'.bucket_ptrs = [d.bucket_ptrs EXCEPT ![SplitNew(b).prefix] = p]
  /\ d.global_depth = directory'.global_depth
  /\ b.local_depth >= directory.global_depth => Doubled(d)

LEMMA SplitPointers ==
  ASSUME DirectoryInv, NEW b, NEW p, NEW d, SplitFrom(b, p, d)
  PROVE  SplitTo(b, p, d)
<1> DEFINE g == directory.global_depth
           ptrs == directory.bucket_ptrs
           place == SplitNew(b).prefix
           copied == [i \in 0 .. directory_capacity - 1 |->
                        IF i \in 2 ^ g .. 2 * 2 ^ g - 1 THEN ptrs[i - 2 ^ g] ELSE ptrs[i]]
<1>1. directory = [global_depth |-> g, bucket_ptrs |-> ptrs]
  BY DEF DirectoryInv
<1>2. DOMAIN ptrs = 0 .. directory_capacity - 1
  BY DEF DirectoryInv
<1>3. Expanded(directory) = [global_depth |-> g + 1, bucket_ptrs |-> copied]
  BY <1>2, Zenon DEF Expanded
<1> HIDE DEF place, copied, ptrs
<1>7. /\ d = IF b.local_depth >= g THEN Expanded(directory) ELSE directory
      /\ directory' = [d EXCEPT !.bucket_ptrs[SplitNew(b).prefix] = p]
  BY DEF SplitFrom
<1>4. \E x, y : d = [global_depth |-> x, bucket_ptrs |-> y]
  BY <1>1, <1>3, <1>7
<1>5. /\ directory'.bucket_ptrs = [d.bucket_ptrs EXCEPT ![place] = p]
      /\ d.global_depth = directory'.global_depth
  BY <1>4, <1>7 DEF place
<1>6. ASSUME b.local_depth >= g PROVE d.global_depth = g + 1 /\ d.bucket_ptrs = copied
  <2>1. d = [global_depth |-> g + 1, bucket_ptrs |-> copied]
    BY <1>3, <1>6, <1>7
  <2> HIDE DEF g
  <2> QED BY <2>1
<1> QED BY <1>5, <1>6, Zenon DEF place, ptrs, copied, SplitTo, Doubled

LEMMA SplitTyped ==
  ASSUME DirectoryInv, TypeInv, SplitBucket
  PROVE  TypeInv'
<1> DEFINE q == op.at
           b == buckets[q]
           d == IF b.local_depth >= directory.global_depth THEN Expanded(directory) ELSE directory
           place == SplitNew(b).prefix
<1>1. PICK p \in BucketIds :
        /\ IsNewPage(p)
        /\ allocated' = allocated \cup {p}
        /\ buckets' = [buckets EXCEPT ![q] = SplitOld(b), ![p] = SplitNew(b)]
        /\ directory' = [d EXCEPT !.bucket_ptrs[place] = p]
        /\ pins' = Visited(Visited(Visited(pins, directory_id), q), p)
  BY DEF SplitBucket
<1>2. op.kind = "split" /\ op' = Idle /\ failures' = failures
  BY DEF SplitBucket
<1>3. op # Idle /\ q \in allocated /\ q \in BucketIds
  BY <1>2 DEF TypeInv, OpInv, SpaceInv, Idle
<1>4. Fits(b, allocated, directory.global_depth)
  BY <1>3 DEF TypeInv, BucketsInv
<1>5. p # q /\ p \notin allocated
  BY <1>1, <1>3 DEF IsNewPage
<1>6. directory.global_depth \in Nat /\ b.local_depth \in Nat /\ Counted(b)
      /\ b.local_depth <= directory.global_depth
  BY <1>4, DepthFacts DEF Fits, Counted, BucketType
<1>7. 2 ^ b.local_depth \in Nat
  BY <1>6, DepthFacts
<1>8. /\ directory'.global_depth \in Nat
      /\ directory.global_depth <= directory'.global_depth
      /\ b.local_depth + 1 <= directory'.global_depth
  <2> HIDE DEF b
  <2> QED BY <1>1, <1>6, SplitDepth
<1>9. directory'.bucket_ptrs = [d.bucket_ptrs EXCEPT ![place] = p]
  <2>1. SplitFrom(b, p, d)
    BY <1>1, Zenon DEF SplitFrom
  <2> HIDE DEF b, d
  <2>2. SplitTo(b, p, d)
    BY <2>1, SplitPointers, Zenon
  <2> QED BY <2>2, Zenon DEF SplitTo
<1> DEFINE old == SplitOld(b)
           new == SplitNew(b)
<1>10. Fits(old, allocated', directory'.global_depth)
  <2> HIDE DEF b
  <2> QED BY <1>1, <1>4, <1>6, <1>8, OldIsCounted DEF Fits
<1>11. Fits(new, allocated', directory'.global_depth)
  <2> HIDE DEF b
  <2> QED BY <1>1, <1>4, <1>6, <1>7, <1>8, NewIsMoved DEF Fits
<1>12. BucketsInv'
  <2> HIDE DEF old, new, b
  <2>1. buckets' = [buckets EXCEPT ![q] = old, ![p] = new]
    BY <1>1 DEF old, new
  <2>2. /\ buckets' = [r \in BucketIds |-> buckets'[r]]
        /\ \A r \in BucketIds : buckets'[r] = IF r = p THEN new ELSE IF r = q THEN old ELSE buckets[r]
    <3>1. DOMAIN buckets = BucketIds /\ buckets = [r \in BucketIds |-> buckets[r]]
      BY DEF TypeInv, BucketsInv
    <3> HIDE DEF q
    <3> QED BY <2>1, <3>1
  <2>3. \A r \in BucketIds : Fits(buckets[r], allocated', directory'.global_depth)
    BY <1>1, <1>6, <1>8, FitsLater DEF TypeInv, BucketsInv
  <2>4. \A r \in BucketIds : Fits(buckets'[r], allocated', directory'.global_depth)
    <3> HIDE DEF q
    <3> QED BY <1>10, <1>11, <2>2, <2>3
  <2> QED BY <2>2, <2>4 DEF BucketsInv
<1>13. SpaceInv'
  <2>1. ASSUME NEW i \in 0 .. directory_capacity - 1
        PROVE  d.bucket_ptrs[i] \in {NULL_PAGE} \cup allocated
    <3>1. CASE ~(b.local_depth >= directory.global_depth)
      BY <3>1 DEF TypeInv, SpaceInv
    <3>2. CASE b.local_depth >= directory.global_depth
      <4> DEFINE n == 2 ^ directory.global_depth
      <4>1. d.bucket_ptrs = [j \in 0 .. directory_capacity - 1 |->
                               IF j \in n .. 2 * n - 1 THEN directory.bucket_ptrs[j - n]
                               ELSE directory.bucket_ptrs[j]]
        <5>1. SplitFrom(b, p, d)
          BY <1>1, Zenon DEF SplitFrom
        <5> HIDE DEF b, d
        <5>2. SplitTo(b, p, d)
          BY <5>1, SplitPointers, Zenon
        <5>3. Doubled(d)
          BY <3>2, <5>2, Zenon DEF SplitTo
        <5> QED BY <5>3, Zenon DEF Doubled
      <4>2. n \in Nat /\ n <= directory_capacity /\ directory_capacity \in Nat
        BY DepthFacts
      <4> HIDE DEF n, d
      <4>3. CASE i \in n .. 2 * n - 1
        <5>1. i - n \in 0 .. directory_capacity - 1 /\ d.bucket_ptrs[i] = directory.bucket_ptrs[i - n]
          BY <4>1, <4>2, <4>3
        <5> QED BY <5>1 DEF TypeInv, SpaceInv
      <4>4. CASE ~(i \in n .. 2 * n - 1)
        <5>1. d.bucket_ptrs[i] = directory.bucket_ptrs[i]
          BY <4>1, <4>4
        <5> QED BY <5>1 DEF TypeInv, SpaceInv
      <4> QED BY <4>3, <4>4
    <3> QED BY <3>1, <3>2
  <2> HIDE DEF d, place
  <2>2. DOMAIN d.bucket_ptrs = 0 .. directory_capacity - 1
    <3>1. DirectoryInv'
      BY NextDirectory DEF Next
    <3> QED BY <1>9, <3>1 DEF DirectoryInv
  <2>3. ASSUME NEW i \in 0 .. directory_capacity - 1
        PROVE  directory'.bucket_ptrs[i] \in {NULL_PAGE} \cup allocated'
    <3>1. directory'.bucket_ptrs[i] = IF i = place THEN p ELSE d.bucket_ptrs[i]
      BY <1>9, <2>2
    <3> QED BY <1>1, <2>1, <3>1
  <2> QED BY <1>1, <2>3 DEF TypeInv, SpaceInv
<1>14. OpInv'
  BY <1>2 DEF OpInv
<1>15. CountInv'
  <2>1. pins' \in [Pages -> Nat]
    BY <1>1, LoadsKeepCounts DEF TypeInv, CountInv
  <2> QED BY <1>2, <2>1 DEF TypeInv, CountInv
<1> QED BY <1>12, <1>13, <1>14, <1>15 DEF TypeInv

\* A chain followed one bucket further.
LEMMA AppendedOp ==
  ASSUME OpInv, op # Idle, SpaceInv, allocated \subseteq allocated', NEW next \in allocated',
         op' = [op EXCEPT !.at = next, !.above = Append(@, <<op.at, next>>)],
         failures' = failures, allocated' \in SUBSET BucketIds, op.kind = "overflow"
  PROVE  OpInv'
<1> DEFINE link == <<op.at, next>>
           s == op.above
           V == BucketIds \X BucketIds
<1>1. op = [kind |-> op.kind, entry |-> op.entry, at |-> op.at, above |-> s]
  BY DEF OpInv
<1>2. s \in Seq(V) /\ link \in V /\ link[1] \in allocated' /\ link[2] \in allocated'
      /\ \A k \in 1 .. Len(s) : s[k][1] \in allocated' /\ s[k][2] \in allocated'
  BY DEF OpInv, SpaceInv
<1> HIDE DEF s, V, link
<1>3. op' = [kind |-> op.kind, entry |-> op.entry, at |-> next, above |-> Append(s, link)]
  <2> DEFINE longer == Append(s, link)
  <2>1. op' = [op EXCEPT !.at = next, !.above = longer]
    BY DEF s, link
  <2> HIDE DEF longer
  <2> QED BY <1>1, <2>1 DEF longer
<1>4. /\ op'.kind = "overflow" /\ op'.entry = op.entry /\ op'.at = next /\ op'.above = Append(s, link)
      /\ op' = [kind |-> op'.kind, entry |-> op'.entry, at |-> op'.at, above |-> op'.above]
  <2> DEFINE longer == Append(s, link)
  <2>1. PICK k, e, a : k = op.kind /\ e = op.entry /\ a = longer
    OBVIOUS
  <2> HIDE DEF longer
  <2>2. op' = [kind |-> k, entry |-> e, at |-> next, above |-> a]
    BY <1>3, <2>1, Zenon DEF longer
  <2>3. op'.kind = k /\ op'.entry = e /\ op'.at = next /\ op'.above = a
    BY ONLY <2>2
  <2>4. op' = [kind |-> op'.kind, entry |-> op'.entry, at |-> op'.at, above |-> op'.above]
    BY ONLY <2>2, <2>3
  <2> QED BY <2>1, <2>3, <2>4 DEF longer
<1>5. /\ Append(s, link) \in Seq(V)
      /\ \A k \in 1 .. Len(Append(s, link)) :
           Append(s, link)[k][1] \in allocated' /\ Append(s, link)[k][2] \in allocated'
  <2>1. /\ Append(s, link) \in Seq(V) /\ Len(Append(s, link)) = Len(s) + 1 /\ Len(s) \in Nat
        /\ \A k \in 1 .. Len(s) : Append(s, link)[k] = s[k]
        /\ Append(s, link)[Len(s) + 1] = link
    BY <1>2
  <2>2. \A k \in 1 .. Len(s) + 1 : k \in 1 .. Len(s) \/ k = Len(s) + 1
    BY <2>1
  <2> QED BY <1>2, <2>1, <2>2
<1>6. op.entry \in Keys \X Refs /\ failures < MaxFailures
  BY DEF OpInv
<1> QED BY <1>4, <1>5, <1>6 DEF OpInv, V

LEMMA FollowedTyped ==
  ASSUME DirectoryInv, TypeInv, FollowOverflow
  PROVE  TypeInv'
<1>1. /\ op.kind = "overflow" /\ UNCHANGED <<directory, buckets, allocated, pins, failures>>
  BY DEF FollowOverflow
<1>2. PICK next : /\ next = buckets[op.at].overflow_page /\ next # NULL_PAGE
                  /\ op' = [op EXCEPT !.at = next, !.above = Append(@, <<op.at, next>>)]
  BY DEF FollowOverflow
<1>3. op # Idle /\ op.at \in BucketIds
  BY <1>1 DEF TypeInv, OpInv, SpaceInv, Idle
<1>4. next \in allocated
  BY <1>2, <1>3 DEF TypeInv, BucketsInv, Fits
<1>5. OpInv'
  BY <1>1, <1>2, <1>3, <1>4, AppendedOp DEF TypeInv, SpaceInv
<1> QED BY <1>1, <1>5 DEF TypeInv, BucketsInv, SpaceInv, CountInv

LEMMA AddedTyped ==
  ASSUME DirectoryInv, TypeInv, AddOverflow
  PROVE  TypeInv'
<1> DEFINE b == buckets[op.at]
<1>1. op.kind = "overflow" /\ UNCHANGED <<directory, pins, failures>>
  BY DEF AddOverflow
<1>2. PICK p \in BucketIds :
        /\ IsNewPage(p)
        /\ allocated' = allocated \cup {p}
        /\ buckets' = [buckets EXCEPT ![p] = NewBucket(b.prefix, b.local_depth)]
        /\ op' = [op EXCEPT !.at = p, !.above = Append(@, <<op.at, p>>)]
  BY DEF AddOverflow
<1>3. op # Idle /\ op.at \in BucketIds
  BY <1>1 DEF TypeInv, OpInv, SpaceInv, Idle
<1>4. Fits(b, allocated, directory.global_depth)
  BY <1>3 DEF TypeInv, BucketsInv
<1> DEFINE new == NewBucket(b.prefix, b.local_depth)
<1>5. Fits(new, allocated', directory'.global_depth)
  <2> HIDE DEF b
  <2>1. b.prefix \in Nat /\ b.local_depth \in Nat /\ b.local_depth <= directory.global_depth
    BY <1>4 DEF Fits, Counted, BucketType
  <2> QED BY <1>1, <2>1, NewIsCounted DEF Fits
<1> HIDE DEF new
<1>6. BucketsInv'
  <2>1. buckets' = [buckets EXCEPT ![p] = new] /\ allocated \subseteq allocated'
    BY <1>2 DEF new
  <2>2. /\ BucketsInv
        /\ directory.global_depth \in Nat /\ directory'.global_depth \in Nat
        /\ directory.global_depth <= directory'.global_depth
    BY <1>1, DepthFacts DEF TypeInv
  <2> QED BY <1>5, <2>1, <2>2, BucketReplaced
<1>7. SpaceInv'
  BY <1>1, <1>2 DEF TypeInv, SpaceInv
<1>8. OpInv'
  BY <1>1, <1>2, <1>3, <1>7, AppendedOp DEF TypeInv, SpaceInv
<1> QED BY <1>1, <1>6, <1>7, <1>8 DEF TypeInv, CountInv

LEMMA LinkedFits ==
  ASSUME NEW b, NEW given \in SUBSET BucketIds, NEW depth, Fits(b, given, depth), NEW p \in given
  PROVE  Fits(Linked(b, p), given, depth)
<1> DEFINE c == Linked(b, p)
<1>1. /\ b = [prefix |-> b.prefix, local_depth |-> b.local_depth, size |-> b.size,
              overflow_page |-> b.overflow_page, entries |-> b.entries]
      /\ b.prefix \in Nat /\ b.local_depth \in Nat /\ b.size \in Nat
      /\ b.entries \in [Places -> {NoEntry} \cup (Keys \X Refs)]
  BY DEF Fits, Counted, BucketType
<1>2. c = [prefix |-> b.prefix, local_depth |-> b.local_depth, size |-> b.size,
           overflow_page |-> p, entries |-> b.entries]
  BY <1>1 DEF Linked
<1> HIDE DEF c
<1>3. c \in BucketType
  <2>1. p \in Nat
    BY ExtendibleHashAssumption DEF BucketIds, ExtendibleHashAssumption
  <2> QED BY <1>1, <1>2, <2>1 DEF BucketType
<1>4. /\ c.entries = b.entries /\ c.size = b.size /\ c.local_depth = b.local_depth
      /\ c.overflow_page = p
  BY <1>2
<1>5. Used(c) = Used(b)
  BY <1>4 DEF Used
<1>6. b.local_depth <= depth /\ b.size = SizeOf(Cardinality(Used(b)))
  BY DEF Fits, Counted
<1> QED BY <1>3, <1>4, <1>5, <1>6 DEF Fits, Counted, c

LEMMA RelinkedTyped ==
  ASSUME DirectoryInv, TypeInv, Relink
  PROVE  TypeInv'
<1> DEFINE s == op.above
           n == Len(s)
           V == BucketIds \X BucketIds
<1>1. /\ op.kind = "relink" /\ UNCHANGED <<directory, allocated, failures>>
      /\ buckets' = [buckets EXCEPT ![s[n][1]] = Linked(@, s[n][2])]
      /\ pins' = Unloaded(pins, s[n][1])
  BY DEF Relink
<1>2. op # Idle
  BY <1>1 DEF Idle
<1>3. /\ s \in Seq(V) /\ n \in Nat /\ n > 0
      /\ \A k \in 1 .. n : s[k][1] \in allocated /\ s[k][2] \in allocated
  BY <1>1, <1>2 DEF TypeInv, OpInv
<1>4. n \in 1 .. n
  BY <1>3
<1> DEFINE p == s[n][1]
           q == s[n][2]
           b == Linked(buckets[p], q)
<1>5. p \in allocated /\ q \in allocated /\ p \in BucketIds
  BY <1>3, <1>4 DEF TypeInv, SpaceInv
<1>6. Fits(b, allocated, directory.global_depth)
  <2> DEFINE a == buckets[p]
  <2>1. Fits(a, allocated, directory.global_depth) /\ allocated \in SUBSET BucketIds
    BY <1>5 DEF TypeInv, BucketsInv, SpaceInv
  <2> HIDE DEF a, q, p
  <2>2. Fits(Linked(a, q), allocated, directory.global_depth)
    BY <1>5, <2>1, LinkedFits
  <2> QED BY <2>2 DEF a
<1>7. BucketsInv'
  <2>1. buckets' = [buckets EXCEPT ![p] = b]
    BY <1>1
  <2> HIDE DEF b, p
  <2>2. allocated \subseteq allocated' /\ directory'.global_depth = directory.global_depth
    BY <1>1
  <2>3. Fits(b, allocated', directory'.global_depth) /\ directory.global_depth \in Nat
    BY <1>1, <1>6, DepthFacts
  <2>4. directory.global_depth <= directory'.global_depth /\ directory'.global_depth \in Nat
    BY <2>2, <2>3
  <2> QED BY <1>5, <2>1, <2>2, <2>3, <2>4, BucketReplaced DEF TypeInv
<1>8. SpaceInv'
  BY <1>1 DEF TypeInv, SpaceInv
<1>9. CountInv'
  <2>1. pins' \in [Pages -> Nat]
    BY <1>1, LoadsKeepCounts DEF TypeInv, CountInv
  <2> QED BY <1>1, <2>1 DEF TypeInv, CountInv
<1>10. OpInv'
  <2>1. CASE n = 1
    BY <1>1, <2>1 DEF OpInv, Relink
  <2>2. CASE n # 1
    <3> DEFINE t == SubSeq(s, 1, n - 1)
    <3>1. op' = [op EXCEPT !.above = t]
      BY <2>2 DEF Relink
    <3>2. op = [kind |-> op.kind, entry |-> op.entry, at |-> op.at, above |-> s]
      BY <1>2 DEF TypeInv, OpInv
    <3>3. t \in Seq(V) /\ Len(t) = n - 1 /\ \A k \in 1 .. n - 1 : t[k] = s[k]
      <4> HIDE DEF s, V
      <4>1. s \in Seq(V) /\ Len(s) = n /\ n \in Nat /\ n > 1
        <5>1. s \in Seq(V) /\ Len(s) = n /\ n \in Nat /\ n > 0 /\ n # 1
          BY <1>3, <2>2
        <5> HIDE DEF n
        <5> QED BY <5>1
      <4>2. /\ t \in Seq(V) /\ Len(t) = n - 1 /\ \A k \in 1 .. n - 1 : t[k] = s[k]
        BY <4>1
      <4> QED BY <4>2
    <3>4. \A k \in 1 .. n - 1 : k \in 1 .. n
      BY <1>3
    <3> HIDE DEF t, s
    <3>5. /\ op'.kind = op.kind /\ op'.entry = op.entry /\ op'.at = op.at /\ op'.above = t
          /\ op' = [kind |-> op'.kind, entry |-> op'.entry, at |-> op'.at, above |-> op'.above]
      BY <3>1, <3>2
    <3>6. \A k \in 1 .. n - 1 : t[k][1] \in allocated /\ t[k][2] \in allocated
      BY <1>3, <3>3, <3>4
    <3>7. op.entry \in Keys \X Refs /\ op.at \in allocated /\ failures < MaxFailures
      BY <1>2 DEF TypeInv, OpInv
    <3>8. n - 1 > 0
      <4>1. n \in Nat /\ n > 0 /\ n # 1
        BY <1>3, <2>2
      <4> HIDE DEF n
      <4> QED BY <4>1
    <3> HIDE DEF n
    <3> QED BY <1>1, <3>3, <3>5, <3>6, <3>7, <3>8 DEF OpInv
  <2> QED BY <2>1, <2>2
<1> QED BY <1>7, <1>8, <1>9, <1>10 DEF TypeInv

LEMMA FailedTyped ==
  ASSUME TypeInv, LoadFails
  PROVE  TypeInv'
<1>1. op # Idle /\ op' = Idle /\ failures' = failures + 1 /\ UNCHANGED <<directory, buckets, allocated>>
  BY DEF LoadFails
<1>2. failures < MaxFailures /\ failures \in 0 .. MaxFailures /\ MaxFailures \in Nat
  BY <1>1, ExtendibleHashAssumption DEF TypeInv, OpInv, CountInv, ExtendibleHashAssumption
<1>3. failures' \in 0 .. MaxFailures
  BY <1>1, <1>2
<1>4. pins' \in [Pages -> Nat]
  <2>1. pins \in [Pages -> Nat]
    BY DEF TypeInv, CountInv
  <2>2. \/ UNCHANGED pins
        \/ pins' = Pinned(pins, directory_id)
        \/ pins' = Pinned(Pinned(pins, directory_id), op.at)
        \/ pins' = Pinned(pins, op.at)
    BY DEF LoadFails
  <2>3. Pinned(pins, directory_id) \in [Pages -> Nat] /\ Pinned(pins, op.at) \in [Pages -> Nat]
    BY <2>1, PinsAreCounts
  <2>4. Pinned(Pinned(pins, directory_id), op.at) \in [Pages -> Nat]
    BY <2>3, PinsAreCounts
  <2> QED BY <2>1, <2>2, <2>3, <2>4
<1> QED BY <1>1, <1>3, <1>4 DEF TypeInv, BucketsInv, SpaceInv, OpInv, CountInv

\* remove gives every page back as it was.
LEMMA RemovedSame ==
  ASSUME BucketsInv, NEW key, RemoveKey(key)
  PROVE  UNCHANGED vars
<1>1. \A p \in BucketIds : Cleared(buckets[p], key) = buckets[p]
  BY DEF Cleared
<1>2. buckets' = [p \in BucketIds |-> buckets[p]]
  BY <1>1, Zenon DEF RemoveKey
<1>3. buckets' = buckets
  BY <1>2 DEF BucketsInv
<1> QED BY <1>3 DEF RemoveKey, vars

LEMMA SameTyped == TypeInv /\ UNCHANGED vars => TypeInv'
BY DEF vars, TypeInv, BucketsInv, SpaceInv, OpInv, CountInv

LEMMA NextTypes == DirectoryInv /\ TypeInv /\ [Next]_vars => TypeInv'
<1> SUFFICES ASSUME DirectoryInv, TypeInv, [Next]_vars PROVE TypeInv'
  OBVIOUS
<1>1. CASE InsertInBucket \/ InsertInOverflow
  BY <1>1, InsertedTyped
<1>2. CASE SplitBucket
  BY <1>2, SplitTyped
<1>3. CASE FollowOverflow
  BY <1>3, FollowedTyped
<1>4. CASE AddOverflow
  BY <1>4, AddedTyped
<1>5. CASE Relink
  BY <1>5, RelinkedTyped
<1>6. CASE LoadFails
  BY <1>6, FailedTyped
<1>7. ASSUME NEW key \in Keys, BeginInsert(key) PROVE TypeInv'
  BY <1>7, BegunTyped
<1>8. ASSUME NEW key \in Keys, RemoveKey(key) PROVE TypeInv'
  BY <1>8, RemovedSame, SameTyped DEF TypeInv
<1>9. CASE UNCHANGED vars
  BY <1>9, SameTyped
<1> QED BY <1>1, <1>2, <1>3, <1>4, <1>5, <1>6, <1>7, <1>8, <1>9 DEF Next

LEMMA AlwaysTyped == Spec => []TypeInv
<1>1. IInv => DirectoryInv
  BY DEF IInv
<1> QED BY <1>1, InitTypes, NextTypes, Inductive, PTL DEF Spec

\* The types, for every capacity, every key and every number of pages and failures.
THEOREM HashTypeCorrect == Spec => []TypeOK
<1>1. DirectoryInv /\ TypeInv => TypeOK
  <2> SUFFICES ASSUME DirectoryInv, TypeInv PROVE TypeOK
    OBVIOUS
  <2>1. directory.global_depth \in Nat
    BY DepthFacts
  <2>2. directory.bucket_ptrs \in [0 .. directory_capacity - 1 -> {NULL_PAGE} \cup allocated]
    BY DEF DirectoryInv, TypeInv, SpaceInv
  <2>3. \A p \in BucketIds : Fits(buckets[p], allocated, directory.global_depth)
    BY DEF TypeInv, BucketsInv
  <2>4. ASSUME NEW p \in BucketIds
        PROVE  /\ buckets[p].overflow_page \in {NULL_PAGE} \cup allocated
               /\ buckets[p].entries \in [Places -> {NoEntry} \cup (Keys \X Refs)]
               /\ buckets[p].size = Cardinality(Used(buckets[p])) % SizeValues
               /\ buckets[p].local_depth <= directory.global_depth
    BY <2>3 DEF Fits, Counted, BucketType, SizeOf
  <2>5. op.kind \in {"none", "insert", "split", "overflow", "relink"}
    BY DEF TypeInv, OpInv, Idle
  <2>6. pins \in [Pages -> Nat] /\ failures \in 0 .. MaxFailures /\ allocated \in SUBSET BucketIds
    BY DEF TypeInv, CountInv, SpaceInv
  <2> QED BY <2>1, <2>2, <2>4, <2>5, <2>6 DEF TypeOK
<1>2. IInv => DirectoryInv
  BY DEF IInv
<1> QED BY <1>1, <1>2, AlwaysTyped, Inductive, PTL
-----------------------------------------------------------------------------

Pointer(i) == directory.bucket_ptrs[i]

\* The entry of the directory that has the number of its bucket.
IsHome(n) == n \in DirectoryEntries /\ buckets[Pointer(n)].prefix = n

\* Every bucket of the directory is at the entry of its prefix.
HomesInv ==
  \A i \in DirectoryEntries :
    LET b == buckets[Pointer(i)]
    IN  b.prefix < 2 ^ b.local_depth /\ Pointer(b.prefix) = Pointer(i)

\* A bucket came from the split of another, which is deeper since.
SplitsInv ==
  \A l \in 0 .. directory.global_depth - 1, q \in DirectoryEntries :
    q < 2 ^ l /\ IsHome(2 ^ l + q) => IsHome(q) /\ l < buckets[Pointer(q)].local_depth

SplitsOfDirectory == op.kind = "split" => \E i \in DirectoryEntries : Pointer(i) = op.at

RootsInv == HomesInv /\ SplitsInv /\ SplitsOfDirectory

\* The powers of two grow.
LEMMA PowersGrow ==
  ASSUME NEW n \in 0 .. directory_capacity, NEW m \in 0 .. n
  PROVE  /\ 2 ^ n \in Nat \ {0} /\ 2 ^ m \in Nat \ {0}
         /\ 2 ^ m <= 2 ^ n
         /\ m < n => 2 * 2 ^ m <= 2 ^ n
<1> DEFINE good == {k \in Nat : 2 ^ m <= 2 ^ (m + k) /\ (k > 0 => 2 * 2 ^ m <= 2 ^ (m + k))}
           N == n - m
<1>1. N \in Nat /\ directory_capacity \in Nat /\ m \in Nat /\ m + N = n
  BY ExtendibleHashAssumption DEF ExtendibleHashAssumption
<1>2. ASSUME NEW k \in 0 .. N
      PROVE  /\ m + k \in 0 .. directory_capacity
             /\ 2 ^ (m + k) \in Nat \ {0} /\ 2 ^ ((m + k) + 1) = 2 * 2 ^ (m + k)
  <2>1. m + k \in 0 .. directory_capacity
    BY <1>1
  <2> DEFINE j == m + k
  <2> HIDE DEF j
  <2>2. 2 ^ j \in Nat /\ j < 2 ^ j /\ 2 ^ (j + 1) = 2 * 2 ^ j /\ j \in Nat
    BY <2>1, PowersOfTwo DEF j
  <2>3. 2 ^ j # 0
    BY <2>2
  <2> QED BY <2>1, <2>2, <2>3 DEF j
<1>3. 0 \in good
  BY <1>1, <1>2
<1>4. ASSUME NEW k \in 0 .. N - 1, k \in good PROVE k + 1 \in good
  <2>1. k \in 0 .. N /\ k + 1 \in Nat /\ k + 1 \in 0 .. N
    BY <1>1
  <2> DEFINE x == 2 ^ (m + k)
             y == 2 ^ (m + (k + 1))
             z == 2 ^ m
  <2>2. m + (k + 1) = (m + k) + 1
    BY <1>1
  <2>3. x \in Nat \ {0} /\ y = 2 * x
    BY <1>2, <2>1, <2>2
  <2>4. z \in Nat /\ z <= x
    BY <1>1, <1>2, <1>4
  <2> HIDE DEF x, y, z
  <2>5. z <= y /\ 2 * z <= y
    BY <2>3, <2>4
  <2> QED BY <2>1, <2>5 DEF x, y, z
<1> HIDE DEF good
<1>5. \A k \in 0 .. N : k \in good
  BY <1>1, <1>3, <1>4, SetInduction
<1>6. N \in good
  BY <1>1, <1>5
<1>7. 2 ^ n \in Nat \ {0} /\ 2 ^ m \in Nat \ {0}
  BY <1>1, <1>2
<1> QED BY <1>1, <1>6, <1>7 DEF good

\* A number is in one way a power of two and less than that.
LEMMA OneHighBit ==
  ASSUME NEW l \in 0 .. directory_capacity - 1, NEW k \in 0 .. directory_capacity - 1,
         NEW q \in Nat, NEW r \in Nat, q < 2 ^ l, r < 2 ^ k, 2 ^ l + q = 2 ^ k + r
  PROVE  l = k /\ q = r
<1> DEFINE x == 2 ^ l
           y == 2 ^ k
<1>1. directory_capacity \in Nat
  BY ExtendibleHashAssumption DEF ExtendibleHashAssumption
<1>2. l \in 0 .. directory_capacity /\ k \in 0 .. directory_capacity /\ l \in Nat /\ k \in Nat
  BY <1>1
<1>3. x \in Nat \ {0} /\ y \in Nat \ {0}
  BY <1>2, PowersGrow
<1>4. CASE l < k
  <2>1. 2 * x <= y
    BY <1>2, <1>4, PowersGrow
  <2> HIDE DEF x, y
  <2>2. q < x /\ x + q = y + r
    BY DEF x, y
  <2> QED BY <1>3, <2>1, <2>2
<1>5. CASE k < l
  <2>1. 2 * y <= x
    BY <1>2, <1>5, PowersGrow
  <2> HIDE DEF x, y
  <2>2. r < y /\ x + q = y + r
    BY DEF x, y
  <2> QED BY <1>3, <2>1, <2>2
<1>6. CASE l = k
  <2>1. x = y /\ x + q = y + r
    BY <1>6
  <2> HIDE DEF x, y
  <2>2. q = r
    BY <1>3, <2>1
  <2> QED BY <1>6, <2>2
<1> QED BY <1>2, <1>4, <1>5, <1>6

\* The entries of the directory lead to pages of the index.
LEMMA EntryFacts ==
  ASSUME DirectoryInv, SpaceInv
  PROVE  /\ \A i \in DirectoryEntries :
              i \in Nat /\ i \in 0 .. directory_capacity - 1 /\ Pointer(i) \in allocated
         /\ allocated \subseteq BucketIds
         /\ BucketIds \subseteq Nat \ {NULL_PAGE}
         /\ 0 \in DirectoryEntries
<1> DEFINE n == 2 ^ directory.global_depth
<1>1. /\ n \in Nat \ {0} /\ n <= directory_capacity /\ directory_capacity \in Nat
      /\ \A i \in 0 .. n - 1 : directory.bucket_ptrs[i] # NULL_PAGE
  BY DepthFacts DEF DirectoryInv
<1>2. DirectoryEntries = 0 .. n - 1
  BY DEF DirectoryEntries
<1> HIDE DEF n
<1>3. ASSUME NEW i \in 0 .. n - 1
      PROVE  i \in Nat /\ i \in 0 .. directory_capacity - 1 /\ Pointer(i) \in allocated
  <2>1. i \in Nat /\ i \in 0 .. directory_capacity - 1
    BY <1>1
  <2> QED BY <1>1, <2>1 DEF SpaceInv, Pointer
<1>4. BucketIds \subseteq Nat \ {NULL_PAGE}
  BY ExtendibleHashAssumption DEF BucketIds, NULL_PAGE, ExtendibleHashAssumption
<1>5. 0 \in 0 .. n - 1
  BY <1>1
<1> QED BY <1>2, <1>3, <1>4, <1>5 DEF SpaceInv

\* What keeps the directory, and the number and the depth of its buckets.
LEMMA RootsKept ==
  ASSUME DirectoryInv, SpaceInv, RootsInv, directory' = directory,
         \A p \in allocated : /\ buckets'[p].prefix = buckets[p].prefix
                              /\ buckets'[p].local_depth = buckets[p].local_depth,
         SplitsOfDirectory'
  PROVE  RootsInv'
<1> DEFINE D == DirectoryEntries
<1>1. DirectoryEntries' = D /\ \A i : Pointer(i)' = Pointer(i)
  BY DEF DirectoryEntries, Pointer
<1>2. \A i \in D : /\ buckets'[Pointer(i)].prefix = buckets[Pointer(i)].prefix
                   /\ buckets'[Pointer(i)].local_depth = buckets[Pointer(i)].local_depth
  BY EntryFacts
<1>3. HomesInv'
  <2> SUFFICES ASSUME NEW i \in D
               PROVE  /\ buckets'[Pointer(i)].prefix < 2 ^ buckets'[Pointer(i)].local_depth
                      /\ directory'.bucket_ptrs[buckets'[Pointer(i)].prefix] = Pointer(i)
    BY <1>1, Zenon DEF HomesInv, Pointer
  <2>1. /\ buckets[Pointer(i)].prefix < 2 ^ buckets[Pointer(i)].local_depth
        /\ directory.bucket_ptrs[buckets[Pointer(i)].prefix] = Pointer(i)
    BY Zenon DEF RootsInv, HomesInv, Pointer
  <2> QED BY <1>2, <2>1
<1>4. \A n : IsHome(n)' <=> IsHome(n)
  BY <1>1, <1>2 DEF IsHome
<1>5. SplitsInv'
  <2> SUFFICES ASSUME NEW l \in 0 .. directory.global_depth - 1, NEW q \in D,
                      q < 2 ^ l, IsHome(2 ^ l + q)
               PROVE  IsHome(q) /\ l < buckets'[Pointer(q)].local_depth
    <3>1. \A l \in 0 .. directory'.global_depth - 1 : l \in 0 .. directory.global_depth - 1
      OBVIOUS
    <3> QED BY <1>1, <1>4, <3>1, Zenon DEF SplitsInv
  <2>1. IsHome(q) /\ l < buckets[Pointer(q)].local_depth
    BY Zenon DEF RootsInv, SplitsInv
  <2> QED BY <1>2, <2>1
<1> QED BY <1>3, <1>5 DEF RootsInv

\* A split into the new page p, seen from the directory.
SplitInto(p) ==
  LET b == buckets[op.at]
      place == 2 ^ b.local_depth + b.prefix
      size == 2 ^ directory.global_depth
      after == 0 .. 2 ^ directory'.global_depth - 1
  IN  /\ p \notin allocated
      /\ allocated' = allocated \cup {p}
      /\ buckets'[p].prefix = place
      /\ buckets'[p].local_depth = b.local_depth + 1
      /\ buckets'[p].overflow_page = NULL_PAGE
      /\ buckets'[op.at].prefix = b.prefix
      /\ buckets'[op.at].local_depth = b.local_depth + 1
      /\ buckets'[op.at].overflow_page = b.overflow_page
      /\ \A r \in BucketIds : r # p /\ r # op.at => buckets'[r] = buckets[r]
      /\ place \in after
      /\ DirectoryEntries \subseteq after
      /\ \A i \in after : i \notin DirectoryEntries => i - size \in DirectoryEntries /\ i # i - size
      /\ \A i \in after :
           directory'.bucket_ptrs[i] = IF i = place THEN p
                                       ELSE IF i \in DirectoryEntries THEN Pointer(i)
                                       ELSE Pointer(i - size)
      /\ directory'.global_depth \in {directory.global_depth, directory.global_depth + 1}
      /\ directory'.global_depth \in 0 .. directory_capacity
      /\ b.local_depth < directory.global_depth => directory'.global_depth = directory.global_depth
      /\ buckets'[p] = SplitNew(b) /\ buckets'[op.at] = SplitOld(b)

\* The bucket that is split is one of the directory, at the entry of its prefix.
LEMMA SplitAtHome ==
  ASSUME DirectoryInv, TypeInv, RootsInv, op.kind = "split"
  PROVE  LET b == buckets[op.at]
         IN  /\ op.at \in allocated /\ op.at \in BucketIds
             /\ Fits(b, allocated, directory.global_depth)
             /\ b.prefix \in Nat /\ b.local_depth \in Nat
             /\ b.local_depth \in 0 .. directory.global_depth
             /\ b.prefix < 2 ^ b.local_depth
             /\ b.prefix \in DirectoryEntries
             /\ Pointer(b.prefix) = op.at
<1> DEFINE b == buckets[op.at]
<1>1. PICK i \in DirectoryEntries : Pointer(i) = op.at
  BY DEF RootsInv, SplitsOfDirectory
<1>2. op.at \in allocated /\ op.at \in BucketIds
  BY <1>1, EntryFacts DEF TypeInv
<1>3. Fits(b, allocated, directory.global_depth)
  BY <1>2 DEF TypeInv, BucketsInv
<1>4. b.prefix < 2 ^ b.local_depth /\ Pointer(b.prefix) = op.at
  BY <1>1, Zenon DEF RootsInv, HomesInv
<1> HIDE DEF b
<1>5. directory.global_depth \in 0 .. directory_capacity /\ directory_capacity \in Nat
  BY DepthFacts DEF DirectoryInv
<1>6. b.prefix \in Nat /\ b.local_depth \in Nat /\ b.local_depth \in 0 .. directory.global_depth
  BY <1>3, <1>5 DEF Fits, Counted, BucketType
<1>7. 2 ^ b.local_depth \in Nat /\ 2 ^ directory.global_depth \in Nat
      /\ 2 ^ b.local_depth <= 2 ^ directory.global_depth
  BY <1>5, <1>6, PowersGrow
<1>8. b.prefix \in DirectoryEntries
  <2> DEFINE m == 2 ^ b.local_depth
             n == 2 ^ directory.global_depth
  <2>1. m \in Nat /\ n \in Nat /\ m <= n /\ b.prefix < m
    BY <1>4, <1>7
  <2> HIDE DEF m, n
  <2>2. b.prefix \in 0 .. n - 1
    BY <1>6, <2>1
  <2> QED BY <2>2 DEF DirectoryEntries, n
<1> QED BY <1>2, <1>3, <1>4, <1>6, <1>8 DEF b

LEMMA SplitsInto ==
  ASSUME DirectoryInv, TypeInv, RootsInv, SplitBucket
  PROVE  \E p \in BucketIds : SplitInto(p)
<1> DEFINE q == op.at
           b == buckets[q]
           l == b.local_depth
           g == directory.global_depth
           size == 2 ^ g
           place == 2 ^ l + b.prefix
           d == IF l >= g THEN Expanded(directory) ELSE directory
           old == SplitOld(b)
           new == SplitNew(b)
<1>1. PICK p \in BucketIds :
        /\ IsNewPage(p)
        /\ allocated' = allocated \cup {p}
        /\ buckets' = [buckets EXCEPT ![q] = old, ![p] = new]
        /\ directory' = [d EXCEPT !.bucket_ptrs[SplitNew(b).prefix] = p]
        /\ l >= g => 2 ^ (g + 1) <= directory_capacity
  BY DEF SplitBucket
<1>2. op.kind = "split"
  BY DEF SplitBucket
<1>3. /\ q \in allocated /\ q \in BucketIds
      /\ Fits(b, allocated, g)
      /\ b.prefix \in Nat /\ l \in Nat /\ l \in 0 .. g /\ b.prefix < 2 ^ l
  BY <1>2, SplitAtHome
<1>4. p # q /\ p \notin allocated
  BY <1>1, <1>3 DEF IsNewPage
<1>5. g \in 0 .. directory_capacity /\ directory_capacity \in Nat
  BY DepthFacts DEF DirectoryInv
<1>6. /\ 2 ^ l \in Nat \ {0} /\ size \in Nat \ {0} /\ 2 ^ l <= size
      /\ l < g => 2 * 2 ^ l <= size
      /\ 2 ^ (g + 1) = 2 * size
      /\ size <= directory_capacity
  <2>1. 2 ^ (g + 1) = 2 * size
    BY <1>5, PowersOfTwo
  <2> QED BY <1>3, <1>5, <2>1, PowersGrow DEF DirectoryInv
<1>7. /\ old.prefix = b.prefix /\ old.local_depth = l + 1 /\ old.overflow_page = b.overflow_page
  <2> HIDE DEF b
  <2> QED BY <1>3, OldIsCounted DEF Fits
<1>8. new.prefix = place /\ new.local_depth = l + 1 /\ new.overflow_page = NULL_PAGE
  <2> HIDE DEF b
  <2> QED BY <1>3, <1>6, NewIsMoved DEF Fits
<1>9. /\ buckets'[p] = new /\ buckets'[q] = old
      /\ \A r \in BucketIds : r # p /\ r # q => buckets'[r] = buckets[r]
  <2>1. DOMAIN buckets = BucketIds
    BY DEF TypeInv, BucketsInv
  <2> HIDE DEF q, old, new
  <2> QED BY <1>1, <1>3, <1>4, <2>1
<1>10. /\ directory'.bucket_ptrs = [d.bucket_ptrs EXCEPT ![place] = p]
       /\ d.global_depth = directory'.global_depth
       /\ l >= g => /\ d.global_depth = g + 1
                    /\ d.bucket_ptrs = [i \in 0 .. directory_capacity - 1 |->
                                          IF i \in size .. 2 * size - 1 THEN Pointer(i - size)
                                          ELSE Pointer(i)]
  <2>1. /\ directory'.bucket_ptrs = [d.bucket_ptrs EXCEPT ![SplitNew(b).prefix] = p]
        /\ d.global_depth = directory'.global_depth
        /\ l >= g => /\ d.global_depth = g + 1
                     /\ d.bucket_ptrs = [i \in 0 .. directory_capacity - 1 |->
                                           IF i \in size .. 2 * size - 1
                                           THEN directory.bucket_ptrs[i - size]
                                           ELSE directory.bucket_ptrs[i]]
    <3>1. SplitFrom(b, p, d)
      BY <1>1, Zenon DEF SplitFrom
    <3> HIDE DEF b, d
    <3>2. SplitTo(b, p, d)
      BY <3>1, SplitPointers, Zenon
    <3> QED BY <3>2, Zenon DEF SplitTo, Doubled
  <2> QED BY <1>8, <2>1, Zenon DEF Pointer, new
<1> DEFINE after == 0 .. 2 ^ directory'.global_depth - 1
<1>11. DirectoryEntries = 0 .. size - 1
  BY DEF DirectoryEntries
<1>12. DOMAIN d.bucket_ptrs = 0 .. directory_capacity - 1
  <2>1. DirectoryInv'
    BY NextDirectory DEF Next
  <2> QED BY <1>10, <2>1 DEF DirectoryInv
<1>13. /\ directory'.global_depth \in 0 .. directory_capacity
       /\ directory'.global_depth \in {g, g + 1}
  <2>1. DirectoryInv'
    BY NextDirectory DEF Next
  <2> QED BY <1>10, <2>1 DEF DirectoryInv
<1>14. /\ place \in after
       /\ DirectoryEntries \subseteq after
       /\ \A i \in after : i \notin DirectoryEntries => i - size \in DirectoryEntries /\ i # i - size
       /\ \A i \in after :
            directory'.bucket_ptrs[i] = IF i = place THEN p
                                        ELSE IF i \in DirectoryEntries THEN Pointer(i)
                                        ELSE Pointer(i - size)
  <2>1. CASE l >= g
    <3>1. l = g /\ directory'.global_depth = g + 1 /\ after = 0 .. 2 * size - 1
      BY <1>3, <1>5, <1>6, <1>10, <2>1
    <3>2. d.bucket_ptrs = [i \in 0 .. directory_capacity - 1 |->
                             IF i \in size .. 2 * size - 1 THEN Pointer(i - size) ELSE Pointer(i)]
      BY <1>10, <2>1
    <3>3. 2 * size <= directory_capacity /\ place = size + b.prefix /\ b.prefix < size
      BY <1>1, <1>3, <1>6, <2>1, <3>1
    <3> HIDE DEF size, d, b, after, place
    <3>4. place \in after
      BY <1>3, <1>6, <3>1, <3>3
    <3>5. DirectoryEntries \subseteq after
      BY <1>6, <1>11, <3>1
    <3>6. ASSUME NEW i \in after
          PROVE  /\ i \notin DirectoryEntries => i - size \in DirectoryEntries /\ i # i - size
                 /\ directory'.bucket_ptrs[i] = IF i = place THEN p
                                                ELSE IF i \in DirectoryEntries THEN Pointer(i)
                                                ELSE Pointer(i - size)
      <4>1. i \in 0 .. 2 * size - 1 /\ i \in 0 .. directory_capacity - 1
        BY <1>5, <1>6, <3>1, <3>3
      <4>2. i \in DirectoryEntries <=> ~(i \in size .. 2 * size - 1)
        BY <1>6, <1>11, <4>1
      <4>3. i \notin DirectoryEntries => i - size \in DirectoryEntries /\ i # i - size
        BY <1>6, <1>11, <4>1
      <4>4. d.bucket_ptrs[i] = IF i \in DirectoryEntries THEN Pointer(i) ELSE Pointer(i - size)
        BY <3>2, <4>1, <4>2
      <4>5. directory'.bucket_ptrs[i] = IF i = place THEN p ELSE d.bucket_ptrs[i]
        BY <1>10, <1>12, <4>1
      <4> QED BY <4>3, <4>4, <4>5
    <3> QED BY <3>4, <3>5, <3>6
  <2>2. CASE ~(l >= g)
    <3>1. l < g /\ d = directory
      BY <1>3, <1>5, <2>2
    <3>2. after = DirectoryEntries
      BY <1>10, <3>1 DEF DirectoryEntries
    <3>3. place < size /\ place \in Nat
      <4> DEFINE m == 2 ^ l
      <4>1. m \in Nat /\ 2 * m <= size /\ b.prefix < m /\ place = m + b.prefix
        BY <1>3, <1>6, <3>1
      <4> HIDE DEF m, size, b, place
      <4> QED BY <1>3, <1>6, <4>1
    <3> HIDE DEF size, b, place, after
    <3>4. place \in after
      BY <1>6, <1>11, <3>2, <3>3
    <3>5. ASSUME NEW i \in after
          PROVE  directory'.bucket_ptrs[i] = IF i = place THEN p ELSE Pointer(i)
      <4>1. i \in 0 .. directory_capacity - 1
        BY <1>5, <1>6, <1>11, <3>2
      <4> HIDE DEF d
      <4>2. directory'.bucket_ptrs[i] = IF i = place THEN p ELSE d.bucket_ptrs[i]
        BY <1>10, <1>12, <4>1
      <4> QED BY <3>1, <4>2 DEF Pointer
    <3> QED BY <3>2, <3>4, <3>5
  <2> QED BY <2>1, <2>2
<1> HIDE DEF old, new
<1>15. l < g => directory'.global_depth = g
  <2> SUFFICES ASSUME l < g PROVE directory'.global_depth = g
    OBVIOUS
  <2>1. ~(l >= g)
    BY <1>3, <1>5
  <2>2. d = directory
    BY <2>1
  <2> QED BY <1>10, <2>2
<1>16. SplitInto(p)
  BY <1>1, <1>4, <1>7, <1>8, <1>9, <1>13, <1>14, <1>15, Zenon DEF SplitInto, old, new
<1> QED BY <1>16

\* The number of a new bucket was the number of none.
LEMMA NewHome ==
  ASSUME DirectoryInv, TypeInv, RootsInv, op.kind = "split"
  PROVE  ~IsHome(2 ^ buckets[op.at].local_depth + buckets[op.at].prefix)
<1> DEFINE q == buckets[op.at].prefix
           l == buckets[op.at].local_depth
           g == directory.global_depth
<1> SUFFICES ASSUME IsHome(2 ^ l + q) PROVE FALSE
  OBVIOUS
<1>1. /\ q \in Nat /\ l \in 0 .. g /\ q < 2 ^ l /\ q \in DirectoryEntries /\ Pointer(q) = op.at
      /\ g \in 0 .. directory_capacity /\ directory_capacity \in Nat
  BY SplitAtHome, DepthFacts DEF DirectoryInv
<1>2. l # g
  <2> SUFFICES ASSUME l = g PROVE FALSE
    OBVIOUS
  <2> DEFINE n == 2 ^ g
  <2>1. n + q \in 0 .. n - 1 /\ n \in Nat
    BY DepthFacts DEF IsHome, DirectoryEntries
  <2> HIDE DEF n, q
  <2> QED BY <1>1, <2>1
<1>3. l \in 0 .. g - 1
  BY <1>1, <1>2
<1>4. l < buckets[Pointer(q)].local_depth
  <2> HIDE DEF l, q
  <2> QED BY <1>1, <1>3, Zenon DEF RootsInv, SplitsInv
<1> QED BY <1>1, <1>4

\* The number of a bucket of the directory is an entry.
LEMMA HomeEntry ==
  ASSUME DirectoryInv, TypeInv, RootsInv, NEW i \in DirectoryEntries
  PROVE  buckets[Pointer(i)].prefix \in DirectoryEntries
<1> DEFINE b == buckets[Pointer(i)]
           g == directory.global_depth
           size == 2 ^ g
<1>1. b.prefix < 2 ^ b.local_depth
  BY Zenon DEF RootsInv, HomesInv
<1>2. Fits(b, allocated, g)
  BY EntryFacts DEF TypeInv, BucketsInv
<1>3. g \in 0 .. directory_capacity /\ directory_capacity \in Nat /\ size \in Nat \ {0}
  BY DepthFacts DEF DirectoryInv
<1> HIDE DEF b
<1>4. b.prefix \in Nat /\ b.local_depth \in Nat /\ b.local_depth \in 0 .. g
  BY <1>2, <1>3 DEF Fits, Counted, BucketType
<1> DEFINE m == 2 ^ b.local_depth
<1>5. m \in Nat \ {0} /\ m <= size /\ b.prefix < m
  BY <1>1, <1>3, <1>4, PowersGrow
<1> HIDE DEF m, size
<1>6. b.prefix \in 0 .. size - 1
  BY <1>3, <1>4, <1>5
<1> QED BY <1>6 DEF DirectoryEntries, size, b

\* A split makes a bucket of the directory, at home, and moves no other.
LEMMA SplitRoots ==
  ASSUME DirectoryInv, TypeInv, RootsInv, SplitBucket, DirectoryInv'
  PROVE  RootsInv'
<1> DEFINE q == buckets[op.at].prefix
           l == buckets[op.at].local_depth
           g == directory.global_depth
           place == 2 ^ l + q
           D == DirectoryEntries
           size == 2 ^ g
           after == 0 .. 2 ^ directory'.global_depth - 1
           to(i) == directory'.bucket_ptrs[i]
           old(i) == IF i \in D THEN i ELSE i - size
<1>1. op.kind = "split" /\ op' = Idle
  BY DEF SplitBucket
<1>2. PICK p \in BucketIds : SplitInto(p)
  BY SplitsInto
<1>3. /\ op.at \in allocated /\ op.at \in BucketIds
      /\ q \in Nat /\ l \in Nat /\ l \in 0 .. g /\ q < 2 ^ l /\ q \in D /\ Pointer(q) = op.at
      /\ g \in 0 .. directory_capacity /\ directory_capacity \in Nat
  BY <1>1, SplitAtHome, DepthFacts DEF DirectoryInv
<1>4. ~IsHome(place)
  BY <1>1, NewHome
<1>5. /\ p \notin allocated
      /\ buckets'[p].prefix = place
      /\ buckets'[p].local_depth = l + 1
      /\ buckets'[op.at].prefix = q
      /\ buckets'[op.at].local_depth = l + 1
      /\ \A r \in BucketIds : r # p /\ r # op.at => buckets'[r] = buckets[r]
      /\ place \in after
      /\ D \subseteq after
      /\ \A i \in after : i \notin D => i - size \in D /\ i # i - size
      /\ \A i \in after : to(i) = IF i = place THEN p ELSE Pointer(old(i))
      /\ directory'.global_depth \in {g, g + 1}
      /\ directory'.global_depth \in 0 .. directory_capacity
  BY <1>2, Zenon DEF SplitInto
<1>6. 2 ^ l \in Nat \ {0} /\ 2 ^ (l + 1) = 2 * 2 ^ l /\ size \in Nat \ {0}
  BY <1>3, DepthFacts, PowersGrow
<1>7. DirectoryEntries' = after /\ \A i : Pointer(i)' = to(i)
  BY DEF DirectoryEntries, Pointer
<1>8. \A i \in D : i \in Nat /\ Pointer(i) \in allocated /\ Pointer(i) \in BucketIds
  BY EntryFacts DEF TypeInv
<1>9. \A i \in D : /\ buckets[Pointer(i)].prefix < 2 ^ buckets[Pointer(i)].local_depth
                   /\ Pointer(buckets[Pointer(i)].prefix) = Pointer(i)
                   /\ buckets[Pointer(i)].prefix \in D
  <2>1. \A i \in D : buckets[Pointer(i)].prefix \in D
    BY HomeEntry
  <2> QED BY <2>1, Zenon DEF RootsInv, HomesInv
<1>10. \A i \in D : /\ buckets'[Pointer(i)].prefix = buckets[Pointer(i)].prefix
                    /\ Pointer(i) # op.at => buckets'[Pointer(i)] = buckets[Pointer(i)]
  BY <1>5, <1>8
<1>11. \A i \in D : i = buckets[Pointer(i)].prefix => i # place
  BY <1>4 DEF IsHome
<1> HIDE DEF D, after, to, place, l, q, size, g
<1>12. HomesInv'
  <2> SUFFICES ASSUME NEW i \in after
               PROVE  /\ buckets'[to(i)].prefix < 2 ^ buckets'[to(i)].local_depth
                      /\ to(buckets'[to(i)].prefix) = to(i)
    BY <1>7, Zenon DEF HomesInv
  <2>1. CASE i = place
    <3>1. to(i) = p /\ place < 2 * 2 ^ l /\ to(place) = p
      <4> DEFINE m == 2 ^ l
      <4>1. place = m + q /\ q < m /\ m \in Nat
        BY <1>3, <1>6 DEF place
      <4> HIDE DEF m
      <4>2. place < 2 * m
        BY <1>3, <4>1
      <4> QED BY <1>5, <2>1, <4>2 DEF m
    <3>2. place < 2 ^ (l + 1)
      BY <1>6, <3>1
    <3> QED BY <1>5, <3>1, <3>2
  <2>2. CASE i # place
    <3>1. old(i) \in D /\ to(i) = Pointer(old(i))
      BY <1>5, <2>2
    <3> DEFINE r == to(i)
               k == buckets[r].prefix
    <3>2. /\ r \in allocated /\ k < 2 ^ buckets[r].local_depth /\ Pointer(k) = r /\ k \in D
          /\ buckets'[r].prefix = k
          /\ r # op.at => buckets'[r] = buckets[r]
      BY <1>8, <1>9, <1>10, <3>1
    <3>3. k # place
      BY <1>11, <3>2
    <3>4. to(k) = r
      BY <1>5, <3>2, <3>3
    <3>5. k < 2 ^ buckets'[r].local_depth
      <4>1. CASE r # op.at
        BY <3>2, <4>1
      <4>2. CASE r = op.at
        <5> DEFINE m == 2 ^ l
        <5>1. k < m /\ m \in Nat /\ 2 ^ (l + 1) = 2 * m /\ buckets'[r].local_depth = l + 1
              /\ k \in Nat
          BY <1>3, <1>5, <1>6, <1>8, <3>2, <4>2 DEF l
        <5> HIDE DEF m, k, r
        <5>2. k < 2 * m
          BY <5>1
        <5> QED BY <5>1, <5>2
      <4> QED BY <4>1, <4>2
    <3> QED BY <3>2, <3>4, <3>5
  <2> QED BY <2>1, <2>2
<1>13. \A i \in after : IsHome(i)' <=> i = place \/ IsHome(i)
  <2> SUFFICES ASSUME NEW i \in after
               PROVE  buckets'[to(i)].prefix = i <=> i = place \/ IsHome(i)
    BY <1>7, Zenon DEF IsHome
  <2>1. CASE i = place
    BY <1>5, <2>1
  <2>2. CASE i # place /\ i \in D
    BY <1>5, <1>10, <2>2 DEF IsHome, D
  <2>3. CASE i # place /\ i \notin D
    <3>1. i - size \in D /\ to(i) = Pointer(i - size)
      BY <1>5, <2>3
    <3>2. buckets'[to(i)].prefix \in D
      BY <1>9, <1>10, <3>1
    <3> QED BY <2>3, <3>2 DEF IsHome, D
  <2> QED BY <2>1, <2>2, <2>3
<1>14. \A i \in D : IsHome(i) => to(i) = Pointer(i) /\ i # place /\ i \in after
  BY <1>4, <1>5
<1>15. SplitsInv'
  <2> SUFFICES ASSUME NEW m \in 0 .. directory'.global_depth - 1, NEW r \in after,
                      r < 2 ^ m, IsHome(2 ^ m + r)'
               PROVE  IsHome(r)' /\ m < buckets'[to(r)].local_depth
    BY <1>7, Zenon DEF SplitsInv
  <2> DEFINE n == 2 ^ m + r
  <2>1. n \in after
    BY <1>7 DEF IsHome
  <2>2. m \in 0 .. directory_capacity - 1 /\ m \in Nat /\ m \in 0 .. directory_capacity
    BY <1>3, <1>5
  <2>3. n = place \/ IsHome(n)
    BY <1>13, <2>1
  <2>4. r \in Nat
    BY DEF after
  <2>5. CASE n = place
    <3>1. l \in 0 .. directory_capacity - 1
      <4>1. l \in 0 .. g /\ directory'.global_depth \in {g, g + 1} /\ directory'.global_depth <= directory_capacity
        BY <1>3, <1>5
      <4>2. l # directory_capacity
        <5> SUFFICES ASSUME l = directory_capacity PROVE FALSE
          OBVIOUS
        <5>1. directory'.global_depth = g /\ l = g
          BY <1>3, <1>5
        <5>2. after = 0 .. 2 ^ l - 1
          BY <5>1 DEF after
        <5> DEFINE x == 2 ^ l
        <5>3. x + q \in 0 .. x - 1 /\ x \in Nat
          BY <1>5, <1>6, <5>2 DEF place
        <5> HIDE DEF x
        <5> QED BY <1>3, <5>3
      <4> QED BY <1>3, <4>2
    <3>2. m = l /\ r = q
      BY <1>3, <2>2, <2>4, <2>5, <3>1, OneHighBit DEF place
    <3>3. IsHome(q)
      BY <1>3 DEF IsHome, q, D
    <3>4. to(r) = op.at /\ IsHome(r)'
      BY <1>3, <1>13, <1>14, <3>2, <3>3
    <3> QED BY <1>3, <1>5, <3>2, <3>4
  <2>6. CASE IsHome(n)
    <3>1. n \in D
      BY <2>6 DEF IsHome, D
    <3>2. r \in D /\ m \in 0 .. g - 1
      <4> DEFINE x == 2 ^ m
      <4>1. x \in Nat \ {0}
        BY <1>3, <2>2, PowersGrow
      <4>2. D = 0 .. size - 1
        BY DEF D, DirectoryEntries, size, g
      <4>3. x + r \in 0 .. size - 1
        BY <3>1, <4>2
      <4>4. r \in 0 .. size - 1 /\ x < size
        <5> HIDE DEF x
        <5> QED BY <1>6, <2>4, <4>1, <4>3
      <4>5. m # g
        BY <4>4, <1>6 DEF size
      <4> QED BY <1>3, <1>5, <4>2, <4>4, <4>5
    <3>3. IsHome(r) /\ m < buckets[Pointer(r)].local_depth
      <4>1. IsHome(2 ^ m + r)
        BY <2>6
      <4> QED BY <3>2, <4>1, Zenon DEF RootsInv, SplitsInv, D, g
    <3>4. to(r) = Pointer(r) /\ IsHome(r)'
      BY <1>13, <1>14, <3>2, <3>3
    <3>5. m < buckets'[Pointer(r)].local_depth
      <4>1. CASE Pointer(r) = op.at
        <5>1. m < l /\ buckets'[Pointer(r)].local_depth = l + 1
          BY <1>5, <3>3, <4>1 DEF l
        <5> QED BY <1>3, <2>2, <5>1
      <4>2. CASE Pointer(r) # op.at
        BY <1>10, <3>2, <3>3, <4>2
      <4> QED BY <4>1, <4>2
    <3> QED BY <3>4, <3>5
  <2> QED BY <2>3, <2>5, <2>6
<1>16. SplitsOfDirectory'
  BY <1>1 DEF SplitsOfDirectory, Idle
<1> QED BY <1>12, <1>15, <1>16 DEF RootsInv

\* Entries and links change no prefix and no depth.
LEMMA PlainSteps ==
  ASSUME DirectoryInv, TypeInv,
         InsertInBucket \/ InsertInOverflow \/ FollowOverflow \/ AddOverflow \/ Relink \/ LoadFails
  PROVE  /\ directory' = directory
         /\ op'.kind # "split"
         /\ \A p \in allocated : /\ buckets'[p].prefix = buckets[p].prefix
                                 /\ buckets'[p].local_depth = buckets[p].local_depth
<1>1. directory' = directory
  BY DEF InsertInBucket, InsertInOverflow, FollowOverflow, AddOverflow, Relink, LoadFails
<1>2. /\ DOMAIN buckets = BucketIds /\ allocated \subseteq BucketIds
      /\ \A p \in BucketIds : Counted(buckets[p])
  BY DEF TypeInv, BucketsInv, SpaceInv, Fits
<1> DEFINE Same(p) == /\ buckets'[p].prefix = buckets[p].prefix
                      /\ buckets'[p].local_depth = buckets[p].local_depth
<1>3. ASSUME InsertInBucket \/ InsertInOverflow, NEW p \in allocated PROVE Same(p)
  <2>1. /\ op # Idle /\ buckets' = [buckets EXCEPT ![op.at] = Put(@, op.entry)]
    BY <1>3 DEF InsertInBucket, InsertInOverflow, Idle
  <2>2. op.entry \in Keys \X Refs
    BY <2>1 DEF TypeInv, OpInv
  <2> DEFINE e == op.entry
             b == buckets[p]
  <2>3. e \in Keys \X Refs /\ Counted(b)
    BY <1>2, <2>2
  <2> HIDE DEF e
  <2>4. buckets'[p] = IF p = op.at THEN Put(b, e) ELSE b
    BY <1>2, <2>1 DEF e
  <2> HIDE DEF b
  <2>5. Put(b, e).prefix = b.prefix /\ Put(b, e).local_depth = b.local_depth
    BY <2>3, PutIsCounted
  <2> QED BY <2>4, <2>5 DEF b
<1>4. ASSUME FollowOverflow \/ LoadFails, NEW p \in allocated PROVE Same(p)
  BY <1>4 DEF FollowOverflow, LoadFails
<1>5. ASSUME AddOverflow, NEW p \in allocated PROVE Same(p)
  <2>1. PICK q, b : q \notin allocated /\ buckets' = [buckets EXCEPT ![q] = b]
    BY <1>5 DEF AddOverflow, IsNewPage
  <2> QED BY <1>2, <2>1
<1>6. ASSUME Relink, NEW p \in allocated PROVE Same(p)
  <2>1. PICK q, r : buckets' = [buckets EXCEPT ![q] = Linked(@, r)]
    BY <1>6 DEF Relink
  <2>2. buckets'[p] = IF p = q THEN Linked(buckets[p], r) ELSE buckets[p]
    BY <1>2, <2>1
  <2> DEFINE b == buckets[p]
  <2>3. Counted(b)
    BY <1>2
  <2> HIDE DEF b
  <2>4. Linked(b, r).prefix = b.prefix /\ Linked(b, r).local_depth = b.local_depth
    BY <2>3 DEF Linked, Counted, BucketType
  <2> QED BY <2>2, <2>4 DEF b
<1>7. op'.kind # "split"
  <2>1. CASE op' = Idle
    BY <2>1 DEF Idle
  <2>2. CASE op' # Idle
    <3>1. op # Idle /\ op.kind # "split"
      <4>1. ~InsertInBucket /\ ~LoadFails
        BY <2>2, Zenon DEF InsertInBucket, LoadFails
      <4>2. op.kind = "overflow" \/ op.kind = "relink"
        BY <4>1, Zenon DEF InsertInOverflow, FollowOverflow, AddOverflow, Relink
      <4> QED BY <4>2 DEF Idle
    <3>2. op = [kind |-> op.kind, entry |-> op.entry, at |-> op.at, above |-> op.above]
      BY <3>1 DEF TypeInv, OpInv
    <3>3. \/ op' = [op EXCEPT !.kind = "relink"]
          \/ \E x, y : op' = [op EXCEPT !.at = x, !.above = y]
          \/ \E y : op' = [op EXCEPT !.above = y]
      <4>1. CASE InsertInBucket \/ LoadFails
        BY <2>2, <4>1 DEF InsertInBucket, LoadFails
      <4>2. CASE InsertInOverflow
        BY <2>2, <4>2, Zenon DEF InsertInOverflow
      <4>3. CASE FollowOverflow
        <5>1. op' = [op EXCEPT !.at = buckets[op.at].overflow_page,
                               !.above = Append(@, <<op.at, buckets[op.at].overflow_page>>)]
          BY <4>3, Zenon DEF FollowOverflow
        <5> QED BY <5>1
      <4>4. CASE AddOverflow
        <5>1. PICK p : op' = [op EXCEPT !.at = p, !.above = Append(@, <<op.at, p>>)]
          BY <4>4, Zenon DEF AddOverflow
        <5> QED BY <5>1
      <4>5. CASE Relink
        <5>1. op' = [op EXCEPT !.above = SubSeq(@, 1, Len(@) - 1)]
          BY <2>2, <4>5, Zenon DEF Relink
        <5> QED BY <5>1
      <4> QED BY <4>1, <4>2, <4>3, <4>4, <4>5
    <3>4. op'.kind \in {op.kind, "relink"}
      BY <3>2, <3>3
    <3> QED BY <3>1, <3>4
  <2> QED BY <2>1, <2>2
<1> HIDE DEF Same
<1>8. \A p \in allocated : Same(p)
  BY <1>3, <1>4, <1>5, <1>6
<1> QED BY <1>1, <1>7, <1>8 DEF Same

\* The entries of the directory as they come from locate_bucket.
LEMMA LocatedIsPointer ==
  ASSUME DirectoryInv, NEW key \in Keys
  PROVE  \E i \in DirectoryEntries : Pointer(i) = locate_bucket(key)
<1> DEFINE n == 2 ^ directory.global_depth
           i == key % n
<1>1. n \in Nat \ {0} /\ key \in Nat
  BY DepthFacts, ExtendibleHashAssumption DEF ExtendibleHashAssumption
<1>2. locate_bucket(key) = Pointer(i)
  BY DEF locate_bucket, hash_key, Pointer
<1>3. DirectoryEntries = 0 .. n - 1
  BY DEF DirectoryEntries
<1> HIDE DEF n
<1>4. i \in 0 .. n - 1
  BY <1>1, Remainder
<1> QED BY <1>2, <1>3, <1>4

LEMMA NextRoots == DirectoryInv /\ TypeInv /\ RootsInv /\ [Next]_vars => RootsInv'
<1> SUFFICES ASSUME DirectoryInv, TypeInv, RootsInv, [Next]_vars PROVE RootsInv'
  OBVIOUS
<1>1. CASE InsertInBucket \/ InsertInOverflow \/ FollowOverflow \/ AddOverflow \/ Relink \/ LoadFails
  <2>1. /\ directory' = directory /\ op'.kind # "split"
        /\ \A p \in allocated : /\ buckets'[p].prefix = buckets[p].prefix
                                /\ buckets'[p].local_depth = buckets[p].local_depth
    BY <1>1, PlainSteps
  <2>2. SplitsOfDirectory'
    BY <2>1 DEF SplitsOfDirectory
  <2> QED BY <2>1, <2>2, RootsKept DEF TypeInv
<1>2. CASE SplitBucket
  <2>1. DirectoryInv'
    BY NextDirectory
  <2> QED BY <1>2, <2>1, SplitRoots
<1>3. ASSUME NEW key \in Keys, BeginInsert(key) PROVE RootsInv'
  <2>1. UNCHANGED <<directory, buckets>> /\ op'.at = locate_bucket(key)
    BY <1>3 DEF BeginInsert
  <2>2. SplitsOfDirectory'
    BY <2>1, LocatedIsPointer DEF SplitsOfDirectory, Pointer, DirectoryEntries
  <2> QED BY <2>1, <2>2, RootsKept DEF TypeInv
<1>4. ASSUME UNCHANGED vars PROVE RootsInv'
  <2>1. SplitsOfDirectory'
    BY <1>4 DEF RootsInv, SplitsOfDirectory, vars, Pointer, DirectoryEntries
  <2> QED BY <1>4, <2>1, RootsKept DEF TypeInv, vars
<1>5. ASSUME NEW key \in Keys, RemoveKey(key) PROVE RootsInv'
  BY <1>4, <1>5, RemovedSame DEF TypeInv
<1> QED BY <1>1, <1>2, <1>3, <1>4, <1>5 DEF Next

LEMMA InitRoots == Init => RootsInv
<1> SUFFICES ASSUME Init PROVE RootsInv
  OBVIOUS
<1>1. directory_capacity \in Nat \ {0} /\ 1 \in BucketIds
  BY ExtendibleHashAssumption DEF ExtendibleHashAssumption, BucketIds
<1>2. DirectoryEntries = {0} /\ directory.global_depth = 0
  BY DEF Init, DirectoryEntries
<1>3. Pointer(0) = 1
  BY <1>1 DEF Init, Pointer
<1>4. buckets[1].prefix = 0 /\ buckets[1].local_depth = 0
  BY <1>1 DEF Init, NewBucket
<1>5. HomesInv
  <2>1. 0 < 2 ^ 0
    OBVIOUS
  <2> QED BY <1>2, <1>3, <1>4, <2>1 DEF HomesInv
<1>6. SplitsInv
  <2>1. \A l \in 0 .. directory.global_depth - 1 : FALSE
    BY <1>2
  <2> QED BY <2>1, Zenon DEF SplitsInv
<1>7. SplitsOfDirectory
  BY DEF Init, SplitsOfDirectory, Idle
<1> QED BY <1>5, <1>6, <1>7 DEF RootsInv
-----------------------------------------------------------------------------
After(p) == buckets[p].overflow_page

\* Pages are given in their order, and links lead to pages given later.
LinksInv ==
  /\ \A p \in BucketIds : After(p) = NULL_PAGE \/ p < After(p)
  /\ \A p \in allocated, q \in BucketIds \ allocated : p < q

\* On its way along a chain an insertion passed buckets that are linked, but for the last
\* when it is new; the links it will write are those that are there, or missing.
WayInv ==
  LET s == op.above
      n == Len(s)
  IN  op.kind \in {"overflow", "relink"} =>
        /\ \A k \in 1 .. n : /\ s[k][1] < s[k][2] /\ s[k][1] < op.at
                             /\ After(s[k][1]) \in {NULL_PAGE, s[k][2]}
        /\ \A j, k \in 1 .. n : j < k => s[j][1] < s[k][1]
        /\ op.kind = "overflow" /\ n > 0 =>
             op.at = s[n][2] /\ (After(s[n][1]) = s[n][2] \/ ~Full(buckets[op.at]))

\* What keeps every link.
LEMMA LinksKept ==
  ASSUME DirectoryInv, TypeInv, InsertInBucket \/ InsertInOverflow \/ FollowOverflow \/ LoadFails
  PROVE  /\ allocated' = allocated
         /\ \A p \in BucketIds : buckets'[p].overflow_page = buckets[p].overflow_page
<1>1. allocated' = allocated
  BY DEF InsertInBucket, InsertInOverflow, FollowOverflow, LoadFails
<1>2. DOMAIN buckets = BucketIds /\ \A p \in BucketIds : Counted(buckets[p])
  BY DEF TypeInv, BucketsInv, Fits
<1>3. ASSUME InsertInBucket \/ InsertInOverflow, NEW p \in BucketIds
      PROVE  buckets'[p].overflow_page = buckets[p].overflow_page
  <2>1. op # Idle /\ buckets' = [buckets EXCEPT ![op.at] = Put(@, op.entry)]
    BY <1>3 DEF InsertInBucket, InsertInOverflow, Idle
  <2> DEFINE e == op.entry
             b == buckets[p]
  <2>2. e \in Keys \X Refs /\ Counted(b)
    BY <1>2, <2>1 DEF TypeInv, OpInv
  <2> HIDE DEF e
  <2>3. buckets'[p] = IF p = op.at THEN Put(b, e) ELSE b
    BY <1>2, <2>1 DEF e
  <2> HIDE DEF b
  <2>4. Put(b, e).overflow_page = b.overflow_page
    BY <2>2, PutIsCounted
  <2> QED BY <2>3, <2>4 DEF b
<1>4. CASE FollowOverflow \/ LoadFails
  BY <1>1, <1>4 DEF FollowOverflow, LoadFails
<1> QED BY <1>1, <1>3, <1>4

\* The page of a new bucket comes after all the others.
LEMMA NewPageIsLast ==
  ASSUME SpaceInv, LinksInv, NEW p \in BucketIds, IsNewPage(p), allocated' = allocated \cup {p}
  PROVE  /\ p \notin allocated
         /\ \A r \in allocated : r < p
         /\ \A r \in allocated', q \in BucketIds \ allocated' : r < q
<1>1. p \notin allocated /\ \A q \in BucketIds \ allocated : p <= q
  BY DEF IsNewPage
<1>2. BucketIds \subseteq Nat
  BY ExtendibleHashAssumption DEF BucketIds, ExtendibleHashAssumption
<1>3. ASSUME NEW r \in allocated', NEW q \in BucketIds \ allocated' PROVE r < q
  <2>1. q \in BucketIds \ allocated /\ q # p
    OBVIOUS
  <2>2. CASE r = p
    BY <1>1, <1>2, <2>1, <2>2
  <2>3. CASE r \in allocated
    BY <2>1, <2>3 DEF LinksInv
  <2> QED BY <2>2, <2>3
<1>4. \A r \in allocated : r < p
  BY <1>1 DEF LinksInv
<1> QED BY <1>1, <1>3, <1>4

\* The last link an insertion has to write.
LEMMA LastLink ==
  ASSUME TypeInv, WayInv, op.kind = "relink"
  PROVE  LET s == op.above
             n == Len(s)
         IN  /\ n \in Nat /\ n > 0 /\ s \in Seq(BucketIds \X BucketIds)
             /\ s[n][1] \in allocated /\ s[n][2] \in allocated
             /\ s[n][1] \in BucketIds /\ s[n][2] \in BucketIds
             /\ s[n][1] < s[n][2]
             /\ After(s[n][1]) \in {NULL_PAGE, s[n][2]}
<1> DEFINE s == op.above
           n == Len(s)
<1>1. op # Idle
  BY DEF Idle
<1>2. /\ s \in Seq(BucketIds \X BucketIds)
      /\ \A k \in 1 .. n : s[k][1] \in allocated /\ s[k][2] \in allocated
      /\ n > 0
  BY <1>1 DEF TypeInv, OpInv
<1>3. n \in Nat /\ n \in 1 .. n
  BY <1>2
<1>4. allocated \subseteq BucketIds
  BY DEF TypeInv, SpaceInv
<1>5. \A k \in 1 .. n : s[k][1] < s[k][2] /\ After(s[k][1]) \in {NULL_PAGE, s[k][2]}
  BY DEF WayInv
<1> HIDE DEF s, n
<1>6. /\ s[n][1] \in allocated /\ s[n][2] \in allocated
      /\ s[n][1] < s[n][2] /\ After(s[n][1]) \in {NULL_PAGE, s[n][2]}
  BY <1>2, <1>3, <1>5
<1> QED BY <1>2, <1>3, <1>4, <1>6 DEF s, n

\* What Relink writes.
LEMMA RelinkedAfter ==
  ASSUME TypeInv, WayInv, Relink
  PROVE  LET s == op.above
             n == Len(s)
         IN  /\ op.kind = "relink"
             /\ UNCHANGED <<directory, allocated, failures>>
             /\ \A p \in BucketIds :
                  buckets'[p].overflow_page = IF p = s[n][1] THEN s[n][2] ELSE buckets[p].overflow_page
<1> DEFINE s == op.above
           n == Len(s)
           a == s[n][1]
           b == s[n][2]
<1>1. /\ op.kind = "relink" /\ UNCHANGED <<directory, allocated, failures>>
      /\ buckets' = [buckets EXCEPT ![a] = Linked(@, b)]
  BY DEF Relink
<1>2. DOMAIN buckets = BucketIds /\ \A p \in BucketIds : Counted(buckets[p])
  BY DEF TypeInv, BucketsInv, Fits
<1> HIDE DEF a, b
<1>3. ASSUME NEW p \in BucketIds
      PROVE  buckets'[p].overflow_page = IF p = a THEN b ELSE buckets[p].overflow_page
  <2> DEFINE c == buckets[p]
  <2>1. buckets'[p] = IF p = a THEN Linked(c, b) ELSE c
    BY <1>1, <1>2
  <2>2. Counted(c)
    BY <1>2
  <2> HIDE DEF c
  <2>3. Linked(c, b).overflow_page = b
    BY <2>2 DEF Linked, Counted, BucketType
  <2> QED BY <2>1, <2>3 DEF c
<1> QED BY <1>1, <1>3 DEF a, b

\* What AddOverflow does to the links.
LEMMA AddedAfter ==
  ASSUME TypeInv, AddOverflow
  PROVE  \E p \in BucketIds :
           /\ IsNewPage(p)
           /\ allocated' = allocated \cup {p}
           /\ op' = [op EXCEPT !.at = p, !.above = Append(@, <<op.at, p>>)]
           /\ \A q \in BucketIds :
                buckets'[q].overflow_page = IF q = p THEN NULL_PAGE ELSE buckets[q].overflow_page
           /\ ~Full(buckets'[p])
<1>1. op.kind = "overflow" /\ op # Idle
  BY DEF AddOverflow, Idle
<1> DEFINE b == buckets[op.at]
<1>2. Counted(b)
  BY <1>1 DEF TypeInv, BucketsInv, Fits, OpInv, SpaceInv
<1>3. PICK p \in BucketIds :
        /\ IsNewPage(p)
        /\ allocated' = allocated \cup {p}
        /\ buckets' = [buckets EXCEPT ![p] = NewBucket(b.prefix, b.local_depth)]
        /\ op' = [op EXCEPT !.at = p, !.above = Append(@, <<op.at, p>>)]
  BY DEF AddOverflow
<1> DEFINE new == NewBucket(b.prefix, b.local_depth)
<1>4. new.overflow_page = NULL_PAGE /\ new.size = 0
  <2> HIDE DEF b
  <2> QED BY <1>2, NewIsCounted DEF Counted, BucketType
<1> HIDE DEF new
<1>5. /\ buckets'[p] = new
      /\ \A q \in BucketIds : q # p => buckets'[q] = buckets[q]
  <2>1. DOMAIN buckets = BucketIds /\ buckets' = [buckets EXCEPT ![p] = new]
    BY <1>3 DEF TypeInv, BucketsInv, new
  <2> QED BY <2>1
<1>6. ~Full(buckets'[p])
  BY <1>4, <1>5, PlacesFacts DEF Full
<1>7. \A q \in BucketIds :
         buckets'[q].overflow_page = IF q = p THEN NULL_PAGE ELSE buckets[q].overflow_page
  BY <1>4, <1>5
<1> QED BY <1>3, <1>6, <1>7, Zenon

LEMMA InitLinks == Init => LinksInv /\ WayInv
<1> SUFFICES ASSUME Init PROVE LinksInv /\ WayInv
  OBVIOUS
<1>1. \A p \in BucketIds : After(p) = NULL_PAGE
  BY DEF Init, After, NewBucket
<1>2. \A p \in allocated, q \in BucketIds \ allocated : p < q
  BY DEF Init, BucketIds
<1>3. op.kind = "none"
  BY DEF Init, Idle
<1> QED BY <1>1, <1>2, <1>3 DEF LinksInv, WayInv

\* Links lead to later pages after every step.
LEMMA NextLinks ==
  DirectoryInv /\ TypeInv /\ RootsInv /\ LinksInv /\ WayInv /\ [Next]_vars => LinksInv'
<1> SUFFICES ASSUME DirectoryInv, TypeInv, RootsInv, LinksInv, WayInv, [Next]_vars PROVE LinksInv'
  OBVIOUS
<1> DEFINE Forward(p) == buckets'[p].overflow_page = NULL_PAGE \/ p < buckets'[p].overflow_page
           InOrder == \A p \in allocated', q \in BucketIds \ allocated' : p < q
<1>1. (\A p \in BucketIds : Forward(p)) /\ InOrder => LinksInv'
  BY DEF LinksInv, After
<1>2. ASSUME allocated' = allocated,
             \A p \in BucketIds : buckets'[p].overflow_page = buckets[p].overflow_page
      PROVE  LinksInv'
  BY <1>1, <1>2 DEF LinksInv, After
<1>3. CASE InsertInBucket \/ InsertInOverflow \/ FollowOverflow \/ LoadFails
  BY <1>2, <1>3, LinksKept
<1>4. CASE SplitBucket
  <2>1. PICK p \in BucketIds : IsNewPage(p) /\ SplitInto(p)
    <3>1. PICK p \in BucketIds : SplitInto(p)
      BY <1>4, SplitsInto
    <3>2. PICK q \in BucketIds : IsNewPage(q) /\ allocated' = allocated \cup {q}
      BY <1>4 DEF SplitBucket
    <3>3. p \notin allocated /\ allocated' = allocated \cup {p}
      BY <3>1, Zenon DEF SplitInto
    <3>4. p = q
      BY <3>2, <3>3
    <3> QED BY <3>1, <3>2, <3>4
  <2>2. allocated' = allocated \cup {p}
    BY <2>1, Zenon DEF SplitInto
  <2>3. InOrder
    BY <2>1, <2>2, NewPageIsLast DEF TypeInv
  <2>4. /\ buckets'[p].overflow_page = NULL_PAGE
        /\ buckets'[op.at].overflow_page = buckets[op.at].overflow_page
        /\ \A r \in BucketIds : r # p /\ r # op.at => buckets'[r] = buckets[r]
    BY <2>1, Zenon DEF SplitInto
  <2>5. \A r \in BucketIds : Forward(r)
    BY <2>4 DEF LinksInv, After
  <2> QED BY <1>1, <2>3, <2>5
<1>5. CASE AddOverflow
  <2>1. PICK p \in BucketIds :
          /\ IsNewPage(p)
          /\ allocated' = allocated \cup {p}
          /\ \A q \in BucketIds :
               buckets'[q].overflow_page = IF q = p THEN NULL_PAGE ELSE buckets[q].overflow_page
    BY <1>5, AddedAfter
  <2>2. InOrder
    BY <2>1, NewPageIsLast DEF TypeInv
  <2>3. \A r \in BucketIds : Forward(r)
    BY <2>1 DEF LinksInv, After
  <2> QED BY <1>1, <2>2, <2>3
<1>6. CASE Relink
  <2> DEFINE s == op.above
             a == s[Len(s)][1]
             b == s[Len(s)][2]
  <2>1. /\ allocated' = allocated /\ op.kind = "relink"
        /\ \A p \in BucketIds :
             buckets'[p].overflow_page = IF p = a THEN b ELSE buckets[p].overflow_page
    BY <1>6, RelinkedAfter
  <2>2. a < b
    BY <2>1, LastLink
  <2> HIDE DEF a, b
  <2>3. \A r \in BucketIds : Forward(r)
    BY <2>1, <2>2 DEF LinksInv, After
  <2>4. InOrder
    BY <2>1 DEF LinksInv
  <2> QED BY <1>1, <2>3, <2>4
<1>7. CASE \E key \in Keys : BeginInsert(key)
  BY <1>2, <1>7 DEF BeginInsert
<1>8. CASE UNCHANGED vars
  BY <1>2, <1>8 DEF vars
<1>9. CASE \E key \in Keys : RemoveKey(key)
  BY <1>8, <1>9, RemovedSame DEF TypeInv
<1> QED BY <1>3, <1>4, <1>5, <1>6, <1>7, <1>8, <1>9 DEF Next

\* The way of an insertion, as facts of a sequence.
IsWay(s, at, after, last, full) ==
  /\ \A k \in 1 .. Len(s) : s[k][1] < s[k][2] /\ s[k][1] < at /\ after[s[k][1]] \in {NULL_PAGE, s[k][2]}
  /\ \A j, k \in 1 .. Len(s) : j < k => s[j][1] < s[k][1]
  /\ last /\ Len(s) > 0 => at = s[Len(s)][2] /\ (after[s[Len(s)][1]] = s[Len(s)][2] \/ ~full)

Afters == [p \in BucketIds |-> buckets[p].overflow_page]

OnWay == op.kind \in {"overflow", "relink"}

WayFacts ==
  OnWay => IsWay(op.above, op.at, Afters, op.kind = "overflow", Full(buckets[op.at]))

LEMMA WayIs == OpInv /\ SpaceInv => (WayInv <=> WayFacts)
<1> SUFFICES ASSUME OpInv, SpaceInv PROVE WayInv <=> WayFacts
  OBVIOUS
<1>1. CASE op = Idle
  BY <1>1 DEF WayInv, WayFacts, OnWay, Idle
<1>2. CASE op # Idle
  <2> DEFINE s == op.above
             n == Len(s)
  <2>1. /\ s \in Seq(BucketIds \X BucketIds)
        /\ \A k \in 1 .. n : s[k] \in BucketIds \X BucketIds
    BY <1>2 DEF OpInv
  <2>2. \A k \in 1 .. n : s[k][1] \in BucketIds /\ After(s[k][1]) = Afters[s[k][1]]
    BY <2>1 DEF After, Afters
  <2>3. n > 0 => n \in 1 .. n
    BY <2>1
  <2> HIDE DEF s, n
  <2> QED BY <2>2, <2>3 DEF WayInv, WayFacts, OnWay, IsWay, s, n
<1> QED BY <1>1, <1>2

\* A bucket more on the way.
LEMMA WayGrows ==
  ASSUME NEW s \in Seq(BucketIds \X BucketIds), NEW at \in BucketIds, NEW next \in BucketIds,
         NEW after, NEW later, NEW last, NEW full, NEW fullNext, at < next,
         IsWay(s, at, after, last, full),
         \A k \in 1 .. Len(s) : later[s[k][1]] = after[s[k][1]],
         later[at] = next \/ (later[at] = NULL_PAGE /\ ~fullNext)
  PROVE  IsWay(Append(s, <<at, next>>), next, later, TRUE, fullNext)
<1> DEFINE link == <<at, next>>
           t == Append(s, link)
           n == Len(s)
<1>1. /\ n \in Nat /\ Len(t) = n + 1 /\ t[n + 1] = link
      /\ \A k \in 1 .. n : t[k] = s[k] /\ s[k] \in BucketIds \X BucketIds
  OBVIOUS
<1>2. BucketIds \subseteq Nat
  BY ExtendibleHashAssumption DEF BucketIds, ExtendibleHashAssumption
<1>3. link[1] = at /\ link[2] = next
  OBVIOUS
<1>4. \A k \in 1 .. n : s[k][1] \in Nat
  BY <1>1, <1>2
<1>5. /\ \A k \in 1 .. n : /\ s[k][1] < s[k][2] /\ s[k][1] < at
                           /\ later[s[k][1]] \in {NULL_PAGE, s[k][2]}
      /\ \A j, k \in 1 .. n : j < k => s[j][1] < s[k][1]
  BY DEF IsWay
<1> HIDE DEF link, t, n
<1>6. at \in Nat /\ next \in Nat
  BY <1>2
<1>7. \A k \in 1 .. n + 1 : k \in 1 .. n \/ k = n + 1
  BY <1>1
<1>8. ASSUME NEW k \in 1 .. n + 1
      PROVE  t[k][1] < t[k][2] /\ t[k][1] < next /\ later[t[k][1]] \in {NULL_PAGE, t[k][2]}
  <2>1. CASE k = n + 1
    <3>1. t[k][1] = at /\ t[k][2] = next
      BY <1>1, <1>3, <2>1
    <3> QED BY <3>1
  <2>2. CASE k \in 1 .. n
    <3>1. t[k] = s[k] /\ s[k][1] < next
      BY <1>1, <1>4, <1>5, <1>6, <2>2
    <3> QED BY <1>5, <2>2, <3>1
  <2> QED BY <1>7, <2>1, <2>2
<1>9. ASSUME NEW j \in 1 .. n + 1, NEW k \in 1 .. n + 1, j < k PROVE t[j][1] < t[k][1]
  <2>1. j \in 1 .. n /\ t[j] = s[j]
    BY <1>1, <1>9
  <2>2. CASE k = n + 1
    BY <1>1, <1>3, <1>5, <2>1, <2>2
  <2>3. CASE k \in 1 .. n
    BY <1>1, <1>5, <1>9, <2>1, <2>3
  <2> QED BY <1>7, <2>2, <2>3
<1>10. next = t[n + 1][2] /\ (later[t[n + 1][1]] = t[n + 1][2] \/ ~fullNext)
  BY <1>1, <1>3
<1>11. IsWay(t, next, later, TRUE, fullNext)
  BY <1>1, <1>8, <1>9, <1>10 DEF IsWay
<1> QED BY <1>11 DEF t, link

\* The last link of the way written.
LEMMA WayShrinks ==
  ASSUME NEW s \in Seq(BucketIds \X BucketIds), NEW at, NEW after, NEW later,
         NEW full, NEW fullThen, Len(s) > 1,
         IsWay(s, at, after, FALSE, full),
         \A k \in 1 .. Len(s) : s[k][1] # s[Len(s)][1] => later[s[k][1]] = after[s[k][1]]
  PROVE  IsWay(SubSeq(s, 1, Len(s) - 1), at, later, FALSE, fullThen)
<1> DEFINE n == Len(s)
           t == SubSeq(s, 1, n - 1)
<1>1. /\ n \in Nat /\ n > 1 /\ Len(t) = n - 1
      /\ \A k \in 1 .. n - 1 : t[k] = s[k]
  OBVIOUS
<1>2. /\ \A k \in 1 .. n : /\ s[k][1] < s[k][2] /\ s[k][1] < at
                           /\ after[s[k][1]] \in {NULL_PAGE, s[k][2]}
      /\ \A j, k \in 1 .. n : j < k => s[j][1] < s[k][1]
  BY DEF IsWay
<1>3. \A k \in 1 .. n : s[k][1] \in Nat
  <2>1. \A k \in 1 .. n : s[k][1] \in BucketIds
    OBVIOUS
  <2>2. BucketIds \subseteq Nat
    BY ExtendibleHashAssumption DEF BucketIds, ExtendibleHashAssumption
  <2> QED BY <2>1, <2>2
<1>4. \A k \in 1 .. n : s[k][1] # s[n][1] => later[s[k][1]] = after[s[k][1]]
  OBVIOUS
<1> HIDE DEF n, t
<1>5. \A k \in 1 .. n - 1 : k \in 1 .. n /\ k < n
  BY <1>1
<1>6. n \in 1 .. n
  BY <1>1
<1>7. \A k \in 1 .. n - 1 : later[s[k][1]] = after[s[k][1]]
  <2> SUFFICES ASSUME NEW k \in 1 .. n - 1 PROVE s[k][1] # s[n][1]
    BY <1>4, <1>5
  <2>1. s[k][1] < s[n][1] /\ s[k][1] \in Nat /\ s[n][1] \in Nat
    BY <1>2, <1>3, <1>5, <1>6
  <2> QED BY <2>1
<1>8. IsWay(t, at, later, FALSE, fullThen)
  <2>1. \A k \in 1 .. n - 1 : /\ t[k][1] < t[k][2] /\ t[k][1] < at
                              /\ later[t[k][1]] \in {NULL_PAGE, t[k][2]}
    BY <1>1, <1>2, <1>5, <1>7
  <2>2. \A j, k \in 1 .. n - 1 : j < k => t[j][1] < t[k][1]
    BY <1>1, <1>2, <1>5
  <2> QED BY <1>1, <2>1, <2>2 DEF IsWay
<1> QED BY <1>8 DEF t, n

\* A way on which no link changed.
LEMMA WayKept ==
  ASSUME NEW s \in Seq(BucketIds \X BucketIds), NEW at, NEW after, NEW later,
         NEW last, NEW full, NEW fullThen,
         IsWay(s, at, after, last, full),
         \A k \in 1 .. Len(s) : later[s[k][1]] = after[s[k][1]]
  PROVE  IsWay(s, at, later, FALSE, fullThen)
BY DEF IsWay

\* The fields of an operation that goes one bucket further.
LEMMA FurtherOp ==
  ASSUME OpInv, op # Idle, NEW next,
         op' = [op EXCEPT !.at = next, !.above = Append(@, <<op.at, next>>)]
  PROVE  op'.kind = op.kind /\ op'.at = next /\ op'.above = Append(op.above, <<op.at, next>>)
<1>1. op = [kind |-> op.kind, entry |-> op.entry, at |-> op.at, above |-> op.above]
  BY DEF OpInv
<1>2. PICK o, k, e, p, s, t :
        /\ o = op /\ k = op.kind /\ e = op.entry /\ p = op.at /\ s = op.above
        /\ t = Append(s, <<p, next>>)
  OBVIOUS
<1>3. o = [kind |-> k, entry |-> e, at |-> p, above |-> s]
  BY <1>1, <1>2, Zenon
<1>4. op' = [o EXCEPT !.at = next, !.above = t]
  BY <1>2, Zenon
<1>5. op'.kind = k /\ op'.at = next /\ op'.above = t
  BY ONLY <1>3, <1>4
<1> QED BY <1>2, <1>5

LEMMA NextWay ==
  DirectoryInv /\ TypeInv /\ RootsInv /\ LinksInv /\ WayInv /\ [Next]_vars => WayInv'
<1> SUFFICES ASSUME DirectoryInv, TypeInv, RootsInv, LinksInv, WayInv, [Next]_vars PROVE WayInv'
  OBVIOUS
<1>1. OpInv' /\ SpaceInv' /\ WayFacts
  BY NextTypes, WayIs DEF TypeInv
<1>2. WayFacts' => WayInv'
  <2>1. (OpInv /\ SpaceInv => (WayInv <=> WayFacts))'
    BY WayIs, PTL
  <2> QED BY <1>1, <2>1
<1> DEFINE s == op.above
           n == Len(s)
           V == BucketIds \X BucketIds
<1>3. ASSUME op # Idle
      PROVE  /\ op.at \in allocated /\ op.at \in BucketIds /\ s \in Seq(V) /\ n \in Nat
             /\ \A k \in 1 .. n : s[k][1] \in allocated /\ s[k][1] \in BucketIds
  BY <1>3 DEF TypeInv, OpInv, SpaceInv
<1>4. ~OnWay' => WayInv'
  BY <1>2 DEF WayFacts
<1>5. CASE op' = Idle
  BY <1>4, <1>5 DEF OnWay, Idle
<1>6. CASE UNCHANGED vars
  BY <1>6 DEF vars, WayInv, After, Full
<1>7. CASE InsertInBucket \/ SplitBucket \/ LoadFails
  BY <1>5, <1>7, Zenon DEF InsertInBucket, SplitBucket, LoadFails
<1>8. CASE InsertInOverflow /\ op' # Idle
  <2>1. op # Idle /\ op.kind = "overflow" /\ op' = [op EXCEPT !.kind = "relink"]
    BY <1>8 DEF InsertInOverflow, Idle
  <2>2. op'.kind = "relink" /\ op'.above = s /\ op'.at = op.at
    <3>1. op = [kind |-> op.kind, entry |-> op.entry, at |-> op.at, above |-> op.above]
      BY <2>1 DEF TypeInv, OpInv
    <3> QED BY <2>1, <3>1
  <2>3. \A p \in BucketIds : Afters'[p] = Afters[p]
    BY <1>8, LinksKept DEF Afters
  <2>4. PICK after, later, fullThen :
          after = Afters /\ later = Afters' /\ fullThen = Full(buckets[op.at])'
    OBVIOUS
  <2>5. IsWay(s, op.at, after, TRUE, Full(buckets[op.at]))
    BY <1>1, <2>1, <2>4, Zenon DEF WayFacts, OnWay
  <2>6. s \in Seq(V) /\ \A k \in 1 .. n : later[s[k][1]] = after[s[k][1]]
    BY <1>3, <2>1, <2>3, <2>4
  <2> HIDE DEF s
  <2>7. IsWay(s, op.at, later, FALSE, fullThen)
    BY <2>5, <2>6, WayKept
  <2>8. WayFacts'
    BY <2>2, <2>4, <2>7 DEF WayFacts
  <2> QED BY <1>2, <2>8
<1> DEFINE last == s[n][1]
<1>9. CASE Relink /\ op' # Idle
  <2>1. op # Idle /\ op.kind = "relink" /\ op' = [op EXCEPT !.above = SubSeq(@, 1, Len(@) - 1)]
        /\ n # 1
    BY <1>9 DEF Relink, Idle
  <2>2. op'.kind = "relink" /\ op'.above = SubSeq(s, 1, n - 1) /\ op'.at = op.at
    <3>1. op = [kind |-> op.kind, entry |-> op.entry, at |-> op.at, above |-> op.above]
      BY <2>1 DEF TypeInv, OpInv
    <3>2. PICK t : t = SubSeq(s, 1, n - 1)
      OBVIOUS
    <3>3. op' = [op EXCEPT !.above = t]
      BY <2>1, <3>2, Zenon
    <3> QED BY <2>1, <3>1, <3>2, <3>3
  <2>3. n > 0 /\ last \in BucketIds
    BY <2>1, LastLink
  <2>4. \A p \in BucketIds : p # last => Afters'[p] = Afters[p]
    <3>1. \A p \in BucketIds :
            buckets'[p].overflow_page = IF p = last THEN s[n][2] ELSE buckets[p].overflow_page
      BY <1>9, RelinkedAfter
    <3> QED BY <3>1 DEF Afters
  <2>5. PICK after, later, fullThen :
          after = Afters /\ later = Afters' /\ fullThen = Full(buckets[op.at])'
    OBVIOUS
  <2>6. IsWay(s, op.at, after, FALSE, Full(buckets[op.at]))
    <3>1. IsWay(s, op.at, after, op.kind = "overflow", Full(buckets[op.at]))
      BY <1>1, <2>1, <2>5, Zenon DEF WayFacts, OnWay
    <3> QED BY <2>1, <3>1 DEF IsWay
  <2>7. /\ s \in Seq(V) /\ Len(s) > 1
        /\ \A k \in 1 .. n : s[k][1] # last => later[s[k][1]] = after[s[k][1]]
    <3>1. n \in Nat /\ n > 0 /\ n # 1 /\ s \in Seq(V)
      BY <1>3, <2>1, <2>3
    <3>2. n > 1
      <4> HIDE DEF n
      <4> QED BY <3>1
    <3>3. ASSUME NEW k \in 1 .. n, s[k][1] # last PROVE later[s[k][1]] = after[s[k][1]]
      <4>1. s[k][1] \in BucketIds
        BY <1>3, <2>1
      <4> HIDE DEF last, s, n
      <4> QED BY <2>4, <2>5, <3>3, <4>1
    <3> QED BY <3>1, <3>2, <3>3
  <2> HIDE DEF s
  <2>8. IsWay(SubSeq(s, 1, Len(s) - 1), op.at, later, FALSE, fullThen)
    BY <2>6, <2>7, WayShrinks
  <2>9. WayFacts'
    BY <2>2, <2>5, <2>8 DEF WayFacts
  <2> QED BY <1>2, <2>9
<1>10. CASE FollowOverflow
  <2>1. op # Idle /\ op.kind = "overflow"
    BY <1>10 DEF FollowOverflow, Idle
  <2>2. PICK next : /\ next = buckets[op.at].overflow_page /\ next # NULL_PAGE
                    /\ op' = [op EXCEPT !.at = next, !.above = Append(@, <<op.at, next>>)]
    BY <1>10 DEF FollowOverflow
  <2>3. next \in BucketIds /\ op.at < next
    BY <1>3, <2>1, <2>2 DEF LinksInv, After, TypeInv, BucketsInv, Fits, SpaceInv
  <2>4. op'.kind = "overflow" /\ op'.at = next /\ op'.above = Append(s, <<op.at, next>>)
    BY <2>1, <2>2, FurtherOp DEF TypeInv
  <2>5. PICK after, fullThen :
          after = Afters /\ fullThen = Full(buckets[next])'
    OBVIOUS
  <2>6. Afters' = after
    BY <1>10, <2>5 DEF FollowOverflow, Afters
  <2>7. after[op.at] = next
    BY <1>3, <2>1, <2>2, <2>5 DEF Afters
  <2>8. IsWay(s, op.at, after, TRUE, Full(buckets[op.at]))
    BY <1>1, <2>1, <2>5, Zenon DEF WayFacts, OnWay
  <2>9. s \in Seq(V) /\ op.at \in BucketIds /\ \A k \in 1 .. Len(s) : after[s[k][1]] = after[s[k][1]]
    BY <1>3, <2>1
  <2> HIDE DEF s
  <2>10. IsWay(Append(s, <<op.at, next>>), next, after, TRUE, fullThen)
    BY <2>3, <2>7, <2>8, <2>9, WayGrows
  <2>11. WayFacts'
    BY <2>4, <2>5, <2>6, <2>10 DEF WayFacts
  <2> QED BY <1>2, <2>11
<1>11. CASE AddOverflow
  <2>1. op # Idle /\ op.kind = "overflow" /\ buckets[op.at].overflow_page = NULL_PAGE
    BY <1>11 DEF AddOverflow, Idle
  <2>2. PICK p \in BucketIds :
          /\ IsNewPage(p)
          /\ allocated' = allocated \cup {p}
          /\ op' = [op EXCEPT !.at = p, !.above = Append(@, <<op.at, p>>)]
          /\ \A q \in BucketIds :
               buckets'[q].overflow_page = IF q = p THEN NULL_PAGE ELSE buckets[q].overflow_page
          /\ ~Full(buckets'[p])
    BY <1>11, AddedAfter
  <2>3. op.at < p /\ p \notin allocated
    BY <1>3, <2>1, <2>2, NewPageIsLast DEF TypeInv
  <2>4. op'.kind = "overflow" /\ op'.at = p /\ op'.above = Append(s, <<op.at, p>>)
    BY <2>1, <2>2, FurtherOp DEF TypeInv
  <2>5. PICK after, later : after = Afters /\ later = Afters'
    OBVIOUS
  <2>6. \A q \in BucketIds : later[q] = IF q = p THEN NULL_PAGE ELSE after[q]
    BY <2>2, <2>5 DEF Afters
  <2>7. later[op.at] = NULL_PAGE
    BY <1>3, <2>1, <2>5, <2>6 DEF Afters
  <2>8. IsWay(s, op.at, after, TRUE, Full(buckets[op.at]))
    BY <1>1, <2>1, <2>5, Zenon DEF WayFacts, OnWay
  <2>9. s \in Seq(V) /\ op.at \in BucketIds /\ \A k \in 1 .. Len(s) : later[s[k][1]] = after[s[k][1]]
    BY <1>3, <2>1, <2>3, <2>6
  <2> HIDE DEF s
  <2>10. IsWay(Append(s, <<op.at, p>>), p, later, TRUE, FALSE)
    BY <2>3, <2>7, <2>8, <2>9, WayGrows
  <2>11. IsWay(Append(s, <<op.at, p>>), p, later, TRUE, Full(buckets[p])')
    BY <2>2, <2>10 DEF IsWay
  <2>12. WayFacts'
    BY <2>4, <2>5, <2>11 DEF WayFacts
  <2> QED BY <1>2, <2>12
<1>12. ASSUME NEW key \in Keys, BeginInsert(key) PROVE WayInv'
  <2>1. op'.above = <<>>
    BY <1>12 DEF BeginInsert
  <2>2. Len(op'.above) = 0
    BY <2>1
  <2> QED BY <2>2 DEF WayInv
<1>13. CASE \E key \in Keys : RemoveKey(key)
  BY <1>6, <1>13, RemovedSame DEF TypeInv
<1> QED BY <1>5, <1>6, <1>7, <1>8, <1>9, <1>10, <1>11, <1>12, <1>13 DEF Next
-----------------------------------------------------------------------------
\* A new bucket of a chain that is not linked yet.
Pending(q) == OnWay /\ Len(op.above) > 0 /\ q = op.above[Len(op.above)][2]

IsRoot(q) == \E i \in DirectoryEntries : Pointer(i) = q

IsLinked(q) == \E r \in allocated : After(r) = q

\* Every page of the index is a bucket of the directory, or has a link to it.
ReachInv == failures = 0 => \A q \in allocated : IsRoot(q) \/ IsLinked(q) \/ Pending(q)

LEMMA InitReach == Init => ReachInv
<1> SUFFICES ASSUME Init PROVE ReachInv
  OBVIOUS
<1>1. directory_capacity \in Nat \ {0}
  BY ExtendibleHashAssumption DEF ExtendibleHashAssumption
<1>2. 0 \in DirectoryEntries /\ Pointer(0) = 1
  BY <1>1 DEF Init, DirectoryEntries, Pointer
<1> QED BY <1>2 DEF Init, ReachInv, IsRoot

\* The last bucket of a way without room is linked.
LEMMA FullIsLinked ==
  ASSUME TypeInv, WayInv, op.kind = "overflow", Full(buckets[op.at]), NEW q, Pending(q)
  PROVE  IsLinked(q)
<1> DEFINE s == op.above
           n == Len(s)
<1>1. op # Idle
  BY DEF Idle
<1>2. n \in Nat /\ n > 0 /\ \A k \in 1 .. n : s[k][1] \in allocated
  BY <1>1 DEF TypeInv, OpInv, Pending
<1>3. op.at = s[n][2] /\ After(s[n][1]) = s[n][2] /\ q = s[n][2]
  BY <1>2 DEF WayInv, Pending
<1>4. s[n][1] \in allocated
  <2> HIDE DEF s, n
  <2> QED BY <1>2
<1> HIDE DEF s, n
<1> QED BY <1>3, <1>4 DEF IsLinked

LEMMA NextReach ==
  DirectoryInv /\ TypeInv /\ RootsInv /\ LinksInv /\ WayInv /\ ReachInv /\ [Next]_vars => ReachInv'
<1> SUFFICES ASSUME DirectoryInv, TypeInv, RootsInv, LinksInv, WayInv, ReachInv, [Next]_vars,
                    failures' = 0, NEW q \in allocated'
             PROVE  (IsRoot(q) \/ IsLinked(q) \/ Pending(q))'
  BY Zenon DEF ReachInv
<1> DEFINE s == op.above
           n == Len(s)
<1>1. ASSUME failures = 0, q \in allocated PROVE IsRoot(q) \/ IsLinked(q) \/ Pending(q)
  BY <1>1, Zenon DEF ReachInv
<1>2. allocated \subseteq BucketIds /\ NULL_PAGE \notin allocated
  BY EntryFacts DEF TypeInv
<1>3. ASSUME directory' = directory, IsRoot(q) PROVE IsRoot(q)'
  BY <1>3 DEF IsRoot, DirectoryEntries, Pointer
<1>4. ASSUME allocated \subseteq allocated', IsLinked(q),
             \A p \in allocated : buckets'[p].overflow_page = buckets[p].overflow_page
      PROVE  IsLinked(q)'
  BY <1>4 DEF IsLinked, After
<1>5. CASE UNCHANGED vars
  BY <1>1, <1>3, <1>4, <1>5 DEF vars, Pending, OnWay
<1>6. CASE InsertInBucket \/ InsertInOverflow \/ FollowOverflow
  <2>1. /\ allocated' = allocated /\ directory' = directory /\ failures = 0
        /\ \A p \in allocated : buckets'[p].overflow_page = buckets[p].overflow_page
    BY <1>2, <1>6, LinksKept DEF InsertInBucket, InsertInOverflow, FollowOverflow
  <2>2. CASE IsRoot(q) \/ IsLinked(q)
    BY <1>3, <1>4, <2>1, <2>2
  <2>3. CASE Pending(q)
    <3>1. op # Idle
      BY <2>3 DEF Pending, OnWay, Idle
    <3>2. CASE InsertInBucket
      BY <2>3, <3>2 DEF InsertInBucket, Pending, OnWay
    <3>3. CASE InsertInOverflow
      <4>1. s # <<>>
        BY <2>3 DEF Pending
      <4>2. op' = [op EXCEPT !.kind = "relink"]
        BY <3>3, <4>1, Zenon DEF InsertInOverflow
      <4>3. op = [kind |-> op.kind, entry |-> op.entry, at |-> op.at, above |-> op.above]
        BY <3>1 DEF TypeInv, OpInv
      <4>4. op'.kind = "relink" /\ op'.above = s
        BY <4>2, <4>3
      <4> QED BY <2>3, <4>4 DEF Pending, OnWay
    <3>4. CASE FollowOverflow
      <4>1. IsLinked(q)
        BY <2>3, <3>4, FullIsLinked DEF FollowOverflow
      <4> QED BY <1>4, <2>1, <4>1
    <3> QED BY <1>6, <3>2, <3>3, <3>4
  <2> QED BY <1>1, <2>1, <2>2, <2>3
<1>7. CASE AddOverflow
  <2>1. PICK p \in BucketIds :
          /\ IsNewPage(p)
          /\ allocated' = allocated \cup {p}
          /\ op' = [op EXCEPT !.at = p, !.above = Append(@, <<op.at, p>>)]
          /\ \A r \in BucketIds :
               buckets'[r].overflow_page = IF r = p THEN NULL_PAGE ELSE buckets[r].overflow_page
    BY <1>7, AddedAfter
  <2>2. op # Idle /\ op.kind = "overflow" /\ directory' = directory /\ failures = 0
        /\ Full(buckets[op.at])
    BY <1>7 DEF AddOverflow, Idle
  <2>3. p \notin allocated
    BY <2>1 DEF IsNewPage
  <2>4. \A r \in allocated : buckets'[r].overflow_page = buckets[r].overflow_page
    BY <1>2, <2>1, <2>3
  <2>5. CASE q = p
    <3>1. op'.kind = "overflow" /\ op'.above = Append(s, <<op.at, p>>)
      BY <2>1, <2>2, FurtherOp DEF TypeInv
    <3>2. s \in Seq(BucketIds \X BucketIds) /\ op.at \in BucketIds
      BY <2>2 DEF TypeInv, OpInv, SpaceInv
    <3> DEFINE link == <<op.at, p>>
               t == Append(s, link)
    <3>3. link \in BucketIds \X BucketIds /\ link[2] = p
      BY <3>2
    <3> HIDE DEF link, s
    <3>4. Len(t) = Len(s) + 1 /\ Len(t) > 0 /\ t[Len(t)] = link
      BY <3>2, <3>3
    <3>5. op'.above = t
      BY <3>1 DEF link, s
    <3> HIDE DEF t
    <3> QED BY <2>5, <3>1, <3>3, <3>4, <3>5 DEF Pending, OnWay
  <2>6. CASE q # p
    <3>1. q \in allocated
      BY <2>1, <2>6
    <3>2. IsRoot(q) \/ IsLinked(q)
      BY <1>1, <2>2, <3>1, FullIsLinked
    <3> QED BY <1>3, <1>4, <2>1, <2>2, <2>4, <3>2
  <2> QED BY <2>5, <2>6
<1>8. CASE Relink
  <2> DEFINE a == s[n][1]
             b == s[n][2]
  <2>1. /\ op.kind = "relink" /\ UNCHANGED <<directory, allocated, failures>>
        /\ \A p \in BucketIds :
             buckets'[p].overflow_page = IF p = a THEN b ELSE buckets[p].overflow_page
    BY <1>8, RelinkedAfter
  <2>2. a \in allocated /\ b \in allocated /\ After(a) \in {NULL_PAGE, b}
    BY <2>1, LastLink
  <2>3. Pending(q) => q = b
    BY DEF Pending
  <2> HIDE DEF a, b
  <2>4. CASE IsRoot(q)
    BY <1>3, <2>1, <2>4
  <2>5. CASE q = b
    <3>1. buckets'[a].overflow_page = q /\ a \in allocated'
      BY <1>2, <2>1, <2>2, <2>5
    <3> QED BY <3>1 DEF IsLinked, After
  <2>6. CASE IsLinked(q) /\ q # b
    <3>1. PICK r \in allocated : After(r) = q
      BY <2>6 DEF IsLinked
    <3>2. q # NULL_PAGE
      BY <1>2, <2>1
    <3>3. r # a
      BY <2>2, <2>6, <3>1, <3>2
    <3>4. buckets'[r].overflow_page = q /\ r \in allocated'
      BY <1>2, <2>1, <3>1, <3>3 DEF After
    <3> QED BY <3>4 DEF IsLinked, After
  <2> QED BY <1>1, <2>1, <2>3, <2>4, <2>5, <2>6
<1>9. CASE SplitBucket
  <2> DEFINE place == 2 ^ buckets[op.at].local_depth + buckets[op.at].prefix
             after == 0 .. 2 ^ directory'.global_depth - 1
             D == DirectoryEntries
  <2>1. PICK p \in BucketIds : SplitInto(p)
    BY <1>9, SplitsInto
  <2>2. op.kind = "split" /\ failures' = failures
    BY <1>9 DEF SplitBucket
  <2>3. /\ p \notin allocated
        /\ allocated' = allocated \cup {p}
        /\ buckets'[op.at].overflow_page = buckets[op.at].overflow_page
        /\ \A r \in BucketIds : r # p /\ r # op.at => buckets'[r] = buckets[r]
        /\ place \in after
        /\ D \subseteq after
        /\ \A i \in after :
             directory'.bucket_ptrs[i] = IF i = place THEN p
                                         ELSE IF i \in D THEN Pointer(i)
                                         ELSE Pointer(i - 2 ^ directory.global_depth)
    BY <2>1, Zenon DEF SplitInto
  <2>4. DirectoryEntries' = after /\ \A i : Pointer(i)' = directory'.bucket_ptrs[i]
    BY DEF DirectoryEntries, Pointer
  <2>5. ~IsHome(place)
    BY <2>2, NewHome
  <2> HIDE DEF place, after, D
  <2>6. CASE q = p
    BY <2>3, <2>4, <2>6 DEF IsRoot
  <2>7. CASE IsLinked(q)
    BY <1>2, <1>4, <2>3, <2>7
  <2>8. CASE IsRoot(q) /\ q # p
    <3>1. PICK i \in D : Pointer(i) = q
      BY <2>8 DEF IsRoot, D
    <3>2. CASE i # place
      <4>1. directory'.bucket_ptrs[i] = q /\ i \in after
        BY <2>3, <3>1, <3>2
      <4> QED BY <2>4, <4>1 DEF IsRoot
    <3>3. CASE i = place
      <4> DEFINE k == buckets[q].prefix
      <4>1. k # place
        BY <2>5, <3>1, <3>3 DEF IsHome, D
      <4>2. k < 2 ^ buckets[q].local_depth /\ Pointer(k) = q
        BY <3>1, Zenon DEF RootsInv, HomesInv, D
      <4>3. k \in D
        BY <3>1, HomeEntry DEF D
      <4>4. directory'.bucket_ptrs[k] = q /\ k \in after
        BY <2>3, <4>1, <4>2, <4>3
      <4> QED BY <2>4, <4>4 DEF IsRoot
    <3> QED BY <3>2, <3>3
  <2>9. ~Pending(q)
    BY <2>2 DEF Pending, OnWay
  <2> QED BY <1>1, <2>2, <2>3, <2>6, <2>7, <2>8, <2>9
<1>10. CASE LoadFails
  BY <1>10 DEF LoadFails, TypeInv, CountInv
<1>11. ASSUME NEW key \in Keys, BeginInsert(key)
       PROVE  (IsRoot(q) \/ IsLinked(q) \/ Pending(q))'
  <2>1. op = Idle /\ UNCHANGED <<directory, buckets, allocated, failures>>
    BY <1>11 DEF BeginInsert
  <2>2. ~Pending(q)
    BY <2>1 DEF Pending, OnWay, Idle
  <2> QED BY <1>1, <1>3, <1>4, <2>1, <2>2
<1>12. CASE \E key \in Keys : RemoveKey(key)
  BY <1>5, <1>12, RemovedSame DEF TypeInv
<1> QED BY <1>5, <1>6, <1>7, <1>8, <1>9, <1>10, <1>11, <1>12 DEF Next
-----------------------------------------------------------------------------
(* Chains.                                                                 *)

\* A set of pages that their links do not leave.
Closed(S) == \A r \in S : After(r) = NULL_PAGE \/ After(r) \in S

\* The pages that links lead to from p.
From(p) == {q \in BucketIds : \A S \in SUBSET BucketIds : p \in S /\ Closed(S) => q \in S}

\* A page is followed by those its link leads to.
LEMMA FromOneOn ==
  ASSUME NEW p \in BucketIds, After(p) \in {NULL_PAGE} \cup BucketIds, NULL_PAGE \notin BucketIds
  PROVE  From(p) = {p} \cup (IF After(p) = NULL_PAGE THEN {} ELSE From(After(p)))
<1>1. p \in From(p)
  BY DEF From
<1>2. ASSUME After(p) # NULL_PAGE, NEW q \in From(After(p)) PROVE q \in From(p)
  <2> SUFFICES ASSUME NEW S \in SUBSET BucketIds, p \in S, Closed(S) PROVE q \in S
    BY DEF From
  <2>1. After(p) \in S
    BY <1>2 DEF Closed
  <2> QED BY <2>1 DEF From
<1>3. ASSUME After(p) = NULL_PAGE, NEW q \in From(p) PROVE q = p
  <2>1. {p} \in SUBSET BucketIds /\ p \in {p} /\ Closed({p})
    BY <1>3 DEF Closed
  <2>2. q \in {p}
    BY <2>1, Zenon DEF From
  <2> QED BY <2>2
<1>4. ASSUME After(p) # NULL_PAGE, NEW q \in From(p), q # p PROVE q \in From(After(p))
  <2> SUFFICES ASSUME NEW S \in SUBSET BucketIds, After(p) \in S, Closed(S) PROVE q \in S
    BY DEF From
  <2> DEFINE T == S \cup {p}
  <2>1. T \in SUBSET BucketIds /\ p \in T /\ Closed(T)
    BY DEF Closed
  <2> HIDE DEF T
  <2>2. q \in T
    BY <2>1, Zenon DEF From
  <2> QED BY <1>4, <2>2 DEF T
<1>5. CASE After(p) = NULL_PAGE
  BY <1>1, <1>3, <1>5
<1>6. CASE After(p) # NULL_PAGE
  <2>1. ASSUME NEW q \in From(p) PROVE q \in {p} \cup From(After(p))
    BY <1>4, <1>6
  <2>2. ASSUME NEW q \in {p} \cup From(After(p)) PROVE q \in From(p)
    BY <1>1, <1>2, <1>6
  <2> QED BY <1>6, <2>1, <2>2
<1> QED BY <1>5, <1>6

\* Links end, so a chain is what the links lead to.
LEMMA ChainIs ==
  ASSUME TypeInv, LinksInv, NEW first \in BucketIds
  PROVE  Chain(first) = From(first)
<1> DEFINE Dom == BucketIds \cup {NULL_PAGE}
           Body(f) == [p \in Dom |-> IF p = NULL_PAGE THEN {} ELSE {p} \cup f[After(p)]]
           along == CHOOSE f : f = Body(f)
           all == [p \in Dom |-> IF p = NULL_PAGE THEN {} ELSE From(p)]
<1>1. /\ MaxBuckets \in Nat \ {0} /\ BucketIds = 1 .. MaxBuckets /\ NULL_PAGE = 0
      /\ NULL_PAGE \notin BucketIds
  BY ExtendibleHashAssumption DEF BucketIds, NULL_PAGE, ExtendibleHashAssumption
<1>2. \A p \in BucketIds : After(p) \in Dom
  BY DEF After, TypeInv, BucketsInv, SpaceInv, Fits
<1>3. all = Body(all)
  <2> SUFFICES ASSUME NEW p \in Dom
               PROVE  all[p] = IF p = NULL_PAGE THEN {} ELSE {p} \cup all[After(p)]
    BY Zenon
  <2>1. CASE p = NULL_PAGE
    BY <2>1
  <2>2. CASE p # NULL_PAGE
    <3>1. p \in BucketIds /\ After(p) \in Dom
      BY <1>2, <2>2
    <3>2. From(p) = {p} \cup (IF After(p) = NULL_PAGE THEN {} ELSE From(After(p)))
      BY <1>1, <3>1, FromOneOn
    <3>3. all[p] = From(p)
      BY <2>2
    <3>4. all[After(p)] = IF After(p) = NULL_PAGE THEN {} ELSE From(After(p))
      BY <3>1
    <3> QED BY <2>2, <3>2, <3>3, <3>4, Zenon
  <2> QED BY <2>1, <2>2
<1>4. along = Body(along)
  <2> HIDE DEF all
  <2> QED BY <1>3, Zenon
<1>5. Chain(first) = along[first]
  BY Zenon DEF Chain, After
<1> HIDE DEF along
<1>6. /\ along[NULL_PAGE] = {}
      /\ \A p \in BucketIds : along[p] = {p} \cup along[After(p)]
  <2>1. \A p \in Dom : along[p] = IF p = NULL_PAGE THEN {} ELSE {p} \cup along[After(p)]
    BY <1>4, Zenon
  <2>2. NULL_PAGE \in Dom /\ \A p \in BucketIds : p \in Dom /\ p # NULL_PAGE
    BY <1>1
  <2> QED BY <2>1, <2>2, Zenon
<1>7. /\ all[NULL_PAGE] = {}
      /\ \A p \in BucketIds : all[p] = {p} \cup all[After(p)]
  <2> HIDE DEF all
  <2>1. \A p \in Dom : all[p] = IF p = NULL_PAGE THEN {} ELSE {p} \cup all[After(p)]
    BY <1>3, Zenon
  <2>2. NULL_PAGE \in Dom /\ \A p \in BucketIds : p \in Dom /\ p # NULL_PAGE
    BY <1>1
  <2> QED BY <2>1, <2>2, Zenon
<1>8. all[first] = From(first)
  BY <1>1
<1> HIDE DEF all
<1> DEFINE good == {n \in Nat : \A p \in Dom : p = NULL_PAGE \/ p + n > MaxBuckets => along[p] = all[p]}
<1>9. 0 \in good
  <2>1. \A p \in Dom : p = NULL_PAGE \/ p + 0 > MaxBuckets => p = NULL_PAGE
    BY <1>1
  <2> QED BY <1>6, <1>7, <2>1
<1>10. ASSUME NEW n \in 0 .. MaxBuckets - 1, n \in good PROVE n + 1 \in good
  <2>1. n \in Nat /\ n + 1 \in Nat
    BY <1>1
  <2>2. ASSUME NEW p \in BucketIds, p + (n + 1) > MaxBuckets PROVE along[p] = all[p]
    <3>1. After(p) \in Dom /\ (After(p) = NULL_PAGE \/ p < After(p))
      BY <1>2 DEF LinksInv
    <3> DEFINE q == After(p)
    <3>2. q \in Dom /\ (q = NULL_PAGE \/ p < q)
      BY <3>1
    <3> HIDE DEF q
    <3>3. q = NULL_PAGE \/ q + n > MaxBuckets
      BY <1>1, <2>1, <2>2, <3>2
    <3>4. along[q] = all[q]
      BY <1>10, <3>2, <3>3
    <3> QED BY <1>6, <1>7, <3>4 DEF q
  <2>3. ASSUME NEW p \in Dom, p = NULL_PAGE \/ p + (n + 1) > MaxBuckets PROVE along[p] = all[p]
    BY <1>6, <1>7, <2>2, <2>3
  <2> QED BY <2>1, <2>3
<1>11. MaxBuckets \in good
  <2> HIDE DEF good
  <2>1. \A n \in 0 .. MaxBuckets - 1 : n \in good => n + 1 \in good
    BY <1>10
  <2>2. MaxBuckets \in Nat /\ MaxBuckets \in 0 .. MaxBuckets
    BY <1>1
  <2> QED BY <1>9, <2>1, <2>2, SetInduction
<1>12. first \in Dom /\ first + MaxBuckets > MaxBuckets
  BY <1>1
<1>13. along[first] = all[first]
  BY <1>11, <1>12
<1> QED BY <1>5, <1>8, <1>13

\* While nothing failed and between two operations, the pages of the index are those a
\* search can come to.
LEMMA ReachedIs ==
  ASSUME DirectoryInv, TypeInv, LinksInv, ReachInv, op = Idle, failures = 0
  PROVE  allocated = Reached
<1> DEFINE D == DirectoryEntries
<1>1. /\ \A i \in D : Pointer(i) \in allocated /\ Pointer(i) \in BucketIds
      /\ allocated \subseteq BucketIds /\ BucketIds \subseteq Nat \ {NULL_PAGE}
  BY EntryFacts DEF TypeInv
<1>2. Reached = UNION {Chain(Pointer(i)) : i \in D}
  BY DEF Reached, Pointer
<1>3. \A i \in D : Chain(Pointer(i)) = From(Pointer(i))
  BY <1>1, ChainIs
<1>4. \A q : q \in Reached <=> \E i \in D : q \in From(Pointer(i))
  BY <1>2, <1>3
<1>5. Closed(allocated)
  BY <1>1 DEF Closed, After, TypeInv, BucketsInv, Fits
<1>6. ASSUME NEW q \in Reached PROVE q \in allocated
  <2>1. PICK i \in D : q \in From(Pointer(i))
    BY <1>4
  <2>2. allocated \in SUBSET BucketIds /\ Pointer(i) \in allocated
    BY <1>1
  <2> QED BY <1>5, <2>1, <2>2 DEF From
<1>7. \A q \in allocated : IsRoot(q) \/ IsLinked(q)
  BY DEF ReachInv, Pending, OnWay, Idle
<1> HIDE DEF D
<1> DEFINE good == {n \in Nat : \A q \in allocated : q <= n => q \in Reached}
<1>8. 0 \in good
  <2>1. \A q \in allocated : ~(q <= 0)
    BY <1>1 DEF NULL_PAGE
  <2> QED BY <2>1
<1>9. ASSUME NEW n \in 0 .. MaxBuckets - 1, n \in good PROVE n + 1 \in good
  <2>1. n \in Nat /\ n + 1 \in Nat
    OBVIOUS
  <2>2. ASSUME NEW q \in allocated, q <= n + 1 PROVE q \in Reached
    <3>1. q \in BucketIds /\ q \in Nat /\ q # NULL_PAGE
      BY <1>1
    <3>2. CASE IsRoot(q)
      <4>1. PICK i \in D : Pointer(i) = q
        BY <3>2 DEF IsRoot, D
      <4>2. q \in From(Pointer(i))
        BY <3>1, <4>1 DEF From
      <4> QED BY <1>4, <4>2
    <3>3. CASE IsLinked(q)
      <4>1. PICK r \in allocated : After(r) = q
        BY <3>3 DEF IsLinked
      <4>2. r < q /\ r \in Nat
        BY <1>1, <3>1, <4>1 DEF LinksInv
      <4>3. r <= n
        BY <2>1, <2>2, <3>1, <4>2
      <4>4. PICK i \in D : r \in From(Pointer(i))
        BY <1>4, <1>9, <4>3
      <4>5. q \in From(Pointer(i))
        BY <3>1, <4>1, <4>4 DEF From, Closed
      <4> QED BY <1>4, <4>5
    <3> QED BY <1>7, <3>2, <3>3
  <2> QED BY <2>1, <2>2
<1>10. MaxBuckets \in Nat /\ BucketIds = 1 .. MaxBuckets
  BY ExtendibleHashAssumption DEF BucketIds, ExtendibleHashAssumption
<1>11. MaxBuckets \in good
  <2> HIDE DEF good
  <2>1. \A n \in 0 .. MaxBuckets - 1 : n \in good => n + 1 \in good
    BY <1>9
  <2>2. MaxBuckets \in 0 .. MaxBuckets
    BY <1>10
  <2> QED BY <1>8, <1>10, <2>1, <2>2, SetInduction
<1>12. \A q \in allocated : q \in Reached
  <2>1. \A q \in allocated : q <= MaxBuckets
    BY <1>1, <1>10
  <2> QED BY <1>11, <2>1
<1> QED BY <1>6, <1>12

WholeInv == RootsInv /\ LinksInv /\ WayInv /\ ReachInv

LEMMA AlwaysWhole == Spec => []WholeInv
<1>1. Init => WholeInv
  BY InitRoots, InitLinks, InitReach DEF WholeInv
<1>2. DirectoryInv /\ TypeInv /\ WholeInv /\ [Next]_vars => WholeInv'
  BY NextRoots, NextLinks, NextWay, NextReach DEF WholeInv
<1>3. IInv => DirectoryInv
  BY DEF IInv
<1> QED BY <1>1, <1>2, <1>3, Inductive, AlwaysTyped, PTL DEF Spec

\* As long as no operation is cut short, no page is given to the index and then lost to
\* it: split_bucket and insert_overflow_bucket leave every bucket where a search comes by.
THEOREM PagesAreReached == Spec => []PagesReached
<1>1. DirectoryInv /\ TypeInv /\ WholeInv => PagesReached
  BY ReachedIs DEF WholeInv, PagesReached
<1>2. IInv => DirectoryInv
  BY DEF IInv
<1> QED BY <1>1, <1>2, Inductive, AlwaysTyped, AlwaysWhole, PTL
-----------------------------------------------------------------------------
(* Low bits.                                                               *)

\* Division with remainder, both ways.
LEMMA Division ==
  ASSUME NEW x \in Nat, NEW m \in Nat \ {0}
  PROVE  /\ x \div m \in Nat /\ x % m \in 0 .. m - 1
         /\ x = m * (x \div m) + (x % m)
OBVIOUS

\* The rest of a number that is made of its division.
LEMMA RestIs ==
  ASSUME NEW m \in Nat \ {0}, NEW q \in Nat, NEW r \in 0 .. m - 1
  PROVE  (m * q + r) % m = r
OBVIOUS

\* One bit more.
LEMMA OneBitMore ==
  ASSUME NEW k \in Nat, NEW n \in Nat \ {0}
  PROVE  k % (2 * n) = k % n \/ k % (2 * n) = n + (k % n)
<1> DEFINE m == 2 * n
           a == k \div m
           r == k % m
<1>1. m \in Nat \ {0}
  OBVIOUS
<1>2. a \in Nat /\ r \in 0 .. m - 1 /\ k = m * a + r
  BY <1>1, Division
<1> HIDE DEF a, r
<1>3. CASE r < n
  <2>1. 2 * a \in Nat /\ r \in 0 .. n - 1 /\ k = n * (2 * a) + r
    BY <1>2, <1>3
  <2>2. k % n = r
    BY <2>1, RestIs
  <2> QED BY <2>2 DEF r
<1>4. CASE r >= n
  <2>1. 2 * a + 1 \in Nat /\ r - n \in 0 .. n - 1 /\ k = n * (2 * a + 1) + (r - n)
    BY <1>2, <1>4
  <2>2. k % n = r - n
    BY <2>1, RestIs
  <2>3. r = n + (k % n)
    BY <1>2, <2>2
  <2> QED BY <2>3 DEF r
<1> QED BY <1>2, <1>3, <1>4

\* The rest stays when the divisor is added.
LEMMA OneMore ==
  ASSUME NEW x \in Nat, NEW n \in Nat \ {0}
  PROVE  (n + x) % n = x % n
<1> DEFINE a == x \div n
           r == x % n
<1>1. a \in Nat /\ r \in 0 .. n - 1 /\ x = n * a + r
  BY Division
<1> HIDE DEF a, r
<1>2. a + 1 \in Nat /\ n + x = n * (a + 1) + r
  BY <1>1
<1> QED BY <1>1, <1>2, RestIs DEF r

\* A higher bit does not change the low ones.
LEMMA HighBitOff ==
  ASSUME NEW d \in 0 .. directory_capacity, NEW j \in d .. directory_capacity, NEW y \in Nat
  PROVE  (2 ^ j + y) % 2 ^ d = y % 2 ^ d
<1> DEFINE m == 2 ^ d
           N == j - d
           good == {k \in Nat : \A x \in Nat : (2 ^ (d + k) + x) % m = x % m}
<1>1. directory_capacity \in Nat /\ d \in Nat /\ N \in Nat /\ d + N = j
  BY ExtendibleHashAssumption DEF ExtendibleHashAssumption
<1>2. \A k \in 0 .. N : /\ d + k \in 0 .. directory_capacity /\ 2 ^ (d + k) \in Nat
                        /\ 2 ^ ((d + k) + 1) = 2 * 2 ^ (d + k)
  <2> SUFFICES ASSUME NEW k \in 0 .. N
               PROVE  /\ d + k \in 0 .. directory_capacity /\ 2 ^ (d + k) \in Nat
                      /\ 2 ^ ((d + k) + 1) = 2 * 2 ^ (d + k)
    OBVIOUS
  <2>1. d + k \in 0 .. directory_capacity
    BY <1>1
  <2> DEFINE i == d + k
  <2> HIDE DEF i
  <2>2. 2 ^ i \in Nat /\ 2 ^ (i + 1) = 2 * 2 ^ i
    BY <2>1, PowersOfTwo DEF i
  <2> QED BY <2>1, <2>2 DEF i
<1>3. m \in Nat \ {0}
  <2>1. 2 ^ d \in Nat /\ d < 2 ^ d
    BY PowersOfTwo
  <2> QED BY <1>1, <2>1
<1> HIDE DEF N
<1>4. 0 \in good
  <2>1. d + 0 = d
    BY <1>1
  <2>2. \A x \in Nat : (m + x) % m = x % m
    BY <1>3, OneMore
  <2> QED BY <2>1, <2>2
<1> HIDE DEF m
<1>5. ASSUME NEW k \in 0 .. N - 1, k \in good PROVE k + 1 \in good
  <2>1. k \in 0 .. N /\ k + 1 \in Nat /\ d + (k + 1) = (d + k) + 1
    BY <1>1
  <2> DEFINE u == 2 ^ (d + k)
             w == 2 ^ (d + (k + 1))
  <2>2. u \in Nat /\ w = 2 * u
    BY <1>2, <2>1
  <2>3. \A x \in Nat : (u + x) % m = x % m
    BY <1>5
  <2> HIDE DEF u, w
  <2>4. ASSUME NEW x \in Nat PROVE (w + x) % m = x % m
    <3>1. w + x = u + (u + x) /\ u + x \in Nat
      BY <2>2
    <3> QED BY <2>3, <3>1
  <2> QED BY <2>1, <2>4 DEF w
<1> HIDE DEF good
<1>6. \A k \in 0 .. N : k \in good
  BY <1>1, <1>4, <1>5, SetInduction
<1>7. N \in good
  BY <1>1, <1>6
<1> QED BY <1>1, <1>7 DEF good, m
-----------------------------------------------------------------------------
(* Where a split that is not deep leaves the keys.                         *)

\* The numbers of the entries of the directory.
LEMMA EntryNumbers ==
  ASSUME DirectoryInv, NEW i \in DirectoryEntries
  PROVE  i \in Nat
<1> DEFINE n == 2 ^ directory.global_depth
<1>1. n \in Nat
  BY DepthFacts
<1> HIDE DEF n
<1> QED BY <1>1 DEF DirectoryEntries, n

\* The bucket of an entry is no deeper than the directory.
LEMMA EntryBucket ==
  ASSUME DirectoryInv, TypeInv, NEW i \in DirectoryEntries
  PROVE  LET b == buckets[Pointer(i)]
         IN  /\ b.local_depth \in Nat /\ b.prefix \in Nat
             /\ b.local_depth \in 0 .. directory.global_depth
<1> DEFINE b == buckets[Pointer(i)]
<1>1. Fits(b, allocated, directory.global_depth)
  BY EntryFacts DEF TypeInv, BucketsInv
<1>2. directory.global_depth \in Nat
  BY DepthFacts
<1> HIDE DEF b
<1>3. b.local_depth \in Nat /\ b.prefix \in Nat /\ b.local_depth \in 0 .. directory.global_depth
  BY <1>1, <1>2 DEF Fits, Counted, BucketType
<1> QED BY <1>3 DEF b

\* A bucket whose number is the end of another one's is deeper than that end is long.
LEMMA HomesBelow ==
  ASSUME DirectoryInv, TypeInv, SplitsInv, NEW d \in 0 .. directory.global_depth, NEW n, IsHome(n), n % 2 ^ d # n
  PROVE  IsHome(n % 2 ^ d) /\ d < buckets[Pointer(n % 2 ^ d)].local_depth
<1> DEFINE g == directory.global_depth
           m == 2 ^ d
           Deeper(i) == i % m # i => IsHome(i % m) /\ d < buckets[Pointer(i % m)].local_depth
           good == {j \in Nat : \A i \in DirectoryEntries : i < 2 ^ j /\ IsHome(i) => Deeper(i)}
<1>1. /\ g \in Nat /\ g \in 0 .. directory_capacity /\ directory_capacity \in Nat
      /\ d \in Nat /\ d \in 0 .. directory_capacity
  BY DepthFacts DEF DirectoryInv
<1>2. \A j \in 0 .. g : j \in 0 .. directory_capacity /\ 2 ^ j \in Nat \ {0} /\ 2 ^ (j + 1) = 2 * 2 ^ j
  <2> SUFFICES ASSUME NEW j \in 0 .. g
               PROVE  j \in 0 .. directory_capacity /\ 2 ^ j \in Nat \ {0} /\ 2 ^ (j + 1) = 2 * 2 ^ j
    OBVIOUS
  <2>1. j \in 0 .. directory_capacity /\ j \in Nat
    BY <1>1
  <2>2. 2 ^ j \in Nat /\ j < 2 ^ j /\ 2 ^ (j + 1) = 2 * 2 ^ j
    BY <2>1, PowersOfTwo
  <2>3. 2 ^ j # 0
    BY <2>1, <2>2
  <2> QED BY <2>1, <2>2, <2>3
<1>3. m \in Nat \ {0}
  BY <1>2
<1>4. DirectoryEntries = 0 .. 2 ^ g - 1
  BY DEF DirectoryEntries
<1> HIDE DEF g
<1>5. 0 \in good
  <2> SUFFICES ASSUME NEW i \in DirectoryEntries, i < 2 ^ 0 PROVE i % m = i
    BY DEF good
  <2>1. 2 ^ 0 = 1
    OBVIOUS
  <2>2. 2 ^ g \in Nat /\ 2 ^ g - 1 \in Int
    BY <1>1, <1>2
  <2>3. i = 0
    <3> DEFINE N == 2 ^ g
    <3> HIDE DEF N
    <3>1. i \in 0 .. N - 1 /\ N \in Nat
      BY <1>4, <2>2 DEF N
    <3> QED BY <2>1, <3>1
  <2> QED BY <1>3, <2>3
<1>6. ASSUME NEW j \in 0 .. g - 1, j \in good PROVE j + 1 \in good
  <2>1. j \in 0 .. g /\ j + 1 \in Nat /\ j \in Nat
    BY <1>1
  <2> DEFINE u == 2 ^ j
  <2>2. u \in Nat \ {0} /\ 2 ^ (j + 1) = 2 * u
    BY <1>2, <2>1
  <2>3. ASSUME NEW i \in DirectoryEntries, i < 2 * u, IsHome(i), i % m # i
        PROVE  IsHome(i % m) /\ d < buckets[Pointer(i % m)].local_depth
    <3>1. i \in Nat
      BY EntryNumbers
    <3>2. CASE i < u
      BY <1>6, <2>3, <3>2
    <3>3. CASE i >= u
      <4> DEFINE r == i - u
      <4>1. r \in Nat /\ r < u /\ i = u + r
        BY <2>2, <2>3, <3>1, <3>3
      <4>2. r \in DirectoryEntries
        <5> DEFINE N == 2 ^ g
        <5> HIDE DEF N, r
        <5>1. N \in Nat /\ i \in 0 .. N - 1
          BY <1>1, <1>2, <1>4, <2>3 DEF N
        <5>2. r \in 0 .. N - 1
          BY <2>2, <4>1, <5>1
        <5> QED BY <1>4, <5>2 DEF N
      <4>3. IsHome(r) /\ j < buckets[Pointer(r)].local_depth
        <5>1. j \in 0 .. directory.global_depth - 1 /\ IsHome(2 ^ j + r) /\ r < 2 ^ j
          BY <2>3, <4>1 DEF g
        <5> QED BY <4>2, <5>1 DEF SplitsInv
      <4>4. d <= j
        <5> SUFFICES ASSUME j < d PROVE FALSE
          BY <1>1, <2>1
        <5>1. d \in 0 .. directory_capacity /\ j \in 0 .. d
          BY <1>1, <2>1
        <5>2. 2 * u <= m
          BY <5>1, PowersGrow
        <5> HIDE DEF u, m
        <5>3. i \in 0 .. m - 1
          BY <1>3, <2>2, <2>3, <3>1, <5>2
        <5> QED BY <1>3, <2>3, <5>3, RestOfSmall
      <4>5. i % m = r % m
        <5>1. j \in d .. directory_capacity /\ d \in 0 .. directory_capacity
          BY <1>1, <1>2, <2>1, <4>4
        <5>2. (u + r) % m = r % m
          <6> HIDE DEF r
          <6> QED BY <4>1, <5>1, HighBitOff
        <5> QED BY <4>1, <5>2
      <4> HIDE DEF r, u
      <4>6. CASE r % m = r
        <5>1. buckets[Pointer(r)].local_depth \in Nat
          BY <4>2, EntryBucket
        <5> QED BY <1>1, <2>1, <4>3, <4>4, <4>5, <4>6, <5>1
      <4>7. CASE r % m # r
        <5>1. r < 2 ^ j
          BY <4>1 DEF u
        <5> QED BY <1>6, <4>2, <4>3, <4>5, <4>7, <5>1
      <4> QED BY <4>6, <4>7
    <3> QED BY <2>2, <3>1, <3>2, <3>3
  <2> QED BY <2>1, <2>2, <2>3
<1> HIDE DEF good
<1>7. \A j \in 0 .. g : j \in good
  BY <1>1, <1>5, <1>6, SetInduction
<1>8. g \in good /\ n \in DirectoryEntries /\ n < 2 ^ g
  <2>1. g \in 0 .. g
    BY <1>1
  <2> DEFINE N == 2 ^ g
  <2>2. N \in Nat /\ n \in 0 .. N - 1
    BY <1>1, <1>2, <1>4 DEF IsHome
  <2> HIDE DEF N
  <2>3. n < N
    BY <2>2
  <2> QED BY <1>4, <1>7, <2>1, <2>2, <2>3 DEF N
<1> QED BY <1>8 DEF good

-----------------------------------------------------------------------------
\* In a directory that is right, a split that is not deep redirects an entry of the bucket.
LEMMA SplitPlace ==
  ASSUME DirectoryInv, TypeInv, RootsInv, DirectoryRight, op.kind = "split",
         buckets[op.at].local_depth + 1 = directory.global_depth
  PROVE  Pointer(2 ^ buckets[op.at].local_depth + buckets[op.at].prefix) = op.at
<1> DEFINE q == buckets[op.at].prefix
           l == buckets[op.at].local_depth
           g == directory.global_depth
           place == 2 ^ l + q
           d == buckets[Pointer(place)].local_depth
           m == buckets[Pointer(place)].prefix
<1>1. /\ q \in Nat /\ l \in Nat /\ l \in 0 .. g /\ q < 2 ^ l /\ q \in DirectoryEntries
      /\ Pointer(q) = op.at /\ l + 1 = g
      /\ g \in Nat /\ g \in 0 .. directory_capacity /\ directory_capacity \in Nat
  BY SplitAtHome, DepthFacts DEF DirectoryInv
<1>2. 2 ^ l \in Nat \ {0} /\ 2 ^ g = 2 * 2 ^ l
  <2>1. l \in 0 .. g
    BY <1>1
  <2>2. 2 ^ l \in Nat /\ l < 2 ^ l /\ 2 ^ (l + 1) = 2 * 2 ^ l
    BY <2>1, DepthFacts
  <2> HIDE DEF l, g
  <2>3. 2 ^ l # 0
    BY <1>1, <2>2
  <2> QED BY <1>1, <2>2, <2>3
<1>3. place \in DirectoryEntries /\ place \in Nat /\ place < 2 ^ g /\ 2 ^ g \in Nat \ {0}
  <2> DEFINE u == 2 ^ l
             v == 2 ^ g
  <2>1. u \in Nat \ {0} /\ v = 2 * u /\ q \in Nat /\ q < u /\ place = u + q
    BY <1>1, <1>2
  <2>2. DirectoryEntries = 0 .. v - 1
    BY DEF DirectoryEntries
  <2> HIDE DEF u, v, q, place
  <2>3. place \in 0 .. v - 1 /\ place \in Nat /\ place < v /\ v \in Nat \ {0}
    BY <2>1
  <2> QED BY <2>2, <2>3 DEF v
<1> HIDE DEF place
<1>4. d \in Nat /\ m \in Nat /\ d \in 0 .. g
  BY <1>3, EntryBucket
<1>5. place % 2 ^ d = m /\ Pointer(m) = Pointer(place)
  BY <1>3, Zenon DEF DirectoryRight, hash_key, Pointer, RootsInv, HomesInv
<1> HIDE DEF q, l, g, d, m
<1>6. d # g
  <2> SUFFICES ASSUME d = g PROVE FALSE
    OBVIOUS
  <2>1. place \in 0 .. 2 ^ g - 1
    <3> DEFINE v == 2 ^ g
    <3>1. v \in Nat \ {0} /\ place < v
      BY <1>3
    <3> HIDE DEF v
    <3>2. place \in 0 .. v - 1
      BY <1>3, <3>1
    <3> QED BY <3>2 DEF v
  <2>2. m = place
    BY <1>3, <1>5, <2>1, RestOfSmall
  <2>3. IsHome(place)
    BY <1>3, <2>2 DEF IsHome, m
  <2> QED BY <2>3, NewHome DEF place, l, q
<1>7. d \in 0 .. directory_capacity /\ l \in d .. directory_capacity
  BY <1>1, <1>4, <1>6
<1>8. m = q % 2 ^ d
  BY <1>1, <1>5, <1>7, HighBitOff DEF place
<1>9. CASE m = q
  BY <1>1, <1>5, <1>9 DEF place, l, q
<1>10. CASE m # q
  <2>1. IsHome(q)
    BY <1>1 DEF IsHome, q
  <2>2. d < buckets[Pointer(q % 2 ^ d)].local_depth
    BY <1>4, <1>8, <1>10, <2>1, HomesBelow DEF RootsInv, g
  <2>3. d < d
    BY <1>5, <1>8, <2>2 DEF d
  <2> QED BY <1>4, <2>3
<1> QED BY <1>9, <1>10

\* The numbers of a split.
LEMMA SplitNumbers ==
  ASSUME DirectoryInv, TypeInv, RootsInv, op.kind = "split", ~SplitsDeep, NEW p, SplitInto(p)
  PROVE  LET b == buckets[op.at]
             n == 2 ^ b.local_depth
             size == 2 ^ directory.global_depth
         IN  /\ n \in Nat \ {0} /\ size \in Nat \ {0} /\ 2 ^ (b.local_depth + 1) = 2 * n
             /\ b.prefix \in Nat /\ b.prefix < n
             /\ b.local_depth \in Nat /\ b.local_depth \in 0 .. directory.global_depth
             /\ DirectoryEntries = 0 .. size - 1
             /\ \/ /\ b.local_depth = directory.global_depth /\ n = size
                   /\ directory'.global_depth = directory.global_depth + 1
                   /\ 2 ^ directory'.global_depth = 2 * size
                \/ /\ b.local_depth + 1 = directory.global_depth /\ size = 2 * n
                   /\ directory'.global_depth = directory.global_depth
                   /\ 2 ^ directory'.global_depth = size
<1> DEFINE q == buckets[op.at].prefix
           l == buckets[op.at].local_depth
           g == directory.global_depth
           h == directory'.global_depth
           n == 2 ^ l
           size == 2 ^ g
<1>1. /\ q \in Nat /\ l \in Nat /\ l \in 0 .. g /\ q < 2 ^ l /\ q \in DirectoryEntries
      /\ g \in Nat /\ g \in 0 .. directory_capacity /\ directory_capacity \in Nat
  BY SplitAtHome, DepthFacts DEF DirectoryInv
<1>2. n \in Nat \ {0} /\ size \in Nat \ {0} /\ 2 ^ (l + 1) = 2 * n /\ 2 ^ (g + 1) = 2 * size
  <2>1. \A j \in 0 .. g : 2 ^ j \in Nat /\ j < 2 ^ j /\ 2 ^ (j + 1) = 2 * 2 ^ j
    BY DepthFacts
  <2>2. l \in 0 .. g /\ g \in 0 .. g /\ l \in Nat /\ g \in Nat
    BY <1>1
  <2> HIDE DEF l, g
  <2>3. n \in Nat /\ l < n /\ 2 ^ (l + 1) = 2 * n /\ size \in Nat /\ g < size /\ 2 ^ (g + 1) = 2 * size
    BY <2>1, <2>2
  <2> HIDE DEF n, size
  <2> QED BY <2>2, <2>3
<1>3. DirectoryEntries = 0 .. size - 1
  BY DEF DirectoryEntries
<1>4. /\ n + q \in 0 .. 2 ^ h - 1
      /\ h \in {g, g + 1}
      /\ l < g => h = g
  BY Zenon DEF SplitInto
<1>5. ~(l + 1 < g)
  BY DEF SplitsDeep
<1> HIDE DEF l, g, h, q
<1>6. l = g \/ l + 1 = g
  BY <1>1, <1>5
<1>7. CASE l = g
  <2>1. h # g
    <3> SUFFICES ASSUME h = g PROVE FALSE
      OBVIOUS
    <3>1. n + q \in 0 .. n - 1
      BY <1>4, <1>7
    <3> HIDE DEF n
    <3> QED BY <1>1, <1>2, <3>1
  <2>2. h = g + 1
    BY <1>4, <2>1
  <2>3. n = size /\ 2 ^ h = 2 * size
    BY <1>2, <1>7, <2>2
  <2> QED BY <1>1, <1>2, <1>3, <1>7, <2>2, <2>3 DEF l, g, h, q
<1>8. CASE l + 1 = g
  <2>1. h = g
    BY <1>1, <1>4, <1>8
  <2>2. size = 2 * n /\ 2 ^ h = size
    BY <1>2, <1>8, <2>1
  <2> QED BY <1>1, <1>2, <1>3, <1>8, <2>1, <2>2 DEF l, g, h, q
<1> QED BY <1>6, <1>7, <1>8

-----------------------------------------------------------------------------
\* The bucket of every key.
Located == [k \in Keys |-> locate_bucket(k)]

\* An entry that leads to a bucket to split ends in its prefix.
LEMMA EntriesOfSplit ==
  ASSUME DirectoryInv, TypeInv, RootsInv, DirectoryRight, op.kind = "split", ~SplitsDeep, NEW p, SplitInto(p),
         NEW i \in DirectoryEntries
  PROVE  LET b == buckets[op.at]
             n == 2 ^ b.local_depth
         IN  /\ i \in Nat
             /\ b.local_depth = directory.global_depth =>
                  (Pointer(i) = op.at <=> i = b.prefix) /\ i < n
             /\ b.local_depth + 1 = directory.global_depth =>
                  (Pointer(i) = op.at <=> i \in {b.prefix, n + b.prefix}) /\ i < 2 * n
<1> DEFINE q == buckets[op.at].prefix
           l == buckets[op.at].local_depth
           g == directory.global_depth
           n == 2 ^ l
           size == 2 ^ g
<1>1. /\ n \in Nat \ {0} /\ size \in Nat \ {0} /\ q \in Nat /\ q < n /\ DirectoryEntries = 0 .. size - 1
      /\ l = g => size = n
      /\ l + 1 = g => size = 2 * n
      /\ l \in Nat
  <2>1. /\ n \in Nat \ {0} /\ size \in Nat \ {0} /\ q \in Nat /\ q < n /\ DirectoryEntries = 0 .. size - 1
        /\ l \in Nat /\ ((l = g /\ n = size) \/ (l + 1 = g /\ size = 2 * n))
    BY SplitNumbers
  <2>2. l \in Nat
    BY SplitNumbers
  <2> HIDE DEF q, l, g, n, size
  <2> QED BY <2>1, <2>2
<1>2. Pointer(q) = op.at
  BY SplitAtHome
<1>3. Pointer(i) = op.at => i % n = q
  BY Zenon DEF DirectoryRight, hash_key, Pointer
<1>4. l + 1 = g => Pointer(n + q) = op.at
  BY SplitPlace
<1> HIDE DEF q, l, g, n, size
<1>5. i \in Nat /\ i \in 0 .. size - 1
  BY <1>1
<1>6. ASSUME l = g PROVE (Pointer(i) = op.at <=> i = q) /\ i < n
  <2>1. i \in 0 .. n - 1
    BY <1>1, <1>5, <1>6
  <2>2. i % n = i
    BY <1>1, <2>1, RestOfSmall
  <2> QED BY <1>1, <1>2, <1>3, <2>1, <2>2
<1>7. ASSUME l + 1 = g PROVE (Pointer(i) = op.at <=> i \in {q, n + q}) /\ i < 2 * n
  <2>1. i \in 0 .. 2 * n - 1 /\ 2 * n \in Nat \ {0}
    BY <1>1, <1>5, <1>7
  <2>2. i % (2 * n) = i
    BY <2>1, RestOfSmall
  <2>3. i % (2 * n) = i % n \/ i % (2 * n) = n + (i % n)
    BY <1>1, <1>5, OneBitMore
  <2>4. Pointer(i) = op.at => i \in {q, n + q}
    BY <1>3, <2>2, <2>3
  <2>5. i < 2 * n
    BY <1>1, <2>1
  <2> QED BY <1>2, <1>4, <1>7, <2>4, <2>5
<1> QED BY <1>5, <1>6, <1>7 DEF q, l, g, n

\* Where a key is located after a split.
LEMMA SplitLocates ==
  ASSUME DirectoryInv, TypeInv, RootsInv, DirectoryRight, op.kind = "split", ~SplitsDeep, NEW p, SplitInto(p),
         NEW key \in Keys
  PROVE  Located'[key] =
           IF Located[key] # op.at THEN Located[key]
           ELSE IF hash_key(key, buckets[op.at].local_depth + 1) = buckets[op.at].prefix THEN op.at ELSE p
<1> DEFINE q == buckets[op.at].prefix
           l == buckets[op.at].local_depth
           g == directory.global_depth
           h == directory'.global_depth
           n == 2 ^ l
           size == 2 ^ g
           wide == 2 ^ h
           place == n + q
           to(i) == directory'.bucket_ptrs[i]
           i == key % size
           j == key % wide
           bit == key % (2 * n)
<1>1. /\ n \in Nat \ {0} /\ size \in Nat \ {0} /\ 2 ^ (l + 1) = 2 * n
      /\ q \in Nat /\ q < n /\ DirectoryEntries = 0 .. size - 1
      /\ (l = g /\ n = size /\ wide = 2 * size) \/ (l + 1 = g /\ size = 2 * n /\ wide = size)
  BY SplitNumbers
<1>2. /\ \A x \in 0 .. wide - 1 : to(x) = IF x = place THEN p
                                          ELSE IF x \in DirectoryEntries THEN Pointer(x)
                                          ELSE Pointer(x - size)
  BY Zenon DEF SplitInto
<1>3. key \in Nat
  BY ExtendibleHashAssumption DEF ExtendibleHashAssumption
<1>4. Located[key] = Pointer(i) /\ Located'[key] = to(j)
      /\ hash_key(key, l + 1) = bit
  <2>1. hash_key(key, l + 1) = key % 2 ^ (l + 1)
    BY DEF hash_key
  <2>2. Located[key] = Pointer(i)
    BY DEF Located, locate_bucket, hash_key, Pointer
  <2>3. Located'[key] = to(j)
    BY DEF Located, locate_bucket, hash_key
  <2> HIDE DEF q, l, g, h, n, size
  <2> QED BY <1>1, <2>1, <2>2, <2>3 DEF wide
<1>5. i \in DirectoryEntries
  <2> HIDE DEF size
  <2>1. i \in 0 .. size - 1
    BY <1>1, <1>3, Remainder
  <2> QED BY <1>1, <2>1
<1>6. /\ i \in Nat
      /\ l = g => (Pointer(i) = op.at <=> i = q) /\ i < n
      /\ l + 1 = g => (Pointer(i) = op.at <=> i \in {q, place}) /\ i < 2 * n
  BY <1>5, EntriesOfSplit
<1>7. Pointer(q) = op.at
  BY SplitAtHome
<1> HIDE DEF q, l, g, h, to, i
<1>8. j \in 0 .. wide - 1
  <2> HIDE DEF n, size, wide
  <2>1. wide \in Nat \ {0}
    BY <1>1
  <2> QED BY <1>3, <2>1, Remainder
<1>9. CASE l = g /\ n = size /\ wide = 2 * size
  <2>1. key % (2 * size) = key % size \/ key % (2 * size) = size + (key % size)
    <3> HIDE DEF size
    <3> QED BY <1>1, <1>3, OneBitMore
  <2>2. j = i \/ j = size + i
    BY <1>9, <2>1 DEF i
  <2>3. j = bit
    BY <1>9
  <2> HIDE DEF n, size, wide, j, bit
  <2>4. j \notin DirectoryEntries <=> j = size + i
    BY <1>1, <1>5, <1>6, <2>2
  <2>5. CASE Pointer(i) = op.at
    <3>1. i = q
      BY <1>6, <1>9, <2>5
    <3>2. CASE j = i
      <4>1. j # place
        BY <1>1, <3>1, <3>2
      <4>2. to(j) = op.at
        BY <1>2, <1>5, <1>7, <1>8, <3>1, <3>2, <4>1
      <4> QED BY <1>4, <2>3, <2>5, <3>1, <3>2, <4>2 DEF q, l
    <3>3. CASE j = size + i
      <4>1. j = place /\ j # q
        BY <1>1, <1>9, <3>1, <3>3
      <4>2. to(j) = p
        BY <1>2, <1>8, <4>1
      <4> QED BY <1>4, <2>3, <2>5, <4>1, <4>2 DEF q, l
    <3> QED BY <2>2, <3>2, <3>3
  <2>6. CASE Pointer(i) # op.at
    <3>1. i # q /\ i < n
      BY <1>6, <1>9, <2>6
    <3>2. j # place
      BY <1>1, <1>6, <1>9, <2>2, <3>1
    <3>3. to(j) = IF j \in DirectoryEntries THEN Pointer(j) ELSE Pointer(j - size)
      BY <1>2, <1>8, <3>2
    <3>4. CASE j = i
      BY <1>4, <1>5, <2>6, <3>3, <3>4
    <3>5. CASE j = size + i
      <4>1. j - size = i
        BY <1>1, <1>6, <3>5
      <4> QED BY <1>4, <2>4, <2>6, <3>3, <3>5, <4>1
    <3> QED BY <2>2, <3>4, <3>5
  <2> QED BY <2>5, <2>6
<1>10. CASE l + 1 = g /\ size = 2 * n /\ wide = size
  <2>1. j = i /\ j = bit
    BY <1>10 DEF i
  <2> HIDE DEF n, size, wide, j, bit
  <2>2. CASE Pointer(i) = op.at
    <3>1. i \in {q, place} /\ q # place
      BY <1>1, <1>6, <1>10, <2>2
    <3>2. CASE i = q
      <4>1. to(j) = op.at
        BY <1>2, <1>5, <1>7, <1>8, <2>1, <3>1, <3>2
      <4> QED BY <1>4, <2>1, <2>2, <3>2, <4>1 DEF q, l
    <3>3. CASE i = place
      <4>1. to(j) = p /\ bit # q
        BY <1>2, <1>8, <2>1, <3>1, <3>3
      <4> QED BY <1>4, <2>2, <4>1 DEF q, l
    <3> QED BY <3>1, <3>2, <3>3
  <2>3. CASE Pointer(i) # op.at
    <3>1. i # place
      BY <1>6, <1>10, <2>3
    <3>2. to(j) = Pointer(i)
      BY <1>2, <1>5, <1>8, <2>1, <3>1
    <3> QED BY <1>4, <2>3, <3>2
  <2> QED BY <2>2, <2>3
<1> QED BY <1>1, <1>9, <1>10

\* A directory that is right stays so.
LEMMA SplitRegular ==
  ASSUME DirectoryInv, TypeInv, RootsInv, DirectoryRight, op.kind = "split", ~SplitsDeep,
         NEW p \in BucketIds, SplitInto(p)
  PROVE  DirectoryRight'
<1> DEFINE q == buckets[op.at].prefix
           l == buckets[op.at].local_depth
           g == directory.global_depth
           h == directory'.global_depth
           n == 2 ^ l
           size == 2 ^ g
           wide == 2 ^ h
           place == n + q
           to(i) == directory'.bucket_ptrs[i]
           D == DirectoryEntries
<1>1. /\ n \in Nat \ {0} /\ size \in Nat \ {0} /\ 2 ^ (l + 1) = 2 * n
      /\ q \in Nat /\ q < n /\ D = 0 .. size - 1
      /\ (l = g /\ n = size /\ wide = 2 * size) \/ (l + 1 = g /\ size = 2 * n /\ wide = size)
  BY SplitNumbers
<1>2. /\ \A x \in 0 .. wide - 1 : to(x) = IF x = place THEN p
                                          ELSE IF x \in D THEN Pointer(x)
                                          ELSE Pointer(x - size)
      /\ \A x \in 0 .. wide - 1 : x \notin D => x - size \in D
      /\ p \notin allocated
      /\ buckets'[p].prefix = place /\ buckets'[p].local_depth = l + 1
      /\ buckets'[op.at].prefix = q /\ buckets'[op.at].local_depth = l + 1
      /\ \A r \in BucketIds : r # p /\ r # op.at => buckets'[r] = buckets[r]
  BY Zenon DEF SplitInto
<1> SUFFICES ASSUME NEW i \in 0 .. wide - 1
             PROVE  i % 2 ^ buckets'[to(i)].local_depth = buckets'[to(i)].prefix
  BY DEF DirectoryRight, DirectoryEntries, hash_key
<1> DEFINE r == IF i \in D THEN i ELSE i - size
<1>3. /\ r \in D
      /\ i # place => to(i) = Pointer(r)
  BY <1>2
<1>4. g \in Nat /\ g \in 0 .. directory_capacity /\ directory_capacity \in Nat
  BY DepthFacts DEF DirectoryInv
<1>5. i \in Nat /\ r \in Nat /\ (i = r \/ i = size + r)
  <2>1. wide \in Nat
    <3> HIDE DEF n, size, wide
    <3> QED BY <1>1
  <2> HIDE DEF n, size, wide
  <2>2. i \in Nat
    BY <2>1
  <2>3. \A x \in D : x \in Nat
    BY <1>1
  <2> QED BY <1>1, <1>3, <2>2, <2>3
<1> HIDE DEF r
<1>6. /\ l = g => (Pointer(r) = op.at <=> r = q) /\ r < n
      /\ l + 1 = g => (Pointer(r) = op.at <=> r \in {q, place}) /\ r < 2 * n
  BY <1>3, EntriesOfSplit
<1>7. Pointer(r) \in allocated /\ Pointer(r) \in BucketIds
  BY <1>3, EntryFacts DEF TypeInv
<1>8. LET d == buckets[Pointer(r)].local_depth
      IN  d \in 0 .. g /\ r % 2 ^ d = buckets[Pointer(r)].prefix
  <2>1. buckets[Pointer(r)].local_depth \in 0 .. g
    BY <1>3, EntryBucket
  <2>2. r % 2 ^ buckets[Pointer(r)].local_depth = buckets[Pointer(r)].prefix
    BY <1>3, Zenon DEF DirectoryRight, hash_key, Pointer
  <2> QED BY <2>1, <2>2
<1> HIDE DEF q, l, g, h, to, D
<1>9. CASE i = place
  <2>1. to(i) = p
    BY <1>2, <1>9
  <2>2. place % (2 * n) = place
    <3> HIDE DEF n
    <3>1. place \in 0 .. 2 * n - 1 /\ 2 * n \in Nat \ {0}
      BY <1>1
    <3> HIDE DEF place
    <3> QED BY <3>1, RestOfSmall
  <2> QED BY <1>1, <1>2, <1>9, <2>1, <2>2
<1>10. CASE i # place /\ Pointer(r) = op.at
  <2>1. to(i) = op.at
    BY <1>3, <1>10
  <2>2. i = q
    <3> HIDE DEF n, size, wide
    <3>1. CASE l = g /\ n = size /\ wide = 2 * size
      BY <1>5, <1>6, <1>10, <3>1
    <3>2. CASE l + 1 = g /\ size = 2 * n /\ wide = size
      <4>1. i = r
        BY <1>1, <1>5, <3>2
      <4> QED BY <1>6, <1>10, <3>2, <4>1
    <3> QED BY <1>1, <3>1, <3>2
  <2>3. q % (2 * n) = q
    <3> HIDE DEF n
    <3>1. q \in 0 .. 2 * n - 1 /\ 2 * n \in Nat \ {0}
      BY <1>1
    <3> QED BY <3>1, RestOfSmall
  <2> QED BY <1>1, <1>2, <2>1, <2>2, <2>3
<1>11. CASE i # place /\ Pointer(r) # op.at
  <2> DEFINE d == buckets[Pointer(r)].local_depth
  <2>1. to(i) = Pointer(r) /\ buckets'[to(i)] = buckets[Pointer(r)]
    BY <1>2, <1>3, <1>7, <1>11
  <2>2. d \in 0 .. g /\ r % 2 ^ d = buckets[Pointer(r)].prefix
    BY <1>8
  <2> HIDE DEF d
  <2>3. d \in 0 .. directory_capacity /\ g \in d .. directory_capacity
    BY <1>4, <2>2
  <2>4. (size + r) % 2 ^ d = r % 2 ^ d
    BY <1>5, <2>3, HighBitOff
  <2>5. i % 2 ^ d = r % 2 ^ d
    BY <1>5, <2>4
  <2> QED BY <2>1, <2>2, <2>5 DEF d
<1> QED BY <1>9, <1>10, <1>11

-----------------------------------------------------------------------------
(* Chains and what they hold, as facts of functions.                       *)

\* The pages that links lead to from p.
Led(after, p) ==
  {q \in BucketIds :
     \A S \in SUBSET BucketIds :
       p \in S /\ (\A r \in S : after[r] = NULL_PAGE \/ after[r] \in S) => q \in S}

Links(after, given) ==
  given \in SUBSET BucketIds /\ \A r \in given : after[r] \in {NULL_PAGE} \cup given

\* A way begins where it says, stays among the pages given, and goes on.
LEMMA LedInside ==
  ASSUME NEW after, NEW given, Links(after, given), NEW p \in given
  PROVE  /\ p \in Led(after, p) /\ Led(after, p) \subseteq given
         /\ Led(after, p) \in SUBSET BucketIds
         /\ \A r \in Led(after, p) : after[r] = NULL_PAGE \/ after[r] \in Led(after, p)
<1>1. given \in SUBSET BucketIds /\ \A r \in given : after[r] = NULL_PAGE \/ after[r] \in given
  BY DEF Links
<1>2. p \in Led(after, p)
  BY <1>1 DEF Led
<1>3. Led(after, p) \subseteq given
  BY <1>1, Zenon DEF Led
<1>4. ASSUME NEW r \in Led(after, p), after[r] # NULL_PAGE PROVE after[r] \in Led(after, p)
  <2>1. after[r] \in BucketIds
    BY <1>1, <1>3, <1>4
  <2>2. ASSUME NEW S \in SUBSET BucketIds, p \in S,
               \A x \in S : after[x] = NULL_PAGE \/ after[x] \in S
        PROVE  after[r] \in S
    <3>1. r \in S
      BY <2>2, Zenon DEF Led
    <3> QED BY <1>4, <2>2, <3>1
  <2> QED BY <2>1, <2>2 DEF Led
<1> QED BY <1>1, <1>2, <1>3, <1>4

\* Every page on the way is linked.
LEMMA LedLinked ==
  ASSUME NEW after, NEW given, Links(after, given), NEW p \in given, NEW q \in Led(after, p), q # p
  PROVE  \E r \in given : after[r] = q
<1> DEFINE S == {p} \cup {x \in given : \E r \in given : after[r] = x}
<1>1. S \in SUBSET BucketIds /\ p \in S /\ \A r \in S : after[r] = NULL_PAGE \/ after[r] \in S
  BY DEF Links
<1> HIDE DEF S
<1>2. q \in S
  BY <1>1, Zenon DEF Led
<1> QED BY <1>2 DEF S

\* A way depends on the links of its pages alone.
LEMMA LedKept ==
  ASSUME NEW after, NEW later, NEW given, Links(after, given), \A r \in given : later[r] = after[r],
         NEW p \in given
  PROVE  Led(later, p) = Led(after, p)
<1> DEFINE A == Led(after, p)
           B == Led(later, p)
<1>1. /\ p \in A /\ A \subseteq given /\ A \in SUBSET BucketIds
      /\ \A r \in A : after[r] = NULL_PAGE \/ after[r] \in A
  BY LedInside
<1>2. Links(later, given)
  BY DEF Links
<1>3. /\ p \in B /\ B \subseteq given /\ B \in SUBSET BucketIds
      /\ \A r \in B : later[r] = NULL_PAGE \/ later[r] \in B
  BY <1>2, LedInside
<1>4. A \subseteq B
  <2>1. \A r \in B : after[r] = NULL_PAGE \/ after[r] \in B
    BY <1>3
  <2> HIDE DEF B
  <2> QED BY <1>3, <2>1, Zenon DEF Led
<1>5. B \subseteq A
  <2>1. \A r \in A : later[r] = NULL_PAGE \/ later[r] \in A
    BY <1>1
  <2> HIDE DEF A
  <2> QED BY <1>1, <2>1, Zenon DEF Led
<1> QED BY <1>4, <1>5

\* A way that ends leads on to a page it is linked to.
LEMMA LedFurther ==
  ASSUME NEW after, NEW later, NEW given, Links(after, given),
         NEW c \in given, NEW d \in given, c # d, after[c] = NULL_PAGE, after[d] = NULL_PAGE,
         NULL_PAGE \notin BucketIds,
         \A r \in given : later[r] = IF r = c THEN d ELSE after[r],
         NEW p \in given
  PROVE  Led(later, p) = IF c \in Led(after, p) THEN Led(after, p) \cup {d} ELSE Led(after, p)
<1> DEFINE A == Led(after, p)
           B == Led(later, p)
<1>1. /\ p \in A /\ A \subseteq given /\ A \in SUBSET BucketIds
      /\ \A r \in A : after[r] = NULL_PAGE \/ after[r] \in A
  BY LedInside
<1>2. Links(later, given) /\ d \in BucketIds
  BY DEF Links
<1>3. /\ p \in B /\ B \subseteq given /\ B \in SUBSET BucketIds
      /\ \A r \in B : later[r] = NULL_PAGE \/ later[r] \in B
  BY <1>2, LedInside
<1>4. A \subseteq B
  <2>1. \A r \in B : after[r] = NULL_PAGE \/ after[r] \in B
    BY <1>3
  <2> HIDE DEF B
  <2> QED BY <1>3, <2>1, Zenon DEF Led
<1>5. CASE c \in A
  <2>1. d \in B
    <3>1. c \in B /\ later[c] = d /\ d # NULL_PAGE
      BY <1>2, <1>4, <1>5
    <3> QED BY <1>3, <3>1
  <2>2. B \subseteq A \cup {d}
    <3> DEFINE S == A \cup {d}
    <3>1. S \in SUBSET BucketIds /\ p \in S
      BY <1>1, <1>2
    <3>2. \A r \in S : later[r] = NULL_PAGE \/ later[r] \in S
      BY <1>1
    <3> HIDE DEF S
    <3>3. B \subseteq S
      BY <3>1, <3>2, Zenon DEF Led
    <3> QED BY <3>3 DEF S
  <2> HIDE DEF A, B
  <2>3. B = A \cup {d}
    BY <1>4, <2>1, <2>2
  <2> QED BY <1>5, <2>3 DEF A, B
<1>6. CASE c \notin A
  <2>1. \A r \in A : later[r] = NULL_PAGE \/ later[r] \in A
    BY <1>1, <1>6
  <2>2. B \subseteq A
    <3> HIDE DEF A
    <3> QED BY <1>1, <2>1, Zenon DEF Led
  <2> HIDE DEF A, B
  <2>3. B = A
    BY <1>4, <2>2
  <2> QED BY <1>6, <2>3 DEF A, B
<1> QED BY <1>5, <1>6

\* The entries that are found from the buckets of their keys.
HeldIn(loc, after, content) ==
  {e \in Keys \X Refs : \E r \in Led(after, loc[e[1]]) : e \in content[r]}

IsIndex(loc, after, given) == Links(after, given) /\ \A k \in Keys : loc[k] \in given

\* What is found depends on the pages given alone.
LEMMA HeldSame ==
  ASSUME NEW loc, NEW after, NEW content, NEW given, IsIndex(loc, after, given),
         NEW later, NEW contentThen,
         \A r \in given : later[r] = after[r] /\ contentThen[r] = content[r]
  PROVE  HeldIn(loc, later, contentThen) = HeldIn(loc, after, content)
<1>1. ASSUME NEW e \in Keys \X Refs
      PROVE  (\E r \in Led(later, loc[e[1]]) : e \in contentThen[r])
               <=> (\E r \in Led(after, loc[e[1]]) : e \in content[r])
  <2>1. Links(after, given) /\ loc[e[1]] \in given
    BY DEF IsIndex
  <2>2. Led(later, loc[e[1]]) = Led(after, loc[e[1]]) /\ Led(after, loc[e[1]]) \subseteq given
    BY <2>1, LedKept, LedInside
  <2> QED BY <2>2
<1> QED BY <1>1 DEF HeldIn

\* An entry more in a bucket.
IsPutIn(loc, after, content, given, entry, at, contentThen) ==
  /\ IsIndex(loc, after, given) /\ entry \in Keys \X Refs /\ at \in given
  /\ \A r \in given : contentThen[r] = IF r = at THEN content[r] \cup {entry} ELSE content[r]

\* It is found when its bucket is on the way of its key.
LEMMA HeldMore ==
  ASSUME NEW loc, NEW after, NEW content, NEW given, NEW entry, NEW at, NEW contentThen,
         IsPutIn(loc, after, content, given, entry, at, contentThen)
  PROVE  HeldIn(loc, after, contentThen) =
           IF at \in Led(after, loc[entry[1]]) THEN HeldIn(loc, after, content) \cup {entry}
           ELSE HeldIn(loc, after, content)
<1> USE DEF IsPutIn
<1>1. ASSUME NEW e \in Keys \X Refs
      PROVE  (\E r \in Led(after, loc[e[1]]) : e \in contentThen[r])
               <=> \/ \E r \in Led(after, loc[e[1]]) : e \in content[r]
                   \/ e = entry /\ at \in Led(after, loc[e[1]])
  <2>1. Led(after, loc[e[1]]) \subseteq given
    BY LedInside DEF IsIndex
  <2> QED BY <2>1
<1> QED BY <1>1 DEF HeldIn

\* A bucket more, of one entry, in a chain.
LeadsOn(loc, after, content, given, entry, c, d, later) ==
  /\ IsIndex(loc, after, given) /\ entry \in Keys \X Refs
  /\ c \in given /\ d \in given /\ c # d
  /\ after[c] = NULL_PAGE /\ after[d] = NULL_PAGE /\ NULL_PAGE \notin BucketIds
  /\ \A r \in given : later[r] = IF r = c THEN d ELSE after[r]
  /\ content[d] = {entry} /\ c \in Led(after, loc[entry[1]])

\* The entry of that bucket is found from then on.
LEMMA HeldFurther ==
  ASSUME NEW loc, NEW after, NEW content, NEW given, NEW entry, NEW c, NEW d, NEW later,
         LeadsOn(loc, after, content, given, entry, c, d, later)
  PROVE  HeldIn(loc, later, content) = HeldIn(loc, after, content) \cup {entry}
<1> USE DEF LeadsOn
<1>1. ASSUME NEW e \in Keys \X Refs
      PROVE  (\E r \in Led(later, loc[e[1]]) : e \in content[r])
               <=> \/ \E r \in Led(after, loc[e[1]]) : e \in content[r]
                   \/ e = entry
  <2>1. /\ Links(after, given) /\ loc[e[1]] \in given
    BY DEF IsIndex
  <2> DEFINE first == loc[e[1]]
  <2> HIDE DEF first
  <2>2. Led(later, first) = IF c \in Led(after, first) THEN Led(after, first) \cup {d}
                            ELSE Led(after, first)
    <3>1. first \in given
      BY <2>1 DEF first
    <3> QED BY <2>1, <3>1, LedFurther
  <2>3. e = entry => c \in Led(after, first)
    BY DEF first
  <2>4. (\E r \in Led(later, first) : e \in content[r])
          <=> \/ \E r \in Led(after, first) : e \in content[r]
              \/ e = entry
    BY <2>2, <2>3
  <2> QED BY <2>4 DEF first
<1> QED BY <1>1 DEF HeldIn

\* A bucket split in two, of which the new one is nowhere linked.
SplitsIn(loc, after, content, given, at, p, locThen, later, contentThen) ==
  /\ IsIndex(loc, after, given)
  /\ at \in given /\ p \in BucketIds \ given /\ after[at] = NULL_PAGE
  /\ \A r \in given : after[r] # at
  /\ later[p] = NULL_PAGE /\ \A r \in given : later[r] = after[r]
  /\ \A r \in given : r # at => contentThen[r] = content[r]
  /\ \A k \in Keys : (locThen[k] \in {at, p} /\ loc[k] = at) \/ (locThen[k] = loc[k] /\ loc[k] # at)
  /\ \A e \in Keys \X Refs :
       loc[e[1]] = at => (e \in content[at] <=> e \in contentThen[locThen[e[1]]])

\* What is found stays, when keys go with their halves.
LEMMA HeldSplit ==
  ASSUME NEW loc, NEW after, NEW content, NEW given, NEW at, NEW p,
         NEW locThen, NEW later, NEW contentThen,
         SplitsIn(loc, after, content, given, at, p, locThen, later, contentThen)
  PROVE  HeldIn(locThen, later, contentThen) = HeldIn(loc, after, content)
<1> USE DEF SplitsIn
<1>1. ASSUME NEW e \in Keys \X Refs
      PROVE  (\E r \in Led(later, locThen[e[1]]) : e \in contentThen[r])
               <=> (\E r \in Led(after, loc[e[1]]) : e \in content[r])
  <2>1. /\ Links(after, given) /\ loc[e[1]] \in given /\ e[1] \in Keys
    BY DEF IsIndex
  <2>2. given \in SUBSET BucketIds
    BY <2>1 DEF Links
  <2>3. CASE loc[e[1]] = at
    <3> DEFINE q == locThen[e[1]]
    <3>1. q \in {at, p} /\ later[q] = NULL_PAGE /\ q \in BucketIds
      BY <2>1, <2>2, <2>3
    <3>2. Led(after, at) = {at}
      <4>1. Links(after, {at})
        BY <2>2 DEF Links
      <4>2. Led(after, at) \subseteq {at} /\ at \in Led(after, at)
        BY <4>1, LedInside
      <4> QED BY <4>2
    <3> HIDE DEF q
    <3>3. Led(later, q) = {q}
      <4>1. Links(later, {q})
        BY <3>1 DEF Links
      <4>2. Led(later, q) \subseteq {q} /\ q \in Led(later, q)
        BY <4>1, LedInside
      <4> QED BY <4>2
    <3>4. e \in content[at] <=> e \in contentThen[q]
      BY <2>3 DEF q
    <3> QED BY <2>3, <3>2, <3>3, <3>4 DEF q
  <2>4. CASE loc[e[1]] # at
    <3>1. locThen[e[1]] = loc[e[1]]
      BY <2>1, <2>4
    <3>2. Led(later, loc[e[1]]) = Led(after, loc[e[1]]) /\ Led(after, loc[e[1]]) \subseteq given
      BY <2>1, LedKept, LedInside
    <3>3. at \notin Led(after, loc[e[1]])
      BY <2>1, <2>4, LedLinked
    <3> QED BY <3>1, <3>2, <3>3
  <2> QED BY <2>3, <2>4
<1> QED BY <1>1 DEF HeldIn

-----------------------------------------------------------------------------
(* What a step does to the index, bucket by bucket.                        *)

\* What every bucket holds.
Contents == [p \in BucketIds |-> ContentOf(buckets[p])]

\* The buckets of the directory.
Roots == {q \in allocated : IsRoot(q)}

\* A bucket that no split makes room in.
Tight(b) == Full(b) /\ SamePrefix(b, b.local_depth + 1)

Tights == {q \in BucketIds : Tight(buckets[q])}

\* A bucket that counts its entries holds entries, and is not empty when full.
LEMMA ContentTyped ==
  ASSUME NEW b, Counted(b)
  PROVE  /\ ContentOf(b) \subseteq Keys \X Refs
         /\ Full(b) => ContentOf(b) # {} /\ bucket_capacity < SizeValues
         /\ bucket_capacity < SizeValues => b.size = Cardinality(Used(b))
         /\ ~Full(b) /\ b.size = Cardinality(Used(b)) => Cardinality(Used(b)) < bucket_capacity
<1>1. /\ b.entries \in [Places -> {NoEntry} \cup (Keys \X Refs)]
      /\ b.size = SizeOf(Cardinality(Used(b)))
  BY DEF Counted, BucketType
<1>2. ContentOf(b) \subseteq Keys \X Refs
  BY <1>1 DEF ContentOf, Used
<1>3. Cardinality(Used(b)) <= bucket_capacity /\ Cardinality(Used(b)) \in Nat
  BY UsedFinite, PlacesFacts, FS_Subset
<1>4. b.size = Cardinality(Used(b)) /\ ~Full(b) => Cardinality(Used(b)) < bucket_capacity
  BY <1>3, PlacesFacts DEF Full
<1>5. b.size \in Nat /\ b.size < SizeValues
  BY <1>1, <1>3, SizeFacts
<1>6. bucket_capacity < SizeValues => b.size = Cardinality(Used(b))
  <2>1. bucket_capacity < SizeValues => Cardinality(Used(b)) < SizeValues
    BY <1>3, PlacesFacts, SizeFacts
  <2> QED BY <1>1, <1>3, <2>1, SizeFacts
<1>7. ASSUME Full(b), ContentOf(b) = {} PROVE FALSE
  <2>1. Used(b) = {}
    BY <1>7 DEF ContentOf
  <2>2. Cardinality(Used(b)) = 0 /\ SizeOf(0) = 0
    BY <2>1, FS_EmptySet, SizeFacts
  <2>3. b.size = 0
    BY <1>1, <2>2
  <2> QED BY <1>7, <2>3, PlacesFacts DEF Full
<1>8. Full(b) => bucket_capacity < SizeValues
  BY <1>5 DEF Full
<1> QED BY <1>2, <1>4, <1>6, <1>7, <1>8

\* A search in a bucket whose size is right comes to all of its entries.
LEMMA FoundIs ==
  ASSUME NEW b, b.size = Cardinality(Used(b)), NEW key
  PROVE  FoundIn(b, key) = {b.entries[j] : j \in {i \in Used(b) : b.entries[i][1] = key}}
<1> DEFINE matches == {j \in Used(b) : b.entries[j][1] = key}
           below(k) == {i \in matches : i < k}
<1>1. ASSUME NEW k \in matches PROVE Cardinality(below(k)) < b.size
  <2>1. k \in Used(b) /\ Used(b) \subseteq Nat /\ IsFiniteSet(Used(b)) /\ Cardinality(Used(b)) \in Nat
    BY UsedFinite, PlacesFacts
  <2> DEFINE others == Used(b) \ {k}
  <2>2. IsFiniteSet(others) /\ Cardinality(others) = Cardinality(Used(b)) - 1
    BY <2>1, FS_RemoveElement
  <2>3. below(k) \in SUBSET others
    BY <2>1
  <2> HIDE DEF below, others
  <2>4. IsFiniteSet(below(k)) /\ Cardinality(below(k)) <= Cardinality(others)
    BY <2>2, <2>3, FS_Subset
  <2>5. Cardinality(below(k)) \in Nat
    BY <2>4, FS_CardinalityType
  <2> QED BY <2>1, <2>2, <2>4, <2>5
<1>2. FoundIn(b, key) = {b.entries[j] : j \in {k \in matches : Cardinality(below(k)) < b.size}}
  BY Zenon DEF FoundIn
<1>3. {k \in matches : Cardinality(below(k)) < b.size} = matches
  <2> HIDE DEF matches, below
  <2> QED BY <1>1
<1> QED BY <1>2, <1>3

\* The pages from p are those the links of the index lead to.
LEMMA FromIsLed == \A p : From(p) = Led(Afters, p)
<1> SUFFICES ASSUME NEW S \in SUBSET BucketIds
             PROVE  Closed(S) <=> \A r \in S : Afters[r] = NULL_PAGE \/ Afters[r] \in S
  BY DEF From, Led
<1>1. \A r \in S : Afters[r] = After(r)
  BY DEF Afters, After
<1> QED BY <1>1 DEF Closed

\* The pages of the index are linked to each other, and every key has one.
LEMMA StateIsIndex ==
  ASSUME DirectoryInv, TypeInv
  PROVE  /\ IsIndex(Located, Afters, allocated)
         /\ Links(Afters, allocated)
         /\ allocated \in SUBSET BucketIds /\ NULL_PAGE \notin BucketIds
         /\ \A k \in Keys : Located[k] \in Roots /\ Located[k] \in allocated
<1>1. allocated \in SUBSET BucketIds /\ NULL_PAGE \notin BucketIds
  BY EntryFacts DEF TypeInv
<1>2. \A p \in allocated : Afters[p] \in {NULL_PAGE} \cup allocated
  BY <1>1 DEF Afters, TypeInv, BucketsInv, Fits
<1>3. Links(Afters, allocated)
  BY <1>1, <1>2 DEF Links
<1>4. ASSUME NEW k \in Keys PROVE Located[k] \in Roots /\ Located[k] \in allocated
  <2>1. Located[k] = locate_bucket(k)
    BY DEF Located
  <2>2. Located[k] \in allocated
    BY <2>1, LocatedIsGiven DEF TypeInv
  <2>3. IsRoot(Located[k])
    BY <2>1, LocatedIsPointer DEF IsRoot
  <2> QED BY <2>2, <2>3 DEF Roots
<1> QED BY <1>1, <1>3, <1>4 DEF IsIndex

\* The entries that searches find are those that the chains hold, while the sizes are right.
LEMMA EntriesAre ==
  DirectoryInv /\ TypeInv /\ LinksInv /\ SizesTell => Entries = HeldIn(Located, Afters, Contents)
<1> SUFFICES ASSUME DirectoryInv, TypeInv, LinksInv, SizesTell
             PROVE  Entries = HeldIn(Located, Afters, Contents)
  OBVIOUS
<1>1. ASSUME NEW k \in Keys
      PROVE  search(k) = {e \in Keys \X Refs : e[1] = k /\ \E r \in Led(Afters, Located[k]) : e \in Contents[r]}
  <2>1. Located[k] \in allocated /\ Located[k] = locate_bucket(k) /\ allocated \in SUBSET BucketIds
    BY StateIsIndex DEF Located
  <2>2. Chain(locate_bucket(k)) = Led(Afters, Located[k])
    <3>1. locate_bucket(k) \in BucketIds
      BY <2>1
    <3>2. Chain(locate_bucket(k)) = From(locate_bucket(k))
      BY <3>1, ChainIs
    <3> QED BY <2>1, <3>2, FromIsLed
  <2>3. Led(Afters, Located[k]) \subseteq BucketIds
    BY DEF Led
  <2> DEFINE way == Led(Afters, Located[k])
  <2> HIDE DEF way
  <2>4. \A r \in way : Contents[r] = {buckets[r].entries[j] : j \in Used(buckets[r])}
                       /\ Contents[r] \subseteq Keys \X Refs
    <3>1. ASSUME NEW r \in way
          PROVE  Contents[r] = ContentOf(buckets[r]) /\ ContentOf(buckets[r]) \subseteq Keys \X Refs
      <4>1. r \in BucketIds
        BY <2>3 DEF way
      <4>2. Counted(buckets[r])
        BY <4>1 DEF TypeInv, BucketsInv, Fits
      <4> QED BY <4>1, <4>2, ContentTyped DEF Contents
    <3> QED BY <3>1 DEF ContentOf
  <2>5. \A e : e \in search(k) <=>
                 \E r \in way : \E j \in Used(buckets[r]) : e = buckets[r].entries[j] /\ e[1] = k
    <3>1. search(k) = UNION {FoundIn(buckets[r], k) : r \in way}
      BY <2>2, Zenon DEF search, way
    <3>2. ASSUME NEW r \in way
          PROVE  FoundIn(buckets[r], k) =
                   {buckets[r].entries[j] : j \in {i \in Used(buckets[r]) : buckets[r].entries[i][1] = k}}
      <4>1. r \in BucketIds
        BY <2>3 DEF way
      <4>2. buckets[r].size = Cardinality(Used(buckets[r]))
        BY <4>1 DEF SizesTell
      <4> QED BY <4>2, FoundIs
    <3>3. \A e : e \in search(k) <=> \E r \in way : e \in FoundIn(buckets[r], k)
      BY <3>1
    <3> QED BY <3>2, <3>3
  <2>6. \A e : e \in search(k) <=> e[1] = k /\ \E r \in way : e \in Contents[r]
    BY <2>4, <2>5
  <2>7. \A e : e \in search(k) <=> e \in Keys \X Refs /\ e[1] = k /\ \E r \in way : e \in Contents[r]
    BY <2>4, <2>6
  <2> QED BY <2>7 DEF way
<1>2. ASSUME NEW e PROVE e \in Entries <=> e \in HeldIn(Located, Afters, Contents)
  <2>1. e \in Entries <=> \E k \in Keys : e \in search(k)
    BY DEF Entries
  <2>2. e \in Entries <=> /\ e \in Keys \X Refs
                          /\ \E k \in Keys : e[1] = k /\ \E r \in Led(Afters, Located[k]) : e \in Contents[r]
    BY <1>1, <2>1
  <2>3. e \in Keys \X Refs => e[1] \in Keys
    OBVIOUS
  <2>4. e \in HeldIn(Located, Afters, Contents) <=>
          e \in Keys \X Refs /\ \E r \in Led(Afters, Located[e[1]]) : e \in Contents[r]
    BY DEF HeldIn
  <2> QED BY <2>2, <2>3, <2>4
<1> QED BY <1>2

\* A step that leaves the pages alone.
LEMMA SameState ==
  ASSUME UNCHANGED <<directory, buckets, allocated>>
  PROVE  UNCHANGED <<Located, Afters, Contents, Roots, Tights, allocated>>
<1>1. Located' = Located
  BY DEF Located, locate_bucket
<1>2. Afters' = Afters /\ Contents' = Contents /\ Tights' = Tights
  BY DEF Afters, Contents, Tights
<1>3. Roots' = Roots
  BY DEF Roots, IsRoot, Pointer, DirectoryEntries
<1> QED BY <1>1, <1>2, <1>3

\* A step that leaves the directory alone.
LEMMA SameRoots ==
  ASSUME DirectoryInv, TypeInv, directory' = directory, allocated \subseteq allocated'
  PROVE  Located' = Located /\ Roots' = Roots
<1>1. Located' = Located
  BY DEF Located, locate_bucket
<1>2. \A q : IsRoot(q)' <=> IsRoot(q)
  BY DEF IsRoot, Pointer, DirectoryEntries
<1>3. \A q : IsRoot(q) => q \in allocated
  BY EntryFacts DEF IsRoot, TypeInv
<1>4. Roots' = {q \in allocated' : IsRoot(q)'}
  BY DEF Roots
<1>5. \A q : q \in Roots' <=> q \in Roots
  BY <1>2, <1>3, <1>4 DEF Roots
<1> QED BY <1>1, <1>5

\* An entry put in a bucket that is not full, and what that holds then if it had a place.
LEMMA PutState ==
  ASSUME DirectoryInv, TypeInv, InsertInBucket \/ InsertInOverflow, ~Full(buckets[op.at])
  PROVE  /\ op.at \in allocated /\ op.at \in BucketIds /\ op.entry \in Keys \X Refs /\ op.at \notin Tights
         /\ UNCHANGED <<Located, Roots, Afters, allocated>>
         /\ \A r \in BucketIds :
              /\ Cardinality(Used(buckets[op.at])) < bucket_capacity =>
                   Contents'[r] = IF r = op.at THEN Contents[r] \cup {op.entry} ELSE Contents[r]
              /\ r # op.at => (r \in Tights' <=> r \in Tights)
<1>1. /\ op # Idle /\ directory' = directory /\ allocated' = allocated
      /\ buckets' = [buckets EXCEPT ![op.at] = Put(@, op.entry)]
  BY DEF InsertInBucket, InsertInOverflow, Idle
<1>2. op.at \in allocated /\ op.at \in BucketIds /\ op.entry \in Keys \X Refs
  BY <1>1 DEF TypeInv, OpInv, SpaceInv
<1>3. PICK at, entry, room :
        at = op.at /\ entry = op.entry /\ room = (Cardinality(Used(buckets[op.at])) < bucket_capacity)
  OBVIOUS
<1>4. DOMAIN buckets = BucketIds /\ \A r \in BucketIds : Counted(buckets[r])
  BY DEF TypeInv, BucketsInv, Fits
<1>5. \A r \in BucketIds : buckets'[r] = IF r = at THEN Put(buckets[r], entry) ELSE buckets[r]
  BY <1>1, <1>3, <1>4
<1>6. ASSUME NEW r \in BucketIds
      PROVE  /\ buckets'[r].overflow_page = buckets[r].overflow_page
             /\ room => ContentOf(buckets'[r]) = IF r = at THEN ContentOf(buckets[r]) \cup {entry}
                                                 ELSE ContentOf(buckets[r])
             /\ r # at => buckets'[r] = buckets[r]
  <2> DEFINE b == buckets[r]
  <2>1. Counted(b) /\ buckets'[r] = IF r = at THEN Put(b, entry) ELSE b
    BY <1>4, <1>5
  <2>2. r = at /\ room => Cardinality(Used(b)) < bucket_capacity
    BY <1>3
  <2> HIDE DEF b
  <2>3. entry \in Keys \X Refs
    BY <1>2, <1>3
  <2>4. r = at /\ room => ContentOf(Put(b, entry)) = ContentOf(b) \cup {entry}
    BY <2>1, <2>2, <2>3, PutAddsEntry
  <2>5. Put(b, entry).overflow_page = b.overflow_page
    BY <2>1, <2>3, PutIsCounted
  <2> DEFINE c == buckets'[r]
  <2> HIDE DEF c
  <2>6. c = IF r = at THEN Put(b, entry) ELSE b
    BY <2>1 DEF c
  <2>7. /\ c.overflow_page = b.overflow_page
        /\ room => ContentOf(c) = IF r = at THEN ContentOf(b) \cup {entry} ELSE ContentOf(b)
        /\ r # at => c = b
    BY <2>4, <2>5, <2>6
  <2> QED BY <2>7 DEF b, c
<1>7. Afters' = Afters
  BY <1>6 DEF Afters
<1>8. \A r \in BucketIds :
        room => Contents'[r] = IF r = at THEN Contents[r] \cup {entry} ELSE Contents[r]
  <2>1. \A r \in BucketIds : Contents'[r] = ContentOf(buckets'[r])
    BY DEF Contents, ContentOf, Used
  <2>2. \A r \in BucketIds : Contents[r] = ContentOf(buckets[r])
    BY DEF Contents
  <2> QED BY <1>6, <2>1, <2>2
<1>9. \A r \in BucketIds : r # at => (r \in Tights' <=> r \in Tights)
  <2>1. \A r : r \in Tights' <=> r \in BucketIds /\ Tight(buckets'[r])
    BY DEF Tights, Tight, Full, SamePrefix, Used
  <2>2. \A r : r \in Tights <=> r \in BucketIds /\ Tight(buckets[r])
    BY DEF Tights
  <2> QED BY <1>6, <2>1, <2>2
<1>10. op.at \notin Tights
  BY DEF Tights, Tight
<1>11. Located' = Located /\ Roots' = Roots
  BY <1>1, SameRoots
<1> QED BY <1>1, <1>2, <1>3, <1>7, <1>8, <1>9, <1>10, <1>11

-----------------------------------------------------------------------------
\* State functions at the next state, bucket by bucket.
LEMMA NextState ==
  /\ \A r \in BucketIds : Contents'[r] = ContentOf(buckets'[r]) /\ Afters'[r] = buckets'[r].overflow_page
  /\ \A r : r \in Tights' <=> r \in BucketIds /\ Tight(buckets'[r])
  /\ \A r \in BucketIds : Contents[r] = ContentOf(buckets[r]) /\ Afters[r] = buckets[r].overflow_page
  /\ \A r : r \in Tights <=> r \in BucketIds /\ Tight(buckets[r])
<1>1. \A r \in BucketIds : Contents'[r] = ContentOf(buckets'[r]) /\ Afters'[r] = buckets'[r].overflow_page
  BY DEF Contents, ContentOf, Used, Afters
<1>2. \A r : r \in Tights' <=> r \in BucketIds /\ Tight(buckets'[r])
  BY DEF Tights, Tight, Full, SamePrefix, Used
<1>3. \A r \in BucketIds : Contents[r] = ContentOf(buckets[r]) /\ Afters[r] = buckets[r].overflow_page
  BY DEF Contents, Afters
<1>4. \A r : r \in Tights <=> r \in BucketIds /\ Tight(buckets[r])
  BY DEF Tights
<1> QED BY <1>1, <1>2, <1>3, <1>4

\* A new overflow bucket.
LEMMA AddState ==
  ASSUME DirectoryInv, TypeInv, AddOverflow
  PROVE  /\ op.at \in allocated /\ op.kind = "overflow" /\ op # Idle
         /\ Full(buckets[op.at]) /\ Afters[op.at] = NULL_PAGE
         /\ UNCHANGED <<Located, Roots>>
         /\ \E p \in BucketIds \ allocated :
              /\ allocated' = allocated \cup {p}
              /\ op' = [op EXCEPT !.at = p, !.above = Append(@, <<op.at, p>>)]
              /\ \A r \in BucketIds :
                   /\ Afters'[r] = IF r = p THEN NULL_PAGE ELSE Afters[r]
                   /\ Contents'[r] = IF r = p THEN {} ELSE Contents[r]
                   /\ r # p => (r \in Tights' <=> r \in Tights)
<1>1. /\ op.kind = "overflow" /\ op # Idle /\ directory' = directory
      /\ Full(buckets[op.at]) /\ buckets[op.at].overflow_page = NULL_PAGE
  BY DEF AddOverflow, Idle
<1>2. op.at \in allocated /\ op.at \in BucketIds
  BY <1>1 DEF TypeInv, OpInv, SpaceInv
<1> DEFINE b == buckets[op.at]
           new == NewBucket(b.prefix, b.local_depth)
<1>3. PICK p \in BucketIds :
        /\ IsNewPage(p)
        /\ allocated' = allocated \cup {p}
        /\ buckets' = [buckets EXCEPT ![p] = new]
        /\ op' = [op EXCEPT !.at = p, !.above = Append(@, <<op.at, p>>)]
  BY DEF AddOverflow
<1>4. p \notin allocated
  BY <1>3 DEF IsNewPage
<1>5. new.overflow_page = NULL_PAGE /\ ContentOf(new) = {}
  <2>1. Counted(b)
    BY <1>2 DEF TypeInv, BucketsInv, Fits
  <2> HIDE DEF b
  <2>2. b.prefix \in Nat /\ b.local_depth \in Nat
    BY <2>1 DEF Counted, BucketType
  <2> QED BY <2>2, NewIsCounted
<1> HIDE DEF new, b
<1>6. \A r \in BucketIds : buckets'[r] = IF r = p THEN new ELSE buckets[r]
  BY <1>3 DEF TypeInv, BucketsInv
<1>7. \A r \in BucketIds : /\ Afters'[r] = IF r = p THEN NULL_PAGE ELSE Afters[r]
                           /\ Contents'[r] = IF r = p THEN {} ELSE Contents[r]
                           /\ r # p => (r \in Tights' <=> r \in Tights)
  BY <1>5, <1>6, NextState
<1>8. Afters[op.at] = NULL_PAGE
  BY <1>1, <1>2, NextState
<1>9. Located' = Located /\ Roots' = Roots
  BY <1>1, <1>3, SameRoots
<1>10. p \in BucketIds \ allocated
  BY <1>4
<1> QED BY <1>1, <1>2, <1>3, <1>7, <1>8, <1>9, <1>10, Zenon

\* A link written.
LEMMA LinkState ==
  ASSUME DirectoryInv, TypeInv, Relink, NEW c, NEW d,
         c = op.above[Len(op.above)][1], d = op.above[Len(op.above)][2]
  PROVE  /\ op.kind = "relink" /\ op # Idle
         /\ UNCHANGED <<Located, Roots, allocated>>
         /\ \A r \in BucketIds :
              /\ Afters'[r] = IF r = c THEN d ELSE Afters[r]
              /\ Contents'[r] = Contents[r]
              /\ r \in Tights' <=> r \in Tights
<1>1. /\ op.kind = "relink" /\ op # Idle /\ directory' = directory /\ allocated' = allocated
      /\ buckets' = [buckets EXCEPT ![c] = Linked(@, d)]
  BY DEF Relink, Idle
<1>2. DOMAIN buckets = BucketIds /\ \A r \in BucketIds : Counted(buckets[r])
  BY DEF TypeInv, BucketsInv, Fits
<1>3. ASSUME NEW r \in BucketIds
      PROVE  /\ buckets'[r].overflow_page = IF r = c THEN d ELSE buckets[r].overflow_page
             /\ ContentOf(buckets'[r]) = ContentOf(buckets[r])
             /\ Tight(buckets'[r]) <=> Tight(buckets[r])
  <2> DEFINE b == buckets[r]
             a == buckets'[r]
  <2>1. a = IF r = c THEN Linked(b, d) ELSE b
    BY <1>1, <1>2
  <2>2. Counted(b)
    BY <1>2
  <2> HIDE DEF a, b
  <2>3. b = [prefix |-> b.prefix, local_depth |-> b.local_depth, size |-> b.size,
             overflow_page |-> b.overflow_page, entries |-> b.entries]
    BY <2>2 DEF Counted, BucketType
  <2> DEFINE l == Linked(b, d)
  <2>4. /\ l.overflow_page = d /\ l.entries = b.entries /\ l.size = b.size
        /\ l.local_depth = b.local_depth
    BY <2>3 DEF Linked
  <2> HIDE DEF l
  <2>5. Used(l) = Used(b)
    BY <2>4 DEF Used
  <2>6. ContentOf(l) = ContentOf(b)
    BY <2>4, <2>5, Zenon DEF ContentOf
  <2>7. Tight(l) <=> Tight(b)
    BY <2>4, <2>5, Zenon DEF Tight, Full, SamePrefix
  <2>8. CASE r = c
    <3>1. a = l
      BY <2>1, <2>8 DEF l
    <3> QED BY <2>4, <2>6, <2>7, <2>8, <3>1 DEF a, b
  <2>9. CASE r # c
    <3>1. a = b
      BY <2>1, <2>9
    <3> QED BY <2>9, <3>1 DEF a, b
  <2> QED BY <2>8, <2>9
<1>4. \A r \in BucketIds : /\ Afters'[r] = IF r = c THEN d ELSE Afters[r]
                           /\ Contents'[r] = Contents[r]
                           /\ r \in Tights' <=> r \in Tights
  BY <1>3, NextState
<1>5. Located' = Located /\ Roots' = Roots
  BY <1>1, SameRoots
<1> QED BY <1>1, <1>4, <1>5

\* A split.
LEMMA SplitState ==
  ASSUME DirectoryInv, TypeInv, RootsInv, SplitBucket
  PROVE  /\ op.kind = "split" /\ op # Idle /\ op' = Idle /\ op.at \in Roots
         /\ \E p \in BucketIds \ allocated :
              /\ SplitInto(p)
              /\ allocated' = allocated \cup {p}
              /\ \A q \in Roots' : q = p \/ q \in Roots
              /\ \A r \in BucketIds :
                   /\ Afters'[r] = IF r = p THEN NULL_PAGE ELSE Afters[r]
                   /\ r # p /\ r # op.at => /\ Contents'[r] = Contents[r]
                                            /\ r \in Tights' <=> r \in Tights
              /\ Contents'[p] = {buckets[op.at].entries[j] : j \in Moved(buckets[op.at])}
              /\ Contents'[op.at] =
                   {buckets[op.at].entries[j] : j \in Used(buckets[op.at]) \ Moved(buckets[op.at])}
<1> DEFINE b == buckets[op.at]
           size == 2 ^ directory.global_depth
<1>1. op.kind = "split" /\ op # Idle /\ op' = Idle
  BY DEF SplitBucket, Idle
<1>2. op.at \in allocated /\ op.at \in BucketIds /\ Counted(b) /\ 2 ^ b.local_depth \in Nat
  <2>1. op.at \in allocated /\ op.at \in BucketIds /\ Fits(b, allocated, directory.global_depth)
        /\ b.local_depth \in 0 .. directory.global_depth
    BY <1>1, SplitAtHome
  <2>2. 2 ^ b.local_depth \in Nat
    <3> HIDE DEF b
    <3> QED BY <2>1, DepthFacts
  <2> QED BY <2>1, <2>2 DEF Fits
<1>3. op.at \in Roots
  BY <1>1, <1>2 DEF RootsInv, SplitsOfDirectory, Roots, IsRoot
<1>4. PICK p \in BucketIds : SplitInto(p)
  BY SplitsInto
<1>5. /\ p \notin allocated /\ allocated' = allocated \cup {p}
      /\ buckets'[p].overflow_page = NULL_PAGE
      /\ buckets'[op.at].overflow_page = b.overflow_page
      /\ \A r \in BucketIds : r # p /\ r # op.at => buckets'[r] = buckets[r]
      /\ buckets'[p] = SplitNew(b) /\ buckets'[op.at] = SplitOld(b)
  BY <1>4, Zenon DEF SplitInto
<1>6. /\ \A i \in 0 .. 2 ^ directory'.global_depth - 1 :
           i \notin DirectoryEntries => i - size \in DirectoryEntries
      /\ \A i \in 0 .. 2 ^ directory'.global_depth - 1 :
           directory'.bucket_ptrs[i] = IF i = 2 ^ b.local_depth + b.prefix THEN p
                                       ELSE IF i \in DirectoryEntries THEN Pointer(i)
                                       ELSE Pointer(i - size)
  BY <1>4, Zenon DEF SplitInto
<1>7. ASSUME NEW q \in Roots', q # p PROVE q \in Roots
  <2>1. q \in allocated
    BY <1>5, <1>7 DEF Roots
  <2>2. PICK i \in 0 .. 2 ^ directory'.global_depth - 1 : directory'.bucket_ptrs[i] = q
    BY DEF Roots, IsRoot, Pointer, DirectoryEntries
  <2> DEFINE j == IF i \in DirectoryEntries THEN i ELSE i - size
  <2>3. j \in DirectoryEntries
    BY <1>6
  <2>4. Pointer(j) = q
    BY <1>6, <1>7, <2>2
  <2> HIDE DEF j
  <2> QED BY <2>1, <2>3, <2>4 DEF Roots, IsRoot
<1>8. p # op.at
  BY <1>2, <1>5
<1>9. \A r \in BucketIds :
        /\ Afters'[r] = IF r = p THEN NULL_PAGE ELSE Afters[r]
        /\ r # p /\ r # op.at => /\ Contents'[r] = Contents[r]
                                 /\ r \in Tights' <=> r \in Tights
  <2> HIDE DEF b
  <2>1. Afters[op.at] = b.overflow_page
    BY <1>2, NextState DEF b
  <2>2. Afters'[op.at] = b.overflow_page /\ Afters'[p] = NULL_PAGE
    BY <1>2, <1>5, NextState
  <2>3. \A r \in BucketIds : r # p /\ r # op.at =>
          /\ Afters'[r] = Afters[r] /\ Contents'[r] = Contents[r] /\ (r \in Tights' <=> r \in Tights)
    BY <1>5, NextState
  <2> QED BY <1>8, <2>1, <2>2, <2>3
<1>10. /\ Contents'[p] = {b.entries[j] : j \in Moved(b)}
       /\ Contents'[op.at] = {b.entries[j] : j \in Used(b) \ Moved(b)}
  <2>1. Contents'[p] = ContentOf(SplitNew(b)) /\ Contents'[op.at] = ContentOf(SplitOld(b))
    <3> HIDE DEF b
    <3> QED BY <1>2, <1>5, NextState
  <2> HIDE DEF b
  <2>2. ContentOf(SplitNew(b)) = {b.entries[j] : j \in Moved(b)}
    BY <1>2, NewIsMoved
  <2>3. ContentOf(SplitOld(b)) = {b.entries[j] : j \in Used(b) \ Moved(b)}
    BY <1>2, OldIsCounted
  <2> QED BY <2>1, <2>2, <2>3
<1>11. p \in BucketIds \ allocated
  BY <1>5
<1> QED BY <1>1, <1>3, <1>4, <1>5, <1>7, <1>9, <1>10, <1>11, Zenon

-----------------------------------------------------------------------------
(* Insertions on their way along a chain.                                  *)

\* The bucket an insertion is at is linked to the last one it passed...
IsOn(at, s, first, after) ==
  after[s[Len(s)][1]] = s[Len(s)][2] /\ at \in Led(after, first)

\* ...or it is new: the chain ends before it, and it holds at most the entry.
IsOff(kind, entry, at, s, first, after, content, roots, tights, given) ==
  LET c == s[Len(s)][1]
  IN  /\ after[c] = NULL_PAGE /\ s[Len(s)][2] = at
      /\ c \in Led(after, first)
      /\ c \in roots => c \in tights
      /\ at \notin roots /\ after[at] = NULL_PAGE
      /\ \A r \in given : after[r] # at
      /\ content[at] = IF kind = "overflow" THEN {} ELSE {entry}

IsPassing(kind, entry, at, s, first, after, content, roots, tights, given) ==
  /\ kind = "relink" => entry \in content[at]
  /\ \A k \in 1 .. Len(s) - 1 : after[s[k][1]] = s[k][2]
  /\ Len(s) = 0 => at = first /\ at \in tights
  /\ Len(s) > 0 => \/ IsOn(at, s, first, after)
                   \/ IsOff(kind, entry, at, s, first, after, content, roots, tights, given)

\* The entry is put in a bucket with room.
LEMMA PassPut ==
  ASSUME NEW s \in Seq(BucketIds \X BucketIds), Len(s) > 0,
         NEW entry, NEW at \in BucketIds, NEW first, NEW after, NEW content, NEW roots, NEW tights, NEW given,
         IsPassing("overflow", entry, at, s, first, after, content, roots, tights, given),
         NEW contentThen, NEW tightsThen,
         \A r \in BucketIds :
           /\ contentThen[r] = IF r = at THEN content[r] \cup {entry} ELSE content[r]
           /\ r # at => (r \in tightsThen <=> r \in tights),
         s[Len(s)][1] # at
  PROVE  IsPassing("relink", entry, at, s, first, after, contentThen, roots, tightsThen, given)
<1> DEFINE n == Len(s)
           c == s[n][1]
<1>1. n \in 1 .. n /\ c \in BucketIds
  BY DEF n, c
<1>2. contentThen[at] = content[at] \cup {entry}
  OBVIOUS
<1>3. IsOff("overflow", entry, at, s, first, after, content, roots, tights, given)
        => IsOff("relink", entry, at, s, first, after, contentThen, roots, tightsThen, given)
  BY <1>1, <1>2 DEF IsOff
<1> QED BY <1>2, <1>3 DEF IsPassing

\* On to the next bucket.
LEMMA PassOn ==
  ASSUME NEW s \in Seq(BucketIds \X BucketIds),
         NEW entry, NEW at \in BucketIds, NEW first, NEW after, NEW content, NEW roots, NEW tights, NEW given,
         IsPassing("overflow", entry, at, s, first, after, content, roots, tights, given),
         content[at] # {}, Links(after, given), first \in given,
         NEW next \in BucketIds, after[at] = next, next # NULL_PAGE
  PROVE  /\ IsPassing("overflow", entry, next, Append(s, <<at, next>>), first, after, content, roots,
                      tights, given)
<1> DEFINE n == Len(s)
           t == Append(s, <<at, next>>)
<1>1. n \in Nat /\ Len(t) = n + 1 /\ t[n + 1] = <<at, next>> /\ \A k \in 1 .. n : t[k] = s[k]
  OBVIOUS
<1>2. ~IsOff("overflow", entry, at, s, first, after, content, roots, tights, given)
  BY DEF IsOff
<1>3. /\ at \in Led(after, first)
      /\ n > 0 => after[s[n][1]] = s[n][2]
  <2>1. CASE n = 0
    <3>1. at = first
      BY <2>1 DEF IsPassing
    <3> QED BY <2>1, <3>1, LedInside
  <2>2. CASE n > 0
    BY <1>2, <2>2 DEF IsPassing, IsOn
  <2> QED BY <1>1, <2>1, <2>2
<1>4. next \in Led(after, first)
  BY <1>3, LedInside
<1> HIDE DEF t
<1>5. \A k \in 1 .. Len(t) - 1 : after[t[k][1]] = t[k][2]
  <2>1. \A k \in 1 .. n - 1 : after[s[k][1]] = s[k][2]
    BY DEF IsPassing
  <2> HIDE DEF n
  <2>2. ASSUME NEW k \in 1 .. n PROVE after[s[k][1]] = s[k][2]
    <3>1. k = n \/ k \in 1 .. n - 1
      BY <1>1
    <3> QED BY <1>1, <1>3, <2>1, <3>1
  <2> QED BY <1>1, <2>2
<1>6. IsOn(next, t, first, after)
  BY <1>1, <1>4 DEF IsOn
<1>7. Len(t) # 0
  <2> HIDE DEF n
  <2> QED BY <1>1
<1> QED BY <1>5, <1>6, <1>7 DEF IsPassing, t

\* On to a new bucket.
IsToNew(entry, at, s, first, after, content, roots, tights, given, p, later, contentThen, tightsThen) ==
  /\ s \in Seq(BucketIds \X BucketIds) /\ at \in BucketIds
  /\ IsPassing("overflow", entry, at, s, first, after, content, roots, tights, given)
  /\ content[at] # {} /\ Links(after, given) /\ first \in given /\ at \in given
  /\ roots \subseteq given /\ p \in BucketIds \ given /\ p # NULL_PAGE /\ after[at] = NULL_PAGE
  /\ \A k \in 1 .. Len(s) : s[k][1] \in given
  /\ \A q \in roots, r \in given : after[r] # q
  /\ Len(s) > 0 => at = s[Len(s)][2]
  /\ \A r \in BucketIds :
       /\ later[r] = IF r = p THEN NULL_PAGE ELSE after[r]
       /\ contentThen[r] = IF r = p THEN {} ELSE content[r]
       /\ r # p => (r \in tightsThen <=> r \in tights)

\* The insertion is off the chain then, until the link is written.
LEMMA PassToNew ==
  ASSUME NEW s, NEW entry, NEW at, NEW first, NEW after, NEW content, NEW roots, NEW tights, NEW given,
         NEW p, NEW later, NEW contentThen, NEW tightsThen,
         IsToNew(entry, at, s, first, after, content, roots, tights, given, p, later, contentThen,
                 tightsThen)
  PROVE  IsPassing("overflow", entry, p, Append(s, <<at, p>>), first, later, contentThen, roots,
                   tightsThen, given \cup {p})
<1> USE DEF IsToNew
<1> DEFINE n == Len(s)
           t == Append(s, <<at, p>>)
<1>1. n \in Nat /\ Len(t) = n + 1 /\ t[n + 1] = <<at, p>> /\ \A k \in 1 .. n : t[k] = s[k]
  OBVIOUS
<1>2. ~IsOff("overflow", entry, at, s, first, after, content, roots, tights, given)
  BY DEF IsOff
<1>3. /\ at \in Led(after, first)
      /\ n > 0 => after[s[n][1]] = s[n][2]
      /\ at \in roots => at \in tights
  <2>1. CASE n = 0
    <3>1. at = first /\ at \in tights
      BY <2>1 DEF IsPassing
    <3> QED BY <2>1, <3>1, LedInside
  <2>2. CASE n > 0
    <3>1. at \in Led(after, first) /\ after[s[n][1]] = s[n][2]
      BY <1>2, <2>2 DEF IsPassing, IsOn
    <3>2. n \in 1 .. n
      BY <1>1, <2>2
    <3>3. s[n][1] \in given /\ s[n][2] = at
      BY <2>2, <3>2
    <3> QED BY <3>1, <3>3
  <2> QED BY <1>1, <2>1, <2>2
<1>4. given \in SUBSET BucketIds /\ \A r \in given : later[r] = after[r]
  BY DEF Links
<1>5. at \in Led(later, first)
  BY <1>3, <1>4, LedKept
<1> HIDE DEF t
<1>6. \A k \in 1 .. Len(t) - 1 : later[t[k][1]] = t[k][2]
  <2>1. \A k \in 1 .. n - 1 : after[s[k][1]] = s[k][2]
    BY DEF IsPassing
  <2>2. \A k \in 1 .. n : s[k][1] \in given
    OBVIOUS
  <2> HIDE DEF n
  <2>3. ASSUME NEW k \in 1 .. n PROVE later[s[k][1]] = s[k][2]
    <3>1. k = n \/ k \in 1 .. n - 1
      BY <1>1
    <3> QED BY <1>1, <1>3, <1>4, <2>1, <2>2, <3>1
  <2> QED BY <1>1, <2>3
<1>7. IsOff("overflow", entry, p, t, first, later, contentThen, roots, tightsThen, given \cup {p})
  <2>1. at # p
    OBVIOUS
  <2>2. later[at] = NULL_PAGE /\ later[p] = NULL_PAGE /\ contentThen[p] = {}
    BY <2>1
  <2>3. at \in roots => at \in tightsThen
    BY <1>3, <2>1
  <2>4. \A r \in given \cup {p} : later[r] # p
    BY <1>4, <2>2 DEF Links
  <2>5. t[Len(t)] = <<at, p>>
    BY <1>1
  <2>6. p \notin roots
    OBVIOUS
  <2> QED BY <1>5, <2>2, <2>3, <2>4, <2>5, <2>6 DEF IsOff
<1>8. Len(t) # 0
  <2> HIDE DEF n
  <2> QED BY <1>1
<1> QED BY <1>6, <1>7, <1>8 DEF IsPassing, t

\* Back, with the last link written.
LEMMA PassBack ==
  ASSUME NEW s \in Seq(BucketIds \X BucketIds), Len(s) > 1,
         NEW entry, NEW at, NEW first, NEW after, NEW content, NEW roots, NEW tights, NEW given,
         IsPassing("relink", entry, at, s, first, after, content, roots, tights, given),
         at \in given, Links(after, given), first \in given, NULL_PAGE \notin BucketIds,
         \A k \in 1 .. Len(s) : s[k][1] \in given,
         \A j, k \in 1 .. Len(s) : j < k => s[j][1] < s[k][1],
         s[Len(s)][1] < at,
         NEW later, NEW contentThen, NEW tightsThen,
         \A r \in BucketIds :
           /\ later[r] = IF r = s[Len(s)][1] THEN s[Len(s)][2] ELSE after[r]
           /\ contentThen[r] = content[r]
  PROVE  IsPassing("relink", entry, at, SubSeq(s, 1, Len(s) - 1), first, later, contentThen, roots,
                   tightsThen, given)
<1> DEFINE n == Len(s)
           t == SubSeq(s, 1, n - 1)
           c == s[n][1]
           d == s[n][2]
<1>1. n \in Nat /\ n > 1 /\ Len(t) = n - 1 /\ \A k \in 1 .. n - 1 : t[k] = s[k]
  OBVIOUS
<1>2. given \in SUBSET BucketIds /\ c \in given /\ at \in given /\ c # at
  <2>1. n \in 1 .. n
    OBVIOUS
  <2>2. given \in SUBSET BucketIds
    BY DEF Links
  <2>3. c \in given
    BY <2>1
  <2>4. \A x \in BucketIds : x \in Nat
    BY DEF BucketIds
  <2>5. c # at
    BY <2>2, <2>3, <2>4
  <2> QED BY <2>2, <2>3, <2>5
<1>3. \A k \in 1 .. n - 1 : after[s[k][1]] = s[k][2] /\ s[k][1] # c /\ s[k][1] \in BucketIds
  <2>1. \A k \in 1 .. n - 1 : after[s[k][1]] = s[k][2]
    BY DEF IsPassing
  <2>2. ASSUME NEW k \in 1 .. n - 1 PROVE s[k][1] # c /\ s[k][1] \in BucketIds
    <3>1. k \in 1 .. n /\ n \in 1 .. n /\ k < n
      BY <1>1
    <3>2. s[k][1] \in given /\ s[k][1] < c
      BY <3>1
    <3>3. \A x \in BucketIds : x \in Nat
      BY DEF BucketIds
    <3> QED BY <1>2, <3>2, <3>3
  <2> QED BY <2>1, <2>2
<1>4. entry \in contentThen[at]
  BY <1>2 DEF IsPassing
<1> HIDE DEF t, c, d
<1>5. \A k \in 1 .. n - 1 : later[t[k][1]] = t[k][2]
  BY <1>1, <1>3 DEF c
<1>6. at \in Led(later, first)
  <2>1. CASE IsOn(at, s, first, after)
    <3>1. after[c] = d /\ at \in Led(after, first)
      BY <2>1 DEF IsOn, c, d
    <3>2. \A r \in given : later[r] = after[r]
      BY <1>2, <3>1 DEF c, d
    <3> QED BY <3>1, <3>2, LedKept
  <2>2. CASE IsOff("relink", entry, at, s, first, after, content, roots, tights, given)
    <3>1. after[c] = NULL_PAGE /\ d = at /\ c \in Led(after, first) /\ after[at] = NULL_PAGE
      BY <2>2 DEF IsOff, c, d
    <3>2. \A r \in given : later[r] = IF r = c THEN at ELSE after[r]
      BY <1>2, <3>1 DEF c, d
    <3>3. Led(later, first) = IF c \in Led(after, first) THEN Led(after, first) \cup {at}
                              ELSE Led(after, first)
      BY <1>2, <3>1, <3>2, LedFurther
    <3> QED BY <3>1, <3>3
  <2> QED BY <1>1, <2>1, <2>2 DEF IsPassing
<1>7. n - 1 \in 1 .. n - 1 /\ Len(t) > 0 /\ Len(t) # 0
  <2> HIDE DEF n
  <2> QED BY <1>1
<1>8. IsOn(at, t, first, later)
  <2>1. later[t[n - 1][1]] = t[n - 1][2]
    BY <1>5, <1>7
  <2> QED BY <1>1, <1>6, <2>1 DEF IsOn
<1>9. \A k \in 1 .. Len(t) - 1 : later[t[k][1]] = t[k][2]
  <2>1. \A k \in 1 .. Len(t) - 1 : k \in 1 .. n - 1
    <3> HIDE DEF n
    <3> QED BY <1>1
  <2> QED BY <1>5, <2>1
<1> QED BY <1>4, <1>7, <1>8, <1>9 DEF IsPassing, t

-----------------------------------------------------------------------------
\* No link leads to a bucket of the directory.
RootsUnlinked == \A q \in Roots, r \in allocated : Afters[r] # q

\* Only a bucket that cannot be split has an overflow bucket, so what is split has none.
LinkedTight == \A q \in Roots : Afters[q] # NULL_PAGE => q \in Tights

\* The entry to insert is nowhere yet, but at the end of the way back.  No bucket is found
\* full, to be split or to get an overflow bucket, when the capacity is too much for its size.
EntryInv ==
  op # Idle =>
    /\ op.kind # "insert" => bucket_capacity < SizeValues
    /\ \A p \in BucketIds : op.entry \in Contents[p] => op.kind = "relink" /\ p = op.at
    /\ op.kind = "insert" => op.at = Located[op.entry[1]] /\ ~Full(buckets[op.at])
    /\ op.kind = "split" => op.at \notin Tights

PassedInv ==
  OnWay => IsPassing(op.kind, op.entry, op.at, op.above, Located[op.entry[1]], Afters, Contents,
                     Roots, Tights, allocated)

IndexInv == RootsUnlinked /\ LinkedTight /\ EntryInv /\ PassedInv

\* The insertion under way after a step of it.
LEMMA OpTurned ==
  ASSUME OpInv, op # Idle, op' = [op EXCEPT !.kind = "relink"]
  PROVE  op'.kind = "relink" /\ op'.entry = op.entry /\ op'.at = op.at /\ op'.above = op.above
<1>1. op = [kind |-> op.kind, entry |-> op.entry, at |-> op.at, above |-> op.above]
  BY DEF OpInv
<1> QED BY <1>1

\* ...one bucket further...
LEMMA OpOnward ==
  ASSUME OpInv, op # Idle, NEW next,
         op' = [op EXCEPT !.at = next, !.above = Append(@, <<op.at, next>>)]
  PROVE  /\ op'.kind = op.kind /\ op'.entry = op.entry /\ op'.at = next
         /\ op'.above = Append(op.above, <<op.at, next>>)
<1>1. op = [kind |-> op.kind, entry |-> op.entry, at |-> op.at, above |-> op.above]
  BY DEF OpInv
<1>2. PICK o, k, e, p, s, t :
        /\ o = op /\ k = op.kind /\ e = op.entry /\ p = op.at /\ s = op.above
        /\ t = Append(s, <<p, next>>)
  OBVIOUS
<1>3. o = [kind |-> k, entry |-> e, at |-> p, above |-> s]
  BY <1>1, <1>2, Zenon
<1>4. op' = [o EXCEPT !.at = next, !.above = t]
  BY <1>2, Zenon
<1>5. op'.kind = k /\ op'.entry = e /\ op'.at = next /\ op'.above = t
  BY ONLY <1>3, <1>4
<1> QED BY <1>2, <1>5

\* ...or one bucket back.
LEMMA OpBack ==
  ASSUME OpInv, op # Idle, op' = [op EXCEPT !.above = SubSeq(@, 1, Len(@) - 1)]
  PROVE  /\ op'.kind = op.kind /\ op'.entry = op.entry /\ op'.at = op.at
         /\ op'.above = SubSeq(op.above, 1, Len(op.above) - 1)
<1>1. op = [kind |-> op.kind, entry |-> op.entry, at |-> op.at, above |-> op.above]
  BY DEF OpInv
<1>2. PICK t : t = SubSeq(op.above, 1, Len(op.above) - 1)
  OBVIOUS
<1>3. op' = [op EXCEPT !.above = t]
  BY <1>2, Zenon
<1> QED BY <1>1, <1>2, <1>3

\* What an insertion under way is about.
LEMMA OpFacts ==
  ASSUME DirectoryInv, TypeInv, op # Idle
  PROVE  /\ op.at \in allocated /\ op.at \in BucketIds
         /\ op.entry \in Keys \X Refs /\ op.entry[1] \in Keys
         /\ op.above \in Seq(BucketIds \X BucketIds) /\ Len(op.above) \in Nat
         /\ \A k \in 1 .. Len(op.above) : op.above[k][1] \in allocated /\ op.above[k][2] \in allocated
         /\ op.kind \in {"insert", "split", "overflow", "relink"}
         /\ op.kind = "relink" => Len(op.above) > 0
         /\ Located[op.entry[1]] \in allocated /\ Located[op.entry[1]] \in Roots
<1>1. /\ op.at \in allocated /\ op.at \in BucketIds /\ op.entry \in Keys \X Refs
      /\ op.above \in Seq(BucketIds \X BucketIds)
      /\ \A k \in 1 .. Len(op.above) : op.above[k][1] \in allocated /\ op.above[k][2] \in allocated
      /\ op.kind \in {"insert", "split", "overflow", "relink"}
      /\ op.kind = "relink" => Len(op.above) > 0
  BY DEF TypeInv, OpInv, SpaceInv
<1>2. op.entry[1] \in Keys
  BY <1>1
<1>3. Located[op.entry[1]] \in allocated /\ Located[op.entry[1]] \in Roots
  BY <1>2, StateIsIndex
<1>4. Len(op.above) \in Nat
  BY <1>1
<1> QED BY <1>1, <1>2, <1>3, <1>4

\* An insertion that has to write a link.
LEMMA RelinkWay ==
  ASSUME DirectoryInv, TypeInv, WayInv, PassedInv, op.kind = "relink", NEW c, NEW d,
         c = op.above[Len(op.above)][1], d = op.above[Len(op.above)][2]
  PROVE  /\ c \in allocated /\ d \in allocated /\ c \in BucketIds /\ c # d
         /\ op.entry \in Contents[op.at]
         /\ \/ Afters[c] = d /\ op.at \in Led(Afters, Located[op.entry[1]])
            \/ IsOff("relink", op.entry, op.at, op.above, Located[op.entry[1]], Afters, Contents,
                     Roots, Tights, allocated)
<1>1. op # Idle /\ OnWay
  BY DEF Idle, OnWay
<1>2. c \in allocated /\ d \in allocated /\ c \in BucketIds /\ c < d /\ d \in BucketIds
  BY LastLink
<1>3. c # d
  <2>1. \A x \in BucketIds : x \in Nat
    BY DEF BucketIds
  <2> QED BY <1>2, <2>1
<1>4. Len(op.above) > 0
  BY <1>1, OpFacts
<1>5. IsPassing("relink", op.entry, op.at, op.above, Located[op.entry[1]], Afters, Contents,
                Roots, Tights, allocated)
  BY <1>1 DEF PassedInv
<1> QED BY <1>2, <1>3, <1>4, <1>5 DEF IsPassing, IsOn

\* An entry is put in a bucket with room only.
LEMMA HasRoom ==
  ASSUME EntryInv, InsertInBucket \/ InsertInOverflow
  PROVE  ~Full(buckets[op.at])
BY DEF EntryInv, InsertInBucket, InsertInOverflow, Idle

\* There is a place for it, too, in a bucket whose size is right.
LEMMA HasPlace ==
  ASSUME DirectoryInv, TypeInv, EntryInv, InsertInOverflow \/ (InsertInBucket /\ SizesTell)
  PROVE  Cardinality(Used(buckets[op.at])) < bucket_capacity
<1>1. op # Idle /\ (InsertInOverflow => op.kind = "overflow")
  BY DEF InsertInBucket, InsertInOverflow, Idle
<1>2. op.at \in BucketIds
  BY <1>1, OpFacts
<1>3. Counted(buckets[op.at]) /\ ~Full(buckets[op.at])
  BY <1>2, HasRoom DEF TypeInv, BucketsInv, Fits
<1>4. buckets[op.at].size = Cardinality(Used(buckets[op.at]))
  <2>1. CASE InsertInOverflow
    <3>1. bucket_capacity < SizeValues
      BY <1>1, <2>1 DEF EntryInv
    <3> QED BY <1>3, <3>1, ContentTyped
  <2>2. CASE SizesTell
    BY <1>2, <2>2 DEF SizesTell
  <2> QED BY <2>1, <2>2
<1> QED BY <1>3, <1>4, ContentTyped

\* A bucket that is split has no overflow buckets, which would be lost to the keys that move.
LEMMA SplitHasNoOverflow ==
  ASSUME EntryInv, LinkedTight, op.kind = "split", op.at \in Roots
  PROVE  Afters[op.at] = NULL_PAGE
BY DEF EntryInv, LinkedTight, Idle

\* Steps that leave the pages alone.
Quiet == FollowOverflow \/ LoadFails \/ (\E key \in Keys : BeginInsert(key) \/ RemoveKey(key)) \/ UNCHANGED vars

\* They leave what is found alone.
LEMMA QuietState ==
  ASSUME TypeInv, Quiet
  PROVE  UNCHANGED <<directory, buckets, allocated, Located, Afters, Contents, Roots, Tights>>
<1>1. UNCHANGED <<directory, buckets, allocated>>
  <2>1. ASSUME NEW key \in Keys, RemoveKey(key) PROVE UNCHANGED <<directory, buckets, allocated>>
    BY <2>1, RemovedSame DEF TypeInv, vars
  <2> QED BY <2>1 DEF Quiet, FollowOverflow, LoadFails, BeginInsert, vars
<1> QED BY <1>1, SameState

\* Links lead to overflow buckets, and from buckets no split makes room in, after every step.
LEMMA NextUnlinked ==
  DirectoryInv /\ TypeInv /\ WholeInv /\ IndexInv /\ [Next]_vars => RootsUnlinked' /\ LinkedTight'
<1> SUFFICES ASSUME DirectoryInv, TypeInv, WholeInv, IndexInv, [Next]_vars
             PROVE  RootsUnlinked' /\ LinkedTight'
  OBVIOUS
<1>1. /\ \A q \in Roots, r \in allocated : Afters[r] # q
      /\ \A q \in Roots : Afters[q] # NULL_PAGE => q \in Tights
  BY DEF IndexInv, RootsUnlinked, LinkedTight
<1>2. (\A q \in Roots', r \in allocated' : Afters'[r] # q) => RootsUnlinked'
  BY DEF RootsUnlinked
<1>3. (\A q \in Roots' : Afters'[q] # NULL_PAGE => q \in Tights') => LinkedTight'
  BY DEF LinkedTight
<1>4. /\ Links(Afters, allocated) /\ allocated \in SUBSET BucketIds /\ NULL_PAGE \notin BucketIds
      /\ Roots \subseteq allocated
  BY StateIsIndex DEF Roots
<1>5. CASE InsertInBucket \/ InsertInOverflow
  <2>1. ~Full(buckets[op.at])
    BY <1>5, HasRoom DEF IndexInv
  <2>2. /\ op.at \notin Tights
        /\ UNCHANGED <<Roots, Afters, allocated>>
        /\ \A r \in BucketIds : r # op.at => (r \in Tights' <=> r \in Tights)
    BY <1>5, <2>1, PutState
  <2> QED BY <1>1, <1>2, <1>3, <1>4, <2>2
<1>6. CASE SplitBucket
  <2>1. op.kind = "split" /\ op.at \in Roots
    BY <1>6, SplitState DEF WholeInv
  <2>2. Afters[op.at] = NULL_PAGE
    BY <2>1, SplitHasNoOverflow DEF IndexInv
  <2>3. PICK p \in BucketIds \ allocated :
          /\ allocated' = allocated \cup {p}
          /\ \A q \in Roots' : q = p \/ q \in Roots
          /\ \A r \in BucketIds :
               /\ Afters'[r] = IF r = p THEN NULL_PAGE ELSE Afters[r]
               /\ r # p /\ r # op.at => (r \in Tights' <=> r \in Tights)
    BY <1>6, SplitState DEF WholeInv
  <2>4. ASSUME NEW q \in Roots', NEW r \in allocated' PROVE Afters'[r] # q
    <3>1. q # NULL_PAGE
      BY <1>4, <2>3
    <3>2. CASE r = p
      BY <2>3, <3>1, <3>2
    <3>3. CASE r # p
      <4>1. r \in allocated /\ Afters'[r] = Afters[r] /\ Afters[r] \in {NULL_PAGE} \cup allocated
        BY <1>4, <2>3, <3>3 DEF Links
      <4> QED BY <1>1, <1>4, <2>3, <3>1, <4>1
    <3> QED BY <3>2, <3>3
  <2>5. ASSUME NEW q \in Roots', Afters'[q] # NULL_PAGE PROVE q \in Tights'
    <3>1. q # p /\ q \in Roots /\ q \in BucketIds
      BY <1>4, <2>3, <2>5
    <3>2. Afters'[q] = Afters[q] /\ q # op.at
      BY <2>2, <2>3, <2>5, <3>1
    <3> QED BY <1>1, <2>3, <2>5, <3>1, <3>2
  <2> QED BY <1>2, <1>3, <2>4, <2>5
<1>7. CASE AddOverflow
  <2>1. Roots' = Roots
    BY <1>7, AddState
  <2>2. PICK p \in BucketIds \ allocated :
          /\ allocated' = allocated \cup {p}
          /\ \A r \in BucketIds :
               /\ Afters'[r] = IF r = p THEN NULL_PAGE ELSE Afters[r]
               /\ r # p => (r \in Tights' <=> r \in Tights)
    BY <1>7, AddState
  <2>3. ASSUME NEW q \in Roots, NEW r \in allocated' PROVE Afters'[r] # q
    <3>1. q # NULL_PAGE
      BY <1>4
    <3>2. CASE r = p
      BY <2>2, <3>1, <3>2
    <3>3. CASE r # p
      BY <1>1, <1>4, <2>2, <3>3
    <3> QED BY <3>2, <3>3
  <2>4. ASSUME NEW q \in Roots, Afters'[q] # NULL_PAGE PROVE q \in Tights'
    BY <1>1, <1>4, <2>2, <2>4
  <2> QED BY <1>2, <1>3, <2>1, <2>3, <2>4
<1>8. CASE Relink
  <2>1. PICK c, d : c = op.above[Len(op.above)][1] /\ d = op.above[Len(op.above)][2]
    OBVIOUS
  <2>2. /\ op.kind = "relink" /\ UNCHANGED <<Roots, allocated>>
        /\ \A r \in BucketIds : /\ Afters'[r] = IF r = c THEN d ELSE Afters[r]
                                /\ r \in Tights' <=> r \in Tights
    BY <1>8, <2>1, LinkState
  <2>3. \/ Afters[c] = d
        \/ Afters[c] = NULL_PAGE /\ d \notin Roots /\ (c \in Roots => c \in Tights)
    <3>1. \/ Afters[c] = d
          \/ IsOff("relink", op.entry, op.at, op.above, Located[op.entry[1]], Afters, Contents,
                   Roots, Tights, allocated)
      BY <2>1, <2>2, RelinkWay DEF WholeInv, IndexInv
    <3> QED BY <2>1, <3>1 DEF IsOff
  <2>4. \A r \in BucketIds : r \in Tights' <=> r \in Tights
    BY <2>2
  <2>5. ASSUME NEW q \in Roots, NEW r \in allocated PROVE Afters'[r] # q
    BY <1>1, <1>4, <2>2, <2>3
  <2>6. ASSUME NEW q \in Roots, Afters'[q] # NULL_PAGE PROVE q \in Tights'
    BY <1>1, <1>4, <2>2, <2>3, <2>6
  <2> QED BY <1>2, <1>3, <2>2, <2>5, <2>6
<1>9. CASE Quiet
  BY <1>1, <1>2, <1>3, <1>9, QuietState
<1> QED BY <1>5, <1>6, <1>7, <1>8, <1>9 DEF Next, Quiet

-----------------------------------------------------------------------------
\* The insertion that begins.
LEMMA Begun ==
  ASSUME DirectoryInv, TypeInv, NEW key \in Keys, BeginInsert(key)
  PROVE  /\ op = Idle /\ op' # Idle
         /\ op'.entry \in Keys \X Refs /\ op'.entry[1] = key
         /\ op'.at = Located[key] /\ op'.at \in allocated /\ op'.at \in BucketIds
         /\ op'.above = <<>>
         /\ op'.kind \in {"insert", "split", "overflow"}
         /\ op'.kind = "insert" => ~Full(buckets[op'.at])
         /\ op'.kind = "split" => op'.at \notin Tights
         /\ op'.kind = "overflow" => op'.at \in Tights
         /\ op'.kind # "insert" => bucket_capacity < SizeValues
         /\ \A p \in BucketIds : op'.entry \notin Contents[p]
<1> DEFINE p == locate_bucket(key)
           how == HowToInsert(buckets[p])
           none == <<>>
<1>1. PICK ref \in Refs :
        /\ IsNewRef(key, ref)
        /\ op' = [kind |-> how, entry |-> <<key, ref>>, at |-> p, above |-> none]
  BY DEF BeginInsert
<1>2. p = Located[key] /\ p \in allocated /\ p \in BucketIds
  BY StateIsIndex DEF Located
<1>3. /\ how \in {"insert", "split", "overflow"}
      /\ how = "insert" => ~Full(buckets[p])
      /\ how = "split" => Full(buckets[p]) /\ ~SamePrefix(buckets[p], buckets[p].local_depth + 1)
      /\ how = "overflow" => Full(buckets[p]) /\ SamePrefix(buckets[p], buckets[p].local_depth + 1)
  BY Zenon DEF HowToInsert
<1>4. /\ how = "split" => p \notin Tights
      /\ how = "overflow" => p \in Tights
  BY <1>2, <1>3 DEF Tights, Tight
<1>11. how # "insert" => bucket_capacity < SizeValues
  <2>1. Counted(buckets[p])
    BY <1>2 DEF TypeInv, BucketsInv, Fits
  <2>2. how # "insert" => Full(buckets[p])
    BY <1>3
  <2> QED BY <2>1, <2>2, ContentTyped
<1> HIDE DEF how, p, none
<1> DEFINE e == <<key, ref>>
<1>5. e \in Keys \X Refs /\ e[1] = key
  OBVIOUS
<1>6. ASSUME NEW q \in BucketIds, e \in Contents[q] PROVE FALSE
  <2>1. e \in {buckets[q].entries[j] : j \in Used(buckets[q])}
    BY <1>6 DEF Contents, ContentOf
  <2>2. e \notin UNION {{buckets[r].entries[j] : j \in Used(buckets[r])} : r \in BucketIds}
    BY <1>1 DEF IsNewRef
  <2> HIDE DEF e
  <2> QED BY <1>6, <2>1, <2>2
<1> HIDE DEF e
<1>7. op' = [kind |-> how, entry |-> e, at |-> p, above |-> none]
  BY <1>1 DEF e
<1>8. op'.kind = how /\ op'.entry = e /\ op'.at = p /\ op'.above = none
  BY <1>7
<1>9. op = Idle
  BY DEF BeginInsert
<1>10. op' # Idle
  <2>1. Idle.kind = "none"
    BY DEF Idle
  <2> QED BY <1>3, <1>8, <2>1
<1> QED BY <1>2, <1>3, <1>4, <1>5, <1>6, <1>8, <1>9, <1>10, <1>11 DEF none

\* The entry to insert stays nowhere but where it was put.
LEMMA NextEntry ==
  DirectoryInv /\ TypeInv /\ WholeInv /\ IndexInv /\ [Next]_vars => EntryInv'
<1> SUFFICES ASSUME DirectoryInv, TypeInv, WholeInv, IndexInv, [Next]_vars PROVE EntryInv'
  OBVIOUS
<1>1. ASSUME op # Idle
      PROVE  \A p \in BucketIds : op.entry \in Contents[p] => op.kind = "relink" /\ p = op.at
  BY <1>1 DEF IndexInv, EntryInv
<1>2. ASSUME op'.kind \in {"overflow", "relink"},
             \A p \in BucketIds : op'.entry \in Contents'[p] => op'.kind = "relink" /\ p = op'.at,
             op # Idle, op.kind # "insert"
      PROVE  EntryInv'
  <2>1. bucket_capacity < SizeValues
    BY <1>2 DEF IndexInv, EntryInv
  <2> QED BY <1>2, <2>1 DEF EntryInv
<1>3. CASE op' = Idle
  BY <1>3 DEF EntryInv
<1>4. CASE InsertInOverflow /\ op' # Idle
  <2>1. op # Idle /\ op.kind = "overflow" /\ op' = [op EXCEPT !.kind = "relink"]
    BY <1>4 DEF InsertInOverflow, Idle
  <2>2. op'.kind = "relink" /\ op'.entry = op.entry /\ op'.at = op.at
    BY <2>1, OpTurned DEF TypeInv
  <2>3. ~Full(buckets[op.at]) /\ Cardinality(Used(buckets[op.at])) < bucket_capacity
    BY <1>4, HasRoom, HasPlace DEF IndexInv
  <2>4. \A r \in BucketIds : Contents'[r] = IF r = op.at THEN Contents[r] \cup {op.entry} ELSE Contents[r]
    BY <1>4, <2>3, PutState
  <2> QED BY <1>1, <1>2, <2>1, <2>2, <2>4
<1>5. CASE FollowOverflow
  <2>1. op # Idle /\ op.kind = "overflow"
    BY <1>5 DEF FollowOverflow, Idle
  <2>2. PICK next : op' = [op EXCEPT !.at = next, !.above = Append(@, <<op.at, next>>)]
    BY <1>5 DEF FollowOverflow
  <2>3. op'.kind = "overflow" /\ op'.entry = op.entry
    BY <2>1, <2>2, OpOnward DEF TypeInv
  <2>4. Contents' = Contents
    BY <1>5, QuietState DEF Quiet
  <2> QED BY <1>1, <1>2, <2>1, <2>3, <2>4
<1>6. CASE AddOverflow
  <2>1. op # Idle /\ op.kind = "overflow"
    BY <1>6 DEF AddOverflow, Idle
  <2>2. PICK p \in BucketIds \ allocated :
          /\ op' = [op EXCEPT !.at = p, !.above = Append(@, <<op.at, p>>)]
          /\ \A r \in BucketIds : Contents'[r] = IF r = p THEN {} ELSE Contents[r]
    BY <1>6, AddState
  <2>3. op'.kind = "overflow" /\ op'.entry = op.entry
    BY <2>1, <2>2, OpOnward DEF TypeInv
  <2> QED BY <1>1, <1>2, <2>1, <2>2, <2>3
<1>7. CASE Relink /\ op' # Idle
  <2>1. op # Idle /\ op.kind = "relink" /\ op' = [op EXCEPT !.above = SubSeq(@, 1, Len(@) - 1)]
    BY <1>7 DEF Relink, Idle
  <2>2. op'.kind = "relink" /\ op'.entry = op.entry /\ op'.at = op.at
    BY <2>1, OpBack DEF TypeInv
  <2>3. \A r \in BucketIds : Contents'[r] = Contents[r]
    BY <1>7, LinkState
  <2> QED BY <1>1, <1>2, <2>1, <2>2, <2>3
<1>8. ASSUME NEW key \in Keys, BeginInsert(key) PROVE EntryInv'
  <2>1. UNCHANGED <<buckets, Located, Contents, Tights>>
    BY <1>8, QuietState DEF Quiet
  <2>2. /\ op'.entry[1] = key /\ op'.at = Located[key]
        /\ op'.kind = "insert" => ~Full(buckets[op'.at])
        /\ op'.kind = "split" => op'.at \notin Tights
        /\ op'.kind # "insert" => bucket_capacity < SizeValues
        /\ \A p \in BucketIds : op'.entry \notin Contents[p]
    BY <1>8, Begun
  <2> QED BY <2>1, <2>2 DEF EntryInv, Full
<1>9. CASE UNCHANGED vars \/ \E key \in Keys : RemoveKey(key)
  <2>1. UNCHANGED <<op, buckets, Located, Contents, Tights>>
    <3>1. UNCHANGED <<buckets, Located, Contents, Tights>>
      BY <1>9, QuietState DEF Quiet
    <3>2. op' = op
      BY <1>9 DEF vars, RemoveKey
    <3> QED BY <3>1, <3>2
  <2> QED BY <2>1 DEF IndexInv, EntryInv, Full
<1>10. CASE InsertInBucket \/ SplitBucket \/ LoadFails
  BY <1>3, <1>10, Zenon DEF InsertInBucket, SplitBucket, LoadFails
<1> QED BY <1>3, <1>4, <1>5, <1>6, <1>7, <1>8, <1>9, <1>10 DEF Next

\* The way an insertion passed stays what the pages say, or will say when it is back.
LEMMA NextPassed ==
  DirectoryInv /\ TypeInv /\ WholeInv /\ IndexInv /\ [Next]_vars => PassedInv'
<1> SUFFICES ASSUME DirectoryInv, TypeInv, WholeInv, IndexInv, [Next]_vars PROVE PassedInv'
  OBVIOUS
<1>1. ASSUME op'.kind \notin {"overflow", "relink"} PROVE PassedInv'
  BY <1>1 DEF PassedInv, OnWay
<1>2. ASSUME IsPassing(op'.kind, op'.entry, op'.at, op'.above, Located'[op'.entry[1]], Afters', Contents',
                       Roots', Tights', allocated')
      PROVE  PassedInv'
  BY <1>2 DEF PassedInv, IsPassing, IsOn, IsOff, Led
<1> DEFINE s == op.above
           n == Len(s)
           e == op.entry
           first == Located[e[1]]
<1>3. /\ Links(Afters, allocated) /\ allocated \in SUBSET BucketIds /\ NULL_PAGE \notin BucketIds
      /\ Roots \subseteq allocated
  BY StateIsIndex DEF Roots
<1>4. ASSUME op.kind \in {"overflow", "relink"}
      PROVE  /\ op # Idle /\ op.at \in allocated /\ op.at \in BucketIds /\ s \in Seq(BucketIds \X BucketIds)
             /\ n \in Nat /\ first \in allocated
             /\ \A k \in 1 .. n : s[k][1] \in allocated /\ s[k][1] < op.at
             /\ \A j, k \in 1 .. n : j < k => s[j][1] < s[k][1]
             /\ op.kind = "overflow" /\ n > 0 => op.at = s[n][2]
             /\ n > 0 => s[n][1] < op.at /\ s[n][1] # op.at
             /\ IsPassing(op.kind, e, op.at, s, first, Afters, Contents, Roots, Tights, allocated)
  <2>1. op # Idle
    BY <1>4 DEF Idle
  <2>2. /\ op.at \in allocated /\ op.at \in BucketIds /\ s \in Seq(BucketIds \X BucketIds)
        /\ n \in Nat /\ first \in allocated
        /\ \A k \in 1 .. n : s[k][1] \in allocated
    BY <2>1, OpFacts
  <2>3. /\ \A k \in 1 .. n : s[k][1] < op.at
        /\ \A j, k \in 1 .. n : j < k => s[j][1] < s[k][1]
        /\ op.kind = "overflow" /\ n > 0 => op.at = s[n][2]
    BY <1>4 DEF WholeInv, WayInv
  <2>4. IsPassing(op.kind, e, op.at, s, first, Afters, Contents, Roots, Tights, allocated)
    BY <1>4 DEF IndexInv, PassedInv, OnWay
  <2> HIDE DEF n, s, e, first
  <2>5. n > 0 => s[n][1] < op.at /\ s[n][1] # op.at
    <3>1. \A x \in BucketIds : x \in Nat
      BY DEF BucketIds
    <3>2. n > 0 => n \in 1 .. n
      BY <2>2
    <3> QED BY <2>2, <2>3, <3>1, <3>2
  <2> QED BY <2>1, <2>2, <2>3, <2>4, <2>5
<1>5. ASSUME op.kind \in {"overflow", "relink"}, Full(buckets[op.at]) PROVE Contents[op.at] # {}
  <2>1. op.at \in BucketIds
    BY <1>4, <1>5
  <2>2. Counted(buckets[op.at])
    BY <2>1 DEF TypeInv, BucketsInv, Fits
  <2> QED BY <1>5, <2>1, <2>2, ContentTyped DEF Contents
<1>6. CASE op' = Idle
  BY <1>1, <1>6 DEF Idle
<1>7. CASE InsertInOverflow /\ op' # Idle
  <2>1. op # Idle /\ op.kind = "overflow" /\ op' = [op EXCEPT !.kind = "relink"] /\ op.above # <<>>
    BY <1>7 DEF InsertInOverflow, Idle
  <2>2. op'.kind = "relink" /\ op'.entry = e /\ op'.at = op.at /\ op'.above = s
    BY <2>1, OpTurned DEF TypeInv
  <2>3. ~Full(buckets[op.at]) /\ Cardinality(Used(buckets[op.at])) < bucket_capacity
    BY <1>7, HasRoom, HasPlace DEF IndexInv
  <2>4. /\ UNCHANGED <<Located, Roots, Afters, allocated>>
        /\ \A r \in BucketIds :
             /\ Contents'[r] = IF r = op.at THEN Contents[r] \cup {op.entry} ELSE Contents[r]
             /\ r # op.at => (r \in Tights' <=> r \in Tights)
    BY <1>7, <2>3, PutState
  <2>5. Len(s) > 0
    <3>1. s \in Seq(BucketIds \X BucketIds) /\ s # <<>>
      BY <1>4, <2>1
    <3> HIDE DEF s
    <3> QED BY <3>1
  <2>6. /\ s \in Seq(BucketIds \X BucketIds) /\ op.at \in BucketIds /\ s[n][1] # op.at
        /\ IsPassing("overflow", e, op.at, s, first, Afters, Contents, Roots, Tights, allocated)
    BY <1>4, <2>1, <2>5
  <2>7. PICK at, contentThen, tightsThen :
          at = op.at /\ contentThen = Contents' /\ tightsThen = Tights'
    OBVIOUS
  <2>8. \A r \in BucketIds :
          /\ contentThen[r] = IF r = at THEN Contents[r] \cup {e} ELSE Contents[r]
          /\ r # at => (r \in tightsThen <=> r \in Tights)
    BY <2>4, <2>7
  <2> HIDE DEF s, e, first
  <2>9. IsPassing("relink", e, at, s, first, Afters, contentThen, Roots, tightsThen, allocated)
    <3>1. /\ s \in Seq(BucketIds \X BucketIds) /\ at \in BucketIds /\ s[Len(s)][1] # at
          /\ IsPassing("overflow", e, at, s, first, Afters, Contents, Roots, Tights, allocated)
      BY <2>6, <2>7 DEF n
    <3> QED BY <2>5, <2>8, <3>1, PassPut
  <2>10. Located'[op'.entry[1]] = first
    BY <2>2, <2>4 DEF first
  <2> QED BY <1>2, <2>2, <2>4, <2>7, <2>9, <2>10
<1>8. CASE FollowOverflow
  <2>1. op # Idle /\ op.kind = "overflow" /\ Full(buckets[op.at])
    BY <1>8 DEF FollowOverflow, Idle
  <2>2. PICK next : /\ next = buckets[op.at].overflow_page /\ next # NULL_PAGE
                    /\ op' = [op EXCEPT !.at = next, !.above = Append(@, <<op.at, next>>)]
    BY <1>8 DEF FollowOverflow
  <2>3. op'.kind = "overflow" /\ op'.entry = e /\ op'.at = next /\ op'.above = Append(s, <<op.at, next>>)
    BY <2>1, <2>2, OpOnward DEF TypeInv
  <2>4. UNCHANGED <<Located, Roots, Afters, Contents, Tights, allocated>>
    BY <1>8, QuietState DEF Quiet
  <2>5. /\ op.at \in BucketIds /\ op.at \in allocated /\ s \in Seq(BucketIds \X BucketIds)
        /\ first \in allocated
        /\ IsPassing("overflow", e, op.at, s, first, Afters, Contents, Roots, Tights, allocated)
    BY <1>4, <2>1
  <2>6. Afters[op.at] = next
    BY <2>2, <2>5 DEF Afters
  <2>7. next \in BucketIds
    BY <1>3, <2>2, <2>5, <2>6 DEF Links
  <2>8. Contents[op.at] # {}
    BY <1>5, <2>1
  <2>9. PICK at : at = op.at
    OBVIOUS
  <2> HIDE DEF s, e, first
  <2>10. IsPassing("overflow", e, next, Append(s, <<at, next>>), first, Afters, Contents, Roots,
                   Tights, allocated)
    BY <1>3, <2>2, <2>5, <2>6, <2>7, <2>8, <2>9, PassOn
  <2>11. Located'[op'.entry[1]] = first
    BY <2>3, <2>4 DEF first
  <2> QED BY <1>2, <2>3, <2>4, <2>9, <2>10, <2>11
<1>9. CASE AddOverflow
  <2>1. /\ op # Idle /\ op.kind = "overflow" /\ Full(buckets[op.at]) /\ Afters[op.at] = NULL_PAGE
        /\ UNCHANGED <<Located, Roots>>
    BY <1>9, AddState
  <2>2. PICK p \in BucketIds \ allocated :
          /\ allocated' = allocated \cup {p}
          /\ op' = [op EXCEPT !.at = p, !.above = Append(@, <<op.at, p>>)]
          /\ \A r \in BucketIds :
               /\ Afters'[r] = IF r = p THEN NULL_PAGE ELSE Afters[r]
               /\ Contents'[r] = IF r = p THEN {} ELSE Contents[r]
               /\ r # p => (r \in Tights' <=> r \in Tights)
    BY <1>9, AddState
  <2>3. op'.kind = "overflow" /\ op'.entry = e /\ op'.at = p /\ op'.above = Append(s, <<op.at, p>>)
    BY <2>1, <2>2, OpOnward DEF TypeInv
  <2>4. /\ op.at \in BucketIds /\ op.at \in allocated /\ s \in Seq(BucketIds \X BucketIds)
        /\ first \in allocated /\ \A k \in 1 .. Len(s) : s[k][1] \in allocated
        /\ Len(s) > 0 => op.at = s[Len(s)][2]
        /\ IsPassing("overflow", e, op.at, s, first, Afters, Contents, Roots, Tights, allocated)
    BY <1>4, <2>1
  <2>5. Contents[op.at] # {}
    BY <1>5, <2>1
  <2>6. \A q \in Roots, r \in allocated : Afters[r] # q
    BY DEF IndexInv, RootsUnlinked
  <2>7. p # NULL_PAGE
    BY <1>3
  <2>8. PICK at, later, contentThen, tightsThen :
          at = op.at /\ later = Afters' /\ contentThen = Contents' /\ tightsThen = Tights'
    OBVIOUS
  <2>9. \A r \in BucketIds :
          /\ later[r] = IF r = p THEN NULL_PAGE ELSE Afters[r]
          /\ contentThen[r] = IF r = p THEN {} ELSE Contents[r]
          /\ r # p => (r \in tightsThen <=> r \in Tights)
    BY <2>2, <2>8
  <2>10. /\ at \in BucketIds /\ at \in allocated /\ Contents[at] # {} /\ Afters[at] = NULL_PAGE
         /\ Len(s) > 0 => at = s[Len(s)][2]
         /\ IsPassing("overflow", e, at, s, first, Afters, Contents, Roots, Tights, allocated)
    BY <2>1, <2>4, <2>5, <2>8
  <2> HIDE DEF s, e, first
  <2>11. IsPassing("overflow", e, p, Append(s, <<at, p>>), first, later, contentThen, Roots,
                   tightsThen, allocated \cup {p})
    <3>1. /\ s \in Seq(BucketIds \X BucketIds) /\ Links(Afters, allocated)
          /\ first \in allocated /\ Roots \subseteq allocated
          /\ p \in BucketIds \ allocated /\ p # NULL_PAGE
          /\ \A k \in 1 .. Len(s) : s[k][1] \in allocated
      BY <1>3, <2>4, <2>7
    <3> HIDE DEF n
    <3>2. IsToNew(e, at, s, first, Afters, Contents, Roots, Tights, allocated, p, later, contentThen,
                  tightsThen)
      BY <2>6, <2>9, <2>10, <3>1 DEF IsToNew
    <3> QED BY <3>2, PassToNew
  <2>12. Located'[op'.entry[1]] = first
    BY <2>1, <2>3 DEF first
  <2> QED BY <1>2, <2>1, <2>2, <2>3, <2>8, <2>11, <2>12
<1>10. CASE Relink /\ op' # Idle
  <2>1. op # Idle /\ op.kind = "relink" /\ op' = [op EXCEPT !.above = SubSeq(@, 1, Len(@) - 1)]
        /\ Len(op.above) # 1
    BY <1>10 DEF Relink, Idle
  <2>2. op'.kind = "relink" /\ op'.entry = e /\ op'.at = op.at /\ op'.above = SubSeq(s, 1, Len(s) - 1)
    BY <2>1, OpBack DEF TypeInv
  <2>3. /\ UNCHANGED <<Located, Roots, allocated>>
        /\ \A r \in BucketIds :
             /\ Afters'[r] = IF r = s[n][1] THEN s[n][2] ELSE Afters[r]
             /\ Contents'[r] = Contents[r]
    <3>1. PICK c, d : c = op.above[Len(op.above)][1] /\ d = op.above[Len(op.above)][2]
      OBVIOUS
    <3> QED BY <1>10, <3>1, LinkState
  <2>4. n > 0
    BY <2>1, OpFacts
  <2>5. /\ op.at \in allocated /\ s \in Seq(BucketIds \X BucketIds) /\ n \in Nat
        /\ first \in allocated /\ \A k \in 1 .. Len(s) : s[k][1] \in allocated
        /\ \A j, k \in 1 .. Len(s) : j < k => s[j][1] < s[k][1]
        /\ s[Len(s)][1] < op.at
        /\ IsPassing("relink", e, op.at, s, first, Afters, Contents, Roots, Tights, allocated)
    BY <1>4, <2>1, <2>4
  <2>6. Len(s) > 1
    <3>1. n # 1 /\ n > 0 /\ n \in Nat
      BY <2>1, <2>4, <2>5
    <3>2. n > 1
      <4> HIDE DEF n
      <4> QED BY <3>1
    <3> QED BY <3>2
  <2>7. PICK at, later, contentThen, tightsThen :
          at = op.at /\ later = Afters' /\ contentThen = Contents' /\ tightsThen = Tights'
    OBVIOUS
  <2>8. \A r \in BucketIds :
          /\ later[r] = IF r = s[Len(s)][1] THEN s[Len(s)][2] ELSE Afters[r]
          /\ contentThen[r] = Contents[r]
    BY <2>3, <2>7
  <2>9. /\ at \in allocated /\ s[Len(s)][1] < at
        /\ IsPassing("relink", e, at, s, first, Afters, Contents, Roots, Tights, allocated)
    BY <2>5, <2>7
  <2> HIDE DEF s, e, first
  <2>10. IsPassing("relink", e, at, SubSeq(s, 1, Len(s) - 1), first, later, contentThen, Roots,
                   tightsThen, allocated)
    BY <1>3, <2>5, <2>6, <2>8, <2>9, PassBack
  <2>11. Located'[op'.entry[1]] = first
    BY <2>2, <2>3 DEF first
  <2> QED BY <1>2, <2>2, <2>3, <2>7, <2>10, <2>11
<1>11. ASSUME NEW key \in Keys, BeginInsert(key) PROVE PassedInv'
  <2>1. UNCHANGED <<Located, Contents, Roots, Tights, Afters, allocated>>
    BY <1>11, QuietState DEF Quiet
  <2>2. /\ op'.entry[1] = key /\ op'.at = Located[key] /\ op'.above = <<>>
        /\ op'.kind # "relink"
        /\ op'.kind = "overflow" => op'.at \in Tights
    BY <1>11, Begun
  <2>3. Len(op'.above) = 0
    BY <2>2
  <2>4. CASE op'.kind = "overflow"
    <3>1. \A k \in 1 .. Len(op'.above) - 1 : FALSE
      BY <2>3
    <3>2. IsPassing(op'.kind, op'.entry, op'.at, op'.above, Located'[op'.entry[1]], Afters', Contents',
                    Roots', Tights', allocated')
      BY <2>1, <2>2, <2>3, <2>4, <3>1 DEF IsPassing
    <3> QED BY <1>2, <3>2
  <2>5. CASE op'.kind # "overflow"
    BY <1>1, <2>2, <2>5
  <2> QED BY <2>4, <2>5
<1>12. CASE UNCHANGED vars \/ \E key \in Keys : RemoveKey(key)
  <2>1. UNCHANGED <<Located, Contents, Roots, Tights, Afters, allocated>>
    BY <1>12, QuietState DEF Quiet
  <2>2. op' = op
    BY <1>12 DEF vars, RemoveKey
  <2>3. CASE op.kind \in {"overflow", "relink"}
    <3>1. IsPassing(op.kind, e, op.at, s, first, Afters, Contents, Roots, Tights, allocated)
      BY <1>4, <2>3
    <3> QED BY <1>2, <2>1, <2>2, <3>1
  <2>4. CASE op.kind \notin {"overflow", "relink"}
    BY <1>1, <2>2, <2>4
  <2> QED BY <2>3, <2>4
<1>13. CASE InsertInBucket \/ SplitBucket \/ LoadFails
  BY <1>6, <1>13, Zenon DEF InsertInBucket, SplitBucket, LoadFails
<1> QED BY <1>6, <1>7, <1>8, <1>9, <1>10, <1>11, <1>12, <1>13 DEF Next

\* A new index.
LEMMA InitIndex == Init => IndexInv
<1> SUFFICES ASSUME Init PROVE IndexInv
  OBVIOUS
<1>1. \A p \in BucketIds : Afters[p] = NULL_PAGE
  BY DEF Init, Afters, NewBucket
<1>2. allocated \subseteq BucketIds /\ NULL_PAGE \notin BucketIds
  BY ExtendibleHashAssumption DEF Init, BucketIds, NULL_PAGE, ExtendibleHashAssumption
<1>3. RootsUnlinked /\ LinkedTight
  BY <1>1, <1>2 DEF RootsUnlinked, LinkedTight, Roots
<1>4. EntryInv /\ PassedInv
  BY DEF Init, EntryInv, PassedInv, OnWay, Idle
<1> QED BY <1>3, <1>4 DEF IndexInv

-----------------------------------------------------------------------------
\* What makes every step one of an index holds in every state.
LEMMA AlwaysIndex == Spec => []IndexInv
<1>1. DirectoryInv /\ TypeInv /\ WholeInv /\ IndexInv /\ [Next]_vars => IndexInv'
  BY NextUnlinked, NextEntry, NextPassed DEF IndexInv
<1>2. IInv => DirectoryInv
  BY DEF IInv
<1> QED BY <1>1, <1>2, InitIndex, Inductive, AlwaysTyped, AlwaysWhole, PTL DEF Spec

\* The entries are those of the chains, before a step and after it, while sizes are right.
EntriesHeld == Entries = HeldIn(Located, Afters, Contents)

HeldWhenTold == SizesTell => EntriesHeld

\* So does this.
LEMMA AlwaysHeld == Spec => []HeldWhenTold
<1>1. DirectoryInv /\ TypeInv /\ WholeInv => HeldWhenTold
  BY EntriesAre DEF WholeInv, EntriesHeld, HeldWhenTold
<1>2. IInv => DirectoryInv
  BY DEF IInv
<1> QED BY <1>1, <1>2, Inductive, AlwaysTyped, AlwaysWhole, PTL

\* No size wraps where the capacity is small.
SmallTell == bucket_capacity < SizeValues => SizesTell

LEMMA AlwaysSmall == Spec => []SmallTell
<1>1. TypeInv => SmallTell
  <2> SUFFICES ASSUME TypeInv, bucket_capacity < SizeValues, NEW p \in BucketIds
               PROVE  buckets[p].size = Cardinality(Used(buckets[p]))
    BY DEF SmallTell, SizesTell
  <2>1. Counted(buckets[p])
    BY DEF TypeInv, BucketsInv, Fits
  <2> QED BY <2>1, ContentTyped
<1> QED BY <1>1, AlwaysTyped, PTL

\* What the index was asked, by the operation under way and what is found.
Asked(o) == [kind |-> "insert", key |-> o.entry[1], ref |-> o.entry[2]]

\* The request, before a step and after it.
LEMMA RequestIs ==
  /\ op = Idle => Request = Idle
  /\ op # Idle /\ op.kind = "relink" /\ op.entry \in Entries => Request = Idle
  /\ op # Idle /\ ~(op.kind = "relink" /\ op.entry \in Entries) => Request = Asked(op)
  /\ op' = Idle => Request' = Idle
  /\ op' # Idle /\ op'.kind = "relink" /\ op'.entry \in Entries' => Request' = Idle
  /\ op' # Idle /\ ~(op'.kind = "relink" /\ op'.entry \in Entries') => Request' = Asked(op')
<1>1. Idle.kind # "relink"
  BY DEF Idle
<1>2. /\ op = Idle => Request = Idle
      /\ op # Idle /\ op.kind = "relink" /\ op.entry \in Entries => Request = Idle
      /\ op # Idle /\ ~(op.kind = "relink" /\ op.entry \in Entries) => Request = Asked(op)
  BY <1>1 DEF Request, Asked
<1>3. /\ op' = Idle => Request' = Idle
      /\ op' # Idle /\ op'.kind = "relink" /\ op'.entry \in Entries' => Request' = Idle
      /\ op' # Idle /\ ~(op'.kind = "relink" /\ op'.entry \in Entries') => Request' = Asked(op')
  BY <1>1 DEF Request, Asked
<1> QED BY <1>2, <1>3

\* What is asked is a request.
LEMMA AskedIs == \A o : Asked(o) # Idle
<1>1. SUFFICES ASSUME NEW o, Asked(o) = Idle PROVE FALSE
  OBVIOUS
<1>2. Asked(o).kind = "insert" /\ Idle.kind = "none"
  BY DEF Asked, Idle
<1> QED BY <1>1, <1>2

\* The three steps of an index that there are.
LEMMA AskStep ==
  ASSUME Request = Idle, op'.entry \in Keys \X Refs, Request' = Asked(op'), Entries' = Entries
  PROVE  Store!Next
<1>1. op'.entry[1] \in Keys /\ op'.entry[2] \in Refs
  OBVIOUS
<1>2. Asked(op') \in Store!Requests
  BY <1>1 DEF Asked, Store!Requests
<1>3. Store!Ask
  BY <1>2 DEF Store!Ask, Store!NoRequest, Idle
<1> QED BY <1>3 DEF Store!Next

\* ...done...
LEMMA InsertStep ==
  ASSUME op.entry \in Keys \X Refs, Request = Asked(op), Request' = Idle,
         Entries' = Entries \cup {op.entry}
  PROVE  Store!Next
<1>1. op.entry = <<op.entry[1], op.entry[2]>>
  OBVIOUS
<1>2. /\ Request.kind = "insert" /\ Request.key = op.entry[1] /\ Request.ref = op.entry[2]
  BY DEF Asked
<1>3. Store!Insert
  BY <1>1, <1>2 DEF Store!Insert, Store!NoRequest, Idle
<1> QED BY <1>3 DEF Store!Next

\* ...or given up.
LEMMA FailStep ==
  ASSUME Request = Asked(op), Request' = Idle, Entries' = Entries
  PROVE  Store!Next
<1>1. Request # Idle
  BY AskedIs
<1>2. Store!Fail
  BY <1>1 DEF Store!Fail, Store!NoRequest, Idle
<1> QED BY <1>2 DEF Store!Next

\* Facts of an insertion that has left its chain.
LEMMA OffIsOutside ==
  ASSUME DirectoryInv, TypeInv, op # Idle,
         IsOff(op.kind, op.entry, op.at, op.above, Located[op.entry[1]], Afters, Contents, Roots,
               Tights, allocated)
  PROVE  op.at \notin Led(Afters, Located[op.entry[1]])
<1>1. /\ op.at \notin Roots /\ \A r \in allocated : Afters[r] # op.at
  BY DEF IsOff
<1>2. Located[op.entry[1]] \in allocated /\ Located[op.entry[1]] \in Roots
  BY OpFacts
<1>3. Links(Afters, allocated)
  BY StateIsIndex
<1> QED BY <1>1, <1>2, <1>3, LedLinked

\* An entry put in a bucket is found when the bucket is on the way of its key.
LEMMA PutStep ==
  ASSUME DirectoryInv, TypeInv, IndexInv, SizesTell, EntriesHeld, EntriesHeld',
         InsertInBucket \/ InsertInOverflow
  PROVE  /\ op # Idle /\ op.entry \in Keys \X Refs
         /\ op.entry \notin Entries
         /\ Entries' = IF op.at \in Led(Afters, Located[op.entry[1]]) THEN Entries \cup {op.entry} ELSE Entries
<1>1. op # Idle /\ op.kind # "relink"
  BY DEF InsertInBucket, InsertInOverflow, Idle
<1>2. ~Full(buckets[op.at]) /\ Cardinality(Used(buckets[op.at])) < bucket_capacity
  BY HasRoom, HasPlace DEF IndexInv
<1>3. PICK at, entry, contentThen : at = op.at /\ entry = op.entry /\ contentThen = Contents'
  OBVIOUS
<1>4. /\ at \in allocated /\ entry \in Keys \X Refs /\ UNCHANGED <<Located, Afters, allocated>>
      /\ \A r \in BucketIds : contentThen[r] = IF r = at THEN Contents[r] \cup {entry} ELSE Contents[r]
  BY <1>2, <1>3, PutState
<1>5. IsIndex(Located, Afters, allocated) /\ allocated \in SUBSET BucketIds
  BY StateIsIndex
<1>6. HeldIn(Located, Afters, contentThen) =
        IF at \in Led(Afters, Located[entry[1]]) THEN HeldIn(Located, Afters, Contents) \cup {entry}
        ELSE HeldIn(Located, Afters, Contents)
  <2>1. \A r \in allocated : contentThen[r] = IF r = at THEN Contents[r] \cup {entry} ELSE Contents[r]
    BY <1>4, <1>5
  <2>2. IsPutIn(Located, Afters, Contents, allocated, entry, at, contentThen)
    BY <1>4, <1>5, <2>1 DEF IsPutIn
  <2> QED BY <2>2, HeldMore
<1>7. Entries' = HeldIn(Located, Afters, contentThen) /\ Entries = HeldIn(Located, Afters, Contents)
  BY <1>3, <1>4 DEF EntriesHeld
<1>8. op.entry \notin Entries
  <2>1. \A r \in BucketIds : op.entry \notin Contents[r]
    BY <1>1 DEF IndexInv, EntryInv
  <2> QED BY <1>7, <2>1 DEF HeldIn, Led
<1> QED BY <1>1, <1>3, <1>4, <1>6, <1>7, <1>8

\* The bucket of the directory is.
LEMMA InsertInBucketStep ==
  ASSUME DirectoryInv, TypeInv, IndexInv, SizesTell, EntriesHeld, EntriesHeld', InsertInBucket
  PROVE  Store!Next
<1>1. op # Idle /\ op.kind = "insert" /\ op' = Idle
  BY DEF InsertInBucket, Idle
<1>2. op.at = Located[op.entry[1]]
  BY <1>1 DEF IndexInv, EntryInv
<1>3. op.at \in Led(Afters, Located[op.entry[1]])
  BY <1>1, <1>2, OpFacts, StateIsIndex, LedInside
<1>4. op.entry \in Keys \X Refs /\ Entries' = Entries \cup {op.entry}
  BY <1>3, PutStep
<1>5. Request = Asked(op) /\ Request' = Idle
  BY <1>1, RequestIs
<1> QED BY <1>4, <1>5, InsertStep

\* An overflow bucket is, unless it is new: then the link is missing yet.
LEMMA InsertInOverflowStep ==
  ASSUME DirectoryInv, TypeInv, IndexInv, SizesTell, EntriesHeld, EntriesHeld', InsertInOverflow
  PROVE  Store!Next \/ UNCHANGED <<Entries, Request>>
<1>1. op # Idle /\ op.kind = "overflow"
      /\ op' = (IF op.above = <<>> THEN Idle ELSE [op EXCEPT !.kind = "relink"])
  BY DEF InsertInOverflow, Idle
<1>2. /\ op.entry \in Keys \X Refs /\ op.entry \notin Entries
      /\ Entries' = IF op.at \in Led(Afters, Located[op.entry[1]]) THEN Entries \cup {op.entry} ELSE Entries
  BY PutStep
<1>3. Request = Asked(op)
  BY <1>1, RequestIs
<1>4. IsPassing(op.kind, op.entry, op.at, op.above, Located[op.entry[1]], Afters, Contents, Roots,
                Tights, allocated)
  BY <1>1 DEF IndexInv, PassedInv, OnWay
<1>5. op.above # <<>> => op' # Idle /\ op'.kind = "relink" /\ op'.entry = op.entry
  <2> SUFFICES ASSUME op.above # <<>> PROVE op' # Idle /\ op'.kind = "relink" /\ op'.entry = op.entry
    OBVIOUS
  <2>1. op' = [op EXCEPT !.kind = "relink"]
    BY <1>1
  <2>2. op'.kind = "relink" /\ op'.entry = op.entry
    BY <1>1, <2>1, OpTurned DEF TypeInv
  <2> QED BY <2>2 DEF Idle
<1>6. CASE op.at \in Led(Afters, Located[op.entry[1]])
  <2>1. Entries' = Entries \cup {op.entry}
    BY <1>2, <1>6
  <2>2. op.entry \in Entries'
    BY <2>1
  <2>3. Request' = Idle
    <3>1. CASE op.above = <<>>
      BY <1>1, <3>1, RequestIs
    <3>2. CASE op.above # <<>>
      BY <1>5, <2>2, <3>2, RequestIs
    <3> QED BY <3>1, <3>2
  <2> QED BY <1>2, <1>3, <2>1, <2>3, InsertStep
<1>7. CASE op.at \notin Led(Afters, Located[op.entry[1]])
  <2>1. op.above # <<>>
    <3>1. SUFFICES ASSUME op.above = <<>> PROVE FALSE
      OBVIOUS
    <3>2. op.at = Located[op.entry[1]]
      BY <1>4, <3>1 DEF IsPassing
    <3> QED BY <1>1, <1>7, <3>2, OpFacts, StateIsIndex, LedInside
  <2>2. Entries' = Entries
    BY <1>2, <1>7
  <2>3. Request' = Asked(op')
    BY <1>2, <1>5, <2>1, <2>2, RequestIs
  <2>4. Asked(op') = Asked(op)
    BY <1>5, <2>1 DEF Asked
  <2> QED BY <1>3, <2>2, <2>3, <2>4
<1> QED BY <1>6, <1>7

\* A step that leaves the index alone, and the insertion under way with it.
LEMMA SameStep ==
  ASSUME Entries' = Entries, op # Idle, op' # Idle, op'.entry = op.entry, op'.kind = op.kind
  PROVE  UNCHANGED <<Entries, Request>>
<1>1. Asked(op') = Asked(op)
  BY DEF Asked
<1> QED BY <1>1, RequestIs

\* Steps that leave the pages alone find the same.
LEMMA QuietStep ==
  ASSUME TypeInv, EntriesHeld, EntriesHeld', Quiet
  PROVE  Entries' = Entries
BY QuietState DEF EntriesHeld

\* On along the chain nothing changes.
LEMMA FollowOverflowStep ==
  ASSUME TypeInv, EntriesHeld, EntriesHeld', FollowOverflow
  PROVE  UNCHANGED <<Entries, Request>>
<1>1. op # Idle /\ op.kind = "overflow"
  BY DEF FollowOverflow, Idle
<1>2. PICK next : op' = [op EXCEPT !.at = next, !.above = Append(@, <<op.at, next>>)]
  BY DEF FollowOverflow
<1>3. op'.kind = op.kind /\ op'.entry = op.entry
  BY <1>1, <1>2, OpOnward DEF TypeInv
<1>4. op' # Idle
  BY <1>1, <1>3 DEF Idle
<1>5. Entries' = Entries
  BY QuietStep DEF Quiet
<1> QED BY <1>1, <1>3, <1>4, <1>5, SameStep

\* A new bucket that is nowhere linked is not found.
LEMMA AddOverflowStep ==
  ASSUME DirectoryInv, TypeInv, EntriesHeld, EntriesHeld', AddOverflow
  PROVE  UNCHANGED <<Entries, Request>>
<1>1. op # Idle /\ op.kind = "overflow" /\ Located' = Located
  BY AddState
<1>2. PICK p \in BucketIds \ allocated :
        /\ op' = [op EXCEPT !.at = p, !.above = Append(@, <<op.at, p>>)]
        /\ \A r \in BucketIds : /\ Afters'[r] = IF r = p THEN NULL_PAGE ELSE Afters[r]
                                /\ Contents'[r] = IF r = p THEN {} ELSE Contents[r]
  BY AddState
<1>3. op'.kind = op.kind /\ op'.entry = op.entry
  BY <1>1, <1>2, OpOnward DEF TypeInv
<1>4. op' # Idle
  BY <1>1, <1>3 DEF Idle
<1>5. PICK later, contentThen : later = Afters' /\ contentThen = Contents'
  OBVIOUS
<1>6. IsIndex(Located, Afters, allocated) /\ allocated \in SUBSET BucketIds
  BY StateIsIndex
<1>7. \A r \in allocated : later[r] = Afters[r] /\ contentThen[r] = Contents[r]
  BY <1>2, <1>5, <1>6
<1>8. HeldIn(Located, later, contentThen) = HeldIn(Located, Afters, Contents)
  BY <1>6, <1>7, HeldSame
<1>9. Entries' = Entries
  BY <1>1, <1>5, <1>8 DEF EntriesHeld
<1> QED BY <1>1, <1>3, <1>4, <1>9, SameStep

\* The link that was missing makes the entry found; to write one again changes nothing.
LEMMA RelinkStep ==
  ASSUME DirectoryInv, TypeInv, WholeInv, IndexInv, EntriesHeld, EntriesHeld', Relink
  PROVE  Store!Next \/ UNCHANGED <<Entries, Request>>
<1>1. PICK c, d : c = op.above[Len(op.above)][1] /\ d = op.above[Len(op.above)][2]
  OBVIOUS
<1>2. PICK at, entry, first, later, contentThen :
        /\ at = op.at /\ entry = op.entry /\ first = Located[op.entry[1]]
        /\ later = Afters' /\ contentThen = Contents'
  OBVIOUS
<1>3. /\ op # Idle /\ op.kind = "relink" /\ UNCHANGED <<Located, allocated>>
      /\ \A r \in BucketIds : /\ later[r] = IF r = c THEN d ELSE Afters[r]
                              /\ contentThen[r] = Contents[r]
  BY <1>1, <1>2, LinkState
<1>4. /\ c \in allocated /\ d \in allocated /\ c \in BucketIds /\ c # d
      /\ entry \in Contents[at]
      /\ \/ Afters[c] = d /\ at \in Led(Afters, first)
         \/ IsOff("relink", entry, at, op.above, first, Afters, Contents, Roots, Tights, allocated)
  BY <1>1, <1>2, <1>3, RelinkWay DEF WholeInv, IndexInv
<1>5. /\ IsIndex(Located, Afters, allocated) /\ allocated \in SUBSET BucketIds
      /\ NULL_PAGE \notin BucketIds
  BY StateIsIndex
<1>6. at \in allocated /\ at \in BucketIds /\ entry \in Keys \X Refs /\ first = Located[entry[1]]
  BY <1>2, <1>3, OpFacts
<1>7. Entries = HeldIn(Located, Afters, Contents) /\ Entries' = HeldIn(Located, later, contentThen)
  BY <1>2, <1>3 DEF EntriesHeld
<1>8. op' = Idle \/ (op' # Idle /\ op'.kind = "relink" /\ op'.entry = op.entry)
  <2> SUFFICES ASSUME op' # Idle PROVE op'.kind = "relink" /\ op'.entry = op.entry
    OBVIOUS
  <2>1. op' = [op EXCEPT !.above = SubSeq(@, 1, Len(@) - 1)]
    BY DEF Relink
  <2> QED BY <1>3, <2>1, OpBack DEF TypeInv
<1>9. CASE Afters[c] = d /\ at \in Led(Afters, first)
  <2>1. \A r \in allocated : later[r] = Afters[r] /\ contentThen[r] = Contents[r]
    BY <1>3, <1>5, <1>9
  <2>2. HeldIn(Located, later, contentThen) = HeldIn(Located, Afters, Contents)
    BY <1>5, <2>1, HeldSame
  <2>3. entry \in Entries
    BY <1>4, <1>6, <1>7, <1>9 DEF HeldIn
  <2>4. Entries' = Entries
    BY <1>7, <2>2
  <2>5. Request = Idle /\ Request' = Idle
    BY <1>2, <1>3, <1>8, <2>3, <2>4, RequestIs
  <2> QED BY <2>4, <2>5
<1>10. CASE IsOff("relink", entry, at, op.above, first, Afters, Contents, Roots, Tights, allocated)
  <2>1. /\ Afters[c] = NULL_PAGE /\ d = at /\ c \in Led(Afters, first) /\ Afters[at] = NULL_PAGE
        /\ Contents[at] = {entry}
    BY <1>1, <1>10 DEF IsOff
  <2>2. at \notin Led(Afters, first)
    BY <1>2, <1>3, <1>10, OffIsOutside
  <2>3. entry \notin Entries
    <3>1. \A r \in BucketIds : entry \in Contents[r] => r = at
      BY <1>2, <1>3 DEF IndexInv, EntryInv
    <3>2. \A r \in Led(Afters, first) : r \in BucketIds
      BY DEF Led
    <3> QED BY <1>6, <1>7, <2>2, <3>1, <3>2 DEF HeldIn
  <2>4. Request = Asked(op)
    BY <1>2, <1>3, <2>3, RequestIs
  <2>5. HeldIn(Located, later, Contents) = HeldIn(Located, Afters, Contents) \cup {entry}
    <3>1. \A r \in allocated : later[r] = IF r = c THEN d ELSE Afters[r]
      BY <1>3, <1>5
    <3>2. LeadsOn(Located, Afters, Contents, allocated, entry, c, d, later)
      BY <1>4, <1>5, <1>6, <2>1, <3>1 DEF LeadsOn
    <3> QED BY <3>2, HeldFurther
  <2>6. HeldIn(Located, later, contentThen) = HeldIn(Located, later, Contents)
    <3>1. IsIndex(Located, later, allocated)
      <4>1. \A r \in allocated : later[r] \in {NULL_PAGE} \cup allocated
        BY <1>3, <1>4, <1>5 DEF IsIndex, Links
      <4> QED BY <1>5, <4>1 DEF IsIndex, Links
    <3> QED BY <1>3, <1>5, <3>1, HeldSame
  <2>7. Entries' = Entries \cup {op.entry}
    BY <1>2, <1>7, <2>5, <2>6
  <2>8. Request' = Idle
    BY <1>8, <2>7, RequestIs
  <2> QED BY <1>2, <1>6, <2>4, <2>7, <2>8, InsertStep
<1> QED BY <1>4, <1>9, <1>10

\* A failed load gives the insertion up, or comes when it was done.
LEMMA LoadFailsStep ==
  ASSUME TypeInv, EntriesHeld, EntriesHeld', LoadFails
  PROVE  Store!Next \/ UNCHANGED <<Entries, Request>>
<1>1. Entries' = Entries
  BY QuietStep DEF Quiet
<1>2. op # Idle /\ op' = Idle
  BY DEF LoadFails
<1>3. Request' = Idle /\ (Request = Idle \/ Request = Asked(op))
  BY <1>2, RequestIs
<1> QED BY <1>1, <1>3, FailStep

\* An insertion begins.
LEMMA BeginInsertStep ==
  ASSUME DirectoryInv, TypeInv, EntriesHeld, EntriesHeld', NEW key \in Keys, BeginInsert(key)
  PROVE  Store!Next
<1>1. Entries' = Entries
  BY QuietStep DEF Quiet
<1>2. op = Idle /\ op' # Idle /\ op'.entry \in Keys \X Refs /\ op'.kind # "relink"
  BY Begun
<1>3. Request = Idle /\ Request' = Asked(op')
  BY <1>2, RequestIs
<1> QED BY <1>1, <1>2, <1>3, AskStep

\* A removal takes nothing away.
LEMMA RestStep ==
  ASSUME TypeInv, EntriesHeld, EntriesHeld', (\E key \in Keys : RemoveKey(key)) \/ UNCHANGED vars
  PROVE  UNCHANGED <<Entries, Request>>
<1>1. Entries' = Entries
  BY QuietStep DEF Quiet
<1>2. op' = op
  BY DEF RemoveKey, vars
<1>3. CASE op = Idle
  BY <1>1, <1>2, <1>3, RequestIs
<1>4. CASE op # Idle
  BY <1>1, <1>2, <1>4, SameStep
<1> QED BY <1>3, <1>4

-----------------------------------------------------------------------------
\* What a bucket holds is found from the half its key now belongs to.
LEMMA HalvesHold ==
  ASSUME NEW b, NEW d, NEW e, NEW there, NEW one, NEW other,
         d = b.local_depth + 1,
         one = {b.entries[j] : j \in Used(b) \ Moved(b)}, other = {b.entries[j] : j \in Moved(b)},
         there = IF hash_key(e[1], d) = b.prefix THEN one ELSE other
  PROVE  e \in ContentOf(b) <=> e \in there
<1>1. \A j : j \in Moved(b) <=> j \in Used(b) /\ hash_key(b.entries[j][1], d) # b.prefix
  BY DEF Moved
<1> HIDE DEF hash_key
<1>2. CASE hash_key(e[1], d) = b.prefix
  <2>1. e \in there <=> \E j \in Used(b) \ Moved(b) : b.entries[j] = e
    BY <1>2
  <2> QED BY <1>1, <1>2, <2>1 DEF ContentOf
<1>3. CASE hash_key(e[1], d) # b.prefix
  <2>1. e \in there <=> \E j \in Moved(b) : b.entries[j] = e
    BY <1>3
  <2> QED BY <1>1, <1>3, <2>1 DEF ContentOf
<1> QED BY <1>2, <1>3

\* A split that is not deep finds the same; the key that came is not inserted.
LEMMA SplitBucketStep ==
  ASSUME DirectoryInv, TypeInv, WholeInv, IndexInv, EntriesHeld, EntriesHeld', DirectoryRight, ~SplitsDeep,
         SplitBucket
  PROVE  Store!Next /\ DirectoryRight'
<1>1. op.kind = "split" /\ op # Idle /\ op' = Idle /\ op.at \in Roots
  BY SplitState DEF WholeInv
<1>2. PICK p \in BucketIds \ allocated :
        /\ SplitInto(p)
        /\ \A r \in BucketIds :
             /\ Afters'[r] = IF r = p THEN NULL_PAGE ELSE Afters[r]
             /\ r # p /\ r # op.at => Contents'[r] = Contents[r]
        /\ Contents'[p] = {buckets[op.at].entries[j] : j \in Moved(buckets[op.at])}
        /\ Contents'[op.at] =
             {buckets[op.at].entries[j] : j \in Used(buckets[op.at]) \ Moved(buckets[op.at])}
  BY SplitState DEF WholeInv
<1>3. DirectoryRight'
  BY <1>1, <1>2, SplitRegular DEF WholeInv
<1>4. PICK at, b, locThen, later, contentThen :
        /\ at = op.at /\ b = buckets[op.at]
        /\ locThen = Located' /\ later = Afters' /\ contentThen = Contents'
  OBVIOUS
<1>5. /\ IsIndex(Located, Afters, allocated) /\ allocated \in SUBSET BucketIds
  BY StateIsIndex
<1>6. at \in allocated /\ at \in BucketIds /\ at # p
  BY <1>1, <1>4, <1>5, OpFacts
<1>7. Afters[at] = NULL_PAGE /\ \A r \in allocated : Afters[r] # at
  <2>1. Afters[op.at] = NULL_PAGE
    BY <1>1, SplitHasNoOverflow DEF IndexInv
  <2>2. \A r \in allocated : Afters[r] # op.at
    BY <1>1 DEF IndexInv, RootsUnlinked
  <2> QED BY <1>4, <2>1, <2>2
<1>8. \A k \in Keys :
        locThen[k] = IF Located[k] # at THEN Located[k]
                     ELSE IF hash_key(k, b.local_depth + 1) = b.prefix THEN at ELSE p
  <2>1. ASSUME NEW k \in Keys
        PROVE  Located'[k] =
                 IF Located[k] # op.at THEN Located[k]
                 ELSE IF hash_key(k, buckets[op.at].local_depth + 1) = buckets[op.at].prefix THEN op.at ELSE p
    BY <1>1, <1>2, SplitLocates DEF WholeInv
  <2> QED BY <1>4, <2>1
<1>9. ASSUME NEW e \in Keys \X Refs, Located[e[1]] = at
      PROVE  e \in Contents[at] <=> e \in contentThen[locThen[e[1]]]
  <2>1. e[1] \in Keys
    OBVIOUS
  <2> DEFINE d == b.local_depth + 1
             one == {b.entries[j] : j \in Used(b) \ Moved(b)}
             other == {b.entries[j] : j \in Moved(b)}
  <2>2. contentThen[at] = one /\ contentThen[p] = other
    BY <1>2, <1>4
  <2>3. Contents[at] = ContentOf(b)
    BY <1>4, <1>6 DEF Contents
  <2>4. locThen[e[1]] = IF hash_key(e[1], d) = b.prefix THEN at ELSE p
    BY <1>8, <1>9, <2>1
  <2> HIDE DEF one, other, d
  <2>5. contentThen[locThen[e[1]]] = IF hash_key(e[1], d) = b.prefix THEN one ELSE other
    <3>1. CASE hash_key(e[1], d) = b.prefix
      BY <2>2, <2>4, <3>1
    <3>2. CASE hash_key(e[1], d) # b.prefix
      BY <2>2, <2>4, <3>2
    <3> QED BY <3>1, <3>2
  <2>6. PICK there : there = IF hash_key(e[1], d) = b.prefix THEN one ELSE other
    OBVIOUS
  <2>7. e \in ContentOf(b) <=> e \in there
    BY <2>6, HalvesHold DEF one, other, d
  <2> QED BY <2>3, <2>5, <2>6, <2>7
<1>10. SplitsIn(Located, Afters, Contents, allocated, at, p, locThen, later, contentThen)
  <2>1. /\ later[p] = NULL_PAGE /\ \A r \in allocated : later[r] = Afters[r]
        /\ \A r \in allocated : r # at => contentThen[r] = Contents[r]
    BY <1>2, <1>4, <1>5
  <2>2. \A k \in Keys :
          (locThen[k] \in {at, p} /\ Located[k] = at) \/ (locThen[k] = Located[k] /\ Located[k] # at)
    <3> HIDE DEF hash_key
    <3> QED BY <1>8
  <2> QED BY <1>5, <1>6, <1>7, <1>9, <2>1, <2>2 DEF SplitsIn
<1>11. HeldIn(locThen, later, contentThen) = HeldIn(Located, Afters, Contents)
  BY <1>10, HeldSplit
<1>12. Entries' = Entries
  BY <1>4, <1>11 DEF EntriesHeld
<1>13. Request = Asked(op) /\ Request' = Idle
  BY <1>1, RequestIs
<1> QED BY <1>3, <1>12, <1>13, FailStep

\* A directory that is right stays so while prefixes and depths stay.
LEMMA RegularKept ==
  ASSUME DirectoryInv, TypeInv, DirectoryRight, directory' = directory,
         \A p \in allocated : /\ buckets'[p].prefix = buckets[p].prefix
                              /\ buckets'[p].local_depth = buckets[p].local_depth
  PROVE  DirectoryRight'
<1>1. DirectoryEntries' = DirectoryEntries
  BY DEF DirectoryEntries
<1>2. ASSUME NEW i \in DirectoryEntries PROVE Pointer(i) \in allocated
  BY <1>2, EntryFacts DEF TypeInv
<1>3. ASSUME NEW i \in DirectoryEntries
      PROVE  hash_key(i, buckets'[directory'.bucket_ptrs[i]].local_depth)
               = buckets'[directory'.bucket_ptrs[i]].prefix
  <2>1. hash_key(i, buckets[Pointer(i)].local_depth) = buckets[Pointer(i)].prefix
    BY DEF DirectoryRight, Pointer
  <2>2. directory'.bucket_ptrs[i] = Pointer(i)
    BY DEF Pointer
  <2> HIDE DEF hash_key
  <2> QED BY <1>2, <2>1, <2>2
<1> QED BY <1>1, <1>3 DEF DirectoryRight

\* They do in every step but a split.
LEMMA StepRegular ==
  ASSUME DirectoryInv, TypeInv, DirectoryRight, [Next]_vars, ~SplitBucket
  PROVE  DirectoryRight'
<1>1. CASE InsertInBucket \/ InsertInOverflow \/ FollowOverflow \/ AddOverflow \/ Relink \/ LoadFails
  BY <1>1, PlainSteps, RegularKept
<1>2. CASE (\E key \in Keys : BeginInsert(key) \/ RemoveKey(key)) \/ UNCHANGED vars
  <2>1. UNCHANGED <<directory, buckets>>
    BY <1>2, QuietState DEF Quiet
  <2> QED BY <2>1, RegularKept
<1> QED BY <1>1, <1>2 DEF Next

\* Where the capacity is small, or the size that does not wrap was right before, the sizes
\* stay right.
LEMMA StepSizes ==
  ASSUME DirectoryInv, TypeInv, IndexInv, SizesTell, ~SizeWraps, [Next]_vars, SmallTell'
  PROVE  SizesTell'
<1>1. CASE bucket_capacity < SizeValues
  BY <1>1 DEF SmallTell
<1>2. CASE ~(bucket_capacity < SizeValues)
  <2>1. op.kind \in {"none", "insert"}
    BY <1>2 DEF IndexInv, EntryInv, Idle
  <2>2. ~SplitBucket /\ ~InsertInOverflow /\ ~FollowOverflow /\ ~AddOverflow /\ ~Relink
    BY <2>1 DEF SplitBucket, InsertInOverflow, FollowOverflow, AddOverflow, Relink
  <2>3. CASE Quiet
    <3>1. buckets' = buckets
      BY <2>3, QuietState
    <3> QED BY <3>1 DEF SizesTell, Used
  <2>4. CASE InsertInBucket
    <3>1. /\ op # Idle /\ op.kind = "insert"
          /\ buckets' = [buckets EXCEPT ![op.at] = Put(@, op.entry)]
      BY <2>4 DEF InsertInBucket, Idle
    <3>2. PICK at, entry : at = op.at /\ entry = op.entry
      OBVIOUS
    <3>3. at \in BucketIds /\ entry \in Keys \X Refs
      BY <3>1, <3>2, OpFacts
    <3>4. DOMAIN buckets = BucketIds /\ Counted(buckets[at])
      BY <3>3 DEF TypeInv, BucketsInv, Fits
    <3> DEFINE b == buckets[at]
               n == Cardinality(Used(b))
    <3>5. \A p \in BucketIds : buckets'[p] = IF p = at THEN Put(b, entry) ELSE buckets[p]
      BY <3>1, <3>2, <3>4
    <3>6. n < bucket_capacity
      BY <2>4, <3>2, HasPlace DEF IndexInv
    <3>7. n \in Nat /\ b.size = n
      BY <3>3, UsedFinite DEF SizesTell
    <3>8. b.size = SizeOf(n) /\ b.size # SizeValues - 1
      BY <3>1, <3>2, <3>4 DEF Counted, SizeWraps
    <3> HIDE DEF b
    <3>9. Counted(Put(b, entry)) /\ Cardinality(Used(Put(b, entry))) = n + 1
      BY <3>3, <3>4, <3>6, PutIsCounted, PutAddsEntry DEF b
    <3> HIDE DEF n
    <3>10. n + 1 < SizeValues /\ n + 1 \in Nat
      <4>1. n \in Int
        BY <3>7
      <4>2. SizeOf(n) < SizeValues /\ SizeValues \in Nat
        BY <4>1, SizeFacts
      <4> QED BY <3>7, <3>8, <4>2
    <3>11. SizeOf(n + 1) = n + 1
      BY <3>10, SizeFacts
    <3>12. Put(b, entry).size = Cardinality(Used(Put(b, entry)))
      BY <3>9, <3>11 DEF Counted
    <3>13. \A p \in BucketIds : buckets'[p].size = Cardinality(Used(buckets'[p]))
      <4> SUFFICES ASSUME NEW p \in BucketIds PROVE buckets'[p].size = Cardinality(Used(buckets'[p]))
        OBVIOUS
      <4>1. CASE p = at
        BY <3>5, <3>12, <4>1
      <4>2. CASE p # at
        <5>1. buckets'[p] = buckets[p]
          BY <3>5, <4>2
        <5> QED BY <5>1 DEF SizesTell
      <4> QED BY <4>1, <4>2
    <3> QED BY <3>13 DEF SizesTell, Used
  <2> QED BY <2>2, <2>3, <2>4 DEF Next, Quiet
<1> QED BY <1>1, <1>2

\* So every step is one of an index.
LEMMA StepOfIndex ==
  ASSUME DirectoryInv, TypeInv, WholeInv, IndexInv, SizesTell, EntriesHeld, EntriesHeld', [Next]_vars,
         DirectoryRight, ~SplitsDeep
  PROVE  DirectoryRight' /\ (Store!Next \/ UNCHANGED <<Entries, Request>>)
<1>1. CASE SplitBucket
  BY <1>1, SplitBucketStep
<1>2. CASE ~SplitBucket
  <2>1. DirectoryRight'
    BY <1>2, StepRegular
  <2>2. Store!Next \/ UNCHANGED <<Entries, Request>>
    <3>1. CASE InsertInBucket
      BY <3>1, InsertInBucketStep
    <3>2. CASE InsertInOverflow
      BY <3>2, InsertInOverflowStep
    <3>3. CASE FollowOverflow
      BY <3>3, FollowOverflowStep
    <3>4. CASE AddOverflow
      BY <3>4, AddOverflowStep
    <3>5. CASE Relink
      BY <3>5, RelinkStep
    <3>6. CASE LoadFails
      BY <3>6, LoadFailsStep
    <3>7. ASSUME NEW key \in Keys, BeginInsert(key) PROVE Store!Next
      BY <3>7, BeginInsertStep
    <3>8. CASE (\E key \in Keys : RemoveKey(key)) \/ UNCHANGED vars
      BY <3>8, RestStep
    <3> QED BY <1>2, <3>1, <3>2, <3>3, <3>4, <3>5, <3>6, <3>7, <3>8 DEF Next
  <2> QED BY <2>1, <2>2
<1> QED BY <1>1, <1>2

\* Until a bucket is split two levels or more above the directory, or gets more entries than
\* the byte of its size can tell, an entry inserted is found from then on and only then: for
\* every capacity, the ones too large for that byte included, every key and every number of
\* pages.
THEOREM HashIsIndex == Spec => IndexWhileRegular
<1>1. ASSUME DirectoryInv, TypeInv, WholeInv, IndexInv, SmallTell', HeldWhenTold, HeldWhenTold',
             [Next]_vars, Regular, ~SplitsDeep, ~SizeWraps
      PROVE  Regular' /\ (Store!Next \/ UNCHANGED <<Entries, Request>>)
  <2>1. SizesTell /\ DirectoryRight
    BY <1>1 DEF Regular
  <2>2. SizesTell'
    BY <1>1, <2>1, StepSizes
  <2>3. EntriesHeld /\ EntriesHeld'
    BY <1>1, <2>1, <2>2 DEF HeldWhenTold
  <2>4. DirectoryRight' /\ (Store!Next \/ UNCHANGED <<Entries, Request>>)
    BY <1>1, <2>1, <2>3, StepOfIndex
  <2> QED BY <2>2, <2>4 DEF Regular
<1>2. /\ DirectoryInv /\ TypeInv /\ WholeInv /\ IndexInv /\ SmallTell'
      /\ HeldWhenTold /\ HeldWhenTold' /\ [Next]_vars
      => [Regular /\ ~SplitsDeep /\ ~SizeWraps
            => Regular' /\ (Store!Next \/ UNCHANGED <<Entries, Request>>)]_vars
  BY <1>1
<1>3. IInv => DirectoryInv
  BY DEF IInv
<1> QED
  BY <1>2, <1>3, Inductive, AlwaysTyped, AlwaysWhole, AlwaysIndex, AlwaysHeld, AlwaysSmall, PTL
  DEF Spec, IndexWhileRegular
=============================================================================
