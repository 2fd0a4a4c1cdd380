------------------------- MODULE BufferManagerProofs -------------------------
(***************************************************************************)
(* Theorems about BufferManager, for every number of blocks and frames.    *)
(***************************************************************************)
EXTENDS BufferManager, SequenceTheorems, FiniteSetTheorems, Induction, TLAPS

\* A list without its i-th element: its length, its elements and where they were.
LEMMA RemoveAtFacts ==
  ASSUME NEW S, NEW seq \in Seq(S), NEW i \in 1 .. Len(seq)
  PROVE  /\ RemoveAt(seq, i) \in Seq(S)
         /\ Len(RemoveAt(seq, i)) = Len(seq) - 1
         /\ \A j \in 1 .. Len(seq) - 1 :
              RemoveAt(seq, i)[j] = IF j < i THEN seq[j] ELSE seq[j + 1]
<1> DEFINE front == SubSeq(seq, 1, i - 1)
           back == SubSeq(seq, i + 1, Len(seq))
<1>1. /\ front \in Seq(S)
      /\ Len(front) = i - 1
      /\ \A j \in 1 .. i - 1 : front[j] = seq[j]
  <2>1. \A j \in 1 .. i - 1 : seq[j] \in S
    OBVIOUS
  <2> QED BY <2>1, SubSeqProperties
<1>2. /\ back \in Seq(S)
      /\ Len(back) = Len(seq) - i
      /\ \A j \in 1 .. Len(seq) - i : back[j] = seq[i + j]
  <2>1. \A j \in i + 1 .. Len(seq) : seq[j] \in S
    OBVIOUS
  <2>2. /\ back \in Seq(S)
        /\ Len(back) = IF i + 1 <= Len(seq) THEN Len(seq) - (i + 1) + 1 ELSE 0
        /\ \A j \in 1 .. Len(seq) - (i + 1) + 1 : back[j] = seq[(i + 1) + j - 1]
    BY <2>1, SubSeqProperties, i + 1 \in Int, Len(seq) \in Int
  <2> QED BY <2>2
<1> HIDE DEF front, back
<1>3. /\ front \o back \in Seq(S)
      /\ Len(front \o back) = Len(front) + Len(back)
      /\ \A j \in 1 .. Len(front) + Len(back) :
           (front \o back)[j] = IF j <= Len(front) THEN front[j] ELSE back[j - Len(front)]
  BY <1>1, <1>2, ConcatProperties
<1>4. RemoveAt(seq, i) = front \o back
  BY DEF RemoveAt, front, back
<1> DEFINE short == RemoveAt(seq, i)
<1>5. Len(seq) \in Nat /\ i \in Nat /\ 1 <= i /\ i <= Len(seq)
  OBVIOUS
<1>6. short \in Seq(S) /\ Len(short) = Len(seq) - 1
  <2>1. short \in Seq(S) /\ Len(short) = Len(front) + Len(back)
    BY <1>3, <1>4, Zenon
  <2>2. Len(front) + Len(back) = Len(seq) - 1
    BY <1>1, <1>2, <1>5
  <2> HIDE DEF short
  <2> QED BY <2>1, <2>2
<1>7. ASSUME NEW j \in 1 .. Len(seq) - 1
      PROVE  short[j] = IF j < i THEN seq[j] ELSE seq[j + 1]
  <2>1. short[j] = IF j <= i - 1 THEN front[j] ELSE back[j - (i - 1)]
    BY <1>1, <1>2, <1>3, <1>4, <1>5
  <2>2. CASE j < i
    BY <1>1, <1>5, <2>1, <2>2
  <2>3. CASE j >= i
    <3>1. j - (i - 1) \in 1 .. Len(seq) - i
      BY <1>5, <2>3
    <3>2. back[j - (i - 1)] = seq[i + (j - (i - 1))]
      BY <1>2, <3>1
    <3>3. i + (j - (i - 1)) = j + 1
      BY <1>5
    <3> QED BY <1>5, <2>1, <2>3, <3>2, <3>3
  <2> QED BY <1>5, <2>2, <2>3
<1> QED BY <1>6, <1>7

\* A list without one of its elements has the others once each (evict_page_LRU erases
\* the victim from lru_list).
LEMMA RemoveAtDomain ==
  ASSUME NEW S, NEW seq \in Seq(S), NEW i \in 1 .. Len(seq), IsInjective(seq)
  PROVE  /\ IsInjective(RemoveAt(seq, i))
         /\ Range(RemoveAt(seq, i)) = Range(seq) \ {seq[i]}
<1> DEFINE short == RemoveAt(seq, i)
<1>1. /\ short \in Seq(S)
      /\ Len(short) = Len(seq) - 1
      /\ \A j \in 1 .. Len(seq) - 1 : short[j] = IF j < i THEN seq[j] ELSE seq[j + 1]
  BY RemoveAtFacts
<1>2. DOMAIN short = 1 .. Len(seq) - 1 /\ DOMAIN seq = 1 .. Len(seq)
  BY <1>1
<1>3. \A j, k \in 1 .. Len(seq) : seq[j] = seq[k] => j = k
  BY <1>2 DEF IsInjective
<1> HIDE DEF short
<1>4. IsInjective(short)
  BY <1>1, <1>2, <1>3 DEF IsInjective
<1>5. \A x \in Range(short) : x \in Range(seq) \ {seq[i]}
  BY <1>1, <1>2, <1>3 DEF Range
<1>6. ASSUME NEW x \in Range(seq) \ {seq[i]} PROVE x \in Range(short)
  <2>1. PICK k \in 1 .. Len(seq) : seq[k] = x
    BY <1>2 DEF Range
  <2>2. CASE k < i
    <3>1. k \in 1 .. Len(seq) - 1 /\ short[k] = x
      BY <1>1, <2>1, <2>2
    <3> QED BY <3>1, <1>2 DEF Range
  <2>3. CASE k > i
    <3>1. k - 1 \in 1 .. Len(seq) - 1 /\ short[k - 1] = x
      BY <1>1, <2>1, <2>3
    <3> QED BY <3>1, <1>2 DEF Range
  <2> QED BY <2>1, <2>2, <2>3
<1> QED BY <1>4, <1>5, <1>6 DEF short

\* A list with an element in front.
LEMMA PushFrontFacts ==
  ASSUME NEW S, NEW seq \in Seq(S), NEW e \in S, IsInjective(seq), e \notin Range(seq)
  PROVE  /\ <<e>> \o seq \in Seq(S)
         /\ IsInjective(<<e>> \o seq)
         /\ Range(<<e>> \o seq) = Range(seq) \cup {e}
<1> DEFINE long == <<e>> \o seq
<1>1. /\ long \in Seq(S)
      /\ Len(long) = Len(seq) + 1
      /\ \A j \in 1 .. Len(seq) + 1 : long[j] = IF j = 1 THEN e ELSE seq[j - 1]
  OBVIOUS
<1>2. DOMAIN long = 1 .. Len(seq) + 1 /\ DOMAIN seq = 1 .. Len(seq)
  BY <1>1
<1>3. /\ \A j, k \in 1 .. Len(seq) : seq[j] = seq[k] => j = k
      /\ \A j \in 1 .. Len(seq) : seq[j] # e
  BY <1>2 DEF IsInjective, Range
<1> HIDE DEF long
<1>4. IsInjective(long)
  BY <1>1, <1>2, <1>3 DEF IsInjective
<1>5. \A x \in Range(long) : x \in Range(seq) \cup {e}
  BY <1>1, <1>2 DEF Range
<1>6. ASSUME NEW x \in Range(seq) PROVE x \in Range(long)
  <2>1. PICK k \in 1 .. Len(seq) : seq[k] = x
    BY <1>2 DEF Range
  <2>2. k + 1 \in 1 .. Len(seq) + 1 /\ long[k + 1] = x
    BY <1>1, <2>1
  <2> QED BY <2>2, <1>2 DEF Range
<1>7. e \in Range(long)
  <2>1. 1 \in DOMAIN long /\ long[1] = e
    BY <1>1, <1>2
  <2> QED BY <2>1 DEF Range
<1> QED BY <1>1, <1>4, <1>5, <1>6, <1>7 DEF long
-----------------------------------------------------------------------------
(* The steps operations are made of.                                       *)

\* Bookkeeping, said of any slots, frames and list.
Coherent(slots, frames, list) ==
  /\ \A s \in Slots : slots[s] # NULL_BLOCK => frames[slots[s]] # NoFrame
  /\ \A p \in BlockIds : frames[p] # NoFrame => \E s \in Slots : slots[s] = p
  /\ \A s, t \in Slots : slots[s] # NULL_BLOCK /\ slots[s] = slots[t] => s = t
  /\ IsInjective(list)
  /\ Range(list) = IF is_clock THEN {} ELSE {p \in BlockIds : frames[p] # NoFrame}

WellTyped(slots, frames, list) ==
  /\ slots \in [Slots -> BlockIds \cup {NULL_BLOCK}]
  /\ frames \in [BlockIds -> BufferFrame \cup {NoFrame}]
  /\ list \in Seq(BlockIds)

\* The same frame, its reference bit apart.
Alike(frame, other) ==
  \/ frame = NoFrame /\ other = NoFrame
  \/ /\ frame \in BufferFrame
     /\ other \in BufferFrame
     /\ frame.bytes = other.bytes
     /\ frame.dirty = other.dirty
     /\ frame.pin_count = other.pin_count
     /\ frame.fixed_pin = other.fixed_pin

\* The id that no block has.
LEMMA NullIsNoBlock == NULL_BLOCK \notin BlockIds
  BY BlockDeviceAssumption DEF NULL_BLOCK, BlockIds

\* What is left when the page of slot s has gone: coherent slots, frames and list.
LEMMA WithoutFacts ==
  ASSUME TypeOK, Bookkeeping, NEW s \in Slots, NEW p \in Resident, frame_slots[s] = p,
         NEW frames \in [BlockIds -> BufferFrame \cup {NoFrame}],
         \A q \in BlockIds : frames[q] # NoFrame <=> q # p /\ frame_map[q] # NoFrame
  PROVE  /\ WellTyped(SlotsWithout(s), frames, ListWithout(p))
         /\ Coherent(SlotsWithout(s), frames, ListWithout(p))
<1>1. p \in BlockIds /\ p # NULL_BLOCK /\ frame_map[p] # NoFrame
  BY NullIsNoBlock DEF Resident
<1>2. SlotsWithout(s) \in [Slots -> BlockIds \cup {NULL_BLOCK}]
  BY DEF TypeOK, SlotsWithout
<1>3. /\ ListWithout(p) \in Seq(BlockIds)
      /\ IsInjective(ListWithout(p))
      /\ Range(ListWithout(p)) = IF is_clock THEN {} ELSE Resident \ {p}
  <2>1. CASE is_clock
    BY <2>1 DEF ListWithout, TypeOK, Bookkeeping
  <2>2. CASE ~is_clock
    <3>1. p \in Range(lru_list)
      BY <1>1, <2>2 DEF Bookkeeping, Resident
    <3>2. DOMAIN lru_list = 1 .. Len(lru_list) /\ lru_list \in Seq(BlockIds)
      BY DEF TypeOK
    <3>3. \E i \in DOMAIN lru_list : lru_list[i] = p
      BY <3>1 DEF Range
    <3>4. IndexOf(p) \in 1 .. Len(lru_list) /\ lru_list[IndexOf(p)] = p
      BY <3>2, <3>3 DEF IndexOf
    <3>5. IsInjective(lru_list) /\ Range(lru_list) = Resident
      BY <2>2 DEF Bookkeeping
    <3>6. ListWithout(p) = RemoveAt(lru_list, IndexOf(p))
      BY <2>2 DEF ListWithout
    <3> QED BY <2>2, <3>2, <3>4, <3>5, <3>6, RemoveAtFacts, RemoveAtDomain
  <2> QED BY <2>1, <2>2
<1> DEFINE slots == SlotsWithout(s)
<1>4. \A t \in Slots : slots[t] = IF t = s THEN NULL_BLOCK ELSE frame_slots[t]
  BY DEF SlotsWithout, TypeOK
<1> HIDE DEF slots
<1>5. \A t \in Slots : frame_slots[t] \in BlockIds \cup {NULL_BLOCK}
  BY DEF TypeOK
<1>6. \A t \in Slots : slots[t] # NULL_BLOCK => frames[slots[t]] # NoFrame
  BY <1>1, <1>4, <1>5 DEF Bookkeeping, Resident
<1>7. \A q \in BlockIds : frames[q] # NoFrame => \E t \in Slots : slots[t] = q
  BY <1>4, NullIsNoBlock DEF Bookkeeping, Resident
<1>8. \A t, u \in Slots : slots[t] # NULL_BLOCK /\ slots[t] = slots[u] => t = u
  BY <1>4 DEF Bookkeeping
<1>9. Range(ListWithout(p)) = IF is_clock THEN {} ELSE {q \in BlockIds : frames[q] # NoFrame}
  <2>1. Resident \ {p} = {q \in BlockIds : frames[q] # NoFrame}
    BY DEF Resident
  <2> QED BY <1>3, <2>1
<1> QED BY <1>2, <1>3, <1>6, <1>7, <1>8, <1>9 DEF WellTyped, Coherent, slots

\* What eviction leaves: coherent slots, frames and list without the victim's page,
\* the other frames as they were.
LEMMA EvictFacts ==
  ASSUME TypeOK, Bookkeeping, NEW s \in Slots, Victim(s)
  PROVE  /\ frame_slots[s] \in BlockIds
         /\ Evictable(frame_slots[s])
         /\ WellTyped(SlotsWithout(s), FramesWithout(s), ListWithout(frame_slots[s]))
         /\ Coherent(SlotsWithout(s), FramesWithout(s), ListWithout(frame_slots[s]))
         /\ FramesWithout(s)[frame_slots[s]] = NoFrame
         /\ \A q \in BlockIds \ {frame_slots[s]} : Alike(FramesWithout(s)[q], frame_map[q])
         /\ HandAfter(s) \in Slots
<1> DEFINE p == frame_slots[s]
<1> USE NoFrameAssumption
<1>1. Evictable(p)
  BY DEF Victim, ClockVictim, LruVictim
<1>2. p \in BlockIds /\ p # NULL_BLOCK /\ frame_map[p] # NoFrame
  BY <1>1, NullIsNoBlock DEF Evictable, Resident
<1>3. /\ FramesWithout(s) \in [BlockIds -> BufferFrame \cup {NoFrame}]
      /\ FramesWithout(s)[p] = NoFrame
      /\ \A q \in BlockIds \ {p} : Alike(FramesWithout(s)[q], frame_map[q])
  <2> DEFINE cleared == {frame_slots[t] : t \in {u \in Slots : is_clock /\ PassedBefore(u, s)}}
             without(q) == IF q = p THEN NoFrame
                           ELSE IF q \in cleared THEN [frame_map[q] EXCEPT !.reference_bit = FALSE]
                           ELSE frame_map[q]
  <2>1. FramesWithout(s) = [q \in BlockIds |-> without(q)]
    BY DEF FramesWithout
  <2>2. \A q \in cleared : q \in BlockIds /\ frame_map[q] # NoFrame
    BY DEF PassedBefore, Evictable, Resident
  <2>3. ASSUME NEW q \in BlockIds
        PROVE  /\ without(q) \in BufferFrame \cup {NoFrame}
               /\ q # p => Alike(without(q), frame_map[q])
    <3> HIDE DEF cleared
    <3>1. frame_map[q] \in BufferFrame \cup {NoFrame}
      BY DEF TypeOK
    <3>2. CASE q = p
      BY <3>2
    <3>3. CASE q # p /\ q \in cleared
      <4>1. frame_map[q] \in BufferFrame
        BY <2>2, <3>1, <3>3
      <4> DEFINE f == frame_map[q]
                 g == [f EXCEPT !.reference_bit = FALSE]
      <4> HIDE DEF f
      <4>2. /\ g \in BufferFrame /\ g.bytes = f.bytes /\ g.dirty = f.dirty
            /\ g.pin_count = f.pin_count /\ g.fixed_pin = f.fixed_pin
        BY <4>1 DEF BufferFrame, f
      <4>3. without(q) = g
        BY <3>3 DEF f
      <4> HIDE DEF g, without
      <4> QED BY <4>1, <4>2, <4>3 DEF Alike, f
    <3>4. CASE q # p /\ q \notin cleared
      <4>1. without(q) = frame_map[q]
        BY <3>4
      <4> QED BY <3>1, <4>1 DEF Alike
    <3> QED BY <3>2, <3>3, <3>4
  <2>4. without(p) = NoFrame
    OBVIOUS
  <2> HIDE DEF without, p
  <2> QED BY <1>2, <2>1, <2>3, <2>4
<1>4. \A q \in BlockIds : FramesWithout(s)[q] # NoFrame <=> q # p /\ frame_map[q] # NoFrame
  BY <1>3 DEF Alike
<1>5. /\ WellTyped(SlotsWithout(s), FramesWithout(s), ListWithout(p))
      /\ Coherent(SlotsWithout(s), FramesWithout(s), ListWithout(p))
  <2>1. p \in Resident
    BY <1>1 DEF Evictable
  <2> HIDE DEF p
  <2>2. frame_slots[s] = p
    BY DEF p
  <2> QED BY <1>3, <1>4, <2>1, <2>2, WithoutFacts
<1>6. HandAfter(s) \in Slots
  <2>1. clock_hand \in Slots /\ s \in Int /\ capacity \in Nat \ {0}
    BY BufferManagerAssumption DEF TypeOK, Slots
  <2>2. (s + 1) % capacity \in 0 .. capacity - 1
    BY <2>1
  <2> QED BY <2>1, <2>2 DEF HandAfter, Slots
<1> QED BY <1>1, <1>2, <1>3, <1>5, <1>6

\* A page comes into the first free slot with that frame.
PutPage(p, frame, slots, frames, list) ==
  /\ \E s \in Slots : IsFreeSlot(s, slots) /\ frame_slots' = [slots EXCEPT ![s] = p]
  /\ frame_map' = [frames EXCEPT ![p] = frame]
  /\ lru_list' = IF is_clock THEN list ELSE <<p>> \o list

\* What a page put in the first free slot makes of coherent slots, frames and list that do
\* not have it.
LEMMA PutFacts ==
  ASSUME NEW p \in BlockIds, NEW slots, NEW frames, NEW list, NEW frame \in BufferFrame,
         is_clock \in BOOLEAN, is_clock' = is_clock,
         WellTyped(slots, frames, list), Coherent(slots, frames, list), frames[p] = NoFrame,
         PutPage(p, frame, slots, frames, list)
  PROVE  /\ WellTyped(frame_slots', frame_map', lru_list')
         /\ Bookkeeping'
         /\ frame_map'[p] = frame
         /\ \A q \in BlockIds \ {p} : frame_map'[q] = frames[q]
<1> USE NoFrameAssumption
<1>1. PICK s \in Slots : IsFreeSlot(s, slots) /\ frame_slots' = [slots EXCEPT ![s] = p]
  BY DEF PutPage
<1>2. slots[s] = NULL_BLOCK
  BY <1>1 DEF IsFreeSlot, IsFirst
<1>3. /\ frame_slots' \in [Slots -> BlockIds \cup {NULL_BLOCK}]
      /\ \A t \in Slots : frame_slots'[t] = IF t = s THEN p ELSE slots[t]
  BY <1>1 DEF WellTyped
<1>4. /\ frame_map' \in [BlockIds -> BufferFrame \cup {NoFrame}]
      /\ frame_map'[p] = frame
      /\ \A q \in BlockIds \ {p} : frame_map'[q] = frames[q]
  BY DEF WellTyped, PutPage
<1>5. \A q \in BlockIds : frame_map'[q] # NoFrame <=> q = p \/ frames[q] # NoFrame
  BY <1>4
<1>6. Resident' = {q \in BlockIds : frame_map'[q] # NoFrame}
  BY DEF Resident
<1>7. /\ lru_list' \in Seq(BlockIds)
      /\ IsInjective(lru_list')
      /\ Range(lru_list') = IF is_clock' THEN {} ELSE Resident'
  <2>1. list \in Seq(BlockIds) /\ IsInjective(list)
    BY DEF WellTyped, Coherent
  <2>2. CASE is_clock
    <3>1. lru_list' = list /\ Range(list) = {}
      BY <2>2 DEF PutPage, Coherent
    <3> QED BY <2>1, <2>2, <3>1
  <2>3. CASE ~is_clock
    <3>1. lru_list' = <<p>> \o list
      BY <2>3 DEF PutPage
    <3>2. Range(list) = {q \in BlockIds : frames[q] # NoFrame}
      BY <2>3 DEF Coherent
    <3>3. p \notin Range(list)
      BY <3>2
    <3>4. /\ <<p>> \o list \in Seq(BlockIds)
          /\ IsInjective(<<p>> \o list)
          /\ Range(<<p>> \o list) = Range(list) \cup {p}
      BY <2>1, <3>3, PushFrontFacts
    <3>5. Range(list) \cup {p} = Resident'
      BY <1>5, <1>6, <3>2
    <3> QED BY <2>3, <3>1, <3>4, <3>5
  <2> QED BY <2>2, <2>3
<1>8. Bookkeeping'
  <2>1. \A t \in Slots : frame_slots'[t] # NULL_BLOCK' => frame_slots'[t] \in Resident'
    BY <1>3, <1>5, <1>6 DEF Coherent, WellTyped, NULL_BLOCK
  <2>2. \A q \in Resident' : \E t \in Slots : frame_slots'[t] = q
    <3>1. ASSUME NEW q \in Resident', q # p PROVE \E t \in Slots : frame_slots'[t] = q
      <4>1. PICK t \in Slots : slots[t] = q
        BY <1>5, <1>6, <3>1 DEF Coherent
      <4>2. q # NULL_BLOCK
        BY <1>6, NullIsNoBlock
      <4> QED BY <1>2, <1>3, <4>1, <4>2
    <3> QED BY <1>3, <3>1
  <2>3. \A t, u \in Slots :
          frame_slots'[t] # NULL_BLOCK' /\ frame_slots'[t] = frame_slots'[u] => t = u
    BY <1>2, <1>3 DEF Coherent, NULL_BLOCK
  <2> QED BY <1>7, <2>1, <2>2, <2>3 DEF Bookkeeping, Slots
<1> QED BY <1>3, <1>4, <1>7, <1>8 DEF WellTyped

\* What load_page makes of coherent slots, frames and list that do not have p.
LEMMA LoadFacts ==
  ASSUME NEW p \in BlockIds, NEW slots, NEW frames, NEW list,
         disk \in [BlockIds -> Bytes], is_clock \in BOOLEAN, is_clock' = is_clock,
         WellTyped(slots, frames, list), Coherent(slots, frames, list),
         frames[p] = NoFrame, LoadPage(p, slots, frames, list)
  PROVE  /\ WellTyped(frame_slots', frame_map', lru_list')
         /\ Bookkeeping'
         /\ NewFrame(p) \in BufferFrame
         /\ frame_map'[p] = NewFrame(p)
         /\ \A q \in BlockIds \ {p} : frame_map'[q] = frames[q]
<1>1. NewFrame(p) \in BufferFrame
  BY DEF NewFrame, BufferFrame
<1>2. PutPage(p, NewFrame(p), slots, frames, list)
  BY DEF LoadPage, PutPage
<1> QED BY <1>1, <1>2, PutFacts

\* What an eviction and the load after it do to a page that is not the one loaded: it
\* stays as it was, or goes and is written if it was dirty.
Kept(q) ==
  /\ Alike(frame_map'[q], frame_map[q])
  /\ disk'[q] = disk[q]
  /\ q \in used' <=> q \in used

Dropped(q) ==
  /\ Evictable(q)
  /\ frame_map'[q] = NoFrame
  /\ disk'[q] = IF frame_map[q].dirty THEN frame_map[q].bytes ELSE disk[q]
  /\ q \in used' <=> q \in used \/ frame_map[q].dirty

\* write_block for the dirty ones of some pages of the pool.
LEMMA WriteDirtyFacts ==
  ASSUME TypeOK, NEW pages \in SUBSET Resident, WriteDirty(pages)
  PROVE  /\ disk' \in [BlockIds -> Bytes]
         /\ used' \in SUBSET BlockIds
         /\ \A q \in BlockIds :
              LET written == q \in pages /\ frame_map[q].dirty
              IN  /\ disk'[q] = IF written THEN frame_map[q].bytes ELSE disk[q]
                  /\ q \in used' <=> q \in used \/ written
<1> DEFINE image == [p \in {q \in pages : frame_map[q].dirty} |-> frame_map[p].bytes]
<1>1. WriteBlocks(image)
  BY DEF WriteDirty
<1>2. /\ DOMAIN image = {q \in pages : frame_map[q].dirty}
      /\ \A q \in DOMAIN image : image[q] = frame_map[q].bytes
  OBVIOUS
<1>3. \A q \in pages : q \in BlockIds /\ frame_map[q].bytes \in Bytes
  BY DEF TypeOK, BufferFrame, Resident
<1> HIDE DEF image
<1> QED BY <1>1, <1>2, <1>3 DEF WriteBlocks, TypeOK

\* load_pin_page of a page that is not in the pool.
LEMMA MissFacts ==
  ASSUME TypeOK, Bookkeeping, NEW p \in BlockIds, Miss(p)
  PROVE  /\ disk' \in [BlockIds -> Bytes]
         /\ used' \in SUBSET BlockIds
         /\ is_clock' \in BOOLEAN
         /\ WellTyped(frame_slots', frame_map', lru_list')
         /\ clock_hand' \in Slots
         /\ Bookkeeping'
         /\ NewFrame(p) \in BufferFrame
         /\ frame_map'[p] = NewFrame(p)
         /\ disk'[p] = disk[p]
         /\ p \in used' <=> p \in used
         /\ \A q \in BlockIds \ {p} : Kept(q) \/ Dropped(q)
<1>1. /\ p \notin Resident /\ frame_map[p] = NoFrame
      /\ is_clock' = is_clock /\ is_clock \in BOOLEAN
      /\ disk \in [BlockIds -> Bytes]
  BY DEF Miss, Resident, TypeOK
<1>2. CASE HasRoom /\ LoadPage(p, frame_slots, frame_map, lru_list)
                   /\ UNCHANGED <<deviceVars, clock_hand>>
  <2>1. /\ WellTyped(frame_slots, frame_map, lru_list)
        /\ Coherent(frame_slots, frame_map, lru_list)
    BY DEF WellTyped, Coherent, TypeOK, Bookkeeping, Resident
  <2>2. /\ WellTyped(frame_slots', frame_map', lru_list')
        /\ Bookkeeping'
        /\ NewFrame(p) \in BufferFrame
        /\ frame_map'[p] = NewFrame(p)
        /\ \A q \in BlockIds \ {p} : frame_map'[q] = frame_map[q]
    BY <1>1, <1>2, <2>1, LoadFacts
  <2>3. \A q \in BlockIds \ {p} : Kept(q)
    BY <1>2, <2>2 DEF Kept, Alike, deviceVars, TypeOK
  <2> QED BY <1>1, <1>2, <2>2, <2>3 DEF deviceVars, TypeOK
<1>3. ASSUME NEW s \in Slots, Victim(s), WriteDirty({frame_slots[s]}),
             LoadPage(p, SlotsWithout(s), FramesWithout(s), ListWithout(frame_slots[s])),
             clock_hand' = HandAfter(s)
      PROVE  /\ disk' \in [BlockIds -> Bytes]
             /\ used' \in SUBSET BlockIds
             /\ WellTyped(frame_slots', frame_map', lru_list')
             /\ clock_hand' \in Slots
             /\ Bookkeeping'
             /\ NewFrame(p) \in BufferFrame
             /\ frame_map'[p] = NewFrame(p)
             /\ disk'[p] = disk[p]
             /\ p \in used' <=> p \in used
             /\ \A q \in BlockIds \ {p} : Kept(q) \/ Dropped(q)
  <2> DEFINE v == frame_slots[s]
  <2>1. /\ v \in BlockIds /\ Evictable(v) /\ HandAfter(s) \in Slots
        /\ WellTyped(SlotsWithout(s), FramesWithout(s), ListWithout(v))
        /\ Coherent(SlotsWithout(s), FramesWithout(s), ListWithout(v))
        /\ FramesWithout(s)[v] = NoFrame
        /\ \A q \in BlockIds \ {v} : Alike(FramesWithout(s)[q], frame_map[q])
    BY <1>3, EvictFacts
  <2>2. v \in Resident /\ v # p
    BY <1>1, <2>1 DEF Evictable
  <2>3. /\ disk' \in [BlockIds -> Bytes]
        /\ used' \in SUBSET BlockIds
        /\ \A q \in BlockIds :
             LET written == q \in {v} /\ frame_map[q].dirty
             IN  /\ disk'[q] = IF written THEN frame_map[q].bytes ELSE disk[q]
                 /\ q \in used' <=> q \in used \/ written
    <3>1. {v} \in SUBSET Resident
      BY <2>2
    <3> QED BY <1>3, <3>1, WriteDirtyFacts
  <2>4. FramesWithout(s)[p] = NoFrame
    BY <1>1, <2>1, <2>2, NoFrameAssumption DEF Alike
  <2>5. /\ WellTyped(frame_slots', frame_map', lru_list')
        /\ Bookkeeping'
        /\ NewFrame(p) \in BufferFrame
        /\ frame_map'[p] = NewFrame(p)
        /\ \A q \in BlockIds \ {p} : frame_map'[q] = FramesWithout(s)[q]
    BY <1>1, <1>3, <2>1, <2>4, LoadFacts
  <2>6. ASSUME NEW q \in BlockIds \ {p} PROVE Kept(q) \/ Dropped(q)
    <3>1. CASE q = v
      BY <2>1, <2>3, <2>5, <3>1 DEF Dropped
    <3>2. CASE q # v
      BY <2>1, <2>3, <2>5, <3>2 DEF Kept
    <3> QED BY <3>1, <3>2
  <2> QED BY <1>3, <2>1, <2>2, <2>3, <2>5, <2>6
<1> QED BY <1>1, <1>2, <1>3 DEF Miss

\* load_pin_page of an id past the last block.
LEMMA LoadPinInvalidFacts ==
  ASSUME TypeOK, Bookkeeping, LoadPinInvalid
  PROVE  /\ disk' \in [BlockIds -> Bytes]
         /\ used' \in SUBSET BlockIds
         /\ is_clock' \in BOOLEAN
         /\ WellTyped(frame_slots', frame_map', lru_list')
         /\ clock_hand' \in Slots
         /\ Bookkeeping'
         /\ \A q \in BlockIds : Kept(q) \/ Dropped(q)
<1>1. is_clock' = is_clock /\ is_clock \in BOOLEAN
  BY DEF LoadPinInvalid, TypeOK
<1>2. CASE UNCHANGED <<deviceVars, frame_slots, frame_map, lru_list, clock_hand>>
  <2>1. WellTyped(frame_slots', frame_map', lru_list')
    BY <1>2 DEF WellTyped, TypeOK
  <2>2. Bookkeeping'
    BY <1>1, <1>2 DEF Bookkeeping, Resident, NULL_BLOCK
  <2>3. \A q \in BlockIds : Kept(q)
    BY <1>2 DEF Kept, Alike, deviceVars, TypeOK
  <2> QED BY <1>1, <1>2, <2>1, <2>2, <2>3 DEF deviceVars, TypeOK
<1>3. ASSUME NEW s \in Slots, Victim(s), WriteDirty({frame_slots[s]}),
             frame_slots' = SlotsWithout(s), frame_map' = FramesWithout(s),
             lru_list' = ListWithout(frame_slots[s]), clock_hand' = HandAfter(s)
      PROVE  /\ disk' \in [BlockIds -> Bytes]
             /\ used' \in SUBSET BlockIds
             /\ WellTyped(frame_slots', frame_map', lru_list')
             /\ clock_hand' \in Slots
             /\ Bookkeeping'
             /\ \A q \in BlockIds : Kept(q) \/ Dropped(q)
  <2> DEFINE v == frame_slots[s]
  <2>1. /\ v \in BlockIds /\ Evictable(v) /\ clock_hand' \in Slots
        /\ WellTyped(frame_slots', frame_map', lru_list')
        /\ Coherent(frame_slots', frame_map', lru_list')
        /\ frame_map'[v] = NoFrame
        /\ \A q \in BlockIds \ {v} : Alike(frame_map'[q], frame_map[q])
    BY <1>3, EvictFacts
  <2>2. {v} \in SUBSET Resident
    BY <2>1 DEF Evictable
  <2>3. /\ disk' \in [BlockIds -> Bytes]
        /\ used' \in SUBSET BlockIds
        /\ \A q \in BlockIds :
             LET written == q \in {v} /\ frame_map[q].dirty
             IN  /\ disk'[q] = IF written THEN frame_map[q].bytes ELSE disk[q]
                 /\ q \in used' <=> q \in used \/ written
    BY <1>3, <2>2, WriteDirtyFacts
  <2>4. Bookkeeping'
    <3>1. Resident' = {q \in BlockIds : frame_map'[q] # NoFrame}
      BY DEF Resident
    <3>2. \A t \in Slots : frame_slots'[t] # NULL_BLOCK' => frame_slots'[t] \in Resident'
      BY <2>1, <3>1 DEF Coherent, WellTyped, NULL_BLOCK
    <3>3. \A q \in Resident' : \E t \in Slots : frame_slots'[t] = q
      BY <2>1, <3>1 DEF Coherent
    <3>4. \A t, u \in Slots :
            frame_slots'[t] # NULL_BLOCK' /\ frame_slots'[t] = frame_slots'[u] => t = u
      BY <2>1 DEF Coherent, NULL_BLOCK
    <3>5. IsInjective(lru_list') /\ Range(lru_list') = IF is_clock' THEN {} ELSE Resident'
      BY <1>1, <2>1, <3>1 DEF Coherent
    <3> QED BY <3>2, <3>3, <3>4, <3>5 DEF Bookkeeping, Slots
  <2>5. ASSUME NEW q \in BlockIds PROVE Kept(q) \/ Dropped(q)
    <3>1. CASE q = v
      BY <2>1, <2>3, <3>1 DEF Dropped
    <3>2. CASE q # v
      BY <2>1, <2>3, <3>2 DEF Kept
    <3> QED BY <3>1, <3>2
  <2> QED BY <2>1, <2>3, <2>4, <2>5
<1> QED BY <1>1, <1>2, <1>3 DEF LoadPinInvalid

\* The page moves to the front of lru_list.
LEMMA MoveToFrontFacts ==
  ASSUME TypeOK, Bookkeeping, NEW p \in Resident, ~is_clock
  PROVE  /\ <<p>> \o ListWithout(p) \in Seq(BlockIds)
         /\ IsInjective(<<p>> \o ListWithout(p))
         /\ Range(<<p>> \o ListWithout(p)) = Resident
<1>1. lru_list \in Seq(BlockIds) /\ IsInjective(lru_list) /\ Range(lru_list) = Resident
  BY DEF TypeOK, Bookkeeping
<1>2. \E i \in DOMAIN lru_list : lru_list[i] = p
  BY <1>1 DEF Range
<1>3. IndexOf(p) \in 1 .. Len(lru_list) /\ lru_list[IndexOf(p)] = p
  BY <1>1, <1>2 DEF IndexOf
<1>4. ListWithout(p) = RemoveAt(lru_list, IndexOf(p))
  BY DEF ListWithout
<1>5. /\ ListWithout(p) \in Seq(BlockIds)
      /\ IsInjective(ListWithout(p))
      /\ Range(ListWithout(p)) = Resident \ {p}
  BY <1>1, <1>3, <1>4, RemoveAtFacts, RemoveAtDomain
<1>6. p \in BlockIds
  BY DEF Resident
<1>7. /\ <<p>> \o ListWithout(p) \in Seq(BlockIds)
      /\ IsInjective(<<p>> \o ListWithout(p))
      /\ Range(<<p>> \o ListWithout(p)) = Range(ListWithout(p)) \cup {p}
  BY <1>5, <1>6, PushFrontFacts
<1> QED BY <1>5, <1>7

\* A step that replaces the frame of one page of the pool by another frame and leaves
\* slots and list alone.
LEMMA ReplaceFrameFacts ==
  ASSUME TypeOK, Bookkeeping, NEW p \in Resident, NEW frame \in BufferFrame,
         frame_map' = [frame_map EXCEPT ![p] = frame], is_clock' = is_clock,
         frame_slots' = frame_slots
  PROVE  /\ frame_map' \in [BlockIds -> BufferFrame \cup {NoFrame}]
         /\ frame_map'[p] = frame
         /\ \A q \in BlockIds \ {p} : frame_map'[q] = frame_map[q]
         /\ Resident' = Resident
         /\ lru_list' = lru_list => Bookkeeping'
<1>1. /\ frame_map' \in [BlockIds -> BufferFrame \cup {NoFrame}]
      /\ frame_map'[p] = frame
      /\ \A q \in BlockIds \ {p} : frame_map'[q] = frame_map[q]
  BY DEF TypeOK, Resident
<1>2. Resident' = Resident
  BY <1>1, NoFrameAssumption DEF Resident
<1>3. lru_list' = lru_list => Bookkeeping'
  BY <1>2 DEF Bookkeeping, NULL_BLOCK
<1> QED BY <1>1, <1>2, <1>3
-----------------------------------------------------------------------------
(* The inductive invariant.                                                *)

\* What the properties below say of one page.
PageInv(q) ==
  /\ q \in Resident /\ ~frame_map[q].dirty /\ q \notin unmarked => frame_map[q].bytes = disk[q]
  /\ held[q] > 0 => q \in Resident /\ frame_map[q].pin_count >= held[q]
  /\ q \in unmarked => q \in Resident /\ frame_map[q].pin_count > 0
  /\ owners[q] <= 1
  /\ owners[q] > 0 => q \in used \/ (q \in Resident /\ (frame_map[q].dirty \/ q \in unmarked))
  /\ q \notin used => disk[q] = Zero

IInv == TypeOK /\ Bookkeeping /\ \A q \in BlockIds : PageInv(q)

\* The properties checked over PageInv's page are what IInv says.
LEMMA IInvParts ==
  IInv => /\ CleanMatchesDisk /\ HeldArePinned /\ SingleOwner /\ OwnedIsKept
          /\ FreeBlocksAreZero
  BY DEF IInv, PageInv, CleanMatchesDisk, HeldArePinned, SingleOwner, OwnedIsKept,
         FreeBlocksAreZero, Resident

\* A page an eviction keeps or drops, and that the operation does nothing else with,
\* stays well.
LEMMA OtherPage ==
  ASSUME TypeOK, NEW q \in BlockIds, PageInv(q), Kept(q) \/ Dropped(q),
         held'[q] = held[q] \/ held'[q] = 0,
         q \in unmarked' <=> q \in unmarked, owners'[q] = owners[q]
  PROVE  PageInv(q)'
<1> USE NoFrameAssumption
<1>1. /\ held[q] \in Nat
      /\ frame_map[q] \in BufferFrame \cup {NoFrame}
      /\ q \in Resident <=> frame_map[q] # NoFrame
      /\ q \in Resident' <=> frame_map'[q] # NoFrame
  BY DEF TypeOK, Resident
<1>2. CASE Kept(q)
  <2>1. q \in Resident' <=> q \in Resident
    BY <1>1, <1>2 DEF Kept, Alike
  <2>2. q \in Resident => /\ frame_map'[q].bytes = frame_map[q].bytes
                         /\ frame_map'[q].dirty = frame_map[q].dirty
                         /\ frame_map'[q].pin_count = frame_map[q].pin_count
    BY <1>1, <1>2 DEF Kept, Alike
  <2>3. disk'[q] = disk[q] /\ (q \in used' <=> q \in used)
    BY <1>2 DEF Kept
  <2> QED BY <1>1, <2>1, <2>2, <2>3 DEF PageInv
<1>3. CASE Dropped(q)
  <2>1. q \in Resident /\ frame_map[q].pin_count = 0 /\ q \notin Resident'
    BY <1>1, <1>3 DEF Dropped, Evictable
  <2>2. held[q] = 0 /\ q \notin unmarked
    BY <1>1, <2>1 DEF PageInv
  <2>3. /\ disk'[q] = IF frame_map[q].dirty THEN frame_map[q].bytes ELSE disk[q]
        /\ q \in used' <=> q \in used \/ frame_map[q].dirty
    BY <1>3 DEF Dropped
  <2>4. frame_map[q].dirty \in BOOLEAN
    BY <1>1, <2>1 DEF BufferFrame
  <2> QED BY <2>1, <2>2, <2>3, <2>4 DEF PageInv
<1> QED BY <1>2, <1>3

\* A page whose frame, disk content, pins and owners do not change stays well.
LEMMA SamePage ==
  ASSUME NEW q \in BlockIds, PageInv(q), frame_map'[q] = frame_map[q], disk' = disk,
         used' = used, held'[q] = held[q] \/ held'[q] = 0,
         q \in unmarked' <=> q \in unmarked, owners'[q] = owners[q]
  PROVE  PageInv(q)'
<1>1. q \in Resident' <=> q \in Resident
  BY DEF Resident
<1> QED BY <1>1 DEF PageInv

\* The pool the constructor makes satisfies the inductive invariant.
THEOREM InitIInv == Init => IInv
<1> SUFFICES ASSUME Init PROVE IInv
  OBVIOUS
<1>1. TypeOK
  <2>1. 0 \in Slots
    BY BufferManagerAssumption DEF Slots
  <2> QED BY <2>1 DEF Init, TypeOK
<1>2. Resident = {}
  BY DEF Init, Resident
<1>3. Bookkeeping
  BY <1>2 DEF Init, Bookkeeping, IsInjective, Range
<1>4. ASSUME NEW q \in BlockIds PROVE PageInv(q)
  BY <1>2, <1>4 DEF Init, PageInv
<1> QED BY <1>1, <1>3, <1>4 DEF IInv

\* The frame load_pin_page leaves for a page it finds: one pin more, bytes and dirty as
\* they were.
LEMMA HitFrame ==
  ASSUME TypeOK, NEW p \in BlockIds, LoadPinHit(p)
  PROVE  \E frame \in BufferFrame :
           /\ frame_map' = [frame_map EXCEPT ![p] = frame]
           /\ frame.bytes = frame_map[p].bytes
           /\ frame.dirty = frame_map[p].dirty
           /\ frame.pin_count = frame_map[p].pin_count + 1
<1> DEFINE old == frame_map[p]
           bit == IF is_clock THEN TRUE ELSE old.reference_bit
           pins == old.pin_count + 1
           frame == [old EXCEPT !.pin_count = pins, !.reference_bit = bit]
<1>1. old \in BufferFrame
  BY DEF LoadPinHit, TypeOK, Resident
<1>2. frame_map' = [frame_map EXCEPT ![p] = frame]
  BY DEF LoadPinHit, TypeOK
<1>3. old.reference_bit \in BOOLEAN /\ pins \in Nat
  BY <1>1 DEF BufferFrame
<1>4. bit = TRUE \/ bit = old.reference_bit
  BY Zenon
<1>5. bit \in BOOLEAN
  BY <1>3, <1>4, Zenon
<1>6. /\ frame \in BufferFrame /\ frame.bytes = old.bytes /\ frame.dirty = old.dirty
      /\ frame.pin_count = pins
  <2> HIDE DEF old, bit, pins
  <2> QED BY <1>1, <1>3, <1>5 DEF BufferFrame
<1> HIDE DEF frame
<1> QED BY <1>2, <1>6

\* The same for free_unpin_page: one pin less, and dirty if it was or if the caller says so.
LEMMA UnpinFrame ==
  ASSUME TypeOK, NEW p \in BlockIds, NEW is_dirty \in BOOLEAN, FreeUnpin(p, is_dirty)
  PROVE  \E frame \in BufferFrame :
           /\ frame_map' = [frame_map EXCEPT ![p] = frame]
           /\ frame.bytes = frame_map[p].bytes
           /\ frame.dirty <=> frame_map[p].dirty \/ is_dirty
           /\ frame_map[p].pin_count > 0 => frame.pin_count = frame_map[p].pin_count - 1
<1> DEFINE old == frame_map[p]
           dirty == DirtyAfter(p, is_dirty)
           pins == IF old.pin_count > 0 THEN old.pin_count - 1 ELSE old.pin_count
           frame == [old EXCEPT !.pin_count = pins, !.dirty = dirty]
<1>1. old \in BufferFrame
  BY DEF FreeUnpin, TypeOK, Resident
<1>2. frame_map' = [frame_map EXCEPT ![p] = frame]
  BY DEF FreeUnpin, TypeOK
<1>3. old.dirty \in BOOLEAN /\ old.pin_count \in Nat
  BY <1>1 DEF BufferFrame
<1>4. pins \in Nat /\ (old.pin_count > 0 => pins = old.pin_count - 1)
  BY <1>3
<1>5. dirty \in BOOLEAN /\ (dirty <=> old.dirty \/ is_dirty)
  BY <1>3, Zenon DEF DirtyAfter
<1>6. /\ frame \in BufferFrame /\ frame.bytes = old.bytes
      /\ frame.dirty = dirty /\ frame.pin_count = pins
  <2> HIDE DEF old, pins, dirty
  <2> QED BY <1>1, <1>4, <1>5 DEF BufferFrame
<1> HIDE DEF frame, dirty, pins
<1> QED BY <1>2, <1>4, <1>5, <1>6

\* The same for set_fixed_pin, which the counts and the bytes do not notice.
LEMMA FixFrame ==
  ASSUME TypeOK, NEW p \in BlockIds, NEW value \in BOOLEAN, SetFixedPin(p, value)
  PROVE  \E frame \in BufferFrame :
           /\ frame_map' = [frame_map EXCEPT ![p] = frame]
           /\ frame.bytes = frame_map[p].bytes
           /\ frame.dirty = frame_map[p].dirty
           /\ frame.pin_count = frame_map[p].pin_count
<1> DEFINE old == frame_map[p]
           frame == [old EXCEPT !.fixed_pin = value]
<1>1. old \in BufferFrame
  BY DEF SetFixedPin, TypeOK, Resident
<1>2. frame_map' = [frame_map EXCEPT ![p] = frame]
  BY DEF SetFixedPin, TypeOK
<1>3. /\ frame \in BufferFrame /\ frame.bytes = old.bytes /\ frame.dirty = old.dirty
      /\ frame.pin_count = old.pin_count
  <2> HIDE DEF old
  <2> QED BY <1>1 DEF BufferFrame
<1> HIDE DEF frame
<1> QED BY <1>2, <1>3

\* A reference to a page the pool has.
LEMMA HitIInv ==
  ASSUME IInv, NEW p \in BlockIds, LoadPinHit(p)
  PROVE  IInv'
<1> DEFINE old == frame_map[p]
<1>1. TypeOK /\ Bookkeeping /\ PageInv(p) /\ p \in Resident /\ is_clock \in BOOLEAN
  BY DEF IInv, LoadPinHit, TypeOK
<1>2. old \in BufferFrame
  BY <1>1 DEF TypeOK, Resident
<1>3. PICK frame \in BufferFrame :
        /\ frame_map' = [frame_map EXCEPT ![p] = frame]
        /\ frame.bytes = old.bytes
        /\ frame.dirty = old.dirty
        /\ frame.pin_count = old.pin_count + 1
  BY <1>1, HitFrame
<1> HIDE DEF old
<1>4. /\ is_clock' = is_clock /\ frame_slots' = frame_slots /\ clock_hand' = clock_hand
      /\ disk' = disk /\ used' = used /\ unmarked' = unmarked /\ owners' = owners
      /\ held' = [held EXCEPT ![p] = @ + 1]
      /\ lru_list' = IF is_clock THEN lru_list ELSE <<p>> \o ListWithout(p)
  BY DEF LoadPinHit, deviceVars
<1>5. /\ frame_map' \in [BlockIds -> BufferFrame \cup {NoFrame}]
      /\ frame_map'[p] = frame
      /\ \A q \in BlockIds \ {p} : frame_map'[q] = frame_map[q]
      /\ Resident' = Resident
      /\ lru_list' = lru_list => Bookkeeping'
  BY <1>1, <1>3, <1>4, ReplaceFrameFacts
<1>6. lru_list' \in Seq(BlockIds) /\ Bookkeeping'
  <2>1. CASE is_clock
    BY <1>1, <1>4, <1>5, <2>1 DEF TypeOK
  <2>2. CASE ~is_clock
    <3>1. /\ lru_list' \in Seq(BlockIds) /\ IsInjective(lru_list')
          /\ Range(lru_list') = Resident'
      BY <1>1, <1>4, <1>5, <2>2, MoveToFrontFacts
    <3> QED BY <1>1, <1>4, <1>5, <2>2, <3>1 DEF Bookkeeping, NULL_BLOCK
  <2> QED BY <2>1, <2>2
<1>7. held' \in [BlockIds -> Nat] /\ held'[p] = held[p] + 1
      /\ \A q \in BlockIds \ {p} : held'[q] = held[q]
  BY <1>1, <1>4 DEF TypeOK
<1>8. TypeOK'
  BY <1>1, <1>4, <1>5, <1>6, <1>7 DEF TypeOK, NULL_BLOCK
<1>9. PageInv(p)'
  <2>1. held[p] \in Nat /\ old.pin_count \in Nat
    BY <1>1, <1>2 DEF TypeOK, BufferFrame
  <2> QED BY <1>1, <1>3, <1>4, <1>5, <1>7, <2>1 DEF PageInv, old
<1>10. ASSUME NEW q \in BlockIds \ {p} PROVE PageInv(q)'
  BY <1>4, <1>5, <1>7, SamePage DEF IInv
<1> QED BY <1>6, <1>8, <1>9, <1>10 DEF IInv

\* A reference to a page the pool has to load, for reading.
LEMMA MissIInv ==
  ASSUME IInv, NEW p \in BlockIds, LoadPinMiss(p)
  PROVE  IInv'
<1>1. TypeOK /\ Bookkeeping /\ PageInv(p) /\ Miss(p) /\ p \notin Resident
  BY DEF IInv, LoadPinMiss, Miss
<1>2. /\ disk' \in [BlockIds -> Bytes] /\ used' \in SUBSET BlockIds /\ is_clock' \in BOOLEAN
      /\ WellTyped(frame_slots', frame_map', lru_list') /\ clock_hand' \in Slots
      /\ Bookkeeping'
      /\ NewFrame(p) \in BufferFrame /\ frame_map'[p] = NewFrame(p)
      /\ disk'[p] = disk[p] /\ (p \in used' <=> p \in used)
      /\ \A q \in BlockIds \ {p} : Kept(q) \/ Dropped(q)
  BY <1>1, MissFacts
<1>3. /\ unmarked' = unmarked /\ owners' = owners
      /\ held' \in [BlockIds -> Nat] /\ held'[p] = held[p] + 1
      /\ \A q \in BlockIds \ {p} : held'[q] = held[q]
  BY <1>1 DEF LoadPinMiss, TypeOK
<1>4. TypeOK'
  BY <1>1, <1>2, <1>3 DEF TypeOK, WellTyped, NULL_BLOCK
<1>5. PageInv(p)'
  <2>1. p \in Resident'
    BY <1>2, NoFrameAssumption DEF Resident
  <2>2. held[p] = 0 /\ p \notin unmarked
    BY <1>1 DEF PageInv, TypeOK
  <2>3. frame_map'[p].bytes = disk[p] /\ frame_map'[p].pin_count = 1
    BY <1>2 DEF NewFrame
  <2> QED BY <1>1, <1>2, <1>3, <2>1, <2>2, <2>3 DEF PageInv
<1>6. ASSUME NEW q \in BlockIds \ {p} PROVE PageInv(q)'
  BY <1>1, <1>2, <1>3, OtherPage DEF IInv
<1> QED BY <1>2, <1>4, <1>5, <1>6 DEF IInv

\* A new page.
LEMMA NewPageIInv ==
  ASSUME IInv, GetLoadFreeFrame
  PROVE  IInv'
<1>1. PICK p \in BlockIds :
        /\ IsFirst(p, FreeBlocks(Resident))
        /\ Miss(p)
        /\ held' = [held EXCEPT ![p] = @ + 1]
        /\ unmarked' = unmarked \cup {p}
        /\ owners' = [owners EXCEPT ![p] = @ + 1]
  BY DEF GetLoadFreeFrame
<1>2. TypeOK /\ Bookkeeping /\ PageInv(p) /\ p \notin Resident /\ p \notin used
  BY <1>1 DEF IInv, IsFirst, FreeBlocks
<1>3. /\ disk' \in [BlockIds -> Bytes] /\ used' \in SUBSET BlockIds /\ is_clock' \in BOOLEAN
      /\ WellTyped(frame_slots', frame_map', lru_list') /\ clock_hand' \in Slots
      /\ Bookkeeping'
      /\ NewFrame(p) \in BufferFrame /\ frame_map'[p] = NewFrame(p)
      /\ disk'[p] = disk[p] /\ (p \in used' <=> p \in used)
      /\ \A q \in BlockIds \ {p} : Kept(q) \/ Dropped(q)
  BY <1>1, <1>2, MissFacts
<1>4. /\ unmarked' \in SUBSET BlockIds
      /\ held' \in [BlockIds -> Nat] /\ held'[p] = held[p] + 1
      /\ owners' \in [BlockIds -> Nat] /\ owners'[p] = owners[p] + 1
      /\ \A q \in BlockIds \ {p} : held'[q] = held[q] /\ owners'[q] = owners[q]
  BY <1>1, <1>2 DEF TypeOK
<1>5. TypeOK'
  BY <1>2, <1>3, <1>4 DEF TypeOK, WellTyped, NULL_BLOCK
<1>6. PageInv(p)'
  <2>1. p \in Resident'
    BY <1>3, NoFrameAssumption DEF Resident
  <2>2. held[p] = 0 /\ owners[p] = 0
    BY <1>2 DEF PageInv, TypeOK
  <2>3. frame_map'[p].pin_count = 1
    BY <1>3 DEF NewFrame
  <2> QED BY <1>1, <1>2, <1>3, <1>4, <2>1, <2>2, <2>3 DEF PageInv
<1>7. ASSUME NEW q \in BlockIds \ {p} PROVE PageInv(q)'
  <2>1. q \in unmarked' <=> q \in unmarked
    BY <1>1
  <2> QED BY <1>2, <1>3, <1>4, <2>1, OtherPage DEF IInv
<1> QED BY <1>3, <1>5, <1>6, <1>7 DEF IInv

\* A step that leaves disk, pool, unmarked pages and owners alone, and takes references
\* away.
LEMMA FewerReferences ==
  ASSUME IInv, UNCHANGED <<deviceVars, poolVars, unmarked, owners>>,
         held' \in [BlockIds -> Nat],
         \A q \in BlockIds : held'[q] <= held[q]
  PROVE  IInv'
<1>1. TypeOK'
  BY DEF IInv, TypeOK, deviceVars, poolVars, NULL_BLOCK
<1>2. Resident' = Resident
  BY DEF Resident, poolVars
<1>3. Bookkeeping'
  BY <1>2 DEF IInv, Bookkeeping, poolVars, NULL_BLOCK
<1>4. ASSUME NEW q \in BlockIds PROVE PageInv(q)'
  <2>1. held[q] \in Nat /\ held'[q] \in Nat /\ held'[q] <= held[q] /\ PageInv(q)
    BY DEF IInv, TypeOK
  <2>2. q \in Resident => frame_map[q].pin_count \in Nat
    BY DEF IInv, TypeOK, Resident, BufferFrame
  <2> QED BY <1>2, <2>1, <2>2 DEF PageInv, poolVars, deviceVars
<1> QED BY <1>1, <1>3, <1>4 DEF IInv

\* An operation that ends with an exception keeps the invariant: only its references go.
LEMMA UnwindIInv ==
  ASSUME IInv, Unwind, UNCHANGED <<deviceVars, poolVars, unmarked, owners>>
  PROVE  IInv'
<1>1. \A q \in BlockIds : held[q] \in Nat
  BY DEF IInv, TypeOK
<1>2. held' \in [BlockIds -> Nat] /\ \A q \in BlockIds : held'[q] <= held[q]
  BY <1>1 DEF Unwind
<1> QED BY <1>2, FewerReferences

\* A return that forgets the pin keeps the invariant.
LEMMA ReturnEarlyIInv ==
  ASSUME IInv, NEW p \in BlockIds, ReturnEarly(p)
  PROVE  IInv'
<1>1. held \in [BlockIds -> Nat] /\ held[p] > 0 /\ held' = [held EXCEPT ![p] = @ - 1]
  BY DEF IInv, TypeOK, ReturnEarly
<1>2. held' \in [BlockIds -> Nat] /\ \A q \in BlockIds : held'[q] <= held[q]
  BY <1>1
<1> QED BY <1>2, FewerReferences DEF ReturnEarly

\* A load of an id past the last block keeps the invariant, eviction included.
LEMMA InvalidIInv ==
  ASSUME IInv, LoadPinInvalid
  PROVE  IInv'
<1>1. TypeOK /\ Bookkeeping
  BY DEF IInv
<1>2. /\ disk' \in [BlockIds -> Bytes] /\ used' \in SUBSET BlockIds /\ is_clock' \in BOOLEAN
      /\ WellTyped(frame_slots', frame_map', lru_list') /\ clock_hand' \in Slots
      /\ Bookkeeping'
      /\ \A q \in BlockIds : Kept(q) \/ Dropped(q)
  BY <1>1, LoadPinInvalidFacts
<1>3. /\ unmarked' = unmarked /\ owners' = owners
      /\ held' \in [BlockIds -> Nat] /\ \A q \in BlockIds : held'[q] = 0
  BY DEF LoadPinInvalid, Unwind
<1>4. TypeOK'
  BY <1>1, <1>2, <1>3 DEF TypeOK, WellTyped, NULL_BLOCK
<1>5. ASSUME NEW q \in BlockIds PROVE PageInv(q)'
  BY <1>1, <1>2, <1>3, OtherPage DEF IInv
<1> QED BY <1>2, <1>4, <1>5 DEF IInv

\* A change through a reference.
LEMMA WriteFrameFacts ==
  ASSUME IInv, NEW p \in BlockIds, NEW v \in Bytes, WriteFrame(p, v)
  PROVE  /\ p \in Resident
         /\ frame_map' \in [BlockIds -> BufferFrame \cup {NoFrame}]
         /\ frame_map'[p] \in BufferFrame
         /\ frame_map'[p].bytes = v
         /\ frame_map'[p].dirty = frame_map[p].dirty
         /\ frame_map'[p].pin_count = frame_map[p].pin_count
         /\ \A q \in BlockIds \ {p} : frame_map'[q] = frame_map[q]
         /\ Resident' = Resident
         /\ Bookkeeping'
<1> DEFINE old == frame_map[p]
           frame == [old EXCEPT !.bytes = v]
<1>1. TypeOK /\ Bookkeeping /\ PageInv(p) /\ held[p] > 0 /\ p \in Resident
  BY DEF IInv, PageInv, WriteFrame
<1>2. old \in BufferFrame
  BY <1>1 DEF TypeOK, Resident
<1>3. frame_map' = [frame_map EXCEPT ![p] = frame]
  BY <1>1 DEF WriteFrame, TypeOK
<1>4. /\ frame \in BufferFrame /\ frame.bytes = v /\ frame.dirty = old.dirty
      /\ frame.pin_count = old.pin_count
  <2> HIDE DEF old
  <2> QED BY <1>2 DEF BufferFrame
<1> HIDE DEF frame
<1>5. is_clock' = is_clock /\ frame_slots' = frame_slots /\ lru_list' = lru_list
  BY DEF WriteFrame
<1>6. /\ frame_map' \in [BlockIds -> BufferFrame \cup {NoFrame}]
      /\ frame_map'[p] = frame
      /\ \A q \in BlockIds \ {p} : frame_map'[q] = frame_map[q]
      /\ Resident' = Resident
      /\ Bookkeeping'
  BY <1>1, <1>3, <1>4, <1>5, ReplaceFrameFacts
<1> QED BY <1>1, <1>4, <1>6

\* A change through a reference keeps the invariant.
LEMMA WriteFrameIInv ==
  ASSUME IInv, NEW p \in BlockIds, NEW v \in Bytes, WriteFrame(p, v)
  PROVE  IInv'
<1>1. TypeOK /\ PageInv(p) /\ held[p] > 0 /\ held[p] \in Nat
  BY DEF IInv, WriteFrame, TypeOK
<1>2. /\ p \in Resident /\ Resident' = Resident /\ Bookkeeping'
      /\ frame_map' \in [BlockIds -> BufferFrame \cup {NoFrame}]
      /\ frame_map'[p].dirty = frame_map[p].dirty
      /\ frame_map'[p].pin_count = frame_map[p].pin_count
      /\ \A q \in BlockIds \ {p} : frame_map'[q] = frame_map[q]
  BY WriteFrameFacts
<1>3. /\ is_clock' = is_clock /\ frame_slots' = frame_slots /\ clock_hand' = clock_hand
      /\ lru_list' = lru_list /\ disk' = disk /\ used' = used /\ owners' = owners
      /\ held' = held /\ unmarked' = unmarked \cup {p}
  BY DEF WriteFrame, deviceVars
<1>4. TypeOK'
  BY <1>1, <1>2, <1>3 DEF TypeOK, NULL_BLOCK
<1>5. PageInv(p)'
  <2>1. frame_map[p].pin_count \in Nat
    BY <1>1, <1>2 DEF TypeOK, Resident, BufferFrame
  <2> QED BY <1>1, <1>2, <1>3, <2>1 DEF PageInv
<1>6. ASSUME NEW q \in BlockIds \ {p} PROVE PageInv(q)'
  BY <1>2, <1>3, SamePage DEF IInv
<1> QED BY <1>2, <1>4, <1>5, <1>6 DEF IInv

\* A reference given back.
LEMMA FreeUnpinIInv ==
  ASSUME IInv, NEW p \in BlockIds, NEW is_dirty \in BOOLEAN, FreeUnpin(p, is_dirty)
  PROVE  IInv'
<1> DEFINE old == frame_map[p]
<1>1. TypeOK /\ Bookkeeping /\ PageInv(p) /\ held[p] > 0 /\ p \in Resident
  BY DEF IInv, FreeUnpin
<1>2. old.pin_count \in Nat
  BY <1>1 DEF TypeOK, Resident, BufferFrame
<1>3. PICK frame \in BufferFrame :
        /\ frame_map' = [frame_map EXCEPT ![p] = frame]
        /\ frame.bytes = old.bytes
        /\ frame.dirty <=> old.dirty \/ is_dirty
        /\ old.pin_count > 0 => frame.pin_count = old.pin_count - 1
  BY <1>1, UnpinFrame
<1>4. /\ is_clock' = is_clock /\ frame_slots' = frame_slots /\ clock_hand' = clock_hand
      /\ lru_list' = lru_list /\ disk' = disk /\ used' = used /\ owners' = owners
      /\ held' = [held EXCEPT ![p] = @ - 1]
      /\ unmarked' = IF is_dirty THEN unmarked \ {p} ELSE unmarked
      /\ p \in unmarked /\ ~is_dirty => old.pin_count > 1
      /\ is_dirty => p \in unmarked
  BY DEF FreeUnpin, deviceVars
<1>5. /\ frame_map' \in [BlockIds -> BufferFrame \cup {NoFrame}]
      /\ frame_map'[p] = frame
      /\ \A q \in BlockIds \ {p} : frame_map'[q] = frame_map[q]
      /\ Resident' = Resident
      /\ Bookkeeping'
  BY <1>1, <1>3, <1>4, ReplaceFrameFacts
<1>6. /\ held[p] \in Nat /\ held' \in [BlockIds -> Nat] /\ held'[p] = held[p] - 1
       /\ \A q \in BlockIds \ {p} : held'[q] = held[q]
  BY <1>1, <1>4 DEF TypeOK
<1>7. TypeOK'
  BY <1>1, <1>4, <1>5, <1>6 DEF TypeOK, NULL_BLOCK
<1>8. PageInv(p)'
  <2>1. old.pin_count >= held[p]
    BY <1>1 DEF PageInv
  <2>2. held'[p] > 0 => frame_map'[p].pin_count >= held'[p]
    BY <1>1, <1>2, <1>3, <1>5, <1>6, <2>1
  <2>3. p \in unmarked' => frame_map'[p].pin_count > 0
    BY <1>2, <1>3, <1>4, <1>5
  <2> QED BY <1>1, <1>3, <1>4, <1>5, <2>2, <2>3 DEF PageInv
<1>9. ASSUME NEW q \in BlockIds \ {p} PROVE PageInv(q)'
  BY <1>4, <1>5, <1>6, SamePage DEF IInv
<1> QED BY <1>5, <1>7, <1>8, <1>9 DEF IInv

\* set_fixed_pin keeps the invariant.
LEMMA SetFixedPinIInv ==
  ASSUME IInv, NEW p \in BlockIds, NEW value \in BOOLEAN, SetFixedPin(p, value)
  PROVE  IInv'
<1>1. TypeOK /\ Bookkeeping /\ PageInv(p) /\ p \in Resident
  BY DEF IInv, SetFixedPin
<1>2. PICK frame \in BufferFrame :
        /\ frame_map' = [frame_map EXCEPT ![p] = frame]
        /\ frame.bytes = frame_map[p].bytes
        /\ frame.dirty = frame_map[p].dirty
        /\ frame.pin_count = frame_map[p].pin_count
  BY <1>1, FixFrame
<1>3. /\ is_clock' = is_clock /\ frame_slots' = frame_slots /\ clock_hand' = clock_hand
      /\ lru_list' = lru_list /\ disk' = disk /\ used' = used
      /\ held' = held /\ unmarked' = unmarked /\ owners' = owners
  BY DEF SetFixedPin, deviceVars, clientVars
<1>4. /\ frame_map' \in [BlockIds -> BufferFrame \cup {NoFrame}]
      /\ frame_map'[p] = frame
      /\ \A q \in BlockIds \ {p} : frame_map'[q] = frame_map[q]
      /\ Resident' = Resident
      /\ Bookkeeping'
  BY <1>1, <1>2, <1>3, ReplaceFrameFacts
<1>5. TypeOK'
  BY <1>1, <1>3, <1>4 DEF TypeOK, NULL_BLOCK
<1>6. PageInv(p)'
  BY <1>1, <1>2, <1>3, <1>4 DEF PageInv
<1>7. ASSUME NEW q \in BlockIds \ {p} PROVE PageInv(q)'
  BY <1>3, <1>4, SamePage DEF IInv
<1> QED BY <1>4, <1>5, <1>6, <1>7 DEF IInv

\* What flush_all does to every page.
LEMMA FlushAllFacts ==
  ASSUME TypeOK, FlushAll
  PROVE  /\ disk' \in [BlockIds -> Bytes] /\ used' \in SUBSET BlockIds
         /\ frame_map' \in [BlockIds -> BufferFrame \cup {NoFrame}]
         /\ Resident' = Resident
         /\ \A q \in BlockIds :
              LET written == q \in Resident /\ frame_map[q].dirty
              IN  /\ disk'[q] = IF written THEN frame_map[q].bytes ELSE disk[q]
                  /\ q \in used' <=> q \in used \/ written
         /\ \A q \in Resident :
              /\ frame_map'[q].bytes = frame_map[q].bytes
              /\ ~frame_map'[q].dirty
              /\ frame_map'[q].pin_count = frame_map[q].pin_count
<1>1. Resident \in SUBSET Resident /\ WriteDirty(Resident)
  BY DEF FlushAll
<1>2. /\ disk' \in [BlockIds -> Bytes] /\ used' \in SUBSET BlockIds
      /\ \A q \in BlockIds :
           LET written == q \in Resident /\ frame_map[q].dirty
           IN  /\ disk'[q] = IF written THEN frame_map[q].bytes ELSE disk[q]
               /\ q \in used' <=> q \in used \/ written
  BY <1>1, WriteDirtyFacts
<1> DEFINE cleaned(q) == [frame_map[q] EXCEPT !.dirty = FALSE]
<1>3. frame_map' = [q \in BlockIds |-> IF q \in Resident THEN cleaned(q) ELSE NoFrame]
  BY DEF FlushAll
<1>4. ASSUME NEW q \in Resident
      PROVE  /\ cleaned(q) \in BufferFrame
             /\ cleaned(q).bytes = frame_map[q].bytes
             /\ ~cleaned(q).dirty
             /\ cleaned(q).pin_count = frame_map[q].pin_count
  <2>1. frame_map[q] \in BufferFrame
    BY <1>1 DEF TypeOK, Resident
  <2> QED BY <2>1 DEF BufferFrame
<1> HIDE DEF cleaned
<1>5. \A q \in BlockIds : frame_map'[q] = IF q \in Resident THEN cleaned(q) ELSE NoFrame
  BY <1>3
<1>6. frame_map' \in [BlockIds -> BufferFrame \cup {NoFrame}]
  BY <1>3, <1>4
<1>7. Resident' = Resident
  BY <1>4, <1>5, NoFrameAssumption DEF Resident
<1>8. \A q \in Resident : frame_map'[q] = cleaned(q)
  BY <1>5 DEF Resident
<1> QED BY <1>2, <1>4, <1>6, <1>7, <1>8

\* flush_all keeps the invariant.
LEMMA FlushAllIInv ==
  ASSUME IInv, FlushAll
  PROVE  IInv'
<1>1. /\ disk' \in [BlockIds -> Bytes] /\ used' \in SUBSET BlockIds
      /\ frame_map' \in [BlockIds -> BufferFrame \cup {NoFrame}]
      /\ Resident' = Resident
      /\ \A q \in BlockIds :
           LET written == q \in Resident /\ frame_map[q].dirty
           IN  /\ disk'[q] = IF written THEN frame_map[q].bytes ELSE disk[q]
               /\ q \in used' <=> q \in used \/ written
      /\ \A q \in Resident :
           /\ frame_map'[q].bytes = frame_map[q].bytes
           /\ ~frame_map'[q].dirty
           /\ frame_map'[q].pin_count = frame_map[q].pin_count
  BY FlushAllFacts DEF IInv
<1>2. UNCHANGED <<is_clock, frame_slots, lru_list, clock_hand, held, unmarked, owners>>
  BY DEF FlushAll, clientVars
<1>3. TypeOK'
  BY <1>1, <1>2 DEF IInv, TypeOK, NULL_BLOCK
<1>4. Bookkeeping'
  BY <1>1, <1>2 DEF IInv, Bookkeeping, NULL_BLOCK
<1>5. ASSUME NEW q \in BlockIds PROVE PageInv(q)'
  <2>1. PageInv(q)
    BY DEF IInv
  <2>2. CASE q \in Resident
    <3>1. frame_map[q].dirty \in BOOLEAN
      BY <2>2 DEF IInv, TypeOK, Resident, BufferFrame
    <3> QED BY <1>1, <1>2, <2>1, <2>2, <3>1 DEF PageInv
  <2>3. CASE q \notin Resident
    BY <1>1, <1>2, <2>1, <2>3 DEF PageInv
  <2> QED BY <2>2, <2>3
<1> QED BY <1>3, <1>4, <1>5 DEF IInv

\* clear keeps the invariant.
LEMMA ClearIInv ==
  ASSUME IInv, Clear
  PROVE  IInv'
<1>1. Resident' = {}
  BY DEF Clear, Resident
<1>2. 0 \in Slots
  BY BufferManagerAssumption DEF Slots
<1>3. owners' \in [BlockIds -> Nat]
  BY DEF Clear, IInv, TypeOK
<1>4. TypeOK'
  BY <1>2, <1>3 DEF Clear, IInv, TypeOK, deviceVars, NULL_BLOCK
<1>5. Bookkeeping'
  BY <1>1 DEF Clear, Bookkeeping, IsInjective, Range, NULL_BLOCK
<1>6. ASSUME NEW q \in BlockIds PROVE PageInv(q)'
  <2>1. PageInv(q) /\ held[q] = 0
    BY DEF IInv, Clear, Idle
  <2>2. /\ disk' = disk /\ used' = used /\ held' = held /\ unmarked' = {}
        /\ owners'[q] = IF q \in used THEN owners[q] ELSE 0
    BY DEF Clear, deviceVars
  <2> QED BY <1>1, <2>1, <2>2 DEF PageInv
<1> QED BY <1>4, <1>5, <1>6 DEF IInv
-----------------------------------------------------------------------------
(* The theorems.                                                           *)

\* Every operation of the pool keeps the inductive invariant.
THEOREM NextIInv == IInv /\ [Next]_vars => IInv'
<1> SUFFICES ASSUME IInv, [Next]_vars PROVE IInv'
  OBVIOUS
<1>1. ASSUME NEW p \in BlockIds, LoadPinHit(p) PROVE IInv'
  BY <1>1, HitIInv
<1>2. ASSUME NEW p \in BlockIds, LoadPinMiss(p) PROVE IInv'
  BY <1>2, MissIInv
<1>3. ASSUME NEW p \in BlockIds, ReturnEarly(p) PROVE IInv'
  BY <1>3, ReturnEarlyIInv
<1>4. ASSUME NEW p \in BlockIds, NEW v \in Bytes \ {Zero}, WriteFrame(p, v) PROVE IInv'
  BY <1>4, WriteFrameIInv
<1>5. ASSUME NEW p \in BlockIds, NEW is_dirty \in BOOLEAN, FreeUnpin(p, is_dirty) PROVE IInv'
  BY <1>5, FreeUnpinIInv
<1>6. ASSUME NEW p \in BlockIds, NEW value \in BOOLEAN, SetFixedPin(p, value) PROVE IInv'
  BY <1>6, SetFixedPinIInv
<1>7. CASE LoadPinThrows
  BY <1>7, UnwindIInv DEF LoadPinThrows
<1>8. CASE LoadPinInvalid
  BY <1>8, InvalidIInv
<1>9. CASE GetLoadFreeFrame
  BY <1>9, NewPageIInv
<1>10. CASE GetLoadFreeFrameThrows
  BY <1>10, UnwindIInv DEF GetLoadFreeFrameThrows
<1>11. CASE FlushAll
  BY <1>11, FlushAllIInv
<1>12. CASE Clear
  BY <1>12, ClearIInv
<1>13. CASE UNCHANGED vars
  <2>1. \A q \in BlockIds : held[q] \in Nat
    BY DEF IInv, TypeOK
  <2> QED BY <1>13, <2>1, FewerReferences DEF vars, clientVars, IInv, TypeOK
<1> QED BY <1>1, <1>2, <1>3, <1>4, <1>5, <1>6, <1>7, <1>8, <1>9, <1>10, <1>11, <1>12, <1>13
        DEF Next

\* The inductive invariant holds in every reachable state.
THEOREM AlwaysIInv == Spec => []IInv
  BY InitIInv, NextIInv, PTL DEF Spec

\* Every variable keeps its type, for every disk and every number of frames.
THEOREM TypeCorrect == Spec => []TypeOK
<1>1. IInv => TypeOK
  BY DEF IInv
<1> QED BY <1>1, AlwaysIInv, PTL

\* frame_map, frame_slots and lru_list never disagree, whatever the order of loads,
\* evictions and errors: each page in the pool has one slot and one place in the list.
THEOREM BookkeepingHolds == Spec => []Bookkeeping
<1>1. IInv => Bookkeeping
  BY DEF IInv
<1> QED BY <1>1, AlwaysIInv, PTL

\* evict_page can drop a clean frame without writing it: it holds what the disk holds.
THEOREM CleanFramesMatchDisk == Spec => []CleanMatchesDisk
  BY IInvParts, AlwaysIInv, PTL

\* The pin of a reference an operation still has, and of a page changed and not marked
\* dirty yet, is never gone: such a page cannot be evicted.
THEOREM HeldPagesArePinned == Spec => []HeldArePinned
  BY IInvParts, AlwaysIInv, PTL

\* get_load_free_frame never gives the same page to two structures, even when the first
\* one is still only in the pool.
THEOREM NewPagesAreFree == Spec => []SingleOwner
  BY IInvParts, AlwaysIInv, PTL

\* A page a structure was given stays reserved for it, on the disk or in the pool.
THEOREM OwnedPagesAreKept == Spec => []OwnedIsKept
  BY IInvParts, AlwaysIInv, PTL

\* A page get_load_free_frame gives holds zeros.
THEOREM NewPagesAreZero == Spec => []FreeBlocksAreZero
  BY IInvParts, AlwaysIInv, PTL

\* load_pin_page's size test and load_page's slot search never disagree: "Error en
\* eviction" is not thrown.
THEOREM RoomHasFreeSlot == Spec => []RoomMeansFreeSlot
<1>1. ASSUME TypeOK, Bookkeeping, HasRoom PROVE \E s \in Slots : frame_slots[s] = NULL_BLOCK
  <2> SUFFICES ASSUME \A s \in Slots : frame_slots[s] # NULL_BLOCK PROVE FALSE
    OBVIOUS
  <2>1. frame_slots \in Injection(Slots, Resident)
    BY <1>1 DEF TypeOK, Bookkeeping, Injection, IsInjective
  <2>2. IsFiniteSet(BlockIds)
    BY FS_Interval, BlockDeviceAssumption DEF BlockIds
  <2>3. IsFiniteSet(Resident)
    BY <2>2, FS_Subset DEF Resident
  <2>4. Cardinality(Slots) <= Cardinality(Resident)
    BY <2>1, <2>3, FS_Injection
  <2>5. Cardinality(Slots) = capacity
    <3>1. capacity \in Nat \ {0}
      BY BufferManagerAssumption
    <3>2. Cardinality(0 .. capacity - 1) = IF 0 > capacity - 1 THEN 0 ELSE capacity - 1 - 0 + 1
      BY <3>1, FS_Interval
    <3> QED BY <3>1, <3>2 DEF Slots
  <2>6. Cardinality(Resident) \in Nat
    BY <2>3, FS_CardinalityType
  <2> QED BY <1>1, <2>4, <2>5, <2>6, BufferManagerAssumption DEF HasRoom
<1>2. IInv => RoomMeansFreeSlot
  BY <1>1 DEF IInv, RoomMeansFreeSlot
<1> QED BY <1>2, AlwaysIInv, PTL
-----------------------------------------------------------------------------
(* The buffer pool is a page store, and keeps its pinned pages: what every *)
(* step of it does to what readers see and to the disk.                    *)

\* An eviction or a load leaves each page as it was or drops one that can go.
LEMMA PoolSteps ==
  ASSUME IInv, NEW p \in BlockIds, Miss(p)
  PROVE  \A q \in BlockIds :
           /\ disk'[q] = disk[q] /\ q \notin Resident /\ q \in Resident'
              /\ frame_map'[q].bytes = disk[q]
           \/ Kept(q) \/ Dropped(q)
<1>1. TypeOK /\ Bookkeeping /\ p \notin Resident
  BY DEF IInv, Miss
<1>2. /\ NewFrame(p) \in BufferFrame /\ frame_map'[p] = NewFrame(p) /\ disk'[p] = disk[p]
      /\ \A q \in BlockIds \ {p} : Kept(q) \/ Dropped(q)
  BY <1>1, MissFacts
<1>3. p \in Resident' /\ frame_map'[p].bytes = disk[p]
  BY <1>2, NoFrameAssumption DEF Resident, NewFrame
<1> QED BY <1>1, <1>2, <1>3

\* A reader of a page that is kept or dropped sees what it saw, and the disk holds
\* what it held or what the reader sees.
LEMMA ReaderOfPoolStep ==
  ASSUME IInv, NEW q \in BlockIds, Kept(q) \/ Dropped(q)
  PROVE  /\ PageView'[q] = PageView[q]
         /\ disk'[q] \in {disk[q], PageView[q]}
         /\ q \in Resident /\ (frame_map[q].pin_count > 0 \/ frame_map[q].fixed_pin)
              => q \in Resident'
<1> USE NoFrameAssumption
<1>1. /\ frame_map[q] \in BufferFrame \cup {NoFrame}
      /\ q \in Resident <=> frame_map[q] # NoFrame
      /\ q \in Resident' <=> frame_map'[q] # NoFrame
      /\ PageInv(q)
  BY DEF IInv, TypeOK, Resident
<1>2. /\ PageView[q] = IF q \in Resident THEN frame_map[q].bytes ELSE disk[q]
      /\ PageView'[q] = IF q \in Resident' THEN frame_map'[q].bytes ELSE disk'[q]
  BY DEF PageView, BlockIds
<1>3. CASE Kept(q)
  BY <1>1, <1>2, <1>3 DEF Kept, Alike
<1>4. CASE Dropped(q)
  <2>1. /\ q \in Resident /\ q \notin Resident'
        /\ frame_map[q].pin_count = 0 /\ ~frame_map[q].fixed_pin
        /\ disk'[q] = IF frame_map[q].dirty THEN frame_map[q].bytes ELSE disk[q]
    BY <1>1, <1>4 DEF Dropped, Evictable
  <2>2. q \notin unmarked
    BY <1>1, <2>1 DEF PageInv
  <2>3. ~frame_map[q].dirty => frame_map[q].bytes = disk[q]
    BY <1>1, <2>1, <2>2 DEF PageInv
  <2> QED BY <1>2, <2>1, <2>3
<1> QED BY <1>3, <1>4

\* A step that keeps the disk and the bytes and presence of every frame.
Quiet ==
  /\ disk' = disk
  /\ Resident' = Resident
  /\ \A q \in Resident : frame_map'[q].bytes = frame_map[q].bytes

\* Taking, losing and returning references and fixing pages leave bytes and disk alone.
LEMMA QuietSteps ==
  ASSUME IInv,
         \/ \E p \in BlockIds :
              \/ LoadPinHit(p)
              \/ ReturnEarly(p)
              \/ \E is_dirty \in BOOLEAN : FreeUnpin(p, is_dirty)
              \/ \E value \in BOOLEAN : SetFixedPin(p, value)
         \/ LoadPinThrows
         \/ GetLoadFreeFrameThrows
         \/ UNCHANGED vars
  PROVE  Quiet
<1> USE NoFrameAssumption
<1>1. /\ frame_map \in [BlockIds -> BufferFrame \cup {NoFrame}]
      /\ Resident' = {q \in BlockIds : frame_map'[q] # NoFrame}
      /\ Resident = {q \in BlockIds : frame_map[q] # NoFrame}
  BY DEF IInv, TypeOK, Resident, BlockIds
<1>2. ASSUME NEW p \in Resident, NEW frame, frame \in BufferFrame,
             frame.bytes = frame_map[p].bytes, disk' = disk,
             frame_map' = [frame_map EXCEPT ![p] = frame]
      PROVE  Quiet
  <2>1. /\ frame_map'[p] = frame
        /\ \A q \in BlockIds \ {p} : frame_map'[q] = frame_map[q]
        /\ p \in BlockIds
    BY <1>1, <1>2
  <2> QED BY <1>1, <1>2, <2>1 DEF Quiet
<1>3. TypeOK
  BY DEF IInv
<1>4. CASE UNCHANGED <<disk, frame_map>>
  BY <1>1, <1>4 DEF Quiet
<1>5. ASSUME NEW p \in BlockIds, LoadPinHit(p) PROVE Quiet
  BY <1>2, <1>3, <1>5, HitFrame DEF LoadPinHit, deviceVars
<1>6. ASSUME NEW p \in BlockIds, NEW is_dirty \in BOOLEAN, FreeUnpin(p, is_dirty) PROVE Quiet
  BY <1>2, <1>3, <1>6, UnpinFrame DEF FreeUnpin, deviceVars
<1>7. ASSUME NEW p \in BlockIds, NEW value \in BOOLEAN, SetFixedPin(p, value) PROVE Quiet
  BY <1>2, <1>3, <1>7, FixFrame DEF SetFixedPin, deviceVars
<1>8. ASSUME NEW p \in BlockIds, ReturnEarly(p) PROVE Quiet
  BY <1>4, <1>8 DEF ReturnEarly, deviceVars, poolVars
<1>9. CASE LoadPinThrows \/ GetLoadFreeFrameThrows \/ UNCHANGED vars
  BY <1>4, <1>9 DEF LoadPinThrows, GetLoadFreeFrameThrows, vars, deviceVars, poolVars
<1> QED BY <1>5, <1>6, <1>7, <1>8, <1>9

\* Readers see no difference after a quiet step.
LEMMA QuietReader ==
  ASSUME IInv, Quiet
  PROVE  PageView' = PageView
<1>1. ASSUME NEW q \in BlockIds
      PROVE  (IF q \in Resident' THEN frame_map'[q].bytes ELSE disk'[q])
               = (IF q \in Resident THEN frame_map[q].bytes ELSE disk[q])
  BY DEF Quiet
<1> QED BY <1>1 DEF PageView, BlockIds

\* A page that is pinned or fixed stays through every step but the menu's clear.
THEOREM PinnedPagesStay == Spec => PinnedStays
<1> DEFINE Stays == \A p \in Resident :
             frame_map[p].pin_count > 0 \/ frame_map[p].fixed_pin => p \in Resident' \/ Clear
<1>1. ASSUME IInv, [Next]_vars PROVE Stays
  <2>1. ASSUME NEW p \in BlockIds, Miss(p) PROVE Stays
    BY <1>1, <2>1, PoolSteps, ReaderOfPoolStep DEF Resident
  <2>2. CASE LoadPinInvalid
    <3>1. \A q \in BlockIds : Kept(q) \/ Dropped(q)
      BY <1>1, <2>2, LoadPinInvalidFacts DEF IInv
    <3> QED BY <1>1, <3>1, ReaderOfPoolStep DEF Resident
  <2>3. ASSUME NEW p \in BlockIds, NEW v \in Bytes \ {Zero}, WriteFrame(p, v) PROVE Stays
    <3>1. Resident' = Resident
      BY <1>1, <2>3, WriteFrameFacts
    <3> QED BY <3>1
  <2>4. CASE FlushAll
    <3>1. Resident' = Resident
      BY <1>1, <2>4, FlushAllFacts DEF IInv
    <3> QED BY <3>1
  <2>5. CASE Clear
    BY <2>5
  <2>6. Quiet => Stays
    BY DEF Quiet
  <2> HIDE DEF Stays
  <2> QED BY <1>1, <2>1, <2>2, <2>3, <2>4, <2>5, <2>6, QuietSteps
          DEF Next, LoadPinMiss, GetLoadFreeFrame
<1>2. IInv /\ [Next]_vars => [Stays]_vars
  BY <1>1
<1> QED BY <1>2, AlwaysIInv, PTL DEF Spec, PinnedStays
-----------------------------------------------------------------------------
(* The refinement.                                                         *)

\* A load, an eviction with its write-back, and an eviction followed by an error,
\* write back and nothing else.
LEMMA PoolStepLends ==
  ASSUME IInv, disk' \in [BlockIds -> Bytes],
         \/ LoadPinInvalid
         \/ \E p \in BlockIds : Miss(p)
  PROVE  Store!Lend
<1>1. ASSUME NEW q \in BlockIds PROVE PageView'[q] = PageView[q] /\ disk'[q] \in {disk[q], PageView[q]}
  <2>1. CASE Kept(q) \/ Dropped(q)
    BY <2>1, ReaderOfPoolStep
  <2>2. CASE disk'[q] = disk[q] /\ q \notin Resident /\ q \in Resident' /\ frame_map'[q].bytes = disk[q]
    BY <2>2 DEF PageView, BlockIds
  <2>3. CASE LoadPinInvalid
    BY <2>1, <2>3, LoadPinInvalidFacts DEF IInv
  <2> QED BY <2>1, <2>2, <2>3, PoolSteps
<1>2. PageView' = PageView
  <2>1. /\ PageView = [q \in BlockIds |-> PageView[q]]
        /\ PageView' = [q \in BlockIds |-> PageView'[q]]
    BY DEF PageView, BlockIds
  <2> HIDE DEF PageView
  <2> QED BY <1>1, <2>1
<1> QED BY <1>1, <1>2 DEF Store!Lend, References, BlockIds

\* flush_all writes back and nothing else.
LEMMA FlushAllLends ==
  ASSUME IInv, FlushAll
  PROVE  Store!Lend
<1>1. /\ disk' \in [BlockIds -> Bytes] /\ Resident' = Resident
      /\ \A q \in BlockIds :
           disk'[q] = IF q \in Resident /\ frame_map[q].dirty THEN frame_map[q].bytes ELSE disk[q]
      /\ \A q \in Resident : frame_map'[q].bytes = frame_map[q].bytes
  <2>1. TypeOK
    BY DEF IInv
  <2> QED BY <2>1, FlushAllFacts
<1>2. \A q \in BlockIds \ Resident : disk'[q] = disk[q]
  BY <1>1
<1>3. ASSUME NEW q \in BlockIds
      PROVE  (IF q \in Resident' THEN frame_map'[q].bytes ELSE disk'[q])
               = (IF q \in Resident THEN frame_map[q].bytes ELSE disk[q])
  BY <1>1, <1>2
<1>4. PageView' = PageView
  BY <1>3 DEF PageView, BlockIds
<1>5. \A q \in BlockIds : disk'[q] \in {disk[q], PageView[q]}
  BY <1>1 DEF PageView
<1> QED BY <1>1, <1>4, <1>5 DEF Store!Lend, References, BlockIds

\* A quiet step takes or gives up references, if anything.
LEMMA QuietLends ==
  ASSUME IInv, Quiet
  PROVE  Store!Lend
<1>1. PageView' = PageView
  BY QuietReader
<1>2. disk' = disk /\ disk \in [BlockIds -> Bytes]
  BY DEF Quiet, IInv, TypeOK
<1> QED BY <1>1, <1>2 DEF Store!Lend, References, BlockIds

\* A change through a reference is a write of that page, for its readers.
LEMMA WriteFrameWrites ==
  ASSUME IInv, NEW p \in BlockIds, NEW v \in Bytes, WriteFrame(p, v)
  PROVE  Store!Write(p, v)
<1>1. /\ p \in Resident /\ Resident' = Resident
      /\ frame_map'[p].bytes = v
      /\ \A q \in BlockIds \ {p} : frame_map'[q] = frame_map[q]
  BY WriteFrameFacts
<1>2. disk' = disk
  BY DEF WriteFrame, deviceVars
<1>3. PageView' = [PageView EXCEPT ![p] = v]
  BY <1>1, <1>2 DEF PageView, BlockIds
<1>4. p \in References /\ References' = References
  BY DEF WriteFrame, References, BlockIds
<1> QED BY <1>2, <1>3, <1>4 DEF Store!Write

\* clear gives up what was not written, of all the pages at once.
LEMMA ClearDiscards ==
  ASSUME IInv, Clear
  PROVE  Store!Discard
<1>1. Resident' = {} /\ disk' = disk /\ disk \in [BlockIds -> Bytes]
  BY DEF Clear, Resident, deviceVars, IInv, TypeOK
<1>2. PageView' = disk
  BY <1>1 DEF PageView, BlockIds
<1>3. References = {} /\ References' = References
  BY DEF Clear, Idle, References, BlockIds
<1> QED BY <1>1, <1>2, <1>3 DEF Store!Discard

\* The pool implements the page store: replacement, write-back, pins and errors are
\* invisible to the readers of pages, and the disk never holds what no reader saw.
THEOREM RefinesPageStore == Spec => ImplementsPageStore
<1>1. Init => Store!Init
  <2> SUFFICES ASSUME Init PROVE Store!Init
    OBVIOUS
  <2>1. Resident = {} /\ disk \in [BlockIds -> Bytes]
    BY DEF Init, Resident
  <2>2. PageView = disk
    BY <2>1 DEF PageView
  <2>3. References = {}
    BY DEF Init, References
  <2> QED BY <2>1, <2>2, <2>3 DEF Store!Init
<1>2. IInv /\ IInv' /\ [Next]_vars => [Store!Next]_(Store!storeVars)
  <2> SUFFICES ASSUME IInv, IInv', [Next]_vars PROVE [Store!Next]_(Store!storeVars)
    OBVIOUS
  <2>1. disk' \in [BlockIds -> Bytes]
    BY DEF IInv, TypeOK, BlockIds
  <2>2. CASE LoadPinInvalid \/ \E p \in BlockIds : Miss(p)
    BY <2>1, <2>2, PoolStepLends DEF Store!Next
  <2>3. CASE FlushAll
    BY <2>3, FlushAllLends DEF Store!Next
  <2>4. CASE Clear
    BY <2>4, ClearDiscards DEF Store!Next
  <2>5. ASSUME NEW p \in BlockIds, NEW v \in Bytes \ {Zero}, WriteFrame(p, v)
        PROVE  Store!Next
    BY <2>5, WriteFrameWrites DEF Store!Next
  <2>6. CASE Quiet
    BY <2>6, QuietLends DEF Store!Next
  <2> QED BY <2>2, <2>3, <2>4, <2>5, <2>6, QuietSteps DEF Next, LoadPinMiss, GetLoadFreeFrame
<1>3. Spec => [][Next]_vars /\ Init
  BY PTL DEF Spec
<1> QED BY <1>1, <1>2, <1>3, AlwaysIInv, PTL DEF ImplementsPageStore, Store!Spec
-----------------------------------------------------------------------------
(* The loop of the clock, for ClockLoopAgrees.                             *)

\* How many slots a hand at h passes before it reaches s, and the slot after h.
Ahead(h, s) == (s - h) % capacity

NextSlot(h) == (h + 1) % capacity

LEMMA Remainders ==
  ASSUME NEW c \in Nat \ {0}, NEW x \in 0 .. c - 1
  PROVE  x % c = x /\ (x - c) % c = x /\ c % c = 0
OBVIOUS

LEMMA AheadIs ==
  ASSUME NEW h \in Slots, NEW s \in Slots
  PROVE  Ahead(h, s) = IF s >= h THEN s - h ELSE s - h + capacity
<1>1. capacity \in Nat \ {0} /\ h \in 0 .. capacity - 1 /\ s \in 0 .. capacity - 1
  BY BufferManagerAssumption DEF Slots
<1>2. CASE s >= h
  <2>1. s - h \in 0 .. capacity - 1
    BY <1>1, <1>2
  <2> QED BY <1>1, <1>2, <2>1, Remainders DEF Ahead
<1>3. CASE s < h
  <2>1. (s - h + capacity) \in 0 .. capacity - 1 /\ (s - h + capacity) - capacity = s - h
    BY <1>1, <1>3
  <2>2. ((s - h + capacity) - capacity) % capacity = s - h + capacity
    BY <1>1, <2>1, Remainders
  <2>3. (s - h) % capacity = s - h + capacity
    BY <2>1, <2>2
  <2>4. ~(s >= h)
    BY <1>1, <1>3
  <2> QED BY <2>3, <2>4 DEF Ahead
<1> QED BY <1>1, <1>2, <1>3

LEMMA AroundTheClock ==
  ASSUME NEW h \in Slots, NEW s \in Slots
  PROVE  /\ NextSlot(h) \in Slots
         /\ Ahead(h, s) \in 0 .. capacity - 1
         /\ Ahead(h, s) = 0 <=> s = h
         /\ Ahead(NextSlot(h), s) = IF s = h THEN capacity - 1 ELSE Ahead(h, s) - 1
<1>1. capacity \in Nat \ {0} /\ h \in 0 .. capacity - 1 /\ s \in 0 .. capacity - 1
  BY BufferManagerAssumption DEF Slots
<1>2. NextSlot(h) = IF h = capacity - 1 THEN 0 ELSE h + 1
  <2>1. CASE h = capacity - 1
    BY <1>1, <2>1, Remainders DEF NextSlot
  <2>2. CASE h # capacity - 1
    <3>1. h + 1 \in 0 .. capacity - 1
      BY <1>1, <2>2
    <3> QED BY <1>1, <2>2, <3>1, Remainders DEF NextSlot
  <2> QED BY <2>1, <2>2
<1>3. NextSlot(h) \in Slots
  BY <1>1, <1>2 DEF Slots
<1>4. Ahead(h, s) = IF s >= h THEN s - h ELSE s - h + capacity
  BY AheadIs
<1>5. Ahead(NextSlot(h), s) = IF s >= NextSlot(h) THEN s - NextSlot(h) ELSE s - NextSlot(h) + capacity
  BY <1>3, AheadIs
<1> QED BY <1>1, <1>2, <1>3, <1>4, <1>5

\* The slots whose page may go, and the one that does when the hand is at h and the slots in
\* bits have a reference bit; the bits the hand takes before, and how many slots it tries.
MayGo == {s \in Slots : Evictable(frame_slots[s])}

Goes(s, h, bits) ==
  /\ s \in MayGo
  /\ \A t \in MayGo \ {s} :
       IF s \in bits <=> t \in bits THEN Ahead(h, s) < Ahead(h, t) ELSE t \in bits

Taken(s, h, bits) == {t \in MayGo : s \in bits \/ Ahead(h, t) < Ahead(h, s)}

Outcome(s, h, bits) == [slot |-> s, bits |-> bits \ Taken(s, h, bits), hand |-> NextSlot(s)]

Tries(s, h, bits) == IF s \in bits THEN Ahead(h, s) + capacity ELSE Ahead(h, s)

\* The bits after a slot that was tried in vain.
BitsPast(h, bits) == IF h \in MayGo THEN bits \ {h} ELSE bits

\* The hand stops where the bit is gone, and at other slots it goes on with one try less.
LEMMA OneTry ==
  ASSUME NEW h \in Slots, NEW bits \in SUBSET Slots, NEW s, Goes(s, h, bits)
  PROVE  /\ Tries(s, h, bits) \in 0 .. 2 * capacity - 1
         /\ s = h /\ h \notin bits => Outcome(s, h, bits) = [slot |-> h, bits |-> bits, hand |-> NextSlot(h)]
         /\ ~(s = h /\ h \notin bits) =>
              /\ h \in MayGo => h \in bits
              /\ Goes(s, NextSlot(h), BitsPast(h, bits))
              /\ Tries(s, NextSlot(h), BitsPast(h, bits)) = Tries(s, h, bits) - 1
              /\ Outcome(s, NextSlot(h), BitsPast(h, bits)) = Outcome(s, h, bits)
<1> DEFINE next == NextSlot(h)
           past == BitsPast(h, bits)
<1>1. MayGo \in SUBSET Slots /\ s \in MayGo /\ capacity \in Nat \ {0}
  BY BufferManagerAssumption DEF Goes, MayGo
<1>2. /\ next \in Slots
      /\ \A t \in Slots :
           /\ Ahead(h, t) \in 0 .. capacity - 1
           /\ Ahead(h, t) = 0 <=> t = h
           /\ Ahead(next, t) = IF t = h THEN capacity - 1 ELSE Ahead(h, t) - 1
  BY AroundTheClock
<1>3. Tries(s, h, bits) \in 0 .. 2 * capacity - 1
  BY <1>1, <1>2 DEF Tries
<1>4. ASSUME s = h, h \notin bits
      PROVE  Outcome(s, h, bits) = [slot |-> h, bits |-> bits, hand |-> NextSlot(h)]
  <2>1. Taken(s, h, bits) = {}
    BY <1>1, <1>2, <1>4 DEF Taken
  <2> QED BY <1>4, <2>1 DEF Outcome
<1>5. ASSUME ~(s = h /\ h \notin bits)
      PROVE  /\ h \in MayGo => h \in bits
             /\ Goes(s, next, past)
             /\ Tries(s, next, past) = Tries(s, h, bits) - 1
             /\ Outcome(s, next, past) = Outcome(s, h, bits)
  <2> HIDE DEF next
  <2>1. \A t \in MayGo \ {s} : IF s \in bits <=> t \in bits THEN Ahead(h, s) < Ahead(h, t) ELSE t \in bits
    BY DEF Goes
  <2>2. h \in MayGo => h \in bits
    BY <1>1, <1>2, <1>5, <2>1
  <2>3. \A t \in MayGo : t \in past <=> t \in bits /\ t # h
    BY <2>2 DEF BitsPast
  <2>4. s \in bits /\ s # h => h \notin MayGo
    BY <1>1, <1>2, <2>1, <2>2
  <2> HIDE DEF past
  <2>5. Goes(s, next, past)
    <3> SUFFICES ASSUME NEW t \in MayGo \ {s}
                 PROVE  IF s \in past <=> t \in past THEN Ahead(next, s) < Ahead(next, t) ELSE t \in past
      BY <1>1 DEF Goes
    <3>0. s \in Slots /\ t \in Slots
      BY <1>1
    <3>1. CASE s = h
      <4>1. s \notin past /\ s \in bits
        BY <1>1, <1>5, <2>3, <3>1
      <4>2. t \in bits
        BY <2>1, <4>1
      <4> QED BY <2>3, <3>1, <4>1, <4>2
    <3>2. CASE s # h /\ t = h
      <4>1. s \notin bits /\ s \notin past /\ t \notin past
        BY <1>1, <2>3, <2>4, <3>2
      <4>2. Ahead(next, t) = capacity - 1 /\ Ahead(next, s) = Ahead(h, s) - 1
        BY <1>2, <3>0, <3>2
      <4>3. Ahead(h, s) \in 0 .. capacity - 1
        BY <1>2, <3>0
      <4> QED BY <1>1, <4>1, <4>2, <4>3
    <3>3. CASE s # h /\ t # h
      <4>1. (s \in past <=> s \in bits) /\ (t \in past <=> t \in bits)
        BY <1>1, <2>3, <3>3
      <4>2. Ahead(next, t) = Ahead(h, t) - 1 /\ Ahead(next, s) = Ahead(h, s) - 1
        BY <1>2, <3>0, <3>3
      <4>3. Ahead(h, s) \in 0 .. capacity - 1 /\ Ahead(h, t) \in 0 .. capacity - 1
        BY <1>2, <3>0
      <4> QED BY <1>1, <2>1, <4>1, <4>2, <4>3
    <3> QED BY <3>1, <3>2, <3>3
  <2>6. Tries(s, next, past) = Tries(s, h, bits) - 1
    <3>1. CASE s = h
      <4>1. s \in bits /\ s \notin past
        BY <1>1, <1>5, <2>3, <3>1
      <4> QED BY <1>1, <1>2, <3>1, <4>1 DEF Tries
    <3>2. CASE s # h
      <4>1. s \in past <=> s \in bits
        BY <1>1, <2>3, <3>2
      <4>2. Ahead(next, s) = Ahead(h, s) - 1 /\ Ahead(h, s) \in 0 .. capacity - 1
        BY <1>1, <1>2, <3>2
      <4> QED BY <1>1, <4>1, <4>2 DEF Tries
    <3> QED BY <3>1, <3>2
  <2>7. past \ Taken(s, next, past) = bits \ Taken(s, h, bits)
    <3> SUFFICES ASSUME NEW t
                 PROVE  t \in past /\ t \notin Taken(s, next, past) <=> t \in bits /\ t \notin Taken(s, h, bits)
      OBVIOUS
    <3>1. CASE t \notin MayGo
      <4>1. t \in past <=> t \in bits
        BY <3>1 DEF past, BitsPast
      <4> QED BY <3>1, <4>1 DEF Taken
    <3>2. CASE t \in MayGo
      <4>0. /\ s \in Slots /\ t \in Slots
            /\ t \in Taken(s, next, past) <=> s \in past \/ Ahead(next, t) < Ahead(next, s)
            /\ t \in Taken(s, h, bits) <=> s \in bits \/ Ahead(h, t) < Ahead(h, s)
            /\ Ahead(h, s) \in 0 .. capacity - 1 /\ Ahead(h, t) \in 0 .. capacity - 1
        BY <1>1, <1>2, <3>2 DEF Taken
      <4>1. CASE s = h
        <5>1. s \in bits /\ s \notin past /\ Ahead(next, s) = capacity - 1
          BY <1>1, <1>2, <1>5, <2>3, <4>1
        <5>2. CASE t = h
          BY <2>3, <3>2, <4>0, <4>1, <5>1, <5>2
        <5>3. CASE t # h
          <6>1. Ahead(next, t) = Ahead(h, t) - 1
            BY <1>2, <4>0, <5>3
          <6> QED BY <1>1, <4>0, <5>1, <6>1
        <5> QED BY <5>2, <5>3
      <4>2. CASE s # h /\ t = h
        <5>1. s \notin bits /\ t \notin past
          BY <2>3, <2>4, <3>2, <4>2, <1>1
        <5>2. Ahead(h, t) = 0 /\ Ahead(h, s) # 0
          BY <1>2, <4>0, <4>2
        <5> QED BY <4>0, <5>1, <5>2
      <4>3. CASE s # h /\ t # h
        <5>1. (s \in past <=> s \in bits) /\ (t \in past <=> t \in bits)
          BY <1>1, <2>3, <3>2, <4>3
        <5>2. Ahead(next, t) = Ahead(h, t) - 1 /\ Ahead(next, s) = Ahead(h, s) - 1
          BY <1>2, <4>0, <4>3
        <5> QED BY <4>0, <5>1, <5>2
      <4> QED BY <4>1, <4>2, <4>3
    <3> QED BY <3>1, <3>2
  <2>8. Outcome(s, next, past) = Outcome(s, h, bits)
    BY <2>7 DEF Outcome
  <2> QED BY <2>2, <2>5, <2>6, <2>8
<1> QED BY <1>3, <1>4, <1>5

\* The body of the loop.
LoopBody(f) ==
  [at \in LoopStates |->
    LET next == [at EXCEPT !.hand = (@ + 1) % capacity]
        tried == [next EXCEPT !.attempts = @ + 1]
    IN  IF at.attempts = 10 * capacity
          THEN [slot |-> capacity, bits |-> at.bits, hand |-> at.hand]
        ELSE IF frame_slots[at.hand] = NULL_BLOCK
          THEN f[next]
        ELSE IF ~Evictable(frame_slots[at.hand])
          THEN f[tried]
        ELSE IF at.hand \in at.bits
          THEN f[[tried EXCEPT !.bits = @ \ {at.hand}]]
        ELSE [slot |-> at.hand, bits |-> at.bits, hand |-> next.hand]]

LEMMA LoopMeans == evict_page_Clock = CHOOSE f : f = LoopBody(f)
BY DEF evict_page_Clock, LoopBody

SlotsAreTaken == \A s \in Slots : frame_slots[s] # NULL_BLOCK

At(attempts, hand, bits) == [attempts |-> attempts, hand |-> hand, bits |-> bits]

\* One turn of the loop over a full pool, the turns after it having the values of f.
Turn(f, a, h, bits) ==
  IF a = 10 * capacity THEN [slot |-> capacity, bits |-> bits, hand |-> h]
  ELSE IF h \in MayGo /\ h \notin bits THEN [slot |-> h, bits |-> bits, hand |-> NextSlot(h)]
  ELSE f[At(a + 1, NextSlot(h), BitsPast(h, bits))]

LEMMA LoopBodyAt ==
  ASSUME SlotsAreTaken, NEW f, NEW a \in 0 .. 10 * capacity, NEW h \in Slots,
         NEW bits \in SUBSET Slots
  PROVE  LoopBody(f)[At(a, h, bits)] = Turn(f, a, h, bits)
<1> DEFINE at == At(a, h, bits)
           next == [at EXCEPT !.hand = (@ + 1) % capacity]
           tried == [next EXCEPT !.attempts = @ + 1]
<1>1. at \in LoopStates /\ at.attempts = a /\ at.hand = h /\ at.bits = bits
  BY DEF At, LoopStates
<1>2. next = At(a, NextSlot(h), bits) /\ next.hand = NextSlot(h)
  BY DEF At, NextSlot
<1>3. tried = At(a + 1, NextSlot(h), bits)
  <2>1. tried = [At(a, NextSlot(h), bits) EXCEPT !.attempts = @ + 1]
    BY <1>2
  <2> QED BY <2>1 DEF At
<1>4. [tried EXCEPT !.bits = @ \ {h}] = At(a + 1, NextSlot(h), bits \ {h})
  <2>1. [At(a + 1, NextSlot(h), bits) EXCEPT !.bits = @ \ {h}] = At(a + 1, NextSlot(h), bits \ {h})
    BY DEF At
  <2> HIDE DEF tried
  <2> QED BY <1>3, <2>1
<1>5. h \in MayGo <=> Evictable(frame_slots[h])
  BY DEF MayGo
<1>6. LoopBody(f)[at] =
        IF at.attempts = 10 * capacity
          THEN [slot |-> capacity, bits |-> at.bits, hand |-> at.hand]
        ELSE IF frame_slots[at.hand] = NULL_BLOCK
          THEN f[next]
        ELSE IF ~Evictable(frame_slots[at.hand])
          THEN f[tried]
        ELSE IF at.hand \in at.bits
          THEN f[[tried EXCEPT !.bits = @ \ {at.hand}]]
        ELSE [slot |-> at.hand, bits |-> at.bits, hand |-> next.hand]
  <2> HIDE DEF at
  <2> QED BY <1>1, Zenon DEF LoopBody
<1> HIDE DEF at, next, tried
<1>7. LoopBody(f)[at] =
        IF a = 10 * capacity
          THEN [slot |-> capacity, bits |-> bits, hand |-> h]
        ELSE IF h \notin MayGo
          THEN f[At(a + 1, NextSlot(h), bits)]
        ELSE IF h \in bits
          THEN f[At(a + 1, NextSlot(h), bits \ {h})]
        ELSE [slot |-> h, bits |-> bits, hand |-> NextSlot(h)]
  <2>1. frame_slots[h] # NULL_BLOCK
    BY DEF SlotsAreTaken
  <2> QED BY ONLY <1>1, <1>2, <1>3, <1>4, <1>5, <1>6, <2>1
<1>8. BitsPast(h, bits) = IF h \in MayGo THEN bits \ {h} ELSE bits
  BY DEF BitsPast
<1> QED BY <1>7, <1>8 DEF at, Turn

\* On a full pool the loop has a function, since every turn is an attempt.
LEMMA LoopIs ==
  ASSUME SlotsAreTaken
  PROVE  evict_page_Clock = LoopBody(evict_page_Clock)
<1> DEFINE P == LoopStates
           V == [slot : 0 .. capacity, bits : SUBSET Slots, hand : Slots]
           N == 10 * capacity
           start == [slot |-> capacity, bits |-> {}, hand |-> 0]
           rank == [at \in P |-> N - at.attempts]
           body == [f \in [P -> V] |-> LoopBody(f)]
<1>1. capacity \in Nat \ {0} /\ N \in Nat /\ 0 \in Slots /\ Slots \in SUBSET (0 .. capacity)
  BY BufferManagerAssumption DEF Slots
<1>2. start \in V
  BY <1>1
<1>3. ASSUME NEW at \in P
      PROVE  /\ at = At(at.attempts, at.hand, at.bits)
             /\ at.attempts \in 0 .. N /\ at.hand \in Slots /\ at.bits \in SUBSET Slots
             /\ rank[at] \in 0 .. N /\ rank[at] = N - at.attempts
             /\ NextSlot(at.hand) \in Slots /\ BitsPast(at.hand, at.bits) \in SUBSET Slots
  <2>1. at = At(at.attempts, at.hand, at.bits) /\ at.attempts \in 0 .. N /\ at.hand \in Slots /\ at.bits \in SUBSET Slots
    BY DEF LoopStates, At
  <2>2. rank[at] = N - at.attempts
    OBVIOUS
  <2>3. NextSlot(at.hand) \in Slots
    BY <2>1, AroundTheClock
  <2>4. BitsPast(at.hand, at.bits) \in SUBSET Slots
    BY <2>1 DEF BitsPast
  <2> QED BY <1>1, <2>1, <2>2, <2>3, <2>4
<1>4. ASSUME NEW at \in P, at.attempts # N
      PROVE  /\ At(at.attempts + 1, NextSlot(at.hand), BitsPast(at.hand, at.bits)) \in P
             /\ rank[At(at.attempts + 1, NextSlot(at.hand), BitsPast(at.hand, at.bits))] < rank[at]
  <2> DEFINE after == At(at.attempts + 1, NextSlot(at.hand), BitsPast(at.hand, at.bits))
  <2>1. at.attempts + 1 \in 0 .. N
    BY <1>1, <1>3, <1>4
  <2>2. after \in P /\ after.attempts = at.attempts + 1
    BY <1>3, <2>1 DEF LoopStates, At
  <2> HIDE DEF after, P
  <2>3. rank[after] = N - (at.attempts + 1)
    BY <1>3, <2>2
  <2>4. rank[at] = N - at.attempts /\ at.attempts \in 0 .. N
    BY <1>3
  <2>5. rank[after] < rank[at]
    BY <1>1, <2>3, <2>4
  <2> QED BY <2>2, <2>5 DEF after
<1>5. ASSUME NEW at \in P, NEW f
      PROVE  LoopBody(f)[at] =
               IF at.attempts = N THEN [slot |-> capacity, bits |-> at.bits, hand |-> at.hand]
               ELSE IF at.hand \in MayGo /\ at.hand \notin at.bits
                 THEN [slot |-> at.hand, bits |-> at.bits, hand |-> NextSlot(at.hand)]
               ELSE f[At(at.attempts + 1, NextSlot(at.hand), BitsPast(at.hand, at.bits))]
  <2> DEFINE a == at.attempts
             h == at.hand
             bits == at.bits
  <2>1. at = At(a, h, bits) /\ a \in 0 .. 10 * capacity /\ h \in Slots /\ bits \in SUBSET Slots
    BY <1>3
  <2> HIDE DEF a, h, bits, P
  <2>2. LoopBody(f)[At(a, h, bits)] = Turn(f, a, h, bits)
    BY <2>1, LoopBodyAt
  <2> QED BY <2>1, <2>2, Zenon DEF a, h, bits, Turn
<1>6. \A f : LoopBody(f) = [at \in P |-> LoopBody(f)[at]]
  BY DEF LoopBody
<1>7. ASSUME NEW f \in [P -> V], NEW at \in P PROVE LoopBody(f)[at] \in V
  <2>1. CASE at.attempts = N
    <3>1. [slot |-> capacity, bits |-> at.bits, hand |-> at.hand] \in V
      BY <1>1, <1>3
    <3> QED BY <1>5, <2>1, <3>1
  <2>2. CASE at.attempts # N /\ at.hand \in MayGo /\ at.hand \notin at.bits
    <3>1. [slot |-> at.hand, bits |-> at.bits, hand |-> NextSlot(at.hand)] \in V
      BY <1>1, <1>3
    <3> QED BY <1>5, <2>2, <3>1
  <2>3. CASE at.attempts # N /\ ~(at.hand \in MayGo /\ at.hand \notin at.bits)
    <3>1. f[At(at.attempts + 1, NextSlot(at.hand), BitsPast(at.hand, at.bits))] \in V
      BY <1>4, <2>3
    <3> QED BY <1>5, <2>3, <3>1
  <2> QED BY <2>1, <2>2, <2>3
<1>8. body \in [[P -> V] -> [P -> V]] /\ \A f \in [P -> V] : body[f] = LoopBody(f)
  <2>1. \A f \in [P -> V] : LoopBody(f) \in [P -> V]
    BY <1>6, <1>7
  <2> HIDE DEF P, V
  <2> QED BY <2>1
<1>9. rank \in [P -> 0 .. N]
  BY <1>3
<1>10. IsRecursion(body, P, V, N, rank)
  <2> SUFFICES ASSUME NEW at \in P, NEW f \in [P -> V], NEW g \in [P -> V],
                      \A q \in P : rank[q] < rank[at] => f[q] = g[q]
               PROVE  body[f][at] = body[g][at]
    BY <1>8, <1>9 DEF IsRecursion
  <2>1. at.attempts # N =>
          f[At(at.attempts + 1, NextSlot(at.hand), BitsPast(at.hand, at.bits))]
            = g[At(at.attempts + 1, NextSlot(at.hand), BitsPast(at.hand, at.bits))]
    BY <1>4
  <2> HIDE DEF P, V, body, rank, N
  <2>2. LoopBody(f)[at] = LoopBody(g)[at]
    BY <1>5, <2>1
  <2> QED BY <1>8, <2>2
<1> HIDE DEF P, V, N, rank, body, start
<1>11. PICK f : IsDefinedBy(f, body, P, V)
  BY <1>1, <1>2, <1>10, RecursionHasFunction
<1>12. f = LoopBody(f)
  BY <1>8, <1>11 DEF IsDefinedBy
<1> QED BY <1>12, LoopMeans, Zenon

\* What the loop comes to: the slot that goes, or none.
LEMMA LoopFindsVictim ==
  ASSUME SlotsAreTaken, NEW h \in Slots, NEW bits \in SUBSET Slots, NEW s, Goes(s, h, bits)
  PROVE  evict_page_Clock[At(0, h, bits)] = Outcome(s, h, bits)
<1> DEFINE Found(k) ==
             \A i \in Slots : \A B \in SUBSET Slots : \A a \in 0 .. 10 * capacity :
               Goes(s, i, B) /\ Tries(s, i, B) = k /\ a + k < 10 * capacity =>
                 evict_page_Clock[At(a, i, B)] = Outcome(s, i, B)
           good == {k \in 0 .. 2 * capacity - 1 : Found(k)}
<1>1. capacity \in Nat \ {0} /\ 2 * capacity - 1 \in Nat
  BY BufferManagerAssumption
<1>2. ASSUME NEW i \in Slots, NEW B \in SUBSET Slots, NEW a \in 0 .. 10 * capacity - 1
      PROVE  evict_page_Clock[At(a, i, B)] =
               IF i \in MayGo /\ i \notin B THEN [slot |-> i, bits |-> B, hand |-> NextSlot(i)]
               ELSE evict_page_Clock[At(a + 1, NextSlot(i), BitsPast(i, B))]
  <2>1. a \in 0 .. 10 * capacity /\ a # 10 * capacity
    BY <1>1
  <2>2. evict_page_Clock[At(a, i, B)] = LoopBody(evict_page_Clock)[At(a, i, B)]
    BY LoopIs
  <2>3. LoopBody(evict_page_Clock)[At(a, i, B)] = Turn(evict_page_Clock, a, i, B)
    BY <2>1, LoopBodyAt
  <2> QED BY <2>1, <2>2, <2>3, Zenon DEF Turn
<1>3. ASSUME NEW k \in 0 .. 2 * capacity - 1, k = 0 \/ Found(k - 1) PROVE Found(k)
  <2> SUFFICES ASSUME NEW i \in Slots, NEW B \in SUBSET Slots, NEW a \in 0 .. 10 * capacity,
                      Goes(s, i, B), Tries(s, i, B) = k, a + k < 10 * capacity
               PROVE  evict_page_Clock[At(a, i, B)] = Outcome(s, i, B)
    OBVIOUS
  <2>1. a \in 0 .. 10 * capacity - 1
    BY <1>1
  <2>2. CASE s = i /\ i \notin B
    <3>1. i \in MayGo
      BY <2>2 DEF Goes
    <3>2. Outcome(s, i, B) = [slot |-> i, bits |-> B, hand |-> NextSlot(i)]
      BY <2>2, OneTry
    <3> QED BY <1>2, <2>1, <2>2, <3>1, <3>2
  <2>3. CASE ~(s = i /\ i \notin B)
    <3> DEFINE next == NextSlot(i)
               past == BitsPast(i, B)
    <3>1. /\ i \in MayGo => i \in B
          /\ Goes(s, next, past)
          /\ Tries(s, next, past) = k - 1
          /\ Outcome(s, next, past) = Outcome(s, i, B)
          /\ Tries(s, next, past) \in 0 .. 2 * capacity - 1
      <4>1. /\ i \in MayGo => i \in B
            /\ Goes(s, next, past)
            /\ Tries(s, next, past) = Tries(s, i, B) - 1
            /\ Outcome(s, next, past) = Outcome(s, i, B)
        BY <2>3, OneTry
      <4>2. next \in Slots /\ past \in SUBSET Slots
        BY AroundTheClock DEF BitsPast
      <4>3. Tries(s, next, past) \in 0 .. 2 * capacity - 1
        BY <4>1, <4>2, OneTry
      <4> QED BY <4>1, <4>3
    <3>2. next \in Slots /\ past \in SUBSET Slots
      BY AroundTheClock DEF BitsPast
    <3>3. evict_page_Clock[At(a, i, B)] = evict_page_Clock[At(a + 1, next, past)]
      BY <1>2, <2>1, <3>1
    <3> HIDE DEF next, past
    <3>4. k # 0 /\ a + 1 \in 0 .. 10 * capacity /\ (a + 1) + (k - 1) < 10 * capacity
      BY <1>1, <2>1, <3>1
    <3>5. evict_page_Clock[At(a + 1, next, past)] = Outcome(s, next, past)
      BY <1>3, <3>1, <3>2, <3>4
    <3> QED BY <3>1, <3>3, <3>5
  <2> QED BY <2>2, <2>3
<1> HIDE DEF Found
<1>4. 0 \in good
  BY <1>1, <1>3
<1>5. ASSUME NEW k \in 0 .. 2 * capacity - 1 - 1, k \in good PROVE k + 1 \in good
  <2>1. k + 1 \in 0 .. 2 * capacity - 1 /\ (k + 1) - 1 = k
    BY <1>1
  <2>2. Found((k + 1) - 1)
    BY <1>5, <2>1
  <2>3. Found(k + 1)
    BY <1>3, <2>1, <2>2
  <2> QED BY <2>1, <2>3
<1> HIDE DEF good
<1>6. \A k \in 0 .. 2 * capacity - 1 : k \in good
  BY <1>1, <1>4, <1>5, SetInduction
<1>7. Tries(s, h, bits) \in 0 .. 2 * capacity - 1
  BY OneTry
<1>8. Found(Tries(s, h, bits))
  BY <1>6, <1>7 DEF good
<1>9. 0 \in 0 .. 10 * capacity /\ 0 + Tries(s, h, bits) < 10 * capacity
  BY <1>1, <1>7
<1> QED BY <1>8, <1>9 DEF Found

LEMMA LoopGivesUp ==
  ASSUME SlotsAreTaken, MayGo = {}, NEW h \in Slots, NEW bits \in SUBSET Slots
  PROVE  evict_page_Clock[At(0, h, bits)].slot = capacity
<1> DEFINE N == 10 * capacity
           GivesUp(k) == \A i \in Slots : evict_page_Clock[At(N - k, i, bits)].slot = capacity
           good == {k \in 0 .. N : GivesUp(k)}
<1>1. capacity \in Nat \ {0} /\ N \in Nat
  BY BufferManagerAssumption
<1>2. ASSUME NEW i \in Slots, NEW a \in 0 .. N
      PROVE  evict_page_Clock[At(a, i, bits)] =
               IF a = N THEN [slot |-> capacity, bits |-> bits, hand |-> i]
               ELSE evict_page_Clock[At(a + 1, NextSlot(i), bits)]
  <2>1. evict_page_Clock[At(a, i, bits)] = LoopBody(evict_page_Clock)[At(a, i, bits)]
    BY LoopIs
  <2>2. i \notin MayGo /\ BitsPast(i, bits) = bits
    BY DEF BitsPast
  <2> QED BY <2>1, <2>2, LoopBodyAt DEF Turn
<1>3. 0 \in good
  <2>1. ASSUME NEW i \in Slots PROVE evict_page_Clock[At(N, i, bits)].slot = capacity
    <3>1. N \in 0 .. N
      BY <1>1
    <3> HIDE DEF N
    <3>2. evict_page_Clock[At(N, i, bits)] = [slot |-> capacity, bits |-> bits, hand |-> i]
      BY <1>2, <3>1
    <3> QED BY <3>2
  <2>2. N - 0 = N /\ 0 \in 0 .. N
    BY <1>1
  <2> HIDE DEF N
  <2> QED BY <2>1, <2>2
<1>4. ASSUME NEW k \in 0 .. N - 1, k \in good PROVE k + 1 \in good
  <2>1. N - (k + 1) \in 0 .. N /\ N - (k + 1) # N /\ (N - (k + 1)) + 1 = N - k /\ k + 1 \in 0 .. N
    BY <1>1
  <2> HIDE DEF N
  <2>2. ASSUME NEW i \in Slots PROVE evict_page_Clock[At(N - (k + 1), i, bits)].slot = capacity
    <3>1. NextSlot(i) \in Slots
      BY AroundTheClock
    <3>2. evict_page_Clock[At(N - k, NextSlot(i), bits)].slot = capacity
      BY <1>4, <3>1
    <3> QED BY <1>2, <2>1, <3>2
  <2> QED BY <2>1, <2>2
<1> HIDE DEF good
<1>5. \A k \in 0 .. N : k \in good
  <2> HIDE DEF N
  <2> QED BY <1>1, <1>3, <1>4, SetInduction
<1>6. N \in good /\ N - N = 0
  BY <1>1, <1>5
<1> QED BY <1>6 DEF good

\* When some page may go, the hand comes to one.
LEMMA SomeGoes ==
  ASSUME NEW h \in Slots, NEW bits \in SUBSET Slots, MayGo # {}
  PROVE  \E s : Goes(s, h, bits)
<1> DEFINE First == IF MayGo \subseteq bits THEN MayGo ELSE MayGo \ bits
           Ways == {Ahead(h, t) : t \in First}
<1>1. MayGo \in SUBSET Slots /\ First \in SUBSET MayGo /\ First # {}
  BY DEF MayGo
<1>2. \A t \in Slots : Ahead(h, t) \in 0 .. capacity - 1
  BY AroundTheClock
<1>3. Ways \subseteq Nat /\ Ways # {}
  BY <1>1, <1>2
<1>4. PICK n \in Ways : \A m \in Ways : ~(<<m, n>> \in OpToRel(<, Nat))
  BY <1>3, WFMin, NatLessThanWellFounded, Zenon
<1>5. \A m \in Ways : ~(m < n)
  BY <1>3, <1>4, Zenon DEF OpToRel
<1>6. PICK s \in First : n = Ahead(h, s)
  OBVIOUS
<1>7. ASSUME NEW t \in First, t # s PROVE Ahead(h, s) < Ahead(h, t)
  <2>1. Ahead(h, s) # Ahead(h, t)
    <3>1. s \in Slots /\ t \in Slots
      BY <1>1
    <3>2. s \in 0 .. capacity - 1 /\ t \in 0 .. capacity - 1 /\ h \in 0 .. capacity - 1 /\ capacity \in Nat \ {0}
      BY <3>1, BufferManagerAssumption DEF Slots
    <3>3. /\ Ahead(h, s) = IF s >= h THEN s - h ELSE s - h + capacity
          /\ Ahead(h, t) = IF t >= h THEN t - h ELSE t - h + capacity
      BY <3>1, AheadIs
    <3> QED BY <1>7, <3>2, <3>3
  <2>2. ~(Ahead(h, t) < Ahead(h, s))
    BY <1>5, <1>6
  <2>3. Ahead(h, s) \in Nat /\ Ahead(h, t) \in Nat
    BY <1>1, <1>2
  <2> QED BY <2>1, <2>2, <2>3
<1>8. Goes(s, h, bits)
  BY <1>1, <1>7 DEF Goes
<1> QED BY <1>8

LEMMA OneGoes ==
  ASSUME NEW h \in Slots, NEW bits, NEW s, NEW t, Goes(s, h, bits), Goes(t, h, bits)
  PROVE  s = t
<1> SUFFICES ASSUME s # t PROVE FALSE
  OBVIOUS
<1>1. /\ s \in MayGo /\ t \in MayGo
      /\ IF s \in bits <=> t \in bits THEN Ahead(h, s) < Ahead(h, t) ELSE t \in bits
      /\ IF t \in bits <=> s \in bits THEN Ahead(h, t) < Ahead(h, s) ELSE s \in bits
  BY DEF Goes
<1>2. Ahead(h, s) \in 0 .. capacity - 1 /\ Ahead(h, t) \in 0 .. capacity - 1
  BY <1>1, AroundTheClock DEF MayGo
<1> QED BY <1>1, <1>2

\* A pool without room has a page in every slot.
LEMMA FullPool ==
  ASSUME TypeOK, Bookkeeping, ~HasRoom
  PROVE  SlotsAreTaken
<1> SUFFICES ASSUME NEW s0 \in Slots, frame_slots[s0] = NULL_BLOCK PROVE FALSE
  BY DEF SlotsAreTaken
<1> DEFINE Others == Slots \ {s0}
           place == [p \in Resident |-> CHOOSE s \in Slots : frame_slots[s] = p]
<1>1. capacity \in Nat \ {0} /\ IsFiniteSet(Slots) /\ Cardinality(Slots) = capacity
  <2>1. capacity \in Nat \ {0}
    BY BufferManagerAssumption
  <2>2. IsFiniteSet(0 .. capacity - 1) /\ Cardinality(0 .. capacity - 1) = IF 0 > capacity - 1 THEN 0 ELSE capacity - 1 - 0 + 1
    BY <2>1, FS_Interval
  <2> QED BY <2>1, <2>2 DEF Slots
<1>2. \A p \in Resident : place[p] \in Slots /\ frame_slots[place[p]] = p
  BY DEF Bookkeeping
<1>3. \A p \in Resident : p # NULL_BLOCK
  BY NullIsNoBlock DEF Resident
<1> HIDE DEF place
<1>4. place \in Injection(Resident, Others)
  <2>1. place \in [Resident -> Others]
    <3>1. \A p \in Resident : place[p] \in Others
      BY <1>2, <1>3
    <3>2. place = [p \in Resident |-> place[p]]
      BY DEF place
    <3> HIDE DEF Others
    <3> QED BY <3>1, <3>2
  <2>2. \A p, q \in Resident : place[p] = place[q] => p = q
    BY <1>2
  <2> QED BY <2>1, <2>2 DEF Injection, IsInjective
<1>5. IsFiniteSet(Others) /\ Cardinality(Others) = capacity - 1
  BY <1>1, FS_RemoveElement
<1>6. Cardinality(Resident) <= Cardinality(Others) /\ IsFiniteSet(Resident)
  <2> HIDE DEF Others
  <2> QED BY <1>4, <1>5, FS_Injection
<1>7. Cardinality(Resident) \in Nat
  BY <1>6, FS_CardinalityType
<1> QED BY <1>1, <1>5, <1>6, <1>7 DEF HasRoom

\* The loop of evict_page_Clock, over up to ten laps, empties the one slot the model's
\* eviction empties, takes the same bits and leaves the hand there; it gives up only when no
\* page can go (lru/clock replacement of buffer_manager).
THEOREM ClockLoopIsVictim == Spec => []ClockLoopAgrees
<1>1. ASSUME TypeOK, Bookkeeping, is_clock, ~HasRoom
      PROVE  LET bits == {s \in Slots : RefBit(s)}
                 end == evict_page_Clock[[attempts |-> 0, hand |-> clock_hand, bits |-> bits]]
             IN  IF end.slot = capacity
                 THEN \A s \in Slots : ~Victim(s)
                 ELSE /\ \A s \in Slots : Victim(s) <=> s = end.slot
                      /\ end.hand = HandAfter(end.slot)
                      /\ \A t \in Slots \ {end.slot} :
                           FramesWithout(end.slot)[frame_slots[t]].reference_bit <=> t \in end.bits
  <2> DEFINE bits == {s \in Slots : RefBit(s)}
             end == evict_page_Clock[At(0, clock_hand, bits)]
  <2>1. SlotsAreTaken /\ clock_hand \in Slots /\ bits \in SUBSET Slots
    BY <1>1, FullPool DEF TypeOK
  <2>2. \A s \in Slots : Distance(s) = Ahead(clock_hand, s)
    BY DEF Distance, Ahead
  <2>3. \A s \in Slots : s \in bits <=> RefBit(s)
    OBVIOUS
  <2>3a. \A t \in Slots : frame_slots[t] \in Resident /\ frame_slots[t] \in BlockIds
    BY <1>1, <2>1 DEF SlotsAreTaken, Bookkeeping, Resident
  <2>3b. \A t \in Slots : RefBit(t) \in BOOLEAN
    BY <1>1, <2>3a DEF TypeOK, RefBit, Resident, BufferFrame
  <2> HIDE DEF bits
  <2>4. ASSUME NEW s \in Slots PROVE Victim(s) <=> Goes(s, clock_hand, bits)
    <3>1. \A t \in Slots \ {s} :
            (IF RefBit(s) = RefBit(t) THEN Distance(s) < Distance(t) ELSE RefBit(t))
              <=> (IF s \in bits <=> t \in bits THEN Ahead(clock_hand, s) < Ahead(clock_hand, t) ELSE t \in bits)
      BY <2>2, <2>3, <2>3b
    <3>2. ClockVictim(s) <=> Goes(s, clock_hand, bits)
      BY <3>1 DEF ClockVictim, Goes, MayGo
    <3> QED BY <1>1, <3>2 DEF Victim
  <2>5. CASE MayGo = {}
    <3>1. end.slot = capacity
      BY <2>1, <2>5, LoopGivesUp
    <3>2. \A s \in Slots : ~Victim(s)
      BY <2>4, <2>5 DEF Goes
    <3> QED BY <3>1, <3>2 DEF At, bits
  <2>6. CASE MayGo # {}
    <3>1. PICK s : Goes(s, clock_hand, bits)
      BY <2>1, <2>6, SomeGoes
    <3>2. end = Outcome(s, clock_hand, bits)
      BY <2>1, <3>1, LoopFindsVictim
    <3>3. s \in Slots /\ s # capacity
      BY <3>1, BufferManagerAssumption DEF Goes, MayGo, Slots
    <3>4. end.slot = s /\ end.bits = bits \ Taken(s, clock_hand, bits) /\ end.hand = NextSlot(s)
      BY <3>2 DEF Outcome
    <3>5. \A t \in Slots : Victim(t) <=> t = s
      BY <2>1, <2>4, <3>1, <3>3, OneGoes
    <3>6. NextSlot(s) = HandAfter(s)
      BY <1>1 DEF NextSlot, HandAfter
    <3>7. ASSUME NEW t \in Slots \ {s}
          PROVE  FramesWithout(s)[frame_slots[t]].reference_bit <=> t \in bits \ Taken(s, clock_hand, bits)
      <4> DEFINE p == frame_slots[t]
                 cleared == {frame_slots[u] : u \in {v \in Slots : is_clock /\ PassedBefore(v, s)}}
      <4>1. p \in Resident /\ p \in BlockIds /\ p # frame_slots[s] /\ p # NULL_BLOCK
        <5>1. frame_slots[t] # NULL_BLOCK
          BY <2>1 DEF SlotsAreTaken
        <5> QED BY <1>1, <2>3a, <3>3, <5>1 DEF Bookkeeping
      <4>2. \A u \in Slots : frame_slots[u] = p => u = t
        BY <1>1, <4>1 DEF Bookkeeping
      <4>3. \A u \in Slots : PassedBefore(u, s) <=> u \in Taken(s, clock_hand, bits)
        BY <2>2, <2>3, <3>3 DEF PassedBefore, Taken, MayGo
      <4>4. p \in cleared <=> t \in Taken(s, clock_hand, bits)
        BY <1>1, <4>2, <4>3
      <4>5. FramesWithout(s)[p] = IF p \in cleared THEN [frame_map[p] EXCEPT !.reference_bit = FALSE] ELSE frame_map[p]
        BY <4>1 DEF FramesWithout
      <4>6. frame_map[p] \in BufferFrame
        BY <1>1, <4>1 DEF TypeOK, Resident
      <4> HIDE DEF cleared
      <4>7. CASE p \in cleared
        <5>1. FramesWithout(s)[p].reference_bit = FALSE
          BY <4>5, <4>6, <4>7 DEF BufferFrame
        <5> QED BY <4>4, <4>7, <5>1
      <4>8. CASE p \notin cleared
        <5>1. FramesWithout(s)[p].reference_bit = RefBit(t)
          BY <4>5, <4>8 DEF RefBit
        <5> QED BY <2>3, <2>3b, <4>4, <4>8, <5>1
      <4> QED BY <4>7, <4>8
    <3> HIDE DEF end
    <3>8. IF end.slot = capacity
          THEN \A t \in Slots : ~Victim(t)
          ELSE /\ \A t \in Slots : Victim(t) <=> t = end.slot
               /\ end.hand = HandAfter(end.slot)
               /\ \A t \in Slots \ {end.slot} :
                    FramesWithout(end.slot)[frame_slots[t]].reference_bit <=> t \in end.bits
      BY <3>3, <3>4, <3>5, <3>6, <3>7
    <3> QED BY <3>8 DEF end, At, bits
  <2> QED BY <2>5, <2>6
<1>2. IInv => ClockLoopAgrees
  BY <1>1 DEF IInv, ClockLoopAgrees
<1> QED BY <1>2, AlwaysIInv, PTL
=============================================================================
