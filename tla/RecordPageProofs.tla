--------------------------- MODULE RecordPageProofs ---------------------------
(***************************************************************************)
(* Facts about RecordPage, for every size of page and record: a new page   *)
(* is sound, and what an insertion or a deletion leaves is.                *)
(***************************************************************************)
EXTENDS RecordPage, FiniteSetTheorems, SequenceTheorems, WellFoundedInduction, TLAPS

SlotType == [is_used : BOOLEAN, value : Values \cup {NoValue}, offset : Nat, size : Nat]

PageType ==
  [next_block_id : Nat, free_space : Nat, n_regs : Nat, free_bytes : Nat,
   free_space_offset : Nat, slots : Seq(SlotType)]

\* Every record of a fixed page is at the place its position has.
SoundFixed(page) ==
  /\ Len(page.slots) = max_n_regs
  /\ page.free_bytes = usable_for_regs - max_reg_size * page.n_regs
  /\ \A i \in Used(page) :
       page.slots[i].offset = FixedOffset(i) /\ page.slots[i].size = max_reg_size

Before(slot1, slot2) == slot1.offset + slot1.size <= slot2.offset

\* Those of a slotted page are in what was taken from its end.
SoundSlotted(page) ==
  /\ page.free_space_offset =
       page.free_bytes + sizeof_Slot * Len(page.slots)
         + base_slotted_data_header_size + sizeof_PageHeader
  /\ \A i \in Used(page) :
       /\ page.free_space_offset <= page.slots[i].offset
       /\ page.slots[i].offset + page.slots[i].size <= BLOCK_SIZE
       /\ \A j \in Used(page) \ {i} :
            Before(page.slots[i], page.slots[j]) \/ Before(page.slots[j], page.slots[i])
  /\ page.free_space_offset <= BLOCK_SIZE

\* What is kept of a page.
Sound(are_regs_fixed, page) ==
  /\ page \in PageType
  /\ page.n_regs = Cardinality(Used(page))
  /\ page.free_space = page.free_bytes
  /\ are_regs_fixed => SoundFixed(page)
  /\ ~are_regs_fixed => SoundSlotted(page)

-----------------------------------------------------------------------------
\* A quotient is the number of times the divisor goes in.
LEMMA Division ==
  ASSUME NEW x \in Nat, NEW m \in Nat \ {0}
  PROVE  /\ x \div m \in Nat
         /\ m * (x \div m) <= x
         /\ x < m * (x \div m) + m
OBVIOUS

\* Multiples of m are m apart.
LEMMA Multiples ==
  ASSUME NEW m \in Nat, NEW i \in Nat, NEW j \in Nat, i < j
  PROVE  m * i + m <= m * j
<1>1. PICK d \in Nat : j = i + 1 + d
  <2>1. j - i - 1 \in Nat /\ j = i + 1 + (j - i - 1)
    OBVIOUS
  <2> QED BY <2>1
<1>2. m * j = m * i + m + m * d
  BY <1>1
<1>3. m * d \in Nat /\ m * i \in Nat
  OBVIOUS
<1> QED BY <1>2, <1>3

\* The positions of a page are finitely many, and those taken are some of them.
LEMMA UsedFacts ==
  ASSUME NEW page, page.slots \in Seq(SlotType)
  PROVE  /\ Used(page) \subseteq 1 .. Len(page.slots)
         /\ IsFiniteSet(Used(page))
         /\ Cardinality(Used(page)) \in Nat
         /\ Cardinality(Used(page)) <= Len(page.slots)
         /\ Free(page) = (1 .. Len(page.slots)) \ Used(page)
<1>1. DOMAIN page.slots = 1 .. Len(page.slots) /\ Len(page.slots) \in Nat
  OBVIOUS
<1>2. Used(page) \subseteq 1 .. Len(page.slots)
  BY <1>1 DEF Used
<1>3. IsFiniteSet(1 .. Len(page.slots)) /\ Cardinality(1 .. Len(page.slots)) = Len(page.slots)
  BY <1>1, FS_Interval
<1>4. IsFiniteSet(Used(page)) /\ Cardinality(Used(page)) <= Len(page.slots)
  BY <1>2, <1>3, FS_Subset
<1> QED BY <1>1, <1>2, <1>4, FS_CardinalityType DEF Free

\* The first free position is free.
LEMMA FirstFreeIsFree ==
  ASSUME NEW page, page.slots \in Seq(SlotType), Free(page) # {}
  PROVE  FirstFree(page) \in Free(page)
<1>1. Free(page) \subseteq Nat
  BY UsedFacts
<1>2. PICK i \in Free(page) : \A j \in Free(page) : ~(<<j, i>> \in OpToRel(<, Nat))
  BY <1>1, WFMin, NatLessThanWellFounded, Zenon
<1>3. \A j \in Free(page) : ~(j < i)
  BY <1>1, <1>2, Zenon DEF OpToRel
<1>4. \A j \in Free(page) : i <= j
  BY <1>1, <1>3
<1> QED BY <1>4, Zenon DEF FirstFree
-----------------------------------------------------------------------------
\* A fixed page has room for its places, and no more.
LEMMA RoomOfFixed ==
  /\ max_n_regs \in Nat
  /\ max_reg_size * max_n_regs <= usable_for_regs
  /\ usable_for_regs < max_reg_size * max_n_regs + max_reg_size
<1>1. max_n_regs = usable_for_regs \div max_reg_size
  BY DEF max_n_regs, RegsWithBitmap, usable_for_regs
<1> QED BY <1>1, Division, RecordPageAssumption, BitmapSettles DEF RecordPageAssumption

\* A page nothing was put in is sound.
LEMMA NewPageIsSound ==
  ASSUME NEW are_regs_fixed \in BOOLEAN
  PROVE  Sound(are_regs_fixed, NewPage(are_regs_fixed))
<1>1. FreeSlot \in SlotType
  BY DEF FreeSlot, SlotType
<1>2. CASE are_regs_fixed
  <2> DEFINE page == NewFixedPage
  <2>1. page.slots \in Seq(SlotType) /\ Len(page.slots) = max_n_regs
    BY <1>1, RoomOfFixed DEF NewFixedPage
  <2>2. Used(page) = {}
    BY RoomOfFixed DEF NewFixedPage, Used, FreeSlot
  <2>3. page \in PageType /\ page.n_regs = 0 /\ page.free_space = page.free_bytes
    BY <2>1, BitmapSettles DEF NewFixedPage, PageType, NULL_PAGE
  <2>4. page.free_bytes = usable_for_regs - max_reg_size * page.n_regs
    BY BitmapSettles, RecordPageAssumption DEF NewFixedPage, RecordPageAssumption
  <2> HIDE DEF page
  <2>5. Sound(TRUE, page)
    BY <2>1, <2>2, <2>3, <2>4, FS_EmptySet DEF Sound, SoundFixed
  <2> QED BY <1>2, <2>5 DEF NewPage, page
<1>3. CASE ~are_regs_fixed
  <2> DEFINE page == NewSlottedPage
  <2>1. page.slots \in Seq(SlotType) /\ Len(page.slots) = 0
    BY DEF NewSlottedPage
  <2>2. Used(page) = {}
    BY DEF NewSlottedPage, Used
  <2>3. slotted_free_bytes \in Nat
    BY RecordPageAssumption
    DEF RecordPageAssumption, slotted_free_bytes, base_slotted_data_header_size,
        sizeof_PageHeader, static_header_size
  <2>4. page \in PageType /\ page.n_regs = 0 /\ page.free_space = page.free_bytes
    BY <2>1, <2>3, RecordPageAssumption
    DEF NewSlottedPage, PageType, NULL_PAGE, RecordPageAssumption
  <2>5. page.free_bytes = slotted_free_bytes /\ page.free_space_offset = BLOCK_SIZE
    BY DEF NewSlottedPage
  <2> HIDE DEF page
  <2>6. SoundSlotted(page)
    BY <2>1, <2>2, <2>5, RecordPageAssumption
    DEF SoundSlotted, slotted_free_bytes, sizeof_Slot, base_slotted_data_header_size,
        sizeof_PageHeader, RecordPageAssumption
  <2>7. Sound(FALSE, page)
    BY <2>2, <2>4, <2>6, FS_EmptySet DEF Sound
  <2> QED BY <1>3, <2>7 DEF NewPage, page
<1> QED BY <1>2, <1>3

\* One more position taken: the count, the records, the other positions.
LEMMA PutFacts ==
  ASSUME NEW page \in PageType, NEW other \in PageType, NEW i \in Free(page),
         NEW slot \in SlotType, slot.is_used,
         other.slots = [page.slots EXCEPT ![i] = slot]
  PROVE  /\ Used(other) = Used(page) \cup {i}
         /\ i \notin Used(page)
         /\ Len(other.slots) = Len(page.slots)
         /\ Cardinality(Used(other)) = Cardinality(Used(page)) + 1
         /\ other.slots[i] = slot
         /\ \A j \in Used(page) : other.slots[j] = page.slots[j]
<1>1. page.slots \in Seq(SlotType) /\ other.slots \in Seq(SlotType)
  BY DEF PageType
<1>2. i \in 1 .. Len(page.slots) /\ i \notin Used(page)
  BY <1>1, UsedFacts
<1>3. /\ DOMAIN page.slots = 1 .. Len(page.slots)
      /\ DOMAIN other.slots = 1 .. Len(page.slots)
      /\ Len(other.slots) = Len(page.slots)
      /\ other.slots[i] = slot
      /\ \A j \in 1 .. Len(page.slots) : j # i => other.slots[j] = page.slots[j]
  BY <1>1, <1>2
<1>4. Used(other) = Used(page) \cup {i}
  BY <1>2, <1>3 DEF Used
<1>5. Cardinality(Used(other)) = Cardinality(Used(page)) + 1
  BY <1>1, <1>2, <1>4, UsedFacts, FS_AddElement
<1>6. \A j \in Used(page) : other.slots[j] = page.slots[j]
  BY <1>1, <1>2, <1>3, UsedFacts
<1> QED BY <1>2, <1>3, <1>4, <1>5, <1>6

\* What an insertion in a fixed page leaves is sound.
LEMMA InFixedIsSound ==
  ASSUME NEW page, Sound(TRUE, page), NEW v \in Values
  PROVE  Sound(TRUE, InFixed(page, v).page)
<1>1. CASE Free(page) = {}
  BY <1>1 DEF InFixed, Refused
<1>2. CASE Free(page) # {}
  <2> DEFINE i == FirstFree(page)
             slot == [is_used |-> TRUE, value |-> v, offset |-> FixedOffset(i),
                      size |-> max_reg_size]
             other == InFixed(page, v).page
  <2>1. page \in PageType /\ page.slots \in Seq(SlotType) /\ SoundFixed(page)
    BY DEF Sound, PageType
  <2>2. i \in Free(page) /\ i \in 1 .. max_n_regs
    BY <1>2, <2>1, FirstFreeIsFree, UsedFacts DEF SoundFixed
  <2>3. max_reg_size \in Nat /\ bitmap_size \in Nat /\ usable_for_regs \in Nat
    BY RecordPageAssumption, BitmapSettles DEF RecordPageAssumption
  <2>4. FixedOffset(i) \in Nat
    <3>1. max_reg_size * (i - 1) \in Nat
      BY <2>2, <2>3, RoomOfFixed
    <3> QED BY <2>3, <3>1 DEF FixedOffset, static_header_size, sizeof_PageHeader
  <2>5. slot \in SlotType /\ slot.is_used
    BY <2>3, <2>4 DEF SlotType
  <2>6. /\ other.free_bytes = page.free_bytes - max_reg_size
        /\ other.free_space = page.free_space - max_reg_size
        /\ other.n_regs = page.n_regs + 1
        /\ other.next_block_id = page.next_block_id
        /\ other.free_space_offset = page.free_space_offset
        /\ other.slots = [page.slots EXCEPT ![i] = slot]
        /\ other = [next_block_id |-> other.next_block_id, free_space |-> other.free_space,
                    n_regs |-> other.n_regs, free_bytes |-> other.free_bytes,
                    free_space_offset |-> other.free_space_offset, slots |-> other.slots]
    BY <1>2, <2>1 DEF InFixed, Taken, PageType
  <2> HIDE DEF i, slot, other
  <2>7. page.n_regs \in Nat /\ page.n_regs < max_n_regs
    <3>1. Free(page) = (1 .. max_n_regs) \ Used(page) /\ Used(page) \subseteq 1 .. max_n_regs
      BY <2>1, UsedFacts DEF SoundFixed
    <3>2. Cardinality(Used(page)) <= max_n_regs /\ Cardinality(Used(page)) \in Nat
      BY <2>1, UsedFacts DEF SoundFixed
    <3>3. IsFiniteSet(1 .. max_n_regs) /\ Cardinality(1 .. max_n_regs) = max_n_regs
      BY RoomOfFixed, FS_Interval
    <3>4. Cardinality(Used(page)) # max_n_regs
      BY <1>2, <3>1, <3>3, FS_Subset
    <3> QED BY <3>2, <3>4, RoomOfFixed DEF Sound
  <2>8. max_reg_size * page.n_regs + max_reg_size <= usable_for_regs
    <3>1. max_reg_size * page.n_regs + max_reg_size <= max_reg_size * max_n_regs
      BY <2>3, <2>7, RoomOfFixed, Multiples
    <3>2. max_reg_size * page.n_regs \in Nat /\ max_reg_size * max_n_regs \in Nat
      BY <2>3, <2>7, RoomOfFixed
    <3> QED BY <2>3, <3>1, <3>2, RoomOfFixed
  <2>9. other.free_bytes = usable_for_regs - max_reg_size * other.n_regs /\ other.free_bytes \in Nat
    <3>1. max_reg_size * (page.n_regs + 1) = max_reg_size * page.n_regs + max_reg_size
      BY <2>3, <2>7
    <3>2. max_reg_size * page.n_regs \in Nat
      BY <2>3, <2>7
    <3>3. page.free_bytes = usable_for_regs - max_reg_size * page.n_regs
      BY <2>1 DEF SoundFixed
    <3> QED BY <2>3, <2>6, <2>8, <3>1, <3>2, <3>3
  <2>10. other.slots \in Seq(SlotType)
    BY <2>1, <2>2, <2>5, <2>6, UsedFacts
  <2>11. other.free_space = other.free_bytes
    BY <2>6 DEF Sound
  <2>12. other \in PageType
    <3>1. /\ other.next_block_id \in Nat /\ other.free_space \in Nat /\ other.n_regs \in Nat
          /\ other.free_bytes \in Nat /\ other.free_space_offset \in Nat
      BY <2>1, <2>6, <2>7, <2>9, <2>11 DEF PageType
    <3> QED BY <2>6, <2>10, <3>1 DEF PageType
  <2>13. /\ Used(other) = Used(page) \cup {i}
         /\ Len(other.slots) = Len(page.slots)
         /\ Cardinality(Used(other)) = Cardinality(Used(page)) + 1
         /\ other.slots[i] = slot
         /\ \A j \in Used(page) : other.slots[j] = page.slots[j]
    BY <2>1, <2>2, <2>5, <2>6, <2>12, PutFacts
  <2>14. SoundFixed(other)
    BY <2>1, <2>9, <2>13 DEF SoundFixed, slot
  <2>15. other.n_regs = Cardinality(Used(other))
    BY <2>6, <2>13 DEF Sound
  <2> QED BY <2>11, <2>12, <2>14, <2>15 DEF Sound, other
<1> QED BY <1>1, <1>2
-----------------------------------------------------------------------------
\* What putting a record in a free slot leaves is sound.
LEMMA InFreeSlotIsSound ==
  ASSUME NEW page, Sound(FALSE, page), NEW v \in Values, Free(page) # {}
  PROVE  Sound(FALSE, InFreeSlot(page, v).page)
<1>1. CASE reg_size[v] > page.free_bytes
  BY <1>1 DEF InFreeSlot, Refused
<1>2. CASE ~(reg_size[v] > page.free_bytes)
  <2> DEFINE i == FirstFree(page)
             start == page.free_space_offset - reg_size[v]
             slot == [is_used |-> TRUE, value |-> v, offset |-> start, size |-> reg_size[v]]
             other == InFreeSlot(page, v).page
  <2>1. page \in PageType /\ page.slots \in Seq(SlotType) /\ SoundSlotted(page)
    BY DEF Sound, PageType
  <2>2. i \in Free(page) /\ i \in 1 .. Len(page.slots)
    BY <2>1, FirstFreeIsFree, UsedFacts
  <2>3. reg_size[v] \in Nat /\ reg_size[v] > 0 /\ page.free_bytes \in Nat
    BY <2>1, RecordPageAssumption DEF RecordPageAssumption, PageType
  <2>4. page.free_space_offset \in Nat /\ Len(page.slots) \in Nat
    BY <2>1 DEF PageType
  <2>5. start \in Nat /\ start >= 0
    BY <1>2, <2>1, <2>3, <2>4
    DEF SoundSlotted, sizeof_Slot, base_slotted_data_header_size, sizeof_PageHeader
  <2>6. slot \in SlotType /\ slot.is_used
    BY <2>3, <2>5 DEF SlotType
  <2>7. /\ other.free_bytes = page.free_bytes - reg_size[v]
        /\ other.free_space = page.free_space - reg_size[v]
        /\ other.n_regs = page.n_regs + 1
        /\ other.next_block_id = page.next_block_id
        /\ other.free_space_offset = start
        /\ other.slots = [page.slots EXCEPT ![i] = slot]
        /\ other = [next_block_id |-> other.next_block_id, free_space |-> other.free_space,
                    n_regs |-> other.n_regs, free_bytes |-> other.free_bytes,
                    free_space_offset |-> other.free_space_offset, slots |-> other.slots]
    BY <1>2, <2>1 DEF InFreeSlot, Taken, PageType
  <2> HIDE DEF i, other
  <2>8. other.free_bytes \in Nat /\ other.free_space = other.free_bytes
    BY <1>2, <2>3, <2>7 DEF Sound
  <2>9. other.slots \in Seq(SlotType)
    BY <2>1, <2>2, <2>6, <2>7
  <2>10. other \in PageType
    <3>1. /\ other.next_block_id \in Nat /\ other.free_space \in Nat /\ other.n_regs \in Nat
          /\ other.free_bytes \in Nat /\ other.free_space_offset \in Nat
      BY <2>1, <2>5, <2>7, <2>8 DEF PageType
    <3> QED BY <2>7, <2>9, <3>1 DEF PageType
  <2>11. /\ Used(other) = Used(page) \cup {i}
         /\ i \notin Used(page)
         /\ Len(other.slots) = Len(page.slots)
         /\ Cardinality(Used(other)) = Cardinality(Used(page)) + 1
         /\ other.slots[i] = slot
         /\ \A j \in Used(page) : other.slots[j] = page.slots[j]
    <3> HIDE DEF slot
    <3> QED BY <2>1, <2>2, <2>6, <2>7, <2>10, PutFacts
  <2>12. other.n_regs = Cardinality(Used(other))
    BY <2>7, <2>11 DEF Sound
  <2>13. SoundSlotted(other)
    <3>1. other.free_space_offset <= BLOCK_SIZE /\ BLOCK_SIZE \in Nat
      BY <2>1, <2>3, <2>4, <2>7, RecordPageAssumption DEF SoundSlotted, RecordPageAssumption
    <3>2. other.free_space_offset =
            other.free_bytes + sizeof_Slot * Len(other.slots)
              + base_slotted_data_header_size + sizeof_PageHeader
      <4>1. page.free_space_offset =
              page.free_bytes + sizeof_Slot * Len(page.slots)
                + base_slotted_data_header_size + sizeof_PageHeader
        BY <2>1 DEF SoundSlotted
      <4>2. /\ Len(other.slots) = Len(page.slots)
            /\ other.free_space_offset = page.free_space_offset - reg_size[v]
            /\ other.free_bytes = page.free_bytes - reg_size[v]
        BY <2>7, <2>11
      <4> QED BY <2>3, <2>4, <4>1, <4>2
              DEF sizeof_Slot, base_slotted_data_header_size, sizeof_PageHeader
    <3>3. /\ other.slots[i].offset = start
          /\ other.slots[i].size = reg_size[v]
          /\ start + reg_size[v] = page.free_space_offset
      BY <2>3, <2>4, <2>11
    <3>4. \A j \in Used(page) : page.slots[j].offset \in Nat /\ page.slots[j].size \in Nat
      <4>1. \A j \in Used(page) : page.slots[j] \in SlotType
        BY <2>1, UsedFacts
      <4> QED BY <4>1 DEF SlotType
    <3>5. ASSUME NEW j \in Used(page)
          PROVE  /\ other.free_space_offset <= other.slots[j].offset
                 /\ other.slots[j].offset + other.slots[j].size <= BLOCK_SIZE
                 /\ Before(other.slots[i], other.slots[j])
      <4>1. other.slots[j] = page.slots[j] /\ page.free_space_offset <= page.slots[j].offset
            /\ page.slots[j].offset + page.slots[j].size <= BLOCK_SIZE
        BY <2>1, <2>11, <3>5 DEF SoundSlotted
      <4> QED BY <2>3, <2>4, <2>7, <3>3, <3>4, <4>1 DEF Before
    <3>6. /\ other.free_space_offset <= other.slots[i].offset
          /\ other.slots[i].offset + other.slots[i].size <= BLOCK_SIZE
      BY <2>1, <2>3, <2>4, <2>7, <3>3 DEF SoundSlotted
    <3>7. ASSUME NEW j \in Used(page), NEW k \in Used(page) \ {j}
          PROVE  Before(other.slots[j], other.slots[k]) \/ Before(other.slots[k], other.slots[j])
      BY <2>1, <2>11, <3>7 DEF SoundSlotted
    <3> HIDE DEF start, slot
    <3> QED BY <2>11, <3>1, <3>2, <3>5, <3>6, <3>7 DEF SoundSlotted
  <2> QED BY <2>8, <2>10, <2>12, <2>13 DEF Sound, other
<1> QED BY <1>1, <1>2

\* A slot more, and nothing in it.
LEMMA WithNewSlotIsSound ==
  ASSUME NEW page, Sound(FALSE, page), page.free_bytes >= sizeof_Slot
  PROVE  /\ Sound(FALSE, WithNewSlot(page)) /\ Free(WithNewSlot(page)) # {}
         /\ Used(WithNewSlot(page)) = Used(page)
         /\ \A j \in Used(page) : WithNewSlot(page).slots[j] = page.slots[j]
<1> DEFINE n == Len(page.slots) + 1
           taken == Taken(page, sizeof_Slot)
           other == WithNewSlot(page)
<1>1. page \in PageType /\ page.slots \in Seq(SlotType) /\ SoundSlotted(page)
  BY DEF Sound, PageType
<1>2. FreeSlot \in SlotType /\ ~FreeSlot.is_used
  BY DEF FreeSlot, SlotType
<1>3. /\ taken \in PageType
      /\ taken.free_bytes = page.free_bytes - sizeof_Slot
      /\ taken.free_space = page.free_space - sizeof_Slot
      /\ taken.n_regs = page.n_regs
      /\ taken.free_space_offset = page.free_space_offset
      /\ taken.slots = page.slots
  <2>1. page.free_bytes - sizeof_Slot \in Nat /\ page.free_space - sizeof_Slot \in Nat
    BY <1>1 DEF PageType, sizeof_Slot, Sound
  <2>2. taken \in PageType
    BY <1>1, <2>1 DEF Taken, PageType
  <2>3. /\ taken.free_bytes = page.free_bytes - sizeof_Slot
        /\ taken.free_space = page.free_space - sizeof_Slot
        /\ taken.n_regs = page.n_regs
        /\ taken.free_space_offset = page.free_space_offset
        /\ taken.slots = page.slots
    BY <1>1 DEF Taken, PageType
  <2> QED BY <2>2, <2>3
<1>4. /\ other \in PageType
      /\ other.free_bytes = page.free_bytes - sizeof_Slot
      /\ other.free_space = page.free_space - sizeof_Slot
      /\ other.n_regs = page.n_regs
      /\ other.free_space_offset = page.free_space_offset
      /\ other.slots = Append(page.slots, FreeSlot)
  <2> DEFINE longer == Append(page.slots, FreeSlot)
  <2>1. longer \in Seq(SlotType)
    BY <1>1, <1>2
  <2>2. other = [taken EXCEPT !.slots = longer]
    BY <1>3 DEF WithNewSlot
  <2> HIDE DEF longer, taken, other
  <2>3. other \in PageType /\ other.slots = longer
    BY <1>3, <2>1, <2>2 DEF PageType
  <2>4. /\ other.free_bytes = taken.free_bytes /\ other.free_space = taken.free_space
        /\ other.n_regs = taken.n_regs /\ other.free_space_offset = taken.free_space_offset
    BY <1>3, <2>2 DEF PageType
  <2> QED BY <1>3, <2>3, <2>4 DEF longer
<1> HIDE DEF taken, other
<1>5. /\ other.slots \in Seq(SlotType)
      /\ Len(other.slots) = n
      /\ other.slots[n] = FreeSlot
      /\ \A j \in 1 .. Len(page.slots) : other.slots[j] = page.slots[j]
  BY <1>1, <1>2, <1>4
<1>6. Used(other) = Used(page) /\ n \in Free(other)
  <2>1. DOMAIN other.slots = 1 .. n /\ DOMAIN page.slots = 1 .. Len(page.slots)
    BY <1>1, <1>5
  <2>2. Len(page.slots) \in Nat /\ 1 .. n = (1 .. Len(page.slots)) \cup {n}
    BY <1>1
  <2>3. n \in 1 .. n /\ ~other.slots[n].is_used
    BY <1>2, <1>5, <2>2
  <2> HIDE DEF n
  <2> QED BY <1>5, <2>1, <2>2, <2>3 DEF Used, Free
<1>7. /\ page.free_bytes \in Nat /\ other.free_bytes \in Nat
      /\ other.free_space = other.free_bytes
  BY <1>1, <1>4 DEF PageType, Sound, sizeof_Slot
<1>8. SoundSlotted(other)
  <2>1. Len(page.slots) \in Nat
    BY <1>1
  <2>2. other.free_space_offset =
          other.free_bytes + sizeof_Slot * Len(other.slots)
            + base_slotted_data_header_size + sizeof_PageHeader
    BY <1>1, <1>4, <1>5, <1>7, <2>1
    DEF SoundSlotted, sizeof_Slot, base_slotted_data_header_size, sizeof_PageHeader, PageType
  <2>3. \A j \in Used(page) : other.slots[j] = page.slots[j]
    BY <1>1, <1>5, UsedFacts
  <2> QED BY <1>1, <1>4, <1>6, <2>2, <2>3 DEF SoundSlotted
<1>9. other.n_regs = Cardinality(Used(other))
  BY <1>4, <1>6 DEF Sound
<1>10. \A j \in Used(page) : other.slots[j] = page.slots[j]
  BY <1>1, <1>5, UsedFacts
<1>11. Sound(FALSE, other)
  BY <1>4, <1>6, <1>7, <1>8, <1>9 DEF Sound
<1> QED BY <1>6, <1>10, <1>11 DEF other

\* What an insertion leaves is sound, whether it was possible or not.
THEOREM InsertedIsSound ==
  ASSUME NEW are_regs_fixed \in BOOLEAN, NEW page, Sound(are_regs_fixed, page), NEW v \in Values
  PROVE  Sound(are_regs_fixed, Inserted(are_regs_fixed, page, v).page)
<1>1. CASE are_regs_fixed
  BY <1>1, InFixedIsSound DEF Inserted
<1>2. CASE ~are_regs_fixed
  <2>1. CASE Free(page) # {}
    BY <1>2, <2>1, InFreeSlotIsSound DEF Inserted, InSlotted
  <2>2. CASE Free(page) = {} /\ page.free_bytes < sizeof_Slot
    BY <1>2, <2>2 DEF Inserted, InSlotted, Refused
  <2>3. CASE Free(page) = {} /\ ~(page.free_bytes < sizeof_Slot)
    <3>1. page.free_bytes >= sizeof_Slot
      BY <1>2, <2>3 DEF Sound, PageType, sizeof_Slot
    <3>2. Sound(FALSE, WithNewSlot(page)) /\ Free(WithNewSlot(page)) # {}
      BY <1>2, <3>1, WithNewSlotIsSound
    <3>3. Inserted(FALSE, page, v) = InFreeSlot(WithNewSlot(page), v)
      BY <2>3 DEF Inserted, InSlotted
    <3> QED BY <1>2, <3>2, <3>3, InFreeSlotIsSound
  <2> QED BY <2>1, <2>2, <2>3
<1> QED BY <1>1, <1>2
-----------------------------------------------------------------------------
\* Without the records at some positions: the count, and the others as they were.
LEMMA ClearedFacts ==
  ASSUME NEW page \in PageType, page.n_regs = Cardinality(Used(page)),
         NEW positions \in SUBSET Used(page)
  PROVE  /\ Cleared(page, positions) \in PageType
         /\ Used(Cleared(page, positions)) = Used(page) \ positions
         /\ Cleared(page, positions).n_regs = page.n_regs - Cardinality(positions)
         /\ Cleared(page, positions).n_regs = Cardinality(Used(page) \ positions)
         /\ Cardinality(positions) \in Nat
         /\ Cleared(page, positions).free_bytes = page.free_bytes
         /\ Cleared(page, positions).free_space = page.free_space
         /\ Cleared(page, positions).free_space_offset = page.free_space_offset
         /\ Len(Cleared(page, positions).slots) = Len(page.slots)
         /\ \A j \in Used(page) \ positions :
              Cleared(page, positions).slots[j] = page.slots[j]
<1> DEFINE slots == [i \in DOMAIN page.slots |-> IF i \in positions THEN FreeSlot ELSE page.slots[i]]
           n == page.n_regs - Cardinality(positions)
<1>1. page.slots \in Seq(SlotType) /\ page.n_regs \in Nat
  BY DEF PageType
<1>2. /\ IsFiniteSet(Used(page)) /\ Cardinality(Used(page)) \in Nat
      /\ Used(page) \subseteq 1 .. Len(page.slots)
  BY <1>1, UsedFacts
<1>3. IsFiniteSet(positions) /\ Cardinality(positions) \in Nat
  BY <1>2, FS_Subset, FS_CardinalityType
<1>4. n \in Nat /\ n = Cardinality(Used(page) \ positions)
  <2>1. Used(page) \cap positions = positions
    OBVIOUS
  <2>2. Cardinality(Used(page) \ positions) = Cardinality(Used(page)) - Cardinality(positions)
    <3>1. Cardinality(Used(page) \ positions)
            = Cardinality(Used(page)) - Cardinality(Used(page) \cap positions)
      BY <1>2, FS_Difference
    <3> QED BY <2>1, <3>1, Zenon
  <2>3. IsFiniteSet(Used(page) \ positions)
    BY <1>2, FS_Difference
  <2> QED BY <2>2, <2>3, FS_CardinalityType
<1>5. FreeSlot \in SlotType /\ ~FreeSlot.is_used
  BY DEF FreeSlot, SlotType
<1>6. /\ slots \in Seq(SlotType)
      /\ Len(slots) = Len(page.slots)
      /\ DOMAIN slots = DOMAIN page.slots
      /\ \A j \in DOMAIN page.slots : slots[j] = IF j \in positions THEN FreeSlot ELSE page.slots[j]
  <2>1. DOMAIN page.slots = 1 .. Len(page.slots) /\ Len(page.slots) \in Nat
    BY <1>1
  <2>2. \A j \in 1 .. Len(page.slots) : slots[j] \in SlotType
    BY <1>1, <1>5, <2>1
  <2>3. slots = [j \in 1 .. Len(page.slots) |-> slots[j]]
    BY <2>1
  <2> HIDE DEF slots
  <2>4. slots \in [1 .. Len(page.slots) -> SlotType]
    BY <2>2, <2>3
  <2>5. slots \in Seq(SlotType) /\ Len(slots) = Len(page.slots)
    BY <2>1, <2>4, LenProperties, SeqDef
  <2> QED BY <2>1, <2>4, <2>5 DEF slots
<1>7. Cleared(page, positions) = [page EXCEPT !.n_regs = n, !.slots = slots]
  BY DEF Cleared, PageType
<1> HIDE DEF slots, n
<1>8. /\ Cleared(page, positions) \in PageType
      /\ Cleared(page, positions).n_regs = n
      /\ Cleared(page, positions).slots = slots
      /\ Cleared(page, positions).free_bytes = page.free_bytes
      /\ Cleared(page, positions).free_space = page.free_space
      /\ Cleared(page, positions).free_space_offset = page.free_space_offset
  BY <1>4, <1>6, <1>7 DEF PageType
<1>9. Used(Cleared(page, positions)) = Used(page) \ positions
  BY <1>5, <1>6, <1>8 DEF Used
<1>10. \A j \in Used(page) \ positions : Cleared(page, positions).slots[j] = page.slots[j]
  BY <1>6, <1>8 DEF Used
<1> QED BY <1>3, <1>4, <1>6, <1>8, <1>9, <1>10 DEF n

\* What a deletion leaves is sound.
THEOREM DeletedIsSound ==
  ASSUME NEW are_regs_fixed \in BOOLEAN, NEW page, Sound(are_regs_fixed, page),
         NEW positions \in SUBSET Used(page)
  PROVE  Sound(are_regs_fixed, Deleted(are_regs_fixed, page, positions))
<1> DEFINE cleared == Cleared(page, positions)
           bytes == max_reg_size * Cardinality(positions)
           other == Taken(cleared, -bytes)
<1>1. page \in PageType /\ page.n_regs = Cardinality(Used(page)) /\ page.n_regs \in Nat
  BY DEF Sound, PageType
<1>2. /\ cleared \in PageType
      /\ Used(cleared) = Used(page) \ positions
      /\ cleared.n_regs = page.n_regs - Cardinality(positions)
      /\ cleared.n_regs = Cardinality(Used(page) \ positions)
      /\ Cardinality(positions) \in Nat
      /\ cleared.free_bytes = page.free_bytes
      /\ cleared.free_space = page.free_space
      /\ cleared.free_space_offset = page.free_space_offset
      /\ Len(cleared.slots) = Len(page.slots)
      /\ \A j \in Used(page) \ positions : cleared.slots[j] = page.slots[j]
  BY <1>1, ClearedFacts, Zenon
<1> HIDE DEF cleared
<1>3. CASE are_regs_fixed
  <2>1. max_reg_size \in Nat /\ usable_for_regs \in Nat
    BY RecordPageAssumption, BitmapSettles DEF RecordPageAssumption
  <2>2. bytes \in Nat
    BY <1>2, <2>1
  <2>3. SoundFixed(page) /\ page.free_space = page.free_bytes /\ page.free_bytes \in Nat
    BY <1>3 DEF Sound, PageType
  <2>4. max_reg_size * cleared.n_regs = max_reg_size * page.n_regs - bytes
    BY <1>1, <1>2, <2>1
  <2> HIDE DEF bytes
  <2>5. /\ other.free_bytes = page.free_bytes + bytes
        /\ other.free_space = page.free_bytes + bytes
        /\ other.n_regs = cleared.n_regs
        /\ other.slots = cleared.slots
    BY <1>2, <2>2, <2>3 DEF Taken, PageType
  <2>6. other \in PageType
    <3>1. cleared.free_bytes - (-bytes) \in Nat /\ cleared.free_space - (-bytes) \in Nat
      BY <1>2, <2>2, <2>3
    <3> QED BY <1>2, <3>1 DEF Taken, PageType
  <2> HIDE DEF other
  <2>7. Used(other) = Used(cleared)
    BY <2>5 DEF Used
  <2>8. other.free_bytes = usable_for_regs - max_reg_size * other.n_regs
    <3>1. page.free_bytes = usable_for_regs - max_reg_size * page.n_regs
      BY <2>3 DEF SoundFixed
    <3>2. max_reg_size * page.n_regs \in Nat
      BY <1>1, <2>1
    <3> QED BY <2>1, <2>2, <2>4, <2>5, <3>1, <3>2
  <2>9. SoundFixed(other)
    BY <1>2, <2>3, <2>5, <2>7, <2>8 DEF SoundFixed
  <2>10. Sound(TRUE, other)
    BY <1>2, <2>5, <2>6, <2>7, <2>9 DEF Sound
  <2> QED BY <1>3, <2>10 DEF Deleted, other, cleared, bytes
<1>4. CASE ~are_regs_fixed
  <2>1. SoundSlotted(page) /\ page.free_space = page.free_bytes
    BY <1>4 DEF Sound
  <2>2. SoundSlotted(cleared)
    BY <1>2, <2>1 DEF SoundSlotted
  <2>3. Sound(FALSE, cleared)
    BY <1>2, <2>1, <2>2 DEF Sound
  <2> QED BY <1>4, <2>3 DEF Deleted, cleared
<1> QED BY <1>3, <1>4
-----------------------------------------------------------------------------
(* What insertions and deletions do to the records of a page.              *)

\* r comes of an insertion of v: a record more, where there was none, or none.
IsPut(page, r, v) ==
  /\ \A j \in Used(page) : r.page.slots[j] = page.slots[j]
  /\ r.ok => /\ r.slot \notin Used(page)
             /\ Used(r.page) = Used(page) \cup {r.slot}
             /\ r.page.slots[r.slot].value = v
  /\ ~r.ok => Used(r.page) = Used(page)

LEMMA RefusedIsPut ==
  ASSUME NEW page, NEW v
  PROVE  IsPut(page, Refused(page), v)
BY DEF IsPut, Refused

LEMMA InFixedPuts ==
  ASSUME NEW page, Sound(TRUE, page), NEW v \in Values
  PROVE  IsPut(page, InFixed(page, v), v)
<1>1. CASE Free(page) = {}
  BY <1>1, RefusedIsPut DEF InFixed
<1>2. CASE Free(page) # {}
  <2> DEFINE i == FirstFree(page)
             slot == [is_used |-> TRUE, value |-> v, offset |-> FixedOffset(i),
                      size |-> max_reg_size]
             r == InFixed(page, v)
             other == r.page
  <2>1. page \in PageType /\ page.slots \in Seq(SlotType)
    BY DEF Sound, PageType
  <2>2. other \in PageType
    BY InFixedIsSound DEF Sound
  <2>3. i \in Free(page) /\ i \in 1 .. Len(page.slots)
    BY <1>2, <2>1, FirstFreeIsFree, UsedFacts
  <2>4. other.slots = [page.slots EXCEPT ![i] = slot] /\ r.ok = TRUE /\ r.slot = i
    BY <1>2, <2>1 DEF InFixed, Taken, PageType
  <2> HIDE DEF i, r, other
  <2>5. slot \in SlotType /\ slot.is_used /\ slot.value = v
    <3>1. other.slots \in Seq(SlotType) /\ i \in DOMAIN page.slots
      BY <2>1, <2>2, <2>3 DEF PageType
    <3> DEFINE taken == slot
    <3> HIDE DEF taken
    <3>2. other.slots = [page.slots EXCEPT ![i] = taken]
      BY <2>4 DEF taken
    <3>3. other.slots[i] = taken /\ DOMAIN other.slots = DOMAIN page.slots
      BY <3>1, <3>2
    <3>4. taken \in SlotType
      BY <3>1, <3>3
    <3> QED BY <3>4 DEF taken
  <2> HIDE DEF slot
  <2>6. /\ Used(other) = Used(page) \cup {i} /\ i \notin Used(page) /\ other.slots[i] = slot
        /\ \A j \in Used(page) : other.slots[j] = page.slots[j]
    BY <2>1, <2>2, <2>3, <2>4, <2>5, PutFacts
  <2>7. IsPut(page, r, v)
    BY <2>4, <2>5, <2>6 DEF IsPut, other
  <2> QED BY <2>7 DEF r
<1> QED BY <1>1, <1>2

LEMMA InFreeSlotPuts ==
  ASSUME NEW page, Sound(FALSE, page), NEW v \in Values, Free(page) # {}
  PROVE  IsPut(page, InFreeSlot(page, v), v)
<1>1. CASE reg_size[v] > page.free_bytes
  BY <1>1, RefusedIsPut DEF InFreeSlot
<1>2. CASE ~(reg_size[v] > page.free_bytes)
  <2> DEFINE i == FirstFree(page)
             start == page.free_space_offset - reg_size[v]
             slot == [is_used |-> TRUE, value |-> v, offset |-> start, size |-> reg_size[v]]
             r == InFreeSlot(page, v)
             other == r.page
  <2>1. page \in PageType /\ page.slots \in Seq(SlotType)
    BY DEF Sound, PageType
  <2>2. other \in PageType
    BY InFreeSlotIsSound DEF Sound
  <2>3. i \in Free(page) /\ i \in 1 .. Len(page.slots)
    BY <2>1, FirstFreeIsFree, UsedFacts
  <2>4. other.slots = [page.slots EXCEPT ![i] = slot] /\ r.ok = TRUE /\ r.slot = i
    BY <1>2, <2>1 DEF InFreeSlot, Taken, PageType
  <2> HIDE DEF i, r, other, start
  <2>5. slot \in SlotType /\ slot.is_used /\ slot.value = v
    <3>1. other.slots \in Seq(SlotType) /\ i \in DOMAIN page.slots
      BY <2>1, <2>2, <2>3 DEF PageType
    <3> DEFINE taken == slot
    <3> HIDE DEF taken
    <3>2. other.slots = [page.slots EXCEPT ![i] = taken]
      BY <2>4 DEF taken
    <3>3. other.slots[i] = taken /\ DOMAIN other.slots = DOMAIN page.slots
      BY <3>1, <3>2
    <3>4. taken \in SlotType
      BY <3>1, <3>3
    <3> QED BY <3>4 DEF taken
  <2> HIDE DEF slot
  <2>6. /\ Used(other) = Used(page) \cup {i} /\ i \notin Used(page) /\ other.slots[i] = slot
        /\ \A j \in Used(page) : other.slots[j] = page.slots[j]
    BY <2>1, <2>2, <2>3, <2>4, <2>5, PutFacts
  <2>7. IsPut(page, r, v)
    BY <2>4, <2>5, <2>6 DEF IsPut, other
  <2> QED BY <2>7 DEF r
<1> QED BY <1>1, <1>2

\* An insertion puts the record in a place of its own, and moves no other; refused, it
\* leaves the records as they were.
THEOREM InsertedPuts ==
  ASSUME NEW are_regs_fixed \in BOOLEAN, NEW page, Sound(are_regs_fixed, page), NEW v \in Values
  PROVE  IsPut(page, Inserted(are_regs_fixed, page, v), v)
<1>1. CASE are_regs_fixed
  BY <1>1, InFixedPuts DEF Inserted
<1>2. CASE ~are_regs_fixed
  <2>1. CASE Free(page) # {}
    BY <1>2, <2>1, InFreeSlotPuts DEF Inserted, InSlotted
  <2>2. CASE Free(page) = {} /\ page.free_bytes < sizeof_Slot
    BY <1>2, <2>2, RefusedIsPut DEF Inserted, InSlotted
  <2>3. CASE Free(page) = {} /\ ~(page.free_bytes < sizeof_Slot)
    <3> DEFINE other == WithNewSlot(page)
    <3>1. page.free_bytes >= sizeof_Slot
      BY <1>2, <2>3 DEF Sound, PageType, sizeof_Slot
    <3>2. /\ Sound(FALSE, other) /\ Free(other) # {} /\ Used(other) = Used(page)
          /\ \A j \in Used(page) : other.slots[j] = page.slots[j]
      BY <1>2, <3>1, WithNewSlotIsSound
    <3>3. Inserted(FALSE, page, v) = InFreeSlot(other, v)
      BY <2>3 DEF Inserted, InSlotted
    <3> HIDE DEF other
    <3>4. IsPut(other, InFreeSlot(other, v), v)
      BY <3>2, InFreeSlotPuts
    <3> QED BY <1>2, <3>2, <3>3, <3>4 DEF IsPut
  <2> QED BY <2>1, <2>2, <2>3
<1> QED BY <1>1, <1>2

\* A deletion takes the records it should, and moves no other.
LEMMA DeletedTakes ==
  ASSUME NEW are_regs_fixed \in BOOLEAN, NEW page, Sound(are_regs_fixed, page),
         NEW positions \in SUBSET Used(page)
  PROVE  LET other == Deleted(are_regs_fixed, page, positions)
         IN  /\ Used(other) = Used(page) \ positions
             /\ \A j \in Used(page) \ positions : other.slots[j] = page.slots[j]
<1> DEFINE cleared == Cleared(page, positions)
           other == Deleted(are_regs_fixed, page, positions)
<1>1. page \in PageType /\ page.n_regs = Cardinality(Used(page))
  BY DEF Sound
<1>2. /\ cleared \in PageType /\ Used(cleared) = Used(page) \ positions
      /\ \A j \in Used(page) \ positions : cleared.slots[j] = page.slots[j]
  BY <1>1, ClearedFacts, Zenon
<1> HIDE DEF cleared
<1>3. other.slots = cleared.slots
  BY <1>2 DEF Deleted, Taken, PageType, cleared
<1> HIDE DEF other
<1>4. Used(other) = Used(cleared)
  BY <1>3 DEF Used
<1>5. /\ Used(other) = Used(page) \ positions
      /\ \A j \in Used(page) \ positions : other.slots[j] = page.slots[j]
  BY <1>2, <1>3, <1>4
<1> QED BY <1>5 DEF other
-----------------------------------------------------------------------------
\* What a sound page tells is so.
THEOREM SoundIsAccounted ==
  ASSUME NEW are_regs_fixed \in BOOLEAN, NEW page, Sound(are_regs_fixed, page)
  PROVE  Accounted(are_regs_fixed, page)
<1>1. /\ page \in PageType /\ page.slots \in Seq(SlotType)
      /\ page.free_space \in Nat /\ page.free_space = page.free_bytes
      /\ page.n_regs \in Nat /\ page.n_regs = Cardinality(Used(page))
  BY DEF Sound, PageType
<1>2. ASSUME NEW v \in Values, page.free_space >= Asked(are_regs_fixed, v)
      PROVE  Inserted(are_regs_fixed, page, v).ok
  <2>1. CASE are_regs_fixed
    <3>1. SoundFixed(page) /\ page.free_bytes >= max_reg_size
      BY <1>1, <1>2, <2>1 DEF Asked, Sound
    <3>2. Free(page) # {}
      <4> SUFFICES ASSUME Free(page) = {} PROVE FALSE
        OBVIOUS
      <4>1. Used(page) = 1 .. max_n_regs
        BY <1>1, <3>1, UsedFacts DEF SoundFixed
      <4>2. page.n_regs = max_n_regs
        BY <1>1, <4>1, RoomOfFixed, FS_Interval
      <4>3. page.free_bytes = usable_for_regs - max_reg_size * max_n_regs
        BY <3>1, <4>2 DEF SoundFixed
      <4>4. /\ max_reg_size \in Nat /\ usable_for_regs \in Nat
            /\ max_reg_size * max_n_regs \in Nat
        BY RoomOfFixed, RecordPageAssumption, BitmapSettles DEF RecordPageAssumption
      <4> QED BY <3>1, <4>3, <4>4, RoomOfFixed
    <3> QED BY <2>1, <3>2 DEF Inserted, InFixed
  <2>2. CASE ~are_regs_fixed
    <3>1. reg_size[v] \in Nat /\ page.free_bytes >= reg_size[v] + 24 /\ page.free_bytes \in Nat
      BY <1>1, <1>2, <2>2, RecordPageAssumption DEF Asked, sizeof_Slot, RecordPageAssumption
    <3>2. CASE Free(page) # {}
      <4>1. ~(reg_size[v] > page.free_bytes)
        BY <3>1
      <4> QED BY <2>2, <3>2, <4>1 DEF Inserted, InSlotted, InFreeSlot
    <3>3. CASE Free(page) = {}
      <4>1. WithNewSlot(page).free_bytes = page.free_bytes - 24
        BY <1>1 DEF WithNewSlot, Taken, PageType, sizeof_Slot
      <4>2. ~(reg_size[v] > WithNewSlot(page).free_bytes) /\ ~(page.free_bytes < sizeof_Slot)
        BY <3>1, <4>1 DEF sizeof_Slot
      <4> QED BY <2>2, <3>3, <4>2 DEF Inserted, InSlotted, InFreeSlot
    <3> QED BY <3>2, <3>3
  <2> QED BY <2>1, <2>2
<1>3. are_regs_fixed => page.free_bytes = usable_for_regs - max_reg_size * page.n_regs
  BY DEF Sound, SoundFixed
<1>4. ~are_regs_fixed =>
        page.free_space_offset =
          page.free_bytes + sizeof_Slot * Len(page.slots)
            + base_slotted_data_header_size + sizeof_PageHeader
  BY DEF Sound, SoundSlotted
<1> QED BY <1>1, <1>2, <1>3, <1>4 DEF Accounted

\* The records of a sound page keep apart.
THEOREM SoundIsApart ==
  ASSUME NEW are_regs_fixed \in BOOLEAN, NEW page, Sound(are_regs_fixed, page)
  PROVE  Apart(are_regs_fixed, page)
<1>1. page \in PageType /\ page.slots \in Seq(SlotType) /\ Len(page.slots) \in Nat
  BY DEF Sound, PageType
<1>2. BLOCK_SIZE \in Nat /\ max_reg_size \in Nat /\ bitmap_size \in Nat
  BY RecordPageAssumption, BitmapSettles DEF RecordPageAssumption
<1>3. \A i \in Used(page) : page.slots[i].offset \in Nat /\ page.slots[i].size \in Nat
  <2>1. \A i \in Used(page) : page.slots[i] \in SlotType
    BY <1>1, UsedFacts
  <2> QED BY <2>1 DEF SlotType
<1>4. \* It is enough that the ends of the records are in order.
      SUFFICES ASSUME NEW i \in Used(page)
               PROVE  /\ HeadersEnd(are_regs_fixed, page) <= page.slots[i].offset
                      /\ page.slots[i].offset + page.slots[i].size <= BLOCK_SIZE
                      /\ \A j \in Used(page) \ {i} :
                           \/ Before(page.slots[i], page.slots[j])
                           \/ Before(page.slots[j], page.slots[i])
  <2>1. HeadersEnd(are_regs_fixed, page) \in Int
    BY <1>1, <1>2 DEF HeadersEnd, static_header_size, base_slotted_data_header_size
  <2> QED BY <1>2, <1>3, <2>1 DEF Apart, Bytes, Before
<1>5. CASE are_regs_fixed
  <2> DEFINE base == static_header_size + bitmap_size + sizeof_PageHeader
  <2>1. SoundFixed(page) /\ base \in Nat
    BY <1>2, <1>5 DEF Sound, static_header_size, sizeof_PageHeader
  <2>2. \A j \in Used(page) :
          /\ j \in 1 .. max_n_regs
          /\ page.slots[j].offset = base + max_reg_size * (j - 1)
          /\ page.slots[j].size = max_reg_size
    BY <1>1, <2>1, UsedFacts DEF SoundFixed, FixedOffset
  <2>3. usable_for_regs = BLOCK_SIZE - base
    BY <1>2 DEF usable_for_regs, static_header_size, sizeof_PageHeader
  <2>4. HeadersEnd(are_regs_fixed, page) <= base
    BY <1>2, <1>5 DEF HeadersEnd, static_header_size, sizeof_PageHeader
  <2>5. HeadersEnd(are_regs_fixed, page) \in Nat
    BY <1>2, <1>5 DEF HeadersEnd, static_header_size
  <2> HIDE DEF base
  <2>6. \A j \in Used(page) : max_reg_size * (j - 1) \in Nat
    BY <1>2, <2>2, RoomOfFixed
  <2>7. HeadersEnd(are_regs_fixed, page) <= page.slots[i].offset
    BY <2>1, <2>2, <2>4, <2>5, <2>6
  <2>8. page.slots[i].offset + page.slots[i].size <= BLOCK_SIZE
    <3>1. max_reg_size * (i - 1) + max_reg_size <= max_reg_size * max_n_regs
      BY <1>2, <2>2, RoomOfFixed, Multiples
    <3>2. max_reg_size * max_n_regs \in Nat /\ usable_for_regs \in Nat
      BY <1>2, RoomOfFixed, BitmapSettles
    <3> QED BY <1>2, <2>1, <2>2, <2>3, <2>6, <3>1, <3>2, RoomOfFixed
  <2>9. ASSUME NEW j \in Used(page) \ {i}
        PROVE  Before(page.slots[i], page.slots[j]) \/ Before(page.slots[j], page.slots[i])
    <3>1. CASE i < j
      <4>1. max_reg_size * (i - 1) + max_reg_size <= max_reg_size * (j - 1)
        BY <1>2, <2>2, <3>1, RoomOfFixed, Multiples
      <4> QED BY <1>2, <2>1, <2>2, <2>6, <4>1 DEF Before
    <3>2. CASE j < i
      <4>1. max_reg_size * (j - 1) + max_reg_size <= max_reg_size * (i - 1)
        BY <1>2, <2>2, <3>2, RoomOfFixed, Multiples
      <4> QED BY <1>2, <2>1, <2>2, <2>6, <4>1 DEF Before
    <3> QED BY <2>2, <3>1, <3>2, RoomOfFixed
  <2> QED BY <2>7, <2>8, <2>9
<1>6. CASE ~are_regs_fixed
  <2>1. SoundSlotted(page) /\ page.free_bytes \in Nat /\ page.free_space_offset \in Nat
    BY <1>6 DEF Sound, PageType
  <2>2. HeadersEnd(are_regs_fixed, page) = 16 + 5 * Len(page.slots)
    BY <1>1, <1>6 DEF HeadersEnd, base_slotted_data_header_size
  <2>3. page.free_space_offset = page.free_bytes + 24 * Len(page.slots) + 30
    BY <1>1, <2>1
    DEF SoundSlotted, sizeof_Slot, base_slotted_data_header_size, sizeof_PageHeader
  <2>4. page.free_space_offset <= page.slots[i].offset
    BY <2>1 DEF SoundSlotted
  <2>5. HeadersEnd(are_regs_fixed, page) <= page.slots[i].offset
    BY <1>1, <1>3, <2>1, <2>2, <2>3, <2>4
  <2> QED BY <2>1, <2>5 DEF SoundSlotted
<1> QED BY <1>5, <1>6
=============================================================================
