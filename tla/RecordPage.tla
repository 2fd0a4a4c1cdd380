----------------------------- MODULE RecordPage ------------------------------
(***************************************************************************)
(* A page of records (src/include/serial): fixed, with a bitmap of the     *)
(* places taken, or slotted, with a directory of slots that grows towards  *)
(* the records.                                                            *)
(*                                                                         *)
(* Both are one kind of record here.  The bit of a fixed place is is_used, *)
(* and the bytes of a record are its value, which is right as long as no   *)
(* two records overlap (Apart).  Positions count from one.                 *)
(***************************************************************************)
EXTENDS Integers, FiniteSets, Sequences

CONSTANTS
  BLOCK_SIZE,
  Values,        \* the records, told apart by their column with an index
  NoValue,
  max_reg_size,  \* bytes of a record on a fixed page
  reg_size       \* bytes of every record on a slotted page

\* What sizeof gives for a PageHeader and a Slot, which are made of references.  On the
\* page they take 10 and 5 bytes.
sizeof_PageHeader == 24
sizeof_Slot == 24

\* free_bytes, reg_size and max_n_regs of a fixed page; free_bytes, n_slots and
\* free_space_offset of a slotted one.
static_header_size == 10
base_slotted_data_header_size == 6

\* The offsets of a slotted page have two bytes; every record fits an empty page.
ASSUME RecordPageAssumption ==
  /\ BLOCK_SIZE \in 1 .. 2 ^ 16 - 1
  /\ NoValue \notin Values
  /\ max_reg_size \in Nat \ {0}
  /\ reg_size \in [Values -> Nat \ {0}]
  /\ static_header_size + 1 + sizeof_PageHeader + max_reg_size <= BLOCK_SIZE
  /\ \A v \in Values :
       base_slotted_data_header_size + sizeof_PageHeader + sizeof_Slot + reg_size[v] <= BLOCK_SIZE

NULL_PAGE == 0

FreeSlot == [is_used |-> FALSE, value |-> NoValue, offset |-> 0, size |-> 0]

Used(page) == {i \in DOMAIN page.slots : page.slots[i].is_used}

Free(page) == DOMAIN page.slots \ Used(page)

\* The records of a page: every one with its position.
RegsOf(page) == {<<page.slots[i].value, i>> : i \in Used(page)}

\* The position of the n-th record there is, from zero.
Nth(page, n) == {i \in Used(page) : Cardinality({j \in Used(page) : j < i}) = n}
-----------------------------------------------------------------------------
(* New pages.                                                              *)

BitmapBytes(n_regs) == (n_regs + 7) \div 8

RegsWithBitmap(bytes) ==
  (BLOCK_SIZE - static_header_size - bytes - sizeof_PageHeader) \div max_reg_size

\* The bytes of the bitmap: those the records take that are left room by the bitmap.
bitmap_size ==
  LET settle[bytes \in Nat] ==
        LET needed == BitmapBytes(RegsWithBitmap(bytes))
        IN  IF needed = bytes THEN bytes ELSE settle[needed]
  IN  settle[1]

\* calc_free_bytes_max_regs.
usable_for_regs == BLOCK_SIZE - static_header_size - bitmap_size - sizeof_PageHeader
max_n_regs == RegsWithBitmap(bitmap_size)

\* It is found: for some sizes it would go back and forth.
ASSUME BitmapSettles == bitmap_size \in Nat /\ usable_for_regs \in Nat

NewFixedPage ==
  [next_block_id |-> NULL_PAGE, free_space |-> usable_for_regs, n_regs |-> 0,
   free_bytes |-> usable_for_regs, free_space_offset |-> 0,
   slots |-> [i \in 1 .. max_n_regs |-> FreeSlot]]

slotted_free_bytes == BLOCK_SIZE - base_slotted_data_header_size - sizeof_PageHeader

NewSlottedPage ==
  [next_block_id |-> NULL_PAGE, free_space |-> slotted_free_bytes, n_regs |-> 0,
   free_bytes |-> slotted_free_bytes, free_space_offset |-> BLOCK_SIZE, slots |-> <<>>]

\* create_page.
NewPage(are_regs_fixed) == IF are_regs_fixed THEN NewFixedPage ELSE NewSlottedPage
-----------------------------------------------------------------------------
(* Changes.                                                                *)

\* The bytes an insertion asks a page to have free: on a slotted one, as if it always took
\* a new slot.
Asked(are_regs_fixed, v) ==
  IF are_regs_fixed THEN max_reg_size ELSE reg_size[v] + sizeof_Slot

\* Faulty: only the header of the page knows.
TakenFromPageHeader(page, bytes) == [page EXCEPT !.free_space = @ - bytes]

\* Both counts of free bytes, that of the page header and that of the data header.
Taken(page, bytes) == [page EXCEPT !.free_bytes = @ - bytes, !.free_space = @ - bytes]

FirstFree(page) == CHOOSE i \in Free(page) : \A j \in Free(page) : i <= j

\* calculate_reg_offset.
FixedOffset(i) ==
  static_header_size + bitmap_size + sizeof_PageHeader + max_reg_size * (i - 1)

\* What comes of an insertion: if it was possible, the page after it, the position.
Refused(page) == [ok |-> FALSE, page |-> page, slot |-> 0]

InFixed(page, v) ==
  LET i == FirstFree(page)
      slot == [is_used |-> TRUE, value |-> v, offset |-> FixedOffset(i), size |-> max_reg_size]
  IN  IF Free(page) = {} THEN Refused(page)
      ELSE [ok |-> TRUE, slot |-> i,
            page |-> [Taken(page, max_reg_size) EXCEPT !.n_regs = @ + 1, !.slots[i] = slot]]

\* add_free_slot.
WithNewSlot(page) == [Taken(page, sizeof_Slot) EXCEPT !.slots = Append(@, FreeSlot)]

\* Faulty: the room is not looked at.
InFreeSlotAnyway(page, v) ==
  LET i == FirstFree(page)
      start == page.free_space_offset - reg_size[v]
      slot == [is_used |-> TRUE, value |-> v, offset |-> start, size |-> reg_size[v]]
  IN  [ok |-> TRUE, slot |-> i,
       page |-> [Taken(page, reg_size[v]) EXCEPT !.n_regs = @ + 1, !.slots[i] = slot,
                                                 !.free_space_offset = start]]

\* prepare_slotted_insert, which refuses after a slot was added, and the slot stays.
InFreeSlot(page, v) ==
  LET i == FirstFree(page)
      start == page.free_space_offset - reg_size[v]
      slot == [is_used |-> TRUE, value |-> v, offset |-> start, size |-> reg_size[v]]
  IN  IF reg_size[v] > page.free_bytes THEN Refused(page)
      ELSE [ok |-> TRUE, slot |-> i,
            page |-> [Taken(page, reg_size[v]) EXCEPT !.n_regs = @ + 1, !.slots[i] = slot,
                                                      !.free_space_offset = start]]

InSlotted(page, v) ==
  IF Free(page) # {} THEN InFreeSlot(page, v)
  ELSE IF page.free_bytes < sizeof_Slot THEN Refused(page)
  ELSE InFreeSlot(WithNewSlot(page), v)

\* insert_register_bytes.
Inserted(are_regs_fixed, page, v) ==
  IF are_regs_fixed THEN InFixed(page, v) ELSE InSlotted(page, v)

\* Faulty: they are counted, and the first ones go.
ClearedFromFirst(page, positions) ==
  [page EXCEPT !.n_regs = @ - Cardinality(positions),
               !.slots = [i \in DOMAIN @ |-> IF i <= Cardinality(positions) THEN FreeSlot ELSE @[i]]]

Cleared(page, positions) ==
  [page EXCEPT !.n_regs = @ - Cardinality(positions),
               !.slots = [i \in DOMAIN @ |-> IF i \in positions THEN FreeSlot ELSE @[i]]]

\* The records in positions are taken away.  The bytes of a slotted page stay taken.
Deleted(are_regs_fixed, page, positions) ==
  IF are_regs_fixed THEN Taken(Cleared(page, positions), -(max_reg_size * Cardinality(positions)))
  ELSE Cleared(page, positions)
-----------------------------------------------------------------------------
(* What is right for a page.                                               *)

\* Both headers tell the same room, and it is what the records leave: a record a header
\* promises room for can be put there.
Accounted(are_regs_fixed, page) ==
  /\ page.n_regs = Cardinality(Used(page))
  /\ page.free_space = page.free_bytes
  /\ are_regs_fixed => page.free_bytes = usable_for_regs - max_reg_size * page.n_regs
  /\ ~are_regs_fixed =>
       page.free_space_offset =
         page.free_bytes + sizeof_Slot * Len(page.slots)
           + base_slotted_data_header_size + sizeof_PageHeader
  /\ \A v \in Values :
       page.free_space >= Asked(are_regs_fixed, v) => Inserted(are_regs_fixed, page, v).ok

\* Where the bytes before the records end: headers, and a bitmap or slots.
HeadersEnd(are_regs_fixed, page) ==
  10 + (IF are_regs_fixed THEN static_header_size + bitmap_size
        ELSE base_slotted_data_header_size + 5 * Len(page.slots))

Bytes(slot) == slot.offset .. slot.offset + slot.size - 1

\* The records are in the page, after its headers, and no two share a byte.
Apart(are_regs_fixed, page) ==
  \A i \in Used(page) :
    /\ Bytes(page.slots[i]) \subseteq HeadersEnd(are_regs_fixed, page) .. BLOCK_SIZE - 1
    /\ \A j \in Used(page) \ {i} : Bytes(page.slots[i]) \cap Bytes(page.slots[j]) = {}
=============================================================================
