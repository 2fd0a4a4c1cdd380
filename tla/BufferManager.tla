---------------------------- MODULE BufferManager ----------------------------
(***************************************************************************)
(* The buffer pool (src/src/buffer_manager): a bounded set of frames over  *)
(* the block device, replaced by LRU or by the clock, with pin counts.     *)
(*                                                                         *)
(* The code above the pool is single-threaded.  An operation of it takes   *)
(* references to frames (load_pin_page, get_load_free_frame), changes      *)
(* bytes through them and gives them back (free_unpin_page).  It may also  *)
(* end early, by a return or by an exception the menus catch, and then the *)
(* pins it took stay: those references are gone and their pins are leaked. *)
(***************************************************************************)
EXTENDS BlockDevice, SequencesExt

CONSTANTS
  capacity,  \* the number of frames
  NoFrame,   \* stands for a page id that is not a key of frame_map
  MaxPin,    \* bound of the model: no pin_count grows beyond it
  MaxHeld,   \* bound of the model: pages an operation refers to at one time
  MaxFixed   \* bound of the model: pages the menus fix at one time

ASSUME BufferManagerAssumption ==
  /\ capacity \in Nat \ {0}
  /\ MaxPin \in Nat \ {0}
  \* The geometry in which get_free_block throws on a full disk.  In the other it
  \* returns NULL_BLOCK: module FullDisk.
  /\ TOTAL_BLOCKS > N_BLOCKS

VARIABLES
  is_clock,     \* the replacement policy the constructor was given
  frame_map,    \* the frame of every page in the pool
  frame_slots,  \* the page in every slot, or NULL_BLOCK
  lru_list,     \* the pages from the most to the least recently used
  clock_hand,   \* the slot the clock looks at next
  held,         \* references to each page the running operation has not returned
  unmarked,     \* pages changed through a reference since the last dirty unpin
  owners        \* how many structures were given each page and still use it

deviceVars == <<disk, used>>
poolVars == <<is_clock, frame_map, frame_slots, lru_list, clock_hand>>
clientVars == <<held, unmarked, owners>>
vars == <<deviceVars, poolVars, clientVars>>

Slots == 0 .. capacity - 1

BufferFrame ==
  [bytes : Bytes, dirty : BOOLEAN, pin_count : Nat, fixed_pin : BOOLEAN,
   reference_bit : BOOLEAN]

ASSUME NoFrameAssumption == NoFrame \notin BufferFrame

TypeOK ==
  /\ disk \in [BlockIds -> Bytes]
  /\ used \in SUBSET BlockIds
  /\ is_clock \in BOOLEAN
  /\ frame_map \in [BlockIds -> BufferFrame \cup {NoFrame}]
  /\ frame_slots \in [Slots -> BlockIds \cup {NULL_BLOCK}]
  /\ lru_list \in Seq(BlockIds)
  /\ clock_hand \in Slots
  /\ held \in [BlockIds -> Nat]
  /\ unmarked \in SUBSET BlockIds
  /\ owners \in [BlockIds -> Nat]

\* The constructor over a disk just created or loaded.  What is on a block in
\* use is whatever an earlier session left, and each has one owner.
Init ==
  /\ used \in SUBSET BlockIds
  /\ disk \in {d \in [BlockIds -> Bytes] : \A b \in BlockIds \ used : d[b] = Zero}
  /\ is_clock \in BOOLEAN
  /\ frame_map = [p \in BlockIds |-> NoFrame]
  /\ frame_slots = [s \in Slots |-> NULL_BLOCK]
  /\ lru_list = <<>>
  /\ clock_hand = 0
  /\ held = [p \in BlockIds |-> 0]
  /\ unmarked = {}
  /\ owners = [p \in BlockIds |-> IF p \in used THEN 1 ELSE 0]
-----------------------------------------------------------------------------
(* Eviction.                                                               *)

\* The keys of frame_map.
Resident == {p \in BlockIds : frame_map[p] # NoFrame}

HasRoom == Cardinality(Resident) < capacity

\* Faulty variants, for the checks' own sensitivity: no look at the fixed pin, no
\* look at pin_count.
EvictableIfUnpinned(p) == p \in Resident /\ frame_map[p].pin_count = 0

EvictableIfNotFixed(p) == p \in Resident /\ ~frame_map[p].fixed_pin

Evictable(p) ==
  /\ p \in Resident
  /\ frame_map[p].pin_count = 0
  /\ ~frame_map[p].fixed_pin

\* evict_page_LRU walks the list from the back to the first evictable page.
LruVictim(p) ==
  \E i \in DOMAIN lru_list :
    /\ lru_list[i] = p
    /\ Evictable(p)
    /\ \A j \in DOMAIN lru_list : j > i => ~Evictable(lru_list[j])

\* How many slots the hand passes before it reaches s.
Distance(s) == (s - clock_hand) % capacity

RefBit(s) == frame_map[frame_slots[s]].reference_bit

\* evict_page_Clock passes over pinned frames and takes the reference bit of the
\* other frames it passes.  The first frame it meets without a bit goes: in its
\* first lap or, when every evictable frame had one, in the second.
ClockVictim(s) ==
  /\ Evictable(frame_slots[s])
  /\ \A t \in Slots \ {s} :
       Evictable(frame_slots[t]) =>
         IF RefBit(s) = RefBit(t) THEN Distance(s) < Distance(t) ELSE RefBit(t)

\* Faulty: only the first lap takes bits.
PassedInFirstLap(t, s) == Evictable(frame_slots[t]) /\ Distance(t) < Distance(s)

\* The hand took the reference bit of slot t on its way to the victim in s.
PassedBefore(t, s) ==
  /\ Evictable(frame_slots[t])
  /\ RefBit(s) \/ Distance(t) < Distance(s)

\* The slot evict_page empties.  With no such slot it throws.
Victim(s) == IF is_clock THEN ClockVictim(s) ELSE LruVictim(frame_slots[s])

LoopStates == [attempts : 0 .. 10 * capacity, hand : Slots, bits : SUBSET Slots]

\* The loop of evict_page_Clock as it is written: the slot it empties (none is
\* capacity), the bits left, and where the hand ends.
evict_page_Clock[at \in LoopStates] ==
  LET next == [at EXCEPT !.hand = (@ + 1) % capacity]
      tried == [next EXCEPT !.attempts = @ + 1]
  IN  IF at.attempts = 10 * capacity
        THEN [slot |-> capacity, bits |-> at.bits, hand |-> at.hand]
      ELSE IF frame_slots[at.hand] = NULL_BLOCK
        THEN evict_page_Clock[next]
      ELSE IF ~Evictable(frame_slots[at.hand])
        THEN evict_page_Clock[tried]
      ELSE IF at.hand \in at.bits
        THEN evict_page_Clock[[tried EXCEPT !.bits = @ \ {at.hand}]]
      ELSE [slot |-> at.hand, bits |-> at.bits, hand |-> next.hand]

\* Faulty: the slot is not emptied.
SlotKept(s) == frame_slots

SlotsWithout(s) == [frame_slots EXCEPT ![s] = NULL_BLOCK]

FramesWithout(s) ==
  LET cleared == {frame_slots[t] : t \in {u \in Slots : is_clock /\ PassedBefore(u, s)}}
  IN  [p \in BlockIds |->
         IF p = frame_slots[s] THEN NoFrame
         ELSE IF p \in cleared THEN [frame_map[p] EXCEPT !.reference_bit = FALSE]
         ELSE frame_map[p]]

IndexOf(p) == CHOOSE i \in DOMAIN lru_list : lru_list[i] = p

\* Faulty: the list entry stays.
ListKept(p) == lru_list

ListWithout(p) == IF is_clock THEN lru_list ELSE RemoveAt(lru_list, IndexOf(p))

\* Faulty: no wrap around.
HandRunsOff(s) == IF is_clock THEN s + 1 ELSE clock_hand

HandAfter(s) == IF is_clock THEN (s + 1) % capacity ELSE clock_hand

\* Faulty: nothing is written back.
WriteNothing(pages) == UNCHANGED deviceVars

\* write_block for those of the pages that are dirty.
WriteDirty(pages) ==
  WriteBlocks([p \in {q \in pages : frame_map[q].dirty} |-> frame_map[p].bytes])
-----------------------------------------------------------------------------
(* Loading.                                                                *)

\* find_free_slot
IsFreeSlot(s, slots) == IsFirst(s, {t \in Slots : slots[t] = NULL_BLOCK})

NewFrame(p) ==
  [bytes |-> disk[p], dirty |-> FALSE, pin_count |-> 1, fixed_pin |-> FALSE,
   reference_bit |-> is_clock]

\* load_page into what eviction left, and the pin load_pin_page adds.
LoadPage(p, slots, frames, list) ==
  /\ \E s \in Slots :
       /\ IsFreeSlot(s, slots)
       /\ frame_slots' = [slots EXCEPT ![s] = p]
  /\ frame_map' = [frames EXCEPT ![p] = NewFrame(p)]
  /\ lru_list' = IF is_clock THEN list ELSE <<p>> \o list

\* load_pin_page of a page that is not in the pool.
Miss(p) ==
  /\ p \notin Resident
  /\ UNCHANGED is_clock
  /\ \/ /\ HasRoom
        /\ LoadPage(p, frame_slots, frame_map, lru_list)
        /\ UNCHANGED <<deviceVars, clock_hand>>
     \/ /\ ~HasRoom
        /\ \E s \in Slots :
             /\ Victim(s)
             /\ WriteDirty({frame_slots[s]})
             /\ LoadPage(p, SlotsWithout(s), FramesWithout(s), ListWithout(frame_slots[s]))
             /\ clock_hand' = HandAfter(s)

\* Bound of the model.
MayTakeReference == Cardinality({p \in BlockIds : held[p] > 0}) < MaxHeld

\* The running operation ends with an exception, as an insertion into a page without room
\* does: it returns none of its pins.
Unwind == held' = [p \in BlockIds |-> 0]

LoadPinMiss(p) ==
  /\ MayTakeReference
  /\ Miss(p)
  /\ held' = [held EXCEPT ![p] = @ + 1]
  /\ UNCHANGED <<unmarked, owners>>

LoadPinHit(p) ==
  /\ MayTakeReference
  /\ p \in Resident
  /\ frame_map[p].pin_count < MaxPin
  /\ frame_map' = [frame_map EXCEPT
       ![p].pin_count = @ + 1,
       ![p].reference_bit = IF is_clock THEN TRUE ELSE @]
  /\ lru_list' = IF is_clock THEN lru_list ELSE <<p>> \o ListWithout(p)
  /\ held' = [held EXCEPT ![p] = @ + 1]
  /\ UNCHANGED <<deviceVars, is_clock, frame_slots, clock_hand, unmarked, owners>>

\* No frame can go: evict_page throws.
LoadPinThrows ==
  /\ ~HasRoom
  /\ \A s \in Slots : ~Victim(s)
  /\ Unwind
  /\ UNCHANGED <<deviceVars, poolVars, unmarked, owners>>

\* load_pin_page of an id past the last block (a NULL_BLOCK followed as a link, a
\* number typed in the menu): a page is evicted before read_block refuses.
LoadPinInvalid ==
  /\ \/ /\ HasRoom
        /\ UNCHANGED <<deviceVars, frame_slots, frame_map, lru_list, clock_hand>>
     \/ /\ ~HasRoom
        /\ \E s \in Slots :
             /\ Victim(s)
             /\ WriteDirty({frame_slots[s]})
             /\ frame_slots' = SlotsWithout(s)
             /\ frame_map' = FramesWithout(s)
             /\ lru_list' = ListWithout(frame_slots[s])
             /\ clock_hand' = HandAfter(s)
  /\ Unwind
  /\ UNCHANGED <<is_clock, unmarked, owners>>

\* get_load_free_frame: the first block that is neither used nor in the pool.
\* The caller is about to fill it.
GetLoadFreeFrame ==
  /\ MayTakeReference
  /\ \E p \in BlockIds :
       /\ IsFirst(p, FreeBlocks(Resident))
       /\ Miss(p)
       /\ held' = [held EXCEPT ![p] = @ + 1]
       /\ unmarked' = unmarked \cup {p}
       /\ owners' = [owners EXCEPT ![p] = @ + 1]

\* No block is left: get_free_block reads past the block map and throws.
GetLoadFreeFrameThrows ==
  /\ FreeBlocks(Resident) = {}
  /\ Unwind
  /\ UNCHANGED <<deviceVars, poolVars, unmarked, owners>>
-----------------------------------------------------------------------------
(* The holder of a reference.                                              *)

\* A change of the frame's bytes, of a page the caller owns.  A page with content
\* never goes back to all zeros: every page starts with a header that has none.
\* v may be what the page has already, as after an update that changes nothing.
WriteFrame(p, v) ==
  /\ held[p] > 0
  /\ owners[p] > 0
  /\ frame_map' = [frame_map EXCEPT ![p].bytes = v]
  /\ unmarked' = unmarked \cup {p}
  /\ UNCHANGED <<deviceVars, is_clock, frame_slots, lru_list, clock_hand, held, owners>>

\* Faulty: the last unpin decides.
LastUnpinDecides(p, is_dirty) == is_dirty

\* A clean unpin does not undo an earlier dirty one.
DirtyAfter(p, is_dirty) == frame_map[p].dirty \/ is_dirty

\* free_unpin_page.  Whoever changed the page says so when it returns it, so the
\* last pin of a changed page never goes with is_dirty false.  Nobody returns a page twice
\* here: the indexes do, with pages of theirs that they no longer use.
FreeUnpin(p, is_dirty) ==
  /\ held[p] > 0
  /\ p \in Resident
  /\ p \in unmarked /\ ~is_dirty => frame_map[p].pin_count > 1
  /\ is_dirty => p \in unmarked
  /\ frame_map' = [frame_map EXCEPT
       ![p].pin_count = IF @ > 0 THEN @ - 1 ELSE @,
       ![p].dirty = DirtyAfter(p, is_dirty)]
  /\ held' = [held EXCEPT ![p] = @ - 1]
  /\ unmarked' = IF is_dirty THEN unmarked \ {p} ELSE unmarked
  /\ UNCHANGED <<deviceVars, is_clock, frame_slots, lru_list, clock_hand, owners>>

\* A return before the unpin, of a page only read (BPTree::remove, of a key it does not
\* find): the pin stays.
ReturnEarly(p) ==
  /\ held[p] > 0
  /\ p \notin unmarked
  /\ held' = [held EXCEPT ![p] = @ - 1]
  /\ UNCHANGED <<deviceVars, poolVars, unmarked, owners>>
-----------------------------------------------------------------------------
(* The menus, between operations.                                          *)

Idle == \A p \in BlockIds : held[p] = 0

FlushAll ==
  /\ Idle
  /\ WriteDirty(Resident)
  /\ frame_map' = [p \in BlockIds |->
       IF p \in Resident THEN [frame_map[p] EXCEPT !.dirty = FALSE] ELSE NoFrame]
  /\ UNCHANGED <<is_clock, frame_slots, lru_list, clock_hand, clientVars>>

\* What was never written is gone, and so are the blocks given out and not used.
Clear ==
  /\ Idle
  /\ frame_map' = [p \in BlockIds |-> NoFrame]
  /\ frame_slots' = [s \in Slots |-> NULL_BLOCK]
  /\ lru_list' = <<>>
  /\ clock_hand' = 0
  /\ unmarked' = {}
  /\ owners' = [p \in BlockIds |-> IF p \in used THEN owners[p] ELSE 0]
  /\ UNCHANGED <<deviceVars, is_clock, held>>

SetFixedPin(p, value) ==
  /\ Idle
  /\ p \in Resident
  /\ value => Cardinality({q \in Resident : frame_map[q].fixed_pin}) < MaxFixed
  /\ frame_map' = [frame_map EXCEPT ![p].fixed_pin = value]
  /\ UNCHANGED <<deviceVars, is_clock, frame_slots, lru_list, clock_hand, clientVars>>
-----------------------------------------------------------------------------
Next ==
  \/ \E p \in BlockIds :
       \/ LoadPinHit(p)
       \/ LoadPinMiss(p)
       \/ ReturnEarly(p)
       \/ \E v \in Bytes \ {Zero} : WriteFrame(p, v)
       \/ \E is_dirty \in BOOLEAN : FreeUnpin(p, is_dirty)
       \/ \E value \in BOOLEAN : SetFixedPin(p, value)
  \/ LoadPinThrows
  \/ LoadPinInvalid
  \/ GetLoadFreeFrame
  \/ GetLoadFreeFrameThrows
  \/ FlushAll
  \/ Clear

Spec == Init /\ [][Next]_vars
-----------------------------------------------------------------------------
(* Properties.                                                             *)

\* frame_slots, frame_map and lru_list describe the same pages: a page in the
\* pool has one slot, and under LRU one place in the list.
Bookkeeping ==
  /\ \A s \in Slots : frame_slots[s] # NULL_BLOCK => frame_slots[s] \in Resident
  /\ \A p \in Resident : \E s \in Slots : frame_slots[s] = p
  /\ \A s, t \in Slots :
       frame_slots[s] # NULL_BLOCK /\ frame_slots[s] = frame_slots[t] => s = t
  /\ IsInjective(lru_list)
  /\ Range(lru_list) = IF is_clock THEN {} ELSE Resident

\* The size test of load_pin_page and the slot search of load_page agree, so its
\* "Error en eviction" is never thrown.
RoomMeansFreeSlot == HasRoom => \E s \in Slots : frame_slots[s] = NULL_BLOCK

\* A frame that is not dirty, and that nobody is changing, holds what is on the
\* disk: dropping it without a write loses nothing.
CleanMatchesDisk ==
  \A p \in Resident :
    ~frame_map[p].dirty /\ p \notin unmarked => frame_map[p].bytes = disk[p]

\* A reference an operation still has points to a frame that is in the pool and
\* has a pin for it; and a page with changes nobody has marked dirty is pinned,
\* even when the reference was lost, so that it cannot be evicted unwritten.
HeldArePinned ==
  \A p \in BlockIds :
    /\ held[p] > 0 => p \in Resident /\ frame_map[p].pin_count >= held[p]
    /\ p \in unmarked => p \in Resident /\ frame_map[p].pin_count > 0

\* get_load_free_frame never gives a page that some table, bucket or node already
\* has, written or still only in the pool.
SingleOwner == \A p \in BlockIds : owners[p] <= 1

\* A page some structure uses cannot be lost by forgetting it: it is used on the
\* disk, or in the pool and on its way to be written.
OwnedIsKept ==
  \A p \in BlockIds :
    owners[p] > 0 =>
      \/ p \in used
      \/ p \in Resident /\ (frame_map[p].dirty \/ p \in unmarked)

\* A block given out as new holds zeros (SlottedPage and FixedPage headers are
\* never cleared by their constructors and rely on it).
FreeBlocksAreZero == \A b \in BlockIds \ used : disk[b] = Zero

\* The closed form of the clock agrees with the loop: same victim, same bits
\* taken, same place of the hand, and it gives up only when nothing can go.
ClockLoopAgrees ==
  is_clock /\ ~HasRoom =>
    LET bits == {s \in Slots : RefBit(s)}
        end == evict_page_Clock[[attempts |-> 0, hand |-> clock_hand, bits |-> bits]]
    IN  IF end.slot = capacity
        THEN \A s \in Slots : ~Victim(s)
        ELSE /\ \A s \in Slots : Victim(s) <=> s = end.slot
             /\ end.hand = HandAfter(end.slot)
             /\ \A t \in Slots \ {end.slot} :
                  FramesWithout(end.slot)[frame_slots[t]].reference_bit <=> t \in end.bits

\* A pinned or fixed page leaves the pool only when a menu empties it.
PinnedStays ==
  [][\A p \in Resident :
       frame_map[p].pin_count > 0 \/ frame_map[p].fixed_pin => p \in Resident' \/ Clear]_vars

\* The pages the running operation refers to, and what the readers of a page see.
References == {p \in BlockIds : held[p] > 0}

PageView == [p \in BlockIds |-> IF p \in Resident THEN frame_map[p].bytes ELSE disk[p]]

Store == INSTANCE PageStore WITH Pages <- BlockIds, view <- PageView, durable <- disk,
                                lent <- References

\* The pool implements the page store: loads, evictions, write-backs and errors
\* never change what a reader of any page sees.
ImplementsPageStore == Store!Spec
=============================================================================
