------------------------- MODULE BufferSessionProofs --------------------------
(***************************************************************************)
(* Theorems about BufferSession, for every number of blocks and frames.    *)
(***************************************************************************)
EXTENDS BufferSession, BufferManagerProofs

\* While a load waits, the pool is full of other pages.
EvictionInv ==
  eviction # Nobody =>
    /\ eviction \in [page : BlockIds, at : Nat]
    /\ eviction.page \notin Resident
    /\ ~HasRoom
    /\ is_clock \/ eviction.at \in DOMAIN lru_list

SessionInv ==
  /\ TypeOK
  /\ Bookkeeping
  /\ ops_queue \in [BlockIds -> Seq(Processes)]
  /\ overrun \in SUBSET BlockIds
  /\ EvictionInv
  /\ ProcessesArePinned

\* An id of a page is not that of nobody.
LEMMA WaitingIsSomebody ==
  ASSUME NEW p \in BlockIds, NEW at
  PROVE  Waiting(p, at) # Nobody
<1>1. Waiting(p, at).page # Nobody.page
  BY NullIsNoBlock DEF Waiting, Nobody
<1> QED BY <1>1

\* The blocks are finitely many.
LEMMA ResidentIsFinite == IsFiniteSet(Resident)
<1>1. IsFiniteSet(BlockIds)
  BY FS_Interval, BlockDeviceAssumption DEF BlockIds
<1> QED BY <1>1, FS_Subset DEF Resident

LEMMA SlotsAreCapacity == IsFiniteSet(Slots) /\ Cardinality(Slots) = capacity
<1>1. capacity \in Nat \ {0}
  BY BufferManagerAssumption
<1>2. /\ IsFiniteSet(0 .. capacity - 1)
      /\ Cardinality(0 .. capacity - 1) = IF 0 > capacity - 1 THEN 0 ELSE capacity - 1 - 0 + 1
  BY <1>1, FS_Interval
<1> QED BY <1>1, <1>2 DEF Slots

\* A full pool has a page in every slot.
LEMMA FullMeansNoFreeSlot ==
  ASSUME TypeOK, Bookkeeping, ~HasRoom
  PROVE  /\ Resident # {}
         /\ \A s \in Slots : frame_slots[s] \in Resident
<1>1. capacity \in Nat \ {0} /\ Cardinality(Resident) \in Nat
  BY BufferManagerAssumption, ResidentIsFinite, FS_CardinalityType
<1>2. Cardinality(Resident) >= capacity
  BY <1>1 DEF HasRoom
<1>3. Resident # {}
  BY <1>1, <1>2, FS_EmptySet
<1>4. ASSUME NEW s \in Slots, frame_slots[s] = NULL_BLOCK PROVE FALSE
  <2> DEFINE slotOf == [q \in Resident |-> CHOOSE t \in Slots : frame_slots[t] = q]
  <2>1. \A q \in Resident : slotOf[q] \in Slots /\ frame_slots[slotOf[q]] = q
    BY DEF Bookkeeping
  <2>2. \A q \in Resident : q # NULL_BLOCK
    BY NullIsNoBlock DEF Resident
  <2>3. slotOf \in Injection(Resident, Slots \ {s})
    <3>1. slotOf \in [Resident -> Slots \ {s}]
      BY <1>4, <2>1, <2>2
    <3>2. \A q, r \in Resident : slotOf[q] = slotOf[r] => q = r
      BY <2>1
    <3> HIDE DEF slotOf
    <3> QED BY <3>1, <3>2 DEF Injection, IsInjective
  <2>4. IsFiniteSet(Slots \ {s}) /\ Cardinality(Slots \ {s}) = capacity - 1
    BY SlotsAreCapacity, FS_RemoveElement
  <2>5. Cardinality(Resident) <= Cardinality(Slots \ {s})
    BY <2>3, <2>4, FS_Injection
  <2> QED BY <1>1, <1>2, <2>4, <2>5
<1> QED BY <1>3, <1>4 DEF Bookkeeping

\* The page a waiting load looks at is in the pool.
LEMMA LookedIsResident ==
  ASSUME SessionInv, eviction # Nobody
  PROVE  Looked \in Resident
<1>1. TypeOK /\ Bookkeeping /\ ~HasRoom /\ (is_clock \/ eviction.at \in DOMAIN lru_list)
  BY DEF SessionInv, EvictionInv
<1>2. CASE is_clock
  BY <1>1, <1>2, FullMeansNoFreeSlot DEF Looked, TypeOK
<1>3. CASE ~is_clock
  BY <1>1, <1>3 DEF Looked, Bookkeeping, Range
<1> QED BY <1>2, <1>3
-----------------------------------------------------------------------------
(* The steps operations are made of.                                       *)

\* What a load makes of a frame it has pinned: a process keeps the pin.
LEMMA FramesFacts ==
  ASSUME NEW frame \in BufferFrame, frame.pin_count > 0, NEW queue, NEW isOverrun,
         NEW op \in Processes \cup Options, NEW fixed \in BOOLEAN,
         NEW after \in Frames(frame, queue, isOverrun, op, fixed)
  PROVE  /\ after \in BufferFrame
         /\ after.pin_count >= frame.pin_count - 1
         /\ op \in Processes => after.pin_count = frame.pin_count
<1>1. frame.pin_count \in Nat /\ frame.pin_count - 1 \in Nat
  BY DEF BufferFrame
<1>2. CASE op \in Processes
  <2>1. op # "read" /\ op # "change" /\ op # "throw"
    BY <1>2 DEF Processes
  <2>2. Frames(frame, queue, isOverrun, op, fixed) =
          {[frame EXCEPT !.dirty = (front = "W"), !.fixed_pin = fixed] :
             front \in FrontOf(Append(queue, op), isOverrun)}
    BY <1>2, <2>1 DEF Frames
  <2>3. PICK dirty \in BOOLEAN : after = [frame EXCEPT !.dirty = dirty, !.fixed_pin = fixed]
    BY <2>2
  <2>4. after \in BufferFrame /\ after.pin_count = frame.pin_count
    BY <2>3 DEF BufferFrame
  <2> QED BY <1>1, <2>4
<1>3. CASE op = "read"
  <2>1. op \notin Processes
    BY <1>3 DEF Processes
  <2>2. after = [frame EXCEPT !.pin_count = @ - 1]
    BY <1>3, <2>1 DEF Frames
  <2> QED BY <1>1, <2>1, <2>2 DEF BufferFrame
<1>4. CASE op = "change"
  <2>1. op \notin Processes
    BY <1>4 DEF Processes
  <2>2. after \in {[frame EXCEPT !.pin_count = @ - 1, !.dirty = TRUE, !.bytes = v] :
                      v \in Bytes \ {Zero}}
    BY <1>4, <2>1 DEF Frames
  <2>3. PICK v \in Bytes : after = [frame EXCEPT !.pin_count = @ - 1, !.dirty = TRUE, !.bytes = v]
    BY <2>2
  <2>4. after \in BufferFrame /\ after.pin_count = frame.pin_count - 1
    BY <1>1, <2>3 DEF BufferFrame
  <2> QED BY <1>1, <2>1, <2>4
<1>5. CASE op = "throw"
  <2>1. op \notin Processes
    BY <1>5 DEF Processes
  <2>2. after = frame
    BY <1>5, <2>1 DEF Frames
  <2> QED BY <1>1, <2>1, <2>2
<1> QED BY <1>2, <1>3, <1>4, <1>5 DEF Options

\* The queue of a page after a load of it.
LEMMA QueueAfterFacts ==
  ASSUME NEW queue \in Seq(Processes), NEW op
  PROVE  /\ QueueAfter(queue, op) \in Seq(Processes)
         /\ Len(QueueAfter(queue, op)) = Len(queue) + IF op \in Processes THEN 1 ELSE 0
  BY DEF QueueAfter

\* What load_page leaves when the pages of gone have left the pool.
LEMMA LoadIntoFacts ==
  ASSUME SessionInv, NEW p \in BlockIds, NEW op \in Processes \cup Options, NEW fixed \in BOOLEAN,
         NEW slots, NEW list, NEW gone \in SUBSET BlockIds, NEW frames, is_clock' = is_clock,
         frames = [q \in BlockIds |-> IF q \in gone THEN NoFrame ELSE frame_map[q]],
         WellTyped(slots, frames, list), Coherent(slots, frames, list), frames[p] = NoFrame,
         LoadInto(p, op, fixed, slots, list, gone)
  PROVE  /\ WellTyped(frame_slots', frame_map', lru_list')
         /\ Bookkeeping'
         /\ Resident \ gone \subseteq Resident'
         /\ ops_queue' \in [BlockIds -> Seq(Processes)]
         /\ overrun' \in SUBSET BlockIds
         /\ ProcessesArePinned'
<1>1. /\ is_clock \in BOOLEAN /\ disk \in [BlockIds -> Bytes]
      /\ frame_map \in [BlockIds -> BufferFrame \cup {NoFrame}]
      /\ ops_queue \in [BlockIds -> Seq(Processes)] /\ overrun \in SUBSET BlockIds
      /\ ProcessesArePinned
  BY DEF SessionInv, TypeOK
<1> DEFINE new == NewFrame(p)
           isOverrun == FALSE
<1>2. new \in BufferFrame /\ new.pin_count = 1
  BY <1>1 DEF NewFrame, BufferFrame
<1>3. PICK frame \in Frames(new, <<>>, isOverrun, op, fixed) :
        frame_map' = [q \in BlockIds |-> IF q = p THEN frame
                                         ELSE IF q \in gone THEN NoFrame ELSE frame_map[q]]
  BY DEF LoadInto
<1>4. /\ frame \in BufferFrame
      /\ op \in Processes => frame.pin_count = 1
  <2> HIDE DEF new, isOverrun
  <2>1. new.pin_count > 0
    BY <1>2
  <2>2. frame \in BufferFrame /\ (op \in Processes => frame.pin_count = new.pin_count)
    BY <1>2, <1>3, <2>1, FramesFacts
  <2> QED BY <1>2, <2>2
<1>5. frame_map' = [frames EXCEPT ![p] = frame]
  BY <1>3
<1>6. PutPage(p, frame, slots, frames, list)
  BY <1>5 DEF LoadInto, PutPage
<1>7. /\ WellTyped(frame_slots', frame_map', lru_list')
      /\ Bookkeeping'
      /\ frame_map'[p] = frame
      /\ \A q \in BlockIds \ {p} : frame_map'[q] = frames[q]
  BY <1>1, <1>4, <1>6, PutFacts
<1>8. \A q \in BlockIds : q \in Resident' <=> frame_map'[q] # NoFrame
  BY DEF Resident
<1>9. Resident \ gone \subseteq Resident'
  BY <1>4, <1>7, <1>8, NoFrameAssumption DEF Resident
<1>10. <<>> \in Seq(Processes) /\ Len(<<>>) = 0
  OBVIOUS
<1>11. /\ QueueAfter(<<>>, op) \in Seq(Processes)
       /\ Len(QueueAfter(<<>>, op)) <= 1
  <2>1. <<op>> = Append(<<>>, op) /\ Len(<<op>>) = 1
    OBVIOUS
  <2> QED BY <1>10, <2>1 DEF QueueAfter
<1>12. ops_queue' = [q \in BlockIds |-> IF q = p THEN QueueAfter(<<>>, op)
                                       ELSE IF q \in gone THEN <<>> ELSE ops_queue[q]]
  BY DEF LoadInto
<1>13. ops_queue' \in [BlockIds -> Seq(Processes)]
  BY <1>1, <1>10, <1>11, <1>12
<1>14. overrun' \in SUBSET BlockIds
  BY <1>1 DEF LoadInto
<1>15. ProcessesArePinned'
  <2> SUFFICES ASSUME NEW q \in BlockIds, ops_queue'[q] # <<>>
               PROVE  q \in Resident' /\ Len(ops_queue'[q]) <= frame_map'[q].pin_count
    BY DEF ProcessesArePinned
  <2>1. CASE q = p
    <3>1. ops_queue'[q] = QueueAfter(<<>>, op) /\ frame_map'[q] = frame
      BY <1>7, <1>12, <2>1
    <3>2. op \in Processes
      BY <3>1 DEF QueueAfter
    <3>3. p \in Resident'
      BY <1>4, <1>7, <1>8, NoFrameAssumption
    <3>4. Len(QueueAfter(<<>>, op)) \in Nat
      BY <1>11
    <3>5. Len(QueueAfter(<<>>, op)) <= frame.pin_count
      BY <1>4, <1>11, <3>2, <3>4
    <3> QED BY <2>1, <3>1, <3>3, <3>5
  <2>2. CASE q # p
    <3>1. ops_queue'[q] = ops_queue[q] /\ q \notin gone
      BY <1>12, <2>2
    <3>2. frame_map'[q] = frame_map[q]
      BY <1>7, <2>2, <3>1
    <3>3. q \in Resident /\ Len(ops_queue[q]) <= frame_map[q].pin_count
      BY <1>1, <3>1 DEF ProcessesArePinned
    <3> QED BY <1>9, <3>1, <3>2, <3>3
  <2> QED BY <2>1, <2>2
<1> QED BY <1>7, <1>9, <1>13, <1>14, <1>15

\* A frame of the pool is changed, and the queue of its page with it.
LEMMA ChangeFrameFacts ==
  ASSUME SessionInv, NEW p \in Resident, NEW frame \in BufferFrame, NEW queue \in Seq(Processes),
         frame_map' = [frame_map EXCEPT ![p] = frame],
         ops_queue' = [ops_queue EXCEPT ![p] = queue],
         queue # <<>> => Len(queue) <= frame.pin_count,
         disk' \in [BlockIds -> Bytes], used' \in SUBSET BlockIds, overrun' \in SUBSET BlockIds,
         UNCHANGED <<is_clock, frame_slots, clientVars>>, clock_hand' \in Slots,
         lru_list' \in Seq(BlockIds), IsInjective(lru_list'),
         Range(lru_list') = IF is_clock THEN {} ELSE Resident
  PROVE  /\ Resident' = Resident
         /\ EvictionInv' => SessionInv'
<1>1. TypeOK /\ Bookkeeping /\ ProcessesArePinned /\ ops_queue \in [BlockIds -> Seq(Processes)]
  BY DEF SessionInv
<1>2. /\ frame_map' \in [BlockIds -> BufferFrame \cup {NoFrame}]
      /\ frame_map'[p] = frame
      /\ \A q \in BlockIds \ {p} : frame_map'[q] = frame_map[q]
      /\ Resident' = Resident
  BY <1>1, ReplaceFrameFacts
<1>3. TypeOK'
  BY <1>1, <1>2 DEF TypeOK, clientVars, NULL_BLOCK
<1>4. Bookkeeping'
  BY <1>1, <1>2 DEF Bookkeeping, NULL_BLOCK
<1>5. /\ ops_queue' \in [BlockIds -> Seq(Processes)]
      /\ ops_queue'[p] = queue
      /\ \A q \in BlockIds \ {p} : ops_queue'[q] = ops_queue[q]
  BY <1>1 DEF Resident
<1>6. ProcessesArePinned'
  BY <1>1, <1>2, <1>5 DEF ProcessesArePinned
<1> QED BY <1>2, <1>3, <1>4, <1>5, <1>6 DEF SessionInv

\* The next page a waiting load looks at.
LEMMA MoveOnFacts ==
  ASSUME SessionInv, eviction # Nobody, MoveOn
  PROVE  /\ clock_hand' \in Slots
         /\ Resident' = Resident => EvictionInv'
         /\ UNCHANGED <<is_clock, frame_slots, lru_list, clientVars>>
<1>1. /\ capacity \in Nat \ {0} /\ clock_hand \in Slots
      /\ is_clock \in BOOLEAN /\ lru_list \in Seq(BlockIds)
  BY BufferManagerAssumption DEF SessionInv, TypeOK
<1>2. clock_hand' \in Slots
  BY <1>1 DEF MoveOn, Slots
<1>3. /\ eviction \in [page : BlockIds, at : Nat]
      /\ eviction.page \notin Resident
      /\ ~HasRoom
      /\ is_clock \/ eviction.at \in DOMAIN lru_list
  BY DEF SessionInv, EvictionInv
<1>4. UNCHANGED <<is_clock, frame_slots, lru_list, clientVars>>
  BY DEF MoveOn
<1>5. ASSUME Resident' = Resident PROVE EvictionInv'
  <2>1. ~HasRoom'
    BY <1>3, <1>5 DEF HasRoom
  <2>2. CASE is_clock
    <3>1. eviction' = eviction
      BY <2>2 DEF MoveOn
    <3> QED BY <1>3, <1>4, <1>5, <2>1, <2>2, <3>1 DEF EvictionInv
  <2>3. CASE ~is_clock
    <3> DEFINE at == IF eviction.at = 1 THEN Len(lru_list) ELSE eviction.at - 1
    <3>1. eviction' = [eviction EXCEPT !.at = at]
      BY <2>3 DEF MoveOn
    <3>2. at \in DOMAIN lru_list /\ at \in Nat
      BY <1>1, <1>3, <2>3
    <3> HIDE DEF at
    <3>3. /\ eviction' \in [page : BlockIds, at : Nat]
          /\ eviction'.page = eviction.page /\ eviction'.at = at
      BY <1>3, <3>1, <3>2
    <3> QED BY <1>3, <1>4, <1>5, <2>1, <3>2, <3>3 DEF EvictionInv
  <2> QED BY <2>2, <2>3
<1> QED BY <1>2, <1>4, <1>5
-----------------------------------------------------------------------------
(* The actions.                                                            *)

\* A load of a page that is in the pool.
LEMMA HitKeeps ==
  ASSUME SessionInv, NEW p \in BlockIds, NEW op \in Processes \cup Options,
         NEW fixed \in BOOLEAN, SessionHit(p, op, fixed)
  PROVE  SessionInv' /\ Resident' = Resident
<1>1. /\ TypeOK /\ Bookkeeping /\ ProcessesArePinned
      /\ ops_queue \in [BlockIds -> Seq(Processes)] /\ overrun \in SUBSET BlockIds
      /\ p \in Resident
  BY DEF SessionInv, SessionHit
<1> DEFINE old == frame_map[p]
           pinned == [old EXCEPT !.pin_count = @ + 1,
                                 !.reference_bit = IF is_clock THEN TRUE ELSE @]
           isOverrun == p \in overrun
           queue == QueueAfter(ops_queue[p], op)
<1>2. old \in BufferFrame /\ is_clock \in BOOLEAN
  BY <1>1 DEF TypeOK, Resident
<1>3. old.pin_count \in Nat /\ pinned \in BufferFrame /\ pinned.pin_count = old.pin_count + 1
  <2> HIDE DEF old
  <2>1. PICK bit \in BOOLEAN :
          pinned = [old EXCEPT !.pin_count = @ + 1, !.reference_bit = bit]
    <3>1. old.reference_bit \in BOOLEAN
      BY <1>2 DEF BufferFrame
    <3>2. CASE is_clock
      BY <3>2
    <3>3. CASE ~is_clock
      BY <3>1, <3>3
    <3> QED BY <3>2, <3>3
  <2> HIDE DEF pinned
  <2>2. old.pin_count + 1 \in Nat
    BY <1>2 DEF BufferFrame
  <2>3. pinned.pin_count = old.pin_count + 1
    BY <1>2, <2>1 DEF BufferFrame
  <2>4. pinned \in BufferFrame
    BY <1>2, <2>1, <2>2 DEF BufferFrame
  <2> QED BY <1>2, <2>3, <2>4 DEF BufferFrame
<1>4. PICK frame \in Frames(pinned, ops_queue[p], isOverrun, op, fixed) :
        frame_map' = [frame_map EXCEPT ![p] = frame]
  BY DEF SessionHit
<1>5. /\ frame \in BufferFrame
      /\ frame.pin_count >= old.pin_count
      /\ op \in Processes => frame.pin_count = old.pin_count + 1
  <2> HIDE DEF pinned, isOverrun
  <2>1. pinned.pin_count > 0
    BY <1>3
  <2>2. /\ frame \in BufferFrame
        /\ frame.pin_count >= pinned.pin_count - 1
        /\ op \in Processes => frame.pin_count = pinned.pin_count
    BY <1>3, <1>4, <2>1, FramesFacts
  <2> QED BY <1>3, <2>2
<1>6. /\ queue \in Seq(Processes)
      /\ Len(queue) = Len(ops_queue[p]) + IF op \in Processes THEN 1 ELSE 0
  BY <1>1, QueueAfterFacts
<1>7. queue # <<>> => Len(queue) <= frame.pin_count
  <2>1. ops_queue[p] \in Seq(Processes) /\ Len(ops_queue[p]) <= old.pin_count
    <3>1. CASE ops_queue[p] = <<>>
      BY <1>3, <3>1
    <3>2. CASE ops_queue[p] # <<>>
      BY <1>1, <3>2 DEF ProcessesArePinned
    <3> QED BY <1>1, <3>1, <3>2
  <2>2. frame.pin_count \in Nat
    BY <1>5 DEF BufferFrame
  <2> HIDE DEF queue, old
  <2>3. CASE op \in Processes
    BY <1>3, <1>5, <1>6, <2>1, <2>2, <2>3
  <2>4. CASE op \notin Processes
    BY <1>3, <1>5, <1>6, <2>1, <2>2, <2>4
  <2> QED BY <2>3, <2>4
<1>8. /\ ops_queue' = [ops_queue EXCEPT ![p] = queue] /\ overrun' = overrun
      /\ disk' = disk /\ used' = used /\ clock_hand' = clock_hand
      /\ UNCHANGED <<is_clock, frame_slots, clientVars>>
      /\ eviction = Nobody /\ eviction' = Nobody
  BY DEF SessionHit, deviceVars
<1>9. /\ lru_list' \in Seq(BlockIds) /\ IsInjective(lru_list')
      /\ Range(lru_list') = IF is_clock THEN {} ELSE Resident
  <2>1. CASE is_clock
    BY <1>1, <2>1 DEF SessionHit, TypeOK, Bookkeeping
  <2>2. CASE ~is_clock
    BY <1>1, <2>2, MoveToFrontFacts DEF SessionHit
  <2> QED BY <2>1, <2>2
<1>10. EvictionInv'
  BY <1>8 DEF EvictionInv, Nobody, NULL_BLOCK
<1>11. disk' \in [BlockIds -> Bytes] /\ used' \in SUBSET BlockIds /\ clock_hand' \in Slots
  BY <1>1, <1>8 DEF TypeOK
<1> HIDE DEF queue
<1> QED BY <1>1, <1>4, <1>5, <1>6, <1>7, <1>8, <1>9, <1>10, <1>11, ChangeFrameFacts

\* A load of a page that is not in the pool, which has room.
LEMMA MissKeeps ==
  ASSUME SessionInv, NEW p \in BlockIds, NEW op \in Processes \cup Options,
         NEW fixed \in BOOLEAN, SessionMiss(p, op, fixed)
  PROVE  SessionInv' /\ Resident \subseteq Resident'
<1>1. TypeOK /\ Bookkeeping /\ frame_map[p] = NoFrame
  BY DEF SessionInv, SessionMiss, Resident
<1>2. frame_map = [q \in BlockIds |-> IF q \in {} THEN NoFrame ELSE frame_map[q]]
  BY <1>1 DEF TypeOK
<1>3. WellTyped(frame_slots, frame_map, lru_list) /\ Coherent(frame_slots, frame_map, lru_list)
  BY <1>1 DEF TypeOK, WellTyped, Bookkeeping, Coherent, Resident
<1>4. /\ LoadInto(p, op, fixed, frame_slots, lru_list, {})
      /\ UNCHANGED <<deviceVars, is_clock, clock_hand, clientVars>>
      /\ eviction' = Nobody
  BY DEF SessionMiss
<1>5. /\ WellTyped(frame_slots', frame_map', lru_list')
      /\ Bookkeeping'
      /\ Resident \ {} \subseteq Resident'
      /\ ops_queue' \in [BlockIds -> Seq(Processes)]
      /\ overrun' \in SUBSET BlockIds
      /\ ProcessesArePinned'
  BY <1>1, <1>2, <1>3, <1>4, LoadIntoFacts
<1>6. TypeOK'
  BY <1>1, <1>4, <1>5 DEF TypeOK, WellTyped, deviceVars, clientVars, NULL_BLOCK
<1>7. EvictionInv'
  BY <1>4 DEF EvictionInv, Nobody, NULL_BLOCK
<1> QED BY <1>5, <1>6, <1>7 DEF SessionInv

\* A load that finds the pool full begins a round of questions.
LEMMA NeedsFrameKeeps ==
  ASSUME SessionInv, NEW p \in BlockIds, NeedsFrame(p)
  PROVE  SessionInv' /\ Resident' = Resident
<1>1. /\ TypeOK /\ Bookkeeping /\ p \notin Resident /\ ~HasRoom
      /\ eviction' = Waiting(p, Len(lru_list)) /\ UNCHANGED <<vars, ops_queue, overrun>>
  BY DEF SessionInv, NeedsFrame
<1>2. TypeOK' /\ Bookkeeping' /\ ProcessesArePinned' /\ Resident' = Resident
  BY <1>1 DEF vars, deviceVars, poolVars, clientVars, TypeOK, Bookkeeping, Resident,
              SessionInv, ProcessesArePinned, NULL_BLOCK
<1>3. is_clock \/ Len(lru_list) \in DOMAIN lru_list
  <2>1. Resident # {}
    BY <1>1, FullMeansNoFreeSlot
  <2>2. ~is_clock => Range(lru_list) # {}
    BY <1>1, <2>1 DEF Bookkeeping
  <2> QED BY <1>1, <2>2 DEF Range, TypeOK
<1>4. Len(lru_list) \in Nat
  BY <1>1 DEF TypeOK
<1>5. /\ eviction' \in [page : BlockIds, at : Nat]
      /\ eviction'.page = p /\ eviction'.at = Len(lru_list)
  BY <1>1, <1>4 DEF Waiting
<1>6. EvictionInv'
  BY <1>1, <1>2, <1>3, <1>5 DEF EvictionInv, HasRoom, vars, poolVars
<1> QED BY <1>1, <1>2, <1>6 DEF SessionInv

\* The user ends no process of the page.
LEMMA RefuseKeeps ==
  ASSUME SessionInv, Refuse
  PROVE  SessionInv' /\ Resident' = Resident
<1>1. /\ eviction # Nobody /\ MoveOn
      /\ UNCHANGED <<deviceVars, frame_map, ops_queue, overrun>>
  BY DEF Refuse
<1>2. Resident' = Resident
  BY <1>1 DEF Resident
<1>3. /\ clock_hand' \in Slots /\ EvictionInv'
      /\ UNCHANGED <<is_clock, frame_slots, lru_list, clientVars>>
  BY <1>1, <1>2, MoveOnFacts
<1>4. TypeOK' /\ Bookkeeping' /\ ProcessesArePinned'
  BY <1>1, <1>2, <1>3 DEF deviceVars, clientVars, TypeOK, Bookkeeping, SessionInv,
                          ProcessesArePinned, NULL_BLOCK
<1> QED BY <1>1, <1>2, <1>3, <1>4 DEF SessionInv

\* A page without processes loses its reference bit.
LEMMA PassOverKeeps ==
  ASSUME SessionInv, PassOver
  PROVE  SessionInv' /\ Resident' = Resident
<1> DEFINE q == Looked
           frame == [frame_map[q] EXCEPT !.reference_bit = FALSE]
<1>1. /\ TypeOK /\ Bookkeeping /\ ProcessesArePinned
      /\ ops_queue \in [BlockIds -> Seq(Processes)] /\ overrun \in SUBSET BlockIds
      /\ eviction # Nobody /\ MoveOn /\ UNCHANGED <<deviceVars, ops_queue, overrun>>
  BY DEF SessionInv, PassOver
<1>2. q \in Resident /\ q \in BlockIds /\ frame_map[q] \in BufferFrame
  BY <1>1, LookedIsResident DEF TypeOK, Resident
<1>3. frame \in BufferFrame /\ frame.pin_count = frame_map[q].pin_count
  BY <1>2 DEF BufferFrame
<1>4. frame_map' = [frame_map EXCEPT ![q] = frame]
  BY <1>1, <1>2 DEF PassOver, TypeOK
<1>5. ops_queue' = [ops_queue EXCEPT ![q] = ops_queue[q]] /\ ops_queue[q] \in Seq(Processes)
  BY <1>1, <1>2
<1>6. ops_queue[q] # <<>> => Len(ops_queue[q]) <= frame.pin_count
  BY <1>1, <1>2, <1>3 DEF ProcessesArePinned
<1>7. /\ clock_hand' \in Slots
      /\ Resident' = Resident => EvictionInv'
      /\ UNCHANGED <<is_clock, frame_slots, lru_list, clientVars>>
  BY <1>1, MoveOnFacts
<1>8. /\ disk' \in [BlockIds -> Bytes] /\ used' \in SUBSET BlockIds /\ overrun' \in SUBSET BlockIds
      /\ lru_list' \in Seq(BlockIds) /\ IsInjective(lru_list')
      /\ Range(lru_list') = IF is_clock THEN {} ELSE Resident
  BY <1>1, <1>7 DEF TypeOK, Bookkeeping, deviceVars
<1> HIDE DEF q, frame
<1>9. UNCHANGED <<is_clock, frame_slots, clientVars>>
  BY <1>7
<1>10. Resident' = Resident /\ (EvictionInv' => SessionInv')
  BY <1>2, <1>3, <1>4, <1>5, <1>6, <1>7, <1>8, <1>9, ChangeFrameFacts
<1> QED BY <1>7, <1>10

\* What the end of a process does to the frame and the disk.
LEMMA TerminateFacts ==
  ASSUME SessionInv, Terminate
  PROVE  /\ \E frame \in BufferFrame :
              /\ frame_map' = [frame_map EXCEPT ![Looked] = frame]
              /\ frame.pin_count = frame_map[Looked].pin_count - 1
         /\ ops_queue' = [ops_queue EXCEPT ![Looked] = QueueRest(ops_queue[Looked])]
         /\ overrun' \in SUBSET BlockIds
         /\ disk' \in [BlockIds -> Bytes]
         /\ used' \in SUBSET BlockIds
<1> DEFINE q == Looked
           old == frame_map[q]
           rest == QueueRest(ops_queue[q])
           nowOverrun == ops_queue[q] = <<>> \/ q \in overrun
<1>1. /\ TypeOK /\ overrun \in SUBSET BlockIds /\ eviction # Nobody /\ old.pin_count > 0
  BY DEF SessionInv, Terminate
<1>2. q \in Resident /\ q \in BlockIds /\ old \in BufferFrame
  BY <1>1, LookedIsResident DEF TypeOK, Resident
<1>3. PICK op \in IF is_clock THEN BackOf(ops_queue[q], q \in overrun)
                             ELSE FrontOf(ops_queue[q], q \in overrun),
           save \in BOOLEAN :
        /\ IF op = "W" /\ save THEN WriteBlocks([p \in {q} |-> frame_map[q].bytes])
                               ELSE UNCHANGED deviceVars
        /\ \E dirty \in IF rest # <<>> \/ nowOverrun
                          THEN {front = "W" : front \in FrontOf(rest, nowOverrun)}
                        ELSE IF is_clock
                          THEN {frame_map[q].dirty /\ ~(op = "W" /\ save)}
                        ELSE {FALSE} :
             frame_map' = [frame_map EXCEPT ![q].pin_count = @ - 1, ![q].dirty = dirty]
        /\ ops_queue' = [ops_queue EXCEPT ![q] = rest]
        /\ overrun' = IF nowOverrun THEN overrun \cup {q} ELSE overrun
  BY DEF Terminate
<1>4. PICK dirty \in BOOLEAN :
        frame_map' = [frame_map EXCEPT ![q].pin_count = @ - 1, ![q].dirty = dirty]
  <2>1. old.dirty \in BOOLEAN
    BY <1>2 DEF BufferFrame
  <2> HIDE DEF q, rest, nowOverrun
  <2>2. CASE rest # <<>> \/ nowOverrun
    BY <1>3, <2>2
  <2>3. CASE ~(rest # <<>> \/ nowOverrun)
    BY <1>3, <2>1, <2>3
  <2> QED BY <2>2, <2>3
<1> DEFINE frame == [old EXCEPT !.pin_count = @ - 1, !.dirty = dirty]
<1>5. frame_map' = [frame_map EXCEPT ![q] = frame]
  BY <1>1, <1>2, <1>4 DEF TypeOK
<1>6. old.pin_count - 1 \in Nat
  BY <1>1, <1>2 DEF BufferFrame
<1>7. frame \in BufferFrame /\ frame.pin_count = old.pin_count - 1
  <2> HIDE DEF old
  <2> QED BY <1>2, <1>6 DEF BufferFrame
<1>8. overrun' \in SUBSET BlockIds
  BY <1>1, <1>2, <1>3
<1>9. disk' \in [BlockIds -> Bytes] /\ used' \in SUBSET BlockIds
  <2>1. CASE WriteBlocks([p \in {q} |-> old.bytes])
    <3>1. old.bytes \in Bytes
      BY <1>2 DEF BufferFrame
    <3> HIDE DEF q, old
    <3>2. \A b \in BlockIds : disk'[b] = IF b = q THEN old.bytes ELSE disk[b]
      BY <2>1 DEF WriteBlocks
    <3>3. disk' = [b \in BlockIds |-> IF b = q THEN old.bytes ELSE disk[b]]
      BY <2>1 DEF WriteBlocks
    <3>4. used' = used \cup {q}
      BY <2>1 DEF WriteBlocks
    <3> QED BY <1>1, <1>2, <3>1, <3>3, <3>4 DEF TypeOK
  <2>2. CASE UNCHANGED deviceVars
    BY <1>1, <2>2 DEF TypeOK, deviceVars
  <2> QED BY <1>3, <2>1, <2>2
<1> QED BY <1>3, <1>5, <1>7, <1>8, <1>9

\* The user ends a process: its pin goes with its entry in the queue.
LEMMA TerminateKeeps ==
  ASSUME SessionInv, Terminate
  PROVE  SessionInv' /\ Resident' = Resident
<1> DEFINE q == Looked
           queue == QueueRest(ops_queue[q])
<1>1. /\ TypeOK /\ Bookkeeping /\ ProcessesArePinned
      /\ ops_queue \in [BlockIds -> Seq(Processes)]
      /\ eviction # Nobody /\ MoveOn
  BY DEF SessionInv, Terminate
<1>2. q \in Resident /\ q \in BlockIds /\ frame_map[q] \in BufferFrame
  BY <1>1, LookedIsResident DEF TypeOK, Resident
<1>3. PICK frame \in BufferFrame :
        /\ frame_map' = [frame_map EXCEPT ![q] = frame]
        /\ frame.pin_count = frame_map[q].pin_count - 1
  BY TerminateFacts
<1>4. /\ ops_queue' = [ops_queue EXCEPT ![q] = queue] /\ overrun' \in SUBSET BlockIds
      /\ disk' \in [BlockIds -> Bytes] /\ used' \in SUBSET BlockIds
  BY TerminateFacts
<1>5. queue \in Seq(Processes) /\ (queue # <<>> => Len(queue) <= frame.pin_count)
  <2>1. CASE ops_queue[q] = <<>>
    BY <1>1, <1>2, <2>1 DEF QueueRest
  <2>2. CASE ops_queue[q] # <<>>
    <3>1. /\ ops_queue[q] \in Seq(Processes) /\ queue = Tail(ops_queue[q])
          /\ Len(ops_queue[q]) <= frame_map[q].pin_count
      BY <1>1, <1>2, <2>2 DEF QueueRest, ProcessesArePinned
    <3>2. queue \in Seq(Processes) /\ Len(queue) = Len(ops_queue[q]) - 1
      BY <2>2, <3>1, HeadTailProperties
    <3>3. frame_map[q].pin_count \in Nat
      BY <1>2 DEF BufferFrame
    <3> QED BY <1>3, <3>1, <3>2, <3>3
  <2> QED BY <2>1, <2>2
<1>6. /\ clock_hand' \in Slots
      /\ Resident' = Resident => EvictionInv'
      /\ UNCHANGED <<is_clock, frame_slots, lru_list, clientVars>>
  BY <1>1, MoveOnFacts
<1>7. /\ lru_list' \in Seq(BlockIds) /\ IsInjective(lru_list')
      /\ Range(lru_list') = IF is_clock THEN {} ELSE Resident
  BY <1>1, <1>6 DEF TypeOK, Bookkeeping
<1> HIDE DEF q, queue
<1>8. UNCHANGED <<is_clock, frame_slots, clientVars>>
  BY <1>6
<1>9. Resident' = Resident /\ (EvictionInv' => SessionInv')
  BY <1>2, <1>3, <1>4, <1>5, <1>6, <1>7, <1>8, ChangeFrameFacts
<1> QED BY <1>6, <1>9

\* A page goes and the page waited for comes.
LEMMA EvictAndLoadKeeps ==
  ASSUME SessionInv, NEW op \in Processes \cup Options, NEW fixed \in BOOLEAN,
         EvictAndLoad(op, fixed)
  PROVE  /\ SessionInv'
         /\ Resident \ {Looked} \subseteq Resident'
         /\ frame_map[Looked].pin_count = 0 /\ ~frame_map[Looked].fixed_pin
<1> DEFINE q == Looked
           p == eviction.page
           frames == [r \in BlockIds |-> IF r \in {q} THEN NoFrame ELSE frame_map[r]]
<1>1. /\ TypeOK /\ Bookkeeping /\ eviction # Nobody /\ Evictable(q)
      /\ UNCHANGED <<is_clock, clientVars>> /\ eviction' = Nobody
  BY DEF SessionInv, EvictAndLoad
<1>2. /\ p \in BlockIds /\ frame_map[p] = NoFrame
      /\ q \in Resident /\ q \in BlockIds
  BY <1>1 DEF SessionInv, EvictionInv, Resident, Evictable
<1>3. PICK s \in Slots :
        /\ frame_slots[s] = q
        /\ LoadInto(p, op, fixed, SlotsWithout(s), ListWithout(q), {q})
        /\ clock_hand' = HandAfter(s)
  BY DEF EvictAndLoad
<1>4. frames \in [BlockIds -> BufferFrame \cup {NoFrame}]
  BY <1>1 DEF TypeOK
<1>5. \A r \in BlockIds : frames[r] # NoFrame <=> r # q /\ frame_map[r] # NoFrame
  OBVIOUS
<1>6. frames[p] = NoFrame
  BY <1>2
<1>7. frames = [r \in BlockIds |-> IF r \in {q} THEN NoFrame ELSE frame_map[r]]
  OBVIOUS
<1> HIDE DEF frames, q, p
<1>8. /\ WellTyped(SlotsWithout(s), frames, ListWithout(q))
      /\ Coherent(SlotsWithout(s), frames, ListWithout(q))
  BY <1>1, <1>2, <1>3, <1>4, <1>5, WithoutFacts
<1>9. is_clock' = is_clock /\ {q} \in SUBSET BlockIds
  BY <1>1, <1>2
<1>10. /\ WellTyped(frame_slots', frame_map', lru_list')
       /\ Bookkeeping'
       /\ Resident \ {q} \subseteq Resident'
       /\ ops_queue' \in [BlockIds -> Seq(Processes)]
       /\ overrun' \in SUBSET BlockIds
       /\ ProcessesArePinned'
  BY <1>2, <1>3, <1>6, <1>7, <1>8, <1>9, LoadIntoFacts
<1>11. clock_hand' \in Slots
  <2>1. s \in 0 .. capacity - 1 /\ capacity \in Nat \ {0} /\ clock_hand \in 0 .. capacity - 1
    BY <1>1, BufferManagerAssumption DEF TypeOK, Slots
  <2> QED BY <1>3, <2>1 DEF HandAfter, Slots
<1>12. disk' \in [BlockIds -> Bytes] /\ used' \in SUBSET BlockIds
  <2>1. CASE UNCHANGED deviceVars
    BY <1>1, <2>1 DEF TypeOK, deviceVars
  <2>2. CASE WriteDirty({q})
    BY <1>1, <1>2, <2>2, WriteDirtyFacts
  <2> QED BY <2>1, <2>2 DEF EvictAndLoad, q
<1>13. TypeOK'
  BY <1>1, <1>10, <1>11, <1>12 DEF TypeOK, WellTyped, clientVars, NULL_BLOCK
<1>14. EvictionInv'
  BY <1>1 DEF EvictionInv, Nobody, NULL_BLOCK
<1>15. SessionInv'
  BY <1>10, <1>13, <1>14 DEF SessionInv
<1> QED BY <1>1, <1>10, <1>15 DEF Evictable, q

\* flush_all of the menu.
LEMMA SessionFlushAllKeeps ==
  ASSUME SessionInv, SessionFlushAll
  PROVE  SessionInv' /\ Resident' = Resident
<1>1. /\ TypeOK /\ Bookkeeping /\ ProcessesArePinned /\ FlushAll
      /\ UNCHANGED <<ops_queue, overrun>> /\ eviction' = Nobody
  BY DEF SessionInv, SessionFlushAll
<1>2. /\ disk' \in [BlockIds -> Bytes] /\ used' \in SUBSET BlockIds
      /\ frame_map' \in [BlockIds -> BufferFrame \cup {NoFrame}]
      /\ Resident' = Resident
      /\ \A q \in Resident : frame_map'[q].pin_count = frame_map[q].pin_count
  BY <1>1, FlushAllFacts
<1>3. UNCHANGED <<is_clock, frame_slots, lru_list, clock_hand, clientVars>>
  BY <1>1 DEF FlushAll
<1>4. TypeOK' /\ Bookkeeping'
  BY <1>1, <1>2, <1>3 DEF TypeOK, Bookkeeping, clientVars, NULL_BLOCK
<1>5. ProcessesArePinned'
  BY <1>1, <1>2 DEF ProcessesArePinned
<1>6. EvictionInv'
  BY <1>1 DEF EvictionInv, Nobody, NULL_BLOCK
<1> QED BY <1>1, <1>2, <1>4, <1>5, <1>6 DEF SessionInv

\* clear of the menu.
LEMMA SessionClearKeeps ==
  ASSUME SessionInv, SessionClear
  PROVE  SessionInv'
<1>1. /\ TypeOK /\ Clear /\ ops_queue' = [p \in BlockIds |-> <<>>] /\ overrun' = {}
      /\ eviction' = Nobody
  BY DEF SessionInv, SessionClear
<1>2. Resident' = {}
  BY <1>1 DEF Clear, Resident
<1>3. 0 \in Slots /\ owners' \in [BlockIds -> Nat]
  BY <1>1, BufferManagerAssumption DEF Slots, Clear, TypeOK
<1>4. TypeOK'
  BY <1>1, <1>3 DEF Clear, TypeOK, deviceVars, NULL_BLOCK
<1>5. Bookkeeping'
  BY <1>1, <1>2 DEF Clear, Bookkeeping, IsInjective, Range, NULL_BLOCK
<1>6. ops_queue' \in [BlockIds -> Seq(Processes)] /\ ProcessesArePinned'
  BY <1>1 DEF ProcessesArePinned
<1>7. EvictionInv'
  BY <1>1 DEF EvictionInv, Nobody, NULL_BLOCK
<1> QED BY <1>1, <1>4, <1>5, <1>6, <1>7 DEF SessionInv

\* set_fixed_pin of the menu.
LEMMA SessionSetFixedPinKeeps ==
  ASSUME SessionInv, NEW p \in BlockIds, NEW value \in BOOLEAN, SessionSetFixedPin(p, value)
  PROVE  SessionInv' /\ Resident' = Resident
<1>1. /\ TypeOK /\ Bookkeeping /\ ProcessesArePinned /\ SetFixedPin(p, value) /\ p \in Resident
      /\ ops_queue \in [BlockIds -> Seq(Processes)] /\ overrun \in SUBSET BlockIds
      /\ UNCHANGED <<ops_queue, overrun>> /\ eviction' = Nobody
  BY DEF SessionInv, SessionSetFixedPin, SetFixedPin
<1>2. PICK frame \in BufferFrame :
        /\ frame_map' = [frame_map EXCEPT ![p] = frame]
        /\ frame.pin_count = frame_map[p].pin_count
  BY <1>1, FixFrame
<1>3. UNCHANGED <<deviceVars, is_clock, frame_slots, lru_list, clock_hand, clientVars>>
  BY <1>1 DEF SetFixedPin
<1> DEFINE queue == ops_queue[p]
<1>4. /\ ops_queue' = [ops_queue EXCEPT ![p] = queue] /\ queue \in Seq(Processes)
      /\ queue # <<>> => Len(queue) <= frame.pin_count
  BY <1>1, <1>2 DEF ProcessesArePinned
<1>5. /\ disk' \in [BlockIds -> Bytes] /\ used' \in SUBSET BlockIds /\ overrun' \in SUBSET BlockIds
      /\ clock_hand' \in Slots /\ lru_list' \in Seq(BlockIds) /\ IsInjective(lru_list')
      /\ Range(lru_list') = IF is_clock THEN {} ELSE Resident
      /\ UNCHANGED <<is_clock, frame_slots, clientVars>>
  BY <1>1, <1>3 DEF TypeOK, Bookkeeping, deviceVars
<1>6. EvictionInv'
  BY <1>1 DEF EvictionInv, Nobody, NULL_BLOCK
<1> HIDE DEF queue
<1> QED BY <1>1, <1>2, <1>4, <1>5, <1>6, ChangeFrameFacts

\* A step that changes nothing.
LEMMA SessionStutterKeeps ==
  ASSUME SessionInv, UNCHANGED sessionVars
  PROVE  SessionInv' /\ Resident' = Resident
<1>1. /\ UNCHANGED <<disk, used, is_clock, frame_map, frame_slots, lru_list, clock_hand>>
      /\ UNCHANGED <<held, unmarked, owners, ops_queue, overrun, eviction>>
  BY DEF sessionVars, vars, deviceVars, poolVars, clientVars
<1>2. Resident' = Resident
  BY <1>1 DEF Resident
<1>3. TypeOK' /\ Bookkeeping'
  BY <1>1, <1>2 DEF SessionInv, TypeOK, Bookkeeping, NULL_BLOCK
<1>4. EvictionInv' /\ ProcessesArePinned'
  BY <1>1, <1>2 DEF SessionInv, EvictionInv, HasRoom, ProcessesArePinned, Nobody, NULL_BLOCK
<1> QED BY <1>1, <1>2, <1>3, <1>4 DEF SessionInv
-----------------------------------------------------------------------------
(* The theorems.                                                           *)

\* The menu starts from an empty pool.
THEOREM SessionInitInv == SessionInit => SessionInv
<1> SUFFICES ASSUME SessionInit PROVE SessionInv
  OBVIOUS
<1>1. TypeOK /\ Bookkeeping
  BY InitIInv DEF SessionInit, IInv
<1>2. /\ ops_queue \in [BlockIds -> Seq(Processes)] /\ overrun \in SUBSET BlockIds
      /\ EvictionInv /\ ProcessesArePinned
  BY DEF SessionInit, EvictionInv, ProcessesArePinned
<1> QED BY <1>1, <1>2 DEF SessionInv

\* A page with processes, or a fixed page, is still in the pool after the step.
Stays ==
  \A p \in Resident :
    frame_map[p].pin_count > 0 \/ frame_map[p].fixed_pin => p \in Resident' \/ SessionClear

\* Every step of the menu keeps the invariant, and the pages in use in the pool.
THEOREM SessionNextInv == SessionInv /\ [SessionNext]_sessionVars => SessionInv' /\ Stays
<1> SUFFICES ASSUME SessionInv, [SessionNext]_sessionVars PROVE SessionInv' /\ Stays
  OBVIOUS
<1>1. ASSUME NEW p \in BlockIds, NEW op \in Processes \cup Options, NEW fixed \in BOOLEAN,
             SessionHit(p, op, fixed)
      PROVE  SessionInv' /\ Stays
  BY <1>1, HitKeeps DEF Stays
<1>2. ASSUME NEW p \in BlockIds, NEW op \in Processes \cup Options, NEW fixed \in BOOLEAN,
             SessionMiss(p, op, fixed)
      PROVE  SessionInv' /\ Stays
  BY <1>2, MissKeeps DEF Stays
<1>3. ASSUME NEW p \in BlockIds, NeedsFrame(p) PROVE SessionInv' /\ Stays
  BY <1>3, NeedsFrameKeeps DEF Stays
<1>4. ASSUME NEW p \in BlockIds, NEW value \in BOOLEAN, SessionSetFixedPin(p, value)
      PROVE  SessionInv' /\ Stays
  BY <1>4, SessionSetFixedPinKeeps DEF Stays
<1>5. CASE Refuse
  BY <1>5, RefuseKeeps DEF Stays
<1>6. CASE Terminate
  BY <1>6, TerminateKeeps DEF Stays
<1>7. CASE PassOver
  BY <1>7, PassOverKeeps DEF Stays
<1>8. ASSUME NEW op \in Processes \cup Options, NEW fixed \in BOOLEAN, EvictAndLoad(op, fixed)
      PROVE  SessionInv' /\ Stays
  <2>1. /\ SessionInv' /\ Resident \ {Looked} \subseteq Resident'
        /\ frame_map[Looked].pin_count = 0 /\ ~frame_map[Looked].fixed_pin
    BY <1>8, EvictAndLoadKeeps
  <2> QED BY <2>1 DEF Stays
<1>9. CASE SessionFlushAll
  BY <1>9, SessionFlushAllKeeps DEF Stays
<1>10. CASE SessionClear
  BY <1>10, SessionClearKeeps DEF Stays
<1>11. CASE UNCHANGED sessionVars
  BY <1>11, SessionStutterKeeps DEF Stays
<1> QED BY <1>1, <1>2, <1>3, <1>4, <1>5, <1>6, <1>7, <1>8, <1>9, <1>10, <1>11
        DEF SessionNext, EvictionStep

\* The invariant holds in every state of the menu.
THEOREM SessionAlwaysInv == SessionSpec => []SessionInv
  BY SessionInitInv, SessionNextInv, PTL DEF SessionSpec

\* Every variable of the menu keeps its type: the place the round of questions has
\* come to is a place of the list.
THEOREM SessionTypeCorrect == SessionSpec => []SessionTypeOK
<1>1. SessionInv => SessionTypeOK
  BY DEF SessionInv, EvictionInv, SessionTypeOK
<1> QED BY <1>1, SessionAlwaysInv, PTL

\* The questions, answers and evictions of the menu leave frame_map, frame_slots and
\* lru_list in agreement.
THEOREM SessionBookkeeping == SessionSpec => []Bookkeeping
<1>1. SessionInv => Bookkeeping
  BY DEF SessionInv
<1> QED BY <1>1, SessionAlwaysInv, PTL

\* Whatever the user answers, each process the menu lists for a page has its pin.
THEOREM SessionProcessesArePinned == SessionSpec => []ProcessesArePinned
<1>1. SessionInv => ProcessesArePinned
  BY DEF SessionInv
<1> QED BY <1>1, SessionAlwaysInv, PTL

\* Whatever the user answers, a page with processes or a fixed page is not evicted.
THEOREM SessionProcessesStay == SessionSpec => ProcessesStay
<1>1. SessionInv /\ [SessionNext]_sessionVars
        => [\A p \in Resident :
              frame_map[p].pin_count > 0 \/ frame_map[p].fixed_pin
                => p \in Resident' \/ SessionClear]_sessionVars
  BY SessionNextInv DEF Stays
<1> QED BY <1>1, SessionAlwaysInv, PTL DEF SessionSpec, ProcessesStay
=============================================================================
