--------------------------- MODULE BufferSession -----------------------------
(***************************************************************************)
(* The buffer pool under its interactive menu (verbose): the user loads    *)
(* pages "for reading" or "for writing", which leaves them pinned, and is  *)
(* asked what to do with those processes when a frame is needed.           *)
(*                                                                         *)
(* The menu begins with flush_all and clear, so it starts from an empty    *)
(* pool over pages that exist.                                             *)
(***************************************************************************)
EXTENDS BufferManager

VARIABLES
  ops_queue,  \* the processes of every page in the pool, oldest first
  overrun,    \* pages whose queue was popped when empty (undefined behaviour)
  eviction    \* the load that waits for a frame, or Nobody

sessionVars == <<vars, ops_queue, overrun, eviction>>

\* `at' is the place in lru_list the round of questions has come to.  What the page
\* is wanted for makes no difference until it is loaded, and is chosen then.
Nobody == [page |-> NULL_BLOCK]
Waiting(p, at) == [page |-> p, at |-> at]

Processes == {"R", "W"}

\* The other options load a page without a process: they read it, change it, or find
\* no room in it and throw, which leaves their pin behind.
Options == {"read", "change", "throw"}

SessionTypeOK ==
  /\ TypeOK
  /\ ops_queue \in [BlockIds -> Seq(Processes)]
  /\ overrun \in SUBSET BlockIds
  /\ \/ eviction = Nobody
     \/ eviction.page \in BlockIds /\ (is_clock \/ eviction.at \in DOMAIN lru_list)

SessionInit ==
  /\ Init
  /\ used = BlockIds
  /\ \A b, c \in BlockIds : disk[b] = disk[c] /\ disk[b] # Zero
  /\ ops_queue = [p \in BlockIds |-> <<>>]
  /\ overrun = {}
  /\ eviction = Nobody

\* What front() or back() may give: anything once the queue is empty.
FrontOf(queue, isOverrun) == IF isOverrun \/ queue = <<>> THEN Processes ELSE {Head(queue)}
BackOf(queue, isOverrun) == IF isOverrun \/ queue = <<>> THEN Processes ELSE {Last(queue)}
-----------------------------------------------------------------------------
(* Loading.                                                                *)

\* What becomes of a frame just found or loaded, and pinned.  load_pin_page_push_op
\* puts the process at the back of the queue, and the page is dirty if the process at
\* the front writes; buf_load_page then fixes the page, or unfixes it.  An option does
\* its work and gives the page back.
Frames(frame, queue, isOverrun, op, fixed) ==
  CASE op \in Processes ->
         {[frame EXCEPT !.dirty = (front = "W"), !.fixed_pin = fixed] :
            front \in FrontOf(Append(queue, op), isOverrun)}
    [] op = "read" -> {[frame EXCEPT !.pin_count = @ - 1]}
    [] op = "change" ->
         {[frame EXCEPT !.pin_count = @ - 1, !.dirty = TRUE, !.bytes = v] :
            v \in Bytes \ {Zero}}
    [] op = "throw" -> {frame}

QueueAfter(queue, op) == IF op \in Processes THEN Append(queue, op) ELSE queue

SessionHit(p, op, fixed) ==
  /\ eviction = Nobody
  /\ p \in Resident
  /\ frame_map[p].pin_count < MaxPin
  /\ \E frame \in Frames([frame_map[p] EXCEPT !.pin_count = @ + 1,
                                              !.reference_bit = IF is_clock THEN TRUE ELSE @],
                         ops_queue[p], p \in overrun, op, fixed) :
       frame_map' = [frame_map EXCEPT ![p] = frame]
  /\ ops_queue' = [ops_queue EXCEPT ![p] = QueueAfter(@, op)]
  /\ lru_list' = IF is_clock THEN lru_list ELSE <<p>> \o ListWithout(p)
  /\ UNCHANGED <<deviceVars, is_clock, frame_slots, clock_hand, clientVars,
                 overrun, eviction>>

\* load_page of p in what is left of the pool when the pages of gone have left it.
LoadInto(p, op, fixed, slots, list, gone) ==
  /\ \E s \in Slots : IsFreeSlot(s, slots) /\ frame_slots' = [slots EXCEPT ![s] = p]
  /\ \E frame \in Frames(NewFrame(p), <<>>, FALSE, op, fixed) :
       frame_map' = [q \in BlockIds |-> IF q = p THEN frame
                                        ELSE IF q \in gone THEN NoFrame ELSE frame_map[q]]
  /\ ops_queue' = [q \in BlockIds |-> IF q = p THEN QueueAfter(<<>>, op)
                                      ELSE IF q \in gone THEN <<>> ELSE ops_queue[q]]
  /\ overrun' = overrun \ gone
  /\ lru_list' = IF is_clock THEN list ELSE <<p>> \o list

SessionMiss(p, op, fixed) ==
  /\ eviction = Nobody
  /\ p \notin Resident
  /\ HasRoom
  /\ LoadInto(p, op, fixed, frame_slots, lru_list, {})
  /\ UNCHANGED <<deviceVars, is_clock, clock_hand, clientVars, eviction>>

NeedsFrame(p) ==
  /\ eviction = Nobody
  /\ p \notin Resident
  /\ ~HasRoom
  /\ eviction' = Waiting(p, Len(lru_list))
  /\ UNCHANGED <<vars, ops_queue, overrun>>
-----------------------------------------------------------------------------
(* Eviction, one page looked at per step.                                  *)

Looked == IF is_clock THEN frame_slots[clock_hand] ELSE lru_list[eviction.at]

\* Faulty: the round goes on past the front of the list.
MoveOnPastFront ==
  /\ clock_hand' = IF is_clock THEN (clock_hand + 1) % capacity ELSE clock_hand
  /\ eviction' = IF is_clock THEN eviction ELSE [eviction EXCEPT !.at = @ - 1]
  /\ UNCHANGED <<is_clock, frame_slots, lru_list, clientVars>>

\* To the next slot, or to the page used before; a round follows another.
MoveOn ==
  /\ clock_hand' = IF is_clock THEN (clock_hand + 1) % capacity ELSE clock_hand
  /\ eviction' = IF is_clock THEN eviction
                 ELSE [eviction EXCEPT !.at = IF @ = 1 THEN Len(lru_list) ELSE @ - 1]
  /\ UNCHANGED <<is_clock, frame_slots, lru_list, clientVars>>

\* The page has processes and the user ends none.
Refuse ==
  /\ eviction # Nobody
  /\ frame_map[Looked].pin_count > 0
  /\ MoveOn
  /\ UNCHANGED <<deviceVars, frame_map, ops_queue, overrun>>

\* Faulty: the process ended stays in the queue.
QueueKept(queue) == queue

\* pop_front
QueueRest(queue) == IF queue = <<>> THEN <<>> ELSE Tail(queue)

\* The user ends a process.  If the process looked at (the first under LRU, the last
\* under the clock) writes, the user says whether the page is saved.  The process
\* taken away is the first.
Terminate ==
  /\ eviction # Nobody
  /\ frame_map[Looked].pin_count > 0
  /\ LET q == Looked
         rest == QueueRest(ops_queue[q])
         nowOverrun == ops_queue[q] = <<>> \/ q \in overrun
     IN  \E op \in IF is_clock THEN BackOf(ops_queue[q], q \in overrun)
                              ELSE FrontOf(ops_queue[q], q \in overrun),
            save \in BOOLEAN :
           /\ IF op = "W" /\ save THEN WriteBlocks([p \in {q} |-> frame_map[q].bytes])
                                  ELSE UNCHANGED deviceVars
           /\ \E dirty \in IF rest # <<>> \/ nowOverrun
                             THEN {front = "W" : front \in FrontOf(rest, nowOverrun)}
                           ELSE IF is_clock
                             THEN {frame_map[q].dirty /\ ~(op = "W" /\ save)}
                           ELSE {FALSE} :
                frame_map' = [frame_map EXCEPT ![q].pin_count = @ - 1, ![q].dirty = dirty]
           /\ ops_queue' = [ops_queue EXCEPT ![q] = rest]
           /\ overrun' = IF nowOverrun THEN overrun \cup {q} ELSE overrun
  /\ MoveOn

\* Faulty: the clock leaves the reference bit.
PassOverOnly ==
  /\ eviction # Nobody
  /\ frame_map[Looked].pin_count = 0
  /\ frame_map[Looked].fixed_pin \/ frame_map[Looked].reference_bit
  /\ MoveOn
  /\ UNCHANGED <<deviceVars, frame_map, ops_queue, overrun>>

\* A page without processes stays: the clock takes its reference bit, or it is fixed.
PassOver ==
  /\ eviction # Nobody
  /\ frame_map[Looked].pin_count = 0
  /\ frame_map[Looked].fixed_pin \/ frame_map[Looked].reference_bit
  /\ frame_map' = [frame_map EXCEPT ![Looked].reference_bit = FALSE]
  /\ MoveOn
  /\ UNCHANGED <<deviceVars, ops_queue, overrun>>

\* LRU drops the page as it is; the clock asks whether a dirty page is saved.
EvictAndLoad(op, fixed) ==
  /\ eviction # Nobody
  /\ LET q == Looked
     IN  /\ Evictable(q)
         /\ ~frame_map[q].reference_bit
         /\ \/ UNCHANGED deviceVars
            \/ is_clock /\ WriteDirty({q})
         /\ \E s \in Slots :
              /\ frame_slots[s] = q
              /\ LoadInto(eviction.page, op, fixed, SlotsWithout(s), ListWithout(q), {q})
              /\ clock_hand' = HandAfter(s)
  /\ eviction' = Nobody
  /\ UNCHANGED <<is_clock, clientVars>>
-----------------------------------------------------------------------------
(* The rest of the menu.                                                   *)

SessionFlushAll ==
  /\ eviction = Nobody
  /\ FlushAll
  /\ UNCHANGED <<ops_queue, overrun, eviction>>

SessionClear ==
  /\ eviction = Nobody
  /\ Clear
  /\ ops_queue' = [p \in BlockIds |-> <<>>]
  /\ overrun' = {}
  /\ UNCHANGED eviction

SessionSetFixedPin(p, value) ==
  /\ eviction = Nobody
  /\ SetFixedPin(p, value)
  /\ UNCHANGED <<ops_queue, overrun, eviction>>
-----------------------------------------------------------------------------
\* Only a process comes with a fixed pin.  Bound of the model: the pages fixed at one
\* time.
MayFix(p, op, fixed) ==
  fixed => /\ op \in Processes
           /\ Cardinality({q \in Resident \ {p} : frame_map[q].fixed_pin}) < MaxFixed

EvictionStep ==
  \/ Refuse
  \/ Terminate
  \/ PassOver
  \/ \E op \in Processes \cup Options, fixed \in BOOLEAN :
       MayFix(eviction.page, op, fixed) /\ EvictAndLoad(op, fixed)

SessionNext ==
  \/ \E p \in BlockIds :
       \/ \E op \in Processes \cup Options, fixed \in BOOLEAN :
            MayFix(p, op, fixed) /\ (SessionHit(p, op, fixed) \/ SessionMiss(p, op, fixed))
       \/ NeedsFrame(p)
       \/ \E value \in BOOLEAN : SessionSetFixedPin(p, value)
  \/ EvictionStep
  \/ SessionFlushAll
  \/ SessionClear

SessionSpec == SessionInit /\ [][SessionNext]_sessionVars

\* The eviction loop runs on, and a user asked again and again ends a process now
\* and then.
SessionFairness ==
  /\ WF_sessionVars(EvictionStep)
  /\ SF_sessionVars(Terminate)

FairSessionSpec == SessionSpec /\ SessionFairness
-----------------------------------------------------------------------------
(* Properties.                                                             *)

\* Every process the menu lists for a page has its pin.
ProcessesArePinned ==
  \A p \in BlockIds :
    ops_queue[p] # <<>> => p \in Resident /\ Len(ops_queue[p]) <= frame_map[p].pin_count

\* A page with processes or a fixed page leaves only when the user empties the pool.
ProcessesStay ==
  [][\A p \in Resident :
       frame_map[p].pin_count > 0 \/ frame_map[p].fixed_pin
         => p \in Resident' \/ SessionClear]_sessionVars

\* "Realiza EVICTION, siempre mata a alguien": as long as some page is not fixed, the
\* rounds of questions end and the load gets its frame.
AlwaysKills == eviction # Nobody ~> eviction = Nobody

\* flush_all writes every page to the disk as it is in the pool (buffer_manager.hpp:21
\* says: every dirty page).
FlushSavesAll ==
  [][SessionFlushAll => \A p \in Resident : disk'[p] = frame_map[p].bytes]_sessionVars

\* A page LRU evicts has no reads or writes pending (evictions.cpp:55).
NothingPending ==
  [][\A p \in Resident \ Resident' : ~is_clock /\ ~SessionClear => ~frame_map[p].dirty]_sessionVars
=============================================================================
