----------------------------- MODULE RecordsProofs -----------------------------
(***************************************************************************)
(* What holds of Records for every number of pages, size of record and     *)
(* number of failures.                                                     *)
(***************************************************************************)
EXTENDS Records, RecordPageProofs, Induction

\* Every page is sound, and has another after it or none.
PagesInv ==
  /\ table.are_regs_fixed \in BOOLEAN
  /\ table = [are_regs_fixed |-> table.are_regs_fixed, first_page_id |-> table.first_page_id,
              last_page_id |-> table.last_page_id]
  /\ pages = [p \in PageIds |-> pages[p]]
  /\ \A p \in PageIds : Sound(table.are_regs_fixed, pages[p])

\* What an operation still has to insert.
OpInv ==
  op.kind \notin {"none", "stopped"} =>
    /\ {"kind", "at", "values", "goes_on"} \subseteq DOMAIN op
    /\ op.values \in Seq(Values)
    /\ op.kind \in {"put", "grow", "grown"} => op.values # <<>>

\* As long as nothing failed, who has a pin.
PinsInv ==
  /\ failures \in Nat
  /\ DOMAIN pins = PageIds \cup {table_block_id}
  /\ failures = 0 =>
       \A p \in DOMAIN pins :
         pins[p] = IF \/ op.kind = "grown" /\ p = table.last_page_id
                      \/ op.kind = "fill" /\ p = op.at
                   THEN 1 ELSE 0

\* The list of the pages of the table.
ListOf(n, list) ==
  /\ list \in [1 .. n -> PageIds]
  /\ IsListFrom(list, table.first_page_id)
  /\ \A i, j \in 1 .. n : list[i] = list[j] => i = j
  /\ Elements(list) = allocated
  /\ \/ table.last_page_id = list[n] /\ op.kind # "grown"
     \/ /\ n > 1 /\ table.last_page_id = list[n - 1]
        /\ \/ op.kind = "grown" /\ op.at = list[n]
           \/ op.kind # "grown" /\ failures > 0

ListInv == \E n \in 1 .. MaxPages : \E list : ListOf(n, list)

IInv == PagesInv /\ OpInv /\ PinsInv /\ ListInv
-----------------------------------------------------------------------------
\* A value that is not changed keeps the links.
LEMMA InsertedKeepsNext ==
  ASSUME NEW are_regs_fixed \in BOOLEAN, NEW page \in PageType, NEW v \in Values
  PROVE  Inserted(are_regs_fixed, page, v).page.next_block_id = page.next_block_id
<1>1. InFixed(page, v).page.next_block_id = page.next_block_id
  BY DEF InFixed, Refused, Taken, PageType
<1>2. ASSUME NEW other \in PageType
      PROVE  InFreeSlot(other, v).page.next_block_id = other.next_block_id
  BY DEF InFreeSlot, Refused, Taken, PageType
<1>3. CASE are_regs_fixed
  BY <1>1, <1>3 DEF Inserted
<1>4. CASE ~are_regs_fixed
  BY <1>2, <1>4 DEF Inserted, InSlotted, InFreeSlot, WithNewSlot, Refused, Taken, PageType
<1> QED BY <1>3, <1>4

LEMMA DeletedKeepsNext ==
  ASSUME NEW are_regs_fixed \in BOOLEAN, NEW page \in PageType, NEW positions
  PROVE  Deleted(are_regs_fixed, page, positions).next_block_id = page.next_block_id
BY DEF Deleted, Cleared, Taken, PageType

-----------------------------------------------------------------------------
\* A change of a page to a sound one keeps every page sound.
LEMMA OnePageChanged ==
  ASSUME PagesInv, NEW p, NEW page,
         p \in PageIds => Sound(table.are_regs_fixed, page),
         pages' = [pages EXCEPT ![p] = page], table' = table
  PROVE  PagesInv'
<1>1. pages' = [q \in PageIds |-> pages'[q]]
  BY DEF PagesInv
<1>2. \A q \in PageIds : pages'[q] = IF q = p THEN page ELSE pages[q]
  BY DEF PagesInv
<1>3. \A q \in PageIds : Sound(table'.are_regs_fixed, pages'[q])
  BY <1>2 DEF PagesInv
<1> QED BY <1>1, <1>3 DEF PagesInv

LEMMA InitPages == Init => PagesInv
<1> SUFFICES ASSUME Init PROVE PagesInv
  OBVIOUS
<1>1. /\ table.are_regs_fixed \in BOOLEAN
      /\ table = [are_regs_fixed |-> table.are_regs_fixed,
                  first_page_id |-> table.first_page_id, last_page_id |-> table.last_page_id]
  BY DEF Init
<1>2. Sound(table.are_regs_fixed, NewPage(table.are_regs_fixed))
  BY <1>1, NewPageIsSound
<1>3. pages = [p \in PageIds |-> NewPage(table.are_regs_fixed)]
  BY DEF Init
<1> QED BY <1>1, <1>2, <1>3 DEF PagesInv

\* An operation changes pages by insertions, deletions and links.
LEMMA NextPages == PagesInv /\ OpInv /\ [Next]_vars => PagesInv'
<1> SUFFICES ASSUME PagesInv, OpInv, [Next]_vars PROVE PagesInv'
  OBVIOUS
<1> DEFINE fixed == table.are_regs_fixed
<1>1. CASE UNCHANGED <<table, pages>>
  BY <1>1 DEF PagesInv
<1>2. CASE AddPage
  <2>1. PICK p \in PageIds \ allocated :
          pages' = [pages EXCEPT ![p] = NewPage(fixed), ![table.last_page_id].next_block_id = p]
    BY <1>2 DEF AddPage
  <2> DEFINE linked == [pages EXCEPT ![p] = NewPage(fixed)]
  <2>2. /\ linked = [q \in PageIds |-> linked[q]]
        /\ \A q \in PageIds : Sound(fixed, linked[q])
    BY NewPageIsSound DEF PagesInv
  <2>3. table' = table
    BY <1>2 DEF AddPage
  <2>4. pages' = [linked EXCEPT ![table.last_page_id].next_block_id = p]
    BY <2>1
  <2> HIDE DEF linked
  <2>5. ASSUME NEW page, Sound(fixed, page)
        PROVE  Sound(fixed, [page EXCEPT !.next_block_id = p])
    <3> DEFINE other == [page EXCEPT !.next_block_id = p]
    <3>1. page \in PageType /\ p \in Nat
      BY <2>5, RecordsAssumption DEF Sound, PageIds, RecordsAssumption
    <3>2. /\ other \in PageType
          /\ other.slots = page.slots
          /\ other.free_bytes = page.free_bytes
          /\ other.free_space = page.free_space
          /\ other.n_regs = page.n_regs
          /\ other.free_space_offset = page.free_space_offset
      BY <3>1 DEF PageType
    <3>3. Used(other) = Used(page)
      BY <3>2 DEF Used
    <3> HIDE DEF other
    <3>4. /\ fixed => SoundFixed(other)
          /\ ~fixed => SoundSlotted(other)
      BY <2>5, <3>2, <3>3 DEF Sound, SoundFixed, SoundSlotted
    <3>5. Sound(fixed, other)
      BY <2>5, <3>2, <3>3, <3>4 DEF Sound
    <3> QED BY <3>5 DEF other
  <2>6. pages' = [q \in PageIds |-> pages'[q]]
    BY <2>2, <2>4
  <2>7. \A q \in PageIds :
          pages'[q] = IF q = table.last_page_id THEN [linked[q] EXCEPT !.next_block_id = p]
                      ELSE linked[q]
    BY <2>2, <2>4
  <2>8. \A q \in PageIds : Sound(fixed, pages'[q])
    BY <2>2, <2>5, <2>7
  <2> QED BY <2>3, <2>6, <2>8 DEF PagesInv
<1>3. CASE WriteTable
  BY <1>3 DEF WriteTable, TableWith, PagesInv
<1>4. ASSUME NEW v \in Values, pages' = [pages EXCEPT ![op.at] = Inserted(fixed, @, v).page],
             table' = table
      PROVE  PagesInv'
  <2>1. op.at \in PageIds => Sound(fixed, Inserted(fixed, pages[op.at], v).page)
    BY InsertedIsSound DEF PagesInv
  <2> QED BY <1>4, <2>1, OnePageChanged
<1>5. CASE Put \/ PutRefused
  <2>1. op.values[1] \in Values
    BY <1>5 DEF Put, PutRefused, OpInv
  <2> QED BY <1>4, <1>5, <2>1 DEF Put, PutRefused
<1>6. CASE FillRecord
  <2>1. Head(op.values) \in Values
    BY <1>6 DEF FillRecord, FitsNext, OpInv
  <2> QED BY <1>4, <1>6, <2>1 DEF FillRecord
<1>7. CASE DeleteInPage
  <2>1. Doomed \subseteq Used(pages[op.at])
    BY DEF Doomed, Nth
  <2>2. op.at \in PageIds => Sound(fixed, Deleted(fixed, pages[op.at], Doomed))
    BY <2>1, DeletedIsSound DEF PagesInv
  <2>3. pages' = [pages EXCEPT ![op.at] = Deleted(fixed, pages[op.at], Doomed)] /\ table' = table
    BY <1>7 DEF DeleteInPage
  <2> QED BY <2>2, <2>3, OnePageChanged
<1>8. CASE \/ \E v \in Values : BeginInsert(v)
           \/ \E p \in allocated, v \in Values : BeginInsertIntoPage(p, v)
           \/ \E values \in UpTo(MaxBulk) : BeginBulk(values)
           \/ \E cond \in SUBSET Values \ {{}} : BeginDelete(cond)
           \/ \E p \in allocated, cond \in SUBSET Values \ {{}} : BeginDeleteFromPage(p, cond)
           \/ \E nth \in 0 .. Cardinality(Records) - 1 : BeginDeleteNth(nth)
  BY <1>1, <1>8
  DEF BeginInsert, BeginInsertIntoPage, BeginBulk, BeginDelete, BeginDeleteFromPage, BeginDeleteNth
<1>9. CASE GrowRefused \/ LoadToFill \/ LeavePage \/ NextPage \/ NextPageLost
  BY <1>1, <1>9 DEF GrowRefused, LoadToFill, LeavePage, NextPage, NextPageLost
<1>10. CASE \/ IndexInsert \/ IndexRemove \/ IndexRefuses \/ ListIndex \/ ReadAll \/ Update
            \/ \E nth \in 0 .. Cardinality(Records) - 1 : UpdateNth(nth)
            \/ Fails
  BY <1>1, <1>10
  DEF IndexInsert, IndexRemove, IndexRefuses, ListIndex, ReadAll, Update, UpdateNth, Fails
<1>11. CASE UNCHANGED vars
  BY <1>1, <1>11 DEF vars
<1> QED BY <1>2, <1>3, <1>5, <1>6, <1>7, <1>8, <1>9, <1>10, <1>11 DEF Next
-----------------------------------------------------------------------------
LEMMA InitOp == Init => OpInv
BY DEF Init, Idle, OpInv

\* An operation keeps what it still has to insert.
LEMMA NextOp == OpInv /\ [Next]_vars => OpInv'
<1> SUFFICES ASSUME OpInv, [Next]_vars PROVE OpInv'
  OBVIOUS
<1>1. CASE op' = Idle \/ op' = Stopped
  BY <1>1 DEF Idle, Stopped, OpInv
<1>2. ASSUME NEW v \in Values, BeginInsert(v) PROVE OpInv'
  <2>1. <<v>> \in Seq(Values) /\ <<v>> # <<>>
    OBVIOUS
  <2>2. CASE op' = [NewOp EXCEPT !.kind = "grow", !.values = <<v>>]
    BY <2>1, <2>2 DEF OpInv, NewOp
  <2>3. CASE \E i \in Insertable(v) :
               op' = [NewOp EXCEPT !.kind = "put", !.at = ListFrom(table.first_page_id)[i],
                                   !.values = <<v>>]
    BY <2>1, <2>3 DEF OpInv, NewOp
  <2> QED BY <1>2, <2>2, <2>3 DEF BeginInsert
<1>3. ASSUME NEW p, NEW v \in Values, BeginInsertIntoPage(p, v) PROVE OpInv'
  <2>1. <<v>> \in Seq(Values) /\ <<v>> # <<>>
    OBVIOUS
  <2> QED BY <1>3, <2>1 DEF BeginInsertIntoPage, OpInv, NewOp
<1>4. ASSUME NEW values \in UpTo(MaxBulk), BeginBulk(values) PROVE OpInv'
  <2>1. values \in Seq(Values)
    BY RecordsAssumption DEF UpTo, RecordsAssumption
  <2>2. op' = [NewOp EXCEPT !.kind = "load", !.at = table.last_page_id, !.values = values]
    BY <1>4 DEF BeginBulk
  <2> QED BY <2>1, <2>2 DEF OpInv, NewOp
<1>5. ASSUME NEW cond, BeginDelete(cond) PROVE OpInv'
  BY <1>5 DEF BeginDelete, OpInv, NewOp
<1>6. ASSUME NEW p, NEW cond, BeginDeleteFromPage(p, cond) PROVE OpInv'
  BY <1>6 DEF BeginDeleteFromPage, OpInv, NewOp
<1>7. CASE \E nth \in 0 .. Cardinality(Records) - 1 : BeginDeleteNth(nth)
  BY <1>7 DEF BeginDeleteNth, OpInv, NewOp
<1>8. CASE AddPage
  BY <1>8 DEF AddPage, OpInv
<1>9. CASE WriteTable
  BY <1>9 DEF WriteTable, OpInv
<1>10. CASE GrowRefused \/ PutRefused
  BY <1>1, <1>10 DEF GrowRefused, PutRefused
<1>11. CASE Put
  BY <1>11 DEF Put, OpInv
<1>12. CASE LoadToFill
  BY <1>12 DEF LoadToFill, OpInv
<1>13. CASE FillRecord
  BY <1>13 DEF FillRecord, FitsNext, OpInv
<1>14. CASE LeavePage
  BY <1>14 DEF LeavePage, OpInv
<1>15. CASE DeleteInPage
  BY <1>15 DEF DeleteInPage, OpInv
<1>16. CASE NextPage
  BY <1>1, <1>16 DEF NextPage, OpInv
<1>17. CASE NextPageLost
  BY <1>1, <1>17 DEF NextPageLost, OpInv
<1>18. CASE IndexInsert \/ IndexRemove \/ IndexRefuses
  BY <1>18 DEF IndexInsert, IndexRemove, IndexRefuses, Indexing, OpInv
<1>19. CASE ListIndex
  BY <1>19 DEF ListIndex, NewOp, OpInv
<1>20. CASE ReadAll
  BY <1>20 DEF ReadAll, OpInv
<1>21. CASE Update \/ (\E nth \in 0 .. Cardinality(Records) - 1 : UpdateNth(nth)) \/ Fails
  BY <1>1, <1>21 DEF Update, UpdateNth, Fails
<1>22. CASE UNCHANGED vars
  BY <1>22 DEF vars, OpInv
<1> QED
  BY <1>2, <1>3, <1>4, <1>5, <1>6, <1>7, <1>8, <1>9, <1>10, <1>11, <1>12, <1>13, <1>14, <1>15,
     <1>16, <1>17, <1>18, <1>19, <1>20, <1>21, <1>22 DEF Next
-----------------------------------------------------------------------------
LEMMA InitPins == Init => PinsInv
BY DEF Init, Idle, PinsInv

\* A step that leaves the pins, and who should have them.
LEMMA SamePins ==
  ASSUME PinsInv, pins' = pins, table' = table, failures' \in Nat, failures' >= failures,
         op'.kind \notin {"grown", "fill"}, op.kind \notin {"grown", "fill"} \/ failures' > 0
  PROVE  PinsInv'
BY DEF PinsInv, table_block_id, PageIds

\* As long as nothing fails, the operations have the pins of a page being filled and of the
\* page before a new one, and no others.
LEMMA NextPins == PinsInv /\ OpInv /\ [Next]_vars => PinsInv'
<1> SUFFICES ASSUME PinsInv, OpInv, [Next]_vars PROVE PinsInv'
  OBVIOUS
<1>1. failures \in Nat
  BY DEF PinsInv
<1>2. ASSUME UNCHANGED <<table, pins, failures>>, op.kind \notin {"grown", "fill"},
             op'.kind \notin {"grown", "fill"}
      PROVE  PinsInv'
  BY <1>1, <1>2, SamePins
<1>3. ASSUME failures' = failures + 1, DOMAIN pins' = DOMAIN pins
      PROVE  PinsInv'
  BY <1>1, <1>3 DEF PinsInv, table_block_id, PageIds
<1>4. ASSUME NEW v \in Values, BeginInsert(v) PROVE PinsInv'
  <2>1. op'.kind \in {"grow", "put"}
    BY <1>4 DEF BeginInsert, NewOp
  <2> QED BY <1>2, <1>4, <2>1 DEF BeginInsert, Idle
<1>5. ASSUME NEW p, NEW v \in Values, BeginInsertIntoPage(p, v) PROVE PinsInv'
  BY <1>2, <1>5 DEF BeginInsertIntoPage, Begins, Idle, NewOp
<1>6. CASE \E values \in UpTo(MaxBulk) : BeginBulk(values)
  BY <1>2, <1>6 DEF BeginBulk, Begins, Idle, NewOp
<1>7. ASSUME NEW cond, BeginDelete(cond) PROVE PinsInv'
  BY <1>2, <1>7 DEF BeginDelete, Begins, Idle, NewOp
<1>8. ASSUME NEW p, NEW cond, BeginDeleteFromPage(p, cond) PROVE PinsInv'
  BY <1>2, <1>8 DEF BeginDeleteFromPage, Begins, Idle, NewOp
<1>9. CASE \E nth \in 0 .. Cardinality(Records) - 1 : BeginDeleteNth(nth)
  BY <1>2, <1>9 DEF BeginDeleteNth, Begins, Idle, NewOp
<1>10. CASE AddPage
  <2>1. op'.kind = "grown" /\ op.kind = "grow"
    BY <1>10 DEF AddPage, OpInv
  <2> QED BY <1>10, <2>1 DEF AddPage, PinsInv, Pinned, table_block_id, PageIds
<1>11. CASE WriteTable
  <2>1. op'.kind \in {"load", "put"} /\ op.kind = "grown"
    BY <1>11 DEF WriteTable, OpInv
  <2>2. pins' = [pins EXCEPT ![table.last_page_id] = @ - 1] /\ failures' = failures
    BY <1>11 DEF WriteTable, Unpinned
  <2> QED BY <2>1, <2>2 DEF PinsInv, table_block_id, PageIds
<1>12. CASE GrowRefused \/ PutRefused
  BY <1>3, <1>12 DEF GrowRefused, PutRefused, Pinned
<1>13. CASE Put
  BY <1>2, <1>13 DEF Put, OpInv
<1>14. CASE LoadToFill
  <2>1. op'.kind = "fill" /\ op'.at = op.at /\ op.kind = "load"
    BY <1>14 DEF LoadToFill, OpInv
  <2> QED BY <1>14, <2>1 DEF LoadToFill, PinsInv, Pinned, table_block_id, PageIds
<1>15. CASE FillRecord
  <2>1. op'.kind = "fill" /\ op'.at = op.at /\ op.kind = "fill"
    BY <1>15 DEF FillRecord, OpInv
  <2> QED BY <1>15, <2>1 DEF FillRecord, PinsInv, table_block_id, PageIds
<1>16. CASE LeavePage
  <2>1. op'.kind \in {"upkeep", "grow"} /\ op.kind = "fill"
    BY <1>16 DEF LeavePage, OpInv
  <2>2. pins' = [pins EXCEPT ![op.at] = @ - 1] /\ failures' = failures
    BY <1>16 DEF LeavePage, Unpinned
  <2> QED BY <2>1, <2>2 DEF PinsInv, table_block_id, PageIds
<1>17. CASE DeleteInPage
  BY <1>2, <1>17 DEF DeleteInPage, OpInv
<1>18. CASE NextPage
  BY <1>2, <1>18 DEF NextPage, OpInv, Idle
<1>19. CASE NextPageLost
  BY <1>3, <1>19 DEF NextPageLost
<1>20. CASE IndexInsert \/ IndexRemove
  BY <1>2, <1>20 DEF IndexInsert, IndexRemove, Indexing, OpInv
<1>21. CASE IndexRefuses
  BY <1>3, <1>21 DEF IndexRefuses
<1>22. CASE ListIndex
  BY <1>2, <1>22 DEF ListIndex, Begins, Idle, NewOp
<1>23. CASE ReadAll
  BY <1>2, <1>23 DEF ReadAll, OpInv
<1>24. CASE Update \/ (\E nth \in 0 .. Cardinality(Records) - 1 : UpdateNth(nth))
  BY <1>2, <1>24 DEF Update, UpdateNth, Begins, Idle, Stopped
<1>25. CASE Fails
  BY <1>3, <1>25 DEF Fails, Pinned
<1>26. CASE UNCHANGED vars
  BY <1>26 DEF vars, PinsInv, table_block_id, PageIds
<1> QED
  BY <1>4, <1>5, <1>6, <1>7, <1>8, <1>9, <1>10, <1>11, <1>12, <1>13, <1>14, <1>15, <1>16,
     <1>17, <1>18, <1>19, <1>20, <1>21, <1>22, <1>23, <1>24, <1>25, <1>26 DEF Next
-----------------------------------------------------------------------------
\* The links give only one list.
LEMMA OnlyList ==
  ASSUME RecordsAssumption, NEW p, NEW n \in 0 .. MaxPages, NEW list \in [1 .. n -> PageIds],
         IsListFrom(list, p)
  PROVE  ListFrom(p) = list
<1> DEFINE Sequences == UNION {[1 .. k -> PageIds] : k \in 0 .. MaxPages}
           found == ListFrom(p)
<1>1. list \in Sequences
  OBVIOUS
<1>2. found \in Sequences /\ IsListFrom(found, p)
  BY <1>1, Zenon DEF ListFrom
<1>3. PICK m \in 0 .. MaxPages : found \in [1 .. m -> PageIds]
  BY <1>2
<1>4. n \in Nat /\ m \in Nat /\ NULL_PAGE \notin PageIds
  BY RecordsAssumption DEF NULL_PAGE, PageIds, RecordsAssumption
<1> HIDE DEF Sequences, found
<1>5. /\ Len(list) = n /\ (list = <<>> <=> n = 0) /\ DOMAIN list = 1 .. n
      /\ Len(found) = m /\ (found = <<>> <=> m = 0) /\ DOMAIN found = 1 .. m
  BY <1>3, <1>4
<1>6. /\ p = IF n = 0 THEN NULL_PAGE ELSE list[1]
      /\ \A i \in 1 .. n :
           pages[list[i]].next_block_id = IF i = n THEN NULL_PAGE ELSE list[i + 1]
  BY <1>5 DEF IsListFrom
<1>7. /\ p = IF m = 0 THEN NULL_PAGE ELSE found[1]
      /\ \A i \in 1 .. m :
           pages[found[i]].next_block_id = IF i = m THEN NULL_PAGE ELSE found[i + 1]
  BY <1>2, <1>5 DEF IsListFrom
<1>8. /\ \A i \in 1 .. n : list[i] \in PageIds
      /\ \A i \in 1 .. m : found[i] \in PageIds
  BY <1>3
<1>9. n = 0 <=> m = 0
  <2>1. n # 0 => 1 \in 1 .. n
    BY <1>4
  <2>2. m # 0 => 1 \in 1 .. m
    BY <1>4
  <2> QED BY <1>4, <1>6, <1>7, <1>8, <2>1, <2>2
<1>10. \A i \in Nat : i \in 1 .. n /\ i \in 1 .. m => list[i] = found[i]
  <2> DEFINE Wrong == {i \in Nat : i \in 1 .. n /\ i \in 1 .. m /\ list[i] # found[i]}
  <2> SUFFICES ASSUME Wrong # {} PROVE FALSE
    BY Zenon
  <2>1. Wrong \subseteq Nat
    OBVIOUS
  <2>2. PICK i \in Wrong : \A j \in Wrong : ~(<<j, i>> \in OpToRel(<, Nat))
    BY <2>1, WFMin, NatLessThanWellFounded, Zenon
  <2>3. \A j \in Wrong : ~(j < i)
    BY <2>1, <2>2, Zenon DEF OpToRel
  <2>4. i \in Nat /\ i # 1 /\ i \in 1 .. n /\ i \in 1 .. m /\ list[i] # found[i]
    BY <1>4, <1>6, <1>7
  <2>5. i - 1 \in Nat /\ i - 1 < i /\ i - 1 \in 1 .. n /\ i - 1 \in 1 .. m
    BY <1>4, <2>4
  <2>6. list[i - 1] = found[i - 1]
    BY <2>3, <2>5
  <2>7. i - 1 # n /\ i - 1 # m /\ (i - 1) + 1 = i
    BY <1>4, <2>4
  <2> QED BY <1>6, <1>7, <2>4, <2>5, <2>6, <2>7
<1>11. ~(m < n)
  <2> SUFFICES ASSUME m < n PROVE FALSE
    OBVIOUS
  <2>1. m \in 1 .. n /\ m \in 1 .. m /\ m + 1 \in 1 .. n /\ m # n
    BY <1>4, <1>9
  <2>2. list[m + 1] = NULL_PAGE
    BY <1>4, <1>6, <1>7, <1>10, <2>1
  <2> QED BY <1>4, <1>8, <2>1, <2>2
<1>12. ~(n < m)
  <2> SUFFICES ASSUME n < m PROVE FALSE
    OBVIOUS
  <2>1. n \in 1 .. n /\ n \in 1 .. m /\ n + 1 \in 1 .. m /\ m # n
    BY <1>4, <1>9
  <2>2. found[n + 1] = NULL_PAGE
    BY <1>4, <1>6, <1>7, <1>10, <2>1
  <2> QED BY <1>4, <1>8, <2>1, <2>2
<1>13. n = m
  BY <1>4, <1>11, <1>12
<1>14. list = found
  <2>1. \A i \in 1 .. n : list[i] = found[i]
    BY <1>4, <1>10, <1>13
  <2> QED BY <1>3, <1>4, <1>13, <2>1
<1> QED BY <1>14 DEF found

\* The list of the table is found by following the links.
LEMMA OneList ==
  ASSUME RecordsAssumption, ListInv
  PROVE  \E n \in 1 .. MaxPages : ListOf(n, ListFrom(table.first_page_id))
<1>1. PICK n \in 1 .. MaxPages : \E list : ListOf(n, list)
  BY DEF ListInv
<1>2. PICK list : ListOf(n, list)
  BY <1>1
<1>3. n \in 0 .. MaxPages /\ list \in [1 .. n -> PageIds] /\ IsListFrom(list, table.first_page_id)
  BY <1>2 DEF ListOf
<1>4. ListFrom(table.first_page_id) = list
  BY <1>3, OnlyList
<1> QED BY <1>2, <1>4

\* A list has as many elements as its length.
LEMMA Distinct ==
  ASSUME NEW n \in Nat, NEW list \in [1 .. n -> PageIds],
         \A i, j \in 1 .. n : list[i] = list[j] => i = j
  PROVE  Cardinality(Elements(list)) = n
<1>1. Elements(list) = {list[i] : i \in 1 .. n}
  BY DEF Elements
<1>2. list \in Bijection(1 .. n, Elements(list))
  BY <1>1 DEF Bijection, Injection, Surjection, IsInjective
<1>3. IsFiniteSet(1 .. n) /\ Cardinality(1 .. n) = n
  BY FS_Interval
<1> QED BY <1>2, <1>3, FS_Bijection DEF ExistsBijection

LEMMA ListInvImplies == RecordsAssumption /\ ListInv => ListIsWhole
<1> SUFFICES ASSUME RecordsAssumption, ListInv PROVE ListIsWhole
  OBVIOUS
<1> DEFINE list == ListFrom(table.first_page_id)
<1>1. PICK n \in 1 .. MaxPages : ListOf(n, list)
  BY OneList
<1>2. n \in Nat /\ list \in [1 .. n -> PageIds]
  BY <1>1, RecordsAssumption DEF ListOf, RecordsAssumption
<1> HIDE DEF list
<1>3. Len(list) = n
  BY <1>2
<1>4. Cardinality(allocated) = n
  BY <1>1, <1>2, Distinct DEF ListOf
<1>5. Elements(list) = allocated
  BY <1>1 DEF ListOf
<1>6. \/ table.last_page_id = list[n]
      \/ (op.kind = "grown" \/ failures > 0) /\ n > 1 /\ table.last_page_id = list[n - 1]
  BY <1>1 DEF ListOf
<1> QED BY <1>3, <1>4, <1>5, <1>6 DEF ListIsWhole, list

\* A step that changes no link and no page given to the table.
SameLinks ==
  /\ UNCHANGED allocated
  /\ table'.first_page_id = table.first_page_id
  /\ \A p \in PageIds : pages'[p].next_block_id = pages[p].next_block_id

LEMMA SameList ==
  ASSUME NEW n \in Nat, NEW list, ListOf(n, list), SameLinks
  PROVE  /\ list \in [1 .. n -> PageIds]
         /\ IsListFrom(list, table.first_page_id)'
         /\ \A i, j \in 1 .. n : list[i] = list[j] => i = j
         /\ Elements(list) = allocated'
<1>1. /\ list \in [1 .. n -> PageIds]
      /\ \A i, j \in 1 .. n : list[i] = list[j] => i = j
      /\ Elements(list) = allocated'
      /\ DOMAIN list = 1 .. n
  BY DEF ListOf, SameLinks
<1>2. IsListFrom(list, table.first_page_id)
  BY DEF ListOf
<1>3. IsListFrom(list, table.first_page_id)'
  BY <1>1, <1>2 DEF IsListFrom, SameLinks
<1> QED BY <1>1, <1>3

LEMMA InitList == RecordsAssumption /\ Init => ListInv
<1> SUFFICES ASSUME RecordsAssumption, Init PROVE ListInv
  OBVIOUS
<1>1. 1 \in PageIds /\ 1 \in 1 .. MaxPages
  BY DEF PageIds, RecordsAssumption
<1>2. table.first_page_id = 1 /\ table.last_page_id = 1 /\ op.kind = "none" /\ allocated = {1}
  BY DEF Init, Idle
<1>3. pages[1].next_block_id = NULL_PAGE
  BY <1>1 DEF Init, NewPage, NewFixedPage, NewSlottedPage
<1> DEFINE list == [i \in 1 .. 1 |-> 1]
<1>4. /\ list \in [1 .. 1 -> PageIds] /\ list # <<>> /\ list[1] = 1 /\ Len(list) = 1
      /\ DOMAIN list = 1 .. 1
  BY <1>1
<1>5. Elements(list) = {1}
  BY DEF Elements
<1>6. \A i, j \in 1 .. 1 : list[i] = list[j] => i = j
  OBVIOUS
<1> HIDE DEF list
<1>7. IsListFrom(list, table.first_page_id)
  BY <1>2, <1>3, <1>4 DEF IsListFrom
<1>8. ListOf(1, list)
  BY <1>2, <1>4, <1>5, <1>6, <1>7 DEF ListOf
<1> QED BY <1>1, <1>8 DEF ListInv

\* A page is added at the end of the list; other operations leave the links.
LEMMA NextList ==
  RecordsAssumption /\ PagesInv /\ OpInv /\ PinsInv /\ ListInv /\ [Next]_vars => ListInv'
<1> SUFFICES ASSUME RecordsAssumption, PagesInv, OpInv, PinsInv, ListInv, [Next]_vars
             PROVE  ListInv'
  OBVIOUS
<1>0. PICK n \in 1 .. MaxPages : \E list : ListOf(n, list)
  BY DEF ListInv
<1>1. PICK list : ListOf(n, list)
  BY <1>0
<1>2. failures \in Nat
  BY DEF PinsInv
<1>3. /\ n \in Nat /\ list \in [1 .. n -> PageIds]
      /\ list[n] \in PageIds /\ NULL_PAGE \notin PageIds /\ n > 0
  BY <1>1, RecordsAssumption DEF ListOf, RecordsAssumption, PageIds, NULL_PAGE
<1>4. ASSUME SameLinks, table' = table, op.kind # "grown", op'.kind # "grown",
             failures' = failures \/ failures' = failures + 1
      PROVE  ListInv'
  <2>1. \/ table'.last_page_id = list[n]
        \/ n > 1 /\ table'.last_page_id = list[n - 1] /\ failures' > 0
    BY <1>1, <1>2, <1>4 DEF ListOf
  <2>2. ListOf(n, list)'
    BY <1>1, <1>4, <2>1, SameList DEF ListOf
  <2> QED BY <2>2 DEF ListInv
<1>5. ASSUME UNCHANGED <<table, pages, allocated>>, op'.kind # "grown", failures' = failures + 1
      PROVE  ListInv'
  <2>1. SameLinks
    BY <1>5 DEF SameLinks
  <2>2. \/ table'.last_page_id = list[n]
        \/ n > 1 /\ table'.last_page_id = list[n - 1] /\ failures' > 0
    BY <1>1, <1>2, <1>5 DEF ListOf
  <2>3. ListOf(n, list)'
    BY <1>1, <1>5, <2>1, <2>2, SameList DEF ListOf
  <2> QED BY <2>3 DEF ListInv
<1>6. UNCHANGED <<table, pages, allocated>> => SameLinks
  BY DEF SameLinks
<1>7. CASE /\ UNCHANGED <<table, pages, allocated>>
           /\ failures' = failures \/ failures' = failures + 1
           /\ op.kind # "grown" /\ op'.kind # "grown"
  BY <1>4, <1>6, <1>7
<1>8. ASSUME NEW v \in Values, BeginInsert(v) PROVE ListInv'
  <2>1. op'.kind \in {"grow", "put"}
    BY <1>8 DEF BeginInsert, NewOp
  <2> QED BY <1>7, <1>8, <2>1 DEF BeginInsert, Idle
<1>9. ASSUME NEW p, NEW v \in Values, BeginInsertIntoPage(p, v) PROVE ListInv'
  BY <1>7, <1>9 DEF BeginInsertIntoPage, Begins, Idle, NewOp
<1>10. CASE \E values \in UpTo(MaxBulk) : BeginBulk(values)
  BY <1>7, <1>10 DEF BeginBulk, Begins, Idle, NewOp
<1>11. ASSUME NEW cond, BeginDelete(cond) PROVE ListInv'
  BY <1>7, <1>11 DEF BeginDelete, Begins, Idle, NewOp
<1>12. ASSUME NEW p, NEW cond, BeginDeleteFromPage(p, cond) PROVE ListInv'
  BY <1>7, <1>12 DEF BeginDeleteFromPage, Begins, Idle, NewOp
<1>13. CASE \E nth \in 0 .. Cardinality(Records) - 1 : BeginDeleteNth(nth)
  BY <1>7, <1>13 DEF BeginDeleteNth, Begins, Idle, NewOp
<1>14. CASE AddPage
  <2>1. PICK p \in PageIds \ allocated :
          /\ allocated' = allocated \cup {p}
          /\ pages' = [pages EXCEPT ![p] = NewPage(table.are_regs_fixed),
                                    ![table.last_page_id].next_block_id = p]
          /\ op' = [op EXCEPT !.kind = "grown", !.at = p]
    BY <1>14 DEF AddPage
  <2>2. /\ op.kind = "grow" /\ table' = table
        /\ pages[table.last_page_id].next_block_id = NULL_PAGE
    BY <1>14 DEF AddPage
  <2>3. op'.kind = "grown" /\ op'.at = p
    BY <2>1, <2>2 DEF OpInv
  <2>4. /\ IsListFrom(list, table.first_page_id)
        /\ \A i, j \in 1 .. n : list[i] = list[j] => i = j
        /\ Elements(list) = allocated
    BY <1>1 DEF ListOf
  <2>5. Len(list) = n /\ DOMAIN list = 1 .. n /\ list # <<>>
    BY <1>3
  <2>6. /\ table.first_page_id = list[1]
        /\ \A i \in 1 .. n :
             pages[list[i]].next_block_id = IF i = n THEN NULL_PAGE ELSE list[i + 1]
    BY <2>4, <2>5 DEF IsListFrom
  <2>7. table.last_page_id = list[n]
    <3>1. ~(n > 1 /\ table.last_page_id = list[n - 1])
      BY <1>3, <2>2, <2>6
    <3> QED BY <1>1, <3>1 DEF ListOf
  <2>8. \A i \in 1 .. n : list[i] # p
    BY <2>1, <2>4, <2>5 DEF Elements
  <2>9. NewPage(table.are_regs_fixed).next_block_id = NULL_PAGE
    BY DEF NewPage, NewFixedPage, NewSlottedPage
  <2>10. \A q \in PageIds :
           pages'[q].next_block_id =
             IF q = list[n] THEN p ELSE IF q = p THEN NULL_PAGE ELSE pages[q].next_block_id
    <3> DEFINE linked == [pages EXCEPT ![p] = NewPage(table.are_regs_fixed)]
    <3>1. /\ linked = [q \in PageIds |-> linked[q]]
          /\ \A q \in PageIds : linked[q] = IF q = p THEN NewPage(table.are_regs_fixed) ELSE pages[q]
      BY DEF PagesInv
    <3>2. pages' = [linked EXCEPT ![list[n]].next_block_id = p]
      BY <2>1, <2>7
    <3> HIDE DEF linked
    <3>3. \A q \in PageIds :
            pages'[q] = IF q = list[n] THEN [linked[q] EXCEPT !.next_block_id = p] ELSE linked[q]
      BY <3>1, <3>2
    <3>4. list[n] # p /\ pages[list[n]] \in PageType
      BY <1>3, <2>8 DEF PagesInv, Sound
    <3>5. pages'[list[n]].next_block_id = p
      BY <1>3, <3>1, <3>3, <3>4 DEF PageType
    <3> QED BY <2>9, <3>1, <3>3, <3>5
  <2> DEFINE longer == [i \in 1 .. n + 1 |-> IF i = n + 1 THEN p ELSE list[i]]
  <2>11. /\ longer \in [1 .. n + 1 -> PageIds]
         /\ \A i \in 1 .. n : longer[i] = list[i]
         /\ longer[n + 1] = p
         /\ Len(longer) = n + 1 /\ DOMAIN longer = 1 .. n + 1 /\ longer # <<>>
    BY <1>3, <2>1
  <2> HIDE DEF longer
  <2>12. \A i, j \in 1 .. n + 1 : longer[i] = longer[j] => i = j
    BY <1>3, <2>4, <2>8, <2>11
  <2>13. Elements(longer) = allocated'
    <3>1. Elements(longer) = {longer[i] : i \in 1 .. n + 1}
      BY <2>11 DEF Elements
    <3>2. allocated = {list[i] : i \in 1 .. n}
      BY <2>4, <2>5 DEF Elements
    <3>3. 1 .. n + 1 = (1 .. n) \cup {n + 1}
      BY <1>3
    <3> QED BY <2>1, <2>11, <3>1, <3>2, <3>3
  <2>14. n + 1 \in 1 .. MaxPages
    <3>1. Cardinality(Elements(longer)) = n + 1
      BY <1>3, <2>11, <2>12, Distinct
    <3>2. Elements(longer) \subseteq PageIds
      BY <2>11 DEF Elements
    <3>3. IsFiniteSet(PageIds) /\ Cardinality(PageIds) = MaxPages
      BY FS_Interval, RecordsAssumption DEF PageIds, RecordsAssumption
    <3>4. n + 1 <= MaxPages
      BY <3>1, <3>2, <3>3, FS_Subset
    <3> QED BY <1>3, <3>4, RecordsAssumption DEF RecordsAssumption
  <2>15. IsListFrom(longer, table.first_page_id)'
    <3>1. table'.first_page_id = longer[1]
      BY <1>3, <2>2, <2>6, <2>11
    <3>2. ASSUME NEW i \in 1 .. n + 1
          PROVE  pages'[longer[i]].next_block_id = IF i = n + 1 THEN NULL_PAGE ELSE longer[i + 1]
      <4>1. CASE i = n + 1
        <5>1. longer[i] = p /\ p # list[n]
          BY <1>3, <2>8, <2>11, <4>1
        <5> QED BY <2>1, <2>10, <4>1, <5>1
      <4>2. CASE i = n
        <5>1. longer[i] = list[n] /\ longer[i + 1] = p /\ i # n + 1
          BY <1>3, <2>11, <4>2
        <5> QED BY <1>3, <2>10, <5>1
      <4>3. CASE i \in 1 .. n /\ i # n
        <5>1. list[i] # list[n] /\ list[i] # p /\ list[i] \in PageIds /\ i + 1 \in 1 .. n
          BY <1>3, <2>4, <2>8, <4>3
        <5> QED BY <1>3, <2>6, <2>10, <2>11, <4>3, <5>1
      <4> QED BY <1>3, <4>1, <4>2, <4>3
    <3> QED BY <2>11, <3>1, <3>2 DEF IsListFrom
  <2>16. n + 1 > 1 /\ table'.last_page_id = longer[(n + 1) - 1]
    BY <1>3, <2>2, <2>7, <2>11
  <2>17. ListOf(n + 1, longer)'
    BY <2>3, <2>11, <2>12, <2>13, <2>15, <2>16 DEF ListOf
  <2> QED BY <2>14, <2>17 DEF ListInv
<1>15. CASE WriteTable
  <2>1. op.kind = "grown" /\ op'.kind # "grown" /\ UNCHANGED <<pages, allocated>>
    BY <1>15 DEF WriteTable, OpInv
  <2>2. table'.last_page_id = op.at /\ table'.first_page_id = table.first_page_id
    BY <1>15 DEF WriteTable, TableWith, PagesInv
  <2>3. SameLinks /\ op.at = list[n]
    BY <1>1, <2>1, <2>2 DEF SameLinks, ListOf
  <2>4. /\ list \in [1 .. n -> PageIds]
        /\ IsListFrom(list, table.first_page_id)'
        /\ \A i, j \in 1 .. n : list[i] = list[j] => i = j
        /\ Elements(list) = allocated'
    BY <1>1, <2>3, SameList
  <2>5. ListOf(n, list)'
    BY <2>1, <2>2, <2>3, <2>4 DEF ListOf
  <2> QED BY <2>5 DEF ListInv
<1>16. CASE GrowRefused
  BY <1>7, <1>16 DEF GrowRefused, Idle
<1>17. ASSUME NEW v \in Values, UNCHANGED <<table, allocated>>,
              pages' = [pages EXCEPT ![op.at] = Inserted(table.are_regs_fixed, @, v).page]
       PROVE  SameLinks
  <2>1. ASSUME NEW p \in PageIds
        PROVE  pages'[p].next_block_id = pages[p].next_block_id
    BY <1>17, InsertedKeepsNext DEF PagesInv, Sound
  <2> QED BY <1>17, <2>1 DEF SameLinks
<1>18. CASE Put
  <2>1. op.values[1] \in Values /\ op.kind = "put" /\ op'.kind = "upkeep"
    BY <1>18 DEF Put, OpInv
  <2> QED BY <1>4, <1>17, <1>18, <2>1 DEF Put
<1>19. CASE PutRefused
  <2>1. op.values[1] \in Values /\ op.kind = "put" /\ op'.kind = "none"
    BY <1>19 DEF PutRefused, OpInv, Idle
  <2> QED BY <1>4, <1>17, <1>19, <2>1 DEF PutRefused
<1>20. CASE LoadToFill
  <2>1. op.kind = "load" /\ op'.kind = "fill"
    BY <1>20 DEF LoadToFill, OpInv
  <2> QED BY <1>7, <1>20, <2>1 DEF LoadToFill
<1>21. CASE FillRecord
  <2>1. Head(op.values) \in Values /\ op.kind = "fill" /\ op'.kind = "fill"
    BY <1>21 DEF FillRecord, FitsNext, OpInv
  <2> QED BY <1>4, <1>17, <1>21, <2>1 DEF FillRecord
<1>22. CASE LeavePage
  <2>1. op.kind = "fill" /\ op'.kind \in {"upkeep", "grow"}
    BY <1>22 DEF LeavePage, OpInv
  <2> QED BY <1>7, <1>22, <2>1 DEF LeavePage
<1>23. CASE DeleteInPage
  <2>1. ASSUME NEW p \in PageIds
        PROVE  pages'[p].next_block_id = pages[p].next_block_id
    BY <1>23, DeletedKeepsNext DEF DeleteInPage, PagesInv, Sound
  <2>2. SameLinks /\ op.kind # "grown" /\ op'.kind = "upkeep"
    BY <1>23, <2>1 DEF DeleteInPage, SameLinks, OpInv
  <2> QED BY <1>4, <1>23, <2>2 DEF DeleteInPage
<1>24. CASE NextPage
  <2>1. op.kind = "upkeep" /\ op'.kind \in {"none", "delete"}
    BY <1>24 DEF NextPage, OpInv, Idle
  <2> QED BY <1>7, <1>24, <2>1 DEF NextPage
<1>25. CASE NextPageLost
  <2>1. op.kind = "upkeep" /\ op'.kind \in {"none", "stopped", "delete"}
    <3>1. op.kind = "upkeep" /\ "kind" \in DOMAIN op
      BY <1>25 DEF NextPageLost, OpInv
    <3>2. CASE op' \in {Idle, Stopped}
      BY <3>1, <3>2 DEF Idle, Stopped
    <3>3. ASSUME NEW p, op' = [op EXCEPT !.kind = "delete", !.at = p, !.done = <<>>]
          PROVE  op'.kind = "delete"
      BY <3>1, <3>3
    <3> QED BY <1>25, <3>1, <3>2, <3>3 DEF NextPageLost
  <2> QED BY <1>7, <1>25, <2>1 DEF NextPageLost
<1>26. CASE IndexInsert \/ IndexRemove \/ IndexRefuses
  <2>1. op.kind = "upkeep" /\ op'.kind = "upkeep"
    BY <1>26 DEF IndexInsert, IndexRemove, IndexRefuses, Indexing, OpInv
  <2> QED BY <1>7, <1>26, <2>1 DEF IndexInsert, IndexRemove, IndexRefuses
<1>27. CASE ListIndex
  BY <1>7, <1>27 DEF ListIndex, Begins, Idle, NewOp
<1>28. CASE ReadAll
  <2>1. op.kind = "read_all" /\ op'.kind = "upkeep"
    BY <1>28 DEF ReadAll, OpInv
  <2> QED BY <1>7, <1>28, <2>1 DEF ReadAll
<1>29. CASE Update \/ (\E nth \in 0 .. Cardinality(Records) - 1 : UpdateNth(nth))
  BY <1>7, <1>29 DEF Update, UpdateNth, Begins, Idle, Stopped
<1>30. CASE Fails
  BY <1>5, <1>30 DEF Fails, Idle
<1>31. CASE UNCHANGED vars
  <2>1. SameLinks
    BY <1>31 DEF vars, SameLinks
  <2>2. ListOf(n, list)'
    BY <1>1, <1>31, <2>1, SameList DEF vars, ListOf
  <2> QED BY <2>2 DEF ListInv
<1> QED
  BY <1>8, <1>9, <1>10, <1>11, <1>12, <1>13, <1>14, <1>15, <1>16, <1>18, <1>19, <1>20, <1>21,
     <1>22, <1>23, <1>24, <1>25, <1>26, <1>27, <1>28, <1>29, <1>30, <1>31 DEF Next
-----------------------------------------------------------------------------
LEMMA Inductive == Spec => []IInv
<1>1. Init => IInv
  BY InitPages, InitOp, InitPins, InitList, RecordsAssumption DEF IInv
<1>2. IInv /\ [Next]_vars => IInv'
  BY NextPages, NextOp, NextPins, NextList, RecordsAssumption DEF IInv
<1> QED BY <1>1, <1>2, PTL DEF Spec

\* The headers of every page tell what is in it, the page does what they promise, and its
\* records keep apart: insert, bulk_insert and delete over pages of either kind.
THEOREM PagesAreAlwaysSound == Spec => []PagesAreSound
<1>1. IInv => PagesAreSound
  BY SoundIsAccounted, SoundIsApart DEF IInv, PagesInv, PagesAreSound
<1> QED BY <1>1, Inductive, PTL

\* No page given to a table by add_new_page_to_table is ever out of its list, and the table
\* knows the last page or, after a failure, the one before.
THEOREM ListIsAlwaysWhole == Spec => []ListIsWhole
<1>1. IInv => ListIsWhole
  BY ListInvImplies, RecordsAssumption DEF IInv
<1> QED BY <1>1, Inductive, PTL

\* Operations on records that are not cut short leave no page pinned.
THEOREM PinsAreReturned == Spec => []PinsReturned
<1>1. IInv => PinsReturned
  BY DEF IInv, PinsInv, PinsReturned, Idle
<1> QED BY <1>1, Inductive, PTL
-----------------------------------------------------------------------------
(* The types.                                                              *)

\* The pages a table can have behind one, and the records there.
ValuesInv ==
  \A p \in PageIds :
    /\ pages[p].next_block_id \in {NULL_PAGE} \cup PageIds
    /\ \A i \in Used(pages[p]) : pages[p].slots[i].value \in Values

Kinds == {"grow", "grown", "put", "load", "fill", "delete", "delete_nth", "upkeep", "read_all"}

OpType ==
  [kind : Kinds, at : Nat, values : Seq(Values), cond : SUBSET Values, nth : Nat,
   goes_on : BOOLEAN, adds : BOOLEAN, done : Seq(Values \X Ptrs)]

\* The page an operation is at is one of the table.
WhereInv ==
  /\ op = Idle \/ op = Stopped \/ op \in OpType
  /\ op.kind \in {"grown", "put", "load", "fill", "delete", "delete_nth"} => op.at \in allocated
  /\ op.kind = "upkeep" /\ op.goes_on => op.at \in allocated
  /\ op.kind = "read_all" => ~op.goes_on

IndexInv ==
  /\ index = [is_listed |-> index.is_listed, entries |-> index.entries]
  /\ index.is_listed \in BOOLEAN
  /\ IsABag(index.entries) /\ BagToSet(index.entries) \subseteq Values \X Ptrs

\* Who gives a pin back has it, whatever failed.
HeldInv ==
  /\ pins \in [PageIds \cup {table_block_id} -> Nat]
  /\ op.kind = "grown" => pins[table.last_page_id] > 0
  /\ op.kind = "fill" => pins[op.at] > 0

TypesInv == ValuesInv /\ WhereInv /\ IndexInv /\ HeldInv

\* The positions of a page are few, so every place has a pointer.
LEMMA PlacesHavePointers ==
  ASSUME NEW are_regs_fixed \in BOOLEAN, NEW page, Sound(are_regs_fixed, page)
  PROVE  Used(page) \subseteq Slots
<1> DEFINE n == Len(page.slots)
           most == slotted_free_bytes \div sizeof_Slot
<1>1. page \in PageType /\ page.slots \in Seq(SlotType) /\ n \in Nat
  BY DEF Sound, PageType
<1>2. Used(page) \subseteq 1 .. n
  BY <1>1, UsedFacts
<1>3. slotted_free_bytes \in Nat /\ sizeof_Slot = 24 /\ slotted_free_bytes = BLOCK_SIZE - 30
  <2>1. BLOCK_SIZE \in Nat /\ 10 + 1 + 24 + max_reg_size <= BLOCK_SIZE /\ max_reg_size \in Nat
    BY RecordPageAssumption DEF RecordPageAssumption, static_header_size, sizeof_PageHeader
  <2> QED BY <2>1 DEF slotted_free_bytes, base_slotted_data_header_size, sizeof_PageHeader,
                      sizeof_Slot
<1>4. most \in Nat /\ slotted_free_bytes < 24 * most + 24
  BY <1>3, Division
<1>5. max_n_regs \in Nat
  BY RoomOfFixed
<1>6. n <= max_n_regs + most
  <2>1. CASE are_regs_fixed
    <3>1. n = max_n_regs
      BY <2>1 DEF Sound, SoundFixed
    <3> HIDE DEF n, most
    <3> QED BY <1>4, <1>5, <3>1
  <2>2. CASE ~are_regs_fixed
    <3>1. /\ page.free_space_offset = page.free_bytes + 24 * n + 6 + 24
          /\ page.free_space_offset <= BLOCK_SIZE
          /\ page.free_bytes \in Nat
      BY <1>1, <2>2 DEF Sound, SoundSlotted, PageType, sizeof_Slot, sizeof_PageHeader,
                        base_slotted_data_header_size
    <3>2. BLOCK_SIZE \in Nat
      BY RecordPageAssumption DEF RecordPageAssumption
    <3> DEFINE offset == page.free_space_offset
               free == page.free_bytes
    <3>3. offset = free + 24 * n + 6 + 24 /\ offset <= BLOCK_SIZE /\ free \in Nat
      BY <3>1
    <3> HIDE DEF n, most, offset, free
    <3> QED BY <1>1, <1>3, <1>4, <1>5, <3>2, <3>3
  <2> QED BY <2>1, <2>2
<1> HIDE DEF n, most
<1>7. 1 .. n \subseteq 1 .. max_n_regs + most
  BY <1>1, <1>4, <1>5, <1>6
<1> QED BY <1>2, <1>7 DEF Slots, most

\* The table's pages are linked among themselves.
LEMMA ListFacts ==
  ASSUME RecordsAssumption, ListInv
  PROVE  /\ allocated \subseteq PageIds
         /\ table.first_page_id \in allocated /\ table.last_page_id \in allocated
         /\ \A p \in allocated : pages[p].next_block_id \in {NULL_PAGE} \cup allocated
         /\ \A i \in DOMAIN ListFrom(table.first_page_id) :
              ListFrom(table.first_page_id)[i] \in allocated
         /\ \E n \in Nat : ListFrom(table.first_page_id) \in [1 .. n -> PageIds]
         /\ Elements(ListFrom(table.first_page_id)) = allocated
<1> DEFINE list == ListFrom(table.first_page_id)
<1>1. PICK n \in 1 .. MaxPages : ListOf(n, list)
  BY OneList
<1>2. n \in Nat /\ list \in [1 .. n -> PageIds] /\ n > 0 /\ n \in 1 .. n
  BY <1>1, RecordsAssumption DEF ListOf, RecordsAssumption
<1> HIDE DEF list
<1>3. Len(list) = n /\ DOMAIN list = 1 .. n /\ list # <<>>
  BY <1>2
<1>4. allocated = {list[i] : i \in 1 .. n}
  BY <1>1, <1>3 DEF ListOf, Elements
<1>5. /\ table.first_page_id = list[1]
      /\ \A i \in 1 .. n : pages[list[i]].next_block_id = IF i = n THEN NULL_PAGE ELSE list[i + 1]
  BY <1>1, <1>3 DEF ListOf, IsListFrom
<1>6. allocated \subseteq PageIds
  BY <1>2, <1>4
<1>7. table.first_page_id \in allocated
  BY <1>2, <1>4, <1>5
<1>8. table.last_page_id \in allocated
  <2>1. \/ table.last_page_id = list[n]
        \/ /\ n > 1
           /\ table.last_page_id = list[n - 1]
    BY <1>1 DEF ListOf
  <2>2. n > 1 => n - 1 \in 1 .. n
    BY <1>2
  <2> QED BY <1>2, <1>4, <2>1, <2>2
<1>9. ASSUME NEW p \in allocated PROVE pages[p].next_block_id \in {NULL_PAGE} \cup allocated
  <2>1. PICK i \in 1 .. n : p = list[i]
    BY <1>4
  <2>2. i # n => i + 1 \in 1 .. n
    BY <1>2
  <2> QED BY <1>4, <1>5, <2>1, <2>2
<1>10. Elements(list) = allocated
  BY <1>1 DEF ListOf
<1> QED BY <1>2, <1>3, <1>4, <1>6, <1>7, <1>8, <1>9, <1>10 DEF list

\* The positions in order are the positions, each once.
LEMMA OrderFacts ==
  ASSUME NEW positions \in SUBSET Nat, IsFiniteSet(positions)
  PROVE  /\ InOrder(positions) \in [1 .. Cardinality(positions) -> positions]
         /\ \A i \in positions : \E k \in 1 .. Cardinality(positions) : InOrder(positions)[k] = i
         /\ \A k, l \in 1 .. Cardinality(positions) :
              InOrder(positions)[k] = InOrder(positions)[l] => k = l
<1> DEFINE n == Cardinality(positions)
           order == InOrder(positions)
<1>1. n \in Nat
  BY FS_CardinalityType
<1>2. /\ \A i, j \in positions :
           Cardinality(Below(positions, i)) = Cardinality(Below(positions, j)) => i = j
      /\ \A k \in 0 .. n - 1 : \E i \in positions : Cardinality(Below(positions, i)) = k
      /\ \A i \in positions : Cardinality(Below(positions, i)) \in 0 .. n - 1
  BY OrderOfNumbers, BelowFacts
<1>3. ASSUME NEW k \in 1 .. n
      PROVE  order[k] \in positions /\ Cardinality(Below(positions, order[k])) = k - 1
  <2> DEFINE i == CHOOSE i \in positions : Cardinality({j \in positions : j < i}) = k - 1
  <2>1. \E l \in positions : Cardinality({j \in positions : j < l}) = k - 1
    <3>1. k - 1 \in 0 .. n - 1
      <4> HIDE DEF n
      <4> QED BY <1>1
    <3> QED BY <1>2, <3>1 DEF Below
  <2>2. i \in positions /\ Cardinality({j \in positions : j < i}) = k - 1
    BY <2>1, Zenon
  <2>3. order[k] = i
    BY DEF InOrder
  <2> HIDE DEF i, order
  <2> QED BY <2>2, <2>3 DEF Below
<1>4. order \in [1 .. n -> positions]
  <2> DEFINE place(k) == CHOOSE i \in positions : Cardinality({j \in positions : j < i}) = k - 1
  <2>1. order = [k \in 1 .. n |-> place(k)]
    BY DEF InOrder
  <2>2. \A k \in 1 .. n : place(k) \in positions
    BY <1>3, <2>1
  <2> HIDE DEF order, n, place
  <2> QED BY <2>1, <2>2
<1> HIDE DEF order, n
<1>5. ASSUME NEW i \in positions PROVE \E k \in 1 .. n : order[k] = i
  <2> DEFINE k == Cardinality(Below(positions, i)) + 1
  <2>1. k \in 1 .. n /\ k - 1 = Cardinality(Below(positions, i))
    BY <1>1, <1>2
  <2> HIDE DEF k
  <2> QED BY <1>2, <1>3, <2>1
<1>6. ASSUME NEW k \in 1 .. n, NEW l \in 1 .. n, order[k] = order[l] PROVE k = l
  <2>1. k - 1 = l - 1
    BY <1>3, <1>6
  <2> QED BY <1>1, <2>1
<1> QED BY <1>4, <1>5, <1>6 DEF n, order

\* The records of a page at some of its positions, with their pointers.
PlacedIn(p, positions) == {<<pages[p].slots[i].value, <<p, i>>>> : i \in positions}

\* A sequence has every entry of a set, each once.
Lists(s, E) ==
  /\ s \in Seq(Values \X Ptrs)
  /\ \A k \in 1 .. Len(s) : s[k] \in E
  /\ \A e \in E : \E k \in 1 .. Len(s) : s[k] = e
  /\ \A k, l \in 1 .. Len(s) : s[k] = s[l] => k = l

\* The records of a page have places that pointers name.
LEMMA PlacesFacts ==
  ASSUME PagesInv, ValuesInv, NEW p \in PageIds, NEW positions \in SUBSET Used(pages[p])
  PROVE  /\ PlacedIn(p, positions) \in SUBSET (Values \X Ptrs)
         /\ positions \in SUBSET Nat /\ IsFiniteSet(positions)
         /\ positions \in SUBSET Slots
<1>1. Sound(table.are_regs_fixed, pages[p]) /\ table.are_regs_fixed \in BOOLEAN
  BY DEF PagesInv
<1>2. Used(pages[p]) \subseteq Slots
  BY <1>1, PlacesHavePointers
<1>3. pages[p].slots \in Seq(SlotType)
  BY <1>1 DEF Sound, PageType
<1>4. IsFiniteSet(Used(pages[p])) /\ Used(pages[p]) \subseteq 1 .. Len(pages[p].slots)
  BY <1>3, UsedFacts
<1>5. IsFiniteSet(positions)
  BY <1>4, FS_Subset
<1>6. \A i \in positions : i \in Slots /\ i \in Nat /\ pages[p].slots[i].value \in Values
  BY <1>2, <1>4 DEF ValuesInv
<1>7. PlacedIn(p, positions) \in SUBSET (Values \X Ptrs)
  BY <1>6 DEF PlacedIn, Ptrs
<1> QED BY <1>5, <1>6, <1>7

\* delete_from_page and add_index_to_table gather the records of a page, each once.
LEMMA EntriesList ==
  ASSUME PagesInv, ValuesInv, NEW p \in PageIds, NEW positions \in SUBSET Used(pages[p])
  PROVE  Lists(Entries(p, positions), PlacedIn(p, positions))
<1> DEFINE n == Cardinality(positions)
           order == InOrder(positions)
           value(i) == pages[p].slots[i].value
           entries == Entries(p, positions)
<1>1. /\ PlacedIn(p, positions) \in SUBSET (Values \X Ptrs)
      /\ positions \in SUBSET Nat /\ IsFiniteSet(positions)
  BY PlacesFacts
<1>2. n \in Nat
  BY <1>1, FS_CardinalityType
<1>3. /\ order \in [1 .. n -> positions]
      /\ \A i \in positions : \E k \in 1 .. n : order[k] = i
      /\ \A k, l \in 1 .. n : order[k] = order[l] => k = l
  BY <1>1, OrderFacts
<1>4. entries = [k \in 1 .. n |-> <<value(order[k]), <<p, order[k]>>>>]
  BY DEF Entries
<1>5. PlacedIn(p, positions) = {<<value(i), <<p, i>>>> : i \in positions}
  BY DEF PlacedIn
<1> HIDE DEF n, order, value, entries
<1>6. \A k \in 1 .. n : entries[k] = <<value(order[k]), <<p, order[k]>>>>
  BY <1>4
<1>7. \A k \in 1 .. n : entries[k] \in PlacedIn(p, positions)
  BY <1>3, <1>5, <1>6
<1>8. entries \in [1 .. n -> Values \X Ptrs]
  BY <1>1, <1>4, <1>7
<1>9. entries \in Seq(Values \X Ptrs) /\ Len(entries) = n
  BY <1>2, <1>8
<1>10. \A e \in PlacedIn(p, positions) : \E k \in 1 .. n : entries[k] = e
  BY <1>3, <1>5, <1>6
<1>11. \A k, l \in 1 .. n : entries[k] = entries[l] => k = l
  <2> SUFFICES ASSUME NEW k \in 1 .. n, NEW l \in 1 .. n, entries[k] = entries[l] PROVE k = l
    OBVIOUS
  <2>1. order[k] = order[l]
    BY <1>6
  <2> QED BY <1>3, <2>1
<1> QED BY <1>7, <1>9, <1>10, <1>11 DEF Lists, entries

LEMMA JoinedLists ==
  ASSUME NEW a, NEW A, NEW b, NEW B, Lists(a, A), Lists(b, B), A \cap B = {}
  PROVE  Lists(a \o b, A \cup B)
<1> DEFINE V == Values \X Ptrs
           s == a \o b
           m == Len(a)
           n == Len(b)
<1>1. a \in Seq(V) /\ b \in Seq(V) /\ m \in Nat /\ n \in Nat
  BY DEF Lists
<1>2. /\ s \in Seq(V) /\ Len(s) = m + n
      /\ \A k \in 1 .. m + n : s[k] = IF k <= m THEN a[k] ELSE b[k - m]
  <2> HIDE DEF V
  <2> QED BY <1>1
<1>3. /\ \A k \in 1 .. m : a[k] \in A
      /\ \A e \in A : \E k \in 1 .. m : a[k] = e
      /\ \A k, l \in 1 .. m : a[k] = a[l] => k = l
      /\ \A k \in 1 .. n : b[k] \in B
      /\ \A e \in B : \E k \in 1 .. n : b[k] = e
      /\ \A k, l \in 1 .. n : b[k] = b[l] => k = l
  BY DEF Lists
<1> HIDE DEF V, s, m, n
<1>4. /\ \A k \in 1 .. m : k \in 1 .. m + n /\ s[k] = a[k]
      /\ \A k \in 1 .. n : m + k \in 1 .. m + n /\ s[m + k] = b[k]
      /\ \A k \in 1 .. m + n : k \in 1 .. m \/ (k - m \in 1 .. n /\ m + (k - m) = k)
      /\ \A k \in 1 .. m + n : k - m \in 1 .. n => s[k] = b[k - m]
  BY <1>1, <1>2
<1>5. ASSUME NEW k \in 1 .. m + n PROVE s[k] \in A \cup B
  BY <1>3, <1>4
<1>6. ASSUME NEW e \in A \cup B PROVE \E k \in 1 .. m + n : s[k] = e
  BY <1>3, <1>4
<1>7. ASSUME NEW k \in 1 .. m + n, NEW l \in 1 .. m + n, s[k] = s[l] PROVE k = l
  <2>1. CASE k \in 1 .. m /\ l \in 1 .. m
    BY <1>3, <1>4, <1>7, <2>1
  <2>2. CASE k \in 1 .. m /\ l - m \in 1 .. n
    <3>1. s[k] \in A /\ s[l] \in B
      BY <1>3, <1>4, <2>2
    <3> QED BY <1>7, <3>1
  <2>3. CASE k - m \in 1 .. n /\ l \in 1 .. m
    <3>1. s[k] \in B /\ s[l] \in A
      BY <1>3, <1>4, <2>3
    <3> QED BY <1>7, <3>1
  <2>4. CASE k - m \in 1 .. n /\ l - m \in 1 .. n
    <3>1. k - m = l - m
      BY <1>3, <1>4, <1>7, <2>4
    <3> QED BY <1>1, <3>1
  <2> QED BY <1>4, <2>1, <2>2, <2>3, <2>4
<1> QED BY <1>2, <1>5, <1>6, <1>7 DEF Lists, V, s

\* The records of a page, each with its pointer.
LEMMA PairsArePlaces ==
  ASSUME NEW p
  PROVE  {<<r[1], <<p, r[2]>>>> : r \in RegsOf(pages[p])} = PlacedIn(p, Used(pages[p]))
<1> DEFINE U == Used(pages[p])
           value(i) == pages[p].slots[i].value
           pairs == {<<r[1], <<p, r[2]>>>> : r \in RegsOf(pages[p])}
<1>1. /\ pairs = {<<r[1], <<p, r[2]>>>> : r \in {<<value(i), i>> : i \in U}}
      /\ PlacedIn(p, U) = {<<value(i), <<p, i>>>> : i \in U}
  BY DEF RegsOf, PlacedIn
<1> HIDE DEF U, value
<1>2. ASSUME NEW x \in pairs PROVE x \in PlacedIn(p, U)
  <2>1. PICK r \in {<<value(i), i>> : i \in U} : x = <<r[1], <<p, r[2]>>>>
    BY <1>1
  <2>2. PICK i \in U : r = <<value(i), i>>
    OBVIOUS
  <2>3. r[1] = value(i) /\ r[2] = i
    BY <2>2
  <2> QED BY <1>1, <2>1, <2>3
<1>3. ASSUME NEW x \in PlacedIn(p, U) PROVE x \in pairs
  <2>1. PICK i \in U : x = <<value(i), <<p, i>>>>
    BY <1>1
  <2>2. PICK r : r = <<value(i), i>>
    OBVIOUS
  <2>3. r[1] = value(i) /\ r[2] = i /\ r \in {<<value(j), j>> : j \in U}
    BY <2>2
  <2> QED BY <1>1, <2>1, <2>3
<1> HIDE DEF pairs
<1>4. pairs = PlacedIn(p, U)
  BY <1>2, <1>3
<1> QED BY <1>4 DEF U, pairs

\* The records of the table are those of the pages it was given.
LEMMA RecordsArePlaces ==
  ASSUME RecordsAssumption, ListInv
  PROVE  Records = UNION {PlacedIn(p, Used(pages[p])) : p \in allocated}
<1> DEFINE pairs(p) == {<<r[1], <<p, r[2]>>>> : r \in RegsOf(pages[p])}
<1>1. Records = UNION {pairs(p) : p \in allocated}
  BY ListFacts DEF Records, RecordsIn
<1>2. \A p : pairs(p) = PlacedIn(p, Used(pages[p]))
  BY PairsArePlaces
<1> HIDE DEF pairs
<1> QED BY <1>1, <1>2
\* The records of different pages are different.
LEMMA PagesDiffer ==
  ASSUME NEW p, NEW q, p # q, NEW S, NEW T
  PROVE  PlacedIn(p, S) \cap PlacedIn(q, T) = {}
BY DEF PlacedIn

\* add_index_to_table gathers every record of the table, once.
LEMMA AllListed ==
  ASSUME RecordsAssumption, PagesInv, ListInv, ValuesInv
  PROVE  Lists(EntriesOfPages(ListFrom(table.first_page_id)), Records)
<1> DEFINE list == ListFrom(table.first_page_id)
           V == Values \X Ptrs
           page(k) == PlacedIn(list[k], Used(pages[list[k]]))
           more(k) == Entries(list[k], Used(pages[list[k]]))
           Body(w, m) == [k \in 0 .. m |-> IF k = 0 THEN <<>> ELSE w[k - 1] \o more(k)]
           walk(m) == CHOOSE w : w = Body(w, m)
           upTo(k) == UNION {page(i) : i \in 1 .. k}
<1>1. PICK n \in 1 .. MaxPages : ListOf(n, list)
  BY OneList
<1>2. /\ list \in [1 .. n -> PageIds] /\ n \in Nat
      /\ \A i, j \in 1 .. n : list[i] = list[j] => i = j
      /\ Elements(list) = allocated
  BY <1>1, RecordsAssumption DEF ListOf, RecordsAssumption
<1>3. Len(list) = n /\ DOMAIN list = 1 .. n
  <2> HIDE DEF list
  <2> QED BY <1>2
<1>4. EntriesOfPages(list) = walk(n)[n]
  BY <1>3 DEF EntriesOfPages
<1>5. \A i \in 1 .. n : Lists(more(i), page(i)) /\ more(i) \in Seq(V)
  <2> SUFFICES ASSUME NEW i \in 1 .. n PROVE Lists(more(i), page(i)) /\ more(i) \in Seq(V)
    OBVIOUS
  <2> DEFINE p == list[i]
             U == Used(pages[p])
  <2>1. p \in PageIds /\ U \in SUBSET Used(pages[p])
    BY <1>2
  <2>2. more(i) = Entries(p, U) /\ page(i) = PlacedIn(p, U)
    OBVIOUS
  <2> HIDE DEF p, U
  <2>3. Lists(Entries(p, U), PlacedIn(p, U))
    BY <2>1, EntriesList
  <2> QED BY <2>2, <2>3 DEF Lists
<1>6. \A i, j \in 1 .. n : i # j => page(i) \cap page(j) = {}
  BY <1>2, PagesDiffer
<1> HIDE DEF more, page
<1>7. PICK w : /\ w \in [0 .. n -> Seq(V)] /\ w[0] = <<>>
               /\ \A k \in 1 .. n : w[k] = w[k - 1] \o more(k)
  <2> DEFINE step == [x \in (1 .. n) \X Seq(V) |-> x[2] \o more(x[1])]
             empty == <<>>
  <2>1. IsStep(step, n, Seq(V))
    <3> HIDE DEF V
    <3>1. ASSUME NEW x \in (1 .. n) \X Seq(V) PROVE x[2] \o more(x[1]) \in Seq(V)
      <4>1. x[2] \in Seq(V) /\ more(x[1]) \in Seq(V)
        BY <1>5
      <4> HIDE DEF more
      <4> QED BY <4>1
    <3> QED BY <3>1 DEF IsStep
  <2>2. empty \in Seq(V) /\ n \in Nat
    BY <1>2
  <2> HIDE DEF step, V, empty
  <2>3. PICK w : IsWalkOf(w, n, Seq(V), empty, step)
    BY <2>1, <2>2, WalkExists, Zenon
  <2>4. ASSUME NEW k \in 1 .. n PROVE w[k] = w[k - 1] \o more(k)
    <3>1. w[k] = step[<<k, w[k - 1]>>] /\ k - 1 \in 0 .. n
      BY <1>2, <2>3 DEF IsWalkOf
    <3>2. w[k - 1] \in Seq(V)
      BY <2>3, <3>1 DEF IsWalkOf
    <3> QED BY <3>1, <3>2 DEF step
  <2> QED BY <2>3, <2>4 DEF IsWalkOf, empty
<1>8. w = Body(w, n)
  <2>1. ASSUME NEW k \in 0 .. n
        PROVE  w[k] = IF k = 0 THEN <<>> ELSE w[k - 1] \o more(k)
    <3>1. k = 0 \/ (k \in 1 .. n /\ k # 0)
      BY <1>2
    <3> QED BY <1>7, <3>1, Zenon
  <2>2. w = [k \in 0 .. n |-> w[k]]
    BY <1>7
  <2> HIDE DEF V
  <2> QED BY <2>1, <2>2
<1>9. walk(n) = Body(walk(n), n)
  BY <1>8
<1>10. ASSUME NEW x, x = Body(x, n)
       PROVE  x[0] = <<>> /\ \A k \in 1 .. n : x[k] = x[k - 1] \o more(k)
  <2>1. \A k \in 0 .. n : x[k] = IF k = 0 THEN <<>> ELSE x[k - 1] \o more(k)
    BY <1>10
  <2>2. 0 \in 0 .. n /\ \A k \in 1 .. n : k \in 0 .. n /\ k # 0
    BY <1>2
  <2> QED BY <2>1, <2>2, Zenon
<1>11. walk(n)[0] = <<>> /\ \A k \in 1 .. n : walk(n)[k] = walk(n)[k - 1] \o more(k)
  BY <1>9, <1>10
<1> HIDE DEF walk, V
<1> DEFINE good == {k \in Nat : Lists(walk(n)[k], upTo(k))}
<1>12. 0 \in good
  <2>1. upTo(0) = {}
    OBVIOUS
  <2>2. Lists(<<>>, {})
    BY DEF Lists
  <2> QED BY <1>11, <2>1, <2>2
<1>13. ASSUME NEW k \in 0 .. n - 1, k \in good PROVE k + 1 \in good
  <2>1. k + 1 \in 1 .. n /\ (k + 1) - 1 = k /\ k + 1 \in Nat
    BY <1>2
  <2>2. walk(n)[k + 1] = walk(n)[k] \o more(k + 1)
    BY <1>11, <2>1
  <2>3. upTo(k + 1) = upTo(k) \cup page(k + 1)
    <3>1. \A i : i \in 1 .. k + 1 <=> (i \in 1 .. k \/ i = k + 1)
      BY <1>2
    <3> QED BY <3>1
  <2>4. upTo(k) \cap page(k + 1) = {}
    <3>1. \A i \in 1 .. k : i \in 1 .. n /\ i # k + 1
      BY <1>2
    <3> QED BY <1>6, <2>1, <3>1
  <2>5. Lists(walk(n)[k], upTo(k)) /\ Lists(more(k + 1), page(k + 1))
    BY <1>5, <1>13, <2>1
  <2> HIDE DEF upTo
  <2>6. Lists(walk(n)[k] \o more(k + 1), upTo(k) \cup page(k + 1))
    BY <2>4, <2>5, JoinedLists, Zenon
  <2> QED BY <2>1, <2>2, <2>3, <2>6
<1>14. n \in good
  <2>1. n \in 0 .. n
    BY <1>2
  <2> HIDE DEF good
  <2>2. \A k \in 0 .. n - 1 : k \in good => k + 1 \in good
    BY <1>13
  <2> QED BY <1>2, <1>12, <2>1, <2>2, SetInduction
<1>15. upTo(n) = Records
  <2>1. Records = UNION {PlacedIn(p, Used(pages[p])) : p \in allocated}
    BY RecordsArePlaces
  <2>2. allocated = {list[i] : i \in 1 .. n}
    BY <1>2, <1>3 DEF Elements
  <2> HIDE DEF list
  <2> QED BY <2>1, <2>2 DEF page
<1> QED BY <1>4, <1>14, <1>15

\* An operation under way has all its parts.
LEMMA UnderWay ==
  ASSUME WhereInv, op.kind \notin {"none", "stopped"}
  PROVE  op \in OpType
BY DEF WhereInv, Idle, Stopped

\* What an insertion into the page an operation is at makes of the page.
LEMMA InsertionFacts ==
  ASSUME PagesInv, ValuesInv, NEW p \in PageIds, NEW v \in Values
  PROVE  LET r == Inserted(table.are_regs_fixed, pages[p], v)
         IN  /\ Sound(table.are_regs_fixed, r.page)
             /\ r.page.next_block_id = pages[p].next_block_id
             /\ IsPut(pages[p], r, v)
             /\ r.ok => r.slot \in Slots
             /\ \A i \in Used(r.page) : r.page.slots[i].value \in Values
<1> DEFINE r == Inserted(table.are_regs_fixed, pages[p], v)
           page == pages[p]
           fixed == table.are_regs_fixed
<1>1. fixed \in BOOLEAN /\ Sound(fixed, page)
  BY DEF PagesInv
<1>2. Sound(fixed, r.page) /\ IsPut(page, r, v)
  BY <1>1, InsertedIsSound, InsertedPuts
<1>3. r.page.next_block_id = page.next_block_id
  BY <1>1, InsertedKeepsNext DEF Sound
<1>4. \A i \in Used(page) : page.slots[i].value \in Values
  BY DEF ValuesInv
<1> HIDE DEF r, page, fixed
<1>5. Used(r.page) \subseteq Slots
  BY <1>1, <1>2, PlacesHavePointers
<1>6. r.ok => r.slot \in Slots
  BY <1>2, <1>5 DEF IsPut
<1>7. \A i \in Used(r.page) : r.page.slots[i].value \in Values
  BY <1>2, <1>4 DEF IsPut
<1> QED BY <1>2, <1>3, <1>6, <1>7 DEF r, page, fixed

LEMMA DoomedAreUsed == Doomed \in SUBSET Used(pages[op.at])
BY DEF Doomed, Nth

\* Insertions put values, and links go to pages.
LEMMA NextValues ==
  RecordsAssumption /\ IInv /\ TypesInv /\ [Next]_vars => ValuesInv'
<1> SUFFICES ASSUME RecordsAssumption, IInv, TypesInv, [Next]_vars PROVE ValuesInv'
  OBVIOUS
<1> USE DEF IInv, TypesInv
<1> DEFINE Typed(page) ==
             /\ page.next_block_id \in {NULL_PAGE} \cup PageIds
             /\ \A i \in Used(page) : page.slots[i].value \in Values
<1>1. CASE UNCHANGED pages
  BY <1>1 DEF ValuesInv
<1>2. \A p \in PageIds : Typed(pages[p])
  BY DEF ValuesInv
<1>3. DOMAIN pages = PageIds /\ pages = [p \in PageIds |-> pages[p]]
  BY DEF PagesInv
<1>4. ASSUME NEW page, Typed(page), NEW p, pages' = [pages EXCEPT ![p] = page] PROVE ValuesInv'
  <2> HIDE DEF Typed
  <2>1. \A q \in PageIds : Typed(pages'[q])
    BY <1>2, <1>3, <1>4
  <2> QED BY <2>1 DEF ValuesInv, Typed
<1>5. ASSUME NEW v \in Values, op.at \in PageIds,
             pages' = [pages EXCEPT ![op.at] = Inserted(table.are_regs_fixed, pages[op.at], v).page]
      PROVE  ValuesInv'
  <2>1. Typed(Inserted(table.are_regs_fixed, pages[op.at], v).page)
    BY <1>2, <1>5, InsertionFacts
  <2> HIDE DEF Typed
  <2> QED BY <1>4, <1>5, <2>1
<1>6. allocated \subseteq PageIds /\ table.last_page_id \in PageIds
  BY ListFacts
<1>7. CASE AddPage
  <2>1. PICK p \in PageIds \ allocated :
          pages' = [pages EXCEPT ![p] = NewPage(table.are_regs_fixed),
                                 ![table.last_page_id].next_block_id = p]
    BY <1>7 DEF AddPage
  <2>2. Typed(NewPage(table.are_regs_fixed))
    BY DEF NewPage, NewFixedPage, NewSlottedPage, Used, FreeSlot, NULL_PAGE
  <2>3. ASSUME NEW page, Typed(page), NEW other, other = [page EXCEPT !.next_block_id = p],
               "next_block_id" \in DOMAIN page
        PROVE  Typed(other)
    <3>1. other.slots = page.slots /\ other.next_block_id = p
      BY <2>3
    <3> QED BY <2>3, <3>1 DEF Used
  <2> DEFINE linked == [pages EXCEPT ![p] = NewPage(table.are_regs_fixed)]
  <2>4. /\ linked = [q \in PageIds |-> linked[q]]
        /\ \A q \in PageIds : linked[q] = IF q = p THEN NewPage(table.are_regs_fixed) ELSE pages[q]
    BY <1>3
  <2>5. /\ \A q \in PageIds : Typed(linked[q])
        /\ \A q \in PageIds : "next_block_id" \in DOMAIN linked[q]
    <3>1. /\ "next_block_id" \in DOMAIN NewPage(table.are_regs_fixed)
          /\ \A q \in PageIds : "next_block_id" \in DOMAIN pages[q]
      BY DEF PagesInv, NewPage, NewFixedPage, NewSlottedPage, Sound, PageType
    <3> HIDE DEF Typed, linked
    <3> QED BY <1>2, <2>2, <2>4, <3>1
  <2>6. pages' = [linked EXCEPT ![table.last_page_id].next_block_id = p]
    BY <2>1
  <2> HIDE DEF linked, Typed
  <2>7. \A q \in PageIds :
          pages'[q] = IF q = table.last_page_id THEN [linked[q] EXCEPT !.next_block_id = p]
                      ELSE linked[q]
    BY <2>4, <2>6
  <2>8. \A q \in PageIds : Typed(pages'[q])
    BY <2>3, <2>5, <2>7
  <2> QED BY <2>8 DEF ValuesInv, Typed
<1>8. CASE Put
  <2>1. op.values[1] \in Values /\ op.at \in PageIds
    BY <1>6, <1>8 DEF Put, OpInv, WhereInv
  <2> HIDE DEF Typed
  <2> QED BY <1>5, <1>8, <2>1 DEF Put
<1>9. CASE PutRefused
  <2>1. op.values[1] \in Values /\ op.at \in PageIds
    BY <1>6, <1>9 DEF PutRefused, OpInv, WhereInv
  <2> HIDE DEF Typed
  <2> QED BY <1>5, <1>9, <2>1 DEF PutRefused
<1>10. CASE FillRecord
  <2>1. Head(op.values) \in Values /\ op.at \in PageIds
    BY <1>6, <1>10 DEF FillRecord, FitsNext, OpInv, WhereInv
  <2> HIDE DEF Typed
  <2> QED BY <1>5, <1>10, <2>1 DEF FillRecord
<1>11. CASE DeleteInPage
  <2> DEFINE page == pages[op.at]
             other == Deleted(table.are_regs_fixed, page, Doomed)
  <2>1. op.at \in PageIds /\ pages' = [pages EXCEPT ![op.at] = other]
    BY <1>6, <1>11 DEF DeleteInPage, WhereInv
  <2>2. table.are_regs_fixed \in BOOLEAN /\ Sound(table.are_regs_fixed, page)
    BY <2>1 DEF PagesInv
  <2>3. Doomed \in SUBSET Used(page)
    BY DoomedAreUsed
  <2>4. other.next_block_id = page.next_block_id
    BY <2>2, DeletedKeepsNext DEF Sound
  <2>5. Typed(page)
    BY <1>2, <2>1
  <2> HIDE DEF page
  <2>6. /\ Used(other) = Used(page) \ Doomed
        /\ \A j \in Used(page) \ Doomed : other.slots[j] = page.slots[j]
    BY <2>2, <2>3, DeletedTakes
  <2> HIDE DEF other
  <2>7. Typed(other)
    BY <2>4, <2>5, <2>6
  <2> HIDE DEF Typed
  <2> QED BY <1>4, <2>1, <2>7
<1> QED
  BY <1>1, <1>7, <1>8, <1>9, <1>10, <1>11
  DEF Next, vars, BeginInsert, BeginInsertIntoPage, BeginBulk, BeginDelete, BeginDeleteFromPage,
      BeginDeleteNth, WriteTable, GrowRefused, LoadToFill, LeavePage, NextPage, NextPageLost,
      IndexInsert, IndexRemove, IndexRefuses, ListIndex, ReadAll, Update, UpdateNth, Fails

\* An operation as it begins.
Made(kind, at, values, cond, nth, goes_on) ==
  [kind |-> kind, at |-> at, values |-> values, cond |-> cond, nth |-> nth, goes_on |-> goes_on,
   adds |-> FALSE, done |-> <<>>]

LEMMA MadeFacts ==
  ASSUME NEW kind \in Kinds, NEW at \in Nat, NEW values \in Seq(Values),
         NEW cond \in SUBSET Values, NEW nth \in Nat, NEW goes_on \in BOOLEAN
  PROVE  /\ Made(kind, at, values, cond, nth, goes_on) \in OpType
         /\ Made(kind, at, values, cond, nth, goes_on).kind = kind
         /\ Made(kind, at, values, cond, nth, goes_on).at = at
         /\ Made(kind, at, values, cond, nth, goes_on).goes_on = goes_on
         /\ Made(kind, at, values, cond, nth, goes_on).cond = cond
         /\ Made(kind, at, values, cond, nth, goes_on).values = values
         /\ Made(kind, at, values, cond, nth, goes_on).done = <<>>
<1>1. <<>> \in Seq(Values \X Ptrs)
  OBVIOUS
<1> QED BY <1>1 DEF Made, OpType

\* How every operation begins.
LEMMA Beginnings ==
  /\ \A v \in Values : BeginInsert(v) =>
       \/ op' = Made("grow", NULL_PAGE, <<v>>, {}, 0, FALSE)
       \/ \E i \in Insertable(v) :
            op' = Made("put", ListFrom(table.first_page_id)[i], <<v>>, {}, 0, FALSE)
  /\ \A p, v : BeginInsertIntoPage(p, v) => op' = Made("put", p, <<v>>, {}, 0, FALSE)
  /\ \A values : BeginBulk(values) => op' = Made("load", table.last_page_id, values, {}, 0, FALSE)
  /\ \A cond : BeginDelete(cond) =>
       op' = Made("delete", table.first_page_id, <<>>, cond, 0, TRUE)
  /\ \A p, cond : BeginDeleteFromPage(p, cond) => op' = Made("delete", p, <<>>, cond, 0, FALSE)
  /\ \A nth : BeginDeleteNth(nth) =>
       \E k \in 1 .. Len(ListFrom(table.first_page_id)) :
       \E n \in 0 .. pages[ListFrom(table.first_page_id)[k]].n_regs - 1 :
         op' = Made("delete_nth", ListFrom(table.first_page_id)[k], <<>>, {}, n, FALSE)
  /\ ListIndex => op' = Made("read_all", NULL_PAGE, <<>>, {}, 0, FALSE)
<1>1. ASSUME NEW v \in Values, BeginInsert(v)
      PROVE  \/ op' = Made("grow", NULL_PAGE, <<v>>, {}, 0, FALSE)
             \/ \E i \in Insertable(v) :
                  op' = Made("put", ListFrom(table.first_page_id)[i], <<v>>, {}, 0, FALSE)
  <2>1. CASE op' = [NewOp EXCEPT !.kind = "grow", !.values = <<v>>]
    BY <2>1 DEF NewOp, Made
  <2>2. ASSUME NEW i \in Insertable(v),
               op' = [NewOp EXCEPT !.kind = "put", !.at = ListFrom(table.first_page_id)[i],
                                   !.values = <<v>>]
        PROVE  op' = Made("put", ListFrom(table.first_page_id)[i], <<v>>, {}, 0, FALSE)
    BY <2>2 DEF NewOp, Made
  <2> QED BY <1>1, <2>1, <2>2 DEF BeginInsert
<1>2. ASSUME NEW p, NEW v, BeginInsertIntoPage(p, v)
      PROVE  op' = Made("put", p, <<v>>, {}, 0, FALSE)
  BY <1>2 DEF BeginInsertIntoPage, NewOp, Made
<1>3. ASSUME NEW values, BeginBulk(values)
      PROVE  op' = Made("load", table.last_page_id, values, {}, 0, FALSE)
  BY <1>3 DEF BeginBulk, NewOp, Made
<1>4. ASSUME NEW cond, BeginDelete(cond)
      PROVE  op' = Made("delete", table.first_page_id, <<>>, cond, 0, TRUE)
  BY <1>4 DEF BeginDelete, NewOp, Made
<1>5. ASSUME NEW p, NEW cond, BeginDeleteFromPage(p, cond)
      PROVE  op' = Made("delete", p, <<>>, cond, 0, FALSE)
  BY <1>5 DEF BeginDeleteFromPage, NewOp, Made
<1>6. ASSUME NEW nth, BeginDeleteNth(nth)
      PROVE  \E k \in 1 .. Len(ListFrom(table.first_page_id)) :
             \E n \in 0 .. pages[ListFrom(table.first_page_id)[k]].n_regs - 1 :
               op' = Made("delete_nth", ListFrom(table.first_page_id)[k], <<>>, {}, n, FALSE)
  <2> DEFINE list == ListFrom(table.first_page_id)
  <2>3. PICK k \in 1 .. Len(list) : \E n \in 0 .. pages[list[k]].n_regs - 1 :
          op' = [NewOp EXCEPT !.kind = "delete_nth", !.at = list[k], !.nth = n]
    BY <1>6 DEF BeginDeleteNth
  <2>1. PICK n \in 0 .. pages[list[k]].n_regs - 1 :
          op' = [NewOp EXCEPT !.kind = "delete_nth", !.at = list[k], !.nth = n]
    BY <2>3
  <2> HIDE DEF list
  <2>2. op' = Made("delete_nth", list[k], <<>>, {}, n, FALSE)
    BY <2>1 DEF NewOp, Made
  <2> QED BY <2>2 DEF list
<1>7. ASSUME ListIndex PROVE op' = Made("read_all", NULL_PAGE, <<>>, {}, 0, FALSE)
  BY <1>7 DEF ListIndex, NewOp, Made
<1> QED BY <1>1, <1>2, <1>3, <1>4, <1>5, <1>6, <1>7

\* An operation goes from one page of the table to another, with what it is to do.
LEMMA NextWhere ==
  RecordsAssumption /\ IInv /\ TypesInv /\ [Next]_vars => WhereInv'
<1> SUFFICES ASSUME RecordsAssumption, IInv, TypesInv, [Next]_vars PROVE WhereInv'
  OBVIOUS
<1> USE DEF IInv, TypesInv
<1> DEFINE Placed(o) ==
             o.kind \in {"grown", "put", "load", "fill", "delete", "delete_nth"} => o.at \in allocated
           At(o) ==
             /\ o \in OpType
             /\ Placed(o)
             /\ o.kind = "upkeep" /\ o.goes_on => o.at \in allocated
             /\ o.kind = "read_all" => ~o.goes_on
<1>1. /\ allocated \subseteq PageIds /\ PageIds \subseteq Nat
      /\ table.first_page_id \in allocated /\ table.last_page_id \in allocated
      /\ \A p \in allocated : pages[p].next_block_id \in {NULL_PAGE} \cup allocated
  BY ListFacts DEF PageIds, RecordsAssumption
<1>2. ASSUME allocated' = allocated, At(op') PROVE WhereInv'
  BY <1>2 DEF WhereInv
<1>3. ASSUME op' = Idle \/ op' = Stopped PROVE WhereInv'
  BY <1>3 DEF WhereInv, Idle, Stopped
<1>4. ASSUME op.kind \notin {"none", "stopped"} PROVE At(op)
  BY <1>4, UnderWay DEF WhereInv
<1>6. \A i \in DOMAIN ListFrom(table.first_page_id) : ListFrom(table.first_page_id)[i] \in allocated
  BY ListFacts
<1>5. ASSUME NEW kind \in Kinds, NEW at \in Nat, NEW values \in Seq(Values),
             NEW cond \in SUBSET Values, NEW nth \in Nat, NEW goes_on \in BOOLEAN,
             at \in allocated \/ kind \in {"grow", "read_all"}, kind = "read_all" => ~goes_on,
             kind # "upkeep", op' = Made(kind, at, values, cond, nth, goes_on),
             allocated' = allocated
      PROVE  WhereInv'
  <2>1. op' \in OpType /\ op'.kind = kind /\ op'.at = at /\ op'.goes_on = goes_on
    BY <1>5, MadeFacts
  <2>2. At(op')
    BY <1>5, <2>1
  <2> HIDE DEF At
  <2> QED BY <1>2, <1>5, <2>2
<1> DEFINE EmptyCond == {}
           NoValues == <<>>
<1>27. /\ EmptyCond \in SUBSET Values /\ NoValues \in Seq(Values) /\ 0 \in Nat
        /\ NULL_PAGE \in Nat /\ TRUE \in BOOLEAN /\ FALSE \in BOOLEAN
        /\ {"grow", "put", "load", "delete", "delete_nth", "read_all"} \subseteq Kinds
        /\ \A v \in Values : <<v>> \in Seq(Values)
        /\ \A p \in allocated : p \in Nat
  BY <1>1 DEF Kinds, NULL_PAGE
<1>7. ASSUME NEW v \in Values, BeginInsert(v) PROVE WhereInv'
  <2>0. allocated' = allocated
    BY <1>7 DEF BeginInsert
  <2>1. CASE op' = Made("grow", NULL_PAGE, <<v>>, {}, 0, FALSE)
    BY <1>5, <1>27, <2>0, <2>1
  <2>2. ASSUME NEW i \in Insertable(v),
               op' = Made("put", ListFrom(table.first_page_id)[i], <<v>>, {}, 0, FALSE)
        PROVE  WhereInv'
    <3> DEFINE p == ListFrom(table.first_page_id)[i]
    <3>1. p \in allocated /\ op' = Made("put", p, <<v>>, {}, 0, FALSE)
      BY <1>6, <2>2 DEF Insertable
    <3> HIDE DEF p
    <3> QED BY <1>5, <1>27, <2>0, <3>1
  <2> QED BY <1>7, <2>1, <2>2, Beginnings
<1>8. ASSUME NEW p \in allocated, NEW v \in Values, BeginInsertIntoPage(p, v) PROVE WhereInv'
  <2>1. allocated' = allocated /\ op' = Made("put", p, <<v>>, {}, 0, FALSE)
    BY <1>8, Beginnings DEF BeginInsertIntoPage
  <2> QED BY <1>5, <1>27, <2>1
<1>9. ASSUME NEW values \in UpTo(MaxBulk), BeginBulk(values) PROVE WhereInv'
  <2>1. values \in Seq(Values)
    BY RecordsAssumption DEF UpTo, RecordsAssumption
  <2>2. allocated' = allocated /\ op' = Made("load", table.last_page_id, values, {}, 0, FALSE)
    BY <1>9, Beginnings DEF BeginBulk
  <2> QED BY <1>1, <1>5, <1>27, <2>1, <2>2
<1>10. ASSUME NEW cond \in SUBSET Values \ {{}}, BeginDelete(cond) PROVE WhereInv'
  <2>1. allocated' = allocated /\ op' = Made("delete", table.first_page_id, <<>>, cond, 0, TRUE)
    BY <1>10, Beginnings DEF BeginDelete
  <2> QED BY <1>1, <1>5, <1>27, <2>1
<1>11. ASSUME NEW p \in allocated, NEW cond \in SUBSET Values \ {{}}, BeginDeleteFromPage(p, cond)
       PROVE WhereInv'
  <2>1. allocated' = allocated /\ op' = Made("delete", p, <<>>, cond, 0, FALSE)
    BY <1>11, Beginnings DEF BeginDeleteFromPage
  <2>2. p \in Nat /\ cond \in SUBSET Values
    BY <1>1
  <2>3. <<>> \in Seq(Values) /\ "delete" \in Kinds /\ 0 \in Nat /\ FALSE \in BOOLEAN
    BY <1>27
  <2>4. "delete" # "read_all" /\ "delete" # "upkeep"
    OBVIOUS
  <2> QED BY <1>5, <2>1, <2>2, <2>3, <2>4, Zenon
<1>12. ASSUME NEW nth \in 0 .. Cardinality(Records) - 1, BeginDeleteNth(nth) PROVE WhereInv'
  <2> DEFINE list == ListFrom(table.first_page_id)
  <2>1. PICK k \in 1 .. Len(list) : \E n \in 0 .. pages[list[k]].n_regs - 1 :
          op' = Made("delete_nth", list[k], <<>>, {}, n, FALSE)
    BY <1>12, Beginnings
  <2>2. list[k] \in allocated
    <3>1. PICK m \in Nat : list \in [1 .. m -> PageIds]
      BY ListFacts
    <3> HIDE DEF list
    <3>2. k \in DOMAIN list
      BY <3>1
    <3> QED BY <1>6, <3>2 DEF list
  <2> DEFINE p == list[k]
  <2>3. PICK n \in 0 .. pages[p].n_regs - 1 : op' = Made("delete_nth", p, <<>>, {}, n, FALSE)
    BY <2>1
  <2>4. n \in Nat
    BY <1>1, <2>2 DEF PagesInv, Sound, PageType
  <2>5. p \in allocated /\ allocated' = allocated
    BY <1>12, <2>2 DEF BeginDeleteNth
  <2> HIDE DEF p
  <2>6. p \in Nat
    BY <1>1, <2>5
  <2>7. {} \in SUBSET Values /\ <<>> \in Seq(Values) /\ "delete_nth" \in Kinds /\ FALSE \in BOOLEAN
    BY <1>27
  <2>8. "delete_nth" # "read_all" /\ "delete_nth" # "upkeep"
    OBVIOUS
  <2> QED BY <1>5, <2>3, <2>4, <2>5, <2>6, <2>7, <2>8, Zenon
<1>13. CASE AddPage
  <2>1. PICK p \in PageIds \ allocated :
          allocated' = allocated \cup {p} /\ op' = [op EXCEPT !.kind = "grown", !.at = p]
    BY <1>13 DEF AddPage
  <2>2. op \in OpType
    BY <1>4, <1>13 DEF AddPage
  <2>3. op' \in OpType /\ op'.kind = "grown" /\ op'.at = p
    BY <1>1, <2>1, <2>2 DEF OpType, Kinds
  <2> QED BY <2>1, <2>3 DEF WhereInv
<1>14. CASE WriteTable
  <2>1. At(op) /\ op.kind = "grown" /\ allocated' = allocated
    BY <1>4, <1>14 DEF WriteTable
  <2>2. At(op')
    BY <1>14, <2>1 DEF WriteTable, OpType, Kinds
  <2> HIDE DEF At
  <2> QED BY <1>2, <2>1, <2>2
<1>15. CASE Put
  <2> DEFINE r == Inserted(table.are_regs_fixed, pages[op.at], op.values[1])
  <2>1. At(op) /\ op.kind = "put" /\ allocated' = allocated /\ r.ok
    BY <1>4, <1>15 DEF Put
  <2>2. op.values[1] \in Values /\ op.at \in PageIds
    BY <1>1, <1>15, <2>1 DEF Put, OpInv
  <2>3. r.slot \in Slots
    BY <2>1, <2>2, InsertionFacts
  <2>4. op' = [op EXCEPT !.kind = "upkeep", !.adds = TRUE, !.values = <<>>,
                         !.done = <<<<op.values[1], <<op.at, r.slot>>>>>>]
    BY <1>15 DEF Put
  <2> DEFINE done == <<<<op.values[1], <<op.at, r.slot>>>>>>
  <2>5. done \in Seq(Values \X Ptrs)
    BY <2>2, <2>3 DEF Ptrs
  <2>6. op' = [op EXCEPT !.kind = "upkeep", !.adds = TRUE, !.values = NoValues, !.done = done]
    BY <2>4
  <2> HIDE DEF r, done, NoValues
  <2>7. At(op')
    BY <1>27, <2>1, <2>5, <2>6 DEF OpType, Kinds
  <2> HIDE DEF At
  <2> QED BY <1>2, <2>1, <2>7
<1>16. CASE LoadToFill
  <2>1. At(op) /\ op.kind = "load" /\ allocated' = allocated
    BY <1>4, <1>16 DEF LoadToFill
  <2>2. At(op')
    BY <1>16, <2>1 DEF LoadToFill, OpType, Kinds
  <2> HIDE DEF At
  <2> QED BY <1>2, <2>1, <2>2
<1>17. CASE FillRecord
  <2> DEFINE v == Head(op.values)
             r == Inserted(table.are_regs_fixed, pages[op.at], v)
             done == Append(op.done, <<v, <<op.at, r.slot>>>>)
             rest == Tail(op.values)
  <2>1. At(op) /\ op.kind = "fill" /\ allocated' = allocated /\ r.ok /\ op.values # <<>>
    BY <1>4, <1>17 DEF FillRecord, FitsNext
  <2>2. v \in Values /\ op.at \in PageIds /\ rest \in Seq(Values)
    <3> DEFINE old == op.values
    <3>1. old \in Seq(Values) /\ op.at \in allocated /\ old # <<>>
      BY <2>1 DEF OpType
    <3>2. v = Head(old) /\ rest = Tail(old)
      OBVIOUS
    <3> HIDE DEF old, v, rest
    <3>3. Head(old) \in Values /\ Tail(old) \in Seq(Values)
      BY <3>1
    <3> QED BY <1>1, <3>1, <3>2, <3>3
  <2>3. r.slot \in Slots
    BY <2>1, <2>2, InsertionFacts
  <2>4. op.done \in Seq(Values \X Ptrs)
    BY <2>1 DEF OpType
  <2>5. <<v, <<op.at, r.slot>>>> \in Values \X Ptrs
    BY <2>2, <2>3 DEF Ptrs
  <2>6. op' = [op EXCEPT !.values = rest, !.done = done]
    BY <1>17 DEF FillRecord
  <2>7. done \in Seq(Values \X Ptrs)
    <3> DEFINE e == <<v, <<op.at, r.slot>>>>
               V == Values \X Ptrs
               old == op.done
    <3>1. e \in V /\ old \in Seq(V) /\ done = Append(old, e)
      BY <2>4, <2>5
    <3> HIDE DEF e, V, old, done
    <3>2. done \in Seq(V)
      BY <3>1
    <3> QED BY <3>2 DEF V
  <2> HIDE DEF v, r, done, rest
  <2>8. At(op')
    BY <2>1, <2>2, <2>6, <2>7 DEF OpType, Kinds
  <2> HIDE DEF At
  <2> QED BY <1>2, <2>1, <2>8
<1>18. CASE LeavePage
  <2>1. At(op) /\ op.kind = "fill" /\ allocated' = allocated
    BY <1>4, <1>18 DEF LeavePage
  <2>2. At(op')
    BY <1>18, <2>1 DEF LeavePage, OpType, Kinds
  <2> HIDE DEF At
  <2> QED BY <1>2, <2>1, <2>2
<1>19. CASE DeleteInPage
  <2> DEFINE done == Entries(op.at, Doomed)
  <2>1. At(op) /\ op.kind \in {"delete", "delete_nth"} /\ allocated' = allocated
    BY <1>4, <1>19 DEF DeleteInPage
  <2>2. op.at \in PageIds /\ op.at \in allocated
    BY <1>1, <2>1
  <2>3. Lists(done, PlacedIn(op.at, Doomed))
    BY <2>2, DoomedAreUsed, EntriesList
  <2>4. op' = [op EXCEPT !.kind = "upkeep", !.adds = FALSE, !.done = done]
    BY <1>19 DEF DeleteInPage
  <2> HIDE DEF done
  <2>5. done \in Seq(Values \X Ptrs)
    BY <2>3 DEF Lists
  <2>6. At(op')
    BY <2>1, <2>2, <2>4, <2>5 DEF OpType, Kinds
  <2> HIDE DEF At
  <2> QED BY <1>2, <2>1, <2>6
<1>20. CASE NextPage
  <2>1. At(op) /\ op.kind = "upkeep" /\ allocated' = allocated
    BY <1>4, <1>20 DEF NextPage
  <2> DEFINE next == pages[op.at].next_block_id
  <2>2. CASE op.goes_on /\ next # NULL_PAGE
    <3>1. next \in allocated
      BY <1>1, <2>1, <2>2
    <3> DEFINE none == <<>>
    <3>2. /\ op' = [op EXCEPT !.kind = "delete", !.at = next, !.done = none]
          /\ none \in Seq(Values \X Ptrs)
      BY <1>20, <2>2 DEF NextPage
    <3> HIDE DEF next, none
    <3>3. At(op')
      BY <1>1, <2>1, <3>1, <3>2 DEF OpType, Kinds
    <3> HIDE DEF At
    <3> QED BY <1>2, <2>1, <3>3
  <2>3. CASE ~(op.goes_on /\ next # NULL_PAGE)
    BY <1>3, <1>20, <2>3 DEF NextPage
  <2> QED BY <2>2, <2>3
<1>21. CASE NextPageLost
  <2>1. At(op) /\ op.kind = "upkeep" /\ allocated' = allocated
    BY <1>4, <1>21 DEF NextPageLost
  <2>2. ASSUME NEW p \in allocated, op' = [op EXCEPT !.kind = "delete", !.at = p, !.done = <<>>]
        PROVE  WhereInv'
    <3> DEFINE none == <<>>
    <3>1. op' = [op EXCEPT !.kind = "delete", !.at = p, !.done = none] /\ none \in Seq(Values \X Ptrs)
      BY <2>2
    <3> HIDE DEF none
    <3>2. At(op')
      BY <1>1, <2>1, <3>1 DEF OpType, Kinds
    <3> HIDE DEF At
    <3> QED BY <1>2, <2>1, <3>2
  <2>3. CASE op' \in {Idle, Stopped}
    BY <1>3, <2>3
  <2> QED BY <1>21, <2>2, <2>3 DEF NextPageLost
<1>22. CASE IndexInsert \/ IndexRemove \/ IndexRefuses
  <2>1. At(op) /\ op.kind = "upkeep" /\ allocated' = allocated /\ op.done # <<>>
    BY <1>4, <1>22 DEF IndexInsert, IndexRemove, IndexRefuses, Indexing
  <2> DEFINE done == Tail(op.done)
  <2>2. op' = [op EXCEPT !.done = done]
    BY <1>22 DEF IndexInsert, IndexRemove, IndexRefuses
  <2>3. op.done \in Seq(Values \X Ptrs)
    BY <2>1 DEF OpType
  <2>4. done \in Seq(Values \X Ptrs)
    <3> DEFINE V == Values \X Ptrs
               old == op.done
    <3>1. old \in Seq(V) /\ old # <<>>
      BY <2>1, <2>3
    <3> HIDE DEF V, old
    <3>2. Tail(old) \in Seq(V)
      BY <3>1
    <3> QED BY <3>2 DEF V, old
  <2> HIDE DEF done
  <2>5. At(op')
    BY <2>1, <2>2, <2>4 DEF OpType, Kinds
  <2> HIDE DEF At
  <2> QED BY <1>2, <2>1, <2>5
<1>23. CASE ListIndex
  <2>1. allocated' = allocated /\ op' = Made("read_all", NULL_PAGE, <<>>, {}, 0, FALSE)
    BY <1>23, Beginnings DEF ListIndex
  <2> QED BY <1>5, <1>27, <2>1
<1>24. CASE ReadAll
  <2> DEFINE done == EntriesOfPages(ListFrom(table.first_page_id))
  <2>1. At(op) /\ op.kind = "read_all" /\ allocated' = allocated /\ ~op.goes_on
    BY <1>4, <1>24 DEF ReadAll
  <2>2. Lists(done, Records)
    BY AllListed
  <2>3. op' = [op EXCEPT !.kind = "upkeep", !.adds = TRUE, !.done = done]
    BY <1>24 DEF ReadAll
  <2> HIDE DEF done
  <2>4. done \in Seq(Values \X Ptrs)
    BY <2>2 DEF Lists
  <2>5. At(op')
    BY <2>1, <2>3, <2>4 DEF OpType, Kinds
  <2> HIDE DEF At
  <2> QED BY <1>2, <2>1, <2>5
<1>25. CASE \/ GrowRefused \/ PutRefused \/ Update \/ Fails
            \/ \E nth \in 0 .. Cardinality(Records) - 1 : UpdateNth(nth)
  BY <1>3, <1>25 DEF GrowRefused, PutRefused, Update, UpdateNth, Fails
<1>26. CASE UNCHANGED vars
  BY <1>26 DEF vars, WhereInv
<1> HIDE DEF IInv, TypesInv
<1> QED
  BY <1>7, <1>8, <1>9, <1>10, <1>11, <1>12, <1>13, <1>14, <1>15, <1>16, <1>17, <1>18, <1>19,
     <1>20, <1>21, <1>22, <1>23, <1>24, <1>25, <1>26 DEF Next

LEMMA BagAdds ==
  ASSUME NEW B, IsABag(B), NEW e
  PROVE  /\ IsABag(B (+) SetToBag({e})) /\ BagToSet(B (+) SetToBag({e})) = BagToSet(B) \cup {e}
         /\ \A d \in BagToSet(B) \cup {e} :
              (B (+) SetToBag({e}))[d] =
                (IF d \in BagToSet(B) THEN B[d] ELSE 0) + (IF d = e THEN 1 ELSE 0)
<1> DEFINE count(d) == (IF d \in DOMAIN B THEN B[d] ELSE 0) + (IF d \in {e} THEN 1 ELSE 0)
           D == DOMAIN B \cup {e}
           C == B (+) SetToBag({e})
<1>1. SetToBag({e}) = [d \in {e} |-> 1]
  BY DEF SetToBag
<1>2. C = [d \in D |-> count(d)]
  BY <1>1 DEF (+)
<1>3. \A d \in DOMAIN B : B[d] \in Nat /\ B[d] > 0
  BY DEF IsABag
<1>4. \A d \in D : count(d) \in Nat /\ count(d) > 0
  BY <1>3
<1>5. \A d \in D : count(d) = (IF d \in DOMAIN B THEN B[d] ELSE 0) + (IF d = e THEN 1 ELSE 0)
  OBVIOUS
<1> HIDE DEF count, D, C
<1>6. DOMAIN C = D /\ \A d \in D : C[d] = count(d)
  BY <1>2
<1>7. C \in [D -> {n \in Nat : n > 0}]
  BY <1>2, <1>4
<1> QED BY <1>5, <1>6, <1>7 DEF IsABag, BagToSet, D, C

LEMMA BagTakes ==
  ASSUME NEW B, IsABag(B), NEW e \in BagToSet(B)
  PROVE  /\ IsABag(B (-) SetToBag({e}))
         /\ BagToSet(B (-) SetToBag({e})) =
              {d \in BagToSet(B) : B[d] - (IF d = e THEN 1 ELSE 0) > 0}
         /\ \A d \in BagToSet(B (-) SetToBag({e})) :
              (B (-) SetToBag({e}))[d] = B[d] - (IF d = e THEN 1 ELSE 0)
<1> DEFINE count(d) == B[d] - (IF d = e THEN 1 ELSE 0)
           F == [d \in DOMAIN B |-> IF d \in DOMAIN SetToBag({e}) THEN B[d] - SetToBag({e})[d]
                                    ELSE B[d]]
           C == B (-) SetToBag({e})
           D == {d \in DOMAIN B : count(d) > 0}
<1>1. \A d \in DOMAIN B : B[d] \in Nat /\ B[d] > 0
  BY DEF IsABag
<1>2. C = [d \in {c \in DOMAIN F : F[c] > 0} |-> F[d]]
  BY DEF (-)
<1>3. DOMAIN SetToBag({e}) = {e} /\ SetToBag({e})[e] = 1
  BY DEF SetToBag
<1>4. DOMAIN F = DOMAIN B /\ \A d \in DOMAIN B : F[d] = count(d)
  BY <1>1, <1>3
<1>5. \A d \in DOMAIN B : count(d) \in Int
  BY <1>1
<1> HIDE DEF F, C
<1>6. {c \in DOMAIN F : F[c] > 0} = D
  BY <1>4
<1>7. DOMAIN C = D /\ \A d \in D : C[d] = count(d)
  BY <1>2, <1>4, <1>6
<1>8. C = [d \in D |-> C[d]]
  BY <1>2, <1>6
<1>9. C \in [D -> {n \in Nat : n > 0}]
  BY <1>5, <1>7, <1>8
<1> QED BY <1>7, <1>9 DEF IsABag, BagToSet, C

\* The index has whole entries.
LEMMA NextIndex == IInv /\ TypesInv /\ [Next]_vars => IndexInv'
<1> SUFFICES ASSUME IInv, TypesInv, [Next]_vars PROVE IndexInv'
  OBVIOUS
<1> USE DEF TypesInv
<1> DEFINE V == Values \X Ptrs
<1>1. CASE UNCHANGED index
  BY <1>1 DEF IndexInv
<1>2. ASSUME NEW B, IsABag(B), BagToSet(B) \subseteq V, index' = [index EXCEPT !.entries = B]
      PROVE  IndexInv'
  <2>1. index'.entries = B /\ index'.is_listed = index.is_listed
        /\ index' = [is_listed |-> index'.is_listed, entries |-> index'.entries]
    BY <1>2 DEF IndexInv
  <2> QED BY <1>2, <2>1 DEF IndexInv
<1>3. CASE IndexInsert
  <2> DEFINE e == Head(op.done)
             B == index.entries (+) SetToBag({e})
  <2>1. op \in OpType /\ op.done # <<>>
    BY <1>3, UnderWay DEF IndexInsert, Indexing
  <2>2. e \in V
    <3> DEFINE done == op.done
    <3>1. done \in Seq(V) /\ done # <<>>
      BY <2>1 DEF OpType
    <3> HIDE DEF done, V
    <3>2. Head(done) \in V
      BY <3>1
    <3> QED BY <3>2 DEF done
  <2>3. index' = [index EXCEPT !.entries = B]
    BY <1>3 DEF IndexInsert
  <2> DEFINE bag == index.entries
  <2>4. IsABag(bag) /\ BagToSet(bag) \subseteq V /\ B = bag (+) SetToBag({e})
    BY DEF IndexInv
  <2> HIDE DEF e, V, bag, B
  <2>6. /\ IsABag(bag (+) SetToBag({e}))
        /\ BagToSet(bag (+) SetToBag({e})) = BagToSet(bag) \cup {e}
    BY <2>2, <2>4, BagAdds, Zenon
  <2>5. IsABag(B) /\ BagToSet(B) \subseteq V
    BY <2>2, <2>4, <2>6
  <2> QED BY <1>2, <2>3, <2>5
<1>4. CASE IndexRemove
  <2>1. PICK e \in BagToSet(index.entries) :
          index' = [index EXCEPT !.entries = @ (-) SetToBag({e})]
    BY <1>4 DEF IndexRemove
  <2> DEFINE B == index.entries (-) SetToBag({e})
  <2>2. IsABag(B) /\ BagToSet(B) \subseteq BagToSet(index.entries)
    BY BagTakes DEF IndexInv
  <2>3. index' = [index EXCEPT !.entries = B]
    BY <2>1
  <2>4. BagToSet(B) \subseteq V
    BY <2>2 DEF IndexInv
  <2> HIDE DEF B, V
  <2> QED BY <1>2, <2>2, <2>3, <2>4
<1>5. CASE ListIndex
  BY <1>5 DEF ListIndex, IndexInv
<1> QED
  BY <1>1, <1>3, <1>4, <1>5
  DEF Next, vars, BeginInsert, BeginInsertIntoPage, BeginBulk, BeginDelete, BeginDeleteFromPage,
      BeginDeleteNth, AddPage, WriteTable, GrowRefused, Put, PutRefused, LoadToFill, FillRecord,
      LeavePage, DeleteInPage, NextPage, NextPageLost, IndexRefuses, ReadAll, Update, UpdateNth,
      Fails

\* A pin is given back only by who has it.
LEMMA NextHeld ==
  RecordsAssumption /\ IInv /\ TypesInv /\ [Next]_vars => HeldInv'
<1> SUFFICES ASSUME RecordsAssumption, IInv, TypesInv, [Next]_vars PROVE HeldInv'
  OBVIOUS
<1> USE DEF IInv, TypesInv
<1>1. /\ allocated \subseteq PageIds /\ PageIds \subseteq PageIds \cup {table_block_id}
      /\ table.last_page_id \in allocated
  BY ListFacts
<1>2. pins \in [PageIds \cup {table_block_id} -> Nat]
  BY DEF HeldInv
<1>3. ASSUME UNCHANGED pins, op'.kind \notin {"grown", "fill"} PROVE HeldInv'
  BY <1>3 DEF HeldInv
<1>4. ASSUME NEW p \in PageIds
      PROVE  /\ Pinned(p) \in [PageIds \cup {table_block_id} -> Nat] /\ Pinned(p)[p] > 0
             /\ pins[p] > 0 => Unpinned(p) \in [PageIds \cup {table_block_id} -> Nat]
  BY <1>2 DEF Pinned, Unpinned
<1>5. op.kind = "upkeep" \/ op.kind = "delete" \/ op.kind = "delete_nth" \/ op.kind = "read_all"
        => op \in OpType
  BY UnderWay
<1>6. ASSUME \/ \E v \in Values : BeginInsert(v)
             \/ \E p \in allocated, v \in Values : BeginInsertIntoPage(p, v)
             \/ \E values \in UpTo(MaxBulk) : BeginBulk(values)
             \/ \E cond \in SUBSET Values \ {{}} : BeginDelete(cond)
             \/ \E p \in allocated, cond \in SUBSET Values \ {{}} : BeginDeleteFromPage(p, cond)
             \/ \E nth \in 0 .. Cardinality(Records) - 1 : BeginDeleteNth(nth)
             \/ ListIndex
      PROVE  UNCHANGED pins /\ op'.kind \notin {"grown", "fill"}
  <2>2. UNCHANGED pins
    BY <1>6 DEF BeginInsert, BeginInsertIntoPage, BeginBulk, BeginDelete, BeginDeleteFromPage,
                BeginDeleteNth, ListIndex
  <2>3. op'.kind \notin {"grown", "fill"}
    <3>1. ASSUME NEW v \in Values, BeginInsert(v) PROVE op'.kind \notin {"grown", "fill"}
      BY <3>1 DEF BeginInsert, NewOp
    <3>2. ASSUME NEW nth, BeginDeleteNth(nth) PROVE op'.kind \notin {"grown", "fill"}
      BY <3>2 DEF BeginDeleteNth, NewOp
    <3> QED
      BY <1>6, <3>1, <3>2
      DEF BeginInsertIntoPage, BeginBulk, BeginDelete, BeginDeleteFromPage, ListIndex, NewOp
  <2> QED BY <2>2, <2>3
<1>7. CASE AddPage
  <2>1. pins' = Pinned(table.last_page_id) /\ table' = table /\ op'.kind = "grown"
    BY <1>7, UnderWay DEF AddPage, OpType
  <2> QED BY <1>1, <1>4, <2>1 DEF HeldInv
<1>8. CASE WriteTable
  <2>1. /\ pins' = Unpinned(table.last_page_id) /\ pins[table.last_page_id] > 0
        /\ op'.kind \in {"load", "put"}
    BY <1>8, UnderWay DEF WriteTable, OpType, HeldInv
  <2> QED BY <1>1, <1>4, <2>1 DEF HeldInv
<1>9. CASE GrowRefused \/ PutRefused
  <2>1. op'.kind = "none" /\ \E p \in PageIds : pins' = Pinned(p)
    BY <1>1, <1>9 DEF GrowRefused, PutRefused, Idle, WhereInv
  <2> QED BY <1>4, <2>1 DEF HeldInv
<1>10. CASE Put \/ DeleteInPage \/ ReadAll \/ IndexInsert \/ IndexRemove \/ IndexRefuses
  <2>1. UNCHANGED pins /\ op'.kind = "upkeep"
    BY <1>10, UnderWay DEF Put, DeleteInPage, ReadAll, IndexInsert, IndexRemove, IndexRefuses,
                           Indexing, OpType
  <2> QED BY <1>3, <2>1
<1>11. CASE LoadToFill
  <2>1. pins' = Pinned(op.at) /\ op'.kind = "fill" /\ op'.at = op.at
    BY <1>11, UnderWay DEF LoadToFill, OpType
  <2>2. op.at \in PageIds
    BY <1>1, <1>11 DEF LoadToFill, WhereInv
  <2> QED BY <1>4, <2>1, <2>2 DEF HeldInv
<1>12. CASE FillRecord
  <2>1. UNCHANGED pins /\ op'.kind = "fill" /\ op'.at = op.at /\ op.kind = "fill"
    BY <1>12, UnderWay DEF FillRecord, OpType
  <2> QED BY <2>1 DEF HeldInv
<1>13. CASE LeavePage
  <2>1. pins' = Unpinned(op.at) /\ pins[op.at] > 0 /\ op'.kind \in {"upkeep", "grow"}
    BY <1>13, UnderWay DEF LeavePage, OpType, HeldInv
  <2>2. op.at \in PageIds
    BY <1>1, <1>13 DEF LeavePage, WhereInv
  <2> QED BY <1>4, <2>1, <2>2 DEF HeldInv
<1>14. CASE NextPage
  <2>1. UNCHANGED pins /\ op'.kind \in {"none", "delete"}
    BY <1>14, UnderWay DEF NextPage, OpType, Idle
  <2> QED BY <1>3, <2>1
<1>15. CASE NextPageLost \/ Update \/ (\E nth \in 0 .. Cardinality(Records) - 1 : UpdateNth(nth))
  <2>1. UNCHANGED pins /\ op'.kind \in {"none", "stopped", "delete"}
    <3>1. CASE NextPageLost
      <4>1. op \in OpType
        BY <1>5, <3>1 DEF NextPageLost
      <4>2. op' \in {Idle, Stopped} => op'.kind \in {"none", "stopped"}
        BY DEF Idle, Stopped
      <4>3. ASSUME NEW p, op' = [op EXCEPT !.kind = "delete", !.at = p, !.done = <<>>]
            PROVE  op'.kind = "delete"
        BY <4>1, <4>3 DEF OpType
      <4> QED BY <3>1, <4>2, <4>3 DEF NextPageLost
    <3>2. CASE Update \/ (\E nth \in 0 .. Cardinality(Records) - 1 : UpdateNth(nth))
      BY <3>2 DEF Update, UpdateNth, Stopped
    <3> QED BY <1>15, <3>1, <3>2
  <2> QED BY <1>3, <2>1
<1>16. CASE Fails
  <2>1. op'.kind = "none" /\ (pins' = pins \/ pins' = Pinned(table.last_page_id))
    BY <1>16 DEF Fails, Idle
  <2> QED BY <1>1, <1>2, <1>4, <2>1 DEF HeldInv
<1>17. CASE UNCHANGED vars
  BY <1>17 DEF vars, HeldInv
<1> HIDE DEF IInv, TypesInv
<1> QED
  BY <1>3, <1>6, <1>7, <1>8, <1>9, <1>10, <1>11, <1>12, <1>13, <1>14, <1>15, <1>16, <1>17 DEF Next
-----------------------------------------------------------------------------
LEMMA InitTypes == RecordsAssumption /\ Init => TypesInv
<1> SUFFICES ASSUME RecordsAssumption, Init PROVE TypesInv
  OBVIOUS
<1>1. ValuesInv
  BY DEF Init, ValuesInv, NewPage, NewFixedPage, NewSlottedPage, Used, FreeSlot, NULL_PAGE
<1>2. WhereInv
  BY DEF Init, WhereInv, Idle
<1>3. IsABag(EmptyBag) /\ BagToSet(EmptyBag) = {}
  BY DEF EmptyBag, SetToBag, IsABag, BagToSet
<1>4. IndexInv
  BY <1>3 DEF Init, IndexInv
<1>5. HeldInv
  BY DEF Init, HeldInv, Idle
<1> QED BY <1>1, <1>2, <1>4, <1>5 DEF TypesInv

LEMMA TypesInductive == Spec => [](IInv /\ TypesInv)
<1>1. Init => IInv /\ TypesInv
  BY InitPages, InitOp, InitPins, InitList, InitTypes, RecordsAssumption DEF IInv
<1>2. IInv /\ TypesInv /\ [Next]_vars => IInv' /\ TypesInv'
  <2>1. IInv /\ [Next]_vars => IInv'
    BY NextPages, NextOp, NextPins, NextList, RecordsAssumption DEF IInv
  <2>2. IInv /\ TypesInv /\ [Next]_vars => TypesInv'
    BY NextValues, NextWhere, NextIndex, NextHeld, RecordsAssumption DEF TypesInv
  <2> QED BY <2>1, <2>2
<1> QED BY <1>1, <1>2, PTL DEF Spec

\* Whatever fails, the pages of a table and its index are in the form their code reads, and
\* no pin is given back that was not taken.
THEOREM RecordsTypeCorrect == Spec => []TypeOK
<1>1. IInv /\ TypesInv => TypeOK
  <2> SUFFICES ASSUME IInv, TypesInv PROVE TypeOK
    OBVIOUS
  <2> USE DEF IInv, TypesInv
  <2>1. /\ allocated \subseteq PageIds /\ table.first_page_id \in allocated
        /\ table.last_page_id \in allocated
    BY ListFacts, RecordsAssumption
  <2>2. ASSUME NEW p \in PageIds
        PROVE  /\ pages[p].next_block_id \in {NULL_PAGE} \cup PageIds
               /\ pages[p].n_regs \in Nat
               /\ pages[p].free_space \in Nat
               /\ pages[p].free_bytes \in Nat
               /\ \A i \in DOMAIN pages[p].slots :
                    pages[p].slots[i].is_used => pages[p].slots[i].value \in Values
    BY DEF PagesInv, Sound, PageType, ValuesInv, Used
  <2>3. table.are_regs_fixed \in BOOLEAN /\ failures \in Nat
    BY DEF PagesInv, PinsInv
  <2> HIDE DEF IInv, TypesInv
  <2> QED BY <2>1, <2>2, <2>3 DEF TypeOK, IndexInv, HeldInv, TypesInv
<1> QED BY <1>1, TypesInductive, PTL
-----------------------------------------------------------------------------
(* The index and the records.                                              *)

\* How many of the entries are for a value.
Count(s, v) == Cardinality({k \in 1 .. Len(s) : s[k][1] = v})

LEMMA CountType ==
  ASSUME NEW V, NEW s \in Seq(V), NEW v
  PROVE  /\ IsFiniteSet({k \in 1 .. Len(s) : s[k][1] = v})
         /\ Count(s, v) \in Nat
<1>1. IsFiniteSet(1 .. Len(s))
  BY FS_Interval
<1>2. IsFiniteSet({k \in 1 .. Len(s) : s[k][1] = v})
  BY <1>1, FS_Subset
<1> QED BY <1>2, FS_CardinalityType DEF Count

LEMMA CountOfNone ==
  ASSUME NEW v
  PROVE  Count(<<>>, v) = 0
<1>1. {k \in 1 .. Len(<<>>) : <<>>[k][1] = v} = {}
  OBVIOUS
<1> QED BY <1>1, FS_EmptySet DEF Count

LEMMA CountOfMore ==
  ASSUME NEW V, NEW s \in Seq(V), NEW e \in V, NEW v
  PROVE  Count(Append(s, e), v) = Count(s, v) + (IF e[1] = v THEN 1 ELSE 0)
<1> DEFINE n == Len(s)
           more == Append(s, e)
           K == {k \in 1 .. n : s[k][1] = v}
           L == {k \in 1 .. n + 1 : more[k][1] = v}
<1>1. /\ n \in Nat /\ Len(more) = n + 1 /\ more[n + 1] = e
      /\ \A k \in 1 .. n : more[k] = s[k]
  OBVIOUS
<1>2. IsFiniteSet(K) /\ Cardinality(K) \in Nat
  BY CountType, FS_CardinalityType
<1>3. Count(s, v) = Cardinality(K) /\ Count(more, v) = Cardinality(L)
  BY <1>1 DEF Count
<1>4. L = IF e[1] = v THEN K \cup {n + 1} ELSE K
  <2> HIDE DEF more, n
  <2>1. \A k : k \in 1 .. n + 1 <=> (k \in 1 .. n \/ k = n + 1)
    BY <1>1
  <2>2. n + 1 \notin 1 .. n
    BY <1>1
  <2> QED BY <1>1, <2>1, <2>2
<1>5. n + 1 \notin K
  BY <1>1
<1> HIDE DEF K, L, n, more
<1>6. CASE e[1] = v
  <2>1. Cardinality(K \cup {n + 1}) = Cardinality(K) + 1
    BY <1>2, <1>5, FS_AddElement
  <2> QED BY <1>3, <1>4, <1>6, <2>1 DEF more
<1>7. CASE e[1] # v
  BY <1>2, <1>3, <1>4, <1>7 DEF more
<1> QED BY <1>6, <1>7

LEMMA CountOfRest ==
  ASSUME NEW V, NEW s \in Seq(V), s # <<>>, NEW v
  PROVE  Count(s, v) = Count(Tail(s), v) + (IF Head(s)[1] = v THEN 1 ELSE 0)
<1> DEFINE n == Len(s)
           rest == Tail(s)
           K == {k \in 1 .. n - 1 : rest[k][1] = v}
           M == {k \in 2 .. n : s[k][1] = v}
           L == {k \in 1 .. n : s[k][1] = v}
           f == [k \in K |-> k + 1]
<1>1. /\ n \in Nat /\ n >= 1 /\ Len(rest) = n - 1 /\ rest \in Seq(V) /\ Head(s) = s[1]
      /\ \A k \in 1 .. n - 1 : rest[k] = s[k + 1]
  OBVIOUS
<1>2. Count(s, v) = Cardinality(L) /\ Count(rest, v) = Cardinality(K)
  BY <1>1 DEF Count
<1>3. IsFiniteSet(K)
  BY <1>1, CountType
<1> HIDE DEF rest, n
<1>4. f \in Bijection(K, M)
  <2>1. \A k \in K : k + 1 \in M
    BY <1>1
  <2>2. \A m \in M : m - 1 \in K /\ (m - 1) + 1 = m
    BY <1>1
  <2>3. \A k, l \in K : k + 1 = l + 1 => k = l
    BY <1>1
  <2> HIDE DEF K, M
  <2>4. f \in [K -> M]
    BY <2>1
  <2>5. \A m \in M : \E k \in K : f[k] = m
    BY <2>2
  <2>6. \A k, l \in K : f[k] = f[l] => k = l
    BY <2>3
  <2> QED BY <2>4, <2>5, <2>6 DEF Bijection, Injection, Surjection, IsInjective
<1>5. IsFiniteSet(M) /\ Cardinality(M) = Cardinality(K) /\ Cardinality(M) \in Nat
  <2> HIDE DEF K, M, f
  <2> QED BY <1>3, <1>4, FS_Bijection, FS_CardinalityType DEF ExistsBijection
<1>6. L = IF s[1][1] = v THEN M \cup {1} ELSE M
  <2>1. \A k : k \in 1 .. n <=> (k \in 2 .. n \/ k = 1)
    BY <1>1
  <2> QED BY <2>1
<1>7. 1 \notin M
  BY <1>1
<1> HIDE DEF K, M, L, f
<1>8. CASE s[1][1] = v
  <2>1. Cardinality(M \cup {1}) = Cardinality(M) + 1
    BY <1>5, <1>7, FS_AddElement
  <2> QED BY <1>1, <1>2, <1>5, <1>6, <1>8, <2>1 DEF rest
<1>9. CASE s[1][1] # v
  BY <1>1, <1>2, <1>5, <1>6, <1>9 DEF rest
<1> QED BY <1>8, <1>9

\* A sequence that lists a set has as many entries for a value.
LEMMA CountOfListed ==
  ASSUME NEW s, NEW E, Lists(s, E), NEW v
  PROVE  /\ IsFiniteSet({e \in E : e[1] = v})
         /\ Count(s, v) = Cardinality({e \in E : e[1] = v})
<1> DEFINE K == {k \in 1 .. Len(s) : s[k][1] = v}
           M == {e \in E : e[1] = v}
           f == [k \in K |-> s[k]]
<1>1. IsFiniteSet(K)
  <2> DEFINE V == Values \X Ptrs
  <2>1. s \in Seq(V)
    BY DEF Lists
  <2> HIDE DEF V
  <2> QED BY <2>1, CountType
<1>2. f \in [K -> M]
  BY DEF Lists
<1>3. \A e \in M : \E k \in K : f[k] = e
  BY DEF Lists
<1>4. \A k, l \in K : f[k] = f[l] => k = l
  BY DEF Lists
<1> HIDE DEF K, M, f
<1>5. f \in Bijection(K, M)
  BY <1>2, <1>3, <1>4 DEF Bijection, Injection, Surjection, IsInjective
<1>6. IsFiniteSet(M) /\ Cardinality(M) = Cardinality(K)
  BY <1>1, <1>5, FS_Bijection DEF ExistsBijection
<1> QED BY <1>6 DEF Count, K, M

\* The records of all the pages of the table.
AllPlaces == UNION {PlacedIn(p, Used(pages[p])) : p \in allocated}

\* A step that leaves the pages of the table, but for one, leaves the records but for that one's.
LEMMA OnePagesRecords ==
  ASSUME NEW p \in allocated, allocated' = allocated,
         \A q \in allocated : q # p => pages'[q] = pages[q]
  PROVE  /\ AllPlaces' = (AllPlaces \ PlacedIn(p, Used(pages[p]))) \cup PlacedIn(p, Used(pages[p]))'
         /\ PlacedIn(p, Used(pages[p])) \subseteq AllPlaces
<1> DEFINE old(q) == PlacedIn(q, Used(pages[q]))
           new(q) == PlacedIn(q, Used(pages[q]))'
<1>1. AllPlaces = UNION {old(q) : q \in allocated} /\ AllPlaces' = UNION {new(q) : q \in allocated}
  BY DEF AllPlaces
<1>2. \A q \in allocated : q # p => old(q) = new(q)
  BY DEF PlacedIn, Used
<1>3. \A q \in allocated : q # p => old(q) \cap old(p) = {}
  BY PagesDiffer
<1> HIDE DEF old, new
<1>4. \A x : x \in AllPlaces' <=> x \in (AllPlaces \ old(p)) \cup new(p)
  BY <1>1, <1>2, <1>3
<1>5. AllPlaces' = (AllPlaces \ old(p)) \cup new(p)
  BY <1>4
<1>6. old(p) \subseteq AllPlaces
  BY <1>1
<1> QED BY <1>5, <1>6 DEF old, new

\* An insertion that finds room adds one record, and one that does not changes none.
LEMMA InsertionAdds ==
  ASSUME PagesInv, ValuesInv, NEW p \in allocated, allocated \subseteq PageIds, NEW v \in Values,
         pages' = [pages EXCEPT ![p] = Inserted(table.are_regs_fixed, pages[p], v).page],
         allocated' = allocated
  PROVE  LET r == Inserted(table.are_regs_fixed, pages[p], v)
         IN  /\ r.ok => /\ AllPlaces' = AllPlaces \cup {<<v, <<p, r.slot>>>>}
                        /\ <<v, <<p, r.slot>>>> \notin AllPlaces
             /\ ~r.ok => AllPlaces' = AllPlaces
<1> DEFINE r == Inserted(table.are_regs_fixed, pages[p], v)
           U == Used(pages[p])
           value(i) == pages[p].slots[i].value
           old == PlacedIn(p, Used(pages[p]))
           new == PlacedIn(p, Used(pages[p]))'
           e == <<v, <<p, r.slot>>>>
<1>1. IsPut(pages[p], r, v)
  BY InsertionFacts
<1>2. /\ pages'[p] = r.page
      /\ \A q \in allocated : q # p => pages'[q] = pages[q]
  BY DEF PagesInv
<1>3. /\ AllPlaces' = (AllPlaces \ old) \cup new
      /\ old \subseteq AllPlaces
  BY <1>2, OnePagesRecords
<1>4. old = {<<value(i), <<p, i>>>> : i \in U}
  BY DEF PlacedIn
<1>5. new = {<<r.page.slots[i].value, <<p, i>>>> : i \in Used(r.page)}
  BY <1>2 DEF PlacedIn
<1>6. /\ \A i \in U : r.page.slots[i].value = value(i)
      /\ r.ok => /\ r.slot \notin U
                 /\ Used(r.page) = U \cup {r.slot}
                 /\ r.page.slots[r.slot].value = v
      /\ ~r.ok => Used(r.page) = U
  <2>1. \A i \in U : r.page.slots[i] = pages[p].slots[i]
    BY <1>1 DEF IsPut
  <2> HIDE DEF r
  <2>2. \A i \in U : r.page.slots[i].value = value(i)
    BY <2>1
  <2> QED BY <1>1, <2>2 DEF IsPut
<1>7. \A q \in allocated : q # p => e \notin PlacedIn(q, Used(pages[q]))
  BY DEF PlacedIn
<1>8. AllPlaces = UNION {PlacedIn(q, Used(pages[q])) : q \in allocated}
  BY DEF AllPlaces
<1> HIDE DEF U, value, r
<1>9. CASE r.ok
  <2>1. new = old \cup {e}
    BY <1>4, <1>5, <1>6, <1>9
  <2>2. e \notin old
    BY <1>4, <1>6, <1>9
  <2>3. e \notin AllPlaces
    BY <1>7, <1>8, <2>2
  <2> HIDE DEF e, old, new
  <2>4. AllPlaces' = AllPlaces \cup {e}
    BY <1>3, <2>1
  <2> QED BY <1>9, <2>3, <2>4 DEF e, r
<1>10. CASE ~r.ok
  <2>1. new = old
    BY <1>4, <1>5, <1>6, <1>10
  <2> HIDE DEF old, new
  <2>2. AllPlaces' = AllPlaces
    BY <1>3, <2>1
  <2> QED BY <1>10, <2>2 DEF r
<1> QED BY <1>9, <1>10 DEF r

\* A deletion takes the records at its positions.
LEMMA DeletionTakes ==
  ASSUME PagesInv, NEW p \in allocated, allocated \subseteq PageIds,
         NEW positions \in SUBSET Used(pages[p]),
         pages' = [pages EXCEPT ![p] = Deleted(table.are_regs_fixed, pages[p], positions)],
         allocated' = allocated
  PROVE  /\ AllPlaces' = AllPlaces \ PlacedIn(p, positions)
         /\ PlacedIn(p, positions) \subseteq AllPlaces
<1> DEFINE U == Used(pages[p])
           value(i) == pages[p].slots[i].value
           old == PlacedIn(p, Used(pages[p]))
           new == PlacedIn(p, Used(pages[p]))'
           gone == PlacedIn(p, positions)
           other == Deleted(table.are_regs_fixed, pages[p], positions)
           page == pages[p]
           fixed == table.are_regs_fixed
<1>1. Used(other) = U \ positions /\ \A j \in U \ positions : other.slots[j] = page.slots[j]
  <2>1. /\ fixed \in BOOLEAN /\ Sound(fixed, page)
        /\ positions \in SUBSET Used(page)
        /\ other = Deleted(fixed, page, positions) /\ U = Used(page)
    BY DEF PagesInv
  <2> HIDE DEF fixed, page, other, U
  <2> QED BY <2>1, DeletedTakes
<1>2. /\ pages'[p] = other
      /\ \A q \in allocated : q # p => pages'[q] = pages[q]
  BY DEF PagesInv
<1>3. /\ AllPlaces' = (AllPlaces \ old) \cup new
      /\ old \subseteq AllPlaces
  BY <1>2, OnePagesRecords
<1>4. /\ old = {<<value(i), <<p, i>>>> : i \in U}
      /\ gone = {<<value(i), <<p, i>>>> : i \in positions}
  BY DEF PlacedIn
<1>5. new = {<<other.slots[i].value, <<p, i>>>> : i \in Used(other)}
  BY <1>2 DEF PlacedIn
<1> HIDE DEF other
<1>6. \A i \in U \ positions : other.slots[i].value = value(i)
  BY <1>1
<1>7. positions \subseteq U
  OBVIOUS
<1> HIDE DEF U, value, page, fixed
<1>8. new = old \ gone /\ gone \subseteq old
  <2>1. new = {<<value(i), <<p, i>>>> : i \in U \ positions}
    BY <1>1, <1>5, <1>6
  <2> HIDE DEF new, old, gone
  <2>2. \A x : x \in new <=> x \in old \ gone
    BY <1>4, <1>7, <2>1
  <2> QED BY <1>4, <1>7, <2>2
<1> HIDE DEF new, old, gone
<1>9. AllPlaces' = AllPlaces \ gone /\ gone \subseteq AllPlaces
  BY <1>3, <1>8
<1> QED BY <1>9 DEF gone

\* A new page has no records, and a link moves none.
LEMMA GrowingKeeps ==
  ASSUME RecordsAssumption, IInv, AddPage
  PROVE  AllPlaces' = AllPlaces
<1> USE DEF IInv
<1> DEFINE old(q) == PlacedIn(q, Used(pages[q]))
           new(q) == PlacedIn(q, Used(pages[q]))'
<1>1. PICK p \in PageIds \ allocated :
        /\ allocated' = allocated \cup {p}
        /\ pages' = [pages EXCEPT ![p] = NewPage(table.are_regs_fixed),
                                  ![table.last_page_id].next_block_id = p]
  BY DEF AddPage
<1>2. allocated \subseteq PageIds /\ table.last_page_id \in allocated
  BY ListFacts
<1>3. DOMAIN pages = PageIds /\ \A q \in PageIds : "slots" \in DOMAIN pages[q]
  BY DEF PagesInv, Sound, PageType
<1>4. pages'[p] = NewPage(table.are_regs_fixed)
  BY <1>1, <1>2, <1>3
<1>5. \A q \in allocated : pages'[q].slots = pages[q].slots
  BY <1>1, <1>2, <1>3
<1>6. Used(NewPage(table.are_regs_fixed)) = {}
  BY DEF NewPage, NewFixedPage, NewSlottedPage, Used, FreeSlot
<1>7. new(p) = {}
  BY <1>4, <1>6 DEF PlacedIn
<1>8. \A q \in allocated : new(q) = old(q)
  BY <1>5 DEF PlacedIn, Used
<1>9. AllPlaces = UNION {old(q) : q \in allocated}
      /\ AllPlaces' = UNION {new(q) : q \in allocated \cup {p}}
  BY <1>1 DEF AllPlaces
<1> HIDE DEF old, new
<1> QED BY <1>7, <1>8, <1>9

\* What an operation has still to do to the index, for a value.
Pending(v) == IF op.kind \in {"none", "stopped"} THEN 0 ELSE Count(op.done, v)

Takes == op.kind = "upkeep" /\ ~op.adds

\* The index and the records differ by what the operation has still to do.
Balance(v) ==
  LET copies == Cardinality(CopiesOf(v))
      records == Cardinality(RecordsWith(v))
  IN  IF Takes THEN copies = records + Pending(v) ELSE copies + Pending(v) = records

FinitesInv == \A v \in Values : IsFiniteSet(CopiesOf(v)) /\ IsFiniteSet(RecordsWith(v))

\* An operation that has not come to the index yet, or is done with it, has nothing to do there.
DoneInv ==
  /\ op.kind \in {"put", "delete", "delete_nth", "read_all"} => op.done = <<>>
  /\ op.kind \in {"grow", "grown"} /\ ~op.goes_on => op.done = <<>>

\* An index is empty until it is given the records.
EmptyInv ==
  /\ op.kind = "read_all" => index.is_listed
  /\ op.kind = "read_all" \/ ~index.is_listed => index.entries = EmptyBag

BalanceInv ==
  failures = 0 =>
    /\ DoneInv
    /\ EmptyInv
    /\ index.is_listed /\ op.kind # "read_all" => \A v \in Values : Balance(v)

\* The copies of the entries of a bag that have a value.
CopiesHere(B, v) == UNION {{e} \X (1 .. B[e]) : e \in {d \in BagToSet(B) : d[1] = v}}

LEMMA CopiesWithOneMore ==
  ASSUME NEW B, IsABag(B), NEW e, NEW v, IsFiniteSet(CopiesHere(B, v))
  PROVE  /\ IsFiniteSet(CopiesHere(B (+) SetToBag({e}), v))
         /\ Cardinality(CopiesHere(B (+) SetToBag({e}), v)) =
              Cardinality(CopiesHere(B, v)) + (IF e[1] = v THEN 1 ELSE 0)
<1> DEFINE C == B (+) SetToBag({e})
           n == IF e \in BagToSet(B) THEN B[e] ELSE 0
           old == CopiesHere(B, v)
           new == CopiesHere(C, v)
           copy == <<e, n + 1>>
           D == BagToSet(B)
<1>1. /\ BagToSet(C) = D \cup {e}
      /\ \A d \in D \cup {e} : C[d] = (IF d \in D THEN B[d] ELSE 0) + (IF d = e THEN 1 ELSE 0)
  <2> HIDE DEF n, old, new, copy
  <2>1. /\ BagToSet(B (+) SetToBag({e})) = BagToSet(B) \cup {e}
        /\ \A d \in BagToSet(B) \cup {e} :
             (B (+) SetToBag({e}))[d] =
               (IF d \in BagToSet(B) THEN B[d] ELSE 0) + (IF d = e THEN 1 ELSE 0)
    BY BagAdds, Zenon
  <2> QED BY <2>1
<1>2. \A d \in D : B[d] \in Nat /\ B[d] > 0
  BY DEF IsABag, BagToSet
<1>3. n \in Nat /\ n = IF e \in D THEN B[e] ELSE 0
  BY <1>2
<1>4. old = UNION {{d} \X (1 .. B[d]) : d \in {c \in D : c[1] = v}}
  BY DEF CopiesHere
<1>5. new = UNION {{d} \X (1 .. C[d]) : d \in {c \in D \cup {e} : c[1] = v}}
  BY <1>1 DEF CopiesHere
<1> HIDE DEF C, n, D, old, new
<1>6. C[e] = n + 1
  BY <1>1, <1>3
<1>7. \A d \in D : d # e => C[d] = B[d]
  BY <1>1, <1>2
<1>8. ASSUME NEW x PROVE x \in old <=> \E d \in D : \E i \in 1 .. B[d] : d[1] = v /\ x = <<d, i>>
  BY <1>4
<1>9. ASSUME NEW x
      PROVE  x \in new <=> \E d \in D \cup {e} : \E i \in 1 .. C[d] : d[1] = v /\ x = <<d, i>>
  BY <1>5
<1>10. e \notin D => n = 0
  BY <1>3
<1>11. \A i : i \in 1 .. n + 1 <=> (i \in 1 .. n \/ i = n + 1)
  BY <1>3
<1>12. 1 .. n = IF e \in D THEN 1 .. B[e] ELSE {}
  BY <1>3
<1>13. n + 1 \notin 1 .. n
  BY <1>3
<1>14. CASE e[1] = v
  <2>1. ASSUME NEW x \in new PROVE x \in old \cup {copy}
    <3>1. PICK d \in D \cup {e} : \E i \in 1 .. C[d] : d[1] = v /\ x = <<d, i>>
      BY <1>9
    <3>2. PICK i \in 1 .. C[d] : d[1] = v /\ x = <<d, i>>
      BY <3>1
    <3>3. CASE d = e /\ i = n + 1
      BY <3>2, <3>3
    <3>4. CASE ~(d = e /\ i = n + 1)
      <4>2. ASSUME d = e PROVE d \in D /\ i \in 1 .. B[d]
        <5>1. i \in 1 .. n
          BY <1>6, <1>11, <3>4, <4>2
        <5>2. e \in D /\ i \in 1 .. B[e]
          BY <1>12, <5>1
        <5> QED BY <4>2, <5>2
      <4>3. ASSUME d # e PROVE d \in D /\ i \in 1 .. B[d]
        BY <1>7, <4>3
      <4>1. d \in D /\ i \in 1 .. B[d]
        BY <4>2, <4>3
      <4> QED BY <1>8, <3>2, <4>1
    <3> QED BY <3>3, <3>4
  <2>2. ASSUME NEW x \in old PROVE x \in new
    <3>1. PICK d \in D : \E i \in 1 .. B[d] : d[1] = v /\ x = <<d, i>>
      BY <1>8
    <3>2. PICK i \in 1 .. B[d] : d[1] = v /\ x = <<d, i>>
      BY <3>1
    <3>3. i \in 1 .. C[d]
      BY <1>6, <1>7, <1>11, <1>12
    <3> QED BY <1>9, <3>2, <3>3
  <2>3. copy \in new
    <3>1. n + 1 \in 1 .. C[e]
      BY <1>3, <1>6
    <3> QED BY <1>9, <1>14, <3>1
  <2>4. copy \notin old
    <3> SUFFICES ASSUME copy \in old PROVE FALSE
      OBVIOUS
    <3>1. PICK d \in D : \E i \in 1 .. B[d] : d[1] = v /\ copy = <<d, i>>
      BY <1>8
    <3>2. e \in D /\ n + 1 \in 1 .. B[e]
      BY <3>1
    <3> QED BY <1>12, <1>13, <3>2
  <2> HIDE DEF copy
  <2>5. new = old \cup {copy}
    BY <2>1, <2>2, <2>3
  <2>6. IsFiniteSet(old)
    BY DEF old
  <2>7. IsFiniteSet(new) /\ Cardinality(new) = Cardinality(old) + 1
    BY <2>4, <2>5, <2>6, FS_AddElement
  <2> QED BY <1>14, <2>7 DEF new, old, C
<1>15. CASE e[1] # v
  <2>1. ASSUME NEW x PROVE x \in new <=> x \in old
    BY <1>7, <1>8, <1>9, <1>15
  <2>2. new = old
    <3>1. \A x : x \in new <=> x \in old
      BY <2>1
    <3> QED BY <1>4, <1>5, <3>1
  <2>3. IsFiniteSet(old) /\ Cardinality(old) \in Nat
    BY FS_CardinalityType DEF old
  <2> QED BY <1>15, <2>2, <2>3 DEF new, old, C
<1> QED BY <1>14, <1>15

LEMMA CopiesWithOneLess ==
  ASSUME NEW B, IsABag(B), NEW e \in BagToSet(B), NEW v, IsFiniteSet(CopiesHere(B, v))
  PROVE  /\ IsFiniteSet(CopiesHere(B (-) SetToBag({e}), v))
         /\ Cardinality(CopiesHere(B (-) SetToBag({e}), v)) + (IF e[1] = v THEN 1 ELSE 0) =
              Cardinality(CopiesHere(B, v))
<1> DEFINE C == B (-) SetToBag({e})
           n == B[e]
           old == CopiesHere(B, v)
           new == CopiesHere(C, v)
           copy == <<e, n>>
           D == BagToSet(B)
           less(d) == B[d] - (IF d = e THEN 1 ELSE 0)
<1>1. /\ BagToSet(C) = {d \in D : less(d) > 0}
      /\ \A d \in BagToSet(C) : C[d] = less(d)
  BY BagTakes, Zenon
<1>2. \A d \in D : B[d] \in Nat /\ B[d] > 0
  BY DEF IsABag, BagToSet
<1>3. n \in Nat /\ n > 0 /\ e \in D
  BY <1>2
<1>4. old = UNION {{d} \X (1 .. B[d]) : d \in {c \in D : c[1] = v}}
  BY DEF CopiesHere
<1>5. new = UNION {{d} \X (1 .. C[d]) : d \in {c \in BagToSet(C) : c[1] = v}}
  BY DEF CopiesHere
<1>6. less(e) = n - 1
  OBVIOUS
<1>7. \A d \in D : d # e => less(d) = B[d]
  BY <1>2
<1> HIDE DEF C, n, D, old, new, less
<1>8. ASSUME NEW x PROVE x \in old <=> \E d \in D : \E i \in 1 .. B[d] : d[1] = v /\ x = <<d, i>>
  BY <1>4
<1>9. ASSUME NEW x
      PROVE  x \in new <=> \E d \in D : \E i \in 1 .. less(d) : d[1] = v /\ x = <<d, i>>
  <2>1. x \in new <=> \E d \in BagToSet(C) : \E i \in 1 .. C[d] : d[1] = v /\ x = <<d, i>>
    BY <1>5
  <2>2. \A d \in D : less(d) \in Int
    BY <1>2, <1>3, <1>6, <1>7
  <2>3. \A d \in D : (\E i \in 1 .. less(d) : TRUE) => less(d) > 0
    BY <2>2
  <2> QED BY <1>1, <2>1, <2>3
<1>10. \A i : i \in 1 .. n <=> (i \in 1 .. n - 1 \/ i = n)
  BY <1>3
<1>11. n \notin 1 .. n - 1 /\ n \in 1 .. n
  BY <1>3
<1>12. B[e] = n
  BY DEF n
<1>13. IsFiniteSet(old) /\ Cardinality(old) \in Nat
  BY FS_CardinalityType DEF old
<1>14. CASE e[1] = v
  <2>1. ASSUME NEW x \in new PROVE x \in old \ {copy}
    <3>1. PICK d \in D : \E i \in 1 .. less(d) : d[1] = v /\ x = <<d, i>>
      BY <1>9
    <3>2. PICK i \in 1 .. less(d) : d[1] = v /\ x = <<d, i>>
      BY <3>1
    <3>3. i \in 1 .. B[d] /\ <<d, i>> # copy
      BY <1>6, <1>7, <1>10, <1>11, <1>12
    <3> QED BY <1>8, <3>2, <3>3
  <2>2. ASSUME NEW x \in old, x # copy PROVE x \in new
    <3>1. PICK d \in D : \E i \in 1 .. B[d] : d[1] = v /\ x = <<d, i>>
      BY <1>8
    <3>2. PICK i \in 1 .. B[d] : d[1] = v /\ x = <<d, i>>
      BY <3>1
    <3>3. i \in 1 .. less(d)
      BY <1>6, <1>7, <1>10, <1>12, <2>2, <3>2
    <3> QED BY <1>9, <3>2, <3>3
  <2>3. copy \in old
    BY <1>3, <1>8, <1>11, <1>12, <1>14
  <2> HIDE DEF copy
  <2>4. new = old \ {copy}
    BY <2>1, <2>2
  <2>5. IsFiniteSet(new) /\ Cardinality(new) = Cardinality(old) - 1
    BY <1>13, <2>3, <2>4, FS_RemoveElement
  <2>6. Cardinality(new) + 1 = Cardinality(old)
    BY <1>13, <2>5
  <2> QED BY <1>14, <2>5, <2>6 DEF new, old, C
<1>15. CASE e[1] # v
  <2>1. ASSUME NEW x PROVE x \in new <=> x \in old
    BY <1>7, <1>8, <1>9, <1>15
  <2>2. new = old
    <3>1. \A x : x \in new <=> x \in old
      BY <2>1
    <3> QED BY <1>4, <1>5, <3>1
  <2> QED BY <1>13, <1>15, <2>2 DEF new, old, C
<1> QED BY <1>14, <1>15

LEMMA RecordsAreAllPlaces == ListInv => Records = AllPlaces
BY RecordsArePlaces, RecordsAssumption DEF AllPlaces

\* The index and the records before a step and after.
LEMMA BeforeAndAfter ==
  ASSUME ListInv, ListInv', NEW v \in Values
  PROVE  /\ RecordsWith(v) = {r \in AllPlaces : r[1] = v}
         /\ RecordsWith(v)' = {r \in AllPlaces' : r[1] = v}
         /\ CopiesOf(v) = CopiesHere(index.entries, v)
         /\ CopiesOf(v)' = CopiesHere(index'.entries, v)
<1>1. Records = AllPlaces
  BY RecordsAreAllPlaces
<1>2. Records' = AllPlaces'
  <2>1. ListInv' => (Records = AllPlaces)'
    BY RecordsAreAllPlaces, PTL
  <2> QED BY <2>1
<1>3. RecordsWith(v) = {r \in AllPlaces : r[1] = v}
  BY <1>1 DEF RecordsWith
<1>4. RecordsWith(v)' = {r \in AllPlaces' : r[1] = v}
  BY <1>2 DEF RecordsWith
<1> QED BY <1>3, <1>4 DEF CopiesOf, CopiesHere, EntriesOf

\* Nothing happens to the index or to the records.
LEMMA SameCounts ==
  ASSUME ListInv, ListInv', FinitesInv, index' = index, AllPlaces' = AllPlaces
  PROVE  /\ FinitesInv'
         /\ \A v \in Values : /\ Cardinality(CopiesOf(v))' = Cardinality(CopiesOf(v))
                              /\ Cardinality(RecordsWith(v))' = Cardinality(RecordsWith(v))
<1>1. ASSUME NEW v \in Values
      PROVE  CopiesOf(v)' = CopiesOf(v) /\ RecordsWith(v)' = RecordsWith(v)
  BY BeforeAndAfter
<1> QED BY <1>1 DEF FinitesInv

LEMMA CountsAreNumbers ==
  ASSUME FinitesInv, NEW v \in Values
  PROVE  Cardinality(CopiesOf(v)) \in Nat /\ Cardinality(RecordsWith(v)) \in Nat
BY FS_CardinalityType DEF FinitesInv

LEMMA OneRecordMore ==
  ASSUME ListInv, ListInv', FinitesInv, index' = index, NEW e, e \notin AllPlaces,
         AllPlaces' = AllPlaces \cup {e}
  PROVE  /\ FinitesInv'
         /\ \A v \in Values :
              /\ Cardinality(CopiesOf(v))' = Cardinality(CopiesOf(v))
              /\ Cardinality(RecordsWith(v))' =
                   Cardinality(RecordsWith(v)) + (IF e[1] = v THEN 1 ELSE 0)
<1>1. ASSUME NEW v \in Values
      PROVE  /\ CopiesOf(v)' = CopiesOf(v)
             /\ IsFiniteSet(RecordsWith(v)')
             /\ Cardinality(RecordsWith(v)') =
                  Cardinality(RecordsWith(v)) + (IF e[1] = v THEN 1 ELSE 0)
  <2> DEFINE old == RecordsWith(v)
             new == RecordsWith(v)'
  <2>1. /\ old = {r \in AllPlaces : r[1] = v}
        /\ new = {r \in AllPlaces' : r[1] = v}
        /\ CopiesOf(v)' = CopiesOf(v)
    BY BeforeAndAfter
  <2>2. IsFiniteSet(old) /\ Cardinality(old) \in Nat
    BY CountsAreNumbers DEF FinitesInv
  <2> HIDE DEF old, new
  <2>3. CASE e[1] = v
    <3>1. new = old \cup {e} /\ e \notin old
      BY <2>1, <2>3
    <3>2. IsFiniteSet(new) /\ Cardinality(new) = Cardinality(old) + 1
      BY <2>2, <3>1, FS_AddElement
    <3>3. Cardinality(new) = Cardinality(old) + (IF e[1] = v THEN 1 ELSE 0)
      BY <2>3, <3>2, Zenon
    <3> QED BY <2>1, <3>2, <3>3 DEF old, new
  <2>4. CASE e[1] # v
    <3>1. new = old
      BY <2>1, <2>4
    <3>2. IsFiniteSet(new) /\ Cardinality(new) = Cardinality(old) + 0
      BY <2>2, <3>1
    <3> QED BY <2>1, <2>4, <3>2 DEF old, new
  <2> QED BY <2>3, <2>4
<1> QED BY <1>1 DEF FinitesInv

\* A step that has nothing new for the index.
LEMMA NothingToDo ==
  ASSUME ListInv, ListInv', FinitesInv, BalanceInv, index' = index, AllPlaces' = AllPlaces,
         failures' = 0 => failures = 0 /\ DoneInv' /\ ~Takes /\ ~Takes',
         op'.kind # "read_all" /\ op.kind # "read_all",
         \A v \in Values : index.is_listed /\ failures' = 0 => Pending(v)' = Pending(v)
  PROVE  FinitesInv' /\ BalanceInv'
<1>1. /\ FinitesInv'
      /\ \A v \in Values : /\ Cardinality(CopiesOf(v))' = Cardinality(CopiesOf(v))
                           /\ Cardinality(RecordsWith(v))' = Cardinality(RecordsWith(v))
  BY SameCounts
<1>2. failures' = 0 => EmptyInv'
  BY DEF BalanceInv, EmptyInv
<1>3. failures' = 0 /\ index.is_listed => \A v \in Values : Balance(v)'
  <2> SUFFICES ASSUME failures' = 0, index.is_listed, NEW v \in Values PROVE Balance(v)'
    OBVIOUS
  <2>1. Balance(v) /\ ~Takes /\ ~Takes' /\ Pending(v)' = Pending(v)
    BY DEF BalanceInv
  <2> QED BY <1>1, <2>1 DEF Balance
<1> QED BY <1>1, <1>2, <1>3 DEF BalanceInv

\* Operations begin with nothing to do to the index.
LEMMA BeginningsBalance ==
  ASSUME ListInv, ListInv', FinitesInv, BalanceInv, index' = index, AllPlaces' = AllPlaces,
         failures' = failures, op = Idle,
         NEW kind \in {"grow", "put", "load", "delete", "delete_nth"},
         NEW at, NEW values, NEW cond, NEW nth, NEW goes_on,
         op' = Made(kind, at, values, cond, nth, goes_on)
  PROVE  FinitesInv' /\ BalanceInv'
<1>1. op'.kind = kind /\ op'.done = <<>> /\ op.kind = "none"
  BY DEF Made, Idle
<1>2. DoneInv' /\ ~Takes /\ ~Takes'
  BY <1>1 DEF DoneInv, Takes
<1>3. ASSUME NEW v \in Values PROVE Pending(v) = 0 /\ Pending(v)' = 0
  BY <1>1, CountOfNone DEF Pending
<1> QED BY <1>1, <1>2, <1>3, NothingToDo

\* Operations that go on with what they have to do.
LEMMA GoingOnBalances ==
  ASSUME ListInv, ListInv', FinitesInv, BalanceInv, index' = index, AllPlaces' = AllPlaces,
         failures' = failures, op.kind \in {"grow", "grown", "load", "fill"},
         op'.kind \in {"grow", "grown", "load", "fill", "put", "upkeep"},
         op'.done = op.done, op'.kind = "upkeep" => op'.adds,
         op'.kind = "put" => op.kind = "grown" /\ ~op.goes_on,
         op'.kind \in {"grow", "grown"} =>
           \/ op'.goes_on
           \/ /\ op.kind \in {"grow", "grown"}
              /\ ~op.goes_on
  PROVE  FinitesInv' /\ BalanceInv'
<1>1. failures' = 0 => DoneInv'
  BY DEF DoneInv, BalanceInv
<1>2. ~Takes /\ ~Takes'
  BY DEF Takes
<1>3. ASSUME NEW v \in Values PROVE Pending(v)' = Pending(v)
  BY DEF Pending
<1> QED BY <1>1, <1>2, <1>3, NothingToDo

\* A record put in a page waits for the index to follow.
LEMMA PutBalances ==
  ASSUME RecordsAssumption, IInv, ListInv', TypesInv, FinitesInv, BalanceInv, Put
  PROVE  FinitesInv' /\ BalanceInv'
<1> USE DEF IInv, TypesInv
<1> DEFINE v == op.values[1]
           r == Inserted(table.are_regs_fixed, pages[op.at], v)
           e == <<v, <<op.at, r.slot>>>>
<1>1. op \in OpType /\ op.kind = "put"
  BY UnderWay DEF Put
<1>2. v \in Values /\ op.at \in allocated /\ allocated \subseteq PageIds
  BY <1>1, ListFacts DEF OpInv, WhereInv
<1>3. /\ r.ok /\ pages' = [pages EXCEPT ![op.at] = r.page]
      /\ allocated' = allocated /\ index' = index /\ failures' = failures
      /\ op' = [op EXCEPT !.kind = "upkeep", !.adds = TRUE, !.values = <<>>, !.done = <<e>>]
  BY DEF Put
<1>4. AllPlaces' = AllPlaces \cup {e} /\ e \notin AllPlaces
  BY <1>2, <1>3, InsertionAdds
<1>5. op'.kind = "upkeep" /\ op'.adds /\ op'.done = <<e>>
  BY <1>1, <1>3 DEF OpType
<1>6. e[1] = v
  OBVIOUS
<1> HIDE DEF e, r, v
<1>7. /\ FinitesInv'
      /\ \A w \in Values :
           /\ Cardinality(CopiesOf(w))' = Cardinality(CopiesOf(w))
           /\ Cardinality(RecordsWith(w))' =
                Cardinality(RecordsWith(w)) + (IF e[1] = w THEN 1 ELSE 0)
  BY <1>3, <1>4, OneRecordMore
<1>8. ASSUME failures = 0, index.is_listed, NEW w \in Values PROVE Balance(w)'
  <2>1. Balance(w) /\ op.done = <<>> /\ ~Takes /\ ~Takes'
    BY <1>1, <1>5, <1>8 DEF BalanceInv, DoneInv, Takes
  <2>2. Pending(w) = 0
    BY <1>1, <2>1, CountOfNone DEF Pending
  <2>3. Pending(w)' = (IF e[1] = w THEN 1 ELSE 0)
    <3> DEFINE none == <<>>
    <3>1. Append(none, e) = <<e>> /\ none \in Seq({e}) /\ e \in {e}
      OBVIOUS
    <3>2. Count(none, w) = 0
      BY CountOfNone
    <3> HIDE DEF none
    <3>3. Count(Append(none, e), w) = Count(none, w) + (IF e[1] = w THEN 1 ELSE 0)
      BY <3>1, CountOfMore, Zenon
    <3>4. Pending(w)' = Count(<<e>>, w)
      BY <1>5 DEF Pending
    <3> QED BY <3>1, <3>2, <3>3, <3>4
  <2> QED BY <1>7, <2>1, <2>2, <2>3, CountsAreNumbers DEF Balance
<1>9. failures = 0 => DoneInv' /\ EmptyInv'
  BY <1>1, <1>3, <1>5 DEF BalanceInv, DoneInv, EmptyInv
<1> QED BY <1>3, <1>7, <1>8, <1>9 DEF BalanceInv

\* So does every one of a bulk.
LEMMA FillBalances ==
  ASSUME RecordsAssumption, IInv, ListInv', TypesInv, FinitesInv, BalanceInv, FillRecord
  PROVE  FinitesInv' /\ BalanceInv'
<1> USE DEF IInv, TypesInv
<1> DEFINE v == Head(op.values)
           r == Inserted(table.are_regs_fixed, pages[op.at], v)
           e == <<v, <<op.at, r.slot>>>>
<1>1. op \in OpType /\ op.kind = "fill"
  BY UnderWay DEF FillRecord
<1>2. v \in Values /\ op.at \in allocated /\ allocated \subseteq PageIds
  <2>1. op.values # <<>> /\ op.values \in Seq(Values)
    BY <1>1 DEF FillRecord, FitsNext, OpInv
  <2> QED BY <1>1, <2>1, ListFacts DEF WhereInv
<1>3. /\ r.ok /\ pages' = [pages EXCEPT ![op.at] = r.page]
      /\ allocated' = allocated /\ index' = index /\ failures' = failures
      /\ op' = [op EXCEPT !.values = Tail(@), !.done = Append(@, e)]
  BY DEF FillRecord
<1>4. AllPlaces' = AllPlaces \cup {e} /\ e \notin AllPlaces
  BY <1>2, <1>3, InsertionAdds
<1>5. op'.kind = "fill" /\ op'.done = Append(op.done, e) /\ op'.goes_on = op.goes_on
  BY <1>1, <1>3 DEF OpType
<1>6. e[1] = v
  OBVIOUS
<1>7. r.slot \in Slots
  BY <1>2, <1>3, InsertionFacts
<1>8. e \in Values \X Ptrs
  BY <1>2, <1>7 DEF Ptrs
<1> HIDE DEF e, r, v
<1>9. /\ FinitesInv'
      /\ \A w \in Values :
           /\ Cardinality(CopiesOf(w))' = Cardinality(CopiesOf(w))
           /\ Cardinality(RecordsWith(w))' =
                Cardinality(RecordsWith(w)) + (IF e[1] = w THEN 1 ELSE 0)
  BY <1>3, <1>4, OneRecordMore
<1>10. ASSUME failures = 0, index.is_listed, NEW w \in Values PROVE Balance(w)'
  <2>1. Balance(w) /\ ~Takes /\ ~Takes'
    BY <1>1, <1>5, <1>10 DEF BalanceInv, DoneInv, Takes
  <2> DEFINE V == Values \X Ptrs
             done == op.done
  <2>2. done \in Seq(V) /\ e \in V
    BY <1>1, <1>8 DEF OpType
  <2>3. Pending(w) = Count(done, w) /\ Pending(w)' = Count(Append(done, e), w)
    BY <1>1, <1>5 DEF Pending
  <2> HIDE DEF V, done
  <2>4. Count(Append(done, e), w) = Count(done, w) + (IF e[1] = w THEN 1 ELSE 0)
    BY <2>2, CountOfMore, Zenon
  <2>5. Count(done, w) \in Nat
    BY <2>2, CountType
  <2> QED BY <1>9, <2>1, <2>3, <2>4, <2>5, CountsAreNumbers DEF Balance
<1>11. failures = 0 => DoneInv' /\ EmptyInv'
  BY <1>1, <1>3, <1>5 DEF BalanceInv, DoneInv, EmptyInv
<1> QED BY <1>3, <1>9, <1>10, <1>11 DEF BalanceInv

\* The records taken from a page wait for the index to follow.
LEMMA DeleteBalances ==
  ASSUME RecordsAssumption, IInv, ListInv', TypesInv, FinitesInv, BalanceInv, DeleteInPage
  PROVE  FinitesInv' /\ BalanceInv'
<1> USE DEF IInv, TypesInv
<1> DEFINE done == Entries(op.at, Doomed)
           gone == PlacedIn(op.at, Doomed)
<1>1. op \in OpType /\ op.kind \in {"delete", "delete_nth"}
  BY UnderWay DEF DeleteInPage
<1>2. op.at \in allocated /\ allocated \subseteq PageIds /\ Doomed \in SUBSET Used(pages[op.at])
  BY <1>1, ListFacts, DoomedAreUsed DEF WhereInv
<1>3. /\ pages' = [pages EXCEPT ![op.at] = Deleted(table.are_regs_fixed, pages[op.at], Doomed)]
      /\ allocated' = allocated /\ index' = index /\ failures' = failures
      /\ op' = [op EXCEPT !.kind = "upkeep", !.adds = FALSE, !.done = done]
  BY DEF DeleteInPage
<1>4. AllPlaces' = AllPlaces \ gone /\ gone \subseteq AllPlaces
  BY <1>2, <1>3, DeletionTakes
<1>5. Lists(done, gone)
  BY <1>2, EntriesList
<1> HIDE DEF done, gone
<1>6. op'.kind = "upkeep" /\ ~op'.adds /\ op'.done = done
  BY <1>1, <1>3 DEF OpType
<1>7. ASSUME NEW w \in Values
      PROVE  /\ CopiesOf(w)' = CopiesOf(w)
             /\ IsFiniteSet(RecordsWith(w)')
             /\ Cardinality(RecordsWith(w)) = Cardinality(RecordsWith(w)') + Count(done, w)
             /\ Cardinality(RecordsWith(w)') \in Nat
             /\ Count(done, w) \in Nat
  <2> DEFINE old == RecordsWith(w)
             new == RecordsWith(w)'
             lost == {r \in gone : r[1] = w}
  <2>1. /\ old = {r \in AllPlaces : r[1] = w}
        /\ new = {r \in AllPlaces' : r[1] = w}
        /\ CopiesOf(w)' = CopiesOf(w)
    BY <1>3, BeforeAndAfter
  <2>2. IsFiniteSet(old)
    BY DEF FinitesInv
  <2>3. IsFiniteSet(lost) /\ Count(done, w) = Cardinality(lost)
    BY <1>5, CountOfListed
  <2> HIDE DEF old, new
  <2>4. old = new \cup lost /\ new \cap lost = {} /\ new \in SUBSET old
    BY <1>4, <2>1
  <2>5. IsFiniteSet(new)
    BY <2>2, <2>4, FS_Subset
  <2> HIDE DEF lost
  <2>7. Cardinality(new) \in Nat /\ Cardinality(lost) \in Nat
    BY <2>3, <2>5, FS_CardinalityType
  <2>6. Cardinality(new \cup lost) = Cardinality(new) + Cardinality(lost)
    <3>1. /\ Cardinality(new \cup lost) =
               Cardinality(new) + Cardinality(lost) - Cardinality(new \cap lost)
          /\ Cardinality(new \cap lost) = 0
      BY <2>3, <2>4, <2>5, FS_Union, FS_EmptySet
    <3> QED BY <2>7, <3>1
  <2> QED BY <2>1, <2>3, <2>4, <2>5, <2>6, <2>7 DEF old, new
<1>8. FinitesInv'
  BY <1>7 DEF FinitesInv
<1>9. ASSUME failures = 0, index.is_listed, NEW w \in Values PROVE Balance(w)'
  <2>1. Balance(w) /\ op.done = <<>> /\ ~Takes /\ Takes'
    BY <1>1, <1>6, <1>9 DEF BalanceInv, DoneInv, Takes
  <2>2. Pending(w) = 0 /\ Pending(w)' = Count(done, w)
    BY <1>1, <1>6, <2>1, CountOfNone DEF Pending
  <2> QED BY <1>7, <2>1, <2>2, CountsAreNumbers DEF Balance
<1>10. failures = 0 => DoneInv' /\ EmptyInv'
  BY <1>1, <1>3, <1>6 DEF BalanceInv, DoneInv, EmptyInv
<1> QED BY <1>3, <1>8, <1>9, <1>10 DEF BalanceInv

\* The index follows, an entry at a time.
LEMMA IndexBalances ==
  ASSUME RecordsAssumption, IInv, ListInv', TypesInv, FinitesInv, BalanceInv,
         IndexInsert \/ IndexRemove
  PROVE  FinitesInv' /\ BalanceInv'
<1> USE DEF IInv, TypesInv
<1> DEFINE V == Values \X Ptrs
           done == op.done
           first == Head(done)
           B == index.entries
           C == index'.entries
           one(w) == IF first[1] = w THEN 1 ELSE 0
<1>1. /\ op \in OpType /\ op.kind = "upkeep" /\ done # <<>> /\ index.is_listed
      /\ UNCHANGED <<pages, allocated, failures>>
      /\ op' = [op EXCEPT !.done = Tail(@)]
  BY UnderWay DEF IndexInsert, IndexRemove, Indexing
<1>2. done \in Seq(V)
  BY <1>1 DEF OpType
<1>3. op'.kind = "upkeep" /\ op'.adds = op.adds /\ op'.done = Tail(done)
  BY <1>1 DEF OpType
<1>4. IsABag(B)
  BY DEF IndexInv
<1>5. index'.is_listed = index.is_listed
  BY DEF IndexInsert, IndexRemove, IndexInv
<1>6. AllPlaces' = AllPlaces
  BY <1>1 DEF AllPlaces, PlacedIn, Used
<1>7. ASSUME NEW w \in Values
      PROVE  /\ RecordsWith(w)' = RecordsWith(w)
             /\ CopiesOf(w) = CopiesHere(B, w) /\ CopiesOf(w)' = CopiesHere(C, w)
             /\ IsFiniteSet(CopiesHere(B, w)) /\ IsFiniteSet(RecordsWith(w))
             /\ Count(done, w) = Count(Tail(done), w) + one(w)
             /\ Count(Tail(done), w) \in Nat
  <2>1. /\ RecordsWith(w)' = RecordsWith(w)
        /\ CopiesOf(w) = CopiesHere(B, w) /\ CopiesOf(w)' = CopiesHere(C, w)
    BY <1>6, BeforeAndAfter
  <2>2. IsFiniteSet(CopiesOf(w)) /\ IsFiniteSet(RecordsWith(w))
    BY DEF FinitesInv
  <2> DEFINE rest == Tail(done)
  <2>3. rest \in Seq(V)
    <3> HIDE DEF V, done
    <3> QED BY <1>1, <1>2
  <2> HIDE DEF V, done, rest
  <2>4. Count(done, w) = Count(Tail(done), w) + one(w)
    BY <1>1, <1>2, CountOfRest
  <2>5. Count(rest, w) \in Nat
    BY <2>3, CountType
  <2> QED BY <2>1, <2>2, <2>4, <2>5 DEF rest
<1>8. /\ op'.kind # "read_all" /\ DoneInv'
      /\ Takes' = Takes
      /\ \A w \in Values : Pending(w) = Count(done, w) /\ Pending(w)' = Count(Tail(done), w)
  BY <1>1, <1>3 DEF DoneInv, Takes, Pending
<1>9. EmptyInv'
  BY <1>1, <1>3, <1>5 DEF EmptyInv
<1>10. CASE IndexInsert
  <2>1. op.adds /\ C = B (+) SetToBag({first})
    BY <1>10 DEF IndexInsert, IndexInv
  <2> HIDE DEF B, C, first, done, V
  <2>2. ASSUME NEW w \in Values
        PROVE  /\ IsFiniteSet(CopiesHere(C, w))
               /\ Cardinality(CopiesHere(C, w)) = Cardinality(CopiesHere(B, w)) + one(w)
    BY <1>4, <1>7, <2>1, CopiesWithOneMore
  <2>3. FinitesInv'
    BY <1>7, <2>2 DEF FinitesInv
  <2>4. ASSUME failures = 0, NEW w \in Values PROVE Balance(w)'
    <3>1. Balance(w) /\ ~Takes /\ ~Takes'
      BY <1>1, <1>8, <2>1, <2>4 DEF BalanceInv, Takes
    <3>2. one(w) \in Nat
      OBVIOUS
    <3> HIDE DEF one
    <3>3. Cardinality(CopiesOf(w)) + Count(done, w) = Cardinality(RecordsWith(w))
      BY <1>8, <3>1 DEF Balance
    <3>4. Cardinality(CopiesOf(w)') + Count(Tail(done), w) = Cardinality(RecordsWith(w)')
      BY <1>7, <2>2, <3>2, <3>3, CountsAreNumbers
    <3> QED BY <1>8, <3>1, <3>4 DEF Balance
  <2> QED BY <1>1, <1>8, <1>9, <2>3, <2>4 DEF BalanceInv
<1>11. CASE IndexRemove
  <2>1. PICK e \in BagToSet(B) : e[1] = first[1] /\ index' = [index EXCEPT !.entries = @ (-) SetToBag({e})]
    BY <1>11 DEF IndexRemove
  <2>2. ~op.adds /\ C = B (-) SetToBag({e})
    BY <1>11, <2>1 DEF IndexRemove, IndexInv
  <2> HIDE DEF B, C, first, done, V
  <2>3. ASSUME NEW w \in Values
        PROVE  /\ IsFiniteSet(CopiesHere(C, w))
               /\ Cardinality(CopiesHere(C, w)) + one(w) = Cardinality(CopiesHere(B, w))
    BY <1>4, <1>7, <2>1, <2>2, CopiesWithOneLess
  <2>4. FinitesInv'
    BY <1>7, <2>3 DEF FinitesInv
  <2>5. ASSUME failures = 0, NEW w \in Values PROVE Balance(w)'
    <3>1. Balance(w) /\ Takes /\ Takes'
      BY <1>1, <1>8, <2>2, <2>5 DEF BalanceInv, Takes
    <3>2. one(w) \in Nat
      OBVIOUS
    <3> HIDE DEF one
    <3>3. Cardinality(CopiesOf(w)) = Cardinality(RecordsWith(w)) + Count(done, w)
      BY <1>8, <3>1 DEF Balance
    <3>4. Cardinality(CopiesHere(C, w)) \in Nat
      BY <2>3, FS_CardinalityType
    <3>5. Cardinality(CopiesOf(w)') = Cardinality(RecordsWith(w)') + Count(Tail(done), w)
      BY <1>7, <2>3, <3>2, <3>3, <3>4, CountsAreNumbers
    <3> QED BY <1>8, <3>1, <3>5 DEF Balance
  <2> QED BY <1>1, <1>8, <1>9, <2>4, <2>5 DEF BalanceInv
<1> QED BY <1>10, <1>11

\* A new index waits for all the records.
LEMMA ReadBalances ==
  ASSUME RecordsAssumption, IInv, ListInv', TypesInv, FinitesInv, BalanceInv, ReadAll
  PROVE  FinitesInv' /\ BalanceInv'
<1> USE DEF IInv, TypesInv
<1> DEFINE done == EntriesOfPages(ListFrom(table.first_page_id))
<1>1. /\ op \in OpType /\ op.kind = "read_all"
      /\ UNCHANGED <<pages, allocated, index, failures>>
      /\ op' = [op EXCEPT !.kind = "upkeep", !.adds = TRUE, !.done = done]
  BY UnderWay DEF ReadAll
<1>2. Lists(done, Records)
  BY AllListed
<1> HIDE DEF done
<1>3. op'.kind = "upkeep" /\ op'.adds /\ op'.done = done
  BY <1>1 DEF OpType
<1>4. AllPlaces' = AllPlaces
  BY <1>1 DEF AllPlaces, PlacedIn, Used
<1>5. /\ FinitesInv'
      /\ \A v \in Values : /\ Cardinality(CopiesOf(v))' = Cardinality(CopiesOf(v))
                           /\ Cardinality(RecordsWith(v))' = Cardinality(RecordsWith(v))
  BY <1>1, <1>4, SameCounts
<1>6. ASSUME failures = 0, NEW v \in Values PROVE Balance(v)'
  <2>1. index.entries = EmptyBag
    BY <1>1, <1>6 DEF BalanceInv, EmptyInv
  <2>2. CopiesOf(v) = {}
    BY <2>1 DEF CopiesOf, EntriesOf, EmptyBag, SetToBag, BagToSet
  <2>3. Cardinality(CopiesOf(v)) = 0
    BY <2>2, FS_EmptySet
  <2>4. Count(done, v) = Cardinality(RecordsWith(v))
    BY <1>2, CountOfListed DEF RecordsWith
  <2>5. ~Takes' /\ Pending(v)' = Count(done, v)
    BY <1>3 DEF Takes, Pending
  <2> QED BY <1>5, <2>3, <2>4, <2>5, CountsAreNumbers DEF Balance
<1>7. failures = 0 => DoneInv' /\ EmptyInv'
  BY <1>1, <1>3 DEF BalanceInv, DoneInv, EmptyInv
<1> QED BY <1>1, <1>5, <1>6, <1>7 DEF BalanceInv

\* A deletion goes on, and an operation ends, when the index has followed.
LEMMA NextPageBalances ==
  ASSUME RecordsAssumption, IInv, ListInv', TypesInv, FinitesInv, BalanceInv, NextPage
  PROVE  FinitesInv' /\ BalanceInv'
<1> USE DEF IInv, TypesInv
<1>1. /\ op \in OpType /\ op.kind = "upkeep"
      /\ op.done = <<>> \/ ~index.is_listed
      /\ UNCHANGED <<pages, allocated, index, failures>>
  BY UnderWay DEF NextPage
<1>2. \/ op'.kind = "none"
      \/ op'.kind = "delete" /\ op'.done = <<>>
  BY <1>1 DEF NextPage, OpType, Idle
<1>3. AllPlaces' = AllPlaces
  BY <1>1 DEF AllPlaces, PlacedIn, Used
<1>4. /\ FinitesInv'
      /\ \A v \in Values : /\ Cardinality(CopiesOf(v))' = Cardinality(CopiesOf(v))
                           /\ Cardinality(RecordsWith(v))' = Cardinality(RecordsWith(v))
  BY <1>1, <1>3, SameCounts
<1>5. ASSUME failures = 0, index.is_listed, NEW v \in Values PROVE Balance(v)'
  <2>1. Balance(v) /\ op.done = <<>>
    BY <1>1, <1>5 DEF BalanceInv
  <2>2. Pending(v) = 0
    BY <1>1, <2>1, CountOfNone DEF Pending
  <2>3. ~Takes' /\ Pending(v)' = 0
    BY <1>2, CountOfNone DEF Takes, Pending
  <2> QED BY <1>4, <2>1, <2>2, <2>3, CountsAreNumbers DEF Balance
<1>6. failures = 0 => DoneInv' /\ EmptyInv'
  BY <1>1, <1>2 DEF BalanceInv, DoneInv, EmptyInv
<1> QED BY <1>1, <1>4, <1>5, <1>6 DEF BalanceInv

\* A step that fails leaves the records alone.
LEMMA FailingKeeps ==
  ASSUME RecordsAssumption, IInv, ListInv', TypesInv, FinitesInv, BalanceInv,
         GrowRefused \/ PutRefused \/ NextPageLost \/ IndexRefuses \/ Fails
  PROVE  FinitesInv' /\ BalanceInv'
<1> USE DEF IInv, TypesInv
<1>1. failures' = failures + 1 /\ failures \in Nat /\ index' = index /\ allocated' = allocated
  BY DEF GrowRefused, PutRefused, NextPageLost, IndexRefuses, Fails, PinsInv
<1>2. AllPlaces' = AllPlaces
  <2>1. CASE PutRefused
    <3>1. op.values[1] \in Values /\ op.at \in allocated /\ allocated \subseteq PageIds
      BY <2>1, ListFacts DEF PutRefused, OpInv, WhereInv
    <3> QED BY <1>1, <2>1, <3>1, InsertionAdds DEF PutRefused
  <2>2. CASE GrowRefused \/ NextPageLost \/ IndexRefuses \/ Fails
    <3>1. pages' = pages
      BY <2>2 DEF GrowRefused, NextPageLost, IndexRefuses, Fails
    <3> QED BY <1>1, <3>1 DEF AllPlaces, PlacedIn, Used
  <2> QED BY <2>1, <2>2
<1>3. failures' # 0
  BY <1>1
<1> QED BY <1>1, <1>2, <1>3, SameCounts DEF BalanceInv

LEMMA NextBalance ==
  RecordsAssumption /\ IInv /\ ListInv' /\ TypesInv /\ FinitesInv /\ BalanceInv /\ [Next]_vars
    => FinitesInv' /\ BalanceInv'
<1> SUFFICES ASSUME RecordsAssumption, IInv, ListInv', TypesInv, FinitesInv, BalanceInv,
                    [Next]_vars
             PROVE  FinitesInv' /\ BalanceInv'
  OBVIOUS
<1>1. ListInv
  BY DEF IInv
<1>2. ASSUME UNCHANGED <<pages, allocated>> PROVE AllPlaces' = AllPlaces
  BY <1>2 DEF AllPlaces, PlacedIn, Used
<1>3. ASSUME op = Idle, UNCHANGED <<pages, allocated, index, failures>>,
             NEW kind \in {"grow", "put", "load", "delete", "delete_nth"},
             NEW at, NEW values, NEW cond, NEW nth, NEW goes_on,
             op' = Made(kind, at, values, cond, nth, goes_on)
      PROVE  FinitesInv' /\ BalanceInv'
  BY <1>1, <1>2, <1>3, BeginningsBalance
<1>4. ASSUME NEW v \in Values, BeginInsert(v) PROVE FinitesInv' /\ BalanceInv'
  <2>1. op = Idle /\ UNCHANGED <<pages, allocated, index, failures>>
    BY <1>4 DEF BeginInsert
  <2>2. CASE op' = Made("grow", NULL_PAGE, <<v>>, {}, 0, FALSE)
    BY <1>3, <2>1, <2>2
  <2>3. ASSUME NEW i \in Insertable(v),
               op' = Made("put", ListFrom(table.first_page_id)[i], <<v>>, {}, 0, FALSE)
        PROVE  FinitesInv' /\ BalanceInv'
    BY <1>3, <2>1, <2>3
  <2> QED BY <1>4, <2>2, <2>3, Beginnings
<1>5. ASSUME NEW p, NEW v, BeginInsertIntoPage(p, v) PROVE FinitesInv' /\ BalanceInv'
  <2>1. op = Idle /\ UNCHANGED <<pages, allocated, index, failures>>
    BY <1>5 DEF BeginInsertIntoPage, Begins
  <2>2. op' = Made("put", p, <<v>>, {}, 0, FALSE)
    BY <1>5, Beginnings
  <2> QED BY <1>3, <2>1, <2>2
<1>6. ASSUME NEW values, BeginBulk(values) PROVE FinitesInv' /\ BalanceInv'
  <2>1. op = Idle /\ UNCHANGED <<pages, allocated, index, failures>>
    BY <1>6 DEF BeginBulk, Begins
  <2>2. op' = Made("load", table.last_page_id, values, {}, 0, FALSE)
    BY <1>6, Beginnings
  <2> QED BY <1>3, <2>1, <2>2
<1>7. ASSUME NEW cond, BeginDelete(cond) PROVE FinitesInv' /\ BalanceInv'
  <2>1. op = Idle /\ UNCHANGED <<pages, allocated, index, failures>>
    BY <1>7 DEF BeginDelete, Begins
  <2>2. op' = Made("delete", table.first_page_id, <<>>, cond, 0, TRUE)
    BY <1>7, Beginnings
  <2> QED BY <1>3, <2>1, <2>2
<1>8. ASSUME NEW p, NEW cond, BeginDeleteFromPage(p, cond) PROVE FinitesInv' /\ BalanceInv'
  <2>1. op = Idle /\ UNCHANGED <<pages, allocated, index, failures>>
    BY <1>8 DEF BeginDeleteFromPage, Begins
  <2>2. op' = Made("delete", p, <<>>, cond, 0, FALSE)
    BY <1>8, Beginnings
  <2> QED BY <1>3, <2>1, <2>2
<1>9. ASSUME NEW nth, BeginDeleteNth(nth) PROVE FinitesInv' /\ BalanceInv'
  <2>1. op = Idle /\ UNCHANGED <<pages, allocated, index, failures>>
    BY <1>9 DEF BeginDeleteNth, Begins
  <2>2. PICK p, n : op' = Made("delete_nth", p, <<>>, {}, n, FALSE)
    BY <1>9, Beginnings
  <2> QED BY <1>3, <2>1, <2>2
<1>10. CASE AddPage
  <2>1. /\ op \in OpType /\ op.kind = "grow" /\ index' = index /\ failures' = failures
        /\ \E p : op' = [op EXCEPT !.kind = "grown", !.at = p]
    BY <1>10, UnderWay DEF AddPage, TypesInv
  <2>2. op'.kind = "grown" /\ op'.done = op.done /\ op'.goes_on = op.goes_on /\ op.goes_on \in BOOLEAN
    BY <2>1 DEF OpType
  <2>3. AllPlaces' = AllPlaces
    BY <1>10, GrowingKeeps
  <2> QED BY <1>1, <2>1, <2>2, <2>3, GoingOnBalances
<1>11. CASE WriteTable
  <2>1. /\ op \in OpType /\ op.kind = "grown" /\ UNCHANGED <<pages, allocated, index, failures>>
        /\ op' = [op EXCEPT !.kind = IF op.goes_on THEN "load" ELSE "put"]
    BY <1>11, UnderWay DEF WriteTable, TypesInv
  <2>2. op'.done = op.done /\ op'.kind = (IF op.goes_on THEN "load" ELSE "put")
    BY <2>1 DEF OpType
  <2> QED BY <1>1, <1>2, <2>1, <2>2, GoingOnBalances
<1>12. CASE LoadToFill
  <2>1. /\ op \in OpType /\ op.kind = "load" /\ UNCHANGED <<pages, allocated, index, failures>>
        /\ op' = [op EXCEPT !.kind = "fill", !.goes_on = FALSE]
    BY <1>12, UnderWay DEF LoadToFill, TypesInv
  <2>2. op'.done = op.done /\ op'.kind = "fill"
    BY <2>1 DEF OpType
  <2> QED BY <1>1, <1>2, <2>1, <2>2, GoingOnBalances
<1>13. CASE LeavePage
  <2>1. /\ op \in OpType /\ op.kind = "fill" /\ UNCHANGED <<pages, allocated, index, failures>>
        /\ op' = IF op.values = <<>> THEN [op EXCEPT !.kind = "upkeep", !.adds = TRUE]
                 ELSE [op EXCEPT !.kind = "grow", !.goes_on = TRUE]
    BY <1>13, UnderWay DEF LeavePage, TypesInv
  <2>2. /\ op'.done = op.done
        /\ \/ op'.kind = "upkeep" /\ op'.adds
           \/ op'.kind = "grow" /\ op'.goes_on
    BY <2>1 DEF OpType
  <2> QED BY <1>1, <1>2, <2>1, <2>2, GoingOnBalances
<1>14. CASE ListIndex
  <2>1. /\ op = Idle /\ UNCHANGED <<pages, allocated, failures>> /\ ~index.is_listed
        /\ index' = [index EXCEPT !.is_listed = TRUE]
    BY <1>14 DEF ListIndex, Begins
  <2>2. op'.kind = "read_all" /\ op'.done = <<>>
    BY <1>14, Beginnings DEF Made
  <2>3. index'.is_listed /\ index'.entries = index.entries
    BY <2>1 DEF TypesInv, IndexInv
  <2>4. ASSUME NEW v \in Values
        PROVE  CopiesOf(v)' = CopiesOf(v) /\ RecordsWith(v)' = RecordsWith(v)
    BY <1>1, <1>2, <2>1, <2>3, BeforeAndAfter
  <2>5. FinitesInv'
    BY <2>4 DEF FinitesInv
  <2>6. failures = 0 => DoneInv' /\ EmptyInv'
    BY <2>1, <2>2, <2>3 DEF BalanceInv, DoneInv, EmptyInv
  <2> QED BY <2>1, <2>2, <2>5, <2>6 DEF BalanceInv
<1>15. CASE Update \/ (\E nth \in 0 .. Cardinality(Records) - 1 : UpdateNth(nth))
  <2>1. /\ op = Idle /\ op' = Stopped /\ UNCHANGED <<pages, allocated, index, failures>>
    BY <1>15 DEF Update, UpdateNth, Begins
  <2>2. op.kind = "none" /\ op'.kind = "stopped"
    BY <2>1 DEF Idle, Stopped
  <2>3. DoneInv' /\ ~Takes /\ ~Takes' /\ \A v \in Values : Pending(v)' = Pending(v)
    BY <2>2 DEF DoneInv, Takes, Pending
  <2> QED BY <1>1, <1>2, <2>1, <2>2, <2>3, NothingToDo
<1>16. CASE UNCHANGED vars
  <2>1. UNCHANGED <<pages, allocated, index, failures, op>>
    BY <1>16 DEF vars
  <2>2. /\ FinitesInv'
        /\ \A v \in Values : /\ Cardinality(CopiesOf(v))' = Cardinality(CopiesOf(v))
                             /\ Cardinality(RecordsWith(v))' = Cardinality(RecordsWith(v))
    BY <1>1, <1>2, <2>1, SameCounts
  <2>3. Takes' = Takes /\ \A v \in Values : Pending(v)' = Pending(v)
    BY <2>1 DEF Takes, Pending
  <2>4. ASSUME NEW v \in Values, Balance(v) PROVE Balance(v)'
    BY <2>2, <2>3, <2>4 DEF Balance
  <2>5. (DoneInv => DoneInv') /\ (EmptyInv => EmptyInv')
    BY <2>1 DEF DoneInv, EmptyInv
  <2> QED BY <2>1, <2>2, <2>4, <2>5 DEF BalanceInv
<1> QED
  BY <1>4, <1>5, <1>6, <1>7, <1>8, <1>9, <1>10, <1>11, <1>12, <1>13, <1>14, <1>15, <1>16,
     PutBalances, FillBalances, DeleteBalances, IndexBalances, ReadBalances, NextPageBalances,
     FailingKeeps DEF Next

LEMMA InitBalance == RecordsAssumption /\ Init => FinitesInv /\ BalanceInv
<1> SUFFICES ASSUME RecordsAssumption, Init PROVE FinitesInv /\ BalanceInv
  OBVIOUS
<1>1. op.kind = "none" /\ index.entries = EmptyBag /\ ~index.is_listed
  BY DEF Init, Idle
<1>2. ASSUME NEW p \in PageIds PROVE Used(pages[p]) = {}
  BY DEF Init, NewPage, NewFixedPage, NewSlottedPage, Used, FreeSlot
<1>3. Records = {}
  <2>1. ListInv /\ allocated \subseteq PageIds
    BY InitList, ListFacts
  <2> QED BY <1>2, <2>1, RecordsAreAllPlaces DEF AllPlaces, PlacedIn
<1>4. ASSUME NEW v \in Values PROVE CopiesOf(v) = {} /\ RecordsWith(v) = {}
  BY <1>1, <1>3 DEF CopiesOf, EntriesOf, EmptyBag, SetToBag, BagToSet, RecordsWith
<1>5. FinitesInv
  BY <1>4, FS_EmptySet DEF FinitesInv
<1> QED BY <1>1, <1>5 DEF BalanceInv, DoneInv, EmptyInv

\* As long as nothing fails, the index has as many entries for a value as the table has
\* records with it: insert, bulk_insert, delete and the filling of a new index.
THEOREM KeysAlwaysAgree == Spec => []KeysAgree
<1>1. Init => FinitesInv /\ BalanceInv
  BY InitBalance, RecordsAssumption
<1>2. IInv /\ TypesInv /\ IInv' /\ FinitesInv /\ BalanceInv /\ [Next]_vars
        => FinitesInv' /\ BalanceInv'
  BY NextBalance, RecordsAssumption DEF IInv
<1>3. FinitesInv /\ BalanceInv => KeysAgree
  <2> SUFFICES ASSUME FinitesInv, BalanceInv, op = Idle, failures = 0, index.is_listed,
                      NEW v \in Values
               PROVE  Cardinality(CopiesOf(v)) = Cardinality(RecordsWith(v))
    BY DEF KeysAgree
  <2>1. op.kind = "none" /\ Balance(v)
    BY DEF BalanceInv, Idle
  <2>2. ~Takes /\ Pending(v) = 0
    BY <2>1 DEF Takes, Pending
  <2> QED BY <2>1, <2>2, CountsAreNumbers DEF Balance
<1> QED BY <1>1, <1>2, <1>3, TypesInductive, PTL DEF Spec
-----------------------------------------------------------------------------
\* What is left to do of an operation: one that inserts a record, or takes records from one
\* page, does not go on.
PartsInv ==
  /\ op.kind \in {"put", "fill", "read_all", "delete_nth"} => ~op.goes_on
  /\ op.kind = "put" \/ (op.kind \in {"grow", "grown"} /\ ~op.goes_on) => Len(op.values) = 1

LEMMA NextParts == OpInv /\ WhereInv /\ PartsInv /\ [Next]_vars => PartsInv'
<1> SUFFICES ASSUME OpInv, WhereInv, PartsInv, [Next]_vars PROVE PartsInv'
  OBVIOUS
<1>1. ASSUME op'.kind \in {"none", "stopped", "load", "delete", "upkeep"} PROVE PartsInv'
  BY <1>1 DEF PartsInv
<1>2. CASE op' = Idle \/ op' = Stopped
  BY <1>1, <1>2 DEF Idle, Stopped
<1>3. ASSUME NEW kind, NEW at, NEW values, NEW cond, NEW nth,
             op' = Made(kind, at, values, cond, nth, FALSE), 
             kind \in {"put", "grow"} => Len(values) = 1,
             kind # "grown"
      PROVE  PartsInv'
  <2>1. op'.kind = kind /\ op'.values = values /\ ~op'.goes_on
    BY <1>3 DEF Made
  <2> QED BY <1>3, <2>1 DEF PartsInv
<1>4. ASSUME NEW v \in Values, BeginInsert(v) PROVE PartsInv'
  <2>1. \/ op' = Made("grow", NULL_PAGE, <<v>>, {}, 0, FALSE)
        \/ \E i \in Insertable(v) :
             op' = Made("put", ListFrom(table.first_page_id)[i], <<v>>, {}, 0, FALSE)
    BY <1>4, Beginnings
  <2>2. Len(<<v>>) = 1
    OBVIOUS
  <2> QED BY <1>3, <2>1, <2>2
<1>5. ASSUME NEW p, NEW v \in Values, BeginInsertIntoPage(p, v) PROVE PartsInv'
  BY <1>3, <1>5, Beginnings
<1>6. ASSUME NEW values, BeginBulk(values) PROVE PartsInv'
  BY <1>3, <1>6, Beginnings
<1>7. ASSUME NEW cond, BeginDelete(cond) PROVE PartsInv'
  BY <1>1, <1>7, Beginnings DEF Made
<1>8. ASSUME NEW p, NEW cond, BeginDeleteFromPage(p, cond) PROVE PartsInv'
  BY <1>3, <1>8, Beginnings
<1>9. ASSUME NEW nth, BeginDeleteNth(nth) PROVE PartsInv'
  BY <1>3, <1>9, Beginnings
<1>10. CASE ListIndex
  BY <1>3, <1>10, Beginnings
<1>11. ASSUME op.kind \notin {"none", "stopped"}
       PROVE  op = [op EXCEPT !.kind = op.kind] /\ op \in OpType
  BY <1>11, UnderWay DEF OpType
<1>12. CASE AddPage
  <2>1. op'.kind = "grown" /\ op'.goes_on = op.goes_on /\ op'.values = op.values /\ op.kind = "grow"
    BY <1>11, <1>12 DEF AddPage, OpType
  <2> QED BY <2>1 DEF PartsInv
<1>13. CASE WriteTable
  <2>1. /\ op'.kind = IF op.goes_on THEN "load" ELSE "put"
        /\ op'.goes_on = op.goes_on /\ op'.values = op.values /\ op.kind = "grown"
    BY <1>11, <1>13 DEF WriteTable, OpType
  <2> QED BY <2>1 DEF PartsInv
<1>14. CASE GrowRefused \/ PutRefused
  BY <1>2, <1>14 DEF GrowRefused, PutRefused
<1>15. CASE Put \/ DeleteInPage
  <2>1. op'.kind = "upkeep"
    BY <1>11, <1>15 DEF Put, DeleteInPage, OpType
  <2> QED BY <1>1, <2>1
<1>16. CASE LoadToFill
  <2>1. op'.kind = "fill" /\ op'.goes_on = FALSE
    BY <1>11, <1>16 DEF LoadToFill, OpType
  <2> QED BY <2>1 DEF PartsInv
<1>17. CASE FillRecord
  <2>1. op'.kind = "fill" /\ op.kind = "fill" /\ op'.goes_on = op.goes_on
    BY <1>11, <1>17 DEF FillRecord, OpType
  <2> QED BY <2>1 DEF PartsInv
<1>18. CASE LeavePage
  <2>1. op'.kind = "upkeep" \/ (op'.kind = "grow" /\ op'.goes_on = TRUE)
    BY <1>11, <1>18 DEF LeavePage, OpType
  <2> QED BY <2>1 DEF PartsInv
<1>19. CASE NextPage
  <2>1. op' = Idle \/ op'.kind = "delete"
    BY <1>11, <1>19 DEF NextPage, OpType
  <2> QED BY <1>1, <1>2, <2>1
<1>20. CASE NextPageLost
  <2>1. op' = Idle \/ op' = Stopped \/ op'.kind = "delete"
    BY <1>11, <1>20 DEF NextPageLost, OpType
  <2> QED BY <1>1, <1>2, <2>1
<1>21. CASE IndexInsert \/ IndexRemove \/ IndexRefuses
  <2>1. op'.kind = "upkeep"
    BY <1>11, <1>21 DEF IndexInsert, IndexRemove, IndexRefuses, Indexing, OpType
  <2> QED BY <1>1, <2>1
<1>22. CASE ReadAll
  <2>1. op'.kind = "upkeep"
    BY <1>11, <1>22 DEF ReadAll, OpType
  <2> QED BY <1>1, <2>1
<1>23. CASE Update \/ (\E nth \in 0 .. Cardinality(Records) - 1 : UpdateNth(nth)) \/ Fails
  BY <1>2, <1>23 DEF Update, UpdateNth, Fails
<1>24. CASE UNCHANGED vars
  BY <1>24 DEF vars, PartsInv
<1> QED
  BY <1>4, <1>5, <1>6, <1>7, <1>8, <1>9, <1>10, <1>12, <1>13, <1>14, <1>15, <1>16, <1>17, <1>18,
     <1>19, <1>20, <1>21, <1>22, <1>23, <1>24 DEF Next

-----------------------------------------------------------------------------
\* Only one list begins with a page.
NoOther ==
  \A p : \A n \in 0 .. MaxPages : \A list \in [1 .. n -> PageIds] :
    IsListFrom(list, p) => ListFrom(p) = list

LEMMA NoOtherList == NoOther
BY OnlyList, RecordsAssumption DEF NoOther

\* The pages from p on.
From(p) == Elements(ListFrom(p))

\* From a page of the table on there are that page and those from the next one on.
LEMMA ListsFrom ==
  RecordsAssumption /\ ListInv =>
    /\ From(NULL_PAGE) = {}
    /\ \A p \in allocated :
         /\ From(p) = {p} \cup From(pages[p].next_block_id)
         /\ p \notin From(pages[p].next_block_id)
         /\ From(p) \subseteq allocated
         /\ \E n \in 0 .. MaxPages : /\ ListFrom(p) \in [1 .. n -> PageIds]
                                     /\ IsListFrom(ListFrom(p), p)
    /\ ListFrom(NULL_PAGE) = <<>>
    /\ allocated \subseteq PageIds
<1> SUFFICES ASSUME RecordsAssumption, ListInv
             PROVE  /\ From(NULL_PAGE) = {}
                    /\ \A p \in allocated :
                         /\ From(p) = {p} \cup From(pages[p].next_block_id)
                         /\ p \notin From(pages[p].next_block_id)
                         /\ From(p) \subseteq allocated
                         /\ \E n \in 0 .. MaxPages : /\ ListFrom(p) \in [1 .. n -> PageIds]
                                                     /\ IsListFrom(ListFrom(p), p)
                    /\ ListFrom(NULL_PAGE) = <<>>
                    /\ allocated \subseteq PageIds
  OBVIOUS
<1>1. PICK n \in 1 .. MaxPages : \E list : ListOf(n, list)
  BY DEF ListInv
<1>2. PICK list : ListOf(n, list)
  BY <1>1
<1>3. /\ n \in Nat /\ n <= MaxPages /\ MaxPages \in Nat
      /\ list \in [1 .. n -> PageIds]
      /\ DOMAIN list = 1 .. n /\ Len(list) = n
      /\ \A i, j \in 1 .. n : list[i] = list[j] => i = j
      /\ allocated = {list[i] : i \in 1 .. n}
      /\ \A i \in 1 .. n :
           pages[list[i]].next_block_id = IF i = n THEN NULL_PAGE ELSE list[i + 1]
  <2>1. /\ n \in Nat /\ n <= MaxPages /\ MaxPages \in Nat
        /\ list \in [1 .. n -> PageIds]
    BY <1>2, RecordsAssumption DEF ListOf, RecordsAssumption
  <2>2. DOMAIN list = 1 .. n /\ Len(list) = n
    BY <2>1
  <2> QED BY <1>2, <2>1, <2>2 DEF ListOf, Elements, IsListFrom
<1> DEFINE rest(k) == [i \in 1 .. n - k + 1 |-> list[i + k - 1]]
           first(k) == IF k = n + 1 THEN NULL_PAGE ELSE list[k]
<1>4. ASSUME NEW k \in 1 .. n + 1
      PROVE  /\ n - k + 1 \in 0 .. MaxPages
             /\ rest(k) \in [1 .. n - k + 1 -> PageIds]
             /\ IsListFrom(rest(k), first(k))
             /\ ListFrom(first(k)) = rest(k)
             /\ From(first(k)) = {list[i] : i \in k .. n}
  <2>1. n - k + 1 \in 0 .. MaxPages /\ rest(k) \in [1 .. n - k + 1 -> PageIds]
    BY <1>3
  <2>2. DOMAIN rest(k) = 1 .. n - k + 1 /\ Len(rest(k)) = n - k + 1
    BY <2>1
  <2>3. \A i \in 1 .. n - k + 1 : rest(k)[i] = list[i + k - 1] /\ i + k - 1 \in 1 .. n
    BY <1>3
  <2>4. first(k) = IF rest(k) = <<>> THEN NULL_PAGE ELSE rest(k)[1]
    <3>1. CASE k = n + 1
      <4>1. Len(rest(k)) = 0 /\ rest(k) \in Seq(PageIds)
        BY <1>3, <2>1, <2>2, <3>1
      <4>2. rest(k) = <<>>
        BY <4>1
      <4> QED BY <3>1, <4>2
    <3>2. CASE k # n + 1
      <4>1. 1 \in 1 .. n - k + 1 /\ 1 + k - 1 = k
        BY <1>3, <3>2
      <4>2. rest(k) # <<>> /\ rest(k)[1] = list[k]
        BY <2>2, <2>3, <4>1
      <4> QED BY <3>2, <4>2
    <3> QED BY <3>1, <3>2
  <2>5. ASSUME NEW i \in 1 .. n - k + 1
        PROVE  pages[rest(k)[i]].next_block_id =
                 IF i = n - k + 1 THEN NULL_PAGE ELSE rest(k)[i + 1]
    <3>1. pages[list[i + k - 1]].next_block_id =
            IF i + k - 1 = n THEN NULL_PAGE ELSE list[i + k - 1 + 1]
      BY <1>3, <2>3
    <3>2. i # n - k + 1 => rest(k)[i + 1] = list[i + 1 + k - 1] /\ i + k - 1 # n
      BY <1>3
    <3>3. i = n - k + 1 => i + k - 1 = n
      BY <1>3
    <3>4. i + 1 + k - 1 = i + k - 1 + 1
      BY <1>3
    <3>5. rest(k)[i] = list[i + k - 1]
      BY <2>3
    <3> HIDE DEF rest
    <3> QED BY <3>1, <3>2, <3>3, <3>4, <3>5
  <2>6. IsListFrom(rest(k), first(k))
    <3> HIDE DEF rest, first
    <3> QED BY <2>2, <2>4, <2>5 DEF IsListFrom
  <2>7. ListFrom(first(k)) = rest(k)
    <3> HIDE DEF rest, first
    <3> QED BY <2>1, <2>6, OnlyList
  <2>8. Elements(rest(k)) = {list[i] : i \in k .. n}
    <3>1. \A i \in k .. n : i - k + 1 \in 1 .. n - k + 1 /\ i - k + 1 + k - 1 = i
      BY <1>3
    <3>2. \A i \in 1 .. n - k + 1 : i + k - 1 \in k .. n
      BY <1>3
    <3>3. Elements(rest(k)) = {rest(k)[i] : i \in 1 .. n - k + 1}
      BY <2>2 DEF Elements
    <3> HIDE DEF rest
    <3>4. ASSUME NEW i \in k .. n PROVE list[i] \in Elements(rest(k))
      BY <2>3, <3>1, <3>3
    <3>5. ASSUME NEW i \in 1 .. n - k + 1 PROVE rest(k)[i] \in {list[j] : j \in k .. n}
      BY <2>3, <3>2
    <3> QED BY <3>3, <3>4, <3>5
  <2> HIDE DEF rest, first
  <2> QED BY <2>1, <2>6, <2>7, <2>8 DEF From
<1> HIDE DEF rest
<1>5. From(NULL_PAGE) = {} /\ ListFrom(NULL_PAGE) = <<>>
  <2>1. n + 1 \in 1 .. n + 1 /\ n - (n + 1) + 1 = 0 /\ first(n + 1) = NULL_PAGE
    BY <1>3
  <2>2. ListFrom(NULL_PAGE) \in [1 .. 0 -> PageIds]
    BY <1>4, <2>1
  <2>3. ListFrom(NULL_PAGE) \in Seq(PageIds) /\ Len(ListFrom(NULL_PAGE)) = 0
    BY <2>2
  <2>4. ListFrom(NULL_PAGE) = <<>>
    BY <2>3
  <2> QED BY <2>4 DEF From, Elements
<1>6. ASSUME NEW p \in allocated
      PROVE  /\ From(p) = {p} \cup From(pages[p].next_block_id)
             /\ p \notin From(pages[p].next_block_id)
             /\ From(p) \subseteq allocated
             /\ \E m \in 0 .. MaxPages : /\ ListFrom(p) \in [1 .. m -> PageIds]
                                         /\ IsListFrom(ListFrom(p), p)
  <2>1. PICK k \in 1 .. n : p = list[k]
    BY <1>3
  <2>2. k \in 1 .. n + 1 /\ k + 1 \in 1 .. n + 1 /\ first(k) = p
    BY <1>3, <2>1
  <2>3. pages[p].next_block_id = first(k + 1)
    BY <1>3, <2>1
  <2> HIDE DEF first
  <2>4. From(p) = {list[i] : i \in k .. n}
    BY <1>4, <2>2
  <2>5. From(pages[p].next_block_id) = {list[i] : i \in k + 1 .. n}
    BY <1>4, <2>2, <2>3
  <2>6. \A i \in k .. n : i = k \/ i \in k + 1 .. n
    BY <1>3
  <2>7. \A i \in k + 1 .. n : i \in k .. n /\ i # k /\ i \in 1 .. n
    BY <1>3
  <2>8. From(p) = {p} \cup From(pages[p].next_block_id)
    <3>1. k \in k .. n
      BY <1>3
    <3> QED BY <2>1, <2>4, <2>5, <2>6, <2>7, <3>1
  <2>9. p \notin From(pages[p].next_block_id)
    BY <1>3, <2>1, <2>5, <2>7
  <2>10. From(p) \subseteq allocated
    BY <1>3, <2>4
  <2>11. \E m \in 0 .. MaxPages : /\ ListFrom(p) \in [1 .. m -> PageIds]
                                  /\ IsListFrom(ListFrom(p), p)
    <3>1. ListFrom(p) = rest(k)
      BY <1>4, <2>2
    <3> QED BY <1>4, <2>2, <3>1
  <2> QED BY <2>8, <2>9, <2>10, <2>11
<1>7. allocated \subseteq PageIds
  BY <1>3
<1> QED BY <1>5, <1>6, <1>7
-----------------------------------------------------------------------------
\* The records of page p, and those of the pages from p on.
Here(p) == PlacedIn(p, Used(pages[p]))

RecordsFrom(p) == UNION {Here(q) : q \in From(p)}

LEMMA RecordsFromFacts ==
  RecordsAssumption /\ ListInv =>
    /\ RecordsFrom(NULL_PAGE) = {}
    /\ \A p \in allocated :
         /\ RecordsFrom(p) = Here(p) \cup RecordsFrom(pages[p].next_block_id)
         /\ Here(p) \cap RecordsFrom(pages[p].next_block_id) = {}
         /\ RecordsFrom(p) \subseteq AllPlaces
<1> SUFFICES ASSUME RecordsAssumption, ListInv
             PROVE  /\ RecordsFrom(NULL_PAGE) = {}
                    /\ \A p \in allocated :
                         /\ RecordsFrom(p) = Here(p) \cup RecordsFrom(pages[p].next_block_id)
                         /\ Here(p) \cap RecordsFrom(pages[p].next_block_id) = {}
                         /\ RecordsFrom(p) \subseteq AllPlaces
  OBVIOUS
<1>1. \A p, q : p # q => Here(p) \cap Here(q) = {}
  BY PagesDiffer DEF Here
<1>2. AllPlaces = UNION {Here(p) : p \in allocated}
  BY DEF AllPlaces, Here
<1>3. /\ From(NULL_PAGE) = {}
      /\ \A p \in allocated : /\ From(p) = {p} \cup From(pages[p].next_block_id)
                              /\ p \notin From(pages[p].next_block_id)
                              /\ From(p) \subseteq allocated
  BY ListsFrom
<1>4. RecordsFrom(NULL_PAGE) = {}
  BY <1>3 DEF RecordsFrom
<1>5. ASSUME NEW p \in allocated
      PROVE  /\ RecordsFrom(p) = Here(p) \cup RecordsFrom(pages[p].next_block_id)
             /\ Here(p) \cap RecordsFrom(pages[p].next_block_id) = {}
             /\ RecordsFrom(p) \subseteq AllPlaces
  <2> DEFINE next == pages[p].next_block_id
  <2>1. RecordsFrom(p) = UNION {Here(q) : q \in From(p)}
    BY DEF RecordsFrom
  <2>2. RecordsFrom(next) = UNION {Here(q) : q \in From(next)}
    BY DEF RecordsFrom
  <2>3. From(p) = {p} \cup From(next) /\ p \notin From(next) /\ From(p) \subseteq allocated
    BY <1>3
  <2> HIDE DEF next
  <2>4. \A x : x \in RecordsFrom(p) <=> x \in Here(p) \cup RecordsFrom(next)
    BY <2>1, <2>2, <2>3
  <2>5. RecordsFrom(p) = Here(p) \cup RecordsFrom(next)
    BY <2>4
  <2>6. Here(p) \cap RecordsFrom(next) = {}
    BY <1>1, <2>2, <2>3
  <2>7. RecordsFrom(p) \subseteq AllPlaces
    BY <1>2, <2>1, <2>3
  <2> QED BY <2>5, <2>6, <2>7 DEF next
<1> QED BY <1>4, <1>5

\* A step leaves the links.
SameNext == \A p \in PageIds : pages'[p].next_block_id = pages[p].next_block_id

\* A step that leaves the links leaves what is from a page on.
LEMMA SameFrom ==
  ASSUME RecordsAssumption, ListInv, SameNext, NEW p \in allocated \cup {NULL_PAGE}
  PROVE  From(p)' = From(p)
<1>1. PICK n \in 0 .. MaxPages : /\ ListFrom(p) \in [1 .. n -> PageIds]
                                 /\ IsListFrom(ListFrom(p), p)
  <2>1. CASE p \in allocated
    BY <2>1, ListsFrom
  <2>2. CASE p = NULL_PAGE
    <3>1. ListFrom(p) = <<>>
      BY <2>2, ListsFrom
    <3>2. <<>> \in [1 .. 0 -> PageIds] /\ 0 \in 0 .. MaxPages
      BY RecordsAssumption DEF RecordsAssumption
    <3>3. IsListFrom(<<>>, p)
      BY <2>2 DEF IsListFrom
    <3> QED BY <3>1, <3>2, <3>3
  <2> QED BY <2>1, <2>2
<1> DEFINE list == ListFrom(p)
<1>2. list \in [1 .. n -> PageIds] /\ DOMAIN list = 1 .. n /\ IsListFrom(list, p)
  BY <1>1
<1>4. PICK same \in [1 .. n -> PageIds] : same = list
  BY <1>1
<1> HIDE DEF list
<1>5. IsListFrom(same, p)'
  BY <1>2, <1>4 DEF IsListFrom, SameNext
<1>6. NoOther'
  BY NoOtherList, PTL
<1>7. ListFrom(p)' = same
  BY <1>5, <1>6 DEF NoOther
<1>8. ListFrom(p) = same
  BY <1>4 DEF list
<1> QED BY <1>7, <1>8 DEF From

LEMMA SameRecordsFrom ==
  ASSUME RecordsAssumption, ListInv, SameNext, NEW p \in allocated \cup {NULL_PAGE},
         \A q \in From(p) : pages'[q] = pages[q]
  PROVE  RecordsFrom(p)' = RecordsFrom(p)
<1>1. From(p)' = From(p)
  BY SameFrom
<1>2. \A q \in From(p) : Here(q)' = Here(q)
  BY DEF Here, PlacedIn, Used
<1> QED BY <1>1, <1>2 DEF RecordsFrom
-----------------------------------------------------------------------------
\* Those of the records that are asked for.
With(records, cond) == {r \in records : r[1] \in cond}

\* What an operation has still to delete, in the pages it will come to.
Doom ==
  /\ op.kind = "delete_nth" => DoomedRecords = PlacedIn(op.at, Doomed)
  /\ op.kind = "delete" =>
       DoomedRecords = With(IF op.goes_on THEN RecordsFrom(op.at) ELSE Here(op.at), op.cond)
  /\ op.kind = "upkeep" =>
       DoomedRecords = With(RecordsFrom(pages[op.at].next_block_id), op.cond)
  /\ AskedRecords = IF op.goes_on THEN With(Records, op.cond) ELSE DoomedRecords

\* The records of a list are those of its pages.
LEMMA RecordsInAList ==
  ASSUME NEW list
  PROVE  RecordsIn(list) = UNION {Here(q) : q \in Elements(list)}
<1> DEFINE pairs(p) == {<<r[1], <<p, r[2]>>>> : r \in RegsOf(pages[p])}
<1>1. RecordsIn(list) = UNION {pairs(q) : q \in Elements(list)}
  BY DEF RecordsIn
<1>2. \A q : pairs(q) = Here(q)
  BY PairsArePlaces DEF Here
<1> HIDE DEF pairs
<1> QED BY <1>1, <1>2

LEMMA WhatIsDoomed == Doom
<1>1. ASSUME NEW list
      PROVE  RecordsIn(list) = UNION {Here(q) : q \in Elements(list)}
  BY RecordsInAList
<1>2. \A p : RecordsIn(ListFrom(p)) = RecordsFrom(p)
  BY <1>1 DEF RecordsFrom, From
<1>3. ASSUME NEW p PROVE RecordsIn(<<p>>) = Here(p)
  <2>1. Elements(<<p>>) = {p}
    BY DEF Elements
  <2> QED BY <1>1, <2>1
<1>4. op.kind = "delete_nth" => DoomedRecords = PlacedIn(op.at, Doomed)
  BY DEF DoomedRecords, PlacedIn
<1>5. op.kind # "delete_nth" =>
        DoomedRecords = With(RecordsIn(IF op.kind = "upkeep" THEN ListFrom(pages[op.at].next_block_id)
                                       ELSE IF op.goes_on THEN ListFrom(op.at)
                                       ELSE <<op.at>>), op.cond)
  BY DEF DoomedRecords, With
<1>6. op.kind = "upkeep" =>
        DoomedRecords = With(RecordsFrom(pages[op.at].next_block_id), op.cond)
  <2>1. op.kind = "upkeep" =>
          DoomedRecords = With(RecordsIn(ListFrom(pages[op.at].next_block_id)), op.cond)
    BY <1>5
  <2> QED BY <1>2, <2>1
<1>7. op.kind = "delete" /\ op.goes_on => DoomedRecords = With(RecordsFrom(op.at), op.cond)
  <2>1. op.kind = "delete" /\ op.goes_on => DoomedRecords = With(RecordsIn(ListFrom(op.at)), op.cond)
    BY <1>5
  <2> QED BY <1>2, <2>1
<1>8. op.kind = "delete" /\ ~op.goes_on => DoomedRecords = With(Here(op.at), op.cond)
  <2>1. op.kind = "delete" /\ ~op.goes_on => DoomedRecords = With(RecordsIn(<<op.at>>), op.cond)
    BY <1>5
  <2> QED BY <1>3, <2>1
<1>9. AskedRecords = IF op.goes_on THEN With(Records, op.cond) ELSE DoomedRecords
  BY DEF AskedRecords, With
<1> QED BY <1>4, <1>6, <1>7, <1>8, <1>9 DEF Doom

\* What is asked of the store: to insert these values, or to delete those asked, of which the
\* doomed are in the way.
Insertion(values) == IF values = <<>> THEN Idle ELSE [kind |-> "insert", values |-> values]

Deletion(asked, doomed) == [kind |-> "delete", asked |-> asked, doomed |-> doomed]

\* A step of the table that is one of the store.
StoreStays == Records' = Records /\ Request' = Request /\ failures' = failures

StoreFails == Records' = Records /\ Request' \in {Request, Idle} /\ failures' > failures

StoreStrays(asked, doomed, left) ==
  /\ Request = Deletion(asked, doomed) /\ Request' = Deletion(asked, left)
  /\ left \in SUBSET asked
  /\ Records' = Records /\ failures' > failures

StoreAsks ==
  /\ Request = Idle
  /\ \/ \E values \in Seq(Values) : Request' = [kind |-> "insert", values |-> values]
     \/ \E asked \in SUBSET Records : Request' = Deletion(asked, asked)
  /\ Records' = Records /\ failures' = failures

StoreInserts(values, at) ==
  /\ Request = [kind |-> "insert", values |-> values]
  /\ at \in Ptrs \ {r[2] : r \in Records}
  /\ Records' = Records \cup {<<Head(values), at>>}
  /\ Request' = Insertion(Tail(values))
  /\ failures' = failures

StoreDeletes(asked, doomed, gone) ==
  /\ Request = Deletion(asked, doomed)
  /\ gone \in SUBSET doomed
  /\ Records' = Records \ gone
  /\ \/ Request' = Deletion(asked \cap Records', doomed \cap Records')
     \/ doomed \cap Records' = {} /\ Request' = Idle
  /\ failures' = failures

LEMMA StoreSteps ==
  ASSUME \/ StoreStays \/ StoreFails \/ StoreAsks
         \/ \E asked, doomed, left : StoreStrays(asked, doomed, left)
         \/ \E values, at : StoreInserts(values, at)
         \/ \E asked, doomed, gone : StoreDeletes(asked, doomed, gone)
  PROVE  [Store!Next]_(Store!storeVars)
<1>1. CASE StoreStays
  BY <1>1 DEF StoreStays, Store!storeVars
<1>2. CASE StoreFails
  BY <1>2 DEF StoreFails, Store!Next, Store!Fail, Store!NoRequest, Idle
<1>3. CASE StoreAsks
  <2>1. ASSUME NEW values \in Seq(Values), Request' = [kind |-> "insert", values |-> values]
        PROVE  Request' \in [kind : {"insert"}, values : Seq(Values)]
    BY <2>1
  <2>2. ASSUME NEW asked \in SUBSET Records, Request' = Deletion(asked, asked)
        PROVE  \E a \in SUBSET Records : Request' = Store!ToDelete(a, a)
    BY <2>2 DEF Deletion, Store!ToDelete
  <2> QED BY <1>3, <2>1, <2>2 DEF StoreAsks, Store!Next, Store!Ask, Store!NoRequest, Idle
<1>4. ASSUME NEW values, NEW at, StoreInserts(values, at) PROVE Store!Next
  <2>1. Request.kind = "insert" /\ Request.values = values
    BY <1>4 DEF StoreInserts
  <2>2. Request' = Store!ToInsert(Tail(values))
    BY <1>4 DEF StoreInserts, Insertion, Store!ToInsert, Store!NoRequest, Idle
  <2> QED BY <1>4, <2>1, <2>2 DEF StoreInserts, Store!Next, Store!Insert
<1>5. ASSUME NEW asked, NEW doomed, NEW gone, StoreDeletes(asked, doomed, gone) PROVE Store!Next
  <2>1. Request.kind = "delete" /\ Request.asked = asked /\ Request.doomed = doomed
    BY <1>5 DEF StoreDeletes, Deletion
  <2> QED
    BY <1>5, <2>1
    DEF StoreDeletes, Deletion, Store!Next, Store!Delete, Store!ToDelete, Store!NoRequest, Idle
<1>6. ASSUME NEW asked, NEW doomed, NEW left, StoreStrays(asked, doomed, left) PROVE Store!Next
  <2>1. Request.kind = "delete" /\ Request.asked = asked
    BY <1>6 DEF StoreStrays, Deletion
  <2> QED BY <1>6, <2>1 DEF StoreStrays, Deletion, Store!Next, Store!Fail, Store!ToDelete
<1> QED BY <1>1, <1>2, <1>3, <1>4, <1>5, <1>6

\* The kinds of an operation that inserts.
Inserting == {"put", "grow", "grown", "load", "fill"}

\* What an operation asks of the store.
Asking ==
  /\ op.kind \in Inserting => Request = Insertion(op.values)
  /\ op.kind \in {"none", "stopped", "read_all"} => Request = Idle
  /\ op.kind \in {"delete", "delete_nth"} \/ (op.kind = "upkeep" /\ op.goes_on) =>
       Request = Deletion(AskedRecords, DoomedRecords)
  /\ op.kind = "upkeep" /\ ~op.goes_on => Request = Idle

LEMMA WhatIsAsked == Asking
<1>1. op.kind \in Inserting => Request = Insertion(op.values)
  BY DEF Request, Insertion, Inserting, Deletes
<1>2. op.kind \in {"none", "stopped", "read_all"} => Request = Idle
  BY DEF Request, Deletes
<1>3. op.kind \in {"delete", "delete_nth"} \/ (op.kind = "upkeep" /\ op.goes_on) =>
        Request = Deletion(AskedRecords, DoomedRecords)
  BY DEF Request, Deletion, Deletes
<1>4. op.kind = "upkeep" /\ ~op.goes_on => Request = Idle
  BY DEF Request, Deletes
<1> QED BY <1>1, <1>2, <1>3, <1>4 DEF Asking

\* What holds before a step and after it.
LEMMA BothSides ==
  ASSUME ListInv, ListInv'
  PROVE  /\ Records = AllPlaces /\ Records' = AllPlaces'
         /\ Doom /\ Doom' /\ Asking /\ Asking'
<1>1. Records = AllPlaces
  BY RecordsAreAllPlaces
<1>2. Records' = AllPlaces'
  <2>1. ListInv' => (Records = AllPlaces)'
    BY RecordsAreAllPlaces, PTL
  <2> QED BY <2>1
<1>3. Doom /\ Doom'
  BY WhatIsDoomed, PTL
<1>4. Asking /\ Asking'
  BY WhatIsAsked, PTL
<1> QED BY <1>1, <1>2, <1>3, <1>4

\* A step that leaves the pages leaves the records, those of every page, and from every page on.
LEMMA SamePages ==
  ASSUME RecordsAssumption, ListInv, ListInv', pages' = pages, allocated' = allocated
  PROVE  /\ Records' = Records
         /\ \A p \in allocated \cup {NULL_PAGE} : RecordsFrom(p)' = RecordsFrom(p)
         /\ \A p : Here(p)' = Here(p)
<1>1. AllPlaces' = AllPlaces
  BY DEF AllPlaces, PlacedIn, Used
<1>2. Records' = Records
  BY <1>1, BothSides
<1>3. \A p \in allocated \cup {NULL_PAGE} : RecordsFrom(p)' = RecordsFrom(p)
  BY SameRecordsFrom DEF SameNext
<1>4. \A p : Here(p)' = Here(p)
  BY DEF Here, PlacedIn, Used
<1> QED BY <1>2, <1>3, <1>4

\* An operation begins to insert.
LEMMA BeginningsAsk ==
  ASSUME RecordsAssumption, ListInv, ListInv', pages' = pages, allocated' = allocated,
         failures' = failures, op = Idle, op'.kind \in Inserting, op'.values \in Seq(Values)
  PROVE  StoreStays \/ StoreAsks
<1>1. Request = Idle
  BY BothSides DEF Asking, Idle
<1>2. Request' = Insertion(op'.values)
  BY BothSides DEF Asking
<1>3. Records' = Records
  BY SamePages
<1> QED BY <1>1, <1>2, <1>3 DEF Insertion, StoreStays, StoreAsks

\* A deletion over the list that is at its first page has in its way all it is asked to delete.
LEMMA AllFromTheFirst ==
  RecordsFrom(table.first_page_id) = Records
<1> DEFINE list == ListFrom(table.first_page_id)
<1>1. Records = RecordsIn(list)
  BY DEF Records
<1>2. RecordsFrom(table.first_page_id) = UNION {Here(q) : q \in Elements(list)}
  BY DEF RecordsFrom, From
<1> HIDE DEF list
<1> QED BY <1>1, <1>2, RecordsInAList

\* An operation begins to delete.
LEMMA DeletionsAsk ==
  ASSUME RecordsAssumption, IInv, ListInv', TypesInv, pages' = pages, allocated' = allocated,
         table' = table, failures' = failures, op = Idle,
         op'.kind \in {"delete", "delete_nth"}, op'.at \in allocated,
         op'.goes_on => op'.kind = "delete" /\ op'.at = table.first_page_id
  PROVE  StoreAsks
<1>1. Request = Idle
  BY BothSides DEF Asking, Idle, IInv
<1>2. Request' = Deletion(AskedRecords', DoomedRecords')
  BY BothSides DEF Asking, IInv
<1>3. Records' = Records /\ Records = AllPlaces
  BY SamePages, BothSides DEF IInv
<1>4. PICK p \in allocated : p = op'.at
  OBVIOUS
<1>5. Here(p)' = Here(p) /\ RecordsFrom(p)' = RecordsFrom(p)
  BY SamePages DEF IInv
<1>6. DoomedRecords' \subseteq Records
  <2>2. Here(p) \subseteq AllPlaces /\ RecordsFrom(p) \subseteq AllPlaces
    <3>1. RecordsFrom(p) = Here(p) \cup RecordsFrom(pages[p].next_block_id)
          /\ RecordsFrom(p) \subseteq AllPlaces
      BY RecordsFromFacts DEF IInv
    <3> QED BY <3>1
  <2>3. CASE op'.kind = "delete"
    <3>1. DoomedRecords' = With(IF op'.goes_on THEN RecordsFrom(p)' ELSE Here(p)', op'.cond)
      BY <1>4, <2>3, BothSides DEF Doom, IInv
    <3> QED BY <1>3, <1>5, <2>2, <3>1 DEF With
  <2>4. CASE op'.kind = "delete_nth"
    <3>1. DoomedRecords' = {<<pages'[p].slots[i].value, <<p, i>>>> : i \in Doomed'}
      BY <1>4, <2>4, BothSides DEF Doom, PlacedIn, IInv
    <3>2. Doomed' \subseteq Used(pages[p])'
      BY <1>4 DEF Doomed, Nth
    <3>3. DoomedRecords' \subseteq Here(p)'
      BY <3>1, <3>2 DEF Here, PlacedIn
    <3> QED BY <1>3, <1>5, <2>2, <3>3
  <2> QED BY <2>3, <2>4
<1>7. AskedRecords' = DoomedRecords'
  <2>1. AskedRecords' = IF op'.goes_on THEN With(Records', op'.cond) ELSE DoomedRecords'
    BY BothSides DEF Doom, IInv
  <2>2. CASE op'.goes_on
    <3>1. DoomedRecords' = With(RecordsFrom(p)', op'.cond)
      BY <1>4, <2>2, BothSides DEF Doom, IInv
    <3>2. RecordsFrom(p)' = Records'
      BY <1>3, <1>4, <1>5, <2>2, AllFromTheFirst
    <3> QED BY <2>1, <2>2, <3>1, <3>2
  <2> QED BY <2>1, <2>2
<1> QED BY <1>1, <1>2, <1>3, <1>6, <1>7 DEF StoreAsks

\* An operation goes on with what it inserts.
LEMMA InsertionsStay ==
  ASSUME ListInv, ListInv', AllPlaces' = AllPlaces, failures' = failures,
         op.kind \in Inserting, op'.kind \in Inserting, op'.values = op.values
  PROVE  StoreStays
BY BothSides DEF Asking, StoreStays

\* An operation is cut short, or does not do all it should.
LEMMA FailuresFail ==
  ASSUME ListInv, ListInv', AllPlaces' = AllPlaces, failures \in Nat, failures' = failures + 1,
         op' = Idle \/ op' = Stopped
  PROVE  StoreFails
<1>1. Request' = Idle
  BY BothSides DEF Asking, Idle, Stopped
<1>2. Records' = Records /\ failures' > failures
  BY BothSides
<1> QED BY <1>1, <1>2 DEF StoreFails

\* An insertion puts the next record where there was none.
LEMMA InsertionInserts ==
  ASSUME RecordsAssumption, IInv, ListInv', TypesInv, op.kind \in Inserting, op.values # <<>>,
         NEW r, r = Inserted(table.are_regs_fixed, pages[op.at], Head(op.values)),
         r.ok, pages' = [pages EXCEPT ![op.at] = r.page],
         op.at \in allocated, allocated' = allocated, failures' = failures,
         Request' = Insertion(Tail(op.values))
  PROVE  \E values, at : StoreInserts(values, at)
<1>1. op.kind \notin {"none", "stopped"} /\ allocated \subseteq PageIds
  BY ListFacts DEF Inserting, IInv
<1>2. Head(op.values) \in Values
  BY <1>1 DEF IInv, OpInv
<1>3. PICK p \in allocated : p = op.at
  OBVIOUS
<1>4. PICK v \in Values : v = Head(op.values)
  BY <1>2
<1>5. r = Inserted(table.are_regs_fixed, pages[p], v) /\ pages' = [pages EXCEPT ![p] = r.page]
  BY <1>3, <1>4
<1>6. AllPlaces' = AllPlaces \cup {<<v, <<p, r.slot>>>>}
  <2> DEFINE i == Inserted(table.are_regs_fixed, pages[p], v)
  <2>1. pages' = [pages EXCEPT ![p] = i.page]
    BY <1>5
  <2>2. i.ok => AllPlaces' = AllPlaces \cup {<<v, <<p, i.slot>>>>}
    BY <1>1, <2>1, InsertionAdds DEF IInv, TypesInv
  <2>3. i = r
    BY <1>5
  <2> HIDE DEF i
  <2> QED BY <2>2, <2>3
<1>7. IsPut(pages[p], r, v) /\ r.slot \in Slots
  BY <1>1, <1>5, InsertionFacts DEF IInv, TypesInv
<1>8. <<p, r.slot>> \in Ptrs
  BY <1>1, <1>7 DEF Ptrs
<1>9. <<p, r.slot>> \notin {e[2] : e \in AllPlaces}
  <2> SUFFICES ASSUME NEW e \in AllPlaces, e[2] = <<p, r.slot>> PROVE FALSE
    OBVIOUS
  <2>1. PICK q \in allocated : e \in PlacedIn(q, Used(pages[q]))
    BY DEF AllPlaces
  <2>2. PICK i \in Used(pages[q]) : e = <<pages[q].slots[i].value, <<q, i>>>>
    BY <2>1 DEF PlacedIn
  <2>3. q = p /\ i = r.slot
    BY <2>2
  <2> QED BY <1>7, <2>2, <2>3 DEF IsPut
<1>10. Records = AllPlaces /\ Records' = AllPlaces'
  BY BothSides DEF IInv
<1>11. Request = [kind |-> "insert", values |-> op.values]
  BY BothSides DEF Asking, Insertion, IInv
<1>12. StoreInserts(op.values, <<p, r.slot>>)
  BY <1>4, <1>6, <1>8, <1>9, <1>10, <1>11 DEF StoreInserts
<1> QED BY <1>12

\* A deletion from a page takes the doomed records there are, and leaves the others of them,
\* which are in the pages after it.
LEMMA DeletionDeletes ==
  ASSUME RecordsAssumption, IInv, ListInv', TypesInv, PartsInv, DeleteInPage
  PROVE  \E asked, doomed, gone : StoreDeletes(asked, doomed, gone)
<1>1. /\ op \in OpType /\ op.at \in allocated /\ allocated \subseteq PageIds
      /\ op.kind \in {"delete", "delete_nth"}
      /\ allocated' = allocated /\ failures' = failures
  <2>1. op.kind \in {"delete", "delete_nth"}
    BY DEF DeleteInPage
  <2> QED BY <2>1, UnderWay, ListFacts DEF DeleteInPage, TypesInv, WhereInv, IInv
<1>2. /\ op'.kind = "upkeep" /\ op'.at = op.at /\ op'.goes_on = op.goes_on /\ op'.cond = op.cond
  BY <1>1 DEF DeleteInPage, OpType
<1>3. PICK p \in allocated : p = op.at
  BY <1>1
<1>4. pages' = [pages EXCEPT ![p] = Deleted(table.are_regs_fixed, pages[p], Doomed)]
  BY <1>3 DEF DeleteInPage
<1>5. SameNext /\ \A q \in PageIds : q # p => pages'[q] = pages[q]
  <2>1. p \in PageIds
    BY <1>1
  <2>2. /\ pages'[p] = Deleted(table.are_regs_fixed, pages[p], Doomed)
        /\ \A q \in PageIds : q # p => pages'[q] = pages[q]
    BY <1>4, <2>1 DEF IInv, PagesInv
  <2>3. pages[p] \in PageType /\ table.are_regs_fixed \in BOOLEAN
    BY <2>1 DEF IInv, PagesInv, Sound
  <2>4. pages'[p].next_block_id = pages[p].next_block_id
    BY <2>2, <2>3, DeletedKeepsNext
  <2> QED BY <2>2, <2>4 DEF SameNext
<1>6. PICK next \in allocated \cup {NULL_PAGE} :
        next = pages[p].next_block_id /\ next = pages'[p].next_block_id
  BY <1>1, <1>5, ListFacts DEF SameNext, IInv
<1> DEFINE here == Here(p)
           rest == RecordsFrom(next)
           gone == PlacedIn(p, Doomed)
           later == IF op.goes_on THEN With(rest, op.cond) ELSE {}
<1>7. AllPlaces' = AllPlaces \ gone /\ gone \subseteq here
  <2>1. Doomed \in SUBSET Used(pages[p])
    BY <1>3, DoomedAreUsed
  <2>2. gone \subseteq here
    BY <2>1 DEF Here, PlacedIn
  <2> QED BY <1>1, <1>3, <1>4, <2>1, <2>2, DeletionTakes DEF IInv
<1>8. /\ RecordsFrom(p) = here \cup rest
      /\ here \cap rest = {}
      /\ RecordsFrom(p) \subseteq AllPlaces
  BY <1>3, <1>6, RecordsFromFacts DEF IInv
<1>9. RecordsFrom(next)' = rest
  <2>1. p \notin From(next) /\ From(next) \subseteq PageIds
    <3>1. /\ From(p) = {p} \cup From(pages[p].next_block_id)
          /\ p \notin From(pages[p].next_block_id)
          /\ From(p) \subseteq allocated
      BY ListsFrom DEF IInv
    <3> QED BY <1>1, <1>6, <3>1
  <2> QED BY <1>5, <2>1, SameRecordsFrom DEF IInv
<1>10. DoomedRecords = gone \cup later
  <2>1. CASE op.kind = "delete_nth"
    <3>1. later = {}
      BY <2>1 DEF PartsInv
    <3>2. DoomedRecords = gone
      BY <1>3, <2>1, BothSides DEF Doom, IInv
    <3> QED BY <3>1, <3>2
  <2>2. CASE op.kind = "delete"
    <3>1. Doomed = {i \in Used(pages[p]) : pages[p].slots[i].value \in op.cond}
      BY <1>3, <2>2 DEF Doomed
    <3>2. gone = With(here, op.cond)
      <4> DEFINE U == Used(pages[p])
                 value(i) == pages[p].slots[i].value
      <4>1. /\ here = {<<value(i), <<p, i>>>> : i \in U}
            /\ gone = {<<value(i), <<p, i>>>> : i \in {j \in U : value(j) \in op.cond}}
        BY <3>1 DEF Here, PlacedIn
      <4>2. \A x : x \in With(here, op.cond) <=> x \in here /\ x[1] \in op.cond
        BY DEF With
      <4> HIDE DEF U, value, here, gone
      <4>3. \A i : <<value(i), <<p, i>>>>[1] = value(i)
        OBVIOUS
      <4>4. ASSUME NEW x \in gone PROVE x \in With(here, op.cond)
        BY <4>1, <4>2, <4>3
      <4>5. ASSUME NEW x \in With(here, op.cond) PROVE x \in gone
        BY <4>1, <4>2, <4>3
      <4> QED BY <4>4, <4>5
    <3>3. DoomedRecords = With(IF op.goes_on THEN RecordsFrom(p) ELSE here, op.cond)
      BY <1>3, <2>2, BothSides DEF Doom, IInv
    <3>4. With(here \cup rest, op.cond) = With(here, op.cond) \cup With(rest, op.cond)
      BY DEF With
    <3> HIDE DEF here, rest, gone
    <3> QED BY <1>8, <3>2, <3>3, <3>4
  <2> QED BY <1>1, <2>1, <2>2
<1>11. later \subseteq rest
  BY DEF With
<1>12. Request = Deletion(AskedRecords, DoomedRecords)
  BY <1>1, BothSides DEF Asking, IInv
<1>13. Records = AllPlaces /\ Records' = AllPlaces \ gone
  BY <1>7, BothSides DEF IInv
<1>14. IF op.goes_on THEN Request' = Deletion(AskedRecords', later) ELSE Request' = Idle
  <2>1. CASE ~op.goes_on
    BY <1>2, <2>1, BothSides DEF Asking, IInv
  <2>2. CASE op.goes_on
    <3>1. DoomedRecords' = With(RecordsFrom(next)', op.cond)
      BY <1>2, <1>3, <1>6, BothSides DEF Doom, IInv
    <3>2. DoomedRecords' = later
      BY <1>9, <2>2, <3>1
    <3> HIDE DEF later
    <3> QED BY <1>2, <2>2, <3>2, BothSides DEF Asking, IInv
  <2> QED BY <2>1, <2>2
<1>15. op.goes_on => AskedRecords' = AskedRecords \cap Records'
  <2>1. op.goes_on => AskedRecords = With(Records, op.cond)
    BY BothSides DEF Doom, IInv
  <2>2. op.goes_on => AskedRecords' = With(Records', op.cond)
    BY <1>2, BothSides DEF Doom, IInv
  <2>3. Records' \subseteq Records
    BY <1>13
  <2> QED BY <2>1, <2>2, <2>3 DEF With
<1>16. ~op.goes_on => later = {}
  OBVIOUS
<1> HIDE DEF here, rest, gone, later
<1>17. DoomedRecords \cap Records' = later
  BY <1>7, <1>8, <1>10, <1>11, <1>13
<1>18. StoreDeletes(AskedRecords, DoomedRecords, gone)
  BY <1>1, <1>10, <1>12, <1>13, <1>14, <1>15, <1>16, <1>17 DEF StoreDeletes
<1> QED BY <1>18

\* A deletion goes on to the next page, where what it has to delete is the same, or ends when
\* there is none.
LEMMA NextPageStays ==
  ASSUME RecordsAssumption, IInv, ListInv', TypesInv, NextPage
  PROVE  StoreStays \/ \E asked, doomed, gone : StoreDeletes(asked, doomed, gone)
<1>1. /\ op \in OpType /\ op.kind = "upkeep"
      /\ pages' = pages /\ allocated' = allocated /\ failures' = failures
  <2>1. op.kind = "upkeep"
    BY DEF NextPage
  <2> QED BY <2>1, UnderWay DEF NextPage, TypesInv
<1>2. Records' = Records
  BY <1>1, SamePages DEF IInv
<1>3. CASE ~op.goes_on
  <2>1. op' = Idle
    BY <1>3 DEF NextPage
  <2>2. Request = Idle /\ Request' = Idle
    BY <1>1, <1>3, <2>1, BothSides DEF Asking, Idle, IInv
  <2> QED BY <1>1, <1>2, <2>2 DEF StoreStays
<1>4. CASE op.goes_on
  <2>1. PICK next \in allocated \cup {NULL_PAGE} : next = pages[op.at].next_block_id
    <3>1. op.at \in allocated
      BY <1>1, <1>4 DEF TypesInv, WhereInv
    <3> QED BY <3>1, ListFacts DEF IInv
  <2>2. /\ DoomedRecords = With(RecordsFrom(next), op.cond)
        /\ AskedRecords = With(Records, op.cond)
    BY <1>1, <1>4, <2>1, BothSides DEF Doom, IInv
  <2>3. Request = Deletion(AskedRecords, DoomedRecords)
    BY <1>1, <1>4, BothSides DEF Asking, IInv
  <2>4. CASE next = NULL_PAGE
    <3>1. op' = Idle
      BY <2>1, <2>4 DEF NextPage
    <3>2. DoomedRecords = {}
      BY <2>2, <2>4, RecordsFromFacts DEF With, IInv
    <3>3. Request' = Idle
      BY <3>1, BothSides DEF Asking, Idle, IInv
    <3>4. StoreDeletes(AskedRecords, DoomedRecords, {})
      BY <1>1, <1>2, <2>3, <3>2, <3>3 DEF StoreDeletes
    <3> QED BY <3>4
  <2>5. CASE next # NULL_PAGE
    <3>1. op' = [op EXCEPT !.kind = "delete", !.at = next, !.done = <<>>]
      BY <1>4, <2>1, <2>5 DEF NextPage
    <3>2. /\ op'.kind = "delete" /\ op'.at = next
          /\ op'.goes_on = op.goes_on /\ op'.cond = op.cond
      BY <1>1, <3>1 DEF OpType
    <3>3. /\ DoomedRecords' = With(RecordsFrom(next)', op.cond)
          /\ AskedRecords' = With(Records', op.cond)
      BY <1>4, <3>2, BothSides DEF Doom, IInv
    <3>4. RecordsFrom(next)' = RecordsFrom(next)
      BY <1>1, SamePages DEF IInv
    <3>5. DoomedRecords' = DoomedRecords /\ AskedRecords' = AskedRecords
      BY <1>2, <2>2, <3>3, <3>4
    <3>6. Request' = Deletion(AskedRecords', DoomedRecords')
      BY <3>2, BothSides DEF Asking, IInv
    <3>7. Request' = Request
      BY <2>3, <3>5, <3>6
    <3> QED BY <1>1, <1>2, <3>7 DEF StoreStays
  <2> QED BY <2>4, <2>5
<1> QED BY <1>3, <1>4

\* A deletion that lost the page it was at ends, or has in its new way some of what it was
\* asked to delete and nothing else.
LEMMA LostStrays ==
  ASSUME RecordsAssumption, IInv, ListInv', TypesInv, NextPageLost
  PROVE  StoreFails \/ \E asked, doomed, left : StoreStrays(asked, doomed, left)
<1>1. /\ op \in OpType /\ op.kind = "upkeep" /\ op.goes_on
      /\ pages' = pages /\ allocated' = allocated
      /\ failures' = failures + 1 /\ failures \in Nat
  <2>1. op.kind = "upkeep"
    BY DEF NextPageLost
  <2> QED BY <2>1, UnderWay DEF NextPageLost, TypesInv, IInv, PinsInv
<1>2. Records' = Records /\ Records = AllPlaces
  BY <1>1, SamePages, BothSides DEF IInv
<1>3. CASE op' \in {Idle, Stopped}
  <2>1. Request' = Idle
    BY <1>3, BothSides DEF Asking, Idle, Stopped, IInv
  <2> QED BY <1>1, <1>2, <2>1 DEF StoreFails
<1>4. ASSUME NEW p \in allocated, op' = [op EXCEPT !.kind = "delete", !.at = p, !.done = <<>>]
      PROVE  StoreStrays(AskedRecords, DoomedRecords, DoomedRecords')
  <2>1. op'.kind = "delete" /\ op'.at = p /\ op'.goes_on /\ op'.cond = op.cond
    BY <1>1, <1>4 DEF OpType
  <2>2. /\ DoomedRecords' = With(RecordsFrom(p)', op.cond)
        /\ AskedRecords' = With(Records', op.cond)
    BY <2>1, BothSides DEF Doom, IInv
  <2>3. AskedRecords = With(Records, op.cond)
    BY <1>1, BothSides DEF Doom, IInv
  <2>4. RecordsFrom(p)' = RecordsFrom(p) /\ RecordsFrom(p) \subseteq AllPlaces
    BY <1>1, SamePages, RecordsFromFacts DEF IInv
  <2>5. AskedRecords' = AskedRecords /\ DoomedRecords' \subseteq AskedRecords
    BY <1>2, <2>2, <2>3, <2>4 DEF With
  <2>6. Request = Deletion(AskedRecords, DoomedRecords)
    BY <1>1, BothSides DEF Asking, IInv
  <2>7. Request' = Deletion(AskedRecords', DoomedRecords')
    BY <2>1, BothSides DEF Asking, IInv
  <2> QED BY <1>1, <1>2, <2>5, <2>6, <2>7 DEF StoreStrays
<1> QED BY <1>3, <1>4 DEF NextPageLost

\* The upkeep of the index changes nothing of the table.
LEMMA UpkeepStays ==
  ASSUME RecordsAssumption, IInv, ListInv', TypesInv,
         IndexInsert \/ IndexRemove \/ IndexRefuses
  PROVE  Records' = Records /\ Request' = Request
<1>1. /\ op \in OpType /\ op.kind = "upkeep"
      /\ pages' = pages /\ allocated' = allocated
  <2>1. op.kind = "upkeep"
    BY DEF IndexInsert, IndexRemove, IndexRefuses, Indexing
  <2> QED BY <2>1, UnderWay DEF IndexInsert, IndexRemove, IndexRefuses, TypesInv
<1>2. /\ op'.kind = "upkeep" /\ op'.at = op.at /\ op'.goes_on = op.goes_on /\ op'.cond = op.cond
  BY <1>1 DEF IndexInsert, IndexRemove, IndexRefuses, OpType
<1>3. Records' = Records
  BY <1>1, SamePages DEF IInv
<1>4. CASE ~op.goes_on
  <2>1. Request = Idle /\ Request' = Idle
    BY <1>1, <1>2, <1>4, BothSides DEF Asking, IInv
  <2> QED BY <1>3, <2>1
<1>5. CASE op.goes_on
  <2>1. PICK next \in allocated \cup {NULL_PAGE} : next = pages[op.at].next_block_id
    <3>1. op.at \in allocated
      BY <1>1, <1>5 DEF TypesInv, WhereInv
    <3> QED BY <3>1, ListFacts DEF IInv
  <2>2. DoomedRecords = With(RecordsFrom(next), op.cond)
    BY <1>1, <2>1, BothSides DEF Doom, IInv
  <2>3. DoomedRecords' = With(RecordsFrom(next)', op.cond)
    BY <1>1, <1>2, <2>1, BothSides DEF Doom, IInv
  <2>4. DoomedRecords' = DoomedRecords /\ AskedRecords' = AskedRecords
    <3>1. DoomedRecords' = DoomedRecords
      BY <1>1, <2>2, <2>3, SamePages DEF IInv
    <3>2. /\ AskedRecords = With(Records, op.cond)
          /\ AskedRecords' = With(Records', op.cond)
      BY <1>2, <1>5, BothSides DEF Doom, IInv
    <3> QED BY <1>3, <3>1, <3>2
  <2>5. Request' = Request
    BY <1>1, <1>2, <1>5, <2>4, BothSides DEF Asking, IInv
  <2> QED BY <1>3, <2>5
<1> QED BY <1>4, <1>5

\* Every step of the table is a step of the store, or none.
LEMMA EveryStep ==
  ASSUME RecordsAssumption, IInv, IInv', TypesInv, TypesInv', PartsInv, [Next]_vars
  PROVE  [Store!Next]_(Store!storeVars)
<1>1. ListInv /\ ListInv' /\ failures \in Nat
  BY DEF IInv, PinsInv
<1>2. ASSUME pages' = pages, allocated' = allocated PROVE AllPlaces' = AllPlaces
  BY <1>2 DEF AllPlaces, PlacedIn, Used
<1>3. ASSUME op = Idle, pages' = pages, allocated' = allocated, failures' = failures,
             op'.kind \in Inserting \cup {"delete", "delete_nth"},
             op'.kind \in {"delete", "delete_nth"} =>
               table' = table /\ (op'.goes_on => op'.kind = "delete" /\ op'.at = table.first_page_id)
      PROVE  StoreStays \/ StoreAsks
  <2>1. CASE op'.kind \in Inserting
    <3>1. op'.values \in Seq(Values)
      BY <2>1 DEF Inserting, IInv, OpInv
    <3> QED BY <1>1, <1>3, <2>1, <3>1, BeginningsAsk
  <2>2. CASE op'.kind \in {"delete", "delete_nth"}
    <3>1. op'.at \in allocated
      BY <1>3, <2>2 DEF TypesInv, WhereInv
    <3> QED BY <1>1, <1>3, <2>2, <3>1, DeletionsAsk
  <2> QED BY <1>3, <2>1, <2>2
<1>4. ASSUME pages' = pages, allocated' = allocated, failures' = failures,
             Request = Idle, Request' = Idle
      PROVE  StoreStays
  BY <1>1, <1>4, SamePages DEF StoreStays
<1>5. ASSUME AllPlaces' = AllPlaces, failures' = failures + 1, op' = Idle \/ op' = Stopped
      PROVE  StoreFails
  BY <1>1, <1>5, FailuresFail
<1>6. Asking /\ Asking'
  BY <1>1, BothSides
<1>7. ASSUME NEW v \in Values, BeginInsert(v) PROVE StoreStays \/ StoreAsks
  <2>1. op'.kind \in {"grow", "put"}
    BY <1>7 DEF BeginInsert, NewOp
  <2> QED BY <1>3, <1>7, <2>1 DEF BeginInsert, Inserting
<1>8. ASSUME NEW p, NEW v \in Values, BeginInsertIntoPage(p, v) PROVE StoreStays \/ StoreAsks
  <2>1. op'.kind = "put"
    BY <1>8 DEF BeginInsertIntoPage, NewOp
  <2> QED BY <1>3, <1>8, <2>1 DEF BeginInsertIntoPage, Begins, Inserting
<1>9. ASSUME NEW values, BeginBulk(values) PROVE StoreStays \/ StoreAsks
  <2>1. op'.kind = "load"
    BY <1>9 DEF BeginBulk, NewOp
  <2> QED BY <1>3, <1>9, <2>1 DEF BeginBulk, Begins, Inserting
<1>10. ASSUME NEW cond, BeginDelete(cond) PROVE StoreStays \/ StoreAsks
  <2>1. op'.kind = "delete" /\ op'.at = table.first_page_id
    BY <1>10 DEF BeginDelete, NewOp
  <2> QED BY <1>3, <1>10, <2>1 DEF BeginDelete, Begins
<1>11. ASSUME NEW p, NEW cond, BeginDeleteFromPage(p, cond) PROVE StoreStays \/ StoreAsks
  <2>1. op'.kind = "delete" /\ ~op'.goes_on
    BY <1>11 DEF BeginDeleteFromPage, NewOp
  <2> QED BY <1>3, <1>11, <2>1 DEF BeginDeleteFromPage, Begins
<1>12. ASSUME NEW nth, BeginDeleteNth(nth) PROVE StoreStays \/ StoreAsks
  <2>1. op'.kind = "delete_nth" /\ ~op'.goes_on
    BY <1>12 DEF BeginDeleteNth, NewOp
  <2>2. op = Idle /\ table' = table /\ pages' = pages /\ allocated' = allocated /\ failures' = failures
    BY <1>12 DEF BeginDeleteNth, Begins
  <2> QED BY <1>3, <2>1, <2>2
<1>13. CASE AddPage
  <2>1. op \in OpType /\ op.kind = "grow"
    BY <1>13, UnderWay DEF AddPage, TypesInv
  <2>2. op'.kind = "grown" /\ op'.values = op.values /\ failures' = failures
    BY <1>13, <2>1 DEF AddPage, OpType
  <2>3. StoreStays
    BY <1>1, <1>13, <2>1, <2>2, GrowingKeeps, InsertionsStay DEF Inserting
  <2> QED BY <2>3, StoreSteps
<1>14. CASE WriteTable \/ LoadToFill
  <2>1. op \in OpType /\ op.kind \in {"grown", "load"}
    BY <1>14, UnderWay DEF WriteTable, LoadToFill, TypesInv
  <2>2. op'.kind \in {"load", "put", "fill"} /\ op'.values = op.values
    BY <1>14, <2>1 DEF WriteTable, LoadToFill, OpType
  <2>3. failures' = failures /\ AllPlaces' = AllPlaces
    BY <1>2, <1>14 DEF WriteTable, LoadToFill
  <2>4. StoreStays
    BY <1>1, <2>1, <2>2, <2>3, InsertionsStay DEF Inserting
  <2> QED BY <2>4, StoreSteps
<1>15. CASE GrowRefused \/ Fails
  <2>1. StoreFails
    BY <1>2, <1>5, <1>15 DEF GrowRefused, Fails
  <2> QED BY <2>1, StoreSteps
<1>16. ASSUME op.kind \in {"put", "fill"}
       PROVE  op \in OpType /\ op.at \in allocated /\ allocated \subseteq PageIds /\ ~op.goes_on
  BY <1>1, <1>16, UnderWay, ListFacts DEF TypesInv, WhereInv, PartsInv
<1>17. CASE PutRefused
  <2>1. op.kind = "put" /\ op.values[1] \in Values
    BY <1>17 DEF PutRefused, IInv, OpInv
  <2> DEFINE r == Inserted(table.are_regs_fixed, pages[op.at], op.values[1])
  <2>2. ~r.ok /\ pages' = [pages EXCEPT ![op.at] = r.page] /\ allocated' = allocated
    BY <1>17 DEF PutRefused
  <2>3. AllPlaces' = AllPlaces
    BY <1>16, <2>1, <2>2, InsertionAdds DEF IInv, TypesInv
  <2>4. StoreFails
    BY <1>5, <1>17, <2>3 DEF PutRefused
  <2> QED BY <2>4, StoreSteps
<1>18. CASE Put
  <2>1. op.kind = "put" /\ Len(op.values) = 1 /\ op.values \in Seq(Values)
    BY <1>18 DEF Put, PartsInv, IInv, OpInv
  <2>2. op.values # <<>> /\ Head(op.values) = op.values[1] /\ Tail(op.values) = <<>>
    <3>1. ASSUME NEW s \in Seq(Values), Len(s) = 1
          PROVE  s # <<>> /\ Head(s) = s[1] /\ Tail(s) = <<>>
      <4>1. s # <<>>
        BY <3>1
      <4>2. Tail(s) \in Seq(Values) /\ Len(Tail(s)) = 0
        BY <3>1, <4>1
      <4>3. \A t \in Seq(Values) : Len(t) = 0 => t = <<>>
        OBVIOUS
      <4>4. Head(s) = s[1]
        BY <3>1, <4>1
      <4>5. Tail(s) = <<>>
        BY <4>2, <4>3, Zenon
      <4> QED BY <4>1, <4>4, <4>5
    <3> QED BY <2>1, <3>1
  <2>3. op'.kind = "upkeep" /\ ~op'.goes_on
    BY <1>16, <1>18, <2>1 DEF Put, OpType
  <2>4. Request' = Insertion(Tail(op.values))
    BY <1>6, <2>2, <2>3 DEF Asking, Insertion
  <2> DEFINE r == Inserted(table.are_regs_fixed, pages[op.at], Head(op.values))
  <2>5. r.ok /\ pages' = [pages EXCEPT ![op.at] = r.page]
    BY <1>18, <2>2 DEF Put
  <2>6. allocated' = allocated /\ failures' = failures
    BY <1>18 DEF Put
  <2>7. op.kind \in Inserting /\ op.at \in allocated
    BY <1>16, <2>1 DEF Inserting
  <2>8. PICK s : s = r
    OBVIOUS
  <2> HIDE DEF r
  <2>9. /\ s = Inserted(table.are_regs_fixed, pages[op.at], Head(op.values))
        /\ s.ok /\ pages' = [pages EXCEPT ![op.at] = s.page]
    BY <2>5, <2>8 DEF r
  <2>10. \E values, at : StoreInserts(values, at)
    BY <1>1, <2>2, <2>4, <2>6, <2>7, <2>9, InsertionInserts
  <2> QED BY <2>10, StoreSteps
<1>19. CASE FillRecord
  <2>1. op.kind = "fill" /\ op.values # <<>>
    BY <1>19 DEF FillRecord, FitsNext
  <2>2. op'.kind = "fill" /\ op'.values = Tail(op.values)
    BY <1>16, <1>19, <2>1 DEF FillRecord, OpType
  <2>3. Request' = Insertion(Tail(op.values))
    BY <1>6, <2>2 DEF Asking, Inserting
  <2>4. allocated' = allocated /\ failures' = failures
    BY <1>19 DEF FillRecord
  <2>5. op.kind \in Inserting /\ op.at \in allocated
    BY <1>16, <2>1 DEF Inserting
  <2>6. PICK s : s = Inserted(table.are_regs_fixed, pages[op.at], Head(op.values))
    OBVIOUS
  <2>7. s.ok /\ pages' = [pages EXCEPT ![op.at] = s.page]
    BY <1>19, <2>6 DEF FillRecord
  <2>8. \E values, at : StoreInserts(values, at)
    BY <1>1, <2>1, <2>3, <2>4, <2>5, <2>6, <2>7, InsertionInserts
  <2> QED BY <2>8, StoreSteps
<1>20. CASE LeavePage
  <2>1. op.kind = "fill" /\ failures' = failures /\ pages' = pages /\ allocated' = allocated
    BY <1>20 DEF LeavePage
  <2>2. CASE op.values = <<>>
    <3>1. op'.kind = "upkeep" /\ ~op'.goes_on
      BY <1>16, <1>20, <2>1, <2>2 DEF LeavePage, OpType
    <3>2. Request = Idle /\ Request' = Idle
      BY <1>6, <2>1, <2>2, <3>1 DEF Asking, Insertion, Inserting
    <3> QED BY <1>4, <2>1, <3>2, StoreSteps
  <2>3. CASE op.values # <<>>
    <3>1. op'.kind = "grow" /\ op'.values = op.values
      BY <1>16, <1>20, <2>1, <2>3 DEF LeavePage, OpType
    <3>2. StoreStays
      BY <1>1, <1>2, <2>1, <3>1, InsertionsStay DEF Inserting
    <3> QED BY <3>2, StoreSteps
  <2> QED BY <2>2, <2>3
<1>21. CASE DeleteInPage
  <2>1. \E asked, doomed, gone : StoreDeletes(asked, doomed, gone)
    BY <1>1, <1>21, DeletionDeletes
  <2> QED BY <2>1, StoreSteps
<1>22. CASE NextPage
  BY <1>1, <1>22, NextPageStays, StoreSteps
<1>29. CASE NextPageLost
  BY <1>1, <1>29, LostStrays, StoreSteps
<1>23. CASE IndexInsert \/ IndexRemove
  <2>1. StoreStays
    BY <1>1, <1>23, UpkeepStays DEF StoreStays, IndexInsert, IndexRemove
  <2> QED BY <2>1, StoreSteps
<1>24. CASE IndexRefuses
  <2>1. failures' > failures
    BY <1>1, <1>24 DEF IndexRefuses
  <2>2. StoreFails
    BY <1>1, <1>24, <2>1, UpkeepStays DEF StoreFails
  <2> QED BY <2>2, StoreSteps
<1>25. CASE ListIndex
  <2>1. op.kind = "none" /\ op'.kind = "read_all"
    BY <1>25 DEF ListIndex, Begins, Idle, NewOp
  <2>2. Request = Idle /\ Request' = Idle
    BY <1>6, <2>1 DEF Asking
  <2>3. StoreStays
    BY <1>4, <1>25, <2>2 DEF ListIndex
  <2> QED BY <2>3, StoreSteps
<1>26. CASE ReadAll
  <2>1. op.kind = "read_all" /\ op \in OpType /\ ~op.goes_on
    BY <1>26, UnderWay DEF ReadAll, TypesInv, PartsInv
  <2>2. op'.kind = "upkeep" /\ ~op'.goes_on
    BY <1>26, <2>1 DEF ReadAll, OpType
  <2>3. Request = Idle /\ Request' = Idle
    BY <1>6, <2>1, <2>2 DEF Asking
  <2>4. StoreStays
    BY <1>4, <1>26, <2>3 DEF ReadAll
  <2> QED BY <2>4, StoreSteps
<1>27. CASE Update \/ \E nth \in 0 .. Cardinality(Records) - 1 : UpdateNth(nth)
  <2>1. op = Idle /\ op' = Stopped /\ pages' = pages /\ allocated' = allocated
        /\ failures' = failures
    BY <1>27 DEF Update, UpdateNth, Begins
  <2>2. Request = Idle /\ Request' = Idle
    BY <1>6, <2>1 DEF Asking, Idle, Stopped
  <2> QED BY <1>4, <2>1, <2>2, StoreSteps
<1>28. CASE UNCHANGED vars
  <2>1. pages' = pages /\ allocated' = allocated /\ failures' = failures
    BY <1>28 DEF vars
  <2>2. Records' = Records /\ Request' = Request
    BY <1>28 DEF vars, Records, RecordsIn, RegsOf, Used, ListFrom, IsListFrom, Elements, Request,
                 Deletes, AskedRecords, DoomedRecords, Doomed, Nth
  <2> QED BY <2>1, <2>2, StoreSteps DEF StoreStays
<1> QED
  BY <1>7, <1>8, <1>9, <1>10, <1>11, <1>12, <1>13, <1>14, <1>15, <1>17, <1>18, <1>19, <1>20,
     <1>21, <1>22, <1>23, <1>24, <1>25, <1>26, <1>27, <1>28, <1>29, StoreSteps DEF Next

\* The table implements the store: bulk and single insertions, deletions over its pages, its
\* growth, the upkeep of the index and whatever fails, as RecordStore says.  A deletion that
\* loses its place and goes on at any other page still takes only what it was asked to.
THEOREM RecordsImplementStore == Spec => ImplementsRecordStore
<1>1. Init => Store!Init
  <2> SUFFICES ASSUME Init PROVE Store!Init
    OBVIOUS
  <2>1. \A p \in PageIds : Used(pages[p]) = {}
    BY DEF Init, NewPage, NewFixedPage, NewSlottedPage, Used, FreeSlot
  <2>2. Records = {}
    <3>1. ListInv /\ allocated \subseteq PageIds
      BY InitList, ListFacts, RecordsAssumption
    <3> QED BY <2>1, <3>1, RecordsAreAllPlaces DEF AllPlaces, PlacedIn
  <2>3. Request = Idle
    BY WhatIsAsked DEF Asking, Init, Idle
  <2> QED BY <2>2, <2>3 DEF Init, Store!Init, Store!NoRequest, Idle
<1>2. Init => PartsInv
  BY DEF Init, Idle, PartsInv
<1>3. IInv /\ TypesInv /\ PartsInv /\ [Next]_vars => PartsInv'
  BY NextParts DEF IInv, TypesInv
<1>4. IInv /\ TypesInv /\ IInv' /\ TypesInv' /\ PartsInv /\ [Next]_vars
        => [Store!Next]_(Store!storeVars)
  BY EveryStep, RecordsAssumption
<1> QED BY <1>1, <1>2, <1>3, <1>4, TypesInductive, PTL DEF Spec, ImplementsRecordStore, Store!Spec
=============================================================================
