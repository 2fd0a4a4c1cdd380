------------------------------- MODULE Records --------------------------------
(***************************************************************************)
(* The records of a table (src/src/megatron/sql_ops, pages): a list of     *)
(* pages, an index on a column, and the operations that keep both.         *)
(*                                                                         *)
(* A step goes from one load that may fail to the next; a failed load ends *)
(* the operation with what it did so far.  Pages are as the pool shows     *)
(* them (PageStore).  The index is any that keeps what IndexStore says: it *)
(* may also refuse what it is asked, as the hash does.                     *)
(***************************************************************************)
EXTENDS RecordPage, Bags

CONSTANTS
  MaxPages,    \* bound of the model: pages of the table
  MaxBulk,     \* bound of the model: records inserted at once
  MaxFailures  \* bound of the model: after so many failures only insertions begin, till one more

ASSUME RecordsAssumption == MaxPages \in Nat \ {0} /\ MaxBulk \in Nat /\ MaxFailures \in Nat

VARIABLES
  table,      \* what the page of the table holds
  pages,      \* what every page holds
  allocated,  \* the pages given to the table
  index,      \* if the catalog lists the index, and the bag of its entries
  pins,       \* the pins the operations have on every page
  op,         \* the operation under way
  failures    \* how often one ended early or the index refused

vars == <<table, pages, allocated, index, pins, op, failures>>

PageIds == 1 .. MaxPages

table_block_id == MaxPages + 1

\* At least the positions a page can have.
Slots == 1 .. max_n_regs + slotted_free_bytes \div sizeof_Slot

Ptrs == PageIds \X Slots

Idle == [kind |-> "none"]

\* An update that meets a record writes into a vector that was moved from, through a null
\* pointer: the program ends.
Stopped == [kind |-> "stopped"]

NewOp == [kind |-> "none", at |-> NULL_PAGE, values |-> <<>>, cond |-> {}, nth |-> 0,
          goes_on |-> FALSE, adds |-> FALSE, done |-> <<>>]

Pinned(p) == [pins EXCEPT ![p] = @ + 1]

\* Faulty: not the page that was pinned.
UnpinnedTable(p) == [pins EXCEPT ![table_block_id] = @ - 1]

Unpinned(p) == [pins EXCEPT ![p] = @ - 1]

\* The pages of a list that begins with p, the last of which has none after it.
IsListFrom(list, p) ==
  /\ p = IF list = <<>> THEN NULL_PAGE ELSE list[1]
  /\ \A i \in DOMAIN list :
       pages[list[i]].next_block_id = IF i = Len(list) THEN NULL_PAGE ELSE list[i + 1]

ListFrom(p) ==
  CHOOSE list \in UNION {[1 .. n -> PageIds] : n \in 0 .. MaxPages} : IsListFrom(list, p)

Elements(s) == {s[i] : i \in DOMAIN s}

\* A set of records, each with its pointer, in the order they are read.
RecordsIn(list) ==
  UNION {{<<r[1], <<p, r[2]>>>> : r \in RegsOf(pages[p])} : p \in Elements(list)}

Records == RecordsIn(ListFrom(table.first_page_id))

\* Sequences of at most n records.
UpTo(n) == UNION {[1 .. k -> Values] : k \in 1 .. n}

\* The positions in ascending order, and the records of page p there.
InOrder(positions) ==
  [k \in 1 .. Cardinality(positions) |->
     CHOOSE i \in positions : Cardinality({j \in positions : j < i}) = k - 1]

\* Faulty: one too few.
EntriesButLast(p, positions) ==
  [k \in 1 .. Cardinality(positions) - 1 |->
     LET i == InOrder(positions)[k] IN <<pages[p].slots[i].value, <<p, i>>>>]

Entries(p, positions) ==
  [k \in 1 .. Cardinality(positions) |->
     LET i == InOrder(positions)[k] IN <<pages[p].slots[i].value, <<p, i>>>>]

TypeOK ==
  /\ table.are_regs_fixed \in BOOLEAN
  /\ table.first_page_id \in PageIds
  /\ table.last_page_id \in PageIds
  /\ allocated \in SUBSET PageIds
  /\ \A p \in PageIds :
       /\ pages[p].next_block_id \in {NULL_PAGE} \cup PageIds
       /\ pages[p].n_regs \in Nat
       /\ pages[p].free_space \in Nat
       /\ pages[p].free_bytes \in Nat
       /\ \A i \in DOMAIN pages[p].slots : pages[p].slots[i].is_used => pages[p].slots[i].value \in Values
  /\ index.is_listed \in BOOLEAN
  /\ IsABag(index.entries) /\ BagToSet(index.entries) \subseteq Values \X Ptrs
  /\ pins \in [PageIds \cup {table_block_id} -> Nat]
  /\ failures \in Nat

\* create_table: the first page is also the last.
Init ==
  /\ table \in [are_regs_fixed : BOOLEAN, first_page_id : {1}, last_page_id : {1}]
  /\ pages = [p \in PageIds |-> NewPage(table.are_regs_fixed)]
  /\ allocated = {1}
  /\ index = [is_listed |-> FALSE, entries |-> EmptyBag]
  /\ pins = [p \in PageIds \cup {table_block_id} |-> 0]
  /\ op = Idle
  /\ failures = 0

Begins == op = Idle /\ failures < MaxFailures
-----------------------------------------------------------------------------
(* Insertions.                                                             *)

\* get_insertable_page_id: where in the list there is room.
Insertable(v) ==
  LET list == ListFrom(table.first_page_id)
  IN  {i \in DOMAIN list : pages[list[i]].free_space >= Asked(table.are_regs_fixed, v)}

BeginInsert(v) ==
  /\ op = Idle
  /\ failures <= MaxFailures
  /\ \/ /\ Insertable(v) = {}
        /\ op' = [NewOp EXCEPT !.kind = "grow", !.values = <<v>>]
     \/ \E i \in Insertable(v) :
          /\ \A j \in Insertable(v) : i <= j
          /\ op' = [NewOp EXCEPT !.kind = "put", !.at = ListFrom(table.first_page_id)[i],
                                 !.values = <<v>>]
  /\ UNCHANGED <<table, pages, allocated, index, pins, failures>>

\* buf_insert_line: in a page of the user's choice.
BeginInsertIntoPage(p, v) ==
  /\ Begins
  /\ op' = [NewOp EXCEPT !.kind = "put", !.at = p, !.values = <<v>>]
  /\ UNCHANGED <<table, pages, allocated, index, pins, failures>>

\* bulk_insert: from the last page on.
BeginBulk(values) ==
  /\ Begins
  /\ op' = [NewOp EXCEPT !.kind = "load", !.at = table.last_page_id, !.values = values]
  /\ UNCHANGED <<table, pages, allocated, index, pins, failures>>

\* add_new_page_to_table, up to the link to the new page.  With no free block left
\* FullDisk shows what happens instead.
AddPage ==
  /\ op.kind = "grow"
  /\ pages[table.last_page_id].next_block_id = NULL_PAGE
  /\ \E p \in PageIds \ allocated :
       /\ \A q \in PageIds \ allocated : p <= q
       /\ allocated' = allocated \cup {p}
       /\ pages' = [pages EXCEPT ![p] = NewPage(table.are_regs_fixed),
                                 ![table.last_page_id].next_block_id = p]
       /\ op' = [op EXCEPT !.kind = "grown", !.at = p]
  /\ pins' = Pinned(table.last_page_id)
  /\ UNCHANGED <<table, index, failures>>

\* Faulty: the new page is in the list, and the table does not know.
TableAsBefore(p) == table

TableWith(p) == [table EXCEPT !.last_page_id = p]

\* The page of the table is written, and both pages are given back.
WriteTable ==
  /\ op.kind = "grown"
  /\ table' = TableWith(op.at)
  /\ pins' = Unpinned(table.last_page_id)
  /\ op' = [op EXCEPT !.kind = IF op.goes_on THEN "load" ELSE "put"]
  /\ UNCHANGED <<pages, allocated, index, failures>>

\* The last page the table knows has one after it, since an earlier operation could not
\* write the page of the table.
GrowRefused ==
  /\ op.kind = "grow"
  /\ pages[table.last_page_id].next_block_id # NULL_PAGE
  /\ pins' = Pinned(table.last_page_id)
  /\ op' = Idle
  /\ failures' = failures + 1
  /\ UNCHANGED <<table, pages, allocated, index>>

\* insert_into_fixed_page and insert_into_slotted_page.
Put ==
  /\ op.kind = "put"
  /\ LET r == Inserted(table.are_regs_fixed, pages[op.at], op.values[1])
     IN  /\ r.ok
         /\ pages' = [pages EXCEPT ![op.at] = r.page]
         /\ op' = [op EXCEPT !.kind = "upkeep", !.adds = TRUE, !.values = <<>>,
                             !.done = <<<<op.values[1], <<op.at, r.slot>>>>>>]
  /\ UNCHANGED <<table, allocated, index, pins, failures>>

\* The page has no room, and stays pinned, perhaps with one more slot.
PutRefused ==
  /\ op.kind = "put"
  /\ LET r == Inserted(table.are_regs_fixed, pages[op.at], op.values[1])
     IN  ~r.ok /\ pages' = [pages EXCEPT ![op.at] = r.page]
  /\ pins' = Pinned(op.at)
  /\ op' = Idle
  /\ failures' = failures + 1
  /\ UNCHANGED <<table, allocated, index>>

\* A page of bulk_insert_fixed or bulk_insert_slotted.
LoadToFill ==
  /\ op.kind = "load"
  /\ pins' = Pinned(op.at)
  /\ op' = [op EXCEPT !.kind = "fill", !.goes_on = FALSE]
  /\ UNCHANGED <<table, pages, allocated, index, failures>>

FitsNext ==
  op.values # <<>> /\ pages[op.at].free_bytes >= Asked(table.are_regs_fixed, Head(op.values))

FillRecord ==
  /\ op.kind = "fill"
  /\ FitsNext
  /\ LET r == Inserted(table.are_regs_fixed, pages[op.at], Head(op.values))
     IN  /\ r.ok
         /\ pages' = [pages EXCEPT ![op.at] = r.page]
         /\ op' = [op EXCEPT !.values = Tail(@),
                             !.done = Append(@, <<Head(op.values), <<op.at, r.slot>>>>)]
  /\ UNCHANGED <<table, allocated, index, pins, failures>>

\* It is given back, for the indexes to follow or a new page.
LeavePage ==
  /\ op.kind = "fill"
  /\ ~FitsNext
  /\ pins' = Unpinned(op.at)
  /\ op' = IF op.values = <<>> THEN [op EXCEPT !.kind = "upkeep", !.adds = TRUE]
           ELSE [op EXCEPT !.kind = "grow", !.goes_on = TRUE]
  /\ UNCHANGED <<table, pages, allocated, index, failures>>
-----------------------------------------------------------------------------
(* Deletions.                                                              *)

BeginDelete(cond) ==
  /\ Begins
  /\ op' = [NewOp EXCEPT !.kind = "delete", !.at = table.first_page_id, !.cond = cond,
                         !.goes_on = TRUE]
  /\ UNCHANGED <<table, pages, allocated, index, pins, failures>>

\* buf_delete_condition: in a page of the user's choice.
BeginDeleteFromPage(p, cond) ==
  /\ Begins
  /\ op' = [NewOp EXCEPT !.kind = "delete", !.at = p, !.cond = cond]
  /\ UNCHANGED <<table, pages, allocated, index, pins, failures>>

\* delete_nth_reg: the page is found by the number of records its header gives.  A page
\* and a number of the user's choice (buf_delete_nth) give the same.
BeginDeleteNth(nth) ==
  /\ Begins
  /\ LET list == ListFrom(table.first_page_id)
         before[k \in 0 .. Len(list)] == IF k = 0 THEN 0 ELSE before[k - 1] + pages[list[k]].n_regs
     IN  \E k \in 1 .. Len(list) : \E n \in 0 .. pages[list[k]].n_regs - 1 :
           /\ before[k - 1] + n = nth
           /\ op' = [NewOp EXCEPT !.kind = "delete_nth", !.at = list[k], !.nth = n]
  /\ UNCHANGED <<table, pages, allocated, index, pins, failures>>

\* The positions op takes from its page.
Doomed ==
  IF op.kind = "delete_nth" THEN Nth(pages[op.at], op.nth)
  ELSE {i \in Used(pages[op.at]) : pages[op.at].slots[i].value \in op.cond}

\* delete_from_page or delete_nth_from_page, up to the indexes.
DeleteInPage ==
  /\ op.kind \in {"delete", "delete_nth"}
  /\ pages' = [pages EXCEPT ![op.at] = Deleted(table.are_regs_fixed, @, Doomed)]
  /\ op' = [op EXCEPT !.kind = "upkeep", !.adds = FALSE, !.done = Entries(op.at, Doomed)]
  /\ UNCHANGED <<table, allocated, index, pins, failures>>

\* delete_condition goes on to the page after, which it reads from the page it gave back.
NextPage ==
  /\ op.kind = "upkeep"
  /\ op.done = <<>> \/ ~index.is_listed
  /\ LET next == pages[op.at].next_block_id
     IN  op' = IF ~op.goes_on \/ next = NULL_PAGE THEN Idle
               ELSE [op EXCEPT !.kind = "delete", !.at = next, !.done = <<>>]
  /\ UNCHANGED <<table, pages, allocated, index, pins, failures>>

\* When the upkeep of the indexes had that page evicted, what is read there is what its bytes
\* were given to, often the header of a page loaded since: the deletion ends early, or goes on
\* at any page of the table, or at what is no page of it.  What it changes there is not part
\* of the model, which stops.
NextPageLost ==
  /\ op.kind = "upkeep"
  /\ op.done = <<>> \/ ~index.is_listed
  /\ op.goes_on
  /\ \/ op' \in {Idle, Stopped}
     \/ /\ failures < MaxFailures
        /\ \E p \in allocated : op' = [op EXCEPT !.kind = "delete", !.at = p, !.done = <<>>]
  /\ failures' = failures + 1
  /\ UNCHANGED <<table, pages, allocated, index, pins>>
-----------------------------------------------------------------------------
(* The index.                                                              *)

Indexing == op.kind = "upkeep" /\ op.done # <<>> /\ index.is_listed

\* insert_set_index or insert_set_hash, for a record.
IndexInsert ==
  /\ Indexing
  /\ op.adds
  /\ index' = [index EXCEPT !.entries = @ (+) SetToBag({Head(op.done)})]
  /\ op' = [op EXCEPT !.done = Tail(@)]
  /\ UNCHANGED <<table, pages, allocated, pins, failures>>

\* delete_set_index: the index is given the key only, and takes an entry that has it,
\* perhaps that of another record.
IndexRemove ==
  /\ Indexing
  /\ ~op.adds
  /\ \E e \in BagToSet(index.entries) :
       /\ e[1] = Head(op.done)[1]
       /\ index' = [index EXCEPT !.entries = @ (-) SetToBag({e})]
  /\ op' = [op EXCEPT !.done = Tail(@)]
  /\ UNCHANGED <<table, pages, allocated, pins, failures>>

\* The index does not do what it was asked, and does not say so.
IndexRefuses ==
  /\ Indexing
  /\ op' = [op EXCEPT !.done = Tail(@)]
  /\ failures' = failures + 1
  /\ UNCHANGED <<table, pages, allocated, index, pins>>

\* add_index_to_table: the index, empty, is listed in the catalog...
ListIndex ==
  /\ Begins
  /\ ~index.is_listed
  /\ index' = [index EXCEPT !.is_listed = TRUE]
  /\ op' = [NewOp EXCEPT !.kind = "read_all"]
  /\ UNCHANGED <<table, pages, allocated, pins, failures>>

\* The records of all the pages of a list.
EntriesOfPages(list) ==
  LET upTo[k \in 0 .. Len(list)] ==
        IF k = 0 THEN <<>> ELSE upTo[k - 1] \o Entries(list[k], Used(pages[list[k]]))
  IN  upTo[Len(list)]

\* ...and then given every record.
ReadAll ==
  /\ op.kind = "read_all"
  /\ op' = [op EXCEPT !.kind = "upkeep", !.adds = TRUE,
                      !.done = EntriesOfPages(ListFrom(table.first_page_id))]
  /\ UNCHANGED <<table, pages, allocated, index, pins, failures>>
-----------------------------------------------------------------------------
\* update_condition and update_from_page change nothing unless they find a record.
Update ==
  /\ Begins
  /\ Records # {}
  /\ op' = Stopped
  /\ UNCHANGED <<table, pages, allocated, index, pins, failures>>

\* update_nth_reg and update_nth_from_page neither.
UpdateNth(nth) ==
  /\ Begins
  /\ \E p \in allocated : Nth(pages[p], nth) # {}
  /\ op' = Stopped
  /\ UNCHANGED <<table, pages, allocated, index, pins, failures>>

\* What may fail: the load of a page, of a new one, of those of the catalog and the index,
\* and reading a record of a bulk insertion, with its page pinned.  A new page leaves the
\* last one pinned.
Fails ==
  /\ op.kind \notin {"none", "stopped"}
  /\ \/ UNCHANGED pins
     \/ /\ op.kind = "grow"
        /\ pages[table.last_page_id].next_block_id = NULL_PAGE
        /\ pins' = Pinned(table.last_page_id)
  /\ op' = Idle
  /\ failures' = failures + 1
  /\ UNCHANGED <<table, pages, allocated, index>>

Next ==
  \/ \E v \in Values : BeginInsert(v)
  \/ \E p \in allocated, v \in Values : BeginInsertIntoPage(p, v)
  \/ \E values \in UpTo(MaxBulk) : BeginBulk(values)
  \/ \E cond \in SUBSET Values \ {{}} : BeginDelete(cond)
  \/ \E p \in allocated, cond \in SUBSET Values \ {{}} : BeginDeleteFromPage(p, cond)
  \/ \E nth \in 0 .. Cardinality(Records) - 1 : BeginDeleteNth(nth)
  \/ AddPage
  \/ WriteTable
  \/ GrowRefused
  \/ Put
  \/ PutRefused
  \/ LoadToFill
  \/ FillRecord
  \/ LeavePage
  \/ DeleteInPage
  \/ NextPage
  \/ NextPageLost
  \/ IndexInsert
  \/ IndexRemove
  \/ IndexRefuses
  \/ ListIndex
  \/ ReadAll
  \/ Update
  \/ \E nth \in 0 .. Cardinality(Records) - 1 : UpdateNth(nth)
  \/ Fails

Spec == Init /\ [][Next]_vars
-----------------------------------------------------------------------------
(* Properties.                                                             *)

\* What the headers of a page tell is so, both the same, and what they promise can be done;
\* its records keep apart.
PagesAreSound ==
  \A p \in PageIds :
    /\ Accounted(table.are_regs_fixed, pages[p])
    /\ Apart(table.are_regs_fixed, pages[p])

\* Every page given to the table is in its list, once, whatever failed; the table knows
\* the last one, or after a failure the one before.
ListIsWhole ==
  LET list == ListFrom(table.first_page_id)
      n == Len(list)
  IN  /\ Elements(list) = allocated
      /\ n = Cardinality(allocated)
      /\ \/ table.last_page_id = list[n]
         \/ /\ op.kind = "grown" \/ failures > 0
            /\ n > 1 /\ table.last_page_id = list[n - 1]

EntriesOf(v) == {e \in BagToSet(index.entries) : e[1] = v}

\* Every one as often as the bag has it.
CopiesOf(v) == UNION {{e} \X (1 .. index.entries[e]) : e \in EntriesOf(v)}

RecordsWith(v) == {r \in Records : r[1] = v}

\* As long as nothing fails, the index has as many entries for a value as there are
\* records with it, although a removal may take the entry of another.
KeysAgree ==
  op = Idle /\ failures = 0 /\ index.is_listed =>
    \A v \in Values : Cardinality(CopiesOf(v)) = Cardinality(RecordsWith(v))

\* An operation that is not cut short gives back every pin it took.
PinsReturned == op = Idle /\ failures = 0 => \A p \in DOMAIN pins : pins[p] = 0

\* What is still to be deleted, as long as the deletion keeps its place.
DoomedRecords ==
  IF op.kind = "delete_nth" THEN {<<pages[op.at].slots[i].value, <<op.at, i>>>> : i \in Doomed}
  ELSE LET list == IF op.kind = "upkeep" THEN ListFrom(pages[op.at].next_block_id)
                   ELSE IF op.goes_on THEN ListFrom(op.at)
                   ELSE <<op.at>>
       IN  {r \in RecordsIn(list) : r[1] \in op.cond}

\* All that it may take.
AskedRecords == IF op.goes_on THEN {r \in Records : r[1] \in op.cond} ELSE DoomedRecords

Deletes ==
  \/ op.kind \in {"delete", "delete_nth"}
  \/ op.kind = "upkeep" /\ op.goes_on

Request ==
  IF op.kind \in {"put", "grow", "grown", "load", "fill"} /\ op.values # <<>>
  THEN [kind |-> "insert", values |-> op.values]
  ELSE IF Deletes THEN [kind |-> "delete", asked |-> AskedRecords, doomed |-> DoomedRecords]
  ELSE Idle

Store == INSTANCE RecordStore WITH records <- Records, request <- Request

\* The pages are a table: every value inserted gets a place of its own, a deletion takes
\* no records but those it was asked to take, and all of them unless it is cut short or
\* loses its place in the list, and growing moves nothing.
ImplementsRecordStore == Store!Spec

\* What the pointers of the index give for v: select takes the place in a pointer for the
\* number of the record among those of its page.
SelectByIndex(v) ==
  UNION {{<<pages[e[2][1]].slots[i].value, <<e[2][1], i>>>> :
            i \in Nth(pages[e[2][1]], e[2][2] - 1)} : e \in EntriesOf(v)}

\* sql_selects.cpp:61: with the index, a selection gives what it gives without.
SelectAgrees ==
  op = Idle /\ failures = 0 /\ index.is_listed =>
    \A v \in Values : SelectByIndex(v) = RecordsWith(v)
=============================================================================
