# SGBD: a TLA+ development

SGBD is a small relational database manager (C++23, one thread, menus on the terminal)
over a simulated disk. This directory holds TLA+ modules translated from its source, the
TLC configurations that check them on small instances, and TLAPS proofs of what matters
most for every size of pool and disk. Paths below are relative to the repository.

## 1. The system

| Part | Code | State | Operations |
|---|---|---|---|
| Disk manager | `src/disk_manager`, `include/disk_manager.hpp`, `include/block_map.hpp` | one file per sector, the file `free_space_bitmap`; in memory the bitmap and the block map | new, load, persist, destructor; read and write a block or a sector; find, reserve a free block |
| Buffer pool | `src/buffer_manager`, `include/buffer` | `frame_map`, `frame_slots`, `lru_list`, `clock_hand` | `load_pin_page`, `get_load_free_frame`, `free_unpin_page`, `flush_all`, `clear`, `set_fixed_pin`; eviction by LRU or clock, silent or asking the user |
| Buffer menu | `src/megatron/ui.cpp`, `src/megatron/ui/buffer_interact.cpp` | the queue of processes of each frame (`ops_queue`) | load for reading or writing, fix, flush, clear, page operations |
| Session | `src/megatron/megatron.cpp` | the two managers | new disk, load disk, close, change the number of frames |
| Directory and catalog | `src/megatron/sql_ops/sql_ops.cpp`, `include/serial/sector1.hpp`, `include/serial/table.hpp` | sector 1 (names and pages of tables), a page of metadata per table | create table, search table |
| Heap pages | `src/megatron/pages`, `include/serial` | a list of pages per table; fixed pages with a bitmap, slotted pages with a slot directory | new page, add a page, find room, insert, delete, n-th record |
| Hash index | `src/megatron/hashes`, `include/hash` | a directory page, bucket pages with overflow chains | insert, remove, search, split, expand |
| B+ tree index | `src/megatron/bptree`, `include/bptree` | node pages, leaves linked | insert, remove, search, split |
| Record operations | `src/megatron/sql_ops` | none of their own | insert, select, update, delete, bulk load; index creation and upkeep |
| Conditions | `include/comparison.hpp` | a list of comparisons | evaluate; the bounds a tree is searched with |
| Board | `src/board` | tables of threads and posts | an application of the record operations |

Everything above the pool reaches the disk through it: an operation loads a page, which
pins it, works on the bytes of the frame through a reference, and unpins it, saying whether
it changed it. The exceptions are the directory, which `create_table` writes straight to
sector 1, and the bitmap, which stays in memory until `persist`. There are no threads and
no messages. What makes the system hard is

* **references and pins**: a reference into a frame is valid while its pin lasts. Operations
  return early or throw, the menus catch, and pins are left behind;
* **replacement**: the victim, its slot, its list entry, its dirty flag and the clock's hand
  are changed by separate statements, differently under each policy;
* **who owns a free block**: `get_free_block` reserves nothing. A block given out is safe
  only because its page is in the pool, and later because the write-back marks it;
* **state kept twice**: bits and block flags; map, slots and list; processes and pins; the
  bitmap in memory and in its file, saved by destructors that run late;
* **crashes**: sectors are flushed one at a time, the directory at once, the pages at
  eviction, the bitmap at the end;
* **arithmetic of layouts**: geometry to blocks, records to bitmap, keys to buckets and nodes.

`PROJECT.json` lists these hazards at their lines, with the properties that cover them.

### What makes each part correct

* Disk: every sector belongs to at most one block, and the reserved ones to none; a used
  block is marked in both places; a restart finds what was saved; a crash damages at most
  the block being written.
* Pool: what a reader of a page sees never changes because of a load, an eviction, a
  write-back or an error; a pinned page does not move; a page given out as new has one owner.
* Buffer menu: each listed process holds its page; the rounds of questions end.
* Session and directory: a table that can be named can be read, also after a restart.
* Heap pages: records of a page do not overlap, its free space is what its header says, and
  the list of pages of a table ends.
* Indexes: a search finds exactly the records with the keys asked for.
* Records: an operation changes the records it was asked to and no others, also when it is cut
  short; heap and indexes agree after every operation that is not; a selection gives the same
  with an index as without.

## 2. The modules

| Module | Stands for | Kind |
|---|---|---|
| `BlockStore` | what the disk promises to the pool | abstract specification |
| `DiskManager` | the disk, down to sectors and files, with crashes | implements `BlockStore` |
| `BlockDevice` | the disk as the pool uses it: blocks and used flags | part of `BufferManager` |
| `PageStore` | what the pool promises to heap pages and indexes | abstract specification |
| `BufferManager` | the pool with a client that takes references, changes pages, leaks pins and throws | implements `PageStore` |
| `MCBufferManager` | the small instance of it that TLC checks | model |
| `FullDisk` | `get_load_free_frame` in the geometry where it returns a page on a full disk | violation |
| `BufferSession` | the pool under the interactive menu: processes, questions, rounds | extends `BufferManager` |
| `IndexStore` | what an index promises to the record operations | abstract specification |
| `Conditions` | comparisons, and the bounds a search of the tree takes from them | part of `BPTree` |
| `BPTree` | the B+ tree: nodes on pages, splits, removal, search, pins | implements `IndexStore` |
| `ExtendibleHash` | the hash index: directory, buckets, overflow chains, pins | implements `IndexStore`, see below |
| `RecordPage` | fixed and slotted pages: new pages, insertions, deletions, the room they tell | part of `Records` |
| `RecordStore` | what a table promises | abstract specification |
| `Records` | a table: list of pages, an index, the operations on records, failures between their steps | implements `RecordStore` |
| `MCRecords` | the small table that TLC checks | model |
| `Induction` | induction over the numbers of a set, counting, functions defined step by step | lemmas |
| `BufferManagerProofs` | the inductive invariant of the pool, pinned pages, `PageStore` | proofs |
| `BufferSessionProofs` | processes and pins of the menu | proofs |
| `DiskManagerProofs` | the layout in every geometry, flags and bits, `BlockStore` | proofs |
| `RecordPageProofs` | insertions and deletions keep a page sound | proofs |
| `RecordsProofs` | sound pages, the whole list, the index in step, `RecordStore` | proofs |
| `ExtendibleHashProofs` | the directory is complete, no page is lost, pins are returned, every step but a deep split and a wrap is one of an index | proofs |
| `BPTreeProofs` | form of the nodes, pins, order of the keys, the refinement of `IndexStore` | proofs |

They compose in layers. `DiskManager` implements `BlockStore`, which is what `BlockDevice`
lets `BufferManager` use; `BufferManager` implements `PageStore`, and the modules above it take
pages as `PageStore` shows them: a page changes only under an operation that holds it. `BPTree`
and `ExtendibleHash` are held to `IndexStore`, and `Records` uses any index that keeps what
`IndexStore` says, or refuses.

### Disk (`DiskManager`)

`sectors` and `bitmap_file` are the files; `free_space_bitmap` and `blocks` the members of
the object. `create_free_block_map` is the triple loop of the code: `Position` walks
surfaces, then sectors, then cylinders, `Group` fills a block and closes it. `write_block` is
one action for its call, one per sector (each is flushed) and one for `set_block_used`, so
that `Crash` can fall between any two; `store_fsb` is two actions, because opening the file
empties it. `NewDisk` and `LoadDisk` include what the destructor of the manager they replace
does afterwards. They and `CloseDisk` are single steps: a crash while they store the bitmap is the
one in `store_fsb`, and a crash while the files of a new disk are written, or those of an old one
read, is not in the model. `get_free_block` keeps its loop bound, `TOTAL_BLOCKS`, and the exception
it meets when the map is shorter.

Contents of sectors are two values, `Zero` being that of a new disk. The text twins of the
files are left out.

### Pool (`BufferManager`)

The variables are the members of the class, plus three that stand for its client: `held`,
the references the running operation has not returned; `unmarked`, the pages changed since
their last dirty unpin; `owners`, how many structures were given each page. They are history
variables, and no action of the pool reads them; they say which calls the client can make.

`LoadPinHit`, `LoadPinMiss`, `LoadPinThrows` and `LoadPinInvalid` are the four ways through
`load_pin_page`; `Miss` has the eviction and the load as one step, as nothing can come
between. `GetLoadFreeFrame` takes the first free block outside the pool. `FreeUnpin` is
`free_unpin_page` by a caller that reports its own changes, as every caller in the code does, and
that has a reference to give back. The indexes unpin twice in some places (`bptree/insert.cpp:61`
after `split.cpp:56`, `hashes/insert.cpp:61`), which could take the pin of another holder.
That is left out, here and in `BufferSession`: the pages are those of an index, whose bytes change
only inside the unload, and which no other operation holds. A process that a user of the menu
listed for such a page could lose its pin that way.
`ReturnEarly` and `Unwind` leak pins: an early return before the unpin, and an exception that
a menu catches. `Clear` is the menu's "does not save".

The clock is given by a closed form (`ClockVictim`, `PassedBefore`, `HandAfter`), which is
what the other proofs use, and by the loop as written (`evict_page_Clock`), a function of what the
loop has: the turn, the hand and the bits it has cleared. `ClockLoopAgrees` says that they are the
same in every reachable state; it is checked and proved.

`PageStore` lends pages: only a page that somebody has a reference to changes for its
readers, whatever is evicted or written meanwhile. `PageView`, the frame's bytes or else the
block's, and `References` map the pool to it.

`TOTAL_BLOCKS > N_BLOCKS` is assumed: the usual case, in which the sectors left over and the
two reserved ones cost a block. `FullDisk` instantiates the same module with the two equal,
where the last return of `get_load_free_frame` can be reached.

### Buffer menu (`BufferSession`)

`ops_queue` is the deque of each frame. A page option of the menu is a load that is given
back clean (`read`), given back changed (`change`), or that throws in between (`throw`,
insertion into a page without room). An eviction is a sequence of steps, one page looked
at in each: `Refuse`, `Terminate`, `PassOver`, `EvictAndLoad`. A pin without a process makes
the code pop an empty deque; `overrun` remembers the pages whose queue that happened to, and
`front()` and `back()` of it then give anything.

The menu saves and empties the pool before it starts, so `SessionInit` is an empty pool
over pages in use. When the session ends with dirty flags lost, the rest of the program
starts from a pool for which `CleanMatchesDisk` may fail: composing the two is excluded.

### B+ tree (`BPTree`)

`nodes` holds the arrays of every node as its page has them, what is past `n_keys`
included, because the code reads it. A step goes from one load that may fail to the next:
between them the code works on copies of nodes and nothing else runs. `CopyRoot` and
`SplitRoot` are `split_root`, `SplitAndInsertBelow` an insertion that finds a full child;
`SplitChild` is `split_child` with its differences between leaves and inner nodes. The
shifts of the arrays are `Opened` and `WithoutEntry`. `pins` counts the tree's own pins;
`LoadFails` leaves what the exception leaves. Search changes nothing and is the operator
`search`, which takes its two bounds from a condition (`Conditions`): the first lower one leads
down to a leaf, and the leaves are read until the first upper one fails. `SearchIsExact` asks it
for every single bound and every closed range, what the board asks for. What a condition says
beyond that, the code does not look at. The pins a search takes and gives back, and its loads that
fail, are left out. Keys are numbers: of CHAR and VARCHAR the code defines `<`, `>`, `<=` and `>=`
all as `==` (`include/types/types.hpp`), and a tree on such a column is not modelled.

The tree refines `IndexStore` through `Entries`, what its leaves hold, and `Request`, what it
was asked: a split is invisible, an insertion adds its own entry, a removal takes one entry
with its key, and an operation that fails changes nothing.

A removal looks left of a separator equal to its key, while insertion puts the key right of
it. The leaf on the left may end with no such key, and then the removal returns with the leaf
pinned, or it may have the key as a leftover past its last one, and then the removal takes
another entry. `Spec` has both. `RegularSpec` excludes the second, so that what else the
tree does can be checked: what it loses is the finding. In both the key of a removal is that of a
record just deleted (`HasRecord`); an operation that was cut short may have left that record without
an entry, so after a failure it is any key.

### Hash index (`ExtendibleHash`)

`directory` and `buckets` are what the pages hold; places of a bucket are an array, because
an insertion takes the first free one. The key is the number its bytes make, and `hash_key` its
low bits. `HowToInsert` is the decision of `insert`; a split is one action, as nothing it does
after its last load can fail, and an insertion into a chain of overflow buckets is one action per
bucket on the way down and one (`Relink`) on the way back, where every full bucket is unloaded a
second time. What the code does wrong is in the model: the key that caused a split is not
inserted (`SplitBucket`), a removal edits a copy that is not written back (`Cleared`), and
`Relink` gives back a pin too many.

The size of a bucket is one byte: `Put` and `SplitOld` count modulo `SizeValues`, which is 256, and
the capacity may be anything. With the board's blocks of 4000 bytes and its 8-byte keys it is
above 255. Such a bucket is never full, and never splits; when its size wraps, a search, which
stops when it has found as many as the size (`FoundIn`), finds some of its entries no more, and
when its places are used up an insertion puts its entry nowhere.

So the index refines `IndexStore` only in part, and the property says in which. `Regular` is
"every entry of the directory leads to the bucket of its prefix, and no size has wrapped". A split
redirects one entry, which is all the new bucket needs when the old one is at most one level above
the directory (else it `SplitsDeep`); an insertion is found unless it `SizeWraps`.
`IndexWhileRegular`: while `Regular` holds, every step but those two keeps it and is one
of `IndexStore`. That an insertion or a removal is not done is allowed there (a request that fails
changes nothing); that it loses, moves or makes up another entry is not.

### Pages of records (`RecordPage`)

One record type serves both kinds of page: both counts of free bytes (page header and data
header), `n_regs`, the offset where free space ends, and `slots`, which are the bits and places
of a fixed page or the slots of a slotted one. Bytes of records are their values, and
`Apart` says what makes that right. `sizeof_PageHeader` and `sizeof_Slot` are 24, what `sizeof`
gives for structs of three references; on the page the code lays out 10 and 5 bytes. The code
uses now one, now the other, and `Apart` and `Accounted` are checked with each where the code has
it. `bitmap_size` is the loop of `calc_free_bytes_max_regs`; `BitmapSettles` assumes that it ends,
which for some sizes it does not.

`InSlotted` refuses in two places, before a slot is added and after, when the slot stays.

### Tables (`Records`)

A step goes from one load that may fail to the next. `op` is the operation under way and what is
left of it: an insertion finds its page (`BeginInsert`) or adds one (`AddPage`, `WriteTable`), puts
the record, and brings the index up to date; a bulk insertion fills page after page; a deletion
goes along the list, one page a step. `Fails` ends any of them between two steps.
`NextPageLost` is `delete_condition` reading the next page from one it gave back: the upkeep of
the indexes loads pages, and in any pool smaller than what it loads that page may be gone. Its
bytes are then freed, and often taken by a page loaded since, so that the number read is a link
of another page, or anything. The deletion ends early, or goes on at any page of the table, passed
or not, first or last; what it would do in a page that is not of the table is outside the module,
where the program is `Stopped`.

An update that meets a record ends the program: it writes into a vector it has moved from.
`Update` and `UpdateNth` lead to `Stopped`, and the code behind that write is not modelled.

The catalog is one flag, `is_listed`, for one index on the column the values stand for. The
index is a bag of entries that keeps `IndexStore`'s promise: it adds the entry it is given, takes
away one with the key it is given, or refuses. That a removal passes only the key is in the code,
and why `KeysAgree` compares numbers of entries and not the entries.

The table refines `RecordStore`: `Records` reads the pages along the list, and `Request` is what
`op` still has to do: of a deletion, the records it may take (`asked`) and those in its way
(`doomed`). Growing, leaving a page or keeping an index is a stutter. A deletion that loses its
place gets other records in its way, or none, all of which it was asked to take: `RecordStore`
promises that no other record goes, and not that none of them stays.

## 3. What is checked

| Run | Instance | Shows |
|---|---|---|
| `buffer_manager` | 2 frames, 3 blocks, 2 contents, up to 2 references and 2 pins, 1 fixed page; both policies | nine invariants, `PinnedStays`, `ImplementsPageStore` |
| `disk_manager` | 2 surfaces, 2 cylinders, 3 sectors per track, 4 per block: 12 sectors, 2 blocks, 2 left over | the layout, the agreement of bits, flags and file, `ImplementsBlockStore` |
| `buffer_session` | 2 frames, 3 pages, 2 pins, 1 fixed page; both policies | processes and pins agree, `ProcessesStay`, `AlwaysKills` |
| `bptree` | degree 2, 3 keys, 7 insertions, any removals, the first failure ends it | order, chain of leaves, exact search, pins, `ImplementsIndex` |
| `extendible_hash` | buckets of 2, a directory of up to 8, 7 keys, 5 buckets, 2 failures | complete directory, no page lost, pins, `IndexWhileRegular` |
| `records` | pages of 115 bytes, small and large records, 2 pages, bulk insertions of 2, both kinds of page, 1 failure and what follows it | soundness of pages, whole list, index, pins, `ImplementsRecordStore` |
| `select_agrees` | the same | violation of `SelectAgrees` |
| `bptree_remove` | degree 2, 4 keys, 4 insertions | violation of `LastPointerIsSibling` |
| `full_disk` | 2 frames, 2 blocks | violation of `NewFrameIsFreeAndPinned` |
| `one_sector_tracks` | tracks of one sector | violation of `DirectoryIsSafe` |
| `session_flush` | 2 frames, 3 pages | violation of `FlushSavesAll` |
| `session_lru` | 2 frames, 3 pages | violation of `NothingPending` |

**The pool** is explored without bounds other than the named ones: `MaxPin` (a pin may
be leaked and another taken), `MaxHeld` (two references at once, as `add_new_page_to_table`
has; two pin the whole pool, so that `LoadPinThrows` fires) and `MaxFixed`. With two frames
over three blocks every load past the second evicts, a dirty victim is written or was lost,
the disk fills up (`GetLoadFreeFrameThrows`), and both laps of the clock happen.

**The disk**'s geometry has a block that crosses from one cylinder to the next, reserved
sectors inside the first, and sectors that belong to no block, with `TOTAL_BLOCKS` above the
number of blocks.

**The tree** has nodes of three keys. Four insertions split the root leaf, the seventh
the root again when it is an inner node, so that every kind of split happens; with three keys for
seven records, equal keys sit on both sides of separators and cover whole leaves. Nine pages are
enough for those splits. `MaxFailures` is 1: an operation cut short changes no entry, and
what it can leave behind is checked in the state where it stops; for more failures, and what
follows them, there are the proofs. The run ends when its insertions are used up, so deadlock is
not checked.

**The hash index** has keys that differ in the first, second and third bit, and keys no split
tells apart within the directory (0 and 8, as the eighth entry is the last): buckets split,
the directory doubles up to three times, and overflow chains form. `SizeValues` is 256, as in the
code, so that no size wraps there: what the wrap does to types, pins and searches is left to the
proofs. Five buckets are enough for
a split at every level and a chain behind one. `MaxFailures` is 2, so that an operation runs
after one that was cut short left its pins. The run ends where the directory is too small for a
split, as the code then writes past its end; deadlock is not checked.

**The table**'s pages hold two records: a fixed page two places; a slotted one two small
records, or a small and a large one, with a third refused before it gets a slot or after. Two
pages are enough for the list to grow, to be walked, and to be refused growth when
`last_page_id` is behind. After `MaxFailures` operations ended early only insertions begin, and the
next failure ends the run: `ListIsWhole` and `PagesAreSound` are checked in what a
failure left and in what insertions make of it. Deadlock is not checked, as `Stopped` ends.

**Fairness.** Safety is checked with none. `AlwaysKills` assumes that the eviction loop goes
on (it is a loop in one thread) and that a user who is asked again and again to end a
process sometimes does (strong fairness of `Terminate`): the code itself says the rounds
go on until one does. It needs `MaxFixed < capacity`: with every frame fixed the loop
really never ends.

### Findings

1. `get_load_free_frame` on a full disk may give out a page in use, unpinned
   (`loads.cpp:131`; the comment above it promises a free block, loaded and pinned).
2. With one sector per track the directory of tables is inside a block (`utils.cpp:140`).
3. Loading a page from the menu recomputes its dirty flag, and `flush_all`, which "writes
   all dirty pages", then skips a changed page (`loads.cpp:75`).
4. The verbose LRU eviction drops a dirty page unwritten, where a comment says that
   nothing is pending (`evictions.cpp:56`).
5. Removing a key equal to a separator may drop another entry and turn the link to the next
   leaf into the pointer of a record (`bptree/remove.cpp:22`; `bpnode.hpp:13` says that the
   last pointer of a leaf is the next leaf).
6. A selection through an index takes the slot of a pointer for the number of the record among
   those of its page: after a deletion it gives another record, or none (`sql_selects.cpp:84` and
   `:114`; line 61 says that the hash may be used for the search, and `result_set.hpp:42` that
   results have the position operated on).

## 4. What is proved

The theorems hold for every value of the constants that the named assumptions of the modules
admit; TLC evaluates those assumptions for the instance of every run. `Induction` has what several
of the proofs need and the library states only with an operator parameter: induction over the
numbers of a set, counting with a bijection, and that a function defined by its previous values
exists and equals its definition. The other recursive definitions of the models follow pointers, or
count turns down, so they exist only where the pointers do not go in a circle: each proof gets that
from its invariant. `RecursionHasFunction` does the rest for all of them: a definition whose value at
a place depends only on places of lower rank has a function.

### The pool

`BufferManagerProofs`, from `BlockDeviceAssumption`, `BufferManagerAssumption` and
`NoFrameAssumption` (positive sizes, `TOTAL_BLOCKS > N_BLOCKS`, `NoFrame` not a frame):

| Theorem | States |
|---|---|
| `AlwaysIInv` | the inductive invariant |
| `TypeCorrect` | `Spec => []TypeOK` |
| `BookkeepingHolds` | map, slots and list describe the same pages |
| `RoomHasFreeSlot` | fewer pages than frames means an empty slot |
| `CleanFramesMatchDisk` | a clean, settled frame equals its block |
| `HeldPagesArePinned` | references and unmarked changes are pinned |
| `NewPagesAreFree` | one owner for a page |
| `OwnedPagesAreKept` | an owned page is on the disk or waits in the pool |
| `NewPagesAreZero` | free blocks hold zeros |
| `PinnedPagesStay` | only `Clear` takes a pinned or fixed page away |
| `RefinesPageStore` | the pool implements `PageStore` |
| `ClockLoopIsVictim` | the loop of `evict_page_Clock` ends at the victim the other proofs are about |

None of the properties is inductive alone. `IInv` is `TypeOK`,
`Bookkeeping`, and for every page `PageInv`, which ties together what the pool, the disk and
the client know of it: a clean settled frame equals its block, a held page has its pins, a
page with unmarked changes is pinned, an owned page is used or resident and not clean, an
unused one is zero and has at most one owner. `Bookkeeping` is needed because an eviction is
stated by slot under the clock and by list position under LRU, and both must remove the
same page from all three structures; the LRU half uses lemmas on removing the only
occurrence of an element from an injective sequence. The proof that a step keeps `PageInv`
goes page by page: the page loaded, the victim, and the others, which no step of the pool
changes. `RoomHasFreeSlot` needs a count, as the slots that are taken map one to one onto the
resident pages. The refinement follows from the invariant: an eviction writes back
a dirty page, and a clean one may be dropped because it equals its block.

`ClockLoopIsVictim` is about the loop, which takes at most ten rounds of the frames before it gives
up. The function exists, as each turn has a later one to follow it. One round over frames that all
have their bit set or may not be taken clears the bits and ends where it began; a frame that may be taken is
then met in the second, so that the limit is never reached. If no frame may be taken, nothing stops
the hand in any of the ten, and bits and hand are again those of the closed form.

### The menu

`BufferSessionProofs`, from the same assumptions:

| Theorem | States |
|---|---|
| `SessionTypeCorrect` | types; the place a round of questions has come to is a place of the list |
| `SessionBookkeeping` | the menu keeps `Bookkeeping` |
| `SessionProcessesArePinned` | every process listed for a page has its pin |
| `SessionProcessesStay` | a page with processes, or fixed, leaves only at the end of the session |

`SessionInv` adds to the types that a load which waits is for a page that is not in the pool, while
the pool is full. That is what makes the page evicted another than the page loaded, many questions
later, and it is why an answer that ends a process cannot take the pin of another.

### The disk

`DiskManagerProofs`, from `GeometryAssumption`, for every number of surfaces, tracks, sectors and
sectors of a block, with crashes:

| Theorem | States |
|---|---|
| `DiskTypeCorrect` | types; the map has `N_BLOCKS` blocks of `SECTORS_PER_BLOCK` sectors |
| `MapIsVertical` | blocks share no sector, and follow the cylinders |
| `WrittenStaysMarked` | what was written is marked used |
| `SearchIsRight` | the loop of `get_free_block` finds the n-th free block, and when it throws |
| `FlagsAreTheBits` | flags in memory are what a restart computes from the bits |
| `BlocksSpareTheDirectory` | no write to a block reaches sectors 0 and 1 |
| `DiskImplementsStore` | the disk implements `BlockStore` |

The last three assume `SECTORS_PER_TRACK > 1`. They are false without it: with one sector per track
the code keeps sector 0 out of the blocks and not the directory, sector 1, as the run
`one_sector_tracks` shows. The map is computed by a loop with nested counters, here a recursive walk.
The proof gives it a closed form: `Position` visits every place once (division and remainder by the
sizes) and `Rank` numbers those that are not reserved; after k of these the walk has
k `\div` `SECTORS_PER_BLOCK` whole blocks, by induction over the steps of the walk. The map is then
a function of the bitmap, and everything else is about one block at a time. `DiskInv` says that
the map in memory is that cut of the order at every moment, what the operation under way is, and
that a write that ended is marked. For the refinement a write is mapped sector by sector; a crash in
the middle is the mixed block `BlockStore` allows.

### Pages and tables

`RecordPageProofs` and `RecordsProofs`, for every size of page and record, any set of
values, any number of pages and failures and both kinds of page, from `RecordPageAssumption`,
`BitmapSettles` and `RecordsAssumption` (every record fits an empty page; the bitmap is found):

| Theorem | States |
|---|---|
| `InsertedIsSound` | an insertion keeps a page sound, done or refused |
| `DeletedIsSound` | so does a deletion of any set of its records |
| `SoundIsAccounted` | on a sound page both headers tell the same room, and it is there |
| `SoundIsApart` | on a sound page records overlap neither each other nor the headers |
| `PagesAreAlwaysSound` | `Spec => []PagesAreSound` |
| `ListIsAlwaysWhole` | `Spec => []ListIsWhole` |
| `PinsAreReturned` | `Spec => []PinsReturned` |
| `RecordsTypeCorrect` | types; no pin is given back that was not taken |
| `KeysAlwaysAgree` | until a failure, the index has as many entries for a value as the table has records |
| `RecordsImplementStore` | the table implements `RecordStore`, also when a deletion loses its place |

A page is sound when its counts are those of its slots and every record of
a fixed page is at the place of its position, while those of a slotted page lie between the end
of the free space, which the room left determines, and the end of the page, no two overlapping;
that is inductive, where `Accounted` and `Apart` alone are not. For the table the invariant is
four parts: every page is sound; `op` still has values to insert where it is about to insert
one; pins are those of `op` or a failure happened; and there is a list without repetitions over
exactly the pages given to the table. `ListIsWhole` speaks of the list `ListFrom` chooses. That it
is the same one needs a lemma (`OneList`): links give at most one list, since the first position
where two differ would be the target of one link. The last page the table knows is at most one
behind, because `AddPage` refuses to link behind a page that has one after it.

`KeysAgree` holds only between operations. In between, the index and the records differ by
exactly what `op` has still to pass on (`Balance`), in one direction for insertions and in the other
for deletions, and it is that balance that is inductive. It counts the copies of bag entries and the
records of all pages, so most of its lemmas are about what one record more or less does to a
count. The refinement needs two facts more: the records an operation will delete are those on the
pages it will come to, `From(op.at)`, which a step to the next page takes one page from; and growing
the list adds an empty page at its end, so that `Records` stays. A deletion that goes on elsewhere
has another `From(op.at)`, and what is there and meets its condition is among what it was asked
to take, wherever the page is.

### The hash index

`ExtendibleHashProofs`, for all capacities and keys, from `ExtendibleHashAssumption` and
`PowersOfTwo` (three facts on powers of two up to the capacity, which TLC evaluates for the
instance):

| Theorem | States |
|---|---|
| `DirectoryIsAlwaysComplete` | every key has a bucket: the early return of `locate_bucket` is dead |
| `PinsAreReturned` | `Spec => []PinsReturned` |
| `HashTypeCorrect` | types; sizes count the entries as far as a byte can, depths fit the directory |
| `PagesAreReached` | until a failure, every page given to the index is in the chain of a directory entry |
| `HashIsIndex` | `Spec => IndexWhileRegular` |

The first two need only that the directory has the room its depth calls for and that every entry
below it is given, and that nothing is pinned between two steps as long as nothing failed. The
types (`TypeInv`) add that a bucket counts its entries modulo `SizeValues` and is at most as deep as
the directory, and that pointers lead to pages of the index. `PagesReached` has four parts. Every
bucket of the directory is at the entry of its own prefix, its home (`HomesInv`), and came from the split of another, which is
deeper since (`SplitsInv`): so a split, though it redirects only one entry, redirects none that is
the home of a bucket. Links lead to pages allocated later (`LinksInv`), so that chains end. The pages an
insertion has passed are a way of links from the directory to where it is (`WayInv`), which `Relink`
goes back along. And every page is an entry, or linked, or about to be linked by the insertion under
way (`ReachInv`). `ChainOf` is then the least set closed under links, and a page that no link
reached would have, going back along links to earlier pages, no first page.

`IndexWhileRegular` is about what searches find, so it needs what every bucket holds. The entries
are written as those of the pages led to (`Led`) from the bucket of their key (`EntriesAre`), which
turns each step into one fact of functions: an entry more in a bucket (`HeldMore`), a link more
(`HeldFurther`), a bucket in two (`HeldSplit`). Which of them a step is rests on `IndexInv`: no link
leads to a bucket of the directory (`RootsUnlinked`); only a bucket that no split makes room in
has an overflow bucket, so a split leaves none behind that its moved keys would be searched in
(`LinkedTight`); the entry to insert is nowhere yet, but in the bucket an insertion comes back from
(`EntryInv`); and an insertion into a chain is on it (`IsOn`), or one link off, in a new bucket of
at most that entry (`IsOff`), until `Relink` writes the link (`PassedInv`). That is why the entry
is found either when it is put in or when the link is written, never twice and never half. A
split that is not deep is arithmetic of low bits: a key goes to the new bucket exactly when its
next bit is set (`SplitLocates`), which is how the entries are moved (`HalvesHold`). A
capacity that the byte can tell (`capacity < SizeValues`) never wraps (`SmallTell`), and one that it
cannot tell makes no bucket full, so that nothing but insertions into buckets with room happens:
these keep the sizes right up to the one that wraps (`StepSizes`). As long as they are right, a
search finds all that the buckets hold (`HeldWhenTold`). The theorem assumes `Regular`, no deep split
and no wrap only where the property does; the invariant holds through all of them.

### The tree

`BPTreeProofs`, for every degree from 2 on, any keys and number of pages, from
`BPTreeAssumption`. The first three theorems are about `Spec` too, with the removals that take a
place past the keys for an entry; the last three are about `RegularSpec`, without them:

| Theorem | States |
|---|---|
| `TreeTypeCorrect` | types of nodes and operation: no entry goes into a full node, no way leads out of the tree |
| `TreePinsReturned` | an operation that is not cut short returns its pins |
| `TreeSeparatorsHold` | keys are in order in every node, and between the separators above them |
| `TreeImplementsIndex` | the tree implements `IndexStore`: its entries change as it is asked, once for every request |
| `TreeLeavesInChain` | all leaves are at one depth and linked in order, from the first to the last |
| `TreeSearchIsExact` | a search for a range gives what is in it, once, and nothing else |

`TypeInv` says of every node its form, that an inner one points to pages of the tree, and of an
insertion that the node it is at is not full (a child is split before the way goes into it), and
which page, if any, is pinned while it is there. `SeparatorsHold` is recursive over the tree, and a
tree of pages is not in the state. `TreeInv` says that there are three labels: which pages are in
the tree, `live`; a `height` that falls on the way to a child; and for each page the keys `allowed`
below it, those of the page above that lie between the separators on its two sides. No page has two
parents, keys of a node are in order and allowed there, and the insertion under way is at a page
where its key is allowed. A step keeps such labels or changes them: a split gives the new page the
height of the old one, and parts the keys of the old one at the separator that goes up
(`SplitTree`); a new root is one higher than the old one, whose copy takes its label. What is below
a node is then a least closed set again, the keys of leaves there are allowed at the node by
induction over heights, and so the function that `SeparatorsHold` chooses exists and is true at the
root. TLC checked the labels, computed from the root, on the instances of both runs before the
proof.

`TreeImplementsIndex` is over the same labels. The pages `live` are those under the root (`LiveIs`), so
that the entries are those of the leaves among them. A split moves entries to a page that is then
in the tree (`SplitEntries`), a new root stands for the leaf that was copied (`NewRootEntries`), and an
insertion adds its entry to one leaf. A removal takes it from one leaf, and that it is then in no
other needs two more parts, `IndexInv`. No pointer is in two places of the tree, as every insertion
brings one that was never used (`RefsInv`). And a removal is on the way from the root to the leaf of
its key, where it was asked only when no key past the others is equal to it (`RemovalInv`): between
its begin and its end the tree does not change. TLC checked both on the instance of `bptree` first.

`TreeLeavesInChain` needs more labels. `ChainInv` says that every page of the tree has a `level`, one
more than that of each of its children, and a `first` and a `last` leaf below it, so that the last
leaf below a child links to the first below the next one; that the last leaf of all has no link; and
that a leaf outside the tree has none either. That last part is about a root that is a leaf: it is
copied before anything else of its split is done, the copy is outside the tree until the root
points to it, and a load that fails in between leaves it there. A split of a leaf puts the new page
after the old one (`LeafSplice`), that of an inner node gives the new page the last leaf of the
old one (`NodeSplice`), and the pages above them keep their first and last leaves but for one new
last one. Insertions and removals shift the last pointer of their leaf with its entries, which
holds only for `RegularSpec`: a removal past the keys makes the link a pointer to a record. The
property is about `LeavesOf`, which joins the leaves below each child; by induction over the tree,
these are linked one to the next from `first` to `last` (`LeavesRun`).

`TreeSearchIsExact` follows from all of these invariants. A chain that ends has each leaf once, so
every leaf has a place in it; the leaves below a page are a range of places, and a later child has
the later range (`RangesInOrder`). As the keys of a leaf are allowed there, keys do not fall from
one leaf to a later one (`LeavesInOrder`). A condition is split into the part that rules out the low keys and
the part that rules out the high ones (`BoundsOfRange`: once true, the one stays true for higher
keys and the other for lower ones), so the way down ends at a leaf with nothing but keys that are
too low before it (`SeekAt`), and from there the search takes every pointer up to the first key that
is too high (`AlongLists`). What it takes are then the pointers of the entries in the range, and as
no pointer is in two places (`RefsInv`) their number is right (`ListCounts`).

### Only model-checked

`AlwaysKills`, which is liveness. The properties of the runs that expect a violation are false.

## 5. Not modelled

* **Session, directory and pool together over a crash.** `DiskManager` has the directory, the
  bitmap and the blocks over a crash between two sectors of a block and in the middle of storing the
  bitmap, though not in the middle of creating, loading or closing a disk; the pages that only the
  pool has are not in it.
  The code promises nothing there (it has no log and no order of writes), so there is no property
  to hold it to beyond that a page is lost or whole, which `ImplementsBlockStore` has.
* **Conditions from the user** (`ui/comparisons.cpp`), with an operator (`!=`) that is accepted and
  taken for an equality, and conditions over several columns or with OR in an indexed selection:
  `Conditions` has what they are true of, and the run is about single bounds and closed ranges.
* **Updates past the write that ends the program** (`sql_updates.cpp:181`, `sql_updates_nth.cpp:179`),
  and the upkeep of indexes and the slot changes that would follow it.
* **The board**: calls of selections and deletions and sorting of their results; it keeps no state.
* **Values**: serialization and comparison of column types, as model values or numbers here. The
  order the tree needs is that of numeric columns; CHAR and VARCHAR have none in the code, where
  their `<`, `>`, `<=` and `>=` are `==`. That a page holds all the entries its capacity counts
  (`calculate_bucket_capacity` leaves out the prefix) is assumed of the hash index.
* **Pages lent to two**: the second unpin of a page by the indexes, and what a deletion that lost
  its place does in a page of something else than its table.
* **A full disk below a table**: `AddPage` takes a free page. `FullDisk` shows what
  `get_load_free_frame` does instead of failing.
* Translation of pages to text, menus and printing, the CSV and HTTP libraries, and failing devices
  (an I/O error is printed and ignored by the code, so that nothing can be said of what follows).
