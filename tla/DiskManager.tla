---------------------------- MODULE DiskManager ------------------------------
(***************************************************************************)
(* The simulated disk (src/src/disk_manager): one file per sector, blocks  *)
(* laid out over cylinders, and the bitmap of the sectors in use, which is *)
(* kept in memory and stored on request.                                   *)
(*                                                                         *)
(* sector 0, sectors and bitmap_file are files: they survive a crash, and  *)
(* every sector is flushed as it is written.  The rest is the memory of    *)
(* the DiskManager object.                                                 *)
(***************************************************************************)
EXTENDS Integers, FiniteSets, SequencesExt

CONSTANTS
  SURFACES, TRACKS_PER_SURFACE, SECTORS_PER_TRACK, SECTORS_PER_BLOCK,
  Bytes,  \* the contents of a sector that are told apart
  Zero    \* the content of a sector of a new disk

ASSUME GeometryAssumption ==
  /\ SURFACES \in Nat \ {0}
  /\ TRACKS_PER_SURFACE \in Nat \ {0}
  /\ SECTORS_PER_TRACK \in Nat \ {0}
  /\ SECTORS_PER_BLOCK \in Nat \ {0}
  /\ Zero \in Bytes
  \* There is a sector 1.
  /\ SECTORS_PER_TRACK * TRACKS_PER_SURFACE * SURFACES > 1

TOTAL_SECTORS == SECTORS_PER_TRACK * TRACKS_PER_SURFACE * SURFACES
TOTAL_BLOCKS == TOTAL_SECTORS \div SECTORS_PER_BLOCK
NULL_BLOCK == TOTAL_BLOCKS

Lbas == 0 .. TOTAL_SECTORS - 1

VARIABLES
  sectors,            \* what the file of every sector holds
  bitmap_file,        \* the sectors whose bit is set in the file free_space_bitmap
  running,            \* there is a DiskManager object
  free_space_bitmap,  \* the sectors whose bit is set in memory
  blocks,             \* free_block_map.blocks: [used, sectors] of every block
  busy,               \* the operation under way
  crashed             \* the process died since the disk was created

fileVars == <<sectors, bitmap_file>>
memoryVars == <<running, free_space_bitmap, blocks>>
vars == <<fileVars, memoryVars, busy, crashed>>

Idle == [op |-> "idle"]
Storing == [op |-> "store_fsb"]
\* write_block has written the first n sectors of block b.  What the block held
\* before is kept for the properties.
Writing(b, image, n, before) ==
  [op |-> "write_block", block |-> b, image |-> image, n |-> n, before |-> before]
-----------------------------------------------------------------------------
(* The geometry.                                                           *)

\* The cylinder, the sector and the surface reached after n steps of the vertical
\* walk: surfaces first, then sectors, then cylinders.
Position(n) ==
  [c |-> n \div (SECTORS_PER_TRACK * SURFACES),
   s |-> (n \div SURFACES) % SECTORS_PER_TRACK,
   h |-> n % SURFACES]

\* Faulty: the directory is left to the blocks.
IsSector0(at) == at.c = 0 /\ at.h = 0 /\ at.s = 0

IsReserved(at) == at.c = 0 /\ at.h = 0 /\ at.s \in {0, 1}

\* Faulty: surfaces and sectors swapped.
LbaSwapped(at) == ((at.c * SECTORS_PER_TRACK) + at.h) * SURFACES + at.s

Lba(at) == ((at.c * SURFACES) + at.h) * SECTORS_PER_TRACK + at.s

\* Faulty: the flag of one block runs into the next.
GroupAndKeepFlag(walk, lba, bit) ==
  LET used == walk.used \/ bit
      block == Append(walk.block, lba)
  IN  IF Len(block) = SECTORS_PER_BLOCK
        THEN [blocks |-> Append(walk.blocks, [used |-> used, sectors |-> block]),
              block |-> <<>>, used |-> used]
        ELSE [walk EXCEPT !.block = block, !.used = used]

\* Faulty: a block closes one sector late.
GroupLate(walk, lba, bit) ==
  LET used == walk.used \/ bit
      block == Append(walk.block, lba)
  IN  IF Len(block) > SECTORS_PER_BLOCK
        THEN [blocks |-> Append(walk.blocks, [used |-> used, sectors |-> block]),
              block |-> <<>>, used |-> FALSE]
        ELSE [walk EXCEPT !.block = block, !.used = used]

\* One sector more for the block being filled.
Group(walk, lba, bit) ==
  LET used == walk.used \/ bit
      block == Append(walk.block, lba)
  IN  IF Len(block) = SECTORS_PER_BLOCK
        THEN [blocks |-> Append(walk.blocks, [used |-> used, sectors |-> block]),
              block |-> <<>>, used |-> FALSE]
        ELSE [walk EXCEPT !.block = block, !.used = used]

create_free_block_map(bits) ==
  LET walk[n \in 0 .. TOTAL_SECTORS] ==
        IF n = 0 THEN [blocks |-> <<>>, block |-> <<>>, used |-> FALSE]
        ELSE LET at == Position(n - 1)
             IN  IF IsReserved(at) THEN walk[n - 1]
                 ELSE Group(walk[n - 1], Lba(at), Lba(at) \in bits)
  IN  walk[TOTAL_SECTORS].blocks

\* The steps of the walk that are not at a reserved sector, and how many come before
\* step n.
Steps == {n \in 0 .. TOTAL_SECTORS - 1 : ~IsReserved(Position(n))}
Rank(n) == Cardinality({m \in Steps : m < n})

\* The same sectors as one sequence, cut in pieces.
VerticalOrder ==
  [i \in 1 .. Cardinality(Steps) |-> Position(CHOOSE n \in Steps : Rank(n) = i - 1)]

SectorsOfBlock(b) ==
  [i \in 1 .. SECTORS_PER_BLOCK |-> Lba(VerticalOrder[b * SECTORS_PER_BLOCK + i])]

\* free_block_map.blocks.size()
N_BLOCKS == Len(VerticalOrder) \div SECTORS_PER_BLOCK

BlockIds == 0 .. N_BLOCKS - 1

\* Block b of the map in memory.
Block(b) == blocks[b + 1]

\* What the sectors of block b hold, in read_block's order.
BlockContent(b) == [i \in 1 .. SECTORS_PER_BLOCK |-> sectors[SectorsOfBlock(b)[i]]]

\* Faulty: the first free block whatever ith says.
get_first_free_block(ith) ==
  LET from[i \in 0 .. TOTAL_BLOCKS] ==
        IF i = TOTAL_BLOCKS THEN NULL_BLOCK
        ELSE IF i >= Len(blocks) THEN TOTAL_BLOCKS + 1
        ELSE IF Block(i).used THEN from[i + 1] ELSE i
  IN  from[0]

\* The ith free block (from 0), or NULL_BLOCK.  The loop goes to TOTAL_BLOCKS, and
\* throws (TOTAL_BLOCKS + 1 here) where the map has fewer blocks.
get_free_block(ith) ==
  LET from[i \in 0 .. TOTAL_BLOCKS] ==
        [n \in 0 .. TOTAL_BLOCKS |->
           IF i = TOTAL_BLOCKS THEN NULL_BLOCK
           ELSE IF i >= Len(blocks) THEN TOTAL_BLOCKS + 1
           ELSE IF Block(i).used THEN from[i + 1][n]
           ELSE IF n = 0 THEN i
           ELSE from[i + 1][n - 1]]
  IN  from[0][ith]
-----------------------------------------------------------------------------
(* Starting and stopping.                                                  *)

TypeOK ==
  /\ sectors \in [Lbas -> Bytes]
  /\ bitmap_file \in SUBSET Lbas
  /\ running \in BOOLEAN
  /\ free_space_bitmap \in SUBSET Lbas
  /\ crashed \in BOOLEAN
  /\ running => /\ DOMAIN blocks = 1 .. N_BLOCKS
                /\ \A b \in BlockIds :
                     Block(b) \in [used : BOOLEAN, sectors : [1 .. SECTORS_PER_BLOCK -> Lbas]]
  /\ busy.op \in {"idle", "store_fsb", "write_block"}
  /\ ~running => busy = Idle

\* A disk just created, and nothing loaded.
Init ==
  /\ sectors = [l \in Lbas |-> Zero]
  /\ bitmap_file = {}
  /\ running = FALSE
  /\ free_space_bitmap = {}
  /\ blocks = <<>>
  /\ busy = Idle
  /\ crashed = FALSE

\* load_disk of a disk that exists.  Megatron::load_disk stores the bitmap of a
\* disk already open before, and its destructor after; the file is the same.
LoadDisk ==
  /\ busy = Idle
  /\ bitmap_file' = IF running THEN free_space_bitmap ELSE bitmap_file
  /\ free_space_bitmap' = bitmap_file'
  /\ blocks' = create_free_block_map(bitmap_file')
  /\ running' = TRUE
  /\ UNCHANGED <<sectors, busy, crashed>>

\* new_disk over a disk of that name.  If it was open, its destructor runs after
\* the new one is made, and stores the old bitmap in the new disk's file.
NewDisk ==
  /\ busy = Idle
  /\ sectors' = [l \in Lbas |-> Zero]
  /\ free_space_bitmap' = {}
  /\ blocks' = create_free_block_map({})
  /\ bitmap_file' = IF running THEN free_space_bitmap ELSE {}
  /\ running' = TRUE
  /\ crashed' = FALSE
  /\ UNCHANGED busy

\* Megatron::clean_managers: persist, and again in the destructor.  A crash between
\* the two steps of a persist is the one after OpenBitmapFile.
CloseDisk ==
  /\ running
  /\ busy = Idle
  /\ bitmap_file' = free_space_bitmap
  /\ running' = FALSE
  /\ free_space_bitmap' = {}
  /\ blocks' = <<>>
  /\ UNCHANGED <<sectors, busy, crashed>>

\* The process dies, wherever it is.
Crash ==
  /\ running
  /\ running' = FALSE
  /\ free_space_bitmap' = {}
  /\ blocks' = <<>>
  /\ busy' = Idle
  /\ crashed' = TRUE
  /\ UNCHANGED fileVars
-----------------------------------------------------------------------------
(* Writing.                                                                *)

\* Faulty: the bit is not set.
WriteSectorUnmarked(lba, bytes) ==
  /\ sectors' = [sectors EXCEPT ![lba] = bytes]
  /\ UNCHANGED free_space_bitmap

WriteSector(lba, bytes) ==
  /\ sectors' = [sectors EXCEPT ![lba] = bytes]
  /\ free_space_bitmap' = free_space_bitmap \cup {lba}

BeginWriteBlock(b, image) ==
  /\ running
  /\ busy = Idle
  /\ busy' = Writing(b, image, 0, BlockContent(b))
  /\ UNCHANGED <<fileVars, memoryVars, crashed>>

WriteNextSector ==
  /\ busy.op = "write_block"
  /\ busy.n < SECTORS_PER_BLOCK
  /\ WriteSector(Block(busy.block).sectors[busy.n + 1], busy.image)
  /\ busy' = [busy EXCEPT !.n = @ + 1]
  /\ UNCHANGED <<bitmap_file, running, blocks, crashed>>

\* Faulty: the sectors' bits are set and the block's flag is not.
MarkSectorsOnly(b) ==
  /\ free_space_bitmap' = free_space_bitmap \cup Range(Block(b).sectors)
  /\ UNCHANGED blocks

set_block_used(b) ==
  /\ free_space_bitmap' = free_space_bitmap \cup Range(Block(b).sectors)
  /\ blocks' = [blocks EXCEPT ![b + 1].used = TRUE]

EndWriteBlock ==
  /\ busy.op = "write_block"
  /\ busy.n = SECTORS_PER_BLOCK
  /\ set_block_used(busy.block)
  /\ busy' = Idle
  /\ UNCHANGED <<fileVars, running, crashed>>

\* create_table writes the directory of the tables, in sector 1.
WriteDirectory(bytes) ==
  /\ running
  /\ busy = Idle
  /\ WriteSector(1, bytes)
  /\ UNCHANGED <<bitmap_file, running, blocks, busy, crashed>>

ReserveFreeBlock ==
  /\ running
  /\ busy = Idle
  /\ get_free_block(0) < NULL_BLOCK
  /\ set_block_used(get_free_block(0))
  /\ UNCHANGED <<fileVars, running, busy, crashed>>

\* store_fsb opens the file, which empties it, and then writes it: load_fsb takes a
\* short file as it is, the missing bytes being zeros.
OpenBitmapFile ==
  /\ running
  /\ busy = Idle
  /\ bitmap_file' = {}
  /\ busy' = Storing
  /\ UNCHANGED <<sectors, memoryVars, crashed>>

WriteBitmapFile ==
  /\ busy = Storing
  /\ bitmap_file' = free_space_bitmap
  /\ busy' = Idle
  /\ UNCHANGED <<sectors, memoryVars, crashed>>
-----------------------------------------------------------------------------
Next ==
  \/ LoadDisk
  \/ NewDisk
  \/ CloseDisk
  \/ Crash
  \/ \E b \in BlockIds, image \in Bytes \ {Zero} : BeginWriteBlock(b, image)
  \/ WriteNextSector
  \/ EndWriteBlock
  \/ \E bytes \in Bytes \ {Zero} : WriteDirectory(bytes)
  \/ ReserveFreeBlock
  \/ OpenBitmapFile
  \/ WriteBitmapFile

Spec == Init /\ [][Next]_vars
-----------------------------------------------------------------------------
(* Properties.                                                             *)

\* The loop of create_free_block_map cuts the vertical order, the reserved sectors
\* left out, in pieces: no sector is in two blocks, none is skipped.
BlockMapIsVertical ==
  running =>
    /\ \A b \in BlockIds :
         Block(b).sectors = SectorsOfBlock(b) /\ IsInjective(Block(b).sectors)
    /\ \A b, c \in BlockIds :
         b # c => Range(Block(b).sectors) \cap Range(Block(c).sectors) = {}

\* Between operations the flag of a block says what the bits of its sectors say,
\* so the map a restart builds is the one in memory.
MapAgreesWithBitmap ==
  running /\ busy = Idle =>
    \A b \in BlockIds :
      Block(b).used <=> Range(Block(b).sectors) \cap free_space_bitmap # {}

\* get_free_block gives the free blocks in order, and throws only on a full disk
\* whose sectors do not fill TOTAL_BLOCKS blocks.
FreeBlockSearchAgrees ==
  running =>
    \A n \in 0 .. TOTAL_BLOCKS :
      LET b == get_free_block(n)
          FreeBelow(k) == {f \in BlockIds : f < k /\ ~Block(f).used}
      IN  IF n < Cardinality(FreeBelow(N_BLOCKS))
          THEN b \in BlockIds /\ ~Block(b).used /\ Cardinality(FreeBelow(b)) = n
          ELSE b = IF N_BLOCKS < TOTAL_BLOCKS THEN TOTAL_BLOCKS + 1 ELSE NULL_BLOCK

\* What was written is known to be in use, through any sequence of saves, stops and
\* starts: only a crash makes a written sector look free.
WrittenIsMarked ==
  ~crashed =>
    {l \in Lbas : sectors[l] # Zero} \subseteq
       (IF running THEN free_space_bitmap ELSE bitmap_file)

\* A write of a block never reaches the two reserved sectors, the geometry and the
\* directory of the tables.
DirectoryIsSafe ==
  [][WriteNextSector => \A l \in {0, 1} : sectors'[l] = sectors[l]]_vars

\* The blocks of which some sector is marked.
UsedIn(bits) == {b \in BlockIds : Range(SectorsOfBlock(b)) \cap bits # {}}

Store == INSTANCE BlockStore WITH
  Blocks <- BlockIds,
  Content <- [1 .. SECTORS_PER_BLOCK -> Bytes],
  Blank <- [i \in 1 .. SECTORS_PER_BLOCK |-> Zero],
  disk <- [b \in BlockIds |->
             IF busy.op = "write_block" /\ busy.block = b THEN busy.before ELSE BlockContent(b)],
  used <- IF running THEN {b \in BlockIds : Block(b).used} ELSE UsedIn(bitmap_file),
  saved <- UsedIn(bitmap_file)

\* The disk is a block store: blocks change as a whole, and after a crash all but
\* one are as they were.
ImplementsBlockStore == Store!Spec
=============================================================================
