--------------------------- MODULE MCBufferManager ---------------------------
(* A small pool for TLC: the values BufferManager.cfg gives to the constants. *)
EXTENDS BufferManager

\* Two frames, so that a victim has to be chosen; three blocks, so that the pool
\* is smaller than the disk and the disk fills up.
Frames == 2
Blocks == 3

\* Two references at once is what add_new_page_to_table has, and what it takes to
\* pin the whole pool; two pins let a pin be leaked and another one taken.
TwoReferences == 2
TwoPins == 2
=============================================================================
