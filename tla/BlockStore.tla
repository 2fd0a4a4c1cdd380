----------------------------- MODULE BlockStore ------------------------------
(***************************************************************************)
(* What a disk promises to the buffer pool, crashes included: a block      *)
(* changes as a whole, and only a crash during its own write can leave it  *)
(* mixed.  What the disk knows of the blocks in use is, after a crash,     *)
(* what was last saved of it, and perhaps the blocks that were being       *)
(* written.                                                                *)
(***************************************************************************)
CONSTANTS
  Blocks,   \* the block ids
  Content,  \* what a block can hold
  Blank     \* what every block of a new disk holds

VARIABLES
  disk,   \* what every block holds
  used,   \* the blocks known to be in use
  saved   \* the blocks a restart would find in use

storeVars == <<disk, used, saved>>

Init ==
  /\ disk = [b \in Blocks |-> Blank]
  /\ used = {}
  /\ saved = {}

Write(b, v) ==
  /\ disk' = [disk EXCEPT ![b] = v]
  /\ used' = used \cup {b}
  /\ UNCHANGED saved

\* A block set aside without being written.
Reserve(b) ==
  /\ used' = used \cup {b}
  /\ UNCHANGED <<disk, saved>>

Save ==
  /\ saved' = used
  /\ UNCHANGED <<disk, used>>

\* A save begins by giving up what was saved before.
Unsave ==
  /\ saved' = {}
  /\ UNCHANGED <<disk, used>>

\* Only one block can be different after the crash.
Crash ==
  /\ used' = saved
  /\ UNCHANGED saved
  /\ disk' \in [Blocks -> Content]
  /\ \E b \in Blocks : \A c \in Blocks \ {b} : disk'[c] = disk[c]

\* A new disk in place of this one.  The old disk may have saved its own blocks
\* over it.
Format ==
  /\ disk' = [b \in Blocks |-> Blank]
  /\ used' = {}
  /\ saved' \in {{}, used}

Next ==
  \/ \E b \in Blocks, v \in Content : Write(b, v)
  \/ \E b \in Blocks : Reserve(b)
  \/ Save
  \/ Unsave
  \/ Crash
  \/ Format

Spec == Init /\ [][Next]_storeVars
=============================================================================
