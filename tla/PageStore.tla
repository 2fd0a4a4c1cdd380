------------------------------ MODULE PageStore ------------------------------
(***************************************************************************)
(* What the buffer pool promises to the code above it (heap files, hash    *)
(* and B+ tree nodes, the catalog): a store of pages.                      *)
(*                                                                         *)
(* `view' is what a reader of a page sees now.  `durable' is what it would *)
(* see had the pool been emptied.  Only who has a reference to a page can  *)
(* change it.  How many frames there are, which page is evicted and when   *)
(* it is written back are not part of the promise.                         *)
(***************************************************************************)
EXTENDS Naturals

CONSTANTS
  Pages,   \* the page ids of the store
  Bytes    \* the contents a page can have

VARIABLES
  view,    \* the content every page has for its readers
  durable, \* the content every page has on the disk
  lent     \* the pages somebody has a reference to

storeVars == <<view, durable, lent>>

Init ==
  /\ durable \in [Pages -> Bytes]
  /\ view = durable
  /\ lent = {}

\* Who has a reference to page p changes it.
Write(p, v) ==
  /\ p \in lent
  /\ view' = [view EXCEPT ![p] = v]
  /\ UNCHANGED <<durable, lent>>

\* References are taken and given up.  Meanwhile some pages reach the disk, as their
\* readers see them and not otherwise.
Lend ==
  /\ UNCHANGED view
  /\ lent' \in SUBSET Pages
  /\ durable' \in [Pages -> Bytes]
  /\ \A p \in Pages : durable'[p] \in {durable[p], view[p]}

\* Every change that is not durable is given up, for all the pages at once and when
\* nobody has a reference.
Discard ==
  /\ lent = {}
  /\ view' = durable
  /\ UNCHANGED <<durable, lent>>

Next ==
  \/ Lend
  \/ Discard
  \/ \E p \in Pages, v \in Bytes : Write(p, v)

Spec == Init /\ [][Next]_storeVars
=============================================================================
