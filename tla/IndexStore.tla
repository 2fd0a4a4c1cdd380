----------------------------- MODULE IndexStore ------------------------------
(***************************************************************************)
(* What an index promises to the record operations: it keeps entries, each *)
(* a key with a pointer to a record, and gives and takes them by key, one  *)
(* request at a time.  A request may fail, and then changes nothing.       *)
(***************************************************************************)
CONSTANTS
  Keys,  \* the values of the indexed column
  Refs   \* the pointers to records

VARIABLES
  entries,  \* what the index holds
  request   \* what it was asked and did not do yet

storeVars == <<entries, request>>

NoRequest == [kind |-> "none"]

Requests ==
  [kind : {"insert"}, key : Keys, ref : Refs] \cup [kind : {"remove"}, key : Keys]

Init == entries = {} /\ request = NoRequest

Ask ==
  /\ request = NoRequest
  /\ request' \in Requests
  /\ UNCHANGED entries

Insert ==
  /\ request.kind = "insert"
  /\ entries' = entries \cup {<<request.key, request.ref>>}
  /\ request' = NoRequest

\* One entry with that key goes.
Remove ==
  /\ request.kind = "remove"
  /\ \E e \in entries : e[1] = request.key /\ entries' = entries \ {e}
  /\ request' = NoRequest

Fail ==
  /\ request # NoRequest
  /\ request' = NoRequest
  /\ UNCHANGED entries

Next == Ask \/ Insert \/ Remove \/ Fail

Spec == Init /\ [][Next]_storeVars
=============================================================================
