----------------------------- MODULE RecordStore -----------------------------
(***************************************************************************)
(* What a table promises: it is a set of records, each with the pointer to *)
(* its place, and does one request at a time.  A request is done in steps, *)
(* and either to its end or it fails.                                      *)
(***************************************************************************)
EXTENDS Naturals, Sequences

CONSTANTS
  Values,  \* the records
  Ptrs     \* the places for them

VARIABLES
  records,  \* what the table holds
  request,  \* what is still to be done of the request
  failures  \* how often something was not done

storeVars == <<records, request, failures>>

NoRequest == [kind |-> "none"]

\* The request with these values to insert.
ToInsert(values) ==
  IF values = <<>> THEN NoRequest ELSE [kind |-> "insert", values |-> values]

\* The request to delete those of asked, of which the doomed are in its way.
ToDelete(asked, doomed) == [kind |-> "delete", asked |-> asked, doomed |-> doomed]

Init == records = {} /\ request = NoRequest /\ failures = 0

Ask ==
  /\ request = NoRequest
  /\ \/ request' \in [kind : {"insert"}, values : Seq(Values)]
     \/ \E asked \in SUBSET records : request' = ToDelete(asked, asked)
  /\ UNCHANGED <<records, failures>>

\* The next value gets a place where there was no record.
Insert ==
  /\ request.kind = "insert"
  /\ \E at \in Ptrs \ {r[2] : r \in records} :
       records' = records \cup {<<Head(request.values), at>>}
  /\ request' = ToInsert(Tail(request.values))
  /\ UNCHANGED failures

\* Some of the records in the way go, and no others; the request ends when they all went.
Delete ==
  /\ request.kind = "delete"
  /\ \E gone \in SUBSET request.doomed : records' = records \ gone
  /\ LET left == request.doomed \cap records'
     IN  \/ request' = ToDelete(request.asked \cap records', left)
         \/ left = {} /\ request' = NoRequest
  /\ UNCHANGED failures

\* The request, or what follows from it, is not done to its end; or a deletion loses its
\* way, with some of what it was asked to delete in the new one.
Fail ==
  /\ failures' > failures
  /\ \/ request' \in {request, NoRequest}
     \/ /\ request.kind = "delete"
        /\ \E doomed \in SUBSET request.asked : request' = ToDelete(request.asked, doomed)
  /\ UNCHANGED records

Next == Fail \/ Ask \/ Insert \/ Delete

Spec == Init /\ [][Next]_storeVars
=============================================================================
