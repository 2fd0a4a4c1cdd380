----------------------------- MODULE Conditions ------------------------------
(***************************************************************************)
(* The condition of a selection (src/include/comparison.hpp): comparisons  *)
(* of columns with values, one after the other, joined by AND or OR, and   *)
(* what of it the tree is searched with.  The comparisons are all on one   *)
(* column here, the one with the index.                                    *)
(***************************************************************************)
EXTENDS Integers, Sequences

Upper == {"LESS", "LESS_EQUAL"}
Lower == {"GREATER", "GREATER_EQUAL"}

\* Values are numbers.  Of CHAR and VARCHAR the code defines <, >, <= and >= all as ==
\* (src/include/types/types.hpp), so that they have no order.
Comparison(type, compared) == [type |-> type, compared |-> compared, is_next_and |-> TRUE]

condition(c, value) ==
  CASE c.type = "EQUALS" -> value = c.compared
    [] c.type = "LESS" -> value < c.compared
    [] c.type = "LESS_EQUAL" -> value <= c.compared
    [] c.type = "GREATER" -> value > c.compared
    [] c.type = "GREATER_EQUAL" -> value >= c.compared

\* From left to right, AND and OR alike; without comparisons every value will do.
evaluate(comp, value) ==
  LET upTo[i \in 0 .. Len(comp)] ==
        IF i = 0 THEN TRUE
        ELSE IF i > 1 /\ ~comp[i - 1].is_next_and THEN upTo[i - 1] \/ condition(comp[i], value)
        ELSE upTo[i - 1] /\ condition(comp[i], value)
  IN  upTo[Len(comp)]

\* The first comparison of one of the types, as a condition of its own.
FirstOf(types, comp) ==
  LET found == {i \in DOMAIN comp : comp[i].type \in types}
  IN  IF found = {} THEN <<>> ELSE <<comp[CHOOSE i \in found : \A j \in found : i <= j]>>

\* Faulty: a bound that may be reached is left out.
get_high_below(comp) == FirstOf({"LESS"}, comp)

get_high(comp) == FirstOf(Upper, comp)

get_low(comp) == FirstOf(Lower, comp)

\* Conditions a selection looks up in the tree.
is_index_worthy(comp) ==
  /\ Len(comp) \in 1 .. 3
  /\ comp[1].type # "EQUALS"
  /\ Len(comp) = 3 => comp[2].type # "EQUALS"

\* A lower bound or an upper one, and closed ranges.
Ranges(values) ==
  {<<Comparison(type, v)>> : type \in Lower \cup Upper, v \in values}
    \cup {<<Comparison("GREATER_EQUAL", low), Comparison("LESS_EQUAL", high)>> :
            low \in values, high \in values}
=============================================================================
