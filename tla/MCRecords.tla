------------------------------ MODULE MCRecords ------------------------------
(* A table of small and large records for TLC. *)
EXTENDS Records

CONSTANTS small, large

SmallAndLarge == [v \in {small, large} |-> IF v = small THEN 15 ELSE 25]
=============================================================================
