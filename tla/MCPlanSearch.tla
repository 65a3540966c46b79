---------------------------- MODULE MCPlanSearch ----------------------------
EXTENDS PlanSearch

MCUnits == <<"cim", "gpu">>

(* Each fits the budget of 21 in part or in full, no two in full; the first  *)
(* and the last are equally dense when they save the same.                  *)
MCOps == << [K |-> 2, N |-> 8], [K |-> 2, N |-> 9], [K |-> 1, N |-> 16] >>

=============================================================================
