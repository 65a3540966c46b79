---------------------------- MODULE UnitPricing ----------------------------
(***************************************************************************)
(* What Platform.price asks of an op before a unit model prices it           *)
(* (platform.py).  The support ops are one category here, "elementwise"; so  *)
(* are the scale and mask ops of an attention, which the schedulers place as *)
(* support ops and the platform prices as attention.                        *)
(***************************************************************************)
EXTENDS PlanGraph

CONSTANT ScaleMask   \* the scale and mask ops of the trace

IsScale(n) == n.cat = "elementwise" /\ n.src \in ScaleMask

PricedCat(n) == IF IsScale(n) THEN "attention" ELSE n.cat

(* Merges and converts are free of compute wherever they are.               *)
Anywhere == {"merge", "convert"}
Compute == {"matmul", "attention", "elementwise"}

Supported ==
  [cim |-> {"matmul", "attention"} \cup Anywhere,
   gpu |-> Compute \cup Anywhere,
   npu |-> Compute \cup Anywhere,
   cpu |-> Compute \cup {"sampling"} \cup Anywhere,
   mem |-> {"embedding", "kv_cache"} \cup Anywhere]

(* The op of an attention block that the cost of the whole is charged on.    *)
IsRep(g, i) == g.op[i].cat = "attention" /\ g.op[i].group = i

(* price(i) raises for an unknown unit, a category the unit has no model     *)
(* for, and a bmm that belongs to no block.                                  *)
CanPrice(g, i) ==
  LET me == g.op[i]
  IN  /\ me.unit \in DOMAIN Supported
      /\ PricedCat(me) \in Supported[me.unit]
      /\ me.cat = "attention" => me.group \in Ids(g) /\ IsRep(g, me.group)

=============================================================================
