------------------------------ MODULE OpSolver ------------------------------
(***************************************************************************)
(* solver.py: the candidates of one op (or attention block) and the syncs   *)
(* the estimate of each one counts.  A plan is [dim, units, num, den,       *)
(* resident]; one that does not split has the dim NoDim and one unit.  What *)
(* a candidate costs is a choice of its user, so any one may be the best.   *)
(***************************************************************************)
EXTENDS UnitPricing, CimBudget

CONSTANTS
  NoDim,
  NamePlace,     \* unit |-> the place of its name in alphabetical order
  Grid,          \* cfg.partition_grid
  StdLengths,    \* standard sequence lengths of the static-graph units
  StaticUnits,
  SplitDims,     \* category |-> dims the scheduler's constructor allows
  MinSplitRows   \* <<unit, minimum>> in the order of the platform's table

ASSUME GridAssumption == Grid \in Nat \ {0} /\ StdLengths \subseteq Nat \ {0}

LegalDims == [matmul |-> {"N", "M", "K"}, attention |-> {"heads", "kv"}, elementwise |-> {"rows"}]

-----------------------------------------------------------------------------
(* The context: scheduler._phase_and_rows and _ctx.                          *)

RowsInFlight(g) ==
  Max({1} \cup {g.op[i].shape.M : i \in {j \in Ids(g) : g.op[j].cat = "matmul"}})

(* The loop over the platform's minima reuses the name rows: what the solver *)
(* is given is the minimum of the last unit.                                *)
CtxRows(g) ==
  IF MinSplitRows = <<>> THEN RowsInFlight(g) ELSE Last(MinSplitRows)[2]

-----------------------------------------------------------------------------
(* candidates: what is offered for the op n of g.                           *)

Whole(unit, resident) ==
  [dim |-> NoDim, units |-> <<unit>>, num |-> <<1>>, den |-> 1, resident |-> resident]

(* The units of a split listed by name, the host after the others.          *)
HostLast(units, host) ==
  LET before(u, v) == u # host /\ (v = host \/ NamePlace[u] < NamePlace[v])
  IN  {s \in [1..Cardinality(units) -> units] :
         \A i, j \in DOMAIN s : i < j => before(s[i], s[j])}

Compositions(k) ==
  {c \in [1..k -> 1..Grid] : MapThenSumSet(LAMBDA i : c[i], 1..k) = Grid}

GridPlans(units, host, dim) ==
  UNION {{[dim |-> dim, units |-> s, num |-> c, den |-> Grid, resident |-> FALSE] :
             s \in HostLast(S, host), c \in Compositions(Cardinality(S))} :
           S \in {T \in SUBSET units : Cardinality(T) >= 2}}

(* Mutated form: the CIM comes last, and takes what is left.                 *)
CapacityPlans_CimLast(units, host, cols, N, resident) ==
  IF cols \in {0, N} THEN {}
  ELSE {[dim |-> "N", units |-> <<u, "cim">>, num |-> <<N - cols, cols>>, den |-> N,
         resident |-> resident] : u \in units \ {"cim"}}

(* cols of the N columns on the CIM, the others on one unit or on a grid.    *)
CapacityPlans(units, host, cols, N, resident) ==
  LET others == units \ {"cim"}
      plan(rest, num, den) == [dim |-> "N", units |-> <<"cim">> \o rest,
                               num |-> <<cols * den>> \o num, den |-> N * den,
                               resident |-> resident]
  IN  IF cols = 0 THEN {}
      ELSE IF cols = N THEN (IF resident THEN {Whole("cim", TRUE)} ELSE {})
      ELSE {plan(<<u>>, <<N - cols>>, 1) : u \in others}
             \cup {plan(p.units, [i \in DOMAIN p.num |-> p.num[i] * (N - cols)], Grid) :
                     p \in GridPlans(others, host, "N")}

(* Chunks of a standard length on a static unit, the remainder on another.   *)
Chunked(a, b, s, M) ==
  LET full == M \div s
  IN  [dim |-> "M",
       units |-> [i \in 1..(full + 1) |-> IF i <= full THEN a ELSE b],
       num |-> [i \in 1..(full + 1) |-> IF i <= full THEN s ELSE M % s],
       den |-> M, resident |-> FALSE]

ChunkPlans(units, M) ==
  IF M \in StdLengths \cup {1} THEN {}
  ELSE UNION {{Chunked(a, b, s, M) : b \in units \ {a}, s \in {l \in StdLengths : l < M /\ M % l # 0}} :
                a \in StaticUnits \cap units}

OfferedDims(g, n) ==
  {d \in LegalDims[g.op[n].cat] \cap SplitDims[g.op[n].cat] :
     /\ ~IsScale(g.op[n])
     /\ d = "rows" => CtxRows(g) >= 2
     /\ d = "M" => g.op[n].shape.M >= 2}

(* units are those that support the whole block; cols the columns the CIM is *)
(* offered, resident in decode.                                             *)
Offered(g, n, units, host, cols, decode) ==
  LET me == g.op[n]
      capacity == IF me.cat = "matmul" /\ "cim" \in units
                  THEN CapacityPlans(units, host, cols, me.shape.N, decode) ELSE {}
      chunked == IF me.cat = "matmul" THEN ChunkPlans(units, me.shape.M) ELSE {}
      gridded == UNION {GridPlans(units, host, d) : d \in OfferedDims(g, n)}
  IN  {Whole(u, FALSE) : u \in units} \cup capacity
        \cup (IF Cardinality(units) < 2 THEN {} ELSE chunked \cup gridded)

-----------------------------------------------------------------------------
(* The syncs of an estimate.                                                *)

(* Mutated form: a producer in memory counts as another unit.               *)
BoundaryIn_Mem(g, chain, unit) ==
  \E c \in chain : \E d \in g.op[c].deps \ chain : g.op[d].unit # unit

(* _boundary_in.                                                            *)
BoundaryIn(g, chain, unit) ==
  \E c \in chain : \E d \in g.op[c].deps \ chain : g.op[d].unit \notin {unit, "mem"}

(* _charges_handback.  known: id |-> unit of the consumers already decided,  *)
(* the fixed ones and, in the neighbours pass, the hinted ones.              *)
ChargesHandback(g, chain, unit, mode, known) ==
  LET consumers == (UNION {Successors(Deps(g), c) : c \in chain}) \ chain
  IN  \/ mode = "always"
      \/ consumers = {}
      \/ \E s \in consumers \cap DOMAIN known : known[s] \notin {unit, "mem"}

(* The syncs the estimate of plan adds for the block of n: the units that    *)
(* pay one for their inputs, and whether a hand-back is paid; the sync of a  *)
(* merge is apart.                                                          *)
Priced(g, n, plan, host, mode, known) ==
  LET chain == Block(g, n)
      single == plan.dim = NoDim
  IN  [inputs |-> {u \in ToSet(plan.units) : BoundaryIn(g, chain, u)},
       handback |-> /\ single /\ plan.units[1] # host
                    /\ ChargesHandback(g, chain, plan.units[1], mode, known)]

=============================================================================
