---------------------------- MODULE PlanRewrite ----------------------------
(***************************************************************************)
(* What the schedulers make of a graph: TiledHeteroScheduler for one host,   *)
(* the per-op decisions in topological order, each placing a block or        *)
(* splitting it (_solve_dag), and the tail _finish; SingleUnitScheduler; and *)
(* the fixed maps of AllCimScheduler and CimHeteroScheduler.  Then a planned *)
(* graph is assigned again.  Which of the candidates the solver finds        *)
(* cheapest is a choice.                                                    *)
(***************************************************************************)
EXTENDS OpSolver

CONSTANTS
  Graphs,      \* the graphs a phase starts from
  Units,       \* compute units the solver may use
  Hosts,       \* the unit owning the graph, where merges land
  Supports,    \* values of support_unit
  Modes,       \* hand-back rules of the passes made
  Hints,       \* what a previous pass may have found: id |-> unit
  Allots,      \* allotments of the CIM budget in decode: id |-> columns
  SyncUs       \* phase |-> sync_us of the run's sync_mode

VARIABLES
  origin, host, placement, support,   \* the call: graph, host, convert placement, support_unit
  mode, hints, allot,                 \* the pass: hand-back rule, hints, CIM columns allotted
  graph, todo, pc,
  priced,                             \* block |-> the syncs its estimate counted
  planner                             \* the scheduler that made the plan

vars == <<origin, host, placement, support, mode, hints, allot, graph, todo, pc, priced, planner>>
call == <<origin, host, placement, support, mode, hints, allot>>

FixedUnit == [kv_cache |-> "mem", embedding |-> "mem", sampling |-> "cpu"]

-----------------------------------------------------------------------------
(* The graphs of build_token_dag, before any call of a scheduler.            *)

Positive == Nat \ {0}

MatmulShapes == [M : Positive, K : Positive, N : Positive]
HeadShapes == [heads : Positive, kv : Positive]
RowShapes == [rows : Positive]

ShapesOf(cat) ==
  IF cat = "matmul" THEN MatmulShapes
  ELSE IF cat = "attention" THEN HeadShapes
  ELSE IF cat = "elementwise" THEN HeadShapes \cup RowShapes
  ELSE RowShapes

Traceable == DOMAIN LegalDims \cup DOMAIN FixedUnit

Node ==
  [cat : Traceable \cup {"merge", "convert"}, prec : {"int8", "fp16"}, deps : SUBSET Nat,
   shape : MatmulShapes \cup HeadShapes \cup RowShapes, group : Nat,
   unit : {"cim", "gpu", "npu", "cpu", "mem", NoUnit}, bytes : Nat, basis : Nat,
   domain : {"unset", "dram", "cpu_cache", "none"}, resident : BOOLEAN,
   fused : {"none", "head", "follower"}, fusedGroup : Nat, sync : Nat, mergeSync : Nat,
   src : Nat, part : Nat]

NodeGraph(g) == g \in [at : [Ids(g) -> Nat], op : [Ids(g) -> Node]]

Reps(g) == {n \in Ids(g) : IsRep(g, n)}

TracedOp(g, i) ==
  LET n == g.op[i]
  IN  /\ n.cat \in Traceable /\ n.shape \in ShapesOf(n.cat)
      /\ n.src = i /\ n.part = 0
      /\ n.unit = NoUnit /\ ~n.resident /\ n.fused = "none"
      /\ n.basis = (IF n.cat = "matmul" /\ WeightsHeld(n) THEN ShapeBytes(n.shape) ELSE 0)
      /\ n.cat = "matmul" =>
           n.bytes = (IF WeightsHeld(n) THEN UnitBytes(n) ELSE ShapeBytes(n.shape))
      /\ n.cat = "elementwise" /\ "rows" \in DOMAIN n.shape => n.shape.rows = RowsInFlight(g)
      /\ \A d \in n.deps : d \in Ids(g) /\ d < i /\ g.op[d].cat # "sampling"
      /\ IF n.cat = "attention" THEN n.group \in Reps(g) ELSE n.group = 0
      /\ n.cat = "elementwise" /\ "rows" \notin DOMAIN n.shape =>
           \E r \in Reps(g) : i \in Block(g, r)

(* An attention block reads nothing traced after its QK^T; its ops have the  *)
(* same heads and the same past.                                            *)
TracedBlock(g, r) ==
  /\ Closed(g, r)
  /\ \A sv \in Partners(g, r) : r < sv
  /\ \A c \in Block(g, r) :
       /\ g.op[c].shape = g.op[r].shape
       /\ \A d \in g.op[c].deps \ Block(g, r) : d < r
  /\ \A q \in Reps(g) \ {r} : Block(g, q) \cap Block(g, r) = {}

Traced(g) ==
  /\ NodeGraph(g)
  /\ Ids(g) # {} /\ IsFiniteSet(Ids(g)) /\ Ids(g) \subseteq Positive
  /\ \A i \in Ids(g) : g.at[i] = i
  /\ \A i \in Ids(g) : TracedOp(g, i)
  /\ \A r \in Reps(g) : TracedBlock(g, r)

ASSUME GraphsAssumption == \A g \in Graphs : Traced(g)

ASSUME UnitsAssumption ==
  /\ Units \subseteq {"cim", "gpu", "npu", "cpu"} /\ Hosts \subseteq Units
  /\ Supports \subseteq Units \cup {NoUnit}
  /\ \A u \in Supports \ {NoUnit} : {"elementwise", "attention"} \subseteq Supported[u]
  /\ NoUnit \notin {"cim", "gpu", "npu", "cpu", "mem"}
  /\ NoDim \notin UNION {LegalDims[cat] : cat \in DOMAIN LegalDims}
  /\ \A u \in DOMAIN WeightBytes : WeightBytes[u] \in Nat

ASSUME SyncAssumption == SyncUs \in [{"decode", "prefill"} -> Nat]

(* What _allocate_cim_budget grants: whole columns of a matmul, aligned ones *)
(* or all of them; and the CIM part of a split is sized in such columns.     *)
ASSUME AllotsAssumption ==
  /\ \A a \in Allots : \A g \in Graphs : \A n \in DOMAIN a \cap Ids(g) :
       g.op[n].cat = "matmul" =>
         a[n] \in 1..g.op[n].shape.N /\ (a[n] = g.op[n].shape.N \/ a[n] % CimAlign = 0)
  /\ "cim" \in DOMAIN Quantum => CimAlign % Quantum["cim"] = 0

-----------------------------------------------------------------------------
Init ==
  /\ origin \in Graphs
  /\ host \in Hosts
  /\ placement \in {"consumer", "producer"}
  /\ support \in Supports
  /\ mode \in Modes
  /\ hints \in (IF mode = "neighbours" THEN {h \in Hints : DOMAIN h \subseteq Ids(origin)}
                ELSE {<<>>})
  /\ allot \in (IF Phase(origin) = "decode" THEN Allots ELSE {<<>>})
  /\ graph = origin
  /\ todo = Ids(origin)
  /\ pc = "solve"
  /\ priced = <<>>
  /\ planner = "tiled"

(* _topo takes the least id whose predecessors are out: ids are those of the *)
(* trace, so it takes the least.                                            *)
Deciding(n) == pc = "solve" /\ n \in todo /\ \A m \in todo : n <= m

Decided(n) ==
  /\ todo' = todo \ Block(graph, n)
  /\ UNCHANGED <<call, pc, planner>>

Fixed(n) == origin.op[n].cat \in DOMAIN FixedUnit

PlaceFixed(n) ==
  /\ Deciding(n) /\ Fixed(n)
  /\ graph' = Placed(graph, n, FixedUnit[graph.op[n].cat], FALSE)
  /\ Decided(n) /\ UNCHANGED priced

Pinned(n) == support # NoUnit /\ origin.op[n].cat \in {"elementwise", "attention"}

(* Blocks are decided at their QK^T, and _block raises for one that is open. *)
Decidable(n) == graph.op[n].cat = "attention" => Closed(graph, n)

PlaceSupport(n) ==
  /\ Deciding(n) /\ Pinned(n) /\ Decidable(n)
  /\ graph' = Placed(graph, n, support, FALSE)
  /\ Decided(n) /\ UNCHANGED priced

(* The phase is read once, off the graph assign was given.                   *)
Decode == Phase(origin) = "decode"

Solved(n) ==
  /\ Deciding(n) /\ graph.op[n].cat \in DOMAIN LegalDims /\ ~Pinned(n)
  /\ Decidable(n)

CanRun(n) == {u \in Units : \A c \in Block(graph, n) : PricedCat(graph.op[c]) \in Supported[u]}

(* The columns of a matmul the CIM is offered: its allotment in decode, what *)
(* fits the whole budget in prefill.                                        *)
Columns(n) ==
  LET s == graph.op[n].shape
  IN  IF graph.op[n].cat # "matmul" THEN 0
      ELSE IF Decode THEN CimCols(allot, n, s.K, s.N) ELSE CimColsUpToCap(s.K, s.N)

Candidates(n) == Offered(origin, n, CanRun(n), host, Columns(n), Decode)

(* Consumers whose unit is known before they are decided: ctx.fixed_units,   *)
(* else the hints.                                                          *)
Known ==
  [i \in {j \in Ids(origin) : Fixed(j) \/ Pinned(j)} \cup DOMAIN hints |->
     IF Fixed(i) THEN FixedUnit[origin.op[i].cat] ELSE IF Pinned(i) THEN support ELSE hints[i]]

Price(n, plan) ==
  priced' = [m \in DOMAIN priced \cup {n} |->
               IF m = n THEN Priced(graph, n, plan, host, mode, Known) ELSE priced[m]]

PlaceSingle(n) ==
  /\ Solved(n)
  /\ \E plan \in {p \in Candidates(n) : p.dim = NoDim} :
       /\ graph' = Placed(graph, n, plan.units[1], plan.resident)
       /\ Price(n, plan)
  /\ Decided(n)

(* solve skips a plan whose sizes break an alignment or a minimum, with the  *)
(* rows the context has; split_node raises if the op's own rows break one,   *)
(* and then there is no plan.                                               *)
SplitBlock(n) ==
  /\ Solved(n)
  /\ \E plan \in {p \in Candidates(n) : p.dim # NoDim} :
       /\ plan.dim = "rows" => Feasible(plan, CtxRows(origin))
       /\ Feasible(plan, graph.op[n].shape[plan.dim])
       /\ graph' = Split(graph, n, plan, host, SyncUs[Phase(origin)])
       /\ Price(n, plan)
  /\ Decided(n)

Finish ==
  /\ pc = "solve" /\ todo = {}
  /\ graph' = Finished(graph, placement, SyncUs[Phase(origin)])
  /\ pc' = "planned"
  /\ UNCHANGED <<call, todo, priced, planner>>

-----------------------------------------------------------------------------
(* The schedulers that do not solve.                                        *)

OnUnits(g, UnitOf(_)) == MapOps(g, LAMBDA n : [n EXCEPT !.unit = UnitOf(n)])

AssignedBy(name, g) ==
  /\ pc = "solve" /\ graph = origin
  /\ graph' = g
  /\ todo' = {} /\ pc' = "planned" /\ planner' = name
  /\ UNCHANGED <<call, priced>>

(* single_support_unit: what the unit cannot run goes to the GPU, else to    *)
(* the NPU, else to the CPU.                                                *)
SupportUnit(u) ==
  LET able == {v \in Units : "elementwise" \in Supported[v]}
  IN  IF u \in able THEN u
      ELSE IF "gpu" \in able THEN "gpu" ELSE IF "npu" \in able THEN "npu" ELSE "cpu"

AssignSingle(u) ==
  LET unitOf(n) == IF n.cat \in DOMAIN FixedUnit THEN FixedUnit[n.cat]
                   ELSE IF n.cat = "elementwise" THEN SupportUnit(u) ELSE u
  IN  AssignedBy("single", Finished(OnUnits(origin, unitOf), placement, SyncUs[Phase(origin)]))

(* One accelerator: no conversion, no sync, every byte as traced.            *)
AllCim(g) ==
  WithDomains(OnUnits(g, LAMBDA n : IF PricedCat(n) \in {"matmul", "attention"} THEN "cim"
                                    ELSE IF n.cat = "elementwise" THEN "cpu" ELSE "mem"))

(* Both fixed maps raise for a category they do not know.                    *)
Mapped == \A i \in Ids(origin) : origin.op[i].cat # "sampling"

AssignAllCim == Mapped /\ AssignedBy("all_cim", AllCim(origin))

(* A convert of an earlier call keeps its unit.                              *)
CimHetero(g) ==
  WithDomains(Converted(
    OnUnits(g, LAMBDA n : IF n.cat = "convert" THEN n.unit
                          ELSE IF n.cat = "matmul" THEN "cim"
                          ELSE IF n.cat = "attention" THEN "gpu"
                          ELSE IF n.cat = "elementwise" THEN "cpu" ELSE "mem"), placement))

AssignCimHetero == Mapped /\ AssignedBy("cim_hetero", CimHetero(origin))

(* Assigned again: a fixed map is applied anew; a plan of the solver, or of  *)
(* a single unit kept by it, gets the tail again, with the phase read off it. *)
Reassign ==
  /\ pc = "planned"
  /\ graph' = IF planner = "all_cim" THEN AllCim(graph)
              ELSE IF planner = "cim_hetero" THEN CimHetero(graph)
              ELSE Finished(graph, placement, SyncUs[Phase(graph)])
  /\ pc' = "reassigned"
  /\ UNCHANGED <<call, todo, priced, planner>>

Next ==
  \/ \E n \in Ids(graph) : PlaceFixed(n) \/ PlaceSupport(n) \/ PlaceSingle(n) \/ SplitBlock(n)
  \/ \E u \in Units : AssignSingle(u)
  \/ AssignAllCim
  \/ AssignCimHetero
  \/ Finish
  \/ Reassign

Spec == Init /\ [][Next]_vars

-----------------------------------------------------------------------------
(* With deps among the nodes, the check Dag's constructor makes at each      *)
(* rewriting never fires.                                                    *)
TypeOK ==
  /\ host \in Hosts /\ placement \in {"consumer", "producer"}
  /\ pc \in {"solve", "planned", "reassigned"}
  /\ planner \in {"tiled", "single", "all_cim", "cim_hetero"}
  /\ DOMAIN priced \subseteq Ids(origin)
  /\ todo \subseteq Ids(origin) \cap Ids(graph)
  /\ NodeGraph(graph) /\ IsInjective(graph.at)
  /\ \A i \in Ids(graph) : graph.op[i].deps \subseteq Ids(graph)

(* The solver never raises: whatever was decided before, the next bmm is the *)
(* QK^T of a block that is still whole, with no op of it decided on its own. *)
BlocksStayWhole ==
  \A n \in todo : Deciding(n) =>
    /\ n \in Ids(graph) /\ Decidable(n)
    /\ Block(graph, n) = Block(origin, n) /\ Block(graph, n) \subseteq todo

Done == pc # "solve"

(* The ops that do the work of the model, without merges and converts.       *)
Real(g) == {i \in Ids(g) : g.op[i].cat \notin {"merge", "convert"}}

(* The real ops whose results op i waits for, through converts and merges.   *)
ReadsFrom(g, i) ==
  LET value(d) == IF g.op[d].cat = "convert" THEN CHOOSE p \in g.op[d].deps : TRUE ELSE d
      values == {value(d) : d \in g.op[i].deps}
      merges == {v \in values : g.op[v].cat = "merge"}
  IN  (UNION {{value(d) : d \in g.op[m].deps} : m \in merges}) \cup (values \ merges)

(* However often the graph is rewritten, every op and every part of it reads *)
(* all of what the original read: each part of a producer outside its block, *)
(* and inside a block the part of the same number.                           *)
DependenciesPreserved ==
  \A i \in Real(graph) :
    LET me == graph.op[i]
        block == {c \in Ids(origin) : \E r \in Ids(origin) :
                    {me.src, c} \subseteq Block(origin, r)}
    IN  ReadsFrom(graph, i) =
          {p \in Real(graph) :
             /\ graph.op[p].src \in origin.op[me.src].deps
             /\ graph.op[p].src \in block => graph.op[p].part = me.part}

(* "FLOPs are conserved exactly": whatever the alignment does to the parts,  *)
(* the parts of an op do its work, no more and no less.                      *)
WorkConserved ==
  LET work == [i \in Ids(graph) |-> Work(graph.op[i].shape)]
  IN  \A s \in Ids(origin) :
        MapThenSumSet(LAMBDA i : work[i], {i \in Real(graph) : graph.op[i].src = s})
          = Work(origin.op[s].shape)

(* A value crosses the GPU boundary at another precision through exactly one *)
(* convert, and there is no other convert.                                   *)
ConvertsExact ==
  Done =>
    /\ \A i \in Ids(graph) : \A d \in graph.op[i].deps :
         ~NeedsConversion(graph.op[d], graph.op[i])
    /\ \A k \in {i \in Ids(graph) : graph.op[i].cat = "convert"} :
         \E p, c \in Ids(graph) :
           /\ graph.op[k].deps = {p} /\ Successors(Deps(graph), k) = {c}
           /\ {p, c} \cap {i \in Ids(graph) : graph.op[i].cat = "convert"} = {}
           /\ graph.op[p].prec # graph.op[c].prec
           /\ Cardinality({graph.op[p].unit, graph.op[c].unit} \ {"gpu"}) = 1
           /\ "gpu" \in {graph.op[p].unit, graph.op[c].unit}

(* In a plan that is charged syncs at all, a value that moves between two    *)
(* units is charged one on its way, on the convert or on the consumer and    *)
(* never on both; and a charge outside a merge has such a boundary behind it. *)
SyncOncePerBoundary ==
  Done /\ planner \in {"tiled", "single"} /\ 0 \notin Range(SyncUs) =>
    \A c \in {i \in Ids(graph) : graph.op[i].cat \notin {"merge", "convert"}} :
      LET moves(d) == graph.op[d].unit # "mem" /\ graph.op[c].unit # "mem"
                        /\ graph.op[d].unit # graph.op[c].unit
          via == {k \in graph.op[c].deps : graph.op[k].cat = "convert"}
          source(k) == CHOOSE p \in graph.op[k].deps : TRUE
          charged(i) == graph.op[i].sync > 0
      IN  /\ \A d \in graph.op[c].deps \ via : moves(d) => charged(c)
          /\ \A k \in via : moves(source(k)) => charged(k) # moves(k)
          /\ \A k \in via : moves(k) => charged(c)
          /\ charged(c) => \E d \in graph.op[c].deps : moves(d)
          /\ \A k \in via : charged(k) => moves(source(k))

(* A fused elementwise op runs in the kernel of a head on its own unit, which *)
(* the chain of its producers leads to; and no op that could be fused is     *)
(* charged a kernel launch.                                                  *)
KernelsHaveHeads ==
  Done =>
    \A i \in Ids(graph) :
      LET me == graph.op[i]
          only == CHOOSE d \in me.deps : TRUE
      IN  /\ me.fused = "follower" =>
               /\ graph.op[only].fusedGroup = me.fusedGroup
               /\ graph.op[me.fusedGroup].fused = "head"
               /\ graph.op[me.fusedGroup].unit = me.unit
          /\ me.fused = "head" /\ Cardinality(me.deps) = 1 =>
               ~ /\ graph.op[only].fused # "none"
                 /\ graph.op[only].unit = me.unit
                 /\ Successors(Deps(graph), only) = {i}

(* What assign returns is what run_dag accepts: acyclic, every op placed     *)
(* where it can be priced, no traffic without a memory domain; and the cost  *)
(* of an attention block is charged once per part, on the unit of that part. *)
EngineAccepts ==
  Done =>
    LET waiting[k \in 0..Cardinality(Ids(graph))] ==
          IF k = 0 THEN Ids(graph)
          ELSE LET left == waiting[k - 1] IN {i \in left : graph.op[i].deps \cap left # {}}
    IN  /\ waiting[Cardinality(Ids(graph))] = {}
        /\ \A i \in Ids(graph) :
             /\ CanPrice(graph, i)
             /\ graph.op[i].cat = "attention" =>
                  LET rep == graph.op[graph.op[i].group]
                  IN  rep.unit = graph.op[i].unit /\ rep.part = graph.op[i].part
             /\ graph.op[i].domain # "unset"
             /\ graph.op[i].bytes > 0 => graph.op[i].domain # "none"

(* The syncs charged on the way into op i: its own and its converts'.        *)
SyncsInto(i) ==
  {x \in {i} \cup {d \in graph.op[i].deps : graph.op[d].cat = "convert"} :
     graph.op[x].sync > 0}

(* The nodes that compute the block of n on unit u.                          *)
PartsOn(n, u) ==
  {i \in Real(graph) : graph.op[i].src \in Block(origin, n) /\ graph.op[i].unit = u}

(* The solver prices the inputs of a block on a unit as crossing exactly     *)
(* where the finished plan is charged a sync on them, whatever is split and  *)
(* converted around it after the decision; and a sync charged on an op       *)
(* pinned to the host was priced as the hand-back of one of its producers.   *)
(* Where a sync costs nothing there is none to count.                       *)
PricedWhereCharged ==
  Done /\ planner = "tiled" /\ 0 \notin Range(SyncUs) =>
    /\ \A n \in DOMAIN priced : \A u \in Units :
         u \in priced[n].inputs <=> \E i \in PartsOn(n, u) : SyncsInto(i) # {}
    /\ support = host =>
         \A i \in Real(graph) :
           Pinned(graph.op[i].src) /\ SyncsInto(i) # {} =>
             \E n \in DOMAIN priced :
               priced[n].handback /\ Block(origin, n) \cap origin.op[graph.op[i].src].deps # {}

(* "T_sync charged per cross-unit boundary exactly as the engine charges it": *)
(* the inputs of a block on a unit are charged as many syncs as were priced. *)
PricedAsCharged ==
  Done /\ planner = "tiled" /\ support \in {NoUnit, host} =>
    \A n \in DOMAIN priced : \A u \in Units :
      Cardinality(UNION {SyncsInto(i) : i \in PartsOn(n, u)}) =
        (IF u \in priced[n].inputs THEN 1 ELSE 0)

(* What a plan pins in the CIM is what the budget was charged for: of each   *)
(* matmul the columns allotted to it or none, in decode only, and never on   *)
(* another unit.                                                            *)
PinnedAsAllotted ==
  Done =>
    LET pinned == {i \in Ids(graph) : graph.op[i].resident}
        wide == [i \in pinned |-> graph.op[i].shape.N]
        columns(n) == MapThenSumSet(LAMBDA i : wide[i], {i \in pinned : graph.op[i].src = n})
    IN  /\ pinned # {} => Decode
        /\ \A i \in pinned : graph.op[i].unit = "cim" /\ graph.op[i].cat = "matmul"
        /\ \A n \in Ids(origin) : columns(n) > 0 => n \in DOMAIN allot /\ columns(n) = allot[n]

(* "support ops rows (prefill only)": a support op of several rows that two  *)
(* units can run may be split by row.                                       *)
RowSplitsOffered ==
  \A n \in Ids(origin) :
    Solved(n) /\ "rows" \in DOMAIN graph.op[n].shape /\ ~IsScale(graph.op[n])
              /\ RowsInFlight(origin) >= 2 /\ Cardinality(CanRun(n)) >= 2 =>
      \E p \in Candidates(n) : p.dim = "rows"

(* "Calling it twice gives the same result": no convert of a convert, no     *)
(* weight rescaled twice, no sync charged again, no chain cut elsewhere.     *)
ReassignIdempotent == [][pc = "planned" => graph' = graph]_vars

=============================================================================
