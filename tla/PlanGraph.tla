----------------------------- MODULE PlanGraph -----------------------------
(***************************************************************************)
(* The rewritings of an operator graph a scheduler makes: tiling.split_node,*)
(* precision.insert_conversions and the passes of scheduler._finish.        *)
(*                                                                         *)
(* A graph is [at, op]: the place of each id in the list Dag.nodes, up to    *)
(* gaps, and its node.  Of an op's Workload the model keeps the axes it can  *)
(* be split on; bytes are exact for a matmul (M*K + K*N + M*N, a byte per   *)
(* element) and proportional to the shape otherwise.  deps is a set: an op   *)
(* that reads one value twice reads it once here.  src and part are the     *)
(* provenance wl.tile keeps: the original op a node computes, and which part *)
(* of it.  Ids are those of the trace, where an op follows what it reads.    *)
(***************************************************************************)
EXTENDS OpDag, SequencesExt

CONSTANTS
  Quantum,       \* unit or axis |-> quantum of a part's size, else 1
  Minimum,       \* unit or axis |-> least size of a part, else 1
  WeightBytes,   \* unit |-> weight_bytes_per_param; none on a platform without the table
  SharedWeights, \* matmuls tagged chunk_weights_shared: an earlier chunk streams the weights
  NoUnit

(* tile_parts gives the rows of a support op no quantum and no minimum.      *)
ASSUME QuantumAssumption ==
  /\ \A key \in DOMAIN Quantum : Quantum[key] \in Nat \ {0}
  /\ \A key \in DOMAIN Minimum : Minimum[key] \in Nat \ {0}
  /\ "rows" \notin DOMAIN Quantum \cup DOMAIN Minimum

Ids(g) == DOMAIN g.op
Deps(g) == [i \in Ids(g) |-> g.op[i].deps]
FreshId(g) == Max(Ids(g)) + 1

AccBytes == 4
PrecisionBytes(p) == IF p = "int8" THEN 1 ELSE 2

-----------------------------------------------------------------------------
(* Reading a node.                                                          *)

IsMatmul(shape) == "N" \in DOMAIN shape

Work(shape) ==
  IF IsMatmul(shape) THEN shape.M * shape.K * shape.N
  ELSE IF "kv" \in DOMAIN shape THEN shape.heads * shape.kv ELSE shape.rows

OutElems(shape) == IF IsMatmul(shape) THEN shape.M * shape.N ELSE Work(shape)

(* The INT8 byte count op_profile gives a shape.                            *)
ShapeBytes(shape) ==
  IF IsMatmul(shape)
  THEN shape.M * shape.K + shape.K * shape.N + shape.M * shape.N
  ELSE Work(shape)

(* basis is wl.extra["bytes_int8"], 0 when absent.                          *)
BaseBytes(n) == IF n.basis > 0 THEN n.basis ELSE n.bytes

(* The op streams no weights: they are pinned in the CIM, or still there     *)
(* from the chunk before.                                                   *)
WeightsHeld(n) == n.resident \/ n.src \in SharedWeights

(* unit_bytes: the weights count at the unit's bytes per parameter, unless   *)
(* they are held.                                                           *)
UnitBytes(n) ==
  IF n.cat # "matmul" THEN BaseBytes(n)
  ELSE BaseBytes(n) + n.shape.K * n.shape.N *
         ((IF WeightsHeld(n) THEN 0
           ELSE IF n.unit \in DOMAIN WeightBytes THEN WeightBytes[n.unit] ELSE 1) - 1)

Residency(n) ==
  IF n.bytes = 0 THEN "none"
  ELSE IF n.unit = "cpu" /\ n.cat \notin {"matmul", "merge", "attention"} THEN "cpu_cache"
  ELSE "dram"

(* _phase_and_rows: one matmul with several rows makes it a prefill.         *)
Phase(g) ==
  IF \E i \in Ids(g) : g.op[i].cat = "matmul" /\ g.op[i].shape.M > 1 THEN "prefill" ELSE "decode"

(* _reach: what next (id |-> ids) leads to from n, in any number of steps.   *)
Reached(next, n) ==
  LET after[k \in 0..Cardinality(DOMAIN next)] ==
        IF k = 0 THEN next[n]
        ELSE LET before == after[k - 1] IN before \cup UNION {next[i] : i \in before}
  IN  after[Cardinality(DOMAIN next)]

Partners(g, n) == {m \in Ids(g) : m # n /\ g.op[m].group = n}

(* The nodes decided together: an attention block, from its QK^T to its S.V *)
(* with all that lies between; any other op alone.                          *)
Block(g, n) ==
  IF g.op[n].group # n THEN {n}
  ELSE LET sv == CHOOSE m \in Ids(g) : m \in Partners(g, n)
           consumers == [i \in Ids(g) |-> Successors(Deps(g), i)]
       IN  {n, sv} \cup (Reached(consumers, n) \cap Reached(Deps(g), sv))

(* Else _block raises: a bmm is decided at the QK^T of its group, with the   *)
(* one S.V there is, and only that one feeds ops outside the block.          *)
Closed(g, n) ==
  LET block == Block(g, n)
  IN  /\ g.op[n].group = n
      /\ Cardinality(Partners(g, n)) = 1
      /\ \A c \in block \ {Max(block)} : Successors(Deps(g), c) \subseteq block

-----------------------------------------------------------------------------
(* tiling.partition.  A plan has the units of its parts, and their fractions *)
(* as num[i] / den.                                                          *)

(* Python's round(a / b): to the nearest, a tie to the even.                 *)
RoundDiv(a, b) ==
  LET q == a \div b
      twice == 2 * (a % b)
  IN  IF twice < b THEN q ELSE IF twice > b THEN q + 1 ELSE q + (q % 2)

(* What the part i is aligned by: its unit, or the axis.                     *)
KeyOf(plan, i) == IF plan.dim \in {"N", "M", "K"} THEN plan.units[i] ELSE plan.dim

AlignOf(plan, i) == IF KeyOf(plan, i) \in DOMAIN Quantum THEN Quantum[KeyOf(plan, i)] ELSE 1

MinimumOf(plan, i) == IF KeyOf(plan, i) \in DOMAIN Minimum THEN Minimum[KeyOf(plan, i)] ELSE 1

(* Mutated form: the last part is rounded like the others.                  *)
Sizes_AllRounded(plan, total) ==
  [i \in DOMAIN plan.num |->
     LET q == AlignOf(plan, i) IN RoundDiv(plan.num[i] * total, plan.den * q) * q]

Sizes(plan, total) ==
  LET k == Len(plan.num)
      rounded == [i \in 1..k |->
        LET q == AlignOf(plan, i) IN RoundDiv(plan.num[i] * total, plan.den * q) * q]
  IN  [rounded EXCEPT ![k] = total - MapThenSumSet(LAMBDA i : rounded[i], 1..(k - 1))]

Feasible(plan, total) ==
  LET sizes == Sizes(plan, total)
  IN  \A i \in DOMAIN sizes : sizes[i] >= MinimumOf(plan, i)

-----------------------------------------------------------------------------
(* tiling.split_node.                                                       *)

MergeBytes(last, dim, k) ==
  IF dim \in {"K", "kv"} THEN k * OutElems(last.shape) * AccBytes + OutElems(last.shape) ELSE 0

(* Mutated form: a part reads the originals of its block.                   *)
Renamed_Not(deps, idOf) == deps

Renamed(deps, idOf) == {IF d \in DOMAIN idOf THEN idOf[d] ELSE d : d \in deps}

(* The i-th part of op c of the block of n; idOf renames the block.          *)
Part(c, n, plan, i, size, idOf) ==
  LET shape == [c.shape EXCEPT ![plan.dim] = size]
      part == [c EXCEPT
        !.shape = shape,
        !.unit = plan.units[i],
        !.deps = Renamed(c.deps, idOf),
        !.bytes = ShapeBytes(shape),
        !.basis = IF c.cat = "matmul" THEN ShapeBytes(shape) ELSE 0,
        !.resident = c.cat = "matmul" /\ plan.resident /\ i = 1,
        !.group = IF c.cat = "attention" THEN idOf[n] ELSE 0,
        !.part = i]
  IN  [part EXCEPT !.domain = Residency(part)]

(* Mutated form: the consumers of the block wait for the last part only.    *)
Rewired_LastPart(deps, last, merge) ==
  IF last \in deps THEN (deps \ {last}) \cup {merge - 1} ELSE deps

Rewired(deps, last, merge) ==
  IF last \in deps THEN (deps \ {last}) \cup {merge} ELSE deps

(* What feeds the consumers of the block; last is the last op of the block.  *)
Gather(last, parts, dim, host, sync) ==
  LET bytes == MergeBytes(last, dim, Cardinality(parts))
  IN  [last EXCEPT
        !.cat = "merge", !.unit = host, !.deps = parts, !.bytes = bytes, !.basis = 0,
        !.domain = IF bytes > 0 THEN "dram" ELSE "none",
        !.resident = FALSE, !.group = 0, !.part = 0, !.fused = "none", !.fusedGroup = 0,
        !.mergeSync = sync, !.sync = sync]

(* The number of members of S below x.                                      *)
PlaceIn(S, x) == Cardinality({y \in S : y < x})

(* Mutated form: a part lists the block from its end.                        *)
PartIds_Backwards(base, k, block) ==
  [q \in (1..k) \X block |-> base + q[1] * Cardinality(block) - 1 - PlaceIn(block, q[2])]

(* Ids from base on: part by part, each in the order of the block.           *)
PartIds(base, k, block) ==
  [q \in (1..k) \X block |-> base + (q[1] - 1) * Cardinality(block) + PlaceIn(block, q[2])]

(* The merge has the id after the parts; the new nodes stand in the list     *)
(* where the first node of the block stood.                                 *)
Split(g, n, plan, host, sync) ==
  LET block == Block(g, n)
      last == Max(block)
      k == Len(plan.units)
      sizes == Sizes(plan, g.op[n].shape[plan.dim])
      base == FreshId(g)
      ids == PartIds(base, k, block)
      merge == base + k * Cardinality(block)
      part(x) == LET q == CHOOSE q \in DOMAIN ids : ids[q] = x
                 IN  Part(g.op[q[2]], n, plan, q[1], sizes[q[1]], [c \in block |-> ids[<<q[1], c>>]])
      first == Min({g.at[c] : c \in block})
      after == (Ids(g) \ block) \cup Range(ids) \cup {merge}
  IN  [at |-> [x \in after |->
                 IF x \notin Ids(g) THEN first + x - base
                 ELSE IF g.at[x] < first THEN g.at[x] ELSE g.at[x] + merge - base + 1],
       op |-> [x \in after |->
                 IF x \in Ids(g) THEN [g.op[x] EXCEPT !.deps = Rewired(g.op[x].deps, last, merge)]
                 ELSE IF x # merge THEN part(x)
                 ELSE Gather(g.op[last], {ids[<<i, last>>] : i \in 1..k}, plan.dim, host, sync)]]

(* Mutated form: only the first op of the block is placed.                  *)
Placed_FirstOnly(g, n, unit, resident) ==
  [g EXCEPT !.op[n].unit = unit, !.op[n].resident = @ \/ resident]

(* A decision that does not split: the whole block on one unit.              *)
Placed(g, n, unit, resident) ==
  LET block == Block(g, n)
  IN  [g EXCEPT !.op = [x \in Ids(g) |->
         IF x \in block
         THEN [g.op[x] EXCEPT !.unit = unit, !.resident = g.op[x].resident \/ resident]
         ELSE g.op[x]]]

-----------------------------------------------------------------------------
(* precision.insert_conversions.                                            *)

(* Mutated form: any change of precision is converted.                      *)
NeedsConversion_AnyUnit(p, c) ==
  p.cat # "convert" /\ c.cat # "convert" /\ p.prec # c.prec

(* Exactly one end on the GPU, and another precision there.                  *)
NeedsConversion(p, c) ==
  /\ p.cat # "convert" /\ c.cat # "convert"
  /\ p.prec # c.prec
  /\ (p.unit = "gpu") # (c.unit = "gpu")

Crossing(g) ==
  {e \in Ids(g) \X Ids(g) : e[1] \in g.op[e[2]].deps /\ NeedsConversion(g.op[e[1]], g.op[e[2]])}

(* The convert on the edge from p to c.                                     *)
Convert(e, p, c, placement) ==
  LET node == [p EXCEPT
        !.cat = "convert", !.prec = c.prec, !.deps = {e[1]}, !.group = 0, !.basis = 0,
        !.unit = IF placement = "producer" THEN p.unit ELSE c.unit,
        !.bytes = OutElems(p.shape) * (PrecisionBytes(p.prec) + PrecisionBytes(c.prec)),
        !.resident = FALSE, !.sync = 0, !.mergeSync = 0, !.fused = "none", !.fusedGroup = 0]
  IN  [node EXCEPT !.domain = Residency(node)]

(* Edges are met consumer by consumer down the list.                        *)
Sooner(g, e, f) == g.at[e[2]] < g.at[f[2]] \/ (e[2] = f[2] /\ e[1] < f[1])

ConvertIds(g, edges) ==
  [e \in edges |-> FreshId(g) + Cardinality({f \in edges : Sooner(g, f, e)})]

Through(ids, d, x) == IF <<d, x>> \in DOMAIN ids THEN ids[<<d, x>>] ELSE d

(* The converts stand at the end of the list.                               *)
Converted(g, placement) ==
  LET ids == ConvertIds(g, Crossing(g))
      convert(x) == LET e == CHOOSE e \in DOMAIN ids : ids[e] = x
                    IN  Convert(e, g.op[e[1]], g.op[e[2]], placement)
      end == Max(Range(g.at)) + 1
      after == Ids(g) \cup Range(ids)
  IN  [at |-> [x \in after |-> IF x \in Ids(g) THEN g.at[x] ELSE end + x - FreshId(g)],
       op |-> [x \in after |->
                 IF x \in Ids(g)
                 THEN [g.op[x] EXCEPT !.deps = {Through(ids, d, x) : d \in g.op[x].deps}]
                 ELSE convert(x)]]

-----------------------------------------------------------------------------
(* The passes of scheduler._finish.                                         *)

MapOps(g, F(_)) == [g EXCEPT !.op = [x \in Ids(g) |-> F(g.op[x])]]

(* Without a table only the matmuls whose weights are held change.           *)
Rescaled(n) == n.cat = "matmul" /\ (DOMAIN WeightBytes # {} \/ WeightsHeld(n))

(* Mutated form: the INT8 basis is not remembered.                           *)
WithUnitBytes_NoBasis(g) ==
  MapOps(g, LAMBDA n : IF Rescaled(n) THEN [n EXCEPT !.bytes = UnitBytes(n)] ELSE n)

(* apply_unit_bytes.                                                        *)
WithUnitBytes(g) ==
  MapOps(g, LAMBDA n : IF Rescaled(n)
                    THEN [n EXCEPT !.basis = BaseBytes(n), !.bytes = UnitBytes(n)] ELSE n)

WithDomains(g) == MapOps(g, LAMBDA n : [n EXCEPT !.domain = Residency(n)])

Fusible(n) == n.cat = "elementwise" /\ n.unit \in {"gpu", "npu", "cpu"}

(* tag_fused_chains: an elementwise op that is the only consumer of its only *)
(* producer, itself elementwise on the same unit and already tagged, is      *)
(* fused into that producer's kernel; every other one heads a kernel.  The   *)
(* list is gone through in order.  Mutated form: the units are not compared. *)
FusesInto_AnyUnit(g, x, d) ==
  /\ g.op[x].deps = {d} /\ Fusible(g.op[d]) /\ g.at[d] < g.at[x]
  /\ Successors(Deps(g), d) = {x}

FusesInto(g, x, d) ==
  /\ g.op[x].deps = {d} /\ Fusible(g.op[d]) /\ g.at[d] < g.at[x]
  /\ g.op[d].unit = g.op[x].unit
  /\ Successors(Deps(g), d) = {x}

KernelHeads(g) ==
  LET head[x \in {y \in Ids(g) : Fusible(g.op[y])}] ==
        IF \E d \in g.op[x].deps : FusesInto(g, x, d)
        THEN head[CHOOSE d \in g.op[x].deps : FusesInto(g, x, d)] ELSE x
  IN  head

WithFusedChains(g) ==
  LET heads == KernelHeads(g)
  IN  [g EXCEPT !.op = [x \in Ids(g) |->
         [g.op[x] EXCEPT
            !.fused = IF x \notin DOMAIN heads THEN "none"
                      ELSE IF heads[x] = x THEN "head" ELSE "follower",
            !.fusedGroup = IF x \in DOMAIN heads THEN heads[x] ELSE 0]]]

(* Mutated form: a convert is looked through, as the solver does.           *)
Boundary_ThroughConvert(g, n) ==
  n.unit # "mem" /\ \E d \in n.deps :
    LET p == IF g.op[d].cat = "convert" THEN CHOOSE q \in g.op[d].deps : TRUE ELSE d
    IN  g.op[p].unit \notin {n.unit, "mem"}

Boundary(g, n) == n.unit # "mem" /\ \E d \in n.deps : g.op[d].unit \notin {n.unit, "mem"}

(* apply_sync: a merge carries its own.                                     *)
WithSync(g, sync) ==
  MapOps(g, LAMBDA n : [n EXCEPT !.sync = IF n.cat = "merge" THEN n.mergeSync
                                       ELSE IF Boundary(g, n) THEN sync ELSE 0])

Finished(g, placement, sync) ==
  WithSync(WithFusedChains(WithDomains(WithUnitBytes(Converted(g, placement)))), sync)

=============================================================================
