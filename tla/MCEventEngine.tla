--------------------------- MODULE MCEventEngine ---------------------------
(***************************************************************************)
(* Calls of run_dag for TLC.  Numbers are chosen so that the divisions of    *)
(* the fair share are exact: a stream alone runs at 60 bytes per tick.       *)
(***************************************************************************)
EXTENDS EventEngine

CONSTANTS cim, gpu

MCUnits == {cim, gpu, Mem}

(* Every acyclic graph over 1..3 in list order.                              *)
Edges == {<<1, 2>>, <<1, 3>>, <<2, 3>>}
Acyclic == {[n \in Nodes |-> {e[1] : e \in {f \in E : f[2] = n}}] : E \in SUBSET Edges}
Cyclic == {[n \in Nodes |-> CASE n = 1 -> {2} [] n = 2 -> {1} [] OTHER -> {}],
           [n \in Nodes |-> IF n = 3 THEN {3} ELSE {}]}

SharedUnit == [n \in Nodes |-> IF n = 3 THEN gpu ELSE cim]
MemFirst == [n \in Nodes |-> CASE n = 1 -> Mem [] n = 2 -> gpu [] OTHER -> cim]
ThreeUnits == [n \in Nodes |-> CASE n = 1 -> cim [] n = 2 -> gpu [] OTHER -> Mem]
Placement == {SharedUnit, MemFirst, ThreeUnits}

(* What pricing can give one node.                                           *)
Cost(f, c, b, d) == [fixed |-> f, compute |-> c, bytes |-> b, domain |-> d]
Costs == {Cost(0, 0, 0, "none"), Cost(30, 60, 0, "none"), Cost(0, 0, 7200, "dram"),
          Cost(30, 180, 3600, "dram")}
Streaming == {Cost(30, 0, 3600, "dram"), Cost(0, 90, 7200, "dram"), Cost(0, 90, 3600, "cpu_cache")}

NoCap == [u \in {} |-> 1]
Legacy(ceiling) == [eff |-> 60, ceiling |-> ceiling, capped |-> FALSE, caps |-> NoCap]
Profile(ceiling, cap) ==
  [eff |-> 60, ceiling |-> ceiling, capped |-> TRUE, caps |-> [u \in {gpu} |-> cap]]

Mode(bw, conc, cont, price, pipe) ==
  [bw |-> bw, concurrency |-> conc, contention |-> cont, priceCompute |-> price,
   pipeline |-> pipe]

Calls(graphs, placements, costs, modes) ==
  {[deps |-> g, unit |-> p,
    fixed |-> [n \in Nodes |-> c[n].fixed], compute |-> [n \in Nodes |-> c[n].compute],
    bytes |-> [n \in Nodes |-> c[n].bytes], domain |-> [n \in Nodes |-> c[n].domain],
    bw |-> m.bw, concurrency |-> m.concurrency, contention |-> m.contention,
    priceCompute |-> m.priceCompute, pipeline |-> m.pipeline] :
     g \in graphs, p \in placements, c \in [Nodes -> costs], m \in modes}

(* Calls the code refuses: a cycle, an unplaced node, a wrong memory domain, *)
(* traffic on a dead channel.                                                *)
DeadChannel == [eff |-> 0, ceiling |-> 60, capped |-> FALSE, caps |-> NoCap]
PlainMode == Mode(Legacy(60), TRUE, TRUE, TRUE, TRUE)
NoEdge == [n \in Nodes |-> {}]
Refused ==
  LET plain == {Cost(0, 60, 0, "none")}
  IN  Calls(Cyclic, Placement, Costs, {PlainMode})
      \cup Calls({NoEdge}, {[n \in Nodes |-> NoUnit]}, plain, {PlainMode})
      \cup Calls({NoEdge}, Placement, {Cost(0, 0, 3600, "none"), Cost(0, 0, 0, "invalid")}, {PlainMode})
      \cup Calls({NoEdge}, Placement, {Cost(0, 0, 3600, "dram")}, {Mode(DeadChannel, TRUE, TRUE, TRUE, TRUE)})

(* Contention off on a channel de-rated below one stream's bandwidth.        *)
DeratedJobs ==
  Calls(Acyclic, {SharedUnit, ThreeUnits}, Streaming, {Mode(Legacy(30), TRUE, FALSE, TRUE, TRUE)})

(* Legacy fair share: knee at, above and (de-rated) below one stream.        *)
LegacyJobs ==
  Calls(Acyclic, Placement, Costs, {Mode(Legacy(60), TRUE, TRUE, TRUE, TRUE)})
  \cup Calls(Acyclic, {SharedUnit, ThreeUnits}, Streaming,
        {Mode(Legacy(90), FALSE, TRUE, TRUE, TRUE), Mode(Legacy(30), TRUE, TRUE, FALSE, TRUE),
         Mode(Legacy(90), TRUE, FALSE, TRUE, TRUE), Mode(Legacy(60), TRUE, TRUE, TRUE, FALSE)})
  \cup DeratedJobs \cup Refused

(* SoC profiles: the GPU capped below one stream's bandwidth, the knee below *)
(* two streams' demand.                                                      *)
ProfileJobs ==
  Calls(Acyclic, {ThreeUnits, MemFirst}, Streaming,
        {Mode(Profile(90, 40), TRUE, TRUE, TRUE, TRUE), Mode(Profile(60, 20), TRUE, TRUE, TRUE, TRUE)})
  \cup Calls(Acyclic, {ThreeUnits, MemFirst}, Streaming,
        {Mode(Profile(90, 40), FALSE, TRUE, TRUE, TRUE)})

AllJobs == LegacyJobs \cup ProfileJobs

=============================================================================
