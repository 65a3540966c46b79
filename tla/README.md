# A verification project for the heterogeneous edge-CIM simulator

The repository simulates the latency of one LLM token (decode) or one prompt
(prefill) on an edge platform that combines a compute-in-memory accelerator
(CIM), an NPU, a GPU and a CPU around one shared DRAM channel.  The program is
Python, single threaded, and everything it reports comes from one discrete
event loop over an operator graph.  Beside it stand the scripts that measure the
hardware it is calibrated on; two of them run for hours on a board that hangs
and are resumed from their files.  This directory holds TLA+ models of both, the
TLC runs that check them on small instances, and proofs checked by TLAPS.  Paths
below are relative to `src/simulator/runtime/` unless they say otherwise.

## 1. The system

A run goes through the components in this order: the configuration
(`config.py`) is validated and labelled; the runner (`runner.py`) builds the
platform (`platform.py`) and the operator graph (`workload.py`, `dag.py`); a
scheduler (`scheduler.py`) places every op, asking the per-op solver
(`solver.py`) and rewriting the graph (`tiling.py`, `precision.py`); the event
engine (`events.py`) executes the result on the shared channel
(`resources.py`); the runner turns latency and statistics into the row it
reports.  Components call each other synchronously; what they share is the
graph, whose nodes several of them mutate in place, and the configuration, whose
fields a caller may set between two runs.

| Component | State | Operations | What is hard | What makes it correct | Modules |
|---|---|---|---|---|---|
| Event engine `events.py` | clock, pending / started / activated / done, per-unit clocks, streams in flight and their bytes, statistics | `run_dag`, `run_serial`, `finish`, `rates_bytes_per_us` | concurrency of ops on units and of streams on the channel, ops of zero cost, work left with nothing to wait for | order, exclusive servers, bytes conserved, bounds on the latency, the loop ends | `EventEngine`, `DagExecution` |
| Shared channel `resources.py` | bandwidth, ceiling, per-unit caps | `share`, `aggregate_GBs`, `per_stream_GBs`, `stream_us`, `_waterfill` | shares re-computed as streams come and go, several streams of one unit under one cap | caps and knee respected, max-min fair, monotone | `SharedBandwidth`, `StreamsInFlight` |
| Operator graph `dag.py` | nodes, successor index | `successors`, `is_acyclic` | cyclic input | the verdict is right | `OpDag`, `KahnAcyclic` |
| Precision conversion `precision.py` | rebuilt graph | `insert_conversions` | one convert per crossing edge, applied twice | dependencies kept, no crossing edge left | `PlanGraph`, `PlanRewrite` |
| Tiling `tiling.py` | rebuilt graph, `plans` | `partition`, `split_node`, `apply_sync` | ids and edges after several rewrites, rounding, sync charged once | dependencies kept, shares add up, sync idempotent | `PlanGraph`, `PlanRewrite` |
| Schedulers `scheduler.py` | units, memory domains, tags, plans, candidates | `assign`, `_finish`, `tag_fused_chains`, `_allocate_cim_budget`, `_assign_host`, `_refine` | assigning twice, stale tags, ties, a budget spent across ops, an allotment used after the plan it was made for | idempotence, budget never exceeded, the plan returned is the best timed | `PlanRewrite`, `CimBudget`, `PlanSearch` |
| Per-op solver `solver.py` | context of one decision | `candidates`, `_boundary_in`, `_charges_handback`, `cim_cols` | it prices boundaries of a graph that does not exist yet | what it prices is what is charged, what it pins is what was allotted | `OpSolver` |
| Workload `workload.py` | graph of a phase | `build_token_dag`, `build_prefill_dag`, `weight_order_violations` | chunk remainders, dependencies between chunks | chunks add up, attention reads all of its past, a clean check means held weights | `PrefillChunks` |
| Configuration `config.py` | fields, provenance flags | `from_dict`, `validate`, `is_calibrated_anchor` | edited after validation; a knob nobody flags | a label never claims what an ablation broke | `SimConfig` |
| Platform `platform.py` | resolved parameters | `__init__`, `supports`, `price` | guards written a second time; ops no unit can price | accepts what validates; prices every planned op | `SocPlatform`, `UnitPricing` |
| Runner `runner.py` | one run | gates, decode points, chunk portfolio, report | which chunk count is reported, under which label | report agrees with what ran | `Runner` |
| Board scripts `../../characterization/metis_card/` | results file, tile cache, burst log | measure, save, resume, abort on heat | lost at any step, restarted with another scope, a tool that hangs | nothing measured is lost, heating stops, a run ends | `Campaign`, `ThermalCapture`, `Board` |
| Trace tools `../../tools/trace_export/` | value ids by address, references kept, records | `EdgeRecorder`, `validate_value_flow`, `compute_subgraph`, `build_fixture` | the address of a dead tensor is given to another | the graph committed is the data flow of the traced program | `TraceFixture`, `PrefillWorkload` |
| Cost models, other tools, validation gates, report | fitted coefficients, files | scripts | floating point, hardware, file I/O | | not modelled, section 7 |

`PROJECT.json` lists the hazards found while reading, each at its line, with
the properties that cover it.

## 2. Modules

| Module | Models | Extends |
|---|---|---|
| `OpDag` | a graph as a function from a node to its dependencies: successors, acyclicity, critical path | |
| `SharedBandwidth` | the channel as pure functions: aggregate, per-stream rate, caps, water-filling, `share`, `stream_us` | |
| `StreamsInFlight` | the channel as the engine drives it, one stream opening or closing at a time | `SharedBandwidth` |
| `KahnAcyclic` | the worklist of `Dag.is_acyclic` | `OpDag` |
| `DagExecution` | the abstract promise of the engine | |
| `EventEngine` | `run_dag` and `run_serial` | `OpDag`, `SharedBandwidth`; implements `DagExecution` |
| `PlanGraph` | the rewritings of a placed graph as operators: splitting a block, converts, the passes of the schedulers' tail | `OpDag` |
| `UnitPricing` | which unit prices which op, and when `price` raises | `PlanGraph` |
| `CimBudget` | the residency budget: requests, allotments, columns offered | |
| `OpSolver` | the candidates of one op and the syncs their estimates count | `UnitPricing`, `CimBudget` |
| `PlanRewrite` | every scheduler's `assign` as steps over a graph | `OpSolver` |
| `PlanSearch` | the search around one solve: hosts, two budget passes, refinement, single-unit plans, the choice | `CimBudget` |
| `TraceFixture` | the recorder of a forward's value flow, and its contraction onto the compute ops | |
| `PrefillChunks` | `build_prefill_dag` and the weight-order check over any execution of the chunks | |
| `PrefillWorkload` | their composition, from a trace to the chunks | both |
| `SimConfig` | defaults, `from_dict`, `validate`, the provenance flags | |
| `SocPlatform` | what the platform's constructors accept and resolve | `SimConfig` |
| `Runner` | `runner.run` on a configuration that is built, edited and run again | `SocPlatform` |
| `Campaign`, `ThermalCapture` | the two resumable board scripts | |
| `Board` | their composition: each may be lost alone, both with the board | both |
| `SharedBandwidthTheorems` | lemmas: induction over finite sets, sums, division, and what each function of the channel returns | `SharedBandwidth` |
| `PlanSearchProofs`, `PrefillWorkloadProofs`, `RunnerProofs`, `BoardProofs` | the theorems about the module each is named after | that module |
| `EventEngineProofs` | the theorems about `EventEngine`, and those about `StreamsInFlight` | both |
| `PlanRewriteProofs` | the theorems about `PlanRewrite`, and those about `KahnAcyclic` | both |
| `PlanPriceProofs` | that the boundaries priced are the boundaries charged | `PlanRewriteProofs` |
| `MC*` | values of the constants for TLC | |

An operator named `X_Y` with the comment "Mutated form" is a plausible bug of `X`,
kept beside it: with `X` defined by it, the property named in `PROJECT.json` fails.

### EventEngine and the code

One behaviour is one call of `run_dag`.  `job` holds the call's arguments and
`pc` the place in the code:

| Action | Code |
|---|---|
| `Reject`, `EnterLoop` | the preconditions (172-180) and the loop condition (220) |
| `RunSerial` | `run_serial`, the whole path of `pipeline=False` |
| `Dispatch(n)`, `EndDispatch` | the first loop of a pass, one node at a time (228-243) |
| `Activate` | the second loop (244-252) |
| `Finish` | the third loop (253-257) and the decision to make another pass |
| `Advance` | the event distances (261-278), then `Stall`, the give-up (279-287), or `Drain`, the clock and the bytes (289-299) |
| `Settle` | the finish loop after the drain (300-301) |
| `Return` | the completion check and the return (303-310) |

The variables carry the names of the code's.  Two are added for properties:
`done_at` records when a node was found done, and `progressed` is kept as in
the code.  Abstractions:

- Time is in ticks and bytes are integers.  `_EPS` is exact comparison; the
  constants are chosen so that a stream ends on a tick, and `CeilDiv` rounds up
  otherwise.  `_BYTE_EPS` stays, as the constant `ByteEps`.
- `for nid in list(pending)` iterates a set: `Dispatch(n)` is a choice among all
  dispatchable nodes.  For small integers CPython's order is deterministic, so
  the model allows every order and the properties hold for each.
- Dependencies are a set; where the code takes the first of a list
  (`_stream_owner`) the model takes the least id, list order being id order.
- `Activate` and `FinishAll` do their whole loop in one step: the bodies for
  different nodes commute (a node released by a finish is pending and is looked
  at in the next pass, as in the code, which has iterated its copy).
- Prices are data of the job: what `platform.price` returns for the node.

`DagExecution` has no clock: `Start`, `Release` and `Complete` say only that an
op starts when its dependencies are complete and its server free.  `EventEngine`
implements it with `holding` mapped to the started ops whose compute is not over.

### PlanRewrite, OpSolver, UnitPricing and the code

A graph gives each id its node (`op`) and its place in the list `Dag.nodes` (`at`,
places up to gaps: only which node stands before which is ever read).  A step
is one turn of the loop of `_solve_dag`: `PlaceFixed`, `PlaceSupport`,
`PlaceSingle` and `SplitBlock` are its branches, `Finish` the tail `_finish`.
`AssignSingle`, `AssignAllCim` and `AssignCimHetero` are the schedulers with a
fixed map, and `Reassign` the second call of `assign` on the planned graph.
`PlanGraph` holds what those calls do: `Split` is `split_node`, with the sizes of
`partition`, fresh ids, renamed and rewired dependencies; `Converted` is
`insert_conversions`; `WithUnitBytes`, `WithDomains`, `WithFusedChains` and
`WithSync` are the passes of `Finished`.  The loop takes the ops in the order of
their ids: a trace numbers them topologically and `_topo` takes the least that is
ready.  `Decidable` and `Mapped` are the raises of the code: where no unit can take
an op the call fails and there is no plan.

`OpSolver!Offered` enumerates what `solve` enumerates, with its guards: one unit,
the grid compositions per axis, the two-way cut at the CIM's capacity, the whole
op pinned in decode, chunks of a standard length on a static-graph unit.  The
code takes the cheapest of them by a floating-point estimate; here any one may
be the cheapest, so a property holds whatever the platform's prices are.  What
the estimate *counts* is kept: `Priced` says which units pay for their inputs
and whether a hand-back is paid, under each of the three rules of the search
(always, deferred, neighbours).  `priced` records it at the decision, to be
compared with what `apply_sync` charges once the graph is finished.

- An op keeps the axes it can be split on.  Bytes are exact for a matmul and
  proportional to the shape otherwise; fractions are integers over a denominator.
- `deps` is a set.  `src` and `part` are the provenance the code keeps in `tile`.
- Categories placed alike are one: `elementwise` stands for norm, rope, ffn,
  softmax, residual and the scale and mask ops of attention.  The latter, named by
  `ScaleMask`, are priced as attention (`PricedCat`): the CIM runs them, `AllCim` sends
  them there, and no split by row is offered for them.
- A part's size is aligned by `Quantum` and not below `Minimum`, two tables by unit or
  axis as in the code; a split by row has neither.  A row split must be feasible for the
  rows the context has (the shadowed `rows` of finding `solver_rows`) as well as for the
  op's own.  A traced op has all rows in flight: chunks of unequal rows in one graph are
  left out.
- `SharedWeights` are the matmuls tagged `chunk_weights_shared`, which stream no
  weights; a unit absent from `WeightBytes` counts a byte per parameter, and on a
  platform without the table only held weights are rescaled.
- `op_fixed_us`, which the estimate adds for some candidates, changes which is cheapest
  only, and any may be.

### CimBudget, PlanSearch and the code

`CimBudget!Allocate` is `_allocate_cim_budget`: the requests by saving density,
each cut to an aligned number of columns that fits what is left.  `CimCols` is
`cim_cols`, what the solver then offers.  In `PlanSearch` a step is one plan that
reaches the list of candidates:

| Action | Code of `TiledHeteroScheduler` |
|---|---|
| `SolveHost` | `_assign_host` where no budget applies |
| `SolveHostBudgeted` | its two passes: record the requests, allocate, solve with the grants, keep the better of pinned and plain |
| `Refine` | `_refine`: the deferred and the neighbours pass on the best candidate, under its allotment |
| `AddSingle` | the single-unit plans of host auto |
| `Report` | the choice among the candidates and the table `host_candidates` |

What the engine answers for a plan and what the solver estimates for it are
arbitrary numbers of a small set: nothing is assumed of how plans compare.  `Eps`
is the 1e-9 us a plan must win by.

### TraceFixture, PrefillChunks, PrefillWorkload and the code

`TraceFixture` runs a program that is data: what each op reads and writes, by names
the recorder never sees.  `RecordOp` is `__torch_dispatch__` for the next op, with
`_input_vid` and `_out_vid` for its tensors; `WriteGraph` is the end of a forward:
`validate_value_flow`, `compute_subgraph` and the next length of `build_fixture`.
The recorder identifies a tensor by `id()`, its address: a new tensor gets any
address that neither the program nor `_keep` refers to.  `MakeLate` makes a tensor
outside the recorder's sight (a constant, weights made at first use), and `Drop` lets
go of every tensor the rest of the program does not read; both are the traced program
and the interpreter, which are external.  `alias_of` is recorded by the code but not
used by the contraction, and is left out, as are shapes and sources of a node.

`PrefillWorkload` loads what was committed: the two lengths must have one structure
(`_check_anchor_structure`) and the bmms must pair up.  `PrefillChunks!Forward` is
that pairing in `build_token_dag`.  From it the operators build the chunked graph as
`build_prefill_dag` does: `ChunkRows`, `Block` with the ops between QK^T and S.V and
the requirement that it is closed, `KProducers` and `VProducers` (which tell K from Q
by the width of the projection), `PastProducers` and `Deps`.  `Build` is the call;
the solver's plan is a choice.  `Dispatch` and `DispatchMatmul` run the graph in every
order the edges allow, each matmul in the parts its chunk's plan gives it; unit clocks
only remove orders.  The check reads the orders after the run; the model keeps its
`prev` and counts at each dispatch.  `missed` is not in the code: it counts the parts
whose columns their unit does not hold when they start.  Splits are along the
columns, the dimension along which a unit can hold part of the weights.

### SimConfig, SocPlatform, Runner and the code

A configuration is a record of the fields of `SimConfig`.  A field that may be
`None` is a set of at most one value; fractions are percentages; bandwidths are in
tenths of GB/s.  `Valid` is `validate()`, conjunct by conjunct, `Departures` is
`_flag_provenance` and `FromDict` the constructor from a dictionary.
`SocPlatform!PlatformAccepts` is what the constructors of `platform.py` and of its
parts raise on, and `TimingInputs` every value the configuration contributes to the
timing, which is the yardstick for the labels.

| Action | Code |
|---|---|
| `Construct` | `SimConfig.from_dict` and `__post_init__` |
| `Edit` | an assignment to a field: the dataclass is mutable and neither checks nor flags |
| `Start` | the head of `runner.run`: `validate()`, the gates in their order, the decode positions |
| `TryChunks` | one turn of the chunk portfolio |
| `Report` | the row: the label, the chunk count looked up again among the times |

### Campaign, ThermalCapture, Board and the code

`Start(only)` reads the results file and selects the tasks; `Measure` is one task
of the loop with the tile cache, an error of the compiler or of the board being a
result like another; `Truncate` and `Write` are the two halves of
`write_text`, which empties a file before it fills it, and `Finish` those of the last
write, of the raw file nobody reads back; `Lost` may come at any step
and leaves only the files.  `_TILE_CACHE` is a global of the module, so a start has a
`FreshCache`.  `ThermalCapture` is a compile, then bursts, each
followed by a save and the check of the temperature.  `Board` interleaves both:
either script may be lost with its terminal, and `Reboot` takes both.

`held`, `tiles` and `starts` are histories: what was ever on disk, which tile was
measured at which M, and in which process.  So is the `start` of a result, the process
that recorded it: `TileOfItsOwnM` compares it with the start of its tile.  `bursts` is
what one capture read; a capture started again reads none of it, so `StopsAtTheCap`
speaks of one capture.

## 3. Runs

| Run | Question | Bounds |
|---|---|---|
| `engine` | is `run_dag` right, under the legacy fair share and under per-unit caps with water-filling, with the ablations, the serial path and the refused calls? | every acyclic graph of 3 ops in list order, 3 placements on CIM, GPU and mem, 4 costs (zero, compute, stream, both) per op; caps 20 and 40, knees 30 (with and without contention), 60 and 90, one stream 60 |
| `streams_in_flight` | is the share right as streams come and go? | 3 units, up to 3 streams, legacy and capped channels |
| `kahn_acyclic` | is the verdict right, and does the worklist end? | every graph of 3 nodes, cycles and self loops included |
| `plan_rewrite` | is the rewritten graph still the model's graph, does the tail charge it once, does the engine accept it and does a second `assign` leave it alone, whatever is decided by whichever scheduler? | a decode layer of 9 ops with an attention block (a scale op and a softmax in it) and a KV cache, a chain of 6 ops and 5 rows of the second chunk of a prefill, 4 units (mem included), 2 hosts, both convert placements, every candidate on a grid of 2 |
| `op_solver` | are the boundaries the solver prices the ones charged, and what it pins what was allotted, under every hand-back rule, hint and allotment? | two matmuls around a support op that reads the first and the past, the prefill chain; 4 hints a graph, 3 allotments, 3 rules |
| `prefill_chunks` | is the committed graph the program's data flow wherever its tensors were put, does attention of a chunk read all of its past, and does a clean weight-order check mean the weights were where they are assumed to be? | an attention layer of 8 compute ops and 3 views, K and V narrower than Q, one result nobody reads, 2 tensors made late, traced at 2 lengths; then 1 or 5 rows, up to 3 chunks, two chunks with 3 ways each to split the last matmul |
| `plan_search` | is the budget kept and spent where it saves most, and is the plan returned the best of all timed? | 2 units, hosts auto and each, with and without budget and refinement, 4 engine times, 2 estimates, 3 matmuls against a budget of 21 elements |
| `runner` | is a run labelled calibrated timed as the anchor, does the platform accept what validates, does the reported chunk count reach the reported time? | every configuration two keys away from the default, 26 keys, one of them unknown, legal and illegal values, 1 edit, 3 engine times, up to 4 chunk counts |
| `board` | does what was measured survive, does heating stop, does a start that is not lost end? | 4 tasks (a tile of its own, one shared by two groups, one measured directly), 2 starts and 2 captures, 2 bursts, each or both lost at any step |
| `plan_two_rows`, `solver_rows`, `solver_sync` | findings, see section 6 | the smallest graphs that show them |

Why these bounds are enough:

- `engine`: three ops are the least with both a chain and a fork or join, two ops
  competing for one unit while a third streams, and a stream that starts and ends
  while another is in flight.  Zero costs give the chains of ops that finish at
  the instant they are dispatched; costs 30/60/180 and streams of 60 or 120 ticks
  make every order of the ends of delays, computes and streams occur.  A fourth op
  adds no new pair of concurrent events but multiplies the jobs by more than ten.
- `plan_rewrite`: the two graphs hold each shape a rewriting distinguishes: an op
  with two producers and one with two consumers, a block with an op between QK^T
  and S.V, an INT8 producer of an FP16 consumer and the reverse, a memory op
  between units, elementwise chains in and outside a block, a matmul whose weights are
  held, adjacent splittable ops.  The axes M, N, K, heads and kv
  occur, with two and three parts, two parts on one unit, and a remainder the
  quantum does not divide.  Splits by row do not: the minima end in `<<"cim", 1>>`, as
  those of a platform with a CIM may, and the code then offers none (finding
  `solver_rows`).  The proofs cover them.
- `op_solver`: a boundary is decided by an op, its producers and its consumers;
  the slice has all three between two ops that can be pinned.
- `prefill_chunks`: five rows in three chunks leave a remainder, one row is fewer
  than the chunks asked for, and three chunks are the least with a past of two.
  Two of the three splits differ in offsets and agree in the size of one part.
- `prefill_chunks`, the trace: an edge is fabricated by a tensor that dies unread, then
  one made late at its address, then an op that reads it.  One such result and two late
  tensors are enough; the second length starts with a fresh recorder.
- `plan_search`: each matmul fits the budget in part or in full and no two in full,
  one has a width the alignment does not divide, two are equally dense when they
  save the same.  Times 10, 11, 13, 15 with a tolerance of 1 give ties, wins within
  the tolerance and clear wins.
- `runner`: a flag that is missing, or a guard the platform lacks, shows with the
  key it is about and one that enables it (a profile, a topology), hence two keys;
  one edit makes any of the flags stale.
- `board`: two starts with different scopes are enough for one to forget what the
  other measured; two bursts for one to follow a reading at the cap.

`CHECK_DEADLOCK FALSE` is used because the modelled thing ends: a call returns or
raises, a worklist empties, the starts of a script are bounded.  A campaign whose
file was torn does not start again either: `json.loads` raises until somebody
removes the file.

Fairness: `EventEngine` has `WF_vars(Next)` and `KahnAcyclic` `WF_kahnVars(KahnNext)`
only: a call is one
thread of straight-line Python, which keeps stepping until it returns or raises,
and nothing is assumed of which enabled step is taken.  `Board` has weak fairness
of a started campaign's own steps: each tool it calls answers or runs into the
timeout it is given, and `measure` turns both into a result.  Losses, starts and
the thermal capture are not fair.

What the properties say is in the comment above each.

## 4. Proofs

Every theorem is about the specification for all values of its constants that meet
the assumptions below; the runs show the same properties on one small instance.

| Module | Theorem | Property of a run |
|---|---|---|
| `EventEngineProofs` | `LoopInvariant`, `LoopTypesCorrect` | |
| | `OrderCorrect`, `ServersExclusive`, `DurationsRespected` | `DependenciesRespected`, `UnitExclusive`, `OpsLastTheirDuration` |
| | `UtilisationCorrect` | |
| | `EngineImplementsExecution` | `ImplementsDagExecution` |
| | `NothingSkipped` | `NothingDueIsSkipped` |
| | `StreamInvariant`, `BytesConserved`, `KneeRespected`, `UnitCapRespected` | `StreamBytesConserved`, `AchievedWithinKnee`, `StreamsWithinUnitCap` |
| | `AcceptedCallsNeverRaise` | |
| | `ChannelIsFair`, `StreamsOnlyCompete` | `MaxMinFair`, `NeighboursOnlyLose` |
| `PlanRewriteProofs` | `PlanInductive`, `PlanTypeCorrect` | `TypeOK` |
| | `PlanBlocksStayWhole` | |
| | `PlanDependencies`, `PlanWork` | `DependenciesPreserved`, `WorkConserved` |
| | `PlanConverts`, `PlanSyncs`, `PlanKernels` | `ConvertsExact`, `SyncOncePerBoundary`, `KernelsHaveHeads` |
| | `PlanAccepted` | `EngineAccepts` |
| | `PlanPinned` | `PinnedAsAllotted` |
| | `KahnInvariant`, `KahnVerdict`, `KahnOrder` | `VerdictCorrect`, `PoppedInOrder` |
| `PlanPriceProofs` | `PlanPrices` | `PricedWhereCharged` |
| `PlanSearchProofs` | `ReportedIsBestHolds` | `ReportedIsBest` |
| | `BudgetIsKept`, `GrantsAreOffered`, `DensestServed` | `WithinBudget`, `OfferedExactly`, `DensestFirst` |
| `PrefillWorkloadProofs` | `TraceInvariant`, `GraphsAreDataflow` | `EdgesAreDataflow` |
| | `ChunkInvariant`, `AttentionReadsItsPast`, `CleanChecksHold` | `AttendsToItsPast`, `CleanMeansHeld` |
| `RunnerProofs` | `RunnerInvariant`, `LabelsTrue`, `ValidatedRuns`, `ChunksAreBest` | `LabelTruthful`, `AcceptedRuns`, `ChunksReported` |
| `BoardProofs` | `BoardInvariant`, `ResultsAreNotForgotten`, `TilesServeTheirOwnM`, `CapturesStopAtTheCap` | `NothingForgotten`, `TileOfItsOwnM`, `StopsAtTheCap` |

### Recursion and sums

The channel's water-filling, the sums over sets and the allocation of the budget are
recursive functions over the subsets of a finite set.  Such a definition is a `CHOOSE`,
so the proofs first show that a function with that recursion exists, and for both that
and every fact about it take a smallest set for which the claim fails
(`SmallestSubset`, from `WFMin`; `SubsetInduction` and `RemoveInduction` state the
result for a set of sets, which needs no operator as a parameter).
`SharedBandwidthTheorems` does this once for `SumOver` and `Waterfill`;
`MapThenSumSet` is the same fold.

### EventEngine

`LoopInvariant` is `[]Ind`, where `Ind` is `job \in Jobs` and the conjunction `LoopInv`:

- `Countdown`: an indegree is the number of dependencies not done.  Without it
  `DependenciesRespected` is not inductive: a node could be released early.
- `NodeClocks`, `FreeTimesBacked`: the clocks of a dispatched op and the time its
  server is held until; they carry `UnitExclusive` from one dispatch to the next.
- `DoneClocks`, `BusyFits`: they bound a unit's busy time by the latency, through
  "every time a server is free at is the end of an op's compute".
- `StreamsLast`: a stream has had at most what it would have had alone, which
  makes `OpsLastTheirDuration` inductive across the drains.

On top of it come three smaller invariants.  `Settled` says what each place in the
inner loop has exhausted; the clock moves only where all of it holds, which is
`NothingSkipped`.  `StreamInv` holds the accounts: drained, in flight and to come add up
to the metered bytes, up to `ByteEps` an op, what was drained is at most the ceiling
times the time a stream was active, and each stream is owned by the unit it feeds.  `NothingLost` says a node whose dependencies are done is
pending or started, a stream on the channel has bytes left, and the loop is left only
without work.  Together they give `AcceptedCallsNeverRaise`: the give-up of the loop
and its completion check are never reached on an acceptable graph.  Its hypothesis,
`FineEnough`, is about the model's integers alone: no share is rounded down to zero,
which would stop the clock where the code's floating point goes on.

`EngineImplementsExecution` maps `holding` to the started ops whose compute is not over
and shows each step to be a step of `DagExecution` or a stutter.  `StreamsWithinUnitCap`
speaks of units other than mem: the streams of mem nodes count against the unit they
feed, so several caps apply to them together, and stated for mem as a unit
it would be false.

### The channel and the acyclicity test

`ChannelIsFair`: whatever the caps and the numbers of streams, the shares respect the
ceiling and the caps, hand out what can be used, and a stream below its cap has no
less than any other.  `StreamsOnlyCompete` compares two fillings: more demand lowers the
water level (`MoreDemandGivesLess`).

`KahnInv` says that an indegree counts the dependencies not popped yet, that the queue
holds exactly the nodes not popped whose dependencies all are, and that the popped
nodes are closed under dependencies and well founded: each nonempty subset of them has
a node none of whose dependencies is in it.  When the queue is empty, the nodes never
popped each depend on one of them, so they are the witness of a cycle if there are
any, and when there are none the whole graph is well founded, hence acyclic.

### The rewritten plan

`PlanInductive` is `[]IInv`: what a call is given (`CallInv`) and, while the solver
decides, `SolveInv`, afterwards `PlanInv`.  Both say first what a graph `g` keeps of
the traced graph `o` it was made from, `GraphInv(o, g)`:

- `Listed`, `Typed`: the graph is finite, no two nodes stand in one place, shapes
  belong to categories.
- `Originals`, `Made`, `Provenance`: each node that is not a convert is a traced op
  untouched, or a part of one that is gone, or the merge of one; no two are the same
  part; an op that somebody outside its block reads has a merge once it is gone; a
  block is gone as a whole.  This is what lets "who reads what" be said of `o`.
- `Wired`: looking through the converts, a node reads exactly the values the traced op
  reads, from the part with its own number inside a block, from the merge or the whole
  op outside; a merge reads all parts of its op.  `DependenciesPreserved` is a corollary.
- `Grouped`: a part of a bmm belongs to the QK^T with the same number.
- `Ordered`: a node stands in the list after what it reads.  The recursion of
  `KernelHeads` is defined for that reason (`HeadExists`), and no node waits for ever
  (`WaitingEnds`), which is half of `EngineAccepts`.
- `Worked`: the parts of an op do its work; `Sizes` gives the remainder to the last.

While ops are left, `TodoInv` says they are whole blocks, as traced up to what they
read, that nothing decided reads one of them, and that they stand in the list after
everything made of smaller ids.  It makes the block the code finds in the half-rewritten
graph the traced one (`BlockKept`), which `PlanBlocksStayWhole` asserts (the solver
never raises on a traced graph) and without which no other part would be inductive: `split_node` computes its block from successors
and predecessors of a graph it has already rewired.  `UnitInv` says where the decided
ops are: `Runs` (units that support them, as what `PricedCat` says they are priced as),
`Together` (the bmms of a part on one unit), `Matched` (the parts of all ops of a block
are on the same units), `MergesOn` (the host) and `Kept`
(what is pinned is what was allotted, once an op).

`Split` is taken in three readings, each from the one before: `SplitForm`, the ids and
places it gives out; `SplitMakes`, what each new node is; `SplitViews`, what each node
reads of what it read before.  One lemma for each part of the invariant then needs only
the last.  After the tail, `Planned` holds: `Exact`, a convert stands exactly on the edges
that change precision, on one of its ends' units, and no edge is left to convert;
`Domained`, `Fused` and `Charged` for the tags.  It is kept by a second `assign`,
which removes nothing and adds no convert, because `Exact` leaves it none to add.
`SyncOncePerBoundary` and `PricedWhereCharged` have the hypothesis that
the sync of neither phase is zero: a sync that costs nothing cannot be told from none.

`PlanPrices` needs to know at the decision what will be charged long afterwards.
`PriceInv` carries it: what was priced crosses in `g` as it was priced
(`PricedRight`), the ops pinned to the host are there, and the producers they read from
other units were priced with their hand-back (`HandsRight`).  Later
decisions keep it because no decided op reads one that is left, so a later rewriting
leaves the decided nodes and what they read untouched.  The tail keeps it because
converts and charges follow the crossings (`Follows`), and `SyncsWhereCrossed` turns a
crossing into a sync on the op or on its convert.

### The search and the budget

`reported` is chosen among the candidates, but `timed` remembers plans thrown away long
before, in four places; the invariant that connects them is `MatchInv`: for every time
the engine ever answered, a candidate still in the list is no worse by more than `Eps`.
It survives `Kept`, which replaces a plan only by a faster one, and it survives `Refine`
because the two passes are compared in turn.  That the table lists the reported plan
under its own time needs `ListInv`: each candidate has a source of its own, by its
position, so no later plan overwrites its entry.  `SourcesDiffer` derives that.

The allocation is a recursion over the requests not served yet.  `ServedRight` is its
invariant, for the set served so far: what is granted and what remains add up to the
budget; every grant is a number of columns `cim_cols` gives back unchanged; and a
request cut short has no room for an aligned column more beside the denser ones.

### From a trace to the chunks

The recorder knows addresses; the property is about names.  `TraceInv` connects them:
a tensor has one of the ids op p wrote exactly when p wrote that tensor (`TensorsInv`),
hence two ops are joined by an id exactly when they are joined by a tensor
(`FlowInv`).  That an address given again has no id yet is what `_keep` is for:
`IdsInv` has the ids of exactly the addresses kept.  `OriginsInv` makes
`validate_value_flow` accept.  The contraction is a recursion on both sides; the two
agree because a least op on which they differ reads only from ops before it.

`ChunkInv` says nothing ran before what it reads, and, while nothing was counted, that
each part dispatched has as many columns as its like in the chunk before, and one that
missed its weights begins elsewhere.  Where a part begins is the sum of the parts
before it; once all ran, those have the sizes they had, hence `CleanChecksHold`.

### The runner and the board

`RunnerInv` says a run in progress has the flags `validate()` gave its
configuration, and that the times in its portfolio are those of the counts it tried.
`LabelsTrue` then rests on `UnflaggedIsAnchor`: a valid configuration without a flag has
the timing inputs of the anchor.  `ValidatedRuns` shows each guard of the platform to
follow from a conjunct of `Valid`.

`BoardInv` relates what a script holds in memory to what is on disk at each place in the
script: results in memory include what was ever held, a raw file only what was held, a
tile in the cache was measured in this start, a capture that goes on has read
nothing at the cap.  Every step that loses a script keeps it because what is lost is
memory only.

### Assumptions

They are those the modules name, and TLC evaluates them in the runs:

- `EventEngine`: ids are naturals in a finite set, units are finite, calls are well
  formed (`IsJob`); `StreamsInFlight`: the same channels (`ValidChannel`).
- `CimBudget`, `PlanSearch`: sizes are positive, the capacity a natural, units distinct
  and none called auto, times and tolerance naturals.
- `TraceFixture`: the outputs of an op are tensors of their own, none resident or late.
  The recorder gives a tensor written in place a fresh id, as to a new one, but at its
  old address; such ops are not modelled.  `PrefillChunks`: the traced order
  is topological, a plan splits each matmul into parts on units.
- `PlanGraph`, `OpSolver`, `PlanRewrite`: quanta, minima, the grid and the standard
  lengths are positive, rows have neither quantum nor minimum; a sync and the bytes per
  weight are naturals, and the table of the latter may be empty; the units are among the four of the platform and
  a support unit supports what is pinned to it; an allotment grants columns `cim_cols`
  gives back, in the CIM's quantum.  `GraphsAssumption`: every graph is `Traced`, as
  `build_token_dag` makes it: numbered topologically, untouched by any scheduler, each
  QK^T with one S.V, and between them nothing that is read or reads outside.
- `KahnAcyclic`: nothing but that dependencies are nodes.
- `Runner`: fields have the types of the dataclass, bandwidths of the specs are positive.
- `Campaign`: a tid names one task.  `ThermalCapture`: no output is not a temperature.

### Only model-checked

- `AcceptedCallsReturn`, `Answers` and `Finishes`: liveness under fairness.
- `CriticalPathWithinLatency`, `OverlapNeverCosts`: they depend on how a
  stream's last bytes round.  `CeilDiv` prices a stream alone, and the engine writes off
  up to `ByteEps` bytes at the end of a drain, which may end a stream a tick before its
  price; they hold where the constants avoid that, as those of the run do.
- `ReassignIdempotent`: false in general, as the finding `plan_two_rows` shows; it holds
  of the graphs of `plan_rewrite`.  What a second `assign` does keep, all of `Planned`,
  is proved.
- `PricedAsCharged` and the other findings, which are counterexamples.
- Whole numbers stand for floating point in the proofs as in the runs.

## 5. Plan

Done: the engine and its channel, the acyclicity test, the plan's rewritings with
all schedulers and the solver, the budget and the search, the prefill chunks, the
configuration with the runner, the board's scripts, and the proofs of section 4.  Left, in order of importance:

1. That `Finished` twice is `Finished` once with the phase fixed: `ReassignIdempotent`
   under the hypothesis that its finding points at.
2. `PrefillChunks` composed with `EventEngine`, whose unit clocks decide the orders
   that occur, and splits along the rows.
3. The construction errors of `Dag`, and decode's graph from its own trace.

## 6. Findings

Shown by a run:

- `plan_two_rows`: `scheduler.py:55` promises that calling `assign` twice gives the
  same result; line 505 reads the phase off the planned graph.  In a prefill of two
  tokens whose matmuls are all split by token no matmul has two rows left, and the
  second call charges the decode sync.  The code does so with the tests'
  `AnalyticFakePlatform` and `matmul_dims=("M",)`.
- `solver_rows`: `scheduler.py:301` offers the solver "support ops rows (prefill
  only)" and `solver.py:62` defines `rows` as the tokens in flight.  The loop at
  `scheduler.py:406` over the platform's minima per unit reuses the name, so the
  solver is told the last minimum instead.  With a table whose last minimum is 1 no
  support op is ever split by row: in a prefill of 640 tokens the code enumerates
  seven such splits with an empty table and none with the platform's.
- `solver_sync`: `solver.py:11` says the sync is charged per boundary "exactly as
  the engine charges it".  Line 224 adds one per unit of a split; `apply_sync`
  charges each part, or its convert.  HeteroInfer's activation-centric split into two
  NPU chunks and a GPU remainder is priced with one NPU sync and charged two.

Read in the code, each without a run of its own:

- `events.py:51` calls the critical path a resource-free lower bound on the latency.
  Line 241 prices its edges with `stream_us`, whose `contention` is on by default; with
  `contention_off` and a ceiling below `eff` a stream is priced at the ceiling and runs
  at `eff`, so the path reported is longer than the latency.  The configuration allows
  it: `interconnect_efficiency` below 1, or a knee below `eff`, with the ablation
  (`config.py:239-247`, 337).  These calls are among those of `engine`; without the
  condition `pricedAsRun` TLC finds `CriticalPathWithinLatency` violated by one op that
  streams.  What does bound the latency in every call is the path with each op at the
  rate it streams at.
- `events.py:3` says a unit runs one op at a time; a unit is freed at the end of an
  op's compute, and the op's stream runs on under the next op.
- `config.py:432` labels `concurrency_off` forced serial; only the unit clocks are
  merged, and the run is faster than `run_serial`.
- `scheduler.py:216` calls the order of the graph topological where
  `precision.py:73` has appended the converts at its end.  `KernelsHaveHeads` holds
  all the same, since fusion only looks at elementwise producers, and `split_node` lists
  the parts of a block in the order `_block` gives them.
- `scheduler.py:562` says the plan with the budget is at least as fast as the one
  without per host, by construction.  That holds of the greedy pass alone: the
  refinement runs for one host, under the allotment the greedy pass kept.
- `cim_pin_engine_us`, recorded by the budget's two passes, is not carried to a
  second `assign`.
- Plans are compared with a tolerance of 1e-9, which is not transitive: the chunk
  count reported (`runner.py:135`) may be another than that of the plan described.
  `ChunksReported` bounds both by the tolerance.
- `workload.py:298` says the weight-order check compares the columns; it compares
  their number and the index of the part.  A unit that holds columns 3-5 and needs
  4-6 is not counted.  The verdict "no violation" is right all the same, as
  `CleanMeansHeld` shows: the parts of a matmul cannot all keep their sizes and one
  of them move.
- `thermal_capture.py:106` flushes after each burst so that a host drop loses
  nothing; `write_text` empties the file first, so a drop within the write loses all
  of it, there and in the campaign.  The models have that step; `NothingForgotten`
  speaks of whole files.

## 7. Not modelled

The map covers about a seventh of the implementation's lines.  What it leaves out
has no control a model checker could explore:

- The unit cost models under `../models/` and the prices of `platform.py`:
  floating-point formulas with fitted coefficients and without state.  The models
  take prices, estimates and engine times as data or as choices, so what is shown
  holds for any of them.
- `../../tools/` but for the recorder and its contraction (the op inventory, shape
  templates, statistics, fitting, figures, report metrics)
  and the report site: sequential scripts from files to files, whose output nothing
  the simulator does depends on at run time.
- `../../validation/`: comparisons of numbers with measured anchors.
- Drivers of external simulators and the one-shot vendor conversion scripts of
  `../../characterization/`.  The Aetina campaign has the loop of the Metis one.
- The shapes of `workload.build_token_dag`, fitted from the two lengths: arithmetic.
  `PlanRewrite` takes small graphs as data, with every shape the rewritings
  distinguish, rather than the graph of a trace.
- Floating-point rounding: times and bytes are integers; `1e-9` is `Eps` where a
  property depends on it and an exact comparison elsewhere.
- Wording, and statistics read off the final state by `_fill_stats` beyond
  utilisation, achieved bandwidth and critical path.
