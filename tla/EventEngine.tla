---------------------------- MODULE EventEngine ----------------------------
(***************************************************************************)
(* The discrete-event engine, src/simulator/runtime/events.py: run_dag with *)
(* its fluid memory model, and run_serial behind pipeline=False.            *)
(*                                                                         *)
(* One behaviour is one call.  job holds the arguments (the priced graph,   *)
(* the channel and the flags) and pc the place in the loop.  A pass of the  *)
(* inner loop is the three phases "dispatch", "activate", "finish";         *)
(* "advance" moves the clock and "settle" is the finish loop after it.      *)
(* Iterating over a Python set is a nondeterministic choice.  Time is in    *)
(* ticks: the code's _EPS tolerance is exact comparison here, and a stream  *)
(* that would end within a tick ends with it.  The dicts keyed by node are  *)
(* total functions, meaningful for the nodes the code has entered.          *)
(***************************************************************************)
EXTENDS OpDag, SharedBandwidth, SequencesExt

CONSTANTS
  Nodes,    \* node ids, numbered in list order
  Units,    \* the units of the platform, Mem among them
  Mem,      \* the pseudo unit "mem"
  Serial,   \* the one clock "_serial" of the concurrency=False ablation
  NoUnit,   \* OpNode.unit = None
  Jobs,     \* the calls considered
  ByteEps   \* _BYTE_EPS: a stream with no more bytes than this left is done

(* A call: the scheduled and priced graph, the channel and the flags.        *)
IsJob(j) ==
  /\ j.deps \in [Nodes -> SUBSET Nodes]
  /\ j.unit \in [Nodes -> Units \cup {NoUnit}]
  /\ j.fixed \in [Nodes -> Nat] /\ j.compute \in [Nodes -> Nat] /\ j.bytes \in [Nodes -> Nat]
  /\ j.domain \in [Nodes -> {"dram", "cpu_cache", "none", "invalid"}]
  /\ ValidChannel(j.bw)
  /\ {j.concurrency, j.contention, j.priceCompute, j.pipeline} \subseteq BOOLEAN

ASSUME NodesAssumption == Nodes \subseteq Nat /\ IsFiniteSet(Nodes)
ASSUME UnitsAssumption ==
  IsFiniteSet(Units) /\ Mem \in Units /\ Serial \notin Units /\ NoUnit \notin Units \cup {Serial}
ASSUME JobsAssumption == \A j \in Jobs : IsJob(j)
ASSUME ByteEpsAssumption == ByteEps \in Nat

VARIABLES
  job, pc,
  progressed,       \* the inner loop's flag
  indeg,            \* deps not yet done
  unit_free,        \* server |-> the time it is next free
  pending,          \* deps done, not dispatched
  started, activated, done,
  active_mem,       \* nodes with a stream in flight ...
  remaining,        \* ... and the bytes it has left
  owner,            \* the unit whose cap the node's stream counts against
  fixed_done_at, compute_done_at,
  clock, last,
  unit_busy, unit_order, dur, bytes_drained, mem_active_us,  \* statistics
  done_at           \* history: when each node was found done

run == <<indeg, unit_free, pending, started, activated, done, active_mem,
         remaining, owner, fixed_done_at, compute_done_at, clock, last, done_at>>
stats == <<unit_busy, unit_order, dur, bytes_drained, mem_active_us>>
vars == <<job, pc, progressed, run, stats>>

Larger(a, b) == IF a >= b THEN a ELSE b

-----------------------------------------------------------------------------
(* Reading a job.                                                           *)

UKey(n) == IF job.concurrency THEN job.unit[n] ELSE Serial

Servers == Units \cup {Serial}

(* _price: price_compute=False zeroes the compute term and keeps the delay. *)
Compute(n) == IF job.priceCompute THEN job.compute[n] ELSE 0

Dram(n) == job.bytes[n] > 0 /\ job.domain[n] # "cpu_cache"

StreamAlone(n) == IF Dram(n) THEN StreamTime(job.bw, job.bytes[n]) ELSE 0

Duration(n) == job.fixed[n] + Larger(Compute(n), StreamAlone(n))

(* Mutated form: a mem node's stream counts against "mem" itself.           *)
StreamOwner_Own(n) == job.unit[n]

StreamOwner(n) ==
  LET placed(S) == {m \in S : job.unit[m] # Mem}
      consumers == placed(Successors(job.deps, n))
      producers == placed(job.deps[n])
  IN  CASE job.unit[n] # Mem -> job.unit[n]
        [] job.unit[n] = Mem /\ consumers # {} -> job.unit[Min(consumers)]
        [] job.unit[n] = Mem /\ consumers = {} /\ producers # {} -> job.unit[Min(producers)]
        [] OTHER -> Mem

(* _validate_mem_domains, and the checks run_dag makes around it.           *)
ValidDomains ==
  \A n \in Nodes : /\ job.domain[n] # "invalid"
                   /\ job.bytes[n] > 0 => job.domain[n] # "none"

Acceptable ==
  /\ IsAcyclic(job.deps)
  /\ \A n \in Nodes : job.unit[n] # NoUnit
  /\ ValidDomains
  /\ (\E n \in Nodes : Dram(n)) => job.bw.eff > 0

WorkLeft == pending # {} \/ active_mem # {} \/ started # done

-----------------------------------------------------------------------------
Init ==
  /\ job \in Jobs
  /\ pc = "validate"
  /\ progressed = FALSE
  /\ indeg = [n \in Nodes |-> Cardinality(job.deps[n])]
  /\ unit_free = [u \in Servers |-> 0]
  /\ pending = {n \in Nodes : job.deps[n] = {}}
  /\ started = {} /\ activated = {} /\ done = {}
  /\ active_mem = {}
  /\ remaining = [n \in Nodes |-> 0]
  /\ owner = [n \in Nodes |-> Mem]
  /\ fixed_done_at = [n \in Nodes |-> 0]
  /\ compute_done_at = [n \in Nodes |-> 0]
  /\ clock = 0 /\ last = 0
  /\ unit_busy = [u \in Units |-> 0]
  /\ unit_order = [u \in Units |-> <<>>]
  /\ dur = [n \in Nodes |-> 0]
  /\ bytes_drained = 0 /\ mem_active_us = 0
  /\ done_at = [n \in Nodes |-> 0]

(* A precondition fails: ValueError, no latency.                            *)
Reject ==
  /\ pc = "validate" /\ ~Acceptable
  /\ pc' = "rejected"
  /\ UNCHANGED <<job, progressed, run, stats>>

EnterLoop ==
  /\ pc = "validate" /\ Acceptable /\ job.pipeline
  /\ pc' = IF WorkLeft THEN "dispatch" ELSE "exit"
  /\ UNCHANGED <<job, progressed, run, stats>>

(***************************************************************************)
(* run_serial: one accelerator, op after op; the latency is the sum.        *)
(***************************************************************************)
SerialLatency == SumOver([n \in Nodes |-> Duration(n)], Nodes)

RunSerial ==
  LET on(u) == {n \in Nodes : job.unit[n] = u}
      metered == {n \in Nodes : Dram(n)}
  IN  /\ pc = "validate" /\ Acceptable /\ ~job.pipeline
      /\ pc' = "returned"
      /\ last' = SerialLatency
      /\ unit_busy' = [u \in Units |->
           SumOver([n \in Nodes |-> job.fixed[n] + Compute(n)], on(u))]
      /\ unit_order' = [u \in Units |-> SetToSortSeq(on(u), <)]
      /\ dur' = [n \in Nodes |-> Duration(n)]
      /\ bytes_drained' = SumOver(job.bytes, metered)
      /\ mem_active_us' = SumOver([n \in Nodes |-> StreamAlone(n)], metered)
      /\ UNCHANGED <<job, progressed, indeg, unit_free, pending, started,
                     activated, done, active_mem, remaining, owner,
                     fixed_done_at, compute_done_at, clock, done_at>>

-----------------------------------------------------------------------------
(* A pass of the inner loop.                                                *)

(* Mutated form: a busy unit is no obstacle.                                *)
Dispatchable_Busy(n) == n \in pending

Dispatchable(n) == n \in pending /\ unit_free[UKey(n)] <= clock

(* When the unit that takes n now is free again: the stream does not hold it. *)
FreeAt(n) == clock + job.fixed[n] + Compute(n)

Dispatch(n) ==
  LET u == job.unit[n]
      fixedEnd == clock + job.fixed[n]
      computeEnd == fixedEnd + Compute(n)
  IN  /\ pc = "dispatch" /\ Dispatchable(n)
      /\ pending' = pending \ {n}
      /\ started' = started \cup {n}
      /\ fixed_done_at' = [fixed_done_at EXCEPT ![n] = fixedEnd]
      /\ unit_free' = [unit_free EXCEPT ![UKey(n)] = FreeAt(n)]
      /\ compute_done_at' = [compute_done_at EXCEPT ![n] = computeEnd]
      /\ unit_busy' = [unit_busy EXCEPT ![u] = @ + job.fixed[n] + Compute(n)]
      /\ unit_order' = [unit_order EXCEPT ![u] = Append(@, n)]
      /\ dur' = [dur EXCEPT ![n] = Duration(n)]
      /\ owner' = [owner EXCEPT ![n] = StreamOwner(n)]
      /\ progressed' = TRUE
      /\ UNCHANGED <<job, pc, indeg, activated, done, active_mem, remaining,
                     clock, last, bytes_drained, mem_active_us, done_at>>

EndDispatch ==
  /\ pc = "dispatch" /\ \A n \in pending : ~Dispatchable(n)
  /\ pc' = "activate"
  /\ UNCHANGED <<job, progressed, run, stats>>

(* The nodes whose fixed delay has elapsed.                                  *)
Due == {n \in started \ activated : fixed_done_at[n] <= clock}

(* Mutated form: the stream of every running node is opened anew.           *)
Opened_Again(due) == {n \in (activated \cup due) \ done : Dram(n)}

(* The streams the nodes due put on the channel.                             *)
Opened(due) == {n \in due : Dram(n)}

Activate ==
  LET due == Due
      streams == Opened(due)
  IN  /\ pc = "activate"
      /\ pc' = "finish"
      /\ activated' = activated \cup due
      /\ active_mem' = active_mem \cup streams
      /\ remaining' = [n \in Nodes |-> IF n \in streams THEN job.bytes[n] ELSE remaining[n]]
      /\ progressed' = (progressed \/ due # {})
      /\ UNCHANGED <<job, indeg, unit_free, pending, started, done, owner,
                     fixed_done_at, compute_done_at, clock, last, done_at, stats>>

(* Mutated form: a node is done when its compute is.                        *)
Finishable_ComputeOnly == {n \in activated \ done : compute_done_at[n] <= clock}

(* finish(nid), for every running node: both its compute and its stream are *)
(* over.                                                                    *)
Finishable ==
  {n \in activated \ done : compute_done_at[n] <= clock /\ n \notin active_mem}

(* Mutated form: the first dependency done releases a node.                 *)
Released_First(F, left) == {n \in Nodes \ started : job.deps[n] \cap F # {}}

(* The nodes whose last dependencies are in F, left the indegrees after F.   *)
Released(F, left) == {n \in Nodes : job.deps[n] \cap F # {} /\ left[n] = 0}

FinishAll ==
  LET F == Finishable
      left == [n \in Nodes |-> indeg[n] - Cardinality(job.deps[n] \cap F)]
  IN  /\ done' = done \cup F
      /\ done_at' = [n \in Nodes |-> IF n \in F THEN clock ELSE done_at[n]]
      /\ last' = IF F = {} THEN last ELSE Larger(last, clock)
      /\ indeg' = left
      /\ pending' = pending \cup Released(F, left)
      /\ UNCHANGED <<job, unit_free, started, activated, active_mem, remaining,
                     owner, fixed_done_at, compute_done_at, clock, stats>>

(* Mutated form: a single pass, whatever it uncovered.                      *)
AfterPass_Single == IF WorkLeft' THEN "advance" ELSE "exit"

AfterPass ==
  IF progressed \/ Finishable # {} THEN "dispatch"
  ELSE IF WorkLeft THEN "advance" ELSE "exit"

Finish ==
  /\ pc = "finish"
  /\ FinishAll
  /\ pc' = AfterPass
  /\ progressed' = FALSE

-----------------------------------------------------------------------------
(* Time.                                                                    *)

(* Mutated form: every stream runs as if it were alone.                     *)
Rates_Alone == [u \in Units |-> PerStream(job.bw, 1, job.contention)]

(* Mutated form: a drained stream keeps its share.                          *)
Rates_Stale ==
  Share(job.bw,
        [u \in Units |-> Cardinality({n \in activated : Dram(n) /\ owner[n] = u})],
        job.contention)

(* Bytes per tick of a stream of each unit, re-computed from the streams in *)
(* flight at every event (rates_bytes_per_us).                              *)
Rates ==
  Share(job.bw,
        [u \in Units |-> Cardinality({n \in active_mem : owner[n] = u})],
        job.contention)

(* Mutated form: no event for the end of a compute.                         *)
EventDistances_NoCompute ==
  LET rate == Rates
  IN  {CeilDiv(remaining[n], rate[owner[n]]) : n \in {m \in active_mem : rate[owner[m]] > 0}}
      \cup {fixed_done_at[n] - clock : n \in started \ activated}

(* Distances to the events that can be next: a stream's end, the end of a   *)
(* fixed delay, the end of a compute, a unit that a pending node waits for. *)
EventDistances ==
  LET rate == Rates
  IN  {CeilDiv(remaining[n], rate[owner[n]]) : n \in {m \in active_mem : rate[owner[m]] > 0}}
      \cup {fixed_done_at[n] - clock : n \in started \ activated}
      \cup {compute_done_at[n] - clock : n \in {m \in started \ done : compute_done_at[m] > clock}}
      \cup {unit_free[UKey(n)] - clock : n \in {m \in pending : unit_free[UKey(m)] > clock}}

Stalled == EventDistances = {} \/ Min(EventDistances) <= 0

(* Nothing can be next although work is left: RuntimeError.                  *)
Stall ==
  /\ pc' = "stalled"
  /\ UNCHANGED <<job, progressed, run, stats>>

(* The clock moves to the next event and every stream drains meanwhile.      *)
Drain ==
  LET nxt == Min(EventDistances)
      rate == Rates
      drained == [n \in active_mem |-> nxt * rate[owner[n]]]
      left == [n \in Nodes |-> IF n \in active_mem THEN remaining[n] - drained[n]
                                                   ELSE remaining[n]]
      over == {n \in active_mem : left[n] <= ByteEps}
  IN  /\ pc' = "settle"
      /\ clock' = clock + nxt
      /\ mem_active_us' = IF active_mem = {} THEN mem_active_us ELSE mem_active_us + nxt
      /\ bytes_drained' = bytes_drained +
           SumOver([n \in active_mem |-> Lesser(drained[n], remaining[n])], active_mem)
      /\ active_mem' = active_mem \ over
      /\ remaining' = [n \in Nodes |-> IF n \in over THEN 0 ELSE left[n]]
      /\ UNCHANGED <<job, progressed, indeg, unit_free, pending, started, activated,
                     done, owner, fixed_done_at, compute_done_at, last, done_at,
                     unit_busy, unit_order, dur>>

Advance ==
  /\ pc = "advance"
  /\ IF Stalled THEN Stall ELSE Drain

(* The finish loop after the drain, then the next turn of the outer loop.   *)
Settle ==
  /\ pc = "settle"
  /\ FinishAll
  /\ pc' = IF WorkLeft' THEN "dispatch" ELSE "exit"
  /\ progressed' = FALSE

(* Left the loop: every node must be done, else RuntimeError.               *)
Return ==
  /\ pc = "exit"
  /\ pc' = IF done = Nodes THEN "returned" ELSE "incomplete"
  /\ UNCHANGED <<job, progressed, run, stats>>

Ended == pc \in {"rejected", "returned", "stalled", "incomplete"}

Next ==
  \/ Reject \/ EnterLoop \/ RunSerial
  \/ \E n \in Nodes : Dispatch(n)
  \/ EndDispatch \/ Activate \/ Finish
  \/ Advance \/ Settle \/ Return

Spec == Init /\ [][Next]_vars

(* The call is one thread of straight-line Python: it keeps stepping until  *)
(* it returns or raises.                                                    *)
FairSpec == Spec /\ WF_vars(Next)

-----------------------------------------------------------------------------
(* Type invariant of the loop.  The statistics of the streams are typed with *)
(* their accounts, in StreamInv.                                             *)
LoopTypeOK ==
  /\ IsJob(job)
  /\ pc \in {"validate", "dispatch", "activate", "finish", "advance", "settle",
             "exit", "rejected", "returned", "stalled", "incomplete"}
  /\ progressed \in BOOLEAN
  /\ indeg \in [Nodes -> Nat]
  /\ unit_free \in [Servers -> Nat]
  /\ pending \subseteq Nodes /\ started \subseteq Nodes
  /\ activated \subseteq started /\ done \subseteq activated
  /\ active_mem \subseteq activated \ done
  /\ remaining \in [Nodes -> Nat]
  /\ owner \in [Nodes -> Units]
  /\ fixed_done_at \in [Nodes -> Nat] /\ compute_done_at \in [Nodes -> Nat]
  /\ clock \in Nat /\ done_at \in [Nodes -> Nat]
  /\ job.pipeline => last \in Nat /\ unit_busy \in [Units -> Nat] /\ mem_active_us \in Nat

-----------------------------------------------------------------------------
(* Safety.                                                                  *)

StartedAt(n) == fixed_done_at[n] - job.fixed[n]

(* No op is dispatched before every op it depends on is done, whatever order *)
(* zero-length ops, streams and units finish in: run_dag's indegree countdown *)
(* releases a node neither early nor twice.                                   *)
DependenciesRespected ==
  \A n \in started : \A d \in job.deps[n] : d \in done /\ done_at[d] <= StartedAt(n)

(* "Compute units are exclusive serial servers": the fixed delay and compute *)
(* of two ops of one server (of any two with concurrency=False) never        *)
(* overlap in time, although the streams of earlier ops may still drain.     *)
UnitExclusive ==
  \A m, n \in started :
    m # n /\ UKey(m) = UKey(n) =>
      \/ compute_done_at[m] <= StartedAt(n)
      \/ compute_done_at[n] <= StartedAt(m)

(* A finished op has had its whole stream: what has been drained, with what  *)
(* is in flight and what has not been activated, is all the metered traffic, *)
(* up to the _BYTE_EPS each stream may leave behind.                          *)
StreamBytesConserved ==
  (job.pipeline /\ pc # "validate") =>
    LET metered == {n \in Nodes : Dram(n)}
        drained == SumOver(job.bytes, metered \cap activated)
                     - SumOver(remaining, active_mem)
    IN  /\ bytes_drained <= drained
        /\ drained - bytes_drained
             <= ByteEps * Cardinality((metered \cap activated) \ active_mem)

(* unit_utilisation <= 1: a unit's busy time, fixed delays included, fits in *)
(* the latency the event loop returns.                                       *)
UtilisationAtMostOne ==
  pc = "returned" /\ job.pipeline => \A u \in Units : unit_busy[u] <= last

(* The fastest a stream ever runs.                                           *)
AloneRate == PerStream(job.bw, 1, job.contention)

(* No op is done before its compute is over and its whole stream could have  *)
(* been drained by a stream alone on the channel: sharing and caps only make *)
(* it later.  With DependenciesRespected this is the lower bound that each   *)
(* edge of the critical path contributes.                                    *)
OpsLastTheirDuration ==
  \A n \in done :
    /\ compute_done_at[n] <= done_at[n]
    /\ Dram(n) =>
         job.bytes[n] <= AloneRate * (done_at[n] - fixed_done_at[n]) + ByteEps

(* achieved_GBs <= the knee: with contention the statistic the runner        *)
(* reports never exceeds knee * interconnect_efficiency, at any moment.      *)
AchievedWithinKnee ==
  job.contention \/ ~job.pipeline => bytes_drained <= job.bw.ceiling * mem_active_us

(* The longest path, each op taking what it takes alone on the channel as it *)
(* is run, is a lower bound of the latency run_dag returns, whatever shares  *)
(* and ablations the call has; critical_path_us is one where dur prices the  *)
(* streams as they run, so not with contention off on a channel de-rated     *)
(* below one stream: dur counts on the de-rated rate, the loop drains more.   *)
CriticalPathWithinLatency ==
  LET streamed(n) == IF Dram(n) THEN CeilDiv(job.bytes[n], AloneRate) ELSE 0
      alone == [n \in Nodes |-> job.fixed[n] + Larger(Compute(n), streamed(n))]
      pricedAsRun == ~job.pipeline \/ job.contention \/ job.bw.ceiling >= job.bw.eff
  IN  pc = "returned" =>
        /\ CriticalPath(job.deps, alone) <= last
        /\ pricedAsRun => CriticalPath(job.deps, dur) <= last

(* Overlap never costs: with no unit capped below a single stream's          *)
(* bandwidth, the event loop is never slower than run_serial on the same     *)
(* graph ("cross-op overlap is faster"), whatever order it dispatches in.    *)
OverlapNeverCosts ==
  pc = "returned" /\ (\A u \in Units : UnitCap(job.bw, u) >= job.bw.eff)
    => last <= SerialLatency

-----------------------------------------------------------------------------
(* Action properties and liveness.                                          *)

(* The clock never moves past work that can be done now: no pending node     *)
(* whose unit is free, no elapsed fixed delay left unactivated, no finished  *)
(* op left unrecorded - what the "same pass" loop is there for.              *)
NothingDueIsSkipped ==
  [][clock' > clock =>
       /\ \A n \in pending : unit_free[UKey(n)] > clock
       /\ \A n \in started \ activated : fixed_done_at[n] > clock
       /\ Finishable = {}]_vars

(* With a profile's caps and contention on, the streams one unit consumes -   *)
(* those of the mem nodes feeding it included - never drain faster together  *)
(* than the unit's single-stream cap, over any interval.                     *)
StreamsWithinUnitCap ==
  [][job.bw.capped /\ job.contention =>
       \A u \in Units \ {Mem} :
         LET feeds(n) == {job.unit[m] : m \in Successors(job.deps, n)}
             its == {n \in active_mem :
                      job.unit[n] = u \/ (job.unit[n] = Mem /\ feeds(n) = {u})}
         IN  SumOver(remaining, its) - SumOver(remaining', its)
               <= (clock' - clock) * UnitCap(job.bw, u) + ByteEps * Cardinality(its)]_vars

(* A call on an acceptable graph returns a latency.                          *)
AcceptedCallsReturn == Acceptable ~> (pc = "returned")

(* The loop implements the clockless promise of DagExecution.                *)
Abstract ==
  INSTANCE DagExecution WITH
    deps <- job.deps,
    server <- [n \in Nodes |-> UKey(n)],
    running <- started \ done,
    holding <- {n \in started \ done : compute_done_at[n] > clock}

ImplementsDagExecution == Abstract!Spec

-----------------------------------------------------------------------------
(* The inductive invariant behind the theorems of EventEngineProofs.        *)

(* indeg counts the dependencies that are not done, and a pending node is a *)
(* new one with none left.                                                  *)
Countdown ==
  /\ \A n \in Nodes : indeg[n] = Cardinality(job.deps[n] \ done)
  /\ \A n \in pending : n \notin started /\ job.deps[n] \subseteq done

(* The clocks of a dispatched node: it started in the past, its compute     *)
(* follows its delay, and its server is held until then.                    *)
NodeClocks ==
  \A n \in started :
    /\ StartedAt(n) \in 0..clock
    /\ compute_done_at[n] = fixed_done_at[n] + Compute(n)
    /\ compute_done_at[n] <= unit_free[UKey(n)]

(* Every time a server is free at is the end of some op's compute.          *)
FreeTimesBacked ==
  \A s \in Servers : unit_free[s] = 0 \/
    \E n \in started : UKey(n) = s /\ unit_free[s] = compute_done_at[n]

DoneClocks ==
  \A n \in done : /\ compute_done_at[n] <= done_at[n]
                  /\ done_at[n] <= clock
                  /\ job.pipeline => done_at[n] <= last

(* What a unit was busy for fits in the time its server was taken.          *)
BusyFits ==
  job.pipeline => \A u \in Units :
    unit_busy[u] <= unit_free[IF job.concurrency THEN u ELSE Serial]

(* A stream has had at most what it would have had alone since its delay    *)
(* ended.                                                                   *)
StreamsLast ==
  /\ \A n \in activated : fixed_done_at[n] <= clock
  /\ \A n \in active_mem :
       job.bytes[n] - remaining[n] <= AloneRate * (clock - fixed_done_at[n])
  /\ \A n \in activated \ active_mem : Dram(n) =>
       job.bytes[n] <= AloneRate * (clock - fixed_done_at[n]) + ByteEps

(* Only a dram stream is ever on the channel, charged to its owner.          *)
StreamOwners ==
  /\ \A n \in active_mem : Dram(n)
  /\ \A n \in started : owner[n] = StreamOwner(n)

LoopInv ==
  /\ LoopTypeOK
  /\ pc # "validate" /\ pc # "rejected" => Acceptable
  /\ Countdown
  /\ DependenciesRespected
  /\ NodeClocks
  /\ FreeTimesBacked
  /\ DoneClocks
  /\ BusyFits
  /\ UnitExclusive
  /\ StreamsLast
  /\ OpsLastTheirDuration
  /\ pc = "returned" /\ job.pipeline => done = Nodes

(* The inductive invariant of the streams' accounts, on top of LoopInv: the   *)
(* serial ablation leaves the loop's state alone.                            *)
StreamInv ==
  /\ bytes_drained \in Nat /\ mem_active_us \in Nat
  /\ job.pipeline \/ pc \in {"validate", "rejected", "returned"}
  /\ pc = "validate" => started = {} /\ bytes_drained = 0
  /\ StreamOwners
  /\ StreamBytesConserved
  /\ AchievedWithinKnee

=============================================================================
