------------------------- MODULE EventEngineProofs -------------------------
(***************************************************************************)
(* Theorems about EventEngine for every set of nodes and units and every     *)
(* collection of calls.  In order: the invariant of the loop (LoopInv,       *)
(* inductive on its own) with the order of its dispatches, the               *)
(* exclusiveness of its units, how long an op takes at least and the bound   *)
(* on utilisation; the implementation of DagExecution, and that the clock    *)
(* passes over nothing that is due; the accounts of the streams (StreamInv,  *)
(* on top of LoopInv) with the knee and the cap of each unit.  Last, that    *)
(* the channel is fair and a neighbour's stream never helps: the properties  *)
(* of StreamsInFlight for any profile and number of streams.                 *)
(***************************************************************************)
EXTENDS EventEngine, StreamsInFlight, SharedBandwidthTheorems

(* A non-empty set of integers that is bounded below has its Min.            *)
LEMMA MinOfIntegers ==
  ASSUME NEW S \in SUBSET Int, S # {}, NEW b \in Int, \A x \in S : b <= x
  PROVE  Min(S) \in S /\ \A x \in S : Min(S) <= x
<1> DEFINE T == {x - b : x \in S}
<1>1. T \subseteq Nat /\ T # {}
  <2>1. \A x \in S : x - b \in Nat
    OBVIOUS
  <2>2. T \subseteq Nat
    BY <2>1
  <2>3. PICK x \in S : TRUE
    OBVIOUS
  <2>4. x - b \in T
    OBVIOUS
  <2>. QED
    BY <2>2, <2>4
<1> HIDE DEF T
<1>2. PICK t \in T : \A y \in T : ~(<<y, t>> \in OpToRel(<, Nat))
  BY <1>1, NatLessThanWellFounded, WFMin, Zenon
<1>3. \A y \in T : t <= y
  <2>. SUFFICES ASSUME NEW y \in T PROVE ~(y < t)
    BY <1>1
  <2>1. <<y, t>> \in Nat \X Nat /\ <<y, t>>[1] = y /\ <<y, t>>[2] = t
    BY <1>1
  <2>2. ~(<<y, t>>[1] < <<y, t>>[2])
    BY <1>2, <2>1, Zenon DEF OpToRel
  <2>. QED
    BY <2>1, <2>2
<1>4. PICK m \in S : t = m - b
  BY DEF T
<1>5. \A x \in S : m <= x
  <2>. SUFFICES ASSUME NEW x \in S PROVE m <= x
    OBVIOUS
  <2>1. x - b \in T
    BY DEF T
  <2>2. m - b <= x - b
    BY <1>3, <1>4, <2>1
  <2>. QED
    BY <2>2
<1>. QED
  BY <1>5 DEF Min

(* A set of nodes is finite.                                                 *)
LEMMA CardOfSubset ==
  ASSUME NEW S \in SUBSET Nodes
  PROVE  IsFiniteSet(S) /\ Cardinality(S) \in 0..Cardinality(Nodes)
<1>1. IsFiniteSet(S) /\ Cardinality(S) <= Cardinality(Nodes)
  BY NodesAssumption, FS_Subset
<1>2. Cardinality(S) \in Nat /\ Cardinality(Nodes) \in Nat
  BY <1>1, NodesAssumption, FS_CardinalityType
<1>. QED
  BY <1>1, <1>2

(* Two lemmas on the product in the drain: no bigger rate, no more bytes.    *)
LEMMA ProductInt == \A a, b \in Int : a * b \in Int
OBVIOUS

(* More time at a greater rate moves more.                                   *)
LEMMA ProductMonotone ==
  ASSUME NEW a \in Nat, NEW b \in Nat, NEW t \in Nat, a <= b
  PROVE  t * a <= b * t
OBVIOUS

(* What is moved in two intervals adds up.                                   *)
LEMMA ProductDistributes ==
  ASSUME NEW a \in Int, NEW x \in Int, NEW y \in Int
  PROVE  a * (x + y) = a * x + a * y
OBVIOUS

(* The rate of a stream alone is a natural number.                           *)
LEMMA AloneRateType ==
  ASSUME ValidChannel(job.bw), job.contention \in BOOLEAN
  PROVE  AloneRate \in Nat
<1>1. Aggregate(job.bw, 1, job.contention) \in Nat
  BY DEF ValidChannel, Aggregate, Lesser
<1>. QED
  BY <1>1 DEF AloneRate, PerStream

(* The divisor is positive, so rounding up gives a natural number.           *)
LEMMA CeilDivType ==
  ASSUME NEW a \in Nat, NEW b \in Nat, b > 0
  PROVE  CeilDiv(a, b) \in Nat
BY DEF CeilDiv

-----------------------------------------------------------------------------
Ind == job \in Jobs /\ LoopInv

(* The job never changes, so neither does what is read from it.              *)
LEMMA JobFrame ==
  ASSUME job' = job
  PROVE  /\ \A n : /\ UKey(n)' = UKey(n) /\ Compute(n)' = Compute(n)
                   /\ Dram(n)' = Dram(n)
         /\ AloneRate' = AloneRate
         /\ Acceptable' = Acceptable
<1>1. \A n : UKey(n)' = UKey(n) /\ Compute(n)' = Compute(n) /\ Dram(n)' = Dram(n)
  BY DEF UKey, Compute, Dram
<1>2. AloneRate' = AloneRate
  BY DEF AloneRate
<1>3. Acceptable' = Acceptable
  BY <1>1 DEF Acceptable, ValidDomains
<1>. QED
  BY <1>1, <1>2, <1>3

(* Types of what is read from a call.                                        *)
LEMMA JobTypes ==
  ASSUME IsJob(job)
  PROVE  /\ \A n \in Nodes : /\ Compute(n) \in Nat /\ job.fixed[n] \in Nat
                             /\ job.bytes[n] \in Nat /\ job.deps[n] \in SUBSET Nodes
                             /\ Dram(n) \in BOOLEAN
         /\ job.pipeline \in BOOLEAN /\ job.concurrency \in BOOLEAN
         /\ job.contention \in BOOLEAN
         /\ AloneRate \in Nat
<1>1. \A n \in Nodes : Compute(n) \in Nat /\ job.fixed[n] \in Nat
  BY DEF IsJob, Compute
<1>2. \A n \in Nodes : job.bytes[n] \in Nat /\ job.deps[n] \in SUBSET Nodes
  BY DEF IsJob
<1>3. \A n \in Nodes : Dram(n) \in BOOLEAN
  BY DEF Dram
<1>4. job.pipeline \in BOOLEAN /\ job.concurrency \in BOOLEAN /\ job.contention \in BOOLEAN
  BY DEF IsJob
<1>5. AloneRate \in Nat
  BY <1>4, AloneRateType DEF IsJob
<1>. QED
  BY <1>1, <1>2, <1>3, <1>4, <1>5

(* On an accepted call every server is one of Servers.                       *)
LEMMA ServerType ==
  ASSUME IsJob(job), Acceptable, NEW n \in Nodes
  PROVE  job.unit[n] \in Units /\ UKey(n) \in Servers
         /\ UKey(n) = IF job.concurrency THEN job.unit[n] ELSE Serial
BY DEF IsJob, Acceptable, UKey, Servers

(* The call starts in the invariant.                                         *)
LEMMA InitInd == Init => Ind
<1>. SUFFICES ASSUME Init PROVE Ind
  OBVIOUS
<1>1. job \in Jobs /\ IsJob(job)
  BY JobsAssumption DEF Init
<1>2. \A n \in Nodes : Cardinality(job.deps[n]) \in Nat
  BY <1>1, JobTypes, CardOfSubset
<1>3. LoopTypeOK
  BY <1>1, <1>2, UnitsAssumption DEF Init, LoopTypeOK, Servers
<1>4. Countdown
  <2>1. \A n \in Nodes : job.deps[n] \ done = job.deps[n]
    BY DEF Init
  <2>. QED
    BY <2>1 DEF Init, Countdown
<1>5. DependenciesRespected /\ NodeClocks /\ UnitExclusive
  BY DEF Init, DependenciesRespected, NodeClocks, UnitExclusive
<1>6. FreeTimesBacked /\ DoneClocks /\ BusyFits /\ StreamsLast /\ OpsLastTheirDuration
  BY UnitsAssumption DEF Init, FreeTimesBacked, DoneClocks, BusyFits, StreamsLast,
     OpsLastTheirDuration, Servers
<1>. QED
  BY <1>1, <1>3, <1>4, <1>5, <1>6 DEF Init, Ind, LoopInv

(* A step that moves pc only, or the flag.                                   *)
LEMMA FrameInd ==
  ASSUME Ind, job' = job, UNCHANGED <<run, stats>>,
         pc' \in {"dispatch", "activate", "advance", "exit", "rejected", "returned",
                  "stalled", "incomplete"},
         progressed' \in BOOLEAN,
         pc' # "rejected" => Acceptable,
         pc' = "returned" /\ job.pipeline => done = Nodes
  PROVE  Ind'
<1>. USE DEF run, stats
<1>1. LoopTypeOK'
  BY JobFrame DEF Ind, LoopInv, LoopTypeOK, IsJob
<1>2. Acceptable' = Acceptable
  BY JobFrame
<1>3. Countdown' /\ DependenciesRespected'
  BY DEF Ind, LoopInv, Countdown, DependenciesRespected, StartedAt
<1>4. NodeClocks' /\ FreeTimesBacked' /\ DoneClocks' /\ UnitExclusive'
  BY JobFrame DEF Ind, LoopInv, NodeClocks, FreeTimesBacked, DoneClocks, UnitExclusive, StartedAt
<1>5. BusyFits' /\ StreamsLast' /\ OpsLastTheirDuration'
  BY JobFrame DEF Ind, LoopInv, BusyFits, StreamsLast, OpsLastTheirDuration
<1>. QED
  BY <1>1, <1>2, <1>3, <1>4, <1>5 DEF Ind, LoopInv
(* run_serial only fills in the latency and the statistics.                  *)
LEMMA SerialInd == ASSUME Ind, RunSerial PROVE Ind'
<1>1. /\ ~job.pipeline /\ Acceptable /\ pc' = "returned"
      /\ UNCHANGED <<job, progressed, indeg, unit_free, pending, started, activated, done,
                     active_mem, remaining, owner, fixed_done_at, compute_done_at, clock,
                     done_at>>
  BY DEF RunSerial
<1>2. LoopTypeOK'
  BY <1>1 DEF Ind, LoopInv, LoopTypeOK, IsJob
<1>3. Acceptable' = Acceptable
  BY <1>1, JobFrame
<1>4. Countdown' /\ DependenciesRespected'
  BY <1>1 DEF Ind, LoopInv, Countdown, DependenciesRespected, StartedAt
<1>5. NodeClocks' /\ FreeTimesBacked' /\ DoneClocks' /\ UnitExclusive'
  BY <1>1, JobFrame DEF Ind, LoopInv, NodeClocks, FreeTimesBacked, DoneClocks,
     UnitExclusive, StartedAt
<1>6. BusyFits' /\ StreamsLast' /\ OpsLastTheirDuration'
  BY <1>1, JobFrame DEF Ind, LoopInv, BusyFits, StreamsLast, OpsLastTheirDuration
<1>. QED
  BY <1>1, <1>2, <1>3, <1>4, <1>5, <1>6 DEF Ind, LoopInv

-----------------------------------------------------------------------------
(* A dispatch: the server is free, so every op it had is past its compute,   *)
(* and nothing the node depends on is still running.                         *)
LEMMA DispatchInd ==
  ASSUME Ind, NEW n \in Nodes, Dispatch(n) PROVE Ind'
<1> DEFINE fixedEnd == clock + job.fixed[n]
           computeEnd == fixedEnd + Compute(n)
<1>1. /\ pc = "dispatch" /\ pc' = "dispatch" /\ job' = job
      /\ n \in pending /\ unit_free[UKey(n)] <= clock
      /\ pending' = pending \ {n} /\ started' = started \cup {n}
      /\ fixed_done_at' = [fixed_done_at EXCEPT ![n] = fixedEnd]
      /\ compute_done_at' = [compute_done_at EXCEPT ![n] = computeEnd]
      /\ unit_free' = [unit_free EXCEPT ![UKey(n)] = computeEnd]
      /\ unit_busy' = [unit_busy EXCEPT ![job.unit[n]] = @ + job.fixed[n] + Compute(n)]
      /\ owner' = [owner EXCEPT ![n] = StreamOwner(n)]
      /\ progressed' = TRUE
      /\ UNCHANGED <<indeg, activated, done, active_mem, remaining, clock, last,
                     mem_active_us, done_at>>
  BY DEF Dispatch, Dispatchable, FreeAt
<1>2. /\ LoopTypeOK /\ Acceptable /\ Countdown /\ DependenciesRespected /\ NodeClocks
      /\ FreeTimesBacked /\ DoneClocks /\ BusyFits /\ UnitExclusive /\ StreamsLast
      /\ OpsLastTheirDuration
  BY <1>1 DEF Ind, LoopInv
<1>3. IsJob(job)
  BY <1>2 DEF LoopTypeOK
<1>4. \A m \in Nodes : /\ UKey(m) \in Servers /\ job.unit[m] \in Units
                       /\ UKey(m) = IF job.concurrency THEN job.unit[m] ELSE Serial
  BY <1>2, <1>3, ServerType
<1>5. clock \in Nat /\ fixedEnd \in Nat /\ computeEnd \in Nat /\ job.fixed[n] \in Nat
      /\ Compute(n) \in Nat
  BY <1>2, <1>3, JobTypes DEF LoopTypeOK
<1>6. clock <= fixedEnd /\ fixedEnd <= computeEnd /\ computeEnd = fixedEnd + Compute(n)
      /\ fixedEnd - job.fixed[n] = clock
  BY <1>5
<1> HIDE DEF fixedEnd, computeEnd
<1>7. n \notin started /\ n \notin activated /\ n \notin done /\ n \notin active_mem
      /\ job.deps[n] \subseteq done
  BY <1>1, <1>2 DEF Countdown, LoopTypeOK
<1>8. StreamOwner(n) \in Units
  <2>1. \A S \in SUBSET Nodes : S # {} => Min(S) \in S
    BY NodesAssumption, MinOfIntegers
  <2>2. job.deps[n] \in SUBSET Nodes /\ Successors(job.deps, n) \in SUBSET Nodes
    BY <1>3 DEF IsJob, Successors
  <2>. QED
    BY <1>4, <2>1, <2>2, UnitsAssumption DEF StreamOwner
<1>9. LoopTypeOK'
  BY <1>1, <1>2, <1>4, <1>5, <1>7, <1>8, JobFrame DEF LoopTypeOK, IsJob
<1>10. Countdown'
  BY <1>1, <1>2 DEF Countdown
<1>11. \A m \in started : /\ fixed_done_at'[m] = fixed_done_at[m]
                          /\ compute_done_at'[m] = compute_done_at[m]
  BY <1>1, <1>7
<1>12. fixed_done_at'[n] = fixedEnd /\ compute_done_at'[n] = computeEnd
  BY <1>1, <1>2 DEF LoopTypeOK
<1>13. \A m \in done : done_at[m] \in Nat /\ done_at[m] <= clock /\ compute_done_at[m] <= done_at[m]
  BY <1>2 DEF DoneClocks, LoopTypeOK
<1>14. DependenciesRespected'
  BY <1>1, <1>2, <1>6, <1>7, <1>11, <1>12, <1>13 DEF DependenciesRespected, StartedAt
<1>15. \A m \in started : UKey(m) = UKey(n) => compute_done_at[m] <= clock
  <2>. SUFFICES ASSUME NEW m \in started, UKey(m) = UKey(n)
                PROVE compute_done_at[m] <= clock
    OBVIOUS
  <2>1. compute_done_at[m] <= unit_free[UKey(n)]
    BY <1>2 DEF NodeClocks
  <2>2. m \in Nodes /\ compute_done_at[m] \in Nat /\ unit_free[UKey(n)] \in Nat
    BY <1>2, <1>4 DEF LoopTypeOK
  <2>. QED
    BY <1>1, <1>5, <2>1, <2>2
<1>16. unit_free'[UKey(n)] = computeEnd
       /\ \A s \in Servers : s # UKey(n) => unit_free'[s] = unit_free[s]
  BY <1>1, <1>2, <1>4 DEF LoopTypeOK
<1>17. \A m \in Nodes : UKey(m)' = UKey(m) /\ Compute(m)' = Compute(m) /\ Dram(m)' = Dram(m)
  BY <1>1, JobFrame
<1>18. NodeClocks'
  <2>. SUFFICES ASSUME NEW m \in started'
                PROVE  /\ StartedAt(m)' \in 0..clock'
                       /\ compute_done_at'[m] = fixed_done_at'[m] + Compute(m)'
                       /\ compute_done_at'[m] <= unit_free'[UKey(m)']
    BY DEF NodeClocks
  <2>1. CASE m = n
    BY <2>1, <1>1, <1>5, <1>6, <1>12, <1>16, <1>17 DEF StartedAt
  <2>2. CASE m # n
    <3>1. m \in started /\ m \in Nodes
      BY <2>2, <1>1, <1>2 DEF LoopTypeOK
    <3>2. compute_done_at[m] \in Nat
      BY <3>1, <1>2 DEF LoopTypeOK
    <3>3. compute_done_at[m] <= unit_free'[UKey(m)]
      BY <3>1, <3>2, <1>2, <1>4, <1>5, <1>6, <1>15, <1>16 DEF NodeClocks
    <3>. QED
      BY <3>1, <3>3, <1>1, <1>2, <1>11, <1>17 DEF NodeClocks, StartedAt
  <2>. QED
    BY <2>1, <2>2
<1>19. FreeTimesBacked'
  <2>. SUFFICES ASSUME NEW s \in Servers, unit_free'[s] # 0
                PROVE \E m \in started' : UKey(m)' = s /\ unit_free'[s] = compute_done_at'[m]
    BY DEF FreeTimesBacked
  <2>1. CASE s = UKey(n)
    BY <2>1, <1>1, <1>12, <1>16, <1>17
  <2>2. CASE s # UKey(n)
    <3>1. PICK m \in started : UKey(m) = s /\ unit_free[s] = compute_done_at[m]
      BY <2>2, <1>2, <1>16 DEF FreeTimesBacked
    <3>2. m \in started' /\ m \in Nodes
      BY <3>1, <1>1, <1>2 DEF LoopTypeOK
    <3>. QED
      BY <3>1, <3>2, <2>2, <1>11, <1>16, <1>17
  <2>. QED
    BY <2>1, <2>2
<1>20. DoneClocks'
  BY <1>1, <1>2, <1>7, <1>11 DEF DoneClocks, LoopTypeOK
<1>21. UnitExclusive'
  <2>. SUFFICES ASSUME NEW a \in started', NEW b \in started', a # b, UKey(a)' = UKey(b)'
                PROVE \/ compute_done_at'[a] <= StartedAt(b)'
                      \/ compute_done_at'[b] <= StartedAt(a)'
    BY DEF UnitExclusive
  <2>1. a \in Nodes /\ b \in Nodes /\ UKey(a) = UKey(b)
    BY <1>1, <1>2, <1>17 DEF LoopTypeOK
  <2>2. StartedAt(n)' = clock
    BY <1>1, <1>6, <1>12 DEF StartedAt
  <2>3. CASE a = n
    BY <2>1, <2>2, <2>3, <1>1, <1>11, <1>15
  <2>4. CASE b = n
    BY <2>1, <2>2, <2>4, <1>1, <1>11, <1>15
  <2>5. CASE a # n /\ b # n
    BY <2>1, <2>5, <1>1, <1>2, <1>11 DEF UnitExclusive, StartedAt
  <2>. QED
    BY <2>3, <2>4, <2>5
<1>22. BusyFits'
  <2>. SUFFICES ASSUME job.pipeline, NEW u \in Units
                PROVE unit_busy'[u] <= unit_free'[IF job.concurrency THEN u ELSE Serial]
    BY <1>1 DEF BusyFits
  <2> DEFINE s == IF job.concurrency THEN u ELSE Serial
  <2>1. s \in Servers
    BY DEF Servers
  <2>2. unit_busy[u] <= unit_free[s] /\ unit_busy[u] \in Nat /\ unit_free[s] \in Nat
    BY <2>1, <1>2 DEF BusyFits, LoopTypeOK
  <2>3. CASE u = job.unit[n]
    <3>1. s = UKey(n)
      BY <2>3, <1>4
    <3>2. unit_busy'[u] = unit_busy[u] + job.fixed[n] + Compute(n)
      BY <2>3, <1>1, <1>2 DEF LoopTypeOK
    <3>. QED
      BY <3>1, <3>2, <2>2, <1>1, <1>5, <1>16 DEF fixedEnd, computeEnd
  <2>4. CASE u # job.unit[n]
    <3>1. unit_busy'[u] = unit_busy[u]
      BY <2>4, <1>1, <1>2 DEF LoopTypeOK
    <3>2. unit_free[s] <= unit_free'[s]
      BY <2>1, <2>2, <1>1, <1>4, <1>5, <1>6, <1>16
    <3>3. unit_free'[s] \in Nat
      BY <2>1, <1>9 DEF LoopTypeOK
    <3>. QED
      BY <3>1, <3>2, <3>3, <2>2
  <2>. QED
    BY <2>3, <2>4
<1>23. StreamsLast' /\ OpsLastTheirDuration'
  <2>1. /\ activated' = activated /\ active_mem' = active_mem /\ done' = done
        /\ remaining' = remaining /\ clock' = clock /\ done_at' = done_at
        /\ AloneRate' = AloneRate /\ job' = job
    BY <1>1, JobFrame
  <2>2. \A m \in activated : /\ fixed_done_at'[m] = fixed_done_at[m]
                             /\ compute_done_at'[m] = compute_done_at[m]
                             /\ Dram(m)' = Dram(m)
    BY <1>2, <1>11, <1>17 DEF LoopTypeOK
  <2>3. done \subseteq activated /\ active_mem \subseteq activated
    BY <1>2 DEF LoopTypeOK
  <2>. QED
    BY <1>2, <2>1, <2>2, <2>3 DEF StreamsLast, OpsLastTheirDuration
<1>. QED
  BY <1>1, <1>2, <1>9, <1>10, <1>14, <1>18, <1>19, <1>20, <1>21, <1>22, <1>23, JobFrame
     DEF Ind, LoopInv
(* A product of naturals is one.                                             *)
LEMMA ProductNat == \A a, b \in Nat : a * b \in Nat
OBVIOUS

(* An activation: a stream starts with all its bytes left.                   *)
LEMMA ActivateInd == ASSUME Ind, Activate PROVE Ind'
<1> DEFINE streams == {m \in Due : Dram(m)}
<1>1. /\ pc = "activate" /\ pc' = "finish"
      /\ activated' = activated \cup Due /\ active_mem' = active_mem \cup streams
      /\ remaining' = [m \in Nodes |-> IF m \in streams THEN job.bytes[m] ELSE remaining[m]]
      /\ progressed' = (progressed \/ Due # {})
      /\ UNCHANGED <<job, indeg, unit_free, pending, started, done, owner, fixed_done_at,
                     compute_done_at, clock, last, done_at, stats>>
  BY DEF Activate, Opened
<1>2. /\ LoopTypeOK /\ Acceptable /\ Countdown /\ DependenciesRespected /\ NodeClocks
      /\ FreeTimesBacked /\ DoneClocks /\ BusyFits /\ UnitExclusive /\ StreamsLast
      /\ OpsLastTheirDuration
  BY <1>1 DEF Ind, LoopInv
<1>3. \A m \in Nodes : job.bytes[m] \in Nat /\ Dram(m) \in BOOLEAN
  BY <1>2, JobTypes DEF LoopTypeOK
<1>4. AloneRate \in Nat /\ AloneRate' = AloneRate
  BY <1>1, <1>2, JobTypes, JobFrame DEF LoopTypeOK
<1>5. /\ Due \subseteq started /\ Due \cap activated = {}
      /\ \A m \in Due : m \in Nodes /\ fixed_done_at[m] <= clock
  BY <1>2 DEF Due, LoopTypeOK
<1>6. LoopTypeOK'
  <2>1. streams \subseteq started' /\ streams \cap done' = {} /\ streams \subseteq activated'
    BY <1>1, <1>2, <1>5 DEF LoopTypeOK
  <2>2. remaining' \in [Nodes -> Nat]
    BY <1>1, <1>2, <1>3 DEF LoopTypeOK
  <2>3. progressed' \in BOOLEAN
    BY <1>1
  <2> HIDE DEF streams
  <2>. QED
    BY <1>1, <1>2, <1>5, <2>1, <2>2, <2>3 DEF LoopTypeOK, IsJob, stats
<1>7. Countdown' /\ DependenciesRespected'
  BY <1>1, <1>2 DEF Countdown, DependenciesRespected, StartedAt
<1>8. NodeClocks' /\ FreeTimesBacked' /\ DoneClocks' /\ UnitExclusive' /\ BusyFits'
  BY <1>1, <1>2, JobFrame DEF NodeClocks, FreeTimesBacked, DoneClocks, UnitExclusive,
     BusyFits, StartedAt, stats
<1>9. OpsLastTheirDuration'
  BY <1>1, <1>2, JobFrame DEF OpsLastTheirDuration
<1>10. StreamsLast'
  <2>1. \A m \in activated' : fixed_done_at'[m] <= clock'
    BY <1>1, <1>2, <1>5 DEF StreamsLast
  <2>2. ASSUME NEW m \in active_mem'
        PROVE  job.bytes[m] - remaining'[m] <= AloneRate * (clock - fixed_done_at[m])
    <3>1. CASE m \in streams
      <4>1. remaining'[m] = job.bytes[m] /\ m \in Nodes
        BY <3>1, <1>1, <1>5
      <4>2. clock - fixed_done_at[m] \in Nat
        BY <3>1, <4>1, <1>2, <1>5 DEF LoopTypeOK
      <4>. QED
        BY <4>1, <4>2, <1>3, <1>4, ProductNat
    <3>2. CASE m \notin streams
      <4>1. m \in active_mem /\ m \in Nodes
        BY <3>2, <1>1, <1>2 DEF LoopTypeOK
      <4>2. remaining'[m] = remaining[m]
        BY <3>2, <4>1, <1>1
      <4>. QED
        BY <4>1, <4>2, <1>2 DEF StreamsLast
    <3>. QED
      BY <3>1, <3>2
  <2>3. ASSUME NEW m \in activated' \ active_mem', Dram(m)
        PROVE  m \in activated \ active_mem
    BY <2>3, <1>1
  <2>. QED
    BY <2>1, <2>2, <2>3, <1>1, <1>2, <1>4, JobFrame DEF StreamsLast
<1>. QED
  BY <1>1, <1>2, <1>6, <1>7, <1>8, <1>9, <1>10, JobFrame DEF Ind, LoopInv

-----------------------------------------------------------------------------
(* The finish loop, wherever it is run from: the ops it finds done are past  *)
(* their compute and out of the channel, and the nodes it releases are new.  *)
LEMMA FinishAllInd ==
  ASSUME Ind, FinishAll, Acceptable, progressed' \in BOOLEAN,
         pc' \in {"dispatch", "advance", "exit"}
  PROVE  Ind'
<1> DEFINE F == Finishable
           left == [n \in Nodes |-> indeg[n] - Cardinality(job.deps[n] \cap F)]
<1>1. /\ job' = job /\ done' = done \cup F
      /\ done_at' = [n \in Nodes |-> IF n \in F THEN clock ELSE done_at[n]]
      /\ last' = IF F = {} THEN last ELSE Larger(last, clock)
      /\ indeg' = left /\ pending' = pending \cup Released(F, left)
      /\ UNCHANGED <<unit_free, started, activated, active_mem, remaining, owner,
                     fixed_done_at, compute_done_at, clock, stats>>
  BY DEF FinishAll
<1>2. /\ LoopTypeOK /\ Countdown /\ DependenciesRespected /\ NodeClocks
      /\ FreeTimesBacked /\ DoneClocks /\ BusyFits /\ UnitExclusive /\ StreamsLast
      /\ OpsLastTheirDuration
  BY DEF Ind, LoopInv
<1>3. /\ F \subseteq activated /\ F \cap done = {} /\ F \cap active_mem = {}
      /\ F \subseteq Nodes /\ F \subseteq started
      /\ \A n \in F : compute_done_at[n] <= clock
  BY <1>2 DEF Finishable, LoopTypeOK
<1> HIDE DEF F
<1>4. \A n \in Nodes : left[n] = Cardinality(job.deps[n] \ done') /\ left[n] \in Nat
  <2>. SUFFICES ASSUME NEW n \in Nodes
                PROVE  left[n] = Cardinality(job.deps[n] \ done') /\ left[n] \in Nat
    OBVIOUS
  <2> DEFINE waiting == job.deps[n] \ done
  <2>1. job.deps[n] \in SUBSET Nodes /\ waiting \in SUBSET Nodes
    BY <1>2, JobTypes DEF LoopTypeOK
  <2>2. IsFiniteSet(waiting) /\ IsFiniteSet(waiting \ F)
    BY <2>1, CardOfSubset
  <2>3. Cardinality(waiting \ F) = Cardinality(waiting) - Cardinality(waiting \cap F)
    BY <2>2, FS_Difference
  <2>4. waiting \cap F = job.deps[n] \cap F /\ waiting \ F = job.deps[n] \ done'
    BY <1>1, <1>3
  <2>5. Cardinality(waiting \ F) \in Nat
    BY <2>2, FS_CardinalityType
  <2>. QED
    BY <2>3, <2>4, <2>5, <1>2 DEF Countdown
<1>5. \A n \in Released(F, left) : n \in Nodes /\ n \notin started /\ job.deps[n] \subseteq done'
  <2>. SUFFICES ASSUME NEW n \in Released(F, left)
                PROVE  n \in Nodes /\ n \notin started /\ job.deps[n] \subseteq done'
    OBVIOUS
  <2>1. n \in Nodes /\ job.deps[n] \cap F # {} /\ left[n] = 0
    BY DEF Released
  <2>2. n \notin started
    BY <2>1, <1>2, <1>3 DEF DependenciesRespected
  <2>3. job.deps[n] \ done' \in SUBSET Nodes
    BY <2>1, <1>2, JobTypes DEF LoopTypeOK
  <2>4. job.deps[n] \ done' = {}
    BY <2>1, <2>3, <1>4, CardOfSubset, FS_EmptySet
  <2>. QED
    BY <2>1, <2>2, <2>4
<1>6. last \in Nat /\ clock \in Nat => last' \in Nat /\ last <= last' /\ (F # {} => clock <= last')
  BY <1>1 DEF Larger
<1>7. LoopTypeOK'
  <2>1. indeg' \in [Nodes -> Nat]
    BY <1>1, <1>4
  <2>2. pending' \subseteq Nodes
    BY <1>1, <1>2, <1>5 DEF LoopTypeOK
  <2>3. done' \subseteq activated' /\ active_mem' \subseteq activated' \ done'
    BY <1>1, <1>2, <1>3 DEF LoopTypeOK
  <2>4. done_at' \in [Nodes -> Nat]
    BY <1>1, <1>2 DEF LoopTypeOK
  <2>5. job'.pipeline => last' \in Nat /\ unit_busy' \in [Units -> Nat] /\ mem_active_us' \in Nat
    BY <1>1, <1>2, <1>6 DEF LoopTypeOK, stats
  <2>. QED
    BY <1>1, <1>2, <2>1, <2>2, <2>3, <2>4, <2>5 DEF LoopTypeOK, IsJob
<1>8. Countdown'
  BY <1>1, <1>2, <1>4, <1>5 DEF Countdown
<1>9. \A n \in done : n \notin F /\ n \in Nodes /\ done_at'[n] = done_at[n]
  BY <1>1, <1>2, <1>3 DEF LoopTypeOK
<1>10. \A n \in F : n \in Nodes /\ done_at'[n] = clock
  BY <1>1, <1>3
<1>11. DependenciesRespected'
  BY <1>1, <1>2, <1>9 DEF DependenciesRespected, StartedAt
<1>12. NodeClocks' /\ FreeTimesBacked' /\ UnitExclusive' /\ BusyFits' /\ StreamsLast'
  BY <1>1, <1>2, JobFrame DEF NodeClocks, FreeTimesBacked, UnitExclusive, BusyFits,
     StreamsLast, StartedAt, stats
<1>13. DoneClocks'
  <2>. SUFFICES ASSUME NEW n \in done'
                PROVE  /\ compute_done_at[n] <= done_at'[n] /\ done_at'[n] <= clock
                       /\ job.pipeline => done_at'[n] <= last'
    BY <1>1 DEF DoneClocks
  <2>1. clock \in Nat /\ (job.pipeline => last \in Nat)
    BY <1>2 DEF LoopTypeOK
  <2>2. CASE n \in F
    BY <2>1, <2>2, <1>3, <1>6, <1>10
  <2>3. CASE n \in done
    <3>1. done_at[n] \in Nat
      BY <2>3, <1>2, <1>9 DEF LoopTypeOK
    <3>. QED
      BY <2>1, <2>3, <3>1, <1>2, <1>6, <1>9 DEF DoneClocks
  <2>. QED
    BY <2>2, <2>3, <1>1
<1>14. OpsLastTheirDuration'
  <2>. SUFFICES ASSUME NEW n \in done'
                PROVE  /\ compute_done_at[n] <= done_at'[n]
                       /\ Dram(n) => job.bytes[n] <=
                            AloneRate * (done_at'[n] - fixed_done_at[n]) + ByteEps
    BY <1>1, JobFrame DEF OpsLastTheirDuration
  <2>1. CASE n \in F
    BY <2>1, <1>2, <1>3, <1>10 DEF StreamsLast
  <2>2. CASE n \in done
    BY <2>2, <1>2, <1>9 DEF OpsLastTheirDuration
  <2>. QED
    BY <2>1, <2>2, <1>1
<1>. QED
  BY <1>1, <1>2, <1>7, <1>8, <1>11, <1>12, <1>13, <1>14, JobFrame DEF Ind, LoopInv
-----------------------------------------------------------------------------
(* The streams in flight, unit by unit.                                      *)
Streaming(u) == {m \in active_mem : owner[m] = u}
StreamsOf == [u \in Units |-> Cardinality(Streaming(u))]

(* The arguments the channel is given are what its theorems ask for.         *)
LEMMA StreamsOfType ==
  ASSUME Ind
  PROVE  /\ IsFiniteSet(active_mem) /\ active_mem \subseteq Nodes
         /\ StreamsOf \in [Units -> Nat]
         /\ ValidChannel(job.bw) /\ job.contention \in BOOLEAN
         /\ Rates = Share(job.bw, StreamsOf, job.contention)
         /\ \A n \in active_mem : owner[n] \in Units /\ owner[n] \in InUse(StreamsOf)
         /\ \A u \in Units : IsFiniteSet(Streaming(u))
<1>1. LoopTypeOK /\ IsJob(job)
  BY DEF Ind, LoopInv, LoopTypeOK
<1>2. active_mem \in SUBSET Nodes /\ \A n \in active_mem : owner[n] \in Units
  BY <1>1 DEF LoopTypeOK
<1>3. \A u \in Units : Streaming(u) \in SUBSET Nodes
  BY <1>2 DEF Streaming
<1>4. \A u \in Units : IsFiniteSet(Streaming(u)) /\ Cardinality(Streaming(u)) \in Nat
  BY <1>3, CardOfSubset
<1>5. StreamsOf \in [Units -> Nat]
  BY <1>4 DEF StreamsOf
<1>6. Rates = Share(job.bw, StreamsOf, job.contention)
  BY DEF Rates, StreamsOf, Streaming
<1>7. ASSUME NEW n \in active_mem PROVE owner[n] \in InUse(StreamsOf)
  <2>1. owner[n] \in Units /\ Streaming(owner[n]) # {}
    BY <1>2 DEF Streaming
  <2>2. Cardinality(Streaming(owner[n])) # 0 /\ Cardinality(Streaming(owner[n])) \in Nat
    BY <1>4, <2>1, FS_EmptySet
  <2>3. StreamsOf[owner[n]] > 0
    BY <2>1, <2>2 DEF StreamsOf
  <2>. QED
    BY <1>5, <2>1, <2>3 DEF InUse
<1>8. ValidChannel(job.bw) /\ job.contention \in BOOLEAN
  BY <1>1 DEF IsJob
<1>9. IsFiniteSet(active_mem)
  BY <1>2, CardOfSubset
<1>. QED
  BY <1>2, <1>4, <1>5, <1>6, <1>7, <1>8, <1>9

(* A stream in flight has a rate, and it is no faster than alone.            *)
LEMMA RateType ==
  ASSUME Ind, NEW n \in active_mem
  PROVE  Rates[owner[n]] \in Nat /\ Rates[owner[n]] <= AloneRate
<1>1. /\ StreamsOf \in [Units -> Nat] /\ IsFiniteSet(Units)
      /\ ValidChannel(job.bw) /\ job.contention \in BOOLEAN
      /\ Rates = Share(job.bw, StreamsOf, job.contention)
      /\ owner[n] \in InUse(StreamsOf)
  BY StreamsOfType, UnitsAssumption
<1>2. /\ Share(job.bw, StreamsOf, job.contention) \in [InUse(StreamsOf) -> Nat]
      /\ \A u \in InUse(StreamsOf) :
           Share(job.bw, StreamsOf, job.contention)[u] <= PerStream(job.bw, 1, job.contention)
  BY <1>1, ShareIsBounded
<1>. QED
  BY <1>1, <1>2 DEF AloneRate

(* The next event is at a whole number of ticks, and not in the past.        *)
LEMMA NextEventType ==
  ASSUME Ind, pc = "advance", ~Stalled
  PROVE  Min(EventDistances) \in Nat /\ Min(EventDistances) > 0
<1>1. LoopTypeOK
  BY DEF Ind, LoopInv
<1>2. clock \in Nat /\ IsJob(job) /\ active_mem \subseteq Nodes
  BY <1>1 DEF LoopTypeOK
<1> DEFINE streamEnds == {CeilDiv(remaining[n], Rates[owner[n]]) :
                            n \in {m \in active_mem : Rates[owner[m]] > 0}}
           delayEnds == {fixed_done_at[n] - clock : n \in started \ activated}
           computeEnds == {compute_done_at[n] - clock :
                             n \in {m \in started \ done : compute_done_at[m] > clock}}
           frees == {unit_free[UKey(n)] - clock :
                       n \in {m \in pending : unit_free[UKey(m)] > clock}}
<1>3. \A x \in streamEnds : x \in Int /\ -clock <= x
  <2>. SUFFICES ASSUME NEW n \in active_mem, Rates[owner[n]] > 0
                PROVE  CeilDiv(remaining[n], Rates[owner[n]]) \in Nat
    BY <1>2
  <2>1. remaining[n] \in Nat /\ Rates[owner[n]] \in Nat
    BY <1>1, RateType DEF LoopTypeOK
  <2>. QED
    BY <2>1, CeilDivType
<1>4. \A x \in delayEnds : x \in Int /\ -clock <= x
  <2>. SUFFICES ASSUME NEW n \in started \ activated
                PROVE  fixed_done_at[n] - clock \in Int /\ -clock <= fixed_done_at[n] - clock
    BY <1>2
  <2>1. fixed_done_at[n] \in Nat
    BY <1>1 DEF LoopTypeOK
  <2>. QED
    BY <2>1, <1>2
<1>5. \A x \in computeEnds : x \in Int /\ -clock <= x
  <2>. SUFFICES ASSUME NEW n \in started \ done
                PROVE  compute_done_at[n] - clock \in Int /\ -clock <= compute_done_at[n] - clock
    BY <1>2
  <2>1. compute_done_at[n] \in Nat
    BY <1>1 DEF LoopTypeOK
  <2>. QED
    BY <2>1, <1>2
<1>6. \A x \in frees : x \in Int /\ -clock <= x
  <2>. SUFFICES ASSUME NEW n \in pending, unit_free[UKey(n)] > clock
                PROVE  unit_free[UKey(n)] - clock \in Int /\ -clock <= unit_free[UKey(n)] - clock
    BY <1>2
  <2>1. CASE UKey(n) \in Servers
    BY <2>1, <1>1, <1>2 DEF LoopTypeOK
  <2>2. CASE UKey(n) \notin Servers
    <3>1. Acceptable /\ n \in Nodes
      BY <1>1 DEF Ind, LoopInv, LoopTypeOK
    <3>. QED
      BY <2>2, <3>1, <1>2, ServerType
  <2>. QED
    BY <2>1, <2>2
<1>7. EventDistances = streamEnds \cup delayEnds \cup computeEnds \cup frees
  BY DEF EventDistances
<1> HIDE DEF streamEnds, delayEnds, computeEnds, frees
<1>8. EventDistances \in SUBSET Int /\ \A x \in EventDistances : -clock <= x
  BY <1>3, <1>4, <1>5, <1>6, <1>7
<1>9. Min(EventDistances) \in EventDistances
  <2>1. EventDistances # {} /\ -clock \in Int
    BY <1>2 DEF Stalled
  <2>. QED
    BY <2>1, <1>8, MinOfIntegers
<1>10. ~(Min(EventDistances) <= 0)
  BY Zenon DEF Stalled
<1>11. Min(EventDistances) \in Int
  BY <1>8, <1>9, Zenon
<1>. QED
  BY <1>10, <1>11
(* The drain: a stream moves no more bytes than it would have alone, and one *)
(* that leaves the channel has at most _BYTE_EPS left.                       *)
LEMMA DrainInd == ASSUME Ind, pc = "advance", ~Stalled, Drain PROVE Ind'
<1> DEFINE nxt == Min(EventDistances)
           drained == [n \in active_mem |-> nxt * Rates[owner[n]]]
           left == [n \in Nodes |-> IF n \in active_mem THEN remaining[n] - drained[n]
                                                        ELSE remaining[n]]
           over == {n \in active_mem : left[n] <= ByteEps}
<1>1. /\ pc = "advance" /\ pc' = "settle" /\ ~Stalled
      /\ clock' = clock + nxt
      /\ mem_active_us' = IF active_mem = {} THEN mem_active_us ELSE mem_active_us + nxt
      /\ active_mem' = active_mem \ over
      /\ remaining' = [n \in Nodes |-> IF n \in over THEN 0 ELSE left[n]]
      /\ UNCHANGED <<job, progressed, indeg, unit_free, pending, started, activated, done,
                     owner, fixed_done_at, compute_done_at, last, done_at, unit_busy>>
  BY DEF Drain
<1>2. /\ LoopTypeOK /\ Acceptable /\ Countdown /\ DependenciesRespected /\ NodeClocks
      /\ FreeTimesBacked /\ DoneClocks /\ BusyFits /\ UnitExclusive /\ StreamsLast
      /\ OpsLastTheirDuration
  BY <1>1 DEF Ind, LoopInv
<1>3. nxt \in Nat /\ nxt > 0
  BY <1>1, NextEventType
<1>4. \A n \in active_mem : /\ n \in Nodes /\ n \in activated /\ n \in started
                            /\ remaining[n] \in Nat /\ job.bytes[n] \in Nat
                            /\ fixed_done_at[n] \in Nat /\ fixed_done_at[n] <= clock
  BY <1>2, JobTypes DEF LoopTypeOK, StreamsLast
<1>5. AloneRate \in Nat /\ clock \in Nat /\ ByteEps \in Nat
  BY <1>2, JobTypes, ByteEpsAssumption DEF LoopTypeOK
<1>6. \A n \in active_mem : /\ Rates[owner[n]] \in Nat /\ drained[n] \in Nat
                            /\ drained[n] <= AloneRate * nxt
  <2>. SUFFICES ASSUME NEW n \in active_mem
                PROVE  /\ Rates[owner[n]] \in Nat /\ drained[n] \in Nat
                       /\ drained[n] <= AloneRate * nxt
    OBVIOUS
  <2>1. Rates[owner[n]] \in Nat /\ Rates[owner[n]] <= AloneRate
    BY RateType
  <2>2. nxt * Rates[owner[n]] \in Nat /\ nxt * Rates[owner[n]] <= AloneRate * nxt
    BY <2>1, <1>3, <1>5, ProductNat, ProductMonotone
  <2>. QED
    BY <2>1, <2>2
<1> HIDE DEF nxt, drained
<1>7. \A n \in active_mem : left[n] = remaining[n] - drained[n] /\ left[n] \in Int
  BY <1>4, <1>6
<1>8. \A n \in activated : AloneRate * (clock' - fixed_done_at[n])
                             = AloneRate * (clock - fixed_done_at[n]) + AloneRate * nxt
  <2>. SUFFICES ASSUME NEW n \in activated
                PROVE  AloneRate * (clock' - fixed_done_at[n])
                         = AloneRate * (clock - fixed_done_at[n]) + AloneRate * nxt
    OBVIOUS
  <2>1. fixed_done_at[n] \in Nat
    BY <1>2 DEF LoopTypeOK
  <2>2. clock' - fixed_done_at[n] = (clock - fixed_done_at[n]) + nxt
    BY <2>1, <1>1, <1>3, <1>5
  <2>. QED
    BY <2>1, <2>2, <1>3, <1>5, ProductDistributes
<1>9. \A n \in active_mem :
        job.bytes[n] - left[n] <= AloneRate * (clock' - fixed_done_at[n])
  <2>. SUFFICES ASSUME NEW n \in active_mem
                PROVE  job.bytes[n] - left[n] <= AloneRate * (clock' - fixed_done_at[n])
    OBVIOUS
  <2>1. job.bytes[n] - remaining[n] <= AloneRate * (clock - fixed_done_at[n])
    BY <1>2 DEF StreamsLast
  <2>2. AloneRate * (clock - fixed_done_at[n]) \in Int /\ AloneRate * nxt \in Int
    BY <1>3, <1>4, <1>5, ProductInt
  <2>. QED
    BY <2>1, <2>2, <1>4, <1>6, <1>7, <1>8
<1>10. clock' \in Nat /\ clock <= clock'
  BY <1>1, <1>3, <1>5
<1>11. LoopTypeOK'
  <2>1. remaining' \in [Nodes -> Nat]
    <3>. SUFFICES ASSUME NEW n \in Nodes
                  PROVE (IF n \in over THEN 0 ELSE left[n]) \in Nat
      BY <1>1
    <3>1. CASE n \in over
      BY <3>1
    <3>2. CASE n \in active_mem \ over
      <4>1. left[n] \in Int /\ ~(left[n] <= ByteEps)
        BY <3>2, <1>7
      <4>. QED
        BY <4>1, <3>2, <1>5
    <3>3. CASE n \notin active_mem
      BY <3>3, <1>2 DEF LoopTypeOK
    <3>. QED
      BY <3>1, <3>2, <3>3
  <2>2. active_mem' \subseteq activated' \ done'
    BY <1>1, <1>2 DEF LoopTypeOK
  <2>3. job.pipeline => mem_active_us' \in Nat
    BY <1>1, <1>2, <1>3 DEF LoopTypeOK
  <2> HIDE DEF left, over
  <2>. QED
    BY <1>1, <1>2, <1>10, <2>1, <2>2, <2>3 DEF LoopTypeOK, IsJob
<1>12. Countdown' /\ DependenciesRespected' /\ FreeTimesBacked' /\ UnitExclusive' /\ BusyFits'
       /\ OpsLastTheirDuration'
  BY <1>1, <1>2, JobFrame DEF Countdown, DependenciesRespected, FreeTimesBacked,
     UnitExclusive, BusyFits, OpsLastTheirDuration, StartedAt
<1>13. NodeClocks' /\ DoneClocks'
  <2>1. ASSUME NEW n \in started PROVE StartedAt(n) \in 0..clock' /\ StartedAt(n)' = StartedAt(n)
    BY <1>1, <1>2, <1>5, <1>10 DEF NodeClocks, StartedAt
  <2>2. ASSUME NEW n \in done PROVE done_at[n] <= clock'
    <3>1. done_at[n] \in Nat
      BY <1>2 DEF LoopTypeOK
    <3>. QED
      BY <3>1, <1>2, <1>5, <1>10 DEF DoneClocks
  <2>. QED
    BY <2>1, <2>2, <1>1, <1>2, JobFrame DEF NodeClocks, DoneClocks
<1>14. StreamsLast'
  <2>1. ASSUME NEW n \in activated PROVE fixed_done_at[n] <= clock'
    <3>1. fixed_done_at[n] \in Nat
      BY <1>2 DEF LoopTypeOK
    <3>. QED
      BY <3>1, <1>2, <1>5, <1>10 DEF StreamsLast
  <2>2. ASSUME NEW n \in active_mem'
        PROVE  job.bytes[n] - remaining'[n] <= AloneRate * (clock' - fixed_done_at[n])
    <3>1. n \in active_mem /\ remaining'[n] = left[n]
      BY <1>1, <1>4
    <3>. QED
      BY <3>1, <1>9
  <2>3. ASSUME NEW n \in activated \ active_mem', Dram(n)
        PROVE  job.bytes[n] <= AloneRate * (clock' - fixed_done_at[n]) + ByteEps
    <3>1. n \in Nodes /\ job.bytes[n] \in Nat /\ fixed_done_at[n] \in Nat
      BY <1>2, JobTypes DEF LoopTypeOK
    <3>2. AloneRate * (clock - fixed_done_at[n]) \in Int /\ AloneRate * nxt \in Nat
          /\ AloneRate * (clock' - fixed_done_at[n]) \in Int
      BY <3>1, <1>3, <1>5, <1>10, ProductInt, ProductNat
    <3>3. CASE n \in over
      <4>1. n \in active_mem /\ left[n] <= ByteEps
        BY <3>3
      <4>2. left[n] \in Int /\ job.bytes[n] - left[n] <= AloneRate * (clock' - fixed_done_at[n])
        BY <4>1, <1>7, <1>9
      <4> HIDE DEF left, over
      <4>. QED
        BY <4>1, <4>2, <3>1, <3>2, <1>5
    <3>4. CASE n \notin over
      <4>1. job.bytes[n] <= AloneRate * (clock - fixed_done_at[n]) + ByteEps
        BY <3>4, <2>3, <1>1, <1>2 DEF StreamsLast
      <4>. QED
        BY <4>1, <3>1, <3>2, <1>5, <1>8
    <3>. QED
      BY <3>3, <3>4
  <2>4. job' = job /\ activated' = activated /\ fixed_done_at' = fixed_done_at
        /\ AloneRate' = AloneRate /\ \A n : Dram(n)' = Dram(n)
    BY <1>1, JobFrame
  <2> HIDE DEF left, over
  <2>. QED
    BY <2>1, <2>2, <2>3, <2>4 DEF StreamsLast
<1>. QED
  BY <1>1, <1>2, <1>11, <1>12, <1>13, <1>14, JobFrame DEF Ind, LoopInv
-----------------------------------------------------------------------------
(* Every step of the call preserves the invariant.                           *)
LEMMA NextInd == Ind /\ [Next]_vars => Ind'
<1>. SUFFICES ASSUME Ind, [Next]_vars PROVE Ind'
  OBVIOUS
<1>1. progressed \in BOOLEAN /\ (pc # "validate" /\ pc # "rejected" => Acceptable)
  BY DEF Ind, LoopInv, LoopTypeOK
<1>2. CASE Reject
  BY <1>2, <1>1, FrameInd DEF Reject
<1>3. CASE EnterLoop
  BY <1>3, <1>1, FrameInd DEF EnterLoop
<1>4. CASE RunSerial
  BY <1>4, SerialInd
<1>5. ASSUME NEW n \in Nodes, Dispatch(n) PROVE Ind'
  BY <1>5, DispatchInd
<1>6. CASE EndDispatch
  BY <1>6, <1>1, FrameInd DEF EndDispatch
<1>7. CASE Activate
  BY <1>7, ActivateInd
<1>8. CASE Finish
  BY <1>8, <1>1, FinishAllInd DEF Finish, AfterPass
<1>9. CASE pc = "advance" /\ Stalled /\ Stall
  BY <1>9, <1>1, FrameInd DEF Stall
<1>10. CASE pc = "advance" /\ ~Stalled /\ Drain
  BY <1>10, DrainInd
<1>11. CASE Settle
  BY <1>11, <1>1, FinishAllInd DEF Settle
<1>12. CASE Return
  BY <1>12, <1>1, FrameInd DEF Return
<1>13. CASE UNCHANGED vars
  <2>1. job' = job /\ pc' = pc /\ progressed' = progressed /\ UNCHANGED <<run, stats>>
    BY <1>13 DEF vars
  <2>2. LoopTypeOK'
    BY <2>1 DEF Ind, LoopInv, LoopTypeOK, IsJob, run, stats
  <2>3. Countdown' /\ DependenciesRespected' /\ NodeClocks' /\ FreeTimesBacked'
        /\ DoneClocks' /\ UnitExclusive'
    BY <2>1, JobFrame DEF Ind, LoopInv, Countdown, DependenciesRespected, NodeClocks,
       FreeTimesBacked, DoneClocks, UnitExclusive, StartedAt, run, stats
  <2>4. BusyFits' /\ StreamsLast' /\ OpsLastTheirDuration'
    BY <2>1, JobFrame DEF Ind, LoopInv, BusyFits, StreamsLast, OpsLastTheirDuration, run, stats
  <2>5. done' = done
    BY <2>1 DEF run
  <2>. QED
    BY <2>1, <2>2, <2>3, <2>4, <2>5, JobFrame DEF Ind, LoopInv
<1>. QED
  BY <1>2, <1>3, <1>4, <1>5, <1>6, <1>7, <1>8, <1>9, <1>10, <1>11, <1>12, <1>13 DEF Next, Advance

(* LoopInv is inductive: it holds in every state of every call.               *)
THEOREM LoopInvariant == Spec => []Ind
<1>1. Ind /\ [Next]_vars => Ind'
  BY NextInd
<1>. QED
  BY InitInd, <1>1, PTL DEF Spec

(* The loop's state keeps its types; in particular every clock and every     *)
(* count of bytes left is a natural number.                                  *)
THEOREM LoopTypesCorrect == Spec => []LoopTypeOK
<1>1. Ind => LoopTypeOK
  BY DEF Ind, LoopInv
<1>. QED
  BY LoopInvariant, <1>1, PTL

(* run_dag never dispatches an op before all its dependencies are done, on   *)
(* any graph, placement and channel.                                         *)
THEOREM OrderCorrect == Spec => []DependenciesRespected
<1>1. Ind => DependenciesRespected
  BY DEF Ind, LoopInv
<1>. QED
  BY LoopInvariant, <1>1, PTL

(* The serial parts of two ops of one server never overlap in time.          *)
THEOREM ServersExclusive == Spec => []UnitExclusive
<1>1. Ind => UnitExclusive
  BY DEF Ind, LoopInv
<1>. QED
  BY LoopInvariant, <1>1, PTL

(* No op is done before its compute and before its stream could have drained *)
(* alone, whatever else the channel carries.                                 *)
THEOREM DurationsRespected == Spec => []OpsLastTheirDuration
<1>1. Ind => OpsLastTheirDuration
  BY DEF Ind, LoopInv
<1>. QED
  BY LoopInvariant, <1>1, PTL

(* The utilisation reported for a unit is at most 1: its busy time is within *)
(* the time its server was taken, whose end some op's completion waits for.  *)
LEMMA UtilisationFromInv == Ind => UtilisationAtMostOne
<1>. SUFFICES ASSUME Ind, pc = "returned", job.pipeline, NEW u \in Units
              PROVE  unit_busy[u] <= last
  BY DEF UtilisationAtMostOne
<1> DEFINE s == IF job.concurrency THEN u ELSE Serial
<1>1. LoopTypeOK /\ BusyFits /\ FreeTimesBacked /\ DoneClocks /\ done = Nodes
  BY DEF Ind, LoopInv
<1>2. s \in Servers
  BY DEF Servers
<1>3. unit_busy[u] \in Nat /\ unit_free[s] \in Nat /\ last \in Nat
  BY <1>1, <1>2 DEF LoopTypeOK
<1>4. unit_busy[u] <= unit_free[s]
  BY <1>1 DEF BusyFits
<1>5. unit_free[s] <= last
  <2>1. CASE unit_free[s] = 0
    BY <2>1, <1>3
  <2>2. CASE unit_free[s] # 0
    <3>1. PICK n \in started : unit_free[s] = compute_done_at[n]
      BY <2>2, <1>1, <1>2 DEF FreeTimesBacked
    <3>2. n \in done /\ compute_done_at[n] \in Nat /\ done_at[n] \in Nat
      BY <1>1 DEF LoopTypeOK
    <3>3. compute_done_at[n] <= done_at[n] /\ done_at[n] <= last
      BY <3>2, <1>1 DEF DoneClocks
    <3>. QED
      BY <3>1, <3>2, <3>3, <1>3
  <2>. QED
    BY <2>1, <2>2
<1>. QED
  BY <1>3, <1>4, <1>5

(* unit_utilisation <= 1 for every unit of every call that returns.          *)
THEOREM UtilisationCorrect == Spec => []UtilisationAtMostOne
BY LoopInvariant, UtilisationFromInv, PTL

-----------------------------------------------------------------------------
(* The refinement.                                                           *)

(* The abstract state, by name.                                              *)
Serving == [n \in Nodes |-> UKey(n)]
Busy == started \ done
Holding == {n \in started \ done : compute_done_at[n] > clock}

(* A step that leaves the abstract state as it is.                           *)
LEMMA AbstractStutter ==
  ASSUME job' = job, Busy' = Busy, Holding' = Holding, done' = done
  PROVE  UNCHANGED Abstract!vars
<1>1. Serving' = Serving
  BY JobFrame DEF Serving
<1>. QED
  BY <1>1 DEF Abstract!vars, Serving, Busy, Holding

(* Calls start with nothing running.                                         *)
LEMMA AbstractInitially == Init => Abstract!Init
BY DEF Init, Abstract!Init

(* A dispatch is a Start: the server's last op is past its compute.          *)
LEMMA DispatchIsStart ==
  ASSUME Ind, NEW n \in Nodes, Dispatch(n)
  PROVE  Abstract!Start(n)
<1>1. /\ pc = "dispatch" /\ job' = job /\ n \in pending /\ unit_free[UKey(n)] <= clock
      /\ started' = started \cup {n} /\ done' = done /\ clock' = clock
      /\ compute_done_at' = [compute_done_at EXCEPT ![n] = clock + job.fixed[n] + Compute(n)]
  BY DEF Dispatch, Dispatchable
<1>2. LoopTypeOK /\ Acceptable /\ Countdown /\ NodeClocks
  BY <1>1 DEF Ind, LoopInv
<1>3. n \notin started /\ job.deps[n] \subseteq done /\ done \subseteq started
  BY <1>1, <1>2 DEF Countdown, LoopTypeOK
<1>4. ASSUME NEW m \in Holding PROVE Serving[m] # Serving[n]
  <2>1. m \in started /\ m \in Nodes /\ compute_done_at[m] > clock /\ compute_done_at[m] \in Nat
    BY <1>2 DEF Holding, LoopTypeOK
  <2>2. clock \in Nat /\ UKey(m) \in Servers /\ unit_free[UKey(m)] \in Nat
    BY <1>2, <2>1, ServerType DEF LoopTypeOK
  <2>3. compute_done_at[m] <= unit_free[UKey(m)]
    BY <1>2, <2>1 DEF NodeClocks
  <2>4. UKey(m) # UKey(n)
    BY <1>1, <2>1, <2>2, <2>3
  <2>. QED
    BY <2>1, <2>4 DEF Serving
<1>5. Busy' = Busy \cup {n}
  BY <1>1, <1>3 DEF Busy
<1>6. Holding' \in {Holding, Holding \cup {n}}
  <2>1. \A m \in started : compute_done_at'[m] = compute_done_at[m] /\ m # n
    BY <1>1, <1>2, <1>3 DEF LoopTypeOK
  <2>2. Holding \subseteq Holding' /\ Holding' \subseteq Holding \cup {n}
    BY <1>1, <1>3, <2>1 DEF Holding
  <2>. QED
    BY <2>2
<1>7. Serving' = Serving
  BY <1>1, JobFrame DEF Serving
<1>. QED
  BY <1>1, <1>3, <1>4, <1>5, <1>6, <1>7 DEF Abstract!Start, Serving, Busy, Holding

(* The finish loop is a Complete of the ops it finds, if it finds any.       *)
LEMMA FinishIsComplete ==
  ASSUME Ind, FinishAll
  PROVE  Abstract!Complete(Finishable) \/ UNCHANGED Abstract!vars
<1>1. /\ job' = job /\ done' = done \cup Finishable /\ started' = started
      /\ clock' = clock /\ compute_done_at' = compute_done_at
  BY DEF FinishAll
<1>2. LoopTypeOK
  BY DEF Ind, LoopInv
<1>3. Finishable \subseteq Busy
  BY <1>2 DEF Finishable, Busy, LoopTypeOK
<1>4. Finishable \cap Holding = {}
  <2>. SUFFICES ASSUME NEW n \in Finishable PROVE ~(compute_done_at[n] > clock)
    BY DEF Holding
  <2>1. compute_done_at[n] \in Nat /\ clock \in Nat /\ compute_done_at[n] <= clock
    BY <1>2 DEF Finishable, LoopTypeOK
  <2>. QED
    BY <2>1
<1>5. Busy' = Busy \ Finishable
  BY <1>1 DEF Busy
<1>6. Holding' = Holding
  BY <1>1, <1>4 DEF Holding
<1>7. Serving' = Serving
  BY <1>1, JobFrame DEF Serving
<1>8. CASE Finishable = {}
  BY <1>1, <1>5, <1>6, <1>8, AbstractStutter
<1>9. CASE Finishable # {}
  BY <1>1, <1>3, <1>4, <1>5, <1>6, <1>7, <1>9 DEF Abstract!Complete, Serving, Busy, Holding
<1>. QED
  BY <1>8, <1>9

(* The clock moves: a Release of the servers whose compute ends.             *)
LEMMA DrainIsRelease ==
  ASSUME Ind, pc = "advance", ~Stalled, Drain
  PROVE  (\E S \in SUBSET Nodes : Abstract!Release(S)) \/ UNCHANGED Abstract!vars
<1>1. /\ job' = job /\ done' = done /\ started' = started
      /\ clock' = clock + Min(EventDistances) /\ compute_done_at' = compute_done_at
  BY DEF Drain
<1>2. LoopTypeOK
  BY DEF Ind, LoopInv
<1>3. Min(EventDistances) \in Nat
  BY NextEventType
<1>4. Holding' \subseteq Holding
  <2>. SUFFICES ASSUME NEW n \in started, compute_done_at[n] > clock'
                PROVE  compute_done_at[n] > clock
    BY <1>1 DEF Holding
  <2>1. compute_done_at[n] \in Nat /\ clock \in Nat
    BY <1>2 DEF LoopTypeOK
  <2>. QED
    BY <1>1, <1>3, <2>1
<1>5. Busy' = Busy
  BY <1>1 DEF Busy
<1>6. Serving' = Serving
  BY <1>1, JobFrame DEF Serving
<1>7. CASE Holding' = Holding
  BY <1>1, <1>5, <1>7, AbstractStutter
<1>8. CASE Holding' # Holding
  <2>1. PICK S : S = Holding \ Holding'
    OBVIOUS
  <2>2. S # {} /\ S \subseteq Holding /\ Holding' = Holding \ S
    BY <1>4, <1>8, <2>1
  <2>3. S \in SUBSET Nodes
    BY <1>2, <2>2 DEF Holding, LoopTypeOK
  <2>4. Abstract!Release(S)
    BY <1>1, <1>5, <1>6, <2>2 DEF Abstract!Release, Serving, Busy, Holding
  <2>. QED
    BY <2>3, <2>4
<1>. QED
  BY <1>7, <1>8

(* Every step of a call is a step of the promise, or none.                   *)
LEMMA StepIsAbstract == Ind /\ [Next]_vars => [Abstract!Next]_(Abstract!vars)
<1>. SUFFICES ASSUME Ind, [Next]_vars PROVE Abstract!Next \/ UNCHANGED Abstract!vars
  OBVIOUS
<1>1. ASSUME job' = job, started' = started, done' = done, clock' = clock,
             compute_done_at' = compute_done_at
      PROVE  UNCHANGED Abstract!vars
  <2>1. Busy' = Busy /\ Holding' = Holding
    BY <1>1 DEF Busy, Holding
  <2>. QED
    BY <1>1, <2>1, AbstractStutter
<1>2. CASE Reject
  BY <1>1, <1>2 DEF Reject, run
<1>3. CASE EnterLoop
  BY <1>1, <1>3 DEF EnterLoop, run
<1>4. CASE RunSerial
  BY <1>1, <1>4 DEF RunSerial
<1>5. ASSUME NEW n \in Nodes, Dispatch(n) PROVE Abstract!Next
  BY <1>5, DispatchIsStart DEF Abstract!Next
<1>6. CASE EndDispatch
  BY <1>1, <1>6 DEF EndDispatch, run
<1>7. CASE Activate
  BY <1>1, <1>7 DEF Activate
<1>8. ASSUME FinishAll PROVE Abstract!Next \/ UNCHANGED Abstract!vars
  <2>1. Finishable \in SUBSET Nodes
    BY DEF Finishable, Ind, LoopInv, LoopTypeOK
  <2>. QED
    BY <1>8, <2>1, FinishIsComplete DEF Abstract!Next
<1>9. CASE pc = "advance" /\ Stalled /\ Stall
  BY <1>1, <1>9 DEF Stall, run
<1>10. CASE pc = "advance" /\ ~Stalled /\ Drain
  BY <1>10, DrainIsRelease DEF Abstract!Next
<1>11. CASE Return
  BY <1>1, <1>11 DEF Return, run
<1>12. CASE UNCHANGED vars
  BY <1>1, <1>12 DEF vars, run
<1>. QED
  BY <1>2, <1>3, <1>4, <1>5, <1>6, <1>7, <1>8, <1>9, <1>10, <1>11, <1>12
     DEF Next, Advance, Finish, Settle

(* run_dag implements the promise of DagExecution: every op once, after all   *)
(* it depends on, its serial part alone on its server.                        *)
THEOREM EngineImplementsExecution == Spec => ImplementsDagExecution
<1>1. Init => Abstract!Init
  BY AbstractInitially
<1>2. Ind /\ [Next]_vars => [Abstract!Next]_(Abstract!vars)
  BY StepIsAbstract
<1>. QED
  BY <1>1, <1>2, LoopInvariant, PTL DEF Spec, ImplementsDagExecution, Abstract!Spec

-----------------------------------------------------------------------------
(* What the passes of the inner loop have settled, phase by phase.           *)
Settled ==
  /\ pc \in {"activate", "finish", "advance"} => \A n \in pending : ~Dispatchable(n)
  /\ pc \in {"finish", "advance"} => Due = {}
  /\ pc = "advance" => Finishable = {}

(* Only the inner loop establishes it, and a pass that finishes nothing and   *)
(* dispatches nothing keeps it.                                              *)
LEMMA SettledStep == Ind /\ Settled /\ [Next]_vars => Settled'
<1>. SUFFICES ASSUME Ind, Settled, [Next]_vars PROVE Settled'
  OBVIOUS
<1>1. CASE pc' \notin {"activate", "finish", "advance"}
  BY <1>1 DEF Settled
<1>2. CASE EndDispatch
  <2>1. pc' = "activate" /\ \A n \in pending : ~Dispatchable(n)
    BY <1>2 DEF EndDispatch
  <2>2. job' = job /\ pending' = pending /\ unit_free' = unit_free /\ clock' = clock
    BY <1>2 DEF EndDispatch, run
  <2>3. \A n : Dispatchable(n)' = Dispatchable(n)
    BY <2>2, JobFrame DEF Dispatchable
  <2>. QED
    BY <2>1, <2>2, <2>3 DEF Settled
<1>3. CASE Activate
  <2>1. /\ pc = "activate" /\ pc' = "finish" /\ activated' = activated \cup Due
        /\ job' = job /\ pending' = pending /\ unit_free' = unit_free /\ clock' = clock
        /\ started' = started /\ fixed_done_at' = fixed_done_at
    BY <1>3 DEF Activate
  <2>2. \A n : Dispatchable(n)' = Dispatchable(n)
    BY <2>1, JobFrame DEF Dispatchable
  <2>3. Due' = {}
    BY <2>1 DEF Due
  <2>. QED
    BY <2>1, <2>2, <2>3 DEF Settled
<1>4. CASE Finish /\ pc' = "advance"
  <2>1. pc = "finish" /\ FinishAll /\ Finishable = {}
    BY <1>4 DEF Finish, AfterPass
  <2>2. /\ job' = job /\ unit_free' = unit_free /\ clock' = clock /\ active_mem' = active_mem
        /\ started' = started /\ activated' = activated /\ fixed_done_at' = fixed_done_at
        /\ compute_done_at' = compute_done_at
        /\ done' = done \cup Finishable
        /\ \E left : pending' = pending \cup Released(Finishable, left)
    BY <2>1 DEF FinishAll
  <2>3. done' = done
    BY <2>1, <2>2
  <2>4. pending' = pending
    BY <2>1, <2>2 DEF Released
  <2>5. \A n : Dispatchable(n)' = Dispatchable(n)
    BY <2>2, <2>4, JobFrame DEF Dispatchable
  <2>6. Due' = Due /\ Finishable' = Finishable
    BY <2>2, <2>3 DEF Due, Finishable
  <2>. QED
    BY <2>1, <2>4, <2>5, <2>6, <1>4 DEF Settled
<1>5. CASE UNCHANGED vars
  <2>1. job' = job /\ pc' = pc /\ UNCHANGED run
    BY <1>5 DEF vars
  <2>2. \A n : Dispatchable(n)' = Dispatchable(n)
    BY <2>1, JobFrame DEF Dispatchable, run
  <2>3. Due' = Due /\ Finishable' = Finishable /\ pending' = pending
    BY <2>1 DEF Due, Finishable, run
  <2>. QED
    BY <2>1, <2>2, <2>3 DEF Settled
<1>6. pc' \in {"activate", "finish", "advance"} =>
        EndDispatch \/ Activate \/ (Finish /\ pc' = "advance") \/ UNCHANGED vars
  <2>1. CASE \E n \in Nodes : Dispatch(n)
    BY <2>1 DEF Dispatch
  <2>2. CASE Reject \/ EnterLoop \/ RunSerial
    BY <2>2 DEF Reject, EnterLoop, RunSerial
  <2>3. CASE Finish
    BY <2>3 DEF Finish, AfterPass
  <2>4. CASE Advance
    BY <2>4 DEF Advance, Stall, Drain
  <2>5. CASE Settle
    BY <2>5 DEF Settle
  <2>6. CASE Return
    BY <2>6 DEF Return
  <2>. QED
    BY <2>1, <2>2, <2>3, <2>4, <2>5, <2>6 DEF Next
<1>. QED
  BY <1>1, <1>2, <1>3, <1>4, <1>5, <1>6

(* Only the drain moves the clock.                                           *)
LEMMA ClockMovesInDrain ==
  ASSUME [Next]_vars, clock' # clock
  PROVE  pc = "advance"
<1>1. CASE \E n \in Nodes : Dispatch(n)
  BY <1>1 DEF Dispatch
<1>2. CASE Reject \/ EnterLoop \/ RunSerial \/ EndDispatch \/ Activate
  BY <1>2 DEF Reject, EnterLoop, RunSerial, EndDispatch, Activate, run
<1>3. CASE Finish \/ Settle
  BY <1>3 DEF Finish, Settle, FinishAll
<1>4. CASE Advance
  BY <1>4 DEF Advance
<1>5. CASE Return \/ UNCHANGED vars
  BY <1>5 DEF Return, vars, run
<1>. QED
  BY <1>1, <1>2, <1>3, <1>4, <1>5 DEF Next

(* At a drain, what is pending waits for its unit and what is started for    *)
(* its delay.                                                                *)
LEMMA NothingDueAtDrain ==
  ASSUME Ind, Settled, pc = "advance"
  PROVE  /\ \A n \in pending : unit_free[UKey(n)] > clock
         /\ \A n \in started \ activated : fixed_done_at[n] > clock
         /\ Finishable = {}
<1>1. LoopTypeOK /\ Acceptable
  BY DEF Ind, LoopInv
<1>2. clock \in Nat
  BY <1>1 DEF LoopTypeOK
<1>3. ASSUME NEW n \in pending PROVE unit_free[UKey(n)] > clock
  <2>1. n \in Nodes /\ UKey(n) \in Servers
    BY <1>1, ServerType DEF LoopTypeOK
  <2>2. unit_free[UKey(n)] \in Nat
    BY <1>1, <2>1 DEF LoopTypeOK
  <2>3. ~(unit_free[UKey(n)] <= clock)
    BY DEF Settled, Dispatchable
  <2>. QED
    BY <1>2, <2>2, <2>3
<1>4. ASSUME NEW n \in started \ activated PROVE fixed_done_at[n] > clock
  <2>1. fixed_done_at[n] \in Nat
    BY <1>1 DEF LoopTypeOK
  <2>2. ~(fixed_done_at[n] <= clock)
    BY DEF Settled, Due
  <2>. QED
    BY <1>2, <2>1, <2>2
<1>. QED
  BY <1>3, <1>4 DEF Settled

(* The clock of run_dag never moves past an op its unit is free for, a delay *)
(* that has elapsed or an op that is over: the passes of the inner loop end   *)
(* only when nothing more can be done at this instant.                       *)
THEOREM NothingSkipped == Spec => NothingDueIsSkipped
<1>1. Init => Settled
  BY DEF Init, Settled
<1>2. Ind /\ Settled /\ [Next]_vars => Settled'
  BY SettledStep
<1>3. Ind /\ Settled /\ [Next]_vars =>
        [clock' > clock =>
           /\ \A n \in pending : unit_free[UKey(n)] > clock
           /\ \A n \in started \ activated : fixed_done_at[n] > clock
           /\ Finishable = {}]_vars
  <2>. SUFFICES ASSUME Ind, Settled, [Next]_vars, clock' > clock
                PROVE  /\ \A n \in pending : unit_free[UKey(n)] > clock
                       /\ \A n \in started \ activated : fixed_done_at[n] > clock
                       /\ Finishable = {}
    OBVIOUS
  <2>1. clock' # clock
    BY DEF Ind, LoopInv, LoopTypeOK
  <2>2. pc = "advance"
    BY <2>1, ClockMovesInDrain
  <2>. QED
    BY <2>2, NothingDueAtDrain
<1>. QED
  BY <1>1, <1>2, <1>3, LoopInvariant, PTL DEF Spec, NothingDueIsSkipped

-----------------------------------------------------------------------------
(* Sums over the streams in flight.                                          *)

(* Terms that depend only on the group x belongs to, summed group by group.  *)
LEMMA SumByGroup ==
  ASSUME NEW S, IsFiniteSet(S), NEW U, IsFiniteSet(U), NEW own, \A x \in S : own[x] \in U,
         NEW f, \A u \in U : f[u] \in Int,
         NEW g, \A x \in S : g[x] = f[own[x]],
         NEW h, \A u \in U : h[u] = f[u] * Cardinality({x \in S : own[x] = u})
  PROVE  SumOver(g, S) = SumOver(h, U)
<1> DEFINE of(T) == {x \in S : own[x] \in T}
           F == {T \in SUBSET U : SumOver(g, of(T)) = SumOver(h, T)}
<1>1. {} \in F
  <2>1. of({}) = {}
    OBVIOUS
  <2>. QED
    BY <2>1, SumEmpty
<1>2. \A u \in U : h[u] \in Int
  <2>. SUFFICES ASSUME NEW u \in U PROVE h[u] \in Int
    OBVIOUS
  <2>1. Cardinality({x \in S : own[x] = u}) \in Nat
    BY FS_Subset, FS_CardinalityType
  <2>. QED
    BY <2>1
<1>3. ASSUME NEW T \in SUBSET U, T # {}, \A u \in T : T \ {u} \in F PROVE T \in F
  <2>1. PICK u \in T : TRUE
    BY <1>3
  <2> DEFINE its == {x \in S : own[x] = u}
  <2>2. /\ of(T) \in SUBSET S /\ its \in SUBSET of(T) /\ of(T) \ its = of(T \ {u})
        /\ IsFiniteSet(of(T)) /\ IsFiniteSet(its) /\ IsFiniteSet(T)
    <3>1. of(T) \in SUBSET S /\ its \in SUBSET of(T) /\ of(T) \ its = of(T \ {u}) /\ its \in SUBSET S
      BY <2>1
    <3>. QED
      BY <3>1, FS_Subset
  <2>3. \A x \in of(T) : g[x] \in Int
    OBVIOUS
  <2>4. SumOver(g, its) = f[u] * Cardinality(its)
    <3>1. f[u] \in Int /\ \A x \in its : g[x] = f[u]
      BY <2>1
    <3> HIDE DEF its
    <3>. QED
      BY <2>2, <3>1, SumConstant
  <2>5. SumOver(g, of(T)) = SumOver(g, its) + SumOver(g, of(T \ {u}))
    <3>1. SumOver(g, of(T)) = SumOver(g, its) + SumOver(g, of(T) \ its)
      <4> HIDE DEF of, its, F
      <4>. QED
        BY <2>2, <2>3, SumDisjoint
    <3>. QED
      BY <2>2, <3>1
  <2>6. SumOver(g, of(T \ {u})) = SumOver(h, T \ {u})
    BY <1>3, <2>1
  <2>7. SumOver(h, T) = h[u] + SumOver(h, T \ {u})
    <3>1. \A y \in T : h[y] \in Int
      BY <1>2
    <3> HIDE DEF F
    <3>. QED
      BY <2>1, <2>2, <3>1, SumRemove
  <2>8. h[u] = f[u] * Cardinality(its)
    BY <2>1
  <2>9. SumOver(g, of(T)) = SumOver(h, T)
    BY <2>4, <2>5, <2>6, <2>7, <2>8
  <2>. QED
    BY <2>9
<1>4. SUBSET U \subseteq F
  <2> HIDE DEF F
  <2>. QED
    BY <1>1, <1>3, RemoveInduction
<1>5. U \in F /\ of(U) = S
  BY <1>4
<1>. QED
  BY <1>5

(* What is taken off a family of balances, some of them closed with at most  *)
(* eps each written off.                                                     *)
LEMMA DrainAccount ==
  ASSUME NEW A, IsFiniteSet(A), NEW before, NEW after, NEW moved, NEW over \in SUBSET A,
         NEW eps \in Nat,
         \A n \in A : before[n] \in Int /\ moved[n] \in Int /\ after[n] \in Int,
         \A n \in A \ over : after[n] = before[n] - moved[n],
         \A n \in over : 0 <= before[n] - moved[n] /\ before[n] - moved[n] <= eps
  PROVE  LET lost == SumOver(before, A) - SumOver(after, A \ over) - SumOver(moved, A)
         IN  0 <= lost /\ lost <= eps * Cardinality(over)
<1> DEFINE slack == [n \in A |-> before[n] - moved[n]]
<1>1. IsFiniteSet(over) /\ IsFiniteSet(A \ over)
  BY FS_Subset
<1>2. \A n \in A : slack[n] \in Int /\ before[n] = slack[n] + moved[n] /\ moved[n] \in Int
  OBVIOUS
<1>3. \A n \in A \ over : slack[n] \in Int /\ after[n] = slack[n]
  OBVIOUS
<1>4. \A n \in over : slack[n] \in Int /\ slack[n] \in Nat /\ slack[n] <= eps
  OBVIOUS
<1> HIDE DEF slack
<1>5. SumOver(before, A) = SumOver(slack, A) + SumOver(moved, A)
  BY <1>2, SumPlus
<1>6. SumOver(slack, A) = SumOver(slack, over) + SumOver(slack, A \ over)
  BY <1>2, SumDisjoint
<1>7. SumOver(slack, A \ over) = SumOver(after, A \ over)
  BY <1>1, <1>3, SumEqual
<1>8. SumOver(slack, over) \in Nat
  BY <1>1, <1>4, SumNat
<1>9. SumOver(slack, over) <= eps * Cardinality(over)
  BY <1>1, <1>4, SumBounded
<1>10. SumOver(slack, A) \in Int /\ SumOver(moved, A) \in Int /\ SumOver(slack, A \ over) \in Int
  BY <1>1, <1>2, <1>3, SumInt
<1>11. SumOver(before, A) - SumOver(after, A \ over) - SumOver(moved, A) = SumOver(slack, over)
  BY <1>5, <1>6, <1>7, <1>8, <1>10
<1>. QED
  BY <1>8, <1>9, <1>11

(* The streams in flight together draw no more than the knee.                *)
LEMMA StreamsDraw ==
  ASSUME Ind, job.contention = TRUE
  PROVE  /\ SumOver([n \in active_mem |-> Rates[owner[n]]], active_mem) <= job.bw.ceiling
         /\ job.bw.ceiling \in Nat
<1> DEFINE used == InUse(StreamsOf)
           rate == Share(job.bw, StreamsOf, job.contention)
           g == [n \in active_mem |-> Rates[owner[n]]]
           h == [u \in used |-> StreamsOf[u] * rate[u]]
<1>1. /\ IsFiniteSet(active_mem) /\ active_mem \subseteq Nodes
      /\ StreamsOf \in [Units -> Nat]
      /\ ValidChannel(job.bw) /\ job.contention \in BOOLEAN
      /\ Rates = rate
      /\ \A n \in active_mem : owner[n] \in used
      /\ IsFiniteSet(Units)
  BY StreamsOfType, UnitsAssumption
<1>2. rate \in [used -> Nat] /\ SumOver(h, used) <= job.bw.ceiling
  BY <1>1, ShareIsBounded
<1>3. used \subseteq Units /\ IsFiniteSet(used)
  BY <1>1, InUseFacts
<1>4. \A u \in used : h[u] = rate[u] * Cardinality({n \in active_mem : owner[n] = u})
  <2>. SUFFICES ASSUME NEW u \in used
                PROVE  StreamsOf[u] * rate[u] = rate[u] * Cardinality({n \in active_mem : owner[n] = u})
    OBVIOUS
  <2>1. StreamsOf[u] = Cardinality({n \in active_mem : owner[n] = u}) /\ StreamsOf[u] \in Nat
    BY <1>1, <1>3 DEF StreamsOf, Streaming
  <2>2. rate[u] \in Nat
    BY <1>2
  <2> HIDE DEF rate, used
  <2>. QED
    BY <2>1, <2>2
<1>5. \A u \in used : rate[u] \in Int
  BY <1>2
<1>6. \A n \in active_mem : g[n] = rate[owner[n]]
  BY <1>1
<1> HIDE DEF g, h, used, rate
<1>7. SumOver(g, active_mem) = SumOver(h, used)
  <2>1. IsFiniteSet(active_mem) /\ IsFiniteSet(used) /\ \A n \in active_mem : owner[n] \in used
    BY <1>1, <1>3
  <2>. QED
    BY <2>1, <1>4, <1>5, <1>6, SumByGroup
<1>8. job.bw.ceiling \in Nat
  BY <1>1 DEF ValidChannel
<1>. QED
  BY <1>2, <1>7, <1>8 DEF g

-----------------------------------------------------------------------------
(* The accounts of the streams: StreamInv is inductive on top of Ind.        *)

(* What the accounts read of a state in which the job is the same.           *)
Metered == {n \in Nodes : Dram(n)}
Begun == Metered \cap activated
Lag == SumOver(job.bytes, Begun) - SumOver(remaining, active_mem) - bytes_drained

Balanced ==
  /\ StreamBytesConserved <=>
       (job.pipeline /\ pc # "validate" =>
          0 <= Lag /\ Lag <= ByteEps * Cardinality(Begun \ active_mem))
  /\ Lag \in Int /\ SumOver(remaining, active_mem) \in Nat
  /\ IsFiniteSet(Begun) /\ IsFiniteSet(active_mem)

(* The account of the streams, once the sums are known to be integers.       *)
LEMMA AccountsAre == Ind /\ bytes_drained \in Nat => Balanced
<1>. SUFFICES ASSUME Ind, bytes_drained \in Nat PROVE Balanced
  OBVIOUS
<1>1. LoopTypeOK /\ IsJob(job)
  BY DEF Ind, LoopInv, LoopTypeOK
<1>2. active_mem \subseteq Nodes /\ \A n \in Nodes : remaining[n] \in Nat /\ job.bytes[n] \in Int
  BY <1>1, JobTypes DEF LoopTypeOK
<1>3. IsFiniteSet(Begun) /\ IsFiniteSet(active_mem) /\ Begun \subseteq Nodes
  BY <1>2, NodesAssumption, FS_Subset DEF Begun, Metered
<1>4. SumOver(job.bytes, Begun) \in Int
  BY <1>2, <1>3, SumInt
<1>5. SumOver(remaining, active_mem) \in Nat
  <2>1. \A n \in active_mem : remaining[n] \in Nat
    BY <1>2
  <2>. QED
    BY <1>3, <2>1, SumNat
<1>6. Lag \in Int
  BY <1>4, <1>5 DEF Lag
<1>7. StreamBytesConserved <=>
        (job.pipeline /\ pc # "validate" =>
           /\ bytes_drained <= SumOver(job.bytes, Begun) - SumOver(remaining, active_mem)
           /\ SumOver(job.bytes, Begun) - SumOver(remaining, active_mem) - bytes_drained
                <= ByteEps * Cardinality(Begun \ active_mem))
  BY DEF StreamBytesConserved, Begun, Metered
<1>. QED
  BY <1>3, <1>4, <1>5, <1>6, <1>7 DEF Lag, Balanced

(* A step that leaves the streams alone leaves their accounts alone.         *)
LEMMA AccountsFrame ==
  ASSUME Ind, StreamInv, job' = job, pc # "validate", pc' # "validate",
         job.pipeline, UNCHANGED <<activated, active_mem, remaining, bytes_drained, mem_active_us>>,
         StreamOwners'
  PROVE  StreamInv'
<1>1. StreamBytesConserved'
  BY JobFrame DEF StreamInv, StreamBytesConserved
<1>2. AchievedWithinKnee'
  BY DEF StreamInv, AchievedWithinKnee
<1>. QED
  BY <1>1, <1>2 DEF StreamInv

(* A step that touches neither the streams nor their owners.                 *)
LEMMA OwnersFrame ==
  ASSUME StreamOwners, job' = job, UNCHANGED <<started, owner>>, active_mem' \subseteq active_mem
  PROVE  StreamOwners'
BY JobFrame DEF StreamOwners, StreamOwner

(* No stream has been opened at the start.                                   *)
LEMMA InitStream == Init => StreamInv
<1>. SUFFICES ASSUME Init PROVE StreamInv
  OBVIOUS
<1>1. Ind
  BY InitInd
<1>2. job.bw.ceiling \in Nat
  BY <1>1 DEF Ind, LoopInv, LoopTypeOK, IsJob, ValidChannel
<1>3. AchievedWithinKnee
  BY <1>2 DEF Init, AchievedWithinKnee
<1>. QED
  BY <1>3 DEF Init, StreamInv, StreamOwners, StreamBytesConserved

(* The streams that open are Dram streams, none of them open already.        *)
LEMMA ActivateStream == ASSUME Ind, StreamInv, Activate, Ind' PROVE StreamInv'
<1> DEFINE due == Due
           opened == Opened(Due)
<1>1. /\ pc = "activate" /\ pc' = "finish" /\ job' = job
      /\ activated' = activated \cup due
      /\ active_mem' = active_mem \cup opened
      /\ remaining' = [n \in Nodes |-> IF n \in opened THEN job.bytes[n] ELSE remaining[n]]
      /\ UNCHANGED <<started, owner, bytes_drained, mem_active_us>>
  BY DEF Activate, stats
<1>2. LoopTypeOK /\ IsJob(job)
  BY DEF Ind, LoopInv, LoopTypeOK
<1>3. /\ due \subseteq Nodes /\ due \cap activated = {} /\ active_mem \subseteq activated
      /\ opened = due \cap Metered /\ activated \subseteq Nodes
  BY <1>2 DEF LoopTypeOK, Due, Opened, Metered
<1>4. Metered' = Metered
  BY <1>1, JobFrame DEF Metered
<1> HIDE DEF due, opened
<1>5. /\ Begun' = Begun \cup opened /\ Begun \cap opened = {} /\ active_mem \cap opened = {}
      /\ Begun' \ active_mem' = Begun \ active_mem
  BY <1>1, <1>3, <1>4 DEF Begun
<1>6. \A n \in Nodes : job.bytes[n] \in Int /\ remaining[n] \in Int /\ remaining'[n] \in Int
  BY <1>1, <1>2, JobTypes DEF LoopTypeOK
<1>7. IsFiniteSet(Begun') /\ IsFiniteSet(active_mem') /\ IsFiniteSet(active_mem)
      /\ Begun' \subseteq Nodes /\ active_mem' \subseteq Nodes /\ opened \subseteq Nodes
      /\ active_mem \subseteq Nodes
  <2>1. Begun' \subseteq Nodes /\ active_mem' \subseteq Nodes /\ active_mem \subseteq Nodes /\ opened \subseteq Nodes
    BY <1>1, <1>3, <1>4 DEF Begun
  <2>. QED
    BY <2>1, NodesAssumption, FS_Subset
<1>8. SumOver(job.bytes, Begun') = SumOver(job.bytes, Begun) + SumOver(job.bytes, opened)
  <2>1. Begun' \ Begun = opened /\ Begun \in SUBSET (Begun')
    BY <1>5
  <2>2. \A n \in Begun' : job.bytes[n] \in Int
    BY <1>6, <1>7
  <2>3. SumOver(job.bytes, Begun') = SumOver(job.bytes, Begun) + SumOver(job.bytes, Begun' \ Begun)
    BY <1>7, <2>1, <2>2, SumDisjoint
  <2>. QED
    BY <2>1, <2>3
<1>9. SumOver(remaining', active_mem') = SumOver(remaining, active_mem) + SumOver(job.bytes, opened)
  <2>1. active_mem' \ active_mem = opened /\ active_mem \in SUBSET (active_mem')
    BY <1>1, <1>5
  <2>2. \A n \in active_mem' : remaining'[n] \in Int
    BY <1>6, <1>7
  <2>3. SumOver(remaining', active_mem')
          = SumOver(remaining', active_mem) + SumOver(remaining', active_mem' \ active_mem)
    BY <1>7, <2>1, <2>2, SumDisjoint
  <2>4. SumOver(remaining, active_mem) = SumOver(remaining', active_mem)
    <3>1. \A n \in active_mem : remaining[n] \in Int /\ remaining'[n] = remaining[n]
      BY <1>1, <1>5, <1>6, <1>7
    <3>. QED
      BY <1>7, <3>1, SumEqual
  <2>5. SumOver(job.bytes, opened) = SumOver(remaining', opened)
    <3>1. \A n \in opened : job.bytes[n] \in Int /\ remaining'[n] = job.bytes[n]
      BY <1>1, <1>6, <1>7
    <3>2. IsFiniteSet(opened)
      BY <1>7, NodesAssumption, FS_Subset
    <3>. QED
      BY <3>1, <3>2, SumEqual
  <2>. QED
    BY <2>1, <2>3, <2>4, <2>5
<1>10. Lag' = Lag
  <2>1. SumOver(job.bytes, opened) \in Int /\ SumOver(job.bytes, Begun) \in Int
        /\ SumOver(remaining, active_mem) \in Int
    <3>1. IsFiniteSet(opened) /\ IsFiniteSet(Begun) /\ Begun \subseteq Nodes
      BY <1>5, <1>7, NodesAssumption, FS_Subset
    <3>2. \A n \in Nodes : job.bytes[n] \in Int /\ remaining[n] \in Int
      BY <1>6
    <3>. QED
      BY <1>7, <3>1, <3>2, SumInt
  <2>2. bytes_drained \in Int
    BY DEF StreamInv
  <2>. QED
    BY <1>1, <1>8, <1>9, <2>1, <2>2 DEF Lag
<1>11. bytes_drained \in Nat /\ bytes_drained' \in Nat /\ StreamBytesConserved
  BY <1>1 DEF StreamInv
<1>12. StreamBytesConserved'
  <2>1. job.pipeline /\ pc # "validate" =>
          0 <= Lag /\ Lag <= ByteEps * Cardinality(Begun \ active_mem)
    BY <1>11, AccountsAre DEF Balanced
  <2>2. StreamBytesConserved' <=>
          (job'.pipeline /\ pc' # "validate" =>
             0 <= Lag' /\ Lag' <= ByteEps * Cardinality(Begun' \ active_mem'))
    <3>1. (Ind /\ bytes_drained \in Nat => Balanced)'
      BY AccountsAre, PTL
    <3>2. Balanced'
      BY <1>11, <3>1
    <3>. QED
      BY <3>2 DEF Balanced
  <2>. QED
    BY <1>1, <1>5, <1>10, <2>1, <2>2
<1>13. StreamOwners'
  <2>1. \A n \in opened : Dram(n)
    BY <1>3 DEF Metered
  <2>2. \A n \in active_mem : Dram(n)
    BY DEF StreamInv, StreamOwners
  <2>3. \A n : Dram(n)' = Dram(n)
    BY <1>1, JobFrame
  <2>. QED
    BY <1>1, <2>1, <2>2, <2>3 DEF StreamInv, StreamOwners, StreamOwner
<1>14. AchievedWithinKnee'
  BY <1>1 DEF StreamInv, AchievedWithinKnee
<1>. QED
  BY <1>1, <1>11, <1>12, <1>13, <1>14 DEF StreamInv

(* The drain: what the streams lose is what is counted, but for the tails of *)
(* at most _BYTE_EPS that are written off, and no more than the knee lets    *)
(* through in the time.                                                      *)
LEMMA DrainStream ==
  ASSUME Ind, StreamInv, pc = "advance", ~Stalled, Drain, Ind' PROVE StreamInv'
<1> DEFINE nxt == Min(EventDistances)
           drained == [n \in active_mem |-> nxt * Rates[owner[n]]]
           left == [n \in Nodes |-> IF n \in active_mem THEN remaining[n] - drained[n]
                                                        ELSE remaining[n]]
           over == {n \in active_mem : left[n] <= ByteEps}
           moved == [n \in active_mem |-> Lesser(drained[n], remaining[n])]
           alone == [n \in active_mem |-> Rates[owner[n]]]
<1>1. /\ pc = "advance" /\ pc' = "settle" /\ job' = job /\ clock' = clock + nxt
      /\ mem_active_us' = IF active_mem = {} THEN mem_active_us ELSE mem_active_us + nxt
      /\ bytes_drained' = bytes_drained + SumOver(moved, active_mem)
      /\ active_mem' = active_mem \ over
      /\ remaining' = [n \in Nodes |-> IF n \in over THEN 0 ELSE left[n]]
      /\ UNCHANGED <<started, activated, owner>>
  BY DEF Drain
<1>2. LoopTypeOK /\ LoopTypeOK' /\ IsJob(job)
  BY DEF Ind, LoopInv, LoopTypeOK
<1>3. nxt \in Nat /\ nxt > 0
  BY <1>1, NextEventType
<1>4. /\ active_mem \subseteq Nodes /\ IsFiniteSet(active_mem)
      /\ \A n \in active_mem : remaining[n] \in Nat /\ remaining'[n] \in Nat
      /\ ByteEps \in Nat
  <2>1. active_mem \subseteq Nodes /\ \A n \in active_mem : remaining[n] \in Nat /\ remaining'[n] \in Nat
    BY <1>2 DEF LoopTypeOK
  <2>. QED
    BY <2>1, CardOfSubset, ByteEpsAssumption
<1>5. \A n \in active_mem : Rates[owner[n]] \in Nat /\ drained[n] \in Nat
  <2>. SUFFICES ASSUME NEW n \in active_mem PROVE Rates[owner[n]] \in Nat /\ drained[n] \in Nat
    OBVIOUS
  <2>1. Rates[owner[n]] \in Nat
    BY RateType
  <2>. QED
    BY <1>3, <2>1, ProductNat
<1> HIDE DEF nxt
<1>6. \A n \in active_mem : /\ alone[n] \in Int /\ drained[n] \in Int /\ drained[n] = nxt * alone[n]
  BY <1>5
<1> HIDE DEF drained, alone
<1>7. \A n \in active_mem :
        /\ moved[n] \in Nat /\ moved[n] <= drained[n]
        /\ n \in over => 0 <= remaining[n] - moved[n] /\ remaining[n] - moved[n] <= ByteEps
        /\ n \notin over => remaining'[n] = remaining[n] - moved[n]
  <2>. SUFFICES ASSUME NEW n \in active_mem
                PROVE  /\ moved[n] \in Nat /\ moved[n] <= drained[n]
                       /\ n \in over => 0 <= remaining[n] - moved[n] /\ remaining[n] - moved[n] <= ByteEps
                       /\ n \notin over => remaining'[n] = remaining[n] - moved[n]
    OBVIOUS
  <2>1. n \in Nodes /\ left[n] = remaining[n] - drained[n] /\ moved[n] = Lesser(drained[n], remaining[n])
        /\ remaining[n] \in Nat /\ drained[n] \in Nat /\ (n \in over <=> left[n] <= ByteEps)
    BY <1>4, <1>5
  <2>2. n \notin over => remaining'[n] = left[n]
    BY <1>1, <2>1
  <2> HIDE DEF left, over, moved
  <2>. QED
    BY <1>4, <2>1, <2>2 DEF Lesser
<1>8. over \in SUBSET active_mem /\ IsFiniteSet(over) /\ Cardinality(over) \in Nat
  BY <1>4, FS_Subset, FS_CardinalityType
<1>9. IsFiniteSet(active_mem') /\ active_mem' \subseteq active_mem
  BY <1>1, <1>4, FS_Subset
<1> HIDE DEF moved, over, left
<1>10. SumOver(moved, active_mem) \in Nat
  BY <1>4, <1>7, SumNat
<1>11. bytes_drained \in Nat /\ bytes_drained' \in Nat /\ mem_active_us \in Nat /\ mem_active_us' \in Nat
  BY <1>1, <1>3, <1>10 DEF StreamInv
<1>12. Begun' = Begun
  BY <1>1, JobFrame DEF Begun, Metered
<1> DEFINE lost == SumOver(remaining, active_mem) - SumOver(remaining', active_mem')
                     - SumOver(moved, active_mem)
<1>13. 0 <= lost /\ lost <= ByteEps * Cardinality(over)
  <2>1. \A n \in active_mem : remaining[n] \in Int /\ moved[n] \in Int /\ remaining'[n] \in Int
    BY <1>4, <1>7
  <2>2. \A n \in active_mem \ over : remaining'[n] = remaining[n] - moved[n]
    BY <1>7
  <2>3. \A n \in over : 0 <= remaining[n] - moved[n] /\ remaining[n] - moved[n] <= ByteEps
    BY <1>7, <1>8
  <2>4. LET gone == SumOver(remaining, active_mem) - SumOver(remaining', active_mem \ over)
                      - SumOver(moved, active_mem)
        IN  0 <= gone /\ gone <= ByteEps * Cardinality(over)
    BY <1>4, <1>8, <2>1, <2>2, <2>3, DrainAccount
  <2>. QED
    BY <1>1, <2>4
<1>14. /\ SumOver(remaining, active_mem) \in Int /\ SumOver(remaining', active_mem') \in Int
       /\ SumOver(job.bytes, Begun) \in Int
  <2>1. IsFiniteSet(Begun) /\ \A n \in Begun : job.bytes[n] \in Int
    BY <1>2, <1>11, AccountsAre, JobTypes DEF Begun, Metered, Balanced
  <2>2. (\A n \in active_mem : remaining[n] \in Int) /\ \A n \in active_mem' : remaining'[n] \in Int
    BY <1>4, <1>9
  <2>. QED
    BY <1>4, <1>9, <2>1, <2>2, SumInt
<1>15. Lag' = Lag + lost /\ Lag \in Int /\ lost \in Int
  BY <1>1, <1>10, <1>11, <1>12, <1>14 DEF Lag
<1> HIDE DEF lost
<1>16. StreamBytesConserved'
  <2>1. job.pipeline => 0 <= Lag /\ Lag <= ByteEps * Cardinality(Begun \ active_mem)
    BY <1>1, <1>11, AccountsAre DEF StreamInv, Balanced
  <2>2. StreamBytesConserved' <=>
          (job'.pipeline /\ pc' # "validate" =>
             0 <= Lag' /\ Lag' <= ByteEps * Cardinality(Begun' \ active_mem'))
    <3>1. (Ind /\ bytes_drained \in Nat => Balanced)'
      BY AccountsAre, PTL
    <3>2. Balanced'
      BY <1>11, <3>1
    <3>. QED
      BY <3>2 DEF Balanced
  <2>3. /\ Cardinality(Begun \ active_mem') = Cardinality(Begun \ active_mem) + Cardinality(over)
        /\ Cardinality(Begun \ active_mem) \in Nat
    <3>1. active_mem \subseteq Begun
      BY <1>2 DEF StreamInv, StreamOwners, Begun, Metered, LoopTypeOK
    <3>2. /\ Begun \ active_mem' = (Begun \ active_mem) \cup over
          /\ (Begun \ active_mem) \cap over = {}
      BY <1>1, <1>8, <3>1
    <3>3. IsFiniteSet(Begun \ active_mem)
      BY <1>11, AccountsAre, FS_Subset DEF Balanced
    <3>4. Cardinality((Begun \ active_mem) \cup over)
            = Cardinality(Begun \ active_mem) + Cardinality(over) - Cardinality({})
      BY <1>8, <3>2, <3>3, FS_Union
    <3>5. Cardinality(Begun \ active_mem) \in Nat /\ Cardinality({}) = 0
      BY <3>3, FS_CardinalityType, FS_EmptySet
    <3>6. Cardinality(Begun \ active_mem') = Cardinality((Begun \ active_mem) \cup over)
      BY <3>2
    <3>. QED
      BY <1>8, <3>4, <3>5, <3>6
  <2>4. ByteEps * Cardinality(Begun \ active_mem')
          = ByteEps * Cardinality(Begun \ active_mem) + ByteEps * Cardinality(over)
    <3> DEFINE a == Cardinality(Begun \ active_mem)
               b == Cardinality(over)
    <3>1. a \in Nat /\ b \in Nat
      BY <1>8, <2>3
    <3> HIDE DEF a, b
    <3>2. ByteEps * (a + b) = ByteEps * a + ByteEps * b
      BY <1>4, <3>1
    <3>. QED
      BY <2>3, <3>2 DEF a, b
  <2>5. ByteEps * Cardinality(Begun \ active_mem) \in Int /\ ByteEps * Cardinality(over) \in Int
    BY <1>4, <1>8, <2>3
  <2>. QED
    BY <1>1, <1>12, <1>13, <1>15, <2>1, <2>2, <2>4, <2>5
<1>17. AchievedWithinKnee'
  <2>1. SUFFICES ASSUME job.contention = TRUE \/ job.pipeline = FALSE
                 PROVE  bytes_drained' <= job.bw.ceiling * mem_active_us'
    BY <1>1, <1>2, JobTypes DEF AchievedWithinKnee
  <2>2. job.contention = TRUE
    BY <1>1, <1>2, <2>1, JobTypes DEF StreamInv
  <2>3. bytes_drained <= job.bw.ceiling * mem_active_us
    BY <2>2 DEF StreamInv, AchievedWithinKnee
  <2>4. SumOver(alone, active_mem) <= job.bw.ceiling /\ job.bw.ceiling \in Nat
    BY <2>2, StreamsDraw DEF alone
  <2>5. SumOver(moved, active_mem) <= nxt * job.bw.ceiling
    <3>1. SumOver(moved, active_mem) <= SumOver(drained, active_mem)
      <4>1. \A n \in active_mem : moved[n] \in Int /\ drained[n] \in Int /\ moved[n] <= drained[n]
        BY <1>6, <1>7
      <4>. QED
        BY <1>4, <4>1, SumMonotone
    <3>2. SumOver(drained, active_mem) = nxt * SumOver(alone, active_mem)
      <4>1. nxt \in Int
        BY <1>3
      <4>. QED
        BY <1>4, <1>6, <4>1, SumScaled
    <3>3. SumOver(alone, active_mem) \in Int
      BY <1>4, <1>6, SumInt
    <3>4. nxt * SumOver(alone, active_mem) <= nxt * job.bw.ceiling
      BY <1>3, <2>4, <3>3
    <3>5. nxt * SumOver(alone, active_mem) \in Int /\ nxt * job.bw.ceiling \in Int
      BY <1>3, <2>4, <3>3
    <3>. QED
      BY <1>10, <3>1, <3>2, <3>4, <3>5
  <2>6. CASE active_mem = {}
    <3>1. SumOver(moved, active_mem) = 0
      BY <2>6, SumEmpty
    <3>. QED
      BY <1>1, <1>11, <2>3, <2>6, <3>1
  <2>7. CASE active_mem # {}
    <3>1. mem_active_us' = mem_active_us + nxt
      BY <1>1, <2>7
    <3>2. job.bw.ceiling * (mem_active_us + nxt) = job.bw.ceiling * mem_active_us + nxt * job.bw.ceiling
      BY <1>3, <1>11, <2>4
    <3>3. job.bw.ceiling * mem_active_us \in Int /\ nxt * job.bw.ceiling \in Int
      BY <1>3, <1>11, <2>4
    <3>. QED
      BY <1>1, <1>10, <1>11, <2>3, <2>5, <3>1, <3>2, <3>3
  <2>. QED
    BY <2>6, <2>7
<1>18. StreamOwners'
  BY <1>1, <1>9, OwnersFrame DEF StreamInv
<1>. QED
  BY <1>1, <1>11, <1>16, <1>17, <1>18 DEF StreamInv

(* The first step of a call: nothing has been on the channel yet.            *)
LEMMA EnterStream ==
  ASSUME Ind, StreamInv, pc = "validate", pc' # "validate", UNCHANGED <<job, run, stats>>,
         job.pipeline \/ pc' = "rejected"
  PROVE  StreamInv'
<1>1. /\ started' = {} /\ activated' = {} /\ active_mem' = {} /\ bytes_drained' = 0
      /\ mem_active_us' \in Nat /\ mem_active_us' = mem_active_us /\ bytes_drained' = bytes_drained
      /\ job' = job
  BY DEF Ind, LoopInv, LoopTypeOK, StreamInv, run, stats
<1>2. StreamBytesConserved'
  <2>1. \A S : (S \cap {}) \ {} = {}
    OBVIOUS
  <2>2. /\ SumOver(job'.bytes, {}) = 0 /\ SumOver(remaining', {}) = 0
        /\ ByteEps * Cardinality({}) = 0
    BY SumEmpty, FS_EmptySet, ByteEpsAssumption
  <2>. QED
    BY <1>1, <2>1, <2>2 DEF StreamBytesConserved
<1>3. AchievedWithinKnee'
  BY <1>1 DEF StreamInv, AchievedWithinKnee
<1>. QED
  BY <1>1, <1>2, <1>3 DEF StreamInv, StreamOwners

(* Op after op, each stream takes at least its bytes divided by the knee.    *)
LEMMA StreamAloneFacts ==
  ASSUME IsJob(job), Acceptable, NEW n \in Nodes, Dram(n)
  PROVE  /\ job.bytes[n] \in Nat /\ StreamAlone(n) \in Nat
         /\ job.bytes[n] <= job.bw.ceiling * StreamAlone(n)
<1> DEFINE b == job.bytes[n]
           p == PerStream(job.bw, 1, TRUE)
           c == (b + p - 1) \div p
<1>1. /\ ValidChannel(job.bw) /\ b \in Nat /\ b > 0
      /\ job.bw.eff \in Nat /\ job.bw.eff > 0 /\ job.bw.ceiling \in Nat /\ job.bw.ceiling > 0
  BY DEF IsJob, ValidChannel, Acceptable, Dram
<1>2. p = Lesser(job.bw.eff, job.bw.ceiling)
  BY <1>1, AloneIs
<1>3. p \in Nat /\ p > 0 /\ p <= job.bw.ceiling
  <2> HIDE DEF p, b, c
  <2>. QED
    BY <1>1, <1>2 DEF Lesser
<1> HIDE DEF p
<1>4. c \in Int /\ b + p - 1 < c * p + p /\ c * p \in Int
  BY <1>1, <1>3, DivFacts
<1>5. 0 <= c
  <2>1. 0 * p <= b + p - 1
    BY <1>1, <1>3
  <2>. QED
    BY <1>1, <1>3, <2>1, DivGreatest
<1>6. StreamAlone(n) = c
  <2>1. ~(b <= 0)
    <3> HIDE DEF b
    <3>. QED
      BY <1>1
  <2>2. StreamTime(job.bw, b) = CeilDiv(b, p)
    <3> HIDE DEF b
    <3>. QED
      BY <2>1 DEF StreamTime, p
  <2>. QED
    BY <2>2 DEF StreamAlone, CeilDiv
<1> HIDE DEF c, b
<1>7. b <= c * p
  BY <1>1, <1>3, <1>4
<1>8. c * p <= job.bw.ceiling * c /\ job.bw.ceiling * c \in Int
  BY <1>1, <1>3, <1>4, <1>5
<1>9. b <= job.bw.ceiling * c
  BY <1>1, <1>4, <1>7, <1>8
<1>. QED
  BY <1>1, <1>4, <1>5, <1>6, <1>9 DEF b

(* The serial ablation meters every dram stream in full, within the knee.    *)
LEMMA SerialStream == ASSUME Ind, StreamInv, RunSerial PROVE StreamInv'
<1> DEFINE took == [n \in Nodes |-> StreamAlone(n)]
           scaled == [n \in Nodes |-> job.bw.ceiling * StreamAlone(n)]
<1>1. /\ ~job.pipeline /\ Acceptable /\ pc' = "returned" /\ job' = job
      /\ bytes_drained' = SumOver(job.bytes, Metered)
      /\ mem_active_us' = SumOver(took, Metered)
      /\ UNCHANGED <<started, owner, active_mem>>
  BY DEF RunSerial, Metered
<1>2. IsJob(job) /\ Metered \subseteq Nodes /\ IsFiniteSet(Metered) /\ job.bw.ceiling \in Nat
  <2>1. IsJob(job) /\ Metered \subseteq Nodes
    BY DEF Ind, LoopInv, LoopTypeOK, Metered
  <2>. QED
    BY <2>1, NodesAssumption, FS_Subset DEF IsJob, ValidChannel
<1>3. \A n \in Metered : /\ job.bytes[n] \in Nat /\ StreamAlone(n) \in Nat
                         /\ job.bytes[n] <= job.bw.ceiling * StreamAlone(n)
  BY <1>1, <1>2, StreamAloneFacts DEF Metered
<1>4. \A n \in Metered : /\ took[n] \in Nat /\ took[n] \in Int /\ job.bytes[n] \in Int
                         /\ scaled[n] = job.bw.ceiling * took[n] /\ scaled[n] \in Int
                         /\ job.bytes[n] <= scaled[n]
  BY <1>2, <1>3
<1> HIDE DEF took, scaled
<1>5. bytes_drained' \in Nat /\ mem_active_us' \in Nat
  BY <1>1, <1>2, <1>3, <1>4, SumNat
<1>6. bytes_drained' <= job.bw.ceiling * mem_active_us'
  <2>1. SumOver(job.bytes, Metered) <= SumOver(scaled, Metered)
    BY <1>2, <1>4, SumMonotone
  <2>2. SumOver(scaled, Metered) = job.bw.ceiling * SumOver(took, Metered)
    BY <1>2, <1>4, SumScaled
  <2>. QED
    BY <1>1, <2>1, <2>2
<1>7. StreamOwners'
  BY <1>1, OwnersFrame DEF StreamInv
<1>. QED
  BY <1>1, <1>5, <1>6, <1>7 DEF StreamInv, StreamBytesConserved, AchievedWithinKnee

(* A dispatch notes whose cap the stream will count against.                 *)
LEMMA DispatchOwners == ASSUME Ind, StreamInv, NEW n \in Nodes, Dispatch(n) PROVE StreamOwners'
<1>1. /\ job' = job /\ started' = started \cup {n} /\ active_mem' = active_mem
      /\ owner' = [owner EXCEPT ![n] = StreamOwner(n)]
  BY DEF Dispatch
<1>2. owner \in [Nodes -> Units] /\ started \subseteq Nodes
  BY DEF Ind, LoopInv, LoopTypeOK
<1>3. \A m \in started' : owner'[m] = StreamOwner(m)
  BY <1>1, <1>2 DEF StreamInv, StreamOwners
<1>4. \A m : StreamOwner(m)' = StreamOwner(m)
  BY <1>1 DEF StreamOwner
<1>5. \A m \in active_mem' : Dram(m)'
  BY <1>1, JobFrame DEF StreamInv, StreamOwners
<1>. QED
  BY <1>3, <1>4, <1>5 DEF StreamOwners

(* Every step of the call preserves the accounts.                            *)
LEMMA NextStream == Ind /\ StreamInv /\ [Next]_vars => StreamInv'
<1>. SUFFICES ASSUME Ind, StreamInv, [Next]_vars PROVE StreamInv'
  OBVIOUS
<1>1. Ind'
  BY NextInd
<1>2. /\ StreamOwners
      /\ job.pipeline \/ pc \in {"validate", "rejected", "returned"}
  BY DEF StreamInv
<1>3. CASE Reject
  BY <1>3, EnterStream DEF Reject
<1>4. CASE EnterLoop
  BY <1>4, EnterStream DEF EnterLoop
<1>5. CASE RunSerial
  BY <1>5, SerialStream
<1>6. ASSUME NEW n \in Nodes, Dispatch(n) PROVE StreamInv'
  <2>1. /\ job' = job /\ pc = "dispatch" /\ pc' = pc
        /\ UNCHANGED <<activated, active_mem, remaining, bytes_drained, mem_active_us>>
    BY <1>6 DEF Dispatch
  <2>2. StreamOwners'
    BY <1>6, DispatchOwners
  <2>. QED
    BY <1>2, <2>1, <2>2, AccountsFrame
<1>7. CASE Activate
  BY <1>1, <1>7, ActivateStream
<1>8. CASE Finish \/ Settle
  <2>1. /\ job' = job /\ pc \in {"finish", "settle"} /\ pc' # "validate"
        /\ UNCHANGED <<started, owner, activated, active_mem, remaining, bytes_drained, mem_active_us>>
    BY <1>8 DEF Finish, Settle, FinishAll, AfterPass, stats
  <2>. QED
    BY <1>2, <2>1, AccountsFrame, OwnersFrame
<1>9. CASE pc = "advance" /\ ~Stalled /\ Drain
  BY <1>1, <1>9, DrainStream
<1>10. CASE EndDispatch \/ (pc = "advance" /\ Stalled /\ Stall) \/ Return
  <2>1. /\ job' = job /\ pc \in {"dispatch", "advance", "exit"} /\ pc' # "validate"
        /\ UNCHANGED <<started, owner, activated, active_mem, remaining, bytes_drained, mem_active_us>>
    BY <1>10 DEF EndDispatch, Stall, Return, run, stats
  <2>. QED
    BY <1>2, <2>1, AccountsFrame, OwnersFrame
<1>11. CASE UNCHANGED vars
  <2>1. UNCHANGED <<job, pc, run, stats>>
    BY <1>11 DEF vars
  <2>2. StreamBytesConserved' /\ AchievedWithinKnee'
    BY <2>1, JobFrame DEF StreamInv, StreamBytesConserved, AchievedWithinKnee, run, stats
  <2>3. StreamOwners'
    BY <1>2, <2>1, OwnersFrame DEF run
  <2>. QED
    BY <2>1, <2>2, <2>3 DEF StreamInv, run, stats
<1>. QED
  BY <1>3, <1>4, <1>5, <1>6, <1>7, <1>8, <1>9, <1>10, <1>11 DEF Next, Advance

(* The accounts of the streams balance in every state of every call.         *)
THEOREM StreamInvariant == Spec => []StreamInv
<1>1. Ind /\ StreamInv /\ [Next]_vars => StreamInv'
  BY NextStream
<1>. QED
  BY InitStream, LoopInvariant, <1>1, PTL DEF Spec

(* An op that has finished has had its whole stream, up to _BYTE_EPS: what   *)
(* was drained, is in flight and is still to come is all the metered         *)
(* traffic, on every graph, channel and order of dispatch.                   *)
THEOREM BytesConserved == Spec => []StreamBytesConserved
<1>1. StreamInv => StreamBytesConserved
  BY DEF StreamInv
<1>. QED
  BY StreamInvariant, <1>1, PTL

(* The bandwidth the runner reports never exceeds knee *                     *)
(* interconnect_efficiency, whatever streams share the channel.              *)
THEOREM KneeRespected == Spec => []AchievedWithinKnee
<1>1. StreamInv => AchievedWithinKnee
  BY DEF StreamInv
<1>. QED
  BY StreamInvariant, <1>1, PTL

-----------------------------------------------------------------------------
(* The cap of a unit holds for all the streams that end in it.               *)
Feeding(u) ==
  {n \in active_mem :
     job.unit[n] = u \/ (job.unit[n] = Mem /\ {job.unit[m] : m \in Successors(job.deps, n)} = {u})}

(* The stream of a mem node that feeds one unit only counts against it.      *)
LEMMA FeedingOwner ==
  ASSUME Ind, StreamInv, NEW u \in Units \ {Mem}, NEW n \in Feeding(u)
  PROVE  n \in active_mem /\ owner[n] = u
<1>1. n \in active_mem /\ owner[n] = StreamOwner(n)
  BY DEF Feeding, Ind, LoopInv, LoopTypeOK, StreamInv, StreamOwners
<1>2. CASE job.unit[n] # Mem
  <2>1. job.unit[n] = u
    BY <1>2 DEF Feeding
  <2>2. StreamOwner(n) = job.unit[n]
    BY <1>2, Zenon DEF StreamOwner
  <2>. QED
    BY <1>1, <2>1, <2>2
<1>3. CASE job.unit[n] = Mem
  <2> DEFINE succ == Successors(job.deps, n)
             consumers == {m \in succ : job.unit[m] # Mem}
  <2>1. {job.unit[m] : m \in succ} = {u}
    BY <1>3 DEF Feeding
  <2>2. consumers = succ /\ consumers # {} /\ \A m \in consumers : job.unit[m] = u
    BY <2>1
  <2>3. StreamOwner(n) = job.unit[Min(consumers)]
    BY <1>3, <2>2, Zenon DEF StreamOwner
  <2>4. consumers \subseteq Nodes
    BY DEF Successors, Ind, LoopInv, LoopTypeOK, IsJob
  <2>5. Min(consumers) \in consumers
    <3> HIDE DEF consumers
    <3>1. consumers \in SUBSET Int /\ 0 \in Int /\ \A x \in consumers : 0 <= x
      BY <2>4, NodesAssumption
    <3>. QED
      BY <2>2, <3>1, MinOfIntegers
  <2>. QED
    BY <1>1, <2>2, <2>3, <2>5
<1>. QED
  BY <1>2, <1>3

(* Over a drain.                                                             *)
LEMMA DrainWithinCap ==
  ASSUME Ind, StreamInv, pc = "advance", ~Stalled, Drain, Ind',
         job.bw.capped = TRUE, job.contention = TRUE, NEW u \in Units \ {Mem}
  PROVE  SumOver(remaining, Feeding(u)) - SumOver(remaining', Feeding(u))
           <= (clock' - clock) * UnitCap(job.bw, u) + ByteEps * Cardinality(Feeding(u))
<1> DEFINE nxt == Min(EventDistances)
           its == Feeding(u)
           rate == Rates[u]
           most == [n \in its |-> nxt * rate + ByteEps]
           lost == [n \in its |-> remaining[n] - remaining'[n]]
           left == [n \in Nodes |-> IF n \in active_mem THEN remaining[n] - nxt * Rates[owner[n]]
                                                        ELSE remaining[n]]
           over == {n \in active_mem : left[n] <= ByteEps}
<1>1. /\ clock' = clock + nxt /\ \A n \in active_mem : n \in Nodes /\ remaining[n] \in Nat
      /\ remaining' = [n \in Nodes |-> IF n \in over THEN 0 ELSE left[n]]
      /\ clock \in Nat /\ IsFiniteSet(active_mem) /\ ByteEps \in Nat
      /\ \A n \in Nodes : remaining'[n] \in Nat
  <2>1. /\ clock' = clock + nxt
        /\ remaining' = [n \in Nodes |-> IF n \in over THEN 0 ELSE left[n]]
    BY DEF Drain
  <2>2. LoopTypeOK /\ LoopTypeOK'
    BY DEF Ind, LoopInv
  <2>3. clock \in Nat /\ (\A n \in active_mem : n \in Nodes /\ remaining[n] \in Nat)
        /\ \A n \in Nodes : remaining'[n] \in Nat
    BY <2>2 DEF LoopTypeOK
  <2>. QED
    BY <2>1, <2>3, StreamsOfType, ByteEpsAssumption
<1>2. nxt \in Nat
  BY NextEventType
<1>3. its \subseteq active_mem /\ IsFiniteSet(its) /\ Cardinality(its) \in Nat
  <2>1. its \subseteq active_mem
    BY DEF Feeding
  <2>. QED
    BY <1>1, <2>1, FS_Subset, FS_CardinalityType
<1>4. \A n \in its : owner[n] = u
  BY FeedingOwner
<1> HIDE DEF nxt, its
<1>5. CASE its = {}
  <2>1. SumOver(remaining, its) = 0 /\ SumOver(remaining', its) = 0 /\ Cardinality(its) = 0
    BY <1>5, SumEmpty, FS_EmptySet
  <2>2. UnitCap(job.bw, u) \in Nat
    BY StreamsOfType, UnitCapNat
  <2>3. (clock' - clock) * UnitCap(job.bw, u) \in Nat
    <3>1. clock' - clock = nxt
      BY <1>1, <1>2
    <3>. QED
      BY <1>2, <2>2, <3>1, ProductNat
  <2>. QED
    BY <1>1, <2>1, <2>3 DEF its
<1>6. CASE its # {}
  <2>1. u \in InUse(StreamsOf) /\ StreamsOf[u] \in Nat /\ Cardinality(its) <= StreamsOf[u]
    <3>1. PICK n \in its : TRUE
      BY <1>6
    <3>2. u \in InUse(StreamsOf)
      BY <1>3, <1>4, <3>1, StreamsOfType
    <3>3. its \subseteq Streaming(u) /\ IsFiniteSet(Streaming(u)) /\ StreamsOf[u] = Cardinality(Streaming(u))
      BY <1>3, <1>4, StreamsOfType DEF Streaming, StreamsOf
    <3>4. Cardinality(its) <= Cardinality(Streaming(u)) /\ Cardinality(Streaming(u)) \in Nat
      BY <3>3, FS_Subset, FS_CardinalityType
    <3>. QED
      BY <3>2, <3>3, <3>4
  <2>2. rate \in Nat /\ StreamsOf[u] * rate <= UnitCap(job.bw, u)
    <3>1. /\ StreamsOf \in [Units -> Nat] /\ IsFiniteSet(Units)
          /\ ValidChannel(job.bw) /\ job.contention \in BOOLEAN
          /\ Rates = Share(job.bw, StreamsOf, job.contention)
      BY StreamsOfType, UnitsAssumption
    <3>2. /\ Share(job.bw, StreamsOf, job.contention) \in [InUse(StreamsOf) -> Nat]
          /\ job.contention /\ job.bw.capped => \A v \in InUse(StreamsOf) :
               StreamsOf[v] * Share(job.bw, StreamsOf, job.contention)[v] <= UnitCap(job.bw, v)
      BY <3>1, ShareIsBounded
    <3>. QED
      BY <2>1, <3>1, <3>2
  <2>3. nxt * rate \in Nat
    BY <1>2, <2>2, ProductNat
  <2>4. \A n \in its : /\ remaining[n] \in Int /\ remaining'[n] \in Int /\ lost[n] \in Int
                       /\ lost[n] <= nxt * rate + ByteEps
    <3>. SUFFICES ASSUME NEW n \in its
                  PROVE  /\ remaining[n] \in Int /\ remaining'[n] \in Int /\ lost[n] \in Int
                         /\ lost[n] <= nxt * rate + ByteEps
      OBVIOUS
    <3>1. n \in active_mem /\ n \in Nodes /\ remaining[n] \in Nat /\ remaining'[n] \in Nat
          /\ owner[n] = u /\ lost[n] = remaining[n] - remaining'[n]
      BY <1>1, <1>3, <1>4
    <3>2. left[n] = remaining[n] - nxt * rate /\ (n \in over <=> left[n] <= ByteEps)
      BY <3>1
    <3>3. remaining'[n] = IF n \in over THEN 0 ELSE left[n]
      BY <1>1, <3>1
    <3> HIDE DEF left, over, lost, rate
    <3>. QED
      BY <1>1, <2>3, <3>1, <3>2, <3>3
  <2> HIDE DEF left, over
  <2>5. SumOver(remaining, its) = SumOver(lost, its) + SumOver(remaining', its)
    <3>1. \A n \in its : lost[n] \in Int /\ remaining'[n] \in Int /\ remaining[n] = lost[n] + remaining'[n]
      BY <2>4
    <3> HIDE DEF lost
    <3>. QED
      BY <1>3, <3>1, SumPlus
  <2>6. SumOver(lost, its) <= (nxt * rate + ByteEps) * Cardinality(its)
    <3>1. nxt * rate + ByteEps \in Nat
      BY <1>1, <2>3
    <3> HIDE DEF lost
    <3>. QED
      BY <1>3, <2>4, <3>1, SumBounded
  <2>7. /\ SumOver(lost, its) \in Int /\ SumOver(remaining', its) \in Int
    <3> HIDE DEF lost
    <3>. QED
      BY <1>3, <2>4, SumInt
  <2> HIDE DEF lost, rate
  <2> DEFINE c == Cardinality(its)
             cap == UnitCap(job.bw, u)
  <2>8. cap \in Nat /\ c \in Nat
    BY <1>3, StreamsOfType, UnitCapNat
  <2> HIDE DEF c, cap
  <2>9. (nxt * rate + ByteEps) * c <= nxt * cap + ByteEps * c
    <3>1. (nxt * rate + ByteEps) * c = nxt * (c * rate) + ByteEps * c
      BY <1>1, <1>2, <2>2, <2>8
    <3>2. c * rate <= StreamsOf[u] * rate
      BY <2>1, <2>2, <2>8 DEF c
    <3>3. c * rate \in Nat /\ StreamsOf[u] * rate \in Nat
      BY <2>1, <2>2, <2>8, ProductNat
    <3>4. c * rate <= cap
      BY <2>2, <2>8, <3>2, <3>3 DEF cap
    <3>5. nxt * (c * rate) <= nxt * cap
      BY <1>2, <2>8, <3>3, <3>4
    <3>6. nxt * (c * rate) \in Int /\ nxt * cap \in Int /\ ByteEps * c \in Int
      BY <1>1, <1>2, <2>8, <3>3
    <3>. QED
      BY <3>1, <3>5, <3>6
  <2>10. /\ (nxt * rate + ByteEps) * c \in Int /\ nxt * cap \in Int /\ ByteEps * c \in Int
    BY <1>1, <1>2, <2>2, <2>3, <2>8
  <2>11. clock' - clock = nxt
    BY <1>1, <1>2
  <2>12. SumOver(remaining, its) - SumOver(remaining', its) <= nxt * cap + ByteEps * c
    BY <2>5, <2>6, <2>7, <2>9, <2>10 DEF c
  <2>. QED
    BY <2>11, <2>12 DEF c, cap, its
<1>. QED
  BY <1>5, <1>6

(* A step that takes no time takes nothing from a stream in flight.          *)
LEMMA NoTimeNoBytes ==
  ASSUME Ind, clock' = clock, \A n \in active_mem : remaining'[n] = remaining[n], NEW u \in Units
  PROVE  SumOver(remaining, Feeding(u)) - SumOver(remaining', Feeding(u))
           <= (clock' - clock) * UnitCap(job.bw, u) + ByteEps * Cardinality(Feeding(u))
<1> DEFINE its == Feeding(u)
<1>1. its \subseteq active_mem /\ \A n \in active_mem : remaining[n] \in Int
  BY DEF Feeding, Ind, LoopInv, LoopTypeOK
<1>2. IsFiniteSet(its) /\ Cardinality(its) \in Nat
  BY <1>1, StreamsOfType, FS_Subset, FS_CardinalityType
<1>3. \A n \in its : remaining[n] \in Int /\ remaining'[n] = remaining[n]
  BY <1>1
<1> HIDE DEF its
<1>4. SumOver(remaining, its) = SumOver(remaining', its) /\ SumOver(remaining, its) \in Int
  BY <1>2, <1>3, SumEqual, SumInt
<1>5. UnitCap(job.bw, u) \in Nat /\ clock \in Int
  BY StreamsOfType, UnitCapNat DEF Ind, LoopInv, LoopTypeOK
<1>6. (clock' - clock) * UnitCap(job.bw, u) = 0 /\ ByteEps * Cardinality(its) \in Nat
  BY <1>2, <1>5, ByteEpsAssumption, ProductNat
<1>. QED
  BY <1>4, <1>6 DEF its

(* In a profile, the streams one unit consumes, those of the mem nodes that  *)
(* feed only it included, are never drained faster together than its cap.    *)
THEOREM UnitCapRespected == Spec => StreamsWithinUnitCap
<1> DEFINE Capped ==
             \A u \in Units \ {Mem} :
               SumOver(remaining, Feeding(u)) - SumOver(remaining', Feeding(u))
                 <= (clock' - clock) * UnitCap(job.bw, u) + ByteEps * Cardinality(Feeding(u))
           Within == job.bw.capped /\ job.contention => Capped
<1>1. Ind /\ StreamInv /\ Ind' /\ Next => Within
  <2>. SUFFICES ASSUME Ind, StreamInv, Ind', Next, job.bw.capped, job.contention PROVE Capped
    OBVIOUS
  <2>1. CASE pc = "advance" /\ ~Stalled /\ Drain
    <3>1. job.bw.capped = TRUE /\ job.contention = TRUE
      BY DEF Ind, LoopInv, LoopTypeOK, IsJob, ValidChannel
    <3>. QED
      BY <2>1, <3>1, DrainWithinCap
  <2>2. CASE ~(pc = "advance" /\ ~Stalled /\ Drain)
    <3>1. CASE Activate
      <4>1. /\ clock' = clock
            /\ remaining' = [n \in Nodes |-> IF n \in Opened(Due) THEN job.bytes[n] ELSE remaining[n]]
        BY <3>1 DEF Activate
      <4>2. \A n \in active_mem : n \in Nodes /\ n \in activated /\ n \notin Due
        BY DEF Ind, LoopInv, LoopTypeOK, Due
      <4>3. \A n \in active_mem : remaining'[n] = remaining[n]
        BY <4>1, <4>2 DEF Opened
      <4>. QED
        BY <4>1, <4>3, NoTimeNoBytes
    <3>2. CASE ~Activate
      <4>1. clock' = clock /\ remaining' = remaining
        BY <2>2, <3>2 DEF Next, Reject, EnterLoop, RunSerial, Dispatch, EndDispatch, Finish,
           FinishAll, Advance, Stall, Settle, Return, run, stats
      <4>. QED
        BY <4>1, NoTimeNoBytes
    <3>. QED
      BY <3>1, <3>2
  <2>. QED
    BY <2>1, <2>2
<1>2. Ind /\ StreamInv /\ Ind' /\ [Next]_vars => [Within]_vars
  BY <1>1
<1>3. [][Within]_vars => StreamsWithinUnitCap
  BY DEF StreamsWithinUnitCap, Feeding
<1>. QED
  BY <1>2, <1>3, LoopInvariant, StreamInvariant, PTL DEF Spec

-----------------------------------------------------------------------------
(* The loop ends with every op done.                                         *)

(* A tick is long enough for every op to have a stream on the channel and    *)
(* each of them still to move a byte: what rounding rates down needs.  The   *)
(* code's rates are never rounded to zero.                                   *)
FineEnough(bw) ==
  bw.eff > 0 =>
    /\ \A u \in Units : Cardinality(Nodes) <= UnitCap(bw, u)
    /\ Cardinality(Nodes) * Cardinality(Units) <= bw.ceiling

(* No node is lost between the countdown and the ready list, a stream on the *)
(* channel has bytes left, and the loop is left only without work.           *)
NothingLost ==
  /\ \A n \in Nodes : job.deps[n] \subseteq done => n \in pending \cup started
  /\ \A n \in active_mem : remaining[n] > 0
  /\ pc = "advance" => WorkLeft
  /\ pc = "exit" => ~WorkLeft

(* A step of pc alone.                                                       *)
LEMMA LostFrame ==
  ASSUME NothingLost, job' = job, UNCHANGED run,
         pc' = "advance" => WorkLeft, pc' = "exit" => ~WorkLeft
  PROVE  NothingLost'
<1>1. WorkLeft' = WorkLeft
  BY DEF WorkLeft, run
<1>. QED
  BY <1>1 DEF NothingLost, run

(* The finish loop puts on the ready list every node that it leaves with all *)
(* its dependencies done.                                                    *)
LEMMA FinishLosesNothing ==
  ASSUME Ind, NothingLost, FinishAll,
         pc' = "advance" => WorkLeft', pc' = "exit" => ~WorkLeft'
  PROVE  NothingLost'
<1> DEFINE F == Finishable
           left == [n \in Nodes |-> indeg[n] - Cardinality(job.deps[n] \cap F)]
<1>1. /\ job' = job /\ done' = done \cup F
      /\ indeg' = left /\ pending' = pending \cup Released(F, left)
      /\ UNCHANGED <<started, activated, active_mem, remaining>>
  BY DEF FinishAll
<1>2. LoopTypeOK /\ Countdown
  BY DEF Ind, LoopInv
<1>3. F \cap done = {} /\ F \subseteq Nodes
  BY <1>2 DEF Finishable, LoopTypeOK
<1> HIDE DEF F
<1>4. ASSUME NEW n \in Nodes, job.deps[n] \subseteq done'
      PROVE  n \in pending' \cup started'
  <2>1. CASE job.deps[n] \subseteq done
    BY <2>1, <1>1 DEF NothingLost
  <2>2. CASE ~(job.deps[n] \subseteq done)
    <3>1. job.deps[n] \cap F # {} /\ job.deps[n] \ done = job.deps[n] \cap F
      BY <2>2, <1>1, <1>3, <1>4
    <3>2. job.deps[n] \cap F \in SUBSET Nodes
      BY <1>3
    <3>3. indeg[n] = Cardinality(job.deps[n] \cap F) /\ Cardinality(job.deps[n] \cap F) \in Nat
      BY <3>1, <3>2, <1>2, CardOfSubset DEF Countdown
    <3>4. left[n] = 0
      BY <3>3
    <3>5. n \in Released(F, left)
      BY <3>1, <3>4 DEF Released
    <3>. QED
      BY <3>5, <1>1
  <2>. QED
    BY <2>1, <2>2
<1>. QED
  BY <1>1, <1>4 DEF NothingLost

(* Every step keeps it.                                                      *)
LEMMA NextLosesNothing == Ind /\ NothingLost /\ [Next]_vars => NothingLost'
<1>. SUFFICES ASSUME Ind, NothingLost, [Next]_vars PROVE NothingLost'
  OBVIOUS
<1>1. LoopTypeOK /\ IsJob(job)
  BY DEF Ind, LoopInv, LoopTypeOK
<1>2. CASE Reject \/ EndDispatch \/ Return \/ UNCHANGED vars
  BY <1>2, LostFrame DEF Reject, EndDispatch, Return, vars, NothingLost
<1>3. CASE EnterLoop
  <2>1. job' = job /\ UNCHANGED run /\ pc' = IF WorkLeft THEN "dispatch" ELSE "exit"
    BY <1>3 DEF EnterLoop
  <2>. QED
    BY <2>1, LostFrame
<1>4. CASE RunSerial
  BY <1>4 DEF RunSerial, NothingLost
<1>5. CASE \E n \in Nodes : Dispatch(n)
  BY <1>5 DEF Dispatch, NothingLost
<1>6. CASE Activate
  <2>1. /\ job' = job /\ pc' = "finish" /\ UNCHANGED <<pending, started, done>>
        /\ active_mem' = active_mem \cup Opened(Due)
        /\ remaining' = [n \in Nodes |-> IF n \in Opened(Due) THEN job.bytes[n] ELSE remaining[n]]
    BY <1>6 DEF Activate
  <2>2. \A n \in Opened(Due) : job.bytes[n] > 0
    BY DEF Opened, Dram
  <2>3. \A n \in active_mem' : n \in Nodes
    BY <2>1, <1>1 DEF LoopTypeOK, Opened, Due
  <2>. QED
    BY <2>1, <2>2, <2>3 DEF NothingLost
<1>7. CASE Finish
  <2>1. FinishAll /\ pc' = AfterPass
    BY <1>7 DEF Finish
  <2>2. AfterPass \in {"advance", "exit"} =>
          Finishable = {} /\ (AfterPass = "advance" <=> WorkLeft)
    BY DEF AfterPass
  <2>3. Finishable = {} => WorkLeft' = WorkLeft
    BY <2>1 DEF FinishAll, WorkLeft, Released
  <2>. QED
    BY <2>1, <2>2, <2>3, FinishLosesNothing
<1>8. CASE Advance
  <2>1. CASE Stalled
    BY <2>1, <1>8, LostFrame DEF Advance, Stall
  <2>2. CASE ~Stalled
    <3>1. Drain
      BY <2>2, <1>8 DEF Advance
    <3> DEFINE drained == [n \in active_mem |-> Min(EventDistances) * Rates[owner[n]]]
               left == [n \in Nodes |-> IF n \in active_mem THEN remaining[n] - drained[n]
                                                            ELSE remaining[n]]
               over == {n \in active_mem : left[n] <= ByteEps}
    <3>2. /\ job' = job /\ pc' = "settle" /\ UNCHANGED <<pending, started, done>>
          /\ active_mem' = active_mem \ over
          /\ remaining' = [n \in Nodes |-> IF n \in over THEN 0 ELSE left[n]]
      BY <3>1 DEF Drain
    <3>3. remaining' \in [Nodes -> Nat]
      <4>1. Ind'
        BY NextInd
      <4>. QED
        BY <4>1 DEF Ind, LoopInv, LoopTypeOK
    <3>4. ASSUME NEW n \in active_mem' PROVE remaining'[n] > 0
      <4>1. n \in Nodes /\ n \in active_mem /\ n \notin over
        BY <3>2, <1>1 DEF LoopTypeOK
      <4>2. remaining'[n] = left[n] /\ remaining'[n] \in Nat /\ ~(left[n] <= ByteEps)
        BY <4>1, <3>2, <3>3
      <4> HIDE DEF left, over
      <4>. QED
        BY <4>2, ByteEpsAssumption
    <3> HIDE DEF left, over
    <3>. QED
      BY <3>2, <3>4 DEF NothingLost
  <2>. QED
    BY <2>1, <2>2
<1>9. CASE Settle
  <2>1. FinishAll /\ pc' = IF WorkLeft' THEN "dispatch" ELSE "exit"
    BY <1>9 DEF Settle
  <2>. QED
    BY <2>1, FinishLosesNothing
<1>. QED
  BY <1>2, <1>3, <1>4, <1>5, <1>6, <1>7, <1>8, <1>9 DEF Next

(* With no work left every op is done: among those that are not, one would   *)
(* wait for none of the others, and be on the ready list or running.         *)
LEMMA NoWorkAllDone == ASSUME Ind, Acceptable, NothingLost, ~WorkLeft PROVE done = Nodes
<1>1. LoopTypeOK /\ job.deps \in [Nodes -> SUBSET Nodes] /\ IsAcyclic(job.deps)
  BY DEF Ind, LoopInv, LoopTypeOK, IsJob, Acceptable
<1>2. done \subseteq Nodes /\ pending = {} /\ started = done
  BY <1>1 DEF LoopTypeOK, WorkLeft
<1>. SUFFICES ASSUME Nodes \ done # {} PROVE FALSE
  BY <1>2
<1>3. PICK n \in Nodes \ done : job.deps[n] \cap (Nodes \ done) = {}
  BY <1>1 DEF IsAcyclic
<1>4. job.deps[n] \subseteq done
  BY <1>1, <1>3
<1>. QED
  BY <1>2, <1>3, <1>4 DEF NothingLost

-----------------------------------------------------------------------------
(* A whole number of bytes per tick that rounds what is enough for one byte  *)
(* per stream is at least one.                                               *)
LEMMA OneEach ==
  ASSUME NEW r \in Int, NEW m \in Nat, m > 0, m <= r
  PROVE  r \div m > 0
<1>1. 1 * m <= r
  OBVIOUS
<1>2. 1 <= r \div m /\ r \div m \in Int
  BY <1>1, DivGreatest, DivFacts
<1>. QED
  BY <1>2

(* A tick that is long enough leaves no stream of the channel without a byte. *)
LEMMA FineShare ==
  ASSUME NEW bw, ValidChannel(bw), bw.eff > 0, FineEnough(bw), NEW contention \in BOOLEAN,
         NEW streams \in [Units -> Nat], SumOver(streams, Units) <= Cardinality(Nodes)
  PROVE  \A u \in InUse(streams) : Share(bw, streams, contention)[u] > 0
<1> DEFINE used == InUse(streams)
           N == Cardinality(Nodes)
           k == SumOver(streams, Units)
           rate == Share(bw, streams, contention)
<1>1. /\ used \subseteq Units /\ IsFiniteSet(used)
      /\ \A u \in used : streams[u] \in Nat /\ streams[u] > 0 /\ streams[u] <= k
      /\ k \in Nat
  BY InUseFacts, UnitsAssumption
<1>2. bw.eff \in Nat /\ bw.ceiling \in Nat /\ (bw.capped = TRUE \/ bw.capped = FALSE)
      /\ k <= N /\ N \in Nat
  BY NodesAssumption, FS_CardinalityType DEF ValidChannel
<1>3. Cardinality(Units) \in Nat /\ Cardinality(used) \in Nat /\ Cardinality(used) <= Cardinality(Units)
      /\ Cardinality(Units) > 0
  BY <1>1, UnitsAssumption, FS_Subset, FS_CardinalityType, FS_EmptySet
<1>4. N * Cardinality(Units) <= bw.ceiling
  BY DEF FineEnough
<1>5. CASE bw.capped = FALSE \/ contention = FALSE
  <2>. SUFFICES ASSUME NEW u \in used PROVE PerStream(bw, k, contention) > 0
    BY <1>5, ShareCases
  <2>1. k > 0
    BY <1>1
  <2>2. k * bw.eff \in Nat /\ k <= k * bw.eff
    BY <1>1, <1>2
  <2>3. k <= bw.ceiling
    <3>1. N <= N * Cardinality(Units) /\ N * Cardinality(Units) \in Nat
      BY <1>2, <1>3
    <3>. QED
      BY <3>1, <1>1, <1>2, <1>4
  <2> DEFINE a == Aggregate(bw, k, contention)
  <2>4. a \in Int /\ k <= a
    BY <2>2, <2>3, <1>2 DEF Aggregate, Lesser
  <2>5. PerStream(bw, k, contention) = a \div k
    BY <2>1 DEF PerStream
  <2> HIDE DEF a, k
  <2>. QED
    BY <1>1, <2>1, <2>4, <2>5, OneEach
<1>6. CASE bw.capped = TRUE /\ contention = TRUE
  <2> DEFINE demand == Demands(bw, streams)
             grant == Grants(bw, streams)
  <2>1. rate = [u \in used |-> grant[u] \div streams[u]]
    BY <1>6, ShareCases
  <2>2. /\ demand \in [used -> Nat]
        /\ FairFill(grant, demand, bw.ceiling, used)
    BY GrantsFair, UnitsAssumption
  <2>3. DOMAIN demand = used
    BY DEF Demands
  <2>4. Unserved(demand, bw.ceiling, used) = bw.ceiling
    <3>1. DOMAIN demand \ used = {}
      BY <2>3
    <3>. QED
      BY <3>1, <1>2, SumEmpty DEF Unserved
  <2> HIDE DEF used, demand, grant, rate, k
  <2>. SUFFICES ASSUME NEW u \in used PROVE grant[u] \in Int /\ streams[u] <= grant[u]
    BY <1>1, <2>1, OneEach DEF rate, used
  <2>5. grant[u] \in Nat /\ demand[u] \in Nat
    BY <2>2, <2>3 DEF FairFill
  <2>6. streams[u] <= demand[u]
    <3>1. streams[u] \in Nat /\ streams[u] <= N
      BY <1>1, <1>2
    <3>2. streams[u] * bw.eff \in Nat /\ streams[u] <= streams[u] * bw.eff
      BY <3>1, <1>2
    <3>3. streams[u] <= UnitCap(bw, u) /\ UnitCap(bw, u) \in Nat
      <4>1. N <= UnitCap(bw, u)
        BY <1>1 DEF FineEnough
      <4>. QED
        BY <3>1, <4>1, <1>2, UnitCapNat
    <3>4. demand[u] = Demand(bw, streams[u], u)
      BY DEF demand, Demands, used
    <3>. QED
      BY <3>1, <3>2, <3>3, <3>4 DEF Demand, Lesser
  <2>7. CASE ~(grant[u] < demand[u])
    BY <2>5, <2>6, <2>7, <1>1
  <2>8. CASE grant[u] < demand[u]
    <3>1. u \in Short(grant, demand)
      BY <2>3, <2>8 DEF Short
    <3>2. N * Cardinality(used) <= Unserved(demand, bw.ceiling, used)
      <4>1. N * Cardinality(used) <= N * Cardinality(Units)
        BY <1>2, <1>3
      <4>2. N * Cardinality(used) \in Nat /\ N * Cardinality(Units) \in Nat
        BY <1>2, <1>3
      <4>. QED
        BY <4>1, <4>2, <1>2, <1>4, <2>4
    <3>3. N <= grant[u]
      BY <2>2, <3>1, <3>2, <1>2 DEF FairFill
    <3>. QED
      BY <3>3, <2>5, <1>1, <1>2
  <2>. QED
    BY <2>7, <2>8
<1>. QED
  BY <1>2, <1>5, <1>6

(* So every stream in flight moves.                                          *)
LEMMA StreamsFlow ==
  ASSUME Ind, StreamInv, Acceptable, FineEnough(job.bw), NEW n \in active_mem
  PROVE  Rates[owner[n]] > 0
<1>1. /\ StreamsOf \in [Units -> Nat] /\ IsFiniteSet(Units)
      /\ ValidChannel(job.bw) /\ job.contention \in BOOLEAN
      /\ Rates = Share(job.bw, StreamsOf, job.contention)
      /\ owner[n] \in InUse(StreamsOf)
      /\ IsFiniteSet(active_mem) /\ active_mem \subseteq Nodes
      /\ \A m \in active_mem : owner[m] \in Units
  BY StreamsOfType, UnitsAssumption
<1>2. job.bw.eff > 0
  <2>1. Dram(n) /\ n \in Nodes
    BY <1>1 DEF StreamInv, StreamOwners
  <2>. QED
    BY <2>1 DEF Acceptable
<1>3. SumOver(StreamsOf, Units) <= Cardinality(Nodes)
  <2> DEFINE one == [m \in active_mem |-> 1]
             each == [u \in Units |-> 1]
             all == StreamsOf
  <2>1. SumOver(one, active_mem) = SumOver(all, Units)
    <3>1. \A u \in Units : each[u] \in Int
      OBVIOUS
    <3>2. \A m \in active_mem : one[m] = each[owner[m]]
      BY <1>1
    <3>3. \A u \in Units : all[u] = each[u] * Cardinality({m \in active_mem : owner[m] = u})
      <4>. SUFFICES ASSUME NEW u \in Units
                    PROVE StreamsOf[u] = each[u] * Cardinality({m \in active_mem : owner[m] = u})
        OBVIOUS
      <4>1. StreamsOf[u] = Cardinality({m \in active_mem : owner[m] = u}) /\ StreamsOf[u] \in Nat
        BY <1>1 DEF StreamsOf, Streaming
      <4>. QED
        BY <4>1
    <3>4. IsFiniteSet(active_mem) /\ IsFiniteSet(Units) /\ \A m \in active_mem : owner[m] \in Units
      BY <1>1
    <3> HIDE DEF one, each, all
    <3>. QED
      BY ONLY <3>1, <3>2, <3>3, <3>4, SumByGroup
  <2>2. SumOver(one, active_mem) = 1 * Cardinality(active_mem)
    <3>1. \A m \in active_mem : one[m] = 1
      OBVIOUS
    <3>2. IsFiniteSet(active_mem) /\ 1 \in Int
      BY <1>1
    <3> HIDE DEF one
    <3>. QED
      BY <3>1, <3>2, SumConstant
  <2>3. Cardinality(active_mem) \in 0..Cardinality(Nodes) /\ Cardinality(Nodes) \in Nat
    BY <1>1, CardOfSubset, NodesAssumption, FS_CardinalityType
  <2>. QED
    BY <2>1, <2>2, <2>3 DEF all
<1>4. \A u \in InUse(StreamsOf) : Share(job.bw, StreamsOf, job.contention)[u] > 0
  BY <1>1, <1>2, <1>3, FineShare
<1>. QED
  BY <1>1, <1>4

(* With work left there is a next event, and it lies ahead.                  *)
LEMMA NeverStalled ==
  ASSUME Ind, StreamInv, Settled, NothingLost, pc = "advance", FineEnough(job.bw)
  PROVE  ~Stalled
<1>1. /\ LoopTypeOK /\ Acceptable /\ WorkLeft
      /\ \A n \in pending : unit_free[UKey(n)] > clock
      /\ \A n \in started \ activated : fixed_done_at[n] > clock
      /\ Finishable = {}
  BY NothingDueAtDrain DEF Ind, LoopInv, NothingLost
<1>2. \A n \in active_mem : Rates[owner[n]] > 0
  BY <1>1, StreamsFlow
<1>3. clock \in Nat
  BY <1>1 DEF LoopTypeOK
<1> DEFINE streamEnds == {CeilDiv(remaining[n], Rates[owner[n]]) :
                            n \in {m \in active_mem : Rates[owner[m]] > 0}}
           delayEnds == {fixed_done_at[n] - clock : n \in started \ activated}
           computeEnds == {compute_done_at[n] - clock :
                             n \in {m \in started \ done : compute_done_at[m] > clock}}
           frees == {unit_free[UKey(n)] - clock :
                       n \in {m \in pending : unit_free[UKey(m)] > clock}}
<1>4. EventDistances = streamEnds \cup delayEnds \cup computeEnds \cup frees
  BY DEF EventDistances
<1>5. EventDistances # {}
  <2>1. CASE pending # {}
    BY <2>1, <1>1, <1>4
  <2>2. CASE active_mem # {}
    BY <2>2, <1>2, <1>4
  <2>3. CASE started # done
    <3>1. PICK n \in started : n \notin done
      BY <2>3, <1>1 DEF LoopTypeOK
    <3>2. CASE n \notin activated
      BY <3>1, <3>2, <1>4
    <3>3. CASE n \in activated /\ n \notin active_mem
      <4>1. compute_done_at[n] \in Nat
        BY <1>1, <3>1 DEF LoopTypeOK
      <4>2. compute_done_at[n] > clock
        BY <4>1, <1>1, <1>3, <3>1, <3>3 DEF Finishable
      <4>. QED
        BY <4>2, <3>1, <1>4
    <3>. QED
      BY <3>2, <3>3, <2>2
  <2>. QED
    BY <2>1, <2>2, <2>3, <1>1 DEF WorkLeft
<1>6. \A x \in streamEnds : x \in Int /\ 1 <= x
  <2>. SUFFICES ASSUME NEW n \in active_mem
                PROVE  CeilDiv(remaining[n], Rates[owner[n]]) \in Int
                       /\ 1 <= CeilDiv(remaining[n], Rates[owner[n]])
    OBVIOUS
  <2>1. remaining[n] \in Nat /\ remaining[n] > 0 /\ Rates[owner[n]] \in Nat /\ Rates[owner[n]] > 0
    BY <1>1, <1>2, RateType DEF LoopTypeOK, NothingLost
  <2> DEFINE r == remaining[n]
             q == Rates[owner[n]]
  <2> HIDE DEF r, q
  <2>2. r + q - 1 \in Int /\ q \in Nat /\ q > 0 /\ q <= r + q - 1
    BY <2>1 DEF r, q
  <2>3. (r + q - 1) \div q > 0 /\ (r + q - 1) \div q \in Int
    BY <2>2, OneEach, DivFacts
  <2>. QED
    BY <2>3 DEF CeilDiv, r, q
<1>7. \A x \in delayEnds : x \in Int /\ 1 <= x
  BY <1>1, <1>3 DEF LoopTypeOK
<1>8. \A x \in computeEnds : x \in Int /\ 1 <= x
  BY <1>1, <1>3 DEF LoopTypeOK
<1>9. \A x \in frees : x \in Int /\ 1 <= x
  <2>. SUFFICES ASSUME NEW n \in pending
                PROVE  unit_free[UKey(n)] - clock \in Int /\ 1 <= unit_free[UKey(n)] - clock
    OBVIOUS
  <2>1. n \in Nodes /\ UKey(n) \in Servers
    BY <1>1, ServerType DEF LoopTypeOK
  <2>2. unit_free[UKey(n)] \in Nat
    BY <1>1, <2>1 DEF LoopTypeOK
  <2>. QED
    BY <1>1, <1>3, <2>2
<1> HIDE DEF streamEnds, delayEnds, computeEnds, frees
<1>10. EventDistances \in SUBSET Int /\ \A x \in EventDistances : 1 <= x
  BY <1>4, <1>6, <1>7, <1>8, <1>9
<1>11. Min(EventDistances) \in EventDistances
  <2>1. 1 \in Int
    OBVIOUS
  <2>. QED
    BY <2>1, <1>5, <1>10, MinOfIntegers
<1>12. Min(EventDistances) \in Int /\ 1 <= Min(EventDistances)
  BY <1>10, <1>11, Zenon
<1> HIDE DEF EventDistances
<1>13. ~(Min(EventDistances) <= 0)
  BY <1>12
<1>. QED
  BY <1>5, <1>13 DEF Stalled

(* Neither RuntimeError of run_dag is ever raised on a call it accepted: a   *)
(* pass that leaves work leaves an event to wait for, and the loop ends only *)
(* when every op is done.                                                    *)
NeverRaises == pc \notin {"stalled", "incomplete"}

LEMMA NextNeverRaises ==
  (\A j \in Jobs : FineEnough(j.bw)) =>
    (Ind /\ StreamInv /\ Settled /\ NothingLost /\ NeverRaises /\ [Next]_vars => NeverRaises')
<1>. SUFFICES ASSUME \A j \in Jobs : FineEnough(j.bw), Ind, StreamInv, Settled, NothingLost,
                     NeverRaises, [Next]_vars
              PROVE  NeverRaises'
  OBVIOUS
<1>1. FineEnough(job.bw)
  BY DEF Ind
<1>2. CASE Advance
  <2>1. ~Stalled
    BY <1>1, <1>2, NeverStalled DEF Advance
  <2>2. Drain
    BY <1>2, <2>1 DEF Advance
  <2>. QED
    BY <2>2 DEF Drain, NeverRaises
<1>3. CASE Return
  <2>1. pc = "exit"
    BY <1>3 DEF Return
  <2>2. Acceptable /\ ~WorkLeft
    BY <2>1 DEF Ind, LoopInv, NothingLost
  <2>3. done = Nodes
    BY <2>2, NoWorkAllDone
  <2>. QED
    BY <1>3, <2>3 DEF Return, NeverRaises
<1>4. CASE Reject \/ EnterLoop \/ RunSerial \/ EndDispatch \/ Activate
  BY <1>4 DEF Reject, EnterLoop, RunSerial, EndDispatch, Activate, NeverRaises
<1>5. CASE \E n \in Nodes : Dispatch(n)
  BY <1>5 DEF Dispatch, NeverRaises
<1>6. CASE Finish \/ Settle
  BY <1>6 DEF Finish, Settle, AfterPass, NeverRaises
<1>7. CASE UNCHANGED vars
  BY <1>7 DEF vars, NeverRaises
<1>. QED
  BY <1>2, <1>3, <1>4, <1>5, <1>6, <1>7 DEF Next

(* The invariant holds throughout.                                           *)
LEMMA NothingIsLost == Spec => []NothingLost
<1>1. Init => NothingLost
  <2>. SUFFICES ASSUME Init PROVE NothingLost
    OBVIOUS
  <2>1. job.deps \in [Nodes -> SUBSET Nodes]
    BY JobsAssumption DEF Init, IsJob
  <2>. QED
    BY <2>1 DEF Init, NothingLost
<1>. QED
  BY <1>1, NextLosesNothing, LoopInvariant, PTL DEF Spec

(* What the passes have settled holds throughout.                            *)
LEMMA AlwaysSettled == Spec => []Settled
<1>1. Init => Settled
  BY DEF Init, Settled
<1>. QED
  BY <1>1, SettledStep, LoopInvariant, PTL DEF Spec

(* Once accepted, a call never raises, however its ops are dispatched: no    *)
(* deadlock of streams, units and delays, and no op that is never released.  *)
THEOREM AcceptedCallsNeverRaise ==
  ASSUME \A j \in Jobs : FineEnough(j.bw)
  PROVE  Spec => []NeverRaises
<1>1. Init => NeverRaises
  BY DEF Init, NeverRaises
<1>2. Ind /\ StreamInv /\ Settled /\ NothingLost /\ NeverRaises /\ [Next]_vars => NeverRaises'
  BY NextNeverRaises
<1>. QED
  BY <1>1, <1>2, NothingIsLost, AlwaysSettled, StreamInvariant, LoopInvariant, PTL DEF Spec

-----------------------------------------------------------------------------
(* The channel on its own, whatever streams open and close on it.            *)

FlightTypes ==
  /\ profile \in Channels /\ contends \in BOOLEAN
  /\ flight \in [Sharers -> Nat]

(* The streams in flight are counted by naturals.                            *)
LEMMA FlightTyped == FlightSpec => []FlightTypes
<1>1. FlightInit => FlightTypes
  BY DEF FlightInit, FlightTypes
<1>2. FlightTypes /\ [FlightNext]_flightVars => FlightTypes'
  <2>. SUFFICES ASSUME FlightTypes, [FlightNext]_flightVars PROVE FlightTypes'
    OBVIOUS
  <2>1. ASSUME NEW u \in Sharers, Open(u) PROVE FlightTypes'
    BY <2>1 DEF Open, FlightTypes
  <2>2. ASSUME NEW u \in Sharers, Close(u) PROVE FlightTypes'
    BY <2>2 DEF Close, FlightTypes
  <2>3. CASE UNCHANGED flightVars
    BY <2>3 DEF FlightTypes, flightVars
  <2>. QED
    BY <2>1, <2>2, <2>3 DEF FlightNext
<1>. QED
  BY <1>1, <1>2, PTL DEF FlightSpec

-----------------------------------------------------------------------------
(* The busy units are those the channel sees in use.                         *)
LEMMA BusyIsInUse ==
  ASSUME FlightTypes
  PROVE  /\ ValidChannel(profile)
         /\ Drawing = InUse(flight) /\ Drawing \subseteq Sharers /\ IsFiniteSet(Drawing)
         /\ [u \in Drawing |-> Lesser(flight[u] * profile.eff, UnitCap(profile, u))]
              = Demands(profile, flight)
<1>1. ValidChannel(profile)
  BY ChannelsAssumption DEF FlightTypes
<1>2. Drawing = InUse(flight)
  BY DEF FlightTypes, Drawing, InUse
<1>3. Drawing \subseteq Sharers /\ IsFiniteSet(Drawing)
  BY SharersAssumption, FS_Subset DEF Drawing
<1>. QED
  BY <1>1, <1>2, <1>3 DEF Demands, Demand

(* Whatever the streams in flight, the share of the channel is max-min fair. *)
LEMMA FairWhenTyped == FlightTypes => MaxMinFair
<1>. SUFFICES ASSUME FlightTypes PROVE MaxMinFair
  OBVIOUS
<1> DEFINE demand == Demands(profile, flight)
           grant == Grants(profile, flight)
           short == Short(grant, demand)
           m == Cardinality(Sharers)
<1>1. /\ ValidChannel(profile) /\ Drawing = InUse(flight)
      /\ Drawing \subseteq Sharers /\ IsFiniteSet(Drawing)
      /\ [u \in Drawing |-> Lesser(flight[u] * profile.eff, UnitCap(profile, u))] = demand
      /\ flight \in [Sharers -> Nat] /\ IsFiniteSet(Sharers) /\ contends \in BOOLEAN
  BY BusyIsInUse, SharersAssumption DEF FlightTypes
<1>2. demand \in [Drawing -> Nat] /\ FairFill(grant, demand, profile.ceiling, Drawing)
  BY <1>1, GrantsFair
<1>3. grant = Waterfill(demand, profile.ceiling)
  BY DEF Grants
<1>4. profile.ceiling \in Nat
  BY <1>1 DEF ValidChannel
<1> HIDE DEF demand, grant
<1>5. /\ grant \in [Drawing -> Nat]
      /\ \A u \in Drawing : grant[u] <= demand[u]
      /\ \A u, v \in Drawing : grant[u] < demand[u] => grant[v] <= grant[u]
  BY <1>2 DEF FairFill, Short
<1>6. /\ m \in Nat /\ m > 0 /\ short \subseteq Drawing /\ IsFiniteSet(short)
      /\ Cardinality(short) \in Nat /\ Cardinality(short) <= m
  <2>1. short \subseteq Drawing
    BY <1>2 DEF Short
  <2>2. m \in Nat /\ m > 0
    BY SharersAssumption, FS_CardinalityType, FS_EmptySet
  <2>3. short \subseteq Sharers
    BY <1>1, <2>1
  <2> HIDE DEF short
  <2>. QED
    BY SharersAssumption, <2>1, <2>2, <2>3, FS_Subset, FS_CardinalityType
<1>7. SumOver(grant, Drawing) \in Int /\ SumOver(demand, Drawing) \in Int
  <2>1. \A u \in Drawing : grant[u] \in Int /\ demand[u] \in Int
    BY <1>2, <1>5
  <2>. QED
    BY <1>1, <2>1, SumInt
<1>8. SumOver(grant, Drawing) + m > Lesser(SumOver(demand, Drawing), profile.ceiling)
  <2>1. CASE short = {}
    <3>1. \A u \in Drawing : demand[u] \in Int /\ grant[u] = demand[u]
      BY <1>2, <1>5, <2>1 DEF Short
    <3>2. SumOver(demand, Drawing) = SumOver(grant, Drawing)
      BY <1>1, <3>1, SumEqual
    <3>. QED
      BY <1>4, <1>6, <1>7, <3>2 DEF Lesser
  <2>2. CASE short # {}
    <3>1. profile.ceiling < SumOver(grant, Drawing) + Cardinality(short)
      BY <1>2, <2>2 DEF FairFill
    <3> HIDE DEF short, m
    <3>. QED
      BY <1>4, <1>6, <1>7, <3>1 DEF Lesser
  <2>. QED
    BY <2>1, <2>2
<1>9. contends => /\ SumOver(UnitRate, Drawing) <= profile.ceiling
                  /\ profile.capped => \A u \in Drawing : UnitRate[u] <= UnitCap(profile, u)
  <2>1. UnitRate = [u \in InUse(flight) |-> flight[u] * Share(profile, flight, contends)[u]]
    BY <1>1 DEF UnitRate, Rate
  <2>2. contends =>
          SumOver([u \in InUse(flight) |-> flight[u] * Share(profile, flight, contends)[u]],
                  InUse(flight)) <= profile.ceiling
    BY <1>1, ShareIsBounded
  <2>3. contends /\ profile.capped => \A u \in InUse(flight) :
          flight[u] * Share(profile, flight, contends)[u] <= UnitCap(profile, u)
    BY <1>1, ShareIsBounded
  <2>. QED
    BY <1>1, <2>1, <2>2, <2>3
<1> HIDE DEF m
<1>10. grant = Waterfill([u \in Drawing |-> Lesser(flight[u] * profile.eff, UnitCap(profile, u))],
                          profile.ceiling)
       /\ demand = [u \in Drawing |-> Lesser(flight[u] * profile.eff, UnitCap(profile, u))]
  BY <1>1, <1>3
<1>. QED
  BY <1>5, <1>8, <1>9, <1>10 DEF MaxMinFair, m

(* The share of resources.py is max-min fair, gives away what it can and     *)
(* stays within the knee and the caps, for every profile and every number of *)
(* streams of every unit.                                                    *)
THEOREM ChannelIsFair == FlightSpec => []MaxMinFair
BY FlightTyped, FairWhenTyped, PTL

-----------------------------------------------------------------------------
(* One more stream makes no other faster.                                    *)
LEMMA OneMoreStream ==
  ASSUME NEW channel, ValidChannel(channel), NEW before \in [Sharers -> Nat], NEW s \in Sharers,
         NEW after, after = [before EXCEPT ![s] = @ + 1], NEW contended \in BOOLEAN,
         NEW u \in InUse(before)
  PROVE  Share(channel, after, contended)[u] <= Share(channel, before, contended)[u]
<1> DEFINE k == SumOver(before, Sharers)
           l == SumOver(after, Sharers)
<1>1. /\ after \in [Sharers -> Nat] /\ IsFiniteSet(Sharers)
      /\ \A v \in Sharers : after[v] = IF v = s THEN before[v] + 1 ELSE before[v]
  BY SharersAssumption
<1>2. InUse(before) \subseteq InUse(after) /\ InUse(after) \subseteq Sharers
      /\ IsFiniteSet(InUse(after))
  <2>1. InUse(before) \subseteq InUse(after)
    BY <1>1 DEF InUse
  <2>. QED
    BY <1>1, <2>1, InUseFacts
<1>3. /\ u \in Sharers /\ u \in InUse(after)
      /\ before[u] \in Nat /\ before[u] > 0
      /\ after[u] \in Nat /\ after[u] > 0 /\ before[u] <= after[u]
  <2>1. u \in Sharers /\ before[u] > 0 /\ before[u] \in Nat
    BY DEF InUse
  <2>2. after[u] = IF u = s THEN before[u] + 1 ELSE before[u]
    BY <1>1, <2>1
  <2>3. u \in InUse(after)
    BY <1>2
  <2>. QED
    BY <2>1, <2>2, <2>3
<1>4. k \in Nat /\ l \in Nat /\ 0 < k /\ k <= l
  <2>1. k \in Nat /\ l \in Nat /\ before[u] <= k
    BY <1>1, <1>3, InUseFacts
  <2>2. k <= l
    <3>1. \A v \in Sharers : before[v] \in Int /\ after[v] \in Int /\ before[v] <= after[v]
      BY <1>1
    <3>. QED
      BY <1>1, <3>1, SumMonotone
  <2>. QED
    BY <1>3, <2>1, <2>2
<1>5. /\ channel.eff \in Nat /\ channel.ceiling \in Nat
      /\ channel.capped = TRUE \/ channel.capped = FALSE
  BY DEF ValidChannel
<1> HIDE DEF k, l
<1>6. CASE channel.capped = FALSE \/ contended = FALSE
  <2>1. /\ Share(channel, after, contended)[u] = PerStream(channel, l, contended)
        /\ Share(channel, before, contended)[u] = PerStream(channel, k, contended)
    <3>1. DOMAIN before = Sharers /\ DOMAIN after = Sharers
      BY <1>1
    <3>. QED
      BY <1>3, <1>6, <3>1, ShareCases DEF k, l
  <2>2. PerStream(channel, l, contended) <= PerStream(channel, k, contended)
    <3> DEFINE a(n) == Aggregate(channel, n, contended)
    <3>1. PerStream(channel, l, contended) = a(l) \div l
          /\ PerStream(channel, k, contended) = a(k) \div k
      BY <1>4 DEF PerStream
    <3>2. k * channel.eff \in Nat /\ l * channel.eff \in Nat
      BY <1>4, <1>5
    <3>3. CASE a(k) = k * channel.eff
      <4>1. k * channel.eff = channel.eff * k /\ (channel.eff * k) \div k >= channel.eff
        <5>1. channel.eff * k <= k * channel.eff /\ k * channel.eff = channel.eff * k
          BY <1>4, <1>5
        <5>. QED
          BY <1>4, <1>5, <3>2, <5>1, DivGreatest
      <4>2. PerStream(channel, l, contended) <= channel.eff
        BY <1>4, PerStreamFacts
      <4>3. PerStream(channel, l, contended) \in Nat /\ PerStream(channel, k, contended) \in Nat
        BY <1>4, PerStreamFacts
      <4>4. PerStream(channel, k, contended) >= channel.eff
        BY <3>1, <3>3, <4>1
      <4>. QED
        BY <1>5, <4>2, <4>3, <4>4
    <3>4. CASE a(k) # k * channel.eff
      <4>1. a(k) = channel.ceiling /\ a(l) <= a(k) /\ a(l) \in Nat /\ a(k) \in Nat
        BY <1>5, <3>2, <3>4 DEF Aggregate, Lesser
      <4>2. a(l) \div l <= a(k) \div k
        <5> HIDE DEF a
        <5>. QED
          BY <1>4, <4>1, DivMonotone
      <4>. QED
        BY <3>1, <4>2
    <3>. QED
      BY <3>3, <3>4
  <2>. QED
    BY <2>1, <2>2
<1>7. CASE channel.capped = TRUE /\ contended = TRUE
  <2> DEFINE demand == Demands(channel, before)
             wanted == Demands(channel, after)
             g == Grants(channel, before)
             h == Grants(channel, after)
  <2>1. /\ Share(channel, after, contended)[u] = h[u] \div after[u]
        /\ Share(channel, before, contended)[u] = g[u] \div before[u]
    BY <1>3, <1>7, ShareCases
  <2>2. /\ demand \in [InUse(before) -> Nat] /\ wanted \in [InUse(after) -> Nat]
        /\ g \in [InUse(before) -> Nat] /\ h \in [InUse(after) -> Nat]
        /\ g[u] <= demand[u] /\ h[u] <= wanted[u]
    <3>1. demand \in [InUse(before) -> Nat] /\ FairFill(g, demand, channel.ceiling, InUse(before))
      BY <1>1, GrantsFair
    <3>2. wanted \in [InUse(after) -> Nat] /\ FairFill(h, wanted, channel.ceiling, InUse(after))
      BY <1>1, GrantsFair
    <3> HIDE DEF demand, wanted, g, h
    <3>. QED
      BY <1>3, <3>1, <3>2 DEF FairFill
  <2>3. ASSUME NEW v \in InUse(before) PROVE demand[v] <= wanted[v]
    <3>1. /\ v \in Sharers /\ v \in InUse(after)
          /\ before[v] \in Nat /\ after[v] \in Nat /\ before[v] <= after[v]
      BY <1>1, <1>2 DEF InUse
    <3>2. /\ demand[v] = Lesser(before[v] * channel.eff, UnitCap(channel, v))
          /\ wanted[v] = Lesser(after[v] * channel.eff, UnitCap(channel, v))
      BY <3>1 DEF Demands, Demand
    <3>3. before[v] * channel.eff \in Nat /\ after[v] * channel.eff \in Nat
          /\ before[v] * channel.eff <= after[v] * channel.eff
      BY <1>5, <3>1
    <3>4. UnitCap(channel, v) \in Nat
      BY UnitCapNat
    <3>. QED
      BY <3>2, <3>3, <3>4 DEF Lesser
  <2>4. g[u] \in Nat /\ h[u] \in Nat /\ demand[u] \in Nat /\ wanted[u] \in Nat
    <3> HIDE DEF demand, wanted, g, h
    <3>. QED
      BY <1>3, <2>2
  <2>5. CASE g[u] < demand[u]
    <3>1. h[u] <= g[u]
      <4>1. g = Waterfill(demand, channel.ceiling) /\ h = Waterfill(wanted, channel.ceiling)
        BY DEF Grants
      <4> HIDE DEF demand, wanted, g, h
      <4>. QED
        BY <1>2, <1>5, <2>2, <2>3, <2>5, <4>1, MoreDemandGivesLess
    <3> HIDE DEF g, h
    <3>2. h[u] \div after[u] <= g[u] \div before[u]
      BY <1>3, <2>4, <3>1, DivMonotone
    <3>. QED
      BY <2>1, <3>2 DEF g, h
  <2>6. CASE ~(g[u] < demand[u])
    <3>1. g[u] = demand[u]
      <4> HIDE DEF demand, g
      <4>. QED
        BY <2>2, <2>4, <2>6
    <3>2. /\ demand[u] = before[u] * channel.eff \/ demand[u] = UnitCap(channel, u)
          /\ wanted[u] <= after[u] * channel.eff /\ wanted[u] <= UnitCap(channel, u)
          /\ UnitCap(channel, u) \in Nat
      <4>1. demand[u] = Demand(channel, before[u], u) /\ wanted[u] = Demand(channel, after[u], u)
        BY <1>3 DEF Demands
      <4>2. /\ Demand(channel, before[u], u) = before[u] * channel.eff
               \/ Demand(channel, before[u], u) = UnitCap(channel, u)
            /\ Demand(channel, after[u], u) <= after[u] * channel.eff
            /\ Demand(channel, after[u], u) <= UnitCap(channel, u)
        BY <1>3, DemandFacts
      <4> HIDE DEF demand, wanted
      <4>. QED
        BY <4>1, <4>2, UnitCapNat
    <3> DEFINE p == h[u] \div after[u]
               q == g[u] \div before[u]
    <3>3. p \in Int /\ q \in Int /\ p * after[u] <= h[u]
      <4> HIDE DEF g, h
      <4>1. h[u] \div after[u] \in Int /\ (h[u] \div after[u]) * after[u] <= h[u]
        BY <1>3, <2>4, DivFacts
      <4>2. g[u] \div before[u] \in Int
        BY <1>3, <2>4, DivFacts
      <4>. QED
        BY <4>1, <4>2
    <3>4. CASE demand[u] = before[u] * channel.eff
      <4>1. channel.eff <= q
        <5>1. channel.eff * before[u] <= g[u]
          BY <1>3, <1>5, <3>1, <3>4
        <5> HIDE DEF g
        <5>. QED
          BY <1>3, <1>5, <2>4, <5>1, DivGreatest
      <4>2. p <= channel.eff
        <5> HIDE DEF p, g, h, demand, wanted
        <5>1. /\ p * after[u] \in Int /\ after[u] * channel.eff \in Int
              /\ channel.eff * after[u] = after[u] * channel.eff
          BY <1>3, <1>5, <3>3
        <5>2. p * after[u] < channel.eff * after[u] + after[u]
          BY <1>3, <2>2, <2>4, <3>2, <3>3, <5>1
        <5>. QED
          BY <1>3, <1>5, <3>3, <5>2, DivBelow
      <4> HIDE DEF p, q
      <4>3. p <= q
        BY <1>5, <3>3, <4>1, <4>2
      <4>. QED
        BY <2>1, <4>3 DEF p, q
    <3>5. CASE demand[u] = UnitCap(channel, u)
      <4> HIDE DEF g, h, demand, wanted
      <4>1. h[u] <= g[u]
        BY <2>2, <2>4, <3>1, <3>2, <3>5
      <4>2. p <= q
        BY <1>3, <2>4, <4>1, DivMonotone
      <4>. QED
        BY <2>1, <4>2 DEF g, h
    <3>. QED
      BY <3>2, <3>4, <3>5
  <2>. QED
    BY <2>5, <2>6
<1>. QED
  BY <1>5, <1>6, <1>7

(* ... and there is one more in flight.                                      *)
LEMMA OneMoreInFlight ==
  ASSUME NEW before \in [Sharers -> Nat], NEW s \in Sharers,
         NEW after, after = [before EXCEPT ![s] = @ + 1]
  PROVE  /\ SumOver(after, Sharers) = SumOver(before, Sharers) + 1
         /\ SumOver(before, Sharers) \in Nat
<1>1. IsFiniteSet(Sharers) /\ after \in [Sharers -> Nat] /\ after[s] = before[s] + 1
      /\ \A v \in Sharers \ {s} : after[v] = before[v]
  BY SharersAssumption
<1>2. SumOver(after, Sharers) = after[s] + SumOver(after, Sharers \ {s})
  <2>1. \A v \in Sharers : after[v] \in Int
    BY <1>1
  <2>. QED
    BY <1>1, <2>1, SumRemove
<1>3. SumOver(before, Sharers) = before[s] + SumOver(before, Sharers \ {s})
  BY <1>1, SumRemove
<1>4. SumOver(before, Sharers \ {s}) = SumOver(after, Sharers \ {s})
  <2>1. /\ IsFiniteSet(Sharers \ {s})
        /\ \A v \in Sharers \ {s} : before[v] \in Int /\ after[v] = before[v]
    BY <1>1, FS_Subset
  <2>. QED
    BY <2>1, SumEqual
<1>5. SumOver(before, Sharers \ {s}) \in Nat
  <2>1. IsFiniteSet(Sharers \ {s}) /\ \A v \in Sharers \ {s} : before[v] \in Nat
    BY <1>1, FS_Subset
  <2>. QED
    BY <2>1, SumNat
<1>. QED
  BY <1>1, <1>2, <1>3, <1>4, <1>5

(* A stream that opens makes no other faster and one that closes makes no    *)
(* other slower, in every profile and with any streams in flight: the        *)
(* re-computation of the shares at every event only ever hands bandwidth     *)
(* over.                                                                    *)
THEOREM StreamsOnlyCompete == FlightSpec => NeighboursOnlyLose
<1> DEFINE others == Drawing \cap {u \in Sharers : flight'[u] > 0}
           Competes == /\ InFlight' > InFlight => \A u \in others : Rate'[u] <= Rate[u]
                       /\ InFlight' < InFlight => \A u \in others : Rate'[u] >= Rate[u]
<1>1. FlightTypes /\ FlightTypes' /\ FlightNext => Competes
  <2>. SUFFICES ASSUME FlightTypes, FlightTypes', FlightNext PROVE Competes
    OBVIOUS
  <2>1. /\ ValidChannel(profile) /\ contends \in BOOLEAN
        /\ flight \in [Sharers -> Nat] /\ flight' \in [Sharers -> Nat]
    BY BusyIsInUse DEF FlightTypes
  <2>2. \A u \in others : u \in Sharers /\ u \in InUse(flight) /\ u \in InUse(flight')
    BY <2>1 DEF Drawing, InUse
  <2>3. ASSUME NEW s \in Sharers, Open(s) PROVE Competes
    <3>1. profile' = profile /\ contends' = contends /\ flight' = [flight EXCEPT ![s] = @ + 1]
      BY <2>3 DEF Open
    <3>2. \A u \in others :
            Share(profile, flight', contends)[u] <= Share(profile, flight, contends)[u]
      BY <2>1, <2>2, <3>1, OneMoreStream
    <3>3. InFlight' = InFlight + 1 /\ InFlight \in Nat
      BY <2>1, <3>1, OneMoreInFlight DEF InFlight
    <3> HIDE DEF others
    <3>4. ~(InFlight' < InFlight)
      BY <3>3
    <3>5. \A u \in others : Rate'[u] <= Rate[u]
      BY <3>1, <3>2 DEF Rate
    <3>. QED
      BY <3>4, <3>5
  <2>4. ASSUME NEW s \in Sharers, Close(s) PROVE Competes
    <3>1. profile' = profile /\ contends' = contends /\ flight = [flight' EXCEPT ![s] = @ + 1]
      <4>1. profile' = profile /\ contends' = contends /\ flight' = [flight EXCEPT ![s] = @ - 1]
        BY <2>4 DEF Close
      <4>2. flight = [flight' EXCEPT ![s] = @ + 1]
        <5> DEFINE again == [flight' EXCEPT ![s] = @ + 1]
        <5>1. again = [v \in Sharers |-> again[v]] /\ flight = [v \in Sharers |-> flight[v]]
          BY <2>1
        <5>2. ASSUME NEW v \in Sharers PROVE again[v] = flight[v]
          <6>1. flight[v] \in Nat /\ flight'[v] = IF v = s THEN flight[v] - 1 ELSE flight[v]
            BY <2>1, <4>1
          <6>2. again[v] = IF v = s THEN flight'[v] + 1 ELSE flight'[v]
            BY <2>1
          <6>. QED
            BY <6>1, <6>2
        <5> HIDE DEF again
        <5>3. again = flight
          BY <5>1, <5>2
        <5>. QED
          BY <5>3 DEF again
      <4>. QED
        BY <4>1, <4>2
    <3>2. \A u \in others :
            Share(profile, flight, contends)[u] <= Share(profile, flight', contends)[u]
      BY <2>1, <2>2, <3>1, OneMoreStream
    <3>3. InFlight = InFlight' + 1 /\ InFlight' \in Nat
      BY <2>1, <3>1, OneMoreInFlight DEF InFlight
    <3>4. \A u \in others : Rate[u] \in Nat /\ Rate'[u] \in Nat
      <4>1. Rate \in [InUse(flight) -> Nat]
        BY <2>1, SharersAssumption, ShareIsBounded DEF Rate
      <4>2. Share(profile, flight', contends) \in [InUse(flight') -> Nat]
        BY <2>1, SharersAssumption, ShareIsBounded
      <4>3. Rate' = Share(profile, flight', contends)
        BY <3>1 DEF Rate
      <4>. QED
        BY <2>2, <4>1, <4>2, <4>3
    <3> HIDE DEF others, Competes
    <3>5. ~(InFlight' > InFlight)
      <4>1. \A a, b \in Int : a = b + 1 => ~(b > a)
        OBVIOUS
      <4>2. InFlight \in Int /\ InFlight' \in Int
        BY <3>3
      <4>. QED
        BY <3>3, <4>1, <4>2
    <3>6. \A u \in others : Rate'[u] >= Rate[u]
      <4>1. Rate = Share(profile, flight, contends) /\ Rate' = Share(profile, flight', contends)
        BY <3>1 DEF Rate
      <4>. QED
        BY <3>2, <3>4, <4>1
    <3>. QED
      BY <3>5, <3>6 DEF Competes
  <2>. QED
    BY <2>3, <2>4 DEF FlightNext
<1>2. FlightTypes /\ FlightTypes' /\ [FlightNext]_flightVars => [Competes]_flightVars
  BY <1>1
<1>3. [][Competes]_flightVars => NeighboursOnlyLose
  BY DEF NeighboursOnlyLose
<1>. QED
  BY <1>2, <1>3, FlightTyped, PTL DEF FlightSpec

=============================================================================
