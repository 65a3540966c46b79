---------------------------- MODULE RunnerProofs ----------------------------
(***************************************************************************)
(* Theorems about Runner for every table of profiles and memories, every     *)
(* value the fields are given or set to, any number of edits and whatever    *)
(* the engine answers: the label of a report is true of the run it is from,  *)
(* what validate() accepts the platform accepts, and the chunk count         *)
(* reported is one of the best.                                              *)
(***************************************************************************)
EXTENDS Runner, WellFoundedInduction, TLAPS

(* A non-empty set of naturals has its Min.                                  *)
LEMMA MinOfNaturals ==
  ASSUME NEW S \in SUBSET Nat, S # {}
  PROVE  Min(S) \in S /\ \A x \in S : Min(S) <= x
<1>1. PICK m \in S : \A x \in S : ~(<<x, m>> \in OpToRel(<, Nat))
  BY NatLessThanWellFounded, WFMin, Zenon
<1>2. \A x \in S : m <= x
  <2>. SUFFICES ASSUME NEW x \in S PROVE ~(x < m)
    OBVIOUS
  <2>1. x < m => <<x, m>> \in OpToRel(<, Nat)
    <3>. SUFFICES ASSUME x < m PROVE <<x, m>> \in OpToRel(<, Nat)
      OBVIOUS
    <3>1. <<x, m>> \in Nat \X Nat /\ <<x, m>>[1] < <<x, m>>[2]
      OBVIOUS
    <3>. QED
      BY <3>1, Zenon DEF OpToRel
  <2>. QED
    BY <1>1, <2>1
<1>. QED
  BY <1>2, Zenon DEF Min

(* The lesser of two, as Min gives it.                                        *)
LEMMA MinOfTwo ==
  ASSUME NEW a \in Int, NEW b \in Int
  PROVE  Min({a, b}) = IF a <= b THEN a ELSE b
<1> DEFINE m == IF a <= b THEN a ELSE b
<1>1. m \in {a, b} /\ \A y \in {a, b} : m <= y
  OBVIOUS
<1>2. \A x \in {a, b} : (\A y \in {a, b} : x <= y) => x = m
  OBVIOUS
<1> HIDE DEF m
<1>3. Min({a, b}) \in {a, b} /\ \A y \in {a, b} : Min({a, b}) <= y
  BY <1>1, Zenon DEF Min
<1>. QED
  BY <1>2, <1>3 DEF m

(* Likewise the greater.                                                     *)
LEMMA MaxOfTwo ==
  ASSUME NEW a \in Int, NEW b \in Int
  PROVE  Max({a, b}) = IF a >= b THEN a ELSE b
<1> DEFINE m == IF a >= b THEN a ELSE b
<1>1. m \in {a, b} /\ \A y \in {a, b} : m >= y
  OBVIOUS
<1>2. \A x \in {a, b} : (\A y \in {a, b} : x >= y) => x = m
  OBVIOUS
<1> HIDE DEF m
<1>3. Max({a, b}) \in {a, b} /\ \A y \in {a, b} : Max({a, b}) >= y
  BY <1>1, Zenon DEF Max
<1>. QED
  BY <1>2, <1>3 DEF m

-----------------------------------------------------------------------------
(* A configuration: a value for every field, numbers where they are needed.  *)
Typed(c) ==
  /\ c = [f \in Fields |-> c[f]]
  /\ c.prefill_len \in Int /\ c.decode_len \in Int /\ c.context \in Int
  /\ c.bw_efficiency \subseteq Int

(* The fields the bounds below are about are fields of the dataclass.        *)
LEMMA FieldNames ==
  {"prefill_len", "decode_len", "context", "bw_efficiency", "topology", "soc_profile"} \subseteq Fields
BY DEF Fields, Default

(* Whatever the dictionary gives, what from_dict makes of it is one.         *)
LEMMA FromDictTyped ==
  ASSUME NEW given, \A x \in DOMAIN given \cap DOMAIN Values : given[x] \in Values[x],
         DOMAIN given \subseteq DOMAIN Values
  PROVE  Typed(FromDict(given))
<1> DEFINE c == [f \in Fields |-> IF f \in DOMAIN given THEN given[f] ELSE Default[f]]
<1>1. \A x \in {"prefill_len", "decode_len", "context"} : c[x] \in Int
  <2>. SUFFICES ASSUME NEW x \in {"prefill_len", "decode_len", "context"} PROVE c[x] \in Int
    OBVIOUS
  <2>1. c[x] = IF x \in DOMAIN given THEN given[x] ELSE Default[x]
    BY FieldNames
  <2>2. Default[x] \in Int
    BY DEF Default
  <2>3. x \in DOMAIN given => given[x] \in Int
    BY ValuesAssumption
  <2>. QED
    BY <2>1, <2>2, <2>3
<1>2. c["bw_efficiency"] \subseteq Int
  <2>1. c["bw_efficiency"] =
          IF "bw_efficiency" \in DOMAIN given THEN given["bw_efficiency"] ELSE Default["bw_efficiency"]
    BY FieldNames
  <2>2. Default["bw_efficiency"] = {}
    BY DEF Default
  <2>3. "bw_efficiency" \in DOMAIN given => given["bw_efficiency"] \subseteq Int
    BY ValuesAssumption
  <2>. QED
    BY <2>1, <2>2, <2>3
<1>3. c = [f \in Fields |-> c[f]]
  OBVIOUS
<1> DEFINE t == IF c.soc_profile = {} THEN c.topology ELSE Profile(c).topology
<1>4. FromDict(given) = IF "topology" \in DOMAIN given THEN c ELSE [c EXCEPT !.topology = t]
  BY DEF FromDict
<1> HIDE DEF c, t
<1>5. Typed(c)
  BY <1>1, <1>2, <1>3 DEF Typed
<1>6. Typed([c EXCEPT !.topology = t])
  BY <1>5, FieldNames DEF Typed
<1>. QED
  BY <1>4, <1>5, <1>6

(* A field set to one of its values leaves a configuration a configuration.  *)
LEMMA EditTyped ==
  ASSUME NEW c, Typed(c), NEW f \in DOMAIN Values, NEW v \in Values[f]
  PROVE  Typed([c EXCEPT ![f] = v])
BY ValuesAssumption, FieldNames DEF Typed

-----------------------------------------------------------------------------
(* A configuration that nothing is flagged of has the anchor's inputs.       *)
LEMMA UnflaggedIsAnchor ==
  ASSUME NEW c, Provenance(c) = {}
  PROVE  TimingInputs(c) = TimingInputs(Default)
<1> DEFINE d == Departures(c)
<1>1. \A x \in DOMAIN d : ~d[x]
  BY DEF Provenance
<1>2. /\ c.topology = "card" /\ c.soc_profile = {} /\ c.bw_efficiency = {}
      /\ c.npu_scale = 100 /\ c.knee_GBs = {} /\ c.interconnect_efficiency = 100
      /\ c.scheduler = "all_cim" /\ c.prefill_chunks = {1}
      /\ c.sync_mode = "fast" /\ c.sync_us_override = {}
      /\ ~c.pipeline /\ ~c.compute_off /\ ~c.concurrency_off /\ ~c.contention_off
      /\ Given(c.cim_n_cores, CalCores) = CalCores
      /\ Given(c.cpu_gemv_efficiency, Profile(c).gemv) = Profile(c).gemv
  BY <1>1 DEF Departures
<1>3. Profile(c) = Profile(Default)
  BY <1>2 DEF Profile, Given, Default
<1>4. StreamBW(c) = StreamBW(Default) /\ Knee(c) = Knee(Default)
  BY <1>2, <1>3 DEF StreamBW, Knee, Given, Default
<1>5. /\ Default.topology = "card" /\ Default.soc_profile = {} /\ Default.bw_efficiency = {}
      /\ Default.npu_scale = 100 /\ Default.knee_GBs = {} /\ Default.interconnect_efficiency = 100
      /\ Default.scheduler = "all_cim" /\ Default.prefill_chunks = {1}
      /\ Default.sync_mode = "fast" /\ Default.sync_us_override = {}
      /\ Default.pipeline = FALSE /\ ~Default.compute_off /\ ~Default.concurrency_off /\ ~Default.contention_off
      /\ Given(Default.cim_n_cores, CalCores) = CalCores
      /\ Given(Default.cpu_gemv_efficiency, Profile(Default).gemv) = Profile(Default).gemv
  BY DEF Default, Given
<1>6. (c.pipeline \/ c.scheduler \in Pipelined) = (Default.pipeline \/ Default.scheduler \in Pipelined)
  BY <1>2, <1>5
<1>. QED
  BY <1>2, <1>3, <1>4, <1>5, <1>6 DEF TimingInputs

(* What validate() accepts, the platform accepts.                            *)
LEMMA ValidIsAccepted ==
  ASSUME NEW c, Typed(c), Valid(c)
  PROVE  PlatformAccepts(c)
<1>1. /\ c.topology \in DOMAIN RequiredMemory
      /\ c.memory_spec # {} => c.memory_spec = RequiredMemory[c.topology]
      /\ Given(c.bw_efficiency, 1) > 0
      /\ c.interconnect_efficiency > 0
      /\ Given(c.knee_GBs, 1) > 0
      /\ c.soc_profile # {} => /\ c.soc_profile \subseteq DOMAIN Profiles
                               /\ c.topology = Profile(c).topology
                               /\ c.bw_efficiency = {}
      /\ c.bw_efficiency # {} => c.topology = "card"
  BY DEF Valid, ValidMemory
<1>2. /\ c.npu_scale > 0
      /\ Within(c.cpu_gemv_efficiency, 1, 100)
      /\ Within(c.cim_weight_bytes_per_param, 1, 400) /\ Within(c.cim_weight_budget_frac, 0, 100)
  BY DEF Valid, ValidUnits
<1>3. c.bw_efficiency # {} => ResolvedMemory(c) = {"lpddr4x"}
  BY <1>1 DEF ResolvedMemory, RequiredMemory
<1>4. StreamBW(c) > 0 \/ c.soc_profile # {}
  <2>1. CASE c.soc_profile = {} /\ c.bw_efficiency # {}
    <3> DEFINE e == Given(c.bw_efficiency, 1)
               peak == PeakBW["lpddr4x"]
    <3>1. e \in Int /\ e > 0
      BY <1>1, <2>1 DEF Given, Typed
    <3>2. peak \in Nat /\ peak >= 100
      BY SpecsAssumption DEF RequiredMemory
    <3>3. StreamBW(c) = (peak * e) \div 100
      <4>1. Given(ResolvedMemory(c), "") = "lpddr4x"
        BY <1>3, <2>1 DEF Given
      <4>. QED
        BY <2>1, <4>1, Zenon DEF StreamBW
    <3> HIDE DEF e, peak
    <3>4. peak * e >= 100 /\ peak * e \in Int
      BY <3>1, <3>2
    <3>. QED
      BY <3>3, <3>4
  <2>2. CASE c.soc_profile = {} /\ c.bw_efficiency = {}
    <3>1. StreamBW(c) = TopologyBW[c.topology]
      BY <2>2, Zenon DEF StreamBW
    <3>. QED
      BY <3>1, <1>1, SpecsAssumption
  <2>. QED
    BY <2>1, <2>2
<1>5. c.soc_profile # {} => Profile(c).knee > 0
  BY <1>1, SpecsAssumption DEF Profile, Given
<1>6. Knee(c) > 0
  BY <1>1, <1>4, <1>5 DEF Knee, Given
<1>. QED
  BY <1>1, <1>2, <1>3, <1>6 DEF PlatformAccepts

(* The positions decoded lie between the prompt and the context.             *)
LEMMA KvPointsWithin ==
  ASSUME NEW c, Typed(c), Valid(c)
  PROVE  KvPoints(c) \subseteq c.prefill_len..c.context
<1> DEFINE p == c.prefill_len
           d == c.decode_len
           x == c.context
           m == Min({x, p + d})
           high == Max({1, m})
           l == Min({p, high})
           low == Max({1, l})
<1>1. p \in Int /\ d \in Int /\ x \in Int /\ p >= 1 /\ d >= 1 /\ x >= 1 /\ p <= x
  BY DEF Typed, Valid, ValidWorkload
<1> HIDE DEF p, d, x
<1>2. m = IF x <= p + d THEN x ELSE p + d
  BY <1>1, MinOfTwo
<1> HIDE DEF m
<1>3. m \in Int /\ p <= m /\ m <= x /\ high = m
  <2>1. m \in Int /\ p <= m /\ m <= x
    BY <1>1, <1>2
  <2>. QED
    BY <1>1, <2>1, MaxOfTwo
<1> HIDE DEF high
<1>4. l = p
  BY <1>1, <1>3, MinOfTwo
<1> HIDE DEF l
<1>5. low = p
  BY <1>1, <1>4, MaxOfTwo
<1> HIDE DEF low
<1>6. KvPoints(c) = {low, (low + high) \div 2, high}
  BY DEF KvPoints, low, high, l, m, p, d, x
<1>7. (p + m) \div 2 \in Int /\ p <= (p + m) \div 2 /\ (p + m) \div 2 <= m
  BY <1>1, <1>3
<1>. QED
  BY <1>1, <1>3, <1>5, <1>6, <1>7 DEF p, x

-----------------------------------------------------------------------------
(* Within a run: the flags are of the configuration as it stands, which      *)
(* validates; the chunk count kept beats, up to the tolerance, every other   *)
(* tried.                                                                    *)
Portfolio ==
  /\ tried \subseteq cfg.prefill_chunks /\ cfg.prefill_chunks \subseteq Nat
  /\ chunkUs \in [tried -> Nat]
  /\ tried = {} => kept = None
  /\ tried # {} => kept \in tried /\ \A C \in tried : chunkUs[kept] <= chunkUs[C] + Eps

RunnerInv ==
  /\ cfg = None \/ Typed(cfg)
  /\ cfg = None => pc = "idle"
  /\ pc \in {"idle", "prefill"}
  /\ pc = "idle" => tried = {} /\ chunkUs = <<>> /\ kept = None
  /\ pc = "prefill" =>
       /\ provenance = Provenance(cfg)
       /\ kvPoints \subseteq cfg.prefill_len..cfg.context
       /\ cfg.prefill_chunks # {}
       /\ Portfolio
  /\ LabelTruthful
  /\ AcceptedRuns
  /\ ChunksReported

(* No configuration, no run.                                                 *)
LEMMA InitRunner == Init => RunnerInv
BY DEF Init, RunnerInv, LabelTruthful, AcceptedRuns, ChunksReported

(* A configuration that can be read is typed.                                *)
LEMMA ConstructRunner == RunnerInv /\ Construct => RunnerInv'
<1>. SUFFICES ASSUME RunnerInv, Construct PROVE RunnerInv'
  OBVIOUS
<1>1. PICK f \in DOMAIN Values, h \in DOMAIN Values :
        \E v \in Values[f], w \in Values[h] :
          cfg' = FromDict([x \in {f, h} |-> IF x = f THEN v ELSE w])
  BY DEF Construct
<1>2. PICK v \in Values[f], w \in Values[h] :
        cfg' = FromDict([x \in {f, h} |-> IF x = f THEN v ELSE w])
  BY <1>1
<1> DEFINE given == [x \in {f, h} |-> IF x = f THEN v ELSE w]
<1>3. DOMAIN given \subseteq DOMAIN Values /\ \A x \in DOMAIN given : given[x] \in Values[x]
  BY <1>2
<1> HIDE DEF given
<1>4. Typed(FromDict(given))
  BY <1>3, FromDictTyped
<1>5. Typed(cfg')
  BY <1>2, <1>4 DEF given
<1>6. cfg = None /\ UNCHANGED <<edits, pc, run, outcome, report>>
  BY DEF Construct
<1>7. pc = "idle"
  BY <1>6 DEF RunnerInv
<1>. QED
  BY <1>5, <1>6, <1>7 DEF RunnerInv, LabelTruthful, AcceptedRuns, ChunksReported, run

(* An edit leaves it typed, and takes the report with it.                    *)
LEMMA EditRunner == RunnerInv /\ Edit => RunnerInv'
<1>. SUFFICES ASSUME RunnerInv, Edit PROVE RunnerInv'
  OBVIOUS
<1>1. PICK f \in DOMAIN Values, v \in UNION {Values[g] : g \in DOMAIN Values} :
        v \in Values[f] /\ cfg' = [cfg EXCEPT ![f] = v]
  BY DEF Edit
<1>2. Typed(cfg')
  <2>1. Typed(cfg)
    BY DEF Edit, RunnerInv
  <2>2. Typed([cfg EXCEPT ![f] = v])
    BY <1>1, <2>1, EditTyped
  <2>. QED
    BY <1>1, <2>2, Zenon
<1>3. pc = "idle" /\ outcome' = "none" /\ report' = None /\ UNCHANGED <<pc, run>>
  BY DEF Edit
<1>. QED
  BY <1>2, <1>3 DEF RunnerInv, LabelTruthful, AcceptedRuns, ChunksReported, run

(* A run starts with the flags of the configuration as it is now; the gate   *)
(* of the platform is never the one that is closed.                          *)
LEMMA StartRunner == RunnerInv /\ Start => RunnerInv'
<1>. SUFFICES ASSUME RunnerInv, Start PROVE RunnerInv'
  OBVIOUS
<1>1. cfg # None /\ pc = "idle" /\ Typed(cfg) /\ outcome = "none"
  BY DEF Start, RunnerInv
<1>2. CASE ~Valid(cfg) /\ Fails("invalid") /\ UNCHANGED provenance
  BY <1>1, <1>2 DEF Fails, RunnerInv, LabelTruthful, AcceptedRuns, ChunksReported, run
<1> DEFINE closed == {i \in DOMAIN Gates(cfg) : ~Gates(cfg)[i][2]}
<1>3. CASE Valid(cfg) /\ closed # {} /\ Fails(Gates(cfg)[Min(closed)][1])
  <2>1. closed \subseteq {1, 2, 4, 5}
    <3>1. PlatformAccepts(cfg)
      BY <1>1, <1>3, ValidIsAccepted
    <3>2. DOMAIN Gates(cfg) = 1..5
      BY DEF Gates
    <3>3. Gates(cfg)[3] = <<"platform", PlatformAccepts(cfg)>>
      BY Zenon DEF Gates
    <3>4. Gates(cfg)[3][2]
      <4>1. \A a, b : <<a, b>>[2] = b
        OBVIOUS
      <4>2. Gates(cfg)[3][2] = PlatformAccepts(cfg)
        BY <3>3, <4>1, Zenon
      <4>. QED
        BY <3>1, <4>2, Zenon
    <3>5. 3 \notin closed
      BY <3>4, Zenon
    <3>6. closed \subseteq 1..5
      BY <3>2
    <3> HIDE DEF closed
    <3>. QED
      BY <3>5, <3>6
  <2> HIDE DEF closed
  <2>2. closed \in SUBSET Nat
    BY <2>1
  <2>3. Min(closed) \in {1, 2, 4, 5}
    BY <1>3, <2>1, <2>2, MinOfNaturals
  <2>4. Gates(cfg)[Min(closed)][1] # "platform"
    BY <2>3 DEF Gates
  <2>. QED
    BY <1>1, <1>3, <2>4 DEF Fails, RunnerInv, LabelTruthful, AcceptedRuns, ChunksReported, run
<1>4. CASE /\ Valid(cfg) /\ provenance' = Revalidated(cfg)
           /\ pc' = "prefill" /\ kvPoints' = KvPoints(cfg)
           /\ outcome' = "running"
           /\ UNCHANGED <<cfg, edits, tried, chunkUs, kept, report>>
  <2>1. kvPoints' \subseteq cfg.prefill_len..cfg.context
    BY <1>1, <1>4, KvPointsWithin
  <2>2. provenance' = Provenance(cfg)
    BY <1>4 DEF Revalidated
  <2>3. cfg.prefill_chunks # {} /\ cfg.prefill_chunks \subseteq Nat
    BY <1>4 DEF Valid, ValidScheduler
  <2>4. tried = {} /\ chunkUs \in [{} -> Nat] /\ kept = None
    BY <1>1 DEF RunnerInv
  <2>. QED
    BY <1>1, <1>4, <2>1, <2>2, <2>3, <2>4
    DEF RunnerInv, Portfolio, LabelTruthful, AcceptedRuns, ChunksReported
<1>. QED
  BY <1>2, <1>3, <1>4 DEF Start

(* One more chunk count, kept if it wins by more than the tolerance.         *)
LEMMA TryRunner == RunnerInv /\ TryChunks => RunnerInv'
<1>. SUFFICES ASSUME RunnerInv, TryChunks PROVE RunnerInv'
  OBVIOUS
<1> DEFINE C == Min(cfg.prefill_chunks \ tried)
<1>1. /\ pc = "prefill" /\ tried # cfg.prefill_chunks
      /\ UNCHANGED <<cfg, provenance, edits, pc, kvPoints, outcome, report>>
  BY DEF TryChunks
<1>2. Portfolio /\ Eps \in Nat
  BY <1>1, TimesAssumption DEF RunnerInv
<1>3. PICK us \in Times :
        /\ tried' = tried \cup {C}
        /\ chunkUs' = [k \in tried' |-> IF k = C THEN us ELSE chunkUs[k]]
        /\ kept' = IF kept = None THEN C ELSE IF Improves(us, chunkUs[kept]) THEN C ELSE kept
  BY DEF TryChunks
<1>4. us \in Nat
  BY TimesAssumption
<1>5. C \in cfg.prefill_chunks \ tried /\ C \in Nat
  <2>1. cfg.prefill_chunks \ tried # {} /\ cfg.prefill_chunks \ tried \in SUBSET Nat
    BY <1>1, <1>2 DEF Portfolio
  <2>. QED
    BY <2>1, MinOfNaturals
<1> HIDE DEF C
<1>6. chunkUs' \in [tried' -> Nat] /\ chunkUs'[C] = us /\ \A k \in tried : chunkUs'[k] = chunkUs[k]
  BY <1>2, <1>3, <1>4, <1>5 DEF Portfolio
<1>7. kept' \in tried' /\ \A k \in tried' : chunkUs'[kept'] <= chunkUs'[k] + Eps
  <2>1. CASE tried = {}
    <3>1. kept' = C /\ tried' = {C}
      BY <2>1, <1>2, <1>3 DEF Portfolio
    <3>. QED
      BY <3>1, <1>2, <1>4, <1>6
  <2>2. CASE tried # {}
    <3>1. /\ kept \in tried /\ chunkUs[kept] \in Nat
          /\ \A k \in tried : chunkUs[kept] <= chunkUs[k] + Eps /\ chunkUs[k] \in Nat
      BY <2>2, <1>2 DEF Portfolio
    <3>2. kept # None
      BY <3>1, <1>2, NoneAssumption DEF Portfolio
    <3>3. CASE us < chunkUs[kept] - Eps
      <4>1. kept' = C
        BY <3>2, <3>3, <1>3 DEF Improves
      <4>2. \A k \in tried : us <= chunkUs[k] + Eps
        BY <3>1, <3>3, <1>2, <1>4
      <4>. QED
        BY <4>1, <4>2, <1>2, <1>3, <1>4, <1>6
    <3>4. CASE ~(us < chunkUs[kept] - Eps)
      <4>1. kept' = kept
        BY <3>2, <3>4, <1>3 DEF Improves
      <4>2. chunkUs[kept] <= us + Eps
        BY <3>1, <3>4, <1>2, <1>4
      <4>. QED
        BY <3>1, <4>1, <4>2, <1>3, <1>6
    <3>. QED
      BY <3>3, <3>4
  <2>. QED
    BY <2>1, <2>2
<1>8. Portfolio'
  BY <1>1, <1>2, <1>3, <1>5, <1>6, <1>7 DEF Portfolio
<1>. QED
  BY <1>1, <1>8 DEF RunnerInv, LabelTruthful, AcceptedRuns, ChunksReported

(* The report is of the run that has just ended.                             *)
LEMMA ReportRunner == RunnerInv /\ Report => RunnerInv'
<1>. SUFFICES ASSUME RunnerInv, Report PROVE RunnerInv'
  OBVIOUS
<1> DEFINE best == chunkUs[kept]
           close == {C \in tried : chunkUs[C] \in (best - Eps)..(best + Eps)}
<1>1. /\ pc = "prefill" /\ tried = cfg.prefill_chunks
      /\ report' = [calibrated |-> provenance = {}, inputs |-> TimingInputs(cfg),
                    chunks |-> Min(close), us |-> best, chunkUs |-> chunkUs, kept |-> kept,
                    kv |-> kvPoints, window |-> <<cfg.prefill_len, cfg.context>>]
      /\ pc' = "idle" /\ outcome' = "reported"
      /\ tried' = {} /\ chunkUs' = <<>> /\ kept' = None
      /\ UNCHANGED <<cfg, provenance, edits>>
  BY DEF Report
<1>2. Portfolio /\ Eps \in Nat /\ cfg # None /\ Typed(cfg) /\ tried # {}
      /\ provenance = Provenance(cfg) /\ kvPoints \subseteq cfg.prefill_len..cfg.context
  BY <1>1, TimesAssumption DEF RunnerInv
<1>3. /\ kept \in tried /\ tried \subseteq Nat /\ best \in Nat
      /\ \A C \in tried : best <= chunkUs[C] + Eps
      /\ DOMAIN chunkUs = tried
  BY <1>2 DEF Portfolio
<1> HIDE DEF best
<1>4. kept \in close /\ close \in SUBSET Nat
  <2>1. chunkUs[kept] = best
    BY DEF best
  <2>2. best \in (best - Eps)..(best + Eps)
    BY <1>2, <1>3
  <2>. QED
    BY <1>3, <2>1, <2>2
<1>5. Min(close) \in close /\ Min(close) <= kept
  <2> HIDE DEF close
  <2>. QED
    BY <1>4, MinOfNaturals
<1>6. chunkUs[Min(close)] \in (best - Eps)..(best + Eps)
  BY <1>5
<1> HIDE DEF close
<1>7. /\ report'.us = best /\ report'.chunks = Min(close) /\ report'.chunkUs = chunkUs
      /\ report'.kept = kept /\ report'.kv = kvPoints
      /\ report'.window = <<cfg.prefill_len, cfg.context>>
      /\ report'.inputs = TimingInputs(cfg)
  BY <1>1
<1>8. ChunksReported'
  BY <1>3, <1>5, <1>6, <1>7 DEF ChunksReported
<1>9. AcceptedRuns'
  BY <1>1, <1>2, <1>7 DEF AcceptedRuns
<1>10. LabelTruthful'
  <2>1. report'.calibrated => Provenance(cfg) = {}
    BY <1>1, <1>2
  <2>. QED
    BY <1>7, <2>1, UnflaggedIsAnchor DEF LabelTruthful
<1>. QED
  BY <1>1, <1>2, <1>8, <1>9, <1>10 DEF RunnerInv

(* The invariant holds of every run of every configuration.                  *)
THEOREM RunnerInvariant == Spec => []RunnerInv
<1>1. RunnerInv /\ [Next]_vars => RunnerInv'
  <2>. SUFFICES ASSUME RunnerInv, [Next]_vars PROVE RunnerInv'
    OBVIOUS
  <2>1. CASE UNCHANGED vars
    BY <2>1 DEF vars, RunnerInv, Portfolio, LabelTruthful, AcceptedRuns, ChunksReported
  <2>. QED
    BY <2>1, ConstructRunner, EditRunner, StartRunner, TryRunner, ReportRunner DEF Next
<1>. QED
  BY <1>1, InitRunner, PTL DEF Spec

(* A report labelled calibrated was timed with the anchor's inputs, whatever *)
(* was edited since the configuration was built.                             *)
THEOREM LabelsTrue == Spec => []LabelTruthful
<1>1. RunnerInv => LabelTruthful
  BY DEF RunnerInv
<1>. QED
  BY <1>1, RunnerInvariant, PTL

(* What passes validate() never fails in the platform's own guards, and the  *)
(* positions decoded are within the prompt and the context.                  *)
THEOREM ValidatedRuns == Spec => []AcceptedRuns
<1>1. RunnerInv => AcceptedRuns
  BY DEF RunnerInv
<1>. QED
  BY <1>1, RunnerInvariant, PTL

(* The chunk count reported is one of the best tried.                        *)
THEOREM ChunksAreBest == Spec => []ChunksReported
<1>1. RunnerInv => ChunksReported
  BY DEF RunnerInv
<1>. QED
  BY <1>1, RunnerInvariant, PTL

=============================================================================
