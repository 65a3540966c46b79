------------------------------- MODULE Runner -------------------------------
(***************************************************************************)
(* runner.run on a configuration that is built, edited in place between      *)
(* runs, and run again: the gates, the decode points, the portfolio of       *)
(* prefill chunkings and the label of the report.                            *)
(***************************************************************************)
EXTENDS SocPlatform, FiniteSetsExt

CONSTANTS
  Values,       \* field |-> the values it is given or set to
  MaxEdits,     \* edits after construction, at most
  Footprint_GB, \* what the weights of the model need
  Times, Eps,   \* what the engine may answer, and the 1e-9 us of the portfolio
  None

ASSUME TimesAssumption == Times \subseteq Nat /\ Eps \in Nat
ASSUME NoneAssumption == None \notin Nat

(* The dataclass' field types, of the fields that are computed with.         *)
ASSUME ValuesAssumption ==
  \A f \in DOMAIN Values :
    /\ f \in {"prefill_len", "decode_len", "context"} => Values[f] \subseteq Int
    /\ f = "bw_efficiency" => Values[f] \subseteq SUBSET Int

(* Of the specs: every bandwidth is positive; a peak is 10 GB/s or more, so  *)
(* that a percentage of it is not rounded away.                              *)
ASSUME SpecsAssumption ==
  /\ \A p \in DOMAIN Profiles : Profiles[p].knee > 0
  /\ \A t \in DOMAIN RequiredMemory : TopologyBW[t] > 0
  /\ \A t \in DOMAIN RequiredMemory : \A spec \in RequiredMemory[t] :
       PeakBW[spec] \in Nat /\ PeakBW[spec] >= 100

VARIABLES
  cfg,          \* the configuration, or None
  provenance,   \* its flags, as of the last validate()
  edits,
  pc,           \* "idle" or, within a run, "prefill"
  kvPoints,     \* the decode positions of this run
  tried,        \* chunk counts tried, in order
  chunkUs,      \* chunks |-> the engine's time
  kept,         \* the chunk count whose plan is kept, or None
  outcome,      \* how the run of the configuration as it stands ended
  report        \* what it returned, or None

run == <<kvPoints, tried, chunkUs, kept>>
vars == <<cfg, provenance, edits, pc, kvPoints, tried, chunkUs, kept, outcome, report>>

Init ==
  /\ cfg = None /\ provenance = {} /\ edits = 0
  /\ pc = "idle"
  /\ kvPoints = {} /\ tried = {} /\ chunkUs = <<>> /\ kept = None
  /\ outcome = "none" /\ report = None

(* A dictionary of at most two keys that from_dict accepts; no other makes a *)
(* configuration.                                                            *)
Construct ==
  /\ cfg = None
  /\ \E f, h \in DOMAIN Values : \E v \in Values[f], w \in Values[h] :
       LET given == [x \in {f, h} |-> IF x = f THEN v ELSE w]
       IN  /\ Readable(given) /\ Valid(FromDict(given))
           /\ cfg' = FromDict(given)
           /\ provenance' = Provenance(FromDict(given))
  /\ UNCHANGED <<edits, pc, run, outcome, report>>

(* The configuration is a mutable object: no check, no flag.                 *)
Edit ==
  /\ cfg # None /\ pc = "idle" /\ edits < MaxEdits
  /\ \E f \in DOMAIN Values \cap Fields : \E v \in Values[f] \ {cfg[f]} :
       cfg' = [cfg EXCEPT ![f] = v]
  /\ edits' = edits + 1
  /\ outcome' = "none" /\ report' = None
  /\ UNCHANGED <<provenance, pc, run>>

-----------------------------------------------------------------------------
RequiredUnits(c) ==
  CASE c.scheduler \in {"all_cim"} -> {"cim", "cpu"}
    [] c.scheduler = "cim_hetero" -> {"cim", "gpu", "cpu"}
    [] c.scheduler = "gpu_only" -> {"gpu", "cpu"}
    [] c.scheduler = "npu_only" -> {"npu", "cpu"}
    [] c.scheduler = "cim_only" -> {"cim", "cpu"}
    [] c.scheduler \in {"heteroinfer", "heteroinfer_layer"} -> {"gpu", "npu", "cpu"}
    [] OTHER -> {"cpu"}

(* tiled_hetero: the units it may use, and a host among them.                *)
HasHost(c) ==
  LET units == (c.units \cap {"gpu", "npu", "cim"})
                 \cup (IF Given(c.allow_cpu_compute, FALSE) THEN c.units \cap {"cpu"} ELSE {})
  IN  c.scheduler = "tiled_hetero" =>
        units # {} /\ c.host \subseteq units \cup {"auto"}

(* Why a configuration that validates does not run: the gates, in order.     *)
Gates(c) ==
  << <<"engine", c.engine = "analytic">>,
     <<"units", RequiredUnits(c) \subseteq c.units>>,
     <<"platform", PlatformAccepts(c)>>,
     <<"capacity", c.memory_capacity_GB >= Footprint_GB>>,
     <<"host", HasHost(c)>> >>

(* The positions the decode latency is averaged over.                        *)
KvPoints(c) ==
  LET high == Max({1, Min({c.context, c.prefill_len + c.decode_len})})
      low == Max({1, Min({c.prefill_len, high})})
  IN  {low, (low + high) \div 2, high}

(* Mutated form: the flags are those of the construction.                    *)
Revalidated_Never(c) == provenance

Revalidated(c) == Provenance(c)

Fails(reason) == outcome' = reason /\ UNCHANGED <<cfg, edits, pc, run, report>>

Start ==
  /\ cfg # None /\ pc = "idle" /\ outcome = "none"
  /\ \/ ~Valid(cfg) /\ Fails("invalid") /\ UNCHANGED provenance
     \/ /\ Valid(cfg) /\ provenance' = Revalidated(cfg)
        /\ LET closed == {i \in DOMAIN Gates(cfg) : ~Gates(cfg)[i][2]}
           IN  \/ closed # {} /\ Fails(Gates(cfg)[Min(closed)][1])
               \/ /\ closed = {}
                  /\ pc' = "prefill" /\ kvPoints' = KvPoints(cfg)
                  /\ outcome' = "running"
                  /\ UNCHANGED <<cfg, edits, tried, chunkUs, kept, report>>

(* Mutated form: a time within the tolerance replaces the one kept.          *)
Improves_Ties(us, best) == us <= best + Eps

Improves(us, best) == us < best - Eps

TryChunks ==
  /\ pc = "prefill" /\ tried # cfg.prefill_chunks
  /\ LET C == Min(cfg.prefill_chunks \ tried)
     IN  \E us \in Times :
           /\ tried' = tried \cup {C}
           /\ chunkUs' = [k \in tried' |-> IF k = C THEN us ELSE chunkUs[k]]
           /\ kept' = IF kept = None THEN C ELSE IF Improves(us, chunkUs[kept]) THEN C ELSE kept
  /\ UNCHANGED <<cfg, provenance, edits, pc, kvPoints, outcome, report>>

Report ==
  /\ pc = "prefill" /\ tried = cfg.prefill_chunks
  /\ LET best == chunkUs[kept]
         close == {C \in tried : chunkUs[C] \in (best - Eps)..(best + Eps)}
     IN  report' = [calibrated |-> provenance = {}, inputs |-> TimingInputs(cfg),
                    chunks |-> Min(close), us |-> best, chunkUs |-> chunkUs, kept |-> kept,
                    kv |-> kvPoints, window |-> <<cfg.prefill_len, cfg.context>>]
  /\ pc' = "idle" /\ outcome' = "reported"
  /\ kvPoints' = {} /\ tried' = {} /\ chunkUs' = <<>> /\ kept' = None
  /\ UNCHANGED <<cfg, provenance, edits>>

Next == Construct \/ Edit \/ Start \/ TryChunks \/ Report

Spec == Init /\ [][Next]_vars

-----------------------------------------------------------------------------
(* A report labelled calibrated was timed with the anchor's inputs, however  *)
(* the configuration was written and edited since: no knob that reaches the  *)
(* timing goes unflagged, and the label is of the configuration as run.      *)
LabelTruthful ==
  report # None /\ report.calibrated => report.inputs = TimingInputs(Default)

(* What validate() accepts, the platform accepts: its own guards, written    *)
(* again in another file, never fire at the end of a run's gates; and the    *)
(* positions decoded lie between the prompt and the context.                 *)
AcceptedRuns ==
  /\ outcome # "platform"
  /\ report # None => report.kv \subseteq report.window[1]..report.window[2]

(* The time reported is the best of the portfolio, and the chunk count       *)
(* reported is one that reaches it, no larger than the one whose plan is     *)
(* described, each within the tolerance.                                     *)
ChunksReported ==
  report # None =>
    /\ \A C \in DOMAIN report.chunkUs : report.us <= report.chunkUs[C] + Eps
    /\ report.chunkUs[report.chunks] \in (report.us - Eps)..(report.us + Eps)
    /\ report.chunks <= report.kept

=============================================================================
