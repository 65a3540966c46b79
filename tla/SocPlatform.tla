---------------------------- MODULE SocPlatform ----------------------------
(***************************************************************************)
(* Platform.__init__ (platform.py): the guards it raises on, and the inputs  *)
(* of the timing it resolves from the configuration, its topology and its    *)
(* profile.  Bandwidths are in tenths of GB/s.                               *)
(***************************************************************************)
EXTENDS SimConfig

CONSTANTS
  TopologyBW,   \* topology |-> its effective bandwidth
  PeakBW        \* memory spec |-> its peak

Pipelined == KnownSchedulers \ {"all_cim"}

(* The bandwidth of one stream: the profile's, else the scaled peak, else    *)
(* the topology's.                                                          *)
StreamBW(c) ==
  CASE c.soc_profile # {} -> Profile(c).bw
    [] c.soc_profile = {} /\ c.bw_efficiency # {} ->
         (PeakBW[Given(ResolvedMemory(c), "")] * Given(c.bw_efficiency, 1)) \div 100
    [] OTHER -> TopologyBW[c.topology]

(* The user's knee, else the profile's, else no headroom over one stream.    *)
Knee(c) ==
  Given(c.knee_GBs, IF c.soc_profile # {} THEN Profile(c).knee ELSE StreamBW(c))

(* What the constructors of the platform and of its parts raise on, for a    *)
(* configuration whose names are known.                                     *)
PlatformAccepts(c) ==
  LET profiled == c.soc_profile # {}
  IN  /\ profiled => c.topology = Profile(c).topology /\ c.bw_efficiency = {}
      /\ c.bw_efficiency # {} =>
           /\ Given(c.bw_efficiency, 1) > 0
           /\ c.topology = "card"
           /\ ResolvedMemory(c) # {}
      /\ Knee(c) > 0 /\ c.interconnect_efficiency > 0
      /\ profiled => Within(c.cim_weight_bytes_per_param, 1, 400)
                     /\ Within(c.cim_weight_budget_frac, 0, 100)
      /\ c.npu_scale > 0
      /\ Within(c.cpu_gemv_efficiency, 1, 100)

(* Every input of the timing that the configuration has a say in.            *)
TimingInputs(c) ==
  LET p == Profile(c)
      profiled == c.soc_profile # {}
  IN  [streamBW |-> StreamBW(c), knee |-> Knee(c), interconnect |-> c.interconnect_efficiency,
       cores |-> Given(c.cim_n_cores, IF profiled THEN p.cores ELSE CalCores),
       scaling |-> IF profiled THEN "physical" ELSE "legacy",
       gemv |-> Given(c.cpu_gemv_efficiency, p.gemv),
       weightBytes |-> IF profiled THEN Given(c.cim_weight_bytes_per_param, p.weightBytes) ELSE 100,
       budget |-> IF profiled THEN {Given(c.cim_weight_budget_frac, p.budget)} ELSE {},
       npuScale |-> c.npu_scale,
       scheduler |-> c.scheduler, chunks |-> c.prefill_chunks,
       placement |-> IF c.scheduler = "tiled_hetero" THEN <<c.host, c.allow_cpu_compute>> ELSE <<>>,
       sync |-> <<c.sync_mode, c.sync_us_override>>,
       pipeline |-> c.pipeline \/ c.scheduler \in Pipelined,
       concurrency |-> ~c.concurrency_off, contention |-> ~c.contention_off,
       compute |-> ~c.compute_off]

=============================================================================
