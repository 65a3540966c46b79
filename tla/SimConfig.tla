----------------------------- MODULE SimConfig -----------------------------
(***************************************************************************)
(* The experiment configuration (config.py): its defaults, what validate()   *)
(* accepts and what it flags as outside the calibrated envelope.  Fractions  *)
(* are in percent; an optional field is {} or {value}; prefill_chunks is *)
(* the set of counts to try, {1, 2, 4, 8} for "auto".                        *)
(***************************************************************************)
EXTENDS Integers, FiniteSets, SequencesExt

CONSTANTS
  Profiles,      \* SoC profile |-> what its spec says of topology, memory and units
  LegacyProfile  \* the profile the units without a calibration of their own come from

Default ==
  [prefill_len |-> 2, decode_len |-> 2, context |-> 4, batch |-> 1,
   memory_spec |-> {}, topology |-> "card", memory_capacity_GB |-> 16,
   bw_efficiency |-> {}, soc_profile |-> {}, cim_n_cores |-> {}, npu_scale |-> 100,
   cpu_gemv_efficiency |-> {}, cim_weight_bytes_per_param |-> {},
   cim_weight_budget_frac |-> {}, units |-> {"cim", "gpu", "cpu"},
   engine |-> "analytic", scheduler |-> "all_cim", sync_mode |-> "fast",
   sync_us_override |-> {}, host |-> {}, allow_cpu_compute |-> {},
   prefill_chunks |-> {1}, knee_GBs |-> {}, interconnect_efficiency |-> 100,
   concurrency_overlap_factor |-> 100, pipeline |-> FALSE, concurrency_off |-> FALSE,
   contention_off |-> FALSE, compute_off |-> FALSE]

Fields == DOMAIN Default

KnownSchedulers ==
  {"all_cim", "cim_hetero", "gpu_only", "npu_only", "cim_only", "cpu_only", "heteroinfer",
   "heteroinfer_layer", "tiled_hetero"}
RequiredMemory == [card |-> {"lpddr4x"}, edge |-> {"lpddr5"}, alpha |-> {}]
CalCores == 4
Envelope_GB == 16

(* The value of an optional field, or what stands for it when absent.        *)
Given(option, absent) == IF option = {} THEN absent ELSE CHOOSE v \in option : TRUE
Within(option, low, high) == option \subseteq low..high

Profile(c) == Profiles[Given(c.soc_profile, LegacyProfile)]
ResolvedMemory(c) == IF c.memory_spec # {} THEN c.memory_spec ELSE RequiredMemory[c.topology]

-----------------------------------------------------------------------------
(* validate(): the guards, in the groups of the code.                        *)

ValidWorkload(c) ==
  /\ c.batch = 1
  /\ c.prefill_len >= 1 /\ c.decode_len >= 1 /\ c.context >= 1
  /\ c.prefill_len <= c.context

ValidScheduler(c) ==
  /\ c.scheduler \in KnownSchedulers
  /\ c.sync_mode \in {"fast", "clfinish", "none"}
  /\ Given(c.sync_us_override, 0) >= 0
  /\ c.host \subseteq {"gpu", "npu", "cim", "auto"}
  /\ c.prefill_chunks \in {{1}, {2}, {4}, {8}, {1, 2, 4, 8}}
  /\ c.concurrency_overlap_factor = 100

ValidUnits(c) ==
  /\ Given(c.cim_n_cores, 1) >= 1
  /\ c.npu_scale > 0
  /\ Within(c.cpu_gemv_efficiency, 1, 100)
  /\ Within(c.cim_weight_bytes_per_param, 1, 400) /\ Within(c.cim_weight_budget_frac, 0, 100)
  /\ c.soc_profile = {} => c.cim_weight_bytes_per_param = {} /\ c.cim_weight_budget_frac = {}

(* Mutated form: bw_efficiency is accepted wherever its value makes sense.   *)
ValidMemory_AnyTopology(c) ==
  /\ c.topology \in DOMAIN RequiredMemory
  /\ c.memory_spec # {} => c.memory_spec = RequiredMemory[c.topology]
  /\ Given(c.bw_efficiency, 1) > 0
  /\ c.interconnect_efficiency > 0
  /\ Given(c.knee_GBs, 1) > 0
  /\ c.soc_profile # {} =>
       /\ c.soc_profile \subseteq DOMAIN Profiles
       /\ c.topology = Profile(c).topology
       /\ c.bw_efficiency = {}

ValidMemory(c) ==
  /\ c.topology \in DOMAIN RequiredMemory
  /\ c.memory_spec # {} => c.memory_spec = RequiredMemory[c.topology]
  /\ Given(c.bw_efficiency, 1) > 0
  /\ c.interconnect_efficiency > 0
  /\ Given(c.knee_GBs, 1) > 0
  /\ c.soc_profile # {} =>
       /\ c.soc_profile \subseteq DOMAIN Profiles
       /\ c.topology = Profile(c).topology
       /\ c.bw_efficiency = {}
  /\ c.bw_efficiency # {} => c.topology = "card"

Valid(c) == ValidWorkload(c) /\ ValidScheduler(c) /\ ValidUnits(c) /\ ValidMemory(c)

(* from_dict: the given keys over the defaults, the topology of the profile  *)
(* when none is given.  An unknown key or profile is refused.                *)
Readable(given) ==
  /\ DOMAIN given \subseteq Fields
  /\ "soc_profile" \in DOMAIN given /\ "topology" \notin DOMAIN given =>
       given.soc_profile \subseteq DOMAIN Profiles

FromDict(given) ==
  LET c == [f \in Fields |-> IF f \in DOMAIN given THEN given[f] ELSE Default[f]]
  IN  IF "topology" \in DOMAIN given THEN c ELSE [c EXCEPT !.topology =
        IF c.soc_profile = {} THEN @ ELSE Profile(c).topology]

-----------------------------------------------------------------------------
(* _flag_provenance: why the configuration is no calibrated anchor.  The     *)
(* three topologies use the calibrated CIM fit.                              *)
Departures(c) ==
  LET default == Profile(c)
      profiled == c.soc_profile # {}
      cores == IF profiled THEN default.cores ELSE CalCores
  IN  [memory_capacity_GB |-> c.memory_capacity_GB > Envelope_GB,
       topology |-> c.topology # "card",
       memory_spec |-> ResolvedMemory(c) \notin {{}, {"lpddr4x"}},
       soc_profile |-> profiled,
       bw_efficiency |-> c.bw_efficiency # {},
       cim_n_cores |-> Given(c.cim_n_cores, cores) # cores,
       npu_scale |-> c.npu_scale # 100,
       cpu_gemv_efficiency |-> Given(c.cpu_gemv_efficiency, default.gemv) # default.gemv,
       cim_weight_budget_frac |-> profiled
         /\ Given(c.cim_weight_budget_frac, default.budget) # default.budget,
       cim_weight_bytes_per_param |-> profiled
         /\ Given(c.cim_weight_bytes_per_param, default.weightBytes) # default.weightBytes,
       knee_GBs |-> c.knee_GBs # {},
       interconnect_efficiency |-> c.interconnect_efficiency # 100,
       pipeline |-> c.pipeline,
       scheduler |-> c.scheduler # "all_cim",
       prefill_chunks |-> c.prefill_chunks # {1},
       sync |-> c.sync_mode # "fast" \/ c.sync_us_override # {},
       engine |-> c.engine # "analytic",
       npu |-> "npu" \in c.units,
       compute_off |-> c.compute_off,
       concurrency_off |-> c.concurrency_off,
       contention_off |-> c.contention_off]

Provenance(c) == {d \in DOMAIN Departures(c) : Departures(c)[d]}

=============================================================================
