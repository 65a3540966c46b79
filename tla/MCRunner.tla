------------------------------ MODULE MCRunner ------------------------------
(***************************************************************************)
(* The profiles and topologies of the repository, and for every field a few  *)
(* values: the default, others that are legal, and one that is not.          *)
(***************************************************************************)
EXTENDS Runner

(* soc_sd8gen3_cim.json and soc_rk3588_cim.json; bandwidths in 0.1 GB/s.     *)
MCProfiles ==
  [sd8gen3_cim |-> [topology |-> "edge", bw |-> 430, knee |-> 600, cores |-> 4,
                    gemv |-> 13, budget |-> 100, weightBytes |-> 100],
   rk3588_cim |-> [topology |-> "edge", bw |-> 300, knee |-> 330, cores |-> 4,
                   gemv |-> 13, budget |-> 100, weightBytes |-> 100]]
MCTopologyBW == [card |-> 242, edge |-> 300, alpha |-> 39]
MCPeakBW == [lpddr4x |-> 341, lpddr5 |-> 512]

MCValues ==
  [prefill_len |-> {2, 4, 5}, decode_len |-> {1, 3}, context |-> {2, 4},
   memory_spec |-> {{"lpddr4x"}, {"lpddr5"}}, topology |-> {"card", "edge", "alpha", "pcie"},
   memory_capacity_GB |-> {4, 16, 32}, bw_efficiency |-> {{0}, {71}, {90}},
   soc_profile |-> {{"sd8gen3_cim"}, {"rk3588_cim"}, {"sd8gen4"}},
   cim_n_cores |-> {{0}, {4}, {8}}, npu_scale |-> {0, 200},
   cpu_gemv_efficiency |-> {{13}, {50}, {101}},
   cim_weight_bytes_per_param |-> {{50}, {100}}, cim_weight_budget_frac |-> {{0}, {100}},
   units |-> {{"cim", "gpu", "npu", "cpu"}, {"cim", "cpu"}},
   engine |-> {"onnxim"}, scheduler |-> {"cim_hetero", "tiled_hetero", "npu_only", "best"},
   sync_mode |-> {"clfinish"}, host |-> {{"npu"}, {"auto"}},
   prefill_chunks |-> {{2}, {3}, {1, 2, 4, 8}}, knee_GBs |-> {{0}, {800}},
   interconnect_efficiency |-> {0, 90}, pipeline |-> {TRUE}, compute_off |-> {TRUE},
   contention_off |-> {TRUE}, concurrency_off |-> {TRUE}, weights |-> {1}]

=============================================================================
