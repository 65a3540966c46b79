------------------------- MODULE MCStreamsInFlight -------------------------
EXTENDS StreamsInFlight

CONSTANTS cim, gpu, npu

MCSharers == {cim, gpu, npu}
NoCap == [u \in {} |-> 1]

(* Legacy channels, then profiles: no cap entry, the NPU capped as in        *)
(* soc_rk3588_cim (0.67 eff), all units capped; knees below, at and above eff. *)
MCChannels ==
  {[eff |-> 60, ceiling |-> k, capped |-> FALSE, caps |-> NoCap] : k \in {30, 60, 100}}
  \cup {[eff |-> 60, ceiling |-> k, capped |-> TRUE, caps |-> c] :
          k \in {30, 60, 100, 150},
          c \in {NoCap, [u \in {npu} |-> 40], [u \in MCSharers |-> IF u = gpu THEN 25 ELSE 45]}}

=============================================================================
