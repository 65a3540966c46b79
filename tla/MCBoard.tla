------------------------------ MODULE MCBoard ------------------------------
(* A tile of its own, one shared by a matrix and the chunks of another, and  *)
(* a task measured directly.                                                 *)
EXTENDS Board

MCManifest ==
  << [tid |-> "g64", group |-> "prefill", M |-> 64, big |-> TRUE],
     [tid |-> "q256", group |-> "prefill", M |-> 256, big |-> TRUE],
     [tid |-> "s512", group |-> "prefill_msweep", M |-> 512, big |-> FALSE],
     [tid |-> "m512", group |-> "mtile", M |-> 512, big |-> TRUE] >>

=============================================================================
