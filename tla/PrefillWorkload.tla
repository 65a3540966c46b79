-------------------------- MODULE PrefillWorkload --------------------------
(***************************************************************************)
(* From the trace of a forward to the chunks of a prompt: the fixture is     *)
(* recorded and committed (tools/trace_export), and the runtime builds its   *)
(* prefill from it (workload.py).                                           *)
(***************************************************************************)
EXTENDS TraceFixture, PrefillChunks

vars == <<traceVars, chunkVars>>

(* _check_anchor_structure, and the pairing of build_token_dag: the lengths  *)
(* committed have one structure, without a QK^T that has no S.V.             *)
Loads ==
  /\ Len(fixture) = Lengths
  /\ \A l \in DOMAIN fixture : fixture[l] = Structure
  /\ Cardinality(Bmms) % 2 = 0

Init == TraceInit /\ ChunksInit

Next ==
  \/ TraceNext /\ UNCHANGED chunkVars
  \/ (Loads /\ Build) /\ UNCHANGED traceVars
  \/ Run /\ UNCHANGED traceVars

Spec == Init /\ [][Next]_vars

=============================================================================
