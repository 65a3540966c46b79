--------------------------- MODULE MCPlanRewrite ---------------------------
(***************************************************************************)
(* A decode layer with an attention block and a KV cache, and a chain of the *)
(* second chunk of a prefill, whose ops have several rows and whose matmul   *)
(* finds its weights streamed by the first.                                  *)
(***************************************************************************)
EXTENDS PlanRewrite, TLC

Op(id, cat, prec, deps, shape, group) ==
  LET held == cat = "matmul" /\ id \in SharedWeights
  IN  [cat |-> cat, prec |-> prec, deps |-> deps, shape |-> shape, group |-> group,
       unit |-> NoUnit, basis |-> IF held THEN ShapeBytes(shape) ELSE 0, domain |-> "unset",
       bytes |-> ShapeBytes(shape) - (IF held THEN shape.K * shape.N ELSE 0),
       resident |-> FALSE, fused |-> "none", fusedGroup |-> 0, sync |-> 0, mergeSync |-> 0,
       src |-> id, part |-> 0]

Graph(ops) == [at |-> [i \in DOMAIN ops |-> i], op |-> ops]

Mm(m) == [M |-> m, K |-> 2, N |-> 8]
Heads == [heads |-> 4, kv |-> 4]
Rows(r) == [rows |-> r]

DecodeLayer == Graph(<<
  Op(1, "embedding", "fp16", {}, Rows(1), 0),
  Op(2, "matmul", "int8", {1}, Mm(1), 0),
  Op(3, "kv_cache", "int8", {2}, Rows(1), 0),
  Op(4, "attention", "fp16", {2, 3}, Heads, 4),
  Op(5, "elementwise", "fp16", {4}, Heads, 0),
  Op(6, "elementwise", "fp16", {5}, Heads, 0),
  Op(7, "attention", "fp16", {3, 6}, Heads, 4),
  Op(8, "matmul", "int8", {7}, Mm(1), 0),
  Op(9, "elementwise", "fp16", {1, 8}, Rows(1), 0) >>)

PrefillChain == Graph(
  11 :> Op(11, "elementwise", "fp16", {}, Rows(5), 0) @@
  12 :> Op(12, "elementwise", "fp16", {11}, Rows(5), 0) @@
  13 :> Op(13, "matmul", "int8", {12}, Mm(5), 0) @@
  14 :> Op(14, "elementwise", "fp16", {13}, Rows(5), 0) @@
  15 :> Op(15, "elementwise", "fp16", {14, 12}, Rows(5), 0) @@
  16 :> Op(16, "sampling", "fp16", {15}, Rows(1), 0))

MCGraphs == {DecodeLayer, PrefillChain}
MCScaleMask == {5}
MCSharedWeights == {13}

(* A prefill of two tokens.                                                  *)
TwoRows == Graph(<<
  Op(1, "elementwise", "fp16", {}, Rows(2), 0),
  Op(2, "matmul", "int8", {1}, Mm(2), 0),
  Op(3, "elementwise", "fp16", {2}, Rows(2), 0),
  Op(4, "matmul", "int8", {3}, Mm(2), 0) >>)

MCTwoRows == {TwoRows}
MCPrefillOnly == {PrefillChain}

MCQuantum == [npu |-> 2, heads |-> 2]
MCMinimum == [gpu |-> 1, npu |-> 2, cpu |-> 1, cim |-> 1, heads |-> 2]
MCSyncUs == [decode |-> 10, prefill |-> 30]
MCWeightBytes == [gpu |-> 2, npu |-> 1, cim |-> 1, cpu |-> 2]

MCSplitDims == LegalDims
MCMinSplitRows == << <<"gpu", 1>>, <<"npu", 2>>, <<"cpu", 1>>, <<"cim", 1>> >>
MCNamePlace == [cim |-> 1, cpu |-> 2, gpu |-> 3, npu |-> 4]

(* HeteroInfer: only the matmuls are solved and split, between GPU and NPU.  *)
MCHeteroInferDims == [matmul |-> {"N"}, attention |-> {}, elementwise |-> {}]

(* One matmul held in part, the other whole.                                 *)
MCAllots == {(2 :> 4) @@ (8 :> 8)}

(* For the solver: two matmuls around a support op that also reads the past. *)
DecodeSlice == Graph(<<
  Op(1, "embedding", "fp16", {}, Rows(1), 0),
  Op(2, "matmul", "int8", {1}, Mm(1), 0),
  Op(3, "elementwise", "fp16", {1, 2}, Rows(1), 0),
  Op(4, "matmul", "int8", {3}, Mm(1), 0) >>)

MCSlices == {DecodeSlice, PrefillChain}

MCSliceAllots == {<<>>, (2 :> 8), (2 :> 4) @@ (4 :> 4)}

(* Where the deferred pass may have left the third op and what follows it.   *)
MCHints ==
  {(i :> u) @@ (i + 1 :> v) : i \in {3, 13}, u, v \in {"gpu", "npu"}}

=============================================================================
