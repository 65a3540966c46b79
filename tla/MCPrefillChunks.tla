-------------------------- MODULE MCPrefillChunks --------------------------
(***************************************************************************)
(* One attention layer under GQA, a wide Q, narrow K (with its rope) and V,  *)
(* as traced: views between the compute ops, a result that nobody reads, the *)
(* weights of O made late.                                                  *)
(***************************************************************************)
EXTENDS PrefillWorkload, TLC

MCResident == <<"x", "wq", "wk", "wv">>
MCLate == {"wo", "mask"}

Matmul(ins, out, n) == [ins |-> ins, outs |-> <<out>>, cat |-> "matmul", bmm |-> FALSE, N |-> n]
Op(cat, ins, out) == [ins |-> ins, outs |-> <<out>>, cat |-> cat, bmm |-> FALSE, N |-> 0]
Split(in, outs) == [ins |-> <<in>>, outs |-> outs, cat |-> "none", bmm |-> FALSE, N |-> 0]
Bmm(ins, out) == [ins |-> ins, outs |-> <<out>>, cat |-> "attention", bmm |-> TRUE, N |-> 0]

MCProgram == <<
  Matmul(<<"x", "wq">>, "q", 8), Matmul(<<"x", "wk">>, "k", 4), Matmul(<<"x", "wv">>, "v", 4),
  Op("none", <<"q">>, "qT"), Op("rope", <<"k">>, "kr"),
  Bmm(<<"qT", "kr">>, "s"), Op("attention", <<"s">>, "sc"),
  Split("v", <<"vR", "rest">>), Bmm(<<"sc", "vR">>, "o"), Op("none", <<"o">>, "oT"),
  Matmul(<<"oT", "wo">>, "y", 8) >>

MCStructure == <<
  [cat |-> "matmul", bmm |-> FALSE, deps |-> {}, N |-> 8],
  [cat |-> "matmul", bmm |-> FALSE, deps |-> {}, N |-> 4],
  [cat |-> "matmul", bmm |-> FALSE, deps |-> {}, N |-> 4],
  [cat |-> "rope", bmm |-> FALSE, deps |-> {2}, N |-> 0],
  [cat |-> "attention", bmm |-> TRUE, deps |-> {1, 4}, N |-> 0],
  [cat |-> "attention", bmm |-> FALSE, deps |-> {5}, N |-> 0],
  [cat |-> "attention", bmm |-> TRUE, deps |-> {3, 6}, N |-> 0],
  [cat |-> "matmul", bmm |-> FALSE, deps |-> {7}, N |-> 8] >>

Whole(u, n) == <<[unit |-> u, cols |-> n]>>
Cut(a, b, c) == <<[unit |-> "cim", cols |-> a], [unit |-> "npu", cols |-> b],
                  [unit |-> "gpu", cols |-> c]>>

Layer(o) ==
  (1 :> Whole("gpu", 8)) @@ (2 :> Whole("npu", 4)) @@ (3 :> Whole("npu", 4)) @@ (8 :> o)

(* Up to three chunks split alike; two chunks with O split in any two ways.  *)
OutPlans == {Cut(2, 3, 3), Cut(3, 3, 2), Whole("npu", 8)}

MCPlans ==
  {[c \in 1..n |-> Layer(Whole("npu", 8))] : n \in {1, 3}}
  \cup {<<Layer(a), Layer(b)>> : a \in OutPlans, b \in OutPlans}

=============================================================================
