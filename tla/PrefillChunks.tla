--------------------------- MODULE PrefillChunks ---------------------------
(***************************************************************************)
(* A prefill forward built as chunks of its tokens                          *)
(* (workload.build_prefill_dag), run by the engine in any order its edges    *)
(* allow, and the check of the assumption that the weights of a matmul stay  *)
(* on their unit from one chunk to the next (workload.weight_order_violations,*)
(* which reads the dispatch orders after the run; here it looks at each      *)
(* dispatch as it happens).                                                 *)
(*                                                                         *)
(* An op of chunk c is <<c, i>>, i its index in the forward; chunks and      *)
(* indices count from 1.                                                    *)
(***************************************************************************)
EXTENDS Integers, Sequences, FiniteSets, FiniteSetsExt, SequencesExt

CONSTANTS
  Structure, \* the compute ops of one forward: [cat, bmm, deps, N], N columns of weights
  Prompts,  \* numbers of rows of a prompt
  Chunks,   \* values of prefill_chunks
  Plans,    \* how the matmuls are split: for each chunk, matmul |-> sequence of [unit, cols]
  Units,
  NoPart

ASSUME StructureAssumption ==
  /\ Structure \in Seq([cat : STRING, bmm : BOOLEAN, deps : SUBSET Nat, N : Nat])
  /\ \A i \in DOMAIN Structure : Structure[i].deps \subseteq 1..(i - 1)
ASSUME SizesAssumption == Prompts \subseteq Nat \ {0} /\ Chunks \subseteq Nat \ {0}
ASSUME PlansAssumption ==
  LET matmuls == {i \in DOMAIN Structure : Structure[i].cat = "matmul"}
  IN  Plans \subseteq Seq([matmuls -> Seq([unit : Units, cols : Nat])])
ASSUME NoPartAssumption ==
  NoPart \notin [chunk : Nat, op : Nat, part : Nat, cols : Nat, from : Nat]

VARIABLES
  rows,      \* rows of each chunk
  plan,      \* chunk |-> how the solver split its matmuls
  ran,       \* parts dispatched
  prev,      \* unit |-> the matmul part dispatched last on it
  checked, bad, missed

chunkVars == <<rows, plan, ran, prev, checked, bad, missed>>

(* build_token_dag: the bmms of attention pair up in the order of the trace, *)
(* QK^T, the rep, with its S.V.                                             *)
Bmms == {i \in DOMAIN Structure : Structure[i].cat = "attention" /\ Structure[i].bmm}

Forward ==
  LET rank(i) == Cardinality({j \in Bmms : j <= i})
      rep(i) == IF rank(i) % 2 = 1 THEN i ELSE Max({j \in Bmms : j < i})
  IN  [i \in DOMAIN Structure |->
         [cat |-> Structure[i].cat, deps |-> Structure[i].deps, N |-> Structure[i].N,
          group |-> IF i \in Bmms THEN rep(i) ELSE 0]]

Indices == DOMAIN Forward
Matmuls == {i \in Indices : Forward[i].cat = "matmul"}
Reps == {i \in Indices : Forward[i].group = i}

-----------------------------------------------------------------------------
(* chunk_rows: chunks of P // C rows, the last takes the remainder.          *)
ChunkRows(P, chunks) ==
  LET C == Min({chunks, P})
      m == P \div C
  IN  [c \in 1..C |-> IF c < C THEN m ELSE P - m * (C - 1)]

(* _block of a rep: from QK^T to its S.V, with all that lies between.        *)
SV == [rep \in Reps |-> CHOOSE i \in Indices : i # rep /\ Forward[i].group = rep]

Behind[i \in Indices] == Forward[i].deps \cup UNION {Behind[d] : d \in Forward[i].deps}

Block == [rep \in Reps |->
  {rep, SV[rep]} \cup {i \in Behind[SV[rep]] : rep \in Behind[i]}]

(* _block raises when anything in a block but its S.V feeds an op outside.   *)
Closed ==
  \A rep \in Reps, i \in Indices :
    Forward[i].deps \cap (Block[rep] \ {SV[rep]}) # {} => i \in Block[rep]

(* _proj_N: the columns of the first matmul found behind i breadth first,    *)
(* dependencies in the order of their ids, as the fixture sorts them; 0 if   *)
(* there is none.                                                            *)
ProjN == [i \in Indices |->
  LET queue[k \in 0..Len(Structure)] ==
        IF k = 0 THEN <<i>>
        ELSE FlattenSeq([j \in DOMAIN queue[k - 1] |->
               SetToSortSeq(Forward[queue[k - 1][j]].deps, <)])
      matmuls(k) == SelectSeq(queue[k], LAMBDA j : j \in Matmuls)
      found == {k \in 0..Len(Structure) : matmuls(k) # <<>>}
  IN  IF found = {} THEN 0 ELSE Forward[matmuls(Min(found))[1]].N]

(* _kv_producers: V is what S.V reads from outside the block, K what QK^T    *)
(* reads from a projection as wide as V's (all it reads if none is).         *)
VProducers == [rep \in Reps |-> Forward[SV[rep]].deps \ Block[rep]]

KProducers == [rep \in Reps |->
  LET cand == Forward[rep].deps \ Block[rep]
      wide == {d \in cand : \E v \in VProducers[rep] : ProjN[d] = ProjN[v]}
  IN  IF wide = {} THEN cand ELSE wide]

(* Mutated form: a chunk waits for the chunk before it only.                 *)
PastProducers_LastChunk(c, i) ==
  ({c - 1} \ {0}) \X (IF i \in Reps THEN KProducers[i]
                     ELSE UNION {VProducers[r] : r \in {r \in Reps : SV[r] = i}})

(* The edges between chunks: attention of chunk c reads K and V of all the   *)
(* chunks before it.                                                        *)
PastProducers(c, i) ==
  (1..(c - 1)) \X (IF i \in Reps THEN KProducers[i]
                  ELSE UNION {VProducers[r] : r \in {r \in Reps : SV[r] = i}})

Deps(c, i) == ({c} \X Forward[i].deps) \cup PastProducers(c, i)

(* kv_c: the tokens attention of chunk c looks at.                          *)
KvRows(c) == MapThenSumSet(LAMBDA k : rows[k], 1..c)

-----------------------------------------------------------------------------
(* chunk_weights_shared: chunk 1 streams the weights for all of them.        *)
Shared(part) == part.chunk > 1

(* Mutated form: the columns are not compared.                              *)
SameGemm_AnySize(a, b) == a # NoPart /\ <<a.op, a.part>> = <<b.op, b.part>>

(* key: the same GEMM, as many columns, the same part.                       *)
SameGemm(a, b) == a # NoPart /\ <<a.op, a.cols, a.part>> = <<b.op, b.cols, b.part>>

Violates(last, part) == ~SameGemm(last, part) \/ last.chunk # part.chunk - 1

ChunksInit ==
  /\ rows = <<>> /\ plan = <<>>
  /\ ran = {}
  /\ prev = [u \in Units |-> NoPart]
  /\ checked = 0 /\ bad = 0 /\ missed = 0

(* The graph is built, and its plan solved.                                 *)
Build ==
  /\ rows = <<>>
  /\ \E P \in Prompts, chunks \in Chunks : rows' = ChunkRows(P, chunks)
  /\ Len(rows') > 1 => Closed
  /\ plan' \in {p \in Plans : Len(p) = Len(rows')}
  /\ UNCHANGED <<ran, prev, checked, bad, missed>>

(* The parts an op is dispatched in.                                        *)
PartsOf(c, i) == IF i \in Matmuls THEN DOMAIN plan[c][i] ELSE {1}

Over(c, i) == \A p \in PartsOf(c, i) : <<c, i, p>> \in ran

Ready(c, i, p) == <<c, i, p>> \notin ran /\ \A d \in Deps(c, i) : Over(d[1], d[2])

(* The columns of the weights of a part, and whether a unit holds them.      *)
Columns(part) == (part.from + 1)..(part.from + part.cols)
Held(last, part) ==
  last # NoPart /\ last.op = part.op /\ Columns(part) \subseteq Columns(last)

(* How many columns the parts before p take.                                 *)
Offset(parts, p) ==
  LET cols == [q \in DOMAIN parts |-> parts[q].cols]
  IN  MapThenSumSet(LAMBDA q : cols[q], 1..(p - 1))

PartAt(c, i, p) ==
  LET parts == plan[c][i]
  IN  [chunk |-> c, op |-> i, part |-> p, cols |-> parts[p].cols, from |-> Offset(parts, p)]

Dispatch(c, i, p) ==
  /\ Ready(c, i, p)
  /\ i \notin Matmuls
  /\ ran' = ran \cup {<<c, i, p>>}
  /\ UNCHANGED <<rows, plan, prev, checked, bad, missed>>

DispatchMatmul(c, i, p) ==
  /\ i \in Matmuls
  /\ Ready(c, i, p)
  /\ ran' = ran \cup {<<c, i, p>>}
  /\ LET part == PartAt(c, i, p)
         unit == plan[c][i][p].unit
     IN  /\ prev' = [prev EXCEPT ![unit] = part]
         /\ checked' = checked + (IF Shared(part) THEN 1 ELSE 0)
         /\ bad' = bad + (IF Shared(part) /\ Violates(prev[unit], part) THEN 1 ELSE 0)
         /\ missed' = missed + (IF Shared(part) /\ ~Held(prev[unit], part) THEN 1 ELSE 0)
  /\ UNCHANGED <<rows, plan>>

Run ==
  \E c \in DOMAIN rows, i \in Indices :
    \E p \in PartsOf(c, i) : Dispatch(c, i, p) \/ DispatchMatmul(c, i, p)

-----------------------------------------------------------------------------
(* "the query rows of chunk c attend to all tokens up to and including their *)
(* own chunk": when QK^T or S.V of a chunk runs, K and V of kv_c tokens have *)
(* been produced, and the last chunk's kv_c is the prompt.                   *)
AttendsToItsPast ==
  \A c \in DOMAIN rows, r \in Reps :
    LET rowsDone(ops) == MapThenSumSet(LAMBDA k : rows[k],
                           {k \in 1..c : \A d \in ops : Over(k, d)})
    IN  /\ Over(c, r) => rowsDone(KProducers[r]) = KvRows(c)
        /\ Over(c, SV[r]) => rowsDone(VProducers[r]) = KvRows(c)
        /\ c = Len(rows) => KvRows(c) \in Prompts

Ended == rows # <<>> /\ \A c \in DOMAIN rows, i \in Indices : Over(c, i)

(* When the check counts no violation, every matmul of a later chunk found   *)
(* its weights on its unit: the bytes metered once were streamed once.       *)
CleanMeansHeld == Ended /\ bad = 0 => missed = 0

=============================================================================
