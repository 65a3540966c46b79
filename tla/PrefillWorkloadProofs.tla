---------------------- MODULE PrefillWorkloadProofs ----------------------
(***************************************************************************)
(* From the trace of a forward to the chunks of a prompt: the graph          *)
(* committed is the data flow of the traced program, attention of a chunk    *)
(* finds its whole past produced, and a clean weight-order check means held  *)
(* weights; for any program, addresses, structure, prompts and splits.      *)
(***************************************************************************)
EXTENDS PrefillWorkload, SharedBandwidthTheorems, FunctionTheorems

-----------------------------------------------------------------------------
(* A nonempty set of naturals has a least ...                                *)
LEMMA LeastOf ==
  ASSUME NEW B \in SUBSET Nat, B # {}
  PROVE  \E x \in B : \A y \in B : x <= y
<1>1. PICK x \in B : \A y \in B : ~(<<y, x>> \in OpToRel(<, Nat))
  BY NatLessThanWellFounded, WFMin, Zenon
<1>2. ASSUME NEW y \in B, y < x PROVE FALSE
  <2>1. <<y, x>> \in Nat \X Nat /\ <<y, x>>[1] = y /\ <<y, x>>[2] = x /\ y < x
    BY <1>2
  <2>2. <<y, x>> \in OpToRel(<, Nat)
    BY <2>1, Zenon DEF OpToRel
  <2>. QED
    BY <1>1, <2>2
<1>3. x \in Nat /\ \A y \in B : y \in Nat
  OBVIOUS
<1>. QED
  BY <1>2, <1>3

(* ... and a finite one a greatest.                                          *)
LEMMA GreatestOf ==
  ASSUME NEW B \in SUBSET Nat, IsFiniteSet(B), B # {}
  PROVE  \E x \in B : \A y \in B : x >= y
<1> DEFINE F == {T \in SUBSET B : T = {} \/ \E x \in T : \A y \in T : x >= y}
<1>1. ASSUME NEW T \in SUBSET B, T # {}, \A x \in T : T \ {x} \in F PROVE T \in F
  <2>1. PICK a \in T : TRUE
    BY <1>1
  <2>2. T \ {a} = {} \/ \E x \in T \ {a} : \A y \in T \ {a} : x >= y
    BY <1>1
  <2>3. CASE T \ {a} = {}
    <3>1. \A y \in T : a >= y
      BY <2>3
    <3>. QED
      BY <3>1
  <2>4. CASE \E x \in T \ {a} : \A y \in T \ {a} : x >= y
    <3>1. PICK x \in T \ {a} : \A y \in T \ {a} : x >= y
      BY <2>4
    <3>2. a \in Nat /\ x \in Nat /\ \A y \in T : y \in Nat
      OBVIOUS
    <3>3. x >= a => \A y \in T : x >= y
      BY <3>1
    <3>4. a >= x => \A y \in T : a >= y
      BY <3>1, <3>2
    <3>. QED
      BY <3>2, <3>3, <3>4
  <2>. QED
    BY <2>2, <2>3, <2>4
<1> HIDE DEF F
<1>2. {} \in F
  BY DEF F
<1>3. SUBSET B \subseteq F
  BY <1>1, <1>2, RemoveInduction
<1>. QED
  BY <1>3 DEF F

-----------------------------------------------------------------------------
(* The forward: as many ops as the structure, the same fields.               *)
LEMMA ForwardFacts ==
  /\ Indices = DOMAIN Structure
  /\ \E n \in Nat : Indices = 1..n
  /\ \A i \in Indices : /\ Forward[i].deps = Structure[i].deps
                        /\ Forward[i].cat = Structure[i].cat
                        /\ Forward[i].deps \subseteq Indices
  /\ \A i \in Indices \ Bmms : Forward[i].group = 0
  /\ Matmuls = {i \in DOMAIN Structure : Structure[i].cat = "matmul"}
  /\ Bmms \subseteq Indices /\ Bmms \cap Matmuls = {}
<1>1. \A i \in DOMAIN Structure : /\ Forward[i].deps = Structure[i].deps
                                  /\ Forward[i].cat = Structure[i].cat
                                  /\ i \notin Bmms => Forward[i].group = 0
  BY DEF Forward
<1>2. DOMAIN Forward = DOMAIN Structure
  BY DEF Forward
<1>3. PICK n \in Nat : DOMAIN Structure = 1..n
  BY StructureAssumption
<1>4. \A i \in DOMAIN Structure : Structure[i].deps \subseteq 1..(i - 1)
  BY StructureAssumption
<1>5. \A i \in DOMAIN Structure : Structure[i].deps \subseteq DOMAIN Structure
  BY <1>3, <1>4
<1>6. Bmms \subseteq DOMAIN Structure /\ \A i \in Bmms : Structure[i].cat = "attention"
  BY DEF Bmms
<1>. QED
  BY <1>1, <1>2, <1>3, <1>5, <1>6 DEF Indices, Matmuls

(* The place of a bmm among the bmms, and the one before it.                 *)
Rank(i) == Cardinality({j \in Bmms : j <= i})
Previous(i) == Max({j \in Bmms : j < i})

(* A bmm at an odd place is a rep; the one after it is of its group.         *)
LEMMA GroupFacts ==
  \A i \in Bmms : Forward[i].group = IF Rank(i) % 2 = 1 THEN i ELSE Previous(i)
<1>. SUFFICES ASSUME NEW i \in Bmms
             PROVE Forward[i].group = IF Rank(i) % 2 = 1 THEN i ELSE Previous(i)
  OBVIOUS
<1>1. i \in DOMAIN Structure
  BY ForwardFacts
<1>. QED
  BY <1>1 DEF Forward, Rank, Previous

(* There are finitely many.                                                  *)
LEMMA BmmsFinite == IsFiniteSet(Bmms) /\ Bmms \subseteq Nat
<1>1. PICK n \in Nat : Indices = 1..n
  BY ForwardFacts
<1>2. IsFiniteSet(1..n) /\ 1..n \subseteq Nat
  BY FS_Interval
<1>. QED
  BY <1>1, <1>2, ForwardFacts, FS_Subset

(* The rank of the next one is one more.                                     *)
LEMMA RankNext ==
  ASSUME NEW i \in Bmms, NEW n \in Bmms, i < n, \A j \in Bmms : j > i => j >= n
  PROVE  Rank(n) = Rank(i) + 1 /\ Rank(i) \in Nat /\ Previous(n) = i
<1> DEFINE A == {j \in Bmms : j <= i}
<1>0. Bmms \subseteq Nat /\ IsFiniteSet(Bmms)
  BY BmmsFinite
<1>1. {j \in Bmms : j <= n} = A \cup {n} /\ n \notin A
  <2>1. \A j \in Bmms : j <= n <=> j <= i \/ j = n
    BY <1>0
  <2>2. ~(n <= i)
    BY <1>0
  <2>. QED
    BY <2>1, <2>2
<1>2. IsFiniteSet(A)
  BY <1>0, FS_Subset
<1>3. Cardinality(A \cup {n}) = Cardinality(A) + 1 /\ Cardinality(A) \in Nat
  BY <1>1, <1>2, FS_AddElement, FS_CardinalityType
<1>4. Previous(n) = i
  <2>1. \A x \in {j \in Bmms : j < n} : x <= i
    BY <1>0
  <2>2. i \in {j \in Bmms : j < n} /\ \A y \in {j \in Bmms : j < n} : i >= y
    BY <1>0, <2>1
  <2>3. \A x \in {j \in Bmms : j < n} : (\A y \in {j \in Bmms : j < n} : x >= y) => x = i
    BY <1>0, <2>2
  <2>. QED
    BY <2>2, <2>3 DEF Previous, Max
<1>. QED
  BY <1>1, <1>3, <1>4 DEF Rank

(* When the bmms pair up, every rep has its S.V, and it is no rep.           *)
LEMMA SVFacts ==
  ASSUME Cardinality(Bmms) % 2 = 0, NEW r \in Reps
  PROVE  SV[r] \in Indices /\ SV[r] # r /\ Forward[SV[r]].group = r /\ SV[r] \in Bmms
         /\ r \in Bmms
<1>0. Bmms \subseteq Nat /\ IsFiniteSet(Bmms)
  BY BmmsFinite
<1>1. r \in Bmms /\ r \in Indices
  <2>1. r \in Indices /\ Forward[r].group = r
    BY DEF Reps
  <2>2. r # 0
    BY <2>1, ForwardFacts
  <2>. QED
    BY <2>1, <2>2, ForwardFacts
<1>2. Rank(r) % 2 = 1
  <2>. SUFFICES ASSUME Rank(r) % 2 # 1 PROVE FALSE
    OBVIOUS
  <2>1. Previous(r) = r
    BY <1>1, GroupFacts DEF Reps
  <2> DEFINE B == {j \in Bmms : j < r}
  <2>2. CASE B = {}
    <3>1. \A j \in Bmms : j <= r <=> j = r
      BY <1>0, <1>1, <2>2
    <3>2. {j \in Bmms : j <= r} = {r}
      BY <1>1, <3>1
    <3>3. Rank(r) = 1
      BY <3>2, FS_Singleton DEF Rank
    <3>. QED
      BY <3>3
  <2>3. CASE B # {}
    <3>1. \E x \in B : \A y \in B : x >= y
      <4>1. B \subseteq Bmms
        OBVIOUS
      <4> HIDE DEF B
      <4>2. IsFiniteSet(B) /\ B \in SUBSET Nat
        BY <1>0, <4>1, FS_Subset
      <4>. QED
        BY <2>3, <4>2, GreatestOf
    <3>2. Previous(r) \in B
      BY <3>1 DEF Previous, Max
    <3>3. ~(r < r)
      BY <1>0, <1>1
    <3>. QED
      BY <2>1, <3>2, <3>3
  <2>. QED
    BY <2>2, <2>3
<1>3. {j \in Bmms : j > r} # {}
  <2>. SUFFICES ASSUME {j \in Bmms : j > r} = {} PROVE FALSE
    OBVIOUS
  <2>0. \A j \in Bmms : j <= r
    BY <1>0, <1>1
  <2>1. {j \in Bmms : j <= r} = Bmms
    BY <2>0
  <2>. QED
    BY <1>2, <2>1 DEF Rank
<1>4. PICK n \in Bmms : n > r /\ \A j \in Bmms : j > r => j >= n
  <2> DEFINE B == {j \in Bmms : j > r}
  <2>1. B \in SUBSET Nat
    BY <1>0
  <2>2. \E x \in B : \A y \in B : x <= y
    BY <1>3, <2>1, LeastOf
  <2>. QED
    BY <2>2
<1>5. Rank(n) = Rank(r) + 1 /\ Rank(r) \in Nat /\ Previous(n) = r
  BY <1>0, <1>1, <1>4, RankNext
<1>6. Forward[n].group = r
  <2>1. Rank(n) % 2 = 0
    BY <1>2, <1>5
  <2>. QED
    BY <1>5, <2>1, GroupFacts
<1>7. n \in Indices /\ n # r
  BY <1>0, <1>1, <1>4, ForwardFacts
<1>8. SV[r] \in Indices /\ SV[r] # r /\ Forward[SV[r]].group = r
  BY <1>6, <1>7 DEF SV
<1>. QED
  BY <1>1, <1>8, ForwardFacts, <1>0, StructureAssumption

-----------------------------------------------------------------------------
(* The rows of the chunks of a prompt add up to it.                          *)
LEMMA ChunkRowsFacts ==
  ASSUME NEW P \in Nat \ {0}, NEW n \in Nat \ {0}
  PROVE  LET f == ChunkRows(P, n)
         IN  \E C \in Nat \ {0} : /\ DOMAIN f = 1..C /\ Len(f) = C
                                  /\ \A c \in 1..C : f[c] \in Nat
                                  /\ SumOver(f, 1..C) = P
<1> DEFINE C == Min({n, P})
           m == P \div C
           f == ChunkRows(P, n)
<1>1. C \in Nat \ {0}
  <2>1. \E x \in {n, P} : \A y \in {n, P} : x <= y
    OBVIOUS
  <2>2. C \in {n, P}
    BY <2>1 DEF Min
  <2>. QED
    BY <2>2
<1>2. f = [c \in 1..C |-> IF c < C THEN m ELSE P - m * (C - 1)]
  BY DEF ChunkRows
<1> HIDE DEF f, C
<1>3. m \in Nat /\ m * C <= P
  <2>1. m \in Int /\ m * C <= P /\ P < m * C + C
    BY <1>1, DivFacts
  <2>2. 0 * C <= P
    BY <1>1
  <2>3. 0 <= m
    BY <1>1, <2>2, DivGreatest
  <2>. QED
    BY <2>1, <2>3
<1> HIDE DEF m
<1>4. m * (C - 1) \in Nat /\ m * (C - 1) <= P
  <2>1. m * (C - 1) = m * C - m /\ m * C \in Nat
    BY <1>1, <1>3
  <2>2. m * (C - 1) \in Nat
    BY <1>1, <1>3
  <2>. QED
    BY <1>3, <2>1, <2>2
<1>5. DOMAIN f = 1..C /\ \A c \in 1..C : f[c] \in Nat
  BY <1>2, <1>3, <1>4
<1>6. Len(f) = C
  BY <1>1, <1>2
<1>7. SumOver(f, 1..C) = P
  <2>1. IsFiniteSet(1..C) /\ Cardinality(1..C) = C /\ C \in 1..C
    BY <1>1, FS_Interval
  <2>2. SumOver(f, 1..C) = f[C] + SumOver(f, 1..C \ {C})
    BY <1>5, <2>1, SumRemove
  <2>3. IsFiniteSet(1..C \ {C}) /\ Cardinality(1..C \ {C}) = C - 1
    BY <2>1, FS_RemoveElement
  <2>4. \A c \in 1..C \ {C} : f[c] = m
    BY <1>1, <1>2
  <2>5. SumOver(f, 1..C \ {C}) = m * (C - 1)
    BY <1>3, <2>3, <2>4, SumConstant
  <2>6. f[C] = P - m * (C - 1)
    BY <1>1, <1>2
  <2>. QED
    BY <1>4, <2>2, <2>5, <2>6
<1>. QED
  BY <1>1, <1>5, <1>6, <1>7 DEF f

-----------------------------------------------------------------------------
(* The elements of a sequence.                                               *)
LEMMA SeqFacts ==
  ASSUME NEW S, NEW s \in Seq(S)
  PROVE  Len(s) \in Nat /\ DOMAIN s = 1..Len(s) /\ \A k \in 1..Len(s) : s[k] \in S
OBVIOUS

(* The graph of the chunks has been built.                                   *)
Built ==
  /\ Cardinality(Bmms) % 2 = 0
  /\ \E P \in Prompts, n \in Chunks : rows = ChunkRows(P, n)
  /\ plan \in Plans /\ Len(plan) = Len(rows)

(* The parts of matmuls dispatched.                                          *)
RanMatmul(c, i, p) == i \in Matmuls /\ p \in PartsOf(c, i) /\ <<c, i, p>> \in ran

(* Nothing runs before what it reads.                                        *)
InOrder ==
  \A c \in DOMAIN rows, i \in Indices : \A p \in PartsOf(c, i) :
    <<c, i, p>> \in ran => \A d \in Deps(c, i) : Over(d[1], d[2])

(* What a unit holds is a part that was dispatched.                          *)
HoldsDispatched ==
  \A u \in Units : prev[u] = NoPart \/
    \E c \in DOMAIN rows, i \in Matmuls : \E p \in PartsOf(c, i) :
      RanMatmul(c, i, p) /\ prev[u] = PartAt(c, i, p)

(* While nothing was counted, a part has as many columns as its like in the  *)
(* chunk before it, and one that did not find its weights begins elsewhere.  *)
SameSizes ==
  bad = 0 => \A c \in DOMAIN rows, i \in Matmuls : \A p \in PartsOf(c, i) :
    RanMatmul(c, i, p) /\ c > 1 =>
      p \in PartsOf(c - 1, i) /\ plan[c - 1][i][p].cols = plan[c][i][p].cols

MissedBeginsElsewhere ==
  bad = 0 /\ missed > 0 => \E c \in DOMAIN rows, i \in Matmuls : \E p \in PartsOf(c, i) :
    /\ RanMatmul(c, i, p) /\ c > 1
    /\ PartAt(c, i, p).from # PartAt(c - 1, i, p).from

ChunkInv ==
  /\ rows # <<>> => Built
  /\ rows = <<>> => ran = {} /\ missed = 0 /\ \A u \in Units : prev[u] = NoPart
  /\ bad \in Nat /\ missed \in Nat /\ prev \in [Units -> {prev[u] : u \in Units}]
  /\ InOrder
  /\ HoldsDispatched
  /\ SameSizes
  /\ MissedBeginsElsewhere

(* What a built graph is.                                                    *)
LEMMA BuiltFacts ==
  ASSUME Built
  PROVE  /\ \E C \in Nat \ {0} : DOMAIN rows = 1..C /\ Len(rows) = C /\ DOMAIN plan = 1..C
         /\ \A c \in DOMAIN rows : rows[c] \in Nat
         /\ SumOver(rows, 1..Len(rows)) \in Prompts
         /\ \A c \in DOMAIN rows, i \in Matmuls :
              /\ PartsOf(c, i) = DOMAIN plan[c][i]
              /\ \E k \in Nat : DOMAIN plan[c][i] = 1..k
              /\ \A p \in PartsOf(c, i) : plan[c][i][p].unit \in Units /\ plan[c][i][p].cols \in Nat
<1>1. PICK P \in Prompts, n \in Chunks : rows = ChunkRows(P, n)
  BY DEF Built
<1>2. P \in Nat \ {0} /\ n \in Nat \ {0}
  BY SizesAssumption
<1>3. PICK C \in Nat \ {0} : /\ DOMAIN rows = 1..C /\ Len(rows) = C
                             /\ \A c \in 1..C : rows[c] \in Nat
                             /\ SumOver(rows, 1..C) = P
  BY <1>1, <1>2, ChunkRowsFacts
<1>4. plan \in Seq([Matmuls -> Seq([unit : Units, cols : Nat])]) /\ Len(plan) = C
  BY <1>3, PlansAssumption, ForwardFacts DEF Built
<1>5. DOMAIN plan = 1..C /\ \A c \in 1..C : plan[c] \in [Matmuls -> Seq([unit : Units, cols : Nat])]
  <2> DEFINE S == [Matmuls -> Seq([unit : Units, cols : Nat])]
  <2> HIDE DEF S
  <2>1. plan \in Seq(S)
    BY <1>4 DEF S
  <2>2. DOMAIN plan = 1..C /\ \A c \in 1..C : plan[c] \in S
    BY <1>4, <2>1, SeqFacts
  <2>. QED
    BY <2>2 DEF S
<1>6. ASSUME NEW c \in DOMAIN rows, NEW i \in Matmuls
      PROVE  /\ PartsOf(c, i) = DOMAIN plan[c][i]
             /\ \E k \in Nat : DOMAIN plan[c][i] = 1..k
             /\ \A p \in PartsOf(c, i) : plan[c][i][p].unit \in Units /\ plan[c][i][p].cols \in Nat
  <2>1. plan[c][i] \in Seq([unit : Units, cols : Nat])
    BY <1>3, <1>5
  <2>2. PartsOf(c, i) = DOMAIN plan[c][i]
    BY DEF PartsOf
  <2>3. \A p \in DOMAIN plan[c][i] : plan[c][i][p] \in [unit : Units, cols : Nat]
    BY <2>1, SeqFacts
  <2>. QED
    BY <2>1, <2>2, <2>3
<1>. QED
  BY <1>3, <1>5, <1>6

(* Before the graph is built the invariant holds.                            *)
LEMMA ChunksInitKeeps == ChunksInit => ChunkInv
<1>. SUFFICES ASSUME ChunksInit PROVE ChunkInv
  OBVIOUS
<1>1. rows = <<>> /\ ran = {} /\ missed = 0 /\ bad = 0 /\ DOMAIN rows = {}
  BY DEF ChunksInit
<1>2. \A u \in Units : prev[u] = NoPart
  BY DEF ChunksInit
<1>3. prev \in [Units -> {prev[u] : u \in Units}]
  BY DEF ChunksInit
<1>4. InOrder /\ HoldsDispatched /\ SameSizes /\ MissedBeginsElsewhere
  BY <1>1, <1>2 DEF InOrder, HoldsDispatched, SameSizes, MissedBeginsElsewhere
<1>. QED
  BY <1>1, <1>2, <1>3, <1>4 DEF ChunkInv

(* Building keeps it ...                                                     *)
LEMMA BuildKeeps == ChunkInv /\ Loads /\ Build => ChunkInv'
<1>. SUFFICES ASSUME ChunkInv, Loads, Build PROVE ChunkInv'
  OBVIOUS
<1>1. rows = <<>> /\ ran = {} /\ missed = 0 /\ (\A u \in Units : prev[u] = NoPart)
      /\ bad \in Nat /\ prev \in [Units -> {prev[u] : u \in Units}]
  BY DEF ChunkInv, Build
<1>2. ran' = {} /\ missed' = 0 /\ (\A u \in Units : prev'[u] = NoPart) /\ bad' \in Nat
      /\ prev' \in [Units -> {prev'[u] : u \in Units}]
  BY <1>1 DEF Build
<1>3. Built'
  BY DEF Build, Loads, Built
<1>4. InOrder' /\ HoldsDispatched' /\ SameSizes' /\ MissedBeginsElsewhere'
  BY <1>2 DEF InOrder, HoldsDispatched, SameSizes, MissedBeginsElsewhere, RanMatmul
<1>. QED
  BY <1>2, <1>3, <1>4 DEF ChunkInv

(* The columns of the parts of a split.                                      *)
ColsOf(parts) == [q \in DOMAIN parts |-> parts[q].cols]

(* Where a part begins is a sum of columns.                                  *)
LEMMA OffsetDef ==
  ASSUME NEW parts, NEW p
  PROVE  Offset(parts, p) = SumOver(ColsOf(parts), 1..(p - 1))
BY DEF Offset, ColsOf, SumOver

(* Parts only change with the splits.                                        *)
LEMMA PartsKept ==
  ASSUME plan' = plan
  PROVE  /\ \A a, b : PartsOf(a, b)' = PartsOf(a, b)
         /\ \A a, b, q : PartAt(a, b, q)' = PartAt(a, b, q)
<1>1. \A a, b : PartsOf(a, b)' = PartsOf(a, b)
  BY DEF PartsOf
<1>2. \A a, b, q : PartAt(a, b, q)' = PartAt(a, b, q)
  BY DEF PartAt
<1>. QED
  BY <1>1, <1>2

(* ... the dispatch of a part runs nothing before what it reads ...          *)
LEMMA RanStep ==
  ASSUME InOrder, NEW c \in DOMAIN rows, NEW i \in Indices, NEW p \in PartsOf(c, i),
         Ready(c, i, p), ran' = ran \cup {<<c, i, p>>}, rows' = rows, plan' = plan
  PROVE  InOrder'
<1>1. \A a, b : PartsOf(a, b)' = PartsOf(a, b)
  BY DEF PartsOf
<1>2. \A a, b : Over(a, b) => Over(a, b)'
  BY <1>1 DEF Over
<1>. SUFFICES ASSUME NEW a \in DOMAIN rows, NEW b \in Indices, NEW q \in PartsOf(a, b),
                     <<a, b, q>> \in ran'
             PROVE \A d \in Deps(a, b) : Over(d[1], d[2])'
  BY <1>1 DEF InOrder
<1>3. CASE <<a, b, q>> \in ran
  BY <1>2, <1>3 DEF InOrder
<1>4. CASE <<a, b, q>> = <<c, i, p>>
  BY <1>2, <1>4 DEF Ready
<1>. QED
  BY <1>3, <1>4

(* ... that of an op that is no matmul keeps the rest as it is ...           *)
LEMMA DispatchKeeps ==
  ASSUME ChunkInv, NEW c \in DOMAIN rows, NEW i \in Indices, NEW p \in PartsOf(c, i),
         Dispatch(c, i, p)
  PROVE  ChunkInv'
<1>1. /\ i \notin Matmuls /\ ran' = ran \cup {<<c, i, p>>} /\ Ready(c, i, p)
      /\ rows' = rows /\ plan' = plan /\ prev' = prev /\ bad' = bad /\ missed' = missed
  BY DEF Dispatch
<1>2. /\ \A a, b : PartsOf(a, b)' = PartsOf(a, b)
      /\ \A a, b, q : PartAt(a, b, q)' = PartAt(a, b, q)
  BY <1>1, PartsKept
<1>3. \A a, b, q : RanMatmul(a, b, q)' <=> RanMatmul(a, b, q)
  <2>. SUFFICES ASSUME NEW a, NEW b, NEW q, b \in Matmuls
               PROVE <<a, b, q>> \in ran' <=> <<a, b, q>> \in ran
    BY <1>2 DEF RanMatmul
  <2>1. <<a, b, q>> # <<c, i, p>>
    BY <1>1
  <2>. QED
    BY <1>1, <2>1
<1>4. InOrder'
  BY <1>1, RanStep DEF ChunkInv
<1>5. HoldsDispatched'
  BY <1>1, <1>2, <1>3 DEF ChunkInv, HoldsDispatched
<1>6. SameSizes'
  BY <1>1, <1>2, <1>3 DEF ChunkInv, SameSizes
<1>7. MissedBeginsElsewhere'
  BY <1>1, <1>2, <1>3 DEF ChunkInv, MissedBeginsElsewhere
<1>8. rows # <<>> /\ Built'
  <2>1. rows # <<>>
    OBVIOUS
  <2>. QED
    BY <1>1, <2>1 DEF ChunkInv, Built
<1>. QED
  BY <1>1, <1>4, <1>5, <1>6, <1>7, <1>8 DEF ChunkInv

(* What a part is.                                                           *)
LEMMA PartFacts ==
  ASSUME Built, NEW c \in DOMAIN rows, NEW i \in Matmuls, NEW p \in PartsOf(c, i)
  PROVE  /\ PartAt(c, i, p).chunk = c /\ PartAt(c, i, p).op = i /\ PartAt(c, i, p).part = p
         /\ PartAt(c, i, p).cols = plan[c][i][p].cols
         /\ PartAt(c, i, p) \in [chunk : Nat, op : Nat, part : Nat, cols : Nat, from : Nat]
<1>1. /\ c \in Nat /\ PartsOf(c, i) = DOMAIN plan[c][i]
      /\ \E k \in Nat : DOMAIN plan[c][i] = 1..k
      /\ \A q \in PartsOf(c, i) : plan[c][i][q].cols \in Nat
  BY BuiltFacts
<1> DEFINE cols == ColsOf(plan[c][i])
           from == SumOver(cols, 1..(p - 1))
<1>2. PartAt(c, i, p) =
        [chunk |-> c, op |-> i, part |-> p, cols |-> plan[c][i][p].cols, from |-> from]
  BY OffsetDef DEF PartAt
<1>3. i \in Nat
  BY ForwardFacts
<1>4. p \in Nat /\ plan[c][i][p].cols \in Nat
  BY <1>1
<1>5. from \in Nat
  <2>1. \A q \in 1..(p - 1) : q \in DOMAIN plan[c][i]
    BY <1>1
  <2>2. \A q \in 1..(p - 1) : cols[q] \in Nat
    BY <1>1, <2>1 DEF ColsOf
  <2>3. IsFiniteSet(1..(p - 1))
    BY <1>4, FS_Interval
  <2> HIDE DEF cols
  <2>. QED
    BY <2>2, <2>3, SumNat
<1> HIDE DEF cols, from
<1>. QED
  BY <1>1, <1>2, <1>3, <1>4, <1>5

(* ... and that of a part of a matmul counts what it finds on its unit.      *)
LEMMA DispatchMatmulKeeps ==
  ASSUME ChunkInv, NEW c \in DOMAIN rows, NEW i \in Indices, NEW p \in PartsOf(c, i),
         DispatchMatmul(c, i, p)
  PROVE  ChunkInv'
<1> DEFINE part == PartAt(c, i, p)
           unit == plan[c][i][p].unit
           last == prev[unit]
<1>1. /\ i \in Matmuls /\ ran' = ran \cup {<<c, i, p>>} /\ Ready(c, i, p)
      /\ rows' = rows /\ plan' = plan
      /\ prev' = [prev EXCEPT ![unit] = part]
      /\ bad' = bad + (IF Shared(part) /\ Violates(last, part) THEN 1 ELSE 0)
      /\ missed' = missed + (IF Shared(part) /\ ~Held(last, part) THEN 1 ELSE 0)
  BY DEF DispatchMatmul
<1>2. Built /\ rows # <<>>
  <2>1. rows # <<>>
    OBVIOUS
  <2>. QED
    BY <2>1 DEF ChunkInv
<1>3. unit \in Units /\ c \in Nat
  BY <1>1, <1>2, BuiltFacts
<1>4. part.chunk = c /\ part.op = i /\ part.part = p /\ part.cols = plan[c][i][p].cols
  BY <1>1, <1>2, PartFacts
<1>5. /\ \A a, b : PartsOf(a, b)' = PartsOf(a, b)
      /\ \A a, b, q : PartAt(a, b, q)' = PartAt(a, b, q)
  BY <1>1, PartsKept
<1>6. /\ \A a, b, q : RanMatmul(a, b, q) => RanMatmul(a, b, q)'
      /\ RanMatmul(c, i, p)'
  BY <1>1, <1>5 DEF RanMatmul
<1>7. \A a, b, q : RanMatmul(a, b, q)' => RanMatmul(a, b, q) \/ (a = c /\ b = i /\ q = p)
  BY <1>1, <1>5 DEF RanMatmul
<1>8. InOrder'
  BY <1>1, RanStep DEF ChunkInv
<1> HIDE DEF part, unit
<1>9. HoldsDispatched'
  <2>. SUFFICES ASSUME NEW u \in Units PROVE
         prev'[u] = NoPart \/
         \E a \in DOMAIN rows, b \in Matmuls : \E q \in PartsOf(a, b) :
           RanMatmul(a, b, q)' /\ prev'[u] = PartAt(a, b, q)
    BY <1>1, <1>5 DEF HoldsDispatched
  <2>1. CASE u = unit
    <3>1. prev'[u] = part
      BY <1>1, <2>1 DEF ChunkInv
    <3>. QED
      BY <1>1, <1>6, <3>1 DEF part
  <2>2. CASE u # unit
    <3>1. prev'[u] = prev[u]
      BY <1>1, <2>2 DEF ChunkInv
    <3>. QED
      BY <1>6, <3>1 DEF ChunkInv, HoldsDispatched
  <2>. QED
    BY <2>1, <2>2
<1>10. bad \in Nat /\ missed \in Nat /\ bad' \in Nat /\ missed' \in Nat /\ (bad' = 0 => bad = 0)
  BY <1>1 DEF ChunkInv
<1>11. bad' = 0 /\ c > 1 =>
         /\ last # NoPart /\ last.op = i
         /\ p \in PartsOf(c - 1, i) /\ plan[c - 1][i][p].cols = plan[c][i][p].cols
         /\ last = PartAt(c - 1, i, p)
  <2>. SUFFICES ASSUME bad' = 0, c > 1
               PROVE /\ last # NoPart /\ last.op = i
                     /\ p \in PartsOf(c - 1, i) /\ plan[c - 1][i][p].cols = plan[c][i][p].cols
                     /\ last = PartAt(c - 1, i, p)
    OBVIOUS
  <2>1. Shared(part)
    BY <1>4 DEF Shared
  <2>2. ~Violates(last, part)
    BY <1>1, <1>10, <2>1
  <2>3. last # NoPart /\ last.op = i /\ last.cols = part.cols /\ last.part = p /\ last.chunk = c - 1
    BY <1>4, <2>2 DEF Violates, SameGemm
  <2>4. PICK a \in DOMAIN rows, b \in Matmuls : \E q \in PartsOf(a, b) : last = PartAt(a, b, q)
    BY <1>3, <2>3 DEF ChunkInv, HoldsDispatched
  <2>5. PICK q \in PartsOf(a, b) : last = PartAt(a, b, q)
    BY <2>4
  <2>6. a = c - 1 /\ b = i /\ q = p /\ last.cols = plan[a][b][q].cols
    BY <1>2, <2>3, <2>5, PartFacts
  <2>. QED
    BY <1>4, <2>3, <2>5, <2>6
<1>12. SameSizes'
  <2>. SUFFICES ASSUME bad' = 0, NEW a \in DOMAIN rows, NEW b \in Matmuls, NEW q \in PartsOf(a, b),
                       RanMatmul(a, b, q)', a > 1
               PROVE q \in PartsOf(a - 1, b) /\ plan[a - 1][b][q].cols = plan[a][b][q].cols
    BY <1>1, <1>5 DEF SameSizes
  <2>1. CASE RanMatmul(a, b, q)
    BY <1>10, <2>1 DEF ChunkInv, SameSizes
  <2>2. CASE a = c /\ b = i /\ q = p
    BY <1>11, <2>2
  <2>. QED
    BY <1>7, <2>1, <2>2
<1>13. MissedBeginsElsewhere'
  <2>. SUFFICES ASSUME bad' = 0, missed' > 0
               PROVE \E a \in DOMAIN rows, b \in Matmuls : \E q \in PartsOf(a, b) :
                       /\ RanMatmul(a, b, q)' /\ a > 1
                       /\ PartAt(a, b, q).from # PartAt(a - 1, b, q).from
    BY <1>1, <1>5 DEF MissedBeginsElsewhere
  <2>1. CASE missed > 0
    BY <1>6, <1>10, <2>1 DEF ChunkInv, MissedBeginsElsewhere
  <2>2. CASE missed = 0
    <3>1. Shared(part) /\ ~Held(last, part)
      BY <1>1, <2>2
    <3>2. c > 1
      BY <1>4, <3>1 DEF Shared
    <3>3. last # NoPart /\ last.op = part.op /\ last = PartAt(c - 1, i, p)
          /\ p \in PartsOf(c - 1, i) /\ plan[c - 1][i][p].cols = plan[c][i][p].cols
      BY <1>4, <1>11, <3>2
    <3>4. c - 1 \in DOMAIN rows
      BY <1>2, <3>2, BuiltFacts
    <3>5. last.cols = part.cols
      BY <1>1, <1>2, <1>4, <3>3, <3>4, PartFacts
    <3>6. last.from # part.from
      <4>. SUFFICES ASSUME last.from = part.from PROVE FALSE
        OBVIOUS
      <4>1. Columns(part) = Columns(last)
        BY <3>5 DEF Columns
      <4>. QED
        BY <3>1, <3>3, <4>1 DEF Held
    <3>. QED
      BY <1>1, <1>6, <3>2, <3>3, <3>6 DEF part
  <2>. QED
    BY <1>10, <2>1, <2>2
<1>14. prev' \in [Units -> {prev'[u] : u \in Units}]
  <2>1. DOMAIN prev = Units
    BY DEF ChunkInv
  <2>. QED
    BY <1>1, <2>1
<1>15. Built'
  BY <1>1, <1>2 DEF Built
<1>. QED
  BY <1>1, <1>2, <1>8, <1>9, <1>10, <1>12, <1>13, <1>14, <1>15 DEF ChunkInv

(* Steps of the trace leave the chunks alone.                                *)
LEMMA ChunksUnchanged == ChunkInv /\ UNCHANGED chunkVars => ChunkInv'
<1>. SUFFICES ASSUME ChunkInv, UNCHANGED chunkVars PROVE ChunkInv'
  OBVIOUS
<1>1. rows' = rows /\ plan' = plan /\ ran' = ran /\ prev' = prev /\ bad' = bad /\ missed' = missed
  BY DEF chunkVars
<1>2. /\ \A a, b : PartsOf(a, b)' = PartsOf(a, b)
      /\ \A a, b, q : PartAt(a, b, q)' = PartAt(a, b, q)
  BY <1>1, PartsKept
<1>3. /\ \A a, b : Over(a, b)' <=> Over(a, b)
      /\ \A a, b, q : RanMatmul(a, b, q)' <=> RanMatmul(a, b, q)
  BY <1>1, <1>2 DEF Over, RanMatmul
<1>4. InOrder'
  BY <1>1, <1>2, <1>3 DEF ChunkInv, InOrder
<1>5. HoldsDispatched'
  BY <1>1, <1>2, <1>3 DEF ChunkInv, HoldsDispatched
<1>6. SameSizes'
  BY <1>1, <1>2, <1>3 DEF ChunkInv, SameSizes
<1>7. MissedBeginsElsewhere'
  BY <1>1, <1>2, <1>3 DEF ChunkInv, MissedBeginsElsewhere
<1>8. Built => Built'
  BY <1>1 DEF Built
<1>. QED
  BY <1>1, <1>4, <1>5, <1>6, <1>7, <1>8 DEF ChunkInv

(* The invariant of the chunks holds throughout: what ran had what it reads, *)
(* and what was counted is where the sizes of the parts changed.             *)
THEOREM ChunkInvariant == Spec => []ChunkInv
<1>1. Init => ChunkInv
  BY ChunksInitKeeps DEF Init
<1>2. ChunkInv /\ [Next]_vars => ChunkInv'
  <2>. SUFFICES ASSUME ChunkInv, [Next]_vars PROVE ChunkInv'
    OBVIOUS
  <2>1. CASE UNCHANGED chunkVars
    BY <2>1, ChunksUnchanged
  <2>2. CASE Loads /\ Build
    BY <2>2, BuildKeeps
  <2>3. CASE Run
    <3>1. PICK c \in DOMAIN rows, i \in Indices :
            \E p \in PartsOf(c, i) : Dispatch(c, i, p) \/ DispatchMatmul(c, i, p)
      BY <2>3 DEF Run
    <3>. QED
      BY <3>1, DispatchKeeps, DispatchMatmulKeeps
  <2>. QED
    BY <2>1, <2>2, <2>3 DEF Next, vars
<1>. QED
  BY <1>1, <1>2, PTL DEF Spec

(* Whatever the prompt, the number of chunks, the splits and the order the   *)
(* engine runs them in, attention of a chunk finds K and V of all the rows   *)
(* up to the end of its chunk produced, and of the last chunk, of the prompt. *)
THEOREM AttentionReadsItsPast == Spec => []AttendsToItsPast
<1>1. ChunkInv => AttendsToItsPast
  <2>. SUFFICES ASSUME ChunkInv, NEW c \in DOMAIN rows, NEW r \in Reps
               PROVE  LET rowsDone(ops) == MapThenSumSet(LAMBDA k : rows[k],
                                             {k \in 1..c : \A d \in ops : Over(k, d)})
                      IN  /\ Over(c, r) => rowsDone(KProducers[r]) = KvRows(c)
                          /\ Over(c, SV[r]) => rowsDone(VProducers[r]) = KvRows(c)
                          /\ c = Len(rows) => KvRows(c) \in Prompts
    BY DEF AttendsToItsPast
  <2> DEFINE Done(ops) == {k \in 1..c : \A d \in ops : Over(k, d)}
  <2>1. Built
    <3>1. rows # <<>>
      OBVIOUS
    <3>. QED
      BY <3>1 DEF ChunkInv
  <2>2. c \in Nat /\ c \in 1..c /\ \A k \in 1..c : k \in DOMAIN rows /\ (k # c => k \in 1..(c - 1))
    BY <2>1, BuiltFacts
  <2>3. SV[r] \in Indices /\ SV[r] # r /\ Forward[SV[r]].group = r /\ SV[r] \in Bmms /\ r \in Bmms
    BY <2>1, SVFacts DEF Built
  <2>4. ASSUME NEW i \in Bmms, Over(c, i) PROVE \A d \in Deps(c, i) : Over(d[1], d[2])
    <3>1. i \in Indices /\ PartsOf(c, i) = {1} /\ 1 \in PartsOf(c, i)
      BY ForwardFacts DEF PartsOf
    <3>2. <<c, i, 1>> \in ran
      BY <2>4, <3>1 DEF Over
    <3>. QED
      BY <3>1, <3>2 DEF ChunkInv, InOrder
  <2>5. KProducers[r] \subseteq Forward[r].deps
    BY DEF KProducers
  <2>6. VProducers[r] \subseteq Forward[SV[r]].deps
    BY DEF VProducers
  <2>7. SV[r] \notin Reps
    BY <2>3 DEF Reps
  <2>8. Over(c, r) => Done(KProducers[r]) = 1..c
    <3>. SUFFICES ASSUME Over(c, r), NEW k \in 1..c, NEW d \in KProducers[r] PROVE Over(k, d)
      OBVIOUS
    <3>1. <<k, d>> \in Deps(c, r)
      BY <2>2, <2>5 DEF Deps, PastProducers
    <3>. QED
      BY <2>3, <2>4, <3>1
  <2>9. Over(c, SV[r]) => Done(VProducers[r]) = 1..c
    <3>. SUFFICES ASSUME Over(c, SV[r]), NEW k \in 1..c, NEW d \in VProducers[r] PROVE Over(k, d)
      OBVIOUS
    <3>1. d \in UNION {VProducers[q] : q \in {q \in Reps : SV[q] = SV[r]}}
      OBVIOUS
    <3>2. <<k, d>> \in Deps(c, SV[r])
      BY <2>2, <2>6, <2>7, <3>1 DEF Deps, PastProducers
    <3>. QED
      BY <2>3, <2>4, <3>2
  <2>10. c = Len(rows) => SumOver(rows, 1..c) \in Prompts
    BY <2>1, BuiltFacts
  <2>11. KvRows(c) = SumOver(rows, 1..c)
    BY DEF KvRows, SumOver
  <2>12. \A ops : MapThenSumSet(LAMBDA k : rows[k], Done(ops)) = SumOver(rows, Done(ops))
    BY DEF SumOver
  <2> HIDE DEF Done
  <2>13. /\ Over(c, r) => MapThenSumSet(LAMBDA k : rows[k], Done(KProducers[r])) = KvRows(c)
         /\ Over(c, SV[r]) => MapThenSumSet(LAMBDA k : rows[k], Done(VProducers[r])) = KvRows(c)
         /\ c = Len(rows) => KvRows(c) \in Prompts
    BY <2>8, <2>9, <2>10, <2>11, <2>12
  <2>. QED
    BY <2>13 DEF Done
<1>. QED
  BY <1>1, ChunkInvariant, PTL

(* For any splits of any chunks, run in any order: when the check counted no *)
(* violation, no matmul missed its weights, though the check compares sizes  *)
(* only; were a part elsewhere, one before it would have changed its size.   *)
THEOREM CleanChecksHold == Spec => []CleanMeansHeld
<1>1. ChunkInv => CleanMeansHeld
  <2>. SUFFICES ASSUME ChunkInv, Ended, bad = 0, missed > 0 PROVE FALSE
    BY DEF CleanMeansHeld, ChunkInv
  <2>1. Built
    BY DEF ChunkInv, Ended
  <2>2. PICK c \in DOMAIN rows, i \in Matmuls : \E p \in PartsOf(c, i) :
          /\ RanMatmul(c, i, p) /\ c > 1
          /\ PartAt(c, i, p).from # PartAt(c - 1, i, p).from
    BY DEF ChunkInv, MissedBeginsElsewhere
  <2>3. PICK p \in PartsOf(c, i) : c > 1 /\ PartAt(c, i, p).from # PartAt(c - 1, i, p).from
    BY <2>2
  <2>4. i \in Indices /\ Over(c, i)
    BY DEF Ended, Matmuls
  <2> DEFINE here == ColsOf(plan[c][i])
             there == ColsOf(plan[c - 1][i])
  <2>5. /\ PartsOf(c, i) = DOMAIN plan[c][i]
        /\ \E k \in Nat : DOMAIN plan[c][i] = 1..k
        /\ \A q \in PartsOf(c, i) : plan[c][i][q].cols \in Nat
        /\ c \in Nat /\ c - 1 \in DOMAIN rows
    BY <2>1, <2>3, BuiltFacts
  <2>6. PartsOf(c - 1, i) = DOMAIN plan[c - 1][i]
    BY <2>1, <2>5, BuiltFacts
  <2>7. \A q \in 1..(p - 1) : q \in PartsOf(c, i)
    BY <2>5
  <2>8. \A q \in PartsOf(c, i) : RanMatmul(c, i, q)
    BY <2>4 DEF Over, RanMatmul
  <2>9. \A q \in 1..(p - 1) : q \in PartsOf(c - 1, i) /\ plan[c - 1][i][q].cols = plan[c][i][q].cols
    BY <2>3, <2>7, <2>8 DEF ChunkInv, SameSizes
  <2>10. \A q \in 1..(p - 1) : here[q] \in Int /\ there[q] = here[q]
    <3>1. \A q \in DOMAIN plan[c][i] : here[q] = plan[c][i][q].cols
      BY DEF ColsOf
    <3>2. \A q \in DOMAIN plan[c - 1][i] : there[q] = plan[c - 1][i][q].cols
      BY DEF ColsOf
    <3> HIDE DEF here, there
    <3>. SUFFICES ASSUME NEW q \in 1..(p - 1) PROVE here[q] \in Int /\ there[q] = here[q]
      OBVIOUS
    <3>3. q \in DOMAIN plan[c][i] /\ plan[c][i][q].cols \in Int
      BY <2>5, <2>7
    <3>4. q \in DOMAIN plan[c - 1][i] /\ plan[c - 1][i][q].cols = plan[c][i][q].cols
      BY <2>6, <2>9
    <3>. QED
      BY <3>1, <3>2, <3>3, <3>4
  <2>11. IsFiniteSet(1..(p - 1))
    <3>1. p \in Nat
      BY <2>5
    <3>. QED
      BY <3>1, FS_Interval
  <2>12. PartAt(c, i, p).from = SumOver(here, 1..(p - 1))
         /\ PartAt(c - 1, i, p).from = SumOver(there, 1..(p - 1))
    BY OffsetDef DEF PartAt
  <2> HIDE DEF here, there
  <2>13. SumOver(here, 1..(p - 1)) = SumOver(there, 1..(p - 1))
    BY <2>10, <2>11, SumEqual
  <2>. QED
    BY <2>3, <2>12, <2>13
<1>. QED
  BY <1>1, ChunkInvariant, PTL

-----------------------------------------------------------------------------
(* The trace.  What op i writes, and what may be there when it runs.         *)
Outs(i) == ToSet(Program[i].outs)
There(i) == ToSet(Resident) \cup Late \cup UNION {Outs(p) : p \in 1..(i - 1)}

(* The record of an op.                                                      *)
RecordSet == [ins : SUBSET Nat, outs : SUBSET Nat, external : SUBSET Nat,
              cat : STRING, bmm : BOOLEAN, N : Nat]

(* There is a record of each op that ran, of its kind.                       *)
RecordsInv ==
  /\ next \in 1..(Len(Program) + 1)
  /\ records \in Seq(RecordSet) /\ Len(records) = next - 1
  /\ \A i \in 1..(next - 1) :
       records[i].cat = Program[i].cat /\ records[i].bmm = Program[i].bmm /\ records[i].N = Program[i].N

(* An id is given to what the recorder holds, and to nothing else, below the *)
(* next one; no two ops wrote the same.                                      *)
IdsInv ==
  /\ nextVid \in Nat
  /\ vid = [a \in keep |-> vid[a]]
  /\ \A a \in keep : vid[a] \in Nat /\ vid[a] < nextVid
  /\ \A i \in 1..(next - 1) : \A v \in records[i].ins \cup records[i].outs : v < nextVid
  /\ \A p, q \in 1..(next - 1) : p # q => records[p].outs \cap records[q].outs = {}

(* An op reads what was there when it ran.                                   *)
ReadsInv ==
  /\ DOMAIN at \subseteq There(next)
  /\ \A i \in 1..(next - 1) : Reads(i) \subseteq There(i)

(* A tensor has one of the ids an op wrote where that op wrote the tensor.   *)
TensorsInv ==
  \A t \in DOMAIN at, p \in 1..(next - 1) :
    t \in Outs(p) <=> at[t] \in keep /\ vid[at[t]] \in records[p].outs

(* The ids an op read were written by the ops whose tensors it read.         *)
FlowInv ==
  \A i, p \in 1..(next - 1) :
    records[i].ins \cap records[p].outs # {} <=> Reads(i) \cap Outs(p) # {}

(* Every id was written by an op or is external, and so was what is read     *)
(* when it is read.                                                         *)
OriginsInv ==
  /\ \A a \in keep : \E p \in 1..(next - 1) : vid[a] \in records[p].outs \cup records[p].external
  /\ \A i \in 1..(next - 1) : \A v \in records[i].ins :
       \/ \E p \in 1..(i - 1) : v \in records[p].outs
       \/ \E p \in 1..i : v \in records[p].external

TraceInv ==
  /\ RecordsInv /\ IdsInv /\ ReadsInv /\ TensorsInv /\ FlowInv /\ OriginsInv
  /\ fixture \in Seq({TrueGraph})

(* The recorder before a forward.                                            *)
LEMMA TraceStarts ==
  ASSUME at = Placed, next = 1, keep = {}, vid = <<>>, nextVid = 0, records = <<>>
  PROVE  RecordsInv /\ IdsInv /\ ReadsInv /\ TensorsInv /\ FlowInv /\ OriginsInv
<1>1. Len(Program) \in Nat
  BY ProgramAssumption
<1>2. RecordsInv
  BY <1>1 DEF RecordsInv
<1>3. IdsInv
  <2>1. vid = [a \in keep |-> vid[a]]
    OBVIOUS
  <2>. QED
    BY <2>1 DEF IdsInv
<1>4. ReadsInv
  BY DEF ReadsInv, There, Placed
<1>5. TensorsInv /\ FlowInv /\ OriginsInv
  BY DEF TensorsInv, FlowInv, OriginsInv
<1>. QED
  BY <1>2, <1>3, <1>4, <1>5

(* The first forward starts like every other.                                *)
LEMMA TraceInitKeeps == TraceInit => TraceInv
<1>. SUFFICES ASSUME TraceInit PROVE TraceInv
  OBVIOUS
<1>1. RecordsInv /\ IdsInv /\ ReadsInv /\ TensorsInv /\ FlowInv /\ OriginsInv
  BY TraceStarts DEF TraceInit
<1>2. fixture \in Seq({TrueGraph})
  BY DEF TraceInit
<1>. QED
  BY <1>1, <1>2 DEF TraceInv

(* A tensor made late is where the recorder holds nothing.                   *)
LEMMA MakeLateKeeps == \A t \in Late : TraceInv /\ MakeLate(t) => TraceInv'
<1>. SUFFICES ASSUME NEW t \in Late, TraceInv, MakeLate(t) PROVE TraceInv'
  OBVIOUS
<1>1. PICK a \in FreeAddresses(1) : at' = [u \in DOMAIN at \cup {t} |-> IF u = t THEN a ELSE at[u]]
  BY DEF MakeLate
<1>2. next' = next /\ keep' = keep /\ vid' = vid /\ nextVid' = nextVid /\ records' = records
      /\ fixture' = fixture
  BY DEF MakeLate
<1>3. a \notin keep
  BY <1>1 DEF FreeAddresses, Occupied
<1>4. \A p \in 1..(next - 1) : t \notin Outs(p)
  <2>1. \A p \in 1..(next - 1) : p \in DOMAIN Program
    BY ProgramAssumption DEF TraceInv, RecordsInv
  <2>. QED
    BY <2>1, ProgramAssumption DEF Outs
<1>5. RecordsInv' /\ IdsInv' /\ FlowInv' /\ OriginsInv' /\ fixture' \in Seq({TrueGraph})
  BY <1>2 DEF TraceInv, RecordsInv, IdsInv, FlowInv, OriginsInv
<1>6. ReadsInv'
  <2>1. t \in There(next)
    BY DEF There
  <2>. QED
    BY <1>1, <1>2, <2>1 DEF TraceInv, ReadsInv
<1>7. TensorsInv'
  <2>. SUFFICES ASSUME NEW u \in DOMAIN at', NEW p \in 1..(next - 1)
               PROVE u \in Outs(p) <=> at'[u] \in keep /\ vid[at'[u]] \in records[p].outs
    BY <1>2 DEF TensorsInv
  <2>1. CASE u = t
    BY <1>1, <1>3, <1>4, <2>1
  <2>2. CASE u # t
    BY <1>1, <2>2 DEF TraceInv, TensorsInv
  <2>. QED
    BY <2>1, <2>2
<1>. QED
  BY <1>5, <1>6, <1>7 DEF TraceInv

(* What is let go leaves what is left as it is.                              *)
LEMMA DropKeeps == TraceInv /\ Drop => TraceInv'
<1>. SUFFICES ASSUME TraceInv, Drop PROVE TraceInv'
  OBVIOUS
<1>1. PICK S : at' = Restrict(at, DOMAIN at \cap S)
  BY DEF Drop
<1>2. next' = next /\ keep' = keep /\ vid' = vid /\ nextVid' = nextVid /\ records' = records
      /\ fixture' = fixture
  BY DEF Drop
<1>3. DOMAIN at' \subseteq DOMAIN at /\ \A t \in DOMAIN at' : at'[t] = at[t]
  BY <1>1 DEF Restrict
<1>4. RecordsInv' /\ IdsInv' /\ FlowInv' /\ OriginsInv' /\ fixture' \in Seq({TrueGraph})
  <2>1. RecordsInv'
    BY <1>2 DEF TraceInv, RecordsInv
  <2>2. IdsInv'
    BY <1>2 DEF TraceInv, IdsInv
  <2>3. FlowInv' /\ OriginsInv' /\ fixture' \in Seq({TrueGraph})
    BY <1>2 DEF TraceInv, FlowInv, OriginsInv
  <2>. QED
    BY <2>1, <2>2, <2>3
<1>5. ReadsInv'
  BY <1>2, <1>3 DEF TraceInv, ReadsInv
<1>6. TensorsInv'
  BY <1>2, <1>3 DEF TraceInv, TensorsInv
<1>. QED
  BY <1>4, <1>5, <1>6 DEF TraceInv

(* What looking up the inputs leaves: every input has an id, those that had  *)
(* one the same, the others one that nothing had.                            *)
LEMMA LookedFacts ==
  ASSUME TraceInv, next \in DOMAIN Program, Reads(next) \subseteq DOMAIN at
  PROVE  LET seen == Looked(Program[next].ins)
             inputs == {at[t] : t \in Reads(next)}
         IN  /\ DOMAIN seen.vid = keep \cup inputs
             /\ \A a \in keep : seen.vid[a] = vid[a]
             /\ \A a \in inputs \ keep : seen.vid[a] \in Nat /\ nextVid <= seen.vid[a]
                                         /\ seen.vid[a] < seen.nextVid
             /\ seen.nextVid \in Nat /\ nextVid <= seen.nextVid
<1> DEFINE ins == Program[next].ins
           first(a) == CHOOSE k \in DOMAIN ins : at[ins[k]] = a /\ \A j \in 1..(k - 1) : at[ins[j]] # a
           unseen == {at[ins[k]] : k \in DOMAIN ins} \ DOMAIN vid
           below(a) == {b \in unseen : first(b) < first(a)}
           rank(a) == Cardinality(below(a))
           inputs == {at[t] : t \in Reads(next)}
           seen == Looked(ins)
<1>1. seen.vid = [a \in DOMAIN vid \cup unseen |->
                    IF a \in unseen THEN nextVid + rank(a) ELSE vid[a]]
      /\ seen.nextVid = nextVid + Cardinality(unseen)
  BY DEF Looked
<1>2. DOMAIN vid = keep /\ nextVid \in Nat
  BY DEF TraceInv, IdsInv
<1>3. inputs = {at[ins[k]] : k \in DOMAIN ins}
  BY DEF Reads, ToSet
<1>4. unseen = inputs \ keep
  BY <1>2, <1>3
<1>5. IsFiniteSet(unseen) /\ Cardinality(unseen) \in Nat
  <2>1. IsFiniteSet(DOMAIN ins)
    <3>1. Len(ins) \in Nat /\ DOMAIN ins = 1..Len(ins)
      BY ProgramAssumption
    <3> HIDE DEF ins
    <3>. QED
      BY <3>1, FS_Interval
  <2>2. IsFiniteSet({at[ins[k]] : k \in DOMAIN ins})
    <3> DEFINE f == [k \in DOMAIN ins |-> at[ins[k]]]
               D == DOMAIN ins
    <3>1. {at[ins[k]] : k \in DOMAIN ins} = {f[k] : k \in D}
      OBVIOUS
    <3> HIDE DEF f, D
    <3>2. IsFiniteSet({f[k] : k \in D})
      <4>1. f \in [D -> {f[k] : k \in D}]
        BY DEF f, D
      <4>2. f \in Surjection(D, {f[k] : k \in D})
        BY <4>1, Fun_IsSurj
      <4>. QED
        BY <2>1, <4>2, FS_Surjection DEF D
    <3>. QED
      BY <3>1, <3>2
  <2>. QED
    BY <2>2, FS_Subset, FS_CardinalityType
<1>6. ASSUME NEW a \in unseen PROVE rank(a) \in Nat /\ rank(a) < Cardinality(unseen)
  <2>1. below(a) \subseteq unseen \ {a}
    <3>1. first(a) \in Nat
      <4> DEFINE K == {k \in DOMAIN ins : at[ins[k]] = a}
      <4>1. DOMAIN ins = 1..Len(ins) /\ Len(ins) \in Nat
        BY ProgramAssumption
      <4> HIDE DEF ins
      <4>2. K \in SUBSET Nat /\ K # {}
        BY <4>1
      <4>3. PICK k \in K : \A j \in K : k <= j
        BY <4>2, LeastOf
      <4>4. k \in DOMAIN ins /\ at[ins[k]] = a /\ \A j \in 1..(k - 1) : at[ins[j]] # a
        BY <4>1, <4>3
      <4>5. first(a) \in DOMAIN ins
        BY <4>4
      <4>. QED
        BY <4>1, <4>5
    <3> HIDE DEF first, unseen
    <3>2. ~(first(a) < first(a))
      BY <3>1
    <3>. QED
      BY <3>2
  <2> HIDE DEF below, unseen
  <2>2. IsFiniteSet(unseen \ {a}) /\ Cardinality(unseen \ {a}) = Cardinality(unseen) - 1
    BY <1>5, FS_RemoveElement
  <2>3. IsFiniteSet(below(a)) /\ Cardinality(below(a)) <= Cardinality(unseen \ {a})
    BY <2>1, <2>2, FS_Subset
  <2>4. Cardinality(below(a)) \in Nat
    BY <2>3, FS_CardinalityType
  <2>. QED
    BY <1>5, <2>2, <2>3, <2>4
<1> HIDE DEF seen, unseen, rank, inputs
<1>7. DOMAIN seen.vid = keep \cup inputs
  BY <1>1, <1>2, <1>4
<1>8. \A a \in keep : seen.vid[a] = vid[a]
  BY <1>1, <1>2, <1>4
<1>9. \A a \in inputs \ keep : seen.vid[a] \in Nat /\ nextVid <= seen.vid[a] /\ seen.vid[a] < seen.nextVid
  <2>. SUFFICES ASSUME NEW a \in unseen
               PROVE seen.vid[a] \in Nat /\ nextVid <= seen.vid[a] /\ seen.vid[a] < seen.nextVid
    BY <1>4
  <2>1. seen.vid[a] = nextVid + rank(a)
    BY <1>1
  <2>2. rank(a) \in Nat /\ rank(a) < Cardinality(unseen)
    BY <1>6
  <2>. QED
    BY <1>1, <1>2, <1>5, <2>1, <2>2
<1>10. seen.nextVid \in Nat /\ nextVid <= seen.nextVid
  BY <1>1, <1>2, <1>5
<1>. QED
  BY <1>7, <1>8, <1>9, <1>10 DEF seen, inputs, ins

(* What the next op leaves, in terms of the ids of its inputs and where its  *)
(* outputs were put.                                                        *)
LEMMA RecordFacts ==
  ASSUME TraceInv, RecordOp
  PROVE  \E seenVid, seenNext, place, new :
           LET n == next
               inputs == {at[t] : t \in Reads(n)}
           IN  /\ n \in DOMAIN Program /\ n \in Nat /\ Reads(n) \subseteq DOMAIN at
               /\ next' = n + 1 /\ fixture' = fixture
               /\ DOMAIN seenVid = keep \cup inputs
               /\ \A a \in keep : seenVid[a] = vid[a]
               /\ \A a \in inputs \ keep : seenVid[a] \in Nat /\ nextVid <= seenVid[a]
                                           /\ seenVid[a] < seenNext
               /\ seenNext \in Nat /\ nextVid <= seenNext
               /\ place \cap keep = {} /\ \A t \in DOMAIN at : at[t] \notin place
               /\ DOMAIN at' = DOMAIN at \cup Outs(n)
               /\ \A t \in Outs(n) : at'[t] \in place
               /\ \A t \in DOMAIN at \ Outs(n) : at'[t] = at[t]
               /\ keep' = keep \cup inputs \cup place
               /\ vid' = [a \in keep' |-> vid'[a]]
               /\ \A a \in keep \cup inputs : vid'[a] = seenVid[a]
               /\ \A a \in place : vid'[a] \in Nat /\ seenNext <= vid'[a] /\ vid'[a] < nextVid'
               /\ nextVid' \in Nat /\ seenNext <= nextVid'
               /\ records' = Append(records, new)
               /\ new.ins = {seenVid[a] : a \in inputs}
               /\ new.outs = {vid'[a] : a \in place}
               /\ new.external = {seenVid[a] : a \in inputs \ keep}
               /\ new.cat = Program[n].cat /\ new.bmm = Program[n].bmm /\ new.N = Program[n].N
               /\ new = [ins |-> new.ins, outs |-> new.outs, external |-> new.external,
                         cat |-> new.cat, bmm |-> new.bmm, N |-> new.N]
<1> DEFINE n == next
           op == Program[n]
           inputs == {at[t] : t \in Reads(n)}
           seen == Looked(op.ins)
<1>1. n \in DOMAIN Program /\ Reads(n) \subseteq DOMAIN at /\ next' = n + 1 /\ fixture' = fixture
  BY DEF RecordOp
<1>2. /\ DOMAIN seen.vid = keep \cup inputs
      /\ \A a \in keep : seen.vid[a] = vid[a]
      /\ \A a \in inputs \ keep : seen.vid[a] \in Nat /\ nextVid <= seen.vid[a]
                                  /\ seen.vid[a] < seen.nextVid
      /\ seen.nextVid \in Nat /\ nextVid <= seen.nextVid
  BY <1>1, LookedFacts
<1>3. DOMAIN vid = keep
  BY DEF TraceInv, IdsInv
<1> DEFINE After(place, vidAfter) ==
             [ins |-> {seen.vid[a] : a \in inputs},
              outs |-> {vidAfter[a] : a \in place},
              external |-> {seen.vid[a] : a \in inputs \ DOMAIN vid},
              cat |-> op.cat, bmm |-> op.bmm, N |-> op.N]
<1>4. PICK f \in Injection(DOMAIN op.outs, FreeAddresses(Len(op.outs))) :
        /\ at' = [t \in DOMAIN at \cup ToSet(op.outs) |->
                    IF t \in ToSet(op.outs) THEN f[CHOOSE k \in DOMAIN op.outs : op.outs[k] = t]
                    ELSE at[t]]
        /\ keep' = keep \cup KeptBy(inputs, Range(f))
        /\ vid' = [a \in DOMAIN seen.vid \cup Range(f) |->
                     IF a \in Range(f)
                     THEN seen.nextVid + (CHOOSE k \in DOMAIN f : f[k] = a) - 1
                     ELSE seen.vid[a]]
        /\ nextVid' = seen.nextVid + Len(op.outs)
        /\ records' = Append(records, After(Range(f), vid'))
  BY DEF RecordOp
<1> DEFINE place == Range(f)
           new == After(place, vid')
<1>5. f \in [DOMAIN op.outs -> FreeAddresses(Len(op.outs))]
  BY DEF Injection
<1>6. place \cap keep = {} /\ \A t \in DOMAIN at : at[t] \notin place
  BY <1>5 DEF FreeAddresses, Occupied, Range
<1>7. Len(op.outs) \in Nat /\ DOMAIN op.outs = 1..Len(op.outs)
  BY <1>1, ProgramAssumption
<1>8. ASSUME NEW t \in Outs(n) PROVE at'[t] \in place
  <2>1. \E k \in DOMAIN op.outs : op.outs[k] = t
    BY DEF Outs, ToSet
  <2>2. (CHOOSE k \in DOMAIN op.outs : op.outs[k] = t) \in DOMAIN f
    BY <1>5, <2>1
  <2>3. at'[t] = f[CHOOSE k \in DOMAIN op.outs : op.outs[k] = t]
    BY <1>4 DEF Outs
  <2>. QED
    BY <2>2, <2>3 DEF Range
<1>9. DOMAIN at' = DOMAIN at \cup Outs(n) /\ \A t \in DOMAIN at \ Outs(n) : at'[t] = at[t]
  BY <1>4 DEF Outs
<1>10. keep' = keep \cup inputs \cup place
  BY <1>4 DEF KeptBy
<1>11. ASSUME NEW a \in place
       PROVE  vid'[a] \in Nat /\ seen.nextVid <= vid'[a] /\ vid'[a] < nextVid'
  <2>1. \E k \in DOMAIN f : f[k] = a
    BY DEF Range
  <2>2. (CHOOSE k \in DOMAIN f : f[k] = a) \in 1..Len(op.outs)
    BY <1>5, <1>7, <2>1
  <2>3. vid'[a] = seen.nextVid + (CHOOSE k \in DOMAIN f : f[k] = a) - 1
    BY <1>4
  <2>4. nextVid' = seen.nextVid + Len(op.outs)
    BY <1>4
  <2> HIDE DEF place, seen, op
  <2>. QED
    BY <1>2, <1>7, <2>2, <2>3, <2>4
<1>12. /\ DOMAIN vid' = keep' /\ vid' = [a \in keep' |-> vid'[a]]
       /\ \A a \in keep \cup inputs : vid'[a] = seen.vid[a]
  <2>1. \A a \in inputs : a \notin place
    BY <1>1, <1>6
  <2>2. DOMAIN vid' = keep'
    BY <1>2, <1>4, <1>10
  <2>3. \A a \in keep \cup inputs : a \notin place
    BY <1>6, <2>1
  <2>4. vid' = [a \in DOMAIN vid' |-> vid'[a]]
    BY <1>4
  <2>. QED
    BY <1>2, <1>4, <2>2, <2>3, <2>4
<1>13. nextVid' \in Nat /\ seen.nextVid <= nextVid'
  BY <1>2, <1>4, <1>7
<1>14. /\ new.ins = {seen.vid[a] : a \in inputs}
       /\ new.outs = {vid'[a] : a \in place}
       /\ new.external = {seen.vid[a] : a \in inputs \ keep}
       /\ new.cat = op.cat /\ new.bmm = op.bmm /\ new.N = op.N
       /\ new = [ins |-> new.ins, outs |-> new.outs, external |-> new.external,
                 cat |-> new.cat, bmm |-> new.bmm, N |-> new.N]
       /\ records' = Append(records, new)
  BY <1>3, <1>4
<1>15. n \in Nat
  BY <1>1, ProgramAssumption
<1> DEFINE seenVid == seen.vid
           seenNext == seen.nextVid
<1> HIDE DEF place, new, seen, After
<1>16. /\ n \in DOMAIN Program /\ n \in Nat /\ Reads(n) \subseteq DOMAIN at
       /\ next' = n + 1 /\ fixture' = fixture
       /\ DOMAIN seenVid = keep \cup inputs
       /\ \A a \in keep : seenVid[a] = vid[a]
       /\ \A a \in inputs \ keep : seenVid[a] \in Nat /\ nextVid <= seenVid[a]
                                   /\ seenVid[a] < seenNext
       /\ seenNext \in Nat /\ nextVid <= seenNext
  BY <1>1, <1>2, <1>15
<1>17. /\ place \cap keep = {} /\ \A t \in DOMAIN at : at[t] \notin place
       /\ DOMAIN at' = DOMAIN at \cup Outs(n)
       /\ \A t \in Outs(n) : at'[t] \in place
       /\ \A t \in DOMAIN at \ Outs(n) : at'[t] = at[t]
       /\ keep' = keep \cup inputs \cup place
       /\ vid' = [a \in keep' |-> vid'[a]]
       /\ \A a \in keep \cup inputs : vid'[a] = seenVid[a]
       /\ \A a \in place : vid'[a] \in Nat /\ seenNext <= vid'[a] /\ vid'[a] < nextVid'
       /\ nextVid' \in Nat /\ seenNext <= nextVid'
  BY <1>6, <1>8, <1>9, <1>10, <1>11, <1>12, <1>13
<1> HIDE DEF seenVid, seenNext
<1>. QED
  BY <1>14, <1>16, <1>17, Zenon DEF seenVid

(* Recording an op keeps the invariant: no address the recorder knows is     *)
(* given again, so its id stays that of one tensor.                          *)
LEMMA RecordOpKeeps == TraceInv /\ RecordOp => TraceInv'
<1>. SUFFICES ASSUME TraceInv, RecordOp PROVE TraceInv'
  OBVIOUS
<1> DEFINE n == next
           inputs == {at[t] : t \in Reads(n)}
<1>1. PICK seenVid, seenNext, place, new :
        /\ n \in DOMAIN Program /\ n \in Nat /\ Reads(n) \subseteq DOMAIN at
        /\ next' = n + 1 /\ fixture' = fixture
        /\ DOMAIN seenVid = keep \cup inputs
        /\ \A a \in keep : seenVid[a] = vid[a]
        /\ \A a \in inputs \ keep : seenVid[a] \in Nat /\ nextVid <= seenVid[a]
                                    /\ seenVid[a] < seenNext
        /\ seenNext \in Nat /\ nextVid <= seenNext
        /\ place \cap keep = {} /\ \A t \in DOMAIN at : at[t] \notin place
        /\ DOMAIN at' = DOMAIN at \cup Outs(n)
        /\ \A t \in Outs(n) : at'[t] \in place
        /\ \A t \in DOMAIN at \ Outs(n) : at'[t] = at[t]
        /\ keep' = keep \cup inputs \cup place
        /\ vid' = [a \in keep' |-> vid'[a]]
        /\ \A a \in keep \cup inputs : vid'[a] = seenVid[a]
        /\ \A a \in place : vid'[a] \in Nat /\ seenNext <= vid'[a] /\ vid'[a] < nextVid'
        /\ nextVid' \in Nat /\ seenNext <= nextVid'
        /\ records' = Append(records, new)
        /\ new.ins = {seenVid[a] : a \in inputs}
        /\ new.outs = {vid'[a] : a \in place}
        /\ new.external = {seenVid[a] : a \in inputs \ keep}
        /\ new.cat = Program[n].cat /\ new.bmm = Program[n].bmm /\ new.N = Program[n].N
        /\ new = [ins |-> new.ins, outs |-> new.outs, external |-> new.external,
                  cat |-> new.cat, bmm |-> new.bmm, N |-> new.N]
  BY RecordFacts
<1>2. RecordsInv /\ IdsInv /\ ReadsInv /\ TensorsInv /\ FlowInv /\ OriginsInv /\ n \in Nat
  BY <1>1 DEF TraceInv
<1>3. Len(Program) \in Nat /\ DOMAIN Program = 1..Len(Program) /\ n \in 1..Len(Program)
  BY <1>1, ProgramAssumption
<1>4. /\ \A a \in keep : vid[a] \in Nat /\ vid[a] < nextVid
      /\ nextVid \in Nat
  BY <1>2 DEF IdsInv
(* Every id known before the outputs are put anywhere is below seenNext.     *)
<1>5. \A a \in keep \cup inputs : seenVid[a] \in Nat /\ seenVid[a] < seenNext
  BY <1>1, <1>4
<1>6. new.ins \subseteq Nat /\ (\A v \in new.ins : v < seenNext)
      /\ new.external \subseteq Nat
      /\ new.outs \subseteq Nat /\ (\A v \in new.outs : seenNext <= v /\ v < nextVid')
  <2>1. new.ins \subseteq Nat /\ \A v \in new.ins : v < seenNext
    BY <1>1, <1>5
  <2>2. new.external \subseteq Nat
    BY <1>1, <1>5
  <2>3. new.outs \subseteq Nat /\ \A v \in new.outs : seenNext <= v /\ v < nextVid'
    BY <1>1
  <2>. QED
    BY <2>1, <2>2, <2>3
<1>7. new \in RecordSet
  <2>1. Program[n].cat \in STRING /\ Program[n].bmm \in BOOLEAN /\ Program[n].N \in Nat
    BY <1>1, ProgramAssumption
  <2>. QED
    BY <1>1, <1>6, <2>1 DEF RecordSet
<1>8. /\ records \in Seq(RecordSet) /\ Len(records) = n - 1
      /\ records' \in Seq(RecordSet) /\ Len(records') = n
      /\ records'[n] = new /\ \A i \in 1..(n - 1) : records'[i] = records[i]
  BY <1>1, <1>2, <1>7 DEF RecordsInv
<1>10. /\ next' = n + 1 /\ 1..(next' - 1) = 1..n /\ n \in 1..n
       /\ \A i \in 1..n : i \in 1..(n - 1) \/ i = n
  <2>1. next' = n + 1 /\ n \in Nat /\ n >= 1
    BY <1>1, <1>3
  <2>2. next' - 1 = n
    BY <2>1
  <2> HIDE DEF n
  <2>. QED
    BY <2>1, <2>2
<1> HIDE DEF n
<1>11. RecordsInv'
  <2>1. n + 1 \in 1..(Len(Program) + 1)
    BY <1>3
  <2>2. \A i \in 1..(n - 1) : records[i].cat = Program[i].cat /\ records[i].bmm = Program[i].bmm
                             /\ records[i].N = Program[i].N
    BY <1>2 DEF RecordsInv, n
  <2>3. \A i \in 1..n : records'[i].cat = Program[i].cat /\ records'[i].bmm = Program[i].bmm
                        /\ records'[i].N = Program[i].N
    BY <1>1, <1>8, <1>10, <2>2
  <2>4. Len(records') = next' - 1
    BY <1>2, <1>8, <1>10
  <2>. QED
    BY <1>8, <1>10, <2>1, <2>3, <2>4 DEF RecordsInv
<1>12. \A i \in 1..(n - 1) : \A v \in records[i].ins \cup records[i].outs : v \in Nat /\ v < nextVid
  <2>1. \A i \in 1..(n - 1) : records[i] \in RecordSet
    BY <1>8
  <2>. QED
    BY <1>2, <2>1 DEF IdsInv, RecordSet, n
<1>13. IdsInv'
  <2>1. \A a \in keep' : vid'[a] \in Nat /\ vid'[a] < nextVid'
    <3>. SUFFICES ASSUME NEW a \in keep' PROVE vid'[a] \in Nat /\ vid'[a] < nextVid'
      OBVIOUS
    <3>1. CASE a \in place
      BY <1>1, <3>1
    <3>2. CASE a \in keep \cup inputs
      BY <1>1, <1>5, <3>2
    <3>. QED
      BY <1>1, <3>1, <3>2
  <2>2. \A i \in 1..n : \A v \in records'[i].ins \cup records'[i].outs : v < nextVid'
    <3>1. \A i \in 1..(n - 1) : \A v \in records'[i].ins \cup records'[i].outs : v < nextVid'
      BY <1>1, <1>4, <1>8, <1>12
    <3>2. \A v \in new.ins \cup new.outs : v < nextVid'
      <4>1. \A v \in new.ins : v \in Nat /\ v < seenNext
        BY <1>6
      <4>2. \A v \in new.outs : v < nextVid'
        BY <1>6
      <4>3. seenNext \in Nat /\ nextVid' \in Nat /\ seenNext <= nextVid'
        BY <1>1
      <4>. QED
        BY <4>1, <4>2, <4>3
    <3>. QED
      BY <1>8, <1>10, <3>1, <3>2
  <2>3. \A p \in 1..(n - 1) : records'[p].outs \cap records'[n].outs = {}
    <3>. SUFFICES ASSUME NEW p \in 1..(n - 1), NEW v \in records[p].outs, v \in new.outs PROVE FALSE
      BY <1>8
    <3>1. v \in Nat /\ v < nextVid
      BY <1>12
    <3>2. seenNext <= v
      BY <1>6
    <3>. QED
      BY <1>1, <1>4, <3>1, <3>2
  <2>4. \A p, q \in 1..(n - 1) : p # q => records'[p].outs \cap records'[q].outs = {}
    BY <1>2, <1>8 DEF IdsInv, n
  <2>5. \A p, q \in 1..n : p # q => records'[p].outs \cap records'[q].outs = {}
    BY <1>10, <2>3, <2>4
  <2>. QED
    BY <1>1, <1>10, <2>1, <2>2, <2>5 DEF IdsInv
<1>14. There(n + 1) = There(n) \cup Outs(n)
  <2>1. 1..(n + 1 - 1) = 1..(n - 1) \cup {n}
    <3>1. n \in Nat /\ n >= 1
      BY <1>3
    <3>. QED
      BY <3>1
  <2>. QED
    BY <2>1 DEF There
<1>15. ReadsInv'
  <2>1. DOMAIN at' \subseteq There(n + 1)
    BY <1>1, <1>2, <1>14 DEF ReadsInv, n
  <2>2. Reads(n) \subseteq There(n)
    BY <1>1, <1>2 DEF ReadsInv, n
  <2>3. \A i \in 1..n : Reads(i) \subseteq There(i)
    BY <1>2, <1>10, <2>2 DEF ReadsInv, n
  <2>. QED
    BY <1>10, <2>1, <2>3 DEF ReadsInv
(* No op wrote before what the op that runs now writes.                      *)
<1>16. \A p \in 1..(n - 1) : Outs(p) \cap Outs(n) = {}
  <2>1. \A p \in 1..(n - 1) : p \in DOMAIN Program /\ p # n
    BY <1>3
  <2>. QED
    BY <1>1, <2>1, ProgramAssumption DEF Outs
<1>17. Outs(n) \cap There(n) = {}
  <2>1. Outs(n) \cap (ToSet(Resident) \cup Late) = {}
    BY <1>1, ProgramAssumption DEF Outs
  <2>. QED
    BY <1>16, <2>1 DEF There
(* What a tensor read has for an id says which op wrote it.                  *)
<1>18. ASSUME NEW t \in DOMAIN at, at[t] \in keep \cup inputs, NEW p \in 1..(n - 1)
       PROVE  t \in Outs(p) <=> seenVid[at[t]] \in records[p].outs
  <2>1. CASE at[t] \in keep
    BY <1>1, <1>2, <2>1 DEF TensorsInv, n
  <2>2. CASE at[t] \notin keep
    <3>1. t \notin Outs(p)
      BY <1>2, <2>2 DEF TensorsInv, n
    <3>2. seenVid[at[t]] \in Nat /\ nextVid <= seenVid[at[t]]
      BY <1>1, <1>18, <2>2
    <3>3. \A v \in records[p].outs : v \in Nat /\ v < nextVid
      BY <1>12
    <3>. QED
      BY <1>4, <3>1, <3>2, <3>3
  <2>. QED
    BY <2>1, <2>2
<1>19. TensorsInv'
  <2>. SUFFICES ASSUME NEW t \in DOMAIN at', NEW p \in 1..n
               PROVE t \in Outs(p) <=> at'[t] \in keep' /\ vid'[at'[t]] \in records'[p].outs
    BY <1>10 DEF TensorsInv
  <2>1. CASE t \in Outs(n)
    <3>1. at'[t] \in place /\ at'[t] \in keep' /\ vid'[at'[t]] \in new.outs
      BY <1>1, <2>1
    <3>2. p = n => t \in Outs(p) /\ vid'[at'[t]] \in records'[p].outs
      BY <1>8, <2>1, <3>1
    <3>3. ASSUME p \in 1..(n - 1) PROVE t \notin Outs(p) /\ vid'[at'[t]] \notin records'[p].outs
      <4>1. seenNext <= vid'[at'[t]] /\ vid'[at'[t]] \in Nat
        BY <1>1, <3>1
      <4>2. \A v \in records'[p].outs : v \in Nat /\ v < nextVid
        BY <1>8, <1>12, <3>3
      <4>3. vid'[at'[t]] \notin records'[p].outs
        <5>. SUFFICES ASSUME vid'[at'[t]] \in records'[p].outs PROVE FALSE
          OBVIOUS
        <5>1. vid'[at'[t]] < nextVid
          BY <4>2
        <5>2. seenNext \in Nat /\ nextVid \in Nat /\ nextVid <= seenNext
          BY <1>1, <1>4
        <5>. QED
          BY <4>1, <5>1, <5>2
      <4>4. t \notin Outs(p)
        BY <1>16, <2>1, <3>3
      <4>. QED
        BY <4>3, <4>4
    <3>. QED
      BY <1>10, <3>1, <3>2, <3>3
  <2>2. CASE t \notin Outs(n)
    <3>1. t \in DOMAIN at /\ at'[t] = at[t] /\ at[t] \notin place
      BY <1>1, <2>2
    <3>2. at'[t] \in keep' <=> at[t] \in keep \cup inputs
      BY <1>1, <3>1
    <3>3. at[t] \in keep \cup inputs => vid'[at'[t]] = seenVid[at[t]]
      BY <1>1, <3>1
    <3>4. CASE p = n
      <4>1. at[t] \in keep \cup inputs => seenVid[at[t]] \notin new.outs
        BY <1>1, <1>5, <1>6
      <4>. QED
        BY <1>8, <2>2, <3>2, <3>3, <3>4, <4>1
    <3>5. CASE p \in 1..(n - 1)
      <4>1. at[t] \in keep \cup inputs => (t \in Outs(p) <=> seenVid[at[t]] \in records[p].outs)
        BY <1>18, <3>1, <3>5
      <4>2. at[t] \notin keep => t \notin Outs(p)
        BY <1>2, <3>1, <3>5 DEF TensorsInv, n
      <4>. QED
        BY <1>8, <3>2, <3>3, <3>5, <4>1, <4>2
    <3>. QED
      BY <1>10, <3>4, <3>5
  <2>. QED
    BY <2>1, <2>2
<1>20. FlowInv'
  <2>. SUFFICES ASSUME NEW i \in 1..n, NEW p \in 1..n
               PROVE records'[i].ins \cap records'[p].outs # {} <=> Reads(i) \cap Outs(p) # {}
    BY <1>10 DEF FlowInv
  <2>1. CASE i \in 1..(n - 1) /\ p \in 1..(n - 1)
    BY <1>2, <1>8, <2>1 DEF FlowInv, n
  <2>2. CASE i \in 1..(n - 1) /\ p = n
    <3>1. Reads(i) \subseteq There(i) /\ There(i) \subseteq There(n)
      <4>1. 1..(i - 1) \subseteq 1..(n - 1)
        BY <1>1, <2>2
      <4>. QED
        BY <1>2, <2>2, <4>1 DEF ReadsInv, There, n
    <3>2. Reads(i) \cap Outs(n) = {}
      BY <1>17, <3>1
    <3>3. ASSUME NEW v \in records[i].ins, v \in new.outs PROVE FALSE
      BY <1>1, <1>4, <1>6, <1>12, <2>2, <3>3
    <3>. QED
      BY <1>8, <2>2, <3>2, <3>3
  <2>3. CASE i = n /\ p = n
    <3>1. Reads(n) \cap Outs(n) = {}
      BY <1>1, <1>2, <1>17 DEF ReadsInv, n
    <3>2. ASSUME NEW v \in new.ins, v \in new.outs PROVE FALSE
      BY <1>1, <1>6, <3>2
    <3>. QED
      BY <1>8, <2>3, <3>1, <3>2
  <2>4. CASE i = n /\ p \in 1..(n - 1)
    <3>1. \A t \in Reads(n) : t \in DOMAIN at /\ at[t] \in inputs
      BY <1>1
    <3>2. \A t \in Reads(n) : t \in Outs(p) <=> seenVid[at[t]] \in records[p].outs
      BY <1>18, <2>4, <3>1
    <3>3. new.ins = {seenVid[at[t]] : t \in Reads(n)}
      BY <1>1
    <3>. QED
      BY <1>8, <2>4, <3>2, <3>3
  <2>. QED
    BY <1>10, <2>1, <2>2, <2>3, <2>4
<1>21. OriginsInv'
  <2>1. ASSUME NEW a \in keep
        PROVE \E p \in 1..(n - 1) : seenVid[a] \in records[p].outs \cup records[p].external
    BY <1>1, <1>2 DEF OriginsInv, n
  <2>2. ASSUME NEW a \in keep'
        PROVE \E p \in 1..n : vid'[a] \in records'[p].outs \cup records'[p].external
    <3>1. CASE a \in place
      <4>1. vid'[a] \in records'[n].outs
        BY <1>1, <1>8, <3>1
      <4>. QED
        BY <1>10, <4>1
    <3>2. CASE a \in inputs \ keep
      <4>1. vid'[a] \in records'[n].external
        BY <1>1, <1>8, <3>2
      <4>. QED
        BY <1>10, <4>1
    <3>3. CASE a \in keep
      <4>1. PICK p \in 1..(n - 1) : seenVid[a] \in records[p].outs \cup records[p].external
        BY <2>1, <3>3
      <4>2. p \in 1..n /\ records'[p] = records[p] /\ vid'[a] = seenVid[a]
        BY <1>1, <1>8, <3>3
      <4>. QED
        BY <4>1, <4>2
    <3>. QED
      BY <1>1, <3>1, <3>2, <3>3
  <2>3. ASSUME NEW v \in new.ins
        PROVE \/ \E p \in 1..(n - 1) : v \in records'[p].outs
              \/ \E p \in 1..n : v \in records'[p].external
    <3>1. PICK a \in inputs : v = seenVid[a]
      BY <1>1
    <3>2. CASE a \in keep
      <4>1. PICK p \in 1..(n - 1) : seenVid[a] \in records[p].outs \cup records[p].external
        BY <2>1, <3>2
      <4>2. p \in 1..n /\ records'[p] = records[p]
        BY <1>1, <1>8
      <4>. QED
        BY <3>1, <4>1, <4>2
    <3>3. CASE a \notin keep
      <4>1. v \in records'[n].external
        BY <1>1, <1>8, <3>1, <3>3
      <4>. QED
        BY <1>10, <4>1
    <3>. QED
      BY <3>2, <3>3
  <2>4. ASSUME NEW i \in 1..(n - 1), NEW v \in records'[i].ins
        PROVE \/ \E p \in 1..(i - 1) : v \in records'[p].outs
              \/ \E p \in 1..i : v \in records'[p].external
    <3>1. \/ \E p \in 1..(i - 1) : v \in records[p].outs
          \/ \E p \in 1..i : v \in records[p].external
      BY <1>2, <1>8, <2>4 DEF OriginsInv, n
    <3>2. \A p \in 1..i : p \in 1..(n - 1)
      BY <1>1
    <3>3. \A p \in 1..(i - 1) : p \in 1..(n - 1)
      BY <1>1
    <3>. QED
      BY <1>8, <3>1, <3>2, <3>3
  <2>5. \A i \in 1..n : \A v \in records'[i].ins :
          \/ \E p \in 1..(i - 1) : v \in records'[p].outs
          \/ \E p \in 1..i : v \in records'[p].external
    <3>. SUFFICES ASSUME NEW i \in 1..n, NEW v \in records'[i].ins
                 PROVE \/ \E p \in 1..(i - 1) : v \in records'[p].outs
                       \/ \E p \in 1..i : v \in records'[p].external
      OBVIOUS
    <3>1. CASE i \in 1..(n - 1)
      BY <2>4, <3>1
    <3>2. CASE i = n
      BY <1>8, <2>3, <3>2
    <3>. QED
      BY <1>10, <3>1, <3>2
  <2>. QED
    BY <1>10, <2>2, <2>5 DEF OriginsInv
<1>22. fixture' \in Seq({TrueGraph})
  BY <1>1 DEF TraceInv
<1>. QED
  BY <1>11, <1>13, <1>15, <1>19, <1>20, <1>21, <1>22 DEF TraceInv

-----------------------------------------------------------------------------
(* The contraction.  The ops an op reads from, by the names of the tensors;  *)
(* every tensor is there before it is read.                                  *)
Writers(i) == {p \in DOMAIN Program : Outs(p) \cap Reads(i) # {}}
Runnable == \A i \in DOMAIN Program : Reads(i) \subseteq There(i)

(* What an op reads was written before it.                                   *)
LEMMA WritersBefore ==
  ASSUME Runnable, NEW i \in DOMAIN Program
  PROVE  Writers(i) \subseteq 1..(i - 1)
<1>. SUFFICES ASSUME NEW p \in DOMAIN Program, NEW t \in Outs(p), t \in Reads(i) PROVE p \in 1..(i - 1)
  BY DEF Writers
<1>1. t \in There(i)
  BY DEF Runnable
<1>2. t \notin ToSet(Resident) \cup Late
  BY ProgramAssumption DEF Outs
<1>3. PICK q \in 1..(i - 1) : t \in Outs(q)
  BY <1>1, <1>2 DEF There
<1>4. i \in Nat /\ i <= Len(Program) /\ DOMAIN Program = 1..Len(Program) /\ Len(Program) \in Nat
  BY ProgramAssumption
<1>5. q \in DOMAIN Program
  BY <1>4
<1>6. q = p
  BY <1>3, <1>5, ProgramAssumption DEF Outs
<1>. QED
  BY <1>6

(* The compute ops whose data the outputs of an op carry, up to op k.        *)
Carried(g, i) == IF Compute(i) THEN {i} ELSE UNION {g[p] : p \in Writers(i)}
IsCarried(g, D) == g = [i \in D |-> Carried(g, i)]
CarriedUpTo == {k \in Nat : k <= Len(Program) => \E g : IsCarried(g, 1..k)}

(* There is such a function.                                                 *)
LEMMA CarriedExists ==
  ASSUME Runnable
  PROVE  \E g : IsCarried(g, DOMAIN Program)
<1>0. Len(Program) \in Nat /\ DOMAIN Program = 1..Len(Program)
  BY ProgramAssumption
<1>1. 0 \in CarriedUpTo
  <2> DEFINE g == [i \in 1..0 |-> {}]
  <2>1. IsCarried(g, 1..0)
    BY DEF IsCarried
  <2> HIDE DEF g
  <2>. QED
    BY <2>1 DEF CarriedUpTo
<1>2. ASSUME NEW k \in Nat, k \in CarriedUpTo PROVE k + 1 \in CarriedUpTo
  <2>. SUFFICES ASSUME k + 1 <= Len(Program) PROVE \E g : IsCarried(g, 1..(k + 1))
    BY DEF CarriedUpTo
  <2>1. PICK g : IsCarried(g, 1..k)
    BY <1>0, <1>2 DEF CarriedUpTo
  <2> DEFINE h == [i \in 1..(k + 1) |-> Carried(g, i)]
  <2>2. \A i \in 1..k : g[i] = Carried(g, i)
    BY <2>1, Zenon DEF IsCarried
  <2>3. \A i \in 1..k : i \in 1..(k + 1) /\ h[i] = g[i]
    BY <2>2
  <2>4. \A i \in 1..(k + 1) : Writers(i) \subseteq 1..k
    <3>1. \A i \in 1..(k + 1) : i \in DOMAIN Program /\ 1..(i - 1) \subseteq 1..k
      BY <1>0
    <3>. QED
      BY <3>1, WritersBefore
  <2>5. \A i \in 1..(k + 1) : Carried(g, i) = Carried(h, i)
    <3>. SUFFICES ASSUME NEW i \in 1..(k + 1) PROVE Carried(g, i) = Carried(h, i)
      OBVIOUS
    <3>1. \A p \in Writers(i) : h[p] = g[p]
      BY <2>3, <2>4
    <3> HIDE DEF h
    <3>2. {g[p] : p \in Writers(i)} = {h[p] : p \in Writers(i)}
      BY <3>1
    <3>. QED
      BY <3>2 DEF Carried
  <2>6. IsCarried(h, 1..(k + 1))
    <3>1. h = [i \in 1..(k + 1) |-> Carried(g, i)]
      OBVIOUS
    <3> HIDE DEF h
    <3>. QED
      BY <2>5, <3>1 DEF IsCarried
  <2> HIDE DEF h
  <2>. QED
    BY <2>6
<1>3. Len(Program) \in CarriedUpTo
  BY <1>0, <1>1, <1>2, NatSetInduction
<1>. QED
  BY <1>0, <1>3 DEF CarriedUpTo

(* The compute ops an op gets its data from, as Carries has it ...           *)
LEMMA CarriesRec ==
  ASSUME Runnable
  PROVE  /\ Carries = [i \in DOMAIN Program |-> Carries[i]]
         /\ \A i \in DOMAIN Program :
              Carries[i] = UNION {IF Compute(p) THEN {p} ELSE Carries[p] : p \in Writers(i)}
<1> DEFINE g == CHOOSE g : IsCarried(g, DOMAIN Program)
<1>1. IsCarried(g, DOMAIN Program)
  BY CarriedExists, Zenon
<1>2. Carries = [i \in DOMAIN Program |-> UNION {g[p] : p \in Writers(i)}]
  BY DEF Carries, IsCarried, Carried, Writers, Outs
<1> HIDE DEF g
<1>3. \A p \in DOMAIN Program : g[p] = Carried(g, p)
  BY <1>1, Zenon DEF IsCarried
<1>4. \A p \in DOMAIN Program : g[p] = IF Compute(p) THEN {p} ELSE Carries[p]
  <2>1. \A p \in DOMAIN Program : Carries[p] = UNION {g[q] : q \in Writers(p)}
    BY <1>2
  <2>. QED
    BY <1>3, <2>1 DEF Carried
<1>5. ASSUME NEW i \in DOMAIN Program
      PROVE  Carries[i] = UNION {IF Compute(p) THEN {p} ELSE Carries[p] : p \in Writers(i)}
  <2>1. Writers(i) \subseteq DOMAIN Program
    BY DEF Writers
  <2>2. {g[p] : p \in Writers(i)} = {IF Compute(p) THEN {p} ELSE Carries[p] : p \in Writers(i)}
    BY <1>4, <2>1
  <2>3. Carries[i] = UNION {g[p] : p \in Writers(i)}
    BY <1>2
  <2>. QED
    BY <2>2, <2>3
<1>6. Carries = [i \in DOMAIN Program |-> Carries[i]]
  BY <1>2
<1>. QED
  BY <1>5, <1>6

(* ... and as the recorder's ids have it.                                    *)
FirstOf(v) == {p \in DOMAIN records : /\ v \in records[p].outs
                                      /\ \A q \in 1..(p - 1) : v \notin records[q].outs}
Producers(i) == UNION {FirstOf(v) : v \in records[i].ins}
PredsOf(f, i) == UNION {IF records[p].cat # "none" THEN {p} ELSE f[p] : p \in Producers(i)}
IsPreds(f) == f = [i \in DOMAIN records |-> PredsOf(f, i)]

(* When all ops are recorded both are the same.                              *)
LEMMA PredsAreCarries ==
  ASSUME TraceInv, next = Len(Program) + 1
  PROVE  Preds = Carries
<1>0. /\ Len(Program) \in Nat /\ DOMAIN Program = 1..Len(Program)
      /\ DOMAIN records = DOMAIN Program
      /\ 1..(next - 1) = DOMAIN Program
  BY ProgramAssumption DEF TraceInv, RecordsInv
<1>1. Runnable
  BY <1>0 DEF TraceInv, ReadsInv, Runnable
<1>2. ASSUME NEW i \in DOMAIN Program PROVE Producers(i) = Writers(i)
  <2>1. \A p \in DOMAIN Program : p \in Writers(i) <=> records[i].ins \cap records[p].outs # {}
    BY <1>0 DEF TraceInv, FlowInv, Writers
  <2>2. \A p, q \in DOMAIN Program : p # q => records[p].outs \cap records[q].outs = {}
    BY <1>0 DEF TraceInv, IdsInv
  <2>3. \A p \in DOMAIN Program : \A q \in 1..(p - 1) : q \in DOMAIN Program /\ q # p
    BY <1>0
  <2>4. \A v : FirstOf(v) = {p \in DOMAIN Program : v \in records[p].outs}
    BY <1>0, <2>2, <2>3 DEF FirstOf
  <2>5. \A p : p \in Producers(i) <=> \E v \in records[i].ins : p \in FirstOf(v)
    BY DEF Producers
  <2>6. \A p : p \in Producers(i) <=> p \in DOMAIN Program /\ records[i].ins \cap records[p].outs # {}
    BY <2>4, <2>5
  <2>7. Writers(i) \subseteq DOMAIN Program
    BY DEF Writers
  <2>. QED
    BY <2>1, <2>6, <2>7
<1>3. \A p \in DOMAIN Program : records[p].cat # "none" <=> Compute(p)
  BY <1>0 DEF TraceInv, RecordsInv, Compute
<1>4. ASSUME NEW f, NEW i \in DOMAIN Program
      PROVE PredsOf(f, i) = UNION {IF Compute(p) THEN {p} ELSE f[p] : p \in Writers(i)}
  <2>1. Writers(i) \subseteq DOMAIN Program
    BY DEF Writers
  <2>2. \A p \in Writers(i) : (IF records[p].cat # "none" THEN {p} ELSE f[p])
                              = (IF Compute(p) THEN {p} ELSE f[p])
    BY <1>3, <2>1
  <2>3. {IF records[p].cat # "none" THEN {p} ELSE f[p] : p \in Writers(i)}
        = {IF Compute(p) THEN {p} ELSE f[p] : p \in Writers(i)}
    BY <2>2
  <2>. QED
    BY <1>2, <2>3 DEF PredsOf
<1>5. IsPreds(Carries)
  <2>1. \A i \in DOMAIN Program : Carries[i] = PredsOf(Carries, i)
    BY <1>1, <1>4, CarriesRec
  <2>2. Carries = [i \in DOMAIN Program |-> Carries[i]]
    BY <1>1, CarriesRec
  <2>. QED
    BY <1>0, <2>1, <2>2 DEF IsPreds
<1>6. Preds = CHOOSE f : IsPreds(f)
  BY DEF Preds, IsPreds, PredsOf, Producers, FirstOf
<1>7. IsPreds(Preds)
  BY <1>5, <1>6, Zenon
<1>8. \A i \in DOMAIN Program : Preds[i] = PredsOf(Preds, i)
  BY <1>0, <1>7, Zenon DEF IsPreds
<1>9. \A i \in DOMAIN Program : Preds[i] = Carries[i]
  <2> DEFINE B == {i \in DOMAIN Program : Preds[i] # Carries[i]}
  <2>. SUFFICES ASSUME B # {} PROVE FALSE
    OBVIOUS
  <2>1. B \in SUBSET Nat
    BY <1>0
  <2>2. PICK i \in B : \A j \in B : i <= j
    BY <2>1, LeastOf
  <2>3. i \in DOMAIN Program /\ Writers(i) \subseteq 1..(i - 1)
    BY <1>1, WritersBefore
  <2>4. \A p \in Writers(i) : Preds[p] = Carries[p]
    <3>. SUFFICES ASSUME NEW p \in Writers(i) PROVE p \in DOMAIN Program /\ p \notin B
      OBVIOUS
    <3>1. p \in 1..(i - 1) /\ i \in Nat
      BY <1>0, <2>3
    <3>2. p \in DOMAIN Program
      BY DEF Writers
    <3>. QED
      BY <2>2, <3>1, <3>2
  <2>5. {IF Compute(p) THEN {p} ELSE Preds[p] : p \in Writers(i)}
        = {IF Compute(p) THEN {p} ELSE Carries[p] : p \in Writers(i)}
    BY <2>4
  <2>6. Preds[i] = Carries[i]
    BY <1>1, <1>4, <1>8, <2>3, <2>5, CarriesRec
  <2>. QED
    BY <2>6
<1>10. Preds = [i \in DOMAIN Program |-> Preds[i]]
  BY <1>0, <1>7, Zenon DEF IsPreds
<1>11. Carries = [i \in DOMAIN Program |-> Carries[i]]
  BY <1>1, CarriesRec
<1>. QED
  BY <1>9, <1>10, <1>11

(* The elements of a finite set of naturals are numbered 1, 2, ...           *)
IndexIn(C, i) == Cardinality({j \in C : j <= i})
NodeIn(C, k) == CHOOSE i \in C : IndexIn(C, i) = k

(* Each number up to their count is that of one of them.                     *)
LEMMA NodeExists ==
  ASSUME NEW C \in SUBSET Nat, IsFiniteSet(C), NEW k \in 1..Cardinality(C)
  PROVE  NodeIn(C, k) \in C
<1> DEFINE B == {i \in C : IndexIn(C, i) >= k}
<1>0. Cardinality(C) \in Nat /\ k \in Nat /\ k >= 1 /\ k <= Cardinality(C)
  BY FS_CardinalityType
<1>1. C # {}
  BY <1>0, FS_EmptySet
<1>2. PICK m \in C : \A y \in C : m >= y
  BY <1>1, GreatestOf
<1>3. IndexIn(C, m) = Cardinality(C)
  <2>1. {j \in C : j <= m} = C
    BY <1>2
  <2>. QED
    BY <2>1 DEF IndexIn
<1>4. \A i \in C : IndexIn(C, i) \in Nat
  <2>. SUFFICES ASSUME NEW i \in C PROVE IndexIn(C, i) \in Nat
    OBVIOUS
  <2>1. IsFiniteSet({j \in C : j <= i})
    BY FS_Subset
  <2>. QED
    BY <2>1, FS_CardinalityType DEF IndexIn
<1>5. PICK i \in B : \A y \in B : i <= y
  <2>1. m \in B
    BY <1>0, <1>2, <1>3
  <2>2. B \in SUBSET Nat
    OBVIOUS
  <2>. QED
    BY <2>1, <2>2, LeastOf
<1>6. IndexIn(C, i) = k
  <2>. SUFFICES ASSUME IndexIn(C, i) > k PROVE FALSE
    BY <1>0, <1>4
  <2> DEFINE A == {j \in C : j <= i}
             R == A \ {i}
  <2>1. IsFiniteSet(A) /\ i \in A /\ A \subseteq C /\ i \in Nat
    BY FS_Subset
  <2>2. IsFiniteSet(R) /\ Cardinality(R) = IndexIn(C, i) - 1
    <3>1. Cardinality(A) = IndexIn(C, i)
      BY DEF IndexIn
    <3> HIDE DEF A
    <3>. QED
      BY <2>1, <3>1, FS_RemoveElement
  <2>3. IndexIn(C, i) - 1 >= k
    BY <1>0, <1>4
  <2>4. R # {}
    BY <1>0, <2>2, <2>3, FS_EmptySet
  <2>5. PICK g \in R : \A y \in R : g >= y
    <3>1. R \in SUBSET Nat
      OBVIOUS
    <3>. QED
      BY <2>2, <2>4, <3>1, GreatestOf
  <2>6. g \in C /\ g <= i /\ g # i /\ g \in Nat
    BY <2>5
  <2>7. {j \in C : j <= g} = R
    <3>1. \A j \in C : j <= g => j <= i /\ j # i
      BY <2>1, <2>6
    <3>. QED
      BY <2>5, <3>1
  <2>8. IndexIn(C, g) >= k
    BY <2>2, <2>3, <2>7 DEF IndexIn
  <2>9. i <= g
    BY <1>5, <2>6, <2>8
  <2>. QED
    BY <2>1, <2>6, <2>9
<1>. QED
  BY <1>5, <1>6, Zenon DEF NodeIn

(* The compute ops of a trace, and what becomes of the k-th.                 *)
Computes(ops) == {i \in DOMAIN ops : ops[i].cat # "none"}
NodeOf(C, ops, preds, k) ==
  [cat |-> ops[NodeIn(C, k)].cat, bmm |-> ops[NodeIn(C, k)].bmm, N |-> ops[NodeIn(C, k)].N,
   deps |-> {IndexIn(C, p) : p \in preds[NodeIn(C, k)]}]

(* The contraction in these terms.                                           *)
LEMMA ContractedIs ==
  ASSUME NEW ops, NEW preds
  PROVE  Contracted(ops, preds)
         = [k \in 1..Cardinality(Computes(ops)) |-> NodeOf(Computes(ops), ops, preds, k)]
BY DEF Contracted, Computes, NodeOf, NodeIn, IndexIn

(* The records contract to the graph of the program.                         *)
LEMMA RecordsContract ==
  ASSUME TraceInv, next = Len(Program) + 1
  PROVE  Contracted(records, Preds) = TrueGraph
<1> DEFINE C == Computes(Program)
<1>0. /\ Len(Program) \in Nat /\ DOMAIN Program = 1..Len(Program)
      /\ DOMAIN records = DOMAIN Program
      /\ 1..(next - 1) = DOMAIN Program
  BY ProgramAssumption DEF TraceInv, RecordsInv
<1>1. \A i \in DOMAIN Program : /\ records[i].cat = Program[i].cat
                                /\ records[i].bmm = Program[i].bmm
                                /\ records[i].N = Program[i].N
  BY <1>0 DEF TraceInv, RecordsInv
<1>2. Computes(records) = C
  BY <1>0, <1>1 DEF Computes
<1>3. C \subseteq DOMAIN Program
  BY DEF Computes
<1>4. IsFiniteSet(C) /\ C \in SUBSET Nat
  <2> DEFINE n == Len(Program)
  <2>0. n \in Nat /\ DOMAIN Program = 1..n
    BY <1>0
  <2> HIDE DEF n
  <2>1. IsFiniteSet(1..n) /\ 1..n \subseteq Nat
    BY <2>0, FS_Interval
  <2> HIDE DEF C
  <2>. QED
    BY <1>3, <2>0, <2>1, FS_Subset
<1> HIDE DEF C
<1>5. \A k \in 1..Cardinality(C) : NodeOf(C, records, Preds, k) = NodeOf(C, Program, Carries, k)
  <2>. SUFFICES ASSUME NEW k \in 1..Cardinality(C)
               PROVE NodeOf(C, records, Preds, k) = NodeOf(C, Program, Carries, k)
    OBVIOUS
  <2>1. NodeIn(C, k) \in DOMAIN Program
    BY <1>3, <1>4, NodeExists
  <2>2. Preds = Carries
    BY PredsAreCarries
  <2>. QED
    BY <1>1, <2>1, <2>2 DEF NodeOf
<1>6. Contracted(records, Preds) = [k \in 1..Cardinality(C) |-> NodeOf(C, records, Preds, k)]
  BY <1>2, ContractedIs
<1>7. TrueGraph = [k \in 1..Cardinality(C) |-> NodeOf(C, Program, Carries, k)]
  BY ContractedIs DEF TrueGraph, C
<1>. QED
  BY <1>5, <1>6, <1>7

(* The graph written is the true one, and the recorder starts anew.          *)
LEMMA WriteGraphKeeps == TraceInv /\ WriteGraph => TraceInv'
<1>. SUFFICES ASSUME TraceInv, WriteGraph PROVE TraceInv'
  OBVIOUS
<1>1. next = Len(Program) + 1
  BY DEF WriteGraph
<1>2. Resolved
  <2>1. DOMAIN records = 1..(next - 1)
    BY ProgramAssumption DEF TraceInv, RecordsInv
  <2>. QED
    BY <2>1 DEF TraceInv, OriginsInv, Resolved
<1>3. fixture' = Append(fixture, TrueGraph)
  BY <1>1, <1>2, RecordsContract DEF WriteGraph
<1>4. fixture' \in Seq({TrueGraph})
  <2>1. fixture \in Seq({TrueGraph})
    BY DEF TraceInv
  <2> DEFINE G == TrueGraph
  <2>2. fixture \in Seq({G}) /\ fixture' = Append(fixture, G)
    BY <1>3, <2>1
  <2> HIDE DEF G
  <2>3. fixture' \in Seq({G})
    BY <2>2
  <2>. QED
    BY <2>3 DEF G
<1>5. /\ at' = Placed /\ next' = 1 /\ keep' = {} /\ vid' = <<>> /\ nextVid' = 0
      /\ records' = <<>>
  BY DEF WriteGraph
<1>6. (RecordsInv /\ IdsInv /\ ReadsInv /\ TensorsInv /\ FlowInv /\ OriginsInv)'
  <2>1. Len(Program) \in Nat
    BY ProgramAssumption
  <2>2. RecordsInv'
    BY <1>5, <2>1 DEF RecordsInv
  <2>3. IdsInv'
    <3>1. vid' = [a \in keep' |-> vid'[a]]
      BY <1>5
    <3>. QED
      BY <1>5, <3>1 DEF IdsInv
  <2>4. ReadsInv'
    BY <1>5 DEF ReadsInv, There, Placed
  <2>5. TensorsInv' /\ FlowInv' /\ OriginsInv'
    BY <1>5 DEF TensorsInv, FlowInv, OriginsInv
  <2>. QED
    BY <2>2, <2>3, <2>4, <2>5
<1>. QED
  BY <1>4, <1>6 DEF TraceInv

(* Building and running the chunks leave the trace alone.                    *)
LEMMA TraceUnchanged == TraceInv /\ UNCHANGED traceVars => TraceInv'
<1>. SUFFICES ASSUME TraceInv, UNCHANGED traceVars PROVE TraceInv'
  OBVIOUS
<1>1. /\ at' = at /\ next' = next /\ keep' = keep /\ vid' = vid /\ nextVid' = nextVid
      /\ records' = records /\ fixture' = fixture
  BY DEF traceVars, recorder
<1>2. RecordsInv' /\ IdsInv'
  BY <1>1 DEF TraceInv, RecordsInv, IdsInv
<1>3. ReadsInv' /\ TensorsInv'
  BY <1>1 DEF TraceInv, ReadsInv, TensorsInv
<1>4. FlowInv' /\ OriginsInv' /\ fixture' \in Seq({TrueGraph})
  BY <1>1 DEF TraceInv, FlowInv, OriginsInv
<1>. QED
  BY <1>2, <1>3, <1>4 DEF TraceInv

-----------------------------------------------------------------------------
(* Whatever addresses the interpreter gives and whenever tensors are let go, *)
(* the ids the recorder tells tensors apart by are the program's own flow.   *)
THEOREM TraceInvariant == Spec => []TraceInv
<1>1. Init => TraceInv
  BY TraceInitKeeps DEF Init
<1>2. TraceInv /\ [Next]_vars => TraceInv'
  <2>. SUFFICES ASSUME TraceInv, [Next]_vars PROVE TraceInv'
    OBVIOUS
  <2>1. CASE UNCHANGED traceVars
    BY <2>1, TraceUnchanged
  <2>2. CASE TraceNext
    BY <2>2, MakeLateKeeps, DropKeeps, RecordOpKeeps, WriteGraphKeeps DEF TraceNext
  <2>. QED
    BY <2>1, <2>2 DEF Next, vars
<1>. QED
  BY <1>1, <1>2, PTL DEF Spec

(* Every graph committed is the data flow of the traced program: no address  *)
(* given again to another tensor makes an edge, and none is lost.            *)
THEOREM GraphsAreDataflow == Spec => []EdgesAreDataflow
<1>1. TraceInv => EdgesAreDataflow
  <2>. SUFFICES ASSUME TraceInv, NEW l \in DOMAIN fixture PROVE fixture[l] = TrueGraph
    BY DEF EdgesAreDataflow
  <2>1. fixture \in Seq({TrueGraph})
    BY DEF TraceInv
  <2> DEFINE G == TrueGraph
  <2>2. fixture \in Seq({G})
    BY <2>1
  <2> HIDE DEF G
  <2>3. fixture[l] \in {G}
    BY <2>2, SeqFacts
  <2>. QED
    BY <2>3 DEF G
<1>. QED
  BY <1>1, TraceInvariant, PTL

=============================================================================
