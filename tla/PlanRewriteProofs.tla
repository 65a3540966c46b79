------------------------- MODULE PlanRewriteProofs -------------------------
(***************************************************************************)
(* Theorems about PlanRewrite for all traced graphs, hosts, units, legal      *)
(* plans and allotments, and about KahnAcyclic, the check of the graphs it    *)
(* hands on.  From the traced graph o a scheduler makes graphs g, first while *)
(* the ops td are left to be decided, then as a plan.  In order:              *)
(*  - lists, ranks and reachability; the blocks of a traced graph;            *)
(*  - GraphInv(o, g), what g keeps of o, and TodoInv(o, g, td), what it keeps *)
(*    of the ops left: the block decided next is still the traced one;        *)
(*  - Split and Placed keep both, and UnitInv, where the decided ops are;     *)
(*  - the passes of _finish and insert_conversions keep GraphInv and leave    *)
(*    exact converts, kernels with heads and syncs at the boundaries, the     *)
(*    first time and again (Planned);                                         *)
(*  - IInv, inductive: Solving while the solver runs, Planned afterwards;     *)
(*  - the properties of PlanRewrite from IInv; last, the verdict of           *)
(*    is_acyclic.                                                             *)
(* What was priced is the subject of PlanPriceProofs.                         *)
(***************************************************************************)
EXTENDS PlanRewrite, KahnAcyclic, SharedBandwidthTheorems, SequenceTheorems

(* A finite set of integers has a largest and a smallest member.             *)
LEMMA MaxFacts ==
  ASSUME NEW S \in SUBSET Int, IsFiniteSet(S), S # {}
  PROVE  Max(S) \in S /\ \A y \in S : y <= Max(S)
<1> DEFINE F == {T \in SUBSET S : T # {} => \E x \in T : \A y \in T : y <= x}
<1>1. {} \in F
  OBVIOUS
<1>2. ASSUME NEW T \in SUBSET S, T # {}, \A x \in T : T \ {x} \in F PROVE T \in F
  <2>1. PICK x \in T : TRUE
    BY <1>2
  <2>2. CASE T = {x}
    BY <2>2
  <2>3. CASE T # {x}
    <3>1. PICK z \in T \ {x} : \A y \in T \ {x} : y <= z
      BY <1>2, <2>1, <2>3
    <3>2. CASE x <= z
      BY <3>1, <3>2
    <3>3. CASE ~(x <= z)
      <4>1. \A y \in T : y <= x
        BY <3>1, <3>3
      <4>. QED
        BY <4>1, <2>1
    <3>. QED
      BY <3>2, <3>3
  <2>. QED
    BY <2>2, <2>3
<1> HIDE DEF F
<1>3. S \in F
  BY <1>1, <1>2, RemoveInduction
<1>4. \E x \in S : \A y \in S : x >= y
  BY <1>3 DEF F
<1>. QED
  BY <1>4 DEF Max

(* The smallest is the opposite of the largest of the opposites.             *)
LEMMA MinFacts ==
  ASSUME NEW S \in SUBSET Int, IsFiniteSet(S), S # {}
  PROVE  Min(S) \in S /\ \A y \in S : Min(S) <= y
<1> DEFINE T == {0 - y : y \in S}
           f == [y \in S |-> 0 - y]
<1>1. T \in SUBSET Int /\ T # {}
  <2>1. \A y \in S : y \in Int /\ 0 - y \in Int
    OBVIOUS
  <2>2. \A y \in S : 0 - y \in T
    OBVIOUS
  <2>. QED
    BY <2>1, <2>2
<1>2. IsFiniteSet(T)
  <2>1. f \in Surjection(S, T)
    BY DEF Surjection
  <2>. QED
    BY <2>1, FS_Surjection
<1>3. Max(T) \in T /\ \A y \in T : y <= Max(T)
  <2> HIDE DEF T
  <2>. QED
    BY <1>1, <1>2, MaxFacts
<1>4. PICK x \in S : Max(T) = 0 - x
  BY <1>3
<1>5. \A y \in S : x <= y
  <2>. TAKE y \in S
  <2>1. 0 - y \in T
    OBVIOUS
  <2>2. 0 - y <= 0 - x /\ x \in Int /\ y \in Int
    BY <2>1, <1>3, <1>4
  <2>. QED
    BY <2>2
<1>. QED
  BY <1>4, <1>5 DEF Min

(* The image of a finite set is finite.                                      *)
LEMMA FiniteRange ==
  ASSUME NEW f, IsFiniteSet(DOMAIN f), f = [x \in DOMAIN f |-> f[x]]
  PROVE  IsFiniteSet(Range(f))
<1>1. f \in Surjection(DOMAIN f, Range(f))
  BY DEF Surjection, Range
<1>. QED
  BY <1>1, FS_Surjection

-----------------------------------------------------------------------------
(* Repeating a step on sets.                                                *)

(* The sets a step G leads to from x, one after the other, as a recursive    *)
(* function gives them.                                                     *)
Iterates(f, x, G, N) == f = [k \in 0..N |-> IF k = 0 THEN x ELSE G[f[k - 1]]]

(* There is such a function.                                                *)
LEMMA IteratesExist ==
  ASSUME NEW x, NEW G, NEW N \in Nat
  PROVE  \E f : Iterates(f, x, G, N)
<1> DEFINE S == {n \in Nat : \E f : Iterates(f, x, G, n)}
<1>1. 0 \in S
  <2>1. Iterates([k \in 0..0 |-> x], x, G, 0)
    BY DEF Iterates
  <2>. QED
    BY <2>1
<1>2. ASSUME NEW n \in Nat, n \in S PROVE n + 1 \in S
  <2>1. PICK f : Iterates(f, x, G, n)
    BY <1>2
  <2> DEFINE h == [k \in 0..(n + 1) |-> IF k = n + 1 THEN G[f[n]] ELSE f[k]]
  <2>2. ASSUME NEW k \in 0..(n + 1) PROVE h[k] = IF k = 0 THEN x ELSE G[h[k - 1]]
    <3>1. CASE k = 0
      <4>1. f[0] = x
        BY <2>1 DEF Iterates
      <4>. QED
        BY <3>1, <4>1
    <3>2. CASE k \in 1..n
      <4>1. f[k] = G[f[k - 1]] /\ k - 1 \in 0..(n + 1) /\ k - 1 # n + 1
        BY <3>2, <2>1 DEF Iterates
      <4>. QED
        BY <3>2, <4>1
    <3>3. CASE k = n + 1
      <4>1. h[n] = f[n] /\ k - 1 = n
        BY <3>3
      <4>. QED
        BY <3>3, <4>1
    <3>. QED
      BY <3>1, <3>2, <3>3
  <2>3. h = [k \in 0..(n + 1) |-> IF k = 0 THEN x ELSE G[h[k - 1]]]
    <3> HIDE DEF h
    <3>1. h = [k \in 0..(n + 1) |-> h[k]]
      BY DEF h
    <3>. QED
      BY <3>1, <2>2
  <2>4. Iterates(h, x, G, n + 1)
    <3> HIDE DEF h
    <3>. QED
      BY <2>3 DEF Iterates
  <2>. QED
    BY <2>4
<1> HIDE DEF S
<1>3. N \in S
  BY <1>1, <1>2, NatSetInduction
<1>. QED
  BY <1>3 DEF S

(* A growing set of members of D has stopped growing after as many steps as  *)
(* D has members; and it stays within what each step stays within.           *)
LEMMA GrowthStops ==
  ASSUME NEW D, IsFiniteSet(D), NEW G \in [SUBSET D -> SUBSET D],
         \A s \in SUBSET D : s \subseteq G[s],
         NEW f, f[0] \in SUBSET D,
         \A k \in 0..(Cardinality(D) - 1) : f[k] \in SUBSET D => f[k + 1] = G[f[k]]
  PROVE  /\ f[Cardinality(D)] \in SUBSET D
         /\ f[0] \subseteq f[Cardinality(D)]
         /\ G[f[Cardinality(D)]] = f[Cardinality(D)]
         /\ \A T \in SUBSET D : f[0] \subseteq T /\ (\A s \in SUBSET T : G[s] \subseteq T)
                                => f[Cardinality(D)] \subseteq T
<1> DEFINE N == Cardinality(D)
<1>1. N \in Nat
  BY FS_CardinalityType
<1> DEFINE S == {n \in Nat : n <= N =>
                   /\ f[n] \in SUBSET D /\ f[0] \subseteq f[n]
                   /\ G[f[n]] = f[n] \/ Cardinality(f[n]) >= n
                   /\ \A T \in SUBSET D : f[0] \subseteq T /\ (\A s \in SUBSET T : G[s] \subseteq T)
                                         => f[n] \subseteq T}
<1>2. 0 \in S
  <2>1. Cardinality(f[0]) \in Nat
    BY FS_Subset, FS_CardinalityType
  <2>. QED
    BY <2>1
<1>3. ASSUME NEW n \in Nat, n \in S PROVE n + 1 \in S
  <2>. SUFFICES ASSUME n + 1 <= N
       PROVE /\ f[n + 1] \in SUBSET D /\ f[0] \subseteq f[n + 1]
             /\ G[f[n + 1]] = f[n + 1] \/ Cardinality(f[n + 1]) >= n + 1
             /\ \A T \in SUBSET D : f[0] \subseteq T /\ (\A s \in SUBSET T : G[s] \subseteq T)
                                   => f[n + 1] \subseteq T
    OBVIOUS
  <2>1. /\ f[n] \in SUBSET D /\ f[0] \subseteq f[n]
        /\ G[f[n]] = f[n] \/ Cardinality(f[n]) >= n
        /\ \A T \in SUBSET D : f[0] \subseteq T /\ (\A s \in SUBSET T : G[s] \subseteq T)
                              => f[n] \subseteq T
    BY <1>1, <1>3
  <2>2. f[n + 1] = G[f[n]]
    BY <1>1, <2>1
  <2>3. f[n + 1] \in SUBSET D /\ f[0] \subseteq f[n + 1] /\ f[n] \subseteq f[n + 1]
    BY <2>1, <2>2
  <2>4. G[f[n + 1]] = f[n + 1] \/ Cardinality(f[n + 1]) >= n + 1
    <3>. SUFFICES ASSUME G[f[n]] # f[n] PROVE Cardinality(f[n + 1]) >= n + 1
      BY <2>2
    <3>1. IsFiniteSet(f[n + 1])
      BY <2>3, FS_Subset
    <3>2. Cardinality(f[n]) <= Cardinality(f[n + 1]) /\ Cardinality(f[n]) # Cardinality(f[n + 1])
      BY <2>2, <2>3, <3>1, FS_Subset
    <3>3. Cardinality(f[n]) \in Nat /\ Cardinality(f[n + 1]) \in Nat
      BY <3>1, <2>3, FS_Subset, FS_CardinalityType
    <3>. QED
      BY <2>1, <3>2, <3>3
  <2>5. ASSUME NEW T \in SUBSET D, f[0] \subseteq T, \A s \in SUBSET T : G[s] \subseteq T
        PROVE  f[n + 1] \subseteq T
    <3>1. f[n] \in SUBSET T
      BY <2>1, <2>5
    <3>. QED
      BY <3>1, <2>2, <2>5
  <2>. QED
    BY <2>3, <2>4, <2>5
<1>4. N \in S
  <2> HIDE DEF S
  <2>. QED
    BY <1>1, <1>2, <1>3, NatSetInduction
<1>5. ASSUME Cardinality(f[N]) >= N, f[N] \in SUBSET D PROVE G[f[N]] = f[N]
  <2>1. f[N] = D
    BY <1>1, <1>5, FS_Subset, FS_CardinalityType
  <2>2. D \in SUBSET D /\ G[D] \in SUBSET D /\ D \subseteq G[D]
    OBVIOUS
  <2>. QED
    BY <2>1, <2>2
<1>. QED
  BY <1>1, <1>4, <1>5

(* The step _reach repeats.                                                  *)
OneStep(next, D) == [s \in SUBSET D |-> s \cup UNION {next[i] : i \in s}]
(* f gives what Reached accumulates, step by step.                           *)
IsReach(f, next, n) ==
  f = [k \in 0..Cardinality(DOMAIN next) |->
         IF k = 0 THEN next[n] ELSE f[k - 1] \cup UNION {next[i] : i \in f[k - 1]}]

(* The function of Reached exists.                                           *)
LEMMA ReachExists ==
  ASSUME NEW D, IsFiniteSet(D), NEW next \in [D -> SUBSET D], NEW n \in D
  PROVE  \E f : IsReach(f, next, n)
<1> DEFINE G == [s \in SUBSET D |-> s \cup UNION {next[i] : i \in s}]
           N == Cardinality(D)
<1>1. N \in Nat /\ DOMAIN next = D
  BY FS_CardinalityType
<1>2. PICK f : Iterates(f, next[n], G, N)
  <2> HIDE DEF G, N
  <2>. QED
    BY <1>1, IteratesExist
<1>3. f[0] = next[n] /\ \A k \in 0..N : k # 0 => f[k] = G[f[k - 1]]
  <2>1. 0 \in 0..N
    BY <1>1
  <2> HIDE DEF G, N
  <2>. QED
    BY <1>2, <2>1 DEF Iterates
<1>4. \A k \in Nat : k <= N => f[k] \in SUBSET D
  <2> DEFINE S == {k \in Nat : k <= N => f[k] \in SUBSET D}
  <2>1. 0 \in S
    BY <1>3
  <2>2. ASSUME NEW k \in Nat, k \in S PROVE k + 1 \in S
    <3>. SUFFICES ASSUME k + 1 <= N PROVE f[k + 1] \in SUBSET D
      OBVIOUS
    <3>1. f[k] \in SUBSET D
      BY <1>1, <2>2
    <3>2. f[k + 1] = G[f[k]]
      <4>1. k + 1 \in 0..N /\ k + 1 # 0 /\ (k + 1) - 1 = k
        BY <1>1
      <4> HIDE DEF G, N
      <4>. QED
        BY <1>3, <4>1
    <3>. QED
      BY <3>1, <3>2
  <2> HIDE DEF S
  <2>3. Nat \subseteq S
    BY <2>1, <2>2, NatSetInduction
  <2>. QED
    BY <2>3 DEF S
<1>5. ASSUME NEW k \in 0..N, k # 0
      PROVE  f[k] = f[k - 1] \cup UNION {next[i] : i \in f[k - 1]}
  <2>1. f[k] = G[f[k - 1]]
    BY <1>3, <1>5
  <2>2. f[k - 1] \in SUBSET D
    BY <1>1, <1>4, <1>5
  <2>. QED
    BY <2>1, <2>2
<1>6. f = [k \in 0..N |-> f[k]]
  <2> HIDE DEF G, N
  <2>. QED
    BY <1>2 DEF Iterates
<1>7. f = [k \in 0..N |-> IF k = 0 THEN next[n]
                          ELSE f[k - 1] \cup UNION {next[i] : i \in f[k - 1]}]
  <2> HIDE DEF G, N
  <2>. QED
    BY <1>3, <1>5, <1>6
<1>. QED
  BY <1>1, <1>7 DEF IsReach

(* Reached is the least set that holds what comes next after n and, with     *)
(* each of its members, what comes next after that.                         *)
LEMMA ReachedFacts ==
  ASSUME NEW D, IsFiniteSet(D), NEW next \in [D -> SUBSET D], NEW n \in D
  PROVE  /\ Reached(next, n) \in SUBSET D
         /\ next[n] \subseteq Reached(next, n)
         /\ \A i \in Reached(next, n) : next[i] \subseteq Reached(next, n)
         /\ \A T \in SUBSET D : next[n] \subseteq T /\ (\A i \in T : next[i] \subseteq T)
                                => Reached(next, n) \subseteq T
<1> DEFINE f == CHOOSE h : IsReach(h, next, n)
           N == Cardinality(D)
           G == OneStep(next, D)
<1>1. N \in Nat /\ DOMAIN next = D
  BY FS_CardinalityType
<1>2. IsReach(f, next, n)
  BY ReachExists, Zenon
<1>3. Reached(next, n) = f[N]
  BY <1>1, Zenon DEF Reached, IsReach
<1> HIDE DEF f
<1>4. f[0] = next[n]
      /\ \A k \in 0..N : k # 0 => f[k] = f[k - 1] \cup UNION {next[i] : i \in f[k - 1]}
  <2>1. 0 \in 0..N
    BY <1>1
  <2>2. f = [k \in 0..N |-> IF k = 0 THEN next[n]
                            ELSE f[k - 1] \cup UNION {next[i] : i \in f[k - 1]}]
    BY <1>1, <1>2, Zenon DEF IsReach
  <2> HIDE DEF N
  <2>3. ASSUME NEW k \in 0..N
        PROVE  f[k] = IF k = 0 THEN next[n] ELSE f[k - 1] \cup UNION {next[i] : i \in f[k - 1]}
    BY <2>2, <2>3, Zenon
  <2>. QED
    BY <2>1, <2>3, Zenon
<1>5. G \in [SUBSET D -> SUBSET D] /\ \A s \in SUBSET D : s \subseteq G[s]
  BY DEF OneStep
<1>6. ASSUME NEW k \in 0..(N - 1), f[k] \in SUBSET D PROVE f[k + 1] = G[f[k]]
  <2>1. k + 1 \in 0..N /\ k + 1 # 0 /\ (k + 1) - 1 = k
    BY <1>1
  <2>2. f[k + 1] = f[(k + 1) - 1] \cup UNION {next[i] : i \in f[(k + 1) - 1]}
    BY <1>4, <2>1, Zenon
  <2>. QED
    BY <1>6, <2>1, <2>2 DEF OneStep
<1>7. f[0] \in SUBSET D
  BY <1>4
<1>8. /\ f[N] \in SUBSET D /\ f[0] \subseteq f[N] /\ G[f[N]] = f[N]
      /\ \A T \in SUBSET D : f[0] \subseteq T /\ (\A s \in SUBSET T : G[s] \subseteq T)
                             => f[N] \subseteq T
  <2>1. \A k \in 0..(Cardinality(D) - 1) : f[k] \in SUBSET D => f[k + 1] = G[f[k]]
    BY <1>6
  <2> HIDE DEF G
  <2>2. /\ f[Cardinality(D)] \in SUBSET D
        /\ f[0] \subseteq f[Cardinality(D)]
        /\ G[f[Cardinality(D)]] = f[Cardinality(D)]
        /\ \A T \in SUBSET D : f[0] \subseteq T /\ (\A s \in SUBSET T : G[s] \subseteq T)
                               => f[Cardinality(D)] \subseteq T
    BY <1>5, <2>1, <1>7, GrowthStops, Zenon
  <2>. QED
    BY <2>2
<1>9. ASSUME NEW T \in SUBSET D, \A i \in T : next[i] \subseteq T
      PROVE  \A s \in SUBSET T : G[s] \subseteq T
  BY <1>9 DEF OneStep
<1>10. \A i \in f[N] : next[i] \subseteq f[N]
  BY <1>8 DEF OneStep
<1>11. ASSUME NEW T \in SUBSET D, next[n] \subseteq T, \A i \in T : next[i] \subseteq T
       PROVE  f[N] \subseteq T
  <2> HIDE DEF G, N
  <2>1. \A s \in SUBSET T : G[s] \subseteq T
    BY <1>9, <1>11
  <2>. QED
    BY <2>1, <1>4, <1>8, <1>11
<1>12. next[n] \subseteq f[N]
  BY <1>4, <1>8
<1> HIDE DEF G, N
<1>13. Reached(next, n) \in SUBSET D /\ next[n] \subseteq Reached(next, n)
  BY <1>3, <1>8, <1>12
<1>14. \A i \in Reached(next, n) : next[i] \subseteq Reached(next, n)
  BY <1>3, <1>10
<1>15. \A T \in SUBSET D : next[n] \subseteq T /\ (\A i \in T : next[i] \subseteq T)
                           => Reached(next, n) \subseteq T
  BY <1>3, <1>11
<1>. QED
  BY <1>13, <1>14, <1>15

-----------------------------------------------------------------------------
(* Numbering a set by what comes before each member.                        *)

(* The more comes before a member, the greater its number.                  *)
LEMMA RankFacts ==
  ASSUME NEW S, IsFiniteSet(S), NEW before \in [S -> SUBSET S],
         \A x \in S : x \notin before[x],
         \A x, y \in S : x \in before[y] => before[x] \subseteq before[y]
  PROVE  /\ \A x \in S : Cardinality(before[x]) \in 0..(Cardinality(S) - 1)
         /\ \A x, y \in S : x \in before[y] => Cardinality(before[x]) < Cardinality(before[y])
<1>1. \A T \in SUBSET S : IsFiniteSet(T) /\ Cardinality(T) \in Nat
  BY FS_Subset, FS_CardinalityType
<1>2. ASSUME NEW T \in SUBSET S, NEW U \in SUBSET T, U # T
      PROVE  Cardinality(U) < Cardinality(T)
  <2>1. Cardinality(U) <= Cardinality(T) /\ (Cardinality(U) = Cardinality(T) => U = T)
    BY <1>1, FS_Subset
  <2>2. Cardinality(U) \in Nat /\ Cardinality(T) \in Nat
    BY <1>1
  <2>. QED
    BY <1>2, <2>1, <2>2
<1>3. \A x \in S : before[x] \in SUBSET S /\ before[x] # S
  OBVIOUS
<1>4. \A x \in S : Cardinality(before[x]) \in Nat /\ Cardinality(before[x]) < Cardinality(S)
  BY <1>1, <1>2, <1>3
<1>5. Cardinality(S) \in Nat
  BY <1>1
<1>6. \A x, y \in S : x \in before[y] => before[x] \in SUBSET before[y] /\ before[x] # before[y]
  OBVIOUS
<1>. QED
  BY <1>2, <1>3, <1>4, <1>5, <1>6

(* The place of a member of a set of numbers.                               *)
LEMMA PlaceInFacts ==
  ASSUME NEW S \in SUBSET Int, IsFiniteSet(S)
  PROVE  /\ \A x \in S : PlaceIn(S, x) \in 0..(Cardinality(S) - 1)
         /\ \A x, y \in S : x < y => PlaceIn(S, x) < PlaceIn(S, y)
<1> DEFINE before == [x \in S |-> {y \in S : y < x}]
<1>1. /\ before \in [S -> SUBSET S]
      /\ \A x \in S : x \notin before[x]
      /\ \A x, y \in S : x \in before[y] => before[x] \subseteq before[y]
      /\ \A x, y \in S : x < y => x \in before[y]
  <2>1. \A x \in S : x \in Int /\ before[x] = {y \in S : y < x}
    OBVIOUS
  <2>2. before \in [S -> SUBSET S]
    OBVIOUS
  <2> HIDE DEF before
  <2>3. \A x, y \in S : x \in before[y] <=> x < y
    BY <2>1
  <2>4. \A x, y \in S : x \in before[y] => before[x] \subseteq before[y]
    <3>. TAKE x, y \in S
    <3>1. \A z \in S : z < x /\ x < y => z < y
      OBVIOUS
    <3>. QED
      BY <3>1, <2>1
  <2>. QED
    BY <2>1, <2>2, <2>3, <2>4
<1>2. \A x \in S : PlaceIn(S, x) = Cardinality(before[x])
  BY DEF PlaceIn
<1> HIDE DEF before
<1>3. /\ \A x \in S : Cardinality(before[x]) \in 0..(Cardinality(S) - 1)
      /\ \A x, y \in S : x \in before[y] => Cardinality(before[x]) < Cardinality(before[y])
  BY <1>1, RankFacts, Zenon
<1>. QED
  BY <1>1, <1>2, <1>3

(* A product grows with its first factor.                                    *)
LEMMA Product ==
  ASSUME NEW a \in Int, NEW b \in Int, NEW m \in Nat, a <= b
  PROVE  a * m \in Int /\ b * m \in Int /\ a * m <= b * m
<1>1. b * m = a * m + (b - a) * m
  OBVIOUS
<1>2. (b - a) * m >= 0
  <2>1. b - a \in Nat
    OBVIOUS
  <2>. QED
    BY <2>1
<1>. QED
  BY <1>1, <1>2

(* A number written with a digit below m determines the digit.               *)
LEMMA Digits ==
  ASSUME NEW m \in Nat, NEW i \in Nat, NEW j \in Nat, NEW p \in Nat, NEW q \in Nat,
         p < m, q < m, i < j
  PROVE  i * m + p < j * m + q
<1>1. (i + 1) * m <= j * m /\ (i + 1) * m = i * m + m /\ i * m \in Int /\ j * m \in Int
  BY Product
<1>. QED
  BY <1>1

(* The ids of the parts are new, different, and in the order of the block.   *)
LEMMA PartIdsFacts ==
  ASSUME NEW base \in Nat, NEW k \in Nat, NEW B \in SUBSET Int, IsFiniteSet(B)
  PROVE  /\ PartIds(base, k, B) \in [(1..k) \X B -> base..(base + k * Cardinality(B) - 1)]
         /\ \A i, j \in 1..k : \A c, d \in B :
              PartIds(base, k, B)[<<i, c>>] = PartIds(base, k, B)[<<j, d>>] => i = j /\ c = d
         /\ \A i \in 1..k : \A c, d \in B :
              c < d => PartIds(base, k, B)[<<i, c>>] < PartIds(base, k, B)[<<i, d>>]
<1> DEFINE m == Cardinality(B)
           ids == PartIds(base, k, B)
<1>1. m \in Nat
  BY FS_CardinalityType
<1>2. /\ \A x \in B : PlaceIn(B, x) \in 0..(m - 1)
      /\ \A x, y \in B : x < y => PlaceIn(B, x) < PlaceIn(B, y)
  BY PlaceInFacts
<1>3. /\ ids = [q \in (1..k) \X B |-> ids[q]] /\ DOMAIN ids = (1..k) \X B
      /\ \A i \in 1..k : \A c \in B : ids[<<i, c>>] = base + ((i - 1) * m + PlaceIn(B, c))
  <2>1. \A i \in 1..k : \A c \in B : ids[<<i, c>>] = base + (i - 1) * m + PlaceIn(B, c)
    BY DEF PartIds
  <2>2. \A i \in 1..k : \A c \in B : (i - 1) * m \in Int /\ PlaceIn(B, c) \in Int
    BY <1>1, <1>2
  <2> HIDE DEF m
  <2>3. \A i \in 1..k : \A c \in B :
          base + (i - 1) * m + PlaceIn(B, c) = base + ((i - 1) * m + PlaceIn(B, c))
    BY <2>2
  <2>. QED
    BY <2>1, <2>3 DEF PartIds
<1> HIDE DEF m, ids
<1>4. ASSUME NEW i \in 1..k, NEW c \in B PROVE ids[<<i, c>>] \in base..(base + k * m - 1)
  <2>1. (i - 1) * m \in Int /\ i * m <= k * m /\ i * m \in Int /\ k * m \in Int
    BY <1>1, Product
  <2>2. i * m = (i - 1) * m + m
    BY <1>1
  <2>3. 0 * m <= (i - 1) * m /\ 0 * m = 0
    BY <1>1, Product
  <2>4. PlaceIn(B, c) \in 0..(m - 1)
    BY <1>2
  <2>5. ids[<<i, c>>] = base + ((i - 1) * m + PlaceIn(B, c))
    BY <1>3
  <2>7. (i - 1) * m \in Nat
    BY <2>1, <2>3
  <2>6. PlaceIn(B, c) \in Nat /\ PlaceIn(B, c) < m
    BY <1>1, <2>4
  <2>. QED
    BY <1>1, <2>1, <2>2, <2>5, <2>6
<1>5. ASSUME NEW i \in 1..k, NEW j \in 1..k, NEW c \in B, NEW d \in B, i < j
      PROVE  ids[<<i, c>>] < ids[<<j, d>>]
  <2>1. i - 1 \in Nat /\ j - 1 \in Nat /\ i - 1 < j - 1
    BY <1>5
  <2>2. PlaceIn(B, c) \in Nat /\ PlaceIn(B, d) \in Nat /\ PlaceIn(B, c) < m /\ PlaceIn(B, d) < m
    BY <1>1, <1>2
  <2>3. (i - 1) * m + PlaceIn(B, c) < (j - 1) * m + PlaceIn(B, d)
    BY <1>1, <2>1, <2>2, Digits
  <2>4. (i - 1) * m \in Int /\ (j - 1) * m \in Int
    BY <1>1, <2>1
  <2>5. /\ ids[<<i, c>>] = base + ((i - 1) * m + PlaceIn(B, c))
        /\ ids[<<j, d>>] = base + ((j - 1) * m + PlaceIn(B, d))
    BY <1>3
  <2>. QED
    BY <2>2, <2>3, <2>4, <2>5
<1>6. ASSUME NEW i \in 1..k, NEW c \in B, NEW d \in B, c < d
      PROVE  ids[<<i, c>>] < ids[<<i, d>>]
  <2>1. PlaceIn(B, c) < PlaceIn(B, d) /\ PlaceIn(B, c) \in Int /\ PlaceIn(B, d) \in Int
    BY <1>2, <1>6
  <2>2. (i - 1) * m \in Int
    BY <1>1
  <2>3. /\ ids[<<i, c>>] = base + ((i - 1) * m + PlaceIn(B, c))
        /\ ids[<<i, d>>] = base + ((i - 1) * m + PlaceIn(B, d))
    BY <1>3
  <2>. QED
    BY <2>1, <2>2, <2>3
<1>7. ASSUME NEW i \in 1..k, NEW j \in 1..k, NEW c \in B, NEW d \in B,
             ids[<<i, c>>] = ids[<<j, d>>]
      PROVE  i = j /\ c = d
  <2>1. ids[<<i, c>>] \in Int /\ ids[<<j, d>>] \in Int
    BY <1>4, <1>1
  <2>2. ~(i < j) /\ ~(j < i)
    <3>1. CASE i < j
      BY <1>5, <1>7, <2>1, <3>1
    <3>2. CASE j < i
      BY <1>5, <1>7, <2>1, <3>2
    <3>. QED
      BY <3>1, <3>2
  <2>3. i = j
    BY <2>2
  <2>4. ~(c < d) /\ ~(d < c)
    <3>1. CASE c < d
      <4>1. ids[<<i, c>>] < ids[<<i, d>>]
        BY <1>6, <3>1
      <4>2. ids[<<i, d>>] = ids[<<i, c>>]
        BY <1>7, <2>3
      <4>. QED
        BY <2>1, <4>1, <4>2
    <3>2. CASE d < c
      <4>1. ids[<<i, d>>] < ids[<<i, c>>]
        BY <1>6, <3>2
      <4>2. ids[<<i, d>>] = ids[<<i, c>>]
        BY <1>7, <2>3
      <4>. QED
        BY <2>1, <4>1, <4>2
    <3>. QED
      BY <3>1, <3>2
  <2>. QED
    BY <2>3, <2>4
<1>8. ids \in [(1..k) \X B -> base..(base + k * m - 1)]
  <2>1. \A q \in (1..k) \X B : ids[q] \in base..(base + k * m - 1)
    <3>. TAKE q \in (1..k) \X B
    <3>1. q = <<q[1], q[2]>> /\ q[1] \in 1..k /\ q[2] \in B
      OBVIOUS
    <3>2. ids[<<q[1], q[2]>>] \in base..(base + k * m - 1)
      BY <1>4, <3>1
    <3>. QED
      BY <3>1, <3>2
  <2>. QED
    BY <1>3, <2>1
<1>. QED
  BY <1>6, <1>7, <1>8 DEF ids, m

(* The ids of the converts are new and different.                           *)
LEMMA ConvertIdsFacts ==
  ASSUME NEW g, FreshId(g) \in Nat, NEW E, IsFiniteSet(E),
         \A e \in E : e = <<e[1], e[2]>> /\ e[1] \in Int /\ e[2] \in Int /\ g.at[e[2]] \in Int,
         \A e, f \in E : g.at[e[2]] = g.at[f[2]] => e[2] = f[2]
  PROVE  /\ ConvertIds(g, E) \in [E -> FreshId(g)..(FreshId(g) + Cardinality(E) - 1)]
         /\ \A e, f \in E : ConvertIds(g, E)[e] = ConvertIds(g, E)[f] => e = f
<1> DEFINE before == [e \in E |-> {f \in E : Sooner(g, f, e)}]
           ids == ConvertIds(g, E)
<1>1. /\ \A e, f \in E : e[2] \in Int /\ f[2] \in Int /\ e[1] \in Int /\ f[1] \in Int
      /\ \A e, f \in E : e # f => e[1] # f[1] \/ e[2] # f[2]
  OBVIOUS
<1>2. \A e \in E : ~Sooner(g, e, e)
  BY <1>1 DEF Sooner
<1>3. \A e, f, h \in E : Sooner(g, e, f) /\ Sooner(g, f, h) => Sooner(g, e, h)
  BY <1>1 DEF Sooner
<1>4. \A e, f \in E : e # f => Sooner(g, e, f) \/ Sooner(g, f, e)
  BY <1>1 DEF Sooner
<1>5. /\ before \in [E -> SUBSET E]
      /\ \A e \in E : e \notin before[e]
      /\ \A e, f \in E : e \in before[f] => before[e] \subseteq before[f]
      /\ \A e, f \in E : e # f => e \in before[f] \/ f \in before[e]
  BY <1>2, <1>3, <1>4
<1>6. \A e \in E : ids[e] = FreshId(g) + Cardinality(before[e])
  BY DEF ConvertIds
<1>7. ids = [e \in E |-> ids[e]]
  BY DEF ConvertIds
<1> HIDE DEF before, ids
<1>8. /\ \A e \in E : Cardinality(before[e]) \in 0..(Cardinality(E) - 1)
      /\ \A e, f \in E : e \in before[f] => Cardinality(before[e]) < Cardinality(before[f])
  BY <1>5, RankFacts
<1>9. Cardinality(E) \in Nat
  BY FS_CardinalityType
<1>10. \A e \in E : ids[e] \in FreshId(g)..(FreshId(g) + Cardinality(E) - 1)
  BY <1>6, <1>8, <1>9
<1>11. ASSUME NEW e \in E, NEW f \in E, ids[e] = ids[f] PROVE e = f
  <2>1. Cardinality(before[e]) \in Int /\ Cardinality(before[f]) \in Int
    BY <1>8, <1>9
  <2>2. Cardinality(before[e]) = Cardinality(before[f])
    BY <1>6, <1>11, <2>1
  <2>. QED
    BY <1>5, <1>8, <2>1, <2>2
<1>. QED
  BY <1>7, <1>10, <1>11 DEF ids

-----------------------------------------------------------------------------
(* What is reached from a node by two relations that agree on a set.         *)

(* Two relations that agree on a set they do not leave reach the same from a *)
(* member of it.                                                             *)
LEMMA ReachWithin ==
  ASSUME NEW D, IsFiniteSet(D), NEW next \in [D -> SUBSET D],
         NEW E, IsFiniteSet(E), NEW other \in [E -> SUBSET E],
         NEW T \in SUBSET (D \cap E), NEW n \in T,
         \A i \in T : next[i] = other[i] /\ next[i] \subseteq T
  PROVE  Reached(next, n) = Reached(other, n) /\ Reached(next, n) \subseteq T
<1>1. /\ next[n] \subseteq Reached(next, n)
      /\ \A i \in Reached(next, n) : next[i] \subseteq Reached(next, n)
      /\ \A U \in SUBSET D : next[n] \subseteq U /\ (\A i \in U : next[i] \subseteq U)
                             => Reached(next, n) \subseteq U
  BY ReachedFacts
<1>2. /\ other[n] \subseteq Reached(other, n)
      /\ \A i \in Reached(other, n) : other[i] \subseteq Reached(other, n)
      /\ \A U \in SUBSET E : other[n] \subseteq U /\ (\A i \in U : other[i] \subseteq U)
                             => Reached(other, n) \subseteq U
  BY ReachedFacts
<1>3. Reached(next, n) \subseteq T /\ Reached(other, n) \subseteq T
  BY <1>1, <1>2
<1>4. Reached(next, n) \subseteq Reached(other, n)
  <2>1. Reached(other, n) \in SUBSET D
    BY <1>3
  <2>. QED
    BY <1>1, <1>2, <1>3, <2>1
<1>5. Reached(other, n) \subseteq Reached(next, n)
  <2>1. Reached(next, n) \in SUBSET E
    BY <1>3
  <2>. QED
    BY <1>1, <1>2, <1>3, <2>1
<1>. QED
  BY <1>3, <1>4, <1>5

(* One direction: going on from T never comes back to it from outside.       *)
LEMMA ReachInto ==
  ASSUME NEW D, IsFiniteSet(D), NEW next \in [D -> SUBSET D],
         NEW E, IsFiniteSet(E), NEW other \in [E -> SUBSET E],
         NEW T \in SUBSET (D \cap E), NEW n \in T,
         \A i \in T : next[i] \cap T = other[i] \cap T,
         \A i \in D \ T : next[i] \cap T = {}
  PROVE  Reached(next, n) \cap T \subseteq Reached(other, n)
<1> DEFINE U == (Reached(other, n) \cap T) \cup (D \ T)
<1>1. /\ next[n] \subseteq Reached(next, n)
      /\ \A V \in SUBSET D : next[n] \subseteq V /\ (\A i \in V : next[i] \subseteq V)
                             => Reached(next, n) \subseteq V
  BY ReachedFacts
<1>2. /\ other[n] \subseteq Reached(other, n)
      /\ \A i \in Reached(other, n) : other[i] \subseteq Reached(other, n)
  BY ReachedFacts
<1>3. U \in SUBSET D /\ next[n] \subseteq U
  BY <1>2
<1>4. \A i \in U : next[i] \subseteq U
  <2>1. ASSUME NEW i \in Reached(other, n) \cap T PROVE next[i] \subseteq U
    BY <1>2, <2>1
  <2>2. ASSUME NEW i \in D \ T PROVE next[i] \subseteq U
    BY <2>2
  <2>. QED
    BY <2>1, <2>2
<1>5. Reached(next, n) \subseteq U
  <2> HIDE DEF U
  <2>. QED
    BY <1>1, <1>3, <1>4
<1>. QED
  BY <1>5

-----------------------------------------------------------------------------
(* The blocks of a graph.                                                   *)

(* The nodes that read each node.                                            *)
Consumers(g) == [i \in Ids(g) |-> Successors(Deps(g), i)]

(* A finite graph in which every dependency is a node.                      *)
Finite(g) == IsFiniteSet(Ids(g)) /\ \A i \in Ids(g) : g.op[i].deps \subseteq Ids(g)

(* Dependencies and consumers of a graph as functions on its ids.            *)
LEMMA GraphMaps ==
  ASSUME NEW g, Finite(g)
  PROVE  /\ Deps(g) \in [Ids(g) -> SUBSET Ids(g)] /\ Consumers(g) \in [Ids(g) -> SUBSET Ids(g)]
         /\ \A i \in Ids(g) : Deps(g)[i] = g.op[i].deps
         /\ \A i \in Ids(g) : Consumers(g)[i] = {j \in Ids(g) : i \in g.op[j].deps}
         /\ \A i : Successors(Deps(g), i) = {j \in Ids(g) : i \in g.op[j].deps}
<1>1. DOMAIN Deps(g) = Ids(g) /\ \A i \in Ids(g) : Deps(g)[i] = g.op[i].deps
  BY DEF Deps
<1>2. \A i : Successors(Deps(g), i) = {j \in Ids(g) : i \in g.op[j].deps}
  BY <1>1 DEF Successors
<1>3. Deps(g) \in [Ids(g) -> SUBSET Ids(g)]
  BY DEF Deps, Finite
<1>4. Consumers(g) \in [Ids(g) -> SUBSET Ids(g)]
  BY <1>2 DEF Consumers
<1>. QED
  BY <1>1, <1>2, <1>3, <1>4 DEF Consumers

(* The block of an op that is not the QK^T of one is itself.                 *)
LEMMA BlockAlone ==
  ASSUME NEW g, NEW n, g.op[n].group # n
  PROVE  Block(g, n) = {n}
BY DEF Block

(* The block of a QK^T is all that lies between it and its one S.V.          *)
LEMMA BlockBetween ==
  ASSUME NEW g, NEW n, g.op[n].group = n, NEW sv, Partners(g, n) = {sv}, sv \in Ids(g)
  PROVE  Block(g, n) = {n, sv} \cup (Reached(Consumers(g), n) \cap Reached(Deps(g), sv))
<1>1. (CHOOSE m \in Ids(g) : m \in Partners(g, n)) = sv
  OBVIOUS
<1>. QED
  BY <1>1, Zenon DEF Block, Consumers

(* A group of two bmms has one op besides its first.                         *)
LEMMA OnePartner ==
  ASSUME NEW g, NEW n, Finite(g), Cardinality(Partners(g, n)) = 1
  PROVE  \E sv \in Ids(g) : Partners(g, n) = {sv} /\ sv # n /\ g.op[sv].group = n
<1>1. Partners(g, n) \subseteq Ids(g) /\ IsFiniteSet(Partners(g, n))
  <2>1. Partners(g, n) \subseteq Ids(g)
    BY DEF Partners
  <2>. QED
    BY <2>1, FS_Subset DEF Finite
<1>2. PICK sv : Partners(g, n) = {sv}
  BY <1>1, FS_Singleton
<1>. QED
  BY <1>1, <1>2 DEF Partners

(* A block is a finite set of ids of the graph, its first op among them.     *)
LEMMA BlockIds ==
  ASSUME NEW g, Finite(g), NEW n \in Ids(g), g.op[n].group = n => Cardinality(Partners(g, n)) = 1
  PROVE  n \in Block(g, n) /\ Block(g, n) \subseteq Ids(g) /\ IsFiniteSet(Block(g, n))
<1>1. n \in Block(g, n) /\ Block(g, n) \subseteq Ids(g)
  <2>1. CASE g.op[n].group # n
    BY <2>1, BlockAlone
  <2>2. CASE g.op[n].group = n
    <3>1. PICK sv \in Ids(g) : Partners(g, n) = {sv}
      BY <2>2, OnePartner
    <3>2. Block(g, n) = {n, sv} \cup (Reached(Consumers(g), n) \cap Reached(Deps(g), sv))
      BY <2>2, <3>1, BlockBetween
    <3>3. Reached(Consumers(g), n) \in SUBSET Ids(g)
      BY GraphMaps, ReachedFacts DEF Finite
    <3>. QED
      BY <3>2, <3>3
  <2>. QED
    BY <2>1, <2>2
<1>. QED
  BY <1>1, FS_Subset DEF Finite

-----------------------------------------------------------------------------
(* The graphs a token is built into.                                        *)

(* What op s of the traced graph reads.                                      *)
Reads(o, s) == o.op[s].deps

(* The ops that are decided together with s.                                *)
SameBlock(o, s, t) == \E r \in Ids(o) : s \in Block(o, r) /\ t \in Block(o, r)

(* The op of a block that is decided, the first of it.                      *)
IsFirst(o, n) == n \in Ids(o) /\ \A t \in Ids(o) : SameBlock(o, n, t) => n <= t

(* What is known of each op of a traced graph.                               *)
LEMMA TracedOps ==
  ASSUME NEW o, Traced(o)
  PROVE  /\ Finite(o) /\ Ids(o) \subseteq Positive /\ Ids(o) # {} /\ NodeGraph(o)
         /\ \A i \in Ids(o) : TracedOp(o, i) /\ o.at[i] = i
BY DEF Traced, Finite, TracedOp

(* The block of an op other than a QK^T is itself.                          *)
LEMMA LoneBlocks ==
  ASSUME NEW o, Traced(o), NEW n \in Ids(o), ~IsRep(o, n)
  PROVE  Block(o, n) = {n}
<1>1. TracedOp(o, n) /\ n # 0
  BY TracedOps DEF Positive
<1>2. o.op[n].group # n
  BY <1>1 DEF TracedOp, IsRep
<1>. QED
  BY <1>2, BlockAlone

(* The block of a QK^T.                                                     *)
LEMMA RepBlocks ==
  ASSUME NEW o, Traced(o), NEW r \in Ids(o), IsRep(o, r)
  PROVE  \E sv \in Ids(o) :
           /\ Partners(o, r) = {sv} /\ o.op[r].group = r /\ r < sv /\ o.op[sv].group = r
           /\ Block(o, r) = {r, sv} \cup (Reached(Consumers(o), r) \cap Reached(Deps(o), sv))
           /\ TracedBlock(o, r)
<1>1. TracedBlock(o, r)
  BY DEF Traced, Reps
<1>2. o.op[r].group = r /\ Cardinality(Partners(o, r)) = 1
  BY <1>1 DEF TracedBlock, Closed, IsRep
<1>3. PICK sv \in Ids(o) : Partners(o, r) = {sv} /\ o.op[sv].group = r
  BY <1>2, OnePartner, TracedOps
<1>4. r < sv
  BY <1>1, <1>3 DEF TracedBlock
<1>. QED
  BY <1>1, <1>2, <1>3, <1>4, BlockBetween

(* A block starts with its QK^T.                                            *)
LEMMA BlockAbove ==
  ASSUME NEW o, Traced(o), NEW n \in Ids(o), NEW c \in Block(o, n)
  PROVE  c \in Ids(o) /\ n <= c
<1>0. Finite(o) /\ Ids(o) \subseteq Positive
  BY TracedOps
<1>1. CASE ~IsRep(o, n)
  BY <1>1, <1>0, LoneBlocks DEF Positive
<1>2. CASE IsRep(o, n)
  <2>1. PICK sv \in Ids(o) : n < sv /\ Block(o, n) =
          {n, sv} \cup (Reached(Consumers(o), n) \cap Reached(Deps(o), sv))
    BY <1>2, RepBlocks
  <2> DEFINE T == {i \in Ids(o) : n < i}
  <2>2. \A i \in Ids(o) : \A j \in Consumers(o)[i] : i < j /\ j \in Ids(o)
    <3>. TAKE i \in Ids(o)
    <3>. TAKE j \in Consumers(o)[i]
    <3>1. j \in Ids(o) /\ i \in o.op[j].deps
      BY <1>0, GraphMaps
    <3>. QED
      BY <3>1, TracedOps DEF TracedOp
  <2>3. Consumers(o)[n] \subseteq T
    BY <2>2
  <2>4. ASSUME NEW i \in T, NEW j \in Consumers(o)[i] PROVE j \in T
    <3>1. i < j /\ j \in Ids(o) /\ i \in Ids(o) /\ n < i
      BY <2>2, <2>4
    <3>2. n \in Int /\ i \in Int /\ j \in Int
      BY <3>1, <1>0 DEF Positive
    <3>. QED
      BY <3>1, <3>2
  <2>5. Reached(Consumers(o), n) \subseteq T
    <3>1. /\ Consumers(o) \in [Ids(o) -> SUBSET Ids(o)] /\ IsFiniteSet(Ids(o))
          /\ T \in SUBSET Ids(o)
      BY <1>0, GraphMaps DEF Finite
    <3>2. \A i \in T : Consumers(o)[i] \subseteq T
      BY <2>4
    <3> HIDE DEF T
    <3>. QED
      BY <3>1, <3>2, <2>3, ReachedFacts
  <2>6. \A x \in Ids(o) : x \in Int
    BY <1>0 DEF Positive
  <2>7. c = n \/ c = sv \/ c \in T
    BY <2>1, <2>5
  <2>8. c = n \/ (c \in Ids(o) /\ n < c)
    BY <2>1, <2>7
  <2> HIDE DEF T
  <2>. QED
    BY <2>6, <2>8
<1>. QED
  BY <1>1, <1>2

(* In a traced graph the ops of a block share no other block.                *)
LEMMA BlockOfTraced ==
  ASSUME NEW o, Traced(o), NEW n \in Ids(o)
  PROVE  /\ n \in Block(o, n) /\ Block(o, n) \subseteq Ids(o) /\ IsFiniteSet(Block(o, n))
         /\ SameBlock(o, n, n)
         /\ \A c \in Block(o, n) : SameBlock(o, n, c) /\ SameBlock(o, c, n)
<1>1. o.op[n].group = n => Cardinality(Partners(o, n)) = 1
  <2>1. CASE IsRep(o, n)
    BY <2>1 DEF Traced, TracedBlock, Reps, Closed
  <2>2. CASE ~IsRep(o, n)
    <3>1. TracedOp(o, n) /\ n # 0
      BY TracedOps DEF Positive
    <3>. QED
      BY <2>2, <3>1 DEF TracedOp, IsRep
  <2>. QED
    BY <2>1, <2>2
<1>2. n \in Block(o, n) /\ Block(o, n) \subseteq Ids(o) /\ IsFiniteSet(Block(o, n))
  BY <1>1, TracedOps, BlockIds
<1>. QED
  BY <1>2 DEF SameBlock

(* What shares a block with a member of the block of a first op is in it.    *)
LEMMA BlockIsClass ==
  ASSUME NEW o, Traced(o), NEW n, IsFirst(o, n), NEW c \in Block(o, n), NEW t
  PROVE  /\ SameBlock(o, c, t) <=> t \in Block(o, n)
         /\ SameBlock(o, t, c) <=> t \in Block(o, n)
<1>1. n \in Ids(o) /\ c \in Ids(o) /\ n \in Int
  BY BlockAbove, TracedOps DEF IsFirst, Positive
<1>2. ASSUME NEW r \in Ids(o), c \in Block(o, r), t \in Block(o, r) PROVE t \in Block(o, n)
  <2>1. CASE IsRep(o, n) /\ IsRep(o, r)
    <3>1. r # n => Block(o, r) \cap Block(o, n) = {}
      BY <2>1, <1>1 DEF Traced, TracedBlock, Reps
    <3>. QED
      BY <1>2, <3>1
  <2>2. CASE ~IsRep(o, r)
    BY <2>2, <1>2, LoneBlocks
  <2>3. CASE ~IsRep(o, n)
    <3>1. c = n
      BY <2>3, <1>1, LoneBlocks
    <3>2. r <= n
      BY <3>1, <1>2, BlockAbove
    <3>3. n <= r
      BY <3>1, <1>2, BlockOfTraced DEF IsFirst, SameBlock
    <3>4. r = n
      BY <3>2, <3>3, <1>1, TracedOps DEF Positive
    <3>. QED
      BY <3>4, <1>2
  <2>. QED
    BY <2>1, <2>2, <2>3
<1>. QED
  BY <1>1, <1>2 DEF SameBlock

(* The ops of a block: what they read, who reads them, what they are.        *)
LEMMA BlockMembers ==
  ASSUME NEW o, Traced(o), NEW n \in Ids(o), NEW c \in Block(o, n)
  PROVE  /\ o.op[c].shape = o.op[n].shape
         /\ \A d \in Reads(o, c) \ Block(o, n) : d < n
         /\ c # Max(Block(o, n)) =>
              \A i \in Ids(o) : c \in Reads(o, i) => i \in Block(o, n)
<1>1. CASE ~IsRep(o, n)
  <2>1. c = n /\ Block(o, n) = {n}
    BY <1>1, LoneBlocks
  <2>2. Max({n}) = n
    <3>1. n \in Int
      BY TracedOps DEF Positive
    <3>. QED
      BY <3>1 DEF Max
  <2>. QED
    BY <2>1, <2>2, TracedOps DEF TracedOp, Reads
<1>2. CASE IsRep(o, n)
  <2>1. TracedBlock(o, n)
    BY <1>2 DEF Traced, Reps
  <2>2. Finite(o)
    BY TracedOps
  <2>3. o.op[c].shape = o.op[n].shape /\ \A d \in Reads(o, c) \ Block(o, n) : d < n
    BY <2>1 DEF TracedBlock, Reads
  <2>4. ASSUME c # Max(Block(o, n)), NEW i \in Ids(o), c \in Reads(o, i) PROVE i \in Block(o, n)
    <3>1. Successors(Deps(o), c) \subseteq Block(o, n)
      BY <2>1, <2>4 DEF TracedBlock, Closed
    <3>. QED
      BY <3>1, <2>2, <2>4, GraphMaps DEF Reads
  <2>. QED
    BY <2>3, <2>4
<1>. QED
  BY <1>1, <1>2

(* A bmm that is decided is the QK^T of its block; another bmm shares it.    *)
LEMMA BmmBlocks ==
  ASSUME NEW o, Traced(o), NEW c \in Ids(o), o.op[c].cat = "attention"
  PROVE  /\ o.op[c].group \in Ids(o) /\ IsRep(o, o.op[c].group) /\ c \in Block(o, o.op[c].group)
         /\ IsFirst(o, c) => IsRep(o, c)
<1> DEFINE r == o.op[c].group
<1>1. r \in Ids(o) /\ IsRep(o, r)
  BY TracedOps DEF TracedOp, Reps
<1>2. c \in Block(o, r)
  <2>1. CASE c = r
    BY <2>1, <1>1, BlockOfTraced
  <2>2. CASE c # r
    <3>1. c \in Partners(o, r)
      BY <2>2 DEF Partners
    <3>. QED
      BY <3>1, <1>1, RepBlocks
  <2>. QED
    BY <2>1, <2>2
<1>3. ASSUME IsFirst(o, c) PROVE IsRep(o, c)
  <2>1. c <= r /\ r <= c
    BY <1>1, <1>2, <1>3, BlockOfTraced, BlockAbove DEF IsFirst
  <2>2. c = r
    BY <2>1, <1>1, TracedOps DEF Positive
  <2>. QED
    BY <2>2, <1>1
<1>. QED
  BY <1>1, <1>2, <1>3

(* The ops of the block of a bmm are bmms and support ops.                   *)
LEMMA BlockCats ==
  ASSUME NEW o, Traced(o), NEW n, IsFirst(o, n), NEW c \in Block(o, n), c # n
  PROVE  /\ IsRep(o, n) /\ o.op[c].cat \in {"attention", "elementwise"}
         /\ o.op[c].cat = "attention" => o.op[c].group = n
<1>1. IsRep(o, n) /\ n \in Ids(o) /\ c \in Ids(o)
  BY LoneBlocks, BlockAbove DEF IsFirst
<1>2. TracedOp(o, n) /\ TracedOp(o, c)
  BY <1>1, TracedOps
<1>3. o.op[c].shape \in HeadShapes
  <2>1. o.op[n].shape \in HeadShapes
    BY <1>1, <1>2 DEF TracedOp, ShapesOf, IsRep
  <2>. QED
    BY <2>1, <1>1, BlockMembers
<1>4. o.op[c].shape \notin MatmulShapes /\ o.op[c].shape \notin RowShapes
  BY <1>3 DEF HeadShapes, MatmulShapes, RowShapes
<1>5. o.op[c].cat \in {"attention", "elementwise"}
  BY <1>2, <1>4 DEF TracedOp, ShapesOf
<1>6. ASSUME o.op[c].cat = "attention" PROVE o.op[c].group = n
  <2> DEFINE q == o.op[c].group
  <2>1. q \in Ids(o) /\ IsRep(o, q) /\ c \in Block(o, q)
    BY <1>1, <1>6, BmmBlocks
  <2>2. q # n => Block(o, q) \cap Block(o, n) = {}
    BY <1>1, <2>1 DEF Traced, TracedBlock, Reps
  <2>. QED
    BY <2>1, <2>2
<1>. QED
  BY <1>1, <1>5, <1>6

-----------------------------------------------------------------------------
(* What a graph g made of o keeps of it.                                     *)

(* All but the converts.                                                    *)
Plain(g) == {i \in Ids(g) : g.op[i].cat # "convert"}

(* The op whose value arrives over the dependency d, and all that op i gets. *)
Value(g, d) == IF g.op[d].cat = "convert" THEN CHOOSE p \in g.op[d].deps : TRUE ELSE d
(* All the values that op i reads.                                           *)
Values(g, i) == {Value(g, d) : d \in g.op[i].deps}

(* The ops computing what op i has to read.                                 *)
Wanted(o, g, i) ==
  {z \in Plain(g) :
     /\ g.op[z].src \in Reads(o, g.op[i].src)
     /\ g.op[z].part = IF SameBlock(o, g.op[z].src, g.op[i].src) THEN g.op[i].part ELSE 0}

(* The nodes that compute parts of op s.                                     *)
PartsOf(g, s) == {z \in Plain(g) : g.op[z].src = s /\ g.op[z].part # 0}

(* The graph is a finite list of typed nodes, each id and each place once.   *)
Listed(g) ==
  /\ NodeGraph(g)
  /\ Ids(g) # {} /\ Finite(g) /\ Ids(g) \subseteq Positive
  /\ \A i, j \in Ids(g) : g.at[i] = g.at[j] => i = j

(* Shapes and bytes are of the category.                                     *)
Typed(g) ==
  \A i \in Ids(g) :
    /\ g.op[i].cat \in Traceable => g.op[i].shape \in ShapesOf(g.op[i].cat)
    /\ g.op[i].cat = "matmul" => BaseBytes(g.op[i]) = ShapeBytes(g.op[i].shape)

(* An op of o that is still there is as it was, up to what it reads.         *)
Originals(o, g) ==
  \A i \in Ids(g) \cap Ids(o) :
    /\ g.op[i].src = i /\ g.op[i].part = 0 /\ g.op[i].cat = o.op[i].cat
    /\ g.op[i].shape = o.op[i].shape /\ g.op[i].group = o.op[i].group

(* Any other computes a part of an op that is gone, or gathers the parts.    *)
Made(o, g) ==
  \A i \in Plain(g) \ Ids(o) :
    /\ g.op[i].src \in Ids(o) \ Ids(g)
    /\ \/ g.op[i].part # 0 /\ g.op[i].cat = o.op[g.op[i].src].cat
       \/ g.op[i].part = 0 /\ g.op[i].cat = "merge"
    /\ g.op[i].cat = "attention" \/ g.op[i].group = 0

(* No part is computed twice, the ids of the trace stay the least, blocks    *)
(* are split as a whole, and what is read of an op that was split has a      *)
(* merge.                                                                    *)
Provenance(o, g) ==
  /\ \A i, j \in Plain(g) : g.op[i].src = g.op[j].src /\ g.op[i].part = g.op[j].part => i = j
  /\ \E i \in Ids(g) : \A s \in Ids(o) : s <= i
  /\ \A s, t \in Ids(o) : SameBlock(o, s, t) /\ s \in Ids(g) => t \in Ids(g)
  /\ \A s \in Ids(o) \ Ids(g) : \A t \in Ids(o) :
       s \in Reads(o, t) /\ ~SameBlock(o, s, t) =>
         \E m \in Plain(g) : g.op[m].src = s /\ g.op[m].part = 0

(* Every op reads what it was traced to read, a merge the parts it gathers,  *)
(* and a convert one op.                                                     *)
Wired(o, g) ==
  /\ \A i \in Plain(g) :
       Values(g, i) = IF g.op[i].cat = "merge" THEN PartsOf(g, g.op[i].src) ELSE Wanted(o, g, i)
  /\ \A k \in Ids(g) \ Plain(g) : \E p \in Plain(g) : g.op[k].deps = {p}

(* A part of a bmm belongs to the part of the QK^T with the same number.      *)
Grouped(o, g) ==
  \A i \in Plain(g) :
    g.op[i].cat = "attention" =>
      LET r == g.op[i].group
      IN  /\ r \in Plain(g) /\ IsRep(g, r)
          /\ g.op[r].part = g.op[i].part /\ SameBlock(o, g.op[r].src, g.op[i].src)

(* The list is in topological order.                                         *)
Ordered(g) == \A i \in Plain(g) : \A d \in Values(g, i) : g.at[d] < g.at[i]

(* The work of each node.                                                    *)
Works(g) == [i \in Ids(g) |-> Work(g.op[i].shape)]

(* The parts of an op do its work.                                           *)
Worked(o, g) ==
  \A s \in Ids(o) :
    SumOver(Works(g), {i \in Real(g) : g.op[i].src = s}) = Work(o.op[s].shape)

(* The invariant of the graph.                                               *)
GraphInv(o, g) ==
  /\ Listed(g) /\ Typed(g) /\ Originals(o, g) /\ Made(o, g) /\ Provenance(o, g)
  /\ Wired(o, g) /\ Grouped(o, g) /\ Ordered(g) /\ Worked(o, g)

(* While the ops td are left to be decided: whole blocks, that nothing       *)
(* decided reads, and that stand in the list after what they may read.       *)
TodoInv(o, g, td) ==
  /\ td \subseteq Ids(o) \cap Ids(g) /\ Plain(g) = Ids(g)
  /\ \A s, t \in Ids(o) : SameBlock(o, s, t) /\ s \in td => t \in td
  /\ \A s \in Ids(o) \ td : Reads(o, s) \cap td = {}
  /\ \A t \in td : g.op[t] = [o.op[t] EXCEPT !.deps = g.op[t].deps]
  /\ \A t \in td : \A d \in Ids(g) : g.op[d].src < t => g.at[d] < g.at[t]

-----------------------------------------------------------------------------
(* The block that is decided.                                               *)

(* Without converts an op reads what it depends on.                          *)
LEMMA NoConverts ==
  ASSUME NEW g, Finite(g), Plain(g) = Ids(g)
  PROVE  \A i \in Ids(g) : Values(g, i) = g.op[i].deps
<1>1. \A d \in Ids(g) : Value(g, d) = d
  BY DEF Plain, Value
<1>. QED
  BY <1>1 DEF Values, Finite

(* Every node computes an op of o.                                          *)
LEMMA SourceIds ==
  ASSUME NEW o, NEW g, Originals(o, g), Made(o, g), NEW i \in Plain(g)
  PROVE  /\ g.op[i].src \in Ids(o)
         /\ i \in Ids(o) <=> g.op[i].src \in Ids(g)
         /\ i \in Ids(o) => g.op[i].src = i /\ g.op[i].part = 0
         /\ i \notin Ids(o) /\ g.op[i].cat # "merge" => g.op[i].part # 0
BY DEF Originals, Made, Plain

(* Who reads an op that is left to be decided: those that did in o.          *)
LEMMA TodoReaders ==
  ASSUME NEW o, Traced(o), NEW g, GraphInv(o, g), NEW td, TodoInv(o, g, td),
         NEW c \in Ids(g), NEW d \in td
  PROVE  d \in g.op[c].deps <=> c \in td /\ d \in Reads(o, c)
<1>1. /\ Listed(g) /\ Originals(o, g) /\ Made(o, g) /\ Wired(o, g)
      /\ Plain(g) = Ids(g) /\ d \in Ids(o) /\ d \in Ids(g)
  BY DEF GraphInv, TodoInv
<1>2. g.op[c].deps = IF g.op[c].cat = "merge" THEN PartsOf(g, g.op[c].src) ELSE Wanted(o, g, c)
  BY <1>1, NoConverts DEF Wired, Listed
<1>3. g.op[d].src = d /\ g.op[d].part = 0
  BY <1>1 DEF Originals
<1>4. CASE g.op[c].cat = "merge"
  <2>1. c \notin td
    <3>1. c \in Ids(o) => g.op[c].cat = o.op[c].cat /\ o.op[c].cat \in Traceable
      BY <1>1, TracedOps DEF Originals, TracedOp
    <3>. QED
      BY <1>4, <3>1 DEF TodoInv, Traceable, LegalDims, FixedUnit
  <2>2. d \notin PartsOf(g, g.op[c].src)
    BY <1>3 DEF PartsOf
  <2>. QED
    BY <1>2, <1>4, <2>1, <2>2
<1>5. CASE g.op[c].cat # "merge" /\ c \in td
  <2>1. g.op[c].src = c /\ g.op[c].part = 0
    BY <1>1, <1>5 DEF Originals, TodoInv
  <2>. QED
    BY <1>1, <1>2, <1>3, <1>5, <2>1 DEF Wanted
<1>6. CASE g.op[c].cat # "merge" /\ c \notin td
  <2>1. g.op[c].src \in Ids(o) /\ g.op[c].src \notin td
    BY <1>1, <1>6, SourceIds DEF TodoInv
  <2>2. d \notin Reads(o, g.op[c].src)
    BY <2>1 DEF TodoInv
  <2>. QED
    BY <1>2, <1>3, <1>6, <2>2 DEF Wanted
<1>. QED
  BY <1>4, <1>5, <1>6

(* The least op left is the first of its block, and all of it is left.       *)
LEMMA LeastIsFirst ==
  ASSUME NEW o, Traced(o), NEW g, NEW td, TodoInv(o, g, td), NEW n \in td,
         \A m \in td : n <= m
  PROVE  IsFirst(o, n) /\ Block(o, n) \subseteq td
<1>1. n \in Ids(o)
  BY DEF TodoInv
<1>2. \A t \in Ids(o) : SameBlock(o, n, t) => t \in td
  BY <1>1 DEF TodoInv
<1>. QED
  BY <1>1, <1>2, BlockOfTraced DEF IsFirst

(* The next block is the one of the traced graph: no split before it took an *)
(* op of it or put one between (tiling._block does not raise).               *)
LEMMA BlockKept ==
  ASSUME NEW o, Traced(o), NEW g, GraphInv(o, g), NEW td, TodoInv(o, g, td), NEW n \in td,
         \A m \in td : n <= m
  PROVE  /\ Block(g, n) = Block(o, n)
         /\ g.op[n].cat = "attention" => Closed(g, n)
<1>1. /\ Finite(g) /\ Finite(o) /\ n \in Ids(o) /\ n \in Ids(g) /\ n # 0
      /\ td \subseteq Ids(o) /\ td \subseteq Ids(g)
      /\ Plain(g) = Ids(g)
  BY TracedOps DEF GraphInv, Listed, TodoInv, Positive
<1>2. /\ g.op[n].group = o.op[n].group /\ g.op[n].cat = o.op[n].cat
      /\ IsFirst(o, n) /\ Block(o, n) \subseteq td
  BY <1>1, LeastIsFirst DEF GraphInv, Originals
<1>3. CASE ~IsRep(o, n)
  <2>1. o.op[n].group # n
    BY <1>1, <1>3, TracedOps DEF TracedOp, IsRep
  <2>2. o.op[n].cat # "attention"
    BY <1>1, <1>2, <1>3, BmmBlocks
  <2>3. Block(o, n) = {n}
    BY <2>1, BlockAlone
  <2>4. g.op[n].group # n
    BY <1>2, <2>1
  <2>5. Block(g, n) = {n}
    BY <2>4, BlockAlone
  <2>. QED
    BY <1>2, <2>2, <2>3, <2>5
<1>4. CASE IsRep(o, n)
  <2>1. PICK sv \in Ids(o) :
          /\ Partners(o, n) = {sv} /\ o.op[n].group = n /\ o.op[sv].group = n
          /\ Block(o, n) = {n, sv} \cup (Reached(Consumers(o), n) \cap Reached(Deps(o), sv))
          /\ TracedBlock(o, n)
    BY <1>1, <1>4, RepBlocks
  <2>2. sv \in td
    BY <1>2, <2>1
  <2>3. Partners(g, n) = {sv}
    <3>1. ASSUME NEW m \in Ids(g), m # n, g.op[m].group = n PROVE m \in Ids(o)
      <4>. SUFFICES ASSUME m \notin Ids(o) PROVE FALSE
        OBVIOUS
      <4>1. g.op[m].cat = "attention"
        BY <1>1, <3>1 DEF GraphInv, Made
      <4>2. g.op[n].part = g.op[m].part
        BY <4>1, <3>1, <1>1 DEF GraphInv, Grouped
      <4>3. g.op[n].part = 0 /\ g.op[m].part # 0
        BY <1>1, <4>1, SourceIds DEF GraphInv
      <4>. QED
        BY <4>2, <4>3
    <3>2. \A m \in Ids(g) \cap Ids(o) : g.op[m].group = o.op[m].group
      BY DEF GraphInv, Originals
    <3>. QED
      BY <2>1, <2>2, <1>1, <3>1, <3>2 DEF Partners
  <2>4. Block(g, n) = {n, sv} \cup (Reached(Consumers(g), n) \cap Reached(Deps(g), sv))
    BY <1>1, <1>2, <2>1, <2>2, <2>3, BlockBetween
  <2>5. /\ Consumers(g) \in [Ids(g) -> SUBSET Ids(g)] /\ Deps(g) \in [Ids(g) -> SUBSET Ids(g)]
        /\ Consumers(o) \in [Ids(o) -> SUBSET Ids(o)] /\ Deps(o) \in [Ids(o) -> SUBSET Ids(o)]
        /\ \A i \in Ids(g) : Deps(g)[i] = g.op[i].deps
        /\ \A i \in Ids(o) : Deps(o)[i] = Reads(o, i)
        /\ \A i \in Ids(g) : Consumers(g)[i] = {j \in Ids(g) : i \in g.op[j].deps}
        /\ \A i \in Ids(o) : Consumers(o)[i] = {j \in Ids(o) : i \in Reads(o, j)}
        /\ IsFiniteSet(Ids(g)) /\ IsFiniteSet(Ids(o))
    BY <1>1, GraphMaps DEF Reads, Finite
  <2>6. \A i \in td : \A j \in Ids(o) : i \in Reads(o, j) => j \in td
    BY DEF TodoInv
  <2>7. \A i \in td : Consumers(g)[i] = Consumers(o)[i] /\ Consumers(g)[i] \subseteq td
    <3>. TAKE i \in td
    <3>1. \A j \in Ids(g) : i \in g.op[j].deps <=> j \in td /\ i \in Reads(o, j)
      BY TodoReaders
    <3>2. Consumers(g)[i] = {j \in td : i \in Reads(o, j)}
      BY <1>1, <2>5, <3>1
    <3>3. Consumers(o)[i] = {j \in td : i \in Reads(o, j)}
      BY <1>1, <2>5, <2>6
    <3>. QED
      BY <3>2, <3>3
  <2>8. /\ Reached(Consumers(g), n) = Reached(Consumers(o), n)
        /\ Reached(Consumers(g), n) \subseteq td
    <3>1. td \in SUBSET (Ids(g) \cap Ids(o))
      BY <1>1
    <3> DEFINE D == Ids(g)
               E == Ids(o)
               next == Consumers(g)
               other == Consumers(o)
    <3>2. /\ IsFiniteSet(D) /\ IsFiniteSet(E)
          /\ next \in [D -> SUBSET D] /\ other \in [E -> SUBSET E] /\ td \in SUBSET (D \cap E)
          /\ \A i \in td : next[i] = other[i] /\ next[i] \subseteq td
      BY <2>5, <2>7, <3>1
    <3> HIDE DEF D, E, next, other
    <3>3. Reached(next, n) = Reached(other, n) /\ Reached(next, n) \subseteq td
      BY <3>2, ReachWithin
    <3>. QED
      BY <3>3 DEF next, other
  <2>9. /\ \A i \in td : Deps(g)[i] \cap td = Deps(o)[i] \cap td
        /\ \A i \in Ids(g) \ td : Deps(g)[i] \cap td = {}
    <3>1. \A i \in Ids(g) : \A d \in td : d \in g.op[i].deps <=> i \in td /\ d \in Reads(o, i)
      BY TodoReaders
    <3>. QED
      BY <1>1, <2>5, <3>1
  <2>10. \A i \in Ids(o) \ td : Deps(o)[i] \cap td = {}
    BY <2>5 DEF TodoInv
  <2>11. Reached(Deps(g), sv) \cap td \subseteq Reached(Deps(o), sv)
    <3>1. td \in SUBSET (Ids(g) \cap Ids(o))
      BY <1>1
    <3>. QED
      BY <2>2, <2>5, <2>9, <3>1, ReachInto
  <2>12. Reached(Deps(o), sv) \cap td \subseteq Reached(Deps(g), sv)
    <3>1. td \in SUBSET (Ids(o) \cap Ids(g))
      BY <1>1
    <3>. QED
      BY <2>2, <2>5, <2>9, <2>10, <3>1, ReachInto
  <2>13. Block(g, n) = Block(o, n)
    BY <2>1, <2>4, <2>8, <2>11, <2>12
  <2>14. Closed(g, n)
    <3>1. Cardinality(Partners(g, n)) = 1
      BY <2>3, FS_Singleton
    <3>2. ASSUME NEW c \in Block(g, n) \ {Max(Block(g, n))}
          PROVE  Successors(Deps(g), c) \subseteq Block(g, n)
      <4>1. c \in td /\ c # Max(Block(o, n)) /\ c \in Block(o, n)
        BY <1>2, <2>13, <3>2
      <4>2. \A i \in Ids(o) : c \in Reads(o, i) => i \in Block(o, n)
        BY <1>1, <4>1, BlockMembers
      <4>3. Successors(Deps(g), c) = {j \in Ids(g) : c \in g.op[j].deps}
        BY <1>1, GraphMaps
      <4>4. \A j \in Ids(g) : c \in g.op[j].deps => j \in Ids(o) /\ c \in Reads(o, j)
        BY <4>1, <1>1, TodoReaders
      <4>. QED
        BY <2>13, <4>2, <4>3, <4>4
    <3>. QED
      BY <1>2, <2>1, <3>1, <3>2 DEF Closed
  <2>. QED
    BY <2>13, <2>14
<1>. QED
  BY <1>3, <1>4

-----------------------------------------------------------------------------
(* The nodes a split makes.                                                 *)

(* The fields of a node, the shapes, and the units that compute.             *)
NodeFields == {"cat", "prec", "deps", "shape", "group", "unit", "bytes", "basis", "domain",
               "resident", "fused", "fusedGroup", "sync", "mergeSync", "src", "part"}

Shapes == MatmulShapes \cup HeadShapes \cup RowShapes
Chips == {"cim", "gpu", "npu", "cpu"}

(* A node is the record of its fields, each in its range.                    *)
LEMMA NodeForm ==
  ASSUME NEW c
  PROVE  c \in Node <=>
           /\ c = [x \in NodeFields |-> c[x]]
           /\ c.cat \in Traceable \cup {"merge", "convert"} /\ c.prec \in {"int8", "fp16"}
           /\ c.deps \in SUBSET Nat /\ c.shape \in Shapes
           /\ c.group \in Nat /\ c.unit \in {"cim", "gpu", "npu", "cpu", "mem", NoUnit}
           /\ c.bytes \in Nat /\ c.basis \in Nat
           /\ c.domain \in {"unset", "dram", "cpu_cache", "none"} /\ c.resident \in BOOLEAN
           /\ c.fused \in {"none", "head", "follower"} /\ c.fusedGroup \in Nat
           /\ c.sync \in Nat /\ c.mergeSync \in Nat /\ c.src \in Nat /\ c.part \in Nat
BY DEF Node, NodeFields, Shapes

(* What the merge of a split is.                                            *)
LEMMA GatherNode ==
  ASSUME NEW c \in Node, NEW parts \in SUBSET Nat, NEW dim, NEW owner \in Chips, NEW sync \in Nat,
         NEW m, m = Gather(c, parts, dim, owner, sync),
         MergeBytes(c, dim, Cardinality(parts)) \in Nat
  PROVE  /\ m.cat = "merge" /\ m.prec = c.prec /\ m.src = c.src /\ m.part = 0
         /\ m.shape = c.shape /\ m.unit = owner /\ m.deps = parts /\ m.group = 0
         /\ ~m.resident /\ m.mergeSync = sync
         /\ m \in Node
<1>1. c = [x \in NodeFields |-> c[x]]
  BY NodeForm, Zenon
<1>2. /\ m.cat = "merge" /\ m.prec = c.prec /\ m.src = c.src /\ m.part = 0
      /\ m.shape = c.shape /\ m.unit = owner /\ m.deps = parts /\ m.group = 0
      /\ ~m.resident /\ m.basis = 0
      /\ m.bytes = MergeBytes(c, dim, Cardinality(parts))
      /\ m.domain \in {"dram", "none"} /\ m.fused = "none" /\ m.fusedGroup = 0
      /\ m.sync = sync /\ m.mergeSync = sync
      /\ m = [x \in NodeFields |-> m[x]]
  BY <1>1 DEF Gather, NodeFields
<1>3. m \in Node
  <2>1. c.prec \in {"int8", "fp16"} /\ c.shape \in Shapes /\ c.src \in Nat
    BY NodeForm, Zenon
  <2>2. /\ m.cat \in Traceable \cup {"merge", "convert"}
        /\ m.unit \in {"cim", "gpu", "npu", "cpu", "mem", NoUnit}
        /\ m.domain \in {"unset", "dram", "cpu_cache", "none"}
        /\ m.fused \in {"none", "head", "follower"}
        /\ m.group \in Nat /\ m.fusedGroup \in Nat /\ m.basis \in Nat /\ m.part \in Nat
    BY <1>2 DEF Chips
  <2>3. m.resident \in BOOLEAN
    BY DEF Gather
  <2>. QED
    BY <1>2, <2>1, <2>2, <2>3, NodeForm, Zenon
<1>. QED
  BY <1>2, <1>3

(* What a part of a split is.                                               *)
PartFields(c, n, plan, i, shape, idOf, p) ==
  /\ p.cat = c.cat /\ p.prec = c.prec /\ p.src = c.src /\ p.part = i
  /\ p.shape = shape /\ p.unit = plan.units[i] /\ p.deps = Renamed(c.deps, idOf)
  /\ p.group = IF c.cat = "attention" THEN idOf[n] ELSE 0
  /\ p.resident => c.cat = "matmul" /\ plan.resident /\ i = 1
  /\ c.cat = "matmul" => BaseBytes(p) = ShapeBytes(shape)
  /\ p \in Node

(* A part of a node is a node, with these fields.                            *)
LEMMA PartNode ==
  ASSUME NEW c \in Node, NEW n, NEW plan, NEW i \in Nat, NEW size, NEW idOf,
         NEW p, p = Part(c, n, plan, i, size, idOf),
         NEW shape \in Shapes, shape = [c.shape EXCEPT ![plan.dim] = size],
         Renamed(c.deps, idOf) \in SUBSET Nat,
         ShapeBytes(shape) \in Nat \ {0},
         plan.units[i] \in Chips, c.cat = "attention" => idOf[n] \in Nat
  PROVE  PartFields(c, n, plan, i, shape, idOf, p)
<1>1. c = [x \in NodeFields |-> c[x]]
  BY NodeForm, Zenon
<1> DEFINE q == [c EXCEPT
        !.shape = shape,
        !.unit = plan.units[i],
        !.deps = Renamed(c.deps, idOf),
        !.bytes = ShapeBytes(shape),
        !.basis = IF c.cat = "matmul" THEN ShapeBytes(shape) ELSE 0,
        !.resident = c.cat = "matmul" /\ plan.resident /\ i = 1,
        !.group = IF c.cat = "attention" THEN idOf[n] ELSE 0,
        !.part = i]
<1>2. p = [q EXCEPT !.domain = Residency(q)]
  BY Zenon DEF Part
<1>3. /\ q.cat = c.cat /\ q.prec = c.prec /\ q.src = c.src /\ q.part = i
      /\ q.shape = shape /\ q.unit = plan.units[i] /\ q.deps = Renamed(c.deps, idOf)
      /\ q.group = IF c.cat = "attention" THEN idOf[n] ELSE 0
      /\ q.basis = IF c.cat = "matmul" THEN ShapeBytes(shape) ELSE 0
      /\ q.bytes = ShapeBytes(shape)
      /\ q.fused = c.fused /\ q.fusedGroup = c.fusedGroup
      /\ q.sync = c.sync /\ q.mergeSync = c.mergeSync
      /\ q = [x \in NodeFields |-> q[x]]
  BY <1>1, Zenon DEF NodeFields
<1>4. /\ q.resident => c.cat = "matmul" /\ plan.resident /\ i = 1
      /\ q.resident \in BOOLEAN
  BY <1>1 DEF NodeFields
<1>5. Residency(q) \in {"dram", "cpu_cache", "none"}
  BY DEF Residency
<1> HIDE DEF q
<1>6. /\ p.cat = q.cat /\ p.prec = q.prec /\ p.src = q.src /\ p.part = q.part
      /\ p.shape = q.shape /\ p.unit = q.unit /\ p.deps = q.deps /\ p.group = q.group
      /\ p.basis = q.basis /\ p.bytes = q.bytes /\ p.fused = q.fused
      /\ p.fusedGroup = q.fusedGroup /\ p.sync = q.sync /\ p.mergeSync = q.mergeSync
      /\ p.domain = Residency(q)
      /\ p = [x \in NodeFields |-> p[x]]
  BY <1>2, <1>3 DEF NodeFields
<1>7. (p.resident <=> q.resident) /\ p.resident \in BOOLEAN
  BY <1>2, <1>3, <1>4 DEF NodeFields
<1>8. c.cat = "matmul" => BaseBytes(p) = ShapeBytes(shape)
  BY <1>3, <1>6 DEF BaseBytes
<1>9. p \in Node
  <2>1. /\ c.cat \in Traceable \cup {"merge", "convert"} /\ c.prec \in {"int8", "fp16"}
        /\ c.src \in Nat /\ c.fused \in {"none", "head", "follower"} /\ c.fusedGroup \in Nat
        /\ c.sync \in Nat /\ c.mergeSync \in Nat
    BY NodeForm, Zenon
  <2>2. /\ p.unit \in {"cim", "gpu", "npu", "cpu", "mem", NoUnit}
        /\ p.domain \in {"unset", "dram", "cpu_cache", "none"}
        /\ p.bytes \in Nat /\ p.basis \in Nat /\ p.group \in Nat /\ p.part \in Nat
    BY <1>3, <1>5, <1>6 DEF Chips
  <2>3. /\ p.cat \in Traceable \cup {"merge", "convert"} /\ p.prec \in {"int8", "fp16"}
        /\ p.deps \in SUBSET Nat /\ p.shape \in Shapes
        /\ p.fused \in {"none", "head", "follower"} /\ p.fusedGroup \in Nat
        /\ p.sync \in Nat /\ p.mergeSync \in Nat /\ p.src \in Nat
    BY <1>3, <1>6, <2>1
  <2>. QED
    BY <1>6, <1>7, <2>2, <2>3, NodeForm, Zenon
<1>. QED
  BY <1>3, <1>4, <1>6, <1>7, <1>8, <1>9 DEF PartFields

-----------------------------------------------------------------------------
(* The shapes of the parts.                                                 *)

(* An axis that an op of this shape is split on.                            *)
AxisOf(shape, dim) ==
  \/ shape \in MatmulShapes /\ dim \in {"N", "M", "K"}
  \/ shape \in HeadShapes /\ dim \in {"heads", "kv"}
  \/ shape \in RowShapes /\ dim = "rows"

(* The three kinds of shapes are told apart by their axes.                   *)
LEMMA ShapeDomains ==
  /\ \A s \in MatmulShapes : DOMAIN s = {"M", "K", "N"} /\ IsMatmul(s)
  /\ \A s \in HeadShapes : DOMAIN s = {"heads", "kv"} /\ ~IsMatmul(s) /\ "kv" \in DOMAIN s
  /\ \A s \in RowShapes : DOMAIN s = {"rows"} /\ ~IsMatmul(s) /\ "kv" \notin DOMAIN s
BY DEF MatmulShapes, HeadShapes, RowShapes, IsMatmul

(* The product of two positive numbers is positive.                          *)
LEMMA ProductPositive ==
  ASSUME NEW a \in Positive, NEW b \in Positive PROVE a * b \in Positive
BY DEF Positive

(* A part has a shape of the same kind, and something to move.               *)
LEMMA Resized ==
  ASSUME NEW s, NEW dim, AxisOf(s, dim), NEW size \in Positive, NEW t, t = [s EXCEPT ![dim] = size]
  PROVE  /\ s \in MatmulShapes => t \in MatmulShapes
         /\ s \in HeadShapes => t \in HeadShapes
         /\ s \in RowShapes => t \in RowShapes
         /\ s[dim] \in Positive /\ DOMAIN s = DOMAIN t
BY ShapeDomains DEF AxisOf, MatmulShapes, HeadShapes, RowShapes

(* Work, elements and bytes of a shape are positive.                         *)
LEMMA ShapeNumbers ==
  ASSUME NEW s \in Shapes
  PROVE  Work(s) \in Positive /\ OutElems(s) \in Positive /\ ShapeBytes(s) \in Positive
<1>1. CASE s \in MatmulShapes
  <2>1. s.M \in Positive /\ s.K \in Positive /\ s.N \in Positive
    BY <1>1 DEF MatmulShapes
  <2>2. /\ s.M * s.K \in Positive /\ s.K * s.N \in Positive /\ s.M * s.N \in Positive
        /\ (s.M * s.K) * s.N \in Positive
    BY <2>1, ProductPositive
  <2>3. \A a, b \in Positive : a + b \in Positive
    BY DEF Positive
  <2>4. s.M * s.K + s.K * s.N \in Positive
    BY <2>2, <2>3
  <2>5. s.M * s.K + s.K * s.N + s.M * s.N \in Positive
    BY <2>2, <2>3, <2>4
  <2>. QED
    BY <1>1, <2>2, <2>5, ShapeDomains, Zenon DEF Work, OutElems, ShapeBytes
<1>2. CASE s \in HeadShapes
  <2>1. s.heads * s.kv \in Positive
    BY <1>2, ProductPositive DEF HeadShapes
  <2>. QED
    BY <1>2, <2>1, ShapeDomains DEF Work, OutElems, ShapeBytes
<1>3. CASE s \in RowShapes
  <2>1. s.rows \in Positive
    BY <1>3 DEF RowShapes
  <2>. QED
    BY <1>3, <2>1, ShapeDomains DEF Work, OutElems, ShapeBytes
<1>. QED
  BY <1>1, <1>2, <1>3 DEF Shapes

(* The work is proportional to each axis.                                   *)
LEMMA WorkLinear ==
  ASSUME NEW s, NEW dim, AxisOf(s, dim)
  PROVE  \E w \in Int : /\ Work(s) = w * s[dim]
                        /\ \A size \in Positive : Work([s EXCEPT ![dim] = size]) = w * size
<1>1. CASE s \in MatmulShapes /\ dim \in {"N", "M", "K"}
  <2> DEFINE w == IF dim = "N" THEN s.M * s.K ELSE IF dim = "M" THEN s.K * s.N ELSE s.M * s.N
  <2>1. s.M \in Int /\ s.K \in Int /\ s.N \in Int
    BY <1>1 DEF MatmulShapes, Positive
  <2>2. w \in Int /\ Work(s) = s.M * s.K * s.N
    BY <1>1, <2>1, ShapeDomains DEF Work
  <2>3. Work(s) = w * s[dim]
    <3>1. s.M * s.K * s.N = (s.K * s.N) * s.M /\ s.M * s.K * s.N = (s.M * s.N) * s.K
      BY <2>1
    <3>. QED
      BY <1>1, <2>2, <3>1
  <2>4. ASSUME NEW size \in Positive PROVE Work([s EXCEPT ![dim] = size]) = w * size
    <3> DEFINE t == [s EXCEPT ![dim] = size]
    <3>1. /\ t \in MatmulShapes
          /\ t.M = (IF dim = "M" THEN size ELSE s.M) /\ t.K = (IF dim = "K" THEN size ELSE s.K)
          /\ t.N = (IF dim = "N" THEN size ELSE s.N)
      BY <1>1 DEF MatmulShapes
    <3>2. Work(t) = t.M * t.K * t.N
      BY <3>1, ShapeDomains DEF Work
    <3> HIDE DEF t
    <3>3. size \in Int
      BY DEF Positive
    <3>4. /\ size * s.K * s.N = (s.K * s.N) * size /\ s.M * size * s.N = (s.M * s.N) * size
          /\ s.M * s.K * size = (s.M * s.K) * size
      BY <2>1, <3>3
    <3>5. Work(t) = w * size
      BY <1>1, <3>1, <3>2, <3>4
    <3>. QED
      BY <3>5 DEF t
  <2>. QED
    BY <2>2, <2>3, <2>4
<1>2. CASE s \in HeadShapes /\ dim \in {"heads", "kv"}
  <2> DEFINE w == IF dim = "heads" THEN s.kv ELSE s.heads
  <2>1. s.heads \in Int /\ s.kv \in Int /\ w \in Int /\ Work(s) = s.heads * s.kv
    BY <1>2, ShapeDomains DEF HeadShapes, Positive, Work
  <2>2. Work(s) = w * s[dim]
    BY <1>2, <2>1
  <2>3. ASSUME NEW size \in Positive PROVE Work([s EXCEPT ![dim] = size]) = w * size
    <3> DEFINE t == [s EXCEPT ![dim] = size]
    <3>1. /\ t \in HeadShapes
          /\ t.heads = (IF dim = "heads" THEN size ELSE s.heads)
          /\ t.kv = (IF dim = "kv" THEN size ELSE s.kv)
      BY <1>2 DEF HeadShapes
    <3>2. Work(t) = t.heads * t.kv
      BY <3>1, ShapeDomains DEF Work
    <3> HIDE DEF t
    <3>3. size \in Int
      BY DEF Positive
    <3>5. Work(t) = w * size
      BY <1>2, <2>1, <3>1, <3>2, <3>3
    <3>. QED
      BY <3>5 DEF t
  <2>. QED
    BY <2>1, <2>2, <2>3
<1>3. CASE s \in RowShapes /\ dim = "rows"
  <2>1. Work(s) = s.rows /\ s.rows \in Int
    BY <1>3, ShapeDomains DEF RowShapes, Positive, Work
  <2>2. ASSUME NEW size \in Positive PROVE Work([s EXCEPT ![dim] = size]) = 1 * size
    <3>1. [s EXCEPT ![dim] = size] \in RowShapes /\ [s EXCEPT ![dim] = size].rows = size
      BY <1>3 DEF RowShapes
    <3>. QED
      BY <3>1, ShapeDomains DEF Work, Positive
  <2>. QED
    BY <1>3, <2>1, <2>2
<1>. QED
  BY <1>1, <1>2, <1>3 DEF AxisOf

(* The axes offered for an op are axes of its shape.                         *)
LEMMA LegalAxis ==
  ASSUME NEW cat \in DOMAIN LegalDims, NEW dim \in LegalDims[cat], NEW s \in ShapesOf(cat),
         cat = "elementwise" => "rows" \in DOMAIN s
  PROVE  AxisOf(s, dim)
BY ShapeDomains DEF LegalDims, ShapesOf, AxisOf

(* An op cut along an axis it has keeps its kind of shape.                   *)
LEMMA ResizedKind ==
  ASSUME NEW cat \in {"matmul", "attention", "elementwise"}, NEW s \in ShapesOf(cat), NEW dim,
         AxisOf(s, dim), NEW size \in Positive
  PROVE  [s EXCEPT ![dim] = size] \in ShapesOf(cat) /\ [s EXCEPT ![dim] = size] \in Shapes
<1> DEFINE t == [s EXCEPT ![dim] = size]
<1>1. /\ s \in MatmulShapes => t \in MatmulShapes
      /\ s \in HeadShapes => t \in HeadShapes
      /\ s \in RowShapes => t \in RowShapes
  BY Resized
<1> HIDE DEF t
<1>2. t \in ShapesOf(cat) /\ t \in Shapes
  BY <1>1 DEF ShapesOf, Shapes
<1>. QED
  BY <1>2 DEF t

-----------------------------------------------------------------------------
(* The sizes of the parts.                                                  *)

(* A plan of k parts.                                                       *)
PlanOf(plan, k) ==
  /\ k \in Positive /\ DOMAIN plan.units = 1..k /\ Len(plan.units) = k /\ Len(plan.num) = k
  /\ plan.num \in [1..k -> Nat] /\ plan.den \in Positive
  /\ \A i \in 1..k : plan.units[i] \in Chips

(* The quantum of a part is positive.                                        *)
LEMMA AlignPositive ==
  ASSUME NEW plan, NEW i
  PROVE  AlignOf(plan, i) \in Positive
BY QuantumAssumption DEF AlignOf, Positive

(* So is its minimum.                                                       *)
LEMMA MinimumPositive ==
  ASSUME NEW plan, NEW i
  PROVE  MinimumOf(plan, i) \in Positive
BY QuantumAssumption DEF MinimumOf, Positive

(* A rounded quotient is an integer.                                         *)
LEMMA RoundDivInt ==
  ASSUME NEW a \in Int, NEW b \in Positive
  PROVE  RoundDiv(a, b) \in Int
<1>1. b \in Nat /\ b > 0
  BY DEF Positive
<1>2. a \div b \in Int /\ (a \div b) % 2 \in Int
  BY <1>1
<1> DEFINE q == a \div b
<1>3. q \in Int /\ q + 1 \in Int /\ q + (q % 2) \in Int
  BY <1>2
<1> HIDE DEF q
<1>4. RoundDiv(a, b) = (IF 2 * (a % b) < b THEN q
                        ELSE IF 2 * (a % b) > b THEN q + 1 ELSE q + (q % 2))
  BY DEF RoundDiv, q
<1>. QED
  BY <1>3, <1>4

(* The parts of a plan that is kept have all of the axis, some of it each.   *)
LEMMA SizesFacts ==
  ASSUME NEW plan, NEW k, PlanOf(plan, k), NEW total \in Int
  PROVE  /\ DOMAIN Sizes(plan, total) = 1..k
         /\ \A i \in 1..k : Sizes(plan, total)[i] \in Int
         /\ SumOver(Sizes(plan, total), 1..k) = total
         /\ Feasible(plan, total) => \A i \in 1..k : Sizes(plan, total)[i] \in Positive
         /\ \A i \in 1..k : i # k =>
              Sizes(plan, total)[i] =
                RoundDiv(plan.num[i] * total, plan.den * AlignOf(plan, i)) * AlignOf(plan, i)
<1> DEFINE rounded == [i \in 1..k |->
             RoundDiv(plan.num[i] * total, plan.den * AlignOf(plan, i)) * AlignOf(plan, i)]
           sizes == Sizes(plan, total)
<1>1. k \in Nat /\ k \in 1..k /\ Len(plan.num) = k
  BY DEF PlanOf, Positive
<1>2. sizes = [rounded EXCEPT ![k] = total - SumOver(rounded, 1..(k - 1))]
  <2> DEFINE all == [i \in 1..Len(plan.num) |->
               RoundDiv(plan.num[i] * total, plan.den * AlignOf(plan, i)) * AlignOf(plan, i)]
  <2>1. sizes = [all EXCEPT ![Len(plan.num)] = total - SumOver(all, 1..(Len(plan.num) - 1))]
    BY Zenon DEF Sizes, SumOver
  <2>2. all = rounded
    BY <1>1
  <2> HIDE DEF all, rounded, sizes
  <2>. QED
    BY <1>1, <2>1, <2>2, Zenon
<1>3. \A i \in 1..k : rounded[i] \in Int
  <2>. TAKE i \in 1..k
  <2>1. AlignOf(plan, i) \in Positive /\ plan.num[i] \in Nat /\ plan.den \in Positive
    BY AlignPositive DEF PlanOf
  <2>2. plan.num[i] * total \in Int
    BY <2>1
  <2>3. plan.den * AlignOf(plan, i) \in Positive
    BY <2>1, ProductPositive
  <2>4. RoundDiv(plan.num[i] * total, plan.den * AlignOf(plan, i)) \in Int
    BY <2>2, <2>3, RoundDivInt
  <2>. QED
    BY <2>1, <2>4 DEF Positive
<1>4. IsFiniteSet(1..(k - 1)) /\ IsFiniteSet(1..k)
  BY <1>1, FS_Interval
<1>5. DOMAIN rounded = 1..k
  OBVIOUS
<1>6. \A i \in 1..k : i # k => rounded[i] =
                RoundDiv(plan.num[i] * total, plan.den * AlignOf(plan, i)) * AlignOf(plan, i)
  OBVIOUS
<1> HIDE DEF rounded, sizes
<1>7. SumOver(rounded, 1..(k - 1)) \in Int
  <2>1. \A i \in 1..(k - 1) : rounded[i] \in Int
    BY <1>1, <1>3
  <2>. QED
    BY <2>1, <1>4, SumInt
<1>8. /\ DOMAIN sizes = 1..k
      /\ \A i \in 1..k : i # k => sizes[i] = rounded[i]
      /\ sizes[k] = total - SumOver(rounded, 1..(k - 1))
  BY <1>1, <1>2, <1>5
<1>9. \A i \in 1..k : sizes[i] \in Int
  BY <1>3, <1>7, <1>8
<1>10. SumOver(sizes, 1..k) = total
  <2>1. SumOver(sizes, 1..k) = sizes[k] + SumOver(sizes, (1..k) \ {k})
    <3>1. k \in 1..k /\ IsFiniteSet(1..k) /\ \A i \in 1..k : sizes[i] \in Int
      BY <1>1, <1>4, <1>9
    <3>. QED
      BY <3>1, SumRemove
  <2>2. (1..k) \ {k} = 1..(k - 1)
    BY <1>1
  <2>3. SumOver(sizes, 1..(k - 1)) = SumOver(rounded, 1..(k - 1))
    <3>1. \A i \in 1..(k - 1) : rounded[i] \in Int /\ sizes[i] = rounded[i]
      BY <1>1, <1>3, <1>8
    <3>. QED
      BY <3>1, <1>4, SumEqual
  <2>4. SumOver(sizes, 1..k) = sizes[k] + SumOver(rounded, 1..(k - 1))
    BY <2>1, <2>2, <2>3
  <2> DEFINE rest == SumOver(rounded, 1..(k - 1))
  <2>5. rest \in Int /\ sizes[k] = total - rest /\ SumOver(sizes, 1..k) = sizes[k] + rest
    BY <1>7, <1>8, <2>4
  <2> HIDE DEF rest
  <2>. QED
    BY <2>5
<1>11. ASSUME Feasible(plan, total), NEW i \in 1..k PROVE sizes[i] \in Positive
  <2>1. sizes[i] >= MinimumOf(plan, i)
    BY <1>8, <1>11 DEF Feasible, sizes
  <2>2. MinimumOf(plan, i) \in Positive
    BY MinimumPositive
  <2>. QED
    BY <1>9, <2>1, <2>2 DEF Positive
<1>. QED
  BY <1>6, <1>8, <1>9, <1>10, <1>11 DEF sizes

(* A sum over the images of numbers is the sum over the numbers.             *)
LEMMA SumImage ==
  ASSUME NEW S, IsFiniteSet(S), NEW f, \A x \in S : f[x] \in Int, NEW m, NEW g,
         \A x \in S : g[m[x]] = f[x], \A x, y \in S : m[x] = m[y] => x = y
  PROVE  SumOver(g, {m[x] : x \in S}) = SumOver(f, S)
<1> DEFINE F == {T \in SUBSET S : SumOver(g, {m[x] : x \in T}) = SumOver(f, T)}
<1>1. {} \in F
  <2>1. {m[x] : x \in {}} = {}
    OBVIOUS
  <2>. QED
    BY <2>1, SumEmpty
<1>2. ASSUME NEW T \in SUBSET S, T # {}, \A x \in T : T \ {x} \in F PROVE T \in F
  <2>1. PICK x \in T : TRUE
    BY <1>2
  <2>2. IsFiniteSet(T)
    BY FS_Subset
  <2> DEFINE I == {m[y] : y \in T}
  <2>3. IsFiniteSet(I)
    <3>1. [y \in T |-> m[y]] \in Surjection(T, I)
      BY DEF Surjection
    <3>. QED
      BY <2>2, <3>1, FS_Surjection
  <2>4. \A y \in I : g[y] \in Int
    OBVIOUS
  <2>5. m[x] \in I /\ I \ {m[x]} = {m[y] : y \in T \ {x}}
    BY <2>1
  <2>6. SumOver(g, {m[y] : y \in T \ {x}}) = SumOver(f, T \ {x})
    BY <1>2, <2>1
  <2>7. SumOver(f, T) = f[x] + SumOver(f, T \ {x})
    BY <2>1, <2>2, SumRemove
  <2>8. SumOver(g, I) = g[m[x]] + SumOver(g, I \ {m[x]})
    <3> HIDE DEF I
    <3>. QED
      BY <2>3, <2>4, <2>5, SumRemove
  <2>. QED
    BY <2>1, <2>5, <2>6, <2>7, <2>8
<1> HIDE DEF F
<1>3. S \in F
  BY <1>1, <1>2, RemoveInduction
<1>. QED
  BY <1>3 DEF F

-----------------------------------------------------------------------------
(* What a split makes of the graph.                                         *)

(* h has new nodes in place of those of B: ids[<<i, c>>] for the i-th part   *)
(* of c, and after them merge.                                              *)
SplitIds(g, h, B, k, ids, merge) ==
  /\ ids \in [(1..k) \X B -> Nat] /\ merge \in Nat
  /\ \A i, j \in 1..k : \A c, d \in B : ids[<<i, c>>] = ids[<<j, d>>] => i = j /\ c = d
  /\ \A i \in 1..k : \A c, d \in B : c < d => ids[<<i, c>>] < ids[<<i, d>>]
  /\ \A i \in 1..k : \A c \in B : ids[<<i, c>>] < merge
  /\ \A x \in Ids(g) : x < merge /\ \A i \in 1..k : \A c \in B : x < ids[<<i, c>>]
  /\ Ids(h) = (Ids(g) \ B) \cup {ids[q] : q \in (1..k) \X B} \cup {merge}

(* The list: what was left of it has kept its order, the new nodes stand     *)
(* together where the first of B stood.                                     *)
SplitAt(g, h, B) ==
  /\ \A x \in Ids(h) : h.at[x] \in Nat
  /\ \A x, y \in Ids(g) \ B : h.at[x] < h.at[y] <=> g.at[x] < g.at[y]
  /\ \A x \in Ids(h) \ Ids(g) : \A y \in Ids(g) \ B :
       IF \A c \in B : g.at[y] < g.at[c] THEN h.at[y] < h.at[x] ELSE h.at[x] < h.at[y]
  /\ \A x, y \in Ids(h) \ Ids(g) : h.at[x] < h.at[y] <=> x < y

(* h is what Split makes of g: the form of its definition.                   *)
SplitNodes(g, h, n, B, plan, k, ids, merge, owner, sync) ==
  /\ SplitIds(g, h, B, k, ids, merge) /\ SplitAt(g, h, B)
  /\ h = [at |-> h.at, op |-> h.op]
  /\ h.at = [x \in Ids(h) |-> h.at[x]] /\ h.op = [x \in Ids(h) |-> h.op[x]]
  /\ \A x \in Ids(g) \ B :
       h.op[x] = [g.op[x] EXCEPT !.deps = Rewired(g.op[x].deps, Max(B), merge)]
  /\ \A i \in 1..k : \A c \in B :
       h.op[ids[<<i, c>>]] =
         Part(g.op[c], n, plan, i, Sizes(plan, g.op[n].shape[plan.dim])[i],
              [d \in B |-> ids[<<i, d>>]])
  /\ h.op[merge] = Gather(g.op[Max(B)], {ids[<<i, Max(B)>>] : i \in 1..k},
                          plan.dim, owner, sync)

(* A fresh id is above all ids of the graph.                                 *)
LEMMA FreshIdFacts ==
  ASSUME NEW g, Listed(g)
  PROVE  FreshId(g) \in Nat /\ \A x \in Ids(g) : x < FreshId(g) /\ x \in Nat
<1>1. Ids(g) \in SUBSET Int /\ IsFiniteSet(Ids(g)) /\ Ids(g) # {} /\ \A x \in Ids(g) : x \in Nat
  BY DEF Listed, Finite, Positive
<1>2. Max(Ids(g)) \in Ids(g) /\ \A x \in Ids(g) : x <= Max(Ids(g))
  BY <1>1, MaxFacts
<1>. QED
  BY <1>1, <1>2 DEF FreshId

(* Different parts and different ops of the block have different ids.        *)
LEMMA PartIdsApart ==
  ASSUME NEW b \in Nat, NEW k \in Nat, NEW B \in SUBSET Int, IsFiniteSet(B),
         NEW i \in 1..k, NEW j \in 1..k, NEW c \in B, NEW d \in B,
         PartIds(b, k, B)[<<i, c>>] = PartIds(b, k, B)[<<j, d>>]
  PROVE  i = j /\ c = d
<1>1. \A x, y \in 1..k : \A z, t \in B :
        PartIds(b, k, B)[<<x, z>>] = PartIds(b, k, B)[<<y, t>>] => x = y /\ z = t
  BY PartIdsFacts
<1>. QED
  BY <1>1

(* Split replaces the nodes of the block by those of its parts and a merge.  *)
LEMMA SplitForm ==
  ASSUME NEW g, Listed(g), NEW n, NEW B, B = Block(g, n), n \in B, B \subseteq Ids(g),
         NEW plan, NEW k, PlanOf(plan, k), NEW owner, NEW sync,
         NEW h, h = Split(g, n, plan, owner, sync)
  PROVE  \E ids, merge : SplitNodes(g, h, n, B, plan, k, ids, merge, owner, sync)
<1> DEFINE last == Max(B)
           sizes == Sizes(plan, g.op[n].shape[plan.dim])
           base == FreshId(g)
           ids == PartIds(base, k, B)
           merge == base + k * Cardinality(B)
           part(x) == LET q == CHOOSE q \in DOMAIN ids : ids[q] = x
                      IN  Part(g.op[q[2]], n, plan, q[1], sizes[q[1]], [c \in B |-> ids[<<q[1], c>>]])
           first == Min({g.at[c] : c \in B})
           after == (Ids(g) \ B) \cup Range(ids) \cup {merge}
           gather == Gather(g.op[last], {ids[<<i, last>>] : i \in 1..k}, plan.dim, owner, sync)
           hat == [x \in after |->
                    IF x \notin Ids(g) THEN first + x - base
                    ELSE IF g.at[x] < first THEN g.at[x] ELSE g.at[x] + merge - base + 1]
           hop == [x \in after |->
                    IF x \in Ids(g) THEN [g.op[x] EXCEPT !.deps = Rewired(g.op[x].deps, last, merge)]
                    ELSE IF x # merge THEN part(x) ELSE gather]
<1>1. k = Len(plan.units)
  BY DEF PlanOf
<1>2. h = [at |-> hat, op |-> hop]
  <2> DEFINE whole(b, m) ==
        LET new == PartIds(base, m, b)
            end == base + m * Cardinality(b)
            made(x) == LET q == CHOOSE q \in DOMAIN new : new[q] = x
                       IN  Part(g.op[q[2]], n, plan, q[1], sizes[q[1]], [c \in b |-> new[<<q[1], c>>]])
            start == Min({g.at[c] : c \in b})
            then == (Ids(g) \ b) \cup Range(new) \cup {end}
        IN  [at |-> [x \in then |->
                 IF x \notin Ids(g) THEN start + x - base
                 ELSE IF g.at[x] < start THEN g.at[x] ELSE g.at[x] + end - base + 1],
             op |-> [x \in then |->
                 IF x \in Ids(g) THEN [g.op[x] EXCEPT !.deps = Rewired(g.op[x].deps, Max(b), end)]
                 ELSE IF x # end THEN made(x)
                 ELSE Gather(g.op[Max(b)], {new[<<i, Max(b)>>] : i \in 1..m}, plan.dim, owner, sync)]]
  <2>1. h = whole(Block(g, n), Len(plan.units))
    BY Zenon DEF Split
  <2>2. whole(B, k) = [at |-> hat, op |-> hop]
    BY Zenon
  <2> HIDE DEF whole, hat, hop
  <2>. QED
    BY <1>1, <2>1, <2>2
<1>3. /\ IsFiniteSet(B) /\ B \in SUBSET Int /\ B # {} /\ k \in Nat /\ k >= 1
  BY FS_Subset DEF Listed, Finite, Positive, PlanOf
<1>4. base \in Nat /\ \A x \in Ids(g) : x < base /\ x \in Nat
  BY FreshIdFacts
<1>5. /\ ids \in [(1..k) \X B -> base..(base + k * Cardinality(B) - 1)]
      /\ \A i, j \in 1..k : \A c, d \in B : ids[<<i, c>>] = ids[<<j, d>>] => i = j /\ c = d
      /\ \A i \in 1..k : \A c, d \in B : c < d => ids[<<i, c>>] < ids[<<i, d>>]
  <2>1. base \in Nat /\ k \in Nat /\ B \in SUBSET Int /\ IsFiniteSet(B)
    BY <1>3, <1>4
  <2> HIDE DEF base
  <2>2. PartIds(base, k, B) \in [(1..k) \X B -> base..(base + k * Cardinality(B) - 1)]
    BY <2>1, PartIdsFacts
  <2>3. \A i, j \in 1..k : \A c, d \in B :
          PartIds(base, k, B)[<<i, c>>] = PartIds(base, k, B)[<<j, d>>] => i = j /\ c = d
    <3>. SUFFICES ASSUME NEW i \in 1..k, NEW j \in 1..k, NEW c \in B, NEW d \in B,
                         PartIds(base, k, B)[<<i, c>>] = PartIds(base, k, B)[<<j, d>>]
                  PROVE  i = j /\ c = d
      OBVIOUS
    <3>. QED
      BY <2>1, PartIdsApart
  <2>4. \A i \in 1..k : \A c, d \in B :
          c < d => PartIds(base, k, B)[<<i, c>>] < PartIds(base, k, B)[<<i, d>>]
    BY <2>1, PartIdsFacts
  <2>. QED
    BY <2>2, <2>3, <2>4
<1>6. Cardinality(B) \in Nat /\ k * Cardinality(B) \in Nat
  <2>1. Cardinality(B) \in Nat
    BY <1>3, FS_CardinalityType
  <2>. QED
    BY <2>1, <1>3
<1>7. merge \in Nat /\ base <= merge /\ base + k * Cardinality(B) - 1 = merge - 1
  BY <1>4, <1>6
<1>8. \A q \in (1..k) \X B : ids[q] \in Nat /\ base <= ids[q] /\ ids[q] < merge
  BY <1>4, <1>5, <1>7
<1>9. DOMAIN ids = (1..k) \X B /\ Range(ids) = {ids[q] : q \in (1..k) \X B}
  <2> HIDE DEF ids, base
  <2>1. DOMAIN ids = (1..k) \X B
    BY <1>5
  <2>. QED
    BY <2>1 DEF Range
<1>10. h.at = hat /\ h.op = hop /\ Ids(h) = after
  <2>1. DOMAIN hop = after
    OBVIOUS
  <2> HIDE DEF hat, hop, after
  <2>. QED
    BY <1>2, <2>1 DEF Ids
<1>11. SplitIds(g, h, B, k, ids, merge)
  <2> HIDE DEF merge, ids, base
  <2>1. \A i \in 1..k : \A c \in B : ids[<<i, c>>] < merge
    BY <1>8
  <2>2. \A x \in Ids(g) : x < merge /\ \A i \in 1..k : \A c \in B : x < ids[<<i, c>>]
    <3>. TAKE x \in Ids(g)
    <3>1. x < base /\ x \in Nat
      BY <1>4
    <3>2. \A i \in 1..k : \A c \in B : base <= ids[<<i, c>>] /\ ids[<<i, c>>] \in Nat
      BY <1>8
    <3>. QED
      BY <1>4, <1>7, <3>1, <3>2
  <2>3. ids \in [(1..k) \X B -> Nat]
    BY <1>5, <1>8
  <2>. QED
    BY <1>5, <1>7, <1>9, <1>10, <2>1, <2>2, <2>3 DEF SplitIds
<1>12. \A x \in Ids(g) \ B :
         h.op[x] = [g.op[x] EXCEPT !.deps = Rewired(g.op[x].deps, Max(B), merge)]
  <2>1. \A x \in after : x \in Ids(g) =>
          hop[x] = [g.op[x] EXCEPT !.deps = Rewired(g.op[x].deps, Max(B), merge)]
    <3> HIDE DEF merge, ids, base, part, gather
    <3>. QED
      OBVIOUS
  <2>2. \A x \in Ids(g) \ B : x \in after
    OBVIOUS
  <2> HIDE DEF merge, ids, base, hop, after
  <2>. QED
    BY <1>10, <2>1, <2>2
<1>13. ASSUME NEW i \in 1..k, NEW c \in B
       PROVE  h.op[ids[<<i, c>>]] =
                Part(g.op[c], n, plan, i, sizes[i], [d \in B |-> ids[<<i, d>>]])
  <2> DEFINE x == ids[<<i, c>>]
  <2>1. x \in after /\ x \notin Ids(g) /\ x # merge
    <3> HIDE DEF ids, merge, base
    <3>1. <<i, c>> \in (1..k) \X B
      OBVIOUS
    <3>2. x \in Nat /\ base <= x /\ x < merge /\ x \in Range(ids)
      BY <1>8, <1>9, <3>1
    <3>. QED
      BY <1>4, <1>7, <3>2
  <2>2. (CHOOSE q \in DOMAIN ids : ids[q] = x) = <<i, c>>
    <3> HIDE DEF ids
    <3>1. \A q \in DOMAIN ids : ids[q] = x => q = <<i, c>>
      BY <1>5, <1>9
    <3>2. <<i, c>> \in DOMAIN ids
      BY <1>9
    <3>. QED
      BY <3>1, <3>2
  <2>3. part(x) = Part(g.op[c], n, plan, i, sizes[i], [d \in B |-> ids[<<i, d>>]])
    <3> DEFINE r == CHOOSE q \in DOMAIN ids : ids[q] = x
    <3>1. r[1] = i /\ r[2] = c
      <4>1. r = <<i, c>>
        BY <2>2
      <4> HIDE DEF r
      <4>. QED
        BY <4>1
    <3>2. part(x) = Part(g.op[r[2]], n, plan, r[1], sizes[r[1]], [d \in B |-> ids[<<r[1], d>>]])
      OBVIOUS
    <3> HIDE DEF r, part, sizes, ids
    <3>. QED
      BY <3>1, <3>2
  <2>4. h.op[x] = part(x)
    <3> HIDE DEF merge, ids, base, part, gather, x
    <3>. QED
      BY <1>10, <2>1
  <2>. QED
    BY <2>3, <2>4
<1>14. h.op[merge] = gather
  <2>1. merge \in after /\ merge \notin Ids(g)
    <3> HIDE DEF merge, base, ids
    <3>. QED
      BY <1>4, <1>7
  <2> HIDE DEF merge, ids, base, part, gather
  <2>. QED
    BY <1>10, <2>1
<1>15. SplitAt(g, h, B)
  <2>1. /\ first \in Nat /\ \A c \in B : first <= g.at[c]
        /\ \A y \in Ids(g) : g.at[y] \in Nat /\ (g.at[y] < first <=> \A c \in B : g.at[y] < g.at[c])
    <3> DEFINE S == {g.at[c] : c \in B}
    <3>1. \A y \in Ids(g) : g.at[y] \in Nat
      BY DEF Listed, NodeGraph
    <3>2. S \in SUBSET Int /\ S # {} /\ \A c \in B : g.at[c] \in S
      BY <1>3, <3>1
    <3>3. IsFiniteSet(S)
      <4>1. [c \in B |-> g.at[c]] \in Surjection(B, S)
        BY DEF Surjection
      <4>. QED
        BY <4>1, <1>3, FS_Surjection
    <3>4. Min(S) \in S /\ \A y \in S : Min(S) <= y
      <4> HIDE DEF S
      <4>. QED
        BY <3>2, <3>3, MinFacts
    <3>5. PICK c \in B : first = g.at[c]
      BY <3>4
    <3>6. first \in Nat /\ \A d \in B : first <= g.at[d]
      BY <3>1, <3>2, <3>4, <3>5
    <3> HIDE DEF S, first
    <3>. QED
      BY <3>1, <3>5, <3>6
  <2>2. \A x \in Ids(h) \ Ids(g) : x \in Nat /\ base <= x /\ x <= merge /\ h.at[x] = first + x - base
    <3> HIDE DEF merge, ids, base, first, hop
    <3>1. \A x \in Ids(h) \ Ids(g) : x = merge \/ \E q \in (1..k) \X B : x = ids[q]
      BY <1>9, <1>10
    <3>. QED
      BY <1>4, <1>7, <1>8, <1>10, <3>1
  <2>3. \A x \in Ids(g) \ B :
          h.at[x] = IF g.at[x] < first THEN g.at[x] ELSE g.at[x] + merge - base + 1
    <3> HIDE DEF merge, ids, base, first, hop
    <3>. QED
      BY <1>10
  <2>4. Ids(h) \cap Ids(g) = Ids(g) \ B
    <3> HIDE DEF merge, ids, base
    <3>1. ASSUME NEW q \in (1..k) \X B
          PROVE  ids[q] \notin Ids(g)
      <4>1. base <= ids[q] /\ ids[q] \in Nat
        BY <1>8
      <4>. QED
        BY <1>4, <4>1
    <3>2. merge \notin Ids(g)
      BY <1>4, <1>7
    <3>3. Ids(h) = (Ids(g) \ B) \cup {ids[q] : q \in (1..k) \X B} \cup {merge}
      BY <1>9, <1>10
    <3>. QED
      BY <3>1, <3>2, <3>3
  <2> HIDE DEF merge, ids, base, first, hop, hat, after
  <2>5. \A x \in Ids(g) \ B : g.at[x] \in Nat /\ h.at[x] \in Nat
    BY <1>4, <1>7, <2>1, <2>3
  <2>6. \A x \in Ids(h) \ Ids(g) : h.at[x] \in Nat
    BY <1>4, <1>7, <2>1, <2>2
  <2>7. \A x, y \in Ids(g) \ B : h.at[x] < h.at[y] <=> g.at[x] < g.at[y]
    BY <1>4, <1>7, <2>1, <2>3, <2>5
  <2>8. ASSUME NEW x \in Ids(h) \ Ids(g), NEW y \in Ids(g) \ B
        PROVE  IF \A c \in B : g.at[y] < g.at[c] THEN h.at[y] < h.at[x] ELSE h.at[x] < h.at[y]
    <3>1. (\A c \in B : g.at[y] < g.at[c]) <=> g.at[y] < first
      BY <2>1
    <3>2. IF g.at[y] < first THEN h.at[y] < h.at[x] ELSE h.at[x] < h.at[y]
      BY <1>4, <1>7, <2>1, <2>2, <2>3, <2>5
    <3>. QED
      BY <3>1, <3>2
  <2>9. \A x, y \in Ids(h) \ Ids(g) : h.at[x] < h.at[y] <=> x < y
    BY <1>4, <2>1, <2>2
  <2>10. \A x \in Ids(h) : h.at[x] \in Nat
    BY <2>4, <2>5, <2>6
  <2>. QED
    BY <2>7, <2>8, <2>9, <2>10 DEF SplitAt
<1>16. /\ h = [at |-> h.at, op |-> h.op]
       /\ h.at = [x \in Ids(h) |-> h.at[x]] /\ h.op = [x \in Ids(h) |-> h.op[x]]
  <2>1. hat = [x \in after |-> hat[x]] /\ hop = [x \in after |-> hop[x]]
    OBVIOUS
  <2> HIDE DEF hat, hop, after
  <2>. QED
    BY <1>2, <1>10, <2>1
<1>17. \A i \in 1..k : \A c \in B :
         h.op[ids[<<i, c>>]] =
           Part(g.op[c], n, plan, i, Sizes(plan, g.op[n].shape[plan.dim])[i],
                [d \in B |-> ids[<<i, d>>]])
  BY <1>13
<1>18. h.op[merge] = Gather(g.op[Max(B)], {ids[<<i, Max(B)>>] : i \in 1..k},
                            plan.dim, owner, sync)
  BY <1>14
<1> HIDE DEF ids, merge
<1>19. SplitNodes(g, h, n, B, plan, k, ids, merge, owner, sync)
  BY <1>11, <1>12, <1>15, <1>16, <1>17, <1>18 DEF SplitNodes
<1>. QED
  BY <1>19, Zenon

-----------------------------------------------------------------------------
(* The block B that is decided next.                                        *)

(* B is the block of n, the first op that is left.                           *)
NextBlock(o, g, td, n, B) ==
  /\ Traced(o) /\ GraphInv(o, g) /\ TodoInv(o, g, td)
  /\ n \in td /\ \A m \in td : n <= m
  /\ B = Block(o, n)

(* Its ops are as they were traced, and what is left to be decided.          *)
LEMMA DecidedOps ==
  ASSUME NEW o, NEW g, NEW td, NEW n, NEW B, NextBlock(o, g, td, n, B)
  PROVE  /\ n \in B /\ B \subseteq td /\ B \subseteq Ids(o) /\ B \subseteq Ids(g)
         /\ IsFiniteSet(B) /\ Max(B) \in B /\ n \in Ids(o) /\ IsFirst(o, n)
         /\ \A c \in B : c \in Positive /\ n <= c /\ c <= Max(B)
         /\ Block(g, n) = B
<1>1. IsFirst(o, n) /\ B \subseteq td /\ n \in Ids(o) /\ td \subseteq Ids(g) /\ Block(g, n) = B
  <2>1. /\ Traced(o) /\ GraphInv(o, g) /\ TodoInv(o, g, td) /\ n \in td
        /\ \A m \in td : n <= m
        /\ B = Block(o, n) /\ td \subseteq Ids(o) \cap Ids(g)
    BY DEF NextBlock, TodoInv
  <2>2. IsFirst(o, n) /\ B \subseteq td
    BY <2>1, LeastIsFirst
  <2>3. Block(g, n) = B
    BY <2>1, BlockKept
  <2>. QED
    BY <2>1, <2>2, <2>3
<1>2. n \in B /\ B \subseteq Ids(o) /\ IsFiniteSet(B)
  BY <1>1, BlockOfTraced DEF NextBlock
<1>3. \A c \in B : n <= c
  BY <1>1, BlockAbove DEF NextBlock
<1>4. Ids(o) \subseteq Positive
  BY TracedOps DEF NextBlock
<1>5. Max(B) \in B /\ \A c \in B : c <= Max(B)
  <2>1. B \in SUBSET Int /\ B # {}
    BY <1>2, <1>4 DEF Positive
  <2>. QED
    BY <1>2, <2>1, MaxFacts
<1>. QED
  BY <1>1, <1>2, <1>3, <1>4, <1>5

(* The ops of the block that is decided next are as they were traced.        *)
LEMMA DecidedFields ==
  ASSUME NEW o, NEW g, NEW td, NEW n, NEW B, NextBlock(o, g, td, n, B), NEW c \in B
  PROVE  /\ g.op[c] \in Node
         /\ g.op[c].src = c /\ g.op[c].part = 0 /\ g.op[c].cat = o.op[c].cat
         /\ g.op[c].shape = o.op[n].shape /\ o.op[c].shape = o.op[n].shape
         /\ o.op[c].cat \in Traceable /\ o.op[n].shape \in ShapesOf(o.op[c].cat)
         /\ \A t : (SameBlock(o, c, t) <=> t \in B) /\ (SameBlock(o, t, c) <=> t \in B)
         /\ \A d \in Reads(o, c) : d \in Ids(o) /\ d < c
         /\ \A d \in Reads(o, c) \ B : d < n
         /\ c # Max(B) => \A t \in Ids(o) : c \in Reads(o, t) => t \in B
         /\ c # n => o.op[n].cat = "attention" /\ o.op[c].cat \in {"attention", "elementwise"}
<1>1. c \in Ids(o) /\ c \in Ids(g) /\ n \in Ids(o) /\ IsFirst(o, n) /\ c \in td
  BY DecidedOps
<1>2. /\ g.op[c].src = c /\ g.op[c].part = 0 /\ g.op[c].cat = o.op[c].cat
      /\ g.op[c].shape = o.op[c].shape /\ g.op[c] \in Node
  BY <1>1 DEF NextBlock, GraphInv, Originals, Listed, NodeGraph
<1>3. /\ o.op[c].shape = o.op[n].shape
      /\ \A d \in Reads(o, c) \ B : d < n
      /\ c # Max(B) => \A t \in Ids(o) : c \in Reads(o, t) => t \in B
  BY <1>1, BlockMembers DEF NextBlock
<1>4. \A t : (SameBlock(o, c, t) <=> t \in B) /\ (SameBlock(o, t, c) <=> t \in B)
  BY <1>1, BlockIsClass DEF NextBlock
<1>5. /\ o.op[c].cat \in Traceable /\ o.op[c].shape \in ShapesOf(o.op[c].cat)
      /\ \A d \in Reads(o, c) : d \in Ids(o) /\ d < c
  BY <1>1, TracedOps DEF NextBlock, TracedOp, Reads
<1>6. c # n => o.op[n].cat = "attention" /\ o.op[c].cat \in {"attention", "elementwise"}
  BY <1>1, BlockCats DEF NextBlock, IsRep
<1>. QED
  BY <1>2, <1>3, <1>4, <1>5, <1>6

(* The nodes outside it compute other ops, and read of it at most the last.  *)
LEMMA OthersOf ==
  ASSUME NEW o, NEW g, NEW td, NEW n, NEW B, NextBlock(o, g, td, n, B), NEW x \in Ids(g) \ B
  PROVE  /\ g.op[x] \in Node /\ g.op[x].cat # "convert"
         /\ g.op[x].src \in Ids(o) /\ g.op[x].src \notin B
         /\ g.op[x].deps \cap B \subseteq {Max(B)}
         /\ g.op[x].deps \subseteq Ids(g)
         /\ g.op[x].deps = IF g.op[x].cat = "merge" THEN PartsOf(g, g.op[x].src) ELSE Wanted(o, g, x)
         /\ \A d \in g.op[x].deps : g.at[d] < g.at[x]
<1>1. /\ Plain(g) = Ids(g) /\ Finite(g) /\ Listed(g) /\ Originals(o, g) /\ Made(o, g)
      /\ Wired(o, g) /\ Ordered(g)
  BY DEF NextBlock, GraphInv, TodoInv, Listed
<1>2. g.op[x].src \in Ids(o) /\ g.op[x].src \notin B
  <2>1. g.op[x].src \in Ids(g) => g.op[x].src = x
    BY <1>1, SourceIds
  <2>. QED
    BY <1>1, <2>1, SourceIds, DecidedOps
<1>3. g.op[x].deps \cap B \subseteq {Max(B)}
  <2>1. ASSUME NEW c \in B, c \in g.op[x].deps PROVE c = Max(B)
    <3>1. c \in td /\ c \in Ids(o)
      BY DecidedOps
    <3>2. x \in td /\ c \in Reads(o, x)
      BY <2>1, <3>1, TodoReaders DEF NextBlock
    <3>3. x \in Ids(o)
      BY <3>2 DEF NextBlock, TodoInv
    <3>. QED
      BY <3>2, <3>3, DecidedFields
  <2>. QED
    BY <2>1
<1>4. Values(g, x) = g.op[x].deps
  BY <1>1, NoConverts
<1>5. g.op[x].cat # "convert" /\ g.op[x] \in Node
  BY <1>1 DEF Plain, Listed, NodeGraph
<1>. QED
  BY <1>1, <1>2, <1>3, <1>4, <1>5 DEF Wired, Finite, Ordered

-----------------------------------------------------------------------------
(* h is g with the block B of n split.                                      *)

(* Renamed dependencies apart, a node is as it was.                          *)
Rewiring(a, b, last, merge) ==
  /\ b \in Node /\ b = [a EXCEPT !.deps = b.deps]
  /\ b.cat = a.cat /\ b.prec = a.prec /\ b.shape = a.shape /\ b.group = a.group
  /\ b.src = a.src /\ b.part = a.part /\ b.unit = a.unit /\ b.bytes = a.bytes
  /\ b.basis = a.basis /\ (b.resident <=> a.resident) /\ b.mergeSync = a.mergeSync
  /\ b.deps = Rewired(a.deps, last, merge)

(* p is the i-th part, of this size, of the op c of the block of n.          *)
PartOf(o, g, p, n, B, c, plan, i, size, ids) ==
  /\ p \in Node /\ p.cat = o.op[c].cat /\ p.src = c /\ p.part = i
  /\ p.shape = [o.op[n].shape EXCEPT ![plan.dim] = size]
  /\ p.unit = plan.units[i]
  /\ p.deps = Renamed(g.op[c].deps, [d \in B |-> ids[<<i, d>>]])
  /\ p.group = IF p.cat = "attention" THEN ids[<<i, n>>] ELSE 0
  /\ p.resident => p.cat = "matmul" /\ plan.resident /\ i = 1
  /\ p.cat = "matmul" => BaseBytes(p) = ShapeBytes(p.shape)

(* m gathers the k parts of last.                                            *)
MergeOf(o, m, last, k, ids, owner, sync) ==
  /\ m \in Node /\ m.cat = "merge" /\ m.src = last /\ m.part = 0 /\ m.group = 0
  /\ m.unit = owner /\ ~m.resident /\ m.mergeSync = sync
  /\ m.deps = {ids[<<i, last>>] : i \in 1..k}

(* h is g with B split, each node known by its fields.                       *)
SplitMade(o, g, h, n, B, plan, k, ids, merge, owner, sync) ==
  /\ SplitIds(g, h, B, k, ids, merge) /\ SplitAt(g, h, B)
  /\ h = [at |-> h.at, op |-> h.op]
  /\ h.at = [x \in Ids(h) |-> h.at[x]] /\ h.op = [x \in Ids(h) |-> h.op[x]]
  /\ \A x \in Ids(g) \ B : Rewiring(g.op[x], h.op[x], Max(B), merge)
  /\ \A i \in 1..k : \A c \in B :
       PartOf(o, g, h.op[ids[<<i, c>>]], n, B, c, plan, i,
              Sizes(plan, o.op[n].shape[plan.dim])[i], ids)
  /\ MergeOf(o, h.op[merge], Max(B), k, ids, owner, sync)

(* A plan the solver may carry out for the op n.                             *)
Splits(o, n, plan, k) ==
  /\ PlanOf(plan, k) /\ AxisOf(o.op[n].shape, plan.dim)
  /\ o.op[n].cat \in DOMAIN LegalDims
  /\ Feasible(plan, o.op[n].shape[plan.dim])

(* A node whose dependency on the last op is turned to the merge is a node.  *)
LEMMA RewiringNode ==
  ASSUME NEW a \in Node, NEW last, NEW merge \in Nat, NEW b,
         b = [a EXCEPT !.deps = Rewired(a.deps, last, merge)]
  PROVE  Rewiring(a, b, last, merge)
<1>1. a = [x \in NodeFields |-> a[x]] /\ a.deps \in SUBSET Nat
  BY NodeForm, Zenon
<1>2. Rewired(a.deps, last, merge) \in SUBSET Nat
  BY <1>1 DEF Rewired
<1> DEFINE turned == Rewired(a.deps, last, merge)
<1> HIDE DEF turned
<1>3. b = [a EXCEPT !.deps = turned]
  BY DEF turned
<1>4. b \in Node
  BY <1>2, <1>3 DEF Node, turned
<1>5. /\ b.deps = turned /\ b = [a EXCEPT !.deps = b.deps]
      /\ b.cat = a.cat /\ b.prec = a.prec /\ b.shape = a.shape /\ b.group = a.group
      /\ b.src = a.src /\ b.part = a.part /\ b.unit = a.unit /\ b.bytes = a.bytes
      /\ b.basis = a.basis /\ b.mergeSync = a.mergeSync
  BY <1>1, <1>3 DEF NodeFields
<1>6. b.resident <=> a.resident
  BY <1>1, <1>3 DEF NodeFields
<1>. QED
  BY <1>4, <1>5, <1>6 DEF Rewiring, turned

(* The sizes of the parts, and their shapes.                                 *)
LEMMA PartShapes ==
  ASSUME NEW o, NEW n \in Ids(o), NEW plan, NEW k, Splits(o, n, plan, k),
         o.op[n].shape \in Shapes,
         NEW total, total = o.op[n].shape[plan.dim], NEW i \in 1..k
  PROVE  /\ total \in Positive /\ Sizes(plan, total)[i] \in Positive
         /\ [o.op[n].shape EXCEPT ![plan.dim] = Sizes(plan, total)[i]] \in Shapes
         /\ ShapeBytes([o.op[n].shape EXCEPT ![plan.dim] = Sizes(plan, total)[i]]) \in Positive
<1> DEFINE size == Sizes(plan, total)[i]
           t == [o.op[n].shape EXCEPT ![plan.dim] = size]
<1>1. PlanOf(plan, k) /\ AxisOf(o.op[n].shape, plan.dim) /\ Feasible(plan, total)
  BY DEF Splits
<1>2. total \in Positive
  <2>1. 1 \in Positive
    BY DEF Positive
  <2>. QED
    BY <1>1, <2>1, Resized
<1>3. size \in Positive
  <2>1. total \in Int
    BY <1>2 DEF Positive
  <2>. QED
    BY <1>1, <2>1, SizesFacts
<1> HIDE DEF size
<1>4. t \in Shapes
  BY <1>1, <1>3, Resized DEF Shapes, AxisOf
<1>5. ShapeBytes(t) \in Positive
  BY <1>4, ShapeNumbers
<1>. QED
  BY <1>2, <1>3, <1>4, <1>5 DEF size

(* A merge moves a natural number of bytes.                                  *)
LEMMA MergeBytesNat ==
  ASSUME NEW c \in Node, NEW dim, NEW k \in Nat, NEW f,
         NEW S, S = {f[i] : i \in 1..k}
  PROVE  MergeBytes(c, dim, Cardinality(S)) \in Nat
<1>1. IsFiniteSet({f[i] : i \in 1..k})
  <2>1. IsFiniteSet(1..k)
    BY FS_Interval
  <2>2. [i \in 1..k |-> f[i]] \in Surjection(1..k, {f[i] : i \in 1..k})
    BY DEF Surjection
  <2>. QED
    BY <2>1, <2>2, FS_Surjection
<1>2. Cardinality({f[i] : i \in 1..k}) \in Nat
  BY <1>1, FS_CardinalityType
<1> DEFINE m == Cardinality({f[i] : i \in 1..k})
           e == OutElems(c.shape)
<1>3. e \in Nat
  <2>1. c.shape \in Shapes
    BY NodeForm, Zenon
  <2>. QED
    BY <2>1, ShapeNumbers DEF Positive
<1> HIDE DEF m, e
<1>4. MergeBytes(c, dim, m) = IF dim \in {"K", "kv"} THEN m * e * 4 + e ELSE 0
  BY DEF MergeBytes, AccBytes, e
<1>5. m \in Nat
  BY <1>2 DEF m
<1>6. m * e \in Nat
  BY <1>3, <1>5
<1>7. m * e * 4 + e \in Nat
  BY <1>3, <1>6
<1>8. MergeBytes(c, dim, m) \in Nat
  BY <1>4, <1>7
<1>. QED
  BY <1>8 DEF m

(* The nodes Split makes, one by one: parts of the block's ops, their merge, *)
(* and the others with their dependencies turned to it.                      *)
LEMMA SplitMakes ==
  ASSUME NEW o, NEW g, NEW td, NEW n, NEW B, NextBlock(o, g, td, n, B),
         NEW plan, NEW k, Splits(o, n, plan, k), NEW owner \in Chips, NEW sync \in Nat,
         NEW h, h = Split(g, n, plan, owner, sync)
  PROVE  \E ids, merge : SplitMade(o, g, h, n, B, plan, k, ids, merge, owner, sync)
<1>1. /\ Listed(g) /\ B = Block(g, n) /\ n \in B /\ B \subseteq Ids(g) /\ PlanOf(plan, k)
      /\ n \in Ids(o) /\ Max(B) \in B
  BY DecidedOps DEF NextBlock, GraphInv, Splits
<1>3. PICK ids, merge : SplitNodes(g, h, n, B, plan, k, ids, merge, owner, sync)
  BY <1>1, SplitForm
<1>4. SplitIds(g, h, B, k, ids, merge) /\ k \in Nat
  BY <1>1, <1>3 DEF SplitNodes, PlanOf, Positive
<1>5. ids \in [(1..k) \X B -> Nat] /\ merge \in Nat
  BY <1>4 DEF SplitIds
<1>6. \A x \in Ids(g) \ B : Rewiring(g.op[x], h.op[x], Max(B), merge)
  <2>. TAKE x \in Ids(g) \ B
  <2>1. g.op[x] \in Node
    BY OthersOf
  <2>2. h.op[x] = [g.op[x] EXCEPT !.deps = Rewired(g.op[x].deps, Max(B), merge)]
    BY <1>3 DEF SplitNodes
  <2>. QED
    BY <1>5, <2>1, <2>2, RewiringNode
<1>7. ASSUME NEW i \in 1..k, NEW c \in B
      PROVE  PartOf(o, g, h.op[ids[<<i, c>>]], n, B, c, plan, i,
                    Sizes(plan, o.op[n].shape[plan.dim])[i], ids)
  <2> DEFINE total == o.op[n].shape[plan.dim]
             size == Sizes(plan, total)[i]
             shape == [o.op[n].shape EXCEPT ![plan.dim] = size]
             idOf == [d \in B |-> ids[<<i, d>>]]
             p == h.op[ids[<<i, c>>]]
  <2>1. /\ g.op[c] \in Node /\ g.op[c].shape = o.op[n].shape /\ g.op[n].shape = o.op[n].shape
        /\ g.op[c].src = c /\ g.op[c].cat = o.op[c].cat
    BY <1>1, DecidedFields
  <2>2. o.op[n].shape \in Shapes
    <3>1. g.op[c].shape \in Shapes
      BY <2>1, NodeForm, Zenon
    <3>. QED
      BY <2>1, <3>1
  <2>3. shape \in Shapes /\ ShapeBytes(shape) \in Positive
    BY <1>1, <2>2, PartShapes
  <2>4. p = Part(g.op[c], n, plan, i, size, idOf)
    BY <1>3, <2>1 DEF SplitNodes
  <2>5. \A d \in B : idOf[d] \in Nat /\ idOf[d] = ids[<<i, d>>]
    BY <1>5
  <2>6. DOMAIN idOf = B
    OBVIOUS
  <2> HIDE DEF total, size, shape, idOf, p
  <2> DEFINE node == g.op[c]
  <2>7. Renamed(node.deps, idOf) \in SUBSET Nat
    <3>1. node.deps \in SUBSET Nat
      BY <2>1, NodeForm, Zenon
    <3>. QED
      BY <2>5, <2>6, <3>1 DEF Renamed
  <2>8. i \in Nat /\ plan.units[i] \in Chips /\ idOf[n] \in Nat
    <3>1. plan.units[i] \in Chips
      BY <1>1 DEF PlanOf
    <3>2. i \in Nat
      BY <1>4
    <3>. QED
      BY <1>1, <2>5, <3>1, <3>2
  <2>9. shape = [node.shape EXCEPT ![plan.dim] = size]
    BY <2>1 DEF shape
  <2>10. ShapeBytes(shape) \in Nat \ {0}
    BY <2>3 DEF Positive
  <2> HIDE DEF node
  <2>11. PartFields(node, n, plan, i, shape, idOf, p)
    BY <2>1, <2>3, <2>4, <2>7, <2>8, <2>9, <2>10, PartNode DEF node
  <2>12. PartOf(o, g, p, n, B, c, plan, i, size, ids)
    BY <1>1, <2>1, <2>5, <2>11 DEF PartOf, PartFields, shape, idOf, node
  <2>. QED
    BY <2>12 DEF p, size, total
<1>8. MergeOf(o, h.op[merge], Max(B), k, ids, owner, sync)
  <2> DEFINE last == Max(B)
             parts == {ids[<<i, last>>] : i \in 1..k}
             m == h.op[merge]
  <2>1. g.op[last] \in Node /\ g.op[last].src = last
    BY <1>1, DecidedFields
  <2>2. parts \in SUBSET Nat
    <3>1. \A i \in 1..k : ids[<<i, last>>] \in Nat
      BY <1>1, <1>5
    <3>. QED
      BY <3>1
  <2>3. m = Gather(g.op[last], parts, plan.dim, owner, sync)
    BY <1>3 DEF SplitNodes
  <2>4. MergeBytes(g.op[last], plan.dim, Cardinality(parts)) \in Nat
    <3> DEFINE f == [i \in 1..k |-> ids[<<i, last>>]]
    <3>1. parts = {f[i] : i \in 1..k}
      OBVIOUS
    <3> HIDE DEF f, parts, last
    <3>. QED
      BY <1>4, <2>1, <3>1, MergeBytesNat
  <2> HIDE DEF parts, m, last
  <2>5. /\ m.cat = "merge" /\ m.src = g.op[last].src /\ m.part = 0
        /\ m.unit = owner /\ m.deps = parts /\ m.group = 0
        /\ ~m.resident /\ m.mergeSync = sync
        /\ m \in Node
    BY <2>1, <2>2, <2>3, <2>4, GatherNode
  <2>6. MergeOf(o, m, last, k, ids, owner, sync)
    BY <2>1, <2>5 DEF MergeOf, parts
  <2>. QED
    BY <2>6 DEF m, last
<1>9. SplitMade(o, g, h, n, B, plan, k, ids, merge, owner, sync)
  BY <1>3, <1>6, <1>7, <1>8 DEF SplitNodes, SplitMade
<1>. QED
  BY <1>9, Zenon

(* One step of the solver that splits a block.                              *)
SplitStep(o, g, td, n, B, plan, k, owner, sync, h, ids, merge) ==
  /\ NextBlock(o, g, td, n, B) /\ Splits(o, n, plan, k) /\ k \in Positive
  /\ owner \in Chips /\ sync \in Nat
  /\ SplitMade(o, g, h, n, B, plan, k, ids, merge, owner, sync)

(* The three kinds of nodes of h.                                            *)
KindsView(g, h, B, k, ids, merge) ==
  \A y \in Ids(h) : \/ y \in Ids(g) \ B
                    \/ \E i \in 1..k : \E c \in B : y = ids[<<i, c>>]
                    \/ y = merge

(* What is in h, and that the new ids are really new.                        *)
LEMMA SplitKinds ==
  ASSUME NEW o, NEW g, NEW td, NEW n, NEW B, NEW plan, NEW k, NEW owner, NEW sync, NEW h, NEW ids,
         NEW merge, SplitStep(o, g, td, n, B, plan, k, owner, sync, h, ids, merge)
  PROVE  /\ KindsView(g, h, B, k, ids, merge)
         /\ Ids(g) \ B \subseteq Ids(h) /\ merge \in Ids(h)
         /\ \A i \in 1..k : \A c \in B : ids[<<i, c>>] \in Ids(h)
         /\ Ids(h) \cap Ids(g) = Ids(g) \ B
         /\ Ids(h) \cap Ids(o) = (Ids(g) \cap Ids(o)) \ B
         /\ merge \notin Ids(g) \cup Ids(o) /\ \A s \in Ids(o) : s < merge
         /\ \A i \in 1..k : \A c \in B : ids[<<i, c>>] \notin Ids(g) \cup Ids(o) \cup {merge}
<1>1. /\ SplitIds(g, h, B, k, ids, merge) /\ Provenance(o, g) /\ Ids(g) \subseteq Positive
      /\ Ids(o) \subseteq Positive
  BY TracedOps DEF SplitStep, NextBlock, SplitMade, GraphInv, Listed
<1>2. ids \in [(1..k) \X B -> Nat] /\ merge \in Nat
  BY <1>1 DEF SplitIds
<1>3. Ids(h) = (Ids(g) \ B) \cup {ids[q] : q \in (1..k) \X B} \cup {merge}
  BY <1>1 DEF SplitIds
<1>4. \A q \in (1..k) \X B : \E i \in 1..k : \E c \in B : ids[q] = ids[<<i, c>>]
  <2>. TAKE q \in (1..k) \X B
  <2>1. q = <<q[1], q[2]>> /\ q[1] \in 1..k /\ q[2] \in B
    OBVIOUS
  <2>2. ids[q] = ids[<<q[1], q[2]>>]
    BY <2>1
  <2>. QED
    BY <2>1, <2>2
<1>5. \A i \in 1..k : \A c \in B : <<i, c>> \in (1..k) \X B
  OBVIOUS
<1>6. \A i \in 1..k : \A c \in B : ids[<<i, c>>] \in Ids(h) /\ ids[<<i, c>>] \in Nat
  BY <1>2, <1>3, <1>5
<1>7. PICK top \in Ids(g) : \A s \in Ids(o) : s <= top
  BY <1>1 DEF Provenance
<1>8. /\ \A x \in Ids(g) : x < merge /\ x \in Nat
      /\ \A x \in Ids(g) : \A i \in 1..k : \A c \in B : x < ids[<<i, c>>]
      /\ \A i \in 1..k : \A c \in B : ids[<<i, c>>] < merge
  BY <1>1 DEF SplitIds, Positive
<1>9. \A s \in Ids(o) : s < merge
  BY <1>1, <1>2, <1>7, <1>8 DEF Positive
<1>10. merge \notin Ids(g) \cup Ids(o)
  BY <1>1, <1>2, <1>8, <1>9 DEF Positive
<1>11. \A i \in 1..k : \A c \in B : ids[<<i, c>>] \notin Ids(g) \cup Ids(o) \cup {merge}
  <2>. TAKE i \in 1..k
  <2>. TAKE c \in B
  <2>1. ids[<<i, c>>] \in Nat /\ top < ids[<<i, c>>] /\ ids[<<i, c>>] < merge
    BY <1>6, <1>8
  <2>2. \A s \in Ids(o) : s < ids[<<i, c>>] /\ s \in Nat
    BY <1>1, <1>7, <1>8, <2>1 DEF Positive
  <2>. QED
    BY <1>2, <1>6, <1>8, <2>1, <2>2
<1>12. \A x \in Ids(h) : \/ x \in Ids(g) \ B
                         \/ \E i \in 1..k : \E c \in B : x = ids[<<i, c>>]
                         \/ x = merge
  BY <1>3, <1>4
<1>17. KindsView(g, h, B, k, ids, merge)
  BY <1>12 DEF KindsView
<1>13. Ids(g) \ B \subseteq Ids(h) /\ merge \in Ids(h)
  BY <1>3
<1> HIDE DEF Ids
<1>16. ASSUME NEW x \in Ids(h), x \in Ids(g) \cup Ids(o) PROVE x \in Ids(g) \ B
  <2>1. ~ \E i \in 1..k : \E c \in B : x = ids[<<i, c>>]
    BY <1>11, <1>16
  <2>2. x # merge
    BY <1>10, <1>16
  <2>. QED
    BY <1>12, <2>1, <2>2
<1>14. Ids(h) \cap Ids(g) = Ids(g) \ B
  BY <1>13, <1>16
<1>15. Ids(h) \cap Ids(o) = (Ids(g) \cap Ids(o)) \ B
  BY <1>13, <1>16
<1>. QED
  BY <1>6, <1>9, <1>10, <1>11, <1>17, <1>13, <1>14, <1>15

(* The nodes of h, one kind after the other.                                *)
LEMMA SplitOps ==
  ASSUME NEW o, NEW g, NEW td, NEW n, NEW B, NEW plan, NEW k, NEW owner, NEW sync, NEW h, NEW ids,
         NEW merge, SplitStep(o, g, td, n, B, plan, k, owner, sync, h, ids, merge)
  PROVE  /\ \A x \in Ids(g) \ B : Rewiring(g.op[x], h.op[x], Max(B), merge)
         /\ \A i \in 1..k : \A c \in B :
              LET p == h.op[ids[<<i, c>>]]
              IN  /\ p \in Node /\ p.cat = o.op[c].cat /\ p.src = c /\ p.part = i
                  /\ p.cat \in Traceable
                  /\ p.unit = plan.units[i]
                  /\ p.group = IF p.cat = "attention" THEN ids[<<i, n>>] ELSE 0
                  /\ i \in Positive
         /\ MergeOf(o, h.op[merge], Max(B), k, ids, owner, sync)
         /\ \A x \in Ids(h) : h.op[x] \in Node /\ h.op[x].cat # "convert"
<1>1. SplitMade(o, g, h, n, B, plan, k, ids, merge, owner, sync)
  BY DEF SplitStep
<1>2. \A x \in Ids(g) \ B : Rewiring(g.op[x], h.op[x], Max(B), merge)
  BY <1>1 DEF SplitMade
<1>3. MergeOf(o, h.op[merge], Max(B), k, ids, owner, sync)
  BY <1>1 DEF SplitMade
<1>4. ASSUME NEW i \in 1..k, NEW c \in B
      PROVE  LET p == h.op[ids[<<i, c>>]]
              IN  /\ p \in Node /\ p.cat = o.op[c].cat /\ p.src = c /\ p.part = i
                  /\ p.cat \in Traceable
                  /\ p.unit = plan.units[i]
                  /\ p.group = IF p.cat = "attention" THEN ids[<<i, n>>] ELSE 0
                  /\ i \in Positive
  <2>1. PartOf(o, g, h.op[ids[<<i, c>>]], n, B, c, plan, i,
               Sizes(plan, o.op[n].shape[plan.dim])[i], ids)
    BY <1>1 DEF SplitMade
  <2>2. o.op[c].cat \in Traceable
    BY DecidedFields DEF SplitStep
  <2>3. i \in Positive
    BY DEF SplitStep, Positive
  <2>. QED
    BY <2>1, <2>2, <2>3 DEF PartOf
<1>5. ASSUME NEW x \in Ids(h) PROVE h.op[x] \in Node /\ h.op[x].cat # "convert"
  <2>1. CASE x \in Ids(g) \ B
    <3>1. Rewiring(g.op[x], h.op[x], Max(B), merge) /\ g.op[x].cat # "convert"
      BY <1>2, <2>1, OthersOf DEF SplitStep
    <3>. QED
      BY <3>1 DEF Rewiring
  <2>2. CASE \E i \in 1..k : \E c \in B : x = ids[<<i, c>>]
    <3>1. PICK i \in 1..k, c \in B : x = ids[<<i, c>>]
      BY <2>2
    <3>2. h.op[x] \in Node /\ h.op[x].cat \in Traceable
      BY <1>4, <3>1
    <3>. QED
      BY <3>2 DEF Traceable, LegalDims, FixedUnit
  <2>3. CASE x = merge
    BY <1>3, <2>3 DEF MergeOf
  <2>. QED
    BY <2>1, <2>2, <2>3, SplitKinds DEF KindsView
<1>. QED
  BY <1>2, <1>3, <1>4, <1>5

(* What rewiring leaves alone, and what it does to the dependencies.         *)
LEMMA RewiredOps ==
  ASSUME NEW a, NEW b, NEW last, NEW merge, Rewiring(a, b, last, merge)
  PROVE  /\ b.cat = a.cat /\ b.shape = a.shape /\ b.group = a.group
         /\ b.src = a.src /\ b.part = a.part
         /\ b.deps = IF last \in a.deps THEN (a.deps \ {last}) \cup {merge} ELSE a.deps
         /\ BaseBytes(b) = BaseBytes(a)
BY DEF Rewiring, Rewired, BaseBytes

(* What a split leaves of the nodes outside the block,                       *)
OthersView(o, g, h, B, merge) ==
  \A y \in Ids(g) \ B :
    /\ h.op[y].src = g.op[y].src /\ h.op[y].part = g.op[y].part /\ y \in Ids(h)
    /\ h.op[y].cat = g.op[y].cat /\ h.op[y].shape = g.op[y].shape
    /\ h.op[y].group = g.op[y].group /\ BaseBytes(h.op[y]) = BaseBytes(g.op[y])
    /\ g.op[y].src \notin B /\ g.op[y].src \in Ids(o)
    /\ h.op[y].deps = IF Max(B) \in g.op[y].deps THEN (g.op[y].deps \ {Max(B)}) \cup {merge}
                      ELSE g.op[y].deps
    /\ g.op[y].deps \cap B \subseteq {Max(B)} /\ g.op[y].deps \subseteq Ids(g)
    /\ g.op[y].deps = IF g.op[y].cat = "merge" THEN PartsOf(g, g.op[y].src) ELSE Wanted(o, g, y)

(* the parts and the merge it adds,                                          *)
PartDeps(g, B, c, i, ids) == {IF d \in B THEN ids[<<i, d>>] ELSE d : d \in g.op[c].deps}

(* What is wired to the i-th part of c.                                      *)
PartView(o, g, h, n, B, c, i, ids) ==
  LET x == ids[<<i, c>>]
  IN  /\ x \in Ids(h) /\ x \notin Ids(g) /\ x \notin Ids(o)
      /\ h.op[x].src = c /\ h.op[x].part = i /\ i # 0
      /\ h.op[x].cat = o.op[c].cat /\ h.op[x].cat \in Traceable
      /\ h.op[x].group = IF o.op[c].cat = "attention" THEN ids[<<i, n>>] ELSE 0
      /\ h.op[x].deps = PartDeps(g, B, c, i, ids)

(* All parts,                                                                *)
PartsView(o, g, h, n, B, k, ids) ==
  \A i \in 1..k : \A c \in B : PartView(o, g, h, n, B, c, i, ids)

(* the merge,                                                                *)
MergeView(o, g, h, B, k, ids, merge) ==
  /\ merge \in Ids(h) /\ merge \notin Ids(g) /\ merge \notin Ids(o)
  /\ h.op[merge].src = Max(B) /\ h.op[merge].part = 0
  /\ h.op[merge].cat = "merge" /\ h.op[merge].group = 0
  /\ h.op[merge].deps = {ids[<<i, Max(B)>>] : i \in 1..k}

(* and what the block was.                                                  *)
BlockView(o, g, B) ==
  \A c \in B :
    /\ g.op[c].src = c /\ g.op[c].part = 0 /\ c \in Ids(g) /\ c \in Ids(o)
    /\ g.op[c].deps = Wanted(o, g, c) /\ g.op[c].deps \subseteq Ids(g)
    /\ \A t : (SameBlock(o, c, t) <=> t \in B) /\ (SameBlock(o, t, c) <=> t \in B)
    /\ c # Max(B) => \A t \in Ids(o) : c \in Reads(o, t) => t \in B

(* and the whole graph, as far as the wiring is concerned.                   *)
SplitView(o, g, h, n, B, k, ids, merge) ==
  /\ Plain(h) = Ids(h) /\ Plain(g) = Ids(g) /\ n \in B /\ Max(B) \in B
  /\ OthersView(o, g, h, B, merge) /\ PartsView(o, g, h, n, B, k, ids)
  /\ MergeView(o, g, h, B, k, ids, merge) /\ BlockView(o, g, B)
  /\ KindsView(g, h, B, k, ids, merge)

(* What a split makes, as far as the wiring of the graph is concerned.       *)
LEMMA SplitViews ==
  ASSUME NEW o, NEW g, NEW td, NEW n, NEW B, NEW plan, NEW k, NEW owner, NEW sync, NEW h, NEW ids,
         NEW merge, SplitStep(o, g, td, n, B, plan, k, owner, sync, h, ids, merge)
  PROVE  SplitView(o, g, h, n, B, k, ids, merge)
<1>1. /\ NextBlock(o, g, td, n, B) /\ k \in Positive
      /\ SplitMade(o, g, h, n, B, plan, k, ids, merge, owner, sync)
  BY DEF SplitStep
<1>2. /\ Plain(g) = Ids(g) /\ Finite(g) /\ Wired(o, g)
  BY <1>1 DEF NextBlock, TodoInv, GraphInv, Listed
<1>3. n \in B /\ Max(B) \in B /\ B \subseteq Ids(g) /\ B \subseteq Ids(o)
  BY <1>1, DecidedOps
<1>4. /\ KindsView(g, h, B, k, ids, merge)
      /\ Ids(g) \ B \subseteq Ids(h) /\ merge \in Ids(h) /\ merge \notin Ids(g) \cup Ids(o)
  BY SplitKinds
<1>5. /\ \A i \in 1..k : \A c \in B : ids[<<i, c>>] \in Ids(h)
      /\ \A i \in 1..k : \A c \in B : ids[<<i, c>>] \notin Ids(g) \cup Ids(o) \cup {merge}
  BY SplitKinds
<1>6. \A x \in Ids(h) : h.op[x].cat # "convert"
  BY SplitOps
<1>7. Plain(h) = Ids(h)
  BY <1>6 DEF Plain
<1>8. ASSUME NEW y \in Ids(g) \ B
      PROVE  /\ h.op[y].src = g.op[y].src /\ h.op[y].part = g.op[y].part /\ y \in Ids(h)
             /\ h.op[y].cat = g.op[y].cat /\ h.op[y].shape = g.op[y].shape
             /\ h.op[y].group = g.op[y].group /\ BaseBytes(h.op[y]) = BaseBytes(g.op[y])
             /\ g.op[y].src \notin B /\ g.op[y].src \in Ids(o)
             /\ h.op[y].deps = IF Max(B) \in g.op[y].deps THEN (g.op[y].deps \ {Max(B)}) \cup {merge}
                               ELSE g.op[y].deps
             /\ g.op[y].deps \cap B \subseteq {Max(B)} /\ g.op[y].deps \subseteq Ids(g)
             /\ g.op[y].deps = IF g.op[y].cat = "merge" THEN PartsOf(g, g.op[y].src)
                               ELSE Wanted(o, g, y)
  <2>1. Rewiring(g.op[y], h.op[y], Max(B), merge)
    BY <1>1 DEF SplitMade
  <2>2. /\ g.op[y].src \in Ids(o) /\ g.op[y].src \notin B
        /\ g.op[y].deps \cap B \subseteq {Max(B)}
        /\ g.op[y].deps \subseteq Ids(g)
        /\ g.op[y].deps = IF g.op[y].cat = "merge" THEN PartsOf(g, g.op[y].src)
                          ELSE Wanted(o, g, y)
    BY <1>1, OthersOf
  <2>3. /\ h.op[y].cat = g.op[y].cat /\ h.op[y].shape = g.op[y].shape
        /\ h.op[y].group = g.op[y].group
        /\ h.op[y].src = g.op[y].src /\ h.op[y].part = g.op[y].part
        /\ h.op[y].deps = IF Max(B) \in g.op[y].deps THEN (g.op[y].deps \ {Max(B)}) \cup {merge}
                          ELSE g.op[y].deps
        /\ BaseBytes(h.op[y]) = BaseBytes(g.op[y])
    BY <2>1, RewiredOps
  <2>. QED
    BY <1>4, <2>2, <2>3
<1>9. ASSUME NEW i \in 1..k PROVE i \in Positive
  BY <1>1 DEF Positive
<1>10. ASSUME NEW i \in 1..k, NEW c \in B PROVE PartView(o, g, h, n, B, c, i, ids)
  <2>1. PartOf(o, g, h.op[ids[<<i, c>>]], n, B, c, plan, i,
               Sizes(plan, o.op[n].shape[plan.dim])[i], ids)
    BY <1>1 DEF SplitMade
  <2>2. o.op[c].cat \in Traceable
    BY <1>1, DecidedFields
  <2>3. Renamed(g.op[c].deps, [d \in B |-> ids[<<i, d>>]]) = PartDeps(g, B, c, i, ids)
    BY DEF Renamed, PartDeps
  <2>4. ids[<<i, c>>] \in Ids(h) /\ ids[<<i, c>>] \notin Ids(g) /\ ids[<<i, c>>] \notin Ids(o)
    BY <1>5
  <2>5. i # 0
    BY <1>9 DEF Positive
  <2>. QED
    BY <2>1, <2>2, <2>3, <2>4, <2>5 DEF PartOf, PartView
<1>11. /\ h.op[merge].src = Max(B) /\ h.op[merge].part = 0 /\ h.op[merge].cat = "merge"
       /\ h.op[merge].group = 0 /\ h.op[merge].deps = {ids[<<i, Max(B)>>] : i \in 1..k}
  BY <1>1 DEF SplitMade, MergeOf
<1>12. ASSUME NEW c \in B
       PROVE  /\ g.op[c].src = c /\ g.op[c].part = 0
              /\ g.op[c].deps = Wanted(o, g, c) /\ g.op[c].deps \subseteq Ids(g)
              /\ \A t : (SameBlock(o, c, t) <=> t \in B) /\ (SameBlock(o, t, c) <=> t \in B)
              /\ c # Max(B) => \A t \in Ids(o) : c \in Reads(o, t) => t \in B
  <2>1. /\ g.op[c].src = c /\ g.op[c].part = 0 /\ g.op[c].cat = o.op[c].cat
        /\ o.op[c].cat \in Traceable
        /\ \A t : (SameBlock(o, c, t) <=> t \in B) /\ (SameBlock(o, t, c) <=> t \in B)
        /\ c # Max(B) => \A t \in Ids(o) : c \in Reads(o, t) => t \in B
    BY <1>1, DecidedFields
  <2>2. g.op[c].cat # "merge" /\ c \in Ids(g)
    BY <1>3, <2>1 DEF Traceable, LegalDims, FixedUnit
  <2>3. Values(g, c) = g.op[c].deps
    BY <1>2, <2>2, NoConverts
  <2>4. g.op[c].deps = Wanted(o, g, c) /\ g.op[c].deps \subseteq Ids(g)
    BY <1>2, <2>2, <2>3 DEF Wired, Finite
  <2>. QED
    BY <2>1, <2>4
<1>13. OthersView(o, g, h, B, merge)
  BY <1>8 DEF OthersView
<1>14. PartsView(o, g, h, n, B, k, ids)
  BY <1>10 DEF PartsView
<1>15. MergeView(o, g, h, B, k, ids, merge)
  BY <1>4, <1>11 DEF MergeView
<1>16. BlockView(o, g, B)
  BY <1>3, <1>12 DEF BlockView
<1>. QED
  BY <1>2, <1>3, <1>7, <1>4, <1>13, <1>14, <1>15, <1>16 DEF SplitView

(* Every op of h waits for what it has to read.                              *)
LEMMA SplitReads ==
  ASSUME NEW o, NEW g, NEW h, NEW n, NEW B, NEW k, NEW ids, NEW merge,
         SplitView(o, g, h, n, B, k, ids, merge), NEW x \in Ids(h)
  PROVE  h.op[x].deps = IF h.op[x].cat = "merge" THEN PartsOf(h, h.op[x].src) ELSE Wanted(o, h, x)
<1> DEFINE last == Max(B)
<1>0. /\ Plain(h) = Ids(h) /\ Plain(g) = Ids(g) /\ last \in B /\ B \subseteq Ids(g)
      /\ B \subseteq Ids(o)
  BY DEF SplitView, BlockView
<1>1. ASSUME NEW y \in Ids(g) \ B
      PROVE  /\ h.op[y].src = g.op[y].src /\ h.op[y].part = g.op[y].part /\ y \in Ids(h)
             /\ h.op[y].cat = g.op[y].cat /\ g.op[y].src \notin B /\ g.op[y].src \in Ids(o)
             /\ h.op[y].deps = IF last \in g.op[y].deps THEN (g.op[y].deps \ {last}) \cup {merge}
                               ELSE g.op[y].deps
             /\ g.op[y].deps \cap B \subseteq {last} /\ g.op[y].deps \subseteq Ids(g)
             /\ g.op[y].deps = IF g.op[y].cat = "merge" THEN PartsOf(g, g.op[y].src)
                               ELSE Wanted(o, g, y)
  BY DEF SplitView, OthersView
<1>2. ASSUME NEW i \in 1..k, NEW c \in B
      PROVE  /\ ids[<<i, c>>] \in Ids(h) /\ h.op[ids[<<i, c>>]].src = c
             /\ h.op[ids[<<i, c>>]].part = i /\ i # 0 /\ ids[<<i, c>>] \notin Ids(g)
             /\ h.op[ids[<<i, c>>]].cat \in Traceable
             /\ h.op[ids[<<i, c>>]].deps = PartDeps(g, B, c, i, ids)
  <2>1. PartView(o, g, h, n, B, c, i, ids)
    BY DEF SplitView, PartsView
  <2>. QED
    BY <2>1 DEF PartView
<1>3. /\ merge \in Ids(h) /\ h.op[merge].src = last /\ h.op[merge].part = 0
      /\ h.op[merge].cat = "merge" /\ h.op[merge].deps = {ids[<<i, last>>] : i \in 1..k}
      /\ merge \notin Ids(g)
  BY DEF SplitView, MergeView
<1>4. ASSUME NEW c \in B
      PROVE  /\ g.op[c].src = c /\ g.op[c].part = 0 /\ c \in Ids(g)
             /\ g.op[c].deps = Wanted(o, g, c) /\ g.op[c].deps \subseteq Ids(g)
             /\ \A t : (SameBlock(o, c, t) <=> t \in B) /\ (SameBlock(o, t, c) <=> t \in B)
             /\ c # last => \A t \in Ids(o) : c \in Reads(o, t) => t \in B
  BY DEF SplitView, BlockView
<1>5. \A y \in Ids(h) : \/ y \in Ids(g) \ B
                        \/ \E i \in 1..k : \E c \in B : y = ids[<<i, c>>]
                        \/ y = merge
  BY DEF SplitView, KindsView
<1> HIDE DEF last
<1>6. CASE x \in Ids(g) \ B /\ h.op[x].cat = "merge"
  <2>1. g.op[x].deps = PartsOf(g, g.op[x].src) /\ g.op[x].src \notin B
    BY <1>1, <1>6
  <2>2. last \notin g.op[x].deps
    BY <1>0, <1>4, <2>1 DEF PartsOf
  <2>3. PartsOf(h, g.op[x].src) = PartsOf(g, g.op[x].src)
    <3>1. ASSUME NEW y \in PartsOf(h, g.op[x].src) PROVE y \in PartsOf(g, g.op[x].src)
      <4>1. y \in Ids(h) /\ h.op[y].src = g.op[x].src /\ h.op[y].part # 0
        BY <1>0 DEF PartsOf
      <4>2. y \in Ids(g) \ B
        <5>1. \A i \in 1..k : \A c \in B : y # ids[<<i, c>>]
          <6>. TAKE i \in 1..k
          <6>. TAKE c \in B
          <6>1. h.op[ids[<<i, c>>]].src = c
            BY <1>2
          <6>. QED
            BY <2>1, <4>1, <6>1
        <5>2. y # merge
          BY <1>3, <4>1
        <5>. QED
          BY <1>5, <4>1, <5>1, <5>2
      <4>. QED
        BY <1>0, <1>1, <4>1, <4>2 DEF PartsOf
    <3>2. ASSUME NEW y \in PartsOf(g, g.op[x].src) PROVE y \in PartsOf(h, g.op[x].src)
      <4>1. y \in Ids(g) /\ g.op[y].src = g.op[x].src /\ g.op[y].part # 0
        BY <1>0 DEF PartsOf
      <4>2. y \in Ids(g) \ B
        BY <1>4, <4>1
      <4>. QED
        BY <1>0, <1>1, <4>1, <4>2 DEF PartsOf
    <3>. QED
      BY <3>1, <3>2
  <2>. QED
    BY <1>1, <1>6, <2>1, <2>2, <2>3
<1>7. CASE x \in Ids(g) \ B /\ h.op[x].cat # "merge"
  <2>1. g.op[x].deps = Wanted(o, g, x) /\ g.op[x].src \notin B /\ g.op[x].src \in Ids(o)
    BY <1>1, <1>7
  <2> DEFINE s == g.op[x].src
             q == g.op[x].part
  <2>2. /\ h.op[x].src = s /\ h.op[x].part = q
        /\ h.op[x].deps = IF last \in g.op[x].deps THEN (g.op[x].deps \ {last}) \cup {merge}
                          ELSE g.op[x].deps
    BY <1>1, <1>7
  <2> HIDE DEF s, q
  <2>3. ASSUME NEW y \in Ids(g) \ B
        PROVE  y \in Wanted(o, h, x) <=> y \in g.op[x].deps
    <3>1. y \in Ids(h) /\ h.op[y].src = g.op[y].src /\ h.op[y].part = g.op[y].part
      BY <1>1
    <3>. QED
      BY <1>0, <2>1, <2>2, <3>1 DEF Wanted, s, q
  <2>4. \A i \in 1..k : \A c \in B : ids[<<i, c>>] \notin Wanted(o, h, x)
    <3>. TAKE i \in 1..k
    <3>. TAKE c \in B
    <3>1. h.op[ids[<<i, c>>]].src = c /\ h.op[ids[<<i, c>>]].part = i /\ i # 0
      BY <1>2
    <3>2. ~SameBlock(o, c, s)
      BY <1>4, <2>1 DEF s
    <3>. QED
      BY <2>2, <3>1, <3>2 DEF Wanted
  <2>5. merge \in Wanted(o, h, x) <=> last \in Reads(o, s)
    <3>1. ~SameBlock(o, last, s)
      BY <1>0, <1>4, <2>1 DEF s
    <3>. QED
      BY <1>0, <1>3, <2>2, <3>1 DEF Wanted
  <2>6. last \in g.op[x].deps <=> last \in Reads(o, s)
    <3>1. ~SameBlock(o, last, s) /\ g.op[last].src = last /\ g.op[last].part = 0 /\ last \in Ids(g)
      BY <1>0, <1>4, <2>1 DEF s
    <3>. QED
      BY <1>0, <2>1, <3>1 DEF Wanted, s
  <2>7. g.op[x].deps \subseteq Ids(g) /\ g.op[x].deps \cap B \subseteq {last}
    BY <1>1, <1>7
  <2>8. \A y \in Wanted(o, h, x) : y \in Ids(g) \ B \/ y = merge
    <3>. TAKE y \in Wanted(o, h, x)
    <3>1. y \in Ids(h)
      BY <1>0 DEF Wanted
    <3>2. \A i \in 1..k : \A c \in B : y # ids[<<i, c>>]
      BY <2>4
    <3>. QED
      BY <1>5, <3>1, <3>2
  <2>9. h.op[x].deps = Wanted(o, h, x)
    <3>1. ASSUME NEW y \in h.op[x].deps PROVE y \in Wanted(o, h, x)
      <4>1. CASE y = merge
        BY <1>3, <2>2, <2>5, <2>6, <2>7, <3>1, <4>1
      <4>2. CASE y # merge
        <5>1. y \in g.op[x].deps /\ y # last
          BY <2>2, <3>1, <4>2
        <5>. QED
          BY <2>3, <2>7, <5>1
      <4>. QED
        BY <4>1, <4>2
    <3>2. ASSUME NEW y \in Wanted(o, h, x) PROVE y \in h.op[x].deps
      <4>1. CASE y = merge
        BY <2>2, <2>5, <2>6, <3>2, <4>1
      <4>2. CASE y \in Ids(g) \ B
        <5>1. y \in g.op[x].deps /\ y # last
          BY <1>0, <2>3, <3>2, <4>2
        <5>. QED
          BY <2>2, <5>1
      <4>. QED
        BY <2>8, <4>1, <4>2
    <3>. QED
      BY <3>1, <3>2
  <2>. QED
    BY <1>7, <2>9
<1>8. CASE x = merge
  <2>1. ASSUME NEW y \in PartsOf(h, last) PROVE y \in {ids[<<i, last>>] : i \in 1..k}
    <3>1. y \in Ids(h) /\ h.op[y].src = last /\ h.op[y].part # 0
      BY DEF PartsOf, Plain
    <3>2. y \notin Ids(g) \ B /\ y # merge
      <4>1. ASSUME y \in Ids(g) \ B PROVE FALSE
        <5>1. h.op[y].src = g.op[y].src /\ g.op[y].src \notin B
          BY <1>1, <4>1
        <5>. QED
          BY <1>0, <3>1, <5>1
      <4>2. y # merge
        BY <1>3, <3>1
      <4>. QED
        BY <4>1, <4>2
    <3>3. PICK i \in 1..k, c \in B : y = ids[<<i, c>>]
      <4>1. \E i \in 1..k : \E c \in B : y = ids[<<i, c>>]
        <5>1. y \in Ids(h) /\ y \notin Ids(g) \ B /\ y # merge
          BY <3>1, <3>2
        <5>. QED
          BY <1>5, <5>1
      <4>. QED
        BY <4>1
    <3>4. c = last
      BY <1>2, <3>1, <3>3
    <3>. QED
      BY <3>3, <3>4
  <2>2. ASSUME NEW i \in 1..k PROVE ids[<<i, last>>] \in PartsOf(h, last)
    BY <1>0, <1>2 DEF PartsOf
  <2>3. PartsOf(h, last) = {ids[<<i, last>>] : i \in 1..k}
    BY <2>1, <2>2
  <2>. QED
    BY <1>3, <1>8, <2>3
<1>9. CASE \E i \in 1..k : \E c \in B : x = ids[<<i, c>>]
  <2>1. PICK i \in 1..k, c \in B : x = ids[<<i, c>>]
    BY <1>9
  <2>2. h.op[x].src = c /\ h.op[x].part = i /\ i # 0 /\ h.op[x].cat # "merge"
    BY <1>2, <2>1 DEF Traceable, LegalDims, FixedUnit
  <2>3. h.op[x].deps = {IF d \in B THEN ids[<<i, d>>] ELSE d : d \in g.op[c].deps}
    BY <1>2, <2>1 DEF PartDeps
  <2>4. /\ g.op[c].deps = Wanted(o, g, c) /\ g.op[c].src = c /\ g.op[c].part = 0
        /\ g.op[c].deps \subseteq Ids(g)
    BY <1>4
  <2>5. ASSUME NEW y \in Ids(g) \ B PROVE y \in Wanted(o, h, x) <=> y \in g.op[c].deps
    <3>1. /\ y \in Ids(h) /\ h.op[y].src = g.op[y].src /\ h.op[y].part = g.op[y].part
          /\ g.op[y].src \notin B
      BY <1>1
    <3>2. ~SameBlock(o, g.op[y].src, c)
      BY <1>4, <3>1
    <3>. QED
      BY <1>0, <2>2, <2>4, <3>1, <3>2 DEF Wanted
  <2>6. ASSUME NEW d \in B PROVE d \in g.op[c].deps <=> d \in Reads(o, c)
    <3>1. g.op[d].src = d /\ g.op[d].part = 0 /\ d \in Ids(g)
      BY <1>4
    <3>. QED
      BY <1>0, <2>4, <3>1 DEF Wanted
  <2>7. ASSUME NEW j \in 1..k, NEW d \in B
        PROVE  ids[<<j, d>>] \in Wanted(o, h, x) <=> j = i /\ d \in Reads(o, c)
    <3>1. h.op[ids[<<j, d>>]].src = d /\ h.op[ids[<<j, d>>]].part = j /\ ids[<<j, d>>] \in Ids(h)
      BY <1>2
    <3>2. SameBlock(o, d, c)
      BY <1>4
    <3>. QED
      BY <1>0, <2>2, <3>1, <3>2 DEF Wanted
  <2>8. merge \notin Wanted(o, h, x)
    <3>1. SameBlock(o, last, c)
      BY <1>0, <1>4
    <3>. QED
      BY <1>3, <2>2, <3>1 DEF Wanted
  <2>9. ASSUME NEW y \in h.op[x].deps PROVE y \in Wanted(o, h, x)
    <3>1. PICK d \in g.op[c].deps : y = IF d \in B THEN ids[<<i, d>>] ELSE d
      BY <2>3, <2>9
    <3>2. CASE d \in B
      BY <2>6, <2>7, <3>1, <3>2
    <3>3. CASE d \notin B
      BY <2>4, <2>5, <3>1, <3>3
    <3>. QED
      BY <3>2, <3>3
  <2>10. ASSUME NEW y \in Wanted(o, h, x) PROVE y \in h.op[x].deps
    <3>1. y \in Ids(h)
      BY <1>0 DEF Wanted
    <3>2. CASE y \in Ids(g) \ B
      <4>1. y \in g.op[c].deps /\ y \notin B
        BY <2>5, <2>10, <3>2
      <4>. QED
        BY <2>3, <4>1
    <3>3. CASE \E j \in 1..k : \E d \in B : y = ids[<<j, d>>]
      <4>1. PICK j \in 1..k, d \in B : y = ids[<<j, d>>]
        BY <3>3
      <4>2. j = i /\ d \in g.op[c].deps
        BY <2>6, <2>7, <2>10, <4>1
      <4>. QED
        BY <2>3, <4>1, <4>2
    <3>. QED
      BY <1>5, <2>8, <2>10, <3>1, <3>2, <3>3
  <2>11. h.op[x].deps = Wanted(o, h, x)
    BY <2>9, <2>10
  <2>. QED
    BY <2>2, <2>11
<1>. QED
  BY <1>5, <1>6, <1>7, <1>8, <1>9

(* After a split the list still holds each node once.                        *)
LEMMA SplitListed ==
  ASSUME NEW o, NEW g, NEW td, NEW n, NEW B, NEW plan, NEW k, NEW owner, NEW sync, NEW h, NEW ids,
         NEW merge, SplitStep(o, g, td, n, B, plan, k, owner, sync, h, ids, merge)
  PROVE  Listed(h)
<1>1. SplitView(o, g, h, n, B, k, ids, merge)
  BY SplitViews
<1>2. /\ SplitIds(g, h, B, k, ids, merge) /\ SplitAt(g, h, B) /\ k \in Positive
      /\ h = [at |-> h.at, op |-> h.op]
      /\ h.at = [x \in Ids(h) |-> h.at[x]] /\ h.op = [x \in Ids(h) |-> h.op[x]]
      /\ Listed(g) /\ Finite(g)
  BY DEF SplitStep, SplitMade, NextBlock, GraphInv, Listed
<1>3. \A x \in Ids(h) : h.op[x] \in Node
  BY SplitOps
<1>4. \A x \in Ids(h) : h.at[x] \in Nat
  BY <1>2 DEF SplitAt
<1>5. NodeGraph(h)
  <2>1. h.at \in [Ids(h) -> Nat] /\ h.op \in [Ids(h) -> Node]
    BY <1>2, <1>3, <1>4
  <2>. QED
    BY <1>2, <2>1 DEF NodeGraph
<1>6. Ids(h) \subseteq Positive /\ Ids(h) # {} /\ merge \in Ids(h)
  <2>1. ids \in [(1..k) \X B -> Nat] /\ merge \in Nat
        /\ Ids(h) = (Ids(g) \ B) \cup {ids[q] : q \in (1..k) \X B} \cup {merge}
    BY <1>2 DEF SplitIds
  <2>2. \A x \in Ids(h) : x \in Nat
    BY <1>2, <2>1 DEF Listed, Positive
  <2>3. \A x \in Ids(h) \ Ids(g) : \E y \in Ids(g) : y < x
    <3>1. PICK y \in Ids(g) : TRUE
      BY <1>2 DEF Listed
    <3>2. y < merge /\ \A i \in 1..k : \A c \in B : y < ids[<<i, c>>]
      BY <1>2 DEF SplitIds
    <3>3. ASSUME NEW x \in Ids(h) \ Ids(g) PROVE y < x
      <4>1. x = merge \/ \E i \in 1..k : \E c \in B : x = ids[<<i, c>>]
        BY <1>1 DEF SplitView, KindsView
      <4>. QED
        BY <3>2, <4>1
    <3>. QED
      BY <3>3
  <2>4. \A x \in Ids(h) : x # 0
    <3>1. \A x \in Ids(g) : x \in Nat /\ x > 0
      BY <1>2 DEF Listed, Positive
    <3>. QED
      BY <2>2, <2>3, <3>1
  <2>. QED
    BY <2>1, <2>2, <2>4 DEF Positive
<1>7. IsFiniteSet(Ids(h))
  <2>1. IsFiniteSet(B) /\ IsFiniteSet(1..k)
    <3>1. IsFiniteSet(B)
      BY DecidedOps DEF SplitStep
    <3>2. k \in Int
      BY <1>2 DEF Positive
    <3>. QED
      BY <3>1, <3>2, FS_Interval
  <2>2. IsFiniteSet((1..k) \X B)
    BY <2>1, FS_Product
  <2>3. ids \in Surjection((1..k) \X B, {ids[q] : q \in (1..k) \X B})
    BY <1>2 DEF SplitIds, Surjection
  <2>4. IsFiniteSet({ids[q] : q \in (1..k) \X B})
    BY <2>2, <2>3, FS_Surjection
  <2>5. IsFiniteSet(Ids(g) \ B) /\ IsFiniteSet({merge})
    BY <1>2, FS_Subset, FS_Singleton DEF Finite
  <2>6. IsFiniteSet((Ids(g) \ B) \cup {ids[q] : q \in (1..k) \X B})
    BY <2>4, <2>5, FS_Union
  <2>7. IsFiniteSet((Ids(g) \ B) \cup {ids[q] : q \in (1..k) \X B} \cup {merge})
    BY <2>5, <2>6, FS_Union
  <2>. QED
    BY <1>2, <2>7 DEF SplitIds
<1>8. ASSUME NEW x \in Ids(h) PROVE h.op[x].deps \subseteq Ids(h)
  <2>1. Plain(h) = Ids(h)
    BY <1>1 DEF SplitView
  <2>2. h.op[x].deps = IF h.op[x].cat = "merge" THEN PartsOf(h, h.op[x].src) ELSE Wanted(o, h, x)
    BY <1>1, SplitReads
  <2>. QED
    BY <2>1, <2>2 DEF PartsOf, Wanted
<1>9. ASSUME NEW x \in Ids(h), NEW y \in Ids(h), h.at[x] = h.at[y] PROVE x = y
  <2>0. h.at[x] \in Nat /\ x \in Nat /\ y \in Nat
    BY <1>4, <1>6 DEF Positive
  <2>1. \A z \in Ids(h) : z \in Ids(g) => z \in Ids(g) \ B
    BY SplitKinds
  <2>2. CASE x \in Ids(g) /\ y \in Ids(g)
    <3>1. x \in Ids(g) \ B /\ y \in Ids(g) \ B
      BY <2>1, <2>2
    <3>2. ~(h.at[x] < h.at[y]) /\ ~(h.at[y] < h.at[x])
      BY <1>9, <2>0
    <3>3. ~(g.at[x] < g.at[y]) /\ ~(g.at[y] < g.at[x])
      BY <1>2, <3>1, <3>2 DEF SplitAt
    <3>4. g.at[x] \in Nat /\ g.at[y] \in Nat
      BY <1>2, <3>1 DEF Listed, NodeGraph
    <3>. QED
      BY <1>2, <3>1, <3>3, <3>4 DEF Listed
  <2>3. CASE x \notin Ids(g) /\ y \notin Ids(g)
    <3>1. ~(h.at[x] < h.at[y]) /\ ~(h.at[y] < h.at[x])
      BY <1>9, <2>0
    <3>2. ~(x < y) /\ ~(y < x)
      BY <1>2, <2>3, <3>1 DEF SplitAt
    <3>. QED
      BY <2>0, <3>2
  <2>4. ASSUME NEW z \in Ids(h) \ Ids(g), NEW t \in Ids(g) \ B PROVE h.at[z] # h.at[t]
    <3>1. h.at[z] < h.at[t] \/ h.at[t] < h.at[z]
      BY <1>2, <2>4 DEF SplitAt
    <3>2. h.at[z] \in Nat
      BY <1>4
    <3>. QED
      BY <3>1, <3>2
  <2>. QED
    BY <1>9, <2>1, <2>2, <2>3, <2>4
<1>. QED
  BY <1>5, <1>6, <1>7, <1>8, <1>9 DEF Listed, Finite

(* What is wired is wired.                                                  *)
LEMMA SplitWired ==
  ASSUME NEW o, NEW g, NEW h, NEW n, NEW B, NEW k, NEW ids, NEW merge,
         SplitView(o, g, h, n, B, k, ids, merge), Finite(h)
  PROVE  Wired(o, h)
<1>1. Plain(h) = Ids(h)
  BY DEF SplitView
<1>2. \A x \in Ids(h) : Values(h, x) = h.op[x].deps
  BY <1>1, NoConverts
<1>3. \A x \in Ids(h) : h.op[x].deps = IF h.op[x].cat = "merge" THEN PartsOf(h, h.op[x].src)
                                       ELSE Wanted(o, h, x)
  BY SplitReads
<1>. QED
  BY <1>1, <1>2, <1>3 DEF Wired

(* After a split each node still computes a known part of a known op.        *)
LEMMA SplitProvenance ==
  ASSUME NEW o, NEW g, NEW td, NEW n, NEW B, NEW plan, NEW k, NEW owner, NEW sync, NEW h, NEW ids,
         NEW merge, SplitStep(o, g, td, n, B, plan, k, owner, sync, h, ids, merge)
  PROVE  Originals(o, h) /\ Made(o, h) /\ Provenance(o, h) /\ Grouped(o, h)
<1>1. SplitView(o, g, h, n, B, k, ids, merge)
  BY SplitViews
<1>2. /\ Plain(h) = Ids(h) /\ Plain(g) = Ids(g) /\ n \in B /\ Max(B) \in B
      /\ OthersView(o, g, h, B, merge) /\ PartsView(o, g, h, n, B, k, ids)
      /\ MergeView(o, g, h, B, k, ids, merge) /\ BlockView(o, g, B)
      /\ KindsView(g, h, B, k, ids, merge)
  BY <1>1 DEF SplitView
<1>3. /\ Originals(o, g) /\ Made(o, g) /\ Provenance(o, g) /\ Grouped(o, g)
      /\ Ids(h) \cap Ids(o) = (Ids(g) \cap Ids(o)) \ B
  BY SplitKinds DEF SplitStep, NextBlock, GraphInv
<1>4. Originals(o, h)
  <2>1. ASSUME NEW i \in Ids(h) \cap Ids(o)
        PROVE  /\ h.op[i].src = i /\ h.op[i].part = 0 /\ h.op[i].cat = o.op[i].cat
               /\ h.op[i].shape = o.op[i].shape /\ h.op[i].group = o.op[i].group
    <3>1. i \in Ids(g) \ B /\ i \in Ids(g) \cap Ids(o)
      BY <1>3, <2>1
    <3>2. /\ g.op[i].src = i /\ g.op[i].part = 0 /\ g.op[i].cat = o.op[i].cat
          /\ g.op[i].shape = o.op[i].shape /\ g.op[i].group = o.op[i].group
      BY <1>3, <3>1 DEF Originals
    <3>3. /\ h.op[i].src = g.op[i].src /\ h.op[i].part = g.op[i].part
          /\ h.op[i].cat = g.op[i].cat /\ h.op[i].shape = g.op[i].shape
          /\ h.op[i].group = g.op[i].group
      BY <1>2, <3>1 DEF OthersView
    <3>. QED
      BY <3>2, <3>3
  <2>. QED
    BY <2>1 DEF Originals
<1>5. ASSUME NEW x \in Ids(h), x \notin Ids(o)
      PROVE  /\ h.op[x].src \in Ids(o) \ Ids(h)
             /\ \/ h.op[x].part # 0 /\ h.op[x].cat = o.op[h.op[x].src].cat
                \/ h.op[x].part = 0 /\ h.op[x].cat = "merge"
             /\ h.op[x].cat = "attention" \/ h.op[x].group = 0
  <2>1. CASE x \in Ids(g) \ B
    <3>1. /\ g.op[x].src \in Ids(o) \ Ids(g)
          /\ \/ g.op[x].part # 0 /\ g.op[x].cat = o.op[g.op[x].src].cat
             \/ g.op[x].part = 0 /\ g.op[x].cat = "merge"
          /\ g.op[x].cat = "attention" \/ g.op[x].group = 0
      BY <1>2, <1>3, <1>5, <2>1 DEF Made
    <3>. QED
      BY <1>2, <1>3, <2>1, <3>1 DEF OthersView
  <2>2. CASE \E i \in 1..k : \E c \in B : x = ids[<<i, c>>]
    <3>1. PICK i \in 1..k, c \in B : x = ids[<<i, c>>]
      BY <2>2
    <3>2. PartView(o, g, h, n, B, c, i, ids) /\ c \in Ids(o)
      BY <1>2 DEF PartsView, BlockView
    <3>. QED
      BY <1>3, <3>1, <3>2 DEF PartView
  <2>3. CASE x = merge
    BY <1>2, <1>3, <2>3 DEF MergeView, BlockView
  <2>. QED
    BY <1>2, <2>1, <2>2, <2>3 DEF KindsView
<1>6. Made(o, h)
  BY <1>2, <1>5 DEF Made
<1>7. ASSUME NEW x \in Ids(h), NEW y \in Ids(h), h.op[x].src = h.op[y].src,
             h.op[x].part = h.op[y].part
      PROVE  x = y
  <2>1. ASSUME NEW z \in Ids(h), z \notin Ids(g) \ B
        PROVE  /\ h.op[z].src \in B
               /\ z = IF h.op[z].part = 0 THEN merge ELSE ids[<<h.op[z].part, h.op[z].src>>]
    <3>1. CASE \E i \in 1..k : \E c \in B : z = ids[<<i, c>>]
      <4>1. PICK i \in 1..k, c \in B : z = ids[<<i, c>>]
        BY <3>1
      <4>2. PartView(o, g, h, n, B, c, i, ids)
        BY <1>2 DEF PartsView
      <4>. QED
        BY <4>1, <4>2 DEF PartView
    <3>2. CASE z = merge
      BY <1>2, <3>2 DEF MergeView
    <3>. QED
      BY <1>2, <2>1, <3>1, <3>2 DEF KindsView
  <2>2. \A z \in Ids(g) \ B : h.op[z].src = g.op[z].src /\ h.op[z].part = g.op[z].part
                            /\ h.op[z].src \notin B
    BY <1>2 DEF OthersView
  <2>3. CASE x \in Ids(g) \ B
    <3>1. y \in Ids(g) \ B
      BY <1>7, <2>1, <2>2, <2>3
    <3>2. g.op[x].src = g.op[y].src /\ g.op[x].part = g.op[y].part
      BY <1>7, <2>2, <2>3, <3>1
    <3>. QED
      BY <1>2, <1>3, <2>3, <3>1, <3>2 DEF Provenance
  <2>4. CASE x \notin Ids(g) \ B
    <3>1. y \notin Ids(g) \ B
      BY <1>7, <2>1, <2>2, <2>4
    <3>2. /\ x = IF h.op[x].part = 0 THEN merge ELSE ids[<<h.op[x].part, h.op[x].src>>]
          /\ y = IF h.op[y].part = 0 THEN merge ELSE ids[<<h.op[y].part, h.op[y].src>>]
      BY <2>1, <2>4, <3>1
    <3>. QED
      BY <1>7, <3>2
  <2>. QED
    BY <2>3, <2>4
<1>8. Provenance(o, h)
  <2>1. \E i \in Ids(h) : \A s \in Ids(o) : s <= i
    <3>1. merge \in Ids(h) /\ \A s \in Ids(o) : s < merge
      BY SplitKinds
    <3>2. merge \in Nat /\ \A s \in Ids(o) : s \in Nat
      BY TracedOps DEF SplitStep, NextBlock, SplitMade, SplitIds, Positive
    <3>. QED
      BY <3>1, <3>2
  <2>2. ASSUME NEW s \in Ids(o), NEW t \in Ids(o), SameBlock(o, s, t), s \in Ids(h)
        PROVE  t \in Ids(h)
    <3>1. s \in Ids(g) /\ s \notin B
      BY <1>3, <2>2
    <3>2. t \in Ids(g)
      BY <1>3, <2>2, <3>1 DEF Provenance
    <3>3. t \notin B
      BY <1>2, <2>2, <3>1 DEF BlockView
    <3>. QED
      BY <1>3, <3>2, <3>3
  <2>3. ASSUME NEW s \in Ids(o) \ Ids(h), NEW t \in Ids(o), s \in Reads(o, t), ~SameBlock(o, s, t)
        PROVE  \E m \in Plain(h) : h.op[m].src = s /\ h.op[m].part = 0
    <3>1. CASE s \in B
      <4>1. s = Max(B)
        BY <1>2, <2>3, <3>1 DEF BlockView
      <4>. QED
        BY <1>2, <4>1 DEF MergeView
    <3>2. CASE s \notin B
      <4>1. s \notin Ids(g)
        BY <1>3, <3>2
      <4>2. PICK m \in Plain(g) : g.op[m].src = s /\ g.op[m].part = 0
        BY <1>3, <2>3, <4>1 DEF Provenance
      <4>3. m \in Ids(g) \ B
        BY <1>2, <3>2, <4>2 DEF BlockView
      <4>. QED
        BY <1>2, <4>2, <4>3 DEF OthersView
    <3>. QED
      BY <3>1, <3>2
  <2>. QED
    BY <1>2, <1>7, <2>1, <2>2, <2>3 DEF Provenance
<1>9. ASSUME NEW x \in Ids(h), h.op[x].cat = "attention"
      PROVE  LET r == h.op[x].group
             IN  /\ r \in Ids(h) /\ IsRep(h, r)
                 /\ h.op[r].part = h.op[x].part /\ SameBlock(o, h.op[r].src, h.op[x].src)
  <2>1. CASE x \in Ids(g) \ B
    <3> DEFINE r == g.op[x].group
    <3>1. /\ h.op[x].group = r /\ g.op[x].cat = "attention"
          /\ h.op[x].part = g.op[x].part /\ h.op[x].src = g.op[x].src /\ g.op[x].src \notin B
          /\ g.op[x].src \in Ids(o)
      BY <1>2, <1>9, <2>1 DEF OthersView
    <3>2. /\ r \in Ids(g) /\ IsRep(g, r)
          /\ g.op[r].part = g.op[x].part /\ SameBlock(o, g.op[r].src, g.op[x].src)
      BY <1>2, <1>3, <2>1, <3>1 DEF Grouped
    <3> HIDE DEF r
    <3>3. r \notin B
      <4>1. r \in B => g.op[r].src = r
        BY <1>2 DEF BlockView
      <4>2. r \in B => (SameBlock(o, r, g.op[x].src) <=> g.op[x].src \in B)
        BY <1>2 DEF BlockView
      <4>. QED
        BY <3>1, <3>2, <4>1, <4>2
    <3>4. /\ r \in Ids(h) /\ h.op[r].cat = g.op[r].cat /\ h.op[r].group = g.op[r].group
          /\ h.op[r].part = g.op[r].part /\ h.op[r].src = g.op[r].src
      BY <1>2, <3>2, <3>3 DEF OthersView
    <3>. QED
      BY <3>1, <3>2, <3>4 DEF IsRep
  <2>2. CASE \E i \in 1..k : \E c \in B : x = ids[<<i, c>>]
    <3>1. PICK i \in 1..k, c \in B : x = ids[<<i, c>>]
      BY <2>2
    <3>2. PartView(o, g, h, n, B, c, i, ids) /\ PartView(o, g, h, n, B, n, i, ids)
      BY <1>2 DEF PartsView
    <3>3. o.op[c].cat = "attention" /\ h.op[x].group = ids[<<i, n>>]
      BY <1>9, <3>1, <3>2 DEF PartView
    <3>4. o.op[n].cat = "attention"
      BY <3>3, DecidedFields DEF SplitStep
    <3>5. SameBlock(o, n, c)
      BY <1>2 DEF BlockView
    <3>. QED
      BY <3>1, <3>2, <3>3, <3>4, <3>5 DEF PartView, IsRep
  <2>3. CASE x = merge
    BY <1>2, <1>9, <2>3 DEF MergeView
  <2>. QED
    BY <1>2, <2>1, <2>2, <2>3 DEF KindsView
<1>10. Grouped(o, h)
  BY <1>2, <1>9 DEF Grouped
<1>. QED
  BY <1>4, <1>6, <1>8, <1>10

(* After a split the list is still in topological order.                     *)
LEMMA SplitOrdered ==
  ASSUME NEW o, NEW g, NEW td, NEW n, NEW B, NEW plan, NEW k, NEW owner, NEW sync, NEW h, NEW ids,
         NEW merge, SplitStep(o, g, td, n, B, plan, k, owner, sync, h, ids, merge)
  PROVE  Ordered(h)
<1>1. SplitView(o, g, h, n, B, k, ids, merge) /\ Listed(h)
  BY SplitViews, SplitListed
<1>2. /\ Plain(h) = Ids(h) /\ Plain(g) = Ids(g) /\ n \in B /\ Max(B) \in B
      /\ OthersView(o, g, h, B, merge) /\ PartsView(o, g, h, n, B, k, ids)
      /\ MergeView(o, g, h, B, k, ids, merge) /\ BlockView(o, g, B)
      /\ KindsView(g, h, B, k, ids, merge)
  BY <1>1 DEF SplitView
<1>3. /\ SplitIds(g, h, B, k, ids, merge) /\ SplitAt(g, h, B) /\ Finite(h)
      /\ NextBlock(o, g, td, n, B)
  BY <1>1 DEF SplitStep, SplitMade, Listed
<1>4. TodoInv(o, g, td) /\ Ordered(g) /\ Finite(g)
  BY <1>3 DEF NextBlock, GraphInv, Listed
<1>5. \A x \in Ids(h) : Values(h, x) = h.op[x].deps
  BY <1>2, <1>3, NoConverts
<1>6. \A x \in Ids(g) : \A d \in g.op[x].deps : g.at[d] < g.at[x]
  <2>1. \A x \in Ids(g) : Values(g, x) = g.op[x].deps
    BY <1>2, <1>4, NoConverts
  <2>. QED
    BY <1>2, <1>4, <2>1 DEF Ordered
<1>7. \A x, y \in Ids(g) \ B : g.at[x] < g.at[y] => h.at[x] < h.at[y]
  BY <1>3 DEF SplitAt
<1>8. \A x \in Ids(h) \ Ids(g) : \A y \in Ids(g) \ B :
        IF \A c \in B : g.at[y] < g.at[c] THEN h.at[y] < h.at[x] ELSE h.at[x] < h.at[y]
  BY <1>3 DEF SplitAt
<1>9. \A x, y \in Ids(h) \ Ids(g) : x < y => h.at[x] < h.at[y]
  BY <1>3 DEF SplitAt
<1>10. ASSUME NEW x \in Ids(g) \ B, NEW d \in h.op[x].deps PROVE h.at[d] < h.at[x]
  <2>1. CASE d \in Ids(g)
    <3>1. d \in g.op[x].deps /\ d \in Ids(g) \ B
      <4>1. /\ h.op[x].deps = IF Max(B) \in g.op[x].deps THEN (g.op[x].deps \ {Max(B)}) \cup {merge}
                            ELSE g.op[x].deps
            /\ g.op[x].deps \cap B \subseteq {Max(B)}
        BY <1>2 DEF OthersView
      <4>2. d # merge
        BY <1>2, <2>1 DEF MergeView
      <4>. QED
        BY <1>2, <1>10, <2>1, <4>1, <4>2
    <3>. QED
      BY <1>6, <1>7, <1>10, <3>1
  <2>2. CASE d \notin Ids(g)
    <3>1. d = merge /\ Max(B) \in g.op[x].deps
      <4>1. /\ h.op[x].deps = IF Max(B) \in g.op[x].deps THEN (g.op[x].deps \ {Max(B)}) \cup {merge}
                            ELSE g.op[x].deps
            /\ g.op[x].deps \subseteq Ids(g)
        BY <1>2, <1>10 DEF OthersView
      <4>2. d \in h.op[x].deps /\ d \notin g.op[x].deps
        BY <1>10, <2>2, <4>1
      <4>. QED
        BY <4>1, <4>2
    <3>2. g.at[Max(B)] < g.at[x]
      BY <1>6, <3>1
    <3>3. ~ \A c \in B : g.at[x] < g.at[c]
      <4>1. g.at[Max(B)] \in Nat /\ g.at[x] \in Nat
        BY <1>2, <1>3 DEF NextBlock, GraphInv, Listed, NodeGraph, BlockView
      <4>. QED
        BY <1>2, <3>2, <4>1
    <3>4. merge \in Ids(h) \ Ids(g)
      BY <1>2 DEF MergeView
    <3>. QED
      BY <1>8, <3>1, <3>3, <3>4
  <2>. QED
    BY <2>1, <2>2
<1>11. ASSUME NEW i \in 1..k, NEW c \in B, NEW d \in h.op[ids[<<i, c>>]].deps
       PROVE  h.at[d] < h.at[ids[<<i, c>>]]
  <2>1. PartView(o, g, h, n, B, c, i, ids)
    BY <1>2 DEF PartsView
  <2>2. PICK e \in g.op[c].deps : d = IF e \in B THEN ids[<<i, e>>] ELSE e
    BY <1>11, <2>1 DEF PartView, PartDeps
  <2>3. /\ e \in Ids(g) /\ g.op[e].src \in Reads(o, c)
        /\ ids[<<i, c>>] \in Ids(h) \ Ids(g)
    BY <1>2, <2>1, <2>2 DEF BlockView, Wanted, PartView
  <2>4. CASE e \in B
    <3>1. g.op[e].src = e
      BY <1>2, <2>4 DEF BlockView
    <3>2. e < c
      BY <1>3, <2>3, <3>1, DecidedFields
    <3>3. ids[<<i, e>>] < ids[<<i, c>>]
      BY <1>3, <2>4, <3>2 DEF SplitIds
    <3>4. ids[<<i, e>>] \in Ids(h) \ Ids(g)
      BY <1>2, <2>4 DEF PartsView, PartView
    <3>. QED
      BY <1>9, <2>2, <2>3, <2>4, <3>3, <3>4
  <2>5. CASE e \notin B
    <3>1. g.op[e].src \notin B
      BY <1>2, <2>3, <2>5 DEF OthersView
    <3>2. g.op[e].src < n
      BY <1>3, <2>3, <3>1, DecidedFields
    <3>3. g.op[e].src \in Nat
      BY <1>3, <2>3, NodeForm DEF NextBlock, GraphInv, Listed, NodeGraph
    <3>4. \A b \in B : b \in Positive /\ n <= b /\ b \in td /\ n \in Positive
      BY <1>2, <1>3, DecidedOps
    <3>5. \A b \in B : g.op[e].src < b /\ b \in td
      BY <3>2, <3>3, <3>4 DEF Positive
    <3>6. \A b \in B : g.at[e] < g.at[b]
      BY <1>4, <2>3, <3>5 DEF TodoInv
    <3>. QED
      BY <1>8, <2>2, <2>3, <2>5, <3>6
  <2>. QED
    BY <2>4, <2>5
<1>12. ASSUME NEW d \in h.op[merge].deps PROVE h.at[d] < h.at[merge]
  <2>1. PICK i \in 1..k : d = ids[<<i, Max(B)>>]
    BY <1>2, <1>12 DEF MergeView
  <2>2. d \in Ids(h) \ Ids(g) /\ merge \in Ids(h) \ Ids(g)
    BY <1>2, <2>1 DEF PartsView, PartView, MergeView
  <2>3. d < merge
    BY <1>2, <1>3, <2>1 DEF SplitIds
  <2>. QED
    BY <1>9, <2>2, <2>3
<1>13. \A x \in Ids(h) : \A d \in h.op[x].deps : h.at[d] < h.at[x]
  <2>. TAKE x \in Ids(h)
  <2>1. CASE \E i \in 1..k : \E c \in B : x = ids[<<i, c>>]
    BY <1>11, <2>1
  <2>. QED
    BY <1>2, <1>10, <1>12, <2>1 DEF KindsView
<1>. QED
  BY <1>2, <1>5, <1>13 DEF Ordered

(* After a split the nodes still have shapes and bytes of their category.    *)
LEMMA SplitTyped ==
  ASSUME NEW o, NEW g, NEW td, NEW n, NEW B, NEW plan, NEW k, NEW owner, NEW sync, NEW h, NEW ids,
         NEW merge, SplitStep(o, g, td, n, B, plan, k, owner, sync, h, ids, merge)
  PROVE  Typed(h)
<1>1. SplitView(o, g, h, n, B, k, ids, merge)
  BY SplitViews
<1>2. OthersView(o, g, h, B, merge) /\ MergeView(o, g, h, B, k, ids, merge)
      /\ KindsView(g, h, B, k, ids, merge) /\ n \in B
  BY <1>1 DEF SplitView
<1>3. /\ NextBlock(o, g, td, n, B) /\ Splits(o, n, plan, k)
      /\ SplitMade(o, g, h, n, B, plan, k, ids, merge, owner, sync) /\ Typed(g) /\ Listed(g)
  BY DEF SplitStep, NextBlock, GraphInv
<1>4. ASSUME NEW x \in Ids(h)
      PROVE  /\ h.op[x].cat \in Traceable => h.op[x].shape \in ShapesOf(h.op[x].cat)
             /\ h.op[x].cat = "matmul" => BaseBytes(h.op[x]) = ShapeBytes(h.op[x].shape)
  <2>1. CASE x \in Ids(g) \ B
    BY <1>2, <1>3, <2>1 DEF OthersView, Typed
  <2>2. CASE \E i \in 1..k : \E c \in B : x = ids[<<i, c>>]
    <3>1. PICK i \in 1..k, c \in B : x = ids[<<i, c>>]
      BY <2>2
    <3> DEFINE total == o.op[n].shape[plan.dim]
               size == Sizes(plan, total)[i]
    <3>2. PartOf(o, g, h.op[x], n, B, c, plan, i, size, ids)
      BY <1>3, <3>1 DEF SplitMade
    <3>3. /\ o.op[c].cat \in Traceable /\ o.op[n].shape \in ShapesOf(o.op[c].cat)
          /\ c # n => o.op[n].cat = "attention" /\ o.op[c].cat \in {"attention", "elementwise"}
          /\ g.op[n] \in Node /\ g.op[n].shape = o.op[n].shape
      BY <1>2, <1>3, DecidedFields
    <3>4. o.op[n].shape \in Shapes
      <4>1. g.op[n].shape \in Shapes
        BY <3>3, NodeForm, Zenon
      <4>. QED
        BY <3>3, <4>1
    <3>5. size \in Positive /\ n \in Ids(o)
      <4>1. n \in Ids(o)
        BY <1>3, DecidedOps
      <4>. QED
        BY <1>3, <3>4, <4>1, PartShapes
    <3>6. o.op[c].cat \in {"matmul", "attention", "elementwise"}
      BY <1>3, <3>3 DEF Splits, LegalDims
    <3>7. AxisOf(o.op[n].shape, plan.dim)
      BY <1>3 DEF Splits
    <3> HIDE DEF size
    <3>8. [o.op[n].shape EXCEPT ![plan.dim] = size] \in ShapesOf(o.op[c].cat)
      BY <3>3, <3>5, <3>6, <3>7, ResizedKind
    <3>. QED
      BY <3>2, <3>8 DEF PartOf
  <2>3. CASE x = merge
    BY <1>2, <2>3 DEF MergeView, Traceable, LegalDims, FixedUnit
  <2>. QED
    BY <1>2, <2>1, <2>2, <2>3 DEF KindsView
<1>. QED
  BY <1>4 DEF Typed

(* A split touches no op that is left to be decided.                         *)
LEMMA SplitTodo ==
  ASSUME NEW o, NEW g, NEW td, NEW n, NEW B, NEW plan, NEW k, NEW owner, NEW sync, NEW h, NEW ids,
         NEW merge, SplitStep(o, g, td, n, B, plan, k, owner, sync, h, ids, merge)
  PROVE  TodoInv(o, h, td \ B)
<1>1. SplitView(o, g, h, n, B, k, ids, merge)
  BY SplitViews
<1>2. /\ OthersView(o, g, h, B, merge) /\ MergeView(o, g, h, B, k, ids, merge)
      /\ KindsView(g, h, B, k, ids, merge) /\ Plain(h) = Ids(h) /\ BlockView(o, g, B)
      /\ PartsView(o, g, h, n, B, k, ids) /\ Max(B) \in B
  BY <1>1 DEF SplitView
<1>3. /\ NextBlock(o, g, td, n, B) /\ TodoInv(o, g, td) /\ NodeGraph(g)
      /\ SplitMade(o, g, h, n, B, plan, k, ids, merge, owner, sync) /\ SplitAt(g, h, B)
      /\ Traced(o)
  BY DEF SplitStep, NextBlock, SplitMade, GraphInv, Listed
<1>4. td \ B \subseteq Ids(o) \cap Ids(h)
  BY <1>2, <1>3 DEF TodoInv, OthersView
<1>5. ASSUME NEW s \in Ids(o), NEW t \in Ids(o), SameBlock(o, s, t), s \in td \ B
      PROVE  t \in td \ B
  <2>1. t \in td
    BY <1>3, <1>5 DEF TodoInv
  <2>2. t \in B => s \in B
    BY <1>2, <1>5 DEF BlockView
  <2>. QED
    BY <1>5, <2>1, <2>2
<1>6. ASSUME NEW s \in Ids(o) \ (td \ B) PROVE Reads(o, s) \cap (td \ B) = {}
  <2>1. CASE s \notin td
    BY <1>3, <2>1 DEF TodoInv
  <2>2. CASE s \in B
    <3>. SUFFICES ASSUME NEW d \in Reads(o, s), d \in td, d \notin B PROVE FALSE
      OBVIOUS
    <3>1. d < n
      BY <1>3, <2>2, DecidedFields
    <3>2. n <= d /\ n \in td
      BY <1>3 DEF NextBlock
    <3>3. n \in Nat /\ d \in Nat
      BY <1>3, <3>2, TracedOps DEF TodoInv, Positive
    <3>. QED
      BY <3>1, <3>2, <3>3
  <2>. QED
    BY <1>6, <2>1, <2>2
<1>7. ASSUME NEW t \in td \ B PROVE h.op[t] = [o.op[t] EXCEPT !.deps = h.op[t].deps]
  <2>1. g.op[t] = [o.op[t] EXCEPT !.deps = g.op[t].deps] /\ t \in Ids(g) \ B
    BY <1>3 DEF TodoInv
  <2>2. Rewiring(g.op[t], h.op[t], Max(B), merge)
    BY <1>3, <2>1 DEF SplitMade
  <2>3. h.op[t] = [g.op[t] EXCEPT !.deps = h.op[t].deps]
    BY <2>2 DEF Rewiring
  <2>. QED
    BY <2>1, <2>3
<1>8. ASSUME NEW t \in td \ B, NEW d \in Ids(h), h.op[d].src < t PROVE h.at[d] < h.at[t]
  <2>1. t \in Ids(g) \ B
    BY <1>3 DEF TodoInv
  <2>2. CASE d \in Ids(g) \ B
    <3>1. g.op[d].src < t
      BY <1>2, <1>8, <2>2 DEF OthersView
    <3>2. g.at[d] < g.at[t]
      BY <1>3, <2>2, <3>1 DEF TodoInv
    <3>. QED
      BY <1>3, <2>1, <2>2, <3>2 DEF SplitAt
  <2>3. CASE d \notin Ids(g) \ B
    <3>1. d \in Ids(h) \ Ids(g) /\ h.op[d].src \in B
      <4>1. CASE \E i \in 1..k : \E c \in B : d = ids[<<i, c>>]
        <5>1. PICK i \in 1..k, c \in B : d = ids[<<i, c>>]
          BY <4>1
        <5>2. PartView(o, g, h, n, B, c, i, ids)
          BY <1>2 DEF PartsView
        <5>. QED
          BY <5>1, <5>2 DEF PartView
      <4>2. CASE d = merge
        BY <1>2, <4>2 DEF MergeView
      <4>. QED
        BY <1>2, <2>3, <4>1, <4>2 DEF KindsView
    <3> DEFINE c == h.op[d].src
    <3>2. c \in B /\ c < t
      BY <1>8, <3>1
    <3> HIDE DEF c
    <3>3. g.op[c].src = c /\ c \in Ids(g)
      BY <1>2, <3>2 DEF BlockView
    <3>4. g.at[c] < g.at[t]
      BY <1>3, <3>2, <3>3 DEF TodoInv
    <3>5. ~ \A b \in B : g.at[t] < g.at[b]
      <4>1. g.at[c] \in Nat /\ g.at[t] \in Nat
        BY <1>3, <2>1, <3>3 DEF NodeGraph
      <4>. QED
        BY <3>2, <3>4, <4>1
    <3>. QED
      BY <1>3, <2>1, <3>1, <3>5 DEF SplitAt
  <2>. QED
    BY <2>2, <2>3
<1>. QED
  BY <1>2, <1>4, <1>5, <1>6, <1>7, <1>8 DEF TodoInv

(* The work of the nodes of a graph can be summed.                           *)
LEMMA WorksInt ==
  ASSUME NEW g, Listed(g), NEW S \in SUBSET Ids(g)
  PROVE  /\ IsFiniteSet(S) /\ \A x \in S : Works(g)[x] \in Int
         /\ \A x \in S : Works(g)[x] = Work(g.op[x].shape)
<1>1. \A x \in Ids(g) : Works(g)[x] \in Int
  <2>. TAKE x \in Ids(g)
  <2>1. g.op[x] \in Node
    BY DEF Listed, NodeGraph
  <2>2. g.op[x].shape \in Shapes
    BY <2>1, NodeForm, Zenon
  <2>. QED
    BY <2>2, ShapeNumbers DEF Works, Positive
<1>2. IsFiniteSet(S)
  BY FS_Subset DEF Listed, Finite
<1>. QED
  BY <1>1, <1>2 DEF Works

(* The parts of an op do its work.                                          *)
LEMMA PartsWork ==
  ASSUME NEW o, NEW n \in Ids(o), NEW plan, NEW k, Splits(o, n, plan, k), o.op[n].shape \in Shapes,
         NEW w, NEW m, \A i, j \in 1..k : m[i] = m[j] => i = j,
         \A i \in 1..k : w[m[i]] =
           Work([o.op[n].shape EXCEPT ![plan.dim] = Sizes(plan, o.op[n].shape[plan.dim])[i]])
  PROVE  SumOver(w, {m[i] : i \in 1..k}) = Work(o.op[n].shape)
<1> DEFINE s == o.op[n].shape
           total == s[plan.dim]
           sizes == Sizes(plan, total)
           f == [i \in 1..k |-> Work([s EXCEPT ![plan.dim] = sizes[i]])]
<1>1. /\ total \in Positive /\ \A i \in 1..k : sizes[i] \in Positive
  <2>1. PlanOf(plan, k) /\ AxisOf(s, plan.dim) /\ Feasible(plan, total)
    BY DEF Splits
  <2>2. total \in Positive
    <3>1. 1 \in Positive
      BY DEF Positive
    <3>. QED
      BY <2>1, <3>1, Resized
  <2>3. total \in Int
    BY <2>2 DEF Positive
  <2>. QED
    BY <2>1, <2>2, <2>3, SizesFacts
<1>2. SumOver(sizes, 1..k) = total
  <2>1. PlanOf(plan, k) /\ total \in Int
    BY <1>1 DEF Splits, Positive
  <2>. QED
    BY <2>1, SizesFacts
<1>3. PICK u \in Int : /\ Work(s) = u * s[plan.dim]
                       /\ \A size \in Positive : Work([s EXCEPT ![plan.dim] = size]) = u * size
  BY WorkLinear DEF Splits
<1>4. IsFiniteSet(1..k)
  <2>1. k \in Int
    BY DEF Splits, PlanOf, Positive
  <2>. QED
    BY <2>1, FS_Interval
<1>5. \A i \in 1..k : f[i] = u * sizes[i] /\ sizes[i] \in Int /\ f[i] \in Int
  <2>1. \A i \in 1..k : f[i] = u * sizes[i] /\ sizes[i] \in Int
    BY <1>1, <1>3 DEF Positive
  <2>. QED
    BY <2>1
<1>6. \A i \in 1..k : w[m[i]] = f[i]
  OBVIOUS
<1> HIDE DEF f, sizes
<1> DEFINE S == 1..k
<1>7. /\ IsFiniteSet(S) /\ \A i \in S : sizes[i] \in Int /\ f[i] = u * sizes[i] /\ f[i] \in Int
      /\ \A i \in S : w[m[i]] = f[i]
      /\ \A i, j \in S : m[i] = m[j] => i = j
      /\ SumOver(sizes, S) = total
  BY <1>2, <1>4, <1>5, <1>6
<1> HIDE DEF S, total
<1>8. SumOver(f, S) = u * SumOver(sizes, S)
  BY <1>7, SumScaled
<1>9. SumOver(w, {m[i] : i \in S}) = SumOver(f, S)
  BY <1>7, SumImage
<1>10. SumOver(w, {m[i] : i \in S}) = Work(o.op[n].shape)
  BY <1>3, <1>7, <1>8, <1>9 DEF total
<1>. QED
  BY <1>10 DEF S

(* A split conserves the work of every op.                                   *)
LEMMA SplitWorked ==
  ASSUME NEW o, NEW g, NEW td, NEW n, NEW B, NEW plan, NEW k, NEW owner, NEW sync, NEW h, NEW ids,
         NEW merge, SplitStep(o, g, td, n, B, plan, k, owner, sync, h, ids, merge)
  PROVE  Worked(o, h)
<1>1. SplitView(o, g, h, n, B, k, ids, merge) /\ Listed(h)
  BY SplitViews, SplitListed
<1>2. /\ OthersView(o, g, h, B, merge) /\ MergeView(o, g, h, B, k, ids, merge)
      /\ KindsView(g, h, B, k, ids, merge) /\ n \in B /\ BlockView(o, g, B)
      /\ PartsView(o, g, h, n, B, k, ids)
  BY <1>1 DEF SplitView
<1>3. /\ NextBlock(o, g, td, n, B) /\ Splits(o, n, plan, k) /\ Listed(g) /\ Worked(o, g)
      /\ SplitMade(o, g, h, n, B, plan, k, ids, merge, owner, sync)
      /\ SplitIds(g, h, B, k, ids, merge)
  BY DEF SplitStep, NextBlock, GraphInv, SplitMade
<1>4. ASSUME NEW s \in Ids(o), s \notin B
      PROVE  SumOver(Works(h), {x \in Real(h) : h.op[x].src = s}) = Work(o.op[s].shape)
  <2> DEFINE S == {x \in Real(h) : h.op[x].src = s}
             T == {x \in Real(g) : g.op[x].src = s}
  <2>1. \A x \in S : x \in Ids(g) \ B
    <3>. TAKE x \in S
    <3>1. x \in Ids(h) /\ h.op[x].src = s /\ h.op[x].cat # "merge"
      BY DEF Real
    <3>2. CASE \E i \in 1..k : \E c \in B : x = ids[<<i, c>>]
      <4>1. PICK i \in 1..k, c \in B : x = ids[<<i, c>>]
        BY <3>2
      <4>2. PartView(o, g, h, n, B, c, i, ids)
        BY <1>2 DEF PartsView
      <4>. QED
        BY <1>4, <3>1, <4>1, <4>2 DEF PartView
    <3>3. x # merge
      BY <1>2, <3>1 DEF MergeView
    <3>. QED
      BY <1>2, <3>1, <3>2, <3>3 DEF KindsView
  <2>2. \A x \in T : x \in Ids(g) \ B
    BY <1>2, <1>4 DEF Real, BlockView
  <2>3. \A x \in Ids(g) \ B : /\ x \in Ids(h) /\ h.op[x].src = g.op[x].src
                              /\ h.op[x].cat = g.op[x].cat /\ h.op[x].shape = g.op[x].shape
    BY <1>2 DEF OthersView
  <2>4. S = T
    <3>1. \A x \in Ids(g) \ B : x \in S <=> x \in T
      BY <2>3 DEF Real
    <3>. QED
      BY <2>1, <2>2, <3>1
  <2>5. S \in SUBSET Ids(h) /\ T \in SUBSET Ids(g)
    BY DEF Real
  <2>6. \A x \in T : Works(h)[x] = Works(g)[x] /\ Works(g)[x] \in Int
    <3>. TAKE x \in T
    <3>1. Works(h)[x] = Work(h.op[x].shape)
      BY <1>1, <2>4, <2>5, WorksInt
    <3>2. Works(g)[x] = Work(g.op[x].shape) /\ Works(g)[x] \in Int
      BY <1>3, <2>5, WorksInt
    <3>3. h.op[x].shape = g.op[x].shape
      BY <2>2, <2>3
    <3>. QED
      BY <3>1, <3>2, <3>3
  <2>7. IsFiniteSet(T)
    BY <1>3, <2>5, WorksInt
  <2>8. SumOver(Works(g), T) = Work(o.op[s].shape)
    BY <1>3 DEF Worked
  <2> HIDE DEF S, T
  <2>9. SumOver(Works(g), T) = SumOver(Works(h), T)
    BY <2>6, <2>7, SumEqual
  <2>10. SumOver(Works(h), S) = Work(o.op[s].shape)
    BY <2>4, <2>8, <2>9
  <2>. QED
    BY <2>10 DEF S
<1>5. ASSUME NEW s \in Ids(o), s \in B
      PROVE  SumOver(Works(h), {x \in Real(h) : h.op[x].src = s}) = Work(o.op[s].shape)
  <2> DEFINE m == [i \in 1..k |-> ids[<<i, s>>]]
             S == {x \in Real(h) : h.op[x].src = s}
  <2>1. \A i \in 1..k : PartView(o, g, h, n, B, s, i, ids)
    BY <1>2, <1>5 DEF PartsView
  <2>2. ASSUME NEW x \in S PROVE x \in {m[i] : i \in 1..k}
    <3>1. x \in Ids(h) /\ h.op[x].src = s /\ h.op[x].cat # "merge"
      BY DEF Real
    <3>2. x \notin Ids(g) \ B /\ x # merge
      BY <1>2, <1>5, <3>1 DEF OthersView, MergeView
    <3>3. PICK i \in 1..k, c \in B : x = ids[<<i, c>>]
      BY <1>2, <3>1, <3>2 DEF KindsView
    <3>4. PartView(o, g, h, n, B, c, i, ids)
      BY <1>2 DEF PartsView
    <3>. QED
      BY <3>1, <3>3, <3>4 DEF PartView
  <2>3. ASSUME NEW i \in 1..k PROVE m[i] \in S
    <3>1. PartView(o, g, h, n, B, s, i, ids)
      BY <2>1
    <3>. QED
      BY <3>1 DEF PartView, Real, Traceable, LegalDims, FixedUnit
  <2>4. S = {m[i] : i \in 1..k}
    BY <2>2, <2>3
  <2>5. \A i, j \in 1..k : m[i] = m[j] => i = j
    BY <1>3, <1>5 DEF SplitIds
  <2>6. S \in SUBSET Ids(h)
    BY DEF Real
  <2>7. \A i \in 1..k :
          Works(h)[m[i]] =
            Work([o.op[n].shape EXCEPT ![plan.dim] = Sizes(plan, o.op[n].shape[plan.dim])[i]])
    <3>. TAKE i \in 1..k
    <3>1. Works(h)[m[i]] = Work(h.op[m[i]].shape)
      BY <1>1, <2>3, <2>6, WorksInt
    <3>2. PartOf(o, g, h.op[ids[<<i, s>>]], n, B, s, plan, i,
                 Sizes(plan, o.op[n].shape[plan.dim])[i], ids)
      BY <1>3, <1>5 DEF SplitMade
    <3>. QED
      BY <3>1, <3>2 DEF PartOf
  <2>8. /\ o.op[s].shape = o.op[n].shape /\ o.op[n].shape \in Shapes /\ n \in Ids(o)
    <3>1. g.op[s] \in Node /\ g.op[s].shape = o.op[n].shape /\ o.op[s].shape = o.op[n].shape
      BY <1>3, <1>5, DecidedFields
    <3>2. g.op[s].shape \in Shapes
      BY <3>1, NodeForm, Zenon
    <3>3. n \in Ids(o)
      BY <1>3, DecidedOps
    <3>. QED
      BY <3>1, <3>2, <3>3
  <2> HIDE DEF m, S
  <2>9. SumOver(Works(h), {m[i] : i \in 1..k}) = Work(o.op[n].shape)
    BY <1>3, <2>5, <2>7, <2>8, PartsWork
  <2>10. SumOver(Works(h), S) = Work(o.op[s].shape)
    BY <2>4, <2>8, <2>9
  <2>. QED
    BY <2>10 DEF S
<1>. QED
  BY <1>4, <1>5 DEF Worked

(* Splitting the next block keeps the invariant, with that block decided.    *)
LEMMA SplitKeeps ==
  ASSUME NEW o, NEW g, NEW td, NEW n, NEW B, NextBlock(o, g, td, n, B),
         NEW plan, NEW k, Splits(o, n, plan, k), NEW owner \in Chips, NEW sync \in Nat,
         NEW h, h = Split(g, n, plan, owner, sync)
  PROVE  GraphInv(o, h) /\ TodoInv(o, h, td \ B)
<1>1. PICK ids, merge : SplitMade(o, g, h, n, B, plan, k, ids, merge, owner, sync)
  BY SplitMakes
<1>2. SplitStep(o, g, td, n, B, plan, k, owner, sync, h, ids, merge)
  BY <1>1 DEF SplitStep, Splits, PlanOf
<1>3. Listed(h) /\ Finite(h)
  BY <1>2, SplitListed DEF Listed
<1>4. Wired(o, h)
  BY <1>2, <1>3, SplitViews, SplitWired
<1>5. Originals(o, h) /\ Made(o, h) /\ Provenance(o, h) /\ Grouped(o, h)
  BY <1>2, SplitProvenance
<1>6. Ordered(h)
  BY <1>2, SplitOrdered
<1>7. Typed(h)
  BY <1>2, SplitTyped
<1>8. Worked(o, h)
  BY <1>2, SplitWorked
<1>9. TodoInv(o, h, td \ B)
  BY <1>2, SplitTodo
<1>. QED
  BY <1>3, <1>4, <1>5, <1>6, <1>7, <1>8, <1>9 DEF GraphInv

-----------------------------------------------------------------------------
(* A graph in which nothing but placement and charges changed.               *)

(* b computes what a computes.                                               *)
Alike(a, b) ==
  /\ b.cat = a.cat /\ b.prec = a.prec /\ b.deps = a.deps /\ b.shape = a.shape
  /\ b.group = a.group /\ b.src = a.src /\ b.part = a.part
  /\ a.cat = "matmul" => BaseBytes(b) = BaseBytes(a)

(* g and h have the same ops, which read the same.                           *)
SameOps(g, h) ==
  /\ NodeGraph(h) /\ Ids(h) = Ids(g) /\ h.at = g.at
  /\ \A i \in Ids(g) : Alike(g.op[i], h.op[i])

(* Placement and charges play no part in what an op reads.                   *)
LEMMA SameReads ==
  ASSUME NEW g, Finite(g), NEW h, SameOps(g, h)
  PROVE  /\ Finite(h) /\ Plain(h) = Plain(g) /\ Real(h) = Real(g) /\ Deps(h) = Deps(g)
         /\ \A i \in Ids(g) : Values(h, i) = Values(g, i)
         /\ \A s : PartsOf(h, s) = PartsOf(g, s)
         /\ \A o : \A i \in Ids(g) : Wanted(o, h, i) = Wanted(o, g, i)
         /\ \A i : i \in Ids(g) => (IsRep(h, i) <=> IsRep(g, i))
         /\ Works(h) = Works(g)
<1>1. /\ Ids(h) = Ids(g) /\ \A i \in Ids(g) : g.op[i].deps \subseteq Ids(g)
      /\ \A i \in Ids(g) : /\ h.op[i].cat = g.op[i].cat /\ h.op[i].deps = g.op[i].deps
                           /\ h.op[i].shape = g.op[i].shape /\ h.op[i].group = g.op[i].group
                           /\ h.op[i].src = g.op[i].src /\ h.op[i].part = g.op[i].part
  BY DEF SameOps, Alike, Finite
<1>2. Finite(h) /\ Plain(h) = Plain(g) /\ Real(h) = Real(g) /\ Deps(h) = Deps(g)
  BY <1>1 DEF Finite, Plain, Real, Deps
<1>3. ASSUME NEW d \in Ids(g) PROVE Value(h, d) = Value(g, d)
  <2> DEFINE C(s) == CHOOSE p \in s : TRUE
  <2>1. Value(h, d) = IF h.op[d].cat = "convert" THEN C(h.op[d].deps) ELSE d
    BY DEF Value
  <2>2. Value(g, d) = IF g.op[d].cat = "convert" THEN C(g.op[d].deps) ELSE d
    BY DEF Value
  <2> HIDE DEF C
  <2>. QED
    BY <1>1, <1>3, <2>1, <2>2
<1>4. \A i \in Ids(g) : Values(h, i) = Values(g, i)
  BY <1>1, <1>3 DEF Values
<1>5. \A s : PartsOf(h, s) = PartsOf(g, s)
  BY <1>1, <1>2 DEF PartsOf, Plain
<1>6. \A o : \A i \in Ids(g) : Wanted(o, h, i) = Wanted(o, g, i)
  BY <1>1, <1>2 DEF Wanted, Plain
<1>7. Works(h) = Works(g)
  BY <1>1 DEF Works
<1>. QED
  BY <1>1, <1>2, <1>4, <1>5, <1>6, <1>7 DEF IsRep

(* Nor in the invariant of the graph.                                        *)
LEMMA SameOpsKeep ==
  ASSUME NEW o, NEW g, GraphInv(o, g), NEW h, SameOps(g, h)
  PROVE  GraphInv(o, h)
<1>1. /\ Listed(g) /\ Typed(g) /\ Originals(o, g) /\ Made(o, g) /\ Provenance(o, g)
      /\ Wired(o, g) /\ Grouped(o, g) /\ Ordered(g) /\ Worked(o, g) /\ Finite(g)
  BY DEF GraphInv, Listed
<1>2. /\ NodeGraph(h) /\ Ids(h) = Ids(g) /\ h.at = g.at
      /\ \A i \in Ids(g) : /\ h.op[i].cat = g.op[i].cat /\ h.op[i].deps = g.op[i].deps
                           /\ h.op[i].shape = g.op[i].shape /\ h.op[i].group = g.op[i].group
                           /\ h.op[i].src = g.op[i].src /\ h.op[i].part = g.op[i].part
                           /\ g.op[i].cat = "matmul" => BaseBytes(h.op[i]) = BaseBytes(g.op[i])
  BY DEF SameOps, Alike
<1>3. /\ Finite(h) /\ Plain(h) = Plain(g) /\ Real(h) = Real(g)
      /\ \A i \in Ids(g) : Values(h, i) = Values(g, i)
      /\ \A s : PartsOf(h, s) = PartsOf(g, s)
      /\ \A i \in Ids(g) : Wanted(o, h, i) = Wanted(o, g, i)
      /\ \A i : i \in Ids(g) => (IsRep(h, i) <=> IsRep(g, i))
      /\ Works(h) = Works(g) /\ Plain(g) \subseteq Ids(g)
  BY <1>1, SameReads DEF Plain
<1>4. Listed(h)
  BY <1>1, <1>2, <1>3 DEF Listed
<1>5. Typed(h)
  BY <1>1, <1>2 DEF Typed
<1>6. Originals(o, h)
  BY <1>1, <1>2 DEF Originals
<1>7. Made(o, h)
  BY <1>1, <1>2, <1>3 DEF Made
<1>8. Provenance(o, h)
  <2>1. \A i, j \in Plain(h) : h.op[i].src = h.op[j].src /\ h.op[i].part = h.op[j].part => i = j
    BY <1>1, <1>2, <1>3 DEF Provenance
  <2>2. \E i \in Ids(h) : \A s \in Ids(o) : s <= i
    BY <1>1, <1>2 DEF Provenance
  <2>3. \A s, t \in Ids(o) : SameBlock(o, s, t) /\ s \in Ids(h) => t \in Ids(h)
    BY <1>1, <1>2 DEF Provenance
  <2>4. ASSUME NEW s \in Ids(o) \ Ids(h), NEW t \in Ids(o), s \in Reads(o, t), ~SameBlock(o, s, t)
        PROVE  \E m \in Plain(h) : h.op[m].src = s /\ h.op[m].part = 0
    <3>1. PICK m \in Plain(g) : g.op[m].src = s /\ g.op[m].part = 0
      BY <1>1, <1>2, <2>4 DEF Provenance
    <3>. QED
      BY <1>2, <1>3, <3>1
  <2>. QED
    BY <2>1, <2>2, <2>3, <2>4 DEF Provenance
<1>9. Wired(o, h)
  <2>1. \A i \in Plain(h) :
          Values(h, i) = IF h.op[i].cat = "merge" THEN PartsOf(h, h.op[i].src) ELSE Wanted(o, h, i)
    BY <1>1, <1>2, <1>3 DEF Wired
  <2>2. \A i \in Ids(h) \ Plain(h) : \E p \in Plain(h) : h.op[i].deps = {p}
    BY <1>1, <1>2, <1>3 DEF Wired
  <2>. QED
    BY <2>1, <2>2 DEF Wired
<1>10. Grouped(o, h)
  BY <1>1, <1>2, <1>3 DEF Grouped
<1>11. Ordered(h)
  BY <1>1, <1>2, <1>3 DEF Ordered
<1>12. Worked(o, h)
  <2>1. \A s : {i \in Real(h) : h.op[i].src = s} = {i \in Real(g) : g.op[i].src = s}
    BY <1>2, <1>3 DEF Real
  <2>. QED
    BY <1>1, <1>3, <2>1 DEF Worked
<1>. QED
  BY <1>4, <1>5, <1>6, <1>7, <1>8, <1>9, <1>10, <1>11, <1>12 DEF GraphInv

(* A graph with the ops f.                                                  *)
LEMMA NewOps ==
  ASSUME NEW g, NodeGraph(g), NEW f, f = [x \in Ids(g) |-> f[x]], \A x \in Ids(g) : f[x] \in Node,
         NEW h, h = [g EXCEPT !.op = f]
  PROVE  NodeGraph(h) /\ Ids(h) = Ids(g) /\ h.at = g.at /\ h.op = f
<1>1. g \in [at : [Ids(g) -> Nat], op : [Ids(g) -> Node]]
  BY DEF NodeGraph
<1>2. h = [at |-> g.at, op |-> f] /\ DOMAIN f = Ids(g)
  BY <1>1
<1>3. f \in [Ids(g) -> Node]
  OBVIOUS
<1>4. h.at = g.at /\ h.op = f
  BY <1>2
<1>5. Ids(h) = Ids(g)
  BY <1>2, <1>4 DEF Ids
<1>. QED
  BY <1>1, <1>2, <1>3, <1>4, <1>5 DEF NodeGraph

(* A graph nothing was done to.                                             *)
LEMMA TracedGraph ==
  ASSUME NEW o, Traced(o)
  PROVE  GraphInv(o, o) /\ TodoInv(o, o, Ids(o))
<1>1. /\ Finite(o) /\ Ids(o) \subseteq Positive /\ Ids(o) # {} /\ NodeGraph(o)
      /\ \A i \in Ids(o) : TracedOp(o, i) /\ o.at[i] = i
  BY TracedOps
<1>2. \A i \in Ids(o) : /\ o.op[i].src = i /\ o.op[i].part = 0 /\ o.op[i].cat \in Traceable
                        /\ o.op[i].shape \in ShapesOf(o.op[i].cat)
                        /\ \A d \in o.op[i].deps : d \in Ids(o) /\ d < i
  BY <1>1 DEF TracedOp
<1>3. "merge" \notin Traceable /\ "convert" \notin Traceable
  BY DEF Traceable, LegalDims, FixedUnit
<1>4. Plain(o) = Ids(o) /\ Real(o) = Ids(o)
  BY <1>2, <1>3 DEF Plain, Real
<1>5. \A i \in Ids(o) : Values(o, i) = o.op[i].deps
  BY <1>1, <1>4, NoConverts
<1>6. Listed(o)
  BY <1>1 DEF Listed
<1>7. Typed(o)
  <2>1. ASSUME NEW i \in Ids(o), o.op[i].cat = "matmul"
        PROVE  BaseBytes(o.op[i]) = ShapeBytes(o.op[i].shape)
    <3>1. TracedOp(o, i) /\ o.op[i].shape \in ShapesOf("matmul")
      BY <1>1, <1>2, <2>1
    <3>2. o.op[i].shape \in Shapes
      BY <3>1 DEF ShapesOf, Shapes
    <3>3. ShapeBytes(o.op[i].shape) \in Positive
      BY <3>2, ShapeNumbers
    <3>4. CASE WeightsHeld(o.op[i])
      BY <2>1, <3>1, <3>3, <3>4 DEF TracedOp, BaseBytes, Positive
    <3>5. CASE ~WeightsHeld(o.op[i])
      BY <2>1, <3>1, <3>5 DEF TracedOp, BaseBytes
    <3>. QED
      BY <3>4, <3>5
  <2>. QED
    BY <1>2, <2>1 DEF Typed
<1>8. Originals(o, o) /\ Made(o, o)
  BY <1>2, <1>4 DEF Originals, Made
<1>9. Provenance(o, o)
  <2>1. \E i \in Ids(o) : \A s \in Ids(o) : s <= i
    <3>1. Ids(o) \in SUBSET Int /\ IsFiniteSet(Ids(o))
      BY <1>1 DEF Positive, Finite
    <3>. QED
      BY <1>1, <3>1, MaxFacts
  <2>. QED
    BY <1>2, <1>4, <2>1 DEF Provenance
<1>10. Wired(o, o)
  <2>1. \A i \in Ids(o) : Wanted(o, o, i) = o.op[i].deps
    BY <1>2, <1>4 DEF Wanted, Reads
  <2>. QED
    BY <1>2, <1>3, <1>4, <1>5, <2>1 DEF Wired
<1>11. Grouped(o, o)
  <2>1. ASSUME NEW i \in Ids(o), o.op[i].cat = "attention"
        PROVE  /\ o.op[i].group \in Ids(o) /\ IsRep(o, o.op[i].group)
               /\ SameBlock(o, o.op[i].group, i)
    BY <2>1, BmmBlocks, BlockOfTraced
  <2>. QED
    BY <1>2, <1>4, <2>1 DEF Grouped
<1>12. Ordered(o)
  BY <1>1, <1>2, <1>4, <1>5 DEF Ordered
<1>13. Worked(o, o)
  <2>1. ASSUME NEW s \in Ids(o)
        PROVE  SumOver(Works(o), {i \in Real(o) : o.op[i].src = s}) = Work(o.op[s].shape)
    <3>1. {i \in Real(o) : o.op[i].src = s} = {s}
      BY <1>2, <1>4
    <3>2. Works(o)[s] \in Int
      BY <1>1, <1>4, <1>6, WorksInt DEF Listed
    <3>3. SumOver(Works(o), {s}) = Works(o)[s] + SumOver(Works(o), {s} \ {s})
      BY <3>2, FS_Singleton, SumRemove
    <3>4. {s} \ {s} = {} /\ SumOver(Works(o), {}) = 0
      BY SumEmpty
    <3>5. SumOver(Works(o), {s}) = Works(o)[s]
      BY <3>2, <3>3, <3>4
    <3>. QED
      BY <3>1, <3>5 DEF Works
  <2>. QED
    BY <2>1 DEF Worked
<1>14. TodoInv(o, o, Ids(o))
  <2>1. ASSUME NEW t \in Ids(o) PROVE o.op[t] = [o.op[t] EXCEPT !.deps = o.op[t].deps]
    <3>1. o.op[t] \in Node
      BY <1>1 DEF NodeGraph
    <3>2. o.op[t] = [x \in NodeFields |-> o.op[t][x]]
      BY <3>1, NodeForm, Zenon
    <3>. QED
      BY <3>2 DEF NodeFields
  <2>2. \A t, d \in Ids(o) : o.op[d].src < t => o.at[d] < o.at[t]
    BY <1>1, <1>2
  <2>. QED
    BY <1>2, <1>4, <2>1, <2>2 DEF TodoInv
<1>. QED
  BY <1>6, <1>7, <1>8, <1>9, <1>10, <1>11, <1>12, <1>13, <1>14 DEF GraphInv

-----------------------------------------------------------------------------
(* The block B decided without a split.                                     *)

(* a keeps its weights in the CIM if and only if r.                          *)
Holds(a, r) == a.resident <=> r

(* b is a on unit u, pinned or not.                                         *)
OnUnit(a, b, u) ==
  /\ b \in Node /\ Alike(a, b) /\ b.unit = u
  /\ b = [a EXCEPT !.unit = u, !.resident = b.resident]

(* h is g with the ops of B on unit u, pinned or not.                        *)
Places(g, h, B, u, pinned) ==
  /\ SameOps(g, h)
  /\ \A x \in B : OnUnit(g.op[x], h.op[x], u) /\ (h.op[x].resident <=> g.op[x].resident \/ pinned)
  /\ \A x \in Ids(g) \ B : h.op[x] = g.op[x]

(* A node moved to a unit is a node on that unit.                            *)
LEMMA OnUnitNode ==
  ASSUME NEW a \in Node, NEW u \in {"cim", "gpu", "npu", "cpu", "mem"}, NEW r \in BOOLEAN,
         NEW b, b = [a EXCEPT !.unit = u, !.resident = r]
  PROVE  OnUnit(a, b, u) /\ Holds(b, r)
<1>1. a = [x \in NodeFields |-> a[x]]
  BY NodeForm, Zenon
<1>2. b \in Node
  BY DEF Node
<1>3. /\ b.cat = a.cat /\ b.prec = a.prec /\ b.deps = a.deps /\ b.shape = a.shape
      /\ b.group = a.group /\ b.src = a.src /\ b.part = a.part /\ b.unit = u
      /\ b.basis = a.basis /\ b.bytes = a.bytes /\ b = [a EXCEPT !.unit = u, !.resident = b.resident]
  BY <1>1 DEF NodeFields
<1>4. b.resident <=> r
  BY <1>1 DEF NodeFields
<1>5. BaseBytes(b) = BaseBytes(a)
  BY <1>3 DEF BaseBytes
<1>. QED
  BY <1>2, <1>3, <1>4, <1>5 DEF OnUnit, Alike, Holds

(* What Placed does: the block's ops go to the unit, the others stay.        *)
LEMMA PlacedOps ==
  ASSUME NEW o, NEW g, NEW td, NEW n, NEW B, NextBlock(o, g, td, n, B),
         NEW u \in Chips \cup {"mem"}, NEW pinned, NEW h, h = Placed(g, n, u, pinned)
  PROVE  Places(g, h, B, u, pinned)
<1>1. NodeGraph(g) /\ Block(g, n) = B /\ B \subseteq Ids(g)
  BY DecidedOps DEF NextBlock, GraphInv, Listed
<1> DEFINE f == [x \in Ids(g) |->
                  IF x \in B
                  THEN [g.op[x] EXCEPT !.unit = u, !.resident = g.op[x].resident \/ pinned]
                  ELSE g.op[x]]
<1>2. h = [g EXCEPT !.op = f]
  BY <1>1 DEF Placed
<1>3. \A x \in Ids(g) : g.op[x] \in Node
  BY <1>1 DEF NodeGraph
<1>4. ASSUME NEW x \in B
      PROVE  OnUnit(g.op[x], f[x], u) /\ (f[x].resident <=> g.op[x].resident \/ pinned)
  <2>1. f[x] = [g.op[x] EXCEPT !.unit = u, !.resident = g.op[x].resident \/ pinned]
    BY <1>1
  <2>2. (g.op[x].resident \/ pinned) \in BOOLEAN /\ g.op[x] \in Node
        /\ u \in {"cim", "gpu", "npu", "cpu", "mem"}
    BY <1>1, <1>3 DEF Chips
  <2> DEFINE r == g.op[x].resident \/ pinned
  <2> HIDE DEF f, r
  <2>3. r \in BOOLEAN /\ f[x] = [g.op[x] EXCEPT !.unit = u, !.resident = r]
    BY <2>1, <2>2 DEF r
  <2>4. OnUnit(g.op[x], f[x], u) /\ Holds(f[x], r)
    <3> DEFINE a == g.op[x]
               b == f[x]
    <3>1. a \in Node /\ u \in {"cim", "gpu", "npu", "cpu", "mem"} /\ r \in BOOLEAN
          /\ b = [a EXCEPT !.unit = u, !.resident = r]
      BY <2>2, <2>3
    <3> HIDE DEF a, b
    <3>2. OnUnit(a, b, u) /\ Holds(b, r)
      BY <3>1, OnUnitNode, Zenon
    <3>. QED
      BY <3>2 DEF a, b
  <2>. QED
    BY <2>4 DEF r, Holds
<1>5. \A x \in Ids(g) \ B : f[x] = g.op[x]
  OBVIOUS
<1>6. f = [x \in Ids(g) |-> f[x]] /\ \A x \in Ids(g) : f[x] \in Node
  <2>1. f = [x \in Ids(g) |-> f[x]]
    OBVIOUS
  <2>. HIDE DEF f
  <2>. QED
    BY <1>3, <1>4, <1>5, <2>1 DEF OnUnit
<1> HIDE DEF f
<1>7. NodeGraph(h) /\ Ids(h) = Ids(g) /\ h.at = g.at /\ h.op = f
  BY <1>1, <1>2, <1>6, NewOps
<1>8. \A x \in Ids(g) : Alike(g.op[x], h.op[x])
  <2>1. ASSUME NEW x \in B
        PROVE  Alike(g.op[x], h.op[x])
    BY <1>4, <1>7, <2>1 DEF OnUnit
  <2>2. ASSUME NEW x \in Ids(g) \ B
        PROVE  Alike(g.op[x], h.op[x])
    <3>1. h.op[x] = g.op[x]
      BY <1>5, <1>7, <2>2
    <3>. QED
      BY <3>1 DEF Alike
  <2>. QED
    BY <2>1, <2>2
<1>9. SameOps(g, h)
  BY <1>7, <1>8 DEF SameOps
<1>10. \A x \in Ids(g) \ B : h.op[x] = g.op[x]
  BY <1>5, <1>7
<1>11. \A x \in B : /\ OnUnit(g.op[x], h.op[x], u)
                     /\ (h.op[x].resident <=> g.op[x].resident \/ pinned)
  BY <1>4, <1>7
<1>. QED
  BY <1>9, <1>10, <1>11 DEF Places

(* A placement keeps the invariant of the graph and decides the block.       *)
LEMMA PlaceKeeps ==
  ASSUME NEW o, NEW g, NEW td, NEW n, NEW B, NextBlock(o, g, td, n, B),
         NEW u, NEW pinned, NEW h, Places(g, h, B, u, pinned)
  PROVE  GraphInv(o, h) /\ TodoInv(o, h, td \ B)
<1>1. GraphInv(o, h)
  BY SameOpsKeep DEF NextBlock, Places
<1>2. /\ Ids(h) = Ids(g) /\ h.at = g.at /\ Plain(h) = Plain(g) /\ Plain(g) = Ids(g)
      /\ \A x \in Ids(g) : h.op[x].src = g.op[x].src
      /\ \A x \in Ids(g) \ B : h.op[x] = g.op[x]
  <2>1. Finite(g) /\ SameOps(g, h) /\ Plain(g) = Ids(g)
    BY DEF NextBlock, Places, GraphInv, Listed, TodoInv
  <2>. QED
    BY <2>1, SameReads DEF SameOps, Alike, Places
<1>3. /\ TodoInv(o, g, td) /\ td \subseteq Ids(o) \cap Ids(g) /\ Traced(o) /\ B \subseteq td
      /\ n \in td /\ \A m \in td : n <= m
  <2>1. B \subseteq td
    BY DecidedOps
  <2>. QED
    BY <2>1 DEF NextBlock, TodoInv
<1>4. \A c \in B : \A t : (SameBlock(o, c, t) <=> t \in B) /\ (SameBlock(o, t, c) <=> t \in B)
  BY DecidedFields
<1>5. ASSUME NEW s \in Ids(o), NEW t \in Ids(o), SameBlock(o, s, t), s \in td \ B
      PROVE  t \in td \ B
  <2>1. t \in td
    BY <1>3, <1>5 DEF TodoInv
  <2>. QED
    BY <1>4, <1>5, <2>1
<1>6. ASSUME NEW s \in Ids(o) \ (td \ B) PROVE Reads(o, s) \cap (td \ B) = {}
  <2>1. CASE s \notin td
    BY <1>3, <2>1 DEF TodoInv
  <2>2. CASE s \in B
    <3>. SUFFICES ASSUME NEW d \in Reads(o, s), d \in td, d \notin B PROVE FALSE
      OBVIOUS
    <3>1. d < n
      BY <1>3, <2>2, DecidedFields
    <3>2. n <= d
      BY <1>3
    <3>3. n \in Nat /\ d \in Nat
      BY <1>3, TracedOps DEF Positive
    <3>. QED
      BY <3>1, <3>2, <3>3
  <2>. QED
    BY <1>6, <2>1, <2>2
<1>7. \A t \in td \ B : h.op[t] = [o.op[t] EXCEPT !.deps = h.op[t].deps]
  BY <1>2, <1>3 DEF TodoInv
<1>8. \A t \in td \ B : \A d \in Ids(h) : h.op[d].src < t => h.at[d] < h.at[t]
  BY <1>2, <1>3 DEF TodoInv
<1>9. td \ B \subseteq Ids(o) \cap Ids(h) /\ Plain(h) = Ids(h)
  BY <1>2, <1>3
<1>. QED
  BY <1>1, <1>5, <1>6, <1>7, <1>8, <1>9 DEF TodoInv

-----------------------------------------------------------------------------
(* The plans the solver is offered.                                         *)

(* cols of the N columns go to the CIM first, as it keeps its weights.       *)
Pins(plan, cols, N) ==
  /\ plan.dim = "N" /\ plan.units[1] = "cim" /\ Len(plan.units) >= 2 /\ cols \in 1..(N - 1)
  /\ \E den \in Positive : plan.num[1] = cols * den /\ plan.den = N * den

(* A split among units; one that keeps weights in the CIM does so by pins.   *)
SplitPlan(plan, dims, units, pins) ==
  /\ plan.dim \in dims
  /\ PlanOf(plan, Len(plan.units))
  /\ \A i \in 1..Len(plan.units) : plan.units[i] \in units
  /\ plan.resident => pins

(* The fields of a plan.                                                     *)
LEMMA PlanRecord ==
  ASSUME NEW dim, NEW us, NEW num, NEW den, NEW r,
         NEW plan, plan = [dim |-> dim, units |-> us, num |-> num, den |-> den, resident |-> r]
  PROVE  plan.dim = dim /\ plan.units = us /\ plan.num = num /\ plan.den = den
OBVIOUS

(* A function on 1..k is a sequence of k.                                   *)
LEMMA LengthOf ==
  ASSUME NEW k \in Nat, NEW T, NEW s \in [1..k -> T]
  PROVE  Len(s) = k /\ s \in Seq(T) /\ DOMAIN s = 1..k
OBVIOUS

(* The plans on the grid of fractions are splits in two parts or more.       *)
LEMMA GridSplits ==
  ASSUME NEW units \in SUBSET Chips, NEW owner, NEW dim, NEW plan \in GridPlans(units, owner, dim)
  PROVE  /\ SplitPlan(plan, {dim}, units, FALSE)
         /\ plan.den = Grid /\ Len(plan.units) \in Nat /\ Len(plan.units) >= 2
         /\ plan.units \in [1..Len(plan.units) -> units]
         /\ plan.num \in [1..Len(plan.units) -> Positive]
<1>1. PICK S \in SUBSET units :
        \E s \in HostLast(S, owner), c \in Compositions(Cardinality(S)) :
          /\ Cardinality(S) >= 2
          /\ plan = [dim |-> dim, units |-> s, num |-> c, den |-> Grid, resident |-> FALSE]
  BY DEF GridPlans
<1>0. PICK s \in HostLast(S, owner), c \in Compositions(Cardinality(S)) :
        /\ Cardinality(S) >= 2
        /\ plan = [dim |-> dim, units |-> s, num |-> c, den |-> Grid, resident |-> FALSE]
  BY <1>1
<1>2. IsFiniteSet(S) /\ Cardinality(S) \in Nat
  <2>1. IsFiniteSet({"cim", "gpu", "npu", "cpu"})
    <3> DEFINE P == {"cim"} \cup {"gpu"}
               R == {"npu"} \cup {"cpu"}
    <3>0. IsFiniteSet({"cim"}) /\ IsFiniteSet({"gpu"}) /\ IsFiniteSet({"npu"}) /\ IsFiniteSet({"cpu"})
      BY FS_Singleton
    <3>2. IsFiniteSet(P) /\ IsFiniteSet(R)
      BY <3>0, FS_Union
    <3>3. {"cim", "gpu", "npu", "cpu"} = P \cup R
      OBVIOUS
    <3> HIDE DEF P, R
    <3>4. IsFiniteSet(P \cup R)
      BY <3>2, FS_Union
    <3>. QED
      BY <3>3, <3>4
  <2>. QED
    BY <2>1, FS_Subset, FS_CardinalityType DEF Chips
<1> DEFINE k == Cardinality(S)
<1>3. s \in [1..k -> S] /\ c \in [1..k -> 1..Grid]
  BY DEF HostLast, Compositions
<1>4. Grid \in Positive
  BY GridAssumption DEF Positive
<1> HIDE DEF k
<1>5. /\ plan.dim = dim /\ plan.units = s /\ plan.num = c /\ plan.den = Grid
  BY <1>0, PlanRecord
<1>6. k \in Nat /\ k >= 2
  BY <1>0, <1>2 DEF k
<1>7. Len(s) = k /\ Len(c) = k
  BY <1>3, <1>6, LengthOf
<1>8. c \in [1..k -> Positive] /\ c \in [1..k -> Nat] /\ s \in [1..k -> units]
  BY <1>3, <1>4 DEF Positive
<1>9. PlanOf(plan, k)
  BY <1>4, <1>5, <1>6, <1>7, <1>8 DEF PlanOf, Positive
<1>10. ~plan.resident
  BY <1>0
<1>. QED
  BY <1>5, <1>6, <1>7, <1>8, <1>9, <1>10 DEF SplitPlan

(* w is a sequence of k + 1 members of T, the first of them x.               *)
Starts(w, x, k, T) == w \in [1..(k + 1) -> T] /\ Len(w) = k + 1 /\ w[1] = x

(* One thing before a list of k.                                            *)
LEMMA Prefixed ==
  ASSUME NEW k \in Nat, NEW T, NEW x \in T, NEW s \in [1..k -> T], NEW w, w = <<x>> \o s
  PROVE  Starts(w, x, k, T)
<1>1. Len(s) = k /\ s \in Seq(T) /\ <<x>> \in Seq(T) /\ Len(<<x>>) = 1 /\ <<x>>[1] = x
  BY LengthOf
<1> DEFINE t == <<x>>
<1> HIDE DEF t
<1>2. /\ t \in Seq(T) /\ Len(t) = 1 /\ t[1] = x
  BY <1>1 DEF t
<1>8. w = t \o s
  BY DEF t
<1>6. /\ w \in Seq(T) /\ Len(w) = Len(t) + Len(s)
      /\ \A i \in 1..(Len(t) + Len(s)) : w[i] = IF i <= Len(t) THEN t[i] ELSE s[i - Len(t)]
  BY <1>1, <1>2, <1>8, ConcatProperties
<1>7. Len(t) + Len(s) = k + 1
  BY <1>1, <1>2
<1>3. /\ Len(w) = k + 1 /\ w \in Seq(T)
      /\ \A i \in 1..(k + 1) : w[i] = IF i <= 1 THEN t[i] ELSE s[i - 1]
  BY <1>2, <1>6, <1>7
<1>4. w \in [1..(k + 1) -> T]
  <2>1. w \in [1..Len(w) -> T]
    BY <1>3, LenProperties
  <2>. QED
    BY <1>3, <2>1
<1>5. w[1] = x /\ \A i \in 2..(k + 1) : w[i] = s[i - 1]
  BY <1>2, <1>3
<1>. QED
  BY <1>3, <1>4, <1>5 DEF Starts

(* A split of the columns that gives the CIM cols of N.                      *)
CapacityPlan(plan, units, cols, N, r) == SplitPlan(plan, {"N"}, units, r /\ Pins(plan, cols, N))

(* A plan that starts with the columns the CIM holds pins those.             *)
LEMMA CapacitySplit ==
  ASSUME NEW cols \in Nat, NEW N \in Positive, cols < N, 0 < cols, NEW k \in Positive,
         NEW units, NEW rest \in [1..k -> units \cap Chips], NEW num \in [1..k -> Nat],
         "cim" \in units, NEW den \in Positive, NEW r,
         NEW plan, plan = [dim |-> "N", units |-> <<"cim">> \o rest, num |-> <<cols * den>> \o num,
                           den |-> N * den, resident |-> r]
  PROVE  CapacityPlan(plan, units, cols, N, r)
<1>1. /\ plan.dim = "N" /\ plan.units = <<"cim">> \o rest /\ plan.num = <<cols * den>> \o num
      /\ plan.den = N * den
  BY PlanRecord
<1>2. plan.resident => r
  OBVIOUS
<1>3. N * den \in Positive /\ cols * den \in Nat /\ k \in Nat
  BY ProductPositive DEF Positive
<1>4. /\ plan.units \in [1..(k + 1) -> units \cap Chips] /\ Len(plan.units) = k + 1
      /\ plan.units[1] = "cim"
  <2>1. "cim" \in units \cap Chips
    BY DEF Chips
  <2> DEFINE T == units \cap Chips
  <2>2. "cim" \in T /\ rest \in [1..k -> T]
    BY <2>1
  <2> HIDE DEF T
  <2> DEFINE w == plan.units
  <2>3. w = <<"cim">> \o rest
    BY <1>1
  <2> HIDE DEF w
  <2>4. Starts(w, "cim", k, T)
    BY <1>3, <2>2, <2>3, Prefixed
  <2>. QED
    BY <2>4 DEF T, w, Starts
<1>5. /\ plan.num \in [1..(k + 1) -> Nat] /\ Len(plan.num) = k + 1 /\ plan.num[1] = cols * den
  <2> DEFINE x == cols * den
  <2>1. x \in Nat
    BY <1>3
  <2> HIDE DEF x
  <2> DEFINE w == plan.num
  <2>3. w = <<x>> \o num
    BY <1>1 DEF x
  <2> HIDE DEF w
  <2>4. Starts(w, x, k, Nat)
    BY <1>3, <2>1, <2>3, Prefixed
  <2>. QED
    BY <2>4 DEF x, w, Starts
<1>6. PlanOf(plan, k + 1)
  <2>1. \A i \in 1..(k + 1) : plan.units[i] \in Chips
    BY <1>4
  <2>2. k + 1 \in Positive /\ plan.den \in Positive
    BY <1>1, <1>3 DEF Positive
  <2>. QED
    BY <1>4, <1>5, <2>1, <2>2 DEF PlanOf
<1>7. Pins(plan, cols, N)
  <2>1. Len(plan.units) >= 2 /\ cols \in 1..(N - 1)
    BY <1>4 DEF Positive
  <2>2. \E d \in Positive : plan.num[1] = cols * d /\ plan.den = N * d
    BY <1>1, <1>5
  <2>. QED
    BY <1>1, <1>4, <2>1, <2>2 DEF Pins
<1>8. \A i \in 1..Len(plan.units) : plan.units[i] \in units
  BY <1>4
<1>. QED
  BY <1>1, <1>2, <1>4, <1>6, <1>7, <1>8 DEF SplitPlan, CapacityPlan

(* One unit for all of a block; one that keeps weights there is the CIM.     *)
WholePlan(plan, units, pins) ==
  /\ plan.dim = NoDim /\ DOMAIN plan.units = {1} /\ plan.units[1] \in units
  /\ plan.resident => plan.units[1] = "cim" /\ pins

(* A whole op on one unit, pinned only in the CIM.                           *)
LEMMA WholeOf ==
  ASSUME NEW units, NEW u \in units, NEW r, NEW plan, plan = Whole(u, r), r => u = "cim"
  PROVE  WholePlan(plan, units, r)
<1>1. plan.dim = NoDim /\ plan.units = <<u>> /\ DOMAIN <<u>> = {1}
  BY PlanRecord DEF Whole
<1>2. plan.resident => r
  BY DEF Whole
<1>. QED
  BY <1>1, <1>2 DEF WholePlan

(* The capacity plans are whole ops or splits that pin the columns of the    *)
(* CIM.                                                                      *)
LEMMA CapacitySplits ==
  ASSUME NEW units \in SUBSET Chips, "cim" \in units, NEW owner, NEW N \in Positive,
         NEW cols \in Nat, cols <= N, NEW r,
         NEW plan \in CapacityPlans(units, owner, cols, N, r)
  PROVE  \/ WholePlan(plan, units, r /\ cols = N)
         \/ CapacityPlan(plan, units, cols, N, r)
<1> DEFINE others == units \ {"cim"}
<1>1. cols # 0
  BY DEF CapacityPlans
<1>2. CASE cols = N
  <2>1. r /\ plan = Whole("cim", TRUE)
    BY <1>1, <1>2 DEF CapacityPlans
  <2>2. WholePlan(plan, units, TRUE)
    BY <2>1, WholeOf
  <2>. QED
    BY <1>2, <2>1, <2>2 DEF WholePlan
<1>3. CASE cols # N
  <2>1. 0 < cols /\ cols < N /\ N - cols \in Nat
    BY <1>1, <1>3 DEF Positive
  <2>2. CASE \E u \in others : plan = [dim |-> "N", units |-> <<"cim">> \o <<u>>,
                                       num |-> <<cols * 1>> \o <<N - cols>>, den |-> N * 1,
                                       resident |-> r]
    <3>1. PICK u \in others : plan = [dim |-> "N", units |-> <<"cim">> \o <<u>>,
                                      num |-> <<cols * 1>> \o <<N - cols>>, den |-> N * 1,
                                      resident |-> r]
      BY <2>2
    <3>2. <<u>> \in [1..1 -> units \cap Chips] /\ <<N - cols>> \in [1..1 -> Nat] /\ 1 \in Positive
      BY <2>1 DEF Positive
    <3>3. CapacityPlan(plan, units, cols, N, r)
      BY <2>1, <3>1, <3>2, CapacitySplit
    <3>. QED
      BY <3>3
  <2>3. CASE \E p \in GridPlans(others, owner, "N") :
               plan = [dim |-> "N", units |-> <<"cim">> \o p.units,
                       num |-> <<cols * Grid>> \o [i \in DOMAIN p.num |-> p.num[i] * (N - cols)],
                       den |-> N * Grid, resident |-> r]
    <3>1. PICK p \in GridPlans(others, owner, "N") :
               plan = [dim |-> "N", units |-> <<"cim">> \o p.units,
                       num |-> <<cols * Grid>> \o [i \in DOMAIN p.num |-> p.num[i] * (N - cols)],
                       den |-> N * Grid, resident |-> r]
      BY <2>3
    <3>2. others \in SUBSET Chips
      OBVIOUS
    <3> DEFINE k == Len(p.units)
               num == [i \in DOMAIN p.num |-> p.num[i] * (N - cols)]
    <3>3. k \in Positive /\ p.units \in [1..k -> others] /\ p.num \in [1..k -> Positive]
      <4> HIDE DEF others
      <4>. QED
        <5>1. p \in GridPlans(others, owner, "N")
          BY <3>1
        <5>2. SplitPlan(p, {"N"}, others, FALSE) /\ k \in Nat /\ k >= 2
              /\ p.units \in [1..k -> others] /\ p.num \in [1..k -> Positive]
          BY <3>2, <5>1, GridSplits
        <5>. QED
          BY <5>2 DEF Positive
    <3> HIDE DEF k
    <3>4. num \in [1..k -> Nat]
      <4>1. \A i \in 1..k : p.num[i] * (N - cols) \in Nat
        <5>. TAKE i \in 1..k
        <5>1. p.num[i] \in Positive
          BY <3>3
        <5>. QED
          BY <2>1, <5>1 DEF Positive
      <4>. QED
        BY <3>3, <4>1
    <3>5. p.units \in [1..k -> units \cap Chips] /\ Grid \in Positive
      BY <3>3, GridAssumption DEF Positive
    <3>6. plan = [dim |-> "N", units |-> <<"cim">> \o p.units, num |-> <<cols * Grid>> \o num,
                  den |-> N * Grid, resident |-> r]
      BY <3>1
    <3> HIDE DEF num
    <3>7. CapacityPlan(plan, units, cols, N, r)
      BY <2>1, <3>3, <3>4, <3>5, <3>6, CapacitySplit
    <3>. QED
      BY <3>7
  <2>. QED
    BY <1>1, <1>3, <2>2, <2>3 DEF CapacityPlans
<1>. QED
  BY <1>2, <1>3

(* The chunked plans are splits of the rows.                                 *)
LEMMA ChunkSplits ==
  ASSUME NEW units \in SUBSET Chips, NEW M \in Positive, NEW plan \in ChunkPlans(units, M)
  PROVE  SplitPlan(plan, {"M"}, units, FALSE)
<1>1. PICK a \in units, b \in units, s \in StdLengths : s < M /\ plan = Chunked(a, b, s, M)
  <2>1. PICK a \in StaticUnits \cap units :
          plan \in {Chunked(a, b, s, M) : b \in units \ {a}, s \in {l \in StdLengths : l < M /\ M % l # 0}}
    BY DEF ChunkPlans
  <2>. QED
    BY <2>1
<1> DEFINE k == M \div s + 1
           us == [i \in 1..k |-> IF i <= M \div s THEN a ELSE b]
           num == [i \in 1..k |-> IF i <= M \div s THEN s ELSE M % s]
<1>2. s \in Positive /\ M \in Nat
  BY GridAssumption DEF Positive
<1>3. M \div s \in Nat /\ M % s \in Nat
  <2>1. M \div s \in Int
    BY <1>2 DEF Positive
  <2>2. 0 * s <= M
    BY <1>2 DEF Positive
  <2>3. 0 <= M \div s
    BY <1>2, <2>2, DivGreatest DEF Positive
  <2>. QED
    BY <1>2, <2>1, <2>3 DEF Positive
<1>4. k \in Positive /\ k \in Nat
  BY <1>3 DEF Positive
<1>5. plan.dim = "M" /\ plan.units = us /\ plan.num = num /\ plan.den = M /\ ~plan.resident
  BY <1>1 DEF Chunked
<1>6. us \in [1..k -> units] /\ num \in [1..k -> Nat]
  <2> HIDE DEF k
  <2>. QED
    BY <1>2, <1>3 DEF Positive
<1> HIDE DEF us, num, k
<1>7. Len(us) = k /\ Len(num) = k
  BY <1>4, <1>6, LengthOf
<1>8. \A i \in 1..k : us[i] \in units /\ us[i] \in Chips
  BY <1>6
<1>9. PlanOf(plan, k)
  BY <1>4, <1>5, <1>6, <1>7, <1>8 DEF PlanOf
<1>. QED
  BY <1>5, <1>7, <1>8, <1>9 DEF SplitPlan

(* A split plan for fewer axes and more pins is one for more axes and fewer  *)
(* pins.                                                                     *)
LEMMA SplitPlanMore ==
  ASSUME NEW plan, NEW dims, NEW units, NEW pins, SplitPlan(plan, dims, units, pins),
         NEW wider, dims \subseteq wider, NEW weaker, pins => weaker
  PROVE  SplitPlan(plan, wider, units, weaker)
BY DEF SplitPlan

(* A weight kept in the CIM is one of cols columns, in decode.              *)
Keeps(o, n, decode) == decode /\ o.op[n].cat = "matmul"

(* What the solver is offered for n.                                        *)
Choice(o, n, plan, units, cols, decode) ==
  \/ WholePlan(plan, units, Keeps(o, n, decode) /\ cols = o.op[n].shape.N)
  \/ /\ plan.dim # NoDim /\ AxisOf(o.op[n].shape, plan.dim)
     /\ SplitPlan(plan, LegalDims[o.op[n].cat], units,
                  Keeps(o, n, decode) /\ Pins(plan, cols, o.op[n].shape.N))

(* An op has each axis it can legally be split on.                           *)
LEMMA SplitAxis ==
  ASSUME NEW o, Traced(o), NEW n, IsFirst(o, n), o.op[n].cat \in DOMAIN LegalDims,
         NEW dim \in LegalDims[o.op[n].cat]
  PROVE  AxisOf(o.op[n].shape, dim) /\ dim # NoDim
<1>1. n \in Ids(o) /\ o.op[n].shape \in ShapesOf(o.op[n].cat) /\ TracedOp(o, n)
  BY TracedOps DEF IsFirst, TracedOp
<1>2. ASSUME o.op[n].cat = "elementwise" PROVE "rows" \in DOMAIN o.op[n].shape
  <2>. SUFFICES ASSUME "rows" \notin DOMAIN o.op[n].shape PROVE FALSE
    OBVIOUS
  <2>1. PICK r \in Reps(o) : n \in Block(o, r)
    BY <1>1, <1>2 DEF TracedOp
  <2>2. r \in Ids(o) /\ IsRep(o, r)
    BY DEF Reps
  <2>3. SameBlock(o, n, r) /\ r <= n
    BY <2>1, <2>2, BlockOfTraced, BlockAbove
  <2>4. n <= r
    BY <2>2, <2>3 DEF IsFirst
  <2>5. n \in Nat /\ r \in Nat
    BY <1>1, <2>2, TracedOps DEF Positive
  <2>. QED
    BY <1>2, <2>2, <2>3, <2>4, <2>5 DEF IsRep
<1>3. NoDim \notin LegalDims[o.op[n].cat]
  BY UnitsAssumption
<1>. QED
  BY <1>1, <1>2, <1>3, LegalAxis

(* Every plan the solver is offered is a whole op on a unit or a split of    *)
(* one of the op's axes.                                                     *)
LEMMA OfferedPlans ==
  ASSUME NEW o, Traced(o), NEW n, IsFirst(o, n), o.op[n].cat \in DOMAIN LegalDims,
         NEW units \in SUBSET Chips, NEW owner, NEW cols \in Nat,
         o.op[n].cat = "matmul" => cols <= o.op[n].shape.N, NEW decode,
         NEW plan \in Offered(o, n, units, owner, cols, decode)
  PROVE  Choice(o, n, plan, units, cols, decode)
<1> DEFINE me == o.op[n]
           dims == LegalDims[me.cat]
<1>1. ASSUME NEW pins, pins => Keeps(o, n, decode) /\ Pins(plan, cols, me.shape.N),
             NEW some, some \subseteq dims, SplitPlan(plan, some, units, pins)
      PROVE  Choice(o, n, plan, units, cols, decode)
  <2>1. SplitPlan(plan, dims, units, Keeps(o, n, decode) /\ Pins(plan, cols, me.shape.N))
    <3> DEFINE weaker == Keeps(o, n, decode) /\ Pins(plan, cols, me.shape.N)
    <3>1. pins => weaker
      BY <1>1
    <3> HIDE DEF weaker, dims
    <3>2. SplitPlan(plan, dims, units, weaker)
      BY <1>1, <3>1, SplitPlanMore
    <3>. QED
      BY <3>2 DEF weaker
  <2>2. plan.dim \in dims
    BY <2>1 DEF SplitPlan
  <2>3. AxisOf(me.shape, plan.dim) /\ plan.dim # NoDim
    BY <2>2, SplitAxis
  <2>. QED
    BY <2>1, <2>3 DEF Choice
<1>2. me.cat = "matmul" => me.shape \in MatmulShapes
  BY TracedOps DEF TracedOp, ShapesOf, IsFirst
<1>3. CASE \E u \in units : plan = Whole(u, FALSE)
  <2>1. WholePlan(plan, units, FALSE)
    BY <1>3, WholeOf
  <2>. QED
    BY <2>1 DEF WholePlan, Choice
<1>4. CASE /\ me.cat = "matmul" /\ "cim" \in units
           /\ plan \in CapacityPlans(units, owner, cols, me.shape.N, decode)
  <2>1. me.shape.N \in Positive
    BY <1>2, <1>4 DEF MatmulShapes
  <2>2. \/ WholePlan(plan, units, decode /\ cols = me.shape.N)
        \/ CapacityPlan(plan, units, cols, me.shape.N, decode)
    BY <1>4, <2>1, CapacitySplits
  <2>3. CASE WholePlan(plan, units, decode /\ cols = me.shape.N)
    BY <1>4, <2>3 DEF WholePlan, Choice, Keeps
  <2>4. CASE CapacityPlan(plan, units, cols, me.shape.N, decode)
    <3>1. SplitPlan(plan, {"N"}, units, decode /\ Pins(plan, cols, me.shape.N))
      BY <2>4 DEF CapacityPlan
    <3>2. {"N"} \subseteq dims
      BY <1>4 DEF LegalDims
    <3> DEFINE pins == decode /\ Pins(plan, cols, me.shape.N)
    <3>3. pins => Keeps(o, n, decode) /\ Pins(plan, cols, me.shape.N)
      BY <1>4 DEF Keeps
    <3> HIDE DEF pins, dims, me
    <3>4. SplitPlan(plan, {"N"}, units, pins)
      BY <3>1 DEF pins
    <3>. QED
      BY <1>1, <3>2, <3>3, <3>4
  <2>. QED
    BY <2>2, <2>3, <2>4
<1>5. CASE me.cat = "matmul" /\ plan \in ChunkPlans(units, me.shape.M)
  <2>1. me.shape.M \in Positive
    BY <1>2, <1>5 DEF MatmulShapes
  <2>2. SplitPlan(plan, {"M"}, units, FALSE)
    BY <1>5, <2>1, ChunkSplits
  <2>3. {"M"} \subseteq dims
    BY <1>5 DEF LegalDims
  <2>. QED
    BY <1>1, <2>2, <2>3
<1>6. CASE \E d \in OfferedDims(o, n) : plan \in GridPlans(units, owner, d)
  <2>1. PICK d \in OfferedDims(o, n) : plan \in GridPlans(units, owner, d)
    BY <1>6
  <2>2. SplitPlan(plan, {d}, units, FALSE)
    BY <2>1, GridSplits
  <2>3. {d} \subseteq dims
    BY DEF OfferedDims
  <2>. QED
    BY <1>1, <2>2, <2>3
<1>7. \/ \E u \in units : plan = Whole(u, FALSE)
      \/ /\ me.cat = "matmul" /\ "cim" \in units
         /\ plan \in CapacityPlans(units, owner, cols, me.shape.N, decode)
      \/ me.cat = "matmul" /\ plan \in ChunkPlans(units, me.shape.M)
      \/ \E d \in OfferedDims(o, n) : plan \in GridPlans(units, owner, d)
  <2> DEFINE capacity == IF me.cat = "matmul" /\ "cim" \in units
                         THEN CapacityPlans(units, owner, cols, me.shape.N, decode) ELSE {}
             chunked == IF me.cat = "matmul" THEN ChunkPlans(units, me.shape.M) ELSE {}
             gridded == UNION {GridPlans(units, owner, d) : d \in OfferedDims(o, n)}
  <2>1. plan \in {Whole(u, FALSE) : u \in units} \cup capacity
                  \cup (IF Cardinality(units) < 2 THEN {} ELSE chunked \cup gridded)
    BY DEF Offered
  <2>2. \/ plan \in {Whole(u, FALSE) : u \in units}
        \/ plan \in capacity \/ plan \in chunked \/ plan \in gridded
    <3> HIDE DEF capacity, chunked, gridded
    <3>. QED
      BY <2>1
  <2>3. plan \in gridded => \E d \in OfferedDims(o, n) : plan \in GridPlans(units, owner, d)
    OBVIOUS
  <2>. QED
    BY <2>2, <2>3
<1>. QED
  BY <1>3, <1>4, <1>5, <1>6, <1>7

-----------------------------------------------------------------------------
(* What is kept in the CIM.                                                 *)

(* A multiple of m.                                                         *)
LEMMA Multiple ==
  ASSUME NEW a \in Int, NEW m \in Positive
  PROVE  /\ a % m = 0 => a = (a \div m) * m
         /\ \A c \in Int : a = c * m => a \div m = c /\ a % m = 0
<1>1. /\ a \div m \in Int /\ a % m \in 0..(m - 1) /\ a = m * (a \div m) + (a % m)
  BY DEF Positive
<1>2. a % m = 0 => a = (a \div m) * m
  BY <1>1 DEF Positive
<1>3. ASSUME NEW c \in Int, a = c * m PROVE a \div m = c /\ a % m = 0
  <2>1. m \in Nat /\ m > 0
    BY DEF Positive
  <2>2. c <= a \div m
    <3>1. c * m <= a
      BY <1>3, <2>1
    <3>. QED
      BY <2>1, <3>1, DivGreatest
  <2>3. (a \div m) <= c
    <3>1. (a \div m) * m <= a
      BY <2>1, DivFacts
    <3>2. (a \div m) * m < c * m + m
      <4>1. (a \div m) * m \in Int /\ c * m \in Int
        BY <1>1, <2>1
      <4>. QED
        BY <1>3, <2>1, <3>1, <4>1
    <3>. QED
      BY <1>1, <2>1, <3>2, DivBelow
  <2>4. a \div m = c
    BY <1>1, <2>2, <2>3
  <2>5. a = m * c + (a % m)
    BY <1>1, <2>4
  <2>6. m * c = c * m /\ m * c \in Int
    BY <2>1
  <2>. QED
    BY <1>1, <1>3, <2>4, <2>5, <2>6
<1>. QED
  BY <1>2, <1>3

(* The CIM part of a capacity plan is as wide as planned: its columns are a  *)
(* multiple of the quantum already.                                          *)
LEMMA PinnedSize ==
  ASSUME NEW plan, NEW N \in Positive, NEW cols, Pins(plan, cols, N),
         PlanOf(plan, Len(plan.units)), cols % AlignOf(plan, 1) = 0
  PROVE  Sizes(plan, N)[1] = cols
<1> DEFINE q == AlignOf(plan, 1)
           k == Len(plan.units)
<1>1. q \in Positive /\ cols \in Nat /\ k \in Nat /\ k >= 2 /\ N \in Int
  BY AlignPositive DEF Pins, PlanOf, Positive
<1>2. PICK den \in Positive : plan.num[1] = cols * den /\ plan.den = N * den
  BY DEF Pins
<1>3. Sizes(plan, N)[1] = RoundDiv(plan.num[1] * N, plan.den * q) * q
  <2>1. PlanOf(plan, k)
    OBVIOUS
  <2>0. 1 # k /\ 1 \in 1..k
    <3>. HIDE DEF k
    <3>. QED
      BY <1>1
  <2>. HIDE DEF k
  <2>2. \A i \in 1..k : i # k =>
          Sizes(plan, N)[i] =
            RoundDiv(plan.num[i] * N, plan.den * AlignOf(plan, i)) * AlignOf(plan, i)
    BY <1>1, <2>1, SizesFacts
  <2>. QED
    BY <2>0, <2>2
<1> HIDE DEF q, k
<1>4. cols = (cols \div q) * q /\ cols \div q \in Int
  <2>1. cols % q = 0
    BY DEF q
  <2>. QED
    BY <1>1, <2>1, Multiple DEF Positive
<1> DEFINE c == cols \div q
           b == (N * den) * q
           a == (cols * den) * N
<1>5. b \in Positive
  BY <1>1, ProductPositive
<1>6. a = c * b /\ a \in Int /\ c \in Int
  <2>1. cols = c * q /\ c \in Int
    BY <1>4
  <2> HIDE DEF c
  <2>2. a = ((c * q) * den) * N
    BY <2>1
  <2>3. ((c * q) * den) * N = c * ((N * den) * q) /\ ((c * q) * den) * N \in Int
    BY <1>1, <2>1 DEF Positive
  <2>. QED
    BY <2>1, <2>2, <2>3
<1>7. Sizes(plan, N)[1] = RoundDiv(a, b) * q
  BY <1>2, <1>3
<1> HIDE DEF a, b, c
<1>8. a \div b = c /\ a % b = 0
  BY <1>5, <1>6, Multiple
<1>9. RoundDiv(a, b) = c
  <2>1. 2 * 0 < b
    BY <1>5 DEF Positive
  <2>. QED
    BY <1>8, <2>1 DEF RoundDiv
<1>. QED
  BY <1>4, <1>7, <1>9 DEF c

(* The columns of a matmul of o offered in decode are what it was allotted.  *)
LEMMA AllottedCols ==
  ASSUME NEW o \in Graphs, NEW a \in Allots, NEW n \in Ids(o), o.op[n].cat = "matmul",
         NEW K, NEW N \in Positive, N = o.op[n].shape.N,
         NEW cols, cols = CimCols(a, n, K, N)
  PROVE  /\ cols \in 0..N
         /\ cols # 0 => n \in DOMAIN a /\ cols = a[n]
         /\ cols # N => cols % CimAlign = 0
<1>0. CimAlign \in Positive
  BY CimAssumption DEF Positive
<1>1. CASE n \notin DOMAIN a
  <2>1. cols = (0 \div CimAlign) * CimAlign
    BY <1>1 DEF CimCols, Positive
  <2>2. 0 \div CimAlign = 0 /\ 0 % CimAlign = 0
    BY <1>0, Multiple DEF Positive
  <2>. QED
    BY <1>0, <2>1, <2>2 DEF Positive
<1>2. CASE n \in DOMAIN a
  <2>1. a[n] \in 1..N /\ (a[n] = N \/ a[n] % CimAlign = 0)
    BY <1>2, AllotsAssumption
  <2>2. cols = IF a[n] >= N THEN N ELSE (a[n] \div CimAlign) * CimAlign
    BY <1>2 DEF CimCols
  <2>3. CASE a[n] = N
    BY <1>2, <2>1, <2>2, <2>3 DEF Positive
  <2>4. CASE a[n] # N
    <3>1. ~(a[n] >= N) /\ a[n] \in Int
      BY <2>1, <2>4 DEF Positive
    <3>2. a[n] = (a[n] \div CimAlign) * CimAlign
      BY <1>0, <2>1, <2>4, <3>1, Multiple
    <3>. QED
      BY <1>2, <2>1, <2>2, <2>4, <3>1, <3>2 DEF Positive
  <2>. QED
    BY <2>3, <2>4
<1>. QED
  BY <1>1, <1>2

(* The CIM never holds more columns than a weight has.                       *)
LEMMA ColumnsBounded ==
  ASSUME NEW K \in Positive, NEW N \in Positive, NEW cols, cols = CimColsUpToCap(K, N)
  PROVE  cols \in Nat /\ cols <= N
<1> DEFINE most == CimCap \div K
<1>1. most \in Nat
  <2>1. CimCap \in Nat /\ K \in Nat /\ K > 0 /\ 0 * K <= CimCap
    BY CimAssumption DEF Positive
  <2>2. most \in Int /\ 0 <= most
    BY <2>1, DivFacts, DivGreatest
  <2>. QED
    BY <2>2
<1>2. cols = IF most >= N THEN N ELSE (most \div CimAlign) * CimAlign
  BY DEF CimColsUpToCap, CimCols
<1> HIDE DEF most
<1>3. /\ most \div CimAlign \in Int /\ (most \div CimAlign) * CimAlign <= most
      /\ 0 <= most \div CimAlign
  <2>1. CimAlign \in Nat /\ CimAlign > 0 /\ 0 * CimAlign <= most
    BY <1>1, CimAssumption
  <2>. QED
    BY <1>1, <2>1, DivFacts, DivGreatest
<1>4. (most \div CimAlign) * CimAlign \in Nat
  BY <1>3, CimAssumption
<1>. QED
  BY <1>1, <1>2, <1>3, <1>4 DEF Positive

-----------------------------------------------------------------------------
(* Where the ops of g are, when those of td are left to be decided.          *)

(* What an op of the category cat made of the traced op s is priced as;      *)
PricedAs(cat, s) == IF cat = "elementwise" /\ s \in ScaleMask THEN "attention" ELSE cat

(* a unit that supports the category supports that.                          *)
LEMMA PricedAsFacts ==
  /\ \A n : PricedCat(n) = PricedAs(n.cat, n.src)
  /\ \A u \in DOMAIN Supported : \A cat, s : cat \in Supported[u] => PricedAs(cat, s) \in Supported[u]
  /\ \A cat, s : cat # "elementwise" => PricedAs(cat, s) = cat
  /\ \A cat, s : PricedAs(cat, s) \in {cat, "attention"}
<1>1. \A u \in DOMAIN Supported : "elementwise" \in Supported[u] => "attention" \in Supported[u]
  BY DEF Supported, Compute, Anywhere
<1>. QED
  BY <1>1 DEF PricedCat, IsScale, PricedAs

(* Every decided op is on a unit that supports it,                           *)
Runs(g, td) ==
  \A i \in Plain(g) : g.op[i].src \notin td =>
    /\ g.op[i].unit \in DOMAIN Supported
    /\ PricedAs(g.op[i].cat, g.op[i].src) \in Supported[g.op[i].unit]

(* and the bmms of an attention part on one unit.                            *)
Together(g) ==
  \A i \in Plain(g) : g.op[i].cat = "attention" => g.op[g.op[i].group].unit = g.op[i].unit

(* What a block was split into has parts of all its ops on the same units.   *)
Matched(o, g) ==
  \A i \in Real(g) : \A t \in Ids(o) : SameBlock(o, g.op[i].src, t) =>
    \E j \in Real(g) :
      g.op[j].src = t /\ g.op[j].part = g.op[i].part /\ g.op[j].unit = g.op[i].unit

(* The merges are on the host.                                               *)
MergesOn(g, owner) == \A i \in Plain(g) : g.op[i].cat = "merge" => g.op[i].unit = owner

(* What keeps its weights in the CIM,                                        *)
Held(g) == {i \in Ids(g) : g.op[i].resident}

(* in decode only, in the columns it was allotted, one node for each op.     *)
Kept(o, g, al) ==
  /\ \A i \in Held(g) :
       /\ Phase(o) = "decode" /\ g.op[i].unit = "cim" /\ g.op[i].cat = "matmul"
       /\ g.op[i].src \in DOMAIN al /\ g.op[i].shape.N = al[g.op[i].src]
  /\ \A i, j \in Held(g) : g.op[i].src = g.op[j].src => i = j

(* The invariant of the units while the solver decides.                      *)
UnitInv(o, g, td, al, owner) ==
  /\ Runs(g, td) /\ Together(g) /\ Matched(o, g) /\ MergesOn(g, owner)
  /\ Kept(o, g, al)

(* All of the block B can be placed on u.                                   *)
RunsOn(o, B, u) ==
  /\ u \in DOMAIN Supported
  /\ \A c \in B : PricedAs(o.op[c].cat, c) \in Supported[u]

(* The weights of n may be kept in the CIM, in cols columns.                *)
MayKeep(o, n, al, cols) ==
  Phase(o) = "decode" /\ o.op[n].cat = "matmul" /\ n \in DOMAIN al /\ cols = al[n]

(* What a placement makes of the units.                                      *)
PlacedView(o, g, h, B, u) ==
  /\ Ids(h) = Ids(g) /\ Plain(g) = Ids(g) /\ Plain(h) = Ids(g) /\ Real(h) = Real(g) /\ B \subseteq Ids(g)
  /\ \A x \in Ids(g) : /\ h.op[x].cat = g.op[x].cat /\ h.op[x].shape = g.op[x].shape
                       /\ h.op[x].group = g.op[x].group /\ h.op[x].src = g.op[x].src
                       /\ h.op[x].part = g.op[x].part
  /\ \A x \in Ids(g) \ B : h.op[x] = g.op[x] /\ g.op[x].src \notin B /\ g.op[x].src \in Ids(o)
  /\ \A x \in B : /\ g.op[x].src = x /\ g.op[x].part = 0 /\ g.op[x].cat = o.op[x].cat
                  /\ h.op[x].unit = u /\ x \in Ids(o) /\ x \in Real(g)
                  /\ \A t : (SameBlock(o, x, t) <=> t \in B) /\ (SameBlock(o, t, x) <=> t \in B)

(* What a placement makes, as far as the units are concerned.                *)
LEMMA PlacedViews ==
  ASSUME NEW o, NEW g, NEW td, NEW n, NEW B, NextBlock(o, g, td, n, B),
         NEW u, NEW pinned, NEW h, Places(g, h, B, u, pinned)
  PROVE  PlacedView(o, g, h, B, u)
<1>1. SameOps(g, h) /\ Finite(g) /\ Plain(g) = Ids(g) /\ Ids(h) = Ids(g)
  BY DEF NextBlock, Places, GraphInv, Listed, TodoInv, SameOps
<1>2. Plain(h) = Ids(g) /\ Real(h) = Real(g)
  BY <1>1, SameReads
<1>3. \A x \in Ids(g) : /\ h.op[x].cat = g.op[x].cat /\ h.op[x].shape = g.op[x].shape
                        /\ h.op[x].group = g.op[x].group /\ h.op[x].src = g.op[x].src
                        /\ h.op[x].part = g.op[x].part
  BY <1>1 DEF SameOps, Alike
<1>4. B \subseteq Ids(g) /\ B \subseteq Ids(o)
  BY DecidedOps
<1>5. \A x \in Ids(g) \ B : h.op[x] = g.op[x] /\ g.op[x].src \notin B /\ g.op[x].src \in Ids(o)
  BY OthersOf DEF Places
<1>6. ASSUME NEW x \in B
      PROVE  /\ g.op[x].src = x /\ g.op[x].part = 0 /\ g.op[x].cat = o.op[x].cat
             /\ h.op[x].unit = u /\ x \in Real(g)
             /\ \A t : (SameBlock(o, x, t) <=> t \in B) /\ (SameBlock(o, t, x) <=> t \in B)
  <2>1. /\ g.op[x].src = x /\ g.op[x].part = 0 /\ g.op[x].cat = o.op[x].cat
        /\ o.op[x].cat \in Traceable
        /\ \A t : (SameBlock(o, x, t) <=> t \in B) /\ (SameBlock(o, t, x) <=> t \in B)
    BY DecidedFields
  <2>2. h.op[x].unit = u
    BY DEF Places, OnUnit
  <2>3. x \in Real(g)
    BY <1>4, <2>1 DEF Real, Traceable, LegalDims, FixedUnit
  <2>. QED
    BY <2>1, <2>2, <2>3
<1>. QED
  BY <1>1, <1>2, <1>3, <1>4, <1>5, <1>6 DEF PlacedView

(* A placement keeps every decided op on a unit that supports it, and within *)
(* what it was allotted.                                                     *)
LEMMA PlaceUnits ==
  ASSUME NEW o, NEW g, NEW td, NEW n, NEW B, NextBlock(o, g, td, n, B),
         NEW u, NEW pinned, NEW h, Places(g, h, B, u, pinned), NEW al, NEW owner,
         UnitInv(o, g, td, al, owner), RunsOn(o, B, u),
         pinned => u = "cim" /\ MayKeep(o, n, al, o.op[n].shape.N)
  PROVE  UnitInv(o, h, td \ B, al, owner)
<1>1. PlacedView(o, g, h, B, u)
  BY PlacedViews
<1>2. /\ Ids(h) = Ids(g) /\ Plain(g) = Ids(g) /\ Plain(h) = Ids(g) /\ Real(h) = Real(g)
      /\ B \subseteq Ids(g)
      /\ \A x \in Ids(g) : /\ h.op[x].cat = g.op[x].cat /\ h.op[x].shape = g.op[x].shape
                           /\ h.op[x].group = g.op[x].group /\ h.op[x].src = g.op[x].src
                           /\ h.op[x].part = g.op[x].part
      /\ \A x \in Ids(g) \ B : h.op[x] = g.op[x] /\ g.op[x].src \notin B
      /\ \A x \in B : /\ g.op[x].src = x /\ g.op[x].part = 0 /\ g.op[x].cat = o.op[x].cat
                      /\ h.op[x].unit = u /\ x \in Ids(o) /\ x \in Real(g)
  BY <1>1 DEF PlacedView
<1>3. \A x \in B : \A t : (SameBlock(o, x, t) <=> t \in B) /\ (SameBlock(o, t, x) <=> t \in B)
  BY <1>1 DEF PlacedView
<1>4. Runs(h, td \ B)
  <2>. SUFFICES ASSUME NEW i \in Ids(g), g.op[i].src \notin td \ B
                PROVE  /\ h.op[i].unit \in DOMAIN Supported
                       /\ PricedAs(h.op[i].cat, h.op[i].src) \in Supported[h.op[i].unit]
    BY <1>2 DEF Runs
  <2>1. CASE i \in B
    BY <1>2, <2>1 DEF RunsOn
  <2>2. CASE i \notin B
    BY <1>2, <2>2 DEF Runs, UnitInv
  <2>. QED
    BY <2>1, <2>2
<1>6. Together(h)
  <2>. SUFFICES ASSUME NEW i \in Ids(g), g.op[i].cat = "attention"
                PROVE  h.op[g.op[i].group].unit = h.op[i].unit
    BY <1>2 DEF Together
  <2> DEFINE r == g.op[i].group
  <2>1. r \in Ids(g) /\ SameBlock(o, g.op[r].src, g.op[i].src) /\ g.op[r].unit = g.op[i].unit
    <3>1. Grouped(o, g) /\ Together(g)
      BY DEF NextBlock, GraphInv, UnitInv
    <3>. QED
      BY <1>2, <3>1 DEF Grouped, Together
  <2> HIDE DEF r
  <2>2. r \in B <=> i \in B
    BY <1>2, <1>3, <2>1
  <2>3. h.op[r].unit = h.op[i].unit
    BY <1>2, <2>1, <2>2
  <2>. QED
    BY <2>3 DEF r
<1>7. Matched(o, h)
  <2>. SUFFICES ASSUME NEW i \in Real(g), NEW t \in Ids(o), SameBlock(o, g.op[i].src, t)
                PROVE  \E j \in Real(g) : /\ g.op[j].src = t /\ g.op[j].part = g.op[i].part
                                          /\ h.op[j].unit = h.op[i].unit
    BY <1>2 DEF Matched, Real
  <2>0. i \in Ids(g)
    BY DEF Real
  <2>1. PICK j \in Real(g) : /\ g.op[j].src = t /\ g.op[j].part = g.op[i].part
                             /\ g.op[j].unit = g.op[i].unit
    BY DEF UnitInv, Matched
  <2>2. j \in Ids(g)
    BY DEF Real
  <2>3. CASE i \in B
    BY <1>2, <1>3, <2>3
  <2>4. CASE i \notin B
    <3>1. t \notin B
      BY <1>2, <1>3, <2>0, <2>4
    <3>2. j \notin B
      BY <1>2, <2>1, <3>1
    <3>. QED
      BY <1>2, <2>0, <2>1, <2>2, <2>4, <3>2
  <2>. QED
    BY <2>3, <2>4
<1>8. MergesOn(h, owner)
  <2>. SUFFICES ASSUME NEW i \in Ids(g), g.op[i].cat = "merge" PROVE h.op[i].unit = owner
    BY <1>2 DEF MergesOn
  <2>1. i \notin B
    BY <1>2 DEF Real
  <2>. QED
    BY <1>2, <2>1 DEF UnitInv, MergesOn
<1>9. Kept(o, h, al)
  <2>1. ASSUME NEW i \in Held(h), i \in B
        PROVE  u = "cim" /\ MayKeep(o, n, al, o.op[n].shape.N)
    <3>1. h.op[i].resident <=> g.op[i].resident \/ pinned
      BY <2>1 DEF Places
    <3>2. ~g.op[i].resident
      <4>1. i \in td
        BY <2>1, DecidedOps
      <4>2. g.op[i] = [o.op[i] EXCEPT !.deps = g.op[i].deps] /\ TracedOp(o, i)
        BY <4>1, TracedOps DEF NextBlock, TodoInv
      <4>3. ~o.op[i].resident /\ o.op[i] \in Node
        BY <1>2, <2>1, <4>2, TracedOps DEF TracedOp, NextBlock, NodeGraph
      <4>4. o.op[i] = [x \in NodeFields |-> o.op[i][x]]
        BY <4>3, NodeForm, Zenon
      <4>. QED
        BY <4>2, <4>3, <4>4 DEF NodeFields
    <3>3. h.op[i].resident
      BY <2>1 DEF Held
    <3>. QED
      BY <3>1, <3>2, <3>3
  <2>2. ASSUME NEW i \in Held(h), i \in B
        PROVE  i = n /\ h.op[i].shape = o.op[n].shape
    <3>1. o.op[n].cat = "matmul"
      BY <2>1, <2>2 DEF MayKeep
    <3>2. i = n /\ g.op[i].shape = o.op[n].shape
      BY <2>2, <3>1, DecidedFields
    <3>. QED
      BY <1>2, <2>2, <3>2
  <2>3. \A i \in Held(h) : i \notin B => i \in Held(g) /\ h.op[i] = g.op[i] /\ g.op[i].src \notin B
    BY <1>2 DEF Held
  <2>4. Kept(o, g, al)
    BY DEF UnitInv
  <2>5. \A i \in Held(h) : i \in B => h.op[i].src = i /\ h.op[i].cat = o.op[i].cat
    BY <1>2
  <2>6. ASSUME NEW i \in Held(h)
        PROVE  /\ Phase(o) = "decode" /\ h.op[i].unit = "cim" /\ h.op[i].cat = "matmul"
               /\ h.op[i].src \in DOMAIN al /\ h.op[i].shape.N = al[h.op[i].src]
    <3>1. CASE i \in B
      BY <1>2, <2>1, <2>2, <2>5, <3>1 DEF MayKeep
    <3>2. CASE i \notin B
      BY <2>3, <2>4, <3>2 DEF Kept
    <3>. QED
      BY <3>1, <3>2
  <2>7. ASSUME NEW i \in Held(h), NEW j \in Held(h), h.op[i].src = h.op[j].src PROVE i = j
    <3>1. CASE i \in B /\ j \in B
      BY <2>5, <2>7, <3>1
    <3>2. CASE i \in B /\ j \notin B
      BY <2>3, <2>5, <2>7, <3>2
    <3>3. CASE i \notin B /\ j \in B
      BY <2>3, <2>5, <2>7, <3>3
    <3>4. CASE i \notin B /\ j \notin B
      BY <2>3, <2>4, <2>7, <3>4 DEF Kept
    <3>. QED
      BY <3>1, <3>2, <3>3, <3>4
  <2>. QED
    BY <2>6, <2>7 DEF Kept
<1>. QED
  BY <1>4, <1>6, <1>7, <1>8, <1>9 DEF UnitInv

(* What a split may keep in the CIM.                                        *)
MayKeepFirst(o, n, plan, al) ==
  /\ MayKeep(o, n, al, Sizes(plan, o.op[n].shape.N)[1])
  /\ plan.dim = "N" /\ plan.units[1] = "cim"

(* The i-th part is on the i-th unit of the plan.                            *)
PartUnit(h, plan, i, x) == h.op[x].unit = plan.units[i]

(* Where the new nodes of a split are.                                      *)
SplitUnitView(o, g, h, n, B, plan, k, ids, merge, owner) ==
  /\ \A y \in Ids(g) \ B : /\ h.op[y].unit = g.op[y].unit /\ h.op[y].shape = g.op[y].shape
                           /\ (h.op[y].resident <=> g.op[y].resident)
  /\ \A i \in 1..k : \A c \in B : PartUnit(h, plan, i, ids[<<i, c>>])
  /\ h.op[merge].unit = owner /\ ~h.op[merge].resident

(* What a split makes, as far as the units are concerned.                    *)
LEMMA SplitUnitViews ==
  ASSUME NEW o, NEW g, NEW td, NEW n, NEW B, NEW plan, NEW k, NEW owner, NEW sync, NEW h, NEW ids,
         NEW merge, SplitStep(o, g, td, n, B, plan, k, owner, sync, h, ids, merge)
  PROVE  SplitUnitView(o, g, h, n, B, plan, k, ids, merge, owner)
<1>1. SplitMade(o, g, h, n, B, plan, k, ids, merge, owner, sync)
  BY DEF SplitStep
<1>2. ASSUME NEW y \in Ids(g) \ B
      PROVE  /\ h.op[y].unit = g.op[y].unit /\ h.op[y].shape = g.op[y].shape
             /\ (h.op[y].resident <=> g.op[y].resident)
  <2>1. Rewiring(g.op[y], h.op[y], Max(B), merge)
    BY <1>1 DEF SplitMade
  <2>. QED
    BY <2>1 DEF Rewiring
<1>3. ASSUME NEW i \in 1..k, NEW c \in B PROVE PartUnit(h, plan, i, ids[<<i, c>>])
  <2>1. PartOf(o, g, h.op[ids[<<i, c>>]], n, B, c, plan, i,
               Sizes(plan, o.op[n].shape[plan.dim])[i], ids)
    BY <1>1 DEF SplitMade
  <2>. QED
    BY <2>1 DEF PartOf, PartUnit
<1>4. h.op[merge].unit = owner /\ ~h.op[merge].resident
  BY <1>1 DEF SplitMade, MergeOf
<1>. QED
  BY <1>2, <1>3, <1>4 DEF SplitUnitView

(* x is the i-th part of c.                                                 *)
PartIn(o, h, n, c, plan, i, x, ids) ==
  /\ h.op[x].cat = o.op[c].cat /\ h.op[x].src = c /\ h.op[x].part = i
  /\ h.op[x].cat \in Traceable /\ h.op[x].unit = plan.units[i] /\ x \in Ids(h)
  /\ h.op[x].cat = "attention" => h.op[x].group = ids[<<i, n>>]

(* The parts that keep weights.                                             *)
LEMMA HeldParts ==
  ASSUME NEW o, NEW g, NEW td, NEW n, NEW B, NEW plan, NEW k, NEW owner, NEW sync, NEW h, NEW ids,
         NEW merge, SplitStep(o, g, td, n, B, plan, k, owner, sync, h, ids, merge),
         NEW al, plan.resident => MayKeepFirst(o, n, plan, al),
         NEW i \in 1..k, NEW c \in B, ids[<<i, c>>] \in Held(h)
  PROVE  /\ Phase(o) = "decode" /\ plan.units[i] = "cim" /\ h.op[ids[<<i, c>>]].cat = "matmul"
         /\ i = 1 /\ c = n /\ n \in DOMAIN al /\ h.op[ids[<<i, c>>]].shape.N = al[n]
<1> DEFINE p == h.op[ids[<<i, c>>]]
<1>1. PartOf(o, g, p, n, B, c, plan, i, Sizes(plan, o.op[n].shape[plan.dim])[i], ids)
  BY DEF SplitStep, SplitMade
<1>2. p.resident
  BY DEF Held
<1> HIDE DEF p
<1>3. p.cat = "matmul" /\ plan.resident /\ i = 1 /\ p.cat = o.op[c].cat
  BY <1>1, <1>2 DEF PartOf
<1>4. MayKeepFirst(o, n, plan, al)
  BY <1>3
<1>5. c = n
  <2>1. NextBlock(o, g, td, n, B)
    BY DEF SplitStep
  <2>2. c # n => o.op[c].cat \in {"attention", "elementwise"}
    BY <2>1, DecidedFields
  <2>. QED
    BY <1>3, <2>2
<1>6. p.shape.N = al[n]
  <2>1. plan.dim = "N" /\ Sizes(plan, o.op[n].shape.N)[1] = al[n]
    BY <1>4 DEF MayKeepFirst, MayKeep
  <2>2. AxisOf(o.op[n].shape, "N")
    BY <2>1 DEF SplitStep, Splits
  <2>3. "N" \in DOMAIN o.op[n].shape
    BY <2>2, ShapeDomains DEF AxisOf
  <2>4. o.op[n].shape["N"] = o.op[n].shape.N
    OBVIOUS
  <2>5. p.shape = [o.op[n].shape EXCEPT !["N"] = al[n]]
    BY <1>1, <1>3, <2>1, <2>4 DEF PartOf
  <2>. QED
    BY <2>3, <2>5
<1>. QED
  BY <1>3, <1>4, <1>5, <1>6 DEF MayKeepFirst, MayKeep, p

(* So does a split.                                                          *)
LEMMA SplitUnits ==
  ASSUME NEW o, NEW g, NEW td, NEW n, NEW B, NEW plan, NEW k, NEW owner, NEW sync, NEW h, NEW ids,
         NEW merge, SplitStep(o, g, td, n, B, plan, k, owner, sync, h, ids, merge), NEW al,
         UnitInv(o, g, td, al, owner), \A i \in 1..k : RunsOn(o, B, plan.units[i]),
         plan.resident => MayKeepFirst(o, n, plan, al)
  PROVE  UnitInv(o, h, td \ B, al, owner)
<1>1. SplitView(o, g, h, n, B, k, ids, merge)
  BY SplitViews
<1>2. /\ OthersView(o, g, h, B, merge) /\ MergeView(o, g, h, B, k, ids, merge)
      /\ KindsView(g, h, B, k, ids, merge) /\ Plain(h) = Ids(h) /\ Plain(g) = Ids(g)
      /\ PartsView(o, g, h, n, B, k, ids) /\ BlockView(o, g, B) /\ n \in B /\ Max(B) \in B
  BY <1>1 DEF SplitView
<1>3. SplitUnitView(o, g, h, n, B, plan, k, ids, merge, owner)
  BY SplitUnitViews
<1>4. ASSUME NEW i \in 1..k, NEW c \in B, NEW x, x = ids[<<i, c>>]
      PROVE  PartIn(o, h, n, c, plan, i, x, ids)
  <2>1. PartView(o, g, h, n, B, c, i, ids)
    BY <1>2 DEF PartsView
  <2>2. PartUnit(h, plan, i, x)
    BY <1>3, <1>4 DEF SplitUnitView
  <2>. QED
    BY <1>4, <2>1, <2>2 DEF PartView, PartUnit, PartIn
<1>5. /\ h.op[merge].cat = "merge" /\ h.op[merge].unit = owner /\ h.op[merge].src = Max(B)
      /\ owner \in Chips
  BY <1>2, <1>3 DEF SplitUnitView, MergeView, SplitStep
<1>6. \A y \in Ids(g) \ B :
        /\ h.op[y].src = g.op[y].src /\ h.op[y].part = g.op[y].part /\ y \in Ids(h)
        /\ h.op[y].cat = g.op[y].cat /\ h.op[y].group = g.op[y].group
        /\ h.op[y].unit = g.op[y].unit /\ g.op[y].src \notin B
  BY <1>2, <1>3 DEF OthersView, SplitUnitView
<1>7. \A y \in Ids(h) : \/ y \in Ids(g) \ B
                        \/ \E i \in 1..k : \E c \in B : y = ids[<<i, c>>]
                        \/ y = merge
  BY <1>2 DEF KindsView
<1>8. /\ "merge" \notin Traceable /\ "convert" \notin Traceable
      /\ \A u \in Chips : u \in DOMAIN Supported /\ "merge" \in Supported[u]
  BY DEF Traceable, LegalDims, FixedUnit, Chips, Supported, Anywhere
<1>9. Runs(h, td \ B)
  <2>. SUFFICES ASSUME NEW y \in Ids(h), h.op[y].src \notin td \ B
                PROVE  /\ h.op[y].unit \in DOMAIN Supported
                       /\ PricedAs(h.op[y].cat, h.op[y].src) \in Supported[h.op[y].unit]
    BY <1>2 DEF Runs
  <2>1. CASE y \in Ids(g) \ B
    BY <1>2, <1>6, <2>1 DEF Runs, UnitInv
  <2>2. CASE \E i \in 1..k : \E c \in B : y = ids[<<i, c>>]
    <3>9. PICK i \in 1..k : \E c \in B : y = ids[<<i, c>>]
      BY <2>2
    <3>1. PICK c \in B : y = ids[<<i, c>>]
      BY <3>9
    <3>8. PartIn(o, h, n, c, plan, i, y, ids)
      BY <1>4, <3>1
    <3>. QED
      BY <3>8 DEF RunsOn, PartIn
  <2>3. CASE y = merge
    BY <1>5, <1>8, <2>3, PricedAsFacts
  <2>. QED
    BY <1>7, <2>1, <2>2, <2>3
<1>11. Together(h)
  <2>. SUFFICES ASSUME NEW y \in Ids(h), h.op[y].cat = "attention"
                PROVE  h.op[h.op[y].group].unit = h.op[y].unit
    BY <1>2 DEF Together
  <2>1. CASE y \in Ids(g) \ B
    <3> DEFINE r == g.op[y].group
    <3>1. g.op[y].cat = "attention" /\ y \in Plain(g)
      BY <1>2, <1>6, <2>1
    <3>2. r \in Ids(g) /\ SameBlock(o, g.op[r].src, g.op[y].src) /\ g.op[r].unit = g.op[y].unit
      <4>1. Grouped(o, g) /\ Together(g)
        BY DEF SplitStep, NextBlock, GraphInv, UnitInv
      <4>. QED
        BY <1>2, <3>1, <4>1 DEF Grouped, Together
    <3> HIDE DEF r
    <3>3. r \notin B
      <4>. SUFFICES ASSUME r \in B PROVE FALSE
        OBVIOUS
      <4>1. g.op[r].src = r /\ \A t : SameBlock(o, r, t) <=> t \in B
        BY <1>2 DEF BlockView
      <4>. QED
        BY <1>6, <2>1, <3>2, <4>1
    <3>. QED
      BY <1>6, <2>1, <3>2, <3>3 DEF r
  <2>2. CASE \E i \in 1..k : \E c \in B : y = ids[<<i, c>>]
    <3>9. PICK i \in 1..k : \E c \in B : y = ids[<<i, c>>]
      BY <2>2
    <3>1. PICK c \in B : y = ids[<<i, c>>]
      BY <3>9
    <3>8. PartIn(o, h, n, c, plan, i, y, ids)
      BY <1>4, <3>1
    <3>2. h.op[y].group = ids[<<i, n>>] /\ h.op[y].unit = plan.units[i]
      BY <3>8 DEF PartIn
    <3>3. h.op[ids[<<i, n>>]].unit = plan.units[i]
      <4>1. PartIn(o, h, n, n, plan, i, ids[<<i, n>>], ids)
        BY <1>2, <1>4
      <4>. QED
        BY <4>1 DEF PartIn
    <3>. QED
      BY <3>2, <3>3
  <2>3. CASE y = merge
    BY <1>5, <2>3
  <2>. QED
    BY <1>7, <2>1, <2>2, <2>3
<1>12. Matched(o, h)
  <2>. SUFFICES ASSUME NEW y \in Real(h), NEW t \in Ids(o), SameBlock(o, h.op[y].src, t)
                PROVE  \E z \in Real(h) : /\ h.op[z].src = t /\ h.op[z].part = h.op[y].part
                                          /\ h.op[z].unit = h.op[y].unit
    BY DEF Matched
  <2>0. y \in Ids(h) /\ h.op[y].cat # "merge" /\ h.op[y].cat # "convert"
    BY DEF Real
  <2>1. CASE y \in Ids(g) \ B
    <3>1. y \in Real(g) /\ SameBlock(o, g.op[y].src, t)
      BY <1>6, <2>0, <2>1 DEF Real
    <3>2. PICK z \in Real(g) : /\ g.op[z].src = t /\ g.op[z].part = g.op[y].part
                               /\ g.op[z].unit = g.op[y].unit
      BY <3>1 DEF UnitInv, Matched
    <3>3. z \notin B
      <4>. SUFFICES ASSUME z \in B PROVE FALSE
        OBVIOUS
      <4>1. g.op[z].src = z /\ \A s : SameBlock(o, s, z) <=> s \in B
        BY <1>2 DEF BlockView
      <4>. QED
        BY <1>6, <2>1, <3>1, <3>2, <4>1
    <3>4. z \in Ids(g) \ B /\ g.op[z].cat # "merge" /\ g.op[z].cat # "convert"
      BY <3>3 DEF Real
    <3>5. z \in Real(h)
      BY <1>6, <3>4 DEF Real
    <3>. QED
      BY <1>6, <2>1, <3>2, <3>4, <3>5
  <2>2. CASE \E i \in 1..k : \E c \in B : y = ids[<<i, c>>]
    <3>9. PICK i \in 1..k : \E c \in B : y = ids[<<i, c>>]
      BY <2>2
    <3>1. PICK c \in B : y = ids[<<i, c>>]
      BY <3>9
    <3>8. PartIn(o, h, n, c, plan, i, y, ids)
      BY <1>4, <3>1
    <3>2. h.op[y].src = c /\ h.op[y].part = i /\ h.op[y].unit = plan.units[i]
      BY <3>8 DEF PartIn
    <3>3. t \in B
      BY <1>2, <3>2 DEF BlockView
    <3> DEFINE z == ids[<<i, t>>]
    <3>4. /\ h.op[z].src = t /\ h.op[z].part = i /\ h.op[z].unit = plan.units[i]
          /\ z \in Ids(h) /\ h.op[z].cat \in Traceable
      <4>1. PartIn(o, h, n, t, plan, i, z, ids)
        BY <1>4, <3>3
      <4>. QED
        BY <4>1 DEF PartIn
    <3> HIDE DEF z
    <3>5. z \in Real(h)
      BY <1>8, <3>4 DEF Real
    <3>. QED
      BY <3>2, <3>4, <3>5
  <2>3. CASE y = merge
    BY <1>5, <2>0, <2>3
  <2>. QED
    BY <1>7, <2>0, <2>1, <2>2, <2>3
<1>13. MergesOn(h, owner)
  <2>. SUFFICES ASSUME NEW y \in Ids(h), h.op[y].cat = "merge" PROVE h.op[y].unit = owner
    BY <1>2 DEF MergesOn
  <2>1. CASE y \in Ids(g) \ B
    BY <1>2, <1>6, <2>1 DEF MergesOn, UnitInv
  <2>2. CASE \E i \in 1..k : \E c \in B : y = ids[<<i, c>>]
    <3>9. PICK i \in 1..k : \E c \in B : y = ids[<<i, c>>]
      BY <2>2
    <3>1. PICK c \in B : y = ids[<<i, c>>]
      BY <3>9
    <3>8. PartIn(o, h, n, c, plan, i, y, ids)
      BY <1>4, <3>1
    <3>. QED
      BY <1>8, <3>8 DEF PartIn
  <2>3. CASE y = merge
    BY <1>5, <2>3
  <2>. QED
    BY <1>7, <2>1, <2>2, <2>3
<1>14. Kept(o, h, al)
  <2>1. \A y \in Held(h) : y # merge /\ y \in Ids(h)
    BY <1>3 DEF Held, SplitUnitView
  <2>2. \A y \in Held(h) : y \in Ids(g) \ B =>
          y \in Held(g) /\ h.op[y].src \notin B /\ h.op[y].shape = g.op[y].shape
    BY <1>3, <1>6 DEF Held, SplitUnitView
  <2>3. Kept(o, g, al)
    BY DEF UnitInv
  <2>4. ASSUME NEW y \in Held(h), y \notin Ids(g) \ B
        PROVE  /\ Phase(o) = "decode" /\ h.op[y].unit = "cim" /\ h.op[y].cat = "matmul"
               /\ h.op[y].src \in DOMAIN al /\ h.op[y].shape.N = al[h.op[y].src]
               /\ h.op[y].src \in B /\ h.op[y].src = n /\ h.op[y].part = 1
    <3>1. PICK i \in 1..k : \E c \in B : y = ids[<<i, c>>]
      BY <1>7, <2>1, <2>4
    <3>2. PICK c \in B : y = ids[<<i, c>>]
      BY <3>1
    <3>3. /\ Phase(o) = "decode" /\ plan.units[i] = "cim" /\ h.op[ids[<<i, c>>]].cat = "matmul"
          /\ i = 1 /\ c = n /\ n \in DOMAIN al /\ h.op[ids[<<i, c>>]].shape.N = al[n]
      <4>1. ids[<<i, c>>] \in Held(h)
        BY <2>4, <3>2
      <4>. QED
        BY <4>1, HeldParts
    <3>. QED
      <4>1. PartIn(o, h, n, c, plan, i, y, ids)
        BY <1>4, <3>2
      <4>. QED
        BY <3>2, <3>3, <4>1 DEF PartIn
  <2>5. ASSUME NEW y \in Held(h)
        PROVE  /\ Phase(o) = "decode" /\ h.op[y].unit = "cim" /\ h.op[y].cat = "matmul"
               /\ h.op[y].src \in DOMAIN al /\ h.op[y].shape.N = al[h.op[y].src]
    <3>1. CASE y \in Ids(g) \ B
      BY <1>6, <2>2, <2>3, <3>1 DEF Kept
    <3>2. CASE y \notin Ids(g) \ B
      BY <2>4, <3>2
    <3>. QED
      BY <3>1, <3>2
  <2>6. ASSUME NEW y \in Held(h), NEW z \in Held(h), h.op[y].src = h.op[z].src PROVE y = z
    <3>1. CASE y \in Ids(g) \ B /\ z \in Ids(g) \ B
      BY <1>6, <2>2, <2>3, <2>6, <3>1 DEF Kept
    <3>2. CASE y \in Ids(g) \ B /\ z \notin Ids(g) \ B
      BY <2>2, <2>4, <2>6, <3>2
    <3>3. CASE y \notin Ids(g) \ B /\ z \in Ids(g) \ B
      BY <2>2, <2>4, <2>6, <3>3
    <3>4. CASE y \notin Ids(g) \ B /\ z \notin Ids(g) \ B
      <4>1. h.op[y].part = h.op[z].part
        BY <2>4, <3>4
      <4>2. Provenance(o, h)
        BY SplitProvenance
      <4>. QED
        BY <1>2, <2>1, <2>6, <4>1, <4>2 DEF Provenance
    <3>. QED
      BY <3>1, <3>2, <3>3, <3>4
  <2>. QED
    BY <2>5, <2>6 DEF Kept
<1>. QED
  BY <1>9, <1>11, <1>12, <1>13, <1>14 DEF UnitInv

-----------------------------------------------------------------------------
(* The heads of the kernels.                                                *)

(* head leads from any x of D, by next, to where next leads no further.      *)
LeadsTo(head, next, D) == head = [x \in D |-> IF next[x] # x THEN head[next[x]] ELSE x]

(* The part of D placed before N.                                            *)
Below(D, at, N) == {x \in D : at[x] < N}

(* Following next, which goes down until it stays, leads somewhere from      *)
(* everywhere.                                                               *)
LEMMA HeadExists ==
  ASSUME NEW D, IsFiniteSet(D), NEW at, \A x \in D : at[x] \in Nat, NEW next \in [D -> D],
         \A x \in D : next[x] = x \/ at[next[x]] < at[x]
  PROVE  \E head : LeadsTo(head, next, D)
<1> DEFINE S == {N \in Nat : \E f : LeadsTo(f, next, Below(D, at, N))}
<1>1. 0 \in S
  <2>1. Below(D, at, 0) = {}
    BY DEF Below
  <2> DEFINE f == [x \in {} |-> 0]
  <2>2. f = [x \in Below(D, at, 0) |-> IF next[x] # x THEN f[next[x]] ELSE x]
    BY <2>1
  <2> HIDE DEF f
  <2>. QED
    BY <2>2 DEF LeadsTo
<1>2. ASSUME NEW N \in Nat, N \in S PROVE N + 1 \in S
  <2>1. PICK f : LeadsTo(f, next, Below(D, at, N))
    BY <1>2
  <2> DEFINE A == Below(D, at, N)
             B == Below(D, at, N + 1)
             h == [x \in B |-> IF next[x] # x THEN f[next[x]] ELSE x]
  <2>2. A \subseteq B /\ B \subseteq D
    BY DEF Below
  <2>3. \A x \in B : next[x] # x => next[x] \in A
    BY DEF Below
  <2>4. \A x \in A : f[x] = IF next[x] # x THEN f[next[x]] ELSE x
    BY <2>1 DEF LeadsTo
  <2> HIDE DEF A, B
  <2>5. \A x \in A : h[x] = f[x]
    BY <2>2, <2>4
  <2>6. \A x \in B : h[x] = IF next[x] # x THEN h[next[x]] ELSE x
    BY <2>3, <2>5
  <2>7. h = [x \in B |-> h[x]]
    OBVIOUS
  <2> HIDE DEF h
  <2>8. LeadsTo(h, next, B)
    BY <2>6, <2>7 DEF LeadsTo
  <2>. QED
    BY <2>8 DEF B
<1>3. Nat \subseteq S
  <2> HIDE DEF S
  <2>. QED
    BY <1>1, <1>2, NatSetInduction
<1>4. PICK N \in Nat : Below(D, at, N) = D
  <2>1. CASE D = {}
    BY <2>1 DEF Below
  <2>2. CASE D # {}
    <3> DEFINE V == {at[x] : x \in D}
               f == [x \in D |-> at[x]]
    <3>1. f \in Surjection(D, V)
      BY DEF Surjection
    <3>2. IsFiniteSet(V) /\ V \in SUBSET Int /\ V # {}
      BY <2>2, <3>1, FS_Surjection
    <3> HIDE DEF V
    <3>3. Max(V) \in V /\ \A y \in V : y <= Max(V)
      BY <3>2, MaxFacts
    <3>4. \A x \in D : at[x] \in V
      BY DEF V
    <3>5. Max(V) \in Nat
      BY <3>3 DEF V
    <3>6. Below(D, at, Max(V) + 1) = D
      BY <3>3, <3>4, <3>5 DEF Below
    <3>. QED
      BY <3>5, <3>6
  <2>. QED
    BY <2>1, <2>2
<1>5. N \in S
  BY <1>3
<1>. QED
  BY <1>4, <1>5

(* head leads every x to a fixed head on the same unit, before x.            *)
Headed(head, next, D, at, u) ==
  \A x \in D : /\ head[x] \in D /\ head[head[x]] = head[x]
               /\ u[head[x]] = u[x] /\ at[head[x]] <= at[x]
               /\ head[next[x]] = head[x]
               /\ next[x] # x <=> head[x] # x

(* The last step leads no further, on the way nothing changes that next      *)
(* keeps, and it leads down.                                                *)
LEMMA HeadFacts ==
  ASSUME NEW D, NEW at, \A x \in D : at[x] \in Nat, NEW next \in [D -> D],
         \A x \in D : next[x] = x \/ at[next[x]] < at[x],
         NEW head, LeadsTo(head, next, D), NEW u, \A x \in D : u[next[x]] = u[x]
  PROVE  Headed(head, next, D, at, u)
<1>0. \A x \in D : head[x] = IF next[x] # x THEN head[next[x]] ELSE x
  BY DEF LeadsTo
<1> DEFINE Good(x) == /\ head[x] \in D /\ head[head[x]] = head[x]
                      /\ u[head[x]] = u[x] /\ at[head[x]] <= at[x]
           S == {N \in Nat : \A x \in D : at[x] < N => Good(x)}
<1>1. 0 \in S
  OBVIOUS
<1>2. ASSUME NEW N \in Nat, N \in S PROVE N + 1 \in S
  <2>1. ASSUME NEW x \in D, at[x] < N + 1 PROVE Good(x)
    <3>1. CASE next[x] = x
      <4>1. head[x] = x
        BY <1>0, <3>1
      <4>. QED
        BY <4>1
    <3>2. CASE next[x] # x
      <4>1. head[x] = head[next[x]] /\ at[next[x]] < at[x] /\ next[x] \in D
        BY <1>0, <3>2
      <4>2. at[next[x]] < N
        BY <2>1, <4>1
      <4>3. Good(next[x])
        BY <1>2, <4>1, <4>2
      <4>4. u[next[x]] = u[x] /\ at[next[x]] \in Nat /\ at[x] \in Nat
        BY <4>1
      <4>5. at[head[x]] \in Nat
        BY <4>1, <4>3
      <4>. QED
        BY <4>1, <4>3, <4>4, <4>5
    <3>. QED
      BY <3>1, <3>2
  <2> HIDE DEF Good
  <2>. QED
    BY <2>1
<1>3. Nat \subseteq S
  <2> HIDE DEF S
  <2>. QED
    BY <1>1, <1>2, NatSetInduction
<1>4. \A x \in D : Good(x)
  <2>. TAKE x \in D
  <2>1. at[x] + 1 \in S /\ at[x] < at[x] + 1
    <3>1. at[x] + 1 \in Nat
      OBVIOUS
    <3> HIDE DEF S
    <3>. QED
      BY <1>3, <3>1
  <2> HIDE DEF Good
  <2>. QED
    BY <2>1
<1>5. \A x \in D : head[next[x]] = head[x]
  BY <1>0
<1>6. \A x \in D : next[x] # x <=> head[x] # x
  <2>. TAKE x \in D
  <2>1. CASE next[x] = x
    BY <1>0, <2>1
  <2>2. CASE next[x] # x
    <3>1. next[x] \in D /\ at[next[x]] < at[x] /\ head[x] = head[next[x]]
      BY <1>0, <2>2
    <3>2. at[head[x]] <= at[next[x]] /\ head[x] \in D
      BY <1>4, <3>1
    <3>3. at[head[x]] \in Nat /\ at[next[x]] \in Nat /\ at[x] \in Nat
      BY <3>1, <3>2
    <3>. QED
      BY <2>2, <3>1, <3>2, <3>3
  <2>. QED
    BY <2>1, <2>2
<1>. QED
  BY <1>4, <1>5, <1>6 DEF Headed

-----------------------------------------------------------------------------
(* The ops that run as kernels.                                              *)
FusibleOps(g) == {y \in Ids(g) : Fusible(g.op[y])}

(* What the heads of the kernels of g are.                                  *)
HeadsOf(g, heads) ==
  /\ DOMAIN heads = FusibleOps(g)
  /\ \A x \in FusibleOps(g) :
       /\ heads[x] \in FusibleOps(g) /\ heads[heads[x]] = heads[x]
       /\ g.op[heads[x]].unit = g.op[x].unit
       /\ \A d \in g.op[x].deps : FusesInto(g, x, d) => heads[d] = heads[x] /\ heads[x] # x
       /\ heads[x] # x => \E d \in g.op[x].deps : FusesInto(g, x, d)

(* KernelHeads is well defined: following the fusions back ends at an op     *)
(* that fuses into none.                                                     *)
LEMMA KernelHeadsFacts ==
  ASSUME NEW g, NodeGraph(g), Finite(g)
  PROVE  HeadsOf(g, KernelHeads(g))
<1> DEFINE D == FusibleOps(g)
           next == [x \in D |-> IF \E d \in g.op[x].deps : FusesInto(g, x, d)
                                THEN CHOOSE d \in g.op[x].deps : FusesInto(g, x, d) ELSE x]
           u == [x \in D |-> g.op[x].unit]
<1>1. D \subseteq Ids(g) /\ IsFiniteSet(D) /\ \A x \in D : g.at[x] \in Nat
  <2>1. D \subseteq Ids(g)
    BY DEF FusibleOps
  <2>. QED
    BY <2>1, FS_Subset DEF Finite, NodeGraph
<1>2. ASSUME NEW x \in D, NEW d \in g.op[x].deps, FusesInto(g, x, d)
      PROVE  d \in D /\ g.at[d] < g.at[x] /\ d # x /\ next[x] = d /\ u[d] = u[x]
  <2>1. /\ g.op[x].deps = {d} /\ Fusible(g.op[d]) /\ g.at[d] < g.at[x]
        /\ g.op[d].unit = g.op[x].unit
    BY <1>2 DEF FusesInto
  <2>2. d \in D
    BY <1>1, <2>1 DEF FusibleOps, Finite
  <2>3. d # x
    BY <1>1, <2>1
  <2>4. next[x] = CHOOSE e \in g.op[x].deps : FusesInto(g, x, e)
    BY <1>2
  <2>5. next[x] = d
    <3>1. (CHOOSE e \in g.op[x].deps : FusesInto(g, x, e)) \in g.op[x].deps
      BY <1>2
    <3>. QED
      BY <2>1, <2>4, <3>1
  <2>. QED
    BY <2>1, <2>2, <2>3, <2>5
<1>3. ASSUME NEW x \in D, ~ \E d \in g.op[x].deps : FusesInto(g, x, d) PROVE next[x] = x
  BY <1>3
<1>4. next \in [D -> D] /\ \A x \in D : next[x] = x \/ g.at[next[x]] < g.at[x]
  <2>1. \A x \in D : next[x] \in D /\ (next[x] = x \/ g.at[next[x]] < g.at[x])
    BY <1>2, <1>3, Zenon
  <2>. QED
    BY <2>1
<1>5. \A x \in D : u[next[x]] = u[x]
  BY <1>2, <1>3, Zenon
<1>6. \A x \in D : (\E d \in g.op[x].deps : FusesInto(g, x, d)) <=> next[x] # x
  BY <1>2, <1>3, Zenon
<1> DEFINE Rec(h) == h = [x \in D |-> IF \E d \in g.op[x].deps : FusesInto(g, x, d)
                                      THEN h[CHOOSE d \in g.op[x].deps : FusesInto(g, x, d)] ELSE x]
<1>7. KernelHeads(g) = CHOOSE h : Rec(h)
  BY Zenon DEF KernelHeads, FusibleOps
<1>8. \A h : LeadsTo(h, next, D) <=> Rec(h)
  <2>. TAKE h
  <2>1. \A x \in D : (IF next[x] # x THEN h[next[x]] ELSE x) =
                     (IF \E d \in g.op[x].deps : FusesInto(g, x, d)
                      THEN h[CHOOSE d \in g.op[x].deps : FusesInto(g, x, d)] ELSE x)
    <3>. TAKE x \in D
    <3>1. CASE \E d \in g.op[x].deps : FusesInto(g, x, d)
      <4>1. next[x] # x /\ next[x] = CHOOSE d \in g.op[x].deps : FusesInto(g, x, d)
        BY <1>6, <3>1
      <4>. QED
        BY <3>1, <4>1, Zenon
    <3>2. CASE ~ \E d \in g.op[x].deps : FusesInto(g, x, d)
      BY <1>6, <3>2, Zenon
    <3>. QED
      BY <3>1, <3>2
  <2>2. [x \in D |-> IF next[x] # x THEN h[next[x]] ELSE x] =
        [x \in D |-> IF \E d \in g.op[x].deps : FusesInto(g, x, d)
                     THEN h[CHOOSE d \in g.op[x].deps : FusesInto(g, x, d)] ELSE x]
    BY <2>1, Zenon
  <2>. QED
    BY <2>2, Zenon DEF LeadsTo
<1> HIDE DEF D, next, u
<1>9. \E h : LeadsTo(h, next, D)
  BY <1>1, <1>4, HeadExists
<1> DEFINE heads == KernelHeads(g)
<1>10. LeadsTo(heads, next, D)
  <2>1. \E h : Rec(h)
    BY <1>8, <1>9, Zenon
  <2> HIDE DEF Rec
  <2>2. Rec(heads)
    BY <1>7, <2>1, Zenon
  <2>. QED
    BY <1>8, <2>2, Zenon
<1> HIDE DEF heads
<1> DEFINE at == g.at
<1>at. \A x \in D : at[x] \in Nat
  BY <1>1
<1>at2. \A x \in D : next[x] = x \/ at[next[x]] < at[x]
  BY <1>4
<1> HIDE DEF at
<1>hd. Headed(heads, next, D, at, u)
  BY <1>1, <1>4, <1>5, <1>10, <1>at, <1>at2, HeadFacts
<1>11. \A x \in D : /\ heads[x] \in D /\ heads[heads[x]] = heads[x]
                    /\ u[heads[x]] = u[x] /\ g.at[heads[x]] <= g.at[x]
                    /\ heads[next[x]] = heads[x]
                    /\ next[x] # x <=> heads[x] # x
  BY <1>hd DEF Headed, at
<1>12. DOMAIN heads = D
  BY <1>10 DEF LeadsTo
<1>13. \A x \in D : g.op[heads[x]].unit = g.op[x].unit
  BY <1>11 DEF u
<1>14. \A x \in D : \A d \in g.op[x].deps : FusesInto(g, x, d) => heads[d] = heads[x] /\ heads[x] # x
  BY <1>2, <1>11
<1>15. \A x \in D : heads[x] # x => \E d \in g.op[x].deps : FusesInto(g, x, d)
  BY <1>6, <1>11
<1>. QED
  BY <1>11, <1>12, <1>13, <1>14, <1>15 DEF HeadsOf, D, heads

-----------------------------------------------------------------------------
(* The passes of _finish: they change what is charged, and where nothing.    *)

(* b computes what a computes where a does.                                  *)
Same(a, b) ==
  b \in Node /\ Alike(a, b) /\ b.unit = a.unit /\ (b.resident <=> a.resident)

(* g and h have the same ops on the same units.                              *)
SameUnits(g, h) ==
  /\ SameOps(g, h)
  /\ \A i \in Ids(g) : h.op[i].unit = g.op[i].unit /\ (h.op[i].resident <=> g.op[i].resident)

(* What a pass leaves of the tags another one writes.                        *)
Chained(a, b) == b.fused = a.fused /\ b.fusedGroup = a.fusedGroup
(* The tags of a kernel.                                                     *)
TaggedAs(b, f, n) == b.fused = f /\ b.fusedGroup = n
(* b moves the bytes that a moves.                                           *)
Sized(a, b) == b.bytes = a.bytes /\ b.basis = a.basis /\ b.domain = a.domain

(* A pass that changes each node's charges only leaves every node where it   *)
(* was.                                                                      *)
LEMMA SameOnes ==
  ASSUME NEW g, NodeGraph(g), NEW f, f = [x \in Ids(g) |-> f[x]],
         \A x \in Ids(g) : Same(g.op[x], f[x]), NEW h, h = [g EXCEPT !.op = f]
  PROVE  SameUnits(g, h) /\ h.op = f
<1>1. \A x \in Ids(g) : f[x] \in Node
  BY DEF Same
<1>2. NodeGraph(h) /\ Ids(h) = Ids(g) /\ h.at = g.at /\ h.op = f
  BY <1>1, NewOps
<1>. QED
  BY <1>2 DEF SameUnits, SameOps, Same

(* Two such passes make one.                                                 *)
LEMMA SameUnitsTwice ==
  ASSUME NEW g, NEW h, NEW k, SameUnits(g, h), SameUnits(h, k)
  PROVE  SameUnits(g, k)
<1>1. SameOps(g, h) /\ SameOps(h, k)
  BY DEF SameUnits
<1>2. SameOps(g, k)
  <2>1. NodeGraph(k) /\ Ids(k) = Ids(g) /\ Ids(h) = Ids(g) /\ k.at = g.at
    BY <1>1 DEF SameOps
  <2>2. ASSUME NEW i \in Ids(g) PROVE Alike(g.op[i], k.op[i])
    <3>1. Alike(g.op[i], h.op[i]) /\ Alike(h.op[i], k.op[i])
      BY <1>1, <2>1 DEF SameOps
    <3>. QED
      BY <3>1 DEF Alike
  <2>. QED
    BY <2>1, <2>2 DEF SameOps
<1>3. \A i \in Ids(g) : k.op[i].unit = g.op[i].unit /\ (k.op[i].resident <=> g.op[i].resident)
  BY <1>1 DEF SameUnits, SameOps
<1>. QED
  BY <1>2, <1>3 DEF SameUnits

(* The weight bytes of its unit change only the bytes of a matmul.           *)
LEMMA SizedNode ==
  ASSUME NEW a \in Node, a.cat = "matmul", a.shape \in MatmulShapes,
         BaseBytes(a) = ShapeBytes(a.shape),
         NEW b, b = [a EXCEPT !.basis = BaseBytes(a), !.bytes = UnitBytes(a)]
  PROVE  Same(a, b)
<1>1. a = [x \in NodeFields |-> a[x]]
  BY NodeForm, Zenon
<1>2. /\ a.shape.M \in Positive /\ a.shape.K \in Positive /\ a.shape.N \in Positive
      /\ DOMAIN a.shape = {"M", "K", "N"}
  BY DEF MatmulShapes
<1>3. IsMatmul(a.shape)
  BY <1>2 DEF IsMatmul
<1> DEFINE M == a.shape.M
           K == a.shape.K
           N == a.shape.N
           w == (IF WeightsHeld(a) THEN 0
                 ELSE IF a.unit \in DOMAIN WeightBytes THEN WeightBytes[a.unit] ELSE 1)
<1>4. BaseBytes(a) = M * K + K * N + M * N
  BY <1>3 DEF ShapeBytes
<1>5. UnitBytes(a) = BaseBytes(a) + K * N * (w - 1)
  BY DEF UnitBytes
<1>6. w \in Nat
  BY UnitsAssumption
<1>7. M \in Nat /\ K \in Nat /\ N \in Nat /\ M > 0 /\ K > 0 /\ N > 0
  BY <1>2 DEF Positive
<1> HIDE DEF M, K, N, w
<1>8. M * K \in Nat /\ K * N \in Nat /\ M * N \in Nat /\ M * K > 0
  BY <1>7, ProductPositive
<1>9. BaseBytes(a) \in Nat /\ BaseBytes(a) > 0
  BY <1>4, <1>8
<1>10. UnitBytes(a) \in Nat
  <2>1. K * N * (w - 1) = K * N * w - K * N
    BY <1>6, <1>7
  <2>2. K * N * w \in Nat
    BY <1>6, <1>8
  <2> DEFINE x == K * N
             y == x * w
             z == M * K
             v == M * N
  <2>3. UnitBytes(a) = z + x + v + (y - x)
    BY <1>4, <1>5, <2>1
  <2>4. x \in Nat /\ y \in Nat /\ z \in Nat /\ v \in Nat
    BY <1>8, <2>2
  <2> HIDE DEF x, y, z, v
  <2>. QED
    BY <2>3, <2>4
<1> DEFINE p == BaseBytes(a)
           q == UnitBytes(a)
<1>11. p \in Nat /\ q \in Nat /\ p > 0 /\ b = [a EXCEPT !.basis = p, !.bytes = q]
  BY <1>9, <1>10
<1> HIDE DEF p, q
<1>12. b \in Node
  BY <1>11 DEF Node
<1>13. /\ b.cat = a.cat /\ b.prec = a.prec /\ b.deps = a.deps /\ b.shape = a.shape
       /\ b.group = a.group /\ b.src = a.src /\ b.part = a.part /\ b.unit = a.unit
       /\ b.basis = p /\ (b.resident <=> a.resident)
  BY <1>1, <1>11 DEF NodeFields
<1>14. BaseBytes(b) = p
  BY <1>11, <1>13 DEF BaseBytes
<1>. QED
  BY <1>12, <1>13, <1>14 DEF Same, Alike, p

(* Tagging a node with its memory domain changes nothing else.               *)
LEMMA DomainNode ==
  ASSUME NEW a \in Node, NEW b, b = [a EXCEPT !.domain = Residency(a)]
  PROVE  Same(a, b) /\ b.domain = Residency(b) /\ Chained(a, b)
<1>1. a = [x \in NodeFields |-> a[x]]
  BY NodeForm, Zenon
<1> DEFINE m == Residency(a)
<1>2. m \in {"unset", "dram", "cpu_cache", "none"} /\ b = [a EXCEPT !.domain = m]
  BY DEF Residency
<1>m. m = Residency(a)
  OBVIOUS
<1> HIDE DEF m
<1>3. b \in Node
  BY <1>2 DEF Node
<1>4. /\ b.cat = a.cat /\ b.prec = a.prec /\ b.deps = a.deps /\ b.shape = a.shape
      /\ b.group = a.group /\ b.src = a.src /\ b.part = a.part /\ b.unit = a.unit
      /\ b.basis = a.basis /\ b.bytes = a.bytes /\ (b.resident <=> a.resident)
      /\ b.domain = m /\ b.fused = a.fused /\ b.fusedGroup = a.fusedGroup
  BY <1>1, <1>2 DEF NodeFields
<1>5. BaseBytes(b) = BaseBytes(a) /\ b.domain = Residency(b)
  BY <1>m, <1>4 DEF BaseBytes, Residency
<1>. QED
  BY <1>3, <1>4, <1>5 DEF Same, Alike, Chained

(* Tagging a node with its kernel changes nothing else.                      *)
LEMMA ChainNode ==
  ASSUME NEW a \in Node, NEW f \in {"none", "head", "follower"}, NEW n \in Nat,
         NEW b, b = [a EXCEPT !.fused = f, !.fusedGroup = n]
  PROVE  Same(a, b) /\ Sized(a, b) /\ TaggedAs(b, f, n)
<1>1. a = [x \in NodeFields |-> a[x]]
  BY NodeForm, Zenon
<1>3. b \in Node
  BY DEF Node
<1>4. /\ b.cat = a.cat /\ b.prec = a.prec /\ b.deps = a.deps /\ b.shape = a.shape
      /\ b.group = a.group /\ b.src = a.src /\ b.part = a.part /\ b.unit = a.unit
      /\ b.basis = a.basis /\ b.bytes = a.bytes /\ (b.resident <=> a.resident)
      /\ b.domain = a.domain /\ b.fused = f /\ b.fusedGroup = n
  BY <1>1 DEF NodeFields
<1>5. BaseBytes(b) = BaseBytes(a)
  BY <1>4 DEF BaseBytes
<1>. QED
  BY <1>3, <1>4, <1>5 DEF Same, Alike, Sized, TaggedAs

(* Charging a node a sync changes nothing else.                              *)
LEMMA SyncNode ==
  ASSUME NEW a \in Node, NEW s \in Nat, NEW b, b = [a EXCEPT !.sync = s]
  PROVE  /\ Same(a, b) /\ Sized(a, b) /\ Chained(a, b)
         /\ b.sync = s /\ b.mergeSync = a.mergeSync
<1>1. a = [x \in NodeFields |-> a[x]]
  BY NodeForm, Zenon
<1>3. b \in Node
  BY DEF Node
<1>4. /\ b.cat = a.cat /\ b.prec = a.prec /\ b.deps = a.deps /\ b.shape = a.shape
      /\ b.group = a.group /\ b.src = a.src /\ b.part = a.part /\ b.unit = a.unit
      /\ b.basis = a.basis /\ b.bytes = a.bytes /\ (b.resident <=> a.resident)
      /\ b.domain = a.domain /\ b.fused = a.fused /\ b.fusedGroup = a.fusedGroup
      /\ b.sync = s /\ b.mergeSync = a.mergeSync
  BY <1>1 DEF NodeFields
<1>5. BaseBytes(b) = BaseBytes(a)
  BY <1>4 DEF BaseBytes
<1>. QED
  BY <1>3, <1>4, <1>5 DEF Same, Alike, Sized, Chained

(* A node is the same as itself.                                             *)
LEMMA SameNode ==
  ASSUME NEW a \in Node
  PROVE  Same(a, a)
BY DEF Same, Alike

(* What a reader of the plan sees of a graph is what it sees of the other.   *)
LEMMA SameBoundary ==
  ASSUME NEW g, NEW h, SameUnits(g, h), Finite(g)
  PROVE  \A i \in Ids(g) : Boundary(h, h.op[i]) <=> Boundary(g, g.op[i])
<1>1. \A i \in Ids(g) : /\ h.op[i].unit = g.op[i].unit /\ h.op[i].deps = g.op[i].deps
                        /\ g.op[i].deps \subseteq Ids(g)
  BY DEF SameUnits, SameOps, Alike, Finite
<1>. QED
  BY <1>1 DEF Boundary

(* The kernels follow from units and dependencies alone.                     *)
LEMMA SameHeads ==
  ASSUME NEW g, NEW h, SameUnits(g, h), Finite(g), NEW heads, HeadsOf(g, heads)
  PROVE  HeadsOf(h, heads)
<1>1. /\ Ids(h) = Ids(g) /\ h.at = g.at /\ Deps(h) = Deps(g)
      /\ \A i \in Ids(g) : /\ h.op[i].unit = g.op[i].unit /\ h.op[i].deps = g.op[i].deps
                           /\ h.op[i].cat = g.op[i].cat /\ g.op[i].deps \subseteq Ids(g)
  BY SameReads DEF SameUnits, SameOps, Alike, Finite
<1>2. \A i \in Ids(g) : Fusible(h.op[i]) <=> Fusible(g.op[i])
  BY <1>1 DEF Fusible
<1>3. FusibleOps(h) = FusibleOps(g) /\ FusibleOps(g) \subseteq Ids(g)
  BY <1>1, <1>2 DEF FusibleOps
<1>4. \A x \in Ids(g) : \A d \in g.op[x].deps : FusesInto(h, x, d) <=> FusesInto(g, x, d)
  BY <1>1, <1>2 DEF FusesInto
<1>. QED
  BY <1>1, <1>3, <1>4 DEF HeadsOf

-----------------------------------------------------------------------------
(* What the tail leaves in the tags of a plan.                              *)

(* The domains fit the units and the bytes,                                  *)
Domained(g) == \A i \in Ids(g) : g.op[i].domain = Residency(g.op[i])

(* the kernels are those of KernelHeads,                                     *)
Fused(g) ==
  \E heads : HeadsOf(g, heads) /\ \A i \in Ids(g) :
    /\ g.op[i].fused = IF i \notin FusibleOps(g) THEN "none"
                       ELSE IF heads[i] = i THEN "head" ELSE "follower"
    /\ g.op[i].fusedGroup = IF i \in FusibleOps(g) THEN heads[i] ELSE 0

(* and a sync s is charged at each boundary.                                 *)
Synced(g, s) ==
  \A i \in Ids(g) :
    g.op[i].sync = IF g.op[i].cat = "merge" THEN g.op[i].mergeSync
                   ELSE IF Boundary(g, g.op[i]) THEN s ELSE 0

(* The tags that the tail of a scheduler leaves.                             *)
Tailed(g, s) == Domained(g) /\ Fused(g) /\ Synced(g, s)

(* The pass that sets the weight bytes moves nothing.                        *)
LEMMA BytesPass ==
  ASSUME NEW g, NodeGraph(g), Typed(g), NEW h, h = WithUnitBytes(g)
  PROVE  SameUnits(g, h)
<1> DEFINE f == [x \in Ids(g) |-> IF Rescaled(g.op[x])
                                  THEN [g.op[x] EXCEPT !.basis = BaseBytes(g.op[x]),
                                                       !.bytes = UnitBytes(g.op[x])]
                                  ELSE g.op[x]]
<1>1. h = [g EXCEPT !.op = f]
  BY DEF WithUnitBytes, MapOps
<1>2. ASSUME NEW x \in Ids(g) PROVE Same(g.op[x], f[x])
  <2>1. g.op[x] \in Node
    BY DEF NodeGraph
  <2>2. CASE Rescaled(g.op[x])
    <3> DEFINE a == g.op[x]
               b == f[x]
    <3>0. g.op[x].cat = "matmul"
      BY <2>2 DEF Rescaled
    <3>1. b = [a EXCEPT !.basis = BaseBytes(a), !.bytes = UnitBytes(a)]
      BY <2>2
    <3>3. a.shape \in MatmulShapes /\ BaseBytes(a) = ShapeBytes(a.shape)
      BY <3>0 DEF Typed, ShapesOf, Traceable, LegalDims
    <3>4. a \in Node /\ a.cat = "matmul"
      BY <2>1, <3>0
    <3> HIDE DEF a, b
    <3>5. Same(a, b)
      BY <3>1, <3>3, <3>4, SizedNode
    <3>. QED
      BY <3>5 DEF a, b
  <2>3. CASE ~Rescaled(g.op[x])
    BY <2>1, <2>3, SameNode
  <2>. QED
    BY <2>2, <2>3
<1>3. f = [x \in Ids(g) |-> f[x]]
  OBVIOUS
<1> HIDE DEF f
<1>. QED
  BY <1>1, <1>2, <1>3, SameOnes

(* The pass that sets the domains sets them right and moves nothing.         *)
LEMMA DomainPass ==
  ASSUME NEW g, NodeGraph(g), NEW h, h = WithDomains(g)
  PROVE  /\ SameUnits(g, h) /\ Domained(h)
         /\ \A i \in Ids(g) : Chained(g.op[i], h.op[i])
<1> DEFINE f == [x \in Ids(g) |-> [g.op[x] EXCEPT !.domain = Residency(g.op[x])]]
<1>1. h = [g EXCEPT !.op = f]
  BY DEF WithDomains, MapOps
<1>2. ASSUME NEW x \in Ids(g)
      PROVE  Same(g.op[x], f[x]) /\ f[x].domain = Residency(f[x]) /\ Chained(g.op[x], f[x])
  <2> DEFINE a == g.op[x]
             b == f[x]
  <2>1. a \in Node /\ b = [a EXCEPT !.domain = Residency(a)]
    BY DEF NodeGraph
  <2> HIDE DEF a, b
  <2>2. Same(a, b) /\ b.domain = Residency(b) /\ Chained(a, b)
    BY <2>1, DomainNode
  <2>. QED
    BY <2>2 DEF a, b
<1>3. f = [x \in Ids(g) |-> f[x]]
  OBVIOUS
<1> HIDE DEF f
<1>4. SameUnits(g, h) /\ h.op = f
  BY <1>1, <1>2, <1>3, SameOnes
<1>. QED
  BY <1>2, <1>4 DEF Domained, SameUnits, SameOps

(* The pass that tags the kernels gives each follower a head and moves       *)
(* nothing.                                                                  *)
LEMMA ChainPass ==
  ASSUME NEW g, NodeGraph(g), Finite(g), Ids(g) \subseteq Nat, NEW h, h = WithFusedChains(g)
  PROVE  /\ SameUnits(g, h) /\ Fused(h)
         /\ \A i \in Ids(g) : Sized(g.op[i], h.op[i])
<1> DEFINE heads == KernelHeads(g)
           tag(x) == IF x \notin DOMAIN heads THEN "none"
                     ELSE IF heads[x] = x THEN "head" ELSE "follower"
           to(x) == IF x \in DOMAIN heads THEN heads[x] ELSE 0
           f == [x \in Ids(g) |-> [g.op[x] EXCEPT !.fused = tag(x), !.fusedGroup = to(x)]]
<1>1. h = [g EXCEPT !.op = f]
  BY DEF WithFusedChains
<1>2. HeadsOf(g, heads)
  BY KernelHeadsFacts
<1> HIDE DEF heads
<1>3. ASSUME NEW x \in Ids(g)
      PROVE  /\ Same(g.op[x], f[x]) /\ Sized(g.op[x], f[x])
             /\ f[x].fused = tag(x) /\ f[x].fusedGroup = to(x)
  <2> DEFINE a == g.op[x]
             b == f[x]
             t == tag(x)
             n == to(x)
  <2>1. a \in Node /\ b = [a EXCEPT !.fused = t, !.fusedGroup = n]
    BY DEF NodeGraph
  <2>2. t \in {"none", "head", "follower"}
    OBVIOUS
  <2>3. n \in Nat
    <3>1. ASSUME NEW y \in DOMAIN heads PROVE heads[y] \in Nat
      <4>1. heads[y] \in Ids(g)
        BY <1>2 DEF HeadsOf, FusibleOps
      <4>. QED
        BY <4>1
    <3>. QED
      BY <3>1
  <2> HIDE DEF a, b, t, n
  <2>0. a \in Node /\ t \in {"none", "head", "follower"} /\ n \in Nat
        /\ b = [a EXCEPT !.fused = t, !.fusedGroup = n]
    BY <2>1, <2>2, <2>3
  <2> HIDE DEF f, tag, to
  <2>4. Same(a, b) /\ Sized(a, b) /\ TaggedAs(b, t, n)
    BY <2>0, ChainNode
  <2>. QED
    BY <2>4 DEF a, b, t, n, f, tag, to, TaggedAs
<1>4. f = [x \in Ids(g) |-> f[x]]
  OBVIOUS
<1> HIDE DEF f
<1>5. SameUnits(g, h) /\ h.op = f
  BY <1>1, <1>3, <1>4, SameOnes
<1>6. HeadsOf(h, heads) /\ Ids(h) = Ids(g) /\ DOMAIN heads = FusibleOps(h)
  <2>1. HeadsOf(h, heads)
    BY <1>2, <1>5, SameHeads
  <2>. QED
    BY <1>5, <2>1 DEF HeadsOf, SameUnits, SameOps
<1>7. Fused(h)
  BY <1>3, <1>5, <1>6 DEF Fused
<1>. QED
  BY <1>3, <1>5, <1>7

(* The pass that charges syncs charges each boundary and moves nothing.      *)
LEMMA SyncPass ==
  ASSUME NEW g, NodeGraph(g), Finite(g), NEW s \in Nat, NEW h, h = WithSync(g, s)
  PROVE  /\ SameUnits(g, h) /\ Synced(h, s)
         /\ \A i \in Ids(g) : Sized(g.op[i], h.op[i]) /\ Chained(g.op[i], h.op[i])
<1> DEFINE cost(n) == IF n.cat = "merge" THEN n.mergeSync
                      ELSE IF Boundary(g, n) THEN s ELSE 0
           f == [x \in Ids(g) |-> [g.op[x] EXCEPT !.sync = cost(g.op[x])]]
<1>1. h = [g EXCEPT !.op = f]
  BY DEF WithSync, MapOps
<1>2. ASSUME NEW x \in Ids(g)
      PROVE  /\ Same(g.op[x], f[x]) /\ Sized(g.op[x], f[x]) /\ Chained(g.op[x], f[x])
             /\ f[x].sync = cost(g.op[x]) /\ f[x].mergeSync = g.op[x].mergeSync
  <2> DEFINE a == g.op[x]
             b == f[x]
             t == cost(a)
  <2>1. a \in Node /\ b = [a EXCEPT !.sync = t]
    BY DEF NodeGraph
  <2>2. a.mergeSync \in Nat
    BY <2>1 DEF Node
  <2>3. t \in Nat
    BY <2>2
  <2> HIDE DEF a, b, t
  <2>4. Same(a, b) /\ Sized(a, b) /\ Chained(a, b) /\ b.sync = t /\ b.mergeSync = a.mergeSync
    BY <2>1, <2>3, SyncNode
  <2>. QED
    BY <2>4 DEF a, b, t
<1>3. f = [x \in Ids(g) |-> f[x]]
  OBVIOUS
<1> HIDE DEF f
<1>4. SameUnits(g, h) /\ h.op = f
  BY <1>1, <1>2, <1>3, SameOnes
<1>5. Ids(h) = Ids(g) /\ \A i \in Ids(g) : h.op[i].cat = g.op[i].cat
  BY <1>4 DEF SameUnits, SameOps, Alike
<1>6. \A i \in Ids(g) : Boundary(h, h.op[i]) <=> Boundary(g, g.op[i])
  BY <1>4, SameBoundary
<1>7. Synced(h, s)
  <2>1. ASSUME NEW i \in Ids(g)
        PROVE  h.op[i].sync = IF h.op[i].cat = "merge" THEN h.op[i].mergeSync
                              ELSE IF Boundary(h, h.op[i]) THEN s ELSE 0
    <3>1. h.op[i].sync = cost(g.op[i]) /\ h.op[i].mergeSync = g.op[i].mergeSync
      BY <1>2, <1>4
    <3>. QED
      BY <1>5, <1>6, <3>1
  <2>. QED
    BY <1>5, <2>1 DEF Synced
<1>. QED
  BY <1>2, <1>4, <1>7

(* The whole tail, after the conversions.                                   *)
LEMMA TailPasses ==
  ASSUME NEW g, NodeGraph(g), Finite(g), Ids(g) \subseteq Nat, Typed(g),
         NEW s \in Nat,
         NEW h, h = WithSync(WithFusedChains(WithDomains(WithUnitBytes(g))), s)
  PROVE  SameUnits(g, h) /\ Tailed(h, s)
<1> DEFINE a == WithUnitBytes(g)
           b == WithDomains(a)
           c == WithFusedChains(b)
<1>0. h = WithSync(c, s)
  OBVIOUS
<1>1. SameUnits(g, a)
  BY BytesPass
<1>a. NodeGraph(a) /\ Finite(a)
  BY <1>1, SameReads DEF SameUnits, SameOps
<1> HIDE DEF a
<1>2. /\ SameUnits(a, b) /\ Domained(b)
  BY <1>a, DomainPass
<1>b. NodeGraph(b) /\ Finite(b) /\ Ids(b) \subseteq Nat
  BY <1>1, <1>2, <1>a, SameReads DEF SameUnits, SameOps
<1> HIDE DEF b
<1>3. /\ SameUnits(b, c) /\ Fused(c) /\ \A i \in Ids(b) : Sized(b.op[i], c.op[i])
  BY <1>b, ChainPass
<1>c. NodeGraph(c) /\ Finite(c)
  BY <1>3, <1>b, SameReads DEF SameUnits, SameOps
<1> HIDE DEF c
<1>4. /\ SameUnits(c, h) /\ Synced(h, s)
      /\ \A i \in Ids(c) : Sized(c.op[i], h.op[i]) /\ Chained(c.op[i], h.op[i])
  BY <1>0, <1>c, SyncPass
<1>5. SameUnits(g, h)
  BY <1>1, <1>2, <1>3, <1>4, SameUnitsTwice
<1>6. Ids(b) = Ids(c) /\ Ids(h) = Ids(c)
  BY <1>3, <1>4 DEF SameUnits, SameOps
<1>7. Domained(h)
  <2>1. ASSUME NEW i \in Ids(c) PROVE h.op[i].domain = Residency(h.op[i])
    <3>1. b.op[i].domain = Residency(b.op[i])
      BY <1>2, <1>6 DEF Domained
    <3>2. /\ h.op[i].domain = b.op[i].domain /\ h.op[i].bytes = b.op[i].bytes
          /\ h.op[i].unit = b.op[i].unit /\ h.op[i].cat = b.op[i].cat
      BY <1>3, <1>4, <1>6 DEF Sized, SameUnits, SameOps, Alike
    <3>. QED
      BY <3>1, <3>2 DEF Residency
  <2>. QED
    BY <1>6, <2>1 DEF Domained
<1>8. Fused(h)
  <2>1. PICK heads :
          HeadsOf(c, heads) /\ \A i \in Ids(c) :
            /\ c.op[i].fused = IF i \notin FusibleOps(c) THEN "none"
                               ELSE IF heads[i] = i THEN "head" ELSE "follower"
            /\ c.op[i].fusedGroup = IF i \in FusibleOps(c) THEN heads[i] ELSE 0
    BY <1>3 DEF Fused
  <2>2. HeadsOf(h, heads)
    BY <1>4, <1>c, <2>1, SameHeads
  <2>3. FusibleOps(h) = FusibleOps(c)
    BY <2>1, <2>2 DEF HeadsOf
  <2>4. \A i \in Ids(c) : h.op[i].fused = c.op[i].fused /\ h.op[i].fusedGroup = c.op[i].fusedGroup
    BY <1>4 DEF Chained
  <2>. QED
    BY <1>6, <2>1, <2>2, <2>3, <2>4 DEF Fused
<1>. QED
  BY <1>4, <1>5, <1>7, <1>8 DEF Tailed

-----------------------------------------------------------------------------
(* What insert_conversions makes of a graph without a convert.              *)

(* Between p and c the value changes its precision, at the GPU's boundary.   *)
Changes(p, c) == p.prec # c.prec /\ ((p.unit = "gpu") # (c.unit = "gpu"))

(* k converts what p hands to c.                                             *)
ConvertOf(k, p, c, from) ==
  /\ k \in Node /\ k.cat = "convert" /\ k.prec = c.prec /\ k.deps = {from}
  /\ k.unit \in {p.unit, c.unit} /\ ~k.resident /\ k.mergeSync = 0
  /\ k.fused = "none" /\ k.domain = Residency(k)

(* The convert of an edge is a node, made of the edge's two ends.            *)
LEMMA ConvertNode ==
  ASSUME NEW p \in Node, NEW c \in Node, NEW e, e[1] \in Nat, NEW place,
         NEW k, k = Convert(e, p, c, place)
  PROVE  ConvertOf(k, p, c, e[1])
<1>1. p = [x \in NodeFields |-> p[x]] /\ c.prec \in {"int8", "fp16"} /\ p.shape \in Shapes
      /\ p.prec \in {"int8", "fp16"}
      /\ p.unit \in {"cim", "gpu", "npu", "cpu", "mem", NoUnit}
      /\ c.unit \in {"cim", "gpu", "npu", "cpu", "mem", NoUnit}
  BY NodeForm, Zenon
<1> DEFINE u == IF place = "producer" THEN p.unit ELSE c.unit
           q == OutElems(p.shape) * (PrecisionBytes(p.prec) + PrecisionBytes(c.prec))
           m == [p EXCEPT
                  !.cat = "convert", !.prec = c.prec, !.deps = {e[1]}, !.group = 0, !.basis = 0,
                  !.unit = u, !.bytes = q,
                  !.resident = FALSE, !.sync = 0, !.mergeSync = 0, !.fused = "none",
                  !.fusedGroup = 0]
<1>2. k = [m EXCEPT !.domain = Residency(m)]
  BY DEF Convert
<1>3. u \in {p.unit, c.unit} /\ u \in {"cim", "gpu", "npu", "cpu", "mem", NoUnit}
  BY <1>1
<1>4. q \in Nat
  <2>1. OutElems(p.shape) \in Nat
    BY <1>1, ShapeNumbers DEF Positive
  <2>2. PrecisionBytes(p.prec) + PrecisionBytes(c.prec) \in Nat
    BY DEF PrecisionBytes
  <2>. QED
    BY <2>1, <2>2
<1> DEFINE r == c.prec
           f == e[1]
<1>5. m = [p EXCEPT
            !.cat = "convert", !.prec = r, !.deps = {f}, !.group = 0, !.basis = 0,
            !.unit = u, !.bytes = q,
            !.resident = FALSE, !.sync = 0, !.mergeSync = 0, !.fused = "none",
            !.fusedGroup = 0]
  OBVIOUS
<1>6. r \in {"int8", "fp16"} /\ f \in Nat
  BY <1>1
<1>r. r = c.prec /\ f = e[1]
  OBVIOUS
<1> HIDE DEF u, q, m, r, f
<1>7. m \in Node
  BY <1>3, <1>4, <1>5, <1>6 DEF Node
<1>8. /\ m.cat = "convert" /\ m.prec = r /\ m.deps = {f} /\ m.unit = u /\ ~m.resident
      /\ m.mergeSync = 0 /\ m.fused = "none"
  BY <1>1, <1>5 DEF NodeFields
<1>9. Same(m, k) /\ k.domain = Residency(k) /\ Chained(m, k)
  BY <1>2, <1>7, DomainNode
<1>10. k.mergeSync = m.mergeSync
  BY <1>2, <1>7 DEF Node
<1>. QED
  BY <1>3, <1>8, <1>9, <1>10, <1>r DEF ConvertOf, Same, Alike, Chained

(* h is g with a convert ids[e] on every crossing edge e.                    *)
Converts(g, h, ids) ==
  /\ NodeGraph(h)
  /\ DOMAIN ids = Crossing(g) /\ Ids(h) = Ids(g) \cup {ids[e] : e \in Crossing(g)}
  /\ IsFiniteSet({ids[e] : e \in Crossing(g)})
  /\ \A e \in Crossing(g) : ids[e] \in Nat /\ \A x \in Ids(g) : x < ids[e]
  /\ \A e, f \in Crossing(g) : ids[e] = ids[f] => e = f
  /\ \A i, j \in Ids(h) : h.at[i] = h.at[j] => i = j
  /\ \A x \in Ids(g) :
       h.at[x] = g.at[x] /\ h.op[x] = [g.op[x] EXCEPT !.deps = {Through(ids, d, x) : d \in g.op[x].deps}]
  /\ \A e \in Crossing(g) : ConvertOf(h.op[ids[e]], g.op[e[1]], g.op[e[2]], e[1])

(* The edges that need a convert are finitely many edges of the graph.       *)
LEMMA CrossingEdges ==
  ASSUME NEW g, Listed(g)
  PROVE  /\ IsFiniteSet(Crossing(g))
         /\ \A e \in Crossing(g) : /\ e = <<e[1], e[2]>> /\ e[1] \in Ids(g) /\ e[2] \in Ids(g)
                                   /\ e[1] \in g.op[e[2]].deps
                                   /\ NeedsConversion(g.op[e[1]], g.op[e[2]])
<1>1. IsFiniteSet(Ids(g) \X Ids(g))
  BY FS_Product DEF Listed, Finite
<1>2. Crossing(g) \in SUBSET (Ids(g) \X Ids(g))
  BY DEF Crossing
<1>3. IsFiniteSet(Crossing(g))
  BY <1>1, <1>2, FS_Subset
<1>. QED
  BY <1>3 DEF Crossing

(* insert_conversions adds one node per such edge and leads the edge through *)
(* it.                                                                       *)
LEMMA ConvertedForm ==
  ASSUME NEW g, Listed(g), NEW place, NEW h, h = Converted(g, place)
  PROVE  \E ids : Converts(g, h, ids)
<1> DEFINE E == Crossing(g)
           ids == ConvertIds(g, E)
           edge(x) == CHOOSE e \in DOMAIN ids : ids[e] = x
           convert(x) == Convert(edge(x), g.op[edge(x)[1]], g.op[edge(x)[2]], place)
           end == Max(Range(g.at)) + 1
           base == FreshId(g)
           after == Ids(g) \cup Range(ids)
           hat == [x \in after |-> IF x \in Ids(g) THEN g.at[x] ELSE end + x - base]
           hop == [x \in after |->
                 IF x \in Ids(g)
                 THEN [g.op[x] EXCEPT !.deps = {Through(ids, d, x) : d \in g.op[x].deps}]
                 ELSE convert(x)]
<1>1. h = [at |-> hat, op |-> hop]
  BY Zenon DEF Converted
<1>2. base \in Nat /\ \A x \in Ids(g) : x < base /\ x \in Nat
  BY FreshIdFacts
<1>3. /\ IsFiniteSet(E)
      /\ \A e \in E : /\ e = <<e[1], e[2]>> /\ e[1] \in Ids(g) /\ e[2] \in Ids(g)
                      /\ e[1] \in g.op[e[2]].deps
  BY CrossingEdges
<1>4. /\ IsFiniteSet(Ids(g)) /\ Ids(g) # {} /\ NodeGraph(g)
      /\ \A i \in Ids(g) : g.at[i] \in Nat /\ g.op[i] \in Node
      /\ \A i, j \in Ids(g) : g.at[i] = g.at[j] => i = j
  BY DEF Listed, Finite, NodeGraph
<1>5. /\ ids \in [E -> base..(base + Cardinality(E) - 1)]
      /\ \A e, f \in E : ids[e] = ids[f] => e = f
  <2>1. /\ FreshId(g) \in Nat
        /\ \A e \in E : e = <<e[1], e[2]>> /\ e[1] \in Int /\ e[2] \in Int /\ g.at[e[2]] \in Int
        /\ \A e, f \in E : g.at[e[2]] = g.at[f[2]] => e[2] = f[2]
    BY <1>2, <1>3, <1>4
  <2> HIDE DEF E
  <2>. QED
    BY <1>3, <2>1, ConvertIdsFacts
<1>6. /\ DOMAIN ids = E /\ Range(ids) = {ids[e] : e \in E}
      /\ \A e \in E : ids[e] \in Nat /\ base <= ids[e] /\ \A x \in Ids(g) : x < ids[e]
  <2>1. Cardinality(E) \in Nat
    BY <1>3, FS_CardinalityType
  <2> HIDE DEF E, ids, base
  <2>. QED
    BY <1>2, <1>5, <2>1 DEF Range
<1>7. IsFiniteSet(Range(ids))
  <2> HIDE DEF E, ids
  <2>. QED
    BY <1>3, <1>5, <1>6, FiniteRange
<1>8. end \in Nat /\ \A x \in Ids(g) : g.at[x] < end
  <2>1. Range(g.at) = {g.at[x] : x \in Ids(g)} /\ DOMAIN g.at = Ids(g)
        /\ g.at = [x \in Ids(g) |-> g.at[x]]
    BY <1>4 DEF Range, NodeGraph
  <2> DEFINE a == g.at
             R == Range(a)
  <2>2. IsFiniteSet(R)
    <3>1. IsFiniteSet(DOMAIN a) /\ a = [x \in DOMAIN a |-> a[x]]
      BY <1>4, <2>1
    <3> HIDE DEF a
    <3>. QED
      BY <3>1, FiniteRange
  <2>3. R \in SUBSET Int /\ R # {}
    BY <1>4, <2>1
  <2>r. R = {g.at[x] : x \in Ids(g)} /\ end = Max(R) + 1
    BY <2>1
  <2> HIDE DEF R, a
  <2>4. Max(R) \in R /\ \A y \in R : y <= Max(R)
    BY <2>2, <2>3, MaxFacts
  <2>. QED
    BY <1>4, <2>r, <2>4
<1> HIDE DEF end, base
<1>9. \A e \in E : edge(ids[e]) = e
  <2>. TAKE e \in E
  <2> HIDE DEF E, ids
  <2>1. \E y \in DOMAIN ids : ids[y] = ids[e]
    BY <1>6
  <2>2. edge(ids[e]) \in DOMAIN ids /\ ids[edge(ids[e])] = ids[e]
    BY <2>1
  <2> HIDE DEF edge
  <2>. QED
    BY <1>5, <1>6, <2>2
<1>10. /\ h.at = hat /\ h.op = hop /\ Ids(h) = after
  BY <1>1 DEF Ids
<1>11. \A x \in Ids(g) :
          h.at[x] = g.at[x] /\ h.op[x] = [g.op[x] EXCEPT !.deps = {Through(ids, d, x) : d \in g.op[x].deps}]
  BY <1>10
<1>12. \A x \in Range(ids) : x \notin Ids(g) /\ h.at[x] = end + x - base /\ h.op[x] = convert(x)
  <2>1. \A x \in Range(ids) : x \notin Ids(g)
    BY <1>2, <1>6
  <2> HIDE DEF ids, convert
  <2>. QED
    BY <1>10, <2>1
<1>13. \A e \in E : ConvertOf(h.op[ids[e]], g.op[e[1]], g.op[e[2]], e[1])
  <2>. TAKE e \in E
  <2>1. h.op[ids[e]] = convert(ids[e])
    BY <1>6, <1>12
  <2>2. convert(ids[e]) = Convert(e, g.op[e[1]], g.op[e[2]], place)
    BY <1>9, Zenon
  <2> DEFINE p == g.op[e[1]]
             c == g.op[e[2]]
             k == h.op[ids[e]]
  <2>3. p \in Node /\ c \in Node /\ e[1] \in Nat /\ k = Convert(e, p, c, place)
    BY <1>2, <1>3, <1>4, <2>1, <2>2
  <2> HIDE DEF p, c, k
  <2>4. ConvertOf(k, p, c, e[1])
    BY <2>3, ConvertNode
  <2>. QED
    BY <2>4 DEF p, c, k
<1>14. \A x \in after : h.at[x] \in Nat /\ h.op[x] \in Node
  <2>1. ASSUME NEW x \in Ids(g) PROVE h.at[x] \in Nat /\ h.op[x] \in Node
    <3> DEFINE D == {Through(ids, d, x) : d \in g.op[x].deps}
               n == g.op[x]
    <3>1. n \in Node /\ h.op[x] = [n EXCEPT !.deps = D] /\ h.at[x] \in Nat
      BY <1>4, <1>11
    <3>2. D \in SUBSET Nat
      <4>1. \A d \in g.op[x].deps : d \in Ids(g)
        BY DEF Listed, Finite
      <4>2. \A d \in g.op[x].deps : Through(ids, d, x) \in Nat
        BY <1>2, <1>6, <4>1 DEF Through
      <4>. QED
        BY <4>2
    <3> HIDE DEF D, n
    <3>. QED
      BY <3>1, <3>2 DEF Node
  <2>2. ASSUME NEW x \in Range(ids) PROVE h.at[x] \in Nat /\ h.op[x] \in Node
    <3>1. PICK e \in E : x = ids[e]
      BY <1>6
    <3>2. h.op[x] \in Node
      BY <1>13, <3>1 DEF ConvertOf
    <3>3. x \in Nat /\ base <= x /\ h.at[x] = end + x - base
      BY <1>6, <1>12, <3>1
    <3>. QED
      BY <1>2, <1>8, <3>2, <3>3
  <2> HIDE DEF ids
  <2>. QED
    BY <2>1, <2>2
<1>15. NodeGraph(h)
  <2>1. h.at = [x \in Ids(h) |-> h.at[x]] /\ h.op = [x \in Ids(h) |-> h.op[x]]
        /\ h = [at |-> h.at, op |-> h.op]
    BY <1>1, <1>10
  <2>2. \A x \in Ids(h) : h.at[x] \in Nat /\ h.op[x] \in Node
    BY <1>10, <1>14
  <2> HIDE DEF hat, hop, after, ids
  <2>. QED
    BY <2>1, <2>2 DEF NodeGraph
<1>16. \A i, j \in Ids(h) : h.at[i] = h.at[j] => i = j
  <2>1. \A i, j \in Ids(g) : h.at[i] = h.at[j] => i = j
    BY <1>4, <1>11
  <2>2. \A i \in Ids(g) : \A j \in Range(ids) : h.at[i] < h.at[j]
    <3>. TAKE i \in Ids(g)
    <3>. TAKE j \in Range(ids)
    <3>1. j \in Nat /\ base <= j /\ h.at[j] = end + j - base
      BY <1>6, <1>12
    <3>2. h.at[i] = g.at[i] /\ g.at[i] < end /\ g.at[i] \in Nat
      BY <1>4, <1>8, <1>11
    <3>. QED
      BY <1>2, <1>8, <3>1, <3>2
  <2>3. \A i, j \in Range(ids) : h.at[i] = h.at[j] => i = j
    <3>1. \A i \in Range(ids) : i \in Nat /\ h.at[i] = end + i - base
      BY <1>6, <1>12
    <3> HIDE DEF ids
    <3>. QED
      BY <1>2, <1>8, <3>1
  <2>4. \A i \in Ids(h) : h.at[i] \in Nat
    BY <1>10, <1>14
  <2>5. Ids(h) = Ids(g) \cup Range(ids)
    BY <1>10
  <2> DEFINE R == Range(ids)
  <2> HIDE DEF R
  <2>6. ASSUME NEW i \in Ids(h), NEW j \in Ids(h), h.at[i] = h.at[j] PROVE i = j
    <3>1. \A x \in Ids(g) : \A y \in R : h.at[x] < h.at[y]
      BY <2>2 DEF R
    <3>2. \A x, y \in R : h.at[x] = h.at[y] => x = y
      BY <2>3 DEF R
    <3>3. Ids(h) = Ids(g) \cup R
      BY <2>5 DEF R
    <3> HIDE DEF ids, after
    <3>. QED
      BY <2>1, <2>4, <2>6, <3>1, <3>2, <3>3
  <2>. QED
    BY <2>6
<1>17. Ids(h) = Ids(g) \cup {ids[e] : e \in E}
  BY <1>6, <1>10
<1>18. IsFiniteSet({ids[e] : e \in E})
  BY <1>6, <1>7
<1>19. Converts(g, h, ids)
  <2>1. \A e \in Crossing(g) : ids[e] \in Nat /\ \A x \in Ids(g) : x < ids[e]
    BY <1>6
  <2> HIDE DEF ids, after
  <2>. QED
    BY <1>5, <1>6, <1>11, <1>13, <1>15, <1>16, <1>17, <1>18, <2>1 DEF Converts
<1>. QED
  BY <1>19

(* Exactly the values that need it go through a convert, each through one.   *)
Exact(g) ==
  /\ \A i \in Ids(g) : \A d \in g.op[i].deps : ~NeedsConversion(g.op[d], g.op[i])
  /\ \A k \in Ids(g) \ Plain(g) : \E p, c \in Plain(g) :
       /\ g.op[k].deps = {p} /\ Successors(Deps(g), k) = {c}
       /\ Changes(g.op[p], g.op[c]) /\ g.op[k].unit \in {g.op[p].unit, g.op[c].unit}
  /\ \A k \in Ids(g) \ Plain(g) : ~g.op[k].resident

(* b is a, with other dependencies.                                         *)
Relinked(a, b) ==
  /\ b.cat = a.cat /\ b.prec = a.prec /\ b.shape = a.shape /\ b.group = a.group
  /\ b.src = a.src /\ b.part = a.part /\ b.unit = a.unit /\ BaseBytes(b) = BaseBytes(a)
  /\ (b.resident <=> a.resident) /\ b.fused = a.fused

(* What is the same on both sides of the conversions.                       *)
ConvView(g, h) ==
  /\ Plain(g) = Ids(g) /\ Plain(h) = Ids(g) /\ Real(h) = Real(g) /\ Finite(h)
  /\ \A x \in Ids(g) : /\ Relinked(g.op[x], h.op[x]) /\ h.at[x] = g.at[x]
                       /\ Values(h, x) = g.op[x].deps
  /\ Ids(g) \subseteq Ids(h)

(* A node with other dependencies is otherwise the same.                     *)
LEMMA RelinkedNode ==
  ASSUME NEW a \in Node, NEW D, NEW b, b = [a EXCEPT !.deps = D]
  PROVE  Relinked(a, b) /\ b.deps = D
<1>1. a = [x \in NodeFields |-> a[x]]
  BY NodeForm, Zenon
<1>2. /\ b.cat = a.cat /\ b.prec = a.prec /\ b.shape = a.shape /\ b.group = a.group
      /\ b.src = a.src /\ b.part = a.part /\ b.unit = a.unit /\ b.basis = a.basis
      /\ b.bytes = a.bytes /\ (b.resident <=> a.resident) /\ b.fused = a.fused /\ b.deps = D
  BY <1>1 DEF NodeFields
<1>. QED
  BY <1>2 DEF Relinked, BaseBytes

(* What the converts do to what the ops read: nothing.                       *)
LEMMA ConvertViews ==
  ASSUME NEW g, Listed(g), Plain(g) = Ids(g), NEW h, NEW ids, Converts(g, h, ids)
  PROVE  ConvView(g, h)
<1> DEFINE E == Crossing(g)
<1>1. \A e \in E : /\ e[1] \in Ids(g) /\ e[2] \in Ids(g) /\ e[1] \in g.op[e[2]].deps
                   /\ e = <<e[1], e[2]>>
  BY CrossingEdges
<1>2. /\ Ids(h) = Ids(g) \cup {ids[e] : e \in E} /\ DOMAIN ids = E
      /\ \A e \in E : ids[e] \notin Ids(g) /\ h.op[ids[e]].cat = "convert"
                      /\ h.op[ids[e]].deps = {e[1]}
  <2>1. \A e \in E : ids[e] \notin Ids(g)
    BY DEF Converts, Listed, Positive
  <2>2. \A e \in E : h.op[ids[e]].cat = "convert" /\ h.op[ids[e]].deps = {e[1]}
    BY DEF Converts, ConvertOf
  <2>. QED
    BY <2>1, <2>2 DEF Converts
<1>3. ASSUME NEW x \in Ids(g)
      PROVE  /\ Relinked(g.op[x], h.op[x]) /\ h.at[x] = g.at[x]
             /\ h.op[x].deps = {Through(ids, d, x) : d \in g.op[x].deps}
  <2> DEFINE a == g.op[x]
             b == h.op[x]
             D == {Through(ids, d, x) : d \in g.op[x].deps}
  <2>1. a \in Node /\ b = [a EXCEPT !.deps = D] /\ h.at[x] = g.at[x]
    BY DEF Converts, Listed, NodeGraph
  <2> HIDE DEF a, b, D
  <2>2. Relinked(a, b) /\ b.deps = D
    BY <2>1, RelinkedNode
  <2>. QED
    BY <2>1, <2>2 DEF a, b, D
<1>4. \A x \in Ids(g) : h.op[x].cat = g.op[x].cat /\ g.op[x].cat # "convert"
  BY <1>3 DEF Relinked, Plain
<1> HIDE DEF E
<1>5. Plain(h) = Ids(g)
  BY <1>2, <1>4 DEF Plain
<1>6. Real(h) = Real(g)
  BY <1>2, <1>4 DEF Real
<1>7. \A x \in Ids(g) : \A d \in g.op[x].deps :
        /\ d \in Ids(g) /\ Through(ids, d, x) \in Ids(h) /\ Value(h, Through(ids, d, x)) = d
  <2>. TAKE x \in Ids(g)
  <2>. TAKE d \in g.op[x].deps
  <2>1. d \in Ids(g)
    BY DEF Listed, Finite
  <2>2. CASE <<d, x>> \in E
    <3> DEFINE e == <<d, x>>
               k == ids[e]
    <3>1. Through(ids, d, x) = k /\ k \in Ids(h) /\ h.op[k].cat = "convert" /\ h.op[k].deps = {d}
      BY <1>2, <2>2 DEF Through
    <3>2. (CHOOSE p \in {d} : TRUE) = d
      OBVIOUS
    <3> HIDE DEF k
    <3>3. Value(h, k) = d
      BY <3>1, <3>2 DEF Value
    <3>. QED
      BY <2>1, <3>1, <3>3
  <2>3. CASE <<d, x>> \notin E
    BY <1>2, <1>4, <2>1, <2>3 DEF Through, Value
  <2>. QED
    BY <2>2, <2>3
<1>8. \A x \in Ids(g) : Values(h, x) = g.op[x].deps
  <2>. TAKE x \in Ids(g)
  <2>1. Values(h, x) = {Value(h, Through(ids, d, x)) : d \in g.op[x].deps}
    BY <1>3 DEF Values
  <2>. QED
    BY <1>7, <2>1
<1>9. Finite(h)
  <2>1. IsFiniteSet(Ids(h))
    <3>1. IsFiniteSet(Ids(g)) /\ IsFiniteSet({ids[e] : e \in E})
      BY DEF Listed, Finite, Converts, E
    <3> DEFINE R == {ids[e] : e \in E}
    <3>2. IsFiniteSet(R) /\ Ids(h) = Ids(g) \cup R
      BY <1>2, <3>1
    <3> HIDE DEF R
    <3>. QED
      BY <3>1, <3>2, FS_Union
  <2>2. ASSUME NEW x \in Ids(h) PROVE h.op[x].deps \subseteq Ids(h)
    <3>1. CASE x \in Ids(g)
      BY <1>3, <1>7, <3>1
    <3>2. CASE x \notin Ids(g)
      <4>1. PICK e \in E : x = ids[e]
        BY <1>2, <2>2, <3>2
      <4>. QED
        BY <1>1, <1>2, <4>1
    <3>. QED
      BY <3>1, <3>2
  <2>. QED
    BY <2>1, <2>2 DEF Finite
<1>. QED
  BY <1>2, <1>3, <1>5, <1>6, <1>8, <1>9 DEF ConvView

(* Inserting the converts keeps the invariant of the graph.                  *)
LEMMA ConvertsKeep ==
  ASSUME NEW o, NEW g, GraphInv(o, g), Plain(g) = Ids(g), NEW h, NEW ids, Converts(g, h, ids)
  PROVE  GraphInv(o, h)
<1>1. /\ Listed(g) /\ Typed(g) /\ Originals(o, g) /\ Made(o, g) /\ Provenance(o, g)
      /\ Wired(o, g) /\ Grouped(o, g) /\ Ordered(g) /\ Worked(o, g) /\ Finite(g)
  BY DEF GraphInv, Listed
<1>2. ConvView(g, h)
  BY <1>1, ConvertViews
<1>3. /\ Plain(h) = Ids(g) /\ Real(h) = Real(g) /\ Finite(h) /\ Ids(g) \subseteq Ids(h)
      /\ \A x \in Ids(g) :
           /\ h.op[x].cat = g.op[x].cat /\ h.op[x].shape = g.op[x].shape
           /\ h.op[x].group = g.op[x].group /\ h.op[x].src = g.op[x].src
           /\ h.op[x].part = g.op[x].part /\ BaseBytes(h.op[x]) = BaseBytes(g.op[x])
           /\ h.at[x] = g.at[x] /\ Values(h, x) = g.op[x].deps
  BY <1>2 DEF ConvView, Relinked
<1>4. /\ NodeGraph(h) /\ Ids(h) = Ids(g) \cup {ids[e] : e \in Crossing(g)}
      /\ \A e \in Crossing(g) : ids[e] \in Nat /\ \A x \in Ids(g) : x < ids[e]
      /\ \A i, j \in Ids(h) : h.at[i] = h.at[j] => i = j
      /\ \A e \in Crossing(g) : h.op[ids[e]].cat = "convert" /\ h.op[ids[e]].deps = {e[1]}
  <2>1. \A e \in Crossing(g) : h.op[ids[e]].cat = "convert" /\ h.op[ids[e]].deps = {e[1]}
    BY DEF Converts, ConvertOf
  <2>. QED
    BY <2>1 DEF Converts
<1>5. /\ Ids(g) # {} /\ Ids(g) \subseteq Positive
      /\ \E i \in Ids(g) : \A s \in Ids(o) : s <= i
      /\ \A i \in Ids(g) : Values(g, i) = g.op[i].deps
  BY <1>1, NoConverts DEF Listed, Provenance
<1>6. Listed(h)
  <2>1. \A e \in Crossing(g) : ids[e] \in Positive
    BY <1>4, <1>5 DEF Positive
  <2>. QED
    BY <1>3, <1>4, <1>5, <2>1 DEF Listed
<1>7. Typed(h)
  <2>1. ASSUME NEW i \in Ids(h)
        PROVE  /\ h.op[i].cat \in Traceable => h.op[i].shape \in ShapesOf(h.op[i].cat)
               /\ h.op[i].cat = "matmul" => BaseBytes(h.op[i]) = ShapeBytes(h.op[i].shape)
    <3>1. CASE i \in Ids(g)
      BY <1>1, <1>3, <3>1 DEF Typed
    <3>2. CASE i \notin Ids(g)
      <4>1. h.op[i].cat = "convert"
        BY <1>4, <3>2
      <4>. QED
        BY <4>1 DEF Traceable, LegalDims, FixedUnit
    <3>. QED
      BY <3>1, <3>2
  <2>. QED
    BY <2>1 DEF Typed
<1>8. Ids(h) \cap Ids(o) = Ids(g) \cap Ids(o) /\ Ids(o) \ Ids(h) = Ids(o) \ Ids(g)
  <2>1. \A e \in Crossing(g) : ids[e] \notin Ids(o)
    <3>. TAKE e \in Crossing(g)
    <3>1. PICK i \in Ids(g) : \A s \in Ids(o) : s <= i
      BY <1>5
    <3>2. i < ids[e] /\ i \in Int /\ ids[e] \in Int
      BY <1>4, <1>5 DEF Positive
    <3>. QED
      BY <3>1, <3>2
  <2>. QED
    BY <1>4, <2>1
<1>9. Originals(o, h)
  BY <1>1, <1>3, <1>8 DEF Originals
<1>10. Made(o, h)
  BY <1>1, <1>3, <1>8 DEF Made
<1>11. Provenance(o, h)
  <2>1. \A i, j \in Plain(h) : h.op[i].src = h.op[j].src /\ h.op[i].part = h.op[j].part => i = j
    BY <1>1, <1>3 DEF Provenance
  <2>2. \E i \in Ids(h) : \A s \in Ids(o) : s <= i
    BY <1>3, <1>5
  <2>3. \A s, t \in Ids(o) : SameBlock(o, s, t) /\ s \in Ids(h) => t \in Ids(h)
    BY <1>1, <1>8 DEF Provenance
  <2>4. ASSUME NEW s \in Ids(o) \ Ids(h), NEW t \in Ids(o), s \in Reads(o, t), ~SameBlock(o, s, t)
        PROVE  \E m \in Plain(h) : h.op[m].src = s /\ h.op[m].part = 0
    <3>1. PICK m \in Plain(g) : g.op[m].src = s /\ g.op[m].part = 0
      BY <1>1, <1>8, <2>4 DEF Provenance
    <3>. QED
      BY <1>3, <3>1
  <2>. QED
    BY <2>1, <2>2, <2>3, <2>4 DEF Provenance
<1>12. Wired(o, h)
  <2>1. ASSUME NEW i \in Plain(h)
        PROVE  Values(h, i) = IF h.op[i].cat = "merge" THEN PartsOf(h, h.op[i].src) ELSE Wanted(o, h, i)
    <3>1. PartsOf(h, h.op[i].src) = PartsOf(g, g.op[i].src)
      BY <1>3, <2>1 DEF PartsOf
    <3>2. Wanted(o, h, i) = Wanted(o, g, i)
      BY <1>3, <2>1 DEF Wanted
    <3>3. Values(g, i) = IF g.op[i].cat = "merge" THEN PartsOf(g, g.op[i].src) ELSE Wanted(o, g, i)
      BY <1>1, <1>3, <2>1 DEF Wired
    <3>. QED
      BY <1>3, <1>5, <2>1, <3>1, <3>2, <3>3
  <2>2. ASSUME NEW k \in Ids(h) \ Plain(h) PROVE \E p \in Plain(h) : h.op[k].deps = {p}
    <3>1. PICK e \in Crossing(g) : k = ids[e]
      BY <1>3, <1>4, <2>2
    <3> DEFINE p == e[1]
    <3>2. p \in Plain(h)
      BY <1>1, <1>3, CrossingEdges
    <3>3. h.op[k].deps = {p}
      BY <1>4, <3>1
    <3> HIDE DEF p
    <3>. QED
      BY <3>2, <3>3
  <2>. QED
    BY <2>1, <2>2 DEF Wired
<1>13. Grouped(o, h)
  BY <1>1, <1>3 DEF Grouped, IsRep
<1>14. Ordered(h)
  <2>1. ASSUME NEW i \in Ids(g), NEW d \in g.op[i].deps PROVE d \in Ids(g) /\ g.at[d] < g.at[i]
    BY <1>1, <1>3, <1>5 DEF Ordered, Finite
  <2>. QED
    BY <1>3, <2>1 DEF Ordered
<1>15. Worked(o, h)
  <2>1. ASSUME NEW s \in Ids(o)
        PROVE  SumOver(Works(h), {i \in Real(h) : h.op[i].src = s}) = Work(o.op[s].shape)
    <3> DEFINE T == {i \in Real(g) : g.op[i].src = s}
               u == Works(g)
               v == Works(h)
    <3>1. T \subseteq Ids(g) /\ {i \in Real(h) : h.op[i].src = s} = T
      <4>1. Real(g) \subseteq Ids(g)
        BY DEF Real
      <4>. QED
        BY <1>3, <4>1
    <3>2. IsFiniteSet(T) /\ \A x \in T : u[x] \in Int
      BY <1>1, <3>1, WorksInt
    <3>3. \A x \in T : u[x] = v[x]
      BY <1>3, <3>1 DEF Works
    <3>4. SumOver(u, T) = Work(o.op[s].shape)
      BY <1>1 DEF Worked
    <3> HIDE DEF T, u, v
    <3>5. SumOver(u, T) = SumOver(v, T)
      BY <3>2, <3>3, SumEqual
    <3>. QED
      BY <3>1, <3>4, <3>5 DEF v
  <2>. QED
    BY <2>1 DEF Worked
<1>. QED
  BY <1>6, <1>7, <1>9, <1>10, <1>11, <1>12, <1>13, <1>14, <1>15 DEF GraphInv

(* After it a convert stands on an edge if and only if its ends differ in    *)
(* precision across the GPU's boundary, and none follows another.            *)
LEMMA ConvertsAreExact ==
  ASSUME NEW g, Listed(g), Plain(g) = Ids(g), NEW h, NEW ids, Converts(g, h, ids)
  PROVE  Exact(h)
<1> DEFINE E == Crossing(g)
<1>1. \A e \in E : /\ e[1] \in Ids(g) /\ e[2] \in Ids(g) /\ e[1] \in g.op[e[2]].deps
                   /\ e = <<e[1], e[2]>> /\ NeedsConversion(g.op[e[1]], g.op[e[2]])
  BY CrossingEdges
<1>2. ConvView(g, h)
  BY ConvertViews
<1>3. /\ Plain(h) = Ids(g) /\ Finite(h) /\ Ids(g) \subseteq Ids(h)
      /\ \A x \in Ids(g) :
           /\ h.op[x].cat = g.op[x].cat /\ h.op[x].unit = g.op[x].unit
           /\ h.op[x].prec = g.op[x].prec /\ g.op[x].cat # "convert"
           /\ g.op[x].deps \subseteq Ids(g)
  BY <1>2 DEF ConvView, Relinked, Plain, Listed, Finite
<1>4. /\ Ids(h) = Ids(g) \cup {ids[e] : e \in E} /\ DOMAIN ids = E
      /\ \A e, f \in E : ids[e] = ids[f] => e = f
  BY DEF Converts
<1>5. \A e \in E : /\ ids[e] \notin Ids(g) /\ h.op[ids[e]].cat = "convert"
                   /\ h.op[ids[e]].deps = {e[1]} /\ ~h.op[ids[e]].resident
                   /\ h.op[ids[e]].unit \in {g.op[e[1]].unit, g.op[e[2]].unit}
  BY DEF Converts, ConvertOf, Listed, Positive
<1>6. \A x \in Ids(g) : h.op[x].deps = {Through(ids, d, x) : d \in g.op[x].deps}
  <2>1. ASSUME NEW x \in Ids(g) PROVE h.op[x].deps = {Through(ids, d, x) : d \in g.op[x].deps}
    <3> DEFINE a == g.op[x]
               b == h.op[x]
               D == {Through(ids, d, x) : d \in g.op[x].deps}
    <3>1. a \in Node /\ b = [a EXCEPT !.deps = D]
      BY DEF Converts, Listed, NodeGraph
    <3> HIDE DEF a, b, D
    <3>2. b.deps = D
      BY <3>1, RelinkedNode
    <3>. QED
      BY <3>2 DEF b, D
  <2>. QED
    BY <2>1
<1> HIDE DEF E
<1>7. ASSUME NEW i \in Ids(h), NEW d \in h.op[i].deps
      PROVE  ~NeedsConversion(h.op[d], h.op[i])
  <2>1. CASE i \notin Ids(g)
    <3>1. h.op[i].cat = "convert"
      BY <1>4, <1>5, <2>1
    <3>. QED
      BY <3>1 DEF NeedsConversion
  <2>2. CASE i \in Ids(g)
    <3>1. PICK y \in g.op[i].deps : d = Through(ids, y, i)
      BY <1>6, <1>7, <2>2
    <3>2. CASE <<y, i>> \in E
      <4> DEFINE e == <<y, i>>
      <4>1. d = ids[e] /\ e \in E
        BY <1>4, <3>1, <3>2 DEF Through
      <4> HIDE DEF e
      <4>2. h.op[d].cat = "convert"
        BY <1>5, <4>1
      <4>. QED
        BY <4>2 DEF NeedsConversion
    <3>3. CASE <<y, i>> \notin E
      <4>1. d = y /\ y \in Ids(g)
        BY <1>3, <1>4, <2>2, <3>1, <3>3 DEF Through
      <4>2. ~NeedsConversion(g.op[y], g.op[i])
        BY <2>2, <3>3, <4>1 DEF E, Crossing
      <4>. QED
        BY <1>3, <2>2, <4>1, <4>2 DEF NeedsConversion
    <3>. QED
      BY <3>2, <3>3
  <2>. QED
    BY <2>1, <2>2
<1>8. ASSUME NEW e \in E PROVE Successors(Deps(h), ids[e]) = {e[2]}
  <2> DEFINE k == ids[e]
             p == e[1]
             c == e[2]
  <2>1. k \notin Ids(g) /\ p \in Ids(g) /\ c \in Ids(g) /\ p \in g.op[c].deps /\ e = <<p, c>>
    BY <1>1, <1>5
  <2>2. Successors(Deps(h), k) = {j \in Ids(h) : k \in h.op[j].deps}
    BY <1>3, GraphMaps
  <2>k. k = ids[e]
    OBVIOUS
  <2> HIDE DEF k, p, c
  <2>3. c \in Ids(h) /\ k \in h.op[c].deps
    <3>1. Through(ids, p, c) = k
      BY <1>4, <2>1, <2>k DEF Through
    <3>. QED
      BY <1>3, <1>6, <2>1, <3>1
  <2>4. ASSUME NEW j \in Ids(h), k \in h.op[j].deps PROVE j = c
    <3>1. CASE j \notin Ids(g)
      <4>1. PICK f \in E : j = ids[f]
        BY <1>4, <3>1
      <4>2. h.op[j].deps \subseteq Ids(g)
        BY <1>1, <1>5, <4>1
      <4>. QED
        BY <2>1, <2>4, <4>2
    <3>2. CASE j \in Ids(g)
      <4>1. PICK y \in g.op[j].deps : k = Through(ids, y, j)
        BY <1>6, <2>4, <3>2
      <4> DEFINE f == <<y, j>>
      <4>2. f \in E /\ k = ids[f]
        BY <1>3, <1>4, <2>1, <3>2, <4>1 DEF Through
      <4> HIDE DEF f
      <4>3. f = e
        BY <1>4, <2>k, <4>2
      <4>. QED
        BY <2>1, <4>3 DEF f
    <3>. QED
      BY <3>1, <3>2
  <2>5. Successors(Deps(h), k) = {c}
    BY <2>2, <2>3, <2>4
  <2>. QED
    BY <2>5 DEF k, c
<1>9. ASSUME NEW k \in Ids(h) \ Plain(h)
      PROVE  \E p, c \in Plain(h) :
               /\ h.op[k].deps = {p} /\ Successors(Deps(h), k) = {c}
               /\ Changes(h.op[p], h.op[c]) /\ h.op[k].unit \in {h.op[p].unit, h.op[c].unit}
  <2>1. PICK e \in E : k = ids[e]
    BY <1>3, <1>4, <1>9
  <2> DEFINE p == e[1]
             c == e[2]
  <2>2. p \in Plain(h) /\ c \in Plain(h) /\ NeedsConversion(g.op[p], g.op[c])
    BY <1>1, <1>3
  <2>3. h.op[k].deps = {p} /\ h.op[k].unit \in {g.op[p].unit, g.op[c].unit}
    BY <1>5, <2>1
  <2>4. Successors(Deps(h), k) = {c}
    BY <1>8, <2>1
  <2> HIDE DEF p, c
  <2>5. Changes(h.op[p], h.op[c])
    BY <1>3, <2>2 DEF Changes, NeedsConversion
  <2>6. h.op[k].unit \in {h.op[p].unit, h.op[c].unit}
    BY <1>3, <2>2, <2>3
  <2>. QED
    BY <2>2, <2>3, <2>4, <2>5, <2>6
<1>10. \A k \in Ids(h) \ Plain(h) : ~h.op[k].resident
  BY <1>3, <1>4, <1>5
<1>. QED
  BY <1>7, <1>9, <1>10 DEF Exact

(* A graph that is exact already is left as it is.                           *)
LEMMA ConvertedOnce ==
  ASSUME NEW g, Listed(g), Exact(g), NEW place
  PROVE  Converted(g, place) = g
<1> DEFINE E == Crossing(g)
           ids == ConvertIds(g, E)
<1>1. E = {}
  BY CrossingEdges DEF Exact
<1>2. DOMAIN ids = {} /\ Range(ids) = {}
  BY <1>1 DEF ConvertIds, Range
<1> DEFINE edge(x) == CHOOSE e \in DOMAIN ids : ids[e] = x
           convert(x) == Convert(edge(x), g.op[edge(x)[1]], g.op[edge(x)[2]], place)
           end == Max(Range(g.at)) + 1
           after == Ids(g) \cup Range(ids)
           hat == [x \in after |-> IF x \in Ids(g) THEN g.at[x] ELSE end + x - FreshId(g)]
           hop == [x \in after |->
                 IF x \in Ids(g)
                 THEN [g.op[x] EXCEPT !.deps = {Through(ids, d, x) : d \in g.op[x].deps}]
                 ELSE convert(x)]
<1>3. Converted(g, place) = [at |-> hat, op |-> hop]
  BY Zenon DEF Converted
<1>4. after = Ids(g)
  BY <1>2
<1>5. g.at = [x \in Ids(g) |-> g.at[x]] /\ g.op = [x \in Ids(g) |-> g.op[x]]
      /\ g = [at |-> g.at, op |-> g.op] /\ \A x \in Ids(g) : g.op[x] \in Node
  BY DEF Listed, NodeGraph
<1>6. hat = g.at
  <2>1. hat = [x \in Ids(g) |-> g.at[x]]
    <3> HIDE DEF end, ids
    <3>. QED
      BY <1>4
  <2>. QED
    BY <1>5, <2>1
<1>7. \A x \in Ids(g) :
        [g.op[x] EXCEPT !.deps = {Through(ids, d, x) : d \in g.op[x].deps}] = g.op[x]
  <2>. TAKE x \in Ids(g)
  <2> DEFINE a == g.op[x]
             D == {Through(ids, d, x) : d \in a.deps}
  <2>1. \A d \in a.deps : Through(ids, d, x) = d
    BY <1>2 DEF Through
  <2>2. D = a.deps
    BY <2>1
  <2>3. a = [y \in NodeFields |-> a[y]]
    BY <1>5, NodeForm, Zenon
  <2> HIDE DEF a, D
  <2>4. [a EXCEPT !.deps = D] = a
    BY <2>2, <2>3 DEF NodeFields
  <2>. QED
    BY <2>4 DEF a, D
<1>8. hop = g.op
  <2>1. hop = [x \in Ids(g) |-> g.op[x]]
    <3> HIDE DEF convert, ids
    <3>. QED
      BY <1>4, <1>7
  <2>. QED
    BY <1>5, <2>1
<1> HIDE DEF hat, hop
<1>. QED
  BY <1>3, <1>5, <1>6, <1>8

(* Nodes computing the same, in the same place.                             *)
Alongside(g, h) ==
  /\ Plain(h) = Plain(g) /\ Real(h) = Real(g) /\ Held(h) = Held(g)
  /\ \A x \in Plain(g) \cup Held(g) :
       /\ h.op[x].cat = g.op[x].cat /\ h.op[x].shape = g.op[x].shape
       /\ h.op[x].group = g.op[x].group /\ h.op[x].src = g.op[x].src
       /\ h.op[x].part = g.op[x].part /\ h.op[x].unit = g.op[x].unit

(* What was true of where g runs is true of h.                              *)
UnitsCarry(o, g, h) ==
  /\ Runs(g, {}) => Runs(h, {})
  /\ Together(g) => Together(h)
  /\ Matched(o, g) => Matched(o, h)
  /\ \A owner : MergesOn(g, owner) => MergesOn(h, owner)
  /\ \A al : Kept(o, g, al) => Kept(o, h, al)

(* Where the ops are, what is pinned and what is whole carries over to a     *)
(* graph with the same ops on the same units.                                *)
LEMMA CarryUnits ==
  ASSUME NEW o, NEW g, Grouped(o, g), NEW h, Alongside(g, h)
  PROVE  UnitsCarry(o, g, h)
<1>1. /\ Plain(h) = Plain(g) /\ Real(h) = Real(g) /\ Held(h) = Held(g) /\ Real(g) \subseteq Plain(g)
      /\ \A x \in Plain(g) \cup Held(g) :
           /\ h.op[x].cat = g.op[x].cat /\ h.op[x].shape = g.op[x].shape
           /\ h.op[x].group = g.op[x].group /\ h.op[x].src = g.op[x].src
           /\ h.op[x].part = g.op[x].part /\ h.op[x].unit = g.op[x].unit
  BY DEF Alongside, Real, Plain
<1>2. Runs(g, {}) => Runs(h, {})
  BY <1>1 DEF Runs
<1>4. Together(g) => Together(h)
  <2>1. \A i \in Plain(g) : g.op[i].cat = "attention" => g.op[i].group \in Plain(g)
    BY DEF Grouped
  <2>. QED
    BY <1>1, <2>1 DEF Together
<1>5. Matched(o, g) => Matched(o, h)
  <2>. SUFFICES ASSUME Matched(o, g), NEW i \in Real(g), NEW t \in Ids(o),
                       SameBlock(o, g.op[i].src, t)
                PROVE  \E j \in Real(g) :
                         /\ h.op[j].src = t /\ h.op[j].part = h.op[i].part
                         /\ h.op[j].unit = h.op[i].unit
    BY <1>1 DEF Matched
  <2>1. PICK j \in Real(g) : g.op[j].src = t /\ g.op[j].part = g.op[i].part
                             /\ g.op[j].unit = g.op[i].unit
    BY DEF Matched
  <2>. QED
    BY <1>1, <2>1
<1>6. \A owner : MergesOn(g, owner) => MergesOn(h, owner)
  BY <1>1 DEF MergesOn
<1>7. \A al : Kept(o, g, al) => Kept(o, h, al)
  <2>. SUFFICES ASSUME NEW al, Kept(o, g, al) PROVE Kept(o, h, al)
    OBVIOUS
  <2>1. \A i \in Held(g) :
          /\ Phase(o) = "decode" /\ h.op[i].unit = "cim" /\ h.op[i].cat = "matmul"
          /\ h.op[i].src \in DOMAIN al /\ h.op[i].shape.N = al[h.op[i].src]
    BY <1>1 DEF Kept
  <2>2. \A i, j \in Held(g) : h.op[i].src = h.op[j].src => i = j
    BY <1>1 DEF Kept
  <2>. QED
    BY <1>1, <2>1, <2>2 DEF Kept
<1>. QED
  BY <1>2, <1>4, <1>5, <1>6, <1>7 DEF UnitsCarry

(* It does to a graph with other charges.                                    *)
LEMMA SameUnitsCarry ==
  ASSUME NEW o, NEW g, GraphInv(o, g), NEW h, SameUnits(g, h)
  PROVE  UnitsCarry(o, g, h)
<1>1. Finite(g) /\ Grouped(o, g) /\ SameOps(g, h) /\ Ids(h) = Ids(g)
  BY DEF GraphInv, Listed, SameUnits, SameOps
<1>2. Plain(h) = Plain(g) /\ Real(h) = Real(g) /\ Plain(g) \subseteq Ids(g)
  BY <1>1, SameReads DEF Plain
<1>3. Held(h) = Held(g) /\ Held(g) \subseteq Ids(g)
  BY <1>1 DEF Held, SameUnits
<1>4. Alongside(g, h)
  <2>1. \A x \in Ids(g) :
          /\ h.op[x].cat = g.op[x].cat /\ h.op[x].shape = g.op[x].shape
          /\ h.op[x].group = g.op[x].group /\ h.op[x].src = g.op[x].src
          /\ h.op[x].part = g.op[x].part /\ h.op[x].unit = g.op[x].unit
    BY DEF SameUnits, SameOps, Alike
  <2>. QED
    BY <1>2, <1>3, <2>1 DEF Alongside
<1>. QED
  BY <1>1, <1>4, CarryUnits

(* And to a graph with converts.                                             *)
LEMMA ConvertsCarry ==
  ASSUME NEW o, NEW g, GraphInv(o, g), Plain(g) = Ids(g), NEW h, NEW ids, Converts(g, h, ids)
  PROVE  UnitsCarry(o, g, h)
<1>1. Listed(g) /\ Grouped(o, g)
  BY DEF GraphInv
<1>2. ConvView(g, h)
  BY <1>1, ConvertViews
<1>3. Exact(h)
  BY <1>1, ConvertsAreExact
<1>4. Plain(h) = Plain(g) /\ Real(h) = Real(g) /\ Plain(h) = Ids(g) /\ Ids(g) \subseteq Ids(h)
  BY <1>2 DEF ConvView
<1>5. Held(h) = Held(g) /\ Held(g) \subseteq Ids(g)
  <2>1. \A x \in Ids(g) : h.op[x].resident <=> g.op[x].resident
    BY <1>2 DEF ConvView, Relinked
  <2>2. \A x \in Ids(h) \ Ids(g) : ~h.op[x].resident
    BY <1>3, <1>4 DEF Exact
  <2>. QED
    BY <1>4, <2>1, <2>2 DEF Held
<1>6. Alongside(g, h)
  BY <1>2, <1>4, <1>5 DEF Alongside, ConvView, Relinked
<1>. QED
  BY <1>1, <1>6, CarryUnits

(* Exact converts are exact whatever is charged.                             *)
LEMMA ExactCarry ==
  ASSUME NEW g, Finite(g), Exact(g), NEW h, SameUnits(g, h)
  PROVE  Exact(h)
<1>1. /\ Ids(h) = Ids(g) /\ Plain(h) = Plain(g) /\ Deps(h) = Deps(g) /\ Plain(g) \subseteq Ids(g)
      /\ \A i \in Ids(g) :
           /\ h.op[i].cat = g.op[i].cat /\ h.op[i].prec = g.op[i].prec
           /\ h.op[i].deps = g.op[i].deps /\ h.op[i].unit = g.op[i].unit
           /\ (h.op[i].resident <=> g.op[i].resident) /\ g.op[i].deps \subseteq Ids(g)
  BY SameReads DEF SameUnits, SameOps, Alike, Plain, Finite
<1>2. \A i \in Ids(g) : \A d \in g.op[i].deps : ~NeedsConversion(h.op[d], h.op[i])
  BY <1>1 DEF Exact, NeedsConversion
<1>3. ASSUME NEW k \in Ids(g) \ Plain(g)
      PROVE  \E p, c \in Plain(g) :
               /\ h.op[k].deps = {p} /\ Successors(Deps(g), k) = {c}
               /\ Changes(h.op[p], h.op[c]) /\ h.op[k].unit \in {h.op[p].unit, h.op[c].unit}
  <2>1. PICK p \in Plain(g), c \in Plain(g) :
          /\ g.op[k].deps = {p} /\ Successors(Deps(g), k) = {c}
          /\ Changes(g.op[p], g.op[c]) /\ g.op[k].unit \in {g.op[p].unit, g.op[c].unit}
    BY DEF Exact
  <2>2. Changes(h.op[p], h.op[c])
    BY <1>1, <2>1 DEF Changes
  <2>3. h.op[k].deps = {p} /\ h.op[k].unit \in {h.op[p].unit, h.op[c].unit}
    BY <1>1, <2>1
  <2>. QED
    BY <2>1, <2>2, <2>3
<1>4. \A k \in Ids(g) \ Plain(g) : ~h.op[k].resident
  BY <1>1 DEF Exact
<1>. QED
  BY <1>1, <1>2, <1>3, <1>4 DEF Exact

-----------------------------------------------------------------------------
(* _finish, the first time and any later one.                               *)

(* _finish on a graph without converts keeps the invariant, places exact     *)
(* converts and leaves right tags.                                           *)
LEMMA FinishedFirst ==
  ASSUME NEW o, NEW g, GraphInv(o, g), Plain(g) = Ids(g), NEW s \in Nat, NEW place,
         NEW h, h = Finished(g, place, s)
  PROVE  GraphInv(o, h) /\ Exact(h) /\ Tailed(h, s) /\ UnitsCarry(o, g, h)
<1> DEFINE c == Converted(g, place)
<1>1. Listed(g)
  BY DEF GraphInv
<1>2. PICK ids : Converts(g, c, ids)
  BY <1>1, ConvertedForm
<1>3. h = WithSync(WithFusedChains(WithDomains(WithUnitBytes(c))), s)
  BY DEF Finished
<1> HIDE DEF c
<1>4. GraphInv(o, c)
  BY <1>2, ConvertsKeep
<1>5. Exact(c)
  BY <1>1, <1>2, ConvertsAreExact
<1>6. UnitsCarry(o, g, c)
  BY <1>2, ConvertsCarry
<1>7. NodeGraph(c) /\ Finite(c) /\ Ids(c) \subseteq Nat /\ Typed(c)
  BY <1>4, <1>6 DEF GraphInv, Listed, Positive, UnitsCarry
<1>8. SameUnits(c, h) /\ Tailed(h, s)
  BY <1>3, <1>7, TailPasses
<1>9. GraphInv(o, h)
  BY <1>4, <1>8, SameOpsKeep DEF SameUnits
<1>10. Exact(h)
  BY <1>5, <1>7, <1>8, ExactCarry
<1>11. UnitsCarry(o, c, h)
  BY <1>4, <1>8, SameUnitsCarry
<1>12. UnitsCarry(o, g, h)
  BY <1>6, <1>11 DEF UnitsCarry
<1>. QED
  BY <1>8, <1>9, <1>10, <1>12

(* _finish on a finished plan inserts no second convert.                     *)
LEMMA FinishedAgain ==
  ASSUME NEW o, NEW g, GraphInv(o, g), Exact(g), NEW s \in Nat, NEW place,
         NEW h, h = Finished(g, place, s)
  PROVE  GraphInv(o, h) /\ Exact(h) /\ Tailed(h, s) /\ UnitsCarry(o, g, h) /\ SameUnits(g, h)
<1>1. Listed(g)
  BY DEF GraphInv
<1>2. Converted(g, place) = g
  BY <1>1, ConvertedOnce
<1>3. h = WithSync(WithFusedChains(WithDomains(WithUnitBytes(g))), s)
  BY <1>2 DEF Finished
<1>4. NodeGraph(g) /\ Finite(g) /\ Ids(g) \subseteq Nat /\ Typed(g)
  BY DEF GraphInv, Listed, Positive
<1>5. SameUnits(g, h) /\ Tailed(h, s)
  BY <1>3, <1>4, TailPasses
<1>6. GraphInv(o, h)
  BY <1>5, SameOpsKeep DEF SameUnits
<1>7. Exact(h)
  BY <1>4, <1>5, ExactCarry
<1>8. UnitsCarry(o, g, h)
  BY <1>5, SameUnitsCarry
<1>. QED
  BY <1>5, <1>6, <1>7, <1>8

-----------------------------------------------------------------------------
(* The schedulers that do not solve.                                        *)

(* The fixed maps tag no kernel.                                             *)
Unfused(g) == \A i \in Ids(g) : g.op[i].fused = "none"

(* h is g with every op x on the unit v[x].                                 *)
MappedTo(g, h, v) ==
  /\ SameOps(g, h) /\ Held(h) = Held(g)
  /\ \A x \in Ids(g) : h.op[x].unit = v[x] /\ h.op[x].fused = g.op[x].fused

(* g with every op x on unit v[x].                                           *)
UnitsBy(g, v) == [g EXCEPT !.op = [x \in Ids(g) |-> [g.op[x] EXCEPT !.unit = v[x]]]]

(* Where an op may be, NoUnit before it is placed.                           *)
AnyPlace == {"cim", "gpu", "npu", "cpu", "mem", NoUnit}

(* A node given a unit is a node on that unit.                               *)
LEMMA MappedNode ==
  ASSUME NEW a \in Node, NEW u \in AnyPlace, NEW b, b = [a EXCEPT !.unit = u]
  PROVE  /\ b \in Node /\ Alike(a, b) /\ b.unit = u /\ (b.resident <=> a.resident)
         /\ b.fused = a.fused
<1>1. a = [x \in NodeFields |-> a[x]]
  BY NodeForm, Zenon
<1>2. b \in Node
  BY DEF Node, AnyPlace
<1>3. /\ b.cat = a.cat /\ b.prec = a.prec /\ b.deps = a.deps /\ b.shape = a.shape
      /\ b.group = a.group /\ b.src = a.src /\ b.part = a.part /\ b.unit = u
      /\ b.basis = a.basis /\ b.bytes = a.bytes /\ (b.resident <=> a.resident)
      /\ b.fused = a.fused
  BY <1>1 DEF NodeFields
<1>4. BaseBytes(b) = BaseBytes(a)
  BY <1>3 DEF BaseBytes
<1>. QED
  BY <1>2, <1>3, <1>4 DEF Alike

(* A scheduler that gives every op a unit changes nothing else.              *)
LEMMA MappedUnits ==
  ASSUME NEW g, NodeGraph(g), NEW v, \A x \in Ids(g) : v[x] \in AnyPlace,
         NEW h, h = UnitsBy(g, v)
  PROVE  MappedTo(g, h, v)
<1> DEFINE ops == [x \in Ids(g) |-> [g.op[x] EXCEPT !.unit = v[x]]]
<1>1. h = [g EXCEPT !.op = ops]
  BY DEF UnitsBy
<1>f. ops = [x \in Ids(g) |-> ops[x]]
  OBVIOUS
<1>2. ASSUME NEW x \in Ids(g)
      PROVE  /\ ops[x] \in Node /\ Alike(g.op[x], ops[x]) /\ ops[x].unit = v[x]
             /\ (ops[x].resident <=> g.op[x].resident) /\ ops[x].fused = g.op[x].fused
  <2> DEFINE a == g.op[x]
             b == ops[x]
             u == v[x]
  <2>1. a \in Node /\ u \in AnyPlace /\ b = [a EXCEPT !.unit = u]
    BY DEF NodeGraph
  <2> HIDE DEF a, b, u
  <2>2. /\ b \in Node /\ Alike(a, b) /\ b.unit = u /\ (b.resident <=> a.resident)
        /\ b.fused = a.fused
    BY <2>1, MappedNode
  <2>. QED
    BY <2>2 DEF a, b, u
<1> HIDE DEF ops
<1>0. \A x \in Ids(g) : ops[x] \in Node
  BY <1>2
<1>3. NodeGraph(h) /\ Ids(h) = Ids(g) /\ h.at = g.at /\ h.op = ops
  BY <1>0, <1>1, <1>f, NewOps
<1>4. Held(h) = Held(g)
  BY <1>2, <1>3 DEF Held
<1>. QED
  BY <1>2, <1>3, <1>4 DEF MappedTo, SameOps

(* A single unit.                                                           *)
LEMMA SingleUnits ==
  ASSUME NEW u \in Units
  PROVE  /\ u \in Chips /\ "elementwise" \in Supported[SupportUnit(u)]
         /\ SupportUnit(u) \in Chips
         /\ {"matmul", "attention"} \subseteq Supported[u]
<1>1. u \in Chips
  BY UnitsAssumption DEF Chips
<1>2. \A w \in Chips : {"matmul", "attention"} \subseteq Supported[w]
  BY DEF Supported, Chips, Compute
<1>3. \A w \in {"gpu", "npu", "cpu"} : "elementwise" \in Supported[w] /\ w \in Chips
  BY DEF Supported, Chips, Compute
<1>4. SupportUnit(u) \in {"gpu", "npu", "cpu"} \/
      (SupportUnit(u) = u /\ "elementwise" \in Supported[u])
  BY DEF SupportUnit
<1>. QED
  BY <1>1, <1>2, <1>3, <1>4

(* Nothing of a traced graph is pinned or fused.                             *)
LEMMA TracedBare ==
  ASSUME NEW o, Traced(o)
  PROVE  Held(o) = {} /\ Unfused(o) /\ Plain(o) = Ids(o)
<1>1. \A i \in Ids(o) : ~o.op[i].resident /\ o.op[i].fused = "none" /\ o.op[i].cat \in Traceable
  BY TracedOps DEF TracedOp
<1>2. "convert" \notin Traceable
  BY DEF Traceable, LegalDims, FixedUnit
<1>. QED
  BY <1>1, <1>2 DEF Held, Unfused, Plain

(* The ops of g run, those of an attention block together, and nothing is    *)
(* pinned.                                                                  *)
LEMMA MappedRuns ==
  ASSUME NEW o, NEW g, GraphInv(o, g), NEW v, NEW h, MappedTo(g, h, v), Held(g) = {},
         \A i \in Plain(g) : /\ v[i] \in DOMAIN Supported
                             /\ PricedAs(g.op[i].cat, g.op[i].src) \in Supported[v[i]],
         \A i, j \in Plain(g) :
           g.op[i].cat = "attention" /\ g.op[j].cat = "attention" => v[i] = v[j]
  PROVE  GraphInv(o, h) /\ Runs(h, {}) /\ Together(h) /\ \A al : Kept(o, h, al)
<1>1. /\ SameOps(g, h) /\ Held(h) = {} /\ Finite(g) /\ Grouped(o, g)
  BY DEF MappedTo, GraphInv, Listed
<1>2. Plain(h) = Plain(g) /\ Plain(g) \subseteq Ids(g)
  BY <1>1, SameReads DEF Plain
<1>3. \A i \in Plain(g) : /\ h.op[i].unit = v[i] /\ h.op[i].cat = g.op[i].cat
                          /\ h.op[i].group = g.op[i].group /\ h.op[i].src = g.op[i].src
  BY <1>1, <1>2 DEF MappedTo, SameOps, Alike
<1>4. GraphInv(o, h)
  BY <1>1, SameOpsKeep
<1>5. Runs(h, {})
  BY <1>2, <1>3 DEF Runs
<1>6. Together(h)
  <2>1. \A i \in Plain(g) : g.op[i].cat = "attention" =>
          g.op[i].group \in Plain(g) /\ g.op[g.op[i].group].cat = "attention"
    BY <1>1 DEF Grouped, IsRep
  <2>. QED
    BY <1>2, <1>3, <2>1 DEF Together
<1>7. \A al : Kept(o, h, al)
  BY <1>1 DEF Kept
<1>. QED
  BY <1>4, <1>5, <1>6, <1>7

(* A plan on one unit keeps the graph whole and every op on a unit that      *)
(* supports it.                                                              *)
LEMMA SingleMap ==
  ASSUME NEW o, Traced(o), NEW u \in Units, NEW v,
         \A i \in Ids(o) : v[i] = IF o.op[i].cat \in DOMAIN FixedUnit THEN FixedUnit[o.op[i].cat]
                                  ELSE IF o.op[i].cat = "elementwise" THEN SupportUnit(u) ELSE u,
         NEW h, h = UnitsBy(o, v)
  PROVE  /\ GraphInv(o, h) /\ Plain(h) = Ids(h) /\ Runs(h, {}) /\ Together(h)
         /\ \A al : Kept(o, h, al)
<1>1. NodeGraph(o) /\ GraphInv(o, o) /\ Held(o) = {} /\ Plain(o) = Ids(o) /\ Finite(o)
  BY TracedGraph, TracedBare, TracedOps
<1>2. \A i \in Ids(o) : o.op[i].cat \in {"matmul", "attention", "elementwise"} \cup DOMAIN FixedUnit
  BY TracedOps DEF TracedOp, Traceable, LegalDims
<1>3. /\ u \in Chips /\ "elementwise" \in Supported[SupportUnit(u)] /\ SupportUnit(u) \in Chips
      /\ {"matmul", "attention"} \subseteq Supported[u]
  BY SingleUnits
<1>4. /\ \A w \in Chips \cup {"mem"} : w \in DOMAIN Supported /\ w \in AnyPlace
      /\ \A cat \in DOMAIN FixedUnit :
           FixedUnit[cat] \in Chips \cup {"mem"} /\ cat \in Supported[FixedUnit[cat]]
      /\ "elementwise" \notin DOMAIN FixedUnit /\ "attention" \notin DOMAIN FixedUnit
      /\ "matmul" \notin DOMAIN FixedUnit
  BY DEF Chips, Supported, AnyPlace, FixedUnit
<1> HIDE DEF FixedUnit
<1>5. \A i \in Ids(o) : /\ v[i] \in Chips \cup {"mem"} /\ o.op[i].cat \in Supported[v[i]]
                        /\ o.op[i].cat \in {"matmul", "attention"} => v[i] = u
  BY <1>2, <1>3, <1>4
<1>6. MappedTo(o, h, v)
  BY <1>1, <1>4, <1>5, MappedUnits
<1>7. GraphInv(o, h) /\ Runs(h, {}) /\ Together(h) /\ \A al : Kept(o, h, al)
  BY <1>1, <1>4, <1>5, <1>6, PricedAsFacts, MappedRuns
<1>8. SameOps(o, h) /\ Ids(h) = Ids(o)
  BY <1>6 DEF MappedTo, SameOps
<1>9. Plain(h) = Ids(h)
  BY <1>1, <1>8, SameReads
<1>. QED
  BY <1>7, <1>9

-----------------------------------------------------------------------------
(* The two fixed maps.                                                      *)

(* The categories the fixed maps know.                                       *)
FixedCats == {"matmul", "attention", "elementwise", "kv_cache", "embedding"}

(* What the fixed maps leave: ops of the model only, nothing pinned or fused. *)
Bare(g) ==
  /\ \A i \in Plain(g) : g.op[i].cat \in FixedCats
  /\ Held(g) = {} /\ Unfused(g)

(* The map of schedule_all_cim,                                              *)
CimUnitOf(cat) ==
  IF cat \in {"matmul", "attention"} THEN "cim" ELSE IF cat = "elementwise" THEN "cpu" ELSE "mem"

(* that of schedule_cim_hetero,                                              *)
HeteroUnitOf(cat) ==
  IF cat = "matmul" THEN "cim"
  ELSE IF cat = "attention" THEN "gpu"
  ELSE IF cat = "elementwise" THEN "cpu" ELSE "mem"

(* The units of the two fixed maps support the categories they are for.      *)
LEMMA FixedUnits ==
  \A cat \in FixedCats :
    /\ CimUnitOf(cat) \in DOMAIN Supported /\ cat \in Supported[CimUnitOf(cat)]
    /\ HeteroUnitOf(cat) \in DOMAIN Supported /\ cat \in Supported[HeteroUnitOf(cat)]
    /\ CimUnitOf(cat) \in AnyPlace \ {"gpu"} /\ HeteroUnitOf(cat) \in AnyPlace
    /\ \A s : PricedAs(cat, s) \in FixedCats
    /\ cat # "convert" /\ cat # "merge"
BY PricedAsFacts DEF FixedCats, CimUnitOf, HeteroUnitOf, Supported, AnyPlace, Compute

(* Runs as planned.                                                         *)
FixedPlan(o, g) ==
  /\ GraphInv(o, g) /\ Exact(g) /\ Runs(g, {}) /\ Together(g) /\ \A al : Kept(o, g, al)
  /\ Domained(g) /\ Bare(g)

(* A traced graph without sampling fits the fixed maps.                      *)
LEMMA TracedFixed ==
  ASSUME NEW o, Traced(o), \A i \in Ids(o) : o.op[i].cat # "sampling"
  PROVE  GraphInv(o, o) /\ Plain(o) = Ids(o) /\ Bare(o)
<1>1. GraphInv(o, o) /\ Plain(o) = Ids(o) /\ Held(o) = {} /\ Unfused(o)
  BY TracedGraph, TracedBare
<1>2. \A i \in Ids(o) : o.op[i].cat \in FixedCats
  BY TracedOps DEF TracedOp, Traceable, LegalDims, FixedUnit, FixedCats
<1>. QED
  BY <1>1, <1>2 DEF Bare

(* The domains of a bare plan.                                              *)
LEMMA BareDomains ==
  ASSUME NEW o, NEW g, GraphInv(o, g), Exact(g), Runs(g, {}), Together(g),
         \A al : Kept(o, g, al), Bare(g), NEW h, h = WithDomains(g)
  PROVE  FixedPlan(o, h) /\ SameUnits(g, h)
<1>1. NodeGraph(g) /\ Finite(g)
  BY DEF GraphInv, Listed
<1>2. SameUnits(g, h) /\ Domained(h) /\ \A i \in Ids(g) : Chained(g.op[i], h.op[i])
  BY <1>1, DomainPass
<1>3. SameOps(g, h) /\ Ids(h) = Ids(g)
  BY <1>2 DEF SameUnits, SameOps
<1>4. GraphInv(o, h) /\ Exact(h) /\ UnitsCarry(o, g, h)
  BY <1>1, <1>2, <1>3, SameOpsKeep, ExactCarry, SameUnitsCarry
<1>5. Bare(h)
  <2>1. Plain(h) = Plain(g) /\ Plain(g) \subseteq Ids(g)
    BY <1>1, <1>3, SameReads DEF Plain
  <2>2. \A i \in Plain(g) : h.op[i].cat = g.op[i].cat
    BY <1>3, <2>1 DEF SameOps, Alike
  <2>3. Held(h) = Held(g)
    BY <1>2, <1>3 DEF Held, SameUnits
  <2>4. Unfused(h)
    BY <1>2, <1>3 DEF Unfused, Bare, Chained
  <2>. QED
    BY <2>1, <2>2, <2>3, <2>4 DEF Bare
<1>6. Runs(h, {}) /\ Together(h) /\ \A al : Kept(o, h, al)
  BY <1>4 DEF UnitsCarry
<1>. QED
  BY <1>2, <1>4, <1>5, <1>6 DEF FixedPlan

(* Mapping its units leaves it so.                                           *)
LEMMA BareMapped ==
  ASSUME NEW g, Finite(g), Bare(g), NEW v, NEW h, MappedTo(g, h, v)
  PROVE  Bare(h) /\ Plain(h) = Plain(g) /\ Ids(h) = Ids(g)
<1>1. SameOps(g, h) /\ Ids(h) = Ids(g)
  BY DEF MappedTo, SameOps
<1>2. Plain(h) = Plain(g) /\ Plain(g) \subseteq Ids(g)
  BY <1>1, SameReads DEF Plain
<1>3. \A i \in Ids(g) : h.op[i].cat = g.op[i].cat
  BY <1>1 DEF SameOps, Alike
<1>. QED
  BY <1>1, <1>2, <1>3 DEF Bare, Unfused, MappedTo

(* schedule_all_cim keeps the graph and puts every op on a unit that         *)
(* supports it.                                                              *)
LEMMA AllCimPlan ==
  ASSUME NEW o, NEW g, GraphInv(o, g), Plain(g) = Ids(g), Bare(g), NEW h, h = AllCim(g)
  PROVE  FixedPlan(o, h) /\ Plain(h) = Ids(h)
<1> DEFINE v == [x \in Ids(g) |-> CimUnitOf(PricedAs(g.op[x].cat, g.op[x].src))]
           b == UnitsBy(g, v)
<1>1. NodeGraph(g) /\ Finite(g) /\ \A i \in Ids(g) : g.op[i].cat \in FixedCats
  BY DEF GraphInv, Listed, Bare
<1>2. h = WithDomains(b)
  BY DEF UnitsBy, AllCim, OnUnits, MapOps, CimUnitOf, PricedCat, IsScale, PricedAs
<1>3. \A x \in Ids(g) : /\ v[x] \in AnyPlace \ {"gpu"} /\ v[x] \in DOMAIN Supported
                        /\ PricedAs(g.op[x].cat, g.op[x].src) \in Supported[v[x]]
                        /\ g.op[x].cat = "attention" => v[x] = "cim"
  <2>1. \A x \in Ids(g) : g.op[x].cat = "attention" => v[x] = "cim"
    BY DEF CimUnitOf, PricedAs
  <2>2. \A x \in Ids(g) : PricedAs(g.op[x].cat, g.op[x].src) \in FixedCats
    BY <1>1, FixedUnits
  <2>. QED
    BY <2>1, <2>2, FixedUnits
<1>c. b = UnitsBy(g, v)
  OBVIOUS
<1> HIDE DEF v, b
<1>4. MappedTo(g, b, v)
  BY <1>1, <1>3, <1>c, MappedUnits
<1>5. GraphInv(o, b) /\ Runs(b, {}) /\ Together(b) /\ \A al : Kept(o, b, al)
  BY <1>3, <1>4, MappedRuns DEF Bare
<1>6. Bare(b) /\ Plain(b) = Ids(b) /\ Ids(b) = Ids(g)
  BY <1>1, <1>4, BareMapped
<1>7. Exact(b)
  <2>1. \A i \in Ids(b) : b.op[i].unit # "gpu"
    BY <1>3, <1>4, <1>6 DEF MappedTo
  <2>2. \A i \in Ids(b) : b.op[i].deps \subseteq Ids(b)
    BY <1>5 DEF GraphInv, Listed, Finite
  <2>. QED
    BY <1>6, <2>1, <2>2 DEF Exact, NeedsConversion
<1>8. FixedPlan(o, h) /\ SameUnits(b, h)
  BY <1>2, <1>5, <1>6, <1>7, BareDomains
<1>9. Plain(h) = Ids(h)
  <2>1. SameOps(b, h) /\ Finite(b) /\ Ids(h) = Ids(b)
    BY <1>5, <1>8 DEF SameUnits, SameOps, GraphInv, Listed
  <2>. QED
    BY <1>6, <2>1, SameReads
<1>. QED
  BY <1>8, <1>9

(* a graph mapped by it,                                                     *)
HeteroUnits(g) == \A i \in Plain(g) : g.op[i].unit = HeteroUnitOf(g.op[i].cat)

(* and the mapping.                                                          *)
HeteroMap(g) ==
  OnUnits(g, LAMBDA n : IF n.cat = "convert" THEN n.unit
                        ELSE IF n.cat = "matmul" THEN "cim"
                        ELSE IF n.cat = "attention" THEN "gpu"
                        ELSE IF n.cat = "elementwise" THEN "cpu" ELSE "mem")

(* The units of CimHeteroScheduler, before its conversions.                  *)
LEMMA HeteroMapped ==
  ASSUME NEW o, NEW g, GraphInv(o, g), Bare(g), NEW h, h = HeteroMap(g)
  PROVE  /\ GraphInv(o, h) /\ Runs(h, {}) /\ Together(h) /\ \A al : Kept(o, h, al)
         /\ Bare(h) /\ Plain(h) = Plain(g) /\ Ids(h) = Ids(g) /\ HeteroUnits(h)
         /\ HeteroUnits(g) => SameUnits(g, h)
<1> DEFINE v == [x \in Ids(g) |-> IF g.op[x].cat = "convert" THEN g.op[x].unit
                                  ELSE HeteroUnitOf(g.op[x].cat)]
<1>1. /\ NodeGraph(g) /\ Finite(g) /\ Plain(g) \subseteq Ids(g)
      /\ \A i \in Plain(g) : g.op[i].cat \in FixedCats
      /\ \A i \in Ids(g) : g.op[i].unit \in AnyPlace
  <2>1. \A y \in Ids(g) : g.op[y] \in Node
    BY DEF GraphInv, Listed, NodeGraph
  <2>2. \A y \in Ids(g) : g.op[y].unit \in AnyPlace
    BY <2>1 DEF Node, AnyPlace
  <2>. QED
    BY <2>2 DEF GraphInv, Listed, Bare, Plain
<1>2. h = UnitsBy(g, v)
  BY DEF UnitsBy, HeteroMap, OnUnits, MapOps, HeteroUnitOf
<1>3. \A x \in Plain(g) : /\ v[x] = HeteroUnitOf(g.op[x].cat)
                          /\ v[x] \in AnyPlace /\ v[x] \in DOMAIN Supported
                          /\ PricedAs(g.op[x].cat, g.op[x].src) \in Supported[v[x]]
                          /\ g.op[x].cat = "attention" => v[x] = "gpu"
  <2>1. \A x \in Plain(g) : v[x] = HeteroUnitOf(g.op[x].cat)
    BY <1>1 DEF Plain
  <2>2. HeteroUnitOf("attention") = "gpu"
    BY DEF HeteroUnitOf
  <2> HIDE DEF v
  <2>. QED
    BY <1>1, <2>1, <2>2, FixedUnits, PricedAsFacts
<1>4. \A x \in Ids(g) \ Plain(g) : v[x] = g.op[x].unit
  BY DEF Plain
<1> HIDE DEF v
<1>5. \A x \in Ids(g) : v[x] \in AnyPlace
  BY <1>1, <1>3, <1>4
<1>6. MappedTo(g, h, v)
  BY <1>1, <1>2, <1>5, MappedUnits
<1>7. GraphInv(o, h) /\ Runs(h, {}) /\ Together(h) /\ \A al : Kept(o, h, al)
  BY <1>3, <1>6, MappedRuns DEF Bare
<1>8. Bare(h) /\ Plain(h) = Plain(g) /\ Ids(h) = Ids(g)
  BY <1>1, <1>6, BareMapped
<1>9. \A x \in Ids(g) : h.op[x].unit = v[x] /\ h.op[x].cat = g.op[x].cat
  BY <1>6 DEF MappedTo, SameOps, Alike
<1>10. HeteroUnits(h)
  BY <1>1, <1>3, <1>8, <1>9 DEF HeteroUnits
<1>11. HeteroUnits(g) => SameUnits(g, h)
  <2>. SUFFICES ASSUME HeteroUnits(g) PROVE SameUnits(g, h)
    OBVIOUS
  <2>1. \A x \in Ids(g) : v[x] = g.op[x].unit
    BY <1>3, <1>4 DEF HeteroUnits
  <2>2. \A x \in Ids(g) : h.op[x].resident <=> g.op[x].resident
    BY <1>6, <1>8 DEF MappedTo, Held
  <2>. QED
    BY <1>6, <1>9, <2>1, <2>2 DEF SameUnits, MappedTo
<1>. QED
  BY <1>7, <1>8, <1>10, <1>11

(* The units of the hetero map stay with the ops.                            *)
LEMMA SameHetero ==
  ASSUME NEW g, Finite(g), HeteroUnits(g), NEW h, SameUnits(g, h)
  PROVE  HeteroUnits(h)
<1>1. Plain(h) = Plain(g) /\ Plain(g) \subseteq Ids(g)
  BY SameReads DEF SameUnits, Plain
<1>. QED
  BY <1>1 DEF HeteroUnits, SameUnits, SameOps, Alike

(* schedule_cim_hetero makes a plan with exact converts.                     *)
LEMMA HeteroFirst ==
  ASSUME NEW o, NEW g, GraphInv(o, g), Plain(g) = Ids(g), Bare(g), NEW place,
         NEW h, h = WithDomains(Converted(HeteroMap(g), place))
  PROVE  FixedPlan(o, h) /\ HeteroUnits(h)
<1> DEFINE a == HeteroMap(g)
           c == Converted(a, place)
<1>1. /\ GraphInv(o, a) /\ Runs(a, {}) /\ Together(a) /\ \A al : Kept(o, a, al)
      /\ Bare(a) /\ Plain(a) = Ids(a) /\ HeteroUnits(a)
  BY HeteroMapped
<1>2. h = WithDomains(c)
  OBVIOUS
<1> HIDE DEF a
<1>3. Listed(a)
  BY <1>1 DEF GraphInv
<1>4. PICK ids : Converts(a, c, ids)
  BY <1>3, ConvertedForm
<1> HIDE DEF c
<1>5. GraphInv(o, c) /\ Exact(c) /\ UnitsCarry(o, a, c) /\ ConvView(a, c)
  BY <1>1, <1>3, <1>4, ConvertsKeep, ConvertsAreExact, ConvertsCarry, ConvertViews
<1>6. Runs(c, {}) /\ Together(c) /\ \A al : Kept(o, c, al)
  BY <1>1, <1>5 DEF UnitsCarry
<1>7. /\ Plain(c) = Ids(a)
      /\ \A x \in Ids(a) : /\ c.op[x].cat = a.op[x].cat /\ c.op[x].unit = a.op[x].unit
                           /\ (c.op[x].resident <=> a.op[x].resident)
                           /\ c.op[x].fused = a.op[x].fused
  BY <1>5 DEF ConvView, Relinked
<1>8. Held(c) = {}
  BY <1>1, <1>5, <1>7 DEF Held, Bare, Exact
<1>9. Unfused(c)
  <2>1. \A x \in Ids(c) \ Ids(a) : c.op[x].fused = "none"
    BY <1>4 DEF Converts, ConvertOf
  <2>. QED
    BY <1>1, <1>7, <2>1 DEF Unfused, Bare
<1>10. Bare(c) /\ HeteroUnits(c)
  BY <1>1, <1>7, <1>8, <1>9 DEF Bare, HeteroUnits
<1>11. FixedPlan(o, h) /\ SameUnits(c, h)
  BY <1>2, <1>5, <1>6, <1>10, BareDomains
<1>12. Finite(c)
  BY <1>5 DEF GraphInv, Listed
<1>. QED
  BY <1>10, <1>11, <1>12, SameHetero

(* Run on its own plan it makes such a plan again.                           *)
LEMMA HeteroAgain ==
  ASSUME NEW o, NEW g, FixedPlan(o, g), HeteroUnits(g), NEW place,
         NEW h, h = WithDomains(Converted(HeteroMap(g), place))
  PROVE  FixedPlan(o, h) /\ HeteroUnits(h)
<1> DEFINE a == HeteroMap(g)
<1>1. /\ GraphInv(o, a) /\ Runs(a, {}) /\ Together(a) /\ \A al : Kept(o, a, al)
      /\ Bare(a) /\ HeteroUnits(a) /\ SameUnits(g, a)
  BY HeteroMapped DEF FixedPlan
<1> HIDE DEF a
<1>2. Finite(g) /\ Exact(g) /\ Finite(a) /\ Listed(a)
  BY <1>1 DEF FixedPlan, GraphInv, Listed
<1>3. Exact(a)
  BY <1>1, <1>2, ExactCarry
<1>4. Converted(a, place) = a
  BY <1>2, <1>3, ConvertedOnce
<1>5. h = WithDomains(a)
  BY <1>4 DEF a
<1>6. FixedPlan(o, h) /\ SameUnits(a, h)
  BY <1>1, <1>3, <1>5, BareDomains
<1>. QED
  BY <1>1, <1>2, <1>6, SameHetero

-----------------------------------------------------------------------------
(* One decision of the solver.                                              *)

(* What the solver maintains.                                                *)
Solving(o, g, td, al, owner) ==
  GraphInv(o, g) /\ TodoInv(o, g, td) /\ UnitInv(o, g, td, al, owner)

(* Deciding a block without a split keeps all the solver maintains.          *)
LEMMA PlaceDecision ==
  ASSUME NEW o, NEW g, NEW td, NEW n, NEW B, NextBlock(o, g, td, n, B), NEW al, NEW owner,
         UnitInv(o, g, td, al, owner),
         NEW u \in Chips \cup {"mem"}, RunsOn(o, B, u),
         NEW pinned, pinned => u = "cim" /\ MayKeep(o, n, al, o.op[n].shape.N),
         NEW h, h = Placed(g, n, u, pinned)
  PROVE  Solving(o, h, td \ B, al, owner)
<1>1. Places(g, h, B, u, pinned)
  BY PlacedOps
<1>. HIDE DEF Placed
<1>2. GraphInv(o, h) /\ TodoInv(o, h, td \ B)
  BY <1>1, PlaceKeeps
<1>3. UnitInv(o, h, td \ B, al, owner)
  BY <1>1, PlaceUnits
<1>. QED
  BY <1>2, <1>3 DEF Solving

(* So does deciding it with a split.                                         *)
LEMMA SplitDecision ==
  ASSUME NEW o, NEW g, NEW td, NEW n, NEW B, NextBlock(o, g, td, n, B), NEW al,
         NEW owner \in Chips, UnitInv(o, g, td, al, owner),
         NEW plan, NEW k \in Positive, Splits(o, n, plan, k),
         \A i \in 1..k : RunsOn(o, B, plan.units[i]),
         plan.resident => MayKeepFirst(o, n, plan, al),
         NEW sync \in Nat, NEW h, h = Split(g, n, plan, owner, sync)
  PROVE  Solving(o, h, td \ B, al, owner)
<1>1. PICK ids, merge : SplitMade(o, g, h, n, B, plan, k, ids, merge, owner, sync)
  BY SplitMakes
<1>2. SplitStep(o, g, td, n, B, plan, k, owner, sync, h, ids, merge)
  BY <1>1 DEF SplitStep
<1>3. UnitInv(o, h, td \ B, al, owner)
  BY <1>2, SplitUnits
<1>4. GraphInv(o, h) /\ TodoInv(o, h, td \ B)
  BY SplitKeeps
<1>. QED
  BY <1>3, <1>4 DEF Solving

(* The columns of a matmul the solver may give to the CIM.                   *)
ColumnsOf(o, n, al, cols) ==
  LET s == o.op[n].shape
  IN  cols = IF o.op[n].cat # "matmul" THEN 0
             ELSE IF Phase(o) = "decode" THEN CimCols(al, n, s.K, s.N) ELSE CimColsUpToCap(s.K, s.N)

(* A weight that is kept whole is one allotted whole.                        *)
LEMMA WholeKeeps ==
  ASSUME NEW o \in Graphs, Traced(o), NEW n \in Ids(o), NEW al, Phase(o) = "decode" => al \in Allots,
         NEW cols, ColumnsOf(o, n, al, cols), NEW units, NEW plan, plan.resident,
         WholePlan(plan, units, Keeps(o, n, Phase(o) = "decode") /\ cols = o.op[n].shape.N)
  PROVE  plan.units[1] = "cim" /\ MayKeep(o, n, al, o.op[n].shape.N)
<1>1. plan.units[1] = "cim" /\ Phase(o) = "decode" /\ o.op[n].cat = "matmul"
  BY DEF WholePlan, Keeps
<1>6. cols = o.op[n].shape.N
  BY DEF WholePlan, Keeps
<1>2. o.op[n].shape \in MatmulShapes
  BY <1>1, TracedOps DEF TracedOp, ShapesOf
<1>3. o.op[n].shape.N \in Positive
  BY <1>2 DEF MatmulShapes
<1>4. cols = CimCols(al, n, o.op[n].shape.K, o.op[n].shape.N)
  BY <1>1 DEF ColumnsOf
<1>5. /\ cols # 0 => n \in DOMAIN al /\ cols = al[n]
      /\ cols # o.op[n].shape.N => cols % CimAlign = 0
  BY <1>1, <1>3, <1>4, AllottedCols
<1>. QED
  BY <1>1, <1>3, <1>5, <1>6 DEF MayKeep, Positive

(* A multiple is so many times the other.                                    *)
LEMMA TimesOf ==
  ASSUME NEW a \in Int, NEW m \in Positive, a % m = 0
  PROVE  a = (a \div m) * m /\ a \div m \in Int
BY Multiple DEF Positive

(* The first part of a split that keeps weights has the columns allotted.    *)
LEMMA SplitKeepsFirst ==
  ASSUME NEW o \in Graphs, Traced(o), NEW n \in Ids(o), NEW al, Phase(o) = "decode" => al \in Allots,
         NEW cols, ColumnsOf(o, n, al, cols), NEW dims, NEW units, NEW plan, plan.resident,
         SplitPlan(plan, dims, units,
                   Keeps(o, n, Phase(o) = "decode") /\ Pins(plan, cols, o.op[n].shape.N))
  PROVE  MayKeepFirst(o, n, plan, al)
<1>1. /\ Phase(o) = "decode" /\ o.op[n].cat = "matmul"
      /\ Pins(plan, cols, o.op[n].shape.N) /\ PlanOf(plan, Len(plan.units))
  BY DEF SplitPlan, Keeps
<1>2. o.op[n].shape \in MatmulShapes
  BY <1>1, TracedOps DEF TracedOp, ShapesOf
<1>3. o.op[n].shape.N \in Positive
  BY <1>2 DEF MatmulShapes
<1>4. cols = CimCols(al, n, o.op[n].shape.K, o.op[n].shape.N)
  BY <1>1 DEF ColumnsOf
<1>5. /\ cols # 0 => n \in DOMAIN al /\ cols = al[n]
      /\ cols # o.op[n].shape.N => cols % CimAlign = 0
  BY <1>1, <1>3, <1>4, AllottedCols
<1>6. plan.dim = "N" /\ plan.units[1] = "cim" /\ cols \in Positive /\ cols < o.op[n].shape.N
  BY <1>1, <1>3 DEF Pins, Positive
<1>7. cols % CimAlign = 0 /\ n \in DOMAIN al /\ cols = al[n]
  BY <1>5, <1>6, <1>3 DEF Positive
<1>8. AlignOf(plan, 1) = IF "cim" \in DOMAIN Quantum THEN Quantum["cim"] ELSE 1
  BY <1>6 DEF AlignOf, KeyOf
<1>9. cols % AlignOf(plan, 1) = 0
  <2>1. CASE "cim" \notin DOMAIN Quantum
    BY <2>1, <1>8, <1>6 DEF Positive
  <2>2. CASE "cim" \in DOMAIN Quantum
    <3>. DEFINE q == Quantum["cim"]
    <3>1. q \in Positive /\ CimAlign \in Positive /\ CimAlign % q = 0 /\ AlignOf(plan, 1) = q
      BY <2>2, <1>8, QuantumAssumption, AllotsAssumption, CimAssumption DEF Positive
    <3>. HIDE DEF q
    <3>2. cols = (cols \div CimAlign) * CimAlign
      <4>1. cols \in Int /\ CimAlign \in Positive /\ cols % CimAlign = 0
        BY <3>1, <1>6, <1>7 DEF Positive
      <4>. QED
        BY <4>1, TimesOf
    <3>6. CimAlign = (CimAlign \div q) * q
      BY <3>1, TimesOf DEF Positive
    <3>3. cols \div CimAlign \in Int /\ CimAlign \div q \in Int
      BY <3>1, <1>6 DEF Positive
    <3>. DEFINE a == cols \div CimAlign b == CimAlign \div q
    <3>4. a \in Int /\ b \in Int /\ cols = a * (b * q) /\ q \in Int
      BY <3>1, <3>2, <3>6, <3>3 DEF Positive
    <3>. HIDE DEF a, b
    <3>5. cols = (a * b) * q /\ a * b \in Int
      BY <3>4
    <3>. QED
      BY <3>1, <3>5, <1>6, Multiple DEF Positive
  <2>. QED
    BY <2>1, <2>2
<1>10. Sizes(plan, o.op[n].shape.N)[1] = cols
  BY <1>1, <1>3, <1>9, PinnedSize
<1>. QED
  BY <1>1, <1>6, <1>7, <1>10 DEF MayKeepFirst, MayKeep

(* The columns for the CIM are at most those of the weight.                  *)
LEMMA ColumnsInRange ==
  ASSUME NEW o \in Graphs, Traced(o), NEW n \in Ids(o), NEW al, Phase(o) = "decode" => al \in Allots,
         NEW cols, ColumnsOf(o, n, al, cols)
  PROVE  cols \in Nat /\ (o.op[n].cat = "matmul" => cols <= o.op[n].shape.N)
<1>1. CASE o.op[n].cat # "matmul"
  BY <1>1 DEF ColumnsOf
<1>2. CASE o.op[n].cat = "matmul"
  <2>1. o.op[n].shape \in MatmulShapes
    BY <1>2, TracedOps DEF TracedOp, ShapesOf
  <2>2. o.op[n].shape.N \in Positive /\ o.op[n].shape.K \in Positive
    BY <2>1 DEF MatmulShapes
  <2>3. CASE Phase(o) = "decode"
    <3>1. cols = CimCols(al, n, o.op[n].shape.K, o.op[n].shape.N)
      BY <1>2, <2>3 DEF ColumnsOf
    <3>2. cols \in 0..o.op[n].shape.N
      BY <1>2, <2>2, <2>3, <3>1, AllottedCols
    <3>. QED
      BY <3>2, <2>2 DEF Positive
  <2>4. CASE Phase(o) # "decode"
    <3>1. cols = CimColsUpToCap(o.op[n].shape.K, o.op[n].shape.N)
      BY <1>2, <2>4 DEF ColumnsOf
    <3>. QED
      BY <2>2, <3>1, ColumnsBounded
  <2>. QED
    BY <2>3, <2>4
<1>. QED
  BY <1>1, <1>2

-----------------------------------------------------------------------------
(* What a finished plan is, whoever made it.                                *)

(* The plans that are charged syncs: those of the two schedulers that end in *)
(* _finish.                                                                  *)
Charged(g) == \E s \in Range(SyncUs) : Tailed(g, s)

(* A finished plan of o by the scheduler who.                                *)
Planned(o, g, al, owner, who) ==
  /\ GraphInv(o, g) /\ Exact(g) /\ Runs(g, {}) /\ Together(g) /\ Kept(o, g, al)
  /\ Domained(g) /\ (Fused(g) \/ Unfused(g))
  /\ who \in {"tiled", "single"} => Charged(g)
  /\ who = "tiled" => Matched(o, g) /\ MergesOn(g, owner)
  /\ who = "all_cim" => Plain(g) = Ids(g) /\ Bare(g)
  /\ who = "cim_hetero" => Bare(g) /\ HeteroUnits(g)

(* A graph that holds the invariants and the tags of the tail is a finished  *)
(* plan.                                                                     *)
LEMMA ChargedPlan ==
  ASSUME NEW o, NEW g, NEW al, NEW owner, NEW who \in {"tiled", "single"},
         GraphInv(o, g), Exact(g), Runs(g, {}), Together(g), Kept(o, g, al),
         NEW s \in Range(SyncUs), Tailed(g, s), who = "tiled" => Matched(o, g) /\ MergesOn(g, owner)
  PROVE  Planned(o, g, al, owner, who)
<1>1. Domained(g) /\ Fused(g)
  BY DEF Tailed
<1>2. Charged(g)
  BY DEF Charged
<1>. QED
  BY <1>1, <1>2 DEF Planned

(* _finish makes a finished plan of a decided graph.                         *)
LEMMA TailedPlan ==
  ASSUME NEW o, NEW g, NEW al, NEW owner, NEW who \in {"tiled", "single"},
         GraphInv(o, g), Plain(g) = Ids(g) \/ Exact(g), Runs(g, {}), Together(g), Kept(o, g, al),
         who = "tiled" => Matched(o, g) /\ MergesOn(g, owner),
         NEW s \in Range(SyncUs), s \in Nat, NEW place, NEW h, h = Finished(g, place, s)
  PROVE  Planned(o, h, al, owner, who)
<1>1. GraphInv(o, h) /\ Exact(h) /\ Tailed(h, s) /\ UnitsCarry(o, g, h)
  <2>1. CASE Plain(g) = Ids(g)
    BY <2>1, FinishedFirst
  <2>2. CASE Exact(g)
    BY <2>2, FinishedAgain
  <2>. QED
    BY <2>1, <2>2
<1>. HIDE DEF Finished
<1>2. Runs(h, {}) /\ Together(h) /\ Kept(o, h, al)
  BY <1>1 DEF UnitsCarry
<1>3. who = "tiled" => Matched(o, h) /\ MergesOn(h, owner)
  BY <1>1 DEF UnitsCarry
<1>. QED
  BY <1>1, <1>2, <1>3, ChargedPlan

(* So it does at the end of the solver.                                      *)
LEMMA TiledPlan ==
  ASSUME NEW o, NEW g, NEW al, NEW owner, Solving(o, g, {}, al, owner),
         NEW s \in Range(SyncUs), s \in Nat, NEW place, NEW h, h = Finished(g, place, s)
  PROVE  Planned(o, h, al, owner, "tiled")
<1>1. /\ GraphInv(o, g) /\ Plain(g) = Ids(g) /\ Runs(g, {}) /\ Together(g) /\ Kept(o, g, al)
      /\ Matched(o, g) /\ MergesOn(g, owner)
  BY DEF Solving, TodoInv, UnitInv
<1>. QED
  BY <1>1, TailedPlan

(* And of a plan on one unit.                                                *)
LEMMA SinglePlan ==
  ASSUME NEW o, Traced(o), NEW al, NEW owner, NEW u \in Units, NEW v,
         \A i \in Ids(o) : v[i] = IF o.op[i].cat \in DOMAIN FixedUnit THEN FixedUnit[o.op[i].cat]
                                  ELSE IF o.op[i].cat = "elementwise" THEN SupportUnit(u) ELSE u,
         NEW s \in Range(SyncUs), s \in Nat, NEW place, NEW h, h = Finished(UnitsBy(o, v), place, s)
  PROVE  Planned(o, h, al, owner, "single")
<1>. DEFINE g == UnitsBy(o, v)
<1>1. /\ GraphInv(o, g) /\ Plain(g) = Ids(g) /\ Runs(g, {}) /\ Together(g)
      /\ Kept(o, g, al)
  BY SingleMap
<1>2. h = Finished(g, place, s)
  OBVIOUS
<1>. HIDE DEF g
<1>. QED
  BY <1>1, <1>2, TailedPlan

(* A plan of a fixed map is finished as it is.                               *)
LEMMA FixedPlanned ==
  ASSUME NEW o, NEW g, NEW al, NEW owner, NEW who \in {"all_cim", "cim_hetero"}, FixedPlan(o, g),
         who = "all_cim" => Plain(g) = Ids(g), who = "cim_hetero" => HeteroUnits(g)
  PROVE  Planned(o, g, al, owner, who)
BY DEF Planned, FixedPlan, Bare

(* schedule_all_cim makes a finished plan.                                   *)
LEMMA AllCimPlanned ==
  ASSUME NEW o, NEW g, NEW al, NEW owner, GraphInv(o, g), Plain(g) = Ids(g), Bare(g),
         NEW h, h = AllCim(g)
  PROVE  Planned(o, h, al, owner, "all_cim")
<1>1. FixedPlan(o, h) /\ Plain(h) = Ids(h)
  BY AllCimPlan
<1>. HIDE DEF AllCim
<1>. QED
  BY <1>1, FixedPlanned

(* The graph of CimHeteroScheduler, converts placed by place.                *)
HeteroPlan(g, place) == WithDomains(Converted(HeteroMap(g), place))

(* schedule_cim_hetero makes a finished plan of a traced graph and of its    *)
(* own plan.                                                                 *)
LEMMA HeteroPlanned ==
  ASSUME NEW o, NEW g, NEW al, NEW owner, NEW place, NEW h, h = HeteroPlan(g, place),
         \/ GraphInv(o, g) /\ Plain(g) = Ids(g) /\ Bare(g)
         \/ FixedPlan(o, g) /\ HeteroUnits(g)
  PROVE  Planned(o, h, al, owner, "cim_hetero")
<1>1. h = WithDomains(Converted(HeteroMap(g), place))
  BY DEF HeteroPlan
<1>2. FixedPlan(o, h) /\ HeteroUnits(h)
  BY <1>1, HeteroFirst, HeteroAgain
<1>. HIDE DEF HeteroPlan
<1>. QED
  BY <1>2, FixedPlanned

(* A plan that is assigned again.                                           *)
LEMMA PlannedAgain ==
  ASSUME NEW o, NEW g, NEW al, NEW owner, NEW who \in {"tiled", "single", "all_cim", "cim_hetero"},
         Planned(o, g, al, owner, who), NEW s \in Range(SyncUs), s \in Nat, NEW place,
         NEW h, h = IF who = "all_cim" THEN AllCim(g)
                    ELSE IF who = "cim_hetero" THEN HeteroPlan(g, place)
                    ELSE Finished(g, place, s)
  PROVE  Planned(o, h, al, owner, who)
<1>. USE DEF Planned
<1>1. CASE who \in {"tiled", "single"}
  <2>1. h = Finished(g, place, s)
    BY <1>1
  <2>2. /\ GraphInv(o, g) /\ Exact(g) /\ Runs(g, {}) /\ Together(g) /\ Kept(o, g, al)
    BY <1>1
  <2>3. who = "tiled" => Matched(o, g) /\ MergesOn(g, owner)
    OBVIOUS
  <2>. HIDE DEF Planned
  <2>. QED
    BY <1>1, <2>1, <2>2, <2>3, TailedPlan
<1>2. CASE who = "all_cim"
  <2>1. h = AllCim(g)
    BY <1>2
  <2>2. GraphInv(o, g) /\ Plain(g) = Ids(g) /\ Bare(g)
    BY <1>2
  <2>. HIDE DEF Planned
  <2>. QED
    BY <1>2, <2>1, <2>2, AllCimPlanned
<1>3. CASE who = "cim_hetero"
  <2>1. h = HeteroPlan(g, place)
    BY <1>3
  <2>2. /\ GraphInv(o, g) /\ Exact(g) /\ Runs(g, {}) /\ Together(g) /\ Domained(g)
        /\ Bare(g) /\ HeteroUnits(g)
    BY <1>3
  <2>3. \A a : Kept(o, g, a)
    BY <2>2 DEF Bare, Kept
  <2>4. FixedPlan(o, g)
    BY <2>2, <2>3 DEF FixedPlan
  <2>. HIDE DEF Planned
  <2>. QED
    BY <1>3, <2>1, <2>2, <2>4, HeteroPlanned
<1>. QED
  BY <1>1, <1>2, <1>3

-----------------------------------------------------------------------------
(* The inductive invariant.                                                 *)

(* What stays true of a call, whatever it has done.                          *)
CallInv ==
  /\ origin \in Graphs /\ host \in Hosts /\ placement \in {"consumer", "producer"}
  /\ support \in Supports /\ (Phase(origin) = "decode" => allot \in Allots)
  /\ DOMAIN priced \subseteq Ids(origin)
  /\ planner \in {"tiled", "single", "all_cim", "cim_hetero"}

(* While the solver decides,                                                 *)
SolveInv == planner = "tiled" /\ Solving(origin, graph, todo, allot, host)

(* when the plan is made,                                                    *)
PlanInv == todo = {} /\ Planned(origin, graph, allot, host, planner)

(* and always.                                                               *)
IInv ==
  /\ CallInv
  /\ \/ pc = "solve" /\ SolveInv
     \/ pc \in {"planned", "reassigned"} /\ PlanInv

(* What is known of a call.                                                  *)
LEMMA CallFacts ==
  ASSUME CallInv
  PROVE  /\ Traced(origin) /\ host \in Chips /\ Units \subseteq Chips
         /\ Phase(origin) \in {"decode", "prefill"}
         /\ SyncUs[Phase(origin)] \in Nat /\ SyncUs[Phase(origin)] \in Range(SyncUs)
         /\ SyncUs[Phase(graph)] \in Nat /\ SyncUs[Phase(graph)] \in Range(SyncUs)
<1>1. \A g : Phase(g) \in {"decode", "prefill"}
  BY DEF Phase
<1>2. \A p \in {"decode", "prefill"} : SyncUs[p] \in Nat /\ SyncUs[p] \in Range(SyncUs)
  BY SyncAssumption DEF Range
<1>3. Traced(origin) /\ host \in Chips /\ Units \subseteq Chips
  BY GraphsAssumption, UnitsAssumption DEF CallInv, Chips
<1>. QED
  BY <1>1, <1>2, <1>3

(* The next block the solver decides.                                       *)
LEMMA DecidingNext ==
  ASSUME IInv, NEW n, Deciding(n)
  PROVE  /\ NextBlock(origin, graph, todo, n, Block(origin, n))
         /\ UnitInv(origin, graph, todo, allot, host)
         /\ Block(graph, n) = Block(origin, n) /\ n \in Ids(origin) /\ n \in Block(origin, n)
         /\ IsFirst(origin, n)
         /\ graph.op[n].cat = origin.op[n].cat /\ graph.op[n].shape = origin.op[n].shape
         /\ \A c \in Block(origin, n) :
              graph.op[c].cat = origin.op[c].cat /\ graph.op[c].src = c
<1>1. CallInv /\ SolveInv
  BY DEF IInv, Deciding
<1>2. Traced(origin)
  BY <1>1, CallFacts
<1>. DEFINE B == Block(origin, n)
<1>3. NextBlock(origin, graph, todo, n, B) /\ UnitInv(origin, graph, todo, allot, host)
  BY <1>1, <1>2 DEF SolveInv, Solving, NextBlock, Deciding
<1>4. B = Block(origin, n)
  OBVIOUS
<1>. HIDE DEF B
<1>5. n \in B /\ n \in Ids(origin) /\ IsFirst(origin, n) /\ Block(graph, n) = B
  BY <1>3, DecidedOps
<1>6. \A c \in B : /\ graph.op[c].cat = origin.op[c].cat /\ graph.op[c].src = c
                   /\ graph.op[c].shape = origin.op[n].shape
  BY <1>3, DecidedFields
<1>. QED
  BY <1>3, <1>4, <1>5, <1>6

(* What a decision leaves.                                                  *)
LEMMA DecidedKeeps ==
  ASSUME IInv, NEW n, Deciding(n), Decided(n), DOMAIN priced' \subseteq Ids(origin),
         Solving(origin, graph', todo \ Block(origin, n), allot, host)
  PROVE  IInv'
<1>1. CallInv /\ SolveInv /\ pc = "solve"
  BY DEF IInv, Deciding
<1>2. Block(graph, n) = Block(origin, n)
  BY DecidingNext
<1>3. todo' = todo \ Block(origin, n) /\ UNCHANGED <<call, pc, planner>>
  BY <1>2 DEF Decided
<1>4. CallInv'
  BY <1>1, <1>3 DEF CallInv, call
<1>5. SolveInv'
  BY <1>1, <1>3 DEF SolveInv, call
<1>. QED
  BY <1>1, <1>3, <1>4, <1>5 DEF IInv

(* The invariant holds when a scheduler is called.                           *)
LEMMA InitInv ==
  ASSUME Init
  PROVE  IInv
<1>1. CallInv /\ pc = "solve"
  BY DEF Init, CallInv
<1>2. Traced(origin) /\ host \in Chips
  BY <1>1, CallFacts
<1>3. GraphInv(origin, graph) /\ TodoInv(origin, graph, todo)
  BY <1>2, TracedGraph DEF Init
<1>4. graph = origin /\ todo = Ids(origin)
  BY DEF Init
<1>5. Held(origin) = {} /\ Plain(origin) = Ids(origin)
  BY <1>2, TracedBare
<1>6. \A i \in Ids(origin) : /\ origin.op[i].src = i /\ origin.op[i].unit = NoUnit
                             /\ origin.op[i].part = 0 /\ origin.op[i].cat # "merge"
                             /\ origin.op[i].cat # "convert"
                             /\ origin.op[i].cat = "attention" => origin.op[i].group \in Ids(origin)
  <2>. SUFFICES ASSUME NEW i \in Ids(origin)
                PROVE  /\ origin.op[i].src = i /\ origin.op[i].unit = NoUnit
                       /\ origin.op[i].part = 0 /\ origin.op[i].cat # "merge"
                       /\ origin.op[i].cat # "convert"
                       /\ origin.op[i].cat = "attention" => origin.op[i].group \in Ids(origin)
    OBVIOUS
  <2>1. TracedOp(origin, i)
    BY <1>2 DEF Traced
  <2>. QED
    BY <2>1 DEF TracedOp, Traceable, LegalDims, FixedUnit, Reps
<1>7. Runs(graph, todo) /\ MergesOn(graph, host)
  BY <1>4, <1>5, <1>6 DEF Runs, MergesOn
<1>8. Together(graph) /\ Kept(origin, graph, allot)
  BY <1>4, <1>5, <1>6 DEF Together, Kept
<1>9. Matched(origin, graph)
  <2>. SUFFICES ASSUME NEW i \in Real(origin), NEW t \in Ids(origin),
                       SameBlock(origin, origin.op[i].src, t)
                PROVE  \E j \in Real(origin) :
                         /\ origin.op[j].src = t /\ origin.op[j].part = origin.op[i].part
                         /\ origin.op[j].unit = origin.op[i].unit
    BY <1>4 DEF Matched
  <2>1. t \in Real(origin) /\ i \in Ids(origin)
    BY <1>6 DEF Real
  <2>. QED
    BY <2>1, <1>6
<1>. QED
  BY <1>1, <1>3, <1>7, <1>8, <1>9 DEF IInv, SolveInv, Solving, UnitInv, Init

-----------------------------------------------------------------------------
(* The steps of the solver.                                                 *)

(* Placing an op on its fixed unit keeps the invariant.                      *)
LEMMA FixedStep ==
  ASSUME IInv, NEW n, PlaceFixed(n)
  PROVE  IInv'
<1>. DEFINE B == Block(origin, n)
<1>0. Deciding(n) /\ Fixed(n) /\ Decided(n) /\ UNCHANGED priced
  BY DEF PlaceFixed
<1>1. /\ NextBlock(origin, graph, todo, n, B) /\ UnitInv(origin, graph, todo, allot, host)
      /\ n \in B /\ IsFirst(origin, n) /\ graph.op[n].cat = origin.op[n].cat
  BY <1>0, DecidingNext
<1>2. CallInv /\ Traced(origin)
  BY CallFacts DEF IInv
<1>3. \A c \in B : c = n
  BY <1>0, <1>1, <1>2, BlockCats DEF Fixed, FixedUnit, IsRep
<1>. DEFINE u == FixedUnit[origin.op[n].cat]
<1>4. u \in Chips \cup {"mem"} /\ graph' = Placed(graph, n, u, FALSE)
  BY <1>0, <1>1 DEF Fixed, FixedUnit, PlaceFixed, Chips
<1>5. /\ u \in DOMAIN Supported /\ origin.op[n].cat \in Supported[u]
      /\ origin.op[n].cat # "matmul"
  BY <1>0 DEF Fixed, FixedUnit, Supported, Compute, Anywhere
<1>6. RunsOn(origin, B, u)
  BY <1>3, <1>5, PricedAsFacts DEF RunsOn
<1>. HIDE DEF u, B
<1>7. Solving(origin, graph', todo \ B, allot, host)
  BY <1>1, <1>4, <1>6, PlaceDecision
<1>8. DOMAIN priced' \subseteq Ids(origin)
  BY <1>0, <1>2 DEF CallInv
<1>. QED
  BY <1>0, <1>7, <1>8, DecidedKeeps DEF B

(* Placing a block on the support unit keeps the invariant.                  *)
LEMMA SupportStep ==
  ASSUME IInv, NEW n, PlaceSupport(n)
  PROVE  IInv'
<1>. DEFINE B == Block(origin, n)
<1>0. Deciding(n) /\ Pinned(n) /\ Decided(n) /\ UNCHANGED priced
  BY DEF PlaceSupport
<1>1. /\ NextBlock(origin, graph, todo, n, B) /\ UnitInv(origin, graph, todo, allot, host)
      /\ n \in B /\ IsFirst(origin, n)
  BY <1>0, DecidingNext
<1>2. CallInv /\ Traced(origin)
  BY CallFacts DEF IInv
<1>3. \A c \in B : origin.op[c].cat \in {"attention", "elementwise"}
  BY <1>0, <1>1, <1>2, BlockCats DEF Pinned
<1>4. support \in Units /\ {"elementwise", "attention"} \subseteq Supported[support]
  BY <1>0, <1>2, UnitsAssumption DEF CallInv, Pinned
<1>5. support \in Chips /\ support \in DOMAIN Supported
  BY <1>4, UnitsAssumption DEF Chips, Supported
<1>6. RunsOn(origin, B, support)
  BY <1>3, <1>4, <1>5, PricedAsFacts DEF RunsOn
<1>. HIDE DEF B
<1>7. Solving(origin, graph', todo \ B, allot, host)
  BY <1>1, <1>5, <1>6, PlaceDecision DEF PlaceSupport
<1>8. DOMAIN priced' \subseteq Ids(origin)
  BY <1>0, <1>2 DEF CallInv
<1>. QED
  BY <1>0, <1>7, <1>8, DecidedKeeps DEF B

(* What the solver is offered for the next block.                            *)
LEMMA CandidateFacts ==
  ASSUME IInv, NEW n, Solved(n), NEW plan \in Candidates(n)
  PROVE  /\ Choice(origin, n, plan, CanRun(n), Columns(n), Decode)
         /\ ColumnsOf(origin, n, allot, Columns(n))
         /\ \A u \in CanRun(n) : u \in Chips /\ RunsOn(origin, Block(origin, n), u)
<1>0. Deciding(n) /\ graph.op[n].cat \in DOMAIN LegalDims
  BY DEF Solved
<1>1. /\ Block(graph, n) = Block(origin, n) /\ n \in Ids(origin) /\ IsFirst(origin, n)
      /\ graph.op[n].cat = origin.op[n].cat /\ graph.op[n].shape = origin.op[n].shape
      /\ \A c \in Block(origin, n) : graph.op[c].cat = origin.op[c].cat /\ graph.op[c].src = c
  BY <1>0, DecidingNext
<1>2. CallInv /\ Traced(origin) /\ Units \subseteq Chips
  BY CallFacts DEF IInv
<1>3. ColumnsOf(origin, n, allot, Columns(n))
  BY <1>1 DEF ColumnsOf, Columns, Decode
<1>4. /\ Columns(n) \in Nat
      /\ origin.op[n].cat = "matmul" => Columns(n) <= origin.op[n].shape.N
  BY <1>1, <1>2, <1>3, ColumnsInRange DEF CallInv
<1>5. CanRun(n) \in SUBSET Chips
  BY <1>2 DEF CanRun
<1>6. Choice(origin, n, plan, CanRun(n), Columns(n), Decode)
  <2>. DEFINE units == CanRun(n) cols == Columns(n) decode == Decode
  <2>1. /\ units \in SUBSET Chips /\ cols \in Nat
        /\ origin.op[n].cat = "matmul" => cols <= origin.op[n].shape.N
        /\ plan \in Offered(origin, n, units, host, cols, decode)
    BY <1>4, <1>5 DEF Candidates
  <2>. HIDE DEF units, cols, decode
  <2>2. Choice(origin, n, plan, units, cols, decode)
    BY <1>0, <1>1, <1>2, <2>1, OfferedPlans
  <2>. QED
    BY <2>2 DEF units, cols, decode
<1>7. \A u \in CanRun(n) : u \in Chips /\ RunsOn(origin, Block(origin, n), u)
  <2>1. \A u \in Chips : u \in DOMAIN Supported
    BY DEF Chips, Supported
  <2>2. \A c \in Block(origin, n) : PricedCat(graph.op[c]) = PricedAs(origin.op[c].cat, c)
    BY <1>1, PricedAsFacts
  <2>. QED
    BY <1>1, <1>5, <2>1, <2>2 DEF CanRun, RunsOn
<1>. QED
  BY <1>3, <1>6, <1>7

(* Only ops of the graph are priced.                                         *)
LEMMA PricedDomain ==
  ASSUME CallInv, NEW n \in Ids(origin), NEW plan, Price(n, plan)
  PROVE  DOMAIN priced' \subseteq Ids(origin)
<1>. DEFINE e == [m \in DOMAIN priced \cup {n} |->
                    IF m = n THEN Priced(graph, n, plan, host, mode, Known) ELSE priced[m]]
<1>1. priced' = e
  BY DEF Price
<1>2. DOMAIN e = DOMAIN priced \cup {n}
  OBVIOUS
<1>. HIDE DEF e
<1>. QED
  BY <1>1, <1>2 DEF CallInv

(* Placing a block whole keeps the invariant.                                *)
LEMMA SingleStep ==
  ASSUME IInv, NEW n, PlaceSingle(n)
  PROVE  IInv'
<1>. DEFINE B == Block(origin, n)
<1>0. Solved(n) /\ Deciding(n) /\ Decided(n)
  BY DEF PlaceSingle, Solved
<1>1. /\ NextBlock(origin, graph, todo, n, B) /\ UnitInv(origin, graph, todo, allot, host)
      /\ n \in Ids(origin)
  BY <1>0, DecidingNext
<1>2. CallInv /\ Traced(origin) /\ origin \in Graphs /\ (Phase(origin) = "decode" => allot \in Allots)
  BY CallFacts DEF IInv, CallInv
<1>3. PICK plan \in Candidates(n) :
        /\ plan.dim = NoDim /\ graph' = Placed(graph, n, plan.units[1], plan.resident)
        /\ Price(n, plan)
  BY DEF PlaceSingle
<1>4. /\ Choice(origin, n, plan, CanRun(n), Columns(n), Decode)
      /\ ColumnsOf(origin, n, allot, Columns(n))
      /\ \A u \in CanRun(n) : u \in Chips /\ RunsOn(origin, B, u)
  BY <1>0, CandidateFacts
<1>. DEFINE u == plan.units[1] cols == Columns(n) units == CanRun(n)
<1>5. WholePlan(plan, units, Keeps(origin, n, Decode) /\ cols = origin.op[n].shape.N)
  BY <1>3, <1>4 DEF Choice
<1>6. u \in Chips \cup {"mem"} /\ RunsOn(origin, B, u)
  BY <1>4, <1>5 DEF WholePlan
<1>7. plan.resident => u = "cim" /\ MayKeep(origin, n, allot, origin.op[n].shape.N)
  <2>1. ColumnsOf(origin, n, allot, cols)
    BY <1>4
  <2>. HIDE DEF cols, units
  <2>. QED
    BY <1>1, <1>2, <1>5, <2>1, WholeKeeps DEF Decode
<1>. HIDE DEF u, B, cols, units
<1>8. Solving(origin, graph', todo \ B, allot, host)
  <2>. DEFINE pinned == plan.resident
  <2>1. graph' = Placed(graph, n, u, pinned) /\ (pinned => plan.resident)
    BY <1>3 DEF u
  <2>2. pinned => u = "cim" /\ MayKeep(origin, n, allot, origin.op[n].shape.N)
    BY <1>7
  <2>. HIDE DEF pinned
  <2>. QED
    BY <1>1, <1>6, <2>1, <2>2, PlaceDecision
<1>9. DOMAIN priced' \subseteq Ids(origin)
  BY <1>1, <1>2, <1>3, PricedDomain
<1>. QED
  BY <1>0, <1>8, <1>9, DecidedKeeps DEF B

(* Splitting a block keeps the invariant.                                    *)
LEMMA SplitBlockStep ==
  ASSUME IInv, NEW n, SplitBlock(n)
  PROVE  IInv'
<1>. DEFINE B == Block(origin, n)
<1>0. Solved(n) /\ Deciding(n) /\ Decided(n) /\ graph.op[n].cat \in DOMAIN LegalDims
  BY DEF SplitBlock, Solved
<1>1. /\ NextBlock(origin, graph, todo, n, B) /\ UnitInv(origin, graph, todo, allot, host)
      /\ n \in Ids(origin)
      /\ graph.op[n].cat = origin.op[n].cat /\ graph.op[n].shape = origin.op[n].shape
  BY <1>0, DecidingNext
<1>2. /\ CallInv /\ Traced(origin) /\ origin \in Graphs
      /\ (Phase(origin) = "decode" => allot \in Allots)
      /\ host \in Chips /\ SyncUs[Phase(origin)] \in Nat
  BY CallFacts DEF IInv, CallInv
<1>3. PICK plan \in Candidates(n) :
        /\ plan.dim # NoDim /\ Feasible(plan, graph.op[n].shape[plan.dim])
        /\ graph' = Split(graph, n, plan, host, SyncUs[Phase(origin)])
        /\ Price(n, plan)
  BY DEF SplitBlock
<1>4. /\ Choice(origin, n, plan, CanRun(n), Columns(n), Decode)
      /\ ColumnsOf(origin, n, allot, Columns(n))
      /\ \A u \in CanRun(n) : u \in Chips /\ RunsOn(origin, B, u)
  BY <1>0, CandidateFacts
<1>. DEFINE cols == Columns(n) units == CanRun(n) k == Len(plan.units) s == SyncUs[Phase(origin)]
            dims == LegalDims[origin.op[n].cat]
<1>5. /\ AxisOf(origin.op[n].shape, plan.dim)
      /\ SplitPlan(plan, dims, units,
                   Keeps(origin, n, Decode) /\ Pins(plan, cols, origin.op[n].shape.N))
  BY <1>3, <1>4 DEF Choice, WholePlan
<1>6. PlanOf(plan, k) /\ \A i \in 1..k : plan.units[i] \in units
  BY <1>5 DEF SplitPlan
<1>7. Splits(origin, n, plan, k) /\ k \in Positive
  BY <1>0, <1>1, <1>3, <1>5, <1>6 DEF Splits, PlanOf, Positive
<1>8. \A i \in 1..k : RunsOn(origin, B, plan.units[i])
  BY <1>4, <1>6
<1>9. plan.resident => MayKeepFirst(origin, n, plan, allot)
  <2>1. ColumnsOf(origin, n, allot, cols)
    BY <1>4
  <2>. HIDE DEF cols, units, dims
  <2>. QED
    BY <1>1, <1>2, <1>5, <2>1, SplitKeepsFirst DEF Decode
<1>10. s \in Nat /\ graph' = Split(graph, n, plan, host, s)
  BY <1>2, <1>3
<1>. HIDE DEF B, cols, units, k, s, dims
<1>11. Solving(origin, graph', todo \ B, allot, host)
  BY <1>1, <1>2, <1>7, <1>8, <1>9, <1>10, SplitDecision
<1>12. DOMAIN priced' \subseteq Ids(origin)
  BY <1>1, <1>2, <1>3, PricedDomain
<1>. QED
  BY <1>0, <1>11, <1>12, DecidedKeeps DEF B

-----------------------------------------------------------------------------
(* The steps that make a plan.                                              *)

(* A step that ends in a finished plan keeps the invariant.                  *)
LEMMA MadePlan ==
  ASSUME CallInv, NEW who \in {"tiled", "single", "all_cim", "cim_hetero"},
         Planned(origin, graph', allot, host, who),
         todo' = {}, pc' \in {"planned", "reassigned"}, planner' = who, UNCHANGED <<call, priced>>
  PROVE  IInv'
<1>1. CallInv'
  BY DEF CallInv, call
<1>2. PlanInv'
  BY DEF PlanInv, call
<1>. QED
  BY <1>1, <1>2 DEF IInv

(* The tail of the solver keeps the invariant.                               *)
LEMMA FinishStep ==
  ASSUME IInv, Finish
  PROVE  IInv'
<1>1. /\ CallInv /\ Solving(origin, graph, {}, allot, host) /\ planner = "tiled"
      /\ UNCHANGED <<call, todo, priced, planner>> /\ todo = {} /\ pc' = "planned"
  BY DEF IInv, SolveInv, Finish
<1>. DEFINE s == SyncUs[Phase(origin)]
<1>2. s \in Nat /\ s \in Range(SyncUs) /\ graph' = Finished(graph, placement, s)
  BY <1>1, CallFacts DEF Finish
<1>. HIDE DEF s
<1>3. Planned(origin, graph', allot, host, "tiled")
  BY <1>1, <1>2, TiledPlan
<1>. QED
  BY <1>1, <1>3, MadePlan

(* SingleUnitScheduler keeps the invariant.                                  *)
LEMMA SingleAssign ==
  ASSUME IInv, NEW u \in Units, AssignSingle(u)
  PROVE  IInv'
<1>1. /\ CallInv /\ Traced(origin) /\ NodeGraph(origin)
      /\ UNCHANGED <<call, priced>> /\ todo' = {} /\ pc' = "planned" /\ planner' = "single"
  BY CallFacts, TracedOps DEF IInv, AssignSingle, AssignedBy
<1>. DEFINE s == SyncUs[Phase(origin)]
            v == [i \in Ids(origin) |->
                    IF origin.op[i].cat \in DOMAIN FixedUnit THEN FixedUnit[origin.op[i].cat]
                    ELSE IF origin.op[i].cat = "elementwise" THEN SupportUnit(u) ELSE u]
<1>2. s \in Nat /\ s \in Range(SyncUs)
  BY <1>1, CallFacts
<1>3. graph' = Finished(UnitsBy(origin, v), placement, s)
  <2>. DEFINE unitOf(n) == IF n.cat \in DOMAIN FixedUnit THEN FixedUnit[n.cat]
                           ELSE IF n.cat = "elementwise" THEN SupportUnit(u) ELSE u
              f == [x \in Ids(origin) |-> [origin.op[x] EXCEPT !.unit = unitOf(origin.op[x])]]
              f2 == [x \in Ids(origin) |-> [origin.op[x] EXCEPT !.unit = v[x]]]
  <2>1. graph' = Finished([origin EXCEPT !.op = f], placement, s)
    BY DEF AssignSingle, AssignedBy, OnUnits, MapOps
  <2>2. \A x \in Ids(origin) : v[x] = unitOf(origin.op[x])
    OBVIOUS
  <2>. HIDE DEF v, unitOf
  <2>3. f = f2
    BY <2>2
  <2>. QED
    BY <2>1, <2>3 DEF UnitsBy
<1>4. \A i \in Ids(origin) :
        v[i] = IF origin.op[i].cat \in DOMAIN FixedUnit THEN FixedUnit[origin.op[i].cat]
               ELSE IF origin.op[i].cat = "elementwise" THEN SupportUnit(u) ELSE u
  OBVIOUS
<1>. HIDE DEF s, v
<1>5. Planned(origin, graph', allot, host, "single")
  BY <1>1, <1>2, <1>3, <1>4, SinglePlan
<1>. QED
  BY <1>1, <1>5, MadePlan

(* schedule_all_cim keeps the invariant.                                     *)
LEMMA AllCimAssign ==
  ASSUME IInv, AssignAllCim
  PROVE  IInv'
<1>1. /\ CallInv /\ Traced(origin) /\ Mapped /\ graph' = AllCim(origin)
      /\ UNCHANGED <<call, priced>> /\ todo' = {} /\ pc' = "planned" /\ planner' = "all_cim"
  BY CallFacts DEF IInv, AssignAllCim, AssignedBy
<1>2. GraphInv(origin, origin) /\ Plain(origin) = Ids(origin) /\ Bare(origin)
  BY <1>1, TracedFixed DEF Mapped
<1>3. Planned(origin, graph', allot, host, "all_cim")
  BY <1>1, <1>2, AllCimPlanned
<1>. QED
  BY <1>1, <1>3, MadePlan

(* The plan of schedule_cim_hetero is the one the lemmas are about.          *)
LEMMA HeteroOf ==
  ASSUME NEW g
  PROVE  CimHetero(g) = HeteroPlan(g, placement)
BY DEF CimHetero, HeteroPlan, HeteroMap

(* schedule_cim_hetero keeps the invariant.                                  *)
LEMMA HeteroAssign ==
  ASSUME IInv, AssignCimHetero
  PROVE  IInv'
<1>1. /\ CallInv /\ Traced(origin) /\ Mapped /\ graph' = HeteroPlan(origin, placement)
      /\ UNCHANGED <<call, priced>> /\ todo' = {} /\ pc' = "planned" /\ planner' = "cim_hetero"
  BY CallFacts, HeteroOf DEF IInv, AssignCimHetero, AssignedBy
<1>2. GraphInv(origin, origin) /\ Plain(origin) = Ids(origin) /\ Bare(origin)
  BY <1>1, TracedFixed DEF Mapped
<1>3. Planned(origin, graph', allot, host, "cim_hetero")
  BY <1>1, <1>2, HeteroPlanned
<1>. QED
  BY <1>1, <1>3, MadePlan

(* assign called again on its own plan keeps the invariant.                  *)
LEMMA ReassignStep ==
  ASSUME IInv, Reassign
  PROVE  IInv'
<1>1. /\ CallInv /\ PlanInv /\ pc' = "reassigned" /\ UNCHANGED <<call, todo, priced, planner>>
  BY DEF IInv, Reassign
<1>. DEFINE s == SyncUs[Phase(graph)]
<1>2. s \in Nat /\ s \in Range(SyncUs)
  BY <1>1, CallFacts
<1>3. graph' = IF planner = "all_cim" THEN AllCim(graph)
               ELSE IF planner = "cim_hetero" THEN HeteroPlan(graph, placement)
               ELSE Finished(graph, placement, s)
  BY HeteroOf DEF Reassign
<1>4. /\ Planned(origin, graph, allot, host, planner) /\ todo = {}
      /\ planner \in {"tiled", "single", "all_cim", "cim_hetero"}
  BY <1>1 DEF PlanInv, CallInv
<1>. HIDE DEF s
<1>5. Planned(origin, graph', allot, host, planner)
  BY <1>2, <1>3, <1>4, PlannedAgain
<1>. QED
  BY <1>1, <1>4, <1>5, MadePlan

(* Every step keeps the invariant.                                           *)
LEMMA NextInv ==
  ASSUME IInv, [Next]_vars
  PROVE  IInv'
<1>1. CASE UNCHANGED vars
  <2>1. UNCHANGED <<origin, host, placement, support, allot, graph, todo, pc, priced, planner>>
    BY <1>1 DEF vars
  <2>. QED
    BY <2>1 DEF IInv, CallInv, SolveInv, PlanInv
<1>2. CASE \E n \in Ids(graph) :
             PlaceFixed(n) \/ PlaceSupport(n) \/ PlaceSingle(n) \/ SplitBlock(n)
  BY <1>2, FixedStep, SupportStep, SingleStep, SplitBlockStep
<1>3. CASE \E u \in Units : AssignSingle(u)
  BY <1>3, SingleAssign
<1>4. CASE AssignAllCim
  BY <1>4, AllCimAssign
<1>5. CASE AssignCimHetero
  BY <1>5, HeteroAssign
<1>6. CASE Finish
  BY <1>6, FinishStep
<1>7. CASE Reassign
  BY <1>7, ReassignStep
<1>. QED
  BY <1>1, <1>2, <1>3, <1>4, <1>5, <1>6, <1>7 DEF Next

(* IInv holds in every state any scheduler reaches, on every traced graph:   *)
(* the graph computes the traced ops, in order, wherever the call is; the    *)
(* solver's graph keeps the ops that are left as traced; a finished plan has *)
(* exact converts, kernels and syncs.                                        *)
THEOREM PlanInductive == Spec => []IInv
<1>1. Init => IInv
  BY InitInv
<1>2. IInv /\ [Next]_vars => IInv'
  BY NextInv
<1>. QED
  BY <1>1, <1>2, PTL DEF Spec

-----------------------------------------------------------------------------
(* What the invariant says of any graph.                                    *)

(* What the invariant says wherever the call is.                             *)
LEMMA InvGraph ==
  ASSUME IInv
  PROVE  /\ GraphInv(origin, graph) /\ Traced(origin) /\ CallInv
         /\ Done => PlanInv
BY CallFacts DEF IInv, SolveInv, Solving, PlanInv, Planned, Done

(* The nodes are well typed.                                                 *)
LEMMA TypesHold ==
  ASSUME IInv
  PROVE  TypeOK
<1>1. GraphInv(origin, graph) /\ CallInv
  BY InvGraph
<1>2. pc \in {"solve", "planned", "reassigned"} /\ todo \subseteq Ids(origin) \cap Ids(graph)
  BY DEF IInv, SolveInv, Solving, TodoInv, PlanInv
<1>3. NodeGraph(graph) /\ Finite(graph) /\ \A i, j \in Ids(graph) : graph.at[i] = graph.at[j] => i = j
  BY <1>1 DEF GraphInv, Listed
<1>4. IsInjective(graph.at)
  <2>1. DOMAIN graph.at = Ids(graph)
    BY <1>3 DEF NodeGraph
  <2>. QED
    BY <1>3, <2>1 DEF IsInjective
<1>. QED
  BY <1>1, <1>2, <1>3, <1>4 DEF TypeOK, CallInv, Finite

(* The next block is whole.                                                  *)
LEMMA BlocksHold ==
  ASSUME IInv
  PROVE  BlocksStayWhole
<1>. SUFFICES ASSUME NEW n \in todo, Deciding(n)
              PROVE  /\ n \in Ids(graph) /\ Decidable(n)
                     /\ Block(graph, n) = Block(origin, n) /\ Block(graph, n) \subseteq todo
  BY DEF BlocksStayWhole
<1>1. Traced(origin) /\ GraphInv(origin, graph) /\ TodoInv(origin, graph, todo) /\ \A m \in todo : n <= m
  BY CallFacts DEF IInv, SolveInv, Solving, Deciding
<1>2. Block(graph, n) = Block(origin, n) /\ (graph.op[n].cat = "attention" => Closed(graph, n))
  BY <1>1, BlockKept
<1>3. Block(origin, n) \subseteq todo
  BY <1>1, LeastIsFirst
<1>4. n \in Ids(graph)
  BY <1>1 DEF TodoInv
<1>. QED
  BY <1>2, <1>3, <1>4 DEF Decidable

(* The parts of an op do its work.                                           *)
LEMMA WorkHolds ==
  ASSUME IInv
  PROVE  WorkConserved
<1>1. Worked(origin, graph)
  BY InvGraph DEF GraphInv
<1>. QED
  BY <1>1 DEF Worked, WorkConserved, Works, SumOver

(* What an op reads: the values it gets, and behind a merge what that gets.  *)
LEMMA ReadThrough ==
  ASSUME NEW g, NEW i, NEW p
  PROVE  p \in ReadsFrom(g, i) <=>
           \/ p \in Values(g, i) /\ g.op[p].cat # "merge"
           \/ \E m \in Values(g, i) : g.op[m].cat = "merge" /\ p \in Values(g, m)
<1>. DEFINE mg == {v \in Values(g, i) : g.op[v].cat = "merge"}
            V == {Values(g, m) : m \in mg}
<1>1. ReadsFrom(g, i) = (UNION V) \cup (Values(g, i) \ mg)
  BY DEF ReadsFrom, Values, Value
<1>2. p \in UNION V <=> \E m \in mg : p \in Values(g, m)
  <2>. HIDE DEF mg
  <2>. QED
    OBVIOUS
<1>3. \A m : m \in mg <=> m \in Values(g, i) /\ g.op[m].cat = "merge"
  OBVIOUS
<1>4. p \in ReadsFrom(g, i) <=> p \in (UNION V) \/ (p \in Values(g, i) /\ p \notin mg)
  BY <1>1
<1>. HIDE DEF V, mg
<1>. QED
  BY <1>2, <1>3, <1>4, Zenon

(* Through a merge, an op reads the parts that it gathers.                   *)
LEMMA MergedReads ==
  ASSUME NEW o, Traced(o), NEW g, GraphInv(o, g), NEW i \in Real(g), NEW m \in Plain(g),
         m \in Wanted(o, g, i), g.op[m].cat = "merge", NEW p \in PartsOf(g, g.op[m].src)
  PROVE  /\ p \in Real(g) /\ g.op[p].src \in Reads(o, g.op[i].src)
         /\ ~SameBlock(o, g.op[p].src, g.op[i].src)
<1>1. /\ Originals(o, g) /\ Made(o, g) /\ Provenance(o, g) /\ i \in Plain(g)
      /\ g.op[i].cat # "merge"
  BY DEF GraphInv, Real, Plain
<1>2. p \in Plain(g) /\ g.op[p].src = g.op[m].src /\ g.op[p].part # 0
  BY DEF PartsOf
<1>3. g.op[p].src \in Reads(o, g.op[i].src)
  BY <1>2 DEF Wanted
<1>4. p \notin Ids(o) /\ g.op[p].src \in Ids(o) \ Ids(g) /\ g.op[p].cat = o.op[g.op[p].src].cat
  BY <1>1, <1>2, SourceIds DEF Made
<1>5. o.op[g.op[p].src].cat \in Traceable
  BY <1>4, TracedOps DEF TracedOp
<1>6. p \in Real(g)
  BY <1>2, <1>4, <1>5 DEF Real, Plain, Traceable, LegalDims, FixedUnit
<1>7. ASSUME SameBlock(o, g.op[p].src, g.op[i].src) PROVE FALSE
  <2>5. m \notin Ids(o)
    BY <1>1, <1>2, <1>4 DEF Originals, Plain
  <2>1. g.op[m].part = 0
    <3>1. g.op[m].src \in Ids(o) /\ o.op[g.op[m].src].cat \in Traceable
      BY <1>2, <1>4, <1>5
    <3>. QED
      BY <1>1, <2>5, <3>1 DEF Made, Traceable, LegalDims, FixedUnit
  <2>2. g.op[i].part = 0
    BY <1>2, <1>7, <2>1 DEF Wanted
  <2>3. i \in Ids(o) /\ g.op[i].src = i /\ i \in Ids(g)
    BY <1>1, <2>2, SourceIds DEF Plain
  <2>4. SameBlock(o, i, g.op[p].src)
    BY <1>7, <2>3 DEF SameBlock
  <2>. QED
    BY <1>1, <1>4, <2>3, <2>4 DEF Provenance
<1>. QED
  BY <1>3, <1>6, <1>7

(* What a part reads it reads from the same part of its block, or from all   *)
(* parts through their merge.                                                *)
LEMMA PartsMerged ==
  ASSUME NEW o, Traced(o), NEW g, GraphInv(o, g), NEW i \in Real(g), NEW p \in Real(g),
         g.op[p].src \in Reads(o, g.op[i].src),
         SameBlock(o, g.op[p].src, g.op[i].src) => g.op[p].part = g.op[i].part
  PROVE  \/ p \in Wanted(o, g, i)
         \/ \E m \in Wanted(o, g, i) : g.op[m].cat = "merge" /\ p \in PartsOf(g, g.op[m].src)
<1>1. /\ Originals(o, g) /\ Made(o, g) /\ Provenance(o, g) /\ i \in Plain(g) /\ p \in Plain(g)
      /\ g.op[p].cat # "merge"
  BY DEF GraphInv, Real, Plain
<1>2. CASE SameBlock(o, g.op[p].src, g.op[i].src) \/ g.op[p].part = 0
  BY <1>1, <1>2 DEF Wanted
<1>3. CASE ~SameBlock(o, g.op[p].src, g.op[i].src) /\ g.op[p].part # 0
  <2>1. p \notin Ids(o) /\ g.op[p].src \in Ids(o) \ Ids(g) /\ g.op[i].src \in Ids(o)
    BY <1>1, <1>3, SourceIds DEF Made
  <2>2. PICK m \in Plain(g) : g.op[m].src = g.op[p].src /\ g.op[m].part = 0
    BY <1>1, <1>3, <2>1 DEF Provenance
  <2>3. m \notin Ids(o)
    BY <1>1, <2>1, <2>2 DEF Originals, Plain
  <2>4. g.op[m].cat = "merge"
    BY <1>1, <2>2, <2>3 DEF Made
  <2>5. m \in Wanted(o, g, i) /\ p \in PartsOf(g, g.op[m].src)
    BY <1>1, <1>3, <2>2 DEF Wanted, PartsOf
  <2>. QED
    BY <2>4, <2>5
<1>. QED
  BY <1>2, <1>3

(* Every value that was read is read.                                        *)
LEMMA DependenciesHold ==
  ASSUME IInv
  PROVE  DependenciesPreserved
<1>. DEFINE o == origin g == graph
<1>1. GraphInv(o, g) /\ Traced(o)
  BY InvGraph
<1>2. SUFFICES ASSUME NEW i \in Real(g)
               PROVE  ReadsFrom(g, i) =
                        {p \in Real(g) :
                           /\ g.op[p].src \in Reads(o, g.op[i].src)
                           /\ SameBlock(o, g.op[p].src, g.op[i].src) => g.op[p].part = g.op[i].part}
  <2>1. \A i \in Real(g) : \A p \in Real(g) :
          g.op[p].src \in {c \in Ids(origin) : \E r \in Ids(origin) :
                             {g.op[i].src, c} \subseteq Block(origin, r)}
            <=> SameBlock(o, g.op[p].src, g.op[i].src)
    <3>. SUFFICES ASSUME NEW i \in Real(g), NEW p \in Real(g)
                  PROVE  g.op[p].src \in {c \in Ids(o) : \E r \in Ids(o) :
                                            {g.op[i].src, c} \subseteq Block(o, r)}
                           <=> SameBlock(o, g.op[p].src, g.op[i].src)
      OBVIOUS
    <3>1. p \in Plain(g) /\ Originals(o, g) /\ Made(o, g)
      BY <1>1 DEF GraphInv, Real, Plain
    <3>2. g.op[p].src \in Ids(o)
      BY <3>1, SourceIds
    <3>. HIDE DEF o, g
    <3>. QED
      BY <3>2 DEF SameBlock
  <2>. QED
    BY <1>2, <2>1 DEF DependenciesPreserved, Reads
<1>3. /\ Values(g, i) = Wanted(o, g, i)
      /\ \A m \in Plain(g) : g.op[m].cat = "merge" => Values(g, m) = PartsOf(g, g.op[m].src)
  BY <1>1 DEF GraphInv, Wired, Real, Plain
<1>. HIDE DEF o, g
<1>8. ASSUME NEW p
      PROVE  p \in ReadsFrom(g, i) <=>
               \/ p \in Wanted(o, g, i) /\ g.op[p].cat # "merge"
               \/ \E m \in Wanted(o, g, i) : g.op[m].cat = "merge" /\ p \in PartsOf(g, g.op[m].src)
  <2>1. p \in ReadsFrom(g, i) <=>
          \/ p \in Values(g, i) /\ g.op[p].cat # "merge"
          \/ \E m \in Values(g, i) : g.op[m].cat = "merge" /\ p \in Values(g, m)
    BY ReadThrough
  <2>2. \A m \in Wanted(o, g, i) : m \in Plain(g)
    BY DEF Wanted
  <2>. QED
    BY <1>3, <2>1, <2>2
<1>6. ASSUME NEW p \in ReadsFrom(g, i)
      PROVE  /\ p \in Real(g) /\ g.op[p].src \in Reads(o, g.op[i].src)
             /\ SameBlock(o, g.op[p].src, g.op[i].src) => g.op[p].part = g.op[i].part
  <2>1. CASE p \in Wanted(o, g, i) /\ g.op[p].cat # "merge"
    BY <2>1 DEF Wanted, Real, Plain
  <2>2. ASSUME NEW m \in Wanted(o, g, i), g.op[m].cat = "merge", p \in PartsOf(g, g.op[m].src)
        PROVE  /\ p \in Real(g) /\ g.op[p].src \in Reads(o, g.op[i].src)
               /\ ~SameBlock(o, g.op[p].src, g.op[i].src)
    BY <1>1, <1>2, <2>2, MergedReads DEF Wanted
  <2>. QED
    BY <1>8, <2>1, <2>2
<1>7. ASSUME NEW p \in Real(g), g.op[p].src \in Reads(o, g.op[i].src),
             SameBlock(o, g.op[p].src, g.op[i].src) => g.op[p].part = g.op[i].part
      PROVE  p \in ReadsFrom(g, i)
  <2>1. \/ p \in Wanted(o, g, i)
        \/ \E m \in Wanted(o, g, i) : g.op[m].cat = "merge" /\ p \in PartsOf(g, g.op[m].src)
    BY <1>1, <1>2, <1>7, PartsMerged
  <2>. QED
    BY <1>8, <2>1 DEF Real
<1>. QED
  BY <1>6, <1>7

-----------------------------------------------------------------------------
(* What the invariant says of a plan.                                       *)

(* A convert stands exactly where one is needed.                             *)
LEMMA ConvertsHold ==
  ASSUME IInv
  PROVE  ConvertsExact
<1>. DEFINE g == graph
<1>1. SUFFICES ASSUME Done
               PROVE  /\ \A i \in Ids(g) : \A d \in g.op[i].deps : ~NeedsConversion(g.op[d], g.op[i])
                      /\ \A k \in {i \in Ids(g) : g.op[i].cat = "convert"} :
                           \E p, c \in Ids(g) :
                             /\ g.op[k].deps = {p} /\ Successors(Deps(g), k) = {c}
                             /\ {p, c} \cap {i \in Ids(g) : g.op[i].cat = "convert"} = {}
                             /\ g.op[p].prec # g.op[c].prec
                             /\ Cardinality({g.op[p].unit, g.op[c].unit} \ {"gpu"}) = 1
                             /\ "gpu" \in {g.op[p].unit, g.op[c].unit}
  BY DEF ConvertsExact
<1>2. Exact(g)
  BY <1>1, InvGraph DEF PlanInv, Planned
<1>. HIDE DEF g
<1>3. ASSUME NEW k \in {i \in Ids(g) : g.op[i].cat = "convert"}
      PROVE  \E p, c \in Ids(g) :
               /\ g.op[k].deps = {p} /\ Successors(Deps(g), k) = {c}
               /\ {p, c} \cap {i \in Ids(g) : g.op[i].cat = "convert"} = {}
               /\ g.op[p].prec # g.op[c].prec
               /\ Cardinality({g.op[p].unit, g.op[c].unit} \ {"gpu"}) = 1
               /\ "gpu" \in {g.op[p].unit, g.op[c].unit}
  <2>1. k \in Ids(g) \ Plain(g)
    BY <1>3 DEF Plain
  <2>2. PICK p, c \in Plain(g) :
          g.op[k].deps = {p} /\ Successors(Deps(g), k) = {c} /\ Changes(g.op[p], g.op[c])
    BY <1>2, <2>1 DEF Exact
  <2>. DEFINE u == g.op[p].unit v == g.op[c].unit
  <2>3. /\ g.op[p].prec # g.op[c].prec
        /\ (u = "gpu" /\ v # "gpu") \/ (u # "gpu" /\ v = "gpu")
    BY <2>2 DEF Changes
  <2>. HIDE DEF u, v
  <2>4. Cardinality({u, v} \ {"gpu"}) = 1 /\ "gpu" \in {u, v}
    <3>1. {u, v} \ {"gpu"} = {u} \/ {u, v} \ {"gpu"} = {v}
      BY <2>3
    <3>. QED
      BY <2>3, <3>1, FS_Singleton
  <2>5. {p, c} \cap {i \in Ids(g) : g.op[i].cat = "convert"} = {} /\ p \in Ids(g) /\ c \in Ids(g)
    BY <2>2 DEF Plain
  <2>. QED
    BY <2>2, <2>3, <2>4, <2>5 DEF u, v
<1>. QED
  BY <1>2, <1>3 DEF Exact

(* The only dependency.                                                     *)
LEMMA OnlyOne ==
  ASSUME NEW S, NEW d, S = {d}
  PROVE  (CHOOSE x \in S : TRUE) = d
OBVIOUS

(* The kernels of a graph whose chains are fused.                           *)
LEMMA FollowerHeads ==
  ASSUME NEW g, Finite(g), Fused(g), NEW i \in Ids(g), g.op[i].fused = "follower",
         NEW only, only = CHOOSE d \in g.op[i].deps : TRUE
  PROVE  /\ g.op[only].fusedGroup = g.op[i].fusedGroup
         /\ g.op[g.op[i].fusedGroup].fused = "head"
         /\ g.op[g.op[i].fusedGroup].unit = g.op[i].unit
<1>1. PICK heads : HeadsOf(g, heads) /\ \A x \in Ids(g) :
        /\ g.op[x].fused = IF x \notin FusibleOps(g) THEN "none"
                           ELSE IF heads[x] = x THEN "head" ELSE "follower"
        /\ g.op[x].fusedGroup = IF x \in FusibleOps(g) THEN heads[x] ELSE 0
  BY DEF Fused
<1>2. i \in FusibleOps(g) /\ heads[i] # i
  BY <1>1
<1>3. /\ heads[i] \in FusibleOps(g) /\ heads[heads[i]] = heads[i]
      /\ g.op[heads[i]].unit = g.op[i].unit
      /\ \E d \in g.op[i].deps : FusesInto(g, i, d)
      /\ \A d \in g.op[i].deps : FusesInto(g, i, d) => heads[d] = heads[i]
  BY <1>1, <1>2 DEF HeadsOf
<1>4. PICK d \in g.op[i].deps : FusesInto(g, i, d)
  BY <1>3
<1>5. only = d
  BY <1>4, OnlyOne DEF FusesInto
<1>6. d \in FusibleOps(g)
  BY <1>4 DEF FusesInto, FusibleOps, Finite
<1>7. heads[i] \in Ids(g) /\ d \in Ids(g)
  BY <1>3, <1>6 DEF FusibleOps
<1>8. g.op[i].fusedGroup = heads[i]
  BY <1>1, <1>2
<1>9. g.op[only].fusedGroup = heads[i]
  <2>1. g.op[d].fusedGroup = heads[d]
    BY <1>1, <1>6, <1>7
  <2>2. heads[d] = heads[i]
    BY <1>3, <1>4
  <2>. QED
    BY <1>5, <2>1, <2>2
<1>10. g.op[heads[i]].fused = "head"
  BY <1>1, <1>3, <1>7
<1>. QED
  BY <1>3, <1>8, <1>9, <1>10

(* A head has no single producer it could have been fused into.              *)
LEMMA LoneHeads ==
  ASSUME NEW g, Finite(g), Ordered(g), Fused(g), NEW i \in Ids(g), g.op[i].fused = "head",
         Cardinality(g.op[i].deps) = 1, NEW only, only = CHOOSE d \in g.op[i].deps : TRUE,
         g.op[only].fused # "none", g.op[only].unit = g.op[i].unit,
         Successors(Deps(g), only) = {i}
  PROVE  FALSE
<1>1. PICK heads : HeadsOf(g, heads) /\ \A x \in Ids(g) :
        /\ g.op[x].fused = IF x \notin FusibleOps(g) THEN "none"
                           ELSE IF heads[x] = x THEN "head" ELSE "follower"
        /\ g.op[x].fusedGroup = IF x \in FusibleOps(g) THEN heads[x] ELSE 0
  BY DEF Fused
<1>2. i \in FusibleOps(g) /\ heads[i] = i
  BY <1>1
<1>3. g.op[i].deps = {only} /\ only \in Ids(g)
  <2>1. IsFiniteSet(g.op[i].deps)
    BY FS_Subset DEF Finite
  <2>2. PICK d : g.op[i].deps = {d}
    BY <2>1, FS_Singleton
  <2>3. only = d
    BY <2>2, OnlyOne
  <2>. QED
    BY <2>2, <2>3 DEF Finite
<1>4. only \in FusibleOps(g)
  BY <1>1, <1>3
<1>5. g.at[only] < g.at[i]
  <2>1. Value(g, only) = only /\ i \in Plain(g)
    BY <1>2, <1>4 DEF Value, FusibleOps, Fusible, Plain
  <2>2. only \in Values(g, i)
    BY <1>3, <2>1 DEF Values
  <2>. QED
    BY <2>1, <2>2 DEF Ordered
<1>6. FusesInto(g, i, only)
  BY <1>3, <1>4, <1>5 DEF FusesInto, FusibleOps
<1>. QED
  BY <1>1, <1>2, <1>3, <1>6 DEF HeadsOf

(* Every follower has its head.                                              *)
LEMMA HeadsHold ==
  ASSUME IInv
  PROVE  KernelsHaveHeads
<1>1. SUFFICES ASSUME Done, NEW i \in Ids(graph), NEW only,
                      only = CHOOSE d \in graph.op[i].deps : TRUE
               PROVE  /\ graph.op[i].fused = "follower" =>
                           /\ graph.op[only].fusedGroup = graph.op[i].fusedGroup
                           /\ graph.op[graph.op[i].fusedGroup].fused = "head"
                           /\ graph.op[graph.op[i].fusedGroup].unit = graph.op[i].unit
                      /\ graph.op[i].fused = "head" /\ Cardinality(graph.op[i].deps) = 1 =>
                           ~ /\ graph.op[only].fused # "none"
                             /\ graph.op[only].unit = graph.op[i].unit
                             /\ Successors(Deps(graph), only) = {i}
  BY DEF KernelsHaveHeads
<1>2. /\ Finite(graph) /\ Ordered(graph) /\ (Fused(graph) \/ Unfused(graph))
  BY <1>1, InvGraph DEF PlanInv, Planned, GraphInv, Listed
<1>3. CASE Unfused(graph)
  BY <1>3 DEF Unfused
<1>4. CASE Fused(graph)
  BY <1>1, <1>2, <1>4, FollowerHeads, LoneHeads
<1>. QED
  BY <1>2, <1>3, <1>4

-----------------------------------------------------------------------------
(* The syncs of a plan.                                                     *)

(* A value crosses from one compute unit to another.                         *)
Moves(g, d, c) ==
  g.op[d].unit # "mem" /\ g.op[c].unit # "mem" /\ g.op[d].unit # g.op[c].unit

(* A node is charged when it reads across units, no more and no less.        *)
LEMMA ChargedWhere ==
  ASSUME NEW g, NEW s \in Positive, Synced(g, s), NEW c \in Ids(g), g.op[c].cat # "merge"
  PROVE  g.op[c].sync > 0 <=> \E d \in g.op[c].deps : Moves(g, d, c)
<1>1. g.op[c].sync = IF Boundary(g, g.op[c]) THEN s ELSE 0
  BY DEF Synced
<1>2. Boundary(g, g.op[c]) <=> \E d \in g.op[c].deps : Moves(g, d, c)
  BY DEF Boundary, Moves
<1>. QED
  BY <1>1, <1>2 DEF Positive

(* On the way of a value through a convert the unit changes once.            *)
LEMMA ConvertMoves ==
  ASSUME NEW g, Exact(g), NEW c \in Ids(g), NEW k \in g.op[c].deps, k \in Ids(g),
         g.op[k].cat = "convert", NEW p, p = CHOOSE x \in g.op[k].deps : TRUE
  PROVE  /\ g.op[k].deps = {p}
         /\ g.op[k].unit \in {g.op[p].unit, g.op[c].unit} /\ g.op[p].unit # g.op[c].unit
<1>1. k \in Ids(g) \ Plain(g)
  BY DEF Plain
<1>2. PICK q, b \in Plain(g) :
        /\ g.op[k].deps = {q} /\ Successors(Deps(g), k) = {b}
        /\ Changes(g.op[q], g.op[b]) /\ g.op[k].unit \in {g.op[q].unit, g.op[b].unit}
  BY <1>1 DEF Exact
<1>3. p = q
  BY <1>2, OnlyOne
<1>4. c \in Successors(Deps(g), k)
  BY DEF Successors, Deps
<1>5. b = c
  BY <1>2, <1>4
<1>. QED
  BY <1>2, <1>3, <1>5 DEF Changes

(* The syncs of a plan are those of its boundaries.                          *)
LEMMA SyncsHold ==
  ASSUME IInv
  PROVE  SyncOncePerBoundary
<1>. DEFINE g == graph
<1>1. SUFFICES ASSUME Done, planner \in {"tiled", "single"}, 0 \notin Range(SyncUs),
                      NEW c \in {i \in Ids(g) : g.op[i].cat \notin {"merge", "convert"}}
               PROVE  LET via == {k \in g.op[c].deps : g.op[k].cat = "convert"}
                          source(k) == CHOOSE p \in g.op[k].deps : TRUE
                      IN  /\ \A d \in g.op[c].deps \ via : Moves(g, d, c) => g.op[c].sync > 0
                          /\ \A k \in via : Moves(g, source(k), c) =>
                               (g.op[k].sync > 0) # Moves(g, k, c)
                          /\ \A k \in via : Moves(g, k, c) => g.op[c].sync > 0
                          /\ g.op[c].sync > 0 => \E d \in g.op[c].deps : Moves(g, d, c)
                          /\ \A k \in via : g.op[k].sync > 0 => Moves(g, source(k), c)
  BY DEF SyncOncePerBoundary, Moves
<1>2. Exact(g) /\ Finite(g) /\ Charged(g)
  BY <1>1, InvGraph DEF PlanInv, Planned, GraphInv, Listed
<1>3. PICK s \in Range(SyncUs) : Synced(g, s)
  BY <1>2 DEF Charged, Tailed
<1>4. s \in Positive
  BY <1>1, SyncAssumption DEF Range, Positive
<1>. HIDE DEF g
<1>5. g.op[c].sync > 0 <=> \E d \in g.op[c].deps : Moves(g, d, c)
  BY <1>1, <1>3, <1>4, ChargedWhere
<1>6. ASSUME NEW k \in g.op[c].deps, g.op[k].cat = "convert", NEW p,
             p = CHOOSE x \in g.op[k].deps : TRUE
      PROVE  /\ Moves(g, p, c) => (g.op[k].sync > 0) # Moves(g, k, c)
             /\ g.op[k].sync > 0 => Moves(g, p, c)
  <2>1. k \in Ids(g) /\ c \in Ids(g)
    BY <1>1, <1>2 DEF Finite
  <2>2. /\ g.op[k].deps = {p}
        /\ g.op[k].unit \in {g.op[p].unit, g.op[c].unit} /\ g.op[p].unit # g.op[c].unit
    BY <1>2, <1>6, <2>1, ConvertMoves
  <2>3. g.op[k].sync > 0 <=> Moves(g, p, k)
    <3>1. g.op[k].sync > 0 <=> \E d \in g.op[k].deps : Moves(g, d, k)
      BY <1>3, <1>4, <1>6, <2>1, ChargedWhere
    <3>. QED
      BY <2>2, <3>1
  <2>. QED
    BY <2>2, <2>3 DEF Moves
<1>. QED
  BY <1>5, <1>6

-----------------------------------------------------------------------------
(* What is pinned in the CIM.                                               *)

(* The sum over one member is its value.                                     *)
LEMMA SumOne ==
  ASSUME NEW f, NEW x, f[x] \in Int
  PROVE  SumOver(f, {x}) = f[x]
<1>1. IsFiniteSet({x}) /\ {x} # {}
  BY FS_Singleton
<1>2. Pick({x}) \in {x} /\ SumOver(f, {x}) = f[Pick({x})] + SumOver(f, {x} \ {Pick({x})})
  BY <1>1, SumOverRec
<1>3. Pick({x}) = x /\ {x} \ {Pick({x})} = {}
  BY <1>2
<1>. QED
  BY <1>2, <1>3, SumEmpty

(* The columns of an op that are kept in the CIM are those of one node.      *)
LEMMA KeptColumns ==
  ASSUME NEW o, NEW g, GraphInv(o, g), NEW al, Kept(o, g, al), NEW n,
         NEW w, \A i \in Held(g) : w[i] = g.op[i].shape.N,
         NEW S, S = {i \in Held(g) : g.op[i].src = n}, SumOver(w, S) > 0
  PROVE  n \in DOMAIN al /\ SumOver(w, S) = al[n]
<1>1. S # {}
  <2>. SUFFICES ASSUME S = {} PROVE FALSE
    OBVIOUS
  <2>1. SumOver(w, S) = 0
    BY SumEmpty
  <2>. QED
    BY <2>1
<1>2. PICK i \in S : TRUE
  BY <1>1
<1>3. i \in Held(g) /\ g.op[i].src = n
  BY <1>2
<1>4. S = {i}
  BY <1>3 DEF Kept
<1>5. /\ g.op[i].cat = "matmul" /\ n \in DOMAIN al /\ g.op[i].shape.N = al[n]
  BY <1>3 DEF Kept
<1>6. g.op[i].shape \in MatmulShapes
  BY <1>3, <1>5 DEF GraphInv, Typed, Held, Traceable, LegalDims, ShapesOf
<1>7. w[i] = g.op[i].shape.N /\ w[i] \in Int
  BY <1>3, <1>6 DEF MatmulShapes, Positive
<1>8. SumOver(w, S) = w[i]
  BY <1>4, <1>7, SumOne
<1>. QED
  BY <1>5, <1>7, <1>8

(* They are those that were allotted.                                        *)
LEMMA PinsHold ==
  ASSUME IInv
  PROVE  PinnedAsAllotted
<1>. DEFINE g == graph o == origin
            w == [i \in Held(g) |-> g.op[i].shape.N]
<1>1. SUFFICES ASSUME Done
               PROVE  /\ Held(g) # {} => Decode
                      /\ \A i \in Held(g) : g.op[i].unit = "cim" /\ g.op[i].cat = "matmul"
                      /\ \A n \in Ids(o) :
                           SumOver(w, {i \in Held(g) : g.op[i].src = n}) > 0 =>
                             /\ n \in DOMAIN allot
                             /\ SumOver(w, {i \in Held(g) : g.op[i].src = n}) = allot[n]
  BY DEF PinnedAsAllotted, Held, SumOver
<1>2. GraphInv(o, g) /\ Kept(o, g, allot)
  BY <1>1, InvGraph DEF PlanInv, Planned
<1>3. \A i \in Held(g) : w[i] = g.op[i].shape.N
  OBVIOUS
<1>4. /\ Held(g) # {} => Decode
      /\ \A i \in Held(g) : g.op[i].unit = "cim" /\ g.op[i].cat = "matmul"
  BY <1>2 DEF Kept, Decode
<1>. HIDE DEF w, g
<1>5. ASSUME NEW n, NEW S, S = {i \in Held(g) : g.op[i].src = n}, SumOver(w, S) > 0
      PROVE  n \in DOMAIN allot /\ SumOver(w, S) = allot[n]
  BY <1>2, <1>3, <1>5, KeptColumns
<1>. QED
  BY <1>4, <1>5

-----------------------------------------------------------------------------
(* What run_dag asks of a plan.                                             *)

(* A non-empty set of naturals has a least member.                           *)
LEMMA LeastNat ==
  ASSUME NEW T \in SUBSET Nat, T # {}
  PROVE  \E a \in T : \A b \in T : a <= b
<1>1. PICK a \in T : \A b \in T : ~(<<b, a>> \in OpToRel(<, Nat))
  BY NatLessThanWellFounded, WFMin, Zenon
<1>2. ASSUME NEW b \in T, ~(a <= b) PROVE FALSE
  <2>1. <<b, a>> \in Nat \X Nat /\ <<b, a>>[1] = b /\ <<b, a>>[2] = a /\ b < a
    BY <1>2
  <2>2. <<b, a>> \in OpToRel(<, Nat)
    BY <2>1, Zenon DEF OpToRel
  <2>. QED
    BY <1>1, <2>2
<1>. QED
  BY <1>2

(* Whatever of the ops is left, one of them reads none of the others.        *)
LEMMA OneIsReady ==
  ASSUME NEW o, NEW g, GraphInv(o, g), NEW left \in SUBSET Ids(g), left # {}
  PROVE  \E i \in left : g.op[i].deps \cap left = {}
<1>1. /\ Finite(g) /\ NodeGraph(g) /\ Ordered(g) /\ Wired(o, g)
  BY DEF GraphInv, Listed
<1>2. \A k \in Ids(g) \ Plain(g) : \E p \in Plain(g) : g.op[k].deps = {p}
  BY <1>1 DEF Wired
<1>3. CASE left \cap Plain(g) = {}
  <2>1. PICK k \in left : TRUE
    OBVIOUS
  <2>2. PICK p \in Plain(g) : g.op[k].deps = {p}
    BY <1>2, <1>3, <2>1 DEF Plain
  <2>. QED
    BY <1>3, <2>1, <2>2
<1>4. CASE left \cap Plain(g) # {}
  <2>. DEFINE A == {g.at[i] : i \in left \cap Plain(g)}
  <2>1. \A i \in Ids(g) : g.at[i] \in Nat
    BY <1>1 DEF NodeGraph
  <2>2. A \in SUBSET Nat /\ A # {}
    BY <1>4, <2>1
  <2>3. PICK a \in A : \A b \in A : a <= b
    <3>. HIDE DEF A
    <3>. QED
      BY <2>2, LeastNat
  <2>4. PICK i \in left \cap Plain(g) : \A j \in left \cap Plain(g) : g.at[i] <= g.at[j]
    BY <2>3
  <2>5. \A v \in Values(g, i) : g.at[v] < g.at[i]
    BY <1>1, <2>4 DEF Ordered
  <2>6. ASSUME NEW v \in Values(g, i), v \in Plain(g) PROVE v \notin left
    BY <2>1, <2>4, <2>5, <2>6 DEF Plain
  <2>7. CASE g.op[i].deps \cap left = {}
    BY <2>4, <2>7
  <2>8. CASE g.op[i].deps \cap left # {}
    <3>1. PICK k \in g.op[i].deps \cap left : TRUE
      BY <2>8
    <3>2. k \notin Plain(g)
      <4>. SUFFICES ASSUME k \in Plain(g) PROVE FALSE
        OBVIOUS
      <4>1. Value(g, k) = k /\ k \in Values(g, i)
        BY <3>1 DEF Value, Plain, Values
      <4>. QED
        BY <2>6, <3>1, <4>1
    <3>3. PICK p \in Plain(g) : g.op[k].deps = {p}
      BY <1>2, <3>1, <3>2
    <3>4. Value(g, k) = p /\ p \in Values(g, i)
      BY <3>1, <3>2, <3>3, OnlyOne DEF Value, Plain, Values
    <3>5. p \notin left
      BY <2>6, <3>3, <3>4
    <3>. QED
      BY <3>1, <3>3, <3>5
  <2>. QED
    BY <2>7, <2>8
<1>. QED
  BY <1>3, <1>4

(* The ops that are left after k rounds of taking out what is ready.          *)
Waits(g, left) == {i \in left : g.op[i].deps \cap left # {}}

(* Popping the ready nodes over and over ends with none waiting.             *)
LEMMA WaitingEnds ==
  ASSUME NEW o, NEW g, GraphInv(o, g), NEW f,
         f = [k \in 0..Cardinality(Ids(g)) |-> IF k = 0 THEN Ids(g) ELSE Waits(g, f[k - 1])]
  PROVE  f[Cardinality(Ids(g))] = {}
<1>. DEFINE N == Cardinality(Ids(g))
            S == {n \in Nat : n <= N => f[n] \in SUBSET Ids(g) /\ Cardinality(f[n]) <= N - n}
<1>1. IsFiniteSet(Ids(g)) /\ N \in Nat
  BY FS_CardinalityType DEF GraphInv, Listed, Finite
<1>2. 0 \in S
  <2>1. f[0] = Ids(g)
    BY <1>1
  <2>. QED
    BY <1>1, <2>1
<1>3. ASSUME NEW n \in Nat, n \in S PROVE n + 1 \in S
  <2>. SUFFICES ASSUME n + 1 <= N
                PROVE  f[n + 1] \in SUBSET Ids(g) /\ Cardinality(f[n + 1]) <= N - (n + 1)
    OBVIOUS
  <2>1. f[n] \in SUBSET Ids(g) /\ Cardinality(f[n]) <= N - n
    BY <1>1, <1>3
  <2>2. f[n + 1] = Waits(g, f[n])
    <3>1. n + 1 \in 0..N /\ n + 1 # 0 /\ (n + 1) - 1 = n
      BY <1>1
    <3>. QED
      BY <3>1
  <2>. DEFINE a == f[n] b == f[n + 1]
  <2>3. a \in SUBSET Ids(g) /\ b \subseteq a /\ b \in SUBSET Ids(g)
    BY <2>1, <2>2 DEF Waits
  <2>4. IsFiniteSet(a) /\ IsFiniteSet(b) /\ Cardinality(a) \in Nat /\ Cardinality(b) \in Nat
    BY <1>1, <2>3, FS_Subset, FS_CardinalityType
  <2>5. CASE a = {}
    <3>1. b = {}
      BY <2>3, <2>5
    <3>2. Cardinality(b) = 0
      BY <3>1, FS_EmptySet
    <3>. QED
      BY <1>1, <2>3, <3>2
  <2>6. CASE a # {}
    <3>1. PICK i \in a : g.op[i].deps \cap a = {}
      <4>. HIDE DEF a, b
      <4>. QED
        BY <2>3, <2>6, OneIsReady
    <3>2. i \notin b
      BY <2>2, <3>1 DEF Waits
    <3>3. b # a
      BY <3>1, <3>2
    <3>. HIDE DEF a, b
    <3>4. Cardinality(b) <= Cardinality(a) /\ Cardinality(b) # Cardinality(a)
      BY <2>3, <2>4, <3>3, FS_Subset
    <3>. QED
      BY <1>1, <2>1, <2>3, <2>4, <3>4 DEF a, b
  <2>. QED
    BY <2>5, <2>6
<1>4. N \in S
  <2>. HIDE DEF S, N
  <2>. QED
    BY <1>1, <1>2, <1>3, NatSetInduction
<1>5. f[N] \in SUBSET Ids(g) /\ Cardinality(f[N]) <= 0
  BY <1>1, <1>4
<1>. HIDE DEF N
<1>6. IsFiniteSet(f[N]) /\ Cardinality(f[N]) \in Nat
  BY <1>1, <1>5, FS_Subset, FS_CardinalityType
<1>7. Cardinality(f[N]) = 0
  BY <1>5, <1>6
<1>8. f[N] = {}
  BY <1>6, <1>7, FS_EmptySet
<1>. QED
  BY <1>8 DEF N

(* Every op of a plan is placed where it can be priced.                      *)
LEMMA PlacedWell ==
  ASSUME NEW o, NEW g, GraphInv(o, g), Exact(g), Runs(g, {}), Together(g), Domained(g),
         NEW i \in Ids(g)
  PROVE  /\ CanPrice(g, i)
         /\ g.op[i].cat = "attention" =>
              LET rep == g.op[g.op[i].group]
              IN  rep.unit = g.op[i].unit /\ rep.part = g.op[i].part
         /\ g.op[i].domain # "unset"
         /\ g.op[i].bytes > 0 => g.op[i].domain # "none"
<1>1. g.op[i].domain = Residency(g.op[i])
  BY DEF Domained
<1>2. g.op[i].domain # "unset" /\ (g.op[i].bytes > 0 => g.op[i].domain # "none")
  BY <1>1 DEF Residency
<1>3. CASE i \in Plain(g)
  <2>1. g.op[i].unit \in DOMAIN Supported /\ PricedCat(g.op[i]) \in Supported[g.op[i].unit]
    BY <1>3, PricedAsFacts DEF Runs
  <2>2. ASSUME g.op[i].cat = "attention"
        PROVE  /\ g.op[i].group \in Ids(g) /\ IsRep(g, g.op[i].group)
               /\ g.op[g.op[i].group].unit = g.op[i].unit
               /\ g.op[g.op[i].group].part = g.op[i].part
    BY <1>3, <2>2 DEF GraphInv, Grouped, Together, Plain
  <2>. QED
    BY <1>2, <2>1, <2>2 DEF CanPrice
<1>4. CASE i \notin Plain(g)
  <2>1. PICK p, c \in Plain(g) : g.op[i].unit \in {g.op[p].unit, g.op[c].unit}
    BY <1>4 DEF Exact
  <2>2. g.op[p].unit \in DOMAIN Supported /\ g.op[c].unit \in DOMAIN Supported
    BY DEF Runs
  <2>3. g.op[i].cat = "convert" /\ g.op[i].unit \in DOMAIN Supported
    BY <1>4, <2>1, <2>2 DEF Plain
  <2>4. "convert" \in Supported[g.op[i].unit] /\ PricedCat(g.op[i]) = "convert"
    BY <2>3 DEF Supported, Anywhere, PricedCat, IsScale
  <2>. QED
    BY <1>2, <2>3, <2>4 DEF CanPrice
<1>. QED
  BY <1>3, <1>4

(* A plan passes the checks of run_dag.                                      *)
LEMMA AcceptedHold ==
  ASSUME IInv
  PROVE  EngineAccepts
<1>. SUFFICES ASSUME Done PROVE EngineAccepts
  BY DEF EngineAccepts
<1>. DEFINE g == graph N == Cardinality(Ids(g))
<1>1. /\ GraphInv(origin, g) /\ Exact(g) /\ Runs(g, {}) /\ Together(g) /\ Domained(g)
  BY InvGraph DEF PlanInv, Planned
<1>2. N \in Nat
  BY <1>1, FS_CardinalityType DEF GraphInv, Listed, Finite
<1>3. \A i \in Ids(g) :
        /\ CanPrice(g, i)
        /\ g.op[i].cat = "attention" =>
             LET rep == g.op[g.op[i].group]
             IN  rep.unit = g.op[i].unit /\ rep.part = g.op[i].part
        /\ g.op[i].domain # "unset"
        /\ g.op[i].bytes > 0 => g.op[i].domain # "none"
  <2>. HIDE DEF g
  <2>. QED
    BY <1>1, PlacedWell
<1>. DEFINE Step == [left \in SUBSET Ids(g) |-> Waits(g, left)]
            IsWaiting(f) == f = [k \in 0..N |-> IF k = 0 THEN Ids(g) ELSE Waits(g, f[k - 1])]
<1>4. \E f : IsWaiting(f)
  <2>1. PICK f : Iterates(f, Ids(g), Step, N)
    <3>. HIDE DEF N, Step, g
    <3>. QED
      BY <1>2, IteratesExist
  <2>. HIDE DEF N, g
  <2>2. f = [k \in 0..N |-> IF k = 0 THEN Ids(g) ELSE Step[f[k - 1]]]
    BY <2>1 DEF Iterates
  <2>. DEFINE S == {n \in Nat : n <= N => f[n] \in SUBSET Ids(g)}
  <2>3. 0 \in S
    BY <1>2, <2>2
  <2>4. ASSUME NEW n \in Nat, n \in S PROVE n + 1 \in S
    <3>. SUFFICES ASSUME n + 1 <= N PROVE f[n + 1] \in SUBSET Ids(g)
      OBVIOUS
    <3>1. n + 1 \in 0..N /\ n + 1 # 0 /\ (n + 1) - 1 = n /\ f[n] \in SUBSET Ids(g)
      BY <1>2, <2>4
    <3>2. f[n + 1] = Step[f[n]]
      BY <2>2, <3>1
    <3>. QED
      BY <3>1, <3>2 DEF Waits
  <2>5. \A k \in 0..N : f[k] \in SUBSET Ids(g)
    <3>1. Nat \subseteq S
      <4>. HIDE DEF S
      <4>. QED
        BY <2>3, <2>4, NatSetInduction
    <3>. QED
      BY <1>2, <3>1
  <2>6. ASSUME NEW k \in 0..N, k # 0 PROVE Step[f[k - 1]] = Waits(g, f[k - 1])
    <3>1. k - 1 \in 0..N
      BY <1>2, <2>6
    <3>. QED
      BY <2>5, <3>1
  <2>. HIDE DEF Step
  <2>7. \A k \in 0..N : (IF k = 0 THEN Ids(g) ELSE Step[f[k - 1]])
                          = (IF k = 0 THEN Ids(g) ELSE Waits(g, f[k - 1]))
    BY <2>6
  <2>. QED
    BY <2>2, <2>7
<1>5. \A f : IsWaiting(f) => f[N] = {}
  BY <1>1, WaitingEnds
<1>. DEFINE w == CHOOSE f : IsWaiting(f)
<1>6. w[N] = {}
  <2>. HIDE DEF IsWaiting
  <2>. QED
    BY <1>4, <1>5, Zenon
<1>. QED
  BY <1>3, <1>6, Zenon DEF EngineAccepts, Waits

(* Whatever the scheduler and the graph, ids are unique, every dependency is *)
(* a node (the checks of Dag.__init__ never fire on a rewritten graph), and  *)
(* what is left to decide is in the graph.                                   *)
THEOREM PlanTypeCorrect == Spec => []TypeOK
<1>1. IInv => TypeOK
  BY TypesHold
<1>. QED
  BY <1>1, PlanInductive, PTL

(* TiledScheduler.assign never raises on a traced graph: when it comes to a  *)
(* bmm, this is the QK^T of a block that no earlier split has cut into or    *)
(* reordered.                                                                *)
THEOREM PlanBlocksStayWhole == Spec => []BlocksStayWhole
<1>1. IInv => BlocksStayWhole
  BY BlocksHold
<1>. QED
  BY <1>1, PlanInductive, PTL

(* No rewriting loses, adds or misdirects a read: an op still reads each     *)
(* value it was traced to read, through merges and converts, part by part    *)
(* within a block.                                                           *)
THEOREM PlanDependencies == Spec => []DependenciesPreserved
<1>1. IInv => DependenciesPreserved
  BY DependenciesHold
<1>. QED
  BY <1>1, PlanInductive, PTL

(* tiling._sizes and split_node together conserve work: the parts of an op   *)
(* add up to it, however the fractions round.                                *)
THEOREM PlanWork == Spec => []WorkConserved
<1>1. IInv => WorkConserved
  BY WorkHolds
<1>. QED
  BY <1>1, PlanInductive, PTL

(* insert_conversions puts one convert where the precision changes at the    *)
(* GPU's boundary, and no other, on the first assign and on a second one.    *)
THEOREM PlanConverts == Spec => []ConvertsExact
<1>1. IInv => ConvertsExact
  BY ConvertsHold
<1>. QED
  BY <1>1, PlanInductive, PTL

(* assign_sync charges each boundary of units once: not twice where a        *)
(* convert or a merge stands on it, and none where nothing moves.            *)
THEOREM PlanSyncs == Spec => []SyncOncePerBoundary
<1>1. IInv => SyncOncePerBoundary
  BY SyncsHold
<1>. QED
  BY <1>1, PlanInductive, PTL

(* tag_fused_chains gives every follower a head on its own unit that it can  *)
(* be reached from, and heads no op that could have been fused.              *)
THEOREM PlanKernels == Spec => []KernelsHaveHeads
<1>1. IInv => KernelsHaveHeads
  BY HeadsHold
<1>. QED
  BY <1>1, PlanInductive, PTL

(* run_dag accepts every finished plan: each node has a unit that supports   *)
(* it, and no node waits for ever.                                           *)
THEOREM PlanAccepted == Spec => []EngineAccepts
<1>1. IInv => EngineAccepts
  BY AcceptedHold
<1>. QED
  BY <1>1, PlanInductive, PTL

(* What a plan keeps in the CIM is what was allotted, column for column:     *)
(* neither rounding in _sizes nor a second assign changes it.                *)
THEOREM PlanPinned == Spec => []PinnedAsAllotted
<1>1. IInv => PinnedAsAllotted
  BY PinsHold
<1>. QED
  BY <1>1, PlanInductive, PTL

-----------------------------------------------------------------------------
(* Dag.is_acyclic answers right on every finite graph: the nodes popped so    *)
(* far are free of cycles, and the queue holds exactly the nodes whose       *)
(* dependencies have all been popped.                                        *)

(* A set of nodes is well founded when each of its parts has a first node.    *)
WellFounded(seenSet) ==
  \A S \in SUBSET seenSet : S # {} => \E n \in S : deps[n] \cap S = {}

KahnInv ==
  /\ KahnTypeOK
  /\ \A n \in Nodes : indeg[n] = Cardinality(deps[n] \ seen)
  /\ queue = {n \in Nodes \ seen : deps[n] \subseteq seen}
  /\ \A n \in seen : deps[n] \subseteq seen
  /\ WellFounded(seen)
  /\ verdict = "acyclic" => seen = Nodes
  /\ verdict = "cyclic" => seen # Nodes /\ queue = {}

(* A set of nodes is finite, and a part of it no larger.                     *)
LEMMA CardOfPart ==
  ASSUME NEW S \in SUBSET Nodes
  PROVE  /\ IsFiniteSet(S) /\ Cardinality(S) \in Nat
         /\ Cardinality(S) = 0 <=> S = {}
BY NodesFinite, FS_Subset, FS_CardinalityType, FS_EmptySet

(* The countdown starts at the number of dependencies.                       *)
LEMMA InitKahn == KahnInit => KahnInv
<1>. SUFFICES ASSUME KahnInit PROVE KahnInv
  OBVIOUS
<1>1. deps \in [Nodes -> SUBSET Nodes]
  BY DepGraphsAssumption DEF KahnInit
<1>2. \A n \in Nodes : Cardinality(deps[n]) \in Nat
  BY <1>1, CardOfPart
<1>3. KahnTypeOK
  BY <1>1, <1>2 DEF KahnInit, KahnTypeOK
<1>4. \A n \in Nodes : deps[n] \ seen = deps[n]
  BY DEF KahnInit
<1>. QED
  BY <1>1, <1>3, <1>4 DEF KahnInit, KahnInv, WellFounded

(* Popping a node keeps the invariant.                                       *)
LEMMA PopKahn == ASSUME KahnInv, NEW p \in Nodes, Pop(p) PROVE KahnInv'
<1>1. /\ p \in queue /\ indeg' = CountDown(p) /\ queue' = (queue \ {p}) \cup Unlocked(p)
      /\ seen' = seen \cup {p} /\ deps' = deps /\ verdict' = verdict
  BY DEF Pop
<1>2. /\ deps \in [Nodes -> SUBSET Nodes] /\ indeg \in [Nodes -> Nat]
      /\ seen \subseteq Nodes /\ verdict \in {"none", "acyclic", "cyclic"}
  BY DEF KahnInv, KahnTypeOK
<1>3. p \notin seen /\ deps[p] \subseteq seen
  BY <1>1 DEF KahnInv
<1>4. \A n \in Nodes : n \in Successors(deps, p) <=> p \in deps[n]
  BY <1>2 DEF Successors
<1>5. \A n \in Nodes : CountDown(p)[n] = Cardinality(deps[n] \ seen')
  <2>. SUFFICES ASSUME NEW n \in Nodes
                PROVE  CountDown(p)[n] = Cardinality(deps[n] \ seen')
    OBVIOUS
  <2>1. indeg[n] = Cardinality(deps[n] \ seen) /\ IsFiniteSet(deps[n] \ seen)
    BY <1>2, CardOfPart DEF KahnInv
  <2>2. CASE p \in deps[n]
    <3>1. deps[n] \ seen' = (deps[n] \ seen) \ {p} /\ p \in deps[n] \ seen
      BY <2>2, <1>1, <1>3
    <3>2. Cardinality(deps[n] \ seen') = Cardinality(deps[n] \ seen) - 1
      BY <3>1, <2>1, FS_RemoveElement
    <3>. QED
      BY <3>2, <2>1, <2>2, <1>4 DEF CountDown
  <2>3. CASE p \notin deps[n]
    <3>1. deps[n] \ seen' = deps[n] \ seen
      BY <2>3, <1>1
    <3>. QED
      BY <3>1, <2>1, <2>3, <1>4 DEF CountDown
  <2>. QED
    BY <2>2, <2>3
<1>6. \A n \in Nodes : CountDown(p)[n] = 0 <=> deps[n] \subseteq seen'
  <2>. SUFFICES ASSUME NEW n \in Nodes
                PROVE  CountDown(p)[n] = 0 <=> deps[n] \subseteq seen'
    OBVIOUS
  <2>1. deps[n] \ seen' \in SUBSET Nodes
    BY <1>2
  <2>. QED
    BY <2>1, <1>5, CardOfPart
<1>7. indeg' \in [Nodes -> Nat]
  <2>1. ASSUME NEW n \in Nodes PROVE CountDown(p)[n] \in Nat
    <3>1. deps[n] \ seen' \in SUBSET Nodes
      BY <1>2
    <3>2. Cardinality(deps[n] \ seen') \in Nat
      BY <3>1, CardOfPart
    <3>. QED
      BY <3>2, <1>5
  <2>. QED
    BY <2>1, <1>1 DEF CountDown
<1>8. Unlocked(p) = {n \in Nodes : p \in deps[n] /\ deps[n] \subseteq seen'}
  BY <1>2, <1>4, <1>6 DEF Unlocked, Successors
<1>9. queue' = {n \in Nodes \ seen' : deps[n] \subseteq seen'}
  BY <1>1, <1>2, <1>3, <1>8 DEF KahnInv
<1>10. \A n \in seen' : deps'[n] \subseteq seen'
  BY <1>1, <1>3 DEF KahnInv
<1>11. WellFounded(seen)'
  <2>. SUFFICES ASSUME NEW S \in SUBSET seen', S # {}
                PROVE  \E n \in S : deps[n] \cap S = {}
    BY <1>1 DEF WellFounded
  <2>1. CASE S \ {p} = {}
    BY <2>1, <1>3
  <2>2. CASE S \ {p} # {}
    <3>1. PICK n \in S \ {p} : deps[n] \cap (S \ {p}) = {}
      BY <2>2, <1>1 DEF KahnInv, WellFounded
    <3>2. n \in seen /\ p \notin deps[n]
      BY <3>1, <1>1, <1>3 DEF KahnInv
    <3>. QED
      BY <3>1, <3>2
  <2>. QED
    BY <2>1, <2>2
<1>12. KahnTypeOK'
  BY <1>1, <1>2, <1>7, <1>9 DEF KahnTypeOK
<1>. QED
  BY <1>1, <1>2, <1>5, <1>9, <1>10, <1>11, <1>12 DEF KahnInv

(* So does the answer.                                                       *)
LEMMA AnswerKahn == ASSUME KahnInv, Answer PROVE KahnInv'
<1>1. seen \subseteq Nodes
  BY DEF KahnInv, KahnTypeOK
<1>2. CoversAll <=> seen = Nodes
  <2>1. Cardinality(seen) = Cardinality(Nodes) => seen = Nodes
    BY <1>1, NodesFinite, FS_Subset
  <2>. QED
    BY <2>1 DEF CoversAll
<1>. QED
  BY <1>2 DEF Answer, KahnInv, KahnTypeOK, WellFounded

(* The invariant holds throughout.                                           *)
THEOREM KahnInvariant == KahnSpec => []KahnInv
<1>1. KahnInv /\ [KahnNext]_kahnVars => KahnInv'
  <2>. SUFFICES ASSUME KahnInv, [KahnNext]_kahnVars PROVE KahnInv'
    OBVIOUS
  <2>1. CASE UNCHANGED kahnVars
    BY <2>1 DEF kahnVars, KahnInv, KahnTypeOK, WellFounded
  <2>. QED
    BY <2>1, PopKahn, AnswerKahn DEF KahnNext
<1>. QED
  BY InitKahn, <1>1, PTL DEF KahnSpec

(* A verdict "acyclic" is given exactly to the graphs with no set of nodes    *)
(* that all wait for one another.                                             *)
THEOREM KahnVerdict == KahnSpec => []VerdictCorrect
<1>1. KahnInv => VerdictCorrect
  <2>. SUFFICES ASSUME KahnInv, verdict # "none"
                PROVE  verdict = "acyclic" <=> IsAcyclic(deps)
    BY DEF VerdictCorrect
  <2>1. DOMAIN deps = Nodes /\ seen \subseteq Nodes
    BY DEF KahnInv, KahnTypeOK
  <2>2. CASE verdict = "acyclic"
    BY <2>1, <2>2 DEF KahnInv, WellFounded, IsAcyclic
  <2>3. CASE verdict = "cyclic"
    <3>1. Nodes \ seen # {} /\ \A n \in Nodes \ seen : deps[n] \cap (Nodes \ seen) # {}
      BY <2>1, <2>3 DEF KahnInv, KahnTypeOK
    <3>. QED
      BY <2>1, <2>3, <3>1 DEF IsAcyclic
  <2>. QED
    BY <2>2, <2>3 DEF KahnInv, KahnTypeOK
<1>. QED
  BY KahnInvariant, <1>1, PTL

(* Nodes are popped in a topological order, each once.                        *)
THEOREM KahnOrder == KahnSpec => []PoppedInOrder
<1>1. KahnInv => PoppedInOrder
  BY DEF KahnInv, PoppedInOrder
<1>. QED
  BY KahnInvariant, <1>1, PTL

=============================================================================
