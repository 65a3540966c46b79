---------------------- MODULE SharedBandwidthTheorems ----------------------
(***************************************************************************)
(* What the functions of SharedBandwidth return, for every channel, every    *)
(* set of units and every number of streams: a rate is a whole number, no    *)
(* faster than alone, within the ceiling and the caps, and the water-filling *)
(* is max-min fair.  The sums and the rounds are recursive functions on the  *)
(* subsets of a finite set: that one satisfies its recursion, and what it    *)
(* then returns, is shown by taking a smallest subset for which it fails.    *)
(***************************************************************************)
EXTENDS SharedBandwidth, FiniteSetTheorems, WellFoundedInduction, TLAPS

(* Induction over the naturals, for a set of them.                           *)
LEMMA NatSetInduction ==
  ASSUME NEW S, 0 \in S, \A n \in Nat : n \in S => n + 1 \in S
  PROVE  Nat \subseteq S
<1> DEFINE T == Nat \ S
<1>. SUFFICES ASSUME T # {} PROVE FALSE
  OBVIOUS
<1>1. T \subseteq Nat
  OBVIOUS
<1> HIDE DEF T
<1>2. PICK t \in T : \A y \in T : ~(<<y, t>> \in OpToRel(<, Nat))
  BY <1>1, NatLessThanWellFounded, WFMin, Zenon
<1>3. t \in Nat /\ t \notin S /\ t # 0
  BY <1>1 DEF T
<1>4. t - 1 \in T
  <2>1. t - 1 \in Nat /\ (t - 1) + 1 = t
    BY <1>3
  <2>. QED
    BY <2>1, <1>3 DEF T
<1>5. <<t - 1, t>> \in OpToRel(<, Nat)
  <2>1. <<t - 1, t>> \in Nat \X Nat /\ <<t - 1, t>>[1] = t - 1 /\ <<t - 1, t>>[2] = t /\ t - 1 < t
    BY <1>3
  <2>. QED
    BY <2>1, Zenon DEF OpToRel
<1>. QED
  BY <1>2, <1>4, <1>5

-----------------------------------------------------------------------------
(* Division that rounds down: what is below m times more is not more.        *)
LEMMA DivBelow == ASSUME NEW a \in Int, NEW b \in Int, NEW m \in Nat, m > 0, a * m < b * m + m
  PROVE a <= b
<1>. SUFFICES ASSUME a >= b + 1 PROVE FALSE
  OBVIOUS
<1>1. a * m >= (b + 1) * m
  OBVIOUS
<1>2. (b + 1) * m = b * m + m
  OBVIOUS
<1>3. a * m \in Int /\ b * m \in Int
  OBVIOUS
<1>. QED
  BY <1>1, <1>2, <1>3

(* The quotient times the divisor is the most that is not above.             *)
LEMMA DivFacts ==
  ASSUME NEW r \in Int, NEW m \in Nat, m > 0
  PROVE  /\ r \div m \in Int
         /\ (r \div m) * m <= r
         /\ r < (r \div m) * m + m
OBVIOUS

(* What rounds down is the greatest that fits.                               *)
LEMMA DivGreatest ==
  ASSUME NEW r \in Int, NEW m \in Nat, m > 0, NEW c \in Int
  PROVE  (c * m <= r) <=> (c <= r \div m)
<1> DEFINE q == r \div m
<1>1. q \in Int /\ q * m <= r /\ r < q * m + m
  BY DivFacts
<1> HIDE DEF q
<1>2. q * m \in Int /\ c * m \in Int
  BY <1>1
<1>3. c * m <= r => c <= q
  BY <1>1, <1>2, DivBelow
<1>4. c <= q => c * m <= q * m
  BY <1>1
<1>5. c <= q => c * m <= r
  BY <1>1, <1>2, <1>4
<1>6. (c * m <= r) <=> (c <= q)
  BY <1>3, <1>5
<1>. QED
  BY <1>6 DEF q

(* What divides less among more is less. *)
LEMMA DivMonotone ==
  ASSUME NEW r \in Nat, NEW s \in Nat, r <= s, NEW m \in Nat, NEW n \in Nat, 0 < m, m <= n
  PROVE  r \div n <= s \div m
<1> DEFINE q == r \div n
<1>1. q \in Int /\ q * n <= r
  BY DivFacts
<1>2. 0 <= q
  <2>1. 0 * n <= r
    OBVIOUS
  <2>. QED
    BY <2>1, DivGreatest
<1> HIDE DEF q
<1>3. q * m <= q * n
  BY <1>1, <1>2
<1>4. q * m \in Int /\ q * n \in Int
  BY <1>1
<1>5. q * m <= s
  BY <1>1, <1>3, <1>4
<1>6. q <= s \div m
  BY <1>1, <1>5, DivGreatest
<1>. QED
  BY <1>6 DEF q

-----------------------------------------------------------------------------
(* Among subsets of a finite set there is one with no other inside it.       *)
LEMMA SmallestSubset ==
  ASSUME NEW S, IsFiniteSet(S), NEW B \in SUBSET (SUBSET S), B # {}
  PROVE  \E T \in B : \A U \in B : U \subseteq T => U = T
<1>1. IsWellFoundedOn(StrictSubsetOrdering(S), SUBSET S)
  BY FS_StrictSubsetOrderingWellFounded, FS_FiniteSubsetsOfFinite
<1>2. PICK T \in B : \A U \in B : ~(<<U, T>> \in StrictSubsetOrdering(S))
  BY <1>1, WFMin, Zenon
<1>3. ASSUME NEW U \in B, U \subseteq T PROVE U = T
  BY <1>2, <1>3 DEF StrictSubsetOrdering
<1>. QED
  BY <1>3

(* What holds of a set when it holds of its strict subsets holds of every    *)
(* subset of a finite set.                                                   *)
LEMMA SubsetInduction ==
  ASSUME NEW S, IsFiniteSet(S), NEW F,
         \A T \in SUBSET S : (\A U \in SUBSET T : U # T => U \in F) => T \in F
  PROVE  SUBSET S \subseteq F
<1> DEFINE B == {T \in SUBSET S : T \notin F}
<1>. SUFFICES ASSUME B # {} PROVE FALSE
  OBVIOUS
<1>1. B \in SUBSET (SUBSET S)
  OBVIOUS
<1>2. \E T \in B : \A U \in B : U \subseteq T => U = T
  <2> HIDE DEF B
  <2>. QED
    BY <1>1, SmallestSubset
<1>3. PICK T \in B : \A U \in B : U \subseteq T => U = T
  BY <1>2
<1>4. T \in SUBSET S /\ T \notin F
  OBVIOUS
<1>5. \A U \in SUBSET T : U # T => U \in F
  <2>. SUFFICES ASSUME NEW U \in SUBSET T, U # T, U \notin F PROVE FALSE
    OBVIOUS
  <2>1. U \in B
    BY <1>4
  <2>. QED
    BY <1>3, <2>1
<1>. QED
  BY <1>4, <1>5

(* What holds of {}, and of a set when it holds of it less any one element,  *)
(* holds of every subset of a finite set.                                    *)
LEMMA RemoveInduction ==
  ASSUME NEW S, IsFiniteSet(S), NEW F, {} \in F,
         \A T \in SUBSET S : T # {} /\ (\A x \in T : T \ {x} \in F) => T \in F
  PROVE  SUBSET S \subseteq F
<1>1. ASSUME NEW T \in SUBSET S, \A U \in SUBSET T : U # T => U \in F PROVE T \in F
  <2>1. \A x \in T : T \ {x} \in F
    BY <1>1
  <2>. QED
    BY <2>1
<1>. QED
  BY <1>1, SubsetInduction

-----------------------------------------------------------------------------
(* The element the fold behind SumOver takes next.                           *)
Pick(s) == CHOOSE x \in s : TRUE

(* It is an element.                                                         *)
LEMMA PickIn == ASSUME NEW s, s # {} PROVE Pick(s) \in s
BY DEF Pick

(* g sums f on every set of D, as the fold does.                             *)
IsSumOn(g, f, D) ==
  g = [s \in D |-> IF s = {} THEN 0 ELSE f[Pick(s)] + g[s \ {Pick(s)}]]

(* Those on the sets of at most n elements.                                   *)
Small(S, n) == {s \in SUBSET S : Cardinality(s) <= n}
SmallSums(f, S) == {n \in Nat : \E g : IsSumOn(g, f, Small(S, n))}

(* The function SumOver applies.                                            *)
SumTable(f, S) == CHOOSE g : IsSumOn(g, f, SUBSET S)

(* SumOver is that function, at its set.                                     *)
LEMMA SumOverDef ==
  ASSUME NEW f, NEW S
  PROVE  SumOver(f, S) = SumTable(f, S)[S]
BY DEF SumOver, MapThenSumSet, MapThenFoldSet, SumTable, IsSumOn, Pick

(* It exists ...                                                             *)
LEMMA SumTableExists ==
  ASSUME NEW f, NEW S, IsFiniteSet(S)
  PROVE  \E g : IsSumOn(g, f, SUBSET S)
<1>1. \A s \in SUBSET S : IsFiniteSet(s) /\ Cardinality(s) \in Nat /\ (Cardinality(s) = 0 => s = {})
  BY FS_Subset, FS_CardinalityType, FS_EmptySet
<1>2. \A s \in SUBSET S : s # {} =>
        s \ {Pick(s)} \in SUBSET S /\ Cardinality(s \ {Pick(s)}) = Cardinality(s) - 1
  BY <1>1, PickIn, FS_RemoveElement
<1>3. 0 \in SmallSums(f, S)
  <2> DEFINE g == [s \in Small(S, 0) |-> 0]
  <2>1. \A s \in Small(S, 0) : s = {}
    BY <1>1 DEF Small
  <2>2. IsSumOn(g, f, Small(S, 0))
    BY <2>1 DEF IsSumOn
  <2> HIDE DEF g
  <2>. QED
    BY <2>2 DEF SmallSums
<1>4. ASSUME NEW n \in Nat, n \in SmallSums(f, S) PROVE n + 1 \in SmallSums(f, S)
  <2>1. PICK g : IsSumOn(g, f, Small(S, n))
    BY <1>4 DEF SmallSums
  <2> DEFINE h == [s \in Small(S, n + 1) |-> IF s = {} THEN 0 ELSE f[Pick(s)] + g[s \ {Pick(s)}]]
  <2>2. \A s \in Small(S, n) : s \in Small(S, n + 1) /\ h[s] = g[s]
    <3>1. \A s \in Small(S, n) : g[s] = IF s = {} THEN 0 ELSE f[Pick(s)] + g[s \ {Pick(s)}]
      BY <2>1 DEF IsSumOn
    <3>2. \A s \in Small(S, n) : s \in Small(S, n + 1)
      BY <1>1 DEF Small
    <3>. QED
      BY <3>1, <3>2
  <2>3. \A s \in Small(S, n + 1) : s # {} => s \ {Pick(s)} \in Small(S, n)
    BY <1>1, <1>2 DEF Small
  <2>4. \A s \in Small(S, n + 1) : h[s] = IF s = {} THEN 0 ELSE f[Pick(s)] + h[s \ {Pick(s)}]
    <3>. SUFFICES ASSUME NEW s \in Small(S, n + 1), s # {}
                  PROVE  g[s \ {Pick(s)}] = h[s \ {Pick(s)}]
      OBVIOUS
    <3>. QED
      BY <2>2, <2>3
  <2>5. IsSumOn(h, f, Small(S, n + 1))
    <3>1. h = [s \in Small(S, n + 1) |-> h[s]]
      OBVIOUS
    <3> HIDE DEF h
    <3>. QED
      BY <3>1, <2>4 DEF IsSumOn
  <2> HIDE DEF h
  <2>. QED
    BY <2>5 DEF SmallSums
<1>5. Nat \subseteq SmallSums(f, S)
  <2>. QED
    BY <1>3, <1>4, NatSetInduction
<1>6. Cardinality(S) \in SmallSums(f, S)
  BY <1>1, <1>5
<1>7. Small(S, Cardinality(S)) = SUBSET S
  BY <1>1, FS_Subset DEF Small
<1>. QED
  BY <1>6, <1>7 DEF SmallSums

(* ... and satisfies its recursion.                                          *)
LEMMA SumTableRec ==
  ASSUME NEW f, NEW S, IsFiniteSet(S), NEW s \in SUBSET S
  PROVE  SumTable(f, S)[s] =
           IF s = {} THEN 0 ELSE f[Pick(s)] + SumTable(f, S)[s \ {Pick(s)}]
<1>1. IsSumOn(SumTable(f, S), f, SUBSET S)
  BY SumTableExists, Zenon DEF SumTable
<1>. QED
  BY <1>1 DEF IsSumOn

(* What is summed over a set does not depend on the set it is part of.       *)
LEMMA SumTableLocal ==
  ASSUME NEW f, NEW S, IsFiniteSet(S), NEW T \in SUBSET S
  PROVE  SumTable(f, S)[T] = SumOver(f, T)
<1> DEFINE F == {s \in SUBSET T : SumTable(f, S)[s] = SumTable(f, T)[s]}
<1>1. IsFiniteSet(T)
  BY FS_Subset
<1>2. {} \in F
  BY <1>1, SumTableRec
<1>3. ASSUME NEW s \in SUBSET T, s # {}, \A x \in s : s \ {x} \in F PROVE s \in F
  <2>1. SumTable(f, S)[s \ {Pick(s)}] = SumTable(f, T)[s \ {Pick(s)}]
    BY <1>3, PickIn
  <2>2. SumTable(f, S)[s] = f[Pick(s)] + SumTable(f, S)[s \ {Pick(s)}]
    <3>1. s \in SUBSET S /\ s # {}
      BY <1>3
    <3> HIDE DEF F
    <3>. QED
      BY <3>1, SumTableRec
  <2>3. SumTable(f, T)[s] = f[Pick(s)] + SumTable(f, T)[s \ {Pick(s)}]
    <3>1. s \in SUBSET T /\ s # {}
      BY <1>3
    <3> HIDE DEF F
    <3>. QED
      BY <1>1, <3>1, SumTableRec
  <2>. QED
    BY <2>1, <2>2, <2>3
<1>4. SUBSET T \subseteq F
  <2> HIDE DEF F
  <2>. QED
    BY <1>1, <1>2, <1>3, RemoveInduction
<1>. QED
  BY <1>4, SumOverDef

(* The two cases of a sum.                                                   *)
LEMMA SumEmpty == ASSUME NEW f PROVE SumOver(f, {}) = 0
<1>1. SumTable(f, {})[{}] = 0
  BY FS_EmptySet, SumTableRec
<1>. QED
  BY <1>1, SumOverDef

(* A sum is a term and the sum of the rest.                                  *)
LEMMA SumOverRec ==
  ASSUME NEW f, NEW S, IsFiniteSet(S), S # {}
  PROVE  Pick(S) \in S /\ SumOver(f, S) = f[Pick(S)] + SumOver(f, S \ {Pick(S)})
<1>1. SumTable(f, S)[S] = f[Pick(S)] + SumTable(f, S)[S \ {Pick(S)}]
  BY SumTableRec
<1>. QED
  BY <1>1, SumTableLocal, PickIn

(* A sum of integers is an integer ...                                       *)
LEMMA SumInt ==
  ASSUME NEW S, IsFiniteSet(S), NEW f, \A x \in S : f[x] \in Int
  PROVE  SumOver(f, S) \in Int
<1> DEFINE F == {T \in SUBSET S : SumOver(f, T) \in Int}
<1>1. {} \in F
  BY SumEmpty
<1>2. ASSUME NEW T \in SUBSET S, T # {}, \A x \in T : T \ {x} \in F PROVE T \in F
  <2>1. IsFiniteSet(T)
    BY FS_Subset
  <2>2. Pick(T) \in T /\ SumOver(f, T) = f[Pick(T)] + SumOver(f, T \ {Pick(T)})
    BY <1>2, <2>1, SumOverRec
  <2>. QED
    BY <1>2, <2>2
<1>3. SUBSET S \subseteq F
  <2> HIDE DEF F
  <2>. QED
    BY <1>1, <1>2, RemoveInduction
<1>. QED
  BY <1>3

(* ... and of naturals a natural.                                            *)
LEMMA SumNat ==
  ASSUME NEW S, IsFiniteSet(S), NEW f, \A x \in S : f[x] \in Nat
  PROVE  SumOver(f, S) \in Nat
<1> DEFINE F == {T \in SUBSET S : SumOver(f, T) \in Nat}
<1>1. {} \in F
  BY SumEmpty
<1>2. ASSUME NEW T \in SUBSET S, T # {}, \A x \in T : T \ {x} \in F PROVE T \in F
  <2>1. IsFiniteSet(T)
    BY FS_Subset
  <2>2. Pick(T) \in T /\ SumOver(f, T) = f[Pick(T)] + SumOver(f, T \ {Pick(T)})
    BY <1>2, <2>1, SumOverRec
  <2>. QED
    BY <1>2, <2>2
<1>3. SUBSET S \subseteq F
  <2> HIDE DEF F
  <2>. QED
    BY <1>1, <1>2, RemoveInduction
<1>. QED
  BY <1>3

(* Any element can be taken out of a sum first, not only the one chosen.     *)
LEMMA SumRemove ==
  ASSUME NEW S, IsFiniteSet(S), NEW f, \A y \in S : f[y] \in Int, NEW x \in S
  PROVE  SumOver(f, S) = f[x] + SumOver(f, S \ {x})
<1> DEFINE F == {T \in SUBSET S : \A y \in T : SumOver(f, T) = f[y] + SumOver(f, T \ {y})}
<1>1. {} \in F
  OBVIOUS
<1>2. ASSUME NEW T \in SUBSET S, T # {}, \A y \in T : T \ {y} \in F PROVE T \in F
  <2>. SUFFICES ASSUME NEW y \in T PROVE SumOver(f, T) = f[y] + SumOver(f, T \ {y})
    OBVIOUS
  <2>1. IsFiniteSet(T)
    BY FS_Subset
  <2>2. Pick(T) \in T /\ SumOver(f, T) = f[Pick(T)] + SumOver(f, T \ {Pick(T)})
    BY <1>2, <2>1, SumOverRec
  <2>3. CASE y = Pick(T)
    BY <2>2, <2>3
  <2>4. CASE y # Pick(T)
    <3> DEFINE R == (T \ {Pick(T)}) \ {y}
    <3>1. R = (T \ {y}) \ {Pick(T)}
      OBVIOUS
    <3>2. SumOver(f, T \ {Pick(T)}) = f[y] + SumOver(f, R)
      BY <1>2, <2>2, <2>4
    <3>3. SumOver(f, T \ {y}) = f[Pick(T)] + SumOver(f, R)
      BY <1>2, <2>2, <2>4, <3>1
    <3>4. f[y] \in Int /\ f[Pick(T)] \in Int /\ SumOver(f, R) \in Int
      <4>1. IsFiniteSet(R) /\ R \subseteq S
        BY <2>1, FS_Subset
      <4>. QED
        BY <2>2, <4>1, SumInt
    <3> HIDE DEF R
    <3>. QED
      BY <2>2, <3>2, <3>3, <3>4
  <2>. QED
    BY <2>3, <2>4
<1>3. SUBSET S \subseteq F
  <2> HIDE DEF F
  <2>. QED
    BY <1>1, <1>2, RemoveInduction
<1>. QED
  BY <1>3

(* Bigger terms, bigger sum.                                                 *)
LEMMA SumMonotone ==
  ASSUME NEW S, IsFiniteSet(S), NEW f, NEW g,
         \A x \in S : f[x] \in Int /\ g[x] \in Int /\ f[x] <= g[x]
  PROVE  SumOver(f, S) <= SumOver(g, S)
<1> DEFINE F == {T \in SUBSET S : SumOver(f, T) <= SumOver(g, T)}
<1>1. {} \in F
  BY SumEmpty
<1>2. ASSUME NEW T \in SUBSET S, T # {}, \A x \in T : T \ {x} \in F PROVE T \in F
  <2>1. IsFiniteSet(T) /\ \A U \in SUBSET T : IsFiniteSet(U)
    BY FS_Subset
  <2>2. PICK x \in T : TRUE
    BY <1>2
  <2>3. SumOver(f, T) = f[x] + SumOver(f, T \ {x}) /\ SumOver(g, T) = g[x] + SumOver(g, T \ {x})
    BY <2>1, SumRemove
  <2>4. SumOver(f, T \ {x}) \in Int /\ SumOver(g, T \ {x}) \in Int
    BY <2>1, SumInt
  <2>5. SumOver(f, T \ {x}) <= SumOver(g, T \ {x})
    BY <1>2
  <2>. QED
    BY <2>3, <2>4, <2>5
<1>3. SUBSET S \subseteq F
  <2> HIDE DEF F
  <2>. QED
    BY <1>1, <1>2, RemoveInduction
<1>. QED
  BY <1>3

(* The same terms, the same sum.                                             *)
LEMMA SumEqual ==
  ASSUME NEW S, IsFiniteSet(S), NEW f, NEW g,
         \A x \in S : f[x] \in Int /\ g[x] = f[x]
  PROVE  SumOver(f, S) = SumOver(g, S)
<1>1. SumOver(f, S) <= SumOver(g, S) /\ SumOver(g, S) <= SumOver(f, S)
  BY SumMonotone
<1>2. SumOver(f, S) \in Int /\ SumOver(g, S) \in Int
  BY SumInt
<1>. QED
  BY <1>1, <1>2

(* The sum of two families of terms ...                                      *)
LEMMA SumPlus ==
  ASSUME NEW S, IsFiniteSet(S), NEW f, NEW g, NEW h,
         \A x \in S : f[x] \in Int /\ g[x] \in Int /\ h[x] = f[x] + g[x]
  PROVE  SumOver(h, S) = SumOver(f, S) + SumOver(g, S)
<1> DEFINE F == {T \in SUBSET S : SumOver(h, T) = SumOver(f, T) + SumOver(g, T)}
<1>1. {} \in F
  BY SumEmpty
<1>2. ASSUME NEW T \in SUBSET S, T # {}, \A x \in T : T \ {x} \in F PROVE T \in F
  <2>1. IsFiniteSet(T) /\ \A U \in SUBSET T : IsFiniteSet(U)
    BY FS_Subset
  <2>2. PICK x \in T : TRUE
    BY <1>2
  <2>3. /\ SumOver(f, T) = f[x] + SumOver(f, T \ {x})
        /\ SumOver(g, T) = g[x] + SumOver(g, T \ {x})
        /\ SumOver(h, T) = h[x] + SumOver(h, T \ {x})
    BY <2>1, SumRemove
  <2>4. SumOver(f, T \ {x}) \in Int /\ SumOver(g, T \ {x}) \in Int
    BY <2>1, SumInt
  <2>5. SumOver(h, T \ {x}) = SumOver(f, T \ {x}) + SumOver(g, T \ {x})
    BY <1>2
  <2>. QED
    BY <2>3, <2>4, <2>5
<1>3. SUBSET S \subseteq F
  <2> HIDE DEF F
  <2>. QED
    BY <1>1, <1>2, RemoveInduction
<1>. QED
  BY <1>3

(* ... and over two disjoint sets.                                           *)
LEMMA SumDisjoint ==
  ASSUME NEW S, IsFiniteSet(S), NEW f, \A x \in S : f[x] \in Int, NEW A \in SUBSET S
  PROVE  SumOver(f, S) = SumOver(f, A) + SumOver(f, S \ A)
<1> DEFINE B == S \ A
           F == {T \in SUBSET A : SumOver(f, B \cup T) = SumOver(f, T) + SumOver(f, B)}
<1>1. IsFiniteSet(A) /\ IsFiniteSet(B) /\ \A U \in SUBSET S : IsFiniteSet(U)
  BY FS_Subset
<1>2. SumOver(f, B) \in Int
  BY <1>1, SumInt
<1>3. {} \in F
  <2>1. B \cup {} = B
    OBVIOUS
  <2>. QED
    BY <1>2, <2>1, SumEmpty
<1>4. ASSUME NEW T \in SUBSET A, T # {}, \A x \in T : T \ {x} \in F PROVE T \in F
  <2>1. PICK x \in T : TRUE
    BY <1>4
  <2>2. x \in B \cup T /\ (B \cup T) \ {x} = B \cup (T \ {x}) /\ B \cup T \in SUBSET S
    BY <2>1
  <2>3. SumOver(f, T) = f[x] + SumOver(f, T \ {x})
    BY <1>1, SumRemove
  <2>4. SumOver(f, B \cup T) = f[x] + SumOver(f, (B \cup T) \ {x})
    BY <1>1, <2>2, SumRemove
  <2>5. SumOver(f, B \cup (T \ {x})) = SumOver(f, T \ {x}) + SumOver(f, B)
    BY <1>4
  <2>6. SumOver(f, T \ {x}) \in Int
    BY <1>1, SumInt
  <2>7. SumOver(f, B \cup T) = f[x] + SumOver(f, B \cup (T \ {x}))
    BY <2>2, <2>4
  <2>8. f[x] \in Int
    OBVIOUS
  <2>9. SumOver(f, B \cup T) = SumOver(f, T) + SumOver(f, B)
    <3> HIDE DEF B
    <3>. QED
      BY <2>3, <2>5, <2>6, <2>7, <2>8, <1>2
  <2>. QED
    BY <2>9
<1>5. SUBSET A \subseteq F
  <2> HIDE DEF F
  <2>. QED
    BY <1>1, <1>3, <1>4, RemoveInduction
<1>6. A \in F /\ B \cup A = S
  BY <1>5
<1>. QED
  BY <1>6

(* Terms that are at most c each make at most c times their number.          *)
LEMMA SumBounded ==
  ASSUME NEW S, IsFiniteSet(S), NEW f, NEW c \in Nat,
         \A x \in S : f[x] \in Int /\ f[x] <= c
  PROVE  SumOver(f, S) <= c * Cardinality(S)
<1> DEFINE F == {T \in SUBSET S : SumOver(f, T) <= c * Cardinality(T)}
<1>1. {} \in F
  BY SumEmpty, FS_EmptySet
<1>2. ASSUME NEW T \in SUBSET S, T # {}, \A x \in T : T \ {x} \in F PROVE T \in F
  <2>1. IsFiniteSet(T) /\ \A U \in SUBSET T : IsFiniteSet(U)
    BY FS_Subset
  <2>2. PICK x \in T : TRUE
    BY <1>2
  <2>3. SumOver(f, T) = f[x] + SumOver(f, T \ {x})
    BY <2>1, SumRemove
  <2>4. SumOver(f, T \ {x}) \in Int
    BY <2>1, SumInt
  <2>5. SumOver(f, T \ {x}) <= c * Cardinality(T \ {x})
    BY <1>2
  <2>6. Cardinality(T \ {x}) = Cardinality(T) - 1 /\ Cardinality(T) \in Nat
    BY <2>1, FS_RemoveElement, FS_CardinalityType
  <2>7. c * Cardinality(T) = c * (Cardinality(T) - 1) + c
    BY <2>6
  <2>8. c * (Cardinality(T) - 1) \in Int
    BY <2>6
  <2>. QED
    BY <2>3, <2>4, <2>5, <2>6, <2>7, <2>8
<1>3. SUBSET S \subseteq F
  <2> HIDE DEF F
  <2>. QED
    BY <1>1, <1>2, RemoveInduction
<1>. QED
  BY <1>3

(* Terms all equal to c make c times their number.                           *)
LEMMA SumConstant ==
  ASSUME NEW S, IsFiniteSet(S), NEW f, NEW c \in Int, \A x \in S : f[x] = c
  PROVE  SumOver(f, S) = c * Cardinality(S)
<1> DEFINE F == {T \in SUBSET S : SumOver(f, T) = c * Cardinality(T)}
<1>1. {} \in F
  BY SumEmpty, FS_EmptySet
<1>2. ASSUME NEW T \in SUBSET S, T # {}, \A x \in T : T \ {x} \in F PROVE T \in F
  <2>1. IsFiniteSet(T) /\ \A U \in SUBSET T : IsFiniteSet(U)
    BY FS_Subset
  <2>2. PICK x \in T : TRUE
    BY <1>2
  <2>3. SumOver(f, T) = c + SumOver(f, T \ {x})
    BY <2>1, SumRemove
  <2>4. SumOver(f, T \ {x}) = c * Cardinality(T \ {x})
    BY <1>2
  <2>5. Cardinality(T \ {x}) = Cardinality(T) - 1 /\ Cardinality(T) \in Nat
    BY <2>1, FS_RemoveElement, FS_CardinalityType
  <2>6. c * Cardinality(T) = c * (Cardinality(T) - 1) + c
    BY <2>5
  <2>7. c * (Cardinality(T) - 1) \in Int
    BY <2>5
  <2>. QED
    BY <2>3, <2>4, <2>5, <2>6, <2>7
<1>3. SUBSET S \subseteq F
  <2> HIDE DEF F
  <2>. QED
    BY <1>1, <1>2, RemoveInduction
<1>. QED
  BY <1>3

(* A common factor can be taken out of a sum.                                *)
LEMMA SumScaled ==
  ASSUME NEW S, IsFiniteSet(S), NEW f, NEW g, NEW c \in Int,
         \A x \in S : f[x] \in Int /\ g[x] = c * f[x]
  PROVE  SumOver(g, S) = c * SumOver(f, S)
<1> DEFINE F == {T \in SUBSET S : SumOver(g, T) = c * SumOver(f, T)}
<1>1. {} \in F
  BY SumEmpty
<1>2. ASSUME NEW T \in SUBSET S, T # {}, \A x \in T : T \ {x} \in F PROVE T \in F
  <2>1. IsFiniteSet(T) /\ \A U \in SUBSET T : IsFiniteSet(U)
    BY FS_Subset
  <2>2. PICK x \in T : TRUE
    BY <1>2
  <2>3. g[x] = c * f[x] /\ f[x] \in Int /\ g[x] \in Int
    OBVIOUS
  <2>4. SumOver(g, T) = g[x] + SumOver(g, T \ {x}) /\ SumOver(f, T) = f[x] + SumOver(f, T \ {x})
    <3>1. \A y \in T : f[y] \in Int /\ g[y] \in Int
      OBVIOUS
    <3> HIDE DEF F
    <3>. QED
      BY <2>1, <3>1, SumRemove
  <2>5. SumOver(g, T \ {x}) = c * SumOver(f, T \ {x})
    BY <1>2
  <2>6. SumOver(f, T \ {x}) \in Int
    BY <2>1, SumInt
  <2>7. c * (f[x] + SumOver(f, T \ {x})) = c * f[x] + c * SumOver(f, T \ {x})
    BY <2>3, <2>6
  <2>. QED
    BY <2>3, <2>4, <2>5, <2>7
<1>3. SUBSET S \subseteq F
  <2> HIDE DEF F
  <2>. QED
    BY <1>1, <1>2, RemoveInduction
<1>. QED
  BY <1>3

(* A term that is zero need not be summed.                                   *)
LEMMA SumNonZero ==
  ASSUME NEW S, IsFiniteSet(S), NEW f, \A x \in S : f[x] \in Int, NEW T \in SUBSET S,
         \A x \in S \ T : f[x] = 0
  PROVE  SumOver(f, S) = SumOver(f, T)
<1>1. IsFiniteSet(T) /\ IsFiniteSet(S \ T)
  BY FS_Subset
<1>2. SumOver(f, S) = SumOver(f, T) + SumOver(f, S \ T)
  BY SumDisjoint
<1>3. SumOver(f, S \ T) = 0 * Cardinality(S \ T)
  BY <1>1, SumConstant
<1>4. Cardinality(S \ T) \in Nat /\ SumOver(f, T) \in Int
  BY <1>1, FS_CardinalityType, SumInt
<1>. QED
  BY <1>2, <1>3, <1>4

(* No term exceeds the sum, when none is negative.                           *)
LEMMA SumTerm ==
  ASSUME NEW S, IsFiniteSet(S), NEW f, \A x \in S : f[x] \in Nat, NEW x \in S
  PROVE  f[x] <= SumOver(f, S)
<1>1. SumOver(f, S) = f[x] + SumOver(f, S \ {x})
  BY SumRemove
<1>2. SumOver(f, S \ {x}) \in Nat
  BY FS_Subset, SumNat
<1>. QED
  BY <1>1, <1>2

-----------------------------------------------------------------------------
(* The rounds of the water-filling.                                          *)
Unserved(demand, total, left) == total - SumOver(demand, DOMAIN demand \ left)
EqualPart(demand, total, left) == Unserved(demand, total, left) \div Cardinality(left)
Met(demand, total, left) == {u \in left : demand[u] <= EqualPart(demand, total, left)}

LastGrant(demand, total, left) ==
  IF left = {} THEN demand
  ELSE [u \in DOMAIN demand |-> IF u \in left THEN EqualPart(demand, total, left) ELSE demand[u]]

IsLastRound(demand, total, left) == left = {} \/ Met(demand, total, left) = {}

(* A round, written as Waterfill writes it, and the functions that satisfy   *)
(* its recursion on a set D of sets.                                         *)
FillRound(fill, demand, total, left) ==
  LET remaining == total - SumOver(demand, DOMAIN demand \ left)
      share == remaining \div Cardinality(left)
      met == {u \in left : demand[u] <= share}
  IN  IF left = {} THEN demand
      ELSE IF met = {}
           THEN [u \in DOMAIN demand |-> IF u \in left THEN share ELSE demand[u]]
           ELSE fill[left \ met]

IsFillOn(fill, demand, total, D) ==
  fill = [left \in D |-> FillRound(fill, demand, total, left)]

SmallFills(demand, total) ==
  {n \in Nat : \E fill : IsFillOn(fill, demand, total, Small(DOMAIN demand, n))}

FillFunction(demand, total) ==
  CHOOSE fill : IsFillOn(fill, demand, total, SUBSET DOMAIN demand)

(* Waterfill is the function of its rounds.                                  *)
LEMMA WaterfillDef ==
  ASSUME NEW demand, NEW total
  PROVE  Waterfill(demand, total) = FillFunction(demand, total)[DOMAIN demand]
BY DEF Waterfill, FillFunction, IsFillOn, FillRound

(* A round is the last one or hands on to a smaller set.                     *)
LEMMA RoundCases ==
  ASSUME NEW fill, NEW demand, NEW total, NEW left
  PROVE  FillRound(fill, demand, total, left) =
           IF IsLastRound(demand, total, left) THEN LastGrant(demand, total, left)
           ELSE fill[left \ Met(demand, total, left)]
<1>1. CASE left = {}
  BY <1>1 DEF FillRound, IsLastRound, LastGrant
<1>2. CASE left # {}
  BY <1>2 DEF FillRound, IsLastRound, LastGrant, Met, EqualPart, Unserved
<1>. QED
  BY <1>1, <1>2

(* The function of the rounds exists ...                                     *)
LEMMA FillExists ==
  ASSUME NEW demand, NEW total, IsFiniteSet(DOMAIN demand)
  PROVE  \E fill : IsFillOn(fill, demand, total, SUBSET DOMAIN demand)
<1> DEFINE S == DOMAIN demand
           met(left) == Met(demand, total, left)
<1>1. \A s \in SUBSET S : IsFiniteSet(s) /\ Cardinality(s) \in Nat /\ (Cardinality(s) = 0 => s = {})
  BY FS_Subset, FS_CardinalityType, FS_EmptySet
<1>2. \A s \in SUBSET S : ~IsLastRound(demand, total, s) =>
        s \ met(s) \in SUBSET S /\ Cardinality(s \ met(s)) < Cardinality(s)
  <2>. SUFFICES ASSUME NEW s \in SUBSET S, ~IsLastRound(demand, total, s)
                PROVE  s \ met(s) \in SUBSET S /\ Cardinality(s \ met(s)) < Cardinality(s)
    OBVIOUS
  <2>1. s \ met(s) \subseteq s /\ s \ met(s) # s
    BY DEF IsLastRound, Met
  <2>. QED
    BY <1>1, <2>1, FS_Subset
<1>3. 0 \in SmallFills(demand, total)
  <2> DEFINE g == [s \in Small(S, 0) |-> LastGrant(demand, total, s)]
  <2>1. \A s \in Small(S, 0) : s = {}
    BY <1>1 DEF Small
  <2>2. IsFillOn(g, demand, total, Small(S, 0))
    BY <2>1, RoundCases DEF IsFillOn, IsLastRound
  <2> HIDE DEF g
  <2>. QED
    BY <2>2 DEF SmallFills
<1>4. ASSUME NEW n \in Nat, n \in SmallFills(demand, total) PROVE n + 1 \in SmallFills(demand, total)
  <2>1. PICK g : IsFillOn(g, demand, total, Small(S, n))
    BY <1>4 DEF SmallFills
  <2> DEFINE h == [s \in Small(S, n + 1) |->
                     IF IsLastRound(demand, total, s) THEN LastGrant(demand, total, s) ELSE g[s \ met(s)]]
  <2>2. \A s \in Small(S, n) : s \in Small(S, n + 1) /\ h[s] = g[s]
    <3>1. \A s \in Small(S, n) : g[s] =
            IF IsLastRound(demand, total, s) THEN LastGrant(demand, total, s) ELSE g[s \ met(s)]
      BY <2>1, RoundCases DEF IsFillOn
    <3>2. \A s \in Small(S, n) : s \in Small(S, n + 1)
      BY <1>1 DEF Small
    <3>. QED
      BY <3>1, <3>2
  <2>3. \A s \in Small(S, n + 1) : ~IsLastRound(demand, total, s) => s \ met(s) \in Small(S, n)
    BY <1>1, <1>2 DEF Small
  <2>4. \A s \in Small(S, n + 1) :
          h[s] = IF IsLastRound(demand, total, s) THEN LastGrant(demand, total, s) ELSE h[s \ met(s)]
    <3>. SUFFICES ASSUME NEW s \in Small(S, n + 1), ~IsLastRound(demand, total, s)
                  PROVE  g[s \ met(s)] = h[s \ met(s)]
      OBVIOUS
    <3>. QED
      BY <2>2, <2>3
  <2>5. IsFillOn(h, demand, total, Small(S, n + 1))
    <3>1. h = [s \in Small(S, n + 1) |-> h[s]]
      OBVIOUS
    <3> HIDE DEF h
    <3>. QED
      BY <3>1, <2>4, RoundCases DEF IsFillOn
  <2> HIDE DEF h
  <2>. QED
    BY <2>5 DEF SmallFills
<1>5. Nat \subseteq SmallFills(demand, total)
  BY <1>3, <1>4, NatSetInduction
<1>6. Cardinality(S) \in SmallFills(demand, total)
  BY <1>1, <1>5
<1>7. Small(S, Cardinality(S)) = SUBSET S
  BY <1>1, FS_Subset DEF Small
<1>. QED
  BY <1>6, <1>7 DEF SmallFills

(* ... and satisfies its recursion.                                          *)
LEMMA FillRec ==
  ASSUME NEW demand, NEW total, IsFiniteSet(DOMAIN demand), NEW left \in SUBSET DOMAIN demand
  PROVE  FillFunction(demand, total)[left] =
           IF IsLastRound(demand, total, left) THEN LastGrant(demand, total, left)
           ELSE FillFunction(demand, total)[left \ Met(demand, total, left)]
<1>1. IsFillOn(FillFunction(demand, total), demand, total, SUBSET DOMAIN demand)
  BY FillExists, Zenon DEF FillFunction
<1>. QED
  BY <1>1, RoundCases DEF IsFillOn

-----------------------------------------------------------------------------
(* What a grant g promises when only the units in left are still unserved:   *)
(* the others have all they asked for; a unit left short has as much as any   *)
(* of them, and at least any level c that all of them could be given; and     *)
(* someone short means that nothing is held back but a rounded remainder.     *)
Short(g, demand) == {u \in DOMAIN demand : g[u] < demand[u]}

FairFill(g, demand, total, left) ==
  /\ g \in [DOMAIN demand -> Nat]
  /\ \A u \in DOMAIN demand : g[u] <= demand[u]
  /\ Short(g, demand) \subseteq left
  /\ \A u \in Short(g, demand), v \in left : g[v] <= g[u]
  /\ \A u \in Short(g, demand), c \in Nat :
       c * Cardinality(left) <= Unserved(demand, total, left) => c <= g[u]
  /\ SumOver(g, DOMAIN demand) <= total
  /\ Short(g, demand) # {} =>
       total < SumOver(g, DOMAIN demand) + Cardinality(Short(g, demand))

(* The last round is fair ...                                                *)
LEMMA LastIsFair ==
  ASSUME NEW D, IsFiniteSet(D), NEW demand \in [D -> Nat], NEW total \in Nat,
         NEW left \in SUBSET D, Unserved(demand, total, left) >= 0,
         IsLastRound(demand, total, left)
  PROVE  FairFill(LastGrant(demand, total, left), demand, total, left)
<1> DEFINE q == EqualPart(demand, total, left)
           r == Unserved(demand, total, left)
           m == Cardinality(left)
           g == LastGrant(demand, total, left)
<1>1. IsFiniteSet(left) /\ IsFiniteSet(D \ left) /\ m \in Nat
  BY FS_Subset, FS_CardinalityType
<1>2. /\ SumOver(demand, D) \in Int /\ SumOver(demand, D \ left) \in Int
      /\ r = total - SumOver(demand, D \ left) /\ r \in Nat
  <2>1. SumOver(demand, D) \in Int /\ SumOver(demand, D \ left) \in Int
    BY <1>1, SumInt
  <2>. QED
    BY <2>1 DEF Unserved
<1>3. CASE left = {}
  <2>1. g = demand
    BY <1>3 DEF LastGrant
  <2>2. D \ left = D
    BY <1>3
  <2>3. SumOver(demand, D) <= total
    <3>1. SumOver(demand, D \ left) = SumOver(demand, D)
      BY <2>2
    <3> HIDE DEF q, m, g, r
    <3>. QED
      BY <1>2, <3>1
  <2>4. Short(demand, demand) = {}
    BY DEF Short
  <2>. QED
    BY <2>1, <2>3, <2>4 DEF FairFill
<1>4. CASE left # {}
  <2>1. m > 0
    BY <1>1, <1>4, FS_EmptySet
  <2>2. q \in Int /\ q * m <= r /\ r < q * m + m /\ q * m \in Int
    BY <1>1, <1>2, <2>1, DivFacts DEF EqualPart
  <2>3. \A c \in Int : c * m <= r => c <= q
    BY <1>1, <1>2, <2>1, DivGreatest DEF EqualPart
  <2>4. q \in Nat
    <3>1. 0 * m <= r
      BY <1>1, <1>2
    <3>. QED
      BY <2>2, <2>3, <3>1
  <2>5. g = [u \in D |-> IF u \in left THEN q ELSE demand[u]]
    BY <1>4 DEF LastGrant
  <2>6. \A u \in left : q < demand[u]
    <3>1. Met(demand, total, left) = {}
      BY <1>4 DEF IsLastRound
    <3>. QED
      BY <2>2, <3>1 DEF Met
  <2> HIDE DEF q, g
  <2>7. g \in [D -> Nat] /\ Short(g, demand) = left
    BY <2>4, <2>5, <2>6 DEF Short
  <2>8. SumOver(g, D) = SumOver(demand, D \ left) + q * m
    <3>1. SumOver(g, D) = SumOver(g, left) + SumOver(g, D \ left)
      BY <2>7, SumDisjoint
    <3>2. SumOver(g, left) = q * m
      BY <1>1, <2>2, <2>5, SumConstant
    <3>3. SumOver(demand, D \ left) = SumOver(g, D \ left)
      BY <1>1, <2>5, SumEqual
    <3>. QED
      BY <1>2, <2>2, <3>1, <3>2, <3>3
  <2> HIDE DEF m, r
  <2>9. SumOver(g, D) <= total /\ total < SumOver(g, D) + m
    BY <1>1, <1>2, <2>2, <2>8
  <2>10. \A u \in left : g[u] = q
    BY <2>5
  <2>11. \A u \in D : g[u] <= demand[u]
    BY <2>4, <2>5, <2>6
  <2>. QED
    BY <2>3, <2>4, <2>7, <2>9, <2>10, <2>11 DEF FairFill, m, r, g
<1>. QED
  BY <1>3, <1>4

(* ... and so is a round that serves some, if what follows it is.            *)
LEMMA RoundIsFair ==
  ASSUME NEW D, IsFiniteSet(D), NEW demand \in [D -> Nat], NEW total \in Nat,
         NEW left \in SUBSET D, Unserved(demand, total, left) >= 0,
         ~IsLastRound(demand, total, left), NEW g,
         Unserved(demand, total, left \ Met(demand, total, left)) >= 0 =>
           FairFill(g, demand, total, left \ Met(demand, total, left))
  PROVE  FairFill(g, demand, total, left)
<1> DEFINE q == EqualPart(demand, total, left)
           r == Unserved(demand, total, left)
           m == Cardinality(left)
           met == Met(demand, total, left)
           rest == left \ met
<1>1. /\ IsFiniteSet(left) /\ IsFiniteSet(D \ left) /\ m \in Nat
      /\ met \subseteq left /\ IsFiniteSet(met) /\ Cardinality(met) \in Nat
      /\ IsFiniteSet(D \ rest) /\ IsFiniteSet(rest)
  <2>1. met \subseteq left
    BY DEF Met
  <2>. QED
    BY <2>1, FS_Subset, FS_CardinalityType
<1>2. /\ SumOver(demand, D \ left) \in Int /\ SumOver(demand, met) \in Int
      /\ r = total - SumOver(demand, D \ left) /\ r \in Nat
  <2>1. SumOver(demand, D \ left) \in Int /\ SumOver(demand, met) \in Int
    BY <1>1, SumInt
  <2>. QED
    BY <2>1 DEF Unserved
<1>3. left # {} /\ m > 0
  <2>1. left # {}
    BY DEF IsLastRound
  <2>. QED
    BY <1>1, <2>1, FS_EmptySet
<1>4. q \in Int /\ q * m <= r /\ q * m \in Int /\ \A c \in Int : c * m <= r => c <= q
  <2>1. q = r \div m
    BY DEF EqualPart
  <2> HIDE DEF q, r, m
  <2>2. q \in Int /\ q * m <= r /\ q * m \in Int
    BY <1>1, <1>2, <1>3, <2>1, DivFacts
  <2>3. \A c \in Int : c * m <= r => c <= q
    BY <1>1, <1>2, <1>3, <2>1, DivGreatest
  <2>. QED
    BY <2>2, <2>3
<1>5. q \in Nat
  <2>1. 0 * m <= r
    BY <1>1, <1>2
  <2>. QED
    BY <1>4, <2>1
<1>6. \A u \in met : demand[u] <= q
  BY DEF Met
<1>7. SumOver(demand, met) <= q * Cardinality(met)
  BY <1>1, <1>5, <1>6, SumBounded
<1>8. Cardinality(rest) = m - Cardinality(met)
  <2>1. left \cap met = met
    BY <1>1
  <2>. QED
    BY <1>1, <2>1, FS_Difference
<1>9. Unserved(demand, total, rest) = r - SumOver(demand, met)
  <2>1. (D \ rest) \ met = D \ left /\ met \subseteq D \ rest
    BY <1>1
  <2>2. SumOver(demand, D \ rest) = SumOver(demand, met) + SumOver(demand, D \ left)
    BY <1>1, <2>1, SumDisjoint
  <2>. QED
    BY <1>2, <2>2 DEF Unserved
<1>10. q * Cardinality(rest) <= Unserved(demand, total, rest) /\ 0 <= q * Cardinality(rest)
  <2>1. q * Cardinality(rest) = q * m - q * Cardinality(met)
    BY <1>1, <1>5, <1>8
  <2>2. q * Cardinality(met) \in Int
    BY <1>1, <1>5
  <2>3. Cardinality(rest) \in Nat
    BY <1>1, FS_CardinalityType
  <2>4. 0 <= q * Cardinality(rest)
    BY <1>5, <2>3
  <2> HIDE DEF q, m, met, rest, r
  <2>. QED
    BY <1>2, <1>4, <1>7, <1>9, <2>1, <2>2, <2>4
<1>11. FairFill(g, demand, total, rest)
  <2>1. Unserved(demand, total, rest) \in Int /\ q * Cardinality(rest) \in Int
    <3>1. Cardinality(rest) \in Nat
      BY <1>1, FS_CardinalityType
    <3>. QED
      BY <1>2, <1>5, <1>9, <3>1
  <2>2. Unserved(demand, total, rest) >= 0
    BY <1>10, <2>1
  <2>. QED
    BY <2>2
<1> HIDE DEF q, m, met, rest, r
<1>12. \A u \in Short(g, demand) : u \in rest /\ q <= g[u] /\ g[u] \in Nat
  BY <1>5, <1>10, <1>11 DEF FairFill, Short
<1>13. \A u \in Short(g, demand), v \in left : g[v] <= g[u]
  <2>. SUFFICES ASSUME NEW u \in Short(g, demand), NEW v \in left PROVE g[v] <= g[u]
    OBVIOUS
  <2>1. CASE v \in rest
    BY <1>11, <2>1 DEF FairFill
  <2>2. CASE v \in met
    <3>1. g[v] <= demand[v] /\ demand[v] <= q /\ q <= g[u] /\ g[v] \in Nat /\ demand[v] \in Nat
      BY <1>6, <1>11, <1>12, <2>2 DEF FairFill
    <3>. QED
      BY <1>5, <1>12, <3>1
  <2>. QED
    BY <2>1, <2>2 DEF rest
<1>14. \A u \in Short(g, demand), c \in Nat : c * m <= r => c <= g[u]
  <2>. SUFFICES ASSUME NEW u \in Short(g, demand), NEW c \in Nat, c * m <= r PROVE c <= g[u]
    OBVIOUS
  <2>. QED
    BY <1>4, <1>12
<1>. QED
  BY <1>11, <1>12, <1>13, <1>14 DEF FairFill, m, r, rest

(* The water-filling is fair.                                                *)
LEMMA WaterfillIsFair ==
  ASSUME NEW D, IsFiniteSet(D), NEW demand \in [D -> Nat], NEW total \in Nat
  PROVE  FairFill(Waterfill(demand, total), demand, total, D)
<1> DEFINE fill == FillFunction(demand, total)
           F == {left \in SUBSET D :
                   Unserved(demand, total, left) >= 0 => FairFill(fill[left], demand, total, left)}
<1>1. ASSUME NEW T \in SUBSET D, \A U \in SUBSET T : U # T => U \in F PROVE T \in F
  <2>. SUFFICES ASSUME Unserved(demand, total, T) >= 0
                PROVE  FairFill(fill[T], demand, total, T)
    OBVIOUS
  <2>1. CASE IsLastRound(demand, total, T)
    <3>1. fill[T] = LastGrant(demand, total, T)
      BY <2>1, FillRec
    <3>. QED
      BY <2>1, <3>1, LastIsFair
  <2>2. CASE ~IsLastRound(demand, total, T)
    <3> DEFINE rest == T \ Met(demand, total, T)
    <3>1. fill[T] = fill[rest]
      BY <2>2, FillRec
    <3>2. rest \in F
      <4>1. rest \in SUBSET T /\ rest # T
        BY <2>2 DEF IsLastRound, Met
      <4>. QED
        BY <1>1, <4>1
    <3>3. Unserved(demand, total, rest) >= 0 => FairFill(fill[rest], demand, total, rest)
      BY <3>2
    <3> HIDE DEF F, fill
    <3>. QED
      BY <2>2, <3>1, <3>3, RoundIsFair
  <2>. QED
    BY <2>1, <2>2
<1>2. SUBSET D \subseteq F
  <2> HIDE DEF F
  <2>. QED
    BY <1>1, SubsetInduction
<1>3. Unserved(demand, total, D) = total
  <2>1. D \ D = {}
    OBVIOUS
  <2>. QED
    BY <2>1, SumEmpty DEF Unserved
<1>4. FairFill(fill[D], demand, total, D)
  BY <1>2, <1>3
<1>. QED
  BY <1>4, WaterfillDef

-----------------------------------------------------------------------------
(* When the demands of some units grow and others join, a unit that was left *)
(* short is not given more.                                                  *)
LEMMA MoreDemandGivesLess ==
  ASSUME NEW D, NEW E, IsFiniteSet(E), D \subseteq E, NEW total \in Nat,
         NEW demand \in [D -> Nat], NEW wanted \in [E -> Nat],
         \A u \in D : demand[u] <= wanted[u],
         NEW v \in D, Waterfill(demand, total)[v] < demand[v]
  PROVE  Waterfill(wanted, total)[v] <= Waterfill(demand, total)[v]
<1> DEFINE g == Waterfill(demand, total)
           h == Waterfill(wanted, total)
           S == Short(g, demand)
<1>1. IsFiniteSet(D) /\ S \subseteq D /\ IsFiniteSet(S) /\ Cardinality(S) \in Nat
  <2>1. S \subseteq D
    BY DEF Short
  <2>. QED
    BY <2>1, FS_Subset, FS_CardinalityType
<1>2. FairFill(g, demand, total, D) /\ FairFill(h, wanted, total, E)
  BY <1>1, WaterfillIsFair
<1> HIDE DEF g, h
<1>3. /\ g \in [D -> Nat] /\ h \in [E -> Nat]
      /\ v \in S
      /\ \A u \in D : g[u] <= demand[u]
      /\ \A u \in S : \A w \in D : g[w] <= g[u]
      /\ total < SumOver(g, D) + Cardinality(S)
      /\ SumOver(h, E) <= total
      /\ \A u \in E : h[u] < wanted[u] => \A w \in E : h[w] <= h[u]
      /\ \A u \in E : h[u] <= wanted[u]
  <2>1. v \in S
    BY DEF Short, g
  <2>. QED
    BY <1>2, <2>1 DEF FairFill, Short
<1>4. \A u \in S : g[u] < demand[u]
  BY DEF Short
<1> HIDE DEF S
<1>5. SUFFICES ASSUME h[v] > g[v] PROVE FALSE
  BY <1>1, <1>3 DEF g, h
<1>6. \A w \in D : h[w] >= g[w] /\ (w \in S => h[w] >= g[w] + 1)
  <2>. SUFFICES ASSUME NEW w \in D PROVE h[w] >= g[w] /\ (w \in S => h[w] >= g[w] + 1)
    OBVIOUS
  <2>1. /\ w \in E /\ v \in E /\ g[w] \in Nat /\ h[w] \in Nat /\ g[v] \in Nat /\ h[v] \in Nat
        /\ demand[w] \in Nat /\ wanted[w] \in Nat
        /\ demand[w] <= wanted[w] /\ g[w] <= g[v] /\ g[w] <= demand[w]
    BY <1>3
  <2>2. CASE h[w] < wanted[w]
    <3>1. h[v] <= h[w]
      BY <1>3, <2>1, <2>2
    <3>. QED
      BY <1>5, <2>1, <3>1
  <2>3. CASE ~(h[w] < wanted[w])
    <3>1. h[w] = wanted[w]
      BY <1>3, <2>1, <2>3
    <3>2. w \in S => g[w] < demand[w]
      BY <1>4
    <3>. QED
      BY <2>1, <3>1, <3>2
  <2>. QED
    BY <2>2, <2>3
<1> DEFINE one == [w \in D |-> IF w \in S THEN 1 ELSE 0]
           more == [w \in D |-> g[w] + one[w]]
<1>7. SumOver(more, D) = SumOver(g, D) + Cardinality(S)
  <2>1. SumOver(more, D) = SumOver(g, D) + SumOver(one, D)
    BY <1>1, <1>3, SumPlus
  <2>2. SumOver(one, D) = SumOver(one, S)
    <3>1. \A x \in D : one[x] \in Int
      OBVIOUS
    <3>2. \A x \in D \ S : one[x] = 0
      OBVIOUS
    <3> HIDE DEF one
    <3>. QED
      BY <1>1, <3>1, <3>2, SumNonZero
  <2>3. SumOver(one, S) = 1 * Cardinality(S)
    <3>1. \A x \in S : one[x] = 1
      BY <1>1
    <3> HIDE DEF one
    <3>. QED
      BY <1>1, <3>1, SumConstant
  <2>. QED
    BY <1>1, <2>1, <2>2, <2>3
<1>8. SumOver(more, D) <= SumOver(h, D)
  <2>1. \A w \in D : more[w] \in Int /\ h[w] \in Int /\ more[w] <= h[w]
    BY <1>3, <1>6
  <2> HIDE DEF more
  <2>. QED
    BY <1>1, <2>1, SumMonotone
<1>9. SumOver(h, D) <= SumOver(h, E)
  <2>1. SumOver(h, E) = SumOver(h, D) + SumOver(h, E \ D)
    BY <1>3, SumDisjoint
  <2>2. IsFiniteSet(E \ D) /\ (\A w \in E \ D : h[w] \in Nat) /\ \A w \in D : h[w] \in Int
    BY <1>3, FS_Subset
  <2>3. SumOver(h, E \ D) \in Nat /\ SumOver(h, D) \in Int
    BY <1>1, <2>2, SumNat, SumInt
  <2>. QED
    BY <2>1, <2>3
<1>10. SumOver(g, D) \in Int /\ SumOver(more, D) \in Int /\ SumOver(h, D) \in Int /\ SumOver(h, E) \in Int
  <2>1. \A w \in D : g[w] \in Int /\ more[w] \in Int /\ h[w] \in Int
    BY <1>3
  <2>2. \A w \in E : h[w] \in Int
    BY <1>3
  <2> HIDE DEF more
  <2>. QED
    BY <1>1, <2>1, <2>2, SumInt
<1> HIDE DEF more
<1>. QED
  BY <1>1, <1>3, <1>7, <1>8, <1>9, <1>10

-----------------------------------------------------------------------------
(* The share, by its cases: every stream has the same rate, or each unit's   *)
(* grant is split among its streams.                                         *)
InUse(streams) == {u \in DOMAIN streams : streams[u] > 0}
Demands(bw, streams) == [u \in InUse(streams) |-> Demand(bw, streams[u], u)]
Grants(bw, streams) == Waterfill(Demands(bw, streams), bw.ceiling)

(* Share, case by case.                                                      *)
LEMMA ShareCases ==
  ASSUME NEW bw, NEW streams, NEW contention
  PROVE  Share(bw, streams, contention) =
           IF ~bw.capped \/ ~contention
           THEN [u \in InUse(streams) |->
                   PerStream(bw, SumOver(streams, DOMAIN streams), contention)]
           ELSE [u \in InUse(streams) |-> Grants(bw, streams)[u] \div streams[u]]
BY DEF Share, InUse, Demands, Grants

(* The units with a stream, and the number of streams.                       *)
LEMMA InUseFacts ==
  ASSUME NEW U, IsFiniteSet(U), NEW streams \in [U -> Nat]
  PROVE  /\ InUse(streams) \subseteq U /\ IsFiniteSet(InUse(streams))
         /\ \A u \in InUse(streams) : streams[u] \in Nat /\ streams[u] > 0
         /\ SumOver(streams, U) \in Nat
         /\ SumOver(streams, U) = SumOver(streams, InUse(streams))
         /\ \A u \in U : streams[u] <= SumOver(streams, U)
<1>1. InUse(streams) \subseteq U /\ \A u \in InUse(streams) : streams[u] \in Nat /\ streams[u] > 0
  BY DEF InUse
<1>2. \A u \in U \ InUse(streams) : streams[u] = 0
  BY DEF InUse
<1>3. \A u \in U : streams[u] \in Int /\ streams[u] \in Nat
  OBVIOUS
<1>4. SumOver(streams, U) = SumOver(streams, InUse(streams))
  BY <1>1, <1>2, <1>3, SumNonZero
<1>5. SumOver(streams, U) \in Nat
  BY <1>3, SumNat
<1>6. \A u \in U : streams[u] <= SumOver(streams, U)
  BY <1>3, SumTerm
<1>. QED
  BY <1>1, <1>4, <1>5, <1>6, FS_Subset

(* A cap is a whole number of bytes per tick.                                *)
LEMMA UnitCapNat ==
  ASSUME NEW bw, ValidChannel(bw), NEW u
  PROVE  UnitCap(bw, u) \in Nat
BY DEF ValidChannel, UnitCap

(* The demands are naturals, within n single streams and the unit's cap.     *)
LEMMA DemandFacts ==
  ASSUME NEW bw, ValidChannel(bw), NEW n \in Nat, NEW u
  PROVE  /\ Demand(bw, n, u) \in Nat
         /\ Demand(bw, n, u) <= n * bw.eff
         /\ Demand(bw, n, u) <= UnitCap(bw, u)
         /\ Demand(bw, n, u) = n * bw.eff \/ Demand(bw, n, u) = UnitCap(bw, u)
<1>1. bw.eff \in Nat /\ UnitCap(bw, u) \in Nat
  BY UnitCapNat DEF ValidChannel
<1>2. n * bw.eff \in Nat
  BY <1>1
<1>. QED
  BY <1>1, <1>2 DEF Demand, Lesser

(* What the units are granted is fair to what they demand.                   *)
LEMMA GrantsFair ==
  ASSUME NEW bw, ValidChannel(bw), NEW U, IsFiniteSet(U), NEW streams \in [U -> Nat]
  PROVE  /\ Demands(bw, streams) \in [InUse(streams) -> Nat]
         /\ FairFill(Grants(bw, streams), Demands(bw, streams), bw.ceiling, InUse(streams))
<1>1. Demands(bw, streams) \in [InUse(streams) -> Nat]
  BY InUseFacts, DemandFacts DEF Demands
<1>2. bw.ceiling \in Nat /\ IsFiniteSet(InUse(streams))
  BY InUseFacts DEF ValidChannel
<1>. QED
  BY <1>1, <1>2, WaterfillIsFair DEF Grants

(* The rate of a stream alone.                                               *)
LEMMA AloneIs ==
  ASSUME NEW bw, ValidChannel(bw), NEW contention \in BOOLEAN
  PROVE  PerStream(bw, 1, contention) = IF contention THEN Lesser(bw.eff, bw.ceiling) ELSE bw.eff
<1>1. \A x \in Nat : x \div 1 = x
  OBVIOUS
<1>2. bw.eff \in Nat /\ bw.ceiling \in Nat
  BY DEF ValidChannel
<1>3. 1 * bw.eff = bw.eff /\ Lesser(bw.eff, bw.ceiling) \in Nat
  BY <1>2 DEF Lesser
<1>. QED
  BY <1>1, <1>2, <1>3 DEF PerStream, Aggregate

(* The rate of k > 0 streams that share alike.                               *)
LEMMA PerStreamFacts ==
  ASSUME NEW bw, ValidChannel(bw), NEW k \in Nat, k > 0, NEW contention \in BOOLEAN
  PROVE  /\ PerStream(bw, k, contention) \in Nat
         /\ PerStream(bw, k, contention) <= bw.eff
         /\ contention => /\ PerStream(bw, k, contention) <= bw.ceiling
                          /\ PerStream(bw, k, contention) * k <= bw.ceiling
<1> DEFINE a == Aggregate(bw, k, contention)
           q == PerStream(bw, k, contention)
<1>1. bw.eff \in Nat /\ bw.ceiling \in Nat /\ k * bw.eff \in Nat
  BY DEF ValidChannel
<1>2. a \in Nat /\ a <= k * bw.eff /\ (contention => a <= bw.ceiling)
  BY <1>1 DEF Aggregate, Lesser
<1>3. q = a \div k
  BY DEF PerStream
<1> HIDE DEF a, q
<1>5. q \in Int /\ q * k <= a
  BY <1>2, <1>3, DivFacts
<1>6. 0 <= q
  <2>1. 0 * k <= a
    BY <1>2
  <2>. QED
    BY <1>2, <1>3, <2>1, DivGreatest
<1>7. q <= bw.eff
  <2>1. q * k <= bw.eff * k
    BY <1>1, <1>2, <1>5
  <2>2. q * k < bw.eff * k + k /\ q * k \in Int /\ bw.eff * k \in Int
    BY <1>1, <1>5, <2>1
  <2>. QED
    BY <1>1, <1>5, <2>2, DivBelow
<1>8. contention => q * k <= bw.ceiling /\ q <= bw.ceiling
  <2>1. q <= q * k /\ q * k \in Int
    BY <1>5, <1>6
  <2>. QED
    BY <1>1, <1>2, <1>5, <2>1
<1>. QED
  BY <1>5, <1>6, <1>7, <1>8 DEF q

(* A rate is a whole number, and never more than a stream alone has.  With   *)
(* contention, what all the streams draw is within the ceiling and, in a     *)
(* profile, what the streams of a unit draw is within its cap.               *)
LEMMA ShareIsBounded ==
  ASSUME NEW bw, ValidChannel(bw), NEW U, IsFiniteSet(U), NEW streams \in [U -> Nat],
         NEW contention \in BOOLEAN
  PROVE  LET rate == Share(bw, streams, contention)
             used == InUse(streams)
         IN  /\ rate \in [used -> Nat]
             /\ \A u \in used : rate[u] <= PerStream(bw, 1, contention)
             /\ contention => SumOver([u \in used |-> streams[u] * rate[u]], used) <= bw.ceiling
             /\ contention /\ bw.capped =>
                  \A u \in used : streams[u] * rate[u] <= UnitCap(bw, u)
<1> DEFINE rate == Share(bw, streams, contention)
           used == InUse(streams)
           k == SumOver(streams, U)
           drawn == [u \in used |-> streams[u] * rate[u]]
<1>1. /\ used \subseteq U /\ IsFiniteSet(used)
      /\ \A u \in used : streams[u] \in Nat /\ streams[u] > 0 /\ streams[u] <= k
      /\ k \in Nat /\ k = SumOver(streams, used)
  BY InUseFacts
<1>2. bw.eff \in Nat /\ bw.ceiling \in Nat /\ (bw.capped = TRUE \/ bw.capped = FALSE)
  BY DEF ValidChannel
<1>3. CASE bw.capped = FALSE \/ contention = FALSE
  <2> DEFINE q == PerStream(bw, k, contention)
  <2>1. rate = [u \in used |-> q]
    BY <1>3, ShareCases
  <2> HIDE DEF q, rate, k, used
  <2>2. CASE used = {}
    <3>1. drawn = [u \in {} |-> 0] /\ SumOver(drawn, used) = 0
      BY <2>2, SumEmpty
    <3>2. rate \in [used -> Nat]
      BY <2>1, <2>2
    <3> HIDE DEF drawn
    <3>3. contention => SumOver(drawn, used) <= bw.ceiling
      BY <1>2, <3>1
    <3>. QED
      BY <2>2, <3>2, <3>3 DEF rate, used, drawn
  <2>3. CASE used # {}
    <3>1. k > 0
      <4>1. PICK u \in used : TRUE
        BY <2>3
      <4>. QED
        BY <1>1, <4>1
    <3>2. /\ q \in Nat /\ q <= bw.eff
          /\ contention => q <= bw.ceiling /\ q * k <= bw.ceiling
      BY <1>1, <3>1, PerStreamFacts DEF q
    <3>3. \A u \in used : rate[u] = q /\ drawn[u] = q * streams[u] /\ streams[u] \in Int
      BY <1>1, <2>1, <3>2
    <3>4. q <= PerStream(bw, 1, contention)
      BY <1>2, <3>2, AloneIs DEF Lesser
    <3>5. SumOver(drawn, used) = q * k
      <4>1. q \in Int /\ IsFiniteSet(used)
        BY <1>1, <3>2
      <4> HIDE DEF drawn
      <4>2. SumOver(drawn, used) = q * SumOver(streams, used)
        BY <3>3, <4>1, SumScaled
      <4>. QED
        BY <1>1, <4>2
    <3>6. contention => SumOver(drawn, used) <= bw.ceiling
      BY <3>2, <3>5
    <3>7. rate \in [used -> Nat] /\ \A u \in used : rate[u] <= PerStream(bw, 1, contention)
      BY <2>1, <3>2, <3>4
    <3>8. ~(contention /\ bw.capped)
      BY <1>3
    <3>. QED
      BY <3>6, <3>7, <3>8 DEF rate, used, drawn
  <2>. QED
    BY <2>2, <2>3
<1>4. CASE bw.capped = TRUE /\ contention = TRUE
  <2> DEFINE demand == Demands(bw, streams)
             grant == Grants(bw, streams)
  <2>1. rate = [u \in used |-> grant[u] \div streams[u]]
    BY <1>4, ShareCases
  <2>2. /\ grant \in [used -> Nat]
        /\ \A u \in used : grant[u] <= demand[u] /\ demand[u] \in Nat
        /\ SumOver(grant, used) <= bw.ceiling
    BY GrantsFair DEF FairFill, Demands
  <2>3. \A u \in used : /\ demand[u] <= streams[u] * bw.eff
                        /\ demand[u] <= UnitCap(bw, u)
                        /\ UnitCap(bw, u) \in Nat
    BY <1>1, DemandFacts, UnitCapNat DEF Demands
  <2> HIDE DEF demand, grant, rate, used, k
  <2>4. \A u \in used : grant[u] <= bw.ceiling
    <3>1. \A u \in used : grant[u] \in Nat
      BY <2>2
    <3>2. \A u \in used : grant[u] <= SumOver(grant, used)
      BY <1>1, <3>1, SumTerm
    <3>3. SumOver(grant, used) \in Nat
      BY <1>1, <3>1, SumNat
    <3>. QED
      BY <1>2, <2>2, <3>1, <3>2, <3>3
  <2>5. ASSUME NEW u \in used
        PROVE  /\ rate[u] \in Nat /\ streams[u] * rate[u] <= grant[u]
               /\ rate[u] <= bw.eff /\ rate[u] <= bw.ceiling
               /\ streams[u] * rate[u] \in Nat
    <3> DEFINE n == streams[u]
               q == rate[u]
    <3>1. n \in Nat /\ n > 0 /\ grant[u] \in Nat /\ q = grant[u] \div n
      BY <1>1, <2>1, <2>2
    <3>2. q \in Int /\ q * n <= grant[u]
      BY <3>1, DivFacts
    <3>3. 0 <= q
      <4>1. 0 * n <= grant[u]
        BY <3>1
      <4>. QED
        BY <3>1, <4>1, DivGreatest
    <3>4. grant[u] <= n * bw.eff /\ n * bw.eff \in Int
      <4>1. n * bw.eff \in Int
        BY <1>2, <3>1
      <4>. QED
        BY <2>2, <2>3, <3>1, <4>1
    <3> HIDE DEF n, q
    <3>5. q * n = n * q /\ n * q \in Nat /\ q <= n * q
      BY <3>1, <3>2, <3>3
    <3>6. q <= bw.eff
      <4>1. q * n <= bw.eff * n
        BY <1>2, <3>1, <3>2, <3>4, <3>5
      <4>2. q * n < bw.eff * n + n /\ q * n \in Int /\ bw.eff * n \in Int
        BY <1>2, <3>1, <3>5, <4>1
      <4>. QED
        BY <1>2, <3>1, <3>2, <4>2, DivBelow
    <3>7. q <= bw.ceiling
      <4>1. grant[u] <= bw.ceiling
        BY <2>4
      <4>. QED
        BY <1>2, <3>1, <3>2, <3>5, <4>1
    <3>8. n * q <= grant[u]
      BY <3>2, <3>5
    <3>. QED
      BY <3>2, <3>3, <3>5, <3>6, <3>7, <3>8 DEF n, q
  <2>6. SumOver(drawn, used) <= SumOver(grant, used)
    <3>1. \A u \in used : drawn[u] \in Int /\ grant[u] \in Int /\ drawn[u] <= grant[u]
      BY <2>2, <2>5
    <3> HIDE DEF drawn
    <3>. QED
      BY <1>1, <3>1, SumMonotone
  <2>7. SumOver(drawn, used) <= bw.ceiling
    <3>1. \A u \in used : drawn[u] \in Int /\ grant[u] \in Int
      BY <2>2, <2>5
    <3> HIDE DEF drawn
    <3>2. SumOver(drawn, used) \in Int /\ SumOver(grant, used) \in Int
      BY <1>1, <3>1, SumInt
    <3>. QED
      BY <1>2, <2>2, <2>6, <3>2
  <2>8. rate \in [used -> Nat] /\ \A u \in used : rate[u] <= PerStream(bw, 1, contention)
    <3>1. PerStream(bw, 1, contention) = Lesser(bw.eff, bw.ceiling)
      BY <1>4, AloneIs
    <3>2. \A u \in used : rate[u] \in Nat /\ rate[u] <= bw.eff /\ rate[u] <= bw.ceiling
      BY <2>5
    <3>3. rate = [u \in used |-> rate[u]]
      BY <2>1
    <3>. QED
      BY <1>2, <3>1, <3>2, <3>3 DEF Lesser
  <2>9. \A u \in used : streams[u] * rate[u] <= UnitCap(bw, u)
    <3>. SUFFICES ASSUME NEW u \in used PROVE streams[u] * rate[u] <= UnitCap(bw, u)
      OBVIOUS
    <3>1. streams[u] * rate[u] <= grant[u] /\ streams[u] * rate[u] \in Nat
      BY <2>5
    <3>2. grant[u] <= demand[u] /\ demand[u] <= UnitCap(bw, u)
          /\ grant[u] \in Nat /\ demand[u] \in Nat /\ UnitCap(bw, u) \in Nat
      BY <2>2, <2>3
    <3>. QED
      BY <3>1, <3>2
  <2>. QED
    BY <2>7, <2>8, <2>9 DEF rate, used, drawn
<1>. QED
  BY <1>2, <1>3, <1>4

=============================================================================
