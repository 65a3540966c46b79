-------------------------- MODULE PlanPriceProofs --------------------------
(***************************************************************************)
(* The solver decides an op before its consumers are placed and before       *)
(* anything is split and converted around it; whether it priced the          *)
(* boundaries that apply_sync then charges is a property of the finished     *)
(* plan.  In order: PriceInv, that what was priced at each decision is right *)
(* for what has been decided, and stays so because a later rewriting leaves  *)
(* decided ops and what they read untouched; that converts and charges       *)
(* follow the crossings through the tail; and that it then meets the charges.*)
(***************************************************************************)
EXTENDS PlanRewriteProofs

(* What the solver priced.                                                  *)

(* Op i gets a value from another unit, the memory aside.                    *)
Crosses(g, i) == \E v \in Values(g, i) : g.op[v].unit \notin {g.op[i].unit, "mem"}

(* The nodes that compute the block of n on unit u.                          *)
BlockOn(o, g, n, u) == {i \in Real(g) : g.op[i].src \in Block(o, n) /\ g.op[i].unit = u}

(* What was priced is decided, and was priced as it crosses in g.            *)
InputsRight(o, g, n, e) ==
  \A u \in Units : u \in e.inputs <=> \E i \in BlockOn(o, g, n, u) : Crosses(g, i)

(* So it was for all that pr prices.                                         *)
PricedRight(o, g, td, pr) ==
  \A m \in DOMAIN pr : Block(o, m) \cap td = {} /\ InputsRight(o, g, m, pr[m])

(* The ops of P are on the host, owner; and an op whole on another unit that *)
(* one of them reads was priced with its hand-back.                          *)
HandsRight(o, g, td, pr, owner, P) ==
  /\ \A i \in Real(g) : g.op[i].src \in P /\ g.op[i].src \notin td => g.op[i].unit = owner
  /\ \A d \in Ids(o) \cap Plain(g) : \A s \in P :
       d \notin td /\ d \in Reads(o, s) /\ ~SameBlock(o, d, s)
         /\ g.op[d].unit \notin {owner, "mem"} =>
       \E m \in DOMAIN pr : pr[m].handback /\ d \in Block(o, m)

(* A node decided in g is the same in h and gets the same.                   *)
Stays(g, h, i) ==
  /\ i \in Real(h) /\ h.op[i].src = g.op[i].src /\ h.op[i].unit = g.op[i].unit
  /\ Values(h, i) = Values(g, i)
  /\ \A v \in Values(g, i) : h.op[v].unit = g.op[v].unit

(* The step from g to h decides none but the ops td and rebuilds no other.   *)
Untouched(g, h, td) ==
  /\ \A i \in Real(g) : g.op[i].src \notin td => Stays(g, h, i)
  /\ \A i \in Real(h) : h.op[i].src \notin td => i \in Real(g) /\ g.op[i].src = h.op[i].src

(* Where nothing is touched, what was priced right is right.                 *)
LEMMA UntouchedInputs ==
  ASSUME NEW o, NEW g, NEW h, NEW td, Untouched(g, h, td), NEW n, Block(o, n) \cap td = {},
         NEW e, InputsRight(o, g, n, e)
  PROVE  InputsRight(o, h, n, e)
<1>1. ASSUME NEW u PROVE BlockOn(o, h, n, u) = BlockOn(o, g, n, u)
  BY DEF BlockOn, Untouched, Stays
<1>2. ASSUME NEW u, NEW i \in BlockOn(o, g, n, u) PROVE Crosses(h, i) <=> Crosses(g, i)
  <2>1. Stays(g, h, i)
    BY DEF BlockOn, Untouched
  <2>. QED
    BY <2>1 DEF Stays, Crosses
<1>. QED
  BY <1>1, <1>2 DEF InputsRight

(* What is decided reads nothing that is left.                               *)
LEMMA DecidedReads ==
  ASSUME NEW o, NEW g, NEW td, GraphInv(o, g), TodoInv(o, g, td), NEW i \in Real(g),
         g.op[i].src \notin td
  PROVE  /\ Values(g, i) = g.op[i].deps /\ g.op[i].deps \subseteq Ids(g)
         /\ g.op[i].src \in Ids(o)
         /\ \A v \in g.op[i].deps : g.op[v].src \notin td /\ v \notin td
<1>1. /\ Plain(g) = Ids(g) /\ Wired(o, g) /\ Finite(g) /\ Originals(o, g) /\ Made(o, g)
      /\ td \subseteq Ids(o) \cap Ids(g)
      /\ \A s \in Ids(o) \ td : Reads(o, s) \cap td = {}
  BY DEF GraphInv, TodoInv, Listed
<1>2. i \in Ids(g) /\ g.op[i].cat # "merge"
  BY DEF Real
<1>3. g.op[i].deps \subseteq Ids(g)
  BY <1>1, <1>2 DEF Finite
<1>4. Values(g, i) = g.op[i].deps
  <2>1. \A d \in g.op[i].deps : Value(g, d) = d
    BY <1>1, <1>3 DEF Value, Plain
  <2>. QED
    BY <2>1 DEF Values
<1>5. Values(g, i) = Wanted(o, g, i)
  BY <1>1, <1>2 DEF Wired
<1>6. g.op[i].src \in Ids(o)
  BY <1>1, <1>2 DEF Originals, Made
<1>7. \A v \in g.op[i].deps : g.op[v].src \in Reads(o, g.op[i].src)
  BY <1>4, <1>5 DEF Wanted
<1>8. \A v \in g.op[i].deps : g.op[v].src \notin td
  BY <1>1, <1>6, <1>7
<1>9. \A v \in td : g.op[v].src = v
  BY <1>1 DEF Originals
<1>. QED
  BY <1>3, <1>4, <1>6, <1>8, <1>9

(* Placing a block touches no decided op.                                    *)
LEMMA PlaceUntouched ==
  ASSUME NEW o, NEW g, NEW td, NEW n, NEW B, NextBlock(o, g, td, n, B),
         NEW u, NEW pinned, NEW h, Places(g, h, B, u, pinned)
  PROVE  Untouched(g, h, td)
<1>0. B \subseteq td
  BY DecidedOps
<1>1. GraphInv(o, g) /\ TodoInv(o, g, td) /\ SameOps(g, h) /\ Finite(g) /\ B \subseteq td
  BY <1>0 DEF NextBlock, Places, GraphInv, Listed
<1>2. PlacedView(o, g, h, B, u)
  BY PlacedViews
<1>3. Real(h) = Real(g) /\ \A i \in Ids(g) : Values(h, i) = Values(g, i)
  BY <1>1, SameReads
<1>4. ASSUME NEW i \in Real(g), g.op[i].src \notin td PROVE Stays(g, h, i)
  <2>1. /\ Values(g, i) = g.op[i].deps /\ g.op[i].deps \subseteq Ids(g)
        /\ \A v \in g.op[i].deps : v \notin td
    BY <1>1, <1>4, DecidedReads
  <2>2. i \in Ids(g) \ B
    BY <1>1, <1>2, <1>4 DEF PlacedView, Real
  <2>3. \A x \in Ids(g) \ B : h.op[x] = g.op[x]
    BY <1>2 DEF PlacedView
  <2>. QED
    BY <1>1, <1>3, <2>1, <2>2, <2>3 DEF Stays, Real
<1>5. \A i \in Real(h) : h.op[i].src = g.op[i].src
  BY <1>2, <1>3 DEF PlacedView, Real
<1>. QED
  BY <1>3, <1>4, <1>5 DEF Untouched

(* Nor does splitting one.                                                   *)
LEMMA SplitUntouched ==
  ASSUME NEW o, NEW g, NEW td, NEW n, NEW B, NEW plan, NEW k, NEW owner, NEW sync, NEW h, NEW ids,
         NEW merge, SplitStep(o, g, td, n, B, plan, k, owner, sync, h, ids, merge)
  PROVE  Untouched(g, h, td)
<1>1. NextBlock(o, g, td, n, B)
  BY DEF SplitStep
<1>2. GraphInv(o, g) /\ TodoInv(o, g, td) /\ B \subseteq td /\ Max(B) \in B
  BY <1>1, DecidedOps DEF NextBlock
<1>3. /\ OthersView(o, g, h, B, merge) /\ PartsView(o, g, h, n, B, k, ids)
      /\ MergeView(o, g, h, B, k, ids, merge) /\ KindsView(g, h, B, k, ids, merge)
      /\ Plain(h) = Ids(h) /\ Plain(g) = Ids(g)
  BY SplitViews DEF SplitView
<1>4. \A y \in Ids(g) \ B : h.op[y].unit = g.op[y].unit
  BY SplitUnitViews DEF SplitUnitView
<1>5. ASSUME NEW i \in Real(g), g.op[i].src \notin td PROVE Stays(g, h, i)
  <2>1. /\ Values(g, i) = g.op[i].deps /\ g.op[i].deps \subseteq Ids(g)
        /\ \A v \in g.op[i].deps : v \notin td
    BY <1>2, <1>5, DecidedReads
  <2>2. i \in Ids(g) /\ i \notin B
    <3>1. ASSUME i \in B PROVE FALSE
      BY <1>1, <1>2, <1>5, <3>1, DecidedFields
    <3>. QED
      BY <3>1 DEF Real
  <2>3. /\ h.op[i].src = g.op[i].src /\ i \in Ids(h) /\ h.op[i].cat = g.op[i].cat
        /\ h.op[i].deps = IF Max(B) \in g.op[i].deps THEN (g.op[i].deps \ {Max(B)}) \cup {merge}
                          ELSE g.op[i].deps
    BY <1>3, <2>2 DEF OthersView
  <2>4. h.op[i].deps = g.op[i].deps
    BY <1>2, <2>1, <2>3
  <2>5. \A v \in g.op[i].deps : h.op[v].unit = g.op[v].unit /\ v \in Ids(h) /\ Value(h, v) = v
    <3>. TAKE v \in g.op[i].deps
    <3>1. v \in Ids(g) \ B
      BY <1>2, <2>1
    <3>2. v \in Ids(h)
      BY <1>3, <3>1 DEF OthersView
    <3>. QED
      BY <1>3, <1>4, <3>1, <3>2 DEF Value, Plain
  <2>6. Values(h, i) = g.op[i].deps
    BY <2>4, <2>5 DEF Values
  <2>7. i \in Real(h)
    BY <2>3 DEF Real
  <2>. QED
    BY <1>4, <2>1, <2>2, <2>3, <2>5, <2>6, <2>7 DEF Stays
<1>6. ASSUME NEW i \in Real(h), h.op[i].src \notin td PROVE i \in Real(g) /\ g.op[i].src = h.op[i].src
  <2>1. i \in Ids(h) /\ h.op[i].cat # "merge"
    BY DEF Real
  <2>2. i # merge
    BY <1>3, <2>1 DEF MergeView
  <2>3. ASSUME NEW j \in 1..k, NEW c \in B PROVE i # ids[<<j, c>>]
    <3>1. PartView(o, g, h, n, B, c, j, ids)
      BY <1>3 DEF PartsView
    <3>. QED
      BY <1>2, <1>6, <3>1 DEF PartView
  <2>4. i \in Ids(g) \ B
    BY <1>3, <2>1, <2>2, <2>3 DEF KindsView
  <2>. QED
    BY <1>3, <2>4 DEF OthersView, Real
<1>. QED
  BY <1>5, <1>6 DEF Untouched

(* The inputs of a block that is placed are priced where they cross.         *)
LEMMA PlacedInputs ==
  ASSUME NEW o, NEW g, NEW td, NEW n, NEW B, NextBlock(o, g, td, n, B),
         NEW u, NEW pinned, NEW h, Places(g, h, B, u, pinned),
         NEW e, \A w : w \in e.inputs <=> w = u /\ BoundaryIn(g, B, w)
  PROVE  InputsRight(o, h, n, e)
<1>0. B \subseteq Ids(g)
  BY DecidedOps
<1>1. SameOps(g, h) /\ Finite(g) /\ Plain(g) = Ids(g) /\ B = Block(o, n) /\ B \subseteq Ids(g)
  BY <1>0 DEF NextBlock, Places, GraphInv, Listed, TodoInv
<1>2. PlacedView(o, g, h, B, u)
  BY PlacedViews
<1>3. Real(h) = Real(g) /\ \A i \in Ids(g) : Values(h, i) = Values(g, i)
  BY <1>1, SameReads
<1>4. \A i \in Ids(g) : g.op[i].deps \subseteq Ids(g)
  BY <1>1 DEF Finite
<1>5. ASSUME NEW i \in B PROVE Values(h, i) = g.op[i].deps
  <2>1. \A d \in g.op[i].deps : Value(g, d) = d
    BY <1>1, <1>4 DEF Value, Plain
  <2>2. Values(g, i) = g.op[i].deps
    BY <2>1 DEF Values
  <2>. QED
    BY <1>1, <1>3, <2>2
<1>6. ASSUME NEW w PROVE BlockOn(o, h, n, w) = {i \in B : w = u}
  <2>1. \A i \in B : i \in Real(h) /\ h.op[i].src \in B /\ h.op[i].unit = u
    BY <1>2, <1>3 DEF PlacedView
  <2>2. \A i \in Real(h) : h.op[i].src \in B => i \in B
    BY <1>2, <1>3 DEF PlacedView, Real
  <2>. QED
    BY <1>1, <2>1, <2>2 DEF BlockOn
<1>7. \A d \in B : h.op[d].unit = u
  BY <1>2 DEF PlacedView
<1>8. \A d \in Ids(g) \ B : h.op[d].unit = g.op[d].unit
  BY DEF Places
<1>9. ASSUME NEW i \in B
      PROVE  Crosses(h, i) <=> \E d \in g.op[i].deps \ B : g.op[d].unit \notin {u, "mem"}
  BY <1>1, <1>4, <1>5, <1>7, <1>8 DEF Crosses
<1>10. BoundaryIn(g, B, u) <=> \E i \in B : Crosses(h, i)
  BY <1>9 DEF BoundaryIn
<1>. QED
  BY <1>6, <1>10 DEF InputsRight

(* So are those of a block that is split.                                    *)
LEMMA SplitInputs ==
  ASSUME NEW o, NEW g, NEW td, NEW n, NEW B, NEW plan, NEW k, NEW owner, NEW sync, NEW h, NEW ids,
         NEW merge, SplitStep(o, g, td, n, B, plan, k, owner, sync, h, ids, merge),
         NEW e, \A w : w \in e.inputs <=> (\E i \in 1..k : w = plan.units[i]) /\ BoundaryIn(g, B, w)
  PROVE  InputsRight(o, h, n, e)
<1>1. /\ OthersView(o, g, h, B, merge) /\ PartsView(o, g, h, n, B, k, ids)
      /\ MergeView(o, g, h, B, k, ids, merge) /\ KindsView(g, h, B, k, ids, merge)
      /\ Plain(h) = Ids(h) /\ BlockView(o, g, B)
  BY SplitViews DEF SplitView
<1>2. SplitUnitView(o, g, h, n, B, plan, k, ids, merge, owner) /\ B = Block(o, n)
  BY SplitUnitViews DEF SplitStep, NextBlock
<1>3. \A c \in B : g.op[c].deps \subseteq Ids(g)
  BY <1>1 DEF BlockView
<1>4. ASSUME NEW i \in 1..k, NEW c \in B, NEW x, x = ids[<<i, c>>]
      PROVE  /\ x \in Real(h) /\ h.op[x].src = c /\ h.op[x].unit = plan.units[i]
             /\ Crosses(h, x) <=> \E d \in g.op[c].deps \ B : g.op[d].unit \notin {plan.units[i], "mem"}
  <2>1. PartView(o, g, h, n, B, c, i, ids) /\ PartUnit(h, plan, i, x)
    BY <1>1, <1>2, <1>4 DEF PartsView, SplitUnitView
  <2>2. x \in Ids(h) /\ h.op[x].src = c /\ h.op[x].cat \in Traceable /\ h.op[x].unit = plan.units[i]
    BY <1>4, <2>1 DEF PartView, PartUnit
  <2>3. x \in Real(h)
    BY <2>2 DEF Real, Traceable, LegalDims, FixedUnit
  <2>4. h.op[x].deps = {IF d \in B THEN ids[<<i, d>>] ELSE d : d \in g.op[c].deps}
    BY <1>4, <2>1 DEF PartView, PartDeps
  <2>5. h.op[x].deps \subseteq Ids(h)
    <3>1. \A d \in B : ids[<<i, d>>] \in Ids(h)
      BY <1>1 DEF PartsView, PartView
    <3>2. \A d \in Ids(g) \ B : d \in Ids(h)
      BY <1>1 DEF OthersView
    <3>. QED
      BY <1>3, <2>4, <3>1, <3>2
  <2>6. Values(h, x) = h.op[x].deps
    <3>1. \A d \in h.op[x].deps : Value(h, d) = d
      BY <1>1, <2>5 DEF Value, Plain
    <3>. QED
      BY <3>1 DEF Values
  <2>7. \A d \in B : h.op[ids[<<i, d>>]].unit = plan.units[i]
    BY <1>2 DEF SplitUnitView, PartUnit
  <2>8. \A d \in Ids(g) \ B : h.op[d].unit = g.op[d].unit
    BY <1>2 DEF SplitUnitView
  <2>9. Crosses(h, x) <=> \E d \in g.op[c].deps \ B : g.op[d].unit \notin {plan.units[i], "mem"}
    <3> DEFINE W == plan.units[i]
    <3>1. Crosses(h, x) <=> \E v \in h.op[x].deps : h.op[v].unit \notin {W, "mem"}
      BY <2>2, <2>6 DEF Crosses
    <3>2. (\E v \in h.op[x].deps : h.op[v].unit \notin {W, "mem"}) <=>
            \E d \in g.op[c].deps : h.op[IF d \in B THEN ids[<<i, d>>] ELSE d].unit \notin {W, "mem"}
      BY <2>4
    <3>3. \A d \in g.op[c].deps : h.op[IF d \in B THEN ids[<<i, d>>] ELSE d].unit
                                    = IF d \in B THEN W ELSE g.op[d].unit
      BY <1>3, <2>7, <2>8
    <3>. QED
      BY <3>1, <3>2, <3>3
  <2>. QED
    BY <2>2, <2>3, <2>9
<1>5. ASSUME NEW y \in Real(h), h.op[y].src \in B
      PROVE  \E i \in 1..k : \E c \in B : y = ids[<<i, c>>]
  <2>1. y \in Ids(h) /\ y # merge
    BY <1>1 DEF Real, MergeView
  <2>2. y \notin Ids(g) \ B
    BY <1>1, <1>5 DEF OthersView
  <2>. QED
    BY <1>1, <2>1, <2>2 DEF KindsView
<1>6. ASSUME NEW w
      PROVE  (\E y \in BlockOn(o, h, n, w) : Crosses(h, y)) <=>
               (\E i \in 1..k : w = plan.units[i]) /\ BoundaryIn(g, B, w)
  <2>1. ASSUME NEW y \in BlockOn(o, h, n, w), Crosses(h, y)
        PROVE  (\E i \in 1..k : w = plan.units[i]) /\ BoundaryIn(g, B, w)
    <3>1. y \in Real(h) /\ h.op[y].src \in B /\ h.op[y].unit = w
      BY <1>2 DEF BlockOn
    <3>2. PICK i \in 1..k, c \in B : y = ids[<<i, c>>]
      BY <1>5, <3>1
    <3>3. w = plan.units[i] /\ \E d \in g.op[c].deps \ B : g.op[d].unit \notin {w, "mem"}
      BY <1>4, <2>1, <3>1, <3>2
    <3>. QED
      BY <3>3 DEF BoundaryIn
  <2>2. ASSUME NEW i \in 1..k, w = plan.units[i], BoundaryIn(g, B, w)
        PROVE  \E y \in BlockOn(o, h, n, w) : Crosses(h, y)
    <3>1. PICK c \in B : \E d \in g.op[c].deps \ B : g.op[d].unit \notin {w, "mem"}
      BY <2>2 DEF BoundaryIn
    <3> DEFINE x == ids[<<i, c>>]
    <3>2. x \in Real(h) /\ h.op[x].src = c /\ h.op[x].unit = w /\ Crosses(h, x)
      BY <1>4, <2>2, <3>1
    <3>. QED
      BY <1>2, <3>2 DEF BlockOn
  <2>. QED
    BY <2>1, <2>2
<1>. QED
  BY <1>6 DEF InputsRight

(* pr2 is pr, with an entry for n or without.                               *)
Adds(pr, pr2, n) ==
  /\ \A m \in DOMAIN pr2 : m # n => m \in DOMAIN pr /\ pr2[m] = pr[m]
  /\ \A m \in DOMAIN pr : m # n => m \in DOMAIN pr2

(* A decision that is priced right leaves all that was priced right.         *)
LEMMA DecisionPriced ==
  ASSUME NEW o, NEW g, NEW h, NEW td, NEW pr, PricedRight(o, g, td, pr), Untouched(g, h, td),
         NEW n, NEW B, B = Block(o, n), NEW pr2, Adds(pr, pr2, n),
         n \in DOMAIN pr2 => InputsRight(o, h, n, pr2[n])
  PROVE  PricedRight(o, h, td \ B, pr2)
<1>. SUFFICES ASSUME NEW m \in DOMAIN pr2
              PROVE  Block(o, m) \cap (td \ B) = {} /\ InputsRight(o, h, m, pr2[m])
  BY DEF PricedRight
<1>1. CASE m = n
  BY <1>1
<1>2. CASE m # n
  <2>1. m \in DOMAIN pr /\ pr2[m] = pr[m]
    BY <1>2 DEF Adds
  <2>2. Block(o, m) \cap td = {} /\ InputsRight(o, g, m, pr[m])
    BY <2>1 DEF PricedRight
  <2>. DEFINE e == pr[m]
  <2>3. InputsRight(o, g, m, e)
    BY <2>2
  <2>. HIDE DEF e
  <2>4. InputsRight(o, h, m, e)
    BY <2>2, <2>3, UntouchedInputs
  <2>5. InputsRight(o, h, m, pr2[m])
    BY <2>1, <2>4 DEF e
  <2>. QED
    BY <2>2, <2>5
<1>. QED
  BY <1>1, <1>2

(* A block placed on u is handed back where the ops of P read it.            *)
LEMMA PlacedHands ==
  ASSUME NEW o, NEW g, NEW td, NEW n, NEW B, NextBlock(o, g, td, n, B),
         NEW u, NEW pinned, NEW h, Places(g, h, B, u, pinned),
         NEW pr, NEW owner, NEW P, HandsRight(o, g, td, pr, owner, P), NEW pr2, Adds(pr, pr2, n),
         \A c \in B : c \in P => u = owner,
         \A d \in B : \A s \in P : d \in Reads(o, s) /\ s \notin B /\ u \notin {owner, "mem"} =>
           n \in DOMAIN pr2 /\ pr2[n].handback
  PROVE  HandsRight(o, h, td \ B, pr2, owner, P)
<1>1. B \subseteq td /\ B \subseteq Ids(o) /\ B = Block(o, n)
  BY DecidedOps DEF NextBlock
<1>2. PlacedView(o, g, h, B, u) /\ Untouched(g, h, td)
  BY PlacedViews, PlaceUntouched
<1>3. ASSUME NEW i \in Real(h), h.op[i].src \in P, h.op[i].src \notin td \ B
      PROVE  h.op[i].unit = owner
  <2>1. CASE h.op[i].src \in B
    <3>1. i \in B
      BY <1>2, <2>1 DEF PlacedView, Real
    <3>2. h.op[i].unit = u /\ h.op[i].src = i
      BY <1>2, <3>1 DEF PlacedView
    <3>. QED
      BY <1>3, <3>1, <3>2
  <2>2. CASE h.op[i].src \notin B
    <3>1. i \in Real(g) /\ g.op[i].src = h.op[i].src /\ g.op[i].src \notin td
      BY <1>2, <1>3, <2>2 DEF Untouched
    <3>2. h.op[i].unit = g.op[i].unit
      BY <1>2, <3>1 DEF Untouched, Stays
    <3>. QED
      BY <1>3, <3>1, <3>2 DEF HandsRight
  <2>. QED
    BY <2>1, <2>2
<1>4. ASSUME NEW d \in Ids(o) \cap Plain(h), NEW s \in P, d \notin td \ B, d \in Reads(o, s),
             ~SameBlock(o, d, s), h.op[d].unit \notin {owner, "mem"}
      PROVE  \E m \in DOMAIN pr2 : pr2[m].handback /\ d \in Block(o, m)
  <2>1. CASE d \in B
    <3>1. h.op[d].unit = u /\ s \notin B
      BY <1>2, <1>4, <2>1 DEF PlacedView
    <3>. QED
      BY <1>1, <1>4, <2>1, <3>1
  <2>2. CASE d \notin B
    <3>1. d \in Ids(g) \ B /\ d \in Plain(g) /\ h.op[d] = g.op[d] /\ d \notin td
      BY <1>2, <1>4, <2>2 DEF PlacedView
    <3>2. PICK m \in DOMAIN pr : pr[m].handback /\ d \in Block(o, m)
      BY <1>4, <3>1 DEF HandsRight
    <3>3. m # n
      BY <1>1, <2>2, <3>2
    <3>. QED
      BY <3>2, <3>3 DEF Adds
  <2>. QED
    BY <2>1, <2>2
<1>. QED
  BY <1>3, <1>4 DEF HandsRight

(* The ops of P are never split.                                            *)
LEMMA SplitHands ==
  ASSUME NEW o, NEW g, NEW td, NEW n, NEW B, NEW plan, NEW k, NEW owner, NEW sync, NEW h, NEW ids,
         NEW merge, SplitStep(o, g, td, n, B, plan, k, owner, sync, h, ids, merge),
         NEW pr, NEW P, HandsRight(o, g, td, pr, owner, P), NEW pr2, Adds(pr, pr2, n), B \cap P = {}
  PROVE  HandsRight(o, h, td \ B, pr2, owner, P)
<1>0. NextBlock(o, g, td, n, B)
  BY DEF SplitStep
<1>1. B \subseteq td /\ B = Block(o, n)
  BY <1>0, DecidedOps DEF NextBlock
<1>2. Untouched(g, h, td)
  BY SplitUntouched
<1>3. /\ PartsView(o, g, h, n, B, k, ids) /\ MergeView(o, g, h, B, k, ids, merge)
      /\ KindsView(g, h, B, k, ids, merge) /\ Plain(g) = Ids(g)
  BY SplitViews DEF SplitView
<1>4. \A y \in Ids(g) \ B : h.op[y].unit = g.op[y].unit
  BY SplitUnitViews DEF SplitUnitView
<1>5. ASSUME NEW i \in Real(h), h.op[i].src \in P, h.op[i].src \notin td \ B
      PROVE  h.op[i].unit = owner
  <2>1. i \in Real(g) /\ g.op[i].src = h.op[i].src /\ g.op[i].src \notin td
    BY <1>2, <1>5 DEF Untouched
  <2>2. h.op[i].unit = g.op[i].unit
    BY <1>2, <2>1 DEF Untouched, Stays
  <2>. QED
    BY <1>5, <2>1, <2>2 DEF HandsRight
<1>6. ASSUME NEW d \in Ids(o) \cap Plain(h), NEW s \in P, d \notin td \ B, d \in Reads(o, s),
             ~SameBlock(o, d, s), h.op[d].unit \notin {owner, "mem"}
      PROVE  \E m \in DOMAIN pr2 : pr2[m].handback /\ d \in Block(o, m)
  <2>1. d \in Ids(h) /\ d # merge
    BY <1>3, <1>6 DEF Plain, MergeView
  <2>2. ASSUME NEW i \in 1..k, NEW c \in B PROVE d # ids[<<i, c>>]
    <3>1. PartView(o, g, h, n, B, c, i, ids)
      BY <1>3 DEF PartsView
    <3>. QED
      BY <1>6, <3>1 DEF PartView
  <2>3. d \in Ids(g) \ B
    BY <1>3, <2>1, <2>2 DEF KindsView
  <2>4. d \notin td /\ d \in Plain(g) /\ g.op[d].unit \notin {owner, "mem"}
    BY <1>3, <1>4, <1>6, <2>3
  <2>5. PICK m \in DOMAIN pr : pr[m].handback /\ d \in Block(o, m)
    BY <1>6, <2>4 DEF HandsRight
  <2>6. m # n
    BY <1>1, <2>3, <2>5
  <2>. QED
    BY <2>5, <2>6 DEF Adds
<1>. QED
  BY <1>5, <1>6 DEF HandsRight

(* An op outside a block that reads the value of it is left to be decided.   *)
LEMMA ReaderLeft ==
  ASSUME NEW o, NEW g, NEW td, NEW n, NEW B, NextBlock(o, g, td, n, B),
         NEW d \in B, NEW s \in Ids(o), d \in Reads(o, s)
  PROVE  s \in Successors(Deps(g), d)
<1>1. B \subseteq td
  BY DecidedOps
<1>2. GraphInv(o, g) /\ TodoInv(o, g, td)
  BY DEF NextBlock
<1>3. Finite(g) /\ Plain(g) = Ids(g) /\ Wired(o, g) /\ Originals(o, g) /\ td \subseteq Ids(o) \cap Ids(g)
  BY <1>2 DEF GraphInv, Listed, TodoInv
<1>4. s \in td
  BY <1>1, <1>2 DEF TodoInv
<1>5. s \in Ids(g) /\ d \in Ids(g) /\ d \in Ids(o)
  BY <1>1, <1>3, <1>4
<1>6. g.op[s].src = s /\ g.op[s].part = 0 /\ g.op[d].src = d /\ g.op[d].part = 0
  BY <1>3, <1>4, <1>5 DEF Originals
<1>7. g.op[s].cat # "merge"
  <2>1. /\ TracedOp(o, s) /\ g.op[s].cat = o.op[s].cat
    BY <1>3, <1>5, TracedOps DEF Originals, NextBlock
  <2>. QED
    BY <2>1 DEF TracedOp, Traceable, LegalDims, FixedUnit
<1>8. d \in Wanted(o, g, s)
  BY <1>3, <1>5, <1>6 DEF Wanted
<1>9. Values(g, s) = Wanted(o, g, s)
  BY <1>3, <1>5, <1>7 DEF Wired
<1>10. Values(g, s) = g.op[s].deps
  BY <1>3, <1>5, NoConverts
<1>. QED
  BY <1>3, <1>5, <1>8, <1>9, <1>10, GraphMaps

-----------------------------------------------------------------------------
(* What was priced stays right while the solver decides.                     *)

(* The ops that the support unit fixes.                                     *)
PinnedOps == {s \in Ids(origin) : Pinned(s)}

(* What was priced is right, and so are the hand-backs, if the support ops   *)
(* are on the host.                                                         *)
PricesRight(o, g, td, pr, sup, owner, P) ==
  PricedRight(o, g, td, pr) /\ (sup = owner => HandsRight(o, g, td, pr, owner, P))

(* The invariant of the prices.                                             *)
PriceInv ==
  planner = "tiled" => PricesRight(origin, graph, todo, priced, support, host, PinnedOps)

(* Nothing is priced when a scheduler is called.                             *)
LEMMA InitPrices ==
  ASSUME Init
  PROVE  PriceInv
<1>1. priced = <<>> /\ todo = Ids(origin) /\ graph = origin /\ origin \in Graphs
  BY DEF Init
<1>2. DOMAIN priced = {}
  BY <1>1
<1>3. PricedRight(origin, graph, todo, priced)
  BY <1>2 DEF PricedRight
<1>4. \A i \in Real(origin) : origin.op[i].src \in Ids(origin)
  <2>1. Traced(origin)
    BY <1>1, GraphsAssumption
  <2>2. \A i \in Ids(origin) : TracedOp(origin, i)
    BY <2>1, TracedOps
  <2>. QED
    BY <2>2 DEF TracedOp, Real
<1>5. HandsRight(origin, graph, todo, priced, host, PinnedOps)
  BY <1>1, <1>4 DEF HandsRight
<1>. QED
  BY <1>3, <1>5 DEF PriceInv, PricesRight

(* A decision keeps it that keeps both parts.                               *)
LEMMA DecisionPrices ==
  ASSUME IInv, NEW n, Deciding(n), Decided(n),
         PricesRight(origin, graph', todo \ Block(origin, n), priced', support, host, PinnedOps)
  PROVE  PriceInv'
<1>1. Block(graph, n) = Block(origin, n)
  BY DecidingNext
<1>2. todo' = todo \ Block(origin, n) /\ UNCHANGED call
  BY <1>1 DEF Decided
<1>3. PinnedOps' = PinnedOps
  BY <1>2 DEF PinnedOps, Pinned, call
<1>. QED
  BY <1>2, <1>3 DEF PriceInv, call

(* A block that is placed without a price.                                   *)
LEMMA UnpricedPlace ==
  ASSUME NEW o, NEW g, NEW td, NEW n, NEW B, NextBlock(o, g, td, n, B),
         NEW u, NEW pinned, NEW h, Places(g, h, B, u, pinned),
         NEW pr, NEW sup, NEW owner, NEW P, PricesRight(o, g, td, pr, sup, owner, P),
         sup = owner => \A c \in B : c \in P => u = owner,
         sup = owner => \A d \in B : \A s \in P : d \in Reads(o, s) => u \in {owner, "mem"}
  PROVE  PricesRight(o, h, td \ B, pr, sup, owner, P)
<1>1. B \subseteq td /\ n \in B
  BY DecidedOps
<1>2. B = Block(o, n)
  BY DEF NextBlock
<1>3. PricedRight(o, g, td, pr) /\ (sup = owner => HandsRight(o, g, td, pr, owner, P))
  BY DEF PricesRight
<1>4. n \notin DOMAIN pr
  BY <1>1, <1>2, <1>3 DEF PricedRight
<1>5. Adds(pr, pr, n)
  BY DEF Adds
<1>6. Untouched(g, h, td)
  BY PlaceUntouched
<1>7. PricedRight(o, h, td \ B, pr)
  BY <1>2, <1>3, <1>4, <1>5, <1>6, DecisionPriced
<1>8. ASSUME sup = owner PROVE HandsRight(o, h, td \ B, pr, owner, P)
  BY <1>3, <1>5, <1>8, PlacedHands
<1>. QED
  BY <1>7, <1>8 DEF PricesRight

(* Placing an op on its fixed unit keeps the prices.                         *)
LEMMA FixedPrices ==
  ASSUME IInv, PriceInv, NEW n, PlaceFixed(n)
  PROVE  PriceInv'
<1>. DEFINE B == Block(origin, n)
<1>0. Deciding(n) /\ Fixed(n) /\ Decided(n) /\ UNCHANGED priced
  BY DEF PlaceFixed
<1>1. /\ NextBlock(origin, graph, todo, n, B)
      /\ n \in B /\ IsFirst(origin, n) /\ graph.op[n].cat = origin.op[n].cat
  BY <1>0, DecidingNext
<1>2. Traced(origin) /\ planner = "tiled"
  BY <1>0, CallFacts DEF IInv, SolveInv, Deciding
<1>3. \A c \in B : c = n
  BY <1>0, <1>1, <1>2, BlockCats DEF Fixed, FixedUnit, IsRep
<1>. DEFINE u == FixedUnit[origin.op[n].cat]
<1>4. u \in Chips \cup {"mem"} /\ graph' = Placed(graph, n, u, FALSE)
  BY <1>0, <1>1 DEF Fixed, FixedUnit, PlaceFixed, Chips
<1>5. \A c \in B : c \notin PinnedOps
  BY <1>0, <1>3 DEF PinnedOps, Pinned, Fixed, FixedUnit
<1>6. \A d \in B : \A s \in PinnedOps : d \in Reads(origin, s) => u = "mem"
  <2>. SUFFICES ASSUME NEW s \in Ids(origin), n \in Reads(origin, s) PROVE u = "mem"
    BY <1>3 DEF PinnedOps
  <2>1. TracedOp(origin, s)
    BY <1>2, TracedOps
  <2>2. origin.op[n].cat # "sampling"
    BY <2>1 DEF TracedOp, Reads
  <2>. QED
    BY <1>0, <2>2 DEF Fixed, FixedUnit
<1>. HIDE DEF u, B
<1>7. Places(graph, graph', B, u, FALSE)
  BY <1>1, <1>4, PlacedOps
<1>8. PricesRight(origin, graph, todo, priced, support, host, PinnedOps)
  BY <1>2 DEF PriceInv
<1>9. \A d \in B : \A s \in PinnedOps : d \in Reads(origin, s) => u \in {host, "mem"}
  BY <1>6
<1>10. PricesRight(origin, graph', todo \ B, priced, support, host, PinnedOps)
  BY <1>1, <1>5, <1>7, <1>8, <1>9, UnpricedPlace
<1>. QED
  BY <1>0, <1>10, DecisionPrices DEF B

(* Placing a block on the support unit keeps the prices.                     *)
LEMMA SupportPrices ==
  ASSUME IInv, PriceInv, NEW n, PlaceSupport(n)
  PROVE  PriceInv'
<1>. DEFINE B == Block(origin, n)
<1>0. Deciding(n) /\ Pinned(n) /\ Decided(n) /\ UNCHANGED priced
      /\ graph' = Placed(graph, n, support, FALSE)
  BY DEF PlaceSupport
<1>1. NextBlock(origin, graph, todo, n, B)
  BY <1>0, DecidingNext
<1>2. CallInv /\ planner = "tiled"
  BY <1>0 DEF IInv, SolveInv, Deciding
<1>3. support \in Chips
  BY <1>0, <1>2, UnitsAssumption DEF CallInv, Pinned, Chips
<1>. HIDE DEF B
<1>4. Places(graph, graph', B, support, FALSE)
  BY <1>0, <1>1, <1>3, PlacedOps
<1>5. PricesRight(origin, graph, todo, priced, support, host, PinnedOps)
  BY <1>2 DEF PriceInv
<1>6. PricesRight(origin, graph', todo \ B, priced, support, host, PinnedOps)
  BY <1>1, <1>4, <1>5, UnpricedPlace
<1>. QED
  BY <1>0, <1>6, DecisionPrices DEF B

(* The elements of a list of k.                                             *)
LEMMA ToSetOf ==
  ASSUME NEW q, NEW w
  PROVE  w \in ToSet(q) <=> \E i \in DOMAIN q : w = q[i]
BY DEF ToSet

(* What a price adds.                                                       *)
LEMMA PriceAdds ==
  ASSUME NEW n, NEW plan, Price(n, plan)
  PROVE  Adds(priced, priced', n) /\ n \in DOMAIN priced'
         /\ priced'[n] = Priced(graph, n, plan, host, mode, Known)
<1>. DEFINE e == [m \in DOMAIN priced \cup {n} |->
                    IF m = n THEN Priced(graph, n, plan, host, mode, Known) ELSE priced[m]]
<1>1. priced' = e
  BY DEF Price
<1>2. DOMAIN e = DOMAIN priced \cup {n} /\ e[n] = Priced(graph, n, plan, host, mode, Known)
      /\ \A m \in DOMAIN priced \ {n} : e[m] = priced[m]
  OBVIOUS
<1>. HIDE DEF e
<1>. QED
  BY <1>1, <1>2 DEF Adds

(* The unit of an op that is pinned to the support unit is known.            *)
LEMMA PinnedKnown ==
  ASSUME NEW s \in PinnedOps
  PROVE  s \in DOMAIN Known /\ Known[s] = support
<1>1. s \in Ids(origin) /\ Pinned(s) /\ ~Fixed(s)
  BY DEF PinnedOps, Pinned, Fixed, FixedUnit
<1>. QED
  BY <1>1 DEF Known

(* Placing a block whole keeps the prices.                                   *)
LEMMA SinglePrices ==
  ASSUME IInv, PriceInv, NEW n, PlaceSingle(n)
  PROVE  PriceInv'
<1>. DEFINE B == Block(origin, n)
<1>0. Solved(n) /\ Deciding(n) /\ Decided(n)
  BY DEF PlaceSingle, Solved
<1>1. /\ NextBlock(origin, graph, todo, n, B) /\ n \in Ids(origin) /\ n \in B /\ IsFirst(origin, n)
      /\ Block(graph, n) = B
  BY <1>0, DecidingNext
<1>2. CallInv /\ planner = "tiled" /\ Traced(origin) /\ host \in Chips
  BY <1>0, CallFacts DEF IInv, SolveInv, Deciding
<1>3. PICK plan \in Candidates(n) :
        /\ plan.dim = NoDim /\ graph' = Placed(graph, n, plan.units[1], plan.resident)
        /\ Price(n, plan)
  BY DEF PlaceSingle
<1>. DEFINE u == plan.units[1] pinned == plan.resident units == CanRun(n)
            e == Priced(graph, n, plan, host, mode, Known)
<1>4. /\ Choice(origin, n, plan, units, Columns(n), Decode)
      /\ \A w \in units : w \in Chips
  BY <1>0, CandidateFacts
<1>5. u \in Chips /\ DOMAIN plan.units = {1}
  BY <1>3, <1>4 DEF Choice, WholePlan
<1>6. graph' = Placed(graph, n, u, pinned) /\ u \in Chips \cup {"mem"}
  BY <1>3, <1>5
<1>7. Adds(priced, priced', n) /\ n \in DOMAIN priced' /\ priced'[n] = e
  BY <1>3, PriceAdds
<1>8. \A w : w \in e.inputs <=> w = u /\ BoundaryIn(graph, B, w)
  <2>1. \A w : w \in ToSet(plan.units) <=> w = u
    BY <1>5, ToSetOf
  <2>2. e.inputs = {w \in ToSet(plan.units) : BoundaryIn(graph, B, w)}
    BY <1>1 DEF Priced
  <2>. QED
    BY <2>1, <2>2
<1>9. ASSUME support = host, NEW d \in B, NEW s \in PinnedOps,
             d \in Reads(origin, s), s \notin B, u \notin {host, "mem"}
      PROVE  e.handback
  <2>1. s \in Successors(Deps(graph), d)
    BY <1>1, <1>9, ReaderLeft DEF PinnedOps
  <2>2. s \in DOMAIN Known /\ Known[s] = host
    BY <1>9, PinnedKnown
  <2>3. host \notin {u, "mem"}
    BY <1>2, <1>9 DEF Chips
  <2>4. ChargesHandback(graph, B, u, mode, Known)
    <3>. DEFINE consumers == (UNION {Successors(Deps(graph), c) : c \in B}) \ B
    <3>1. s \in consumers
      BY <1>9, <2>1
    <3>2. \E x \in consumers \cap DOMAIN Known : Known[x] \notin {u, "mem"}
      BY <2>2, <2>3, <3>1
    <3>. QED
      BY <3>2 DEF ChargesHandback
  <2>5. e.handback = (plan.dim = NoDim /\ u # host /\ ChargesHandback(graph, B, u, mode, Known))
    BY <1>1 DEF Priced
  <2>. QED
    BY <1>3, <1>9, <2>4, <2>5
<1>10. \A c \in B : c \notin PinnedOps
  <2>1. ~Pinned(n)
    BY <1>0 DEF Solved
  <2>2. ASSUME NEW c \in B, c # n PROVE ~Pinned(c)
    <3>1. IsRep(origin, n)
      BY <1>1, <1>2, <2>2, BlockCats
    <3>2. origin.op[n].cat = "attention"
      BY <3>1 DEF IsRep
    <3>. QED
      BY <2>1, <3>2 DEF Pinned
  <2>. QED
    BY <2>1, <2>2 DEF PinnedOps
<1>11. PricesRight(origin, graph, todo, priced, support, host, PinnedOps)
  BY <1>2 DEF PriceInv
<1>12. B = Block(origin, n)
  OBVIOUS
<1>. HIDE DEF u, pinned, units, e, B
<1>13. Places(graph, graph', B, u, pinned)
  BY <1>1, <1>6, PlacedOps
<1>14. InputsRight(origin, graph', n, e)
  BY <1>1, <1>8, <1>13, PlacedInputs
<1>15. PricedRight(origin, graph', todo \ B, priced')
  <2>1. Untouched(graph, graph', todo) /\ PricedRight(origin, graph, todo, priced)
    BY <1>1, <1>11, <1>13, PlaceUntouched DEF PricesRight
  <2>. QED
    BY <1>7, <1>12, <1>14, <2>1, DecisionPriced
<1>16. ASSUME support = host PROVE HandsRight(origin, graph', todo \ B, priced', host, PinnedOps)
  <2>1. HandsRight(origin, graph, todo, priced, host, PinnedOps)
    BY <1>11, <1>16 DEF PricesRight
  <2>2. \A c \in B : c \in PinnedOps => u = host
    BY <1>10
  <2>3. \A d \in B : \A s \in PinnedOps : d \in Reads(origin, s) /\ s \notin B /\ u \notin {host, "mem"} =>
          n \in DOMAIN priced' /\ priced'[n].handback
    BY <1>7, <1>9, <1>16
  <2>. QED
    BY <1>1, <1>7, <1>13, <2>1, <2>2, <2>3, PlacedHands
<1>17. PricesRight(origin, graph', todo \ B, priced', support, host, PinnedOps)
  BY <1>15, <1>16 DEF PricesRight
<1>. QED
  BY <1>0, <1>12, <1>17, DecisionPrices

(* Splitting a block keeps the prices.                                       *)
LEMMA SplitPrices ==
  ASSUME IInv, PriceInv, NEW n, SplitBlock(n)
  PROVE  PriceInv'
<1>. DEFINE B == Block(origin, n)
<1>0. Solved(n) /\ Deciding(n) /\ Decided(n) /\ graph.op[n].cat \in DOMAIN LegalDims
  BY DEF SplitBlock, Solved
<1>1. /\ NextBlock(origin, graph, todo, n, B) /\ n \in Ids(origin) /\ n \in B /\ IsFirst(origin, n)
      /\ Block(graph, n) = B
      /\ graph.op[n].cat = origin.op[n].cat /\ graph.op[n].shape = origin.op[n].shape
  BY <1>0, DecidingNext
<1>2. /\ CallInv /\ planner = "tiled" /\ Traced(origin) /\ host \in Chips
      /\ SyncUs[Phase(origin)] \in Nat
  BY <1>0, CallFacts DEF IInv, SolveInv, Deciding
<1>3. PICK plan \in Candidates(n) :
        /\ plan.dim # NoDim /\ Feasible(plan, graph.op[n].shape[plan.dim])
        /\ graph' = Split(graph, n, plan, host, SyncUs[Phase(origin)])
        /\ Price(n, plan)
  BY DEF SplitBlock
<1>4. Choice(origin, n, plan, CanRun(n), Columns(n), Decode)
  BY <1>0, CandidateFacts
<1>. DEFINE cols == Columns(n) units == CanRun(n) k == Len(plan.units) s == SyncUs[Phase(origin)]
            dims == LegalDims[origin.op[n].cat]
            e == Priced(graph, n, plan, host, mode, Known)
<1>5. /\ AxisOf(origin.op[n].shape, plan.dim)
      /\ SplitPlan(plan, dims, units,
                   Keeps(origin, n, Decode) /\ Pins(plan, cols, origin.op[n].shape.N))
  BY <1>3, <1>4 DEF Choice, WholePlan
<1>6. PlanOf(plan, k) /\ DOMAIN plan.units = 1..k
  BY <1>5 DEF SplitPlan, PlanOf
<1>7. Splits(origin, n, plan, k) /\ k \in Positive
  BY <1>0, <1>1, <1>3, <1>5, <1>6 DEF Splits, PlanOf, Positive
<1>8. s \in Nat /\ graph' = Split(graph, n, plan, host, s)
  BY <1>2, <1>3
<1>9. Adds(priced, priced', n) /\ n \in DOMAIN priced' /\ priced'[n] = e
  BY <1>3, PriceAdds
<1>10. \A w : w \in e.inputs <=> (\E i \in 1..k : w = plan.units[i]) /\ BoundaryIn(graph, B, w)
  <2>1. \A w : w \in ToSet(plan.units) <=> \E i \in 1..k : w = plan.units[i]
    BY <1>6, ToSetOf
  <2>2. e.inputs = {w \in ToSet(plan.units) : BoundaryIn(graph, B, w)}
    BY <1>1 DEF Priced
  <2>. QED
    BY <2>1, <2>2
<1>11. B \cap PinnedOps = {}
  <2>1. ~Pinned(n)
    BY <1>0 DEF Solved
  <2>2. ASSUME NEW c \in B, c # n PROVE ~Pinned(c)
    <3>1. IsRep(origin, n)
      BY <1>1, <1>2, <2>2, BlockCats
    <3>2. origin.op[n].cat = "attention"
      BY <3>1 DEF IsRep
    <3>. QED
      BY <2>1, <3>2 DEF Pinned
  <2>. QED
    BY <2>1, <2>2 DEF PinnedOps
<1>12. PricesRight(origin, graph, todo, priced, support, host, PinnedOps)
  BY <1>2 DEF PriceInv
<1>13. B = Block(origin, n)
  OBVIOUS
<1>. HIDE DEF B, cols, units, k, s, dims, e
<1>14. PICK ids, merge : SplitMade(origin, graph, graph', n, B, plan, k, ids, merge, host, s)
  BY <1>1, <1>2, <1>7, <1>8, SplitMakes
<1>15. SplitStep(origin, graph, todo, n, B, plan, k, host, s, graph', ids, merge)
  BY <1>1, <1>2, <1>7, <1>8, <1>14 DEF SplitStep
<1>16. InputsRight(origin, graph', n, e)
  BY <1>10, <1>15, SplitInputs
<1>17. PricedRight(origin, graph', todo \ B, priced')
  <2>1. Untouched(graph, graph', todo) /\ PricedRight(origin, graph, todo, priced)
    BY <1>12, <1>15, SplitUntouched DEF PricesRight
  <2>. QED
    BY <1>9, <1>13, <1>16, <2>1, DecisionPriced
<1>18. ASSUME support = host PROVE HandsRight(origin, graph', todo \ B, priced', host, PinnedOps)
  <2>1. HandsRight(origin, graph, todo, priced, host, PinnedOps)
    BY <1>12, <1>18 DEF PricesRight
  <2>. QED
    BY <1>9, <1>11, <1>15, <2>1, SplitHands
<1>19. PricesRight(origin, graph', todo \ B, priced', support, host, PinnedOps)
  BY <1>17, <1>18 DEF PricesRight
<1>. QED
  BY <1>0, <1>13, <1>19, DecisionPrices

-----------------------------------------------------------------------------
(* And when it finishes.                                                    *)

(* h computes what g does, where g does.                                    *)
Follows(g, h) ==
  /\ Untouched(g, h, {}) /\ Plain(h) = Plain(g)
  /\ \A x \in Plain(g) : h.op[x].unit = g.op[x].unit

(* Then what was priced right for g is right for h.                          *)
LEMMA FollowsPrices ==
  ASSUME NEW o, NEW g, NEW h, Follows(g, h), NEW pr, NEW sup, NEW owner, NEW P,
         PricesRight(o, g, {}, pr, sup, owner, P)
  PROVE  PricesRight(o, h, {}, pr, sup, owner, P)
<1>1. Untouched(g, h, {}) /\ Plain(h) = Plain(g) /\ \A x \in Plain(g) : h.op[x].unit = g.op[x].unit
  BY DEF Follows
<1>2. PricedRight(o, h, {}, pr)
  <2>1. ASSUME NEW m \in DOMAIN pr PROVE InputsRight(o, h, m, pr[m])
    <3>. DEFINE e == pr[m]
    <3>1. InputsRight(o, g, m, e) /\ Block(o, m) \cap {} = {}
      BY DEF PricesRight, PricedRight
    <3>. HIDE DEF e
    <3>2. InputsRight(o, h, m, e)
      BY <1>1, <3>1, UntouchedInputs
    <3>. QED
      BY <3>2 DEF e
  <2>. QED
    BY <2>1 DEF PricedRight
<1>3. ASSUME sup = owner PROVE HandsRight(o, h, {}, pr, owner, P)
  <2>1. HandsRight(o, g, {}, pr, owner, P)
    BY <1>3 DEF PricesRight
  <2>2. \A i \in Real(h) : i \in Real(g) /\ g.op[i].src = h.op[i].src /\ h.op[i].unit = g.op[i].unit
    BY <1>1 DEF Untouched, Stays
  <2>. QED
    BY <1>1, <2>1, <2>2 DEF HandsRight
<1>. QED
  BY <1>2, <1>3 DEF PricesRight

(* One step of the tail after the other.                                    *)
LEMMA FollowsTwice ==
  ASSUME NEW g, NEW c, NEW h, Follows(g, c), Follows(c, h)
  PROVE  Follows(g, h)
<1>1. ASSUME NEW i \in Real(g) PROVE Stays(g, h, i)
  <2>1. Stays(g, c, i)
    BY DEF Follows, Untouched
  <2>2. Stays(c, h, i)
    BY <2>1 DEF Follows, Untouched, Stays
  <2>. QED
    BY <2>1, <2>2 DEF Stays
<1>2. ASSUME NEW i \in Real(h) PROVE i \in Real(g) /\ g.op[i].src = h.op[i].src
  BY DEF Follows, Untouched
<1>3. Plain(h) = Plain(g) /\ \A x \in Plain(g) : h.op[x].unit = g.op[x].unit
  BY DEF Follows
<1>. QED
  BY <1>1, <1>2, <1>3 DEF Follows, Untouched

(* What an op reads is in the graph.                                        *)
LEMMA ValuesPlain ==
  ASSUME NEW o, NEW g, Wired(o, g), NEW i \in Plain(g)
  PROVE  Values(g, i) \subseteq Plain(g)
BY DEF Wired, PartsOf, Wanted

(* Charges move nothing.                                                    *)
LEMMA ChargesFollow ==
  ASSUME NEW o, NEW g, GraphInv(o, g), NEW h, SameUnits(g, h)
  PROVE  Follows(g, h)
<1>1. Finite(g) /\ Wired(o, g) /\ SameOps(g, h)
  BY DEF GraphInv, Listed, SameUnits
<1>2. /\ Plain(h) = Plain(g) /\ Real(h) = Real(g)
      /\ \A i \in Ids(g) : Values(h, i) = Values(g, i)
  BY <1>1, SameReads
<1>3. \A i \in Ids(g) : h.op[i].unit = g.op[i].unit /\ h.op[i].src = g.op[i].src
  BY <1>1 DEF SameUnits, SameOps, Alike
<1>4. Real(g) \subseteq Plain(g) /\ Plain(g) \subseteq Ids(g)
  BY DEF Real, Plain
<1>5. \A i \in Real(g) : Values(g, i) \subseteq Plain(g)
  BY <1>1, <1>4, ValuesPlain
<1>6. ASSUME NEW i \in Real(g) PROVE Stays(g, h, i)
  BY <1>2, <1>3, <1>4, <1>5 DEF Stays
<1>7. Untouched(g, h, {})
  BY <1>2, <1>3, <1>4, <1>6 DEF Untouched
<1>. QED
  BY <1>2, <1>3, <1>4, <1>7 DEF Follows

(* Nor do converts.                                                         *)
LEMMA ConvertsFollow ==
  ASSUME NEW g, Listed(g), NEW h, ConvView(g, h)
  PROVE  Follows(g, h)
<1>1. /\ Plain(g) = Ids(g) /\ Plain(h) = Ids(g) /\ Real(h) = Real(g) /\ Finite(g)
      /\ \A x \in Ids(g) : /\ h.op[x].unit = g.op[x].unit /\ h.op[x].src = g.op[x].src
                           /\ Values(h, x) = g.op[x].deps
  BY DEF ConvView, Relinked, Listed
<1>2. \A x \in Ids(g) : Values(g, x) = g.op[x].deps /\ g.op[x].deps \subseteq Ids(g)
  BY <1>1, NoConverts DEF Finite
<1>3. Real(g) \subseteq Ids(g)
  BY DEF Real
<1>4. ASSUME NEW i \in Real(g) PROVE Stays(g, h, i)
  BY <1>1, <1>2, <1>3 DEF Stays
<1>5. Untouched(g, h, {})
  BY <1>1, <1>3, <1>4 DEF Untouched
<1>. QED
  BY <1>1, <1>5 DEF Follows

(* _finish leaves the ops where they are.                                   *)
LEMMA FinishFollows ==
  ASSUME NEW o, NEW g, GraphInv(o, g), Plain(g) = Ids(g) \/ Exact(g),
         NEW s \in Nat, NEW place, NEW h, h = Finished(g, place, s)
  PROVE  Follows(g, h)
<1>1. Listed(g)
  BY DEF GraphInv
<1>2. CASE Exact(g)
  <2>1. SameUnits(g, h)
    BY <1>2, FinishedAgain
  <2>. HIDE DEF Finished
  <2>. QED
    BY <2>1, ChargesFollow
<1>3. CASE Plain(g) = Ids(g)
  <2>. DEFINE c == Converted(g, place)
  <2>1. PICK ids : Converts(g, c, ids)
    BY <1>1, ConvertedForm
  <2>2. h = WithSync(WithFusedChains(WithDomains(WithUnitBytes(c))), s)
    BY DEF Finished
  <2>. HIDE DEF c
  <2>3. GraphInv(o, c)
    BY <1>3, <2>1, ConvertsKeep
  <2>4. UnitsCarry(o, g, c)
    BY <1>3, <2>1, ConvertsCarry
  <2>5. NodeGraph(c) /\ Finite(c) /\ Ids(c) \subseteq Nat /\ Typed(c)
    BY <2>3, <2>4 DEF GraphInv, Listed, Positive, UnitsCarry
  <2>6. SameUnits(c, h)
    BY <2>2, <2>5, TailPasses
  <2>7. Follows(c, h)
    BY <2>3, <2>6, ChargesFollow
  <2>8. Follows(g, c)
    BY <1>1, <1>3, <2>1, ConvertViews, ConvertsFollow
  <2>. QED
    BY <2>7, <2>8, FollowsTwice
<1>. QED
  BY <1>2, <1>3

(* A step of the tail keeps the prices.                                      *)
LEMMA TailPrices ==
  ASSUME PriceInv, planner = "tiled", todo = {}, Follows(graph, graph'),
         UNCHANGED <<call, todo, priced, planner>>
  PROVE  PriceInv'
<1>1. PricesRight(origin, graph, {}, priced, support, host, PinnedOps)
  BY DEF PriceInv
<1>2. PricesRight(origin, graph', {}, priced, support, host, PinnedOps)
  BY <1>1, FollowsPrices
<1>3. PinnedOps' = PinnedOps
  BY DEF PinnedOps, Pinned, call
<1>. QED
  BY <1>2, <1>3 DEF PriceInv, call

(* The tail of the solver keeps the prices.                                  *)
LEMMA FinishPrices ==
  ASSUME IInv, PriceInv, Finish
  PROVE  PriceInv'
<1>1. /\ CallInv /\ Solving(origin, graph, {}, allot, host) /\ planner = "tiled"
      /\ UNCHANGED <<call, todo, priced, planner>> /\ todo = {}
  BY DEF IInv, SolveInv, Finish
<1>. DEFINE s == SyncUs[Phase(origin)]
<1>2. s \in Nat /\ graph' = Finished(graph, placement, s)
  BY <1>1, CallFacts DEF Finish
<1>. HIDE DEF s
<1>3. GraphInv(origin, graph) /\ Plain(graph) = Ids(graph)
  BY <1>1 DEF Solving, TodoInv, UnitInv
<1>4. Follows(graph, graph')
  BY <1>2, <1>3, FinishFollows
<1>. QED
  BY <1>1, <1>4, TailPrices

(* assign called again on its own plan keeps the prices.                     *)
LEMMA ReassignPrices ==
  ASSUME IInv, PriceInv, Reassign
  PROVE  PriceInv'
<1>1. /\ CallInv /\ PlanInv /\ UNCHANGED <<call, todo, priced, planner>>
  BY DEF IInv, Reassign
<1>2. CASE planner # "tiled"
  BY <1>1, <1>2 DEF PriceInv
<1>3. CASE planner = "tiled"
  <2>. DEFINE s == SyncUs[Phase(graph)]
  <2>1. s \in Nat /\ graph' = Finished(graph, placement, s)
    BY <1>1, <1>3, CallFacts DEF Reassign
  <2>. HIDE DEF s
  <2>2. todo = {} /\ GraphInv(origin, graph) /\ Exact(graph)
    BY <1>1, <1>3 DEF PlanInv, Planned, Charged
  <2>3. Follows(graph, graph')
    BY <2>1, <2>2, FinishFollows
  <2>. QED
    BY <1>1, <1>3, <2>2, <2>3, TailPrices
<1>. QED
  BY <1>2, <1>3

(* Every step keeps the prices.                                             *)
LEMMA NextPrices ==
  ASSUME IInv, PriceInv, [Next]_vars
  PROVE  PriceInv'
<1>1. CASE UNCHANGED vars
  <2>1. UNCHANGED <<origin, support, host, graph, todo, priced, planner>>
    BY <1>1 DEF vars
  <2>2. PinnedOps' = PinnedOps
    BY <2>1 DEF PinnedOps, Pinned
  <2>. QED
    BY <2>1, <2>2 DEF PriceInv
<1>2. CASE \E n \in Ids(graph) :
             PlaceFixed(n) \/ PlaceSupport(n) \/ PlaceSingle(n) \/ SplitBlock(n)
  BY <1>2, FixedPrices, SupportPrices, SinglePrices, SplitPrices
<1>3. CASE (\E u \in Units : AssignSingle(u)) \/ AssignAllCim \/ AssignCimHetero
  <2>1. planner' # "tiled"
    BY <1>3 DEF AssignSingle, AssignAllCim, AssignCimHetero, AssignedBy
  <2>. QED
    BY <2>1 DEF PriceInv
<1>4. CASE Finish
  BY <1>4, FinishPrices
<1>5. CASE Reassign
  BY <1>5, ReassignPrices
<1>. QED
  BY <1>1, <1>2, <1>3, <1>4, <1>5 DEF Next

-----------------------------------------------------------------------------
(* What the plan is charged.                                                *)

(* An op on a unit is charged a sync on its way in, its own or that of a     *)
(* convert, if and only if a value reaches it from another.                  *)
LEMMA SyncsWhereCrossed ==
  ASSUME IInv, Done, planner = "tiled", 0 \notin Range(SyncUs), NEW c \in Real(graph)
  PROVE  /\ SyncsInto(c) # {} => Crosses(graph, c)
         /\ Crosses(graph, c) /\ graph.op[c].unit # "mem" => SyncsInto(c) # {}
<1>. DEFINE g == graph
<1>1. Exact(g) /\ Finite(g) /\ Charged(g)
  BY InvGraph DEF PlanInv, Planned, GraphInv, Listed
<1>2. PICK s \in Range(SyncUs) : Synced(g, s)
  BY <1>1 DEF Charged, Tailed
<1>3. s \in Positive
  BY SyncAssumption DEF Range, Positive
<1>4. c \in Ids(g) /\ g.op[c].cat # "merge"
  BY DEF Real
<1>5. SyncsInto(c) = {x \in {c} \cup {d \in g.op[c].deps : g.op[d].cat = "convert"} : g.op[x].sync > 0}
  BY DEF SyncsInto
<1>. HIDE DEF g
<1>6. g.op[c].sync > 0 <=> \E d \in g.op[c].deps : Moves(g, d, c)
  BY <1>2, <1>3, <1>4, ChargedWhere
<1>7. ASSUME NEW k \in g.op[c].deps, g.op[k].cat = "convert"
      PROVE  /\ g.op[k].deps = {Value(g, k)}
             /\ g.op[k].unit \in {g.op[Value(g, k)].unit, g.op[c].unit}
             /\ g.op[Value(g, k)].unit # g.op[c].unit
             /\ g.op[k].sync > 0 <=> Moves(g, Value(g, k), k)
  <2>. DEFINE p == Value(g, k)
  <2>1. p = CHOOSE x \in g.op[k].deps : TRUE
    BY <1>7 DEF Value
  <2>2. k \in Ids(g)
    BY <1>1, <1>4 DEF Finite
  <2>. HIDE DEF p
  <2>3. /\ g.op[k].deps = {p}
        /\ g.op[k].unit \in {g.op[p].unit, g.op[c].unit} /\ g.op[p].unit # g.op[c].unit
    BY <1>1, <1>4, <1>7, <2>1, <2>2, ConvertMoves
  <2>4. g.op[k].sync > 0 <=> \E d \in g.op[k].deps : Moves(g, d, k)
    BY <1>2, <1>3, <1>7, <2>2, ChargedWhere
  <2>5. g.op[k].sync > 0 <=> Moves(g, p, k)
    BY <2>3, <2>4
  <2>. QED
    BY <2>3, <2>5 DEF p
<1>8. \A d \in g.op[c].deps : g.op[d].cat # "convert" => Value(g, d) = d
  BY DEF Value
<1>9. \A d \in g.op[c].deps : Value(g, d) \in Values(g, c)
  BY DEF Values
<1>10. ASSUME NEW d \in g.op[c].deps, Moves(g, d, c) PROVE Crosses(g, c)
  <2>1. g.op[Value(g, d)].unit \notin {g.op[c].unit, "mem"}
    <3>1. CASE g.op[d].cat = "convert"
      BY <1>7, <1>10, <3>1 DEF Moves
    <3>2. CASE g.op[d].cat # "convert"
      BY <1>8, <1>10, <3>2 DEF Moves
    <3>. QED
      BY <3>1, <3>2
  <2>. QED
    BY <1>9, <2>1 DEF Crosses
<1>11. ASSUME SyncsInto(c) # {} PROVE Crosses(g, c)
  <2>1. PICK x \in {c} \cup {d \in g.op[c].deps : g.op[d].cat = "convert"} : g.op[x].sync > 0
    BY <1>5, <1>11
  <2>2. CASE x = c
    BY <1>6, <1>10, <2>1, <2>2
  <2>3. CASE x \in g.op[c].deps /\ g.op[x].cat = "convert"
    <3>1. g.op[Value(g, x)].unit \notin {g.op[c].unit, "mem"}
      BY <1>7, <2>1, <2>3 DEF Moves
    <3>. QED
      BY <1>9, <2>3, <3>1 DEF Crosses
  <2>. QED
    BY <2>1, <2>2, <2>3
<1>12. ASSUME Crosses(g, c), g.op[c].unit # "mem" PROVE SyncsInto(c) # {}
  <2>1. PICK d \in g.op[c].deps : g.op[Value(g, d)].unit \notin {g.op[c].unit, "mem"}
    BY <1>12 DEF Crosses, Values
  <2>2. CASE g.op[d].cat # "convert"
    <3>1. Moves(g, d, c)
      BY <1>8, <1>12, <2>1, <2>2 DEF Moves
    <3>2. g.op[c].sync > 0
      BY <1>6, <3>1
    <3>. QED
      BY <1>5, <3>2
  <2>3. CASE g.op[d].cat = "convert"
    <3>1. CASE g.op[d].unit = g.op[Value(g, d)].unit
      <4>1. Moves(g, d, c)
        BY <1>12, <2>1, <3>1 DEF Moves
      <4>2. g.op[c].sync > 0
        BY <1>6, <4>1
      <4>. QED
        BY <1>5, <4>2
    <3>2. CASE g.op[d].unit = g.op[c].unit
      <4>1. Moves(g, Value(g, d), d)
        BY <1>12, <2>1, <3>2 DEF Moves
      <4>2. g.op[d].sync > 0
        BY <1>7, <2>3, <4>1
      <4>. QED
        BY <1>5, <2>3, <4>2
    <3>. QED
      BY <1>7, <2>3, <3>1, <3>2
  <2>. QED
    BY <2>2, <2>3
<1>. QED
  BY <1>11, <1>12 DEF g

(* A value that reaches a pinned op on the host from another unit is that of *)
(* an op outside its block, and whole.                                      *)
LEMMA FromOutside ==
  ASSUME NEW o, Traced(o), NEW g, GraphInv(o, g), NEW pr, NEW owner, MergesOn(g, owner),
         NEW P, P \subseteq Ids(o), \A s \in P : \A t \in Ids(o) : SameBlock(o, t, s) => t \in P,
         HandsRight(o, g, {}, pr, owner, P),
         NEW i \in Real(g), g.op[i].src \in P, NEW v \in Values(g, i), g.op[v].unit # owner
  PROVE  /\ v \in Ids(o) \cap Plain(g) /\ v \in Reads(o, g.op[i].src)
         /\ ~SameBlock(o, v, g.op[i].src)
<1>1. Wired(o, g) /\ Originals(o, g) /\ Made(o, g)
  BY DEF GraphInv
<1>2. i \in Plain(g) /\ g.op[i].cat # "merge" /\ i \in Ids(g)
  BY DEF Real, Plain
<1>3. v \in Wanted(o, g, i)
  BY <1>1, <1>2 DEF Wired
<1>4. /\ v \in Plain(g) /\ g.op[v].src \in Reads(o, g.op[i].src)
      /\ g.op[v].part = IF SameBlock(o, g.op[v].src, g.op[i].src) THEN g.op[i].part ELSE 0
  BY <1>3 DEF Wanted
<1>5. g.op[v].cat # "merge"
  BY <1>4 DEF MergesOn
<1>6. v \in Real(g)
  BY <1>4, <1>5 DEF Real, Plain
<1>7. /\ g.op[v].src \in Ids(o)
      /\ v \in Ids(o) => g.op[v].src = v
      /\ v \notin Ids(o) => g.op[v].part # 0
  BY <1>1, <1>4, <1>5, SourceIds
<1>8. g.op[v].src \notin P
  BY <1>6 DEF HandsRight
<1>9. ~SameBlock(o, g.op[v].src, g.op[i].src)
  BY <1>7, <1>8
<1>. QED
  BY <1>4, <1>7, <1>9

(* What is in a block with an op of the support unit is one itself.          *)
LEMMA PinnedBlocks ==
  ASSUME Traced(origin), NEW s \in PinnedOps, NEW t \in Ids(origin), SameBlock(origin, t, s)
  PROVE  t \in PinnedOps
<1>1. s \in Ids(origin) /\ Pinned(s)
  BY DEF PinnedOps
<1>2. PICK r \in Ids(origin) : t \in Block(origin, r) /\ s \in Block(origin, r)
  BY DEF SameBlock
<1>3. CASE ~IsRep(origin, r)
  BY <1>1, <1>2, <1>3, LoneBlocks
<1>4. CASE IsRep(origin, r)
  <2>1. origin.op[t].cat \in {"attention", "elementwise"}
    <3>1. origin.op[r].cat = "attention"
      BY <1>4 DEF IsRep
    <3>2. CASE t = r
      BY <3>1, <3>2
    <3>3. CASE t # r
      <4>1. TracedOp(origin, r) /\ TracedOp(origin, t)
        BY <1>2, TracedOps
      <4>2. origin.op[t].shape = origin.op[r].shape
        BY <1>2, BlockMembers
      <4>3. origin.op[r].shape \in HeadShapes
        BY <3>1, <4>1 DEF TracedOp, ShapesOf
      <4>4. origin.op[t].shape \notin MatmulShapes /\ origin.op[t].shape \notin RowShapes
        BY <4>2, <4>3 DEF HeadShapes, MatmulShapes, RowShapes
      <4>. QED
        BY <4>1, <4>4 DEF TracedOp, ShapesOf
    <3>. QED
      BY <3>2, <3>3
  <2>. QED
    BY <1>1, <2>1 DEF PinnedOps, Pinned
<1>. QED
  BY <1>3, <1>4

(* The prices of a plan are its charges.                                     *)
LEMMA PricesHold ==
  ASSUME IInv, PriceInv
  PROVE  PricedWhereCharged
<1>. DEFINE g == graph
<1>1. SUFFICES ASSUME Done, planner = "tiled", 0 \notin Range(SyncUs)
               PROVE  /\ \A n \in DOMAIN priced : \A u \in Units :
                           u \in priced[n].inputs <=> \E i \in PartsOn(n, u) : SyncsInto(i) # {}
                      /\ support = host =>
                           \A i \in Real(graph) :
                             Pinned(graph.op[i].src) /\ SyncsInto(i) # {} =>
                               \E n \in DOMAIN priced :
                                 /\ priced[n].handback
                                 /\ Block(origin, n) \cap origin.op[graph.op[i].src].deps # {}
  BY DEF PricedWhereCharged
<1>2. /\ GraphInv(origin, graph) /\ Traced(origin) /\ CallInv /\ todo = {}
      /\ Planned(origin, graph, allot, host, planner)
  BY <1>1, InvGraph DEF PlanInv
<1>3. PricedRight(origin, graph, {}, priced)
      /\ (support = host => HandsRight(origin, graph, {}, priced, host, PinnedOps))
  BY <1>1, <1>2 DEF PriceInv, PricesRight
<1>4. MergesOn(graph, host)
  BY <1>1, <1>2 DEF Planned
<1>5. \A i \in Real(graph) : /\ SyncsInto(i) # {} => Crosses(graph, i)
                             /\ Crosses(graph, i) /\ graph.op[i].unit # "mem" => SyncsInto(i) # {}
  BY <1>1, SyncsWhereCrossed
<1>6. ASSUME NEW n \in DOMAIN priced, NEW u \in Units
      PROVE  u \in priced[n].inputs <=> \E i \in PartsOn(n, u) : SyncsInto(i) # {}
  <2>1. PartsOn(n, u) = BlockOn(origin, graph, n, u)
    BY DEF PartsOn, BlockOn
  <2>2. u \in priced[n].inputs <=> \E i \in BlockOn(origin, graph, n, u) : Crosses(graph, i)
    BY <1>3 DEF PricedRight, InputsRight
  <2>3. \A i \in BlockOn(origin, graph, n, u) : i \in Real(graph) /\ graph.op[i].unit # "mem"
    BY UnitsAssumption DEF BlockOn
  <2>. QED
    BY <1>5, <2>1, <2>2, <2>3
<1>7. ASSUME support = host, NEW i \in Real(graph), Pinned(graph.op[i].src), SyncsInto(i) # {}
      PROVE  \E n \in DOMAIN priced :
               /\ priced[n].handback
               /\ Block(origin, n) \cap origin.op[graph.op[i].src].deps # {}
  <2>. DEFINE s == graph.op[i].src
  <2>1. i \in Plain(graph) /\ Originals(origin, graph) /\ Made(origin, graph)
    BY <1>2 DEF Real, Plain, GraphInv
  <2>2. s \in Ids(origin) /\ s \in PinnedOps /\ Pinned(s)
    BY <1>7, <2>1, SourceIds DEF PinnedOps
  <2>3. HandsRight(origin, graph, {}, priced, host, PinnedOps)
    BY <1>3, <1>7
  <2>4. graph.op[i].unit = host
    BY <2>2, <2>3 DEF HandsRight
  <2>5. PICK v \in Values(graph, i) : graph.op[v].unit \notin {host, "mem"}
    BY <1>5, <1>7, <2>4 DEF Crosses
  <2>6. \A x \in PinnedOps : \A t \in Ids(origin) : SameBlock(origin, t, x) => t \in PinnedOps
    BY <1>2, PinnedBlocks
  <2>7. PinnedOps \subseteq Ids(origin)
    BY DEF PinnedOps
  <2>8. /\ v \in Ids(origin) \cap Plain(graph) /\ v \in Reads(origin, s) /\ ~SameBlock(origin, v, s)
    BY <1>2, <1>4, <2>2, <2>3, <2>5, <2>6, <2>7, FromOutside
  <2>9. PICK n \in DOMAIN priced : priced[n].handback /\ v \in Block(origin, n)
    BY <2>2, <2>3, <2>5, <2>8 DEF HandsRight
  <2>10. v \in origin.op[s].deps
    BY <2>8 DEF Reads
  <2>. QED
    BY <2>9, <2>10
<1>. QED
  BY <1>6, <1>7

(* What the solver priced for a block is what the finished plan is charged:  *)
(* an input sync per unit where a value crosses, whatever is split and       *)
(* converted around the block after its decision, and a hand-back behind     *)
(* every sync on an op that is pinned to the host.                          *)
THEOREM PlanPrices == Spec => []PricedWhereCharged
<1>1. Init => IInv /\ PriceInv
  BY InitInv, InitPrices
<1>2. (IInv /\ PriceInv) /\ [Next]_vars => (IInv /\ PriceInv)'
  BY NextInv, NextPrices
<1>3. IInv /\ PriceInv => PricedWhereCharged
  BY PricesHold
<1>. QED
  BY <1>1, <1>2, <1>3, PTL DEF Spec

=============================================================================
