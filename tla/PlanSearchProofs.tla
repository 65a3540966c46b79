------------------------ MODULE PlanSearchProofs ------------------------
(***************************************************************************)
(* The plan TiledHeteroScheduler.assign returns is the best it has timed,    *)
(* for any units, times and tolerance: every time the engine ever answered   *)
(* is matched, within the tolerance, by a candidate still in the list.       *)
(* And the CIM budget it allots is kept, offered as granted, and given to    *)
(* the densest first: by induction over the requests served, as a set, with  *)
(* the lemmas on sums that SharedBandwidthTheorems has.                      *)
(***************************************************************************)
EXTENDS PlanSearch, SharedBandwidthTheorems, SequenceTheorems

AllSources == {"solver", "single"} \X ToSet(Units)
Allotments == {<<>>} \cup {Allocate(r) : r \in Requests}
Passes == {"greedy", "deferred", "neighbours", "none"}
PlanSet == [source : AllSources, pass : Passes, us : Nat, est : Nat, alloc : Allotments]

(* How many candidates a call finds, and where the i-th comes from.          *)
Total == IF host = "auto" THEN 2 * Len(Units) ELSE 1

SourceOf(i) ==
  IF i <= Len(Tried) THEN <<"solver", Tried[i]>> ELSE <<"single", Units[i - Len(Units)]>>

TypeInv ==
  /\ host \in ToSet(Units) \cup {"auto"}
  /\ refine \in BOOLEAN /\ refined \in BOOLEAN
  /\ cands \in Seq(PlanSet) /\ Len(cands) <= Total
  /\ timed \in SUBSET Nat

(* Each candidate has its own source and is listed under its time.           *)
ListInv ==
  \A i \in DOMAIN cands :
    /\ cands[i].source = SourceOf(i)
    /\ host = "auto" => /\ cands[i].source \in DOMAIN candidates
                        /\ candidates[cands[i].source] = cands[i].us

MatchInv == \A t \in timed : \E i \in DOMAIN cands : cands[i].us <= t + Eps

ReportInv ==
  reported # NoPlan => /\ Solved /\ (host = "auto" => Len(cands) = 2 * Len(Units))
                       /\ ReportedIsBest

SearchInv == TypeInv /\ ListInv /\ MatchInv /\ ReportInv

-----------------------------------------------------------------------------
(* The unit list holds every unit once.                                      *)
LEMMA UnitsFacts ==
  /\ Units \in Seq(STRING) /\ Len(Units) \in Nat /\ DOMAIN Units = 1..Len(Units)
  /\ \A i \in 1..Len(Units) : Units[i] \in ToSet(Units)
  /\ \A i, j \in 1..Len(Units) : Units[i] = Units[j] => i = j
  /\ "auto" \notin ToSet(Units)
BY UnitsAssumption DEF ToSet, IsInjective

(* Plans of different sources differ.                                        *)
LEMMA SourcesDiffer ==
  ASSUME TypeInv, NEW i \in 1..Total, NEW j \in 1..Total, SourceOf(i) = SourceOf(j)
  PROVE  i = j
<1>1. CASE host = "auto"
  <2>1. Tried = Units /\ Total = 2 * Len(Units)
    BY <1>1 DEF Tried, Total
  <2>2. CASE i <= Len(Units) /\ j <= Len(Units)
    BY <2>1, <2>2, UnitsFacts DEF SourceOf
  <2>3. CASE i > Len(Units) /\ j > Len(Units)
    <3>1. i - Len(Units) \in 1..Len(Units) /\ j - Len(Units) \in 1..Len(Units)
      BY <2>1, <2>3, UnitsFacts
    <3>2. Units[i - Len(Units)] = Units[j - Len(Units)]
      BY <2>1, <2>3, UnitsFacts DEF SourceOf
    <3>3. i - Len(Units) = j - Len(Units)
      BY <3>1, <3>2, UnitsFacts
    <3>. QED
      BY <2>1, <3>3, UnitsFacts
  <2>4. ~(i <= Len(Units) /\ j > Len(Units)) /\ ~(i > Len(Units) /\ j <= Len(Units))
    BY <2>1, UnitsFacts DEF SourceOf
  <2>. QED
    BY <2>1, <2>2, <2>3, <2>4, UnitsFacts
<1>2. CASE host # "auto"
  BY <1>2 DEF Total
<1>. QED
  BY <1>1, <1>2

(* The nth source is of a known unit.                                        *)
LEMMA SourceKnown ==
  ASSUME TypeInv, NEW i \in 1..Total
  PROVE  SourceOf(i) \in AllSources
<1>1. CASE host = "auto"
  <2>1. Tried = Units /\ Total = 2 * Len(Units)
    BY <1>1 DEF Tried, Total
  <2>2. CASE i <= Len(Units)
    BY <2>1, <2>2, UnitsFacts DEF SourceOf, AllSources
  <2>3. CASE i > Len(Units)
    <3>1. i - Len(Units) \in 1..Len(Units)
      BY <2>1, <2>3, UnitsFacts
    <3>. QED
      BY <2>1, <2>3, <3>1, UnitsFacts DEF SourceOf, AllSources
  <2>. QED
    BY <2>1, <2>2, <2>3, UnitsFacts
<1>2. CASE host # "auto"
  <2>1. Tried = <<host>> /\ i = 1 /\ host \in ToSet(Units)
    BY <1>2 DEF Tried, Total, TypeInv
  <2>. QED
    BY <2>1 DEF SourceOf, AllSources
<1>. QED
  BY <1>1, <1>2

(* How many candidates have been tried.                                      *)
LEMMA TriedLen ==
  ASSUME TypeInv
  PROVE  /\ Len(Tried) \in Nat /\ Len(Tried) <= Total /\ Total \in Nat
         /\ host = "auto" => Len(Tried) = Len(Units)
BY UnitsFacts DEF Tried, Total, TypeInv

(* Adding a candidate that matches what was timed for it.                    *)
LEMMA FoundKeeps ==
  ASSUME SearchInv, NEW p \in PlanSet, NEW T \in SUBSET Nat,
         Found(p), timed' = timed \cup T, \A t \in T : p.us <= t + Eps,
         Len(cands) < Total, p.source = SourceOf(Len(cands) + 1), reported = NoPlan
  PROVE  SearchInv'
<1>1. /\ cands \in Seq(PlanSet) /\ Len(cands) \in Nat /\ Eps \in Nat
      /\ cands' = Append(cands, p) /\ reported' = NoPlan
      /\ host' = host /\ refine' = refine /\ refined' = refined
  BY TimesAssumption DEF SearchInv, TypeInv, Found, call
<1>2. /\ cands' \in Seq(PlanSet) /\ Len(cands') = Len(cands) + 1
      /\ DOMAIN cands = 1..Len(cands) /\ DOMAIN cands' = 1..(Len(cands) + 1)
      /\ \A i \in 1..Len(cands) : cands'[i] = cands[i]
      /\ cands'[Len(cands) + 1] = p
  BY <1>1
<1>3. Total' = Total /\ Total \in Nat
  BY <1>1, TriedLen DEF Total, SearchInv
<1>4. \A i : SourceOf(i)' = SourceOf(i)
  BY <1>1 DEF SourceOf, Tried
<1>5. TypeInv'
  BY <1>1, <1>2, <1>3 DEF SearchInv, TypeInv
<1>6. ListInv'
  <2>. SUFFICES ASSUME NEW i \in 1..(Len(cands) + 1)
                PROVE  /\ cands'[i].source = SourceOf(i)
                       /\ host = "auto" => /\ cands'[i].source \in DOMAIN candidates'
                                           /\ candidates'[cands'[i].source] = cands'[i].us
    BY <1>1, <1>2, <1>4 DEF ListInv
  <2>1. host = "auto" =>
          candidates' = [s \in DOMAIN candidates \cup {p.source} |->
                           IF s = p.source THEN p.us ELSE candidates[s]]
    BY DEF Found, Listed
  <2>2. CASE i = Len(cands) + 1
    BY <1>2, <2>1, <2>2
  <2>3. CASE i \in 1..Len(cands)
    <3>1. /\ cands'[i] = cands[i] /\ cands[i].source = SourceOf(i)
          /\ host = "auto" => /\ cands[i].source \in DOMAIN candidates
                              /\ candidates[cands[i].source] = cands[i].us
      BY <1>2, <2>3 DEF SearchInv, ListInv
    <3>2. i \in 1..Total /\ Len(cands) + 1 \in 1..Total /\ i # Len(cands) + 1
      BY <1>1, <1>3, <2>3
    <3>3. SourceOf(i) # p.source
      BY <3>2, SourcesDiffer DEF SearchInv
    <3>. QED
      BY <2>1, <3>1, <3>3
  <2>. QED
    BY <1>1, <2>2, <2>3
<1>7. MatchInv'
  <2>. SUFFICES ASSUME NEW t \in timed \cup T
                PROVE  \E i \in 1..(Len(cands) + 1) : cands'[i].us <= t + Eps
    BY <1>1, <1>2 DEF MatchInv
  <2>1. CASE t \in T
    BY <1>1, <1>2, <2>1
  <2>2. CASE t \in timed
    <3>1. PICK i \in 1..Len(cands) : cands[i].us <= t + Eps
      BY <1>2, <2>2 DEF SearchInv, MatchInv
    <3>. QED
      BY <1>1, <1>2, <3>1
  <2>. QED
    BY <2>1, <2>2
<1>8. ReportInv'
  BY <1>1 DEF ReportInv
<1>. QED
  BY <1>5, <1>6, <1>7, <1>8 DEF SearchInv

-----------------------------------------------------------------------------
(* The search starts in the invariant.                                       *)
LEMMA InitSearch == Init => SearchInv
<1>. SUFFICES ASSUME Init PROVE SearchInv
  OBVIOUS
<1>1. cands = <<>> /\ Len(cands) = 0 /\ DOMAIN cands = {} /\ timed = {} /\ reported = NoPlan
  BY DEF Init
<1>2. 0 <= Total
  BY UnitsFacts DEF Total
<1>3. TypeInv
  <2>1. cands \in Seq(PlanSet)
    BY <1>1
  <2>2. refine \in BOOLEAN /\ refined \in BOOLEAN
    BY DEF Init
  <2>. QED
    BY <1>1, <1>2, <2>1, <2>2 DEF Init, TypeInv
<1>4. ListInv /\ MatchInv /\ ReportInv
  BY <1>1 DEF ListInv, MatchInv, ReportInv
<1>. QED
  BY <1>3, <1>4 DEF SearchInv

(* While a host is left to try nothing has been reported.                    *)
LEMMA SolvingFacts ==
  ASSUME SearchInv, Solving
  PROVE  /\ reported = NoPlan /\ Len(cands) \in Nat /\ Len(cands) < Total
         /\ SolverSource = SourceOf(Len(cands) + 1)
         /\ SolverSource \in AllSources
<1>1. Len(cands) \in Nat /\ Len(cands) < Len(Tried) /\ TypeInv
  BY DEF SearchInv, TypeInv, Solving
<1>2. Len(Tried) \in Nat /\ Len(Tried) <= Total /\ Total \in Nat
  BY <1>1, TriedLen
<1>3. SolverSource = SourceOf(Len(cands) + 1)
  BY <1>1, <1>2 DEF SolverSource, SourceOf
<1>4. Len(cands) + 1 \in 1..Total
  BY <1>1, <1>2
<1>5. reported = NoPlan
  BY <1>1, <1>2 DEF SearchInv, ReportInv, Solved
<1>. QED
  BY <1>1, <1>2, <1>3, <1>4, <1>5, SourceKnown

(* What is kept of two plans is one of them, no slower than either up to Eps. *)
LEMMA KeptFacts ==
  ASSUME NEW p \in PlanSet, NEW q \in PlanSet
  PROVE  /\ Kept(p, q) \in {p, q}
         /\ Kept(p, q).us <= p.us /\ Kept(p, q).us <= q.us + Eps
BY TimesAssumption DEF Kept, PlanSet

(* The allotments a request can be given.                                    *)
LEMMA AllotmentsFacts == <<>> \in Allotments /\ \A r \in Requests : Allocate(r) \in Allotments
BY DEF Allotments

(* The fields of a plan.                                                     *)
LEMMA PlanFields ==
  ASSUME NEW source \in AllSources, NEW pass \in Passes,
         NEW us \in Nat, NEW est \in Nat,
         NEW alloc \in Allotments
  PROVE  /\ Plan(source, pass, us, est, alloc) \in PlanSet
         /\ Plan(source, pass, us, est, alloc).us = us
         /\ Plan(source, pass, us, est, alloc).source = source
BY DEF PlanSet, Plan

(* The fields of a candidate.                                                *)
LEMMA CandFacts ==
  ASSUME TypeInv, NEW i \in DOMAIN cands
  PROVE  /\ cands[i] \in PlanSet /\ cands[i].us \in Nat
         /\ cands[i].source \in AllSources /\ cands[i].alloc \in Allotments
<1>1. cands[i] \in PlanSet
  BY DEF TypeInv
<1>. QED
  BY <1>1 DEF PlanSet

(* The host solve keeps the invariant ...                                    *)
LEMMA SolveHostKeeps == SearchInv /\ SolveHost => SearchInv'
<1>. SUFFICES ASSUME SearchInv, SolveHost PROVE SearchInv'
  OBVIOUS
<1>1. PICK us \in Times, est \in Ests :
        timed' = timed \cup {us} /\ Found(Plan(SolverSource, "greedy", us, est, <<>>))
  BY DEF SolveHost
<1>. DEFINE p == Plan(SolverSource, "greedy", us, est, <<>>)
<1>2. p \in PlanSet /\ p.us = us /\ us \in Nat /\ p.source = SolverSource
  <2>1. us \in Nat /\ est \in Nat
    BY TimesAssumption
  <2>2. SolverSource \in AllSources
    BY SolvingFacts DEF SolveHost
  <2>3. <<>> \in Allotments
    BY AllotmentsFacts
  <2>4. "greedy" \in Passes
    BY DEF Passes
  <2>. QED
    BY <2>1, <2>2, <2>3, <2>4, PlanFields
<1>3. \A t \in {us} : p.us <= t + Eps
  BY <1>2, TimesAssumption
<1>4. Found(p) /\ timed' = timed \cup {us} /\ {us} \in SUBSET Nat
  BY <1>1, <1>2
<1>. HIDE DEF p
<1>. QED
  BY <1>2, <1>3, <1>4, SolvingFacts, FoundKeeps DEF SolveHost

(* ... so does the one within the budget ...                                 *)
LEMMA SolveHostBudgetedKeeps == SearchInv /\ SolveHostBudgeted => SearchInv'
<1>. SUFFICES ASSUME SearchInv, SolveHostBudgeted PROVE SearchInv'
  OBVIOUS
<1>. DEFINE plan(us, est, alloc) == Plan(SolverSource, "greedy", us, est, alloc)
<1>1. PICK asked \in Requests, us \in Times, est \in Ests :
        \/ timed' = timed \cup {us} /\ Found(plan(us, est, <<>>))
        \/ \E us2 \in Times, est2 \in Ests :
             /\ timed' = timed \cup {us, us2}
             /\ Found(Kept(plan(us, est, <<>>), plan(us2, est2, Allocate(asked))))
  BY DEF SolveHostBudgeted
<1>2. Solving /\ us \in Nat /\ est \in Nat /\ Eps \in Nat
  BY TimesAssumption DEF SolveHostBudgeted
<1>3. \A t, e \in Nat, a \in Allotments :
        /\ plan(t, e, a) \in PlanSet
        /\ plan(t, e, a).us = t /\ plan(t, e, a).source = SolverSource
  BY <1>2, SolvingFacts, PlanFields, AllotmentsFacts DEF Passes
<1>. HIDE DEF plan
<1>4. CASE timed' = timed \cup {us} /\ Found(plan(us, est, <<>>))
  <2>1. /\ plan(us, est, <<>>) \in PlanSet
        /\ plan(us, est, <<>>).us = us /\ plan(us, est, <<>>).source = SolverSource
    BY <1>2, <1>3, AllotmentsFacts
  <2>2. \A t \in {us} : plan(us, est, <<>>).us <= t + Eps
    BY <1>2, <2>1
  <2>. DEFINE p == plan(us, est, <<>>)
  <2>3. /\ Found(p) /\ timed' = timed \cup {us} /\ {us} \in SUBSET Nat
        /\ p \in PlanSet /\ p.source = SolverSource /\ \A t \in {us} : p.us <= t + Eps
    BY <1>2, <1>4, <2>1, <2>2
  <2>. HIDE DEF p
  <2>. QED
    BY <1>2, <2>3, SolvingFacts, FoundKeeps
<1>5. CASE \E us2 \in Times, est2 \in Ests :
             /\ timed' = timed \cup {us, us2}
             /\ Found(Kept(plan(us, est, <<>>), plan(us2, est2, Allocate(asked))))
  <2>1. PICK us2 \in Times, est2 \in Ests :
             /\ timed' = timed \cup {us, us2}
             /\ Found(Kept(plan(us, est, <<>>), plan(us2, est2, Allocate(asked))))
    BY <1>5
  <2>. DEFINE plain == plan(us, est, <<>>)
              pinned == plan(us2, est2, Allocate(asked))
  <2>2. us2 \in Nat /\ est2 \in Nat
    BY TimesAssumption
  <2>3. /\ plain \in PlanSet /\ plain.us = us /\ plain.source = SolverSource
        /\ pinned \in PlanSet /\ pinned.us = us2 /\ pinned.source = SolverSource
    BY <1>2, <1>3, <2>2, AllotmentsFacts
  <2>6. Found(Kept(plain, pinned))
    BY <2>1
  <2>. HIDE DEF plain, pinned
  <2>4. /\ Kept(plain, pinned) \in PlanSet /\ Kept(plain, pinned).source = SolverSource
        /\ Kept(plain, pinned).us <= us /\ Kept(plain, pinned).us <= us2 + Eps
    BY <2>3, KeptFacts
  <2>5. \A t \in {us, us2} : Kept(plain, pinned).us <= t + Eps
    BY <1>2, <2>2, <2>4 DEF PlanSet
  <2>. QED
    <3>1. timed' = timed \cup {us, us2} /\ {us, us2} \in SUBSET Nat
      BY <1>2, <2>1, <2>2
    <3>. QED
      BY <1>2, <2>4, <2>5, <2>6, <3>1, SolvingFacts, FoundKeeps
<1>. QED
  BY <1>1, <1>4, <1>5

(* ... so does a single-unit plan ...                                        *)
LEMMA AddSingleKeeps == SearchInv /\ AddSingle => SearchInv'
<1>. SUFFICES ASSUME SearchInv, AddSingle PROVE SearchInv'
  OBVIOUS
<1>. DEFINE source == <<"single", Units[Len(cands) - Len(Units) + 1]>>
<1>1. PICK us \in Times :
        timed' = timed \cup {us} /\ Found(Plan(source, "none", us, NoEst, <<>>))
  BY DEF AddSingle
<1>2. /\ host = "auto" /\ Len(cands) < Total /\ Len(cands) \in Nat
      /\ Tried = Units /\ Len(cands) >= Len(Units) /\ TypeInv
  BY DEF AddSingle, Total, Tried, Solved, SearchInv, TypeInv
<1>3. source = SourceOf(Len(cands) + 1)
  <2>1. Len(cands) - Len(Units) + 1 = Len(cands) + 1 - Len(Units)
    BY <1>2, UnitsFacts
  <2>2. ~(Len(cands) + 1 <= Len(Units))
    BY <1>2, UnitsFacts
  <2>. QED
    BY <1>2, <2>1, <2>2 DEF SourceOf
<1>4. Len(cands) + 1 \in 1..Total
  BY <1>2, TriedLen
<1>5. source \in AllSources
  BY <1>2, <1>3, <1>4, SourceKnown
<1>6. reported = NoPlan
  BY <1>2, UnitsFacts DEF SearchInv, ReportInv, Total
<1>. HIDE DEF source
<1>. DEFINE p == Plan(source, "none", us, NoEst, <<>>)
<1>7. p \in PlanSet /\ p.us = us /\ us \in Nat /\ p.source = source
  BY <1>5, TimesAssumption, PlanFields, AllotmentsFacts DEF Passes
<1>9. Found(p) /\ timed' = timed \cup {us} /\ {us} \in SUBSET Nat
  BY <1>1, <1>7
<1>8. \A t \in {us} : p.us <= t + Eps
  BY <1>7, TimesAssumption
<1>. HIDE DEF p
<1>. QED
  BY <1>2, <1>3, <1>6, <1>7, <1>8, <1>9, FoundKeeps

(* A pass that replaces a plan is no slower, so what the plan matched is     *)
(* still matched, and what was timed for a pass not kept is matched by it.   *)
LEMMA RefineKeeps == SearchInv /\ Refine => SearchInv'
<1>. SUFFICES ASSUME SearchInv, Refine PROVE SearchInv'
  OBVIOUS
<1>. DEFINE pass(i, name, t, e) == Plan(cands[i].source, name, t, e, cands[i].alloc)
            best(i, t, e, t2, e2) ==
              BestOfPasses(cands[i], pass(i, "deferred", t, e), pass(i, "neighbours", t2, e2))
<1>1. PICK i \in DOMAIN cands, us \in Times, us2 \in Times, est \in Ests, est2 \in Ests :
        /\ cands' = [cands EXCEPT ![i] = best(i, us, est, us2, est2)]
        /\ candidates' = Listed(cands[i].source, best(i, us, est, us2, est2).us)
        /\ timed' = timed \cup {us, us2}
  BY DEF Refine
<1>. DEFINE deferred == pass(i, "deferred", us, est)
            neighbours == pass(i, "neighbours", us2, est2)
            kept == Kept(Kept(cands[i], deferred), neighbours)
<1>2. /\ cands' = [cands EXCEPT ![i] = kept] /\ candidates' = Listed(cands[i].source, kept.us)
      /\ timed' = timed \cup {us, us2}
  BY <1>1 DEF BestOfPasses
<1>3. /\ us \in Nat /\ us2 \in Nat /\ est \in Nat /\ est2 \in Nat /\ Eps \in Nat
      /\ cands \in Seq(PlanSet) /\ Len(cands) \in Nat /\ DOMAIN cands = 1..Len(cands)
      /\ Len(cands) <= Total /\ Total \in Nat
  BY TimesAssumption, TriedLen DEF SearchInv, TypeInv
<1>4. cands[i] \in PlanSet /\ cands[i].source \in AllSources /\ cands[i].alloc \in Allotments
  BY CandFacts DEF SearchInv
<1>5. /\ deferred \in PlanSet /\ deferred.us = us /\ deferred.source = cands[i].source
      /\ neighbours \in PlanSet /\ neighbours.us = us2 /\ neighbours.source = cands[i].source
  <2>1. "deferred" \in Passes /\ "neighbours" \in Passes
    BY DEF Passes
  <2>. QED
    BY <1>3, <1>4, <2>1, PlanFields
<1>. HIDE DEF deferred, neighbours, pass, best
<1>6. /\ kept \in PlanSet /\ kept.source = cands[i].source /\ kept.us \in Nat
      /\ kept.us <= cands[i].us /\ kept.us <= us + Eps /\ kept.us <= us2 + Eps
  <2>. DEFINE k == Kept(cands[i], deferred)
  <2>1. /\ k \in PlanSet /\ k.source = cands[i].source
        /\ k.us <= cands[i].us /\ k.us <= us + Eps
    BY <1>4, <1>5, KeptFacts
  <2>. HIDE DEF k
  <2>2. /\ Kept(k, neighbours) \in PlanSet /\ Kept(k, neighbours).source = cands[i].source
        /\ Kept(k, neighbours).us <= k.us /\ Kept(k, neighbours).us <= us2 + Eps
    BY <1>5, <2>1, KeptFacts
  <2>3. Kept(k, neighbours).us \in Nat /\ k.us \in Nat /\ cands[i].us \in Nat
    BY <1>4, <2>1, <2>2 DEF PlanSet
  <2>4. kept = Kept(k, neighbours)
    BY DEF k
  <2>. HIDE DEF kept
  <2>. QED
    BY <1>3, <2>1, <2>2, <2>3, <2>4
<1>. HIDE DEF kept
<1>7. /\ cands' \in Seq(PlanSet) /\ Len(cands') = Len(cands) /\ DOMAIN cands' = DOMAIN cands
      /\ \A j \in DOMAIN cands : cands'[j] = IF j = i THEN kept ELSE cands[j]
  BY <1>2, <1>3, <1>6, ExceptSeq
<1>8. /\ host' = host /\ refine' = refine /\ refined' = TRUE /\ reported' = reported
      /\ ~refined /\ refine
  BY DEF Refine, call
<1>9. reported = NoPlan
  BY <1>8 DEF SearchInv, ReportInv, Solved
<1>10. TypeInv'
  <2>1. Total' = Total
    BY <1>8 DEF Total
  <2>2. timed' \in SUBSET Nat
    BY <1>2, <1>3 DEF SearchInv, TypeInv
  <2>. QED
    BY <1>3, <1>7, <1>8, <2>1, <2>2 DEF SearchInv, TypeInv
<1>11. ListInv'
  <2>. SUFFICES ASSUME NEW j \in DOMAIN cands
                PROVE  /\ cands'[j].source = SourceOf(j)
                       /\ host = "auto" => /\ cands'[j].source \in DOMAIN candidates'
                                           /\ candidates'[cands'[j].source] = cands'[j].us
    BY <1>7, <1>8 DEF ListInv, SourceOf, Tried
  <2>1. /\ cands[j].source = SourceOf(j) /\ cands[i].source = SourceOf(i)
        /\ host = "auto" => /\ cands[j].source \in DOMAIN candidates
                            /\ candidates[cands[j].source] = cands[j].us
    BY DEF SearchInv, ListInv
  <2>2. host = "auto" =>
          candidates' = [s \in DOMAIN candidates \cup {cands[i].source} |->
                           IF s = cands[i].source THEN kept.us ELSE candidates[s]]
    BY <1>2 DEF Listed
  <2>3. CASE j = i
    BY <1>6, <1>7, <2>1, <2>2, <2>3
  <2>4. CASE j # i
    <3>1. i \in 1..Total /\ j \in 1..Total
      BY <1>3
    <3>2. SourceOf(j) # SourceOf(i)
      BY <2>4, <3>1, SourcesDiffer DEF SearchInv
    <3>. QED
      BY <1>7, <2>1, <2>2, <2>4, <3>2
  <2>. QED
    BY <2>3, <2>4
<1>12. MatchInv'
  <2>. SUFFICES ASSUME NEW t \in timed \cup {us, us2}
                PROVE  \E j \in DOMAIN cands : cands'[j].us <= t + Eps
    BY <1>2, <1>7 DEF MatchInv
  <2>1. CASE t \in {us, us2}
    BY <1>6, <1>7, <2>1
  <2>2. CASE t \in timed
    <3>1. PICK j \in DOMAIN cands : cands[j].us <= t + Eps
      BY <2>2 DEF SearchInv, MatchInv
    <3>2. t \in Nat /\ cands[i].us \in Nat
      BY <1>4, <2>2 DEF SearchInv, TypeInv, PlanSet
    <3>3. CASE j = i
      BY <1>3, <1>6, <1>7, <3>1, <3>2, <3>3
    <3>4. CASE j # i
      BY <1>7, <3>1, <3>4
    <3>. QED
      BY <3>3, <3>4
  <2>. QED
    BY <2>1, <2>2
<1>13. ReportInv'
  BY <1>8, <1>9 DEF ReportInv
<1>. QED
  BY <1>10, <1>11, <1>12, <1>13 DEF SearchInv

(* ... and so does the report.                                               *)
LEMMA ReportKeeps == SearchInv /\ Report => SearchInv'
<1>. SUFFICES ASSUME SearchInv, Report PROVE SearchInv'
  OBVIOUS
<1>1. /\ host' = host /\ refine' = refine /\ refined' = refined /\ cands' = cands
      /\ candidates' = candidates /\ timed' = timed
      /\ Solved /\ (host = "auto" => Len(cands) = 2 * Len(Units))
  BY DEF Report, call
<1>2. PICK i \in DOMAIN cands : FirstBest(i) /\ reported' = cands[i]
  BY DEF Report, FirstBest
<1>3. \A j \in DOMAIN cands : cands[j].us \in Nat
  BY CandFacts DEF SearchInv
<1>4. \A j \in DOMAIN cands : cands[i].us <= cands[j].us
  BY <1>2, <1>3 DEF FirstBest, Preferred
<1>5. \A t \in timed : cands[i].us <= t + Eps
  <2>. SUFFICES ASSUME NEW t \in timed PROVE cands[i].us <= t + Eps
    OBVIOUS
  <2>1. PICK j \in DOMAIN cands : cands[j].us <= t + Eps
    BY DEF SearchInv, MatchInv
  <2>2. t \in Nat /\ Eps \in Nat
    BY TimesAssumption DEF SearchInv, TypeInv
  <2>. QED
    BY <1>3, <1>4, <2>1, <2>2
<1>6. host = "auto" => candidates[cands[i].source] = cands[i].us
  BY DEF SearchInv, ListInv
<1>7. TypeInv' /\ ListInv' /\ MatchInv'
  BY <1>1 DEF SearchInv, TypeInv, ListInv, MatchInv, Total, SourceOf, Tried
<1>8. ReportedIsBest'
  BY <1>1, <1>2, <1>5, <1>6 DEF ReportedIsBest
<1>9. Solved' /\ (host' = "auto" => Len(cands') = 2 * Len(Units))
  BY <1>1 DEF Solved, Tried
<1>. QED
  BY <1>7, <1>8, <1>9 DEF SearchInv, ReportInv

(* The invariant holds throughout.                                           *)
LEMMA SearchInvariant == Spec => []SearchInv
<1>1. Init => SearchInv
  BY InitSearch
<1>2. SearchInv /\ [Next]_vars => SearchInv'
  <2>1. SearchInv /\ UNCHANGED vars => SearchInv'
    BY DEF vars, SearchInv, TypeInv, ListInv, MatchInv, ReportInv, ReportedIsBest, Solved,
           Total, SourceOf, Tried
  <2>. QED
    BY <2>1, SolveHostKeeps, SolveHostBudgetedKeeps, AddSingleKeeps, RefineKeeps, ReportKeeps
    DEF Next
<1>. QED
  BY <1>1, <1>2, PTL DEF Spec

(* Whatever the units, the requests, the engine's answers and the tolerance, *)
(* no plan assign has timed beats the one it returns by more than the        *)
(* tolerance, and "auto" reports that one under its own time.                *)
THEOREM ReportedIsBestHolds == Spec => []ReportedIsBest
<1>1. SearchInv => ReportedIsBest
  BY DEF SearchInv, ReportInv, ReportedIsBest
<1>. QED
  BY <1>1, SearchInvariant, PTL

-----------------------------------------------------------------------------
(* The allocation of the CIM budget.  What rounds down to the alignment, and *)
(* what is at most the whole and either it or aligned: what cim_cols offers  *)
(* as it is.                                                                *)
Offerable(n, c) == c \in Nat /\ c <= Ops[n].N /\ (c = Ops[n].N \/ (c \div CimAlign) * CimAlign = c)

(* Rounding down to the alignment twice is rounding once.                    *)
LEMMA AlignedFacts ==
  ASSUME NEW x \in Nat
  PROVE  LET y == (x \div CimAlign) * CimAlign
         IN  y \in Nat /\ y <= x /\ x < y + CimAlign /\ (y \div CimAlign) * CimAlign = y
<1> DEFINE q == x \div CimAlign
           y == q * CimAlign
<1>1. CimAlign \in Nat /\ CimAlign > 0
  BY CimAssumption
<1>2. q \in Int /\ y <= x /\ x < y + CimAlign
  BY <1>1, DivFacts
<1>3. 0 <= q
  <2>1. 0 * CimAlign <= x
    BY <1>1
  <2>. QED
    BY <1>1, <2>1, DivGreatest
<1> HIDE DEF q
<1>4. y \in Nat
  BY <1>1, <1>2, <1>3
<1>5. y \div CimAlign = q
  <2>1. q <= y \div CimAlign
    BY <1>1, <1>2, <1>4, DivGreatest
  <2>2. (y \div CimAlign) * CimAlign <= q * CimAlign /\ y \div CimAlign \in Int
    BY <1>1, <1>4, DivFacts
  <2>3. (y \div CimAlign) * CimAlign < q * CimAlign + CimAlign
    BY <1>1, <1>2, <1>4, <2>2
  <2>4. y \div CimAlign <= q
    BY <1>1, <1>2, <2>2, <2>3, DivBelow
  <2>. QED
    BY <1>2, <2>1, <2>2, <2>4
<1>6. (y \div CimAlign) * CimAlign = y
  BY <1>5
<1>. QED
  BY <1>2, <1>4, <1>6 DEF q

(* What every request is.                                                    *)
LEMMA RequestFacts ==
  ASSUME NEW req \in Requests
  PROVE  /\ DOMAIN req \subseteq DOMAIN Ops /\ IsFiniteSet(DOMAIN req) /\ DOMAIN req \subseteq Nat
         /\ \A n \in DOMAIN req :
              /\ req[n].saving \in Int /\ req[n].K = Ops[n].K /\ req[n].K \in Nat \ {0}
              /\ req[n].cols \in Nat \ {0} /\ Offerable(n, req[n].cols)
              /\ Elems(req[n]) \in Nat /\ Elems(req[n]) > 0
<1> DEFINE cols(n) == CimColsUpToCap(Ops[n].K, Ops[n].N)
           offered == {n \in DOMAIN Ops : cols(n) > 0}
<1>1. PICK s \in [offered -> Savings] :
        req = [n \in offered |-> [saving |-> s[n], K |-> Ops[n].K, cols |-> cols(n)]]
  BY DEF Requests
<1>2. \A n \in DOMAIN Ops : cols(n) \in Nat /\ Offerable(n, cols(n))
  <2>. SUFFICES ASSUME NEW n \in DOMAIN Ops PROVE cols(n) \in Nat /\ Offerable(n, cols(n))
    OBVIOUS
  <2> DEFINE x == CimCap \div Ops[n].K
  <2>1. Ops[n].K \in Nat /\ Ops[n].K > 0 /\ Ops[n].N \in Nat /\ Ops[n].N > 0
    BY OpsAssumption
  <2>2. x \in Nat
    <3>1. 0 * Ops[n].K <= CimCap /\ CimCap \in Nat
      BY <2>1, CimAssumption
    <3>2. x \in Int /\ 0 <= x
      BY <2>1, <3>1, DivFacts, DivGreatest
    <3>. QED
      BY <3>2
  <2>3. cols(n) = IF x >= Ops[n].N THEN Ops[n].N ELSE (x \div CimAlign) * CimAlign
    BY DEF CimColsUpToCap, CimCols
  <2> HIDE DEF x, cols
  <2>. QED
    BY <2>1, <2>2, <2>3, AlignedFacts DEF Offerable
<1> HIDE DEF cols
<1>3. DOMAIN req = offered /\ offered \subseteq DOMAIN Ops
  BY <1>1
<1>4. IsFiniteSet(offered) /\ offered \subseteq Nat
  BY <1>3, OpsAssumption, FS_Subset
<1>5. ASSUME NEW n \in offered
      PROVE  /\ req[n].saving \in Int /\ req[n].K = Ops[n].K /\ req[n].K \in Nat \ {0}
             /\ req[n].cols \in Nat \ {0} /\ Offerable(n, req[n].cols)
             /\ Elems(req[n]) \in Nat /\ Elems(req[n]) > 0
  <2>1. req[n] = [saving |-> s[n], K |-> Ops[n].K, cols |-> cols(n)]
    BY <1>1
  <2>2. cols(n) \in Nat /\ cols(n) > 0 /\ Offerable(n, cols(n)) /\ s[n] \in Int
    BY <1>2, OpsAssumption
  <2>3. Ops[n].K \in Nat /\ Ops[n].K > 0
    BY OpsAssumption
  <2>4. Ops[n].K * cols(n) \in Nat /\ Ops[n].K * cols(n) > 0
    BY <2>2, <2>3
  <2>. QED
    BY <2>1, <2>2, <2>3, <2>4 DEF Elems
<1>. QED
  BY <1>3, <1>4, <1>5

-----------------------------------------------------------------------------
(* The order of service is an order.                                         *)
Worthy(req) == {n \in DOMAIN req : req[n].saving > 0 /\ Elems(req[n]) > 0}

(* A ratio compared by its cross products is compared transitively.          *)
LEMMA CrossProducts ==
  ASSUME NEW s1 \in Nat, NEW e1 \in Nat, NEW s2 \in Nat, NEW e2 \in Nat, NEW s3 \in Nat,
         NEW e3 \in Nat, e1 > 0, e2 > 0, e3 > 0,
         s1 * e2 >= s2 * e1, s2 * e3 >= s3 * e2
  PROVE  /\ s1 * e3 >= s3 * e1
         /\ s1 * e3 = s3 * e1 => s1 * e2 = s2 * e1 /\ s2 * e3 = s3 * e2
<1> DEFINE a == s1 * e2
           b == s2 * e1
           c == s2 * e3
           d == s3 * e2
           p == s1 * e3
           q == s3 * e1
<1>1. /\ a \in Nat /\ b \in Nat /\ c \in Nat /\ d \in Nat /\ p \in Nat /\ q \in Nat
      /\ a >= b /\ c >= d
  OBVIOUS
<1>2. p * e2 = a * e3 /\ b * e3 = c * e1 /\ d * e1 = q * e2
  OBVIOUS
<1> HIDE DEF a, b, c, d, p, q
<1>3. a * e3 >= b * e3 /\ (a > b => a * e3 > b * e3)
  BY <1>1
<1>4. c * e1 >= d * e1 /\ (c > d => c * e1 > d * e1)
  BY <1>1
<1>5. /\ p * e2 \in Nat /\ q * e2 \in Nat /\ a * e3 \in Nat /\ b * e3 \in Nat
      /\ c * e1 \in Nat /\ d * e1 \in Nat
  BY <1>1
<1>6. p * e2 >= q * e2 /\ (a > b \/ c > d => p * e2 > q * e2)
  BY <1>2, <1>3, <1>4, <1>5
<1>7. p < q => p * e2 < q * e2
  BY <1>1
<1>8. p >= q
  BY <1>1, <1>5, <1>6, <1>7
<1>9. p = q => a = b /\ c = d
  BY <1>1, <1>5, <1>6
<1>. QED
  BY <1>8, <1>9 DEF a, b, c, d, p, q

(* Of two one comes before the other, and what comes before a third's        *)
(* predecessor comes before it.                                              *)
LEMMA BeforeIsOrder ==
  ASSUME NEW req \in Requests, NEW a \in Worthy(req), NEW b \in Worthy(req)
  PROVE  /\ a # b => Before(req, a, b) \/ Before(req, b, a)
         /\ Before(req, a, b) =>
              req[a].saving * Elems(req[b]) >= req[b].saving * Elems(req[a])
         /\ \A c \in Worthy(req) : Before(req, a, b) /\ Before(req, b, c) => Before(req, a, c)
<1>1. \A n \in Worthy(req) : /\ n \in Nat
                            /\ req[n].saving \in Nat /\ req[n].saving > 0
                            /\ Elems(req[n]) \in Nat /\ Elems(req[n]) > 0
  BY RequestFacts DEF Worthy
<1> DEFINE worth(x, y) == req[x].saving * Elems(req[y])
<1>2. \A x, y \in Worthy(req) : worth(x, y) \in Nat
  BY <1>1
<1>3. \A x, y : Before(req, x, y) <=>
        worth(x, y) > worth(y, x) \/ (worth(x, y) = worth(y, x) /\ x < y)
  BY DEF Before
<1>4. ASSUME NEW c \in Worthy(req), worth(a, b) >= worth(b, a), worth(b, c) >= worth(c, b)
      PROVE  /\ worth(a, c) >= worth(c, a)
             /\ worth(a, c) = worth(c, a) => worth(a, b) = worth(b, a) /\ worth(b, c) = worth(c, b)
  BY <1>1, <1>4, CrossProducts
<1> HIDE DEF worth
<1>5. a # b => Before(req, a, b) \/ Before(req, b, a)
  BY <1>1, <1>2, <1>3
<1>6. Before(req, a, b) => worth(a, b) >= worth(b, a)
  BY <1>2, <1>3
<1>7. ASSUME NEW c \in Worthy(req), Before(req, a, b), Before(req, b, c)
      PROVE  Before(req, a, c)
  <2>1. worth(a, b) >= worth(b, a) /\ worth(b, c) >= worth(c, b)
    BY <1>2, <1>3, <1>7
  <2>2. /\ worth(a, c) >= worth(c, a)
        /\ worth(a, c) = worth(c, a) => worth(a, b) = worth(b, a) /\ worth(b, c) = worth(c, b)
    BY <1>4, <2>1
  <2>. QED
    BY <1>1, <1>2, <1>3, <1>7, <2>2
<1>. QED
  BY <1>5, <1>6, <1>7 DEF worth

(* The one of S that is served after all the others.                         *)
LastOf(req, S) == CHOOSE n \in S : \A m \in S \ {n} : Before(req, m, n)

(* There is one.                                                             *)
LEMMA LastIsLast ==
  ASSUME NEW req \in Requests, NEW S \in SUBSET Worthy(req), S # {}
  PROVE  LastOf(req, S) \in S /\ \A m \in S \ {LastOf(req, S)} : Before(req, m, LastOf(req, S))
<1> DEFINE F == {T \in SUBSET Worthy(req) : T = {} \/ \E n \in T : \A m \in T \ {n} : Before(req, m, n)}
<1>1. IsFiniteSet(Worthy(req))
  BY RequestFacts, FS_Subset DEF Worthy
<1>2. {} \in F
  OBVIOUS
<1>3. ASSUME NEW T \in SUBSET Worthy(req), T # {}, \A x \in T : T \ {x} \in F
      PROVE  T \in F
  <2>1. PICK x \in T : TRUE
    BY <1>3
  <2>2. CASE T \ {x} = {}
    BY <2>1, <2>2
  <2>3. CASE T \ {x} # {}
    <3>1. PICK n \in T \ {x} : \A m \in (T \ {x}) \ {n} : Before(req, m, n)
      BY <1>3, <2>1, <2>3
    <3>2. CASE Before(req, n, x)
      <4>1. \A m \in T \ {x} : Before(req, m, x)
        BY <3>1, <3>2, BeforeIsOrder
      <4>. QED
        BY <2>1, <4>1
    <3>3. CASE ~Before(req, n, x)
      <4>1. Before(req, x, n)
        BY <3>1, <3>3, BeforeIsOrder
      <4>2. \A m \in T \ {n} : Before(req, m, n)
        BY <3>1, <4>1
      <4>. QED
        BY <3>1, <4>2
    <3>. QED
      BY <3>2, <3>3
  <2>. QED
    BY <2>2, <2>3
<1>4. SUBSET Worthy(req) \subseteq F
  <2> HIDE DEF F
  <2>. QED
    BY <1>1, <1>2, <1>3, RemoveInduction
<1>5. \E n \in S : \A m \in S \ {n} : Before(req, m, n)
  BY <1>4
<1>. QED
  BY <1>5, Zenon DEF LastOf

-----------------------------------------------------------------------------
(* One service, written as Allocate writes it, and the functions that        *)
(* satisfy its recursion on a set D of sets.                                 *)
Service(after, req, S) ==
  IF S = {} THEN [grants |-> <<>>, rem |-> CimCap]
  ELSE Served(req, after[S \ {LastOf(req, S)}], LastOf(req, S))

IsServiceOn(after, req, D) == after = [S \in D |-> Service(after, req, S)]

SmallServices(req) == {n \in Nat : \E after : IsServiceOn(after, req, Small(Worthy(req), n))}

Services(req) == CHOOSE after : IsServiceOn(after, req, SUBSET Worthy(req))

(* Allocate is what the services of all leave.                               *)
LEMMA AllocateDef ==
  ASSUME NEW req
  PROVE  Allocate(req) = Services(req)[Worthy(req)].grants
BY DEF Allocate, Services, IsServiceOn, Service, LastOf, Worthy

(* There is such a function ...                                              *)
LEMMA ServicesExist ==
  ASSUME NEW req \in Requests
  PROVE  \E after : IsServiceOn(after, req, SUBSET Worthy(req))
<1> DEFINE W == Worthy(req)
<1>0. IsFiniteSet(W)
  BY RequestFacts, FS_Subset DEF Worthy
<1>1. \A S \in SUBSET W : IsFiniteSet(S) /\ Cardinality(S) \in Nat /\ (Cardinality(S) = 0 => S = {})
  BY <1>0, FS_Subset, FS_CardinalityType, FS_EmptySet
<1>2. \A S \in SUBSET W : S # {} =>
        S \ {LastOf(req, S)} \in SUBSET W /\ Cardinality(S \ {LastOf(req, S)}) = Cardinality(S) - 1
  BY <1>1, LastIsLast, FS_RemoveElement
<1> HIDE DEF W
<1>3. 0 \in SmallServices(req)
  <2> DEFINE g == [S \in Small(W, 0) |-> [grants |-> <<>>, rem |-> CimCap]]
  <2>1. \A S \in Small(W, 0) : S = {}
    BY <1>1 DEF Small
  <2>2. IsServiceOn(g, req, Small(W, 0))
    BY <2>1 DEF IsServiceOn, Service
  <2> HIDE DEF g
  <2>. QED
    BY <2>2 DEF SmallServices, W
<1>4. ASSUME NEW n \in Nat, n \in SmallServices(req) PROVE n + 1 \in SmallServices(req)
  <2>1. PICK g : IsServiceOn(g, req, Small(W, n))
    BY <1>4 DEF SmallServices, W
  <2> DEFINE h == [S \in Small(W, n + 1) |-> Service(g, req, S)]
  <2>2. \A S \in Small(W, n) : S \in Small(W, n + 1) /\ h[S] = g[S]
    <3>1. \A S \in Small(W, n) : g[S] = Service(g, req, S)
      BY <2>1, Zenon DEF IsServiceOn
    <3>2. \A S \in Small(W, n) : S \in Small(W, n + 1)
      BY <1>1 DEF Small
    <3>. QED
      BY <3>1, <3>2
  <2>3. \A S \in Small(W, n + 1) : S # {} => S \ {LastOf(req, S)} \in Small(W, n)
    BY <1>1, <1>2 DEF Small
  <2>4. \A S \in Small(W, n + 1) : h[S] = Service(h, req, S)
    <3>. SUFFICES ASSUME NEW S \in Small(W, n + 1) PROVE Service(g, req, S) = Service(h, req, S)
      OBVIOUS
    <3>1. S # {} => g[S \ {LastOf(req, S)}] = h[S \ {LastOf(req, S)}]
      BY <2>2, <2>3
    <3> HIDE DEF h
    <3>. QED
      BY <3>1, Zenon DEF Service
  <2>5. IsServiceOn(h, req, Small(W, n + 1))
    <3>1. h = [S \in Small(W, n + 1) |-> h[S]]
      OBVIOUS
    <3> HIDE DEF h
    <3>. QED
      BY <3>1, <2>4 DEF IsServiceOn
  <2> HIDE DEF h
  <2>. QED
    BY <2>5 DEF SmallServices, W
<1>5. Nat \subseteq SmallServices(req)
  BY <1>3, <1>4, NatSetInduction
<1>6. Cardinality(W) \in SmallServices(req)
  BY <1>1, <1>5
<1>7. Small(W, Cardinality(W)) = SUBSET W
  BY <1>0, <1>1, FS_Subset DEF Small
<1>. QED
  BY <1>6, <1>7 DEF SmallServices, W

(* ... and each service follows from the one before.                         *)
LEMMA ServicesRec ==
  ASSUME NEW req \in Requests, NEW S \in SUBSET Worthy(req)
  PROVE  Services(req)[S] =
           IF S = {} THEN [grants |-> <<>>, rem |-> CimCap]
           ELSE Served(req, Services(req)[S \ {LastOf(req, S)}], LastOf(req, S))
<1>1. IsServiceOn(Services(req), req, SUBSET Worthy(req))
  BY ServicesExist, Zenon DEF Services
<1>2. Services(req)[S] = Service(Services(req), req, S)
  BY <1>1, Zenon DEF IsServiceOn
<1>. QED
  BY <1>2, Zenon DEF Service

-----------------------------------------------------------------------------
(* What is granted of a request.                                             *)
LEMMA GrantFacts ==
  ASSUME NEW req \in Requests, NEW n \in DOMAIN req, NEW rem \in Nat
  PROVE  LET cols == Grant(req[n], rem)
             r == req[n]
         IN  /\ cols \in Nat /\ Offerable(n, cols)
             /\ cols * r.K \in Nat /\ cols * r.K <= rem
             /\ cols # r.cols => /\ cols < r.cols
                                 /\ (cols + CimAlign) * r.K > rem /\ r.cols * r.K > rem
             /\ cols = r.cols => Elems(r) = cols * r.K
<1> DEFINE r == req[n]
           x == rem \div r.K
           y == (x \div CimAlign) * CimAlign
           cols == Grant(r, rem)
<1>1. /\ r.K \in Nat /\ r.K > 0 /\ r.cols \in Nat /\ r.cols > 0 /\ Offerable(n, r.cols)
      /\ CimAlign \in Nat /\ CimAlign > 0
      /\ Ops[n].N \in Nat
  BY RequestFacts, CimAssumption, OpsAssumption
<1>2. Elems(r) = r.K * r.cols /\ r.K * r.cols = r.cols * r.K /\ r.K * r.cols \in Nat
  BY <1>1 DEF Elems
<1> HIDE DEF r
<1>3. x \in Int /\ x * r.K <= rem /\ rem < x * r.K + r.K /\ 0 <= x
  <2>1. 0 * r.K <= rem
    BY <1>1
  <2>. QED
    BY <1>1, <2>1, DivFacts, DivGreatest
<1> HIDE DEF x
<1>4. y \in Nat /\ y <= x /\ x < y + CimAlign /\ (y \div CimAlign) * CimAlign = y
  BY <1>3, AlignedFacts
<1> HIDE DEF y
<1>5. cols = IF Elems(r) <= rem THEN r.cols ELSE y
  BY DEF Grant, x, y
<1> HIDE DEF cols
<1>6. CASE Elems(r) <= rem
  <2>1. cols = r.cols
    BY <1>5, <1>6
  <2>2. cols * r.K \in Nat /\ cols * r.K <= rem /\ Elems(r) = cols * r.K
    BY <1>1, <1>2, <1>6, <2>1
  <2>. QED
    BY <1>1, <2>1, <2>2 DEF cols, r
<1>7. CASE Elems(r) > rem
  <2>1. cols = y
    BY <1>2, <1>5, <1>7
  <2>2. y * r.K \in Nat /\ y * r.K <= x * r.K /\ x * r.K \in Nat
    BY <1>1, <1>3, <1>4
  <2>3. y * r.K <= rem
    BY <1>3, <2>2
  <2>4. (x + 1) * r.K <= (y + CimAlign) * r.K /\ (x + 1) * r.K = x * r.K + r.K
    <3>1. x + 1 <= y + CimAlign /\ x + 1 \in Nat /\ y + CimAlign \in Nat
      BY <1>1, <1>3, <1>4
    <3>2. \A a, b \in Nat : a <= b => a * r.K <= b * r.K
      BY <1>1
    <3>3. \A a \in Int : (a + 1) * r.K = a * r.K + r.K
      BY <1>1
    <3>. QED
      BY <1>3, <3>1, <3>2, <3>3
  <2>5. (y + CimAlign) * r.K > rem
    <3>1. (y + CimAlign) * r.K \in Nat
      BY <1>1, <1>4
    <3>. QED
      BY <1>1, <1>3, <2>2, <2>4, <3>1
  <2>6. y < r.cols
    <3>. SUFFICES ASSUME r.cols <= y PROVE FALSE
      BY <1>1, <1>4
    <3>1. r.cols * r.K <= y * r.K
      BY <1>1, <1>4
    <3>. QED
      BY <1>2, <1>7, <2>2, <2>3, <3>1
  <2>7. Offerable(n, y)
    BY <1>1, <1>4, <2>6 DEF Offerable
  <2>8. r.cols * r.K > rem
    BY <1>2, <1>7
  <2>. QED
    BY <1>4, <2>1, <2>2, <2>3, <2>5, <2>6, <2>7, <2>8 DEF cols, r
<1>. QED
  BY <1>2, <1>6, <1>7

(* The lesser of two, as Min gives it.                                       *)
LEMMA MinOfTwo ==
  ASSUME NEW a \in Int, NEW b \in Int
  PROVE  Min({a, b}) = IF a <= b THEN a ELSE b
<1> DEFINE m == IF a <= b THEN a ELSE b
<1>1. m \in {a, b} /\ \A y \in {a, b} : m <= y
  OBVIOUS
<1>2. \A x \in {a, b} : (\A y \in {a, b} : x <= y) => x = m
  OBVIOUS
<1> HIDE DEF m
<1>3. Min({a, b}) \in {a, b} /\ \A y \in {a, b} : Min({a, b}) <= y
  BY <1>1, Zenon DEF Min
<1>. QED
  BY <1>2, <1>3 DEF m

-----------------------------------------------------------------------------
(* The weight elements of what is granted, what an op gets, and that it got  *)
(* all it asked for or that there is no room for more of it.                 *)
Weights(grants) == [n \in DOMAIN grants |-> Ops[n].K * grants[n]]
Got(grants, n) == IF n \in DOMAIN grants THEN grants[n] ELSE 0

Denser(req, m, n) == req[m].saving * Elems(req[n]) >= req[n].saving * Elems(req[m])

NoRoom(req, grants, n) ==
  Got(grants, n) < req[n].cols =>
    \E before \in SUBSET (DOMAIN grants \ {n}) :
      /\ \A m \in before : Denser(req, m, n)
      /\ SumOver(Weights(grants), before)
           + Min({Got(grants, n) + CimAlign, req[n].cols}) * Ops[n].K > CimCap

(* Once those in S have been served.                                         *)
ServedRight(req, S, state) ==
  /\ DOMAIN state.grants \subseteq S
  /\ \A n \in DOMAIN state.grants :
       state.grants[n] \in Nat /\ state.grants[n] > 0 /\ Offerable(n, state.grants[n])
  /\ state.rem \in Nat
  /\ state.rem + SumOver(Weights(state.grants), DOMAIN state.grants) = CimCap
  /\ \A n \in S : NoRoom(req, state.grants, n)

(* The weights granted to a set of ops are a number.                         *)
LEMMA WeightsNat ==
  ASSUME NEW req \in Requests, NEW grants, DOMAIN grants \subseteq DOMAIN req,
         \A n \in DOMAIN grants : grants[n] \in Nat, NEW T \in SUBSET DOMAIN grants
  PROVE  /\ IsFiniteSet(T) /\ \A n \in T : Weights(grants)[n] \in Nat
         /\ SumOver(Weights(grants), T) \in Nat
<1>1. IsFiniteSet(T)
  BY RequestFacts, FS_Subset
<1>2. \A n \in DOMAIN grants : Ops[n].K \in Nat
  BY RequestFacts, OpsAssumption
<1>3. \A n \in DOMAIN grants : Ops[n].K * grants[n] \in Nat
  BY <1>2
<1>4. \A n \in T : Weights(grants)[n] \in Nat
  BY <1>3 DEF Weights
<1>. QED
  BY <1>1, <1>4, SumNat

(* A service keeps it: what was granted stays granted, and the one served is *)
(* served last, after all that are denser.                                   *)
LEMMA ServiceKeeps ==
  ASSUME NEW req \in Requests, NEW S \in SUBSET Worthy(req), S # {}, NEW state,
         ServedRight(req, S \ {LastOf(req, S)}, state)
  PROVE  ServedRight(req, S, Served(req, state, LastOf(req, S)))
<1> DEFINE l == LastOf(req, S)
           old == state.grants
           cols == Grant(req[l], state.rem)
           next == Served(req, state, l)
           new == next.grants
<1>1. l \in S /\ \A m \in S \ {l} : Before(req, m, l)
  BY LastIsLast
<1> HIDE DEF l
<1>2. /\ DOMAIN old \subseteq S \ {l} /\ l \in DOMAIN req /\ S \subseteq DOMAIN req
      /\ \A n \in DOMAIN old : old[n] \in Nat /\ old[n] > 0 /\ Offerable(n, old[n])
      /\ state.rem \in Nat
      /\ state.rem + SumOver(Weights(old), DOMAIN old) = CimCap
      /\ \A n \in S \ {l} : NoRoom(req, old, n)
  BY <1>1 DEF ServedRight, Worthy, l
<1>3. /\ cols \in Nat /\ Offerable(l, cols)
      /\ cols * req[l].K \in Nat /\ cols * req[l].K <= state.rem
      /\ cols # req[l].cols => /\ cols < req[l].cols
                               /\ (cols + CimAlign) * req[l].K > state.rem
                               /\ req[l].cols * req[l].K > state.rem
  BY <1>2, GrantFacts
<1>4. req[l].K = Ops[l].K /\ Ops[l].K \in Nat /\ req[l].cols \in Nat /\ CimAlign \in Nat /\ CimCap \in Nat
  BY <1>2, RequestFacts, CimAssumption
<1>5. next = IF cols = 0 THEN state
             ELSE [grants |-> Granted(old, l, cols), rem |-> state.rem - cols * req[l].K]
  BY DEF Served
<1>6. IsFiniteSet(DOMAIN old) /\ SumOver(Weights(old), DOMAIN old) \in Nat
  BY <1>2, WeightsNat
<1> HIDE DEF cols, next
<1>7. /\ \A n \in DOMAIN old : n \in DOMAIN new /\ new[n] = old[n]
      /\ DOMAIN new = IF cols = 0 THEN DOMAIN old ELSE DOMAIN old \cup {l}
      /\ cols # 0 => new[l] = cols
      /\ next.rem = IF cols = 0 THEN state.rem ELSE state.rem - cols * req[l].K
  <2>1. CASE cols = 0
    BY <1>5, <2>1
  <2>2. CASE cols # 0
    BY <1>2, <1>5, <2>2 DEF Granted
  <2>. QED
    BY <2>1, <2>2
<1>8. /\ DOMAIN new \subseteq S /\ DOMAIN new \subseteq DOMAIN req /\ Got(new, l) = cols
      /\ \A n \in DOMAIN new : new[n] \in Nat /\ new[n] > 0 /\ Offerable(n, new[n])
      /\ \A n \in S \ {l} : Got(new, n) = Got(old, n)
  BY <1>1, <1>2, <1>3, <1>7 DEF Got
<1> HIDE DEF new
<1>9. \A T \in SUBSET DOMAIN old : SumOver(Weights(new), T) = SumOver(Weights(old), T)
  <2>. SUFFICES ASSUME NEW T \in SUBSET DOMAIN old
                PROVE  SumOver(Weights(new), T) = SumOver(Weights(old), T)
    OBVIOUS
  <2>1. IsFiniteSet(T) /\ \A n \in T : Weights(old)[n] \in Nat
    BY <1>2, WeightsNat
  <2>2. \A n \in T : Weights(new)[n] = Weights(old)[n]
    BY <1>7 DEF Weights
  <2>. QED
    BY <2>1, <2>2, SumEqual
<1>10. next.rem \in Nat /\ next.rem + SumOver(Weights(new), DOMAIN new) = CimCap
  <2>1. CASE cols = 0
    BY <1>2, <1>7, <1>9, <2>1
  <2>2. CASE cols # 0
    <3>1. IsFiniteSet(DOMAIN new) /\ \A n \in DOMAIN new : Weights(new)[n] \in Nat
      BY <1>8, WeightsNat
    <3>2. l \in DOMAIN new /\ DOMAIN new \ {l} = DOMAIN old
      BY <1>2, <1>7, <2>2
    <3>3. SumOver(Weights(new), DOMAIN new) = Weights(new)[l] + SumOver(Weights(new), DOMAIN old)
      BY <3>1, <3>2, SumRemove
    <3>4. Weights(new)[l] = Ops[l].K * cols
      BY <1>7, <2>2, <3>2 DEF Weights
    <3>5. Ops[l].K * cols = cols * req[l].K
      BY <1>3, <1>4
    <3>. QED
      BY <1>2, <1>3, <1>6, <1>7, <1>9, <2>2, <3>3, <3>4, <3>5
  <2>. QED
    BY <2>1, <2>2
<1>11. ASSUME NEW n \in S \ {l} PROVE NoRoom(req, new, n)
  <2>. SUFFICES ASSUME Got(new, n) < req[n].cols
                PROVE  \E before \in SUBSET (DOMAIN new \ {n}) :
                         /\ \A m \in before : Denser(req, m, n)
                         /\ SumOver(Weights(new), before)
                              + Min({Got(new, n) + CimAlign, req[n].cols}) * Ops[n].K > CimCap
    BY DEF NoRoom
  <2>1. PICK before \in SUBSET (DOMAIN old \ {n}) :
          /\ \A m \in before : Denser(req, m, n)
          /\ SumOver(Weights(old), before)
               + Min({Got(old, n) + CimAlign, req[n].cols}) * Ops[n].K > CimCap
    BY <1>2, <1>8, <1>11 DEF NoRoom
  <2>2. before \in SUBSET DOMAIN old /\ before \in SUBSET (DOMAIN new \ {n})
    BY <1>7
  <2>3. SumOver(Weights(new), before) = SumOver(Weights(old), before)
    BY <1>9, <2>2
  <2>. QED
    BY <1>8, <1>11, <2>1, <2>2, <2>3
<1>12. NoRoom(req, new, l)
  <2>. SUFFICES ASSUME cols < req[l].cols
                PROVE  \E before \in SUBSET (DOMAIN new \ {l}) :
                         /\ \A m \in before : Denser(req, m, l)
                         /\ SumOver(Weights(new), before)
                              + Min({cols + CimAlign, req[l].cols}) * Ops[l].K > CimCap
    BY <1>8 DEF NoRoom
  <2>1. DOMAIN old \in SUBSET (DOMAIN new \ {l})
    BY <1>2, <1>7
  <2>2. \A m \in DOMAIN old : Denser(req, m, l)
    <3>. SUFFICES ASSUME NEW m \in DOMAIN old PROVE Denser(req, m, l)
      OBVIOUS
    <3>1. Before(req, m, l) /\ m \in Worthy(req) /\ l \in Worthy(req)
      BY <1>1, <1>2
    <3>. QED
      BY <3>1, BeforeIsOrder DEF Denser
  <2>3. Min({cols + CimAlign, req[l].cols}) \in {cols + CimAlign, req[l].cols}
    BY <1>3, <1>4, MinOfTwo
  <2>4. Min({cols + CimAlign, req[l].cols}) * Ops[l].K > state.rem
    BY <1>3, <1>4, <2>3
  <2>5. Min({cols + CimAlign, req[l].cols}) * Ops[l].K \in Nat
    BY <1>3, <1>4, <2>3
  <2>6. SumOver(Weights(new), DOMAIN old) + Min({cols + CimAlign, req[l].cols}) * Ops[l].K > CimCap
    <3> DEFINE most == Min({cols + CimAlign, req[l].cols}) * Ops[l].K
    <3>1. SumOver(Weights(new), DOMAIN old) = SumOver(Weights(old), DOMAIN old)
      BY <1>9
    <3>2. most > state.rem /\ most \in Nat
      BY <2>4, <2>5
    <3> HIDE DEF most
    <3>3. SumOver(Weights(new), DOMAIN old) + most > CimCap
      BY <1>2, <1>6, <3>1, <3>2
    <3>. QED
      BY <3>3 DEF most
  <2>. QED
    BY <2>1, <2>2, <2>6
<1>13. \A n \in S : NoRoom(req, new, n)
  BY <1>11, <1>12
<1>. QED
  BY <1>8, <1>10, <1>13 DEF ServedRight, next, new, l

(* So it is when all have been served: the allocation is right.              *)
LEMMA AllocationRight ==
  ASSUME NEW req \in Requests
  PROVE  \E state : /\ ServedRight(req, Worthy(req), state)
                    /\ Allocate(req) = state.grants
<1> DEFINE W == Worthy(req)
           F == {S \in SUBSET W : ServedRight(req, S, Services(req)[S])}
<1>1. IsFiniteSet(W) /\ W \subseteq DOMAIN req
  BY RequestFacts, FS_Subset DEF Worthy
<1>2. {} \in F
  <2> DEFINE state == [grants |-> <<>>, rem |-> CimCap]
  <2>1. Services(req)[{}] = state
    BY ServicesRec
  <2>2. DOMAIN state.grants = {} /\ state.rem \in Nat
    BY CimAssumption
  <2>3. SumOver(Weights(state.grants), DOMAIN state.grants) = 0
    BY <2>2, SumEmpty
  <2>4. state.rem + SumOver(Weights(state.grants), DOMAIN state.grants) = CimCap
    BY <2>3, CimAssumption
  <2> HIDE DEF state
  <2>5. ServedRight(req, {}, state)
    BY <2>2, <2>4 DEF ServedRight
  <2>. QED
    BY <2>1, <2>5
<1>3. ASSUME NEW S \in SUBSET W, S # {}, \A x \in S : S \ {x} \in F PROVE S \in F
  <2>1. LastOf(req, S) \in S
    BY <1>3, LastIsLast
  <2>2. ServedRight(req, S \ {LastOf(req, S)}, Services(req)[S \ {LastOf(req, S)}])
    BY <1>3, <2>1
  <2>3. Services(req)[S] = Served(req, Services(req)[S \ {LastOf(req, S)}], LastOf(req, S))
    BY <1>3, ServicesRec
  <2>4. ServedRight(req, S, Services(req)[S])
    <3>1. S \in SUBSET Worthy(req) /\ S # {}
      BY <1>3
    <3>. QED
      BY ONLY <2>2, <2>3, <3>1, ServiceKeeps, req \in Requests
  <2>. QED
    BY <2>4
<1>4. SUBSET W \subseteq F
  <2> HIDE DEF F, W
  <2>. QED
    BY <1>1, <1>2, <1>3, RemoveInduction
<1>5. ServedRight(req, W, Services(req)[W])
  BY <1>4
<1>. QED
  BY <1>5, AllocateDef

(* cim_cols offers an op just what it was granted.                           *)
LEMMA GrantsOffered ==
  ASSUME NEW req \in Requests, NEW n \in DOMAIN Allocate(req)
  PROVE  CimCols(Allocate(req), n, Ops[n].K, Ops[n].N) = Allocate(req)[n]
<1>1. PICK state : ServedRight(req, Worthy(req), state) /\ Allocate(req) = state.grants
  BY AllocationRight
<1> DEFINE c == Allocate(req)[n]
<1>2. n \in DOMAIN Ops /\ Ops[n].N \in Nat
  <2>1. DOMAIN Allocate(req) \subseteq Worthy(req)
    BY <1>1 DEF ServedRight
  <2>2. n \in DOMAIN Ops
    BY <2>1, RequestFacts DEF Worthy
  <2>. QED
    BY <2>2, OpsAssumption
<1>3. c \in Nat /\ Offerable(n, c)
  BY <1>1 DEF ServedRight
<1>4. CimCols(Allocate(req), n, Ops[n].K, Ops[n].N) =
        IF c >= Ops[n].N THEN Ops[n].N ELSE (c \div CimAlign) * CimAlign
  BY DEF CimCols
<1> HIDE DEF c
<1>5. IF c >= Ops[n].N THEN Ops[n].N = c ELSE (c \div CimAlign) * CimAlign = c
  BY <1>2, <1>3 DEF Offerable
<1>. QED
  BY <1>4, <1>5 DEF c

(* So what is held of the CIM is what was granted.                           *)
LEMMA HeldIsGranted ==
  ASSUME NEW req \in Requests, NEW T \in SUBSET DOMAIN Allocate(req)
  PROVE  Held(Allocate(req), T) = SumOver(Weights(Allocate(req)), T)
<1> DEFINE alloc == Allocate(req)
           held == [n \in DOMAIN alloc |-> Ops[n].K * CimCols(alloc, n, Ops[n].K, Ops[n].N)]
<1>1. held = Weights(alloc)
  BY GrantsOffered DEF Weights
<1>2. Held(alloc, T) = SumOver(held, T)
  <2> HIDE DEF alloc
  <2>. QED
    BY DEF Held, SumOver
<1>. QED
  BY <1>1, <1>2

(* An op with nothing to save gets nothing, and one that got less than it    *)
(* asked for could not take an aligned column more beside the denser ones.   *)
LEMMA AllocationDense ==
  ASSUME NEW req \in Requests, NEW n \in DOMAIN req
  PROVE  LET alloc == Allocate(req)
         IN  /\ req[n].saving <= 0 => Got(alloc, n) = 0
             /\ req[n].saving > 0 /\ Got(alloc, n) < req[n].cols =>
                  \E before \in SUBSET (DOMAIN alloc \ {n}) :
                    /\ \A m \in before : Denser(req, m, n)
                    /\ Held(alloc, before)
                         + Min({Got(alloc, n) + CimAlign, req[n].cols}) * Ops[n].K > CimCap
<1>1. PICK state : ServedRight(req, Worthy(req), state) /\ Allocate(req) = state.grants
  BY AllocationRight
<1> DEFINE alloc == Allocate(req)
<1>2. req[n].saving \in Int /\ Elems(req[n]) > 0
  BY RequestFacts
<1>3. req[n].saving <= 0 => n \notin DOMAIN alloc
  BY <1>1, <1>2 DEF ServedRight, Worthy
<1>4. ASSUME req[n].saving > 0, Got(alloc, n) < req[n].cols
      PROVE  \E before \in SUBSET (DOMAIN alloc \ {n}) :
                    /\ \A m \in before : Denser(req, m, n)
                    /\ Held(alloc, before)
                         + Min({Got(alloc, n) + CimAlign, req[n].cols}) * Ops[n].K > CimCap
  <2>1. NoRoom(req, alloc, n)
    BY <1>1, <1>2, <1>4 DEF ServedRight, Worthy
  <2>2. PICK before \in SUBSET (DOMAIN alloc \ {n}) :
      /\ \A m \in before : Denser(req, m, n)
      /\ SumOver(Weights(alloc), before)
           + Min({Got(alloc, n) + CimAlign, req[n].cols}) * Ops[n].K > CimCap
    BY <1>4, <2>1 DEF NoRoom
  <2>3. Held(alloc, before) = SumOver(Weights(alloc), before)
    BY HeldIsGranted
  <2>. QED
    BY <2>2, <2>3
<1>. QED
  BY <1>3, <1>4 DEF Got

(* All that is held is within the budget.                                    *)
LEMMA AllocationFits ==
  ASSUME NEW req \in Requests
  PROVE  Held(Allocate(req), DOMAIN Allocate(req)) <= CimCap
<1>1. PICK state : ServedRight(req, Worthy(req), state) /\ Allocate(req) = state.grants
  BY AllocationRight
<1>2. /\ state.rem \in Nat
      /\ state.rem + SumOver(Weights(state.grants), DOMAIN state.grants) = CimCap
      /\ DOMAIN state.grants \subseteq DOMAIN req
      /\ \A n \in DOMAIN state.grants : state.grants[n] \in Nat
  BY <1>1 DEF ServedRight, Worthy
<1>3. SumOver(Weights(state.grants), DOMAIN state.grants) \in Nat
  BY <1>2, WeightsNat
<1>4. Held(Allocate(req), DOMAIN Allocate(req)) = SumOver(Weights(Allocate(req)), DOMAIN Allocate(req))
  BY HeldIsGranted
<1>. QED
  BY <1>1, <1>2, <1>3, <1>4

-----------------------------------------------------------------------------
(* Every candidate's allotment is one the allocation gives.                  *)
LEMMA CandidateAllotted ==
  ASSUME SearchInv, NEW i \in DOMAIN cands
  PROVE  cands[i].alloc = <<>> \/ \E req \in Requests : cands[i].alloc = Allocate(req)
<1>1. cands[i].alloc \in Allotments
  BY CandFacts DEF SearchInv
<1>. QED
  BY <1>1 DEF Allotments

(* For any matmuls, budget, alignment and savings, no candidate plan holds   *)
(* more weight elements in the CIM than the budget has.                      *)
THEOREM BudgetIsKept == Spec => []WithinBudget
<1>1. SearchInv => WithinBudget
  <2>. SUFFICES ASSUME SearchInv, NEW i \in DOMAIN cands
                PROVE  Held(cands[i].alloc, DOMAIN cands[i].alloc) <= CimCap
    BY DEF WithinBudget
  <2>1. CASE cands[i].alloc = <<>>
    <3> DEFINE held == [n \in DOMAIN <<>> |-> Ops[n].K * CimCols(<<>>, n, Ops[n].K, Ops[n].N)]
    <3>1. Held(<<>>, DOMAIN <<>>) = SumOver(held, DOMAIN <<>>)
      BY DEF Held, SumOver
    <3>2. DOMAIN <<>> = {}
      OBVIOUS
    <3> HIDE DEF held
    <3>3. Held(<<>>, DOMAIN <<>>) = 0
      BY <3>1, <3>2, SumEmpty
    <3>. QED
      BY <2>1, <3>3, CimAssumption
  <2>2. CASE \E req \in Requests : cands[i].alloc = Allocate(req)
    BY <2>2, AllocationFits
  <2>. QED
    BY <2>1, <2>2, CandidateAllotted
<1>. QED
  BY <1>1, SearchInvariant, PTL

(* The columns a candidate plan was allotted are the ones cim_cols then      *)
(* offers: neither rounds down what the other did not.                       *)
THEOREM GrantsAreOffered == Spec => []OfferedExactly
<1>1. SearchInv => OfferedExactly
  <2>. SUFFICES ASSUME SearchInv, NEW i \in DOMAIN cands, NEW n \in DOMAIN cands[i].alloc
                PROVE  CimCols(cands[i].alloc, n, Ops[n].K, Ops[n].N) = cands[i].alloc[n]
    BY DEF OfferedExactly
  <2>1. cands[i].alloc # <<>>
    OBVIOUS
  <2>2. PICK req \in Requests : cands[i].alloc = Allocate(req)
    BY <2>1, CandidateAllotted
  <2>. QED
    BY <2>2, GrantsOffered
<1>. QED
  BY <1>1, SearchInvariant, PTL

(* The requests kept are requests, once a first pass has made any.           *)
LEMMA RequestsKept == Spec => [](requests \in Requests \cup {<<>>})
<1> DEFINE I == requests \in Requests \cup {<<>>}
<1>1. Init => I
  BY DEF Init
<1>2. I /\ [Next]_vars => I'
  BY DEF Next, vars, SolveHost, SolveHostBudgeted, Refine, AddSingle, Report
<1>. QED
  BY <1>1, <1>2, PTL DEF Spec

(* For any matmuls, budget, alignment and savings: one that is granted less  *)
(* than it asked for could not take an aligned column more beside those that *)
(* are denser.                                                              *)
THEOREM DensestServed == Spec => []DensestFirst
<1>1. requests \in Requests \cup {<<>>} => DensestFirst
  <2>1. CASE requests = <<>>
    BY <2>1 DEF DensestFirst
  <2>2. CASE requests \in Requests
    BY <2>2, AllocationDense DEF DensestFirst, Got, Denser
  <2>. QED
    BY <2>1, <2>2
<1>. QED
  BY <1>1, RequestsKept, PTL

=============================================================================
