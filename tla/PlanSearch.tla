----------------------------- MODULE PlanSearch -----------------------------
(***************************************************************************)
(* TiledHeteroScheduler.assign on a fresh DAG (scheduler.py): the plans that *)
(* are solved, timed by the event engine and kept.  What the engine answers  *)
(* for a plan and what the solver estimates are choices; Eps is the 1e-9 us  *)
(* a plan must win by.                                                       *)
(***************************************************************************)
EXTENDS CimBudget

CONSTANTS
  Units,      \* the compute units, in order: the hosts an "auto" call tries
  Ops,        \* id |-> [K, N] of the matmuls
  Savings,    \* what pinning a matmul may save, by the solver's estimate
  Times,      \* what the engine may answer
  Ests,       \* what the solver may estimate
  NoEst,      \* the key of a plan without an estimate: infinity
  Eps,
  NoPlan

ASSUME UnitsAssumption ==
  Units \in Seq(STRING) /\ IsInjective(Units) /\ "auto" \notin ToSet(Units)
ASSUME OpsAssumption ==
  /\ IsFiniteSet(DOMAIN Ops) /\ DOMAIN Ops \subseteq Nat
  /\ \A n \in DOMAIN Ops : Ops[n].K \in Nat \ {0} /\ Ops[n].N \in Nat \ {0}
  /\ Savings \subseteq Int
ASSUME TimesAssumption ==
  Times \subseteq Nat /\ Ests \subseteq Nat /\ NoEst \in Nat /\ Eps \in Nat

VARIABLES
  host,       \* cfg.host: a unit, or "auto"
  refine,     \* the scheduler's refine
  budgeted,   \* decode on a platform with a residency budget
  requests,   \* what the last first pass recorded: id |-> request
  cands,      \* the candidate plans, in the order found
  refined,    \* the refinement passes have run
  candidates, \* host_candidates: source |-> engine time
  timed,      \* history: every answer of the engine
  reported    \* the plan returned

call == <<host, refine, budgeted>>
vars == <<host, refine, budgeted, requests, cands, refined, candidates, timed, reported>>

Plan(source, pass, us, est, alloc) ==
  [source |-> source, pass |-> pass, us |-> us, est |-> est, alloc |-> alloc]

(* The hosts the per-op solve is run for.                                    *)
Tried == IF host = "auto" THEN Units ELSE <<host>>

Init ==
  /\ host \in ToSet(Units) \cup {"auto"}
  /\ refine \in BOOLEAN /\ budgeted \in BOOLEAN
  /\ requests = <<>> /\ cands = <<>>
  /\ refined = FALSE
  /\ candidates = <<>>
  /\ timed = {}
  /\ reported = NoPlan

-----------------------------------------------------------------------------
(* The plan that replaces base when cand is timed against it.                *)
Kept(base, cand) == IF cand.us < base.us - Eps THEN cand ELSE base

(* What "auto" lists of a candidate: the last time for its source.           *)
Listed(source, us) ==
  IF host # "auto" THEN candidates
  ELSE [s \in DOMAIN candidates \cup {source} |-> IF s = source THEN us ELSE candidates[s]]

Found(plan) ==
  /\ cands' = Append(cands, plan)
  /\ candidates' = Listed(plan.source, plan.us)
  /\ UNCHANGED <<call, refined, reported>>

Solving == Len(cands) < Len(Tried)
SolverSource == <<"solver", Tried[Len(cands) + 1]>>

(* One per-op solve for the next host.                                       *)
SolveHost ==
  /\ Solving /\ ~budgeted
  /\ \E us \in Times, est \in Ests :
       /\ timed' = timed \cup {us}
       /\ Found(Plan(SolverSource, "greedy", us, est, <<>>))
  /\ UNCHANGED requests

(* What the first pass records: each op may ask for all the budget affords.  *)
Requests ==
  LET cols(n) == CimColsUpToCap(Ops[n].K, Ops[n].N)
      offered == {n \in DOMAIN Ops : cols(n) > 0}
  IN  {[n \in offered |-> [saving |-> s[n], K |-> Ops[n].K, cols |-> cols(n)]] :
         s \in [offered -> Savings]}

(* In decode: a first pass that only records the requests, the allocation,   *)
(* and the solve with and without it; without a grant, the latter alone.     *)
SolveHostBudgeted ==
  /\ Solving /\ budgeted
  /\ \E asked \in Requests, us \in Times, est \in Ests :
       LET alloc == Allocate(asked)
           plain == Plan(SolverSource, "greedy", us, est, <<>>)
       IN  /\ requests' = asked
           /\ \/ /\ alloc = <<>>
                 /\ timed' = timed \cup {us}
                 /\ Found(plain)
              \/ /\ alloc # <<>>
                 /\ \E us2 \in Times, est2 \in Ests :
                      /\ timed' = timed \cup {us, us2}
                      /\ Found(Kept(plain, Plan(SolverSource, "greedy", us2, est2, alloc)))

(* The order in which plans are preferred, and the first of the best.        *)
Preferred(p, q) == p.us < q.us \/ (p.us = q.us /\ p.est <= q.est)

FirstBest(i) ==
  /\ i \in DOMAIN cands
  /\ \A j \in DOMAIN cands : Preferred(cands[i], cands[j])
  /\ \A j \in DOMAIN cands : j < i => ~Preferred(cands[j], cands[i])

(* Mutated form: the neighbours pass is compared with the greedy plan too.   *)
BestOfPasses_AgainstGreedy(base, deferred, neighbours) ==
  IF neighbours.us < base.us - Eps THEN neighbours ELSE Kept(base, deferred)

BestOfPasses(base, deferred, neighbours) == Kept(Kept(base, deferred), neighbours)

(* The deferred and the neighbours pass for the host of the best plan, with  *)
(* the allotment that plan kept.                                             *)
Refine ==
  /\ refine /\ ~refined /\ Len(cands) = Len(Tried)
  /\ \E i \in DOMAIN cands, us, us2 \in Times, est, est2 \in Ests :
       LET base == cands[i]
           pass(name, t, e) == Plan(base.source, name, t, e, base.alloc)
           best == BestOfPasses(base, pass("deferred", us, est), pass("neighbours", us2, est2))
       IN  /\ FirstBest(i)
           /\ cands' = [cands EXCEPT ![i] = best]
           /\ candidates' = Listed(base.source, best.us)
           /\ timed' = timed \cup {us, us2}
  /\ refined' = TRUE
  /\ UNCHANGED <<call, requests, reported>>

Solved == Len(cands) >= Len(Tried) /\ (refine => refined)

(* "auto" only: the single-unit plan on the next unit.                       *)
AddSingle ==
  /\ host = "auto" /\ Solved /\ Len(cands) < 2 * Len(Units)
  /\ \E us \in Times :
       /\ timed' = timed \cup {us}
       /\ Found(Plan(<<"single", Units[Len(cands) - Len(Units) + 1]>>, "none", us, NoEst, <<>>))
  /\ UNCHANGED requests

Report ==
  /\ Solved /\ reported = NoPlan
  /\ host = "auto" => Len(cands) = 2 * Len(Units)
  /\ \E i \in DOMAIN cands : FirstBest(i) /\ reported' = cands[i]
  /\ UNCHANGED <<call, requests, cands, refined, candidates, timed>>

Next == SolveHost \/ SolveHostBudgeted \/ Refine \/ AddSingle \/ Report

Spec == Init /\ [][Next]_vars

-----------------------------------------------------------------------------
(* What ops hold of the CIM under an allotment, at most.                     *)
Held(alloc, S) ==
  LET held == [n \in DOMAIN alloc |-> Ops[n].K * CimCols(alloc, n, Ops[n].K, Ops[n].N)]
  IN  MapThenSumSet(LAMBDA n : held[n], S)

(* A plan never pins more weight elements than the budget.                   *)
WithinBudget ==
  \A i \in DOMAIN cands : Held(cands[i].alloc, DOMAIN cands[i].alloc) <= CimCap

(* The columns granted to a matmul are the ones the solver then offers it:   *)
(* cim_cols rounds down what _allocate_cim_budget has already rounded.       *)
OfferedExactly ==
  \A i \in DOMAIN cands : \A n \in DOMAIN cands[i].alloc :
    CimCols(cands[i].alloc, n, Ops[n].K, Ops[n].N) = cands[i].alloc[n]

(* The budget goes to the ops it saves most for, per element: one that gets  *)
(* less than it asked for could not take another aligned column without      *)
(* exceeding the budget left by the ops that are denser.                     *)
DensestFirst ==
  LET alloc == Allocate(requests)
      got(n) == IF n \in DOMAIN alloc THEN alloc[n] ELSE 0
      worth(m, n) == requests[m].saving * Elems(requests[n])
  IN  \A n \in DOMAIN requests :
        /\ requests[n].saving <= 0 => got(n) = 0
        /\ requests[n].saving > 0 /\ got(n) < requests[n].cols =>
             \E before \in SUBSET (DOMAIN alloc \ {n}) :
               /\ \A m \in before : worth(m, n) >= worth(n, m)
               /\ Held(alloc, before) + Min({got(n) + CimAlign, requests[n].cols}) * Ops[n].K
                    > CimCap

(* No plan timed on the way, kept or not, beats the reported one by more     *)
(* than the tolerance, and "auto" lists the reported plan under its own time. *)
ReportedIsBest ==
  reported # NoPlan =>
    /\ \A us \in timed : reported.us <= us + Eps
    /\ host = "auto" => candidates[reported.source] = reported.us

=============================================================================
