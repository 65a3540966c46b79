----------------------------- MODULE CimBudget -----------------------------
(***************************************************************************)
(* The residency budget of the CIM in decode (ADR-0009 revision C1): how     *)
(* many columns of each matmul may stay pinned in the array across tokens.   *)
(* A request is [saving, K, cols]; a column holds K weight elements.         *)
(***************************************************************************)
EXTENDS Integers, Sequences, FiniteSets, SequencesExt

CONSTANTS
  CimCap,    \* residency budget in weight elements; 0: the platform has none
  CimAlign   \* column quantum of the CIM part

ASSUME CimAssumption == CimCap \in Nat /\ CimAlign \in Nat \ {0}

(* cim_cols under an allotment of the budget: id |-> columns.               *)
CimCols(allot, n, K, N) ==
  LET cols == IF n \in DOMAIN allot THEN allot[n] ELSE 0
  IN  IF cols >= N THEN N ELSE (cols \div CimAlign) * CimAlign

(* cim_cols where each op may take up to the whole budget.                   *)
CimColsUpToCap(K, N) == CimCols([n \in {1} |-> CimCap \div K], 1, K, N)

Elems(r) == r.K * r.cols

(* Mutated form: the largest saving first.                                  *)
Before_Saving(requests, a, b) ==
  requests[a].saving > requests[b].saving \/ (requests[a].saving = requests[b].saving /\ a < b)

(* The order of service: decreasing saving per element, ties to the lower id. *)
Before(requests, a, b) ==
  LET worth(x, y) == requests[x].saving * Elems(requests[y])
  IN  worth(a, b) > worth(b, a) \/ (worth(a, b) = worth(b, a) /\ a < b)

(* Mutated form: the columns the remainder affords are not aligned.          *)
Grant_Unaligned(r, rem) == IF Elems(r) <= rem THEN r.cols ELSE rem \div r.K

(* All that is requested, else the aligned columns the remainder affords.    *)
Grant(r, rem) ==
  IF Elems(r) <= rem THEN r.cols ELSE ((rem \div r.K) \div CimAlign) * CimAlign

Granted(grants, n, cols) ==
  [m \in DOMAIN grants \cup {n} |-> IF m = n THEN cols ELSE grants[m]]

(* Mutated form: a part granted is not taken off the remainder.              *)
Served_FreePart(requests, state, n) ==
  LET cols == Grant(requests[n], state.rem)
  IN  IF cols = 0 THEN state
      ELSE [grants |-> Granted(state.grants, n, cols),
            rem |-> IF cols = requests[n].cols THEN state.rem - Elems(requests[n]) ELSE state.rem]

Served(requests, state, n) ==
  LET cols == Grant(requests[n], state.rem)
  IN  IF cols = 0 THEN state
      ELSE [grants |-> Granted(state.grants, n, cols), rem |-> state.rem - cols * requests[n].K]

(* _allocate_cim_budget: id |-> columns; an op with nothing to save, or that *)
(* gets no column, is not in it.  after[S]: when those in S, and no others,  *)
(* have been served, each before the last of them.                          *)
Allocate(requests) ==
  LET worthy == {n \in DOMAIN requests : requests[n].saving > 0 /\ Elems(requests[n]) > 0}
      last(S) == CHOOSE n \in S : \A m \in S \ {n} : Before(requests, m, n)
      after[S \in SUBSET worthy] ==
        IF S = {} THEN [grants |-> <<>>, rem |-> CimCap]
        ELSE Served(requests, after[S \ {last(S)}], last(S))
  IN  after[worthy].grants

=============================================================================
