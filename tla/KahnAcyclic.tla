---------------------------- MODULE KahnAcyclic ----------------------------
(***************************************************************************)
(* Dag.is_acyclic (src/simulator/runtime/dag.py): Kahn's worklist over a     *)
(* graph that may have cycles and self loops.  The list the code pops from   *)
(* its end is a set popped in any order.                                     *)
(***************************************************************************)
EXTENDS OpDag

CONSTANTS Nodes,
          DepGraphs \* the graphs considered, each in [Nodes -> SUBSET Nodes]

ASSUME NodesFinite == IsFiniteSet(Nodes)
ASSUME DepGraphsAssumption == DepGraphs \subseteq [Nodes -> SUBSET Nodes]

VARIABLES deps,
          indeg,    \* dependencies not yet popped
          queue,
          seen,     \* the nodes popped; the code counts them
          verdict   \* "none", then what is_acyclic returns

kahnVars == <<deps, indeg, queue, seen, verdict>>

KahnInit ==
  /\ deps \in DepGraphs
  /\ indeg = [n \in Nodes |-> Cardinality(deps[n])]
  /\ queue = {n \in Nodes : deps[n] = {}}
  /\ seen = {}
  /\ verdict = "none"

(* The indegrees after n is popped.                                          *)
CountDown(n) ==
  [m \in Nodes |-> IF m \in Successors(deps, n) THEN indeg[m] - 1 ELSE indeg[m]]

(* Mutated form: a successor is queued as soon as one dependency is popped.  *)
Unlocked_Early(n) == Successors(deps, n)

(* Mutated form: the popped node is left in the queue.                      *)
Unlocked_Again(n) == {n} \cup {m \in Successors(deps, n) : CountDown(n)[m] = 0}

(* The nodes queued when n is popped.                                        *)
Unlocked(n) == {m \in Successors(deps, n) : CountDown(n)[m] = 0}

Pop(n) ==
  /\ n \in queue
  /\ indeg' = CountDown(n)
  /\ queue' = (queue \ {n}) \cup Unlocked(n)
  /\ seen' = seen \cup {n}
  /\ UNCHANGED <<deps, verdict>>

(* Mutated form: any progress counts as success.                            *)
CoversAll_Some == seen # {}

CoversAll == Cardinality(seen) = Cardinality(Nodes)

Answer ==
  /\ queue = {} /\ verdict = "none"
  /\ verdict' = IF CoversAll THEN "acyclic" ELSE "cyclic"
  /\ UNCHANGED <<deps, indeg, queue, seen>>

KahnNext == (\E n \in Nodes : Pop(n)) \/ Answer

KahnSpec == KahnInit /\ [][KahnNext]_kahnVars /\ WF_kahnVars(KahnNext)

-----------------------------------------------------------------------------
KahnTypeOK ==
  /\ deps \in [Nodes -> SUBSET Nodes]
  /\ indeg \in [Nodes -> Nat]
  /\ queue \subseteq Nodes /\ seen \subseteq Nodes
  /\ verdict \in {"none", "acyclic", "cyclic"}

(* No node is popped twice, and none before all its dependencies: the pop    *)
(* order is a topological order, which _critical_path_us relies on too.      *)
PoppedInOrder ==
  /\ queue \cap seen = {}
  /\ \A n \in queue \cup seen : deps[n] \subseteq seen

(* The answer is right: "acyclic" exactly when every non-empty set of nodes  *)
(* has one that depends on none of the set.                                  *)
VerdictCorrect ==
  verdict # "none" => (verdict = "acyclic" <=> IsAcyclic(deps))

(* Counting nodes reaches an answer on every graph, cyclic ones included.    *)
Answers == <>(verdict # "none")

=============================================================================
