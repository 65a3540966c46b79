---------------------------- MODULE DagExecution ----------------------------
(***************************************************************************)
(* What executing an operator graph promises, with no clock and no           *)
(* bandwidth (src/simulator/runtime/events.py, run_dag): every op runs once, *)
(* only after all the ops it depends on are done, and the serial part of an  *)
(* op (fixed delay and compute) has its server to itself.  An op whose       *)
(* serial part is over may still be running: its memory stream drains while  *)
(* the server takes the next op.                                             *)
(***************************************************************************)
CONSTANT Nodes

VARIABLES deps,     \* the graph: op |-> the ops it depends on
          server,   \* op |-> the server its serial part occupies
          running,  \* dispatched and not done
          holding,  \* running, and still occupying the server
          done

vars == <<deps, server, running, holding, done>>

Init == running = {} /\ holding = {} /\ done = {}

(* An op with no serial work never holds its server.                         *)
Start(n) ==
  /\ n \in Nodes \ (running \cup done)
  /\ deps[n] \subseteq done
  /\ \A m \in holding : server[m] # server[n]
  /\ running' = running \cup {n}
  /\ holding' \in {holding, holding \cup {n}}
  /\ UNCHANGED <<deps, server, done>>

Release(S) ==
  /\ S # {} /\ S \subseteq holding
  /\ holding' = holding \ S
  /\ UNCHANGED <<deps, server, running, done>>

Complete(S) ==
  /\ S # {} /\ S \subseteq running \ holding
  /\ running' = running \ S
  /\ done' = done \cup S
  /\ UNCHANGED <<deps, server, holding>>

Next ==
  \/ \E n \in Nodes : Start(n)
  \/ \E S \in SUBSET Nodes : Release(S) \/ Complete(S)

Spec == Init /\ [][Next]_vars

=============================================================================
