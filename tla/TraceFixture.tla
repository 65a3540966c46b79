---------------------------- MODULE TraceFixture ----------------------------
(***************************************************************************)
(* The value flow of a forward, recorded while it runs and contracted onto   *)
(* its compute ops (tools/trace_export/trace_fixture.py, fixture_io.py), at  *)
(* two lengths.  The recorder knows a tensor by its address only, and the    *)
(* interpreter gives the address of a tensor nobody refers to any more to    *)
(* another.                                                                 *)
(*                                                                         *)
(* The traced program is a constant: what each op reads and writes, by       *)
(* names the recorder never sees.                                           *)
(***************************************************************************)
EXTENDS Integers, FiniteSets, SequencesExt

CONSTANTS
  Program,   \* the ops in the order they run: [ins, outs, cat, bmm, N], cat
             \* the category of a compute op, or "none"; N columns of weights
  Resident,  \* the tensors that are there from the start: weights, token ids
  Late,      \* tensors made while it runs, by no recorded op
  Lengths,   \* how many lengths are traced
  Rejected

ASSUME ProgramAssumption ==
  /\ Len(Program) \in Nat /\ DOMAIN Program = 1..Len(Program)
  /\ \A i \in DOMAIN Program :
       /\ Program[i].cat \in STRING /\ Program[i].bmm \in BOOLEAN /\ Program[i].N \in Nat
       /\ \A s \in {Program[i].ins, Program[i].outs} : Len(s) \in Nat /\ DOMAIN s = 1..Len(s)
       /\ ToSet(Program[i].outs) \cap (ToSet(Resident) \cup Late) = {}
  /\ \A i, j \in DOMAIN Program :
       i # j => ToSet(Program[i].outs) \cap ToSet(Program[j].outs) = {}

VARIABLES
  at,       \* the tensors the program refers to |-> their addresses
  made,     \* the late tensors made so far
  next,     \* the op to run
  keep,     \* _keep: the addresses the recorder holds a reference to
  vid,      \* _vid: address |-> value id
  nextVid,  \* _next
  records,
  fixture   \* the contracted graphs, one for each length traced

recorder == <<at, made, next, keep, vid, nextVid, records>>
traceVars == <<recorder, fixture>>

(* Where the resident tensors are.                                          *)
Placed == [t \in ToSet(Resident) |-> CHOOSE k \in DOMAIN Resident : Resident[k] = t]

TraceInit ==
  /\ at = Placed /\ made = {} /\ next = 1
  /\ keep = {} /\ vid = <<>> /\ nextVid = 0 /\ records = <<>>
  /\ fixture = <<>>

Tracing == Len(fixture) < Lengths
Reads(i) == ToSet(Program[i].ins)
Compute(i) == Program[i].cat # "none"

(* Where a new tensor may be put: an address below the highest in use that   *)
(* nobody refers to, or one of the n after it.                              *)
Occupied == Range(at) \cup keep
FreeAddresses(n) == (1..(Max(Occupied) + n)) \ Occupied

MakeLate(t) ==
  /\ Tracing /\ t \in Late \ made
  /\ \E a \in FreeAddresses(1) : at' = [u \in DOMAIN at \cup {t} |-> IF u = t THEN a ELSE at[u]]
  /\ made' = made \cup {t}
  /\ UNCHANGED <<next, keep, vid, nextVid, records, fixture>>

(* A function of the program returns: what is not read again is let go.      *)
Drop ==
  /\ Tracing
  /\ LET needed == ToSet(Resident) \cup UNION {Reads(i) : i \in next..Len(Program)}
     IN  /\ DOMAIN at \ needed # {}
         /\ at' = Restrict(at, DOMAIN at \cap needed)
  /\ UNCHANGED <<made, next, keep, vid, nextVid, records, fixture>>

-----------------------------------------------------------------------------
(* __torch_dispatch__.                                                      *)

(* _input_vid for each input in turn: an address not seen is given an id,    *)
(* where it is met first.                                                   *)
Looked(ins) ==
  LET first(a) == CHOOSE k \in DOMAIN ins : at[ins[k]] = a /\ \A j \in 1..(k - 1) : at[ins[j]] # a
      unseen == {at[ins[k]] : k \in DOMAIN ins} \ DOMAIN vid
      rank(a) == Cardinality({b \in unseen : first(b) < first(a)})
  IN  [vid |-> [a \in DOMAIN vid \cup unseen |-> IF a \in unseen THEN nextVid + rank(a) ELSE vid[a]],
       nextVid |-> nextVid + Cardinality(unseen)]

(* Mutated form: only what an op reads is kept alive.                        *)
KeptBy_Inputs(inputs, outputs) == inputs

KeptBy(inputs, outputs) == inputs \cup outputs

RecordOp ==
  /\ Tracing /\ next \in DOMAIN Program /\ Reads(next) \subseteq DOMAIN at
  /\ LET op == Program[next]
         seen == Looked(op.ins)
         inputs == {at[t] : t \in Reads(next)}
     IN  \E place \in Injection(DOMAIN op.outs, FreeAddresses(Len(op.outs))) :
           /\ at' = [t \in DOMAIN at \cup ToSet(op.outs) |->
                       IF t \in ToSet(op.outs) THEN place[CHOOSE k \in DOMAIN op.outs : op.outs[k] = t]
                       ELSE at[t]]
           /\ keep' = keep \cup KeptBy(inputs, Range(place))
           /\ vid' = [a \in DOMAIN seen.vid \cup Range(place) |->
                        IF a \in Range(place)
                        THEN seen.nextVid + (CHOOSE k \in DOMAIN place : place[k] = a) - 1
                        ELSE seen.vid[a]]
           /\ nextVid' = seen.nextVid + Len(op.outs)
           /\ records' = Append(records,
                [ins |-> {seen.vid[a] : a \in inputs},
                 outs |-> {vid'[a] : a \in Range(place)},
                 external |-> {seen.vid[a] : a \in inputs \ DOMAIN vid},
                 cat |-> op.cat, bmm |-> op.bmm, N |-> op.N])
  /\ next' = next + 1
  /\ UNCHANGED <<made, fixture>>

-----------------------------------------------------------------------------
(* validate_value_flow: whatever an op reads was produced or is external.    *)
Resolved ==
  \A i \in DOMAIN records : \A v \in records[i].ins :
    \/ \E p \in 1..(i - 1) : v \in records[p].outs
    \/ \E p \in 1..i : v \in records[p].external

(* _compute_preds: back from the inputs, through what is not a compute op,   *)
(* to the nearest that are.                                                 *)
Preds ==
  LET firstOf(v) == {p \in DOMAIN records : /\ v \in records[p].outs
                                            /\ \A q \in 1..(p - 1) : v \notin records[q].outs}
      producers(i) == UNION {firstOf(v) : v \in records[i].ins}
      preds[i \in DOMAIN records] ==
        UNION {IF records[p].cat # "none" THEN {p} ELSE preds[p] : p \in producers(i)}
  IN  preds

(* The compute ops are numbered in the order of the trace.                   *)
Contracted(ops, preds) ==
  LET compute == {i \in DOMAIN ops : ops[i].cat # "none"}
      index(i) == Cardinality({j \in compute : j <= i})
      node(k) == CHOOSE i \in compute : index(i) = k
  IN  [k \in 1..Cardinality(compute) |->
         [cat |-> ops[node(k)].cat, bmm |-> ops[node(k)].bmm, N |-> ops[node(k)].N,
          deps |-> {index(p) : p \in preds[node(k)]}]]

(* The forward of one length has ended; the next is traced afresh.           *)
WriteGraph ==
  /\ Tracing /\ next = Len(Program) + 1
  /\ fixture' = Append(fixture, IF Resolved THEN Contracted(records, Preds) ELSE Rejected)
  /\ at' = Placed /\ made' = {} /\ next' = 1
  /\ keep' = {} /\ vid' = <<>> /\ nextVid' = 0 /\ records' = <<>>

TraceNext == (\E t \in Late : MakeLate(t)) \/ Drop \/ RecordOp \/ WriteGraph

-----------------------------------------------------------------------------
(* The flow of the program itself, by the names of its tensors: the compute  *)
(* ops a tensor carries the data of.                                        *)
Carries ==
  LET writers(i) == {p \in DOMAIN Program : ToSet(Program[p].outs) \cap Reads(i) # {}}
      carried[i \in DOMAIN Program] ==
        IF Compute(i) THEN {i} ELSE UNION {carried[p] : p \in writers(i)}
  IN  [i \in DOMAIN Program |-> UNION {carried[p] : p \in writers(i)}]

TrueGraph == Contracted(Program, Carries)

(* "an address is never recycled into a fabricated edge": each graph         *)
(* committed is the program's own data flow, whatever addresses its tensors  *)
(* had and whenever they were let go.                                       *)
EdgesAreDataflow == \A l \in DOMAIN fixture : fixture[l] = TrueGraph

=============================================================================
