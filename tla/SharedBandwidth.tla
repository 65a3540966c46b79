-------------------------- MODULE SharedBandwidth --------------------------
(***************************************************************************)
(* The contended DRAM channel (src/simulator/runtime/resources.py), as the  *)
(* pure functions of class SharedBandwidth.  A channel is a record          *)
(*   eff      single-stream bandwidth, bytes per tick                       *)
(*   ceiling  knee * interconnect_efficiency, bytes per tick: the code only *)
(*            ever uses the product                                         *)
(*   capped   whether unit_caps is given (SoC profiles) or None (legacy)    *)
(*   caps     the unit_caps entries that are present: unit |-> bytes/tick   *)
(* Rates are integers: a division that is not exact rounds down.            *)
(***************************************************************************)
EXTENDS Integers, FiniteSets, FiniteSetsExt

Lesser(a, b) == IF a <= b THEN a ELSE b

CeilDiv(a, b) == (a + b - 1) \div b

SumOver(f, S) == MapThenSumSet(LAMBDA x : f[x], S)

(* What the constructor lets through: it raises on eff < 0, on a ceiling    *)
(* that is not positive and on a cap that is not positive.                  *)
ValidChannel(bw) ==
  /\ bw.eff \in Nat
  /\ bw.ceiling \in Nat /\ bw.ceiling > 0
  /\ bw.capped \in BOOLEAN
  /\ bw.capped => \A u \in DOMAIN bw.caps : bw.caps[u] \in Nat /\ bw.caps[u] > 0

Aggregate(bw, k, contention) ==
  IF contention THEN Lesser(k * bw.eff, bw.ceiling) ELSE k * bw.eff

PerStream(bw, k, contention) ==
  IF k = 0 THEN bw.eff ELSE Aggregate(bw, k, contention) \div k

UnitCap(bw, u) ==
  IF bw.capped /\ u \in DOMAIN bw.caps THEN bw.caps[u] ELSE bw.eff

(* Mutated form: one round, the unused share is not handed on.               *)
Waterfill_OneRound(demand, total) ==
  [u \in DOMAIN demand |-> Lesser(demand[u], total \div Cardinality(DOMAIN demand))]

(***************************************************************************)
(* _waterfill: each round grants in full the demands that fit an equal       *)
(* share of what is left, until none fits; the others get that share.        *)
(***************************************************************************)
Waterfill(demand, total) ==
  LET fill[left \in SUBSET DOMAIN demand] ==
        LET remaining == total - SumOver(demand, DOMAIN demand \ left)
            share == remaining \div Cardinality(left)
            met == {u \in left : demand[u] <= share}
        IN  IF left = {} THEN demand
            ELSE IF met = {}
                 THEN [u \in DOMAIN demand |-> IF u \in left THEN share ELSE demand[u]]
                 ELSE fill[left \ met]
  IN  fill[DOMAIN demand]

(* Mutated form: the demand is split among the streams here as well.        *)
Demand_SplitTwice(bw, n, u) == Lesser(n * bw.eff, UnitCap(bw, u)) \div n

(* What the n streams of unit u ask for together.                            *)
Demand(bw, n, u) == Lesser(n * bw.eff, UnitCap(bw, u))

(***************************************************************************)
(* share(streams, contention): the rate of each stream of unit u when        *)
(* streams[u] of them are in flight; defined for the units that have one.    *)
(***************************************************************************)
Share(bw, streams, contention) ==
  LET k == SumOver(streams, DOMAIN streams)
      busy == {u \in DOMAIN streams : streams[u] > 0}
      demand == [u \in busy |-> Demand(bw, streams[u], u)]
      grant == Waterfill(demand, bw.ceiling)
  IN  IF ~bw.capped \/ ~contention
      THEN [u \in busy |-> PerStream(bw, k, contention)]
      ELSE [u \in busy |-> grant[u] \div streams[u]]

(* stream_us(nbytes, k = 1): every caller in the runtime leaves contention   *)
(* at its default, True.                                                     *)
StreamTime(bw, nbytes) ==
  IF nbytes <= 0 THEN 0 ELSE CeilDiv(nbytes, PerStream(bw, 1, TRUE))

=============================================================================
