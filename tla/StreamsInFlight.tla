-------------------------- MODULE StreamsInFlight --------------------------
(***************************************************************************)
(* The channel of SharedBandwidth as the engine drives it: streams of the    *)
(* units open and close one at a time and SharedBandwidth.share is asked     *)
(* again after each.                                                         *)
(***************************************************************************)
EXTENDS SharedBandwidth

CONSTANTS
  Sharers,     \* the units that stream
  Channels,
  MaxStreams   \* at most so many of each unit

ASSUME SharersAssumption == IsFiniteSet(Sharers) /\ Sharers # {}
ASSUME ChannelsAssumption == \A c \in Channels : ValidChannel(c)

VARIABLES
  profile,     \* the channel
  contends,    \* the contention flag
  flight       \* unit |-> streams it has in flight

flightVars == <<profile, contends, flight>>

FlightInit ==
  /\ profile \in Channels
  /\ contends \in BOOLEAN
  /\ flight = [u \in Sharers |-> 0]

Open(u) ==
  /\ flight[u] < MaxStreams
  /\ flight' = [flight EXCEPT ![u] = @ + 1]
  /\ UNCHANGED <<profile, contends>>

Close(u) ==
  /\ flight[u] > 0
  /\ flight' = [flight EXCEPT ![u] = @ - 1]
  /\ UNCHANGED <<profile, contends>>

FlightNext == \E u \in Sharers : Open(u) \/ Close(u)

FlightSpec == FlightInit /\ [][FlightNext]_flightVars

-----------------------------------------------------------------------------
Drawing == {u \in Sharers : flight[u] > 0}
Rate == Share(profile, flight, contends)
InFlight == SumOver(flight, Sharers)
UnitRate == [u \in Drawing |-> flight[u] * Rate[u]]

(* Max-min fairness of the water-filling against its definition: nobody gets *)
(* more than it asks, one left short gets at least as much as any other, and *)
(* nothing that is wanted is held back (up to a rounded division per unit).  *)
(* What the streams draw stays within the knee, and a unit's within its cap. *)
MaxMinFair ==
  LET demand == [u \in Drawing |-> Lesser(flight[u] * profile.eff, UnitCap(profile, u))]
      grant == Waterfill(demand, profile.ceiling)
  IN  /\ \A u \in Drawing : grant[u] <= demand[u]
      /\ \A u, v \in Drawing : grant[u] < demand[u] => grant[v] <= grant[u]
      /\ SumOver(grant, Drawing) + Cardinality(Sharers)
           > Lesser(SumOver(demand, Drawing), profile.ceiling)
      /\ contends =>
           /\ SumOver(UnitRate, Drawing) <= profile.ceiling
           /\ profile.capped => \A u \in Drawing : UnitRate[u] <= UnitCap(profile, u)

(* "A stream finishing frees bandwidth for the rest": one more stream never  *)
(* makes another faster, one fewer never makes another slower.               *)
NeighboursOnlyLose ==
  [][LET others == Drawing \cap {u \in Sharers : flight'[u] > 0}
     IN  /\ InFlight' > InFlight => \A u \in others : Rate'[u] <= Rate[u]
         /\ InFlight' < InFlight => \A u \in others : Rate'[u] >= Rate[u]]_flightVars

=============================================================================
