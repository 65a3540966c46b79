------------------------------- MODULE Board -------------------------------
(***************************************************************************)
(* The two scripts of the Metis Card on one board: each may be lost with its *)
(* terminal, both with the board.                                            *)
(***************************************************************************)
EXTENDS Campaign, ThermalCapture

vars == <<campaignVars, thermalVars>>

Init == CampaignInit /\ ThermalInit

Reboot ==
  /\ pc # "down" /\ tpc # "down"
  /\ Killed /\ CaptureKilled

Next ==
  \/ CampaignNext /\ UNCHANGED thermalVars
  \/ ThermalNext /\ UNCHANGED campaignVars
  \/ Reboot

(* A started campaign runs on by itself; its tools answer or time out.       *)
Spec == Init /\ [][Next]_vars /\ WF_vars(Process /\ UNCHANGED thermalVars)

=============================================================================
