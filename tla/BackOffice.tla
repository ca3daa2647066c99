------------------------------ MODULE BackOffice ------------------------------
(***************************************************************************)
(* What surrounds the escrow, the jobs and the synthetics: the two         *)
(* contracts that hold configuration, the inventory manager, the quotes    *)
(* and executions on the market data, reconciliation, the protocol's       *)
(* switches, the swap panel, and the monitors with the alert engine.  They *)
(* share no state, so that a behaviour watches one of them and leaves the  *)
(* others at rest.                                                         *)
(***************************************************************************)
EXTENDS RiskConfig, PairRegistry, InventoryManager, Executions, Reconciliation, ProtocolControl, SwapPanel, Monitors

CONSTANTS RiskCalls, RegistryCalls,  \* bounds on the calls of the two contracts
          ExpectedAmounts, VenueStates, RiskRows

ASSUME BackOfficeAssumption ==
  /\ RiskCalls \in Nat /\ RegistryCalls \in Nat
  /\ ExpectedAmounts \subseteq Nat /\ RiskRows \subseteq SUBSET RiskRow

VARIABLES watched, calls

vars == <<riskVars, registryVars, inventoryVars, execVars, reconciliationVars, controlVars, panelVars, monitorVars, watched, calls>>

Parties == {"risk", "registry", "inventory", "executions", "reconciliation", "control", "panel", "monitors"}

Of(party, all, atRest) == IF watched = party THEN all ELSE atRest

Init ==
  /\ watched \in Parties
  /\ calls = CASE watched = "risk" -> RiskCalls [] watched = "registry" -> RegistryCalls [] OTHER -> 0
  /\ RiskInit /\ RegistryInit
  /\ InventoryInit(FirstStock)
  /\ ExecInit(Of("executions", ExecBounds, {[faults |-> 0, visits |-> 0, asks |-> 0]}))
  /\ ReconciliationInit(Of("reconciliation", ExpectedAmounts, {0}),
                        Of("reconciliation", RunBounds, {[rows |-> {}, runs |-> 0, errors |-> 0]}))
  /\ ControlInit(Of("control", VenueStates, {"unknown"}), Of("control", RiskRows, {{}}))
  /\ PanelInit
  /\ MonitorsInit

Call(contract) == watched = contract /\ calls > 0 /\ calls' = calls - 1
Turn(party)    == watched = party /\ UNCHANGED calls

Next ==
  /\ \/ Call("risk") /\ RiskNext
        /\ UNCHANGED <<registryVars, inventoryVars, execVars, reconciliationVars, controlVars, panelVars, monitorVars>>
     \/ Call("registry") /\ RegistryNext
        /\ UNCHANGED <<riskVars, inventoryVars, execVars, reconciliationVars, controlVars, panelVars, monitorVars>>
     \/ Turn("inventory") /\ InventoryNext
        /\ UNCHANGED <<riskVars, registryVars, execVars, reconciliationVars, controlVars, panelVars, monitorVars>>
     \/ Turn("executions") /\ ExecNext
        /\ UNCHANGED <<riskVars, registryVars, inventoryVars, reconciliationVars, controlVars, panelVars, monitorVars>>
     \/ Turn("reconciliation") /\ ReconciliationNext
        /\ UNCHANGED <<riskVars, registryVars, inventoryVars, execVars, controlVars, panelVars, monitorVars>>
     \/ Turn("control") /\ ControlNext
        /\ UNCHANGED <<riskVars, registryVars, inventoryVars, execVars, reconciliationVars, panelVars, monitorVars>>
     \/ Turn("panel") /\ PanelNext
        /\ UNCHANGED <<riskVars, registryVars, inventoryVars, execVars, reconciliationVars, controlVars, monitorVars>>
     \/ Turn("monitors") /\ MonitorsNext
        /\ UNCHANGED <<riskVars, registryVars, inventoryVars, execVars, reconciliationVars, controlVars, panelVars>>
  /\ UNCHANGED watched

Spec == Init /\ [][Next]_vars

TypeOK ==
  /\ RiskTypeOK /\ RegistryTypeOK /\ InventoryTypeOK /\ ExecTypeOK
  /\ ReconciliationTypeOK /\ ControlTypeOK /\ PanelTypeOK
  /\ MonitorsTypeOK
===============================================================================
