--------------------------- MODULE MCOrchestrator ---------------------------
(***************************************************************************)
(* Model checking of Orchestrator: the desk without a vault, the vault     *)
(* without orders, with a tick that overlaps another or breaks off, and a  *)
(* purchase beside a vault.                                                *)
(***************************************************************************)
EXTENDS Orchestrator, MCSpotDesk

ToDeployed == {"Funding", "Sealed", "Sourcing", "Sourced", "Deployed"}
AllPhases  == ToDeployed \cup
    {"Live", "Realized", "Claimable", "Winding", "Concluded", "Cancelled"}

Deal(raised, authorised, faults, overlaps, crashes, polls) ==
    [raised |-> raised, authorised |-> authorised, faults |-> faults,
     overlaps |-> overlaps, crashes |-> crashes, polls |-> polls]

NoVault  == Deal(0, {}, FALSE, 0, 0, 0)
NoOrders == Placed({}, 0, 0, FALSE, 0, 0)

Alone  == {Deal(1, AllPhases, TRUE, 1, 0, 0), Deal(1, AllPhases, TRUE, 0, 1, 0),
           Deal(2, AllPhases, TRUE, 0, 0, 1)}
Beside == {<<Placed({b2}, 0, 2, FALSE, 0, 0), Deal(1, ToDeployed, FALSE, 0, 0, 0)>>}

MCAllScenarios == MCScenarios \cup {NoOrders} \cup {pair[1] : pair \in Beside}
MCDeals        == {NoVault} \cup Alone \cup {pair[2] : pair \in Beside}
MCTogether     == (MCScenarios \X {NoVault}) \cup ({NoOrders} \X Alone) \cup Beside
=============================================================================
