---------------------------- MODULE Orchestrator ----------------------------
(***************************************************************************)
(* The orchestrator: the spot desk and the vault driver, which run side by *)
(* side in one process over one ledger and one working balance at the      *)
(* broker.  What the vault's money does to the books the desk decides by   *)
(* is what the composition is about; the rest of either is its own.        *)
(***************************************************************************)
EXTENDS SpotDesk, VaultDeals

CONSTANT Together \* the scenarios of the desk and the deals that may meet

ASSUME TogetherAssumption == Together \subseteq Scenarios \X Deals

VARIABLES
    vault, ipo, custody, crossing, wire, sale, repatriation,
    subscription, redemption, mandate, tick, deal, mandateSpent

Driver == INSTANCE VaultDriver WITH spent <- mandateSpent

deskVars   == <<order, broker, conversion, payout, settlement, intent, worker,
                unbooked, reservation, broken, spent>>
driverVars == <<vault, ipo, custody, crossing, wire, sale, repatriation,
                subscription, redemption, mandate, tick, mandateSpent>>

\* The desk's working balances are what the books start with.
OrchestratorInit ==
    /\ Init
    /\ \E pair \in Together : scenario = pair[1] /\ Driver!StartOf(pair[2])

\* What arrives from the MSB for the vault's application is at the broker with
\* the rest; what it takes for the shares it allocates leaves from there.
BrokerCash ==
    buyingPower' = buyingPower
        + (IF wire # "SETTLED" /\ wire' = "SETTLED" THEN vault.deployed ELSE 0)
        - (ipo'.allocated - ipo.allocated)

OrchestratorNext ==
    \/ Next /\ UNCHANGED <<driverVars, deal>>
    \/ Driver!Next /\ BrokerCash /\ UNCHANGED <<deskVars, scenario>>

OrchestratorSpec == OrchestratorInit /\ [][OrchestratorNext]_<<vars, driverVars, deal>>

-----------------------------------------------------------------------------
\* A phase on the chain never runs ahead of the event that justifies it.
PhaseFollowsFact == Driver!PhaseFollowsFact

\* The books of the desk agree with the world as long as no vault's money passes
\* through them (AtRest, the checks of the reconciler).
BooksMatchAlone == deal.raised = 0 => BooksMatchWorld

\* What the ledger says is locked on the chain is there: the escrow of the spot
\* market together with the balance of the vault, whatever the intents and the
\* mandate are doing between two effects, as long as no step was interrupted and
\* no buyer took an order back, which nothing books (checkChainEscrow).
Undisturbed ==
    /\ spent.interrupts = 0
    /\ unbooked = {}
    /\ \A b \in Buys :
          /\ order[b] # "CANCELLED"
          /\ ~Running(b, "deploy_escrow", "book")

ChainEscrowBooked ==
    Undisturbed /\ Driver!Booked =>
        ledger["CHAIN_ESCROW"] =
            vault.usdc + SumOver({b \in Buys : /\ intent[b].state # "None"
                                               /\ order[b] = "PENDING"},
                                 LAMBDA b : Escrow[b])

=============================================================================
