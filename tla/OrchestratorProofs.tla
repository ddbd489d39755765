------------------------- MODULE OrchestratorProofs -------------------------
(***************************************************************************)
(* What holds of the desk and the vault driver side by side, for every     *)
(* pair of a scenario and a deal.  Neither is disturbed by the steps of    *)
(* the other: what was shown of each alone is carried over, through the    *)
(* variables that they share, the ledger and the balance at the broker.    *)
(***************************************************************************)
EXTENDS Orchestrator, SpotDeskProofs

Kept == INSTANCE VaultDriverProofs WITH spent <- mandateSpent

-----------------------------------------------------------------------------
(* The driver.  Its instance in Orchestrator and the one that its proofs   *)
(* are about have the same actions.                                        *)

LEMMA SameAct == Driver!Act = Kept!Act
BY Zenon DEF
  Driver!PHASE_TRANSITIONS, Kept!PHASE_TRANSITIONS, Driver!Phases, Kept!Phases,
  Driver!From, Kept!From, Driver!Workers, Kept!Workers, Driver!OrFault,
  Kept!OrFault, Driver!Idle, Kept!Idle, Driver!Seen, Kept!Seen, Driver!Outdated,
  Kept!Outdated, Driver!MayBegin, Kept!MayBegin, Driver!requestPhase,
  Kept!requestPhase, Driver!tickAll, Kept!tickAll, Driver!Throw, Kept!Throw,
  Driver!SaveAndEnd, Kept!SaveAndEnd, Driver!wait, Kept!wait, Driver!park,
  Kept!park, Driver!Goto, Kept!Goto, Driver!Learn, Kept!Learn, Driver!At,
  Kept!At, Driver!Handling, Kept!Handling, Driver!sync, Kept!sync,
  Driver!advance, Kept!advance, Driver!crash, Kept!crash, Driver!post,
  Kept!post, Driver!Submit, Kept!Submit, Driver!Into, Kept!Into, Driver!simple,
  Kept!simple, Driver!placeIpoSubscription, Kept!placeIpoSubscription,
  Driver!toSourced, Kept!toSourced, Driver!deployCapital, Kept!deployCapital,
  Driver!bookDeployed, Kept!bookDeployed, Driver!awaitCrossing,
  Kept!awaitCrossing, Driver!awaitWire, Kept!awaitWire, Driver!toLive,
  Kept!toLive, Driver!markListed, Kept!markListed, Driver!toRealized,
  Kept!toRealized, Driver!markRealized, Kept!markRealized, Driver!grossProceeds,
  Kept!grossProceeds, Driver!toClaimable, Kept!toClaimable, Driver!sendHome,
  Kept!sendHome, Driver!settleVault, Kept!settleVault, Driver!bookRepatriated,
  Kept!bookRepatriated, Driver!bookNet, Kept!bookNet, Driver!vaultSubscribe,
  Kept!vaultSubscribe, Driver!vaultRedeem, Kept!vaultRedeem,
  Driver!subscriberDeposits, Kept!subscriberDeposits, Driver!holderElects,
  Kept!holderElects, Driver!electionCloses, Kept!electionCloses,
  Driver!holderClaims, Kept!holderClaims, Driver!cancelledOutside,
  Kept!cancelledOutside, Driver!brokerDecides, Kept!brokerDecides,
  Driver!custodianConfirms, Kept!custodianConfirms, Driver!msbConverts,
  Kept!msbConverts, Driver!msbPays, Kept!msbPays, Driver!brokerSells,
  Kept!brokerSells, Driver!Tick, Kept!Tick, Driver!World, Kept!World,
  Driver!Act, Kept!Act, Driver!worldVars, Kept!worldVars, Driver!intentVars,
  Kept!intentVars, Driver!Cardinality, Kept!Cardinality, Driver!Posted,
  Kept!Posted, Driver!vaultDeposit, Kept!vaultDeposit, Driver!vaultDeployed,
  Kept!vaultDeployed, Driver!vaultAllocated, Kept!vaultAllocated,
  Driver!vaultSettled, Kept!vaultSettled, Driver!vaultClaimed,
  Kept!vaultClaimed, Driver!convertedToHKD, Kept!convertedToHKD,
  Driver!convertedToUSDC, Kept!convertedToUSDC, Driver!sentToMsb,
  Kept!sentToMsb, Driver!brokerFunded, Kept!brokerFunded

LEMMA SameStart ==
  ASSUME NEW terms
  PROVE  Driver!StartOf(terms) = Kept!StartOf(terms)
BY Zenon DEF Driver!StartOf, Kept!StartOf, Driver!Workers, Kept!Workers,
  Driver!Idle, Kept!Idle

LEMMA DriverKeeps ==
  ASSUME Kept!IInv, Driver!Next
  PROVE  Kept!IInv'
<1>1. Kept!Act /\ deal' = deal
  BY SameAct DEF Driver!Next
<1> QED
  BY <1>1, DealsAssumption, Kept!ActKeeps DEF Kept!ActKeeps

LEMMA DriverRests ==
  ASSUME Kept!IInv, UNCHANGED <<driverVars, deal>>
  PROVE  Kept!IInv'
BY DEF driverVars, Kept!IInv, Kept!WorldTypes, Kept!DriverTypes, Kept!Delivered,
       Kept!PhaseFollowsFact, Kept!Seeing

LEMMA DriverStarts ==
  ASSUME NEW pair \in Together, Driver!StartOf(pair[2])
  PROVE  Kept!IInv
<1>1. pair[2] \in Deals
  BY TogetherAssumption
<1>2. Kept!StartOf(pair[2])
  BY SameStart
<1> QED
  BY <1>1, <1>2, DealsAssumption, Kept!StartHolds DEF Kept!StartHolds

\* A driver posts amounts, and moves amounts at the broker.
LEMMA DriverPosts ==
  ASSUME Kept!IInv, Typed, Driver!Next, BrokerCash
  PROVE  ledger' \in [Accounts -> Int] /\ buyingPower' \in Int
<1>1. Accounts = Kept!Accounts
  BY DEF Accounts, Kept!Accounts, CashAccounts, Kept!CashAccounts,
         PositionAccounts, Kept!PositionAccounts
<1>2. Kept!Act
  BY SameAct DEF Driver!Next
<1>3. ledger' \in [Accounts -> Int]
  <2>1. ledger \in Kept!LedgerType
    BY <1>1 DEF Typed, Kept!LedgerType
  <2>2. ledger' \in Kept!LedgerType
    BY <1>2, <2>1, DealsAssumption, Kept!LedgerKeeps DEF Kept!LedgerKeeps, Kept!IInv
  <2> QED
    BY <1>1, <2>2 DEF Kept!LedgerType
<1>4. vault.deployed \in Int /\ ipo.allocated \in Int /\ ipo'.allocated \in Int
  BY DriverKeeps DEF Kept!IInv, Kept!WorldTypes, Kept!VaultType, Kept!IpoType
<1> QED
  BY <1>3, <1>4 DEF BrokerCash, Typed

-----------------------------------------------------------------------------
(* Both together.                                                          *)

Side == IInv /\ Typed /\ AllBacked /\ Kept!IInv

LEMMA DeskStepKeeps ==
  ASSUME Side, Next, UNCHANGED <<driverVars, deal>>
  PROVE  Side'
BY ActKeeps, ActBacked, DriverRests DEF Side, Next, IInv

LEMMA DriverStepKeeps ==
  ASSUME Side, Driver!Next, BrokerCash, UNCHANGED <<deskVars, scenario>>
  PROVE  Side'
<1>1. UNCHANGED <<order, broker, reservation, intent, worker, spent, settlement>>
  BY DEF deskVars
<1>2. IInv' /\ AllBacked'
  BY <1>1, BesideKeeps, StillBacked DEF Side
<1>3. Typed'
  BY DriverPosts DEF Side, Typed, deskVars
<1> QED
  BY <1>2, <1>3, DriverKeeps DEF Side

LEMMA SideInvariance == OrchestratorSpec => []Side
<1>1. OrchestratorInit => Side
  BY InitHolds, InitBacked, DriverStarts DEF OrchestratorInit, Side
<1>2. Side /\ [OrchestratorNext]_<<vars, driverVars, deal>> => Side'
  <2>1. ASSUME Side, UNCHANGED <<vars, driverVars, deal>>
        PROVE  Side'
    <3>1. UNCHANGED <<order, broker, reservation, intent, worker, spent, settlement>>
      BY <2>1 DEF vars, worldVars, storeVars
    <3>2. IInv' /\ AllBacked' /\ Typed'
      BY <2>1, <3>1, BesideKeeps, StillBacked DEF Side, Typed, vars, worldVars, storeVars
    <3> QED
      BY <2>1, <3>2, DriverRests DEF Side
  <2> QED
    BY <2>1, DeskStepKeeps, DriverStepKeeps DEF OrchestratorNext
<1> QED
  BY <1>1, <1>2, PTL DEF OrchestratorSpec

\* The desk and the driver share a ledger and a balance at the broker, and every
\* variable of the desk keeps its type beside any vault (TypeOK).
THEOREM DeskTyped == OrchestratorSpec => []TypeOK
BY TypesFollow, SideInvariance, PTL DEF Side

\* There is a share behind every token of the desk, whatever the vaults do
\* (await_custody before attest_and_mint, settle_onchain).
THEOREM DeskBacked == OrchestratorSpec => []TokensBacked
BY SharesFollow, SideInvariance, PTL DEF Side, IInv

\* A trade of the desk is not dropped, though vaults draw on the same balance at
\* the broker (await_fill, consume, the compensations).
THEOREM DeskKeepsFills == OrchestratorSpec => []FilledNeverDropped
BY FillsFollow, SideInvariance, PTL DEF Side

\* Holds end with their intents, though what a vault books changes what can be
\* funded (consume, release).
THEOREM DeskEndsHolds == OrchestratorSpec => []HoldsEndWithIntents
BY HoldsFollow, SideInvariance, PTL DEF Side

\* A vault's phase never runs ahead of the event that justifies it, whatever the
\* desk does beside the driver (the rule in the header of the driver).
THEOREM DriverJustified == OrchestratorSpec => []PhaseFollowsFact
<1>1. Kept!IInv => PhaseFollowsFact
  BY DEF Kept!IInv, Kept!PhaseFollowsFact, PhaseFollowsFact, Driver!PhaseFollowsFact,
         Kept!Invested, Driver!Invested
<1> QED
  BY <1>1, SideInvariance, PTL DEF Side

-----------------------------------------------------------------------------
(* The books of the desk beside a vault that holds nobody's money.         *)

Beside ==
    /\ CourseKept
    /\ deal.raised = 0 => Kept!Quiet /\ BooksKept

\* Such a vault posts nothing and moves no cash.
LEMMA DriverIdles ==
  ASSUME Kept!IInv, Kept!Quiet, deal.raised = 0, Driver!Next, BrokerCash, Typed
  PROVE  Kept!Quiet' /\ UNCHANGED <<ledger, buyingPower>>
<1>1. Kept!WorldTypes /\ Kept!Act
  BY SameAct DEF Driver!Next, Kept!IInv
<1>2. Kept!Quiet' /\ UNCHANGED <<ledger, wire, ipo>>
  BY <1>1, DealsAssumption, Kept!QuietStays DEF Kept!QuietStays
<1>3. ipo.allocated \in Int
  BY <1>1 DEF Kept!WorldTypes, Kept!IpoType
<1>4. buyingPower' = buyingPower + 0 - (ipo'.allocated - ipo.allocated)
  BY <1>2 DEF BrokerCash
<1>5. buyingPower' = buyingPower
  BY <1>2, <1>3, <1>4 DEF Typed
<1> QED
  BY <1>2, <1>5

LEMMA DeskStepBooks ==
  ASSUME Side, Beside, Next, UNCHANGED <<driverVars, deal>>
  PROVE  Beside'
<1>1. Kept!Quiet => Kept!Quiet'
  BY DEF driverVars, Kept!Quiet, Kept!At
<1>2. BooksKept => BooksKept'
  BY ActBooks DEF Side, IInv, Beside, Next
<1>3. CourseKept'
  BY ActStraight DEF Side, IInv, Beside, CourseKept, Next
<1> QED
  BY <1>1, <1>2, <1>3 DEF Beside

LEMMA DriverStepBooks ==
  ASSUME Side, Beside, Driver!Next, BrokerCash, UNCHANGED <<deskVars, scenario>>
  PROVE  Beside'
<1>1. UNCHANGED <<orderVars, spent>>
  BY DEF deskVars, orderVars
<1>2. CourseKept'
  BY <1>1, CourseStays DEF Beside
<1>3. ASSUME deal.raised = 0
      PROVE  Kept!Quiet' /\ BooksKept'
  <2>1. Kept!Quiet' /\ UNCHANGED <<ledger, buyingPower>>
    BY <1>3, DriverIdles DEF Side, Beside
  <2> QED
    BY <1>1, <1>3, <2>1, BooksStay DEF Side, IInv, Beside
<1> QED
  BY <1>2, <1>3 DEF Beside, Driver!Next

LEMMA BesideInvariance == OrchestratorSpec => [](Side /\ Beside)
<1>1. OrchestratorInit => Beside
  <2> SUFFICES ASSUME OrchestratorInit
               PROVE  Beside
    OBVIOUS
  <2>1. PICK pair \in Together : Driver!StartOf(pair[2])
    BY DEF OrchestratorInit
  <2>2. Kept!StartOf(pair[2])
    BY <2>1, SameStart
  <2>3. Kept!Quiet
    BY <2>2, DealsAssumption, Kept!QuietStarts DEF Kept!QuietStarts
  <2> QED
    BY <2>3, InitBooks DEF OrchestratorInit, Beside
<1>2. Side /\ Beside /\ [OrchestratorNext]_<<vars, driverVars, deal>> => Beside'
  <2>1. ASSUME Side, Beside, UNCHANGED <<vars, driverVars, deal>>
        PROVE  Beside'
    <3>1. UNCHANGED <<orderVars, spent, ledger, buyingPower, scenario>>
      BY <2>1 DEF vars, worldVars, storeVars, orderVars
    <3>2. CourseKept' /\ (BooksKept => BooksKept')
      BY <2>1, <3>1, CourseStays, BooksStay DEF Side, IInv, Beside
    <3>3. Kept!Quiet => Kept!Quiet'
      BY <2>1 DEF driverVars, Kept!Quiet, Kept!At
    <3> QED
      BY <2>1, <3>2, <3>3 DEF Beside
  <2> QED
    BY <2>1, DeskStepBooks, DriverStepBooks DEF OrchestratorNext
<1> QED
  BY <1>1, <1>2, SideInvariance, PTL DEF OrchestratorSpec

\* The books of the desk agree with the custodian, the tokens and the broker
\* whenever every intent has run to its end, nothing was interrupted and no
\* vault's money passed through them, though the driver runs beside the desk and
\* the vault may be cancelled under it (the postings of the two sagas, the checks
\* of the reconciler).
THEOREM DeskBooks == OrchestratorSpec => []BooksMatchAlone
<1>1. Side /\ Beside => BooksMatchAlone
  BY BooksMatch DEF Side, Beside, BooksMatchAlone
<1> QED
  BY <1>1, BesideInvariance, PTL

-----------------------------------------------------------------------------
(* The escrow on the chain, which the books keep for both.                 *)

LockedMatched ==
    spent.interrupts = 0 /\ Kept!Counted =>
        ledger["CHAIN_ESCROW"] = Locked + Kept!Share

Escrowed == Kept!Course /\ LockedMatched

LEMMA DriverLedger ==
  ASSUME Typed
  PROVE  Kept!LedgerTyped
<1>1. Accounts = Kept!Accounts
  BY DEF Accounts, Kept!Accounts, CashAccounts, Kept!CashAccounts,
         PositionAccounts, Kept!PositionAccounts
<1> QED
  BY <1>1 DEF Typed, Kept!LedgerTyped, Kept!LedgerType

\* What the driver remembers is its own.
LEMMA ShareRestsBeside ==
  ASSUME UNCHANGED <<driverVars, deal>>
  PROVE  /\ Kept!Course' <=> Kept!Course
         /\ Kept!Counted' <=> Kept!Counted
         /\ Kept!Share' = Kept!Share
<1>1. UNCHANGED <<vault, ipo, subscription, redemption, mandate, tick, mandateSpent>>
  BY DEF driverVars
<1>2. /\ \A w : /\ Kept!Booking(w)' <=> Kept!Booking(w)
                /\ Kept!Netting(w)' <=> Kept!Netting(w)
                /\ Kept!Netted(w)' <=> Kept!Netted(w)
      /\ Kept!grossProceeds' = Kept!grossProceeds
      /\ Kept!Counted' <=> Kept!Counted
  BY <1>1 DEF Kept!Booking, Kept!Netting, Kept!Netted, Kept!Handling, Kept!At,
     Kept!grossProceeds, Kept!Counted
<1>3. Kept!Share' = Kept!Share
  BY <1>1, <1>2 DEF Kept!Share
<1>4. Kept!ChainCash' <=> Kept!ChainCash
  BY <1>1, <1>2 DEF Kept!ChainCash
<1>5. Kept!Marks' <=> Kept!Marks
  BY <1>1, <1>2 DEF Kept!Marks, Kept!At
<1>6. Kept!Orderly' <=> Kept!Orderly
  BY <1>1, <1>2 DEF Kept!Orderly, Kept!Calm, Kept!Alone, Kept!Settled, Kept!At
<1> QED
  BY <1>2, <1>3, <1>4, <1>5, <1>6 DEF Kept!Course

LEMMA EscrowTyped ==
  ASSUME Side
  PROVE  ledger["CHAIN_ESCROW"] \in Int /\ Locked \in Int /\ Kept!Share \in Int
<1>1. Kept!Share \in Int
  BY DealsAssumption, Kept!ShareTyped DEF Kept!ShareTyped, Side, Kept!IInv
<1>2. Locked \in Int
  BY LockedTyped DEF Side, IInv
<1> QED
  BY <1>1, <1>2 DEF Side, Typed, Accounts, CashAccounts

LEMMA DeskStepLocks ==
  ASSUME Side, Side', Beside, Escrowed, Next, UNCHANGED <<driverVars, deal>>
  PROVE  Escrowed'
<1>1. Kept!Course' /\ (Kept!Counted' <=> Kept!Counted) /\ Kept!Share' = Kept!Share
  BY ShareRestsBeside DEF Escrowed
<1>2. ASSUME spent'.interrupts = 0, Kept!Counted'
      PROVE  ledger'["CHAIN_ESCROW"] = Locked' + Kept!Share'
  <2>1. Shape /\ Typed /\ Act
    BY DEF Side, IInv, Next
  <2>2. spent.interrupts = 0
    BY <1>2, <2>1, ActSpends
  <2>3. AllStraight
    BY <2>2 DEF Beside, CourseKept
  <2>4. /\ ledger'["CHAIN_ESCROW"] - ledger["CHAIN_ESCROW"] = Locked' - Locked
        /\ Locked' \in Int
    BY <1>2, <2>1, <2>3, ActFollows, LockStep
  <2>5. ledger["CHAIN_ESCROW"] = Locked + Kept!Share
    BY <1>1, <1>2, <2>2 DEF Escrowed, LockedMatched
  <2>6. /\ ledger["CHAIN_ESCROW"] \in Int /\ Locked \in Int /\ Kept!Share \in Int
        /\ ledger'["CHAIN_ESCROW"] \in Int
    BY EscrowTyped DEF Side, Typed, Accounts, CashAccounts
  <2> QED
    BY <1>1, <2>4, <2>5, <2>6
<1> QED
  BY <1>1, <1>2 DEF Escrowed, LockedMatched

LEMMA LockedStays ==
  ASSUME UNCHANGED orderVars
  PROVE  Locked' = Locked
<1>1. \A o \in Orders : Lock(o)' = Lock(o)
  BY OwnPart, LockStands DEF orderVars, Milestones
<1> QED
  BY <1>1 DEF Locked

LEMMA DriverStepLocks ==
  ASSUME Side, Side', Escrowed, Driver!Next, UNCHANGED <<deskVars, scenario>>
  PROVE  Escrowed'
<1>1. UNCHANGED <<orderVars, spent>>
  BY DEF deskVars, orderVars
<1>2. Locked' = Locked
  BY <1>1, LockedStays
<1>3. Kept!IInv /\ Kept!LedgerTyped /\ Kept!Course /\ deal' = deal /\ Kept!Act
  BY SameAct, DriverLedger DEF Side, Escrowed, Driver!Next
<1>4. Kept!Course' /\ Kept!Even
  BY <1>3, DealsAssumption, Kept!CourseKeeps DEF Kept!CourseKeeps
<1>5. ASSUME spent'.interrupts = 0, Kept!Counted'
      PROVE  ledger'["CHAIN_ESCROW"] = Locked' + Kept!Share'
  <2>1. Kept!Counted
    BY <1>3, <1>5, DealsAssumption, Kept!CountedBefore DEF Kept!CountedBefore
  <2>2. ledger["CHAIN_ESCROW"] = Locked + Kept!Share
    BY <1>1, <1>5, <2>1 DEF Escrowed, LockedMatched
  <2>3. ledger'["CHAIN_ESCROW"] - ledger["CHAIN_ESCROW"] = Kept!Share' - Kept!Share
    BY <1>4, <1>5 DEF Kept!Even
  <2>4. /\ ledger["CHAIN_ESCROW"] \in Int /\ Locked \in Int /\ Kept!Share \in Int
        /\ ledger'["CHAIN_ESCROW"] \in Int
    BY EscrowTyped DEF Side, Typed, Accounts, CashAccounts
  <2>5. Kept!Share' \in Int
    <3>1. /\ Kept!grossProceeds' \in Int
          /\ vault'.deposits \in Int /\ vault'.deployed \in Int
      BY DEF Side, Kept!IInv, Kept!WorldTypes, Kept!VaultType, Kept!IpoType, Kept!grossProceeds
    <3> DEFINE paid == IF subscription = "booked" THEN vault.deposits ELSE 0
               held == IF \E w \in Kept!Workers : Kept!Booking(w) THEN 0 ELSE vault.deployed
               back == IF vault.phase \in Kept!Claimed /\ ~\E w \in Kept!Workers : Kept!Netting(w)
                       THEN Kept!grossProceeds ELSE 0
               out == IF redemption = "booked" THEN Kept!grossProceeds ELSE 0
    <3>2. paid' \in Int /\ held' \in Int /\ back' \in Int /\ out' \in Int
      BY <3>1
    <3>3. Kept!Share' = paid' - held' + back' - out'
      BY DEF Kept!Share
    <3> HIDE DEF paid, held, back, out
    <3> QED
      BY <3>2, <3>3
  <2> QED
    BY <1>2, <2>2, <2>3, <2>4, <2>5
<1> QED
  BY <1>4, <1>5 DEF Escrowed, LockedMatched

LEMMA EscrowedInvariance == OrchestratorSpec => [](Side /\ Beside /\ Escrowed)
<1>1. OrchestratorInit => Escrowed
  <2> SUFFICES ASSUME OrchestratorInit
               PROVE  Escrowed
    OBVIOUS
  <2>1. PICK pair \in Together : Driver!StartOf(pair[2])
    BY DEF OrchestratorInit
  <2>2. Kept!StartOf(pair[2])
    BY <2>1, SameStart
  <2>3. Kept!Course /\ Kept!Share = 0
    BY <2>2, DealsAssumption, Kept!CourseStarts DEF Kept!CourseStarts
  <2>4. Locked = 0 /\ ledger["CHAIN_ESCROW"] = 0
    BY InitLocked DEF OrchestratorInit
  <2> QED
    BY <2>3, <2>4 DEF Escrowed, LockedMatched
<1>2. (Side /\ Beside) /\ Side' /\ Escrowed
        /\ [OrchestratorNext]_<<vars, driverVars, deal>> => Escrowed'
  <2>1. ASSUME Escrowed, UNCHANGED <<vars, driverVars, deal>>
        PROVE  Escrowed'
    <3>1. UNCHANGED <<orderVars, spent, ledger>>
      BY <2>1 DEF vars, worldVars, storeVars, orderVars
    <3>2. Locked' = Locked
      BY <3>1, LockedStays
    <3> QED
      BY <2>1, <3>1, <3>2, ShareRestsBeside DEF Escrowed, LockedMatched
  <2> QED
    BY <2>1, DeskStepLocks, DriverStepLocks DEF OrchestratorNext
<1> QED
  BY <1>1, <1>2, BesideInvariance, PTL DEF OrchestratorSpec

\* What the ledger says is locked on the chain is there, in the escrow of the
\* pending orders and in the vault, between any two effects of the intents and
\* of the driver, for every pair of a scenario and a deal (checkChainEscrow of
\* the reconciler; buy_escrowed, buy_deployed and the postings of a vault).
THEOREM EscrowBooked == OrchestratorSpec => []ChainEscrowBooked
<1>1. Side /\ Beside /\ Escrowed => ChainEscrowBooked
  <2> SUFFICES ASSUME Side, Beside, Escrowed, Undisturbed, Driver!Booked
               PROVE  ledger["CHAIN_ESCROW"] =
                        vault.usdc + SumOver({b \in Buys : /\ intent[b].state # "None"
                                                           /\ order[b] = "PENDING"},
                                             LAMBDA b : Escrow[b])
    BY DEF ChainEscrowBooked
  <2>1. Kept!Booked
    BY DEF Driver!Booked, Kept!Booked, Driver!Workers, Kept!Workers,
           Driver!Invested, Kept!Invested
  <2>2. Kept!Counted /\ Kept!Share = vault.usdc
    BY <2>1, DealsAssumption, Kept!ShareRests DEF Kept!ShareRests, Side, Kept!IInv, Escrowed
  <2>3. Locked = SumOver({b \in Buys : intent[b].state # "None" /\ order[b] = "PENDING"},
                         LAMBDA b : Escrow[b])
    BY LockRest DEF Side, IInv, Beside, CourseKept, Undisturbed
  <2>4. ledger["CHAIN_ESCROW"] = Locked + vault.usdc
    BY <2>2 DEF Escrowed, LockedMatched, Undisturbed
  <2>5. Locked \in Int /\ vault.usdc \in Int
    BY <2>2, EscrowTyped
  <2>6. ledger["CHAIN_ESCROW"] = vault.usdc + Locked
    BY <2>4, <2>5
  <2> QED
    BY <2>3, <2>6
<1> QED
  BY <1>1, EscrowedInvariance, PTL

=============================================================================
