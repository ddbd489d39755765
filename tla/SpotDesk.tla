------------------------------ MODULE SpotDesk ------------------------------
(***************************************************************************)
(* The spot desk of the orchestrator for one ticker: the watcher, the      *)
(* buy and sell sagas, the treasury's reservations, the ledger and the     *)
(* reconciler's interlock, among traders, chain, broker, money services    *)
(* provider (MSB) and custodian, which all act on their own.               *)
(*                                                                         *)
(* A step is split where it awaits an effect whose order matters: the      *)
(* effect, the posting that books it, the reservation, and the save of the *)
(* stage (place "save").  An interruption, a crash or a call whose outcome *)
(* stays unknown, may come at any place; what follows it is the step's     *)
(* resolver.  A WAIT is a step that is not enabled.  SagaRunner has the    *)
(* rest: journal, leases, retries and unwinding in its detail.             *)
(*                                                                         *)
(* Abstracted: amounts count shares at the limit price (Postings), and     *)
(* whether they make a board lot is left open; quotes do not move, so what *)
(* a step recomputes it finds again; one intent of each order; a deployed  *)
(* order is not cancelled by hand on the chain.                            *)
(***************************************************************************)
EXTENDS Postings, Sequences, Functions, FiniteSetsExt

CONSTANTS
    Buys, Sells,         \* the orders
    Shares,              \* what each asks to trade
    Escrow,              \* what each buy has paid in
    Headroom,            \* what is held for a purchase on top of its price
    Scenarios            \* what may come together: the orders placed, what the
                         \* desk has to work with in either currency, the ceiling
                         \* on what an intent may hold of it, whether counterparties
                         \* fail, and the bounds on interruptions and on operator's
                         \* calls

Orders == Buys \cup Sells

ASSUME DeskAssumption ==
    /\ IsFiniteSet(Orders)
    /\ Buys \cap Sells = {}
    /\ Shares \in [Orders -> Nat \ {0}]
    /\ Escrow \in [Buys -> Nat \ {0}]
    /\ Headroom \in Nat
    /\ Scenarios \subseteq [placed : SUBSET Orders, float : Nat, ceiling : Nat,
                             faults : BOOLEAN, interrupts : Nat, operator : Nat]

VARIABLES
    order,         \* the orders' states on the chain
    broker,        \* the broker's orders
    buyingPower,   \* the cash at the broker
    conversion,    \* the MSB's conversion for an intent
    payout,        \* the MSB's payout to the broker for an intent
    settlement,    \* the custodian's settlement of an order's trade
    intent,        \* the stored intents: state, cursor and facts
    worker,        \* where the step of an intent is, and what it found
    unbooked,      \* the buys whose intent is stored and escrow not booked
    reservation,   \* the treasury's hold for an intent
    ledger,        \* the balances of the accounts
    broken,        \* whether a backing break is open
    scenario,      \* the scenario; it does not change
    spent          \* what has been used up of its bounds

worldVars == <<order, broker, buyingPower, conversion, payout, settlement>>
storeVars == <<unbooked, reservation, ledger, broken>>
vars == <<worldVars, storeVars, intent, worker, scenario, spent>>

-----------------------------------------------------------------------------
spotBuySaga ==
    <<"screen", "validate_order", "reserve_funding", "deploy_escrow",
      "fund_execution", "place_order", "await_fill", "settle_crossing",
      "await_custody", "attest_and_mint">>

spotSellSaga ==
    <<"screen", "validate_order", "place_order", "await_fill",
      "reserve_payout", "await_custody_release", "settle_onchain", "repatriate">>

Saga(o) == IF o \in Buys THEN spotBuySaga ELSE spotSellSaga

OrderStates == {"PENDING", "DEPLOYED", "FILLED", "SETTLED", "CANCELLED"}
BrokerOrder ==
    [status : {"None", "NEW", "PARTIALLY_FILLED", "FILLED", "EXPIRED",
               "CANCELLED", "REJECTED"},
     filled : Nat, fair : BOOLEAN]
Operations   == {"None", "PENDING", "SETTLED", "FAILED"}
Reservations == {"None", "HELD", "CONSUMED", "RELEASED", "EXPIRED"}
States == {"None", "RUNNING", "UNWINDING", "COMPLETED", "CANCELLED", "NEEDS_MANUAL"}
Facts  == {"reservationId", "justInTime", "convertedAmount"}
Places == {"start", "reserve", "hold", "book", "pay", "consume", "send", "rebook",
           "cancel", "release", "save", "lost"}

Resting == {"None", "COMPLETED", "CANCELLED", "NEEDS_MANUAL"}

\* The size of an order: what the escrow covers at the limit, at most.
planned(o) == IF o \in Buys THEN Min({Shares[o], Escrow[o]}) ELSE Shares[o]
filledQuantity(o) == broker[o].filled
BrokerDone(o) == broker[o].status \in {"FILLED", "EXPIRED", "CANCELLED"}

\* What the chain has outstanding and what the custodian holds.
SumOver(S, f(_)) == SumFunction([x \in S |-> f(x)])
Issued == SumOver(Sells, LAMBDA s : Shares[s])
positionSupply ==
    Issued + SumOver({b \in Buys : order[b] = "FILLED"}, filledQuantity)
           - SumOver({s \in Sells : order[s] = "SETTLED"}, LAMBDA s : Shares[s])
custodyHoldings ==
    Issued + SumOver({b \in Buys : settlement[b] = "SETTLED"}, filledQuantity)
           - SumOver({s \in Sells : settlement[s] = "SETTLED"}, filledQuantity)

Idle == [at |-> "start", found |-> {}]

Init ==
    /\ order = [o \in Orders |-> "PENDING"]
    /\ broker = [o \in Orders |-> [status |-> "None", filled |-> 0, fair |-> TRUE]]
    /\ conversion = [o \in Orders |-> "None"]
    /\ payout = [o \in Buys |-> "None"]
    /\ settlement = [o \in Orders |-> "None"]
    /\ intent = [o \in Orders |-> [state |-> "None", cursor |-> 0, facts |-> {}]]
    /\ worker = [o \in Orders |-> Idle]
    /\ unbooked = {}
    /\ reservation = [o \in Orders |-> "None"]
    /\ broken = FALSE
    /\ spent = [interrupts |-> 0, operator |-> 0]
    /\ scenario \in Scenarios
    /\ buyingPower = scenario.float
    /\ ledger = [a \in Accounts |->
          CASE a \in {"BROKER_BUFFER", "TREASURY_USDC"} -> scenario.float
            [] a = "CUSTODY_HOLDINGS"   -> Issued
            [] a = "CUSTOMER_POSITIONS" -> -Issued
            [] OTHER                    -> 0]

-----------------------------------------------------------------------------
(* The runner.  A definition set just before another one and with its      *)
(* parameters is a slip of that code; it is used by no specification, and  *)
(* the properties are shown to notice it.                                  *)

NextStep(o) == Saga(o)[intent[o].cursor + 1]

\* There is a step to run.
Driven(o) == intent[o].state = "RUNNING" /\ intent[o].cursor < Len(Saga(o))

Running(o, step, place) ==
    /\ Driven(o)
    /\ NextStep(o) = step
    /\ worker[o].at = place

Knows(o, fact) == fact \in intent[o].facts

post(entry) == ledger' = Posted(ledger, entry)

Goto(o, place) ==
    /\ worker' = [worker EXCEPT ![o].at = place]
    /\ UNCHANGED intent

\* What a step may come to, other than WAIT.
ADVANCE(o, found) ==
    /\ worker' = [worker EXCEPT ![o] = [at |-> "save", found |-> found]]
    /\ UNCHANGED intent
Stop(o, state) ==
    /\ intent' = [intent EXCEPT ![o].state = state]
    /\ worker' = [worker EXCEPT ![o] = Idle]
UNWIND(o) == Stop(o, "UNWINDING")
MANUAL(o) == Stop(o, "NEEDS_MANUAL")

\* The stage and the facts are saved; past the last step the intent is complete.
save(o) ==
    LET next == intent[o].cursor + 1 IN
    /\ intent[o].state = "RUNNING"
    /\ worker[o].at = "save"
    /\ intent' = [intent EXCEPT ![o] =
          [state  |-> IF next = Len(Saga(o)) THEN "COMPLETED" ELSE "RUNNING",
           cursor |-> next,
           facts  |-> @.facts \cup worker[o].found]]
    /\ worker' = [worker EXCEPT ![o] = Idle]
    /\ UNCHANGED <<worldVars, storeVars, spent>>

\* No step is left: an operator has resumed an intent that had run them all.
complete(o) ==
    /\ intent[o].state = "RUNNING"
    /\ ~Driven(o)
    /\ Stop(o, "COMPLETED")
    /\ UNCHANGED <<worldVars, storeVars, spent>>

-----------------------------------------------------------------------------
(* The watcher.                                                            *)

\* The intent is created first; the escrow of a buy is booked after that.
ingest(o) ==
    /\ o \in scenario.placed
    /\ intent[o].state = "None"
    /\ intent' = [intent EXCEPT ![o].state = "RUNNING"]
    /\ unbooked' = unbooked \cup ({o} \cap Buys)
    /\ UNCHANGED <<worldVars, reservation, ledger, broken, worker, spent>>

bookEscrow(o) ==
    /\ o \in unbooked
    /\ unbooked' = unbooked \ {o}
    /\ post(buyEscrowed(Escrow[o]))
    /\ UNCHANGED <<worldVars, reservation, broken, intent, worker, spent>>

\* The booking fails, or the process dies: the next poll finds the intent.
bookingLost(o) ==
    /\ o \in unbooked
    /\ spent.interrupts < scenario.interrupts
    /\ unbooked' = unbooked \ {o}
    /\ spent' = [spent EXCEPT !.interrupts = @ + 1]
    /\ UNCHANGED <<worldVars, reservation, ledger, broken, intent, worker>>

-----------------------------------------------------------------------------
(* The treasury: a purchase draws on the buffer at the broker, a sale on   *)
(* the float of stablecoins.                                               *)

Account(o) == IF o \in Buys THEN "BROKER_BUFFER" ELSE "TREASURY_USDC"

fundingRequirement(b) == planned(b) + Headroom
usdcOwed(s)           == filledQuantity(s)

\* The amount of the hold of an intent.
Requirement(o) == IF o \in Buys THEN fundingRequirement(o) ELSE usdcOwed(o)

heldTotal(account) ==
    SumOver({o \in Orders : Account(o) = account /\ reservation[o] = "HELD"}, Requirement)

canFund(o) ==
    /\ Requirement(o) <= scenario.ceiling
    /\ Requirement(o) <= ledger[Account(o)] - heldTotal(Account(o))

ReserveStep(o) == IF o \in Buys THEN "reserve_funding" ELSE "reserve_payout"

\* reserve_funding and reserve_payout: from the working balance, or just in time;
\* a purchase ends when what is affordable is less than a board lot.
chooseFunding(o) ==
    /\ Running(o, ReserveStep(o), "start")
    /\ \/ canFund(o) /\ Goto(o, "reserve")
       \/ ~canFund(o) /\ ADVANCE(o, {"justInTime"})
       \/ o \in Buys /\ UNWIND(o)
    /\ UNCHANGED <<worldVars, storeVars, spent>>

\* An existing hold is returned; a balance that has run short since throws.
reserve(o) ==
    /\ Running(o, ReserveStep(o), "reserve")
    /\ \/ /\ reservation[o] = "HELD"
          /\ ADVANCE(o, {"reservationId"})
       \/ /\ reservation[o] # "HELD"
          /\ canFund(o)
          /\ Goto(o, "hold")
       \/ /\ reservation[o] # "HELD"
          /\ ~canFund(o)
          /\ UNWIND(o)
    /\ UNCHANGED <<worldVars, storeVars, spent>>

\* The hold is created on the snapshot read before, whatever others hold by now.
hold(o) ==
    /\ Running(o, ReserveStep(o), "hold")
    /\ reservation' = [reservation EXCEPT ![o] = "HELD"]
    /\ ADVANCE(o, {"reservationId"})
    /\ UNCHANGED <<worldVars, unbooked, ledger, broken, spent>>

\* The hold becomes spending, the last act of settle_crossing and of
\* settle_onchain; a hold that expired meanwhile throws.
consumeNothing(o) ==
    /\ worker[o].at = "consume"
    /\ ADVANCE(o, {})
    /\ UNCHANGED <<worldVars, storeVars, spent>>
consume(o) ==
    /\ worker[o].at = "consume"
    /\ IF ~Knows(o, "reservationId")
       THEN UNCHANGED reservation /\ ADVANCE(o, {})
       ELSE IF reservation[o] \in {"HELD", "CONSUMED"}
            THEN /\ reservation' = [reservation EXCEPT ![o] = "CONSUMED"]
                 /\ ADVANCE(o, {})
            ELSE UNCHANGED reservation /\ UNWIND(o)
    /\ UNCHANGED <<worldVars, unbooked, ledger, broken, spent>>

\* A hold outlives its time.
sweepExpired(o) ==
    /\ reservation[o] = "HELD"
    /\ reservation' = [reservation EXCEPT ![o] = "EXPIRED"]
    /\ UNCHANGED <<worldVars, unbooked, ledger, broken, intent, worker, spent>>

-----------------------------------------------------------------------------
(* The steps that both sagas have.                                         *)

screen(o) ==
    /\ Running(o, "screen", "start")
    /\ \/ ADVANCE(o, {})
       \/ UNWIND(o)
       \/ MANUAL(o)
    /\ UNCHANGED <<worldVars, storeVars, spent>>

\* A name that is not listed, suspended or sold in larger lots stops the order,
\* and so does a cancellation on the chain; a sale stops for a human when the
\* name is delisted or the custodian does not hold the shares.
validate_order(o) ==
    /\ Running(o, "validate_order", "start")
    /\ \/ /\ order[o] # "CANCELLED"
          /\ o \in Sells => custodyHoldings >= Shares[o]
          /\ ADVANCE(o, {})
       \/ UNWIND(o)
       \/ /\ o \in Sells
          /\ order[o] # "CANCELLED"
          /\ MANUAL(o)
    /\ UNCHANGED <<worldVars, storeVars, spent>>

\* An order the broker knows is not placed again.
place_order(o) ==
    /\ Running(o, "place_order", "start")
    /\ \/ /\ broker[o].status # "None"
          /\ ADVANCE(o, {})
          /\ UNCHANGED broker
       \/ /\ broker[o].status = "None"
          /\ o \in Buys
          /\ order[o] = "CANCELLED"
          /\ UNWIND(o)
          /\ UNCHANGED broker
       \/ /\ broker[o].status = "None"
          /\ o \in Buys => order[o] # "CANCELLED"
          /\ \/ /\ broker' = [broker EXCEPT ![o].status = "NEW"]
                /\ ADVANCE(o, {})
             \/ /\ scenario.faults
                /\ broker' = [broker EXCEPT ![o].status = "REJECTED"]
                /\ UNWIND(o)
    /\ UNCHANGED <<order, buyingPower, conversion, payout, settlement, storeVars, spent>>

\* What the broker did is booked; a fill that is not fair, more than ordered or
\* worse than the limit, stops here.
await_fill(o) ==
    LET q == filledQuantity(o) IN
    /\ Running(o, "await_fill", "start")
    /\ \/ /\ broker[o].status = "REJECTED" \/ (BrokerDone(o) /\ q = 0)
          /\ UNWIND(o)
          /\ UNCHANGED ledger
       \/ /\ BrokerDone(o) /\ q > 0 /\ ~broker[o].fair
          /\ MANUAL(o)
          /\ UNCHANGED ledger
       \/ /\ BrokerDone(o) /\ q > 0 /\ broker[o].fair
          /\ post(IF o \in Buys THEN buyFilled(q) ELSE sellFilled(q))
          /\ ADVANCE(o, {})
    /\ UNCHANGED <<worldVars, unbooked, reservation, broken, spent>>

-----------------------------------------------------------------------------
(* The steps of a purchase.                                                *)

deploy_escrow(o) ==
    /\ Running(o, "deploy_escrow", "start")
    /\ \/ /\ order[o] = "PENDING"
          /\ order' = [order EXCEPT ![o] = "DEPLOYED"]
          /\ Goto(o, "book")
       \/ /\ order[o] = "DEPLOYED"
          /\ ADVANCE(o, {})
          /\ UNCHANGED order
       \/ /\ order[o] = "CANCELLED"
          /\ UNWIND(o)
          /\ UNCHANGED order
    /\ UNCHANGED <<broker, buyingPower, conversion, payout, settlement, storeVars, spent>>

bookDeployed(o) ==
    /\ Running(o, "deploy_escrow", "book")
    /\ post(buyDeployed(Escrow[o]))
    /\ ADVANCE(o, {})
    /\ UNCHANGED <<worldVars, unbooked, reservation, broken, spent>>

\* The conversion is looked up before it is created.
startConversion(o) ==
    /\ Running(o, "fund_execution", "start")
    /\ conversion[o] = "None"
    /\ conversion' = [conversion EXCEPT ![o] = "PENDING"]
    /\ UNCHANGED <<order, broker, buyingPower, payout, settlement, storeVars,
                   intent, worker, spent>>

\* From the buffer the order is funded already; just in time it waits for the
\* money to reach the broker.
fund_execution(o) ==
    /\ Running(o, "fund_execution", "start")
    /\ \/ /\ conversion[o] = "FAILED" \/ payout[o] = "FAILED"
          /\ UNWIND(o)
          /\ UNCHANGED payout
       \/ /\ conversion[o] \in {"PENDING", "SETTLED"}
          /\ ~Knows(o, "justInTime")
          /\ ADVANCE(o, {})
          /\ UNCHANGED payout
       \/ /\ conversion[o] = "SETTLED"
          /\ Knows(o, "justInTime")
          /\ \/ /\ payout[o] = "None"
                /\ payout' = [payout EXCEPT ![o] = "PENDING"]
                /\ UNCHANGED <<intent, worker>>
             \/ /\ payout[o] = "SETTLED"
                /\ ADVANCE(o, {"convertedAmount"})
                /\ UNCHANGED payout
    /\ UNCHANGED <<order, broker, buyingPower, conversion, settlement, storeVars, spent>>

\* The conversion is booked unless an earlier pass noted it.
settle_crossingAgain(o) ==
    /\ Running(o, "settle_crossing", "start")
    /\ conversion[o] = "SETTLED"
    /\ post(convertedToHKD(Escrow[o]))
    /\ payout' = [payout EXCEPT ![o] = IF @ = "None" THEN "PENDING" ELSE @]
    /\ Goto(o, "pay")
    /\ UNCHANGED <<order, broker, buyingPower, conversion, settlement, unbooked,
                   reservation, broken, spent>>
settle_crossing(o) ==
    /\ Running(o, "settle_crossing", "start")
    /\ \/ /\ conversion[o] = "FAILED"
          /\ MANUAL(o)
          /\ UNCHANGED <<ledger, payout>>
       \/ /\ conversion[o] = "SETTLED"
          /\ IF Knows(o, "convertedAmount")
             THEN UNCHANGED ledger
             ELSE post(convertedToHKD(Escrow[o]))
          /\ payout' = [payout EXCEPT ![o] = IF @ = "None" THEN "PENDING" ELSE @]
          /\ Goto(o, "pay")
    /\ UNCHANGED <<order, broker, buyingPower, conversion, settlement, unbooked,
                   reservation, broken, spent>>

\* The payout as it stands: waiting for it saves that the conversion is booked.
awaitPayout(o) ==
    /\ Running(o, "settle_crossing", "pay")
    /\ \/ /\ payout[o] = "PENDING"
          /\ intent' = [intent EXCEPT ![o].facts = @ \cup {"convertedAmount"}]
          /\ worker' = [worker EXCEPT ![o] = Idle]
          /\ UNCHANGED ledger
       \/ /\ payout[o] = "FAILED"
          /\ MANUAL(o)
          /\ UNCHANGED ledger
       \/ /\ payout[o] = "SETTLED"
          /\ post(brokerFunded(Escrow[o]))
          /\ Goto(o, "consume")
    /\ UNCHANGED <<worldVars, unbooked, reservation, broken, spent>>

await_custodyUnsettled(o) ==
    /\ Running(o, "await_custody", "start")
    /\ post(custodySettled(filledQuantity(o)))
    /\ ADVANCE(o, {})
    /\ UNCHANGED <<worldVars, unbooked, reservation, broken, spent>>
await_custody(o) ==
    /\ Running(o, "await_custody", "start")
    /\ \/ /\ settlement[o] = "FAILED"
          /\ MANUAL(o)
          /\ UNCHANGED ledger
       \/ /\ settlement[o] = "SETTLED"
          /\ post(custodySettled(filledQuantity(o)))
          /\ ADVANCE(o, {})
    /\ UNCHANGED <<worldVars, unbooked, reservation, broken, spent>>

\* The interlock is read first, the mint is sent after it.
attest_and_mint(o) ==
    /\ Running(o, "attest_and_mint", "start")
    /\ \/ broken /\ MANUAL(o)
       \/ ~broken /\ Goto(o, "send")
    /\ UNCHANGED <<worldVars, storeVars, spent>>

confirmBuy(o) ==
    /\ Running(o, "attest_and_mint", "send")
    /\ \/ /\ order[o] = "DEPLOYED"
          /\ order' = [order EXCEPT ![o] = "FILLED"]
          /\ Goto(o, "book")
       \/ /\ order[o] = "FILLED"
          /\ ADVANCE(o, {})
          /\ UNCHANGED order
    /\ UNCHANGED <<broker, buyingPower, conversion, payout, settlement, storeVars, spent>>

bookMinted(o) ==
    /\ Running(o, "attest_and_mint", "book")
    /\ post(buyMinted(Escrow[o], filledQuantity(o)))
    /\ ADVANCE(o, {})
    /\ UNCHANGED <<worldVars, unbooked, reservation, broken, spent>>

-----------------------------------------------------------------------------
(* The steps of a sale.                                                    *)

await_custody_release(o) ==
    /\ Running(o, "await_custody_release", "start")
    /\ \/ settlement[o] = "FAILED"  /\ MANUAL(o)
       \/ settlement[o] = "SETTLED" /\ ADVANCE(o, {})
    /\ UNCHANGED <<worldVars, storeVars, spent>>

\* Without a hold, the seller waits until the float can pay.
settle_onchain(o) ==
    /\ Running(o, "settle_onchain", "start")
    /\ Knows(o, "justInTime") => canFund(o)
    /\ \/ /\ order[o] = "PENDING"
          /\ order' = [order EXCEPT ![o] = "SETTLED"]
          /\ Goto(o, "book")
       \/ /\ order[o] = "SETTLED"
          /\ Goto(o, "consume")
          /\ UNCHANGED order
       \/ /\ order[o] = "CANCELLED"
          /\ UNWIND(o)
          /\ UNCHANGED order
    /\ UNCHANGED <<broker, buyingPower, conversion, payout, settlement, storeVars, spent>>

\* The resolver ("rebook") returns without consuming the hold.
bookSettled(o) ==
    /\ Running(o, "settle_onchain", "book") \/ Running(o, "settle_onchain", "rebook")
    /\ post(sellSettled(filledQuantity(o), filledQuantity(o)))
    /\ IF worker[o].at = "book" THEN Goto(o, "consume") ELSE ADVANCE(o, {})
    /\ UNCHANGED <<worldVars, unbooked, reservation, broken, spent>>

\* The proceeds are handed over in the books, then for real, then awaited.
repatriate(o) ==
    /\ Running(o, "repatriate", "start")
    /\ \/ /\ conversion[o] = "None"
          /\ post(sentToMsb(filledQuantity(o)))
          /\ Goto(o, "send")
       \/ /\ conversion[o] = "FAILED"
          /\ MANUAL(o)
          /\ UNCHANGED ledger
       \/ /\ conversion[o] = "SETTLED"
          /\ post(convertedToUSDC(filledQuantity(o)))
          /\ ADVANCE(o, {})
    /\ UNCHANGED <<worldVars, unbooked, reservation, broken, spent>>

createConversion(o) ==
    /\ Running(o, "repatriate", "send")
    /\ conversion' = [conversion EXCEPT ![o] = "PENDING"]
    /\ Goto(o, "start")
    /\ UNCHANGED <<order, broker, buyingPower, payout, settlement, storeVars, spent>>

-----------------------------------------------------------------------------
(* Interruptions, recovery, unwinding, and the operator.                   *)

\* The process dies or a call's outcome stays unknown.  Before its outcome is
\* journalled the attempt is in flight, after that the step is run again.
interrupt(o) ==
    /\ Driven(o)
    /\ worker[o].at # "lost"
    /\ spent.interrupts < scenario.interrupts
    /\ \/ worker' = [worker EXCEPT ![o] = [at |-> "lost", found |-> {}]]
       \/ /\ worker[o].at = "save"
          /\ worker' = [worker EXCEPT ![o] = Idle]
    /\ spent' = [spent EXCEPT !.interrupts = @ + 1]
    /\ UNCHANGED <<worldVars, storeVars, intent>>

\* A counterparty is out of reach until the retries run out.
outage(o) ==
    /\ Driven(o)
    /\ worker[o].at = "start"
    /\ spent.interrupts < scenario.interrupts
    /\ MANUAL(o)
    /\ spent' = [spent EXCEPT !.interrupts = @ + 1]
    /\ UNCHANGED <<worldVars, storeVars>>

\* Where the resolver of a lost step has it go on: it vouches for what it finds
\* done, and cannot tell what it does not find.
resolveDeployed(o) ==
    CASE order[o] = "DEPLOYED"  -> "book"
      [] order[o] = "CANCELLED" -> "unwind"
      [] OTHER                  -> "park"
resolvePlaced(o) ==
    CASE broker[o].status = "REJECTED" -> "unwind"
      [] broker[o].status = "None"     -> "park"
      [] OTHER                         -> "save"
resolveFunded(o)      == IF conversion[o] = "None" THEN "park" ELSE "start"
resolveCrossed(o)     == IF conversion[o] = "None" THEN "park" ELSE "start"
resolveMinted(o)      == IF order[o] = "FILLED" THEN "book" ELSE "park"
resolveSettled(o)     == IF order[o] = "SETTLED" THEN "rebook" ELSE "park"
resolveRepatriated(o) == IF conversion[o] = "None" THEN "park" ELSE "start"

Resolved(o) ==
    LET step == NextStep(o) IN
    CASE step = "deploy_escrow"   -> resolveDeployed(o)
      [] step = "fund_execution"  -> resolveFunded(o)
      [] step = "place_order"     -> resolvePlaced(o)
      [] step = "settle_crossing" -> resolveCrossed(o)
      [] step = "attest_and_mint" -> resolveMinted(o)
      [] step = "settle_onchain"  -> resolveSettled(o)
      [] step = "repatriate"      -> resolveRepatriated(o)
      [] OTHER                    -> "park"

recoverAnyhow(o) ==
    /\ Driven(o)
    /\ worker[o].at = "lost"
    /\ Goto(o, Resolved(o))
    /\ UNCHANGED <<worldVars, storeVars, spent>>
recover(o) ==
    /\ Driven(o)
    /\ worker[o].at = "lost"
    /\ CASE Resolved(o) = "unwind" -> UNWIND(o)
         [] Resolved(o) = "park"   -> MANUAL(o)
         [] OTHER                  -> Goto(o, Resolved(o))
    /\ UNCHANGED <<worldVars, storeVars, spent>>

Completed(o, step) == \E i \in 1 .. intent[o].cursor : Saga(o)[i] = step

\* The compensations of place_order and of the reservation, then the end.
unwind(o) ==
    /\ intent[o].state = "UNWINDING"
    /\ worker[o].at = "start"
    /\ IF Completed(o, "place_order") /\ broker[o].status = "NEW"
       THEN Goto(o, "cancel")
       ELSE Goto(o, "release")
    /\ UNCHANGED <<worldVars, storeVars, spent>>

cancelOrder(o) ==
    /\ worker[o].at = "cancel"
    /\ IF broker[o].status = "FILLED"
       THEN MANUAL(o) /\ UNCHANGED broker
       ELSE /\ broker' = [broker EXCEPT ![o].status = "CANCELLED"]
            /\ Goto(o, "release")
    /\ UNCHANGED <<order, buyingPower, conversion, payout, settlement, storeVars, spent>>

releaseAnything(o) ==
    /\ worker[o].at = "release"
    /\ reservation' = [reservation EXCEPT ![o] = "RELEASED"]
    /\ Stop(o, "CANCELLED")
    /\ UNCHANGED <<worldVars, unbooked, ledger, broken, spent>>
release(o) ==
    /\ worker[o].at = "release"
    /\ IF ~Knows(o, "reservationId")
       THEN UNCHANGED reservation /\ Stop(o, "CANCELLED")
       ELSE IF reservation[o] \in {"HELD", "RELEASED"}
            THEN /\ reservation' = [reservation EXCEPT ![o] = "RELEASED"]
                 /\ Stop(o, "CANCELLED")
            ELSE UNCHANGED reservation /\ MANUAL(o)
    /\ UNCHANGED <<worldVars, unbooked, ledger, broken, spent>>

OperatorCall ==
    /\ spent.operator < scenario.operator
    /\ spent' = [spent EXCEPT !.operator = @ + 1]

operatorResume(o) ==
    /\ OperatorCall
    /\ intent[o].state = "NEEDS_MANUAL"
    /\ Stop(o, "RUNNING")
    /\ UNCHANGED <<worldVars, storeVars>>

\* In whatever state the intent is, between two ticks.
operatorUnwind(o) ==
    /\ OperatorCall
    /\ intent[o].state # "None"
    /\ worker[o].at \in {"start", "lost"}
    /\ UNWIND(o)
    /\ UNCHANGED <<worldVars, storeVars>>

-----------------------------------------------------------------------------
(* The reconciler's backing check and the operator's answer to it.         *)

Backing == custodyHoldings + ledger["CUSTODY_OUTBOUND"]

checkPositions ==
    /\ ~broken
    /\ Backing < positionSupply
    /\ broken' = TRUE
    /\ UNCHANGED <<worldVars, unbooked, reservation, ledger, intent, worker, spent>>

resolveBreak ==
    /\ OperatorCall
    /\ broken
    /\ broken' = FALSE
    /\ UNCHANGED <<worldVars, unbooked, reservation, ledger, intent, worker>>

-----------------------------------------------------------------------------
(* The world.                                                              *)

\* How what was asked of a counterparty ends.
Endings == IF scenario.faults THEN {"SETTLED", "FAILED"} ELSE {"SETTLED"}

\* The trader takes the order back, while it is pending on the chain.
traderCancels(o) ==
    /\ o \in scenario.placed
    /\ order[o] = "PENDING"
    /\ order' = [order EXCEPT ![o] = "CANCELLED"]
    /\ UNCHANGED <<broker, buyingPower, conversion, payout, settlement, storeVars,
                   intent, worker, spent>>

brokerFills(o) ==
    /\ broker[o].status \in {"NEW", "PARTIALLY_FILLED"}
    /\ \E n \in 1 .. (planned(o) - filledQuantity(o)), fair \in {TRUE, ~scenario.faults} :
          /\ broker' = [broker EXCEPT ![o] =
                [status |-> IF @.filled + n = planned(o) THEN "FILLED"
                                                         ELSE "PARTIALLY_FILLED",
                 filled |-> @.filled + n,
                 fair   |-> @.fair /\ fair]]
          /\ buyingPower' = IF o \in Buys THEN buyingPower - n ELSE buyingPower + n
    /\ UNCHANGED <<order, conversion, payout, settlement, storeVars, intent, worker, spent>>

brokerExpires(o) ==
    /\ scenario.faults
    /\ broker[o].status \in {"NEW", "PARTIALLY_FILLED"}
    /\ broker' = [broker EXCEPT ![o].status = "EXPIRED"]
    /\ UNCHANGED <<order, buyingPower, conversion, payout, settlement, storeVars,
                   intent, worker, spent>>

msbConverts(o) ==
    /\ conversion[o] = "PENDING"
    /\ \E status \in Endings :
          conversion' = [conversion EXCEPT ![o] = status]
    /\ UNCHANGED <<order, broker, buyingPower, payout, settlement, storeVars,
                   intent, worker, spent>>

msbPays(o) ==
    /\ payout[o] = "PENDING"
    /\ \/ /\ payout' = [payout EXCEPT ![o] = "SETTLED"]
          /\ buyingPower' = buyingPower + Escrow[o]
       \/ /\ "FAILED" \in Endings
          /\ payout' = [payout EXCEPT ![o] = "FAILED"]
          /\ UNCHANGED buyingPower
    /\ UNCHANGED <<order, broker, conversion, settlement, storeVars, intent, worker, spent>>

\* Two days after the trade, in one way or the other.
custodianSettles(o) ==
    /\ BrokerDone(o)
    /\ filledQuantity(o) > 0
    /\ settlement[o] # "SETTLED"
    /\ \E status \in Endings \ {settlement[o]} :
          settlement' = [settlement EXCEPT ![o] = status]
    /\ UNCHANGED <<order, broker, buyingPower, conversion, payout, storeVars,
                   intent, worker, spent>>

-----------------------------------------------------------------------------
Drive(o) ==
    \/ save(o)
    \/ complete(o)
    \/ chooseFunding(o)
    \/ reserve(o)
    \/ hold(o)
    \/ consume(o)
    \/ screen(o)
    \/ validate_order(o)
    \/ place_order(o)
    \/ await_fill(o)
    \/ recover(o)
    \/ unwind(o)
    \/ cancelOrder(o)
    \/ release(o)

Buy(b) ==
    \/ deploy_escrow(b)
    \/ bookDeployed(b)
    \/ startConversion(b)
    \/ fund_execution(b)
    \/ settle_crossing(b)
    \/ awaitPayout(b)
    \/ await_custody(b)
    \/ attest_and_mint(b)
    \/ confirmBuy(b)
    \/ bookMinted(b)

Sell(s) ==
    \/ await_custody_release(s)
    \/ settle_onchain(s)
    \/ bookSettled(s)
    \/ repatriate(s)
    \/ createConversion(s)

World(o) ==
    \/ traderCancels(o)
    \/ brokerFills(o)
    \/ brokerExpires(o)
    \/ msbConverts(o)
    \/ custodianSettles(o)

Act ==
    \/ \E o \in Orders :
          \/ ingest(o)
          \/ Drive(o)
          \/ interrupt(o)
          \/ outage(o)
          \/ sweepExpired(o)
          \/ operatorResume(o)
          \/ operatorUnwind(o)
          \/ World(o)
    \/ \E b \in Buys : Buy(b) \/ bookEscrow(b) \/ bookingLost(b) \/ msbPays(b)
    \/ \E s \in Sells : Sell(s)
    \/ checkPositions
    \/ resolveBreak

Next == Act /\ UNCHANGED scenario

Spec == Init /\ [][Next]_vars

-----------------------------------------------------------------------------
TypeOK ==
    /\ order \in [Orders -> OrderStates]
    /\ broker \in [Orders -> BrokerOrder]
    /\ buyingPower \in Int
    /\ conversion \in [Orders -> Operations]
    /\ payout \in [Buys -> Operations]
    /\ settlement \in [Orders -> Operations]
    /\ intent \in [Orders -> [state : States, cursor : Nat, facts : SUBSET Facts]]
    /\ worker \in [Orders -> [at : Places, found : SUBSET Facts]]
    /\ unbooked \in SUBSET Buys
    /\ reservation \in [Orders -> Reservations]
    /\ ledger \in [Accounts -> Int]
    /\ broken \in BOOLEAN
    /\ scenario \in Scenarios
    /\ spent \in [interrupts : Nat, operator : Nat]

\* The shares behind every token: those at the custodian, those sold and
\* released whose tokens wait to be burnt, and those of sales that their
\* traders cancelled on the chain after the broker had begun to sell, which are
\* behind a token no more (README, "Token supply therefore tracks custodied
\* shares"; settle_onchain, confirmBuy).
TokensBacked ==
    positionSupply <= custodyHoldings
        + SumOver({s \in Sells : settlement[s] = "SETTLED" /\ order[s] # "SETTLED"},
                  filledQuantity)

\* What the broker bought or sold is not dropped: an intent whose order was
\* filled is cancelled only on an operator's order, or when the trader took the
\* sale back on the chain, or when it lost the race for the float (await_fill,
\* consume, the compensations).
FilledNeverDropped ==
    \A o \in Orders :
        intent[o].state = "CANCELLED" /\ filledQuantity(o) > 0 =>
            \/ spent.operator > 0
            \/ /\ o \in Sells
               /\ \/ order[o] = "CANCELLED"
                  \/ NextStep(o) = "reserve_payout"

\* Working balance held for an intent is let go when the intent ends, unless an
\* interruption or an operator broke into it (consume, release).
HoldsEndWithIntents ==
    \A o \in Orders :
        /\ intent[o].state \in {"COMPLETED", "CANCELLED"}
        /\ spent.interrupts = 0
        /\ spent.operator = 0
        => reservation[o] # "HELD"

\* When every intent there is has completed, undisturbed, with purchases out of
\* the buffer and sales filled in full, the books agree with the chain, the
\* custodian and, as long as nothing was sold, with the broker and the MSB, and
\* nothing is left in transit or owed (the checks of the reconciler).
AtRest ==
    /\ spent.interrupts = 0
    /\ unbooked = {}
    /\ \A o \in Orders : intent[o].state \in {"None", "COMPLETED"}
    /\ \A b \in Buys : ~Knows(b, "justInTime")
    /\ \A s \in Sells : intent[s].state = "COMPLETED" => filledQuantity(s) = Shares[s]

Sold == \E s \in Sells : intent[s].state = "COMPLETED"

BooksMatchWorld ==
    AtRest =>
        /\ ledger["CUSTOMER_POSITIONS"] = -positionSupply
        /\ ledger["CUSTODY_HOLDINGS"] = custodyHoldings
        /\ ~Sold => ledger["BROKER_BUFFER"] = buyingPower
        /\ \A a \in Accounts \ {"CUSTOMER_POSITIONS", "CUSTODY_HOLDINGS",
                                "BROKER_BUFFER", "TREASURY_USDC"} : ledger[a] = 0

-----------------------------------------------------------------------------
(* What the documentation says of the desk and the desk does not do.       *)

\* spot-sell.ts: "If the float cannot cover it we do not fail: we mark the
\* intent to wait for repatriation instead".
ShortFloatWaits ==
    \A s \in Sells :
        intent[s].state = "CANCELLED" /\ filledQuantity(s) > 0 =>
            order[s] = "CANCELLED" \/ spent.operator > 0

=============================================================================
