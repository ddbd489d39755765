----------------------------- MODULE MarcoSpot -----------------------------
(***************************************************************************)
(* The on-chain spot-market program, spot/programs/marco-spot.  One market *)
(* account pools three claims in a single stablecoin account: the escrow   *)
(* of pending buys, the trading spread not yet swept, and money returned   *)
(* by the broker or the conversion partner.  One action per instruction;   *)
(* an instruction that returns an error changes nothing and is no step.    *)
(* Every instruction is one atomic transaction, so the interleavings are   *)
(* those of whole instructions, signed by anybody entitled to.             *)
(*                                                                         *)
(* Abstracted: tickers, account addresses, timestamps, logs; the custody   *)
(* reference and the document hash (always given); a trader has one        *)
(* position account.  The accounts of the partner and of the treasury are  *)
(* only ever credited, so they are left out.                               *)
(***************************************************************************)
EXTENDS Functions, FiniteSets

CONSTANTS
    Traders,        \* wallets that trade
    Admin,          \* the admin multisig
    Operators,      \* wallets that may hold the operator role
    MaxOrders,      \* bound on the orders ever placed
    MinOrderUsdc,   \* min_order_usdc of the market
    MaxOrderUsdc,   \* max_order_usdc of the market, 0 for no maximum
    Scale,          \* 10 ^ share_decimals
    U64,            \* modulus of the program's unsigned integers, 2 ^ 64
    MarketUsdcCap,  \* bound on the balance a deposit from outside may build up
    UsdcAmounts,    \* amounts of USDC that callers pass
    ShareAmounts,   \* quantities of shares that callers pass
    Prices,         \* prices per share that callers pass
    FeeRates,       \* spread rates, in basis points, that the admin passes
    LockSettings,   \* values the admin passes to set_transfer_lock
    InitialUsdc     \* stablecoins in each trader's wallet at the start

MAX_FEE_BPS == 500

ASSUME SpotAssumption ==
    /\ IsFiniteSet(Traders)
    /\ Admin \notin Traders \cup Operators
    /\ Operators # {}
    /\ MaxOrders \in Nat
    /\ MinOrderUsdc \in Nat
    /\ MaxOrderUsdc \in Nat
    /\ MaxOrderUsdc > 0 => MaxOrderUsdc >= MinOrderUsdc
    /\ Scale \in Nat \ {0}
    /\ U64 \in Nat \ {0}
    /\ MarketUsdcCap \in Nat
    /\ InitialUsdc \in Nat
    /\ UsdcAmounts \subseteq Nat
    /\ ShareAmounts \subseteq Nat
    /\ Prices \subseteq Nat
    /\ FeeRates \subseteq Nat
    /\ \E rate \in FeeRates : rate <= MAX_FEE_BPS
    /\ LockSettings \subseteq BOOLEAN

VARIABLES
    market,          \* the Market account
    orders,          \* the Order accounts, by order id
    holding,         \* the Holding account of each trader
    eligible,        \* TraderAccount.eligible of each trader
    market_usdc,     \* stablecoins in the market's pooled account
    trader_usdc,     \* stablecoins in each trader's wallet
    supply,          \* position tokens in existence
    position,        \* position tokens in each trader's account
    frozen,          \* whether that account is frozen
    position_escrow  \* position tokens escrowed against pending sells

usdcVars  == <<market_usdc, trader_usdc>>
tokenVars == <<supply, position, frozen, position_escrow>>
vars == <<market, orders, holding, eligible, usdcVars, tokenVars>>

-----------------------------------------------------------------------------
OrderIds == 0 .. (MaxOrders - 1)
Sides    == {"Buy", "Sell"}
Statuses == {"Pending", "Deployed", "Filled", "Settled", "Cancelled"}
MarketStatuses == {"Active", "Paused", "Closed"}
Signers  == Traders \cup Operators \cup {Admin}

Order == [trader : Traders, side : Sides, status : Statuses,
          usdc_amount : Nat, shares_amount : Nat, limit_price : Nat,
          min_shares_out : Nat, fee_bps : Nat, execution_price : Nat,
          fee_paid : Nat, deployed_amount : Nat]

\* An order account that has not been created yet.
NoOrder == [status |-> "None"]

Market == [status : MarketStatuses, operator : Operators,
           transfer_lock : BOOLEAN, fee_bps : Nat,
           usdc_escrowed : Nat, shares_escrowed : Nat,
           total_shares_outstanding : Nat, total_deployed : Nat,
           total_bought_usdc : Nat, total_sold_usdc : Nat,
           fees_collected : Nat, fees_swept : Nat, order_seq : Nat]

Holding == [shares_bought : Nat, shares_sold : Nat, usdc_spent : Nat,
            usdc_received : Nat, fees_paid : Nat]

\* The parameters initialize_market accepts, and the state it leaves.
Init ==
    /\ \E rate \in FeeRates, op \in Operators :
          /\ rate <= MAX_FEE_BPS
          /\ market = [status |-> "Active", operator |-> op,
                       transfer_lock |-> TRUE, fee_bps |-> rate,
                       usdc_escrowed |-> 0, shares_escrowed |-> 0,
                       total_shares_outstanding |-> 0, total_deployed |-> 0,
                       total_bought_usdc |-> 0, total_sold_usdc |-> 0,
                       fees_collected |-> 0, fees_swept |-> 0,
                       order_seq |-> 0]
    /\ orders = [o \in OrderIds |-> NoOrder]
    /\ holding = [t \in Traders |->
                    [shares_bought |-> 0, shares_sold |-> 0, usdc_spent |-> 0,
                     usdc_received |-> 0, fees_paid |-> 0]]
    /\ eligible = [t \in Traders |-> FALSE]
    /\ market_usdc = 0
    /\ trader_usdc = [t \in Traders |-> InitialUsdc]
    /\ supply = 0
    /\ position = [t \in Traders |-> 0]
    /\ frozen = [t \in Traders |-> FALSE]
    /\ position_escrow = 0

-----------------------------------------------------------------------------
(* Arithmetic: saturating_sub, checked_add, the spread and the notional.   *)
(* A definition set just before another one and with its parameters is a   *)
(* slip of that code; it is used by no specification, and the properties   *)
(* are shown to notice it.                                                 *)

SatSubOffByOne(a, b) == IF a > b THEN a - b ELSE a
SatSub(a, b) == IF a >= b THEN a - b ELSE 0
Lesser(a, b) == IF a <= b THEN a ELSE b

\* checked_add succeeds on results an unsigned 64-bit integer can hold.
Fits(n) == n < U64

fee_on(amount, bps) == (amount * bps) \div 10000

\* The spread on an order, at the rate recorded when it was placed.
SpreadAtCurrentRate(o, amount) == fee_on(amount, market.fee_bps)
SpreadOn(o, amount) == fee_on(amount, orders[o].fee_bps)

\* Computed in 128 bits, then cut down to 64 by the final `as u64`.
notional(shares, price) == ((shares * price) \div Scale) % U64

FeesIgnoringSweeps(m) == m.fees_collected
fees_outstanding(m) == SatSub(m.fees_collected, m.fees_swept)

UnreservedCountingEscrow(m, balance) == SatSub(balance, fees_outstanding(m))
UnreservedAddingEscrow(m, balance) ==
    SatSub(balance + m.usdc_escrowed, fees_outstanding(m))
unreserved_usdc(m, balance) ==
    SatSub(SatSub(balance, m.usdc_escrowed), fees_outstanding(m))

IsStaff(signer) == signer = Admin \/ signer = market.operator

\* A live buy or sell order in the given status.
IsOrder(o, side, status) ==
    /\ orders[o].status = status
    /\ orders[o].side = side

\* thaw_if_frozen ... freeze_shares: the lock state an account is left in.
LeftThawed(t) == [frozen EXCEPT ![t] = FALSE]
Relocked(t) == [frozen EXCEPT ![t] = market.transfer_lock]

-----------------------------------------------------------------------------
(* Buys.                                                                   *)

\* A new order, with the spread rate of the moment.
NewOrder(t, side, usdc, shares, limit, minOut) ==
    [trader |-> t, side |-> side, status |-> "Pending",
     usdc_amount |-> usdc, shares_amount |-> shares, limit_price |-> limit,
     min_shares_out |-> minOut, fee_bps |-> market.fee_bps,
     execution_price |-> 0, fee_paid |-> 0, deployed_amount |-> 0]

place_buy(t, usdc, limit, minOut) ==
    LET o == market.order_seq IN
    /\ o \in OrderIds
    /\ market.status = "Active"
    /\ usdc > 0
    /\ usdc >= MinOrderUsdc
    /\ MaxOrderUsdc > 0 => usdc <= MaxOrderUsdc
    /\ limit > 0
    /\ minOut > 0
    /\ eligible[t]
    /\ trader_usdc[t] >= usdc
    /\ Fits(market.usdc_escrowed + usdc)
    /\ trader_usdc' = [trader_usdc EXCEPT ![t] = @ - usdc]
    /\ market_usdc' = market_usdc + usdc
    /\ orders' = [orders EXCEPT ![o] = NewOrder(t, "Buy", usdc, 0, limit, minOut)]
    /\ market' = [market EXCEPT !.usdc_escrowed = @ + usdc, !.order_seq = @ + 1]
    /\ UNCHANGED <<holding, eligible, tokenVars>>

deploy_buy(signer, o) ==
    LET gross      == orders[o].usdc_amount
        fee        == SpreadOn(o, gross)
        deployable == gross - fee
    IN
    /\ IsStaff(signer)
    /\ IsOrder(o, "Buy", "Pending")
    /\ deployable > 0
    /\ market_usdc >= deployable
    /\ Fits(market.total_deployed + deployable)
    /\ Fits(market.fees_collected + fee)
    /\ market_usdc' = market_usdc - deployable
    /\ orders' = [orders EXCEPT ![o].status = "Deployed",
                                ![o].deployed_amount = deployable,
                                ![o].fee_paid = fee]
    /\ market' = [market EXCEPT !.usdc_escrowed = SatSub(@, gross),
                                !.total_deployed = @ + deployable,
                                !.fees_collected = @ + fee]
    /\ UNCHANGED <<holding, eligible, trader_usdc, tokenVars>>

confirm_buy(signer, o, shares, price) ==
    LET t == orders[o].trader IN
    /\ IsStaff(signer)
    /\ IsOrder(o, "Buy", "Deployed")
    /\ shares > 0
    /\ price > 0
    /\ price <= orders[o].limit_price
    /\ shares >= orders[o].min_shares_out
    /\ notional(shares, price) <= orders[o].deployed_amount
    /\ Fits(market.total_shares_outstanding + shares)
    /\ Fits(market.total_bought_usdc + orders[o].deployed_amount)
    /\ Fits(holding[t].shares_bought + shares)
    /\ Fits(holding[t].usdc_spent + orders[o].usdc_amount)
    /\ Fits(holding[t].fees_paid + orders[o].fee_paid)
    /\ supply' = supply + shares
    /\ position' = [position EXCEPT ![t] = @ + shares]
    /\ frozen' = Relocked(t)
    /\ orders' = [orders EXCEPT ![o].status = "Filled",
                                ![o].shares_amount = shares,
                                ![o].execution_price = price]
    /\ market' = [market EXCEPT !.total_shares_outstanding = @ + shares,
                                !.total_bought_usdc = @ + orders[o].deployed_amount]
    /\ holding' = [holding EXCEPT ![t].shares_bought = @ + shares,
                                  ![t].usdc_spent = @ + orders[o].usdc_amount,
                                  ![t].fees_paid = @ + orders[o].fee_paid]
    /\ UNCHANGED <<eligible, usdcVars, position_escrow>>

\* What a cancellation releases in the market's books before the refund: the
\* escrow of a pending order, or the deployment and the unswept spread of a
\* deployed one.
ReleasedKeepingEscrow(o) == market
ReleasedKeepingDeployed(o) ==
    IF orders[o].status = "Pending"
    THEN [market EXCEPT !.usdc_escrowed = SatSub(@, orders[o].usdc_amount)]
    ELSE [market EXCEPT
            !.fees_collected =
                SatSub(@, Lesser(fees_outstanding(market), orders[o].fee_paid))]
ReleasedPastSweeps(o) ==
    IF orders[o].status = "Pending"
    THEN [market EXCEPT !.usdc_escrowed = SatSub(@, orders[o].usdc_amount)]
    ELSE [market EXCEPT
            !.total_deployed = SatSub(@, orders[o].deployed_amount),
            !.fees_collected = SatSub(@, orders[o].fee_paid)]
Released(o) ==
    IF orders[o].status = "Pending"
    THEN [market EXCEPT !.usdc_escrowed = SatSub(@, orders[o].usdc_amount)]
    ELSE [market EXCEPT
            !.total_deployed = SatSub(@, orders[o].deployed_amount),
            !.fees_collected =
                SatSub(@, Lesser(fees_outstanding(market), orders[o].fee_paid))]

\* A buy is refunded gross: an unfinished purchase earns no spread.
RefundNetOfSpread(o) == orders[o].usdc_amount - orders[o].fee_paid
RefundOf(o) == orders[o].usdc_amount

cancel_buy(signer, o) ==
    LET refund == RefundOf(o)
        t      == orders[o].trader
    IN
    /\ \/ IsOrder(o, "Buy", "Pending")  /\ (IsStaff(signer) \/ signer = t)
       \/ IsOrder(o, "Buy", "Deployed") /\ IsStaff(signer)
    /\ refund > 0
    /\ unreserved_usdc(Released(o), market_usdc) >= refund
    /\ market_usdc' = market_usdc - refund
    /\ trader_usdc' = [trader_usdc EXCEPT ![t] = @ + refund]
    /\ market' = Released(o)
    /\ orders' = [orders EXCEPT ![o].status = "Cancelled", ![o].fee_paid = 0]
    /\ UNCHANGED <<holding, eligible, tokenVars>>

-----------------------------------------------------------------------------
(* Sells.                                                                  *)

place_sell(t, shares, limit) ==
    LET o == market.order_seq IN
    /\ o \in OrderIds
    /\ market.status = "Active"
    /\ shares > 0
    /\ position[t] >= shares
    /\ eligible[t]
    /\ Fits(market.shares_escrowed + shares)
    /\ position' = [position EXCEPT ![t] = @ - shares]
    /\ position_escrow' = position_escrow + shares
    /\ frozen' = [frozen EXCEPT ![t] = market.transfer_lock /\ position[t] > shares]
    /\ orders' = [orders EXCEPT ![o] = NewOrder(t, "Sell", 0, shares, limit, 0)]
    /\ market' = [market EXCEPT !.shares_escrowed = @ + shares, !.order_seq = @ + 1]
    /\ UNCHANGED <<holding, eligible, usdcVars, supply>>

settle_sell(signer, o, proceeds, price) ==
    LET t      == orders[o].trader
        shares == orders[o].shares_amount
        fee    == SpreadOn(o, proceeds)
        payout == proceeds - fee
    IN
    /\ IsStaff(signer)
    /\ IsOrder(o, "Sell", "Pending")
    /\ proceeds > 0
    /\ price > 0
    /\ price >= orders[o].limit_price
    /\ payout > 0
    /\ unreserved_usdc(market, market_usdc) >= proceeds
    /\ position_escrow >= shares
    /\ supply >= shares
    /\ Fits(market.total_sold_usdc + payout)
    /\ Fits(market.fees_collected + fee)
    /\ Fits(holding[t].shares_sold + shares)
    /\ Fits(holding[t].usdc_received + payout)
    /\ Fits(holding[t].fees_paid + fee)
    /\ supply' = supply - shares
    /\ position_escrow' = position_escrow - shares
    /\ market_usdc' = market_usdc - payout
    /\ trader_usdc' = [trader_usdc EXCEPT ![t] = @ + payout]
    /\ orders' = [orders EXCEPT ![o].status = "Settled",
                                ![o].usdc_amount = payout,
                                ![o].execution_price = price,
                                ![o].fee_paid = fee]
    /\ market' = [market EXCEPT
                    !.shares_escrowed = SatSub(@, shares),
                    !.total_shares_outstanding = SatSub(@, shares),
                    !.total_sold_usdc = @ + payout,
                    !.fees_collected = @ + fee]
    /\ holding' = [holding EXCEPT ![t].shares_sold = @ + shares,
                                  ![t].usdc_received = @ + payout,
                                  ![t].fees_paid = @ + fee]
    /\ UNCHANGED <<eligible, position, frozen>>

cancel_sell(signer, o) ==
    LET t      == orders[o].trader
        shares == orders[o].shares_amount
    IN
    /\ IsOrder(o, "Sell", "Pending")
    /\ signer = t \/ IsStaff(signer)
    /\ shares > 0
    /\ position_escrow >= shares
    /\ position_escrow' = position_escrow - shares
    /\ position' = [position EXCEPT ![t] = @ + shares]
    /\ frozen' = Relocked(t)
    /\ orders' = [orders EXCEPT ![o].status = "Cancelled"]
    /\ market' = [market EXCEPT !.shares_escrowed = SatSub(@, shares)]
    /\ UNCHANGED <<holding, eligible, usdcVars, supply>>

-----------------------------------------------------------------------------
(* The admin, the holders, and the world outside the program.              *)

sweep_fee(amount) ==
    /\ amount > 0
    /\ amount <= fees_outstanding(market)
    /\ market_usdc >= amount
    /\ Fits(market.fees_swept + amount)
    /\ market_usdc' = market_usdc - amount
    /\ market' = [market EXCEPT !.fees_swept = @ + amount]
    /\ UNCHANGED <<orders, holding, eligible, trader_usdc, tokenVars>>

set_market_status(status) ==
    /\ market' = [market EXCEPT !.status = status]
    /\ UNCHANGED <<orders, holding, eligible, usdcVars, tokenVars>>

update_operator(op) ==
    /\ market' = [market EXCEPT !.operator = op]
    /\ UNCHANGED <<orders, holding, eligible, usdcVars, tokenVars>>

set_fee_bps(bps) ==
    /\ bps <= MAX_FEE_BPS
    /\ market' = [market EXCEPT !.fee_bps = bps]
    /\ UNCHANGED <<orders, holding, eligible, usdcVars, tokenVars>>

set_transfer_lock(locked) ==
    /\ market' = [market EXCEPT !.transfer_lock = locked]
    /\ UNCHANGED <<orders, holding, eligible, usdcVars, tokenVars>>

register_trader(t, ok) ==
    /\ eligible' = [eligible EXCEPT ![t] = ok]
    /\ UNCHANGED <<market, orders, holding, usdcVars, tokenVars>>

unlock_position(t) ==
    /\ ~market.transfer_lock
    /\ frozen' = [frozen EXCEPT ![t] = FALSE]
    /\ UNCHANGED <<market, orders, holding, eligible, usdcVars, supply, position,
                   position_escrow>>

\* The broker or the conversion partner sends stablecoins to the market: sale
\* proceeds, or the money of a purchase that failed.
ReturnUsdc(amount) ==
    /\ market_usdc + amount <= MarketUsdcCap
    /\ market_usdc' = market_usdc + amount
    /\ UNCHANGED <<market, orders, holding, eligible, trader_usdc, tokenVars>>

\* The token program lets holders of thawed accounts trade among themselves.
TransferPosition(t, u, n) ==
    /\ t # u
    /\ n > 0
    /\ position[t] >= n
    /\ ~frozen[t] /\ ~frozen[u]
    /\ position' = [position EXCEPT ![t] = @ - n, ![u] = @ + n]
    /\ UNCHANGED <<market, orders, holding, eligible, usdcVars, supply, frozen,
                   position_escrow>>

TraderStep ==
    \E t \in Traders :
       \/ \E usdc \in UsdcAmounts, limit \in Prices, minOut \in ShareAmounts :
             place_buy(t, usdc, limit, minOut)
       \/ \E shares \in ShareAmounts, limit \in Prices : place_sell(t, shares, limit)
       \/ \E u \in Traders, n \in ShareAmounts : TransferPosition(t, u, n)
       \/ unlock_position(t)

OrderStep ==
    \E signer \in Signers, o \in OrderIds :
       \/ deploy_buy(signer, o)
       \/ \E shares \in ShareAmounts, price \in Prices :
             confirm_buy(signer, o, shares, price)
       \/ cancel_buy(signer, o)
       \/ \E proceeds \in UsdcAmounts, price \in Prices :
             settle_sell(signer, o, proceeds, price)
       \/ cancel_sell(signer, o)

AdminStep ==
    \/ \E amount \in 1 .. fees_outstanding(market) : sweep_fee(amount)
    \/ \E status \in MarketStatuses : set_market_status(status)
    \/ \E op \in Operators : update_operator(op)
    \/ \E bps \in FeeRates : set_fee_bps(bps)
    \/ \E locked \in LockSettings : set_transfer_lock(locked)
    \/ \E t \in Traders, ok \in BOOLEAN : register_trader(t, ok)

Next ==
    \/ TraderStep
    \/ OrderStep
    \/ AdminStep
    \/ \E amount \in UsdcAmounts : ReturnUsdc(amount)

Spec == Init /\ [][Next]_vars

-----------------------------------------------------------------------------
TypeOK ==
    /\ market \in Market
    /\ orders \in [OrderIds -> Order \cup {NoOrder}]
    /\ holding \in [Traders -> Holding]
    /\ eligible \in [Traders -> BOOLEAN]
    /\ market_usdc \in Nat
    /\ trader_usdc \in [Traders -> Nat]
    /\ supply \in Nat
    /\ position \in [Traders -> Nat]
    /\ frozen \in [Traders -> BOOLEAN]
    /\ position_escrow \in Nat

\* SOLVENCY (state.rs, unreserved_usdc): the pooled account always covers the
\* escrow of every pending buy and the whole unswept spread, whatever order
\* deployments, settlements, late returns, refunds and sweeps come in.
Solvent == market_usdc >= market.usdc_escrowed + fees_outstanding(market)

\* The admin never sweeps more spread than was collected, though a cancelled
\* deployment takes its spread back, possibly after it was swept (cancel_buy).
SweptWithinCollected == market.fees_swept <= market.fees_collected

\* A pending buy can be refunded in full at any moment, in any market status:
\* a halt never traps capital (admin.rs, set_market_status).
PendingBuyRefundable ==
    \A o \in OrderIds :
        IsOrder(o, "Buy", "Pending") =>
            unreserved_usdc(Released(o), market_usdc) >= RefundOf(o)

\* While the lock is on, an account that goes through an order comes out
\* locked if it holds tokens, and only then: an emptied account is left thawed
\* so that its owner can close it (admin.rs, set_transfer_lock; place_sell).
OrdersRelock ==
    [][\A t \in Traders :
          market.transfer_lock /\ orders' # orders /\ position'[t] # position[t]
             => frozen'[t] = (position'[t] > 0)]_vars

-----------------------------------------------------------------------------
(* The books, the accounts and the orders add up.                          *)

Placed == {o \in OrderIds : orders[o].status # "None"}
Buys(statuses)  == {o \in Placed : orders[o].side = "Buy"  /\ orders[o].status \in statuses}
Sells(statuses) == {o \in Placed : orders[o].side = "Sell" /\ orders[o].status \in statuses}

\* What those orders add up to in one of their figures.
Over(ids, figure) ==
    SumFunction([o \in OrderIds |-> IF o \in ids THEN orders[o][figure] ELSE 0])

\* The market's running totals are the sums over its orders: the escrow of
\* USDC is what pending buys paid in, the escrow of shares is what pending
\* sells put up and what the escrow account holds (place_*, cancel_*, settle).
EscrowMatchesOrders ==
    /\ market.usdc_escrowed = Over(Buys({"Pending"}), "usdc_amount")
    /\ market.shares_escrowed = Over(Sells({"Pending"}), "shares_amount")
    /\ position_escrow = market.shares_escrowed

\* Supply tracks attested custody (confirm_buy, settle_sell): the tokens in
\* existence are the shares of filled buys less those of settled sells, they
\* are all in a trader's account or in escrow, and the market's figure agrees.
SupplyTracksCustody ==
    /\ supply = Over(Buys({"Filled"}), "shares_amount")
                - Over(Sells({"Settled"}), "shares_amount")
    /\ supply = SumFunction(position) + position_escrow
    /\ supply = market.total_shares_outstanding

\* What a trader's wallet lost is exactly what the trader's live and filled
\* buys took, and what it gained is what the settled sells paid: a cancelled
\* order leaves the trader whole, even when its spread had been swept.
WalletMatchesOrders ==
    \A t \in Traders :
        trader_usdc[t] = InitialUsdc
            - Over({o \in Buys({"Pending", "Deployed", "Filled"}) : orders[o].trader = t},
                   "usdc_amount")
            + Over({o \in Sells({"Settled"}) : orders[o].trader = t}, "usdc_amount")

\* total_deployed is what live and filled deployments sent out, and the spread
\* on the books is never less than what those orders were charged.
BooksMatchOrders ==
    /\ market.total_deployed = Over(Buys({"Deployed", "Filled"}), "deployed_amount")
    /\ market.fees_collected >= Over(Placed, "fee_paid")
    /\ market.total_bought_usdc = Over(Buys({"Filled"}), "deployed_amount")

\* While the transfer lock was never lifted, a position can never leave its
\* holder's wallet except through an order: every account that holds tokens is
\* frozen (lock.rs).  It is said of a market where LockSettings is {TRUE}.
PositionsLocked == \A t \in Traders : position[t] > 0 => frozen[t]

\* The moves of state.rs, OrderStatus.
Lifecycle ==
    [Buy  |-> {<<"Pending", "Deployed">>, <<"Pending", "Cancelled">>,
               <<"Deployed", "Filled">>, <<"Deployed", "Cancelled">>},
     Sell |-> {<<"Pending", "Settled">>, <<"Pending", "Cancelled">>}]

\* An order keeps the terms it was placed with, spread rate included, and only
\* moves along the lifecycle of state.rs; a finished order is never touched.
OrdersKeepTheirTerms ==
    [][\A o \in Placed :
          \/ orders'[o] = orders[o]
          \/ /\ <<orders[o].status, orders'[o].status>> \in Lifecycle[orders[o].side]
             /\ \A term \in {"trader", "side", "limit_price", "min_shares_out", "fee_bps"} :
                   orders'[o][term] = orders[o][term]
             /\ orders'[o].status \in {"Deployed", "Filled"} =>
                   orders'[o].fee_paid = fee_on(orders[o].usdc_amount, orders[o].fee_bps)
             /\ orders'[o].status = "Settled" =>
                   orders'[o].fee_paid =
                      fee_on(orders'[o].usdc_amount + orders'[o].fee_paid, orders[o].fee_bps)
    ]_vars

-----------------------------------------------------------------------------
(* The program keeps the promise of an escrow agent.                       *)

HeldFor(o) == IF IsOrder(o, "Buy", "Pending") THEN orders[o].usdc_amount ELSE 0

Held   == [o \in OrderIds |-> HeldFor(o)]
Stage  == [o \in OrderIds |-> orders[o].status]
Free   == market_usdc - market.usdc_escrowed
Spread == fees_outstanding(market)

Escrow == INSTANCE OrderEscrow WITH
    stage <- Stage, held <- Held, free <- Free, spread <- Spread

\* Every order's money is held whole until its own deployment or return, and
\* every other payment leaves the earned spread covered.
EscrowSpec == Escrow!Spec

=============================================================================
