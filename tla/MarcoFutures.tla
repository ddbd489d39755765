---------------------------- MODULE MarcoFutures ----------------------------
(***************************************************************************)
(* The on-chain valuation futures (valuation-futures/programs/             *)
(* marco-futures): one market, whose traders put up margin and trade long  *)
(* or short against a constant-product pool of virtual reserves, until the *)
(* admin posts the settlement price.  An action is one instruction; an     *)
(* instruction that fails changes nothing and is no step.  The config and  *)
(* market are those that initialize and create_market leave behind.        *)
(* Timestamps, events and the market count are left out, wallets are as    *)
(* full as a deposit needs, and amounts are integers: the program checks   *)
(* its sums, and its clamps at the ends of u64 and i64 are out of reach.   *)
(***************************************************************************)
EXTENDS Functions, FiniteSets

CONSTANTS
    Traders,
    Admin, Operators,           \* the admin and the candidates for operator
    QuoteReserve, AnchorPrice,  \* what create_market seeds the pool with
    MaxLeverage, MaintenanceMarginBps, TakerFeeBps, LiquidationFeeBps,
    MaxOiNotional,              \* 0: no cap
    \* Bounds of the model: what callers pass in, and how far a market goes.
    Amounts,                    \* deposits, withdrawals, insurance seeds
    Notionals, CloseBases,      \* exposure opened; base closed, 0 for all
    LimitPrices,                \* slippage limits, 0 for none
    SettlementPrices,
    MaxOpens, MaxCollateral, MaxInsurance

PRICE_PRECISION == 1000000
BPS_DENOMINATOR == 10000
MAX_LEVERAGE_CAP == 10

\* The base reserve that makes the mark the anchor (create_market).
BaseReserve == (QuoteReserve * PRICE_PRECISION) \div AnchorPrice

ASSUME FuturesAssumption ==
    /\ IsFiniteSet(Traders)
    /\ QuoteReserve \in Nat \ {0} /\ AnchorPrice \in Nat \ {0} /\ BaseReserve > 0
    /\ MaxLeverage \in 1 .. MAX_LEVERAGE_CAP
    /\ MaintenanceMarginBps \in Nat \ {0}
    /\ MaintenanceMarginBps < BPS_DENOMINATOR \div MaxLeverage
    /\ TakerFeeBps \in 0 .. BPS_DENOMINATOR /\ LiquidationFeeBps \in 0 .. BPS_DENOMINATOR
    /\ MaxOiNotional \in Nat
    /\ Amounts \subseteq Nat /\ Notionals \subseteq Nat /\ CloseBases \subseteq Nat
    /\ LimitPrices \subseteq Nat /\ SettlementPrices \subseteq Nat
    /\ MaxOpens \in Nat /\ MaxCollateral \in Nat /\ MaxInsurance \in Nat

VARIABLES
    config,             \* the FuturesConfig account
    market,             \* the Market account
    position,           \* the Position accounts, by trader
    collateral_vault,   \* balance of the account that pools the margins
    insurance_vault,    \* balance of the account that backs them
    opens               \* how many times a trader opened (bounded)

vars == <<config, market, position, collateral_vault, insurance_vault, opens>>

Config == [paused : BOOLEAN, operator : Operators]

Market ==
    [status : {"Active", "Halted", "Settled"},
     base_reserve : Nat, quote_reserve : Nat,
     long_open_notional : Nat, short_open_notional : Nat,
     total_collateral : Nat, position_count : Nat, settlement_price : Nat]

Position == [margin : Nat, base_size : Int, open_notional : Nat, realized_pnl : Int]

NoPosition == [margin |-> 0, base_size |-> 0, open_notional |-> 0, realized_pnl |-> 0]

Init ==
    /\ \E op \in Operators : config = [paused |-> FALSE, operator |-> op]
    /\ market = [status |-> "Active",
                 base_reserve |-> BaseReserve, quote_reserve |-> QuoteReserve,
                 long_open_notional |-> 0, short_open_notional |-> 0,
                 total_collateral |-> 0, position_count |-> 0, settlement_price |-> 0]
    /\ position = [t \in Traders |-> NoPosition]
    /\ collateral_vault = 0
    /\ insurance_vault = 0
    /\ opens = 0

-----------------------------------------------------------------------------
(* state.rs: the arithmetic of the pool and of a position.                 *)

Lesser(a, b)  == IF a <= b THEN a ELSE b
Greater(a, b) == IF a >= b THEN a ELSE b
SatSub(a, b)  == IF a >= b THEN a - b ELSE 0
Abs(a)        == IF a >= 0 THEN a ELSE -a
Positive(a)   == IF a > 0 THEN a ELSE 0

\* Faulty variant, for checking the checks: pays what is owed, come what may.
Unclamped(owed, available) == owed

\* No payment exceeds what the account it comes from holds.
Clamped(owed, available) == Lesser(owed, available)

Price(quote, base) == (quote * PRICE_PRECISION) \div base

mark_price == Price(market.quote_reserve, market.base_reserve)

fee_on(notional, bps) == (notional * bps) \div BPS_DENOMINATOR

\* The constant product, of the reserves as they are now.
k == market.base_reserve * market.quote_reserve

\* The reserves after exposure of n is opened, and after b base is sold back.
quote_open(side, n) ==
    LET quote == IF side = "Long" THEN market.quote_reserve + n
                 ELSE market.quote_reserve - n
    IN  [quote_reserve |-> quote, base_reserve |-> k \div quote]

quote_close(side, b) ==
    LET base == IF side = "Long" THEN market.base_reserve + b
                ELSE market.base_reserve - b
    IN  [base_reserve |-> base, quote_reserve |-> k \div base]

side_of(p) ==
    IF p.base_size > 0 THEN "Long" ELSE IF p.base_size < 0 THEN "Short" ELSE "None"

is_flat(p) == p.base_size = 0

notional_at(p, price) == (Abs(p.base_size) * price) \div PRICE_PRECISION

\* Faulty variant: a short gains as a long does.
GainOfLongs(side, value, cost) == value - cost

\* What a side has gained that was opened for cost and is worth value.
Gain(side, value, cost) == IF side = "Long" THEN value - cost ELSE cost - value

unrealized_pnl(p, price) ==
    IF is_flat(p) THEN 0
    ELSE Gain(side_of(p), notional_at(p, price), p.open_notional)

equity(p, price) == p.margin + unrealized_pnl(p, price)

maintenance_margin(p, price) ==
    (notional_at(p, price) * MaintenanceMarginBps) \div BPS_DENOMINATOR

is_liquidatable(p, price) == equity(p, price) < maintenance_margin(p, price)

InStatus(statuses) == market.status \in statuses

\* A limit refuses a fill that is dearer to the buyer, or cheaper to the seller.
Acceptable(side, price, limit) ==
    limit > 0 => IF side = "Long" THEN price <= limit ELSE price >= limit

Opposite(side) == IF side = "Long" THEN "Short" ELSE "Long"

\* Faulty variant: every position counted as a long.
OpenInterestOfLongs(m, side, long, short) == [m EXCEPT !.long_open_notional = long]

\* The market with a new figure for the open interest of one side.
OpenInterest(m, side, long, short) ==
    IF side = "Long" THEN [m EXCEPT !.long_open_notional = long]
    ELSE [m EXCEPT !.short_open_notional = short]

-----------------------------------------------------------------------------
(* Margin.                                                                 *)

deposit_collateral(t, amount) ==
    /\ amount > 0
    /\ InStatus({"Active", "Halted"})
    /\ collateral_vault + amount <= MaxCollateral
    /\ collateral_vault' = collateral_vault + amount
    /\ position' = [position EXCEPT ![t].margin = @ + amount]
    /\ market' = [market EXCEPT !.total_collateral = @ + amount]
    /\ UNCHANGED <<config, insurance_vault, opens>>

InitialMargin(p) == (notional_at(p, mark_price) + MaxLeverage - 1) \div MaxLeverage

\* Faulty variant: an open loss is not counted.
WithdrawableOfMargin(p) == Positive(p.margin - InitialMargin(p))

\* The margin above what the position must keep at the mark.
Withdrawable(p) ==
    IF is_flat(p) THEN p.margin
    ELSE Lesser(Positive(equity(p, mark_price) - InitialMargin(p)), p.margin)

withdraw_collateral(t, amount) ==
    LET payout == Clamped(amount, collateral_vault)
    IN  /\ amount > 0
        /\ InStatus({"Active", "Halted"})
        /\ amount <= Withdrawable(position[t])
        /\ payout > 0
        /\ collateral_vault' = collateral_vault - payout
        /\ position' = [position EXCEPT ![t].margin = @ - payout]
        /\ market' = [market EXCEPT !.total_collateral = SatSub(@, payout)]
        /\ UNCHANGED <<config, insurance_vault, opens>>

\* Anyone may strengthen the fund.
seed_insurance(amount) ==
    /\ amount > 0
    /\ insurance_vault + amount <= MaxInsurance
    /\ insurance_vault' = insurance_vault + amount
    /\ UNCHANGED <<config, market, position, collateral_vault, opens>>

-----------------------------------------------------------------------------
(* Trading.                                                                *)

WithinLeverage(p, price) == notional_at(p, price) <= p.margin * MaxLeverage

WithinCap(side, notional) ==
    MaxOiNotional > 0 =>
        notional + (IF side = "Long" THEN market.long_open_notional
                    ELSE market.short_open_notional) <= MaxOiNotional

\* The fee leaves the margin for the insurance fund, the exposure is swapped
\* into the pool.  A position that is open keeps its side.
open_position(t, side, notional, limit) ==
    LET p      == position[t]
        fee    == fee_on(notional, TakerFeeBps)
        pool   == quote_open(side, notional)
        delta  == market.base_reserve - pool.base_reserve
        opened == [p EXCEPT !.margin = @ - fee, !.base_size = @ + delta,
                            !.open_notional = @ + notional]
    IN  /\ ~config.paused /\ notional > 0
        /\ InStatus({"Active"})
        /\ is_flat(p) \/ side_of(p) = side
        /\ p.margin > fee
        /\ side = "Short" => notional < market.quote_reserve
        /\ IF side = "Long" THEN delta > 0 ELSE delta < 0
        /\ pool.base_reserve > 0
        /\ Acceptable(side, (notional * PRICE_PRECISION) \div Abs(delta), limit)
        /\ WithinLeverage(opened, Price(pool.quote_reserve, pool.base_reserve))
        /\ WithinCap(side, notional)
        /\ fee <= collateral_vault
        /\ collateral_vault' = collateral_vault - fee
        /\ insurance_vault' = insurance_vault + fee
        /\ opens < MaxOpens /\ opens' = opens + 1
        /\ market' =
              [OpenInterest(market, side, market.long_open_notional + notional,
                            market.short_open_notional + notional)
                 EXCEPT !.base_reserve = pool.base_reserve,
                        !.quote_reserve = pool.quote_reserve,
                        !.total_collateral = SatSub(@, fee),
                        !.position_count = @ + (IF is_flat(p) THEN 1 ELSE 0)]
        /\ position' = [position EXCEPT ![t] = opened]
        /\ UNCHANGED config

\* The market without the cost a position had on its side, and without the
\* position if it is gone; margin changed from old to new.
Released(m, side, cost, old, new, gone) ==
    [OpenInterest(m, side, SatSub(m.long_open_notional, cost),
                  SatSub(m.short_open_notional, cost))
       EXCEPT !.total_collateral = SatSub(@, old) + new,
              !.position_count = SatSub(@, IF gone THEN 1 ELSE 0)]

\* Faulty variant: the fee is paid and never charged.
MarginAndGain(p, pnl, fee) == Positive(p.margin + pnl)

\* A loss beyond the margin is the pool's, not the trader's.
SettledMargin(p, pnl, fee) == Positive(p.margin + pnl - fee)

\* Part or all of a position is sold back to the pool.  What it gained and the
\* fee settle into the margin, which is paid out when nothing is left open.
close_position(t, base_amount, limit) ==
    LET p      == position[t]
        side   == side_of(p)
        all    == base_amount = 0 \/ base_amount >= Abs(p.base_size)
        base   == IF all THEN Abs(p.base_size) ELSE base_amount
        pool   == quote_close(side, base)
        quote  == Abs(market.quote_reserve - pool.quote_reserve)
        cost   == (p.open_notional * base) \div Abs(p.base_size)
        pnl    == Gain(side, quote, cost)
        fee    == fee_on(quote, TakerFeeBps)
        margin == SettledMargin(p, pnl, fee)
        kept   == IF all THEN 0 ELSE margin
        fee_paid == Clamped(fee, collateral_vault)
        payout   == Clamped(margin - kept, collateral_vault - fee_paid)
    IN  /\ InStatus({"Active", "Halted"})
        /\ ~is_flat(p)
        /\ side = "Short" => base < market.base_reserve
        /\ Acceptable(Opposite(side), (quote * PRICE_PRECISION) \div base, limit)
        /\ collateral_vault' = collateral_vault - fee_paid - payout
        /\ insurance_vault' = insurance_vault + fee_paid
        /\ market' =
              [Released(market, side, cost, p.margin, kept, all)
                 EXCEPT !.base_reserve = pool.base_reserve,
                        !.quote_reserve = pool.quote_reserve]
        /\ position' =
              [position EXCEPT ![t] =
                  [margin |-> kept,
                   base_size |-> IF side = "Long" THEN p.base_size - base
                                 ELSE p.base_size + base,
                   open_notional |-> p.open_notional - cost,
                   realized_pnl |-> p.realized_pnl + pnl]]
        /\ UNCHANGED <<config, opens>>

\* What is left of a position that was taken away from its owner.
Emptied(p, pnl) == [NoPosition EXCEPT !.realized_pnl = p.realized_pnl + pnl]

\* A position below its maintenance margin is closed by a keeper, who is paid
\* first; a loss beyond the margin is drawn from the insurance fund.
liquidate_position(t) ==
    LET p      == position[t]
        side   == side_of(p)
        pool   == quote_close(side, Abs(p.base_size))
        quote  == Abs(market.quote_reserve - pool.quote_reserve)
        pnl    == Gain(side, quote, p.open_notional)
        worth  == p.margin + pnl
        reward == fee_on(quote, LiquidationFeeBps)
        cover  == Clamped(Positive(-worth), insurance_vault)
        available   == collateral_vault + cover
        reward_paid == Clamped(reward, available)
        refund      == Clamped(Positive(worth - reward), available - reward_paid)
    IN  /\ InStatus({"Active", "Halted"})
        /\ is_liquidatable(p, mark_price)
        /\ ~is_flat(p)
        /\ side = "Short" => Abs(p.base_size) < market.base_reserve
        /\ insurance_vault' = insurance_vault - cover
        /\ collateral_vault' = available - reward_paid - refund
        /\ market' =
              [Released(market, side, p.open_notional, p.margin, 0, TRUE)
                 EXCEPT !.base_reserve = pool.base_reserve,
                        !.quote_reserve = pool.quote_reserve]
        /\ position' = [position EXCEPT ![t] = Emptied(p, pnl)]
        /\ UNCHANGED <<config, opens>>

-----------------------------------------------------------------------------
(* Settlement.                                                             *)

settle_market(signer, price) ==
    /\ signer \in {Admin, config.operator}
    /\ price > 0
    /\ ~InStatus({"Settled"})
    /\ market' = [market EXCEPT !.settlement_price = price, !.status = "Settled"]
    /\ UNCHANGED <<config, position, collateral_vault, insurance_vault, opens>>

\* Margin and gain at the settlement price, topped up by the insurance fund
\* when the pooled margins do not hold as much.
settle_position(t) ==
    LET p    == position[t]
        pnl  == unrealized_pnl(p, market.settlement_price)
        owed == Positive(p.margin + pnl)
        draw == Clamped(SatSub(owed, collateral_vault), insurance_vault)
        payout == Clamped(owed, collateral_vault + draw)
    IN  /\ InStatus({"Settled"})
        /\ ~is_flat(p)
        /\ insurance_vault' = insurance_vault - draw
        /\ collateral_vault' = collateral_vault + draw - payout
        /\ market' = Released(market, side_of(p), p.open_notional, p.margin, 0, TRUE)
        /\ position' = [position EXCEPT ![t] = Emptied(p, pnl)]
        /\ UNCHANGED <<config, opens>>

-----------------------------------------------------------------------------
(* Administration.                                                         *)

pause(paused) ==
    /\ config' = [config EXCEPT !.paused = paused]
    /\ UNCHANGED <<market, position, collateral_vault, insurance_vault, opens>>

set_operator(op) ==
    /\ config' = [config EXCEPT !.operator = op]
    /\ UNCHANGED <<market, position, collateral_vault, insurance_vault, opens>>

halt_market(halted) ==
    /\ ~InStatus({"Settled"})
    /\ market' = [market EXCEPT !.status = IF halted THEN "Halted" ELSE "Active"]
    /\ UNCHANGED <<config, position, collateral_vault, insurance_vault, opens>>

-----------------------------------------------------------------------------
TraderStep ==
    \E t \in Traders :
       \/ \E amount \in Amounts : deposit_collateral(t, amount)
       \/ \E amount \in Amounts : withdraw_collateral(t, amount)
       \/ \E side \in {"Long", "Short"}, notional \in Notionals, limit \in LimitPrices :
             open_position(t, side, notional, limit)
       \/ \E base \in CloseBases, limit \in LimitPrices : close_position(t, base, limit)
       \/ liquidate_position(t)
       \/ settle_position(t)

StaffStep ==
    \/ \E amount \in Amounts : seed_insurance(amount)
    \/ \E signer \in {Admin} \cup Operators, price \in SettlementPrices :
          settle_market(signer, price)
    \/ \E paused \in BOOLEAN : pause(paused)
    \/ \E op \in Operators : set_operator(op)
    \/ \E halted \in BOOLEAN : halt_market(halted)

Next == TraderStep \/ StaffStep

Spec == Init /\ [][Next]_vars

-----------------------------------------------------------------------------
TypeOK ==
    /\ config \in Config
    /\ market \in Market /\ market.base_reserve > 0
    /\ position \in [Traders -> Position]
    /\ collateral_vault \in Nat
    /\ insurance_vault \in Nat
    /\ opens \in Nat

IsOpen(t) == ~is_flat(position[t])

Margins  == SumFunction([t \in Traders |-> position[t].margin])
Gains    == SumFunction([t \in Traders |-> position[t].realized_pnl])
BaseHeld == SumFunction([t \in Traders |-> position[t].base_size])
Longs    == SumFunction([t \in Traders |->
                IF position[t].base_size > 0 THEN position[t].open_notional ELSE 0])
Shorts   == SumFunction([t \in Traders |->
                IF position[t].base_size < 0 THEN position[t].open_notional ELSE 0])
OpenCount == SumFunction([t \in Traders |-> IF IsOpen(t) THEN 1 ELSE 0])

\* The running totals, each kept up step by step with saturating subtractions,
\* are the sums over the positions (state.rs, "running totals").
BooksMatchPositions ==
    /\ market.total_collateral = Margins
    /\ market.long_open_notional = Longs
    /\ market.short_open_notional = Shorts
    /\ market.position_count = OpenCount

\* Until settlement the pool is a closed circuit: the base that left it is the
\* base the traders hold, and the quote that came in is what is still open, net
\* of what traders realized.  No rounding of a swap or of a cost basis, no part
\* close, no liquidation breaks it (quote_open, quote_close).
PoolBalanced ==
    ~InStatus({"Settled"}) =>
       /\ market.base_reserve + BaseHeld = BaseReserve
       /\ market.quote_reserve =
             QuoteReserve + market.long_open_notional - market.short_open_notional - Gains

\* Margin pooled beyond what the positions are credited with, gains included.
Surplus == collateral_vault - market.total_collateral + Gains

GainOf(t) == position'[t].realized_pnl - position[t].realized_pnl

\* The most a close or a liquidation charges on the quote it swaps.
Charge ==
    LET quote == Abs(market'.quote_reserve - market.quote_reserve)
    IN  Greater(fee_on(quote, TakerFeeBps), fee_on(quote, LiquidationFeeBps))

\* What a position is worth to its owner when it is closed.
Residue(t) == position[t].margin + GainOf(t) - Charge

\* Whatever the order of trades, fees, clamped payouts and draws on the fund,
\* the pooled margin falls behind what traders are credited with only when a
\* position is closed that does not cover its own loss and charge, and by no
\* more than that (close_position, liquidate_position, settle_position).
OnlyBankruptciesCost ==
    [][\/ Surplus' >= Surplus
       \/ \E t \in Traders : IsOpen(t) /\ Surplus' - Surplus >= Residue(t)]_vars

\* A trader who opens from flat, or withdraws margin, is never liquidatable at
\* the mark that follows: the initial margin is "strictly below" reach of the
\* maintenance margin (create_market.rs), rounding and slippage included.
EntriesSafe ==
    [][\A t \in Traders :
          /\ IsOpen(t)'
          /\ \/ ~IsOpen(t)
             \/ /\ position'[t].base_size = position[t].base_size
                /\ position'[t].margin < position[t].margin
          => ~is_liquidatable(position[t], mark_price)']_vars

-----------------------------------------------------------------------------
(* What the documentation says of the program and the program does not do. *)

PaidOut == (collateral_vault + insurance_vault) - (collateral_vault' + insurance_vault')

\* state.rs: the insurance vault is "drawn on to cover payouts the collateral
\* vault alone cannot"; a position that closes short empties it first.
PayoutsBacked ==
    [][\A t \in Traders :
          IsOpen(t) /\ ~IsOpen(t)' => PaidOut >= Residue(t) \/ insurance_vault' = 0]_vars

=============================================================================
