-------------------------- MODULE MarcoSpotProofs --------------------------
(***************************************************************************)
(* Proofs about MarcoSpot, for any number of traders and orders.           *)
(*                                                                         *)
(* Solvency is not inductive alone: deploying a buy takes its gross amount *)
(* off usdc_escrowed with a saturating subtraction, and only if that       *)
(* figure really is the sum of what pending buys paid in does nothing get  *)
(* cut off.                                                                *)
(***************************************************************************)
EXTENDS MarcoSpot, SumTheorems

USE SpotAssumption

-----------------------------------------------------------------------------
(* Sums over the orders and over the traders.                              *)

LEMMA FiniteIds == IsFiniteSet(OrderIds) /\ IsFiniteSet(Traders)
BY FS_Interval DEF OrderIds

\* One order's term of a sum changes it by as much, and is at most the sum.
LEMMA TermChange ==
    \A f, g \in [OrderIds -> Nat] : \A o \in OrderIds :
       (\A i \in OrderIds : i # o => g[i] = f[i])
         => /\ SumFunction(f) \in Nat /\ SumFunction(g) \in Nat
            /\ f[o] <= SumFunction(f)
            /\ SumFunction(g) = SumFunction(f) - f[o] + g[o]
<1> TAKE f, g \in [OrderIds -> Nat]
<1> TAKE o \in OrderIds
<1>1. f \in [OrderIds -> Int] /\ g \in [OrderIds -> Int] /\ f[o] \in Nat /\ g[o] \in Nat
  OBVIOUS
<1>2. SumFunction(f) \in Nat /\ SumFunction(g) \in Nat /\ f[o] <= SumFunction(f)
  BY FiniteIds, SumCovers
<1>3. (\A i \in OrderIds : i # o => g[i] = f[i])
        => SumFunction(g) = SumFunction(f) + g[o] - f[o]
  BY <1>1, FiniteIds, SumChange
<1> QED
  BY <1>1, <1>2, <1>3

LEMMA TermUpdate ==
    \A f \in [OrderIds -> Nat] : \A o \in OrderIds : \A n \in Nat :
       SumFunction([f EXCEPT ![o] = n]) = SumFunction(f) - f[o] + n
<1> TAKE f \in [OrderIds -> Nat]
<1> TAKE o \in OrderIds
<1> TAKE n \in Nat
<1> DEFINE g == [f EXCEPT ![o] = n]
<1>1. g \in [OrderIds -> Nat] /\ g[o] = n /\ \A i \in OrderIds : i # o => g[i] = f[i]
  OBVIOUS
<1> HIDE DEF g
<1>2. SumFunction(g) = SumFunction(f) - f[o] + g[o]
  BY <1>1, TermChange
<1> QED
  BY <1>1, <1>2 DEF g

-----------------------------------------------------------------------------
(* The inductive invariant.                                                *)

SharesHeldFor(o) == IF IsOrder(o, "Sell", "Pending") THEN orders[o].shares_amount ELSE 0
SharesHeld == [o \in OrderIds |-> SharesHeldFor(o)]

\* The market's escrow figures are the sums over its pending orders, and the
\* escrow account holds what the figure says.
EscrowIsTotal ==
    /\ market.usdc_escrowed = SumFunction(Held)
    /\ market.shares_escrowed = SumFunction(SharesHeld)
    /\ position_escrow = market.shares_escrowed

\* Ids are handed out in order: what lies ahead of the counter does not exist.
UnplacedAhead == \A o \in OrderIds : o >= market.order_seq => orders[o] = NoOrder

IInv ==
    /\ TypeOK
    /\ EscrowIsTotal
    /\ UnplacedAhead
    /\ SweptWithinCollected
    /\ Solvent

-----------------------------------------------------------------------------
(* Typing of the helpers.                                                  *)

\* A status other than None belongs to an order account that exists.
LEMMA PlacedOrder ==
    ASSUME TypeOK, NEW o \in OrderIds, orders[o].status # "None"
    PROVE  orders[o] \in Order
BY DEF TypeOK, NoOrder

LEMMA FeeType ==
    ASSUME NEW amount \in Nat, NEW bps \in Nat
    PROVE  fee_on(amount, bps) \in Nat
<1>1. amount * bps \in Nat
  OBVIOUS
<1> QED
  BY <1>1 DEF fee_on

LEMMA HeldType ==
    ASSUME TypeOK
    PROVE  Held \in [OrderIds -> Nat] /\ SharesHeld \in [OrderIds -> Nat]
<1> SUFFICES ASSUME NEW o \in OrderIds
             PROVE  HeldFor(o) \in Nat /\ SharesHeldFor(o) \in Nat
  BY DEF Held, SharesHeld
<1>1. orders[o].status = "Pending" => orders[o] \in Order
  BY PlacedOrder
<1> QED
  BY <1>1 DEF HeldFor, SharesHeldFor, IsOrder, Order

\* Nothing held for an order exceeds the figure of the market.
LEMMA EscrowCovers ==
    ASSUME IInv, NEW o \in OrderIds
    PROVE  /\ HeldFor(o) \in Nat /\ HeldFor(o) <= market.usdc_escrowed
           /\ SharesHeldFor(o) \in Nat /\ SharesHeldFor(o) <= market.shares_escrowed
<1>1. TypeOK /\ market.usdc_escrowed = SumFunction(Held)
      /\ market.shares_escrowed = SumFunction(SharesHeld)
  BY DEF IInv, EscrowIsTotal
<1>2. Held \in [OrderIds -> Nat] /\ SharesHeld \in [OrderIds -> Nat]
  BY <1>1, HeldType
<1>3. Held[o] <= market.usdc_escrowed /\ SharesHeld[o] <= market.shares_escrowed
  BY <1>1, <1>2, FiniteIds, SumCovers
<1> QED
  BY <1>2, <1>3 DEF Held, SharesHeld

\* A step that changes order o only, and what is held for it to a and b,
\* keeps the sums if it changes the figures by the difference.
LEMMA TotalsFollow ==
    ASSUME IInv, NEW o \in OrderIds, NEW a \in Nat, NEW b \in Nat,
           \A i \in OrderIds \ {o} : orders'[i] = orders[i],
           HeldFor(o)' = a, SharesHeldFor(o)' = b,
           market.usdc_escrowed' = market.usdc_escrowed - HeldFor(o) + a,
           market.shares_escrowed' = market.shares_escrowed - SharesHeldFor(o) + b,
           position_escrow' = market.shares_escrowed'
    PROVE  EscrowIsTotal'
<1>1. TypeOK /\ market.usdc_escrowed = SumFunction(Held)
      /\ market.shares_escrowed = SumFunction(SharesHeld)
  BY DEF IInv, EscrowIsTotal
<1>2. Held \in [OrderIds -> Nat] /\ SharesHeld \in [OrderIds -> Nat]
  BY <1>1, HeldType
<1>3. Held' = [Held EXCEPT ![o] = a] /\ SharesHeld' = [SharesHeld EXCEPT ![o] = b]
  BY DEF Held, SharesHeld, HeldFor, SharesHeldFor, IsOrder
<1>4. SumFunction([Held EXCEPT ![o] = a]) = SumFunction(Held) - Held[o] + a
  BY <1>2, TermUpdate, Zenon
<1>5. SumFunction([SharesHeld EXCEPT ![o] = b]) = SumFunction(SharesHeld) - SharesHeld[o] + b
  BY <1>2, TermUpdate, Zenon
<1>6. Held[o] = HeldFor(o) /\ SharesHeld[o] = SharesHeldFor(o)
  BY DEF Held, SharesHeld
<1>7. market.usdc_escrowed' = SumFunction(Held)' /\ market.shares_escrowed' = SumFunction(SharesHeld)'
  BY <1>1, <1>3, <1>4, <1>5, <1>6
<1> QED
  BY <1>7 DEF EscrowIsTotal

\* A step that changes neither the orders nor the escrow keeps the sums.
LEMMA TotalsStay ==
    ASSUME IInv, orders' = orders, position_escrow' = position_escrow,
           market'.usdc_escrowed = market.usdc_escrowed,
           market'.shares_escrowed = market.shares_escrowed
    PROVE  EscrowIsTotal'
<1>1. Held' = Held /\ SharesHeld' = SharesHeld
  BY DEF Held, SharesHeld, HeldFor, SharesHeldFor, IsOrder
<1> QED
  BY <1>1 DEF IInv, EscrowIsTotal

-----------------------------------------------------------------------------
(* Every instruction preserves the invariant.                              *)

\* The components that no money or share moves in.
LEMMA InvType ==
    ASSUME IInv
    PROVE  TypeOK /\ market.usdc_escrowed \in Nat /\ market.fees_collected \in Nat
           /\ market.fees_swept \in Nat /\ market.shares_escrowed \in Nat
           /\ market.order_seq \in Nat /\ market_usdc \in Nat
BY DEF IInv, TypeOK, Market

LEMMA PlaceBuyStep ==
    ASSUME IInv, NEW t \in Traders, NEW usdc \in Nat, NEW limit \in Nat,
           NEW minOut \in Nat, place_buy(t, usdc, limit, minOut)
    PROVE  IInv'
<1> PICK o \in OrderIds : o = market.order_seq
  BY DEF place_buy
<1> DEFINE new == NewOrder(t, "Buy", usdc, 0, limit, minOut)
<1>1. TypeOK /\ orders[o] = NoOrder /\ o + 1 \in Nat
  BY DEF IInv, UnplacedAhead, OrderIds
<1>2. new \in Order /\ new.status = "Pending" /\ new.side = "Buy" /\ new.usdc_amount = usdc
  BY <1>1 DEF NewOrder, Order, TypeOK, Market, Sides, Statuses
<1>3. orders' = [orders EXCEPT ![o] = new]
  BY DEF place_buy
<1> HIDE DEF new
<1>4. market' \in Market /\ market'.usdc_escrowed = market.usdc_escrowed + usdc
      /\ market'.order_seq = o + 1 /\ market'.fees_collected = market.fees_collected
      /\ market'.fees_swept = market.fees_swept
      /\ market'.shares_escrowed = market.shares_escrowed
  <2>1. market.usdc_escrowed + usdc \in Nat
    BY <1>1 DEF TypeOK, Market
  <2> QED
    BY <1>1, <2>1 DEF TypeOK, Market, place_buy
<1>5. TypeOK'
  <2>1. orders' \in [OrderIds -> Order \cup {NoOrder}]
    BY <1>1, <1>2, <1>3 DEF TypeOK
  <2>2. trader_usdc' \in [Traders -> Nat] /\ market_usdc' \in Nat
    BY <1>1 DEF TypeOK, place_buy
  <2> QED
    BY <1>1, <1>4, <2>1, <2>2 DEF TypeOK, place_buy, tokenVars
<1>6. EscrowIsTotal'
  <2>1. HeldFor(o) = 0 /\ SharesHeldFor(o) = 0
    BY <1>1 DEF HeldFor, SharesHeldFor, IsOrder, NoOrder
  <2>2. orders'[o] = new /\ \A i \in OrderIds \ {o} : orders'[i] = orders[i]
    BY <1>1, <1>3 DEF TypeOK
  <2>3. HeldFor(o)' = usdc /\ SharesHeldFor(o)' = 0
    BY <1>2, <2>2 DEF HeldFor, SharesHeldFor, IsOrder
  <2>4. position_escrow' = market'.shares_escrowed
    BY <1>4 DEF IInv, EscrowIsTotal, place_buy, tokenVars
  <2> QED
    BY <1>4, <2>1, <2>2, <2>3, <2>4, InvType, TotalsFollow
<1>7. UnplacedAhead'
  BY <1>1, <1>3, <1>4 DEF IInv, UnplacedAhead, TypeOK, OrderIds
<1>8. SweptWithinCollected' /\ Solvent'
  <2>1. market_usdc' = market_usdc + usdc
    BY DEF place_buy
  <2> QED
    BY <1>4, <2>1, InvType DEF IInv, SweptWithinCollected, Solvent, fees_outstanding, SatSub
<1> QED
  BY <1>5, <1>6, <1>7, <1>8 DEF IInv

LEMMA DeployBuyStep ==
    ASSUME IInv, NEW signer, NEW o \in OrderIds, deploy_buy(signer, o)
    PROVE  IInv'
<1> DEFINE gross      == orders[o].usdc_amount
           fee        == SpreadOn(o, gross)
           deployable == gross - fee
<1>1. TypeOK /\ orders[o] \in Order /\ IsOrder(o, "Buy", "Pending")
  BY PlacedOrder DEF IInv, deploy_buy, IsOrder
<1>2. gross \in Nat /\ fee \in Nat /\ deployable \in Nat
  <2>1. gross \in Nat /\ orders[o].fee_bps \in Nat
    BY <1>1 DEF Order
  <2>2. fee \in Nat
    BY <2>1, FeeType DEF SpreadOn
  <2>3. deployable > 0
    BY DEF deploy_buy
  <2> HIDE DEF fee
  <2> QED
    BY <2>1, <2>2, <2>3
<1>3. HeldFor(o) = gross /\ SharesHeldFor(o) = 0 /\ gross <= market.usdc_escrowed
  BY <1>1, EscrowCovers DEF HeldFor, SharesHeldFor, IsOrder
<1>4. /\ orders' = [orders EXCEPT ![o].status = "Deployed",
                                  ![o].deployed_amount = deployable, ![o].fee_paid = fee]
      /\ market' = [market EXCEPT !.usdc_escrowed = @ - gross,
                                  !.total_deployed = @ + deployable,
                                  !.fees_collected = @ + fee]
      /\ market_usdc' = market_usdc - deployable /\ market_usdc >= deployable
  BY <1>1, <1>2, <1>3 DEF deploy_buy, SatSub, TypeOK, Market
<1> HIDE DEF gross, fee, deployable
<1>5. market' \in Market /\ market'.usdc_escrowed = market.usdc_escrowed - gross
      /\ market'.fees_collected = market.fees_collected + fee
      /\ market'.fees_swept = market.fees_swept /\ market'.order_seq = market.order_seq
      /\ market'.shares_escrowed = market.shares_escrowed
  <2>1. market.usdc_escrowed - gross \in Nat /\ market.total_deployed + deployable \in Nat
        /\ market.fees_collected + fee \in Nat
    BY <1>1, <1>2, <1>3 DEF TypeOK, Market
  <2> QED
    BY <1>1, <1>4, <2>1 DEF TypeOK, Market
<1>6. orders'[o] \in Order /\ orders'[o].status = "Deployed"
  BY <1>1, <1>2, <1>4 DEF TypeOK, Order, Statuses
<1>7. TypeOK'
  <2>1. orders' \in [OrderIds -> Order \cup {NoOrder}]
    BY <1>1, <1>4, <1>6 DEF TypeOK
  <2> QED
    BY <1>1, <1>2, <1>4, <1>5, <2>1 DEF TypeOK, deploy_buy, tokenVars
<1>8. EscrowIsTotal'
  <2>1. HeldFor(o)' = 0 /\ SharesHeldFor(o)' = 0
    BY <1>6 DEF HeldFor, SharesHeldFor, IsOrder
  <2>2. \A i \in OrderIds \ {o} : orders'[i] = orders[i]
    BY <1>1, <1>4 DEF TypeOK
  <2>3. position_escrow' = market'.shares_escrowed
    BY <1>5 DEF IInv, EscrowIsTotal, deploy_buy, tokenVars
  <2> QED
    BY <1>2, <1>3, <1>5, <2>1, <2>2, <2>3, InvType, TotalsFollow
<1>9. UnplacedAhead'
  BY <1>1, <1>4, <1>5 DEF IInv, UnplacedAhead, TypeOK, IsOrder, NoOrder
<1>10. SweptWithinCollected' /\ Solvent'
  <2>1. market.fees_swept <= market.fees_collected
        /\ market_usdc >= market.usdc_escrowed + market.fees_collected - market.fees_swept
    BY InvType DEF IInv, SweptWithinCollected, Solvent, fees_outstanding, SatSub
  <2>2. deployable = gross - fee
    BY DEF deployable
  <2> QED
    BY <1>2, <1>3, <1>4, <1>5, <2>1, <2>2, InvType
       DEF SweptWithinCollected, Solvent, fees_outstanding, SatSub
<1> QED
  BY <1>7, <1>8, <1>9, <1>10 DEF IInv

LEMMA ConfirmBuyStep ==
    ASSUME IInv, NEW signer, NEW o \in OrderIds, NEW shares \in Nat, NEW price \in Nat,
           confirm_buy(signer, o, shares, price)
    PROVE  IInv'
<1> DEFINE t == orders[o].trader
<1>1. TypeOK /\ orders[o] \in Order /\ IsOrder(o, "Buy", "Deployed")
  BY PlacedOrder DEF IInv, confirm_buy, IsOrder
<1>2. orders' = [orders EXCEPT ![o].status = "Filled", ![o].shares_amount = shares,
                               ![o].execution_price = price]
  BY DEF confirm_buy
<1>3. orders'[o] \in Order /\ orders'[o].status = "Filled"
  BY <1>1, <1>2 DEF TypeOK, Order, Statuses
<1>4. market' \in Market /\ market'.usdc_escrowed = market.usdc_escrowed
      /\ market'.fees_collected = market.fees_collected
      /\ market'.fees_swept = market.fees_swept /\ market'.order_seq = market.order_seq
      /\ market'.shares_escrowed = market.shares_escrowed
  <2>1. market.total_shares_outstanding + shares \in Nat
        /\ market.total_bought_usdc + orders[o].deployed_amount \in Nat
    BY <1>1 DEF TypeOK, Market, Order
  <2> QED
    BY <1>1, <2>1 DEF TypeOK, Market, confirm_buy
<1>5. TypeOK'
  <2>1. orders' \in [OrderIds -> Order \cup {NoOrder}]
    BY <1>1, <1>2, <1>3 DEF TypeOK
  <2>2. t \in Traders /\ supply' \in Nat /\ position' \in [Traders -> Nat]
        /\ frozen' \in [Traders -> BOOLEAN]
    BY <1>1 DEF TypeOK, Order, confirm_buy, Relocked, Market
  <2>3. holding' \in [Traders -> Holding]
    <3>1. holding[t] \in Holding /\ holding[t].shares_bought + shares \in Nat
          /\ holding[t].usdc_spent + orders[o].usdc_amount \in Nat
          /\ holding[t].fees_paid + orders[o].fee_paid \in Nat
      BY <1>1, <2>2 DEF TypeOK, Holding, Order
    <3>2. holding' = [holding EXCEPT ![t].shares_bought = holding[t].shares_bought + shares,
                        ![t].usdc_spent = holding[t].usdc_spent + orders[o].usdc_amount,
                        ![t].fees_paid = holding[t].fees_paid + orders[o].fee_paid]
      BY <1>1, <2>2 DEF confirm_buy, TypeOK, Holding
    <3> QED
      BY <1>1, <2>2, <3>1, <3>2 DEF TypeOK, Holding
  <2> QED
    BY <1>1, <1>4, <2>1, <2>2, <2>3 DEF TypeOK, confirm_buy, usdcVars
<1>6. EscrowIsTotal'
  <2>1. HeldFor(o) = 0 /\ SharesHeldFor(o) = 0 /\ HeldFor(o)' = 0 /\ SharesHeldFor(o)' = 0
    BY <1>1, <1>3 DEF HeldFor, SharesHeldFor, IsOrder
  <2>2. \A i \in OrderIds \ {o} : orders'[i] = orders[i]
    BY <1>1, <1>2 DEF TypeOK
  <2>3. position_escrow' = market'.shares_escrowed
    BY <1>4 DEF IInv, EscrowIsTotal, confirm_buy
  <2> QED
    BY <1>4, <2>1, <2>2, <2>3, InvType, TotalsFollow
<1>7. UnplacedAhead'
  BY <1>1, <1>2, <1>4 DEF IInv, UnplacedAhead, TypeOK, IsOrder, NoOrder
<1>8. SweptWithinCollected' /\ Solvent'
  BY <1>4 DEF IInv, SweptWithinCollected, Solvent, fees_outstanding, confirm_buy, usdcVars
<1> QED
  BY <1>5, <1>6, <1>7, <1>8 DEF IInv

LEMMA CancelBuyStep ==
    ASSUME IInv, NEW signer, NEW o \in OrderIds, cancel_buy(signer, o)
    PROVE  IInv'
<1> DEFINE t      == orders[o].trader
           refund == orders[o].usdc_amount
<1>1. TypeOK /\ orders[o] \in Order
      /\ (IsOrder(o, "Buy", "Pending") \/ IsOrder(o, "Buy", "Deployed"))
  BY PlacedOrder DEF IInv, cancel_buy, IsOrder
<1>2. t \in Traders /\ refund \in Nat
  BY <1>1 DEF Order
<1>3. orders' = [orders EXCEPT ![o].status = "Cancelled", ![o].fee_paid = 0]
  BY DEF cancel_buy
<1>4. orders'[o] \in Order /\ orders'[o].status = "Cancelled"
  BY <1>1, <1>3 DEF TypeOK, Order, Statuses
<1>5. HeldFor(o) \in Nat /\ HeldFor(o) <= market.usdc_escrowed /\ SharesHeldFor(o) = 0
      /\ HeldFor(o)' = 0 /\ SharesHeldFor(o)' = 0
  BY <1>1, <1>4, EscrowCovers DEF HeldFor, SharesHeldFor, IsOrder
\* The books after the release: the escrow of the order, or unswept spread.
<1>6. market' \in Market /\ market'.order_seq = market.order_seq
      /\ market'.usdc_escrowed = market.usdc_escrowed - HeldFor(o)
      /\ market'.shares_escrowed = market.shares_escrowed
      /\ market'.fees_swept = market.fees_swept
      /\ market'.fees_swept <= market'.fees_collected
  <2>1. market' = Released(o)
    BY DEF cancel_buy
  <2>2. CASE IsOrder(o, "Buy", "Pending")
    <3>1. HeldFor(o) = refund /\ market.usdc_escrowed - refund \in Nat
          /\ SatSub(market.usdc_escrowed, refund) = market.usdc_escrowed - refund
      BY <1>2, <1>5, <2>2, InvType DEF HeldFor, SatSub
    <3>2. market' = [market EXCEPT !.usdc_escrowed = market.usdc_escrowed - refund]
      BY <1>1, <2>1, <2>2, <3>1 DEF Released, IsOrder, TypeOK, Market
    <3> QED
      BY <1>1, <3>1, <3>2 DEF IInv, SweptWithinCollected, TypeOK, Market
  <2>3. CASE IsOrder(o, "Buy", "Deployed")
    <3> DEFINE deployed  == SatSub(market.total_deployed, orders[o].deployed_amount)
               collected == SatSub(market.fees_collected,
                                   Lesser(fees_outstanding(market), orders[o].fee_paid))
    <3>1. HeldFor(o) = 0
      BY <2>3 DEF HeldFor, IsOrder
    <3>2. deployed \in Nat /\ collected \in Nat /\ market.fees_swept <= collected
      BY <1>1, InvType DEF IInv, SweptWithinCollected, SatSub, Lesser, fees_outstanding,
                           TypeOK, Market, Order
    <3>3. market' = [market EXCEPT !.total_deployed = deployed, !.fees_collected = collected]
      BY <1>1, <2>1, <2>3 DEF Released, IsOrder, TypeOK, Market
    <3> HIDE DEF deployed, collected
    <3>4. market' \in Market /\ market'.order_seq = market.order_seq
          /\ market'.usdc_escrowed = market.usdc_escrowed
          /\ market'.shares_escrowed = market.shares_escrowed
          /\ market'.fees_swept = market.fees_swept
          /\ market'.fees_collected = collected
      BY <1>1, <3>2, <3>3 DEF TypeOK, Market
    <3> QED
      BY <3>1, <3>2, <3>4, InvType
  <2> QED
    BY <1>1, <2>2, <2>3
<1>7. /\ unreserved_usdc(market', market_usdc) >= refund
      /\ refund > 0
      /\ market_usdc' = market_usdc - refund
      /\ trader_usdc' = [trader_usdc EXCEPT ![t] = @ + refund]
  BY DEF cancel_buy, RefundOf
<1>8. SweptWithinCollected' /\ Solvent' /\ market_usdc' \in Nat
  BY <1>2, <1>6, <1>7, InvType DEF SweptWithinCollected, Solvent, fees_outstanding, SatSub,
                                   unreserved_usdc, Market
<1>9. TypeOK'
  <2>1. orders' \in [OrderIds -> Order \cup {NoOrder}]
    BY <1>1, <1>3, <1>4 DEF TypeOK
  <2>2. trader_usdc' \in [Traders -> Nat]
    BY <1>1, <1>2, <1>7 DEF TypeOK
  <2> QED
    BY <1>1, <1>6, <1>8, <2>1, <2>2 DEF TypeOK, cancel_buy, tokenVars
<1>10. EscrowIsTotal'
  <2>1. \A i \in OrderIds \ {o} : orders'[i] = orders[i]
    BY <1>1, <1>3 DEF TypeOK
  <2>2. position_escrow' = market'.shares_escrowed
    BY <1>6 DEF IInv, EscrowIsTotal, cancel_buy, tokenVars
  <2> QED
    BY <1>5, <1>6, <2>1, <2>2, InvType, TotalsFollow
<1>11. UnplacedAhead'
  BY <1>1, <1>3, <1>6 DEF IInv, UnplacedAhead, TypeOK, IsOrder, NoOrder
<1> QED
  BY <1>8, <1>9, <1>10, <1>11 DEF IInv

LEMMA PlaceSellStep ==
    ASSUME IInv, NEW t \in Traders, NEW shares \in Nat, NEW limit \in Nat,
           place_sell(t, shares, limit)
    PROVE  IInv'
<1> PICK o \in OrderIds : o = market.order_seq
  BY DEF place_sell
<1> DEFINE new == NewOrder(t, "Sell", 0, shares, limit, 0)
<1>1. TypeOK /\ orders[o] = NoOrder /\ o + 1 \in Nat
  BY DEF IInv, UnplacedAhead, OrderIds
<1>2. new \in Order /\ new.status = "Pending" /\ new.side = "Sell" /\ new.shares_amount = shares
  BY <1>1 DEF NewOrder, Order, TypeOK, Market, Sides, Statuses
<1>3. orders' = [orders EXCEPT ![o] = new]
  BY DEF place_sell
<1> HIDE DEF new
<1>4. market' \in Market /\ market'.usdc_escrowed = market.usdc_escrowed
      /\ market'.order_seq = o + 1 /\ market'.fees_collected = market.fees_collected
      /\ market'.fees_swept = market.fees_swept
      /\ market'.shares_escrowed = market.shares_escrowed + shares
  <2>1. market.shares_escrowed + shares \in Nat
    BY <1>1 DEF TypeOK, Market
  <2> QED
    BY <1>1, <2>1 DEF TypeOK, Market, place_sell
<1>5. TypeOK'
  <2>1. orders' \in [OrderIds -> Order \cup {NoOrder}]
    BY <1>1, <1>2, <1>3 DEF TypeOK
  <2>2. position' \in [Traders -> Nat] /\ position_escrow' \in Nat
    BY <1>1 DEF TypeOK, place_sell
  <2>3. frozen' \in [Traders -> BOOLEAN]
    BY <1>1 DEF TypeOK, place_sell
  <2> QED
    BY <1>1, <1>4, <2>1, <2>2, <2>3 DEF TypeOK, place_sell, usdcVars
<1>6. EscrowIsTotal'
  <2>1. HeldFor(o) = 0 /\ SharesHeldFor(o) = 0
    BY <1>1 DEF HeldFor, SharesHeldFor, IsOrder, NoOrder
  <2>2. orders'[o] = new /\ \A i \in OrderIds \ {o} : orders'[i] = orders[i]
    BY <1>1, <1>3 DEF TypeOK
  <2>3. HeldFor(o)' = 0 /\ SharesHeldFor(o)' = shares
    BY <1>2, <2>2 DEF HeldFor, SharesHeldFor, IsOrder
  <2>4. position_escrow' = market'.shares_escrowed
    BY <1>4 DEF IInv, EscrowIsTotal, place_sell
  <2> QED
    BY <1>4, <2>1, <2>2, <2>3, <2>4, InvType, TotalsFollow
<1>7. UnplacedAhead'
  BY <1>1, <1>3, <1>4 DEF IInv, UnplacedAhead, TypeOK, OrderIds
<1>8. SweptWithinCollected' /\ Solvent'
  BY <1>4 DEF IInv, SweptWithinCollected, Solvent, fees_outstanding, place_sell, usdcVars
<1> QED
  BY <1>5, <1>6, <1>7, <1>8 DEF IInv

LEMMA SettleSellStep ==
    ASSUME IInv, NEW signer, NEW o \in OrderIds, NEW proceeds \in Nat, NEW price \in Nat,
           settle_sell(signer, o, proceeds, price)
    PROVE  IInv'
<1> DEFINE t      == orders[o].trader
           shares == orders[o].shares_amount
           fee    == SpreadOn(o, proceeds)
           payout == proceeds - fee
<1>1. TypeOK /\ orders[o] \in Order /\ IsOrder(o, "Sell", "Pending")
  BY PlacedOrder DEF IInv, settle_sell, IsOrder
<1>2. t \in Traders /\ shares \in Nat /\ fee \in Nat /\ payout \in Nat
  <2>1. t \in Traders /\ shares \in Nat /\ orders[o].fee_bps \in Nat
    BY <1>1 DEF Order
  <2>2. fee \in Nat
    BY <2>1, FeeType DEF SpreadOn
  <2>3. payout > 0
    BY DEF settle_sell
  <2> HIDE DEF fee
  <2> QED
    BY <2>1, <2>2, <2>3
<1>3. SharesHeldFor(o) = shares /\ HeldFor(o) = 0 /\ shares <= market.shares_escrowed
  BY <1>1, EscrowCovers DEF HeldFor, SharesHeldFor, IsOrder
<1>4. /\ orders' = [orders EXCEPT ![o].status = "Settled", ![o].usdc_amount = payout,
                                  ![o].execution_price = price, ![o].fee_paid = fee]
      /\ market_usdc' = market_usdc - payout
      /\ trader_usdc' = [trader_usdc EXCEPT ![t] = @ + payout]
      /\ position_escrow' = position_escrow - shares /\ position_escrow >= shares
      /\ supply' = supply - shares /\ supply >= shares
      /\ unreserved_usdc(market, market_usdc) >= proceeds
      /\ proceeds > 0
  BY DEF settle_sell
<1>5. holding' = [holding EXCEPT ![t].shares_sold = @ + shares,
                                 ![t].usdc_received = @ + payout, ![t].fees_paid = @ + fee]
  BY DEF settle_sell
<1>6. \E left \in Nat :
        market' = [market EXCEPT !.shares_escrowed = market.shares_escrowed - shares,
                                 !.total_shares_outstanding = left,
                                 !.total_sold_usdc = market.total_sold_usdc + payout,
                                 !.fees_collected = market.fees_collected + fee]
  <2>1. SatSub(market.shares_escrowed, shares) = market.shares_escrowed - shares
    BY <1>2, <1>3, InvType DEF SatSub
  <2>2. SatSub(market.total_shares_outstanding, shares) \in Nat
    BY <1>1, <1>2 DEF SatSub, TypeOK, Market
  <2> QED
    BY <1>1, <2>1, <2>2 DEF settle_sell, TypeOK, Market
<1>7. payout = proceeds - fee
  OBVIOUS
<1> HIDE DEF t, shares, fee, payout
<1>8. market' \in Market /\ market'.usdc_escrowed = market.usdc_escrowed
      /\ market'.fees_collected = market.fees_collected + fee
      /\ market'.fees_swept = market.fees_swept /\ market'.order_seq = market.order_seq
      /\ market'.shares_escrowed = market.shares_escrowed - shares
  <2>1. market.shares_escrowed - shares \in Nat /\ market.total_sold_usdc + payout \in Nat
        /\ market.fees_collected + fee \in Nat
    BY <1>1, <1>2, <1>3 DEF TypeOK, Market
  <2>2. PICK left \in Nat :
          market' = [market EXCEPT !.shares_escrowed = market.shares_escrowed - shares,
                                   !.total_shares_outstanding = left,
                                   !.total_sold_usdc = market.total_sold_usdc + payout,
                                   !.fees_collected = market.fees_collected + fee]
    BY <1>6
  <2>3. market' \in Market
    BY <1>1, <2>1, <2>2 DEF TypeOK, Market
  <2> QED
    BY <1>1, <2>2, <2>3 DEF TypeOK, Market
<1>9. orders'[o] \in Order /\ orders'[o].status = "Settled"
  BY <1>1, <1>2, <1>4 DEF TypeOK, Order, Statuses
<1>10. SweptWithinCollected' /\ Solvent' /\ market_usdc' \in Nat
  BY <1>2, <1>4, <1>7, <1>8, InvType
     DEF IInv, SweptWithinCollected, Solvent, fees_outstanding, SatSub, unreserved_usdc
<1>11. TypeOK'
  <2>1. orders' \in [OrderIds -> Order \cup {NoOrder}]
    BY <1>1, <1>4, <1>9 DEF TypeOK
  <2>2. trader_usdc' \in [Traders -> Nat] /\ position_escrow' \in Nat /\ supply' \in Nat
    BY <1>1, <1>2, <1>4 DEF TypeOK
  <2>3. holding' \in [Traders -> Holding]
    <3>1. holding[t] \in Holding /\ holding[t].shares_sold + shares \in Nat
          /\ holding[t].usdc_received + payout \in Nat /\ holding[t].fees_paid + fee \in Nat
      BY <1>1, <1>2 DEF TypeOK, Holding
    <3>2. holding' = [holding EXCEPT ![t].shares_sold = holding[t].shares_sold + shares,
                                     ![t].usdc_received = holding[t].usdc_received + payout,
                                     ![t].fees_paid = holding[t].fees_paid + fee]
      BY <1>1, <1>2, <1>5 DEF TypeOK, Holding
    <3> QED
      BY <1>1, <1>2, <3>1, <3>2 DEF TypeOK, Holding
  <2> QED
    BY <1>1, <1>8, <1>10, <2>1, <2>2, <2>3 DEF TypeOK, settle_sell
<1>12. EscrowIsTotal'
  <2>1. HeldFor(o)' = 0 /\ SharesHeldFor(o)' = 0
    BY <1>9 DEF HeldFor, SharesHeldFor, IsOrder
  <2>2. \A i \in OrderIds \ {o} : orders'[i] = orders[i]
    BY <1>1, <1>4 DEF TypeOK
  <2>3. position_escrow' = market'.shares_escrowed
    BY <1>4, <1>8 DEF IInv, EscrowIsTotal
  <2> QED
    BY <1>2, <1>3, <1>8, <2>1, <2>2, <2>3, InvType, TotalsFollow
<1>13. UnplacedAhead'
  BY <1>1, <1>4, <1>8 DEF IInv, UnplacedAhead, TypeOK, IsOrder, NoOrder
<1> QED
  BY <1>10, <1>11, <1>12, <1>13 DEF IInv

LEMMA CancelSellStep ==
    ASSUME IInv, NEW signer, NEW o \in OrderIds, cancel_sell(signer, o)
    PROVE  IInv'
<1> DEFINE t      == orders[o].trader
           shares == orders[o].shares_amount
<1>1. TypeOK /\ orders[o] \in Order /\ IsOrder(o, "Sell", "Pending")
  BY PlacedOrder DEF IInv, cancel_sell, IsOrder
<1>2. t \in Traders /\ shares \in Nat
  BY <1>1 DEF Order
<1>3. SharesHeldFor(o) = shares /\ HeldFor(o) = 0 /\ shares <= market.shares_escrowed
  BY <1>1, EscrowCovers DEF HeldFor, SharesHeldFor, IsOrder
<1>4. /\ orders' = [orders EXCEPT ![o].status = "Cancelled"]
      /\ position_escrow' = position_escrow - shares /\ position_escrow >= shares
      /\ position' = [position EXCEPT ![t] = @ + shares]
      /\ frozen' = Relocked(t)
      /\ market' = [market EXCEPT !.shares_escrowed = market.shares_escrowed - shares]
  BY <1>1, <1>2, <1>3 DEF cancel_sell, SatSub, TypeOK, Market
<1>5. orders'[o] \in Order /\ orders'[o].status = "Cancelled"
  BY <1>1, <1>4 DEF TypeOK, Order, Statuses
<1> HIDE DEF t, shares
<1>6. market' \in Market /\ market'.usdc_escrowed = market.usdc_escrowed
      /\ market'.fees_collected = market.fees_collected
      /\ market'.fees_swept = market.fees_swept /\ market'.order_seq = market.order_seq
      /\ market'.shares_escrowed = market.shares_escrowed - shares
  <2>1. market.shares_escrowed - shares \in Nat
    BY <1>2, <1>3, InvType
  <2> QED
    BY <1>1, <1>4, <2>1 DEF TypeOK, Market
<1>7. TypeOK'
  <2>1. orders' \in [OrderIds -> Order \cup {NoOrder}]
    BY <1>1, <1>4, <1>5 DEF TypeOK
  <2>2. position' \in [Traders -> Nat] /\ position_escrow' \in Nat
    BY <1>1, <1>2, <1>4 DEF TypeOK
  <2>3. frozen' \in [Traders -> BOOLEAN]
    BY <1>1, <1>2, <1>4 DEF TypeOK, Relocked, Market
  <2> QED
    BY <1>1, <1>6, <2>1, <2>2, <2>3 DEF TypeOK, cancel_sell, usdcVars
<1>8. EscrowIsTotal'
  <2>1. HeldFor(o)' = 0 /\ SharesHeldFor(o)' = 0
    BY <1>5 DEF HeldFor, SharesHeldFor, IsOrder
  <2>2. \A i \in OrderIds \ {o} : orders'[i] = orders[i]
    BY <1>1, <1>4 DEF TypeOK
  <2>3. position_escrow' = market'.shares_escrowed
    BY <1>4, <1>6 DEF IInv, EscrowIsTotal
  <2> QED
    BY <1>2, <1>3, <1>6, <2>1, <2>2, <2>3, InvType, TotalsFollow
<1>9. UnplacedAhead'
  BY <1>1, <1>4, <1>6 DEF IInv, UnplacedAhead, TypeOK, IsOrder, NoOrder
<1>10. SweptWithinCollected' /\ Solvent'
  BY <1>6 DEF IInv, SweptWithinCollected, Solvent, fees_outstanding, cancel_sell, usdcVars
<1> QED
  BY <1>7, <1>8, <1>9, <1>10 DEF IInv

LEMMA SweepFeeStep ==
    ASSUME IInv, NEW amount \in Nat, sweep_fee(amount)
    PROVE  IInv'
<1>1. TypeOK /\ amount <= fees_outstanding(market) /\ market_usdc' = market_usdc - amount
      /\ market_usdc >= amount
      /\ market' = [market EXCEPT !.fees_swept = market.fees_swept + amount]
  BY DEF IInv, sweep_fee, TypeOK, Market
<1>2. market' \in Market /\ market'.usdc_escrowed = market.usdc_escrowed
      /\ market'.fees_collected = market.fees_collected
      /\ market'.fees_swept = market.fees_swept + amount
      /\ market'.order_seq = market.order_seq
      /\ market'.shares_escrowed = market.shares_escrowed
  <2>1. market.fees_swept + amount \in Nat
    BY InvType
  <2> QED
    BY <1>1, <2>1 DEF TypeOK, Market
<1>3. TypeOK'
  BY <1>1, <1>2 DEF TypeOK, sweep_fee, tokenVars
<1>4. EscrowIsTotal'
  BY <1>2, TotalsStay DEF sweep_fee, tokenVars
<1>5. UnplacedAhead'
  BY <1>2 DEF IInv, UnplacedAhead, sweep_fee
<1>6. SweptWithinCollected' /\ Solvent'
  BY <1>1, <1>2, InvType DEF IInv, SweptWithinCollected, Solvent, fees_outstanding, SatSub
<1> QED
  BY <1>3, <1>4, <1>5, <1>6 DEF IInv

\* The admin's settings leave the books alone.
LEMMA SettingsStep ==
    ASSUME IInv, market' \in Market,
           market'.usdc_escrowed = market.usdc_escrowed,
           market'.shares_escrowed = market.shares_escrowed,
           market'.fees_collected = market.fees_collected,
           market'.fees_swept = market.fees_swept,
           market'.order_seq = market.order_seq,
           UNCHANGED <<orders, holding, eligible, usdcVars, tokenVars>>
    PROVE  IInv'
<1>1. TypeOK'
  BY DEF IInv, TypeOK, usdcVars, tokenVars
<1>2. EscrowIsTotal'
  BY TotalsStay DEF tokenVars
<1>3. UnplacedAhead' /\ SweptWithinCollected' /\ Solvent'
  BY DEF IInv, UnplacedAhead, SweptWithinCollected, Solvent, fees_outstanding, usdcVars
<1> QED
  BY <1>1, <1>2, <1>3 DEF IInv

LEMMA AdminStepInv ==
    ASSUME IInv, AdminStep
    PROVE  IInv'
<1> USE InvType
<1>1. CASE \E amount \in 1 .. fees_outstanding(market) : sweep_fee(amount)
  BY <1>1, SweepFeeStep
<1>2. CASE \E status \in MarketStatuses : set_market_status(status)
  <2>1. PICK status \in MarketStatuses : market' = [market EXCEPT !.status = status]
    BY <1>2 DEF set_market_status
  <2> QED
    BY <1>2, <2>1, SettingsStep DEF set_market_status, TypeOK, Market
<1>3. CASE \E op \in Operators : update_operator(op)
  <2>1. PICK op \in Operators : market' = [market EXCEPT !.operator = op]
    BY <1>3 DEF update_operator
  <2> QED
    BY <1>3, <2>1, SettingsStep DEF update_operator, TypeOK, Market
<1>4. CASE \E bps \in FeeRates : set_fee_bps(bps)
  <2>1. PICK bps \in Nat : market' = [market EXCEPT !.fee_bps = bps]
    BY <1>4 DEF set_fee_bps
  <2> QED
    BY <1>4, <2>1, SettingsStep DEF set_fee_bps, TypeOK, Market
<1>5. CASE \E locked \in LockSettings : set_transfer_lock(locked)
  <2>1. PICK locked \in BOOLEAN : market' = [market EXCEPT !.transfer_lock = locked]
    BY <1>5 DEF set_transfer_lock
  <2> QED
    BY <1>5, <2>1, SettingsStep DEF set_transfer_lock, TypeOK, Market
<1>6. CASE \E t \in Traders, ok \in BOOLEAN : register_trader(t, ok)
  <2>1. TypeOK'
    BY <1>6 DEF register_trader, TypeOK, usdcVars, tokenVars
  <2>2. EscrowIsTotal'
    BY <1>6, TotalsStay DEF register_trader, tokenVars
  <2>3. UnplacedAhead' /\ SweptWithinCollected' /\ Solvent'
    BY <1>6 DEF register_trader, IInv, UnplacedAhead, SweptWithinCollected, Solvent,
                fees_outstanding, usdcVars
  <2> QED
    BY <2>1, <2>2, <2>3 DEF IInv
<1> QED
  BY <1>1, <1>2, <1>3, <1>4, <1>5, <1>6 DEF AdminStep

\* Holders moving or unlocking tokens do not touch the books.
LEMMA TokenStep ==
    ASSUME IInv, TypeOK', UNCHANGED <<market, orders, usdcVars, position_escrow>>
    PROVE  IInv'
<1>1. EscrowIsTotal'
  BY TotalsStay
<1>2. UnplacedAhead' /\ SweptWithinCollected' /\ Solvent'
  BY DEF IInv, UnplacedAhead, SweptWithinCollected, Solvent, fees_outstanding, usdcVars
<1> QED
  BY <1>1, <1>2 DEF IInv

LEMMA TraderStepInv ==
    ASSUME IInv, TraderStep
    PROVE  IInv'
<1> PICK t \in Traders :
       \/ \E usdc \in UsdcAmounts, limit \in Prices, minOut \in ShareAmounts :
             place_buy(t, usdc, limit, minOut)
       \/ \E shares \in ShareAmounts, limit \in Prices : place_sell(t, shares, limit)
       \/ \E u \in Traders, n \in ShareAmounts : TransferPosition(t, u, n)
       \/ unlock_position(t)
  BY DEF TraderStep
<1>1. CASE \E usdc \in UsdcAmounts, limit \in Prices, minOut \in ShareAmounts :
             place_buy(t, usdc, limit, minOut)
  BY <1>1, PlaceBuyStep
<1>2. CASE \E shares \in ShareAmounts, limit \in Prices : place_sell(t, shares, limit)
  BY <1>2, PlaceSellStep
<1>3. CASE \E u \in Traders, n \in ShareAmounts : TransferPosition(t, u, n)
  <2>1. PICK u \in Traders, n \in Nat : TransferPosition(t, u, n)
    BY <1>3
  <2>2. position' \in [Traders -> Nat]
    BY <2>1, InvType DEF TransferPosition, TypeOK
  <2>3. TypeOK'
    BY <2>1, <2>2, InvType DEF TransferPosition, TypeOK, usdcVars
  <2> QED
    BY <2>1, <2>3, TokenStep DEF TransferPosition
<1>4. CASE unlock_position(t)
  <2>1. TypeOK'
    BY <1>4, InvType DEF unlock_position, TypeOK, usdcVars
  <2> QED
    BY <1>4, <2>1, TokenStep DEF unlock_position
<1> QED
  BY <1>1, <1>2, <1>3, <1>4

LEMMA OrderStepInv ==
    ASSUME IInv, OrderStep
    PROVE  IInv'
BY DeployBuyStep, ConfirmBuyStep, CancelBuyStep, SettleSellStep, CancelSellStep DEF OrderStep

LEMMA ReturnStepInv ==
    ASSUME IInv, NEW amount \in Nat, ReturnUsdc(amount)
    PROVE  IInv'
<1>1. TypeOK'
  BY InvType DEF ReturnUsdc, TypeOK, tokenVars
<1>2. EscrowIsTotal'
  BY TotalsStay DEF ReturnUsdc, tokenVars
<1>3. UnplacedAhead' /\ SweptWithinCollected' /\ Solvent'
  BY InvType DEF ReturnUsdc, IInv, UnplacedAhead, SweptWithinCollected, Solvent,
                 fees_outstanding, SatSub
<1> QED
  BY <1>1, <1>2, <1>3 DEF IInv

-----------------------------------------------------------------------------
(* The theorems.                                                           *)

LEMMA InitInv == Init => IInv
<1> SUFFICES ASSUME Init PROVE IInv
  OBVIOUS
<1>1. TypeOK
  <2>1. market \in Market
    <3>1. PICK rate \in Nat, op \in Operators :
             market = [status |-> "Active", operator |-> op,
                       transfer_lock |-> TRUE, fee_bps |-> rate,
                       usdc_escrowed |-> 0, shares_escrowed |-> 0,
                       total_shares_outstanding |-> 0, total_deployed |-> 0,
                       total_bought_usdc |-> 0, total_sold_usdc |-> 0,
                       fees_collected |-> 0, fees_swept |-> 0, order_seq |-> 0]
      BY DEF Init
    <3>2. "Active" \in MarketStatuses
      BY DEF MarketStatuses
    <3> QED
      BY <3>1, <3>2 DEF Market
  <2>2. orders \in [OrderIds -> Order \cup {NoOrder}]
    BY DEF Init
  <2>3. holding \in [Traders -> Holding]
    BY DEF Init, Holding
  <2>4. trader_usdc \in [Traders -> Nat] /\ position \in [Traders -> Nat]
    BY DEF Init
  <2> QED
    BY <2>1, <2>2, <2>3, <2>4 DEF Init, TypeOK
<1>2. market.usdc_escrowed = 0 /\ market.shares_escrowed = 0 /\ position_escrow = 0
      /\ market.fees_collected = 0 /\ market.fees_swept = 0 /\ market_usdc = 0
  BY DEF Init
<1>3. EscrowIsTotal
  <2>1. Held = [o \in OrderIds |-> 0] /\ SharesHeld = [o \in OrderIds |-> 0]
    BY DEF Init, Held, SharesHeld, HeldFor, SharesHeldFor, IsOrder, NoOrder
  <2>2. SumFunction(Held) = 0 /\ SumFunction(SharesHeld) = 0
    BY <2>1, FiniteIds, SumZeros
  <2> QED
    BY <1>2, <2>2 DEF EscrowIsTotal
<1>4. UnplacedAhead
  BY DEF Init, UnplacedAhead
<1>5. SweptWithinCollected /\ Solvent
  BY <1>2 DEF SweptWithinCollected, Solvent, fees_outstanding, SatSub
<1> QED
  BY <1>1, <1>3, <1>4, <1>5 DEF IInv

LEMMA StepInv == IInv /\ [Next]_vars => IInv'
<1> SUFFICES ASSUME IInv, [Next]_vars PROVE IInv'
  OBVIOUS
<1>1. CASE TraderStep
  BY <1>1, TraderStepInv
<1>2. CASE OrderStep
  BY <1>2, OrderStepInv
<1>3. CASE AdminStep
  BY <1>3, AdminStepInv
<1>4. CASE \E amount \in UsdcAmounts : ReturnUsdc(amount)
  BY <1>4, ReturnStepInv
<1>5. CASE UNCHANGED vars
  <2>1. TypeOK'
    BY <1>5, InvType DEF vars, usdcVars, tokenVars, TypeOK
  <2> QED
    BY <1>5, <2>1, TokenStep DEF vars, usdcVars, tokenVars
<1> QED
  BY <1>1, <1>2, <1>3, <1>4, <1>5 DEF Next

LEMMA InductiveInvariant == Spec => []IInv
BY InitInv, StepInv, PTL DEF Spec

\* Every reachable state of the market, its orders and its accounts is well
\* typed; in particular no balance and no running total goes below zero.
THEOREM TypeCorrect == Spec => []TypeOK
<1>1. IInv => TypeOK
  BY DEF IInv
<1> QED
  BY <1>1, InductiveInvariant, PTL

\* The pooled account always covers the escrow of the pending buys and the
\* unswept spread (state.rs, unreserved_usdc).
THEOREM Solvency == Spec => []Solvent
<1>1. IInv => Solvent
  BY DEF IInv
<1> QED
  BY <1>1, InductiveInvariant, PTL

\* No more spread is swept than was collected, whatever is reversed later.
THEOREM SweepsBounded == Spec => []SweptWithinCollected
<1>1. IInv => SweptWithinCollected
  BY DEF IInv
<1> QED
  BY <1>1, InductiveInvariant, PTL

\* A pending buy can be refunded in full in every reachable state, whatever
\* the market's status and whatever the other orders went through.
THEOREM RefundsCovered == Spec => []PendingBuyRefundable
<1>1. IInv => PendingBuyRefundable
  <2> SUFFICES ASSUME IInv, NEW o \in OrderIds, IsOrder(o, "Buy", "Pending")
               PROVE  unreserved_usdc(Released(o), market_usdc) >= RefundOf(o)
    BY DEF PendingBuyRefundable
  <2> DEFINE refund == orders[o].usdc_amount
  <2>1. HeldFor(o) = refund /\ refund \in Nat /\ refund <= market.usdc_escrowed
    BY EscrowCovers DEF HeldFor
  <2>2. Released(o) = [market EXCEPT !.usdc_escrowed = market.usdc_escrowed - refund]
    BY <2>1, InvType DEF Released, IsOrder, SatSub, TypeOK, Market
  <2>3. Released(o).usdc_escrowed = market.usdc_escrowed - refund
        /\ Released(o).fees_collected = market.fees_collected
        /\ Released(o).fees_swept = market.fees_swept
    BY <2>2, InvType DEF TypeOK, Market
  <2> HIDE DEF refund
  <2>4. unreserved_usdc(Released(o), market_usdc) >= refund
    BY <2>1, <2>3, InvType DEF IInv, Solvent, unreserved_usdc, fees_outstanding, SatSub
  <2> QED
    BY <2>4 DEF refund, RefundOf
<1> QED
  BY <1>1, InductiveInvariant, PTL

-----------------------------------------------------------------------------
(* The books add up: the sums over the orders of a side, of some statuses  *)
(* and of some traders, and what one order counts for in them.             *)

Counts(r, sides, S, T, figure) ==
    IF r.status \in S /\ r.side \in sides /\ r.trader \in T THEN r[figure] ELSE 0

Total(sides, S, T, figure) ==
    SumFunction([o \in OrderIds |-> Counts(orders[o], sides, S, T, figure)])

Figures == {"usdc_amount", "shares_amount", "deployed_amount", "fee_paid"}

LEMMA CountsType ==
    ASSUME NEW r \in Order \cup {NoOrder}, NEW sides, NEW S \in SUBSET Statuses, NEW T,
           NEW figure \in Figures
    PROVE  Counts(r, sides, S, T, figure) \in Nat
<1>1. CASE r.status \in S
  <2>1. r \in Order
    BY <1>1 DEF NoOrder, Statuses
  <2>2. r.usdc_amount \in Nat /\ r.shares_amount \in Nat /\ r.deployed_amount \in Nat
        /\ r.fee_paid \in Nat
    BY <2>1 DEF Order
  <2>3. r[figure] \in Nat
    BY <2>2 DEF Figures
  <2> QED
    BY <2>3 DEF Counts
<1>2. CASE r.status \notin S
  BY <1>2 DEF Counts
<1> QED
  BY <1>1, <1>2

LEMMA TotalChange ==
    ASSUME TypeOK, TypeOK', NEW o \in OrderIds,
           \A i \in OrderIds \ {o} : orders'[i] = orders[i],
           NEW sides, NEW S \in SUBSET Statuses, NEW T, NEW figure \in Figures
    PROVE  LET a == Counts(orders[o], sides, S, T, figure)
               b == Counts(orders'[o], sides, S, T, figure)
               sum == Total(sides, S, T, figure)
           IN  /\ a \in Nat /\ b \in Nat /\ sum \in Nat /\ a <= sum
               /\ sum' = sum - a + b
<1> DEFINE f == [i \in OrderIds |-> Counts(orders[i], sides, S, T, figure)]
           g == [i \in OrderIds |-> Counts(orders'[i], sides, S, T, figure)]
<1>1. \A i \in OrderIds : orders[i] \in Order \cup {NoOrder} /\ orders'[i] \in Order \cup {NoOrder}
  BY DEF TypeOK
<1>2. f \in [OrderIds -> Nat] /\ g \in [OrderIds -> Nat]
  BY <1>1, CountsType
<1>3. \A i \in OrderIds : i # o => g[i] = f[i]
  OBVIOUS
<1>4. Total(sides, S, T, figure) = SumFunction(f) /\ Total(sides, S, T, figure)' = SumFunction(g)
  BY DEF Total
<1>5. f[o] = Counts(orders[o], sides, S, T, figure) /\ g[o] = Counts(orders'[o], sides, S, T, figure)
      /\ f[o] \in Nat /\ g[o] \in Nat
  BY <1>2
<1> HIDE DEF f, g
<1>6. SumFunction(f) \in Nat /\ f[o] <= SumFunction(f) /\ SumFunction(g) = SumFunction(f) - f[o] + g[o]
  BY <1>2, <1>3, TermChange
<1> QED
  BY <1>4, <1>5, <1>6

BoughtBy(r)      == Counts(r, {"Buy"}, {"Filled"}, Traders, "shares_amount")
SoldBy(r)        == Counts(r, {"Sell"}, {"Settled"}, Traders, "shares_amount")
InvestedBy(r, t) == Counts(r, {"Buy"}, {"Pending", "Deployed", "Filled"}, {t}, "usdc_amount")
PaidBy(r, t)     == Counts(r, {"Sell"}, {"Settled"}, {t}, "usdc_amount")
SentBy(r)        == Counts(r, {"Buy"}, {"Deployed", "Filled"}, Traders, "deployed_amount")
ChargedBy(r)     == Counts(r, Sides, Statuses, Traders, "fee_paid")
SpentBy(r)       == Counts(r, {"Buy"}, {"Filled"}, Traders, "deployed_amount")

Bought      == Total({"Buy"}, {"Filled"}, Traders, "shares_amount")
Sold        == Total({"Sell"}, {"Settled"}, Traders, "shares_amount")
Invested(t) == Total({"Buy"}, {"Pending", "Deployed", "Filled"}, {t}, "usdc_amount")
Paid(t)     == Total({"Sell"}, {"Settled"}, {t}, "usdc_amount")
Sent        == Total({"Buy"}, {"Deployed", "Filled"}, Traders, "deployed_amount")
Charged     == Total(Sides, Statuses, Traders, "fee_paid")
Spent       == Total({"Buy"}, {"Filled"}, Traders, "deployed_amount")

SupplyAdds == /\ supply = Bought - Sold
              /\ supply = SumFunction(position) + position_escrow
              /\ supply = market.total_shares_outstanding

WalletsAdd == \A t \in Traders : trader_usdc[t] = InitialUsdc - Invested(t) + Paid(t)

TotalsAdd == /\ market.total_deployed = Sent
             /\ market.fees_collected >= Charged
             /\ market.total_bought_usdc = Spent

Books == SupplyAdds /\ WalletsAdd /\ TotalsAdd

\* A step that changes order o only moves each sum by what o counts for.
LEMMA BooksChange ==
    ASSUME TypeOK, TypeOK', NEW o \in OrderIds,
           \A i \in OrderIds \ {o} : orders'[i] = orders[i]
    PROVE  LET r == orders[o]
               q == orders'[o]
           IN  /\ Bought \in Nat /\ Bought' = Bought - BoughtBy(r) + BoughtBy(q)
               /\ Sold \in Nat /\ Sold' = Sold - SoldBy(r) + SoldBy(q)
               /\ Sent \in Nat /\ Sent' = Sent - SentBy(r) + SentBy(q) /\ SentBy(r) <= Sent
               /\ Charged \in Nat /\ Charged' = Charged - ChargedBy(r) + ChargedBy(q)
               /\ Spent \in Nat /\ Spent' = Spent - SpentBy(r) + SpentBy(q)
               /\ \A t \in Traders :
                     /\ Invested(t) \in Nat /\ Paid(t) \in Nat
                     /\ Invested(t)' = Invested(t) - InvestedBy(r, t) + InvestedBy(q, t)
                     /\ Paid(t)' = Paid(t) - PaidBy(r, t) + PaidBy(q, t)
<1>1. \A S \in SUBSET Statuses : \A figure \in Figures : \A sides, T :
         LET a == Counts(orders[o], sides, S, T, figure)
             b == Counts(orders'[o], sides, S, T, figure)
             sum == Total(sides, S, T, figure)
         IN  /\ a \in Nat /\ b \in Nat /\ sum \in Nat /\ a <= sum
             /\ sum' = sum - a + b
  BY TotalChange
<1>2. /\ "usdc_amount" \in Figures /\ "shares_amount" \in Figures
      /\ "deployed_amount" \in Figures /\ "fee_paid" \in Figures
  BY DEF Figures
<1>3. /\ {"Filled"} \in SUBSET Statuses /\ {"Settled"} \in SUBSET Statuses
      /\ {"Deployed", "Filled"} \in SUBSET Statuses
      /\ {"Pending", "Deployed", "Filled"} \in SUBSET Statuses /\ Statuses \in SUBSET Statuses
  BY DEF Statuses
<1>4. Bought \in Nat /\ Bought' = Bought - BoughtBy(orders[o]) + BoughtBy(orders'[o])
  BY <1>1, <1>2, <1>3 DEF Bought, BoughtBy
<1>5. Sold \in Nat /\ Sold' = Sold - SoldBy(orders[o]) + SoldBy(orders'[o])
  BY <1>1, <1>2, <1>3 DEF Sold, SoldBy
<1>6. Sent \in Nat /\ Sent' = Sent - SentBy(orders[o]) + SentBy(orders'[o])
      /\ SentBy(orders[o]) <= Sent
  BY <1>1, <1>2, <1>3 DEF Sent, SentBy
<1>7. Charged \in Nat /\ Charged' = Charged - ChargedBy(orders[o]) + ChargedBy(orders'[o])
  BY <1>1, <1>2, <1>3 DEF Charged, ChargedBy
<1>8. Spent \in Nat /\ Spent' = Spent - SpentBy(orders[o]) + SpentBy(orders'[o])
  BY <1>1, <1>2, <1>3 DEF Spent, SpentBy
<1>9. ASSUME NEW t \in Traders
      PROVE  /\ Invested(t) \in Nat /\ Paid(t) \in Nat
             /\ Invested(t)' = Invested(t) - InvestedBy(orders[o], t) + InvestedBy(orders'[o], t)
             /\ Paid(t)' = Paid(t) - PaidBy(orders[o], t) + PaidBy(orders'[o], t)
  BY <1>1, <1>2, <1>3 DEF Invested, InvestedBy, Paid, PaidBy
<1> QED
  BY <1>4, <1>5, <1>6, <1>7, <1>8, <1>9

\* What an order counts for, by its side and status.
LEMMA CountsValue ==
    ASSUME NEW r \in Order
    PROVE  /\ BoughtBy(r) = IF r.side = "Buy" /\ r.status = "Filled" THEN r.shares_amount ELSE 0
           /\ SoldBy(r) = IF r.side = "Sell" /\ r.status = "Settled" THEN r.shares_amount ELSE 0
           /\ SentBy(r) = IF r.side = "Buy" /\ r.status \in {"Deployed", "Filled"}
                          THEN r.deployed_amount ELSE 0
           /\ ChargedBy(r) = r.fee_paid
           /\ SpentBy(r) = IF r.side = "Buy" /\ r.status = "Filled"
                           THEN r.deployed_amount ELSE 0
           /\ \A t \in Traders :
                 /\ InvestedBy(r, t) =
                       IF r.side = "Buy" /\ r.status \in {"Pending", "Deployed", "Filled"}
                             /\ r.trader = t
                       THEN r.usdc_amount ELSE 0
                 /\ PaidBy(r, t) = IF r.side = "Sell" /\ r.status = "Settled" /\ r.trader = t
                                   THEN r.usdc_amount ELSE 0
           /\ r.shares_amount \in Nat /\ r.deployed_amount \in Nat /\ r.usdc_amount \in Nat
           /\ r.fee_paid \in Nat /\ r.trader \in Traders
<1>1. r.trader \in Traders /\ r.status \in Statuses /\ r.side \in Sides
      /\ r.shares_amount \in Nat /\ r.deployed_amount \in Nat /\ r.usdc_amount \in Nat
      /\ r.fee_paid \in Nat
  BY DEF Order
<1> QED
  BY <1>1 DEF Counts, BoughtBy, SoldBy, SentBy, ChargedBy, SpentBy, InvestedBy, PaidBy

LEMMA CountsNothing ==
    /\ BoughtBy(NoOrder) = 0 /\ SoldBy(NoOrder) = 0 /\ SentBy(NoOrder) = 0
    /\ ChargedBy(NoOrder) = 0 /\ SpentBy(NoOrder) = 0
    /\ \A t \in Traders : InvestedBy(NoOrder, t) = 0 /\ PaidBy(NoOrder, t) = 0
BY DEF Counts, BoughtBy, SoldBy, SentBy, ChargedBy, SpentBy, InvestedBy, PaidBy, NoOrder, Statuses

\* Tokens that move in or out of one account.
LEMMA PositionsChange ==
    \A p \in [Traders -> Nat] : \A t \in Traders : \A n \in Nat :
       /\ SumFunction(p) \in Int
       /\ SumFunction([p EXCEPT ![t] = n]) = SumFunction(p) - p[t] + n
<1> TAKE p \in [Traders -> Nat]
<1> TAKE t \in Traders
<1> TAKE n \in Nat
<1> DEFINE g == [p EXCEPT ![t] = n]
<1>1. p \in [Traders -> Int] /\ g \in [Traders -> Int] /\ g[t] = n
      /\ (\A u \in Traders : u # t => g[u] = p[u]) /\ p[t] \in Int
  OBVIOUS
<1> HIDE DEF g
<1>2. SumFunction(p) \in Int /\ SumFunction(g) \in Int
      /\ SumFunction(g) = SumFunction(p) + g[t] - p[t]
  BY <1>1, FiniteIds, SumChange
<1> QED
  BY <1>1, <1>2 DEF g

\* The wallets add up again when each gains what the order no longer takes of
\* it and what the order now pays it.
LEMMA WalletsFollow ==
    ASSUME TypeOK, TypeOK', WalletsAdd, NEW o \in OrderIds,
           \A i \in OrderIds \ {o} : orders'[i] = orders[i],
           \A u \in Traders :
              trader_usdc'[u] = trader_usdc[u] + InvestedBy(orders[o], u) - InvestedBy(orders'[o], u)
                                - PaidBy(orders[o], u) + PaidBy(orders'[o], u),
           \A u \in Traders :
              /\ InvestedBy(orders[o], u) \in Nat /\ InvestedBy(orders'[o], u) \in Nat
              /\ PaidBy(orders[o], u) \in Nat /\ PaidBy(orders'[o], u) \in Nat
    PROVE  WalletsAdd'
<1> SUFFICES ASSUME NEW u \in Traders
             PROVE  trader_usdc'[u] = InitialUsdc - Invested(u)' + Paid(u)'
  BY DEF WalletsAdd
<1>1. trader_usdc[u] = InitialUsdc - Invested(u) + Paid(u) /\ trader_usdc[u] \in Nat
  BY DEF WalletsAdd, TypeOK
<1>2. /\ Invested(u) \in Nat /\ Paid(u) \in Nat
      /\ Invested(u)' = Invested(u) - InvestedBy(orders[o], u) + InvestedBy(orders'[o], u)
      /\ Paid(u)' = Paid(u) - PaidBy(orders[o], u) + PaidBy(orders'[o], u)
  BY BooksChange
<1> QED
  BY <1>1, <1>2

\* A step that leaves the orders and the books alone, and moves tokens within
\* the traders' accounts at most.
LEMMA BooksStay ==
    ASSUME Books, orders' = orders, UNCHANGED <<supply, position_escrow, trader_usdc>>,
           SumFunction(position') = SumFunction(position),
           market'.total_shares_outstanding = market.total_shares_outstanding,
           market'.total_deployed = market.total_deployed,
           market'.fees_collected = market.fees_collected,
           market'.total_bought_usdc = market.total_bought_usdc
    PROVE  Books'
<1>1. /\ UNCHANGED <<Bought, Sold, Sent, Charged, Spent>>
      /\ \A t \in Traders : UNCHANGED <<Invested(t), Paid(t)>>
  BY DEF Bought, Sold, Sent, Charged, Spent, Invested, Paid, Total
<1> QED
  BY <1>1 DEF Books, SupplyAdds, WalletsAdd, TotalsAdd

LEMMA PlaceBuyBooks ==
    ASSUME IInv, IInv', Books, NEW t \in Traders, NEW usdc \in Nat, NEW limit \in Nat,
           NEW minOut \in Nat, place_buy(t, usdc, limit, minOut)
    PROVE  Books'
<1> PICK o \in OrderIds : o = market.order_seq
  BY DEF place_buy
<1> DEFINE new == NewOrder(t, "Buy", usdc, 0, limit, minOut)
<1>1. TypeOK /\ TypeOK' /\ orders[o] = NoOrder
  BY DEF IInv, UnplacedAhead, OrderIds
<1>2. new \in Order /\ new.status = "Pending" /\ new.side = "Buy" /\ new.usdc_amount = usdc
      /\ new.trader = t /\ new.fee_paid = 0
  BY <1>1 DEF NewOrder, Order, TypeOK, Market, Sides, Statuses
<1>3. orders' = [orders EXCEPT ![o] = new]
  BY DEF place_buy
<1>4. orders'[o] = new /\ \A i \in OrderIds \ {o} : orders'[i] = orders[i]
  BY <1>1, <1>3 DEF TypeOK
<1> HIDE DEF new
<1>5. /\ market'.total_shares_outstanding = market.total_shares_outstanding
      /\ market'.total_deployed = market.total_deployed
      /\ market'.fees_collected = market.fees_collected
      /\ market'.total_bought_usdc = market.total_bought_usdc
      /\ UNCHANGED <<supply, position, position_escrow>>
      /\ trader_usdc' = [trader_usdc EXCEPT ![t] = @ - usdc]
  BY <1>1 DEF place_buy, TypeOK, Market, tokenVars
<1>6. SupplyAdds' /\ TotalsAdd'
  BY <1>1, <1>2, <1>4, <1>5, BooksChange, CountsValue, CountsNothing
     DEF Books, SupplyAdds, TotalsAdd
<1>7. WalletsAdd'
  <2>1. \A u \in Traders :
           /\ InvestedBy(new, u) = (IF u = t THEN usdc ELSE 0) /\ PaidBy(new, u) = 0
           /\ InvestedBy(NoOrder, u) = 0 /\ PaidBy(NoOrder, u) = 0
           /\ trader_usdc[u] \in Nat
           /\ trader_usdc'[u] = trader_usdc[u] - (IF u = t THEN usdc ELSE 0)
    BY <1>1, <1>2, <1>5, CountsValue, CountsNothing DEF TypeOK
  <2> QED
    BY <1>1, <1>4, <2>1, WalletsFollow DEF Books
<1> QED
  BY <1>6, <1>7 DEF Books

LEMMA DeployBuyBooks ==
    ASSUME IInv, IInv', Books, NEW signer, NEW o \in OrderIds, deploy_buy(signer, o)
    PROVE  Books'
<1> DEFINE gross      == orders[o].usdc_amount
           fee        == SpreadOn(o, gross)
           deployable == gross - fee
<1>1. TypeOK /\ TypeOK' /\ orders[o] \in Order /\ IsOrder(o, "Buy", "Pending")
  BY PlacedOrder DEF IInv, deploy_buy, IsOrder
<1>2. fee \in Nat /\ deployable \in Nat
  <2>1. gross \in Nat /\ orders[o].fee_bps \in Nat
    BY <1>1 DEF Order
  <2>2. fee \in Nat
    BY <2>1, FeeType DEF SpreadOn
  <2>3. deployable > 0
    BY DEF deploy_buy
  <2> HIDE DEF fee
  <2> QED
    BY <2>1, <2>2, <2>3
<1>3. /\ orders' = [orders EXCEPT ![o].status = "Deployed",
                                  ![o].deployed_amount = deployable, ![o].fee_paid = fee]
      /\ market'.total_shares_outstanding = market.total_shares_outstanding
      /\ market'.total_deployed = market.total_deployed + deployable
      /\ market'.fees_collected = market.fees_collected + fee
      /\ market'.total_bought_usdc = market.total_bought_usdc
      /\ UNCHANGED <<supply, position, position_escrow, trader_usdc>>
  BY <1>1 DEF deploy_buy, TypeOK, Market, tokenVars
<1> HIDE DEF gross, fee, deployable
<1>4. /\ orders'[o] = [orders[o] EXCEPT !.status = "Deployed",
                                        !.deployed_amount = deployable, !.fee_paid = fee]
      /\ \A i \in OrderIds \ {o} : orders'[i] = orders[i]
  BY <1>1, <1>3 DEF TypeOK
<1>5. /\ orders'[o] \in Order /\ orders'[o].status = "Deployed" /\ orders'[o].side = "Buy"
      /\ orders'[o].deployed_amount = deployable /\ orders'[o].fee_paid = fee
      /\ orders'[o].usdc_amount = orders[o].usdc_amount /\ orders'[o].trader = orders[o].trader
  BY <1>1, <1>2, <1>4 DEF Order, Statuses, IsOrder
<1>6. SupplyAdds'
  <2>1. BoughtBy(orders[o]) = 0 /\ BoughtBy(orders'[o]) = 0
        /\ SoldBy(orders[o]) = 0 /\ SoldBy(orders'[o]) = 0
    BY <1>1, <1>5, CountsValue DEF IsOrder
  <2>2. Bought' = Bought /\ Sold' = Sold
    BY <1>1, <1>4, <2>1, BooksChange
  <2> QED
    BY <1>3, <2>2 DEF Books, SupplyAdds
<1>7. TotalsAdd'
  <2>1. SentBy(orders[o]) = 0 /\ SentBy(orders'[o]) = deployable
        /\ SpentBy(orders[o]) = 0 /\ SpentBy(orders'[o]) = 0
        /\ ChargedBy(orders[o]) \in Nat /\ ChargedBy(orders'[o]) = fee
    BY <1>1, <1>5, CountsValue DEF IsOrder
  <2>2. /\ Sent \in Nat /\ Sent' = Sent + deployable
        /\ Spent \in Nat /\ Spent' = Spent
        /\ Charged \in Nat /\ Charged' <= Charged + fee
    BY <1>1, <1>2, <1>4, <2>1, BooksChange
  <2>3. Charged' \in Int
    BY <1>1, <1>2, <1>4, <2>1, <2>2, BooksChange
  <2> QED
    BY <1>2, <1>3, <2>2, <2>3, InvType DEF Books, TotalsAdd
<1>8. WalletsAdd'
  <2>1. \A u \in Traders :
           /\ InvestedBy(orders'[o], u) = InvestedBy(orders[o], u)
           /\ InvestedBy(orders[o], u) \in Nat
           /\ PaidBy(orders'[o], u) = 0 /\ PaidBy(orders[o], u) = 0
           /\ trader_usdc[u] \in Nat /\ trader_usdc'[u] = trader_usdc[u]
    <3> TAKE u \in Traders
    <3>1. InvestedBy(orders'[o], u) = InvestedBy(orders[o], u)
          /\ InvestedBy(orders[o], u) \in Nat
          /\ PaidBy(orders'[o], u) = 0 /\ PaidBy(orders[o], u) = 0
      BY <1>1, <1>5, CountsValue DEF IsOrder
    <3> QED
      BY <1>1, <1>3, <3>1 DEF TypeOK
  <2> QED
    BY <1>1, <1>4, <2>1, WalletsFollow DEF Books
<1> QED
  BY <1>6, <1>7, <1>8 DEF Books

LEMMA ConfirmBuyBooks ==
    ASSUME IInv, IInv', Books, NEW signer, NEW o \in OrderIds, NEW shares \in Nat,
           NEW price \in Nat, confirm_buy(signer, o, shares, price)
    PROVE  Books'
<1> DEFINE t == orders[o].trader
<1>1. TypeOK /\ TypeOK' /\ orders[o] \in Order /\ IsOrder(o, "Buy", "Deployed") /\ t \in Traders
  BY PlacedOrder DEF IInv, confirm_buy, IsOrder, Order
<1>2. /\ orders' = [orders EXCEPT ![o].status = "Filled", ![o].shares_amount = shares,
                                  ![o].execution_price = price]
      /\ market'.total_shares_outstanding = market.total_shares_outstanding + shares
      /\ market'.total_deployed = market.total_deployed
      /\ market'.fees_collected = market.fees_collected
      /\ market'.total_bought_usdc = market.total_bought_usdc + orders[o].deployed_amount
      /\ supply' = supply + shares /\ position' = [position EXCEPT ![t] = position[t] + shares]
      /\ UNCHANGED <<position_escrow, trader_usdc>>
  BY <1>1 DEF confirm_buy, TypeOK, Market, usdcVars
<1>3. /\ orders'[o] = [orders[o] EXCEPT !.status = "Filled", !.shares_amount = shares,
                                        !.execution_price = price]
      /\ \A i \in OrderIds \ {o} : orders'[i] = orders[i]
  BY <1>1, <1>2 DEF TypeOK
<1>4. /\ orders'[o] \in Order /\ orders'[o].status = "Filled" /\ orders'[o].side = "Buy"
      /\ orders'[o].deployed_amount = orders[o].deployed_amount
      /\ orders'[o].shares_amount = shares /\ orders'[o].fee_paid = orders[o].fee_paid
      /\ orders'[o].usdc_amount = orders[o].usdc_amount /\ orders'[o].trader = t
  BY <1>1, <1>3 DEF Order, Statuses, IsOrder
<1>5. SumFunction(position) \in Int /\ SumFunction(position') = SumFunction(position) + shares
  <2>1. position \in [Traders -> Nat] /\ position[t] + shares \in Nat /\ position[t] \in Nat
    BY <1>1 DEF TypeOK
  <2> HIDE DEF t
  <2>2. SumFunction(position) \in Int
        /\ SumFunction(position') = SumFunction(position) - position[t] + (position[t] + shares)
    BY <1>1, <1>2, <2>1, PositionsChange
  <2> QED
    BY <2>1, <2>2
<1> HIDE DEF t
<1>6. SupplyAdds'
  <2>1. BoughtBy(orders[o]) = 0 /\ BoughtBy(orders'[o]) = shares
        /\ SoldBy(orders[o]) = 0 /\ SoldBy(orders'[o]) = 0
    BY <1>1, <1>4, CountsValue DEF IsOrder
  <2>2. /\ Bought \in Nat /\ Bought' = Bought + shares
        /\ Sold \in Nat /\ Sold' = Sold
    BY <1>1, <1>3, <2>1, BooksChange
  <2>3. supply \in Nat /\ position_escrow \in Nat /\ market.total_shares_outstanding \in Nat
    BY <1>1 DEF TypeOK, Market
  <2> QED
    BY <1>2, <1>5, <2>2, <2>3 DEF Books, SupplyAdds
<1>7. TotalsAdd'
  <2>1. SentBy(orders[o]) = SentBy(orders'[o]) /\ SentBy(orders[o]) \in Nat
        /\ SpentBy(orders[o]) = 0 /\ SpentBy(orders'[o]) = orders[o].deployed_amount
        /\ ChargedBy(orders[o]) = ChargedBy(orders'[o]) /\ ChargedBy(orders[o]) \in Nat
        /\ orders[o].deployed_amount \in Nat
    BY <1>1, <1>4, CountsValue DEF IsOrder
  <2>2. /\ Sent \in Nat /\ Sent' = Sent
        /\ Spent \in Nat /\ Spent' = Spent + orders[o].deployed_amount
        /\ Charged \in Nat /\ Charged' = Charged
    BY <1>1, <1>3, <2>1, BooksChange
  <2> QED
    BY <1>2, <2>2 DEF Books, TotalsAdd
<1>8. WalletsAdd'
  <2>1. \A u \in Traders :
           /\ InvestedBy(orders'[o], u) = InvestedBy(orders[o], u)
           /\ InvestedBy(orders[o], u) \in Nat
           /\ PaidBy(orders'[o], u) = 0 /\ PaidBy(orders[o], u) = 0
           /\ trader_usdc[u] \in Nat /\ trader_usdc'[u] = trader_usdc[u]
    <3> TAKE u \in Traders
    <3>1. InvestedBy(orders'[o], u) = InvestedBy(orders[o], u)
          /\ InvestedBy(orders[o], u) \in Nat
          /\ PaidBy(orders'[o], u) = 0 /\ PaidBy(orders[o], u) = 0
      BY <1>1, <1>4, CountsValue DEF IsOrder, t
    <3> QED
      BY <1>1, <1>2, <3>1 DEF TypeOK
  <2> QED
    BY <1>1, <1>3, <2>1, WalletsFollow DEF Books
<1> QED
  BY <1>6, <1>7, <1>8 DEF Books

LEMMA CancelBuyBooks ==
    ASSUME IInv, IInv', Books, NEW signer, NEW o \in OrderIds, cancel_buy(signer, o)
    PROVE  Books'
<1> DEFINE t      == orders[o].trader
           refund == orders[o].usdc_amount
<1>1. TypeOK /\ TypeOK' /\ orders[o] \in Order /\ t \in Traders /\ refund \in Nat
      /\ (IsOrder(o, "Buy", "Pending") \/ IsOrder(o, "Buy", "Deployed"))
  BY PlacedOrder DEF IInv, cancel_buy, IsOrder, Order
<1>2. /\ orders' = [orders EXCEPT ![o].status = "Cancelled", ![o].fee_paid = 0]
      /\ trader_usdc' = [trader_usdc EXCEPT ![t] = @ + refund]
      /\ market' = Released(o)
      /\ UNCHANGED <<supply, position, position_escrow>>
  BY DEF cancel_buy, RefundOf, tokenVars
<1>3. /\ orders'[o] = [orders[o] EXCEPT !.status = "Cancelled", !.fee_paid = 0]
      /\ \A i \in OrderIds \ {o} : orders'[i] = orders[i]
  BY <1>1, <1>2 DEF TypeOK
<1>4. /\ orders'[o] \in Order /\ orders'[o].status = "Cancelled" /\ orders'[o].fee_paid = 0
  BY <1>1, <1>2 DEF TypeOK, Order, Statuses
<1>5. market'.total_shares_outstanding = market.total_shares_outstanding
      /\ market'.total_bought_usdc = market.total_bought_usdc
  BY <1>1, <1>2 DEF Released, TypeOK, Market
<1>6. SupplyAdds'
  <2>1. BoughtBy(orders[o]) = 0 /\ BoughtBy(orders'[o]) = 0
        /\ SoldBy(orders[o]) = 0 /\ SoldBy(orders'[o]) = 0
    BY <1>1, <1>4, CountsValue DEF IsOrder
  <2>2. Bought' = Bought /\ Sold' = Sold
    BY <1>1, <1>3, <2>1, BooksChange
  <2> QED
    BY <1>2, <1>5, <2>2 DEF Books, SupplyAdds
<1>7. TotalsAdd'
  <2>1. /\ SentBy(orders[o]) = (IF orders[o].status = "Deployed" THEN orders[o].deployed_amount
                                                                 ELSE 0)
        /\ SentBy(orders'[o]) = 0
        /\ SpentBy(orders[o]) = 0 /\ SpentBy(orders'[o]) = 0
        /\ ChargedBy(orders[o]) = orders[o].fee_paid /\ ChargedBy(orders'[o]) = 0
        /\ orders[o].deployed_amount \in Nat /\ orders[o].fee_paid \in Nat
    BY <1>1, <1>4, CountsValue DEF IsOrder
  <2>2. /\ Sent \in Nat /\ Sent' = Sent - SentBy(orders[o]) /\ SentBy(orders[o]) <= Sent
        /\ Spent \in Nat /\ Spent' = Spent
        /\ Charged \in Nat /\ Charged' = Charged - orders[o].fee_paid
    BY <1>1, <1>3, <2>1, BooksChange
  <2>3. market.total_deployed = Sent /\ market.fees_collected >= Charged
        /\ market.total_bought_usdc = Spent
    BY DEF Books, TotalsAdd
  <2>4. /\ market'.total_deployed = market.total_deployed - SentBy(orders[o])
        /\ market'.fees_collected >= market.fees_collected - orders[o].fee_paid
        /\ market'.fees_collected \in Nat
    <3>1. CASE IsOrder(o, "Buy", "Pending")
      <4>1. market'.total_deployed = market.total_deployed
            /\ market'.fees_collected = market.fees_collected
        BY <1>1, <1>2, <3>1 DEF Released, IsOrder, TypeOK, Market
      <4>2. SentBy(orders[o]) = 0
        BY <2>1, <3>1 DEF IsOrder
      <4> QED
        BY <2>1, <2>2, <2>3, <4>1, <4>2, InvType
    <3>2. CASE IsOrder(o, "Buy", "Deployed")
      <4> DEFINE taken == Lesser(fees_outstanding(market), orders[o].fee_paid)
      <4>1. taken \in Nat /\ taken <= market.fees_collected /\ taken <= orders[o].fee_paid
        BY <2>1, InvType DEF Lesser, fees_outstanding, SatSub
      <4>2. market'.total_deployed = SatSub(market.total_deployed, orders[o].deployed_amount)
            /\ market'.fees_collected = SatSub(market.fees_collected, taken)
        BY <1>1, <1>2, <3>2 DEF Released, IsOrder, TypeOK, Market
      <4> HIDE DEF taken
      <4>3. SentBy(orders[o]) = orders[o].deployed_amount
        BY <2>1, <3>2 DEF IsOrder
      <4> QED
        BY <2>1, <2>2, <2>3, <4>1, <4>2, <4>3, InvType DEF SatSub
    <3> QED
      BY <1>1, <3>1, <3>2
  <2> QED
    BY <1>5, <2>1, <2>2, <2>3, <2>4, InvType DEF TotalsAdd
<1>8. WalletsAdd'
  <2>1. \A u \in Traders :
           /\ InvestedBy(orders[o], u) = (IF u = t THEN refund ELSE 0)
           /\ InvestedBy(orders'[o], u) = 0
           /\ PaidBy(orders'[o], u) = 0 /\ PaidBy(orders[o], u) = 0
           /\ trader_usdc[u] \in Nat
           /\ trader_usdc'[u] = trader_usdc[u] + (IF u = t THEN refund ELSE 0)
    <3> TAKE u \in Traders
    <3>1. InvestedBy(orders[o], u) = (IF u = t THEN refund ELSE 0)
          /\ InvestedBy(orders'[o], u) = 0
          /\ PaidBy(orders'[o], u) = 0 /\ PaidBy(orders[o], u) = 0
      BY <1>1, <1>4, CountsValue DEF IsOrder
    <3> HIDE DEF t, refund
    <3> QED
      BY <1>1, <1>2, <3>1 DEF TypeOK
  <2> HIDE DEF t, refund
  <2> QED
    BY <1>1, <1>3, <2>1, WalletsFollow DEF Books
<1> QED
  BY <1>6, <1>7, <1>8 DEF Books

LEMMA PlaceSellBooks ==
    ASSUME IInv, IInv', Books, NEW t \in Traders, NEW shares \in Nat, NEW limit \in Nat,
           place_sell(t, shares, limit)
    PROVE  Books'
<1> PICK o \in OrderIds : o = market.order_seq
  BY DEF place_sell
<1> DEFINE new == NewOrder(t, "Sell", 0, shares, limit, 0)
<1>1. TypeOK /\ TypeOK' /\ orders[o] = NoOrder
  BY DEF IInv, UnplacedAhead, OrderIds
<1>2. new \in Order /\ new.status = "Pending" /\ new.side = "Sell" /\ new.fee_paid = 0
  BY <1>1 DEF NewOrder, Order, TypeOK, Market, Sides, Statuses
<1>3. orders' = [orders EXCEPT ![o] = new]
  BY DEF place_sell
<1>4. orders'[o] = new /\ \A i \in OrderIds \ {o} : orders'[i] = orders[i]
  BY <1>1, <1>3 DEF TypeOK
<1> HIDE DEF new
<1>5. /\ market'.total_shares_outstanding = market.total_shares_outstanding
      /\ market'.total_deployed = market.total_deployed
      /\ market'.fees_collected = market.fees_collected
      /\ market'.total_bought_usdc = market.total_bought_usdc
      /\ position' = [position EXCEPT ![t] = position[t] - shares] /\ position[t] >= shares
      /\ position_escrow' = position_escrow + shares
      /\ UNCHANGED <<supply, trader_usdc>>
  BY <1>1 DEF place_sell, TypeOK, Market, usdcVars
<1>6. SumFunction(position) \in Int /\ SumFunction(position') = SumFunction(position) - shares
  <2>1. position \in [Traders -> Nat] /\ position[t] - shares \in Nat /\ position[t] \in Nat
    BY <1>1, <1>5 DEF TypeOK
  <2>2. SumFunction(position) \in Int
        /\ SumFunction(position') = SumFunction(position) - position[t] + (position[t] - shares)
    BY <1>5, <2>1, PositionsChange
  <2> QED
    BY <2>1, <2>2
<1>7. SupplyAdds'
  <2>1. BoughtBy(orders[o]) = 0 /\ BoughtBy(orders'[o]) = 0
        /\ SoldBy(orders[o]) = 0 /\ SoldBy(orders'[o]) = 0
    BY <1>1, <1>2, <1>4, CountsValue, CountsNothing
  <2>2. Bought' = Bought /\ Sold' = Sold
    BY <1>1, <1>4, <2>1, BooksChange
  <2>3. supply \in Nat /\ position_escrow \in Nat
    BY <1>1 DEF TypeOK
  <2> QED
    BY <1>5, <1>6, <2>2, <2>3 DEF Books, SupplyAdds
<1>8. TotalsAdd'
  <2>1. /\ SentBy(orders[o]) = 0 /\ SentBy(orders'[o]) = 0
        /\ SpentBy(orders[o]) = 0 /\ SpentBy(orders'[o]) = 0
        /\ ChargedBy(orders[o]) = 0 /\ ChargedBy(orders'[o]) = 0
    BY <1>1, <1>2, <1>4, CountsValue, CountsNothing
  <2>2. Sent' = Sent /\ Spent' = Spent /\ Charged' = Charged
    BY <1>1, <1>4, <2>1, BooksChange
  <2> QED
    BY <1>5, <2>2 DEF Books, TotalsAdd
<1>9. WalletsAdd'
  <2>1. \A u \in Traders :
           /\ InvestedBy(new, u) = 0 /\ PaidBy(new, u) = 0
           /\ InvestedBy(NoOrder, u) = 0 /\ PaidBy(NoOrder, u) = 0
           /\ trader_usdc[u] \in Nat /\ trader_usdc'[u] = trader_usdc[u]
    BY <1>1, <1>2, <1>5, CountsValue, CountsNothing DEF TypeOK
  <2> QED
    BY <1>1, <1>4, <2>1, WalletsFollow DEF Books
<1> QED
  BY <1>7, <1>8, <1>9 DEF Books

LEMMA SettleSellBooks ==
    ASSUME IInv, IInv', Books, NEW signer, NEW o \in OrderIds, NEW proceeds \in Nat,
           NEW price \in Nat, settle_sell(signer, o, proceeds, price)
    PROVE  Books'
<1> DEFINE t      == orders[o].trader
           shares == orders[o].shares_amount
           fee    == SpreadOn(o, proceeds)
           payout == proceeds - fee
<1>1. TypeOK /\ TypeOK' /\ orders[o] \in Order /\ IsOrder(o, "Sell", "Pending")
  BY PlacedOrder DEF IInv, settle_sell, IsOrder
<1>2. t \in Traders /\ shares \in Nat /\ fee \in Nat /\ payout \in Nat
  <2>1. t \in Traders /\ shares \in Nat /\ orders[o].fee_bps \in Nat
    BY <1>1 DEF Order
  <2>2. fee \in Nat
    BY <2>1, FeeType DEF SpreadOn
  <2>3. payout > 0
    BY DEF settle_sell
  <2> HIDE DEF fee
  <2> QED
    BY <2>1, <2>2, <2>3
<1>3. /\ orders' = [orders EXCEPT ![o].status = "Settled", ![o].usdc_amount = payout,
                                  ![o].execution_price = price, ![o].fee_paid = fee]
      /\ trader_usdc' = [trader_usdc EXCEPT ![t] = @ + payout]
      /\ position_escrow' = position_escrow - shares
      /\ supply' = supply - shares /\ supply >= shares
      /\ UNCHANGED position
  BY DEF settle_sell
<1>4. /\ market'.total_shares_outstanding = SatSub(market.total_shares_outstanding, shares)
      /\ market'.total_deployed = market.total_deployed
      /\ market'.fees_collected = market.fees_collected + fee
      /\ market'.total_bought_usdc = market.total_bought_usdc
  BY <1>1 DEF settle_sell, TypeOK, Market
<1> HIDE DEF fee, payout
<1>5. /\ orders'[o] = [orders[o] EXCEPT !.status = "Settled", !.usdc_amount = payout,
                                        !.execution_price = price, !.fee_paid = fee]
      /\ \A i \in OrderIds \ {o} : orders'[i] = orders[i]
  BY <1>1, <1>3 DEF TypeOK
<1>6. /\ orders'[o] \in Order /\ orders'[o].status = "Settled" /\ orders'[o].side = "Sell"
      /\ orders'[o].usdc_amount = payout /\ orders'[o].fee_paid = fee
      /\ orders'[o].shares_amount = shares /\ orders'[o].trader = t
  BY <1>1, <1>2, <1>5 DEF Order, Statuses, IsOrder
<1>7. SupplyAdds'
  <2>1. BoughtBy(orders[o]) = 0 /\ BoughtBy(orders'[o]) = 0
        /\ SoldBy(orders[o]) = 0 /\ SoldBy(orders'[o]) = shares
    BY <1>1, <1>6, CountsValue DEF IsOrder
  <2>2. Bought \in Nat /\ Bought' = Bought /\ Sold \in Nat /\ Sold' = Sold + shares
    BY <1>1, <1>2, <1>5, <2>1, BooksChange
  <2>3. supply \in Nat /\ position_escrow \in Nat
        /\ supply = Bought - Sold /\ supply = SumFunction(position) + position_escrow
        /\ supply = market.total_shares_outstanding
    BY <1>1 DEF TypeOK, Books, SupplyAdds
  <2>4. SumFunction(position) \in Int
    BY <1>1, <1>2, PositionsChange DEF TypeOK
  <2>5. SatSub(market.total_shares_outstanding, shares) = supply - shares
    BY <1>2, <1>3, <2>3 DEF SatSub
  <2> HIDE DEF shares
  <2> QED
    BY <1>2, <1>3, <1>4, <2>2, <2>3, <2>4, <2>5 DEF SupplyAdds
<1>8. TotalsAdd'
  <2>1. /\ SentBy(orders[o]) = 0 /\ SentBy(orders'[o]) = 0
        /\ SpentBy(orders[o]) = 0 /\ SpentBy(orders'[o]) = 0
        /\ ChargedBy(orders[o]) \in Nat /\ ChargedBy(orders'[o]) = fee
    BY <1>1, <1>6, CountsValue DEF IsOrder
  <2>2. /\ Sent' = Sent /\ Spent' = Spent
        /\ Charged \in Nat /\ Charged' = Charged - ChargedBy(orders[o]) + fee
    BY <1>1, <1>5, <2>1, BooksChange
  <2> QED
    BY <1>2, <1>4, <2>1, <2>2, InvType DEF Books, TotalsAdd
<1>9. WalletsAdd'
  <2>1. \A u \in Traders :
           /\ InvestedBy(orders[o], u) = 0 /\ InvestedBy(orders'[o], u) = 0
           /\ PaidBy(orders[o], u) = 0
           /\ PaidBy(orders'[o], u) = (IF u = t THEN payout ELSE 0)
           /\ trader_usdc[u] \in Nat
           /\ trader_usdc'[u] = trader_usdc[u] + (IF u = t THEN payout ELSE 0)
    <3> TAKE u \in Traders
    <3>1. InvestedBy(orders[o], u) = 0 /\ InvestedBy(orders'[o], u) = 0
          /\ PaidBy(orders[o], u) = 0
          /\ PaidBy(orders'[o], u) = (IF u = t THEN payout ELSE 0)
      BY <1>1, <1>6, CountsValue DEF IsOrder
    <3> HIDE DEF t
    <3> QED
      BY <1>1, <1>2, <1>3, <3>1 DEF TypeOK
  <2> HIDE DEF t, shares
  <2> QED
    BY <1>1, <1>2, <1>5, <2>1, WalletsFollow DEF Books
<1> QED
  BY <1>7, <1>8, <1>9 DEF Books

LEMMA CancelSellBooks ==
    ASSUME IInv, IInv', Books, NEW signer, NEW o \in OrderIds, cancel_sell(signer, o)
    PROVE  Books'
<1> DEFINE t      == orders[o].trader
           shares == orders[o].shares_amount
<1>1. TypeOK /\ TypeOK' /\ orders[o] \in Order /\ IsOrder(o, "Sell", "Pending")
  BY PlacedOrder DEF IInv, cancel_sell, IsOrder
<1>2. t \in Traders /\ shares \in Nat
  BY <1>1 DEF Order
<1>3. /\ orders' = [orders EXCEPT ![o].status = "Cancelled"]
      /\ position_escrow' = position_escrow - shares
      /\ position' = [position EXCEPT ![t] = position[t] + shares]
      /\ market'.total_shares_outstanding = market.total_shares_outstanding
      /\ market'.total_deployed = market.total_deployed
      /\ market'.fees_collected = market.fees_collected
      /\ market'.total_bought_usdc = market.total_bought_usdc
      /\ UNCHANGED <<supply, trader_usdc>>
  BY <1>1, <1>2 DEF cancel_sell, TypeOK, Market, usdcVars
<1>4. /\ orders'[o] = [orders[o] EXCEPT !.status = "Cancelled"]
      /\ \A i \in OrderIds \ {o} : orders'[i] = orders[i]
  BY <1>1, <1>3 DEF TypeOK
<1>5. orders'[o] \in Order /\ orders'[o].status = "Cancelled" /\ orders'[o].side = "Sell"
      /\ orders'[o].fee_paid = orders[o].fee_paid
  BY <1>1, <1>4 DEF Order, Statuses, IsOrder
<1> HIDE DEF t, shares
<1>6. SumFunction(position) \in Int /\ SumFunction(position') = SumFunction(position) + shares
  <2>1. position \in [Traders -> Nat] /\ position[t] + shares \in Nat /\ position[t] \in Nat
    BY <1>1, <1>2 DEF TypeOK
  <2>2. SumFunction(position) \in Int
        /\ SumFunction(position') = SumFunction(position) - position[t] + (position[t] + shares)
    BY <1>2, <1>3, <2>1, PositionsChange
  <2> QED
    BY <1>2, <2>1, <2>2
<1>7. SupplyAdds'
  <2>1. BoughtBy(orders[o]) = 0 /\ BoughtBy(orders'[o]) = 0
        /\ SoldBy(orders[o]) = 0 /\ SoldBy(orders'[o]) = 0
    BY <1>1, <1>5, CountsValue DEF IsOrder
  <2>2. Bought' = Bought /\ Sold' = Sold
    BY <1>1, <1>4, <2>1, BooksChange
  <2>3. supply \in Nat /\ position_escrow \in Nat
    BY <1>1 DEF TypeOK
  <2> QED
    BY <1>2, <1>3, <1>6, <2>2, <2>3 DEF Books, SupplyAdds
<1>8. TotalsAdd'
  <2>1. /\ SentBy(orders[o]) = 0 /\ SentBy(orders'[o]) = 0
        /\ SpentBy(orders[o]) = 0 /\ SpentBy(orders'[o]) = 0
        /\ ChargedBy(orders[o]) \in Nat /\ ChargedBy(orders'[o]) = ChargedBy(orders[o])
    BY <1>1, <1>5, CountsValue DEF IsOrder
  <2>2. Sent' = Sent /\ Spent' = Spent /\ Charged' = Charged
    BY <1>1, <1>4, <2>1, BooksChange
  <2> QED
    BY <1>3, <2>2 DEF Books, TotalsAdd
<1>9. WalletsAdd'
  <2>1. \A u \in Traders :
           /\ InvestedBy(orders[o], u) = 0 /\ InvestedBy(orders'[o], u) = 0
           /\ PaidBy(orders[o], u) = 0 /\ PaidBy(orders'[o], u) = 0
           /\ trader_usdc[u] \in Nat /\ trader_usdc'[u] = trader_usdc[u]
    <3> TAKE u \in Traders
    <3>1. InvestedBy(orders[o], u) = 0 /\ InvestedBy(orders'[o], u) = 0
          /\ PaidBy(orders[o], u) = 0 /\ PaidBy(orders'[o], u) = 0
      BY <1>1, <1>5, CountsValue DEF IsOrder
    <3> QED
      BY <1>1, <1>3, <3>1 DEF TypeOK
  <2> QED
    BY <1>1, <1>4, <2>1, WalletsFollow DEF Books
<1> QED
  BY <1>7, <1>8, <1>9 DEF Books

LEMMA TransferBooks ==
    ASSUME IInv, Books, NEW t \in Traders, NEW u \in Traders, NEW n \in Nat,
           TransferPosition(t, u, n)
    PROVE  Books'
<1> DEFINE mid == [position EXCEPT ![t] = position[t] - n]
<1>1. position \in [Traders -> Nat] /\ t # u /\ position[t] >= n
      /\ position' = [position EXCEPT ![t] = @ - n, ![u] = @ + n]
  BY DEF IInv, TypeOK, TransferPosition
<1>2. mid \in [Traders -> Nat] /\ position[t] - n \in Nat /\ mid[u] + n \in Nat
      /\ position[t] \in Nat /\ mid[u] \in Nat
  BY <1>1
<1>3. position' = [mid EXCEPT ![u] = mid[u] + n]
  BY <1>1
<1>4. SumFunction(position) \in Int
      /\ SumFunction(mid) = SumFunction(position) - position[t] + (position[t] - n)
  <2> DEFINE n1 == position[t] - n
  <2>1. n1 \in Nat /\ mid = [position EXCEPT ![t] = n1]
    BY <1>2
  <2> HIDE DEF n1, mid
  <2>2. SumFunction(position) \in Int
        /\ SumFunction([position EXCEPT ![t] = n1]) = SumFunction(position) - position[t] + n1
    BY <1>1, <2>1, PositionsChange, Zenon
  <2> QED
    BY <2>1, <2>2 DEF n1
<1> HIDE DEF mid
<1>5. SumFunction(position') = SumFunction(mid) - mid[u] + (mid[u] + n)
      /\ SumFunction(mid) \in Int
  BY <1>2, <1>3, PositionsChange
<1>6. SumFunction(position') = SumFunction(position)
  BY <1>1, <1>2, <1>4, <1>5
<1> QED
  <2>1. orders' = orders /\ market' = market
        /\ UNCHANGED <<supply, position_escrow, trader_usdc>>
    BY DEF TransferPosition, usdcVars
  <2> QED
    BY <1>6, <2>1, BooksStay

\* What the admin sets, sweeps and registers, an unlocked account and money
\* from outside leave the orders and what they are counted in alone.
LEMMA OtherBooks ==
    ASSUME IInv, Books,
           \/ AdminStep
           \/ \E t \in Traders : unlock_position(t)
           \/ \E amount \in UsdcAmounts : ReturnUsdc(amount)
           \/ UNCHANGED vars
    PROVE  Books'
<1>1. /\ orders' = orders /\ UNCHANGED <<supply, position, position_escrow, trader_usdc>>
      /\ market'.total_shares_outstanding = market.total_shares_outstanding
      /\ market'.total_deployed = market.total_deployed
      /\ market'.fees_collected = market.fees_collected
      /\ market'.total_bought_usdc = market.total_bought_usdc
  BY InvType DEF AdminStep, sweep_fee, set_market_status, update_operator, set_fee_bps,
                 set_transfer_lock, register_trader, unlock_position, ReturnUsdc, vars,
                 usdcVars, tokenVars, TypeOK, Market
<1> QED
  BY <1>1, BooksStay

LEMMA BooksStep == IInv /\ IInv' /\ Books /\ [Next]_vars => Books'
<1> SUFFICES ASSUME IInv, IInv', Books, [Next]_vars
             PROVE  Books'
  OBVIOUS
<1>1. CASE TraderStep
  <2> PICK t \in Traders :
         \/ \E usdc \in UsdcAmounts, limit \in Prices, minOut \in ShareAmounts :
               place_buy(t, usdc, limit, minOut)
         \/ \E shares \in ShareAmounts, limit \in Prices : place_sell(t, shares, limit)
         \/ \E u \in Traders, n \in ShareAmounts : TransferPosition(t, u, n)
         \/ unlock_position(t)
    BY <1>1 DEF TraderStep
  <2> QED
    BY PlaceBuyBooks, PlaceSellBooks, TransferBooks, OtherBooks
<1>2. CASE OrderStep
  BY <1>2, DeployBuyBooks, ConfirmBuyBooks, CancelBuyBooks, SettleSellBooks, CancelSellBooks
     DEF OrderStep
<1>3. CASE \/ AdminStep
           \/ \E amount \in UsdcAmounts : ReturnUsdc(amount)
           \/ UNCHANGED vars
  BY <1>3, OtherBooks
<1> QED
  BY <1>1, <1>2, <1>3 DEF Next

LEMMA InitBooks == Init => Books
<1> SUFFICES ASSUME Init PROVE Books
  OBVIOUS
<1>1. \A o \in OrderIds : orders[o] = NoOrder
  BY DEF Init
<1>2. /\ Bought = 0 /\ Sold = 0 /\ Sent = 0 /\ Charged = 0 /\ Spent = 0
      /\ \A t \in Traders : Invested(t) = 0 /\ Paid(t) = 0
  <2>1. \A sides, T, figure : \A S \in SUBSET Statuses : Total(sides, S, T, figure) = 0
    <3> SUFFICES ASSUME NEW sides, NEW T, NEW figure, NEW S \in SUBSET Statuses
                 PROVE  Total(sides, S, T, figure) = 0
      OBVIOUS
    <3> DEFINE f == [o \in OrderIds |-> Counts(orders[o], sides, S, T, figure)]
    <3>1. f = [o \in OrderIds |-> 0]
      BY <1>1 DEF Counts, NoOrder, Statuses
    <3>2. SumFunction(f) = 0
      BY <3>1, FiniteIds, SumZeros
    <3> QED
      BY <3>2 DEF Total
  <2> QED
    BY <2>1 DEF Bought, Sold, Sent, Charged, Spent, Invested, Paid, Statuses
<1>3. SumFunction(position) = 0
  <2>1. position = [t \in Traders |-> 0]
    BY DEF Init
  <2> QED
    BY <2>1, FiniteIds, SumZeros
<1> QED
  BY <1>2, <1>3 DEF Init, Books, SupplyAdds, WalletsAdd, TotalsAdd

LEMMA BooksInvariant == Spec => [](IInv /\ Books)
<1>1. Init => IInv /\ Books
  BY InitInv, InitBooks
<1>2. IInv /\ Books /\ [Next]_vars => (IInv /\ Books)'
  BY StepInv, BooksStep
<1> QED
  BY <1>1, <1>2, PTL DEF Spec

\* Under TypeOK the sums of the properties are sums of this kind.
LEMMA OverIsTotal ==
    ASSUME TypeOK, NEW S \in SUBSET Statuses, NEW figure \in Figures
    PROVE  /\ Over(Buys(S), figure) = Total({"Buy"}, S, Traders, figure)
           /\ Over(Sells(S), figure) = Total({"Sell"}, S, Traders, figure)
           /\ Over(Placed, figure) = Total(Sides, Statuses, Traders, figure)
           /\ \A t \in Traders :
                 /\ Over({o \in Buys(S) : orders[o].trader = t}, figure)
                       = Total({"Buy"}, S, {t}, figure)
                 /\ Over({o \in Sells(S) : orders[o].trader = t}, figure)
                       = Total({"Sell"}, S, {t}, figure)
<1>1. ASSUME NEW o \in OrderIds
      PROVE  \/ /\ orders[o].status = "None" /\ orders[o] = NoOrder
             \/ /\ orders[o].status # "None" /\ orders[o].status \in Statuses
                /\ orders[o].side \in Sides /\ orders[o].trader \in Traders
  BY DEF TypeOK, Order, NoOrder, Statuses
<1>2. "None" \notin Statuses
  BY DEF Statuses
<1>3. Over(Buys(S), figure) = Total({"Buy"}, S, Traders, figure)
  <2>1. \A o \in OrderIds : (IF o \in Buys(S) THEN orders[o][figure] ELSE 0)
                              = Counts(orders[o], {"Buy"}, S, Traders, figure)
    BY <1>1, <1>2 DEF Buys, Placed, Counts
  <2> QED
    BY <2>1 DEF Over, Total
<1>4. Over(Sells(S), figure) = Total({"Sell"}, S, Traders, figure)
  <2>1. \A o \in OrderIds : (IF o \in Sells(S) THEN orders[o][figure] ELSE 0)
                              = Counts(orders[o], {"Sell"}, S, Traders, figure)
    BY <1>1, <1>2 DEF Sells, Placed, Counts
  <2> QED
    BY <2>1 DEF Over, Total
<1>5. Over(Placed, figure) = Total(Sides, Statuses, Traders, figure)
  <2>1. \A o \in OrderIds : (IF o \in Placed THEN orders[o][figure] ELSE 0)
                              = Counts(orders[o], Sides, Statuses, Traders, figure)
    BY <1>1, <1>2 DEF Placed, Counts
  <2> QED
    BY <2>1 DEF Over, Total
<1>6. ASSUME NEW t \in Traders
      PROVE  /\ Over({o \in Buys(S) : orders[o].trader = t}, figure)
                   = Total({"Buy"}, S, {t}, figure)
             /\ Over({o \in Sells(S) : orders[o].trader = t}, figure)
                   = Total({"Sell"}, S, {t}, figure)
  <2> DEFINE buys  == {o \in Buys(S) : orders[o].trader = t}
             sells == {o \in Sells(S) : orders[o].trader = t}
  <2>1. \A o \in OrderIds : (IF o \in buys THEN orders[o][figure] ELSE 0)
                              = Counts(orders[o], {"Buy"}, S, {t}, figure)
    BY <1>1, <1>2 DEF Buys, Placed, Counts
  <2>2. \A o \in OrderIds : (IF o \in sells THEN orders[o][figure] ELSE 0)
                              = Counts(orders[o], {"Sell"}, S, {t}, figure)
    BY <1>1, <1>2 DEF Sells, Placed, Counts
  <2> HIDE DEF buys, sells
  <2>3. Over(buys, figure) = Total({"Buy"}, S, {t}, figure)
        /\ Over(sells, figure) = Total({"Sell"}, S, {t}, figure)
    BY <2>1, <2>2 DEF Over, Total
  <2> QED
    BY <2>3 DEF buys, sells
<1> QED
  BY <1>3, <1>4, <1>5, <1>6

\* The instances of it that the properties name.
LEMMA Readings ==
    ASSUME TypeOK
    PROVE  /\ Over(Buys({"Filled"}), "shares_amount") = Bought
           /\ Over(Sells({"Settled"}), "shares_amount") = Sold
           /\ Over(Buys({"Deployed", "Filled"}), "deployed_amount") = Sent
           /\ Over(Placed, "fee_paid") = Charged
           /\ Over(Buys({"Filled"}), "deployed_amount") = Spent
           /\ \A t \in Traders :
                 /\ Over({o \in Buys({"Pending", "Deployed", "Filled"}) : orders[o].trader = t},
                         "usdc_amount") = Invested(t)
                 /\ Over({o \in Sells({"Settled"}) : orders[o].trader = t}, "usdc_amount")
                       = Paid(t)
<1>1. /\ {"Filled"} \in SUBSET Statuses /\ {"Settled"} \in SUBSET Statuses
      /\ {"Deployed", "Filled"} \in SUBSET Statuses
      /\ {"Pending", "Deployed", "Filled"} \in SUBSET Statuses
  BY DEF Statuses
<1>2. /\ "usdc_amount" \in Figures /\ "shares_amount" \in Figures
      /\ "deployed_amount" \in Figures /\ "fee_paid" \in Figures
  BY DEF Figures
<1> QED
  BY <1>1, <1>2, OverIsTotal DEF Bought, Sold, Sent, Charged, Spent, Invested, Paid

\* The escrow of USDC is what the pending buys paid in, the escrow of shares
\* what the pending sells put up, and the escrow account holds it.
THEOREM EscrowMatched == Spec => []EscrowMatchesOrders
<1>1. ASSUME IInv
      PROVE  EscrowMatchesOrders
  <2>1. TypeOK /\ EscrowIsTotal
    BY <1>1 DEF IInv
  <2>2. \A o \in OrderIds :
           /\ (IF o \in Buys({"Pending"}) THEN orders[o]["usdc_amount"] ELSE 0) = HeldFor(o)
           /\ (IF o \in Sells({"Pending"}) THEN orders[o]["shares_amount"] ELSE 0)
                 = SharesHeldFor(o)
    BY <2>1 DEF Buys, Sells, Placed, HeldFor, SharesHeldFor, IsOrder
  <2>3. Over(Buys({"Pending"}), "usdc_amount") = SumFunction(Held)
        /\ Over(Sells({"Pending"}), "shares_amount") = SumFunction(SharesHeld)
    BY <2>2 DEF Over, Held, SharesHeld
  <2> QED
    BY <2>1, <2>3 DEF EscrowIsTotal, EscrowMatchesOrders
<1> QED
  BY <1>1, InductiveInvariant, PTL

\* The tokens in existence are those of filled buys less those of settled
\* sells; they are all in a trader's account or in escrow.
THEOREM SupplyMatched == Spec => []SupplyTracksCustody
<1>1. IInv /\ Books => SupplyTracksCustody
  BY Readings DEF IInv, Books, SupplyAdds, SupplyTracksCustody
<1> QED
  BY <1>1, BooksInvariant, PTL

\* A wallet lost what its live and filled buys took and gained what its
\* settled sells paid; a cancelled order leaves it whole.
THEOREM WalletsMatched == Spec => []WalletMatchesOrders
<1>1. IInv /\ Books => WalletMatchesOrders
  BY Readings DEF IInv, Books, WalletsAdd, WalletMatchesOrders
<1> QED
  BY <1>1, BooksInvariant, PTL

\* The running totals are the sums over the orders, and the books never hold
\* less spread than the orders were charged.
THEOREM BooksMatched == Spec => []BooksMatchOrders
<1>1. IInv /\ Books => BooksMatchOrders
  BY Readings DEF IInv, Books, TotalsAdd, BooksMatchOrders
<1> QED
  BY <1>1, BooksInvariant, PTL

-----------------------------------------------------------------------------
(* The lock of the positions, and the terms of an order.                   *)

LEMMA LockStep ==
    ASSUME LockSettings \subseteq {TRUE}, TypeOK, market.transfer_lock, PositionsLocked,
           [Next]_vars
    PROVE  market'.transfer_lock /\ PositionsLocked'
<1>1. CASE TraderStep
  <2> PICK t \in Traders :
         \/ \E usdc \in UsdcAmounts, limit \in Prices, minOut \in ShareAmounts :
               place_buy(t, usdc, limit, minOut)
         \/ \E shares \in ShareAmounts, limit \in Prices : place_sell(t, shares, limit)
         \/ \E u \in Traders, n \in ShareAmounts : TransferPosition(t, u, n)
         \/ unlock_position(t)
    BY <1>1 DEF TraderStep
  <2>1. CASE \E usdc \in UsdcAmounts, limit \in Prices, minOut \in ShareAmounts :
               place_buy(t, usdc, limit, minOut)
    BY <2>1 DEF place_buy, TypeOK, Market, PositionsLocked, tokenVars
  <2>2. CASE \E shares \in ShareAmounts, limit \in Prices : place_sell(t, shares, limit)
    <3>1. PICK shares \in ShareAmounts, limit \in Prices : place_sell(t, shares, limit)
      BY <2>2
    <3>2. market'.transfer_lock = market.transfer_lock
      BY <3>1 DEF place_sell, TypeOK, Market
    <3>3. position' = [position EXCEPT ![t] = position[t] - shares]
          /\ frozen' = [frozen EXCEPT ![t] = market.transfer_lock /\ position[t] > shares]
      BY <3>1 DEF place_sell
    <3>4. \A u \in Traders : position'[u] > 0 => frozen'[u]
      <4>1. \A u \in Traders : position[u] \in Nat
        BY DEF TypeOK
      <4>2. shares \in Nat
        OBVIOUS
      <4>3. (position[t] > shares => frozen'[t]) /\ position'[t] = position[t] - shares
        BY <3>3 DEF TypeOK, Market
      <4>4. \A u \in Traders : u # t => frozen'[u] = frozen[u] /\ position'[u] = position[u]
        BY <3>3 DEF TypeOK
      <4> QED
        BY <4>1, <4>2, <4>3, <4>4 DEF PositionsLocked
    <3> QED
      BY <3>2, <3>4 DEF PositionsLocked
  <2>3. CASE \E u \in Traders, n \in ShareAmounts : TransferPosition(t, u, n)
    BY <2>3 DEF TransferPosition, PositionsLocked, TypeOK
  <2>4. CASE unlock_position(t)
    BY <2>4 DEF unlock_position
  <2> QED
    BY <2>1, <2>2, <2>3, <2>4
<1>2. CASE OrderStep
  <2> PICK signer \in Signers, o \in OrderIds :
         \/ deploy_buy(signer, o)
         \/ \E shares \in ShareAmounts, price \in Prices :
               confirm_buy(signer, o, shares, price)
         \/ cancel_buy(signer, o)
         \/ \E proceeds \in UsdcAmounts, price \in Prices :
               settle_sell(signer, o, proceeds, price)
         \/ cancel_sell(signer, o)
    BY <1>2 DEF OrderStep
  <2>1. orders[o].status \in {"Pending", "Deployed"} /\ orders[o] \in Order
        /\ orders[o].trader \in Traders
    BY PlacedOrder DEF deploy_buy, confirm_buy, cancel_buy, settle_sell, cancel_sell, IsOrder, Order
  <2>2. market'.transfer_lock = market.transfer_lock
    BY DEF deploy_buy, confirm_buy, cancel_buy, settle_sell, cancel_sell, Released, TypeOK, Market
  <2>3. \/ UNCHANGED <<position, frozen>>
        \/ /\ frozen' = Relocked(orders[o].trader)
           /\ \A u \in Traders : u # orders[o].trader => position'[u] = position[u]
    <3>1. ASSUME \/ \E shares \in ShareAmounts, price \in Prices :
                      confirm_buy(signer, o, shares, price)
                 \/ cancel_sell(signer, o)
          PROVE  /\ frozen' = Relocked(orders[o].trader)
                 /\ \E n : position' = [position EXCEPT ![orders[o].trader] = n]
      BY <3>1 DEF confirm_buy, cancel_sell
    <3>2. ASSUME \/ deploy_buy(signer, o)
                 \/ cancel_buy(signer, o)
                 \/ \E proceeds \in UsdcAmounts, price \in Prices :
                      settle_sell(signer, o, proceeds, price)
          PROVE  UNCHANGED <<position, frozen>>
      BY <3>2 DEF deploy_buy, cancel_buy, settle_sell, tokenVars
    <3> QED
      BY <2>1, <3>1, <3>2 DEF TypeOK
  <2> QED
    BY <2>1, <2>2, <2>3 DEF PositionsLocked, Relocked, TypeOK
<1>3. CASE AdminStep
  BY <1>3 DEF AdminStep, sweep_fee, set_market_status, update_operator, set_fee_bps,
              set_transfer_lock, register_trader, PositionsLocked, tokenVars, TypeOK, Market
<1>4. CASE \/ \E amount \in UsdcAmounts : ReturnUsdc(amount)
           \/ UNCHANGED vars
  BY <1>4 DEF ReturnUsdc, vars, PositionsLocked, tokenVars
<1> QED
  BY <1>1, <1>2, <1>3, <1>4 DEF Next

\* In a market whose admin never lifts the lock, tokens leave a holder's
\* account only through an order: every account that holds some is frozen.
THEOREM LockHolds ==
    ASSUME LockSettings \subseteq {TRUE}
    PROVE  Spec => []PositionsLocked
<1>1. Init => market.transfer_lock /\ PositionsLocked
  BY DEF Init, PositionsLocked
<1>2. TypeOK /\ market.transfer_lock /\ PositionsLocked /\ [Next]_vars
        => (market.transfer_lock /\ PositionsLocked)'
  BY LockStep
<1> QED
  BY <1>1, <1>2, TypeCorrect, PTL DEF Spec

\* While the lock is on, an account an order moved tokens of comes out frozen
\* if it still holds some and thawed if not.
THEOREM OrdersRelocked == Spec => OrdersRelock
<1>1. ASSUME TypeOK, [Next]_vars, NEW t \in Traders,
             market.transfer_lock, orders' # orders, position'[t] # position[t]
      PROVE  frozen'[t] = (position'[t] > 0)
  <2>1. CASE TraderStep
    <3>1. PICK u \in Traders, shares \in ShareAmounts, limit \in Prices :
             place_sell(u, shares, limit)
      BY <1>1, <2>1 DEF TraderStep, place_buy, TransferPosition, unlock_position, tokenVars
    <3>2. position' = [position EXCEPT ![u] = position[u] - shares]
          /\ frozen' = [frozen EXCEPT ![u] = market.transfer_lock /\ position[u] > shares]
      BY <3>1 DEF place_sell
    <3>3. t = u
      BY <1>1, <3>2 DEF TypeOK
    <3>4. frozen'[t] = (position[t] > shares) /\ position'[t] = position[t] - shares
          /\ position[t] \in Nat /\ shares \in Nat
      BY <1>1, <3>2, <3>3 DEF TypeOK
    <3> QED
      BY <3>4
  <2>2. CASE OrderStep
    <3> PICK signer \in Signers, o \in OrderIds :
           \/ deploy_buy(signer, o)
           \/ \E shares \in ShareAmounts, price \in Prices :
                 confirm_buy(signer, o, shares, price)
           \/ cancel_buy(signer, o)
           \/ \E proceeds \in UsdcAmounts, price \in Prices :
                 settle_sell(signer, o, proceeds, price)
           \/ cancel_sell(signer, o)
      BY <2>2 DEF OrderStep
    <3> DEFINE u == orders[o].trader
    <3>1. \E n \in Nat : /\ n > 0
                         /\ position' = [position EXCEPT ![u] = @ + n]
                         /\ frozen' = Relocked(u)
                         /\ orders[o].status # "None"
      <4>1. CASE \E shares \in ShareAmounts, price \in Prices :
                    confirm_buy(signer, o, shares, price)
        BY <4>1 DEF confirm_buy, IsOrder
      <4>2. CASE cancel_sell(signer, o)
        <5>1. orders[o].status = "Pending"
          BY <4>2 DEF cancel_sell, IsOrder
        <5>2. orders[o].shares_amount \in Nat
          BY <1>1, <5>1, PlacedOrder DEF Order
        <5> QED
          BY <4>2, <5>1, <5>2 DEF cancel_sell
      <4> QED
        BY <1>1, <4>1, <4>2 DEF deploy_buy, cancel_buy, settle_sell, tokenVars
    <3>2. PICK n \in Nat : /\ n > 0
                           /\ position' = [position EXCEPT ![u] = @ + n]
                           /\ frozen' = Relocked(u)
                           /\ orders[o].status # "None"
      BY <3>1
    <3>3. u \in Traders
      BY <1>1, <3>2, PlacedOrder DEF Order
    <3> HIDE DEF u
    <3>4. t = u
      BY <1>1, <3>2, <3>3 DEF TypeOK
    <3>5. position'[t] = position[t] + n /\ position[t] \in Nat
      BY <1>1, <3>2, <3>3, <3>4 DEF TypeOK
    <3>6. frozen'[t] = TRUE
      BY <1>1, <3>2, <3>3, <3>4 DEF TypeOK, Relocked, Market
    <3>7. position'[t] > 0
      BY <3>2, <3>5
    <3> QED
      BY <3>6, <3>7, Zenon
  <2>3. CASE AdminStep \/ (\E amount \in UsdcAmounts : ReturnUsdc(amount)) \/ UNCHANGED vars
    BY <1>1, <2>3 DEF AdminStep, sweep_fee, set_market_status, update_operator, set_fee_bps,
          set_transfer_lock, register_trader, ReturnUsdc, tokenVars, vars
  <2> QED
    BY <1>1, <2>1, <2>2, <2>3 DEF Next
<1>2. TypeOK /\ [Next]_vars
        => [\A t \in Traders :
              market.transfer_lock /\ orders' # orders /\ position'[t] # position[t]
                 => frozen'[t] = (position'[t] > 0)]_vars
  BY <1>1
<1> QED
  BY <1>2, TypeCorrect, PTL DEF Spec, OrdersRelock

\* What OrdersKeepTheirTerms says of one order.
Keeps(o) ==
    \/ orders'[o] = orders[o]
    \/ /\ <<orders[o].status, orders'[o].status>> \in Lifecycle[orders[o].side]
       /\ \A term \in {"trader", "side", "limit_price", "min_shares_out", "fee_bps"} :
             orders'[o][term] = orders[o][term]
       /\ orders'[o].status \in {"Deployed", "Filled"} =>
             orders'[o].fee_paid = fee_on(orders[o].usdc_amount, orders[o].fee_bps)
       /\ orders'[o].status = "Settled" =>
             orders'[o].fee_paid =
                fee_on(orders'[o].usdc_amount + orders'[o].fee_paid, orders[o].fee_bps)

\* A deployed buy was charged the rate it was placed at: a fill, which charges
\* nothing, could not keep the terms without it.
SpreadAgreed ==
    \A o \in OrderIds : orders[o].status \in {"Deployed", "Filled"} =>
        orders[o].fee_paid = fee_on(orders[o].usdc_amount, orders[o].fee_bps)

\* It is enough to look at the one order a step changes.
LEMMA OneOrder ==
    ASSUME TypeOK, SpreadAgreed, NEW o \in OrderIds, NEW q, orders' = [orders EXCEPT ![o] = q],
           o \in Placed => Keeps(o),
           q.status \in {"Deployed", "Filled"} => q.fee_paid = fee_on(q.usdc_amount, q.fee_bps)
    PROVE  SpreadAgreed' /\ \A i \in Placed : Keeps(i)
<1>1. orders'[o] = q /\ \A i \in OrderIds : i # o => orders'[i] = orders[i]
  BY DEF TypeOK
<1>2. SpreadAgreed'
  BY <1>1 DEF SpreadAgreed
<1>3. \A i \in Placed : Keeps(i)
  BY <1>1 DEF Keeps, Placed
<1> QED
  BY <1>2, <1>3

LEMMA PlaceKeeps ==
    ASSUME IInv, SpreadAgreed, NEW t \in Traders, NEW usdc \in Nat, NEW shares \in Nat,
           NEW limit \in Nat, NEW minOut \in Nat,
           place_buy(t, usdc, limit, minOut) \/ place_sell(t, shares, limit)
    PROVE  SpreadAgreed' /\ \A i \in Placed : Keeps(i)
<1> PICK o \in OrderIds : o = market.order_seq
  BY DEF place_buy, place_sell
<1>1. TypeOK /\ o \notin Placed
  BY DEF IInv, UnplacedAhead, OrderIds, Placed, NoOrder
<1>2. CASE place_buy(t, usdc, limit, minOut)
  <2> DEFINE new == NewOrder(t, "Buy", usdc, 0, limit, minOut)
  <2>1. orders' = [orders EXCEPT ![o] = new] /\ new.status = "Pending"
    BY <1>2 DEF place_buy, NewOrder
  <2> HIDE DEF new
  <2> QED
    BY <1>1, <2>1, OneOrder
<1>3. CASE place_sell(t, shares, limit)
  <2> DEFINE new == NewOrder(t, "Sell", 0, shares, limit, 0)
  <2>1. orders' = [orders EXCEPT ![o] = new] /\ new.status = "Pending"
    BY <1>3 DEF place_sell, NewOrder
  <2> HIDE DEF new
  <2> QED
    BY <1>1, <2>1, OneOrder
<1> QED
  BY <1>2, <1>3

LEMMA DeployKeeps ==
    ASSUME IInv, SpreadAgreed, NEW signer, NEW o \in OrderIds, deploy_buy(signer, o)
    PROVE  SpreadAgreed' /\ \A i \in Placed : Keeps(i)
<1> DEFINE fee == fee_on(orders[o].usdc_amount, orders[o].fee_bps)
           sent == orders[o].usdc_amount - fee
           q == [orders[o] EXCEPT !.status = "Deployed", !.deployed_amount = sent,
                                  !.fee_paid = fee]
<1>1. TypeOK /\ orders[o] \in Order /\ IsOrder(o, "Buy", "Pending")
  BY PlacedOrder DEF IInv, deploy_buy, IsOrder
<1>2. orders' = [orders EXCEPT ![o] = q]
  BY <1>1 DEF deploy_buy, SpreadOn, TypeOK
<1> HIDE DEF fee, sent
<1>3. /\ q.status = "Deployed" /\ q.fee_paid = fee /\ q.usdc_amount = orders[o].usdc_amount
      /\ q.trader = orders[o].trader /\ q.side = orders[o].side
      /\ q.limit_price = orders[o].limit_price /\ q.min_shares_out = orders[o].min_shares_out
      /\ q.fee_bps = orders[o].fee_bps
  BY <1>1 DEF Order
<1> HIDE DEF q
<1>4. orders'[o] = q
  BY <1>1, <1>2 DEF TypeOK
<1>5. Keeps(o)
  <2>1. <<orders[o].status, q.status>> \in Lifecycle[orders[o].side]
    BY <1>1, <1>3 DEF IsOrder, Lifecycle
  <2> QED
    BY <1>3, <1>4, <2>1 DEF Keeps, fee
<1> QED
  BY <1>1, <1>2, <1>3, <1>5, OneOrder DEF fee

LEMMA ConfirmKeeps ==
    ASSUME IInv, SpreadAgreed, NEW signer, NEW o \in OrderIds, NEW shares, NEW price,
           confirm_buy(signer, o, shares, price)
    PROVE  SpreadAgreed' /\ \A i \in Placed : Keeps(i)
<1> DEFINE q == [orders[o] EXCEPT !.status = "Filled", !.shares_amount = shares,
                                  !.execution_price = price]
<1>1. TypeOK /\ orders[o] \in Order /\ IsOrder(o, "Buy", "Deployed")
  BY PlacedOrder DEF IInv, confirm_buy, IsOrder
<1>2. orders' = [orders EXCEPT ![o] = q]
  BY <1>1 DEF confirm_buy, TypeOK
<1>3. /\ q.status = "Filled" /\ q.fee_paid = orders[o].fee_paid
      /\ q.usdc_amount = orders[o].usdc_amount
      /\ q.trader = orders[o].trader /\ q.side = orders[o].side
      /\ q.limit_price = orders[o].limit_price /\ q.min_shares_out = orders[o].min_shares_out
      /\ q.fee_bps = orders[o].fee_bps
  BY <1>1 DEF Order
<1> HIDE DEF q
<1>4. orders'[o] = q
  BY <1>1, <1>2 DEF TypeOK
<1>5. q.fee_paid = fee_on(orders[o].usdc_amount, orders[o].fee_bps)
  BY <1>1, <1>3 DEF SpreadAgreed, IsOrder
<1>6. Keeps(o)
  <2>1. <<orders[o].status, q.status>> \in Lifecycle[orders[o].side]
    BY <1>1, <1>3 DEF IsOrder, Lifecycle
  <2> QED
    BY <1>3, <1>4, <1>5, <2>1 DEF Keeps
<1> QED
  BY <1>1, <1>2, <1>3, <1>5, <1>6, OneOrder

LEMMA SettleKeeps ==
    ASSUME IInv, SpreadAgreed, NEW signer, NEW o \in OrderIds, NEW proceeds \in Nat, NEW price,
           settle_sell(signer, o, proceeds, price)
    PROVE  SpreadAgreed' /\ \A i \in Placed : Keeps(i)
<1> DEFINE fee == fee_on(proceeds, orders[o].fee_bps)
           payout == proceeds - fee
           q == [orders[o] EXCEPT !.status = "Settled", !.usdc_amount = payout,
                                  !.execution_price = price, !.fee_paid = fee]
<1>1. TypeOK /\ orders[o] \in Order /\ IsOrder(o, "Sell", "Pending")
  BY PlacedOrder DEF IInv, settle_sell, IsOrder
<1>2. orders' = [orders EXCEPT ![o] = q]
  BY <1>1 DEF settle_sell, SpreadOn, TypeOK
<1>3. fee \in Nat
  <2>1. orders[o].fee_bps \in Nat
    BY <1>1 DEF Order
  <2> QED
    BY <2>1, FeeType
<1> HIDE DEF fee
<1>4. payout + fee = proceeds
  BY <1>3
<1> HIDE DEF payout
<1>5. /\ q.status = "Settled" /\ q.fee_paid = fee /\ q.usdc_amount = payout
      /\ q.trader = orders[o].trader /\ q.side = orders[o].side
      /\ q.limit_price = orders[o].limit_price /\ q.min_shares_out = orders[o].min_shares_out
      /\ q.fee_bps = orders[o].fee_bps
  BY <1>1 DEF Order
<1> HIDE DEF q
<1>6. orders'[o] = q
  BY <1>1, <1>2 DEF TypeOK
<1>7. Keeps(o)
  <2>1. <<orders[o].status, q.status>> \in Lifecycle[orders[o].side]
    BY <1>1, <1>5 DEF IsOrder, Lifecycle
  <2>2. q.fee_paid = fee_on(q.usdc_amount + q.fee_paid, orders[o].fee_bps)
    BY <1>4, <1>5 DEF fee
  <2> QED
    BY <1>5, <1>6, <2>1, <2>2 DEF Keeps
<1> QED
  BY <1>1, <1>2, <1>5, <1>7, OneOrder

LEMMA CancelKeeps ==
    ASSUME IInv, SpreadAgreed, NEW signer, NEW o \in OrderIds,
           cancel_buy(signer, o) \/ cancel_sell(signer, o)
    PROVE  SpreadAgreed' /\ \A i \in Placed : Keeps(i)
<1>1. TypeOK /\ orders[o] \in Order
      /\ \/ IsOrder(o, "Buy", "Pending") \/ IsOrder(o, "Buy", "Deployed")
         \/ IsOrder(o, "Sell", "Pending")
  BY PlacedOrder DEF IInv, cancel_buy, cancel_sell, IsOrder
<1>2. PICK paid : orders' = [orders EXCEPT ![o] = [orders[o] EXCEPT !.status = "Cancelled",
                                                                    !.fee_paid = paid]]
  <2>1. CASE cancel_buy(signer, o)
    BY <1>1, <2>1 DEF cancel_buy, TypeOK
  <2>2. CASE cancel_sell(signer, o)
    <3>1. orders' = [orders EXCEPT ![o].status = "Cancelled"]
      BY <2>2 DEF cancel_sell
    <3>2. [orders[o] EXCEPT !.status = "Cancelled"]
            = [orders[o] EXCEPT !.status = "Cancelled", !.fee_paid = orders[o].fee_paid]
      BY <1>1 DEF Order
    <3> QED
      BY <1>1, <3>1, <3>2 DEF TypeOK
  <2> QED
    BY <2>1, <2>2
<1> DEFINE q == [orders[o] EXCEPT !.status = "Cancelled", !.fee_paid = paid]
<1>3. /\ q.status = "Cancelled"
      /\ q.trader = orders[o].trader /\ q.side = orders[o].side
      /\ q.limit_price = orders[o].limit_price /\ q.min_shares_out = orders[o].min_shares_out
      /\ q.fee_bps = orders[o].fee_bps
  BY <1>1 DEF Order
<1>4. orders' = [orders EXCEPT ![o] = q]
  BY <1>2
<1> HIDE DEF q
<1>5. orders'[o] = q
  BY <1>1, <1>4 DEF TypeOK
<1>6. Keeps(o)
  <2>1. <<orders[o].status, q.status>> \in Lifecycle[orders[o].side]
    BY <1>1, <1>3 DEF IsOrder, Lifecycle
  <2> QED
    BY <1>3, <1>5, <2>1 DEF Keeps
<1> QED
  BY <1>1, <1>3, <1>4, <1>6, OneOrder

LEMMA TermsStep ==
    ASSUME IInv, SpreadAgreed, [Next]_vars
    PROVE  SpreadAgreed' /\ \A i \in Placed : Keeps(i)
<1>1. CASE orders' = orders
  BY <1>1 DEF SpreadAgreed, Keeps
<1>2. CASE TraderStep
  <2>1. \/ orders' = orders
        \/ \E t \in Traders, usdc \in UsdcAmounts, limit \in Prices, minOut \in ShareAmounts :
              place_buy(t, usdc, limit, minOut)
        \/ \E t \in Traders, shares \in ShareAmounts, limit \in Prices :
              place_sell(t, shares, limit)
    BY <1>2 DEF TraderStep, TransferPosition, unlock_position
  <2> QED
    BY <1>1, <2>1, PlaceKeeps
<1>3. CASE OrderStep
  BY <1>3, DeployKeeps, ConfirmKeeps, SettleKeeps, CancelKeeps DEF OrderStep
<1>4. CASE AdminStep \/ (\E amount \in UsdcAmounts : ReturnUsdc(amount)) \/ UNCHANGED vars
  <2>1. orders' = orders
    BY <1>4 DEF AdminStep, sweep_fee, set_market_status, update_operator, set_fee_bps,
                set_transfer_lock, register_trader, ReturnUsdc, vars
  <2> QED
    BY <1>1, <2>1
<1> QED
  BY <1>2, <1>3, <1>4 DEF Next

\* An order keeps the terms it was placed with, moves along the lifecycle only,
\* and is charged the spread rate it was placed at, whatever rate holds since.
THEOREM TermsKept == Spec => OrdersKeepTheirTerms
<1>1. Init => IInv /\ SpreadAgreed
  <2>1. Init => SpreadAgreed
    BY DEF Init, SpreadAgreed, NoOrder
  <2> QED
    BY <2>1, InitInv
<1>2. IInv /\ SpreadAgreed /\ [Next]_vars => (IInv /\ SpreadAgreed)'
  BY StepInv, TermsStep
<1>3. IInv /\ SpreadAgreed /\ [Next]_vars
        => [\A o \in Placed :
              \/ orders'[o] = orders[o]
              \/ /\ <<orders[o].status, orders'[o].status>> \in Lifecycle[orders[o].side]
                 /\ \A term \in {"trader", "side", "limit_price", "min_shares_out", "fee_bps"} :
                       orders'[o][term] = orders[o][term]
                 /\ orders'[o].status \in {"Deployed", "Filled"} =>
                       orders'[o].fee_paid = fee_on(orders[o].usdc_amount, orders[o].fee_bps)
                 /\ orders'[o].status = "Settled" =>
                       orders'[o].fee_paid =
                          fee_on(orders'[o].usdc_amount + orders'[o].fee_paid, orders[o].fee_bps)
           ]_vars
  BY TermsStep DEF Keeps
<1> QED
  BY <1>1, <1>2, <1>3, PTL DEF Spec, OrdersKeepTheirTerms

-----------------------------------------------------------------------------
(* The program implements the escrow agent of OrderEscrow.                 *)

\* A step that changes order o only is a step of o in the abstract view.
LEMMA OrderMoves ==
    ASSUME TypeOK, NEW o \in OrderIds, orders' \in [OrderIds -> Order \cup {NoOrder}],
           \A i \in OrderIds \ {o} : orders'[i] = orders[i]
    PROVE  /\ Stage' = [Stage EXCEPT ![o] = orders'[o].status]
           /\ Held' = [Held EXCEPT ![o] = HeldFor(o)']
           /\ Stage[o] = orders[o].status /\ Held[o] = HeldFor(o)
           /\ Held'[o] = HeldFor(o)'
BY DEF Stage, Held, HeldFor, IsOrder

\* With SweptWithinCollected the spread is a plain difference.
LEMMA SpreadValue ==
    ASSUME IInv
    PROVE  Spread = market.fees_collected - market.fees_swept /\ Spread \in Nat
           /\ Free \in Nat /\ Spread <= Free
BY InvType DEF IInv, SweptWithinCollected, Solvent, Spread, Free, fees_outstanding, SatSub

LEMMA SpreadValueNext ==
    ASSUME IInv'
    PROVE  Spread' = market'.fees_collected - market'.fees_swept /\ Spread' \in Nat
           /\ Free' \in Nat /\ Spread' <= Free'
<1>1. market'.usdc_escrowed \in Nat /\ market'.fees_collected \in Nat
      /\ market'.fees_swept \in Nat /\ market_usdc' \in Nat
  BY DEF IInv, TypeOK, Market
<1> QED
  BY <1>1 DEF IInv, SweptWithinCollected, Solvent, Spread, Free, fees_outstanding, SatSub

\* A placed order opens in the abstract view.
LEMMA PlaceOpens ==
    ASSUME IInv, IInv', NEW t \in Traders, NEW usdc \in Nat, NEW shares \in Nat,
           NEW limit \in Nat, NEW minOut \in Nat,
           place_buy(t, usdc, limit, minOut) \/ place_sell(t, shares, limit)
    PROVE  \E o \in OrderIds : Escrow!Open(o)
<1> PICK o \in OrderIds : o = market.order_seq
  BY DEF place_buy, place_sell
<1>1. TypeOK /\ orders[o] = NoOrder /\ orders' \in [OrderIds -> Order \cup {NoOrder}]
  <2>1. orders' \in [OrderIds -> Order \cup {NoOrder}]
    BY DEF IInv, TypeOK
  <2> QED
    BY <2>1 DEF IInv, UnplacedAhead, OrderIds
<1>2. \A i \in OrderIds \ {o} : orders'[i] = orders[i]
  BY <1>1 DEF place_buy, place_sell, TypeOK
<1>3. HeldFor(o) = 0 /\ orders[o].status = "None"
  BY <1>1 DEF HeldFor, IsOrder, NoOrder
<1>4. /\ orders'[o].status = "Pending" /\ HeldFor(o)' \in Nat
      /\ market'.usdc_escrowed = market.usdc_escrowed + HeldFor(o)'
      /\ market_usdc' = market_usdc + HeldFor(o)'
      /\ market'.fees_collected = market.fees_collected
      /\ market'.fees_swept = market.fees_swept
  <2>1. CASE place_buy(t, usdc, limit, minOut)
    <3>1. orders'[o] = NewOrder(t, "Buy", usdc, 0, limit, minOut)
      BY <1>1, <2>1 DEF place_buy, TypeOK
    <3>2. HeldFor(o)' = usdc
      BY <3>1 DEF HeldFor, IsOrder, NewOrder
    <3> QED
      BY <1>1, <2>1, <3>1, <3>2 DEF place_buy, NewOrder, TypeOK, Market
  <2>2. CASE place_sell(t, shares, limit)
    <3>1. orders'[o] = NewOrder(t, "Sell", 0, shares, limit, 0)
      BY <1>1, <2>2 DEF place_sell, TypeOK
    <3>2. HeldFor(o)' = 0
      BY <3>1 DEF HeldFor, IsOrder, NewOrder
    <3> QED
      BY <1>1, <2>2, <3>1, <3>2, InvType DEF place_sell, NewOrder, TypeOK, Market, usdcVars
  <2> QED
    BY <2>1, <2>2
<1>5. UNCHANGED <<Free, Spread>>
  BY <1>4, InvType DEF Free, Spread, fees_outstanding
<1> QED
  BY <1>1, <1>2, <1>3, <1>4, <1>5, OrderMoves DEF Escrow!Open, Escrow!Moves

LEMMA DeployRefines ==
    ASSUME IInv, IInv', NEW signer, NEW o \in OrderIds, deploy_buy(signer, o)
    PROVE  Escrow!Deploy(o)
<1> DEFINE gross      == orders[o].usdc_amount
           fee        == SpreadOn(o, gross)
           deployable == gross - fee
<1>1. TypeOK /\ orders[o] \in Order /\ IsOrder(o, "Buy", "Pending")
      /\ orders' \in [OrderIds -> Order \cup {NoOrder}]
  BY PlacedOrder DEF IInv, TypeOK, deploy_buy, IsOrder
<1>2. gross \in Nat /\ fee \in Nat /\ fee < gross
  <2>1. gross \in Nat /\ orders[o].fee_bps \in Nat
    BY <1>1 DEF Order
  <2>2. fee \in Nat
    BY <2>1, FeeType DEF SpreadOn
  <2>3. deployable > 0
    BY DEF deploy_buy
  <2> HIDE DEF fee
  <2> QED
    BY <2>1, <2>2, <2>3
<1>3. HeldFor(o) = gross /\ gross <= market.usdc_escrowed
  BY <1>1, EscrowCovers DEF HeldFor
<1>4. /\ orders' = [orders EXCEPT ![o].status = "Deployed",
                                  ![o].deployed_amount = deployable, ![o].fee_paid = fee]
      /\ market'.usdc_escrowed = market.usdc_escrowed - gross
      /\ market'.fees_collected = market.fees_collected + fee
      /\ market'.fees_swept = market.fees_swept
      /\ market_usdc' = market_usdc - deployable
  BY <1>1, <1>3, InvType DEF deploy_buy, SatSub, TypeOK, Market
<1>5. orders'[o].status = "Deployed" /\ \A i \in OrderIds \ {o} : orders'[i] = orders[i]
  BY <1>1, <1>4 DEF TypeOK, Order
<1>6. HeldFor(o)' = 0
  BY <1>5 DEF HeldFor, IsOrder
<1>7. deployable = gross - fee
  OBVIOUS
<1> HIDE DEF gross, fee, deployable
<1>8. Spread' = Spread + fee /\ Free' - Free = fee /\ Spread \in Nat /\ Spread' \in Nat
  <2>1. /\ Spread = market.fees_collected - market.fees_swept
        /\ Spread' = market'.fees_collected - market'.fees_swept
        /\ Spread \in Nat /\ Spread' \in Nat
    BY SpreadValue, SpreadValueNext
  <2>2. Free = market_usdc - market.usdc_escrowed /\ Free' = market_usdc' - market'.usdc_escrowed
    BY DEF Free
  <2> QED
    BY <1>2, <1>4, <1>7, <2>1, <2>2, InvType
<1>9. /\ Stage[o] = "Pending" /\ Stage' = [Stage EXCEPT ![o] = "Deployed"]
      /\ Held' = [Held EXCEPT ![o] = 0] /\ Held[o] = gross
  BY <1>1, <1>3, <1>5, <1>6, OrderMoves DEF IsOrder
<1>10. Spread <= Spread' /\ Spread' - Spread < Held[o] /\ Free' - Free = Spread' - Spread
  <2>1. Spread <= Spread'
    BY <1>2, <1>8
  <2>2. Spread' - Spread < Held[o]
    BY <1>2, <1>8, <1>9
  <2>3. Spread' - Spread = fee
    BY <1>2, <1>8
  <2>4. Free' - Free = Spread' - Spread
    BY <1>8, <2>3
  <2> QED
    BY <2>1, <2>2, <2>4
<1> QED
  BY <1>9, <1>10 DEF Escrow!Deploy, Escrow!Moves

LEMMA FillRefines ==
    ASSUME IInv, IInv', NEW signer, NEW o \in OrderIds, NEW shares, NEW price,
           confirm_buy(signer, o, shares, price)
    PROVE  Escrow!Fill(o)
<1>1. TypeOK /\ orders[o] \in Order /\ IsOrder(o, "Buy", "Deployed")
      /\ orders' \in [OrderIds -> Order \cup {NoOrder}]
  BY PlacedOrder DEF IInv, TypeOK, confirm_buy, IsOrder
<1>2. orders'[o].status = "Filled" /\ \A i \in OrderIds \ {o} : orders'[i] = orders[i]
  BY <1>1 DEF confirm_buy, TypeOK, Order
<1>3. HeldFor(o) = 0 /\ HeldFor(o)' = 0
  BY <1>1, <1>2 DEF HeldFor, IsOrder
<1>4. UNCHANGED <<Free, Spread>>
  BY <1>1 DEF confirm_buy, Free, Spread, fees_outstanding, usdcVars, TypeOK, Market
<1>5. UNCHANGED Held
  BY <1>2, <1>3 DEF Held, HeldFor, IsOrder
<1> QED
  BY <1>1, <1>2, <1>4, <1>5, OrderMoves DEF Escrow!Fill, Escrow!Moves, IsOrder

LEMMA CancelBuyRefines ==
    ASSUME IInv, IInv', NEW signer, NEW o \in OrderIds, cancel_buy(signer, o)
    PROVE  Escrow!GiveBack(o) \/ Escrow!Reimburse(o)
<1> DEFINE refund == orders[o].usdc_amount
<1>1. TypeOK /\ orders[o] \in Order /\ refund \in Nat /\ refund > 0
      /\ orders' \in [OrderIds -> Order \cup {NoOrder}]
  BY PlacedOrder DEF IInv, TypeOK, cancel_buy, IsOrder, RefundOf, Order
<1>2. orders'[o].status = "Cancelled" /\ \A i \in OrderIds \ {o} : orders'[i] = orders[i]
  BY <1>1 DEF cancel_buy, TypeOK, Order
<1>3. HeldFor(o)' = 0
  BY <1>2 DEF HeldFor, IsOrder
<1>4. market' = Released(o) /\ market_usdc' = market_usdc - refund
  BY DEF cancel_buy, RefundOf
<1>5. CASE IsOrder(o, "Buy", "Pending")
  <2>1. HeldFor(o) = refund /\ refund <= market.usdc_escrowed
    BY <1>5, EscrowCovers DEF HeldFor
  <2>2. market' = [market EXCEPT !.usdc_escrowed = market.usdc_escrowed - refund]
    BY <1>1, <1>4, <1>5, <2>1, InvType DEF Released, IsOrder, SatSub, TypeOK, Market
  <2>3. market'.usdc_escrowed = market.usdc_escrowed - refund
        /\ market'.fees_collected = market.fees_collected
        /\ market'.fees_swept = market.fees_swept
    BY <1>1, <2>2 DEF TypeOK, Market
  <2>4. UNCHANGED <<Free, Spread>>
    BY <1>1, <1>4, <2>3, InvType DEF Free, Spread, fees_outstanding
  <2> QED
    BY <1>1, <1>2, <1>3, <1>5, <2>4, OrderMoves DEF Escrow!GiveBack, Escrow!Moves, IsOrder
<1>6. CASE IsOrder(o, "Buy", "Deployed")
  <2> DEFINE taken == Lesser(fees_outstanding(market), orders[o].fee_paid)
  <2>1. taken \in Nat /\ taken <= market.fees_collected
    BY <1>1, InvType DEF Lesser, fees_outstanding, SatSub, Order
  <2>2. /\ market'.usdc_escrowed = market.usdc_escrowed
        /\ market'.fees_collected = market.fees_collected - taken
        /\ market'.fees_swept = market.fees_swept
    <3>1. SatSub(market.fees_collected, taken) = market.fees_collected - taken
      BY <2>1, InvType DEF SatSub
    <3> QED
      BY <1>1, <1>4, <1>6, <3>1 DEF Released, IsOrder, TypeOK, Market
  <2> HIDE DEF taken
  <2>3. Free' < Free /\ Spread' <= Spread /\ Spread' \in Nat /\ Spread' <= Free'
    <3>1. /\ Spread = market.fees_collected - market.fees_swept
          /\ Spread' = market'.fees_collected - market'.fees_swept
          /\ Spread' \in Nat /\ Spread' <= Free'
      BY SpreadValue, SpreadValueNext
    <3>2. Free = market_usdc - market.usdc_escrowed
          /\ Free' = market_usdc' - market'.usdc_escrowed
      BY DEF Free
    <3> QED
      BY <1>1, <1>4, <2>1, <2>2, <3>1, <3>2, InvType
  <2>4. HeldFor(o) = 0
    BY <1>6 DEF HeldFor, IsOrder
  <2>5. UNCHANGED Held
    BY <1>2, <1>3, <2>4 DEF Held, HeldFor, IsOrder
  <2> QED
    BY <1>1, <1>2, <1>6, <2>3, <2>5, OrderMoves
       DEF Escrow!Reimburse, Escrow!Moves, Escrow!Covered, IsOrder
<1> QED
  BY <1>5, <1>6 DEF cancel_buy

LEMMA PayRefines ==
    ASSUME IInv, IInv', NEW signer, NEW o \in OrderIds, NEW proceeds \in Nat, NEW price,
           settle_sell(signer, o, proceeds, price)
    PROVE  Escrow!Pay(o)
<1> DEFINE fee    == SpreadOn(o, proceeds)
           payout == proceeds - fee
<1>1. TypeOK /\ orders[o] \in Order /\ IsOrder(o, "Sell", "Pending")
      /\ orders' \in [OrderIds -> Order \cup {NoOrder}]
  BY PlacedOrder DEF IInv, TypeOK, settle_sell, IsOrder
<1>2. fee \in Nat /\ payout \in Nat /\ payout > 0
  <2>1. orders[o].fee_bps \in Nat
    BY <1>1 DEF Order
  <2>2. fee \in Nat
    BY <2>1, FeeType DEF SpreadOn
  <2>3. payout > 0
    BY DEF settle_sell
  <2> HIDE DEF fee
  <2> QED
    BY <2>2, <2>3
<1>3. orders'[o].status = "Settled" /\ \A i \in OrderIds \ {o} : orders'[i] = orders[i]
  BY <1>1 DEF settle_sell, TypeOK, Order
<1>4. HeldFor(o) = 0 /\ HeldFor(o)' = 0
  BY <1>1, <1>3 DEF HeldFor, IsOrder
<1>5. UNCHANGED Held
  BY <1>3, <1>4 DEF Held, HeldFor, IsOrder
<1>6. /\ market'.usdc_escrowed = market.usdc_escrowed
      /\ market'.fees_collected = market.fees_collected + fee
      /\ market'.fees_swept = market.fees_swept
      /\ market_usdc' = market_usdc - payout
  BY <1>1 DEF settle_sell, TypeOK, Market
<1> HIDE DEF fee, payout
<1>7. Free' < Free
  <2>1. Free = market_usdc - market.usdc_escrowed /\ Free' = market_usdc' - market'.usdc_escrowed
    BY DEF Free
  <2> QED
    BY <1>2, <1>6, <2>1, InvType
<1>8. Spread' >= Spread /\ Escrow!Covered
  <2>1. /\ Spread = market.fees_collected - market.fees_swept
        /\ Spread' = market'.fees_collected - market'.fees_swept
        /\ Spread' \in Nat /\ Spread' <= Free'
    BY SpreadValue, SpreadValueNext
  <2> QED
    BY <1>2, <1>6, <2>1, InvType DEF Escrow!Covered
<1> QED
  BY <1>1, <1>3, <1>4, <1>5, <1>7, <1>8, OrderMoves DEF Escrow!Pay, Escrow!Moves, IsOrder

LEMMA CancelSellRefines ==
    ASSUME IInv, IInv', NEW signer, NEW o \in OrderIds, cancel_sell(signer, o)
    PROVE  Escrow!GiveBack(o)
<1>1. TypeOK /\ orders[o] \in Order /\ IsOrder(o, "Sell", "Pending")
      /\ orders' \in [OrderIds -> Order \cup {NoOrder}]
  BY PlacedOrder DEF IInv, TypeOK, cancel_sell, IsOrder
<1>2. orders'[o].status = "Cancelled" /\ \A i \in OrderIds \ {o} : orders'[i] = orders[i]
  BY <1>1 DEF cancel_sell, TypeOK, Order
<1>3. HeldFor(o)' = 0
  BY <1>2 DEF HeldFor, IsOrder
<1>4. UNCHANGED <<Free, Spread>>
  BY <1>1 DEF cancel_sell, Free, Spread, fees_outstanding, usdcVars, TypeOK, Market
<1> QED
  BY <1>1, <1>2, <1>3, <1>4, OrderMoves DEF Escrow!GiveBack, Escrow!Moves, IsOrder

LEMMA SweepRefines ==
    ASSUME IInv, IInv', NEW amount \in 1 .. fees_outstanding(market), sweep_fee(amount)
    PROVE  Escrow!Sweep
<1>1. /\ market'.usdc_escrowed = market.usdc_escrowed
      /\ market'.fees_collected = market.fees_collected
      /\ market'.fees_swept = market.fees_swept + amount
      /\ market_usdc' = market_usdc - amount
      /\ amount \in Nat /\ amount > 0
  BY InvType DEF sweep_fee, TypeOK, Market
<1>2. /\ Spread = market.fees_collected - market.fees_swept
      /\ Spread' = market'.fees_collected - market'.fees_swept
      /\ Spread' \in Nat
  BY SpreadValue, SpreadValueNext
<1>3. Free = market_usdc - market.usdc_escrowed /\ Free' = market_usdc' - market'.usdc_escrowed
  BY DEF Free
<1>4. Spread' < Spread /\ Spread' >= 0 /\ Free' - Free = Spread' - Spread
  BY <1>1, <1>2, <1>3, InvType
<1>5. UNCHANGED <<Stage, Held>>
  BY DEF sweep_fee, Stage, Held, HeldFor, IsOrder
<1> QED
  BY <1>4, <1>5 DEF Escrow!Sweep

LEMMA ReturnRefines ==
    ASSUME IInv, NEW amount \in Nat, ReturnUsdc(amount)
    PROVE  Escrow!Receive \/ UNCHANGED Escrow!vars
<1>1. UNCHANGED <<Stage, Held, Spread>>
  BY DEF ReturnUsdc, Stage, Held, HeldFor, IsOrder, Spread
<1>2. Free' >= Free
  BY InvType DEF ReturnUsdc, Free
<1>3. Free \in Int /\ Free' \in Int
  BY InvType DEF ReturnUsdc, Free
<1> QED
  BY <1>1, <1>2, <1>3 DEF Escrow!Receive, Escrow!vars

\* A step that leaves the orders, the balance and the books alone is no step.
LEMMA Invisible ==
    ASSUME UNCHANGED <<orders, market_usdc>>,
           market'.usdc_escrowed = market.usdc_escrowed,
           market'.fees_collected = market.fees_collected,
           market'.fees_swept = market.fees_swept
    PROVE  UNCHANGED Escrow!vars
BY DEF Escrow!vars, Stage, Held, HeldFor, IsOrder, Free, Spread, fees_outstanding

LEMMA StepRefines == IInv /\ IInv' /\ [Next]_vars => [Escrow!Next]_(Escrow!vars)
<1> SUFFICES ASSUME IInv, IInv', [Next]_vars
             PROVE  Escrow!Next \/ UNCHANGED Escrow!vars
  OBVIOUS
<1>1. CASE TraderStep
  <2> PICK t \in Traders :
         \/ \E usdc \in UsdcAmounts, limit \in Prices, minOut \in ShareAmounts :
               place_buy(t, usdc, limit, minOut)
         \/ \E shares \in ShareAmounts, limit \in Prices : place_sell(t, shares, limit)
         \/ \E u \in Traders, n \in ShareAmounts : TransferPosition(t, u, n)
         \/ unlock_position(t)
    BY <1>1 DEF TraderStep
  <2>1. CASE \E usdc \in UsdcAmounts, limit \in Prices, minOut \in ShareAmounts :
               place_buy(t, usdc, limit, minOut)
    <3>1. \E o \in OrderIds : Escrow!Open(o)
      BY <2>1, PlaceOpens
    <3> QED
      BY <3>1 DEF Escrow!Next
  <2>2. CASE \E shares \in ShareAmounts, limit \in Prices : place_sell(t, shares, limit)
    <3>1. \E o \in OrderIds : Escrow!Open(o)
      BY <2>2, PlaceOpens
    <3> QED
      BY <3>1 DEF Escrow!Next
  <2>3. CASE \E u \in Traders, n \in ShareAmounts : TransferPosition(t, u, n)
    BY <2>3, Invisible DEF TransferPosition, usdcVars
  <2>4. CASE unlock_position(t)
    BY <2>4, Invisible DEF unlock_position, usdcVars
  <2> QED
    BY <2>1, <2>2, <2>3, <2>4
<1>2. CASE OrderStep
  <2> PICK signer \in Signers, o \in OrderIds :
         \/ deploy_buy(signer, o)
         \/ \E shares \in ShareAmounts, price \in Prices :
               confirm_buy(signer, o, shares, price)
         \/ cancel_buy(signer, o)
         \/ \E proceeds \in UsdcAmounts, price \in Prices :
               settle_sell(signer, o, proceeds, price)
         \/ cancel_sell(signer, o)
    BY <1>2 DEF OrderStep
  <2>1. \/ Escrow!Deploy(o) \/ Escrow!Fill(o) \/ Escrow!GiveBack(o)
        \/ Escrow!Reimburse(o) \/ Escrow!Pay(o)
    BY DeployRefines, FillRefines, CancelBuyRefines, PayRefines, CancelSellRefines
  <2> QED
    BY <2>1 DEF Escrow!Next
<1>3. CASE AdminStep
  <2>1. CASE \E amount \in 1 .. fees_outstanding(market) : sweep_fee(amount)
    BY <2>1, SweepRefines DEF Escrow!Next
  <2>2. CASE \/ \E status \in MarketStatuses : set_market_status(status)
             \/ \E op \in Operators : update_operator(op)
             \/ \E bps \in FeeRates : set_fee_bps(bps)
             \/ \E locked \in LockSettings : set_transfer_lock(locked)
             \/ \E t \in Traders, ok \in BOOLEAN : register_trader(t, ok)
    <3>1. /\ UNCHANGED <<orders, market_usdc>>
          /\ market'.usdc_escrowed = market.usdc_escrowed
          /\ market'.fees_collected = market.fees_collected
          /\ market'.fees_swept = market.fees_swept
      BY <2>2, InvType DEF set_market_status, update_operator, set_fee_bps,
            set_transfer_lock, register_trader, usdcVars, TypeOK, Market
    <3> QED
      BY <3>1, Invisible
  <2> QED
    BY <1>3, <2>1, <2>2 DEF AdminStep
<1>4. CASE \E amount \in UsdcAmounts : ReturnUsdc(amount)
  BY <1>4, ReturnRefines DEF Escrow!Next
<1>5. CASE UNCHANGED vars
  BY <1>5, Invisible DEF vars, usdcVars
<1> QED
  BY <1>1, <1>2, <1>3, <1>4, <1>5 DEF Next

LEMMA InitRefines == Init => Escrow!Init
<1> SUFFICES ASSUME Init PROVE Escrow!Init
  OBVIOUS
<1>1. Stage = [o \in OrderIds |-> "None"] /\ Held = [o \in OrderIds |-> 0]
  BY DEF Init, Stage, Held, HeldFor, IsOrder, NoOrder
<1>2. Free = 0 /\ Spread = 0
  BY DEF Init, Free, Spread, fees_outstanding, SatSub
<1> QED
  BY <1>1, <1>2 DEF Escrow!Init

\* Every behaviour of the program, seen as stages, held money, free money and
\* spread, is a behaviour of the escrow agent of OrderEscrow.
THEOREM ImplementsEscrow == Spec => EscrowSpec
<1>1. Spec => Escrow!Init /\ [][Escrow!Next]_(Escrow!vars)
  BY InductiveInvariant, InitRefines, StepRefines, PTL DEF Spec
<1> QED
  BY <1>1 DEF EscrowSpec, Escrow!Spec

=============================================================================
