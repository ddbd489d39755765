-------------------------- MODULE MarcoFuturesProofs --------------------------
(***************************************************************************)
(* What holds of a futures market for every number of traders, every set   *)
(* of parameters create_market accepts and every order of calls.           *)
(***************************************************************************)
EXTENDS MarcoFutures, SumTheorems

-----------------------------------------------------------------------------
(* The sums of the positions when one of them changes.                     *)

\* What a position counts for in the books.
LongOf(p)  == IF p.base_size > 0 THEN p.open_notional ELSE 0
ShortOf(p) == IF p.base_size < 0 THEN p.open_notional ELSE 0
OpenOf(p)  == IF is_flat(p) THEN 0 ELSE 1

LEMMA FiniteTraders == IsFiniteSet(Traders)
BY FuturesAssumption

\* One trader's term of a sum over the traders changes it by as much.
LEMMA TermChange ==
  \A f, g \in [Traders -> Int] : \A t \in Traders :
     (\A u \in Traders : u # t => g[u] = f[u])
       => /\ SumFunction(f) \in Int
          /\ SumFunction(g) = SumFunction(f) + g[t] - f[t]
<1> TAKE f, g \in [Traders -> Int]
<1> TAKE t \in Traders
<1> QED
  BY FiniteTraders, SumChange

LEMMA CountsNat ==
  ASSUME NEW p \in Position
  PROVE  /\ p.margin \in Nat /\ p.open_notional \in Nat
         /\ p.base_size \in Int /\ p.realized_pnl \in Int
         /\ LongOf(p) \in Nat /\ ShortOf(p) \in Nat /\ OpenOf(p) \in Nat
BY DEF Position, LongOf, ShortOf, OpenOf

LEMMA SumsChange ==
  ASSUME position \in [Traders -> Position], NEW t \in Traders, NEW q \in Position,
         position' = [position EXCEPT ![t] = q]
  PROVE  LET p == position[t]
         IN  /\ Margins \in Int /\ Margins' = Margins + q.margin - p.margin
             /\ Gains \in Int /\ Gains' = Gains + q.realized_pnl - p.realized_pnl
             /\ BaseHeld \in Int /\ BaseHeld' = BaseHeld + q.base_size - p.base_size
             /\ Longs \in Int /\ Longs' = Longs + LongOf(q) - LongOf(p)
             /\ Shorts \in Int /\ Shorts' = Shorts + ShortOf(q) - ShortOf(p)
             /\ OpenCount \in Int /\ OpenCount' = OpenCount + OpenOf(q) - OpenOf(p)
<1>1. \A u \in Traders : position[u] \in Position /\ position'[u] \in Position
  OBVIOUS
<1>2. position'[t] = q /\ \A u \in Traders : u # t => position'[u] = position[u]
  OBVIOUS
<1>3. Margins \in Int /\ Margins' = Margins + q.margin - position[t].margin
  <2> DEFINE f == [u \in Traders |-> position[u].margin]
             g == [u \in Traders |-> position'[u].margin]
  <2>1. f \in [Traders -> Int] /\ g \in [Traders -> Int]
    BY <1>1, CountsNat
  <2>2. Margins = SumFunction(f) /\ Margins' = SumFunction(g)
    BY DEF Margins
  <2>3. g[t] = q.margin /\ f[t] = position[t].margin /\ \A u \in Traders : u # t => g[u] = f[u]
    BY <1>2
  <2> HIDE DEF f, g
  <2>4. SumFunction(f) \in Int /\ SumFunction(g) = SumFunction(f) + g[t] - f[t]
    BY <2>1, <2>3, TermChange
  <2> QED
    BY <2>2, <2>3, <2>4
<1>4. Gains \in Int /\ Gains' = Gains + q.realized_pnl - position[t].realized_pnl
  <2> DEFINE f == [u \in Traders |-> position[u].realized_pnl]
             g == [u \in Traders |-> position'[u].realized_pnl]
  <2>1. f \in [Traders -> Int] /\ g \in [Traders -> Int]
    BY <1>1, CountsNat
  <2>2. Gains = SumFunction(f) /\ Gains' = SumFunction(g)
    BY DEF Gains
  <2>3. /\ g[t] = q.realized_pnl /\ f[t] = position[t].realized_pnl
        /\ \A u \in Traders : u # t => g[u] = f[u]
    BY <1>2
  <2> HIDE DEF f, g
  <2>4. SumFunction(f) \in Int /\ SumFunction(g) = SumFunction(f) + g[t] - f[t]
    BY <2>1, <2>3, TermChange
  <2> QED
    BY <2>2, <2>3, <2>4
<1>5. BaseHeld \in Int /\ BaseHeld' = BaseHeld + q.base_size - position[t].base_size
  <2> DEFINE f == [u \in Traders |-> position[u].base_size]
             g == [u \in Traders |-> position'[u].base_size]
  <2>1. f \in [Traders -> Int] /\ g \in [Traders -> Int]
    BY <1>1, CountsNat
  <2>2. BaseHeld = SumFunction(f) /\ BaseHeld' = SumFunction(g)
    BY DEF BaseHeld
  <2>3. /\ g[t] = q.base_size /\ f[t] = position[t].base_size
        /\ \A u \in Traders : u # t => g[u] = f[u]
    BY <1>2
  <2> HIDE DEF f, g
  <2>4. SumFunction(f) \in Int /\ SumFunction(g) = SumFunction(f) + g[t] - f[t]
    BY <2>1, <2>3, TermChange
  <2> QED
    BY <2>2, <2>3, <2>4
<1>6. Longs \in Int /\ Longs' = Longs + LongOf(q) - LongOf(position[t])
  <2> DEFINE f == [u \in Traders |-> LongOf(position[u])]
             g == [u \in Traders |-> LongOf(position'[u])]
  <2>1. f \in [Traders -> Int] /\ g \in [Traders -> Int]
    BY <1>1, CountsNat
  <2>2. Longs = SumFunction(f) /\ Longs' = SumFunction(g)
    BY DEF Longs, LongOf
  <2>3. /\ g[t] = LongOf(q) /\ f[t] = LongOf(position[t])
        /\ \A u \in Traders : u # t => g[u] = f[u]
    BY <1>2
  <2> HIDE DEF f, g
  <2>4. SumFunction(f) \in Int /\ SumFunction(g) = SumFunction(f) + g[t] - f[t]
    BY <2>1, <2>3, TermChange
  <2> QED
    BY <2>2, <2>3, <2>4
<1>7. Shorts \in Int /\ Shorts' = Shorts + ShortOf(q) - ShortOf(position[t])
  <2> DEFINE f == [u \in Traders |-> ShortOf(position[u])]
             g == [u \in Traders |-> ShortOf(position'[u])]
  <2>1. f \in [Traders -> Int] /\ g \in [Traders -> Int]
    BY <1>1, CountsNat
  <2>2. Shorts = SumFunction(f) /\ Shorts' = SumFunction(g)
    BY DEF Shorts, ShortOf
  <2>3. /\ g[t] = ShortOf(q) /\ f[t] = ShortOf(position[t])
        /\ \A u \in Traders : u # t => g[u] = f[u]
    BY <1>2
  <2> HIDE DEF f, g
  <2>4. SumFunction(f) \in Int /\ SumFunction(g) = SumFunction(f) + g[t] - f[t]
    BY <2>1, <2>3, TermChange
  <2> QED
    BY <2>2, <2>3, <2>4
<1>8. OpenCount \in Int /\ OpenCount' = OpenCount + OpenOf(q) - OpenOf(position[t])
  <2> DEFINE f == [u \in Traders |-> OpenOf(position[u])]
             g == [u \in Traders |-> OpenOf(position'[u])]
  <2>1. f \in [Traders -> Int] /\ g \in [Traders -> Int]
    BY <1>1, CountsNat
  <2>2. OpenCount = SumFunction(f) /\ OpenCount' = SumFunction(g)
    BY DEF OpenCount, OpenOf, IsOpen
  <2>3. /\ g[t] = OpenOf(q) /\ f[t] = OpenOf(position[t])
        /\ \A u \in Traders : u # t => g[u] = f[u]
    BY <1>2
  <2> HIDE DEF f, g
  <2>4. SumFunction(f) \in Int /\ SumFunction(g) = SumFunction(f) + g[t] - f[t]
    BY <2>1, <2>3, TermChange
  <2> QED
    BY <2>2, <2>3, <2>4
<1> QED
  BY <1>3, <1>4, <1>5, <1>6, <1>7, <1>8

\* What one position counts for is in the books: no subtraction is cut off.
LEMMA BooksCover ==
  ASSUME TypeOK, BooksMatchPositions, NEW t \in Traders
  PROVE  /\ position[t].margin <= market.total_collateral
         /\ LongOf(position[t]) <= market.long_open_notional
         /\ ShortOf(position[t]) <= market.short_open_notional
         /\ OpenOf(position[t]) <= market.position_count
<1>1. \A u \in Traders : position[u] \in Position
  BY DEF TypeOK
<1>2. position[t].margin <= Margins
  <2> DEFINE f == [u \in Traders |-> position[u].margin]
  <2>1. f \in [Traders -> Nat] /\ Margins = SumFunction(f) /\ f[t] = position[t].margin
    BY <1>1, CountsNat DEF Margins
  <2> HIDE DEF f
  <2> QED
    BY <2>1, FiniteTraders, SumCovers
<1>3. LongOf(position[t]) <= Longs
  <2> DEFINE f == [u \in Traders |-> LongOf(position[u])]
  <2>1. f \in [Traders -> Nat] /\ Longs = SumFunction(f) /\ f[t] = LongOf(position[t])
    BY <1>1, CountsNat DEF Longs, LongOf
  <2> HIDE DEF f
  <2> QED
    BY <2>1, FiniteTraders, SumCovers
<1>4. ShortOf(position[t]) <= Shorts
  <2> DEFINE f == [u \in Traders |-> ShortOf(position[u])]
  <2>1. f \in [Traders -> Nat] /\ Shorts = SumFunction(f) /\ f[t] = ShortOf(position[t])
    BY <1>1, CountsNat DEF Shorts, ShortOf
  <2> HIDE DEF f
  <2> QED
    BY <2>1, FiniteTraders, SumCovers
<1>5. OpenOf(position[t]) <= OpenCount
  <2> DEFINE f == [u \in Traders |-> OpenOf(position[u])]
  <2>1. f \in [Traders -> Nat] /\ OpenCount = SumFunction(f) /\ f[t] = OpenOf(position[t])
    BY <1>1, CountsNat DEF OpenCount, OpenOf, IsOpen
  <2> HIDE DEF f
  <2> QED
    BY <2>1, FiniteTraders, SumCovers
<1> QED
  BY <1>2, <1>3, <1>4, <1>5 DEF BooksMatchPositions

-----------------------------------------------------------------------------
(* The arithmetic of prices, fees and parts.                               *)

LEMMA MulInt ==
  ASSUME NEW a \in Int, NEW b \in Int
  PROVE  /\ a * b \in Int /\ a * b = b * a
         /\ a >= 0 /\ b >= 0 => a * b \in Nat
BY SMT

LEMMA DivNat ==
  ASSUME NEW a \in Nat, NEW b \in Nat, b > 0
  PROVE  a \div b \in Nat /\ b * (a \div b) <= a
BY SMT

LEMMA MulCancel ==
  ASSUME NEW a \in Int, NEW b \in Int, NEW c \in Nat, c > 0, c * a <= c * b
  PROVE  a <= b
BY SMT

LEMMA MulMono ==
  ASSUME NEW a \in Nat, NEW b \in Int, NEW c \in Int, b <= c
  PROVE  a * b <= a * c
BY SMT

LEMMA MulDiv ==
  ASSUME NEW a \in Nat, NEW b \in Nat, b > 0
  PROVE  (a * b) \div b = a
BY SMT

\* The cost of a part of a position is a part of its cost.
LEMMA PartOf ==
  ASSUME NEW a \in Nat, NEW n \in Nat, NEW b \in Nat, b > 0, n <= b
  PROVE  /\ (a * n) \div b \in Nat /\ (a * n) \div b <= a
         /\ n = b => (a * n) \div b = a
<1> DEFINE c == (a * n) \div b
<1>1. a * n \in Nat
  BY MulInt
<1>2. c \in Nat /\ b * c <= a * n
  BY <1>1, DivNat
<1> HIDE DEF c
<1>3. a * n <= a * b /\ a * b = b * a /\ a * b \in Int /\ b * c \in Int
  BY <1>2, MulMono, MulInt
<1>4. c <= a
  BY <1>1, <1>2, <1>3, MulCancel
<1>5. n = b => c = a
  BY MulDiv DEF c
<1> QED
  BY <1>2, <1>4, <1>5 DEF c

LEMMA FeeNat ==
  ASSUME NEW n \in Nat, NEW bps \in Nat
  PROVE  fee_on(n, bps) \in Nat
<1>1. n * bps \in Nat
  BY MulInt
<1> QED
  BY <1>1, DivNat DEF fee_on, BPS_DENOMINATOR

LEMMA PriceNat ==
  ASSUME NEW quote \in Nat, NEW base \in Nat, base > 0
  PROVE  Price(quote, base) \in Nat
<1>1. quote * PRICE_PRECISION \in Nat
  BY DEF PRICE_PRECISION
<1> QED
  BY <1>1, DivNat DEF Price

LEMMA BpsNat == TakerFeeBps \in Nat /\ LiquidationFeeBps \in Nat
BY FuturesAssumption

LEMMA SatSubNat ==
  ASSUME NEW a \in Nat, NEW b \in Nat
  PROVE  SatSub(a, b) \in Nat /\ (b <= a => SatSub(a, b) = a - b)
BY DEF SatSub

LEMMA ClampedNat ==
  ASSUME NEW owed \in Nat, NEW available \in Nat
  PROVE  /\ Clamped(owed, available) \in Nat
         /\ Clamped(owed, available) <= owed /\ Clamped(owed, available) <= available
BY DEF Clamped, Lesser

LEMMA PositiveNat ==
  ASSUME NEW a \in Int
  PROVE  Positive(a) \in Nat /\ Positive(a) >= a /\ (a >= 0 => Positive(a) = a) /\ (a <= 0 => Positive(a) = 0)
BY DEF Positive

LEMMA GainInt ==
  ASSUME NEW side, NEW value \in Int, NEW cost \in Int
  PROVE  Gain(side, value, cost) \in Int
BY DEF Gain

LEMMA PositionValues ==
  ASSUME NEW p \in Position, NEW price \in Nat
  PROVE  /\ Abs(p.base_size) \in Nat /\ (~is_flat(p) => Abs(p.base_size) > 0)
         /\ notional_at(p, price) \in Nat
         /\ unrealized_pnl(p, price) \in Int
         /\ equity(p, price) \in Int
<1>1. Abs(p.base_size) \in Nat /\ (~is_flat(p) => Abs(p.base_size) > 0)
  BY CountsNat DEF Abs, is_flat
<1>2. Abs(p.base_size) * price \in Nat
  BY <1>1, MulInt
<1>3. notional_at(p, price) \in Nat
  BY <1>2, DivNat DEF notional_at, PRICE_PRECISION
<1>4. unrealized_pnl(p, price) \in Int
  BY <1>3, CountsNat, GainInt DEF unrealized_pnl
<1>5. equity(p, price) \in Int
  BY <1>4, CountsNat DEF equity
<1> QED
  BY <1>1, <1>3, <1>4, <1>5

\* What a trader may withdraw is in the margin.
LEMMA WithdrawableInMargin ==
  ASSUME TypeOK, NEW p \in Position
  PROVE  Withdrawable(p) \in Nat /\ Withdrawable(p) <= p.margin
<1>1. mark_price \in Nat
  BY PriceNat DEF TypeOK, Market, mark_price
<1>2. notional_at(p, mark_price) \in Nat /\ equity(p, mark_price) \in Int
  BY <1>1, PositionValues
<1>3. MaxLeverage \in Nat /\ MaxLeverage > 0
  BY FuturesAssumption DEF MAX_LEVERAGE_CAP
<1>4. InitialMargin(p) \in Nat
  BY <1>2, <1>3, DivNat DEF InitialMargin
<1>5. Positive(equity(p, mark_price) - InitialMargin(p)) \in Nat
  BY <1>2, <1>4, PositiveNat
<1> QED
  BY <1>5, CountsNat DEF Withdrawable, Lesser

-----------------------------------------------------------------------------
(* The pool and the books when a position changes.                         *)

LEMMA DivLower ==
  ASSUME NEW a \in Nat, NEW b \in Nat, b > 0, NEW c \in Nat, b * c <= a
  PROVE  c <= a \div b
<1> DEFINE d == a \div b
<1>1. d \in Nat /\ a < b * d + b
  BY SMT
<1> HIDE DEF d
<1>2. b * (d + 1) = b * d + b /\ b * c \in Int /\ b * (d + 1) \in Int
  BY <1>1, SMT
<1>3. c < d + 1
  <2>1. SUFFICES ASSUME d + 1 <= c
                 PROVE  FALSE
    BY <1>1
  <2>2. b * (d + 1) <= b * c
    BY <1>1, <2>1, MulMono
  <2> QED
    BY <1>1, <1>2, <2>2
<1> QED
  BY <1>1, <1>3 DEF d

\* Base sold back: the base moves as asked, the quote moves the other way.
LEMMA CloseMovesPool ==
  ASSUME TypeOK, NEW side \in {"Long", "Short"}, NEW b \in Nat,
         side = "Short" => b < market.base_reserve
  PROVE  LET pool == quote_close(side, b)
         IN  /\ pool.base_reserve \in Nat /\ pool.base_reserve > 0
             /\ pool.quote_reserve \in Nat
             /\ side = "Long" => /\ pool.base_reserve = market.base_reserve + b
                                 /\ pool.quote_reserve <= market.quote_reserve
             /\ side = "Short" => /\ pool.base_reserve = market.base_reserve - b
                                  /\ pool.quote_reserve >= market.quote_reserve
<1> DEFINE x == market.base_reserve
           y == market.quote_reserve
           base == IF side = "Long" THEN x + b ELSE x - b
<1>1. x \in Nat /\ x > 0 /\ y \in Nat
  BY DEF TypeOK, Market
<1>2. base \in Nat /\ base > 0
  BY <1>1
<1>3. x * y \in Nat /\ k = x * y
  BY <1>1, MulInt DEF k
<1>4. /\ quote_close(side, b).base_reserve = base
      /\ quote_close(side, b).quote_reserve = (x * y) \div base
  BY <1>3 DEF quote_close
<1>5. (x * y) \div base \in Nat /\ base * ((x * y) \div base) <= x * y
  BY <1>2, <1>3, DivNat
<1>6. ASSUME side = "Long"
      PROVE  (x * y) \div base <= y
  <2> DEFINE d == (x * y) \div base
  <2> HIDE DEF d, x, y
  <2>1. x <= base
    BY <1>1, <1>6
  <2>2. y * x <= y * base /\ y * x = x * y /\ y * base = base * y
    BY <1>1, <1>2, <2>1, MulMono, MulInt
  <2>3. base * d \in Int /\ base * y \in Int /\ d \in Int
    BY <1>1, <1>2, <1>5, MulInt DEF d
  <2>4. base * d <= base * y
    BY <1>3, <1>5, <2>2, <2>3 DEF d
  <2> QED
    BY <1>1, <1>2, <2>3, <2>4, MulCancel DEF d
<1>7. ASSUME side = "Short"
      PROVE  (x * y) \div base >= y
  <2> HIDE DEF x, y
  <2>1. base <= x
    BY <1>1, <1>7
  <2>2. y * base <= y * x /\ y * x = x * y /\ y * base = base * y
    BY <1>1, <1>2, <2>1, MulMono, MulInt
  <2>3. base * y <= x * y
    BY <2>2
  <2> QED
    BY <1>1, <1>2, <1>3, <1>5, <2>3, DivLower
<1> QED
  BY <1>2, <1>4, <1>5, <1>6, <1>7

LEMMA OpenInterestFields ==
  ASSUME NEW m \in Market, NEW side, NEW long \in Nat, NEW short \in Nat
  PROVE  LET o == OpenInterest(m, side, long, short)
         IN  /\ o \in Market
             /\ o.status = m.status /\ o.settlement_price = m.settlement_price
             /\ o.base_reserve = m.base_reserve /\ o.quote_reserve = m.quote_reserve
             /\ o.total_collateral = m.total_collateral
             /\ o.position_count = m.position_count
             /\ o.long_open_notional = (IF side = "Long" THEN long ELSE m.long_open_notional)
             /\ o.short_open_notional = (IF side = "Long" THEN m.short_open_notional ELSE short)
BY DEF OpenInterest, Market

\* What is released is taken off the books in full.
LEMMA ReleasedFields ==
  ASSUME NEW m \in Market, NEW side, NEW cost \in Nat, NEW old \in Nat, NEW new \in Nat,
         NEW gone \in BOOLEAN,
         cost <= (IF side = "Long" THEN m.long_open_notional ELSE m.short_open_notional),
         old <= m.total_collateral, gone => m.position_count >= 1
  PROVE  LET r == Released(m, side, cost, old, new, gone)
         IN  /\ r \in Market
             /\ r.status = m.status /\ r.settlement_price = m.settlement_price
             /\ r.base_reserve = m.base_reserve /\ r.quote_reserve = m.quote_reserve
             /\ r.total_collateral = m.total_collateral - old + new
             /\ r.position_count = m.position_count - (IF gone THEN 1 ELSE 0)
             /\ r.long_open_notional = m.long_open_notional - (IF side = "Long" THEN cost ELSE 0)
             /\ r.short_open_notional = m.short_open_notional - (IF side = "Long" THEN 0 ELSE cost)
<1>1. /\ m.long_open_notional \in Nat /\ m.short_open_notional \in Nat
      /\ m.total_collateral \in Nat /\ m.position_count \in Nat
  BY DEF Market
<1> DEFINE long  == SatSub(m.long_open_notional, cost)
           short == SatSub(m.short_open_notional, cost)
           o == OpenInterest(m, side, long, short)
           c == SatSub(m.total_collateral, old) + new
           n == SatSub(m.position_count, IF gone THEN 1 ELSE 0)
<1>2. long \in Nat /\ short \in Nat
  BY <1>1, SatSubNat
<1>3. /\ side = "Long" => long = m.long_open_notional - cost
      /\ side # "Long" => short = m.short_open_notional - cost
  BY <1>1, SatSubNat
<1>4. c \in Nat /\ c = m.total_collateral - old + new
  <2>1. SatSub(m.total_collateral, old) \in Nat /\ SatSub(m.total_collateral, old) = m.total_collateral - old
    BY <1>1, SatSubNat
  <2> QED
    BY <1>1, <2>1
<1>5. n \in Nat /\ n = m.position_count - (IF gone THEN 1 ELSE 0)
  <2>1. (IF gone THEN 1 ELSE 0) \in Nat /\ (IF gone THEN 1 ELSE 0) <= m.position_count
    BY <1>1
  <2> QED
    BY <1>1, <2>1, SatSubNat
<1>6. Released(m, side, cost, old, new, gone) =
        [o EXCEPT !.total_collateral = c, !.position_count = n]
  <2>1. o.total_collateral = m.total_collateral /\ o.position_count = m.position_count
    BY <1>2, OpenInterestFields
  <2> QED
    BY <2>1 DEF Released
<1> HIDE DEF long, short, c, n
<1>7. /\ o \in Market
      /\ o.status = m.status /\ o.settlement_price = m.settlement_price
      /\ o.base_reserve = m.base_reserve /\ o.quote_reserve = m.quote_reserve
      /\ o.long_open_notional = (IF side = "Long" THEN long ELSE m.long_open_notional)
      /\ o.short_open_notional = (IF side = "Long" THEN m.short_open_notional ELSE short)
  BY <1>2, OpenInterestFields
<1> HIDE DEF o
<1> DEFINE r == [o EXCEPT !.total_collateral = c, !.position_count = n]
<1>8. /\ r \in Market
      /\ r.total_collateral = c /\ r.position_count = n
      /\ r.status = o.status /\ r.settlement_price = o.settlement_price
      /\ r.base_reserve = o.base_reserve /\ r.quote_reserve = o.quote_reserve
      /\ r.long_open_notional = o.long_open_notional
      /\ r.short_open_notional = o.short_open_notional
  BY <1>4, <1>5, <1>7 DEF Market
<1> HIDE DEF r
<1>9. /\ r.long_open_notional = m.long_open_notional - (IF side = "Long" THEN cost ELSE 0)
      /\ r.short_open_notional = m.short_open_notional - (IF side = "Long" THEN 0 ELSE cost)
  BY <1>1, <1>3, <1>7, <1>8
<1>10. Released(m, side, cost, old, new, gone) = r
  BY <1>6 DEF r
<1> QED
  BY <1>4, <1>5, <1>7, <1>8, <1>9, <1>10

-----------------------------------------------------------------------------
(* The invariant, and what a trader's step does to it.                     *)

\* A position without size has no cost.
FlatClean == \A t \in Traders : is_flat(position[t]) => position[t].open_notional = 0

\* The books match the positions, so no saturating subtraction cuts anything
\* off, so the pool stays a closed circuit.
IInv == TypeOK /\ FlatClean /\ BooksMatchPositions /\ PoolBalanced

\* The position of t becomes q, and the books follow.
Moved(t, q) ==
  /\ q \in Position
  /\ is_flat(q) => q.open_notional = 0
  /\ position' = [position EXCEPT ![t] = q]
  /\ market' \in Market /\ market'.base_reserve > 0 /\ market'.status = market.status
  /\ collateral_vault' \in Nat /\ insurance_vault' \in Nat /\ opens' \in Nat
  /\ config' = config
  /\ market'.total_collateral = market.total_collateral + q.margin - position[t].margin
  /\ market'.long_open_notional = market.long_open_notional + LongOf(q) - LongOf(position[t])
  /\ market'.short_open_notional = market.short_open_notional + ShortOf(q) - ShortOf(position[t])
  /\ market'.position_count = market.position_count + OpenOf(q) - OpenOf(position[t])

\* What leaves the pool is in the position, and the reverse.
Circuit(t, q) ==
  /\ market'.base_reserve + q.base_size = market.base_reserve + position[t].base_size
  /\ market'.quote_reserve =
        market.quote_reserve + (LongOf(q) - LongOf(position[t]))
          - (ShortOf(q) - ShortOf(position[t])) - (q.realized_pnl - position[t].realized_pnl)

\* What the step takes from the pooled margin is what t is debited, but for the
\* residue of a position that does not cover its loss.
Shortfall(t, q) ==
  (collateral_vault' - collateral_vault) + (position[t].margin - q.margin)
     + (q.realized_pnl - position[t].realized_pnl)

Fair(t, q) ==
  \/ Shortfall(t, q) >= 0
  \/ /\ ~is_flat(position[t])
     /\ Shortfall(t, q) >= position[t].margin + (q.realized_pnl - position[t].realized_pnl) - Charge

LEMMA MovedKeeps ==
  ASSUME IInv, NEW t \in Traders, NEW q, Moved(t, q), InStatus({"Settled"}) \/ Circuit(t, q)
  PROVE  IInv'
<1>1. position \in [Traders -> Position] /\ q \in Position /\ position' = [position EXCEPT ![t] = q]
  BY DEF IInv, TypeOK, Moved
<1> DEFINE p == position[t]
<1>2. p \in Position
  BY <1>1
<1>3. /\ Margins \in Int /\ Margins' = Margins + q.margin - p.margin
      /\ Gains \in Int /\ Gains' = Gains + q.realized_pnl - p.realized_pnl
      /\ BaseHeld \in Int /\ BaseHeld' = BaseHeld + q.base_size - p.base_size
      /\ Longs \in Int /\ Longs' = Longs + LongOf(q) - LongOf(p)
      /\ Shorts \in Int /\ Shorts' = Shorts + ShortOf(q) - ShortOf(p)
      /\ OpenCount \in Int /\ OpenCount' = OpenCount + OpenOf(q) - OpenOf(p)
  BY <1>1, SumsChange
<1>4. TypeOK'
  BY <1>1 DEF IInv, TypeOK, Moved
<1>5. FlatClean'
  BY <1>1 DEF IInv, FlatClean, Moved
<1>6. BooksMatchPositions'
  BY <1>3 DEF IInv, BooksMatchPositions, Moved
<1>7. PoolBalanced'
  <2> SUFFICES ASSUME ~InStatus({"Settled"})'
               PROVE  /\ market'.base_reserve + BaseHeld' = BaseReserve
                      /\ market'.quote_reserve = QuoteReserve + market'.long_open_notional
                                                  - market'.short_open_notional - Gains'
    BY DEF PoolBalanced
  <2>1. ~InStatus({"Settled"})
    BY DEF Moved, InStatus
  <2>2. /\ market.base_reserve + BaseHeld = BaseReserve
        /\ market.quote_reserve =
              QuoteReserve + market.long_open_notional - market.short_open_notional - Gains
    BY <2>1 DEF IInv, PoolBalanced
  <2>3. /\ market'.base_reserve + q.base_size = market.base_reserve + p.base_size
        /\ market'.quote_reserve =
              market.quote_reserve + (LongOf(q) - LongOf(p))
                - (ShortOf(q) - ShortOf(p)) - (q.realized_pnl - p.realized_pnl)
    BY <2>1 DEF Circuit
  <2>4. /\ market'.long_open_notional = market.long_open_notional + LongOf(q) - LongOf(p)
        /\ market'.short_open_notional = market.short_open_notional + ShortOf(q) - ShortOf(p)
    BY DEF Moved
  <2>5. /\ market.base_reserve \in Int /\ market.quote_reserve \in Int
        /\ market'.base_reserve \in Int /\ market'.quote_reserve \in Int
        /\ market.long_open_notional \in Int /\ market.short_open_notional \in Int
        /\ QuoteReserve \in Int
    BY <1>4, FuturesAssumption DEF IInv, TypeOK, Market
  <2>6. /\ p.base_size \in Int /\ p.realized_pnl \in Int
        /\ LongOf(p) \in Int /\ ShortOf(p) \in Int
        /\ q.base_size \in Int /\ q.realized_pnl \in Int
        /\ LongOf(q) \in Int /\ ShortOf(q) \in Int
    BY <1>1, <1>2, CountsNat
  <2> HIDE DEF p
  <2>7. market'.base_reserve + BaseHeld' = BaseReserve
    <3>1. market'.base_reserve = market.base_reserve + p.base_size - q.base_size
      BY <2>3, <2>5, <2>6
    <3>2. market'.base_reserve + BaseHeld' = market.base_reserve + BaseHeld
      BY <1>3, <2>5, <2>6, <3>1
    <3> QED
      BY <2>2, <3>2
  <2>8. market'.quote_reserve = QuoteReserve + market'.long_open_notional
                                - market'.short_open_notional - Gains'
    BY <1>3, <2>2, <2>3, <2>4, <2>5, <2>6
  <2> QED
    BY <2>7, <2>8
<1> QED
  BY <1>4, <1>5, <1>6, <1>7 DEF IInv

\* The action of OnlyBankruptciesCost.
OnlyBankruptcies ==
  \/ Surplus' >= Surplus
  \/ \E t \in Traders : IsOpen(t) /\ Surplus' - Surplus >= Residue(t)

LEMMA MovedCosts ==
  ASSUME IInv, NEW t \in Traders, NEW q, Moved(t, q), Fair(t, q)
  PROVE  OnlyBankruptcies
<1>1. position \in [Traders -> Position] /\ q \in Position /\ position' = [position EXCEPT ![t] = q]
  BY DEF IInv, TypeOK, Moved
<1> DEFINE p == position[t]
<1>2. p \in Position /\ position'[t] = q
  BY <1>1
<1>3. Gains \in Int /\ Gains' = Gains + q.realized_pnl - p.realized_pnl
  BY <1>1, SumsChange
<1>4. market'.total_collateral = market.total_collateral + q.margin - p.margin
  BY DEF Moved
<1>5. /\ market.total_collateral \in Int /\ collateral_vault \in Int /\ collateral_vault' \in Int
      /\ p.margin \in Int /\ q.margin \in Int /\ p.realized_pnl \in Int /\ q.realized_pnl \in Int
  BY <1>1, <1>2, CountsNat DEF IInv, TypeOK, Market, Moved
<1>6. Surplus \in Int /\ Surplus' \in Int /\ Surplus' - Surplus = Shortfall(t, q)
  BY <1>3, <1>4, <1>5 DEF Surplus, Shortfall
<1>7. CASE Shortfall(t, q) >= 0
  BY <1>6, <1>7 DEF OnlyBankruptcies
<1>8. CASE /\ ~is_flat(p)
           /\ Shortfall(t, q) >= p.margin + (q.realized_pnl - p.realized_pnl) - Charge
  <2>1. IsOpen(t) /\ Residue(t) = p.margin + (q.realized_pnl - p.realized_pnl) - Charge
    BY <1>2, <1>8 DEF IsOpen, Residue, GainOf
  <2> QED
    BY <1>6, <1>8, <2>1 DEF OnlyBankruptcies
<1> QED
  BY <1>7, <1>8 DEF Fair

-----------------------------------------------------------------------------
(* What is known when a trader acts.                                       *)

LEMMA Known ==
  ASSUME IInv, NEW t \in Traders
  PROVE  LET p == position[t]
         IN  /\ p \in Position
             /\ p.margin \in Nat /\ p.open_notional \in Nat
             /\ p.base_size \in Int /\ p.realized_pnl \in Int
             /\ is_flat(p) => p.open_notional = 0
             /\ p.margin <= market.total_collateral
             /\ LongOf(p) <= market.long_open_notional
             /\ ShortOf(p) <= market.short_open_notional
             /\ OpenOf(p) <= market.position_count
             /\ market \in Market /\ market.base_reserve > 0
             /\ collateral_vault \in Nat /\ insurance_vault \in Nat /\ opens \in Nat
             /\ position \in [Traders -> Position]
<1>1. position \in [Traders -> Position] /\ position[t] \in Position
  BY DEF IInv, TypeOK
<1> QED
  BY <1>1, CountsNat, BooksCover DEF IInv, TypeOK, FlatClean

LEMMA MarketNats ==
  ASSUME NEW m \in Market
  PROVE  /\ m.base_reserve \in Nat /\ m.quote_reserve \in Nat
         /\ m.long_open_notional \in Nat /\ m.short_open_notional \in Nat
         /\ m.total_collateral \in Nat /\ m.position_count \in Nat
         /\ m.settlement_price \in Nat
BY DEF Market

LEMMA DepositStep ==
  ASSUME IInv, NEW t \in Traders, NEW amount \in Nat, deposit_collateral(t, amount)
  PROVE  \E q : Moved(t, q) /\ Circuit(t, q) /\ Fair(t, q)
<1> DEFINE p == position[t]
           q == [p EXCEPT !.margin = @ + amount]
<1>1. /\ p \in Position /\ p.margin \in Nat /\ p.open_notional \in Nat
      /\ p.base_size \in Int /\ p.realized_pnl \in Int
      /\ is_flat(p) => p.open_notional = 0
      /\ market \in Market /\ market.base_reserve > 0
      /\ collateral_vault \in Nat /\ insurance_vault \in Nat /\ opens \in Nat
      /\ position \in [Traders -> Position]
  BY Known
<1>2. p.margin + amount \in Nat /\ market.total_collateral + amount \in Nat
  BY <1>1, MarketNats
<1>3. /\ q \in Position /\ q.margin = p.margin + amount
      /\ q.base_size = p.base_size /\ q.open_notional = p.open_notional
      /\ q.realized_pnl = p.realized_pnl
  BY <1>1, <1>2 DEF Position
<1>4. position' = [position EXCEPT ![t] = q]
  BY DEF deposit_collateral
<1>5. /\ collateral_vault' = collateral_vault + amount
      /\ market' = [market EXCEPT !.total_collateral = @ + amount]
      /\ config' = config /\ insurance_vault' = insurance_vault /\ opens' = opens
  BY DEF deposit_collateral
<1> HIDE DEF q, p
<1>6. /\ market' \in Market /\ market'.status = market.status
      /\ market'.base_reserve = market.base_reserve
      /\ market'.quote_reserve = market.quote_reserve
      /\ market'.total_collateral = market.total_collateral + amount
      /\ market'.long_open_notional = market.long_open_notional
      /\ market'.short_open_notional = market.short_open_notional
      /\ market'.position_count = market.position_count
  BY <1>1, <1>2, <1>5 DEF Market
<1>7. LongOf(q) = LongOf(p) /\ ShortOf(q) = ShortOf(p) /\ OpenOf(q) = OpenOf(p)
  BY <1>3 DEF LongOf, ShortOf, OpenOf, is_flat
<1>8. LongOf(p) \in Nat /\ ShortOf(p) \in Nat /\ OpenOf(p) \in Nat
  BY <1>1, CountsNat
<1>9. Moved(t, q)
  BY <1>1, <1>3, <1>4, <1>5, <1>6, <1>7, <1>8, MarketNats DEF Moved, p, is_flat
<1>10. Circuit(t, q)
  BY <1>1, <1>3, <1>6, <1>7, <1>8, MarketNats DEF Circuit, p
<1>11. Fair(t, q)
  BY <1>1, <1>3, <1>5 DEF Fair, Shortfall, p
<1> QED
  BY <1>9, <1>10, <1>11

LEMMA WithdrawStep ==
  ASSUME IInv, NEW t \in Traders, NEW amount \in Nat, withdraw_collateral(t, amount)
  PROVE  \E q : Moved(t, q) /\ Circuit(t, q) /\ Fair(t, q)
<1> DEFINE p == position[t]
           payout == Clamped(amount, collateral_vault)
           q == [p EXCEPT !.margin = @ - payout]
<1>1. /\ p \in Position /\ p.margin \in Nat /\ p.open_notional \in Nat
      /\ p.base_size \in Int /\ p.realized_pnl \in Int
      /\ is_flat(p) => p.open_notional = 0
      /\ p.margin <= market.total_collateral
      /\ market \in Market /\ market.base_reserve > 0
      /\ collateral_vault \in Nat /\ insurance_vault \in Nat /\ opens \in Nat
      /\ position \in [Traders -> Position]
  BY Known
<1>2. payout \in Nat /\ payout <= collateral_vault /\ payout <= p.margin
  <2>1. payout \in Nat /\ payout <= collateral_vault /\ payout <= amount
    BY <1>1, ClampedNat
  <2>2. Withdrawable(p) \in Nat /\ Withdrawable(p) <= p.margin
    BY <1>1, WithdrawableInMargin DEF IInv
  <2>3. amount <= Withdrawable(p)
    BY DEF withdraw_collateral
  <2> QED
    BY <1>1, <2>1, <2>2, <2>3
<1>3. position' = [position EXCEPT ![t] = q]
  BY DEF withdraw_collateral
<1>4. /\ collateral_vault' = collateral_vault - payout
      /\ market' = [market EXCEPT !.total_collateral = SatSub(@, payout)]
      /\ config' = config /\ insurance_vault' = insurance_vault /\ opens' = opens
  BY DEF withdraw_collateral
<1> HIDE DEF payout
<1>5. p.margin - payout \in Nat /\ collateral_vault' \in Nat
  BY <1>1, <1>2, <1>4
<1>6. /\ q \in Position /\ q.margin = p.margin - payout
      /\ q.base_size = p.base_size /\ q.open_notional = p.open_notional
      /\ q.realized_pnl = p.realized_pnl
  BY <1>1, <1>5 DEF Position
<1> HIDE DEF q, p
<1>7. /\ SatSub(market.total_collateral, payout) \in Nat
      /\ SatSub(market.total_collateral, payout) = market.total_collateral - payout
  <2>1. market.total_collateral \in Nat
    BY <1>1, MarketNats
  <2>2. payout <= market.total_collateral
    BY <1>1, <1>2, <2>1
  <2> QED
    BY <1>2, <2>1, <2>2, SatSubNat
<1>8. /\ market' \in Market /\ market'.status = market.status
      /\ market'.base_reserve = market.base_reserve
      /\ market'.quote_reserve = market.quote_reserve
      /\ market'.total_collateral = market.total_collateral - payout
      /\ market'.long_open_notional = market.long_open_notional
      /\ market'.short_open_notional = market.short_open_notional
      /\ market'.position_count = market.position_count
  BY <1>1, <1>4, <1>7 DEF Market
<1>9. LongOf(q) = LongOf(p) /\ ShortOf(q) = ShortOf(p) /\ OpenOf(q) = OpenOf(p)
  BY <1>6 DEF LongOf, ShortOf, OpenOf, is_flat
<1>10. LongOf(p) \in Nat /\ ShortOf(p) \in Nat /\ OpenOf(p) \in Nat
  BY <1>1, CountsNat
<1>11. Moved(t, q)
  BY <1>1, <1>2, <1>3, <1>4, <1>5, <1>6, <1>8, <1>9, <1>10, MarketNats DEF Moved, p, is_flat
<1>12. Circuit(t, q)
  BY <1>1, <1>6, <1>8, <1>9, <1>10, MarketNats DEF Circuit, p
<1>13. Fair(t, q)
  BY <1>1, <1>2, <1>4, <1>6 DEF Fair, Shortfall, p
<1> QED
  BY <1>11, <1>12, <1>13

LEMMA OpenStep ==
  ASSUME IInv, NEW t \in Traders, NEW side \in {"Long", "Short"}, NEW notional \in Nat,
         NEW limit, open_position(t, side, notional, limit)
  PROVE  \E q : Moved(t, q) /\ Circuit(t, q) /\ Fair(t, q)
<1> DEFINE p     == position[t]
           fee   == fee_on(notional, TakerFeeBps)
           pool  == quote_open(side, notional)
           delta == market.base_reserve - pool.base_reserve
           q     == [p EXCEPT !.margin = @ - fee, !.base_size = @ + delta,
                              !.open_notional = @ + notional]
           one   == IF is_flat(p) THEN 1 ELSE 0
           m     == OpenInterest(market, side, market.long_open_notional + notional,
                                 market.short_open_notional + notional)
<1>1. /\ p \in Position /\ p.margin \in Nat /\ p.open_notional \in Nat
      /\ p.base_size \in Int /\ p.realized_pnl \in Int
      /\ is_flat(p) => p.open_notional = 0
      /\ p.margin <= market.total_collateral
      /\ market \in Market /\ market.base_reserve > 0
      /\ collateral_vault \in Nat /\ insurance_vault \in Nat /\ opens \in Nat
      /\ position \in [Traders -> Position]
  BY Known
<1>2. /\ notional > 0
      /\ is_flat(p) \/ side_of(p) = side
      /\ p.margin > fee
      /\ side = "Short" => notional < market.quote_reserve
      /\ IF side = "Long" THEN delta > 0 ELSE delta < 0
      /\ pool.base_reserve > 0
      /\ fee <= collateral_vault
  BY DEF open_position
<1>3. /\ collateral_vault' = collateral_vault - fee
      /\ insurance_vault' = insurance_vault + fee
      /\ opens' = opens + 1 /\ config' = config
      /\ market' = [m EXCEPT !.base_reserve = pool.base_reserve,
                             !.quote_reserve = pool.quote_reserve,
                             !.total_collateral = SatSub(@, fee),
                             !.position_count = @ + one]
      /\ position' = [position EXCEPT ![t] = q]
  BY DEF open_position
<1>4. fee \in Nat
  BY BpsNat, FeeNat
<1>5. /\ pool.quote_reserve \in Nat /\ pool.base_reserve \in Nat /\ delta \in Int
      /\ pool.quote_reserve = market.quote_reserve + (IF side = "Long" THEN notional ELSE -notional)
  <2> DEFINE quote == IF side = "Long" THEN market.quote_reserve + notional
                      ELSE market.quote_reserve - notional
  <2>1. quote \in Nat /\ quote > 0 /\ market.base_reserve \in Nat /\ market.quote_reserve \in Nat
    BY <1>1, <1>2, MarketNats
  <2>2. k \in Nat
    BY <2>1, MulInt DEF k
  <2>3. pool.quote_reserve = quote /\ pool.base_reserve = k \div quote
    BY DEF quote_open
  <2>4. k \div quote \in Nat
    BY <2>1, <2>2, DivNat
  <2> QED
    BY <2>1, <2>3, <2>4
<1>6. /\ q \in Position /\ q.margin = p.margin - fee /\ q.base_size = p.base_size + delta
      /\ q.open_notional = p.open_notional + notional /\ q.realized_pnl = p.realized_pnl
  <2> HIDE DEF fee, delta
  <2>1. p.margin - fee \in Nat /\ p.base_size + delta \in Int /\ p.open_notional + notional \in Nat
    BY <1>1, <1>2, <1>4, <1>5
  <2> QED
    BY <1>1, <2>1 DEF Position
<1> HIDE DEF q, p, fee, pool, delta
<1>7. /\ side = "Long" => p.base_size >= 0 /\ q.base_size > 0
      /\ side = "Short" => p.base_size <= 0 /\ q.base_size < 0
  BY <1>1, <1>2, <1>5, <1>6 DEF side_of, is_flat
<1>8. /\ LongOf(p) \in Nat /\ ShortOf(p) \in Nat /\ OpenOf(p) \in Nat
      /\ LongOf(q) = LongOf(p) + (IF side = "Long" THEN notional ELSE 0)
      /\ ShortOf(q) = ShortOf(p) + (IF side = "Long" THEN 0 ELSE notional)
      /\ OpenOf(q) = OpenOf(p) + one
      /\ ~is_flat(q)
  <2>1. LongOf(p) \in Nat /\ ShortOf(p) \in Nat /\ OpenOf(p) \in Nat
    BY <1>1, CountsNat
  <2>2. ~is_flat(q) /\ OpenOf(q) = OpenOf(p) + one
    BY <1>1, <1>6, <1>7 DEF OpenOf, is_flat
  <2>3. CASE side = "Long"
    <3>1. LongOf(q) = q.open_notional /\ ShortOf(q) = 0 /\ ShortOf(p) = 0
      BY <1>1, <1>6, <1>7, CountsNat, <2>3 DEF LongOf, ShortOf
    <3>2. LongOf(p) = p.open_notional
      BY <1>1, <1>7, <2>3 DEF LongOf, is_flat
    <3> QED
      BY <1>6, <2>1, <2>2, <2>3, <3>1, <3>2
  <2>4. CASE side = "Short"
    <3>1. ShortOf(q) = q.open_notional /\ LongOf(q) = 0 /\ LongOf(p) = 0
      BY <1>1, <1>6, <1>7, CountsNat, <2>4 DEF LongOf, ShortOf
    <3>2. ShortOf(p) = p.open_notional
      BY <1>1, <1>7, <2>4 DEF ShortOf, is_flat
    <3> QED
      BY <1>6, <2>1, <2>2, <2>4, <3>1, <3>2
  <2> QED
    BY <2>3, <2>4
<1>9. /\ m \in Market /\ m.status = market.status
      /\ m.total_collateral = market.total_collateral
      /\ m.position_count = market.position_count
      /\ m.long_open_notional = market.long_open_notional + (IF side = "Long" THEN notional ELSE 0)
      /\ m.short_open_notional = market.short_open_notional + (IF side = "Long" THEN 0 ELSE notional)
  <2>1. /\ market.long_open_notional \in Nat /\ market.short_open_notional \in Nat
        /\ market.long_open_notional + notional \in Nat
        /\ market.short_open_notional + notional \in Nat
    BY <1>1, MarketNats
  <2> QED
    BY <1>1, <2>1, OpenInterestFields
<1>10. /\ SatSub(market.total_collateral, fee) \in Nat
       /\ SatSub(market.total_collateral, fee) = market.total_collateral - fee
       /\ one \in Nat /\ market.position_count + one \in Nat
  <2>1. market.total_collateral \in Nat /\ market.position_count \in Nat
    BY <1>1, MarketNats
  <2>2. fee <= market.total_collateral
    BY <1>1, <1>2, <1>4, <2>1
  <2>3. one \in Nat /\ market.position_count + one \in Nat
    BY <2>1
  <2> HIDE DEF one
  <2> QED
    BY <1>4, <2>1, <2>2, <2>3, SatSubNat
<1> HIDE DEF m, one
<1>11. /\ market' \in Market /\ market'.status = market.status
       /\ market'.base_reserve = pool.base_reserve
       /\ market'.quote_reserve = pool.quote_reserve
       /\ market'.total_collateral = market.total_collateral - fee
       /\ market'.long_open_notional = m.long_open_notional
       /\ market'.short_open_notional = m.short_open_notional
       /\ market'.position_count = market.position_count + one
  BY <1>3, <1>5, <1>9, <1>10 DEF Market
<1>12. collateral_vault' \in Nat /\ insurance_vault' \in Nat /\ opens' \in Nat
  BY <1>1, <1>2, <1>3, <1>4
<1>13. Moved(t, q)
  <2>1. /\ market'.total_collateral = market.total_collateral + q.margin - p.margin
        /\ market'.long_open_notional = market.long_open_notional + LongOf(q) - LongOf(p)
        /\ market'.short_open_notional = market.short_open_notional + ShortOf(q) - ShortOf(p)
        /\ market'.position_count = market.position_count + OpenOf(q) - OpenOf(p)
    BY <1>1, <1>4, <1>6, <1>8, <1>9, <1>10, <1>11, MarketNats
  <2> QED
    BY <1>2, <1>3, <1>6, <1>8, <1>11, <1>12, <2>1 DEF Moved, p
<1>14. Circuit(t, q)
  <2>1. market'.base_reserve + q.base_size = market.base_reserve + p.base_size
    BY <1>1, <1>5, <1>6, <1>11, MarketNats DEF delta
  <2>2. market'.quote_reserve =
          market.quote_reserve + (LongOf(q) - LongOf(p)) - (ShortOf(q) - ShortOf(p))
            - (q.realized_pnl - p.realized_pnl)
    BY <1>1, <1>5, <1>6, <1>8, <1>11, MarketNats
  <2> QED
    BY <2>1, <2>2 DEF Circuit, p
<1>15. Fair(t, q)
  BY <1>1, <1>3, <1>4, <1>6 DEF Fair, Shortfall, p
<1> QED
  BY <1>13, <1>14, <1>15

\* A position of which base is given up, at cost.
LEMMA ReducedCounts ==
  ASSUME NEW p \in Position, NEW q \in Position, ~is_flat(p),
         NEW base \in Nat, base > 0, base <= Abs(p.base_size),
         NEW cost \in Nat, cost <= p.open_notional,
         base = Abs(p.base_size) => cost = p.open_notional,
         q.base_size = (IF side_of(p) = "Long" THEN p.base_size - base ELSE p.base_size + base),
         q.open_notional = p.open_notional - cost
  PROVE  /\ side_of(p) \in {"Long", "Short"} /\ OpenOf(p) = 1
         /\ LongOf(q) = LongOf(p) - (IF side_of(p) = "Long" THEN cost ELSE 0)
         /\ ShortOf(q) = ShortOf(p) - (IF side_of(p) = "Long" THEN 0 ELSE cost)
         /\ OpenOf(q) = 1 - (IF base = Abs(p.base_size) THEN 1 ELSE 0)
         /\ is_flat(q) => q.open_notional = 0
         /\ cost <= (IF side_of(p) = "Long" THEN LongOf(p) ELSE ShortOf(p))
<1>1. /\ p.base_size \in Int /\ p.base_size # 0 /\ p.open_notional \in Nat
      /\ q.base_size \in Int /\ q.open_notional \in Nat
  BY CountsNat DEF is_flat
<1>2. CASE p.base_size > 0
  <2>1. side_of(p) = "Long" /\ Abs(p.base_size) = p.base_size /\ OpenOf(p) = 1
    BY <1>1, <1>2 DEF side_of, Abs, OpenOf, is_flat
  <2>2. LongOf(p) = p.open_notional /\ ShortOf(p) = 0 /\ ShortOf(q) = 0
    BY <1>1, <1>2, <2>1 DEF LongOf, ShortOf
  <2>3. CASE base = p.base_size
    <3>1. q.base_size = 0 /\ cost = p.open_notional /\ q.open_notional = 0
      BY <1>1, <2>1, <2>3
    <3>2. LongOf(q) = 0 /\ OpenOf(q) = 0
      BY <3>1 DEF LongOf, OpenOf, is_flat
    <3> QED
      BY <1>1, <2>1, <2>2, <2>3, <3>1, <3>2
  <2>4. CASE base # p.base_size
    <3>1. q.base_size > 0
      BY <1>1, <2>1, <2>4
    <3>2. LongOf(q) = q.open_notional /\ OpenOf(q) = 1 /\ ~is_flat(q)
      BY <1>1, <3>1 DEF LongOf, OpenOf, is_flat
    <3> QED
      BY <1>1, <2>1, <2>2, <2>4, <3>1, <3>2
  <2> QED
    BY <2>3, <2>4
<1>3. CASE p.base_size < 0
  <2>1. side_of(p) = "Short" /\ Abs(p.base_size) = -p.base_size /\ OpenOf(p) = 1
    BY <1>1, <1>3 DEF side_of, Abs, OpenOf, is_flat
  <2>2. ShortOf(p) = p.open_notional /\ LongOf(p) = 0 /\ LongOf(q) = 0
    BY <1>1, <1>3, <2>1 DEF LongOf, ShortOf
  <2>3. CASE base = -p.base_size
    <3>1. q.base_size = 0 /\ cost = p.open_notional /\ q.open_notional = 0
      BY <1>1, <2>1, <2>3
    <3>2. ShortOf(q) = 0 /\ OpenOf(q) = 0
      BY <3>1 DEF ShortOf, OpenOf, is_flat
    <3> QED
      BY <1>1, <2>1, <2>2, <2>3, <3>1, <3>2
  <2>4. CASE base # -p.base_size
    <3>1. q.base_size < 0
      BY <1>1, <2>1, <2>4
    <3>2. ShortOf(q) = q.open_notional /\ OpenOf(q) = 1 /\ ~is_flat(q)
      BY <1>1, <3>1 DEF ShortOf, OpenOf, is_flat
    <3> QED
      BY <1>1, <2>1, <2>2, <2>4, <3>1, <3>2
  <2> QED
    BY <2>3, <2>4
<1> QED
  BY <1>1, <1>2, <1>3

LEMMA AbsNat ==
  ASSUME NEW a \in Int
  PROVE  /\ Abs(a) \in Nat /\ Abs(a) = Abs(-a)
         /\ (a >= 0 => Abs(a) = a) /\ (a <= 0 => Abs(a) = -a)
BY DEF Abs

LEMMA ChargeCovers ==
  ASSUME NEW q \in Nat, market'.quote_reserve \in Nat, market.quote_reserve \in Nat,
         q = Abs(market.quote_reserve - market'.quote_reserve)
  PROVE  /\ Charge \in Nat
         /\ fee_on(q, TakerFeeBps) \in Nat /\ fee_on(q, TakerFeeBps) <= Charge
         /\ fee_on(q, LiquidationFeeBps) \in Nat /\ fee_on(q, LiquidationFeeBps) <= Charge
<1>1. Abs(market'.quote_reserve - market.quote_reserve) = q
  <2>1. -(market.quote_reserve - market'.quote_reserve) = market'.quote_reserve - market.quote_reserve
    OBVIOUS
  <2>2. market.quote_reserve - market'.quote_reserve \in Int
    OBVIOUS
  <2> QED
    BY <2>1, <2>2, AbsNat
<1>2. fee_on(q, TakerFeeBps) \in Nat /\ fee_on(q, LiquidationFeeBps) \in Nat
  BY BpsNat, FeeNat
<1> QED
  BY <1>1, <1>2 DEF Charge, Greater

\* A position that is given up, in part or whole, leaves the books in step.
LEMMA ReleaseBooks ==
  ASSUME IInv, NEW t \in Traders, NEW p, p = position[t], ~is_flat(p), NEW q \in Position,
         NEW base \in Nat, base > 0, base <= Abs(p.base_size),
         NEW cost \in Nat, cost <= p.open_notional,
         NEW gone \in BOOLEAN, gone <=> base = Abs(p.base_size),
         gone => cost = p.open_notional,
         q.base_size = (IF side_of(p) = "Long" THEN p.base_size - base ELSE p.base_size + base),
         q.open_notional = p.open_notional - cost
  PROVE  LET r == Released(market, side_of(p), cost, p.margin, q.margin, gone)
         IN  /\ r \in Market /\ r.status = market.status
             /\ r.base_reserve = market.base_reserve /\ r.quote_reserve = market.quote_reserve
             /\ r.total_collateral = market.total_collateral + q.margin - p.margin
             /\ r.long_open_notional = market.long_open_notional + LongOf(q) - LongOf(p)
             /\ r.short_open_notional = market.short_open_notional + ShortOf(q) - ShortOf(p)
             /\ r.position_count = market.position_count + OpenOf(q) - OpenOf(p)
<1>1. /\ p \in Position /\ p.margin \in Nat
      /\ p.margin <= market.total_collateral
      /\ LongOf(p) <= market.long_open_notional
      /\ ShortOf(p) <= market.short_open_notional
      /\ OpenOf(p) <= market.position_count
      /\ market \in Market
  BY Known
<1>2. /\ market.long_open_notional \in Nat /\ market.short_open_notional \in Nat
      /\ market.total_collateral \in Nat /\ market.position_count \in Nat
  BY <1>1, MarketNats
<1>3. /\ LongOf(p) \in Nat /\ ShortOf(p) \in Nat /\ OpenOf(p) \in Nat
      /\ LongOf(q) \in Nat /\ ShortOf(q) \in Nat /\ q.margin \in Nat
  BY <1>1, CountsNat
<1>4. /\ OpenOf(p) = 1
      /\ LongOf(q) = LongOf(p) - (IF side_of(p) = "Long" THEN cost ELSE 0)
      /\ ShortOf(q) = ShortOf(p) - (IF side_of(p) = "Long" THEN 0 ELSE cost)
      /\ OpenOf(q) = 1 - (IF base = Abs(p.base_size) THEN 1 ELSE 0)
      /\ cost <= (IF side_of(p) = "Long" THEN LongOf(p) ELSE ShortOf(p))
  BY <1>1, ReducedCounts
<1> DEFINE side == side_of(p)
           r == Released(market, side, cost, p.margin, q.margin, gone)
<1>5. /\ cost <= (IF side = "Long" THEN market.long_open_notional ELSE market.short_open_notional)
      /\ market.position_count >= 1
  BY <1>1, <1>2, <1>3, <1>4
<1> HIDE DEF side
<1>6. /\ r \in Market /\ r.status = market.status
      /\ r.base_reserve = market.base_reserve /\ r.quote_reserve = market.quote_reserve
      /\ r.total_collateral = market.total_collateral - p.margin + q.margin
      /\ r.position_count = market.position_count - (IF gone THEN 1 ELSE 0)
      /\ r.long_open_notional = market.long_open_notional - (IF side = "Long" THEN cost ELSE 0)
      /\ r.short_open_notional = market.short_open_notional - (IF side = "Long" THEN 0 ELSE cost)
  BY <1>1, <1>3, <1>5, ReleasedFields
<1> HIDE DEF r
<1>7. r.total_collateral = market.total_collateral + q.margin - p.margin
  BY <1>1, <1>2, <1>3, <1>6
<1>8. /\ r.long_open_notional = market.long_open_notional + LongOf(q) - LongOf(p)
      /\ r.short_open_notional = market.short_open_notional + ShortOf(q) - ShortOf(p)
  <2>1. (IF side = "Long" THEN cost ELSE 0) = LongOf(p) - LongOf(q)
    BY <1>3, <1>4 DEF side
  <2>2. (IF side = "Long" THEN 0 ELSE cost) = ShortOf(p) - ShortOf(q)
    BY <1>3, <1>4 DEF side
  <2> DEFINE a == IF side = "Long" THEN cost ELSE 0
             b == IF side = "Long" THEN 0 ELSE cost
  <2>3. r.long_open_notional = market.long_open_notional - a
    BY <1>6
  <2>4. r.short_open_notional = market.short_open_notional - b
    BY <1>6
  <2>5. a = LongOf(p) - LongOf(q) /\ b = ShortOf(p) - ShortOf(q)
    BY <2>1, <2>2
  <2> HIDE DEF a, b
  <2> QED
    BY <1>2, <1>3, <2>3, <2>4, <2>5
<1>9. r.position_count = market.position_count + OpenOf(q) - OpenOf(p)
  BY <1>2, <1>4, <1>6
<1> QED
  BY <1>6, <1>7, <1>8, <1>9 DEF r, side

LEMMA CloseStep ==
  ASSUME IInv, NEW t \in Traders, NEW base_amount \in Nat, NEW limit,
         close_position(t, base_amount, limit)
  PROVE  \E q : Moved(t, q) /\ Circuit(t, q) /\ Fair(t, q)
<1> DEFINE p      == position[t]
           side   == side_of(p)
           all    == base_amount = 0 \/ base_amount >= Abs(p.base_size)
           base   == IF all THEN Abs(p.base_size) ELSE base_amount
           pool   == quote_close(side, base)
           quote  == Abs(market.quote_reserve - pool.quote_reserve)
           cost   == (p.open_notional * base) \div Abs(p.base_size)
           pnl    == Gain(side, quote, cost)
           fee    == fee_on(quote, TakerFeeBps)
           margin == SettledMargin(p, pnl, fee)
           kept   == IF all THEN 0 ELSE margin
           fee_paid == Clamped(fee, collateral_vault)
           payout   == Clamped(margin - kept, collateral_vault - fee_paid)
           q == [margin |-> kept,
                 base_size |-> IF side = "Long" THEN p.base_size - base ELSE p.base_size + base,
                 open_notional |-> p.open_notional - cost,
                 realized_pnl |-> p.realized_pnl + pnl]
           r == Released(market, side, cost, p.margin, kept, all)
<1>1. /\ p \in Position /\ p.margin \in Nat /\ p.open_notional \in Nat
      /\ p.base_size \in Int /\ p.realized_pnl \in Int
      /\ market \in Market /\ market.base_reserve > 0
      /\ collateral_vault \in Nat /\ insurance_vault \in Nat /\ opens \in Nat
      /\ position \in [Traders -> Position]
  BY Known
<1>2. ~is_flat(p) /\ (side = "Short" => base < market.base_reserve)
  BY DEF close_position
<1>3. /\ collateral_vault' = collateral_vault - fee_paid - payout
      /\ insurance_vault' = insurance_vault + fee_paid
      /\ opens' = opens /\ config' = config
      /\ market' = [r EXCEPT !.base_reserve = pool.base_reserve,
                             !.quote_reserve = pool.quote_reserve]
      /\ position' = [position EXCEPT ![t] = q]
  BY DEF close_position
<1>4. Abs(p.base_size) \in Nat /\ Abs(p.base_size) > 0
  BY <1>1, <1>2, AbsNat DEF is_flat
<1>5. /\ base \in Nat /\ base > 0 /\ base <= Abs(p.base_size)
      /\ all \in BOOLEAN /\ (all <=> base = Abs(p.base_size))
  BY <1>4
<1>6. cost \in Nat /\ cost <= p.open_notional /\ (base = Abs(p.base_size) => cost = p.open_notional)
  <2> HIDE DEF base, all
  <2> QED
    BY <1>1, <1>4, <1>5, PartOf
<1> HIDE DEF base, all, cost
<1>7. side = "Long" \/ side = "Short"
  BY <1>1, <1>2 DEF side_of, is_flat
<1>8. /\ pool.base_reserve \in Nat /\ pool.base_reserve > 0
      /\ pool.quote_reserve \in Nat
      /\ side = "Long" => /\ pool.base_reserve = market.base_reserve + base
                          /\ pool.quote_reserve <= market.quote_reserve
      /\ side = "Short" => /\ pool.base_reserve = market.base_reserve - base
                           /\ pool.quote_reserve >= market.quote_reserve
  <2>1. TypeOK /\ side \in {"Long", "Short"}
    BY <1>7 DEF IInv
  <2> HIDE DEF side
  <2> QED
    BY <1>2, <1>5, <2>1, CloseMovesPool
<1> HIDE DEF pool
<1>9. market.quote_reserve \in Nat /\ market.base_reserve \in Nat
  BY <1>1, MarketNats
<1>10. /\ quote \in Nat
       /\ side = "Long" => quote = market.quote_reserve - pool.quote_reserve
       /\ side = "Short" => quote = pool.quote_reserve - market.quote_reserve
  <2>1. market.quote_reserve - pool.quote_reserve \in Int
    BY <1>8, <1>9
  <2> HIDE DEF side
  <2> QED
    BY <1>8, <1>9, <2>1, AbsNat
<1>11. pnl \in Int /\ pnl = (IF side = "Long" THEN quote - cost ELSE cost - quote)
  <2> HIDE DEF quote, side
  <2> QED
    BY <1>6, <1>10 DEF Gain
<1>12. fee \in Nat
  <2> HIDE DEF quote
  <2> QED
    BY <1>10, BpsNat, FeeNat
<1> HIDE DEF pnl
<1>13. /\ margin \in Nat /\ margin >= p.margin + pnl - fee
       /\ p.margin + pnl - fee < 0 => margin = 0
  <2> HIDE DEF fee
  <2>1. p.margin + pnl - fee \in Int
    BY <1>1, <1>11, <1>12
  <2> QED
    BY <2>1, PositiveNat DEF SettledMargin
<1>14. p.margin + pnl - fee >= 0 => margin = p.margin + pnl - fee
  <2> HIDE DEF fee
  <2>1. p.margin + pnl - fee \in Int
    BY <1>1, <1>11, <1>12
  <2> QED
    BY <2>1, PositiveNat DEF SettledMargin
<1> HIDE DEF margin
<1>15. kept \in Nat /\ margin - kept \in Nat
  BY <1>13
<1>16. fee_paid \in Nat /\ fee_paid <= fee /\ fee_paid <= collateral_vault
  <2> HIDE DEF fee
  <2> QED
    BY <1>1, <1>12, ClampedNat
<1>17. payout \in Nat /\ payout <= margin - kept /\ payout <= collateral_vault - fee_paid
  <2> HIDE DEF fee_paid, kept
  <2>1. collateral_vault - fee_paid \in Nat
    BY <1>1, <1>16
  <2> QED
    BY <1>15, <2>1, ClampedNat
<1> HIDE DEF payout, fee_paid, kept
<1>18. /\ q \in Position /\ q.margin = kept
       /\ q.base_size = (IF side = "Long" THEN p.base_size - base ELSE p.base_size + base)
       /\ q.open_notional = p.open_notional - cost
       /\ q.realized_pnl = p.realized_pnl + pnl
  <2> HIDE DEF side
  <2>1. /\ p.open_notional - cost \in Nat /\ p.realized_pnl + pnl \in Int
        /\ (IF side = "Long" THEN p.base_size - base ELSE p.base_size + base) \in Int
    BY <1>1, <1>5, <1>6, <1>11
  <2> QED
    BY <1>15, <2>1 DEF Position
<1> HIDE DEF q
<1>19. is_flat(q) => q.open_notional = 0
  BY <1>1, <1>2, <1>5, <1>6, <1>18, ReducedCounts
<1>20. /\ r \in Market /\ r.status = market.status
       /\ r.total_collateral = market.total_collateral + q.margin - p.margin
       /\ r.long_open_notional = market.long_open_notional + LongOf(q) - LongOf(p)
       /\ r.short_open_notional = market.short_open_notional + ShortOf(q) - ShortOf(p)
       /\ r.position_count = market.position_count + OpenOf(q) - OpenOf(p)
  BY <1>1, <1>2, <1>5, <1>6, <1>18, ReleaseBooks
<1> HIDE DEF r
<1>21. /\ market' \in Market /\ market'.status = r.status
       /\ market'.base_reserve = pool.base_reserve
       /\ market'.quote_reserve = pool.quote_reserve
       /\ market'.total_collateral = r.total_collateral
       /\ market'.long_open_notional = r.long_open_notional
       /\ market'.short_open_notional = r.short_open_notional
       /\ market'.position_count = r.position_count
  BY <1>3, <1>8, <1>20 DEF Market
<1>22. collateral_vault' \in Nat /\ insurance_vault' \in Nat
  BY <1>1, <1>3, <1>16, <1>17
<1>23. Moved(t, q)
  BY <1>1, <1>3, <1>8, <1>18, <1>19, <1>20, <1>21, <1>22 DEF Moved
<1>24. Circuit(t, q)
  <2> HIDE DEF p, side, quote
  <2>1. market'.base_reserve + q.base_size = market.base_reserve + p.base_size
    BY <1>1, <1>5, <1>7, <1>8, <1>9, <1>18, <1>21
  <2>2. /\ LongOf(q) - LongOf(p) = -(IF side = "Long" THEN cost ELSE 0)
        /\ ShortOf(q) - ShortOf(p) = -(IF side = "Long" THEN 0 ELSE cost)
        /\ LongOf(p) \in Int /\ LongOf(q) \in Int /\ ShortOf(p) \in Int /\ ShortOf(q) \in Int
    <3>1. /\ LongOf(q) = LongOf(p) - (IF side = "Long" THEN cost ELSE 0)
          /\ ShortOf(q) = ShortOf(p) - (IF side = "Long" THEN 0 ELSE cost)
      BY <1>1, <1>2, <1>5, <1>6, <1>18, ReducedCounts DEF side
    <3>2. LongOf(p) \in Int /\ LongOf(q) \in Int /\ ShortOf(p) \in Int /\ ShortOf(q) \in Int
      BY <1>1, <1>18, CountsNat
    <3> QED
      BY <1>6, <3>1, <3>2
  <2>3. q.realized_pnl - p.realized_pnl = pnl
    BY <1>1, <1>11, <1>18
  <2>4. market'.quote_reserve =
          market.quote_reserve + (LongOf(q) - LongOf(p)) - (ShortOf(q) - ShortOf(p))
            - (q.realized_pnl - p.realized_pnl)
    <3>1. CASE side = "Long"
      <4>1. LongOf(q) - LongOf(p) = -cost /\ ShortOf(q) - ShortOf(p) = 0
        BY <1>6, <2>2, <3>1
      <4>2. quote = market.quote_reserve - pool.quote_reserve /\ pnl = quote - cost
        BY <1>10, <1>11, <3>1
      <4> QED
        BY <1>6, <1>8, <1>9, <1>10, <1>21, <2>3, <4>1, <4>2
    <3>2. CASE side = "Short"
      <4>1. LongOf(q) - LongOf(p) = 0 /\ ShortOf(q) - ShortOf(p) = -cost
        BY <1>6, <2>2, <3>2
      <4>2. quote = pool.quote_reserve - market.quote_reserve /\ pnl = cost - quote
        BY <1>10, <1>11, <3>2
      <4> QED
        BY <1>6, <1>8, <1>9, <1>10, <1>21, <2>3, <4>1, <4>2
    <3> QED
      BY <1>7, <3>1, <3>2
  <2> QED
    BY <2>1, <2>4 DEF Circuit, p
<1>25. Fair(t, q)
  <2>1. fee <= Charge /\ Charge \in Nat
    BY <1>8, <1>9, <1>10, <1>21, ChargeCovers
  <2>2. Shortfall(t, q) = -fee_paid - payout + p.margin - kept + pnl
    BY <1>1, <1>3, <1>11, <1>15, <1>16, <1>17, <1>18 DEF Shortfall
  <2>3. q.realized_pnl - p.realized_pnl = pnl
    BY <1>1, <1>11, <1>18
  <2> HIDE DEF fee, p
  <2>4. CASE p.margin + pnl - fee >= 0
    <3>1. Shortfall(t, q) >= 0
      BY <1>1, <1>11, <1>12, <1>13, <1>14, <1>15, <1>16, <1>17, <2>2, <2>4
    <3> QED
      BY <3>1 DEF Fair
  <2>5. CASE p.margin + pnl - fee < 0
    <3>1. kept = 0 /\ payout = 0
      BY <1>13, <1>15, <1>17, <2>5
    <3>2. Shortfall(t, q) >= p.margin + pnl - Charge
      BY <1>1, <1>11, <1>12, <1>16, <2>1, <2>2, <3>1
    <3> QED
      BY <1>2, <2>3, <3>2 DEF Fair, p
  <2> QED
    BY <1>1, <1>11, <1>12, <2>4, <2>5
<1> QED
  BY <1>23, <1>24, <1>25

\* A position taken from its owner leaves nothing but its history.
LEMMA EmptiedBooks ==
  ASSUME IInv, NEW t \in Traders, ~is_flat(position[t]), NEW pnl \in Int
  PROVE  LET p == position[t]
             q == Emptied(p, pnl)
             r == Released(market, side_of(p), p.open_notional, p.margin, 0, TRUE)
         IN  /\ q \in Position /\ q.margin = 0 /\ q.base_size = 0 /\ q.open_notional = 0
             /\ q.realized_pnl = p.realized_pnl + pnl
             /\ LongOf(q) = 0 /\ ShortOf(q) = 0
             /\ LongOf(p) = (IF side_of(p) = "Long" THEN p.open_notional ELSE 0)
             /\ ShortOf(p) = (IF side_of(p) = "Long" THEN 0 ELSE p.open_notional)
             /\ side_of(p) \in {"Long", "Short"}
             /\ r \in Market /\ r.status = market.status
             /\ r.base_reserve = market.base_reserve /\ r.quote_reserve = market.quote_reserve
             /\ r.total_collateral = market.total_collateral + q.margin - p.margin
             /\ r.long_open_notional = market.long_open_notional + LongOf(q) - LongOf(p)
             /\ r.short_open_notional = market.short_open_notional + ShortOf(q) - ShortOf(p)
             /\ r.position_count = market.position_count + OpenOf(q) - OpenOf(p)
<1> DEFINE p == position[t]
<1>1. /\ p \in Position /\ p.margin \in Nat /\ p.open_notional \in Nat
      /\ p.base_size \in Int /\ p.realized_pnl \in Int
  BY Known
<1> DEFINE q == Emptied(p, pnl)
<1>2. /\ q \in Position /\ q.margin = 0 /\ q.base_size = 0 /\ q.open_notional = 0
      /\ q.realized_pnl = p.realized_pnl + pnl
  BY <1>1 DEF Emptied, NoPosition, Position
<1> HIDE DEF q
<1>3. Abs(p.base_size) \in Nat /\ Abs(p.base_size) > 0
  BY <1>1, AbsNat DEF is_flat
<1>4. q.base_size = (IF side_of(p) = "Long" THEN p.base_size - Abs(p.base_size)
                     ELSE p.base_size + Abs(p.base_size))
  BY <1>1, <1>2 DEF side_of, Abs
<1>5. p.open_notional - p.open_notional = 0
  BY <1>1
<1> DEFINE r == Released(market, side_of(p), p.open_notional, p.margin, 0, TRUE)
<1>6. /\ r \in Market /\ r.status = market.status
      /\ r.base_reserve = market.base_reserve /\ r.quote_reserve = market.quote_reserve
      /\ r.total_collateral = market.total_collateral + q.margin - p.margin
      /\ r.long_open_notional = market.long_open_notional + LongOf(q) - LongOf(p)
      /\ r.short_open_notional = market.short_open_notional + ShortOf(q) - ShortOf(p)
      /\ r.position_count = market.position_count + OpenOf(q) - OpenOf(p)
  <2>1. PICK base \in Nat : base = Abs(p.base_size)
    BY <1>3
  <2>2. PICK gone \in BOOLEAN : gone = TRUE
    OBVIOUS
  <2>3. r = Released(market, side_of(p), p.open_notional, p.margin, q.margin, gone)
    BY <1>2, <2>2
  <2>4. /\ base > 0 /\ base <= Abs(p.base_size) /\ (gone <=> base = Abs(p.base_size))
        /\ p.open_notional \in Nat /\ p.open_notional <= p.open_notional
    BY <1>1, <1>3, <2>1, <2>2
  <2>5. q.base_size = (IF side_of(p) = "Long" THEN p.base_size - base ELSE p.base_size + base)
    BY <1>4, <2>1
  <2>6. q.open_notional = p.open_notional - p.open_notional
    BY <1>2, <1>5
  <2> HIDE DEF r
  <2> QED
    BY <1>2, <2>3, <2>4, <2>5, <2>6, ReleaseBooks
<1>7. LongOf(q) = 0 /\ ShortOf(q) = 0
  BY <1>2 DEF LongOf, ShortOf
<1>8. /\ LongOf(p) = (IF side_of(p) = "Long" THEN p.open_notional ELSE 0)
      /\ ShortOf(p) = (IF side_of(p) = "Long" THEN 0 ELSE p.open_notional)
      /\ side_of(p) \in {"Long", "Short"}
  BY <1>1 DEF LongOf, ShortOf, side_of, is_flat
<1> HIDE DEF r
<1> QED
  BY <1>2, <1>6, <1>7, <1>8 DEF r, q

LEMMA LiquidateStep ==
  ASSUME IInv, NEW t \in Traders, liquidate_position(t)
  PROVE  \E q : Moved(t, q) /\ Circuit(t, q) /\ Fair(t, q)
<1> DEFINE p      == position[t]
           side   == side_of(p)
           pool   == quote_close(side, Abs(p.base_size))
           quote  == Abs(market.quote_reserve - pool.quote_reserve)
           pnl    == Gain(side, quote, p.open_notional)
           worth  == p.margin + pnl
           reward == fee_on(quote, LiquidationFeeBps)
           cover  == Clamped(Positive(-worth), insurance_vault)
           available   == collateral_vault + cover
           reward_paid == Clamped(reward, available)
           refund      == Clamped(Positive(worth - reward), available - reward_paid)
           q == Emptied(p, pnl)
           r == Released(market, side, p.open_notional, p.margin, 0, TRUE)
<1>1. /\ p \in Position /\ p.margin \in Nat /\ p.open_notional \in Nat
      /\ p.base_size \in Int /\ p.realized_pnl \in Int
      /\ market \in Market /\ market.base_reserve > 0
      /\ collateral_vault \in Nat /\ insurance_vault \in Nat /\ opens \in Nat
      /\ position \in [Traders -> Position]
  BY Known
<1>2. ~is_flat(p) /\ (side = "Short" => Abs(p.base_size) < market.base_reserve)
  BY DEF liquidate_position
<1>3. /\ insurance_vault' = insurance_vault - cover
      /\ collateral_vault' = available - reward_paid - refund
      /\ opens' = opens /\ config' = config
      /\ market' = [r EXCEPT !.base_reserve = pool.base_reserve,
                             !.quote_reserve = pool.quote_reserve]
      /\ position' = [position EXCEPT ![t] = q]
  BY DEF liquidate_position
<1>4. Abs(p.base_size) \in Nat /\ Abs(p.base_size) > 0
  BY <1>1, <1>2, AbsNat DEF is_flat
<1>5. side = "Long" \/ side = "Short"
  BY <1>1, <1>2 DEF side_of, is_flat
<1>6. /\ pool.base_reserve \in Nat /\ pool.base_reserve > 0
      /\ pool.quote_reserve \in Nat
      /\ side = "Long" => /\ pool.base_reserve = market.base_reserve + Abs(p.base_size)
                          /\ pool.quote_reserve <= market.quote_reserve
      /\ side = "Short" => /\ pool.base_reserve = market.base_reserve - Abs(p.base_size)
                           /\ pool.quote_reserve >= market.quote_reserve
  <2>1. TypeOK /\ side \in {"Long", "Short"}
    BY <1>5 DEF IInv
  <2> HIDE DEF side
  <2> QED
    BY <1>2, <1>4, <2>1, CloseMovesPool
<1> HIDE DEF pool
<1>7. market.quote_reserve \in Nat /\ market.base_reserve \in Nat
  BY <1>1, MarketNats
<1>8. /\ quote \in Nat
      /\ side = "Long" => quote = market.quote_reserve - pool.quote_reserve
      /\ side = "Short" => quote = pool.quote_reserve - market.quote_reserve
  <2>1. market.quote_reserve - pool.quote_reserve \in Int
    BY <1>6, <1>7
  <2> HIDE DEF side
  <2> QED
    BY <1>6, <1>7, <2>1, AbsNat
<1>9. pnl \in Int /\ pnl = (IF side = "Long" THEN quote - p.open_notional
                            ELSE p.open_notional - quote)
  <2> HIDE DEF quote, side
  <2> QED
    BY <1>1, <1>8 DEF Gain
<1>10. reward \in Nat
  <2> HIDE DEF quote
  <2> QED
    BY <1>8, BpsNat, FeeNat
<1> HIDE DEF pnl
<1>11. worth \in Int /\ worth = p.margin + pnl
  BY <1>1, <1>9
<1> HIDE DEF worth, reward
<1>12. cover \in Nat /\ cover <= insurance_vault
  <2>1. Positive(-worth) \in Nat
    BY <1>11, PositiveNat
  <2> QED
    BY <1>1, <2>1, ClampedNat
<1> HIDE DEF cover
<1>13. reward_paid \in Nat /\ reward_paid <= reward /\ reward_paid <= available
  <2>1. available \in Nat
    BY <1>1, <1>12
  <2> HIDE DEF available
  <2> QED
    BY <1>10, <2>1, ClampedNat
<1> HIDE DEF reward_paid
<1>14. /\ refund \in Nat /\ refund <= available - reward_paid
       /\ worth - reward >= 0 => refund <= worth - reward
       /\ worth - reward < 0 => refund = 0
  <2>1. worth - reward \in Int /\ available - reward_paid \in Nat
    BY <1>1, <1>10, <1>11, <1>12, <1>13
  <2>2. /\ Positive(worth - reward) \in Nat
        /\ worth - reward >= 0 => Positive(worth - reward) = worth - reward
        /\ worth - reward < 0 => Positive(worth - reward) = 0
    BY <2>1, PositiveNat
  <2>3. refund \in Nat /\ refund <= Positive(worth - reward) /\ refund <= available - reward_paid
    BY <2>1, <2>2, ClampedNat
  <2> HIDE DEF refund
  <2> QED
    BY <2>2, <2>3
<1> HIDE DEF refund
<1>15. collateral_vault' \in Nat /\ insurance_vault' \in Nat
  BY <1>1, <1>3, <1>12, <1>13, <1>14
<1>16. /\ q \in Position /\ q.margin = 0 /\ q.base_size = 0 /\ q.open_notional = 0
       /\ q.realized_pnl = p.realized_pnl + pnl
       /\ LongOf(q) = 0 /\ ShortOf(q) = 0
       /\ LongOf(p) = (IF side = "Long" THEN p.open_notional ELSE 0)
       /\ ShortOf(p) = (IF side = "Long" THEN 0 ELSE p.open_notional)
       /\ r \in Market /\ r.status = market.status
       /\ r.total_collateral = market.total_collateral + q.margin - p.margin
       /\ r.long_open_notional = market.long_open_notional + LongOf(q) - LongOf(p)
       /\ r.short_open_notional = market.short_open_notional + ShortOf(q) - ShortOf(p)
       /\ r.position_count = market.position_count + OpenOf(q) - OpenOf(p)
  <2>1. pnl \in Int
    BY <1>9
  <2> QED
    BY <1>2, <2>1, EmptiedBooks
<1> HIDE DEF q, r
<1>17. /\ market' \in Market /\ market'.status = r.status
       /\ market'.base_reserve = pool.base_reserve
       /\ market'.quote_reserve = pool.quote_reserve
       /\ market'.total_collateral = r.total_collateral
       /\ market'.long_open_notional = r.long_open_notional
       /\ market'.short_open_notional = r.short_open_notional
       /\ market'.position_count = r.position_count
  BY <1>3, <1>6, <1>16 DEF Market
<1>18. Moved(t, q)
  BY <1>1, <1>3, <1>6, <1>15, <1>16, <1>17 DEF Moved
<1>19. Circuit(t, q)
  <2>1. p.base_size = (IF side = "Long" THEN Abs(p.base_size) ELSE -Abs(p.base_size))
    BY <1>1, <1>2 DEF side_of, Abs, is_flat
  <2>2. q.realized_pnl - p.realized_pnl = pnl
    BY <1>1, <1>9, <1>16
  <2> HIDE DEF p, side, quote
  <2>3. CASE side = "Long"
    <3>1. market'.base_reserve + q.base_size = market.base_reserve + p.base_size
      BY <1>1, <1>4, <1>6, <1>7, <1>16, <1>17, <2>1, <2>3
    <3>2. LongOf(q) - LongOf(p) = -p.open_notional /\ ShortOf(q) - ShortOf(p) = 0
      BY <1>1, <1>16, <2>3
    <3>3. quote = market.quote_reserve - pool.quote_reserve /\ pnl = quote - p.open_notional
      BY <1>8, <1>9, <2>3
    <3>4. market'.quote_reserve =
            market.quote_reserve + (LongOf(q) - LongOf(p)) - (ShortOf(q) - ShortOf(p))
              - (q.realized_pnl - p.realized_pnl)
      BY <1>1, <1>6, <1>7, <1>8, <1>17, <2>2, <3>2, <3>3
    <3> QED
      BY <3>1, <3>4 DEF Circuit, p
  <2>4. CASE side = "Short"
    <3>1. market'.base_reserve + q.base_size = market.base_reserve + p.base_size
      BY <1>1, <1>4, <1>6, <1>7, <1>16, <1>17, <2>1, <2>4
    <3>2. LongOf(q) - LongOf(p) = 0 /\ ShortOf(q) - ShortOf(p) = -p.open_notional
      BY <1>1, <1>16, <2>4
    <3>3. quote = pool.quote_reserve - market.quote_reserve /\ pnl = p.open_notional - quote
      BY <1>8, <1>9, <2>4
    <3>4. market'.quote_reserve =
            market.quote_reserve + (LongOf(q) - LongOf(p)) - (ShortOf(q) - ShortOf(p))
              - (q.realized_pnl - p.realized_pnl)
      BY <1>1, <1>6, <1>7, <1>8, <1>17, <2>2, <3>2, <3>3
    <3> QED
      BY <3>1, <3>4 DEF Circuit, p
  <2> QED
    BY <1>5, <2>3, <2>4
<1>20. Fair(t, q)
  <2>1. reward <= Charge /\ Charge \in Nat
    BY <1>6, <1>7, <1>8, <1>17, ChargeCovers DEF reward
  <2>2. q.realized_pnl - p.realized_pnl = pnl
    BY <1>1, <1>9, <1>16
  <2>3. Shortfall(t, q) = cover - reward_paid - refund + worth
    BY <1>1, <1>3, <1>9, <1>11, <1>12, <1>13, <1>14, <1>16, <2>2 DEF Shortfall
  <2> HIDE DEF p
  <2>4. CASE worth - reward >= 0
    <3>1. Shortfall(t, q) >= 0
      BY <1>10, <1>11, <1>12, <1>13, <1>14, <2>3, <2>4
    <3> QED
      BY <3>1 DEF Fair
  <2>5. CASE worth - reward < 0
    <3>1. Shortfall(t, q) >= worth - Charge
      BY <1>10, <1>11, <1>12, <1>13, <1>14, <2>1, <2>3, <2>5
    <3>2. p.realized_pnl \in Int /\ q.realized_pnl \in Int /\ p.margin \in Int
      BY <1>1, <1>16, CountsNat
    <3>3. Shortfall(t, q) >= p.margin + (q.realized_pnl - p.realized_pnl) - Charge
      BY <1>9, <1>11, <2>1, <2>2, <3>1, <3>2
    <3> QED
      BY <1>2, <3>3 DEF Fair, p
  <2> QED
    BY <1>10, <1>11, <2>4, <2>5
<1> QED
  BY <1>18, <1>19, <1>20

LEMMA SettleStep ==
  ASSUME IInv, NEW t \in Traders, settle_position(t)
  PROVE  \E q : Moved(t, q) /\ InStatus({"Settled"}) /\ Fair(t, q)
<1> DEFINE p    == position[t]
           pnl  == unrealized_pnl(p, market.settlement_price)
           worth == p.margin + pnl
           owed == Positive(worth)
           draw == Clamped(SatSub(owed, collateral_vault), insurance_vault)
           payout == Clamped(owed, collateral_vault + draw)
           q == Emptied(p, pnl)
           r == Released(market, side_of(p), p.open_notional, p.margin, 0, TRUE)
<1>1. /\ p \in Position /\ p.margin \in Nat /\ p.open_notional \in Nat
      /\ p.base_size \in Int /\ p.realized_pnl \in Int
      /\ market \in Market /\ market.base_reserve > 0
      /\ collateral_vault \in Nat /\ insurance_vault \in Nat /\ opens \in Nat
      /\ position \in [Traders -> Position]
  BY Known
<1>2. InStatus({"Settled"}) /\ ~is_flat(p)
  BY DEF settle_position
<1>3. /\ insurance_vault' = insurance_vault - draw
      /\ collateral_vault' = collateral_vault + draw - payout
      /\ opens' = opens /\ config' = config /\ market' = r
      /\ position' = [position EXCEPT ![t] = q]
  BY DEF settle_position
<1>4. market.settlement_price \in Nat /\ market.quote_reserve \in Nat
  BY <1>1, MarketNats
<1>5. pnl \in Int
  BY <1>1, <1>4, PositionValues
<1>6. /\ q \in Position /\ q.margin = 0 /\ q.base_size = 0 /\ q.open_notional = 0
      /\ q.realized_pnl = p.realized_pnl + pnl
      /\ r \in Market /\ r.status = market.status
      /\ r.base_reserve = market.base_reserve /\ r.quote_reserve = market.quote_reserve
      /\ r.total_collateral = market.total_collateral + q.margin - p.margin
      /\ r.long_open_notional = market.long_open_notional + LongOf(q) - LongOf(p)
      /\ r.short_open_notional = market.short_open_notional + ShortOf(q) - ShortOf(p)
      /\ r.position_count = market.position_count + OpenOf(q) - OpenOf(p)
  <2> HIDE DEF pnl
  <2> QED
    BY <1>2, <1>5, EmptiedBooks
<1> HIDE DEF pnl, q, r
<1>7. worth \in Int /\ worth = p.margin + pnl
  BY <1>1, <1>5
<1> HIDE DEF worth
<1>8. owed \in Nat /\ owed >= worth /\ (worth >= 0 => owed = worth) /\ (worth <= 0 => owed = 0)
  BY <1>7, PositiveNat
<1> HIDE DEF owed
<1>9. draw \in Nat /\ draw <= insurance_vault
  <2>1. SatSub(owed, collateral_vault) \in Nat
    BY <1>1, <1>8, SatSubNat
  <2> QED
    BY <1>1, <2>1, ClampedNat
<1> HIDE DEF draw
<1>10. payout \in Nat /\ payout <= owed /\ payout <= collateral_vault + draw
  <2>1. collateral_vault + draw \in Nat
    BY <1>1, <1>9
  <2> QED
    BY <1>8, <2>1, ClampedNat
<1> HIDE DEF payout
<1>11. collateral_vault' \in Nat /\ insurance_vault' \in Nat
  BY <1>1, <1>3, <1>9, <1>10
<1>12. Moved(t, q)
  BY <1>1, <1>3, <1>6, <1>11 DEF Moved
<1>13. Fair(t, q)
  <2>1. q.realized_pnl - p.realized_pnl = pnl
    BY <1>1, <1>5, <1>6
  <2>2. Shortfall(t, q) = draw - payout + worth
    BY <1>1, <1>3, <1>5, <1>6, <1>7, <1>9, <1>10, <2>1 DEF Shortfall
  <2> HIDE DEF p
  <2>3. CASE worth >= 0
    <3>1. Shortfall(t, q) >= 0
      BY <1>7, <1>8, <1>9, <1>10, <2>2, <2>3
    <3> QED
      BY <3>1 DEF Fair
  <2>4. CASE worth < 0
    <3>1. Charge \in Nat
      <4>1. market'.quote_reserve = market.quote_reserve
        BY <1>3, <1>6
      <4>2. PICK z \in Nat : z = 0
        OBVIOUS
      <4>3. z = Abs(market.quote_reserve - market'.quote_reserve)
        BY <1>4, <4>1, <4>2 DEF Abs
      <4> QED
        BY <1>4, <4>1, <4>3, ChargeCovers
    <3>2. Shortfall(t, q) >= worth - Charge
      BY <1>7, <1>8, <1>9, <1>10, <2>2, <2>4, <3>1
    <3>3. p.realized_pnl \in Int /\ q.realized_pnl \in Int /\ p.margin \in Int
      BY <1>1, <1>6, CountsNat
    <3>4. Shortfall(t, q) >= p.margin + (q.realized_pnl - p.realized_pnl) - Charge
      BY <1>5, <1>7, <2>1, <3>1, <3>2, <3>3
    <3> QED
      BY <1>2, <3>4 DEF Fair, p
  <2> QED
    BY <1>7, <2>3, <2>4
<1> QED
  BY <1>2, <1>12, <1>13

-----------------------------------------------------------------------------
(* Every step.                                                             *)

LEMMA TraderKeeps ==
  ASSUME IInv, TraderStep
  PROVE  IInv' /\ OnlyBankruptcies
<1>1. PICK t \in Traders :
         \/ \E amount \in Amounts : deposit_collateral(t, amount)
         \/ \E amount \in Amounts : withdraw_collateral(t, amount)
         \/ \E side \in {"Long", "Short"}, notional \in Notionals, limit \in LimitPrices :
               open_position(t, side, notional, limit)
         \/ \E base \in CloseBases, limit \in LimitPrices : close_position(t, base, limit)
         \/ liquidate_position(t)
         \/ settle_position(t)
  BY DEF TraderStep
<1>2. Amounts \subseteq Nat /\ Notionals \subseteq Nat /\ CloseBases \subseteq Nat
  BY FuturesAssumption
<1>3. \E q : Moved(t, q) /\ (InStatus({"Settled"}) \/ Circuit(t, q)) /\ Fair(t, q)
  <2>1. ASSUME NEW amount \in Amounts, deposit_collateral(t, amount)
        PROVE  \E q : Moved(t, q) /\ Circuit(t, q) /\ Fair(t, q)
    BY <1>2, <2>1, DepositStep
  <2>2. ASSUME NEW amount \in Amounts, withdraw_collateral(t, amount)
        PROVE  \E q : Moved(t, q) /\ Circuit(t, q) /\ Fair(t, q)
    BY <1>2, <2>2, WithdrawStep
  <2>3. ASSUME NEW side \in {"Long", "Short"}, NEW notional \in Notionals, NEW limit \in LimitPrices,
               open_position(t, side, notional, limit)
        PROVE  \E q : Moved(t, q) /\ Circuit(t, q) /\ Fair(t, q)
    BY <1>2, <2>3, OpenStep
  <2>4. ASSUME NEW base \in CloseBases, NEW limit \in LimitPrices, close_position(t, base, limit)
        PROVE  \E q : Moved(t, q) /\ Circuit(t, q) /\ Fair(t, q)
    BY <1>2, <2>4, CloseStep
  <2>5. CASE liquidate_position(t)
    BY <2>5, LiquidateStep
  <2>6. CASE settle_position(t)
    BY <2>6, SettleStep
  <2> QED
    BY <1>1, <2>1, <2>2, <2>3, <2>4, <2>5, <2>6
<1>4. PICK q : Moved(t, q) /\ (InStatus({"Settled"}) \/ Circuit(t, q)) /\ Fair(t, q)
  BY <1>3
<1> QED
  BY <1>4, MovedKeeps, MovedCosts

\* A step that moves no margin and trades nothing.
Still ==
  /\ position' = position
  /\ collateral_vault' = collateral_vault
  /\ market'.total_collateral = market.total_collateral

LEMMA StillSums ==
  ASSUME position' = position
  PROVE  /\ Margins' = Margins /\ Gains' = Gains /\ BaseHeld' = BaseHeld
         /\ Longs' = Longs /\ Shorts' = Shorts /\ OpenCount' = OpenCount
BY DEF Margins, Gains, BaseHeld, Longs, Shorts, OpenCount, IsOpen

LEMMA StillCosts ==
  ASSUME IInv, Still
  PROVE  OnlyBankruptcies
<1>1. Gains \in Int
  <2>1. \A u \in Traders : position[u] \in Position
    BY DEF IInv, TypeOK
  <2> DEFINE f == [u \in Traders |-> position[u].realized_pnl]
  <2>2. f \in [Traders -> Int] /\ Gains = SumFunction(f)
    BY <2>1, CountsNat DEF Gains
  <2> HIDE DEF f
  <2> QED
    BY <2>2, FiniteTraders, SumType
<1>2. Surplus' = Surplus
  BY StillSums DEF Still, Surplus
<1>3. Surplus \in Int
  BY <1>1 DEF Surplus, IInv, TypeOK, Market
<1> QED
  BY <1>2, <1>3 DEF OnlyBankruptcies

LEMMA StaffKeeps ==
  ASSUME IInv, StaffStep
  PROVE  IInv' /\ OnlyBankruptcies
<1> USE DEF IInv
<1>1. /\ market \in Market /\ market.base_reserve > 0
      /\ collateral_vault \in Nat /\ insurance_vault \in Nat /\ config \in Config
  BY DEF TypeOK
<1>2. ASSUME position' = position, collateral_vault' = collateral_vault, opens' = opens,
             insurance_vault' \in Nat, config' \in Config,
             market' \in Market, market'.base_reserve = market.base_reserve,
             market'.quote_reserve = market.quote_reserve,
             market'.long_open_notional = market.long_open_notional,
             market'.short_open_notional = market.short_open_notional,
             market'.total_collateral = market.total_collateral,
             market'.position_count = market.position_count,
             market.status = "Settled" => market'.status = "Settled"
      PROVE  IInv' /\ OnlyBankruptcies
  <2>1. TypeOK'
    BY <1>1, <1>2 DEF TypeOK
  <2>2. FlatClean'
    BY <1>2 DEF FlatClean
  <2>3. BooksMatchPositions'
    BY <1>2, StillSums DEF BooksMatchPositions
  <2>4. PoolBalanced'
    BY <1>2, StillSums DEF PoolBalanced, InStatus
  <2>5. OnlyBankruptcies
    BY <1>2, StillCosts DEF Still
  <2> QED
    BY <2>1, <2>2, <2>3, <2>4, <2>5
<1>3. ASSUME NEW amount \in Amounts, seed_insurance(amount)
      PROVE  IInv' /\ OnlyBankruptcies
  <2>1. insurance_vault + amount \in Nat
    BY <1>1, FuturesAssumption
  <2> QED
    BY <1>1, <1>2, <1>3, <2>1 DEF seed_insurance
<1>4. ASSUME NEW signer, NEW price \in SettlementPrices, settle_market(signer, price)
      PROVE  IInv' /\ OnlyBankruptcies
  <2>1. price \in Nat
    BY FuturesAssumption
  <2>2. market' = [market EXCEPT !.settlement_price = price, !.status = "Settled"]
    BY <1>4 DEF settle_market
  <2>3. /\ market' \in Market /\ market'.base_reserve = market.base_reserve
        /\ market'.quote_reserve = market.quote_reserve
        /\ market'.long_open_notional = market.long_open_notional
        /\ market'.short_open_notional = market.short_open_notional
        /\ market'.total_collateral = market.total_collateral
        /\ market'.position_count = market.position_count
        /\ market'.status = "Settled"
    BY <1>1, <2>1, <2>2 DEF Market
  <2>4. UNCHANGED <<config, position, collateral_vault, insurance_vault, opens>>
    BY <1>4 DEF settle_market
  <2> QED
    BY <1>1, <1>2, <2>3, <2>4
<1>5. ASSUME NEW paused \in BOOLEAN, pause(paused)
      PROVE  IInv' /\ OnlyBankruptcies
  <2>1. config' \in Config
    BY <1>1, <1>5 DEF pause, Config
  <2> QED
    BY <1>1, <1>2, <1>5, <2>1 DEF pause
<1>6. ASSUME NEW op \in Operators, set_operator(op)
      PROVE  IInv' /\ OnlyBankruptcies
  <2>1. config' \in Config
    BY <1>1, <1>6 DEF set_operator, Config
  <2> QED
    BY <1>1, <1>2, <1>6, <2>1 DEF set_operator
<1>7. ASSUME NEW halted \in BOOLEAN, halt_market(halted)
      PROVE  IInv' /\ OnlyBankruptcies
  <2>1. /\ market' = [market EXCEPT !.status = IF halted THEN "Halted" ELSE "Active"]
        /\ market.status # "Settled"
    BY <1>7 DEF halt_market, InStatus
  <2>2. /\ market' \in Market /\ market'.base_reserve = market.base_reserve
        /\ market'.quote_reserve = market.quote_reserve
        /\ market'.long_open_notional = market.long_open_notional
        /\ market'.short_open_notional = market.short_open_notional
        /\ market'.total_collateral = market.total_collateral
        /\ market'.position_count = market.position_count
    BY <1>1, <2>1 DEF Market
  <2>3. UNCHANGED <<config, position, collateral_vault, insurance_vault, opens>>
    BY <1>7 DEF halt_market
  <2> QED
    BY <1>1, <1>2, <2>1, <2>2, <2>3
<1> QED
  BY <1>3, <1>4, <1>5, <1>6, <1>7 DEF StaffStep

LEMMA StutterKeeps ==
  ASSUME IInv, UNCHANGED vars
  PROVE  IInv' /\ OnlyBankruptcies
<1>1. UNCHANGED <<config, market, position, collateral_vault, insurance_vault, opens>>
  BY DEF vars
<1>2. IInv'
  BY <1>1, StillSums
     DEF IInv, TypeOK, FlatClean, BooksMatchPositions, PoolBalanced, InStatus
<1>3. OnlyBankruptcies
  BY <1>1, StillCosts DEF Still
<1> QED
  BY <1>2, <1>3

LEMMA StepKeeps ==
  ASSUME IInv, [Next]_vars
  PROVE  IInv' /\ OnlyBankruptcies
BY TraderKeeps, StaffKeeps, StutterKeeps DEF Next

LEMMA InitGood ==
  ASSUME Init
  PROVE  IInv
<1>1. QuoteReserve \in Nat /\ BaseReserve \in Nat /\ BaseReserve > 0
  <2>1. QuoteReserve \in Nat /\ AnchorPrice \in Nat /\ AnchorPrice > 0 /\ BaseReserve > 0
    BY FuturesAssumption
  <2>2. QuoteReserve * PRICE_PRECISION \in Nat
    BY <2>1 DEF PRICE_PRECISION
  <2> QED
    BY <2>1, <2>2, DivNat DEF BaseReserve
<1>2. /\ NoPosition \in Position /\ NoPosition.margin = 0 /\ NoPosition.realized_pnl = 0
      /\ NoPosition.base_size = 0 /\ NoPosition.open_notional = 0 /\ is_flat(NoPosition)
  BY DEF NoPosition, Position, is_flat
<1>3. position = [t \in Traders |-> NoPosition]
  BY DEF Init
<1>4. /\ market \in Market /\ market.status = "Active"
      /\ market.base_reserve = BaseReserve /\ market.quote_reserve = QuoteReserve
      /\ market.long_open_notional = 0 /\ market.short_open_notional = 0
      /\ market.total_collateral = 0 /\ market.position_count = 0
  BY <1>1 DEF Init, Market
<1>5. TypeOK
  BY <1>1, <1>2, <1>3, <1>4 DEF Init, TypeOK, Config
<1>6. FlatClean
  BY <1>2, <1>3 DEF FlatClean
<1>7. /\ Margins = 0 /\ Gains = 0 /\ BaseHeld = 0
      /\ Longs = 0 /\ Shorts = 0 /\ OpenCount = 0
  <2> DEFINE zero == [t \in Traders |-> 0]
  <2>1. /\ Margins = SumFunction(zero) /\ Gains = SumFunction(zero) /\ BaseHeld = SumFunction(zero)
        /\ Longs = SumFunction(zero) /\ Shorts = SumFunction(zero) /\ OpenCount = SumFunction(zero)
    <3>1. \A t \in Traders : position[t] = NoPosition
      BY <1>3
    <3>2. /\ [t \in Traders |-> position[t].margin] = zero
          /\ [t \in Traders |-> position[t].realized_pnl] = zero
          /\ [t \in Traders |-> position[t].base_size] = zero
          /\ [t \in Traders |-> IF position[t].base_size > 0
                                  THEN position[t].open_notional ELSE 0] = zero
          /\ [t \in Traders |-> IF position[t].base_size < 0
                                  THEN position[t].open_notional ELSE 0] = zero
          /\ [t \in Traders |-> IF IsOpen(t) THEN 1 ELSE 0] = zero
      BY <1>2, <3>1 DEF IsOpen
    <3> HIDE DEF zero
    <3> QED
      BY <3>2 DEF Margins, Gains, BaseHeld, Longs, Shorts, OpenCount
  <2> QED
    BY <2>1, FiniteTraders, SumZeros
<1>8. BooksMatchPositions
  BY <1>4, <1>7 DEF BooksMatchPositions
<1>9. PoolBalanced
  BY <1>1, <1>4, <1>7 DEF PoolBalanced
<1> QED
  BY <1>5, <1>6, <1>8, <1>9 DEF IInv

-----------------------------------------------------------------------------
LEMMA Always == Spec => []IInv
<1>1. Init => IInv
  BY InitGood
<1>2. IInv /\ [Next]_vars => IInv'
  BY StepKeeps
<1> QED
  BY <1>1, <1>2, PTL DEF Spec

\* The accounts hold what their types say: no vault, margin or open notional
\* goes below zero and the pool always has base to price by (u64 fields).
THEOREM TypeCorrect == Spec => []TypeOK
<1>1. IInv => TypeOK
  BY DEF IInv
<1> QED
  BY <1>1, Always, PTL

\* However many traders there are and however they trade, the totals the market
\* keeps are the sums over the positions, saturating subtractions and all.
THEOREM Books == Spec => []BooksMatchPositions
<1>1. IInv => BooksMatchPositions
  BY DEF IInv
<1> QED
  BY <1>1, Always, PTL

\* Until settlement the pool is a closed circuit of base and of quote, at every
\* rounding a swap or a cost basis can make.
THEOREM ClosedCircuit == Spec => []PoolBalanced
<1>1. IInv => PoolBalanced
  BY DEF IInv
<1> QED
  BY <1>1, Always, PTL

\* The pooled margin falls behind what traders are credited with only where a
\* position does not cover its own loss, and by no more than that.
THEOREM BankruptciesOnly == Spec => OnlyBankruptciesCost
<1>1. IInv /\ [Next]_vars => [OnlyBankruptcies]_vars
  BY StepKeeps
<1>2. Spec => [][OnlyBankruptcies]_vars
  BY <1>1, Always, PTL DEF Spec
<1> QED
  BY <1>2 DEF OnlyBankruptciesCost, OnlyBankruptcies

=============================================================================
