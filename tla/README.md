# Verification of the Marco programs

Marco sells tokenised shares: two on-chain programs hold stablecoins against
position tokens, a third trades dated futures on valuations, and an
off-chain orchestrator moves the money, trades with a broker and writes the
result back to the chain. This directory holds TLA+ models of those parts,
TLC configurations that check them, and TLAPS proofs. Everything is translated
from the source; where this text says that something *holds*, a run or a proof
named here shows it.

## Inventory

| Part | State | Operations | What is hard | Status |
|---|---|---|---|---|
| `marco_spot` (`spot/programs/marco-spot`) | market totals, orders, holdings, one pooled stablecoin account, token supply, escrow account, freezes | 13 instructions | one account pools escrow, spread and late returns; saturating totals; rates and locks that change under live orders | modelled, proved |
| `marco_vault` (`pre-ipo/programs/marco-vault`) | phase, deposits, shares, deployment, redeemable pool, fees, one stablecoin account, claim tokens and their freezes | 21 instructions over 12 phases | many payments out of one pot with rounding; fees at entry or exit; elections that change the divisor; phases nobody can leave | modelled, proved |
| `marco_futures` (`valuation-futures/programs/marco-futures`) | vAMM reserves, positions, collateral, insurance | 13 instructions | rounding of swaps and cost bases, losses beyond a margin, payouts cut to what is held, saturating totals, settlement | modelled, proved |
| saga runner (`platform/orchestrator/src/orchestration/runner.ts`, `intent.ts`, store) | intents, leases, attempt journal | claim, drive, recover, unwind, park, operator routes | crashes between awaits, leases without owners, ambiguous effects, stale copies | modelled, proved |
| spot sagas (`orchestration/sagas/spot-buy.ts`, `spot-sell.ts`) | facts of an intent | 10 buy steps, 8 sell steps, compensations, resolvers | steps re-run; the trader acts on the chain meanwhile; holds outlived by settlement | modelled, proved in part |
| treasury (`treasury/treasury.ts`) | reservations | reserve, consume, release, sweep | check, then create, across awaits; a ceiling; expiry | modelled with the sagas |
| watcher (`orchestration/watcher.ts`) | cursor | poll, ingest | intent and posting are two writes | modelled with the sagas |
| vault driver, mandates (`orchestration/vault-driver.ts`, `vault-mandate.ts`) | mandates | request, tick, one handler per phase | facts lost while waiting, a crash between transaction and posting, overlapping ticks | modelled, proved |
| vault intents (`orchestration/sagas/vault-intents.ts`) | facts of an intent | subscription, redemption, delivery | they share the books with the driver | partly: no delivery |
| ledger (`ledger/`) | journal, balances | post | two writers, one set of accounts | partly: the accounts and the entries that are posted |
| reconciler, safety (`recon/`) | breaks | check, open, resolve, interlock | check, then mint | partly: backing check and interlock are actions, the other checks are properties |
| chain adapter, mock counterparties (`adapters/`) | orders, operations, balances of the others | place, fill, expire, convert, pay, settle | they act at any time and may fail | partly: as the desk and the driver meet them |
| store, API | intents, attempts, versions | compare-and-set, operator routes | stale versions | partly: what runner, driver and desk use |
| money, configuration, bootstrap, front-ends, scripts, generated clients | — | — | input and output | not modelled |

Interaction. Traders and operators send transactions to the programs; each is
atomic. The watcher turns program events into intents, the runner drives each
intent through its saga, whose steps call the treasury, the ledger, the broker,
the custodian and the programs. The vault driver does the same for a vault as a
whole. `main.ts` runs four loops in one process (watcher, runner, vaults,
reservation sweeper), each awaiting its own previous tick; operators can run the
same ticks over HTTP, and a rolling deployment runs two processes.

## Modules

| Module | Models | State in the code |
|---|---|---|
| `MarcoSpot` | every instruction of `marco_spot` | `market` is the `Market` account, `orders` the `Order` accounts, `holding` the `Holding` accounts; the token accounts are `market_usdc`, `trader_usdc`, `position`, `position_escrow`, `frozen`, `supply` |
| `OrderEscrow` | abstract: what an escrow agent promises | implemented by `MarcoSpot` (`EscrowSpec`) |
| `MCMarcoSpot` | symmetry | – |
| `MarcoSpotProofs` | proofs | – |
| `MarcoVault` | every instruction of `marco_vault` | `vault` is the `Vault` account, `buyer` the `BuyerState` accounts; the token accounts are `vault_usdc`, `shares`, `account_frozen`, `supply`; `now` is the clock |
| `PooledFund` | abstract: what a pooled fund promises | implemented by `MarcoVault` (`FundSpec`) |
| `MCMarcoVault` | symmetry | – |
| `MarcoVaultProofs` | proofs | – |
| `MarcoFutures` | every instruction of `marco_futures` on one market | `config`, `market` and `position` are the accounts, `collateral_vault` and `insurance_vault` the balances of the token accounts |
| `MarcoFuturesProofs` | proofs | – |
| `SagaRunner` | `runner.ts`, `intent.ts`, the intent and attempt repositories, the operator's routes | `intent`, `due`, `leased`, `journal` are the store; `at`, `mine`, `tried`, `result`, `todo` are the local variables of a worker between two awaits; `effect` is the world |
| `IntentRecord` | abstract: the record moves as if one worker drove it | implemented by `SagaRunner` (`RecordSpec`) |
| `MCSagaRunner` | symmetry | – |
| `SagaRunnerProofs` | proofs | – |
| `Postings` | `ledger/accounts.ts`, `ledger/postings.ts`: the accounts and the entries that code posts | – |
| `SpotDesk` | the watcher, both spot sagas, the treasury, the interlock and the counterparties, for one ticker | `intent` and `unbooked` are the intents, `worker` the local variables of the step of an intent, `reservation`, `ledger`, `broken` the repositories; `order`, `broker`, `buyingPower`, `conversion`, `payout`, `settlement` belong to the others |
| `MCSpotDesk` | orders and scenarios | – |
| `SpotDeskProofs` | proofs | – |
| `VaultDeals` | the deals a vault driver is given | – |
| `VaultDriver` | `vault-driver.ts`, `vault-mandate.ts`, and the intents that book deposits and redemptions | `mandate` is the record, `tick` the local variables of the loop's tick and of the request's, `vault` the chain; `ipo`, `custody`, `crossing`, `wire`, `sale`, `repatriation` belong to the others |
| `VaultDriverProofs` | proofs | – |
| `Orchestrator` | both over one ledger and one balance at the broker | – |
| `OrchestratorProofs` | proofs, from those of `SpotDeskProofs` and `VaultDriverProofs` | – |
| `MCOrchestrator` | the scenarios and the deals that meet | – |
| `SumTheorems` | finite sums, for the proofs | – |

### The spot market

An action is an instruction, with the conditions of its handler and of its
account constraints as guards; a failed instruction changes nothing and is no
step. Amounts are integers; `U64` is the modulus of the program's integers (the
runs use 10^6, large against every amount). Two actions are external: a counterparty
that returns stablecoins (`ReturnUsdc`) and holders who transfer unlocked
tokens (`TransferPosition`).

### The vault

An action is an instruction, as above. `Tick` moves the chain's clock, which
funding, elections and close-out read; `ReturnUsdc` is the broker's wire, at any
time and in any parts; `TransferShares` is a token transfer by holders whose
accounts are thawed. Fields that the program writes and never reads are left
out, and so is the phase `Refunded`, which nothing assigns. Sums are exact
integers because the program's are checked; saturating differences
(`SatSub`), integer division and the smallest of three limits on a deposit are
modelled as they are.

`Stage`, `Pot`, `Pool`, `Base` and `PaidOut` say what the claim tokens stand
for. While the vault raises money the pot is the deposits; while it is invested
it is what was subscribed and not deployed; once it pays, or refunds, it is the
pool less what has left it. These are the mapping under which the vault
implements `PooledFund`.

### The futures market

An action is an instruction, as above; `initialize` and `create_market` are the
initial state, since the parameters of a market are frozen when it is created
and its checks are the assumption on the constants. One market is modelled,
because no instruction touches two. Reserves, prices and margins are integers
with the divisions the program makes; keepers, whoever seeds the insurance and
whoever settles a position are anyone, so they are no part of the state.

### The saga runner

An action is what a worker does from one `await` to the next, together with the
store call it awaits: the store serves calls one at a time. A crash may come
between any two actions, and the memory store stands for the durable one that
`ports/store.ts` describes, so what it holds survives. Steps are not those of a
particular saga: `run` may return any result, and may throw any class of error;
a `RETRY` or `TERMINAL` error means that the effect did not happen, an ambiguous
one that it may have (`domain/errors.ts`). A resolver that vouches for an effect
tells the truth.

Between writes to different awaits the other workers, the operator and time may
act: leases lapse, delays end. One intent is modelled, since intents share
nothing in the runner; the time the worker spends on other intents of its batch
is a pause.

`spent.reopened` is bookkeeping and no state of the code: it says whether an
operator resumed the intent after its unwind had begun (`UnwindBegun`).

### The spot desk

A step of a saga is split where it awaits an effect whose order matters: the
effect, the entry that books it, the reservation, and the save of the stage
(place `save`). An interruption may come at any place. It stands for a crash
and for a call whose outcome stays unknown, and what follows it is the step's
resolver (place `lost`): it goes on from what it finds done, or parks what it
cannot tell. Once an outcome is journalled, an interruption makes the step run
again. Waiting is a step that is not enabled. An operator who resumes an intent
that had run all its steps finds no step left (`Driven`), and the runner
completes it (`complete`).

The treasury looks before it holds: `chooseFunding` asks `canFund`, `reserve`
asks again, by the ceiling on what an intent may hold and by the balance less
the holds of others, and `hold` creates the hold on what was read then. Between
any two of them other intents do the same. A purchase is sized to what its escrow
covers (`planned`) and asks for `Headroom` on top of its price; whether what is
left makes a board lot is a free choice, as lots are not modelled.

Amounts count shares at the limit price. Spread, commission and rates are one,
so that an entry moves a number of shares in each of its accounts; the broker
fills in parts, and not always in full. Traders, broker, money services
provider, custodian and operator act whenever they may.

### The vault driver

A tick is split at its awaits. The loop's tick and the one that an operator's
request makes may overlap, as the second takes no lease; `stale` says that the
record was saved by another since the tick read it, which makes its own save
throw. A tick may break off anywhere, and the next starts from the stored
record and the chain. `Submit` is a transition on the chain: made, made already
or refused. The ballot, the wire, the sale and the way home end well or badly.

### Both together

`Orchestrator` runs the desk and the driver over one `ledger` and lets the
vault's money through the same balance at the broker (`BrokerCash`). It instantiates
`VaultDriver` by name with its bounds renamed; every step is a step of one of
the two, which leaves the other's variables alone.

## Runs

| Run | Instance | Shows |
|---|---|---|
| `spot_orders` | 2 traders, 3 orders, spread 5 %, lock on | type, solvency, sweeps, refundability, totals equal sums over orders, supply equals custody, backing, wallets |
| `spot_escrow` | 2 traders, 2 orders, 3 rates (one illegal), 2 operators, lock toggled, transfers | an order keeps its terms; accounts re-locked; the abstract escrow is implemented |
| `vault_fund` | 2 depositors, cap 8, address limit 5, fee 20 % at entry or exit, lock toggled, transfers | type, solvency, every token covered, limits, books, deliveries, re-locking; the abstract fund is implemented |
| `vault_elected` | 1 depositor who elects delivery for everything | violation, see Findings |
| `futures_market` | 2 traders, pool of 100, leverage 3, fees 5 %, open-interest cap 60 | type, the running totals are sums over positions, the pool is a closed circuit, only bankruptcies cost the others, nobody enters liquidatable |
| `futures_backstop` | 2 traders, pool of 100, leverage 8 | violation, see Findings |
| `saga_crash` | 2 workers, 2 steps, steps that advance, unwind or fail for good, a crash, a lapse, an operator's call, a removed step | stale copies are harmless: order of steps, parked intents, the abstract record; no effect in flight is re-run; CANCELLED means undone, and COMPLETED done, unless an operator resumed a half-done unwind |
| `saga_rest` | 2 workers, 1 step, every result but TERMINAL (which unwinds like UNWIND), crash, lapse, poll, fairness | an intent always comes to rest |
| `saga_ambiguous`, `saga_uncovered` | 1 step | violations, see Findings |
| `orchestrator` | 3 purchases, a sale, a vault, in the scenarios below | tokens stay backed, fills are not dropped, holds end with their intents, phases follow facts, and the books agree with the chain, the custodian and the broker |
| `desk_float` | 2 sales, a float for one | violation, see Findings |

Bounds. Three orders are enough for two traders to be in conflict over the pool
while a third order is in another stage; each order goes through every stage.
Two workers, one lapse and one crash are what the races need: a third worker
could only repeat what the second does. `MaxPolls`, `MaxCrashes`, `MaxLapses`
and `MaxOperator` bound the environment and appear in the guards; the proofs
hold for all values of them. Deadlock is not checked where an intent at rest
leaves nothing to do, or a market or a vault at its end.

The vault's amounts make every division leave a remainder: a deposit of 5 pays a
fee of 1, a second is cut to the 3 that are left under the cap and pays none, 7
tokens are claimed, refunded or delivered in lots of 1 and 3, and returns come
in lots of 5. `MaxTime` and `MaxUsdc` bound the clock and the vault's account;
one tick is enough to pass each deadline before or after any other step.

The futures pool is as shallow as it can be with positions of 25 against 100:
each trade moves the price by half, so liquidations, losses beyond the margin,
cuts to what is held, draws on the insurance and settlement at a gain or at a
loss are all reached with two opens (`MaxOpens`), margins of 10 to 30 and part
closes of 20; `MaxCollateral` and `MaxInsurance` bound what is brought in.

Two properties of `saga_crash` (`NoRerunInFlight`, `CancelledMeansUndone`) speak
of the time before a lease lapses (`spent.lapses = 0`). After that they fail: a
worker whose lease has lapsed is not stopped, and two workers then run one step
at once.

Two more of its properties have an exception that lasts. `StepsInOrder` asks
only that earlier steps have had their effect, whatever was undone since.
`CompletedMeansDone` asks that every step is done and none undone, except in an
intent that an operator resumed after its unwind had begun: the runner goes
forward from the stage it stands at and does not look at what was compensated.
The run reaches such an intent. Step 1 is done, step 2 fails for good, step 1 is
compensated, the worker crashes, the next one's compensation throws, and the
intent is parked; the operator resumes it, step 2 goes through, and the intent
is COMPLETED with step 1 undone. Without the exception TLC finds that trace.

A scenario of `orchestrator` names the orders that are placed, the balance the
desk starts with in either currency, the ceiling on what an intent may hold of
it, whether counterparties fail, and how many interruptions and operator's calls
there are; a deal names what a vault raises, the phases that are authorised,
whether counterparties fail, and how many ticks overlap or break off. The run
has a purchase alone, of three shares that its escrow covers two of, and a sale
of two alone, each under a ceiling that lets it hold what it needs or under a
lower one, with failures, one interruption and one call; a sale with two calls,
which unwind it and resume it past its last step; a purchase beside a sale; two
purchases and a balance for one; a vault alone, through every phase, with an
overlap, with a crash, or raising more; and a purchase beside a vault that goes
to Deployed. Two orders are what a race for a balance needs (both may pass the
check and hold it), two shares what a partial fill needs, and one interruption
at each place is what a resolver is written for. `polls` bounds the conversions
that the driver books while a payout is pending, and `b2` and `b3`, which ask
for the same, are interchangeable. Deadlock is not checked: an order that waits
for a balance or a counterparty may wait for good.

Fairness (`saga_rest`). Each worker is weakly fair because every loop of
`main.ts` schedules itself again whatever its tick does, and leases and delays
end because time passes. Nothing is assumed of the operator or of crashes,
which are finitely many; a waiting step is polled finitely often (`MaxPolls`),
because the event it waits for comes.

## Proofs

Every theorem holds for all values of the constants that satisfy the
assumptions named below; a run shows the same property on a small instance.

Properties that speak of sums use `SumFunction` of the library, a fold. What is
needed of it is proved once in `SumTheorems`: induction is stated of a set, not of a formula
(`SubsetInduction`, from well-foundedness), and gives that a sum changes by what
one term changes (`SumChange`, `SumUpdate`), covers each term (`SumCovers`), grows
with its terms (`SumMonotone`) and may be taken over the terms that count
(`SumWithin`).

`MarcoSpotProofs`, for any number of traders, orders and any amounts. Solvency
(`Solvency`) alone is not inductive: `deploy_buy` subtracts with
saturation, and only when `usdc_escrowed` is the sum of what pending buys paid
in is nothing cut off. `IInv` therefore says that it is, that the escrow account
of shares holds the sum of the pending sells, and that no order lies ahead of
the counter; `TypeCorrect`, `SweepsBounded`, `RefundsCovered`, `EscrowMatched`
and `ImplementsEscrow` follow from it. The other totals need `Books` beside it: supply,
wallets and running totals are sums over the orders in given states
(`SupplyMatched`, `WalletsMatched`, `BooksMatched`); an instruction replaces one
order, so that each sum moves by its old and new term. `TermsKept` needs that
a deployed buy was charged the rate it was placed at (`SpreadAgreed`).
`OrdersRelocked` is proved for every setting of the lock; `LockHolds`, that every
account with tokens is frozen, assumes that no admin lifts it (`LockSettings
\subseteq {TRUE}`), as the run does: while it is off, tokens move freely.

`MarcoVaultProofs`, for any holders, limits, fee, amounts and times:
`TypeCorrect`, `Solvency`, `Covered` and `ImplementsFund`. What a vault owes when
it deploys, settles or is cancelled rests on what it took in before, so the
invariant `Money` has one part for each group of phases: while raising, the
deposits are the tokens plus the fees in escrow, and nothing has left; while
invested, no more is deployed than was subscribed; while paying and refunding,
what is left of the pool, times the divisor, is at least the pool times the
tokens in existence. The last is what survives rounding, by the lemma `PayOut`: a
rounded share of the pool leaves the others at least their shares, in the
pool's measure and in that of what was left. The products in it are beyond the
solver, so each inequality is led through small lemmas (`MulMono`, `MulCancel`,
`MulSub`, `MulSwap`). `BooksMatched` is about sums over the depositors.
`DeliveriesBacked` rests on `Elections`: shares owed, times all tokens, never
exceed the allocation times the tokens given up, and nothing is owed while the
allocation may still change. `LimitsHold` needs that a vault yet to open
is below its cap as well (`Limits`). `SharesRelocked` is about single steps.

`MarcoFuturesProofs`, for any number of traders, any parameters `create_market`
accepts and any amounts: `TypeCorrect`, `Books`, `ClosedCircuit` and
`BankruptciesOnly`. The
invariant is the type, the books, the closed circuit and that a flat position
has no cost; the books make each saturating subtraction exact, which the circuit
needs. One lemma per instruction shows how it moves a position
(`Moved`), that the pool takes the other side (`Circuit`) and what it costs the
pooled margin (`Fair`); `MovedKeeps` and `MovedCosts` do the rest once for all.
`EntriesSafe` is left to TLC: the mark is an integer, and for prices of a
few units its rounding can take more than the gap between the two margins.

`SagaRunnerProofs`, for any number of workers, steps, crashes, lapses and
operator calls: `TypeCorrect`, `InOrder`, `ParkedUntouched`, `ImplementsRecord`
and `CompletedDone`. The invariant has three parts beside the type: a copy that
bears the stored version equals the stored record (`Coherent`), what a worker is
about to do suits its copy (`Placed`), and every step up to a known stage has
had its effect (`Covered`). The first turns optimistic locking into a fact about
states: any save that is accepted starts from the record. `CompletedDone` says
that a completed intent has every step done and none undone, unless it was
resumed after its unwind had begun. It needs that nothing leads back from an
unwind (`Backward`, `WayBack`): a step is undone, or a worker undoes one, only
while the stored intent is UNWINDING, CANCELLED or parked, until an operator
resumes it, which the invariant then records. `CancelledUndone` and `NoRerun`
speak of the time before a lease lapses. Then one worker at most is at the
intent (`Alone`), so that what it read in the journal is still so when it acts,
and an unwind that another crashed worker began goes on where it stands
(`Orderly`).

`SpotDeskProofs`, for any orders, amounts, balances and scenarios: `HoldsEnd`
and `FilledKept`. Why an intent may be cancelled, and why nothing is held for
one that ended, depends on the step it was at, so the invariant `Clean` says for
each order where its worker can be (`WellPlaced`), what its order at the broker
is by then (`Traded`), what it means that it is given up (`GivenUp`: no order at
work, and if any was filled, an excuse or a hold that expired and stops the
unwinding for a human), and that a hold is known to its intent, which has still
to spend it (`HoldKnown`). An operator can unwind anything, so `Clean` is
claimed until an operator intervened. Most steps are one of four moves, taken, going on
within the step, giving up and stopping, each proved once. `TypeCorrect` and
`SharesBehindTokens` hold whatever an operator does: no order is filled beyond
what was asked, and no purchase reaches its mint before its trade has settled
at the custodian (`Backed`), whence the supply, as a sum over the
orders, stays behind the holdings, term by term.
`BooksAgree` is about all accounts at once. Without interruptions each step is
at a place that fits its stage (`Straight`), or its order gave up a hold or was
filled on money that came just in time (`Strayed`), which the property sets apart;
each posting belongs to a milestone that an order passes once, and an account is
its opening balance plus what every order posted at the milestones that it has passed
(`Matched`; `PowerMatched` for the cash at the broker, which effects move before the
books do). A step moves one order past one milestone or none (`Follows`). At rest
each order has passed all the milestones of its end or none, and the sums fall
together with the holdings, the supply and the cash, term by term.

`VaultDriverProofs`, for any deals, overlaps and crashes: `TypeCorrect` and
`Justified`. A phase follows its fact because the tick that tells the chain has
seen the fact and facts are not undone: the invariant says that of every tick
about to submit (`Seeing`), and that no more is delivered than was allocated.
The rest serves the composition. A deal that raises nothing never begins
(`Quiet`). The dollars on the chain are given by the phase (`ChainCash`); a tick
that is between an effect and its posting has its vault in the phase of that effect, and
no two of them are about to book a deployment (`Marks`); and as long as ticks
neither overlap nor break off, a vault that is settled is either about to be booked by the one
tick that settled it, or no tick aims at a settlement any more (`Orderly`). What the
books hold of the vault's dollars is then a function of its state (`Share`), and
every step posts to the escrow what its share grows by (`CourseKeeps`).

`OrchestratorProofs` carries these over to both together: `DeskTyped`,
`DeskBacked`, `DeskKeepsFills`, `DeskEndsHolds`, `DriverJustified`, `DeskBooks`
and `EscrowBooked`. The
invariant (`Side`) is that of the desk and that of the driver, each in its own
variables; a step of one leaves the other's as it was, but for the ledger and
the balance at the broker, of which the desk's invariant asks no more than
their types, and those every entry of the driver keeps (`DriverPosts`). The books
of the desk stand beside a vault that holds nobody's money (`Beside`). The escrow
account stands with any vault: it is the sum of what the desk's orders have locked
(`Locked`) and the vault's `Share`, and between two effects the first is the escrow
of the pending orders and the second the balance of the vault. The lemmas about the
driver are those of `VaultDriverProofs`, instantiated as `Kept`; `SameAct` shows that
its actions are those of the instance in `Orchestrator`.

The assumptions are those on the constants (`SpotAssumption`,
`VaultAssumption`, `FuturesAssumption`, `RunnerAssumption`, `DeskAssumption`,
`DealsAssumption`, `TogetherAssumption`), which TLC evaluates in the runs.
Model-checked, not proved: liveness (`saga_rest`), which is out of the prover's
reach, and `EntriesSafe`, which is false for prices of a few units.

## Findings

Each of these is shown by a run that TLC must find violated.

- `saga_ambiguous`: a crash after an ambiguous outcome is journalled and before
  the intent is parked makes the next tick run the step again.
- `saga_uncovered`: a crash after a completed step is journalled and before the
  stage is saved can end in a cancellation that leaves the step in place.
- `futures_backstop`: a winner who closes while the pooled margin is short is
  paid short and loses the claim, with the insurance fund untouched; liquidation
  refunds are cut in the same way, only settlement draws on the fund.
- `desk_float`: a sale asks whether the float can pay it and reserves after an
  `await`. When another sale has reserved the float in between, the reservation throws a
  terminal error and the sale is cancelled, though the broker has sold the
  shares; the comment in `spot-sell.ts` says that it waits.
- `vault_elected`: `settle` refuses a vault whose every token was given up for
  delivery and says to conclude it, but `conclude` accepts only `Claimable` and
  `Winding`: the vault stays in `Realized`.

Observations, read in the code while modelling and not given a run:

- `notional` truncates to 64 bits, so the over-mint guard of `confirm_buy` passes
  for a large enough quantity.
- A new spread rate does not reach orders placed before it, against the comment
  on `set_fee_bps`; `set_market_status` re-opens a closed market.
- Polls use up the retries of a step; the unwind route takes an intent out of
  COMPLETED.
- A claim needs the caller's own `BuyerState`, so one who bought claim tokens on
  a market cannot redeem them; a total loss leaves a vault in `Realized`; money
  wired after settlement belongs to nobody.
- `releaseLease` deletes a lease whoever holds it, so a slow worker takes away
  that of its successor.
- A liquidation pays its keeper out of the other margins when the position is
  already under water, though the pool is to stay whole; margin that lies in a
  flat position when its market is settled can be neither withdrawn nor settled;
  an increase of a losing position is checked against its margin, not its equity.
- A trader may take a sale back on the chain while the broker sells the shares.
  `CUSTODY_OUTBOUND` is then never cleared, and the backing check adds it to
  the custodian's holdings, so that the shortfall stays hidden from the interlock.
- The postings for cancelled orders and for refunds (`buyCancelled`,
  `sellCancelled`, `vaultRefunded`) are called by no code; a purchase that is
  deployed and filled in part, or not at all, keeps the rest in the books.
- Funded just in time, a purchase never posts its conversion; a sale without a
  hold waits for ever when the float stays empty, or when it is larger than the
  ceiling, as the proceeds come home in the step after.
- `reserve` checks the balance, awaits, and creates the hold: two intents that
  check before either creates hold more than there is.
- An operator may resume an intent parked halfway through its unwind; it goes
  forward over the steps that were compensated and may complete (see Runs).
- A hold that expires during a settlement lets others reserve the same balance.
  After a crash the intent's own hold counts against it in `canFund`.
- The escrow of a purchase whose booking fails is never booked, as the next poll
  finds the intent; a step interrupted after its entry and before its save posts
  the entry again.
- The driver posts the conversion again at every poll while the payout is
  pending, and the settlement again after a crash before the save, against the
  comment at line 551. `vaultAllocated` is skipped when the allotment was known
  at Sourced.
- The operator may request Live before conversion and wire are made; they are
  then never made. A mandate with nothing to sell advances while the chain stays
  Live.
- A vault's application money is booked into `BROKER_BUFFER`, from which
  purchases are promised, and its sale is booked nowhere, so that
  `BROKER_PROCEEDS` goes below zero when the proceeds are sent home.

## Plan

Done: the three programs, the saga runner, the spot desk (watcher, sagas,
treasury, backing check), the vault driver with its mandates, and the
composition of the last two over one ledger, each with proofs. Next, in this order:

1. `EntriesSafe` under the least price for which the rounding of the mark cannot
   take the gap between the two margins; which one that is has to be found first.
2. What the MSB's accounts hold of a vault whose conversion is booked more than
   once, with the bound on polls as its measure.
3. The delivery saga with the vault's share accounts, and refunds once they are
   posted.

## Not modelled

- The delivery saga of a vault, which moves shares between share accounts; the
  treasury's top-up plans, which no code carries out.
- Spread, commission, fees and rates in the orchestrator: the programs model
  their own fees and rounding; in the books they are further accounts that
  balance in the same entries.
- Batches and the cursor of the watcher: an event that is not stored is seen
  again, and one that is stored is found.
- Webhooks, statements and the severities and ages of breaks: they inform
  people.
- Encoding of transactions, RPC, the HTTP framework, signature checks,
  configuration, money formatting, front-ends, generated clients and deployment
  scripts: input and output, or data with no state that the system depends on.
