----------------------------- MODULE MarcoVault -----------------------------
(***************************************************************************)
(* The on-chain pre-IPO vault (pre-ipo/programs/marco-vault): depositors   *)
(* subscribe stablecoins against claim tokens, the capital goes to a       *)
(* broker, and what comes back is shared out over the tokens.  A vault     *)
(* that dies before deployment refunds instead.  An action is one          *)
(* instruction; an instruction that fails changes nothing and is no step.  *)
(* Fields that are written and never read (undeployed_amount,              *)
(* gross_proceeds, settlement_amount, entry_fee_paid) are left out, and    *)
(* wallets are as full as a deposit needs.  Amounts are integers: every    *)
(* sum in the program is checked, and no quotient exceeds its dividend.    *)
(***************************************************************************)
EXTENDS Integers, Functions, FiniteSets

CONSTANTS
    Holders,            \* wallets that may hold claim tokens
    Admin, Operators,   \* the admin and the candidates for the operator's key
    DepositCap, MinDeposit, MaxDeposit,     \* MaxDeposit = 0: no limit
    FeeBps,
    FundingStart, FundingDeadline, CloseOutAt,
    \* Bounds of the model: what callers pass in, and how far time and the
    \* vault's account go.
    UsdcAmounts,        \* deposits, deployments, costs, returns
    ShareAmounts,       \* tokens claimed, refunded, delivered, transferred
    Allocations,        \* real shares acquired by the broker
    Periods,            \* lengths of the election window and of extensions
    LockSettings, MaxTime, MaxUsdc

MAX_FEE_BPS == 2000

ASSUME VaultAssumption ==
    /\ IsFiniteSet(Holders)
    /\ DepositCap \in Nat \ {0} /\ MinDeposit \in Nat /\ MaxDeposit \in Nat
    /\ MaxDeposit > 0 => MaxDeposit >= MinDeposit
    /\ FeeBps \in 0 .. MAX_FEE_BPS
    /\ FundingStart \in Nat /\ FundingDeadline \in Nat /\ CloseOutAt \in Nat
    /\ FundingDeadline > FundingStart /\ CloseOutAt >= FundingDeadline
    /\ UsdcAmounts \subseteq Nat /\ ShareAmounts \subseteq Nat
    /\ Allocations \subseteq Nat /\ Periods \subseteq Nat
    /\ LockSettings \subseteq BOOLEAN
    /\ MaxTime \in Nat /\ MaxUsdc \in Nat

VARIABLES
    vault,              \* the Vault account
    buyer,              \* the BuyerState accounts, by depositor
    vault_usdc,         \* balance of the vault's stablecoin account
    supply,             \* claim tokens in existence
    shares,             \* claim tokens held, by wallet
    account_frozen,     \* wallets whose claim-token account is frozen
    now                 \* the chain's clock

vars == <<vault, buyer, vault_usdc, supply, shares, account_frozen, now>>
tokenVars == <<supply, shares, account_frozen>>

\* VaultPhase without Refunded, which no instruction assigns.
Phases == {"Scheduled", "Funding", "Sealed", "Sourcing", "Sourced", "Deployed",
           "Live", "Realized", "Claimable", "Winding", "Concluded", "Cancelled"}

Vault ==
    [phase : Phases, frozen : BOOLEAN, transfer_lock : BOOLEAN, fee_at_exit : BOOLEAN,
     operator : Operators, funding_deadline : Nat, election_deadline : Nat,
     total_deposits : Nat, total_shares : Nat,
     deployable_amount : Nat, total_deployed : Nat,
     shares_allocated : Nat, delivered_shares : Nat, redeemable_amount : Nat,
     total_redeemed_shares : Nat, total_redeemed_usdc : Nat,
     fees_escrowed : Nat, fees_collected : Nat, fees_swept : Nat,
     unrefundable_costs : Nat, total_refunded_usdc : Nat]

Buyer ==
    [deposit_amount : Nat, shares_minted : Nat, shares_redeemed : Nat,
     usdc_redeemed : Nat, usdc_refunded : Nat,
     shares_delivered : Nat, underlying_delivered : Nat]

NoBuyer ==
    [deposit_amount |-> 0, shares_minted |-> 0, shares_redeemed |-> 0,
     usdc_redeemed |-> 0, usdc_refunded |-> 0,
     shares_delivered |-> 0, underlying_delivered |-> 0]

Init ==
    /\ \E op \in Operators :
          vault = [phase |-> "Scheduled", frozen |-> FALSE, transfer_lock |-> TRUE,
                   fee_at_exit |-> FALSE, operator |-> op,
                   funding_deadline |-> FundingDeadline, election_deadline |-> 0,
                   total_deposits |-> 0, total_shares |-> 0,
                   deployable_amount |-> 0, total_deployed |-> 0,
                   shares_allocated |-> 0, delivered_shares |-> 0,
                   redeemable_amount |-> 0, total_redeemed_shares |-> 0,
                   total_redeemed_usdc |-> 0,
                   fees_escrowed |-> 0, fees_collected |-> 0, fees_swept |-> 0,
                   unrefundable_costs |-> 0, total_refunded_usdc |-> 0]
    /\ buyer = [h \in Holders |-> NoBuyer]
    /\ vault_usdc = 0
    /\ supply = 0
    /\ shares = [h \in Holders |-> 0]
    /\ account_frozen = [h \in Holders |-> FALSE]
    /\ now = 0

-----------------------------------------------------------------------------
(* state.rs: the arithmetic of the vault.                                  *)

Lesser(a, b) == IF a <= b THEN a ELSE b
SatSub(a, b) == IF a >= b THEN a - b ELSE 0

fee_on(amount) == (amount * FeeBps) \div 10000

fees_outstanding(v) == SatSub(v.fees_collected, v.fees_swept)

\* Faulty variant, for checking the checks: the cohort shrinks with each claim.
CashSharesLeft(v) ==
    SatSub(v.total_shares, v.delivered_shares + v.total_redeemed_shares)

cash_shares(v) == SatSub(v.total_shares, v.delivered_shares)

\* Faulty variant: rounding in favour of the one who is paid.
ProRataRoundedUp(pool, n, base) ==
    IF base = 0 THEN 0 ELSE (pool * n + base - 1) \div base

ProRata(pool, n, base) == IF base = 0 THEN 0 ELSE (pool * n) \div base

\* Faulty variant: the allocation divided over those who have not elected yet.
UnderlyingOfCashCohort(v, n) == ProRata(v.shares_allocated, n, cash_shares(v))

underlying_for(v, n) == ProRata(v.shares_allocated, n, v.total_shares)
redeem_amount(v, n)  == ProRata(v.redeemable_amount, n, cash_shares(v))
refund_pool(v)       == SatSub(v.total_deposits, v.unrefundable_costs)
refund_amount(v, n)  == ProRata(refund_pool(v), n, v.total_shares)

InPhase(phases) == vault.phase \in phases

\* A BuyerState account exists for whoever made a deposit.
IsBuyer(h) == buyer[h].shares_minted > 0

-----------------------------------------------------------------------------
(* Funding.                                                                *)

Advance(phases, phase) ==
    /\ InPhase(phases)
    /\ vault' = [vault EXCEPT !.phase = phase]

open_funding ==
    /\ now >= FundingStart
    /\ Advance({"Scheduled"}, "Funding")
    /\ UNCHANGED <<buyer, vault_usdc, tokenVars, now>>

\* Faulty variant: the address limit applied to each deposit alone.
AcceptedPerDeposit(h, amount) ==
    LET room == Lesser(amount, SatSub(DepositCap, vault.total_deposits))
    IN  IF MaxDeposit = 0 THEN room ELSE Lesser(room, MaxDeposit)

\* The smallest of the intent, the room under the cap and the room left for
\* the address; it is all that leaves the depositor's wallet.
Accepted(h, amount) ==
    LET room == Lesser(amount, SatSub(DepositCap, vault.total_deposits))
    IN  IF MaxDeposit = 0 THEN room
        ELSE Lesser(room, SatSub(MaxDeposit, buyer[h].deposit_amount))

EntryFee(accepted) == IF vault.fee_at_exit THEN 0 ELSE fee_on(accepted)

\* The phase after a deposit: the vault seals itself when the cap is reached.
PhaseAt(deposits) == IF deposits >= DepositCap THEN "Sealed" ELSE vault.phase

deposit(h, amount) ==
    LET accepted   == Accepted(h, amount)
        fee        == EntryFee(accepted)
        subscribed == accepted - fee
    IN  /\ InPhase({"Funding"}) /\ ~vault.frozen
        /\ now < vault.funding_deadline
        /\ accepted >= MinDeposit /\ subscribed > 0
        /\ vault_usdc + accepted <= MaxUsdc
        /\ vault' = [vault EXCEPT
                        !.total_deposits = @ + accepted,
                        !.total_shares   = @ + subscribed,
                        !.fees_escrowed  = @ + fee,
                        !.phase = PhaseAt(vault.total_deposits + accepted)]
        /\ buyer' = [buyer EXCEPT ![h].deposit_amount = @ + accepted,
                                  ![h].shares_minted  = @ + subscribed]
        /\ vault_usdc' = vault_usdc + accepted
        /\ supply' = supply + subscribed
        /\ shares' = [shares EXCEPT ![h] = @ + subscribed]
        /\ account_frozen' = [account_frozen EXCEPT ![h] = vault.transfer_lock]
        /\ UNCHANGED now

seal_funding ==
    /\ Advance({"Funding"}, "Sealed")
    /\ UNCHANGED <<buyer, vault_usdc, tokenVars, now>>

-----------------------------------------------------------------------------
(* Deployment and sale.                                                    *)

begin_sourcing ==
    /\ Advance({"Sealed"}, "Sourcing")
    /\ UNCHANGED <<buyer, vault_usdc, tokenVars, now>>

confirm_allocation(deployable) ==
    /\ InPhase({"Sourcing"})
    /\ deployable <= vault.total_shares
    /\ vault' = [vault EXCEPT !.deployable_amount = deployable, !.phase = "Sourced"]
    /\ UNCHANGED <<buyer, vault_usdc, tokenVars, now>>

\* The first deployment earns the entry fees held in escrow.
Earned(v) ==
    IF v.phase = "Sourced"
    THEN [v EXCEPT !.phase = "Deployed", !.fees_escrowed = 0,
                   !.fees_collected = @ + v.fees_escrowed]
    ELSE v

\* The most a deployment may take (deploy_capital).
Deployable(v) == SatSub(v.deployable_amount, v.total_deployed)

deploy_capital(signer, amount) ==
    /\ signer \in {Admin, vault.operator}
    /\ InPhase({"Sourced", "Deployed"})
    /\ amount > 0 /\ amount <= Deployable(vault)
    /\ amount <= vault_usdc
    /\ vault_usdc' = vault_usdc - amount
    /\ vault' = Earned([vault EXCEPT !.total_deployed = @ + amount])
    /\ UNCHANGED <<buyer, tokenVars, now>>

mark_listed(allocated, period) ==
    /\ InPhase({"Deployed"})
    /\ vault' = [vault EXCEPT !.shares_allocated = allocated,
                              !.election_deadline = now + period, !.phase = "Live"]
    /\ UNCHANGED <<buyer, vault_usdc, tokenVars, now>>

\* Faulty variants: no balance check; the whole account burned; left thawed.
BurnedUnchecked(h, n) ==
    /\ n > 0 /\ n <= supply
    /\ shares' = [shares EXCEPT ![h] = @ - n]
    /\ supply' = supply - n
    /\ account_frozen' =
          [account_frozen EXCEPT ![h] = vault.transfer_lock /\ shares[h] > n]

BurnedWhole(h, n) ==
    /\ n > 0 /\ n <= shares[h] /\ shares[h] <= supply
    /\ shares' = [shares EXCEPT ![h] = 0]
    /\ supply' = supply - shares[h]
    /\ account_frozen' = [account_frozen EXCEPT ![h] = FALSE]

BurnedLeftThawed(h, n) ==
    /\ n > 0 /\ n <= shares[h] /\ n <= supply
    /\ shares' = [shares EXCEPT ![h] = @ - n]
    /\ supply' = supply - n
    /\ account_frozen' = [account_frozen EXCEPT ![h] = FALSE]

\* The account is thawed for the burn and locked again unless it is empty.
Burned(h, n) ==
    /\ n > 0 /\ n <= shares[h] /\ n <= supply
    /\ shares' = [shares EXCEPT ![h] = @ - n]
    /\ supply' = supply - n
    /\ account_frozen' =
          [account_frozen EXCEPT ![h] = vault.transfer_lock /\ shares[h] > n]

elect_delivery(h, n) ==
    /\ IsBuyer(h)
    /\ InPhase({"Live"}) /\ now < vault.election_deadline
    /\ underlying_for(vault, n) > 0
    /\ Burned(h, n)
    /\ vault' = [vault EXCEPT !.delivered_shares = @ + n]
    /\ buyer' = [buyer EXCEPT
                    ![h].shares_delivered     = @ + n,
                    ![h].underlying_delivered = @ + underlying_for(vault, n)]
    /\ UNCHANGED <<vault_usdc, now>>

mark_realized ==
    /\ now >= vault.election_deadline
    /\ Advance({"Live"}, "Realized")
    /\ UNCHANGED <<buyer, vault_usdc, tokenVars, now>>

-----------------------------------------------------------------------------
(* Redemption.                                                             *)

\* Faulty variant: fees that were earned already count as redeemable.
RedeemableWithFees == vault_usdc

\* What settlement makes redeemable: the balance less fees already earned.
Redeemable == SatSub(vault_usdc, fees_outstanding(vault))

settle ==
    /\ InPhase({"Realized"})
    /\ cash_shares(vault) > 0
    /\ Redeemable > 0
    /\ vault' = [vault EXCEPT !.redeemable_amount = Redeemable, !.phase = "Claimable"]
    /\ UNCHANGED <<buyer, vault_usdc, tokenVars, now>>

ExitFee(gross) == IF vault.fee_at_exit THEN fee_on(gross) ELSE 0

claim(h, n) ==
    LET gross  == redeem_amount(vault, n)
        fee    == ExitFee(gross)
        payout == gross - fee
    IN  /\ IsBuyer(h)
        /\ InPhase({"Claimable", "Winding"})
        /\ payout > 0 /\ payout <= vault_usdc
        /\ Burned(h, n)
        /\ vault_usdc' = vault_usdc - payout
        /\ vault' = [vault EXCEPT !.total_redeemed_shares = @ + n,
                                  !.total_redeemed_usdc = @ + payout,
                                  !.fees_collected = @ + fee]
        /\ buyer' = [buyer EXCEPT ![h].shares_redeemed = @ + n,
                                  ![h].usdc_redeemed = @ + payout]
        /\ UNCHANGED now

wind_down ==
    /\ Advance({"Claimable"}, "Winding")
    /\ UNCHANGED <<buyer, vault_usdc, tokenVars, now>>

conclude ==
    /\ now >= CloseOutAt
    /\ Advance({"Claimable", "Winding"}, "Concluded")
    /\ UNCHANGED <<buyer, vault_usdc, tokenVars, now>>

\* A sweep of nothing is accepted and changes nothing: no step.
sweep_fee(amount) ==
    /\ InPhase({"Claimable", "Winding", "Concluded"})
    /\ amount <= fees_outstanding(vault) /\ amount <= vault_usdc
    /\ vault_usdc' = vault_usdc - amount
    /\ vault' = [vault EXCEPT !.fees_swept = @ + amount]
    /\ UNCHANGED <<buyer, tokenVars, now>>

-----------------------------------------------------------------------------
(* Cancellation.                                                           *)

cancel(costs) ==
    /\ InPhase({"Scheduled", "Funding", "Sealed", "Sourcing", "Sourced"})
    /\ costs <= vault.total_deposits
    /\ vault' = [vault EXCEPT !.unrefundable_costs = costs, !.phase = "Cancelled"]
    /\ UNCHANGED <<buyer, vault_usdc, tokenVars, now>>

refund(h, n) ==
    LET payout == refund_amount(vault, n)
    IN  /\ IsBuyer(h)
        /\ InPhase({"Cancelled"})
        /\ payout > 0 /\ payout <= vault_usdc
        /\ Burned(h, n)
        /\ vault_usdc' = vault_usdc - payout
        /\ vault' = [vault EXCEPT !.total_refunded_usdc = @ + payout]
        /\ buyer' = [buyer EXCEPT ![h].shares_redeemed = @ + n,
                                  ![h].usdc_refunded = @ + payout]
        /\ UNCHANGED now

-----------------------------------------------------------------------------
(* Administration and the token lock.                                      *)

set_funding_deadline(deadline) ==
    /\ InPhase({"Funding"}) /\ deadline > now
    /\ vault' = [vault EXCEPT !.funding_deadline = deadline]
    /\ UNCHANGED <<buyer, vault_usdc, tokenVars, now>>

freeze_deposits(frozen) ==
    /\ vault' = [vault EXCEPT !.frozen = frozen]
    /\ UNCHANGED <<buyer, vault_usdc, tokenVars, now>>

set_transfer_lock(locked) ==
    /\ vault' = [vault EXCEPT !.transfer_lock = locked]
    /\ UNCHANGED <<buyer, vault_usdc, tokenVars, now>>

set_fee_timing(at_exit) ==
    /\ vault.total_shares = 0
    /\ vault' = [vault EXCEPT !.fee_at_exit = at_exit]
    /\ UNCHANGED <<buyer, vault_usdc, tokenVars, now>>

update_operator(op) ==
    /\ vault' = [vault EXCEPT !.operator = op]
    /\ UNCHANGED <<buyer, vault_usdc, tokenVars, now>>

unlock_shares(h) ==
    /\ ~vault.transfer_lock
    /\ account_frozen' = [account_frozen EXCEPT ![h] = FALSE]
    /\ UNCHANGED <<vault, buyer, vault_usdc, supply, shares, now>>

-----------------------------------------------------------------------------
(* What happens around the program.                                        *)

\* The broker wires the proceeds, at any time and in any number of parts.
ReturnUsdc(amount) ==
    /\ vault_usdc + amount <= MaxUsdc
    /\ vault_usdc' = vault_usdc + amount
    /\ UNCHANGED <<vault, buyer, tokenVars, now>>

\* A token transfer; the token program refuses frozen accounts.
TransferShares(h, g, n) ==
    /\ h # g /\ n <= shares[h]
    /\ ~account_frozen[h] /\ ~account_frozen[g]
    /\ shares' = [shares EXCEPT ![h] = @ - n, ![g] = @ + n]
    /\ UNCHANGED <<vault, buyer, vault_usdc, supply, account_frozen, now>>

Tick ==
    /\ now < MaxTime
    /\ now' = now + 1
    /\ UNCHANGED <<vault, buyer, vault_usdc, tokenVars>>

HolderStep ==
    \E h \in Holders :
       \/ \E amount \in UsdcAmounts : deposit(h, amount)
       \/ \E n \in ShareAmounts :
             \/ elect_delivery(h, n)
             \/ claim(h, n)
             \/ refund(h, n)
             \/ \E g \in Holders : TransferShares(h, g, n)
       \/ unlock_shares(h)

PhaseStep ==
    \/ open_funding
    \/ seal_funding
    \/ begin_sourcing
    \/ \E deployable \in UsdcAmounts : confirm_allocation(deployable)
    \/ \E allocated \in Allocations, period \in Periods : mark_listed(allocated, period)
    \/ mark_realized
    \/ settle
    \/ wind_down
    \/ conclude
    \/ \E costs \in UsdcAmounts \cup {0} : cancel(costs)

StaffStep ==
    \/ \E signer \in {Admin} \cup Operators, amount \in UsdcAmounts :
          deploy_capital(signer, amount)
    \/ \E amount \in 1 .. fees_outstanding(vault) : sweep_fee(amount)
    \/ \E period \in Periods : set_funding_deadline(now + period)
    \/ \E frozen \in BOOLEAN : freeze_deposits(frozen)
    \/ \E locked \in LockSettings : set_transfer_lock(locked)
    \/ \E at_exit \in BOOLEAN : set_fee_timing(at_exit)
    \/ \E op \in Operators : update_operator(op)

Next ==
    \/ HolderStep
    \/ PhaseStep
    \/ StaffStep
    \/ \E amount \in UsdcAmounts : ReturnUsdc(amount)
    \/ Tick

Spec == Init /\ [][Next]_vars

-----------------------------------------------------------------------------
TypeOK ==
    /\ vault \in Vault
    /\ buyer \in [Holders -> Buyer]
    /\ vault_usdc \in Nat
    /\ supply \in Nat
    /\ shares \in [Holders -> Nat]
    /\ account_frozen \in [Holders -> BOOLEAN]
    /\ now \in Nat

(* What the claim tokens stand for, by the stage the vault is in.           *)

Stage ==
    CASE InPhase({"Deployed", "Live", "Realized"}) -> "invested"
      [] InPhase({"Claimable", "Winding"}) -> "paying"
      [] InPhase({"Concluded"}) -> "closed"
      [] InPhase({"Cancelled"}) -> "refunding"
      [] OTHER -> "raising"

\* The pool that is shared out, over how many tokens, and what has left it.
Pool == IF Stage = "refunding" THEN refund_pool(vault) ELSE vault.redeemable_amount
Base == IF Stage = "refunding" THEN vault.total_shares ELSE cash_shares(vault)
PaidOut ==
    IF Stage = "refunding" THEN vault.total_refunded_usdc
    ELSE vault.total_redeemed_usdc + (IF vault.fee_at_exit THEN vault.fees_collected ELSE 0)

\* The stablecoins in the vault that belong to the tokens.
Pot ==
    CASE Stage = "raising"  -> vault.total_deposits
      [] Stage = "invested" -> vault.total_shares - vault.total_deployed
      [] OTHER -> Pool - PaidOut

\* Whatever the phase, the vault's account covers what belongs to the tokens
\* and the fees earned on top: a sweep "can never touch depositors' redeemable
\* balance" (sweep_fee.rs), a deployment never the fee or the remainder.
Solvent == Pot >= 0 /\ vault_usdc >= Pot + fees_outstanding(vault)

\* Rounded payments out of one pool, in any order and any portions, leave each
\* token in existence its full share (claim.rs, refund.rs).
TokensCovered ==
    Stage \in {"paying", "closed", "refunding"} => (Pool - PaidOut) * Base >= Pool * supply

\* The cap and the address limits hold against deposits in any number of parts,
\* and a vault that is full is never still open (deposit.rs, auto-seal).
LimitsKept ==
    /\ vault.total_deposits <= DepositCap
    /\ InPhase({"Funding"}) => vault.total_deposits < DepositCap
    /\ \A h \in Holders :
          /\ MaxDeposit > 0 => buyer[h].deposit_amount <= MaxDeposit
          /\ IsBuyer(h) => buyer[h].deposit_amount >= MinDeposit

\* What the depositors' records add up to, field by field.
Total(field) == SumFunction([h \in Holders |-> buyer[h][field]])

\* The vault's totals are the sums over its depositors' records, and the claim
\* tokens in existence are those in wallets: what was minted less what was
\* claimed, refunded or given up for delivery.
BooksMatchBuyers ==
    /\ vault.total_deposits = Total("deposit_amount")
    /\ vault.total_shares = Total("shares_minted")
    /\ vault.delivered_shares = Total("shares_delivered")
    /\ vault.total_redeemed_usdc = Total("usdc_redeemed")
    /\ vault.total_refunded_usdc = Total("usdc_refunded")
    /\ supply = SumFunction(shares)
    /\ supply = vault.total_shares - Total("shares_redeemed") - vault.delivered_shares
    /\ ~InPhase({"Cancelled"}) => vault.total_redeemed_shares = Total("shares_redeemed")

\* The broker never owes more real shares than it acquired, however the
\* elections are cut up and rounded (elect_delivery.rs, underlying_for).
DeliveriesCovered == Total("underlying_delivered") <= vault.shares_allocated

\* While the lock is on, an account that claim tokens are minted to or burned
\* from comes out frozen if it holds any, and only then (lock.rs).
SharesRelock ==
    [][\A h \in Holders :
          vault.transfer_lock /\ supply' # supply /\ shares'[h] # shares[h]
             => account_frozen'[h] = (shares'[h] > 0)]_vars

-----------------------------------------------------------------------------
(* The vault keeps the promise of a pooled fund.                           *)

Fund == INSTANCE PooledFund WITH
    stage <- Stage, pot <- Pot, tokens <- supply, earned <- fees_outstanding(vault)

\* Stages follow each other as promised, no fee is earned before capital is
\* deployed, and no payment makes the holders who remain worse off.
FundSpec == Fund!Spec

-----------------------------------------------------------------------------
(* What the documentation says of the program and the program does not do. *)

\* An admin who takes every step towards the end of a vault that it accepts.
FairSpec == Spec /\ WF_vars(settle) /\ WF_vars(conclude) /\ WF_vars(Tick)

\* settle.rs: "a fully-elected vault should be concluded, not settled."
FullyElectedConcludes ==
    InPhase({"Realized"}) /\ cash_shares(vault) = 0 ~> InPhase({"Concluded"})

=============================================================================
