-------------------------- MODULE MarcoVaultProofs --------------------------
(***************************************************************************)
(* What holds of the vault for every number of depositors, every amount,   *)
(* every fee and every order of calls.                                     *)
(***************************************************************************)
EXTENDS MarcoVault, SumTheorems, TLAPS

-----------------------------------------------------------------------------
(* Arithmetic.  The provers know little of products: these are the facts   *)
(* about them that shares of a pool rest on.                               *)

LEMMA DivBound ==
  ASSUME NEW a \in Nat, NEW b \in Nat, b > 0
  PROVE  a \div b \in Nat /\ b * (a \div b) <= a
BY SMT

LEMMA MulMono ==
  ASSUME NEW a \in Int, NEW b \in Int, NEW c \in Nat, a <= b
  PROVE  a * c <= b * c
BY SMT

LEMMA MulCancel ==
  ASSUME NEW a \in Int, NEW b \in Int, NEW c \in Nat, c > 0, a * c <= b * c
  PROVE  a <= b
BY SMT

LEMMA MulSub ==
  ASSUME NEW a \in Int, NEW b \in Int, NEW c \in Int
  PROVE  (a - b) * c = a * c - b * c /\ c * (a - b) = c * a - c * b
BY SMT

LEMMA MulInt ==
  ASSUME NEW a \in Int, NEW b \in Int
  PROVE  a * b \in Int /\ a * b = b * a
BY SMT

LEMMA MulSwap ==
  ASSUME NEW a \in Int, NEW b \in Int, NEW c \in Int
  PROVE  (a * b) * c = (a * c) * b
BY SMT

\* A fee is a part of the amount it is charged on.
LEMMA FeeBounded ==
  ASSUME NEW a \in Nat
  PROVE  fee_on(a) \in Nat /\ fee_on(a) <= a
<1>1. FeeBps \in Nat /\ FeeBps <= 10000
  BY VaultAssumption DEF MAX_FEE_BPS
<1>2. a * FeeBps \in Nat /\ a * FeeBps <= 10000 * a
  BY <1>1, MulMono, MulInt
<1> QED
  BY <1>2 DEF fee_on

\* One token's worth in p, what is left of a pool, is at least what it was in
\* the pool: then a rounded share of the pool leaves enough for the other
\* tokens, by the pool's measure and by the measure of what was left.
LEMMA PayOut ==
  ASSUME NEW pool \in Nat, NEW base \in Nat, base > 0,
         NEW p \in Nat, NEW left \in Nat, NEW n \in Nat, n <= left,
         p * base >= pool * left
  PROVE  LET gross == (pool * n) \div base
         IN  /\ gross \in Nat
             /\ gross <= p
             /\ (p - gross) * base >= pool * (left - n)
             /\ (p - gross) * left >= p * (left - n)
<1> DEFINE gross == (pool * n) \div base
<1>1. pool * n \in Nat
  BY SMT
<1>2. gross \in Nat /\ gross * base <= pool * n
  BY <1>1, DivBound, MulInt
<1> HIDE DEF gross
<1>3. (p - gross) * base >= pool * (left - n)
  <2>1. (p - gross) * base = p * base - gross * base
    BY <1>2, MulSub
  <2>2. pool * (left - n) = pool * left - pool * n
    BY MulSub
  <2>3. p * base \in Int /\ gross * base \in Int /\ pool * left \in Int /\ pool * n \in Int
    BY <1>2, MulInt
  <2> QED
    BY <1>2, <2>1, <2>2, <2>3
<1>4. gross <= p
  <2>1. left - n \in Nat
    OBVIOUS
  <2>2. pool * (left - n) >= 0
    BY <2>1, SMT
  <2>3. gross * base <= p * base
    <3>1. (p - gross) * base = p * base - gross * base
      BY <1>2, MulSub
    <3>2. p * base \in Int /\ gross * base \in Int /\ pool * (left - n) \in Int
      BY <1>2, <2>1, MulInt
    <3> QED
      BY <1>3, <2>2, <3>1, <3>2
  <2> QED
    BY <1>2, <2>3, MulCancel
<1>5. (p - gross) * left >= p * (left - n)
  <2>1. (gross * base) * left <= (pool * n) * left
    BY <1>1, <1>2, MulMono, MulInt
  <2>2. (pool * left) * n <= (p * base) * n
    BY MulMono, MulInt
  <2>3. (gross * left) * base <= (p * n) * base
    <3>1. (gross * base) * left = (gross * left) * base
      BY <1>2, MulSwap
    <3>2. (pool * n) * left = (pool * left) * n
      BY MulSwap
    <3>3. (p * base) * n = (p * n) * base
      BY MulSwap
    <3>4. /\ (gross * left) * base \in Int /\ (pool * left) * n \in Int
          /\ (p * n) * base \in Int
      BY <1>2, MulInt
    <3> QED
      BY <2>1, <2>2, <3>1, <3>2, <3>3, <3>4
  <2>4. gross * left <= p * n
    BY <1>2, <2>3, MulCancel, MulInt
  <2>5. (p - gross) * left = p * left - gross * left /\ p * (left - n) = p * left - p * n
    BY <1>2, MulSub
  <2> QED
    BY <1>2, <2>4, <2>5, MulInt
<1> QED
  BY <1>2, <1>3, <1>4, <1>5 DEF gross

-----------------------------------------------------------------------------
(* Types.                                                                  *)

LEMMA SatSubNat ==
  ASSUME NEW a \in Nat, NEW b \in Nat
  PROVE  SatSub(a, b) \in Nat /\ SatSub(a, b) <= a /\ (b <= a => SatSub(a, b) = a - b)
BY DEF SatSub

LEMMA ProRataNat ==
  ASSUME NEW pool \in Nat, NEW n \in Nat, NEW base \in Nat
  PROVE  ProRata(pool, n, base) \in Nat
<1>1. pool * n \in Nat
  BY SMT
<1> QED
  BY <1>1, DivBound DEF ProRata

\* The quantities that are computed from a well-typed vault are naturals.
LEMMA DerivedNat ==
  ASSUME NEW v \in Vault, NEW n \in Nat
  PROVE  /\ fees_outstanding(v) \in Nat /\ cash_shares(v) \in Nat
         /\ refund_pool(v) \in Nat /\ Deployable(v) \in Nat
         /\ underlying_for(v, n) \in Nat /\ redeem_amount(v, n) \in Nat
         /\ refund_amount(v, n) \in Nat
<1>1. /\ v.fees_collected \in Nat /\ v.fees_swept \in Nat /\ v.total_shares \in Nat
      /\ v.delivered_shares \in Nat /\ v.total_deposits \in Nat
      /\ v.unrefundable_costs \in Nat /\ v.deployable_amount \in Nat
      /\ v.total_deployed \in Nat /\ v.shares_allocated \in Nat
      /\ v.redeemable_amount \in Nat
  BY DEF Vault
<1>2. /\ fees_outstanding(v) \in Nat /\ cash_shares(v) \in Nat
      /\ refund_pool(v) \in Nat /\ Deployable(v) \in Nat
  BY <1>1, SatSubNat DEF fees_outstanding, cash_shares, refund_pool, Deployable
<1> QED
  BY <1>1, <1>2, ProRataNat DEF underlying_for, redeem_amount, refund_amount

LEMMA AcceptedNat ==
  ASSUME TypeOK, NEW h \in Holders, NEW amount \in Nat
  PROVE  Accepted(h, amount) \in Nat
<1>1. /\ buyer[h].deposit_amount \in Nat /\ vault.total_deposits \in Nat
      /\ DepositCap \in Nat /\ MaxDeposit \in Nat
  BY VaultAssumption DEF TypeOK, Buyer, Vault
<1>2. /\ SatSub(DepositCap, vault.total_deposits) \in Nat
      /\ SatSub(MaxDeposit, buyer[h].deposit_amount) \in Nat
  BY <1>1, SatSubNat
<1> QED
  BY <1>2 DEF Accepted, Lesser

LEMMA BurnedTypes ==
  ASSUME TypeOK, NEW h \in Holders, NEW n \in Nat, Burned(h, n)
  PROVE  /\ shares' \in [Holders -> Nat] /\ supply' \in Nat
         /\ account_frozen' \in [Holders -> BOOLEAN]
<1>1. shares[h] \in Nat /\ supply \in Nat /\ vault.transfer_lock \in BOOLEAN
  BY DEF TypeOK, Vault
<1>2. shares[h] - n \in Nat /\ supply - n \in Nat
  BY <1>1 DEF Burned
<1>3. (vault.transfer_lock /\ shares[h] > n) \in BOOLEAN
  OBVIOUS
<1> QED
  BY <1>2, <1>3 DEF Burned, TypeOK

LEMMA TypeInit == Init => TypeOK
<1> SUFFICES ASSUME Init PROVE TypeOK
  OBVIOUS
<1>1. PICK op \in Operators :
         vault = [phase |-> "Scheduled", frozen |-> FALSE, transfer_lock |-> TRUE,
                   fee_at_exit |-> FALSE, operator |-> op,
                   funding_deadline |-> FundingDeadline, election_deadline |-> 0,
                   total_deposits |-> 0, total_shares |-> 0,
                   deployable_amount |-> 0, total_deployed |-> 0,
                   shares_allocated |-> 0, delivered_shares |-> 0,
                   redeemable_amount |-> 0, total_redeemed_shares |-> 0,
                   total_redeemed_usdc |-> 0,
                   fees_escrowed |-> 0, fees_collected |-> 0, fees_swept |-> 0,
                   unrefundable_costs |-> 0, total_refunded_usdc |-> 0]
  BY DEF Init
<1>2. vault \in Vault
  BY <1>1, VaultAssumption DEF Vault, Phases
<1>3. NoBuyer \in Buyer
  BY DEF NoBuyer, Buyer
<1> QED
  BY <1>2, <1>3 DEF Init, TypeOK

LEMMA TypeHolder ==
  ASSUME TypeOK, HolderStep
  PROVE  TypeOK'
<1> USE DEF InPhase
<1>0. UsdcAmounts \subseteq Nat /\ ShareAmounts \subseteq Nat
  BY VaultAssumption
<1>1. ASSUME NEW h \in Holders, NEW amount \in UsdcAmounts, deposit(h, amount)
      PROVE  TypeOK'
  <2>1. PICK accepted \in Nat : accepted = Accepted(h, amount)
    BY <1>0, AcceptedNat
  <2>2. PICK fee \in Nat : fee = EntryFee(accepted) /\ accepted - fee \in Nat
    BY <2>1, FeeBounded DEF EntryFee
  <2>3. /\ vault.total_deposits + accepted \in Nat
        /\ vault.total_shares + (accepted - fee) \in Nat
        /\ vault.fees_escrowed + fee \in Nat
        /\ vault_usdc + accepted \in Nat /\ supply + (accepted - fee) \in Nat
        /\ shares[h] + (accepted - fee) \in Nat
        /\ buyer[h].deposit_amount + accepted \in Nat
        /\ buyer[h].shares_minted + (accepted - fee) \in Nat
    BY <2>1, <2>2 DEF TypeOK, Vault, Buyer
  <2>4. PhaseAt(vault.total_deposits + accepted) \in Phases
    BY DEF PhaseAt, TypeOK, Vault, Phases
  <2>5. vault' \in Vault
    BY <1>1, <2>1, <2>2, <2>3, <2>4 DEF deposit, TypeOK, Vault
  <2>6. buyer' \in [Holders -> Buyer]
    BY <1>1, <2>1, <2>2, <2>3 DEF deposit, TypeOK, Buyer
  <2>7. /\ vault_usdc' \in Nat /\ supply' \in Nat /\ now' \in Nat
        /\ shares' \in [Holders -> Nat]
    BY <1>1, <2>1, <2>2, <2>3 DEF deposit, TypeOK
  <2>8. account_frozen' \in [Holders -> BOOLEAN]
    BY <1>1 DEF deposit, TypeOK, Vault
  <2> QED
    BY <2>5, <2>6, <2>7, <2>8 DEF TypeOK
<1>2. ASSUME NEW h \in Holders, NEW n \in ShareAmounts, elect_delivery(h, n)
      PROVE  TypeOK'
  <2>1. n \in Nat /\ underlying_for(vault, n) \in Nat
    BY <1>0, DerivedNat DEF TypeOK
  <2>2. /\ vault.delivered_shares + n \in Nat /\ buyer[h].shares_delivered + n \in Nat
        /\ buyer[h].underlying_delivered + underlying_for(vault, n) \in Nat
    BY <2>1 DEF TypeOK, Vault, Buyer
  <2>3. vault' \in Vault /\ vault_usdc' \in Nat /\ now' \in Nat
    BY <1>2, <2>2 DEF elect_delivery, TypeOK, Vault
  <2>4. buyer' \in [Holders -> Buyer]
    <3> DEFINE b == [buyer[h] EXCEPT !.shares_delivered = @ + n,
                                     !.underlying_delivered = @ + underlying_for(vault, n)]
    <3>1. b \in Buyer
      BY <2>2 DEF TypeOK, Buyer
    <3>2. buyer \in [Holders -> Buyer] /\ buyer' = [buyer EXCEPT ![h] = b]
      BY <1>2 DEF elect_delivery, TypeOK
    <3> HIDE DEF b
    <3> QED
      BY <3>1, <3>2
  <2> QED
    BY <1>2, <2>1, <2>3, <2>4, BurnedTypes DEF elect_delivery, TypeOK
<1>3. ASSUME NEW h \in Holders, NEW n \in ShareAmounts, claim(h, n)
      PROVE  TypeOK'
  <2>1. n \in Nat
    BY <1>0
  <2>2. PICK gross \in Nat : gross = redeem_amount(vault, n)
    BY <2>1, DerivedNat DEF TypeOK
  <2>3. PICK fee \in Nat : fee = ExitFee(gross) /\ gross - fee \in Nat
    BY <2>2, FeeBounded DEF ExitFee
  <2>4. gross - fee <= vault_usdc
    BY <1>3, <2>2, <2>3 DEF claim
  <2>5. /\ vault_usdc - (gross - fee) \in Nat
        /\ vault.total_redeemed_shares + n \in Nat
        /\ vault.total_redeemed_usdc + (gross - fee) \in Nat
        /\ vault.fees_collected + fee \in Nat
        /\ buyer[h].shares_redeemed + n \in Nat
        /\ buyer[h].usdc_redeemed + (gross - fee) \in Nat
    BY <2>1, <2>3, <2>4 DEF TypeOK, Vault, Buyer
  <2>6. vault' \in Vault /\ vault_usdc' \in Nat /\ now' \in Nat
    BY <1>3, <2>2, <2>3, <2>5 DEF claim, TypeOK, Vault
  <2>7. buyer' \in [Holders -> Buyer]
    BY <1>3, <2>2, <2>3, <2>5 DEF claim, TypeOK, Buyer
  <2> QED
    BY <1>3, <2>1, <2>6, <2>7, BurnedTypes DEF claim, TypeOK
<1>4. ASSUME NEW h \in Holders, NEW n \in ShareAmounts, refund(h, n)
      PROVE  TypeOK'
  <2>1. n \in Nat
    BY <1>0
  <2>2. PICK payout \in Nat : payout = refund_amount(vault, n)
    BY <2>1, DerivedNat DEF TypeOK
  <2>3. /\ vault_usdc - payout \in Nat
        /\ vault.total_refunded_usdc + payout \in Nat
        /\ buyer[h].shares_redeemed + n \in Nat
        /\ buyer[h].usdc_refunded + payout \in Nat
    BY <1>4, <2>1, <2>2 DEF refund, TypeOK, Vault, Buyer
  <2>4. vault' \in Vault /\ vault_usdc' \in Nat /\ now' \in Nat
    BY <1>4, <2>2, <2>3 DEF refund, TypeOK, Vault
  <2>5. buyer' \in [Holders -> Buyer]
    BY <1>4, <2>2, <2>3 DEF refund, TypeOK, Buyer
  <2> QED
    BY <1>4, <2>1, <2>4, <2>5, BurnedTypes DEF refund, TypeOK
<1>5. ASSUME NEW h \in Holders, NEW g \in Holders, NEW n \in ShareAmounts,
             TransferShares(h, g, n)
      PROVE  TypeOK'
  <2>1. n \in Nat /\ shares[h] \in Nat /\ shares[g] \in Nat /\ n <= shares[h]
    BY <1>0, <1>5 DEF TransferShares, TypeOK
  <2>2. shares[h] - n \in Nat /\ shares[g] + n \in Nat
    BY <2>1
  <2> QED
    BY <1>5, <2>2 DEF TransferShares, TypeOK
<1>6. ASSUME NEW h \in Holders, unlock_shares(h)
      PROVE  TypeOK'
  BY <1>6 DEF unlock_shares, TypeOK
<1> QED
  BY <1>1, <1>2, <1>3, <1>4, <1>5, <1>6 DEF HolderStep

LEMMA TypePhase ==
  ASSUME TypeOK, PhaseStep
  PROVE  TypeOK'
<1> USE DEF InPhase
<1>0. UsdcAmounts \subseteq Nat /\ Allocations \subseteq Nat /\ Periods \subseteq Nat
  BY VaultAssumption
<1>1. ASSUME NEW phases, NEW phase \in Phases, Advance(phases, phase),
             UNCHANGED <<buyer, vault_usdc, tokenVars, now>>
      PROVE  TypeOK'
  BY <1>1 DEF Advance, TypeOK, Vault, tokenVars
<1>2. CASE open_funding
  BY <1>1, <1>2 DEF open_funding, Phases
<1>3. CASE seal_funding
  BY <1>1, <1>3 DEF seal_funding, Phases
<1>4. CASE begin_sourcing
  BY <1>1, <1>4 DEF begin_sourcing, Phases
<1>5. ASSUME NEW deployable \in UsdcAmounts, confirm_allocation(deployable)
      PROVE  TypeOK'
  BY <1>0, <1>5 DEF confirm_allocation, TypeOK, Vault, Phases, tokenVars
<1>6. ASSUME NEW allocated \in Allocations, NEW period \in Periods,
             mark_listed(allocated, period)
      PROVE  TypeOK'
  <2>1. now + period \in Nat /\ allocated \in Nat
    BY <1>0 DEF TypeOK
  <2> QED
    BY <1>6, <2>1 DEF mark_listed, TypeOK, Vault, Phases, tokenVars
<1>7. CASE mark_realized
  BY <1>1, <1>7 DEF mark_realized, Phases
<1>8. CASE settle
  <2>1. Redeemable \in Nat
    BY DerivedNat, SatSubNat DEF Redeemable, TypeOK
  <2> QED
    BY <1>8, <2>1 DEF settle, TypeOK, Vault, Phases, tokenVars
<1>9. CASE wind_down
  BY <1>1, <1>9 DEF wind_down, Phases
<1>10. CASE conclude
  BY <1>1, <1>10 DEF conclude, Phases
<1>11. ASSUME NEW costs \in UsdcAmounts \cup {0}, cancel(costs)
       PROVE  TypeOK'
  <2>1. costs \in Nat
    BY <1>0
  <2> QED
    BY <1>11, <2>1 DEF cancel, TypeOK, Vault, Phases, tokenVars
<1> QED
  BY <1>2, <1>3, <1>4, <1>5, <1>6, <1>7, <1>8, <1>9, <1>10, <1>11 DEF PhaseStep

LEMMA TypeStaff ==
  ASSUME TypeOK, StaffStep
  PROVE  TypeOK'
<1> USE DEF InPhase
<1>0. UsdcAmounts \subseteq Nat /\ Periods \subseteq Nat /\ LockSettings \subseteq BOOLEAN
  BY VaultAssumption
<1>1. ASSUME NEW signer, NEW amount \in UsdcAmounts, deploy_capital(signer, amount)
      PROVE  TypeOK'
  <2>1. /\ vault_usdc - amount \in Nat /\ vault.total_deployed + amount \in Nat
        /\ vault.fees_collected + vault.fees_escrowed \in Nat
    BY <1>0, <1>1 DEF deploy_capital, TypeOK, Vault
  <2>2. [vault EXCEPT !.total_deployed = @ + amount] \in Vault
    BY <2>1 DEF TypeOK, Vault
  <2>3. ASSUME NEW v \in Vault PROVE Earned(v) \in Vault
    <3>1. v.fees_collected + v.fees_escrowed \in Nat
      BY DEF Vault
    <3>2. CASE v.phase = "Sourced"
      <4> DEFINE w == [v EXCEPT !.phase = "Deployed", !.fees_escrowed = 0,
                                !.fees_collected = @ + v.fees_escrowed]
      <4>1. w \in Vault
        BY <3>1 DEF Vault, Phases
      <4> QED
        BY <3>2, <4>1 DEF Earned
    <3>3. CASE v.phase # "Sourced"
      BY <3>3 DEF Earned
    <3> QED
      BY <3>2, <3>3
  <2>4. vault' \in Vault
    <3> DEFINE v == [vault EXCEPT !.total_deployed = @ + amount]
    <3>1. vault' = Earned(v)
      BY <1>1 DEF deploy_capital
    <3>2. v \in Vault
      BY <2>2
    <3> HIDE DEF v
    <3> QED
      BY <2>3, <3>1, <3>2
  <2>5. vault_usdc' \in Nat /\ UNCHANGED <<buyer, tokenVars, now>>
    BY <1>1, <2>1 DEF deploy_capital
  <2> QED
    BY <2>4, <2>5 DEF TypeOK, tokenVars
<1>2. ASSUME NEW amount \in 1 .. fees_outstanding(vault), sweep_fee(amount)
      PROVE  TypeOK'
  <2>1. amount \in Nat /\ fees_outstanding(vault) \in Nat
    BY DerivedNat DEF TypeOK
  <2>2. vault_usdc - amount \in Nat /\ vault.fees_swept + amount \in Nat
    BY <1>2, <2>1 DEF sweep_fee, TypeOK, Vault
  <2> QED
    BY <1>2, <2>2 DEF sweep_fee, TypeOK, Vault, tokenVars
<1>3. ASSUME NEW period \in Periods, set_funding_deadline(now + period)
      PROVE  TypeOK'
  <2>1. now + period \in Nat
    BY <1>0 DEF TypeOK
  <2> QED
    BY <1>3, <2>1 DEF set_funding_deadline, TypeOK, Vault, tokenVars
<1>4. ASSUME NEW frozen \in BOOLEAN, freeze_deposits(frozen)
      PROVE  TypeOK'
  BY <1>4 DEF freeze_deposits, TypeOK, Vault, tokenVars
<1>5. ASSUME NEW locked \in LockSettings, set_transfer_lock(locked)
      PROVE  TypeOK'
  BY <1>0, <1>5 DEF set_transfer_lock, TypeOK, Vault, tokenVars
<1>6. ASSUME NEW at_exit \in BOOLEAN, set_fee_timing(at_exit)
      PROVE  TypeOK'
  BY <1>6 DEF set_fee_timing, TypeOK, Vault, tokenVars
<1>7. ASSUME NEW op \in Operators, update_operator(op)
      PROVE  TypeOK'
  BY <1>7 DEF update_operator, TypeOK, Vault, tokenVars
<1> QED
  BY <1>1, <1>2, <1>3, <1>4, <1>5, <1>6, <1>7 DEF StaffStep

LEMMA TypeNext == TypeOK /\ [Next]_vars => TypeOK'
<1> SUFFICES ASSUME TypeOK, [Next]_vars PROVE TypeOK'
  OBVIOUS
<1>1. CASE HolderStep
  BY <1>1, TypeHolder
<1>2. CASE PhaseStep
  BY <1>2, TypePhase
<1>3. CASE StaffStep
  BY <1>3, TypeStaff
<1>4. ASSUME NEW amount \in UsdcAmounts, ReturnUsdc(amount) PROVE TypeOK'
  <2>1. amount \in Nat
    BY VaultAssumption
  <2>2. vault_usdc + amount \in Nat
    BY <2>1 DEF TypeOK
  <2> QED
    BY <1>4, <2>2 DEF ReturnUsdc, TypeOK, tokenVars
<1>5. CASE Tick
  BY <1>5 DEF Tick, TypeOK, tokenVars
<1>6. CASE UNCHANGED vars
  BY <1>6 DEF vars, tokenVars, TypeOK
<1> QED
  BY <1>1, <1>2, <1>3, <1>4, <1>5, <1>6 DEF Next

\* Every variable keeps its type in every reachable state.
THEOREM TypeCorrect == Spec => []TypeOK
BY TypeInit, TypeNext, PTL DEF Spec

-----------------------------------------------------------------------------
(* The invariant.  Solvency is not inductive alone: what a vault owes when  *)
(* it deploys, settles or is cancelled rests on what it took in before.     *)

Raising   == {"Scheduled", "Funding", "Sealed", "Sourcing", "Sourced"}
Investing == {"Deployed", "Live", "Realized"}
Redeeming == {"Claimable", "Winding", "Concluded"}

\* What has left the redeemable pool: payouts and, in an exit-fee vault, fees.
Redeemed ==
    vault.total_redeemed_usdc + (IF vault.fee_at_exit THEN vault.fees_collected ELSE 0)

RaisingInv ==
    /\ vault.delivered_shares = 0 /\ vault.total_redeemed_usdc = 0
    /\ vault.total_refunded_usdc = 0 /\ vault.total_deployed = 0
    /\ vault.fees_collected = 0 /\ vault.fees_swept = 0
    /\ vault.total_deposits = vault.total_shares + vault.fees_escrowed
    /\ vault.total_shares = 0 \/ vault.fee_at_exit => vault.fees_escrowed = 0
    /\ supply = vault.total_shares
    /\ vault_usdc >= vault.total_deposits
    /\ vault.phase = "Sourced" => vault.deployable_amount <= vault.total_shares

InvestingInv ==
    /\ vault.total_redeemed_usdc = 0 /\ vault.fees_swept = 0
    /\ vault.fee_at_exit => vault.fees_collected = 0
    /\ 0 < vault.total_deployed /\ vault.total_deployed <= vault.total_shares
    /\ supply + vault.delivered_shares = vault.total_shares
    /\ vault_usdc >= vault.total_shares - vault.total_deployed + vault.fees_collected
    /\ vault.phase = "Deployed" => vault.deployable_amount <= vault.total_shares

RedeemingInv ==
    /\ cash_shares(vault) > 0
    /\ vault.fees_swept <= vault.fees_collected
    /\ supply <= cash_shares(vault)
    /\ Redeemed <= vault.redeemable_amount
    /\ vault_usdc >= vault.redeemable_amount - Redeemed
                       + (vault.fees_collected - vault.fees_swept)
    /\ (vault.redeemable_amount - Redeemed) * cash_shares(vault)
          >= vault.redeemable_amount * supply

RefundingInv ==
    /\ vault.fees_collected = 0 /\ vault.fees_swept = 0
    /\ supply <= vault.total_shares
    /\ vault.total_refunded_usdc <= refund_pool(vault)
    /\ vault_usdc >= refund_pool(vault) - vault.total_refunded_usdc
    /\ (refund_pool(vault) - vault.total_refunded_usdc) * vault.total_shares
          >= refund_pool(vault) * supply

Money ==
    /\ InPhase(Raising) => RaisingInv
    /\ InPhase(Investing) => InvestingInv
    /\ InPhase(Redeeming) => RedeemingInv
    /\ InPhase({"Cancelled"}) => RefundingInv

\* A step that moves no money keeps the invariant.
LEMMA MoneySame ==
  ASSUME Money, UNCHANGED <<vault_usdc, supply>>,
         \/ UNCHANGED vault
         \/ \E b \in BOOLEAN : vault' = [vault EXCEPT !.frozen = b]
         \/ \E b \in BOOLEAN : vault' = [vault EXCEPT !.transfer_lock = b]
         \/ \E d : vault' = [vault EXCEPT !.funding_deadline = d]
         \/ \E op : vault' = [vault EXCEPT !.operator = op],
         TypeOK
  PROVE  Money'
<1>1. /\ vault'.phase = vault.phase /\ vault'.fee_at_exit = vault.fee_at_exit
      /\ vault'.total_deposits = vault.total_deposits
      /\ vault'.total_shares = vault.total_shares
      /\ vault'.deployable_amount = vault.deployable_amount
      /\ vault'.total_deployed = vault.total_deployed
      /\ vault'.delivered_shares = vault.delivered_shares
      /\ vault'.redeemable_amount = vault.redeemable_amount
      /\ vault'.total_redeemed_usdc = vault.total_redeemed_usdc
      /\ vault'.fees_escrowed = vault.fees_escrowed
      /\ vault'.fees_collected = vault.fees_collected
      /\ vault'.fees_swept = vault.fees_swept
      /\ vault'.unrefundable_costs = vault.unrefundable_costs
      /\ vault'.total_refunded_usdc = vault.total_refunded_usdc
  BY DEF TypeOK, Vault
<1>2. /\ cash_shares(vault') = cash_shares(vault)
      /\ refund_pool(vault') = refund_pool(vault)
  BY <1>1 DEF cash_shares, refund_pool
<1> QED
  BY <1>1, <1>2 DEF Money, InPhase, RaisingInv, InvestingInv, RedeemingInv, RefundingInv,
                    Redeemed

LEMMA MoneyInit == Init => Money
BY VaultAssumption DEF Init, Money, InPhase, Raising, Investing, Redeeming, RaisingInv

\* A deposit: what comes in covers the new tokens and the fee in escrow.
LEMMA MoneyDeposit ==
  ASSUME TypeOK, Money, NEW h \in Holders, NEW amount \in UsdcAmounts, deposit(h, amount)
  PROVE  Money' /\ Fund!Subscribe
<1>1. PICK accepted \in Nat : accepted = Accepted(h, amount)
  BY AcceptedNat, VaultAssumption
<1>2. PICK fee \in Nat : fee = EntryFee(accepted) /\ accepted - fee \in Nat
  BY <1>1, FeeBounded DEF EntryFee
<1>3. vault.fee_at_exit => fee = 0
  BY <1>2 DEF EntryFee
<1>4. /\ vault.phase = "Funding" /\ accepted - fee > 0
      /\ vault_usdc' = vault_usdc + accepted /\ supply' = supply + (accepted - fee)
      /\ vault' = [vault EXCEPT
                      !.total_deposits = @ + accepted,
                      !.total_shares   = @ + (accepted - fee),
                      !.fees_escrowed  = @ + fee,
                      !.phase = PhaseAt(vault.total_deposits + accepted)]
  BY <1>1, <1>2 DEF deposit, InPhase
<1>5. /\ vault'.phase \in {"Funding", "Sealed"}
      /\ vault'.total_deposits = vault.total_deposits + accepted
      /\ vault'.total_shares = vault.total_shares + (accepted - fee)
      /\ vault'.fees_escrowed = vault.fees_escrowed + fee
      /\ vault'.fee_at_exit = vault.fee_at_exit
      /\ vault'.total_deployed = vault.total_deployed
      /\ vault'.delivered_shares = vault.delivered_shares
      /\ vault'.total_redeemed_usdc = vault.total_redeemed_usdc
      /\ vault'.fees_collected = vault.fees_collected
      /\ vault'.fees_swept = vault.fees_swept
      /\ vault'.total_refunded_usdc = vault.total_refunded_usdc
  BY <1>4 DEF PhaseAt, TypeOK, Vault
<1>6. /\ vault.total_deposits \in Nat /\ vault.total_shares \in Nat
      /\ vault.fees_escrowed \in Nat /\ vault_usdc \in Nat /\ supply \in Nat
  BY DEF TypeOK, Vault
<1>7. RaisingInv
  BY <1>4 DEF Money, InPhase, Raising
<1>8. Money'
  BY <1>2, <1>3, <1>4, <1>5, <1>6, <1>7
     DEF Money, InPhase, Raising, Investing, Redeeming, RaisingInv
<1>9. /\ Stage = "raising" /\ Stage' = "raising"
      /\ Pot = vault.total_deposits /\ Pot' = vault'.total_deposits
  BY <1>4, <1>5 DEF Stage, InPhase, Pot
<1>10. fees_outstanding(vault)' = fees_outstanding(vault)
  BY <1>5 DEF fees_outstanding
<1> QED
  BY <1>2, <1>4, <1>5, <1>6, <1>8, <1>9, <1>10 DEF Fund!Subscribe

\* A change of phase alone.
LEMMA PhaseOnly ==
  ASSUME TypeOK, NEW p \in Phases, vault' = [vault EXCEPT !.phase = p]
  PROVE  /\ vault'.phase = p /\ vault'.fee_at_exit = vault.fee_at_exit
         /\ vault'.total_deposits = vault.total_deposits
         /\ vault'.total_shares = vault.total_shares
         /\ vault'.deployable_amount = vault.deployable_amount
         /\ vault'.total_deployed = vault.total_deployed
         /\ vault'.delivered_shares = vault.delivered_shares
         /\ vault'.redeemable_amount = vault.redeemable_amount
         /\ vault'.total_redeemed_usdc = vault.total_redeemed_usdc
         /\ vault'.fees_escrowed = vault.fees_escrowed
         /\ vault'.fees_collected = vault.fees_collected
         /\ vault'.fees_swept = vault.fees_swept
         /\ vault'.unrefundable_costs = vault.unrefundable_costs
         /\ vault'.total_refunded_usdc = vault.total_refunded_usdc
         /\ cash_shares(vault') = cash_shares(vault)
         /\ refund_pool(vault') = refund_pool(vault)
         /\ fees_outstanding(vault') = fees_outstanding(vault)
<1>1. /\ vault'.phase = p /\ vault'.fee_at_exit = vault.fee_at_exit
      /\ vault'.total_deposits = vault.total_deposits
      /\ vault'.total_shares = vault.total_shares
      /\ vault'.deployable_amount = vault.deployable_amount
      /\ vault'.total_deployed = vault.total_deployed
      /\ vault'.delivered_shares = vault.delivered_shares
      /\ vault'.redeemable_amount = vault.redeemable_amount
      /\ vault'.total_redeemed_usdc = vault.total_redeemed_usdc
      /\ vault'.fees_escrowed = vault.fees_escrowed
      /\ vault'.fees_collected = vault.fees_collected
      /\ vault'.fees_swept = vault.fees_swept
      /\ vault'.unrefundable_costs = vault.unrefundable_costs
      /\ vault'.total_refunded_usdc = vault.total_refunded_usdc
  BY DEF TypeOK, Vault
<1> QED
  BY <1>1 DEF cash_shares, refund_pool, fees_outstanding

FundVars == <<Stage, Pot, supply, fees_outstanding(vault)>>

LEMMA MoneyAdvance ==
  ASSUME TypeOK, Money, UNCHANGED <<buyer, vault_usdc, tokenVars, now>>,
         NEW from, NEW to, Advance({from}, to),
         <<from, to>> \in {<<"Scheduled", "Funding">>, <<"Funding", "Sealed">>,
                           <<"Sealed", "Sourcing">>, <<"Live", "Realized">>,
                           <<"Claimable", "Winding">>}
  PROVE  Money' /\ UNCHANGED FundVars
<1>1. vault' = [vault EXCEPT !.phase = to] /\ vault.phase = from /\ to \in Phases
  BY DEF Advance, InPhase, Phases
<1>2. vault_usdc' = vault_usdc /\ supply' = supply
  BY DEF tokenVars
<1>3. Money'
  BY <1>1, <1>2, PhaseOnly
     DEF Money, InPhase, Raising, Investing, Redeeming,
         RaisingInv, InvestingInv, RedeemingInv, RefundingInv, Redeemed
<1>4. Stage' = Stage /\ Stage # "refunding"
  BY <1>1, PhaseOnly DEF Stage, InPhase
<1>5. Pot' = Pot
  BY <1>1, <1>4, PhaseOnly DEF Pot, Pool, PaidOut
<1> QED
  BY <1>1, <1>2, <1>3, <1>4, <1>5, PhaseOnly DEF FundVars

LEMMA MoneyConclude ==
  ASSUME TypeOK, Money, conclude
  PROVE  Money' /\ Fund!Close
<1>1. /\ vault' = [vault EXCEPT !.phase = "Concluded"] /\ "Concluded" \in Phases
      /\ vault.phase \in {"Claimable", "Winding"}
      /\ vault_usdc' = vault_usdc /\ supply' = supply
  BY DEF conclude, Advance, InPhase, Phases, tokenVars
<1>2. Money'
  BY <1>1, PhaseOnly
     DEF Money, InPhase, Raising, Investing, Redeeming, RedeemingInv, Redeemed
<1>3. Stage = "paying" /\ Stage' = "closed"
  BY <1>1, PhaseOnly DEF Stage, InPhase
<1>4. Pot' = Pot
  BY <1>1, <1>3, PhaseOnly DEF Pot, Pool, PaidOut
<1> QED
  BY <1>1, <1>2, <1>3, <1>4, PhaseOnly DEF Fund!Close

LEMMA MoneyAllocation ==
  ASSUME TypeOK, Money, NEW deployable \in UsdcAmounts, confirm_allocation(deployable)
  PROVE  Money' /\ UNCHANGED FundVars
<1>1. /\ vault.phase = "Sourcing" /\ deployable <= vault.total_shares
      /\ vault_usdc' = vault_usdc /\ supply' = supply
      /\ vault'.phase = "Sourced" /\ vault'.deployable_amount = deployable
      /\ vault'.fee_at_exit = vault.fee_at_exit
      /\ vault'.total_deposits = vault.total_deposits
      /\ vault'.total_shares = vault.total_shares
      /\ vault'.total_deployed = vault.total_deployed
      /\ vault'.delivered_shares = vault.delivered_shares
      /\ vault'.total_redeemed_usdc = vault.total_redeemed_usdc
      /\ vault'.fees_escrowed = vault.fees_escrowed
      /\ vault'.fees_collected = vault.fees_collected
      /\ vault'.fees_swept = vault.fees_swept
      /\ vault'.total_refunded_usdc = vault.total_refunded_usdc
  BY DEF confirm_allocation, InPhase, tokenVars, TypeOK, Vault
<1>2. Money'
  BY <1>1 DEF Money, InPhase, Raising, Investing, Redeeming, RaisingInv
<1> QED
  BY <1>1, <1>2 DEF FundVars, Stage, InPhase, Pot, fees_outstanding

LEMMA MoneyListed ==
  ASSUME TypeOK, Money, NEW allocated, NEW period, mark_listed(allocated, period)
  PROVE  Money' /\ UNCHANGED FundVars
<1>1. /\ vault.phase = "Deployed" /\ vault'.phase = "Live"
      /\ vault_usdc' = vault_usdc /\ supply' = supply
      /\ vault'.fee_at_exit = vault.fee_at_exit
      /\ vault'.total_shares = vault.total_shares
      /\ vault'.total_deployed = vault.total_deployed
      /\ vault'.delivered_shares = vault.delivered_shares
      /\ vault'.total_redeemed_usdc = vault.total_redeemed_usdc
      /\ vault'.fees_collected = vault.fees_collected
      /\ vault'.fees_swept = vault.fees_swept
  BY DEF mark_listed, InPhase, tokenVars, TypeOK, Vault
<1>2. Money'
  BY <1>1 DEF Money, InPhase, Raising, Investing, Redeeming, InvestingInv
<1> QED
  BY <1>1, <1>2 DEF FundVars, Stage, InPhase, Pot, fees_outstanding

LEMMA MoneyDeploy ==
  ASSUME TypeOK, Money, NEW signer, NEW amount \in UsdcAmounts,
         deploy_capital(signer, amount)
  PROVE  Money' /\ Fund!Invest
<1>1. /\ amount \in Nat /\ vault_usdc \in Nat /\ supply \in Nat
      /\ vault.total_deployed \in Nat /\ vault.deployable_amount \in Nat
      /\ vault.total_shares \in Nat /\ vault.fees_escrowed \in Nat
      /\ vault.fees_collected \in Nat /\ vault.fees_swept \in Nat
      /\ vault.total_deposits \in Nat
  BY VaultAssumption DEF TypeOK, Vault
<1>2. /\ amount > 0 /\ vault.total_deployed + amount <= vault.deployable_amount
      /\ vault_usdc' = vault_usdc - amount /\ supply' = supply
  BY <1>1 DEF deploy_capital, Deployable, SatSub, tokenVars
<1>3. CASE vault.phase = "Sourced"
  <2>1. /\ vault'.phase = "Deployed" /\ vault'.fee_at_exit = vault.fee_at_exit
        /\ vault'.total_shares = vault.total_shares
        /\ vault'.deployable_amount = vault.deployable_amount
        /\ vault'.total_deployed = vault.total_deployed + amount
        /\ vault'.delivered_shares = vault.delivered_shares
        /\ vault'.total_redeemed_usdc = vault.total_redeemed_usdc
        /\ vault'.fees_collected = vault.fees_collected + vault.fees_escrowed
        /\ vault'.fees_swept = vault.fees_swept
    BY <1>3 DEF deploy_capital, Earned, TypeOK, Vault
  <2>2. RaisingInv
    BY <1>3 DEF Money, InPhase, Raising
  <2>3. Money'
    BY <1>1, <1>2, <1>3, <2>1, <2>2
       DEF Money, InPhase, Raising, Investing, Redeeming, RaisingInv, InvestingInv
  <2>4. /\ Stage = "raising" /\ Stage' = "invested" /\ Pot = vault.total_deposits
        /\ Pot' = vault.total_shares - (vault.total_deployed + amount)
    BY <1>3, <2>1 DEF Stage, InPhase, Pot
  <2>5. fees_outstanding(vault) = 0 /\ fees_outstanding(vault)' = vault.fees_escrowed
    BY <1>1, <2>1, <2>2 DEF fees_outstanding, SatSub, RaisingInv
  <2> QED
    BY <1>1, <1>2, <1>3, <2>2, <2>3, <2>4, <2>5 DEF Fund!Invest, RaisingInv
<1>4. CASE vault.phase = "Deployed"
  <2>1. /\ vault'.phase = "Deployed" /\ vault'.fee_at_exit = vault.fee_at_exit
        /\ vault'.total_shares = vault.total_shares
        /\ vault'.deployable_amount = vault.deployable_amount
        /\ vault'.total_deployed = vault.total_deployed + amount
        /\ vault'.delivered_shares = vault.delivered_shares
        /\ vault'.total_redeemed_usdc = vault.total_redeemed_usdc
        /\ vault'.fees_collected = vault.fees_collected
        /\ vault'.fees_swept = vault.fees_swept
    BY <1>4 DEF deploy_capital, Earned, TypeOK, Vault
  <2>2. InvestingInv
    BY <1>4 DEF Money, InPhase, Investing
  <2>3. Money'
    BY <1>1, <1>2, <1>4, <2>1, <2>2
       DEF Money, InPhase, Raising, Investing, Redeeming, InvestingInv
  <2>4. /\ Stage = "invested" /\ Stage' = "invested"
        /\ Pot = vault.total_shares - vault.total_deployed
        /\ Pot' = vault.total_shares - (vault.total_deployed + amount)
    BY <1>4, <2>1 DEF Stage, InPhase, Pot
  <2>5. fees_outstanding(vault)' = fees_outstanding(vault) /\ fees_outstanding(vault) \in Nat
    BY <1>1, <2>1, SatSubNat DEF fees_outstanding
  <2> QED
    BY <1>1, <1>2, <1>4, <2>2, <2>3, <2>4, <2>5 DEF Fund!Invest, InvestingInv
<1> QED
  BY <1>3, <1>4 DEF deploy_capital, InPhase

LEMMA MoneyElect ==
  ASSUME TypeOK, Money, NEW h \in Holders, NEW n \in ShareAmounts, elect_delivery(h, n)
  PROVE  Money' /\ Fund!Deliver
<1>1. /\ n \in Nat /\ supply \in Nat /\ vault.delivered_shares \in Nat
      /\ vault.total_shares \in Nat
  BY VaultAssumption DEF TypeOK, Vault
<1>2. /\ vault.phase = "Live" /\ n > 0 /\ n <= supply
      /\ supply' = supply - n /\ vault_usdc' = vault_usdc
      /\ vault'.phase = vault.phase /\ vault'.fee_at_exit = vault.fee_at_exit
      /\ vault'.total_shares = vault.total_shares
      /\ vault'.total_deployed = vault.total_deployed
      /\ vault'.delivered_shares = vault.delivered_shares + n
      /\ vault'.total_redeemed_usdc = vault.total_redeemed_usdc
      /\ vault'.fees_collected = vault.fees_collected
      /\ vault'.fees_swept = vault.fees_swept
  BY DEF elect_delivery, Burned, InPhase, TypeOK, Vault
<1>3. Money'
  BY <1>1, <1>2 DEF Money, InPhase, Raising, Investing, Redeeming, InvestingInv
<1>4. /\ Stage = "invested" /\ Stage' = "invested" /\ Pot' = Pot
      /\ fees_outstanding(vault)' = fees_outstanding(vault)
  BY <1>2 DEF Stage, InPhase, Pot, fees_outstanding
<1> QED
  BY <1>1, <1>2, <1>3, <1>4 DEF Fund!Deliver

\* Settlement: all that is not an earned fee is shared over the tokens left.
LEMMA MoneySettle ==
  ASSUME TypeOK, Money, settle
  PROVE  Money' /\ Fund!Realise
<1>1. /\ vault_usdc \in Nat /\ supply \in Nat /\ vault.total_shares \in Nat
      /\ vault.delivered_shares \in Nat /\ vault.total_deployed \in Nat
      /\ vault.fees_collected \in Nat /\ vault.fees_swept \in Nat
  BY DEF TypeOK, Vault
<1>2. InvestingInv
  BY DEF settle, Money, InPhase, Investing
<1>3. PICK r \in Nat : r = Redeemable /\ r > 0
  BY <1>1, DerivedNat, SatSubNat DEF settle, Redeemable, TypeOK
<1>4. /\ vault.phase = "Realized" /\ vault'.phase = "Claimable"
      /\ vault_usdc' = vault_usdc /\ supply' = supply
      /\ vault'.redeemable_amount = r
      /\ vault'.fee_at_exit = vault.fee_at_exit
      /\ vault'.total_shares = vault.total_shares
      /\ vault'.delivered_shares = vault.delivered_shares
      /\ vault'.total_redeemed_usdc = vault.total_redeemed_usdc
      /\ vault'.fees_collected = vault.fees_collected
      /\ vault'.fees_swept = vault.fees_swept
  BY <1>3 DEF settle, InPhase, tokenVars, TypeOK, Vault
<1>5. vault_usdc >= vault.fees_collected /\ r = vault_usdc - vault.fees_collected
  BY <1>1, <1>2, <1>3 DEF Redeemable, fees_outstanding, SatSub, InvestingInv
<1>6. cash_shares(vault) = supply /\ cash_shares(vault') = supply /\ supply > 0
  BY <1>1, <1>2, <1>4 DEF cash_shares, SatSub, InvestingInv, settle
<1>7. Redeemed' = 0
  BY <1>2, <1>4 DEF Redeemed, InvestingInv
<1>8. RedeemingInv'
  <2>1. r * supply \in Int
    BY <1>1, <1>3, MulInt
  <2>2. (r - 0) * supply >= r * supply
    BY <1>3, <2>1
  <2>3. (vault'.redeemable_amount - Redeemed') * cash_shares(vault')
          >= vault'.redeemable_amount * supply'
    BY <1>4, <1>6, <1>7, <2>2
  <2> QED
    BY <1>1, <1>2, <1>3, <1>4, <1>5, <1>6, <1>7, <2>3 DEF RedeemingInv, InvestingInv
<1>9. Money'
  BY <1>4, <1>8 DEF Money, InPhase, Raising, Investing, Redeeming
<1>10. /\ Stage = "invested" /\ Stage' = "paying"
  BY <1>4 DEF Stage, InPhase
<1>11. Pot' = r
  BY <1>3, <1>4, <1>7, <1>10 DEF Pot, Pool, PaidOut, Redeemed
<1>12. fees_outstanding(vault)' = fees_outstanding(vault)
  BY <1>4 DEF fees_outstanding
<1> QED
  BY <1>3, <1>4, <1>6, <1>9, <1>10, <1>11, <1>12 DEF Fund!Realise

\* A claim takes a rounded share of the pool, part of it as the exit fee.
LEMMA MoneyClaim ==
  ASSUME TypeOK, Money, NEW h \in Holders, NEW n \in ShareAmounts, claim(h, n)
  PROVE  Money' /\ Fund!Pay
<1>1. /\ n \in Nat /\ vault_usdc \in Nat /\ supply \in Nat
      /\ vault.redeemable_amount \in Nat /\ vault.total_redeemed_usdc \in Nat
      /\ vault.fees_collected \in Nat /\ vault.fees_swept \in Nat
      /\ cash_shares(vault) \in Nat
  BY VaultAssumption, DerivedNat DEF TypeOK, Vault
<1>2. RedeemingInv
  BY DEF claim, Money, InPhase, Redeeming
<1>3. PICK gross \in Nat : gross = redeem_amount(vault, n)
  BY <1>1, DerivedNat DEF TypeOK
<1>4. PICK fee \in Nat : fee = ExitFee(gross) /\ fee <= gross
  BY <1>3, FeeBounded DEF ExitFee
<1>5. ~vault.fee_at_exit => fee = 0
  BY <1>4 DEF ExitFee
<1>6. /\ vault.phase \in {"Claimable", "Winding"}
      /\ gross - fee > 0 /\ gross - fee <= vault_usdc
      /\ n > 0 /\ n <= supply /\ supply' = supply - n
      /\ vault_usdc' = vault_usdc - (gross - fee)
      /\ vault' = [vault EXCEPT !.total_redeemed_shares = @ + n,
                                !.total_redeemed_usdc = @ + (gross - fee),
                                !.fees_collected = @ + fee]
  BY <1>3, <1>4 DEF claim, Burned, InPhase
<1>7. /\ vault'.phase = vault.phase /\ vault'.fee_at_exit = vault.fee_at_exit
      /\ vault'.redeemable_amount = vault.redeemable_amount
      /\ vault'.total_shares = vault.total_shares
      /\ vault'.delivered_shares = vault.delivered_shares
      /\ vault'.total_redeemed_usdc = vault.total_redeemed_usdc + (gross - fee)
      /\ vault'.fees_collected = vault.fees_collected + fee
      /\ vault'.fees_swept = vault.fees_swept
  BY <1>6 DEF TypeOK, Vault
<1>8. cash_shares(vault') = cash_shares(vault)
  BY <1>7 DEF cash_shares
<1>9. Redeemed \in Nat /\ Redeemed' = Redeemed + gross
  BY <1>1, <1>3, <1>4, <1>5, <1>7 DEF Redeemed
<1>10. PICK p \in Nat : p = vault.redeemable_amount - Redeemed
  BY <1>1, <1>2, <1>9 DEF RedeemingInv
<1>11. vault'.redeemable_amount - Redeemed' = p - gross
  BY <1>1, <1>3, <1>7, <1>9, <1>10
<1>12. /\ gross <= p
       /\ (p - gross) * cash_shares(vault) >= vault.redeemable_amount * (supply - n)
       /\ (p - gross) * supply >= p * (supply - n)
  <2>1. gross = (vault.redeemable_amount * n) \div cash_shares(vault)
    BY <1>2, <1>3 DEF redeem_amount, ProRata, RedeemingInv
  <2>2. p * cash_shares(vault) >= vault.redeemable_amount * supply
    BY <1>2, <1>10 DEF RedeemingInv
  <2> QED
    BY <1>1, <1>2, <1>6, <1>10, <2>1, <2>2, PayOut DEF RedeemingInv
<1>13. RedeemingInv'
  <2>1. /\ supply' <= cash_shares(vault') /\ cash_shares(vault') > 0
        /\ vault'.fees_swept <= vault'.fees_collected
    BY <1>1, <1>2, <1>4, <1>6, <1>7, <1>8 DEF RedeemingInv
  <2>2. Redeemed' <= vault'.redeemable_amount
    BY <1>1, <1>3, <1>7, <1>9, <1>10, <1>12
  <2>3. vault_usdc >= p + (vault.fees_collected - vault.fees_swept)
    BY <1>2, <1>10 DEF RedeemingInv
  <2>4. vault_usdc' >= vault'.redeemable_amount - Redeemed'
                         + (vault'.fees_collected - vault'.fees_swept)
    BY <1>1, <1>3, <1>4, <1>6, <1>7, <1>11, <2>3
  <2>5. (vault'.redeemable_amount - Redeemed') * cash_shares(vault')
          >= vault'.redeemable_amount * supply'
    BY <1>6, <1>7, <1>8, <1>11, <1>12
  <2> QED
    BY <2>1, <2>2, <2>4, <2>5 DEF RedeemingInv
<1>14. Money'
  BY <1>6, <1>7, <1>13 DEF Money, InPhase, Raising, Investing, Redeeming
<1>15. Stage = "paying" /\ Stage' = "paying"
  BY <1>6, <1>7 DEF Stage, InPhase
<1>16. Pot = p /\ Pot' = p - gross
  BY <1>10, <1>11, <1>15 DEF Pot, Pool, PaidOut, Redeemed
<1>17. PICK e \in Nat : e = fees_outstanding(vault)
  BY DerivedNat DEF TypeOK
<1>18. fees_outstanding(vault)' = e + fee
  BY <1>1, <1>2, <1>4, <1>7, <1>17 DEF fees_outstanding, SatSub, RedeemingInv
<1> QED
  <2>1. supply' \in 0 .. supply - 1 /\ Pot' \in 0 .. Pot - 1
    BY <1>1, <1>3, <1>4, <1>6, <1>10, <1>12, <1>16
  <2>2. Pot' * supply >= Pot * supply'
    BY <1>6, <1>12, <1>16
  <2>3. e + fee >= e /\ (p - gross) + (e + fee) < p + e
    BY <1>3, <1>4, <1>6, <1>10, <1>17
  <2> QED
    BY <1>14, <1>15, <1>16, <1>17, <1>18, <2>1, <2>2, <2>3 DEF Fund!Pay

\* A sweep takes earned fees and leaves the pool alone.
LEMMA MoneySweep ==
  ASSUME TypeOK, Money, NEW amount \in 1 .. fees_outstanding(vault), sweep_fee(amount)
  PROVE  Money' /\ Fund!Withdraw
<1>1. /\ vault_usdc \in Nat /\ vault.fees_collected \in Nat /\ vault.fees_swept \in Nat
      /\ vault.redeemable_amount \in Nat /\ vault.total_redeemed_usdc \in Nat
      /\ amount \in Nat /\ amount > 0
  BY DerivedNat DEF TypeOK, Vault
<1>2. RedeemingInv
  BY DEF sweep_fee, Money, InPhase, Redeeming
<1>3. amount <= vault.fees_collected - vault.fees_swept
  BY <1>1, <1>2 DEF sweep_fee, fees_outstanding, SatSub, RedeemingInv
<1>4. /\ vault.phase \in Redeeming /\ vault'.phase = vault.phase
      /\ vault_usdc' = vault_usdc - amount /\ supply' = supply
      /\ vault'.fee_at_exit = vault.fee_at_exit
      /\ vault'.redeemable_amount = vault.redeemable_amount
      /\ vault'.total_shares = vault.total_shares
      /\ vault'.delivered_shares = vault.delivered_shares
      /\ vault'.total_redeemed_usdc = vault.total_redeemed_usdc
      /\ vault'.fees_collected = vault.fees_collected
      /\ vault'.fees_swept = vault.fees_swept + amount
  BY DEF sweep_fee, InPhase, Redeeming, tokenVars, TypeOK, Vault
<1>5. cash_shares(vault') = cash_shares(vault) /\ Redeemed' = Redeemed /\ Redeemed \in Nat
  BY <1>1, <1>4 DEF cash_shares, Redeemed
<1>6. RedeemingInv'
  <2>1. PICK p \in Nat : p = vault.redeemable_amount - Redeemed
    BY <1>1, <1>2, <1>5 DEF RedeemingInv
  <2>2. vault_usdc >= p + (vault.fees_collected - vault.fees_swept)
    BY <1>2, <2>1 DEF RedeemingInv
  <2>3. vault_usdc - amount >= p + (vault.fees_collected - (vault.fees_swept + amount))
    BY <1>1, <2>1, <2>2
  <2>4. vault_usdc' >= vault'.redeemable_amount - Redeemed'
                         + (vault'.fees_collected - vault'.fees_swept)
    BY <1>4, <1>5, <2>1, <2>3
  <2>5. vault'.fees_swept <= vault'.fees_collected
    BY <1>1, <1>3, <1>4
  <2> QED
    BY <1>2, <1>4, <1>5, <2>4, <2>5 DEF RedeemingInv
<1>7. Money'
  BY <1>4, <1>6 DEF Money, InPhase, Raising, Investing, Redeeming
<1>8. Stage \in {"paying", "closed"} /\ Stage' = Stage /\ Pot' = Pot
  <2>1. Stage \in {"paying", "closed"} /\ Stage' = Stage
    BY <1>4 DEF Stage, InPhase, Redeeming
  <2> QED
    BY <1>4, <2>1 DEF Pot, Pool, PaidOut
<1>9. /\ fees_outstanding(vault) = vault.fees_collected - vault.fees_swept
      /\ fees_outstanding(vault)' = vault.fees_collected - (vault.fees_swept + amount)
  BY <1>1, <1>2, <1>3, <1>4 DEF fees_outstanding, SatSub, RedeemingInv
<1>10. fees_outstanding(vault)' \in 0 .. fees_outstanding(vault) - 1
  BY <1>1, <1>3, <1>9
<1> QED
  BY <1>4, <1>7, <1>8, <1>10 DEF Fund!Withdraw

\* A cancelled vault holds all it took in: the costs are all that is missing.
LEMMA MoneyCancel ==
  ASSUME TypeOK, Money, NEW costs \in UsdcAmounts \cup {0}, cancel(costs)
  PROVE  Money' /\ Fund!Abort
<1>1. /\ costs \in Nat /\ vault_usdc \in Nat /\ supply \in Nat
      /\ vault.total_deposits \in Nat /\ vault.total_shares \in Nat
  BY VaultAssumption DEF TypeOK, Vault
<1>2. RaisingInv
  BY DEF cancel, Money, InPhase, Raising
<1>3. /\ vault.phase \in Raising /\ costs <= vault.total_deposits
      /\ vault_usdc' = vault_usdc /\ supply' = supply
      /\ vault'.phase = "Cancelled" /\ vault'.unrefundable_costs = costs
      /\ vault'.total_deposits = vault.total_deposits
      /\ vault'.total_shares = vault.total_shares
      /\ vault'.fees_collected = vault.fees_collected
      /\ vault'.fees_swept = vault.fees_swept
      /\ vault'.total_refunded_usdc = vault.total_refunded_usdc
  BY DEF cancel, InPhase, Raising, tokenVars, TypeOK, Vault
<1>4. PICK pool \in Nat : pool = vault.total_deposits - costs
  BY <1>1, <1>3
<1>5. refund_pool(vault') = pool
  BY <1>1, <1>3, <1>4 DEF refund_pool, SatSub
<1>6. RefundingInv'
  <2>1. pool * vault.total_shares \in Int
    BY <1>1, MulInt
  <2>2. (pool - 0) * vault.total_shares >= pool * vault.total_shares
    BY <2>1
  <2>3. (refund_pool(vault') - vault'.total_refunded_usdc) * vault'.total_shares
          >= refund_pool(vault') * supply'
    BY <1>2, <1>3, <1>5, <2>2 DEF RaisingInv
  <2> QED
    BY <1>1, <1>2, <1>3, <1>4, <1>5, <2>3 DEF RefundingInv, RaisingInv
<1>7. Money'
  BY <1>3, <1>6 DEF Money, InPhase, Raising, Investing, Redeeming
<1>8. Stage = "raising" /\ Stage' = "refunding"
  BY <1>3 DEF Stage, InPhase, Raising
<1>9. Pot = vault.total_deposits /\ Pot' = pool - 0
  BY <1>2, <1>3, <1>5, <1>8 DEF Pot, Pool, PaidOut, RaisingInv
<1>10. fees_outstanding(vault)' = fees_outstanding(vault)
  BY <1>3 DEF fees_outstanding
<1> QED
  BY <1>1, <1>3, <1>4, <1>7, <1>8, <1>9, <1>10 DEF Fund!Abort

\* A refund takes a rounded share of what was subscribed less the costs.
LEMMA MoneyRefund ==
  ASSUME TypeOK, Money, NEW h \in Holders, NEW n \in ShareAmounts, refund(h, n)
  PROVE  Money' /\ Fund!Pay
<1>1. /\ n \in Nat /\ vault_usdc \in Nat /\ supply \in Nat
      /\ vault.total_shares \in Nat /\ vault.total_refunded_usdc \in Nat
      /\ refund_pool(vault) \in Nat
  BY VaultAssumption, DerivedNat DEF TypeOK, Vault
<1>2. RefundingInv
  BY DEF refund, Money, InPhase
<1>3. PICK payout \in Nat : payout = refund_amount(vault, n)
  BY <1>1, DerivedNat DEF TypeOK
<1>4. /\ vault.phase = "Cancelled"
      /\ payout > 0 /\ payout <= vault_usdc
      /\ n > 0 /\ n <= supply /\ supply' = supply - n
      /\ vault_usdc' = vault_usdc - payout
      /\ vault' = [vault EXCEPT !.total_refunded_usdc = @ + payout]
  BY <1>3 DEF refund, Burned, InPhase
<1>5. /\ vault'.phase = vault.phase
      /\ vault'.total_deposits = vault.total_deposits
      /\ vault'.total_shares = vault.total_shares
      /\ vault'.unrefundable_costs = vault.unrefundable_costs
      /\ vault'.total_refunded_usdc = vault.total_refunded_usdc + payout
      /\ vault'.fees_collected = vault.fees_collected
      /\ vault'.fees_swept = vault.fees_swept
  BY <1>4 DEF TypeOK, Vault
<1>6. refund_pool(vault') = refund_pool(vault)
  BY <1>5 DEF refund_pool
<1>7. PICK p \in Nat : p = refund_pool(vault) - vault.total_refunded_usdc
  BY <1>1, <1>2 DEF RefundingInv
<1>8. /\ payout <= p
      /\ (p - payout) * vault.total_shares >= refund_pool(vault) * (supply - n)
      /\ (p - payout) * supply >= p * (supply - n)
  <2>1. /\ vault.total_shares > 0
        /\ payout = (refund_pool(vault) * n) \div vault.total_shares
    BY <1>1, <1>3, <1>4 DEF refund_amount, ProRata
  <2>2. p * vault.total_shares >= refund_pool(vault) * supply
    BY <1>2, <1>7 DEF RefundingInv
  <2> QED
    BY <1>1, <1>4, <1>7, <2>1, <2>2, PayOut
<1>9. refund_pool(vault') - vault'.total_refunded_usdc = p - payout
  BY <1>1, <1>3, <1>5, <1>6, <1>7
<1>10. RefundingInv'
  <2>1. (refund_pool(vault') - vault'.total_refunded_usdc) * vault'.total_shares
          >= refund_pool(vault') * supply'
    BY <1>4, <1>5, <1>6, <1>8, <1>9
  <2>2. vault_usdc >= p
    BY <1>2, <1>7 DEF RefundingInv
  <2>3. vault_usdc' >= refund_pool(vault') - vault'.total_refunded_usdc
    BY <1>1, <1>3, <1>4, <1>7, <1>9, <2>2
  <2>4. vault'.total_refunded_usdc <= refund_pool(vault')
    BY <1>1, <1>3, <1>5, <1>6, <1>7, <1>8
  <2> QED
    BY <1>1, <1>2, <1>4, <1>5, <2>1, <2>3, <2>4 DEF RefundingInv
<1>11. Money'
  BY <1>4, <1>5, <1>10 DEF Money, InPhase, Raising, Investing, Redeeming
<1>12. Stage = "refunding" /\ Stage' = "refunding"
  BY <1>4, <1>5 DEF Stage, InPhase
<1>13. Pot = p /\ Pot' = p - payout
  BY <1>7, <1>9, <1>12 DEF Pot, Pool, PaidOut
<1>14. PICK e \in Nat : e = fees_outstanding(vault)
  BY DerivedNat DEF TypeOK
<1>15. fees_outstanding(vault)' = e
  BY <1>5, <1>14 DEF fees_outstanding
<1> QED
  <2>1. supply' \in 0 .. supply - 1 /\ Pot' \in 0 .. Pot - 1
    BY <1>1, <1>3, <1>4, <1>7, <1>8, <1>13
  <2>2. Pot' * supply >= Pot * supply'
    BY <1>4, <1>8, <1>13
  <2>3. (p - payout) + e < p + e
    BY <1>3, <1>4, <1>7, <1>14
  <2> QED
    BY <1>11, <1>12, <1>13, <1>14, <1>15, <2>1, <2>2, <2>3 DEF Fund!Pay

\* The fee timing can change only before the first deposit, when no fee exists.
LEMMA MoneyFeeTiming ==
  ASSUME TypeOK, Money, NEW at_exit \in BOOLEAN, set_fee_timing(at_exit)
  PROVE  Money' /\ UNCHANGED FundVars
<1>1. /\ vault.total_shares = 0 /\ vault.delivered_shares \in Nat
      /\ vault.total_deployed \in Nat /\ vault.phase \in Phases
  BY DEF set_fee_timing, TypeOK, Vault
<1>2. vault.phase \notin Investing
  BY <1>1 DEF Money, InPhase, InvestingInv
<1>3. vault.phase \notin Redeeming
  <2>1. cash_shares(vault) <= 0
    BY <1>1, SatSubNat DEF cash_shares
  <2>2. cash_shares(vault) \in Nat
    BY DerivedNat DEF TypeOK
  <2> QED
    BY <2>1, <2>2 DEF Money, InPhase, RedeemingInv
<1>4. vault.phase \in Raising \cup {"Cancelled"}
  BY <1>1, <1>2, <1>3 DEF Phases, Raising, Investing, Redeeming
<1>5. /\ vault_usdc' = vault_usdc /\ supply' = supply
      /\ vault'.phase = vault.phase
      /\ vault'.total_deposits = vault.total_deposits
      /\ vault'.total_shares = vault.total_shares
      /\ vault'.deployable_amount = vault.deployable_amount
      /\ vault'.total_deployed = vault.total_deployed
      /\ vault'.delivered_shares = vault.delivered_shares
      /\ vault'.total_redeemed_usdc = vault.total_redeemed_usdc
      /\ vault'.fees_escrowed = vault.fees_escrowed
      /\ vault'.fees_collected = vault.fees_collected
      /\ vault'.fees_swept = vault.fees_swept
      /\ vault'.unrefundable_costs = vault.unrefundable_costs
      /\ vault'.total_refunded_usdc = vault.total_refunded_usdc
  BY DEF set_fee_timing, tokenVars, TypeOK, Vault
<1>6. /\ refund_pool(vault') = refund_pool(vault)
      /\ fees_outstanding(vault') = fees_outstanding(vault)
  BY <1>5 DEF refund_pool, fees_outstanding
<1>7. Money'
  BY <1>1, <1>4, <1>5, <1>6
     DEF Money, InPhase, Raising, Investing, Redeeming, RaisingInv, RefundingInv
<1>8. Stage' = Stage /\ Stage \in {"raising", "refunding"}
  BY <1>4, <1>5 DEF Stage, InPhase, Raising
<1>9. Pot' = Pot
  BY <1>5, <1>6, <1>8 DEF Pot, Pool, PaidOut
<1> QED
  BY <1>5, <1>6, <1>7, <1>8, <1>9 DEF FundVars

\* Money that comes in belongs to nobody until it is settled.
LEMMA MoneyReturn ==
  ASSUME TypeOK, Money, NEW amount \in UsdcAmounts, ReturnUsdc(amount)
  PROVE  Money' /\ UNCHANGED FundVars
<1>1. vault' = vault /\ supply' = supply /\ vault_usdc' = vault_usdc + amount
  BY DEF ReturnUsdc, tokenVars
<1>2. amount \in Nat /\ vault_usdc \in Nat /\ vault \in Vault
  BY VaultAssumption DEF TypeOK
<1>3. /\ vault.total_deposits \in Nat /\ vault.total_shares \in Nat
      /\ vault.total_deployed \in Nat /\ vault.fees_collected \in Nat
      /\ vault.fees_swept \in Nat /\ vault.redeemable_amount \in Nat
      /\ vault.total_redeemed_usdc \in Nat /\ vault.total_refunded_usdc \in Nat
      /\ refund_pool(vault) \in Nat
  BY <1>2, DerivedNat DEF Vault
<1>4. Redeemed \in Int /\ Redeemed' = Redeemed
  BY <1>1, <1>3 DEF Redeemed
<1>5. InPhase(Raising) => RaisingInv'
  BY <1>1, <1>2, <1>3 DEF Money, RaisingInv
<1>6. InPhase(Investing) => InvestingInv'
  BY <1>1, <1>2, <1>3 DEF Money, InvestingInv
<1>7. InPhase(Redeeming) => RedeemingInv'
  BY <1>1, <1>2, <1>3, <1>4 DEF Money, RedeemingInv
<1>8. InPhase({"Cancelled"}) => RefundingInv'
  BY <1>1, <1>2, <1>3 DEF Money, RefundingInv
<1>9. Money'
  BY <1>1, <1>5, <1>6, <1>7, <1>8 DEF Money, InPhase, Raising, Investing, Redeeming
<1> QED
  BY <1>1, <1>9 DEF FundVars, Stage, InPhase, Pot, Pool, PaidOut

\* A step that changes nothing but settings is a step the fund does not see.
LEMMA SettingsOnly ==
  ASSUME TypeOK, Money, UNCHANGED <<vault_usdc, supply>>,
         \/ UNCHANGED vault
         \/ \E b \in BOOLEAN : vault' = [vault EXCEPT !.frozen = b]
         \/ \E b \in BOOLEAN : vault' = [vault EXCEPT !.transfer_lock = b]
         \/ \E d : vault' = [vault EXCEPT !.funding_deadline = d]
         \/ \E op : vault' = [vault EXCEPT !.operator = op]
  PROVE  Money' /\ UNCHANGED FundVars
<1>1. Money'
  BY MoneySame
<1>2. /\ vault'.phase = vault.phase /\ vault'.fee_at_exit = vault.fee_at_exit
      /\ vault'.total_deposits = vault.total_deposits
      /\ vault'.total_shares = vault.total_shares
      /\ vault'.total_deployed = vault.total_deployed
      /\ vault'.redeemable_amount = vault.redeemable_amount
      /\ vault'.total_redeemed_usdc = vault.total_redeemed_usdc
      /\ vault'.fees_collected = vault.fees_collected
      /\ vault'.fees_swept = vault.fees_swept
      /\ vault'.unrefundable_costs = vault.unrefundable_costs
      /\ vault'.total_refunded_usdc = vault.total_refunded_usdc
  BY DEF TypeOK, Vault
<1>3. /\ refund_pool(vault') = refund_pool(vault)
      /\ fees_outstanding(vault') = fees_outstanding(vault)
  BY <1>2 DEF refund_pool, fees_outstanding
<1>4. Stage' = Stage
  BY <1>2 DEF Stage, InPhase
<1>5. Pot' = Pot
  BY <1>2, <1>3, <1>4 DEF Pot, Pool, PaidOut
<1> QED
  BY <1>1, <1>3, <1>4, <1>5 DEF FundVars

\* Every step keeps the invariant, and is a step of the fund or none at all.
LEMMA MoneyNext ==
  ASSUME TypeOK, Money, [Next]_vars
  PROVE  Money' /\ [Fund!Next]_FundVars
<1> USE DEF Fund!Next
<1>1. CASE HolderStep
  <2>1. ASSUME NEW h \in Holders, NEW n \in ShareAmounts, NEW g \in Holders,
               TransferShares(h, g, n)
        PROVE  Money' /\ UNCHANGED FundVars
    BY <2>1, SettingsOnly DEF TransferShares
  <2>2. ASSUME NEW h \in Holders, unlock_shares(h)
        PROVE  Money' /\ UNCHANGED FundVars
    BY <2>2, SettingsOnly DEF unlock_shares
  <2> QED
    BY <1>1, <2>1, <2>2, MoneyDeposit, MoneyElect, MoneyClaim, MoneyRefund DEF HolderStep
<1>2. CASE PhaseStep
  <2>1. CASE open_funding
    BY <2>1, MoneyAdvance DEF open_funding
  <2>2. CASE seal_funding
    BY <2>2, MoneyAdvance DEF seal_funding
  <2>3. CASE begin_sourcing
    BY <2>3, MoneyAdvance DEF begin_sourcing
  <2>4. CASE mark_realized
    BY <2>4, MoneyAdvance DEF mark_realized
  <2>5. CASE wind_down
    BY <2>5, MoneyAdvance DEF wind_down
  <2>6. CASE settle
    BY <2>6, MoneySettle
  <2>7. CASE conclude
    BY <2>7, MoneyConclude
  <2> QED
    BY <1>2, <2>1, <2>2, <2>3, <2>4, <2>5, <2>6, <2>7,
       MoneyAllocation, MoneyListed, MoneyCancel DEF PhaseStep
<1>3. CASE StaffStep
  <2>1. ASSUME NEW period \in Periods, set_funding_deadline(now + period)
        PROVE  Money' /\ UNCHANGED FundVars
    BY <2>1, SettingsOnly DEF set_funding_deadline, tokenVars
  <2>2. ASSUME NEW frozen \in BOOLEAN, freeze_deposits(frozen)
        PROVE  Money' /\ UNCHANGED FundVars
    BY <2>2, SettingsOnly DEF freeze_deposits, tokenVars
  <2>3. ASSUME NEW locked \in LockSettings, set_transfer_lock(locked)
        PROVE  Money' /\ UNCHANGED FundVars
    BY <2>3, VaultAssumption, SettingsOnly DEF set_transfer_lock, tokenVars
  <2>4. ASSUME NEW op \in Operators, update_operator(op)
        PROVE  Money' /\ UNCHANGED FundVars
    BY <2>4, SettingsOnly DEF update_operator, tokenVars
  <2> QED
    BY <1>3, <2>1, <2>2, <2>3, <2>4, MoneyDeploy, MoneySweep, MoneyFeeTiming DEF StaffStep
<1>4. ASSUME NEW amount \in UsdcAmounts, ReturnUsdc(amount)
      PROVE  Money' /\ UNCHANGED FundVars
  BY <1>4, MoneyReturn
<1>5. CASE Tick
  BY <1>5, SettingsOnly DEF Tick, tokenVars
<1>6. CASE UNCHANGED vars
  BY <1>6, SettingsOnly DEF vars, tokenVars
<1> QED
  BY <1>1, <1>2, <1>3, <1>4, <1>5, <1>6 DEF Next

-----------------------------------------------------------------------------
(* What the invariant says of the fund, and the theorems.                  *)

LEMMA SolventFromMoney ==
  ASSUME TypeOK, Money
  PROVE  Solvent
<1>1. /\ vault_usdc \in Nat /\ vault.total_deposits \in Nat /\ vault.total_shares \in Nat
      /\ vault.total_deployed \in Nat /\ vault.redeemable_amount \in Nat
      /\ vault.total_redeemed_usdc \in Nat /\ vault.total_refunded_usdc \in Nat
      /\ vault.fees_collected \in Nat /\ vault.fees_swept \in Nat
      /\ refund_pool(vault) \in Nat /\ vault.phase \in Phases
  BY DerivedNat DEF TypeOK, Vault
<1>2. CASE vault.phase \in Raising
  <2>1. Pot = vault.total_deposits
    BY <1>2 DEF Pot, Stage, InPhase, Raising
  <2> QED
    BY <1>1, <1>2, <2>1 DEF Solvent, Money, InPhase, RaisingInv, fees_outstanding, SatSub
<1>3. CASE vault.phase \in Investing
  <2>1. Pot = vault.total_shares - vault.total_deployed
    BY <1>3 DEF Pot, Stage, InPhase, Investing
  <2> QED
    BY <1>1, <1>3, <2>1 DEF Solvent, Money, InPhase, InvestingInv, fees_outstanding, SatSub
<1>4. CASE vault.phase \in Redeeming
  <2>1. Pot = vault.redeemable_amount - Redeemed
    BY <1>4 DEF Pot, Stage, InPhase, Redeeming, Pool, PaidOut, Redeemed
  <2>2. Redeemed \in Nat
    BY <1>1 DEF Redeemed
  <2> QED
    BY <1>1, <1>4, <2>1, <2>2 DEF Solvent, Money, InPhase, RedeemingInv, fees_outstanding, SatSub
<1>5. CASE vault.phase = "Cancelled"
  <2>1. Pot = refund_pool(vault) - vault.total_refunded_usdc
    BY <1>5 DEF Pot, Stage, InPhase, Pool, PaidOut
  <2> QED
    BY <1>1, <1>5, <2>1 DEF Solvent, Money, InPhase, RefundingInv, fees_outstanding, SatSub
<1> QED
  BY <1>1, <1>2, <1>3, <1>4, <1>5 DEF Phases, Raising, Investing, Redeeming

LEMMA CoveredFromMoney ==
  ASSUME TypeOK, Money
  PROVE  TokensCovered
<1>1. CASE vault.phase \in Redeeming
  BY <1>1 DEF TokensCovered, Stage, InPhase, Redeeming, Pool, Base, PaidOut,
              Money, RedeemingInv, Redeemed
<1>2. CASE vault.phase = "Cancelled"
  BY <1>2 DEF TokensCovered, Stage, InPhase, Pool, Base, PaidOut, Money, RefundingInv
<1>3. CASE vault.phase \notin Redeeming \cup {"Cancelled"}
  BY <1>3 DEF TokensCovered, Stage, InPhase, Redeeming
<1> QED
  BY <1>1, <1>2, <1>3

LEMMA MoneyCorrect == Spec => [](TypeOK /\ Money)
<1>1. Init => TypeOK /\ Money
  BY TypeInit, MoneyInit
<1>2. TypeOK /\ Money /\ [Next]_vars => (TypeOK /\ Money)'
  BY TypeNext, MoneyNext
<1> QED
  BY <1>1, <1>2, PTL DEF Spec

\* In every phase the vault's account covers what belongs to the claim tokens
\* and the fees earned on top of it (state.rs, sweep_fee.rs).
THEOREM Solvency == Spec => []Solvent
<1>1. TypeOK /\ Money => Solvent
  BY SolventFromMoney
<1> QED
  BY <1>1, MoneyCorrect, PTL

\* However claims or refunds are cut up and rounded, the pool leaves every
\* token in existence its full share (claim.rs, refund.rs).
THEOREM Covered == Spec => []TokensCovered
<1>1. TypeOK /\ Money => TokensCovered
  BY CoveredFromMoney
<1> QED
  BY <1>1, MoneyCorrect, PTL

\* Every step of the vault is a step of the pooled fund or invisible to it:
\* stages follow as promised, fees are earned only by investing or paying out,
\* and no payment lowers what is left per token.
THEOREM ImplementsFund == Spec => FundSpec
<1>1. Init => Fund!Init
  BY DEF Init, Fund!Init, Stage, InPhase, Pot, fees_outstanding, SatSub
<1>2. TypeOK /\ Money /\ [Next]_vars
        => [Fund!Next]_<<Stage, Pot, supply, fees_outstanding(vault)>>
  BY MoneyNext DEF FundVars
<1> QED
  BY <1>1, <1>2, MoneyCorrect, PTL DEF Spec, FundSpec, Fund!Spec

-----------------------------------------------------------------------------
(* The depositors' records: sums over them move with the one record that   *)
(* changes.                                                                *)

BuyerFields == {"deposit_amount", "shares_minted", "shares_redeemed", "usdc_redeemed",
                "usdc_refunded", "shares_delivered", "underlying_delivered"}

LEMMA TermChange ==
    \A f, g \in [Holders -> Nat] : \A h \in Holders :
       (\A i \in Holders : i # h => g[i] = f[i])
         => /\ SumFunction(f) \in Nat /\ SumFunction(g) \in Nat
            /\ SumFunction(g) = SumFunction(f) - f[h] + g[h]
<1> TAKE f, g \in [Holders -> Nat]
<1> TAKE h \in Holders
<1>1. f \in [Holders -> Int] /\ g \in [Holders -> Int] /\ f[h] \in Nat /\ g[h] \in Nat
  OBVIOUS
<1>2. SumFunction(f) \in Nat /\ SumFunction(g) \in Nat
  BY VaultAssumption, SumCovers
<1>3. (\A i \in Holders : i # h => g[i] = f[i])
        => SumFunction(g) = SumFunction(f) + g[h] - f[h]
  BY <1>1, VaultAssumption, SumChange
<1> QED
  BY <1>1, <1>2, <1>3

LEMMA TotalNat ==
  ASSUME TypeOK, NEW field \in BuyerFields
  PROVE  Total(field) \in Nat
<1>1. [h \in Holders |-> buyer[h][field]] \in [Holders -> Nat]
  BY DEF TypeOK, Buyer, BuyerFields
<1> QED
  BY <1>1, VaultAssumption, SumCovers DEF Total

\* Every total moves by as much as the record of the holder who acted.
LEMMA TotalsMove ==
  ASSUME TypeOK, TypeOK', NEW h \in Holders,
         \A g \in Holders : g # h => buyer'[g] = buyer[g]
  PROVE  \A field \in BuyerFields :
            Total(field)' = Total(field) - buyer[h][field] + buyer'[h][field]
<1> TAKE field \in BuyerFields
<1> DEFINE f == [i \in Holders |-> buyer[i][field]]
           g == [i \in Holders |-> buyer'[i][field]]
<1>1. f \in [Holders -> Nat] /\ g \in [Holders -> Nat]
  BY DEF TypeOK, Buyer, BuyerFields
<1>2. \A i \in Holders : i # h => g[i] = f[i]
  OBVIOUS
<1>3. f[h] = buyer[h][field] /\ g[h] = buyer'[h][field]
  OBVIOUS
<1>4. Total(field) = SumFunction(f) /\ Total(field)' = SumFunction(g)
  BY DEF Total
<1> HIDE DEF f, g
<1>5. SumFunction(g) = SumFunction(f) - f[h] + g[h]
  BY <1>1, <1>2, TermChange
<1> QED
  BY <1>3, <1>4, <1>5

\* So does the number of tokens in wallets.
LEMMA SharesMove ==
  ASSUME TypeOK, TypeOK', NEW h \in Holders,
         \A g \in Holders : g # h => shares'[g] = shares[g]
  PROVE  SumFunction(shares') = SumFunction(shares) - shares[h] + shares'[h]
BY TermChange DEF TypeOK

\* What no change of phase, setting or staff touches.
Delivering == {"Live", "Realized", "Claimable", "Winding", "Concluded"}

Standing ==
    /\ UNCHANGED <<buyer, supply, shares>>
    /\ vault'.total_deposits = vault.total_deposits
    /\ vault'.total_shares = vault.total_shares
    /\ vault'.delivered_shares = vault.delivered_shares
    /\ vault'.total_redeemed_shares = vault.total_redeemed_shares
    /\ vault'.total_redeemed_usdc = vault.total_redeemed_usdc
    /\ vault'.total_refunded_usdc = vault.total_refunded_usdc
    /\ vault'.shares_allocated = vault.shares_allocated \/ vault.phase = "Deployed"
    /\ vault.phase = "Cancelled" => vault'.phase = "Cancelled"
    /\ vault.phase \in Delivering => vault'.phase \in Delivering
    /\ vault'.phase \in {"Scheduled", "Funding"} => vault.phase \in {"Scheduled", "Funding"}

LEMMA StandingStep ==
  ASSUME TypeOK,
         \/ PhaseStep \/ StaffStep
         \/ \E amount \in UsdcAmounts : ReturnUsdc(amount)
         \/ Tick \/ UNCHANGED vars
         \/ \E h \in Holders : unlock_shares(h)
  PROVE  Standing
<1> USE DEF Standing, TypeOK, Vault, tokenVars, InPhase, Delivering
<1>1. ASSUME UNCHANGED <<vault, buyer, supply, shares>> PROVE Standing
  BY <1>1
<1>2. CASE PhaseStep
  <2>1. ASSUME NEW from, NEW to, Advance(from, to), UNCHANGED <<buyer, tokenVars>>,
               \A phase \in from : /\ phase # "Cancelled"
                                   /\ phase \in Delivering => to \in Delivering
                                   /\ to \in {"Scheduled", "Funding"} => phase = "Scheduled"
        PROVE  Standing
    BY <2>1 DEF Advance
  <2>2. CASE open_funding
    BY <2>1, <2>2 DEF open_funding
  <2>3. CASE seal_funding
    BY <2>1, <2>3 DEF seal_funding
  <2>4. CASE begin_sourcing
    BY <2>1, <2>4 DEF begin_sourcing
  <2>5. ASSUME NEW deployable \in UsdcAmounts, confirm_allocation(deployable)
        PROVE  Standing
    BY <2>5 DEF confirm_allocation
  <2>6. ASSUME NEW allocated \in Allocations, NEW period \in Periods,
               mark_listed(allocated, period)
        PROVE  Standing
    BY <2>6 DEF mark_listed
  <2>7. CASE mark_realized
    BY <2>1, <2>7 DEF mark_realized
  <2>8. CASE settle
    BY <2>8 DEF settle
  <2>9. CASE wind_down
    BY <2>1, <2>9 DEF wind_down
  <2>10. CASE conclude
    BY <2>1, <2>10 DEF conclude
  <2>11. ASSUME NEW costs \in UsdcAmounts \cup {0}, cancel(costs)
         PROVE  Standing
    BY <2>11 DEF cancel
  <2> QED
    BY <1>2, <2>2, <2>3, <2>4, <2>5, <2>6, <2>7, <2>8, <2>9, <2>10, <2>11 DEF PhaseStep
<1>3. CASE StaffStep
  <2>1. ASSUME NEW signer \in {Admin} \cup Operators, NEW amount \in UsdcAmounts,
               deploy_capital(signer, amount)
        PROVE  Standing
    BY <2>1 DEF deploy_capital, Earned
  <2>2. ASSUME NEW amount \in 1 .. fees_outstanding(vault), sweep_fee(amount)
        PROVE  Standing
    BY <2>2 DEF sweep_fee
  <2>3. ASSUME NEW period \in Periods, set_funding_deadline(now + period)
        PROVE  Standing
    BY <2>3 DEF set_funding_deadline
  <2>4. ASSUME NEW frozen \in BOOLEAN, freeze_deposits(frozen)
        PROVE  Standing
    BY <2>4 DEF freeze_deposits
  <2>5. ASSUME NEW locked \in LockSettings, set_transfer_lock(locked)
        PROVE  Standing
    BY <2>5 DEF set_transfer_lock
  <2>6. ASSUME NEW at_exit \in BOOLEAN, set_fee_timing(at_exit)
        PROVE  Standing
    BY <2>6 DEF set_fee_timing
  <2>7. ASSUME NEW op \in Operators, update_operator(op)
        PROVE  Standing
    BY <2>7 DEF update_operator
  <2> QED
    BY <1>3, <2>1, <2>2, <2>3, <2>4, <2>5, <2>6, <2>7 DEF StaffStep
<1>4. CASE \E amount \in UsdcAmounts : ReturnUsdc(amount)
  BY <1>1, <1>4 DEF ReturnUsdc
<1>5. CASE Tick \/ UNCHANGED vars
  BY <1>1, <1>5 DEF Tick, vars
<1>6. CASE \E h \in Holders : unlock_shares(h)
  BY <1>1, <1>6 DEF unlock_shares
<1> QED
  BY <1>2, <1>3, <1>4, <1>5, <1>6

\* The records after a burn for n tokens.
LEMMA BurnedSums ==
  ASSUME TypeOK, TypeOK', NEW h \in Holders, NEW n \in Nat, Burned(h, n)
  PROVE  SumFunction(shares') = SumFunction(shares) - n /\ supply' = supply - n
<1>1. /\ shares' = [shares EXCEPT ![h] = @ - n] /\ supply' = supply - n
      /\ n <= shares[h]
  BY DEF Burned
<1>2. shares[h] \in Nat /\ shares \in [Holders -> Nat]
  BY DEF TypeOK
<1>3. shares'[h] = shares[h] - n /\ \A g \in Holders : g # h => shares'[g] = shares[g]
  BY <1>1, <1>2
<1>4. SumFunction(shares') = SumFunction(shares) - shares[h] + shares'[h]
  BY <1>3, SharesMove
<1>5. SumFunction(shares) \in Nat
  BY <1>2, VaultAssumption, SumCovers
<1> QED
  BY <1>1, <1>2, <1>3, <1>4, <1>5

-----------------------------------------------------------------------------
(* The books: what the vault counts is what its depositors' records say.   *)

LEMMA BooksInit == Init => BooksMatchBuyers
<1> SUFFICES ASSUME Init PROVE BooksMatchBuyers
  OBVIOUS
<1>1. SumFunction([h \in Holders |-> 0]) = 0
  BY VaultAssumption, SumZeros
<1>2. ASSUME NEW field \in BuyerFields PROVE Total(field) = 0
  <2>1. \A h \in Holders : buyer[h][field] = 0
    BY DEF Init, NoBuyer, BuyerFields
  <2>2. [h \in Holders |-> buyer[h][field]] = [h \in Holders |-> 0]
    BY <2>1
  <2> QED
    BY <1>1, <2>2 DEF Total
<1>3. /\ shares = [h \in Holders |-> 0] /\ supply = 0
      /\ vault.total_deposits = 0 /\ vault.total_shares = 0
      /\ vault.delivered_shares = 0 /\ vault.total_redeemed_usdc = 0
      /\ vault.total_refunded_usdc = 0 /\ vault.total_redeemed_shares = 0
  BY DEF Init
<1>4. SumFunction(shares) = 0
  BY <1>1, <1>3
<1> QED
  BY <1>2, <1>3, <1>4 DEF BooksMatchBuyers, BuyerFields

LEMMA BooksStanding ==
  ASSUME BooksMatchBuyers, Standing
  PROVE  BooksMatchBuyers'
<1>1. \A field \in BuyerFields : Total(field)' = Total(field)
  BY DEF Standing, Total
<1>2. SumFunction(shares') = SumFunction(shares) /\ supply' = supply
  BY DEF Standing
<1> QED
  BY <1>1, <1>2 DEF BooksMatchBuyers, Standing, InPhase, BuyerFields

LEMMA BooksDeposit ==
  ASSUME TypeOK, TypeOK', BooksMatchBuyers,
         NEW h \in Holders, NEW amount \in UsdcAmounts, deposit(h, amount)
  PROVE  BooksMatchBuyers'
<1>1. PICK accepted \in Nat : accepted = Accepted(h, amount)
  BY AcceptedNat, VaultAssumption
<1>2. PICK fee \in Nat : fee = EntryFee(accepted) /\ accepted - fee \in Nat
  BY <1>1, FeeBounded DEF EntryFee
<1>3. PICK subscribed \in Nat : subscribed = accepted - fee
  BY <1>2
<1>4. /\ vault.phase = "Funding"
      /\ vault' = [vault EXCEPT
                      !.total_deposits = @ + accepted,
                      !.total_shares   = @ + subscribed,
                      !.fees_escrowed  = @ + fee,
                      !.phase = PhaseAt(vault.total_deposits + accepted)]
      /\ buyer' = [buyer EXCEPT ![h].deposit_amount = @ + accepted,
                                ![h].shares_minted  = @ + subscribed]
      /\ supply' = supply + subscribed
      /\ shares' = [shares EXCEPT ![h] = @ + subscribed]
  BY <1>1, <1>2, <1>3 DEF deposit, InPhase
<1>5. /\ vault'.total_deposits = vault.total_deposits + accepted
      /\ vault'.total_shares = vault.total_shares + subscribed
      /\ vault'.delivered_shares = vault.delivered_shares
      /\ vault'.total_redeemed_usdc = vault.total_redeemed_usdc
      /\ vault'.total_refunded_usdc = vault.total_refunded_usdc
      /\ vault'.total_redeemed_shares = vault.total_redeemed_shares
  BY <1>4 DEF TypeOK, Vault
<1>6. /\ \A g \in Holders : g # h => buyer'[g] = buyer[g] /\ shares'[g] = shares[g]
      /\ shares'[h] = shares[h] + subscribed
      /\ buyer'[h] = [buyer[h] EXCEPT !.deposit_amount = @ + accepted,
                                      !.shares_minted  = @ + subscribed]
  BY <1>4 DEF TypeOK
<1>7. \A field \in BuyerFields :
         buyer'[h][field] = CASE field = "deposit_amount" -> buyer[h][field] + accepted
                              [] field = "shares_minted"  -> buyer[h][field] + subscribed
                              [] OTHER -> buyer[h][field]
  BY <1>6 DEF TypeOK, Buyer, BuyerFields
<1>8. \A field \in BuyerFields : Total(field) \in Nat /\ buyer[h][field] \in Nat
  BY TotalNat DEF TypeOK, Buyer, BuyerFields
<1>9. \A field \in BuyerFields :
         Total(field)' = CASE field = "deposit_amount" -> Total(field) + accepted
                           [] field = "shares_minted"  -> Total(field) + subscribed
                           [] OTHER -> Total(field)
  <2> TAKE field \in BuyerFields
  <2>1. Total(field)' = Total(field) - buyer[h][field] + buyer'[h][field]
    BY <1>6, TotalsMove
  <2> QED
    BY <1>7, <1>8, <2>1
<1>10. SumFunction(shares') = SumFunction(shares) + subscribed
  <2>1. SumFunction(shares') = SumFunction(shares) - shares[h] + shares'[h]
    BY <1>6, SharesMove
  <2>2. shares[h] \in Nat /\ SumFunction(shares) \in Nat
    BY VaultAssumption, SumCovers DEF TypeOK
  <2> QED
    BY <1>6, <2>1, <2>2
<1>11. vault.total_deposits \in Nat /\ vault.total_shares \in Nat /\ supply \in Nat
       /\ vault.delivered_shares \in Nat
  BY DEF TypeOK, Vault
<1> QED
  BY <1>4, <1>5, <1>8, <1>9, <1>10, <1>11 DEF BooksMatchBuyers, InPhase, BuyerFields

\* A field of the caller's record or a total, when two fields grow.
Grown(field, f1, a, f2, b, was) ==
    CASE field = f1 -> was + a [] field = f2 -> was + b [] OTHER -> was

LEMMA BooksElect ==
  ASSUME TypeOK, TypeOK', BooksMatchBuyers,
         NEW h \in Holders, NEW n \in ShareAmounts, elect_delivery(h, n)
  PROVE  BooksMatchBuyers'
<1>1. n \in Nat /\ underlying_for(vault, n) \in Nat
  BY VaultAssumption, DerivedNat DEF TypeOK
<1>2. PICK u \in Nat : u = underlying_for(vault, n)
  BY <1>1
<1>3. /\ vault.phase = "Live"
      /\ vault' = [vault EXCEPT !.delivered_shares = @ + n]
      /\ buyer' = [buyer EXCEPT ![h].shares_delivered = @ + n,
                                ![h].underlying_delivered = @ + u]
      /\ Burned(h, n)
  BY <1>2 DEF elect_delivery, InPhase
<1>4. SumFunction(shares') = SumFunction(shares) - n /\ supply' = supply - n
  BY <1>1, <1>3, BurnedSums
<1>5. \A field \in BuyerFields :
         Total(field)' = Grown(field, "shares_delivered", n,
                               "underlying_delivered", u, Total(field))
  <2>1. /\ \A g \in Holders : g # h => buyer'[g] = buyer[g]
        /\ buyer'[h] = [buyer[h] EXCEPT !.shares_delivered = @ + n,
                                        !.underlying_delivered = @ + u]
    BY <1>3 DEF TypeOK
  <2>2. \A field \in BuyerFields :
           buyer'[h][field] = Grown(field, "shares_delivered", n,
                                    "underlying_delivered", u, buyer[h][field])
    BY <2>1 DEF TypeOK, Buyer, BuyerFields, Grown
  <2> TAKE field \in BuyerFields
  <2>3. Total(field)' = Total(field) - buyer[h][field] + buyer'[h][field]
    BY <2>1, TotalsMove
  <2>4. Total(field) \in Nat /\ buyer[h][field] \in Nat
    BY TotalNat DEF TypeOK, Buyer, BuyerFields
  <2> QED
    BY <1>1, <2>2, <2>3, <2>4 DEF Grown
<1>6. /\ vault.phase # "Cancelled"
      /\ vault'.phase = "Live"
      /\ vault'.total_deposits = vault.total_deposits
      /\ vault'.total_shares = vault.total_shares
      /\ vault'.delivered_shares = vault.delivered_shares + n
      /\ vault'.total_redeemed_usdc = vault.total_redeemed_usdc
      /\ vault'.total_refunded_usdc = vault.total_refunded_usdc
      /\ vault'.total_redeemed_shares = vault.total_redeemed_shares
  BY <1>3 DEF TypeOK, Vault
<1>7. /\ vault.delivered_shares \in Nat /\ vault.total_shares \in Nat /\ supply \in Nat
      /\ Total("shares_redeemed") \in Nat /\ Total("shares_delivered") \in Nat
  BY TotalNat DEF TypeOK, Vault, BuyerFields
<1>8. /\ Total("deposit_amount")' = Total("deposit_amount")
      /\ Total("shares_minted")' = Total("shares_minted")
      /\ Total("shares_redeemed")' = Total("shares_redeemed")
      /\ Total("usdc_redeemed")' = Total("usdc_redeemed")
      /\ Total("usdc_refunded")' = Total("usdc_refunded")
      /\ Total("shares_delivered")' = Total("shares_delivered") + n
  BY <1>5 DEF BuyerFields, Grown
<1>9. supply' = vault'.total_shares - Total("shares_redeemed")' - vault'.delivered_shares
  BY <1>1, <1>4, <1>6, <1>7, <1>8 DEF BooksMatchBuyers
<1>10. supply' = SumFunction(shares')
  BY <1>1, <1>4, <1>6, <1>7, <1>8 DEF BooksMatchBuyers
<1> QED
  BY <1>1, <1>4, <1>6, <1>7, <1>8, <1>9, <1>10 DEF BooksMatchBuyers, InPhase

LEMMA BooksClaim ==
  ASSUME TypeOK, TypeOK', BooksMatchBuyers,
         NEW h \in Holders, NEW n \in ShareAmounts, claim(h, n)
  PROVE  BooksMatchBuyers'
<1>1. n \in Nat
  BY VaultAssumption
<1>2. PICK gross \in Nat : gross = redeem_amount(vault, n)
  BY <1>1, DerivedNat DEF TypeOK
<1>3. PICK fee \in Nat : fee = ExitFee(gross) /\ gross - fee \in Nat
  BY <1>2, FeeBounded DEF ExitFee
<1>4. PICK payout \in Nat : payout = gross - fee
  BY <1>3
<1>5. /\ vault.phase \in {"Claimable", "Winding"}
      /\ vault' = [vault EXCEPT !.total_redeemed_shares = @ + n,
                                !.total_redeemed_usdc = @ + payout,
                                !.fees_collected = @ + fee]
      /\ buyer' = [buyer EXCEPT ![h].shares_redeemed = @ + n,
                                ![h].usdc_redeemed = @ + payout]
      /\ Burned(h, n)
  BY <1>2, <1>3, <1>4 DEF claim, InPhase
<1>6. SumFunction(shares') = SumFunction(shares) - n /\ supply' = supply - n
  BY <1>1, <1>5, BurnedSums
<1>7. \A field \in BuyerFields :
         Total(field)' = Grown(field, "shares_redeemed", n,
                               "usdc_redeemed", payout, Total(field))
  <2>1. /\ \A g \in Holders : g # h => buyer'[g] = buyer[g]
        /\ buyer'[h] = [buyer[h] EXCEPT !.shares_redeemed = @ + n,
                                        !.usdc_redeemed = @ + payout]
    BY <1>5 DEF TypeOK
  <2>2. \A field \in BuyerFields :
           buyer'[h][field] = Grown(field, "shares_redeemed", n,
                                    "usdc_redeemed", payout, buyer[h][field])
    BY <2>1 DEF TypeOK, Buyer, BuyerFields, Grown
  <2> TAKE field \in BuyerFields
  <2>3. Total(field)' = Total(field) - buyer[h][field] + buyer'[h][field]
    BY <2>1, TotalsMove
  <2>4. Total(field) \in Nat /\ buyer[h][field] \in Nat
    BY TotalNat DEF TypeOK, Buyer, BuyerFields
  <2> QED
    BY <1>1, <2>2, <2>3, <2>4 DEF Grown
<1>8. /\ vault.phase # "Cancelled"
      /\ vault'.phase = vault.phase
      /\ vault'.total_deposits = vault.total_deposits
      /\ vault'.total_shares = vault.total_shares
      /\ vault'.delivered_shares = vault.delivered_shares
      /\ vault'.total_redeemed_usdc = vault.total_redeemed_usdc + payout
      /\ vault'.total_refunded_usdc = vault.total_refunded_usdc
      /\ vault'.total_redeemed_shares = vault.total_redeemed_shares + n
  BY <1>5 DEF TypeOK, Vault
<1>9. /\ vault.delivered_shares \in Nat /\ vault.total_shares \in Nat /\ supply \in Nat
      /\ Total("shares_redeemed") \in Nat /\ Total("shares_delivered") \in Nat
  BY TotalNat DEF TypeOK, Vault, BuyerFields
<1>10. /\ Total("deposit_amount")' = Total("deposit_amount")
        /\ Total("shares_minted")' = Total("shares_minted")
        /\ Total("shares_redeemed")' = Total("shares_redeemed") + n
        /\ Total("usdc_redeemed")' = Total("usdc_redeemed") + payout
        /\ Total("usdc_refunded")' = Total("usdc_refunded")
        /\ Total("shares_delivered")' = Total("shares_delivered")
  BY <1>7 DEF BuyerFields, Grown
<1>11. supply' = vault'.total_shares - Total("shares_redeemed")' - vault'.delivered_shares
  BY <1>1, <1>6, <1>8, <1>9, <1>10 DEF BooksMatchBuyers
<1>12. supply' = SumFunction(shares')
  BY <1>1, <1>6, <1>8, <1>9, <1>10 DEF BooksMatchBuyers
<1> QED
  BY <1>1, <1>6, <1>8, <1>9, <1>10, <1>11, <1>12 DEF BooksMatchBuyers, InPhase

LEMMA BooksRefund ==
  ASSUME TypeOK, TypeOK', BooksMatchBuyers,
         NEW h \in Holders, NEW n \in ShareAmounts, refund(h, n)
  PROVE  BooksMatchBuyers'
<1>1. n \in Nat
  BY VaultAssumption
<1>2. PICK payout \in Nat : payout = refund_amount(vault, n)
  BY <1>1, DerivedNat DEF TypeOK
<1>3. /\ vault.phase = "Cancelled"
      /\ vault' = [vault EXCEPT !.total_refunded_usdc = @ + payout]
      /\ buyer' = [buyer EXCEPT ![h].shares_redeemed = @ + n,
                                ![h].usdc_refunded = @ + payout]
      /\ Burned(h, n)
  BY <1>2 DEF refund, InPhase
<1>4. SumFunction(shares') = SumFunction(shares) - n /\ supply' = supply - n
  BY <1>1, <1>3, BurnedSums
<1>5. \A field \in BuyerFields :
         Total(field)' = Grown(field, "shares_redeemed", n,
                               "usdc_refunded", payout, Total(field))
  <2>1. /\ \A g \in Holders : g # h => buyer'[g] = buyer[g]
        /\ buyer'[h] = [buyer[h] EXCEPT !.shares_redeemed = @ + n,
                                        !.usdc_refunded = @ + payout]
    BY <1>3 DEF TypeOK
  <2>2. \A field \in BuyerFields :
           buyer'[h][field] = Grown(field, "shares_redeemed", n,
                                    "usdc_refunded", payout, buyer[h][field])
    BY <2>1 DEF TypeOK, Buyer, BuyerFields, Grown
  <2> TAKE field \in BuyerFields
  <2>3. Total(field)' = Total(field) - buyer[h][field] + buyer'[h][field]
    BY <2>1, TotalsMove
  <2>4. Total(field) \in Nat /\ buyer[h][field] \in Nat
    BY TotalNat DEF TypeOK, Buyer, BuyerFields
  <2> QED
    BY <1>1, <2>2, <2>3, <2>4 DEF Grown
<1>6. /\ vault'.phase = "Cancelled"
      /\ vault'.total_deposits = vault.total_deposits
      /\ vault'.total_shares = vault.total_shares
      /\ vault'.delivered_shares = vault.delivered_shares
      /\ vault'.total_redeemed_usdc = vault.total_redeemed_usdc
      /\ vault'.total_refunded_usdc = vault.total_refunded_usdc + payout
  BY <1>3 DEF TypeOK, Vault
<1>7. /\ vault.delivered_shares \in Nat /\ vault.total_shares \in Nat /\ supply \in Nat
      /\ Total("shares_redeemed") \in Nat /\ Total("shares_delivered") \in Nat
  BY TotalNat DEF TypeOK, Vault, BuyerFields
<1>8. /\ Total("deposit_amount")' = Total("deposit_amount")
      /\ Total("shares_minted")' = Total("shares_minted")
      /\ Total("shares_redeemed")' = Total("shares_redeemed") + n
      /\ Total("usdc_redeemed")' = Total("usdc_redeemed")
      /\ Total("usdc_refunded")' = Total("usdc_refunded") + payout
      /\ Total("shares_delivered")' = Total("shares_delivered")
  BY <1>5 DEF BuyerFields, Grown
<1>9. supply' = vault'.total_shares - Total("shares_redeemed")' - vault'.delivered_shares
  BY <1>1, <1>4, <1>6, <1>7, <1>8 DEF BooksMatchBuyers
<1>10. supply' = SumFunction(shares')
  BY <1>1, <1>4, <1>6, <1>7, <1>8 DEF BooksMatchBuyers
<1> QED
  BY <1>1, <1>4, <1>6, <1>7, <1>8, <1>9, <1>10 DEF BooksMatchBuyers, InPhase

\* A transfer moves tokens between two wallets and makes none.
LEMMA BooksTransfer ==
  ASSUME TypeOK, BooksMatchBuyers,
         NEW h \in Holders, NEW g \in Holders, NEW n \in ShareAmounts, TransferShares(h, g, n)
  PROVE  BooksMatchBuyers'
<1>1. /\ n \in Nat /\ n <= shares[h] /\ h # g /\ shares \in [Holders -> Nat]
      /\ shares' = [shares EXCEPT ![h] = @ - n, ![g] = @ + n]
      /\ UNCHANGED <<vault, buyer, supply>>
  BY VaultAssumption DEF TransferShares, TypeOK
<1> DEFINE rest == shares[h] - n
           mid  == [shares EXCEPT ![h] = rest]
           more == mid[g] + n
<1>2. shares[h] \in Nat /\ shares[g] \in Nat /\ rest \in Nat
  BY <1>1
<1>3. mid \in [Holders -> Nat] /\ mid[g] = shares[g] /\ more \in Nat
  BY <1>1, <1>2
<1>4. shares' = [mid EXCEPT ![g] = more]
  BY <1>1
<1>5. SumFunction(mid) = SumFunction(shares) - shares[h] + rest
  <2>1. mid[h] = rest /\ \A i \in Holders : i # h => mid[i] = shares[i]
    BY <1>1
  <2> HIDE DEF mid, rest
  <2> QED
    BY <1>1, <1>3, <2>1, TermChange
<1>6. SumFunction(shares') = SumFunction(mid) - mid[g] + more
  <2> HIDE DEF mid, more, rest
  <2>1. /\ shares' \in [Holders -> Nat] /\ shares'[g] = more
        /\ \A i \in Holders : i # g => shares'[i] = mid[i]
    BY <1>3, <1>4
  <2> QED
    BY <1>3, <2>1, TermChange
<1>7. SumFunction(shares) \in Nat /\ SumFunction(mid) \in Nat
  <2> HIDE DEF mid
  <2> QED
    BY <1>1, <1>3, VaultAssumption, SumCovers
<1>8. SumFunction(shares') = SumFunction(shares)
  <2>1. rest = shares[h] - n /\ more = mid[g] + n /\ mid[g] \in Nat
    BY <1>2, <1>3
  <2> HIDE DEF mid, more, rest
  <2> QED
    BY <1>1, <1>2, <1>5, <1>6, <1>7, <2>1
<1>9. \A field \in BuyerFields : Total(field)' = Total(field)
  BY <1>1 DEF Total
<1> QED
  BY <1>1, <1>8, <1>9 DEF BooksMatchBuyers, InPhase, BuyerFields

\* A step is a holder's, or leaves the books alone.
LEMMA HolderOrStanding ==
  ASSUME TypeOK, [Next]_vars
  PROVE  \/ Standing
         \/ \E h \in Holders :
               \/ \E amount \in UsdcAmounts : deposit(h, amount)
               \/ \E n \in ShareAmounts :
                     \/ elect_delivery(h, n) \/ claim(h, n) \/ refund(h, n)
                     \/ \E g \in Holders : TransferShares(h, g, n)
BY StandingStep DEF Next, HolderStep

LEMMA BooksNext ==
  ASSUME TypeOK, TypeOK', BooksMatchBuyers, [Next]_vars
  PROVE  BooksMatchBuyers'
BY HolderOrStanding, BooksStanding, BooksDeposit, BooksElect, BooksClaim, BooksRefund,
   BooksTransfer

\* The vault's totals are the sums over its depositors' records, and the claim
\* tokens in existence are those in wallets (state.rs, BuyerState).
THEOREM BooksMatched == Spec => []BooksMatchBuyers
<1>1. Init => TypeOK /\ BooksMatchBuyers
  BY TypeInit, BooksInit
<1>2. TypeOK /\ BooksMatchBuyers /\ [Next]_vars => (TypeOK /\ BooksMatchBuyers)'
  BY TypeNext, BooksNext
<1> QED
  BY <1>1, <1>2, PTL DEF Spec

-----------------------------------------------------------------------------
(* Deliveries.  Each election is rounded down, so what is owed over the    *)
(* tokens given up never exceeds the allocation over all tokens; and until *)
(* the broker's allocation is known nothing is owed, so that the allocation *)
(* is the same one for every election.                                     *)

Owed == Total("underlying_delivered")

Elections ==
    /\ ~InPhase(Delivering) => Owed = 0 /\ vault.delivered_shares = 0
    /\ vault.total_shares = 0 => Owed = 0
    /\ Owed * vault.total_shares <= vault.shares_allocated * vault.delivered_shares

LEMMA OwedNat == TypeOK => Owed \in Nat
BY TotalNat DEF Owed, BuyerFields

LEMMA ElectionsInit == Init => Elections
<1> SUFFICES ASSUME Init PROVE Elections
  OBVIOUS
<1>1. \A h \in Holders : buyer[h].underlying_delivered = 0
  BY DEF Init, NoBuyer
<1>2. [h \in Holders |-> buyer[h]["underlying_delivered"]] = [h \in Holders |-> 0]
  BY <1>1
<1>3. Owed = 0
  BY <1>2, VaultAssumption, SumZeros DEF Owed, Total
<1>4. vault.total_shares = 0 /\ vault.delivered_shares = 0 /\ vault.shares_allocated = 0
  BY DEF Init
<1> QED
  BY <1>3, <1>4 DEF Elections

\* Nothing is owed yet, whatever the number of tokens.
LEMMA NothingOwed ==
  ASSUME NEW v \in Vault, NEW owed, owed = 0, v.delivered_shares = 0
  PROVE  owed * v.total_shares <= v.shares_allocated * v.delivered_shares
BY DEF Vault

LEMMA ElectionsStanding ==
  ASSUME TypeOK, TypeOK', Elections, Standing
  PROVE  Elections'
<1>1. Owed' = Owed
  BY DEF Standing, Owed, Total
<1>2. CASE vault.phase \in Delivering
  <2>1. vault'.phase \in Delivering /\ vault'.shares_allocated = vault.shares_allocated
    BY <1>2 DEF Standing, Delivering
  <2> QED
    BY <1>1, <2>1 DEF Elections, Standing, InPhase
<1>3. CASE vault.phase \notin Delivering
  <2>1. Owed' = 0 /\ vault'.delivered_shares = 0
    BY <1>1, <1>3 DEF Elections, Standing, InPhase
  <2>2. Owed' * vault'.total_shares <= vault'.shares_allocated * vault'.delivered_shares
    BY <2>1, NothingOwed DEF TypeOK
  <2> QED
    BY <2>1, <2>2 DEF Elections
<1> QED
  BY <1>2, <1>3

LEMMA ElectionsDeposit ==
  ASSUME TypeOK, TypeOK', Elections,
         NEW h \in Holders, NEW amount \in UsdcAmounts, deposit(h, amount)
  PROVE  Elections'
<1>1. /\ vault.phase = "Funding" /\ vault'.delivered_shares = vault.delivered_shares
      /\ \A g \in Holders : buyer'[g].underlying_delivered = buyer[g].underlying_delivered
  BY DEF deposit, InPhase, TypeOK, Vault, Buyer
<1>2. Owed' = Owed
  BY <1>1 DEF Owed, Total
<1>3. Owed' = 0 /\ vault'.delivered_shares = 0
  BY <1>1, <1>2 DEF Elections, InPhase, Delivering
<1>4. Owed' * vault'.total_shares <= vault'.shares_allocated * vault'.delivered_shares
  BY <1>3, NothingOwed DEF TypeOK
<1> QED
  BY <1>3, <1>4 DEF Elections

LEMMA ElectionsElect ==
  ASSUME TypeOK, TypeOK', Elections,
         NEW h \in Holders, NEW n \in ShareAmounts, elect_delivery(h, n)
  PROVE  Elections'
<1>1. n \in Nat /\ underlying_for(vault, n) \in Nat
  BY VaultAssumption, DerivedNat DEF TypeOK
<1>2. PICK u \in Nat : u = underlying_for(vault, n)
  BY <1>1
<1>3. /\ vault.phase = "Live" /\ u > 0
      /\ vault' = [vault EXCEPT !.delivered_shares = @ + n]
      /\ buyer' = [buyer EXCEPT ![h].shares_delivered = @ + n,
                                ![h].underlying_delivered = @ + u]
  BY <1>2 DEF elect_delivery, InPhase
<1>4. /\ vault'.phase = "Live" /\ vault'.total_shares = vault.total_shares
      /\ vault'.shares_allocated = vault.shares_allocated
      /\ vault'.delivered_shares = vault.delivered_shares + n
  BY <1>3 DEF TypeOK, Vault
<1>5. Owed' = Owed + u
  <2>1. /\ \A g \in Holders : g # h => buyer'[g] = buyer[g]
        /\ buyer'[h] = [buyer[h] EXCEPT !.shares_delivered = @ + n,
                                        !.underlying_delivered = @ + u]
    BY <1>3 DEF TypeOK
  <2>2. buyer'[h].underlying_delivered = buyer[h].underlying_delivered + u
    BY <2>1 DEF TypeOK, Buyer
  <2>3. buyer[h].underlying_delivered \in Nat
    BY DEF TypeOK, Buyer
  <2>4. Owed' = Owed - buyer[h]["underlying_delivered"] + buyer'[h]["underlying_delivered"]
    BY <2>1, TotalsMove DEF Owed, BuyerFields
  <2> QED
    BY <2>2, <2>3, <2>4, OwedNat
<1>6. /\ vault.total_shares \in Nat /\ vault.shares_allocated \in Nat
      /\ vault.delivered_shares \in Nat /\ Owed \in Nat
  BY OwedNat DEF TypeOK, Vault
<1> DEFINE total == vault.total_shares
           pool  == vault.shares_allocated
           given == vault.delivered_shares
<1>7. total > 0 /\ u * total <= pool * n
  <2>1. total > 0 /\ u = (pool * n) \div total
    BY <1>2, <1>3, <1>6 DEF underlying_for, ProRata
  <2>2. pool * n \in Nat
    BY <1>1, <1>6
  <2>3. total * u <= pool * n
    <3> HIDE DEF total, pool
    <3> QED
      BY <1>6, <2>1, <2>2, DivBound DEF total
  <2>4. u * total = total * u
    BY <1>6, MulInt
  <2> QED
    BY <2>1, <2>3, <2>4
<1>8. (Owed + u) * total <= pool * (given + n)
  <2>1. (Owed + u) * total = Owed * total + u * total
    BY <1>6
  <2>2. pool * (given + n) = pool * given + pool * n
    BY <1>1, <1>6
  <2>3. Owed * total <= pool * given
    BY DEF Elections
  <2>4. /\ Owed * total \in Int /\ u * total \in Int
        /\ pool * given \in Int /\ pool * n \in Int
    BY <1>1, <1>6, MulInt
  <2> QED
    BY <1>7, <2>1, <2>2, <2>3, <2>4
<1> QED
  BY <1>4, <1>5, <1>7, <1>8 DEF Elections, InPhase, Delivering

\* Claims, refunds and transfers concern no delivery.
LEMMA ElectionsOther ==
  ASSUME TypeOK, Elections, NEW h \in Holders, NEW n \in ShareAmounts,
         claim(h, n) \/ refund(h, n) \/ \E g \in Holders : TransferShares(h, g, n)
  PROVE  Elections'
<1>1. \A g \in Holders : buyer'[g].underlying_delivered = buyer[g].underlying_delivered
  BY DEF claim, refund, TransferShares, TypeOK, Buyer
<1>2. /\ vault'.phase = vault.phase /\ vault'.total_shares = vault.total_shares
      /\ vault'.shares_allocated = vault.shares_allocated
      /\ vault'.delivered_shares = vault.delivered_shares
  BY DEF claim, refund, TransferShares, TypeOK, Vault
<1>3. Owed' = Owed
  BY <1>1 DEF Owed, Total
<1> QED
  BY <1>2, <1>3 DEF Elections, InPhase

LEMMA ElectionsNext ==
  ASSUME TypeOK, TypeOK', Elections, [Next]_vars
  PROVE  Elections'
BY HolderOrStanding, ElectionsStanding, ElectionsDeposit, ElectionsElect, ElectionsOther

LEMMA CoveredDelivery ==
  ASSUME TypeOK, BooksMatchBuyers, Elections
  PROVE  DeliveriesCovered
<1>1. /\ vault.total_shares \in Nat /\ vault.shares_allocated \in Nat
      /\ vault.delivered_shares \in Nat /\ supply \in Nat
      /\ Owed \in Nat /\ Total("shares_redeemed") \in Nat
  BY OwedNat, TotalNat DEF TypeOK, Vault, BuyerFields
<1>2. vault.delivered_shares <= vault.total_shares
  BY <1>1 DEF BooksMatchBuyers
<1>3. CASE vault.total_shares = 0
  BY <1>1, <1>3 DEF Elections, DeliveriesCovered, Owed
<1>4. CASE vault.total_shares > 0
  <2>1. vault.shares_allocated * vault.delivered_shares
          <= vault.shares_allocated * vault.total_shares
    BY <1>1, <1>2, MulMono, MulInt
  <2>2. Owed * vault.total_shares <= vault.shares_allocated * vault.delivered_shares
    BY DEF Elections
  <2>3. Owed * vault.total_shares <= vault.shares_allocated * vault.total_shares
    <3>1. /\ Owed * vault.total_shares \in Int
          /\ vault.shares_allocated * vault.delivered_shares \in Int
          /\ vault.shares_allocated * vault.total_shares \in Int
      BY <1>1, MulInt
    <3> QED
      BY <2>1, <2>2, <3>1
  <2>4. Owed <= vault.shares_allocated
    BY <1>1, <1>4, <2>3, MulCancel
  <2> QED
    BY <2>4 DEF DeliveriesCovered, Owed
<1> QED
  BY <1>1, <1>3, <1>4

\* However elections for delivery are cut up and rounded, the broker owes no
\* more real shares than it acquired (elect_delivery.rs, underlying_for).
THEOREM DeliveriesBacked == Spec => []DeliveriesCovered
<1>1. Init => TypeOK /\ BooksMatchBuyers /\ Elections
  BY TypeInit, BooksInit, ElectionsInit
<1>2. TypeOK /\ BooksMatchBuyers /\ Elections /\ [Next]_vars
        => (TypeOK /\ BooksMatchBuyers /\ Elections)'
  BY TypeNext, BooksNext, ElectionsNext
<1>3. TypeOK /\ BooksMatchBuyers /\ Elections => DeliveriesCovered
  BY CoveredDelivery
<1> QED
  BY <1>1, <1>2, <1>3, PTL DEF Spec

-----------------------------------------------------------------------------
(* Limits of the funding round.                                            *)

\* A vault that has yet to open is as far from its cap as one that is open.
Limits ==
    /\ LimitsKept
    /\ InPhase({"Scheduled", "Funding"}) => vault.total_deposits < DepositCap

\* What a deposit may take: the room under the cap, and under the address limit.
LEMMA AcceptedFits ==
  ASSUME TypeOK, NEW h \in Holders, NEW amount \in Nat,
         vault.total_deposits <= DepositCap,
         MaxDeposit > 0 => buyer[h].deposit_amount <= MaxDeposit
  PROVE  /\ vault.total_deposits + Accepted(h, amount) <= DepositCap
         /\ MaxDeposit > 0 => buyer[h].deposit_amount + Accepted(h, amount) <= MaxDeposit
<1>1. /\ buyer[h].deposit_amount \in Nat /\ vault.total_deposits \in Nat
      /\ DepositCap \in Nat /\ MaxDeposit \in Nat
  BY VaultAssumption DEF TypeOK, Buyer, Vault
<1> QED
  BY <1>1 DEF Accepted, Lesser, SatSub

LEMMA LimitsInit == Init => Limits
BY VaultAssumption DEF Init, Limits, LimitsKept, InPhase, IsBuyer, NoBuyer

LEMMA LimitsStanding ==
  ASSUME Limits, Standing
  PROVE  Limits'
BY DEF Limits, LimitsKept, Standing, InPhase, IsBuyer

LEMMA LimitsDeposit ==
  ASSUME TypeOK, Limits, NEW h \in Holders, NEW amount \in UsdcAmounts, deposit(h, amount)
  PROVE  Limits'
<1>1. PICK accepted \in Nat : accepted = Accepted(h, amount)
  BY AcceptedNat, VaultAssumption
<1>2. PICK fee \in Nat : fee = EntryFee(accepted) /\ accepted - fee \in Nat
  BY <1>1, FeeBounded DEF EntryFee
<1>3. /\ vault.phase = "Funding" /\ accepted >= MinDeposit
      /\ vault' = [vault EXCEPT
                      !.total_deposits = @ + accepted,
                      !.total_shares   = @ + (accepted - fee),
                      !.fees_escrowed  = @ + fee,
                      !.phase = PhaseAt(vault.total_deposits + accepted)]
      /\ buyer' = [buyer EXCEPT ![h].deposit_amount = @ + accepted,
                                ![h].shares_minted  = @ + (accepted - fee)]
  BY <1>1, <1>2 DEF deposit, InPhase
<1>4. /\ vault'.phase = PhaseAt(vault.total_deposits + accepted)
      /\ vault'.total_deposits = vault.total_deposits + accepted
      /\ vault.total_deposits \in Nat
      /\ DepositCap \in Nat /\ MinDeposit \in Nat /\ MaxDeposit \in Nat
  BY <1>3, VaultAssumption DEF TypeOK, Vault
<1>5. /\ \A g \in Holders : g # h => buyer'[g] = buyer[g]
      /\ buyer'[h].deposit_amount = buyer[h].deposit_amount + accepted
      /\ buyer[h].deposit_amount \in Nat
  BY <1>3 DEF TypeOK, Buyer
<1>6. /\ vault'.total_deposits <= DepositCap
      /\ MaxDeposit > 0 => buyer'[h].deposit_amount <= MaxDeposit
  BY <1>1, <1>4, <1>5, AcceptedFits, VaultAssumption DEF Limits, LimitsKept
<1>7. vault'.phase \in {"Scheduled", "Funding"} => vault'.total_deposits < DepositCap
  BY <1>1, <1>3, <1>4 DEF PhaseAt
<1>8. buyer'[h].deposit_amount >= MinDeposit
  BY <1>1, <1>3, <1>4, <1>5
<1> QED
  BY <1>5, <1>6, <1>7, <1>8 DEF Limits, LimitsKept, InPhase, IsBuyer

LEMMA LimitsOther ==
  ASSUME TypeOK, Limits, NEW h \in Holders, NEW n \in ShareAmounts,
         \/ elect_delivery(h, n) \/ claim(h, n) \/ refund(h, n)
         \/ \E g \in Holders : TransferShares(h, g, n)
  PROVE  Limits'
<1>1. \A g \in Holders : /\ buyer'[g].deposit_amount = buyer[g].deposit_amount
                         /\ buyer'[g].shares_minted = buyer[g].shares_minted
  BY DEF elect_delivery, claim, refund, TransferShares, TypeOK, Buyer
<1>2. vault'.phase = vault.phase /\ vault'.total_deposits = vault.total_deposits
  BY DEF elect_delivery, claim, refund, TransferShares, TypeOK, Vault
<1> QED
  BY <1>1, <1>2 DEF Limits, LimitsKept, InPhase, IsBuyer

\* The cap and the address limits hold against deposits in any number of parts,
\* and a vault that is full is never still open (deposit.rs, auto-seal).
THEOREM LimitsHold == Spec => []LimitsKept
<1>1. Init => TypeOK /\ Limits
  BY TypeInit, LimitsInit
<1>2. TypeOK /\ Limits /\ [Next]_vars => (TypeOK /\ Limits)'
  BY TypeNext, HolderOrStanding, LimitsStanding, LimitsDeposit, LimitsOther
<1>3. Limits => LimitsKept
  BY DEF Limits
<1> QED
  BY <1>1, <1>2, <1>3, PTL DEF Spec

-----------------------------------------------------------------------------
(* The lock of the claim tokens.                                           *)

Relocked ==
    \A h \in Holders :
       vault.transfer_lock /\ supply' # supply /\ shares'[h] # shares[h]
          => account_frozen'[h] = (shares'[h] > 0)

LEMMA BurnedRelocks ==
  ASSUME TypeOK, NEW h \in Holders, NEW n \in Nat, Burned(h, n)
  PROVE  Relocked
<1>1. /\ shares'[h] = shares[h] - n /\ shares[h] \in Nat
      /\ account_frozen'[h] = (vault.transfer_lock /\ shares[h] > n)
      /\ \A g \in Holders : g # h => shares'[g] = shares[g]
  BY DEF Burned, TypeOK
<1>2. vault.transfer_lock => account_frozen'[h] = (shares'[h] > 0)
  BY <1>1
<1> QED
  BY <1>1, <1>2, Zenon DEF Relocked

LEMMA DepositRelocks ==
  ASSUME TypeOK, NEW h \in Holders, NEW amount \in UsdcAmounts, deposit(h, amount)
  PROVE  Relocked
<1>1. PICK accepted \in Nat : accepted = Accepted(h, amount)
  BY AcceptedNat, VaultAssumption
<1>2. PICK fee \in Nat : fee = EntryFee(accepted) /\ accepted - fee \in Nat
  BY <1>1, FeeBounded DEF EntryFee
<1>3. /\ accepted - fee > 0
      /\ shares' = [shares EXCEPT ![h] = @ + (accepted - fee)]
      /\ account_frozen' = [account_frozen EXCEPT ![h] = vault.transfer_lock]
  BY <1>1, <1>2 DEF deposit
<1>4. /\ shares'[h] = shares[h] + (accepted - fee) /\ shares[h] \in Nat
      /\ account_frozen'[h] = vault.transfer_lock
      /\ \A g \in Holders : g # h => shares'[g] = shares[g]
  BY <1>3 DEF TypeOK
<1>5. shares'[h] > 0
  BY <1>2, <1>3, <1>4
<1> QED
  BY <1>4, <1>5, Zenon DEF Relocked

\* While the lock is on, an account that claim tokens are minted to or burned
\* from comes out frozen if it holds any, and only then (lock.rs).
THEOREM SharesRelocked == Spec => SharesRelock
<1>1. ASSUME TypeOK, [Next]_vars PROVE Relocked
  <2>1. CASE UNCHANGED supply
    BY <2>1, Zenon DEF Relocked
  <2>2. ASSUME NEW h \in Holders, NEW n \in ShareAmounts,
               elect_delivery(h, n) \/ claim(h, n) \/ refund(h, n)
        PROVE  Relocked
    <3>1. n \in Nat
      BY VaultAssumption
    <3>2. Burned(h, n)
      BY <2>2, Zenon DEF elect_delivery, claim, refund
    <3> QED
      BY <1>1, <3>1, <3>2, BurnedRelocks
  <2>3. ASSUME NEW h \in Holders, NEW g \in Holders, NEW n \in ShareAmounts,
               TransferShares(h, g, n)
        PROVE  UNCHANGED supply
    BY <2>3 DEF TransferShares
  <2> QED
    BY <1>1, <2>1, <2>2, <2>3, HolderOrStanding, DepositRelocks DEF Standing
<1>2. TypeOK /\ [Next]_vars => [Relocked]_vars
  BY <1>1
<1>3. [][Relocked]_vars => SharesRelock
  BY DEF Relocked, SharesRelock
<1> QED
  BY <1>2, <1>3, TypeCorrect, PTL DEF Spec

=============================================================================
