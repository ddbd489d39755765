------------------------------ MODULE Postings ------------------------------
(***************************************************************************)
(* The ledger of the orchestrator: its accounts and the templates of the   *)
(* entries the sagas and the vault driver post.  An entry gives each       *)
(* account it touches a signed amount, debits positive, so that a balance  *)
(* is the sum of what was posted to it.                                    *)
(*                                                                         *)
(* Abstracted: spread, commission, levies and provider fees are zero, so   *)
(* their income and expense accounts are left out with FX_CLEARING, which  *)
(* nothing reads, and with the other half of the legs that go there.       *)
(* An amount counts what a share costs at the limit, in either currency.   *)
(***************************************************************************)
EXTENDS Integers

CashAccounts ==
    {"CHAIN_ESCROW", "CUSTOMER_ESCROW", "MSB_TRANSIT_USDC", "MSB_TRANSIT_HKD",
     "MSB_SETTLED_HKD", "BROKER_BUFFER", "BROKER_SETTLEMENT", "BROKER_PROCEEDS",
     "TREASURY_USDC", "CUSTOMER_PROCEEDS", "VAULT_SUBSCRIPTION", "VAULT_REDEEMABLE"}

PositionAccounts ==
    {"CUSTODY_INBOUND", "CUSTODY_HOLDINGS", "CUSTODY_OUTBOUND",
     "PENDING_ISSUANCE", "CUSTOMER_POSITIONS"}

Accounts == CashAccounts \cup PositionAccounts

\* The balances after an entry.
Posted(ledger, entry) ==
    [a \in DOMAIN ledger |->
        ledger[a] + (IF a \in DOMAIN entry THEN entry[a] ELSE 0)]

-----------------------------------------------------------------------------
(* A purchase.                                                             *)

buyEscrowed(escrowed) ==
    [CHAIN_ESCROW |-> escrowed, CUSTOMER_ESCROW |-> -escrowed]

buyDeployed(escrowed) ==
    [CHAIN_ESCROW |-> -escrowed, MSB_TRANSIT_USDC |-> escrowed]

buyFilled(filled) ==
    [BROKER_BUFFER |-> -filled, BROKER_SETTLEMENT |-> filled,
     CUSTODY_INBOUND |-> filled, PENDING_ISSUANCE |-> -filled]

custodySettled(settled) ==
    [CUSTODY_INBOUND |-> -settled, CUSTODY_HOLDINGS |-> settled]

buyMinted(discharged, minted) ==
    [BROKER_SETTLEMENT |-> -minted, CUSTOMER_ESCROW |-> discharged,
     PENDING_ISSUANCE |-> minted, CUSTOMER_POSITIONS |-> -minted]

(* A sale.                                                                 *)

sellFilled(sold) ==
    [BROKER_PROCEEDS |-> sold, CUSTOMER_PROCEEDS |-> -sold,
     CUSTODY_HOLDINGS |-> -sold, CUSTODY_OUTBOUND |-> sold]

sellSettled(paid, burned) ==
    [TREASURY_USDC |-> -paid, CUSTOMER_PROCEEDS |-> paid,
     CUSTOMER_POSITIONS |-> burned, CUSTODY_OUTBOUND |-> -burned]

(* A vault; its shares are not the desk's and are left out.               *)

vaultDeposit(gross) ==
    [CHAIN_ESCROW |-> gross, VAULT_SUBSCRIPTION |-> -gross]

vaultDeployed(deployed) ==
    [CHAIN_ESCROW |-> -deployed, MSB_TRANSIT_USDC |-> deployed]

vaultAllocated(consideration, refund) ==
    [BROKER_SETTLEMENT |-> -(consideration + refund), BROKER_BUFFER |-> refund]

vaultSettled(redeemable, discharged) ==
    [TREASURY_USDC |-> -redeemable, CHAIN_ESCROW |-> redeemable,
     VAULT_SUBSCRIPTION |-> discharged, VAULT_REDEEMABLE |-> -discharged]

vaultClaimed(paid) ==
    [CHAIN_ESCROW |-> -paid, VAULT_REDEEMABLE |-> paid]

(* The movements of money between them.                                    *)

\* conversionSettled to MSB_SETTLED, of dollars, and to TREASURY_USDC.
convertedToHKD(amount) ==
    [MSB_TRANSIT_USDC |-> -amount, MSB_SETTLED_HKD |-> amount]
convertedToUSDC(amount) ==
    [MSB_TRANSIT_HKD |-> -amount, TREASURY_USDC |-> amount]

sentToMsb(amount) ==
    [BROKER_PROCEEDS |-> -amount, MSB_TRANSIT_HKD |-> amount]

brokerFunded(amount) ==
    [MSB_SETTLED_HKD |-> -amount, BROKER_BUFFER |-> amount]

=============================================================================
