----------------------------- MODULE VaultDeals -----------------------------
(***************************************************************************)
(* The deals that the vault driver is given, shared by VaultDriver and by  *)
(* the composition that runs it beside the desk.                           *)
(***************************************************************************)
EXTENDS Naturals

CONSTANT Deals    \* the deals: what the vault raises, 0 if there is none, the
                  \* phases that are authorised, whether counterparties fail,
                  \* and bounds on ticks that overlap, on ticks that break off,
                  \* and on the polls that book the conversion while its payout
                  \* is pending

ASSUME DealsAssumption ==
    Deals \subseteq [raised : Nat, authorised : SUBSET STRING, faults : BOOLEAN,
                     overlaps : Nat, crashes : Nat, polls : Nat]
=============================================================================
