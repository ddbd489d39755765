----------------------------- MODULE PooledFund -----------------------------
(***************************************************************************)
(* What a pooled fund promises, whoever runs it: money is raised against   *)
(* tokens, invested or returned, and what comes back is paid out over the  *)
(* tokens that are left.  The fund's own fees are earned only by investing *)
(* or paying out, and a payment never makes those who wait worse off.      *)
(***************************************************************************)
EXTENDS Integers

VARIABLES
    stage,      \* raising, invested, paying, closed or refunding
    pot,        \* money held for the tokens
    tokens,     \* tokens in existence
    earned      \* fees earned and not yet withdrawn

Init == stage = "raising" /\ pot = 0 /\ tokens = 0 /\ earned = 0

\* Every token is paid for.
Subscribe ==
    /\ stage = "raising"
    /\ tokens' > tokens /\ pot' - pot >= tokens' - tokens
    /\ UNCHANGED <<stage, earned>>

\* Disclosed costs may come off the money to be returned; no fee does.
Abort ==
    /\ stage = "raising" /\ stage' = "refunding"
    /\ pot' <= pot
    /\ UNCHANGED <<tokens, earned>>

\* Money leaves for the investment; the first time the fee is earned.
Invest ==
    /\ stage \in {"raising", "invested"} /\ stage' = "invested"
    /\ pot' >= 0 /\ pot' + earned' < pot + earned
    /\ IF stage = "raising" THEN earned' >= earned ELSE earned' = earned
    /\ UNCHANGED tokens

\* Tokens are given up for the asset itself: those who stay share the money.
Deliver ==
    /\ stage = "invested"
    /\ tokens' < tokens
    /\ UNCHANGED <<stage, pot, earned>>

Realise ==
    /\ stage = "invested" /\ stage' = "paying"
    /\ tokens > 0 /\ pot' > 0
    /\ UNCHANGED <<tokens, earned>>

\* Money is paid for tokens, and the money per token left does not fall.
Pay ==
    /\ stage \in {"paying", "refunding"}
    /\ tokens' \in 0 .. tokens - 1 /\ pot' \in 0 .. pot - 1
    /\ pot' * tokens >= pot * tokens'
    /\ earned' >= earned /\ pot' + earned' < pot + earned
    /\ stage = "refunding" => earned' = earned
    /\ UNCHANGED stage

Close ==
    /\ stage = "paying" /\ stage' = "closed"
    /\ UNCHANGED <<pot, tokens, earned>>

Withdraw ==
    /\ stage \in {"paying", "closed"}
    /\ earned' \in 0 .. earned - 1
    /\ UNCHANGED <<stage, pot, tokens>>

Next == Subscribe \/ Abort \/ Invest \/ Deliver \/ Realise \/ Pay \/ Close \/ Withdraw

Spec == Init /\ [][Next]_<<stage, pot, tokens, earned>>

=============================================================================
