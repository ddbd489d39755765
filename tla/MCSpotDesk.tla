----------------------------- MODULE MCSpotDesk -----------------------------
(***************************************************************************)
(* Model checking of SpotDesk: purchases and sales, each alone with an     *)
(* interruption and an operator's call, a purchase beside a sale, and two  *)
(* purchases or sales that compete for a balance that is enough for one.   *)
(***************************************************************************)
EXTENDS SpotDesk, TLC

CONSTANTS b1, b2, b3, s1, s2

\* The escrow of b1 does not cover what it asks for.
MCShares == [o \in Orders |-> CASE o = b1                -> 3
                               [] o \in {s1, s2}        -> 2
                               [] OTHER                 -> 1]
MCEscrow == [b \in Buys |-> IF b = b1 THEN 2 ELSE 1]

Placed(orders, float, ceiling, faults, interrupts, operator) ==
    [placed |-> orders, float |-> float, ceiling |-> ceiling, faults |-> faults,
     interrupts |-> interrupts, operator |-> operator]

\* With a ceiling that lets an intent hold what it needs, and with one that
\* does not.
MCScenarios ==
    {Placed({b1}, 3, ceiling, TRUE, 1, 1) : ceiling \in {2, 3}} \cup
    {Placed({s1}, 2, ceiling, TRUE, 1, 1) : ceiling \in {1, 2}} \cup
    {Placed({b2, s1}, 2, 2, FALSE, 0, 0), Placed({b2, b3}, 2, 2, FALSE, 0, 0),
     Placed({s1}, 2, 2, FALSE, 0, 2)}

\* Two sales and a float that covers one of them.
MCRace == {Placed({s1, s2}, 2, 2, FALSE, 0, 0)}

Symmetry == Permutations({b2, b3})
=============================================================================
