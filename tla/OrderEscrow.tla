---------------------------- MODULE OrderEscrow ----------------------------
(***************************************************************************)
(* What the spot market promises about other people's money: it is an      *)
(* escrow agent.  The money held for an order is set aside when the order  *)
(* opens and stays whole until that order's own deployment or return; all  *)
(* other payments come out of the free part of the pool, which never drops *)
(* below the spread the agent has earned and not yet taken.                *)
(***************************************************************************)
EXTENDS Integers

CONSTANT OrderIds

VARIABLES
    stage,   \* where each order stands
    held,    \* the owner's money set aside for each order
    free,    \* the rest of the pool
    spread   \* the part of it that is earned spread

vars == <<stage, held, free, spread>>

Init ==
    /\ stage = [o \in OrderIds |-> "None"]
    /\ held = [o \in OrderIds |-> 0]
    /\ free = 0
    /\ spread = 0

\* Order o, and no other, moves from one stage to the next.
Moves(o, from, to) ==
    /\ stage[o] = from
    /\ stage' = [stage EXCEPT ![o] = to]

Covered == 0 <= spread' /\ spread' <= free'

\* A buy sets money aside, a sell sets none.
Open(o) ==
    /\ Moves(o, "None", "Pending")
    /\ held'[o] >= 0
    /\ held' = [held EXCEPT ![o] = held'[o]]
    /\ UNCHANGED <<free, spread>>

\* The money leaves for the deal, less the spread, which becomes the agent's.
Deploy(o) ==
    /\ Moves(o, "Pending", "Deployed")
    /\ held' = [held EXCEPT ![o] = 0]
    /\ spread <= spread' /\ spread' - spread < held[o]
    /\ free' - free = spread' - spread

Fill(o) ==
    /\ Moves(o, "Deployed", "Filled")
    /\ UNCHANGED <<held, free, spread>>

\* Whatever was held goes back, and nobody else's money moves.
GiveBack(o) ==
    /\ Moves(o, "Pending", "Cancelled")
    /\ held' = [held EXCEPT ![o] = 0]
    /\ UNCHANGED <<free, spread>>

\* A deployed buy that failed is made good from the free money, and the agent
\* hands back spread.
Reimburse(o) ==
    /\ Moves(o, "Deployed", "Cancelled")
    /\ UNCHANGED held
    /\ free' < free /\ spread' <= spread
    /\ Covered

\* A sell is paid from the free money; the agent earns its spread.
Pay(o) ==
    /\ Moves(o, "Pending", "Settled")
    /\ held[o] = 0
    /\ UNCHANGED held
    /\ free' < free /\ spread' >= spread
    /\ Covered

Sweep ==
    /\ spread' < spread /\ spread' >= 0
    /\ free' - free = spread' - spread
    /\ UNCHANGED <<stage, held>>

Receive ==
    /\ free' > free
    /\ UNCHANGED <<stage, held, spread>>

Next ==
    \/ \E o \in OrderIds :
          Open(o) \/ Deploy(o) \/ Fill(o) \/ GiveBack(o) \/ Reimburse(o) \/ Pay(o)
    \/ Sweep
    \/ Receive

Spec == Init /\ [][Next]_vars

=============================================================================
