---------------------------- MODULE IntentRecord ----------------------------
(***************************************************************************)
(* What the stored record of an intent promises to everybody who reads it: *)
(* it moves as if a single worker drove the saga, one step after the other *)
(* and none twice, whoever really drives it, how many of them there are    *)
(* and wherever they stop.                                                 *)
(***************************************************************************)
EXTENDS Integers

CONSTANT NumSteps

VARIABLES
    state,   \* the state of the intent
    stage,   \* the last step known to be done, 0 for none
    saga     \* the steps of the saga as it is deployed

vars == <<state, stage, saga>>

Working  == {"RUNNING", "WAITING"}
Owed     == {s \in saga : s > stage}

Init ==
    /\ state = "PENDING"
    /\ stage = 0
    /\ saga = 1 .. NumSteps

Start ==
    /\ state = "PENDING" /\ state' = "RUNNING"
    /\ UNCHANGED <<stage, saga>>

\* The next step owed is done, and no other is passed over.
Advance ==
    /\ state \in Working /\ state' = "RUNNING"
    /\ stage' \in Owed
    /\ \A s \in Owed : stage' <= s
    /\ UNCHANGED saga

Wait ==
    /\ state \in Working /\ state' = "WAITING"
    /\ UNCHANGED <<stage, saga>>

\* Nothing is owed any more of a saga that knows where the intent stands.
Complete ==
    /\ state = "RUNNING" /\ state' = "COMPLETED"
    /\ Owed = {}
    /\ stage \in saga \cup {0}
    /\ UNCHANGED <<stage, saga>>

GiveUp ==
    /\ state \in Working /\ state' = "UNWINDING"
    /\ UNCHANGED <<stage, saga>>

Cancel ==
    /\ state = "UNWINDING" /\ state' = "CANCELLED"
    /\ UNCHANGED <<stage, saga>>

Park ==
    /\ state \in Working \cup {"PENDING", "UNWINDING"} /\ state' = "NEEDS_MANUAL"
    /\ UNCHANGED <<stage, saga>>

\* A person takes over.
Resume ==
    /\ state = "NEEDS_MANUAL" /\ state' = "RUNNING"
    /\ UNCHANGED <<stage, saga>>

ForceUnwind ==
    /\ state' = "UNWINDING"
    /\ UNCHANGED <<stage, saga>>

\* The saga is deployed anew, without a step.
Redeploy ==
    /\ saga' \subseteq saga
    /\ UNCHANGED <<state, stage>>

Next ==
    \/ Start \/ Advance \/ Wait \/ Complete \/ GiveUp \/ Cancel \/ Park
    \/ Resume \/ ForceUnwind \/ Redeploy

Spec == Init /\ [][Next]_vars

=============================================================================
