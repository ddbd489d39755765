--------------------------- MODULE SpotDeskProofs ---------------------------
(***************************************************************************)
(* What holds of the spot desk for any orders, amounts and scenarios: what *)
(* a cancelled intent left behind, how holds end with their intents, the   *)
(* types of every variable, the shares behind the tokens, and the books.   *)
(***************************************************************************)
EXTENDS SpotDesk, SumTheorems, TLAPS

-----------------------------------------------------------------------------
(* The sagas.                                                              *)

\* The number of the step that places the order, of the one that books the
\* fill, and of the one that spends what was reserved.
placeAt(o) == IF o \in Buys THEN 6 ELSE 3
fillAt(o)  == IF o \in Buys THEN 7 ELSE 4
spendAt(o) == IF o \in Buys THEN 8 ELSE 7
Length(o)  == IF o \in Buys THEN 10 ELSE 8

LEMMA SagaLength ==
  ASSUME NEW o \in Orders
  PROVE  Len(Saga(o)) = Length(o)
BY DEF Saga, spotBuySaga, spotSellSaga, Length

\* Where each step is.
LEMMA StepAt ==
  ASSUME NEW o \in Orders, NEW c \in Nat, c < Length(o), intent[o].cursor = c
  PROVE  /\ o \in Buys =>
            \/ c = 0 /\ NextStep(o) = "screen"
            \/ c = 1 /\ NextStep(o) = "validate_order"
            \/ c = 2 /\ NextStep(o) = "reserve_funding"
            \/ c = 3 /\ NextStep(o) = "deploy_escrow"
            \/ c = 4 /\ NextStep(o) = "fund_execution"
            \/ c = 5 /\ NextStep(o) = "place_order"
            \/ c = 6 /\ NextStep(o) = "await_fill"
            \/ c = 7 /\ NextStep(o) = "settle_crossing"
            \/ c = 8 /\ NextStep(o) = "await_custody"
            \/ c = 9 /\ NextStep(o) = "attest_and_mint"
         /\ o \notin Buys =>
            \/ c = 0 /\ NextStep(o) = "screen"
            \/ c = 1 /\ NextStep(o) = "validate_order"
            \/ c = 2 /\ NextStep(o) = "place_order"
            \/ c = 3 /\ NextStep(o) = "await_fill"
            \/ c = 4 /\ NextStep(o) = "reserve_payout"
            \/ c = 5 /\ NextStep(o) = "await_custody_release"
            \/ c = 6 /\ NextStep(o) = "settle_onchain"
            \/ c = 7 /\ NextStep(o) = "repatriate"
<1>1. CASE o \in Buys
  <2>1. NextStep(o) = spotBuySaga[c + 1]
    BY <1>1 DEF NextStep, Saga
  <2>2. c \in 0 .. 9
    BY <1>1 DEF Length
  <2> QED
    BY <1>1, <2>1, <2>2 DEF spotBuySaga
<1>2. CASE o \notin Buys
  <2>1. NextStep(o) = spotSellSaga[c + 1]
    BY <1>2 DEF NextStep, Saga
  <2>2. c \in 0 .. 7
    BY <1>2 DEF Length
  <2> QED
    BY <1>2, <2>1, <2>2 DEF spotSellSaga
<1> QED
  BY <1>1, <1>2

-----------------------------------------------------------------------------
(* The invariant.                                                          *)

IntentType == [state : States, cursor : Nat, facts : SUBSET Facts]
WorkerType == [at : Places, found : SUBSET Facts]

Shape ==
    /\ order \in [Orders -> OrderStates]
    /\ broker \in [Orders -> BrokerOrder]
    /\ reservation \in [Orders -> Reservations]
    /\ intent \in [Orders -> IntentType]
    /\ worker \in [Orders -> WorkerType]
    /\ spent \in [interrupts : Nat, operator : Nat]

\* Step n of o has been taken, though it may not be saved.
Taken(o, n) ==
    \/ intent[o].cursor >= n
    \/ intent[o].cursor + 1 = n /\ worker[o].at = "save"

IsRunning(o) == intent[o].state = "RUNNING"

\* Where an intent and its worker are.
WellPlaced(o) ==
    /\ IsRunning(o) => intent[o].cursor < Length(o)
    /\ intent[o].state = "None" => intent[o].cursor = 0
    /\ worker[o].at # "cancel"
    /\ worker[o].at = "release" => intent[o].state = "UNWINDING"
    /\ worker[o].at = "save" => IsRunning(o)
    /\ worker[o].at = "consume" => IsRunning(o) /\ intent[o].cursor + 1 = spendAt(o)
    /\ worker[o].at \in {"lost", "rebook"} => spent.interrupts > 0

\* What the broker's order is by the time the saga is at a step.
Traded(o) ==
    /\ broker[o].status # "None" => intent[o].cursor + 1 >= placeAt(o)
    /\ broker[o].status \in {"None", "REJECTED"} => broker[o].filled = 0
    /\ Taken(o, fillAt(o)) => BrokerDone(o)

\* Why an intent whose order was filled may be cancelled.
Excused(o) ==
    /\ o \in Sells
    /\ order[o] = "CANCELLED" \/ NextStep(o) = "reserve_payout"

\* An intent that is given up has no order at work, and if the order was filled
\* it stops for a human at the hold that expired.
GivenUp(o) ==
    intent[o].state \in {"UNWINDING", "CANCELLED"} =>
        /\ broker[o].status \notin {"NEW", "PARTIALLY_FILLED"}
        /\ broker[o].filled > 0 =>
              \/ Excused(o)
              \/ /\ intent[o].state = "UNWINDING"
                 /\ Knows(o, "reservationId")
                 /\ reservation[o] \notin {"HELD", "RELEASED"}

\* A hold is known to its intent, which has still to spend it.
HoldKnown(o) ==
    /\ reservation[o] = "RELEASED" => intent[o].state = "CANCELLED"
    /\ reservation[o] = "HELD" /\ spent.interrupts = 0 =>
          /\ intent[o].state \in {"RUNNING", "UNWINDING", "NEEDS_MANUAL"}
          /\ \/ Knows(o, "reservationId")
             \/ worker[o].at = "save" /\ "reservationId" \in worker[o].found
          /\ ~Taken(o, spendAt(o))

Clean(o) == WellPlaced(o) /\ Traded(o) /\ GivenUp(o) /\ HoldKnown(o)

IInv == Shape /\ (spent.operator = 0 => \A o \in Orders : Clean(o))

-----------------------------------------------------------------------------
(* A step of one order leaves the others alone, and the bounds only grow.  *)

Only(o) ==
    \A p \in Orders \ {o} :
        /\ order'[p] = order[p]
        /\ broker'[p] = broker[p]
        /\ reservation'[p] = reservation[p]
        /\ intent'[p] = intent[p]
        /\ worker'[p] = worker[p]

Grows ==
    /\ spent'.interrupts = 0 => spent.interrupts = 0
    /\ spent'.operator = 0 => spent.operator = 0

\* Clean speaks of the order's own part of the state.
LEMMA CleanStays ==
  ASSUME NEW p \in Orders, Clean(p), Shape, Shape', Grows,
         order'[p] = order[p], broker'[p] = broker[p], reservation'[p] = reservation[p],
         intent'[p] = intent[p], worker'[p] = worker[p]
  PROVE  Clean(p)'
<1>1. spent.interrupts > 0 => spent'.interrupts > 0
  BY DEF Shape, Grows
<1>2. WellPlaced(p)'
  BY <1>1 DEF Clean, WellPlaced, IsRunning
<1>3. Traded(p)'
  BY DEF Clean, Traded, Taken, BrokerDone
<1>4. GivenUp(p)'
  BY DEF Clean, GivenUp, Excused, Knows, NextStep
<1>5. HoldKnown(p)'
  BY DEF Clean, HoldKnown, Knows, Taken, Grows
<1> QED
  BY <1>2, <1>3, <1>4, <1>5 DEF Clean

LEMMA StepOf ==
  ASSUME IInv, Shape', NEW o \in Orders, Only(o), Grows,
         spent'.operator = 0 => Clean(o)'
  PROVE  IInv'
<1> SUFFICES ASSUME spent'.operator = 0, NEW p \in Orders
             PROVE  Clean(p)'
  BY DEF IInv
<1>1. Clean(p) /\ Shape
  BY DEF IInv, Grows
<1>2. CASE p = o
  BY <1>2
<1>3. CASE p # o
  BY <1>1, <1>3, CleanStays DEF Only
<1> QED
  BY <1>2, <1>3

-----------------------------------------------------------------------------
(* How an intent and its worker go on.                                     *)

MovesTo(o, i, t) ==
    /\ intent' \in [Orders -> IntentType] /\ worker' \in [Orders -> WorkerType]
    /\ intent'[o] = i /\ worker'[o] = t
    /\ \A p \in Orders \ {o} : intent'[p] = intent[p] /\ worker'[p] = worker[p]

At(place, found) == [at |-> place, found |-> found]

LEMMA IdleTyped == Idle \in WorkerType /\ Idle.at = "start"
BY DEF Idle, WorkerType, Places

LEMMA GotoMoves ==
  ASSUME Shape, NEW o \in Orders, NEW place \in Places, Goto(o, place)
  PROVE  MovesTo(o, intent[o], At(place, worker[o].found))
<1>1. worker[o] \in WorkerType
  BY DEF Shape
<1> DEFINE t == [worker[o] EXCEPT !.at = place]
<1>2. t = At(place, worker[o].found) /\ t \in WorkerType
  BY <1>1 DEF At, WorkerType
<1>3. worker' = [worker EXCEPT ![o] = t]
  BY DEF Goto
<1> HIDE DEF t
<1> QED
  BY <1>2, <1>3 DEF Goto, MovesTo, Shape

LEMMA AdvanceMoves ==
  ASSUME Shape, NEW o \in Orders, NEW found \in SUBSET Facts, ADVANCE(o, found)
  PROVE  MovesTo(o, intent[o], At("save", found))
<1>1. At("save", found) \in WorkerType
  BY DEF At, WorkerType, Places
<1>2. worker' = [worker EXCEPT ![o] = At("save", found)]
  BY DEF ADVANCE, At
<1> QED
  BY <1>1, <1>2 DEF ADVANCE, MovesTo, Shape

LEMMA StopMoves ==
  ASSUME Shape, NEW o \in Orders, NEW state \in States, Stop(o, state)
  PROVE  /\ MovesTo(o, [intent[o] EXCEPT !.state = state], Idle)
         /\ intent'[o].state = state
         /\ intent'[o].cursor = intent[o].cursor
         /\ intent'[o].facts = intent[o].facts
<1>1. intent[o] \in IntentType
  BY DEF Shape
<1> DEFINE i == [intent[o] EXCEPT !.state = state]
<1>2. /\ i \in IntentType /\ i.state = state
      /\ i.cursor = intent[o].cursor /\ i.facts = intent[o].facts
  BY <1>1 DEF IntentType
<1>3. intent' = [intent EXCEPT ![o] = i] /\ worker' = [worker EXCEPT ![o] = Idle]
  BY DEF Stop
<1> HIDE DEF i
<1>4. intent'[o] = i
  BY <1>3 DEF Shape
<1>5. MovesTo(o, i, Idle)
  BY <1>2, <1>3, IdleTyped DEF MovesTo, Shape
<1> QED
  BY <1>2, <1>4, <1>5 DEF i

-----------------------------------------------------------------------------
(* What each way of going on asks for.                                     *)

\* The step of a running intent is taken.
LEMMA TakenClean ==
  ASSUME Shape, Shape', NEW o \in Orders, Clean(o), IsRunning(o), worker[o].at # "save",
         UNCHANGED spent, NEW found, MovesTo(o, intent[o], At("save", found)),
         \/ broker'[o] = broker[o]
         \/ intent[o].cursor + 1 = placeAt(o) /\ broker'[o].filled = 0,
         intent[o].cursor + 1 = fillAt(o) => BrokerDone(o)',
         reservation'[o] # "RELEASED",
         reservation'[o] = "HELD" /\ spent.interrupts = 0 =>
            \/ reservation[o] = "HELD" /\ intent[o].cursor + 1 # spendAt(o)
            \/ "reservationId" \in found /\ intent[o].cursor + 1 < spendAt(o)
  PROVE  Clean(o)'
<1>1. /\ intent'[o] = intent[o] /\ worker'[o].at = "save" /\ worker'[o].found = found
      /\ intent[o].cursor \in Nat
  BY DEF MovesTo, At, Shape, IntentType
<1>2. WellPlaced(o)'
  BY <1>1 DEF Clean, WellPlaced, IsRunning
<1>3. Traded(o)'
  BY <1>1 DEF Clean, Traded, Taken, BrokerDone, fillAt, placeAt
<1>4. GivenUp(o)'
  BY <1>1 DEF GivenUp, IsRunning
<1>5. HoldKnown(o)'
  BY <1>1 DEF Clean, HoldKnown, Knows, Taken, IsRunning, spendAt
<1> QED
  BY <1>2, <1>3, <1>4, <1>5 DEF Clean

\* A running intent goes on within its step.
LEMMA WithinClean ==
  ASSUME Shape, Shape', NEW o \in Orders, Clean(o), IsRunning(o), worker[o].at # "save",
         UNCHANGED spent, NEW i, NEW t, MovesTo(o, i, t),
         i.state = "RUNNING", i.cursor = intent[o].cursor, intent[o].facts \subseteq i.facts,
         t.at \notin {"save", "cancel", "release", "lost", "rebook"},
         t.at = "consume" => intent[o].cursor + 1 = spendAt(o),
         broker'[o] = broker[o], reservation'[o] = reservation[o]
  PROVE  Clean(o)'
<1>1. intent'[o] = i /\ worker'[o] = t /\ intent[o].cursor \in Nat
  BY DEF MovesTo, Shape, IntentType
<1>2. WellPlaced(o)'
  BY <1>1 DEF Clean, WellPlaced, IsRunning
<1>3. Traded(o)'
  BY <1>1 DEF Clean, Traded, Taken, BrokerDone
<1>4. GivenUp(o)'
  BY <1>1 DEF GivenUp
<1>5. HoldKnown(o)'
  BY <1>1 DEF Clean, HoldKnown, Knows, Taken, IsRunning
<1> QED
  BY <1>2, <1>3, <1>4, <1>5 DEF Clean

\* A running intent is given up.
LEMMA UnwindClean ==
  ASSUME Shape, Shape', NEW o \in Orders, Clean(o), IsRunning(o), UNWIND(o),
         worker[o].at # "save", UNCHANGED spent,
         order'[o] = order[o], reservation'[o] = reservation[o],
         broker'[o].status \notin {"NEW", "PARTIALLY_FILLED"},
         \/ broker'[o] = broker[o]
         \/ intent[o].cursor + 1 = placeAt(o) /\ broker'[o].filled = 0,
         broker'[o].filled > 0 =>
            \/ Excused(o)
            \/ Knows(o, "reservationId") /\ reservation[o] # "HELD"
  PROVE  Clean(o)'
<1>1. /\ intent'[o].state = "UNWINDING" /\ intent'[o].cursor = intent[o].cursor
      /\ intent'[o].facts = intent[o].facts /\ worker'[o].at = "start"
      /\ intent[o].cursor \in Nat
  BY StopMoves, IdleTyped DEF UNWIND, States, MovesTo, Shape, IntentType
<1>2. WellPlaced(o)'
  BY <1>1 DEF WellPlaced, IsRunning
<1>3. Traded(o)'
  BY <1>1 DEF Clean, Traded, Taken, BrokerDone, placeAt, fillAt
<1>4. GivenUp(o)'
  BY <1>1 DEF Clean, HoldKnown, GivenUp, Excused, Knows, NextStep, IsRunning
<1>5. HoldKnown(o)'
  BY <1>1 DEF Clean, HoldKnown, Knows, Taken, IsRunning
<1> QED
  BY <1>2, <1>3, <1>4, <1>5 DEF Clean

\* An intent stops for a human.
LEMMA ManualClean ==
  ASSUME Shape, Shape', NEW o \in Orders, Clean(o), MANUAL(o), Grows,
         IsRunning(o) \/ intent[o].state = "UNWINDING", worker[o].at # "save",
         broker'[o] = broker[o], reservation'[o] = reservation[o]
  PROVE  Clean(o)'
<1>1. /\ intent'[o].state = "NEEDS_MANUAL" /\ intent'[o].cursor = intent[o].cursor
      /\ intent'[o].facts = intent[o].facts /\ worker'[o].at = "start"
      /\ intent[o].cursor \in Nat
  BY StopMoves, IdleTyped DEF MANUAL, States, MovesTo, Shape, IntentType
<1>2. WellPlaced(o)'
  BY <1>1 DEF WellPlaced, IsRunning
<1>3. Traded(o)'
  BY <1>1 DEF Clean, Traded, Taken, BrokerDone
<1>4. GivenUp(o)'
  BY <1>1 DEF GivenUp
<1>5. HoldKnown(o)'
  BY <1>1 DEF Clean, HoldKnown, Knows, Taken, IsRunning, Grows
<1> QED
  BY <1>2, <1>3, <1>4, <1>5 DEF Clean

\* The world goes on: trades end, orders are cancelled, holds expire.
LEMMA WorldClean ==
  ASSUME Shape, Shape', NEW o \in Orders, Clean(o), UNCHANGED spent,
         intent'[o] = intent[o], worker'[o] = worker[o],
         order[o] = "CANCELLED" => order'[o] = "CANCELLED",
         \/ reservation'[o] = reservation[o]
         \/ reservation'[o] = "EXPIRED",
         \/ broker'[o] = broker[o]
         \/ /\ broker[o].status \in {"NEW", "PARTIALLY_FILLED"}
            /\ broker'[o].status \in {"PARTIALLY_FILLED", "FILLED", "EXPIRED"}
  PROVE  Clean(o)'
<1>1. WellPlaced(o)'
  BY DEF Clean, WellPlaced, IsRunning
<1>2. Traded(o)'
  BY DEF Clean, Traded, Taken, BrokerDone
<1>3. GivenUp(o)'
  BY DEF Clean, GivenUp, Excused, Knows, NextStep
<1>4. HoldKnown(o)'
  BY DEF Clean, HoldKnown, Knows, Taken
<1> QED
  BY <1>1, <1>2, <1>3, <1>4 DEF Clean

-----------------------------------------------------------------------------
(* The ways of going on, as steps of the system.                           *)

LEMMA ShapeOf ==
  ASSUME Shape, NEW o \in Orders, NEW i, NEW t, MovesTo(o, i, t), UNCHANGED spent,
         order' \in [Orders -> OrderStates], broker' \in [Orders -> BrokerOrder],
         reservation' \in [Orders -> Reservations],
         \A p \in Orders \ {o} :
            /\ order'[p] = order[p] /\ broker'[p] = broker[p]
            /\ reservation'[p] = reservation[p]
  PROVE  Shape' /\ Only(o) /\ Grows
BY DEF Shape, MovesTo, Only, Grows

LEMMA ShapeKept ==
  ASSUME Shape, NEW o \in Orders, NEW i, NEW t, MovesTo(o, i, t),
         UNCHANGED <<order, broker, reservation, spent>>
  PROVE  Shape' /\ Only(o) /\ Grows
BY DEF Shape, MovesTo, Only, Grows

\* Where a running intent is, as long as no operator intervened.
LEMMA RunningAt ==
  ASSUME IInv, spent.operator = 0, NEW o \in Orders, NEW step, NEW place,
         Running(o, step, place)
  PROVE  /\ Clean(o) /\ Shape /\ IsRunning(o) /\ worker[o].at = place
         /\ intent[o].cursor \in Nat /\ intent[o].cursor < Length(o)
         /\ intent[o].cursor + 1 = fillAt(o) <=> step = "await_fill"
         /\ intent[o].cursor + 1 = placeAt(o) <=> step = "place_order"
         /\ intent[o].cursor + 1 = spendAt(o) <=>
               step \in {"settle_crossing", "settle_onchain"}
         /\ step \in {"screen", "validate_order", "reserve_funding", "deploy_escrow",
                      "fund_execution"} => intent[o].cursor + 1 < placeAt(o)
         /\ step = "reserve_payout" => o \in Sells /\ intent[o].cursor >= fillAt(o)
         /\ step \in {"settle_crossing", "settle_onchain"} => intent[o].cursor >= fillAt(o)
         /\ step = "settle_onchain" => o \in Sells
         /\ step \in {"reserve_funding", "reserve_payout"} =>
               intent[o].cursor + 1 < spendAt(o)
<1>1. Clean(o) /\ Shape /\ IsRunning(o) /\ worker[o].at = place /\ NextStep(o) = step
  BY DEF IInv, Running, Driven, IsRunning
<1>2. intent[o].cursor \in Nat /\ intent[o].cursor < Length(o)
  BY <1>1 DEF Shape, IntentType, Clean, WellPlaced
<1>3. o \notin Buys => o \in Sells
  BY DEF Orders
<1> DEFINE c == intent[o].cursor
<1>4. CASE o \in Buys
  <2>1. \/ c = 0 /\ step = "screen"
        \/ c = 1 /\ step = "validate_order"
        \/ c = 2 /\ step = "reserve_funding"
        \/ c = 3 /\ step = "deploy_escrow"
        \/ c = 4 /\ step = "fund_execution"
        \/ c = 5 /\ step = "place_order"
        \/ c = 6 /\ step = "await_fill"
        \/ c = 7 /\ step = "settle_crossing"
        \/ c = 8 /\ step = "await_custody"
        \/ c = 9 /\ step = "attest_and_mint"
    BY <1>1, <1>2, <1>4, StepAt
  <2>2. placeAt(o) = 6 /\ fillAt(o) = 7 /\ spendAt(o) = 8
    BY <1>4 DEF placeAt, fillAt, spendAt
  <2> HIDE DEF c
  <2> QED
    BY <1>1, <1>2, <2>1, <2>2 DEF c
<1>5. CASE o \notin Buys
  <2>1. \/ c = 0 /\ step = "screen"
        \/ c = 1 /\ step = "validate_order"
        \/ c = 2 /\ step = "place_order"
        \/ c = 3 /\ step = "await_fill"
        \/ c = 4 /\ step = "reserve_payout"
        \/ c = 5 /\ step = "await_custody_release"
        \/ c = 6 /\ step = "settle_onchain"
        \/ c = 7 /\ step = "repatriate"
    BY <1>1, <1>2, <1>5, StepAt
  <2>2. placeAt(o) = 3 /\ fillAt(o) = 4 /\ spendAt(o) = 7
    BY <1>5 DEF placeAt, fillAt, spendAt
  <2> HIDE DEF c
  <2> QED
    BY <1>1, <1>2, <1>3, <1>5, <2>1, <2>2 DEF c
<1> QED
  BY <1>4, <1>5

\* A step is taken without an effect on the order or on the hold.
LEMMA TakesStep ==
  ASSUME IInv, NEW o \in Orders, NEW step, NEW place, Running(o, step, place),
         place # "save", NEW found \in SUBSET Facts, ADVANCE(o, found),
         UNCHANGED <<order, broker, reservation, spent>>,
         step = "await_fill" => BrokerDone(o),
         step \in {"settle_crossing", "settle_onchain"} => place = "rebook"
  PROVE  IInv'
<1>1. Shape
  BY DEF IInv
<1>2. MovesTo(o, intent[o], At("save", found))
  BY <1>1, AdvanceMoves
<1>3. Shape' /\ Only(o) /\ Grows
  BY <1>1, <1>2, ShapeKept
<1>4. ASSUME spent'.operator = 0
      PROVE  Clean(o)'
  <2>1. spent.operator = 0
    BY <1>3, <1>4 DEF Grows
  <2>2. /\ Clean(o) /\ IsRunning(o) /\ worker[o].at # "save"
        /\ reservation[o] # "RELEASED"
    BY <2>1, RunningAt DEF Clean, HoldKnown, IsRunning
  <2>3. intent[o].cursor + 1 = fillAt(o) => BrokerDone(o)'
    BY <2>1, RunningAt DEF BrokerDone
  <2>4. spent.interrupts = 0 => intent[o].cursor + 1 # spendAt(o)
    BY <1>1, <2>1, RunningAt DEF Clean, WellPlaced, Shape
  <2> QED
    BY <1>1, <1>2, <1>3, <2>2, <2>3, <2>4, TakenClean
<1> QED
  BY <1>3, <1>4, StepOf

\* An intent goes on within its step.
LEMMA GoesWithin ==
  ASSUME IInv, NEW o \in Orders, NEW step, NEW from, Running(o, step, from),
         from # "save", NEW place \in Places, Goto(o, place),
         place \notin {"save", "cancel", "release", "lost", "rebook"},
         place = "consume" => step \in {"settle_crossing", "settle_onchain"},
         \/ order' = order
         \/ \E x \in OrderStates : order' = [order EXCEPT ![o] = x],
         UNCHANGED <<broker, reservation, spent>>
  PROVE  IInv'
<1>1. Shape
  BY DEF IInv
<1>2. MovesTo(o, intent[o], At(place, worker[o].found))
  BY <1>1, GotoMoves
<1>3. Shape' /\ Only(o) /\ Grows
  <2>1. /\ order' \in [Orders -> OrderStates]
        /\ \A p \in Orders \ {o} : order'[p] = order[p]
    BY <1>1 DEF Shape
  <2> QED
    BY <1>1, <1>2, <2>1, ShapeOf DEF Shape
<1>4. ASSUME spent'.operator = 0
      PROVE  Clean(o)'
  <2>1. spent.operator = 0
    BY <1>3, <1>4 DEF Grows
  <2>2. Clean(o) /\ IsRunning(o) /\ worker[o].at # "save"
    BY <2>1, RunningAt
  <2>3. place = "consume" => intent[o].cursor + 1 = spendAt(o)
    BY <2>1, RunningAt
  <2>4. At(place, worker[o].found).at = place
    BY DEF At
  <2> QED
    BY <1>1, <1>2, <1>3, <2>2, <2>3, <2>4, WithinClean DEF IsRunning
<1> QED
  BY <1>3, <1>4, StepOf

\* An intent is given up, before it traded or with an excuse.
LEMMA GivesUp ==
  ASSUME IInv, NEW o \in Orders, NEW step, NEW place, Running(o, step, place),
         place # "save", UNWIND(o), UNCHANGED <<order, broker, reservation, spent>>,
         \/ step \in {"screen", "validate_order", "reserve_funding", "deploy_escrow",
                      "fund_execution", "reserve_payout"}
         \/ step = "settle_onchain" /\ order[o] = "CANCELLED"
         \/ step \in {"settle_crossing", "settle_onchain"}
            /\ Knows(o, "reservationId") /\ reservation[o] # "HELD"
         \/ broker[o].status \in {"None", "REJECTED"}
         \/ BrokerDone(o) /\ broker[o].filled = 0
  PROVE  IInv'
<1>1. Shape
  BY DEF IInv
<1>2. MovesTo(o, [intent[o] EXCEPT !.state = "UNWINDING"], Idle)
  BY <1>1, StopMoves DEF UNWIND, States
<1>3. Shape' /\ Only(o) /\ Grows
  BY <1>1, <1>2, ShapeKept
<1>4. ASSUME spent'.operator = 0
      PROVE  Clean(o)'
  <2>1. spent.operator = 0
    BY <1>3, <1>4 DEF Grows
  <2>2. Clean(o) /\ IsRunning(o) /\ worker[o].at # "save" /\ intent[o].cursor \in Nat
    BY <2>1, RunningAt
  <2>3. /\ placeAt(o) \in Nat /\ fillAt(o) \in Nat
        /\ intent[o].cursor >= fillAt(o) => BrokerDone(o)
        /\ intent[o].cursor + 1 < placeAt(o) => broker[o].status = "None"
        /\ broker[o].status \in {"None", "REJECTED"} => broker[o].filled = 0
    BY <2>2 DEF Clean, Traded, Taken, placeAt, fillAt
  <2>4. NextStep(o) = step
    BY DEF Running, Driven
  <2>5. broker[o].status \notin {"NEW", "PARTIALLY_FILLED"}
    BY <2>1, <2>3, RunningAt DEF BrokerDone
  <2>6. broker[o].filled > 0 =>
           \/ Excused(o)
           \/ Knows(o, "reservationId") /\ reservation[o] # "HELD"
    BY <2>1, <2>3, <2>4, RunningAt DEF Excused
  <2> QED
    BY <1>1, <1>3, <2>2, <2>5, <2>6, UnwindClean
<1> QED
  BY <1>3, <1>4, StepOf

\* An intent stops for a human.
LEMMA StopsManual ==
  ASSUME IInv, NEW o \in Orders, MANUAL(o), worker[o].at # "save",
         intent[o].state \in {"RUNNING", "UNWINDING"},
         UNCHANGED <<order, broker, reservation>>, Grows,
         spent' \in [interrupts : Nat, operator : Nat]
  PROVE  IInv'
<1>1. Shape
  BY DEF IInv
<1>2. MovesTo(o, [intent[o] EXCEPT !.state = "NEEDS_MANUAL"], Idle)
  BY <1>1, StopMoves DEF MANUAL, States
<1>3. Shape' /\ Only(o)
  BY <1>1, <1>2 DEF Shape, Only, MovesTo
<1>4. ASSUME spent'.operator = 0
      PROVE  Clean(o)'
  <2>1. Clean(o)
    BY <1>4 DEF IInv, Grows
  <2> QED
    BY <1>1, <1>3, <2>1, ManualClean DEF IsRunning
<1> QED
  BY <1>3, <1>4, StepOf

\* A step that is none of an intent's.
LEMMA Aside ==
  ASSUME IInv, UNCHANGED <<order, broker, reservation, intent, worker>>, Grows,
         spent' \in [interrupts : Nat, operator : Nat]
  PROVE  IInv'
<1>1. Shape /\ Shape'
  BY DEF IInv, Shape
<1>2. ASSUME spent'.operator = 0, NEW o \in Orders
      PROVE  Clean(o)'
  <2>1. Clean(o)
    BY <1>2 DEF IInv, Grows
  <2> QED
    BY <1>1, <2>1, CleanStays
<1> QED
  BY <1>1, <1>2 DEF IInv

\* A step of the world.
LEMMA WorldStep ==
  ASSUME IInv, NEW o \in Orders, UNCHANGED <<intent, worker, spent>>,
         order' \in [Orders -> OrderStates], broker' \in [Orders -> BrokerOrder],
         reservation' \in [Orders -> Reservations],
         \A p \in Orders \ {o} :
            /\ order'[p] = order[p] /\ broker'[p] = broker[p]
            /\ reservation'[p] = reservation[p],
         order[o] = "CANCELLED" => order'[o] = "CANCELLED",
         reservation'[o] = reservation[o] \/ reservation'[o] = "EXPIRED",
         \/ broker'[o] = broker[o]
         \/ /\ broker[o].status \in {"NEW", "PARTIALLY_FILLED"}
            /\ broker'[o].status \in {"PARTIALLY_FILLED", "FILLED", "EXPIRED"}
  PROVE  IInv'
<1>1. Shape /\ Shape' /\ Only(o) /\ Grows
  BY DEF IInv, Shape, Only, Grows
<1>2. ASSUME spent'.operator = 0
      PROVE  Clean(o)'
  <2>1. Clean(o)
    BY <1>2 DEF IInv
  <2> QED
    BY <1>1, <2>1, WorldClean
<1> QED
  BY <1>1, <1>2, StepOf

-----------------------------------------------------------------------------
(* The steps of both sagas.                                                *)

LEMMA ScreenKeeps ==
  ASSUME IInv, NEW o \in Orders, screen(o)
  PROVE  IInv'
<1>0. UNCHANGED <<order, broker, reservation, spent>> /\ Grows /\ spent' \in [interrupts : Nat, operator : Nat]
  BY DEF screen, worldVars, storeVars, IInv, Shape, Grows
<1>1. Running(o, "screen", "start") /\ o \in Orders
  BY DEF screen, Orders
<1>2. intent[o].state = "RUNNING" /\ worker[o].at = "start"
  BY <1>1 DEF Running, Driven
<1>3. ASSUME NEW found \in SUBSET Facts, ADVANCE(o, found)
      PROVE  IInv'
  BY <1>0, <1>1, <1>3, TakesStep
<1>4. ASSUME UNWIND(o)
      PROVE  IInv'
  BY <1>0, <1>1, <1>4, GivesUp
<1>5. ASSUME MANUAL(o)
      PROVE  IInv'
  BY <1>0, <1>1, <1>2, <1>5, StopsManual
<1> QED
  BY <1>3, <1>4, <1>5 DEF screen, Facts

LEMMA ValidateKeeps ==
  ASSUME IInv, NEW o \in Orders, validate_order(o)
  PROVE  IInv'
<1>0. UNCHANGED <<order, broker, reservation, spent>> /\ Grows /\ spent' \in [interrupts : Nat, operator : Nat]
  BY DEF validate_order, worldVars, storeVars, IInv, Shape, Grows
<1>1. Running(o, "validate_order", "start") /\ o \in Orders
  BY DEF validate_order, Orders
<1>2. intent[o].state = "RUNNING" /\ worker[o].at = "start"
  BY <1>1 DEF Running, Driven
<1>3. ASSUME NEW found \in SUBSET Facts, ADVANCE(o, found)
      PROVE  IInv'
  BY <1>0, <1>1, <1>3, TakesStep
<1>4. ASSUME UNWIND(o)
      PROVE  IInv'
  BY <1>0, <1>1, <1>4, GivesUp
<1>5. ASSUME MANUAL(o)
      PROVE  IInv'
  BY <1>0, <1>1, <1>2, <1>5, StopsManual
<1> QED
  BY <1>3, <1>4, <1>5 DEF validate_order, Facts

LEMMA ChooseKeeps ==
  ASSUME IInv, NEW o \in Orders, chooseFunding(o)
  PROVE  IInv'
<1>0. UNCHANGED <<order, broker, reservation, spent>> /\ Grows /\ spent' \in [interrupts : Nat, operator : Nat]
  BY DEF chooseFunding, worldVars, storeVars, IInv, Shape, Grows
<1>1. Running(o, ReserveStep(o), "start") /\ o \in Orders
  BY DEF chooseFunding, Orders
<1>2. intent[o].state = "RUNNING" /\ worker[o].at = "start"
  BY <1>1 DEF Running, Driven
<1>3. ASSUME NEW found \in SUBSET Facts, ADVANCE(o, found)
      PROVE  IInv'
  BY <1>0, <1>1, <1>3, TakesStep DEF ReserveStep
<1>4. ASSUME Goto(o, "reserve")
      PROVE  IInv'
  <2>1. "reserve" \in Places
    BY DEF Places
  <2> QED
    BY <1>0, <1>1, <1>4, <2>1, GoesWithin DEF ReserveStep
<1>5. ASSUME UNWIND(o)
      PROVE  IInv'
  BY <1>0, <1>1, <1>5, GivesUp DEF ReserveStep
<1> QED
  BY <1>3, <1>4, <1>5 DEF chooseFunding, Facts

LEMMA FillKeeps ==
  ASSUME IInv, NEW o \in Orders, await_fill(o)
  PROVE  IInv'
<1>0. UNCHANGED <<order, broker, reservation, spent>> /\ Grows /\ spent' \in [interrupts : Nat, operator : Nat]
  BY DEF await_fill, worldVars, storeVars, IInv, Shape, Grows
<1>1. Running(o, "await_fill", "start") /\ o \in Orders
  BY DEF await_fill, Orders
<1>2. intent[o].state = "RUNNING" /\ worker[o].at = "start"
  BY <1>1 DEF Running, Driven
<1>3. ASSUME NEW found \in SUBSET Facts, ADVANCE(o, found), BrokerDone(o)
      PROVE  IInv'
  BY <1>0, <1>1, <1>3, TakesStep
<1>4. ASSUME UNWIND(o),
             broker[o].status = "REJECTED" \/ (BrokerDone(o) /\ filledQuantity(o) = 0)
      PROVE  IInv'
  BY <1>0, <1>1, <1>4, GivesUp DEF filledQuantity
<1>5. ASSUME MANUAL(o)
      PROVE  IInv'
  BY <1>0, <1>1, <1>2, <1>5, StopsManual
<1> QED
  BY <1>3, <1>4, <1>5 DEF await_fill, Facts

LEMMA BookDeployedKeeps ==
  ASSUME IInv, NEW o \in Buys, bookDeployed(o)
  PROVE  IInv'
<1>0. UNCHANGED <<order, broker, reservation, spent>> /\ Grows /\ spent' \in [interrupts : Nat, operator : Nat]
  BY DEF bookDeployed, worldVars, storeVars, IInv, Shape, Grows
<1>1. Running(o, "deploy_escrow", "book") /\ o \in Orders
  BY DEF bookDeployed, Orders
<1>2. intent[o].state = "RUNNING" /\ worker[o].at = "book"
  BY <1>1 DEF Running, Driven
<1>3. ASSUME NEW found \in SUBSET Facts, ADVANCE(o, found)
      PROVE  IInv'
  BY <1>0, <1>1, <1>3, TakesStep
<1> QED
  BY <1>3 DEF bookDeployed, Facts

LEMMA FundKeeps ==
  ASSUME IInv, NEW o \in Buys, fund_execution(o)
  PROVE  IInv'
<1>0. UNCHANGED <<order, broker, reservation, spent>> /\ Grows /\ spent' \in [interrupts : Nat, operator : Nat]
  BY DEF fund_execution, worldVars, storeVars, IInv, Shape, Grows
<1>1. Running(o, "fund_execution", "start") /\ o \in Orders
  BY DEF fund_execution, Orders
<1>2. intent[o].state = "RUNNING" /\ worker[o].at = "start"
  BY <1>1 DEF Running, Driven
<1>3. ASSUME NEW found \in SUBSET Facts, ADVANCE(o, found)
      PROVE  IInv'
  BY <1>0, <1>1, <1>3, TakesStep
<1>4. ASSUME UNWIND(o)
      PROVE  IInv'
  BY <1>0, <1>1, <1>4, GivesUp
<1>5. ASSUME UNCHANGED <<intent, worker>>
      PROVE  IInv'
  BY <1>0, <1>5, Aside
<1> QED
  BY <1>3, <1>4, <1>5 DEF fund_execution, Facts

LEMMA CrossingKeeps ==
  ASSUME IInv, NEW o \in Buys, settle_crossing(o)
  PROVE  IInv'
<1>0. UNCHANGED <<order, broker, reservation, spent>> /\ Grows /\ spent' \in [interrupts : Nat, operator : Nat]
  BY DEF settle_crossing, worldVars, storeVars, IInv, Shape, Grows
<1>1. Running(o, "settle_crossing", "start") /\ o \in Orders
  BY DEF settle_crossing, Orders
<1>2. intent[o].state = "RUNNING" /\ worker[o].at = "start"
  BY <1>1 DEF Running, Driven
<1>3. ASSUME MANUAL(o)
      PROVE  IInv'
  BY <1>0, <1>1, <1>2, <1>3, StopsManual
<1>4. ASSUME Goto(o, "pay")
      PROVE  IInv'
  <2>1. "pay" \in Places
    BY DEF Places
  <2> QED
    BY <1>0, <1>1, <1>4, <2>1, GoesWithin
<1> QED
  BY <1>3, <1>4 DEF settle_crossing, Facts

LEMMA CustodyKeeps ==
  ASSUME IInv, NEW o \in Buys, await_custody(o)
  PROVE  IInv'
<1>0. UNCHANGED <<order, broker, reservation, spent>> /\ Grows /\ spent' \in [interrupts : Nat, operator : Nat]
  BY DEF await_custody, worldVars, storeVars, IInv, Shape, Grows
<1>1. Running(o, "await_custody", "start") /\ o \in Orders
  BY DEF await_custody, Orders
<1>2. intent[o].state = "RUNNING" /\ worker[o].at = "start"
  BY <1>1 DEF Running, Driven
<1>3. ASSUME NEW found \in SUBSET Facts, ADVANCE(o, found)
      PROVE  IInv'
  BY <1>0, <1>1, <1>3, TakesStep
<1>4. ASSUME MANUAL(o)
      PROVE  IInv'
  BY <1>0, <1>1, <1>2, <1>4, StopsManual
<1> QED
  BY <1>3, <1>4 DEF await_custody, Facts

LEMMA AttestKeeps ==
  ASSUME IInv, NEW o \in Buys, attest_and_mint(o)
  PROVE  IInv'
<1>0. UNCHANGED <<order, broker, reservation, spent>> /\ Grows /\ spent' \in [interrupts : Nat, operator : Nat]
  BY DEF attest_and_mint, worldVars, storeVars, IInv, Shape, Grows
<1>1. Running(o, "attest_and_mint", "start") /\ o \in Orders
  BY DEF attest_and_mint, Orders
<1>2. intent[o].state = "RUNNING" /\ worker[o].at = "start"
  BY <1>1 DEF Running, Driven
<1>3. ASSUME MANUAL(o)
      PROVE  IInv'
  BY <1>0, <1>1, <1>2, <1>3, StopsManual
<1>4. ASSUME Goto(o, "send")
      PROVE  IInv'
  <2>1. "send" \in Places
    BY DEF Places
  <2> QED
    BY <1>0, <1>1, <1>4, <2>1, GoesWithin
<1> QED
  BY <1>3, <1>4 DEF attest_and_mint, Facts

LEMMA BookMintedKeeps ==
  ASSUME IInv, NEW o \in Buys, bookMinted(o)
  PROVE  IInv'
<1>0. UNCHANGED <<order, broker, reservation, spent>> /\ Grows /\ spent' \in [interrupts : Nat, operator : Nat]
  BY DEF bookMinted, worldVars, storeVars, IInv, Shape, Grows
<1>1. Running(o, "attest_and_mint", "book") /\ o \in Orders
  BY DEF bookMinted, Orders
<1>2. intent[o].state = "RUNNING" /\ worker[o].at = "book"
  BY <1>1 DEF Running, Driven
<1>3. ASSUME NEW found \in SUBSET Facts, ADVANCE(o, found)
      PROVE  IInv'
  BY <1>0, <1>1, <1>3, TakesStep
<1> QED
  BY <1>3 DEF bookMinted, Facts

LEMMA CustodyReleaseKeeps ==
  ASSUME IInv, NEW o \in Sells, await_custody_release(o)
  PROVE  IInv'
<1>0. UNCHANGED <<order, broker, reservation, spent>> /\ Grows /\ spent' \in [interrupts : Nat, operator : Nat]
  BY DEF await_custody_release, worldVars, storeVars, IInv, Shape, Grows
<1>1. Running(o, "await_custody_release", "start") /\ o \in Orders
  BY DEF await_custody_release, Orders
<1>2. intent[o].state = "RUNNING" /\ worker[o].at = "start"
  BY <1>1 DEF Running, Driven
<1>3. ASSUME NEW found \in SUBSET Facts, ADVANCE(o, found)
      PROVE  IInv'
  BY <1>0, <1>1, <1>3, TakesStep
<1>4. ASSUME MANUAL(o)
      PROVE  IInv'
  BY <1>0, <1>1, <1>2, <1>4, StopsManual
<1> QED
  BY <1>3, <1>4 DEF await_custody_release, Facts

LEMMA RepatriateKeeps ==
  ASSUME IInv, NEW o \in Sells, repatriate(o)
  PROVE  IInv'
<1>0. UNCHANGED <<order, broker, reservation, spent>> /\ Grows /\ spent' \in [interrupts : Nat, operator : Nat]
  BY DEF repatriate, worldVars, storeVars, IInv, Shape, Grows
<1>1. Running(o, "repatriate", "start") /\ o \in Orders
  BY DEF repatriate, Orders
<1>2. intent[o].state = "RUNNING" /\ worker[o].at = "start"
  BY <1>1 DEF Running, Driven
<1>3. ASSUME NEW found \in SUBSET Facts, ADVANCE(o, found)
      PROVE  IInv'
  BY <1>0, <1>1, <1>3, TakesStep
<1>4. ASSUME MANUAL(o)
      PROVE  IInv'
  BY <1>0, <1>1, <1>2, <1>4, StopsManual
<1>5. ASSUME Goto(o, "send")
      PROVE  IInv'
  <2>1. "send" \in Places
    BY DEF Places
  <2> QED
    BY <1>0, <1>1, <1>5, <2>1, GoesWithin
<1> QED
  BY <1>3, <1>4, <1>5 DEF repatriate, Facts

LEMMA CreateKeeps ==
  ASSUME IInv, NEW o \in Sells, createConversion(o)
  PROVE  IInv'
<1>0. UNCHANGED <<order, broker, reservation, spent>> /\ Grows /\ spent' \in [interrupts : Nat, operator : Nat]
  BY DEF createConversion, worldVars, storeVars, IInv, Shape, Grows
<1>1. Running(o, "repatriate", "send") /\ o \in Orders
  BY DEF createConversion, Orders
<1>2. intent[o].state = "RUNNING" /\ worker[o].at = "send"
  BY <1>1 DEF Running, Driven
<1>3. ASSUME Goto(o, "start")
      PROVE  IInv'
  <2>1. "start" \in Places
    BY DEF Places
  <2> QED
    BY <1>0, <1>1, <1>3, <2>1, GoesWithin
<1> QED
  BY <1>3 DEF createConversion, Facts

-----------------------------------------------------------------------------
(* The steps with an effect on the order, its trade or the hold.           *)

LEMMA PlaceKeeps ==
  ASSUME IInv, NEW o \in Orders, place_order(o)
  PROVE  IInv'
<1>1. /\ UNCHANGED <<order, reservation, spent>> /\ Shape
      /\ Running(o, "place_order", "start")
  BY DEF place_order, storeVars, IInv
<1>2. ASSUME ADVANCE(o, {}), UNCHANGED broker
      PROVE  IInv'
  BY <1>1, <1>2, TakesStep
<1>3. ASSUME UNWIND(o), UNCHANGED broker, broker[o].status = "None"
      PROVE  IInv'
  BY <1>1, <1>3, GivesUp
<1>4. ASSUME NEW status \in {"NEW", "REJECTED"},
             broker[o].status = "None", broker' = [broker EXCEPT ![o].status = status],
             \/ ADVANCE(o, {})
             \/ status = "REJECTED" /\ UNWIND(o)
      PROVE  IInv'
  <2>1. PICK i, t : MovesTo(o, i, t)
    BY <1>1, <1>4, AdvanceMoves, StopMoves DEF UNWIND, States
  <2>2. broker[o] \in BrokerOrder
    BY <1>1 DEF Shape
  <2> DEFINE b == [broker[o] EXCEPT !.status = status]
  <2>3. b \in BrokerOrder /\ b.status = status /\ b.filled = broker[o].filled
    BY <2>2 DEF BrokerOrder
  <2>4. broker' = [broker EXCEPT ![o] = b]
    BY <1>4
  <2> HIDE DEF b
  <2>5. /\ broker' \in [Orders -> BrokerOrder] /\ broker'[o] = b
        /\ \A p \in Orders \ {o} : broker'[p] = broker[p]
    BY <1>1, <2>3, <2>4 DEF Shape
  <2>6. Shape' /\ Only(o) /\ Grows
    BY <1>1, <2>1, <2>5, ShapeOf DEF Shape
  <2>7. ASSUME spent'.operator = 0
        PROVE  Clean(o)'
    <3>1. spent.operator = 0
      BY <2>6, <2>7 DEF Grows
    <3>2. /\ Clean(o) /\ IsRunning(o) /\ worker[o].at = "start"
          /\ intent[o].cursor + 1 = placeAt(o)
          /\ intent[o].cursor + 1 # fillAt(o) /\ intent[o].cursor + 1 # spendAt(o)
      BY <1>1, <3>1, RunningAt
    <3>3. broker'[o].filled = 0 /\ reservation[o] # "RELEASED"
      BY <1>4, <2>3, <2>5, <3>2 DEF Clean, Traded, HoldKnown, IsRunning
    <3>4. CASE ADVANCE(o, {})
      <4>1. MovesTo(o, intent[o], At("save", {}))
        BY <1>1, <3>4, AdvanceMoves
      <4> QED
        BY <1>1, <2>6, <3>2, <3>3, <4>1, TakenClean
    <3>5. CASE status = "REJECTED" /\ UNWIND(o)
      BY <1>1, <2>3, <2>5, <2>6, <3>2, <3>3, <3>5, UnwindClean
    <3> QED
      BY <1>4, <3>4, <3>5
  <2> QED
    BY <2>6, <2>7, StepOf
<1> QED
  BY <1>2, <1>3, <1>4 DEF place_order

LEMMA DeployKeeps ==
  ASSUME IInv, NEW o \in Buys, deploy_escrow(o)
  PROVE  IInv'
<1>1. /\ UNCHANGED <<broker, reservation, spent>> /\ o \in Orders
      /\ Running(o, "deploy_escrow", "start")
  BY DEF deploy_escrow, storeVars, Orders
<1>2. ASSUME order' = [order EXCEPT ![o] = "DEPLOYED"], Goto(o, "book")
      PROVE  IInv'
  <2>1. "book" \in Places /\ "DEPLOYED" \in OrderStates
    BY DEF Places, OrderStates
  <2> QED
    BY <1>1, <1>2, <2>1, GoesWithin
<1>3. ASSUME UNCHANGED order, ADVANCE(o, {})
      PROVE  IInv'
  BY <1>1, <1>3, TakesStep
<1>4. ASSUME UNCHANGED order, UNWIND(o)
      PROVE  IInv'
  BY <1>1, <1>4, GivesUp
<1> QED
  BY <1>2, <1>3, <1>4 DEF deploy_escrow

LEMMA ConfirmKeeps ==
  ASSUME IInv, NEW o \in Buys, confirmBuy(o)
  PROVE  IInv'
<1>1. /\ UNCHANGED <<broker, reservation, spent>> /\ o \in Orders
      /\ Running(o, "attest_and_mint", "send")
  BY DEF confirmBuy, storeVars, Orders
<1>2. ASSUME order' = [order EXCEPT ![o] = "FILLED"], Goto(o, "book")
      PROVE  IInv'
  <2>1. "book" \in Places /\ "FILLED" \in OrderStates
    BY DEF Places, OrderStates
  <2> QED
    BY <1>1, <1>2, <2>1, GoesWithin
<1>3. ASSUME UNCHANGED order, ADVANCE(o, {})
      PROVE  IInv'
  BY <1>1, <1>3, TakesStep
<1> QED
  BY <1>2, <1>3 DEF confirmBuy

LEMMA SettleKeeps ==
  ASSUME IInv, NEW o \in Sells, settle_onchain(o)
  PROVE  IInv'
<1>1. /\ UNCHANGED <<broker, reservation, spent>> /\ o \in Orders
      /\ Running(o, "settle_onchain", "start")
  BY DEF settle_onchain, storeVars, Orders
<1>2. ASSUME NEW place \in {"book", "consume"}, Goto(o, place),
             order' = [order EXCEPT ![o] = "SETTLED"] \/ order' = order
      PROVE  IInv'
  <2>1. place \in Places /\ "SETTLED" \in OrderStates
    BY DEF Places, OrderStates
  <2> QED
    BY <1>1, <1>2, <2>1, GoesWithin
<1>3. ASSUME UNCHANGED order, UNWIND(o), order[o] = "CANCELLED"
      PROVE  IInv'
  BY <1>1, <1>3, GivesUp
<1> QED
  BY <1>2, <1>3 DEF settle_onchain

LEMMA BookSettledKeeps ==
  ASSUME IInv, NEW o \in Sells, bookSettled(o)
  PROVE  IInv'
<1>1. /\ UNCHANGED <<order, broker, reservation, spent>> /\ o \in Orders
      /\ Running(o, "settle_onchain", worker[o].at)
      /\ worker[o].at \in {"book", "rebook"}
  BY DEF bookSettled, worldVars, Orders, Running, Driven
<1>2. CASE worker[o].at = "book"
  <2>1. "consume" \in Places /\ Goto(o, "consume")
    BY <1>2 DEF bookSettled, Places
  <2> QED
    BY <1>1, <1>2, <2>1, GoesWithin
<1>3. CASE worker[o].at = "rebook"
  <2>1. ADVANCE(o, {})
    BY <1>3 DEF bookSettled
  <2> QED
    BY <1>1, <1>3, <2>1, TakesStep
<1> QED
  BY <1>1, <1>2, <1>3

LEMMA PayoutKeeps ==
  ASSUME IInv, NEW o \in Buys, awaitPayout(o)
  PROVE  IInv'
<1>1. /\ UNCHANGED <<order, broker, reservation, spent>> /\ o \in Orders /\ Shape
      /\ Running(o, "settle_crossing", "pay")
      /\ intent[o].state = "RUNNING" /\ worker[o].at = "pay"
  BY DEF awaitPayout, worldVars, Orders, Running, Driven, IInv
<1>2. ASSUME intent' = [intent EXCEPT ![o].facts = @ \cup {"convertedAmount"}],
             worker' = [worker EXCEPT ![o] = Idle]
      PROVE  IInv'
  <2>1. intent[o] \in IntentType
    BY <1>1 DEF Shape
  <2> DEFINE i == [intent[o] EXCEPT !.facts = @ \cup {"convertedAmount"}]
  <2>2. /\ i \in IntentType /\ i.state = "RUNNING" /\ i.cursor = intent[o].cursor
        /\ intent[o].facts \subseteq i.facts
    BY <1>1, <2>1 DEF IntentType, Facts
  <2>3. intent' = [intent EXCEPT ![o] = i]
    BY <1>2
  <2> HIDE DEF i
  <2>4. MovesTo(o, i, Idle)
    BY <1>1, <1>2, <2>2, <2>3, IdleTyped DEF MovesTo, Shape
  <2>5. Shape' /\ Only(o) /\ Grows
    BY <1>1, <2>4, ShapeKept
  <2>6. ASSUME spent'.operator = 0
        PROVE  Clean(o)'
    <3>1. Clean(o) /\ IsRunning(o)
      BY <1>1, <2>5, <2>6 DEF IInv, Grows, IsRunning
    <3> QED
      BY <1>1, <2>2, <2>4, <2>5, <3>1, IdleTyped, WithinClean
  <2> QED
    BY <1>1, <2>5, <2>6, StepOf
<1>3. ASSUME MANUAL(o)
      PROVE  IInv'
  <2>1. Grows /\ spent' \in [interrupts : Nat, operator : Nat]
    BY <1>1 DEF Grows, Shape
  <2> QED
    BY <1>1, <1>3, <2>1, StopsManual
<1>4. ASSUME Goto(o, "consume")
      PROVE  IInv'
  <2>1. "consume" \in Places
    BY DEF Places
  <2> QED
    BY <1>1, <1>4, <2>1, GoesWithin
<1> QED
  BY <1>2, <1>3, <1>4 DEF awaitPayout

\* A hold is found already taken, or can be; a balance that has run short gives
\* up.
LEMMA ReserveKeeps ==
  ASSUME IInv, NEW o \in Orders, reserve(o)
  PROVE  IInv'
<1>0. /\ UNCHANGED <<order, broker, reservation, spent>> /\ Grows
      /\ spent' \in [interrupts : Nat, operator : Nat]
  BY DEF reserve, worldVars, storeVars, IInv, Shape, Grows
<1>1. /\ Running(o, ReserveStep(o), "reserve")
      /\ ReserveStep(o) \in {"reserve_funding", "reserve_payout"}
  BY DEF reserve, ReserveStep
<1>2. ASSUME UNWIND(o)
      PROVE  IInv'
  BY <1>0, <1>1, <1>2, GivesUp
<1>3. ASSUME NEW found \in SUBSET Facts, ADVANCE(o, found)
      PROVE  IInv'
  BY <1>0, <1>1, <1>3, TakesStep
<1>4. ASSUME Goto(o, "hold")
      PROVE  IInv'
  <2>1. "hold" \in Places
    BY DEF Places
  <2> QED
    BY <1>0, <1>1, <1>4, <2>1, GoesWithin
<1> QED
  BY <1>2, <1>3, <1>4 DEF reserve, Facts

\* A hold is taken.
LEMMA HoldKeeps ==
  ASSUME IInv, NEW o \in Orders, hold(o)
  PROVE  IInv'
<1>1. /\ UNCHANGED <<order, broker, spent>> /\ Shape
      /\ Running(o, ReserveStep(o), "hold")
      /\ ReserveStep(o) \in {"reserve_funding", "reserve_payout"}
      /\ reservation' = [reservation EXCEPT ![o] = "HELD"]
      /\ ADVANCE(o, {"reservationId"})
  BY DEF hold, worldVars, IInv, ReserveStep
<1>2. MovesTo(o, intent[o], At("save", {"reservationId"}))
  BY <1>1, AdvanceMoves DEF Facts
<1>3. /\ reservation' \in [Orders -> Reservations] /\ reservation'[o] = "HELD"
      /\ \A p \in Orders \ {o} : reservation'[p] = reservation[p]
  BY <1>1 DEF Shape, Reservations
<1>4. Shape' /\ Only(o) /\ Grows
  BY <1>1, <1>2, <1>3, ShapeOf DEF Shape
<1>5. ASSUME spent'.operator = 0
      PROVE  Clean(o)'
  <2>1. spent.operator = 0
    BY <1>4, <1>5 DEF Grows
  <2>2. /\ Clean(o) /\ IsRunning(o) /\ worker[o].at = "hold"
        /\ intent[o].cursor + 1 # fillAt(o)
        /\ intent[o].cursor + 1 < spendAt(o)
    BY <1>1, <2>1, RunningAt
  <2> QED
    BY <1>1, <1>2, <1>3, <1>4, <2>2, TakenClean
<1> QED
  BY <1>4, <1>5, StepOf

\* A hold is spent; a hold that expired meanwhile gives up.
LEMMA ConsumeKeeps ==
  ASSUME IInv, NEW o \in Orders, consume(o)
  PROVE  IInv'
<1>1. UNCHANGED <<order, broker, spent>> /\ Shape /\ worker[o].at = "consume"
  BY DEF consume, worldVars, IInv
<1>2. \/ /\ reservation' = reservation
         /\ ADVANCE(o, {})
         /\ ~Knows(o, "reservationId")
      \/ /\ reservation' = [reservation EXCEPT ![o] = "CONSUMED"]
         /\ ADVANCE(o, {})
      \/ /\ reservation' = reservation
         /\ UNWIND(o)
         /\ Knows(o, "reservationId")
         /\ reservation[o] \notin {"HELD", "CONSUMED"}
  BY DEF consume
<1>3. PICK i, t : MovesTo(o, i, t)
  BY <1>1, <1>2, AdvanceMoves, StopMoves DEF UNWIND, States
<1>4. /\ reservation' \in [Orders -> Reservations]
      /\ reservation'[o] = reservation[o] \/ reservation'[o] = "CONSUMED"
      /\ \A p \in Orders \ {o} : reservation'[p] = reservation[p]
  BY <1>1, <1>2 DEF Shape, Reservations
<1>5. Shape' /\ Only(o) /\ Grows
  BY <1>1, <1>3, <1>4, ShapeOf DEF Shape
<1>6. ASSUME spent'.operator = 0
      PROVE  Clean(o)'
  <2>1. /\ Clean(o) /\ IsRunning(o) /\ intent[o].cursor + 1 = spendAt(o)
        /\ intent[o].cursor \in Nat
    BY <1>1, <1>5, <1>6 DEF IInv, Grows, Clean, WellPlaced, Shape, IntentType
  <2>2. fillAt(o) \in Nat /\ fillAt(o) < spendAt(o) /\ placeAt(o) < spendAt(o)
    BY DEF fillAt, placeAt, spendAt
  <2>3. BrokerDone(o) /\ reservation[o] # "RELEASED"
    BY <2>1, <2>2 DEF Clean, Traded, Taken, HoldKnown, IsRunning, spendAt, fillAt
  <2>4. CASE ADVANCE(o, {})
    <3>1. MovesTo(o, intent[o], At("save", {}))
      BY <1>1, <2>4, AdvanceMoves
    <3>2. reservation'[o] # "RELEASED"
      BY <1>4, <2>3
    <3>3. spent.interrupts = 0 => reservation'[o] # "HELD"
      BY <1>1, <1>2, <1>4, <2>1, <2>4 DEF Clean, HoldKnown, UNWIND, Stop, ADVANCE, Shape
    <3> QED
      BY <1>1, <1>5, <2>1, <2>2, <2>3, <3>1, <3>2, <3>3, TakenClean DEF spendAt, fillAt
  <2>5. CASE /\ UNWIND(o) /\ reservation' = reservation /\ Knows(o, "reservationId")
             /\ reservation[o] \notin {"HELD", "CONSUMED"}
    BY <1>1, <1>5, <2>1, <2>3, <2>5, UnwindClean DEF BrokerDone
  <2> QED
    BY <1>2, <2>4, <2>5
<1> QED
  BY <1>5, <1>6, StepOf

-----------------------------------------------------------------------------
(* Saving, interruptions, recovery and unwinding.                          *)

LEMMA SaveKeeps ==
  ASSUME IInv, NEW o \in Orders, save(o)
  PROVE  IInv'
<1>1. /\ UNCHANGED <<order, broker, reservation, spent>> /\ Shape
      /\ intent[o].state = "RUNNING" /\ worker[o].at = "save"
      /\ worker' = [worker EXCEPT ![o] = Idle]
  BY DEF save, worldVars, storeVars, IInv
<1>2. intent[o] \in IntentType /\ worker[o] \in WorkerType
  BY <1>1 DEF Shape
<1> DEFINE next == intent[o].cursor + 1
           i == [state  |-> IF next = Length(o) THEN "COMPLETED" ELSE "RUNNING",
                 cursor |-> next,
                 facts  |-> intent[o].facts \cup worker[o].found]
<1>3. intent' = [intent EXCEPT ![o] = i]
  BY SagaLength DEF save
<1>4. i \in IntentType
  BY <1>2 DEF IntentType, WorkerType, States
<1>5. /\ i.cursor = intent[o].cursor + 1
      /\ i.facts = intent[o].facts \cup worker[o].found
      /\ i.state \in {"COMPLETED", "RUNNING"}
      /\ i.state = "COMPLETED" => intent[o].cursor + 1 = Length(o)
      /\ i.state = "RUNNING" => intent[o].cursor + 1 # Length(o)
      /\ intent[o].cursor \in Nat
  BY <1>2 DEF IntentType
<1> HIDE DEF i
<1>6. MovesTo(o, i, Idle)
  BY <1>1, <1>3, <1>4, IdleTyped DEF MovesTo, Shape
<1>7. Shape' /\ Only(o) /\ Grows
  BY <1>1, <1>6, ShapeKept
<1>8. ASSUME spent'.operator = 0
      PROVE  Clean(o)'
  <2>1. Clean(o)
    BY <1>7, <1>8 DEF IInv, Grows
  <2>2. intent'[o] = i /\ worker'[o].at = "start"
    BY <1>6, IdleTyped DEF MovesTo
  <2>3. /\ Length(o) \in Nat /\ placeAt(o) \in Nat /\ fillAt(o) \in Nat
        /\ spendAt(o) \in Nat /\ spendAt(o) < Length(o)
    BY DEF Length, placeAt, fillAt, spendAt
  <2>4. WellPlaced(o)'
    BY <1>1, <1>5, <2>1, <2>2, <2>3 DEF Clean, WellPlaced, IsRunning, Length
  <2>5. Traded(o)'
    BY <1>1, <1>5, <2>1, <2>2, <2>3 DEF Clean, Traded, Taken, BrokerDone, placeAt, fillAt
  <2>6. GivenUp(o)'
    BY <1>5, <2>2 DEF GivenUp
  <2>7. HoldKnown(o)'
    BY <1>1, <1>5, <2>1, <2>2, <2>3
       DEF Clean, HoldKnown, Knows, Taken, spendAt
  <2> QED
    BY <2>4, <2>5, <2>6, <2>7 DEF Clean
<1> QED
  BY <1>7, <1>8, StepOf

LEMMA CompleteKeeps ==
  ASSUME IInv, NEW o \in Orders, complete(o)
  PROVE  IInv'
<1>1. /\ UNCHANGED <<order, broker, reservation, spent>> /\ Shape
      /\ Stop(o, "COMPLETED") /\ intent[o].state = "RUNNING"
      /\ ~(intent[o].cursor < Length(o))
  BY SagaLength DEF complete, Driven, worldVars, storeVars, IInv
<1>2. Shape' /\ Only(o) /\ Grows
  BY <1>1, StopMoves, ShapeKept DEF States
<1>3. spent'.operator # 0
  BY <1>1 DEF IInv, Clean, WellPlaced, IsRunning
<1> QED
  BY <1>2, <1>3, StepOf

LEMMA IngestKeeps ==
  ASSUME IInv, NEW o \in Orders, ingest(o)
  PROVE  IInv'
<1>1. /\ UNCHANGED <<order, broker, reservation, spent, worker>> /\ Shape
      /\ intent[o].state = "None" /\ intent' = [intent EXCEPT ![o].state = "RUNNING"]
  BY DEF ingest, worldVars, IInv
<1>2. intent[o] \in IntentType
  BY <1>1 DEF Shape
<1> DEFINE i == [intent[o] EXCEPT !.state = "RUNNING"]
<1>3. /\ i \in IntentType /\ i.state = "RUNNING" /\ i.cursor = intent[o].cursor
      /\ i.facts = intent[o].facts /\ i.cursor \in Nat
  BY <1>2 DEF IntentType, States
<1>4. intent' = [intent EXCEPT ![o] = i]
  BY <1>1
<1> HIDE DEF i
<1>5. MovesTo(o, i, worker[o])
  BY <1>1, <1>3, <1>4 DEF MovesTo, Shape
<1>6. Shape' /\ Only(o) /\ Grows
  BY <1>1, <1>5, ShapeKept
<1>7. ASSUME spent'.operator = 0
      PROVE  Clean(o)'
  <2>1. Clean(o)
    BY <1>6, <1>7 DEF IInv, Grows
  <2>2. intent'[o] = i /\ worker'[o] = worker[o]
    BY <1>5 DEF MovesTo
  <2>3. WellPlaced(o)'
    BY <1>1, <1>3, <2>1, <2>2 DEF Clean, WellPlaced, IsRunning, Length
  <2>4. Traded(o)'
    BY <1>1, <1>3, <2>1, <2>2 DEF Clean, Traded, Taken, BrokerDone
  <2>5. GivenUp(o)'
    BY <1>3, <2>2 DEF GivenUp
  <2>6. HoldKnown(o)'
    BY <1>1, <1>3, <2>1, <2>2 DEF Clean, HoldKnown
  <2> QED
    BY <2>3, <2>4, <2>5, <2>6 DEF Clean
<1> QED
  BY <1>6, <1>7, StepOf

\* What an interruption uses up.
LEMMA Interrupted ==
  ASSUME Shape, spent' = [spent EXCEPT !.interrupts = @ + 1]
  PROVE  /\ spent' \in [interrupts : Nat, operator : Nat]
         /\ spent'.interrupts > 0 /\ spent'.operator = spent.operator /\ Grows
<1>1. spent.interrupts + 1 \in Nat /\ spent.interrupts + 1 > 0
  BY DEF Shape
<1>2. /\ spent' \in [interrupts : Nat, operator : Nat]
      /\ spent'.interrupts = spent.interrupts + 1 /\ spent'.operator = spent.operator
  BY <1>1 DEF Shape
<1> QED
  BY <1>1, <1>2 DEF Grows

LEMMA InterruptKeeps ==
  ASSUME IInv, NEW o \in Orders, interrupt(o)
  PROVE  IInv'
<1>1. /\ UNCHANGED <<order, broker, reservation, intent>> /\ Shape
      /\ intent[o].state = "RUNNING"
      /\ spent' = [spent EXCEPT !.interrupts = @ + 1]
  BY DEF interrupt, Driven, worldVars, storeVars, IInv
<1>2. PICK t \in {[at |-> "lost", found |-> {}], Idle} : worker' = [worker EXCEPT ![o] = t]
  BY DEF interrupt, Driven
<1>3. t \in WorkerType /\ t.at \in {"lost", "start"}
  BY IdleTyped DEF WorkerType, Places
<1>4. /\ worker' \in [Orders -> WorkerType] /\ worker'[o] = t
      /\ \A p \in Orders \ {o} : worker'[p] = worker[p]
  BY <1>1, <1>2, <1>3 DEF Shape
<1>5. /\ spent' \in [interrupts : Nat, operator : Nat]
      /\ spent'.interrupts > 0 /\ Grows
  BY <1>1, Interrupted
<1>6. Shape' /\ Only(o)
  BY <1>1, <1>4, <1>5 DEF Shape, Only
<1>7. ASSUME spent'.operator = 0
      PROVE  Clean(o)'
  <2>1. Clean(o) /\ intent[o].cursor \in Nat
    BY <1>1, <1>5, <1>7 DEF IInv, Grows, Shape, IntentType
  <2>2. WellPlaced(o)'
    BY <1>1, <1>3, <1>4, <1>5, <2>1 DEF Clean, WellPlaced, IsRunning
  <2>3. Traded(o)'
    BY <1>1, <1>3, <1>4, <2>1 DEF Clean, Traded, Taken, BrokerDone
  <2>4. GivenUp(o)'
    BY <1>1 DEF GivenUp
  <2>5. HoldKnown(o)'
    BY <1>1, <1>5, <2>1 DEF Clean, HoldKnown
  <2> QED
    BY <2>2, <2>3, <2>4, <2>5 DEF Clean
<1> QED
  BY <1>5, <1>6, <1>7, StepOf

LEMMA OutageKeeps ==
  ASSUME IInv, NEW o \in Orders, outage(o)
  PROVE  IInv'
<1>1. /\ UNCHANGED <<order, broker, reservation>> /\ Shape /\ MANUAL(o)
      /\ intent[o].state = "RUNNING" /\ worker[o].at = "start"
      /\ spent' = [spent EXCEPT !.interrupts = @ + 1]
  BY DEF outage, Driven, worldVars, storeVars, IInv
<1> QED
  BY <1>1, Interrupted, StopsManual

\* What a resolver may find, and of which step.
LEMMA ResolvedAs ==
  ASSUME NEW o \in Orders
  PROVE  /\ Resolved(o) \in {"book", "rebook", "save", "start", "unwind", "park"}
         /\ Resolved(o) = "save" => NextStep(o) = "place_order"
         /\ Resolved(o) = "unwind" =>
               \/ NextStep(o) = "deploy_escrow"
               \/ broker[o].status = "REJECTED"
BY DEF Resolved, resolveDeployed, resolveFunded, resolvePlaced, resolveCrossed,
       resolveMinted, resolveSettled, resolveRepatriated

LEMMA RecoverKeeps ==
  ASSUME IInv, NEW o \in Orders, recover(o)
  PROVE  IInv'
<1>1. /\ UNCHANGED <<order, broker, reservation, spent>> /\ Shape
      /\ Running(o, NextStep(o), "lost")
      /\ intent[o].state = "RUNNING" /\ worker[o].at = "lost"
  BY DEF recover, worldVars, storeVars, IInv, Running, Driven
<1>2. Grows /\ spent' \in [interrupts : Nat, operator : Nat]
  BY <1>1 DEF Grows, Shape
<1>3. CASE Resolved(o) = "unwind"
  <2>1. UNWIND(o)
    BY <1>3 DEF recover, Driven
  <2> QED
    BY <1>1, <1>3, <2>1, ResolvedAs, GivesUp
<1>4. CASE Resolved(o) = "park"
  <2>1. MANUAL(o)
    BY <1>4 DEF recover, Driven
  <2> QED
    BY <1>1, <1>2, <2>1, StopsManual
<1>5. CASE Resolved(o) \in {"book", "rebook", "save", "start"}
  <2>1. Goto(o, Resolved(o)) /\ Resolved(o) \in Places
    BY <1>5 DEF recover, Driven, Places
  <2>2. MovesTo(o, intent[o], At(Resolved(o), worker[o].found))
    BY <1>1, <2>1, GotoMoves
  <2>3. Shape' /\ Only(o)
    BY <1>1, <2>2, ShapeKept
  <2>4. ASSUME spent'.operator = 0
        PROVE  Clean(o)'
    <3>1. /\ Clean(o) /\ intent[o].cursor \in Nat /\ spent.interrupts > 0
          /\ Resolved(o) = "save" => intent[o].cursor + 1 # fillAt(o)
      <4>1. spent.operator = 0
        BY <1>1, <2>4
      <4>2. Clean(o) /\ intent[o].cursor \in Nat
        BY <1>1, <4>1, RunningAt
      <4>3. spent.interrupts > 0
        BY <1>1, <4>2 DEF Clean, WellPlaced
      <4> QED
        BY <1>1, <4>1, <4>2, <4>3, ResolvedAs, RunningAt
    <3>2. intent'[o] = intent[o] /\ worker'[o].at = Resolved(o)
      BY <2>2 DEF MovesTo, At
    <3>3. WellPlaced(o)'
      BY <1>1, <1>5, <3>1, <3>2 DEF Clean, WellPlaced, IsRunning
    <3>4. Traded(o)'
      BY <1>1, <1>5, <3>1, <3>2 DEF Clean, Traded, Taken, BrokerDone
    <3>5. GivenUp(o)'
      BY <1>1, <3>2 DEF GivenUp
    <3>6. HoldKnown(o)'
      <4>1. spent'.interrupts # 0
        BY <1>1, <3>1 DEF Shape
      <4> QED
        BY <1>1, <3>1, <3>2, <4>1 DEF Clean, HoldKnown
    <3> QED
      BY <3>3, <3>4, <3>5, <3>6 DEF Clean
  <2> QED
    BY <1>2, <2>3, <2>4, StepOf
<1> QED
  BY <1>3, <1>4, <1>5, ResolvedAs

\* Unwinding finds no order at work, as only an operator gives up an intent
\* whose order is.
LEMMA UnwindKeeps ==
  ASSUME IInv, NEW o \in Orders, unwind(o)
  PROVE  IInv'
<1>1. /\ UNCHANGED <<order, broker, reservation, spent>> /\ Shape
      /\ intent[o].state = "UNWINDING" /\ worker[o].at = "start"
  BY DEF unwind, worldVars, storeVars, IInv
<1>2. PICK place \in {"cancel", "release"} :
         /\ Goto(o, place)
         /\ place = "cancel" => broker[o].status = "NEW"
  BY DEF unwind
<1>3. MovesTo(o, intent[o], At(place, worker[o].found))
  BY <1>1, <1>2, GotoMoves DEF Places
<1>4. Shape' /\ Only(o) /\ Grows
  BY <1>1, <1>3, ShapeKept
<1>5. ASSUME spent'.operator = 0
      PROVE  Clean(o)'
  <2>1. Clean(o) /\ intent[o].cursor \in Nat
    BY <1>1, <1>4, <1>5 DEF IInv, Grows, Shape, IntentType
  <2>2. place = "release"
    BY <1>1, <1>2, <2>1 DEF Clean, GivenUp
  <2>3. intent'[o] = intent[o] /\ worker'[o].at = "release"
    BY <1>3, <2>2 DEF MovesTo, At
  <2>4. WellPlaced(o)'
    BY <1>1, <2>1, <2>3 DEF Clean, WellPlaced, IsRunning
  <2>5. Traded(o)'
    BY <1>1, <2>1, <2>3 DEF Clean, Traded, Taken, BrokerDone
  <2>6. GivenUp(o)'
    BY <1>1, <2>1, <2>3 DEF Clean, GivenUp, Excused, Knows, NextStep
  <2>7. HoldKnown(o)'
    BY <1>1, <2>1, <2>3 DEF Clean, HoldKnown, Knows, Taken
  <2> QED
    BY <2>4, <2>5, <2>6, <2>7 DEF Clean
<1> QED
  BY <1>4, <1>5, StepOf

LEMMA CancelKeeps ==
  ASSUME IInv, NEW o \in Orders, cancelOrder(o)
  PROVE  IInv'
<1>1. /\ UNCHANGED <<order, reservation, spent>> /\ Shape /\ worker[o].at = "cancel"
  BY DEF cancelOrder, storeVars, IInv
<1>2. spent.operator # 0
  BY <1>1 DEF IInv, Clean, WellPlaced
<1>3. PICK i, t : MovesTo(o, i, t)
  BY <1>1, StopMoves, GotoMoves DEF cancelOrder, MANUAL, States, Places
<1>4. broker' = broker \/ broker' = [broker EXCEPT ![o].status = "CANCELLED"]
  BY DEF cancelOrder
<1> DEFINE b == [broker[o] EXCEPT !.status = "CANCELLED"]
<1>5. b \in BrokerOrder
  BY <1>1 DEF Shape, BrokerOrder
<1>6. broker' = broker \/ broker' = [broker EXCEPT ![o] = b]
  BY <1>4
<1> HIDE DEF b
<1>7. broker' \in [Orders -> BrokerOrder]
  BY <1>1, <1>5, <1>6 DEF Shape
<1>8. Shape'
  BY <1>1, <1>3, <1>7 DEF Shape, MovesTo
<1> QED
  BY <1>1, <1>2, <1>8 DEF IInv

\* A hold is released with its intent's end; one that expired stops for a human.
LEMMA ReleaseKeeps ==
  ASSUME IInv, NEW o \in Orders, release(o)
  PROVE  IInv'
<1>1. /\ UNCHANGED <<order, broker, spent>> /\ Shape /\ worker[o].at = "release"
  BY DEF release, worldVars, IInv
<1>2. \/ /\ reservation' = reservation
         /\ Stop(o, "CANCELLED")
         /\ ~Knows(o, "reservationId")
      \/ /\ reservation' = [reservation EXCEPT ![o] = "RELEASED"]
         /\ Stop(o, "CANCELLED")
         /\ reservation[o] \in {"HELD", "RELEASED"}
      \/ /\ reservation' = reservation
         /\ Stop(o, "NEEDS_MANUAL")
  BY DEF release, MANUAL
<1>3. PICK state \in {"CANCELLED", "NEEDS_MANUAL"} : Stop(o, state)
  BY <1>2
<1>4. /\ MovesTo(o, [intent[o] EXCEPT !.state = state], Idle)
      /\ intent'[o].state = state /\ intent'[o].cursor = intent[o].cursor
      /\ intent'[o].facts = intent[o].facts
  BY <1>1, <1>3, StopMoves DEF States
<1>5. worker'[o].at = "start"
  BY <1>4, IdleTyped DEF MovesTo
<1>6. /\ reservation' \in [Orders -> Reservations]
      /\ \A p \in Orders \ {o} : reservation'[p] = reservation[p]
      /\ \/ reservation' = reservation /\ state = "NEEDS_MANUAL"
         \/ /\ state = "CANCELLED" /\ reservation' = reservation
            /\ ~Knows(o, "reservationId")
         \/ /\ state = "CANCELLED" /\ reservation'[o] = "RELEASED"
            /\ reservation[o] \in {"HELD", "RELEASED"}
  <2>1. /\ Stop(o, "CANCELLED") => intent'[o].state = "CANCELLED"
        /\ Stop(o, "NEEDS_MANUAL") => intent'[o].state = "NEEDS_MANUAL"
    BY <1>1, StopMoves DEF States
  <2> QED
    BY <1>1, <1>2, <1>4, <2>1 DEF Shape, Reservations
<1>7. Shape' /\ Only(o) /\ Grows
  BY <1>1, <1>4, <1>6, ShapeOf DEF Shape
<1>8. ASSUME spent'.operator = 0
      PROVE  Clean(o)'
  <2>1. /\ Clean(o) /\ intent[o].cursor \in Nat /\ intent[o].state = "UNWINDING"
    BY <1>1, <1>7, <1>8 DEF IInv, Grows, Shape, IntentType, Clean, WellPlaced
  <2>2. WellPlaced(o)'
    BY <1>4, <1>5, <2>1 DEF WellPlaced, IsRunning
  <2>3. Traded(o)'
    BY <1>1, <1>4, <1>5, <2>1 DEF Clean, Traded, Taken, BrokerDone
  <2>4. GivenUp(o)'
    BY <1>1, <1>4, <1>6, <2>1 DEF Clean, GivenUp, Excused, Knows, NextStep
  <2>5. HoldKnown(o)'
    BY <1>1, <1>4, <1>5, <1>6, <2>1 DEF Clean, HoldKnown, Knows, Taken
  <2> QED
    BY <2>2, <2>3, <2>4, <2>5 DEF Clean
<1> QED
  BY <1>7, <1>8, StepOf

LEMMA OperatorKeeps ==
  ASSUME IInv, NEW o \in Orders, operatorResume(o) \/ operatorUnwind(o)
  PROVE  IInv'
<1>1. /\ UNCHANGED <<order, broker, reservation>> /\ Shape
      /\ spent' = [spent EXCEPT !.operator = @ + 1]
  BY DEF operatorResume, operatorUnwind, OperatorCall, worldVars, storeVars, IInv
<1>2. PICK i, t : MovesTo(o, i, t)
  BY <1>1, StopMoves DEF operatorResume, operatorUnwind, UNWIND, States
<1>3. spent.operator + 1 \in Nat /\ spent.operator + 1 # 0
  BY <1>1 DEF Shape
<1>4. spent' \in [interrupts : Nat, operator : Nat] /\ spent'.operator # 0
  BY <1>1, <1>3 DEF Shape
<1>5. Shape'
  BY <1>1, <1>2, <1>4 DEF Shape, MovesTo
<1> QED
  BY <1>4, <1>5 DEF IInv

-----------------------------------------------------------------------------
(* What is none of an intent's, and the world.                             *)

\* What the steps that are none of an intent's leave alone.
LEMMA BesideKeeps ==
  ASSUME IInv, UNCHANGED <<order, broker, reservation, intent, worker, spent>>
  PROVE  IInv'
<1>1. Grows /\ spent' \in [interrupts : Nat, operator : Nat]
  BY DEF IInv, Shape, Grows
<1> QED
  BY <1>1, Aside

LEMMA BookingLostKeeps ==
  ASSUME IInv, NEW o \in Buys, bookingLost(o)
  PROVE  IInv'
<1>1. /\ UNCHANGED <<order, broker, reservation, intent, worker>>
      /\ spent' = [spent EXCEPT !.interrupts = @ + 1]
  BY DEF bookingLost, worldVars
<1>2. Grows /\ spent' \in [interrupts : Nat, operator : Nat]
  BY <1>1, Interrupted DEF IInv
<1> QED
  BY <1>1, <1>2, Aside

LEMMA ResolveBreakKeeps ==
  ASSUME IInv, resolveBreak
  PROVE  IInv'
<1>1. /\ UNCHANGED <<order, broker, reservation, intent, worker>> /\ Shape
      /\ spent' = [spent EXCEPT !.operator = @ + 1]
  BY DEF resolveBreak, OperatorCall, worldVars, IInv
<1>2. spent.operator + 1 \in Nat /\ spent.operator + 1 # 0
  BY <1>1 DEF Shape
<1>3. /\ spent' \in [interrupts : Nat, operator : Nat] /\ spent'.operator # 0
      /\ spent'.interrupts = spent.interrupts
  BY <1>1, <1>2 DEF Shape
<1>4. Grows
  BY <1>3 DEF Grows
<1> QED
  BY <1>1, <1>3, <1>4, Aside

LEMMA SweepKeeps ==
  ASSUME IInv, NEW o \in Orders, sweepExpired(o)
  PROVE  IInv'
<1>1. /\ UNCHANGED <<order, broker, intent, worker, spent>> /\ Shape
      /\ reservation' = [reservation EXCEPT ![o] = "EXPIRED"]
  BY DEF sweepExpired, worldVars, IInv
<1>2. /\ reservation' \in [Orders -> Reservations] /\ reservation'[o] = "EXPIRED"
      /\ \A p \in Orders \ {o} : reservation'[p] = reservation[p]
  BY <1>1 DEF Shape, Reservations
<1> QED
  BY <1>1, <1>2, WorldStep DEF Shape

LEMMA TraderKeeps ==
  ASSUME IInv, NEW o \in Orders, traderCancels(o)
  PROVE  IInv'
<1>1. /\ UNCHANGED <<broker, reservation, intent, worker, spent>> /\ Shape
      /\ order' = [order EXCEPT ![o] = "CANCELLED"]
  BY DEF traderCancels, storeVars, IInv
<1>2. /\ order' \in [Orders -> OrderStates] /\ order'[o] = "CANCELLED"
      /\ \A p \in Orders \ {o} : order'[p] = order[p]
  BY <1>1 DEF Shape, OrderStates
<1> QED
  BY <1>1, <1>2, WorldStep DEF Shape

LEMMA PlannedNat ==
  ASSUME NEW o \in Orders
  PROVE  planned(o) \in Nat
<1>1. Shares[o] \in Nat
  BY DeskAssumption
<1>2. CASE o \in Buys
  <2>1. Escrow[o] \in Nat
    BY <1>2, DeskAssumption
  <2>2. \E x \in {Shares[o], Escrow[o]} : \A y \in {Shares[o], Escrow[o]} : x <= y
    BY <1>1, <2>1
  <2>3. Min({Shares[o], Escrow[o]}) \in {Shares[o], Escrow[o]}
    BY <2>2 DEF Min
  <2> QED
    BY <1>1, <1>2, <2>1, <2>3 DEF planned
<1>3. CASE o \notin Buys
  BY <1>1, <1>3 DEF planned
<1> QED
  BY <1>2, <1>3

\* An order at the broker that is changed to b.
LEMMA BrokerKeeps ==
  ASSUME IInv, NEW o \in Orders, NEW b \in BrokerOrder,
         broker[o].status \in {"NEW", "PARTIALLY_FILLED"},
         b.status \in {"PARTIALLY_FILLED", "FILLED", "EXPIRED"},
         broker' = [broker EXCEPT ![o] = b],
         UNCHANGED <<order, reservation, intent, worker, spent>>
  PROVE  IInv'
<1>1. /\ broker' \in [Orders -> BrokerOrder] /\ broker'[o] = b
      /\ \A p \in Orders \ {o} : broker'[p] = broker[p]
  BY DEF IInv, Shape
<1> QED
  BY <1>1, WorldStep DEF IInv, Shape

LEMMA FillsKeep ==
  ASSUME IInv, NEW o \in Orders, brokerFills(o)
  PROVE  IInv'
<1>1. /\ UNCHANGED <<order, reservation, intent, worker, spent>>
      /\ broker[o] \in BrokerOrder
      /\ broker[o].status \in {"NEW", "PARTIALLY_FILLED"}
  BY DEF brokerFills, storeVars, IInv, Shape
<1>2. planned(o) \in Nat /\ broker[o].filled \in Nat
  BY <1>1, PlannedNat DEF BrokerOrder
<1>3. PICK n \in 1 .. (planned(o) - filledQuantity(o)), fair \in {TRUE, ~scenario.faults} :
         broker' = [broker EXCEPT ![o] =
               [status |-> IF @.filled + n = planned(o) THEN "FILLED"
                                                        ELSE "PARTIALLY_FILLED",
                filled |-> @.filled + n,
                fair   |-> @.fair /\ fair]]
  BY DEF brokerFills
<1> DEFINE b == [status |-> IF broker[o].filled + n = planned(o) THEN "FILLED"
                                                                ELSE "PARTIALLY_FILLED",
                 filled |-> broker[o].filled + n,
                 fair   |-> broker[o].fair /\ fair]
<1>4. broker[o].filled + n \in Nat
  BY <1>2 DEF filledQuantity
<1>5. (broker[o].fair /\ fair) \in BOOLEAN
  OBVIOUS
<1>6. b \in BrokerOrder /\ b.status \in {"PARTIALLY_FILLED", "FILLED", "EXPIRED"}
  BY <1>4, <1>5 DEF BrokerOrder
<1>7. broker' = [broker EXCEPT ![o] = b]
  BY <1>3
<1> HIDE DEF b
<1> QED
  BY <1>1, <1>6, <1>7, BrokerKeeps

LEMMA ExpiresKeeps ==
  ASSUME IInv, NEW o \in Orders, brokerExpires(o)
  PROVE  IInv'
<1>1. /\ UNCHANGED <<order, reservation, intent, worker, spent>>
      /\ broker[o] \in BrokerOrder
      /\ broker[o].status \in {"NEW", "PARTIALLY_FILLED"}
      /\ broker' = [broker EXCEPT ![o].status = "EXPIRED"]
  BY DEF brokerExpires, storeVars, IInv, Shape
<1> DEFINE b == [broker[o] EXCEPT !.status = "EXPIRED"]
<1>2. b \in BrokerOrder /\ b.status = "EXPIRED"
  BY <1>1 DEF BrokerOrder
<1>3. broker' = [broker EXCEPT ![o] = b]
  BY <1>1
<1> HIDE DEF b
<1> QED
  BY <1>1, <1>2, <1>3, BrokerKeeps

-----------------------------------------------------------------------------
(* Every step keeps the invariant.                                         *)

LEMMA DriveKeeps ==
  ASSUME IInv, NEW o \in Orders, Drive(o)
  PROVE  IInv'
BY SaveKeeps, CompleteKeeps, ChooseKeeps, ReserveKeeps, HoldKeeps, ConsumeKeeps,
   ScreenKeeps, ValidateKeeps, PlaceKeeps, FillKeeps, RecoverKeeps, UnwindKeeps,
   CancelKeeps, ReleaseKeeps DEF Drive

LEMMA BuyKeeps ==
  ASSUME IInv, NEW b \in Buys, Buy(b)
  PROVE  IInv'
<1>1. b \in Orders
  BY DEF Orders
<1>2. CASE startConversion(b)
  BY <1>2, BesideKeeps DEF startConversion, storeVars
<1> QED
  BY <1>1, <1>2, DeployKeeps, BookDeployedKeeps, FundKeeps, CrossingKeeps, PayoutKeeps,
     CustodyKeeps, AttestKeeps, ConfirmKeeps, BookMintedKeeps DEF Buy

LEMMA SellKeeps ==
  ASSUME IInv, NEW s \in Sells, Sell(s)
  PROVE  IInv'
<1>1. s \in Orders
  BY DEF Orders
<1> QED
  BY <1>1, CustodyReleaseKeeps, SettleKeeps, BookSettledKeeps, RepatriateKeeps,
     CreateKeeps DEF Sell

LEMMA WorldKeeps ==
  ASSUME IInv, NEW o \in Orders, World(o)
  PROVE  IInv'
<1>1. CASE msbConverts(o)
  BY <1>1, BesideKeeps DEF msbConverts, storeVars
<1>2. CASE custodianSettles(o)
  BY <1>2, BesideKeeps DEF custodianSettles, storeVars
<1> QED
  BY <1>1, <1>2, TraderKeeps, FillsKeep, ExpiresKeeps DEF World

LEMMA ActKeeps ==
  ASSUME IInv, Act
  PROVE  IInv'
<1>1. ASSUME NEW b \in Buys, bookEscrow(b) \/ msbPays(b)
      PROVE  IInv'
  BY <1>1, BesideKeeps DEF bookEscrow, msbPays, worldVars, storeVars
<1>2. CASE checkPositions
  BY <1>2, BesideKeeps DEF checkPositions, worldVars
<1> QED
  BY <1>1, <1>2, IngestKeeps, DriveKeeps, InterruptKeeps, OutageKeeps, SweepKeeps,
     OperatorKeeps, WorldKeeps, BuyKeeps, BookingLostKeeps, SellKeeps,
     ResolveBreakKeeps DEF Act

LEMMA InitHolds == Init => IInv
<1> SUFFICES ASSUME Init
             PROVE  IInv
  OBVIOUS
<1>1. /\ order \in [Orders -> OrderStates]
      /\ reservation \in [Orders -> Reservations]
      /\ spent \in [interrupts : Nat, operator : Nat]
  BY DEF Init, OrderStates, Reservations
<1>2. broker \in [Orders -> BrokerOrder]
  BY DEF Init, BrokerOrder
<1>3. intent \in [Orders -> IntentType] /\ worker \in [Orders -> WorkerType]
  BY IdleTyped DEF Init, IntentType, States
<1>4. ASSUME NEW o \in Orders
      PROVE  Clean(o)
  <2>1. /\ intent[o].state = "None" /\ intent[o].cursor = 0
        /\ worker[o].at = "start" /\ reservation[o] = "None"
        /\ broker[o].status = "None" /\ broker[o].filled = 0
    BY IdleTyped DEF Init
  <2> QED
    BY <2>1 DEF Clean, WellPlaced, Traded, GivenUp, HoldKnown, IsRunning, Taken, fillAt
<1> QED
  BY <1>1, <1>2, <1>3, <1>4 DEF IInv, Shape

LEMMA Invariant == Spec => []IInv
<1>1. IInv /\ [Next]_vars => IInv'
  <2>1. ASSUME IInv, UNCHANGED vars
        PROVE  IInv'
    BY <2>1, BesideKeeps DEF vars, worldVars, storeVars
  <2> QED
    BY <2>1, ActKeeps DEF Next
<1> QED
  BY <1>1, InitHolds, PTL DEF Spec

-----------------------------------------------------------------------------
LEMMA HoldsFollow == IInv => HoldsEndWithIntents
BY DEF IInv, Clean, HoldKnown, HoldsEndWithIntents

\* The working balance held for an intent is spent or let go by the time the
\* intent ends, for any orders and amounts, as long as neither an interruption
\* nor an operator broke into it (the consume of settle_crossing and of
\* settle_onchain, the compensation of the reservation).
THEOREM HoldsEnd == Spec => []HoldsEndWithIntents
BY HoldsFollow, Invariant, PTL

LEMMA FillsFollow == IInv => FilledNeverDropped
<1> SUFFICES ASSUME IInv, spent.operator = 0, NEW o \in Orders,
                    intent[o].state = "CANCELLED", filledQuantity(o) > 0
             PROVE  Excused(o)
  BY DEF FilledNeverDropped, Excused, IInv, Shape
<1> QED
  BY DEF IInv, Clean, GivenUp, filledQuantity

\* A trade that was made is not dropped, whatever fails or is interrupted, in
\* whatever order: only an operator, or a sale that its trader took back or that
\* lost the race for the float, cancels an intent whose order was filled
\* (await_fill, consume, the compensations of place_order and the reservation).
THEOREM FilledKept == Spec => []FilledNeverDropped
BY FillsFollow, Invariant, PTL

-----------------------------------------------------------------------------
(* The shares behind the tokens.  What was filled does not exceed what was *)
(* ordered, and a purchase is minted after its trade has settled, whatever *)
(* the operator and the interruptions do (Backed).                         *)

Typed ==
    /\ buyingPower \in Int
    /\ conversion \in [Orders -> Operations]
    /\ payout \in [Buys -> Operations]
    /\ settlement \in [Orders -> Operations]
    /\ unbooked \in SUBSET Buys
    /\ ledger \in [Accounts -> Int]
    /\ broken \in BOOLEAN
    /\ scenario \in Scenarios

Backed(o) ==
    /\ broker[o].filled <= planned(o)
    /\ o \in Buys =>
          /\ worker[o].at = "consume" => intent[o].cursor = 7
          /\ Taken(o, 9) => settlement[o] = "SETTLED"
          /\ order[o] = "FILLED" => settlement[o] = "SETTLED"

AllBacked == \A o \in Orders : Backed(o)

\* A step about one order, which takes no settlement back.
About(o) ==
    /\ settlement' = settlement
    /\ \A p \in Orders \ {o} :
          /\ order'[p] = order[p] /\ broker'[p] = broker[p]
          /\ intent'[p] = intent[p] /\ worker'[p] = worker[p]

LEMMA AboutOne ==
  ASSUME AllBacked, NEW o \in Orders, About(o), Backed(o)'
  PROVE  AllBacked'
<1> SUFFICES ASSUME NEW p \in Orders \ {o}
             PROVE  Backed(p)'
  BY DEF AllBacked
<1>1. planned(p)' = planned(p)
  BY DEF planned
<1> QED
  BY <1>1 DEF AllBacked, About, Backed, Taken

\* What a running step may do with the intent, the worker and the order.
GoesOn(o, step) ==
    /\ \/ UNCHANGED <<intent, worker>>
       \/ \E found \in SUBSET Facts :
             ADVANCE(o, found) /\ (step = "await_custody" => settlement[o] = "SETTLED")
       \/ \E place \in Places \ {"save"} :
             Goto(o, place) /\ (place = "consume" =>
                                  step \in {"settle_crossing", "settle_onchain"})
       \/ \E state \in States : Stop(o, state)
    /\ \/ order' = order
       \/ \E x \in OrderStates : /\ order' = [order EXCEPT ![o] = x]
                                 /\ x = "FILLED" => step = "attest_and_mint"
    /\ \/ broker' = broker
       \/ \E x : broker' = [broker EXCEPT ![o].status = x]

LEMMA RunsBacked ==
  ASSUME Shape, AllBacked, NEW o \in Orders, NEW step, NEW place,
         Running(o, step, place), place \notin {"save", "consume"}, GoesOn(o, step),
         UNCHANGED settlement
  PROVE  AllBacked'
<1>1. /\ intent[o] \in IntentType /\ worker[o] \in WorkerType /\ broker[o] \in BrokerOrder
      /\ worker[o].at = place /\ NextStep(o) = step
      /\ intent[o].cursor \in Nat /\ intent[o].cursor < Length(o)
  BY SagaLength DEF Shape, Running, Driven, IntentType
<1>2. PICK i, t : /\ MovesTo(o, i, t) /\ i.cursor = intent[o].cursor
                  /\ t.at = "save" => (step = "await_custody" => settlement[o] = "SETTLED")
                  /\ t.at = "consume" => step \in {"settle_crossing", "settle_onchain"}
  <2>1. CASE UNCHANGED <<intent, worker>>
    <3>1. MovesTo(o, intent[o], worker[o])
      BY <2>1 DEF MovesTo, Shape
    <3> QED
      BY <1>1, <3>1
  <2>2. ASSUME NEW found \in SUBSET Facts, ADVANCE(o, found),
               step = "await_custody" => settlement[o] = "SETTLED"
        PROVE  \E i, t : /\ MovesTo(o, i, t) /\ i.cursor = intent[o].cursor
                         /\ t.at = "save" => (step = "await_custody"
                                                => settlement[o] = "SETTLED")
                         /\ t.at = "consume" => step \in {"settle_crossing", "settle_onchain"}
    <3>1. MovesTo(o, intent[o], At("save", found)) /\ At("save", found).at = "save"
      BY <2>2, AdvanceMoves DEF At
    <3> QED
      BY <2>2, <3>1
  <2>3. ASSUME NEW there \in Places \ {"save"}, Goto(o, there),
               there = "consume" => step \in {"settle_crossing", "settle_onchain"}
        PROVE  \E i, t : /\ MovesTo(o, i, t) /\ i.cursor = intent[o].cursor
                         /\ t.at = "save" => (step = "await_custody"
                                                => settlement[o] = "SETTLED")
                         /\ t.at = "consume" => step \in {"settle_crossing", "settle_onchain"}
    <3>1. /\ MovesTo(o, intent[o], At(there, worker[o].found))
          /\ At(there, worker[o].found).at = there
      BY <2>3, GotoMoves DEF At
    <3> QED
      BY <2>3, <3>1
  <2>4. ASSUME NEW state \in States, Stop(o, state)
        PROVE  \E i, t : /\ MovesTo(o, i, t) /\ i.cursor = intent[o].cursor
                         /\ t.at = "save" => (step = "await_custody"
                                                => settlement[o] = "SETTLED")
                         /\ t.at = "consume" => step \in {"settle_crossing", "settle_onchain"}
    <3>1. MovesTo(o, [intent[o] EXCEPT !.state = state], Idle)
      BY <2>4, StopMoves
    <3>2. [intent[o] EXCEPT !.state = state].cursor = intent[o].cursor
      BY <1>1 DEF IntentType
    <3> QED
      BY <3>1, <3>2, IdleTyped
  <2> QED
    BY <2>1, <2>2, <2>3, <2>4 DEF GoesOn
<1>3. /\ broker'[o].filled = broker[o].filled
      /\ \A p \in Orders \ {o} : broker'[p] = broker[p]
  <2>1. CASE broker' = broker
    BY <2>1
  <2>2. ASSUME NEW x, broker' = [broker EXCEPT ![o].status = x]
        PROVE  /\ broker'[o].filled = broker[o].filled
               /\ \A p \in Orders \ {o} : broker'[p] = broker[p]
    <3>1. broker'[o] = [broker[o] EXCEPT !.status = x]
      BY <2>2 DEF Shape
    <3>2. broker'[o].filled = broker[o].filled
      BY <1>1, <3>1 DEF BrokerOrder
    <3> QED
      BY <2>2, <3>2 DEF Shape
  <2> QED
    BY <2>1, <2>2 DEF GoesOn
<1>4. /\ order'[o] = "FILLED" => order[o] = "FILLED" \/ step = "attest_and_mint"
      /\ \A p \in Orders \ {o} : order'[p] = order[p]
  BY DEF GoesOn, Shape
<1>5. About(o)
  BY <1>2, <1>3, <1>4 DEF About, MovesTo
<1>6. o \in Buys => /\ step = "settle_crossing" => intent[o].cursor = 7
                    /\ step = "attest_and_mint" => intent[o].cursor = 9
                    /\ intent[o].cursor = 8 => step = "await_custody"
                    /\ step # "settle_onchain"
  BY <1>1, StepAt
<1>7. planned(o)' = planned(o)
  BY DEF planned
<1>8. ASSUME o \in Buys
      PROVE  /\ worker'[o].at = "consume" => intent'[o].cursor = 7
             /\ Taken(o, 9)' => settlement'[o] = "SETTLED"
             /\ order'[o] = "FILLED" => settlement'[o] = "SETTLED"
  <2>1. /\ intent'[o].cursor = intent[o].cursor /\ worker'[o] = t
        /\ Taken(o, 9) => settlement[o] = "SETTLED"
        /\ order[o] = "FILLED" => settlement[o] = "SETTLED"
    BY <1>2, <1>8 DEF MovesTo, AllBacked, Backed
  <2> QED
    BY <1>1, <1>2, <1>4, <1>6, <1>8, <2>1 DEF Taken
<1>9. Backed(o)'
  BY <1>3, <1>7, <1>8 DEF AllBacked, Backed
<1> QED
  BY <1>5, <1>9, AboutOne

\* What is posted are whole amounts.
LEMMA PostTyped ==
  ASSUME Typed, NEW entry, post(entry), \A a \in DOMAIN entry : entry[a] \in Int
  PROVE  ledger' \in [Accounts -> Int]
<1>1. DOMAIN ledger = Accounts /\ \A a \in Accounts : ledger[a] \in Int
  BY DEF Typed
<1>2. ledger' = [a \in Accounts |-> ledger[a] + (IF a \in DOMAIN entry THEN entry[a] ELSE 0)]
  BY <1>1 DEF post, Posted
<1>3. ASSUME NEW a \in Accounts
      PROVE  ledger[a] + (IF a \in DOMAIN entry THEN entry[a] ELSE 0) \in Int
  <2>1. CASE a \in DOMAIN entry
    <3>1. ledger[a] \in Int /\ entry[a] \in Int
      BY <1>1, <2>1
    <3> QED
      BY <2>1, <3>1
  <2>2. CASE a \notin DOMAIN entry
    BY <1>1, <2>2
  <2> QED
    BY <2>1, <2>2
<1> HIDE DEF Accounts
<1> QED
  BY <1>2, <1>3

LEMMA BuyPosted ==
  ASSUME Typed, NEW q \in Int, NEW r \in Int,
         \/ post(buyEscrowed(q)) \/ post(buyDeployed(q)) \/ post(buyFilled(q))
         \/ post(custodySettled(q)) \/ post(buyMinted(q, r))
  PROVE  ledger' \in [Accounts -> Int]
<1>1. CASE post(buyEscrowed(q))
  BY <1>1, PostTyped DEF buyEscrowed
<1>2. CASE post(buyDeployed(q))
  BY <1>2, PostTyped DEF buyDeployed
<1>3. CASE post(buyFilled(q))
  BY <1>3, PostTyped DEF buyFilled
<1>4. CASE post(custodySettled(q))
  BY <1>4, PostTyped DEF custodySettled
<1>5. CASE post(buyMinted(q, r))
  BY <1>5, PostTyped DEF buyMinted
<1> QED
  BY <1>1, <1>2, <1>3, <1>4, <1>5

LEMMA SellPosted ==
  ASSUME Typed, NEW q \in Int, NEW r \in Int,
         \/ post(sellFilled(q)) \/ post(sellSettled(q, r)) \/ post(sentToMsb(q))
         \/ post(convertedToUSDC(q)) \/ post(convertedToHKD(q)) \/ post(brokerFunded(q))
  PROVE  ledger' \in [Accounts -> Int]
<1>1. CASE post(sellFilled(q))
  BY <1>1, PostTyped DEF sellFilled
<1>2. CASE post(sellSettled(q, r))
  BY <1>2, PostTyped DEF sellSettled
<1>3. CASE post(sentToMsb(q))
  BY <1>3, PostTyped DEF sentToMsb
<1>4. CASE post(convertedToUSDC(q))
  BY <1>4, PostTyped DEF convertedToUSDC
<1>5. CASE post(convertedToHKD(q))
  BY <1>5, PostTyped DEF convertedToHKD
<1>6. CASE post(brokerFunded(q))
  BY <1>6, PostTyped DEF brokerFunded
<1> QED
  BY <1>1, <1>2, <1>3, <1>4, <1>5, <1>6

LEMMA Amounts ==
  ASSUME Shape, NEW o \in Orders
  PROVE  filledQuantity(o) \in Int /\ (o \in Buys => Escrow[o] \in Int)
BY DeskAssumption DEF Shape, BrokerOrder, filledQuantity

\* Every step that runs under the cursor.
LEMMA SharedStepsBacked ==
  ASSUME Shape, Typed, AllBacked, UNCHANGED scenario, NEW o \in Orders,
         \/ chooseFunding(o) \/ reserve(o) \/ hold(o) \/ screen(o)
         \/ validate_order(o) \/ place_order(o) \/ await_fill(o)
  PROVE  Typed' /\ AllBacked'
<1>1. CASE chooseFunding(o)
  <2>1. /\ GoesOn(o, ReserveStep(o)) /\ Running(o, ReserveStep(o), "start")
    BY <1>1 DEF chooseFunding, GoesOn, Facts, Places, ReserveStep, UNWIND, States, worldVars
  <2> QED
    BY <1>1, <2>1, RunsBacked DEF chooseFunding, worldVars, storeVars, Typed
<1>2. CASE reserve(o)
  <2>1. /\ GoesOn(o, ReserveStep(o)) /\ Running(o, ReserveStep(o), "reserve")
    BY <1>2 DEF reserve, GoesOn, Facts, Places, UNWIND, States, ReserveStep, worldVars
  <2> QED
    BY <1>2, <2>1, RunsBacked DEF reserve, worldVars, storeVars, Typed
<1>3. CASE screen(o)
  <2>1. /\ GoesOn(o, "screen")
    BY <1>3 DEF screen, GoesOn, UNWIND, MANUAL, States, worldVars
  <2> QED
    BY <1>3, <2>1, RunsBacked DEF screen, worldVars, storeVars, Typed
<1>4. CASE validate_order(o)
  <2>1. /\ GoesOn(o, "validate_order") /\ Running(o, "validate_order", "start")
        /\ UNCHANGED <<worldVars, storeVars>>
    <3>1. CASE ADVANCE(o, {})
      BY <1>4, <3>1 DEF validate_order, GoesOn, worldVars
    <3>2. CASE UNWIND(o) \/ MANUAL(o)
      BY <1>4, <3>2 DEF validate_order, GoesOn, UNWIND, MANUAL, States, worldVars
    <3> QED
      BY <1>4, <3>1, <3>2 DEF validate_order
  <2> QED
    BY <2>1, RunsBacked DEF worldVars, storeVars, Typed
<1>5. CASE place_order(o)
  <2>1. /\ GoesOn(o, "place_order") /\ Running(o, "place_order", "start")
        /\ UNCHANGED <<order, buyingPower, conversion, payout, settlement, storeVars>>
    BY <1>5 DEF place_order, GoesOn, UNWIND, States
  <2> QED
    BY <2>1, RunsBacked DEF storeVars, Typed
<1>6. CASE await_fill(o)
  <2>1. /\ GoesOn(o, "await_fill") /\ Running(o, "await_fill", "start")
        /\ UNCHANGED <<worldVars, unbooked, broken>>
    BY <1>6 DEF await_fill, GoesOn, UNWIND, MANUAL, States, worldVars
  <2>2. ledger' \in [Accounts -> Int]
    BY <1>6, Amounts, BuyPosted, SellPosted DEF await_fill, Typed
  <2> QED
    BY <2>1, <2>2, RunsBacked DEF worldVars, Typed
<1>7. CASE hold(o)
  <2>1. /\ GoesOn(o, ReserveStep(o)) /\ Running(o, ReserveStep(o), "hold")
    BY <1>7 DEF hold, GoesOn, Facts, ReserveStep, worldVars
  <2> QED
    BY <1>7, <2>1, RunsBacked DEF hold, worldVars, Typed
<1> QED
  BY <1>1, <1>2, <1>3, <1>4, <1>5, <1>6, <1>7

LEMMA BuyStepsBacked ==
  ASSUME Shape, Typed, AllBacked, UNCHANGED scenario, NEW o \in Buys,
         \/ deploy_escrow(o) \/ bookDeployed(o) \/ startConversion(o) \/ fund_execution(o)
         \/ settle_crossing(o) \/ await_custody(o) \/ attest_and_mint(o)
         \/ confirmBuy(o) \/ bookMinted(o)
  PROVE  Typed' /\ AllBacked'
<1>0. o \in Orders
  BY DEF Orders
<1>1. CASE deploy_escrow(o)
  <2>1. /\ GoesOn(o, "deploy_escrow") /\ Running(o, "deploy_escrow", "start")
        /\ UNCHANGED <<buyingPower, conversion, payout, settlement, storeVars>>
    BY <1>1 DEF deploy_escrow, GoesOn, UNWIND, States, OrderStates, Places
  <2> QED
    BY <1>0, <2>1, RunsBacked DEF storeVars, Typed
<1>2. CASE bookDeployed(o)
  <2>1. /\ GoesOn(o, "deploy_escrow") /\ Running(o, "deploy_escrow", "book")
        /\ UNCHANGED <<worldVars, unbooked, broken>> /\ post(buyDeployed(Escrow[o]))
    BY <1>2 DEF bookDeployed, GoesOn, worldVars
  <2>2. ledger' \in [Accounts -> Int]
    BY <1>0, <2>1, Amounts, BuyPosted
  <2> QED
    BY <1>0, <2>1, <2>2, RunsBacked DEF worldVars, Typed
<1>3. CASE startConversion(o)
  <2>1. /\ GoesOn(o, "fund_execution") /\ Running(o, "fund_execution", "start")
        /\ UNCHANGED <<buyingPower, payout, settlement, storeVars>>
        /\ conversion' = [conversion EXCEPT ![o] = "PENDING"]
    BY <1>3 DEF startConversion, GoesOn
  <2> QED
    BY <1>0, <2>1, RunsBacked DEF storeVars, Typed, Operations
<1>4. CASE fund_execution(o)
  <2>1. /\ GoesOn(o, "fund_execution") /\ Running(o, "fund_execution", "start")
        /\ UNCHANGED <<buyingPower, conversion, settlement, storeVars>>
        /\ payout' = payout \/ payout' = [payout EXCEPT ![o] = "PENDING"]
    BY <1>4 DEF fund_execution, GoesOn, UNWIND, States, Facts
  <2> QED
    BY <1>0, <2>1, RunsBacked DEF storeVars, Typed, Operations
<1>5. CASE settle_crossing(o)
  <2>1. /\ GoesOn(o, "settle_crossing") /\ Running(o, "settle_crossing", "start")
        /\ UNCHANGED <<buyingPower, conversion, settlement, unbooked, broken>>
        /\ ledger' = ledger \/ post(convertedToHKD(Escrow[o]))
        /\ payout' = payout
             \/ payout' = [payout EXCEPT ![o] = IF @ = "None" THEN "PENDING" ELSE @]
    BY <1>5 DEF settle_crossing, GoesOn, MANUAL, States, Places
  <2>2. ledger' \in [Accounts -> Int]
    BY <1>0, <2>1, Amounts, SellPosted DEF Typed
  <2>3. payout' \in [Buys -> Operations]
    BY <2>1 DEF Typed, Operations
  <2> QED
    BY <1>0, <2>1, <2>2, <2>3, RunsBacked DEF Typed
<1>6. CASE await_custody(o)
  <2>1. /\ GoesOn(o, "await_custody") /\ Running(o, "await_custody", "start")
        /\ UNCHANGED <<worldVars, unbooked, broken>>
        /\ ledger' = ledger \/ post(custodySettled(filledQuantity(o)))
    BY <1>6 DEF await_custody, GoesOn, MANUAL, States, worldVars
  <2>2. ledger' \in [Accounts -> Int]
    BY <1>0, <2>1, Amounts, BuyPosted DEF Typed
  <2> QED
    BY <1>0, <2>1, <2>2, RunsBacked DEF worldVars, Typed
<1>7. CASE attest_and_mint(o)
  <2>1. /\ GoesOn(o, "attest_and_mint") /\ Running(o, "attest_and_mint", "start")
        /\ UNCHANGED <<worldVars, storeVars>>
    BY <1>7 DEF attest_and_mint, GoesOn, MANUAL, States, Places, worldVars
  <2> QED
    BY <1>0, <2>1, RunsBacked DEF worldVars, storeVars, Typed
<1>8. CASE confirmBuy(o)
  <2>1. /\ GoesOn(o, "attest_and_mint") /\ Running(o, "attest_and_mint", "send")
        /\ UNCHANGED <<buyingPower, conversion, payout, settlement, storeVars>>
    BY <1>8 DEF confirmBuy, GoesOn, OrderStates, Places
  <2> QED
    BY <1>0, <2>1, RunsBacked DEF storeVars, Typed
<1>9. CASE bookMinted(o)
  <2>1. /\ GoesOn(o, "attest_and_mint") /\ Running(o, "attest_and_mint", "book")
        /\ UNCHANGED <<worldVars, unbooked, broken>>
        /\ post(buyMinted(Escrow[o], filledQuantity(o)))
    BY <1>9 DEF bookMinted, GoesOn, worldVars
  <2>2. ledger' \in [Accounts -> Int]
    BY <1>0, <2>1, Amounts, BuyPosted
  <2> QED
    BY <1>0, <2>1, <2>2, RunsBacked DEF worldVars, Typed
<1> QED
  BY <1>1, <1>2, <1>3, <1>4, <1>5, <1>6, <1>7, <1>8, <1>9

LEMMA SellStepsBacked ==
  ASSUME Shape, Typed, AllBacked, UNCHANGED scenario, NEW o \in Sells, Sell(o)
  PROVE  Typed' /\ AllBacked'
<1>0. o \in Orders
  BY DEF Orders
<1>1. CASE await_custody_release(o)
  <2>1. /\ GoesOn(o, "await_custody_release") /\ UNCHANGED <<worldVars, storeVars>>
        /\ Running(o, "await_custody_release", "start")
    BY <1>1 DEF await_custody_release, GoesOn, MANUAL, States, worldVars
  <2> QED
    BY <1>0, <2>1, RunsBacked DEF worldVars, storeVars, Typed
<1>2. CASE settle_onchain(o)
  <2>1. /\ GoesOn(o, "settle_onchain") /\ Running(o, "settle_onchain", "start")
        /\ UNCHANGED <<buyingPower, conversion, payout, settlement, storeVars>>
    BY <1>2 DEF settle_onchain, GoesOn, UNWIND, States, OrderStates, Places
  <2> QED
    BY <1>0, <2>1, RunsBacked DEF storeVars, Typed
<1>3. CASE bookSettled(o)
  <2>1. /\ GoesOn(o, "settle_onchain")
        /\ (Running(o, "settle_onchain", "book") \/ Running(o, "settle_onchain", "rebook"))
        /\ UNCHANGED <<worldVars, unbooked, broken>>
        /\ post(sellSettled(filledQuantity(o), filledQuantity(o)))
    BY <1>3 DEF bookSettled, GoesOn, Places, worldVars
  <2>2. ledger' \in [Accounts -> Int]
    BY <1>0, <2>1, Amounts, SellPosted
  <2> QED
    BY <1>0, <2>1, <2>2, RunsBacked DEF worldVars, Typed
<1>4. CASE repatriate(o)
  <2>1. /\ GoesOn(o, "repatriate") /\ Running(o, "repatriate", "start")
        /\ UNCHANGED <<worldVars, unbooked, broken>>
        /\ \/ ledger' = ledger \/ post(sentToMsb(filledQuantity(o)))
           \/ post(convertedToUSDC(filledQuantity(o)))
    BY <1>4 DEF repatriate, GoesOn, MANUAL, States, Places, worldVars
  <2>2. ledger' \in [Accounts -> Int]
    BY <1>0, <2>1, Amounts, SellPosted DEF Typed
  <2> QED
    BY <1>0, <2>1, <2>2, RunsBacked DEF worldVars, Typed
<1>5. CASE createConversion(o)
  <2>1. /\ GoesOn(o, "repatriate") /\ Running(o, "repatriate", "send")
        /\ UNCHANGED <<buyingPower, payout, settlement, storeVars>>
        /\ conversion' = [conversion EXCEPT ![o] = "PENDING"]
    BY <1>5 DEF createConversion, GoesOn, Places
  <2> QED
    BY <1>0, <2>1, RunsBacked DEF storeVars, Typed, Operations
<1> QED
  BY <1>1, <1>2, <1>3, <1>4, <1>5 DEF Sell

\* A step that saves nothing to the cursor and does not touch the order.
LEMMA MovesBacked ==
  ASSUME Shape, AllBacked, NEW o \in Orders, NEW i, NEW t, MovesTo(o, i, t),
         i.cursor = intent[o].cursor,
         o \in Buys => /\ t.at = "save" => i.cursor # 8
                       /\ t.at = "consume" => i.cursor = 7,
         UNCHANGED <<order, settlement>>, broker'[o].filled = broker[o].filled,
         \A p \in Orders \ {o} : broker'[p] = broker[p]
  PROVE  AllBacked'
<1>1. About(o) /\ intent'[o] = i /\ worker'[o] = t /\ intent[o].cursor \in Nat
  BY DEF About, MovesTo, Shape, IntentType
<1>2. planned(o)' = planned(o)
  BY DEF planned
<1>3. Backed(o)'
  BY <1>1, <1>2 DEF AllBacked, Backed, Taken
<1> QED
  BY <1>1, <1>3, AboutOne

LEMMA StopBacked ==
  ASSUME Shape, AllBacked, NEW o \in Orders, NEW state \in States, Stop(o, state),
         UNCHANGED <<order, broker, settlement>>
  PROVE  AllBacked'
<1>1. /\ MovesTo(o, [intent[o] EXCEPT !.state = state], Idle)
      /\ intent[o] \in IntentType
  BY StopMoves DEF Shape
<1>2. [intent[o] EXCEPT !.state = state].cursor = intent[o].cursor
  BY <1>1 DEF IntentType
<1> QED
  BY <1>1, <1>2, IdleTyped, MovesBacked

LEMMA GotoBacked ==
  ASSUME Shape, AllBacked, NEW o \in Orders, NEW place \in Places, Goto(o, place),
         o \in Buys => /\ place = "save" => intent[o].cursor # 8
                       /\ place = "consume" => intent[o].cursor = 7,
         UNCHANGED <<order, settlement>>, broker'[o].filled = broker[o].filled,
         \A p \in Orders \ {o} : broker'[p] = broker[p]
  PROVE  AllBacked'
<1>1. /\ MovesTo(o, intent[o], At(place, worker[o].found))
      /\ At(place, worker[o].found).at = place
  BY GotoMoves DEF At
<1> HIDE DEF At
<1> QED
  BY <1>1, MovesBacked

LEMMA SaveBacked ==
  ASSUME Shape, Typed, AllBacked, UNCHANGED scenario, NEW o \in Orders,
         save(o) \/ complete(o)
  PROVE  Typed' /\ AllBacked'
<1>1. Typed' /\ UNCHANGED <<order, broker, settlement>>
  BY DEF save, complete, worldVars, storeVars, Typed
<1>2. CASE complete(o)
  BY <1>1, <1>2, StopBacked DEF complete, States
<1>3. CASE save(o)
  <2> DEFINE next == intent[o].cursor + 1
             i == [state  |-> IF next = Length(o) THEN "COMPLETED" ELSE "RUNNING",
                   cursor |-> next,
                   facts  |-> intent[o].facts \cup worker[o].found]
  <2>1. /\ intent' = [intent EXCEPT ![o] = i] /\ worker' = [worker EXCEPT ![o] = Idle]
        /\ worker[o].at = "save" /\ intent[o].cursor \in Nat
        /\ i.cursor = intent[o].cursor + 1
    BY <1>3, SagaLength DEF save, Shape, IntentType
  <2> HIDE DEF i
  <2>2. /\ intent'[o].cursor = intent[o].cursor + 1 /\ worker'[o] = Idle
        /\ \A p \in Orders \ {o} : intent'[p] = intent[p] /\ worker'[p] = worker[p]
    BY <2>1 DEF Shape
  <2>3. About(o)
    BY <1>1, <2>2 DEF About
  <2>4. planned(o)' = planned(o)
    BY DEF planned
  <2>5. Taken(o, 9)' => Taken(o, 9)
    BY <2>1, <2>2, IdleTyped DEF Taken
  <2>6. Backed(o)'
    BY <1>1, <2>1, <2>2, <2>4, <2>5, IdleTyped DEF AllBacked, Backed
  <2> QED
    BY <1>1, <2>3, <2>6, AboutOne
<1> QED
  BY <1>2, <1>3

LEMMA ConsumeBacked ==
  ASSUME Shape, Typed, AllBacked, UNCHANGED scenario, NEW o \in Orders, consume(o)
  PROVE  Typed' /\ AllBacked'
<1>1. /\ Typed' /\ UNCHANGED <<order, broker, settlement>> /\ worker[o].at = "consume"
      /\ ADVANCE(o, {}) \/ UNWIND(o)
  BY DEF consume, worldVars, Typed
<1>2. CASE ADVANCE(o, {})
  <2>1. MovesTo(o, intent[o], At("save", {})) /\ At("save", {}).at = "save"
    BY <1>2, AdvanceMoves DEF At
  <2>2. o \in Buys => intent[o].cursor = 7
    BY <1>1 DEF AllBacked, Backed
  <2> QED
    BY <1>1, <2>1, <2>2, MovesBacked
<1>3. CASE UNWIND(o)
  BY <1>1, <1>3, StopBacked DEF UNWIND, States
<1> QED
  BY <1>1, <1>2, <1>3

LEMMA PayoutBacked ==
  ASSUME Shape, Typed, AllBacked, UNCHANGED scenario, NEW o \in Buys, awaitPayout(o)
  PROVE  Typed' /\ AllBacked'
<1>1. /\ o \in Orders /\ UNCHANGED <<worldVars, unbooked, broken>>
      /\ Running(o, "settle_crossing", "pay")
      /\ ledger' = ledger \/ post(brokerFunded(Escrow[o]))
  BY DEF awaitPayout, Orders
<1>2. ledger' \in [Accounts -> Int]
  BY <1>1, Amounts, SellPosted DEF Typed
<1>3. Typed' /\ UNCHANGED <<order, broker, settlement>>
  BY <1>1, <1>2 DEF worldVars, Typed
<1>4. intent[o].cursor = 7
  BY <1>1, StepAt, SagaLength DEF Running, Driven, Shape, IntentType
<1>5. CASE Goto(o, "consume")
  BY <1>1, <1>3, <1>4, <1>5, GotoBacked DEF Places
<1>6. CASE MANUAL(o)
  BY <1>1, <1>3, <1>6, StopBacked DEF MANUAL, States
<1>7. CASE /\ intent' = [intent EXCEPT ![o].facts = @ \cup {"convertedAmount"}]
           /\ worker' = [worker EXCEPT ![o] = Idle]
  <2> DEFINE i == [intent[o] EXCEPT !.facts = @ \cup {"convertedAmount"}]
  <2>1. intent[o] \in IntentType
    BY <1>1 DEF Shape
  <2>2. i \in IntentType /\ i.cursor = intent[o].cursor
    BY <2>1 DEF IntentType, Facts
  <2>3. intent' = [intent EXCEPT ![o] = i]
    BY <1>7
  <2> HIDE DEF i
  <2>4. MovesTo(o, i, Idle)
    BY <1>1, <1>7, <2>2, <2>3, IdleTyped DEF MovesTo, Shape
  <2> QED
    BY <1>1, <1>3, <2>2, <2>4, IdleTyped, MovesBacked
<1> QED
  BY <1>5, <1>6, <1>7 DEF awaitPayout

\* Interruptions, recovery and unwinding.
LEMMA RecoveryBacked ==
  ASSUME Shape, Typed, AllBacked, UNCHANGED scenario, NEW o \in Orders,
         \/ interrupt(o) \/ outage(o) \/ recover(o) \/ unwind(o)
         \/ cancelOrder(o) \/ release(o)
  PROVE  Typed' /\ AllBacked'
<1>1. CASE interrupt(o)
  <2>1. Typed' /\ UNCHANGED <<order, broker, settlement, intent>>
    BY <1>1 DEF interrupt, worldVars, storeVars, Typed
  <2>2. PICK t \in {[at |-> "lost", found |-> {}], Idle} :
           worker' = [worker EXCEPT ![o] = t]
    BY <1>1 DEF interrupt
  <2>3. t \in WorkerType /\ t.at \in {"lost", "start"}
    BY IdleTyped DEF WorkerType, Places
  <2>4. MovesTo(o, intent[o], t)
    BY <2>1, <2>2, <2>3 DEF MovesTo, Shape
  <2> QED
    BY <2>1, <2>3, <2>4, MovesBacked
<1>2. CASE outage(o)
  BY <1>2, StopBacked DEF outage, MANUAL, States, worldVars, storeVars, Typed
<1>3. CASE recover(o)
  <2>1. Typed' /\ UNCHANGED <<order, broker, settlement>>
    BY <1>3 DEF recover, worldVars, storeVars, Typed
  <2>2. \/ UNWIND(o) \/ MANUAL(o)
        \/ \E place \in Places \ {"consume"} :
              Goto(o, place) /\ (place = "save" => NextStep(o) = "place_order")
    BY <1>3, ResolvedAs DEF recover, Places
  <2>3. o \in Buys /\ NextStep(o) = "place_order" => intent[o].cursor = 5
    BY <1>3, StepAt, SagaLength DEF recover, Driven, Shape, IntentType
  <2>4. CASE UNWIND(o) \/ MANUAL(o)
    BY <2>1, <2>4, StopBacked DEF UNWIND, MANUAL, States
  <2>5. ASSUME NEW place \in Places \ {"consume"}, Goto(o, place),
               place = "save" => NextStep(o) = "place_order"
        PROVE  AllBacked'
    BY <2>1, <2>3, <2>5, GotoBacked
  <2> QED
    BY <2>1, <2>2, <2>4, <2>5
<1>4. CASE unwind(o)
  <2>1. /\ Typed' /\ UNCHANGED <<order, broker, settlement>>
        /\ Goto(o, "cancel") \/ Goto(o, "release")
    BY <1>4 DEF unwind, worldVars, storeVars, Typed
  <2> QED
    BY <2>1, GotoBacked DEF Places
<1>5. CASE cancelOrder(o)
  <2>1. Typed' /\ UNCHANGED <<order, settlement>>
    BY <1>5 DEF cancelOrder, storeVars, Typed
  <2>2. CASE MANUAL(o) /\ UNCHANGED broker
    BY <2>1, <2>2, StopBacked DEF MANUAL, States
  <2>3. CASE Goto(o, "release") /\ broker' = [broker EXCEPT ![o].status = "CANCELLED"]
    <3>1. /\ broker'[o] = [broker[o] EXCEPT !.status = "CANCELLED"]
          /\ broker[o] \in BrokerOrder
          /\ \A p \in Orders \ {o} : broker'[p] = broker[p]
      BY <2>3 DEF Shape
    <3>2. broker'[o].filled = broker[o].filled
      BY <3>1 DEF BrokerOrder
    <3> QED
      BY <2>1, <2>3, <3>1, <3>2, GotoBacked DEF Places
  <2> QED
    BY <1>5, <2>1, <2>2, <2>3 DEF cancelOrder
<1>6. CASE release(o)
  <2>1. /\ Typed' /\ UNCHANGED <<order, broker, settlement>>
        /\ Stop(o, "CANCELLED") \/ MANUAL(o)
    BY <1>6 DEF release, worldVars, Typed
  <2> QED
    BY <2>1, StopBacked DEF MANUAL, States
<1> QED
  BY <1>1, <1>2, <1>3, <1>4, <1>5, <1>6

LEMMA StillBacked ==
  ASSUME AllBacked, UNCHANGED <<order, broker, settlement, intent, worker>>
  PROVE  AllBacked'
<1>1. \A o \in Orders : planned(o)' = planned(o)
  BY DEF planned
<1> QED
  BY <1>1 DEF AllBacked, Backed, Taken

\* The watcher, the operator, the reconciler and what expires.
LEMMA AsideBacked ==
  ASSUME Shape, Typed, AllBacked, UNCHANGED scenario,
         \/ \E o \in Orders : \/ ingest(o) \/ sweepExpired(o)
                              \/ operatorResume(o) \/ operatorUnwind(o)
         \/ \E b \in Buys : bookEscrow(b) \/ bookingLost(b)
         \/ checkPositions \/ resolveBreak
  PROVE  Typed' /\ AllBacked'
<1>1. ASSUME NEW o \in Orders, ingest(o)
      PROVE  Typed' /\ AllBacked'
  <2>1. /\ Typed' /\ UNCHANGED <<order, broker, settlement, worker>>
        /\ intent' = [intent EXCEPT ![o].state = "RUNNING"]
    BY <1>1 DEF ingest, worldVars, Typed
  <2> DEFINE i == [intent[o] EXCEPT !.state = "RUNNING"]
  <2>2. i \in IntentType /\ i.cursor = intent[o].cursor
    BY DEF Shape, IntentType, States
  <2>3. intent' = [intent EXCEPT ![o] = i]
    BY <2>1
  <2> HIDE DEF i
  <2>4. MovesTo(o, i, worker[o])
    BY <2>1, <2>2, <2>3 DEF MovesTo, Shape
  <2>5. intent[o].cursor \in Nat
    BY DEF Shape, IntentType
  <2>6. About(o) /\ intent'[o].cursor = intent[o].cursor /\ planned(o)' = planned(o)
    BY <2>1, <2>2, <2>4 DEF About, MovesTo, planned
  <2>7. Backed(o)'
    BY <2>1, <2>6 DEF AllBacked, Backed, Taken
  <2> QED
    BY <2>1, <2>6, <2>7, AboutOne
<1>2. ASSUME NEW o \in Orders, operatorResume(o) \/ operatorUnwind(o)
      PROVE  Typed' /\ AllBacked'
  <2>1. /\ Typed' /\ UNCHANGED <<order, broker, settlement>>
        /\ Stop(o, "RUNNING") \/ UNWIND(o)
    BY <1>2 DEF operatorResume, operatorUnwind, worldVars, storeVars, Typed
  <2> QED
    BY <2>1, StopBacked DEF UNWIND, States
<1>3. ASSUME NEW o \in Orders, sweepExpired(o)
      PROVE  Typed' /\ AllBacked'
  BY <1>3, StillBacked DEF sweepExpired, worldVars, Typed
<1>4. ASSUME NEW b \in Buys, bookEscrow(b)
      PROVE  Typed' /\ AllBacked'
  <2>1. b \in Orders /\ post(buyEscrowed(Escrow[b]))
    BY <1>4 DEF bookEscrow, Orders
  <2>2. ledger' \in [Accounts -> Int]
    BY <2>1, Amounts, BuyPosted
  <2> QED
    BY <1>4, <2>2, StillBacked DEF bookEscrow, worldVars, Typed
<1>5. ASSUME NEW b \in Buys, bookingLost(b)
      PROVE  Typed' /\ AllBacked'
  BY <1>5, StillBacked DEF bookingLost, worldVars, Typed
<1>6. CASE checkPositions \/ resolveBreak
  BY <1>6, StillBacked DEF checkPositions, resolveBreak, worldVars, Typed
<1> QED
  BY <1>1, <1>2, <1>3, <1>4, <1>5, <1>6

\* The chain and the counterparties.
LEMMA WorldBacked ==
  ASSUME Shape, Typed, AllBacked, UNCHANGED scenario,
         (\E o \in Orders : World(o)) \/ (\E b \in Buys : msbPays(b))
  PROVE  Typed' /\ AllBacked'
<1>1. ASSUME NEW o \in Orders, traderCancels(o)
      PROVE  Typed' /\ AllBacked'
  <2>1. /\ Typed' /\ UNCHANGED <<broker, settlement, intent, worker>>
        /\ order' = [order EXCEPT ![o] = "CANCELLED"]
    BY <1>1 DEF traderCancels, storeVars, Typed
  <2>2. About(o) /\ order'[o] = "CANCELLED" /\ planned(o)' = planned(o)
    BY <2>1 DEF About, Shape, planned
  <2>3. Backed(o)'
    BY <2>1, <2>2 DEF AllBacked, Backed, Taken
  <2> QED
    BY <2>1, <2>2, <2>3, AboutOne
<1>2. ASSUME NEW o \in Orders, brokerFills(o)
      PROVE  Typed' /\ AllBacked'
  <2>1. /\ UNCHANGED <<order, conversion, payout, settlement, storeVars, intent, worker>>
        /\ broker[o] \in BrokerOrder
    BY <1>2 DEF brokerFills, Shape
  <2>2. planned(o) \in Nat /\ broker[o].filled \in Nat
    BY <2>1, PlannedNat DEF BrokerOrder
  <2>3. PICK n \in 1 .. (planned(o) - broker[o].filled) :
           /\ \E b : /\ broker' = [broker EXCEPT ![o] = b]
                     /\ b.filled = broker[o].filled + n
           /\ buyingPower' = buyingPower - n \/ buyingPower' = buyingPower + n
    <3>1. PICK n \in 1 .. (planned(o) - filledQuantity(o)),
               fair \in {TRUE, ~scenario.faults} :
             /\ broker' = [broker EXCEPT ![o] =
                   [status |-> IF @.filled + n = planned(o) THEN "FILLED"
                                                            ELSE "PARTIALLY_FILLED",
                    filled |-> @.filled + n,
                    fair   |-> @.fair /\ fair]]
             /\ buyingPower' = IF o \in Buys THEN buyingPower - n ELSE buyingPower + n
      BY <1>2 DEF brokerFills
    <3> DEFINE b == [status |-> IF broker[o].filled + n = planned(o)
                                THEN "FILLED" ELSE "PARTIALLY_FILLED",
                     filled |-> broker[o].filled + n,
                     fair   |-> broker[o].fair /\ fair]
    <3>2. broker' = [broker EXCEPT ![o] = b] /\ b.filled = broker[o].filled + n
      BY <3>1
    <3> HIDE DEF b
    <3> QED
      BY <3>1, <3>2 DEF filledQuantity
  <2>4. buyingPower' \in Int /\ broker[o].filled + n <= planned(o)
    BY <2>2, <2>3 DEF Typed
  <2>5. Typed'
    BY <2>1, <2>4 DEF storeVars, Typed
  <2>6. /\ About(o) /\ planned(o)' = planned(o)
        /\ broker'[o].filled = broker[o].filled + n
    BY <2>1, <2>3 DEF About, Shape, planned
  <2>7. Backed(o)'
    BY <2>1, <2>4, <2>6 DEF AllBacked, Backed, Taken
  <2> QED
    BY <2>5, <2>6, <2>7, AboutOne
<1>3. ASSUME NEW o \in Orders, brokerExpires(o)
      PROVE  Typed' /\ AllBacked'
  <2>1. /\ Typed' /\ UNCHANGED <<order, settlement, intent, worker>>
        /\ broker' = [broker EXCEPT ![o].status = "EXPIRED"]
        /\ broker[o] \in BrokerOrder
    BY <1>3 DEF brokerExpires, storeVars, Typed, Shape
  <2>2. /\ broker'[o] = [broker[o] EXCEPT !.status = "EXPIRED"]
        /\ \A p \in Orders \ {o} : broker'[p] = broker[p]
    BY <2>1 DEF Shape
  <2>3. broker'[o].filled = broker[o].filled
    BY <2>1, <2>2 DEF BrokerOrder
  <2>4. About(o) /\ planned(o)' = planned(o)
    BY <2>1, <2>2 DEF About, planned
  <2>5. Backed(o)'
    BY <2>1, <2>3, <2>4 DEF AllBacked, Backed, Taken
  <2> QED
    BY <2>1, <2>4, <2>5, AboutOne
<1>4. ASSUME NEW o \in Orders, msbConverts(o)
      PROVE  Typed' /\ AllBacked'
  <2>1. conversion' \in [Orders -> Operations]
    BY <1>4 DEF msbConverts, Endings, Typed, Operations
  <2> QED
    BY <1>4, <2>1, StillBacked DEF msbConverts, storeVars, Typed
<1>5. ASSUME NEW o \in Orders, custodianSettles(o)
      PROVE  Typed' /\ AllBacked'
  <2>1. PICK status \in {"SETTLED", "FAILED"} : settlement' = [settlement EXCEPT ![o] = status]
    BY <1>5 DEF custodianSettles, Endings
  <2>2. /\ settlement' \in [Orders -> Operations]
        /\ \A p \in Orders : settlement[p] = "SETTLED" => settlement'[p] = "SETTLED"
    BY <1>5, <2>1 DEF custodianSettles, Typed, Operations
  <2>3. Typed' /\ UNCHANGED <<order, broker, intent, worker>>
    BY <1>5, <2>2 DEF custodianSettles, storeVars, Typed
  <2>4. \A p \in Orders : planned(p)' = planned(p)
    BY DEF planned
  <2> QED
    BY <2>2, <2>3, <2>4 DEF AllBacked, Backed, Taken
<1>6. ASSUME NEW b \in Buys, msbPays(b)
      PROVE  Typed' /\ AllBacked'
  <2>1. Escrow[b] \in Int
    BY DeskAssumption
  <2>2. payout' \in [Buys -> Operations] /\ buyingPower' \in Int
    BY <1>6, <2>1 DEF msbPays, Typed, Operations
  <2> QED
    BY <1>6, <2>2, StillBacked DEF msbPays, storeVars, Typed
<1> QED
  BY <1>1, <1>2, <1>3, <1>4, <1>5, <1>6 DEF World

LEMMA ActBacked ==
  ASSUME Shape, Typed, AllBacked, UNCHANGED scenario, Act
  PROVE  Typed' /\ AllBacked'
<1>1. ASSUME NEW o \in Orders, Drive(o) \/ interrupt(o) \/ outage(o)
      PROVE  Typed' /\ AllBacked'
  BY <1>1, SaveBacked, ConsumeBacked, SharedStepsBacked, RecoveryBacked DEF Drive
<1>2. ASSUME NEW b \in Buys, Buy(b)
      PROVE  Typed' /\ AllBacked'
  BY <1>2, BuyStepsBacked, PayoutBacked DEF Buy
<1>3. ASSUME NEW s \in Sells, Sell(s)
      PROVE  Typed' /\ AllBacked'
  BY <1>3, SellStepsBacked
<1> QED
  BY <1>1, <1>2, <1>3, AsideBacked, WorldBacked DEF Act

\* The sums over the orders.
LEMMA OrdersFinite == IsFiniteSet(Buys) /\ IsFiniteSet(Sells)
<1>1. Buys \subseteq Orders /\ Sells \subseteq Orders
  BY DEF Orders
<1> QED
  BY <1>1, DeskAssumption, FS_Subset

LEMMA IssuedNat == Issued \in Nat
<1> DEFINE f == [s \in Sells |-> Shares[s]]
<1>1. f \in [Sells -> Nat]
  BY DeskAssumption DEF Orders
<1>2. SumFunction(f) \in Nat
  <2> HIDE DEF f
  <2> QED
    BY <1>1, OrdersFinite, SumCovers
<1> QED
  BY <1>2 DEF Issued, SumOver

LEMMA InitBacked ==
  ASSUME Init
  PROVE  Typed /\ AllBacked
<1>1. scenario \in Scenarios /\ scenario.float \in Nat
  BY DeskAssumption DEF Init
<1>2. ledger \in [Accounts -> Int]
  <2>1. ledger = [a \in Accounts |->
          CASE a \in {"BROKER_BUFFER", "TREASURY_USDC"} -> scenario.float
            [] a = "CUSTODY_HOLDINGS"   -> Issued
            [] a = "CUSTOMER_POSITIONS" -> -Issued
            [] OTHER                    -> 0]
    BY DEF Init
  <2> HIDE DEF Accounts
  <2> QED
    BY <1>1, <2>1, IssuedNat
<1>3. Typed
  <2>1. /\ conversion \in [Orders -> Operations]
        /\ payout \in [Buys -> Operations]
        /\ settlement \in [Orders -> Operations]
    BY DEF Init, Operations
  <2>2. buyingPower \in Int /\ unbooked \in SUBSET Buys /\ broken \in BOOLEAN
    <3>1. buyingPower = scenario.float /\ unbooked = {} /\ broken = FALSE
      BY DEF Init
    <3>2. buyingPower \in Int
      BY <1>1, <3>1
    <3> QED
      BY <3>1, <3>2
  <2> QED
    BY <1>1, <1>2, <2>1, <2>2 DEF Typed
<1>4. ASSUME NEW o \in Orders
      PROVE  Backed(o)
  <2>1. /\ broker[o].filled = 0 /\ order[o] = "PENDING"
        /\ worker[o].at = "start" /\ intent[o].cursor = 0
    BY IdleTyped DEF Init
  <2> QED
    BY <2>1, PlannedNat DEF Backed, Taken
<1> QED
  BY <1>3, <1>4 DEF AllBacked

LEMMA BackedInvariance == Spec => [](IInv /\ Typed /\ AllBacked)
<1>1. IInv /\ Typed /\ AllBacked /\ [Next]_vars => Typed' /\ AllBacked'
  <2> SUFFICES ASSUME IInv, Typed, AllBacked, [Next]_vars
               PROVE  Typed' /\ AllBacked'
    OBVIOUS
  <2>1. CASE Next
    BY <2>1, ActBacked DEF Next, IInv
  <2>2. CASE UNCHANGED vars
    BY <2>2, StillBacked DEF vars, worldVars, storeVars, Typed
  <2> QED
    BY <2>1, <2>2
<1>2. IInv /\ [Next]_vars => IInv'
  <2>1. ASSUME IInv, UNCHANGED vars
        PROVE  IInv'
    BY <2>1, BesideKeeps DEF vars, worldVars, storeVars
  <2> QED
    BY <2>1, ActKeeps DEF Next
<1> QED
  BY <1>1, <1>2, InitHolds, InitBacked, PTL DEF Spec

LEMMA TypesFollow == IInv /\ Typed => TypeOK
BY DEF IInv, Shape, Typed, TypeOK, IntentType, WorkerType

\* Every variable of the desk keeps its type, whatever is interrupted, resumed or
\* unwound: in particular no amount that is booked is undefined.
THEOREM TypeCorrect == Spec => []TypeOK
BY TypesFollow, BackedInvariance, PTL

LEMMA SharesFollow == Shape /\ Typed /\ AllBacked => TokensBacked
<1> SUFFICES ASSUME Shape, Typed, AllBacked
             PROVE  TokensBacked
  OBVIOUS
<1> DEFINE bought == [b \in Buys |-> broker[b].filled]
           sold   == [s \in Sells |-> broker[s].filled]
           asked  == [s \in Sells |-> Shares[s]]
           Minted   == {b \in Buys : order[b] = "FILLED"}
           Arrived  == {b \in Buys : settlement[b] = "SETTLED"}
           Burnt    == {s \in Sells : order[s] = "SETTLED"}
           Left     == {s \in Sells : settlement[s] = "SETTLED"}
           Unburnt  == {s \in Sells : settlement[s] = "SETTLED" /\ order[s] # "SETTLED"}
           minted   == [b \in Buys |-> IF b \in Minted THEN bought[b] ELSE 0]
           arrived  == [b \in Buys |-> IF b \in Arrived THEN bought[b] ELSE 0]
           burnt    == [s \in Sells |-> IF s \in Burnt THEN asked[s] ELSE 0]
           left     == [s \in Sells |-> IF s \in Left THEN sold[s] ELSE 0]
           unburnt  == [s \in Sells |-> IF s \in Unburnt THEN sold[s] ELSE 0]
           both     == [s \in Sells |-> burnt[s] + unburnt[s]]
<1>1. \A o \in Orders : broker[o].filled \in Nat /\ Shares[o] \in Nat
  BY DeskAssumption DEF Shape, BrokerOrder
<1>2. /\ bought \in [Buys -> Int] /\ sold \in [Sells -> Int] /\ asked \in [Sells -> Int]
      /\ minted \in [Buys -> Int] /\ arrived \in [Buys -> Int]
      /\ burnt \in [Sells -> Int] /\ left \in [Sells -> Int] /\ unburnt \in [Sells -> Int]
      /\ both \in [Sells -> Int]
  BY <1>1 DEF Orders
<1>3. \A b \in Buys : minted[b] <= arrived[b]
  BY <1>1 DEF AllBacked, Backed, Orders
<1>4. \A s \in Sells : left[s] <= both[s]
  <2> SUFFICES ASSUME NEW s \in Sells
               PROVE  left[s] <= both[s]
    OBVIOUS
  <2>1. broker[s].filled <= Shares[s]
    <3>1. s \in Orders /\ s \notin Buys
      BY DeskAssumption DEF Orders
    <3> QED
      BY <3>1 DEF AllBacked, Backed, planned
  <2>2. broker[s].filled \in Nat /\ Shares[s] \in Nat
    BY <1>1 DEF Orders
  <2> QED
    BY <2>1, <2>2
<1>5. /\ SumOver(Minted, filledQuantity) = SumFunction([b \in Minted |-> bought[b]])
      /\ SumOver(Arrived, filledQuantity) = SumFunction([b \in Arrived |-> bought[b]])
      /\ SumOver(Burnt, LAMBDA s : Shares[s]) = SumFunction([s \in Burnt |-> asked[s]])
      /\ SumOver(Left, filledQuantity) = SumFunction([s \in Left |-> sold[s]])
      /\ SumOver(Unburnt, filledQuantity) = SumFunction([s \in Unburnt |-> sold[s]])
  <2>1. /\ [b \in Minted |-> filledQuantity(b)] = [b \in Minted |-> bought[b]]
        /\ [b \in Arrived |-> filledQuantity(b)] = [b \in Arrived |-> bought[b]]
        /\ [s \in Burnt |-> Shares[s]] = [s \in Burnt |-> asked[s]]
        /\ [s \in Left |-> filledQuantity(s)] = [s \in Left |-> sold[s]]
        /\ [s \in Unburnt |-> filledQuantity(s)] = [s \in Unburnt |-> sold[s]]
    BY DEF filledQuantity
  <2> HIDE DEF bought, sold, asked, Minted, Arrived, Burnt, Left, Unburnt
  <2> QED
    BY <2>1 DEF SumOver
<1>6. /\ positionSupply = Issued + SumOver(Minted, filledQuantity)
                                - SumOver(Burnt, LAMBDA s : Shares[s])
      /\ custodyHoldings = Issued + SumOver(Arrived, filledQuantity)
                                  - SumOver(Left, filledQuantity)
      /\ TokensBacked <=>
            positionSupply <= custodyHoldings + SumOver(Unburnt, filledQuantity)
  BY DEF positionSupply, custodyHoldings, TokensBacked
<1>7. /\ Minted \in SUBSET Buys /\ Arrived \in SUBSET Buys
      /\ Burnt \in SUBSET Sells /\ Left \in SUBSET Sells /\ Unburnt \in SUBSET Sells
  OBVIOUS
<1> HIDE DEF bought, sold, asked, Minted, Arrived, Burnt, Left, Unburnt
<1>8. /\ SumFunction([b \in Minted |-> bought[b]]) = SumFunction(minted)
      /\ SumFunction([b \in Arrived |-> bought[b]]) = SumFunction(arrived)
      /\ SumFunction([s \in Burnt |-> asked[s]]) = SumFunction(burnt)
      /\ SumFunction([s \in Left |-> sold[s]]) = SumFunction(left)
      /\ SumFunction([s \in Unburnt |-> sold[s]]) = SumFunction(unburnt)
  BY <1>2, <1>7, OrdersFinite, SumWithin
<1>9. SumFunction(both) = SumFunction(burnt) + SumFunction(unburnt)
  <2> HIDE DEF burnt, unburnt
  <2> QED
    BY <1>2, OrdersFinite, SumPlus
<1> HIDE DEF minted, arrived, burnt, left, unburnt, both
<1>10. /\ SumFunction(minted) <= SumFunction(arrived)
       /\ SumFunction(left) <= SumFunction(both)
  BY <1>2, <1>3, <1>4, OrdersFinite, SumMonotone
<1>11. /\ SumFunction(minted) \in Int /\ SumFunction(arrived) \in Int
       /\ SumFunction(burnt) \in Int /\ SumFunction(left) \in Int
       /\ SumFunction(unburnt) \in Int /\ Issued \in Int
  BY <1>2, OrdersFinite, SumType, IssuedNat
<1> QED
  BY <1>5, <1>6, <1>8, <1>9, <1>10, <1>11

\* There is a share behind every token, whatever fails, is interrupted or is
\* forced by an operator, for any orders and amounts (await_custody before
\* attest_and_mint, settle_onchain).
THEOREM SharesBehindTokens == Spec => []TokensBacked
BY SharesFollow, BackedInvariance, PTL DEF IInv

-----------------------------------------------------------------------------
(* The books.  As long as nothing is interrupted each intent runs straight *)
(* through its saga, posting one entry at each milestone that it passes.   *)

\* The milestones, and the entry that is posted at each.
Milestones == {"escrowed", "deployed", "filled", "converted", "funded", "received",
               "minted", "burnt", "sent", "home"}

Entry(o, m) == LET q == filledQuantity(o) IN
    CASE m = "escrowed"  -> buyEscrowed(Escrow[o])
      [] m = "deployed"  -> buyDeployed(Escrow[o])
      [] m = "filled"    -> IF o \in Buys THEN buyFilled(q) ELSE sellFilled(q)
      [] m = "converted" -> convertedToHKD(Escrow[o])
      [] m = "funded"    -> brokerFunded(Escrow[o])
      [] m = "received"  -> custodySettled(q)
      [] m = "minted"    -> buyMinted(Escrow[o], q)
      [] m = "burnt"     -> sellSettled(q, q)
      [] m = "sent"      -> sentToMsb(q)
      [] m = "home"      -> convertedToUSDC(q)

Reached(o, m) ==
    \/ /\ o \in Buys
       /\ \/ m = "escrowed" /\ intent[o].state # "None" /\ o \notin unbooked
          \/ m = "deployed" /\ Taken(o, 4)
          \/ m = "filled" /\ Taken(o, 7)
          \/ /\ m = "converted"
             /\ \/ Taken(o, 8) \/ worker[o].at \in {"pay", "consume"}
                \/ Knows(o, "convertedAmount")
          \/ m = "funded" /\ (Taken(o, 8) \/ worker[o].at = "consume")
          \/ m = "received" /\ Taken(o, 9)
          \/ m = "minted" /\ Taken(o, 10)
    \/ /\ o \notin Buys
       /\ \/ m = "filled" /\ Taken(o, 4)
          \/ m = "burnt" /\ (Taken(o, 7) \/ worker[o].at = "consume")
          \/ m = "sent" /\ (conversion[o] # "None" \/ worker[o].at = "send")
          \/ m = "home" /\ Taken(o, 8)

\* An order that was funded just in time, or whose payment failed or whose hold
\* has run out, may post what it posted before.
Strayed(o) ==
    \/ o \in Buys /\ (Knows(o, "justInTime") \/ payout[o] = "FAILED")
    \/ Knows(o, "reservationId") /\ reservation[o] \notin {"HELD", "CONSUMED"}

\* Where the worker of an intent is.
OnItsWay(o) ==
    LET at == worker[o].at  c == intent[o].cursor IN
    /\ at \notin {"lost", "rebook"}
    /\ at \in {"book", "pay", "consume", "send", "reserve", "hold", "save"} => IsRunning(o)
    /\ at = "book" => (IF o \in Buys THEN c = 3 \/ c = 9 ELSE c = 6)
    /\ at = "pay" => o \in Buys /\ c = 7
    /\ at = "consume" => c + 1 = spendAt(o)
    /\ at = "send" => (IF o \in Buys THEN c = 9 ELSE c = 7)
    /\ at \in {"reserve", "hold"} => (IF o \in Buys THEN c = 2 ELSE c = 4)
    /\ at = "save" => c < Length(o)
    /\ at \in {"cancel", "release"} => intent[o].state = "UNWINDING"
    /\ c <= Length(o)
    /\ intent[o].state = "COMPLETED" => c = Length(o)

\* Nothing has happened to an order that has no intent, but on the chain.
Untouched(o) ==
    intent[o].state = "None" =>
        /\ intent[o].cursor = 0 /\ intent[o].facts = {} /\ worker[o].at = "start"
        /\ broker[o].status = "None" /\ broker[o].filled = 0 /\ conversion[o] = "None"
        /\ o \in Buys => payout[o] = "None" /\ o \notin unbooked

\* What an intent knows, holds and has traded at a step.
Informed(o) ==
    LET c == intent[o].cursor  found == worker[o].found  saving == worker[o].at = "save" IN
    /\ Knows(o, "reservationId") => (IF o \in Buys THEN c >= 3 ELSE c >= 5)
    /\ saving /\ "reservationId" \in found => (IF o \in Buys THEN c = 2 ELSE c = 4)
    /\ saving /\ "convertedAmount" \in found => Knows(o, "justInTime")
    /\ Taken(o, spendAt(o)) /\ Knows(o, "reservationId") => reservation[o] = "CONSUMED"
    /\ Taken(o, fillAt(o)) => BrokerDone(o)

\* What stands on the chain, with the MSB and with the custodian at a step.
BuyCourse(o) ==
    LET at == worker[o].at  c == intent[o].cursor IN
    /\ order[o] # "SETTLED"
    /\ Taken(o, 4) => order[o] # "PENDING"
    /\ order[o] \in {"DEPLOYED", "FILLED"} => Taken(o, 4) \/ (c = 3 /\ at = "book")
    /\ order[o] = "FILLED" => Taken(o, 10) \/ (c = 9 /\ at = "book")
    /\ Taken(o, 10) => order[o] = "FILLED"
    /\ at = "book" => order[o] = (IF c = 3 THEN "DEPLOYED" ELSE "FILLED")
    /\ Taken(o, 8) \/ at = "consume" => payout[o] = "SETTLED"
SellCourse(o) ==
    LET at == worker[o].at IN
    /\ order[o] = "SETTLED" => Taken(o, 7) \/ at \in {"book", "consume"} \/ Strayed(o)
    /\ at \in {"book", "consume"} \/ Taken(o, 7) => order[o] = "SETTLED"
    /\ Taken(o, 6) => settlement[o] = "SETTLED"
    /\ conversion[o] # "None" => intent[o].cursor >= 7
    /\ Taken(o, 8) => conversion[o] = "SETTLED"

Straight(o) ==
    /\ OnItsWay(o) /\ Untouched(o) /\ Informed(o)
    /\ o \in Buys => BuyCourse(o)
    /\ o \notin Buys => SellCourse(o)

-----------------------------------------------------------------------------
(* One step of one order.                                                  *)

Elsewhere(o) ==
    \A p \in Orders \ {o} :
        /\ order'[p] = order[p] /\ broker'[p] = broker[p]
        /\ conversion'[p] = conversion[p] /\ settlement'[p] = settlement[p]
        /\ p \in Buys => payout'[p] = payout[p]
        /\ intent'[p] = intent[p] /\ worker'[p] = worker[p]
        /\ reservation'[p] = reservation[p]
        /\ p \in unbooked' <=> p \in unbooked

\* What the order has posted at a milestone stays as it is.
Stands(o, m) ==
    /\ Reached(o, m)' <=> Reached(o, m)
    /\ Reached(o, m) => Entry(o, m)' = Entry(o, m)

Passes(o, m) ==
    /\ ~Reached(o, m) /\ Reached(o, m)'
    /\ Entry(o, m)' = Entry(o, m)
    /\ post(Entry(o, m))
    /\ \A k \in Milestones \ {m} : Stands(o, k)

Accounted(o) ==
    \/ /\ ledger' = ledger
       /\ \A m \in Milestones : Stands(o, m)
    \/ \E m \in Milestones : Passes(o, m)
    \/ /\ Strayed(o)'
       /\ ledger'["CHAIN_ESCROW"] = ledger["CHAIN_ESCROW"]
       /\ Stands(o, "escrowed") /\ Stands(o, "deployed")

Follows(o) ==
    /\ Elsewhere(o)
    /\ Straight(o)'
    /\ Strayed(o) => Strayed(o)'
    /\ Accounted(o)

\* The part of the state that is about an order.
Local(o) ==
    /\ intent[o] \in IntentType /\ worker[o] \in WorkerType /\ broker[o] \in BrokerOrder
    /\ order[o] \in OrderStates /\ reservation[o] \in Reservations
    /\ conversion[o] \in Operations /\ settlement[o] \in Operations
    /\ o \in Buys => payout[o] \in Operations

\* The cursor tells the step.
Step(o, step) ==
    LET c == intent[o].cursor IN
    /\ c \in Nat /\ c < Length(o) /\ IsRunning(o)
    /\ Length(o) = (IF o \in Buys THEN 10 ELSE 8)
    /\ fillAt(o) = (IF o \in Buys THEN 7 ELSE 4)
    /\ spendAt(o) = (IF o \in Buys THEN 8 ELSE 7)
    /\ \/ c = 0 /\ step = "screen"
       \/ c = 1 /\ step = "validate_order"
       \/ o \in Buys /\ c = 2 /\ step = "reserve_funding"
       \/ o \in Buys /\ c = 3 /\ step = "deploy_escrow"
       \/ o \in Buys /\ c = 4 /\ step = "fund_execution"
       \/ o \in Buys /\ c = 5 /\ step = "place_order"
       \/ o \in Buys /\ c = 6 /\ step = "await_fill"
       \/ o \in Buys /\ c = 7 /\ step = "settle_crossing"
       \/ o \in Buys /\ c = 8 /\ step = "await_custody"
       \/ o \in Buys /\ c = 9 /\ step = "attest_and_mint"
       \/ o \notin Buys /\ c = 2 /\ step = "place_order"
       \/ o \notin Buys /\ c = 3 /\ step = "await_fill"
       \/ o \notin Buys /\ c = 4 /\ step = "reserve_payout"
       \/ o \notin Buys /\ c = 5 /\ step = "await_custody_release"
       \/ o \notin Buys /\ c = 6 /\ step = "settle_onchain"
       \/ o \notin Buys /\ c = 7 /\ step = "repatriate"

LEMMA StepKnown ==
  ASSUME Shape, NEW o \in Orders, NEW step, NEW place, Running(o, step, place)
  PROVE  Step(o, step) /\ worker[o].at = place
<1>1. /\ intent[o].cursor \in Nat /\ intent[o].cursor < Length(o) /\ IsRunning(o)
      /\ NextStep(o) = step /\ worker[o].at = place
  BY SagaLength DEF Running, Driven, Shape, IntentType, IsRunning
<1>2. /\ Length(o) = (IF o \in Buys THEN 10 ELSE 8)
      /\ fillAt(o) = (IF o \in Buys THEN 7 ELSE 4)
      /\ spendAt(o) = (IF o \in Buys THEN 8 ELSE 7)
  BY DEF Length, fillAt, spendAt
<1> DEFINE c == intent[o].cursor
<1>3. CASE o \in Buys
  <2>1. \/ c = 0 /\ NextStep(o) = "screen"
        \/ c = 1 /\ NextStep(o) = "validate_order"
        \/ c = 2 /\ NextStep(o) = "reserve_funding"
        \/ c = 3 /\ NextStep(o) = "deploy_escrow"
        \/ c = 4 /\ NextStep(o) = "fund_execution"
        \/ c = 5 /\ NextStep(o) = "place_order"
        \/ c = 6 /\ NextStep(o) = "await_fill"
        \/ c = 7 /\ NextStep(o) = "settle_crossing"
        \/ c = 8 /\ NextStep(o) = "await_custody"
        \/ c = 9 /\ NextStep(o) = "attest_and_mint"
    BY <1>1, <1>3, StepAt
  <2> QED
    BY <1>1, <1>2, <1>3, <2>1 DEF Step
<1>4. CASE o \notin Buys
  <2>1. \/ c = 0 /\ NextStep(o) = "screen"
        \/ c = 1 /\ NextStep(o) = "validate_order"
        \/ c = 2 /\ NextStep(o) = "place_order"
        \/ c = 3 /\ NextStep(o) = "await_fill"
        \/ c = 4 /\ NextStep(o) = "reserve_payout"
        \/ c = 5 /\ NextStep(o) = "await_custody_release"
        \/ c = 6 /\ NextStep(o) = "settle_onchain"
        \/ c = 7 /\ NextStep(o) = "repatriate"
    BY <1>1, <1>4, StepAt
  <2> QED
    BY <1>1, <1>2, <1>4, <2>1 DEF Step
<1> QED
  BY <1>3, <1>4

\* An entry does not change while the order's fill does not.
LEMMA EntryStands ==
  ASSUME NEW o \in Orders, broker'[o].filled = broker[o].filled
  PROVE  \A m \in Milestones : Entry(o, m)' = Entry(o, m)
BY DEF Entry, filledQuantity

LEMMA LocalHere ==
  ASSUME Shape, Typed, NEW o \in Orders
  PROVE  Local(o)
BY DEF Local, Shape, Typed

\* A step that posts nothing, and one that posts what its milestone asks for.
LEMMA PostsNone ==
  ASSUME NEW o \in Orders, Elsewhere(o), Straight(o)', Strayed(o) => Strayed(o)',
         ledger' = ledger, broker'[o].filled = broker[o].filled,
         \A m \in Milestones : Reached(o, m)' <=> Reached(o, m)
  PROVE  Follows(o)
BY EntryStands DEF Follows, Accounted, Stands

LEMMA PostsOne ==
  ASSUME NEW o \in Orders, Elsewhere(o), Straight(o)', Strayed(o) => Strayed(o)',
         broker'[o].filled = broker[o].filled, NEW m \in Milestones, post(Entry(o, m)),
         ~Reached(o, m), Reached(o, m)',
         \A k \in Milestones \ {m} : Reached(o, k)' <=> Reached(o, k)
  PROVE  Follows(o)
<1>1. \A k \in Milestones : Entry(o, k)' = Entry(o, k)
  BY EntryStands
<1>2. Passes(o, m)
  BY <1>1 DEF Passes, Stands
<1> QED
  BY <1>2 DEF Follows, Accounted

-----------------------------------------------------------------------------
(* Ways of going on that post nothing.                                     *)

\* A step that is no milestone is taken.
LEMMA TakesQuietly ==
  ASSUME Shape, Typed, NEW o \in Orders, Straight(o), NEW step, Step(o, step),
         step \in {"screen", "validate_order", "reserve_funding", "reserve_payout",
                   "fund_execution", "place_order", "await_custody_release"},
         worker[o].at \in {"start", "reserve", "hold"},
         NEW found, MovesTo(o, intent[o], At("save", found)), Elsewhere(o),
         ledger' = ledger, order'[o] = order[o], conversion'[o] = conversion[o],
         settlement'[o] = settlement[o], o \in Buys => payout'[o] = payout[o],
         o \in unbooked' <=> o \in unbooked,
         \/ broker'[o] = broker[o]
         \/ step = "place_order" /\ broker'[o].filled = broker[o].filled,
         \/ reservation'[o] = reservation[o] /\ "reservationId" \notin found
         \/ step \in {"reserve_funding", "reserve_payout"},
         "convertedAmount" \in found => Knows(o, "justInTime"),
         step = "await_custody_release" => settlement[o] = "SETTLED"
  PROVE  Follows(o)
<1>1. Local(o) /\ broker'[o].filled = broker[o].filled
  BY LocalHere
<1>2. intent'[o] = intent[o] /\ worker'[o].at = "save" /\ worker'[o].found = found
  BY DEF MovesTo, At
<1>3. Straight(o)'
  BY <1>1, <1>2 DEF Step, Straight, OnItsWay, Untouched, Informed, BuyCourse, SellCourse,
     Strayed, Taken, Knows, IsRunning, BrokerDone, fillAt, spendAt, Length
<1>4. \A m \in Milestones : Reached(o, m)' <=> Reached(o, m)
  BY <1>1, <1>2 DEF Step, Straight, Informed, Reached, Taken, Knows, Milestones
<1>5. Strayed(o) => Strayed(o)'
  BY <1>2 DEF Step, Straight, Informed, Strayed, Knows
<1> QED
  BY <1>1, <1>3, <1>4, <1>5, PostsNone

\* A worker goes on to another place of the same step.
LEMMA GoesQuietly ==
  ASSUME Shape, Typed, NEW o \in Orders, Straight(o), NEW step, Step(o, step),
         NEW place, NEW found, MovesTo(o, intent[o], At(place, found)), Elsewhere(o),
         worker[o].at \in {"start", "reserve", "send"},
         ledger' = ledger, order'[o] = order[o], broker'[o] = broker[o],
         settlement'[o] = settlement[o], o \in Buys => payout'[o] = payout[o],
         reservation'[o] = reservation[o], o \in unbooked' <=> o \in unbooked,
         \/ /\ worker[o].at = "start" /\ conversion'[o] = conversion[o]
            /\ \/ place = "reserve" /\ step \in {"reserve_funding", "reserve_payout"}
               \/ place = "send" /\ step = "attest_and_mint"
         \/ /\ worker[o].at = "reserve" /\ conversion'[o] = conversion[o]
            /\ place = "hold" /\ step \in {"reserve_funding", "reserve_payout"}
         \/ /\ worker[o].at = "send" /\ conversion'[o] # "None" /\ place = "start"
            /\ step = "repatriate"
  PROVE  Follows(o)
<1>1. Local(o) /\ broker'[o].filled = broker[o].filled
  BY LocalHere
<1>2. intent'[o] = intent[o] /\ worker'[o].at = place
  BY DEF MovesTo, At
<1>3. Straight(o)'
  BY <1>1, <1>2 DEF Step, Straight, OnItsWay, Untouched, Informed, BuyCourse, SellCourse,
     Strayed, Taken, Knows, IsRunning, BrokerDone, fillAt, spendAt, Length
<1>4. \A m \in Milestones : Reached(o, m)' <=> Reached(o, m)
  BY <1>1, <1>2 DEF Step, Reached, Taken, Knows, Milestones
<1>5. Strayed(o) => Strayed(o)'
  BY <1>2 DEF Strayed, Knows
<1> QED
  BY <1>1, <1>3, <1>4, <1>5, PostsNone

\* An intent stops, or an operator sets it going again.
LEMMA StopsQuietly ==
  ASSUME Shape, Typed, NEW o \in Orders, Straight(o), NEW state \in States, Stop(o, state),
         state # "None", state = "COMPLETED" => intent[o].cursor = Length(o),
         intent[o].state # "None", worker[o].at \in {"start", "reserve", "cancel", "release"},
         Elsewhere(o),
         ledger' = ledger, order'[o] = order[o], conversion'[o] = conversion[o],
         settlement'[o] = settlement[o], o \in Buys => payout'[o] = payout[o],
         o \in unbooked' <=> o \in unbooked,
         broker'[o].filled = broker[o].filled,
         broker'[o] = broker[o] \/ intent[o].cursor + 1 < fillAt(o),
         \/ reservation'[o] = reservation[o]
         \/ /\ Knows(o, "reservationId") /\ reservation[o] \in {"HELD", "RELEASED"}
            /\ reservation'[o] = "RELEASED"
  PROVE  Follows(o)
<1>1. Local(o)
  BY LocalHere
<1>2. /\ intent'[o].state = state /\ intent'[o].cursor = intent[o].cursor
      /\ intent'[o].facts = intent[o].facts /\ worker'[o].at = "start"
  BY StopMoves, IdleTyped DEF MovesTo
<1>3. intent[o].cursor \in Nat /\ state # "None"
  BY <1>1 DEF Local, IntentType
<1>4. Strayed(o) => Strayed(o)'
  BY <1>2 DEF Strayed, Knows
<1>5. OnItsWay(o)' /\ Untouched(o)'
  BY <1>1, <1>2, <1>3 DEF Straight, OnItsWay, Untouched, IsRunning, Length
<1>6. Informed(o)'
  BY <1>1, <1>2, <1>3 DEF Straight, Informed, Taken, Knows, BrokerDone, fillAt, spendAt
<1>7. o \in Buys => BuyCourse(o)'
  BY <1>1, <1>2, <1>3 DEF Straight, BuyCourse, Taken
<1>8. o \notin Buys => SellCourse(o)'
  BY <1>1, <1>2, <1>3, <1>4 DEF Straight, SellCourse, Taken
<1>9. \A m \in Milestones : Reached(o, m)' <=> Reached(o, m)
  BY <1>1, <1>2, <1>3 DEF Reached, Taken, Knows, Milestones
<1> QED
  BY <1>4, <1>5, <1>6, <1>7, <1>8, <1>9, PostsNone DEF Straight

\* A step that repeats what it posted, or leaves it behind, has strayed.
LEMMA StrayedFollows ==
  ASSUME NEW o \in Orders, Elsewhere(o), Straight(o)', Strayed(o)',
         ledger'["CHAIN_ESCROW"] = ledger["CHAIN_ESCROW"],
         Reached(o, "escrowed")' <=> Reached(o, "escrowed"),
         Reached(o, "deployed")' <=> Reached(o, "deployed")
  PROVE  Follows(o)
<1>1. /\ Entry(o, "escrowed")' = Entry(o, "escrowed")
      /\ Entry(o, "deployed")' = Entry(o, "deployed")
  BY DEF Entry
<1> QED
  BY <1>1 DEF Follows, Accounted, Stands

\* A step stops at the payment that failed or at the hold that ran out.
LEMMA StopsAstray ==
  ASSUME Shape, Typed, NEW o \in Orders, Straight(o), NEW state \in States, Stop(o, state),
         state \in {"UNWINDING", "NEEDS_MANUAL"}, IsRunning(o),
         worker[o].at \in {"pay", "consume"}, Strayed(o), Elsewhere(o),
         UNCHANGED <<ledger, order, broker, conversion, payout, settlement, reservation, unbooked>>
  PROVE  Follows(o)
<1>1. Local(o)
  BY LocalHere
<1>2. /\ intent'[o].state = state /\ intent'[o].cursor = intent[o].cursor
      /\ intent'[o].facts = intent[o].facts /\ worker'[o].at = "start"
  BY StopMoves, IdleTyped DEF MovesTo
<1>3. intent[o].cursor \in Nat /\ intent[o].state = "RUNNING"
  BY <1>1 DEF Local, IntentType, IsRunning
<1>4. Strayed(o)'
  BY <1>2 DEF Strayed, Knows
<1>5. OnItsWay(o)' /\ Untouched(o)'
  BY <1>1, <1>2, <1>3 DEF Straight, OnItsWay, Untouched, IsRunning, Length
<1>6. Informed(o)'
  BY <1>1, <1>2, <1>3 DEF Straight, Informed, Taken, Knows, BrokerDone, fillAt, spendAt
<1>7. o \in Buys => BuyCourse(o)'
  BY <1>1, <1>2, <1>3 DEF Straight, BuyCourse, Taken
<1>8. o \notin Buys => SellCourse(o)'
  BY <1>1, <1>2, <1>3, <1>4 DEF Straight, SellCourse, Taken
<1>9. /\ Reached(o, "escrowed")' <=> Reached(o, "escrowed")
      /\ Reached(o, "deployed")' <=> Reached(o, "deployed")
  BY <1>1, <1>2, <1>3 DEF Reached, Taken
<1> QED
  BY <1>4, <1>5, <1>6, <1>7, <1>8, <1>9, StrayedFollows DEF Straight

-----------------------------------------------------------------------------
(* The steps of both sagas.                                                *)

\* What is about one order only.
LEMMA ElsewhereKept ==
  ASSUME Shape, Typed, NEW o \in Orders,
         \/ UNCHANGED <<intent, worker>>
         \/ \E i, t : MovesTo(o, i, t)
         \/ \E state : Stop(o, state),
         order' = order \/ \E x : order' = [order EXCEPT ![o] = x],
         broker' = broker \/ \E x : broker' = [broker EXCEPT ![o] = x],
         conversion' = conversion \/ \E x : conversion' = [conversion EXCEPT ![o] = x],
         payout' = payout \/ \E x : payout' = [payout EXCEPT ![o] = x],
         settlement' = settlement \/ \E x : settlement' = [settlement EXCEPT ![o] = x],
         reservation' = reservation \/ \E x : reservation' = [reservation EXCEPT ![o] = x],
         \/ unbooked' = unbooked \/ unbooked' = unbooked \ {o}
         \/ unbooked' = unbooked \cup ({o} \cap Buys)
  PROVE  Elsewhere(o)
<1>1. /\ \A p \in Orders \ {o} : intent'[p] = intent[p] /\ worker'[p] = worker[p]
  BY DEF MovesTo, Stop, Shape
<1> QED
  BY <1>1 DEF Elsewhere, Shape, Typed

LEMMA ChooseFollows ==
  ASSUME Shape, Typed, NEW o \in Orders, Straight(o), chooseFunding(o)
  PROVE  Follows(o)
<1>1. /\ Step(o, ReserveStep(o)) /\ worker[o].at = "start"
      /\ UNCHANGED <<order, broker, conversion, payout, settlement, reservation, unbooked, ledger>>
      /\ ReserveStep(o) \in {"reserve_funding", "reserve_payout"}
  BY StepKnown DEF chooseFunding, worldVars, storeVars, ReserveStep
<1>2. CASE Goto(o, "reserve")
  <2>1. MovesTo(o, intent[o], At("reserve", worker[o].found))
    BY <1>2, GotoMoves DEF Places
  <2>2. Elsewhere(o)
    BY <1>1, <2>1, ElsewhereKept
  <2> QED
    BY <1>1, <2>1, <2>2, GoesQuietly
<1>3. CASE ADVANCE(o, {"justInTime"})
  <2>1. MovesTo(o, intent[o], At("save", {"justInTime"}))
    BY <1>3, AdvanceMoves DEF Facts
  <2>2. Elsewhere(o)
    BY <1>1, <2>1, ElsewhereKept
  <2> QED
    BY <1>1, <2>1, <2>2, TakesQuietly
<1>4. CASE Stop(o, "UNWINDING")
  <2>1. Elsewhere(o) /\ intent[o].state # "None"
    BY <1>1, <1>4, ElsewhereKept DEF Step, IsRunning
  <2> QED
    BY <1>1, <1>4, <2>1, StopsQuietly DEF States
<1> QED
  BY <1>2, <1>3, <1>4 DEF chooseFunding, UNWIND

LEMMA ReserveFollows ==
  ASSUME Shape, Typed, NEW o \in Orders, Straight(o), reserve(o)
  PROVE  Follows(o)
<1>1. /\ Step(o, ReserveStep(o)) /\ worker[o].at = "reserve"
      /\ UNCHANGED <<order, broker, conversion, payout, settlement, reservation, unbooked, ledger>>
      /\ ReserveStep(o) \in {"reserve_funding", "reserve_payout"}
  BY StepKnown DEF reserve, worldVars, storeVars, ReserveStep
<1>2. CASE ADVANCE(o, {"reservationId"})
  <2>1. MovesTo(o, intent[o], At("save", {"reservationId"}))
    BY <1>2, AdvanceMoves DEF Facts
  <2>2. Elsewhere(o)
    BY <1>1, <2>1, ElsewhereKept
  <2> QED
    BY <1>1, <2>1, <2>2, TakesQuietly
<1>3. CASE Stop(o, "UNWINDING")
  <2>1. Elsewhere(o) /\ intent[o].state # "None"
    BY <1>1, <1>3, ElsewhereKept DEF Step, IsRunning
  <2> QED
    BY <1>1, <1>3, <2>1, StopsQuietly DEF States
<1>4. CASE Goto(o, "hold")
  <2>1. MovesTo(o, intent[o], At("hold", worker[o].found))
    BY <1>4, GotoMoves DEF Places
  <2>2. Elsewhere(o)
    BY <1>1, <2>1, ElsewhereKept
  <2> QED
    BY <1>1, <2>1, <2>2, GoesQuietly
<1> QED
  BY <1>2, <1>3, <1>4 DEF reserve, UNWIND

LEMMA HoldFollows ==
  ASSUME Shape, Typed, NEW o \in Orders, Straight(o), hold(o)
  PROVE  Follows(o)
<1>1. /\ Step(o, ReserveStep(o)) /\ worker[o].at = "hold"
      /\ UNCHANGED <<order, broker, conversion, payout, settlement, unbooked, ledger>>
      /\ ReserveStep(o) \in {"reserve_funding", "reserve_payout"}
      /\ reservation' = [reservation EXCEPT ![o] = "HELD"]
      /\ ADVANCE(o, {"reservationId"})
  BY StepKnown DEF hold, worldVars, ReserveStep
<1>2. MovesTo(o, intent[o], At("save", {"reservationId"}))
  BY <1>1, AdvanceMoves DEF Facts
<1>3. Elsewhere(o)
  BY <1>1, <1>2, ElsewhereKept
<1> QED
  BY <1>1, <1>2, <1>3, TakesQuietly

LEMMA ScreenFollows ==
  ASSUME Shape, Typed, NEW o \in Orders, Straight(o), screen(o) \/ validate_order(o)
  PROVE  Follows(o)
<1>1. PICK step \in {"screen", "validate_order"} :
         /\ Step(o, step) /\ worker[o].at = "start"
         /\ UNCHANGED <<order, broker, conversion, payout, settlement, reservation, unbooked, ledger>>
         /\ ADVANCE(o, {}) \/ Stop(o, "UNWINDING") \/ Stop(o, "NEEDS_MANUAL")
  BY StepKnown DEF screen, validate_order, worldVars, storeVars, UNWIND, MANUAL
<1>2. CASE ADVANCE(o, {})
  <2>1. MovesTo(o, intent[o], At("save", {}))
    BY <1>2, AdvanceMoves
  <2>2. Elsewhere(o)
    BY <1>1, <2>1, ElsewhereKept
  <2> QED
    BY <1>1, <2>1, <2>2, TakesQuietly
<1>3. CASE Stop(o, "UNWINDING") \/ Stop(o, "NEEDS_MANUAL")
  <2>1. Elsewhere(o) /\ intent[o].state # "None"
    BY <1>1, <1>3, ElsewhereKept DEF Step, IsRunning
  <2> QED
    BY <1>1, <1>3, <2>1, StopsQuietly DEF States
<1> QED
  BY <1>1, <1>2, <1>3

LEMMA PlaceFollows ==
  ASSUME Shape, Typed, NEW o \in Orders, Straight(o), place_order(o)
  PROVE  Follows(o)
<1>1. /\ Step(o, "place_order") /\ worker[o].at = "start"
      /\ UNCHANGED <<order, conversion, payout, settlement, reservation, unbooked, ledger>>
  BY StepKnown DEF place_order, storeVars
<1>2. broker[o] \in BrokerOrder /\ intent[o].state # "None" /\ intent[o].cursor + 1 < fillAt(o)
  BY <1>1 DEF Shape, Step, IsRunning
<1>3. \A x : broker' = [broker EXCEPT ![o].status = x] =>
         /\ broker'[o].filled = broker[o].filled
         /\ \E y : broker' = [broker EXCEPT ![o] = y]
  <2> SUFFICES ASSUME NEW x, broker' = [broker EXCEPT ![o].status = x]
               PROVE  /\ broker'[o].filled = broker[o].filled
                      /\ \E y : broker' = [broker EXCEPT ![o] = y]
    OBVIOUS
  <2> DEFINE b == [broker[o] EXCEPT !.status = x]
  <2>1. broker' = [broker EXCEPT ![o] = b] /\ b.filled = broker[o].filled
    BY <1>2 DEF BrokerOrder
  <2> HIDE DEF b
  <2> QED
    BY <2>1 DEF Shape
<1>4. /\ broker'[o].filled = broker[o].filled
      /\ broker' = broker \/ \E y : broker' = [broker EXCEPT ![o] = y]
  BY <1>3 DEF place_order
<1>5. CASE ADVANCE(o, {})
  <2>1. MovesTo(o, intent[o], At("save", {}))
    BY <1>5, AdvanceMoves
  <2>2. Elsewhere(o)
    BY <1>1, <1>4, <2>1, ElsewhereKept
  <2> QED
    BY <1>1, <1>4, <2>1, <2>2, TakesQuietly
<1>6. CASE Stop(o, "UNWINDING")
  <2>1. Elsewhere(o)
    BY <1>1, <1>4, <1>6, ElsewhereKept
  <2> QED
    BY <1>1, <1>2, <1>4, <1>6, <2>1, StopsQuietly DEF States
<1> QED
  BY <1>5, <1>6 DEF place_order, UNWIND

\* A milestone is passed as its step is taken.
LEMMA TakesPosting ==
  ASSUME Shape, Typed, NEW o \in Orders, Straight(o), NEW step, Step(o, step),
         NEW m \in Milestones,
         \/ step = "deploy_escrow" /\ worker[o].at = "book" /\ m = "deployed"
         \/ step = "await_fill" /\ worker[o].at = "start" /\ BrokerDone(o) /\ m = "filled"
         \/ step = "await_custody" /\ worker[o].at = "start" /\ m = "received"
         \/ step = "attest_and_mint" /\ worker[o].at = "book" /\ m = "minted"
         \/ /\ step = "repatriate" /\ worker[o].at = "start" /\ conversion[o] = "SETTLED"
            /\ m = "home",
         ADVANCE(o, {}), UNCHANGED <<worldVars, reservation, unbooked>>, post(Entry(o, m))
  PROVE  Follows(o)
<1>1. Local(o)
  BY LocalHere
<1>2. MovesTo(o, intent[o], At("save", {}))
  BY AdvanceMoves
<1>3. /\ intent'[o] = intent[o] /\ worker'[o].at = "save" /\ worker'[o].found = {}
      /\ UNCHANGED <<order, broker, conversion, payout, settlement, reservation, unbooked>>
  BY <1>2 DEF MovesTo, At, worldVars
<1>4. Elsewhere(o)
  BY <1>2, <1>3, ElsewhereKept
<1>5. Straight(o)'
  BY <1>1, <1>3 DEF Step, Straight, OnItsWay, Untouched, Informed, BuyCourse, SellCourse,
     Strayed, Taken, Knows, IsRunning, BrokerDone, fillAt, spendAt, Length
<1>6. /\ ~Reached(o, m) /\ Reached(o, m)'
      /\ \A k \in Milestones \ {m} : Reached(o, k)' <=> Reached(o, k)
  <2>1. CASE step = "deploy_escrow"
    BY <1>1, <1>3, <2>1 DEF Step, Reached, Taken, Knows, Milestones
  <2>2. CASE step = "await_fill"
    BY <1>1, <1>3, <2>2 DEF Step, Reached, Taken, Knows, Milestones
  <2>3. CASE step = "await_custody"
    BY <1>1, <1>3, <2>3 DEF Step, Reached, Taken, Knows, Milestones
  <2>4. CASE step = "attest_and_mint"
    BY <1>1, <1>3, <2>4 DEF Step, Reached, Taken, Knows, Milestones
  <2>5. CASE step = "repatriate"
    BY <1>1, <1>3, <2>5 DEF Step, Reached, Taken, Knows, Milestones
  <2> QED
    BY <2>1, <2>2, <2>3, <2>4, <2>5
<1>7. Strayed(o) => Strayed(o)'
  BY <1>3 DEF Strayed, Knows
<1> QED
  BY <1>3, <1>4, <1>5, <1>6, <1>7, PostsOne

LEMMA FillFollows ==
  ASSUME Shape, Typed, NEW o \in Orders, Straight(o), await_fill(o)
  PROVE  Follows(o)
<1>1. /\ Step(o, "await_fill") /\ worker[o].at = "start"
      /\ UNCHANGED <<worldVars, reservation, unbooked>>
  BY StepKnown DEF await_fill
<1>2. CASE /\ BrokerDone(o) /\ ADVANCE(o, {})
           /\ post(IF o \in Buys THEN buyFilled(filledQuantity(o)) ELSE sellFilled(filledQuantity(o)))
  <2>1. post(Entry(o, "filled")) /\ "filled" \in Milestones
    BY <1>2 DEF Entry, Milestones
  <2> QED
    BY <1>1, <1>2, <2>1, TakesPosting
<1>3. CASE (Stop(o, "UNWINDING") \/ Stop(o, "NEEDS_MANUAL")) /\ UNCHANGED ledger
  <2>1. Elsewhere(o) /\ intent[o].state # "None"
    BY <1>1, <1>3, ElsewhereKept DEF Step, IsRunning, worldVars
  <2> QED
    BY <1>1, <1>3, <2>1, StopsQuietly DEF States, worldVars
<1> QED
  BY <1>2, <1>3 DEF await_fill, UNWIND, MANUAL

\* A stage is saved: what was reached by it is.
LEMMA SaveFollows ==
  ASSUME Shape, Typed, NEW o \in Orders, Straight(o), save(o)
  PROVE  Follows(o)
<1> DEFINE next == intent[o].cursor + 1
           i == [state  |-> IF next = Length(o) THEN "COMPLETED" ELSE "RUNNING",
                 cursor |-> next,
                 facts  |-> intent[o].facts \cup worker[o].found]
<1>1. /\ intent' = [intent EXCEPT ![o] = i] /\ worker' = [worker EXCEPT ![o] = Idle]
      /\ worker[o].at = "save" /\ intent[o].cursor \in Nat /\ IsRunning(o)
      /\ i.state = (IF next = Length(o) THEN "COMPLETED" ELSE "RUNNING")
      /\ i.cursor = intent[o].cursor + 1 /\ i.facts = intent[o].facts \cup worker[o].found
      /\ UNCHANGED <<order, broker, conversion, payout, settlement, reservation, unbooked, ledger>>
  BY SagaLength DEF save, Shape, IntentType, IsRunning, worldVars, storeVars
<1> HIDE DEF i
<1>2. /\ intent'[o].cursor = intent[o].cursor + 1 /\ worker'[o].at = "start"
      /\ intent'[o].state = (IF next = Length(o) THEN "COMPLETED" ELSE "RUNNING")
      /\ intent'[o].facts = intent[o].facts \cup worker[o].found
      /\ \A p \in Orders \ {o} : intent'[p] = intent[p] /\ worker'[p] = worker[p]
  BY <1>1, IdleTyped DEF Shape
<1> HIDE DEF next
<1>3. Local(o) /\ Elsewhere(o) /\ next = intent[o].cursor + 1
  BY <1>1, <1>2, LocalHere DEF Elsewhere, next
<1>4. Strayed(o) => Strayed(o)'
  BY <1>1, <1>2 DEF Strayed, Knows
<1>5. OnItsWay(o)' /\ Untouched(o)'
  BY <1>1, <1>2, <1>3 DEF Straight, OnItsWay, Untouched, IsRunning, Length
<1>6. Informed(o)'
  BY <1>1, <1>2, <1>3 DEF Straight, Informed, Taken, Knows, BrokerDone, fillAt, spendAt
<1>7. o \in Buys => BuyCourse(o)'
  BY <1>1, <1>2, <1>3 DEF Straight, BuyCourse, Taken
<1>8. o \notin Buys => SellCourse(o)'
  BY <1>1, <1>2, <1>3, <1>4 DEF Straight, SellCourse, Taken
<1>9. CASE Knows(o, "convertedAmount")' => Knows(o, "convertedAmount") \/ Taken(o, 8)
  <2>1. \A m \in Milestones : Reached(o, m)' <=> Reached(o, m)
    BY <1>1, <1>2, <1>3, <1>9 DEF Reached, Taken, Knows, Milestones, IsRunning
  <2> QED
    BY <1>1, <1>3, <1>4, <1>5, <1>6, <1>7, <1>8, <2>1, PostsNone DEF Straight
<1>10. CASE Knows(o, "convertedAmount")' /\ ~Knows(o, "convertedAmount") /\ o \in Buys
  <2>1. Strayed(o)'
    BY <1>1, <1>2, <1>10 DEF Straight, Informed, Strayed, Knows
  <2>2. /\ Reached(o, "escrowed")' <=> Reached(o, "escrowed")
        /\ Reached(o, "deployed")' <=> Reached(o, "deployed")
    BY <1>1, <1>2, <1>3 DEF Reached, Taken, IsRunning
  <2> QED
    BY <1>1, <1>3, <1>5, <1>6, <1>7, <1>8, <2>1, <2>2, StrayedFollows DEF Straight
<1>11. CASE o \notin Buys
  <2>1. \A m \in Milestones : Reached(o, m)' <=> Reached(o, m)
    BY <1>1, <1>2, <1>3, <1>11 DEF Reached, Taken, Milestones, IsRunning
  <2> QED
    BY <1>1, <1>3, <1>4, <1>5, <1>6, <1>7, <1>8, <2>1, PostsNone DEF Straight
<1> QED
  BY <1>9, <1>10, <1>11

LEMMA CompleteFollows ==
  ASSUME Shape, Typed, NEW o \in Orders, Straight(o), complete(o)
  PROVE  Follows(o)
<1>1. /\ Stop(o, "COMPLETED") /\ IsRunning(o) /\ ~(intent[o].cursor < Length(o))
      /\ UNCHANGED <<order, broker, conversion, payout, settlement, reservation, unbooked, ledger>>
  BY SagaLength DEF complete, Driven, IsRunning, worldVars, storeVars
<1>2. Elsewhere(o) /\ intent[o].state # "None"
  BY <1>1, ElsewhereKept DEF IsRunning
<1>3. /\ intent[o].cursor \in Nat /\ Length(o) \in Nat /\ worker[o] \in WorkerType
  BY DEF Shape, IntentType, Length
<1>4. /\ intent[o].cursor = Length(o)
      /\ worker[o].at = "start"
  BY <1>1, <1>3 DEF Straight, OnItsWay, IsRunning, Length, spendAt, WorkerType, Places
<1> QED
  BY <1>1, <1>2, <1>4, StopsQuietly DEF States

LEMMA ConsumeFollows ==
  ASSUME Shape, Typed, NEW o \in Orders, Straight(o), consume(o)
  PROVE  Follows(o)
<1>1. /\ worker[o].at = "consume" /\ IsRunning(o) /\ intent[o].cursor + 1 = spendAt(o)
      /\ UNCHANGED <<order, broker, conversion, payout, settlement, unbooked, ledger>>
  BY DEF consume, worldVars, Straight, OnItsWay
<1>2. Local(o) /\ intent[o].cursor \in Nat
  BY LocalHere DEF Local, IntentType
<1>3. CASE /\ ADVANCE(o, {})
           /\ \/ ~Knows(o, "reservationId") /\ UNCHANGED reservation
              \/ /\ reservation[o] \in {"HELD", "CONSUMED"}
                 /\ reservation' = [reservation EXCEPT ![o] = "CONSUMED"]
  <2>1. MovesTo(o, intent[o], At("save", {}))
    BY <1>3, AdvanceMoves
  <2>2. /\ intent'[o] = intent[o] /\ worker'[o].at = "save" /\ worker'[o].found = {}
        /\ reservation'[o] = reservation[o] \/ reservation'[o] = "CONSUMED"
        /\ Knows(o, "reservationId") => reservation'[o] = "CONSUMED"
    BY <1>3, <2>1 DEF MovesTo, At, Shape
  <2>3. Elsewhere(o)
    BY <1>1, <1>3, <2>1, ElsewhereKept
  <2>4. Strayed(o) => Strayed(o)'
    BY <1>1, <1>3, <2>2 DEF Strayed, Knows
  <2>5. OnItsWay(o)' /\ Untouched(o)' /\ Informed(o)'
    BY <1>1, <1>2, <2>2 DEF Straight, OnItsWay, Untouched, Informed, BuyCourse, SellCourse,
       Taken, Knows, IsRunning, BrokerDone, fillAt, spendAt, Length
  <2>6. (o \in Buys => BuyCourse(o)') /\ (o \notin Buys => SellCourse(o)')
    BY <1>1, <1>2, <2>2, <2>4 DEF Straight, BuyCourse, SellCourse, Taken, spendAt
  <2>7. \A m \in Milestones : Reached(o, m)' <=> Reached(o, m)
    BY <1>1, <1>2, <2>2 DEF Reached, Taken, Knows, Milestones, spendAt
  <2> QED
    BY <1>1, <2>3, <2>4, <2>5, <2>6, <2>7, PostsNone DEF Straight
<1>4. CASE /\ UNCHANGED reservation /\ Stop(o, "UNWINDING")
           /\ Knows(o, "reservationId") /\ reservation[o] \notin {"HELD", "CONSUMED"}
  <2>1. Elsewhere(o) /\ Strayed(o)
    BY <1>1, <1>4, ElsewhereKept DEF Strayed
  <2> QED
    BY <1>1, <1>4, <2>1, StopsAstray DEF States
<1> QED
  BY <1>3, <1>4 DEF consume, UNWIND

\* Unwinding goes on from one compensation to the next.
LEMMA UnwindFollows ==
  ASSUME Shape, Typed, NEW o \in Orders, Straight(o), unwind(o) \/ cancelOrder(o)
  PROVE  Follows(o)
<1>1. /\ UNCHANGED <<order, conversion, payout, settlement, reservation, unbooked, ledger>>
      /\ worker[o].at \in {"start", "cancel"} /\ intent[o].state = "UNWINDING"
  BY DEF unwind, cancelOrder, worldVars, storeVars, Straight, OnItsWay
<1>2. Local(o) /\ intent[o].cursor \in Nat
  BY LocalHere DEF Local, IntentType
<1>3. ASSUME NEW place \in {"cancel", "release"}, Goto(o, place),
             broker'[o].filled = broker[o].filled,
             broker'[o] = broker[o] \/ broker'[o].status = "CANCELLED",
             \A p \in Orders \ {o} : broker'[p] = broker[p]
      PROVE  Follows(o)
  <2>1. MovesTo(o, intent[o], At(place, worker[o].found))
    BY <1>3, GotoMoves DEF Places
  <2>2. intent'[o] = intent[o] /\ worker'[o].at = place
    BY <2>1 DEF MovesTo, At
  <2>3. Elsewhere(o)
    BY <1>1, <1>3, <2>1 DEF Elsewhere, MovesTo
  <2>4. Straight(o)'
    BY <1>1, <1>2, <1>3, <2>2 DEF Straight, OnItsWay, Untouched, Informed, BuyCourse,
       SellCourse, Strayed, Taken, Knows, IsRunning, BrokerDone, fillAt, spendAt, Length
  <2>5. \A m \in Milestones : Reached(o, m)' <=> Reached(o, m)
    BY <1>1, <1>2, <1>3, <2>2 DEF Reached, Taken, Knows, Milestones
  <2>6. Strayed(o) => Strayed(o)'
    BY <1>1, <2>2 DEF Strayed, Knows
  <2> QED
    BY <1>1, <1>3, <2>3, <2>4, <2>5, <2>6, PostsNone
<1>4. CASE unwind(o)
  <2>1. broker' = broker /\ (Goto(o, "cancel") \/ Goto(o, "release"))
    BY <1>4 DEF unwind, worldVars
  <2> QED
    BY <1>3, <2>1
<1>5. CASE cancelOrder(o) /\ MANUAL(o) /\ UNCHANGED broker
  <2>1. Elsewhere(o)
    BY <1>1, <1>5, ElsewhereKept DEF MANUAL
  <2> QED
    BY <1>1, <1>5, <2>1, StopsQuietly DEF MANUAL, States
<1>6. CASE Goto(o, "release") /\ broker' = [broker EXCEPT ![o].status = "CANCELLED"]
  <2> DEFINE b == [broker[o] EXCEPT !.status = "CANCELLED"]
  <2>1. broker' = [broker EXCEPT ![o] = b]
    BY <1>6
  <2>2. b.filled = broker[o].filled /\ b.status = "CANCELLED"
    BY <1>2 DEF Local, BrokerOrder
  <2> HIDE DEF b
  <2>3. broker'[o] = b /\ \A p \in Orders \ {o} : broker'[p] = broker[p]
    BY <2>1 DEF Shape
  <2> QED
    BY <1>3, <1>6, <2>2, <2>3
<1> QED
  BY <1>4, <1>5, <1>6 DEF cancelOrder

LEMMA ReleaseFollows ==
  ASSUME Shape, Typed, NEW o \in Orders, Straight(o), release(o)
  PROVE  Follows(o)
<1>1. /\ worker[o].at = "release" /\ intent[o].state = "UNWINDING"
      /\ UNCHANGED <<order, broker, conversion, payout, settlement, unbooked, ledger>>
  BY DEF release, worldVars, Straight, OnItsWay
<1>2. /\ Stop(o, "CANCELLED") \/ Stop(o, "NEEDS_MANUAL")
      /\ \/ UNCHANGED reservation
         \/ /\ Knows(o, "reservationId") /\ reservation[o] \in {"HELD", "RELEASED"}
            /\ reservation' = [reservation EXCEPT ![o] = "RELEASED"]
  BY DEF release, MANUAL
<1>3. /\ Elsewhere(o)
      /\ \/ reservation'[o] = reservation[o]
         \/ /\ Knows(o, "reservationId") /\ reservation[o] \in {"HELD", "RELEASED"}
            /\ reservation'[o] = "RELEASED"
  BY <1>1, <1>2, ElsewhereKept DEF Shape
<1> QED
  BY <1>1, <1>2, <1>3, StopsQuietly DEF States

LEMMA DriveFollows ==
  ASSUME Shape, Typed, NEW o \in Orders, Straight(o), Drive(o)
  PROVE  Follows(o)
<1>1. ~recover(o)
  BY DEF recover, Straight, OnItsWay
<1> QED
  BY <1>1, SaveFollows, CompleteFollows, ChooseFollows, ReserveFollows, HoldFollows,
     ConsumeFollows, ScreenFollows, PlaceFollows, FillFollows, UnwindFollows, ReleaseFollows DEF Drive

-----------------------------------------------------------------------------
(* The steps of a purchase.                                                *)

LEMMA DeployFollows ==
  ASSUME Shape, Typed, NEW o \in Buys, Straight(o), deploy_escrow(o)
  PROVE  Follows(o)
<1>1. /\ o \in Orders /\ Step(o, "deploy_escrow") /\ worker[o].at = "start"
      /\ UNCHANGED <<broker, conversion, payout, settlement, reservation, unbooked, ledger>>
  BY StepKnown DEF deploy_escrow, storeVars, Orders
<1>2. Local(o) /\ intent[o].cursor = 3
  BY <1>1, LocalHere DEF Step
<1>3. order[o] # "DEPLOYED"
  BY <1>1, <1>2 DEF Straight, BuyCourse, Taken
<1>4. CASE order' = [order EXCEPT ![o] = "DEPLOYED"] /\ Goto(o, "book") /\ order[o] = "PENDING"
  <2>1. MovesTo(o, intent[o], At("book", worker[o].found))
    BY <1>1, <1>4, GotoMoves DEF Places
  <2>2. intent'[o] = intent[o] /\ worker'[o].at = "book" /\ order'[o] = "DEPLOYED"
    BY <1>1, <1>4, <2>1 DEF MovesTo, At, Shape
  <2>3. Elsewhere(o)
    BY <1>1, <1>4, <2>1, ElsewhereKept
  <2>4. Straight(o)'
    BY <1>1, <1>2, <2>2 DEF Step, Straight, OnItsWay, Untouched, Informed, BuyCourse, Taken,
       Knows, IsRunning, BrokerDone, fillAt, spendAt, Length
  <2>5. \A m \in Milestones : Reached(o, m)' <=> Reached(o, m)
    BY <1>1, <1>2, <2>2 DEF Reached, Taken, Knows, Milestones
  <2>6. Strayed(o) => Strayed(o)'
    BY <1>1, <2>2 DEF Strayed, Knows
  <2> QED
    BY <1>1, <2>3, <2>4, <2>5, <2>6, PostsNone
<1>5. CASE Stop(o, "UNWINDING") /\ UNCHANGED order
  <2>1. Elsewhere(o) /\ intent[o].state # "None"
    BY <1>1, <1>5, ElsewhereKept DEF Step, IsRunning
  <2> QED
    BY <1>1, <1>5, <2>1, StopsQuietly DEF States
<1> QED
  BY <1>3, <1>4, <1>5 DEF deploy_escrow, UNWIND

LEMMA BookFollows ==
  ASSUME Shape, Typed, NEW o \in Buys, Straight(o), bookDeployed(o) \/ bookMinted(o)
  PROVE  Follows(o)
<1>1. o \in Orders
  BY DEF Orders
<1>2. CASE bookDeployed(o)
  <2>1. /\ Step(o, "deploy_escrow") /\ worker[o].at = "book" /\ ADVANCE(o, {})
        /\ UNCHANGED <<worldVars, reservation, unbooked>> /\ post(Entry(o, "deployed"))
    BY <1>1, <1>2, StepKnown DEF bookDeployed, Entry
  <2> QED
    BY <1>1, <2>1, TakesPosting DEF Milestones
<1>3. CASE bookMinted(o)
  <2>1. /\ Step(o, "attest_and_mint") /\ worker[o].at = "book" /\ ADVANCE(o, {})
        /\ UNCHANGED <<worldVars, reservation, unbooked>> /\ post(Entry(o, "minted"))
    BY <1>1, <1>3, StepKnown DEF bookMinted, Entry
  <2> QED
    BY <1>1, <2>1, TakesPosting DEF Milestones
<1> QED
  BY <1>2, <1>3

LEMMA CustodyFollows ==
  ASSUME Shape, Typed, NEW o \in Buys, Straight(o), await_custody(o)
  PROVE  Follows(o)
<1>1. /\ o \in Orders /\ Step(o, "await_custody") /\ worker[o].at = "start"
      /\ UNCHANGED <<worldVars, reservation, unbooked>>
  BY StepKnown DEF await_custody, Orders
<1>2. CASE ADVANCE(o, {}) /\ post(custodySettled(filledQuantity(o)))
  <2>1. post(Entry(o, "received"))
    BY <1>2 DEF Entry
  <2> QED
    BY <1>1, <1>2, <2>1, TakesPosting DEF Milestones
<1>3. CASE Stop(o, "NEEDS_MANUAL") /\ UNCHANGED ledger
  <2>1. Elsewhere(o) /\ intent[o].state # "None"
    BY <1>1, <1>3, ElsewhereKept DEF Step, IsRunning, worldVars
  <2> QED
    BY <1>1, <1>3, <2>1, StopsQuietly DEF States, worldVars
<1> QED
  BY <1>2, <1>3 DEF await_custody, MANUAL

LEMMA AttestFollows ==
  ASSUME Shape, Typed, NEW o \in Buys, Straight(o), attest_and_mint(o)
  PROVE  Follows(o)
<1>1. /\ o \in Orders /\ Step(o, "attest_and_mint") /\ worker[o].at = "start"
      /\ UNCHANGED <<order, broker, conversion, payout, settlement, reservation, unbooked, ledger>>
  BY StepKnown DEF attest_and_mint, worldVars, storeVars, Orders
<1>2. CASE Goto(o, "send")
  <2>1. MovesTo(o, intent[o], At("send", worker[o].found))
    BY <1>1, <1>2, GotoMoves DEF Places
  <2>2. Elsewhere(o)
    BY <1>1, <2>1, ElsewhereKept
  <2> QED
    BY <1>1, <2>1, <2>2, GoesQuietly
<1>3. CASE Stop(o, "NEEDS_MANUAL")
  <2>1. Elsewhere(o) /\ intent[o].state # "None"
    BY <1>1, <1>3, ElsewhereKept DEF Step, IsRunning
  <2> QED
    BY <1>1, <1>3, <2>1, StopsQuietly DEF States
<1> QED
  BY <1>2, <1>3 DEF attest_and_mint, MANUAL

\* The chain and the counterparties move, and the intent stays where it is.
LEMMA StaysQuietly ==
  ASSUME Shape, Typed, NEW o \in Orders, Straight(o), Elsewhere(o),
         UNCHANGED <<intent, worker, ledger>>, o \in unbooked' <=> o \in unbooked,
         order'[o] = order[o] \/ (order[o] = "PENDING" /\ order'[o] = "CANCELLED"),
         \/ broker'[o] = broker[o]
         \/ /\ broker[o].status \in {"NEW", "PARTIALLY_FILLED"}
            /\ broker'[o].status # "None",
         \/ conversion'[o] = conversion[o]
         \/ conversion[o] = "PENDING" /\ conversion'[o] # "None"
         \/ o \in Buys /\ intent[o].state # "None",
         o \in Buys =>
            \/ payout'[o] = payout[o] \/ payout[o] = "PENDING"
            \/ payout[o] = "None" /\ intent[o].state # "None",
         settlement'[o] = settlement[o] \/ settlement[o] # "SETTLED",
         reservation'[o] = reservation[o]
            \/ (reservation[o] = "HELD" /\ reservation'[o] = "EXPIRED")
  PROVE  Follows(o)
<1>1. Local(o) /\ intent[o].cursor \in Nat
  BY LocalHere DEF Local, IntentType
<1>2. Strayed(o) => Strayed(o)'
  BY DEF Strayed, Knows
<1>3. OnItsWay(o)' /\ Untouched(o)' /\ Informed(o)'
  BY <1>1 DEF Straight, OnItsWay, Untouched, Informed, Taken, Knows, IsRunning, BrokerDone,
     fillAt, spendAt, Length, Local, Operations
<1>4. o \in Buys => BuyCourse(o)'
  BY <1>1 DEF Straight, BuyCourse, Taken
<1>5. o \notin Buys => SellCourse(o)'
  BY <1>1, <1>2 DEF Straight, SellCourse, Taken
<1>6. \A m \in Milestones : Reached(o, m)' <=> Reached(o, m)
  BY <1>1 DEF Straight, Untouched, Reached, Taken, Knows, Milestones
<1>7. ASSUME NEW m \in Milestones, Reached(o, m)
      PROVE  Entry(o, m)' = Entry(o, m)
  <2>1. CASE broker'[o].filled = broker[o].filled
    BY <2>1, EntryStands
  <2>2. CASE ~BrokerDone(o)
    <3>1. m \in {"escrowed", "deployed", "converted", "funded", "sent"}
      BY <1>1, <1>7, <2>2 DEF Straight, OnItsWay, Informed, Reached, Taken, Milestones,
         fillAt, spendAt, Knows
    <3> QED
      BY <3>1 DEF Entry
  <2> QED
    BY <2>1, <2>2 DEF BrokerDone
<1> QED
  BY <1>2, <1>3, <1>4, <1>5, <1>6, <1>7 DEF Follows, Accounted, Stands, Straight

LEMMA ConfirmFollows ==
  ASSUME Shape, Typed, NEW o \in Buys, Straight(o), confirmBuy(o)
  PROVE  Follows(o)
<1>1. /\ o \in Orders /\ Step(o, "attest_and_mint") /\ worker[o].at = "send"
      /\ UNCHANGED <<broker, conversion, payout, settlement, reservation, unbooked, ledger>>
  BY StepKnown DEF confirmBuy, storeVars, Orders
<1>2. Local(o) /\ intent[o].cursor = 9
  BY <1>1, LocalHere DEF Step
<1>3. order[o] # "FILLED"
  BY <1>1, <1>2 DEF Straight, BuyCourse, Taken
<1>4. order' = [order EXCEPT ![o] = "FILLED"] /\ Goto(o, "book") /\ order[o] = "DEPLOYED"
  BY <1>3 DEF confirmBuy
<1>5. MovesTo(o, intent[o], At("book", worker[o].found))
  BY <1>1, <1>4, GotoMoves DEF Places
<1>6. intent'[o] = intent[o] /\ worker'[o].at = "book" /\ order'[o] = "FILLED"
  BY <1>1, <1>4, <1>5 DEF MovesTo, At, Shape
<1>7. Elsewhere(o)
  BY <1>1, <1>4, <1>5, ElsewhereKept
<1>8. Straight(o)'
  BY <1>1, <1>2, <1>6 DEF Step, Straight, OnItsWay, Untouched, Informed, BuyCourse, Taken,
     Knows, IsRunning, BrokerDone, fillAt, spendAt, Length
<1>9. \A m \in Milestones : Reached(o, m)' <=> Reached(o, m)
  BY <1>1, <1>2, <1>6 DEF Reached, Taken, Knows, Milestones
<1>10. Strayed(o) => Strayed(o)'
  BY <1>1, <1>6 DEF Strayed, Knows
<1> QED
  BY <1>1, <1>7, <1>8, <1>9, <1>10, PostsNone

LEMMA FundFollows ==
  ASSUME Shape, Typed, NEW o \in Buys, Straight(o), startConversion(o) \/ fund_execution(o)
  PROVE  Follows(o)
<1>1. /\ o \in Orders /\ Step(o, "fund_execution") /\ worker[o].at = "start"
      /\ UNCHANGED <<order, broker, settlement, reservation, unbooked, ledger>>
      /\ intent[o].state # "None"
  BY StepKnown DEF startConversion, fund_execution, storeVars, Orders, Step, IsRunning
<1>2. CASE /\ UNCHANGED <<intent, worker>>
           /\ \/ conversion' = [conversion EXCEPT ![o] = "PENDING"] /\ UNCHANGED payout
              \/ /\ UNCHANGED conversion /\ payout[o] = "None"
                 /\ payout' = [payout EXCEPT ![o] = "PENDING"]
  <2>1. Elsewhere(o)
    BY <1>1, <1>2, ElsewhereKept
  <2> QED
    BY <1>1, <1>2, <2>1, StaysQuietly
<1>3. CASE /\ UNCHANGED <<conversion, payout>>
           /\ \/ ADVANCE(o, {})
              \/ Knows(o, "justInTime") /\ ADVANCE(o, {"convertedAmount"})
  <2>1. PICK found \in SUBSET Facts : /\ ADVANCE(o, found) /\ "reservationId" \notin found
                                      /\ "convertedAmount" \in found => Knows(o, "justInTime")
    BY <1>3 DEF Facts
  <2>2. MovesTo(o, intent[o], At("save", found))
    BY <2>1, <1>1, AdvanceMoves
  <2>3. Elsewhere(o)
    BY <1>1, <1>3, <2>2, ElsewhereKept
  <2> QED
    BY <1>1, <1>3, <2>1, <2>2, <2>3, TakesQuietly
<1>4. CASE UNCHANGED <<conversion, payout>> /\ Stop(o, "UNWINDING")
  <2>1. Elsewhere(o)
    BY <1>1, <1>4, ElsewhereKept
  <2> QED
    BY <1>1, <1>4, <2>1, StopsQuietly DEF States
<1> QED
  BY <1>2, <1>3, <1>4 DEF startConversion, fund_execution, UNWIND

\* The conversion is booked unless the intent knows that it is; with the payment
\* failed it is booked again.
LEMMA CrossingFollows ==
  ASSUME Shape, Typed, NEW o \in Buys, Straight(o), settle_crossing(o)
  PROVE  Follows(o)
<1>1. /\ o \in Orders /\ Step(o, "settle_crossing") /\ worker[o].at = "start"
      /\ UNCHANGED <<order, broker, conversion, settlement, reservation, unbooked>>
      /\ intent[o].state # "None"
  BY StepKnown DEF settle_crossing, Orders, Step, IsRunning
<1>2. CASE Stop(o, "NEEDS_MANUAL") /\ UNCHANGED <<ledger, payout>>
  <2>1. Elsewhere(o)
    BY <1>1, <1>2, ElsewhereKept
  <2> QED
    BY <1>1, <1>2, <2>1, StopsQuietly DEF States
<1>3. CASE /\ Goto(o, "pay")
           /\ payout' = [payout EXCEPT ![o] = IF @ = "None" THEN "PENDING" ELSE @]
           /\ \/ Knows(o, "convertedAmount") /\ UNCHANGED ledger
              \/ ~Knows(o, "convertedAmount") /\ post(convertedToHKD(Escrow[o]))
  <2>1. MovesTo(o, intent[o], At("pay", worker[o].found))
    BY <1>1, <1>3, GotoMoves DEF Places
  <2>2. /\ Local(o) /\ intent[o].cursor = 7
        /\ intent'[o] = intent[o] /\ worker'[o].at = "pay"
        /\ payout'[o] = (IF payout[o] = "None" THEN "PENDING" ELSE payout[o])
    BY <1>1, <1>3, <2>1, LocalHere DEF MovesTo, At, Typed, Step
  <2>3. Elsewhere(o)
    BY <1>1, <1>3, <2>1, ElsewhereKept
  <2>4. Straight(o)'
    BY <1>1, <2>2 DEF Step, Straight, OnItsWay, Untouched, Informed, BuyCourse, Taken,
       Knows, IsRunning, BrokerDone, fillAt, spendAt, Length
  <2>5. Strayed(o) => Strayed(o)'
    BY <1>1, <2>2 DEF Strayed, Knows
  <2>6. /\ \A k \in Milestones \ {"converted"} : Reached(o, k)' <=> Reached(o, k)
        /\ Reached(o, "converted")'
        /\ Reached(o, "converted") <=> Knows(o, "convertedAmount")
    BY <1>1, <2>2 DEF Reached, Taken, Knows, Milestones
  <2>7. CASE Knows(o, "convertedAmount") /\ UNCHANGED ledger
    <3>1. \A m \in Milestones : Reached(o, m)' <=> Reached(o, m)
      BY <2>6, <2>7
    <3> QED
      BY <1>1, <2>3, <2>4, <2>5, <2>7, <3>1, PostsNone
  <2>8. CASE ~Knows(o, "convertedAmount") /\ post(convertedToHKD(Escrow[o]))
    <3>1. post(Entry(o, "converted")) /\ "converted" \in Milestones
      BY <2>8 DEF Entry, Milestones
    <3> QED
      BY <1>1, <2>3, <2>4, <2>5, <2>6, <2>8, <3>1, PostsOne
  <2> QED
    BY <1>3, <2>7, <2>8
<1> QED
  BY <1>2, <1>3 DEF settle_crossing, MANUAL

LEMMA PaymentFollows ==
  ASSUME Shape, Typed, NEW o \in Buys, Straight(o), awaitPayout(o)
  PROVE  Follows(o)
<1>1. /\ o \in Orders /\ Step(o, "settle_crossing") /\ worker[o].at = "pay"
      /\ UNCHANGED <<order, broker, conversion, payout, settlement, reservation, unbooked>>
      /\ intent[o].state # "None" /\ IsRunning(o)
  BY StepKnown DEF awaitPayout, worldVars, Orders, Step, IsRunning
<1>2. Local(o) /\ intent[o].cursor = 7
  BY <1>1, LocalHere DEF Step
<1>3. CASE /\ intent' = [intent EXCEPT ![o].facts = @ \cup {"convertedAmount"}]
           /\ worker' = [worker EXCEPT ![o] = Idle] /\ UNCHANGED ledger
  <2> DEFINE i == [intent[o] EXCEPT !.facts = @ \cup {"convertedAmount"}]
  <2>1. /\ i.state = intent[o].state /\ i.cursor = intent[o].cursor
        /\ i.facts = intent[o].facts \cup {"convertedAmount"}
        /\ intent' = [intent EXCEPT ![o] = i]
    BY <1>2, <1>3 DEF Local, IntentType
  <2> HIDE DEF i
  <2>2. /\ intent'[o] = i /\ worker'[o].at = "start"
        /\ \A p \in Orders \ {o} : intent'[p] = intent[p] /\ worker'[p] = worker[p]
    BY <1>1, <1>3, <2>1, IdleTyped DEF Shape
  <2>3. Elsewhere(o)
    BY <1>1, <2>2 DEF Elsewhere
  <2>4. Straight(o)'
    BY <1>1, <1>2, <2>1, <2>2 DEF Step, Straight, OnItsWay, Untouched, Informed, BuyCourse,
       Taken, Knows, IsRunning, BrokerDone, fillAt, spendAt, Length
  <2>5. Strayed(o) => Strayed(o)'
    BY <1>1, <2>1, <2>2 DEF Strayed, Knows
  <2>6. \A m \in Milestones : Reached(o, m)' <=> Reached(o, m)
    BY <1>1, <1>2, <2>1, <2>2 DEF Reached, Taken, Knows, Milestones
  <2> QED
    BY <1>1, <1>3, <2>3, <2>4, <2>5, <2>6, PostsNone
<1>4. CASE Stop(o, "NEEDS_MANUAL") /\ payout[o] = "FAILED" /\ UNCHANGED ledger
  <2>1. Elsewhere(o) /\ Strayed(o)
    BY <1>1, <1>4, ElsewhereKept DEF Strayed
  <2> QED
    BY <1>1, <1>4, <2>1, StopsAstray DEF States
<1>5. CASE Goto(o, "consume") /\ payout[o] = "SETTLED" /\ post(brokerFunded(Escrow[o]))
  <2>1. MovesTo(o, intent[o], At("consume", worker[o].found))
    BY <1>1, <1>5, GotoMoves DEF Places
  <2>2. intent'[o] = intent[o] /\ worker'[o].at = "consume"
    BY <2>1 DEF MovesTo, At
  <2>3. Elsewhere(o)
    BY <1>1, <2>1, ElsewhereKept
  <2>4. Straight(o)'
    BY <1>1, <1>2, <1>5, <2>2 DEF Step, Straight, OnItsWay, Untouched, Informed, BuyCourse,
       Taken, Knows, IsRunning, BrokerDone, fillAt, spendAt, Length
  <2>5. Strayed(o) => Strayed(o)'
    BY <1>1, <2>2 DEF Strayed, Knows
  <2>6. /\ \A k \in Milestones \ {"funded"} : Reached(o, k)' <=> Reached(o, k)
        /\ Reached(o, "funded")' /\ ~Reached(o, "funded")
    BY <1>1, <1>2, <2>2 DEF Reached, Taken, Knows, Milestones
  <2>7. post(Entry(o, "funded")) /\ "funded" \in Milestones
    BY <1>5 DEF Entry, Milestones
  <2> QED
    BY <1>1, <2>3, <2>4, <2>5, <2>6, <2>7, PostsOne
<1> QED
  BY <1>3, <1>4, <1>5 DEF awaitPayout, MANUAL

LEMMA BuyFollows ==
  ASSUME Shape, Typed, NEW o \in Buys, Straight(o), Buy(o)
  PROVE  Follows(o)
BY DeployFollows, BookFollows, FundFollows, CrossingFollows, PaymentFollows, CustodyFollows,
   AttestFollows, ConfirmFollows DEF Buy

-----------------------------------------------------------------------------
(* The steps of a sale.                                                    *)

LEMMA ReleasedFollows ==
  ASSUME Shape, Typed, NEW o \in Sells, o \notin Buys, Straight(o), await_custody_release(o)
  PROVE  Follows(o)
<1>1. /\ o \in Orders /\ Step(o, "await_custody_release") /\ worker[o].at = "start"
      /\ UNCHANGED <<order, broker, conversion, payout, settlement, reservation, unbooked, ledger>>
      /\ intent[o].state # "None"
  BY StepKnown DEF await_custody_release, worldVars, storeVars, Orders, Step, IsRunning
<1>2. CASE ADVANCE(o, {}) /\ settlement[o] = "SETTLED"
  <2>1. MovesTo(o, intent[o], At("save", {}))
    BY <1>1, <1>2, AdvanceMoves
  <2>2. Elsewhere(o)
    BY <1>1, <2>1, ElsewhereKept
  <2> QED
    BY <1>1, <1>2, <2>1, <2>2, TakesQuietly
<1>3. CASE Stop(o, "NEEDS_MANUAL")
  <2>1. Elsewhere(o)
    BY <1>1, <1>3, ElsewhereKept
  <2> QED
    BY <1>1, <1>3, <2>1, StopsQuietly DEF States
<1> QED
  BY <1>2, <1>3 DEF await_custody_release, MANUAL

\* The chain pays the seller; what it did already strayed.
LEMMA SettleFollows ==
  ASSUME Shape, Typed, NEW o \in Sells, o \notin Buys, Straight(o), settle_onchain(o)
  PROVE  Follows(o)
<1>1. /\ o \in Orders /\ Step(o, "settle_onchain") /\ worker[o].at = "start"
      /\ UNCHANGED <<broker, conversion, payout, settlement, reservation, unbooked, ledger>>
      /\ intent[o].state # "None"
  BY StepKnown DEF settle_onchain, storeVars, Orders, Step, IsRunning
<1>2. Local(o) /\ intent[o].cursor = 6
  BY <1>1, LocalHere DEF Step
<1>3. CASE Stop(o, "UNWINDING") /\ UNCHANGED order
  <2>1. Elsewhere(o)
    BY <1>1, <1>3, ElsewhereKept
  <2> QED
    BY <1>1, <1>3, <2>1, StopsQuietly DEF States
<1>4. CASE order' = [order EXCEPT ![o] = "SETTLED"] /\ Goto(o, "book")
  <2>1. MovesTo(o, intent[o], At("book", worker[o].found))
    BY <1>1, <1>4, GotoMoves DEF Places
  <2>2. intent'[o] = intent[o] /\ worker'[o].at = "book" /\ order'[o] = "SETTLED"
    BY <1>1, <1>4, <2>1 DEF MovesTo, At, Shape
  <2>3. Elsewhere(o)
    BY <1>1, <1>4, <2>1, ElsewhereKept
  <2>4. Straight(o)'
    BY <1>1, <1>2, <2>2 DEF Step, Straight, OnItsWay, Untouched, Informed, SellCourse, Taken,
       Knows, IsRunning, BrokerDone, fillAt, spendAt, Length, Strayed
  <2>5. \A m \in Milestones : Reached(o, m)' <=> Reached(o, m)
    BY <1>1, <1>2, <2>2 DEF Reached, Taken, Knows, Milestones
  <2>6. Strayed(o) => Strayed(o)'
    BY <1>1, <2>2 DEF Strayed, Knows
  <2> QED
    BY <1>1, <2>3, <2>4, <2>5, <2>6, PostsNone
<1>5. CASE order[o] = "SETTLED" /\ Goto(o, "consume") /\ UNCHANGED order
  <2>1. MovesTo(o, intent[o], At("consume", worker[o].found))
    BY <1>1, <1>5, GotoMoves DEF Places
  <2>2. intent'[o] = intent[o] /\ worker'[o].at = "consume" /\ order'[o] = "SETTLED"
    BY <1>5, <2>1 DEF MovesTo, At
  <2>3. Elsewhere(o)
    BY <1>1, <1>5, <2>1, ElsewhereKept
  <2>4. Straight(o)'
    BY <1>1, <1>2, <2>2 DEF Step, Straight, OnItsWay, Untouched, Informed, SellCourse, Taken,
       Knows, IsRunning, BrokerDone, fillAt, spendAt, Length, Strayed
  <2>5. Strayed(o)'
    BY <1>1, <1>2, <1>5, <2>2 DEF Straight, SellCourse, Taken, Strayed, Knows
  <2>6. /\ Reached(o, "escrowed")' <=> Reached(o, "escrowed")
        /\ Reached(o, "deployed")' <=> Reached(o, "deployed")
    BY DEF Reached
  <2> QED
    BY <1>1, <2>3, <2>4, <2>5, <2>6, StrayedFollows
<1> QED
  BY <1>3, <1>4, <1>5 DEF settle_onchain, UNWIND

LEMMA SettledFollows ==
  ASSUME Shape, Typed, NEW o \in Sells, o \notin Buys, Straight(o), bookSettled(o)
  PROVE  Follows(o)
<1>1. /\ o \in Orders /\ Step(o, "settle_onchain") /\ worker[o].at \in {"book", "rebook"}
      /\ UNCHANGED <<order, broker, conversion, payout, settlement, reservation, unbooked>>
      /\ post(sellSettled(filledQuantity(o), filledQuantity(o)))
  BY StepKnown DEF bookSettled, worldVars, Orders
<1>2. Local(o) /\ intent[o].cursor = 6 /\ worker[o].at = "book" /\ Goto(o, "consume")
  BY <1>1, LocalHere DEF Step, Straight, OnItsWay, bookSettled
<1>3. MovesTo(o, intent[o], At("consume", worker[o].found))
  BY <1>1, <1>2, GotoMoves DEF Places
<1>4. intent'[o] = intent[o] /\ worker'[o].at = "consume"
  BY <1>3 DEF MovesTo, At
<1>5. Elsewhere(o)
  BY <1>1, <1>3, ElsewhereKept
<1>6. Straight(o)'
  BY <1>1, <1>2, <1>4 DEF Step, Straight, OnItsWay, Untouched, Informed, SellCourse, Taken,
     Knows, IsRunning, BrokerDone, fillAt, spendAt, Length, Strayed
<1>7. Strayed(o) => Strayed(o)'
  BY <1>1, <1>4 DEF Strayed, Knows
<1>8. /\ \A k \in Milestones \ {"burnt"} : Reached(o, k)' <=> Reached(o, k)
      /\ Reached(o, "burnt")' /\ ~Reached(o, "burnt")
  BY <1>1, <1>2, <1>4 DEF Reached, Taken, Knows, Milestones
<1>9. post(Entry(o, "burnt")) /\ "burnt" \in Milestones
  BY <1>1 DEF Entry, Milestones
<1> QED
  BY <1>1, <1>5, <1>6, <1>7, <1>8, <1>9, PostsOne

\* The proceeds are handed over, in the books and for real, and arrive.
LEMMA RepatriateFollows ==
  ASSUME Shape, Typed, NEW o \in Sells, o \notin Buys, Straight(o), repatriate(o)
  PROVE  Follows(o)
<1>1. /\ o \in Orders /\ Step(o, "repatriate") /\ worker[o].at = "start"
      /\ UNCHANGED <<worldVars, reservation, unbooked>> /\ intent[o].state # "None"
  BY StepKnown DEF repatriate, Orders, Step, IsRunning
<1>2. Local(o) /\ intent[o].cursor = 7
      /\ UNCHANGED <<order, broker, conversion, payout, settlement, reservation, unbooked>>
  BY <1>1, LocalHere DEF Step, worldVars
<1>3. CASE Stop(o, "NEEDS_MANUAL") /\ UNCHANGED ledger
  <2>1. Elsewhere(o)
    BY <1>1, <1>2, <1>3, ElsewhereKept
  <2> QED
    BY <1>1, <1>2, <1>3, <2>1, StopsQuietly DEF States
<1>4. CASE conversion[o] = "SETTLED" /\ ADVANCE(o, {}) /\ post(convertedToUSDC(filledQuantity(o)))
  <2>1. post(Entry(o, "home")) /\ "home" \in Milestones
    BY <1>4 DEF Entry, Milestones
  <2> QED
    BY <1>1, <1>4, <2>1, TakesPosting
<1>5. CASE conversion[o] = "None" /\ Goto(o, "send") /\ post(sentToMsb(filledQuantity(o)))
  <2>1. MovesTo(o, intent[o], At("send", worker[o].found))
    BY <1>1, <1>5, GotoMoves DEF Places
  <2>2. intent'[o] = intent[o] /\ worker'[o].at = "send"
    BY <2>1 DEF MovesTo, At
  <2>3. Elsewhere(o)
    BY <1>1, <1>2, <2>1, ElsewhereKept
  <2>4. Straight(o)'
    BY <1>1, <1>2, <2>2 DEF Step, Straight, OnItsWay, Untouched, Informed, SellCourse, Taken,
       Knows, IsRunning, BrokerDone, fillAt, spendAt, Length, Strayed
  <2>5. Strayed(o) => Strayed(o)'
    BY <1>2, <2>2 DEF Strayed, Knows
  <2>6. /\ \A k \in Milestones \ {"sent"} : Reached(o, k)' <=> Reached(o, k)
        /\ Reached(o, "sent")' /\ ~Reached(o, "sent")
    BY <1>1, <1>2, <1>5, <2>2 DEF Reached, Taken, Knows, Milestones
  <2>7. post(Entry(o, "sent")) /\ "sent" \in Milestones
    BY <1>5 DEF Entry, Milestones
  <2> QED
    BY <1>1, <1>2, <2>3, <2>4, <2>5, <2>6, <2>7, PostsOne
<1> QED
  BY <1>3, <1>4, <1>5 DEF repatriate, MANUAL

LEMMA SentFollows ==
  ASSUME Shape, Typed, NEW o \in Sells, o \notin Buys, Straight(o), createConversion(o)
  PROVE  Follows(o)
<1>1. /\ o \in Orders /\ Step(o, "repatriate") /\ worker[o].at = "send"
      /\ UNCHANGED <<order, broker, payout, settlement, reservation, unbooked, ledger>>
      /\ conversion' = [conversion EXCEPT ![o] = "PENDING"] /\ Goto(o, "start")
  BY StepKnown DEF createConversion, storeVars, Orders
<1>2. MovesTo(o, intent[o], At("start", worker[o].found)) /\ conversion'[o] = "PENDING"
  BY <1>1, GotoMoves DEF Places, Typed
<1>3. Elsewhere(o)
  BY <1>1, <1>2, ElsewhereKept
<1> QED
  BY <1>1, <1>2, <1>3, GoesQuietly

LEMMA SellFollows ==
  ASSUME Shape, Typed, NEW o \in Sells, Straight(o), Sell(o)
  PROVE  Follows(o)
<1>1. o \notin Buys
  BY DeskAssumption
<1> QED
  BY <1>1, ReleasedFollows, SettleFollows, SettledFollows, RepatriateFollows,
     SentFollows DEF Sell

-----------------------------------------------------------------------------
(* The watcher, the operator, and the world.                               *)

LEMMA IngestFollows ==
  ASSUME Shape, Typed, NEW o \in Orders, Straight(o), ingest(o)
  PROVE  Follows(o)
<1>1. /\ UNCHANGED <<order, broker, conversion, payout, settlement, reservation, ledger, worker>>
      /\ intent[o].state = "None" /\ unbooked' = unbooked \cup ({o} \cap Buys)
  BY DEF ingest, worldVars
<1> DEFINE i == [intent[o] EXCEPT !.state = "RUNNING"]
<1>2. /\ i \in IntentType /\ i.state = "RUNNING"
      /\ i.cursor = intent[o].cursor /\ i.facts = intent[o].facts
  BY DEF Shape, IntentType, States
<1>3. intent' = [intent EXCEPT ![o] = i]
  BY DEF ingest
<1> HIDE DEF i
<1>4. MovesTo(o, i, worker[o])
  BY <1>1, <1>2, <1>3 DEF MovesTo, Shape
<1>5. /\ intent'[o].state = "RUNNING" /\ intent'[o].cursor = intent[o].cursor
      /\ intent'[o].facts = intent[o].facts /\ worker'[o] = worker[o]
  BY <1>2, <1>4 DEF MovesTo
<1>6. Elsewhere(o)
  BY <1>1, <1>4, ElsewhereKept
<1>7. Local(o) /\ intent[o].cursor = 0 /\ worker[o].at = "start" /\ intent[o].facts = {}
  BY <1>1, LocalHere DEF Straight, Untouched
<1>8. Straight(o)'
  BY <1>1, <1>5, <1>7 DEF Straight, OnItsWay, Untouched, Informed, BuyCourse, SellCourse, Taken,
     Knows, IsRunning, BrokerDone, fillAt, spendAt, Length, Strayed
<1>9. \A m \in Milestones : Reached(o, m)' <=> Reached(o, m)
  BY <1>1, <1>5, <1>7 DEF Reached, Taken, Knows, Milestones
<1>10. Strayed(o) => Strayed(o)'
  BY <1>1, <1>5 DEF Strayed, Knows
<1> QED
  BY <1>1, <1>6, <1>8, <1>9, <1>10, PostsNone

LEMMA EscrowFollows ==
  ASSUME Shape, Typed, NEW o \in Buys, Straight(o), bookEscrow(o)
  PROVE  Follows(o)
<1>1. /\ o \in Orders /\ o \in unbooked /\ unbooked' = unbooked \ {o}
      /\ UNCHANGED <<order, broker, conversion, payout, settlement, reservation, intent, worker>>
  BY DEF bookEscrow, worldVars, Orders
<1>2. Elsewhere(o)
  BY <1>1, ElsewhereKept
<1>3. Straight(o)' /\ (Strayed(o) => Strayed(o)')
  BY <1>1 DEF Straight, OnItsWay, Untouched, Informed, BuyCourse, SellCourse, Taken,
     Knows, IsRunning, BrokerDone, Strayed
<1>4. ~Reached(o, "escrowed") /\ Reached(o, "escrowed")'
  BY <1>1 DEF Reached, Straight, Untouched
<1>5. \A k \in Milestones \ {"escrowed"} : Reached(o, k)' <=> Reached(o, k)
  BY <1>1 DEF Reached, Taken, Knows, Milestones
<1>6. post(Entry(o, "escrowed")) /\ "escrowed" \in Milestones
  BY DEF Entry, Milestones, bookEscrow
<1> QED
  BY <1>1, <1>2, <1>3, <1>4, <1>5, <1>6, PostsOne

LEMMA OperatorFollows ==
  ASSUME Shape, Typed, NEW o \in Orders, Straight(o), operatorResume(o) \/ operatorUnwind(o)
  PROVE  Follows(o)
<1>1. PICK state \in {"RUNNING", "UNWINDING"} : Stop(o, state)
  BY DEF operatorResume, operatorUnwind, UNWIND
<1>2. /\ UNCHANGED <<order, broker, conversion, payout, settlement, reservation, unbooked, ledger>>
      /\ intent[o].state # "None"
  BY DEF operatorResume, operatorUnwind, worldVars, storeVars
<1>3. worker[o].at \in {"start", "reserve", "cancel", "release"}
  <2>1. CASE operatorUnwind(o)
    BY <2>1 DEF operatorUnwind, Straight, OnItsWay
  <2>2. CASE operatorResume(o)
    BY <2>2, LocalHere DEF operatorResume, Straight, OnItsWay, IsRunning, Local, WorkerType, Places
  <2> QED
    BY <2>1, <2>2
<1>4. Elsewhere(o)
  BY <1>1, <1>2, ElsewhereKept
<1> QED
  BY <1>1, <1>2, <1>3, <1>4, StopsQuietly DEF States

LEMMA SweepFollows ==
  ASSUME Shape, Typed, NEW o \in Orders, Straight(o), sweepExpired(o)
  PROVE  Follows(o)
<1>1. /\ UNCHANGED <<order, broker, conversion, payout, settlement, unbooked, ledger, intent, worker>>
      /\ reservation' = [reservation EXCEPT ![o] = "EXPIRED"] /\ reservation[o] = "HELD"
  BY DEF sweepExpired, worldVars
<1>2. Elsewhere(o) /\ reservation'[o] = "EXPIRED"
  BY <1>1, ElsewhereKept DEF Shape
<1> QED
  BY <1>1, <1>2, StaysQuietly

LEMMA TradersFollow ==
  ASSUME Shape, Typed, NEW o \in Orders, Straight(o),
         traderCancels(o) \/ msbConverts(o) \/ custodianSettles(o)
  PROVE  Follows(o)
<1>1. UNCHANGED <<broker, payout, storeVars, intent, worker>>
  BY DEF traderCancels, msbConverts, custodianSettles
<1>2. UNCHANGED <<unbooked, reservation, ledger>>
  BY <1>1 DEF storeVars
<1>3. CASE traderCancels(o)
  <2>1. /\ UNCHANGED <<conversion, settlement>> /\ order[o] = "PENDING"
        /\ order' = [order EXCEPT ![o] = "CANCELLED"]
    BY <1>3 DEF traderCancels
  <2>2. Elsewhere(o) /\ order'[o] = "CANCELLED"
    BY <1>1, <1>2, <2>1, ElsewhereKept DEF Shape
  <2> QED
    BY <1>1, <1>2, <2>1, <2>2, StaysQuietly
<1>4. CASE msbConverts(o)
  <2>1. PICK status \in {"SETTLED", "FAILED"} : conversion' = [conversion EXCEPT ![o] = status]
    BY <1>4 DEF msbConverts, Endings
  <2>2. UNCHANGED <<order, settlement>> /\ conversion[o] = "PENDING"
    BY <1>4 DEF msbConverts
  <2>3. Elsewhere(o) /\ conversion'[o] = status
    BY <1>1, <1>2, <2>1, <2>2, ElsewhereKept DEF Typed
  <2> QED
    BY <1>1, <1>2, <2>2, <2>3, StaysQuietly
<1>5. CASE custodianSettles(o)
  <2>1. PICK status \in {"SETTLED", "FAILED"} : settlement' = [settlement EXCEPT ![o] = status]
    BY <1>5 DEF custodianSettles, Endings
  <2>2. UNCHANGED <<order, conversion>> /\ settlement[o] # "SETTLED"
    BY <1>5 DEF custodianSettles
  <2>3. Elsewhere(o)
    BY <1>1, <1>2, <2>1, <2>2, ElsewhereKept
  <2> QED
    BY <1>1, <1>2, <2>2, <2>3, StaysQuietly
<1> QED
  BY <1>3, <1>4, <1>5

LEMMA BrokerFollows ==
  ASSUME Shape, Typed, NEW o \in Orders, Straight(o), brokerFills(o) \/ brokerExpires(o)
  PROVE  Follows(o)
<1>1. /\ UNCHANGED <<order, conversion, payout, settlement, storeVars, intent, worker>>
      /\ broker[o].status \in {"NEW", "PARTIALLY_FILLED"}
  BY DEF brokerFills, brokerExpires
<1>2. UNCHANGED <<unbooked, reservation, ledger>>
  BY <1>1 DEF storeVars
<1>3. PICK b : broker' = [broker EXCEPT ![o] = b] /\ b.status # "None"
  <2>1. CASE brokerExpires(o)
    <3> DEFINE b == [broker[o] EXCEPT !.status = "EXPIRED"]
    <3>1. broker' = [broker EXCEPT ![o] = b]
      BY <2>1 DEF brokerExpires
    <3>2. b.status = "EXPIRED"
      BY DEF Shape, BrokerOrder
    <3> HIDE DEF b
    <3> QED
      BY <3>1, <3>2
  <2>2. CASE brokerFills(o)
    <3>1. PICK n \in 1 .. (planned(o) - filledQuantity(o)), fair \in {TRUE, ~scenario.faults} :
             broker' = [broker EXCEPT ![o] =
                   [status |-> IF @.filled + n = planned(o) THEN "FILLED"
                                                            ELSE "PARTIALLY_FILLED",
                    filled |-> @.filled + n,
                    fair   |-> @.fair /\ fair]]
      BY <2>2 DEF brokerFills
    <3> DEFINE b == [status |-> IF broker[o].filled + n = planned(o)
                                THEN "FILLED" ELSE "PARTIALLY_FILLED",
                     filled |-> broker[o].filled + n,
                     fair   |-> broker[o].fair /\ fair]
    <3>2. broker' = [broker EXCEPT ![o] = b] /\ b.status # "None"
      BY <3>1
    <3> HIDE DEF b
    <3> QED
      BY <3>2
  <2> QED
    BY <2>1, <2>2
<1>4. Elsewhere(o) /\ broker'[o].status # "None"
  BY <1>1, <1>2, <1>3, ElsewhereKept DEF Shape
<1> QED
  BY <1>1, <1>2, <1>4, StaysQuietly

LEMMA MsbFollows ==
  ASSUME Shape, Typed, NEW o \in Buys, Straight(o), msbPays(o)
  PROVE  Follows(o)
<1>1. /\ UNCHANGED <<order, broker, conversion, settlement, storeVars, intent, worker>>
      /\ payout[o] = "PENDING" /\ \E x : payout' = [payout EXCEPT ![o] = x] /\ o \in Orders
  BY DEF msbPays, Orders
<1>2. UNCHANGED <<unbooked, reservation, ledger>>
  BY <1>1 DEF storeVars
<1>3. Elsewhere(o)
  BY <1>1, <1>2, ElsewhereKept
<1> QED
  BY <1>1, <1>2, <1>3, StaysQuietly

-----------------------------------------------------------------------------
(* All orders.  An interruption may come at any place; until the first one *)
(* every intent follows its saga.                                          *)

AllStraight == \A o \in Orders : Straight(o)

\* The part of the state that is about the orders.
orderVars == <<order, broker, conversion, payout, settlement, intent, worker, reservation,
               unbooked>>

LEMMA ActSpends ==
  ASSUME Shape, Act, spent'.interrupts = 0
  PROVE  /\ spent.interrupts = 0
         /\ \A o \in Orders : ~interrupt(o) /\ ~outage(o)
         /\ \A b \in Buys : ~bookingLost(b)
<1>1. spent' # [spent EXCEPT !.interrupts = @ + 1]
  BY Interrupted
<1>2. /\ \A o \in Orders : ~interrupt(o) /\ ~outage(o)
      /\ \A b \in Buys : ~bookingLost(b)
  BY <1>1 DEF interrupt, outage, bookingLost
<1>3. CASE spent' = [spent EXCEPT !.operator = @ + 1]
  <2>1. spent'.interrupts = spent.interrupts
    BY <1>3 DEF Shape
  <2> QED
    BY <1>2, <2>1
<1>4. CASE UNCHANGED spent
  BY <1>2, <1>4
<1>5. ASSUME NEW o \in Orders, Drive(o)
      PROVE  UNCHANGED spent
  BY <1>5 DEF Drive, save, complete, chooseFunding, reserve, hold, consume, screen,
     validate_order, place_order, await_fill, recover, unwind, cancelOrder, release
<1>6. ASSUME NEW o \in Buys, Buy(o)
      PROVE  UNCHANGED spent
  BY <1>6 DEF Buy, deploy_escrow, bookDeployed, startConversion, fund_execution,
     settle_crossing, awaitPayout, await_custody, attest_and_mint, confirmBuy, bookMinted
<1>7. ASSUME NEW o \in Sells, Sell(o)
      PROVE  UNCHANGED spent
  BY <1>7 DEF Sell, await_custody_release, settle_onchain, bookSettled, repatriate,
     createConversion
<1>8. ASSUME NEW o \in Orders, ingest(o) \/ sweepExpired(o) \/ World(o)
      PROVE  UNCHANGED spent
  BY <1>8 DEF ingest, sweepExpired, World, traderCancels, brokerFills, brokerExpires,
     msbConverts, custodianSettles
<1>9. ASSUME NEW b \in Buys, bookEscrow(b) \/ msbPays(b)
      PROVE  UNCHANGED spent
  BY <1>9 DEF bookEscrow, msbPays
<1>10. ASSUME NEW o \in Orders, operatorResume(o) \/ operatorUnwind(o)
       PROVE  spent' = [spent EXCEPT !.operator = @ + 1]
  BY <1>10 DEF operatorResume, operatorUnwind, OperatorCall
<1>11. checkPositions => UNCHANGED spent
  BY DEF checkPositions
<1>12. resolveBreak => spent' = [spent EXCEPT !.operator = @ + 1]
  BY DEF resolveBreak, OperatorCall
<1> QED
  BY <1>2, <1>3, <1>4, <1>5, <1>6, <1>7, <1>8, <1>9, <1>10, <1>11, <1>12 DEF Act

LEMMA ActFollows ==
  ASSUME Shape, Typed, AllStraight, Act, spent'.interrupts = 0
  PROVE  (\E o \in Orders : Follows(o)) \/ UNCHANGED <<orderVars, ledger>>
<1>1. Buys \subseteq Orders /\ Sells \subseteq Orders
  BY DEF Orders
<1>2. ASSUME NEW o \in Orders, Drive(o)
      PROVE  Follows(o)
  BY <1>2, DriveFollows DEF AllStraight
<1>3. ASSUME NEW o \in Buys, Buy(o)
      PROVE  Follows(o)
  BY <1>1, <1>3, BuyFollows DEF AllStraight
<1>4. ASSUME NEW o \in Sells, Sell(o)
      PROVE  Follows(o)
  BY <1>1, <1>4, SellFollows DEF AllStraight
<1>5. ASSUME NEW o \in Orders, World(o)
      PROVE  Follows(o)
  BY <1>5, TradersFollow, BrokerFollows DEF AllStraight, World
<1>6. ASSUME NEW o \in Orders,
             ingest(o) \/ sweepExpired(o) \/ operatorResume(o) \/ operatorUnwind(o)
      PROVE  Follows(o)
  BY <1>6, IngestFollows, SweepFollows, OperatorFollows DEF AllStraight
<1>7. ASSUME NEW b \in Buys, bookEscrow(b) \/ msbPays(b)
      PROVE  Follows(b)
  BY <1>1, <1>7, EscrowFollows, MsbFollows DEF AllStraight
<1>8. checkPositions \/ resolveBreak => UNCHANGED <<orderVars, ledger>>
  BY DEF checkPositions, resolveBreak, worldVars, orderVars
<1> QED
  BY <1>1, <1>2, <1>3, <1>4, <1>5, <1>6, <1>7, <1>8, ActSpends DEF Act

\* What an order has posted and how it stands are told by its own part.
LEMMA OwnPart ==
  ASSUME NEW p \in Orders,
         order'[p] = order[p], broker'[p] = broker[p], conversion'[p] = conversion[p],
         settlement'[p] = settlement[p], p \in Buys => payout'[p] = payout[p],
         intent'[p] = intent[p], worker'[p] = worker[p], reservation'[p] = reservation[p],
         p \in unbooked' <=> p \in unbooked
  PROVE  /\ Straight(p)' <=> Straight(p)
         /\ Strayed(p)' <=> Strayed(p)
         /\ \A m \in Milestones : Stands(p, m)
<1>1. Strayed(p)' <=> Strayed(p)
  BY DEF Strayed, Knows
<1>2. /\ OnItsWay(p)' <=> OnItsWay(p)
      /\ Untouched(p)' <=> Untouched(p)
      /\ Informed(p)' <=> Informed(p)
  BY DEF OnItsWay, Untouched, Informed, IsRunning, Knows, Taken, BrokerDone
<1>3. /\ p \in Buys => (BuyCourse(p)' <=> BuyCourse(p))
      /\ SellCourse(p)' <=> SellCourse(p)
  BY <1>1 DEF BuyCourse, SellCourse, Taken
<1>4. Straight(p)' <=> Straight(p)
  BY <1>2, <1>3 DEF Straight
<1>5. \A m \in Milestones : Reached(p, m)' <=> Reached(p, m)
  BY DEF Reached, Taken, Knows
<1> QED
  BY <1>1, <1>4, <1>5, EntryStands DEF Stands

LEMMA ActStraight ==
  ASSUME Shape, Typed, spent.interrupts = 0 => AllStraight, Act, spent'.interrupts = 0
  PROVE  AllStraight'
<1>1. AllStraight
  BY ActSpends
<1>2. ASSUME NEW o \in Orders, Follows(o)
      PROVE  AllStraight'
  <2>1. ASSUME NEW p \in Orders \ {o}
        PROVE  Straight(p)'
    BY <1>1, <1>2, OwnPart DEF Follows, Elsewhere, AllStraight
  <2> QED
    BY <1>2, <2>1 DEF Follows, AllStraight
<1>3. CASE UNCHANGED <<orderVars, ledger>>
  BY <1>1, <1>3, OwnPart DEF orderVars, AllStraight
<1> QED
  BY <1>1, <1>2, <1>3, ActFollows

LEMMA InitStraight == Init => AllStraight
<1> SUFFICES ASSUME Init, NEW o \in Orders
             PROVE  Straight(o)
  BY DEF AllStraight
<1>1. /\ worker[o].at = "start" /\ worker[o].found = {} /\ intent[o].state = "None"
      /\ intent[o].cursor = 0 /\ intent[o].facts = {} /\ broker[o].status = "None"
      /\ broker[o].filled = 0 /\ order[o] = "PENDING" /\ conversion[o] = "None"
      /\ o \in Buys => payout[o] = "None" /\ o \notin unbooked
  BY DEF Init, Idle
<1> QED
  BY <1>1 DEF Straight, OnItsWay, Untouched, Informed, BuyCourse, SellCourse, Taken, Knows,
     IsRunning, Length, fillAt, spendAt

-----------------------------------------------------------------------------
(* The ledger.  A balance is what it started with and what the orders have *)
(* posted, as long as none of them has strayed.                            *)

\* What an order has posted to an account at a milestone, and altogether.
Part(o, m, a) ==
    IF Reached(o, m) /\ a \in DOMAIN Entry(o, m) THEN Entry(o, m)[a] ELSE 0

Total(f) ==
    f["escrowed"] + f["deployed"] + f["filled"] + f["converted"] + f["funded"]
        + f["received"] + f["minted"] + f["burnt"] + f["sent"] + f["home"]

Due(o, a) == Total([m \in Milestones |-> Part(o, m, a)])

Start(a) ==
    CASE a \in {"BROKER_BUFFER", "TREASURY_USDC"} -> scenario.float
      [] a = "CUSTODY_HOLDINGS"   -> Issued
      [] a = "CUSTOMER_POSITIONS" -> -Issued
      [] OTHER                    -> 0

Matched ==
    (\A o \in Orders : ~Strayed(o)) =>
        \A a \in Accounts :
            ledger[a] = Start(a) + SumFunction([o \in Orders |-> Due(o, a)])

LEMMA TotalTyped ==
  ASSUME NEW f \in [Milestones -> Int]
  PROVE  Total(f) \in Int
BY DEF Total, Milestones

LEMMA TotalChange ==
  ASSUME NEW f \in [Milestones -> Int], NEW g \in [Milestones -> Int], NEW m \in Milestones,
         \A k \in Milestones \ {m} : g[k] = f[k]
  PROVE  Total(g) = Total(f) + g[m] - f[m]
BY DEF Total, Milestones

\* The milestones of a purchase only.
Buying == {"escrowed", "deployed", "converted", "funded", "received", "minted"}

LEMMA EntryTyped ==
  ASSUME Shape, NEW o \in Orders, NEW m \in Milestones, m \in Buying => o \in Buys,
         NEW a \in DOMAIN Entry(o, m)
  PROVE  Entry(o, m)[a] \in Int
<1>1. filledQuantity(o) \in Int /\ (o \in Buys => Escrow[o] \in Int)
  BY Amounts
<1>2. m \in Buying => o \in Buys
  OBVIOUS
<1> USE DEF Buying
<1>3. CASE m = "escrowed"
  <2>1. Entry(o, m) = buyEscrowed(Escrow[o])
    BY <1>3 DEF Entry
  <2> QED
    BY <1>1, <1>2, <1>3, <2>1 DEF buyEscrowed
<1>4. CASE m = "deployed"
  <2>1. Entry(o, m) = buyDeployed(Escrow[o])
    BY <1>4 DEF Entry
  <2> QED
    BY <1>1, <1>2, <1>4, <2>1 DEF buyDeployed
<1>5. CASE m = "filled"
  <2>1. Entry(o, m) = buyFilled(filledQuantity(o)) \/ Entry(o, m) = sellFilled(filledQuantity(o))
    BY <1>5 DEF Entry
  <2> QED
    BY <1>1, <2>1 DEF buyFilled, sellFilled
<1>6. CASE m = "converted"
  <2>1. Entry(o, m) = convertedToHKD(Escrow[o])
    BY <1>6 DEF Entry
  <2> QED
    BY <1>1, <1>2, <1>6, <2>1 DEF convertedToHKD
<1>7. CASE m = "funded"
  <2>1. Entry(o, m) = brokerFunded(Escrow[o])
    BY <1>7 DEF Entry
  <2> QED
    BY <1>1, <1>2, <1>7, <2>1 DEF brokerFunded
<1>8. CASE m = "received"
  <2>1. Entry(o, m) = custodySettled(filledQuantity(o))
    BY <1>8 DEF Entry
  <2> QED
    BY <1>1, <2>1 DEF custodySettled
<1>9. CASE m = "minted"
  <2>1. Entry(o, m) = buyMinted(Escrow[o], filledQuantity(o))
    BY <1>9 DEF Entry
  <2> QED
    BY <1>1, <1>2, <1>9, <2>1 DEF buyMinted
<1>10. CASE m = "burnt"
  <2>1. Entry(o, m) = sellSettled(filledQuantity(o), filledQuantity(o))
    BY <1>10 DEF Entry
  <2> QED
    BY <1>1, <2>1 DEF sellSettled
<1>11. CASE m = "sent"
  <2>1. Entry(o, m) = sentToMsb(filledQuantity(o))
    BY <1>11 DEF Entry
  <2> QED
    BY <1>1, <2>1 DEF sentToMsb
<1>12. CASE m = "home"
  <2>1. Entry(o, m) = convertedToUSDC(filledQuantity(o))
    BY <1>12 DEF Entry
  <2> QED
    BY <1>1, <2>1 DEF convertedToUSDC
<1> QED
  BY <1>3, <1>4, <1>5, <1>6, <1>7, <1>8, <1>9, <1>10, <1>11, <1>12 DEF Milestones

LEMMA PartTyped ==
  ASSUME Shape, NEW o \in Orders, NEW m \in Milestones, NEW a
  PROVE  Part(o, m, a) \in Int
<1>1. Reached(o, m) /\ m \in Buying => o \in Buys
  BY DEF Reached, Buying
<1> QED
  BY <1>1, EntryTyped DEF Part

LEMMA DueTyped ==
  ASSUME Shape, NEW o \in Orders, NEW a
  PROVE  Due(o, a) \in Int
<1>1. [m \in Milestones |-> Part(o, m, a)] \in [Milestones -> Int]
  BY PartTyped
<1> QED
  BY <1>1, TotalTyped DEF Due

\* What stands is due as before, and what is passed is due in addition.
LEMMA PartStands ==
  ASSUME NEW o \in Orders, NEW m \in Milestones, Stands(o, m), NEW a
  PROVE  Part(o, m, a)' = Part(o, m, a)
BY DEF Part, Stands

LEMMA DueStands ==
  ASSUME NEW o \in Orders, \A m \in Milestones : Stands(o, m), NEW a
  PROVE  Due(o, a)' = Due(o, a)
<1>1. \A m \in Milestones : Part(o, m, a)' = Part(o, m, a)
  BY PartStands
<1>2. [m \in Milestones |-> Part(o, m, a)'] = [m \in Milestones |-> Part(o, m, a)]
  BY <1>1
<1> QED
  BY <1>2 DEF Due

LEMMA DuePasses ==
  ASSUME Shape, Typed, NEW o \in Orders, NEW m \in Milestones, Passes(o, m),
         NEW a \in Accounts
  PROVE  \E n \in Int : ledger'[a] = ledger[a] + n /\ Due(o, a)' = Due(o, a) + n
<1> DEFINE f == [k \in Milestones |-> Part(o, k, a)]
           g == [k \in Milestones |-> Part(o, k, a)']
           n == IF a \in DOMAIN Entry(o, m) THEN Entry(o, m)[a] ELSE 0
<1>1. n \in Int
  <2>1. m \in Buying => o \in Buys
    BY DEF Passes, Reached, Buying
  <2> QED
    BY <2>1, EntryTyped
<1>2. g[m] = n
  BY DEF Passes, Part
<1>3. \A k \in Milestones \ {m} : g[k] = f[k]
  BY PartStands DEF Passes
<1>4. f[m] = 0
  BY DEF Passes, Part
<1>5. f \in [Milestones -> Int]
  BY PartTyped
<1>6. g \in [Milestones -> Int]
  <2> HIDE DEF f, n
  <2>1. \A k \in Milestones : g[k] \in Int
    BY <1>1, <1>2, <1>3, <1>5
  <2> QED
    BY <2>1
<1>7. ledger'[a] = ledger[a] + n
  <2>1. a \in DOMAIN ledger
    BY DEF Typed
  <2> QED
    BY <2>1 DEF Passes, post, Posted
<1>8. Due(o, a) = Total(f) /\ Due(o, a)' = Total(g)
  BY DEF Due
<1> HIDE DEF f, g, n
<1>9. Total(g) = Total(f) + g[m] - f[m] /\ Total(f) \in Int
  BY <1>3, <1>5, <1>6, TotalChange, TotalTyped
<1>10. Due(o, a)' = Due(o, a) + n
  BY <1>1, <1>2, <1>4, <1>8, <1>9
<1> QED
  BY <1>1, <1>7, <1>10

LEMMA InitMatched ==
  ASSUME Init
  PROVE  Matched
<1> SUFFICES ASSUME NEW a \in Accounts
             PROVE  ledger[a] = Start(a) + SumFunction([o \in Orders |-> Due(o, a)])
  BY DEF Matched
<1>1. ledger[a] = Start(a)
  <2> HIDE DEF Accounts
  <2> QED
    BY DEF Init, Start
<1>2. Start(a) \in Int
  <2>1. scenario.float \in Nat
    BY DeskAssumption DEF Init
  <2> QED
    BY <2>1, IssuedNat DEF Start
<1>3. ASSUME NEW o \in Orders
      PROVE  Due(o, a) = 0
  <2>1. \A m \in Milestones : ~Reached(o, m)
    BY IdleTyped DEF Init, Reached, Milestones, Taken, Knows
  <2>2. \A m \in Milestones : Part(o, m, a) = 0
    BY <2>1 DEF Part
  <2> QED
    BY <2>2 DEF Due, Total, Milestones
<1> DEFINE f == [o \in Orders |-> Due(o, a)]
<1>4. f = [o \in Orders |-> 0]
  BY <1>3
<1>5. SumFunction(f) = 0
  <2> HIDE DEF f
  <2> QED
    BY <1>4, DeskAssumption, SumZeros
<1> QED
  BY <1>1, <1>2, <1>5

LEMMA MatchedStep ==
  ASSUME Shape, Typed, Matched, UNCHANGED scenario,
         (\E o \in Orders : Follows(o)) \/ UNCHANGED <<orderVars, ledger>>
  PROVE  Matched'
<1> SUFFICES ASSUME \A o \in Orders : ~Strayed(o)', NEW a \in Accounts
             PROVE  ledger'[a] = Start(a)' + SumFunction([o \in Orders |-> Due(o, a)'])
  BY DEF Matched
<1> DEFINE f == [o \in Orders |-> Due(o, a)]
           g == [o \in Orders |-> Due(o, a)']
<1>1. f \in [Orders -> Int]
  BY DueTyped
<1>2. Start(a)' = Start(a)
  BY DEF Start
<1>3. Start(a) \in Int /\ ledger[a] \in Int
  <2>1. scenario.float \in Nat
    BY DeskAssumption DEF Typed
  <2> QED
    BY <2>1, IssuedNat DEF Start, Typed
<1>4. CASE UNCHANGED <<orderVars, ledger>>
  <2>1. \A o \in Orders : (Strayed(o)' <=> Strayed(o)) /\ Due(o, a)' = Due(o, a)
    BY <1>4, OwnPart, DueStands DEF orderVars
  <2>2. f = g
    BY <2>1
  <2>3. ledger[a] = Start(a) + SumFunction(f)
    BY <2>1 DEF Matched
  <2>4. ledger'[a] = Start(a)' + SumFunction(g)
    <3> HIDE DEF f, g
    <3> QED
      BY <1>2, <1>4, <2>2, <2>3
  <2> QED
    BY <2>4
<1>5. ASSUME NEW o \in Orders, Follows(o)
      PROVE  ledger'[a] = Start(a)' + SumFunction(g)
  <2>1. \A p \in Orders \ {o} : (Strayed(p)' <=> Strayed(p)) /\ Due(p, a)' = Due(p, a)
    BY <1>5, OwnPart, DueStands DEF Follows, Elsewhere
  <2>2. \A p \in Orders : ~Strayed(p)
    BY <1>5, <2>1 DEF Follows
  <2>3. ledger[a] = Start(a) + SumFunction(f)
    BY <2>2 DEF Matched
  <2>4. \E n \in Int : ledger'[a] = ledger[a] + n /\ Due(o, a)' = Due(o, a) + n
    <3>1. CASE ledger' = ledger /\ \A m \in Milestones : Stands(o, m)
      <4>1. Due(o, a)' = Due(o, a) + 0 /\ ledger'[a] = ledger[a] + 0
        BY <1>3, <3>1, DueStands, DueTyped
      <4> QED
        BY <4>1
    <3>2. CASE \E m \in Milestones : Passes(o, m)
      BY <3>2, DuePasses
    <3> QED
      BY <1>5, <3>1, <3>2 DEF Follows, Accounted
  <2>5. PICK n \in Int : ledger'[a] = ledger[a] + n /\ g[o] = f[o] + n
    BY <2>4
  <2>6. \A p \in Orders : p # o => g[p] = f[p]
    BY <2>1
  <2>7. g \in [Orders -> Int]
    <3>1. \A p \in Orders : g[p] \in Int
      <4> HIDE DEF f, g
      <4> QED
        BY <1>1, <2>5, <2>6
    <3> QED
      BY <3>1
  <2> HIDE DEF f, g
  <2>8. /\ SumFunction(f) \in Int /\ SumFunction(g) \in Int
        /\ SumFunction(g) = SumFunction(f) + g[o] - f[o]
    BY <1>1, <2>6, <2>7, DeskAssumption, SumChange
  <2>9. f[o] \in Int
    BY <1>1
  <2>10. ledger'[a] = Start(a) + SumFunction(g)
    BY <1>3, <2>3, <2>5, <2>8, <2>9
  <2> QED
    BY <1>2, <2>10
<1> QED
  BY <1>4, <1>5

-----------------------------------------------------------------------------
(* The balance at the broker: what it started with, what the MSB has paid  *)
(* in, and what the trades took and brought.                               *)

Cash(o) ==
    IF o \in Buys
    THEN (IF payout[o] = "SETTLED" THEN Escrow[o] ELSE 0) - filledQuantity(o)
    ELSE filledQuantity(o)

PowerMatched == buyingPower = scenario.float + SumFunction([o \in Orders |-> Cash(o)])

LEMMA CashTyped ==
  ASSUME Shape, NEW o \in Orders
  PROVE  Cash(o) \in Int
BY Amounts DEF Cash

LEMMA CashStays ==
  ASSUME NEW o \in Orders, broker'[o].filled = broker[o].filled,
         o \in Buys => (payout'[o] = "SETTLED" <=> payout[o] = "SETTLED")
  PROVE  Cash(o)' = Cash(o)
BY DEF Cash, filledQuantity

CashKept == buyingPower' = buyingPower /\ \A o \in Orders : Cash(o)' = Cash(o)

LEMMA StatusOnly ==
  ASSUME Shape, NEW o \in Orders, NEW x, broker' = [broker EXCEPT ![o].status = x],
         UNCHANGED <<payout, buyingPower>>
  PROVE  CashKept
<1> DEFINE b == [broker[o] EXCEPT !.status = x]
<1>1. broker' = [broker EXCEPT ![o] = b]
  OBVIOUS
<1>2. b.filled = broker[o].filled
  BY DEF Shape, BrokerOrder
<1> HIDE DEF b
<1>3. \A p \in Orders : broker'[p].filled = broker[p].filled
  BY <1>1, <1>2 DEF Shape
<1> QED
  BY <1>3, CashStays DEF CashKept

LEMMA PayoutOnly ==
  ASSUME Typed, NEW o \in Buys, payout[o] = "None", payout' = [payout EXCEPT ![o] = "PENDING"],
         UNCHANGED <<broker, buyingPower>>
  PROVE  CashKept
<1>1. \A p \in Buys : payout'[p] = "SETTLED" <=> payout[p] = "SETTLED"
  BY DEF Typed
<1> QED
  BY <1>1, CashStays DEF CashKept

LEMMA NoCash ==
  ASSUME UNCHANGED <<broker, payout, buyingPower>>
  PROVE  CashKept
BY CashStays DEF CashKept

LEMMA DriveCash ==
  ASSUME Shape, NEW o \in Orders, Drive(o)
  PROVE  CashKept
<1>1. CASE \/ save(o) \/ complete(o) \/ chooseFunding(o) \/ reserve(o) \/ hold(o)
           \/ consume(o) \/ screen(o) \/ validate_order(o) \/ await_fill(o) \/ recover(o) \/ unwind(o)
           \/ release(o)
  BY <1>1, NoCash DEF save, complete, chooseFunding, reserve, hold, consume, screen, validate_order,
     await_fill, recover, unwind, release, worldVars
<1>2. CASE place_order(o) \/ cancelOrder(o)
  <2>1. /\ UNCHANGED <<payout, buyingPower>>
        /\ broker' = broker \/ \E x : broker' = [broker EXCEPT ![o].status = x]
    BY <1>2 DEF place_order, cancelOrder
  <2> QED
    BY <2>1, NoCash, StatusOnly
<1> QED
  BY <1>1, <1>2 DEF Drive

LEMMA BuyCash ==
  ASSUME Shape, Typed, NEW o \in Buys, Buy(o)
  PROVE  CashKept
<1>1. CASE \/ deploy_escrow(o) \/ bookDeployed(o) \/ startConversion(o) \/ awaitPayout(o)
           \/ await_custody(o) \/ attest_and_mint(o) \/ confirmBuy(o) \/ bookMinted(o)
  BY <1>1, NoCash DEF deploy_escrow, bookDeployed, startConversion, awaitPayout, await_custody,
     attest_and_mint, confirmBuy, bookMinted, worldVars
<1>2. CASE fund_execution(o) \/ settle_crossing(o)
  <2>1. /\ UNCHANGED <<broker, buyingPower>>
        /\ \/ payout' = payout
           \/ payout[o] = "None" /\ payout' = [payout EXCEPT ![o] = "PENDING"]
    <3>1. CASE fund_execution(o)
      BY <1>2, <3>1 DEF fund_execution
    <3>2. CASE settle_crossing(o)
      BY <1>2, <3>2 DEF settle_crossing, Typed
    <3> QED
      BY <1>2, <3>1, <3>2
  <2> QED
    BY <2>1, NoCash, PayoutOnly
<1> QED
  BY <1>1, <1>2 DEF Buy

LEMMA PowerKept ==
  ASSUME Shape, PowerMatched, UNCHANGED scenario, CashKept
  PROVE  PowerMatched'
<1>1. [o \in Orders |-> Cash(o)'] = [o \in Orders |-> Cash(o)]
  BY DEF CashKept
<1> QED
  BY <1>1 DEF PowerMatched, CashKept

LEMMA PowerMoves ==
  ASSUME Shape, Typed, PowerMatched, UNCHANGED scenario, NEW o \in Orders, NEW n \in Int,
         buyingPower' = buyingPower + n, Cash(o)' = Cash(o) + n,
         \A p \in Orders \ {o} : Cash(p)' = Cash(p)
  PROVE  PowerMatched'
<1> DEFINE f == [p \in Orders |-> Cash(p)]
           g == [p \in Orders |-> Cash(p)']
<1>1. f \in [Orders -> Int] /\ scenario.float \in Nat
  BY CashTyped, DeskAssumption DEF Typed
<1>2. g[o] = f[o] + n /\ \A p \in Orders : p # o => g[p] = f[p]
  OBVIOUS
<1>3. g \in [Orders -> Int]
  <2>1. \A p \in Orders : g[p] \in Int
    <3> HIDE DEF f, g
    <3> QED
      BY <1>1, <1>2
  <2> QED
    BY <2>1
<1>4. buyingPower = scenario.float + SumFunction(f)
  BY DEF PowerMatched
<1>5. buyingPower' = scenario.float + SumFunction(g)
  <2> HIDE DEF f, g
  <2>1. \A p \in Orders : p # o => g[p] = f[p]
    BY <1>2
  <2>2. /\ SumFunction(f) \in Int /\ SumFunction(g) \in Int
        /\ SumFunction(g) = SumFunction(f) + g[o] - f[o]
    BY <1>1, <1>3, <2>1, DeskAssumption, SumChange
  <2>3. f[o] \in Int
    BY <1>1
  <2> QED
    BY <1>1, <1>2, <1>4, <2>2, <2>3
<1> QED
  BY <1>5 DEF PowerMatched

LEMMA FillPower ==
  ASSUME Shape, Typed, PowerMatched, UNCHANGED scenario, NEW o \in Orders, brokerFills(o)
  PROVE  PowerMatched'
<1>1. planned(o) \in Nat /\ broker[o].filled \in Nat
  BY PlannedNat DEF Shape, BrokerOrder
<1>2. PICK n \in 1 .. (planned(o) - filledQuantity(o)), fair \in {TRUE, ~scenario.faults} :
        /\ broker' = [broker EXCEPT ![o] =
              [status |-> IF @.filled + n = planned(o) THEN "FILLED"
                                                       ELSE "PARTIALLY_FILLED",
               filled |-> @.filled + n,
               fair   |-> @.fair /\ fair]]
        /\ buyingPower' = IF o \in Buys THEN buyingPower - n ELSE buyingPower + n
  BY DEF brokerFills
<1> DEFINE b == [status |-> IF broker[o].filled + n = planned(o)
                            THEN "FILLED" ELSE "PARTIALLY_FILLED",
                 filled |-> broker[o].filled + n,
                 fair   |-> broker[o].fair /\ fair]
<1>3. broker' = [broker EXCEPT ![o] = b] /\ b.filled = broker[o].filled + n
  BY <1>2
<1> HIDE DEF b
<1>4. /\ broker'[o].filled = broker[o].filled + n
      /\ \A p \in Orders \ {o} : broker'[p] = broker[p]
      /\ payout' = payout /\ n \in Int
  BY <1>1, <1>2, <1>3 DEF Shape, brokerFills, filledQuantity
<1>5. \A p \in Orders \ {o} : Cash(p)' = Cash(p)
  BY <1>4, CashStays
<1>6. CASE o \in Buys
  <2>1. Cash(o)' = Cash(o) + (-n) /\ buyingPower' = buyingPower + (-n) /\ -n \in Int
    <3>1. Escrow[o] \in Int /\ buyingPower \in Int
      BY <1>6, DeskAssumption DEF Typed
    <3> QED
      BY <1>1, <1>2, <1>4, <1>6, <3>1 DEF Cash, filledQuantity
  <2> QED
    BY <1>5, <2>1, PowerMoves
<1>7. CASE o \notin Buys
  <2>1. Cash(o)' = Cash(o) + n /\ buyingPower' = buyingPower + n
    BY <1>1, <1>2, <1>4, <1>7 DEF Cash, filledQuantity
  <2> QED
    BY <1>4, <1>5, <2>1, PowerMoves
<1> QED
  BY <1>6, <1>7

LEMMA PaysPower ==
  ASSUME Shape, Typed, PowerMatched, UNCHANGED scenario, NEW o \in Buys, msbPays(o)
  PROVE  PowerMatched'
<1>1. o \in Orders /\ Escrow[o] \in Int /\ broker' = broker /\ payout[o] = "PENDING"
      /\ filledQuantity(o) \in Int
  BY DeskAssumption, Amounts DEF Orders, msbPays
<1>2. CASE payout' = [payout EXCEPT ![o] = "SETTLED"] /\ buyingPower' = buyingPower + Escrow[o]
  <2>1. \A p \in Orders \ {o} : Cash(p)' = Cash(p)
    BY <1>1, <1>2, CashStays DEF Typed
  <2>2. payout'[o] = "SETTLED"
    BY <1>2 DEF Typed
  <2>3. Cash(o)' = Cash(o) + Escrow[o]
    BY <1>1, <2>2 DEF Cash, filledQuantity
  <2> QED
    BY <1>1, <1>2, <2>1, <2>3, PowerMoves
<1>3. CASE payout' = [payout EXCEPT ![o] = "FAILED"] /\ UNCHANGED buyingPower
  <2>1. \A p \in Buys : payout'[p] = "SETTLED" <=> payout[p] = "SETTLED"
    BY <1>1, <1>3 DEF Typed
  <2>2. CashKept
    BY <1>1, <1>3, <2>1, CashStays DEF CashKept
  <2> QED
    BY <2>2, PowerKept
<1> QED
  BY <1>2, <1>3 DEF msbPays

LEMMA ActPower ==
  ASSUME Shape, Typed, PowerMatched, UNCHANGED scenario, Act
  PROVE  PowerMatched'
<1>1. ASSUME NEW o \in Orders, Drive(o)
      PROVE  CashKept
  BY <1>1, DriveCash
<1>2. ASSUME NEW o \in Buys, Buy(o)
      PROVE  CashKept
  BY <1>2, BuyCash
<1>3. ASSUME NEW o \in Sells, Sell(o)
      PROVE  CashKept
  BY <1>3, NoCash DEF Sell, await_custody_release, settle_onchain, bookSettled, repatriate,
     createConversion, worldVars
<1>4. ASSUME NEW o \in Orders, \/ ingest(o) \/ interrupt(o) \/ outage(o) \/ sweepExpired(o)
                               \/ operatorResume(o) \/ operatorUnwind(o)
      PROVE  CashKept
  BY <1>4, NoCash DEF ingest, interrupt, outage, sweepExpired, operatorResume, operatorUnwind,
     worldVars
<1>5. ASSUME NEW o \in Orders,
             traderCancels(o) \/ msbConverts(o) \/ custodianSettles(o) \/ brokerExpires(o)
      PROVE  CashKept
  BY <1>5, NoCash, StatusOnly DEF traderCancels, msbConverts, custodianSettles, brokerExpires
<1>6. ASSUME NEW o \in Buys, bookEscrow(o) \/ bookingLost(o)
      PROVE  CashKept
  BY <1>6, NoCash DEF bookEscrow, bookingLost, worldVars
<1>7. checkPositions \/ resolveBreak => CashKept
  BY NoCash DEF checkPositions, resolveBreak, worldVars
<1> QED
  BY <1>1, <1>2, <1>3, <1>4, <1>5, <1>6, <1>7, PowerKept, FillPower, PaysPower DEF Act, World

LEMMA InitPower ==
  ASSUME Init
  PROVE  PowerMatched
<1> DEFINE f == [o \in Orders |-> Cash(o)]
<1>1. f = [o \in Orders |-> 0]
  <2>1. \A o \in Orders : Cash(o) = 0
    BY DEF Init, Cash, filledQuantity
  <2> QED
    BY <2>1
<1>2. SumFunction(f) = 0
  <2> HIDE DEF f
  <2> QED
    BY <1>1, DeskAssumption, SumZeros
<1>3. buyingPower = scenario.float /\ scenario.float \in Nat
  BY DeskAssumption DEF Init
<1> QED
  BY <1>2, <1>3 DEF PowerMatched

-----------------------------------------------------------------------------
(* At rest.  What an order has posted by the time its intent is complete   *)
(* cancels out but for its shares and, of a purchase, its cash.            *)

\* What an entry comes to on an account.
Value(entry, a) == IF a \in DOMAIN entry THEN entry[a] ELSE 0

\* What remains of a purchase of q for the amount e, and of a sale of q.
BuyLeft(e, q, a) ==
    CASE a = "BROKER_BUFFER"      -> e - q
      [] a = "CUSTODY_HOLDINGS"   -> q
      [] a = "CUSTOMER_POSITIONS" -> -q
      [] OTHER                    -> 0
SellLeft(q, a) ==
    CASE a = "CUSTODY_HOLDINGS"   -> -q
      [] a = "CUSTOMER_POSITIONS" -> q
      [] OTHER                    -> 0

LEMMA BuyEntries ==
  ASSUME NEW e \in Int, NEW q \in Int, NEW a \in Accounts
  PROVE  Value(buyEscrowed(e), a) + Value(buyDeployed(e), a) + Value(buyFilled(q), a)
            + Value(convertedToHKD(e), a) + Value(brokerFunded(e), a)
            + Value(custodySettled(q), a) + Value(buyMinted(e, q), a)
         = BuyLeft(e, q, a)
<1>1. Value(buyEscrowed(e), a) = CASE a = "CHAIN_ESCROW" -> e
                                   [] a = "CUSTOMER_ESCROW" -> -e
                                   [] OTHER -> 0
  BY DEF Value, buyEscrowed
<1>2. Value(buyDeployed(e), a) = CASE a = "CHAIN_ESCROW" -> -e
                                   [] a = "MSB_TRANSIT_USDC" -> e
                                   [] OTHER -> 0
  BY DEF Value, buyDeployed
<1>3. Value(buyFilled(q), a) = CASE a = "BROKER_BUFFER" -> -q
                                 [] a = "BROKER_SETTLEMENT" -> q
                                 [] a = "CUSTODY_INBOUND" -> q
                                 [] a = "PENDING_ISSUANCE" -> -q
                                 [] OTHER -> 0
  BY DEF Value, buyFilled
<1>4. Value(convertedToHKD(e), a) = CASE a = "MSB_TRANSIT_USDC" -> -e
                                      [] a = "MSB_SETTLED_HKD" -> e
                                      [] OTHER -> 0
  BY DEF Value, convertedToHKD
<1>5. Value(brokerFunded(e), a) = CASE a = "MSB_SETTLED_HKD" -> -e
                                    [] a = "BROKER_BUFFER" -> e
                                    [] OTHER -> 0
  BY DEF Value, brokerFunded
<1>6. Value(custodySettled(q), a) = CASE a = "CUSTODY_INBOUND" -> -q
                                      [] a = "CUSTODY_HOLDINGS" -> q
                                      [] OTHER -> 0
  BY DEF Value, custodySettled
<1>7. Value(buyMinted(e, q), a) = CASE a = "BROKER_SETTLEMENT" -> -q
                                    [] a = "CUSTOMER_ESCROW" -> e
                                    [] a = "PENDING_ISSUANCE" -> q
                                    [] a = "CUSTOMER_POSITIONS" -> -q
                                    [] OTHER -> 0
  BY DEF Value, buyMinted
<1> QED
  BY <1>1, <1>2, <1>3, <1>4, <1>5, <1>6, <1>7
     DEF BuyLeft, Accounts, CashAccounts, PositionAccounts

LEMMA SellEntries ==
  ASSUME NEW q \in Int, NEW a \in Accounts
  PROVE  Value(sellFilled(q), a) + Value(sellSettled(q, q), a) + Value(sentToMsb(q), a)
            + Value(convertedToUSDC(q), a)
         = SellLeft(q, a)
<1>1. Value(sellFilled(q), a) = CASE a = "BROKER_PROCEEDS" -> q
                                  [] a = "CUSTOMER_PROCEEDS" -> -q
                                  [] a = "CUSTODY_HOLDINGS" -> -q
                                  [] a = "CUSTODY_OUTBOUND" -> q
                                  [] OTHER -> 0
  BY DEF Value, sellFilled
<1>2. Value(sellSettled(q, q), a) = CASE a = "TREASURY_USDC" -> -q
                                      [] a = "CUSTOMER_PROCEEDS" -> q
                                      [] a = "CUSTOMER_POSITIONS" -> q
                                      [] a = "CUSTODY_OUTBOUND" -> -q
                                      [] OTHER -> 0
  BY DEF Value, sellSettled
<1>3. Value(sentToMsb(q), a) = CASE a = "BROKER_PROCEEDS" -> -q
                                 [] a = "MSB_TRANSIT_HKD" -> q
                                 [] OTHER -> 0
  BY DEF Value, sentToMsb
<1>4. Value(convertedToUSDC(q), a) = CASE a = "MSB_TRANSIT_HKD" -> -q
                                       [] a = "TREASURY_USDC" -> q
                                       [] OTHER -> 0
  BY DEF Value, convertedToUSDC
<1> QED
  BY <1>1, <1>2, <1>3, <1>4 DEF SellLeft, Accounts, CashAccounts, PositionAccounts

\* What an order has left at rest: none has strayed, and the chain and the
\* custodian have done what the intent says.
LEMMA RestKnown ==
  ASSUME Shape, Typed, AllBacked, AllStraight, AtRest, NEW o \in Orders
  PROVE  /\ ~Strayed(o)
         /\ intent[o].state \in {"None", "COMPLETED"} /\ filledQuantity(o) \in Nat
         /\ intent[o].state = "None" => filledQuantity(o) = 0
         /\ o \in Buys /\ intent[o].state = "None" =>
               payout[o] = "None" /\ order[o] # "FILLED"
         /\ o \in Buys /\ intent[o].state = "COMPLETED" =>
               payout[o] = "SETTLED" /\ order[o] = "FILLED" /\ settlement[o] = "SETTLED"
         /\ o \notin Buys /\ intent[o].state = "None" => order[o] # "SETTLED"
         /\ o \notin Buys /\ intent[o].state = "COMPLETED" =>
               /\ order[o] = "SETTLED" /\ settlement[o] = "SETTLED"
               /\ filledQuantity(o) = Shares[o]
<1>1. Straight(o) /\ intent[o].state \in {"None", "COMPLETED"}
  BY DEF AllStraight, AtRest
<1>2. filledQuantity(o) \in Nat
  BY DEF Shape, BrokerOrder, filledQuantity
<1>3. CASE intent[o].state = "None"
  <2>1. /\ intent[o].cursor = 0 /\ intent[o].facts = {} /\ worker[o].at = "start"
        /\ filledQuantity(o) = 0 /\ (o \in Buys => payout[o] = "None")
    BY <1>1, <1>3 DEF Straight, Untouched, filledQuantity
  <2>2. ~Strayed(o)
    BY <2>1 DEF Strayed, Knows
  <2>3. o \in Buys => order[o] # "FILLED"
    BY <1>1, <2>1 DEF Straight, BuyCourse, Taken
  <2>4. o \notin Buys => order[o] # "SETTLED"
    BY <1>1, <2>1, <2>2 DEF Straight, SellCourse, Taken
  <2> QED
    BY <1>2, <1>3, <2>1, <2>2, <2>3, <2>4
<1>4. CASE intent[o].state = "COMPLETED"
  <2>1. intent[o].cursor = Length(o) /\ Taken(o, spendAt(o))
    BY <1>1, <1>4 DEF Straight, OnItsWay, Taken, Length, spendAt
  <2>2. CASE o \in Buys
    <3>1. Taken(o, 8) /\ Taken(o, 9) /\ Taken(o, 10)
      BY <2>1, <2>2 DEF Taken, Length
    <3>2. payout[o] = "SETTLED" /\ order[o] = "FILLED" /\ settlement[o] = "SETTLED"
      BY <1>1, <2>2, <3>1 DEF Straight, BuyCourse, AllBacked, Backed
    <3>3. ~Strayed(o)
      BY <1>1, <2>1, <2>2, <3>2 DEF Straight, Informed, Strayed, AtRest
    <3> QED
      BY <1>2, <1>4, <2>2, <3>2, <3>3
  <2>3. CASE o \notin Buys
    <3>1. Taken(o, 6) /\ Taken(o, 7) /\ o \in Sells
      BY <2>1, <2>3 DEF Taken, Length, Orders
    <3>2. order[o] = "SETTLED" /\ settlement[o] = "SETTLED" /\ filledQuantity(o) = Shares[o]
      BY <1>1, <1>4, <2>3, <3>1 DEF Straight, SellCourse, AtRest
    <3>3. ~Strayed(o)
      BY <1>1, <2>1, <2>3 DEF Straight, Informed, Strayed
    <3> QED
      BY <1>2, <1>4, <2>3, <3>2, <3>3
  <2> QED
    BY <2>2, <2>3
<1> QED
  BY <1>1, <1>3, <1>4

LEMMA RestDue ==
  ASSUME Shape, Typed, AllBacked, AllStraight, AtRest, NEW o \in Orders, NEW a \in Accounts
  PROVE  /\ intent[o].state = "None" => Due(o, a) = 0
         /\ intent[o].state = "COMPLETED" =>
               /\ o \in Buys => Due(o, a) = BuyLeft(Escrow[o], filledQuantity(o), a)
               /\ o \notin Buys => Due(o, a) = SellLeft(filledQuantity(o), a)
<1>1. Straight(o) /\ unbooked = {}
  BY DEF AllStraight, AtRest
<1>2. filledQuantity(o) \in Int /\ (o \in Buys => Escrow[o] \in Int)
  BY Amounts
<1>3. \A m \in Milestones : Part(o, m, a) = IF Reached(o, m) THEN Value(Entry(o, m), a) ELSE 0
  BY DEF Part, Value
<1>4. Due(o, a) = Part(o, "escrowed", a) + Part(o, "deployed", a) + Part(o, "filled", a)
        + Part(o, "converted", a) + Part(o, "funded", a) + Part(o, "received", a)
        + Part(o, "minted", a) + Part(o, "burnt", a) + Part(o, "sent", a) + Part(o, "home", a)
  BY DEF Due, Total, Milestones
<1>5. CASE intent[o].state = "None"
  <2>1. /\ intent[o].cursor = 0 /\ intent[o].facts = {} /\ worker[o].at = "start"
        /\ conversion[o] = "None"
    BY <1>1, <1>5 DEF Straight, Untouched
  <2>2. \A m \in Milestones : ~Reached(o, m)
    BY <1>5, <2>1 DEF Reached, Taken, Knows
  <2>3. \A m \in Milestones : Part(o, m, a) = 0
    BY <1>3, <2>2
  <2> QED
    BY <1>4, <1>5, <2>3 DEF Milestones
<1>6. CASE intent[o].state = "COMPLETED" /\ o \in Buys
  <2>1. intent[o].cursor = 10
    BY <1>1, <1>6 DEF Straight, OnItsWay, Length
  <2>2. \A m \in Milestones : Reached(o, m) <=> m \notin {"burnt", "sent", "home"}
    BY <1>1, <1>6, <2>1 DEF Reached, Taken, Milestones
  <2> DEFINE e == Escrow[o]
             q == filledQuantity(o)
  <2>3. /\ Part(o, "escrowed", a) = Value(buyEscrowed(e), a)
        /\ Part(o, "deployed", a) = Value(buyDeployed(e), a)
        /\ Part(o, "filled", a) = Value(buyFilled(q), a)
        /\ Part(o, "converted", a) = Value(convertedToHKD(e), a)
        /\ Part(o, "funded", a) = Value(brokerFunded(e), a)
        /\ Part(o, "received", a) = Value(custodySettled(q), a)
        /\ Part(o, "minted", a) = Value(buyMinted(e, q), a)
        /\ Part(o, "burnt", a) = 0 /\ Part(o, "sent", a) = 0 /\ Part(o, "home", a) = 0
    BY <1>3, <1>6, <2>2 DEF Entry, Milestones
  <2>4. \A m \in Milestones : Part(o, m, a) \in Int
    BY PartTyped
  <2>5. Value(buyEscrowed(e), a) + Value(buyDeployed(e), a) + Value(buyFilled(q), a)
            + Value(convertedToHKD(e), a) + Value(brokerFunded(e), a)
            + Value(custodySettled(q), a) + Value(buyMinted(e, q), a)
         = BuyLeft(e, q, a)
    BY <1>2, <1>6, BuyEntries
  <2>6. Due(o, a) = BuyLeft(e, q, a)
    <3> HIDE DEF e, q
    <3> QED
      BY <1>4, <2>3, <2>4, <2>5 DEF Milestones
  <2> QED
    BY <1>6, <2>6
<1>7. CASE intent[o].state = "COMPLETED" /\ o \notin Buys
  <2>1. intent[o].cursor = 8
    BY <1>1, <1>7 DEF Straight, OnItsWay, Length
  <2>2. conversion[o] # "None"
    BY <1>1, <1>7, <2>1 DEF Straight, SellCourse, Taken
  <2>3. \A m \in Milestones : Reached(o, m) <=> m \in {"filled", "burnt", "sent", "home"}
    BY <1>7, <2>1, <2>2 DEF Reached, Taken, Milestones
  <2> DEFINE q == filledQuantity(o)
  <2>4. /\ Part(o, "filled", a) = Value(sellFilled(q), a)
        /\ Part(o, "burnt", a) = Value(sellSettled(q, q), a)
        /\ Part(o, "sent", a) = Value(sentToMsb(q), a)
        /\ Part(o, "home", a) = Value(convertedToUSDC(q), a)
        /\ Part(o, "escrowed", a) = 0 /\ Part(o, "deployed", a) = 0
        /\ Part(o, "converted", a) = 0 /\ Part(o, "funded", a) = 0
        /\ Part(o, "received", a) = 0 /\ Part(o, "minted", a) = 0
    BY <1>3, <1>7, <2>3 DEF Entry, Milestones
  <2>5. \A m \in Milestones : Part(o, m, a) \in Int
    BY PartTyped
  <2>6. Value(sellFilled(q), a) + Value(sellSettled(q, q), a) + Value(sentToMsb(q), a)
            + Value(convertedToUSDC(q), a)
         = SellLeft(q, a)
    BY <1>2, SellEntries
  <2>7. Due(o, a) = SellLeft(q, a)
    <3> HIDE DEF q
    <3> QED
      BY <1>4, <2>4, <2>5, <2>6 DEF Milestones
  <2> QED
    BY <1>7, <2>7
<1> QED
  BY <1>5, <1>6, <1>7

\* Sums over the orders whose terms agree, one taken from the other.
LEMMA SumDifference ==
  ASSUME NEW d \in [Orders -> Int], NEW plus \in [Orders -> Int], NEW minus \in [Orders -> Int],
         \A o \in Orders : d[o] = plus[o] - minus[o]
  PROVE  SumFunction(d) = SumFunction(plus) - SumFunction(minus)
<1> DEFINE s == [o \in Orders |-> d[o] + minus[o]]
<1>1. s = plus
  <2>1. \A o \in Orders : d[o] + minus[o] = plus[o]
    <3> SUFFICES ASSUME NEW o \in Orders
                 PROVE  d[o] + minus[o] = plus[o]
      OBVIOUS
    <3>1. d[o] \in Int /\ minus[o] \in Int /\ plus[o] \in Int /\ d[o] = plus[o] - minus[o]
      OBVIOUS
    <3> QED
      BY <3>1
  <2>2. s = [o \in Orders |-> plus[o]]
    BY <2>1
  <2> QED
    BY <2>2
<1>2. SumFunction(s) = SumFunction(d) + SumFunction(minus)
  <2>1. IsFiniteSet(Orders)
    BY DeskAssumption
  <2> QED
    BY <2>1, SumPlus, Zenon
<1>3. SumFunction(d) \in Int /\ SumFunction(minus) \in Int
  BY DeskAssumption, SumType
<1> HIDE DEF s
<1> QED
  BY <1>1, <1>2, <1>3

\* The custodian holds what arrived less what left, the chain has outstanding
\* what was minted less what was burnt; each is a sum over all the orders.
Arrived(o) == IF o \in Buys /\ settlement[o] = "SETTLED" THEN filledQuantity(o) ELSE 0
Left(o)    == IF o \in Sells /\ settlement[o] = "SETTLED" THEN filledQuantity(o) ELSE 0
Minted(o)  == IF o \in Buys /\ order[o] = "FILLED" THEN filledQuantity(o) ELSE 0
Burnt(o)   == IF o \in Sells /\ order[o] = "SETTLED" THEN Shares[o] ELSE 0

LEMMA SumOverOrders ==
  ASSUME NEW T \in SUBSET Orders, NEW f \in [Orders -> Int], NEW g,
         g = [o \in Orders |-> IF o \in T THEN f[o] ELSE 0]
  PROVE  SumFunction([o \in T |-> f[o]]) = SumFunction(g)
BY DeskAssumption, SumWithin

LEMMA HoldingsSummed ==
  ASSUME Shape
  PROVE  /\ custodyHoldings = Issued + SumFunction([o \in Orders |-> Arrived(o)])
                                     - SumFunction([o \in Orders |-> Left(o)])
         /\ positionSupply = Issued + SumFunction([o \in Orders |-> Minted(o)])
                                    - SumFunction([o \in Orders |-> Burnt(o)])
<1> DEFINE filled == [o \in Orders |-> filledQuantity(o)]
           In  == {b \in Buys : settlement[b] = "SETTLED"}
           Out == {s \in Sells : settlement[s] = "SETTLED"}
           Up  == {b \in Buys : order[b] = "FILLED"}
           Down == {s \in Sells : order[s] = "SETTLED"}
<1>1. filled \in [Orders -> Int] /\ Shares \in [Orders -> Int]
  BY Amounts, DeskAssumption
<1>2. In \in SUBSET Orders /\ Out \in SUBSET Orders /\ Up \in SUBSET Orders /\ Down \in SUBSET Orders
  BY DEF Orders
<1>3. /\ [o \in Orders |-> Arrived(o)] = [o \in Orders |-> IF o \in In THEN filled[o] ELSE 0]
      /\ [o \in Orders |-> Left(o)] = [o \in Orders |-> IF o \in Out THEN filled[o] ELSE 0]
      /\ [o \in Orders |-> Minted(o)] = [o \in Orders |-> IF o \in Up THEN filled[o] ELSE 0]
      /\ [o \in Orders |-> Burnt(o)] = [o \in Orders |-> IF o \in Down THEN Shares[o] ELSE 0]
  BY DEF Arrived, Left, Minted, Burnt
<1>4. /\ [b \in In |-> filledQuantity(b)] = [o \in In |-> filled[o]]
      /\ [s \in Out |-> filledQuantity(s)] = [o \in Out |-> filled[o]]
      /\ [b \in Up |-> filledQuantity(b)] = [o \in Up |-> filled[o]]
  BY DEF Orders
<1>5. /\ SumOver(In, filledQuantity) = SumFunction([o \in In |-> filled[o]])
      /\ SumOver(Out, filledQuantity) = SumFunction([o \in Out |-> filled[o]])
      /\ SumOver(Up, filledQuantity) = SumFunction([o \in Up |-> filled[o]])
      /\ SumOver(Down, LAMBDA s : Shares[s]) = SumFunction([o \in Down |-> Shares[o]])
  <2> HIDE DEF filled, In, Out, Up, Down
  <2> QED
    BY <1>4 DEF SumOver
<1>6. /\ custodyHoldings = Issued + SumOver(In, filledQuantity) - SumOver(Out, filledQuantity)
      /\ positionSupply = Issued + SumOver(Up, filledQuantity)
                                 - SumOver(Down, LAMBDA s : Shares[s])
  BY DEF custodyHoldings, positionSupply
<1> HIDE DEF filled, In, Out, Up, Down
<1>7. /\ SumFunction([o \in In |-> filled[o]]) = SumFunction([o \in Orders |-> Arrived(o)])
      /\ SumFunction([o \in Out |-> filled[o]]) = SumFunction([o \in Orders |-> Left(o)])
      /\ SumFunction([o \in Up |-> filled[o]]) = SumFunction([o \in Orders |-> Minted(o)])
      /\ SumFunction([o \in Down |-> Shares[o]]) = SumFunction([o \in Orders |-> Burnt(o)])
  <2> DEFINE arrived == [o \in Orders |-> Arrived(o)]
             left    == [o \in Orders |-> Left(o)]
             minted  == [o \in Orders |-> Minted(o)]
             burnt   == [o \in Orders |-> Burnt(o)]
  <2>1. /\ arrived = [o \in Orders |-> IF o \in In THEN filled[o] ELSE 0]
        /\ left = [o \in Orders |-> IF o \in Out THEN filled[o] ELSE 0]
        /\ minted = [o \in Orders |-> IF o \in Up THEN filled[o] ELSE 0]
        /\ burnt = [o \in Orders |-> IF o \in Down THEN Shares[o] ELSE 0]
    BY <1>3
  <2> HIDE DEF arrived, left, minted, burnt
  <2>2. SumFunction([o \in In |-> filled[o]]) = SumFunction(arrived)
    <3>1. In \in SUBSET Orders
      BY <1>2
    <3>2. filled \in [Orders -> Int]
      BY <1>1
    <3>3. arrived = [o \in Orders |-> IF o \in In THEN filled[o] ELSE 0]
      BY <2>1
    <3> QED
      BY <3>1, <3>2, <3>3, SumOverOrders
  <2>3. SumFunction([o \in Out |-> filled[o]]) = SumFunction(left)
    <3>1. Out \in SUBSET Orders
      BY <1>2
    <3>2. filled \in [Orders -> Int]
      BY <1>1
    <3>3. left = [o \in Orders |-> IF o \in Out THEN filled[o] ELSE 0]
      BY <2>1
    <3> QED
      BY <3>1, <3>2, <3>3, SumOverOrders
  <2>4. SumFunction([o \in Up |-> filled[o]]) = SumFunction(minted)
    <3>1. Up \in SUBSET Orders
      BY <1>2
    <3>2. filled \in [Orders -> Int]
      BY <1>1
    <3>3. minted = [o \in Orders |-> IF o \in Up THEN filled[o] ELSE 0]
      BY <2>1
    <3> QED
      BY <3>1, <3>2, <3>3, SumOverOrders
  <2>5. SumFunction([o \in Down |-> Shares[o]]) = SumFunction(burnt)
    <3>1. Down \in SUBSET Orders
      BY <1>2
    <3>2. Shares \in [Orders -> Int]
      BY <1>1
    <3>3. burnt = [o \in Orders |-> IF o \in Down THEN Shares[o] ELSE 0]
      BY <2>1
    <3> QED
      BY <3>1, <3>2, <3>3, SumOverOrders
  <2> QED
    BY <2>2, <2>3, <2>4, <2>5 DEF arrived, left, minted, burnt
<1> QED
  BY <1>5, <1>6, <1>7

LEMMA RestTerms ==
  ASSUME Shape, Typed, AllBacked, AllStraight, AtRest, NEW o \in Orders
  PROVE  /\ Due(o, "CUSTODY_HOLDINGS") = Arrived(o) - Left(o)
         /\ Due(o, "CUSTOMER_POSITIONS") = Burnt(o) - Minted(o)
         /\ ~Sold => Due(o, "BROKER_BUFFER") = Cash(o)
         /\ \A a \in Accounts \ {"CUSTOMER_POSITIONS", "CUSTODY_HOLDINGS",
                                 "BROKER_BUFFER", "TREASURY_USDC"} : Due(o, a) = 0
<1>1. /\ "CUSTODY_HOLDINGS" \in Accounts /\ "CUSTOMER_POSITIONS" \in Accounts
      /\ "BROKER_BUFFER" \in Accounts
  BY DEF Accounts, CashAccounts, PositionAccounts
<1>2. /\ filledQuantity(o) \in Nat /\ (o \in Buys => Escrow[o] \in Int)
      /\ (o \in Sells <=> o \notin Buys) /\ intent[o].state \in {"None", "COMPLETED"}
  BY RestKnown, Amounts, DeskAssumption DEF Orders
<1>3. CASE intent[o].state = "None"
  <2>1. \A a \in Accounts : Due(o, a) = 0
    BY <1>3, RestDue
  <2>2. Arrived(o) = 0 /\ Left(o) = 0 /\ Burnt(o) = 0 /\ Minted(o) = 0 /\ Cash(o) = 0
    BY <1>2, <1>3, RestKnown DEF Arrived, Left, Burnt, Minted, Cash
  <2> QED
    BY <1>1, <2>1, <2>2
<1>4. CASE intent[o].state = "COMPLETED" /\ o \in Buys
  <2>1. \A a \in Accounts : Due(o, a) = BuyLeft(Escrow[o], filledQuantity(o), a)
    BY <1>4, RestDue
  <2>2. /\ Arrived(o) = filledQuantity(o) /\ Left(o) = 0 /\ Burnt(o) = 0
        /\ Minted(o) = filledQuantity(o) /\ Cash(o) = Escrow[o] - filledQuantity(o)
    BY <1>2, <1>4, RestKnown DEF Arrived, Left, Burnt, Minted, Cash
  <2> QED
    BY <1>1, <1>2, <1>4, <2>1, <2>2 DEF BuyLeft
<1>5. CASE intent[o].state = "COMPLETED" /\ o \notin Buys
  <2>1. \A a \in Accounts : Due(o, a) = SellLeft(filledQuantity(o), a)
    BY <1>5, RestDue
  <2>2. /\ Arrived(o) = 0 /\ Left(o) = filledQuantity(o) /\ Minted(o) = 0
        /\ Burnt(o) = filledQuantity(o) /\ Sold
    BY <1>2, <1>5, RestKnown DEF Arrived, Left, Burnt, Minted, Sold
  <2> QED
    BY <1>1, <1>2, <1>5, <2>1, <2>2 DEF SellLeft
<1> QED
  BY <1>2, <1>3, <1>4, <1>5

LEMMA BooksFollow ==
  ASSUME Shape, Typed, AllBacked, AllStraight, Matched, PowerMatched, AtRest
  PROVE  /\ ledger["CUSTOMER_POSITIONS"] = -positionSupply
         /\ ledger["CUSTODY_HOLDINGS"] = custodyHoldings
         /\ ~Sold => ledger["BROKER_BUFFER"] = buyingPower
         /\ \A a \in Accounts \ {"CUSTOMER_POSITIONS", "CUSTODY_HOLDINGS",
                                 "BROKER_BUFFER", "TREASURY_USDC"} : ledger[a] = 0
<1> DEFINE due(a)  == [o \in Orders |-> Due(o, a)]
           arrived == [o \in Orders |-> Arrived(o)]
           left    == [o \in Orders |-> Left(o)]
           minted  == [o \in Orders |-> Minted(o)]
           burnt   == [o \in Orders |-> Burnt(o)]
           cash    == [o \in Orders |-> Cash(o)]
<1>1. /\ \A a : due(a) \in [Orders -> Int]
      /\ arrived \in [Orders -> Int] /\ left \in [Orders -> Int]
      /\ minted \in [Orders -> Int] /\ burnt \in [Orders -> Int]
  <2>1. \A o \in Orders : /\ Arrived(o) \in Int /\ Left(o) \in Int
                          /\ Minted(o) \in Int /\ Burnt(o) \in Int
    BY Amounts, DeskAssumption DEF Arrived, Left, Minted, Burnt
  <2> QED
    BY <2>1, DueTyped
<1>2. /\ \A o \in Orders : due("CUSTODY_HOLDINGS")[o] = arrived[o] - left[o]
      /\ \A o \in Orders : due("CUSTOMER_POSITIONS")[o] = burnt[o] - minted[o]
      /\ ~Sold => due("BROKER_BUFFER") = cash
      /\ \A a \in Accounts \ {"CUSTOMER_POSITIONS", "CUSTODY_HOLDINGS",
                              "BROKER_BUFFER", "TREASURY_USDC"} : due(a) = [o \in Orders |-> 0]
  BY RestTerms
<1>3. /\ custodyHoldings = Issued + SumFunction(arrived) - SumFunction(left)
      /\ positionSupply = Issued + SumFunction(minted) - SumFunction(burnt)
  BY HoldingsSummed
<1>4. \A a \in Accounts : ledger[a] = Start(a) + SumFunction(due(a))
  BY RestKnown DEF Matched
<1>5. buyingPower = scenario.float + SumFunction(cash)
  BY DEF PowerMatched
<1> HIDE DEF due, arrived, left, minted, burnt, cash
<1>6. /\ SumFunction(arrived) \in Int /\ SumFunction(left) \in Int
      /\ SumFunction(minted) \in Int /\ SumFunction(burnt) \in Int /\ Issued \in Int
  BY <1>1, DeskAssumption, SumType, IssuedNat
<1>7. ledger["CUSTODY_HOLDINGS"] = custodyHoldings
  <2>1. SumFunction(due("CUSTODY_HOLDINGS")) = SumFunction(arrived) - SumFunction(left)
    BY <1>1, <1>2, SumDifference
  <2>2. ledger["CUSTODY_HOLDINGS"] = Issued + SumFunction(due("CUSTODY_HOLDINGS"))
    BY <1>4 DEF Start, Accounts, PositionAccounts
  <2> QED
    BY <1>3, <1>6, <2>1, <2>2
<1>8. ledger["CUSTOMER_POSITIONS"] = -positionSupply
  <2>1. SumFunction(due("CUSTOMER_POSITIONS")) = SumFunction(burnt) - SumFunction(minted)
    BY <1>1, <1>2, SumDifference
  <2>2. ledger["CUSTOMER_POSITIONS"] = -Issued + SumFunction(due("CUSTOMER_POSITIONS"))
    BY <1>4 DEF Start, Accounts, PositionAccounts
  <2> QED
    BY <1>3, <1>6, <2>1, <2>2
<1>9. ~Sold => ledger["BROKER_BUFFER"] = buyingPower
  <2>1. ledger["BROKER_BUFFER"] = scenario.float + SumFunction(due("BROKER_BUFFER"))
    BY <1>4 DEF Start, Accounts, CashAccounts
  <2> QED
    BY <1>2, <1>5, <2>1
<1>10. ASSUME NEW a \in Accounts \ {"CUSTOMER_POSITIONS", "CUSTODY_HOLDINGS",
                                    "BROKER_BUFFER", "TREASURY_USDC"}
       PROVE  ledger[a] = 0
  <2>1. SumFunction(due(a)) = 0
    BY <1>2, DeskAssumption, SumZeros
  <2>2. Start(a) = 0
    BY DEF Start
  <2> QED
    BY <1>4, <2>1, <2>2
<1> QED
  BY <1>7, <1>8, <1>9, <1>10

-----------------------------------------------------------------------------
(* The books through the steps of the desk.                                *)

CourseKept == spent.interrupts = 0 => AllStraight
BooksKept  == (spent.interrupts = 0 => Matched) /\ PowerMatched

LEMMA ActBooks ==
  ASSUME Shape, Typed, CourseKept, BooksKept, UNCHANGED scenario, Act
  PROVE  CourseKept' /\ BooksKept'
<1>1. CourseKept'
  BY ActStraight DEF CourseKept
<1>2. PowerMatched'
  BY ActPower DEF BooksKept
<1>3. ASSUME spent'.interrupts = 0
      PROVE  Matched'
  <2>1. AllStraight /\ Matched
    BY <1>3, ActSpends DEF CourseKept, BooksKept
  <2>2. (\E o \in Orders : Follows(o)) \/ UNCHANGED <<orderVars, ledger>>
    BY <1>3, <2>1, ActFollows
  <2> QED
    BY <2>1, <2>2, MatchedStep
<1> QED
  BY <1>1, <1>2, <1>3 DEF BooksKept

LEMMA CourseStays ==
  ASSUME CourseKept, UNCHANGED <<orderVars, spent>>
  PROVE  CourseKept'
BY OwnPart DEF orderVars, CourseKept, AllStraight

LEMMA BooksStay ==
  ASSUME Shape, Typed, BooksKept, UNCHANGED <<orderVars, ledger, buyingPower, spent, scenario>>
  PROVE  BooksKept'
<1>1. PowerMatched'
  <2>1. \A o \in Orders : Cash(o)' = Cash(o)
    BY DEF orderVars, Cash, filledQuantity
  <2> QED
    BY <2>1, PowerKept DEF BooksKept, CashKept
<1>2. spent'.interrupts = 0 => Matched'
  BY MatchedStep DEF BooksKept
<1> QED
  BY <1>1, <1>2 DEF BooksKept

LEMMA InitBooks ==
  ASSUME Init
  PROVE  CourseKept /\ BooksKept
BY InitStraight, InitMatched, InitPower DEF CourseKept, BooksKept

LEMMA BooksMatch ==
  ASSUME IInv, Typed, AllBacked, CourseKept, BooksKept
  PROVE  BooksMatchWorld
BY BooksFollow DEF BooksMatchWorld, IInv, CourseKept, BooksKept, AtRest

\* Whenever every intent has run to its end the books of the desk agree with the
\* custodian, the tokens and the broker, and nothing is left in transit, for any
\* orders and amounts, whatever fails or is done by an operator on the way, as
\* long as no step was interrupted (the postings of the two sagas, the checks of
\* the reconciler).
THEOREM BooksAgree == Spec => []BooksMatchWorld
<1> DEFINE Books == CourseKept /\ BooksKept
<1>1. Init => Books
  BY InitBooks
<1>2. (IInv /\ Typed /\ AllBacked) /\ Books /\ [Next]_vars => Books'
  <2>1. ASSUME IInv, Typed, AllBacked, Books, UNCHANGED vars
        PROVE  Books'
    BY <2>1, CourseStays, BooksStay DEF IInv, vars, worldVars, storeVars, orderVars
  <2>2. ASSUME IInv, Typed, AllBacked, Books, Next
        PROVE  Books'
    BY <2>2, ActBooks DEF IInv, Next
  <2> QED
    BY <2>1, <2>2
<1>3. (IInv /\ Typed /\ AllBacked) /\ Books => BooksMatchWorld
  BY BooksMatch
<1> HIDE DEF Books
<1> QED
  BY <1>1, <1>2, <1>3, BackedInvariance, PTL DEF Spec

-----------------------------------------------------------------------------
(* The escrow.  What the books hold locked for an order on the chain.      *)

Lock(o) ==
    (IF Reached(o, "escrowed") THEN Escrow[o] ELSE 0)
        - (IF Reached(o, "deployed") THEN Escrow[o] ELSE 0)

Locked == SumFunction([o \in Orders |-> Lock(o)])

LEMMA LockTyped ==
  ASSUME Shape, NEW o \in Orders
  PROVE  Lock(o) \in Int
<1>1. Reached(o, "escrowed") \/ Reached(o, "deployed") => o \in Buys
  BY DEF Reached
<1> QED
  BY <1>1, Amounts DEF Lock

LEMMA LockStands ==
  ASSUME NEW o \in Orders, Stands(o, "escrowed"), Stands(o, "deployed")
  PROVE  Lock(o)' = Lock(o)
BY DEF Lock, Stands

\* Only the first two of a purchase's milestones touch the escrow.
LEMMA LockPasses ==
  ASSUME Shape, Typed, NEW o \in Orders, NEW m \in Milestones, Passes(o, m)
  PROVE  ledger'["CHAIN_ESCROW"] - ledger["CHAIN_ESCROW"] = Lock(o)' - Lock(o)
<1> DEFINE before == ledger["CHAIN_ESCROW"]
           after  == ledger'["CHAIN_ESCROW"]
<1>1. before \in Int /\ "CHAIN_ESCROW" \in DOMAIN ledger
  BY DEF Typed, Accounts, CashAccounts
<1>2. after = before + (IF "CHAIN_ESCROW" \in DOMAIN Entry(o, m)
                        THEN Entry(o, m)["CHAIN_ESCROW"] ELSE 0)
  BY <1>1 DEF Passes, post, Posted
<1>3. CASE m = "escrowed"
  <2>1. o \in Buys /\ Escrow[o] \in Int
    BY <1>3, Amounts DEF Passes, Reached
  <2>2. Entry(o, m) = buyEscrowed(Escrow[o])
    BY <1>3 DEF Entry
  <2>3. after = before + Escrow[o]
    BY <1>2, <2>2 DEF buyEscrowed
  <2>4. ~Reached(o, "escrowed") /\ Reached(o, "escrowed")' /\ Stands(o, "deployed")
    BY <1>3 DEF Passes, Milestones
  <2>5. Lock(o)' - Lock(o) = Escrow[o]
    BY <2>1, <2>4 DEF Lock, Stands
  <2> QED
    BY <1>1, <2>1, <2>3, <2>5
<1>4. CASE m = "deployed"
  <2>1. o \in Buys /\ Escrow[o] \in Int
    BY <1>4, Amounts DEF Passes, Reached
  <2>2. Entry(o, m) = buyDeployed(Escrow[o])
    BY <1>4 DEF Entry
  <2>3. after = before - Escrow[o]
    BY <1>1, <1>2, <2>1, <2>2 DEF buyDeployed
  <2>4. ~Reached(o, "deployed") /\ Reached(o, "deployed")' /\ Stands(o, "escrowed")
    BY <1>4 DEF Passes, Milestones
  <2>5. Lock(o)' - Lock(o) = -Escrow[o]
    BY <2>1, <2>4 DEF Lock, Stands
  <2> QED
    BY <1>1, <2>1, <2>3, <2>5
<1>5. CASE m \notin {"escrowed", "deployed"}
  <2>1. "CHAIN_ESCROW" \notin DOMAIN Entry(o, m)
    BY <1>5 DEF Milestones, Entry, buyFilled, sellFilled, convertedToHKD, brokerFunded,
       custodySettled, buyMinted, sellSettled, sentToMsb, convertedToUSDC
  <2>2. Lock(o)' = Lock(o)
    BY <1>5, LockStands DEF Passes, Milestones
  <2> QED
    BY <1>1, <1>2, <2>1, <2>2, LockTyped
<1> QED
  BY <1>3, <1>4, <1>5

LEMMA LockStep ==
  ASSUME Shape, Typed,
         (\E o \in Orders : Follows(o)) \/ UNCHANGED <<orderVars, ledger>>
  PROVE  /\ ledger'["CHAIN_ESCROW"] - ledger["CHAIN_ESCROW"] = Locked' - Locked
         /\ Locked' \in Int
<1> DEFINE f == [o \in Orders |-> Lock(o)]
           g == [o \in Orders |-> Lock(o)']
<1>1. f \in [Orders -> Int]
  BY LockTyped
<1>2. ledger["CHAIN_ESCROW"] \in Int
  BY DEF Typed, Accounts, CashAccounts
<1>3. Locked = SumFunction(f) /\ Locked' = SumFunction(g)
  BY DEF Locked
<1>4. CASE UNCHANGED <<orderVars, ledger>>
  <2>1. \A o \in Orders : Lock(o)' = Lock(o)
    BY <1>4, OwnPart, LockStands DEF orderVars, Milestones
  <2>2. f = g
    BY <2>1
  <2>3. SumFunction(f) \in Int
    <3> HIDE DEF f
    <3> QED
      BY <1>1, DeskAssumption, SumType
  <2> HIDE DEF f, g
  <2> QED
    BY <1>2, <1>3, <1>4, <2>2, <2>3
<1>5. ASSUME NEW o \in Orders, Follows(o)
      PROVE  /\ ledger'["CHAIN_ESCROW"] - ledger["CHAIN_ESCROW"] = SumFunction(g) - SumFunction(f)
             /\ SumFunction(g) \in Int
  <2>1. \A p \in Orders \ {o} : Lock(p)' = Lock(p)
    BY <1>5, OwnPart, LockStands DEF Follows, Elsewhere, Milestones
  <2>2. ledger'["CHAIN_ESCROW"] - ledger["CHAIN_ESCROW"] = Lock(o)' - Lock(o)
    <3>1. CASE ledger'["CHAIN_ESCROW"] = ledger["CHAIN_ESCROW"]
               /\ Stands(o, "escrowed") /\ Stands(o, "deployed")
      BY <1>2, <3>1, LockStands, LockTyped
    <3>2. CASE \E m \in Milestones : Passes(o, m)
      BY <3>2, LockPasses
    <3> QED
      BY <1>5, <3>1, <3>2 DEF Follows, Accounted, Milestones
  <2>3. Lock(o)' \in Int
    <3>1. Reached(o, "escrowed")' \/ Reached(o, "deployed")' => o \in Buys
      BY DEF Reached
    <3> QED
      BY <3>1, Amounts DEF Lock
  <2>4. g \in [Orders -> Int]
    BY <1>1, <2>1, <2>3, LockTyped
  <2>5. \A p \in Orders : p # o => g[p] = f[p]
    BY <2>1
  <2>6. g[o] = Lock(o)' /\ f[o] = Lock(o) /\ Lock(o) \in Int
    BY LockTyped
  <2> HIDE DEF f, g
  <2>7. /\ SumFunction(f) \in Int /\ SumFunction(g) \in Int
        /\ SumFunction(g) = SumFunction(f) + g[o] - f[o]
    BY <1>1, <2>4, <2>5, DeskAssumption, SumChange
  <2> QED
    BY <2>2, <2>3, <2>6, <2>7
<1> QED
  BY <1>3, <1>4, <1>5

LEMMA LockedTyped ==
  ASSUME Shape
  PROVE  Locked \in Int
<1> DEFINE f == [o \in Orders |-> Lock(o)]
<1>1. f \in [Orders -> Int]
  BY LockTyped
<1> HIDE DEF f
<1>2. SumFunction(f) \in Int
  BY <1>1, DeskAssumption, SumType
<1> QED
  BY <1>2 DEF Locked, f

LEMMA InitLocked ==
  ASSUME Init
  PROVE  Locked = 0 /\ ledger["CHAIN_ESCROW"] = 0
<1> DEFINE f == [o \in Orders |-> Lock(o)]
<1>1. \A o \in Orders : Lock(o) = 0
  BY DEF Init, Idle, Lock, Reached, Taken
<1>2. f = [o \in Orders |-> 0]
  BY <1>1
<1> HIDE DEF f
<1>3. SumFunction(f) = 0
  BY <1>2, DeskAssumption, SumZeros
<1>4. ledger["CHAIN_ESCROW"] = 0
  BY DEF Init, Accounts, CashAccounts
<1> QED
  BY <1>3, <1>4 DEF Locked, f

\* Between two effects what is locked is the escrow of the pending orders.
LEMMA LockRest ==
  ASSUME Shape, Typed, AllStraight, unbooked = {},
         \A b \in Buys : order[b] # "CANCELLED" /\ ~Running(b, "deploy_escrow", "book")
  PROVE  Locked = SumOver({b \in Buys : intent[b].state # "None" /\ order[b] = "PENDING"},
                          LAMBDA b : Escrow[b])
<1> DEFINE Pending == {b \in Buys : intent[b].state # "None" /\ order[b] = "PENDING"}
           cost == [o \in Orders |-> IF o \in Buys THEN Escrow[o] ELSE 0]
           lock == [o \in Orders |-> Lock(o)]
<1>1. ASSUME NEW b \in Buys
      PROVE  Lock(b) = IF b \in Pending THEN Escrow[b] ELSE 0
  <2>1. b \in Orders /\ Escrow[b] \in Int /\ order[b] \in OrderStates
    BY DeskAssumption DEF Orders, Shape
  <2>2. OnItsWay(b) /\ Untouched(b) /\ BuyCourse(b)
    BY <2>1 DEF AllStraight, Straight
  <2>3. Reached(b, "escrowed") <=> intent[b].state # "None"
    BY DEF Reached
  <2>4. Reached(b, "deployed") <=> Taken(b, 4)
    BY DEF Reached
  <2>5. CASE intent[b].state = "None"
    <3>1. ~Taken(b, 4)
      BY <2>2, <2>5 DEF Untouched, Taken
    <3> QED
      BY <2>3, <2>4, <2>5, <3>1 DEF Lock
  <2>6. CASE intent[b].state # "None" /\ order[b] = "PENDING"
    <3>1. ~Taken(b, 4)
      BY <2>2, <2>6 DEF BuyCourse
    <3> QED
      BY <2>1, <2>3, <2>4, <2>6, <3>1 DEF Lock
  <2>7. CASE intent[b].state # "None" /\ order[b] # "PENDING"
    <3>1. Taken(b, 4) \/ (intent[b].cursor = 3 /\ worker[b].at = "book")
      BY <2>1, <2>2, <2>7 DEF BuyCourse, OrderStates
    <3>2. ~(intent[b].cursor = 3 /\ worker[b].at = "book")
      <4> SUFFICES ASSUME intent[b].cursor = 3, worker[b].at = "book"
                   PROVE  FALSE
        OBVIOUS
      <4>1. IsRunning(b)
        BY <2>2 DEF OnItsWay
      <4>2. NextStep(b) = "deploy_escrow"
        BY <2>1, StepAt DEF Length
      <4>3. Len(Saga(b)) = 10
        BY <2>1, SagaLength DEF Length
      <4>4. Running(b, "deploy_escrow", "book")
        BY <4>1, <4>2, <4>3 DEF Running, Driven, IsRunning
      <4> QED
        BY <4>4
    <3> QED
      BY <2>1, <2>3, <2>4, <2>7, <3>1, <3>2 DEF Lock
  <2> QED
    BY <2>5, <2>6, <2>7
<1>2. \A o \in Orders : o \notin Buys => Lock(o) = 0
  BY DEF Lock, Reached
<1>3. cost \in [Orders -> Int] /\ Pending \in SUBSET Orders
  BY DeskAssumption DEF Orders
<1>4. lock = [o \in Orders |-> IF o \in Pending THEN cost[o] ELSE 0]
  <2> SUFFICES ASSUME NEW o \in Orders
               PROVE  lock[o] = IF o \in Pending THEN cost[o] ELSE 0
    OBVIOUS
  <2> QED
    BY <1>1, <1>2
<1>5. [b \in Pending |-> Escrow[b]] = [b \in Pending |-> cost[b]]
  BY <1>3
<1>6. SumOver(Pending, LAMBDA b : Escrow[b]) = SumFunction([b \in Pending |-> cost[b]])
  <2> HIDE DEF Pending, cost
  <2> QED
    BY <1>5 DEF SumOver
<1>7. Locked = SumFunction(lock)
  BY DEF Locked
<1> HIDE DEF cost, lock
<1>8. SumFunction([b \in Pending |-> cost[b]]) = SumFunction(lock)
  <2> HIDE DEF Pending
  <2> QED
    BY <1>3, <1>4, SumOverOrders
<1> QED
  BY <1>6, <1>7, <1>8

=============================================================================
