----------------------------- MODULE SagaRunner -----------------------------
(***************************************************************************)
(* The saga runner of the orchestrator: several workers (processes, or the *)
(* ticks an operator asks for) drive one intent through the steps of its   *)
(* saga over a shared store, which keeps the intent under optimistic       *)
(* locking, a lease without an owner, and the journal of attempts.         *)
(*                                                                         *)
(* The runner is asynchronous code: an action is what a worker does from   *)
(* one await to the next, the store call it awaits included.  A step is    *)
(* what its contract allows: it may do its effect or not, return any       *)
(* result and throw any class of error.  A crash may fall between any two  *)
(* actions and loses everything but the store and the effects.             *)
(*                                                                         *)
(* Abstracted: facts (they are saved with the stage), identifiers, the     *)
(* texts of errors, the length of delays, and failures of the store other  *)
(* than a version that does not match.  Intents do not share anything, so  *)
(* one is modelled; the time its worker spends on the rest of a batch is   *)
(* a pause before the worker's next action.                                *)
(***************************************************************************)
EXTENDS Integers, Sequences, FiniteSetsExt

CONSTANTS
    Workers,
    NumSteps,            \* number of steps of the saga
    Resolvable,          \* steps that define resolve
    Compensable,         \* steps that define compensate
    Removable,           \* steps that a new release of the saga may lack
    maxAttempts,         \* policy.maxAttempts
    Results,             \* what a step may return or throw
    MaxLapses,           \* bound on the leases that run out under a live worker
    MaxPolls,            \* bound on the WAIT results
    MaxCrashes,          \* bound on the crashes
    MaxOperator          \* bound on the operator's calls

Steps == 1 .. NumSteps

ASSUME RunnerAssumption ==
    /\ NumSteps \in Nat
    /\ Resolvable \subseteq Steps
    /\ Compensable \subseteq Steps
    /\ Removable \subseteq Steps
    /\ maxAttempts \in Nat \ {0}
    /\ Results \subseteq {"ADVANCE", "WAIT", "UNWIND", "MANUAL",
                        "RETRY", "TERMINAL", "AMBIGUOUS"}
    /\ MaxLapses \in Nat
    /\ MaxPolls \in Nat
    /\ MaxCrashes \in Nat
    /\ MaxOperator \in Nat

VARIABLES
    intent,    \* the stored intent
    due,       \* whether its nextAttemptAt has come
    leased,    \* whether it has a lease that has not run out
    journal,   \* the attempts, in the order in which they began
    saga,      \* the steps of the deployed saga
    effect,    \* what each step has done in the world
    at,        \* the store call or the call of a step a worker is about to make
    mine,      \* a worker's copy of the intent
    tried,     \* index in the journal of the attempt it makes or recovers
    result,    \* what that attempt came to
    todo,      \* the next step it compensates
    spent      \* bookkeeping: what has been used up of the bounds, and whether
               \* an operator resumed the intent after its unwind had begun

storeVars  == <<intent, due, leased, journal>>
workerVars == <<at, mine, tried, result, todo>>
vars == <<storeVars, saga, effect, workerVars, spent>>

-----------------------------------------------------------------------------
States == {"PENDING", "RUNNING", "WAITING", "COMPLETED", "UNWINDING",
           "CANCELLED", "NEEDS_MANUAL"}

\* The transitions that persist lets through, other than staying put.
TRANSITIONS ==
    {"PENDING"}      \X {"RUNNING", "CANCELLED", "NEEDS_MANUAL"} \cup
    {"RUNNING"}      \X {"WAITING", "COMPLETED", "UNWINDING", "NEEDS_MANUAL"} \cup
    {"WAITING"}      \X {"RUNNING", "UNWINDING", "CANCELLED", "NEEDS_MANUAL"} \cup
    {"UNWINDING"}    \X {"CANCELLED", "NEEDS_MANUAL"} \cup
    {"NEEDS_MANUAL"} \X {"RUNNING", "UNWINDING", "CANCELLED"}

ClaimableButUnwinding == {"PENDING", "RUNNING", "WAITING"}
Claimable == {"PENDING", "RUNNING", "WAITING", "UNWINDING"}

StepResults == {"ADVANCE", "WAIT", "UNWIND", "MANUAL"}
Errors      == {"RETRY", "TERMINAL", "AMBIGUOUS"}
Outcomes    == {"OK", "WAIT", "RETRY", "TERMINAL", "AMBIGUOUS"}
Unfinished  == "None"

Intent == [state : States, stage : 0 .. NumSteps,
           attempts : [Steps -> Nat], version : Nat]

Attempt == [step : Steps, attempt : Nat, outcome : Outcomes \cup {Unfinished}]

Places == {"idle", "start", "look", "begin", "run", "resolve", "recover",
           "apply", "park", "complete", "unwind", "release"}

\* The copy of a worker that drives nothing.
NoCopy == [state |-> "PENDING", stage |-> 0, attempts |-> [s \in Steps |-> 0],
           version |-> 0]

Init ==
    /\ intent = [NoCopy EXCEPT !.version = 1]
    /\ due = TRUE
    /\ leased = FALSE
    /\ journal = <<>>
    /\ saga = Steps
    /\ effect = [s \in Steps |-> "none"]
    /\ at = [w \in Workers |-> "idle"]
    /\ mine = [w \in Workers |-> NoCopy]
    /\ tried = [w \in Workers |-> 0]
    /\ result = [w \in Workers |-> "None"]
    /\ todo = [w \in Workers |-> 0]
    /\ spent = [polls |-> 0, crashes |-> 0, operator |-> 0, lapses |-> 0,
                reopened |-> FALSE]

-----------------------------------------------------------------------------
(* The cursor.  A definition set just before another one and with its      *)
(* parameters is a slip of that code; it is used by no specification, and  *)
(* the properties are shown to notice it.                                  *)

Remaining(stage) == {s \in saga : s > stage}
KnownStage(stage) == stage \in saga \cup {0}

NextStepFromTheEnd(stage) == Max(Remaining(stage))
NextStep(stage) == Min(Remaining(stage))

\* Where the loop of drive goes from a copy of the intent.
LoopHeadUnknownIsPastTheEnd(stage) ==
    IF ~KnownStage(stage) THEN "complete"
    ELSE IF Remaining(stage) = {} THEN "complete" ELSE "look"
LoopHead(stage) ==
    IF ~KnownStage(stage) THEN "park"
    ELSE IF Remaining(stage) = {} THEN "complete" ELSE "look"

\* Where drive starts.
Entry(copy) ==
    CASE copy.state = "UNWINDING" -> IF KnownStage(copy.stage) THEN "unwind" ELSE "park"
      [] copy.state = "PENDING"   -> "start"
      [] OTHER                    -> LoopHead(copy.stage)

\* The last step not after s that has something to compensate, 0 for none.
ToCompensateBefore(s) == Max({0} \cup {r \in saga \cap Compensable : r < s})
ToCompensate(s) == Max({0} \cup {r \in saga \cap Compensable : r <= s})

MyStep(w)  == NextStep(mine[w].stage)
MyCount(w) == journal[tried[w]].attempt

InFlightNever(s) == {}
InFlight(s) == {i \in DOMAIN journal : journal[i].step = s /\ journal[i].outcome = Unfinished}

-----------------------------------------------------------------------------
(* Writing.                                                                *)

\* The store accepts a copy that nobody has overtaken.
IsLatestUnchecked(w) == TRUE
IsLatest(w) == mine[w].version = intent.version

Allowed(from, to) == from = to \/ <<from, to>> \in TRANSITIONS

\* persist: save the worker's copy with a patch applied and go on at the given
\* place.  When the transition is not allowed or the version has moved, the
\* error ends the drive and only the lease is released.
persist(w, patched, place, dueNow) ==
    /\ IF IsLatest(w) /\ Allowed(mine[w].state, patched.state)
       THEN LET saved == [patched EXCEPT !.version = intent.version + 1] IN
            /\ intent' = saved
            /\ due' = dueNow
            /\ mine' = [mine EXCEPT ![w] = saved]
            /\ at' = [at EXCEPT ![w] = place]
       ELSE /\ at' = [at EXCEPT ![w] = "release"]
            /\ UNCHANGED <<intent, due, mine>>
    /\ tried' = [tried EXCEPT ![w] = 0]
    /\ result' = [result EXCEPT ![w] = "None"]
    /\ UNCHANGED <<leased, journal, saga, effect, todo, spent>>

park(w, copy) == persist(w, [copy EXCEPT !.state = "NEEDS_MANUAL"], "release", TRUE)

Counted(w) == [mine[w].attempts EXCEPT ![MyStep(w)] = MyCount(w)]

\* finishAttempt
finishAttempt(w, outcome) == journal' = [journal EXCEPT ![tried[w]].outcome = outcome]

OutcomeUnmapped(r) == r
Outcome(r) ==
    CASE r = "ADVANCE" -> "OK"
      [] r = "UNWIND"  -> "TERMINAL"
      [] r \in {"MANUAL", "Unknown"} -> "AMBIGUOUS"
      [] OTHER -> r

\* A wait is an external event still to come, so there are finitely many.
Polls(r) ==
    /\ r = "WAIT" => spent.polls < MaxPolls
    /\ spent' = [spent EXCEPT !.polls = IF r = "WAIT" THEN @ + 1 ELSE @]

\* The effect of a step happens, or perhaps happens.
Does(s)   == effect' = [effect EXCEPT ![s] = "done"]
MayDo(s)  == Does(s) \/ UNCHANGED effect

-----------------------------------------------------------------------------
(* One tick of a worker.                                                   *)

claimDue(w) ==
    /\ at[w] = "idle"
    /\ intent.state \in Claimable
    /\ due
    /\ ~leased
    /\ leased' = TRUE
    /\ mine' = [mine EXCEPT ![w] = intent]
    /\ at' = [at EXCEPT ![w] = Entry(intent)]
    /\ todo' = [todo EXCEPT ![w] = IF intent.state = "UNWINDING"
                                   THEN ToCompensate(intent.stage) ELSE 0]
    /\ UNCHANGED <<intent, due, journal, saga, effect, tried, result, spent>>

start(w) ==
    /\ at[w] = "start"
    /\ persist(w, [mine[w] EXCEPT !.state = "RUNNING"], LoopHead(mine[w].stage), due)

complete(w) ==
    /\ at[w] = "complete"
    /\ persist(w, [mine[w] EXCEPT !.state = "COMPLETED"], "release", TRUE)

findInFlightAttempt(w) ==
    /\ at[w] = "look"
    /\ LET inFlight == InFlight(MyStep(w)) IN
       IF inFlight = {}
       THEN /\ at' = [at EXCEPT ![w] = "begin"]
            /\ UNCHANGED tried
       ELSE /\ at' = [at EXCEPT ![w] = "recover"]
            /\ tried' = [tried EXCEPT ![w] = Min(inFlight)]
    /\ UNCHANGED <<storeVars, saga, effect, mine, result, todo, spent>>

beginAttempt(w) ==
    /\ at[w] = "begin"
    /\ journal' = Append(journal, [step |-> MyStep(w),
                                   attempt |-> mine[w].attempts[MyStep(w)] + 1,
                                   outcome |-> Unfinished])
    /\ tried' = [tried EXCEPT ![w] = Len(journal) + 1]
    /\ at' = [at EXCEPT ![w] = "run"]
    /\ UNCHANGED <<intent, due, leased, saga, effect, mine, result, todo, spent>>

\* step.run comes to r; its outcome is journalled.
run(w, r) ==
    LET s == MyStep(w) IN
    /\ at[w] = "run"
    /\ Polls(r)
    /\ CASE r = "ADVANCE" -> Does(s)
         [] r \in {"MANUAL", "AMBIGUOUS"} -> MayDo(s)
         [] OTHER -> UNCHANGED effect
    /\ finishAttempt(w, Outcome(r))
    /\ result' = [result EXCEPT ![w] = r]
    /\ at' = [at EXCEPT ![w] = IF r # "AMBIGUOUS" THEN "apply"
                               ELSE IF s \in Resolvable THEN "resolve" ELSE "park"]
    /\ UNCHANGED <<intent, due, leased, saga, mine, tried, todo>>

\* A resolver that vouches for the effect tells the truth; "Unknown" stands for
\* one that returns null or throws.
Answers(w, r) == r = "ADVANCE" => effect[MyStep(w)] # "none"

\* handleStepError: the counterparty is asked about an ambiguous outcome.
resolve(w, r) ==
    /\ at[w] = "resolve"
    /\ Answers(w, r)
    /\ Polls(r)
    /\ result' = [result EXCEPT ![w] = r]
    /\ at' = [at EXCEPT ![w] = IF r = "Unknown" THEN "park" ELSE "apply"]
    /\ UNCHANGED <<storeVars, saga, effect, mine, tried, todo>>

recoverInFlight(w, r) ==
    /\ at[w] = "recover"
    /\ MyStep(w) \notin Resolvable => r = "Unknown"
    /\ Answers(w, r)
    /\ Polls(r)
    /\ finishAttempt(w, Outcome(r))
    /\ result' = [result EXCEPT ![w] = r]
    /\ at' = [at EXCEPT ![w] = IF r = "Unknown" THEN "park" ELSE "apply"]
    /\ UNCHANGED <<intent, due, leased, saga, effect, mine, tried, todo>>

\* applyResult, and the tail of handleStepError.
applyResult(w) ==
    LET s       == MyStep(w)
        counted == [mine[w] EXCEPT !.attempts = Counted(w)]
    IN
    /\ at[w] = "apply"
    /\ CASE result[w] = "ADVANCE" ->
              persist(w, [counted EXCEPT !.state = "RUNNING", !.stage = s], LoopHead(s), TRUE)
         [] result[w] = "WAIT" ->
              persist(w, [counted EXCEPT !.state = "WAITING"], "release", FALSE)
         [] result[w] = "UNWIND" ->
              persist(w, [counted EXCEPT !.state = "UNWINDING"], "release", TRUE)
         [] result[w] = "TERMINAL" ->
              persist(w, [mine[w] EXCEPT !.state = "UNWINDING"], "release", TRUE)
         [] result[w] = "RETRY" /\ MyCount(w) < maxAttempts ->
              persist(w, counted, "release", FALSE)
         [] OTHER -> park(w, counted)

parkUnresolved(w) ==
    /\ at[w] = "park"
    /\ park(w, mine[w])

\* unwind: one compensation, which succeeds or throws.
compensate(w, ok) ==
    LET s == todo[w] IN
    /\ at[w] = "unwind"
    /\ s # 0
    /\ IF ok
       THEN /\ effect' = [effect EXCEPT ![s] = IF @ = "done" THEN "undone" ELSE @]
            /\ todo' = [todo EXCEPT ![w] = ToCompensate(s - 1)]
            /\ UNCHANGED at
       ELSE /\ at' = [at EXCEPT ![w] = "park"]
            /\ UNCHANGED <<effect, todo>>
    /\ UNCHANGED <<storeVars, saga, mine, tried, result, spent>>

cancel(w) ==
    /\ at[w] = "unwind"
    /\ todo[w] = 0
    /\ persist(w, [mine[w] EXCEPT !.state = "CANCELLED"], "release", TRUE)

\* A worker that has left the intent keeps nothing of it.
Forgets(w) ==
    /\ at' = [at EXCEPT ![w] = "idle"]
    /\ mine' = [mine EXCEPT ![w] = NoCopy]
    /\ tried' = [tried EXCEPT ![w] = 0]
    /\ result' = [result EXCEPT ![w] = "None"]
    /\ todo' = [todo EXCEPT ![w] = 0]

\* The lease is dropped, whoever holds it by now.
releaseLease(w) ==
    /\ at[w] = "release"
    /\ leased' = FALSE
    /\ Forgets(w)
    /\ UNCHANGED <<intent, due, journal, saga, effect, spent>>

-----------------------------------------------------------------------------
(* The rest of the world.                                                  *)

\* A worker dies; a step that was running may have had its effect.
Crash(w) ==
    /\ at[w] # "idle"
    /\ spent.crashes < MaxCrashes
    /\ spent' = [spent EXCEPT !.crashes = @ + 1]
    /\ IF at[w] = "run" THEN MayDo(MyStep(w)) ELSE UNCHANGED effect
    /\ Forgets(w)
    /\ UNCHANGED <<storeVars, saga>>

LeaseExpires ==
    /\ leased
    /\ leased' = FALSE
    /\ IF \A w \in Workers : at[w] = "idle"
       THEN UNCHANGED spent
       ELSE /\ spent.lapses < MaxLapses
            /\ spent' = [spent EXCEPT !.lapses = @ + 1]
    /\ UNCHANGED <<intent, due, journal, saga, effect, workerVars>>

Wake ==
    /\ ~due
    /\ due' = TRUE
    /\ UNCHANGED <<intent, leased, journal, saga, effect, workerVars, spent>>

OperatorSaves(patched, reopens) ==
    /\ spent.operator < MaxOperator
    /\ spent' = [spent EXCEPT !.operator = @ + 1, !.reopened = @ \/ reopens]
    /\ intent' = [patched EXCEPT !.version = @ + 1]
    /\ due' = TRUE
    /\ UNCHANGED <<leased, journal, saga, effect, workerVars>>

\* A step has been undone, or a worker is at undoing them.
UnwindBegun ==
    \/ \E s \in Steps : effect[s] = "undone"
    \/ \E w \in Workers : at[w] = "unwind"

\* POST /v1/intents/:id/resume
operatorResume ==
    /\ intent.state = "NEEDS_MANUAL"
    /\ OperatorSaves([intent EXCEPT !.state = "RUNNING", !.attempts = NoCopy.attempts],
                     UnwindBegun)

\* POST /v1/intents/:id/unwind, in whatever state the intent is.
operatorUnwind == OperatorSaves([intent EXCEPT !.state = "UNWINDING"], FALSE)

\* A release whose saga lacks a step is deployed; every worker restarts.
Redeploy(s) ==
    /\ s \in saga
    /\ \A w \in Workers : at[w] = "idle"
    /\ saga' = saga \ {s}
    /\ UNCHANGED <<storeVars, effect, workerVars, spent>>

WorkerStep(w) ==
    \/ claimDue(w)
    \/ start(w)
    \/ complete(w)
    \/ findInFlightAttempt(w)
    \/ beginAttempt(w)
    \/ \E r \in Results : run(w, r)
    \/ \E r \in (Results \cap StepResults) \cup {"Unknown"} : resolve(w, r)
    \/ \E r \in (Results \cap StepResults) \cup {"Unknown"} : recoverInFlight(w, r)
    \/ applyResult(w)
    \/ parkUnresolved(w)
    \/ \E ok \in BOOLEAN : compensate(w, ok)
    \/ cancel(w)
    \/ releaseLease(w)

Next ==
    \/ \E w \in Workers : WorkerStep(w) \/ Crash(w)
    \/ LeaseExpires
    \/ Wake
    \/ operatorResume
    \/ operatorUnwind
    \/ \E s \in Removable : Redeploy(s)

Spec == Init /\ [][Next]_vars

\* Each loop of main.ts schedules itself again after every tick and time passes:
\* a worker that lives goes on, leases run out, and delays come to an end.
Fairness ==
    /\ \A w \in Workers : WF_vars(WorkerStep(w))
    /\ WF_vars(LeaseExpires)
    /\ WF_vars(Wake)

FairSpec == Spec /\ Fairness

-----------------------------------------------------------------------------
TypeOK ==
    /\ intent \in Intent
    /\ due \in BOOLEAN
    /\ leased \in BOOLEAN
    /\ journal \in Seq(Attempt)
    /\ saga \in SUBSET Steps
    /\ effect \in [Steps -> {"none", "done", "undone"}]
    /\ at \in [Workers -> Places]
    /\ mine \in [Workers -> Intent]
    /\ tried \in [Workers -> Nat]
    /\ result \in [Workers -> StepResults \cup Errors \cup {"Unknown", "None"}]
    /\ todo \in [Workers -> 0 .. NumSteps]
    /\ spent \in [polls : Nat, crashes : Nat, operator : Nat, lapses : Nat,
                 reopened : BOOLEAN]

\* No step is attempted before every step ahead of it has had its effect,
\* whatever crashes, expired leases and stale copies lie in between (drive,
\* cursorFor).
StepsInOrder ==
    \A i \in DOMAIN journal : \A r \in saga :
        r < journal[i].step => effect[r] # "none"

\* A completed intent has done every step of its saga and undone none, not even
\* when the saga changed under it (drive, UNKNOWN_STAGE) or workers with stale
\* copies were unwinding it.  What is set apart is the operator who resumes an
\* intent after its unwind had begun: the resume route (server.ts) does not look
\* at what was compensated, and the drive goes on forward over it.
CompletedMeansDone ==
    intent.state = "COMPLETED" =>
        \A s \in saga : effect[s] = "done" \/ (effect[s] = "undone" /\ spent.reopened)

\* A parked intent is not touched without an explicit operator action, not
\* even by a worker that was driving it when it was parked (NEEDS_MANUAL).
ParkedForHuman ==
    [][intent.state = "NEEDS_MANUAL" /\ intent' # intent
         => spent'.operator > spent.operator]_vars

\* As long as leases outlast the drives, an effect that may be in flight is
\* never started again: its attempt is resolved first (runStep).
NoRerunInFlight ==
    [][spent'.lapses = 0 => \A i \in DOMAIN journal' \ DOMAIN journal : \A j \in DOMAIN journal :
          journal[j].step = journal'[i].step => journal[j].outcome # Unfinished]_vars

\* As long as leases outlast the drives, a cancelled intent has undone every
\* step it had reached, a crash halfway through an unwind included (unwind).
CancelledMeansUndone ==
    intent.state = "CANCELLED" /\ spent.lapses = 0 =>
        \A s \in saga \cap Compensable : s <= intent.stage => effect[s] # "done"

\* Every intent comes to rest: completed, cancelled or parked for a human.
ComesToRest == []<>(intent.state \in {"COMPLETED", "CANCELLED", "NEEDS_MANUAL"})

\* The stored record moves as if a single worker drove it.
Record == INSTANCE IntentRecord WITH state <- intent.state, stage <- intent.stage
RecordSpec == Record!Spec

-----------------------------------------------------------------------------
(* What the documentation says of the runner and the runner does not do.   *)

\* runner.ts: "Never retry an ambiguous effect ... it does not try again."
\* Stated for steps without a resolver, which can only be parked.
NeverRetryAmbiguous ==
    [][\A i \in DOMAIN journal' \ DOMAIN journal : \A j \in DOMAIN journal :
          journal[j].step = journal'[i].step => journal[j].outcome # "AMBIGUOUS"]_vars

\* runner.ts: "Compensations run in reverse order over the steps that actually
\* completed."
UnwindCoversCompleted ==
    intent.state = "CANCELLED" =>
        \A i \in DOMAIN journal :
            journal[i].outcome = "OK" /\ journal[i].step \in Compensable
                => effect[journal[i].step] # "done"

=============================================================================
