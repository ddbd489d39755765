-------------------------- MODULE SagaRunnerProofs --------------------------
(***************************************************************************)
(* Theorems about the saga runner, for any number of workers, steps,       *)
(* crashes, lapsed leases and calls of the operator.                       *)
(*                                                                         *)
(* The argument: a worker's copy that bears the version of the stored      *)
(* intent is equal to it (Coherent), so that every save the store accepts  *)
(* is a step from the stored record; what a worker is about to do fits the *)
(* state of its copy (Placed); and the effects of the steps up to any      *)
(* known stage, stored or copied, have happened (Covered).  While leases   *)
(* outlast the drives, one worker at most is at the intent (Alone), so     *)
(* that what it has looked up and undone is still so (Orderly).  And once  *)
(* a step was undone, only an operator turns the intent round (WayBack).   *)
(***************************************************************************)
EXTENDS SagaRunner, TLAPS, WellFoundedInduction

-----------------------------------------------------------------------------
(* Least and greatest elements.                                            *)

LEMMA LeastElement ==
    ASSUME NEW S \in SUBSET Nat, S # {}
    PROVE  \E x \in S : \A y \in S : x <= y
<1> DEFINE R == {p \in Nat \X Nat : p[1] < p[2]}
<1>1. IsWellFoundedOn(R, Nat)
  BY NatLessThanWellFounded DEF OpToRel
<1>2. PICK x \in S : \A y \in S : ~(<<y, x>> \in R)
  <2> HIDE DEF R
  <2> QED
    BY <1>1, WFMin
<1>3. ASSUME NEW y \in S
      PROVE  x <= y
  <2>1. CASE y < x
    <3>1. <<y, x>> \in R
      BY <2>1
    <3> QED
      BY <1>2, <3>1
  <2> QED
    BY <2>1
<1> QED
  BY <1>3

LEMMA GreatestElement ==
    ASSUME NEW N \in Nat, NEW S \in SUBSET (0 .. N), S # {}
    PROVE  \E x \in S : \A y \in S : y <= x
<1> DEFINE T == {n \in Nat : n <= N /\ N - n \in S}
<1>1. T \in SUBSET Nat /\ T # {}
  <2>1. PICK y \in S : TRUE
    OBVIOUS
  <2>2. N - y \in T
    BY <2>1
  <2> QED
    BY <2>2
<1>2. PICK x \in T : \A y \in T : x <= y
  BY <1>1, LeastElement
<1>3. N - x \in S /\ x \in Nat
  BY <1>2
<1>4. \A y \in S : N - y \in T
  OBVIOUS
<1> QED
  BY <1>2, <1>3, <1>4

LEMMA MinIsLeast ==
    ASSUME NEW S \in SUBSET Nat, S # {}
    PROVE  Min(S) \in S /\ \A y \in S : Min(S) <= y
  BY LeastElement DEF Min

LEMMA MaxIsGreatest ==
    ASSUME NEW N \in Nat, NEW S \in SUBSET (0 .. N), S # {}
    PROVE  Max(S) \in S
<1>1. \E x \in S : \A y \in S : x >= y
  BY GreatestElement
<1> QED
  BY <1>1 DEF Max

LEMMA NextStepLeast ==
    ASSUME saga \in SUBSET Steps, NEW k, Remaining(k) # {}
    PROVE  /\ NextStep(k) \in Remaining(k)
           /\ NextStep(k) \in Steps
           /\ \A r \in Remaining(k) : NextStep(k) <= r
<1>1. Remaining(k) \in SUBSET Nat /\ Remaining(k) \subseteq Steps
  <2>1. Steps \subseteq Nat
    BY RunnerAssumption DEF Steps
  <2>2. Remaining(k) \subseteq saga
    BY DEF Remaining
  <2> QED
    BY <2>1, <2>2
<1> QED
  BY <1>1, MinIsLeast DEF NextStep

LEMMA ToCompensateType ==
    ASSUME saga \in SUBSET Steps, NEW k
    PROVE  ToCompensate(k) \in 0 .. NumSteps
<1>1. {0} \cup {r \in saga \cap Compensable : r <= k} \in SUBSET (0 .. NumSteps)
  <2>1. 0 \in 0 .. NumSteps /\ Steps \subseteq 0 .. NumSteps
    BY RunnerAssumption DEF Steps
  <2> QED
    BY <2>1
<1> QED
  BY <1>1, MaxIsGreatest, RunnerAssumption DEF ToCompensate

-----------------------------------------------------------------------------
(* The inductive invariant.                                                *)

Working == {"RUNNING", "WAITING"}

\* The places of a worker that is at a step, and those with an attempt.
AtStep    == {"look", "begin", "run", "resolve", "recover", "apply"}
AtAttempt == {"run", "resolve", "recover", "apply"}

\* A worker at this place may have this copy.
Suits(place, copy) ==
    /\ place = "start" => copy.state = "PENDING"
    /\ place \in AtStep => copy.state \in Working /\ Remaining(copy.stage) # {}
    /\ place = "complete" =>
          copy.state \in Working /\ KnownStage(copy.stage) /\ Remaining(copy.stage) = {}
    /\ place = "unwind" => copy.state = "UNWINDING"
    /\ place = "park" => copy.state \in Claimable

Placed ==
    \A w \in Workers :
        /\ Suits(at[w], mine[w])
        /\ at[w] \in AtAttempt => tried[w] \in DOMAIN journal
        /\ at[w] = "apply" =>
              result[w] \in {"ADVANCE", "WAIT", "UNWIND", "MANUAL", "RETRY", "TERMINAL"}

Coherent ==
    /\ intent.version > 0
    /\ \A w \in Workers :
        /\ mine[w].version <= intent.version
        /\ mine[w].version = intent.version => mine[w] = intent

\* Every step up to a stage has had its effect.
Behind(stage) == \A r \in saga : r <= stage => effect[r] # "none"

Covered ==
    /\ Behind(intent.stage)
    /\ \A w \in Workers : Behind(mine[w].stage)
    /\ \A w \in Workers :
          at[w] = "apply" /\ result[w] = "ADVANCE" => effect[MyStep(w)] # "none"
    /\ intent.state = "COMPLETED" => Remaining(intent.stage) = {}

IInv == TypeOK /\ Placed /\ Coherent /\ Covered /\ StepsInOrder

-----------------------------------------------------------------------------
LEMMA LoopHeadSuits ==
    ASSUME saga \in SUBSET Steps, NEW copy, copy.state \in Working
    PROVE  LoopHead(copy.stage) \in Places /\ Suits(LoopHead(copy.stage), copy)
           /\ LoopHead(copy.stage) \notin AtAttempt
  BY DEF LoopHead, Suits, Places, AtStep, AtAttempt, Working, Claimable, KnownStage

LEMMA EntrySuits ==
    ASSUME saga \in SUBSET Steps, NEW copy, copy.state \in Claimable
    PROVE  Entry(copy) \in Places /\ Suits(Entry(copy), copy) /\ Entry(copy) \notin AtAttempt
<1>1. CASE copy.state = "UNWINDING"
  BY <1>1 DEF Entry, Suits, Places, AtStep, AtAttempt, Claimable
<1>2. CASE copy.state = "PENDING"
  BY <1>2 DEF Entry, Suits, Places, AtStep, AtAttempt, Claimable
<1>3. CASE copy.state \in Working
  <2>1. Entry(copy) = LoopHead(copy.stage)
    BY <1>3 DEF Entry, Working
  <2> QED
    BY <1>3, <2>1, LoopHeadSuits
<1> QED
  BY <1>1, <1>2, <1>3 DEF Claimable, Working

\* The step of a worker that is at one.
LEMMA MyStepIsNext ==
    ASSUME TypeOK, Placed, NEW w \in Workers, at[w] \in AtStep
    PROVE  /\ MyStep(w) \in Steps
           /\ MyStep(w) \in Remaining(mine[w].stage)
           /\ \A r \in Remaining(mine[w].stage) : MyStep(w) <= r
  BY NextStepLeast DEF TypeOK, Placed, Suits, MyStep

\* What a worker is at depends on nothing else than its copy and the saga.
LEMMA SameSaga ==
    ASSUME UNCHANGED saga
    PROVE  /\ \A k : Remaining(k)' = Remaining(k)
           /\ \A k : KnownStage(k)' = KnownStage(k)
           /\ \A place, copy : Suits(place, copy)' <=> Suits(place, copy)
<1>1. \A k : Remaining(k)' = Remaining(k)
  BY DEF Remaining
<1>2. \A k : KnownStage(k)' = KnownStage(k)
  BY DEF KnownStage
<1> QED
  BY <1>1, <1>2 DEF Suits

-----------------------------------------------------------------------------
(* Saving.                                                                 *)

\* What a save does when the store accepts it.
LEMMA SavedFromStore ==
    ASSUME IInv, NEW w \in Workers, NEW patched, NEW place, NEW dueNow,
           persist(w, patched, place, dueNow), intent' # intent
    PROVE  /\ mine[w] = intent
           /\ Allowed(intent.state, patched.state)
           /\ intent' = [patched EXCEPT !.version = intent.version + 1]
  BY DEF persist, IsLatest, IInv, Coherent

LEMMA PersistInv ==
    ASSUME IInv, NEW w \in Workers, NEW patched \in Intent, NEW place \in Places \ AtAttempt,
           NEW dueNow \in BOOLEAN, persist(w, patched, place, dueNow),
           Suits(place, patched), Behind(patched.stage),
           patched.state = "COMPLETED" => Remaining(patched.stage) = {}
    PROVE  IInv'
<1> DEFINE saved == [patched EXCEPT !.version = intent.version + 1]
<1>0. TypeOK /\ Placed /\ Coherent /\ Covered /\ StepsInOrder
  BY DEF IInv
<1>a. UNCHANGED <<leased, journal, saga, effect, todo, spent>>
      /\ tried' = [tried EXCEPT ![w] = 0] /\ result' = [result EXCEPT ![w] = "None"]
  BY DEF persist
<1>b. /\ \A k : Remaining(k)' = Remaining(k)
      /\ \A p, copy : Suits(p, copy)' <=> Suits(p, copy)
  BY <1>a, SameSaga
<1>1. CASE at' = [at EXCEPT ![w] = "release"] /\ UNCHANGED <<intent, due, mine>>
  <2>1. TypeOK'
    BY <1>0, <1>1, <1>a DEF TypeOK, Places
  <2>2. Placed'
    <3> SUFFICES ASSUME NEW v \in Workers
                 PROVE  /\ Suits(at'[v], mine'[v])
                        /\ at'[v] \in AtAttempt => tried'[v] \in DOMAIN journal'
                        /\ at'[v] = "apply" =>
                              result'[v] \in {"ADVANCE", "WAIT", "UNWIND", "MANUAL", "RETRY", "TERMINAL"}
      BY <1>b DEF Placed
    <3>1. CASE v = w
      BY <1>0, <1>1, <3>1 DEF TypeOK, Suits, AtStep, AtAttempt
    <3>2. CASE v # w
      BY <1>0, <1>1, <1>a, <3>2 DEF TypeOK, Placed
    <3> QED
      BY <3>1, <3>2
  <2>3. Coherent'
    BY <1>0, <1>1 DEF Coherent
  <2>4. Covered'
    <3>1. \A v \in Workers : at'[v] = "apply" => v # w /\ at[v] = "apply" /\ result'[v] = result[v]
                                                /\ MyStep(v)' = MyStep(v)
      BY <1>0, <1>1, <1>a, <1>b DEF TypeOK, MyStep, NextStep
    <3>2. Behind(intent.stage)' /\ \A v \in Workers : Behind(mine[v].stage)'
      BY <1>0, <1>1, <1>a DEF Covered, Behind
    <3>3. intent'.state = "COMPLETED" => Remaining(intent.stage)' = {}
      BY <1>0, <1>1, <1>b DEF Covered
    <3> QED
      BY <1>0, <1>a, <3>1, <3>2, <3>3 DEF Covered
  <2>5. StepsInOrder'
    BY <1>0, <1>a DEF StepsInOrder
  <2> QED
    BY <2>1, <2>2, <2>3, <2>4, <2>5 DEF IInv
<1>2. CASE /\ intent' = saved /\ due' = dueNow /\ mine' = [mine EXCEPT ![w] = saved]
           /\ at' = [at EXCEPT ![w] = place]
  <2>0. /\ saved \in Intent /\ saved.version = intent.version + 1 /\ intent.version \in Nat
        /\ saved.state = patched.state /\ saved.stage = patched.stage
        /\ intent'.stage = patched.stage /\ intent'.state = patched.state
    <3>1. intent.version \in Nat
      BY <1>0 DEF TypeOK, Intent
    <3>2. intent.version + 1 \in Nat
      BY <3>1
    <3>3. saved \in Intent /\ saved.version = intent.version + 1
          /\ saved.state = patched.state /\ saved.stage = patched.stage
      BY <3>2 DEF Intent
    <3> QED
      BY <1>2, <3>1, <3>3
  <2> HIDE DEF saved
  <2>1. TypeOK'
    BY <1>0, <1>2, <1>a, <2>0 DEF TypeOK, Places
  <2>2. Placed'
    <3> SUFFICES ASSUME NEW v \in Workers
                 PROVE  /\ Suits(at'[v], mine'[v])
                        /\ at'[v] \in AtAttempt => tried'[v] \in DOMAIN journal'
                        /\ at'[v] = "apply" =>
                              result'[v] \in {"ADVANCE", "WAIT", "UNWIND", "MANUAL", "RETRY", "TERMINAL"}
      BY <1>b DEF Placed
    <3>1. CASE v = w
      <4>1. at'[v] = place /\ mine'[v] = saved
        BY <1>0, <1>2, <3>1 DEF TypeOK
      <4>2. Suits(place, saved)
        BY <2>0 DEF Suits
      <4> QED
        BY <4>1, <4>2 DEF AtAttempt
    <3>2. CASE v # w
      BY <1>0, <1>2, <1>a, <3>2 DEF TypeOK, Placed
    <3> QED
      BY <3>1, <3>2
  <2>3. Coherent'
    <3> SUFFICES ASSUME NEW v \in Workers
                 PROVE  /\ mine'[v].version <= intent'.version
                        /\ mine'[v].version = intent'.version => mine'[v] = intent'
      BY <1>0, <1>2, <2>0 DEF Coherent
    <3>1. CASE v = w
      BY <1>0, <1>2, <2>0, <3>1 DEF TypeOK
    <3>2. CASE v # w
      <4>1. mine'[v] = mine[v] /\ mine[v].version \in Nat /\ mine[v].version <= intent.version
        BY <1>0, <1>2, <3>2 DEF TypeOK, Coherent, Intent
      <4> QED
        BY <1>2, <2>0, <4>1
    <3> QED
      BY <3>1, <3>2
  <2>4. Covered'
    <3>1. \A v \in Workers : at'[v] = "apply" => v # w /\ at[v] = "apply" /\ result'[v] = result[v]
                                                /\ MyStep(v)' = MyStep(v)
      BY <1>0, <1>2, <1>a, <1>b DEF TypeOK, MyStep, NextStep, AtAttempt
    <3>2. Behind(intent.stage)' /\ \A v \in Workers : Behind(mine[v].stage)'
      BY <1>0, <1>2, <1>a, <2>0 DEF TypeOK, Covered, Behind
    <3>3. intent'.state = "COMPLETED" => Remaining(intent.stage)' = {}
      BY <1>0, <1>2, <1>b, <2>0 DEF Covered
    <3> QED
      BY <1>0, <1>a, <3>1, <3>2, <3>3 DEF Covered
  <2>5. StepsInOrder'
    BY <1>0, <1>a DEF StepsInOrder
  <2> QED
    BY <2>1, <2>2, <2>3, <2>4, <2>5 DEF IInv
<1> QED
  BY <1>1, <1>2 DEF persist

-----------------------------------------------------------------------------
(* Steps that save nothing.                                                *)

\* A worker moves without a save: what must be shown of its new place.
LEMMA LocalInv ==
    ASSUME IInv, NEW w \in Workers, TypeOK', StepsInOrder', UNCHANGED <<intent, saga>>,
           \A v \in Workers \ {w} : /\ at'[v] = at[v] /\ mine'[v] = mine[v]
                                    /\ tried'[v] = tried[v] /\ result'[v] = result[v],
           DOMAIN journal \subseteq DOMAIN journal',
           \A s \in Steps : effect[s] # "none" => effect'[s] # "none",
           mine'[w] \in {mine[w], intent, NoCopy},
           Suits(at'[w], mine'[w]),
           at'[w] \in AtAttempt => tried'[w] \in DOMAIN journal',
           at'[w] = "apply" =>
              /\ result'[w] \in {"ADVANCE", "WAIT", "UNWIND", "MANUAL", "RETRY", "TERMINAL"}
              /\ mine'[w] = mine[w]
              /\ result'[w] = "ADVANCE" => effect'[MyStep(w)] # "none"
    PROVE  IInv'
<1>0. TypeOK /\ Placed /\ Coherent /\ Covered /\ saga \in SUBSET Steps
  BY DEF IInv, TypeOK
<1>a. /\ \A k : Remaining(k)' = Remaining(k)
      /\ \A p, copy : Suits(p, copy)' <=> Suits(p, copy)
  BY SameSaga
<1>1. Placed'
  <2> SUFFICES ASSUME NEW v \in Workers
               PROVE  /\ Suits(at'[v], mine'[v])
                      /\ at'[v] \in AtAttempt => tried'[v] \in DOMAIN journal'
                      /\ at'[v] = "apply" =>
                            result'[v] \in {"ADVANCE", "WAIT", "UNWIND", "MANUAL", "RETRY", "TERMINAL"}
    BY <1>a DEF Placed
  <2>1. CASE v = w
    BY <2>1
  <2>2. CASE v # w
    BY <1>0, <2>2 DEF Placed
  <2> QED
    BY <2>1, <2>2
<1>2. Coherent'
  <2> SUFFICES ASSUME NEW v \in Workers
               PROVE  /\ mine'[v].version <= intent'.version
                      /\ mine'[v].version = intent'.version => mine'[v] = intent'
    BY <1>0 DEF Coherent
  <2>1. intent.version \in Nat /\ intent.version > 0 /\ NoCopy.version = 0
    BY <1>0 DEF Coherent, TypeOK, Intent, NoCopy
  <2>2. mine'[v] \in {mine[v], intent, NoCopy}
    OBVIOUS
  <2> QED
    BY <1>0, <2>1, <2>2 DEF Coherent
<1>3. Covered'
  <2>1. Behind(intent.stage)' /\ \A v \in Workers : Behind(mine[v].stage)'
    <3>1. \A r \in saga : ~(r <= NoCopy.stage)
      BY <1>0 DEF NoCopy, Steps
    <3>2. \A v \in Workers : mine'[v] \in {mine[v], intent, NoCopy}
      OBVIOUS
    <3> QED
      BY <1>0, <3>1, <3>2 DEF Covered, Behind
  <2>2. \A v \in Workers :
           (at[v] = "apply" /\ result[v] = "ADVANCE" => effect[MyStep(v)] # "none")'
    <3> SUFFICES ASSUME NEW v \in Workers, at'[v] = "apply", result'[v] = "ADVANCE"
                 PROVE  effect'[MyStep(v)'] # "none"
      OBVIOUS
    <3>1. mine'[v] = mine[v]
      OBVIOUS
    <3>2. MyStep(v)' = MyStep(v)
      BY <1>a, <3>1 DEF MyStep, NextStep
    <3>3. CASE v = w
      BY <3>2, <3>3
    <3>4. CASE v # w
      <4>1. at[v] = "apply" /\ result[v] = "ADVANCE"
        BY <3>4
      <4>2. MyStep(v) \in Steps /\ effect[MyStep(v)] # "none"
        BY <1>0, <4>1, MyStepIsNext DEF Covered, AtStep
      <4> QED
        BY <3>2, <4>2
    <3> QED
      BY <3>3, <3>4
  <2>3. intent'.state = "COMPLETED" => Remaining(intent.stage)' = {}
    BY <1>0, <1>a DEF Covered
  <2> QED
    BY <2>1, <2>2, <2>3 DEF Covered
<1> QED
  BY <1>1, <1>2, <1>3 DEF IInv

\* Attempts keep their steps and effects are not taken back to nothing.
LEMMA OrderKept ==
    ASSUME IInv, UNCHANGED saga, DOMAIN journal' = DOMAIN journal,
           \A i \in DOMAIN journal : journal'[i].step = journal[i].step,
           \A s \in Steps : effect[s] # "none" => effect'[s] # "none"
    PROVE  StepsInOrder'
  BY DEF IInv, StepsInOrder, TypeOK

LEMMA FinishKeepsSteps ==
    ASSUME TypeOK, NEW w \in Workers, tried[w] \in DOMAIN journal,
           NEW outcome \in Outcomes, finishAttempt(w, outcome)
    PROVE  /\ journal' \in Seq(Attempt)
           /\ DOMAIN journal' = DOMAIN journal
           /\ \A i \in DOMAIN journal : journal'[i].step = journal[i].step
<1>1. journal \in Seq(Attempt) /\ \A i \in DOMAIN journal : journal[i] \in Attempt
  BY DEF TypeOK
<1>2. DOMAIN journal' = DOMAIN journal
  BY DEF finishAttempt
<1>3. \A i \in DOMAIN journal :
         journal'[i] = IF i = tried[w] THEN [journal[i] EXCEPT !.outcome = outcome] ELSE journal[i]
  BY DEF finishAttempt
<1>4. \A i \in DOMAIN journal : journal'[i] \in Attempt /\ journal'[i].step = journal[i].step
  BY <1>1, <1>3 DEF Attempt
<1>5. journal' \in Seq(Attempt)
  <2>1. DOMAIN journal = 1 .. Len(journal) /\ Len(journal) \in Nat
    BY <1>1
  <2>2. journal' \in [1 .. Len(journal) -> Attempt]
    <3>1. journal' = [i \in DOMAIN journal |-> journal'[i]]
      BY DEF finishAttempt
    <3> QED
      BY <1>4, <2>1, <3>1
  <2> QED
    BY <2>1, <2>2
<1> QED
  BY <1>2, <1>4, <1>5

-----------------------------------------------------------------------------
(* Every action preserves the invariant.                                   *)

LEMMA InitInv == Init => IInv
<1> SUFFICES ASSUME Init
             PROVE  IInv
  OBVIOUS
<1>0. NoCopy \in Intent /\ NoCopy.version = 0 /\ NoCopy.stage = 0 /\ NoCopy.state = "PENDING"
  BY RunnerAssumption DEF NoCopy, Intent, States
<1>1. intent \in Intent /\ intent.version = 1 /\ intent.stage = 0 /\ intent.state = "PENDING"
  BY <1>0 DEF Init, Intent
<1>2. TypeOK
  <2>1. journal \in Seq(Attempt)
    BY DEF Init
  <2>2. at \in [Workers -> Places] /\ mine \in [Workers -> Intent]
    BY <1>0 DEF Init, Places
  <2>3. /\ tried \in [Workers -> Nat] /\ todo \in [Workers -> 0 .. NumSteps]
        /\ result \in [Workers -> StepResults \cup Errors \cup {"Unknown", "None"}]
    BY RunnerAssumption DEF Init
  <2>4. spent \in [polls : Nat, crashes : Nat, operator : Nat, lapses : Nat,
                      reopened : BOOLEAN]
    BY DEF Init
  <2> QED
    BY <1>1, <2>1, <2>2, <2>3, <2>4 DEF Init, TypeOK
<1>3. Placed
  BY <1>0 DEF Init, Placed, Suits, AtStep, AtAttempt
<1>4. Coherent
  BY <1>0, <1>1 DEF Init, Coherent
<1>5. Covered
  BY <1>0, <1>1, RunnerAssumption DEF Init, Covered, Behind, Steps
<1>6. StepsInOrder
  BY DEF Init, StepsInOrder
<1> QED
  BY <1>2, <1>3, <1>4, <1>5, <1>6 DEF IInv

LEMMA ClaimDueInv ==
    ASSUME IInv, NEW w \in Workers, claimDue(w)
    PROVE  IInv'
<1>1. TypeOK /\ intent.state \in Claimable /\ saga \in SUBSET Steps
  BY DEF IInv, TypeOK, claimDue
<1>2. Entry(intent) \in Places /\ Suits(Entry(intent), intent) /\ Entry(intent) \notin AtAttempt
  BY <1>1, EntrySuits
<1>3. ToCompensate(intent.stage) \in 0 .. NumSteps /\ 0 \in 0 .. NumSteps
  BY <1>1, ToCompensateType, RunnerAssumption
<1>4. TypeOK'
  BY <1>1, <1>2, <1>3 DEF claimDue, TypeOK
<1>5. StepsInOrder'
  BY OrderKept DEF claimDue
<1>6. at'[w] = Entry(intent) /\ mine'[w] = intent
  BY <1>1 DEF claimDue, TypeOK
<1>7. \A v \in Workers \ {w} : /\ at'[v] = at[v] /\ mine'[v] = mine[v]
                               /\ tried'[v] = tried[v] /\ result'[v] = result[v]
  BY <1>1 DEF claimDue, TypeOK
<1>8. UNCHANGED <<intent, saga, journal, effect>>
  BY DEF claimDue
<1>9. at'[w] # "apply"
  BY <1>2, <1>6 DEF AtAttempt
<1> QED
  BY <1>2, <1>4, <1>5, <1>6, <1>7, <1>8, <1>9, LocalInv

\* The copy and the state of a worker at a place, for the lemmas below.
LEMMA AtPlace ==
    ASSUME IInv, NEW w \in Workers
    PROVE  /\ TypeOK /\ mine[w] \in Intent /\ Suits(at[w], mine[w])
           /\ saga \in SUBSET Steps
           /\ Behind(mine[w].stage)
  BY DEF IInv, TypeOK, Placed, Covered

LEMMA StartInv ==
    ASSUME IInv, NEW w \in Workers, start(w)
    PROVE  IInv'
<1> DEFINE patched == [mine[w] EXCEPT !.state = "RUNNING"]
<1>1. patched \in Intent /\ patched.state = "RUNNING" /\ patched.stage = mine[w].stage
  BY AtPlace DEF Intent, States
<1>2. persist(w, patched, LoopHead(patched.stage), due) /\ due \in BOOLEAN
  BY <1>1, AtPlace DEF start, TypeOK
<1>3. Behind(patched.stage)
  BY <1>1, AtPlace
<1>4. saga \in SUBSET Steps /\ patched.state \in Working /\ patched.state # "COMPLETED"
  BY <1>1, AtPlace DEF Working
<1> HIDE DEF patched
<1>5. /\ LoopHead(patched.stage) \in Places \ AtAttempt
      /\ Suits(LoopHead(patched.stage), patched)
  BY <1>4, LoopHeadSuits
<1> QED
  BY <1>1, <1>2, <1>3, <1>4, <1>5, PersistInv

LEMMA CompleteInv ==
    ASSUME IInv, NEW w \in Workers, complete(w)
    PROVE  IInv'
<1> DEFINE patched == [mine[w] EXCEPT !.state = "COMPLETED"]
<1>1. patched \in Intent /\ patched.state = "COMPLETED" /\ patched.stage = mine[w].stage
  BY AtPlace DEF Intent, States
<1>2. Remaining(patched.stage) = {}
  BY <1>1, AtPlace DEF complete, Suits
<1>3. "release" \in Places \ AtAttempt /\ Suits("release", patched)
  BY DEF Places, AtAttempt, AtStep, Suits
<1>4. persist(w, patched, "release", TRUE)
  BY DEF complete
<1> QED
  BY <1>1, <1>2, <1>3, <1>4, AtPlace, PersistInv

\* Saves that leave the intent where it was and the worker about to leave.
LEMMA LeavingInv ==
    ASSUME IInv, NEW w \in Workers, NEW patched \in Intent, NEW dueNow \in BOOLEAN,
           patched.stage = mine[w].stage, patched.state # "COMPLETED",
           persist(w, patched, "release", dueNow)
    PROVE  IInv'
<1>1. "release" \in Places \ AtAttempt /\ Suits("release", patched)
  BY DEF Places, AtAttempt, AtStep, Suits
<1> QED
  BY <1>1, AtPlace, PersistInv

LEMMA ParkUnresolvedInv ==
    ASSUME IInv, NEW w \in Workers, parkUnresolved(w)
    PROVE  IInv'
<1> DEFINE patched == [mine[w] EXCEPT !.state = "NEEDS_MANUAL"]
<1>1. patched \in Intent /\ patched.state = "NEEDS_MANUAL" /\ patched.stage = mine[w].stage
  BY AtPlace DEF Intent, States
<1>2. persist(w, patched, "release", TRUE)
  BY DEF parkUnresolved, park
<1> QED
  BY <1>1, <1>2, LeavingInv

LEMMA CancelInv ==
    ASSUME IInv, NEW w \in Workers, cancel(w)
    PROVE  IInv'
<1> DEFINE patched == [mine[w] EXCEPT !.state = "CANCELLED"]
<1>1. patched \in Intent /\ patched.state = "CANCELLED" /\ patched.stage = mine[w].stage
  BY AtPlace DEF Intent, States
<1>2. persist(w, patched, "release", TRUE)
  BY DEF cancel
<1> QED
  BY <1>1, <1>2, LeavingInv

\* The attempt a worker makes is in the journal, and its number counts.
LEMMA CountedType ==
    ASSUME IInv, NEW w \in Workers, at[w] \in AtAttempt
    PROVE  /\ MyCount(w) \in Nat
           /\ [mine[w] EXCEPT !.attempts = Counted(w)] \in Intent
<1>1. TypeOK /\ Placed /\ mine[w] \in Intent /\ tried[w] \in DOMAIN journal
  BY DEF IInv, TypeOK, Placed
<1>2. journal[tried[w]] \in Attempt
  BY <1>1 DEF TypeOK
<1>3. MyCount(w) \in Nat
  BY <1>2 DEF MyCount, Attempt
<1>4. Counted(w) \in [Steps -> Nat]
  BY <1>1, <1>3 DEF Counted, Intent
<1> QED
  BY <1>1, <1>3, <1>4 DEF Intent

LEMMA ApplyResultInv ==
    ASSUME IInv, NEW w \in Workers, applyResult(w)
    PROVE  IInv'
<1> DEFINE s       == MyStep(w)
           counted == [mine[w] EXCEPT !.attempts = Counted(w)]
<1>0. at[w] = "apply" /\ at[w] \in AtAttempt /\ at[w] \in AtStep /\ TypeOK /\ Placed /\ Covered
  BY DEF applyResult, AtAttempt, AtStep, IInv
<1>1. counted \in Intent /\ counted.stage = mine[w].stage
  BY <1>0, CountedType DEF Intent
<1>2. mine[w].state \in Working /\ counted.state = mine[w].state /\ mine[w] \in Intent
  BY <1>0, <1>1 DEF Placed, Suits, TypeOK, Intent
<1>3. s \in Steps /\ s \in Remaining(mine[w].stage) /\ \A r \in Remaining(mine[w].stage) : s <= r
  BY <1>0, MyStepIsNext
<1>4. result[w] \in {"ADVANCE", "WAIT", "UNWIND", "MANUAL", "RETRY", "TERMINAL"}
  BY <1>0 DEF Placed
<1> HIDE DEF s, counted
<1>5. CASE result[w] = "ADVANCE"
  <2> DEFINE patched == [counted EXCEPT !.state = "RUNNING", !.stage = s]
  <2>1. persist(w, patched, LoopHead(s), TRUE)
    BY <1>5 DEF applyResult, s, counted
  <2>2. patched \in Intent /\ patched.state = "RUNNING" /\ patched.stage = s
    <3>1. s \in 0 .. NumSteps /\ "RUNNING" \in States
      BY <1>3, RunnerAssumption DEF States, Steps
    <3> QED
      BY <1>1, <3>1 DEF Intent
  <2>3. saga \in SUBSET Steps /\ patched.state \in Working /\ patched.state # "COMPLETED"
    BY <1>0, <2>2 DEF TypeOK, Working
  <2>4. Behind(s)
    <3> SUFFICES ASSUME NEW r \in saga, r <= s
                 PROVE  effect[r] # "none"
      BY DEF Behind
    <3>1. CASE r \in Remaining(mine[w].stage)
      <4>1. r = s
        BY <1>0, <1>3, <3>1, RunnerAssumption DEF TypeOK, Steps
      <4>2. effect[s] # "none"
        BY <1>0, <1>5 DEF Covered, s
      <4> QED
        BY <4>1, <4>2
    <3>2. CASE r \notin Remaining(mine[w].stage)
      <4>1. r <= mine[w].stage
        BY <1>0, <1>2, <3>2, RunnerAssumption DEF Remaining, TypeOK, Intent, Steps
      <4> QED
        BY <4>1, AtPlace DEF Behind
    <3> QED
      BY <3>1, <3>2
  <2> HIDE DEF patched
  <2>5. LoopHead(patched.stage) \in Places \ AtAttempt /\ Suits(LoopHead(patched.stage), patched)
    BY <2>3, LoopHeadSuits
  <2>6. LoopHead(s) = LoopHead(patched.stage)
    BY <2>2
  <2> QED
    BY <2>1, <2>2, <2>3, <2>4, <2>5, <2>6, PersistInv
<1>6. CASE result[w] = "WAIT"
  <2> DEFINE patched == [counted EXCEPT !.state = "WAITING"]
  <2>1. persist(w, patched, "release", FALSE)
    BY <1>6 DEF applyResult, s, counted
  <2>2. patched \in Intent /\ patched.state = "WAITING" /\ patched.stage = mine[w].stage
    BY <1>1 DEF Intent, States
  <2> QED
    BY <2>1, <2>2, LeavingInv
<1>7. CASE result[w] = "UNWIND"
  <2> DEFINE patched == [counted EXCEPT !.state = "UNWINDING"]
  <2>1. persist(w, patched, "release", TRUE)
    BY <1>7 DEF applyResult, s, counted
  <2>2. patched \in Intent /\ patched.state = "UNWINDING" /\ patched.stage = mine[w].stage
    BY <1>1 DEF Intent, States
  <2> QED
    BY <2>1, <2>2, LeavingInv
<1>8. CASE result[w] = "TERMINAL"
  <2> DEFINE patched == [mine[w] EXCEPT !.state = "UNWINDING"]
  <2>1. persist(w, patched, "release", TRUE)
    BY <1>8 DEF applyResult
  <2>2. patched \in Intent /\ patched.state = "UNWINDING" /\ patched.stage = mine[w].stage
    BY <1>2 DEF Intent, States
  <2> QED
    BY <2>1, <2>2, LeavingInv
<1>9. CASE result[w] = "RETRY" /\ MyCount(w) < maxAttempts
  <2>1. persist(w, counted, "release", FALSE)
    BY <1>9 DEF applyResult, s, counted
  <2>2. counted.state # "COMPLETED"
    BY <1>2 DEF Working
  <2> QED
    BY <1>1, <2>1, <2>2, LeavingInv
<1>10. CASE result[w] = "MANUAL" \/ (result[w] = "RETRY" /\ ~(MyCount(w) < maxAttempts))
  <2> DEFINE patched == [counted EXCEPT !.state = "NEEDS_MANUAL"]
  <2>1. persist(w, patched, "release", TRUE)
    BY <1>10 DEF applyResult, s, counted, park
  <2>2. patched \in Intent /\ patched.state = "NEEDS_MANUAL" /\ patched.stage = mine[w].stage
    BY <1>1 DEF Intent, States
  <2> QED
    BY <2>1, <2>2, LeavingInv
<1> QED
  BY <1>4, <1>5, <1>6, <1>7, <1>8, <1>9, <1>10

LEMMA FindInFlightInv ==
    ASSUME IInv, NEW w \in Workers, findInFlightAttempt(w)
    PROVE  IInv'
<1>0. /\ at[w] = "look" /\ TypeOK /\ Suits(at[w], mine[w])
      /\ UNCHANGED <<intent, due, leased, journal, saga, effect, mine, result, todo, spent>>
  BY AtPlace DEF findInFlightAttempt, storeVars
<1>1. PICK place, i :
         /\ at' = [at EXCEPT ![w] = place] /\ tried' = [tried EXCEPT ![w] = i]
         /\ place = "begin" \/ (place = "recover" /\ i \in DOMAIN journal)
         /\ i \in Nat
  <2>1. CASE InFlight(MyStep(w)) = {}
    <3>1. /\ at' = [at EXCEPT ![w] = "begin"] /\ tried' = [tried EXCEPT ![w] = tried[w]]
          /\ tried[w] \in Nat
      BY <1>0, <2>1 DEF findInFlightAttempt, TypeOK
    <3> QED
      BY <3>1
  <2>2. CASE InFlight(MyStep(w)) # {}
    <3>1. InFlight(MyStep(w)) \subseteq DOMAIN journal /\ DOMAIN journal \in SUBSET Nat
      BY <1>0 DEF InFlight, TypeOK
    <3>2. Min(InFlight(MyStep(w))) \in DOMAIN journal
      BY <2>2, <3>1, MinIsLeast
    <3>3. /\ at' = [at EXCEPT ![w] = "recover"]
          /\ tried' = [tried EXCEPT ![w] = Min(InFlight(MyStep(w)))]
      BY <2>2 DEF findInFlightAttempt
    <3> QED
      BY <3>1, <3>2, <3>3
  <2> QED
    BY <2>1, <2>2
<1>2. TypeOK'
  BY <1>0, <1>1 DEF TypeOK, Places
<1>3. StepsInOrder'
  BY <1>0, OrderKept
<1>4. at'[w] = place /\ tried'[w] = i
  BY <1>0, <1>1 DEF TypeOK
<1>5. Suits(place, mine[w]) /\ place # "apply"
      /\ (place \in AtAttempt => i \in DOMAIN journal)
  BY <1>0, <1>1 DEF Suits, AtStep, AtAttempt
<1>6. \A v \in Workers \ {w} : at'[v] = at[v] /\ tried'[v] = tried[v]
  BY <1>0, <1>1 DEF TypeOK
<1> QED
  BY <1>0, <1>2, <1>3, <1>4, <1>5, <1>6, LocalInv

LEMMA BeginAttemptInv ==
    ASSUME IInv, NEW w \in Workers, beginAttempt(w)
    PROVE  IInv'
<1> DEFINE begun == [step |-> MyStep(w), attempt |-> mine[w].attempts[MyStep(w)] + 1,
                     outcome |-> Unfinished]
<1>0. /\ at[w] = "begin" /\ at[w] \in AtStep /\ TypeOK /\ Placed /\ StepsInOrder
      /\ mine[w] \in Intent /\ Suits(at[w], mine[w]) /\ Behind(mine[w].stage)
      /\ journal' = Append(journal, begun)
      /\ tried' = [tried EXCEPT ![w] = Len(journal) + 1]
      /\ at' = [at EXCEPT ![w] = "run"]
      /\ UNCHANGED <<intent, due, leased, saga, effect, mine, result, todo, spent>>
  BY AtPlace DEF beginAttempt, IInv, AtStep
<1>1. /\ MyStep(w) \in Steps /\ MyStep(w) \in Remaining(mine[w].stage)
      /\ \A r \in Remaining(mine[w].stage) : MyStep(w) <= r
  BY <1>0, MyStepIsNext
<1>2. begun \in Attempt /\ begun.step = MyStep(w)
  <2>1. mine[w].attempts[MyStep(w)] \in Nat
    BY <1>0, <1>1 DEF Intent
  <2>2. mine[w].attempts[MyStep(w)] + 1 \in Nat
    BY <2>1
  <2> QED
    BY <1>1, <2>2 DEF Attempt
<1> HIDE DEF begun
<1>3. /\ journal' \in Seq(Attempt) /\ Len(journal) + 1 \in Nat
      /\ DOMAIN journal' = DOMAIN journal \cup {Len(journal) + 1}
      /\ journal'[Len(journal) + 1] = begun
      /\ \A i \in DOMAIN journal : journal'[i] = journal[i]
  BY <1>0, <1>2 DEF TypeOK
<1>4. TypeOK'
  BY <1>0, <1>3 DEF TypeOK, Places
<1>5. StepsInOrder'
  <2>1. \A r \in saga : r < MyStep(w) => effect[r] # "none"
    <3> SUFFICES ASSUME NEW r \in saga, r < MyStep(w)
                 PROVE  effect[r] # "none"
      OBVIOUS
    <3>1. r \in Nat /\ MyStep(w) \in Nat /\ mine[w].stage \in Nat
      BY <1>0, <1>1, RunnerAssumption DEF TypeOK, Steps, Intent
    <3>2. r \notin Remaining(mine[w].stage)
      BY <1>1, <3>1
    <3>3. r <= mine[w].stage
      BY <3>1, <3>2 DEF Remaining
    <3> QED
      BY <1>0, <3>3 DEF Behind
  <2>2. \A i \in DOMAIN journal' : \/ i \in DOMAIN journal /\ journal'[i] = journal[i]
                                  \/ journal'[i].step = MyStep(w)
    BY <1>2, <1>3
  <2> QED
    BY <1>0, <2>1, <2>2 DEF StepsInOrder
<1>6. at'[w] = "run" /\ tried'[w] = Len(journal) + 1 /\ mine'[w] = mine[w]
  BY <1>0 DEF TypeOK
<1>7. Suits("run", mine[w]) /\ "run" # "apply"
  BY <1>0 DEF Suits, AtStep
<1>8. \A v \in Workers \ {w} : at'[v] = at[v] /\ tried'[v] = tried[v]
  BY <1>0 DEF TypeOK
<1> QED
  BY <1>0, <1>3, <1>4, <1>5, <1>6, <1>7, <1>8, LocalInv

\* What the outcome of an attempt, run or resolved, may change.
LEMMA AttemptInv ==
    ASSUME IInv, NEW w \in Workers, at[w] \in {"run", "resolve", "recover"},
           NEW r \in StepResults \cup Errors \cup {"Unknown"},
           NEW place \in {"apply", "resolve", "park"},
           result' = [result EXCEPT ![w] = r],
           at' = [at EXCEPT ![w] = place],
           place = "apply" => r \notin {"AMBIGUOUS", "Unknown"},
           r = "ADVANCE" => effect'[MyStep(w)] # "none",
           UNCHANGED <<intent, due, leased, saga, mine, tried, todo>>,
           journal' \in Seq(Attempt), DOMAIN journal' = DOMAIN journal,
           \A i \in DOMAIN journal : journal'[i].step = journal[i].step,
           effect' \in [Steps -> {"none", "done", "undone"}],
           \A s \in Steps : effect[s] # "none" => effect'[s] # "none",
           spent' \in [polls : Nat, crashes : Nat, operator : Nat, lapses : Nat,
                      reopened : BOOLEAN]
    PROVE  IInv'
<1>0. TypeOK /\ Placed /\ mine[w] \in Intent /\ Suits(at[w], mine[w])
  BY AtPlace DEF IInv
<1>1. TypeOK'
  BY <1>0 DEF TypeOK, Places
<1>2. StepsInOrder'
  BY OrderKept
<1>3. at'[w] = place /\ result'[w] = r /\ mine'[w] = mine[w] /\ tried'[w] \in DOMAIN journal'
  BY <1>0 DEF TypeOK, Placed, AtAttempt
<1>4. Suits(place, mine[w])
  BY <1>0 DEF Suits, AtStep, Working, Claimable
<1>5. \A v \in Workers \ {w} : at'[v] = at[v] /\ result'[v] = result[v]
  BY <1>0 DEF TypeOK
<1>6. place = "apply" => r \in {"ADVANCE", "WAIT", "UNWIND", "MANUAL", "RETRY", "TERMINAL"}
  BY DEF StepResults, Errors
<1> QED
  BY <1>1, <1>2, <1>3, <1>4, <1>5, <1>6, LocalInv

LEMMA OutcomeType ==
    ASSUME NEW r \in StepResults \cup Errors \cup {"Unknown"}
    PROVE  Outcome(r) \in Outcomes
  BY DEF Outcome, Outcomes, StepResults, Errors

LEMMA PollsType ==
    ASSUME TypeOK, NEW r, Polls(r)
    PROVE  spent' \in [polls : Nat, crashes : Nat, operator : Nat, lapses : Nat,
                      reopened : BOOLEAN]
<1>1. spent.polls \in Nat /\ spent.polls + 1 \in Nat
  BY DEF TypeOK
<1> QED
  BY <1>1 DEF Polls, TypeOK

\* Doing a step, or perhaps doing it, takes no effect back.
LEMMA MayDoType ==
    ASSUME TypeOK, NEW s \in Steps, MayDo(s)
    PROVE  /\ effect' \in [Steps -> {"none", "done", "undone"}]
           /\ \A r \in Steps : effect[r] # "none" => effect'[r] # "none"
  BY DEF MayDo, Does, TypeOK

LEMMA RunInv ==
    ASSUME IInv, NEW w \in Workers, NEW r \in Results, run(w, r)
    PROVE  IInv'
<1>0. /\ at[w] = "run" /\ at[w] \in AtStep /\ TypeOK /\ Placed /\ Polls(r)
      /\ tried[w] \in DOMAIN journal /\ finishAttempt(w, Outcome(r))
      /\ r \in StepResults \cup Errors
      /\ UNCHANGED <<intent, due, leased, saga, mine, tried, todo>>
      /\ result' = [result EXCEPT ![w] = r]
  BY RunnerAssumption DEF run, IInv, AtStep, AtAttempt, Placed, StepResults, Errors
<1>1. MyStep(w) \in Steps
  BY <1>0, MyStepIsNext
<1>2. MayDo(MyStep(w)) /\ (r = "ADVANCE" => Does(MyStep(w)))
  BY DEF run, MayDo
<1>3. r = "ADVANCE" => effect'[MyStep(w)] # "none"
  BY <1>0, <1>1, <1>2 DEF Does, TypeOK
<1>4. Outcome(r) \in Outcomes
  BY <1>0, OutcomeType
<1>5. PICK place \in {"apply", "resolve", "park"} :
         /\ at' = [at EXCEPT ![w] = place]
         /\ place = "apply" => r \notin {"AMBIGUOUS", "Unknown"}
  BY <1>0 DEF run, StepResults, Errors
<1>6. /\ effect' \in [Steps -> {"none", "done", "undone"}]
      /\ \A s \in Steps : effect[s] # "none" => effect'[s] # "none"
  BY <1>0, <1>1, <1>2, MayDoType
<1>7. /\ journal' \in Seq(Attempt) /\ DOMAIN journal' = DOMAIN journal
      /\ \A i \in DOMAIN journal : journal'[i].step = journal[i].step
  BY <1>0, <1>4, FinishKeepsSteps
<1> QED
  BY <1>0, <1>3, <1>5, <1>6, <1>7, PollsType, AttemptInv

LEMMA ResolveInv ==
    ASSUME IInv, NEW w \in Workers, NEW r \in StepResults \cup {"Unknown"}, resolve(w, r)
    PROVE  IInv'
<1>0. /\ at[w] = "resolve" /\ TypeOK /\ Polls(r) /\ Answers(w, r)
      /\ UNCHANGED <<storeVars, saga, effect, mine, tried, todo>>
      /\ result' = [result EXCEPT ![w] = r]
  BY DEF resolve, IInv
<1>1. PICK place \in {"apply", "resolve", "park"} :
         /\ at' = [at EXCEPT ![w] = place]
         /\ place = "apply" => r \notin {"AMBIGUOUS", "Unknown"}
  BY DEF resolve, StepResults
<1>2. journal' \in Seq(Attempt) /\ effect' \in [Steps -> {"none", "done", "undone"}]
  BY <1>0 DEF TypeOK, storeVars
<1> QED
  BY <1>0, <1>1, <1>2, PollsType, AttemptInv DEF Answers, storeVars

LEMMA RecoverInFlightInv ==
    ASSUME IInv, NEW w \in Workers, NEW r \in StepResults \cup {"Unknown"},
           recoverInFlight(w, r)
    PROVE  IInv'
<1>0. /\ at[w] = "recover" /\ TypeOK /\ Polls(r) /\ Answers(w, r)
      /\ tried[w] \in DOMAIN journal /\ finishAttempt(w, Outcome(r))
      /\ UNCHANGED <<intent, due, leased, saga, effect, mine, tried, todo>>
      /\ result' = [result EXCEPT ![w] = r]
  BY DEF recoverInFlight, IInv, Placed, AtAttempt
<1>1. PICK place \in {"apply", "resolve", "park"} :
         /\ at' = [at EXCEPT ![w] = place]
         /\ place = "apply" => r \notin {"AMBIGUOUS", "Unknown"}
  BY DEF recoverInFlight, StepResults
<1>2. /\ journal' \in Seq(Attempt) /\ DOMAIN journal' = DOMAIN journal
      /\ \A i \in DOMAIN journal : journal'[i].step = journal[i].step
  BY <1>0, OutcomeType, FinishKeepsSteps
<1>3. effect' \in [Steps -> {"none", "done", "undone"}]
  BY <1>0 DEF TypeOK
<1> QED
  BY <1>0, <1>1, <1>2, <1>3, PollsType, AttemptInv DEF Answers

LEMMA CompensateInv ==
    ASSUME IInv, NEW w \in Workers, NEW ok \in BOOLEAN, compensate(w, ok)
    PROVE  IInv'
<1>0. /\ at[w] = "unwind" /\ TypeOK /\ Placed /\ mine[w] \in Intent /\ Suits(at[w], mine[w])
      /\ UNCHANGED <<storeVars, saga, mine, tried, result, spent>>
      /\ saga \in SUBSET Steps
  BY AtPlace DEF compensate, IInv
<1>1. PICK place \in {"unwind", "park"} : at' = [at EXCEPT ![w] = place]
  <2>1. at = [at EXCEPT ![w] = "unwind"]
    BY <1>0 DEF TypeOK
  <2> QED
    BY <2>1 DEF compensate
<1>2. /\ effect' \in [Steps -> {"none", "done", "undone"}]
      /\ \A s \in Steps : effect[s] # "none" => effect'[s] # "none"
  <2>1. CASE effect' = [effect EXCEPT ![todo[w]] = IF @ = "done" THEN "undone" ELSE @]
    BY <1>0, <2>1 DEF TypeOK
  <2>2. CASE UNCHANGED effect
    BY <1>0, <2>2 DEF TypeOK
  <2> QED
    BY <2>1, <2>2 DEF compensate
<1>3. todo' \in [Workers -> 0 .. NumSteps]
  <2>1. CASE todo' = [todo EXCEPT ![w] = ToCompensate(todo[w] - 1)]
    BY <1>0, <2>1, ToCompensateType DEF TypeOK
  <2>2. CASE UNCHANGED todo
    BY <1>0, <2>2 DEF TypeOK
  <2> QED
    BY <2>1, <2>2 DEF compensate
<1>4. TypeOK'
  BY <1>0, <1>1, <1>2, <1>3 DEF TypeOK, Places, storeVars
<1>5. StepsInOrder'
  BY <1>0, <1>2, OrderKept DEF storeVars
<1>6. at'[w] = place /\ mine'[w] = mine[w]
  BY <1>0, <1>1 DEF TypeOK
<1>7. Suits(place, mine[w]) /\ place \notin AtAttempt
  BY <1>0 DEF Suits, AtStep, AtAttempt, Claimable
<1>8. \A v \in Workers \ {w} : at'[v] = at[v]
  BY <1>0, <1>1 DEF TypeOK
<1> QED
  BY <1>0, <1>2, <1>4, <1>5, <1>6, <1>7, <1>8, LocalInv DEF storeVars, AtAttempt

LEMMA ForgetsInv ==
    ASSUME IInv, NEW w \in Workers, Forgets(w), leased' \in BOOLEAN,
           UNCHANGED <<intent, due, journal, saga>>,
           effect' \in [Steps -> {"none", "done", "undone"}],
           \A s \in Steps : effect[s] # "none" => effect'[s] # "none",
           spent' \in [polls : Nat, crashes : Nat, operator : Nat, lapses : Nat,
                      reopened : BOOLEAN]
    PROVE  IInv'
<1>0. TypeOK /\ NoCopy \in Intent
  BY RunnerAssumption DEF IInv, NoCopy, Intent, States
<1>1. TypeOK'
  BY <1>0, RunnerAssumption DEF TypeOK, Places, Forgets
<1>2. StepsInOrder'
  BY OrderKept
<1>3. at'[w] = "idle" /\ mine'[w] = NoCopy
  BY <1>0 DEF Forgets, TypeOK
<1>4. Suits("idle", NoCopy) /\ "idle" \notin AtAttempt
  BY DEF Suits, AtStep, AtAttempt
<1>5. \A v \in Workers \ {w} : /\ at'[v] = at[v] /\ mine'[v] = mine[v]
                               /\ tried'[v] = tried[v] /\ result'[v] = result[v]
  BY <1>0 DEF Forgets, TypeOK
<1> QED
  BY <1>1, <1>2, <1>3, <1>4, <1>5, LocalInv DEF AtAttempt

LEMMA ReleaseLeaseInv ==
    ASSUME IInv, NEW w \in Workers, releaseLease(w)
    PROVE  IInv'
  BY ForgetsInv DEF releaseLease, IInv, TypeOK

LEMMA CrashInv ==
    ASSUME IInv, NEW w \in Workers, Crash(w)
    PROVE  IInv'
<1>0. TypeOK /\ Placed
  BY DEF IInv
<1>1. /\ effect' \in [Steps -> {"none", "done", "undone"}]
      /\ \A s \in Steps : effect[s] # "none" => effect'[s] # "none"
  <2>1. CASE at[w] = "run"
    <3>1. MyStep(w) \in Steps
      BY <1>0, <2>1, MyStepIsNext DEF AtStep
    <3> QED
      BY <1>0, <2>1, <3>1, MayDoType DEF Crash
  <2>2. CASE at[w] # "run"
    BY <1>0, <2>2 DEF Crash, TypeOK
  <2> QED
    BY <2>1, <2>2
<1>2. spent' \in [polls : Nat, crashes : Nat, operator : Nat, lapses : Nat,
                      reopened : BOOLEAN]
  <2>1. spent.crashes + 1 \in Nat
    BY <1>0 DEF TypeOK
  <2> QED
    BY <1>0, <2>1 DEF Crash, TypeOK
<1> QED
  BY <1>0, <1>1, <1>2, ForgetsInv DEF Crash, storeVars, TypeOK

\* Time and leases.
LEMMA QuietInv ==
    ASSUME IInv, UNCHANGED <<intent, journal, saga, effect, workerVars>>,
           due' \in BOOLEAN, leased' \in BOOLEAN,
           spent' \in [polls : Nat, crashes : Nat, operator : Nat, lapses : Nat,
                      reopened : BOOLEAN]
    PROVE  IInv'
<1>1. TypeOK'
  BY DEF IInv, TypeOK, workerVars
<1>2. Placed' /\ Coherent' /\ StepsInOrder'
  BY SameSaga DEF IInv, Placed, Coherent, StepsInOrder, workerVars
<1>3. Covered'
  BY DEF IInv, Covered, Behind, MyStep, NextStep, Remaining, workerVars
<1> QED
  BY <1>1, <1>2, <1>3 DEF IInv

LEMMA LeaseExpiresInv ==
    ASSUME IInv, LeaseExpires
    PROVE  IInv'
<1>0. TypeOK
  BY DEF IInv
<1>1. spent' \in [polls : Nat, crashes : Nat, operator : Nat, lapses : Nat,
                      reopened : BOOLEAN]
  <2>1. spent.lapses + 1 \in Nat
    BY <1>0 DEF TypeOK
  <2> QED
    BY <1>0, <2>1 DEF LeaseExpires, TypeOK
<1> QED
  BY <1>0, <1>1, QuietInv DEF LeaseExpires, TypeOK

LEMMA WakeInv ==
    ASSUME IInv, Wake
    PROVE  IInv'
  BY QuietInv DEF IInv, TypeOK, Wake

LEMMA OperatorSavesInv ==
    ASSUME IInv, NEW patched \in Intent, NEW reopens \in BOOLEAN,
           OperatorSaves(patched, reopens),
           patched.version = intent.version, patched.stage = intent.stage,
           patched.state # "COMPLETED"
    PROVE  IInv'
<1>0. /\ TypeOK /\ Placed /\ Coherent /\ Covered /\ StepsInOrder /\ intent.version \in Nat
      /\ UNCHANGED <<leased, journal, saga, effect, workerVars>>
  BY DEF IInv, OperatorSaves, TypeOK, Intent
<1>1. /\ intent' \in Intent /\ intent'.version = intent.version + 1
      /\ intent'.stage = intent.stage /\ intent'.state # "COMPLETED"
  <2>1. patched.version + 1 \in Nat
    BY <1>0
  <2> QED
    BY <2>1 DEF OperatorSaves, Intent
<1>2. TypeOK'
  <2>1. spent.operator + 1 \in Nat
    BY <1>0 DEF TypeOK
  <2>2. spent' \in [polls : Nat, crashes : Nat, operator : Nat, lapses : Nat,
                      reopened : BOOLEAN]
    BY <1>0, <2>1 DEF OperatorSaves, TypeOK
  <2> QED
    BY <1>0, <1>1, <2>2 DEF OperatorSaves, TypeOK, workerVars
<1>3. Placed' /\ StepsInOrder'
  BY <1>0, SameSaga DEF Placed, StepsInOrder, workerVars
<1>4. Coherent'
  <2>1. \A v \in Workers : mine[v].version \in Nat /\ mine'[v] = mine[v]
    BY <1>0 DEF TypeOK, Intent, workerVars
  <2> QED
    BY <1>0, <1>1, <2>1 DEF Coherent
<1>5. Covered'
  BY <1>0, <1>1 DEF Covered, Behind, MyStep, NextStep, Remaining, workerVars
<1> QED
  BY <1>2, <1>3, <1>4, <1>5 DEF IInv

LEMMA OperatorInv ==
    ASSUME IInv, operatorResume \/ operatorUnwind
    PROVE  IInv'
<1>0. intent \in Intent /\ NoCopy.attempts \in [Steps -> Nat]
  BY DEF IInv, TypeOK, NoCopy
<1>1. CASE operatorResume
  <2> DEFINE patched == [intent EXCEPT !.state = "RUNNING", !.attempts = NoCopy.attempts]
  <2>1. /\ patched \in Intent /\ patched.state = "RUNNING"
        /\ patched.version = intent.version /\ patched.stage = intent.stage
    BY <1>0 DEF Intent, States
  <2>2. OperatorSaves(patched, UnwindBegun) /\ UnwindBegun \in BOOLEAN
    BY <1>1 DEF operatorResume, UnwindBegun
  <2> HIDE DEF patched
  <2> QED
    BY <2>1, <2>2, OperatorSavesInv
<1>2. CASE operatorUnwind
  <2> DEFINE patched == [intent EXCEPT !.state = "UNWINDING"]
  <2>1. /\ patched \in Intent /\ patched.state = "UNWINDING"
        /\ patched.version = intent.version /\ patched.stage = intent.stage
    BY <1>0 DEF Intent, States
  <2>2. OperatorSaves(patched, FALSE)
    BY <1>2 DEF operatorUnwind
  <2> QED
    BY <2>1, <2>2, OperatorSavesInv
<1> QED
  BY <1>1, <1>2

LEMMA RedeployInv ==
    ASSUME IInv, NEW s \in Removable, Redeploy(s)
    PROVE  IInv'
<1>0. /\ TypeOK /\ Coherent /\ Covered /\ StepsInOrder
      /\ saga' \subseteq saga /\ \A w \in Workers : at[w] = "idle"
      /\ UNCHANGED <<storeVars, effect, workerVars, spent>>
  BY DEF IInv, Redeploy
<1>1. TypeOK'
  BY <1>0 DEF TypeOK, storeVars, workerVars
<1>2. Placed'
  <2>1. \A w \in Workers : at'[w] = "idle"
    BY <1>0 DEF workerVars
  <2> QED
    BY <2>1 DEF Placed, Suits, AtStep, AtAttempt
<1>3. Coherent' /\ StepsInOrder'
  BY <1>0 DEF Coherent, StepsInOrder, storeVars, workerVars
<1>4. Covered'
  BY <1>0 DEF Covered, Behind, Remaining, storeVars, workerVars
<1> QED
  BY <1>1, <1>2, <1>3, <1>4 DEF IInv

LEMMA StepInv == IInv /\ [Next]_vars => IInv'
<1> SUFFICES ASSUME IInv, [Next]_vars
             PROVE  IInv'
  OBVIOUS
<1>1. ASSUME NEW w \in Workers, WorkerStep(w)
      PROVE  IInv'
  <2>1. CASE claimDue(w)
    BY <2>1, ClaimDueInv
  <2>2. CASE start(w)
    BY <2>2, StartInv
  <2>3. CASE complete(w)
    BY <2>3, CompleteInv
  <2>4. CASE findInFlightAttempt(w)
    BY <2>4, FindInFlightInv
  <2>5. CASE beginAttempt(w)
    BY <2>5, BeginAttemptInv
  <2>6. CASE \E r \in Results : run(w, r)
    BY <2>6, RunInv
  <2>7. CASE \E r \in (Results \cap StepResults) \cup {"Unknown"} : resolve(w, r)
    BY <2>7, ResolveInv
  <2>8. CASE \E r \in (Results \cap StepResults) \cup {"Unknown"} : recoverInFlight(w, r)
    BY <2>8, RecoverInFlightInv
  <2>9. CASE applyResult(w)
    BY <2>9, ApplyResultInv
  <2>10. CASE parkUnresolved(w)
    BY <2>10, ParkUnresolvedInv
  <2>11. CASE \E ok \in BOOLEAN : compensate(w, ok)
    BY <2>11, CompensateInv
  <2>12. CASE cancel(w)
    BY <2>12, CancelInv
  <2>13. CASE releaseLease(w)
    BY <2>13, ReleaseLeaseInv
  <2> QED
    BY <1>1, <2>1, <2>2, <2>3, <2>4, <2>5, <2>6, <2>7, <2>8, <2>9, <2>10, <2>11,
       <2>12, <2>13 DEF WorkerStep
<1>2. CASE UNCHANGED vars
  BY <1>2, QuietInv DEF IInv, TypeOK, vars, storeVars
<1>3. CASE Next
  BY <1>1, <1>3, CrashInv, LeaseExpiresInv, WakeInv, OperatorInv, RedeployInv DEF Next
<1> QED
  BY <1>2, <1>3

LEMMA Invariance == Spec => []IInv
  BY InitInv, StepInv, PTL DEF Spec

-----------------------------------------------------------------------------
(* The theorems.                                                           *)

\* Every variable keeps its type: in particular no attempt is journalled with an
\* outcome of its own and no save leaves the states of intent.ts.
THEOREM TypeCorrect == Spec => []TypeOK
  BY Invariance, PTL DEF IInv

\* No step is attempted before every step ahead of it has had its effect, however
\* many workers crash, overlap or save stale copies (drive, cursorFor).
THEOREM InOrder == Spec => []StepsInOrder
  BY Invariance, PTL DEF IInv

\* A worker whose save the store accepts saves from the state the intent is in.
LEMMA SavesClaimable ==
    ASSUME IInv, NEW w \in Workers, WorkerStep(w), intent' # intent
    PROVE  intent.state \in Claimable
<1>0. Suits(at[w], mine[w])
  BY AtPlace
<1>1. CASE start(w)
  <2>1. mine[w] = intent
    BY <1>1, SavedFromStore DEF start
  <2> QED
    BY <1>0, <1>1, <2>1 DEF start, Suits, Claimable
<1>2. CASE complete(w)
  <2>1. mine[w] = intent
    BY <1>2, SavedFromStore DEF complete
  <2> QED
    BY <1>0, <1>2, <2>1 DEF complete, Suits, Claimable, Working
<1>3. CASE applyResult(w)
  <2>1. mine[w] = intent
    BY <1>3, SavedFromStore DEF applyResult, park
  <2> QED
    BY <1>0, <1>3, <2>1 DEF applyResult, Suits, AtStep, Claimable, Working
<1>4. CASE parkUnresolved(w)
  <2>1. mine[w] = intent
    BY <1>4, SavedFromStore DEF parkUnresolved, park
  <2> QED
    BY <1>0, <1>4, <2>1 DEF parkUnresolved, Suits
<1>5. CASE cancel(w)
  <2>1. mine[w] = intent
    BY <1>5, SavedFromStore DEF cancel
  <2> QED
    BY <1>0, <1>5, <2>1 DEF cancel, Suits, Claimable
<1> QED
  BY <1>1, <1>2, <1>3, <1>4, <1>5
     DEF WorkerStep, claimDue, findInFlightAttempt, beginAttempt, run, resolve,
         recoverInFlight, compensate, releaseLease, storeVars

\* Nothing but a call of the operator touches a parked intent, whoever was
\* driving it when it was parked (NEEDS_MANUAL, save).
THEOREM ParkedUntouched == Spec => ParkedForHuman
<1>1. IInv /\ [Next]_vars =>
        [intent.state = "NEEDS_MANUAL" /\ intent' # intent
            => spent'.operator > spent.operator]_vars
  <2> SUFFICES ASSUME IInv, Next, intent.state = "NEEDS_MANUAL", intent' # intent
               PROVE  spent'.operator > spent.operator
    BY DEF vars, storeVars
  <2>1. ASSUME NEW w \in Workers, WorkerStep(w)
        PROVE  FALSE
    BY <2>1, SavesClaimable DEF Claimable
  <2>2. CASE operatorResume \/ operatorUnwind
    <3>1. spent.operator \in Nat /\ (\E b : spent' = [spent EXCEPT !.operator = @ + 1, !.reopened = b])
          /\ spent \in [polls : Nat, crashes : Nat, operator : Nat, lapses : Nat,
                      reopened : BOOLEAN]
      BY <2>2 DEF operatorResume, operatorUnwind, OperatorSaves, IInv, TypeOK
    <3> QED
      BY <3>1
  <2> QED
    BY <2>1, <2>2 DEF Next, Crash, LeaseExpires, Wake, Redeploy, storeVars
<1> QED
  BY <1>1, Invariance, PTL DEF Spec, ParkedForHuman

-----------------------------------------------------------------------------
(* The stored record implements the abstract one.                          *)

LEMMA RecordStep ==
    ASSUME IInv, Next
    PROVE  [Record!Next]_(Record!vars)
<1> USE DEF Record!vars, Record!Working, Record!Owed
<1>0. TypeOK /\ \A k : Remaining(k) = {s \in saga : s > k}
  BY DEF IInv, Remaining
<1>1. ASSUME NEW w \in Workers, WorkerStep(w), intent' # intent
      PROVE  [Record!Next]_(Record!vars)
  <2>0. UNCHANGED saga /\ Suits(at[w], mine[w]) /\ mine[w] \in Intent
    BY <1>1, AtPlace
       DEF WorkerStep, claimDue, start, complete, findInFlightAttempt, beginAttempt, run,
           resolve, recoverInFlight, applyResult, parkUnresolved, compensate, cancel,
           releaseLease, persist, park, storeVars
  <2>1. CASE start(w)
    <3> DEFINE patched == [mine[w] EXCEPT !.state = "RUNNING"]
    <3>1. mine[w] = intent /\ intent' = [patched EXCEPT !.version = intent.version + 1]
      BY <1>1, <2>1, SavedFromStore DEF start
    <3>2. intent.state = "PENDING" /\ intent'.state = "RUNNING" /\ intent'.stage = intent.stage
      BY <2>0, <2>1, <3>1 DEF start, Suits, Intent
    <3> QED
      BY <2>0, <3>2 DEF Record!Next, Record!Start
  <2>2. CASE complete(w)
    <3> DEFINE patched == [mine[w] EXCEPT !.state = "COMPLETED"]
    <3>1. /\ mine[w] = intent /\ intent' = [patched EXCEPT !.version = intent.version + 1]
          /\ Allowed(intent.state, patched.state)
      BY <1>1, <2>2, SavedFromStore DEF complete
    <3>2. /\ intent.state \in Working /\ KnownStage(intent.stage) /\ Remaining(intent.stage) = {}
          /\ intent'.state = "COMPLETED" /\ intent'.stage = intent.stage
          /\ patched.state = "COMPLETED"
      BY <2>0, <2>2, <3>1 DEF complete, Suits, Intent
    <3>3. intent.state = "RUNNING"
      BY <3>1, <3>2 DEF Allowed, TRANSITIONS, Working
    <3> QED
      BY <1>0, <2>0, <3>2, <3>3 DEF Record!Next, Record!Complete, KnownStage
  <2>3. CASE applyResult(w)
    <3> DEFINE counted == [mine[w] EXCEPT !.attempts = Counted(w)]
    <3>1. /\ mine[w] = intent /\ intent.state \in Working
          /\ counted.state = intent.state /\ counted.stage = intent.stage
      <4>1. mine[w] = intent
        BY <1>1, <2>3, SavedFromStore DEF applyResult, park
      <4> QED
        BY <2>0, <2>3, <4>1 DEF applyResult, Suits, AtStep, Intent
    <3>2. /\ MyStep(w) \in Remaining(intent.stage)
          /\ \A r \in Remaining(intent.stage) : MyStep(w) <= r
      BY <2>3, <3>1, MyStepIsNext DEF applyResult, AtStep, IInv
    <3>t. counted \in Intent
      BY <2>3, CountedType DEF applyResult, AtAttempt
    <3> HIDE DEF counted
    <3>3. CASE result[w] = "ADVANCE"
      <4>1. persist(w, [counted EXCEPT !.state = "RUNNING", !.stage = MyStep(w)],
                    LoopHead(MyStep(w)), TRUE)
        BY <2>3, <3>3 DEF applyResult, counted
      <4>2. intent' = [[counted EXCEPT !.state = "RUNNING", !.stage = MyStep(w)]
                          EXCEPT !.version = intent.version + 1]
        BY <1>1, <4>1, SavedFromStore
      <4>3. intent'.state = "RUNNING" /\ intent'.stage = MyStep(w)
        BY <3>t, <4>2 DEF Intent
      <4> QED
        BY <1>0, <2>0, <3>1, <3>2, <4>3 DEF Record!Next, Record!Advance, Working
    <3>4. ASSUME result[w] # "ADVANCE"
          PROVE  /\ intent'.stage = intent.stage
                 /\ intent'.state \in {intent.state, "WAITING", "UNWINDING", "NEEDS_MANUAL"}
      <4>1. CASE result[w] = "WAIT"
        <5>1. persist(w, [counted EXCEPT !.state = "WAITING"], "release", FALSE)
          BY <2>3, <4>1 DEF applyResult, counted
        <5>2. intent' = [[counted EXCEPT !.state = "WAITING"] EXCEPT !.version = intent.version + 1]
          BY <1>1, <5>1, SavedFromStore
        <5> QED
          BY <2>0, <3>t, <3>1, <5>2 DEF Intent
      <4>2. CASE result[w] = "UNWIND"
        <5>1. persist(w, [counted EXCEPT !.state = "UNWINDING"], "release", TRUE)
          BY <2>3, <4>2 DEF applyResult, counted
        <5>2. intent' = [[counted EXCEPT !.state = "UNWINDING"] EXCEPT !.version = intent.version + 1]
          BY <1>1, <5>1, SavedFromStore
        <5> QED
          BY <2>0, <3>t, <3>1, <5>2 DEF Intent
      <4>3. CASE result[w] = "TERMINAL"
        <5>1. persist(w, [mine[w] EXCEPT !.state = "UNWINDING"], "release", TRUE)
          BY <2>3, <4>3 DEF applyResult
        <5>2. intent' = [[mine[w] EXCEPT !.state = "UNWINDING"] EXCEPT !.version = intent.version + 1]
          BY <1>1, <5>1, SavedFromStore
        <5> QED
          BY <2>0, <3>t, <3>1, <5>2 DEF Intent
      <4>4. CASE result[w] = "RETRY" /\ MyCount(w) < maxAttempts
        <5>1. persist(w, counted, "release", FALSE)
          BY <2>3, <4>4 DEF applyResult, counted
        <5>2. intent' = [counted EXCEPT !.version = intent.version + 1]
          BY <1>1, <5>1, SavedFromStore
        <5> QED
          BY <2>0, <3>t, <3>1, <5>2 DEF Intent
      <4>5. CASE /\ result[w] \notin {"WAIT", "UNWIND", "TERMINAL"}
                 /\ ~(result[w] = "RETRY" /\ MyCount(w) < maxAttempts)
        <5>1. persist(w, [counted EXCEPT !.state = "NEEDS_MANUAL"], "release", TRUE)
          BY <2>3, <3>4, <4>5 DEF applyResult, counted, park
        <5>2. intent' = [[counted EXCEPT !.state = "NEEDS_MANUAL"] EXCEPT !.version = intent.version + 1]
          BY <1>1, <5>1, SavedFromStore
        <5> QED
          BY <2>0, <3>t, <3>1, <5>2 DEF Intent
      <4> QED
        BY <4>1, <4>2, <4>3, <4>4, <4>5
    <3> QED
      BY <2>0, <3>1, <3>3, <3>4
         DEF Record!Next, Record!Wait, Record!GiveUp, Record!Park, Working
  <2>4. CASE parkUnresolved(w)
    <3> DEFINE patched == [mine[w] EXCEPT !.state = "NEEDS_MANUAL"]
    <3>1. mine[w] = intent /\ intent' = [patched EXCEPT !.version = intent.version + 1]
      BY <1>1, <2>4, SavedFromStore DEF parkUnresolved, park
    <3>2. intent.state \in Claimable /\ intent'.state = "NEEDS_MANUAL"
          /\ intent'.stage = intent.stage
      BY <2>0, <2>4, <3>1 DEF parkUnresolved, Suits, Intent
    <3> QED
      BY <2>0, <3>2 DEF Record!Next, Record!Park, Claimable
  <2>5. CASE cancel(w)
    <3> DEFINE patched == [mine[w] EXCEPT !.state = "CANCELLED"]
    <3>1. mine[w] = intent /\ intent' = [patched EXCEPT !.version = intent.version + 1]
      BY <1>1, <2>5, SavedFromStore DEF cancel
    <3>2. intent.state = "UNWINDING" /\ intent'.state = "CANCELLED"
          /\ intent'.stage = intent.stage
      BY <2>0, <2>5, <3>1 DEF cancel, Suits, Intent
    <3> QED
      BY <2>0, <3>2 DEF Record!Next, Record!Cancel
  <2> QED
    BY <1>1, <2>1, <2>2, <2>3, <2>4, <2>5
       DEF WorkerStep, claimDue, findInFlightAttempt, beginAttempt, run, resolve,
           recoverInFlight, compensate, releaseLease, storeVars
<1>2. ASSUME NEW w \in Workers, WorkerStep(w), intent' = intent
      PROVE  UNCHANGED Record!vars
  BY <1>2
     DEF WorkerStep, claimDue, start, complete, findInFlightAttempt, beginAttempt, run,
         resolve, recoverInFlight, applyResult, parkUnresolved, compensate, cancel,
         releaseLease, persist, park, storeVars
<1>3. CASE operatorResume
  <2>1. intent'.state = "RUNNING" /\ intent'.stage = intent.stage /\ UNCHANGED saga
    BY <1>0, <1>3 DEF operatorResume, OperatorSaves, TypeOK, Intent
  <2> QED
    BY <1>3, <2>1 DEF operatorResume, Record!Next, Record!Resume
<1>4. CASE operatorUnwind
  <2>1. intent'.state = "UNWINDING" /\ intent'.stage = intent.stage /\ UNCHANGED saga
    BY <1>0, <1>4 DEF operatorUnwind, OperatorSaves, TypeOK, Intent
  <2> QED
    BY <2>1 DEF Record!Next, Record!ForceUnwind
<1>5. CASE \E s \in Removable : Redeploy(s)
  BY <1>5 DEF Redeploy, storeVars, Record!Next, Record!Redeploy
<1>6. CASE LeaseExpires \/ Wake \/ \E w \in Workers : Crash(w)
  BY <1>6 DEF LeaseExpires, Wake, Crash, storeVars
<1> QED
  BY <1>1, <1>2, <1>3, <1>4, <1>5, <1>6 DEF Next

\* Whoever drives the intent, its record moves as if one worker did, one step
\* after the other and none twice (drive, persist, save).
THEOREM ImplementsRecord == Spec => RecordSpec
<1>1. Init => Record!Init
  BY DEF Init, Record!Init, NoCopy, Steps
<1>2. IInv /\ [Next]_vars => [Record!Next]_(Record!vars)
  <2>1. ASSUME UNCHANGED vars
        PROVE  UNCHANGED Record!vars
    BY <2>1 DEF vars, storeVars, Record!vars
  <2> QED
    BY <2>1, RecordStep
<1> QED
  BY <1>1, <1>2, Invariance, PTL DEF Spec, RecordSpec, Record!Spec

-----------------------------------------------------------------------------
(* As long as leases outlast the drives.  While no lease has run out under *)
(* a live worker, whoever is at the intent holds the lease and nobody else *)
(* is at it (Alone).  Then what it looked up in the journal is still so    *)
(* when it acts on it, and an unwind goes on where it stands (Orderly).    *)

Alone ==
    spent.lapses = 0 =>
        \A w \in Workers : at[w] # "idle" =>
            leased /\ \A v \in Workers \ {w} : at[v] = "idle"

\* The compensations of the steps up to a stage have run down to a step.
Undone(stage, down) ==
    \A s \in saga \cap Compensable : s <= stage /\ s > down => effect[s] # "done"

Orderly ==
    spent.lapses = 0 =>
        /\ \A w \in Workers : at[w] = "begin" => InFlight(MyStep(w)) = {}
        /\ \A w \in Workers : at[w] = "unwind" => Undone(mine[w].stage, todo[w])
        /\ intent.state = "CANCELLED" =>
              Undone(intent.stage, 0) /\ \A w \in Workers : at[w] \in {"idle", "release"}

\* What an action of one worker leaves alone, and what it does to the lease.
Moves(w) ==
    /\ UNCHANGED saga
    /\ spent'.lapses = spent.lapses /\ spent'.reopened = spent.reopened
    /\ \A v \in Workers \ {w} : at'[v] = at[v] /\ mine'[v] = mine[v] /\ todo'[v] = todo[v]
    /\ at[w] = "idle" => ~leased /\ leased' /\ at'[w] # "idle"
    /\ at[w] # "idle" => leased' = leased \/ at'[w] = "idle"

LEMMA PersistMoves ==
    ASSUME TypeOK, NEW w \in Workers, NEW patched, NEW place, NEW dueNow,
           persist(w, patched, place, dueNow), at[w] # "idle"
    PROVE  Moves(w)
  BY DEF persist, Moves, TypeOK

LEMMA PollsLapses ==
    ASSUME TypeOK, NEW r, Polls(r)
    PROVE  spent'.lapses = spent.lapses /\ spent'.reopened = spent.reopened
  BY DEF Polls, TypeOK

LEMMA WorkerMoves ==
    ASSUME IInv, NEW w \in Workers, WorkerStep(w) \/ Crash(w)
    PROVE  Moves(w)
<1>0. TypeOK
  BY DEF IInv
<1>1. CASE claimDue(w)
  <2>1. Entry(intent) # "idle"
    BY <1>1 DEF claimDue, Entry, LoopHead
  <2> QED
    BY <1>0, <1>1, <2>1 DEF claimDue, Moves, TypeOK
<1>2. CASE start(w)
  BY <1>0, <1>2, PersistMoves DEF start
<1>3. CASE complete(w)
  BY <1>0, <1>3, PersistMoves DEF complete
<1>4. CASE findInFlightAttempt(w)
  BY <1>0, <1>4 DEF findInFlightAttempt, storeVars, Moves, TypeOK
<1>5. CASE beginAttempt(w)
  BY <1>0, <1>5 DEF beginAttempt, Moves, TypeOK
<1>6. ASSUME NEW r \in Results, run(w, r)
      PROVE  Moves(w)
  <2>1. Polls(r) /\ UNCHANGED <<leased, saga, mine, todo>> /\ at[w] = "run"
        /\ \E place : at' = [at EXCEPT ![w] = place]
    BY <1>6 DEF run
  <2> QED
    BY <1>0, <2>1, PollsLapses DEF Moves, TypeOK
<1>7. ASSUME NEW r, resolve(w, r)
      PROVE  Moves(w)
  <2>1. Polls(r) /\ UNCHANGED <<leased, saga, mine, todo>> /\ at[w] = "resolve"
        /\ \E place : at' = [at EXCEPT ![w] = place]
    BY <1>7 DEF resolve, storeVars
  <2> QED
    BY <1>0, <2>1, PollsLapses DEF Moves, TypeOK
<1>8. ASSUME NEW r, recoverInFlight(w, r)
      PROVE  Moves(w)
  <2>1. Polls(r) /\ UNCHANGED <<leased, saga, mine, todo>> /\ at[w] = "recover"
        /\ \E place : at' = [at EXCEPT ![w] = place]
    BY <1>8 DEF recoverInFlight
  <2> QED
    BY <1>0, <2>1, PollsLapses DEF Moves, TypeOK
<1>9. CASE applyResult(w)
  <2>1. \E patched, place, dueNow : persist(w, patched, place, dueNow)
    BY <1>9 DEF applyResult, park
  <2> QED
    BY <1>0, <1>9, <2>1, PersistMoves DEF applyResult
<1>10. CASE parkUnresolved(w)
  BY <1>0, <1>10, PersistMoves DEF parkUnresolved, park
<1>11. ASSUME NEW ok \in BOOLEAN, compensate(w, ok)
       PROVE  Moves(w)
  <2>1. CASE ok
    BY <1>0, <1>11, <2>1 DEF compensate, storeVars, Moves, TypeOK
  <2>2. CASE ~ok
    BY <1>0, <1>11, <2>2 DEF compensate, storeVars, Moves, TypeOK
  <2> QED
    BY <2>1, <2>2
<1>12. CASE cancel(w)
  BY <1>0, <1>12, PersistMoves DEF cancel
<1>13. CASE releaseLease(w)
  BY <1>0, <1>13 DEF releaseLease, Forgets, Moves, TypeOK
<1>14. CASE Crash(w)
  <2>1. spent'.lapses = spent.lapses /\ spent'.reopened = spent.reopened
    BY <1>0, <1>14 DEF Crash, TypeOK
  <2> QED
    BY <1>0, <1>14, <2>1 DEF Crash, Forgets, storeVars, Moves, TypeOK
<1> QED
  BY <1>1, <1>2, <1>3, <1>4, <1>5, <1>6, <1>7, <1>8, <1>9, <1>10, <1>11, <1>12,
     <1>13, <1>14 DEF WorkerStep

\* The steps of nobody, of time and of the operator keep the workers' places.
LEMMA WorldStays ==
    ASSUME TypeOK,
           LeaseExpires \/ Wake \/ operatorResume \/ operatorUnwind
             \/ (\E s \in Removable : Redeploy(s)) \/ UNCHANGED vars
    PROVE  /\ UNCHANGED workerVars /\ UNCHANGED <<journal, effect>>
           /\ spent'.lapses = 0 => spent.lapses = 0
           /\ leased' = leased \/ spent'.lapses > 0 \/ \A w \in Workers : at[w] = "idle"
           /\ saga' = saga \/ (saga' \subseteq saga /\ \A w \in Workers : at[w] = "idle")
           /\ intent' = intent \/ intent'.state \in {"RUNNING", "UNWINDING"}
<1>1. CASE LeaseExpires
  <2>1. spent.lapses \in Nat
    BY DEF TypeOK
  <2>2. CASE \A w \in Workers : at[w] = "idle"
    BY <1>1, <2>2 DEF LeaseExpires, workerVars
  <2>3. CASE ~\A w \in Workers : at[w] = "idle"
    <3>1. spent' = [spent EXCEPT !.lapses = @ + 1]
      BY <1>1, <2>3, Zenon DEF LeaseExpires
    <3>2. spent'.lapses = spent.lapses + 1
      BY <3>1 DEF TypeOK
    <3>3. spent'.lapses > 0 /\ spent'.lapses # 0
      BY <2>1, <3>2
    <3> QED
      BY <1>1, <3>3 DEF LeaseExpires, workerVars
  <2> QED
    BY <2>2, <2>3
<1>2. CASE Wake \/ UNCHANGED vars
  BY <1>2 DEF Wake, vars, storeVars
<1>3. ASSUME NEW patched, NEW reopens, OperatorSaves(patched, reopens)
      PROVE  /\ UNCHANGED <<leased, journal, saga, effect, workerVars>>
             /\ spent'.lapses = spent.lapses
             /\ intent' = [patched EXCEPT !.version = @ + 1]
  BY <1>3 DEF OperatorSaves, TypeOK
<1>4. CASE operatorResume
  <2> DEFINE patched == [intent EXCEPT !.state = "RUNNING", !.attempts = NoCopy.attempts]
  <2>1. OperatorSaves(patched, UnwindBegun)
    BY <1>4 DEF operatorResume
  <2>2. intent' = [patched EXCEPT !.version = @ + 1]
    BY <1>3, <2>1
  <2>3. intent'.state = "RUNNING"
    BY <2>2 DEF TypeOK, Intent
  <2> HIDE DEF patched
  <2> QED
    BY <1>3, <2>1, <2>3
<1>5. CASE operatorUnwind
  <2> DEFINE patched == [intent EXCEPT !.state = "UNWINDING"]
  <2>1. OperatorSaves(patched, FALSE)
    BY <1>5 DEF operatorUnwind
  <2>2. intent' = [patched EXCEPT !.version = @ + 1]
    BY <1>3, <2>1
  <2>3. intent'.state = "UNWINDING"
    BY <2>2 DEF TypeOK, Intent
  <2> HIDE DEF patched
  <2> QED
    BY <1>3, <2>1, <2>3
<1>6. ASSUME NEW s \in Removable, Redeploy(s)
      PROVE  /\ UNCHANGED <<storeVars, effect, workerVars, spent>>
             /\ saga' \subseteq saga /\ \A w \in Workers : at[w] = "idle"
  BY <1>6 DEF Redeploy
<1> QED
  BY <1>1, <1>2, <1>4, <1>5, <1>6 DEF storeVars

LEMMA NextCases ==
    ASSUME [Next]_vars
    PROVE  \/ \E w \in Workers : WorkerStep(w) \/ Crash(w)
           \/ LeaseExpires \/ Wake \/ operatorResume \/ operatorUnwind
                \/ (\E s \in Removable : Redeploy(s)) \/ UNCHANGED vars
  BY DEF Next

\* While leases outlast the drives, one worker at most is at the intent.
LEMMA AloneStep ==
    ASSUME IInv, Alone, [Next]_vars
    PROVE  Alone'
<1> SUFFICES ASSUME spent'.lapses = 0, NEW w \in Workers, at'[w] # "idle"
             PROVE  leased' /\ \A v \in Workers \ {w} : at'[v] = "idle"
  BY DEF Alone
<1>0. TypeOK
  BY DEF IInv
<1>1. ASSUME NEW u \in Workers, WorkerStep(u) \/ Crash(u)
      PROVE  leased' /\ \A v \in Workers \ {w} : at'[v] = "idle"
  <2>0. Moves(u) /\ spent.lapses = 0
    BY <1>1, WorkerMoves DEF Moves
  <2>1. CASE at[u] = "idle"
    <3>1. ~leased /\ leased'
      BY <2>0, <2>1 DEF Moves
    <3>2. \A v \in Workers : at[v] = "idle"
      BY <2>0, <3>1 DEF Alone
    <3> QED
      BY <2>0, <3>1, <3>2 DEF Moves
  <2>2. CASE at[u] # "idle"
    <3>1. leased /\ \A v \in Workers \ {u} : at'[v] = "idle"
      BY <2>0, <2>2 DEF Alone, Moves
    <3>2. w = u
      BY <3>1
    <3>3. leased' = leased
      BY <2>0, <2>2, <3>2 DEF Moves
    <3> QED
      BY <3>1, <3>2, <3>3
  <2> QED
    BY <2>1, <2>2
<1>2. CASE \/ LeaseExpires \/ Wake \/ operatorResume \/ operatorUnwind
           \/ (\E s \in Removable : Redeploy(s)) \/ UNCHANGED vars
  <2>1. at' = at /\ spent.lapses = 0 /\ leased' = leased
    BY <1>0, <1>2, WorldStays DEF workerVars, TypeOK
  <2> QED
    BY <2>1 DEF Alone
<1> QED
  BY <1>1, <1>2, NextCases

LEMMA ToCompensateNext ==
    ASSUME saga \in SUBSET Steps, NEW k, NEW s \in saga \cap Compensable, s <= k
    PROVE  s <= ToCompensate(k)
<1> DEFINE S == {0} \cup {r \in saga \cap Compensable : r <= k}
<1>1. S \in SUBSET (0 .. NumSteps) /\ s \in S
  <2>1. 0 \in 0 .. NumSteps /\ Steps \subseteq 0 .. NumSteps
    BY RunnerAssumption DEF Steps
  <2> QED
    BY <2>1
<1>2. \E x \in S : \A y \in S : x >= y
  <2>1. NumSteps \in Nat /\ S # {}
    BY <1>1, RunnerAssumption
  <2>2. PICK x \in S : \A y \in S : y <= x
    <3> HIDE DEF S
    <3> QED
      BY <1>1, <2>1, GreatestElement
  <2>3. \A y \in S : x >= y
    <3>1. x \in Int /\ \A y \in S : y \in Int
      BY <1>1, RunnerAssumption
    <3> QED
      BY <2>2, <3>1
  <2> QED
    BY <2>3
<1>3. Max(S) \in S /\ \A y \in S : Max(S) >= y
  <2> HIDE DEF S
  <2> QED
    BY <1>2 DEF Max
<1>4. Max(S) >= s /\ Max(S) \in Int /\ s \in Int
  BY <1>1, <1>3, RunnerAssumption
<1> QED
  BY <1>4 DEF ToCompensate

\* A worker's own move keeps things orderly when it does so for that worker.
LEMMA OrderlyMove ==
    ASSUME IInv, Alone, Orderly, NEW w \in Workers, Moves(w), Alone',
           at[w] # "idle" \/ at'[w] # "idle",
           spent.lapses = 0 =>
              /\ at'[w] = "begin" => InFlight(MyStep(w))' = {}
              /\ at'[w] = "unwind" => Undone(mine[w].stage, todo[w])'
              /\ intent'.state = "CANCELLED" =>
                    Undone(intent.stage, 0)' /\ at'[w] \in {"idle", "release"}
    PROVE  Orderly'
<1> SUFFICES ASSUME spent'.lapses = 0
             PROVE  /\ \A v \in Workers : at'[v] = "begin" => InFlight(MyStep(v))' = {}
                    /\ \A v \in Workers : at'[v] = "unwind" => Undone(mine[v].stage, todo[v])'
                    /\ intent'.state = "CANCELLED" =>
                          /\ Undone(intent.stage, 0)'
                          /\ \A v \in Workers : at'[v] \in {"idle", "release"}
  BY DEF Orderly
<1>1. spent.lapses = 0
  BY DEF Moves
<1>2. \A v \in Workers \ {w} : at'[v] = "idle"
  <2>1. CASE at[w] # "idle"
    BY <1>1, <2>1 DEF Alone, Moves
  <2>2. CASE at'[w] # "idle"
    BY <2>2 DEF Alone
  <2> QED
    BY <2>1, <2>2
<1>3. \A v \in Workers : at'[v] \notin {"idle", "release"} => v = w
  BY <1>2
<1>4. ASSUME NEW v \in Workers, at'[v] = "begin"
      PROVE  InFlight(MyStep(v))' = {}
  BY <1>1, <1>3, <1>4
<1>5. ASSUME NEW v \in Workers, at'[v] = "unwind"
      PROVE  Undone(mine[v].stage, todo[v])'
  BY <1>1, <1>3, <1>5
<1> QED
  BY <1>1, <1>2, <1>4, <1>5

\* A save that does not cancel.
LEMMA OrderlySave ==
    ASSUME IInv, Alone, Orderly, Alone', NEW w \in Workers, NEW patched \in Intent,
           NEW place \in Places \ {"begin", "unwind"}, NEW dueNow,
           persist(w, patched, place, dueNow), patched.state # "CANCELLED",
           at[w] \notin {"idle", "release"}
    PROVE  Orderly'
<1>0. TypeOK
  BY DEF IInv
<1>1. Moves(w)
  BY <1>0, PersistMoves
<1>2. at'[w] \notin {"begin", "unwind"}
  BY <1>0 DEF persist, TypeOK
<1>3. spent.lapses = 0 => intent'.state # "CANCELLED"
  <2>1. CASE intent' = intent
    BY <2>1 DEF Orderly
  <2>2. CASE intent' # intent
    <3>1. intent' = [patched EXCEPT !.version = intent.version + 1]
      BY <2>2, SavedFromStore
    <3>2. intent'.state = patched.state
      BY <3>1 DEF Intent
    <3> QED
      BY <3>2
  <2> QED
    BY <2>1, <2>2
<1> QED
  BY <1>1, <1>2, <1>3, OrderlyMove

\* A worker that works without saving.
LEMMA OrderlyWork ==
    ASSUME IInv, Alone, Orderly, Alone', NEW w \in Workers, Moves(w), UNCHANGED intent,
           at[w] \notin {"idle", "release"},
           spent.lapses = 0 =>
              /\ at'[w] = "begin" => InFlight(MyStep(w))' = {}
              /\ at'[w] = "unwind" => Undone(mine[w].stage, todo[w])'
    PROVE  Orderly'
<1>1. spent.lapses = 0 => intent'.state # "CANCELLED"
  BY DEF Orderly
<1> QED
  BY <1>1, OrderlyMove

LEMMA OrderlyClaim ==
    ASSUME IInv, Alone, Orderly, Alone', NEW w \in Workers, claimDue(w)
    PROVE  Orderly'
<1>0. TypeOK /\ saga \in SUBSET Steps /\ intent.state \in Claimable
      /\ UNCHANGED <<intent, saga, effect>>
  BY DEF IInv, TypeOK, claimDue
<1>1. Moves(w)
  BY WorkerMoves DEF WorkerStep
<1>2. at'[w] = Entry(intent) /\ mine'[w] = intent
      /\ (intent.state = "UNWINDING" => todo'[w] = ToCompensate(intent.stage))
  BY <1>0 DEF claimDue, TypeOK
<1>3. /\ Entry(intent) \notin {"begin", "idle"}
      /\ Entry(intent) = "unwind" => intent.state = "UNWINDING"
  BY DEF Entry, LoopHead
<1>4. at'[w] = "unwind" => Undone(mine[w].stage, todo[w])'
  <2> SUFFICES ASSUME at'[w] = "unwind", NEW s \in saga \cap Compensable,
                      s <= intent.stage, s > ToCompensate(intent.stage)
               PROVE  FALSE
    BY <1>0, <1>2, <1>3 DEF Undone
  <2>1. s <= ToCompensate(intent.stage)
    BY <1>0, ToCompensateNext
  <2>2. s \in Nat /\ ToCompensate(intent.stage) \in Nat
    BY <1>0, ToCompensateType, RunnerAssumption DEF Steps
  <2> QED
    BY <2>1, <2>2
<1>5. intent'.state # "CANCELLED"
  BY <1>0 DEF Claimable
<1> QED
  BY <1>1, <1>2, <1>3, <1>4, <1>5, OrderlyMove

LEMMA OrderlyFind ==
    ASSUME IInv, Alone, Orderly, Alone', NEW w \in Workers, findInFlightAttempt(w)
    PROVE  Orderly'
<1>0. /\ TypeOK /\ at[w] = "look"
      /\ UNCHANGED <<intent, journal, saga, mine>>
  BY DEF IInv, findInFlightAttempt, storeVars
<1>1. Moves(w)
  BY WorkerMoves DEF WorkerStep
<1>2. MyStep(w)' = MyStep(w)
  BY <1>0 DEF MyStep, NextStep, Remaining
<1>3. CASE InFlight(MyStep(w)) = {}
  <2>1. at'[w] = "begin"
    BY <1>0, <1>3 DEF findInFlightAttempt, TypeOK
  <2>2. InFlight(MyStep(w))' = {}
    BY <1>0, <1>2, <1>3 DEF InFlight
  <2> QED
    BY <1>0, <1>1, <2>1, <2>2, OrderlyWork
<1>4. CASE InFlight(MyStep(w)) # {}
  <2>1. at'[w] = "recover"
    BY <1>0, <1>4 DEF findInFlightAttempt, TypeOK
  <2> QED
    BY <1>0, <1>1, <2>1, OrderlyWork
<1> QED
  BY <1>3, <1>4

LEMMA OrderlyCompensate ==
    ASSUME IInv, Alone, Orderly, Alone', NEW w \in Workers, NEW ok \in BOOLEAN,
           compensate(w, ok)
    PROVE  Orderly'
<1>0. /\ TypeOK /\ at[w] = "unwind" /\ todo[w] # 0 /\ mine[w] \in Intent
      /\ saga \in SUBSET Steps
      /\ UNCHANGED <<intent, journal, saga, mine>>
  BY DEF IInv, TypeOK, compensate, storeVars
<1>1. Moves(w)
  BY WorkerMoves DEF WorkerStep
<1>2. CASE ok
  <2>1. /\ effect' = [effect EXCEPT ![todo[w]] = IF @ = "done" THEN "undone" ELSE @]
        /\ todo' = [todo EXCEPT ![w] = ToCompensate(todo[w] - 1)]
        /\ at' = at
    BY <1>2 DEF compensate
  <2>2. todo'[w] = ToCompensate(todo[w] - 1)
    BY <1>0, <2>1 DEF TypeOK
  <2>3. spent.lapses = 0 => Undone(mine[w].stage, todo[w])'
    <3> SUFFICES ASSUME spent.lapses = 0, NEW s \in saga \cap Compensable,
                        s <= mine[w].stage, s > todo'[w]
                 PROVE  effect'[s] # "done"
      BY <1>0 DEF Undone
    <3>1. s \in Nat /\ s \in Steps /\ todo[w] \in Nat
      BY <1>0, RunnerAssumption DEF TypeOK, Steps
    <3>2. ToCompensate(todo[w] - 1) \in Nat
      BY <1>0, ToCompensateType, RunnerAssumption
    <3>3. ~(s <= todo[w] - 1)
      <4>1. s <= todo[w] - 1 => s <= ToCompensate(todo[w] - 1)
        BY <1>0, ToCompensateNext
      <4> QED
        BY <2>2, <3>1, <3>2, <4>1
    <3>4. CASE s = todo[w]
      BY <1>0, <2>1, <3>1, <3>4 DEF TypeOK
    <3>5. CASE s > todo[w]
      <4>1. effect[s] # "done"
        BY <1>0, <3>5 DEF Orderly, Undone
      <4>2. effect'[s] = effect[s]
        BY <1>0, <2>1, <3>1, <3>5 DEF TypeOK
      <4> QED
        BY <4>1, <4>2
    <3> QED
      BY <3>1, <3>3, <3>4, <3>5
  <2>4. at'[w] = "unwind"
    BY <1>0, <2>1
  <2> QED
    BY <1>0, <1>1, <2>3, <2>4, OrderlyWork
<1>3. CASE ~ok
  <2>1. at'[w] = "park"
    BY <1>0, <1>3 DEF compensate, TypeOK
  <2> QED
    BY <1>0, <1>1, <2>1, OrderlyWork
<1> QED
  BY <1>2, <1>3

LEMMA OrderlyCancel ==
    ASSUME IInv, Alone, Orderly, Alone', NEW w \in Workers, cancel(w)
    PROVE  Orderly'
<1> DEFINE patched == [mine[w] EXCEPT !.state = "CANCELLED"]
<1>0. /\ TypeOK /\ at[w] = "unwind" /\ todo[w] = 0
      /\ persist(w, patched, "release", TRUE) /\ UNCHANGED <<saga, effect>>
  BY DEF IInv, cancel, persist
<1>1. Moves(w)
  BY WorkerMoves DEF WorkerStep
<1>2. at'[w] = "release"
  BY <1>0 DEF persist, TypeOK
<1>3. CASE intent' = intent
  <2>1. spent.lapses = 0 => intent'.state # "CANCELLED"
    BY <1>0, <1>3 DEF Orderly
  <2> QED
    BY <1>0, <1>1, <1>2, <2>1, OrderlyMove
<1>4. CASE intent' # intent
  <2>1. mine[w] = intent /\ intent' = [patched EXCEPT !.version = intent.version + 1]
    BY <1>0, <1>4, SavedFromStore
  <2>2. intent'.stage = mine[w].stage
    BY <2>1 DEF IInv, TypeOK, Intent
  <2>3. spent.lapses = 0 => Undone(intent.stage, 0)'
    BY <1>0, <2>2 DEF Orderly, Undone
  <2> QED
    BY <1>0, <1>1, <1>2, <2>3, OrderlyMove
<1> QED
  BY <1>3, <1>4

\* A worker that leaves, of its own will or not.
LEMMA OrderlyLeave ==
    ASSUME IInv, Alone, Orderly, Alone', NEW w \in Workers, releaseLease(w) \/ Crash(w)
    PROVE  Orderly'
<1>0. /\ TypeOK /\ at[w] # "idle" /\ Forgets(w) /\ UNCHANGED <<intent, saga>>
      /\ at[w] # "run" => UNCHANGED effect
  BY DEF IInv, releaseLease, Crash, storeVars
<1>1. Moves(w)
  BY WorkerMoves DEF WorkerStep
<1>2. at'[w] = "idle"
  BY <1>0 DEF Forgets, TypeOK
<1>3. spent.lapses = 0 /\ intent'.state = "CANCELLED" => Undone(intent.stage, 0)'
  <2> SUFFICES ASSUME spent.lapses = 0, intent.state = "CANCELLED"
               PROVE  Undone(intent.stage, 0)'
    BY <1>0
  <2>1. at[w] \in {"idle", "release"} /\ Undone(intent.stage, 0)
    BY DEF Orderly
  <2>2. UNCHANGED effect
    BY <1>0, <2>1
  <2> QED
    BY <1>0, <2>1, <2>2 DEF Undone
<1> QED
  BY <1>0, <1>1, <1>2, <1>3, OrderlyMove

LEMMA OrderlyWorld ==
    ASSUME IInv, Orderly,
           LeaseExpires \/ Wake \/ operatorResume \/ operatorUnwind
             \/ (\E s \in Removable : Redeploy(s)) \/ UNCHANGED vars
    PROVE  Orderly'
<1>1. /\ UNCHANGED workerVars /\ UNCHANGED <<journal, effect>>
      /\ spent'.lapses = 0 => spent.lapses = 0
      /\ saga' = saga \/ (saga' \subseteq saga /\ \A w \in Workers : at[w] = "idle")
      /\ intent' = intent \/ intent'.state \in {"RUNNING", "UNWINDING"}
  BY WorldStays DEF IInv
<1>2. CASE saga' = saga
  <2>1. \A w \in Workers : InFlight(MyStep(w))' = InFlight(MyStep(w))
    BY <1>1, <1>2 DEF InFlight, MyStep, NextStep, Remaining, workerVars
  <2> QED
    BY <1>1, <1>2, <2>1 DEF Orderly, Undone, workerVars
<1>3. CASE saga' \subseteq saga /\ \A w \in Workers : at[w] = "idle"
  <2>1. \A w \in Workers : at'[w] = "idle"
    BY <1>1, <1>3 DEF workerVars
  <2>2. spent'.lapses = 0 /\ intent'.state = "CANCELLED" => Undone(intent.stage, 0)'
    BY <1>1, <1>3 DEF Orderly, Undone
  <2> QED
    BY <2>1, <2>2 DEF Orderly
<1> QED
  BY <1>1, <1>2, <1>3

LEMMA OrderlyStart ==
    ASSUME IInv, Alone, Orderly, Alone', NEW w \in Workers, start(w) \/ complete(w)
    PROVE  Orderly'
<1>1. CASE start(w)
  <2> DEFINE patched == [mine[w] EXCEPT !.state = "RUNNING"]
  <2>1. patched \in Intent /\ patched.state = "RUNNING"
    BY AtPlace DEF Intent, States
  <2>2. LoopHead(mine[w].stage) \in Places \ {"begin", "unwind"}
    BY DEF LoopHead, Places
  <2>3. persist(w, patched, LoopHead(mine[w].stage), due) /\ at[w] = "start"
    BY <1>1 DEF start
  <2> QED
    BY <2>1, <2>2, <2>3, OrderlySave
<1>2. CASE complete(w)
  <2> DEFINE patched == [mine[w] EXCEPT !.state = "COMPLETED"]
  <2>1. patched \in Intent /\ patched.state = "COMPLETED"
    BY AtPlace DEF Intent, States
  <2>2. persist(w, patched, "release", TRUE) /\ at[w] = "complete"
    BY <1>2 DEF complete
  <2> QED
    BY <2>1, <2>2, OrderlySave DEF Places
<1> QED
  BY <1>1, <1>2

LEMMA OrderlyPark ==
    ASSUME IInv, Alone, Orderly, Alone', NEW w \in Workers, parkUnresolved(w)
    PROVE  Orderly'
<1> DEFINE patched == [mine[w] EXCEPT !.state = "NEEDS_MANUAL"]
<1>1. patched \in Intent /\ patched.state = "NEEDS_MANUAL"
  BY AtPlace DEF Intent, States
<1>2. persist(w, patched, "release", TRUE) /\ at[w] = "park"
  BY DEF parkUnresolved, park
<1> QED
  BY <1>1, <1>2, OrderlySave DEF Places

LEMMA OrderlyApply ==
    ASSUME IInv, Alone, Orderly, Alone', NEW w \in Workers, applyResult(w)
    PROVE  Orderly'
<1> DEFINE s       == MyStep(w)
           counted == [mine[w] EXCEPT !.attempts = Counted(w)]
<1>0. at[w] = "apply" /\ at[w] \in AtAttempt /\ at[w] \in AtStep /\ TypeOK /\ Placed
  BY DEF applyResult, AtAttempt, AtStep, IInv
<1>1. counted \in Intent
  BY <1>0, CountedType
<1>2. mine[w].state \in Working /\ counted.state = mine[w].state /\ mine[w] \in Intent
  BY <1>0, <1>1 DEF Placed, Suits, TypeOK, Intent
<1>3. s \in 0 .. NumSteps
  BY <1>0, MyStepIsNext, RunnerAssumption DEF Steps
<1>4. "release" \in Places \ {"begin", "unwind"} /\ LoopHead(s) \in Places \ {"begin", "unwind"}
  BY DEF Places, LoopHead
<1> HIDE DEF s, counted
<1>5. CASE result[w] = "ADVANCE"
  <2> DEFINE patched == [counted EXCEPT !.state = "RUNNING", !.stage = s]
  <2>1. persist(w, patched, LoopHead(s), TRUE)
    BY <1>5 DEF applyResult, s, counted
  <2>2. patched \in Intent /\ patched.state # "CANCELLED"
    BY <1>1, <1>3 DEF Intent, States
  <2> QED
    BY <1>0, <1>4, <2>1, <2>2, OrderlySave
<1>6. CASE result[w] = "WAIT"
  <2> DEFINE patched == [counted EXCEPT !.state = "WAITING"]
  <2>1. persist(w, patched, "release", FALSE)
    BY <1>6 DEF applyResult, s, counted
  <2>2. patched \in Intent /\ patched.state # "CANCELLED"
    BY <1>1 DEF Intent, States
  <2> QED
    BY <1>0, <1>4, <2>1, <2>2, OrderlySave
<1>7. CASE result[w] = "UNWIND"
  <2> DEFINE patched == [counted EXCEPT !.state = "UNWINDING"]
  <2>1. persist(w, patched, "release", TRUE)
    BY <1>7 DEF applyResult, s, counted
  <2>2. patched \in Intent /\ patched.state # "CANCELLED"
    BY <1>1 DEF Intent, States
  <2> QED
    BY <1>0, <1>4, <2>1, <2>2, OrderlySave
<1>8. CASE result[w] = "TERMINAL"
  <2> DEFINE patched == [mine[w] EXCEPT !.state = "UNWINDING"]
  <2>1. persist(w, patched, "release", TRUE)
    BY <1>8 DEF applyResult
  <2>2. patched \in Intent /\ patched.state # "CANCELLED"
    BY <1>2 DEF Intent, States
  <2> QED
    BY <1>0, <1>4, <2>1, <2>2, OrderlySave
<1>9. CASE result[w] = "RETRY" /\ MyCount(w) < maxAttempts
  <2>1. persist(w, counted, "release", FALSE)
    BY <1>9 DEF applyResult, s, counted
  <2>2. counted.state # "CANCELLED"
    BY <1>2 DEF Working
  <2> QED
    BY <1>0, <1>1, <1>4, <2>1, <2>2, OrderlySave
<1>10. CASE result[w] = "MANUAL" \/ (result[w] = "RETRY" /\ ~(MyCount(w) < maxAttempts))
  <2> DEFINE patched == [counted EXCEPT !.state = "NEEDS_MANUAL"]
  <2>1. persist(w, patched, "release", TRUE)
    BY <1>10 DEF applyResult, s, counted, park
  <2>2. patched \in Intent /\ patched.state # "CANCELLED"
    BY <1>1 DEF Intent, States
  <2> QED
    BY <1>0, <1>4, <2>1, <2>2, OrderlySave
<1>11. result[w] \in {"ADVANCE", "WAIT", "UNWIND", "MANUAL", "RETRY", "TERMINAL"}
  BY <1>0 DEF Placed
<1> QED
  BY <1>5, <1>6, <1>7, <1>8, <1>9, <1>10, <1>11

\* An attempt is begun, made, resolved or recovered.
LEMMA OrderlyAttempt ==
    ASSUME IInv, Alone, Orderly, Alone', NEW w \in Workers,
           \/ beginAttempt(w)
           \/ \E r \in Results : run(w, r)
           \/ \E r \in (Results \cap StepResults) \cup {"Unknown"} :
                 resolve(w, r) \/ recoverInFlight(w, r)
    PROVE  Orderly'
<1>0. TypeOK
  BY DEF IInv
<1>1. Moves(w)
  BY WorkerMoves DEF WorkerStep
<1>2. /\ UNCHANGED intent /\ at[w] \notin {"idle", "release"}
      /\ at' = [at EXCEPT ![w] = at'[w]] /\ at'[w] \in {"run", "apply", "resolve", "park"}
  <2>1. CASE beginAttempt(w)
    BY <1>0, <2>1 DEF beginAttempt, TypeOK
  <2>2. ASSUME NEW r, run(w, r)
        PROVE  /\ UNCHANGED intent /\ at[w] \notin {"idle", "release"}
               /\ at' = [at EXCEPT ![w] = at'[w]]
               /\ at'[w] \in {"run", "apply", "resolve", "park"}
    <3>1. /\ UNCHANGED intent /\ at[w] = "run"
          /\ \E place \in {"apply", "resolve", "park"} : at' = [at EXCEPT ![w] = place]
      BY <2>2 DEF run
    <3> QED
      BY <1>0, <3>1 DEF TypeOK
  <2>3. ASSUME NEW r, resolve(w, r)
        PROVE  /\ UNCHANGED intent /\ at[w] \notin {"idle", "release"}
               /\ at' = [at EXCEPT ![w] = at'[w]]
               /\ at'[w] \in {"run", "apply", "resolve", "park"}
    BY <1>0, <2>3 DEF resolve, storeVars, TypeOK
  <2>4. ASSUME NEW r, recoverInFlight(w, r)
        PROVE  /\ UNCHANGED intent /\ at[w] \notin {"idle", "release"}
               /\ at' = [at EXCEPT ![w] = at'[w]]
               /\ at'[w] \in {"run", "apply", "resolve", "park"}
    BY <1>0, <2>4 DEF recoverInFlight, TypeOK
  <2> QED
    BY <2>1, <2>2, <2>3, <2>4
<1> QED
  BY <1>1, <1>2, OrderlyWork

LEMMA OrderlyStep ==
    ASSUME IInv, Alone, Orderly, [Next]_vars
    PROVE  Orderly'
<1>0. Alone'
  BY AloneStep
<1>1. ASSUME NEW w \in Workers, WorkerStep(w) \/ Crash(w)
      PROVE  Orderly'
  <2>1. CASE claimDue(w)
    BY <1>0, <2>1, OrderlyClaim
  <2>2. CASE start(w) \/ complete(w)
    BY <1>0, <2>2, OrderlyStart
  <2>3. CASE findInFlightAttempt(w)
    BY <1>0, <2>3, OrderlyFind
  <2>4. CASE \/ beginAttempt(w)
             \/ \E r \in Results : run(w, r)
             \/ \E r \in (Results \cap StepResults) \cup {"Unknown"} :
                   resolve(w, r) \/ recoverInFlight(w, r)
    BY <1>0, <2>4, OrderlyAttempt
  <2>5. CASE applyResult(w)
    BY <1>0, <2>5, OrderlyApply
  <2>6. CASE parkUnresolved(w)
    BY <1>0, <2>6, OrderlyPark
  <2>7. CASE \E ok \in BOOLEAN : compensate(w, ok)
    BY <1>0, <2>7, OrderlyCompensate
  <2>8. CASE cancel(w)
    BY <1>0, <2>8, OrderlyCancel
  <2>9. CASE releaseLease(w) \/ Crash(w)
    BY <1>0, <2>9, OrderlyLeave
  <2> QED
    BY <1>1, <2>1, <2>2, <2>3, <2>4, <2>5, <2>6, <2>7, <2>8, <2>9 DEF WorkerStep
<1> QED
  BY <1>1, NextCases, OrderlyWorld

LEMMA OrderlyInvariance == Spec => [](IInv /\ Alone /\ Orderly)
<1>1. Init => Alone /\ Orderly
  BY DEF Init, Alone, Orderly, NoCopy
<1>2. IInv /\ Alone /\ Orderly /\ [Next]_vars => Alone' /\ Orderly'
  BY AloneStep, OrderlyStep
<1> QED
  BY <1>1, <1>2, InitInv, StepInv, PTL DEF Spec

\* As long as leases outlast the drives, a cancelled intent has undone every step
\* it had reached, whatever crashed halfway through the unwind (unwind).
THEOREM CancelledUndone == Spec => []CancelledMeansUndone
<1>1. IInv /\ Orderly => CancelledMeansUndone
  <2> SUFFICES ASSUME IInv, Orderly, intent.state = "CANCELLED", spent.lapses = 0,
                      NEW s \in saga \cap Compensable, s <= intent.stage
               PROVE  effect[s] # "done"
    BY DEF CancelledMeansUndone
  <2>1. s \in 1 .. NumSteps /\ s > 0
    <3>1. s \in Steps
      BY RunnerAssumption
    <3> QED
      BY <3>1, RunnerAssumption DEF Steps
  <2>2. Undone(intent.stage, 0)
    BY DEF Orderly
  <2> QED
    BY <2>1, <2>2 DEF Undone
<1> QED
  BY <1>1, OrderlyInvariance, PTL

-----------------------------------------------------------------------------
\* Only beginAttempt adds an attempt to the journal.
LEMMA JournalGrows ==
    ASSUME IInv, NEW w \in Workers, WorkerStep(w) \/ Crash(w), ~beginAttempt(w)
    PROVE  DOMAIN journal' = DOMAIN journal
<1>1. ASSUME NEW outcome, finishAttempt(w, outcome)
      PROVE  DOMAIN journal' = DOMAIN journal
  BY <1>1 DEF finishAttempt
<1>2. ASSUME NEW patched, NEW place, NEW dueNow, persist(w, patched, place, dueNow)
      PROVE  journal' = journal
  BY <1>2 DEF persist
<1>3. ASSUME NEW r, run(w, r) \/ recoverInFlight(w, r)
      PROVE  DOMAIN journal' = DOMAIN journal
  BY <1>1, <1>3 DEF run, recoverInFlight
<1>4. CASE start(w) \/ complete(w) \/ parkUnresolved(w) \/ cancel(w)
  BY <1>2, <1>4 DEF start, complete, parkUnresolved, park, cancel
<1>5. CASE applyResult(w)
  <2>1. \E patched, place, dueNow : persist(w, patched, place, dueNow)
    BY <1>5 DEF applyResult, park
  <2> QED
    BY <1>2, <2>1
<1>6. CASE \/ claimDue(w) \/ findInFlightAttempt(w) \/ releaseLease(w) \/ Crash(w)
           \/ \E r \in (Results \cap StepResults) \cup {"Unknown"} : resolve(w, r)
           \/ \E ok \in BOOLEAN : compensate(w, ok)
  BY <1>6 DEF claimDue, findInFlightAttempt, releaseLease, Crash, resolve, compensate,
              storeVars
<1> QED
  BY <1>3, <1>4, <1>5, <1>6 DEF WorkerStep

\* As long as leases outlast the drives, no attempt begins on a step that has
\* another one in flight, after any crash and recovery (runStep).
THEOREM NoRerun == Spec => NoRerunInFlight
<1>1. IInv /\ Orderly /\ [Next]_vars =>
        [spent'.lapses = 0 =>
           \A i \in DOMAIN journal' \ DOMAIN journal : \A j \in DOMAIN journal :
              journal[j].step = journal'[i].step => journal[j].outcome # Unfinished]_vars
  <2> SUFFICES ASSUME IInv, Orderly, [Next]_vars, spent'.lapses = 0,
                      NEW i \in DOMAIN journal' \ DOMAIN journal, NEW j \in DOMAIN journal,
                      journal[j].step = journal'[i].step
               PROVE  journal[j].outcome # Unfinished
    OBVIOUS
  <2>0. TypeOK
    BY DEF IInv
  <2>1. PICK w \in Workers : WorkerStep(w) \/ Crash(w)
    BY <2>0, NextCases, WorldStays
  <2>2. beginAttempt(w)
    BY <2>1, JournalGrows
  <2>3. spent.lapses = 0
    BY <2>1, WorkerMoves DEF Moves
  <2>4. InFlight(MyStep(w)) = {}
    BY <2>2, <2>3 DEF Orderly, beginAttempt
  <2>5. journal'[i].step = MyStep(w)
    <3> DEFINE begun == [step |-> MyStep(w), attempt |-> mine[w].attempts[MyStep(w)] + 1,
                         outcome |-> Unfinished]
    <3>1. journal' = Append(journal, begun) /\ begun.step = MyStep(w)
      BY <2>2 DEF beginAttempt
    <3>2. begun \in Attempt
      <4>1. mine[w] \in Intent /\ MyStep(w) \in Steps
        BY <2>0, <2>2, MyStepIsNext DEF beginAttempt, IInv, AtStep, TypeOK
      <4>2. mine[w].attempts[MyStep(w)] \in Nat
        BY <4>1 DEF Intent
      <4> QED
        BY <4>1, <4>2 DEF Attempt
    <3> HIDE DEF begun
    <3>3. /\ DOMAIN journal' = DOMAIN journal \cup {Len(journal) + 1}
          /\ journal'[Len(journal) + 1] = begun
      BY <2>0, <3>1, <3>2 DEF TypeOK
    <3> QED
      BY <3>1, <3>3
  <2> QED
    BY <2>4, <2>5 DEF InFlight
<1> QED
  BY <1>1, OrderlyInvariance, PTL DEF Spec, NoRerunInFlight

-----------------------------------------------------------------------------
(* A way back.  From the first compensation on, the intent is unwinding,   *)
(* cancelled or parked, unless an operator has resumed it (WayBack).       *)

Backward == {"UNWINDING", "CANCELLED", "NEEDS_MANUAL"}

WayBack == UnwindBegun /\ ~spent.reopened => intent.state \in Backward

\* No worker turns an intent round that is on its way back.
LEMMA WorkerKeepsBackward ==
    ASSUME IInv, NEW w \in Workers, WorkerStep(w), intent.state \in Backward
    PROVE  intent'.state \in Backward
<1>1. CASE intent' = intent
  BY <1>1
<1>2. CASE intent' # intent
  <2>1. intent.state = "UNWINDING"
    BY <1>2, SavesClaimable DEF Backward, Claimable
  <2>2. [Record!Next]_(Record!vars)
    BY RecordStep DEF Next
  <2> QED
    BY <2>1, <2>2
       DEF Backward, Record!vars, Record!Next, Record!Start, Record!Advance, Record!Wait,
           Record!Complete, Record!GiveUp, Record!Cancel, Record!Park, Record!Resume,
           Record!ForceUnwind, Record!Redeploy, Record!Working
<1> QED
  BY <1>1, <1>2

\* What a worker does other than claiming an intent and undoing a step of it.
LEMMA WorkUndoesNothing ==
    ASSUME IInv, NEW w \in Workers, WorkerStep(w) \/ Crash(w), ~claimDue(w),
           \A ok \in BOOLEAN : ~compensate(w, ok)
    PROVE  /\ \A s \in Steps : effect'[s] = "undone" => effect[s] = "undone"
           /\ \A v \in Workers : at'[v] = "unwind" => at[v] = "unwind"
<1>0. TypeOK
  BY DEF IInv
<1>1. ASSUME NEW s, MayDo(s)
      PROVE  \A r \in Steps : effect'[r] = "undone" => effect[r] = "undone"
  BY <1>0, <1>1 DEF MayDo, Does, TypeOK
<1>2. ASSUME NEW patched, NEW place, NEW dueNow, persist(w, patched, place, dueNow),
             place # "unwind"
      PROVE  /\ UNCHANGED effect
             /\ \A v \in Workers : at'[v] = "unwind" => at[v] = "unwind"
  BY <1>0, <1>2 DEF persist, TypeOK
<1>3. \A k : LoopHead(k) # "unwind"
  BY DEF LoopHead
<1>4. CASE start(w) \/ complete(w) \/ parkUnresolved(w) \/ cancel(w)
  BY <1>2, <1>3, <1>4 DEF start, complete, parkUnresolved, park, cancel
<1>5. CASE applyResult(w)
  <2>1. PICK patched, place, dueNow :
             persist(w, patched, place, dueNow) /\ place \in {"release", LoopHead(MyStep(w))}
    BY <1>5 DEF applyResult, park
  <2>2. place # "unwind"
    BY <1>3, <2>1
  <2> QED
    BY <1>2, <2>1, <2>2
<1>6. ASSUME NEW r, run(w, r)
      PROVE  /\ \A s \in Steps : effect'[s] = "undone" => effect[s] = "undone"
             /\ \A v \in Workers : at'[v] = "unwind" => at[v] = "unwind"
  <2>1. MayDo(MyStep(w))
    <3>1. CASE r = "ADVANCE"
      BY <1>6, <3>1 DEF run, MayDo
    <3>2. CASE r \in {"MANUAL", "AMBIGUOUS"}
      BY <1>6, <3>2 DEF run, MayDo
    <3>3. CASE r \notin {"ADVANCE", "MANUAL", "AMBIGUOUS"}
      BY <1>6, <3>3 DEF run, MayDo
    <3> QED
      BY <3>1, <3>2, <3>3
  <2>2. \E place \in {"apply", "resolve", "park"} : at' = [at EXCEPT ![w] = place]
    BY <1>6 DEF run
  <2> QED
    BY <1>0, <1>1, <2>1, <2>2 DEF TypeOK
<1>7. ASSUME NEW r, resolve(w, r) \/ recoverInFlight(w, r)
      PROVE  /\ UNCHANGED effect
             /\ \A v \in Workers : at'[v] = "unwind" => at[v] = "unwind"
  BY <1>0, <1>7 DEF resolve, recoverInFlight, TypeOK
<1>8. CASE findInFlightAttempt(w) \/ beginAttempt(w) \/ releaseLease(w)
  BY <1>0, <1>8 DEF findInFlightAttempt, beginAttempt, releaseLease, Forgets, TypeOK
<1>9. CASE Crash(w)
  <2>1. MayDo(MyStep(w)) /\ at' = [at EXCEPT ![w] = "idle"]
    BY <1>9 DEF Crash, Forgets, MayDo
  <2> QED
    BY <1>0, <1>1, <2>1 DEF TypeOK
<1> QED
  BY <1>4, <1>5, <1>6, <1>7, <1>8, <1>9 DEF WorkerStep

\* An unwind begins with the claim of an intent that is unwinding.
LEMMA UnwindBegins ==
    ASSUME IInv, NEW w \in Workers, WorkerStep(w) \/ Crash(w), UnwindBegun', ~UnwindBegun
    PROVE  intent.state = "UNWINDING" /\ intent' = intent
<1>0. TypeOK /\ at[w] # "unwind"
  BY DEF IInv, UnwindBegun
<1>1. \A ok \in BOOLEAN : ~compensate(w, ok)
  BY <1>0 DEF compensate
<1>2. claimDue(w)
  BY <1>1, WorkUndoesNothing DEF UnwindBegun
<1>3. UNCHANGED <<intent, effect>> /\ at' = [at EXCEPT ![w] = Entry(intent)]
  BY <1>2 DEF claimDue
<1>4. Entry(intent) = "unwind"
  BY <1>0, <1>3 DEF UnwindBegun, TypeOK
<1> QED
  BY <1>3, <1>4 DEF Entry, LoopHead

LEMMA WayBackStep ==
    ASSUME IInv, WayBack, [Next]_vars
    PROVE  WayBack'
<1>0. TypeOK
  BY DEF IInv
<1>1. ASSUME NEW w \in Workers, WorkerStep(w) \/ Crash(w)
      PROVE  WayBack'
  <2>1. spent'.reopened = spent.reopened
    BY <1>1, WorkerMoves DEF Moves
  <2>2. CASE UnwindBegun' /\ ~UnwindBegun
    BY <1>1, <2>2, UnwindBegins DEF WayBack, Backward
  <2>3. CASE UnwindBegun /\ ~spent.reopened
    <3>1. intent.state \in Backward
      BY <2>3 DEF WayBack
    <3>2. intent'.state \in Backward
      BY <1>1, <3>1, WorkerKeepsBackward DEF Crash, storeVars
    <3> QED
      BY <3>2 DEF WayBack
  <2> QED
    BY <2>1, <2>2, <2>3 DEF WayBack
<1>2. CASE operatorResume
  <2>1. spent'.reopened = (spent.reopened \/ UnwindBegun)
    BY <1>0, <1>2 DEF operatorResume, OperatorSaves, TypeOK
  <2>2. UnwindBegun' = UnwindBegun
    BY <1>2 DEF operatorResume, OperatorSaves, workerVars, UnwindBegun
  <2> QED
    BY <2>1, <2>2 DEF WayBack
<1>3. CASE operatorUnwind
  <2>1. intent'.state = "UNWINDING"
    BY <1>0, <1>3 DEF operatorUnwind, OperatorSaves, TypeOK, Intent
  <2> QED
    BY <2>1 DEF WayBack, Backward
<1>4. CASE \/ LeaseExpires \/ Wake \/ (\E s \in Removable : Redeploy(s)) \/ UNCHANGED vars
  <2>1. UNCHANGED <<intent, effect, at>> /\ spent'.reopened = spent.reopened
    BY <1>0, <1>4 DEF LeaseExpires, Wake, Redeploy, vars, storeVars, workerVars, TypeOK
  <2> QED
    BY <2>1 DEF WayBack, UnwindBegun
<1> QED
  BY <1>1, <1>2, <1>3, <1>4 DEF Next

\* A completed intent has done every step of its saga and undone none, whatever
\* steps a release has removed and whoever was unwinding it, unless an operator
\* has resumed it after its unwind had begun (drive, UNKNOWN_STAGE, unwind).
THEOREM CompletedDone == Spec => []CompletedMeansDone
<1>1. Init => WayBack
  BY DEF Init, WayBack, UnwindBegun
<1>2. IInv /\ WayBack => CompletedMeansDone
  <2> SUFFICES ASSUME IInv, WayBack, intent.state = "COMPLETED", NEW s \in saga
               PROVE  effect[s] = "done" \/ (effect[s] = "undone" /\ spent.reopened)
    BY DEF CompletedMeansDone
  <2>1. Remaining(intent.stage) = {} /\ Behind(intent.stage)
    BY DEF IInv, Covered
  <2>2. /\ s \in Steps /\ s \in Nat /\ intent.stage \in Nat
        /\ s \notin Remaining(intent.stage)
    BY <2>1, RunnerAssumption DEF IInv, TypeOK, Intent, Steps
  <2>3. s <= intent.stage
    BY <2>2 DEF Remaining
  <2>4. effect[s] \in {"done", "undone"}
    BY <2>1, <2>2, <2>3 DEF Behind, IInv, TypeOK
  <2>5. effect[s] = "undone" => spent.reopened
    BY <2>2 DEF WayBack, UnwindBegun, Backward
  <2> QED
    BY <2>4, <2>5
<1> QED
  BY <1>1, <1>2, WayBackStep, InitInv, StepInv, PTL DEF Spec

=============================================================================
