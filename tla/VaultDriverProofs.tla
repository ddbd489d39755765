------------------------- MODULE VaultDriverProofs -------------------------
(***************************************************************************)
(* What holds of the vault driver for every deal, however its ticks        *)
(* overlap, break off and act on mandates that have changed since.         *)
(***************************************************************************)
EXTENDS VaultDriver, FiniteSetTheorems, TLAPS

-----------------------------------------------------------------------------
(* The phases.                                                             *)

LEMMA PhasesAre ==
  Phases = {"Scheduled", "Funding", "Sealed", "Sourcing", "Sourced", "Deployed",
            "Live", "Realized", "Claimable", "Winding", "Concluded", "Cancelled"}
BY DEF Phases, PHASE_TRANSITIONS

LEMMA TransitionsAre ==
  /\ PHASE_TRANSITIONS["Scheduled"] = {"Funding", "Cancelled"}
  /\ PHASE_TRANSITIONS["Funding"]   = {"Sealed", "Cancelled"}
  /\ PHASE_TRANSITIONS["Sealed"]    = {"Sourcing", "Cancelled"}
  /\ PHASE_TRANSITIONS["Sourcing"]  = {"Sourced", "Cancelled"}
  /\ PHASE_TRANSITIONS["Sourced"]   = {"Deployed", "Cancelled"}
  /\ PHASE_TRANSITIONS["Deployed"]  = {"Live"}
  /\ PHASE_TRANSITIONS["Live"]      = {"Realized"}
  /\ PHASE_TRANSITIONS["Realized"]  = {"Claimable"}
  /\ PHASE_TRANSITIONS["Claimable"] = {"Winding", "Concluded"}
  /\ PHASE_TRANSITIONS["Winding"]   = {"Concluded"}
  /\ PHASE_TRANSITIONS["Concluded"] = {}
  /\ PHASE_TRANSITIONS["Cancelled"] = {}
BY DEF PHASE_TRANSITIONS

\* Each phase follows one other or, at the end, two.
LEMMA FromAre ==
  /\ From("Sourced") = {"Sourcing"}
  /\ From("Deployed") = {"Sourced"}
  /\ From("Live") = {"Deployed"}
  /\ From("Realized") = {"Live"}
  /\ From("Claimable") = {"Realized"}
  /\ From("Winding") = {"Claimable"}
  /\ From("Concluded") = {"Claimable", "Winding"}
  /\ \A to \in {"Funding", "Sealed", "Sourcing", "Cancelled"} :
        From(to) \cap Invested = {}
BY PhasesAre, TransitionsAre DEF From, Invested

-----------------------------------------------------------------------------
(* The invariant.  A tick that is about to tell the chain of an event has  *)
(* seen the event, and events are not undone; that is why what it read of  *)
(* the mandate may be stale and what it does to the chain still justified. *)

VaultType == [phase : Phases, usdc : Nat, deposits : Nat, deployed : Nat,
              delivered : Nat, electing : BOOLEAN]
IpoType   == [status : {"None", "SUBMITTED", "ACCEPTED", "REJECTED",
                        "UNSUCCESSFUL", "ALLOCATED"}, allocated : Nat]
MandateType == [state : {"ACTIVE", "NEEDS_MANUAL"}, phase : Phases,
                requested : Phases \cup {"None"}, facts : SUBSET Facts]
TickType  == [at : Places, phase : Phases, target : Phases \cup {"None"},
              facts : SUBSET Facts, stale : BOOLEAN]
Status    == {"None", "PENDING", "SETTLED", "FAILED"}

WorldTypes ==
    /\ vault \in VaultType
    /\ ipo \in IpoType
    /\ custody \in BOOLEAN
    /\ crossing \in Status
    /\ wire \in Status
    /\ repatriation \in Status
    /\ sale \in {"None", "NEW", "FILLED", "EXPIRED", "REJECTED"}

DriverTypes ==
    /\ subscription \in {"None", "due", "booked", "parked"}
    /\ redemption \in {"None", "due", "booked"}
    /\ mandate \in MandateType
    /\ tick \in [Workers -> TickType]
    /\ deal \in Deals
    /\ spent \in [overlaps : Nat, crashes : Nat]

\* Shares are delivered out of an allocation.
Delivered ==
    /\ vault.delivered <= ipo.allocated
    /\ vault.delivered > 0 => ipo.status = "ALLOCATED"

\* What a tick has seen by the time it is at a place.
Seeing(t) ==
    /\ t.at = "list" => ipo.status = "ALLOCATED" /\ custody
    /\ t.at = "realize" =>
          sale = "FILLED" /\ ~vault.electing /\ vault.phase \in Invested
    /\ t.at = "settle" => repatriation = "SETTLED"
    /\ t.target = "None" => t.at \in {"idle", "head"}
    /\ t.target = "Realized" /\ t.at \notin {"idle", "head"} => vault.phase \in Invested

IInv ==
    /\ WorldTypes
    /\ DriverTypes
    /\ Delivered
    /\ PhaseFollowsFact
    /\ \A w \in Workers : Seeing(tick[w])

\* Events are not undone.
NothingUndone ==
    /\ ipo.status \in {"ACCEPTED", "ALLOCATED", "UNSUCCESSFUL"} =>
          ipo'.status \in {"ACCEPTED", "ALLOCATED", "UNSUCCESSFUL"}
    /\ ipo.status = "ALLOCATED" => ipo' = ipo
    /\ custody => custody'
    /\ sale = "FILLED" => sale' = "FILLED"
    /\ repatriation = "SETTLED" => repatriation' = "SETTLED"
    /\ vault.phase \in Invested =>
          vault'.phase \in Invested /\ (~vault.electing => ~vault'.electing)

\* A tick that stays at its place goes on seeing what it saw.
LEMMA SeeingStays ==
  ASSUME NothingUndone, NEW t, NEW u, Seeing(t),
         u.at = t.at \/ u.at = "idle", u.target = t.target \/ u.at = "idle"
  PROVE  Seeing(u)'
BY DEF Seeing, NothingUndone

\* What remains to be shown of a step of worker w.
LEMMA StepOf ==
  ASSUME IInv, WorldTypes', DriverTypes', Delivered', PhaseFollowsFact', NothingUndone,
         NEW w \in Workers, Seeing(tick[w])',
         \A v \in Workers \ {w} :
            tick'[v].at = tick[v].at /\ tick'[v].target = tick[v].target
  PROVE  IInv'
<1>1. ASSUME NEW v \in Workers
      PROVE  Seeing(tick[v])'
  <2>1. CASE v = w
    BY <2>1
  <2>2. CASE v # w
    BY <2>2, SeeingStays DEF IInv
  <2> QED
    BY <2>1, <2>2
<1> QED
  BY <1>1 DEF IInv

\* A step that leaves the world alone undoes nothing in it.
LEMMA WorldStays ==
  ASSUME IInv, UNCHANGED worldVars
  PROVE  WorldTypes' /\ Delivered' /\ PhaseFollowsFact' /\ NothingUndone
BY DEF IInv, worldVars, WorldTypes, Delivered, PhaseFollowsFact, NothingUndone

-----------------------------------------------------------------------------
(* How a tick goes on.                                                     *)

\* The tick of w goes on at a place, or ends, and the others stay where they are.
Follows(w, place) ==
    /\ mandate' \in MandateType
    /\ tick' \in [Workers -> TickType]
    /\ \A v \in Workers \ {w} :
          tick'[v].at = tick[v].at /\ tick'[v].target = tick[v].target
    /\ \/ tick'[w].at = "idle" /\ tick'[w].target = "None"
       \/ tick'[w].at = place /\ tick'[w].target = tick[w].target

LEMMA IdleType == Idle \in TickType
BY PhasesAre DEF Idle, TickType, Places, Facts

LEMMA LearnFollows ==
  ASSUME DriverTypes, NEW w \in Workers, NEW place \in Places,
         NEW found \in SUBSET Facts, Learn(w, place, found)
  PROVE  Follows(w, place) /\ tick'[w].at = place
<1>1. tick[w] \in TickType
  BY DEF DriverTypes
<1> DEFINE t == [tick[w] EXCEPT !.at = place, !.facts = @ \cup found]
<1>2. t \in TickType /\ t.at = place /\ t.target = tick[w].target
  BY <1>1 DEF TickType
<1>3. tick' = [tick EXCEPT ![w] = t]
  BY DEF Learn, DriverTypes
<1> HIDE DEF t
<1> QED
  BY <1>2, <1>3 DEF Learn, Follows, DriverTypes

LEMMA GotoFollows ==
  ASSUME DriverTypes, NEW w \in Workers, NEW place \in Places, Goto(w, place)
  PROVE  Follows(w, place) /\ tick'[w].at = place
<1>1. tick[w] \in TickType
  BY DEF DriverTypes
<1> DEFINE t == [tick[w] EXCEPT !.at = place]
<1>2. t \in TickType /\ t.at = place /\ t.target = tick[w].target
  BY <1>1 DEF TickType
<1>3. tick' = [tick EXCEPT ![w] = t]
  BY DEF Goto, DriverTypes
<1> HIDE DEF t
<1> QED
  BY <1>2, <1>3 DEF Goto, Follows, DriverTypes

LEMMA ThrowFollows ==
  ASSUME DriverTypes, NEW w \in Workers, NEW place, Throw(w)
  PROVE  Follows(w, place) /\ tick'[w].at = "idle"
BY IdleType DEF Throw, Follows, DriverTypes, Idle

\* A save makes the copies of the others stale and moves none of them.
LEMMA OutdatedStays ==
  ASSUME DriverTypes, NEW w \in Workers
  PROVE  /\ Outdated(w) \in [Workers -> TickType]
         /\ Outdated(w)[w] = tick[w]
         /\ \A v \in Workers : /\ Outdated(w)[v].at = tick[v].at
                               /\ Outdated(w)[v].target = tick[v].target
<1>1. ASSUME NEW v \in Workers
      PROVE  /\ Outdated(w)[v] \in TickType
             /\ Outdated(w)[v].at = tick[v].at
             /\ Outdated(w)[v].target = tick[v].target
             /\ v = w => Outdated(w)[v] = tick[v]
  <2>1. tick[v] \in TickType
    BY DEF DriverTypes
  <2>2. /\ [tick[v] EXCEPT !.stale = TRUE] \in TickType
        /\ [tick[v] EXCEPT !.stale = TRUE].at = tick[v].at
        /\ [tick[v] EXCEPT !.stale = TRUE].target = tick[v].target
    BY <2>1 DEF TickType
  <2> QED
    BY <2>1, <2>2 DEF Outdated
<1> QED
  BY <1>1 DEF Outdated

LEMMA SaveFollows ==
  ASSUME DriverTypes, NEW w \in Workers, NEW place, NEW saved \in MandateType, SaveAndEnd(w, saved)
  PROVE  Follows(w, place) /\ tick'[w].at = "idle"
<1>1. CASE tick[w].stale
  BY <1>1, ThrowFollows DEF SaveAndEnd
<1>2. CASE ~tick[w].stale
  <2>1. mandate' = saved /\ tick' = [Outdated(w) EXCEPT ![w] = Idle]
    BY <1>2 DEF SaveAndEnd
  <2> QED
    BY <2>1, OutdatedStays, IdleType DEF Follows, Idle
<1> QED
  BY <1>1, <1>2

LEMMA StopFollows ==
  ASSUME DriverTypes, NEW w \in Workers, NEW place, wait(w) \/ park(w)
  PROVE  Follows(w, place) /\ tick'[w].at = "idle"
<1>1. mandate \in MandateType /\ [mandate EXCEPT !.state = "NEEDS_MANUAL"] \in MandateType
  BY DEF DriverTypes, MandateType
<1> QED
  BY <1>1, SaveFollows DEF wait, park

\* A transition of the chain, as a tick sees it.
LEMMA SubmitFollows ==
  ASSUME DriverTypes, NEW w \in Workers, NEW to, NEW after, NEW place \in Places,
         NEW found \in SUBSET Facts, Submit(w, to, after, place, found)
  PROVE  /\ Follows(w, place)
         /\ \/ UNCHANGED vault
            \/ vault.phase \in From(to) /\ vault' = after
BY LearnFollows, ThrowFollows DEF Submit, Places

-----------------------------------------------------------------------------
(* The steps of a tick.                                                    *)

\* A step of a tick that leaves the world alone and goes to a place where
\* nothing need have been seen, or whose event is there.
LEMMA TickGoesOn ==
  ASSUME IInv, UNCHANGED <<worldVars, intentVars, deal, spent>>,
         NEW w \in Workers, NEW place, Follows(w, place),
         tick[w].at # "head" \/ place = "idle", tick[w].at # "idle",
         place = "list" => ipo.status = "ALLOCATED" /\ custody,
         place = "realize" =>
            sale = "FILLED" /\ ~vault.electing /\ vault.phase \in Invested,
         place = "settle" => repatriation = "SETTLED"
  PROVE  IInv'
<1>1. WorldTypes' /\ Delivered' /\ PhaseFollowsFact' /\ NothingUndone
  BY WorldStays
<1>2. DriverTypes'
  BY DEF IInv, DriverTypes, Follows, intentVars
<1>3. Seeing(tick[w])'
  <2>1. Seeing(tick[w])
    BY DEF IInv
  <2> QED
    BY <2>1 DEF Seeing, Follows, worldVars
<1> QED
  BY <1>1, <1>2, <1>3, StepOf DEF Follows

\* A step of a tick that may move the chain, once the chain is shown to follow
\* the events.
LEMMA TickMovesVault ==
  ASSUME IInv, UNCHANGED <<ipo, custody, crossing, wire, sale, repatriation>>,
         UNCHANGED <<intentVars, deal, spent>>,
         NEW w \in Workers, NEW place \in {"save", "book", "convert"}, Follows(w, place),
         tick[w].at \notin {"idle", "head"},
         vault' \in VaultType, vault'.delivered = vault.delivered,
         PhaseFollowsFact',
         vault.phase \in Invested =>
            vault'.phase \in Invested /\ (~vault.electing => ~vault'.electing)
  PROVE  IInv'
<1>1. WorldTypes' /\ Delivered' /\ NothingUndone
  BY DEF IInv, WorldTypes, Delivered, NothingUndone
<1>2. DriverTypes'
  BY DEF IInv, DriverTypes, Follows, intentVars
<1>3. Seeing(tick[w])'
  <2>1. Seeing(tick[w])
    BY DEF IInv
  <2> QED
    BY <2>1 DEF Seeing, Follows
<1> QED
  BY <1>1, <1>2, <1>3, StepOf DEF Follows

\* A transition that is refused, or was made already, leaves the chain alone.
LEMMA TickLeavesVault ==
  ASSUME IInv, UNCHANGED <<worldVars, intentVars, deal, spent>>,
         NEW w \in Workers, NEW place \in {"save", "book", "convert"}, Follows(w, place),
         tick[w].at \notin {"idle", "head"}
  PROVE  IInv'
BY TickGoesOn

LEMMA SyncKeeps ==
  ASSUME IInv, deal' = deal, NEW w \in Workers, sync(w)
  PROVE  IInv'
<1>1. /\ tick[w] \in TickType /\ vault \in VaultType /\ mandate \in MandateType
      /\ DriverTypes
  BY DEF IInv, DriverTypes, WorldTypes
<1>2. vault.phase \in Phases
  BY <1>1 DEF VaultType
<1> DEFINE synced == [mandate EXCEPT !.phase = vault.phase]
<1>3. synced \in MandateType /\ [synced EXCEPT !.state = "NEEDS_MANUAL"] \in MandateType
  BY <1>1, <1>2 DEF MandateType
<1> HIDE DEF synced
<1>4. WorldTypes' /\ Delivered' /\ PhaseFollowsFact' /\ NothingUndone
  BY WorldStays DEF sync
<1>5. tick[w].at = "head" /\ UNCHANGED <<worldVars, intentVars, spent>>
  BY DEF sync, At
<1>6. ASSUME Follows(w, "idle"), tick'[w].at = "idle"
      PROVE  IInv'
  BY <1>5, <1>6, TickGoesOn
<1>7. ASSUME Follows(w, "run"), tick'[w].at = "run",
             tick[w].target # "None",
             tick[w].target \in PHASE_TRANSITIONS[vault.phase] \cup {vault.phase}
      PROVE  IInv'
  <2>1. DriverTypes'
    BY <1>5, <1>7, <1>1 DEF DriverTypes, Follows, intentVars
  <2>2. tick'[w].target = tick[w].target
    BY <1>7 DEF Follows
  <2>3. tick[w].target = "Realized" => vault.phase \in Invested
    BY <1>2, <1>7, PhasesAre, TransitionsAre DEF Invested
  <2>4. Seeing(tick[w])'
    BY <1>5, <1>7, <2>2, <2>3 DEF Seeing, worldVars
  <2> QED
    BY <1>4, <1>7, <2>1, <2>4, StepOf DEF Follows
<1>8. CASE vault.phase # tick[w].phase /\ tick[w].stale
  <2>1. Throw(w)
    BY <1>8 DEF sync
  <2> QED
    BY <2>1, <1>1, <1>6, ThrowFollows
<1>9. CASE ~(vault.phase # tick[w].phase /\ tick[w].stale)
  <2>1. CASE tick[w].target = "None"
    <3>1. SaveAndEnd(w, synced)
      BY <1>9, <2>1 DEF sync, synced
    <3> QED
      BY <3>1, <1>1, <1>3, <1>6, SaveFollows
  <2>2. CASE /\ tick[w].target # "None"
             /\ tick[w].target \in PHASE_TRANSITIONS[vault.phase] \cup {vault.phase}
    <3>1. CASE vault.phase = tick[w].phase
      <4>1. Goto(w, "run")
        BY <1>9, <2>2, <3>1 DEF sync
      <4> QED
        BY <4>1, <2>2, <1>1, <1>7, GotoFollows DEF Places
    <3>2. CASE vault.phase # tick[w].phase
      <4>1. /\ mandate' = synced
            /\ tick' = [Outdated(w) EXCEPT ![w].at = "run", ![w].phase = vault.phase]
        BY <1>9, <2>2, <3>2 DEF sync, synced
      <4> DEFINE t == [tick[w] EXCEPT !.at = "run", !.phase = vault.phase]
      <4>2. t \in TickType /\ t.at = "run" /\ t.target = tick[w].target
        BY <1>1, <1>2 DEF TickType, Places
      <4>3. tick' = [Outdated(w) EXCEPT ![w] = t]
        BY <1>1, <4>1, OutdatedStays
      <4> HIDE DEF t
      <4>4. /\ tick' \in [Workers -> TickType]
            /\ tick'[w] = t
            /\ \A v \in Workers \ {w} : tick'[v] = Outdated(w)[v]
        BY <1>1, <4>2, <4>3, OutdatedStays
      <4>5. Follows(w, "run") /\ tick'[w].at = "run"
        BY <1>1, <1>3, <4>1, <4>2, <4>4, OutdatedStays DEF Follows
      <4> QED
        BY <4>5, <2>2, <1>7
    <3> QED
      BY <3>1, <3>2
  <2>3. CASE /\ tick[w].target # "None"
             /\ tick[w].target \notin PHASE_TRANSITIONS[vault.phase] \cup {vault.phase}
    <3>1. SaveAndEnd(w, [synced EXCEPT !.state = "NEEDS_MANUAL"])
      BY <1>9, <2>3 DEF sync, synced
    <3> QED
      BY <3>1, <1>1, <1>3, <1>6, SaveFollows
  <2> QED
    BY <2>1, <2>2, <2>3
<1> QED
  BY <1>8, <1>9

LEMMA AdvanceKeeps ==
  ASSUME IInv, deal' = deal, NEW w \in Workers, advance(w)
  PROVE  IInv'
<1>1. tick[w] \in TickType /\ mandate \in MandateType /\ DriverTypes /\ tick[w].at = "save"
  BY DEF IInv, DriverTypes, advance, At
<1>2. tick[w].target \in Phases
  BY <1>1 DEF IInv, Seeing, TickType
<1>3. [mandate EXCEPT !.phase     = tick[w].target,
                      !.requested = "None",
                      !.facts     = @ \cup tick[w].facts] \in MandateType
  BY <1>1, <1>2 DEF MandateType, TickType
<1>4. Follows(w, "idle")
  BY <1>1, <1>3, SaveFollows DEF advance
<1> QED
  BY <1>1, <1>4, TickGoesOn DEF advance

LEMMA CrashKeeps ==
  ASSUME IInv, deal' = deal, NEW w \in Workers, crash(w)
  PROVE  IInv'
<1>1. WorldTypes' /\ Delivered' /\ PhaseFollowsFact' /\ NothingUndone
  BY WorldStays DEF crash
<1>2. DriverTypes /\ Throw(w) /\ UNCHANGED intentVars
  BY DEF IInv, crash
<1>3. Follows(w, "idle") /\ tick'[w].at = "idle" /\ tick'[w].target = "None"
  BY <1>2, ThrowFollows, IdleType DEF Throw, Idle, DriverTypes
<1>4. spent' \in [overlaps : Nat, crashes : Nat]
  BY <1>2 DEF crash, DriverTypes
<1>5. DriverTypes'
  BY <1>2, <1>3, <1>4 DEF DriverTypes, Follows, intentVars
<1>6. Seeing(tick[w])'
  BY <1>3 DEF Seeing
<1> QED
  BY <1>1, <1>3, <1>5, <1>6, StepOf DEF Follows

\* The transition of the chain that is made when a tick submits one.
LEMMA SubmitKeeps ==
  ASSUME IInv, UNCHANGED <<ipo, custody, crossing, wire, sale, repatriation>>,
         UNCHANGED <<intentVars, deal, spent>>,
         NEW w \in Workers, tick[w].at \notin {"idle", "head"},
         NEW to \in Phases, NEW after \in VaultType,
         NEW place \in {"save", "book"}, NEW found \in SUBSET Facts,
         Submit(w, to, after, place, found),
         after.phase = to, after.delivered = vault.delivered,
         vault.phase \in From(to) =>
            /\ vault.phase \in Invested =>
                  to \in Invested /\ after.electing = vault.electing
            /\ to \in {"Sourced", "Deployed"} \cup Invested =>
                  ipo.status \in {"ACCEPTED", "ALLOCATED", "UNSUCCESSFUL"}
            /\ to \in Invested => ipo.status = "ALLOCATED" /\ custody
            /\ to \in Invested \ {"Live"} => sale = "FILLED" /\ ~after.electing
            /\ to \in Invested \ {"Live", "Realized"} => repatriation = "SETTLED"
  PROVE  IInv'
<1>1. DriverTypes /\ WorldTypes /\ PhaseFollowsFact
  BY DEF IInv
<1>2. /\ Follows(w, place)
      /\ UNCHANGED vault \/ (vault.phase \in From(to) /\ vault' = after)
  <2>1. place \in Places
    BY DEF Places
  <2> QED
    BY <1>1, <2>1, SubmitFollows
<1>3. CASE UNCHANGED vault
  <2>1. UNCHANGED worldVars
    BY <1>3 DEF worldVars
  <2> QED
    BY <1>2, <2>1, TickLeavesVault
<1>4. CASE vault.phase \in From(to) /\ vault' = after
  <2>1. PhaseFollowsFact'
    BY <1>4 DEF PhaseFollowsFact
  <2>2. vault' \in VaultType /\ vault'.delivered = vault.delivered
    BY <1>4
  <2>3. vault.phase \in Invested =>
           vault'.phase \in Invested /\ (~vault.electing => ~vault'.electing)
    BY <1>4
  <2> QED
    BY <1>2, <2>1, <2>2, <2>3, TickMovesVault
<1> QED
  BY <1>2, <1>3, <1>4

LEMMA IntoType ==
  ASSUME WorldTypes, NEW to \in Phases
  PROVE  /\ Into(to) \in VaultType
         /\ Into(to).phase = to /\ Into(to).delivered = vault.delivered
         /\ Into(to).electing = vault.electing
BY DEF WorldTypes, VaultType, Into

-----------------------------------------------------------------------------
(* The handlers.                                                           *)

LEMMA SimpleKeeps ==
  ASSUME IInv, deal' = deal, NEW w \in Workers, NEW to \in Phases, simple(w, to)
  PROVE  IInv'
<1>0. WorldTypes /\ DriverTypes /\ tick[w] \in TickType
  BY DEF IInv, DriverTypes

<1>1. /\ UNCHANGED <<ipo, custody, crossing, wire, sale, repatriation>>
      /\ UNCHANGED <<intentVars, ledger, spent>>
      /\ tick[w].at = "run"
      /\ to \in {"Funding", "Sealed", "Sourcing", "Winding", "Concluded", "Cancelled"}
  BY DEF simple, Handling, At
<1>2. CASE Submit(w, to, Into(to), "save", {})
  <2>1. vault.phase \in Invested /\ vault.phase \in From(to) => to \in Invested
    BY <1>1, FromAre DEF Invested
  <2>2. CASE to \in {"Funding", "Sealed", "Sourcing", "Cancelled"}
    <3>1. to \notin {"Sourced", "Deployed"} \cup Invested
      BY <2>2 DEF Invested
    <3> QED
      BY <1>0, <1>1, <1>2, <2>1, <3>1, IntoType, SubmitKeeps DEF Invested
  <2>3. CASE to \in {"Winding", "Concluded"}
    <3>1. vault.phase \in From(to) => vault.phase \in {"Claimable", "Winding"}
      BY <2>3, FromAre
    <3>2. vault.phase \in From(to) =>
             /\ ipo.status = "ALLOCATED" /\ custody
             /\ sale = "FILLED" /\ ~vault.electing
             /\ repatriation = "SETTLED"
      BY <3>1 DEF IInv, PhaseFollowsFact, Invested
    <3> QED
      BY <1>0, <1>1, <1>2, <2>1, <3>2, IntoType, SubmitKeeps
  <2> QED
    BY <1>1, <2>2, <2>3
<1>3. CASE (wait(w) \/ park(w)) /\ UNCHANGED vault
  <2>1. Follows(w, "idle")
    BY <1>0, <1>3, StopFollows
  <2>2. UNCHANGED worldVars
    BY <1>1, <1>3 DEF worldVars
  <2> QED
    BY <1>1, <2>1, <2>2, TickGoesOn
<1> QED
  BY <1>2, <1>3 DEF simple

LEMMA SourcedKeeps ==
  ASSUME IInv, deal' = deal, NEW w \in Workers, toSourced(w)
  PROVE  IInv'
<1>0. WorldTypes /\ DriverTypes /\ tick[w] \in TickType
  BY DEF IInv, DriverTypes

<1>1. /\ UNCHANGED <<ipo, custody, crossing, wire, sale, repatriation>>
      /\ UNCHANGED <<intentVars, ledger, spent>>
      /\ tick[w].at = "run"
  BY DEF toSourced, Handling, At
<1>2. CASE (wait(w) \/ park(w)) /\ UNCHANGED vault
  <2>1. Follows(w, "idle")
    BY <1>0, <1>2, StopFollows
  <2>2. UNCHANGED worldVars
    BY <1>1, <1>2 DEF worldVars
  <2> QED
    BY <1>1, <2>1, <2>2, TickGoesOn
<1>3. ASSUME ipo.status \in {"ACCEPTED", "ALLOCATED"},
             NEW found \in SUBSET Facts,
             Submit(w, "Sourced", Into("Sourced"), "save", found)
      PROVE  IInv'
  <2>1. "Sourced" \in Phases /\ "Sourced" \notin Invested /\ From("Sourced") \cap Invested = {}
    BY PhasesAre, FromAre DEF Invested
  <2> QED
    BY <1>0, <1>1, <1>3, <2>1, IntoType, SubmitKeeps
<1> QED
  BY <1>2, <1>3 DEF toSourced, Facts

LEMMA DeployKeeps ==
  ASSUME IInv, deal' = deal, NEW w \in Workers, deployCapital(w)
  PROVE  IInv'
<1>0. WorldTypes /\ DriverTypes /\ tick[w] \in TickType
  BY DEF IInv, DriverTypes

<1>1. /\ UNCHANGED <<ipo, custody, crossing, wire, sale, repatriation>>
      /\ UNCHANGED <<intentVars, ledger, spent>>
      /\ tick[w].at = "run"
  BY DEF deployCapital, Handling, At
<1>2. CASE vault.deployed = 0
  <2> DEFINE after == [Into("Deployed") EXCEPT !.usdc = 0, !.deployed = vault.deposits]
  <2>1. Submit(w, "Deployed", after, "book", {})
    BY <1>2 DEF deployCapital
  <2>2. "Deployed" \in Phases /\ "Deployed" \notin Invested /\ From("Deployed") \cap Invested = {}
    BY PhasesAre, FromAre DEF Invested
  <2>3. /\ after \in VaultType /\ after.phase = "Deployed"
        /\ after.delivered = vault.delivered /\ after.electing = vault.electing
    BY <1>0, <2>2 DEF WorldTypes, VaultType, Into
  <2> HIDE DEF after
  <2>4. vault.phase \in From("Deployed") =>
           ipo.status \in {"ACCEPTED", "ALLOCATED", "UNSUCCESSFUL"}
    BY FromAre DEF IInv, PhaseFollowsFact
  <2> QED
    BY <1>1, <2>1, <2>2, <2>3, <2>4, SubmitKeeps
<1>3. CASE vault.deployed # 0
  <2>1. Goto(w, "convert") /\ UNCHANGED vault
    BY <1>3 DEF deployCapital
  <2>2. Follows(w, "convert") /\ UNCHANGED worldVars
    BY <1>0, <1>1, <2>1, GotoFollows DEF Places, worldVars
  <2> QED
    BY <1>1, <2>2, TickLeavesVault
<1> QED
  BY <1>2, <1>3

LEMMA BookDeployedKeeps ==
  ASSUME IInv, deal' = deal, NEW w \in Workers, bookDeployed(w)
  PROVE  IInv'
<1>0. WorldTypes /\ DriverTypes /\ tick[w] \in TickType
  BY DEF IInv, DriverTypes
<1>1. UNCHANGED <<worldVars, intentVars, spent>> /\ tick[w].at \notin {"idle", "head"}
  BY DEF bookDeployed, Handling, At
<1>2. Follows(w, "convert")
  BY <1>0, GotoFollows DEF bookDeployed, Places, Facts
<1> QED
  BY <1>1, <1>2, TickGoesOn

LEMMA BookRepatriatedKeeps ==
  ASSUME IInv, deal' = deal, NEW w \in Workers, bookRepatriated(w)
  PROVE  IInv'
<1>0. WorldTypes /\ DriverTypes /\ tick[w] \in TickType
  BY DEF IInv, DriverTypes
<1>1. UNCHANGED <<worldVars, intentVars, spent>> /\ tick[w].at \notin {"idle", "head"}
  BY DEF bookRepatriated, Handling, At
<1>2. Follows(w, "bookNet")
  BY <1>0, GotoFollows DEF bookRepatriated, Places, Facts
<1> QED
  BY <1>1, <1>2, TickGoesOn

LEMMA BookNetKeeps ==
  ASSUME IInv, deal' = deal, NEW w \in Workers, bookNet(w)
  PROVE  IInv'
<1>0. WorldTypes /\ DriverTypes /\ tick[w] \in TickType
  BY DEF IInv, DriverTypes
<1>1. UNCHANGED <<worldVars, intentVars, spent>> /\ tick[w].at \notin {"idle", "head"}
  BY DEF bookNet, Handling, At
<1>2. Follows(w, "save")
  BY <1>0, LearnFollows DEF bookNet, Places, Facts
<1> QED
  BY <1>1, <1>2, TickGoesOn

LEMMA ToLiveKeeps ==
  ASSUME IInv, deal' = deal, NEW w \in Workers, toLive(w)
  PROVE  IInv'
<1>0. WorldTypes /\ DriverTypes /\ tick[w] \in TickType
  BY DEF IInv, DriverTypes
<1>1. UNCHANGED <<worldVars, intentVars, spent>> /\ tick[w].at \notin {"idle", "head"}
  BY DEF toLive, Handling, At

<1>2. CASE wait(w) \/ park(w)
  BY <1>0, <1>1, <1>2, StopFollows, TickGoesOn
<1>3. CASE ipo.status = "ALLOCATED" /\ custody /\ Goto(w, "list")
  <2>1. Follows(w, "list")
    BY <1>0, <1>3, GotoFollows DEF Places
  <2> QED
    BY <1>1, <1>3, <2>1, TickGoesOn
<1> QED
  BY <1>2, <1>3 DEF toLive

LEMMA ToClaimableKeeps ==
  ASSUME IInv, deal' = deal, NEW w \in Workers, toClaimable(w)
  PROVE  IInv'
<1>0. WorldTypes /\ DriverTypes /\ tick[w] \in TickType
  BY DEF IInv, DriverTypes
<1>1. UNCHANGED <<worldVars, intentVars, spent>> /\ tick[w].at \notin {"idle", "head"}
  BY DEF toClaimable, Handling, At

<1>2. CASE wait(w) \/ park(w)
  BY <1>0, <1>1, <1>2, StopFollows, TickGoesOn
<1>3. CASE Goto(w, "send")
  <2>1. Follows(w, "send")
    BY <1>0, <1>3, GotoFollows DEF Places
  <2> QED
    BY <1>1, <2>1, TickGoesOn
<1>4. CASE repatriation = "SETTLED" /\ Goto(w, "settle")
  <2>1. Follows(w, "settle")
    BY <1>0, <1>4, GotoFollows DEF Places
  <2> QED
    BY <1>1, <1>4, <2>1, TickGoesOn
<1> QED
  BY <1>2, <1>3, <1>4 DEF toClaimable

LEMMA MarkListedKeeps ==
  ASSUME IInv, deal' = deal, NEW w \in Workers, markListed(w)
  PROVE  IInv'
<1>0. WorldTypes /\ DriverTypes /\ tick[w] \in TickType
  BY DEF IInv, DriverTypes

<1>1. /\ UNCHANGED <<ipo, custody, crossing, wire, sale, repatriation>>
      /\ UNCHANGED <<intentVars, ledger, spent>>
      /\ tick[w].at = "list"
  BY DEF markListed, Handling, At
<1> DEFINE after == [Into("Live") EXCEPT !.electing = TRUE]
<1>2. Submit(w, "Live", after, "save", {"allocatedQuantity", "listedTicker"})
  BY DEF markListed
<1>3. "Live" \in Phases /\ {"allocatedQuantity", "listedTicker"} \in SUBSET Facts
  BY PhasesAre DEF Facts
<1>4. after \in VaultType /\ after.phase = "Live" /\ after.delivered = vault.delivered
  BY <1>0, <1>3 DEF WorldTypes, VaultType, Into
<1> HIDE DEF after
<1>5. vault.phase \in From("Live") => vault.phase \notin Invested
  BY FromAre DEF Invested
<1>6. ipo.status = "ALLOCATED" /\ custody
  BY <1>1 DEF IInv, Seeing
<1> QED
  BY <1>1, <1>2, <1>3, <1>4, <1>5, <1>6, SubmitKeeps

LEMMA MarkRealizedKeeps ==
  ASSUME IInv, deal' = deal, NEW w \in Workers, markRealized(w)
  PROVE  IInv'
<1>0. WorldTypes /\ DriverTypes /\ tick[w] \in TickType
  BY DEF IInv, DriverTypes

<1>1. /\ UNCHANGED <<ipo, custody, crossing, wire, sale, repatriation>>
      /\ UNCHANGED <<intentVars, ledger, spent>>
      /\ tick[w].at = "realize"
  BY DEF markRealized, Handling, At
<1>2. Submit(w, "Realized", Into("Realized"), "save", {"grossProceedsHkd"})
  BY DEF markRealized
<1>3. "Realized" \in Phases /\ "Realized" \in Invested /\ {"grossProceedsHkd"} \in SUBSET Facts
  BY PhasesAre DEF Facts, Invested
<1>4. sale = "FILLED" /\ ~vault.electing /\ vault.phase \in Invested
  BY <1>1 DEF IInv, Seeing
<1>5. ipo.status = "ALLOCATED" /\ custody
  BY <1>4 DEF IInv, PhaseFollowsFact
<1> QED
  BY <1>0, <1>1, <1>2, <1>3, <1>4, <1>5, IntoType, SubmitKeeps

LEMMA SettleVaultKeeps ==
  ASSUME IInv, deal' = deal, NEW w \in Workers, settleVault(w)
  PROVE  IInv'
<1>0. WorldTypes /\ DriverTypes /\ tick[w] \in TickType
  BY DEF IInv, DriverTypes

<1>1. /\ UNCHANGED <<ipo, custody, crossing, wire, sale, repatriation>>
      /\ UNCHANGED <<intentVars, ledger, spent>>
      /\ tick[w].at = "settle"
  BY DEF settleVault, Handling, At
<1> DEFINE after == [Into("Claimable") EXCEPT !.usdc = @ + grossProceeds]
<1>2. PICK place \in {"save", "book"} : Submit(w, "Claimable", after, place, {})
  BY DEF settleVault
<1>3. "Claimable" \in Phases /\ "Claimable" \in Invested
  BY PhasesAre DEF Invested
<1>4. vault.usdc + grossProceeds \in Nat
  BY <1>0 DEF IInv, Delivered, WorldTypes, VaultType, IpoType, grossProceeds
<1>5. /\ after \in VaultType /\ after.phase = "Claimable"
      /\ after.delivered = vault.delivered /\ after.electing = vault.electing
  BY <1>0, <1>3, <1>4 DEF WorldTypes, VaultType, Into
<1> HIDE DEF after
<1>6. repatriation = "SETTLED"
  BY <1>1 DEF IInv, Seeing
<1>7. vault.phase \in From("Claimable") =>
         ipo.status = "ALLOCATED" /\ custody /\ sale = "FILLED" /\ ~vault.electing
  BY FromAre DEF IInv, PhaseFollowsFact, Invested
<1> QED
  BY <1>1, <1>2, <1>3, <1>5, <1>6, <1>7, SubmitKeeps

\* A step of a tick that asks a counterparty for something stays in the phase.
LEMMA TickAsks ==
  ASSUME IInv, UNCHANGED <<vault, custody, intentVars, mandate, deal, spent>>,
         NEW w \in Workers, tick[w].at \notin {"idle", "head"},
         NEW place \in Places \ {"list", "realize", "settle"},
         tick' = tick \/ Follows(w, place),
         WorldTypes', Delivered', NothingUndone,
         ipo'.status \in {"ACCEPTED", "ALLOCATED", "UNSUCCESSFUL"} => ipo' = ipo
  PROVE  IInv'
<1>1. PhaseFollowsFact'
  BY DEF IInv, PhaseFollowsFact, NothingUndone
<1>2. DriverTypes'
  BY DEF IInv, DriverTypes, intentVars, Follows
<1>3. Seeing(tick[w])'
  <2>1. Seeing(tick[w])
    BY DEF IInv
  <2>2. CASE tick' = tick
    BY <2>1, <2>2, SeeingStays
  <2>3. CASE Follows(w, place)
    BY <2>1, <2>3 DEF Seeing, Follows
  <2> QED
    BY <2>2, <2>3
<1> QED
  BY <1>1, <1>2, <1>3, StepOf DEF Follows

LEMMA SubscriptionKeeps ==
  ASSUME IInv, deal' = deal, NEW w \in Workers, placeIpoSubscription(w)
  PROVE  IInv'
<1>0. WorldTypes /\ DriverTypes /\ tick[w] \in TickType
  BY DEF IInv, DriverTypes

<1>1. /\ UNCHANGED <<vault, custody, crossing, wire, sale, repatriation>>
      /\ UNCHANGED <<intentVars, ledger, spent>>
      /\ tick[w].at = "run" /\ ipo.status = "None"
  BY DEF placeIpoSubscription, Handling, At
<1>2. CASE park(w) /\ UNCHANGED ipo
  <2>1. Follows(w, "idle")
    BY <1>0, <1>2, StopFollows
  <2>2. UNCHANGED worldVars
    BY <1>1, <1>2 DEF worldVars
  <2> QED
    BY <1>1, <2>1, <2>2, TickGoesOn
<1>3. ASSUME NEW status \in {"SUBMITTED", "REJECTED"},
             ipo' = [ipo EXCEPT !.status = status], UNCHANGED <<mandate, tick>>
      PROVE  IInv'
  <2>1. WorldTypes' /\ ipo'.allocated = ipo.allocated /\ ipo'.status = status
    BY <1>0, <1>1, <1>3 DEF WorldTypes, IpoType
  <2>2. Delivered' /\ NothingUndone
    BY <1>1, <1>3, <2>1 DEF IInv, Delivered, NothingUndone
  <2>3. PICK place \in Places : place = "run"
    BY DEF Places
  <2> QED
    BY <1>1, <1>3, <2>1, <2>2, <2>3, TickAsks
<1> QED
  BY <1>2, <1>3 DEF placeIpoSubscription, OrFault

LEMMA AwaitCrossingKeeps ==
  ASSUME IInv, deal' = deal, NEW w \in Workers, awaitCrossing(w)
  PROVE  IInv'
<1>0. WorldTypes /\ DriverTypes /\ tick[w] \in TickType
  BY DEF IInv, DriverTypes

<1>1. /\ UNCHANGED <<vault, ipo, custody, wire, sale, repatriation>>
      /\ UNCHANGED <<intentVars, spent>>
      /\ tick[w].at = "convert"
  BY DEF awaitCrossing, Handling, At
<1>2. CASE (wait(w) \/ park(w)) /\ UNCHANGED crossing
  <2>1. Follows(w, "idle") /\ UNCHANGED worldVars
    BY <1>0, <1>1, <1>2, StopFollows DEF worldVars
  <2> QED
    BY <1>1, <2>1, TickGoesOn
<1>3. CASE crossing = "None" /\ crossing' = "PENDING" /\ UNCHANGED <<mandate, tick>>
  <2>1. WorldTypes' /\ Delivered' /\ NothingUndone
    BY <1>0, <1>1, <1>3 DEF IInv, WorldTypes, Delivered, NothingUndone, Status
  <2>2. PICK place \in Places : place = "convert"
    BY DEF Places
  <2> QED
    BY <1>1, <1>3, <2>1, <2>2, TickAsks
<1>4. CASE Learn(w, "pay", {"convertedAmount"}) /\ UNCHANGED crossing
  <2>1. Follows(w, "pay") /\ UNCHANGED worldVars
    BY <1>0, <1>1, <1>4, LearnFollows DEF Places, Facts, worldVars
  <2> QED
    BY <1>1, <2>1, TickGoesOn
<1> QED
  BY <1>2, <1>3, <1>4 DEF awaitCrossing

LEMMA AwaitWireKeeps ==
  ASSUME IInv, deal' = deal, NEW w \in Workers, awaitWire(w)
  PROVE  IInv'
<1>0. WorldTypes /\ DriverTypes /\ tick[w] \in TickType
  BY DEF IInv, DriverTypes

<1>1. /\ UNCHANGED <<vault, ipo, custody, crossing, sale, repatriation>>
      /\ UNCHANGED <<intentVars, spent>>
      /\ tick[w].at = "pay"
  BY DEF awaitWire, Handling, At
<1>2. CASE (wait(w) \/ park(w)) /\ UNCHANGED wire
  <2>1. Follows(w, "idle") /\ UNCHANGED worldVars
    BY <1>0, <1>1, <1>2, StopFollows DEF worldVars
  <2> QED
    BY <1>1, <2>1, TickGoesOn
<1>3. CASE wire = "None" /\ wire' = "PENDING" /\ UNCHANGED <<mandate, tick>>
  <2>1. WorldTypes' /\ Delivered' /\ NothingUndone
    BY <1>0, <1>1, <1>3 DEF IInv, WorldTypes, Delivered, NothingUndone, Status
  <2>2. PICK place \in Places : place = "pay"
    BY DEF Places
  <2> QED
    BY <1>1, <1>3, <2>1, <2>2, TickAsks
<1>4. CASE Goto(w, "save") /\ UNCHANGED wire
  <2>1. Follows(w, "save") /\ UNCHANGED worldVars
    BY <1>0, <1>1, <1>4, GotoFollows DEF Places, Facts, worldVars
  <2> QED
    BY <1>1, <2>1, TickGoesOn
<1> QED
  BY <1>2, <1>3, <1>4 DEF awaitWire

LEMMA ToRealizedKeeps ==
  ASSUME IInv, deal' = deal, NEW w \in Workers, toRealized(w)
  PROVE  IInv'
<1>0. WorldTypes /\ DriverTypes /\ tick[w] \in TickType
  BY DEF IInv, DriverTypes

<1>1. /\ UNCHANGED <<vault, ipo, custody, crossing, wire, repatriation>>
      /\ UNCHANGED <<intentVars, ledger, spent>>
      /\ tick[w].at = "run" /\ tick[w].target = "Realized"
  BY DEF toRealized, Handling, At
<1>2. CASE (wait(w) \/ park(w)) /\ UNCHANGED sale
  <2>1. Follows(w, "idle") /\ UNCHANGED worldVars
    BY <1>0, <1>1, <1>2, StopFollows DEF worldVars
  <2> QED
    BY <1>1, <2>1, TickGoesOn
<1>3. CASE Goto(w, "save") /\ UNCHANGED sale
  <2>1. Follows(w, "save") /\ UNCHANGED worldVars
    BY <1>0, <1>1, <1>3, GotoFollows DEF Places, worldVars
  <2> QED
    BY <1>1, <2>1, TickGoesOn
<1>4. ASSUME NEW status \in {"NEW", "REJECTED"}, sale = "None", sale' = status,
             UNCHANGED <<mandate, tick>>
      PROVE  IInv'
  <2>1. WorldTypes' /\ Delivered' /\ NothingUndone
    BY <1>0, <1>1, <1>4 DEF IInv, WorldTypes, Delivered, NothingUndone
  <2>2. PICK place \in Places : place = "run"
    BY DEF Places
  <2> QED
    BY <1>1, <1>4, <2>1, <2>2, TickAsks
<1>5. CASE sale = "FILLED" /\ ~vault.electing /\ Goto(w, "realize") /\ UNCHANGED sale
  <2>1. Follows(w, "realize") /\ UNCHANGED worldVars
    BY <1>0, <1>1, <1>5, GotoFollows DEF Places, worldVars
  <2>2. vault.phase \in Invested
    BY <1>1 DEF IInv, Seeing
  <2> QED
    BY <1>1, <1>5, <2>1, <2>2, TickGoesOn
<1> QED
  BY <1>2, <1>3, <1>4, <1>5 DEF toRealized, OrFault

LEMMA SendHomeKeeps ==
  ASSUME IInv, deal' = deal, NEW w \in Workers, sendHome(w)
  PROVE  IInv'
<1>0. WorldTypes /\ DriverTypes /\ tick[w] \in TickType
  BY DEF IInv, DriverTypes

<1>1. /\ UNCHANGED <<vault, ipo, custody, crossing, wire, sale>>
      /\ UNCHANGED <<intentVars, ledger, spent>>
      /\ tick[w].at = "send" /\ Goto(w, "run")
      /\ repatriation' = IF repatriation = "None" THEN "PENDING" ELSE repatriation
  BY DEF sendHome, Handling, At
<1>2. Follows(w, "run")
  BY <1>0, <1>1, GotoFollows DEF Places
<1>3. WorldTypes' /\ Delivered' /\ NothingUndone
  BY <1>0, <1>1 DEF IInv, WorldTypes, Delivered, NothingUndone, Status
<1>4. DriverTypes'
  BY <1>0, <1>1, <1>2 DEF DriverTypes, intentVars, Follows
<1>5. PhaseFollowsFact'
  BY <1>1, <1>3 DEF IInv, PhaseFollowsFact, NothingUndone
<1>6. Seeing(tick[w])'
  <2>1. Seeing(tick[w])
    BY DEF IInv
  <2> QED
    BY <1>1, <1>2, <2>1 DEF Seeing, Follows
<1> QED
  BY <1>2, <1>3, <1>4, <1>5, <1>6, StepOf DEF Follows

LEMMA TickKeeps ==
  ASSUME IInv, deal' = deal, NEW w \in Workers, Tick(w)
  PROVE  IInv'
BY SyncKeeps, AdvanceKeeps, CrashKeeps, SimpleKeeps, SubscriptionKeeps, SourcedKeeps,
   DeployKeeps, BookDeployedKeeps, AwaitCrossingKeeps, AwaitWireKeeps, ToLiveKeeps,
   MarkListedKeeps, ToRealizedKeeps, MarkRealizedKeeps, ToClaimableKeeps,
   SendHomeKeeps, SettleVaultKeeps, BookRepatriatedKeeps, BookNetKeeps
   DEF Tick

-----------------------------------------------------------------------------
(* The steps that begin a tick.                                            *)

LEMMA BeginsTyped ==
  ASSUME DriverTypes, NEW w \in Workers, MayBegin(w)
  PROVE  spent' \in [overlaps : Nat, crashes : Nat]
<1> DEFINE others == {v \in Workers : tick[v].at # "idle"}
<1>1. IsFiniteSet({"loop"} \cup {"request"})
  <2>1. IsFiniteSet({} \cup {"loop"})
    BY FS_EmptySet, FS_AddElement
  <2>2. {} \cup {"loop"} = {"loop"}
    OBVIOUS
  <2> QED
    BY <2>1, <2>2, FS_AddElement
<1>2. Workers = {"loop"} \cup {"request"}
  BY DEF Workers
<1>3. Cardinality(others) \in Nat
  BY <1>1, <1>2, FS_Subset, FS_CardinalityType
<1>4. spent' = [spent EXCEPT !.overlaps = @ + Cardinality(others)]
  BY DEF MayBegin
<1> HIDE DEF others
<1>5. spent.overlaps + Cardinality(others) \in Nat
  BY <1>3 DEF DriverTypes
<1> QED
  BY <1>4, <1>5 DEF DriverTypes

\* A tick begins with what it reads of the mandate.
LEMMA BeginKeeps ==
  ASSUME IInv, UNCHANGED <<worldVars, intentVars, deal>>, NEW w \in Workers, MayBegin(w),
         NEW target \in Phases \cup {"None"}, mandate' \in MandateType,
         tick' = [Outdated(w) EXCEPT ![w] = Seen(mandate.phase, target, mandate.facts)]
                 \/ tick' = [tick EXCEPT ![w] = Seen(mandate.phase, target, mandate.facts)]
  PROVE  IInv'
<1>1. WorldTypes' /\ Delivered' /\ PhaseFollowsFact' /\ NothingUndone /\ DriverTypes
  BY WorldStays DEF IInv
<1> DEFINE t == Seen(mandate.phase, target, mandate.facts)
<1>2. t \in TickType /\ t.at = "head"
  BY <1>1 DEF Seen, TickType, DriverTypes, MandateType, Places
<1>3. tick' = [Outdated(w) EXCEPT ![w] = t] \/ tick' = [tick EXCEPT ![w] = t]
  OBVIOUS
<1> HIDE DEF t
<1>4. /\ tick' \in [Workers -> TickType] /\ tick'[w] = t
      /\ \A v \in Workers \ {w} :
            tick'[v].at = tick[v].at /\ tick'[v].target = tick[v].target
  BY <1>1, <1>2, <1>3, OutdatedStays DEF DriverTypes
<1>5. DriverTypes'
  BY <1>1, <1>4, BeginsTyped DEF DriverTypes, intentVars
<1>6. Seeing(tick[w])'
  BY <1>2, <1>4 DEF Seeing
<1> QED
  BY <1>1, <1>4, <1>5, <1>6, StepOf

LEMMA RequestKeeps ==
  ASSUME IInv, deal' = deal, NEW to \in Phases, requestPhase(to)
  PROVE  IInv'
<1>1. mandate \in MandateType
  BY DEF IInv, DriverTypes
<1>2. mandate' \in MandateType
  BY <1>1 DEF requestPhase, MandateType
<1> QED
  BY <1>2, BeginKeeps DEF requestPhase, Workers

LEMMA TickAllKeeps ==
  ASSUME IInv, deal' = deal, tickAll
  PROVE  IInv'
<1>1. mandate \in MandateType
  BY DEF IInv, DriverTypes
<1>2. mandate.requested \in Phases \cup {"None"}
  BY <1>1 DEF MandateType
<1> QED
  BY <1>1, <1>2, BeginKeeps DEF tickAll, Workers

-----------------------------------------------------------------------------
(* Intents and the world.                                                  *)

LEMMA OutsideKeeps ==
  ASSUME IInv, UNCHANGED <<mandate, tick, deal, spent>>,
         subscription' \in {"None", "due", "booked", "parked"},
         redemption' \in {"None", "due", "booked"},
         WorldTypes', Delivered', PhaseFollowsFact', NothingUndone
  PROVE  IInv'
<1>1. DriverTypes'
  BY DEF IInv, DriverTypes
<1>2. "loop" \in Workers /\ Seeing(tick["loop"])'
  BY SeeingStays DEF IInv, Workers
<1> QED
  BY <1>1, <1>2, StepOf

LEMMA IntentsKeep ==
  ASSUME IInv, deal' = deal, vaultSubscribe \/ vaultRedeem
  PROVE  IInv'
<1>1. UNCHANGED <<worldVars, mandate, tick, spent>>
  BY DEF vaultSubscribe, vaultRedeem
<1>2. /\ subscription' \in {"None", "due", "booked", "parked"}
      /\ redemption' \in {"None", "due", "booked"}
  BY DEF IInv, DriverTypes, vaultSubscribe, vaultRedeem
<1> QED
  BY <1>1, <1>2, WorldStays, OutsideKeeps

\* What an event of the world asks of the invariant.
LEMMA WorldKeeps ==
  ASSUME IInv, deal' = deal, World
  PROVE  IInv'
<1>1. WorldTypes /\ DriverTypes /\ Delivered /\ PhaseFollowsFact
  BY DEF IInv
<1>2. ASSUME subscriberDeposits
      PROVE  IInv'
  <2>1. deal.raised \in Nat
    BY <1>1, DealsAssumption DEF DriverTypes
  <2>2. WorldTypes' /\ vault'.phase = vault.phase /\ vault'.delivered = vault.delivered
        /\ vault'.electing = vault.electing
    BY <1>1, <1>2, <2>1 DEF subscriberDeposits, WorldTypes, VaultType
  <2>3. Delivered' /\ PhaseFollowsFact' /\ NothingUndone
    BY <1>1, <1>2, <2>2 DEF subscriberDeposits, Delivered, PhaseFollowsFact, NothingUndone
  <2> QED
    BY <1>1, <1>2, <2>2, <2>3, OutsideKeeps DEF subscriberDeposits, DriverTypes
<1>3. ASSUME holderElects
      PROVE  IInv'
  <2>0. vault.delivered + 1 \in Nat
    BY <1>1 DEF WorldTypes, VaultType
  <2>1. /\ WorldTypes' /\ vault'.phase = vault.phase /\ vault'.electing = vault.electing
        /\ vault'.delivered = vault.delivered + 1
    BY <1>1, <1>3, <2>0 DEF holderElects, WorldTypes, VaultType
  <2>2. ipo.status = "ALLOCATED"
    BY <1>1, <1>3 DEF holderElects, PhaseFollowsFact, Invested
  <2>3. vault.delivered + 1 <= ipo.allocated
    BY <1>1, <1>3 DEF holderElects, WorldTypes, VaultType, IpoType
  <2>4. Delivered' /\ PhaseFollowsFact' /\ NothingUndone
    BY <1>1, <1>3, <2>1, <2>2, <2>3
       DEF holderElects, Delivered, PhaseFollowsFact, NothingUndone
  <2> QED
    BY <1>1, <1>3, <2>1, <2>4, OutsideKeeps DEF holderElects, DriverTypes, intentVars
<1>4. ASSUME electionCloses
      PROVE  IInv'
  <2>1. /\ WorldTypes' /\ vault'.phase = vault.phase /\ ~vault'.electing
        /\ vault'.delivered = vault.delivered
    BY <1>1, <1>4 DEF electionCloses, WorldTypes, VaultType
  <2>2. Delivered' /\ PhaseFollowsFact' /\ NothingUndone
    BY <1>1, <1>4, <2>1 DEF electionCloses, Delivered, PhaseFollowsFact, NothingUndone
  <2> QED
    BY <1>1, <1>4, <2>1, <2>2, OutsideKeeps DEF electionCloses, DriverTypes, intentVars
<1>5. ASSUME holderClaims
      PROVE  IInv'
  <2>1. /\ WorldTypes' /\ vault'.phase = vault.phase /\ vault'.electing = vault.electing
        /\ vault'.delivered = vault.delivered
    BY <1>1, <1>5 DEF holderClaims, WorldTypes, VaultType
  <2>2. Delivered' /\ PhaseFollowsFact' /\ NothingUndone
    BY <1>1, <1>5, <2>1 DEF holderClaims, Delivered, PhaseFollowsFact, NothingUndone
  <2> QED
    BY <1>1, <1>5, <2>1, <2>2, OutsideKeeps DEF holderClaims, DriverTypes
<1>6. ASSUME cancelledOutside
      PROVE  IInv'
  <2>1. vault.phase \notin Invested /\ "Cancelled" \in Phases
    BY <1>6, FromAre, PhasesAre DEF cancelledOutside
  <2>2. /\ WorldTypes' /\ vault'.phase = "Cancelled"
        /\ vault'.delivered = vault.delivered
    BY <1>1, <1>6, <2>1 DEF cancelledOutside, WorldTypes, VaultType
  <2>3. Delivered' /\ PhaseFollowsFact' /\ NothingUndone
    BY <1>1, <1>6, <2>1, <2>2
       DEF cancelledOutside, Delivered, PhaseFollowsFact, NothingUndone, Invested
  <2> QED
    BY <1>1, <1>6, <2>2, <2>3, OutsideKeeps DEF cancelledOutside, DriverTypes, intentVars
<1>7. ASSUME brokerDecides
      PROVE  IInv'
  <2>1. ipo.status \in {"SUBMITTED", "ACCEPTED"}
        /\ UNCHANGED <<vault, custody, crossing, wire, sale, repatriation>>
        /\ UNCHANGED <<intentVars, mandate, tick, spent>>
    BY <1>7 DEF brokerDecides
  <2>2. ipo' \in IpoType
    <3>1. CASE \E status \in {"ACCEPTED", "REJECTED", "UNSUCCESSFUL"} :
                  ipo' = [ipo EXCEPT !.status = status]
      BY <1>1, <3>1 DEF WorldTypes, IpoType
    <3>2. CASE \E n \in 1 .. vault.deposits :
                  ipo' = [status |-> "ALLOCATED", allocated |-> n]
      BY <1>1, <3>2 DEF WorldTypes, VaultType, IpoType
    <3> QED
      BY <1>7, <3>1, <3>2 DEF brokerDecides, OrFault
  <2>3. ipo.status = "ACCEPTED" => ipo'.status \in {"UNSUCCESSFUL", "ALLOCATED"}
    BY <1>1, <1>7 DEF brokerDecides, WorldTypes, IpoType
  <2>4. vault.delivered = 0
    BY <1>1, <2>1 DEF Delivered, WorldTypes, VaultType
  <2>5. vault.phase \notin Invested
    BY <1>1, <2>1 DEF PhaseFollowsFact
  <2>6. WorldTypes' /\ Delivered' /\ PhaseFollowsFact' /\ NothingUndone
    BY <1>1, <2>1, <2>2, <2>3, <2>4, <2>5
       DEF WorldTypes, IpoType, Delivered, PhaseFollowsFact, NothingUndone
  <2> QED
    BY <1>1, <2>1, <2>6, OutsideKeeps DEF DriverTypes, intentVars
<1>8. ASSUME custodianConfirms \/ msbConverts \/ msbPays \/ brokerSells
      PROVE  IInv'
  <2>1. UNCHANGED <<vault, ipo, intentVars, mandate, tick, spent>>
    BY <1>8 DEF custodianConfirms, msbConverts, msbPays, brokerSells
  <2>2. /\ custody' = custody \/ custody' = TRUE
        /\ crossing' = crossing \/ crossing' \in {"SETTLED", "FAILED"}
        /\ wire' = wire \/ wire' \in {"SETTLED", "FAILED"}
        /\ sale' = sale \/ (sale = "NEW" /\ sale' \in {"FILLED", "EXPIRED"})
        /\ \/ repatriation' = repatriation
           \/ repatriation = "PENDING" /\ repatriation' \in {"SETTLED", "FAILED"}
    BY <1>8 DEF custodianConfirms, msbConverts, msbPays, brokerSells, OrFault
  <2>3. WorldTypes'
    BY <1>1, <2>1, <2>2 DEF WorldTypes, Status
  <2>4. Delivered'
    BY <1>1, <2>1 DEF Delivered
  <2>5. NothingUndone
    BY <1>1, <2>1, <2>2 DEF NothingUndone, WorldTypes
  <2>6. PhaseFollowsFact'
    BY <1>1, <2>1, <2>5 DEF PhaseFollowsFact, NothingUndone
  <2> QED
    BY <1>1, <2>1, <2>3, <2>4, <2>5, <2>6, OutsideKeeps DEF DriverTypes, intentVars
<1> QED
  BY <1>2, <1>3, <1>4, <1>5, <1>6, <1>7, <1>8 DEF World

-----------------------------------------------------------------------------
(* The books.                                                              *)

LedgerType == [Accounts -> Int]
LedgerTyped == ledger \in LedgerType

LEMMA PostedType ==
  ASSUME NEW l \in LedgerType, NEW entry, \A a \in DOMAIN entry : entry[a] \in Int
  PROVE  Posted(l, entry) \in LedgerType
BY DEF Posted, LedgerType

LEMMA EntriesTyped ==
  ASSUME NEW x \in Int, NEW y \in Int
  PROVE  /\ \A a \in DOMAIN vaultDeposit(x) : vaultDeposit(x)[a] \in Int
         /\ \A a \in DOMAIN vaultDeployed(x) : vaultDeployed(x)[a] \in Int
         /\ \A a \in DOMAIN vaultAllocated(x, y) : vaultAllocated(x, y)[a] \in Int
         /\ \A a \in DOMAIN vaultSettled(x, y) : vaultSettled(x, y)[a] \in Int
         /\ \A a \in DOMAIN vaultClaimed(x) : vaultClaimed(x)[a] \in Int
         /\ \A a \in DOMAIN convertedToHKD(x) : convertedToHKD(x)[a] \in Int
         /\ \A a \in DOMAIN convertedToUSDC(x) : convertedToUSDC(x)[a] \in Int
         /\ \A a \in DOMAIN sentToMsb(x) : sentToMsb(x)[a] \in Int
         /\ \A a \in DOMAIN brokerFunded(x) : brokerFunded(x)[a] \in Int
BY DEF vaultDeposit, vaultDeployed, vaultAllocated, vaultSettled, vaultClaimed,
       convertedToHKD, convertedToUSDC, sentToMsb, brokerFunded

LEMMA LedgerKeeps ==
  ASSUME WorldTypes, ledger \in LedgerType, Act
  PROVE  ledger' \in LedgerType
<1>1. /\ vault.deposits \in Int /\ vault.deployed \in Int /\ ipo.allocated \in Int
      /\ vault.deployed - ipo.allocated \in Int /\ grossProceeds \in Int
  BY DEF WorldTypes, VaultType, IpoType, grossProceeds
<1>2. ASSUME NEW entry, post(entry), \A a \in DOMAIN entry : entry[a] \in Int
      PROVE  ledger' \in LedgerType
  BY <1>2, PostedType DEF post
<1>3. CASE UNCHANGED ledger
  BY <1>3
<1>4. ASSUME vaultSubscribe
      PROVE  ledger' \in LedgerType
  BY <1>1, <1>2, <1>4, EntriesTyped DEF vaultSubscribe
<1>5. ASSUME vaultRedeem
      PROVE  ledger' \in LedgerType
  BY <1>1, <1>2, <1>5, EntriesTyped DEF vaultRedeem
<1>6. ASSUME World
      PROVE  ledger' \in LedgerType
  BY <1>6 DEF World, subscriberDeposits, holderElects, electionCloses, holderClaims,
     cancelledOutside, brokerDecides, custodianConfirms, msbConverts, msbPays, brokerSells
<1>7. ASSUME NEW w \in Workers, Tick(w)
      PROVE  ledger' \in LedgerType
  <2>1. CASE bookDeployed(w)
    BY <1>1, <1>2, <2>1, EntriesTyped DEF bookDeployed
  <2>2. CASE awaitCrossing(w)
    BY <1>1, <1>2, <2>2, EntriesTyped DEF awaitCrossing
  <2>3. CASE awaitWire(w)
    BY <1>1, <1>2, <2>3, EntriesTyped DEF awaitWire
  <2>4. CASE toLive(w)
    BY <1>1, <1>2, <2>4, EntriesTyped DEF toLive
  <2>5. CASE toClaimable(w)
    BY <1>1, <1>2, <2>5, EntriesTyped DEF toClaimable
  <2>6. CASE bookRepatriated(w)
    BY <1>1, <1>2, <2>6, EntriesTyped DEF bookRepatriated
  <2>7. CASE bookNet(w)
    BY <1>1, <1>2, <2>7, EntriesTyped DEF bookNet
  <2>8. CASE sync(w) \/ advance(w) \/ crash(w) \/ (\E to \in Phases : simple(w, to))
             \/ placeIpoSubscription(w) \/ toSourced(w) \/ deployCapital(w)
    BY <2>8 DEF sync, advance, crash, simple, placeIpoSubscription, toSourced, deployCapital
  <2>9. CASE markListed(w) \/ toRealized(w) \/ markRealized(w) \/ sendHome(w)
             \/ settleVault(w)
    BY <2>9 DEF markListed, toRealized, markRealized, sendHome, settleVault
  <2> QED
    BY <1>7, <2>1, <2>2, <2>3, <2>4, <2>5, <2>6, <2>7, <2>8, <2>9 DEF Tick
<1>8. ASSUME tickAll \/ \E to \in Phases : requestPhase(to)
      PROVE  ledger' \in LedgerType
  BY <1>8 DEF tickAll, requestPhase
<1> QED
  BY <1>4, <1>5, <1>6, <1>7, <1>8 DEF Act

-----------------------------------------------------------------------------
(* A deal in which nobody puts money is never begun: all that can happen   *)
(* to its vault is that it is cancelled.                                   *)

Quiet ==
    /\ vault.phase \in {"Scheduled", "Cancelled"}
    /\ ~vault.electing
    /\ ipo.status = "None"
    /\ "None" \in {crossing} \cap {wire} \cap {sale} \cap {repatriation}
                  \cap {subscription} \cap {redemption}
    /\ \A w \in Workers : At(w, "idle")

LEMMA QuietStarts ==
  ASSUME NEW terms, StartOf(terms)
  PROVE  Quiet
BY DEF StartOf, Quiet, At, Idle

LEMMA NoTick ==
  ASSUME NEW w, At(w, "idle"), Tick(w)
  PROVE  FALSE
<1>1. \A to, place : place # "idle" => ~Handling(w, to, place)
  BY DEF Handling, At
<1> QED
  BY <1>1 DEF Tick, At, sync, advance, crash, simple, placeIpoSubscription, toSourced,
     deployCapital, bookDeployed, awaitCrossing, awaitWire, toLive, markListed, toRealized,
     markRealized, toClaimable, sendHome, settleVault, bookRepatriated, bookNet

LEMMA QuietStays ==
  ASSUME WorldTypes, Quiet, deal.raised = 0, Act
  PROVE  Quiet' /\ UNCHANGED <<ledger, wire, ipo>>
<1>1. \A w : ~MayBegin(w)
  BY DEF MayBegin
<1>2. \A w \in Workers : ~Tick(w)
  BY NoTick DEF Quiet
<1>3. World
  BY <1>1, <1>2 DEF Act, requestPhase, tickAll, vaultSubscribe, vaultRedeem, Quiet
<1>4. cancelledOutside
  BY <1>3 DEF World, Quiet, subscriberDeposits, holderElects, electionCloses, holderClaims,
     brokerDecides, custodianConfirms, msbConverts, msbPays, brokerSells
<1>5. vault'.phase = "Cancelled" /\ ~vault'.electing
  BY <1>4 DEF cancelledOutside, WorldTypes, VaultType, Quiet
<1> QED
  BY <1>4, <1>5 DEF cancelledOutside, Quiet, intentVars, At

LEMMA ActKeeps ==
  ASSUME IInv, deal' = deal, Act
  PROVE  IInv'
BY TickKeeps, RequestKeeps, TickAllKeeps, IntentsKeep, WorldKeeps DEF Act

-----------------------------------------------------------------------------
(* The dollars of the vault, on the chain.                                 *)

Paid    == {"Deployed"} \cup Invested
Claimed == {"Claimable", "Winding", "Concluded"}

\* They leave to be deployed, come back when the vault settles, and leave with
\* the holder who claims them.
ChainCash ==
    /\ vault.deployed = IF vault.phase \in Paid THEN vault.deposits ELSE 0
    /\ vault.usdc = IF vault.phase \in Claimed
                    THEN IF redemption = "None" THEN grossProceeds ELSE 0
                    ELSE vault.deposits - vault.deployed
    /\ redemption # "None" => vault.phase \in Claimed
    /\ subscription = "None" => vault.deposits = 0

\* How the vault goes on.
Onward ==
    /\ vault.phase \in Paid => vault'.phase \in Paid
    /\ vault.phase \in Claimed => vault'.phase \in Claimed /\ grossProceeds' = grossProceeds
    /\ vault'.phase \in Claimed =>
          vault.phase \in Claimed \/ \E w \in Workers : settleVault(w)
    /\ vault'.phase \in Paid =>
          vault.phase \in Paid \/ \E w \in Workers : deployCapital(w)
    /\ vault'.deposits = vault.deposits \/ subscriberDeposits

LEMMA FromPaid ==
  /\ \A to \in {"Funding", "Sealed", "Sourcing", "Sourced", "Deployed", "Cancelled"} :
        From(to) \cap Paid = {}
  /\ \A to \in {"Live", "Realized"} : From(to) \subseteq Paid \ Claimed
  /\ From("Claimable") = {"Realized"}
  /\ \A to \in {"Winding", "Concluded"} : From(to) \subseteq Claimed
  /\ Claimed \subseteq Paid
BY PhasesAre, TransitionsAre DEF From, Paid, Invested, Claimed

LEMMA CashRests ==
  ASSUME IInv, ChainCash, UNCHANGED <<vault, subscription, redemption>>,
         ipo' = ipo \/ ipo.status # "ALLOCATED"
  PROVE  ChainCash' /\ Onward
<1>1. vault.phase \in Claimed => grossProceeds' = grossProceeds
  BY DEF IInv, PhaseFollowsFact, Claimed, Invested, grossProceeds
<1> QED
  BY <1>1 DEF ChainCash, Onward

\* The chain moves to a phase, and no dollars move.
LEMMA CashInto ==
  ASSUME IInv, ChainCash, UNCHANGED <<ipo, subscription, redemption>>,
         NEW to \in Phases \ {"Deployed", "Claimable", "Scheduled"}, vault.phase \in From(to),
         vault'.phase = to, vault'.deployed = vault.deployed, vault'.usdc = vault.usdc,
         vault'.deposits = vault.deposits, vault'.delivered = vault.delivered
  PROVE  ChainCash' /\ Onward
<1>1. grossProceeds' = grossProceeds
  BY DEF grossProceeds
<1>2. CASE to \in {"Funding", "Sealed", "Sourcing", "Sourced", "Cancelled"}
  <2>1. vault.phase \notin Paid \cup Claimed /\ vault'.phase \notin Paid \cup Claimed
    BY <1>2, FromPaid DEF Paid, Invested, Claimed
  <2> QED
    BY <2>1 DEF ChainCash, Onward
<1>3. CASE to \in {"Live", "Realized"}
  <2>1. vault.phase \in Paid \ Claimed /\ vault'.phase \in Paid \ Claimed
    BY <1>3, FromPaid DEF Paid, Invested, Claimed
  <2> QED
    BY <2>1 DEF ChainCash, Onward
<1>4. CASE to \in {"Winding", "Concluded"}
  <2>1. /\ vault.phase \in Paid \cap Claimed
        /\ vault'.phase \in Paid \cap Claimed
    BY <1>4, FromPaid DEF Paid, Invested, Claimed
  <2> QED
    BY <1>1, <2>1 DEF ChainCash, Onward
<1> QED
  BY <1>2, <1>3, <1>4, PhasesAre

LEMMA IntoKeepsCash ==
  ASSUME WorldTypes, NEW to
  PROVE  /\ Into(to).phase = to /\ Into(to).deployed = vault.deployed
         /\ Into(to).usdc = vault.usdc /\ Into(to).deposits = vault.deposits
         /\ Into(to).delivered = vault.delivered
BY DEF WorldTypes, VaultType, Into

\* A tick submits a transition with which no dollars move.
LEMMA CashSubmits ==
  ASSUME IInv, ChainCash, UNCHANGED <<ipo, subscription, redemption>>, NEW w,
         NEW to \in Phases \ {"Deployed", "Claimable", "Scheduled"}, NEW after,
         after.phase = to, after.deployed = vault.deployed, after.usdc = vault.usdc,
         after.deposits = vault.deposits, after.delivered = vault.delivered,
         NEW place, NEW found, Submit(w, to, after, place, found)
  PROVE  ChainCash' /\ Onward
<1>1. CASE UNCHANGED vault
  BY <1>1, CashRests
<1>2. CASE vault.phase \in From(to) /\ vault' = after
  BY <1>2, CashInto
<1> QED
  BY <1>1, <1>2 DEF Submit

LEMMA CashDeploys ==
  ASSUME IInv, ChainCash, NEW w \in Workers, deployCapital(w)
  PROVE  ChainCash' /\ Onward
<1>1. WorldTypes /\ UNCHANGED <<ipo, subscription, redemption>>
  BY DEF IInv, deployCapital, intentVars
<1>2. CASE UNCHANGED vault
  BY <1>1, <1>2, CashRests
<1>3. CASE /\ vault.phase \in From("Deployed")
           /\ vault' = [Into("Deployed") EXCEPT !.usdc = 0, !.deployed = vault.deposits]
  <2>1. /\ vault'.phase = "Deployed" /\ vault'.usdc = 0 /\ vault'.deployed = vault.deposits
        /\ vault'.deposits = vault.deposits /\ vault.deposits \in Nat
    BY <1>1, <1>3 DEF WorldTypes, VaultType, Into
  <2>2. vault.phase \notin Paid \cup Claimed
    BY <1>3, FromPaid
  <2>3. vault'.phase \in Paid \ Claimed
    BY <2>1 DEF Paid, Invested, Claimed
  <2>4. vault'.usdc = vault'.deposits - vault'.deployed
    BY <2>1
  <2>5. ChainCash'
    BY <1>1, <2>1, <2>2, <2>3, <2>4 DEF ChainCash
  <2> QED
    BY <2>1, <2>2, <2>3, <2>5 DEF Onward
<1> QED
  BY <1>2, <1>3 DEF deployCapital, Submit

LEMMA CashSettles ==
  ASSUME IInv, ChainCash, NEW w \in Workers, settleVault(w)
  PROVE  ChainCash' /\ Onward
<1>1. WorldTypes /\ UNCHANGED <<ipo, subscription, redemption>>
  BY DEF IInv, settleVault, intentVars
<1>2. CASE UNCHANGED vault
  BY <1>1, <1>2, CashRests
<1>3. CASE /\ vault.phase \in From("Claimable")
           /\ vault' = [Into("Claimable") EXCEPT !.usdc = @ + grossProceeds]
  <2>1. /\ vault'.phase = "Claimable" /\ vault'.usdc = vault.usdc + grossProceeds
        /\ vault'.deposits = vault.deposits /\ vault.deposits \in Nat
        /\ vault'.deployed = vault.deployed /\ vault'.delivered = vault.delivered
    BY <1>1, <1>3 DEF WorldTypes, VaultType, Into
  <2>2. vault.phase = "Realized" /\ grossProceeds' = grossProceeds /\ grossProceeds \in Int
    BY <1>1, <1>3, <2>1, FromPaid DEF grossProceeds, WorldTypes, VaultType, IpoType
  <2>3. /\ vault.phase \in Paid \ Claimed
        /\ vault'.phase \in Paid \cap Claimed
    BY <2>1, <2>2 DEF Paid, Invested, Claimed
  <2>4. vault.deployed = vault.deposits /\ vault.usdc = 0 /\ redemption = "None"
    BY <2>1, <2>3 DEF ChainCash
  <2>5. vault'.usdc = grossProceeds'
    BY <2>1, <2>2, <2>4
  <2>6. ChainCash'
    BY <1>1, <2>1, <2>3, <2>4, <2>5 DEF ChainCash
  <2> QED
    BY <2>1, <2>2, <2>3, <2>6 DEF Onward
<1> QED
  BY <1>2, <1>3 DEF settleVault, Submit

LEMMA CashTicks ==
  ASSUME IInv, ChainCash, NEW w \in Workers, Tick(w)
  PROVE  ChainCash' /\ Onward
<1>0. WorldTypes
  BY DEF IInv
<1>1. CASE UNCHANGED <<vault, ipo, subscription, redemption>>
  BY <1>1, CashRests
<1>2. CASE deployCapital(w) \/ settleVault(w)
  BY <1>2, CashDeploys, CashSettles
<1>3. ASSUME NEW to \in Phases, simple(w, to)
      PROVE  ChainCash' /\ Onward
  <2>1. UNCHANGED <<ipo, subscription, redemption>>
    BY <1>3 DEF simple, intentVars
  <2>2. CASE Submit(w, to, Into(to), "save", {})
    <3>1. to \in Phases \ {"Deployed", "Claimable", "Scheduled"}
      BY <1>3 DEF simple
    <3> QED
      BY <1>0, <2>1, <2>2, <3>1, IntoKeepsCash, CashSubmits
  <2> QED
    BY <1>1, <1>3, <2>1, <2>2 DEF simple
<1>4. CASE toSourced(w)
  <2>1. UNCHANGED <<ipo, subscription, redemption>>
    BY <1>4 DEF toSourced, intentVars
  <2>2. "Sourced" \in Phases \ {"Deployed", "Claimable", "Scheduled"}
    BY PhasesAre
  <2>3. ASSUME NEW found, Submit(w, "Sourced", Into("Sourced"), "save", found)
        PROVE  ChainCash' /\ Onward
    BY <1>0, <2>1, <2>2, <2>3, IntoKeepsCash, CashSubmits
  <2> QED
    BY <1>1, <1>4, <2>1, <2>3 DEF toSourced
<1>5. CASE markListed(w)
  <2> DEFINE after == [Into("Live") EXCEPT !.electing = TRUE]
  <2>1. Submit(w, "Live", after, "save", {"allocatedQuantity", "listedTicker"})
        /\ UNCHANGED <<ipo, subscription, redemption>>
    BY <1>5 DEF markListed, intentVars
  <2>2. /\ after.phase = "Live" /\ after.deployed = vault.deployed /\ after.usdc = vault.usdc
        /\ after.deposits = vault.deposits /\ after.delivered = vault.delivered
    BY <1>0 DEF WorldTypes, VaultType, Into
  <2>3. "Live" \in Phases \ {"Deployed", "Claimable", "Scheduled"}
    BY PhasesAre
  <2> HIDE DEF after
  <2> QED
    BY <2>1, <2>2, <2>3, CashSubmits
<1>6. CASE markRealized(w)
  <2>1. Submit(w, "Realized", Into("Realized"), "save", {"grossProceedsHkd"})
        /\ UNCHANGED <<ipo, subscription, redemption>>
    BY <1>6 DEF markRealized, intentVars
  <2>2. "Realized" \in Phases \ {"Deployed", "Claimable", "Scheduled"}
    BY PhasesAre
  <2> QED
    BY <1>0, <2>1, <2>2, IntoKeepsCash, CashSubmits
<1>7. CASE placeIpoSubscription(w)
  <2>1. UNCHANGED <<vault, subscription, redemption>> /\ ipo.status = "None"
    BY <1>7 DEF placeIpoSubscription, intentVars
  <2> QED
    BY <2>1, CashRests
<1>8. CASE sync(w) \/ advance(w) \/ crash(w) \/ bookDeployed(w) \/ awaitCrossing(w)
           \/ awaitWire(w) \/ toLive(w) \/ toRealized(w) \/ toClaimable(w) \/ sendHome(w)
           \/ bookRepatriated(w) \/ bookNet(w)
  <2>1. UNCHANGED <<vault, ipo, subscription, redemption>>
    BY <1>8 DEF sync, advance, crash, bookDeployed, awaitCrossing, awaitWire, toLive, toRealized,
       toClaimable, sendHome, bookRepatriated, bookNet, worldVars, intentVars
  <2> QED
    BY <1>1, <2>1
<1> QED
  BY <1>2, <1>3, <1>4, <1>5, <1>6, <1>7, <1>8 DEF Tick

LEMMA CashMoves ==
  ASSUME IInv, ChainCash, deal' = deal, World \/ vaultSubscribe \/ vaultRedeem
  PROVE  ChainCash' /\ Onward
<1>1. WorldTypes /\ DriverTypes /\ PhaseFollowsFact
  BY DEF IInv
<1>2. CASE subscriberDeposits
  <2>1. deal.raised \in Nat /\ vault.deposits = 0
    BY <1>1, <1>2, DealsAssumption DEF DriverTypes, subscriberDeposits
  <2>2. /\ vault'.phase = vault.phase /\ vault'.deposits = deal.raised
        /\ vault'.usdc = deal.raised /\ vault'.deployed = vault.deployed
        /\ vault.phase = "Funding" /\ subscription' = "due" /\ redemption' = redemption
    BY <1>1, <1>2 DEF subscriberDeposits, WorldTypes, VaultType
  <2>3. vault.phase \notin Paid \cup Claimed
    BY <2>2 DEF Paid, Invested, Claimed
  <2>4. vault.deployed = 0 /\ redemption = "None"
    BY <2>3 DEF ChainCash
  <2>5. ChainCash'
    BY <2>1, <2>2, <2>3, <2>4 DEF ChainCash
  <2> QED
    BY <1>2, <2>2, <2>3, <2>5 DEF Onward
<1>3. CASE holderElects
  <2>1. /\ vault'.phase = vault.phase /\ vault'.deposits = vault.deposits
        /\ vault'.usdc = vault.usdc /\ vault'.deployed = vault.deployed
        /\ vault.phase = "Live" /\ UNCHANGED <<subscription, redemption>>
    BY <1>1, <1>3 DEF holderElects, WorldTypes, VaultType, intentVars
  <2>2. vault.phase \notin Claimed
    BY <2>1 DEF Claimed
  <2> QED
    BY <2>1, <2>2 DEF ChainCash, Onward
<1>4. CASE electionCloses \/ cancelledOutside
  <2>1. CASE electionCloses
    <3>1. /\ vault'.phase = vault.phase /\ vault'.deposits = vault.deposits
          /\ vault'.usdc = vault.usdc /\ vault'.deployed = vault.deployed
          /\ vault'.delivered = vault.delivered
          /\ UNCHANGED <<ipo, subscription, redemption>>
      BY <1>1, <2>1 DEF electionCloses, WorldTypes, VaultType, intentVars
    <3>2. grossProceeds' = grossProceeds
      BY <3>1 DEF grossProceeds
    <3> QED
      BY <3>1, <3>2 DEF ChainCash, Onward
  <2>2. CASE cancelledOutside
    <3>1. /\ vault'.phase = "Cancelled" /\ vault'.deposits = vault.deposits
          /\ vault'.usdc = vault.usdc /\ vault'.deployed = vault.deployed
          /\ vault'.delivered = vault.delivered
          /\ UNCHANGED <<ipo, subscription, redemption>>
      BY <1>1, <2>2 DEF cancelledOutside, WorldTypes, VaultType, intentVars
    <3>2. "Cancelled" \in Phases \ {"Deployed", "Claimable", "Scheduled"}
      BY PhasesAre
    <3> QED
      BY <2>2, <3>1, <3>2, CashInto DEF cancelledOutside
  <2> QED
    BY <1>4, <2>1, <2>2
<1>5. CASE holderClaims
  <2>1. /\ vault'.phase = vault.phase /\ vault'.deposits = vault.deposits
        /\ vault'.usdc = 0 /\ vault'.deployed = vault.deployed
        /\ vault'.delivered = vault.delivered /\ vault.phase \in Claimed
        /\ redemption' = "due" /\ UNCHANGED <<ipo, subscription>>
    BY <1>1, <1>5 DEF holderClaims, WorldTypes, VaultType, Claimed
  <2>2. grossProceeds' = grossProceeds
    BY <2>1 DEF grossProceeds
  <2> QED
    BY <2>1, <2>2 DEF ChainCash, Onward
<1>6. CASE brokerDecides
  <2>1. ipo.status # "ALLOCATED" /\ UNCHANGED <<vault, subscription, redemption>>
    BY <1>6 DEF brokerDecides, intentVars
  <2> QED
    BY <2>1, CashRests
<1>7. CASE custodianConfirms \/ msbConverts \/ msbPays \/ brokerSells
  <2>1. UNCHANGED <<vault, ipo, subscription, redemption>>
    BY <1>7 DEF custodianConfirms, msbConverts, msbPays, brokerSells, intentVars
  <2> QED
    BY <2>1, CashRests
<1>8. CASE vaultSubscribe \/ vaultRedeem
  <2>1. /\ UNCHANGED <<vault, ipo>>
        /\ subscription' = subscription \/ (subscription' # "None" /\ subscription # "None")
        /\ redemption' = redemption \/ (redemption' # "None" /\ redemption # "None")
    BY <1>8 DEF vaultSubscribe, vaultRedeem, worldVars
  <2>2. grossProceeds' = grossProceeds
    BY <2>1 DEF grossProceeds
  <2> QED
    BY <2>1, <2>2 DEF ChainCash, Onward
<1> QED
  BY <1>2, <1>3, <1>4, <1>5, <1>6, <1>7, <1>8 DEF World

LEMMA CashKeeps ==
  ASSUME IInv, ChainCash, deal' = deal, Act
  PROVE  ChainCash' /\ Onward
<1>1. ASSUME tickAll \/ \E to \in Phases : requestPhase(to)
      PROVE  ChainCash' /\ Onward
  <2>1. UNCHANGED <<vault, ipo, subscription, redemption>>
    BY <1>1 DEF tickAll, requestPhase, worldVars, intentVars
  <2> QED
    BY <2>1, CashRests
<1> QED
  BY <1>1, CashTicks, CashMoves DEF Act

-----------------------------------------------------------------------------
(* The ticks that are about to book, and those that have.                  *)

Booking(w) == Handling(w, "Deployed", "book")
Netting(w) == Handling(w, "Claimable", "book") \/ Handling(w, "Claimable", "bookNet")
Netted(w)  == Handling(w, "Claimable", "save")

Marks ==
    /\ \A w \in Workers : At(w, "idle") => tick[w].target = "None"
    /\ \A w \in Workers : Booking(w) => vault.phase \in Paid
    /\ \A w \in Workers : Netting(w) \/ Netted(w) => vault.phase \in Claimed
    /\ \A v, w \in Workers : v # w /\ Booking(v) /\ Booking(w) => vault.deployed = 0
    /\ "netProceedsUsdc" \in mandate.facts => vault.phase \in Claimed
    /\ \A w \in Workers : "netProceedsUsdc" \in tick[w].facts => vault.phase \in Claimed

\* As long as no tick overlaps another and none breaks off, a vault is settled
\* by one tick only, which books what came of it before another begins.
Calm  == spent.overlaps = 0 /\ spent.crashes = 0
After == {"None", "Winding", "Concluded"}

Alone   == \A v, w \in Workers : v # w => At(v, "idle") \/ At(w, "idle")
Settled ==
    \/ \E w \in Workers : Netting(w) \/ Netted(w)
    \/ /\ mandate.phase \in Claimed /\ mandate.requested \in After
       /\ \A w \in Workers : tick[w].target \in After

Orderly ==
    Calm => /\ Alone
            /\ \A w \in Workers : ~tick[w].stale
            /\ vault.phase \in Claimed => Settled

\* How a tick goes on.
Others(w) ==
    \A v \in Workers \ {w} :
        /\ tick'[v].at = tick[v].at /\ tick'[v].target = tick[v].target
        /\ tick'[v].facts = tick[v].facts
        /\ At(v, "idle") => tick'[v] = tick[v]

Lands(w, place, found) ==
    /\ Others(w)
    /\ tick'[w].at = place /\ tick'[w].target = tick[w].target
    /\ tick'[w].facts = tick[w].facts \cup found /\ tick'[w].stale = tick[w].stale
    /\ mandate' = mandate

Ends(w) == Others(w) /\ tick'[w] = Idle

SameCourse == /\ mandate'.phase = mandate.phase /\ mandate'.requested = mandate.requested
              /\ mandate'.facts = mandate.facts

Handles(w, place, found) ==
    \/ Lands(w, place, found)
    \/ Ends(w) /\ SameCourse
    \/ tick' = tick /\ mandate' = mandate

LEMMA LearnLands ==
  ASSUME DriverTypes, NEW w \in Workers, NEW place, NEW found, Learn(w, place, found)
  PROVE  Lands(w, place, found)
<1>1. tick[w] \in TickType
  BY DEF DriverTypes
<1> DEFINE t == [tick[w] EXCEPT !.at = place, !.facts = @ \cup found]
<1>2. /\ t.at = place /\ t.target = tick[w].target /\ t.stale = tick[w].stale
      /\ t.facts = tick[w].facts \cup found
  BY <1>1 DEF TickType
<1>3. tick' = [tick EXCEPT ![w] = t] /\ mandate' = mandate
  BY DEF Learn, DriverTypes
<1> HIDE DEF t
<1> QED
  BY <1>2, <1>3 DEF Lands, Others, DriverTypes

LEMMA GotoLands ==
  ASSUME DriverTypes, NEW w \in Workers, NEW place, Goto(w, place)
  PROVE  Lands(w, place, {})
<1>1. tick[w] \in TickType
  BY DEF DriverTypes
<1> DEFINE t == [tick[w] EXCEPT !.at = place]
<1>2. /\ t.at = place /\ t.target = tick[w].target /\ t.stale = tick[w].stale
      /\ t.facts = tick[w].facts
  BY <1>1 DEF TickType
<1>3. tick' = [tick EXCEPT ![w] = t] /\ mandate' = mandate
  BY DEF Goto, DriverTypes
<1> HIDE DEF t
<1> QED
  BY <1>2, <1>3 DEF Lands, Others, DriverTypes

LEMMA ThrowEnds ==
  ASSUME DriverTypes, NEW w \in Workers, Throw(w)
  PROVE  Ends(w) /\ mandate' = mandate
BY DEF Throw, Ends, Others, DriverTypes

LEMMA OutdatedOthers ==
  ASSUME DriverTypes, NEW w \in Workers, NEW v \in Workers
  PROVE  /\ Outdated(w)[v].at = tick[v].at /\ Outdated(w)[v].target = tick[v].target
         /\ Outdated(w)[v].facts = tick[v].facts
         /\ At(v, "idle") => Outdated(w)[v] = tick[v]
<1>1. tick[v] \in TickType
  BY DEF DriverTypes
<1>2. /\ [tick[v] EXCEPT !.stale = TRUE].at = tick[v].at
      /\ [tick[v] EXCEPT !.stale = TRUE].target = tick[v].target
      /\ [tick[v] EXCEPT !.stale = TRUE].facts = tick[v].facts
  BY <1>1 DEF TickType
<1> QED
  BY <1>2 DEF Outdated, At

LEMMA SaveEnds ==
  ASSUME DriverTypes, NEW w \in Workers, NEW saved, SaveAndEnd(w, saved)
  PROVE  /\ Ends(w)
         /\ mandate' = IF tick[w].stale THEN mandate ELSE saved
<1>1. CASE tick[w].stale
  BY <1>1, ThrowEnds DEF SaveAndEnd
<1>2. CASE ~tick[w].stale
  <2>1. mandate' = saved /\ tick' = [Outdated(w) EXCEPT ![w] = Idle]
    BY <1>2 DEF SaveAndEnd
  <2>2. tick'[w] = Idle /\ \A v \in Workers \ {w} : tick'[v] = Outdated(w)[v]
    BY <2>1 DEF Outdated
  <2> QED
    BY <1>2, <2>1, <2>2, OutdatedOthers DEF Ends, Others
<1> QED
  BY <1>1, <1>2

LEMMA StopEnds ==
  ASSUME DriverTypes, NEW w \in Workers, NEW place, NEW found, wait(w) \/ park(w)
  PROVE  Handles(w, place, found)
<1>1. /\ [mandate EXCEPT !.state = "NEEDS_MANUAL"].phase = mandate.phase
      /\ [mandate EXCEPT !.state = "NEEDS_MANUAL"].requested = mandate.requested
      /\ [mandate EXCEPT !.state = "NEEDS_MANUAL"].facts = mandate.facts
  BY DEF DriverTypes, MandateType
<1> QED
  BY <1>1, SaveEnds DEF wait, park, Handles, SameCourse

LEMMA SubmitHandles ==
  ASSUME DriverTypes, NEW w \in Workers, NEW to, NEW after, NEW place, NEW found,
         Submit(w, to, after, place, found)
  PROVE  /\ Handles(w, place, found)
         /\ \/ Lands(w, place, found) /\ vault' = vault /\ vault.phase = to
            \/ Lands(w, place, found) /\ vault' = after /\ vault.phase \in From(to)
            \/ vault' = vault /\ vault.phase \notin From(to) \cup {to} /\ Ends(w)
<1>1. CASE vault.phase = to /\ Learn(w, place, found) /\ UNCHANGED vault
  BY <1>1, LearnLands DEF Handles
<1>2. CASE vault.phase \in From(to) /\ vault' = after /\ Learn(w, place, found)
  BY <1>2, LearnLands DEF Handles
<1>3. CASE vault.phase \notin From(to) \cup {to} /\ Throw(w) /\ UNCHANGED vault
  BY <1>3, ThrowEnds DEF Handles, SameCourse
<1> QED
  BY <1>1, <1>2, <1>3 DEF Submit

\* What is deployed is deployed once and for all.
LEMMA PaidOnce ==
  ASSUME ChainCash, ChainCash', Onward, vault.phase \in Paid
  PROVE  vault'.deployed = vault.deployed
BY DEF ChainCash, Onward, subscriberDeposits, Paid, Invested

LEMMA MarksHandled ==
  ASSUME Marks, ChainCash, ChainCash', Onward, NEW w \in Workers, ~At(w, "idle"),
         NEW place, place # "idle", NEW found, Handles(w, place, found),
         tick[w].target = "Deployed" /\ place = "book" =>
            /\ vault'.phase \in Paid
            /\ vault'.deployed = 0 \/ \A v \in Workers : ~Booking(v),
         tick[w].target = "Claimable" /\ place \in {"book", "bookNet", "save"} =>
            vault'.phase \in Claimed,
         "netProceedsUsdc" \in found => vault'.phase \in Claimed
  PROVE  Marks'
<1>1. \A v \in Workers : Booking(v) => vault'.deployed = vault.deployed
  BY PaidOnce DEF Marks
<1>2. CASE tick' = tick /\ mandate' = mandate
  BY <1>1, <1>2 DEF Marks, Onward, Booking, Netting, Netted, Handling, At
<1>3. CASE Ends(w) /\ SameCourse
  <2>1. /\ tick'[w].at = "idle" /\ tick'[w].target = "None" /\ tick'[w].facts = {}
    BY <1>3 DEF Ends, Idle
  <2> QED
    BY <1>1, <1>3, <2>1 DEF Marks, Onward, Booking, Netting, Netted, Handling, At,
       Ends, Others, SameCourse
<1>4. CASE Lands(w, place, found)
  <2>1. \A v \in Workers \ {w} : /\ Booking(v)' <=> Booking(v)
                                 /\ Netting(v)' <=> Netting(v)
                                 /\ Netted(v)' <=> Netted(v)
                                 /\ At(v, "idle")' <=> At(v, "idle")
                                 /\ tick'[v].facts = tick[v].facts
                                 /\ tick'[v].target = tick[v].target
    BY <1>4 DEF Lands, Others, Booking, Netting, Netted, Handling, At
  <2>2. /\ ~At(w, "idle")'
        /\ Booking(w)' => /\ vault'.phase \in Paid
                          /\ vault'.deployed = 0 \/ \A v \in Workers : ~Booking(v)
        /\ Netting(w)' \/ Netted(w)' => vault'.phase \in Claimed
        /\ "netProceedsUsdc" \in tick'[w].facts => vault'.phase \in Claimed
    BY <1>4 DEF Lands, Booking, Netting, Netted, Handling, At, Marks, Onward
  <2>3. mandate' = mandate
    BY <1>4 DEF Lands
  <2>4. \A v \in Workers : Booking(v)' => vault'.phase \in Paid
    BY <2>1, <2>2 DEF Marks, Onward
  <2>5. \A v \in Workers : Netting(v)' \/ Netted(v)' => vault'.phase \in Claimed
    BY <2>1, <2>2 DEF Marks, Onward
  <2>6. \A u, v \in Workers : u # v /\ Booking(u)' /\ Booking(v)' => vault'.deployed = 0
    BY <1>1, <2>1, <2>2 DEF Marks
  <2>7. /\ "netProceedsUsdc" \in mandate'.facts => vault'.phase \in Claimed
        /\ \A v \in Workers : "netProceedsUsdc" \in tick'[v].facts => vault'.phase \in Claimed
    BY <2>1, <2>2, <2>3 DEF Marks, Onward
  <2>8. \A v \in Workers : At(v, "idle")' => tick'[v].target = "None"
    BY <2>1, <2>2 DEF Marks
  <2> QED
    BY <2>4, <2>5, <2>6, <2>7, <2>8 DEF Marks
<1> QED
  BY <1>2, <1>3, <1>4 DEF Handles

LEMMA OrderlyHandled ==
  ASSUME Orderly, NEW w \in Workers, ~At(w, "idle"), NEW place, place # "idle", NEW found,
         Handles(w, place, found), UNCHANGED spent,
         vault'.phase \in Claimed => vault.phase \in Claimed \/ Netting(w)' \/ Netted(w)',
         Netting(w) \/ Netted(w) => Netting(w)' \/ Netted(w)'
  PROVE  Orderly'
<1> SUFFICES ASSUME Calm
             PROVE  /\ Alone'
                    /\ \A v \in Workers : ~tick'[v].stale
                    /\ vault'.phase \in Claimed => Settled'
  BY DEF Orderly, Calm
<1>1. /\ Alone
      /\ \A v \in Workers : ~tick[v].stale
      /\ vault.phase \in Claimed => Settled
  BY DEF Orderly
<1>2. \A v \in Workers \ {w} : tick'[v] = tick[v] /\ At(v, "idle") /\ ~Netting(v) /\ ~Netted(v)
  BY <1>1 DEF Alone, Handles, Lands, Ends, Others, At, Netting, Netted, Handling
<1>3. /\ ~tick'[w].stale
      /\ tick'[w].target \in {"None", tick[w].target}
      /\ SameCourse
  BY <1>1 DEF Handles, Lands, Ends, Idle, SameCourse
<1>4. Alone'
  BY <1>2 DEF Alone, At
<1>5. \A v \in Workers : ~tick'[v].stale
  BY <1>1, <1>2, <1>3
<1>6. ASSUME vault'.phase \in Claimed
      PROVE  Settled'
  <2>1. CASE Netting(w)' \/ Netted(w)'
    BY <2>1 DEF Settled
  <2>2. CASE ~(Netting(w)' \/ Netted(w)')
    <3>1. /\ mandate.phase \in Claimed /\ mandate.requested \in After
          /\ \A v \in Workers : tick[v].target \in After
      BY <1>1, <1>2, <1>6, <2>2 DEF Settled
    <3>2. \A v \in Workers : tick'[v].target \in After
      BY <1>2, <1>3, <3>1 DEF After
    <3> QED
      BY <1>3, <3>1, <3>2 DEF Settled, SameCourse
  <2> QED
    BY <2>1, <2>2
<1> QED
  BY <1>4, <1>5, <1>6

-----------------------------------------------------------------------------
(* What the books hold of the vault's dollars.                             *)

Share ==
    (IF subscription = "booked" THEN vault.deposits ELSE 0)
    - (IF \E w \in Workers : Booking(w) THEN 0 ELSE vault.deployed)
    + (IF vault.phase \in Claimed /\ ~\E w \in Workers : Netting(w) THEN grossProceeds ELSE 0)
    - (IF redemption = "booked" THEN grossProceeds ELSE 0)

Counted ==
    /\ spent.crashes = 0
    /\ spent.overlaps > 0 => vault.phase \notin Claimed

\* What a step posts to the escrow is what its share of it grows by.
Even == Counted' => ledger'["CHAIN_ESCROW"] - ledger["CHAIN_ESCROW"] = Share' - Share

Course == ChainCash /\ Marks /\ Orderly

LEMMA ShareTyped ==
  ASSUME WorldTypes
  PROVE  /\ Share \in Int /\ grossProceeds \in Int
         /\ vault.deposits \in Nat /\ vault.deployed \in Nat
<1>1. /\ grossProceeds \in Int
      /\ vault.deposits \in Nat /\ vault.deployed \in Nat
  BY DEF WorldTypes, VaultType, IpoType, grossProceeds
<1> HIDE DEF grossProceeds
<1> QED
  BY <1>1 DEF Share

LEMMA PostsEscrow ==
  ASSUME LedgerTyped, NEW entry, post(entry)
  PROVE  /\ ledger["CHAIN_ESCROW"] \in Int
         /\ ledger'["CHAIN_ESCROW"] =
               ledger["CHAIN_ESCROW"] +
               (IF "CHAIN_ESCROW" \in DOMAIN entry THEN entry["CHAIN_ESCROW"] ELSE 0)
BY DEF LedgerTyped, LedgerType, post, Posted, Accounts, CashAccounts

LEMMA ShareStays ==
  ASSUME WorldTypes, ChainCash, Onward, LedgerTyped,
         \A v \in Workers : (Booking(v)' <=> Booking(v)) /\ (Netting(v)' <=> Netting(v)),
         subscription' = "booked" <=> subscription = "booked",
         redemption' = "booked" <=> redemption = "booked",
         vault'.phase \in Claimed => vault.phase \in Claimed,
         vault'.deposits = vault.deposits, vault'.deployed = vault.deployed,
         ledger'["CHAIN_ESCROW"] = ledger["CHAIN_ESCROW"]
  PROVE  Even
<1>1. vault'.phase \in Claimed <=> vault.phase \in Claimed
  BY DEF Onward
<1>2. vault.phase \in Claimed => grossProceeds' = grossProceeds
  BY DEF Onward
<1>3. redemption = "booked" => vault.phase \in Claimed
  BY DEF ChainCash
<1>4. Share' = Share
  BY <1>1, <1>2, <1>3 DEF Share
<1>5. ledger["CHAIN_ESCROW"] \in Int /\ Share \in Int
  BY ShareTyped DEF LedgerTyped, LedgerType, Accounts, CashAccounts
<1> QED
  BY <1>4, <1>5 DEF Even

\* What remains to be shown of the step of a tick that books nothing.
LEMMA PlainTick ==
  ASSUME IInv, LedgerTyped, Course, ChainCash', Onward, NEW w \in Workers, ~At(w, "idle"),
         ~Booking(w), ~Netting(w), ~Netted(w),
         NEW place, place # "idle", NEW found, "netProceedsUsdc" \notin found,
         Handles(w, place, found),
         tick[w].target = "Deployed" => place # "book",
         tick[w].target = "Claimable" => place \notin {"book", "bookNet", "save"},
         UNCHANGED <<subscription, redemption, spent>>,
         vault'.phase \in Claimed => vault.phase \in Claimed,
         vault'.deposits = vault.deposits, vault'.deployed = vault.deployed,
         ledger'["CHAIN_ESCROW"] = ledger["CHAIN_ESCROW"]
  PROVE  Marks' /\ Orderly' /\ Even
<1>1. Marks'
  BY MarksHandled DEF Course
<1>2. Orderly'
  BY OrderlyHandled DEF Course
<1>3. ASSUME NEW v \in Workers
      PROVE  (Booking(v)' <=> Booking(v)) /\ (Netting(v)' <=> Netting(v))
  <2>1. CASE v = w
    BY <2>1 DEF Handles, Lands, Ends, Idle, Booking, Netting, Handling, At
  <2>2. CASE v # w
    BY <2>2 DEF Handles, Lands, Ends, Others, Booking, Netting, Handling, At
  <2> QED
    BY <2>1, <2>2
<1> QED
  BY <1>1, <1>2, <1>3, ShareStays DEF Course, IInv

LEMMA SubmitStays ==
  ASSUME NEW w, NEW to \in Phases \ {"Claimable", "Scheduled"},
         NEW after, after.phase = to, after.deployed = vault.deployed,
         after.deposits = vault.deposits, NEW place, NEW found, Submit(w, to, after, place, found)
  PROVE  /\ vault'.phase \in Claimed => vault.phase \in Claimed
         /\ vault'.deposits = vault.deposits /\ vault'.deployed = vault.deployed
<1>1. CASE UNCHANGED vault
  BY <1>1
<1>2. CASE vault.phase \in From(to) /\ vault' = after
  <2>1. to \in Claimed => vault.phase \in Claimed
    <3>1. CASE to \in {"Winding", "Concluded"}
      BY <1>2, <3>1, FromPaid
    <3>2. CASE to \notin {"Winding", "Concluded"}
      BY <3>2 DEF Claimed
    <3> QED
      BY <3>1, <3>2
  <2> QED
    BY <1>2, <2>1
<1> QED
  BY <1>1, <1>2 DEF Submit

\* A tick that asks the chain for a phase with which no dollars move.
LEMMA PlainSubmit ==
  ASSUME IInv, LedgerTyped, Course, ChainCash', Onward, NEW w \in Workers,
         NEW to \in Phases \ {"Deployed", "Claimable", "Scheduled"}, tick[w].target = to,
         ~At(w, "idle"), NEW after, after.phase = to, after.deployed = vault.deployed,
         after.deposits = vault.deposits, NEW found, "netProceedsUsdc" \notin found,
         Submit(w, to, after, "save", found),
         UNCHANGED <<subscription, redemption, spent, ledger>>
  PROVE  Marks' /\ Orderly' /\ Even
<1>1. ~Booking(w) /\ ~Netting(w) /\ ~Netted(w)
  BY DEF Booking, Netting, Netted, Handling
<1>2. Handles(w, "save", found)
  BY SubmitHandles DEF IInv
<1> QED
  BY <1>1, <1>2, SubmitStays, PlainTick

\* A tick that only looks, and goes on or stops.
LEMMA PlainGoes ==
  ASSUME IInv, LedgerTyped, Course, ChainCash', Onward, NEW w \in Workers, ~At(w, "idle"),
         ~Booking(w), ~Netting(w), ~Netted(w),
         NEW place, place # "idle", NEW found, "netProceedsUsdc" \notin found,
         Learn(w, place, found),
         tick[w].target = "Deployed" => place # "book",
         tick[w].target = "Claimable" => place \notin {"book", "bookNet", "save"},
         UNCHANGED <<vault, subscription, redemption, spent>>,
         ledger'["CHAIN_ESCROW"] = ledger["CHAIN_ESCROW"]
  PROVE  Marks' /\ Orderly' /\ Even
<1>1. Handles(w, place, found)
  BY LearnLands DEF Handles, IInv
<1> QED
  BY <1>1, PlainTick

LEMMA PlainPasses ==
  ASSUME IInv, LedgerTyped, Course, ChainCash', Onward, NEW w \in Workers, ~At(w, "idle"),
         ~Booking(w), ~Netting(w), ~Netted(w), NEW place, place # "idle", Goto(w, place),
         tick[w].target = "Deployed" => place # "book",
         tick[w].target = "Claimable" => place \notin {"book", "bookNet", "save"},
         UNCHANGED <<vault, subscription, redemption, spent>>,
         ledger'["CHAIN_ESCROW"] = ledger["CHAIN_ESCROW"]
  PROVE  Marks' /\ Orderly' /\ Even
<1>1. Handles(w, place, {}) /\ "netProceedsUsdc" \notin {}
  BY GotoLands DEF Handles, IInv
<1> QED
  BY <1>1, PlainTick

LEMMA PlainStops ==
  ASSUME IInv, LedgerTyped, Course, ChainCash', Onward, NEW w \in Workers, ~At(w, "idle"),
         ~Booking(w), ~Netting(w), ~Netted(w),
         wait(w) \/ park(w) \/ UNCHANGED <<mandate, tick>>,
         UNCHANGED <<vault, subscription, redemption, spent>>,
         ledger'["CHAIN_ESCROW"] = ledger["CHAIN_ESCROW"]
  PROVE  Marks' /\ Orderly' /\ Even
<1>1. Handles(w, "run", {}) /\ "netProceedsUsdc" \notin {}
  BY StopEnds DEF Handles, IInv
<1>2. "run" \notin {"idle", "book", "bookNet", "save"}
  OBVIOUS
<1> QED
  BY <1>1, <1>2, PlainTick

LEMMA SyncEven ==
  ASSUME IInv, LedgerTyped, Course, ChainCash', Onward, NEW w \in Workers, sync(w)
  PROVE  Marks' /\ Orderly' /\ Even
<1> DEFINE synced == [mandate EXCEPT !.phase = vault.phase]
           parked == [synced EXCEPT !.state = "NEEDS_MANUAL"]
<1>0. DriverTypes /\ WorldTypes
  BY DEF IInv
<1>1. /\ synced.facts = mandate.facts /\ synced.requested = mandate.requested
      /\ synced.phase = vault.phase
      /\ parked.facts = mandate.facts /\ parked.requested = mandate.requested
      /\ parked.phase = vault.phase
  BY <1>0 DEF DriverTypes, MandateType
<1> HIDE DEF synced, parked
<1>2. At(w, "head") /\ UNCHANGED <<vault, ipo, ledger, spent, subscription, redemption>>
  BY DEF sync, worldVars, intentVars
<1>3. /\ mandate'.facts = mandate.facts /\ mandate'.requested = mandate.requested
      /\ mandate'.phase \in {mandate.phase, vault.phase}
      /\ \/ Ends(w)
         \/ /\ Others(w)
            /\ tick'[w].at = "run" /\ tick'[w].target = tick[w].target
            /\ tick'[w].facts = tick[w].facts /\ tick'[w].stale = tick[w].stale
  <2>1. CASE Throw(w)
    BY <1>0, <2>1, ThrowEnds
  <2>2. CASE SaveAndEnd(w, synced) \/ SaveAndEnd(w, parked)
    BY <1>0, <1>1, <2>2, SaveEnds
  <2>3. CASE Goto(w, "run")
    BY <1>0, <2>3, GotoLands DEF Lands
  <2>4. CASE /\ mandate' = synced
             /\ tick' = [Outdated(w) EXCEPT ![w].at = "run", ![w].phase = vault.phase]
    <3> DEFINE t == [[tick[w] EXCEPT !.at = "run"] EXCEPT !.phase = vault.phase]
    <3>1. tick' = [Outdated(w) EXCEPT ![w] = t]
      BY <2>4 DEF Outdated
    <3>2. /\ t.at = "run" /\ t.target = tick[w].target
          /\ t.facts = tick[w].facts /\ t.stale = tick[w].stale
      BY <1>0 DEF DriverTypes, TickType
    <3> HIDE DEF t
    <3>3. tick'[w] = t /\ \A v \in Workers \ {w} : tick'[v] = Outdated(w)[v]
      BY <3>1 DEF Outdated
    <3>4. Others(w)
      BY <1>0, <3>3, OutdatedOthers DEF Others
    <3> QED
      BY <1>1, <2>4, <3>2, <3>3, <3>4
  <2> QED
    BY <2>1, <2>2, <2>3, <2>4 DEF sync, synced, parked
<1>4. ASSUME NEW v \in Workers
      PROVE  /\ Booking(v)' <=> Booking(v)
             /\ Netting(v)' <=> Netting(v)
             /\ Netted(v)' <=> Netted(v)
             /\ At(v, "idle") => At(v, "idle")'
             /\ At(v, "idle")' => tick'[v].target = "None"
             /\ tick'[v].facts \subseteq tick[v].facts
             /\ tick'[v].target \in {"None", tick[v].target}
  <2>1. CASE v = w
    BY <1>2, <1>3, <2>1 DEF Ends, Idle, Booking, Netting, Netted, Handling, At
  <2>2. CASE v # w
    BY <1>3, <2>2 DEF Course, Marks, Ends, Others, Booking, Netting, Netted, Handling, At
  <2> QED
    BY <2>1, <2>2
<1>5. Marks'
  BY <1>2, <1>3, <1>4 DEF Course, Marks
<1>6. Even
  BY <1>0, <1>2, <1>4, ShareStays DEF Course
<1>7. ASSUME Calm
      PROVE  /\ Alone'
             /\ \A v \in Workers : ~tick'[v].stale
             /\ vault'.phase \in Claimed => Settled'
  <2>1. /\ Alone
        /\ \A v \in Workers : ~tick[v].stale
        /\ vault.phase \in Claimed => Settled
    BY <1>7 DEF Course, Orderly
  <2>2. \A v \in Workers \ {w} : At(v, "idle") /\ tick'[v] = tick[v]
    BY <1>2, <1>3, <2>1 DEF Alone, At, Ends, Others
  <2>3. ~tick'[w].stale
    BY <1>3, <2>1 DEF Ends, Idle
  <2>4. Alone'
    BY <2>2 DEF Alone, At
  <2>5. ASSUME vault'.phase \in Claimed
        PROVE  Settled'
    <3>1. \A v \in Workers : ~Netting(v) /\ ~Netted(v)
      BY <1>2, <2>2 DEF Netting, Netted, Handling, At
    <3>2. /\ mandate.phase \in Claimed /\ mandate.requested \in After
          /\ \A v \in Workers : tick[v].target \in After
      BY <1>2, <2>1, <2>5, <3>1 DEF Settled
    <3>3. \A v \in Workers : tick'[v].target \in After
      BY <1>4, <3>2 DEF After
    <3> QED
      BY <1>2, <1>3, <2>5, <3>2, <3>3 DEF Settled
  <2> QED
    BY <2>1, <2>2, <2>3, <2>4, <2>5
<1>8. Orderly'
  BY <1>2, <1>7 DEF Orderly, Calm
<1> QED
  BY <1>5, <1>6, <1>8

LEMMA AdvanceEven ==
  ASSUME IInv, LedgerTyped, Course, ChainCash', Onward, NEW w \in Workers, advance(w)
  PROVE  Marks' /\ Orderly' /\ Even
<1> DEFINE saved == [mandate EXCEPT !.phase = tick[w].target, !.requested = "None",
                                    !.facts = @ \cup tick[w].facts]
<1>0. DriverTypes /\ WorldTypes
  BY DEF IInv
<1>1. /\ saved.facts = mandate.facts \cup tick[w].facts
      /\ saved.requested = "None" /\ saved.phase = tick[w].target
  BY <1>0 DEF DriverTypes, MandateType
<1>2. /\ At(w, "save") /\ UNCHANGED <<vault, ipo, ledger, spent, subscription, redemption>>
      /\ SaveAndEnd(w, saved)
  BY DEF advance, worldVars, intentVars
<1> HIDE DEF saved
<1>3. /\ Ends(w)
      /\ mandate' = IF tick[w].stale THEN mandate ELSE saved
  BY <1>0, <1>2, SaveEnds
<1>4. ASSUME NEW v \in Workers
      PROVE  /\ Booking(v)' <=> Booking(v)
             /\ Netting(v)' <=> Netting(v)
             /\ Netted(v)' => Netted(v)
             /\ At(v, "idle")' => tick'[v].target = "None"
             /\ tick'[v].facts \subseteq tick[v].facts
  <2>1. CASE v = w
    BY <1>2, <1>3, <2>1 DEF Ends, Idle, Booking, Netting, Netted, Handling, At
  <2>2. CASE v # w
    BY <1>3, <2>2 DEF Course, Marks, Ends, Others, Booking, Netting, Netted, Handling, At
  <2> QED
    BY <2>1, <2>2
<1>5. "netProceedsUsdc" \in mandate'.facts => vault.phase \in Claimed
  BY <1>1, <1>3 DEF Course, Marks
<1>6. Marks'
  BY <1>2, <1>4, <1>5 DEF Course, Marks
<1>7. Even
  BY <1>0, <1>2, <1>4, ShareStays DEF Course
<1>8. ASSUME Calm
      PROVE  /\ Alone'
             /\ \A v \in Workers : ~tick'[v].stale
             /\ vault'.phase \in Claimed => Settled'
  <2>1. /\ Alone
        /\ \A v \in Workers : ~tick[v].stale
        /\ vault.phase \in Claimed => Settled
    BY <1>8 DEF Course, Orderly
  <2>2. \A v \in Workers \ {w} : At(v, "idle") /\ tick'[v] = tick[v]
    BY <1>2, <1>3, <2>1 DEF Alone, At, Ends, Others
  <2>3. tick'[w] = Idle /\ mandate' = saved
    BY <1>3, <2>1 DEF Ends
  <2>4. Alone' /\ \A v \in Workers : ~tick'[v].stale
    BY <2>1, <2>2, <2>3 DEF Alone, At, Idle
  <2>5. ASSUME vault'.phase \in Claimed
        PROVE  Settled'
    <3>1. \A v \in Workers : tick'[v].target \in After
      BY <2>2, <2>3 DEF Course, Marks, Idle, After
    <3>2. tick[w].target \in Claimed
      <4>1. tick[w].target # "None"
        BY <1>2 DEF IInv, Seeing, At
      <4>2. CASE Netting(w) \/ Netted(w)
        BY <4>2 DEF Netting, Netted, Handling, Claimed
      <4>3. CASE tick[w].target \in After
        BY <4>1, <4>3 DEF After, Claimed
      <4>4. \A v \in Workers \ {w} : ~Netting(v) /\ ~Netted(v)
        BY <2>2 DEF Netting, Netted, Handling, At
      <4> QED
        BY <1>2, <2>1, <2>5, <4>2, <4>3, <4>4 DEF Settled
    <3> QED
      BY <1>1, <2>3, <3>1, <3>2 DEF Settled, After
  <2> QED
    BY <2>4, <2>5
<1>9. Orderly'
  BY <1>2, <1>8 DEF Orderly, Calm
<1> QED
  BY <1>6, <1>7, <1>9

LEMMA CrashEven ==
  ASSUME IInv, Course, ChainCash', Onward, NEW w \in Workers, crash(w)
  PROVE  Marks' /\ Orderly' /\ Even
<1>1. DriverTypes /\ Throw(w) /\ vault' = vault /\ ~At(w, "idle")
  BY DEF crash, IInv, worldVars
<1>2. spent'.crashes # 0
  BY <1>1 DEF crash, DriverTypes
<1>3. Handles(w, "run", {})
  BY <1>1, ThrowEnds DEF Handles, SameCourse
<1>4. Marks'
  BY <1>1, <1>3, MarksHandled DEF Course
<1> QED
  BY <1>2, <1>4 DEF Orderly, Calm, Even, Counted

\* The handlers that book nothing of the escrow.
LEMMA PlainEven ==
  ASSUME IInv, LedgerTyped, Course, ChainCash', Onward, NEW w \in Workers,
         \/ \E to \in Phases : simple(w, to)
         \/ placeIpoSubscription(w) \/ toSourced(w) \/ markListed(w) \/ toRealized(w)
         \/ markRealized(w)
  PROVE  Marks' /\ Orderly' /\ Even
<1>0. WorldTypes
  BY DEF IInv
<1>1. ASSUME NEW to \in Phases, simple(w, to)
      PROVE  Marks' /\ Orderly' /\ Even
  <2>1. /\ UNCHANGED <<subscription, redemption, spent, ledger>>
        /\ ~At(w, "idle") /\ tick[w].target = to
        /\ to \in {"Funding", "Sealed", "Sourcing", "Winding", "Concluded", "Cancelled"}
        /\ ~Booking(w) /\ ~Netting(w) /\ ~Netted(w)
    BY <1>1 DEF simple, intentVars, Handling, At, Booking, Netting, Netted
  <2>2. CASE Submit(w, to, Into(to), "save", {})
    BY <1>0, <2>1, <2>2, IntoKeepsCash, PlainSubmit
  <2>3. CASE (wait(w) \/ park(w)) /\ UNCHANGED vault
    BY <2>1, <2>3, PlainStops
  <2> QED
    BY <1>1, <2>2, <2>3 DEF simple
<1>2. CASE placeIpoSubscription(w)
  <2>1. /\ UNCHANGED <<vault, subscription, redemption, spent, ledger>>
        /\ ~At(w, "idle") /\ tick[w].target = "Sourced"
        /\ ~Booking(w) /\ ~Netting(w) /\ ~Netted(w)
        /\ park(w) \/ UNCHANGED <<mandate, tick>>
    BY <1>2 DEF placeIpoSubscription, intentVars, Handling, At, Booking, Netting, Netted
  <2> QED
    BY <2>1, PlainStops
<1>3. CASE toSourced(w)
  <2>1. /\ UNCHANGED <<subscription, redemption, spent, ledger>>
        /\ ~At(w, "idle") /\ tick[w].target = "Sourced"
        /\ ~Booking(w) /\ ~Netting(w) /\ ~Netted(w)
    BY <1>3 DEF toSourced, intentVars, Handling, At, Booking, Netting, Netted
  <2>2. CASE (wait(w) \/ park(w)) /\ UNCHANGED vault
    BY <2>1, <2>2, PlainStops
  <2>3. "Sourced" \in Phases \ {"Deployed", "Claimable", "Scheduled"}
    BY PhasesAre
  <2>4. ASSUME NEW found \in {{"allocatedQuantity"}, {}},
               Submit(w, "Sourced", Into("Sourced"), "save", found)
        PROVE  Marks' /\ Orderly' /\ Even
    <3>1. "netProceedsUsdc" \notin found
      OBVIOUS
    <3> QED
      BY <1>0, <2>1, <2>3, <2>4, <3>1, IntoKeepsCash, PlainSubmit
  <2> QED
    BY <1>3, <2>2, <2>4 DEF toSourced
<1>4. CASE markListed(w)
  <2> DEFINE after == [Into("Live") EXCEPT !.electing = TRUE]
  <2>1. /\ UNCHANGED <<subscription, redemption, spent, ledger>>
        /\ ~At(w, "idle") /\ tick[w].target = "Live"
        /\ Submit(w, "Live", after, "save", {"allocatedQuantity", "listedTicker"})
    BY <1>4 DEF markListed, intentVars, Handling, At
  <2>2. /\ after.phase = "Live" /\ after.deployed = vault.deployed
        /\ after.deposits = vault.deposits
    BY <1>0 DEF WorldTypes, VaultType, Into
  <2>3. "Live" \in Phases \ {"Deployed", "Claimable", "Scheduled"}
    BY PhasesAre
  <2>4. "netProceedsUsdc" \notin {"allocatedQuantity", "listedTicker"}
    OBVIOUS
  <2> HIDE DEF after
  <2> QED
    BY <2>1, <2>2, <2>3, <2>4, PlainSubmit
<1>5. CASE toRealized(w)
  <2>1. /\ UNCHANGED <<vault, subscription, redemption, spent, ledger>>
        /\ ~At(w, "idle") /\ tick[w].target = "Realized"
        /\ ~Booking(w) /\ ~Netting(w) /\ ~Netted(w)
    BY <1>5 DEF toRealized, intentVars, Handling, At, Booking, Netting, Netted
  <2>2. CASE Goto(w, "save")
    BY <2>1, <2>2, PlainPasses
  <2>3. CASE Goto(w, "realize")
    BY <2>1, <2>3, PlainPasses
  <2>4. CASE wait(w) \/ park(w) \/ UNCHANGED <<mandate, tick>>
    BY <2>1, <2>4, PlainStops
  <2> QED
    BY <1>5, <2>2, <2>3, <2>4 DEF toRealized
<1>6. CASE markRealized(w)
  <2>1. /\ UNCHANGED <<subscription, redemption, spent, ledger>>
        /\ ~At(w, "idle") /\ tick[w].target = "Realized"
        /\ Submit(w, "Realized", Into("Realized"), "save", {"grossProceedsHkd"})
    BY <1>6 DEF markRealized, intentVars, Handling, At
  <2>2. "Realized" \in Phases \ {"Deployed", "Claimable", "Scheduled"}
    BY PhasesAre
  <2>3. "netProceedsUsdc" \notin {"grossProceedsHkd"}
    OBVIOUS
  <2> QED
    BY <1>0, <2>1, <2>2, <2>3, IntoKeepsCash, PlainSubmit
<1> QED
  BY <1>1, <1>2, <1>3, <1>4, <1>5, <1>6

\* A posting that does not touch the escrow.
LEMMA PostsElsewhere ==
  ASSUME LedgerTyped, NEW x \in Int, NEW y \in Int,
         \/ post(convertedToHKD(x)) \/ post(brokerFunded(x)) \/ post(vaultAllocated(x, y))
         \/ post(sentToMsb(x)) \/ post(convertedToUSDC(x))
  PROVE  ledger'["CHAIN_ESCROW"] = ledger["CHAIN_ESCROW"]
<1>1. /\ "CHAIN_ESCROW" \notin DOMAIN convertedToHKD(x)
      /\ "CHAIN_ESCROW" \notin DOMAIN brokerFunded(x)
      /\ "CHAIN_ESCROW" \notin DOMAIN vaultAllocated(x, y)
      /\ "CHAIN_ESCROW" \notin DOMAIN sentToMsb(x)
      /\ "CHAIN_ESCROW" \notin DOMAIN convertedToUSDC(x)
  BY DEF convertedToHKD, brokerFunded, vaultAllocated, sentToMsb, convertedToUSDC
<1>2. ASSUME NEW entry, post(entry), "CHAIN_ESCROW" \notin DOMAIN entry
      PROVE  ledger'["CHAIN_ESCROW"] = ledger["CHAIN_ESCROW"]
  BY <1>2, PostsEscrow
<1> QED
  BY <1>1, <1>2

\* The handlers whose postings move the dollars between other accounts.
LEMMA ElsewhereEven ==
  ASSUME IInv, LedgerTyped, Course, ChainCash', Onward, NEW w \in Workers,
         \/ awaitCrossing(w) \/ awaitWire(w) \/ toLive(w) \/ toClaimable(w) \/ sendHome(w)
  PROVE  Marks' /\ Orderly' /\ Even
<1>0. /\ vault.deployed \in Int /\ ipo.allocated \in Int
      /\ vault.deployed - ipo.allocated \in Int /\ grossProceeds \in Int
  BY ShareTyped DEF IInv, WorldTypes, VaultType, IpoType
<1> HIDE DEF grossProceeds
<1>1. /\ ~At(w, "idle") /\ ~Booking(w) /\ ~Netting(w) /\ ~Netted(w)
      /\ UNCHANGED <<vault, subscription, redemption, spent>>
  BY DEF awaitCrossing, awaitWire, toLive, toClaimable, sendHome, intentVars, worldVars,
     Handling, At, Booking, Netting, Netted
<1>2. ledger'["CHAIN_ESCROW"] = ledger["CHAIN_ESCROW"]
  <2>1. CASE UNCHANGED ledger
    BY <2>1
  <2>2. CASE \/ post(convertedToHKD(vault.deployed)) \/ post(brokerFunded(vault.deployed))
             \/ post(vaultAllocated(ipo.allocated, vault.deployed - ipo.allocated))
             \/ post(sentToMsb(grossProceeds))
    BY <1>0, <2>2, PostsElsewhere
  <2> QED
    BY <2>1, <2>2 DEF awaitCrossing, awaitWire, toLive, toClaimable, sendHome
<1>3. CASE awaitCrossing(w)
  <2>1. tick[w].target = "Deployed"
    BY <1>3 DEF awaitCrossing, Handling
  <2>2. Learn(w, "pay", {"convertedAmount"}) \/ wait(w) \/ park(w) \/ UNCHANGED <<mandate, tick>>
    BY <1>3 DEF awaitCrossing
  <2>3. "netProceedsUsdc" \notin {"convertedAmount"}
    OBVIOUS
  <2>4. CASE Learn(w, "pay", {"convertedAmount"})
    BY <1>1, <1>2, <2>1, <2>3, <2>4, PlainGoes
  <2> QED
    BY <1>1, <1>2, <2>2, <2>4, PlainStops
<1>4. CASE awaitWire(w)
  <2>1. tick[w].target = "Deployed"
    BY <1>4 DEF awaitWire, Handling
  <2>2. Goto(w, "save") \/ wait(w) \/ park(w) \/ UNCHANGED <<mandate, tick>>
    BY <1>4 DEF awaitWire
  <2>3. CASE Goto(w, "save")
    BY <1>1, <1>2, <2>1, <2>3, PlainPasses
  <2> QED
    BY <1>1, <1>2, <2>2, <2>3, PlainStops
<1>5. CASE toLive(w)
  <2>1. Goto(w, "list") \/ wait(w) \/ park(w)
    BY <1>5 DEF toLive
  <2>2. CASE Goto(w, "list")
    BY <1>1, <1>2, <2>2, PlainPasses
  <2> QED
    BY <1>1, <1>2, <2>1, <2>2, PlainStops
<1>6. CASE toClaimable(w)
  <2>1. Goto(w, "send") \/ Goto(w, "settle") \/ wait(w) \/ park(w)
    BY <1>6 DEF toClaimable
  <2>2. CASE Goto(w, "send")
    BY <1>1, <1>2, <2>2, PlainPasses
  <2>3. CASE Goto(w, "settle")
    BY <1>1, <1>2, <2>3, PlainPasses
  <2> QED
    BY <1>1, <1>2, <2>1, <2>2, <2>3, PlainStops
<1>7. CASE sendHome(w)
  <2>1. Goto(w, "run")
    BY <1>7 DEF sendHome
  <2> QED
    BY <1>1, <1>2, <2>1, PlainPasses
<1> QED
  BY <1>3, <1>4, <1>5, <1>6, <1>7

\* The dollars are deployed, and the tick that deployed them is to book it.
LEMMA DeployEven ==
  ASSUME IInv, LedgerTyped, Course, ChainCash', Onward, NEW w \in Workers, deployCapital(w)
  PROVE  Marks' /\ Orderly' /\ Even
<1> DEFINE after == [Into("Deployed") EXCEPT !.usdc = 0, !.deployed = vault.deposits]
<1>0. /\ WorldTypes /\ DriverTypes /\ vault.deployed \in Nat /\ vault.deposits \in Nat
      /\ after.phase = "Deployed" /\ after.deployed = vault.deposits
      /\ after.deposits = vault.deposits
  BY DEF IInv, WorldTypes, VaultType, Into
<1> HIDE DEF after
<1>1. /\ UNCHANGED <<subscription, redemption, spent, ledger>>
      /\ ~At(w, "idle") /\ tick[w].target = "Deployed"
      /\ ~Booking(w) /\ ~Netting(w) /\ ~Netted(w)
      /\ "netProceedsUsdc" \notin {} /\ "book" # "idle"
  BY DEF deployCapital, intentVars, Handling, At, Booking, Netting, Netted
<1>2. CASE Goto(w, "convert") /\ UNCHANGED vault
  BY <1>1, <1>2, PlainPasses
<1>3. CASE vault.deployed = 0 /\ Submit(w, "Deployed", after, "book", {})
  <2>1. Handles(w, "book", {})
    BY <1>0, <1>3, SubmitHandles
  <2>2. CASE Ends(w) /\ vault' = vault
    <3>1. tick'[w].at = "idle"
      BY <2>2 DEF Ends, Idle
    <3>2. \A v \in Workers : (Booking(v)' <=> Booking(v)) /\ (Netting(v)' <=> Netting(v))
      BY <1>1, <2>2, <3>1 DEF Ends, Others, Booking, Netting, Handling, At
    <3>3. Even
      BY <1>0, <1>1, <2>2, <3>2, ShareStays DEF Course
    <3>4. Orderly'
      BY <1>1, <2>1, <2>2, OrderlyHandled DEF Course
    <3>5. vault.phase \in Paid => vault'.deployed = 0
      BY <1>3, <2>2
    <3>6. Marks'
      <4>1. Handles(w, "run", {}) /\ "run" \notin {"idle", "book", "bookNet", "save"}
        <5>1. mandate' = mandate \/ Lands(w, "book", {}) \/ SameCourse
          BY <2>1 DEF Handles
        <5>2. ~Lands(w, "book", {})
          BY <3>1 DEF Lands
        <5> QED
          BY <2>2, <5>1, <5>2 DEF Handles, SameCourse
      <4> QED
        BY <1>1, <4>1, MarksHandled DEF Course
    <3> QED
      BY <3>3, <3>4, <3>6
  <2>3. CASE /\ Lands(w, "book", {})
             /\ \/ vault' = vault /\ vault.phase = "Deployed"
                \/ vault' = after /\ vault.phase \in From("Deployed")
    <3>1. /\ vault'.phase = "Deployed" /\ vault'.phase \in Paid \ Claimed
          /\ vault.phase \notin Claimed /\ vault'.deposits = vault.deposits
      BY <1>0, <2>3, FromPaid DEF Paid, Invested, Claimed
    <3>2. vault'.deployed = 0 \/ \A v \in Workers : ~Booking(v)
      BY <1>3, <2>3, FromPaid DEF Course, Marks
    <3>3. Marks'
      BY <1>1, <2>1, <3>1, <3>2, MarksHandled DEF Course
    <3>4. Orderly'
      BY <1>1, <2>1, <3>1, OrderlyHandled DEF Course
    <3>5. Booking(w)'
      BY <1>1, <2>3 DEF Lands, Booking, Handling, At
    <3>6. Share' = (IF subscription = "booked" THEN vault.deposits ELSE 0) - 0 + 0 - 0
      BY <1>1, <3>1, <3>5 DEF Share, Course, ChainCash
    <3>7. Share = (IF subscription = "booked" THEN vault.deposits ELSE 0) - 0 + 0 - 0
      BY <1>3, <3>1 DEF Share, Course, ChainCash
    <3>8. ledger["CHAIN_ESCROW"] \in Int /\ Share \in Int
      BY <1>0, ShareTyped DEF LedgerTyped, LedgerType, Accounts, CashAccounts
    <3>9. Even
      BY <1>1, <3>6, <3>7, <3>8 DEF Even
    <3> QED
      BY <3>3, <3>4, <3>9
  <2>4. DriverTypes /\ Submit(w, "Deployed", after, "book", {})
    BY <1>0, <1>3
  <2>5. \/ Lands(w, "book", {}) /\ vault' = vault /\ vault.phase = "Deployed"
        \/ Lands(w, "book", {}) /\ vault' = after /\ vault.phase \in From("Deployed")
        \/ vault' = vault /\ vault.phase \notin From("Deployed") \cup {"Deployed"} /\ Ends(w)
    BY <2>4, SubmitHandles
  <2> QED
    BY <2>2, <2>3, <2>5
<1> QED
  BY <1>2, <1>3 DEF deployCapital, after

LEMMA BookDeployedEven ==
  ASSUME IInv, LedgerTyped, Course, ChainCash', Onward, NEW w \in Workers, bookDeployed(w)
  PROVE  Marks' /\ Orderly' /\ Even
<1>0. WorldTypes /\ DriverTypes
  BY DEF IInv
<1>1. /\ UNCHANGED <<vault, ipo, subscription, redemption, spent>>
      /\ ~At(w, "idle") /\ tick[w].target = "Deployed" /\ Booking(w)
      /\ ~Netting(w) /\ ~Netted(w)
      /\ "netProceedsUsdc" \notin {} /\ Goto(w, "convert")
      /\ post(vaultDeployed(vault.deployed))
  BY DEF bookDeployed, worldVars, intentVars, Handling, At, Booking, Netting, Netted
<1>2. Lands(w, "convert", {}) /\ Handles(w, "convert", {})
  BY <1>0, <1>1, GotoLands DEF Handles
<1>3. Marks'
  BY <1>1, <1>2, MarksHandled DEF Course
<1>4. Orderly'
  BY <1>1, <1>2, OrderlyHandled DEF Course
<1>5. ledger'["CHAIN_ESCROW"] = ledger["CHAIN_ESCROW"] - vault.deployed
  <2>1. /\ "CHAIN_ESCROW" \in DOMAIN vaultDeployed(vault.deployed)
        /\ vaultDeployed(vault.deployed)["CHAIN_ESCROW"] = -vault.deployed
    BY DEF vaultDeployed
  <2>2. vault.deployed \in Int
    BY <1>0, ShareTyped
  <2> QED
    BY <1>1, <2>1, <2>2, PostsEscrow
<1>6. grossProceeds' = grossProceeds
  BY <1>1 DEF grossProceeds
<1>7. \A v \in Workers : Netting(v)' <=> Netting(v)
  BY <1>1, <1>2 DEF Lands, Others, Netting, Handling, At
<1>8. vault.deployed # 0 => \A v \in Workers : ~Booking(v)'
  BY <1>1, <1>2 DEF Lands, Others, Booking, Handling, At, Course, Marks
<1>9. Share' = Share - vault.deployed
  <2> DEFINE paid == IF subscription = "booked" THEN vault.deposits ELSE 0
             back == IF vault.phase \in Claimed /\ ~\E v \in Workers : Netting(v)
                     THEN grossProceeds ELSE 0
             out == IF redemption = "booked" THEN grossProceeds ELSE 0
  <2>1. Share = paid - 0 + back - out
    BY <1>1 DEF Share
  <2>2. Share' = paid - vault.deployed + back - out
    BY <1>1, <1>6, <1>7, <1>8 DEF Share
  <2>3. paid \in Int /\ back \in Int /\ out \in Int /\ vault.deployed \in Int
    BY <1>0, ShareTyped
  <2> HIDE DEF paid, back, out
  <2> QED
    BY <2>1, <2>2, <2>3
<1>10. ledger["CHAIN_ESCROW"] \in Int /\ Share \in Int /\ vault.deployed \in Int
  BY <1>0, ShareTyped DEF LedgerTyped, LedgerType, Accounts, CashAccounts
<1>11. Even
  BY <1>5, <1>9, <1>10 DEF Even
<1> QED
  BY <1>3, <1>4, <1>11

\* The dollars come back, and the tick that settled is to book it.  None settles
\* again what is settled, as long as ticks neither overlap nor break off.
LEMMA SettleEven ==
  ASSUME IInv, LedgerTyped, Course, ChainCash', Onward, NEW w \in Workers, settleVault(w)
  PROVE  Marks' /\ Orderly' /\ Even
<1> DEFINE after == [Into("Claimable") EXCEPT !.usdc = @ + grossProceeds]
           place == IF "netProceedsUsdc" \in tick[w].facts THEN "save" ELSE "book"
<1>0. /\ WorldTypes /\ DriverTypes
      /\ after.phase = "Claimable" /\ after.deployed = vault.deployed
      /\ after.deposits = vault.deposits
  BY DEF IInv, WorldTypes, VaultType, Into
<1>1. /\ UNCHANGED <<subscription, redemption, spent, ledger>>
      /\ ~At(w, "idle") /\ tick[w].target = "Claimable"
      /\ ~Booking(w) /\ ~Netting(w) /\ ~Netted(w)
      /\ Submit(w, "Claimable", after, place, {}) /\ At(w, "settle")
  BY DEF settleVault, intentVars, Handling, At, Booking, Netting, Netted
<1>2. place \in {"book", "save"} /\ place # "idle" /\ "netProceedsUsdc" \notin {}
  OBVIOUS
<1>3. vault.phase \notin Claimed => place = "book"
  BY DEF Course, Marks
<1> HIDE DEF after, place
<1>4. Handles(w, place, {})
  BY <1>0, <1>1, SubmitHandles
<1>5. CASE Ends(w) /\ vault' = vault
  <2>1. tick'[w].at = "idle"
    BY <1>5 DEF Ends, Idle
  <2>2. \A v \in Workers : (Booking(v)' <=> Booking(v)) /\ (Netting(v)' <=> Netting(v))
    BY <1>1, <1>5, <2>1 DEF Ends, Others, Booking, Netting, Handling, At
  <2>3. Even
    BY <1>0, <1>1, <1>5, <2>2, ShareStays DEF Course
  <2>4. Orderly'
    BY <1>1, <1>2, <1>4, <1>5, OrderlyHandled DEF Course
  <2>5. Handles(w, "run", {}) /\ "run" \notin {"idle", "book", "bookNet", "save"}
    <3>1. ~Lands(w, place, {})
      BY <1>2, <2>1 DEF Lands
    <3> QED
      BY <1>4, <1>5, <3>1 DEF Handles, SameCourse
  <2>6. Marks'
    BY <1>1, <1>2, <2>5, MarksHandled DEF Course
  <2> QED
    BY <2>3, <2>4, <2>6
<1>6. CASE Lands(w, place, {}) /\ vault' = vault /\ vault.phase = "Claimable"
  <2>1. vault.phase \in Claimed /\ vault'.phase \in Claimed
    BY <1>6 DEF Claimed
  <2>2. Marks'
    BY <1>1, <1>2, <1>4, <2>1, MarksHandled DEF Course
  <2>3. Orderly'
    BY <1>1, <1>2, <1>4, <2>1, OrderlyHandled DEF Course
  <2>4. ~Calm
    <3>1. ASSUME Calm
          PROVE  FALSE
      <4>1. Alone /\ Settled
        BY <2>1, <3>1 DEF Course, Orderly
      <4>2. \A v \in Workers : ~Netting(v) /\ ~Netted(v)
        BY <1>1, <4>1 DEF Alone, Netting, Netted, Handling, At
      <4> QED
        BY <1>1, <4>1, <4>2 DEF Settled, After
    <3> QED
      BY <3>1
  <2>5. ~Counted'
    BY <1>0, <1>1, <2>1, <2>4 DEF Counted, Calm, DriverTypes
  <2> QED
    BY <2>2, <2>3, <2>5 DEF Even
<1>7. CASE Lands(w, place, {}) /\ vault' = after /\ vault.phase \in From("Claimable")
  <2>1. /\ vault.phase = "Realized" /\ vault.phase \notin Claimed
        /\ vault'.phase \in Claimed
        /\ vault'.deposits = vault.deposits /\ vault'.deployed = vault.deployed
    BY <1>0, <1>7, FromPaid DEF Claimed
  <2>2. place = "book"
    BY <1>3, <2>1
  <2>3. Netting(w)'
    BY <1>1, <1>7, <2>2 DEF Lands, Netting, Handling, At
  <2>4. Marks'
    BY <1>1, <1>2, <1>4, <2>1, MarksHandled DEF Course
  <2>5. Orderly'
    BY <1>1, <1>2, <1>4, <2>3, OrderlyHandled DEF Course
  <2>6. \A v \in Workers : Booking(v)' <=> Booking(v)
    BY <1>1, <1>7 DEF Lands, Others, Booking, Handling, At
  <2>7. Share' = Share
    BY <1>1, <2>1, <2>3, <2>6 DEF Share, Course, ChainCash
  <2>8. ledger["CHAIN_ESCROW"] \in Int /\ Share \in Int
    BY <1>0, ShareTyped DEF LedgerTyped, LedgerType, Accounts, CashAccounts
  <2>9. Even
    BY <1>1, <2>7, <2>8 DEF Even
  <2> QED
    BY <2>4, <2>5, <2>9
<1> QED
  BY <1>0, <1>1, <1>5, <1>6, <1>7, SubmitHandles

LEMMA BookRepatriatedEven ==
  ASSUME IInv, LedgerTyped, Course, ChainCash', Onward, NEW w \in Workers, bookRepatriated(w)
  PROVE  Marks' /\ Orderly' /\ Even
<1>0. WorldTypes /\ DriverTypes
  BY DEF IInv
<1>1. /\ UNCHANGED <<vault, ipo, subscription, redemption, spent>>
      /\ ~At(w, "idle") /\ tick[w].target = "Claimable" /\ Netting(w)
      /\ ~Booking(w) /\ "netProceedsUsdc" \notin {} /\ Goto(w, "bookNet")
      /\ post(convertedToUSDC(grossProceeds))
  BY DEF bookRepatriated, worldVars, intentVars, Handling, At, Booking, Netting
<1>2. Lands(w, "bookNet", {}) /\ Handles(w, "bookNet", {})
  BY <1>0, <1>1, GotoLands DEF Handles
<1>3. Netting(w)' /\ vault'.phase \in Claimed
  BY <1>1, <1>2 DEF Lands, Netting, Handling, At, Course, Marks
<1>4. Marks'
  BY <1>1, <1>2, <1>3, MarksHandled DEF Course
<1>5. Orderly'
  BY <1>1, <1>2, <1>3, OrderlyHandled DEF Course
<1>6. \A v \in Workers : (Booking(v)' <=> Booking(v)) /\ (Netting(v)' <=> Netting(v))
  BY <1>1, <1>2, <1>3 DEF Lands, Others, Booking, Netting, Handling, At
<1>7. ledger'["CHAIN_ESCROW"] = ledger["CHAIN_ESCROW"]
  BY <1>0, <1>1, ShareTyped, PostsElsewhere
<1>8. Even
  BY <1>0, <1>1, <1>6, <1>7, ShareStays DEF Course
<1> QED
  BY <1>4, <1>5, <1>8

LEMMA BookNetEven ==
  ASSUME IInv, LedgerTyped, Course, ChainCash', Onward, NEW w \in Workers, bookNet(w)
  PROVE  Marks' /\ Orderly' /\ Even
<1>0. WorldTypes /\ DriverTypes
  BY DEF IInv
<1>1. /\ UNCHANGED <<vault, ipo, subscription, redemption, spent>>
      /\ ~At(w, "idle") /\ tick[w].target = "Claimable" /\ Netting(w) /\ ~Booking(w)
      /\ Learn(w, "save", {"netProceedsUsdc"})
      /\ post(vaultSettled(grossProceeds, vault.deposits))
  BY DEF bookNet, worldVars, intentVars, Handling, At, Booking, Netting
<1>2. Lands(w, "save", {"netProceedsUsdc"}) /\ Handles(w, "save", {"netProceedsUsdc"})
  BY <1>0, <1>1, LearnLands DEF Handles
<1>3. Netted(w)' /\ ~Netting(w)' /\ vault.phase \in Claimed /\ vault'.phase \in Claimed
  BY <1>1, <1>2 DEF Lands, Netting, Netted, Handling, At, Course, Marks
<1>4. Marks'
  BY <1>1, <1>2, <1>3, MarksHandled DEF Course
<1>5. Orderly'
  BY <1>1, <1>2, <1>3, OrderlyHandled DEF Course
<1>6. ASSUME Counted'
      PROVE  ledger'["CHAIN_ESCROW"] - ledger["CHAIN_ESCROW"] = Share' - Share
  <2>1. Calm
    BY <1>0, <1>1, <1>3, <1>6 DEF Counted, Calm, DriverTypes
  <2>2. \A v \in Workers \ {w} : At(v, "idle")
    BY <1>1, <2>1 DEF Course, Orderly, Alone
  <2>3. \A v \in Workers : ~Netting(v)' /\ (Booking(v)' <=> Booking(v))
    BY <1>1, <1>2, <1>3, <2>2 DEF Lands, Others, Netting, Booking, Handling, At
  <2>4. grossProceeds' = grossProceeds
    BY <1>1 DEF grossProceeds
  <2> DEFINE paid == IF subscription = "booked" THEN vault.deposits ELSE 0
             held == IF \E v \in Workers : Booking(v) THEN 0 ELSE vault.deployed
             out == IF redemption = "booked" THEN grossProceeds ELSE 0
  <2>5. Share = paid - held + 0 - out
    BY <1>1 DEF Share
  <2>6. Share' = paid - held + grossProceeds - out
    BY <1>1, <1>3, <2>3, <2>4 DEF Share
  <2>7. paid \in Int /\ held \in Int /\ out \in Int /\ grossProceeds \in Int
    BY <1>0, ShareTyped
  <2>8. /\ ledger["CHAIN_ESCROW"] \in Int
        /\ ledger'["CHAIN_ESCROW"] = ledger["CHAIN_ESCROW"] + grossProceeds
    <3>1. /\ "CHAIN_ESCROW" \in DOMAIN vaultSettled(grossProceeds, vault.deposits)
          /\ vaultSettled(grossProceeds, vault.deposits)["CHAIN_ESCROW"] = grossProceeds
      BY DEF vaultSettled
    <3> QED
      BY <1>1, <3>1, PostsEscrow
  <2> HIDE DEF paid, held, out, grossProceeds
  <2> QED
    BY <2>5, <2>6, <2>7, <2>8
<1> QED
  BY <1>4, <1>5, <1>6 DEF Even

-----------------------------------------------------------------------------
(* What begins a tick, the intents and the world.                          *)

LEMMA FewWorkers == IsFiniteSet(Workers)
<1>1. IsFiniteSet({"loop"})
  BY FS_Singleton
<1>2. IsFiniteSet({"loop"} \cup {"request"})
  BY <1>1, FS_AddElement
<1>3. Workers = {"loop"} \cup {"request"}
  BY DEF Workers
<1> QED
  BY <1>2, <1>3

LEMMA BeginEven ==
  ASSUME IInv, LedgerTyped, Course, ChainCash', Onward, NEW w \in Workers, MayBegin(w),
         \A v \in Workers \ {w} :
            /\ tick'[v].at = tick[v].at /\ tick'[v].target = tick[v].target
            /\ tick'[v].facts = tick[v].facts
            /\ At(v, "idle") => tick'[v] = tick[v],
         tick'[w].at = "head", tick'[w].target = mandate'.requested,
         tick'[w].facts = mandate.facts, ~tick'[w].stale,
         mandate'.phase = mandate.phase, mandate'.facts = mandate.facts,
         mandate.phase \in Claimed /\ mandate.requested \in After =>
            mandate'.requested \in After,
         UNCHANGED <<worldVars, intentVars, ledger>>
  PROVE  Marks' /\ Orderly' /\ Even
<1>0. WorldTypes /\ DriverTypes
  BY DEF IInv
<1>1. At(w, "idle") /\ UNCHANGED <<vault, ipo, subscription, redemption, ledger>>
  BY DEF MayBegin, At, worldVars, intentVars
<1>2. ASSUME NEW v \in Workers
      PROVE  /\ Booking(v)' <=> Booking(v)
             /\ Netting(v)' <=> Netting(v)
             /\ Netted(v)' <=> Netted(v)
             /\ At(v, "idle")' => tick'[v].target = "None"
             /\ tick'[v].facts \subseteq tick[v].facts \cup mandate.facts
  <2>1. CASE v = w
    BY <1>1, <2>1 DEF Booking, Netting, Netted, Handling, At
  <2>2. CASE v # w
    BY <2>2 DEF Course, Marks, Booking, Netting, Netted, Handling, At
  <2> QED
    BY <2>1, <2>2
<1>3. Marks'
  BY <1>1, <1>2 DEF Course, Marks
<1>4. Even
  BY <1>0, <1>1, <1>2, ShareStays DEF Course
<1>5. ASSUME Calm'
      PROVE  Calm /\ \A v \in Workers : At(v, "idle")
  <2> DEFINE busy == {v \in Workers : tick[v].at # "idle"}
  <2>1. IsFiniteSet(busy) /\ Cardinality(busy) \in Nat
    <3>1. busy \subseteq Workers
      OBVIOUS
    <3> QED
      BY <3>1, FewWorkers, FS_Subset, FS_CardinalityType
  <2>2. spent'.overlaps = spent.overlaps + Cardinality(busy) /\ spent'.crashes = spent.crashes
    BY <1>0 DEF MayBegin, DriverTypes
  <2>3. Cardinality(busy) = 0 /\ spent.overlaps = 0 /\ spent.crashes = 0
    BY <1>0, <1>5, <2>1, <2>2 DEF Calm, DriverTypes
  <2>4. busy = {}
    BY <2>1, <2>3, FS_EmptySet
  <2> QED
    BY <2>3, <2>4 DEF Calm, At
<1>6. ASSUME Calm'
      PROVE  /\ Alone'
             /\ \A v \in Workers : ~tick'[v].stale
             /\ vault'.phase \in Claimed => Settled'
  <2>1. /\ Alone
        /\ \A v \in Workers : ~tick[v].stale
        /\ vault.phase \in Claimed => Settled
    BY <1>5, <1>6 DEF Course, Orderly
  <2>2. \A v \in Workers \ {w} : At(v, "idle") /\ tick'[v] = tick[v]
    BY <1>5, <1>6
  <2>3. Alone' /\ \A v \in Workers : ~tick'[v].stale
    BY <2>1, <2>2 DEF Alone, At
  <2>4. ASSUME vault'.phase \in Claimed
        PROVE  Settled'
    <3>1. \A v \in Workers : ~Netting(v) /\ ~Netted(v)
      BY <1>5, <1>6 DEF Netting, Netted, Handling, At
    <3>2. /\ mandate.phase \in Claimed /\ mandate.requested \in After
          /\ \A v \in Workers : tick[v].target \in After
      BY <1>1, <2>1, <2>4, <3>1 DEF Settled
    <3>3. mandate'.requested \in After
      BY <3>2
    <3>4. \A v \in Workers : tick'[v].target \in After
      BY <2>2, <3>2, <3>3
    <3> QED
      BY <3>2, <3>3, <3>4 DEF Settled
  <2> QED
    BY <2>3, <2>4
<1>7. Orderly'
  BY <1>6 DEF Orderly, Calm
<1> QED
  BY <1>3, <1>4, <1>7

LEMMA BeginsEven ==
  ASSUME IInv, LedgerTyped, Course, ChainCash', Onward,
         tickAll \/ \E to \in Phases : requestPhase(to)
  PROVE  Marks' /\ Orderly' /\ Even
<1>0. DriverTypes /\ "loop" \in Workers /\ "request" \in Workers
  BY DEF IInv, Workers
<1>1. CASE tickAll
  <2> DEFINE t == Seen(mandate.phase, mandate.requested, mandate.facts)
  <2>1. /\ t.at = "head" /\ t.target = mandate.requested /\ t.facts = mandate.facts
        /\ t.stale = FALSE
    BY DEF Seen
  <2>2. MayBegin("loop") /\ UNCHANGED <<worldVars, intentVars, mandate, ledger>>
        /\ tick' = [tick EXCEPT !["loop"] = t]
    BY <1>1 DEF tickAll
  <2>3. tick'["loop"] = t /\ \A v \in Workers \ {"loop"} : tick'[v] = tick[v]
    BY <1>0, <2>2 DEF DriverTypes
  <2> HIDE DEF t
  <2> QED
    BY <1>0, <2>1, <2>2, <2>3, BeginEven
<1>2. ASSUME NEW to \in Phases, requestPhase(to)
      PROVE  Marks' /\ Orderly' /\ Even
  <2> DEFINE t == Seen(mandate.phase, to, mandate.facts)
  <2>1. /\ t.at = "head" /\ t.target = to /\ t.facts = mandate.facts
        /\ t.stale = FALSE
    BY DEF Seen
  <2>2. /\ MayBegin("request") /\ UNCHANGED <<worldVars, intentVars, ledger>>
        /\ tick' = [Outdated("request") EXCEPT !["request"] = t]
        /\ to \in PHASE_TRANSITIONS[mandate.phase]
        /\ mandate'.phase = mandate.phase /\ mandate'.facts = mandate.facts
        /\ mandate'.requested = to
    BY <1>0, <1>2 DEF requestPhase, DriverTypes, MandateType
  <2>3. tick'["request"] = t /\ \A v \in Workers \ {"request"} : tick'[v] = Outdated("request")[v]
    BY <1>0, <2>2 DEF Outdated
  <2>4. \A v \in Workers \ {"request"} :
            /\ tick'[v].at = tick[v].at /\ tick'[v].target = tick[v].target
            /\ tick'[v].facts = tick[v].facts
            /\ At(v, "idle") => tick'[v] = tick[v]
    BY <1>0, <2>3, OutdatedOthers
  <2>5. mandate.phase \in Claimed => to \in After
    BY <2>2, TransitionsAre DEF Claimed, After
  <2> HIDE DEF t
  <2> QED
    BY <1>0, <2>1, <2>2, <2>3, <2>4, <2>5, BeginEven
<1> QED
  BY <1>1, <1>2

\* A step that leaves the driver alone.
LEMMA CourseStays ==
  ASSUME Course, ChainCash', Onward, UNCHANGED <<mandate, tick, spent>>,
         vault'.phase \in Claimed => vault.phase \in Claimed,
         vault.phase \in Paid => vault'.deployed = vault.deployed
  PROVE  Marks' /\ Orderly'
<1>1. /\ \A v \in Workers : /\ Booking(v)' <=> Booking(v)
                            /\ Netting(v)' <=> Netting(v)
                            /\ Netted(v)' <=> Netted(v)
                            /\ At(v, "idle")' <=> At(v, "idle")
      /\ Alone' <=> Alone
      /\ Calm' <=> Calm
      /\ Settled' <=> Settled
  BY DEF Booking, Netting, Netted, Handling, At, Alone, Calm, Settled
<1>2. Marks'
  BY <1>1 DEF Course, Marks, Onward
<1>3. Orderly'
  BY <1>1 DEF Course, Orderly, Onward
<1> QED
  BY <1>2, <1>3

LEMMA SubscribeEven ==
  ASSUME IInv, LedgerTyped, Course, ChainCash', Onward, vaultSubscribe
  PROVE  Marks' /\ Orderly' /\ Even
<1>0. WorldTypes
  BY DEF IInv
<1>1. /\ UNCHANGED <<vault, ipo, redemption, mandate, tick, spent>> /\ subscription = "due"
  BY DEF vaultSubscribe, worldVars
<1>2. Marks' /\ Orderly'
  BY <1>1, CourseStays
<1>3. \A v \in Workers : (Booking(v)' <=> Booking(v)) /\ (Netting(v)' <=> Netting(v))
  BY <1>1 DEF Booking, Netting, Handling, At
<1>4. CASE subscription' = "parked" /\ UNCHANGED ledger
  BY <1>0, <1>1, <1>2, <1>3, <1>4, ShareStays DEF Course
<1>5. CASE subscription' = "booked" /\ post(vaultDeposit(vault.deposits))
  <2>1. grossProceeds' = grossProceeds
    BY <1>1 DEF grossProceeds
  <2> DEFINE held == IF \E v \in Workers : Booking(v) THEN 0 ELSE vault.deployed
             back == IF vault.phase \in Claimed /\ ~\E v \in Workers : Netting(v)
                     THEN grossProceeds ELSE 0
             out == IF redemption = "booked" THEN grossProceeds ELSE 0
  <2>2. Share = 0 - held + back - out
    BY <1>1 DEF Share
  <2>3. Share' = vault.deposits - held + back - out
    BY <1>1, <1>3, <1>5, <2>1 DEF Share
  <2>4. held \in Int /\ back \in Int /\ out \in Int /\ vault.deposits \in Int
    BY <1>0, ShareTyped
  <2>5. /\ ledger["CHAIN_ESCROW"] \in Int
        /\ ledger'["CHAIN_ESCROW"] = ledger["CHAIN_ESCROW"] + vault.deposits
    <3>1. /\ "CHAIN_ESCROW" \in DOMAIN vaultDeposit(vault.deposits)
          /\ vaultDeposit(vault.deposits)["CHAIN_ESCROW"] = vault.deposits
      BY DEF vaultDeposit
    <3> QED
      BY <1>5, <3>1, PostsEscrow
  <2> HIDE DEF held, back, out
  <2>6. Even
    BY <2>2, <2>3, <2>4, <2>5 DEF Even
  <2> QED
    BY <1>2, <2>6
<1> QED
  BY <1>4, <1>5 DEF vaultSubscribe

LEMMA RedeemEven ==
  ASSUME IInv, LedgerTyped, Course, ChainCash', Onward, vaultRedeem
  PROVE  Marks' /\ Orderly' /\ Even
<1>0. WorldTypes
  BY DEF IInv
<1>1. /\ UNCHANGED <<vault, ipo, subscription, mandate, tick, spent>>
      /\ redemption = "due" /\ redemption' = "booked" /\ post(vaultClaimed(grossProceeds))
  BY DEF vaultRedeem, worldVars
<1>2. Marks' /\ Orderly'
  BY <1>1, CourseStays
<1>3. \A v \in Workers : (Booking(v)' <=> Booking(v)) /\ (Netting(v)' <=> Netting(v))
  BY <1>1 DEF Booking, Netting, Handling, At
<1>4. grossProceeds' = grossProceeds
  BY <1>1 DEF grossProceeds
<1> DEFINE paid == IF subscription = "booked" THEN vault.deposits ELSE 0
           held == IF \E v \in Workers : Booking(v) THEN 0 ELSE vault.deployed
           back == IF vault.phase \in Claimed /\ ~\E v \in Workers : Netting(v)
                   THEN grossProceeds ELSE 0
<1>5. Share = paid - held + back - 0
  BY <1>1 DEF Share
<1>6. Share' = paid - held + back - grossProceeds
  BY <1>1, <1>3, <1>4 DEF Share
<1>7. paid \in Int /\ held \in Int /\ back \in Int /\ grossProceeds \in Int
  BY <1>0, ShareTyped
<1>8. /\ ledger["CHAIN_ESCROW"] \in Int
      /\ ledger'["CHAIN_ESCROW"] = ledger["CHAIN_ESCROW"] - grossProceeds
  <2>1. /\ "CHAIN_ESCROW" \in DOMAIN vaultClaimed(grossProceeds)
        /\ vaultClaimed(grossProceeds)["CHAIN_ESCROW"] = -grossProceeds
    BY DEF vaultClaimed
  <2> HIDE DEF grossProceeds
  <2> QED
    BY <1>1, <1>7, <2>1, PostsEscrow
<1> HIDE DEF paid, held, back, grossProceeds
<1>9. Even
  BY <1>5, <1>6, <1>7, <1>8 DEF Even
<1> QED
  BY <1>2, <1>9

LEMMA WorldEven ==
  ASSUME IInv, LedgerTyped, Course, ChainCash', Onward, World
  PROVE  Marks' /\ Orderly' /\ Even
<1>0. WorldTypes /\ UNCHANGED <<mandate, tick, spent, ledger>>
  BY DEF IInv, World, subscriberDeposits, holderElects, electionCloses, holderClaims,
     cancelledOutside, brokerDecides, custodianConfirms, msbConverts, msbPays, brokerSells
<1>1. \A v \in Workers : (Booking(v)' <=> Booking(v)) /\ (Netting(v)' <=> Netting(v))
  BY <1>0 DEF Booking, Netting, Handling, At
<1>2. ledger["CHAIN_ESCROW"] \in Int /\ Share \in Int
  BY <1>0, ShareTyped DEF LedgerTyped, LedgerType, Accounts, CashAccounts
<1>3. CASE subscriberDeposits
  <2>1. /\ vault'.phase = vault.phase /\ vault.phase \notin Paid /\ vault.phase \notin Claimed
        /\ vault'.deployed = vault.deployed /\ vault.deposits = 0
        /\ subscription' = "due" /\ redemption' = redemption
    BY <1>0, <1>3 DEF subscriberDeposits, WorldTypes, VaultType, Paid, Invested, Claimed
  <2>2. Marks' /\ Orderly'
    BY <1>0, <2>1, CourseStays
  <2>3. vault.deployed = 0 /\ redemption # "booked"
    BY <2>1 DEF Course, ChainCash
  <2>4. Share = 0 - 0 + 0 - 0 /\ Share' = 0 - 0 + 0 - 0
    BY <2>1, <2>3 DEF Share
  <2>5. Even
    BY <1>0, <1>2, <2>4 DEF Even
  <2> QED
    BY <2>2, <2>5
<1>4. CASE /\ subscription' = subscription
           /\ redemption' = "booked" <=> redemption = "booked"
           /\ vault'.phase \in Claimed => vault.phase \in Claimed
           /\ vault'.deposits = vault.deposits /\ vault'.deployed = vault.deployed
  <2>1. Marks' /\ Orderly'
    BY <1>0, <1>4, CourseStays
  <2>2. Even
    BY <1>0, <1>1, <1>4, ShareStays DEF Course
  <2> QED
    BY <2>1, <2>2
<1>5. CASE holderElects \/ electionCloses \/ holderClaims \/ cancelledOutside
  <2>1. /\ subscription' = subscription
        /\ redemption' = "booked" <=> redemption = "booked"
        /\ vault'.phase \in Claimed => vault.phase \in Claimed
        /\ vault'.deposits = vault.deposits /\ vault'.deployed = vault.deployed
    BY <1>0, <1>5 DEF holderElects, electionCloses, holderClaims, cancelledOutside, intentVars,
       WorldTypes, VaultType, Claimed
  <2> QED
    BY <1>4, <2>1
<1>6. CASE brokerDecides \/ custodianConfirms \/ msbConverts \/ msbPays \/ brokerSells
  <2>1. UNCHANGED <<vault, subscription, redemption>>
    BY <1>6 DEF brokerDecides, custodianConfirms, msbConverts, msbPays, brokerSells, intentVars
  <2> QED
    BY <1>4, <2>1
<1> QED
  BY <1>3, <1>5, <1>6 DEF World

\* What is known of the vault's dollars stays known, and what a step posts to the
\* escrow is what the vault's share of it grows by.
LEMMA CourseKeeps ==
  ASSUME IInv, LedgerTyped, Course, deal' = deal, Act
  PROVE  Course' /\ Even
<1>1. ChainCash' /\ Onward
  BY CashKeeps DEF Course
<1>2. ASSUME NEW w \in Workers, Tick(w)
      PROVE  Marks' /\ Orderly' /\ Even
  <2>1. CASE \/ \E to \in Phases : simple(w, to)
             \/ placeIpoSubscription(w) \/ toSourced(w) \/ markListed(w) \/ toRealized(w)
             \/ markRealized(w)
    BY <1>1, <2>1, PlainEven
  <2>2. CASE awaitCrossing(w) \/ awaitWire(w) \/ toLive(w) \/ toClaimable(w) \/ sendHome(w)
    BY <1>1, <2>2, ElsewhereEven
  <2>3. CASE sync(w) \/ advance(w) \/ crash(w)
    BY <1>1, <2>3, SyncEven, AdvanceEven, CrashEven
  <2>4. CASE deployCapital(w) \/ bookDeployed(w) \/ settleVault(w)
    BY <1>1, <2>4, DeployEven, BookDeployedEven, SettleEven
  <2>5. CASE bookRepatriated(w) \/ bookNet(w)
    BY <1>1, <2>5, BookRepatriatedEven, BookNetEven
  <2> QED
    BY <1>2, <2>1, <2>2, <2>3, <2>4, <2>5 DEF Tick
<1>3. Marks' /\ Orderly' /\ Even
  BY <1>1, <1>2, BeginsEven, SubscribeEven, RedeemEven, WorldEven DEF Act
<1> QED
  BY <1>1, <1>3 DEF Course

LEMMA CourseStarts ==
  ASSUME NEW terms, StartOf(terms)
  PROVE  Course /\ Share = 0
<1>1. /\ vault.phase = "Scheduled" /\ vault.usdc = 0 /\ vault.deposits = 0
      /\ vault.deployed = 0 /\ subscription = "None" /\ redemption = "None"
      /\ mandate.facts = {}
      /\ \A w \in Workers : tick[w] = Idle
  BY DEF StartOf
<1>2. \A w \in Workers : /\ At(w, "idle") /\ ~Booking(w) /\ ~Netting(w) /\ ~Netted(w)
                         /\ tick[w].target = "None" /\ tick[w].facts = {} /\ ~tick[w].stale
  BY <1>1 DEF Idle, At, Booking, Netting, Netted, Handling
<1>3. vault.phase \notin Paid /\ vault.phase \notin Claimed
  BY <1>1 DEF Paid, Invested, Claimed
<1>4. ChainCash
  BY <1>1, <1>3 DEF ChainCash
<1>5. Marks /\ Orderly
  BY <1>1, <1>2, <1>3 DEF Marks, Orderly, Alone
<1>6. Share = 0 - 0 + 0 - 0
  BY <1>1, <1>3 DEF Share
<1> QED
  BY <1>4, <1>5, <1>6 DEF Course

\* Once all is booked the share is what the vault holds on the chain.
LEMMA ShareRests ==
  ASSUME WorldTypes, Course, Booked
  PROVE  Counted /\ Share = vault.usdc
<1>1. \A w \in Workers : ~Booking(w) /\ ~Netting(w)
  BY DEF Booked, Booking, Netting, Handling, At
<1>2. Counted
  BY DEF Booked, Counted, Claimed, Invested
<1>3. (IF subscription = "booked" THEN vault.deposits ELSE 0) = vault.deposits
  BY DEF Booked, Course, ChainCash
<1>4. /\ grossProceeds \in Int /\ vault.deposits \in Nat /\ vault.deployed \in Nat
  BY ShareTyped
<1> HIDE DEF grossProceeds
<1>5. CASE vault.phase \in Claimed
  <2>1. vault.deployed = vault.deposits
    BY <1>5 DEF Course, ChainCash, Paid, Claimed, Invested
  <2>2. vault.usdc = IF redemption = "None" THEN grossProceeds ELSE 0
    BY <1>5 DEF Course, ChainCash
  <2>3. Share = vault.deposits - vault.deployed + grossProceeds
                - (IF redemption = "booked" THEN grossProceeds ELSE 0)
    BY <1>1, <1>3, <1>5 DEF Share
  <2> QED
    BY <1>2, <1>4, <2>1, <2>2, <2>3 DEF Booked
<1>6. CASE vault.phase \notin Claimed
  <2>1. redemption = "None" /\ vault.usdc = vault.deposits - vault.deployed
    BY <1>6 DEF Course, ChainCash
  <2>2. Share = vault.deposits - vault.deployed + 0 - 0
    BY <1>1, <1>3, <1>6, <2>1 DEF Share
  <2> QED
    BY <1>2, <1>4, <2>1, <2>2
<1> QED
  BY <1>5, <1>6

\* Steps that are not counted stay so.
LEMMA CountedBefore ==
  ASSUME IInv, Course, LedgerTyped, deal' = deal, Act, Counted'
  PROVE  Counted
<1>1. Onward
  BY CashKeeps DEF Course
<1>2. spent'.crashes >= spent.crashes /\ spent'.overlaps >= spent.overlaps
  <2>1. CASE spent' = spent
    BY <2>1 DEF IInv, DriverTypes
  <2>2. ASSUME NEW w, MayBegin(w)
        PROVE  spent'.crashes >= spent.crashes /\ spent'.overlaps >= spent.overlaps
    <3>1. Cardinality({v \in Workers : tick[v].at # "idle"}) \in Nat
      BY FewWorkers, FS_Subset, FS_CardinalityType
    <3> QED
      BY <2>2, <3>1 DEF MayBegin, IInv, DriverTypes
  <2>3. ASSUME NEW w, crash(w)
        PROVE  spent'.crashes >= spent.crashes /\ spent'.overlaps >= spent.overlaps
    BY <2>3 DEF crash, IInv, DriverTypes
  <2>4. ASSUME NEW w \in Workers, Tick(w), ~crash(w)
        PROVE  spent' = spent
    BY <2>4 DEF Tick, sync, advance, simple, placeIpoSubscription, toSourced, deployCapital,
       bookDeployed, awaitCrossing, awaitWire, toLive, markListed, toRealized, markRealized,
       toClaimable, sendHome, settleVault, bookRepatriated, bookNet
  <2>5. ASSUME World \/ vaultSubscribe \/ vaultRedeem
        PROVE  spent' = spent
    BY <2>5 DEF World, vaultSubscribe, vaultRedeem, subscriberDeposits, holderElects,
       electionCloses, holderClaims, cancelledOutside, brokerDecides, custodianConfirms,
       msbConverts, msbPays, brokerSells
  <2> QED
    BY <2>1, <2>2, <2>3, <2>4, <2>5 DEF Act, requestPhase, tickAll
<1>3. /\ spent.crashes \in Nat /\ spent.overlaps \in Nat
      /\ spent'.crashes \in Nat /\ spent'.overlaps \in Nat
  BY ActKeeps DEF IInv, DriverTypes
<1>4. vault.phase \in Claimed => vault'.phase \in Claimed
  BY <1>1 DEF Onward
<1> QED
  BY <1>2, <1>3, <1>4 DEF Counted

-----------------------------------------------------------------------------
(* The theorems.                                                           *)

LEMMA StartHolds ==
  ASSUME NEW terms \in Deals, StartOf(terms)
  PROVE  IInv
<1>1. vault \in VaultType /\ ipo \in IpoType /\ mandate \in MandateType
  BY PhasesAre DEF StartOf, VaultType, IpoType, MandateType
<1>2. WorldTypes
  BY <1>1 DEF StartOf, WorldTypes, Status
<1>3. vault.phase = "Scheduled" /\ vault.delivered = 0 /\ ipo.allocated = 0
  BY DEF StartOf
<1>4. Delivered /\ PhaseFollowsFact
  BY <1>3 DEF Delivered, PhaseFollowsFact, Invested
<1>5. tick \in [Workers -> TickType] /\ \A w \in Workers : tick[w] = Idle
  BY IdleType DEF StartOf
<1>6. DriverTypes
  BY <1>1, <1>5 DEF StartOf, DriverTypes
<1>7. \A w \in Workers : Seeing(tick[w])
  BY <1>5 DEF Seeing, Idle
<1> QED
  BY <1>2, <1>4, <1>6, <1>7 DEF IInv

LEMMA Invariant == Spec => []IInv
<1>1. Init => IInv
  BY StartHolds DEF Init
<1>2. IInv /\ [Next]_vars => IInv'
  <2>1. ASSUME IInv, UNCHANGED vars
        PROVE  IInv'
    <3>1. UNCHANGED <<mandate, tick, deal, spent, worldVars, intentVars>>
      BY <2>1 DEF vars
    <3>2. /\ subscription' \in {"None", "due", "booked", "parked"}
          /\ redemption' \in {"None", "due", "booked"}
      BY <2>1, <3>1 DEF IInv, DriverTypes, intentVars
    <3> QED
      BY <2>1, <3>1, <3>2, WorldStays, OutsideKeeps
  <2> QED
    BY <2>1, ActKeeps DEF Next
<1> QED
  BY <1>1, <1>2, PTL DEF Spec

\* Every variable keeps its type whatever the deal, the order of ticks and what
\* the counterparties answer; no balance of the vault is overdrawn (TypeOK).
THEOREM TypeCorrect == Spec => []TypeOK
<1>1. Init => LedgerTyped
  BY DEF Init, LedgerType, LedgerTyped
<1>2. LedgerTyped /\ IInv /\ [Next]_vars => LedgerTyped'
  BY LedgerKeeps DEF Next, vars, IInv, LedgerTyped
<1>3. IInv /\ LedgerTyped => TypeOK
  BY DEF TypeOK, IInv, WorldTypes, DriverTypes, VaultType, IpoType, MandateType,
         TickType, LedgerType, LedgerTyped, Status
<1> QED
  BY <1>1, <1>2, <1>3, Invariant, PTL DEF Spec

\* The phase of a vault never runs ahead of the event that justifies it, for
\* every deal, every overlap of ticks and every crash (the rule in the header of
\* the driver).
THEOREM Justified == Spec => []PhaseFollowsFact
BY Invariant, PTL DEF IInv

=============================================================================
