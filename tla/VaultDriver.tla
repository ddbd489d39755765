---------------------------- MODULE VaultDriver ----------------------------
(***************************************************************************)
(* The vault driver of the orchestrator: one mandate, which leads one      *)
(* vault through its phases as the operator authorises them, and the       *)
(* intents that book what subscribers pay in and holders take out.         *)
(*                                                                         *)
(* A tick is split at its awaits.  Two may overlap: the poll of the loop   *)
(* and the tick that the operator's request makes, which takes no lease.   *)
(* A tick that saves over a record that changed since it read it throws;   *)
(* "stale" stands for the version that no longer matches.                  *)
(*                                                                         *)
(* Abstracted: a share costs one unit and the vault charges no fee         *)
(* (Postings); one subscriber; refunds, which nothing books, are left to   *)
(* MarcoVault, and deliveries, which move no cash.                         *)
(***************************************************************************)
EXTENDS Postings, FiniteSets, VaultDeals

VARIABLES
    vault,         \* the vault on the chain
    ipo,           \* the application at the broker and the shares allocated
    custody,       \* whether the custodian holds the allocated shares
    crossing,      \* the conversion of what was deployed
    wire,          \* its payout to the broker
    sale,          \* the broker's order for the shares
    repatriation,  \* the conversion of the proceeds
    subscription,  \* the intent of the subscriber
    redemption,    \* the intent of the holder who redeems
    mandate,       \* the stored mandate
    tick,          \* for each worker, how far its tick is and what it read
    ledger,        \* the balances of the accounts
    deal,          \* the deal; it does not change
    spent          \* what has been used up of its bounds

worldVars  == <<vault, ipo, custody, crossing, wire, sale, repatriation>>
intentVars == <<subscription, redemption>>
vars == <<worldVars, intentVars, mandate, tick, ledger, deal, spent>>

-----------------------------------------------------------------------------
PHASE_TRANSITIONS ==
    [Scheduled |-> {"Funding", "Cancelled"},
     Funding   |-> {"Sealed", "Cancelled"},
     Sealed    |-> {"Sourcing", "Cancelled"},
     Sourcing  |-> {"Sourced", "Cancelled"},
     Sourced   |-> {"Deployed", "Cancelled"},
     Deployed  |-> {"Live"},
     Live      |-> {"Realized"},
     Realized  |-> {"Claimable"},
     Claimable |-> {"Winding", "Concluded"},
     Winding   |-> {"Concluded"},
     Concluded |-> {},
     Cancelled |-> {}]

Phases == DOMAIN PHASE_TRANSITIONS
From(to) == {from \in Phases : to \in PHASE_TRANSITIONS[from]}

Workers == {"loop", "request"}
Facts   == {"allocatedQuantity", "convertedAmount", "listedTicker",
            "grossProceedsHkd", "netProceedsUsdc"}
Places  == {"idle", "head", "run", "book", "convert", "pay", "list", "realize",
            "send", "settle", "bookNet", "save"}

\* How what was asked of a counterparty may end.
OrFault(good, bad) == IF deal.faults THEN {good, bad} ELSE {good}

Idle == [at |-> "idle", phase |-> "Scheduled", target |-> "None",
         facts |-> {}, stale |-> FALSE]

\* createMandate follows a vault that is scheduled on the chain.
StartOf(terms) ==
    /\ deal = terms
    /\ vault = [phase |-> "Scheduled", usdc |-> 0, deposits |-> 0, deployed |-> 0,
                delivered |-> 0, electing |-> FALSE]
    /\ ipo = [status |-> "None", allocated |-> 0]
    /\ custody = FALSE
    /\ crossing = "None"
    /\ wire = "None"
    /\ sale = "None"
    /\ repatriation = "None"
    /\ subscription = "None"
    /\ redemption = "None"
    /\ mandate = [state |-> "ACTIVE", phase |-> "Scheduled",
                  requested |-> "None", facts |-> {}]
    /\ tick = [w \in Workers |-> Idle]
    /\ spent = [overlaps |-> 0, crashes |-> 0]

Init ==
    /\ \E terms \in Deals : StartOf(terms)
    /\ ledger = [a \in Accounts |-> 0]

-----------------------------------------------------------------------------
(* Ticks.  A definition set just before another one and with its           *)
(* parameters is a slip of that code; it is used by no specification, and  *)
(* the properties are shown to notice it.                                  *)

Seen(phase, requested, facts) ==
    [at |-> "head", phase |-> phase, target |-> requested,
     facts |-> facts, stale |-> FALSE]

\* What a save by w does to the ticks of the others.
Outdated(w) ==
    [v \in Workers |->
        IF v = w \/ tick[v].at = "idle" THEN tick[v] ELSE [tick[v] EXCEPT !.stale = TRUE]]

MayBegin(w) ==
    /\ deal.raised > 0
    /\ tick[w].at = "idle"
    /\ \/ \A v \in Workers : tick[v].at = "idle"
       \/ spent.overlaps < deal.overlaps
    /\ spent' = [spent EXCEPT !.overlaps =
                    @ + Cardinality({v \in Workers : tick[v].at # "idle"})]
    /\ wire = "PENDING" => ledger["MSB_SETTLED_HKD"] <= deal.polls * vault.deployed

\* The operator authorises the next phase and the request goes on to a tick.
requestPhase(to) ==
    /\ MayBegin("request")
    /\ to \in PHASE_TRANSITIONS[mandate.phase] \cap deal.authorised
    /\ mandate' = [mandate EXCEPT !.requested = to, !.state = "ACTIVE"]
    /\ tick' = [Outdated("request") EXCEPT !["request"] =
                    Seen(mandate.phase, to, mandate.facts)]
    /\ UNCHANGED <<worldVars, intentVars, ledger>>

tickAll ==
    /\ MayBegin("loop")
    /\ mandate.state = "ACTIVE"
    /\ tick' = [tick EXCEPT !["loop"] =
                    Seen(mandate.phase, mandate.requested, mandate.facts)]
    /\ UNCHANGED <<worldVars, intentVars, mandate, ledger>>

Throw(w) ==
    /\ tick' = [tick EXCEPT ![w] = Idle]
    /\ UNCHANGED mandate

\* The last act of a tick.
SaveAndEnd(w, saved) ==
    IF tick[w].stale
    THEN Throw(w)
    ELSE /\ mandate' = saved
         /\ tick' = [Outdated(w) EXCEPT ![w] = Idle]

wait(w) == SaveAndEnd(w, mandate)
park(w) == SaveAndEnd(w, [mandate EXCEPT !.state = "NEEDS_MANUAL"])

Goto(w, place) ==
    /\ tick' = [tick EXCEPT ![w].at = place]
    /\ UNCHANGED mandate

Learn(w, place, found) ==
    /\ tick' = [tick EXCEPT ![w].at = place, ![w].facts = @ \cup found]
    /\ UNCHANGED mandate

At(w, place) == tick[w].at = place
Handling(w, to, place) == At(w, place) /\ tick[w].target = to

\* The phase on the chain prevails; then the authorised advance is attempted.
sync(w) ==
    /\ At(w, "head")
    /\ IF vault.phase # tick[w].phase /\ tick[w].stale
       THEN Throw(w)
       ELSE LET synced == [mandate EXCEPT !.phase = vault.phase] IN
            IF tick[w].target = "None"
            THEN SaveAndEnd(w, synced)
            ELSE IF tick[w].target \in PHASE_TRANSITIONS[vault.phase] \cup {vault.phase}
                 THEN IF vault.phase = tick[w].phase
                      THEN Goto(w, "run")
                      ELSE /\ mandate' = synced
                           /\ tick' = [Outdated(w) EXCEPT ![w].at = "run",
                                                          ![w].phase = vault.phase]
                 ELSE SaveAndEnd(w, [synced EXCEPT !.state = "NEEDS_MANUAL"])
    /\ UNCHANGED <<worldVars, intentVars, ledger, spent>>

advance(w) ==
    /\ At(w, "save")
    /\ SaveAndEnd(w, [mandate EXCEPT !.phase     = tick[w].target,
                                     !.requested = "None",
                                     !.facts     = @ \cup tick[w].facts])
    /\ UNCHANGED <<worldVars, intentVars, ledger, spent>>

\* The process dies, or a call's outcome stays unknown: the next tick is a new one.
crash(w) ==
    /\ ~At(w, "idle")
    /\ spent.crashes < deal.crashes
    /\ spent' = [spent EXCEPT !.crashes = @ + 1]
    /\ Throw(w)
    /\ UNCHANGED <<worldVars, intentVars, ledger>>

-----------------------------------------------------------------------------
(* The phase handlers.                                                     *)

post(entry) == ledger' = Posted(ledger, entry)

\* A transition on the chain: made, made already, or refused.
Submit(w, to, after, place, found) ==
    \/ /\ vault.phase = to
       /\ Learn(w, place, found)
       /\ UNCHANGED vault
    \/ /\ vault.phase \in From(to)
       /\ vault' = after
       /\ Learn(w, place, found)
    \/ /\ vault.phase \notin From(to) \cup {to}
       /\ Throw(w)
       /\ UNCHANGED vault

Into(phase) == [vault EXCEPT !.phase = phase]

\* toFunding stops while the broker does not know the listing and once the
\* window for applications has closed.
simple(w, to) ==
    /\ Handling(w, to, "run")
    /\ to \in {"Funding", "Sealed", "Sourcing", "Winding", "Concluded", "Cancelled"}
    /\ \/ Submit(w, to, Into(to), "save", {})
       \/ to = "Funding" /\ (wait(w) \/ park(w)) /\ UNCHANGED vault
    /\ UNCHANGED <<ipo, custody, crossing, wire, sale, repatriation, intentVars,
                   ledger, spent>>

placeIpoSubscription(w) ==
    /\ Handling(w, "Sourced", "run")
    /\ ipo.status = "None"
    /\ \/ /\ vault.deposits > 0
          /\ \E status \in OrFault("SUBMITTED", "REJECTED") :
                ipo' = [ipo EXCEPT !.status = status]
          /\ UNCHANGED <<mandate, tick>>
       \/ /\ vault.deposits = 0
          /\ park(w)
          /\ UNCHANGED ipo
    /\ UNCHANGED <<vault, custody, crossing, wire, sale, repatriation, intentVars,
                   ledger, spent>>

toSourced(w) ==
    /\ Handling(w, "Sourced", "run")
    /\ \/ /\ ipo.status \in {"REJECTED", "UNSUCCESSFUL"}
          /\ park(w)
          /\ UNCHANGED vault
       \/ /\ ipo.status = "SUBMITTED"
          /\ wait(w)
          /\ UNCHANGED vault
       \/ /\ ipo.status \in {"ACCEPTED", "ALLOCATED"}
          /\ Submit(w, "Sourced", Into("Sourced"), "save",
                    IF ipo.status = "ALLOCATED" THEN {"allocatedQuantity"} ELSE {})
    /\ UNCHANGED <<ipo, custody, crossing, wire, sale, repatriation, intentVars,
                   ledger, spent>>

\* All of the deposits are deployed.
deployCapitalAgain(w) ==
    /\ Handling(w, "Deployed", "run")
    /\ Submit(w, "Deployed", [Into("Deployed") EXCEPT !.usdc = 0, !.deployed = vault.deposits],
              "book", {})
    /\ UNCHANGED <<ipo, custody, crossing, wire, sale, repatriation, intentVars,
                   ledger, spent>>
deployCapital(w) ==
    /\ Handling(w, "Deployed", "run")
    /\ IF vault.deployed = 0
       THEN Submit(w, "Deployed",
                   [Into("Deployed") EXCEPT !.usdc = 0, !.deployed = vault.deposits],
                   "book", {})
       ELSE Goto(w, "convert") /\ UNCHANGED vault
    /\ UNCHANGED <<ipo, custody, crossing, wire, sale, repatriation, intentVars,
                   ledger, spent>>

bookDeployed(w) ==
    /\ Handling(w, "Deployed", "book")
    /\ post(vaultDeployed(vault.deployed))
    /\ Goto(w, "convert")
    /\ UNCHANGED <<worldVars, intentVars, spent>>

\* That the conversion is booked is known to this tick only.
awaitCrossing(w) ==
    /\ Handling(w, "Deployed", "convert")
    /\ \/ /\ crossing = "None"
          /\ crossing' = "PENDING"
          /\ UNCHANGED <<ledger, mandate, tick>>
       \/ /\ crossing = "FAILED"
          /\ park(w)
          /\ UNCHANGED <<ledger, crossing>>
       \/ /\ crossing = "PENDING"
          /\ wait(w)
          /\ UNCHANGED <<ledger, crossing>>
       \/ /\ crossing = "SETTLED"
          /\ IF "convertedAmount" \in tick[w].facts
             THEN UNCHANGED ledger
             ELSE post(convertedToHKD(vault.deployed))
          /\ Learn(w, "pay", {"convertedAmount"})
          /\ UNCHANGED crossing
    /\ UNCHANGED <<vault, ipo, custody, wire, sale, repatriation, intentVars, spent>>

awaitWire(w) ==
    /\ Handling(w, "Deployed", "pay")
    /\ \/ /\ wire = "None"
          /\ wire' = "PENDING"
          /\ UNCHANGED <<ledger, mandate, tick>>
       \/ /\ wire = "FAILED"
          /\ park(w)
          /\ UNCHANGED <<ledger, wire>>
       \/ /\ wire = "PENDING"
          /\ wait(w)
          /\ UNCHANGED <<ledger, wire>>
       \/ /\ wire = "SETTLED"
          /\ post(brokerFunded(vault.deployed))
          /\ Goto(w, "save")
          /\ UNCHANGED wire
    /\ UNCHANGED <<vault, ipo, custody, crossing, sale, repatriation, intentVars, spent>>

\* The custodian's confirmation comes before mark_listed.
toLiveUnconfirmed(w) ==
    /\ Handling(w, "Live", "run")
    /\ ipo.status = "ALLOCATED"
    /\ Goto(w, "list")
    /\ UNCHANGED <<worldVars, intentVars, ledger, spent>>
toLive(w) ==
    /\ Handling(w, "Live", "run")
    /\ \/ /\ ipo.status = "UNSUCCESSFUL"
          /\ park(w)
          /\ UNCHANGED ledger
       \/ /\ ipo.status # "UNSUCCESSFUL"
          /\ ipo.status # "ALLOCATED" \/ ~custody
          /\ wait(w)
          /\ UNCHANGED ledger
       \/ /\ ipo.status = "ALLOCATED" /\ custody
          /\ IF "allocatedQuantity" \in tick[w].facts
             THEN UNCHANGED ledger
             ELSE post(vaultAllocated(ipo.allocated, vault.deployed - ipo.allocated))
          /\ Goto(w, "list")
    /\ UNCHANGED <<worldVars, intentVars, spent>>

markListed(w) ==
    /\ Handling(w, "Live", "list")
    /\ Submit(w, "Live", [Into("Live") EXCEPT !.electing = TRUE], "save",
              {"allocatedQuantity", "listedTicker"})
    /\ UNCHANGED <<ipo, custody, crossing, wire, sale, repatriation, intentVars,
                   ledger, spent>>

\* Nothing is left to sell: the mandate advances and the chain does not.
toRealized(w) ==
    /\ Handling(w, "Realized", "run")
    /\ \/ /\ vault.electing
          /\ wait(w)
          /\ UNCHANGED sale
       \/ /\ ~vault.electing
          /\ ~({"listedTicker", "allocatedQuantity"} \subseteq tick[w].facts)
          /\ park(w)
          /\ UNCHANGED sale
       \/ /\ ~vault.electing
          /\ {"listedTicker", "allocatedQuantity"} \subseteq tick[w].facts
          /\ \/ /\ ipo.allocated = vault.delivered
                /\ Goto(w, "save")
                /\ UNCHANGED sale
             \/ /\ ipo.allocated > vault.delivered
                /\ \/ /\ sale = "None"
                      /\ \E status \in OrFault("NEW", "REJECTED") : sale' = status
                      /\ UNCHANGED <<mandate, tick>>
                   \/ /\ sale = "REJECTED"
                      /\ park(w)
                      /\ UNCHANGED sale
                   \/ /\ sale \in {"None", "NEW", "EXPIRED"}
                      /\ wait(w)
                      /\ UNCHANGED sale
                   \/ /\ sale = "FILLED"
                      /\ Goto(w, "realize")
                      /\ UNCHANGED sale
    /\ UNCHANGED <<vault, ipo, custody, crossing, wire, repatriation, intentVars,
                   ledger, spent>>

markRealized(w) ==
    /\ Handling(w, "Realized", "realize")
    /\ Submit(w, "Realized", Into("Realized"), "save", {"grossProceedsHkd"})
    /\ UNCHANGED <<ipo, custody, crossing, wire, sale, repatriation, intentVars,
                   ledger, spent>>

grossProceeds == ipo.allocated - vault.delivered

\* settle follows the dollars: handed over in the books, sent, and back.
toClaimable(w) ==
    /\ Handling(w, "Claimable", "run")
    /\ \/ /\ "grossProceedsHkd" \notin tick[w].facts
          /\ park(w)
          /\ UNCHANGED ledger
       \/ /\ "grossProceedsHkd" \in tick[w].facts
          /\ \/ /\ repatriation = "None"
                /\ post(sentToMsb(grossProceeds))
                /\ Goto(w, "send")
             \/ /\ repatriation = "FAILED"
                /\ park(w)
                /\ UNCHANGED ledger
             \/ /\ repatriation = "PENDING"
                /\ wait(w)
                /\ UNCHANGED ledger
             \/ /\ repatriation = "SETTLED"
                /\ Goto(w, "settle")
                /\ UNCHANGED ledger
    /\ UNCHANGED <<worldVars, intentVars, spent>>

sendHome(w) ==
    /\ Handling(w, "Claimable", "send")
    /\ repatriation' = IF repatriation = "None" THEN "PENDING" ELSE repatriation
    /\ Goto(w, "run")
    /\ UNCHANGED <<vault, ipo, custody, crossing, wire, sale, intentVars, ledger, spent>>

settleVault(w) ==
    /\ Handling(w, "Claimable", "settle")
    /\ Submit(w, "Claimable", [Into("Claimable") EXCEPT !.usdc = @ + grossProceeds],
              IF "netProceedsUsdc" \in tick[w].facts THEN "save" ELSE "book", {})
    /\ UNCHANGED <<ipo, custody, crossing, wire, sale, repatriation, intentVars,
                   ledger, spent>>

bookRepatriated(w) ==
    /\ Handling(w, "Claimable", "book")
    /\ post(convertedToUSDC(grossProceeds))
    /\ Goto(w, "bookNet")
    /\ UNCHANGED <<worldVars, intentVars, spent>>

bookNet(w) ==
    /\ Handling(w, "Claimable", "bookNet")
    /\ post(vaultSettled(grossProceeds, vault.deposits))
    /\ Learn(w, "save", {"netProceedsUsdc"})
    /\ UNCHANGED <<worldVars, intentVars, spent>>

-----------------------------------------------------------------------------
(* The intents of subscribers and holders: stored by the watcher, booked   *)
(* when they are driven; a subscriber who fails the screening is parked.   *)

vaultSubscribe ==
    /\ subscription = "due"
    /\ \/ subscription' = "booked" /\ post(vaultDeposit(vault.deposits))
       \/ deal.faults /\ subscription' = "parked" /\ UNCHANGED ledger
    /\ UNCHANGED <<worldVars, redemption, mandate, tick, spent>>

vaultRedeem ==
    /\ redemption = "due"
    /\ redemption' = "booked"
    /\ post(vaultClaimed(grossProceeds))
    /\ UNCHANGED <<worldVars, subscription, mandate, tick, spent>>

-----------------------------------------------------------------------------
(* The world.                                                              *)

subscriberDeposits ==
    /\ vault.phase = "Funding"
    /\ vault.deposits = 0
    /\ vault' = [vault EXCEPT !.deposits = deal.raised, !.usdc = deal.raised]
    /\ subscription' = "due"
    /\ UNCHANGED <<ipo, custody, crossing, wire, sale, repatriation, redemption,
                   mandate, tick, ledger, spent>>

holderElects ==
    /\ vault.phase = "Live"
    /\ vault.electing
    /\ vault.delivered < ipo.allocated
    /\ vault' = [vault EXCEPT !.delivered = @ + 1]
    /\ UNCHANGED <<ipo, custody, crossing, wire, sale, repatriation, intentVars,
                   mandate, tick, ledger, spent>>

electionCloses ==
    /\ vault.electing
    /\ vault' = [vault EXCEPT !.electing = FALSE]
    /\ UNCHANGED <<ipo, custody, crossing, wire, sale, repatriation, intentVars,
                   mandate, tick, ledger, spent>>

holderClaims ==
    /\ vault.phase \in {"Claimable", "Winding"}
    /\ redemption = "None"
    /\ vault' = [vault EXCEPT !.usdc = 0]
    /\ redemption' = "due"
    /\ UNCHANGED <<ipo, custody, crossing, wire, sale, repatriation, subscription,
                   mandate, tick, ledger, spent>>

\* The vault's multisig cancels the deal without the driver.
cancelledOutside ==
    /\ vault.phase \in From("Cancelled")
    /\ deal.overlaps > 0
    /\ vault' = [vault EXCEPT !.phase = "Cancelled"]
    /\ UNCHANGED <<ipo, custody, crossing, wire, sale, repatriation, intentVars,
                   mandate, tick, ledger, spent>>

brokerDecides ==
    /\ \/ /\ ipo.status = "SUBMITTED"
          /\ \E status \in OrFault("ACCEPTED", "REJECTED") :
                ipo' = [ipo EXCEPT !.status = status]
       \/ /\ ipo.status = "ACCEPTED"
          /\ \/ deal.faults /\ ipo' = [ipo EXCEPT !.status = "UNSUCCESSFUL"]
             \/ \E n \in 1 .. vault.deposits :
                   ipo' = [status |-> "ALLOCATED", allocated |-> n]
    /\ UNCHANGED <<vault, custody, crossing, wire, sale, repatriation, intentVars,
                   mandate, tick, ledger, spent>>

custodianConfirms ==
    /\ ipo.status = "ALLOCATED"
    /\ custody' = TRUE
    /\ UNCHANGED <<vault, ipo, crossing, wire, sale, repatriation, intentVars,
                   mandate, tick, ledger, spent>>

msbConverts ==
    /\ \E status \in OrFault("SETTLED", "FAILED") :
          \/ crossing = "PENDING" /\ crossing' = status /\ UNCHANGED repatriation
          \/ repatriation = "PENDING" /\ repatriation' = status /\ UNCHANGED crossing
    /\ UNCHANGED <<vault, ipo, custody, wire, sale, intentVars, mandate, tick,
                   ledger, spent>>

msbPays ==
    /\ wire = "PENDING"
    /\ \E status \in OrFault("SETTLED", "FAILED") : wire' = status
    /\ UNCHANGED <<vault, ipo, custody, crossing, sale, repatriation, intentVars,
                   mandate, tick, ledger, spent>>

brokerSells ==
    /\ sale = "NEW"
    /\ \E status \in OrFault("FILLED", "EXPIRED") : sale' = status
    /\ UNCHANGED <<vault, ipo, custody, crossing, wire, repatriation, intentVars,
                   mandate, tick, ledger, spent>>

-----------------------------------------------------------------------------
Tick(w) ==
    \/ sync(w)
    \/ advance(w)
    \/ crash(w)
    \/ \E to \in Phases : simple(w, to)
    \/ placeIpoSubscription(w)
    \/ toSourced(w)
    \/ deployCapital(w)
    \/ bookDeployed(w)
    \/ awaitCrossing(w)
    \/ awaitWire(w)
    \/ toLive(w)
    \/ markListed(w)
    \/ toRealized(w)
    \/ markRealized(w)
    \/ toClaimable(w)
    \/ sendHome(w)
    \/ settleVault(w)
    \/ bookRepatriated(w)
    \/ bookNet(w)

World ==
    \/ subscriberDeposits
    \/ holderElects
    \/ electionCloses
    \/ holderClaims
    \/ cancelledOutside
    \/ brokerDecides
    \/ custodianConfirms
    \/ msbConverts
    \/ msbPays
    \/ brokerSells

Act ==
    \/ \E to \in Phases : requestPhase(to)
    \/ tickAll
    \/ \E w \in Workers : Tick(w)
    \/ vaultSubscribe
    \/ vaultRedeem
    \/ World

Next == Act /\ UNCHANGED deal

Spec == Init /\ [][Next]_vars

-----------------------------------------------------------------------------
TypeOK ==
    /\ vault \in [phase : Phases, usdc : Nat, deposits : Nat, deployed : Nat,
                  delivered : Nat, electing : BOOLEAN]
    /\ ipo \in [status : {"None", "SUBMITTED", "ACCEPTED", "REJECTED",
                          "UNSUCCESSFUL", "ALLOCATED"}, allocated : Nat]
    /\ custody \in BOOLEAN
    /\ {crossing, wire, repatriation} \subseteq {"None", "PENDING", "SETTLED", "FAILED"}
    /\ sale \in {"None", "NEW", "FILLED", "EXPIRED", "REJECTED"}
    /\ subscription \in {"None", "due", "booked", "parked"}
    /\ redemption \in {"None", "due", "booked"}
    /\ mandate \in [state : {"ACTIVE", "NEEDS_MANUAL"}, phase : Phases,
                    requested : Phases \cup {"None"}, facts : SUBSET Facts]
    /\ tick \in [Workers -> [at : Places, phase : Phases, target : Phases \cup {"None"},
                             facts : SUBSET Facts, stale : BOOLEAN]]
    /\ ledger \in [Accounts -> Int]
    /\ deal \in Deals
    /\ spent \in [overlaps : Nat, crashes : Nat]

Invested == {"Live", "Realized", "Claimable", "Winding", "Concluded"}

\* The rule of the driver's header: the phase on the chain never runs ahead of
\* the event that justifies it, whichever ticks overlap, break off, or act on a
\* mandate that has changed since (toSourced, toLive, toRealized, toClaimable).
PhaseFollowsFact ==
    /\ vault.phase \in {"Sourced", "Deployed"} \cup Invested =>
          ipo.status \in {"ACCEPTED", "ALLOCATED", "UNSUCCESSFUL"}
    /\ vault.phase \in Invested => ipo.status = "ALLOCATED" /\ custody
    /\ vault.phase \in Invested \ {"Live"} => sale = "FILLED" /\ ~vault.electing
    /\ vault.phase \in Invested \ {"Live", "Realized"} => repatriation = "SETTLED"

\* Nothing is under way, nothing broke off, all that happened to the vault's
\* dollars was seen, and no two ticks settled the vault at once.
Booked ==
    /\ spent.crashes = 0
    /\ \A w \in Workers : tick[w].at = "idle"
    /\ subscription \in {"None", "booked"}
    /\ redemption \in {"None", "booked"}
    /\ spent.overlaps > 0 => vault.phase \notin Invested \ {"Live", "Realized"}

=============================================================================
