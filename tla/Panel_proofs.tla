---------------------------- MODULE Panel_proofs ----------------------------
(***************************************************************************)
(* Theorems about Panel for every set of tabs, keys and turns: the types,   *)
(* the panel's own invariants, then what crosses the inbox (its copies of   *)
(* the service worker's state, and the page snapshots it asked for).        *)
(***************************************************************************)
EXTENDS Panel, SequenceTheorems, TLAPS

-----------------------------------------------------------------------------
(* The activation reducer keeps its state in type and its gates in order *)

InOrder(a) == a \in Activations /\ GateOrder(a)

\* Ordered gates have at most one gate in flight.
LEMMA OneInFlight ==
  ASSUME NEW a, InOrder(a)
  PROVE  /\ \A g, h \in Gates : a.gates[g] = "active" /\ a.gates[h] = "active" => g = h
         /\ \A g \in Gates : a.gates[g] = "active" <=> ActiveGate(a) = g
         /\ ActiveGate(a) \in Gates \cup {NoGate}
BY DEF InOrder, GateOrder, Activations, Gates, Statuses, ActiveGate, NoGate

LEMMA RunType ==
  ASSUME NEW a \in Activations
  PROVE  NextRun(a) \in Runs /\ NextRun(a) \in 0..MaxRun /\ NextRun(a) # 0
BY MaxRunAssumption DEF Activations, NextRun, Runs

\* passBridge, passWorker and passPage.
LEMMA PassInOrder ==
  ASSUME NEW a, InOrder(a)
  PROVE  /\ InOrder(PassBridge(a)) /\ InOrder(PassWorker(a)) /\ InOrder(PassPage(a))
         /\ PassBridge(a).run = a.run /\ PassWorker(a).run = a.run /\ PassPage(a).run = a.run
         /\ PassBridge(a).tenant = a.tenant /\ PassWorker(a).tenant = a.tenant
         /\ PassPage(a).tenant = a.tenant
BY DEF InOrder, GateOrder, Activations, Gates, Statuses, FreshGates, PassBridge, PassWorker,
       PassPage

\* disconnect, timeout and retry.
LEMMA StallInOrder ==
  ASSUME NEW a, InOrder(a), NEW g \in Gates
  PROVE  /\ InOrder(Disconnect(a)) /\ InOrder(TimeOut(a, g)) /\ InOrder(RetryWorker(a))
         /\ Disconnect(a).run = a.run /\ TimeOut(a, g).run = a.run
         /\ RetryWorker(a).run = a.run
         /\ Disconnect(a).tenant = a.tenant /\ TimeOut(a, g).tenant = a.tenant
         /\ RetryWorker(a).tenant = a.tenant
BY DEF InOrder, GateOrder, Activations, Gates, Statuses, FreshGates, Disconnect, TimeOut,
       RetryWorker

\* reset.
LEMMA ResetInOrder ==
  ASSUME NEW a, InOrder(a), NEW c \in BOOLEAN, NEW w \in BOOLEAN
  PROVE  /\ InOrder(Reset(a, c, w)) /\ InOrder(ResetInactive(a))
         /\ Reset(a, c, w).run = NextRun(a) /\ Reset(a, c, w).tenant = TRUE
         /\ ResetInactive(a).run = NextRun(a) /\ ResetInactive(a).tenant = FALSE
         /\ ResetInactive(a).gates = FreshGates
         /\ Reset(a, c, w).gates["page"] \in {"pending", "active"}
<1> DEFINE base == [run |-> NextRun(a), cold |-> ~w, tenant |-> TRUE,
                    gates |-> [FreshGates EXCEPT !["bridge"] = "active"]]
           st == IF c THEN PassBridge(base) ELSE base
<1>1. InOrder(base) /\ base.gates["page"] = "pending"
  BY RunType DEF InOrder, GateOrder, Activations, Gates, Statuses, FreshGates
<1>2. InOrder(st) /\ st.run = NextRun(a) /\ st.tenant = TRUE /\ st.gates["page"] = "pending"
  BY <1>1, PassInOrder DEF PassBridge, InOrder, Activations, Gates
<1>3. InOrder(ResetInactive(a))
  BY RunType DEF InOrder, GateOrder, Activations, Gates, Statuses, FreshGates, ResetInactive
<1>4. Reset(a, c, w) = IF c /\ w THEN PassWorker(st) ELSE st
  BY DEF Reset
<1> HIDE DEF st
<1>5. InOrder(PassWorker(st)) /\ PassWorker(st).run = NextRun(a)
      /\ PassWorker(st).tenant = TRUE
  BY <1>2, PassInOrder
<1>6. PassWorker(st).gates["page"] \in {"pending", "active"}
  BY <1>2 DEF PassWorker, InOrder, Activations, Gates
<1>7. QED BY <1>2, <1>3, <1>4, <1>5, <1>6 DEF ResetInactive

-----------------------------------------------------------------------------
(* The invariant *)

PStates == [tab : Tabs \cup {NoTab}, key : Keys \cup {NoKey}, pageRun : 0..MaxRun,
            snap : Tabs \cup {NoTab}, conv : (Tabs \X Keys) \cup {FreshConv},
            turn : Turns \cup {NoTurn}, watchdog : SUBSET TurnIds,
            resend : Prompts \cup {NoPrompt}]

\* A run has loaded its tab's conversation and asked for its snapshot exactly
\* when its page gate has started.
PageLoaded ==
  act.tenant =>
    /\ act.run # 0
    /\ act.gates["page"] = "pending" => pageRun = 0
    /\ act.gates["page"] # "pending" => pageRun = act.run /\ conv = <<boundTab, boundKey>>

\* The part of the invariant that one firing of the reducer may disturb.
FiredTypes ==
  /\ act \in Activations
  /\ timer \in Gates \cup {NoGate}
  /\ boundTab \in Tabs \cup {NoTab} /\ boundKey \in Keys \cup {NoKey}
  /\ pageRun \in 0..MaxRun
  /\ snap \in Tabs \cup {NoTab}
  /\ conv \in (Tabs \X Keys) \cup {FreshConv}
  /\ turn \in Turns \cup {NoTurn}
  /\ watchdog \subseteq TurnIds
  /\ resend \in Prompts \cup {NoPrompt}
  /\ posted \subseteq Requests
  /\ building \subseteq PageRequests

Fired ==
  /\ FiredTypes /\ GateInFlightIsTimed /\ BoundWhileTenant /\ TurnIsOfBoundTab /\ PageLoaded

RestTypes ==
  /\ retries \in 0..MaxWorkerAutoRetries
  /\ connected \in BOOLEAN
  /\ live \subseteq Keys
  /\ gating \in Seq(Tabs \cup {NoTab})
  /\ alive \subseteq Tabs \X Keys /\ closing \subseteq Tabs \X Keys
  /\ registry \in [Tabs -> Keys \cup {NoKey}]
  /\ routed \in Seq(Requests)
  /\ inbox \in Seq(Messages)
  /\ tabKey \in [Tabs -> Keys \cup {NoKey}]
  /\ openTabs \subseteq Tabs /\ activeTab \in Tabs

Inv == Fired /\ RestTypes /\ BoundKeyIsTabsKey

LEMMA InvTypes == Inv => TypeOK
BY DEF Inv, Fired, FiredTypes, RestTypes, TypeOK, Requests, PageRequests

fired == <<act, timer, boundTab, boundKey, pageRun, snap, conv, turn, watchdog, resend,
           posted, building>>
rest == <<retries, connected, live, gating, alive, closing, registry, routed, inbox,
          tabKey, openTabs, activeTab>>

\* What PageLoaded is for.
LEMMA UsableOwn == Fired => UsableShowsOwnConversation
<1> SUFFICES ASSUME Fired, Usable(act) PROVE conv = <<boundTab, boundKey>>
  BY DEF UsableShowsOwnConversation
<1>1. act.tenant
  BY Zenon DEF Usable, Phase
<1>2. act.gates["page"] # "pending"
  BY DEF Usable, Phase, Gates
<1>3. QED BY <1>1, <1>2 DEF Fired, PageLoaded

LEMMA FiredUnchanged == Fired /\ UNCHANGED fired => Fired'
BY DEF Fired, FiredTypes, GateInFlightIsTimed, BoundWhileTenant, TurnIsOfBoundTab,
       PageLoaded, fired, GateOrder, ActiveGate

\* What a caller of fireActivation provides.
Good(next, p) ==
  /\ InOrder(next)
  /\ p \in PStates
  /\ next.tenant <=> p.key # NoKey
  /\ p.tab = NoTab <=> p.key = NoKey
  /\ p.turn # NoTurn =>
       p.tab \in {p.turn.tab, NoTab} /\ p.turn.conv = <<p.turn.tab, p.turn.key>>
  /\ next.tenant =>
       /\ next.run # 0
       /\ next.gates["page"] = "pending" => p.pageRun = 0
       /\ next.gates["page"] # "pending" =>
            \/ p.pageRun = next.run /\ p.conv = <<p.tab, p.key>>
            \/ next.gates["page"] = "active" /\ p.pageRun # next.run

LEMMA HereType ==
  ASSUME FiredTypes
  PROVE  /\ Here \in PStates
         /\ Here.tab = boundTab /\ Here.key = boundKey /\ Here.pageRun = pageRun
         /\ Here.snap = snap /\ Here.conv = conv /\ Here.turn = turn
         /\ Here.watchdog = watchdog /\ Here.resend = resend
BY DEF FiredTypes, Here, PStates

\* sendMessage.
LEMMA SendType ==
  ASSUME NEW p \in PStates, NEW prompt \in Prompts, p.tab \in Tabs, p.key \in Keys,
         p.conv = <<p.tab, p.key>>, posted \subseteq Requests, SendFrom(p, prompt)
  PROVE  /\ boundTab' = p.tab /\ boundKey' = p.key /\ pageRun' = p.pageRun
         /\ snap' = p.snap /\ conv' = p.conv /\ resend' = p.resend
         /\ watchdog' \subseteq TurnIds
         /\ turn' \in Turns /\ turn'.tab = p.tab /\ turn'.conv = <<turn'.tab, turn'.key>>
         /\ posted' \subseteq Requests
<1>1. PICK id \in TurnIds :
        /\ Same([p EXCEPT !.turn = [id |-> id, tab |-> p.tab, key |-> p.key,
                                    prompt |-> prompt, page |-> p.snap, conv |-> p.conv],
                          !.watchdog = {id}])
        /\ posted' = posted \cup {[id |-> id, tab |-> p.tab, key |-> p.key]}
  BY DEF SendFrom
<1> DEFINE t == [id |-> id, tab |-> p.tab, key |-> p.key, prompt |-> prompt,
                 page |-> p.snap, conv |-> p.conv]
<1>2. t \in Turns /\ t.tab = p.tab /\ t.conv = <<t.tab, t.key>>
  BY DEF Turns, PStates
<1>3. posted' \subseteq Requests
  BY <1>1 DEF Requests
<1>4. turn' = t /\ watchdog' = {id}
  BY <1>1 DEF Same, PStates
<1>5. /\ boundTab' = p.tab /\ boundKey' = p.key /\ pageRun' = p.pageRun
      /\ snap' = p.snap /\ conv' = p.conv /\ resend' = p.resend
  BY <1>1 DEF Same, PStates
<1>6. QED BY <1>2, <1>3, <1>4, <1>5

LEMMA ResentType ==
  ASSUME NEW prompt \in Prompts
  PROVE  Resent(prompt) \in Prompts
BY PanelAssumption DEF Prompts, Resent

\* One firing of the reducer, with all its effects, establishes the invariant.
LEMMA FireInv ==
  ASSUME NEW next, NEW p, Good(next, p),
         posted \subseteq Requests, building \subseteq PageRequests,
         Fire(next, p)
  PROVE  Fired' /\ boundTab' = p.tab /\ boundKey' = p.key
<1> DEFINE asks == Asks(next, p)
           q == IF asks THEN [p EXCEPT !.pageRun = next.run, !.conv = <<p.tab, p.key>>] ELSE p
           q2 == [q EXCEPT !.resend = NoPrompt]
<1>1. asks => p.tab \in Tabs /\ p.key \in Keys
  BY DEF Asks, Good, PStates
<1>2. /\ q \in PStates
      /\ q.tab = p.tab /\ q.key = p.key /\ q.turn = p.turn /\ q.resend = p.resend
  BY <1>1 DEF PStates, Good, InOrder, Activations
<1>3. next.tenant => p.tab \in Tabs /\ p.key \in Keys
  BY DEF Good, PStates
<1>4. next.tenant =>
        /\ next.run # 0
        /\ next.gates["page"] = "pending" => q.pageRun = 0
        /\ next.gates["page"] # "pending" => q.pageRun = next.run /\ q.conv = <<q.tab, q.key>>
  <2>1. CASE asks
    BY <2>1, <1>2 DEF Asks, Good, PStates
  <2>2. CASE ~asks
    BY <2>2, <1>3, PanelAssumption DEF Asks, Good
  <2>3. QED BY <2>1, <2>2
<1>5. building' \subseteq PageRequests
  <2>1. building' = IF asks THEN building \cup {[tab |-> p.tab, req |-> next.run]} ELSE building
    BY DEF Fire
  <2>2. asks => [tab |-> p.tab, req |-> next.run] \in PageRequests
    BY <1>1 DEF PageRequests, Good, InOrder, Activations
  <2>3. QED BY <2>1, <2>2
<1>6. act' = next /\ timer' = ActiveGate(next)
  BY DEF Fire, TimerFor
<1>7. /\ boundTab' = q.tab /\ boundKey' = q.key /\ pageRun' = q.pageRun
      /\ snap' = q.snap /\ conv' = q.conv /\ resend' \in Prompts \cup {NoPrompt}
      /\ watchdog' \subseteq TurnIds
      /\ \/ turn' = q.turn
         \/ turn' \in Turns /\ turn'.tab = q.tab /\ turn'.conv = <<turn'.tab, turn'.key>>
      /\ posted' \subseteq Requests
  <2>1. CASE Phase(next) = "ready" /\ p.resend # NoPrompt /\ p.turn = NoTurn
    <3>1. SendFrom(q2, Resent(p.resend))
      BY <2>1 DEF Fire
    <3>2. next.tenant
      BY <2>1, Zenon DEF Phase
    <3>7. q.conv = <<q.tab, q.key>>
      <4>1. next.gates["page"] # "pending"
        BY <2>1 DEF Phase, Gates
      <4>2. QED BY <4>1, <3>2, <1>4
    <3>3. p.resend \in Prompts
      BY <2>1 DEF Good, PStates
    <3> HIDE DEF q
    <3>4. /\ q2 \in PStates
          /\ q2.tab = q.tab /\ q2.key = q.key /\ q2.pageRun = q.pageRun
          /\ q2.snap = q.snap /\ q2.conv = q.conv /\ q2.resend = NoPrompt
      BY <1>2 DEF PStates
    <3> HIDE DEF q2
    <3>5. q2.tab \in Tabs /\ q2.key \in Keys
      BY <3>2, <3>4, <1>2, <1>3
    <3>6. QED BY <3>1, <3>3, <3>4, <3>5, <3>7, SendType, ResentType
  <2>2. CASE ~(Phase(next) = "ready" /\ p.resend # NoPrompt /\ p.turn = NoTurn)
    <3>1. Same(q) /\ UNCHANGED posted
      BY <2>2 DEF Fire
    <3> HIDE DEF q
    <3>2. QED BY <3>1, <1>2 DEF Same, PStates
  <2>3. QED BY <2>1, <2>2
<1> HIDE DEF q, asks
<1>8. FiredTypes'
  BY <1>2, <1>5, <1>6, <1>7, OneInFlight DEF FiredTypes, Good, InOrder, PStates
<1>9. GateInFlightIsTimed'
  BY <1>6, OneInFlight DEF GateInFlightIsTimed, Good, InOrder, ActiveGate, GateOrder
<1>10. BoundWhileTenant'
  BY <1>2, <1>6, <1>7 DEF BoundWhileTenant, Good
<1>11. TurnIsOfBoundTab'
  BY <1>2, <1>7 DEF TurnIsOfBoundTab, Good
<1>12. PageLoaded'
  BY <1>2, <1>4, <1>6, <1>7 DEF PageLoaded
<1>13. QED BY <1>2, <1>7, <1>8, <1>9, <1>10, <1>11, <1>12 DEF Fired

\* A firing that neither resets the run nor moves the panel.
LEMMA FireHere ==
  ASSUME Fired, NEW next, NEW p \in PStates, InOrder(next),
         next.run = act.run, next.tenant = act.tenant,
         next.gates["page"] = "pending" => act.gates["page"] = "pending",
         act.gates["page"] = "pending" => next.gates["page"] \in {"pending", "active"},
         p.tab = boundTab, p.key = boundKey, p.pageRun = pageRun, p.conv = conv,
         p.turn \in {turn, NoTurn},
         Fire(next, p)
  PROVE  Fired' /\ boundTab' = boundTab /\ boundKey' = boundKey
<1>1. Good(next, p)
  BY DEF Good, Fired, BoundWhileTenant, TurnIsOfBoundTab, PageLoaded
<1>2. QED BY <1>1, FireInv DEF Fired, FiredTypes

LEMMA ActInOrder == Fired => InOrder(act)
BY DEF Fired, FiredTypes, GateInFlightIsTimed, InOrder

\* beginActivation.
LEMMA BeginInv ==
  ASSUME Fired, connected \in BOOLEAN, NEW t \in Tabs, NEW k \in Keys, NEW lv, NEW p \in PStates,
         p.turn # NoTurn => p.turn.tab = t /\ p.turn.conv = <<p.turn.tab, p.turn.key>>,
         Begin(t, k, lv, p)
  PROVE  Fired' /\ boundTab' = t /\ boundKey' = k /\ retries' = 0
<1> DEFINE next == Reset(act, connected, k \in lv)
           q == [p EXCEPT !.tab = t, !.key = k, !.pageRun = 0]
<1>1. /\ InOrder(next) /\ next.run = NextRun(act) /\ next.tenant = TRUE
      /\ next.gates["page"] \in {"pending", "active"}
  <2>1. InOrder(act) /\ (k \in lv) \in BOOLEAN
    BY ActInOrder
  <2>2. /\ InOrder(Reset(act, connected, k \in lv))
        /\ Reset(act, connected, k \in lv).run = NextRun(act)
        /\ Reset(act, connected, k \in lv).tenant = TRUE
        /\ Reset(act, connected, k \in lv).gates["page"] \in {"pending", "active"}
    BY <2>1, ResetInOrder, ZenonT(30)
  <2>3. QED BY <2>2
<1>2. /\ q \in PStates /\ q.tab = t /\ q.key = k /\ q.pageRun = 0 /\ q.turn = p.turn
  <2> DEFINE r == [p EXCEPT !.tab = t, !.key = k]
  <2>1. 0 \in 0..MaxRun
    BY MaxRunAssumption
  <2>2. r \in PStates /\ r.tab = t /\ r.key = k /\ r.turn = p.turn
    BY DEF PStates
  <2>3. q = [r EXCEPT !.pageRun = 0]
    OBVIOUS
  <2> HIDE DEF next, q, r
  <2>4. QED BY <2>1, <2>2, <2>3 DEF PStates
<1>3. Fire(next, q) /\ retries' = 0
  BY DEF Begin
<1>4. NextRun(act) # 0
  BY RunType DEF Fired, FiredTypes
<1> HIDE DEF next, q
<1>5. Good(next, q)
  BY <1>1, <1>2, <1>4, PanelAssumption DEF Good
<1>6. QED BY <1>2, <1>3, <1>5, FireInv DEF Fired, FiredTypes

\* beginInactive.
LEMMA BeginInactiveInv ==
  ASSUME Fired, NEW p \in PStates, BeginInactive(p),
         p.turn # NoTurn => p.turn.conv = <<p.turn.tab, p.turn.key>>
  PROVE  Fired' /\ boundTab' = NoTab /\ boundKey' = NoKey /\ retries' = retries
<1> DEFINE next == ResetInactive(act)
           q == [p EXCEPT !.tab = NoTab, !.key = NoKey, !.conv = FreshConv]
<1>1. InOrder(next) /\ next.tenant = FALSE
  BY ActInOrder, ResetInOrder
<1>2. q \in PStates /\ q.tab = NoTab /\ q.key = NoKey /\ q.turn = p.turn
  BY DEF PStates
<1>3. Fire(next, q) /\ retries' = retries
  BY DEF BeginInactive
<1> HIDE DEF next, q
<1>4. Good(next, q)
  BY <1>1, <1>2 DEF Good
<1>5. QED BY <1>2, <1>3, <1>4, FireInv DEF Fired, FiredTypes

\* A step without a firing: the turn may end, requests come and go.
LEMMA NoFiring ==
  ASSUME Fired, UNCHANGED <<act, timer, boundTab, boundKey, pageRun, snap, conv>>,
         turn' \in {turn, NoTurn}, watchdog' \subseteq TurnIds,
         resend' \in Prompts \cup {NoPrompt},
         posted' \subseteq Requests, building' \subseteq PageRequests
  PROVE  Fired'
<1>1. FiredTypes'
  BY DEF Fired, FiredTypes
<1>2. GateInFlightIsTimed'
  BY DEF Fired, GateInFlightIsTimed, GateOrder, ActiveGate
<1>3. BoundWhileTenant' /\ TurnIsOfBoundTab' /\ PageLoaded'
  BY DEF Fired, BoundWhileTenant, TurnIsOfBoundTab, PageLoaded
<1>4. QED BY <1>1, <1>2, <1>3 DEF Fired

\* A gate call that is pending, or the same panel and tabs, keep BoundKeyIsTabsKey.
LEMMA KeyKept ==
  ASSUME BoundKeyIsTabsKey, gating \in Seq(Tabs \cup {NoTab}),
         UNCHANGED <<boundTab, boundKey, openTabs, tabKey>>,
         gating' = gating \/ \E t \in Tabs \cup {NoTab} : gating' = Append(gating, t)
  PROVE  BoundKeyIsTabsKey' /\ gating' \in Seq(Tabs \cup {NoTab})
<1>1. CASE gating' = gating
  BY <1>1 DEF BoundKeyIsTabsKey
<1>2. CASE \E t \in Tabs \cup {NoTab} : gating' = Append(gating, t)
  <2>1. PICK t \in Tabs \cup {NoTab} : gating' = Append(gating, t)
    BY <1>2
  <2>2. gating' \in Seq(Tabs \cup {NoTab}) /\ gating' # <<>>
    BY <2>1, AppendProperties
  <2>3. QED BY <2>2 DEF BoundKeyIsTabsKey
<1>3. QED BY <1>1, <1>2

-----------------------------------------------------------------------------
(* Messages *)

LEMMA MessageTypes ==
  /\ \A on \in BOOLEAN : Status(on) \in Seq(Messages)
  /\ \A reg \in [Tabs -> Keys \cup {NoKey}] : Bridges(reg) \in Seq(Messages)
  /\ \A id \in TurnIds, kind \in ChatKinds : Chat(id, kind) \in Seq(Messages)
<1>1. ASSUME NEW on \in BOOLEAN PROVE Status(on) \in Seq(Messages)
  <2>1. [type |-> "status", on |-> on] \in Messages
    BY DEF Messages
  <2>2. QED BY <2>1 DEF Status
<1>2. ASSUME NEW reg \in [Tabs -> Keys \cup {NoKey}] PROVE Bridges(reg) \in Seq(Messages)
  <2>1. LiveTenants(reg) \in SUBSET Keys
    BY DEF LiveTenants
  <2>2. [type |-> "bridges", live |-> LiveTenants(reg)] \in Messages
    BY <2>1 DEF Messages
  <2>3. QED BY <2>2 DEF Bridges
<1>3. ASSUME NEW id \in TurnIds, NEW kind \in ChatKinds PROVE Chat(id, kind) \in Seq(Messages)
  <2>1. [type |-> "chat", id |-> id, kind |-> kind] \in Messages
    BY DEF Messages
  <2>2. QED BY <2>1 DEF Chat
<1>4. QED BY <1>1, <1>2, <1>3

LEMMA FailTurnsType ==
  ASSUME routed \in Seq(Requests)
  PROVE  FailTurns \in Seq(Messages)
<1> DEFINE f(i) == [type |-> "chat", id |-> routed[i].id, kind |-> "recoverable"]
<1>1. \A i \in 1..Len(routed) : routed[i] \in Requests
  BY ElementOfSeq
<1>2. \A i \in 1..Len(routed) : f(i) \in Messages
  BY <1>1 DEF Messages, Requests, ChatKinds
<1>3. Len(routed) \in Nat
  BY LenProperties
<1> HIDE DEF f
<1>4. [i \in 1..Len(routed) |-> f(i)] \in Seq(Messages)
  BY <1>2, <1>3, IsASeq
<1>5. QED BY <1>4 DEF FailTurns, f

\* A message taken from the inbox, and what the inbox then holds.
LEMMA TakenType ==
  ASSUME inbox \in Seq(Messages), NEW type, Got(type), inbox' = Tail(inbox)
  PROVE  Head(inbox) \in Messages /\ Head(inbox).type = type /\ inbox' \in Seq(Messages)
BY HeadTailProperties DEF Got

\* The fields of a message of each type.
LEMMA Fields ==
  ASSUME NEW m \in Messages
  PROVE  /\ m.type = "status" => m.on \in BOOLEAN
         /\ m.type = "bridges" => m.live \subseteq Keys
         /\ m.type = "tab_bound" => m.tab \in Tabs /\ m.key \in Keys
         /\ m.type = "tab_closed" => m.tab \in Tabs
         /\ m.type = "page_context" => m.tab \in Tabs /\ m.req \in 0..MaxRun
         /\ m.type = "chat" => m.id \in TurnIds /\ m.kind \in ChatKinds
BY DEF Messages

-----------------------------------------------------------------------------
(* The handlers of the panel *)

LEMMA SuspendedType ==
  ASSUME FiredTypes, NEW t
  PROVE  /\ Suspended(t, Here) \in PStates
         /\ Suspended(t, Here).tab = boundTab /\ Suspended(t, Here).key = boundKey
         /\ Suspended(t, Here).pageRun = pageRun /\ Suspended(t, Here).conv = conv
         /\ Suspended(t, Here).snap = snap
         /\ Suspended(t, Here).turn \in {turn, NoTurn}
         /\ Suspended(t, Here).turn # NoTurn => t = boundTab
BY HereType DEF Suspended, PStates

\* gateToActiveTab.
LEMMA GateResolvesInv ==
  ASSUME Inv, GateResolves
  PROVE  Inv'
<1> DEFINE t == IF Head(gating) \in openTabs THEN Head(gating) ELSE activeTab
           k == tabKey[t]
           p == Suspended(t, Here)
<1>1. gating # <<>> /\ gating' = Tail(gating)
      /\ UNCHANGED <<connected, live, alive, closing, registry, routed, inbox,
                     tabKey, openTabs, activeTab>>
  BY DEF GateResolves, worker, world
<1>2. gating' \in Seq(Tabs \cup {NoTab})
  BY <1>1, HeadTailProperties DEF Inv, RestTypes
<1>3. t \in Tabs /\ k \in Keys \cup {NoKey}
  BY DEF Inv, RestTypes
<1>4. /\ p \in PStates /\ p.tab = boundTab /\ p.key = boundKey
      /\ p.pageRun = pageRun /\ p.conv = conv /\ p.snap = snap
      /\ p.turn \in {turn, NoTurn} /\ (p.turn # NoTurn => t = boundTab)
  BY SuspendedType DEF Inv, Fired
<1>5. p.turn # NoTurn => p.turn.tab = t /\ p.turn.conv = <<p.turn.tab, p.turn.key>>
  BY <1>3, <1>4, PanelAssumption DEF Inv, Fired, TurnIsOfBoundTab
<1>6. \/ /\ SoftRefresh(t, k) /\ Same(p)
         /\ building' = building \cup {[tab |-> t, req |-> 0]}
         /\ UNCHANGED <<act, timer, retries, posted>>
      \/ k # NoKey /\ Begin(t, k, live, p)
      \/ BeginInactive(p)
  BY DEF GateResolves
<1>7. CASE /\ SoftRefresh(t, k) /\ Same(p)
           /\ building' = building \cup {[tab |-> t, req |-> 0]}
           /\ UNCHANGED <<act, timer, retries, posted>>
  <2>1. [tab |-> t, req |-> 0] \in PageRequests
    BY <1>3, MaxRunAssumption DEF PageRequests
  <2>2. /\ boundTab' = boundTab /\ boundKey' = boundKey /\ pageRun' = pageRun
        /\ snap' = snap /\ conv' = conv /\ turn' \in {turn, NoTurn}
        /\ watchdog' = p.watchdog /\ resend' = p.resend
    BY <1>4, <1>7 DEF Same
  <2>3. watchdog' \subseteq TurnIds /\ resend' \in Prompts \cup {NoPrompt}
    BY <1>4, <2>2 DEF PStates
  <2> HIDE DEF p
  <2>4. Fired'
    BY <1>7, <2>1, <2>2, <2>3, NoFiring DEF Inv, Fired, FiredTypes
  <2>5. BoundKeyIsTabsKey'
    BY <1>1, <1>7, <2>2 DEF SoftRefresh, BoundKeyIsTabsKey
  <2>6. RestTypes'
    BY <1>1, <1>2, <1>7 DEF Inv, RestTypes
  <2>7. QED BY <2>4, <2>5, <2>6 DEF Inv
<1>8. CASE k # NoKey /\ Begin(t, k, live, p)
  <2> HIDE DEF p
  <2>1. k \in Keys
    BY <1>3, <1>8
  <2>2. Fired' /\ boundTab' = t /\ boundKey' = k /\ retries' = 0
    BY <1>3, <1>4, <1>5, <1>8, <2>1, BeginInv DEF Inv, RestTypes
  <2>3. BoundKeyIsTabsKey'
    BY <1>1, <2>2 DEF BoundKeyIsTabsKey
  <2>4. RestTypes'
    BY <1>1, <1>2, <2>2 DEF Inv, RestTypes, MaxWorkerAutoRetries
  <2>5. QED BY <2>2, <2>3, <2>4 DEF Inv
<1>9. CASE BeginInactive(p)
  <2> HIDE DEF p
  <2>1. Fired' /\ boundTab' = NoTab /\ boundKey' = NoKey /\ retries' = retries
    BY <1>4, <1>5, <1>9, BeginInactiveInv DEF Inv
  <2>2. BoundKeyIsTabsKey'
    BY <1>1, <2>1, PanelAssumption DEF BoundKeyIsTabsKey, Inv, RestTypes
  <2>3. RestTypes'
    BY <1>1, <1>2, <2>1 DEF Inv, RestTypes
  <2>4. QED BY <2>1, <2>2, <2>3 DEF Inv
<1>10. QED BY <1>6, <1>7, <1>8, <1>9

\* How the gates of each event relate to the ones before.
LEMMA PageGateKept ==
  ASSUME NEW a, InOrder(a), NEW g \in Gates
  PROVE  /\ PassBridge(a).gates["page"] = a.gates["page"]
         /\ Disconnect(a).gates["page"] = a.gates["page"]
         /\ RetryWorker(a).gates["page"] = a.gates["page"]
         /\ PassWorker(a).gates["page"] = "pending" => a.gates["page"] = "pending"
         /\ a.gates["page"] = "pending" => PassWorker(a).gates["page"] \in {"pending", "active"}
         /\ PassPage(a).gates["page"] = "pending" <=> a.gates["page"] = "pending"
         /\ TimeOut(a, g).gates["page"] = "pending" <=> a.gates["page"] = "pending"
BY DEF InOrder, GateOrder, Activations, Gates, Statuses, PassBridge, PassWorker, PassPage,
       Disconnect, RetryWorker, TimeOut

LEMMA OnStatusInv ==
  ASSUME Inv, OnStatus
  PROVE  Inv'
<1> DEFINE on == Head(inbox).on
<1>1. on \in BOOLEAN /\ inbox' \in Seq(Messages)
  BY TakenType, Fields DEF Inv, RestTypes, OnStatus
<1>2. /\ connected' = on
      /\ gating' = IF Regates(on) THEN Append(gating, boundTab) ELSE gating
      /\ UNCHANGED <<retries, live, alive, closing, registry, routed, tabKey, openTabs,
                     activeTab>>
  BY DEF OnStatus, worker, world
<1>3. \/ Fire(PassBridge(act), Here)
      \/ Fire(Disconnect(act), Here)
      \/ UNCHANGED fired
  BY DEF OnStatus, fired
<1>4. InOrder(act) /\ Fired /\ FiredTypes
  BY ActInOrder DEF Inv, Fired
<1>5. Fired' /\ boundTab' = boundTab /\ boundKey' = boundKey
  <2>1. CASE Fire(PassBridge(act), Here)
    BY <1>4, <2>1, FireHere, HereType, PassInOrder, PageGateKept, "page" \in Gates DEF Gates
  <2>2. CASE Fire(Disconnect(act), Here)
    BY <1>4, <2>2, FireHere, HereType, StallInOrder, PageGateKept, "page" \in Gates DEF Gates
  <2>3. CASE UNCHANGED fired
    BY <1>4, <2>3, FiredUnchanged DEF fired
  <2>4. QED BY <1>3, <2>1, <2>2, <2>3
<1>6. BoundKeyIsTabsKey' /\ gating' \in Seq(Tabs \cup {NoTab})
  BY <1>2, <1>4, <1>5, KeyKept DEF Inv, RestTypes, FiredTypes
<1>7. RestTypes'
  BY <1>1, <1>2, <1>6 DEF Inv, RestTypes
<1>8. QED BY <1>5, <1>6, <1>7 DEF Inv

LEMMA OnBridgesInv ==
  ASSUME Inv, OnBridges
  PROVE  Inv'
<1>1. Head(inbox) \in Messages /\ Head(inbox).type = "bridges" /\ inbox' \in Seq(Messages)
  BY TakenType DEF Inv, RestTypes, OnBridges
<1>2. live' \subseteq Keys
  BY <1>1, Fields DEF OnBridges
<1>3. UNCHANGED <<connected, gating, alive, closing, registry, routed, tabKey, openTabs,
                  activeTab>>
  BY DEF OnBridges, worker, world
<1>4. \/ Fire(PassWorker(act), Here) /\ UNCHANGED retries
      \/ boundKey # NoKey /\ Begin(boundTab, boundKey, live', Here)
      \/ UNCHANGED fired /\ UNCHANGED retries
  BY DEF OnBridges, fired
<1>5. InOrder(act) /\ Fired /\ FiredTypes
  BY ActInOrder DEF Inv, Fired
<1>6. /\ Fired' /\ boundTab' = boundTab /\ boundKey' = boundKey
      /\ retries' \in 0..MaxWorkerAutoRetries
  <2>1. CASE Fire(PassWorker(act), Here) /\ UNCHANGED retries
    BY <1>5, <2>1, FireHere, HereType, PassInOrder, PageGateKept, "page" \in Gates
    DEF Gates, Inv, RestTypes
  <2>2. CASE boundKey # NoKey /\ Begin(boundTab, boundKey, live', Here)
    <3>1. boundTab \in Tabs /\ boundKey \in Keys
      BY <1>5, <2>2 DEF FiredTypes, Fired, BoundWhileTenant
    <3>2. /\ Here \in PStates
          /\ Here.turn # NoTurn =>
               /\ Here.turn.tab = boundTab
               /\ Here.turn.conv = <<Here.turn.tab, Here.turn.key>>
      BY <1>5, <3>1, HereType, PanelAssumption DEF Fired, TurnIsOfBoundTab
    <3>3. connected \in BOOLEAN
      BY DEF Inv, RestTypes
    <3>4. Fired' /\ boundTab' = boundTab /\ boundKey' = boundKey /\ retries' = 0
      BY <1>5, <2>2, <3>1, <3>2, <3>3, BeginInv
    <3>5. QED BY <3>4 DEF MaxWorkerAutoRetries
  <2>3. CASE UNCHANGED fired /\ UNCHANGED retries
    BY <1>5, <2>3, FiredUnchanged DEF fired, Inv, RestTypes
  <2>4. QED BY <1>4, <2>1, <2>2, <2>3
<1>7. BoundKeyIsTabsKey'
  BY <1>3, <1>6 DEF Inv, BoundKeyIsTabsKey
<1>8. RestTypes'
  BY <1>1, <1>2, <1>3, <1>6 DEF Inv, RestTypes
<1>9. QED BY <1>6, <1>7, <1>8 DEF Inv

\* tab_bound: the adoption cannot happen.
LEMMA OnTabBoundInv ==
  ASSUME Inv, OnTabBound
  PROVE  Inv'
<1>1. Head(inbox).tab \in Tabs /\ inbox' \in Seq(Messages)
  BY TakenType, Fields DEF Inv, RestTypes, OnTabBound
<1>2. ~Adopts(Head(inbox).key)
  <2>1. CASE act.tenant
    BY <2>1 DEF Adopts, Inv, Fired, BoundWhileTenant
  <2>2. CASE ~act.tenant
    <3>1. Phase(act) = "inactive"
      BY <2>2, Zenon DEF Phase
    <3>2. QED BY <3>1 DEF Adopts
  <2>3. QED BY <2>1, <2>2
<1>3. /\ boundKey' = boundKey /\ boundTab' = boundTab
      /\ building' \subseteq building \cup {[tab |-> Head(inbox).tab, req |-> 0]}
      /\ UNCHANGED <<act, timer, retries, connected, live, pageRun, snap, conv, turn,
                     watchdog, resend, gating, alive, closing, registry, routed, posted,
                     tabKey, openTabs, activeTab>>
  BY <1>2 DEF OnTabBound, worker, world
<1>4. building' \subseteq PageRequests
  BY <1>1, <1>3, MaxRunAssumption DEF PageRequests, Inv, Fired, FiredTypes
<1>5. Fired'
  BY <1>3, <1>4, NoFiring DEF Inv, Fired, FiredTypes
<1>6. BoundKeyIsTabsKey'
  BY <1>3 DEF Inv, BoundKeyIsTabsKey
<1>7. RestTypes'
  BY <1>1, <1>3 DEF Inv, RestTypes
<1>8. QED BY <1>5, <1>6, <1>7 DEF Inv

LEMMA OnTabClosedInv ==
  ASSUME Inv, OnTabClosed
  PROVE  Inv'
<1>1. inbox' \in Seq(Messages)
  BY TakenType DEF Inv, RestTypes, OnTabClosed
<1>2. /\ turn' \in {turn, NoTurn} /\ watchdog' \subseteq watchdog
      /\ resend' \in {resend, NoPrompt}
      /\ UNCHANGED <<act, timer, retries, connected, live, boundTab, boundKey, pageRun,
                     snap, conv, gating, alive, closing, registry, routed, posted, building,
                     tabKey, openTabs, activeTab>>
  BY DEF OnTabClosed, worker, world
<1>3. Fired'
  BY <1>2, NoFiring DEF Inv, Fired, FiredTypes
<1>4. BoundKeyIsTabsKey' /\ RestTypes'
  BY <1>1, <1>2 DEF Inv, RestTypes, BoundKeyIsTabsKey
<1>5. QED BY <1>3, <1>4 DEF Inv

LEMMA OnPageInv ==
  ASSUME Inv, OnPage
  PROVE  Inv'
<1> DEFINE m == Head(inbox)
           p == [Here EXCEPT !.snap = m.tab]
<1>1. m.tab \in Tabs /\ inbox' \in Seq(Messages)
  BY TakenType, Fields DEF Inv, RestTypes, OnPage
<1>2. InOrder(act) /\ Fired /\ FiredTypes
  BY ActInOrder DEF Inv, Fired
<1>3. /\ p \in PStates /\ p.tab = boundTab /\ p.key = boundKey /\ p.pageRun = pageRun
      /\ p.conv = conv /\ p.turn = turn /\ p.snap = m.tab /\ p.watchdog = watchdog
      /\ p.resend = resend
  BY <1>1, <1>2, HereType DEF PStates
<1>4. UNCHANGED <<retries, connected, live, gating, alive, closing, registry, routed,
                  tabKey, openTabs, activeTab>>
  BY DEF OnPage, worker, world
<1>5. \/ UNCHANGED fired
      \/ Fire(PassPage(act), p)
      \/ Same(p) /\ UNCHANGED <<act, timer, posted, building>>
  BY DEF OnPage, fired
<1> HIDE DEF p, m
<1>6. Fired' /\ boundTab' = boundTab /\ boundKey' = boundKey
  <2>1. CASE UNCHANGED fired
    BY <1>2, <2>1, FiredUnchanged DEF fired
  <2>2. CASE Fire(PassPage(act), p)
    BY <1>2, <1>3, <2>2, FireHere, PassInOrder, PageGateKept, "page" \in Gates DEF Gates
  <2>3. CASE Same(p) /\ UNCHANGED <<act, timer, posted, building>>
    <3>1. /\ UNCHANGED <<act, timer, boundTab, boundKey, pageRun, conv, turn, watchdog,
                         resend, posted, building>>
          /\ snap' \in Tabs
      BY <1>1, <1>3, <2>3 DEF Same
    <3>2. FiredTypes'
      BY <1>2, <3>1 DEF FiredTypes
    <3>3. QED
      BY <1>2, <3>1, <3>2 DEF Fired, GateInFlightIsTimed, GateOrder, ActiveGate,
         BoundWhileTenant, TurnIsOfBoundTab, PageLoaded
  <2>4. QED BY <1>5, <2>1, <2>2, <2>3
<1>7. BoundKeyIsTabsKey' /\ RestTypes'
  BY <1>1, <1>4, <1>6 DEF Inv, RestTypes, BoundKeyIsTabsKey
<1>8. QED BY <1>6, <1>7 DEF Inv

LEMMA OnChatInv ==
  ASSUME Inv, OnChat
  PROVE  Inv'
<1>1. Head(inbox).id \in TurnIds /\ inbox' \in Seq(Messages)
  BY TakenType, Fields DEF Inv, RestTypes, OnChat
<1>2. /\ turn' \in {turn, NoTurn} /\ watchdog' \subseteq watchdog \cup {Head(inbox).id}
      /\ resend' \in {resend} \/ (turn # NoTurn /\ resend' = turn.prompt)
      /\ UNCHANGED <<act, timer, retries, connected, live, boundTab, boundKey, pageRun,
                     snap, conv, gating, alive, closing, registry, routed, posted, building,
                     tabKey, openTabs, activeTab>>
  BY DEF OnChat, worker, world
<1>3. resend' \in Prompts \cup {NoPrompt}
  BY <1>2 DEF Inv, Fired, FiredTypes, Turns
<1>4. Fired'
  BY <1>1, <1>2, <1>3, NoFiring DEF Inv, Fired, FiredTypes
<1>5. BoundKeyIsTabsKey' /\ RestTypes'
  BY <1>1, <1>2 DEF Inv, RestTypes, BoundKeyIsTabsKey
<1>6. QED BY <1>4, <1>5 DEF Inv

\* A gate timer.
LEMMA TimerFiresInv ==
  ASSUME Inv, TimerFires
  PROVE  Inv'
<1> DEFINE again == timer = "worker" /\ ShouldAutoRetry(act.cold, retries, MaxWorkerAutoRetries)
           out == TimeOut(act, timer)
           next == IF again THEN RetryWorker(out) ELSE out
<1>1. /\ timer \in Gates
      /\ retries' = IF again THEN retries + 1 ELSE retries
      /\ Fire(next, Here)
      /\ UNCHANGED <<connected, live, gating, alive, closing, registry, routed, inbox,
                     tabKey, openTabs, activeTab>>
  BY DEF TimerFires, worker, world, Inv, Fired, FiredTypes
<1>2. retries' \in 0..MaxWorkerAutoRetries
  BY <1>1 DEF ShouldAutoRetry, MaxWorkerAutoRetries, Inv, RestTypes
<1>3. InOrder(act) /\ Fired /\ FiredTypes
  BY ActInOrder DEF Inv, Fired
<1>4. InOrder(out) /\ out.run = act.run /\ out.tenant = act.tenant
      /\ (out.gates["page"] = "pending" <=> act.gates["page"] = "pending")
  BY <1>1, <1>3, StallInOrder, PageGateKept
<1> HIDE DEF again, out
<1>5. InOrder(next) /\ next.run = act.run /\ next.tenant = act.tenant
      /\ (next.gates["page"] = "pending" <=> act.gates["page"] = "pending")
  BY <1>1, <1>4, StallInOrder, PageGateKept
<1> HIDE DEF next
<1>6. Fired' /\ boundTab' = boundTab /\ boundKey' = boundKey
  BY <1>1, <1>3, <1>5, FireHere, HereType
<1>7. BoundKeyIsTabsKey' /\ RestTypes'
  BY <1>1, <1>2, <1>6 DEF Inv, RestTypes, BoundKeyIsTabsKey
<1>8. QED BY <1>6, <1>7 DEF Inv

\* The first-token watchdog.
LEMMA WatchdogFiresInv ==
  ASSUME Inv, NEW id \in TurnIds, WatchdogFires(id)
  PROVE  Inv'
<1> DEFINE p == [Here EXCEPT !.watchdog = @ \ {id}, !.turn = NoTurn,
                             !.resend = IF @ = NoPrompt THEN turn.prompt ELSE @]
<1>1. UNCHANGED <<connected, live, gating, alive, closing, registry, routed, inbox,
                  tabKey, openTabs, activeTab>>
  BY DEF WatchdogFires, worker, world
<1>2. \/ /\ watchdog' = watchdog \ {id}
         /\ UNCHANGED <<act, timer, retries, boundTab, boundKey, pageRun, snap, conv, turn,
                        resend, posted, building>>
      \/ turn # NoTurn /\ boundKey # NoKey /\ Begin(boundTab, boundKey, live, p)
      \/ turn # NoTurn /\ Same(p) /\ UNCHANGED <<act, timer, retries, posted, building>>
  BY DEF WatchdogFires
<1>3. Fired /\ FiredTypes
  BY DEF Inv, Fired
<1>4. ASSUME turn # NoTurn
      PROVE  /\ p \in PStates /\ p.tab = boundTab /\ p.key = boundKey
             /\ p.pageRun = pageRun /\ p.snap = snap /\ p.conv = conv /\ p.turn = NoTurn
  <2>1. turn.prompt \in Prompts
    BY <1>3, <1>4 DEF FiredTypes, Turns
  <2> DEFINE q == [Here EXCEPT !.watchdog = @ \ {id}, !.turn = NoTurn]
  <2>2. /\ q \in PStates /\ q.tab = boundTab /\ q.key = boundKey /\ q.pageRun = pageRun
        /\ q.snap = snap /\ q.conv = conv /\ q.turn = NoTurn /\ q.resend = resend
    BY <1>3, HereType DEF PStates
  <2>3. p = [q EXCEPT !.resend = IF @ = NoPrompt THEN turn.prompt ELSE @]
    OBVIOUS
  <2> HIDE DEF p, q
  <2>4. QED BY <2>1, <2>2, <2>3 DEF PStates
<1> HIDE DEF p
<1>5. CASE /\ watchdog' = watchdog \ {id}
           /\ UNCHANGED <<act, timer, retries, boundTab, boundKey, pageRun, snap, conv, turn,
                          resend, posted, building>>
  <2>1. Fired'
    BY <1>3, <1>5, NoFiring DEF FiredTypes
  <2>2. BoundKeyIsTabsKey' /\ RestTypes'
    BY <1>1, <1>5 DEF Inv, RestTypes, BoundKeyIsTabsKey
  <2>3. QED BY <2>1, <2>2 DEF Inv
<1>6. CASE turn # NoTurn /\ boundKey # NoKey /\ Begin(boundTab, boundKey, live, p)
  <2>1. boundTab \in Tabs /\ boundKey \in Keys
    BY <1>3, <1>6 DEF FiredTypes, Fired, BoundWhileTenant
  <2>2. connected \in BOOLEAN
    BY DEF Inv, RestTypes
  <2>3. Fired' /\ boundTab' = boundTab /\ boundKey' = boundKey /\ retries' = 0
    BY <1>3, <1>4, <1>6, <2>1, <2>2, BeginInv
  <2>4. BoundKeyIsTabsKey' /\ RestTypes'
    BY <1>1, <2>3 DEF Inv, RestTypes, BoundKeyIsTabsKey, MaxWorkerAutoRetries
  <2>5. QED BY <2>3, <2>4 DEF Inv
<1>7. CASE turn # NoTurn /\ Same(p) /\ UNCHANGED <<act, timer, retries, posted, building>>
  <2>1. /\ UNCHANGED <<boundTab, boundKey, pageRun, snap, conv>> /\ turn' = NoTurn
        /\ watchdog' = p.watchdog /\ resend' = p.resend
    BY <1>4, <1>7 DEF Same
  <2>2. watchdog' \subseteq TurnIds /\ resend' \in Prompts \cup {NoPrompt}
    BY <1>4, <1>7, <2>1 DEF PStates
  <2>3. Fired'
    BY <1>3, <1>7, <2>1, <2>2, NoFiring DEF FiredTypes
  <2>4. BoundKeyIsTabsKey' /\ RestTypes'
    BY <1>1, <1>7, <2>1 DEF Inv, RestTypes, BoundKeyIsTabsKey
  <2>5. QED BY <2>3, <2>4 DEF Inv
<1>8. QED BY <1>2, <1>5, <1>6, <1>7

-----------------------------------------------------------------------------
(* The user *)

LEMMA UserSendsInv ==
  ASSUME Inv, UserSends
  PROVE  Inv'
<1> DEFINE prompt == [tab |-> boundTab, key |-> boundKey, tries |-> 0]
<1>1. /\ boundTab # NoTab /\ boundKey # NoKey
      /\ SendFrom(Here, prompt)
      /\ UNCHANGED <<act, timer, retries, connected, live, gating, alive, closing, registry,
                     routed, building, inbox, tabKey, openTabs, activeTab>>
  BY DEF UserSends, worker, world
<1>2. Fired /\ FiredTypes
  BY DEF Inv, Fired
<1>3. boundTab \in Tabs /\ boundKey \in Keys
  BY <1>1, <1>2 DEF FiredTypes
<1>4. prompt \in Prompts
  BY <1>3, PanelAssumption DEF Prompts
<1> HIDE DEF prompt
<1>10. conv = <<boundTab, boundKey>>
  <2>1. act.tenant /\ Phase(act) \in {"ready", "degraded", "inactive"}
    BY <1>1, <1>2 DEF Fired, BoundWhileTenant, UserSends
  <2>2. Phase(act) # "inactive"
    BY <2>1 DEF Phase
  <2>3. Usable(act)
    BY <2>1, <2>2 DEF Usable
  <2>4. QED BY <1>2, <2>3, UsableOwn DEF UsableShowsOwnConversation
<1>5. /\ UNCHANGED <<boundTab, boundKey, pageRun, snap, conv, resend>>
      /\ watchdog' \subseteq TurnIds
      /\ turn' \in Turns /\ turn'.tab = boundTab /\ turn'.conv = <<turn'.tab, turn'.key>>
      /\ posted' \subseteq Requests
  BY <1>1, <1>2, <1>3, <1>4, <1>10, HereType, SendType DEF FiredTypes
<1>6. FiredTypes'
  BY <1>1, <1>2, <1>5 DEF FiredTypes
<1>7. Fired'
  BY <1>1, <1>2, <1>5, <1>6 DEF Fired, GateInFlightIsTimed, GateOrder, ActiveGate,
     BoundWhileTenant, TurnIsOfBoundTab, PageLoaded
<1>8. BoundKeyIsTabsKey' /\ RestTypes'
  BY <1>1, <1>5 DEF Inv, RestTypes, BoundKeyIsTabsKey
<1>9. QED BY <1>7, <1>8 DEF Inv

LEMMA UserStopsInv ==
  ASSUME Inv, UserStops
  PROVE  Inv'
<1>1. /\ turn' = NoTurn /\ watchdog' = {} /\ resend' = NoPrompt
      /\ UNCHANGED <<act, timer, retries, connected, live, boundTab, boundKey, pageRun,
                     snap, conv, gating, alive, closing, registry, routed, posted, building,
                     inbox, tabKey, openTabs, activeTab>>
  BY DEF UserStops, worker, world
<1>2. Fired'
  BY <1>1, NoFiring DEF Inv, Fired, FiredTypes
<1>3. BoundKeyIsTabsKey' /\ RestTypes'
  BY <1>1 DEF Inv, RestTypes, BoundKeyIsTabsKey
<1>4. QED BY <1>2, <1>3 DEF Inv

LEMMA UserRetriesInv ==
  ASSUME Inv, UserRetries
  PROVE  Inv'
<1>1. UNCHANGED <<retries, connected, live, alive, closing, registry, routed, inbox,
                  tabKey, openTabs, activeTab>>
  BY DEF UserRetries, worker, world
<1>2. \/ gating' = Append(gating, boundTab) /\ UNCHANGED fired
      \/ Fire(RetryWorker(act), Here) /\ UNCHANGED gating
  BY DEF UserRetries, fired
<1>3. InOrder(act) /\ Fired /\ FiredTypes
  BY ActInOrder DEF Inv, Fired
<1>4. Fired' /\ boundTab' = boundTab /\ boundKey' = boundKey
  <2>1. CASE UNCHANGED fired
    BY <1>3, <2>1, FiredUnchanged DEF fired
  <2>2. CASE Fire(RetryWorker(act), Here)
    BY <1>3, <2>2, FireHere, HereType, StallInOrder, PageGateKept, "page" \in Gates DEF Gates
  <2>3. QED BY <1>2, <2>1, <2>2
<1>5. BoundKeyIsTabsKey' /\ gating' \in Seq(Tabs \cup {NoTab})
  BY <1>1, <1>2, <1>3, <1>4, KeyKept DEF Inv, RestTypes, FiredTypes
<1>6. RestTypes'
  BY <1>1, <1>5 DEF Inv, RestTypes
<1>7. QED BY <1>4, <1>5, <1>6 DEF Inv

LEMMA UserRefreshesInv ==
  ASSUME Inv, UserRefreshes
  PROVE  Inv'
<1>1. /\ boundTab # NoTab
      /\ building' = building \cup {[tab |-> boundTab, req |-> 0]}
      /\ UNCHANGED <<act, timer, retries, connected, live, boundTab, boundKey, pageRun, snap,
                     conv, turn, watchdog, resend, gating, alive, closing, registry, routed,
                     posted, inbox, tabKey, openTabs, activeTab>>
  BY DEF UserRefreshes, panel, worker, world
<1>2. building' \subseteq PageRequests
  BY <1>1, MaxRunAssumption DEF PageRequests, Inv, Fired, FiredTypes
<1>3. Fired'
  BY <1>1, <1>2, NoFiring DEF Inv, Fired, FiredTypes
<1>4. BoundKeyIsTabsKey' /\ RestTypes'
  BY <1>1 DEF Inv, RestTypes, BoundKeyIsTabsKey
<1>5. QED BY <1>3, <1>4 DEF Inv

-----------------------------------------------------------------------------
(* The service worker and the tabs: nothing fires *)

\* A step that leaves the panel's fields alone.
LEMMA PanelKept ==
  ASSUME Inv, UNCHANGED panel,
         posted' \subseteq Requests, building' \subseteq PageRequests
  PROVE  Fired' /\ UNCHANGED <<retries, connected, live, boundTab, boundKey>>
BY NoFiring DEF Inv, Fired, FiredTypes, panel

LEMMA RouteTurnInv ==
  ASSUME Inv, NEW r \in Requests, RouteTurn(r)
  PROVE  Inv'
<1>1. /\ UNCHANGED <<panel, gating, alive, closing, registry, building, tabKey, openTabs,
                     activeTab>>
      /\ posted' = posted \ {r}
      /\ \/ routed' = Append(routed, r) /\ inbox' = inbox
         \/ routed' = routed /\ inbox' = inbox \o Chat(r.id, "recoverable")
  BY DEF RouteTurn, world
<1>2. Fired' /\ UNCHANGED <<retries, connected, live, boundTab, boundKey>>
  BY <1>1, PanelKept DEF Inv, Fired, FiredTypes
<1>3. Chat(r.id, "recoverable") \in Seq(Messages)
  BY MessageTypes DEF Requests, ChatKinds
<1>4. routed' \in Seq(Requests) /\ inbox' \in Seq(Messages)
  <2>1. routed \in Seq(Requests) /\ inbox \in Seq(Messages)
    BY DEF Inv, RestTypes
  <2>2. Append(routed, r) \in Seq(Requests)
    BY <2>1, AppendProperties
  <2>3. inbox \o Chat(r.id, "recoverable") \in Seq(Messages)
    BY <1>3, <2>1, ConcatProperties
  <2>4. QED BY <1>1, <2>1, <2>2, <2>3, Zenon
<1>5. BoundKeyIsTabsKey' /\ RestTypes'
  BY <1>1, <1>2, <1>4 DEF Inv, RestTypes, BoundKeyIsTabsKey
<1>6. QED BY <1>2, <1>5 DEF Inv

LEMMA TurnFrameInv ==
  ASSUME Inv, NEW r \in Requests, NEW kind \in ChatKinds, TurnFrame(r, kind)
  PROVE  Inv'
<1>1. /\ UNCHANGED <<panel, gating, alive, closing, registry, posted, building, tabKey,
                     openTabs, activeTab>>
      /\ inbox' = inbox \o Chat(r.id, kind)
  BY DEF TurnFrame, world
<1>2. PICK i \in 1..Len(routed) :
        routed' = IF kind \in Terminal
                  THEN SubSeq(routed, 1, i - 1) \o SubSeq(routed, i + 1, Len(routed))
                  ELSE routed
  BY DEF TurnFrame
<1>3. Fired' /\ UNCHANGED <<retries, connected, live, boundTab, boundKey>>
  BY <1>1, PanelKept DEF Inv, Fired, FiredTypes
<1>4. routed \in Seq(Requests) /\ Len(routed) \in Nat
      /\ \A j \in 1..Len(routed) : routed[j] \in Requests
  BY LenProperties, ElementOfSeq DEF Inv, RestTypes
<1>5. SubSeq(routed, 1, i - 1) \in Seq(Requests)
  BY <1>4, SubSeqProperties
<1>6. SubSeq(routed, i + 1, Len(routed)) \in Seq(Requests)
  BY <1>4, SubSeqProperties
<1>7. routed' \in Seq(Requests)
  BY <1>2, <1>4, <1>5, <1>6, ConcatProperties
<1>8. Chat(r.id, kind) \in Seq(Messages)
  BY MessageTypes DEF Requests
<1>9. inbox' \in Seq(Messages)
  BY <1>1, <1>8, ConcatProperties DEF Inv, RestTypes
<1>10. BoundKeyIsTabsKey' /\ RestTypes'
  BY <1>1, <1>3, <1>7, <1>9 DEF Inv, RestTypes, BoundKeyIsTabsKey
<1>11. QED BY <1>3, <1>10 DEF Inv

LEMMA PageAnswersInv ==
  ASSUME Inv, NEW r \in PageRequests, PageBuilt(r) \/ PageFails(r)
  PROVE  Inv'
<1>1. /\ UNCHANGED <<panel, gating, alive, closing, registry, routed, posted, tabKey,
                     openTabs, activeTab>>
      /\ building' = building \ {r}
      /\ \/ inbox' = inbox
         \/ inbox' = Append(inbox, [type |-> "page_context", tab |-> r.tab, req |-> r.req])
  BY DEF PageBuilt, PageFails, worker, world
<1>2. Fired' /\ UNCHANGED <<retries, connected, live, boundTab, boundKey>>
  BY <1>1, PanelKept DEF Inv, Fired, FiredTypes
<1>3. [type |-> "page_context", tab |-> r.tab, req |-> r.req] \in Messages
  BY DEF PageRequests, Messages
<1>4. inbox' \in Seq(Messages)
  <2> DEFINE m == [type |-> "page_context", tab |-> r.tab, req |-> r.req]
  <2>1. inbox \in Seq(Messages) /\ m \in Messages
    BY <1>3 DEF Inv, RestTypes
  <2>2. inbox' = inbox \/ inbox' = Append(inbox, m)
    BY <1>1
  <2> HIDE DEF m
  <2>3. QED BY <2>1, <2>2, AppendProperties
<1>5. BoundKeyIsTabsKey' /\ RestTypes'
  BY <1>1, <1>2, <1>4 DEF Inv, RestTypes, BoundKeyIsTabsKey
<1>6. QED BY <1>2, <1>5 DEF Inv

LEMMA WorkerOpensInv ==
  ASSUME Inv, NEW t \in Tabs, NEW k \in Keys, WorkerOpens(t, k)
  PROVE  Inv'
<1>1. /\ UNCHANGED <<panel, gating, closing, registry, routed, posted, building, tabKey,
                     openTabs, activeTab>>
      /\ alive' = alive \cup {<<t, k>>}
      /\ inbox' = inbox \o Status(TRUE)
  BY DEF WorkerOpens, world
<1>2. Fired' /\ UNCHANGED <<retries, connected, live, boundTab, boundKey>>
  BY <1>1, PanelKept DEF Inv, Fired, FiredTypes
<1>3. inbox' \in Seq(Messages)
  BY <1>1, MessageTypes, ConcatProperties DEF Inv, RestTypes
<1>4. alive' \subseteq Tabs \X Keys
  BY <1>1 DEF Inv, RestTypes
<1>5. BoundKeyIsTabsKey'
  BY <1>1, <1>2 DEF Inv, BoundKeyIsTabsKey
<1>6. RestTypes'
  BY <1>1, <1>2, <1>3, <1>4 DEF Inv, RestTypes
<1>7. QED BY <1>2, <1>5, <1>6 DEF Inv

LEMMA WorkerIdentifiesInv ==
  ASSUME Inv, NEW t \in Tabs, NEW k \in Keys, WorkerIdentifies(t, k)
  PROVE  Inv'
<1>1. /\ UNCHANGED <<panel, gating, alive, closing, routed, posted, building, tabKey,
                     openTabs, activeTab>>
      /\ registry' = [registry EXCEPT ![t] = k]
      /\ inbox' = inbox \o Bridges(registry')
  BY DEF WorkerIdentifies, world
<1>2. Fired' /\ UNCHANGED <<retries, connected, live, boundTab, boundKey>>
  BY <1>1, PanelKept DEF Inv, Fired, FiredTypes
<1>3. registry' \in [Tabs -> Keys \cup {NoKey}]
  BY <1>1 DEF Inv, RestTypes
<1>4. inbox' \in Seq(Messages)
  BY <1>1, <1>3, MessageTypes, ConcatProperties DEF Inv, RestTypes
<1>5. BoundKeyIsTabsKey' /\ RestTypes'
  BY <1>1, <1>2, <1>3, <1>4 DEF Inv, RestTypes, BoundKeyIsTabsKey
<1>6. QED BY <1>2, <1>5 DEF Inv

LEMMA WorkerClosesInv ==
  ASSUME Inv, NEW t \in Tabs, NEW k \in Keys, WorkerCloses(t, k)
  PROVE  Inv'
<1>1. /\ UNCHANGED <<panel, gating, posted, building, tabKey, openTabs, activeTab>>
      /\ alive' = alive \ {<<t, k>>} /\ closing' = closing \ {<<t, k>>}
      /\ registry' = [registry EXCEPT ![t] = NoKey]
      /\ routed' \in {routed, <<>>}
      /\ inbox' = inbox \o Status(alive' # {})
                    \o (IF alive' = {} THEN FailTurns ELSE <<>>) \o Bridges(registry')
  BY DEF WorkerCloses, world
<1>2. Fired' /\ UNCHANGED <<retries, connected, live, boundTab, boundKey>>
  BY <1>1, PanelKept DEF Inv, Fired, FiredTypes
<1>3. registry' \in [Tabs -> Keys \cup {NoKey}] /\ routed' \in Seq(Requests)
  BY <1>1, EmptySeq DEF Inv, RestTypes
<1> DEFINE st == Status(alive' # {})
           ft == IF alive' = {} THEN FailTurns ELSE <<>>
           br == Bridges(registry')
<1>4. st \in Seq(Messages)
  <2>1. (alive' # {}) \in BOOLEAN
    OBVIOUS
  <2>2. QED BY <2>1, MessageTypes, Zenon
<1>5. ft \in Seq(Messages)
  BY FailTurnsType, EmptySeq DEF Inv, RestTypes
<1>6. br \in Seq(Messages)
  BY <1>3, MessageTypes
<1>7. inbox' = inbox \o st \o ft \o br
  BY <1>1, Zenon
<1> HIDE DEF st, ft, br
<1>8. inbox' \in Seq(Messages)
  BY <1>4, <1>5, <1>6, <1>7, ConcatProperties DEF Inv, RestTypes
<1>9. BoundKeyIsTabsKey' /\ RestTypes'
  BY <1>1, <1>2, <1>3, <1>8 DEF Inv, RestTypes, BoundKeyIsTabsKey
<1>10. QED BY <1>2, <1>9 DEF Inv

LEMMA HeartbeatInv ==
  ASSUME Inv, Heartbeat
  PROVE  Inv'
<1>1. /\ UNCHANGED <<panel, gating, registry, posted, building, tabKey, openTabs, activeTab>>
      /\ closing' = closing \cup alive /\ alive' = {} /\ routed' = <<>>
      /\ inbox' = inbox \o Status(FALSE) \o FailTurns
  BY DEF Heartbeat, world
<1>2. Fired' /\ UNCHANGED <<retries, connected, live, boundTab, boundKey>>
  BY <1>1, PanelKept DEF Inv, Fired, FiredTypes
<1>3. inbox' \in Seq(Messages)
  BY <1>1, MessageTypes, FailTurnsType, ConcatProperties DEF Inv, RestTypes
<1>4. BoundKeyIsTabsKey' /\ RestTypes'
  BY <1>1, <1>2, <1>3, EmptySeq DEF Inv, RestTypes, BoundKeyIsTabsKey
<1>5. QED BY <1>2, <1>4 DEF Inv

LEMMA ScanInv ==
  ASSUME Inv, Scan
  PROVE  Inv'
<1>1. /\ UNCHANGED <<panel, gating, alive, closing, registry, routed, posted, building,
                     tabKey, openTabs, activeTab>>
      /\ inbox' = inbox \o Bridges(registry)
  BY DEF Scan, worker, world
<1>2. Fired' /\ UNCHANGED <<retries, connected, live, boundTab, boundKey>>
  BY <1>1, PanelKept DEF Inv, Fired, FiredTypes
<1>3. inbox' \in Seq(Messages)
  BY <1>1, MessageTypes, ConcatProperties DEF Inv, RestTypes
<1>4. BoundKeyIsTabsKey' /\ RestTypes'
  BY <1>1, <1>2, <1>3 DEF Inv, RestTypes, BoundKeyIsTabsKey
<1>5. QED BY <1>2, <1>4 DEF Inv

LEMMA PageSettlesInv ==
  ASSUME Inv, NEW t \in Tabs, PageSettles(t)
  PROVE  Inv'
<1> DEFINE m == [type |-> "tab_bound", tab |-> t, key |-> tabKey[t]]
<1>1. /\ UNCHANGED <<panel, gating, alive, closing, registry, routed, posted, building,
                     tabKey, openTabs, activeTab>>
      /\ tabKey[t] # NoKey
      /\ inbox' = Append(inbox, m)
  BY DEF PageSettles, worker, world
<1>2. Fired' /\ UNCHANGED <<retries, connected, live, boundTab, boundKey>>
  BY <1>1, PanelKept DEF Inv, Fired, FiredTypes
<1>3. tabKey[t] \in Keys
  BY <1>1 DEF Inv, RestTypes
<1>4. m \in Messages
  BY <1>3 DEF Messages
<1> HIDE DEF m
<1>5. inbox' \in Seq(Messages)
  BY <1>1, <1>4, AppendProperties DEF Inv, RestTypes
<1>6. BoundKeyIsTabsKey' /\ RestTypes'
  BY <1>1, <1>2, <1>5 DEF Inv, RestTypes, BoundKeyIsTabsKey
<1>7. QED BY <1>2, <1>6 DEF Inv

\* After a tab event a gate call is pending, or the panel's tab is as it was.
LEMMA TabActivatedInv ==
  ASSUME Inv, NEW t \in Tabs, TabActivated(t)
  PROVE  Inv'
<1>1. /\ UNCHANGED <<panel, alive, closing, registry, routed, posted, building, inbox,
                     tabKey, openTabs>>
      /\ gating' = Append(gating, t) /\ activeTab' = t
  BY DEF TabActivated, worker
<1>2. Fired' /\ UNCHANGED <<retries, connected, live, boundTab, boundKey>>
  BY <1>1, PanelKept DEF Inv, Fired, FiredTypes
<1>3. BoundKeyIsTabsKey' /\ gating' \in Seq(Tabs \cup {NoTab})
  BY <1>1, <1>2, KeyKept DEF Inv, RestTypes
<1>4. RestTypes'
  BY <1>1, <1>2, <1>3 DEF Inv, RestTypes
<1>5. QED BY <1>2, <1>3, <1>4 DEF Inv

LEMMA TabNavigatedInv ==
  ASSUME Inv, NEW t \in Tabs, NEW k \in Keys \cup {NoKey}, TabNavigated(t, k)
  PROVE  Inv'
<1>1. /\ UNCHANGED <<panel, alive, closing, routed, posted, building, openTabs, activeTab>>
      /\ tabKey' = [tabKey EXCEPT ![t] = k]
      /\ gating' = Append(gating, t)
      /\ \/ registry' = [registry EXCEPT ![t] = NoKey] /\ inbox' = inbox \o Bridges(registry')
         \/ registry' = registry /\ inbox' = inbox
  BY DEF TabNavigated, EvictionNotice
<1>2. Fired' /\ UNCHANGED <<retries, connected, live, boundTab, boundKey>>
  BY <1>1, PanelKept DEF Inv, Fired, FiredTypes
<1>3. gating' \in Seq(Tabs \cup {NoTab}) /\ gating' # <<>>
  <2>1. gating \in Seq(Tabs \cup {NoTab}) /\ t \in Tabs \cup {NoTab}
    BY DEF Inv, RestTypes
  <2>2. QED BY <1>1, <2>1, AppendProperties
<1>4. tabKey' \in [Tabs -> Keys \cup {NoKey}] /\ registry' \in [Tabs -> Keys \cup {NoKey}]
  BY <1>1 DEF Inv, RestTypes
<1>5. inbox' \in Seq(Messages)
  <2>1. inbox \in Seq(Messages) /\ Bridges(registry') \in Seq(Messages)
    BY <1>4, MessageTypes DEF Inv, RestTypes
  <2>2. inbox' = inbox \/ inbox' = inbox \o Bridges(registry')
    BY <1>1
  <2>3. QED BY <2>1, <2>2, ConcatProperties
<1>6. BoundKeyIsTabsKey'
  BY <1>3 DEF BoundKeyIsTabsKey
<1>7. RestTypes'
  BY <1>1, <1>2, <1>3, <1>4, <1>5 DEF Inv, RestTypes
<1>8. QED BY <1>2, <1>6, <1>7 DEF Inv

LEMMA TabClosesInv ==
  ASSUME Inv, NEW t \in Tabs, NEW next \in Tabs, TabCloses(t, next)
  PROVE  Inv'
<1> DEFINE m == [type |-> "tab_closed", tab |-> t]
<1>1. /\ UNCHANGED <<panel, alive, closing, registry, routed, posted, building>>
      /\ openTabs' = openTabs \ {t}
      /\ tabKey' = [tabKey EXCEPT ![t] = NoKey]
      /\ activeTab' \in {activeTab, next}
      /\ gating' = gating \/ gating' = Append(gating, next)
      /\ inbox' = Append(inbox, m)
  BY DEF TabCloses, worker
<1>2. Fired' /\ UNCHANGED <<retries, connected, live, boundTab, boundKey>>
  BY <1>1, PanelKept DEF Inv, Fired, FiredTypes
<1>3. /\ gating' \in Seq(Tabs \cup {NoTab})
      /\ gating' = <<>> => gating = <<>>
  <2>1. gating \in Seq(Tabs \cup {NoTab}) /\ next \in Tabs \cup {NoTab}
    BY DEF Inv, RestTypes
  <2>2. QED BY <1>1, <2>1, AppendProperties
<1>4. m \in Messages
  BY DEF Messages
<1> HIDE DEF m
<1>5. inbox' \in Seq(Messages)
  BY <1>1, <1>4, AppendProperties DEF Inv, RestTypes
<1>6. BoundKeyIsTabsKey'
  BY <1>1, <1>2, <1>3 DEF BoundKeyIsTabsKey, Inv, RestTypes
<1>7. RestTypes'
  BY <1>1, <1>2, <1>3, <1>5 DEF Inv, RestTypes
<1>8. QED BY <1>2, <1>6, <1>7 DEF Inv

-----------------------------------------------------------------------------
(* The theorems *)

LEMMA InitInv == Init => Inv
<1> SUFFICES ASSUME Init PROVE Inv
  OBVIOUS
<1>1. InOrder(act) /\ act.tenant = FALSE
  BY MaxRunAssumption DEF Init, InitActivation, FreshGates, InOrder, GateOrder, Activations,
     Gates, Statuses
<1>2. ActiveGate(act) = NoGate
  BY DEF Init, InitActivation, FreshGates, ActiveGate, Gates, NoGate
<1>3. Fired
  <2>1. FiredTypes
    BY <1>1, MaxRunAssumption DEF Init, FiredTypes, InOrder, Requests, PageRequests
  <2>2. GateInFlightIsTimed
    BY <1>1, <1>2, OneInFlight DEF Init, GateInFlightIsTimed, InOrder
  <2>3. BoundWhileTenant /\ TurnIsOfBoundTab /\ PageLoaded
    BY <1>1, PanelAssumption DEF Init, BoundWhileTenant, TurnIsOfBoundTab, PageLoaded
  <2>4. QED BY <2>1, <2>2, <2>3 DEF Fired
<1>4. inbox \in Seq(Messages)
  <2>1. registry \in [Tabs -> Keys \cup {NoKey}]
    BY DEF Init
  <2> DEFINE st == Status(alive # {})
             br == Bridges(registry)
  <2>2. (alive # {}) \in BOOLEAN
    OBVIOUS
  <2>3. st \in Seq(Messages)
    BY <2>2, MessageTypes, Zenon
  <2>4. br \in Seq(Messages)
    BY <2>1, MessageTypes
  <2>5. inbox = st \o br \o st
    BY Zenon DEF Init
  <2> HIDE DEF st, br
  <2>6. QED BY <2>3, <2>4, <2>5, ConcatProperties
<1>5. gating \in Seq(Tabs \cup {NoTab}) /\ gating # <<>>
  BY DEF Init
<1>6. alive \subseteq Tabs \X Keys
  BY DEF Init
<1>7. RestTypes
  <2>1. retries \in 0..MaxWorkerAutoRetries /\ connected \in BOOLEAN /\ live \subseteq Keys
    <3>1. retries = 0 /\ connected = FALSE /\ live = {}
      BY Zenon DEF Init
    <3>2. retries \in 0..MaxWorkerAutoRetries
      BY <3>1, SMT DEF MaxWorkerAutoRetries
    <3>3. connected \in BOOLEAN
      BY <3>1, Zenon
    <3>4. live \subseteq Keys
      BY <3>1, Zenon
    <3>5. QED BY <3>2, <3>3, <3>4
  <2>2. routed \in Seq(Requests)
    BY EmptySeq, Zenon DEF Init
  <2>3. closing \subseteq Tabs \X Keys /\ openTabs \subseteq Tabs /\ activeTab \in Tabs
    BY DEF Init
  <2>4. registry \in [Tabs -> Keys \cup {NoKey}] /\ tabKey \in [Tabs -> Keys \cup {NoKey}]
    BY Zenon DEF Init
  <2>5. QED BY <1>4, <1>5, <1>6, <2>1, <2>2, <2>3, <2>4, Zenon DEF RestTypes
<1>8. QED BY <1>3, <1>5, <1>7 DEF Inv, BoundKeyIsTabsKey

LEMMA NextInv == Inv /\ [Next]_vars => Inv'
<1> SUFFICES ASSUME Inv, [Next]_vars PROVE Inv'
  OBVIOUS
<1>1. CASE PanelHandler
  BY <1>1, GateResolvesInv, OnStatusInv, OnBridgesInv, OnTabBoundInv, OnTabClosedInv, OnPageInv,
     OnChatInv DEF PanelHandler
<1>2. CASE PanelTimer
  BY <1>2, TimerFiresInv, WatchdogFiresInv DEF PanelTimer
<1>3. CASE User
  BY <1>3, UserSendsInv, UserStopsInv, UserRetriesInv, UserRefreshesInv DEF User
<1>4. CASE \E r \in Requests : RouteTurn(r)
  BY <1>4, RouteTurnInv
<1>5. CASE \E r \in Requests, kind \in ChatKinds : TurnFrame(r, kind)
  BY <1>5, TurnFrameInv
<1>6. CASE \E r \in PageRequests : PageBuilt(r) \/ PageFails(r)
  BY <1>6, PageAnswersInv
<1>7. CASE \E t \in Tabs, k \in Keys :
             WorkerOpens(t, k) \/ WorkerIdentifies(t, k) \/ WorkerCloses(t, k)
  BY <1>7, WorkerOpensInv, WorkerIdentifiesInv, WorkerClosesInv
<1>8. CASE Heartbeat \/ Scan
  BY <1>8, HeartbeatInv, ScanInv
<1>9. CASE \E t \in Tabs : PageSettles(t) \/ TabActivated(t)
  BY <1>9, PageSettlesInv, TabActivatedInv
<1>10. CASE \E t \in Tabs, k \in Keys \cup {NoKey} : TabNavigated(t, k)
  BY <1>10, TabNavigatedInv
<1>11. CASE \E t, next \in Tabs : TabCloses(t, next)
  BY <1>11, TabClosesInv
<1>12. CASE UNCHANGED vars
  <2>1. Fired'
    BY <1>12, FiredUnchanged DEF Inv, vars, panel, fired
  <2>2. BoundKeyIsTabsKey' /\ RestTypes'
    BY <1>12 DEF Inv, RestTypes, BoundKeyIsTabsKey, vars, panel, worker, world
  <2>3. QED BY <2>1, <2>2 DEF Inv
<1>13. QED
  BY <1>1, <1>2, <1>3, <1>4, <1>5, <1>6, <1>7, <1>8, <1>9, <1>10, <1>11, <1>12 DEF Next

\* The inductive invariant holds in every behaviour of the panel and the
\* service worker.
THEOREM PanelInvariant == Spec => []Inv
BY InitInv, NextInv, PTL DEF Spec

\* Every variable of the panel keeps its type, for any number of tabs,
\* tenants, turns and runs.
THEOREM PanelTypeCorrect == Spec => []TypeOK
<1>1. Inv => TypeOK
  BY InvTypes
<1>2. QED BY <1>1, PanelInvariant, PTL

\* The gates stay ordered and the gate in flight has its timer armed, so no
\* phase of the panel lacks the event that ends it.
THEOREM GatesAreTimed == Spec => []GateInFlightIsTimed
<1>1. Inv => GateInFlightIsTimed
  BY DEF Inv, Fired
<1>2. QED BY <1>1, PanelInvariant, PTL

\* The panel has a tenant exactly while a tab and its key are bound; the
\* adoption branch of tab_bound is dead code.
THEOREM BoundExactlyWithTenant == Spec => []BoundWhileTenant
<1>1. Inv => BoundWhileTenant
  BY DEF Inv, Fired
<1>2. QED BY <1>1, PanelInvariant, PTL

\* With no gate call pending, the panel is bound under the key its tab has.
THEOREM BoundKeyCorrect == Spec => []BoundKeyIsTabsKey
<1>1. Inv => BoundKeyIsTabsKey
  BY DEF Inv
<1>2. QED BY <1>1, PanelInvariant, PTL

\* A panel that accepts input shows the conversation of its tab and tenant.
THEOREM OwnConversationShown == Spec => []UsableShowsOwnConversation
<1>1. Inv => UsableShowsOwnConversation
  BY UsableOwn DEF Inv
<1>2. QED BY <1>1, PanelInvariant, PTL

\* The active turn is of the tab the panel is gated to.
THEOREM TurnOnBoundTab == Spec => []TurnIsOfBoundTab
<1>1. Inv => TurnIsOfBoundTab
  BY DEF Inv, Fired
<1>2. QED BY <1>1, PanelInvariant, PTL

-----------------------------------------------------------------------------
(* The panel's copies of the service worker's state: the last message of a  *)
(* type in the inbox, or what is held if there is none, is up to date       *)

\* What a status or bridges message tells.
Told(m) == IF m.type = "status" THEN m.on ELSE m.live

Without(type, box) == \A i \in 1..Len(box) : box[i].type # type

LastOf(type, box, i) ==
  /\ i \in 1..Len(box) /\ box[i].type = type
  /\ \A j \in 1..Len(box) : j > i => box[j].type # type

UpToDate(type, box, held, now) ==
  /\ Without(type, box) => held = now
  /\ \A i \in 1..Len(box) : LastOf(type, box, i) => Told(box[i]) = now

\* More messages, none of the type.
LEMMA OthersAppended ==
  ASSUME NEW type, NEW box \in Seq(Messages), NEW s \in Seq(Messages), NEW held, NEW now,
         UpToDate(type, box, held, now), Without(type, s)
  PROVE  UpToDate(type, box \o s, held, now)
<1>1. /\ Len(box \o s) = Len(box) + Len(s) /\ Len(box) \in Nat /\ Len(s) \in Nat
      /\ \A i \in 1..Len(box) : (box \o s)[i] = box[i]
      /\ \A i \in 1..Len(s) : (box \o s)[Len(box) + i] = s[i]
  BY ConcatProperties, LenProperties
<1> DEFINE b == box \o s
<1>2. \A i \in 1..Len(b) : i \notin 1..Len(box) => b[i].type # type
  <2> SUFFICES ASSUME NEW i \in 1..Len(b), i \notin 1..Len(box) PROVE b[i].type # type
    OBVIOUS
  <2>1. PICK k \in 1..Len(s) : i = Len(box) + k
    <3>1. i - Len(box) \in 1..Len(s) /\ i = Len(box) + (i - Len(box))
      BY <1>1
    <3> QED BY <3>1
  <2> QED BY <1>1, <2>1 DEF Without
<1>3. \A i \in 1..Len(box) : i \in 1..Len(b) /\ b[i] = box[i]
  BY <1>1
<1> HIDE DEF b
<1>4. Without(type, b) => Without(type, box)
  BY <1>3 DEF Without
<1>5. ASSUME NEW i \in 1..Len(b), LastOf(type, b, i)
      PROVE  Told(b[i]) = now
  <2>1. i \in 1..Len(box)
    BY <1>2, <1>5 DEF LastOf
  <2>2. LastOf(type, box, i)
    BY <1>3, <1>5, <2>1 DEF LastOf
  <2> QED BY <1>3, <2>1, <2>2 DEF UpToDate
<1>6. UpToDate(type, b, held, now)
  BY <1>4, <1>5 DEF UpToDate
<1> QED BY <1>6 DEF b

\* A message of the type, whatever was there before.
LEMMA NewsAppended ==
  ASSUME NEW type, NEW box \in Seq(Messages), NEW m \in Messages, m.type = type, NEW held
  PROVE  UpToDate(type, box \o <<m>>, held, Told(m))
<1>1. /\ Len(box \o <<m>>) = Len(box) + 1 /\ Len(box) \in Nat
      /\ (box \o <<m>>)[Len(box) + 1] = m
  BY ConcatProperties, LenProperties
<1> DEFINE b == box \o <<m>>
<1>2. Len(b) \in 1..Len(b) /\ b[Len(b)] = m
  BY <1>1
<1>3. \A i \in 1..Len(b) : i = Len(b) \/ Len(b) > i
  BY <1>1
<1> HIDE DEF b
<1>4. ~Without(type, b)
  BY <1>2 DEF Without
<1>5. \A i \in 1..Len(b) : LastOf(type, b, i) => i = Len(b)
  BY <1>2, <1>3 DEF LastOf
<1>6. UpToDate(type, b, held, Told(m))
  BY <1>2, <1>4, <1>5 DEF UpToDate
<1> QED BY <1>6 DEF b

\* The panel takes a message: one of the type is then what it holds.
LEMMA FirstTaken ==
  ASSUME NEW type, NEW box \in Seq(Messages), box # <<>>, NEW held, NEW now,
         UpToDate(type, box, held, now)
  PROVE  UpToDate(type, Tail(box), IF Head(box).type = type THEN Told(Head(box)) ELSE held, now)
<1>1. /\ Len(Tail(box)) = Len(box) - 1 /\ Len(box) \in Nat \ {0} /\ Head(box) = box[1]
      /\ \A i \in 1..Len(Tail(box)) : Tail(box)[i] = box[i + 1]
  BY HeadTailProperties, LenProperties, EmptySeq
<1> DEFINE b == Tail(box)
           have == IF Head(box).type = type THEN Told(Head(box)) ELSE held
<1>2. \A i \in 1..Len(b) : i + 1 \in 1..Len(box) /\ b[i] = box[i + 1]
  BY <1>1
<1>3. \A j \in 1..Len(box) : j = 1 \/ \E i \in 1..Len(b) : j = i + 1
  <2> SUFFICES ASSUME NEW j \in 1..Len(box), j # 1 PROVE \E i \in 1..Len(b) : j = i + 1
    OBVIOUS
  <2>1. j - 1 \in 1..Len(b) /\ j = (j - 1) + 1
    BY <1>1
  <2> QED BY <2>1
<1>4. \A i, j \in 1..Len(b) : j + 1 > i + 1 => j > i
  BY <1>1
<1>5. 1 \in 1..Len(box) /\ Head(box) = box[1] /\ \A i \in 1..Len(b) : ~(1 > i + 1)
  BY <1>1
<1> HIDE DEF b
<1>6. ASSUME Without(type, b)
      PROVE  have = now
  <2>1. CASE Head(box).type = type
    <3>1. LastOf(type, box, 1)
      BY <1>2, <1>3, <1>5, <1>6, <2>1 DEF LastOf, Without
    <3> QED BY <1>5, <2>1, <3>1 DEF UpToDate
  <2>2. CASE Head(box).type # type
    <3>1. Without(type, box)
      BY <1>2, <1>3, <1>5, <1>6, <2>2 DEF Without
    <3> QED BY <2>2, <3>1 DEF UpToDate
  <2> QED BY <2>1, <2>2
<1>7. ASSUME NEW i \in 1..Len(b), LastOf(type, b, i)
      PROVE  Told(b[i]) = now
  <2>1. LastOf(type, box, i + 1)
    <3>1. ASSUME NEW j \in 1..Len(box), j > i + 1 PROVE box[j].type # type
      <4>1. PICK k \in 1..Len(b) : j = k + 1
        BY <1>3, <1>5, <3>1
      <4> QED BY <1>2, <1>4, <1>7, <3>1, <4>1 DEF LastOf
    <3> QED BY <1>2, <1>7, <3>1 DEF LastOf
  <2> QED BY <1>2, <2>1 DEF UpToDate
<1>8. UpToDate(type, b, have, now)
  BY <1>6, <1>7 DEF UpToDate
<1> QED BY <1>8 DEF b

\* The panel holds, or has in its inbox, the state of the sockets and the live tenants.
StatusIsTold == UpToDate("status", inbox, connected, alive # {})
BridgesAreTold == UpToDate("bridges", inbox, live, LiveTenants(registry))
ViewInv == StatusIsTold /\ BridgesAreTold

\* The messages that are about neither.
LEMMA NoNews ==
  /\ \A on : Without("bridges", Status(on))
  /\ \A reg : Without("status", Bridges(reg))
  /\ \A type \in {"status", "bridges"} :
       /\ \A id, kind : Without(type, Chat(id, kind))
       /\ Without(type, FailTurns) /\ Without(type, <<>>)
<1>1. \A on : Without("bridges", Status(on))
  BY DEF Without, Status
<1>2. \A reg : Without("status", Bridges(reg))
  BY DEF Without, Bridges
<1>3. \A type \in {"status", "bridges"} : \A id, kind : Without(type, Chat(id, kind))
  BY DEF Without, Chat
<1>4. \A type \in {"status", "bridges"} : Without(type, FailTurns)
  BY DEF Without, FailTurns
<1>5. \A type : Without(type, <<>>)
  BY DEF Without
<1> QED BY <1>1, <1>2, <1>3, <1>4, <1>5

\* A broadcast of the status, or of the bridges.
LEMMA StatusNews ==
  ASSUME NEW box \in Seq(Messages), NEW on \in BOOLEAN, NEW held
  PROVE  UpToDate("status", box \o Status(on), held, on)
<1>1. PICK m : m = [type |-> "status", on |-> on]
  OBVIOUS
<1>2. m \in Messages /\ m.type = "status" /\ Told(m) = on /\ Status(on) = <<m>>
  BY <1>1 DEF Messages, Told, Status
<1>3. UpToDate("status", box \o <<m>>, held, Told(m))
  BY <1>2, NewsAppended
<1> QED BY <1>2, <1>3

LEMMA BridgesNews ==
  ASSUME NEW box \in Seq(Messages), NEW reg \in [Tabs -> Keys \cup {NoKey}], NEW held
  PROVE  UpToDate("bridges", box \o Bridges(reg), held, LiveTenants(reg))
<1>1. PICK m : m = [type |-> "bridges", live |-> LiveTenants(reg)]
  OBVIOUS
<1>2. LiveTenants(reg) \subseteq Keys
  BY DEF LiveTenants
<1>3. m \in Messages /\ m.type = "bridges" /\ Told(m) = LiveTenants(reg) /\ Bridges(reg) = <<m>>
  BY <1>1, <1>2 DEF Messages, Told, Bridges
<1>4. UpToDate("bridges", box \o <<m>>, held, Told(m))
  BY <1>3, NewsAppended
<1> QED BY <1>3, <1>4

\* A message of another kind.
LEMMA OtherMessage ==
  ASSUME Inv, ViewInv, NEW m \in Messages, m.type \notin {"status", "bridges"},
         inbox' = Append(inbox, m), UNCHANGED <<connected, live, alive, registry>>
  PROVE  ViewInv'
<1>1. inbox' = inbox \o <<m>> /\ <<m>> \in Seq(Messages) /\ inbox \in Seq(Messages)
  BY AppendIsConcat DEF Inv, RestTypes
<1>2. Without("status", <<m>>) /\ Without("bridges", <<m>>)
  BY DEF Without
<1>3. /\ UpToDate("status", inbox \o <<m>>, connected, alive # {})
      /\ UpToDate("bridges", inbox \o <<m>>, live, LiveTenants(registry))
  BY <1>1, <1>2, OthersAppended DEF ViewInv, StatusIsTold, BridgesAreTold
<1> QED BY <1>1, <1>3 DEF ViewInv, StatusIsTold, BridgesAreTold

\* Events of a turn.
LEMMA ChatMessages ==
  ASSUME Inv, ViewInv, NEW id \in TurnIds, NEW kind \in ChatKinds,
         inbox' = inbox \o Chat(id, kind), UNCHANGED <<connected, live, alive, registry>>
  PROVE  ViewInv'
<1>1. Chat(id, kind) \in Seq(Messages) /\ inbox \in Seq(Messages)
  BY MessageTypes DEF Inv, RestTypes
<1>2. Without("status", Chat(id, kind)) /\ Without("bridges", Chat(id, kind))
  BY NoNews
<1>3. /\ UpToDate("status", inbox \o Chat(id, kind), connected, alive # {})
      /\ UpToDate("bridges", inbox \o Chat(id, kind), live, LiveTenants(registry))
  BY <1>1, <1>2, OthersAppended DEF ViewInv, StatusIsTold, BridgesAreTold
<1> QED BY <1>3 DEF ViewInv, StatusIsTold, BridgesAreTold

\* The panel takes a message: a status or bridges message is then what it holds.
LEMMA PanelTakes ==
  ASSUME Inv, ViewInv, inbox # <<>>, inbox' = Tail(inbox), UNCHANGED <<alive, registry>>,
         connected' = IF Head(inbox).type = "status" THEN Told(Head(inbox)) ELSE connected,
         live' = IF Head(inbox).type = "bridges" THEN Told(Head(inbox)) ELSE live
  PROVE  ViewInv'
<1>1. inbox \in Seq(Messages)
  BY DEF Inv, RestTypes
<1>2. UpToDate("status", inbox', connected', alive # {})
  BY <1>1, FirstTaken DEF ViewInv, StatusIsTold
<1>3. UpToDate("bridges", inbox', live', LiveTenants(registry))
  BY <1>1, FirstTaken DEF ViewInv, BridgesAreTold
<1> QED BY <1>2, <1>3 DEF ViewInv, StatusIsTold, BridgesAreTold

LEMMA HandlersView ==
  ASSUME Inv, ViewInv, PanelHandler
  PROVE  ViewInv'
<1>1. CASE GateResolves
  BY <1>1 DEF GateResolves, worker, ViewInv, StatusIsTold, BridgesAreTold
<1>2. CASE OnStatus
  <2>1. /\ inbox # <<>> /\ inbox' = Tail(inbox) /\ UNCHANGED <<alive, registry, live>>
        /\ Head(inbox).type = "status" /\ connected' = Told(Head(inbox))
    BY <1>2 DEF OnStatus, Got, worker, Told
  <2> QED BY <2>1, PanelTakes
<1>3. CASE OnBridges
  <2>1. /\ inbox # <<>> /\ inbox' = Tail(inbox) /\ UNCHANGED <<alive, registry, connected>>
        /\ Head(inbox).type = "bridges" /\ live' = Told(Head(inbox))
    BY <1>3 DEF OnBridges, Got, worker, Told
  <2> QED BY <2>1, PanelTakes
<1>4. ASSUME OnTabBound \/ OnTabClosed \/ OnPage \/ OnChat
      PROVE  ViewInv'
  <2>1. /\ inbox # <<>> /\ inbox' = Tail(inbox)
        /\ UNCHANGED <<alive, registry, connected, live>>
        /\ Head(inbox).type \notin {"status", "bridges"}
    BY <1>4 DEF OnTabBound, OnTabClosed, OnPage, OnChat, Got, worker
  <2> QED BY <2>1, PanelTakes
<1> QED BY <1>1, <1>2, <1>3, <1>4 DEF PanelHandler

LEMMA WorkerOpensView ==
  ASSUME Inv, ViewInv, NEW t \in Tabs, NEW k \in Keys, WorkerOpens(t, k)
  PROVE  ViewInv'
<1>1. /\ UNCHANGED <<connected, live, registry>>
      /\ alive' # {} /\ inbox' = inbox \o Status(TRUE)
  BY DEF WorkerOpens, panel
<1>2. inbox \in Seq(Messages) /\ Status(TRUE) \in Seq(Messages) /\ Without("bridges", Status(TRUE))
  BY MessageTypes, NoNews DEF Inv, RestTypes
<1>3. UpToDate("status", inbox \o Status(TRUE), connected, TRUE)
  BY <1>2, StatusNews
<1>4. UpToDate("bridges", inbox \o Status(TRUE), live, LiveTenants(registry))
  BY <1>2, OthersAppended DEF ViewInv, BridgesAreTold
<1>5. (alive' # {}) = TRUE
  BY <1>1
<1> QED BY <1>1, <1>3, <1>4, <1>5 DEF ViewInv, StatusIsTold, BridgesAreTold

\* A broadcast of the bridges, after a change of the registry or without one.
LEMMA BridgesView ==
  ASSUME Inv, ViewInv, UNCHANGED <<connected, live, alive>>,
         registry' \in [Tabs -> Keys \cup {NoKey}], inbox' = inbox \o Bridges(registry')
  PROVE  ViewInv'
<1>1. PICK reg \in [Tabs -> Keys \cup {NoKey}] : reg = registry'
  OBVIOUS
<1>2. inbox \in Seq(Messages) /\ Bridges(reg) \in Seq(Messages) /\ Without("status", Bridges(reg))
  BY MessageTypes, NoNews DEF Inv, RestTypes
<1>3. UpToDate("bridges", inbox \o Bridges(reg), live, LiveTenants(reg))
  BY <1>2, BridgesNews
<1>4. UpToDate("status", inbox \o Bridges(reg), connected, alive # {})
  BY <1>2, OthersAppended DEF ViewInv, StatusIsTold
<1>5. LiveTenants(registry)' = LiveTenants(reg)
  BY <1>1 DEF LiveTenants
<1> QED BY <1>1, <1>3, <1>4, <1>5 DEF ViewInv, StatusIsTold, BridgesAreTold

\* onclose tells both, and between them that the turns failed.
LEMMA WorkerClosesView ==
  ASSUME Inv, ViewInv, NEW t \in Tabs, NEW k \in Keys, WorkerCloses(t, k)
  PROVE  ViewInv'
<1>0. PICK on \in BOOLEAN : on = (alive' # {})
  OBVIOUS
<1>1. PICK ft, reg :
        /\ on = (alive' # {}) /\ reg = registry'
        /\ ft = IF alive' = {} THEN FailTurns ELSE <<>>
        /\ inbox' = inbox \o Status(on) \o ft \o Bridges(reg)
        /\ UNCHANGED <<connected, live>>
        /\ reg = [registry EXCEPT ![t] = NoKey]
  BY <1>0 DEF WorkerCloses, panel
<1>2. reg \in [Tabs -> Keys \cup {NoKey}]
  BY <1>1 DEF Inv, RestTypes
<1>3. /\ inbox \in Seq(Messages) /\ Status(on) \in Seq(Messages) /\ ft \in Seq(Messages)
      /\ Bridges(reg) \in Seq(Messages)
  BY <1>1, <1>2, MessageTypes, FailTurnsType, EmptySeq DEF Inv, RestTypes
<1>4. PICK a, b : a = inbox \o Status(on) /\ b = a \o ft
  OBVIOUS
<1>5. a \in Seq(Messages) /\ b \in Seq(Messages) /\ inbox' = b \o Bridges(reg)
  BY <1>1, <1>3, <1>4, ConcatProperties
<1>6. UpToDate("status", inbox', connected, on)
  <2>1. UpToDate("status", a, connected, on)
    BY <1>3, <1>4, StatusNews
  <2>2. Without("status", ft)
    BY <1>1, NoNews
  <2>3. UpToDate("status", b, connected, on)
    BY <1>3, <1>4, <1>5, <2>1, <2>2, OthersAppended
  <2>4. Without("status", Bridges(reg))
    BY NoNews
  <2> QED BY <1>3, <1>5, <2>3, <2>4, OthersAppended
<1>7. UpToDate("bridges", inbox', live, LiveTenants(reg))
  BY <1>2, <1>5, BridgesNews
<1>8. LiveTenants(registry)' = LiveTenants(reg)
  BY <1>1 DEF LiveTenants
<1> QED BY <1>1, <1>6, <1>7, <1>8 DEF ViewInv, StatusIsTold, BridgesAreTold

LEMMA HeartbeatView ==
  ASSUME Inv, ViewInv, Heartbeat
  PROVE  ViewInv'
<1>1. PICK ft, a : ft = FailTurns /\ a = inbox \o Status(FALSE)
  OBVIOUS
<1>2. UNCHANGED <<connected, live, registry>> /\ alive' = {} /\ inbox' = a \o ft
  BY <1>1 DEF Heartbeat, panel
<1>3. inbox \in Seq(Messages) /\ Status(FALSE) \in Seq(Messages) /\ ft \in Seq(Messages)
  BY <1>1, MessageTypes, FailTurnsType DEF Inv, RestTypes
<1>4. a \in Seq(Messages)
  BY <1>1, <1>3, ConcatProperties
<1>5. /\ Without("bridges", Status(FALSE)) /\ Without("bridges", ft) /\ Without("status", ft)
  BY <1>1, NoNews
<1>6. UpToDate("status", a \o ft, connected, FALSE)
  <2>1. UpToDate("status", a, connected, FALSE)
    BY <1>1, <1>3, StatusNews
  <2> QED BY <1>3, <1>4, <1>5, <2>1, OthersAppended
<1>7. UpToDate("bridges", a \o ft, live, LiveTenants(registry))
  <2>1. UpToDate("bridges", a, live, LiveTenants(registry))
    BY <1>1, <1>3, <1>5, OthersAppended DEF ViewInv, BridgesAreTold
  <2> QED BY <1>3, <1>4, <1>5, <2>1, OthersAppended
<1>8. (alive' # {}) = FALSE
  BY <1>2
<1> QED BY <1>2, <1>6, <1>7, <1>8 DEF ViewInv, StatusIsTold, BridgesAreTold

LEMMA ViewInvInit == Init => ViewInv
<1> SUFFICES ASSUME Init PROVE ViewInv
  OBVIOUS
<1>0. PICK on \in BOOLEAN : on = (alive # {})
  OBVIOUS
<1>1. PICK a : on = (alive # {}) /\ a = <<>> \o Status(on) \o Bridges(registry)
  BY <1>0
<1>2. registry \in [Tabs -> Keys \cup {NoKey}]
  BY DEF Init
<1>3. Status(on) \in Seq(Messages) /\ Bridges(registry) \in Seq(Messages)
  BY <1>2, MessageTypes
<1>4. <<>> \o Status(on) = Status(on)
  BY <1>3, ConcatEmptySeq
<1>5. a = Status(on) \o Bridges(registry) /\ inbox = a \o Status(on)
  BY <1>1, <1>4, Zenon DEF Init
<1>6. a \in Seq(Messages)
  BY <1>3, <1>5, ConcatProperties
<1>7. UpToDate("status", inbox, connected, on)
  BY <1>5, <1>6, StatusNews
<1>8. UpToDate("bridges", a, live, LiveTenants(registry))
  BY <1>2, <1>3, <1>5, BridgesNews
<1>9. UpToDate("bridges", inbox, live, LiveTenants(registry))
  BY <1>3, <1>5, <1>6, <1>8, NoNews, OthersAppended
<1> QED BY <1>1, <1>7, <1>9 DEF ViewInv, StatusIsTold, BridgesAreTold

LEMMA ViewInvNext == Inv /\ ViewInv /\ [Next]_vars => ViewInv'
<1> SUFFICES ASSUME Inv, ViewInv, [Next]_vars PROVE ViewInv'
  OBVIOUS
<1>1. ASSUME UNCHANGED <<inbox, connected, live, alive, registry>>
      PROVE  ViewInv'
  BY <1>1 DEF ViewInv, StatusIsTold, BridgesAreTold, LiveTenants
<1>2. CASE PanelHandler
  BY <1>2, HandlersView
<1>3. CASE PanelTimer \/ User
  BY <1>1, <1>3
     DEF PanelTimer, TimerFires, WatchdogFires, User, UserSends, UserStops, UserRetries,
         UserRefreshes, worker, panel
<1>4. ASSUME NEW r \in Requests, RouteTurn(r)
      PROVE  ViewInv'
  <2>1. /\ UNCHANGED <<connected, live, alive, registry>>
        /\ inbox' = inbox \/ inbox' = inbox \o Chat(r.id, "recoverable")
    BY <1>4 DEF RouteTurn, panel
  <2>2. r.id \in TurnIds /\ "recoverable" \in ChatKinds
    BY DEF Requests, ChatKinds
  <2> QED BY <1>1, <2>1, <2>2, ChatMessages
<1>5. ASSUME NEW r \in Requests, NEW kind \in ChatKinds, TurnFrame(r, kind)
      PROVE  ViewInv'
  <2>1. /\ UNCHANGED <<connected, live, alive, registry>>
        /\ inbox' = inbox \o Chat(r.id, kind) /\ r.id \in TurnIds
    BY <1>5 DEF TurnFrame, panel, Requests
  <2> QED BY <2>1, ChatMessages
<1>6. ASSUME NEW r \in PageRequests, PageBuilt(r) \/ PageFails(r)
      PROVE  ViewInv'
  <2>1. PICK m : m = [type |-> "page_context", tab |-> r.tab, req |-> r.req]
    OBVIOUS
  <2>2. m \in Messages /\ m.type = "page_context"
    BY <2>1 DEF PageRequests, Messages
  <2>3. /\ UNCHANGED <<connected, live, alive, registry>>
        /\ inbox' = inbox \/ inbox' = Append(inbox, m)
    BY <1>6, <2>1 DEF PageBuilt, PageFails, panel, worker
  <2> QED BY <1>1, <2>2, <2>3, OtherMessage
<1>7. ASSUME NEW t \in Tabs, NEW k \in Keys,
             WorkerOpens(t, k) \/ WorkerIdentifies(t, k) \/ WorkerCloses(t, k)
      PROVE  ViewInv'
  <2>1. CASE WorkerIdentifies(t, k)
    <3>1. /\ registry' = [registry EXCEPT ![t] = k] /\ inbox' = inbox \o Bridges(registry')
          /\ UNCHANGED <<connected, live, alive>>
      BY <2>1 DEF WorkerIdentifies, panel
    <3>2. registry' \in [Tabs -> Keys \cup {NoKey}]
      BY <3>1 DEF Inv, RestTypes
    <3> QED BY <3>1, <3>2, BridgesView
  <2> QED BY <1>7, <2>1, WorkerOpensView, WorkerClosesView
<1>8. CASE Heartbeat
  BY <1>8, HeartbeatView
<1>9. CASE Scan
  <2>1. /\ UNCHANGED <<connected, live, alive, registry>> /\ inbox' = inbox \o Bridges(registry')
    BY <1>9 DEF Scan, panel, worker, Bridges, LiveTenants
  <2>2. registry' \in [Tabs -> Keys \cup {NoKey}]
    BY <2>1 DEF Inv, RestTypes
  <2> QED BY <2>1, <2>2, BridgesView
<1>10. ASSUME NEW t \in Tabs, PageSettles(t)
       PROVE  ViewInv'
  <2>1. PICK m : m = [type |-> "tab_bound", tab |-> t, key |-> tabKey[t]]
    OBVIOUS
  <2>2. /\ UNCHANGED <<connected, live, alive, registry>> /\ inbox' = Append(inbox, m)
        /\ tabKey[t] \in Keys
    BY <1>10, <2>1 DEF PageSettles, panel, worker, Inv, RestTypes
  <2>3. m \in Messages /\ m.type = "tab_bound"
    BY <2>1, <2>2 DEF Messages
  <2> QED BY <2>2, <2>3, OtherMessage
<1>11. ASSUME NEW t \in Tabs, TabActivated(t)
       PROVE  ViewInv'
  BY <1>1, <1>11 DEF TabActivated, panel, worker
<1>12. ASSUME NEW t \in Tabs, NEW k \in Keys \cup {NoKey}, TabNavigated(t, k)
       PROVE  ViewInv'
  <2>1. UNCHANGED <<connected, live, alive>>
    BY <1>12 DEF TabNavigated, panel
  <2>2. CASE registry[t] \notin {NoKey, k}
    <3>1. registry' = [registry EXCEPT ![t] = NoKey] /\ inbox' = inbox \o Bridges(registry')
      BY <1>12, <2>2 DEF TabNavigated, EvictionNotice
    <3>2. registry' \in [Tabs -> Keys \cup {NoKey}]
      BY <3>1 DEF Inv, RestTypes
    <3> QED BY <2>1, <3>1, <3>2, BridgesView
  <2>3. CASE registry[t] \in {NoKey, k}
    <3>1. UNCHANGED <<registry, inbox>>
      BY <1>12, <2>3 DEF TabNavigated
    <3> QED BY <1>1, <2>1, <3>1
  <2> QED BY <2>2, <2>3
<1>13. ASSUME NEW t \in Tabs, NEW next \in Tabs, TabCloses(t, next)
       PROVE  ViewInv'
  <2>1. PICK m : m = [type |-> "tab_closed", tab |-> t]
    OBVIOUS
  <2>2. m \in Messages /\ m.type = "tab_closed"
    BY <2>1 DEF Messages
  <2>3. UNCHANGED <<connected, live, alive, registry>> /\ inbox' = Append(inbox, m)
    BY <1>13, <2>1 DEF TabCloses, panel, worker
  <2> QED BY <2>2, <2>3, OtherMessage
<1>14. CASE UNCHANGED vars
  BY <1>1, <1>14 DEF vars, panel, worker
<1> QED
  BY <1>2, <1>3, <1>4, <1>5, <1>6, <1>7, <1>8, <1>9, <1>10, <1>11, <1>12, <1>13, <1>14 DEF Next

\* Once the panel has handled its messages, what it holds of the connection and of the
\* live tenants is what the service worker has: no change of a socket or of the
\* registry lacks its broadcast, and no broadcast is overtaken by an older one.
THEOREM CachedViewCorrect == Spec => []CachedViewConverges
<1>1. Inv /\ ViewInv => CachedViewConverges
  <2> SUFFICES ASSUME ViewInv, inbox = <<>>
               PROVE  connected = (alive # {}) /\ live = LiveTenants(registry)
    BY DEF CachedViewConverges
  <2>1. \A type : Without(type, inbox)
    BY DEF Without
  <2> QED BY <2>1 DEF ViewInv, StatusIsTold, BridgesAreTold, UpToDate
<1> QED BY <1>1, PanelInvariant, ViewInvInit, ViewInvNext, PTL DEF Spec

-----------------------------------------------------------------------------
(* The snapshots of a run show the tab the run is of *)

PagesIn(box) == {m \in {box[i] : i \in 1..Len(box)} : m.type = "page_context"}

\* The snapshots under way that answer the current run: requested and answered.
OwnPages ==
  /\ \A r \in building : r.req # 0 /\ r.req = act.run => r.tab = boundTab
  /\ \A m \in PagesIn(inbox) : m.req # 0 /\ m.req = act.run => m.tab = boundTab

\* A step within a run.
LEMMA SameRunPages ==
  ASSUME OwnPages, act'.run = act.run, boundTab' = boundTab,
         \A r \in building' : r \in building \/ r.req = 0 \/ r.tab = boundTab,
         \A m \in PagesIn(inbox') :
           m \in PagesIn(inbox) \/ \E r \in building : m.req = r.req /\ m.tab = r.tab
  PROVE  OwnPages'
BY DEF OwnPages

\* A new run, with a number that nothing under way mentions.
LEMMA NewRunPages ==
  ASSUME NEW run, RunIsFree(run), act'.run = run,
         \A r \in building' : r \in building \/ r.tab = boundTab',
         PagesIn(inbox') \subseteq PagesIn(inbox)
  PROVE  OwnPages'
<1>1. \A m \in PagesIn(inbox) : m.req # run
  BY DEF PagesIn, RunIsFree
<1>2. \A r \in building : r.req # run
  BY DEF RunIsFree
<1> QED BY <1>1, <1>2 DEF OwnPages

LEMMA PagesTaken ==
  ASSUME NEW box \in Seq(Messages), box # <<>>
  PROVE  /\ PagesIn(Tail(box)) \subseteq PagesIn(box)
         /\ Head(box).type = "page_context" => Head(box) \in PagesIn(box)
<1>1. /\ Len(Tail(box)) = Len(box) - 1 /\ Len(box) \in Nat \ {0} /\ Head(box) = box[1]
      /\ \A i \in 1..Len(Tail(box)) : Tail(box)[i] = box[i + 1]
  BY HeadTailProperties, LenProperties, EmptySeq
<1>2. \A i \in 1..Len(Tail(box)) : i + 1 \in 1..Len(box) /\ Tail(box)[i] = box[i + 1]
  BY <1>1
<1>3. 1 \in 1..Len(box) /\ Head(box) = box[1]
  BY <1>1
<1> QED BY <1>2, <1>3 DEF PagesIn

LEMMA PagesAppended ==
  ASSUME NEW box \in Seq(Messages), NEW s \in Seq(Messages)
  PROVE  PagesIn(box \o s) \subseteq PagesIn(box) \cup PagesIn(s)
<1>1. /\ Len(box \o s) = Len(box) + Len(s) /\ Len(box) \in Nat /\ Len(s) \in Nat
      /\ \A i \in 1..Len(box) : (box \o s)[i] = box[i]
      /\ \A i \in 1..Len(s) : (box \o s)[Len(box) + i] = s[i]
  BY ConcatProperties, LenProperties
<1>2. \A i \in 1..Len(box \o s) :
        \/ i \in 1..Len(box) /\ (box \o s)[i] = box[i]
        \/ \E k \in 1..Len(s) : (box \o s)[i] = s[k]
  <2> SUFFICES ASSUME NEW i \in 1..Len(box \o s), i \notin 1..Len(box)
               PROVE  \E k \in 1..Len(s) : (box \o s)[i] = s[k]
    BY <1>1
  <2>1. i - Len(box) \in 1..Len(s) /\ i = Len(box) + (i - Len(box))
    BY <1>1
  <2> QED BY <1>1, <2>1
<1> QED BY <1>2 DEF PagesIn

LEMMA NoPages ==
  /\ \A on : PagesIn(Status(on)) = {}
  /\ \A reg : PagesIn(Bridges(reg)) = {}
  /\ \A id, kind : PagesIn(Chat(id, kind)) = {}
  /\ PagesIn(FailTurns) = {}
  /\ PagesIn(<<>>) = {}
<1>1. \A on : PagesIn(Status(on)) = {}
  BY DEF PagesIn, Status
<1>2. \A reg : PagesIn(Bridges(reg)) = {}
  BY DEF PagesIn, Bridges
<1>3. \A id, kind : PagesIn(Chat(id, kind)) = {}
  BY DEF PagesIn, Chat
<1>4. PagesIn(FailTurns) = {}
  <2>1. Without("page_context", FailTurns)
    BY DEF Without, FailTurns
  <2> QED BY <2>1 DEF PagesIn, Without
<1>5. PagesIn(<<>>) = {}
  BY DEF PagesIn
<1> QED BY <1>1, <1>2, <1>3, <1>4, <1>5

\* What a firing does to the run, the tab, the snapshot shown and the requests.
LEMMA FiredRun ==
  ASSUME NEW next, NEW p \in PStates, next.run \in 0..MaxRun, Fire(next, p)
  PROVE  /\ act' = next /\ boundTab' = p.tab /\ snap' = p.snap
         /\ \A r \in building' : r \in building \/ r.tab = p.tab
<1> DEFINE asks == Asks(next, p)
           q == IF asks THEN [p EXCEPT !.pageRun = next.run, !.conv = <<p.tab, p.key>>] ELSE p
           q2 == [q EXCEPT !.resend = NoPrompt]
<1>1. q \in PStates /\ q.snap = p.snap /\ q.tab = p.tab
  BY DEF PStates, Asks
<1>2. act' = next /\ \A r \in building' : r \in building \/ r.tab = p.tab
  BY DEF Fire
<1>3. CASE Phase(next) = "ready" /\ p.resend # NoPrompt /\ p.turn = NoTurn
  <2>1. SendFrom(q2, Resent(p.resend))
    BY <1>3 DEF Fire
  <2> HIDE DEF q
  <2>2. q2 \in PStates /\ q2.snap = p.snap /\ q2.tab = p.tab
    BY <1>1 DEF PStates
  <2> HIDE DEF q2
  <2>3. PICK t, w : Same([q2 EXCEPT !.turn = t, !.watchdog = w])
    BY <2>1 DEF SendFrom
  <2> QED BY <1>2, <2>2, <2>3 DEF Same, PStates
<1>4. CASE ~(Phase(next) = "ready" /\ p.resend # NoPrompt /\ p.turn = NoTurn)
  <2>1. Same(q)
    BY <1>4 DEF Fire
  <2> HIDE DEF q
  <2> QED BY <1>1, <1>2, <2>1 DEF Same
<1> QED BY <1>3, <1>4

LEMMA BegunPages ==
  ASSUME NEW t \in Tabs, NEW k \in Keys, NEW lv, NEW p \in PStates, Begin(t, k, lv, p),
         act \in Activations, InOrder(act), connected \in BOOLEAN,
         PagesIn(inbox') \subseteq PagesIn(inbox)
  PROVE  OwnPages'
<1>1. PICK next, r, q : /\ next = Reset(act, connected, k \in lv)
                        /\ r = [p EXCEPT !.tab = t, !.key = k]
                        /\ q = [r EXCEPT !.pageRun = 0]
                        /\ q = [p EXCEPT !.tab = t, !.key = k, !.pageRun = 0]
  OBVIOUS
<1>2. (k \in lv) \in BOOLEAN
  OBVIOUS
<1>3. next.run = NextRun(act) /\ next.run \in 0..MaxRun
  <2>1. Reset(act, connected, k \in lv).run = NextRun(act)
    BY <1>2, ResetInOrder, ZenonT(30)
  <2>2. NextRun(act) \in 0..MaxRun
    BY RunType
  <2> QED BY <1>1, <2>1, <2>2
<1>4. q \in PStates /\ q.tab = t
  <2>1. r \in PStates /\ r.tab = t
    BY <1>1 DEF PStates
  <2>2. 0 \in 0..MaxRun
    BY MaxRunAssumption
  <2> QED BY <1>1, <2>1, <2>2 DEF PStates
<1>5. RunIsFree(NextRun(act)) /\ Fire(next, q)
  BY <1>1 DEF Begin
<1>6. act'.run = NextRun(act) /\ \A s \in building' : s \in building \/ s.tab = boundTab'
  BY <1>3, <1>4, <1>5, FiredRun
<1> QED BY <1>5, <1>6, NewRunPages

LEMMA BegunInactivePages ==
  ASSUME NEW p \in PStates, BeginInactive(p), act \in Activations,
         PagesIn(inbox') \subseteq PagesIn(inbox)
  PROVE  OwnPages'
<1>1. PICK next, q : /\ next = ResetInactive(act)
                     /\ q = [p EXCEPT !.tab = NoTab, !.key = NoKey, !.conv = FreshConv]
  OBVIOUS
<1>2. next.run = NextRun(act) /\ next.run \in 0..MaxRun
  BY <1>1, RunType DEF ResetInactive
<1>3. q \in PStates /\ q.tab = NoTab
  BY <1>1 DEF PStates
<1>4. RunIsFree(NextRun(act)) /\ Fire(next, q)
  BY <1>1 DEF BeginInactive
<1>5. act'.run = NextRun(act) /\ \A s \in building' : s \in building \/ s.tab = boundTab'
  BY <1>2, <1>3, <1>4, FiredRun
<1> QED BY <1>4, <1>5, NewRunPages

\* A firing within a run.
LEMMA FiredPages ==
  ASSUME OwnPages, act \in Activations, NEW next, NEW p \in PStates, Fire(next, p),
         next.run = act.run, p.tab = boundTab, PagesIn(inbox') \subseteq PagesIn(inbox)
  PROVE  OwnPages'
<1>1. next.run \in 0..MaxRun
  BY DEF Activations, Runs
<1>2. act' = next /\ boundTab' = boundTab /\ \A r \in building' : r \in building \/ r.tab = boundTab
  BY <1>1, FiredRun
<1> QED BY <1>2, SameRunPages

\* A step that neither fires nor moves the panel.
LEMMA IdlePages ==
  ASSUME OwnPages, UNCHANGED <<act, boundTab>>,
         \A r \in building' : r \in building \/ r.req = 0,
         \A m \in PagesIn(inbox') :
           m \in PagesIn(inbox) \/ \E r \in building : m.req = r.req /\ m.tab = r.tab
  PROVE  OwnPages'
BY SameRunPages

\* The adoption of tab_bound cannot happen.
LEMMA NeverAdopts ==
  ASSUME Inv
  PROVE  \A k : ~Adopts(k)
<1>1. CASE act.tenant
  BY <1>1 DEF Adopts, Inv, Fired, BoundWhileTenant
<1>2. CASE ~act.tenant
  <2>1. Phase(act) = "inactive"
    BY <1>2, Zenon DEF Phase
  <2> QED BY <2>1 DEF Adopts
<1> QED BY <1>1, <1>2

LEMMA HandlersPages ==
  ASSUME Inv, OwnPages, PanelHandler
  PROVE  OwnPages'
<1>1. /\ InOrder(act) /\ FiredTypes /\ act \in Activations
      /\ connected \in BOOLEAN /\ inbox \in Seq(Messages)
  BY ActInOrder DEF Inv, Fired, FiredTypes, RestTypes
<1>2. Here \in PStates /\ Here.tab = boundTab
  BY <1>1, HereType
<1>3. inbox # <<>> /\ inbox' = Tail(inbox) => PagesIn(inbox') \subseteq PagesIn(inbox)
  BY <1>1, PagesTaken
<1>4. CASE GateResolves
  <2>1. PICK t, k, p :
          /\ t = IF Head(gating) \in openTabs THEN Head(gating) ELSE activeTab
          /\ k = tabKey[t] /\ p = Suspended(t, Here)
          /\ \/ /\ Same(p) /\ UNCHANGED act
                /\ building' = building \cup {[tab |-> t, req |-> 0]}
             \/ k # NoKey /\ Begin(t, k, live, p)
             \/ BeginInactive(p)
          /\ gating # <<>> /\ inbox' = inbox
    BY <1>4 DEF GateResolves
  <2>2. t \in Tabs /\ k \in Keys \cup {NoKey}
    BY <2>1 DEF Inv, RestTypes
  <2>3. p \in PStates /\ p.tab = boundTab
    BY <1>1, <2>1, SuspendedType
  <2>4. PagesIn(inbox') = PagesIn(inbox)
    BY <2>1
  <2>5. CASE Same(p) /\ building' = building \cup {[tab |-> t, req |-> 0]} /\ UNCHANGED act
    <3>1. boundTab' = boundTab
      BY <2>3, <2>5 DEF Same
    <3> QED BY <2>4, <2>5, <3>1, IdlePages
  <2>6. CASE k # NoKey /\ Begin(t, k, live, p)
    <3>1. k \in Keys
      BY <2>2, <2>6
    <3> QED BY <1>1, <2>2, <2>3, <2>4, <2>6, <3>1, BegunPages
  <2>7. CASE BeginInactive(p)
    BY <1>1, <2>3, <2>4, <2>7, BegunInactivePages
  <2> QED BY <2>1, <2>5, <2>6, <2>7
<1>5. CASE OnStatus
  <2>1. inbox # <<>> /\ inbox' = Tail(inbox)
    BY <1>5 DEF OnStatus, Got
  <2>2. \/ Fire(PassBridge(act), Here)
        \/ Fire(Disconnect(act), Here)
        \/ UNCHANGED <<act, boundTab, building>>
    BY <1>5 DEF OnStatus
  <2>3. PassBridge(act).run = act.run /\ Disconnect(act).run = act.run
    BY <1>1, PassInOrder, StallInOrder, "page" \in Gates DEF Gates
  <2> QED BY <1>1, <1>2, <1>3, <2>1, <2>2, <2>3, FiredPages, IdlePages
<1>6. CASE OnBridges
  <2>1. inbox # <<>> /\ inbox' = Tail(inbox)
    BY <1>6 DEF OnBridges, Got
  <2>2. \/ Fire(PassWorker(act), Here)
        \/ boundKey # NoKey /\ Begin(boundTab, boundKey, live', Here)
        \/ UNCHANGED <<act, boundTab, building>>
    BY <1>6 DEF OnBridges
  <2>3. PassWorker(act).run = act.run
    BY <1>1, PassInOrder
  <2>4. CASE boundKey # NoKey /\ Begin(boundTab, boundKey, live', Here)
    <3>1. boundTab \in Tabs /\ boundKey \in Keys
      BY <1>1, <2>4 DEF FiredTypes, Inv, Fired, BoundWhileTenant
    <3> QED BY <1>1, <1>2, <1>3, <2>1, <2>4, <3>1, BegunPages
  <2> QED BY <1>1, <1>2, <1>3, <2>1, <2>2, <2>3, <2>4, FiredPages, IdlePages
<1>7. CASE OnTabBound
  <2>1. inbox # <<>> /\ inbox' = Tail(inbox)
    BY <1>7 DEF OnTabBound, Got
  <2>2. ~Adopts(Head(inbox).key)
    BY NeverAdopts
  <2>3. /\ UNCHANGED <<act, boundTab>>
        /\ building' \subseteq building \cup {[tab |-> Head(inbox).tab, req |-> 0]}
    BY <1>7, <2>2 DEF OnTabBound
  <2> QED BY <1>3, <2>1, <2>3, IdlePages
<1>8. CASE OnTabClosed \/ OnChat
  <2>1. inbox # <<>> /\ inbox' = Tail(inbox) /\ UNCHANGED <<act, boundTab, building>>
    BY <1>8 DEF OnTabClosed, OnChat, Got
  <2> QED BY <1>3, <2>1, IdlePages
<1>9. CASE OnPage
  <2>1. inbox # <<>> /\ inbox' = Tail(inbox)
    BY <1>9 DEF OnPage, Got
  <2>2. PICK p : p = [Here EXCEPT !.snap = Head(inbox).tab]
    OBVIOUS
  <2>3. Head(inbox).tab \in Tabs
    BY <1>1, <1>9, TakenType, Fields DEF OnPage
  <2>4. p \in PStates /\ p.tab = boundTab
    BY <1>2, <2>2, <2>3 DEF PStates
  <2>5. \/ Fire(PassPage(act), p)
        \/ Same(p) /\ UNCHANGED <<act, building>>
        \/ UNCHANGED <<act, boundTab, building>>
    BY <1>9, <2>2 DEF OnPage
  <2>6. Same(p) => boundTab' = boundTab
    BY <2>4 DEF Same
  <2>7. PassPage(act).run = act.run
    BY <1>1, PassInOrder
  <2> QED BY <1>1, <1>3, <2>1, <2>4, <2>5, <2>6, <2>7, FiredPages, IdlePages
<1> QED BY <1>4, <1>5, <1>6, <1>7, <1>8, <1>9 DEF PanelHandler

\* What a new snapshot that answers a run shows.
TakesOwn == OnPage /\ Head(inbox).req # 0 /\ snap' # snap => snap' = boundTab

LEMMA OnPageTakesOwn ==
  ASSUME Inv, OwnPages, OnPage, Head(inbox).req # 0, snap' # snap
  PROVE  snap' = boundTab
<1>1. act \in Activations /\ FiredTypes /\ InOrder(act) /\ inbox \in Seq(Messages)
  BY ActInOrder DEF Inv, Fired, FiredTypes, RestTypes
<1>2. PICK m, p : m = Head(inbox) /\ p = [Here EXCEPT !.snap = m.tab]
  OBVIOUS
<1>3. m.tab \in Tabs /\ m \in PagesIn(inbox)
  BY <1>1, <1>2, TakenType, Fields, PagesTaken DEF OnPage, Got
<1>4. p \in PStates /\ p.snap = m.tab
  BY <1>1, <1>2, <1>3, HereType DEF PStates
<1>5. /\ Accepts(m.req)
      /\ Fire(PassPage(act), p) \/ Same(p)
  BY <1>2 DEF OnPage
<1>6. m.req = act.run /\ m.tab = boundTab
  BY <1>2, <1>3, <1>5 DEF Accepts, OwnPages
<1>7. Fire(PassPage(act), p) => snap' = m.tab
  <2>1. PassPage(act).run \in 0..MaxRun
    BY <1>1, PassInOrder DEF Activations, Runs
  <2> QED BY <1>4, <2>1, FiredRun
<1>8. Same(p) => snap' = m.tab
  BY <1>4 DEF Same
<1> QED BY <1>5, <1>6, <1>7, <1>8

\* The panel's timers.
LEMMA TimersPages ==
  ASSUME Inv, OwnPages, PanelTimer
  PROVE  OwnPages'
<1>1. /\ InOrder(act) /\ FiredTypes /\ act \in Activations /\ connected \in BOOLEAN
  BY ActInOrder DEF Inv, Fired, FiredTypes, RestTypes
<1>2. Here \in PStates /\ Here.tab = boundTab
  BY <1>1, HereType
<1>3. CASE TimerFires
  <2>1. PICK out, next : /\ out = TimeOut(act, timer)
                         /\ next \in {out, RetryWorker(out)}
                         /\ Fire(next, Here) /\ inbox' = inbox /\ timer \in Gates
    BY <1>1, <1>3 DEF TimerFires, FiredTypes
  <2>2. InOrder(out) /\ out.run = act.run
    BY <1>1, <2>1, StallInOrder
  <2>3. RetryWorker(out).run = out.run
    BY <2>2, StallInOrder, "page" \in Gates DEF Gates
  <2>4. next.run = act.run
    BY <2>1, <2>2, <2>3
  <2> QED BY <1>1, <1>2, <2>1, <2>4, FiredPages
<1>4. ASSUME NEW id \in TurnIds, WatchdogFires(id)
      PROVE  OwnPages'
  <2>1. PICK w, q, p : /\ w = watchdog \ {id}
                       /\ q = [Here EXCEPT !.watchdog = w, !.turn = NoTurn]
                       /\ p = [q EXCEPT !.resend = IF @ = NoPrompt THEN turn.prompt ELSE @]
                       /\ p = [Here EXCEPT !.watchdog = @ \ {id}, !.turn = NoTurn,
                                           !.resend = IF @ = NoPrompt THEN turn.prompt ELSE @]
    BY DEF Here
  <2>2. \/ UNCHANGED <<act, boundTab, building>>
        \/ turn # NoTurn /\ boundKey # NoKey /\ Begin(boundTab, boundKey, live, p)
        \/ turn # NoTurn /\ Same(p) /\ UNCHANGED <<act, building>>
    BY <1>4, <2>1 DEF WatchdogFires
  <2>3. inbox' = inbox
    BY <1>4 DEF WatchdogFires
  <2>4. ASSUME turn # NoTurn
        PROVE  p \in PStates /\ p.tab = boundTab
    <3>1. turn.prompt \in Prompts /\ w \in SUBSET TurnIds
      BY <1>1, <2>1, <2>4 DEF FiredTypes, Turns
    <3>2. q \in PStates /\ q.tab = boundTab
      BY <1>2, <2>1, <3>1 DEF PStates
    <3> QED BY <2>1, <3>1, <3>2 DEF PStates
  <2>5. CASE UNCHANGED <<act, boundTab, building>>
    BY <2>3, <2>5, IdlePages
  <2>6. CASE turn # NoTurn /\ boundKey # NoKey /\ Begin(boundTab, boundKey, live, p)
    <3>1. boundTab \in Tabs /\ boundKey \in Keys
      BY <1>1, <2>6 DEF FiredTypes, Inv, Fired, BoundWhileTenant
    <3> QED BY <1>1, <2>3, <2>4, <2>6, <3>1, BegunPages
  <2>7. CASE turn # NoTurn /\ Same(p) /\ UNCHANGED <<act, building>>
    <3>1. boundTab' = boundTab
      BY <2>4, <2>7 DEF Same
    <3> QED BY <2>3, <2>7, <3>1, IdlePages
  <2> QED BY <2>2, <2>5, <2>6, <2>7
<1> QED BY <1>3, <1>4 DEF PanelTimer

LEMMA UserPages ==
  ASSUME Inv, OwnPages, User
  PROVE  OwnPages'
<1>1. /\ InOrder(act) /\ FiredTypes /\ act \in Activations
  BY ActInOrder DEF Inv, Fired, FiredTypes
<1>2. Here \in PStates /\ Here.tab = boundTab
  BY <1>1, HereType
<1>3. CASE UserSends
  <2>1. PICK t, w : Same([Here EXCEPT !.turn = t, !.watchdog = w])
    BY <1>3 DEF UserSends, SendFrom
  <2>2. boundTab' = boundTab
    BY <2>1 DEF Same, Here
  <2> QED BY <1>3, <2>2, IdlePages DEF UserSends
<1>4. CASE UserStops
  BY <1>4, IdlePages DEF UserStops
<1>5. CASE UserRetries
  <2>1. inbox' = inbox
    BY <1>5 DEF UserRetries
  <2>2. \/ Fire(RetryWorker(act), Here)
        \/ UNCHANGED <<act, boundTab, building>>
    BY <1>5 DEF UserRetries
  <2>3. RetryWorker(act).run = act.run
    BY <1>1, StallInOrder, "page" \in Gates DEF Gates
  <2> QED BY <1>1, <1>2, <2>1, <2>2, <2>3, FiredPages, IdlePages
<1>6. CASE UserRefreshes
  <2>1. /\ UNCHANGED <<act, boundTab, inbox>>
        /\ building' = building \cup {[tab |-> boundTab, req |-> 0]}
    BY <1>6 DEF UserRefreshes, panel
  <2> QED BY <2>1, IdlePages
<1> QED BY <1>3, <1>4, <1>5, <1>6 DEF User

\* The service worker posts messages that are no snapshots.
LEMMA OthersPosted ==
  ASSUME OwnPages, inbox \in Seq(Messages), UNCHANGED <<act, boundTab, building>>,
         NEW s \in Seq(Messages), PagesIn(s) = {}, inbox' = inbox \o s
  PROVE  OwnPages'
BY PagesAppended, IdlePages

LEMMA OnePosted ==
  ASSUME OwnPages, inbox \in Seq(Messages), UNCHANGED <<act, boundTab, building>>,
         NEW m \in Messages, m.type # "page_context", inbox' = Append(inbox, m)
  PROVE  OwnPages'
<1>1. inbox' = inbox \o <<m>> /\ <<m>> \in Seq(Messages)
  BY AppendIsConcat
<1>2. PagesIn(<<m>>) = {}
  BY DEF PagesIn
<1> QED BY <1>1, <1>2, OthersPosted

\* The end of a request: its snapshot is posted, or nothing.
LEMMA PageAnswersPages ==
  ASSUME Inv, OwnPages, NEW r \in PageRequests, PageBuilt(r) \/ PageFails(r)
  PROVE  OwnPages'
<1>1. PICK m : m = [type |-> "page_context", tab |-> r.tab, req |-> r.req]
  OBVIOUS
<1>2. /\ UNCHANGED <<act, boundTab>> /\ r \in building /\ building' \subseteq building
      /\ inbox' = inbox \/ inbox' = Append(inbox, m)
  BY <1>1 DEF PageBuilt, PageFails, panel
<1>3. inbox \in Seq(Messages) /\ m \in Messages /\ <<m>> \in Seq(Messages)
  BY <1>1 DEF Inv, RestTypes, PageRequests, Messages
<1>4. Append(inbox, m) = inbox \o <<m>>
  BY <1>3, AppendIsConcat
<1>5. \A n \in PagesIn(<<m>>) : n.req = r.req /\ n.tab = r.tab
  BY <1>1 DEF PagesIn
<1>6. PagesIn(inbox \o <<m>>) \subseteq PagesIn(inbox) \cup PagesIn(<<m>>)
  BY <1>3, PagesAppended
<1> QED BY <1>2, <1>4, <1>5, <1>6, IdlePages

\* The workers' sockets.
LEMMA WorkersPages ==
  ASSUME Inv, OwnPages, NEW t \in Tabs, NEW k \in Keys,
         WorkerOpens(t, k) \/ WorkerIdentifies(t, k) \/ WorkerCloses(t, k)
  PROVE  OwnPages'
<1>1. UNCHANGED <<act, boundTab, building>>
  BY DEF WorkerOpens, WorkerIdentifies, WorkerCloses, panel
<1>2. inbox \in Seq(Messages)
  BY DEF Inv, RestTypes
<1>3. CASE WorkerOpens(t, k)
  <2>1. inbox' = inbox \o Status(TRUE) /\ Status(TRUE) \in Seq(Messages)
    BY <1>3, MessageTypes DEF WorkerOpens
  <2> QED BY <1>1, <1>2, <2>1, NoPages, OthersPosted
<1>4. CASE WorkerIdentifies(t, k)
  <2>1. PICK reg : reg = [registry EXCEPT ![t] = k] /\ inbox' = inbox \o Bridges(reg)
    BY <1>4 DEF WorkerIdentifies
  <2>2. reg \in [Tabs -> Keys \cup {NoKey}]
    BY <2>1 DEF Inv, RestTypes
  <2>3. Bridges(reg) \in Seq(Messages)
    BY <2>2, MessageTypes
  <2> QED BY <1>1, <1>2, <2>1, <2>3, NoPages, OthersPosted
<1>5. CASE WorkerCloses(t, k)
  <2>1. PICK on, ft, reg :
          /\ on \in BOOLEAN /\ on = (alive' # {}) /\ reg = registry'
          /\ ft = IF alive' = {} THEN FailTurns ELSE <<>>
          /\ inbox' = inbox \o Status(on) \o ft \o Bridges(reg)
          /\ reg = [registry EXCEPT ![t] = NoKey]
    BY <1>5 DEF WorkerCloses
  <2>2. reg \in [Tabs -> Keys \cup {NoKey}]
    BY <2>1 DEF Inv, RestTypes
  <2>3. /\ Status(on) \in Seq(Messages) /\ ft \in Seq(Messages) /\ Bridges(reg) \in Seq(Messages)
    BY <2>1, <2>2, MessageTypes, FailTurnsType, EmptySeq DEF Inv, RestTypes
  <2>4. PICK a, b : a = inbox \o Status(on) /\ b = a \o ft
    OBVIOUS
  <2>5. a \in Seq(Messages) /\ b \in Seq(Messages) /\ inbox' = b \o Bridges(reg)
    BY <1>2, <2>1, <2>3, <2>4, ConcatProperties
  <2>6. PagesIn(Status(on)) = {} /\ PagesIn(ft) = {} /\ PagesIn(Bridges(reg)) = {}
    BY <2>1, NoPages
  <2>7. PagesIn(a) \subseteq PagesIn(inbox)
    BY <1>2, <2>3, <2>4, <2>6, PagesAppended
  <2>8. PagesIn(b) \subseteq PagesIn(a)
    BY <2>3, <2>4, <2>5, <2>6, PagesAppended
  <2>9. PagesIn(inbox') \subseteq PagesIn(b)
    BY <2>3, <2>5, <2>6, PagesAppended
  <2> QED BY <1>1, <2>7, <2>8, <2>9, IdlePages
<1> QED BY <1>3, <1>4, <1>5

LEMMA HeartbeatPages ==
  ASSUME Inv, OwnPages, Heartbeat
  PROVE  OwnPages'
<1>1. PICK ft, a : ft = FailTurns /\ a = inbox \o Status(FALSE)
  OBVIOUS
<1>2. UNCHANGED <<act, boundTab, building>> /\ inbox' = a \o ft
  BY <1>1 DEF Heartbeat, panel
<1>3. inbox \in Seq(Messages) /\ Status(FALSE) \in Seq(Messages) /\ ft \in Seq(Messages)
  BY <1>1, MessageTypes, FailTurnsType DEF Inv, RestTypes
<1>4. a \in Seq(Messages)
  BY <1>1, <1>3, ConcatProperties
<1>5. PagesIn(Status(FALSE)) = {} /\ PagesIn(ft) = {}
  BY <1>1, NoPages
<1>6. PagesIn(a) \subseteq PagesIn(inbox)
  BY <1>1, <1>3, <1>5, PagesAppended
<1>7. PagesIn(inbox') \subseteq PagesIn(a)
  BY <1>2, <1>3, <1>4, <1>5, PagesAppended
<1> QED BY <1>2, <1>6, <1>7, IdlePages

LEMMA OwnPagesInit == Init => OwnPages
<1> SUFFICES ASSUME Init PROVE OwnPages
  OBVIOUS
<1>1. PICK on, s, b, a : /\ on \in BOOLEAN /\ on = (alive # {})
                         /\ s = Status(on) /\ b = Bridges(registry) /\ a = s \o b
  OBVIOUS
<1>2. inbox = a \o s
  BY <1>1, Zenon DEF Init
<1>3. registry \in [Tabs -> Keys \cup {NoKey}]
  BY DEF Init
<1>4. s \in Seq(Messages) /\ b \in Seq(Messages) /\ PagesIn(s) = {} /\ PagesIn(b) = {}
  BY <1>1, <1>3, MessageTypes, NoPages
<1>5. a \in Seq(Messages)
  BY <1>1, <1>4, ConcatProperties
<1>6. PagesIn(a) = {}
  BY <1>1, <1>4, PagesAppended
<1>7. PagesIn(inbox) = {}
  BY <1>2, <1>4, <1>5, <1>6, PagesAppended
<1>8. building = {}
  BY DEF Init
<1> QED BY <1>7, <1>8 DEF OwnPages

LEMMA OwnPagesNext == Inv /\ OwnPages /\ [Next]_vars => OwnPages'
<1> SUFFICES ASSUME Inv, OwnPages, [Next]_vars PROVE OwnPages'
  OBVIOUS
<1>1. inbox \in Seq(Messages)
  BY DEF Inv, RestTypes
<1>2. ASSUME NEW r \in Requests, RouteTurn(r)
      PROVE  OwnPages'
  <2>1. /\ UNCHANGED <<act, boundTab, building>>
        /\ inbox' = inbox \/ inbox' = inbox \o Chat(r.id, "recoverable")
    BY <1>2 DEF RouteTurn, panel
  <2>2. Chat(r.id, "recoverable") \in Seq(Messages)
    BY MessageTypes DEF Requests, ChatKinds
  <2> QED BY <1>1, <2>1, <2>2, NoPages, OthersPosted, IdlePages
<1>3. ASSUME NEW r \in Requests, NEW kind \in ChatKinds, TurnFrame(r, kind)
      PROVE  OwnPages'
  <2>1. UNCHANGED <<act, boundTab, building>> /\ inbox' = inbox \o Chat(r.id, kind)
    BY <1>3 DEF TurnFrame, panel
  <2>2. Chat(r.id, kind) \in Seq(Messages)
    BY MessageTypes DEF Requests
  <2> QED BY <1>1, <2>1, <2>2, NoPages, OthersPosted
<1>4. CASE Scan
  <2>1. UNCHANGED <<act, boundTab, building>> /\ inbox' = inbox \o Bridges(registry)
    BY <1>4 DEF Scan, panel
  <2>2. Bridges(registry) \in Seq(Messages)
    BY MessageTypes DEF Inv, RestTypes
  <2> QED BY <1>1, <2>1, <2>2, NoPages, OthersPosted
<1>5. ASSUME NEW t \in Tabs, PageSettles(t)
      PROVE  OwnPages'
  <2>1. PICK m : m = [type |-> "tab_bound", tab |-> t, key |-> tabKey[t]]
    OBVIOUS
  <2>2. UNCHANGED <<act, boundTab, building>> /\ inbox' = Append(inbox, m) /\ tabKey[t] \in Keys
    BY <1>5, <2>1 DEF PageSettles, panel, Inv, RestTypes
  <2>3. m \in Messages /\ m.type # "page_context"
    BY <2>1, <2>2 DEF Messages
  <2> QED BY <1>1, <2>2, <2>3, OnePosted
<1>6. ASSUME NEW t \in Tabs, TabActivated(t)
      PROVE  OwnPages'
  BY <1>6, IdlePages DEF TabActivated, panel
<1>7. ASSUME NEW t \in Tabs, NEW k \in Keys \cup {NoKey}, TabNavigated(t, k)
      PROVE  OwnPages'
  <2>1. PICK reg : reg = [registry EXCEPT ![t] = NoKey]
    OBVIOUS
  <2>2. /\ UNCHANGED <<act, boundTab, building>>
        /\ inbox' = inbox \/ inbox' = inbox \o Bridges(reg)
    BY <1>7, <2>1 DEF TabNavigated, EvictionNotice, panel
  <2>3. reg \in [Tabs -> Keys \cup {NoKey}]
    BY <2>1 DEF Inv, RestTypes
  <2>4. Bridges(reg) \in Seq(Messages)
    BY <2>3, MessageTypes
  <2> QED BY <1>1, <2>2, <2>4, NoPages, OthersPosted, IdlePages
<1>8. ASSUME NEW t \in Tabs, NEW next \in Tabs, TabCloses(t, next)
      PROVE  OwnPages'
  <2>1. PICK m : m = [type |-> "tab_closed", tab |-> t]
    OBVIOUS
  <2>2. m \in Messages /\ m.type # "page_context"
    BY <2>1 DEF Messages
  <2>3. UNCHANGED <<act, boundTab, building>> /\ inbox' = Append(inbox, m)
    BY <1>8, <2>1 DEF TabCloses, panel
  <2> QED BY <1>1, <2>2, <2>3, OnePosted
<1>9. CASE UNCHANGED vars
  BY <1>9, IdlePages DEF vars, panel
<1> QED
  BY <1>2, <1>3, <1>4, <1>5, <1>6, <1>7, <1>8, <1>9, HandlersPages, TimersPages, UserPages,
     PageAnswersPages, WorkersPages, HeartbeatPages DEF Next

\* A snapshot that answers a run shows the tab of the run when the panel takes it,
\* however long it took to build and however often the panel started over meanwhile.
THEOREM SnapshotsAreOwn == Spec => TaggedSnapshotIsOwn
<1>1. Inv /\ OwnPages /\ [Next]_vars => [TakesOwn]_vars
  BY OnPageTakesOwn DEF TakesOwn
<1> QED
  BY <1>1, PanelInvariant, OwnPagesInit, OwnPagesNext, PTL
     DEF Spec, TaggedSnapshotIsOwn, TakesOwn
=============================================================================
