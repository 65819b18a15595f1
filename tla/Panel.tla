------------------------------- MODULE Panel -------------------------------
(***************************************************************************)
(* The controller of the side panel (side-panel/use-panel.ts): which tab it *)
(* is gated to, the readiness gates and their timers, the page snapshot,    *)
(* the one active chat turn, its watchdog and the automatic resend; and, as *)
(* far as the panel sees it, the service worker: the workers' sockets and   *)
(* identities, the turn table and the broadcasts (service-worker.ts).       *)
(*                                                                         *)
(* Each handler, with the render that follows it, is one action; the only   *)
(* await that lets other events in is chrome.tabs.get in gateToActiveTab.   *)
(* A prompt's text is represented by where the user typed it and by how     *)
(* often it was resent, a page snapshot by the tab it was taken of, and a   *)
(* conversation by the <<tab, key>> it belongs to.                          *)
(***************************************************************************)
EXTENDS Activation, Sequences

CONSTANTS
  Tabs, Keys, NoTab, NoKey, NoTurn, NoPrompt, FreshConv,
  TurnIds,    \* bound: chat turns whose events may still be in flight
  MaxTries,   \* bound: automatic resends of one prompt that are counted
  MaxInbox    \* bound: the service worker posts no more beyond this length

ASSUME PanelAssumption ==
  /\ NoTab \notin Tabs /\ NoKey \notin Keys
  /\ FreshConv \notin Tabs \X Keys
  /\ MaxTries \in Nat

MaxWorkerAutoRetries == 1

Prompts == [tab : Tabs, key : Keys, tries : 0..MaxTries]
Turns == [id : TurnIds, tab : Tabs, key : Keys, prompt : Prompts,
          page : Tabs \cup {NoTab}, conv : (Tabs \X Keys) \cup {FreshConv}]

ASSUME SentinelAssumption == NoTurn \notin Turns /\ NoPrompt \notin Prompts

\* keepalive; a visible frame; chat_done; chat_error with an autoRecover reason
\* (abortInfo) and with another one.
ChatKinds == {"keepalive", "frame", "done", "recoverable", "fatal"}
Terminal == {"done", "recoverable", "fatal"}

Messages ==
  [type : {"status"}, on : BOOLEAN]
    \cup [type : {"bridges"}, live : SUBSET Keys]
    \cup [type : {"tab_bound"}, tab : Tabs, key : Keys]
    \cup [type : {"tab_closed"}, tab : Tabs]
    \cup [type : {"page_context"}, tab : Tabs, req : 0..MaxRun]
    \cup [type : {"chat"}, id : TurnIds, kind : ChatKinds]

VARIABLES
  act,        \* activation: the gates
  timer,      \* gateTimers: the gate whose timer is armed
  retries,    \* workerAutoRetries
  connected,  \* connectedRef
  live,       \* liveTenants: the keys the last bridges message named
  boundTab, boundKey,  \* boundTabId, boundSessionKey
  gating,     \* gateToActiveTab calls awaiting chrome.tabs, with their argument
  pageRun,    \* pageRequestedForRun (0: none)
  snap,       \* latestContext: the tab it shows
  conv,       \* conv: the conversation displayed
  turn,       \* active
  watchdog,   \* turnTimeout: turns whose first-token timer is armed
  resend,     \* pendingResend
  \* service worker
  alive,      \* sockets that are OPEN, by the tab and key of their worker
  closing,    \* sockets closed by the heartbeat, close event to come
  registry,   \* registry: the key advertised for each tab
  posted,     \* chat_request messages not yet handled
  routed,     \* turnToPort, in insertion order
  building,   \* get_page_context requests in progress
  inbox,      \* messages to the panel
  \* world
  tabKey, openTabs, activeTab

panel == <<act, timer, retries, connected, live, boundTab, boundKey, pageRun, snap,
           conv, turn, watchdog, resend>>
worker == <<alive, closing, registry, routed>>
world == <<tabKey, openTabs, activeTab>>
vars == <<panel, gating, worker, posted, building, inbox, world>>

TypeOK ==
  /\ act \in Activations
  /\ timer \in Gates \cup {NoGate}
  /\ retries \in 0..MaxWorkerAutoRetries
  /\ connected \in BOOLEAN
  /\ live \subseteq Keys
  /\ boundTab \in Tabs \cup {NoTab} /\ boundKey \in Keys \cup {NoKey}
  /\ gating \in Seq(Tabs \cup {NoTab})
  /\ pageRun \in 0..MaxRun
  /\ snap \in Tabs \cup {NoTab}
  /\ conv \in (Tabs \X Keys) \cup {FreshConv}
  /\ turn \in Turns \cup {NoTurn}
  /\ watchdog \subseteq TurnIds
  /\ resend \in Prompts \cup {NoPrompt}
  /\ alive \subseteq Tabs \X Keys /\ closing \subseteq Tabs \X Keys
  /\ registry \in [Tabs -> Keys \cup {NoKey}]
  /\ posted \subseteq [id : TurnIds, tab : Tabs, key : Keys]
  /\ routed \in Seq([id : TurnIds, tab : Tabs, key : Keys])
  /\ building \subseteq [tab : Tabs, req : 0..MaxRun]
  /\ inbox \in Seq(Messages)
  /\ tabKey \in [Tabs -> Keys \cup {NoKey}]
  /\ openTabs \subseteq Tabs /\ activeTab \in Tabs

-----------------------------------------------------------------------------
(* Messages *)

Status(on) == <<[type |-> "status", on |-> on]>>
LiveTenants(reg) == {reg[t] : t \in Tabs} \ {NoKey}
Bridges(reg) == <<[type |-> "bridges", live |-> LiveTenants(reg)]>>
Chat(id, kind) == <<[type |-> "chat", id |-> id, kind |-> kind]>>

\* failActiveTurns: chat_error to every routed turn.
FailTurns == [i \in 1..Len(routed) |->
                [type |-> "chat", id |-> routed[i].id, kind |-> "recoverable"]]

Room == Len(inbox) < MaxInbox
Got(type) == inbox # <<>> /\ Head(inbox).type = type

\* Ids are random UUIDs: a new turn takes one that nothing mentions any more.
InFlight(id) ==
  \/ turn # NoTurn /\ turn.id = id
  \/ id \in watchdog
  \/ \E r \in posted : r.id = id
  \/ \E i \in 1..Len(routed) : routed[i].id = id
  \/ \E i \in 1..Len(inbox) : inbox[i].type = "chat" /\ inbox[i].id = id

\* Run numbers only grow: a number is not reused while a snapshot tagged with
\* it is awaited.
RunIsFree(run) ==
  /\ \A r \in building : r.req # run
  /\ \A i \in 1..Len(inbox) : inbox[i].type = "page_context" => inbox[i].req # run

-----------------------------------------------------------------------------
(* Sending a turn and firing the activation reducer *)

\* The panel's fields, as a handler has left them before it calls on.
Here == [tab |-> boundTab, key |-> boundKey, pageRun |-> pageRun, snap |-> snap,
         conv |-> conv, turn |-> turn, watchdog |-> watchdog, resend |-> resend]

Same(p) ==
  /\ boundTab' = p.tab /\ boundKey' = p.key /\ pageRun' = p.pageRun /\ snap' = p.snap
  /\ conv' = p.conv /\ turn' = p.turn /\ watchdog' = p.watchdog /\ resend' = p.resend

\* sendMessage, once past its guards.  The new timer replaces the armed one.
SendFrom(p, prompt) ==
  \E id \in TurnIds :
    /\ ~InFlight(id)
    /\ Same([p EXCEPT !.turn = [id |-> id, tab |-> p.tab, key |-> p.key, prompt |-> prompt,
                                page |-> p.snap, conv |-> p.conv],
                      !.watchdog = {id}])
    /\ posted' = posted \cup {[id |-> id, tab |-> p.tab, key |-> p.key]}

Resent(prompt) ==
  [prompt EXCEPT !.tries = IF @ < MaxTries THEN @ + 1 ELSE @]

\* Mutant of TimerFor: afterActivation arms no timer for a cold worker gate.
TimerForWarmOnly(next) ==
  IF next.cold /\ ActiveGate(next) = "worker" THEN NoGate ELSE ActiveGate(next)

\* The timer afterActivation arms, after it cleared the others.
TimerFor(next) == ActiveGate(next)

\* Mutant of Asks: nothing is loaded when the tab's snapshot is already there.
AsksPerTab(next, p) ==
  /\ next.gates["page"] = "active" /\ p.snap # p.tab
  /\ p.tab # NoTab /\ p.key # NoKey

\* The page gate of a run starts.
Asks(next, p) ==
  /\ next.gates["page"] = "active" /\ p.pageRun # next.run
  /\ p.tab # NoTab /\ p.key # NoKey

\* fireActivation and afterActivation: arm the timer of the active gate, load
\* the tab's conversation and ask for a snapshot when the page gate starts,
\* resend the stashed prompt when the panel is ready.
Fire(next, p) ==
  LET asks == Asks(next, p)
      q == IF asks THEN [p EXCEPT !.pageRun = next.run, !.conv = <<p.tab, p.key>>] ELSE p
  IN  /\ act' = next
      /\ timer' = TimerFor(next)
      /\ building' = IF asks THEN building \cup {[tab |-> p.tab, req |-> next.run]}
                     ELSE building
      /\ IF Phase(next) = "ready" /\ p.resend # NoPrompt /\ p.turn = NoTurn
         THEN SendFrom([q EXCEPT !.resend = NoPrompt], Resent(p.resend))
         ELSE Same(q) /\ UNCHANGED posted

\* beginActivation and beginInactive.
Begin(t, k, lv, p) ==
  /\ RunIsFree(NextRun(act))
  /\ retries' = 0
  /\ Fire(Reset(act, connected, k \in lv), [p EXCEPT !.tab = t, !.key = k, !.pageRun = 0])

BeginInactive(p) ==
  /\ RunIsFree(NextRun(act))
  /\ retries' = retries
  /\ Fire(ResetInactive(act), [p EXCEPT !.tab = NoTab, !.key = NoKey, !.conv = FreshConv])

-----------------------------------------------------------------------------
(* The panel mounts: the service worker has greeted it and answers its
   status_request, and a first gateToActiveTab call awaits the active tab. *)

Init ==
  /\ act = InitActivation /\ timer = NoGate /\ retries = 0
  /\ connected = FALSE /\ live = {}
  /\ boundTab = NoTab /\ boundKey = NoKey /\ gating = <<NoTab>>
  /\ pageRun = 0 /\ snap = NoTab /\ conv = FreshConv
  /\ turn = NoTurn /\ watchdog = {} /\ resend = NoPrompt
  /\ registry \in [Tabs -> Keys \cup {NoKey}]
  /\ alive = {<<t, registry[t]>> : t \in {u \in Tabs : registry[u] # NoKey}} /\ closing = {}
  /\ posted = {} /\ routed = <<>> /\ building = {}
  /\ inbox = Status(alive # {}) \o Bridges(registry) \o Status(alive # {})
  /\ tabKey \in [Tabs -> Keys \cup {NoKey}] /\ openTabs = Tabs /\ activeTab \in Tabs

-----------------------------------------------------------------------------
(* Handlers of the panel *)

\* Mutant of Suspended: the running turn stays active across tabs.
SuspendedNever(t, p) == p

\* Moving to another tab suspends a running turn and forgets the resend.
Suspended(t, p) ==
  IF p.turn # NoTurn /\ t # p.tab THEN [p EXCEPT !.turn = NoTurn, !.resend = NoPrompt] ELSE p

\* Mutant of SoftRefresh: whatever the tenant of the tab now is.
SoftRefreshAnyTenant(t, k) == k # NoKey /\ t = boundTab /\ Usable(act)

\* A navigation within the tab and tenant of a usable panel starts no new run.
SoftRefresh(t, k) == k # NoKey /\ t = boundTab /\ k = boundKey /\ Usable(act)

\* gateToActiveTab goes on once chrome.tabs has answered.
GateResolves ==
  /\ gating # <<>>
  /\ gating' = Tail(gating)
  /\ LET t == IF Head(gating) \in openTabs THEN Head(gating) ELSE activeTab
         k == tabKey[t]
         p == Suspended(t, Here)
     IN  IF SoftRefresh(t, k)
         THEN /\ Same(p)
              /\ building' = building \cup {[tab |-> t, req |-> 0]}
              /\ UNCHANGED <<act, timer, retries, posted>>
         ELSE IF k # NoKey THEN Begin(t, k, live, p) ELSE BeginInactive(p)
  /\ UNCHANGED <<connected, live, worker, inbox, world>>

\* Mutant of Regates: only the Retry button leaves disconnected.
RegatesNever(on) == FALSE

\* xcsh is back while the panel shows disconnected.
Regates(on) == on /\ act.gates["bridge"] # "active" /\ Phase(act) = "disconnected"

\* status
OnStatus ==
  /\ Got("status")
  /\ inbox' = Tail(inbox)
  /\ LET on == Head(inbox).on
     IN  /\ connected' = on
         /\ gating' = IF Regates(on) THEN Append(gating, boundTab) ELSE gating
         /\ IF on /\ act.gates["bridge"] = "active" THEN Fire(PassBridge(act), Here)
            ELSE IF ~on /\ Usable(act) THEN Fire(Disconnect(act), Here)
            ELSE UNCHANGED <<act, timer, boundTab, boundKey, pageRun, snap, conv, turn,
                             watchdog, resend, posted, building>>
  /\ UNCHANGED <<retries, live, worker, world>>

\* bridges: pass the worker gate, or start over when the tab's worker vanished.
OnBridges ==
  /\ Got("bridges")
  /\ inbox' = Tail(inbox)
  /\ live' = Head(inbox).live
  /\ IF boundKey \in live' /\ act.gates["bridge"] = "passed" /\ act.gates["worker"] = "active"
     THEN Fire(PassWorker(act), Here) /\ UNCHANGED retries
     ELSE IF boundKey \notin live' /\ boundKey # NoKey /\ Usable(act)
     THEN Begin(boundTab, boundKey, live', Here)
     ELSE UNCHANGED <<act, timer, retries, boundTab, boundKey, pageRun, snap, conv, turn,
                      watchdog, resend, posted, building>>
  /\ UNCHANGED <<connected, gating, worker, world>>

\* A panel with a tenant but no key bound would adopt the tab's.
Adopts(k) == Phase(act) # "inactive" /\ boundKey = NoKey

\* tab_bound of a settled page: ask for a snapshot that no run waits for.
OnTabBound ==
  /\ Got("tab_bound")
  /\ inbox' = Tail(inbox)
  /\ LET t == Head(inbox).tab
         k == Head(inbox).key
     IN  /\ boundKey' = IF Adopts(k) THEN k ELSE boundKey
         /\ boundTab' = IF Adopts(k) THEN t ELSE boundTab
         /\ building' = IF Phase(act) # "inactive" /\ t = boundTab'
                        THEN building \cup {[tab |-> t, req |-> 0]} ELSE building
  /\ UNCHANGED <<act, timer, retries, connected, live, pageRun, snap, conv, turn, watchdog,
                 resend, gating, worker, posted, world>>

\* tab_closed
OnTabClosed ==
  /\ Got("tab_closed")
  /\ inbox' = Tail(inbox)
  /\ IF Head(inbox).tab = boundTab /\ turn # NoTurn
     THEN turn' = NoTurn /\ watchdog' = {} /\ resend' = NoPrompt
     ELSE UNCHANGED <<turn, watchdog, resend>>
  /\ UNCHANGED <<act, timer, retries, connected, live, boundTab, boundKey, pageRun, snap,
                 conv, gating, worker, posted, building, world>>

\* Mutant of Accepts: a snapshot is taken whatever run it answers.
AcceptsAny(req) == TRUE

\* A snapshot that answers a superseded run is ignored, an untagged one is not.
Accepts(req) == req \in {0, act.run}

\* page_context
OnPage ==
  /\ Got("page_context")
  /\ inbox' = Tail(inbox)
  /\ LET m == Head(inbox)
         p == [Here EXCEPT !.snap = m.tab]
     IN  IF ~Accepts(m.req)
         THEN UNCHANGED <<act, timer, boundTab, boundKey, pageRun, snap, conv, turn,
                          watchdog, resend, posted, building>>
         ELSE IF act.gates["page"] = "active" THEN Fire(PassPage(act), p)
         ELSE Same(p) /\ UNCHANGED <<act, timer, posted, building>>
  /\ UNCHANGED <<retries, connected, live, gating, worker, world>>

\* onChatEvent
OnChat ==
  /\ Got("chat")
  /\ inbox' = Tail(inbox)
  /\ LET m == Head(inbox)
     IN  IF turn = NoTurn \/ turn.id # m.id THEN UNCHANGED <<turn, watchdog, resend>>
         ELSE /\ watchdog' = IF m.kind = "keepalive" THEN {m.id} ELSE {}
              /\ turn' = IF m.kind \in Terminal THEN NoTurn ELSE turn
              /\ resend' = IF m.kind = "recoverable" /\ resend = NoPrompt
                           THEN turn.prompt ELSE resend
  /\ UNCHANGED <<act, timer, retries, connected, live, boundTab, boundKey, pageRun, snap,
                 conv, gating, worker, posted, building, world>>

\* A gate timer: the gate stalls; a cold worker gate is retried a bounded
\* number of times.
TimerFires ==
  /\ timer # NoGate
  /\ LET again == timer = "worker" /\ ShouldAutoRetry(act.cold, retries, MaxWorkerAutoRetries)
         out == TimeOut(act, timer)
     IN  /\ retries' = IF again THEN retries + 1 ELSE retries
         /\ Fire(IF again THEN RetryWorker(out) ELSE out, Here)
  /\ UNCHANGED <<connected, live, gating, worker, inbox, world>>

\* armFirstTokenTimeout's timer: abort, stash the prompt, start over.
WatchdogFires(id) ==
  /\ id \in watchdog
  /\ LET p == [Here EXCEPT !.watchdog = @ \ {id}, !.turn = NoTurn,
                           !.resend = IF @ = NoPrompt THEN turn.prompt ELSE @]
     IN  IF turn = NoTurn \/ turn.id # id
         THEN /\ watchdog' = watchdog \ {id}
              /\ UNCHANGED <<act, timer, retries, boundTab, boundKey, pageRun, snap, conv,
                             turn, resend, posted, building>>
         ELSE IF boundKey # NoKey THEN Begin(boundTab, boundKey, live, p)
         ELSE Same(p) /\ UNCHANGED <<act, timer, retries, posted, building>>
  /\ UNCHANGED <<connected, live, gating, worker, inbox, world>>

-----------------------------------------------------------------------------
(* The user, in the panel *)

\* sendMessage and resendMessage.  Locked or unbound, it only shows a notice.
UserSends ==
  /\ turn = NoTurn
  /\ Phase(act) \in {"ready", "degraded", "inactive"}
  /\ boundTab # NoTab /\ boundKey # NoKey
  /\ SendFrom(Here, [tab |-> boundTab, key |-> boundKey, tries |-> 0])
  /\ UNCHANGED <<act, timer, retries, connected, live, gating, worker, building, inbox, world>>

UserStops ==
  /\ turn # NoTurn
  /\ turn' = NoTurn /\ watchdog' = {} /\ resend' = NoPrompt
  /\ UNCHANGED <<act, timer, retries, connected, live, boundTab, boundKey, pageRun, snap,
                 conv, gating, worker, posted, building, inbox, world>>

\* retry
UserRetries ==
  /\ IF Phase(act) = "disconnected"
     THEN /\ gating' = Append(gating, boundTab)
          /\ UNCHANGED <<act, timer, boundTab, boundKey, pageRun, snap, conv, turn,
                         watchdog, resend, posted, building>>
     ELSE Phase(act) = "blocked" /\ Fire(RetryWorker(act), Here) /\ UNCHANGED gating
  /\ UNCHANGED <<retries, connected, live, worker, inbox, world>>

\* refreshContext: a snapshot that no run waits for.
UserRefreshes ==
  /\ boundTab # NoTab
  /\ building' = building \cup {[tab |-> boundTab, req |-> 0]}
  /\ UNCHANGED <<panel, gating, worker, posted, inbox, world>>

-----------------------------------------------------------------------------
(* The service worker *)

\* chat_request: planChatRequest routes it to the worker of its tab and key.
RouteTurn(r) ==
  /\ r \in posted
  /\ posted' = posted \ {r}
  /\ IF registry[r.tab] = r.key /\ <<r.tab, r.key>> \in alive
     THEN routed' = Append(routed, r) /\ UNCHANGED inbox
     ELSE inbox' = inbox \o Chat(r.id, "recoverable") /\ UNCHANGED routed
  /\ UNCHANGED <<panel, gating, alive, closing, registry, building, world>>

\* onChatInbound: a frame of a routed turn, from a worker that is connected.
TurnFrame(r, kind) ==
  /\ Room
  /\ <<r.tab, r.key>> \in alive
  /\ inbox' = inbox \o Chat(r.id, kind)
  /\ \E i \in 1..Len(routed) :
       /\ routed[i] = r
       /\ routed' = IF kind \in Terminal
                    THEN SubSeq(routed, 1, i - 1) \o SubSeq(routed, i + 1, Len(routed))
                    ELSE routed
  /\ UNCHANGED <<panel, gating, alive, closing, registry, posted, building, world>>

\* get_page_context: the snapshot is built, or building it fails and the
\* page_context_error is one the panel has no handler for.
PageBuilt(r) ==
  /\ Room
  /\ r \in building
  /\ building' = building \ {r}
  /\ inbox' = Append(inbox, [type |-> "page_context", tab |-> r.tab, req |-> r.req])
  /\ UNCHANGED <<panel, gating, worker, posted, world>>

PageFails(r) ==
  /\ r \in building
  /\ building' = building \ {r}
  /\ UNCHANGED <<panel, gating, worker, posted, inbox, world>>

\* onopen of a worker's socket, and its hello_ack.
WorkerOpens(t, k) ==
  /\ Room
  /\ k \in Keys /\ \A j \in Keys : <<t, j>> \notin alive \cup closing
  /\ alive' = alive \cup {<<t, k>>}
  /\ inbox' = inbox \o Status(TRUE)
  /\ UNCHANGED <<panel, gating, closing, registry, routed, posted, building, world>>

WorkerIdentifies(t, k) ==
  /\ Room
  /\ <<t, k>> \in alive
  /\ registry' = [registry EXCEPT ![t] = k]
  /\ inbox' = inbox \o Bridges(registry')
  /\ UNCHANGED <<panel, gating, alive, closing, routed, posted, building, world>>

\* onclose: status, the turns fail if no socket is open any more, bridges.
WorkerCloses(t, k) ==
  /\ Room
  /\ <<t, k>> \in alive \cup closing
  /\ alive' = alive \ {<<t, k>>}
  /\ closing' = closing \ {<<t, k>>}
  /\ registry' = [registry EXCEPT ![t] = NoKey]
  /\ inbox' = inbox \o Status(alive' # {}) \o (IF alive' = {} THEN FailTurns ELSE <<>>)
                \o Bridges(registry')
  /\ routed' = IF alive' = {} THEN <<>> ELSE routed
  /\ UNCHANGED <<panel, gating, posted, building, world>>

\* The heartbeat: no traffic on any open socket.
Heartbeat ==
  /\ Room
  /\ alive # {}
  /\ closing' = closing \cup alive
  /\ alive' = {}
  /\ inbox' = inbox \o Status(FALSE) \o FailTurns
  /\ routed' = <<>>
  /\ UNCHANGED <<panel, gating, registry, posted, building, world>>

\* The scan's broadcastBridges.
Scan ==
  /\ Room
  /\ inbox' = inbox \o Bridges(registry)
  /\ UNCHANGED <<panel, gating, worker, posted, building, world>>

\* tab_bound for the controlled tab once its page has settled.
PageSettles(t) ==
  /\ Room
  /\ t \in openTabs /\ tabKey[t] # NoKey
  /\ inbox' = Append(inbox, [type |-> "tab_bound", tab |-> t, key |-> tabKey[t]])
  /\ UNCHANGED <<panel, gating, worker, posted, building, world>>

-----------------------------------------------------------------------------
(* Tab events, which the panel and the service worker both hear *)

\* onAct
TabActivated(t) ==
  /\ t \in openTabs /\ t # activeTab
  /\ activeTab' = t
  /\ gating' = Append(gating, t)
  /\ UNCHANGED <<panel, worker, posted, building, inbox, tabKey, openTabs>>

\* Mutant of EvictionNotice: the eviction is not broadcast.
EvictionSilent(reg) == <<>>

\* The old tenant leaves the panels' live tenants at once.
EvictionNotice(reg) == Bridges(reg)

\* onUpd, and the eviction of the tab's worker by tabs.onUpdated.
TabNavigated(t, k) ==
  /\ Room
  /\ t \in openTabs
  /\ tabKey' = [tabKey EXCEPT ![t] = k]
  /\ gating' = Append(gating, t)
  /\ IF registry[t] \notin {NoKey, k}
     THEN /\ registry' = [registry EXCEPT ![t] = NoKey]
          /\ inbox' = inbox \o EvictionNotice(registry')
     ELSE UNCHANGED <<registry, inbox>>
  /\ UNCHANGED <<panel, alive, closing, routed, posted, building, openTabs, activeTab>>

TabCloses(t, next) ==
  /\ Room
  /\ t \in openTabs /\ next \in openTabs \ {t}
  /\ openTabs' = openTabs \ {t}
  /\ tabKey' = [tabKey EXCEPT ![t] = NoKey]
  /\ activeTab' = IF t = activeTab THEN next ELSE activeTab
  /\ gating' = IF t = activeTab THEN Append(gating, next) ELSE gating
  /\ inbox' = Append(inbox, [type |-> "tab_closed", tab |-> t])
  /\ UNCHANGED <<panel, worker, posted, building>>

-----------------------------------------------------------------------------
Requests == [id : TurnIds, tab : Tabs, key : Keys]
PageRequests == [tab : Tabs, req : 0..MaxRun]

PanelHandler ==
  GateResolves \/ OnStatus \/ OnBridges \/ OnTabBound \/ OnTabClosed \/ OnPage \/ OnChat

PanelTimer == TimerFires \/ \E id \in TurnIds : WatchdogFires(id)

User == UserSends \/ UserStops \/ UserRetries \/ UserRefreshes

Next ==
  \/ PanelHandler \/ PanelTimer \/ User
  \/ \E r \in Requests : RouteTurn(r)
  \/ \E r \in Requests, kind \in ChatKinds : TurnFrame(r, kind)
  \/ \E r \in PageRequests : PageBuilt(r) \/ PageFails(r)
  \/ \E t \in Tabs, k \in Keys : WorkerOpens(t, k) \/ WorkerIdentifies(t, k) \/ WorkerCloses(t, k)
  \/ Heartbeat \/ Scan
  \/ \E t \in Tabs : PageSettles(t) \/ TabActivated(t)
  \/ \E t \in Tabs, k \in Keys \cup {NoKey} : TabNavigated(t, k)
  \/ \E t, next \in Tabs : TabCloses(t, next)

Spec == Init /\ [][Next]_vars

\* Fairness.  Chrome runs the panel's armed timers, delivers its messages and
\* answers chrome.tabs.
Fairness ==
  /\ WF_vars(TimerFires)
  /\ WF_vars(GateResolves)
  /\ WF_vars(OnStatus) /\ WF_vars(OnBridges) /\ WF_vars(OnTabBound) /\ WF_vars(OnTabClosed)
  /\ WF_vars(OnPage) /\ WF_vars(OnChat)

FairSpec == Spec /\ Fairness

-----------------------------------------------------------------------------
(* Properties *)

\* The gates stay in order, at most one is in flight, and it is the one whose
\* timer is armed: no reset, retry, late event or stale timer can leave the
\* panel in a phase that nothing ends (afterActivation).
GateInFlightIsTimed ==
  /\ GateOrder(act)
  /\ timer = ActiveGate(act)
  /\ \A g, h \in Gates : act.gates[g] = "active" /\ act.gates[h] = "active" => g = h

\* The panel has a tenant exactly while a key and a tab are bound, so the
\* adoption of a tab that automation binds (use-panel.ts 398-402) cannot happen.
BoundWhileTenant ==
  /\ act.tenant <=> boundKey # NoKey
  /\ boundTab = NoTab <=> boundKey = NoKey

\* Once every tab event is handled, the panel is bound under the key its tab
\* now has, however navigations, tab switches and closes overlapped the awaits
\* of gateToActiveTab.
BoundKeyIsTabsKey ==
  gating = <<>> /\ boundTab \in openTabs => boundKey = tabKey[boundTab]

\* A panel that accepts input shows the conversation of its own tab and tenant.
UsableShowsOwnConversation == Usable(act) => conv = <<boundTab, boundKey>>

\* The active turn is of the tab the panel is gated to: a switch suspends it
\* (gateToActiveTab), also while other gate calls are pending.  And it was sent
\* in the conversation of its own tab and tenant (the chat_request's convId).
TurnIsOfBoundTab ==
  turn # NoTurn =>
    /\ boundTab \in {turn.tab, NoTab}
    /\ turn.conv = <<turn.tab, turn.key>>

\* A snapshot that answers a run is taken only if it shows the tab of the
\* current run, however late it comes (page_context correlation).
TaggedSnapshotIsOwn ==
  [][OnPage /\ Head(inbox).req # 0 /\ snap' # snap => snap' = boundTab]_vars

\* Once its messages are handled, the panel's copies of the connection state
\* and of the live tenants are the service worker's: every change of the
\* registry or of the sockets is followed by a broadcast.
CachedViewConverges ==
  inbox = <<>> => connected = (alive # {}) /\ live = LiveTenants(registry)

\* Getting ready ends, with a usable panel or an actionable stall.
ReadyingEnds == (Phase(act) = "readying") ~> (Phase(act) # "readying")

\* While xcsh is connected, disconnected does not last: a reconnection starts
\* the gates over without the user (use-panel.ts 366).
DisconnectedRecovers ==
  <>[](alive # {}) => []<>(Phase(act) # "disconnected")
=============================================================================
