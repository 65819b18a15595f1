# Verification of the xcsh Chrome extension

TLA+ models of the extension's service worker, side panel and page tools and of the
repository's dispatch script, the TLC configurations that check them on small instances, and
theorems about them that TLAPS checks for every value of the constants. Paths below are
relative to the repository; files without a path are in `src/src`; line numbers are of the
modelled commit.

## The system

xcsh is a command line agent. Its workers listen on local WebSocket ports; the extension
connects to them, lets them drive console tabs and shows a chat in Chrome's side panel.

| component | state | operations | interacts with |
| --- | --- | --- | --- |
| Bridge connections (`service-worker.ts` 131-184, 421-437, 560-850, 929; `bridge-discovery.ts`, `bridge-transport.ts`, `tab-binding.ts`) | sockets by port, registry of advertised identities, port-to-tab bindings, known ports, timers, pinned port | connect, scan, reconnect, heartbeat, prune, identify, correlate, pin | workers (frames), panels (status, bridges), tabs (events) |
| Routing plans (`sw-router.ts`, `session-routing.ts`) | none | which port a turn, a skills request, a tool call or a re-tenant concerns | called by the handlers above |
| Skills waiters (`skills-waiters.ts`) | panels waiting per port | add, take, forget | panel ports, sockets |
| Activation gates (`side-panel/activation.ts`) | bridge, worker and page gate of the current run | reset, pass, time out, disconnect, retry | pure; driven by the panel |
| Side-panel controller (`side-panel/use-panel.ts`, `state.ts`) | bound tab and key, gates and timers, page snapshot, conversation, active turn, stashed prompt | gate to a tab, handle messages, send, stop, retry | service worker (port), `chrome.tabs` |
| Chat turn table, interactions (`service-worker.ts` 357-420, 717-742, 826-842, 986-1175) | turn id to panel and to bridge port, panel to bridge port, answers under way | route, relay, stop, answer, fail | panels, sockets |
| Conversation store (`references-store.ts`, `side-panel-store.ts`) | session index, conversations | load, save, discard | panel |
| Controlled tab (`service-worker.ts` 1927-1962, 2801-2989; `tab-binding.ts`) | target tab, in-flight count, attached debuggers | bind, rebind, unbind | tool calls, tab events |
| Debugger buffers, network waits (`service-worker.ts` 440-541, 2661-2706; `api-capture.ts`) | ring buffers of 500 events, observers, captured bodies | observe, wait for a response, capture | debugger, tool calls |
| Tool dispatch (`service-worker.ts` 1208-2840, `dispatch.ts`) | what is under way of each call | read, click, select, type, evaluate, navigate | the page through its debugger |
| Page context (`accessibility-tree.ts`, `ax-serialize.ts`, `context-snapshot.ts`) | the map from references to elements | read, resolve | tool calls, snapshots for the panel |
| Indicators and overlays (`agent-visual-indicator.tsx`, `indicator-envelope.ts`, `overlays.ts`) | brightness and two timers per page | show, hide | tool calls |
| Release tooling (`../scripts/github-api-resilience.cjs`) | attempts and waits of nested retries | request, dispatch | GitHub |
| Provisioning (`service-worker.ts` 190-245, 1140-1160; `nm-bootstrap.ts`, `ttft-provision.ts`) | native port, last re-provision per session, cold starts | provision, release | xcsh manager |
| Diagnostics (`diagnostics.ts`) | capped event buffers | record, summarise | everything |
| The rest: protocol validation, options page, UI components, vendored chat UI, build | mostly none | | |

What is hard here: sockets of one port overlap (an old one closing while its successor is
open); bridge ports are a pool that workers reuse; identities, close events and awaits of
`chrome.tabs` interleave; the service worker restarts and reads its pinned port from storage
late; several panels, sockets and turns cross in tables that are cleared in different
handlers; the panel works from copies that broadcasts refresh; timers race the messages they
guard; several tabs share a tenant and one tab changes tenant; saves are delayed while tabs
switch; tool calls overlap on one page whose debugger may hang; a dispatch whose answer is
lost must not happen twice. `PROJECT.json` lists these hazards at their lines, with the
properties that watch them.

## Modules

| module | models |
| --- | --- |
| `SessionRouting` | the pure plans of `sw-router.ts`, `session-routing.ts` and the queries of `bridge-discovery.ts`, over the registry as a function from ports to identities |
| `BridgeLink` | the service worker's sockets and every table keyed by port or tab, one action per socket event, timer, alarm, panel request and tab event |
| `BridgeLink_proofs` | its inductive invariant and theorems |
| `Activation` | the reducer of `activation.ts`: one operator per event |
| `Panel` | the controller of `use-panel.ts` and the service worker as one panel sees it (uses `Activation`) |
| `Panel_proofs` | its inductive invariant and theorems |
| `ChatTurn` | what a chat promises of a turn, whatever routes it (abstract) |
| `ChatTurns` | turns, stops, questions and answers between several panels, the service worker and the workers of several sockets; implements `ChatTurn` |
| `ChatTurns_proofs` | its invariants, its theorems and the steps of the refinement |
| `ConversationStore` | the conversations of tabs and tenants, their index, the debounced save |
| `ConversationStore_proofs` | its invariants and theorems |
| `PageSession` | the controlled tab, debugger attachment, the network buffer, its waits, captured bodies and page snapshots |
| `PageSession_proofs` | its inductive invariant and theorems |
| `Indicator` | the envelope of the on-page indicator, as operators |
| `PageTools` | overlapping tool calls on one page, element references, the indicator (uses `Indicator`) |
| `PageTools_proofs` | the invariants of a call and of the indicator, and their theorems |
| `Dispatch` | `retryGitHub`, `requestGitHubApi`, `findWorkflowDispatchReceipt` and `dispatchWorkflow` with GitHub |
| `Dispatch_proofs` | its inductive invariant and theorems |
| `MC...` | TLC instances of the module they are named after, with the budgets that bound it |

`BridgeLink`, `Panel`, `ChatTurns`, `ConversationStore` and `PageSession` look at the same
service worker and panel from different sides. What one of them leaves out is a free choice
of the others: `Panel` takes sockets as opening and closing, `ChatTurns` takes panels as
switching places, `ConversationStore` takes gates as passing, `PageTools` takes bindings as
made.

### BridgeLink and the code

A connection `<<p, i>>` is a socket object of port `p`; `ready` is its readyState, `opened` the
local of `connectPort`, `peer` the worker at its other end. `sockets[p]` names the one in the
`sockets` map. `registry`, `portToTab`, `knownPorts`, `reconnect` (`fastReconnectTimers`),
`waiters` (`skillsWaiters`), `linkAge` (`lastActivityTs`), `pinned` and `tracked`
(`tabSessionKeys`) are the code's tables. `connectPort`, `onopen`, `onmessage`, `onclose` (with
`MapAfterClose`, `ForgetPort` and `AfterClose` as its three parts, in order), the heartbeat, the
scan alarm, the fast reconnect, `set_bridge_port` and the tab listeners are one action each;
the one await that lets other events in, `chrome.tabs.get` in `correlatePortToTab`, splits its
handler into `Correlate` and `CorrelateResolves`. `Restart` loses everything in memory; the
storage callback is `StoredPortRead`. `DiscoveryPorts` is the range that scans try; a pin may
name a port outside it. Workers and tabs are external actions.

Abstractions: ages count in units of the 45 s limit; frames without effect on these tables
are `OtherFrame`; `idle` stands for the in-flight test; a frame in flight is an entry of a
FIFO; a peer's death and the close event are separate steps. `Slots` bounds socket objects
per port. The synchronous throw of the WebSocket constructor cannot happen for the URLs used.

### Panel and the code

A handler of `use-panel.ts`, with the render that follows it, is one action: `OnStatus`,
`OnBridges`, `OnTabBound`, `OnTabClosed`, `OnPage`, `OnChat`, the two timers, the user's
actions. Every one that fires the reducer does so through `Fire`, which is `fireActivation`
followed by `afterActivation`: it arms the timer of the active gate, asks for a snapshot and
loads the conversation when the page gate starts, and resends the stashed prompt. The await
in `gateToActiveTab` splits it: tab events append to `gating`, `GateResolves` goes on, in the
order of the calls (Chrome answers in order).

The service worker side holds what the panel can notice: `alive` and `closing` sockets by
the tab and key of their worker, `registry`, `routed` (`turnToPort`), posted turns, snapshots
being built and the FIFO `inbox` of the port. A prompt's text is where it was typed and how
often it was resent; a snapshot is the tab it shows; a conversation is the tab and key it
belongs to. Ids and run numbers come from finite sets and are reused only when nothing
mentions them any more (`InFlight`, `RunIsFree`), as the code's UUIDs and growing counter never
repeat.

### ChatTurns and the code

`turnToPort`, `turnToBridgePort`, `turnRoutedAt`, `interactionPanels` and `answerTurns` are the
code's maps, `open` and `serves` the sockets and the registry; `posted`, `toWorker`, `fromWorker`
and `toPanel` are the FIFO channels, one of each for every Port and socket. What a panel posts
(`UserSends`, `UserAnswers`, `UserStops`, `PanelMounts`, `AsksAgain`, `Hears`) waits in `posted`
until its case of the service worker's handler runs: `RequestArrives`, `AnswerArrives`,
`SnapshotArrives` (which writes `interactionPanels`) and `StopArrives`. In between sockets close
and open, ports change hands and frames cross. What the service worker posts waits in
`toPanel`, since the panel may have stopped or left when it arrives; opening and closing sockets
broadcast the places that have a worker (`Bridges`), from which a panel knows whether it is
ready (`seen`). `onmessage` of a socket is `ServiceWorkerReceives`, `onclose` is `SocketCloses`,
`onDisconnect` is `PanelCloses`. On the panel's side `active`, `watched` (the first-token timer),
`status` and `shown` (the pieces of the answer's message) are written by `PanelReceives`,
`WatchdogFires`, `UserStops` and `PanelSwitches`. Of the question panel, mounting and the
snapshot command it posts (`PanelMounts`), the renewed command when a receipt stays out
(`AsksAgain`) and what it does with an answer (`Hears`: show, drop, or ask anew if the revision
has a gap) are steps of their own; `mounted` and `pending` are its state. A place is a tab with
its tenant. `sentOver`, `stranded` and `resumed` are history: the turns sent on a port's present
socket, those that its sockets left pinned when they closed beside others, and those that
began with an answer. The pieces of one answer are numbered: 0 is `chat_message_start`, the others its
deltas. Keepalives and tool notices are frames that only show life.

### ConversationStore and the code

`byTenant`, `byTab` and `stored`/`saved` are the index and the conversation map, `conv` and
`shown` the conversation in the panel's state. The store's functions are async but wait for
nothing, so `gateToActiveTab` with the switch it starts, and every handler, is one action; the
debounced save (`SaveTimerFires`) and the service worker's word that a tab closed
((`TabClosedTold`) come at any later time. `sendMessage` has two outcomes: `Send` begins a turn,
`Notify` writes the prompt and the notice that it was not sent into the conversation shown and
saves that at once (`side-panel/use-panel.ts` 532-568), without a turn and whatever the index
says. A message is a mark: the turn and which part of it; what a retry of a failed turn leaves
behind is that turn's mark `Unsent`.

### PageSession and the code

`setControlledTab` waits for Chrome twice: `SetControlledTab` or `ToolBinds` starts it,
`Ungrouped` and `AttachEnds` continue it, and several calls overlap. Chrome may refuse every move
of a tab into the red group or out of it (`Groups`, `Ungroups`), which the code catches
(`service-worker.ts` 1951-1953); `refused` is history: the tabs whose last move failed. `TabActivated`,
`TabNavigates`, `TabCloses` and `Detached` are the listeners with `decideBinding`; `TurnToggles`
is the in-flight test. `buffer` is the network buffer with `Cap` for its 500; a wait remembers
`from` (`startIdx`), polls (`Scan`) and gives up (`TimesOut`). `BodyArrives` is the captured body
that `BuildEnds` puts into a snapshot. An event either is a response that matches the pattern
and carries a resource, or any other.

### PageTools, Indicator and the code

A call goes from one debugger command to the next (`pc`), and other calls, the page, the user
and the panel's snapshots go on in between. An element is its place in the document and
covers the earlier ones it shares a point with; `Within` says which elements contain which. A
command that scrolls an element into view (`Scroll`, `Locate`, `Poll`, `Commit`) may move every
element of the page, under the points of all calls; `PageMoves` is the page that moves by itself.
`HitTest` accepts the element, what contains it and what it contains (`Hits`), as the code does
(1621). The three awaited mouse events (1900-1918) are the steps `Hover`, `Press` and `Release`.
`refs` is `REFMAP`, `tag` the attribute `data-xcsh-pick`, `attached` is `attachedTabs`, `stale` a
context in which evaluations hang. The input of label_select is found, clicked and typed into
without a hit test, as in the code. `light` is the envelope with the time its two timers have
left; `Show`, `Hide` and `Pass` are its functions, and `StopHides` is the hide of `stop_agent`
(1196-1202). `fresh` and `landed` are history: whether the page has moved since the call's last
verdict, and what its press hit.

### Dispatch and the code

`stage` is the request due: the first read of the receipts, the post, or the read before
another post. `attempt`/`waited` and `readAttempt`/`readWaited` are the local variables of the
two nested `retryGitHub`; `Kind`, `Backoff`, `WaitSeconds` and `Caught` are its classification and
its catch block. GitHub is external: a post may take effect though its answer is an error, and
a run is listed at once, late or not.

## Runs

| run | module | shows |
| --- | --- | --- |
| `reuse` | `MCBridgeLink` | six invariants with ports that two workers of two tabs of one tenant use in turn, and `PinnedPortOnly` with a port pinned by the tool or from storage, over restarts |
| `live` | `MCBridgeLink` | `ReconnectStormEnds`, `ListeningWorkerIsConnected` under fairness |
| `panel` | `MCPanel` | types, gates and timers, binding key, conversation, cached view, turns and tagged snapshots, with two tabs of one tenant and with one tab of two tenants |
| `panel_live` | `MCPanel` | `ReadyingEnds`, `DisconnectedRecovers` under fairness |
| `turns` | `MCChatTurns` | the tables of turns agree; a stop goes astray, and a turn without work under way counts as busy, only if a socket left it pinned by closing beside another; no open request is forgotten; a strange question is about to go; the turn that is shown implements `ChatTurn` (`TurnIsKept`) |
| `store` | `MCConversationStore` | transcripts, with the notices of prompts that could not be sent, stay with their tab and tenant, are led to by the index, go with their tab and survive a suspension |
| `control` | `MCPageSession` | the controlled tab ends up marked whatever order overlapping bindings end in, unless Chrome refused its last move; a wait sees every new response while the buffer is not full |
| `tools` | `MCPageTools` | a press that the hit test allowed hits the element of its call unless the page moved after the verdict; bounded waits end; the indicator keeps its hold and goes out |
| `dispatch` | `MCDispatch` | no second usable run of a source, every dispatch ends |

and three runs in which TLC finds what a comment or document says violated:

| run | what the code does |
| --- | --- |
| `stranded` | a turn whose socket closes while another socket is open is never ended (`service-worker.ts` 684), and stays pinned to a port that may become another tab's (1063) |
| `relogin` | a turn started before a same-tab re-login writes into the new tenant's conversation (`side-panel/use-panel.ts` 317) |
| `fullring` | a wait for a response never looks at what arrives once the buffer is full (`service-worker.ts` 2672) |

`findings` in `PROJECT.json` quotes the lines that disagree.

### Bounds

* `reuse`, `live`: one or two ports, two tabs, two workers, two socket objects per port. The
  hazards concern two owners of one thing: two sockets of a port, two workers of a port, two
  tabs of a tenant. More of each adds no kind of conflict, and the proofs cover any number.
* `panel`: two tabs and one tenant, then one tab and two tenants (`Scenes`); two turn ids; the
  port's FIFO is at most `MaxInbox` long when the service worker adds to it. `MaxRun` run
  numbers wrap around. `Budget` bounds what comes from outside: user, tabs, sockets, frames
  and expiring timers; what the two processes then do by themselves is not bounded. Five
  external events are enough for a start, a change of tab or tenant, a failure and a late
  answer. `panel_live` leaves timers outside the budget, so that timeouts race every message,
  and takes `MaxRun` larger than the number of runs the budget allows, for a handler must not
  wait for a free run number under fairness.
* `turns`: two panels, two places, two ports, two turns; two moves of the users, the timers and
  what workers say besides the pieces of an answer (`UserBudget`), and two of sockets, panels and
  restarts (`WorldBudget`); every message that is under way is always handled. A queue has at
  most `MaxQueue` entries when something is added to it, and one delta follows the start of an
  item. Sockets close one by one or together, ports pass to other places' workers and panels ask
  for questions (`LoneCloses`, `PortsReused`, `Questions`). `Handoffs`, `SameTenant` and `Repeats` are
  off: what they add is listed below. `stranded` takes watchdogs out of the budget (`Timers`).
* `store`: two tabs, two tenants, two turns, three moves of tabs, workers and prompts that cannot
  be sent, four conversations. A user does not send while the panel still has an event of the
  tabs to handle, nor retry in the conversation of a closed tab (`MayRetryClosed`).
* `control`, `fullring`: a buffer of two entries, three events, so that it drops one. A behaviour
  of `control` plays in one of two scenes: bindings that overlap, with one network event and one
  open tab that Chrome refuses to move (`MaxRefused`), or a wait with one binding at a time.
* `tools`: two elements, one point, two calls, one move of the page, the user or the panel,
  besides the scrolling of the calls; one reload (the code has two). In the scene "press" all
  tools but navigate overlap and the indicator's time passes between them; in "clock" reads,
  scripts and navigation overlap with all timers. One label_select, one navigate and one read at
  a time (`Alone`). No element contains another (`Within`). Hold and cleanup are two and one units
  of time. The proof of `VerifiedPress` has none of these bounds.
* `dispatch`: the script's own limits on attempts and waits; two dispatches, two runs, one
  error of every kind.

Deadlock is not checked: budgets run out, and a system without work stops.

### Fairness

* `BridgeLink`: Chrome runs the scan alarm and armed reconnect timers and finishes every close
  (weak fairness). A listening worker accepts a connection offered again and again, though an
  attempt may fail (strong fairness of `SocketOpens`), and answers the hello of a socket it
  accepted. Nothing obliges it to stay up, nor the user to do anything.
* `Panel`: weak fairness of `TimerFires`, `GateResolves` and of each message handler: Chrome
  runs the panel's armed timers, answers `chrome.tabs` and delivers the port's messages in
  order. No fairness of the user, of the workers, of the snapshots or of the service worker's
  heartbeat. `ReadyingEnds` therefore needs no snapshot and no worker: the gate timers end it.
* `ChatTurns` (`stranded`): what has arrived is handled and the armed watchdog fires (weak); a
  worker that goes on being connected ends what it works on (strong). Users and sockets are
  free. The turn hangs in spite of all this.
* `PageTools`: timers run out and a call that can go on does (weak). In a stale context an
  evaluation cannot go on; only its timeout can.
* `Dispatch`: the script's next request is made and answered or fails (weak).

Since budgets bound external events, the liveness results are about behaviours in which
disturbance ends.

## What the models contain and no run isolates

Bridge connections and turns

* The close event of a replaced socket erases its successor's identity, binding and waiters
  (`service-worker.ts` 674-678, comment 675); while an older socket of a port is closing, a tool
  call of the port's new worker is planned against the old worker's tab. `ToolDrivesOwnTab` and
  its neighbours exclude that window (`Overlap`).
* An answer for which no worker is live is dropped without a word (`service-worker.ts`
  1003-1004), after the panel began a turn for it (`side-panel/use-panel.ts` 97-108).
* A delta delivered twice is shown twice: `panelReducer` appends what `reduceChatTurn` ignores
  (`side-panel/state.ts` 105-111). `Repeats` turns this on and violates `TurnIsKept`.
* A lone close leaves its turn in `turnToBridgePort`. When the port has become another tab's, the
  stop of that turn goes to the other tab's worker (1063), against the comment 1060-1062: "a stop
  for an unknown/finished turn must target nothing, never the last-focused worker (which could
  abort a different tab's turn)". `StrayStopsWereStranded` says that no other stop goes astray, and
  `BusyOnlyWhileWorking` that no other turn counts as busy for nothing. The finding of `stranded`
  quotes both.
* `interactionPanels` keeps a port when its socket closes, so a panel is shown the questions of
  the port's next worker for a while. `StrangeQuestionsGo` says that they are about to go. With two
  tabs of one tenant (`SameTenant`) a panel is not told that its worker is gone, and with `Handoffs`
  a worker opens before its predecessor closes: in both cases a strange question may stay until
  the panel's next snapshot command.

Panel

* The resent prompt's `used` flag is lost when it is stashed again (280, comment 123-124), a
  stash left by a turn that has ended survives a switch of tabs (317-319), and it is not resent
  while the tenant stays live (517).
* A snapshot without request id of another tab is attached (431, `activation.ts` 4).
* A drop during the page gate leaves the panel ready without a connection (370,
  `activation.ts` 137-140).
* A background tab that navigates takes over the panel (446); the worker gate passes on
  another tab's worker of the same tenant (376).

Conversations

* A worker that vanishes within the 300 ms of the debounce reloads the stale conversation; a
  prompt whose answer is refused just before a switch of tabs is lost;
  `adoptCurrentConvForTenant` is unreachable.
* `tab_closed` discards the closed tab's session but leaves its conversation in the panel's state
  (`side-panel/use-panel.ts` 417-426). Until the next gate passes, the Retry of its last failed
  turn (`side-panel/App.tsx` 55) writes a notice into that conversation and saves it (533-551): the
  transcript of the closed tab is stored again, with no index entry that would ever discard it,
  though `side-panel-store.ts` 37 says "Drop both routing and transcript state when a tab closes".
  `MayRetryClosed` turns this on and violates `NothingOutlivesItsTab` and
  `IndexLeadsToTranscripts`. A notice for a prompt typed in an inactive panel is stored without
  index entry, too, but is of no turn and no tab.

Page

* The network buffer serves all tabs (`service-worker.ts` 473-483), a captured body is carried
  over a change of tenant (1982), `observingNetwork` is one flag for all tabs (447), and a wait does
  not look at the last 200 ms before its deadline.
* A tab that closes while a bind waits stays the target; overlapping calls leave a second tab in
  the red group: the one that unbinds it ungroups it first, the one that was binding it groups it
  afterwards (1941-1948, comment 1940: "so no orphaned red group is left behind").
* What scrolls between the verdict of the hit test and the three mouse events, another click on
  the same page included, moves the target away from the measured point (1646, 1900-1918): the
  press hits another element and the call reports `hit: true`, though the comment 1564-1566 says
  "coords can't go stale". `PressIsVerified` excludes presses after such a move.
* Only `javascript_tool` bounds its evaluations: in a stale context navigate and the reads hang.
  Two recoveries that overlap detach each other's retry, and both fail.
* Any later read, the panel's snapshots included, renumbers the references, so an older one
  names another element (`accessibility-tree.ts` 7). Two label_selects share one tag: the first
  may take the second's option, whose hit test passes, and press it while it reports its own
  match (2239-2320, comment 2317-2319: "the hit-test fails loudly rather than mis-clicking").
  When the tag is lost the press goes to coordinates that are not tested again (2325).
* The indicator is dimmed by the first call that ends while others run (1209, 1232).

Dispatch

* A deferral of the nested read ends the outer retry; a rejected `fetch` is fatal, since its code
  is in its cause; the rate limit of
  a post is read with the post's own method, as `POST /rate_limit` (237, 288), so the read fails.
* A run GitHub lists late may be posted twice, as may one beyond the newest hundred; two
  dispatchers at once are not synchronised.

## Proofs

TLAPS proves, for every value of the constants, all safety and action properties of the passing
runs but `StrangeQuestionsGo`, `TurnIsKept` (the refinement) among them. Each `..._proofs` module states an inductive
invariant, proves that `Init` establishes it and that every disjunct of `Next` preserves it,
with a lemma for each action or family of actions, and concludes each theorem with PTL.

| module | theorems | of |
| --- | --- | --- |
| `BridgeLink_proofs` | `TypeCorrect`, `LiveSocketTracked`, `PortForgotten`, `TurnReachesOwnWorker`, `ToolStaysOnOwnTab`, `SkillsReachOnlyAskers`, `BoundTabsOpen`, `PinIsKept` | `Spec` |
| `Panel_proofs` | `PanelTypeCorrect`, `GatesAreTimed`, `BoundExactlyWithTenant`, `BoundKeyCorrect`, `OwnConversationShown`, `TurnOnBoundTab`, `CachedViewCorrect`, `SnapshotsAreOwn` | `Spec` |
| `ChatTurns_proofs` | `TurnTypesCorrect`, `TablesAgree`, `StopsReachTheirWorker`, `BusyIsWorking`, `RequestsAreKept` | `Spec` |
| | `TurnImplemented` | no delta is sent twice |
| `ConversationStore_proofs` | `StoreTypesCorrect`, `SuspendedShown` | `Spec` |
| | `StaysApart` | no tab changes its tenant under a running turn |
| | `IndexLeads`, `NothingOutlives` | that, and no sending, retrying or saving by hand in a tab that the panel was told is closed |
| `PageSession_proofs` | `SessionTypesCorrect`, `ControlledIsGrouped`, `SeenUnlessFull` | `Spec` |
| `PageTools_proofs` | `VerifiedPress`, `HoldKept` | `Spec` |
| `Dispatch_proofs` | `OneRunAtATime`, `AttemptsAreBounded` | `Spec` |

### The hypotheses

A theorem that is not of `Spec` alone names the behaviours it is about as a hypothesis next to
`Spec`, over the same `Next`. Each hypothesis stands for a toggle of the run that checks the
property, and assumes no more than the run does; what the code does without it is in a finding
or in the list above.

* `[][~DeltaRepeats]_vars`: no worker sends the same delta twice (toggle `Repeats`).
* `[]TurnKeepsTenant`: the tab of a running turn keeps its tenant (`MayRelogin`). The run `relogin`
  and its finding show what happens otherwise.
* `[][InputsInTime]_vars`: the user neither sends nor triggers a save in a tab whose `tab_closed`
  the panel has handled, nor retries a turn in the conversation of such a tab. The run assumes
  more, that no event of the tabs is pending (`GateDue`).

### The invariants, and why each is needed

* `BridgeLink`: `LinkInv` is conditional. As long as a port has a single socket object, its
  registry entry, tab binding and waiters describe that socket's worker. The code's tables are
  keyed by port, not by socket, and while two sockets of a port overlap its tables say nothing
  about either. `PinIsKept` needs only types: each call of `connectPort` sees the pin.
* `Panel`: `Inv` conjoins the properties, but replaces `UsableShowsOwnConversation`, which is not
  inductive, by `PageLoaded`: once the page gate has started, the run's conversation is loaded and
  its snapshot asked for. Its central lemma is `FireInv`: from fields that satisfy the invariant
  before a handler calls the reducer, one firing with all its effects leads to fields that
  satisfy it again. `CachedViewCorrect` adds `ViewInv`: the last status in the inbox, or
  `connected` if there is none, is the sockets' state, and so for the live tenants; with `inbox` empty
  that is the property. `SnapshotsAreOwn` adds `OwnPages`: requests and snapshots under way with
  the number of the current run are of the bound tab. A new run has a number that nothing under
  way carries, and within a run the tab does not change, which is where `BoundWhileTenant` (the
  adoption branch is dead) comes in.
* `ChatTurns`: `BaseInv` has the types, `OpenIsActive` (a turn is open exactly while it is its
  panel's `active` one), the tables, and `PostsInOrder`: only connected panels have posts under way,
  and each asks once for a turn that it began. `OnePort` says that a turn is known at one port only,
  and that one whose request is still posted (`Unsent`) is mentioned nowhere else (`Fresh`).
  `BusyInv` conjoins that a receipt answers a turn once, that the table names the socket a pinned
  turn's request was sent on, or a port that left it pinned (`PinnedIsSent`), and
  `StrayStopsWereStranded` itself; with it a posted stop meets the socket of its turn.
  The refinement adds `InOrder`: the frames of a turn in its worker's and its panel's
  queues, taken together, continue what is shown in the order of the pieces. Each action is then
  shown to be a step or a stutter of `ChatTurn`.
  `RequestsKept` says of a panel's turn that it is pinned, that its end is in the panel's queue,
  or that its watchdog is armed and nothing in the queue would disarm it: the watchdog is off while a frame
  that follows the request is under way, so the queue belongs to the invariant. `AnswerInv` has the
  turns that `answerTurns` names begin with an answer; a refused receipt, which unpins a turn without
  ending it, therefore meets no request.
* `ConversationStore`: `StoreInv` says that conversations are numbered once, that the index gives
  no two places one conversation and that what a suspension left is kept; `ApartInv`, that what is
  shown is of the place bound; `TidyInv`, that a conversation shown without an index entry is one
  that nothing will save.
* `PageSession`: `GroupInv` extends the property to the time of overlapping calls: the tab is
  grouped, or Chrome refused to, or a call in progress will group it or take another. `SightInv` and `SteadyInv`
  say which entries of the buffer a wait has ahead and behind its index until the buffer is full.
* `PageTools`: a call that has no verdict yet has pressed nothing; the point that it is about to press
  shows the call's element, or one around it or in it, and so did the point that was pressed. There is
  one conjunct per command of the sequence, all conditional on the page not having moved since the
  verdict (`fresh`).
* `Dispatch`: between the read that found no run and the post that relies on it no run of the source
  can become usable (`PostIsDue`); without it a second post could not be excluded.

Assumptions on the constants only separate sentinels from the sets they extend, order limits and
give numbers their type; TLC evaluates them in every run.

### Only model-checked

* Liveness: `ReconnectStormEnds`, `ListeningWorkerIsConnected`, `ReadyingEnds`,
  `DisconnectedRecovers`, `BoundedWaitsEnd`, `IndicatorGoesOut`, `DispatchEnds`.
  It is out of the prover's reach, as is anything with `ENABLED`.
* `StrangeQuestionsGo`, which follows a command for questions through four queues.
* No run has `TypeOK` of `Dispatch` or `PageTools` among its properties, and no theorem states it
  whole: the waits of `Dispatch` grow exponentially, and the provers know nothing of powers
  (`AttemptsAreBounded` bounds its attempts); the references of `PageTools` come from a library
  operator that sorts by `CHOOSE`, and its theorems need the types of the calls only.
* Nothing depends on induction over data: no module has a `RECURSIVE` operator.

## Plan

1. A module for provisioning: the native port, `planReprovision` and the cold starts, with a proof
   that it re-provisions a session at most once in its interval.
2. Lemmas about the plans of `SessionRouting` on their own (a plan names only open, registered
   ports; priorities are respected).
3. The tools that are one command each, and the second buffer of the debugger (the console).

## Not modelled

* Provisioning and native messaging: a worker's start is an external step of the other
  modules. In particular the 5 s limit on re-provisioning, and a `gate_blocked` that arrives after
  its tab closed and provisions it again (`service-worker.ts` 1149), are not covered.
* Diagnostics: capped buffers and summaries nothing else reads; the console buffer.
* Tools that are one command each: `browser_batch`, `annotate`, `form_input`, `key_press`,
  `click_xy`, `screenshot`, the tab list; validation of parameters and messages.
* Contents of messages, pages and transcripts; drawing (overlays, user interface components);
  options page, vendored code, build and the other repository checks.
