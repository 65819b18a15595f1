----------------------------- MODULE BridgeLink -----------------------------
(***************************************************************************)
(* The bridge connections of the service worker (service-worker.ts         *)
(* 125-190, 421-437, 573-715, 720-824, 849-939, 1253-1271, 2852-2989): one *)
(* WebSocket per discovered worker port, the registry of worker            *)
(* identities, the port-to-tab binding that aims tool requests, the        *)
(* waiters for skills replies, and the timers that reconnect.              *)
(*                                                                         *)
(* A socket object is <<port, slot>>: a port may have, besides the socket  *)
(* that the sockets map holds, older ones whose close event has not fired. *)
(* "UNUSED" is an object that does not exist (any more).  Each handler is  *)
(* one action: JavaScript runs a handler to completion.                    *)
(***************************************************************************)
EXTENDS SessionRouting

CONSTANTS
  Slots,        \* bound: socket objects of one port that exist at once
  Workers,      \* xcsh worker processes (external)
  Panels,       \* side panel Port objects
  DiscoveryPorts,  \* portCandidates: the range that is scanned
  DefaultPort,  \* DEFAULT_BRIDGE_PORT
  NoSlot, NoWorker

ASSUME LinkAssumption ==
  /\ NoSlot \notin Slots
  /\ NoWorker \notin Workers
  /\ DiscoveryPorts \subseteq Ports
  /\ DefaultPort \in DiscoveryPorts

ASSUME SlotsAssumption == Slots # {}

\* Ages count intervals of LINK_STALE_MS: 45 s and 90 s.
LinkStale == 1
BridgeStale == 2
Older(age) == IF age < BridgeStale THEN age + 1 ELSE age

Conns == Ports \X Slots

VARIABLES
  ready,        \* readyState of each socket object
  opened,       \* connectPort's local: did this attempt ever open
  peer,         \* the worker at the other end (NoWorker: none, or gone)
  sockets,      \* sockets: the current socket of each port
  registry,     \* registry: identity per port
  portToTab,    \* portToTab: the tab a port's tool requests drive
  correlating,  \* chrome.tabs.get calls of correlatePortToTab in progress
  knownPorts,   \* knownPorts: eligible for fast reconnect
  reconnect,    \* fastReconnectTimers: ports with an armed timer
  waiters,      \* skillsWaiters: panels waiting per port
  linkAge,      \* age of lastActivityTs, which is global to all sockets
  pinned,       \* manualPortPinned and bridgePort (NoPort: not pinned)
  storedPort,   \* bridgePort in chrome.storage.local
  storageRead,  \* has the start-up read of it completed
  openTabs,     \* tabs that exist (Chrome)
  tracked,      \* tabSessionKeys: tabs known to show a tenant console
  listen,       \* the port each worker listens on (external)
  ident,        \* the identity each worker would advertise (external)
  asked,        \* list_skills requests a socket's worker has yet to answer
  owed          \* sockets on which an identity frame is still to arrive

link == <<ready, opened, peer, sockets>>
tables == <<registry, portToTab, correlating, waiters>>
timing == <<knownPorts, reconnect, linkAge>>
pinning == <<pinned, storedPort, storageRead>>
world == <<openTabs, tracked, listen, ident>>
frames == <<asked, owed>>
vars == <<link, tables, timing, pinning, world, frames>>

LiveStates == {"CONNECTING", "OPEN"}
States == LiveStates \cup {"CLOSING", "UNUSED"}

TypeOK ==
  /\ ready \in [Conns -> States]
  /\ opened \in [Conns -> BOOLEAN]
  /\ peer \in [Conns -> Workers \cup {NoWorker}]
  /\ sockets \in [Ports -> Slots \cup {NoSlot}]
  /\ registry \in Registries
  /\ portToTab \in [Ports -> Tabs \cup {NoTab}]
  /\ correlating \subseteq Ports \X Tabs
  /\ knownPorts \subseteq Ports
  /\ reconnect \subseteq Ports
  /\ waiters \in [Ports -> SUBSET Panels]
  /\ linkAge \in 0..BridgeStale
  /\ pinned \in Ports \cup {NoPort}
  /\ storedPort \in Ports \cup {NoPort}
  /\ storageRead \in BOOLEAN
  /\ openTabs \subseteq Tabs
  /\ tracked \subseteq openTabs
  /\ listen \in [Workers -> Ports \cup {NoPort}]
  /\ ident \in [Workers -> Identities]
  /\ asked \in [Conns -> SUBSET Panels]
  /\ owed \subseteq Conns

-----------------------------------------------------------------------------
(* Sockets *)

Current(c) == sockets[c[1]] = c[2]
IsOpen(p) == sockets[p] # NoSlot /\ ready[<<p, sockets[p]>>] = "OPEN"
OpenPorts == {p \in Ports : IsOpen(p)}
AnyOpen == OpenPorts # {}

\* The state WebSocket.close() leaves a socket in.
Closed(state) == IF state \in LiveStates THEN "CLOSING" ELSE state

HasFreeSlot(p) == \E i \in Slots : ready[<<p, i>>] = "UNUSED"
FreeSlot(p) == CHOOSE i \in Slots : ready[<<p, i>>] = "UNUSED"

\* Mutant of MayConnect: connectPort without the pinned-mode return.
MayConnectUnpinned(p, rd, sk, pin) ==
  sk[p] = NoSlot \/ rd[<<p, sk[p]>>] \notin LiveStates

\* connectPort's early returns, on socket states rd and map sk, pinned to pin.
MayConnect(p, rd, sk, pin) ==
  /\ pin \in {NoPort, p}
  /\ sk[p] = NoSlot \/ rd[<<p, sk[p]>>] \notin LiveStates

\* connectPort on every port of S, from socket states rd and map sk.
ConnectPorts(S, rd, sk, pin) ==
  LET new == {p \in S : MayConnect(p, rd, sk, pin)}
  IN  /\ \A p \in new : HasFreeSlot(p)
      /\ ready' = [c \in Conns |-> IF c[1] \in new /\ c[2] = FreeSlot(c[1])
                                   THEN "CONNECTING" ELSE rd[c]]
      /\ sockets' = [p \in Ports |-> IF p \in new THEN FreeSlot(p) ELSE sk[p]]
      /\ UNCHANGED <<opened, peer>>

\* The socket states after close() on the current socket of every port in S.
ClosedOn(S) == [c \in Conns |-> IF c[1] \in S /\ Current(c)
                                THEN Closed(ready[c]) ELSE ready[c]]

\* The sockets map without the ports in S.
Without(S) == [p \in Ports |-> IF p \in S THEN NoSlot ELSE sockets[p]]

\* scanRange, given the registry the handler has reached: prune the silent
\* ports, then connect every port that has no live socket.
ScanFrom(reg) ==
  LET stale == {p \in Registered(reg) : reg[p].age >= BridgeStale}
  IN  /\ registry' = Evict(reg, stale)
      /\ waiters' = [p \in Ports |-> IF p \in stale THEN {} ELSE waiters[p]]
      /\ ConnectPorts(DiscoveryPorts, ClosedOn(stale), Without(stale), NoPort)

\* The scan of setActiveTenant and ensureTenantSocket.  A turn or a tool in
\* flight (not idle) owns routing.
ActivateTenant(reg, k, idle) ==
  IF idle /\ k # NoKey /\ pinned = NoPort /\ PortsForTenant(reg, k) = {}
  THEN ScanFrom(reg)
  ELSE registry' = reg /\ UNCHANGED <<waiters, link>>

-----------------------------------------------------------------------------
(* Start of the service worker: it has no state and scans at once. *)

FirstSlot == CHOOSE i \in Slots : TRUE
Scanned(c) == c[1] \in DiscoveryPorts /\ c[2] = FirstSlot

Init ==
  /\ ready = [c \in Conns |-> IF Scanned(c) THEN "CONNECTING" ELSE "UNUSED"]
  /\ opened = [c \in Conns |-> FALSE]
  /\ peer = [c \in Conns |-> NoWorker]
  /\ sockets = [p \in Ports |-> IF p \in DiscoveryPorts THEN FirstSlot ELSE NoSlot]
  /\ registry = [p \in Ports |-> NoInfo]
  /\ portToTab = [p \in Ports |-> NoTab]
  /\ waiters = [p \in Ports |-> {}]
  /\ asked = [c \in Conns |-> {}] /\ owed = {}
  /\ correlating = {} /\ knownPorts = {} /\ reconnect = {} /\ linkAge = 0
  /\ pinned = NoPort /\ storedPort = NoPort /\ storageRead = FALSE
  /\ openTabs \in SUBSET Tabs /\ tracked = {}
  /\ listen = [w \in Workers |-> NoPort]
  /\ ident = [w \in Workers |-> [tab |-> NoTab, key |-> NoKey]]

\* Chrome kills and restarts the service worker, or the extension reloads.
Restart ==
  /\ ready' = [c \in Conns |-> IF Scanned(c) THEN "CONNECTING" ELSE "UNUSED"]
  /\ opened' = [c \in Conns |-> FALSE]
  /\ peer' = [c \in Conns |-> NoWorker]
  /\ sockets' = [p \in Ports |-> IF p \in DiscoveryPorts THEN FirstSlot ELSE NoSlot]
  /\ registry' = [p \in Ports |-> NoInfo]
  /\ portToTab' = [p \in Ports |-> NoTab]
  /\ waiters' = [p \in Ports |-> {}]
  /\ asked' = [c \in Conns |-> {}] /\ owed' = {}
  /\ correlating' = {} /\ knownPorts' = {} /\ reconnect' = {} /\ linkAge' = 0
  /\ pinned' = NoPort /\ storageRead' = FALSE /\ tracked' = {}
  /\ UNCHANGED <<storedPort, openTabs, listen, ident>>

\* The start-up read of the stored port: it pins unless it is the port the
\* worker already uses.  The other sockets are closed but stay in the map.
StoredPortRead ==
  /\ ~storageRead
  /\ storageRead' = TRUE
  /\ LET bridgePort == IF pinned = NoPort THEN DefaultPort ELSE pinned
     IN  IF storedPort \notin {NoPort, bridgePort}
         THEN /\ pinned' = storedPort
              /\ ConnectPorts({storedPort}, ClosedOn(Ports \ {storedPort}),
                              sockets, storedPort)
         ELSE UNCHANGED <<pinned, link>>
  /\ UNCHANGED <<tables, timing, storedPort, world, frames>>

-----------------------------------------------------------------------------
(* Timers *)

\* The 30 s alarm.
BridgeScan ==
  /\ pinned = NoPort
  /\ ScanFrom(registry)
  /\ UNCHANGED <<portToTab, correlating, timing, pinning, world, frames>>

\* The timer of scheduleFastReconnect.
FastReconnect(p) ==
  /\ p \in reconnect
  /\ reconnect' = reconnect \ {p}
  /\ ConnectPorts({p}, ready, sockets, pinned)
  /\ UNCHANGED <<tables, knownPorts, linkAge, pinning, world, frames>>

\* The heartbeat finds a socket open but no traffic on any.
Heartbeat ==
  /\ AnyOpen
  /\ linkAge >= LinkStale
  /\ ready' = ClosedOn(Ports)
  /\ UNCHANGED <<opened, peer, sockets, tables, timing, pinning, world, frames>>

\* 45 s pass without an inbound frame.
Silence ==
  /\ linkAge' = Older(linkAge)
  /\ registry' = [p \in Ports |-> IF registry[p] = NoInfo THEN NoInfo
                                  ELSE [registry[p] EXCEPT !.age = Older(@)]]
  /\ UNCHANGED <<link, portToTab, correlating, waiters, knownPorts, reconnect,
                 pinning, world, frames>>

-----------------------------------------------------------------------------
(* Socket events *)

SocketOpens(c, w) ==
  /\ ready[c] = "CONNECTING"
  /\ listen[w] = c[1]
  /\ ready' = [ready EXCEPT ![c] = "OPEN"]
  /\ opened' = [opened EXCEPT ![c] = TRUE]
  /\ peer' = [peer EXCEPT ![c] = w]
  /\ owed' = owed \cup {c}
  /\ linkAge' = 0
  /\ UNCHANGED <<sockets, tables, knownPorts, reconnect, pinning, world, asked>>

\* Mutants of AfterClose: a failed attempt keeps the port known; the pinned
\* port is not treated apart.
AfterCloseKeepsKnown(c) ==
  /\ knownPorts' = knownPorts
  /\ reconnect' = IF pinned = c[1] \/ c[1] \in knownPorts
                  THEN reconnect \cup {c[1]} ELSE reconnect

AfterCloseIgnoresPin(c) ==
  /\ knownPorts' = IF opened[c] THEN knownPorts ELSE knownPorts \ {c[1]}
  /\ reconnect' = IF c[1] \in knownPorts' THEN reconnect \cup {c[1]} ELSE reconnect

\* A pinned port always retries; another one only if this attempt opened and
\* the port once answered.
AfterClose(c) ==
  LET p == c[1]
      known == IF pinned # p /\ ~opened[c] THEN knownPorts \ {p} ELSE knownPorts
  IN  /\ knownPorts' = known
      /\ reconnect' = IF pinned = p \/ p \in known THEN reconnect \cup {p} ELSE reconnect

\* Mutant of MapAfterClose: the close event drops whatever socket the map holds.
MapAfterCloseUnguarded(c) == [sockets EXCEPT ![c[1]] = NoSlot]

\* The sockets map: onclose removes its own socket only.
MapAfterClose(c) == IF Current(c) THEN Without({c[1]}) ELSE sockets

\* Mutants of ForgetPort: onclose misses one of the tables.
ForgetPortNotRegistry(p) ==
  /\ portToTab' = [portToTab EXCEPT ![p] = NoTab]
  /\ waiters' = [waiters EXCEPT ![p] = {}]
  /\ UNCHANGED registry

ForgetPortNotBinding(p) ==
  /\ registry' = Evict(registry, {p})
  /\ waiters' = [waiters EXCEPT ![p] = {}]
  /\ UNCHANGED portToTab

ForgetPortNotWaiters(p) ==
  /\ registry' = Evict(registry, {p})
  /\ portToTab' = [portToTab EXCEPT ![p] = NoTab]
  /\ UNCHANGED waiters

\* The tables onclose clears, whichever socket of the port closed.
ForgetPort(p) ==
  /\ registry' = Evict(registry, {p})
  /\ portToTab' = [portToTab EXCEPT ![p] = NoTab]
  /\ waiters' = [waiters EXCEPT ![p] = {}]

\* onclose: after close(), when the far end is gone, or when the attempt fails.
SocketCloses(c) ==
  /\ \/ ready[c] = "CLOSING"
     \/ ready[c] \in LiveStates /\ peer[c] = NoWorker
  /\ ready' = [ready EXCEPT ![c] = "UNUSED"]
  /\ opened' = [opened EXCEPT ![c] = FALSE]
  /\ peer' = [peer EXCEPT ![c] = NoWorker]
  /\ asked' = [asked EXCEPT ![c] = {}]
  /\ owed' = owed \ {c}
  /\ sockets' = MapAfterClose(c)
  /\ ForgetPort(c[1])
  /\ AfterClose(c)
  /\ UNCHANGED <<correlating, linkAge, pinning, world>>

\* A frame arrives on c: onmessage refreshes the global and the port's age.
Receives(c) ==
  /\ ready[c] = "OPEN"
  /\ peer[c] # NoWorker
  /\ linkAge' = 0

Refreshed(p) ==
  [registry EXCEPT ![p] = IF @ = NoInfo THEN NoInfo ELSE [@ EXCEPT !.age = 0]]

\* A ping, or any other frame without an effect on these tables.
OtherFrame(c) ==
  /\ Receives(c)
  /\ registry' = Refreshed(c[1])
  /\ UNCHANGED <<link, portToTab, correlating, waiters, knownPorts, reconnect,
                 pinning, world, frames>>

\* correlatePortToTab: a tracked tab binds at once, another one is looked up.
Correlate(p, t) ==
  /\ portToTab' = IF t \in tracked THEN [portToTab EXCEPT ![p] = t] ELSE portToTab
  /\ correlating' = IF t \in Tabs \ tracked
                    THEN correlating \cup {<<p, t>>} ELSE correlating

\* hello_ack or tenant_changed, accepted.
Identity(c) ==
  /\ c \in owed
  /\ Receives(c)
  /\ owed' = owed \ {c}
  /\ LET p == c[1]
         id == ident[peer[c]]
     IN  /\ registry' = [registry EXCEPT ![p] =
                           [tab |-> id.tab, key |-> id.key, age |-> 0]]
         /\ Correlate(p, id.tab)
         /\ knownPorts' = knownPorts \cup {p}
  /\ UNCHANGED <<link, waiters, reconnect, pinning, world, asked>>

\* hello_ack rejected: incompatible contract or malformed identity.
IdentityRejected(c) ==
  /\ c \in owed
  /\ Receives(c)
  /\ owed' = owed \ {c}
  /\ LET p == c[1]
     IN  /\ ready' = ClosedOn({p})
         /\ sockets' = Without({p})
         /\ registry' = Evict(registry, {p})
         /\ knownPorts' = knownPorts \ {p}
  /\ UNCHANGED <<opened, peer, portToTab, correlating, waiters, reconnect,
                 pinning, world, asked>>

\* Mutant of StillCorrelates: the port may answer for another tab by now.
StillCorrelatesAnyWorker(p, t) == t \in openTabs /\ IsOpen(p)

\* The re-check after the asynchronous lookup: the tab exists, the socket is
\* open and the port still advertises the tab's session id.
StillCorrelates(p, t) ==
  /\ t \in openTabs
  /\ IsOpen(p)
  /\ p \in PortsForTab(registry, t)

\* chrome.tabs.get of correlatePortToTab answers.
CorrelateResolves(p, t) ==
  /\ <<p, t>> \in correlating
  /\ correlating' = correlating \ {<<p, t>>}
  /\ portToTab' = IF StillCorrelates(p, t) THEN [portToTab EXCEPT ![p] = t] ELSE portToTab
  /\ UNCHANGED <<link, registry, waiters, timing, pinning, world, frames>>

-----------------------------------------------------------------------------
(* Requests *)

\* A panel showing tab t under key k asks for the skills.
SkillsRequest(n, t, k) ==
  /\ \E p \in PlanPanelRequest(registry, OpenPorts, t, k) :
       /\ waiters' = [waiters EXCEPT ![p] = @ \cup {n}]
       /\ asked' = [asked EXCEPT ![<<p, sockets[p]>>] = @ \cup {n}]
  /\ UNCHANGED <<link, registry, portToTab, correlating, timing, pinning, world, owed>>

\* The worker answers one request; every panel waiting on the port gets it.
SkillsReply(c, n) ==
  /\ n \in asked[c]
  /\ Receives(c)
  /\ registry' = Refreshed(c[1])
  /\ waiters' = [waiters EXCEPT ![c[1]] = {}]
  /\ asked' = [asked EXCEPT ![c] = @ \ {n}]
  /\ UNCHANGED <<link, portToTab, correlating, knownPorts, reconnect, pinning, world, owed>>

PanelDisconnects(n) ==
  /\ waiters' = [p \in Ports |-> waiters[p] \ {n}]
  /\ UNCHANGED <<link, registry, portToTab, correlating, timing, pinning, world, frames>>

\* The set_bridge_port tool, run for a worker bound to a tab.
SetBridgePort(c, p) ==
  /\ ready[c] = "OPEN" /\ peer[c] # NoWorker
  /\ PlanToolRequest(portToTab, c[1]) # NoTab
  /\ pinned' = p
  /\ storedPort' = p
  /\ registry' = Evict(registry, {q \in Ports \ {p} : sockets[q] # NoSlot})
  /\ ConnectPorts({p}, ClosedOn(Ports \ {p}), Without(Ports \ {p}), p)
  /\ UNCHANGED <<portToTab, correlating, waiters, timing, storageRead, world, frames>>

-----------------------------------------------------------------------------
(* Tab events *)

TrackKey(t, k) == tracked' = IF k = NoKey THEN tracked \ {t} ELSE tracked \cup {t}

\* portToTab after clearPortForTab.
Unbound(t) == [p \in Ports |-> IF portToTab[p] = t THEN NoTab ELSE portToTab[p]]

TabOpens(t) ==
  /\ openTabs' = openTabs \cup {t}
  /\ UNCHANGED <<link, tables, timing, pinning, tracked, listen, ident, frames>>

TabActivated(t, k, idle) ==
  /\ t \in openTabs
  /\ TrackKey(t, k)
  /\ ActivateTenant(registry, k, idle)
  /\ UNCHANGED <<portToTab, correlating, timing, pinning, openTabs, listen, ident, frames>>

\* The URL of t changed to one of key k: evict the workers of another tenant.
TabNavigated(t, k, idle) ==
  /\ t \in openTabs
  /\ LET evict == IF pinned = NoPort THEN PlanReTenant(registry, t, k) ELSE {}
     IN  /\ portToTab' = IF evict # {} THEN Unbound(t) ELSE portToTab
         /\ ActivateTenant(Evict(registry, evict), k, idle)
  /\ TrackKey(t, k)
  /\ UNCHANGED <<correlating, timing, pinning, openTabs, listen, ident, frames>>

\* Mutant of TabRemoved: onRemoved keeps the tab's tabSessionKeys entry.
TabRemovedStillTracked(t) ==
  /\ t \in openTabs
  /\ openTabs' = openTabs \ {t}
  /\ portToTab' = Unbound(t)
  /\ UNCHANGED <<link, registry, correlating, waiters, timing, pinning, tracked,
                 listen, ident, frames>>

TabRemoved(t) ==
  /\ t \in openTabs
  /\ openTabs' = openTabs \ {t}
  /\ tracked' = tracked \ {t}
  /\ portToTab' = Unbound(t)
  /\ UNCHANGED <<link, registry, correlating, waiters, timing, pinning, listen, ident, frames>>

-----------------------------------------------------------------------------
(* Workers: external processes on the port pool *)

WorkerStarts(w, p, id) ==
  /\ listen[w] = NoPort
  /\ \A v \in Workers : listen[v] # p
  /\ listen' = [listen EXCEPT ![w] = p]
  /\ ident' = [ident EXCEPT ![w] = id]
  /\ UNCHANGED <<link, tables, timing, pinning, openTabs, tracked, frames>>

\* The process exits: the far end of its sockets is gone.
WorkerStops(w) ==
  /\ listen[w] # NoPort
  /\ listen' = [listen EXCEPT ![w] = NoPort]
  /\ ident' = [ident EXCEPT ![w] = [tab |-> NoTab, key |-> NoKey]]
  /\ peer' = [c \in Conns |-> IF peer[c] = w THEN NoWorker ELSE peer[c]]
  /\ UNCHANGED <<ready, opened, sockets, tables, timing, pinning, openTabs, tracked, frames>>

\* The worker changes its stored context; tenant_changed will follow.
WorkerChangesTenant(w, k) ==
  /\ listen[w] # NoPort
  /\ ident' = [ident EXCEPT ![w].key = k]
  /\ owed' = owed \cup {c \in Conns : peer[c] = w}
  /\ UNCHANGED <<link, tables, timing, pinning, openTabs, tracked, listen, asked>>

WorkerDrops(c) ==
  /\ ready[c] = "OPEN" /\ peer[c] # NoWorker
  /\ peer' = [peer EXCEPT ![c] = NoWorker]
  /\ UNCHANGED <<ready, opened, sockets, tables, timing, pinning, world, frames>>

-----------------------------------------------------------------------------
KeysOrNone == Keys \cup {NoKey}

Next ==
  \/ Restart \/ StoredPortRead
  \/ BridgeScan \/ Heartbeat \/ Silence
  \/ \E p \in Ports : FastReconnect(p)
  \/ \E c \in Conns, w \in Workers : SocketOpens(c, w)
  \/ \E c \in Conns : SocketCloses(c)
  \/ \E c \in Conns : OtherFrame(c)
  \/ \E c \in Conns : Identity(c)
  \/ \E c \in Conns : IdentityRejected(c)
  \/ \E p \in Ports, t \in Tabs : CorrelateResolves(p, t)
  \/ \E n \in Panels, t \in Tabs, k \in Keys : SkillsRequest(n, t, k)
  \/ \E c \in Conns, n \in Panels : SkillsReply(c, n)
  \/ \E n \in Panels : PanelDisconnects(n)
  \/ \E c \in Conns, p \in Ports : SetBridgePort(c, p)
  \/ \E t \in Tabs : TabOpens(t)
  \/ \E t \in Tabs, k \in KeysOrNone, idle \in BOOLEAN : TabActivated(t, k, idle)
  \/ \E t \in Tabs, k \in KeysOrNone, idle \in BOOLEAN : TabNavigated(t, k, idle)
  \/ \E t \in Tabs : TabRemoved(t)
  \/ \E w \in Workers, p \in Ports, id \in Identities : WorkerStarts(w, p, id)
  \/ \E w \in Workers : WorkerStops(w)
  \/ \E w \in Workers, k \in KeysOrNone : WorkerChangesTenant(w, k)
  \/ \E c \in Conns : WorkerDrops(c)

Spec == Init /\ [][Next]_vars

\* Fairness.  Chrome runs armed timers and alarms, finishes every close and
\* settles tabs.get; a listening worker accepts a connection it is offered
\* again and again (an attempt may fail while it is busy, hence SF), and it
\* answers the hello of every socket it accepted.
Fairness ==
  /\ WF_vars(BridgeScan)
  /\ \A p \in Ports : WF_vars(FastReconnect(p))
  /\ \A c \in Conns : WF_vars(SocketCloses(c))
  /\ \A p \in Ports : SF_vars(\E i \in Slots, w \in Workers : SocketOpens(<<p, i>>, w))
  /\ \A c \in Conns : WF_vars(Identity(c))

FairSpec == Spec /\ Fairness

-----------------------------------------------------------------------------
(* Safety *)

\* connectPort keeps one WebSocket per port: every socket object still
\* connecting or open is the one in the sockets map, so none is ever leaked
\* where sendTo, the heartbeat and the scan cannot reach it.
LiveSocketIsTracked ==
  \A c \in Conns : ready[c] \in LiveStates => Current(c)

\* A port whose sockets have all closed leaves nothing behind for the next
\* worker of the port pool: no identity, no tab binding, no skills waiter.
NothingOutlivesThePort ==
  \A p \in Ports : (\A i \in Slots : ready[<<p, i>>] = "UNUSED") =>
    registry[p] = NoInfo /\ portToTab[p] = NoTab /\ waiters[p] = {}

\* An older socket of the port is still closing.
Overlap(p) == \E i \in Slots : i # sockets[p] /\ ready[<<p, i>>] # "UNUSED"

\* The worker that answers on port p, if the far end is still there.
WorkerOn(p) == IF IsOpen(p) THEN peer[<<p, sockets[p]>>] ELSE NoWorker

\* Whatever tab and key a panel sends, its turn goes to a worker that runs for
\* that tab (planChatRequest), unless an older socket of the port is closing.
RoutedTurnReachesOwnWorker ==
  \A t \in Tabs, k \in Keys : \A p \in PlanPanelRequest(registry, OpenPorts, t, k) :
    Overlap(p) \/ WorkerOn(p) = NoWorker \/ ident[WorkerOn(p)].tab = t

\* A tool request drives the tab of the worker that sent it or is refused
\* (planToolRequest), unless an older socket of the port is closing.
ToolDrivesOwnTab ==
  \A p \in Ports :
    \/ Overlap(p)
    \/ WorkerOn(p) = NoWorker
    \/ PlanToolRequest(portToTab, p) \in {NoTab, ident[WorkerOn(p)].tab}

\* No tool request is aimed at a tab that is gone, even when the tabs.get of
\* correlatePortToTab answers after the tab was removed.
BoundTabIsOpen == \A p \in Ports : portToTab[p] \in openTabs \cup {NoTab}

\* A skills reply is delivered only to panels that asked the worker sending it
\* (the port-reuse hazard), unless an older socket of the port is closing.
SkillsReachAskers ==
  \A p \in Ports :
    Overlap(p) \/ ~IsOpen(p) \/ waiters[p] \subseteq asked[<<p, sockets[p]>>]

\* The inductive invariant behind the four properties above, per port.
Cleared(p) == registry[p] = NoInfo /\ portToTab[p] = NoTab /\ waiters[p] = {}

\* Slot i holds the port's only socket object, and the map points to it.
Sole(p, i) ==
  sockets[p] = i /\ \A j \in Slots \ {i} : ready[<<p, j>>] = "UNUSED"

\* The tables say nothing but the truth about worker w.
TrueOf(p, w) ==
  /\ registry[p] = NoInfo \/ registry[p].tab = ident[w].tab
  /\ portToTab[p] \in {NoTab, ident[w].tab}

SlotInv(p, i) ==
  LET c == <<p, i>>
  IN  /\ ready[c] \in LiveStates => sockets[p] = i
      /\ peer[c] # NoWorker => ready[c] \in {"OPEN", "CLOSING"} /\ listen[peer[c]] # NoPort
      /\ Sole(p, i) /\ ready[c] = "CONNECTING" => Cleared(p)
      /\ Sole(p, i) /\ ready[c] = "OPEN" =>
           /\ waiters[p] \subseteq asked[c]
           /\ peer[c] # NoWorker => TrueOf(p, peer[c])

PortInv(p) ==
  /\ sockets[p] # NoSlot => ready[<<p, sockets[p]>>] # "UNUSED"
  /\ \A i \in Slots : SlotInv(p, i)
  /\ (\A i \in Slots : ready[<<p, i>>] = "UNUSED") => Cleared(p)

\* Every port satisfies it: while a port has one socket object, its tables
\* describe that socket's worker, and a socket that has not opened has none.
LinkInv == \A p \in Ports : PortInv(p)

\* Once pinned, no socket is opened on another port, and the pin changes only
\* by the tool or by a restart.
PinnedPortOnly ==
  [][pinned # NoPort =>
       \A c \in Conns : ready[c] = "UNUSED" /\ ready'[c] = "CONNECTING" =>
         c[1] = pinned' \/ pinned' = NoPort]_vars

-----------------------------------------------------------------------------
(* Liveness *)

\* A port on which no worker listens any more stops being retried every 1.5 s
\* (it is left to the 30 s scan), unless it is pinned.
ReconnectStormEnds ==
  \A p \in Ports :
    <>[](pinned # p /\ \A w \in Workers : listen[w] # p) => <>[](p \notin reconnect)

\* A worker that keeps listening is connected again and again, whatever closes
\* its socket, in the pinned mode too.
ListeningWorkerIsConnected ==
  \A p \in Ports :
    <>[](pinned \in {NoPort, p} /\ \E w \in Workers : listen[w] = p) => []<>IsOpen(p)
=============================================================================
