------------------------- MODULE BridgeLink_proofs -------------------------
(***************************************************************************)
(* Theorems about BridgeLink for every set of ports, slots, workers, tabs,  *)
(* keys and panels.                                                         *)
(***************************************************************************)
EXTENDS BridgeLink, TLAPS

-----------------------------------------------------------------------------
(* Helpers *)

\* The slot connectPort takes is one whose socket object does not exist.
LEMMA FreeSlotIsFree ==
  ASSUME NEW p \in Ports, HasFreeSlot(p)
  PROVE  FreeSlot(p) \in Slots /\ ready[<<p, FreeSlot(p)>>] = "UNUSED"
BY DEF HasFreeSlot, FreeSlot

\* Closing sockets or dropping map entries keeps the types.
LEMMA ClosedOnType ==
  ASSUME TypeOK, NEW S
  PROVE  /\ ClosedOn(S) \in [Conns -> States]
         /\ Without(S) \in [Ports -> Slots \cup {NoSlot}]
BY DEF TypeOK, ClosedOn, Without, Closed, States, LiveStates

\* Evicting ports keeps a registry a registry.
LEMMA EvictType ==
  ASSUME NEW reg \in Registries, NEW S
  PROVE  Evict(reg, S) \in Registries
BY DEF Registries, Evict

\* connectPort keeps the types.
LEMMA ConnectType ==
  ASSUME TypeOK, NEW S, NEW rd \in [Conns -> States],
         NEW sk \in [Ports -> Slots \cup {NoSlot}], NEW pin,
         ConnectPorts(S, rd, sk, pin)
  PROVE  /\ ready' \in [Conns -> States]
         /\ sockets' \in [Ports -> Slots \cup {NoSlot}]
         /\ opened' = opened
         /\ peer' = peer
<1> DEFINE new == {p \in S : MayConnect(p, rd, sk, pin)}
<1>1. ready' = [c \in Conns |-> IF c[1] \in new /\ c[2] = FreeSlot(c[1])
                                THEN "CONNECTING" ELSE rd[c]]
  BY DEF ConnectPorts
<1>2. sockets' = [p \in Ports |-> IF p \in new THEN FreeSlot(p) ELSE sk[p]]
  BY DEF ConnectPorts
<1>3. ASSUME NEW p \in Ports, p \in new PROVE FreeSlot(p) \in Slots
  BY <1>3, FreeSlotIsFree DEF ConnectPorts
<1>4. ready' \in [Conns -> States]
  BY <1>1 DEF States, LiveStates
<1>5. sockets' \in [Ports -> Slots \cup {NoSlot}]
  BY <1>2, <1>3
<1>6. QED BY <1>4, <1>5 DEF ConnectPorts

\* scanRange keeps the types.
LEMMA ScanType ==
  ASSUME TypeOK, NEW reg \in Registries, ScanFrom(reg)
  PROVE  /\ ready' \in [Conns -> States]
         /\ sockets' \in [Ports -> Slots \cup {NoSlot}]
         /\ registry' \in Registries
         /\ waiters' \in [Ports -> SUBSET Panels]
         /\ opened' = opened /\ peer' = peer
<1> DEFINE stale == {p \in Registered(reg) : reg[p].age >= BridgeStale}
<1>1. ConnectPorts(DiscoveryPorts, ClosedOn(stale), Without(stale), NoPort)
  BY DEF ScanFrom
<1>2. registry' = Evict(reg, stale)
  BY DEF ScanFrom
<1>3. waiters' \in [Ports -> SUBSET Panels]
  BY DEF ScanFrom, TypeOK
<1> HIDE DEF stale
<1>4. QED BY <1>1, <1>2, <1>3, ConnectType, ClosedOnType, EvictType

\* So does a tab activation, with or without a scan.
LEMMA ActivateType ==
  ASSUME TypeOK, NEW reg \in Registries, NEW k, NEW idle, ActivateTenant(reg, k, idle)
  PROVE  /\ ready' \in [Conns -> States]
         /\ sockets' \in [Ports -> Slots \cup {NoSlot}]
         /\ registry' \in Registries
         /\ waiters' \in [Ports -> SUBSET Panels]
         /\ opened' = opened /\ peer' = peer
<1>1. CASE ScanFrom(reg) BY <1>1, ScanType
<1>2. CASE registry' = reg /\ UNCHANGED <<waiters, link>>
  BY <1>2 DEF TypeOK, link
<1>3. QED BY <1>1, <1>2 DEF ActivateTenant

-----------------------------------------------------------------------------
(* Type correctness *)

LEMMA InitType == Init => TypeOK
<1> SUFFICES ASSUME Init PROVE TypeOK OBVIOUS
<1>1. FirstSlot \in Slots BY SlotsAssumption DEF FirstSlot
<1>2. registry \in Registries BY DEF Init, Registries
<1>3. ident \in [Workers -> Identities] BY DEF Init, Identities
<1>4. ready \in [Conns -> States] BY DEF Init, States, LiveStates
<1>5. {} \in SUBSET Panels OBVIOUS
<1>6. waiters \in [Ports -> SUBSET Panels] /\ asked \in [Conns -> SUBSET Panels]
  BY <1>5 DEF Init
<1>7. sockets \in [Ports -> Slots \cup {NoSlot}] BY <1>1 DEF Init
<1>8. /\ opened \in [Conns -> BOOLEAN]
      /\ peer \in [Conns -> Workers \cup {NoWorker}]
      /\ portToTab \in [Ports -> Tabs \cup {NoTab}]
      /\ listen \in [Workers -> Ports \cup {NoPort}]
  BY DEF Init
<1>9. /\ correlating \subseteq Ports \X Tabs
      /\ knownPorts \subseteq Ports /\ reconnect \subseteq Ports
      /\ openTabs \subseteq Tabs /\ tracked \subseteq openTabs
      /\ owed \subseteq Conns
  BY DEF Init
<1>10. linkAge \in 0..BridgeStale BY DEF Init, BridgeStale
<1>11. QED BY <1>2, <1>3, <1>4, <1>6, <1>7, <1>8, <1>9, <1>10 DEF Init, TypeOK

LEMMA RefreshedType ==
  ASSUME TypeOK, NEW p \in Ports
  PROVE  Refreshed(p) \in Registries
BY DEF TypeOK, Refreshed, Registries, BridgeInfos

LEMMA StepType == TypeOK /\ [Next]_vars => TypeOK'
<1> SUFFICES ASSUME TypeOK, [Next]_vars PROVE TypeOK' OBVIOUS
<1> USE DEF frames, link, tables, timing, pinning, world
<1>1. CASE Restart
  <2>1. FirstSlot \in Slots BY SlotsAssumption DEF FirstSlot
  <2>2. registry' \in Registries BY <1>1 DEF Restart, Registries
  <2>3. ready' \in [Conns -> States] BY <1>1 DEF Restart, States, LiveStates
  <2>4. {} \in SUBSET Panels OBVIOUS
  <2>5. waiters' \in [Ports -> SUBSET Panels] /\ asked' \in [Conns -> SUBSET Panels]
    BY <1>1, <2>4 DEF Restart
  <2>6. sockets' \in [Ports -> Slots \cup {NoSlot}] BY <1>1, <2>1 DEF Restart
  <2>7. /\ opened' \in [Conns -> BOOLEAN]
        /\ peer' \in [Conns -> Workers \cup {NoWorker}]
        /\ portToTab' \in [Ports -> Tabs \cup {NoTab}]
    BY <1>1 DEF Restart
  <2>8. /\ correlating' \subseteq Ports \X Tabs
        /\ knownPorts' \subseteq Ports /\ reconnect' \subseteq Ports
        /\ tracked' \subseteq openTabs' /\ owed' \subseteq Conns
    BY <1>1 DEF Restart
  <2>9. linkAge' \in 0..BridgeStale BY <1>1 DEF Restart, BridgeStale
  <2>10. QED BY <1>1, <2>2, <2>3, <2>5, <2>6, <2>7, <2>8, <2>9 DEF Restart, TypeOK
<1>2. CASE StoredPortRead
  <2>1. /\ ready' \in [Conns -> States]
        /\ sockets' \in [Ports -> Slots \cup {NoSlot}]
        /\ opened' = opened /\ peer' = peer
    <3>1. CASE ConnectPorts({storedPort}, ClosedOn(Ports \ {storedPort}), sockets, storedPort)
      <4>1. sockets \in [Ports -> Slots \cup {NoSlot}] BY DEF TypeOK
      <4>2. QED BY <3>1, <4>1, ClosedOnType, ConnectType
    <3>2. CASE UNCHANGED link BY <3>2 DEF TypeOK
    <3>3. QED BY <1>2, <3>1, <3>2 DEF StoredPortRead
  <2>2. pinned' \in Ports \cup {NoPort} BY <1>2 DEF StoredPortRead, TypeOK
  <2>3. UNCHANGED <<tables, timing, storedPort, world, frames>> /\ storageRead' = TRUE
    BY <1>2 DEF StoredPortRead
  <2>4. QED BY <2>1, <2>2, <2>3 DEF TypeOK
<1>3. CASE BridgeScan
  <2>1. registry \in Registries BY DEF TypeOK
  <2>2. ScanFrom(registry) BY <1>3 DEF BridgeScan
  <2>3. QED BY <1>3, <2>1, <2>2, ScanType DEF BridgeScan, TypeOK
<1>4. CASE Heartbeat
  BY <1>4, ClosedOnType DEF Heartbeat, TypeOK
<1>5. CASE Silence
  <2>1. registry' \in Registries
    BY <1>5 DEF Silence, TypeOK, Registries, BridgeInfos, Older, BridgeStale
  <2>2. linkAge' \in 0..BridgeStale
    BY <1>5 DEF Silence, TypeOK, Older, BridgeStale
  <2>3. QED BY <1>5, <2>1, <2>2 DEF Silence, TypeOK
<1>6. ASSUME NEW p \in Ports, FastReconnect(p) PROVE TypeOK'
  <2>1. ready \in [Conns -> States] /\ sockets \in [Ports -> Slots \cup {NoSlot}]
    BY DEF TypeOK
  <2>2. ConnectPorts({p}, ready, sockets, pinned) BY <1>6 DEF FastReconnect
  <2>3. QED BY <1>6, <2>1, <2>2, ConnectType DEF FastReconnect, TypeOK
<1>7. ASSUME NEW c \in Conns, NEW w \in Workers, SocketOpens(c, w) PROVE TypeOK'
  BY <1>7 DEF SocketOpens, TypeOK, States, LiveStates, BridgeStale
<1>8. ASSUME NEW c \in Conns, SocketCloses(c) PROVE TypeOK'
  <2>1. c[1] \in Ports BY DEF Conns
  <2>2. registry' \in Registries
    BY <1>8, EvictType DEF SocketCloses, ForgetPort, TypeOK
  <2>3. sockets' \in [Ports -> Slots \cup {NoSlot}]
    BY <1>8, ClosedOnType DEF SocketCloses, MapAfterClose, TypeOK
  <2>4. knownPorts' \subseteq Ports /\ reconnect' \subseteq Ports
    BY <1>8, <2>1 DEF SocketCloses, AfterClose, TypeOK
  <2>5. QED BY <1>8, <2>1, <2>2, <2>3, <2>4
        DEF SocketCloses, ForgetPort, TypeOK, States
<1>9. ASSUME NEW c \in Conns, OtherFrame(c) PROVE TypeOK'
  <2>1. registry' \in Registries
    BY <1>9, RefreshedType DEF OtherFrame, Conns
  <2>2. QED BY <1>9, <2>1 DEF OtherFrame, Receives, TypeOK, BridgeStale
<1>10. ASSUME NEW c \in Conns, Identity(c) PROVE TypeOK'
  <2> DEFINE id == ident[peer[c]]
  <2>1. c[1] \in Ports BY DEF Conns
  <2>2. id \in Identities BY <1>10 DEF Identity, Receives, TypeOK
  <2>3. registry' \in Registries
    BY <1>10, <2>1, <2>2 DEF Identity, TypeOK, Registries, BridgeInfos, Identities
  <2>4. portToTab' \in [Ports -> Tabs \cup {NoTab}] /\ correlating' \subseteq Ports \X Tabs
    BY <1>10, <2>1, <2>2 DEF Identity, Correlate, TypeOK
  <2>5. QED BY <1>10, <2>1, <2>3, <2>4 DEF Identity, Receives, TypeOK, BridgeStale
<1>11. ASSUME NEW c \in Conns, IdentityRejected(c) PROVE TypeOK'
  <2>1. c[1] \in Ports BY DEF Conns
  <2>2. registry' \in Registries BY <1>11, EvictType DEF IdentityRejected, TypeOK
  <2>3. QED BY <1>11, <2>1, <2>2, ClosedOnType
        DEF IdentityRejected, Receives, TypeOK, BridgeStale
<1>12. ASSUME NEW p \in Ports, NEW t \in Tabs, CorrelateResolves(p, t) PROVE TypeOK'
  BY <1>12 DEF CorrelateResolves, TypeOK
<1>13. ASSUME NEW n \in Panels, NEW t \in Tabs, NEW k \in Keys, SkillsRequest(n, t, k)
       PROVE  TypeOK'
  <2>1. PICK p \in Ports :
          /\ waiters' = [waiters EXCEPT ![p] = @ \cup {n}]
          /\ asked' = [asked EXCEPT ![<<p, sockets[p]>>] = @ \cup {n}]
    BY <1>13 DEF SkillsRequest, PlanPanelRequest, ResolveChatPort, PortsForTab, Registered
  <2>2. waiters' \in [Ports -> SUBSET Panels]
    BY <2>1 DEF TypeOK
  <2>3. asked' \in [Conns -> SUBSET Panels]
    BY <2>1 DEF TypeOK
  <2>4. QED BY <1>13, <2>2, <2>3 DEF SkillsRequest, TypeOK
<1>14. ASSUME NEW c \in Conns, NEW n \in Panels, SkillsReply(c, n) PROVE TypeOK'
  <2>1. registry' \in Registries
    BY <1>14, RefreshedType DEF SkillsReply, Conns
  <2>2. waiters' \in [Ports -> SUBSET Panels]
    <3>1. {} \in SUBSET Panels OBVIOUS
    <3>2. QED BY <1>14, <3>1 DEF SkillsReply, TypeOK
  <2>3. asked' \in [Conns -> SUBSET Panels]
    BY <1>14 DEF SkillsReply, TypeOK
  <2>4. QED BY <1>14, <2>1, <2>2, <2>3 DEF SkillsReply, Receives, TypeOK, BridgeStale
<1>15. ASSUME NEW n \in Panels, PanelDisconnects(n) PROVE TypeOK'
  BY <1>15 DEF PanelDisconnects, TypeOK
<1>16. ASSUME NEW c \in Conns, NEW p \in Ports, SetBridgePort(c, p) PROVE TypeOK'
  <2>1. registry' \in Registries
    BY <1>16, EvictType DEF SetBridgePort, TypeOK
  <2>2. /\ ready' \in [Conns -> States]
        /\ sockets' \in [Ports -> Slots \cup {NoSlot}]
        /\ opened' = opened /\ peer' = peer
    BY <1>16, ClosedOnType, ConnectType DEF SetBridgePort
  <2>3. QED BY <1>16, <2>1, <2>2 DEF SetBridgePort, TypeOK
<1>17. ASSUME NEW t \in Tabs, TabOpens(t) PROVE TypeOK'
  BY <1>17 DEF TabOpens, TypeOK
<1>18. ASSUME NEW t \in Tabs, NEW k \in KeysOrNone, NEW idle \in BOOLEAN, TabActivated(t, k, idle)
       PROVE  TypeOK'
  <2>1. registry \in Registries BY DEF TypeOK
  <2>2. ActivateTenant(registry, k, idle) BY <1>18 DEF TabActivated
  <2>3. QED BY <1>18, <2>1, <2>2, ActivateType DEF TabActivated, TrackKey, TypeOK
<1>19. ASSUME NEW t \in Tabs, NEW k \in KeysOrNone, NEW idle \in BOOLEAN, TabNavigated(t, k, idle)
       PROVE  TypeOK'
  <2> DEFINE evict == IF pinned = NoPort THEN PlanReTenant(registry, t, k) ELSE {}
  <2>1. Evict(registry, evict) \in Registries BY EvictType DEF TypeOK
  <2>2. ActivateTenant(Evict(registry, evict), k, idle) BY <1>19 DEF TabNavigated
  <2>3. portToTab' \in [Ports -> Tabs \cup {NoTab}]
    BY <1>19 DEF TabNavigated, Unbound, TypeOK
  <2> HIDE DEF evict
  <2>4. QED BY <1>19, <2>1, <2>2, <2>3, ActivateType DEF TabNavigated, TrackKey, TypeOK
<1>20. ASSUME NEW t \in Tabs, TabRemoved(t) PROVE TypeOK'
  BY <1>20 DEF TabRemoved, Unbound, TypeOK
<1>21. ASSUME NEW w \in Workers, NEW p \in Ports, NEW id \in Identities, WorkerStarts(w, p, id)
       PROVE  TypeOK'
  BY <1>21 DEF WorkerStarts, TypeOK
<1>22. ASSUME NEW w \in Workers, WorkerStops(w) PROVE TypeOK'
  <2>1. ident' \in [Workers -> Identities]
    BY <1>22 DEF WorkerStops, TypeOK, Identities
  <2>2. QED BY <1>22, <2>1 DEF WorkerStops, TypeOK
<1>23. ASSUME NEW w \in Workers, NEW k \in KeysOrNone, WorkerChangesTenant(w, k) PROVE TypeOK'
  <2>1. ident' \in [Workers -> Identities]
    BY <1>23 DEF WorkerChangesTenant, TypeOK, Identities, KeysOrNone
  <2>2. QED BY <1>23, <2>1 DEF WorkerChangesTenant, TypeOK
<1>24. ASSUME NEW c \in Conns, WorkerDrops(c) PROVE TypeOK'
  BY <1>24 DEF WorkerDrops, TypeOK
<1>25. CASE UNCHANGED vars BY <1>25 DEF vars, TypeOK
<1>26. QED
  BY <1>1, <1>2, <1>3, <1>4, <1>5, <1>6, <1>7, <1>8, <1>9, <1>10, <1>11, <1>12, <1>13,
     <1>14, <1>15, <1>16, <1>17, <1>18, <1>19, <1>20, <1>21, <1>22, <1>23, <1>24, <1>25
  DEF Next

\* Type correctness: every table of the service worker holds what it should.
THEOREM TypeCorrect == Spec => []TypeOK
<1>1. QED BY InitType, StepType, PTL DEF Spec

-----------------------------------------------------------------------------
(* The inductive invariant LinkInv *)

LEMMA InitLink == Init => LinkInv
<1> SUFFICES ASSUME Init, NEW p \in Ports PROVE PortInv(p) BY DEF LinkInv
<1>1. FirstSlot \in Slots BY SlotsAssumption DEF FirstSlot
<1>2. Cleared(p) BY DEF Init, Cleared
<1>3. \A i \in Slots : /\ ready[<<p, i>>] = IF p \in DiscoveryPorts /\ i = FirstSlot
                                            THEN "CONNECTING" ELSE "UNUSED"
                       /\ peer[<<p, i>>] = NoWorker
  BY DEF Init, Conns, Scanned
<1>4. sockets[p] = IF p \in DiscoveryPorts THEN FirstSlot ELSE NoSlot BY DEF Init
<1>5. QED BY <1>1, <1>2, <1>3, <1>4 DEF PortInv, SlotInv, LiveStates

LEMMA RestartLink == Restart => LinkInv'
<1> SUFFICES ASSUME Restart, NEW p \in Ports PROVE PortInv(p)' BY DEF LinkInv
<1>1. FirstSlot \in Slots BY SlotsAssumption DEF FirstSlot
<1>2. Cleared(p)' BY DEF Restart, Cleared
<1>3. \A i \in Slots : /\ ready'[<<p, i>>] = IF p \in DiscoveryPorts /\ i = FirstSlot
                                            THEN "CONNECTING" ELSE "UNUSED"
                       /\ peer'[<<p, i>>] = NoWorker
  BY DEF Restart, Conns, Scanned
<1>4. sockets'[p] = IF p \in DiscoveryPorts THEN FirstSlot ELSE NoSlot BY DEF Restart
<1>5. QED BY <1>1, <1>2, <1>3, <1>4 DEF PortInv, SlotInv, LiveStates

\* What the handlers that close, prune and reconnect have in common, at port
\* p: socket states and map may only lose a live current socket, the tables
\* may only lose entries, and connectPort may then take a free slot.
Shrinks(p, rd, sk) ==
  /\ \A i \in Slots : rd[<<p, i>>] \in {ready[<<p, i>>], Closed(ready[<<p, i>>])}
  /\ sk[p] = sockets[p] \/ ( /\ sk[p] = NoSlot
                             /\ sockets[p] # NoSlot => rd[<<p, sockets[p]>>] \notin LiveStates )
  /\ registry'[p] = NoInfo \/ ( /\ registry[p] # NoInfo
                                /\ registry'[p].tab = registry[p].tab )
  /\ portToTab'[p] \in {portToTab[p], NoTab}
  /\ waiters'[p] \subseteq waiters[p]

Same == UNCHANGED <<peer, asked, listen, ident>>

\* Such a handler that opens no socket on p preserves the invariant there.
LEMMA ShrinkKeeps ==
  ASSUME TypeOK, NEW p \in Ports, PortInv(p), NEW rd, NEW sk, Shrinks(p, rd, sk), Same,
         \A i \in Slots : ready'[<<p, i>>] = rd[<<p, i>>],
         sockets'[p] = sk[p]
  PROVE  PortInv(p)'
<1>1. sockets[p] \in Slots \cup {NoSlot} BY DEF TypeOK
<1>2. \A i \in Slots : ready[<<p, i>>] \in States BY DEF TypeOK, Conns
<1>3. \A i \in Slots : \/ ready'[<<p, i>>] = ready[<<p, i>>]
                       \/ ready'[<<p, i>>] = "CLOSING" /\ ready[<<p, i>>] \in LiveStates
  BY <1>2 DEF Shrinks, Closed
<1>4. Cleared(p) => Cleared(p)'
  BY DEF Cleared, Shrinks
<1>5. ASSUME NEW i \in Slots, Sole(p, i)' PROVE Sole(p, i)
  BY <1>3, <1>5, LinkAssumption DEF Sole, Shrinks
<1>6. sockets'[p] # NoSlot => ready'[<<p, sockets'[p]>>] # "UNUSED"
  <2>1. CASE sockets'[p] = NoSlot BY <2>1
  <2>2. CASE sockets'[p] = sockets[p] /\ sockets[p] \in Slots
    BY <1>3, <2>2 DEF PortInv
  <2>3. QED BY <1>1, <2>1, <2>2 DEF Shrinks
<1>7. (\A i \in Slots : ready'[<<p, i>>] = "UNUSED") => Cleared(p)'
  BY <1>3, <1>4 DEF PortInv
<1>8. ASSUME NEW i \in Slots PROVE SlotInv(p, i)'
  <2> DEFINE c == <<p, i>>
  <2>0. SlotInv(p, i) BY DEF PortInv
  <2>1. ready'[c] \in LiveStates => sockets'[p] = i
    BY <1>3, <2>0 DEF SlotInv, Shrinks, LiveStates
  <2>2. peer'[c] # NoWorker => ready'[c] \in {"OPEN", "CLOSING"} /\ listen'[peer'[c]] # NoPort
    BY <1>3, <2>0 DEF SlotInv, Same
  <2>3. Sole(p, i)' /\ ready'[c] = "CONNECTING" => Cleared(p)'
    BY <1>3, <1>4, <1>5, <2>0 DEF SlotInv
  <2>4. Sole(p, i)' /\ ready'[c] = "OPEN" => waiters'[p] \subseteq asked'[c]
    BY <1>3, <1>5, <2>0 DEF SlotInv, Shrinks, Same
  <2>5. ASSUME Sole(p, i)', ready'[c] = "OPEN", peer'[c] # NoWorker PROVE TrueOf(p, peer[c])'
    <3>1. TrueOf(p, peer[c]) BY <1>3, <1>5, <2>0, <2>5 DEF SlotInv, Same
    <3>2. QED BY <3>1 DEF TrueOf, Shrinks, Same
  <2>6. QED BY <2>1, <2>2, <2>3, <2>4, <2>5 DEF SlotInv
<1>9. QED BY <1>6, <1>7, <1>8 DEF PortInv

\* Such a handler that then lets connectPort take a free slot of p preserves it.
LEMMA ReconnectKeeps ==
  ASSUME TypeOK, NEW p \in Ports, PortInv(p), NEW rd, NEW sk, Shrinks(p, rd, sk), Same,
         sk[p] = NoSlot \/ rd[<<p, sk[p]>>] \notin LiveStates,
         HasFreeSlot(p),
         \A i \in Slots : ready'[<<p, i>>] = IF i = FreeSlot(p) THEN "CONNECTING"
                                             ELSE rd[<<p, i>>],
         sockets'[p] = FreeSlot(p)
  PROVE  PortInv(p)'
<1>0. PICK f \in Slots : f = FreeSlot(p) BY FreeSlotIsFree
<1>1. /\ f \in Slots /\ ready[<<p, f>>] = "UNUSED"
      /\ ready'[<<p, f>>] = "CONNECTING" /\ sockets'[p] = f
      /\ \A i \in Slots \ {f} : ready'[<<p, i>>] = rd[<<p, i>>]
  BY <1>0, FreeSlotIsFree
<1>2. \A i \in Slots : ready[<<p, i>>] \in States BY DEF TypeOK, Conns
<1>3. \A i \in Slots \ {f} :
        \/ ready'[<<p, i>>] = ready[<<p, i>>]
        \/ ready'[<<p, i>>] = "CLOSING" /\ ready[<<p, i>>] \in LiveStates
  BY <1>1, <1>2 DEF Shrinks, Closed
<1>4. \A i \in Slots \ {f} : ready'[<<p, i>>] \notin LiveStates
  <2> SUFFICES ASSUME NEW i \in Slots \ {f}, ready'[<<p, i>>] \in LiveStates PROVE FALSE
    OBVIOUS
  <2>1. ready[<<p, i>>] \in LiveStates /\ rd[<<p, i>>] \in LiveStates
    BY <1>1, <1>3 DEF LiveStates
  <2>2. sockets[p] = i BY <2>1 DEF PortInv, SlotInv
  <2>3. QED BY <2>1, <2>2, LinkAssumption DEF Shrinks
<1>5. peer[<<p, f>>] = NoWorker BY <1>1 DEF PortInv, SlotInv
<1>6. ASSUME Sole(p, f)' PROVE Cleared(p)'
  <2>1. \A i \in Slots : ready[<<p, i>>] = "UNUSED"
    BY <1>1, <1>3, <1>6 DEF Sole
  <2>2. Cleared(p) BY <2>1 DEF PortInv
  <2>3. QED BY <2>2 DEF Cleared, Shrinks
<1>7. ASSUME NEW i \in Slots PROVE SlotInv(p, i)'
  <2>1. CASE i = f
    <3>1. ready'[<<p, i>>] = "CONNECTING" /\ peer'[<<p, i>>] = NoWorker /\ sockets'[p] = i
      BY <1>1, <1>5, <2>1 DEF Same
    <3>2. Sole(p, i)' => Cleared(p)' BY <1>6, <2>1
    <3>3. QED BY <3>1, <3>2 DEF SlotInv
  <2>2. CASE i # f
    <3>1. ready'[<<p, i>>] \notin LiveStates /\ SlotInv(p, i)
      BY <1>4, <2>2 DEF PortInv
    <3>2. peer'[<<p, i>>] # NoWorker =>
            ready'[<<p, i>>] \in {"OPEN", "CLOSING"} /\ listen'[peer'[<<p, i>>]] # NoPort
      BY <1>3, <2>2, <3>1 DEF SlotInv, Same
    <3>3. QED BY <3>1, <3>2 DEF SlotInv, LiveStates
  <2>3. QED BY <2>1, <2>2
<1>8. ready'[<<p, f>>] = "CONNECTING" BY <1>1
<1>9. QED BY <1>1, <1>7, <1>8 DEF PortInv

\* Together: connectPort over any set of ports.
LEMMA ConnectKeeps ==
  ASSUME TypeOK, LinkInv, NEW S, NEW rd, NEW sk, NEW pin, Same,
         ConnectPorts(S, rd, sk, pin) \/ (ready' = rd /\ sockets' = sk),
         \A p \in Ports : Shrinks(p, rd, sk)
  PROVE  LinkInv'
<1> SUFFICES ASSUME NEW p \in Ports PROVE PortInv(p)' BY DEF LinkInv
<1>1. PortInv(p) /\ Shrinks(p, rd, sk) BY DEF LinkInv
<1>2. CASE ready' = rd /\ sockets' = sk
  BY <1>1, <1>2, ShrinkKeeps
<1>3. CASE ConnectPorts(S, rd, sk, pin)
  <2> DEFINE new == {q \in S : MayConnect(q, rd, sk, pin)}
  <2>1. /\ \A q \in new : HasFreeSlot(q)
        /\ ready' = [c \in Conns |-> IF c[1] \in new /\ c[2] = FreeSlot(c[1])
                                     THEN "CONNECTING" ELSE rd[c]]
        /\ sockets' = [q \in Ports |-> IF q \in new THEN FreeSlot(q) ELSE sk[q]]
    BY <1>3 DEF ConnectPorts
  <2>2. \A i \in Slots : ready'[<<p, i>>] = IF p \in new /\ i = FreeSlot(p)
                                            THEN "CONNECTING" ELSE rd[<<p, i>>]
    BY <2>1 DEF Conns
  <2>3. CASE p \in new
    <3>1. sk[p] = NoSlot \/ rd[<<p, sk[p]>>] \notin LiveStates
      BY <2>3 DEF MayConnect
    <3> HIDE DEF new
    <3>2. HasFreeSlot(p) /\ sockets'[p] = FreeSlot(p) BY <2>1, <2>3
    <3>3. \A i \in Slots : ready'[<<p, i>>] = IF i = FreeSlot(p) THEN "CONNECTING"
                                              ELSE rd[<<p, i>>]
      BY <2>2, <2>3
    <3>4. QED BY <1>1, <3>1, <3>2, <3>3, ReconnectKeeps
  <2>4. CASE p \notin new
    <3> HIDE DEF new
    <3>1. sockets'[p] = sk[p] BY <2>1, <2>4
    <3>2. \A i \in Slots : ready'[<<p, i>>] = rd[<<p, i>>] BY <2>2, <2>4
    <3>3. QED BY <1>1, <3>1, <3>2, ShrinkKeeps
  <2>5. QED BY <2>3, <2>4
<1>4. QED BY <1>2, <1>3

\* The two ways the source and the map lose sockets before connectPort.
LEMMA ClosingShrinks ==
  ASSUME TypeOK, NEW p \in Ports, NEW D
  PROVE  /\ \A i \in Slots : ClosedOn(D)[<<p, i>>] \in
               {ready[<<p, i>>], Closed(ready[<<p, i>>])}
         /\ Without(D)[p] = sockets[p] \/
              ( /\ Without(D)[p] = NoSlot
                /\ sockets[p] # NoSlot =>
                     ClosedOn(D)[<<p, sockets[p]>>] \notin LiveStates )
<1>1. \A i \in Slots : ClosedOn(D)[<<p, i>>] =
        IF p \in D /\ sockets[p] = i THEN Closed(ready[<<p, i>>]) ELSE ready[<<p, i>>]
  BY DEF ClosedOn, Conns, Current
<1>2. sockets[p] \in Slots \cup {NoSlot} BY DEF TypeOK
<1>3. Without(D)[p] = IF p \in D THEN NoSlot ELSE sockets[p] BY DEF Without
<1>4. QED BY <1>1, <1>2, <1>3 DEF Closed, LiveStates

\* Evicting registry entries is a loss; so is pruning waiters.
LEMMA EvictShrinks ==
  ASSUME NEW reg, NEW p \in Ports, NEW S
  PROVE  Evict(reg, S)[p] \in {reg[p], NoInfo}
BY DEF Evict

\* scanRange, from a registry that has lost entries at most.
LEMMA ScanKeeps ==
  ASSUME TypeOK, LinkInv, NEW reg, ScanFrom(reg),
         \A p \in Ports : reg[p] \in {registry[p], NoInfo},
         \A p \in Ports : portToTab'[p] \in {portToTab[p], NoTab},
         UNCHANGED <<asked, listen, ident>>
  PROVE  LinkInv'
<1> DEFINE stale == {p \in Registered(reg) : reg[p].age >= BridgeStale}
<1>1. /\ registry' = Evict(reg, stale)
      /\ waiters' = [p \in Ports |-> IF p \in stale THEN {} ELSE waiters[p]]
      /\ ConnectPorts(DiscoveryPorts, ClosedOn(stale), Without(stale), NoPort)
  BY DEF ScanFrom
<1> HIDE DEF stale
<1>2. ASSUME NEW p \in Ports PROVE Shrinks(p, ClosedOn(stale), Without(stale))
  <2>1. registry'[p] \in {registry[p], NoInfo} BY <1>1, EvictShrinks
  <2>2. waiters'[p] \subseteq waiters[p] BY <1>1
  <2>3. QED BY <2>1, <2>2, ClosingShrinks DEF Shrinks
<1>3. Same BY <1>1 DEF ConnectPorts, Same
<1>4. QED BY <1>1, <1>2, <1>3, ConnectKeeps

\* A tab activation or navigation: evict, unbind, and perhaps scan.
LEMMA ActivateKeeps ==
  ASSUME TypeOK, LinkInv, NEW reg, NEW k, NEW idle, ActivateTenant(reg, k, idle),
         \A p \in Ports : reg[p] \in {registry[p], NoInfo},
         \A p \in Ports : portToTab'[p] \in {portToTab[p], NoTab},
         UNCHANGED <<asked, listen, ident>>
  PROVE  LinkInv'
<1>1. CASE ScanFrom(reg) BY <1>1, ScanKeeps
<1>2. CASE registry' = reg /\ UNCHANGED <<waiters, link>>
  <2>1. ready' = ready /\ sockets' = sockets /\ Same BY <1>2 DEF link, Same
  <2>2. \A p \in Ports : Shrinks(p, ready, sockets) BY <1>2 DEF Shrinks
  <2>3. QED BY <2>1, <2>2, ConnectKeeps
<1>3. QED BY <1>1, <1>2 DEF ActivateTenant

\* A handler that touches no socket and at most loses table entries.
LEMMA QuietKeeps ==
  ASSUME TypeOK, LinkInv, UNCHANGED <<ready, sockets>>, Same,
         \A p \in Ports :
           /\ registry'[p] = NoInfo \/ ( /\ registry[p] # NoInfo
                                         /\ registry'[p].tab = registry[p].tab )
           /\ portToTab'[p] \in {portToTab[p], NoTab}
           /\ waiters'[p] \subseteq waiters[p]
  PROVE  LinkInv'
<1>1. \A p \in Ports : Shrinks(p, ready, sockets) BY DEF Shrinks
<1>2. QED BY <1>1, ConnectKeeps

LEMMA RefreshedShrinks ==
  ASSUME TypeOK, NEW q \in Ports, registry' = Refreshed(q), NEW p \in Ports
  PROVE  registry'[p] = NoInfo \/ ( /\ registry[p] # NoInfo
                                    /\ registry'[p].tab = registry[p].tab )
BY DEF Refreshed, TypeOK, Registries, BridgeInfos

\* A step that changes, at port p, at most which workers are at the far ends.
LEMMA FarEndKeeps ==
  ASSUME TypeOK, NEW p \in Ports, PortInv(p),
         \A i \in Slots : /\ ready'[<<p, i>>] = ready[<<p, i>>]
                          /\ asked'[<<p, i>>] = asked[<<p, i>>]
                          /\ peer'[<<p, i>>] # NoWorker =>
                               /\ peer'[<<p, i>>] = peer[<<p, i>>]
                               /\ listen'[peer[<<p, i>>]] # NoPort
                               /\ ident'[peer[<<p, i>>]].tab = ident[peer[<<p, i>>]].tab,
         UNCHANGED <<sockets[p], registry[p], portToTab[p], waiters[p]>>
  PROVE  PortInv(p)'
<1>1. \A i \in Slots : Sole(p, i)' => Sole(p, i) BY DEF Sole
<1>2. Cleared(p)' <=> Cleared(p) BY DEF Cleared
<1>3. ASSUME NEW i \in Slots PROVE SlotInv(p, i)'
  <2> DEFINE c == <<p, i>>
  <2>0. SlotInv(p, i) BY DEF PortInv
  <2>1. ready'[c] \in LiveStates => sockets'[p] = i BY <2>0 DEF SlotInv
  <2>2. peer'[c] # NoWorker => ready'[c] \in {"OPEN", "CLOSING"} /\ listen'[peer'[c]] # NoPort
    BY <2>0 DEF SlotInv
  <2>3. Sole(p, i)' /\ ready'[c] = "CONNECTING" => Cleared(p)'
    BY <1>1, <1>2, <2>0 DEF SlotInv
  <2>4. Sole(p, i)' /\ ready'[c] = "OPEN" => waiters'[p] \subseteq asked'[c]
    BY <1>1, <2>0 DEF SlotInv
  <2>5. Sole(p, i)' /\ ready'[c] = "OPEN" /\ peer'[c] # NoWorker => TrueOf(p, peer[c])'
    BY <1>1, <2>0 DEF SlotInv, TrueOf
  <2>6. QED BY <2>1, <2>2, <2>3, <2>4, <2>5 DEF SlotInv
<1>4. sockets[p] \in Slots \cup {NoSlot} BY DEF TypeOK
<1>5. QED BY <1>2, <1>3, <1>4 DEF PortInv

LEMMA OpensKeeps ==
  ASSUME TypeOK, LinkInv, NEW c \in Conns, NEW w \in Workers, SocketOpens(c, w)
  PROVE  LinkInv'
<1> USE DEF tables, world
<1> SUFFICES ASSUME NEW p \in Ports PROVE PortInv(p)' BY DEF LinkInv
<1>1. PICK q \in Ports, s \in Slots : c = <<q, s>> BY DEF Conns
<1>2. PortInv(p) BY DEF LinkInv
<1>3. /\ \A i \in Slots : /\ <<p, i>> # c => ready'[<<p, i>>] = ready[<<p, i>>]
                          /\ <<p, i>> # c => peer'[<<p, i>>] = peer[<<p, i>>]
      /\ ready[c] = "CONNECTING" /\ ready'[c] = "OPEN" /\ peer'[c] = w
      /\ listen[w] = c[1]
      /\ UNCHANGED <<sockets, registry, portToTab, waiters, asked, listen, ident>>
  BY DEF SocketOpens, TypeOK, Conns
<1>4. CASE p # q
  <2>1. \A i \in Slots : ready'[<<p, i>>] = ready[<<p, i>>] /\ peer'[<<p, i>>] = peer[<<p, i>>]
    BY <1>1, <1>3, <1>4
  <2>2. \A i \in Slots : peer[<<p, i>>] # NoWorker => listen[peer[<<p, i>>]] # NoPort
    BY <1>2 DEF PortInv, SlotInv
  <2>3. QED BY <1>2, <1>3, <2>1, <2>2, FarEndKeeps
<1>5. CASE p = q
  <2>1. sockets[p] = s BY <1>1, <1>2, <1>3, <1>5 DEF PortInv, SlotInv, LiveStates
  <2>2. ASSUME NEW i \in Slots PROVE SlotInv(p, i)'
    <3>1. CASE i = s
      <4>1. Sole(p, s)' => Sole(p, s) BY <1>1, <1>3, <1>5 DEF Sole
      <4>2. Sole(p, s) => Cleared(p) BY <1>1, <1>2, <1>3, <1>5 DEF PortInv, SlotInv
      <4>3. listen'[w] # NoPort BY <1>1, <1>3, SentinelsAssumption
      <4>4. ready'[<<p, i>>] = "OPEN" /\ peer'[<<p, i>>] = w BY <1>1, <1>3, <1>5, <3>1
      <4>5. Cleared(p)' => TrueOf(p, peer[<<p, i>>])' /\ waiters'[p] \subseteq asked'[<<p, i>>]
        BY DEF Cleared, TrueOf
      <4>6. Cleared(p) => Cleared(p)' BY <1>3 DEF Cleared
      <4>7. Sole(p, i)' => TrueOf(p, peer[<<p, i>>])' /\ waiters'[p] \subseteq asked'[<<p, i>>]
        BY <3>1, <4>1, <4>2, <4>5, <4>6
      <4>8. QED BY <1>3, <2>1, <3>1, <4>3, <4>4, <4>7 DEF SlotInv
    <3>2. CASE i # s
      <4>1. ready'[<<p, i>>] = ready[<<p, i>>] /\ peer'[<<p, i>>] = peer[<<p, i>>]
        BY <1>1, <1>3, <3>2
      <4>2. ~Sole(p, i)' /\ ready[<<p, i>>] \notin LiveStates
        BY <1>2, <1>3, <2>1, <3>2 DEF Sole, PortInv, SlotInv
      <4>3. QED BY <1>2, <1>3, <4>1, <4>2 DEF PortInv, SlotInv, LiveStates
    <3>3. QED BY <3>1, <3>2
  <2>3. QED BY <1>1, <1>3, <1>5, <2>1, <2>2 DEF PortInv
<1>6. QED BY <1>4, <1>5

LEMMA ClosesKeeps ==
  ASSUME TypeOK, LinkInv, NEW c \in Conns, SocketCloses(c)
  PROVE  LinkInv'
<1> USE DEF world
<1> SUFFICES ASSUME NEW p \in Ports PROVE PortInv(p)' BY DEF LinkInv
<1>1. PICK q \in Ports, s \in Slots : c = <<q, s>> BY DEF Conns
<1>2. PortInv(p) BY DEF LinkInv
<1>3. /\ \A i \in Slots : <<p, i>> # c =>
           /\ ready'[<<p, i>>] = ready[<<p, i>>]
           /\ peer'[<<p, i>>] = peer[<<p, i>>]
           /\ asked'[<<p, i>>] = asked[<<p, i>>]
      /\ ready'[c] = "UNUSED" /\ peer'[c] = NoWorker
      /\ UNCHANGED <<listen, ident>>
  BY DEF SocketCloses, TypeOK, Conns
<1>4. sockets'[p] = IF p = q /\ sockets[p] = s THEN NoSlot ELSE sockets[p]
  BY <1>1 DEF SocketCloses, MapAfterClose, Without, Current, TypeOK
<1>5. CASE p # q
  <2>1. UNCHANGED <<registry[p], portToTab[p], waiters[p]>>
    BY <1>1, <1>5 DEF SocketCloses, ForgetPort, Evict, TypeOK, Registries
  <2>2. \A i \in Slots : /\ ready'[<<p, i>>] = ready[<<p, i>>]
                         /\ peer'[<<p, i>>] = peer[<<p, i>>]
                         /\ asked'[<<p, i>>] = asked[<<p, i>>]
    BY <1>1, <1>3, <1>5
  <2>3. \A i \in Slots : peer[<<p, i>>] # NoWorker => listen[peer[<<p, i>>]] # NoPort
    BY <1>2 DEF PortInv, SlotInv
  <2>4. QED BY <1>2, <1>3, <1>4, <1>5, <2>1, <2>2, <2>3, FarEndKeeps
<1>6. CASE p = q
  <2>1. Cleared(p)'
    BY <1>1, <1>6 DEF SocketCloses, ForgetPort, Evict, TypeOK, Cleared
  <2>2. ASSUME NEW i \in Slots PROVE SlotInv(p, i)'
    <3>1. TrueOf(p, peer[<<p, i>>])' /\ waiters'[p] \subseteq asked'[<<p, i>>]
      BY <2>1 DEF Cleared, TrueOf
    <3>2. CASE i = s
      BY <1>1, <1>3, <1>6, <3>2 DEF SlotInv, LiveStates
    <3>3. CASE i # s
      <4>1. ready'[<<p, i>>] = ready[<<p, i>>] /\ peer'[<<p, i>>] = peer[<<p, i>>]
        BY <1>1, <1>3, <3>3
      <4>2. ready[<<p, i>>] \in LiveStates => sockets'[p] = i
        BY <1>2, <1>4, <3>3 DEF PortInv, SlotInv
      <4>3. QED BY <1>2, <1>3, <2>1, <3>1, <4>1, <4>2 DEF PortInv, SlotInv
    <3>4. QED BY <3>2, <3>3
  <2>3. sockets'[p] # NoSlot => ready'[<<p, sockets'[p]>>] # "UNUSED"
    <3>1. CASE sockets'[p] = NoSlot BY <3>1
    <3>2. CASE sockets'[p] # NoSlot
      <4>1. sockets'[p] = sockets[p] /\ sockets[p] \in Slots /\ sockets[p] # s
        BY <1>4, <1>6, <3>2 DEF TypeOK
      <4>2. QED BY <1>1, <1>2, <1>3, <4>1 DEF PortInv
    <3>3. QED BY <3>1, <3>2
  <2>4. QED BY <2>1, <2>2, <2>3 DEF PortInv
<1>7. QED BY <1>5, <1>6

LEMMA IdentityKeeps ==
  ASSUME TypeOK, LinkInv, NEW c \in Conns, Identity(c)
  PROVE  LinkInv'
<1> USE DEF link, world
<1> SUFFICES ASSUME NEW p \in Ports PROVE PortInv(p)' BY DEF LinkInv
<1>1. PICK q \in Ports, s \in Slots : c = <<q, s>> BY DEF Conns
<1>2. PortInv(p) BY DEF LinkInv
<1>3. UNCHANGED <<ready, peer, sockets, waiters, asked, listen, ident>>
  BY DEF Identity
<1>4. ready[c] = "OPEN" /\ peer[c] # NoWorker BY DEF Identity, Receives
<1>5. CASE p # q
  <2>1. UNCHANGED <<registry[p], portToTab[p]>>
    BY <1>1, <1>5 DEF Identity, Correlate, TypeOK, Registries
  <2>2. QED BY <1>2, <1>3, <2>1 DEF PortInv, SlotInv, Sole, Cleared, TrueOf
<1>6. CASE p = q
  <2>1. sockets[p] = s
    BY <1>1, <1>2, <1>4, <1>6 DEF PortInv, SlotInv, LiveStates
  <2>2. /\ registry'[p].tab = ident[peer[c]].tab
        /\ portToTab'[p] \in {portToTab[p], ident[peer[c]].tab}
    BY <1>1, <1>6 DEF Identity, Correlate, TypeOK, Registries
  <2>3. Sole(p, s) => TrueOf(p, peer[c])
    BY <1>1, <1>2, <1>4, <1>6 DEF PortInv, SlotInv
  <2>4. Sole(p, s)' => TrueOf(p, peer[c])'
    BY <1>3, <2>2, <2>3 DEF Sole, TrueOf
  <2>5. ASSUME NEW i \in Slots PROVE SlotInv(p, i)'
    <3>1. CASE i = s
      BY <1>1, <1>2, <1>3, <1>4, <1>6, <2>4, <3>1 DEF PortInv, SlotInv, Sole
    <3>2. CASE i # s
      <4>1. ~Sole(p, i)' BY <1>3, <2>1, <3>2 DEF Sole
      <4>2. QED BY <1>2, <1>3, <4>1 DEF PortInv, SlotInv
    <3>3. QED BY <3>1, <3>2
  <2>6. ready'[<<p, s>>] # "UNUSED" BY <1>1, <1>3, <1>4, <1>6
  <2>7. QED BY <1>2, <1>3, <2>5, <2>6 DEF PortInv
<1>7. QED BY <1>5, <1>6

\* The re-check of correlatePortToTab binds only what the registry says.
LEMMA ResolvesKeeps ==
  ASSUME TypeOK, LinkInv, NEW q \in Ports, NEW t \in Tabs, CorrelateResolves(q, t)
  PROVE  LinkInv'
<1> USE DEF link, world, frames
<1> SUFFICES ASSUME NEW p \in Ports PROVE PortInv(p)' BY DEF LinkInv
<1>1. PortInv(p) BY DEF LinkInv
<1>2. UNCHANGED <<ready, peer, sockets, registry, waiters, asked, listen, ident>>
  BY DEF CorrelateResolves
<1>3. sockets[p] \in Slots \cup {NoSlot} BY DEF TypeOK
<1>4. CASE portToTab'[p] = portToTab[p]
  <2>1. \A i \in Slots : peer[<<p, i>>] # NoWorker => listen[peer[<<p, i>>]] # NoPort
    BY <1>1 DEF PortInv, SlotInv
  <2>2. QED BY <1>1, <1>2, <1>4, <2>1, FarEndKeeps
<1>5. CASE portToTab'[p] # portToTab[p]
  <2>1. /\ IsOpen(p) /\ registry[p] # NoInfo /\ registry[p].tab = t
        /\ portToTab'[p] = t
    BY <1>5 DEF CorrelateResolves, StillCorrelates, PortsForTab, Registered, TypeOK
  <2>2. PICK s \in Slots : sockets[p] = s /\ ready[<<p, s>>] = "OPEN"
    BY <1>3, <2>1 DEF IsOpen
  <2>3. ASSUME NEW i \in Slots PROVE SlotInv(p, i)'
    <3>1. SlotInv(p, i) BY <1>1 DEF PortInv
    <3>2. Sole(p, i)' => Sole(p, i) /\ i = s BY <1>2, <2>2 DEF Sole
    <3>3. ASSUME Sole(p, i), peer[<<p, i>>] # NoWorker, ready[<<p, i>>] = "OPEN"
          PROVE  TrueOf(p, peer[<<p, i>>])'
      <4>1. TrueOf(p, peer[<<p, i>>]) BY <3>1, <3>3 DEF SlotInv
      <4>2. QED BY <1>2, <2>1, <4>1 DEF TrueOf
    <3>4. Sole(p, i)' => ready'[<<p, i>>] # "CONNECTING" BY <1>2, <2>2, <3>2
    <3>5. QED BY <1>2, <3>1, <3>2, <3>3, <3>4 DEF SlotInv
  <2>4. ready'[<<p, s>>] # "UNUSED" /\ sockets'[p] = s BY <1>2, <2>2
  <2>5. QED BY <2>3, <2>4 DEF PortInv
<1>6. QED BY <1>4, <1>5

\* A skills request makes the panel wait and asks the open socket's worker.
LEMMA RequestKeeps ==
  ASSUME TypeOK, LinkInv, NEW n \in Panels, NEW t \in Tabs, NEW k \in Keys,
         SkillsRequest(n, t, k)
  PROVE  LinkInv'
<1> USE DEF link, world
<1> SUFFICES ASSUME NEW p \in Ports PROVE PortInv(p)' BY DEF LinkInv
<1>1. PortInv(p) BY DEF LinkInv
<1>2. PICK q \in Ports :
        /\ IsOpen(q)
        /\ waiters' = [waiters EXCEPT ![q] = @ \cup {n}]
        /\ asked' = [asked EXCEPT ![<<q, sockets[q]>>] = @ \cup {n}]
  BY DEF SkillsRequest, PlanPanelRequest, ResolveChatPort, PortsForTab, Registered, OpenPorts
<1>3. UNCHANGED <<ready, peer, sockets, registry, portToTab, listen, ident>>
  BY DEF SkillsRequest
<1>4. PICK s \in Slots : sockets[q] = s /\ ready[<<q, s>>] = "OPEN"
  BY <1>2 DEF IsOpen, TypeOK
<1>5. /\ \A r \in Ports : waiters'[r] = IF r = q THEN waiters[r] \cup {n} ELSE waiters[r]
      /\ \A r \in Ports, i \in Slots :
           asked'[<<r, i>>] = IF r = q /\ i = s THEN asked[<<r, i>>] \cup {n}
                              ELSE asked[<<r, i>>]
  BY <1>2, <1>4 DEF TypeOK, Conns
<1>6. CASE p # q
  <2>1. \A i \in Slots : peer[<<p, i>>] # NoWorker => listen[peer[<<p, i>>]] # NoPort
    BY <1>1 DEF PortInv, SlotInv
  <2>2. QED BY <1>1, <1>3, <1>5, <1>6, <2>1, FarEndKeeps
<1>7. CASE p = q
  <2>1. ASSUME NEW i \in Slots PROVE SlotInv(p, i)'
    <3>1. SlotInv(p, i) BY <1>1 DEF PortInv
    <3>2. Sole(p, i)' => Sole(p, i) /\ i = s BY <1>3, <1>4, <1>7 DEF Sole
    <3>3. Sole(p, i) /\ ready[<<p, i>>] = "OPEN" => waiters[p] \subseteq asked[<<p, i>>]
      BY <3>1 DEF SlotInv
    <3>4. Sole(p, i)' /\ ready'[<<p, i>>] = "OPEN" => waiters'[p] \subseteq asked'[<<p, i>>]
      BY <1>3, <1>5, <1>7, <3>2, <3>3
    <3>5. Sole(p, i)' /\ ready'[<<p, i>>] = "OPEN" /\ peer'[<<p, i>>] # NoWorker =>
            TrueOf(p, peer[<<p, i>>])'
      BY <1>3, <3>1, <3>2 DEF SlotInv, TrueOf
    <3>6. Sole(p, i)' => ready'[<<p, i>>] # "CONNECTING" BY <1>3, <1>4, <1>7, <3>2
    <3>7. QED BY <1>3, <3>1, <3>4, <3>5, <3>6 DEF SlotInv
  <2>2. ready'[<<p, s>>] # "UNUSED" /\ sockets'[p] = s BY <1>3, <1>4, <1>7
  <2>3. QED BY <2>1, <2>2 DEF PortInv
<1>8. QED BY <1>6, <1>7

\* The reply serves every panel that waits on the port.
LEMMA ReplyKeeps ==
  ASSUME TypeOK, LinkInv, NEW c \in Conns, NEW n \in Panels, SkillsReply(c, n)
  PROVE  LinkInv'
<1> USE DEF link, world
<1> SUFFICES ASSUME NEW p \in Ports PROVE PortInv(p)' BY DEF LinkInv
<1>1. PICK q \in Ports, s \in Slots : c = <<q, s>> BY DEF Conns
<1>2. PortInv(p) BY DEF LinkInv
<1>3. UNCHANGED <<ready, peer, sockets, portToTab, listen, ident>> BY DEF SkillsReply
<1>4. registry'[p] = NoInfo \/ (registry[p] # NoInfo /\ registry'[p].tab = registry[p].tab)
  <2>1. registry' = Refreshed(q) BY <1>1 DEF SkillsReply
  <2>2. QED BY <2>1, RefreshedShrinks
<1>5. registry[p] = NoInfo => registry'[p] = NoInfo BY <1>4
<1>6. \/ waiters'[p] = {}
      \/ waiters'[p] = waiters[p] /\ \A i \in Slots : asked'[<<p, i>>] = asked[<<p, i>>]
  <2>1. p = q => waiters'[p] = {} BY <1>1 DEF SkillsReply, TypeOK
  <2>2. p # q => waiters'[p] = waiters[p] BY <1>1 DEF SkillsReply, TypeOK
  <2>3. p # q => \A i \in Slots : asked'[<<p, i>>] = asked[<<p, i>>]
    BY <1>1 DEF SkillsReply, TypeOK, Conns
  <2>4. QED BY <2>1, <2>2, <2>3
<1>7. Cleared(p) => Cleared(p)' BY <1>3, <1>5, <1>6 DEF Cleared
<1>8. ASSUME NEW i \in Slots PROVE SlotInv(p, i)'
  <2>1. SlotInv(p, i) BY <1>2 DEF PortInv
  <2>2. Sole(p, i)' => Sole(p, i) BY <1>3 DEF Sole
  <2>3. Sole(p, i)' /\ ready'[<<p, i>>] = "OPEN" => waiters'[p] \subseteq asked'[<<p, i>>]
    <3>1. Sole(p, i) /\ ready[<<p, i>>] = "OPEN" => waiters[p] \subseteq asked[<<p, i>>]
      BY <2>1 DEF SlotInv
    <3>2. QED BY <1>3, <1>6, <2>2, <3>1
  <2>4. TrueOf(p, peer[<<p, i>>]) => TrueOf(p, peer[<<p, i>>])' BY <1>3, <1>4 DEF TrueOf
  <2>5. Sole(p, i)' /\ ready'[<<p, i>>] = "OPEN" /\ peer'[<<p, i>>] # NoWorker =>
          TrueOf(p, peer[<<p, i>>])'
    BY <1>3, <2>1, <2>2, <2>4 DEF SlotInv
  <2>6. Sole(p, i)' /\ ready'[<<p, i>>] = "CONNECTING" => Cleared(p)'
    BY <1>3, <1>7, <2>1, <2>2 DEF SlotInv
  <2>7. QED BY <1>3, <2>1, <2>3, <2>5, <2>6 DEF SlotInv
<1>9. QED BY <1>2, <1>3, <1>7, <1>8 DEF PortInv

-----------------------------------------------------------------------------
(* The theorem *)

LEMMA StepLink == TypeOK /\ LinkInv /\ [Next]_vars => LinkInv'
<1> SUFFICES ASSUME TypeOK, LinkInv, [Next]_vars PROVE LinkInv' OBVIOUS
<1> USE DEF link, tables, world, frames
<1>1. CASE Restart BY <1>1, RestartLink
<1>2. CASE StoredPortRead
  <2>1. Same BY <1>2 DEF StoredPortRead, ConnectPorts, Same
  <2>2. CASE UNCHANGED <<pinned, link>>
    BY <1>2, <2>1, <2>2, QuietKeeps DEF StoredPortRead
  <2>3. CASE ~UNCHANGED <<pinned, link>>
    <3> DEFINE D == Ports \ {storedPort}
    <3>1. ConnectPorts({storedPort}, ClosedOn(D), sockets, storedPort)
      BY <1>2, <2>3 DEF StoredPortRead
    <3>2. UNCHANGED <<registry, portToTab, waiters>> BY <1>2 DEF StoredPortRead
    <3> HIDE DEF D
    <3>3. ASSUME NEW p \in Ports PROVE Shrinks(p, ClosedOn(D), sockets)
      BY <3>2, ClosingShrinks DEF Shrinks
    <3>4. QED BY <2>1, <3>1, <3>3, ConnectKeeps
  <2>4. QED BY <2>2, <2>3
<1>3. CASE BridgeScan BY <1>3, ScanKeeps DEF BridgeScan
<1>4. CASE Heartbeat
  <2>1. Same BY <1>4 DEF Heartbeat, Same
  <2>2. ASSUME NEW p \in Ports PROVE Shrinks(p, ClosedOn(Ports), sockets)
    BY <1>4, ClosingShrinks DEF Heartbeat, Shrinks
  <2>3. QED BY <1>4, <2>1, <2>2, ConnectKeeps DEF Heartbeat
<1>5. CASE Silence
  <2>1. Same BY <1>5 DEF Silence, Same
  <2>2. ASSUME NEW p \in Ports
        PROVE  registry'[p] = NoInfo \/ (registry[p] # NoInfo /\ registry'[p].tab = registry[p].tab)
    BY <1>5 DEF Silence, TypeOK, Registries, BridgeInfos
  <2>3. QED BY <1>5, <2>1, <2>2, QuietKeeps DEF Silence
<1>6. ASSUME NEW p \in Ports, FastReconnect(p) PROVE LinkInv'
  <2>1. Same BY <1>6 DEF FastReconnect, ConnectPorts, Same
  <2>2. \A q \in Ports : Shrinks(q, ready, sockets) BY <1>6 DEF FastReconnect, Shrinks
  <2>3. ConnectPorts({p}, ready, sockets, pinned) BY <1>6 DEF FastReconnect
  <2>4. QED BY <2>1, <2>2, <2>3, ConnectKeeps
<1>7. ASSUME NEW c \in Conns, OtherFrame(c) PROVE LinkInv'
  <2>1. Same BY <1>7 DEF OtherFrame, Same
  <2>2. PICK q \in Ports : registry' = Refreshed(q) BY <1>7 DEF OtherFrame, Conns
  <2>3. \A p \in Ports : registry'[p] = NoInfo \/
          (registry[p] # NoInfo /\ registry'[p].tab = registry[p].tab)
    BY <2>2, RefreshedShrinks
  <2>4. QED BY <1>7, <2>1, <2>3, QuietKeeps DEF OtherFrame
<1>8. ASSUME NEW c \in Conns, IdentityRejected(c) PROVE LinkInv'
  <2>1. PICK q \in Ports : /\ ready' = ClosedOn({q}) /\ sockets' = Without({q})
                           /\ registry' = Evict(registry, {q})
    BY <1>8 DEF IdentityRejected, Conns
  <2>2. Same BY <1>8 DEF IdentityRejected, Same
  <2>3. UNCHANGED <<portToTab, waiters>> BY <1>8 DEF IdentityRejected
  <2>4. ASSUME NEW p \in Ports PROVE Shrinks(p, ClosedOn({q}), Without({q}))
    <3>1. registry'[p] \in {registry[p], NoInfo} BY <2>1, EvictShrinks
    <3>2. QED BY <2>3, <3>1, ClosingShrinks DEF Shrinks
  <2>5. QED BY <2>1, <2>2, <2>4, ConnectKeeps
<1>9. ASSUME NEW n \in Panels, PanelDisconnects(n) PROVE LinkInv'
  <2>1. Same BY <1>9 DEF PanelDisconnects, Same
  <2>2. \A p \in Ports : waiters'[p] \subseteq waiters[p] BY <1>9 DEF PanelDisconnects
  <2>3. QED BY <1>9, <2>1, <2>2, QuietKeeps DEF PanelDisconnects
<1>10. ASSUME NEW c \in Conns, NEW p \in Ports, SetBridgePort(c, p) PROVE LinkInv'
  <2> DEFINE D == Ports \ {p}
  <2>1. /\ registry' = Evict(registry, {q \in D : sockets[q] # NoSlot})
        /\ ConnectPorts({p}, ClosedOn(D), Without(D), p)
    BY <1>10 DEF SetBridgePort
  <2>2. Same BY <1>10, <2>1 DEF SetBridgePort, ConnectPorts, Same
  <2>3. UNCHANGED <<portToTab, waiters>> BY <1>10 DEF SetBridgePort
  <2> HIDE DEF D
  <2>4. ASSUME NEW q \in Ports PROVE Shrinks(q, ClosedOn(D), Without(D))
    <3>1. registry'[q] \in {registry[q], NoInfo} BY <2>1, EvictShrinks
    <3>2. QED BY <2>3, <3>1, ClosingShrinks DEF Shrinks
  <2>5. QED BY <2>1, <2>2, <2>4, ConnectKeeps
<1>11. ASSUME NEW t \in Tabs, TabOpens(t) PROVE LinkInv'
  <2>1. Same BY <1>11 DEF TabOpens, Same
  <2>2. QED BY <1>11, <2>1, QuietKeeps DEF TabOpens
<1>12. ASSUME NEW t \in Tabs, NEW k \in KeysOrNone, NEW idle \in BOOLEAN, TabActivated(t, k, idle)
       PROVE  LinkInv'
  <2>1. ActivateTenant(registry, k, idle) BY <1>12 DEF TabActivated
  <2>2. QED BY <1>12, <2>1, ActivateKeeps DEF TabActivated
<1>13. ASSUME NEW t \in Tabs, NEW k \in KeysOrNone, NEW idle \in BOOLEAN, TabNavigated(t, k, idle)
       PROVE  LinkInv'
  <2> DEFINE evict == IF pinned = NoPort THEN PlanReTenant(registry, t, k) ELSE {}
  <2>1. PICK reg : reg = Evict(registry, evict) OBVIOUS
  <2>2. ActivateTenant(reg, k, idle) BY <1>13, <2>1 DEF TabNavigated
  <2>3. \A p \in Ports : portToTab'[p] \in {portToTab[p], NoTab}
    BY <1>13 DEF TabNavigated, Unbound
  <2> HIDE DEF evict
  <2>4. \A p \in Ports : reg[p] \in {registry[p], NoInfo} BY <2>1, EvictShrinks
  <2>5. QED BY <1>13, <2>2, <2>3, <2>4, ActivateKeeps DEF TabNavigated
<1>14. ASSUME NEW t \in Tabs, TabRemoved(t) PROVE LinkInv'
  <2>1. Same BY <1>14 DEF TabRemoved, Same
  <2>2. \A p \in Ports : portToTab'[p] \in {portToTab[p], NoTab}
    BY <1>14 DEF TabRemoved, Unbound
  <2>3. QED BY <1>14, <2>1, <2>2, QuietKeeps DEF TabRemoved
<1>15. ASSUME NEW w \in Workers, NEW q \in Ports, NEW id \in Identities, WorkerStarts(w, q, id)
       PROVE  LinkInv'
  <2> SUFFICES ASSUME NEW p \in Ports PROVE PortInv(p)' BY DEF LinkInv
  <2>1. PortInv(p) BY DEF LinkInv
  <2>2. \A i \in Slots : peer[<<p, i>>] # NoWorker =>
          peer[<<p, i>>] \in Workers /\ listen[peer[<<p, i>>]] # NoPort
    BY <2>1 DEF PortInv, SlotInv, TypeOK, Conns
  <2>3. /\ listen[w] = NoPort
        /\ \A v \in Workers \ {w} : listen'[v] = listen[v] /\ ident'[v] = ident[v]
        /\ UNCHANGED <<ready, peer, asked, sockets, registry, portToTab, waiters>>
    BY <1>15 DEF WorkerStarts, TypeOK
  <2>4. QED BY <2>1, <2>2, <2>3, FarEndKeeps
<1>16. ASSUME NEW w \in Workers, WorkerStops(w) PROVE LinkInv'
  <2> SUFFICES ASSUME NEW p \in Ports PROVE PortInv(p)' BY DEF LinkInv
  <2>1. PortInv(p) BY DEF LinkInv
  <2>2. \A i \in Slots : peer[<<p, i>>] # NoWorker =>
          peer[<<p, i>>] \in Workers /\ listen[peer[<<p, i>>]] # NoPort
    BY <2>1 DEF PortInv, SlotInv, TypeOK, Conns
  <2>3. \A i \in Slots : peer'[<<p, i>>] = IF peer[<<p, i>>] = w THEN NoWorker ELSE peer[<<p, i>>]
    BY <1>16 DEF WorkerStops, Conns
  <2>4. /\ \A v \in Workers \ {w} : listen'[v] = listen[v] /\ ident'[v] = ident[v]
        /\ UNCHANGED <<ready, asked, sockets, registry, portToTab, waiters>>
    BY <1>16 DEF WorkerStops, TypeOK
  <2>5. QED BY <2>1, <2>2, <2>3, <2>4, FarEndKeeps
<1>17. ASSUME NEW w \in Workers, NEW k \in KeysOrNone, WorkerChangesTenant(w, k) PROVE LinkInv'
  <2> SUFFICES ASSUME NEW p \in Ports PROVE PortInv(p)' BY DEF LinkInv
  <2>1. PortInv(p) BY DEF LinkInv
  <2>2. \A i \in Slots : peer[<<p, i>>] # NoWorker =>
          peer[<<p, i>>] \in Workers /\ listen[peer[<<p, i>>]] # NoPort
    BY <2>1 DEF PortInv, SlotInv, TypeOK, Conns
  <2>3. /\ \A v \in Workers : ident'[v].tab = ident[v].tab
        /\ UNCHANGED <<ready, peer, asked, sockets, registry, portToTab, waiters, listen>>
    BY <1>17 DEF WorkerChangesTenant, TypeOK, Identities
  <2>4. QED BY <2>1, <2>2, <2>3, FarEndKeeps
<1>18. ASSUME NEW c \in Conns, WorkerDrops(c) PROVE LinkInv'
  <2> SUFFICES ASSUME NEW p \in Ports PROVE PortInv(p)' BY DEF LinkInv
  <2>1. PortInv(p) BY DEF LinkInv
  <2>2. \A i \in Slots : peer[<<p, i>>] # NoWorker => listen[peer[<<p, i>>]] # NoPort
    BY <2>1 DEF PortInv, SlotInv
  <2>3. \A i \in Slots : peer'[<<p, i>>] \in {peer[<<p, i>>], NoWorker}
    BY <1>18 DEF WorkerDrops, TypeOK, Conns
  <2>4. UNCHANGED <<ready, asked, sockets, registry, portToTab, waiters, listen, ident>>
    BY <1>18 DEF WorkerDrops
  <2>5. QED BY <2>1, <2>2, <2>3, <2>4, FarEndKeeps
<1>19. CASE UNCHANGED vars
  <2>1. Same BY <1>19 DEF vars, Same
  <2>2. QED BY <1>19, <2>1, QuietKeeps DEF vars
<1>20. QED
  BY <1>1, <1>2, <1>3, <1>4, <1>5, <1>6, <1>7, <1>8, <1>9, <1>10, <1>11, <1>12, <1>13,
     <1>14, <1>15, <1>16, <1>17, <1>18, <1>19, OpensKeeps, ClosesKeeps, IdentityKeeps,
     ResolvesKeeps, RequestKeeps, ReplyKeeps
  DEF Next

\* The inductive invariant holds: as long as a port has one socket object, the
\* tables of the service worker say nothing false about the worker behind it.
THEOREM LinkInvariant == Spec => [](TypeOK /\ LinkInv)
<1>1. TypeOK /\ LinkInv /\ [Next]_vars => (TypeOK /\ LinkInv)'
  BY StepType, StepLink
<1>2. QED BY <1>1, InitType, InitLink, PTL DEF Spec

\* No socket object is ever leaked: a live one is the one the map holds.
THEOREM LiveSocketTracked == Spec => []LiveSocketIsTracked
<1>1. LinkInv => LiveSocketIsTracked
  <2> SUFFICES ASSUME LinkInv, NEW c \in Conns, ready[c] \in LiveStates PROVE Current(c)
    BY DEF LiveSocketIsTracked
  <2>1. PICK p \in Ports, i \in Slots : c = <<p, i>> BY DEF Conns
  <2>2. SlotInv(p, i) BY DEF LinkInv, PortInv
  <2>3. QED BY <2>1, <2>2 DEF SlotInv, Current
<1>2. QED BY <1>1, LinkInvariant, PTL

\* A port whose sockets have all closed has no identity, binding or waiter left.
THEOREM PortForgotten == Spec => []NothingOutlivesThePort
<1>1. LinkInv => NothingOutlivesThePort BY DEF LinkInv, PortInv, Cleared, NothingOutlivesThePort
<1>2. QED BY <1>1, LinkInvariant, PTL

\* What the invariant says of an open port with no older socket.
LEMMA OpenPortIsTrue ==
  ASSUME TypeOK, LinkInv, NEW p \in Ports, IsOpen(p), ~Overlap(p)
  PROVE  /\ waiters[p] \subseteq asked[<<p, sockets[p]>>]
         /\ WorkerOn(p) # NoWorker => TrueOf(p, WorkerOn(p))
<1>1. PICK s \in Slots : s = sockets[p] /\ ready[<<p, s>>] = "OPEN" BY DEF IsOpen, TypeOK
<1>2. Sole(p, s) BY <1>1 DEF Overlap, Sole
<1>3. SlotInv(p, s) BY DEF LinkInv, PortInv
<1>4. WorkerOn(p) = peer[<<p, s>>] BY <1>1 DEF WorkerOn
<1>5. QED BY <1>1, <1>2, <1>3, <1>4 DEF SlotInv

\* A chat or skills request reaches a worker that runs for the tab it names.
THEOREM TurnReachesOwnWorker == Spec => []RoutedTurnReachesOwnWorker
<1>1. TypeOK /\ LinkInv => RoutedTurnReachesOwnWorker
  <2> SUFFICES ASSUME TypeOK, LinkInv, NEW t \in Tabs, NEW k \in Keys, NEW p \in Ports,
                      p \in PlanPanelRequest(registry, OpenPorts, t, k),
                      ~Overlap(p), WorkerOn(p) # NoWorker
               PROVE  ident[WorkerOn(p)].tab = t
    BY DEF RoutedTurnReachesOwnWorker, PlanPanelRequest, ResolveChatPort, PortsForTab, Registered
  <2>1. IsOpen(p) /\ registry[p] # NoInfo /\ registry[p].tab = t
    BY DEF PlanPanelRequest, ResolveChatPort, PortsForTab, Registered, OpenPorts
  <2>2. TrueOf(p, WorkerOn(p)) BY <2>1, OpenPortIsTrue
  <2>3. QED BY <2>1, <2>2 DEF TrueOf
<1>2. QED BY <1>1, LinkInvariant, PTL

\* A tool request drives the tab of the worker that sent it, or is refused.
THEOREM ToolStaysOnOwnTab == Spec => []ToolDrivesOwnTab
<1>1. TypeOK /\ LinkInv => ToolDrivesOwnTab
  <2> SUFFICES ASSUME TypeOK, LinkInv, NEW p \in Ports, ~Overlap(p), WorkerOn(p) # NoWorker
               PROVE  PlanToolRequest(portToTab, p) \in {NoTab, ident[WorkerOn(p)].tab}
    BY DEF ToolDrivesOwnTab
  <2>1. IsOpen(p) BY DEF WorkerOn
  <2>2. TrueOf(p, WorkerOn(p)) BY <2>1, OpenPortIsTrue
  <2>3. QED BY <2>2, SentinelsAssumption DEF TrueOf, PlanToolRequest
<1>2. QED BY <1>1, LinkInvariant, PTL

\* A skills reply reaches only panels that asked the worker that sent it.
THEOREM SkillsReachOnlyAskers == Spec => []SkillsReachAskers
<1>1. TypeOK /\ LinkInv => SkillsReachAskers
  BY OpenPortIsTrue DEF SkillsReachAskers
<1>2. QED BY <1>1, LinkInvariant, PTL

LEMMA StepBound == TypeOK /\ BoundTabIsOpen /\ [Next]_vars => BoundTabIsOpen'
<1> SUFFICES ASSUME TypeOK, BoundTabIsOpen, [Next]_vars, NEW q \in Ports
             PROVE  portToTab'[q] \in openTabs' \cup {NoTab}
  BY DEF BoundTabIsOpen
<1> USE DEF tables, world
<1>0. portToTab[q] \in openTabs \cup {NoTab} BY DEF BoundTabIsOpen
<1>1. CASE Restart BY <1>1 DEF Restart
<1>2. ASSUME UNCHANGED <<portToTab, openTabs>> PROVE portToTab'[q] \in openTabs' \cup {NoTab}
  BY <1>0, <1>2
<1>3. ASSUME NEW c \in Conns, SocketCloses(c) PROVE portToTab'[q] \in openTabs' \cup {NoTab}
  BY <1>0, <1>3 DEF SocketCloses, ForgetPort, TypeOK
<1>4. ASSUME NEW c \in Conns, Identity(c) PROVE portToTab'[q] \in openTabs' \cup {NoTab}
  <2>1. PICK p \in Ports, t \in Tabs \cup {NoTab} : Correlate(p, t)
    BY <1>4 DEF Identity, Receives, TypeOK, Identities, Conns
  <2>2. portToTab'[q] \in {portToTab[q]} \cup tracked BY <2>1 DEF Correlate, TypeOK
  <2>3. QED BY <1>0, <1>4, <2>2 DEF Identity, TypeOK
<1>5. ASSUME NEW p \in Ports, NEW t \in Tabs, CorrelateResolves(p, t)
      PROVE  portToTab'[q] \in openTabs' \cup {NoTab}
  BY <1>0, <1>5 DEF CorrelateResolves, StillCorrelates, TypeOK
<1>6. ASSUME NEW t \in Tabs, TabOpens(t) PROVE portToTab'[q] \in openTabs' \cup {NoTab}
  BY <1>0, <1>6 DEF TabOpens
<1>7. ASSUME NEW t \in Tabs, NEW k \in KeysOrNone, NEW idle \in BOOLEAN, TabNavigated(t, k, idle)
      PROVE  portToTab'[q] \in openTabs' \cup {NoTab}
  BY <1>0, <1>7 DEF TabNavigated, Unbound
<1>8. ASSUME NEW t \in Tabs, TabRemoved(t) PROVE portToTab'[q] \in openTabs' \cup {NoTab}
  BY <1>0, <1>8 DEF TabRemoved, Unbound
<1>9. CASE StoredPortRead BY <1>2, <1>9 DEF StoredPortRead
<1>10. CASE BridgeScan \/ Heartbeat \/ Silence
  BY <1>2, <1>10 DEF BridgeScan, Heartbeat, Silence
<1>11. ASSUME NEW p \in Ports, FastReconnect(p) PROVE portToTab'[q] \in openTabs' \cup {NoTab}
  BY <1>2, <1>11 DEF FastReconnect
<1>12. ASSUME NEW c \in Conns, NEW w \in Workers, SocketOpens(c, w)
        PROVE portToTab'[q] \in openTabs' \cup {NoTab}
  BY <1>2, <1>12 DEF SocketOpens
<1>13. ASSUME NEW c \in Conns, OtherFrame(c)
        PROVE portToTab'[q] \in openTabs' \cup {NoTab}
  BY <1>2, <1>13 DEF OtherFrame
<1>15. ASSUME NEW c \in Conns, IdentityRejected(c)
        PROVE portToTab'[q] \in openTabs' \cup {NoTab}
  BY <1>2, <1>15 DEF IdentityRejected
<1>16. ASSUME NEW c \in Conns, NEW n \in Panels, SkillsReply(c, n)
        PROVE portToTab'[q] \in openTabs' \cup {NoTab}
  BY <1>2, <1>16 DEF SkillsReply
<1>17. ASSUME NEW c \in Conns, NEW p \in Ports, SetBridgePort(c, p)
        PROVE portToTab'[q] \in openTabs' \cup {NoTab}
  BY <1>2, <1>17 DEF SetBridgePort
<1>18. ASSUME NEW c \in Conns, WorkerDrops(c)
        PROVE portToTab'[q] \in openTabs' \cup {NoTab}
  BY <1>2, <1>18 DEF WorkerDrops
<1>19. ASSUME NEW n \in Panels, NEW t \in Tabs, NEW k \in Keys, SkillsRequest(n, t, k)
        PROVE portToTab'[q] \in openTabs' \cup {NoTab}
  BY <1>2, <1>19 DEF SkillsRequest
<1>20. ASSUME NEW n \in Panels, PanelDisconnects(n)
        PROVE portToTab'[q] \in openTabs' \cup {NoTab}
  BY <1>2, <1>20 DEF PanelDisconnects
<1>21. ASSUME NEW w \in Workers, NEW p \in Ports, NEW id \in Identities, WorkerStarts(w, p, id)
        PROVE portToTab'[q] \in openTabs' \cup {NoTab}
  BY <1>2, <1>21 DEF WorkerStarts
<1>22. ASSUME NEW w \in Workers, WorkerStops(w)
        PROVE portToTab'[q] \in openTabs' \cup {NoTab}
  BY <1>2, <1>22 DEF WorkerStops
<1>23. ASSUME NEW w \in Workers, NEW k \in KeysOrNone, WorkerChangesTenant(w, k)
        PROVE portToTab'[q] \in openTabs' \cup {NoTab}
  BY <1>2, <1>23 DEF WorkerChangesTenant
<1>14. ASSUME NEW t \in Tabs, NEW k \in KeysOrNone, NEW idle \in BOOLEAN, TabActivated(t, k, idle)
       PROVE  portToTab'[q] \in openTabs' \cup {NoTab}
  BY <1>2, <1>14 DEF TabActivated
<1>24. CASE UNCHANGED vars BY <1>2, <1>24 DEF vars
<1>25. QED
  BY <1>1, <1>3, <1>4, <1>5, <1>6, <1>7, <1>8, <1>9, <1>10, <1>11, <1>12, <1>13, <1>14, <1>15,
     <1>16, <1>17, <1>18, <1>19, <1>20, <1>21, <1>22, <1>23, <1>24
  DEF Next

\* No tool request is ever aimed at a tab that is gone.
THEOREM BoundTabsOpen == Spec => []BoundTabIsOpen
<1>1. Init => BoundTabIsOpen BY DEF Init, BoundTabIsOpen
<1>2. QED BY <1>1, StepBound, TypeCorrect, PTL DEF Spec

-----------------------------------------------------------------------------
(* The pin *)

\* A step opens a socket object only on the port that is pinned, if any is.
OpensPinnedOnly ==
  pinned # NoPort =>
    \A c \in Conns : ready[c] = "UNUSED" /\ ready'[c] = "CONNECTING" =>
      c[1] = pinned' \/ pinned' = NoPort

\* connectPort with a port pinned.
LEMMA ConnectsPinned ==
  ASSUME NEW S, NEW D, NEW sk, NEW pin \in Ports, pin # NoPort, pinned' = pin,
         ConnectPorts(S, ClosedOn(D), sk, pin)
  PROVE  OpensPinnedOnly
<1> SUFFICES ASSUME NEW c \in Conns, ready[c] = "UNUSED", ready'[c] = "CONNECTING"
             PROVE  c[1] = pin
  BY DEF OpensPinnedOnly
<1>1. ClosedOn(D)[c] = "UNUSED"
  BY DEF ClosedOn, Closed, LiveStates
<1>2. PICK new : /\ new = {p \in S : MayConnect(p, ClosedOn(D), sk, pin)}
                 /\ c[1] \in new \/ ready'[c] = ClosedOn(D)[c]
  BY DEF ConnectPorts
<1> QED BY <1>1, <1>2 DEF MayConnect

\* A step that leaves the socket objects, or only advances or closes some.
LEMMA OpensNothing ==
  ASSUME \A c \in Conns : ready[c] = "UNUSED" => ready'[c] # "CONNECTING"
  PROVE  OpensPinnedOnly
BY DEF OpensPinnedOnly

LEMMA StepPinned == TypeOK /\ [Next]_vars => OpensPinnedOnly
<1> SUFFICES ASSUME TypeOK, [Next]_vars, pinned # NoPort PROVE OpensPinnedOnly
  BY DEF OpensPinnedOnly
<1> USE DEF link, pinning
<1>1. ASSUME UNCHANGED ready PROVE OpensPinnedOnly
  BY <1>1, OpensNothing
<1>2. CASE Restart
  BY <1>2 DEF Restart, OpensPinnedOnly
<1>3. CASE StoredPortRead
  <2>1. CASE UNCHANGED <<pinned, link>>
    BY <1>1, <2>1
  <2>2. CASE ~UNCHANGED <<pinned, link>>
    <3>1. /\ storedPort # NoPort /\ storedPort \in Ports /\ pinned' = storedPort
          /\ ConnectPorts({storedPort}, ClosedOn(Ports \ {storedPort}), sockets, storedPort)
      BY <1>3, <2>2 DEF StoredPortRead, TypeOK
    <3> QED BY <3>1, ConnectsPinned
  <2> QED BY <2>1, <2>2
<1>4. CASE BridgeScan
  BY <1>4 DEF BridgeScan
<1>5. CASE Heartbeat
  <2>1. \A c \in Conns : ready[c] = "UNUSED" => ready'[c] = "UNUSED"
    BY <1>5 DEF Heartbeat, ClosedOn, Closed, LiveStates
  <2> QED BY <2>1, OpensNothing
<1>6. ASSUME NEW p \in Ports, FastReconnect(p) PROVE OpensPinnedOnly
  <2>1. /\ pinned' = pinned /\ pinned \in Ports
        /\ ConnectPorts({p}, ready, sockets, pinned)
    BY <1>6 DEF FastReconnect, TypeOK
  <2>2. ready = ClosedOn({})
    BY DEF ClosedOn, TypeOK
  <2> QED BY <2>1, <2>2, ConnectsPinned
<1>7. ASSUME NEW c \in Conns, NEW w \in Workers, SocketOpens(c, w) PROVE OpensPinnedOnly
  <2>1. \A d \in Conns : ready'[d] \in {ready[d], "OPEN"}
    BY <1>7 DEF SocketOpens, TypeOK
  <2> QED BY <2>1, OpensNothing
<1>8. ASSUME NEW c \in Conns, SocketCloses(c) PROVE OpensPinnedOnly
  <2>1. \A d \in Conns : ready'[d] \in {ready[d], "UNUSED"}
    BY <1>8 DEF SocketCloses, TypeOK
  <2> QED BY <2>1, OpensNothing
<1>9. ASSUME NEW c \in Conns, IdentityRejected(c) PROVE OpensPinnedOnly
  <2>1. \A d \in Conns : ready[d] = "UNUSED" => ready'[d] = "UNUSED"
    BY <1>9 DEF IdentityRejected, ClosedOn, Closed, LiveStates
  <2> QED BY <2>1, OpensNothing
<1>10. ASSUME NEW c \in Conns, NEW p \in Ports, SetBridgePort(c, p) PROVE OpensPinnedOnly
  <2>1. pinned' = p /\ ConnectPorts({p}, ClosedOn(Ports \ {p}), Without(Ports \ {p}), p)
    BY <1>10 DEF SetBridgePort
  <2>2. p # NoPort
    BY SentinelsAssumption
  <2> QED BY <2>1, <2>2, ConnectsPinned
<1>11. ASSUME NEW t \in Tabs, NEW k \in KeysOrNone, NEW idle \in BOOLEAN,
              TabActivated(t, k, idle) \/ TabNavigated(t, k, idle)
       PROVE  OpensPinnedOnly
  BY <1>1, <1>11 DEF TabActivated, TabNavigated, ActivateTenant
<1>12. CASE Silence
  BY <1>1, <1>12 DEF Silence
<1>13. ASSUME NEW c \in Conns, OtherFrame(c) \/ Identity(c) \/ WorkerDrops(c)
       PROVE  OpensPinnedOnly
  BY <1>1, <1>13 DEF OtherFrame, Identity, WorkerDrops
<1>14. ASSUME NEW p \in Ports, NEW t \in Tabs, CorrelateResolves(p, t) PROVE OpensPinnedOnly
  BY <1>1, <1>14 DEF CorrelateResolves
<1>15. ASSUME NEW n \in Panels, NEW t \in Tabs, NEW k \in Keys, SkillsRequest(n, t, k)
       PROVE  OpensPinnedOnly
  BY <1>1, <1>15 DEF SkillsRequest
<1>16. ASSUME NEW c \in Conns, NEW n \in Panels, SkillsReply(c, n) PROVE OpensPinnedOnly
  BY <1>1, <1>16 DEF SkillsReply
<1>17. ASSUME NEW n \in Panels, PanelDisconnects(n) PROVE OpensPinnedOnly
  BY <1>1, <1>17 DEF PanelDisconnects
<1>18. ASSUME NEW t \in Tabs, TabOpens(t) \/ TabRemoved(t) PROVE OpensPinnedOnly
  BY <1>1, <1>18 DEF TabOpens, TabRemoved
<1>19. ASSUME NEW w \in Workers, NEW p \in Ports, NEW id \in Identities, WorkerStarts(w, p, id)
       PROVE  OpensPinnedOnly
  BY <1>1, <1>19 DEF WorkerStarts
<1>20. ASSUME NEW w \in Workers, WorkerStops(w) PROVE OpensPinnedOnly
  BY <1>1, <1>20 DEF WorkerStops
<1>21. ASSUME NEW w \in Workers, NEW k \in KeysOrNone, WorkerChangesTenant(w, k)
       PROVE  OpensPinnedOnly
  BY <1>1, <1>21 DEF WorkerChangesTenant
<1>22. CASE UNCHANGED vars
  BY <1>1, <1>22 DEF vars
<1> QED
  BY <1>2, <1>3, <1>4, <1>5, <1>6, <1>7, <1>8, <1>9, <1>10, <1>11, <1>12, <1>13, <1>14, <1>15,
     <1>16, <1>17, <1>18, <1>19, <1>20, <1>21, <1>22
  DEF Next

\* Once a port is pinned, by the tool or from storage, no timer, scan, close or tab
\* event opens a socket on another one, until the service worker restarts.
THEOREM PinIsKept == Spec => PinnedPortOnly
<1>1. TypeOK /\ [Next]_vars => [OpensPinnedOnly]_vars
  BY StepPinned
<1> QED BY <1>1, TypeCorrect, PTL DEF Spec, PinnedPortOnly, OpensPinnedOnly
=============================================================================
