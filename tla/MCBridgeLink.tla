---------------------------- MODULE MCBridgeLink ----------------------------
(***************************************************************************)
(* Instances of BridgeLink for TLC.  The service worker's own events always *)
(* happen; a budget bounds the external ones: worker starts, exits, drops   *)
(* and key changes, tab and panel events, restarts.  A behaviour plays in   *)
(* one of the scenes of the configuration.                                  *)
(***************************************************************************)
EXTENDS BridgeLink, TLC

CONSTANT Scenes  \* "reuse", "pin" or "live"

VARIABLES scene, spent

mcvars == <<vars, scene, spent>>

\* "reuse": two workers of two tabs share the port.  "pin": one worker, on the port
\* of the range or on another one, which its tool or storage may pin.  "live": as
\* "pin", with one port and more events.
Budget == CASE scene = "reuse" -> 4 [] scene = "pin" -> 3 [] scene = "live" -> 5
Crowd == scene = "reuse"
Cast(S) == IF Crowd \/ S = {} THEN S ELSE {CHOOSE x \in S : TRUE}
Hosts == IF Crowd THEN DiscoveryPorts ELSE Ports
MCIdentities == [tab : Cast(Tabs), key : Keys]

External ==
  \/ ~Crowd /\ Restart
  \/ \E t \in Cast(Tabs) : TabOpens(t) /\ t \notin openTabs
  \/ \E t \in Cast(Tabs), k \in KeysOrNone, idle \in BOOLEAN : TabActivated(t, k, idle)
  \/ \E t \in Cast(Tabs), k \in KeysOrNone, idle \in BOOLEAN : TabNavigated(t, k, idle)
  \/ \E t \in Cast(Tabs) : TabRemoved(t)
  \/ \E w \in Cast(Workers), p \in Hosts, id \in MCIdentities : WorkerStarts(w, p, id)
  \/ \E w \in Workers : WorkerStops(w)
  \/ \E w \in Workers, k \in KeysOrNone : WorkerChangesTenant(w, k)
  \/ \E c \in Conns : WorkerDrops(c)
  \/ ~Crowd /\ \E c \in Conns, p \in Ports : SetBridgePort(c, p)
  \/ Crowd /\ \E n \in Panels : PanelDisconnects(n) \/ \E t \in Tabs, k \in Keys : SkillsRequest(n, t, k)
  \/ \E c \in Conns : IdentityRejected(c)

Internal ==
  \/ StoredPortRead
  \/ BridgeScan \/ Heartbeat \/ Silence
  \/ \E p \in Ports : FastReconnect(p)
  \/ \E c \in Conns, w \in Workers : SocketOpens(c, w)
  \/ \E c \in Conns : SocketCloses(c)
  \/ \E c \in Conns : OtherFrame(c)
  \/ \E c \in Conns : Identity(c)
  \/ \E p \in Ports, t \in Tabs : CorrelateResolves(p, t)
  \/ \E c \in Conns, n \in Panels : SkillsReply(c, n)

MCInit ==
  /\ Init /\ spent = 0 /\ scene \in Scenes
  /\ openTabs \subseteq Cast(Tabs)
MCNext ==
  /\ UNCHANGED scene
  /\ \/ Internal /\ UNCHANGED spent
     \/ External /\ spent < Budget /\ spent' = spent + 1
MCSpec == MCInit /\ [][MCNext]_mcvars
MCFairSpec == MCSpec /\ Fairness
=============================================================================
