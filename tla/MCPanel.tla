------------------------------- MODULE MCPanel -------------------------------
(***************************************************************************)
(* Instances of Panel for TLC.  What the panel and the service worker do by *)
(* themselves always happens; a configuration bounds with a budget what     *)
(* comes from outside: the user, the tabs, the workers' sockets and frames, *)
(* and, unless FreeTimers, the expiry of a timer. A behaviour plays in one  *)
(* of the scenes of the configuration.                                      *)
(***************************************************************************)
EXTENDS Panel, FiniteSets, TLC

CONSTANTS Budget,     \* bound: external events in one behaviour
          FreeTimers, \* timers may expire at any time, outside the budget
          Scenes      \* "switch": tabs of one tenant; "retenant": tenants of one tab

VARIABLES scene, home, spent

mcvars == <<vars, scene, home, spent>>

\* home: the tab in front at the start, the only console, and its tenant.
SceneTabs == IF scene = "retenant" THEN {home.tab} ELSE Tabs
SceneKeys == IF scene = "switch" THEN {home.key} ELSE Keys

External ==
  \/ User
  \/ ~FreeTimers /\ PanelTimer
  \/ \E r \in Requests, kind \in ChatKinds : TurnFrame(r, kind)
  \/ \E r \in PageRequests : PageFails(r)
  \/ \E t \in SceneTabs, k \in SceneKeys : WorkerOpens(t, k) \/ WorkerCloses(t, k)
  \/ Heartbeat \/ Scan
  \/ \E t \in SceneTabs : PageSettles(t) \/ TabActivated(t)
  \/ \E t \in SceneTabs, k \in SceneKeys \cup {NoKey} : TabNavigated(t, k)
  \/ \E t, next \in SceneTabs : TabCloses(t, next)

\* A worker repeats its identity only after an eviction.
Internal ==
  \/ PanelHandler
  \/ FreeTimers /\ PanelTimer
  \/ \E r \in Requests : RouteTurn(r)
  \/ \E r \in PageRequests : PageBuilt(r)
  \/ \E t \in Tabs, k \in Keys : WorkerIdentifies(t, k) /\ registry' # registry

MCInit ==
  /\ Init /\ spent = 0
  /\ {t \in Tabs : tabKey[t] # NoKey} = {activeTab}
  /\ scene \in Scenes /\ home = [tab |-> activeTab, key |-> tabKey[activeTab]]
  \* xcsh runs for the console, or not yet
  /\ registry \in {tabKey, [t \in Tabs |-> NoKey]}

\* Bounds of a scene beyond those of the configuration.
Allowance == IF scene = "switch" THEN Budget - 1 ELSE Budget
Calm ==
  scene = "retenant" /\ Cardinality(Tabs) > 1 =>
    /\ Cardinality({i \in TurnIds : InFlight(i)'}) <= 1
    /\ Len(inbox) < MaxInbox - 1 \/ Len(inbox') <= Len(inbox)

MCNext ==
  /\ UNCHANGED <<scene, home>>
  /\ \/ Internal /\ UNCHANGED spent
     \/ External /\ spent < Allowance /\ spent' = spent + 1
  /\ Calm

MCSpec == MCInit /\ [][MCNext]_mcvars
Symmetry == Permutations(Tabs) \cup Permutations(Keys) \cup Permutations(TurnIds)
MCFairSpec == MCSpec /\ Fairness
=============================================================================
