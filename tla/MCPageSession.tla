---------------------------- MODULE MCPageSession ----------------------------
(***************************************************************************)
(* Instances of PageSession for TLC.  A behaviour plays in one of the       *)
(* scenes of the configuration.  "bind": bindings overlap, with an event of *)
(* the network.  "wait": one binding at a time, and the buffer drops an     *)
(* entry.                                                                   *)
(***************************************************************************)
EXTENDS PageSession, TLC

CONSTANTS
  Scenes,
  Budget,     \* bound: moves of the user, the tabs, the workers and the turns
  MaxRefused  \* bound: open tabs whose last move Chrome refused

VARIABLES scene, spent

mcvars == <<vars, scene, spent>>

Allowance == IF scene = "bind" THEN Budget ELSE Budget - 1

External ==
  \/ TurnToggles
  \/ \E c \in Calls, t \in Tabs : TabActivated(c, t) \/ ToolBinds(c, t) \/ TabCloses(c, t)
  \/ \E c \in Calls, t \in Tabs, p \in Pages : TabNavigates(c, t, p)
  \/ \E t \in Tabs : BuildStarts(t)
  \/ \E t \in Tabs, own \in BOOLEAN : Detached(t, own)
  \/ \E w \in Waits, t \in Tabs : WaitStarts(w, t)

Internal ==
  \/ BuildEnds
  \/ \E c \in Calls : Ungrouped(c) \/ AttachEnds(c)
  \/ \E t \in Tabs, hit \in BOOLEAN : NetworkEvent(t, hit)
  \/ \E b \in pending : BodyArrives(b) \/ BodyIsLost(b)
  \/ \E w \in Waits : Observed(w) \/ Scan(w) \/ TimesOut(w)

MCInit == Init /\ spent = 0 /\ scene \in Scenes
MCNext ==
  /\ \/ Internal /\ UNCHANGED spent
     \/ External /\ spent < Allowance /\ spent' = spent + 1
  /\ UNCHANGED scene
  /\ Cardinality({t \in refused' : page[t] # Gone}) <= IF scene = "bind" THEN MaxRefused ELSE 0
  /\ scene = "bind" => Cardinality(past') <= 1
  /\ scene = "wait" => Cardinality({c \in Calls : calls'[c].pc # "free"}) <= 1
Symmetry == Permutations(Calls) \cup Permutations(Waits) \cup Permutations(Tenants)
MCSpec == MCInit /\ [][MCNext]_mcvars
=============================================================================
