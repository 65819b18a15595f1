--------------------------- MODULE SessionRouting ---------------------------
(***************************************************************************)
(* The pure routing decisions of the service worker: session-routing.ts,   *)
(* sw-router.ts and the registry queries of bridge-discovery.ts.  The      *)
(* registry maps a bridge port to the identity its worker advertised in    *)
(* hello_ack, or to NoInfo.                                                *)
(*                                                                         *)
(* A session id "tab-<id>" is represented by the tab it names (sidForTab   *)
(* is injective); an id of any other form is represented by NoTab.  A key  *)
(* is the "tenant|env" string; NoKey is the null key.  The code returns    *)
(* the first match in Map insertion order: the operators return the set of *)
(* matches, and their callers choose any member.                           *)
(***************************************************************************)
EXTENDS Naturals

CONSTANTS
  Ports,    \* ports a worker may listen on
  Tabs,     \* browser tabs
  Keys,     \* tenant|env keys
  NoPort, NoTab, NoKey, NoInfo

ASSUME SentinelsAssumption ==
  /\ NoPort \notin Ports
  /\ NoTab \notin Tabs
  /\ NoKey \notin Keys

\* What a worker advertises, and BridgeInfo: the same with the age of its last
\* inbound frame.
Identities == [tab : Tabs \cup {NoTab}, key : Keys \cup {NoKey}]
BridgeInfos == [tab : Tabs \cup {NoTab}, key : Keys \cup {NoKey}, age : Nat]

ASSUME NoInfoAssumption == NoInfo \notin BridgeInfos

Registries == [Ports -> BridgeInfos \cup {NoInfo}]

-----------------------------------------------------------------------------
(* Registry queries *)

Registered(reg) == {p \in Ports : reg[p] # NoInfo}

\* portForTab: every port whose worker advertised the tab's session id.
PortsForTab(reg, t) == {p \in Registered(reg) : reg[p].tab = t}

\* staleTabPorts: on the tab's session id, but not advertising its current key.
StaleTabPorts(reg, t, k) == {p \in PortsForTab(reg, t) : reg[p].key # k}

\* resolveChatPort: the tab's session id AND exactly the expected key.
ResolveChatPort(reg, t, k) ==
  {p \in PortsForTab(reg, t) : reg[p].key # NoKey /\ reg[p].key = k}

\* portForTenant: every port reporting the tenant key.
PortsForTenant(reg, k) == {p \in Registered(reg) : k # NoKey /\ reg[p].key = k}

-----------------------------------------------------------------------------
(* Plans *)

\* planChatRequest and planSkillsRequest: the ports a request of tab t under
\* key k may be routed to; {} is the no-worker error (chat) or the skip
\* (skills).  A request without a tab or without a key is refused.
PlanPanelRequest(reg, open, t, k) ==
  {p \in ResolveChatPort(reg, t, k) : t # NoTab /\ k # NoKey /\ p \in open}

\* planToolRequest: the tab bound to the source port, NoTab to refuse.
PlanToolRequest(binding, p) == IF p = NoPort THEN NoTab ELSE binding[p]

\* planReTenant: the registry entries a navigation of t to key k evicts; {} is
\* the noop.
PlanReTenant(reg, t, k) == StaleTabPorts(reg, t, k)

\* The registry with the entries of the ports in S dropped.
Evict(reg, S) == [p \in Ports |-> IF p \in S THEN NoInfo ELSE reg[p]]
=============================================================================
