-------------------------- MODULE ConversationStore --------------------------
(***************************************************************************)
(* The side panel's conversations (references-store.ts, side-panel-store.ts *)
(* and, of use-panel.ts, switchToTenantSession, the debounced save and the  *)
(* handlers that write into the conversation shown): one conversation for   *)
(* each tenant and tab, kept in the memory of the panel's page.             *)
(*                                                                         *)
(* The store's functions are async but wait for nothing, so a handler and   *)
(* the switch it starts are over before the next message, timer or click.   *)
(* A conversation's messages are a set of marks, each with its turn: the    *)
(* prompt with its placeholder, an assistant item, its deltas by number,    *)
(* a tool notice, the notice that it could not be sent again. A prompt that *)
(* was never sent has no turn: its notice is a mark of NoTurn.              *)
(***************************************************************************)
EXTENDS Integers, FiniteSets

CONSTANTS
  Tabs, Keys, Turns,
  NoTab, NoKey, NoTurn, NoConvKey,
  MaxDelta,  \* bound: deltas of one turn
  MaxConv    \* bound: conversations made by one panel

ASSUME StoreAssumption ==
  /\ NoTab \notin Tabs /\ NoKey \notin Keys /\ NoTurn \notin Turns
  /\ NoConvKey \notin Keys \X Tabs
  /\ MaxDelta \in Nat /\ MaxConv \in Nat \ {0}

NoConv == 0
ConvIds == 1..MaxConv
ConvKeys == Keys \X Tabs
Prompt == 0
ItemStart == -1
Tool == -2
Unsent == -3
Marks == Turns \X (-3..MaxDelta) \cup {<<NoTurn, Unsent>>}

VARIABLES
  byTenant, byTab,   \* sessionIndex
  stored, saved,     \* conversations: their ids, and the messages of each
  conv, shown,       \* the conversation shown: its id and messages
  made,              \* conversations made so far
  boundTab, boundKey,
  phase,             \* "inactive", "readying" (the worker gate has not passed) or "ready"
  active,            \* the active turn
  saveTimer,         \* is the debounced save armed
  tabKey,            \* the tenant each tab shows, NoKey for no console
  activeTab,         \* the tab in front (Chrome)
  closed,            \* tabs that are closed
  told,              \* closed tabs the panel has been told of
  place,             \* history: where each turn was sent
  said,              \* deltas each turn's worker has said
  left               \* history: what a suspended turn's conversation had shown

index == <<byTenant, byTab, stored, saved>>
view == <<conv, shown, made>>
bound == <<boundTab, boundKey, phase>>
chrome == <<tabKey, activeTab, closed, told>>
turns == <<place, said>>
vars == <<index, view, bound, active, saveTimer, chrome, turns, left>>

TypeOK ==
  /\ byTenant \in [ConvKeys -> ConvIds \cup {NoConv}]
  /\ byTab \in [Tabs -> ConvKeys \cup {NoConvKey}]
  /\ stored \subseteq ConvIds /\ saved \in [ConvIds -> SUBSET Marks]
  /\ conv \in ConvIds /\ shown \subseteq Marks /\ made \in ConvIds
  /\ boundTab \in Tabs \cup {NoTab} /\ boundKey \in Keys \cup {NoKey}
  /\ phase \in {"inactive", "readying", "ready"}
  /\ active \in Turns \cup {NoTurn} /\ saveTimer \in BOOLEAN
  /\ tabKey \in [Tabs -> Keys \cup {NoKey}]
  /\ activeTab \in Tabs /\ told \subseteq closed /\ closed \subseteq Tabs
  /\ place \in [Turns -> ConvKeys \cup {NoConvKey}] /\ said \in [Turns -> 0..MaxDelta]
  /\ left \in [ConvIds -> SUBSET Marks]

-----------------------------------------------------------------------------
(* The store *)

\* saveConversation of the conversation shown, with messages msgs.
Save(msgs) == /\ stored' = stored \cup {conv}
              /\ saved' = [saved EXCEPT ![conv] = msgs]

\* Mutant of Discarded: the routing entries go, the transcript stays.
DiscardedEntries(t) ==
  [byTenant |-> [ck \in ConvKeys |-> IF ck = byTab[t] THEN NoConv ELSE byTenant[ck]],
   byTab |-> [byTab EXCEPT ![t] = NoConvKey],
   stored |-> stored]

\* Mutant of Discarded: the transcript goes, the tab's entries stay.
DiscardedTranscript(t) ==
  LET id == IF byTab[t] = NoConvKey THEN NoConv ELSE byTenant[byTab[t]]
  IN  [byTenant |-> byTenant, byTab |-> byTab, stored |-> stored \ {id}]

\* discardTabSession, removeTabSession: the tab's entries and its transcript.
Discarded(t) ==
  LET entries == [ck \in ConvKeys |-> IF ck = byTab[t] THEN NoConv ELSE byTenant[ck]]
      id == IF byTab[t] = NoConvKey THEN NoConv ELSE byTenant[byTab[t]]
  IN  [byTenant |-> entries,
       byTab |-> [byTab EXCEPT ![t] = NoConvKey],
       stored |-> IF \E ck \in ConvKeys : entries[ck] = id THEN stored ELSE stored \ {id}]

Kept == [byTenant |-> byTenant, byTab |-> byTab, stored |-> stored]

\* dispatch set_conv with a new conversation.
ShowNew == /\ made < MaxConv
           /\ made' = made + 1 /\ conv' = made + 1 /\ shown' = {}

\* Mutant of Session: conversations are found by tenant alone, as #166 had it.
SessionOfTenant(k, t) == <<k, CHOOSE u \in Tabs : TRUE>>

\* tabConvKey
Session(k, t) == <<k, t>>

\* switchToTenantSession: another tenant's transcript of the tab goes; the
\* place's own conversation is loaded, or made and indexed.
Switch(k, t) ==
  LET ck == Session(k, t)
      changed == byTab[t] \notin {NoConvKey, ck}
      store == IF changed THEN Discarded(t) ELSE Kept
      id == store.byTenant[ck]
  IN  /\ saveTimer' = (saveTimer /\ ~changed)
      /\ IF id # NoConv /\ id \in store.stored
         THEN /\ byTenant' = store.byTenant /\ byTab' = store.byTab
              /\ stored' = store.stored
              /\ conv' = id /\ shown' = saved[id]
              /\ UNCHANGED <<made, saved>>
         ELSE /\ ShowNew
              /\ byTenant' = [store.byTenant EXCEPT ![ck] = conv']
              /\ byTab' = [store.byTab EXCEPT ![t] = ck]
              /\ stored' = store.stored \cup {conv'}
              /\ saved' = [saved EXCEPT ![conv'] = {}]

-----------------------------------------------------------------------------
(* Gates *)

\* Mutant of KeepsPartial: a suspended turn's conversation is not saved.
KeepsNothing(t) == FALSE

\* Does the gate suspend a running turn: only when the panel moves to another tab.
KeepsPartial(t) == active # NoTurn /\ t # boundTab

\* gateToActiveTab for the tab in front: a turn is suspended with what it has
\* shown; the panel is bound to the tab and waits for its worker, or is inactive.
Gate ==
  LET t == activeTab
      k == tabKey[t]
      suspends == active # NoTurn /\ t # boundTab
      same == t = boundTab /\ k = boundKey
  IN  /\ t \notin closed
      /\ saveTimer' = (saveTimer /\ t = boundTab)
      /\ IF KeepsPartial(t) THEN Save(shown) ELSE UNCHANGED <<stored, saved>>
      /\ active' = IF suspends THEN NoTurn ELSE active
      /\ left' = IF suspends THEN [left EXCEPT ![conv] = shown] ELSE left
      /\ \/ k # NoKey /\ same /\ phase = "ready" /\ UNCHANGED <<bound, view>>
         \/ /\ k # NoKey /\ ~(same /\ phase = "ready")
            /\ boundTab' = t /\ boundKey' = k /\ phase' = "readying" /\ UNCHANGED view
         \/ /\ k = NoKey
            /\ boundTab' = NoTab /\ boundKey' = NoKey /\ phase' = "inactive" /\ ShowNew
  /\ UNCHANGED <<byTenant, byTab, chrome, turns>>

\* The worker gate passes: the place's conversation is shown.
WorkerGatePasses ==
  /\ phase = "readying"
  /\ phase' = "ready"
  /\ Switch(boundKey, boundTab)
  /\ UNCHANGED <<left, boundTab, boundKey, active, chrome, turns>>

\* The worker of a ready panel vanishes: a fresh run for the same tab.
WorkerVanishes ==
  /\ phase = "ready"
  /\ phase' = "readying"
  /\ UNCHANGED <<left, index, view, boundTab, boundKey, active, saveTimer, chrome, turns>>

\* Mutant of TabClosedTold: the panel is told of a tab that only navigated.
TabClosedToldEarly(t) ==
  /\ t \notin told
  /\ told' = told \cup {t}
  /\ saveTimer' = FALSE
  /\ UNCHANGED <<index, view, bound, active, tabKey, activeTab, closed, turns, left>>

\* tab_closed: the tab's turn is aborted, its session discarded.
TabClosedTold(t) ==
  /\ t \in closed \ told
  /\ told' = told \cup {t}
  /\ saveTimer' = FALSE
  /\ active' = IF t = boundTab THEN NoTurn ELSE active
  /\ LET store == Discarded(t)
     IN  byTenant' = store.byTenant /\ byTab' = store.byTab /\ stored' = store.stored
  /\ UNCHANGED <<left, saved, view, bound, tabKey, activeTab, closed, turns>>

-----------------------------------------------------------------------------
(* What writes into the conversation shown *)

\* sendMessage in a panel that is not ready: the prompt and a notice that it was not
\* sent go into the conversation shown, which is saved at once, and no turn begins. An
\* inactive panel takes any prompt; while the gates run the composer is locked, but the
\* Retry of a turn that failed in the conversation shown is not.
Notify(u) ==
  /\ phase # "ready" /\ active = NoTurn
  /\ u # NoTurn => <<u, Prompt>> \in shown
  /\ shown' = shown \cup {<<u, Unsent>>}
  /\ Save(shown')
  /\ UNCHANGED <<left, byTenant, byTab, conv, made, bound, active, saveTimer, chrome, turns>>

\* sendMessage, with a debounced save; the answer to a question resumes the
\* conversation with a turn of its own and without one.
Send(t) ==
  /\ phase = "ready" /\ active = NoTurn /\ place[t] = NoConvKey
  /\ active' = t
  /\ place' = [place EXCEPT ![t] = <<boundKey, boundTab>>]
  /\ shown' = shown \cup {<<t, Prompt>>}
  /\ saveTimer' \in {TRUE, saveTimer}
  /\ UNCHANGED <<left, index, conv, made, bound, chrome, said>>

\* chat_message_start and chat_tool_notice add a message to whatever conversation
\* is shown, whatever turn is active; a delta only adds to an item the conversation has.
Item(t) ==
  /\ active = t
  /\ shown' = shown \cup {<<t, ItemStart>>}
  /\ Save(shown')
  /\ UNCHANGED <<left, byTenant, byTab, conv, made, bound, active, saveTimer, chrome, turns>>

ToolNotice(t) ==
  /\ active = t
  /\ shown' = shown \cup {<<t, Tool>>}
  /\ saveTimer' = TRUE
  /\ UNCHANGED <<left, index, conv, made, bound, active, chrome, turns>>

Delta(t) ==
  /\ active = t /\ said[t] < MaxDelta
  /\ said' = [said EXCEPT ![t] = @ + 1]
  /\ shown' = IF <<t, ItemStart>> \in shown THEN shown \cup {<<t, said'[t]>>} ELSE shown
  /\ saveTimer' = TRUE
  /\ UNCHANGED <<left, index, conv, made, bound, active, chrome, place>>

\* chat_done, chat_error, Stop, the watchdog: the turn ends and is saved at once.
TurnEnds ==
  /\ active # NoTurn
  /\ active' = NoTurn
  /\ Save(shown)
  /\ UNCHANGED <<left, byTenant, byTab, view, bound, saveTimer, chrome, turns>>

\* A refused answer ends its turn without a save.
AnswerRefused ==
  /\ active # NoTurn
  /\ active' = NoTurn
  /\ UNCHANGED <<left, index, view, bound, saveTimer, chrome, turns>>

\* setMode and recordAnswer save the conversation shown as it is.
SavesAtOnce ==
  /\ phase # "readying"
  /\ Save(shown)
  /\ UNCHANGED <<left, byTenant, byTab, view, bound, active, saveTimer, chrome, turns>>

SaveTimerFires ==
  /\ saveTimer
  /\ saveTimer' = FALSE
  /\ Save(shown)
  /\ UNCHANGED <<left, byTenant, byTab, view, bound, active, chrome, turns>>

-----------------------------------------------------------------------------
(* Tabs (Chrome) *)

TabActivated(t) ==
  /\ t \notin closed /\ t # activeTab
  /\ activeTab' = t
  /\ UNCHANGED <<left, index, view, bound, active, saveTimer, tabKey, closed, told, turns>>

TabNavigates(t, k) ==
  /\ t \notin closed /\ tabKey[t] # k
  /\ tabKey' = [tabKey EXCEPT ![t] = k]
  /\ UNCHANGED <<left, index, view, bound, active, saveTimer, activeTab, closed, told, turns>>

\* The tab in front closes and another comes to the front.
TabCloses(t, next) ==
  /\ t \notin closed /\ next \notin closed \cup {t}
  /\ t # activeTab => next = activeTab
  /\ closed' = closed \cup {t}
  /\ activeTab' = next
  /\ UNCHANGED <<left, index, view, bound, active, saveTimer, tabKey, told, turns>>

-----------------------------------------------------------------------------
Init ==
  /\ byTenant = [ck \in ConvKeys |-> NoConv] /\ byTab = [t \in Tabs |-> NoConvKey]
  /\ stored = {} /\ saved = [i \in ConvIds |-> {}]
  /\ conv = 1 /\ shown = {} /\ made = 1
  /\ boundTab = NoTab /\ boundKey = NoKey /\ phase = "inactive"
  /\ active = NoTurn /\ saveTimer = FALSE
  /\ tabKey \in [Tabs -> Keys \cup {NoKey}] /\ activeTab \in Tabs
  /\ closed = {} /\ told = {}
  /\ place = [t \in Turns |-> NoConvKey] /\ said = [t \in Turns |-> 0]
  /\ left = [i \in ConvIds |-> {}]

Next ==
  \/ Gate \/ WorkerGatePasses \/ WorkerVanishes
  \/ TurnEnds \/ AnswerRefused \/ SavesAtOnce \/ SaveTimerFires
  \/ \E u \in Turns \cup {NoTurn} : Notify(u)
  \/ \E t \in Turns : Send(t) \/ Item(t) \/ ToolNotice(t) \/ Delta(t)
  \/ \E t \in Tabs : TabActivated(t) \/ TabClosedTold(t)
  \/ \E t, next \in Tabs : TabCloses(t, next)
  \/ \E t \in Tabs, k \in Keys \cup {NoKey} : TabNavigates(t, k)

Spec == Init /\ [][Next]_vars

-----------------------------------------------------------------------------
(* Properties *)

\* The messages of turns, and where those were sent.
OfTurns(msgs) == {m \in msgs : m[1] # NoTurn}
PlacesOf(msgs) == {place[m[1]] : m \in OfTurns(msgs)}

\* The conversation kept for a tenant and a tab, and the one a ready panel shows,
\* hold only what was asked and answered there: a same-tab tenant change carries
\* nothing of the prior tenant's, two tabs of one tenant keep distinct transcripts.
ConversationsStayApart ==
  /\ \A ck \in ConvKeys :
       byTenant[ck] \in stored => PlacesOf(saved[byTenant[ck]]) \subseteq {ck}
  /\ phase = "ready" => PlacesOf(shown) \subseteq {<<boundKey, boundTab>>}

\* The index and the transcripts agree: a tab's key leads to a conversation that is
\* stored, and a conversation that holds anything of a turn, what was written about its
\* failed retries included, is one that the index leads to.
IndexLeadsToTranscripts ==
  /\ \A t \in Tabs : byTab[t] # NoConvKey => byTenant[byTab[t]] \in stored
  /\ \A i \in stored : OfTurns(saved[i]) # {} => \E ck \in ConvKeys : byTenant[ck] = i

\* Once the panel has been told that a tab closed, no transcript of it is stored.
NothingOutlivesItsTab ==
  \A i \in stored : \A ck \in PlacesOf(saved[i]) : ck[2] \notin told

\* A turn suspended by a move to another tab loses nothing it had shown: "returning
\* to that tab shows the partial result (not blank)".
SuspendedIsShownAgain == phase = "ready" => left[conv] \subseteq shown
=============================================================================
