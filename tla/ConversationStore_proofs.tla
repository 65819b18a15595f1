----------------------- MODULE ConversationStore_proofs -----------------------
(***************************************************************************)
(* Theorems about ConversationStore for every set of tabs, tenants and      *)
(* turns: its types, the index of its conversations and what a suspended    *)
(* turn leaves; of behaviours in which turns keep their tenants, that       *)
(* conversations stay apart; and, where the panel is not used in a tab that *)
(* it knows to be closed, that no transcript outlives its tab.              *)
(***************************************************************************)
EXTENDS ConversationStore, TLAPS

-----------------------------------------------------------------------------
(* What holds of every behaviour *)

\* Where the panel is bound.
Here == <<boundKey, boundTab>>
Indexed(ck) == byTenant[ck] # NoConv

\* A conversation that has not been made yet is nowhere.
NumberedOnce ==
  /\ conv <= made
  /\ \A ck \in ConvKeys : Indexed(ck) => byTenant[ck] <= made
  /\ \A i \in ConvIds : i > made => i \notin stored /\ saved[i] = {} /\ left[i] = {}

\* Nothing that a suspended turn's conversation had shown is taken from it.
LeftIsKept ==
  /\ \A i \in ConvIds : left[i] \subseteq saved[i]
  /\ left[conv] \subseteq shown

\* A tab has one conversation at most, under its own key, and no other tab has it.
OneForTab ==
  /\ \A t \in Tabs : byTab[t] # NoConvKey => byTab[t][2] = t
  /\ \A ck \in ConvKeys : Indexed(ck) <=> byTab[ck[2]] = ck
  /\ \A ck, dk \in ConvKeys : Indexed(ck) /\ byTenant[ck] = byTenant[dk] => ck = dk
  /\ \A ck \in ConvKeys : Indexed(ck) => byTenant[ck] \in stored

\* A panel that is not inactive is bound to a tenant's tab.
BoundToPlace == phase # "inactive" => Here \in ConvKeys

StoreInv == TypeOK /\ NumberedOnce /\ LeftIsKept /\ OneForTab /\ BoundToPlace

-----------------------------------------------------------------------------
(* While turns keep their tenants *)

\* The tab that a turn was sent from keeps its tenant while the turn is active.
TurnKeepsTenant == active # NoTurn => tabKey[boundTab] = boundKey

\* The messages in msgs are of turns that were sent from ck.
AllFrom(msgs, ck) == \A m \in OfTurns(msgs) : place[m[1]] = ck
AllSent(msgs) == \A m \in OfTurns(msgs) : place[m[1]] # NoConvKey

\* The conversation shown is of the place where the panel is bound, or of none.
ShowsHere == AllFrom(shown, Here) /\ \A ck \in ConvKeys : byTenant[ck] = conv => ck = Here

ApartInv ==
  /\ AllSent(shown) /\ \A i \in ConvIds : AllSent(saved[i])
  /\ phase = "inactive" => active = NoTurn /\ OfTurns(shown) = {}
  /\ phase = "ready" => ShowsHere
  /\ active # NoTurn => ShowsHere /\ place[active] = Here
  /\ \A ck \in ConvKeys : byTenant[ck] = conv => AllFrom(shown, ck)
  /\ \A ck \in ConvKeys : Indexed(ck) => AllFrom(saved[byTenant[ck]], ck)

-----------------------------------------------------------------------------
(* While the panel is not used in a tab that it knows to be closed *)

InputsInTime ==
  /\ (SavesAtOnce \/ \E t \in Turns : Send(t)) => boundTab \notin told
  /\ (\E u \in Turns \cup {NoTurn} : Notify(u)) => \A ck \in PlacesOf(shown) : ck[2] \notin told

\* The conversation shown is in the index, for a tab that is open as far as the panel knows.
Live == \E ck \in ConvKeys : byTenant[ck] = conv
\* What it shows was sent in tabs that the panel knows to be closed.
ShownIsClosed == \A ck \in PlacesOf(shown) : ck[2] \in told
\* It is not in the index, and nothing but a retry will save it.
Unsaved ==
  /\ active = NoTurn /\ ~saveTimer
  /\ phase = "readying" \/ (phase = "ready" /\ boundTab \in told)

TidyInv ==
  /\ OfTurns(shown) = {} \/ Live \/ Unsaved
  /\ Live \/ ShownIsClosed
  /\ phase = "ready" => byTenant[Here] = conv \/ Unsaved
  /\ active # NoTurn => byTenant[Here] = conv /\ boundTab \notin told
  /\ \A i \in stored : OfTurns(saved[i]) # {} => \E ck \in ConvKeys : byTenant[ck] = i
  /\ \A ck \in ConvKeys : ck[2] \in told /\ Indexed(ck) => OfTurns(saved[byTenant[ck]]) = {}
  /\ \A ck \in ConvKeys : ck[2] \in told /\ byTenant[ck] = conv => OfTurns(shown) = {}
-----------------------------------------------------------------------------
(* The index *)

\* The index entries that are not of tab t.
Others(t) == [dk \in ConvKeys |-> IF dk[2] = t THEN NoConv ELSE byTenant[dk]]

\* Discarding a tab's session takes its entry, and no other, from the index.
LEMMA DiscardIndex ==
  ASSUME StoreInv, NEW t \in Tabs
  PROVE  /\ Discarded(t).byTenant = Others(t)
         /\ Discarded(t).byTab = [byTab EXCEPT ![t] = NoConvKey]
         /\ Discarded(t).stored \subseteq stored
<1>1. \A ck \in ConvKeys :
        (IF ck = byTab[t] THEN NoConv ELSE byTenant[ck]) = Others(t)[ck]
  <2> SUFFICES ASSUME NEW ck \in ConvKeys
               PROVE  (IF ck = byTab[t] THEN NoConv ELSE byTenant[ck]) = Others(t)[ck]
    OBVIOUS
  <2>1. Others(t)[ck] = IF ck[2] = t THEN NoConv ELSE byTenant[ck]
    BY DEF Others
  <2>2. ck = byTab[t] => ck[2] = t
    BY StoreAssumption DEF StoreInv, OneForTab, ConvKeys
  <2>3. ck[2] = t /\ ck # byTab[t] => byTenant[ck] = NoConv
    BY DEF StoreInv, OneForTab, Indexed
  <2>4. QED BY <2>1, <2>2, <2>3
<1>2. [ck \in ConvKeys |-> IF ck = byTab[t] THEN NoConv ELSE byTenant[ck]] = Others(t)
  BY <1>1 DEF Others
<1>3. QED BY <1>2 DEF Discarded

\* What is still in the index is still stored, and what is stored and was in the
\* index is still in it.
LEMMA DiscardStored ==
  ASSUME StoreInv, NEW t \in Tabs
  PROVE  /\ \A ck \in ConvKeys : Others(t)[ck] # NoConv => Others(t)[ck] \in Discarded(t).stored
         /\ \A i \in Discarded(t).stored :
              (\E ck \in ConvKeys : byTenant[ck] = i) => \E ck \in ConvKeys : Others(t)[ck] = i
<1> DEFINE id == IF byTab[t] = NoConvKey THEN NoConv ELSE byTenant[byTab[t]]
<1>1. Discarded(t).stored = IF \E ck \in ConvKeys : Discarded(t).byTenant[ck] = id
                            THEN stored ELSE stored \ {id}
  BY DEF Discarded
<1>2. Discarded(t).stored = IF \E ck \in ConvKeys : Others(t)[ck] = id
                            THEN stored ELSE stored \ {id}
  BY <1>1, DiscardIndex
<1>3. \A ck \in ConvKeys : Others(t)[ck] # NoConv => Others(t)[ck] \in stored
  BY DEF Others, StoreInv, OneForTab, Indexed
<1>4. ASSUME NEW i \in Discarded(t).stored, NEW ck \in ConvKeys, byTenant[ck] = i
      PROVE  \E dk \in ConvKeys : Others(t)[dk] = i
  <2>1. i \in stored /\ i # NoConv
    BY <1>2 DEF StoreInv, TypeOK, ConvIds, NoConv
  <2>2. CASE ck[2] # t
    BY <1>4, <2>2 DEF Others
  <2>3. CASE ck[2] = t
    <3>1. byTab[t] = ck /\ id = i
      BY <1>4, <2>1, <2>3, StoreAssumption DEF StoreInv, OneForTab, Indexed, ConvKeys
    <3>2. QED BY <1>2, <3>1
  <2>4. QED BY <2>2, <2>3
<1>5. QED BY <1>2, <1>3, <1>4

\* switchToTenantSession finds the place's own conversation and leaves the index.
Finds(ck) ==
  /\ Indexed(ck)
  /\ conv' = byTenant[ck] /\ shown' = saved[byTenant[ck]]
  /\ UNCHANGED <<index, made, saveTimer>>

\* Or it makes one, the only one of the tab, in an index without the tab's prior entry.
Makes(ck) ==
  /\ made < MaxConv /\ made' = made + 1 /\ conv' = made + 1 /\ shown' = {}
  /\ byTenant' = [dk \in ConvKeys |-> IF dk = ck THEN made + 1 ELSE Others(ck[2])[dk]]
  /\ byTab' = [byTab EXCEPT ![ck[2]] = ck]
  /\ saved' = [saved EXCEPT ![made + 1] = {}]
  /\ saveTimer' \in {saveTimer, FALSE}
  /\ \E kept \in SUBSET stored :
       /\ stored' = kept \cup {made + 1}
       /\ \A dk \in ConvKeys : Others(ck[2])[dk] # NoConv => Others(ck[2])[dk] \in kept
       /\ \A i \in kept : (\E dk \in ConvKeys : byTenant[dk] = i) =>
                            \E dk \in ConvKeys : Others(ck[2])[dk] = i

LEMMA SwitchEffect ==
  ASSUME StoreInv, NEW k \in Keys, NEW t \in Tabs, Switch(k, t)
  PROVE  Finds(<<k, t>>) \/ Makes(<<k, t>>)
<1> DEFINE ck == <<k, t>>
           changed == byTab[t] \notin {NoConvKey, ck}
<1>1. ck \in ConvKeys /\ ck[2] = t
  BY DEF ConvKeys
<1>2. byTenant \in [ConvKeys -> ConvIds \cup {NoConv}] /\ byTab \in [Tabs -> ConvKeys \cup {NoConvKey}]
  BY DEF StoreInv, TypeOK
<1>3. CASE changed
  <2>1. Others(t)[ck] = NoConv
    BY <1>1 DEF Others
  <2>2. /\ saveTimer' = (saveTimer /\ ~changed)
        /\ ShowNew
        /\ byTenant' = [Discarded(t).byTenant EXCEPT ![ck] = conv']
        /\ byTab' = [Discarded(t).byTab EXCEPT ![t] = ck]
        /\ stored' = Discarded(t).stored \cup {conv'}
        /\ saved' = [saved EXCEPT ![conv'] = {}]
    BY <1>3, <2>1, DiscardIndex DEF Switch, Session
  <2>3. byTenant' = [dk \in ConvKeys |-> IF dk = ck THEN made + 1 ELSE Others(t)[dk]]
    BY <2>2, DiscardIndex DEF ShowNew, Others
  <2>4. byTab' = [byTab EXCEPT ![t] = ck]
    BY <1>2, <2>2, DiscardIndex
  <2>5. saveTimer' \in {saveTimer, FALSE}
    BY <1>3, <2>2
  <2>6. QED BY <1>1, <2>2, <2>3, <2>4, <2>5, DiscardIndex, DiscardStored DEF Makes, ShowNew
<1>4. CASE ~changed /\ byTab[t] = ck
  <2>1. Indexed(ck) /\ byTenant[ck] \in stored
    BY <1>1, <1>4 DEF StoreInv, OneForTab
  <2>2. saveTimer' = (saveTimer /\ ~changed)
    BY DEF Switch, Session
  <2>3. saveTimer' = saveTimer
    BY <1>4, <2>2 DEF StoreInv, TypeOK
  <2>4. /\ byTenant' = byTenant /\ byTab' = byTab /\ stored' = stored /\ saved' = saved
        /\ made' = made /\ conv' = byTenant[ck] /\ shown' = saved[byTenant[ck]]
    BY <1>4, <2>1 DEF Switch, Session, Kept, Indexed
  <2>5. QED BY <2>1, <2>3, <2>4 DEF Finds, index
<1>5. CASE ~changed /\ byTab[t] # ck
  <2>1. byTab[t] = NoConvKey
    BY <1>5
  <2>2. \A dk \in ConvKeys : dk[2] = t => byTenant[dk] = NoConv
    BY <2>1, StoreAssumption DEF StoreInv, OneForTab, Indexed, ConvKeys
  <2>3. byTenant = Others(t)
    BY <1>2, <2>2 DEF Others
  <2>4. byTenant[ck] = NoConv
    BY <1>1, <2>2
  <2>5. /\ saveTimer' = (saveTimer /\ ~changed)
        /\ ShowNew
        /\ byTenant' = [byTenant EXCEPT ![ck] = conv']
        /\ byTab' = [byTab EXCEPT ![t] = ck]
        /\ stored' = stored \cup {conv'}
        /\ saved' = [saved EXCEPT ![conv'] = {}]
    BY <1>5, <2>4 DEF Switch, Session, Kept
  <2>6. byTenant' = [dk \in ConvKeys |-> IF dk = ck THEN made + 1 ELSE Others(t)[dk]]
    BY <1>2, <2>3, <2>5 DEF ShowNew
  <2>7. saveTimer' \in {saveTimer, FALSE}
    BY <1>5, <2>5 DEF StoreInv, TypeOK
  <2>8. \A dk \in ConvKeys : Others(t)[dk] # NoConv => Others(t)[dk] \in stored
    BY <2>3 DEF StoreInv, OneForTab, Indexed
  <2>9. QED BY <1>1, <2>3, <2>5, <2>6, <2>7, <2>8 DEF Makes, ShowNew
<1>6. QED BY <1>3, <1>4, <1>5

-----------------------------------------------------------------------------
(* What holds of every behaviour *)

LEMMA InitStore == Init => StoreInv
<1> SUFFICES ASSUME Init PROVE StoreInv
  OBVIOUS
<1>1. TypeOK
  <2>1. 1 \in ConvIds /\ 0 \in 0..MaxDelta
    BY StoreAssumption DEF ConvIds
  <2>2. byTenant \in [ConvKeys -> ConvIds \cup {NoConv}] /\ byTab \in [Tabs -> ConvKeys \cup {NoConvKey}]
    BY DEF Init
  <2>3. saved \in [ConvIds -> SUBSET Marks] /\ left \in [ConvIds -> SUBSET Marks]
    BY DEF Init
  <2>4. place \in [Turns -> ConvKeys \cup {NoConvKey}] /\ said \in [Turns -> 0..MaxDelta]
    BY <2>1 DEF Init
  <2>5. QED BY <2>1, <2>2, <2>3, <2>4 DEF Init, TypeOK
<1>2. NumberedOnce /\ LeftIsKept
  BY <1>1 DEF Init, NumberedOnce, LeftIsKept, Indexed, TypeOK
<1>3. OneForTab
  <2>1. \A ck \in ConvKeys : ~Indexed(ck) /\ ck[2] \in Tabs /\ byTab[ck[2]] # ck
    BY StoreAssumption DEF Init, Indexed, ConvKeys
  <2>2. QED BY <2>1 DEF Init, OneForTab
<1>4. QED BY <1>1, <1>2, <1>3 DEF Init, BoundToPlace, StoreInv

\* A handler that writes into the conversation shown, if at all, and saves it or not.
Writes ==
  /\ UNCHANGED <<byTenant, byTab, conv, made, left>>
  /\ shown \subseteq shown' /\ shown' \subseteq Marks
  /\ UNCHANGED <<stored, saved>> \/ Save(shown')

LEMMA WritesStore ==
  ASSUME StoreInv, Writes
  PROVE  /\ NumberedOnce' /\ LeftIsKept' /\ OneForTab'
         /\ stored' \subseteq ConvIds /\ saved' \in [ConvIds -> SUBSET Marks]
<1>1. TypeOK /\ NumberedOnce /\ LeftIsKept /\ OneForTab
  BY DEF StoreInv
<1>2. stored \subseteq stored' /\ stored' \subseteq stored \cup {conv}
  BY DEF Writes, Save
<1>3. saved' \in [ConvIds -> SUBSET Marks] /\ \A i \in ConvIds \ {conv} : saved'[i] = saved[i]
  BY <1>1 DEF Writes, Save, TypeOK
<1>4. saved'[conv] = saved[conv] \/ saved'[conv] = shown'
  BY <1>1 DEF Writes, Save, TypeOK
<1>5. NumberedOnce'
  BY <1>1, <1>2, <1>3 DEF NumberedOnce, Writes, Indexed, TypeOK, ConvIds
<1>6. LeftIsKept'
  <2>1. left[conv] \subseteq shown'
    BY <1>1 DEF LeftIsKept, Writes
  <2>2. \A i \in ConvIds : left[i] \subseteq saved'[i]
    BY <1>1, <1>3, <1>4, <2>1 DEF LeftIsKept
  <2>3. QED BY <2>1, <2>2 DEF LeftIsKept, Writes
<1>7. OneForTab'
  BY <1>1, <1>2 DEF OneForTab, Writes, Indexed
<1>8. stored' \subseteq ConvIds
  BY <1>1, <1>2 DEF TypeOK
<1>9. QED BY <1>3, <1>5, <1>6, <1>7, <1>8

\* Each handler that does no more.
LEMMA Writers ==
  ASSUME StoreInv,
         \/ WorkerVanishes \/ TurnEnds \/ AnswerRefused \/ SavesAtOnce \/ SaveTimerFires
         \/ \E u \in Turns \cup {NoTurn} : Notify(u)
         \/ \E t \in Turns : Send(t) \/ Item(t) \/ ToolNotice(t) \/ Delta(t)
         \/ \E t \in Tabs : TabActivated(t)
         \/ \E t, next \in Tabs : TabCloses(t, next)
         \/ \E t \in Tabs, k \in Keys \cup {NoKey} : TabNavigates(t, k)
  PROVE  Writes /\ TypeOK' /\ BoundToPlace'
<1>1. TypeOK /\ BoundToPlace /\ shown \subseteq Marks
  BY DEF StoreInv, TypeOK
<1>2. \A t \in Turns : \A n \in -3..MaxDelta : <<t, n>> \in Marks
  BY DEF Marks
<1>3. {Prompt, ItemStart, Tool, Unsent} \subseteq -3..MaxDelta
  BY StoreAssumption DEF Prompt, ItemStart, Tool, Unsent
<1>4. CASE WorkerVanishes
  <2>1. Writes BY <1>1, <1>4 DEF WorkerVanishes, Writes, index, view
  <2>2. QED BY <1>1, <1>4, <2>1
            DEF WorkerVanishes, TypeOK, BoundToPlace, Here, index, view, chrome, turns
<1>5. CASE TurnEnds
  <2>1. Writes BY <1>1, <1>5 DEF TurnEnds, Writes, view
  <2>2. QED BY <1>1, <1>5, <2>1, WritesStore
            DEF TurnEnds, TypeOK, BoundToPlace, Here, bound, view, chrome, turns
<1>6. CASE AnswerRefused
  <2>1. Writes BY <1>1, <1>6 DEF AnswerRefused, Writes, index, view
  <2>2. QED BY <1>1, <1>6, <2>1
            DEF AnswerRefused, TypeOK, BoundToPlace, Here, index, bound, view, chrome, turns
<1>7. CASE SavesAtOnce
  <2>1. Writes BY <1>1, <1>7 DEF SavesAtOnce, Writes, view
  <2>2. QED BY <1>1, <1>7, <2>1, WritesStore
            DEF SavesAtOnce, TypeOK, BoundToPlace, Here, bound, view, chrome, turns
<1>8. CASE SaveTimerFires
  <2>1. Writes BY <1>1, <1>8 DEF SaveTimerFires, Writes, view
  <2>2. QED BY <1>1, <1>8, <2>1, WritesStore
            DEF SaveTimerFires, TypeOK, BoundToPlace, Here, bound, view, chrome, turns
<1>9. ASSUME NEW t \in Turns, Send(t) PROVE Writes /\ TypeOK' /\ BoundToPlace'
  <2>1. Writes BY <1>1, <1>2, <1>3, <1>9 DEF Send, Writes, index
  <2>2. <<boundKey, boundTab>> \in ConvKeys
    BY <1>1, <1>9 DEF BoundToPlace, Here, Send
  <2>3. place' \in [Turns -> ConvKeys \cup {NoConvKey}] /\ saveTimer' \in BOOLEAN
    BY <1>1, <1>9, <2>2 DEF Send, TypeOK
  <2>4. QED BY <1>1, <1>9, <2>1, <2>3
            DEF Send, TypeOK, BoundToPlace, Here, Writes, index, bound, chrome
<1>10. ASSUME NEW t \in Turns, Item(t) PROVE Writes /\ TypeOK' /\ BoundToPlace'
  <2>1. Writes BY <1>1, <1>2, <1>3, <1>10 DEF Item, Writes
  <2>2. QED BY <1>1, <1>10, <2>1, WritesStore
            DEF Item, TypeOK, BoundToPlace, Here, Writes, bound, chrome, turns
<1>11. ASSUME NEW t \in Turns, ToolNotice(t) PROVE Writes /\ TypeOK' /\ BoundToPlace'
  <2>1. Writes BY <1>1, <1>2, <1>3, <1>11 DEF ToolNotice, Writes, index
  <2>2. QED BY <1>1, <1>11, <2>1
            DEF ToolNotice, TypeOK, BoundToPlace, Here, Writes, index, bound, chrome, turns
<1>12. ASSUME NEW t \in Turns, Delta(t) PROVE Writes /\ TypeOK' /\ BoundToPlace'
  <2>1. said'[t] = said[t] + 1 /\ said' \in [Turns -> 0..MaxDelta] /\ said'[t] \in -3..MaxDelta
    BY <1>1, <1>12, StoreAssumption DEF Delta, TypeOK
  <2>2. Writes BY <1>1, <1>2, <1>12, <2>1 DEF Delta, Writes, index
  <2>3. QED BY <1>1, <1>12, <2>1, <2>2
            DEF Delta, TypeOK, BoundToPlace, Here, Writes, index, bound, chrome
<1>13. ASSUME NEW t \in Tabs, TabActivated(t) PROVE Writes /\ TypeOK' /\ BoundToPlace'
  <2>1. Writes BY <1>1, <1>13 DEF TabActivated, Writes, index, view
  <2>2. QED BY <1>1, <1>13, <2>1
            DEF TabActivated, TypeOK, BoundToPlace, Here, index, bound, view, turns
<1>14. ASSUME NEW t \in Tabs, NEW next \in Tabs, TabCloses(t, next)
       PROVE  Writes /\ TypeOK' /\ BoundToPlace'
  <2>1. Writes BY <1>1, <1>14 DEF TabCloses, Writes, index, view
  <2>2. QED BY <1>1, <1>14, <2>1
            DEF TabCloses, TypeOK, BoundToPlace, Here, index, bound, view, turns
<1>15. ASSUME NEW t \in Tabs, NEW k \in Keys \cup {NoKey}, TabNavigates(t, k)
       PROVE  Writes /\ TypeOK' /\ BoundToPlace'
  <2>1. Writes BY <1>1, <1>15 DEF TabNavigates, Writes, index, view
  <2>2. QED BY <1>1, <1>15, <2>1
            DEF TabNavigates, TypeOK, BoundToPlace, Here, index, bound, view, turns
<1>16. ASSUME NEW u \in Turns \cup {NoTurn}, Notify(u) PROVE Writes /\ TypeOK' /\ BoundToPlace'
  <2>1. <<u, Unsent>> \in Marks
    BY <1>2, <1>3 DEF Marks
  <2>2. Writes BY <1>1, <1>16, <2>1 DEF Notify, Writes
  <2>3. QED BY <1>1, <1>16, <2>2, WritesStore
            DEF Notify, TypeOK, BoundToPlace, Here, Writes, bound, chrome, turns
<1>17. QED BY <1>4, <1>5, <1>6, <1>7, <1>8, <1>9, <1>10, <1>11, <1>12, <1>13, <1>14, <1>15, <1>16

LEMMA GateStore == ASSUME StoreInv, Gate PROVE StoreInv'
<1> DEFINE suspends == active # NoTurn /\ activeTab # boundTab
<1>1. TypeOK /\ NumberedOnce /\ LeftIsKept /\ OneForTab /\ BoundToPlace
  BY DEF StoreInv
<1>2. IF suspends
      THEN stored' = stored \cup {conv} /\ saved' = [saved EXCEPT ![conv] = shown]
           /\ left' = [left EXCEPT ![conv] = shown] /\ active' = NoTurn
      ELSE UNCHANGED <<stored, saved, left, active>>
  BY DEF Gate, KeepsPartial, Save
<1>3. /\ stored \subseteq stored' /\ stored' \subseteq stored \cup {conv}
      /\ saved' \in [ConvIds -> SUBSET Marks] /\ left' \in [ConvIds -> SUBSET Marks]
      /\ \A i \in ConvIds \ {conv} : saved'[i] = saved[i] /\ left'[i] = left[i]
      /\ left'[conv] \subseteq shown /\ left'[conv] \subseteq saved'[conv]
  BY <1>1, <1>2 DEF TypeOK, LeftIsKept
<1>4. UNCHANGED view \/ (ShowNew /\ phase' = "inactive")
  BY DEF Gate
<1>5. \/ UNCHANGED bound
      \/ /\ phase' = "readying" /\ boundTab' = activeTab /\ boundKey' \in Keys
         /\ UNCHANGED view
      \/ phase' = "inactive" /\ boundTab' = NoTab /\ boundKey' = NoKey
  BY <1>1 DEF Gate, bound, TypeOK
<1>6. /\ made' \in ConvIds /\ conv' \in ConvIds /\ shown' \subseteq Marks
      /\ conv' <= made' /\ made <= made'
      /\ (conv' = conv /\ shown' = shown) \/ (conv' = made + 1 /\ shown' = {})
  BY <1>1, <1>4, StoreAssumption DEF view, ShowNew, TypeOK, ConvIds, NumberedOnce
<1>7. /\ boundTab' \in Tabs \cup {NoTab} /\ boundKey' \in Keys \cup {NoKey}
      /\ phase' \in {"inactive", "readying", "ready"}
  BY <1>1, <1>5 DEF TypeOK, bound
<1>8. active' \in Turns \cup {NoTurn} /\ saveTimer' \in BOOLEAN
  BY <1>1 DEF Gate, TypeOK
<1>9. TypeOK'
  BY <1>1, <1>3, <1>6, <1>7, <1>8 DEF Gate, TypeOK, chrome, turns
<1>10. NumberedOnce'
  <2>1. \A ck \in ConvKeys : Indexed(ck)' => byTenant'[ck] <= made'
    BY <1>1, <1>6 DEF Gate, NumberedOnce, Indexed, TypeOK, ConvIds, NoConv
  <2>2. ASSUME NEW i \in ConvIds, i > made'
        PROVE  i \notin stored' /\ saved'[i] = {} /\ left'[i] = {}
    <3>1. i > made /\ i # conv
      BY <1>1, <1>6, <2>2 DEF NumberedOnce, TypeOK, ConvIds
    <3>2. QED BY <1>1, <1>3, <3>1 DEF NumberedOnce
  <2>3. QED BY <1>6, <2>1, <2>2 DEF NumberedOnce
<1>11. LeftIsKept'
  <2>1. \A i \in ConvIds : left'[i] \subseteq saved'[i]
    BY <1>1, <1>3 DEF LeftIsKept
  <2>2. conv' = made + 1 => left'[conv'] = {}
    <3>1. conv' = made + 1 => conv' > made /\ conv' # conv
      BY <1>1 DEF NumberedOnce, TypeOK, ConvIds
    <3>2. QED BY <1>1, <1>3, <1>6, <3>1 DEF NumberedOnce
  <2>3. QED BY <1>3, <1>6, <2>1, <2>2 DEF LeftIsKept
<1>12. OneForTab'
  BY <1>1, <1>3 DEF Gate, OneForTab, Indexed
<1>13. BoundToPlace'
  BY <1>1, <1>5 DEF BoundToPlace, Here, ConvKeys, bound, TypeOK
<1>14. QED BY <1>9, <1>10, <1>11, <1>12, <1>13 DEF StoreInv

LEMMA SwitchStore == ASSUME StoreInv, WorkerGatePasses PROVE StoreInv'
<1> DEFINE ck == <<boundKey, boundTab>>
<1>1. TypeOK /\ NumberedOnce /\ LeftIsKept /\ OneForTab /\ BoundToPlace
  BY DEF StoreInv
<1>2. boundKey \in Keys /\ boundTab \in Tabs /\ ck \in ConvKeys
  BY <1>1 DEF WorkerGatePasses, BoundToPlace, Here, ConvKeys
<1>3. Finds(ck) \/ Makes(ck)
  BY <1>2, SwitchEffect DEF WorkerGatePasses
<1>4. /\ phase' = "ready" /\ BoundToPlace'
      /\ UNCHANGED <<left, boundTab, boundKey, active, tabKey, activeTab, closed, told, place, said>>
  BY <1>2 DEF WorkerGatePasses, BoundToPlace, Here, chrome, turns
<1>5. CASE Finds(ck)
  <2>1. conv' \in ConvIds /\ conv' <= made
    BY <1>1, <1>2, <1>5 DEF Finds, NumberedOnce, Indexed, TypeOK
  <2>2. /\ shown' = saved[conv'] /\ saved[conv'] \subseteq Marks
        /\ UNCHANGED <<byTenant, byTab, stored, saved, made, saveTimer>>
    BY <1>1, <1>5, <2>1 DEF Finds, index, TypeOK
  <2>3. TypeOK'
    BY <1>1, <1>4, <2>1, <2>2 DEF TypeOK
  <2>4. NumberedOnce'
    BY <1>1, <1>4, <2>1, <2>2 DEF NumberedOnce, Indexed
  <2>5. LeftIsKept'
    BY <1>1, <1>4, <2>1, <2>2 DEF LeftIsKept
  <2>6. OneForTab'
    BY <1>1, <2>2 DEF OneForTab, Indexed
  <2>7. QED BY <1>4, <2>3, <2>4, <2>5, <2>6 DEF StoreInv
<1>6. CASE Makes(ck)
  <2>1. /\ made + 1 \in ConvIds /\ made + 1 > made /\ made + 1 # NoConv
        /\ made' = made + 1 /\ conv' = made + 1 /\ shown' = {}
    BY <1>1, <1>6, StoreAssumption DEF Makes, TypeOK, ConvIds, NoConv
  <2>2. PICK kept \in SUBSET stored :
          /\ stored' = kept \cup {made + 1}
          /\ \A dk \in ConvKeys : Others(boundTab)[dk] # NoConv => Others(boundTab)[dk] \in kept
    BY <1>6 DEF Makes
  <2>3. \A dk \in ConvKeys :
          byTenant'[dk] = IF dk = ck THEN made + 1
                          ELSE IF dk[2] = boundTab THEN NoConv ELSE byTenant[dk]
    BY <1>6 DEF Makes, Others
  <2>4. \A t \in Tabs : byTab'[t] = IF t = boundTab THEN ck ELSE byTab[t]
    BY <1>1, <1>6 DEF Makes, TypeOK
  <2>5. byTenant' \in [ConvKeys -> ConvIds \cup {NoConv}] /\ byTab' \in [Tabs -> ConvKeys \cup {NoConvKey}]
    <3>1. \A dk \in ConvKeys : byTenant'[dk] \in ConvIds \cup {NoConv}
      BY <1>1, <2>1, <2>3 DEF TypeOK
    <3>2. byTenant' = [dk \in ConvKeys |-> byTenant'[dk]]
      BY <1>6 DEF Makes
    <3>3. QED BY <1>1, <1>2, <1>6, <3>1, <3>2 DEF Makes, TypeOK
  <2>6. \A i \in ConvIds : saved'[i] = IF i = made + 1 THEN {} ELSE saved[i]
    BY <1>1, <1>6 DEF Makes, TypeOK
  <2>7. saved' \in [ConvIds -> SUBSET Marks]
    BY <1>1, <1>6 DEF Makes, TypeOK
  <2>8. TypeOK'
    BY <1>1, <1>4, <1>6, <2>1, <2>2, <2>5, <2>7 DEF Makes, TypeOK
  <2>9. \A dk \in ConvKeys : byTenant'[dk] = made + 1 => dk = ck
    BY <1>1, <2>1, <2>3 DEF NumberedOnce, Indexed, TypeOK, ConvIds
  <2>10. NumberedOnce'
    <3>1. \A dk \in ConvKeys : Indexed(dk)' => byTenant'[dk] <= made'
      BY <1>1, <2>1, <2>3 DEF NumberedOnce, Indexed, TypeOK, ConvIds
    <3>2. \A i \in ConvIds : i > made' => i \notin stored' /\ saved'[i] = {} /\ left'[i] = {}
      BY <1>1, <1>4, <2>1, <2>2, <2>6 DEF NumberedOnce, TypeOK, ConvIds
    <3>3. QED BY <1>1, <2>1, <3>1, <3>2 DEF NumberedOnce, TypeOK, ConvIds
  <2>11. LeftIsKept'
    <3>1. left[made + 1] = {}
      BY <1>1, <2>1 DEF NumberedOnce
    <3>2. \A i \in ConvIds : left[i] \subseteq saved'[i]
      BY <1>1, <2>6, <3>1 DEF LeftIsKept
    <3>3. QED BY <1>4, <2>1, <3>1, <3>2 DEF LeftIsKept
  <2>12. OneForTab'
    <3>1. \A t \in Tabs : byTab'[t] # NoConvKey => byTab'[t][2] = t
      BY <1>1, <2>4 DEF OneForTab
    <3>2. \A dk \in ConvKeys : dk[2] \in Tabs
      BY DEF ConvKeys
    <3>3. \A dk \in ConvKeys : Indexed(dk)' <=> byTab'[dk[2]] = dk
      BY <1>1, <1>2, <2>1, <2>3, <2>4, <3>2 DEF OneForTab, Indexed
    <3>4. \A dk, ek \in ConvKeys : Indexed(dk)' /\ byTenant'[dk] = byTenant'[ek] => dk = ek
      BY <1>1, <2>3, <2>9 DEF OneForTab, Indexed
    <3>5. \A dk \in ConvKeys : Indexed(dk)' => byTenant'[dk] \in stored'
      BY <2>2, <2>3 DEF Indexed, Others
    <3>6. QED BY <3>1, <3>3, <3>4, <3>5 DEF OneForTab
  <2>13. QED BY <1>4, <2>8, <2>10, <2>11, <2>12 DEF StoreInv
<1>7. QED BY <1>3, <1>5, <1>6

LEMMA CloseStore == ASSUME StoreInv, NEW t \in Tabs, TabClosedTold(t) PROVE StoreInv'
<1>1. TypeOK /\ NumberedOnce /\ LeftIsKept /\ OneForTab /\ BoundToPlace
  BY DEF StoreInv
<1>2. /\ byTenant' = Others(t) /\ byTab' = [byTab EXCEPT ![t] = NoConvKey]
      /\ stored' = Discarded(t).stored /\ stored' \subseteq stored
  BY DiscardIndex DEF TabClosedTold
<1>3. \A ck \in ConvKeys : byTenant'[ck] = IF ck[2] = t THEN NoConv ELSE byTenant[ck]
  BY <1>2 DEF Others
<1>4. \A ck \in ConvKeys : Indexed(ck)' => byTenant'[ck] \in stored'
  BY <1>2, DiscardStored DEF Indexed
<1>5. UNCHANGED <<left, saved, conv, shown, made, boundTab, boundKey, phase, tabKey, activeTab, closed,
                  place, said>>
  BY DEF TabClosedTold, view, bound, turns
<1>6. active' \in Turns \cup {NoTurn} /\ saveTimer' \in BOOLEAN /\ told' \subseteq closed
  BY <1>1 DEF TabClosedTold, TypeOK
<1>7. byTenant' \in [ConvKeys -> ConvIds \cup {NoConv}] /\ byTab' \in [Tabs -> ConvKeys \cup {NoConvKey}]
  BY <1>1, <1>2 DEF TypeOK, Others
<1>8. TypeOK'
  BY <1>1, <1>2, <1>5, <1>6, <1>7 DEF TypeOK
<1>9. NumberedOnce' /\ LeftIsKept' /\ BoundToPlace'
  BY <1>1, <1>2, <1>3, <1>5 DEF NumberedOnce, LeftIsKept, BoundToPlace, Here, Indexed
<1>10. OneForTab'
  <2>1. \A u \in Tabs : byTab'[u] = IF u = t THEN NoConvKey ELSE byTab[u]
    BY <1>1, <1>2 DEF TypeOK
  <2>2. \A ck \in ConvKeys : ck[2] \in Tabs /\ ck # NoConvKey
    BY StoreAssumption DEF ConvKeys
  <2>3. \A ck \in ConvKeys : Indexed(ck)' <=> byTab'[ck[2]] = ck
    BY <1>1, <1>3, <2>1, <2>2 DEF OneForTab, Indexed
  <2>4. QED BY <1>1, <1>3, <1>4, <2>1, <2>3 DEF OneForTab, Indexed
<1>11. QED BY <1>8, <1>9, <1>10 DEF StoreInv

LEMMA StepStore == ASSUME StoreInv, [Next]_vars PROVE StoreInv'
<1>1. CASE \/ WorkerVanishes \/ TurnEnds \/ AnswerRefused \/ SavesAtOnce \/ SaveTimerFires
           \/ \E u \in Turns \cup {NoTurn} : Notify(u)
           \/ \E t \in Turns : Send(t) \/ Item(t) \/ ToolNotice(t) \/ Delta(t)
           \/ \E t \in Tabs : TabActivated(t)
           \/ \E t, next \in Tabs : TabCloses(t, next)
           \/ \E t \in Tabs, k \in Keys \cup {NoKey} : TabNavigates(t, k)
  BY <1>1, Writers, WritesStore DEF StoreInv
<1>2. CASE UNCHANGED vars
  BY <1>2 DEF vars, index, view, bound, chrome, turns, StoreInv, TypeOK, NumberedOnce, LeftIsKept,
              OneForTab, BoundToPlace, Indexed, Here
<1>3. QED BY <1>1, <1>2, GateStore, SwitchStore, CloseStore DEF Next

\* The conversations, the index and the bindings are of their types: no handler
\* numbers a conversation beyond those made or indexes one without a tab.
THEOREM StoreTypesCorrect == Spec => []TypeOK
<1>1. StoreInv => TypeOK
  BY DEF StoreInv
<1>2. QED BY <1>1, InitStore, StepStore, PTL DEF Spec

\* gateToActiveTab saves what a suspended turn had shown, and no later save of that
\* conversation is of less: a ready panel that is back there shows it.
THEOREM SuspendedShown == Spec => []SuspendedIsShownAgain
<1>1. StoreInv => SuspendedIsShownAgain
  BY DEF StoreInv, LeftIsKept, SuspendedIsShownAgain
<1>2. QED BY <1>1, InitStore, StepStore, PTL DEF Spec

-----------------------------------------------------------------------------
(* Conversations stay apart *)

LEMMA InitApart == Init => ApartInv
BY DEF Init, ApartInv, AllSent, AllFrom, OfTurns, Indexed, ConvIds, NoConv

\* A writer that adds to the conversation shown only what is of the active turn, or of
\* a turn that it has already, and that sends no turn.
LEMMA WritesApart ==
  ASSUME StoreInv, ApartInv, Writes,
         UNCHANGED <<place, phase, boundTab, boundKey>>,
         active' \in {active, NoTurn},
         \A m \in OfTurns(shown') : \/ \E n \in OfTurns(shown) : n[1] = m[1]
                                    \/ m[1] = active /\ active # NoTurn
  PROVE  ApartInv'
<1>1. /\ UNCHANGED <<byTenant, conv>> /\ Here' = Here /\ shown \subseteq shown'
      /\ conv \in ConvIds /\ saved \in [ConvIds -> SUBSET Marks]
      /\ active # NoTurn => Here \in ConvKeys
  BY DEF StoreInv, TypeOK, BoundToPlace, ApartInv, Writes, Here
<1>2. \A m \in OfTurns(shown') : \/ \E n \in OfTurns(shown) : place[n[1]] = place[m[1]]
                                 \/ active # NoTurn /\ place[m[1]] = Here
  BY DEF ApartInv
<1>3. AllSent(shown)' /\ (active # NoTurn => AllFrom(shown, Here)')
  <2>1. active # NoTurn => Here # NoConvKey
    BY <1>1, StoreAssumption DEF ConvKeys
  <2>2. \A n \in OfTurns(shown) : place[n[1]] # NoConvKey /\ (active # NoTurn => place[n[1]] = Here)
    BY DEF ApartInv, AllSent, AllFrom, ShowsHere
  <2>3. \A m \in OfTurns(shown') : place[m[1]] # NoConvKey /\ (active # NoTurn => place[m[1]] = Here)
    BY <1>2, <2>1, <2>2
  <2>4. QED BY <1>1, <2>3 DEF AllSent, AllFrom
<1>4. \A i \in ConvIds : saved'[i] = saved[i] \/ (i = conv /\ saved'[i] = shown')
  BY <1>1 DEF Writes, Save
<1>5. active = NoTurn => \A m \in OfTurns(shown') : \E n \in OfTurns(shown) : place[n[1]] = place[m[1]]
  BY <1>2
<1>6. phase' = "ready" => ShowsHere'
  BY <1>1, <1>3, <1>5 DEF ApartInv, ShowsHere, AllFrom, OfTurns
<1>7. active' # NoTurn => ShowsHere' /\ place'[active'] = Here'
  BY <1>1, <1>3 DEF ApartInv, ShowsHere, AllFrom
<1>8. \A ck \in ConvKeys : byTenant'[ck] = conv' => AllFrom(shown, ck)'
  <2>1. CASE active = NoTurn
    BY <1>1, <1>5, <2>1 DEF ApartInv, AllFrom, OfTurns
  <2>2. CASE active # NoTurn
    BY <1>1, <1>3, <2>2 DEF ApartInv, ShowsHere, AllFrom
  <2>3. QED BY <2>1, <2>2
<1>9. \A ck \in ConvKeys : Indexed(ck)' => AllFrom(saved[byTenant[ck]], ck)'
  <2>1. \A ck \in ConvKeys : Indexed(ck) => byTenant[ck] \in ConvIds
    BY DEF StoreInv, TypeOK, Indexed
  <2>2. QED BY <1>1, <1>4, <1>8, <2>1 DEF ApartInv, AllFrom, Indexed
<1>10. \A i \in ConvIds : AllSent(saved[i])'
  BY <1>3, <1>4 DEF ApartInv, AllSent
<1>11. phase' = "inactive" => active' = NoTurn /\ OfTurns(shown') = {}
  BY <1>5 DEF ApartInv
<1>12. QED BY <1>3, <1>6, <1>7, <1>8, <1>9, <1>10, <1>11 DEF ApartInv

LEMMA SendApart ==
  ASSUME StoreInv, ApartInv, NEW t \in Turns, Send(t)
  PROVE  ApartInv'
<1>1. /\ UNCHANGED <<byTenant, conv, saved, phase, boundTab, boundKey>> /\ Here' = Here
      /\ conv \in ConvIds /\ saved \in [ConvIds -> SUBSET Marks] /\ shown \subseteq Marks
      /\ phase = "ready" /\ Here \in ConvKeys /\ Here # NoConvKey
  BY StoreAssumption DEF StoreInv, TypeOK, BoundToPlace, Send, Here, index, bound, ConvKeys
<1>2. \A m \in OfTurns(Marks) : /\ m[1] \in Turns
                                /\ place'[m[1]] = IF m[1] = t THEN Here ELSE place[m[1]]
  BY DEF StoreInv, TypeOK, Send, Here, Marks, OfTurns
<1>3. \A m \in OfTurns(Marks) : place[m[1]] # NoConvKey => place'[m[1]] = place[m[1]]
  BY <1>2 DEF Send
<1>4. place'[t] = Here /\ active' = t /\ t # NoTurn
  BY StoreAssumption DEF StoreInv, TypeOK, Send, Here
<1>5. ShowsHere' /\ AllSent(shown)'
  <2>1. \A m \in shown' : m \in shown \/ m[1] = t
    BY DEF Send
  <2>2. \A m \in OfTurns(shown') : place'[m[1]] = Here
    BY <1>1, <1>3, <1>4, <2>1 DEF ApartInv, ShowsHere, AllFrom, OfTurns
  <2>3. QED BY <1>1, <2>2 DEF ApartInv, ShowsHere, AllFrom, AllSent
<1>6. \A i \in ConvIds : \A m \in OfTurns(saved[i]) : place'[m[1]] = place[m[1]] /\ place[m[1]] # NoConvKey
  BY <1>1, <1>3 DEF ApartInv, AllSent, OfTurns
<1>7. \A i \in ConvIds : AllSent(saved[i])'
  BY <1>1, <1>6 DEF AllSent
<1>8. \A ck \in ConvKeys : Indexed(ck)' => AllFrom(saved[byTenant[ck]], ck)'
  <2>1. \A ck \in ConvKeys : Indexed(ck) => byTenant[ck] \in ConvIds
    BY DEF StoreInv, TypeOK, Indexed
  <2>2. QED BY <1>1, <1>6, <2>1 DEF ApartInv, AllFrom, Indexed
<1>9. \A ck \in ConvKeys : byTenant'[ck] = conv' => AllFrom(shown, ck)'
  BY <1>1, <1>5 DEF ShowsHere, AllFrom
<1>10. QED BY <1>1, <1>4, <1>5, <1>7, <1>8, <1>9 DEF ApartInv

LEMMA GateApart ==
  ASSUME StoreInv, ApartInv, TurnKeepsTenant, Gate
  PROVE  ApartInv'
<1> DEFINE suspends == active # NoTurn /\ activeTab # boundTab
<1>1. /\ UNCHANGED <<byTenant, place>>
      /\ conv \in ConvIds /\ saved \in [ConvIds -> SUBSET Marks]
  BY DEF StoreInv, TypeOK, Gate, turns
<1>2. /\ active' = IF suspends THEN NoTurn ELSE active
      /\ \A i \in ConvIds : saved'[i] = saved[i] \/ (i = conv /\ saved'[i] = shown)
  BY <1>1 DEF Gate, KeepsPartial, Save
<1>3. \A i \in ConvIds : AllSent(saved[i])'
  BY <1>1, <1>2 DEF ApartInv, AllSent
<1>4. \A ck \in ConvKeys : Indexed(ck)' => AllFrom(saved[byTenant[ck]], ck)'
  <2>1. \A ck \in ConvKeys : Indexed(ck) => byTenant[ck] \in ConvIds
    BY DEF StoreInv, TypeOK, Indexed
  <2>2. QED BY <1>1, <1>2, <2>1 DEF ApartInv, AllFrom, Indexed
<1>5. \/ /\ UNCHANGED <<bound, view>>
         /\ activeTab = boundTab /\ phase = "ready"
      \/ /\ boundTab' = activeTab /\ boundKey' = tabKey[activeTab] /\ phase' = "readying"
         /\ UNCHANGED view
      \/ tabKey[activeTab] = NoKey /\ phase' = "inactive" /\ ShowNew
  BY DEF Gate
<1>6. CASE UNCHANGED <<bound, view>> /\ activeTab = boundTab /\ phase = "ready"
  <2>1. /\ UNCHANGED <<conv, shown, active, boundTab, boundKey, phase>> /\ Here' = Here
    BY <1>2, <1>6 DEF bound, view, Here
  <2>2. QED BY <1>1, <1>3, <1>4, <2>1 DEF ApartInv, AllSent, AllFrom, ShowsHere
<1>7. CASE boundTab' = activeTab /\ boundKey' = tabKey[activeTab] /\ phase' = "readying" /\ UNCHANGED view
  <2>1. UNCHANGED <<conv, shown>>
    BY <1>7 DEF view
  <2>2. active' # NoTurn => active' = active /\ Here' = Here
    BY <1>2, <1>7 DEF TurnKeepsTenant, Here
  <2>3. active' # NoTurn => ShowsHere' /\ place'[active'] = Here'
    BY <1>1, <2>1, <2>2 DEF ApartInv, AllFrom, ShowsHere
  <2>4. QED BY <1>1, <1>3, <1>4, <1>7, <2>1, <2>3 DEF ApartInv, AllSent, AllFrom
<1>8. CASE tabKey[activeTab] = NoKey /\ phase' = "inactive" /\ ShowNew
  <2>1. active # NoTurn => boundKey # NoKey
    BY StoreAssumption DEF StoreInv, BoundToPlace, ApartInv, Here, ConvKeys
  <2>2. active' = NoTurn
    BY <1>2, <1>8, <2>1 DEF TurnKeepsTenant
  <2>3. shown' = {} /\ conv' = made + 1 /\ conv' # NoConv
    BY <1>8 DEF ShowNew, StoreInv, TypeOK, ConvIds, NoConv
  <2>4. \A ck \in ConvKeys : byTenant'[ck] # conv'
    BY <1>1, <2>3 DEF StoreInv, NumberedOnce, TypeOK, Indexed, ConvIds, NoConv
  <2>5. QED BY <1>3, <1>4, <1>8, <2>2, <2>3, <2>4 DEF ApartInv, AllSent, OfTurns
<1>9. QED BY <1>5, <1>6, <1>7, <1>8

LEMMA SwitchApart ==
  ASSUME StoreInv, ApartInv, WorkerGatePasses
  PROVE  ApartInv'
<1>1. /\ phase' = "ready" /\ Here \in ConvKeys /\ Here' = Here /\ UNCHANGED <<active, place>>
      /\ boundKey \in Keys /\ boundTab \in Tabs /\ Switch(boundKey, boundTab)
  BY DEF WorkerGatePasses, StoreInv, BoundToPlace, Here, ConvKeys, turns
<1>2. Finds(Here) \/ Makes(Here)
  BY <1>1, SwitchEffect DEF Here
<1>3. \A ck \in ConvKeys : Indexed(ck) => byTenant[ck] \in ConvIds
  BY DEF StoreInv, TypeOK, Indexed
<1>4. CASE Finds(Here)
  <2>1. /\ UNCHANGED <<byTenant, saved>> /\ shown' = saved[byTenant[Here]] /\ Indexed(Here)
        /\ conv' = byTenant[Here]
    BY <1>4 DEF Finds, index
  <2>2. \A ck \in ConvKeys : byTenant'[ck] = conv' => ck = Here
    BY <1>1, <2>1 DEF StoreInv, OneForTab
  <2>3. AllFrom(shown, Here)' /\ AllSent(shown)'
    BY <1>1, <1>3, <2>1 DEF ApartInv, AllFrom, AllSent
  <2>4. QED BY <1>1, <2>1, <2>2, <2>3 DEF ApartInv, AllFrom, AllSent, ShowsHere, Indexed
<1>5. CASE Makes(Here)
  <2>1. /\ made + 1 \in ConvIds /\ made + 1 # NoConv /\ conv' = made + 1 /\ shown' = {}
    BY <1>5, StoreAssumption DEF Makes, StoreInv, TypeOK, ConvIds, NoConv
  <2>2. \A i \in ConvIds : saved'[i] = IF i = made + 1 THEN {} ELSE saved[i]
    BY <1>5 DEF Makes, StoreInv, TypeOK
  <2>3. \A ck \in ConvKeys :
          byTenant'[ck] = IF ck = Here THEN made + 1
                          ELSE IF ck[2] = boundTab THEN NoConv ELSE byTenant[ck]
    BY <1>5 DEF Makes, Others, Here
  <2>4. \A ck \in ConvKeys : byTenant[ck] # made + 1
    BY <2>1 DEF StoreInv, NumberedOnce, TypeOK, Indexed, ConvIds, NoConv
  <2>5. \A ck \in ConvKeys : byTenant'[ck] = conv' => ck = Here
    BY <2>1, <2>3, <2>4
  <2>6. \A ck \in ConvKeys : Indexed(ck)' => AllFrom(saved[byTenant[ck]], ck)'
    BY <1>1, <1>3, <2>1, <2>2, <2>3, <2>4 DEF ApartInv, AllFrom, OfTurns, Indexed
  <2>7. \A i \in ConvIds : AllSent(saved[i])'
    BY <1>1, <2>2 DEF ApartInv, AllSent, OfTurns
  <2>8. QED BY <1>1, <2>1, <2>5, <2>6, <2>7 DEF ApartInv, AllFrom, AllSent, OfTurns, ShowsHere
<1>6. QED BY <1>2, <1>4, <1>5

LEMMA CloseApart ==
  ASSUME StoreInv, ApartInv, NEW t \in Tabs, TabClosedTold(t)
  PROVE  ApartInv'
<1>1. /\ UNCHANGED <<saved, conv, shown, boundTab, boundKey, phase, place>> /\ Here' = Here
      /\ active' \in {active, NoTurn}
  BY DEF TabClosedTold, view, bound, turns, Here
<1>2. \A ck \in ConvKeys : byTenant'[ck] \in {byTenant[ck], NoConv}
  <2>1. byTenant' = Others(t)
    BY DiscardIndex DEF TabClosedTold
  <2>2. QED BY <2>1 DEF Others
<1>3. conv # NoConv
  BY DEF StoreInv, TypeOK, ConvIds, NoConv
<1>4. QED BY <1>1, <1>2, <1>3 DEF ApartInv, AllFrom, AllSent, ShowsHere, Indexed

LEMMA StepApart ==
  ASSUME StoreInv, ApartInv, TurnKeepsTenant, [Next]_vars
  PROVE  ApartInv'
<1>1. CASE \/ WorkerVanishes \/ TurnEnds \/ AnswerRefused \/ SavesAtOnce \/ SaveTimerFires
           \/ \E t \in Tabs : TabActivated(t)
           \/ \E t, next \in Tabs : TabCloses(t, next)
           \/ \E t \in Tabs, k \in Keys \cup {NoKey} : TabNavigates(t, k)
  <2>1. Writes
    BY <1>1, Writers
  <2>2. /\ UNCHANGED <<place, boundTab, boundKey, shown>> /\ active' \in {active, NoTurn}
        /\ phase' = phase \/ (phase = "ready" /\ phase' = "readying")
        /\ \A m \in OfTurns(shown') : \E n \in OfTurns(shown) : n[1] = m[1]
    BY <1>1 DEF WorkerVanishes, TurnEnds, AnswerRefused, SavesAtOnce, SaveTimerFires, TabActivated,
                TabCloses, TabNavigates, bound, view, turns
  <2>3. CASE phase' = phase
    BY <2>1, <2>2, <2>3, WritesApart
  <2>4. CASE WorkerVanishes
    BY <2>4 DEF WorkerVanishes, ApartInv, AllFrom, AllSent, ShowsHere, Indexed, Here, index, view, turns
  <2>5. QED BY <1>1, <2>3, <2>4 DEF TurnEnds, AnswerRefused, SavesAtOnce, SaveTimerFires, TabActivated,
                                    TabCloses, TabNavigates, bound
<1>2. ASSUME NEW t \in Turns, Item(t) \/ ToolNotice(t) \/ Delta(t)
      PROVE  ApartInv'
  <2>1. Writes
    BY <1>2, Writers
  <2>2. /\ UNCHANGED <<place, phase, boundTab, boundKey, active>> /\ t = active /\ active # NoTurn
        /\ \A m \in shown' \ shown : m[1] = t
    BY <1>2, StoreAssumption DEF Item, ToolNotice, Delta, bound, turns
  <2>3. \A m \in OfTurns(shown') : m \in OfTurns(shown) \/ m[1] = active
    BY <2>2 DEF OfTurns
  <2>4. QED BY <2>1, <2>2, <2>3, WritesApart
<1>3. ASSUME NEW u \in Turns \cup {NoTurn}, Notify(u)
      PROVE  ApartInv'
  <2>1. Writes
    BY <1>3, Writers
  <2>2. UNCHANGED <<place, phase, boundTab, boundKey, active>>
    BY <1>3 DEF Notify, bound, turns
  <2>3. \A m \in OfTurns(shown') : \E n \in OfTurns(shown) : n[1] = m[1]
    <3>1. \A m \in shown' : m \in shown \/ m = <<u, Unsent>>
      BY <1>3 DEF Notify
    <3>2. u # NoTurn => <<u, Prompt>> \in OfTurns(shown)
      BY <1>3 DEF Notify, OfTurns
    <3>3. QED BY <3>1, <3>2 DEF OfTurns
  <2>4. QED BY <2>1, <2>2, <2>3, WritesApart
<1>4. CASE UNCHANGED vars
  BY <1>4 DEF vars, index, view, bound, turns, ApartInv, AllFrom, AllSent, ShowsHere, Indexed, Here
<1>5. QED BY <1>1, <1>2, <1>3, <1>4, SendApart, GateApart, SwitchApart, CloseApart DEF Next

\* A conversation holds only what was asked and answered in its own tab under its own
\* tenant: the index gives each tab and tenant one of its own, and what a turn writes
\* into the conversation shown is of the place where it was sent. So it is while no
\* tab changes its tenant under a running turn (where it may, see the relogin run).
THEOREM StaysApart == Spec /\ []TurnKeepsTenant => []ConversationsStayApart
<1>1. StoreInv /\ ApartInv => ConversationsStayApart
  <2> SUFFICES ASSUME StoreInv, ApartInv PROVE ConversationsStayApart
    OBVIOUS
  <2>1. \A ck \in ConvKeys : byTenant[ck] \in stored => Indexed(ck)
    BY DEF StoreInv, TypeOK, ConvIds, NoConv, Indexed
  <2>2. \A ck \in ConvKeys : byTenant[ck] \in stored => PlacesOf(saved[byTenant[ck]]) \subseteq {ck}
    BY <2>1 DEF ApartInv, AllFrom, PlacesOf
  <2>3. phase = "ready" => PlacesOf(shown) \subseteq {<<boundKey, boundTab>>}
    BY DEF ApartInv, ShowsHere, AllFrom, PlacesOf, Here
  <2>4. QED BY <2>2, <2>3 DEF ConversationsStayApart
<1>2. Init => StoreInv /\ ApartInv
  BY InitStore, InitApart
<1>3. StoreInv /\ ApartInv /\ TurnKeepsTenant /\ [Next]_vars => (StoreInv /\ ApartInv)'
  BY StepStore, StepApart
<1>4. QED BY <1>1, <1>2, <1>3, PTL DEF Spec

-----------------------------------------------------------------------------
(* No transcript outlives its tab *)

LEMMA InitTidy == Init => TidyInv
BY StoreAssumption DEF Init, TidyInv, ApartInv, ShownIsClosed, PlacesOf, OfTurns, Indexed

\* What tidiness says of the place where a turn is, or may be, sent.
LEMMA HereIsLive ==
  ASSUME StoreInv, ApartInv, TidyInv,
         active # NoTurn \/ (phase = "ready" /\ boundTab \notin told)
  PROVE  /\ Here \in ConvKeys /\ byTenant[Here] = conv /\ boundTab \notin told
         /\ \A ck \in ConvKeys : ck[2] \in told => byTenant[ck] # conv
<1>1. Here \in ConvKeys /\ Here[2] = boundTab
  BY DEF StoreInv, BoundToPlace, ApartInv, Here
<1>2. byTenant[Here] = conv /\ boundTab \notin told
  BY DEF TidyInv, Unsaved
<1>3. Indexed(Here)
  BY <1>2 DEF StoreInv, TypeOK, ConvIds, NoConv, Indexed
<1>4. QED BY <1>1, <1>2, <1>3 DEF StoreInv, OneForTab

\* A save, or a writer, of a conversation shown that is the bound tab's.
LEMMA WritesTidy ==
  ASSUME StoreInv, ApartInv, TidyInv, Writes,
         active # NoTurn \/ (phase = "ready" /\ boundTab \notin told),
         UNCHANGED <<phase, boundTab, boundKey, told>>
  PROVE  TidyInv'
<1>1. /\ Here \in ConvKeys /\ byTenant[Here] = conv /\ boundTab \notin told
      /\ \A ck \in ConvKeys : ck[2] \in told => byTenant[ck] # conv
  BY HereIsLive
<1>2. UNCHANGED <<byTenant, conv>> /\ Here' = Here
  BY DEF Writes, Here
<1>3. /\ saved \in [ConvIds -> SUBSET Marks] /\ stored' \subseteq stored \cup {conv}
      /\ \A i \in ConvIds \ {conv} : saved'[i] = saved[i]
  BY DEF StoreInv, TypeOK, Writes, Save
<1>4. \A i \in stored' : OfTurns(saved'[i]) # {} => \E ck \in ConvKeys : byTenant'[ck] = i
  <2> SUFFICES ASSUME NEW i \in stored', OfTurns(saved'[i]) # {}
               PROVE  \E ck \in ConvKeys : byTenant'[ck] = i
    OBVIOUS
  <2>1. CASE i = conv
    BY <1>1, <1>2, <2>1
  <2>2. CASE i # conv
    <3>1. i \in stored /\ i \in ConvIds
      BY <1>3, <2>2 DEF StoreInv, TypeOK
    <3>2. QED BY <1>2, <1>3, <2>2, <3>1 DEF TidyInv
  <2>3. QED BY <2>1, <2>2
<1>5. \A ck \in ConvKeys : ck[2] \in told' /\ Indexed(ck)' => OfTurns(saved'[byTenant'[ck]]) = {}
  <2>1. \A ck \in ConvKeys : Indexed(ck) => byTenant[ck] \in ConvIds
    BY DEF StoreInv, TypeOK, Indexed
  <2>2. QED BY <1>1, <1>2, <1>3, <2>1 DEF TidyInv, Indexed
<1>6. QED BY <1>1, <1>2, <1>4, <1>5 DEF TidyInv, Live

\* A save of the conversation shown as it is, which the timer may do whenever it is armed.
LEMMA SavesTidy ==
  ASSUME StoreInv, ApartInv, TidyInv, OfTurns(shown) = {} \/ Live, Save(shown), ~Unsaved,
         UNCHANGED <<byTenant, view, bound, active, told, place>>
  PROVE  TidyInv'
<1>1. /\ UNCHANGED <<byTenant, conv, shown, phase, boundTab, boundKey, active, told>> /\ Here' = Here
  BY DEF view, bound, Here
<1>2. /\ stored' = stored \cup {conv} /\ conv \in ConvIds
      /\ \A i \in ConvIds : saved'[i] = IF i = conv THEN shown ELSE saved[i]
  BY DEF StoreInv, TypeOK, Save
<1>3. /\ (OfTurns(shown) = {} \/ Live \/ Unsaved)' /\ (Live \/ ShownIsClosed)'
      /\ (phase = "ready" => byTenant[Here] = conv \/ Unsaved)'
  BY <1>1 DEF TidyInv, Live, ShownIsClosed, PlacesOf
<1>4. \A i \in stored' : OfTurns(saved'[i]) # {} => \E ck \in ConvKeys : byTenant'[ck] = i
  <2>1. stored \subseteq ConvIds
    BY DEF StoreInv, TypeOK
  <2>2. QED BY <1>1, <1>2, <2>1 DEF TidyInv, Live
<1>5. \A ck \in ConvKeys : ck[2] \in told' /\ Indexed(ck)' => OfTurns(saved'[byTenant'[ck]]) = {}
  <2>1. \A ck \in ConvKeys : Indexed(ck) => byTenant[ck] \in ConvIds
    BY DEF StoreInv, TypeOK, Indexed
  <2>2. QED BY <1>1, <1>2, <2>1 DEF TidyInv, Indexed
<1>6. QED BY <1>1, <1>3, <1>4, <1>5 DEF TidyInv

\* A notice about a retry goes into a conversation that the index leads to: if it has
\* turns, their tabs are not known to be closed.
LEMMA NotifyTidy ==
  ASSUME StoreInv, ApartInv, TidyInv, NEW u \in Turns \cup {NoTurn}, Notify(u),
         \A ck \in PlacesOf(shown) : ck[2] \notin told
  PROVE  TidyInv'
<1>1. /\ UNCHANGED <<byTenant, conv, phase, boundTab, boundKey, active, saveTimer, told, place>>
      /\ Here' = Here /\ phase # "ready" /\ active = NoTurn /\ conv \in ConvIds
  BY DEF StoreInv, TypeOK, Notify, bound, chrome, turns, Here
<1>2. /\ stored' = stored \cup {conv}
      /\ \A i \in ConvIds : saved'[i] = IF i = conv THEN shown' ELSE saved[i]
  BY DEF StoreInv, TypeOK, Notify, Save
<1>3. /\ OfTurns(shown') = {} <=> OfTurns(shown) = {}
      /\ PlacesOf(shown') = PlacesOf(shown)
  <2>1. shown' = shown \cup {<<u, Unsent>>} /\ (u # NoTurn => <<u, Prompt>> \in OfTurns(shown))
    BY DEF Notify, OfTurns
  <2>2. \A m \in OfTurns(shown') : \E n \in OfTurns(shown) : n[1] = m[1]
    BY <2>1 DEF OfTurns
  <2>3. OfTurns(shown) \subseteq OfTurns(shown')
    BY <2>1 DEF OfTurns
  <2>4. \A ck \in PlacesOf(shown') : ck \in PlacesOf(shown)
    BY <1>1, <2>2 DEF PlacesOf
  <2>5. \A ck \in PlacesOf(shown) : ck \in PlacesOf(shown')
    BY <1>1, <2>3 DEF PlacesOf
  <2>6. QED BY <2>2, <2>3, <2>4, <2>5
<1>4. OfTurns(shown) = {} \/ Live
  BY DEF TidyInv, ShownIsClosed, PlacesOf
<1>5. (OfTurns(shown) = {} \/ Live \/ Unsaved)' /\ (Live \/ ShownIsClosed)'
  BY <1>1, <1>3, <1>4 DEF TidyInv, Live, ShownIsClosed, PlacesOf
<1>6. \A i \in stored' : OfTurns(saved'[i]) # {} => \E ck \in ConvKeys : byTenant'[ck] = i
  <2>1. stored \subseteq ConvIds
    BY DEF StoreInv, TypeOK
  <2>2. QED BY <1>1, <1>2, <1>3, <1>4, <2>1 DEF TidyInv, Live
<1>7. \A ck \in ConvKeys : ck[2] \in told' /\ byTenant'[ck] = conv' => OfTurns(shown') = {}
  BY <1>1, <1>3 DEF TidyInv
<1>8. \A ck \in ConvKeys : ck[2] \in told' /\ Indexed(ck)' => OfTurns(saved'[byTenant'[ck]]) = {}
  <2>1. \A ck \in ConvKeys : Indexed(ck) => byTenant[ck] \in ConvIds
    BY DEF StoreInv, TypeOK, Indexed
  <2>2. QED BY <1>1, <1>2, <1>3, <1>7, <2>1 DEF TidyInv, Indexed
<1>9. QED BY <1>1, <1>5, <1>6, <1>7, <1>8 DEF TidyInv

LEMMA TurnsTidy ==
  ASSUME StoreInv, ApartInv, TidyInv, InputsInTime,
         \/ TurnEnds \/ AnswerRefused \/ SavesAtOnce \/ SaveTimerFires
         \/ \E u \in Turns \cup {NoTurn} : Notify(u)
         \/ \E t \in Turns : Send(t) \/ Item(t) \/ ToolNotice(t) \/ Delta(t)
  PROVE  TidyInv'
<1>1. Writes
  BY Writers
<1>2. CASE TurnEnds \/ AnswerRefused \/ \E t \in Turns : Item(t) \/ ToolNotice(t) \/ Delta(t)
  <2>1. active # NoTurn /\ UNCHANGED <<phase, boundTab, boundKey, told>>
    BY <1>2, StoreAssumption DEF TurnEnds, AnswerRefused, Item, ToolNotice, Delta, bound, chrome
  <2>2. QED BY <1>1, <2>1, WritesTidy
<1>3. CASE \E t \in Turns : Send(t)
  <2>1. boundTab \notin told
    BY <1>3 DEF InputsInTime
  <2>2. phase = "ready" /\ UNCHANGED <<phase, boundTab, boundKey, told>>
    BY <1>3 DEF Send, bound, chrome
  <2>3. QED BY <1>1, <2>1, <2>2, WritesTidy
<1>4. CASE SavesAtOnce
  <2>1. boundTab \notin told
    BY <1>4 DEF InputsInTime
  <2>2. /\ phase # "readying" /\ Save(shown) /\ UNCHANGED <<byTenant, view, bound, active, told, place>>
        /\ UNCHANGED <<phase, boundTab, boundKey>>
    BY <1>4 DEF SavesAtOnce, bound, chrome, turns
  <2>3. CASE phase = "inactive"
    <3>1. OfTurns(shown) = {} /\ ~Unsaved
      BY <2>3 DEF ApartInv, Unsaved
    <3>2. QED BY <2>2, <3>1, SavesTidy
  <2>4. CASE phase = "ready"
    BY <1>1, <2>1, <2>2, <2>4, WritesTidy
  <2>5. QED BY <2>2, <2>3, <2>4 DEF StoreInv, TypeOK
<1>5. CASE SaveTimerFires
  <2>1. Save(shown) /\ UNCHANGED <<byTenant, view, bound, active, told, place>> /\ ~Unsaved
    BY <1>5 DEF SaveTimerFires, chrome, turns, Unsaved
  <2>2. QED BY <2>1, SavesTidy DEF TidyInv
<1>6. ASSUME NEW u \in Turns \cup {NoTurn}, Notify(u) PROVE TidyInv'
  BY <1>6, NotifyTidy DEF InputsInTime
<1>7. QED BY <1>2, <1>3, <1>4, <1>5, <1>6

LEMMA TabsTidy ==
  ASSUME TidyInv,
         \/ WorkerVanishes \/ UNCHANGED vars
         \/ \E t \in Tabs : TabActivated(t)
         \/ \E t, next \in Tabs : TabCloses(t, next)
         \/ \E t \in Tabs, k \in Keys \cup {NoKey} : TabNavigates(t, k)
  PROVE  TidyInv'
<1>1. /\ UNCHANGED <<byTenant, stored, saved, conv, shown, boundTab, boundKey, active, saveTimer, told, place>>
      /\ phase' = phase \/ (phase = "ready" /\ phase' = "readying")
  BY DEF WorkerVanishes, TabActivated, TabCloses, TabNavigates, vars, index, view, bound, chrome, turns
<1>2. (Live \/ ShownIsClosed)'
  BY <1>1 DEF TidyInv, Live, ShownIsClosed, PlacesOf
<1>3. QED BY <1>1, <1>2 DEF TidyInv, Live, Unsaved, Indexed, Here

LEMMA GateTidy ==
  ASSUME StoreInv, ApartInv, TidyInv, TurnKeepsTenant, Gate
  PROVE  TidyInv'
<1> DEFINE suspends == active # NoTurn /\ activeTab # boundTab
<1>1. ApartInv'
  BY GateApart
<1>2. /\ UNCHANGED <<byTenant, told, place>> /\ stored \subseteq ConvIds
      /\ active' = IF suspends THEN NoTurn ELSE active
      /\ saveTimer' = (saveTimer /\ activeTab = boundTab)
      /\ IF suspends THEN Save(shown) ELSE UNCHANGED <<stored, saved>>
  BY DEF StoreInv, TypeOK, Gate, KeepsPartial, chrome, turns
<1>3. active # NoTurn => /\ Here \in ConvKeys /\ byTenant[Here] = conv /\ boundTab \notin told
                         /\ \A ck \in ConvKeys : ck[2] \in told => byTenant[ck] # conv
  BY HereIsLive
<1>4. \A i \in ConvIds : saved'[i] = saved[i] \/ (suspends /\ i = conv)
  BY <1>2 DEF Save, StoreInv, TypeOK
<1>5. \A i \in stored' : OfTurns(saved'[i]) # {} => \E ck \in ConvKeys : byTenant'[ck] = i
  <2>1. \A i \in stored' : i \in stored \/ (suspends /\ i = conv)
    BY <1>2 DEF Save
  <2>2. QED BY <1>2, <1>3, <1>4, <2>1 DEF TidyInv
<1>6. \A ck \in ConvKeys : ck[2] \in told' /\ Indexed(ck)' => OfTurns(saved'[byTenant'[ck]]) = {}
  <2>1. \A ck \in ConvKeys : Indexed(ck) => byTenant[ck] \in ConvIds
    BY DEF StoreInv, TypeOK, Indexed
  <2>2. QED BY <1>2, <1>3, <1>4, <2>1 DEF TidyInv, Indexed
<1>7. \/ /\ UNCHANGED <<bound, view>>
         /\ activeTab = boundTab /\ phase = "ready"
      \/ /\ boundTab' = activeTab /\ boundKey' = tabKey[activeTab] /\ phase' = "readying"
         /\ UNCHANGED view
      \/ tabKey[activeTab] = NoKey /\ phase' = "inactive" /\ ShowNew
  BY DEF Gate
<1>8. CASE UNCHANGED <<bound, view>> /\ activeTab = boundTab /\ phase = "ready"
  <2>1. UNCHANGED <<conv, shown, active, saveTimer, boundTab, boundKey, phase>> /\ Here' = Here
    BY <1>2, <1>8 DEF StoreInv, TypeOK, bound, view, Here
  <2>2. (Live \/ ShownIsClosed)'
    BY <1>2, <2>1 DEF TidyInv, Live, ShownIsClosed, PlacesOf
  <2>3. QED BY <1>2, <1>5, <1>6, <2>1, <2>2 DEF TidyInv, Live, Unsaved
<1>9. CASE boundTab' = activeTab /\ boundKey' = tabKey[activeTab] /\ phase' = "readying" /\ UNCHANGED view
  <2>1. UNCHANGED <<conv, shown>>
    BY <1>9 DEF view
  <2>2. Unsaved => Unsaved'
    BY <1>2, <1>9 DEF Unsaved
  <2>3. active' # NoTurn => active # NoTurn /\ Here' = Here /\ boundTab' = boundTab
    BY <1>2, <1>9 DEF TurnKeepsTenant, Here
  <2>4. active' # NoTurn => byTenant'[Here'] = conv' /\ boundTab' \notin told'
    BY <1>2, <1>3, <2>1, <2>3
  <2>5. (Live \/ ShownIsClosed)'
    BY <1>2, <2>1 DEF TidyInv, Live, ShownIsClosed, PlacesOf
  <2>6. QED BY <1>2, <1>5, <1>6, <1>9, <2>1, <2>2, <2>4, <2>5 DEF TidyInv, Live
<1>10. CASE tabKey[activeTab] = NoKey /\ phase' = "inactive" /\ ShowNew
  <2>1. shown' = {} /\ active' = NoTurn /\ phase' = "inactive"
    BY <1>1, <1>10 DEF ApartInv, ShowNew
  <2>2. OfTurns(shown') = {} /\ ShownIsClosed'
    BY <2>1 DEF OfTurns, ShownIsClosed, PlacesOf
  <2>3. QED BY <1>5, <1>6, <2>1, <2>2 DEF TidyInv
<1>11. QED BY <1>7, <1>8, <1>9, <1>10

LEMMA SwitchTidy ==
  ASSUME StoreInv, ApartInv, TidyInv, WorkerGatePasses
  PROVE  TidyInv'
<1>1. /\ Here \in ConvKeys /\ Here' = Here /\ UNCHANGED <<active, boundTab, told>>
      /\ boundKey \in Keys /\ boundTab \in Tabs /\ Switch(boundKey, boundTab)
  BY DEF WorkerGatePasses, StoreInv, BoundToPlace, Here, ConvKeys, chrome
<1>2. Finds(Here) \/ Makes(Here)
  BY <1>1, SwitchEffect DEF Here
<1>3. \A ck \in ConvKeys : Indexed(ck) => byTenant[ck] \in ConvIds
  BY DEF StoreInv, TypeOK, Indexed
<1>4. active' # NoTurn => boundTab' \notin told'
  BY <1>1 DEF TidyInv
<1>5. CASE Finds(Here)
  <2>1. /\ UNCHANGED <<byTenant, stored, saved>> /\ shown' = saved[byTenant[Here]] /\ Indexed(Here)
        /\ conv' = byTenant[Here]
    BY <1>5 DEF Finds, index
  <2>2. \A ck \in ConvKeys : ck[2] \in told /\ byTenant[ck] = conv' => OfTurns(shown') = {}
    BY <1>1, <2>1 DEF StoreInv, OneForTab, TidyInv
  <2>3. QED BY <1>1, <1>4, <2>1, <2>2 DEF TidyInv, Live, Indexed
<1>6. CASE Makes(Here)
  <2>1. /\ made + 1 \in ConvIds /\ made + 1 # NoConv /\ conv' = made + 1 /\ shown' = {}
    BY <1>6, StoreAssumption DEF Makes, StoreInv, TypeOK, ConvIds, NoConv
  <2>2. \A i \in ConvIds : saved'[i] = IF i = made + 1 THEN {} ELSE saved[i]
    BY <1>6 DEF Makes, StoreInv, TypeOK
  <2>3. \A ck \in ConvKeys : byTenant'[ck] = IF ck = Here THEN made + 1 ELSE Others(boundTab)[ck]
    BY <1>6 DEF Makes, Here
  <2>4. PICK kept \in SUBSET stored :
          /\ stored' = kept \cup {made + 1}
          /\ \A i \in kept : (\E dk \in ConvKeys : byTenant[dk] = i) =>
                               \E dk \in ConvKeys : Others(boundTab)[dk] = i
    BY <1>6 DEF Makes, Here
  <2>5. \A i \in stored' : OfTurns(saved'[i]) # {} => \E ck \in ConvKeys : byTenant'[ck] = i
    <3> SUFFICES ASSUME NEW i \in stored', OfTurns(saved'[i]) # {}
                 PROVE  \E ck \in ConvKeys : byTenant'[ck] = i
      OBVIOUS
    <3>1. i \in kept /\ i \in ConvIds /\ OfTurns(saved[i]) # {}
      BY <2>1, <2>2, <2>4 DEF StoreInv, TypeOK, OfTurns
    <3>2. PICK dk \in ConvKeys : Others(boundTab)[dk] = i
      BY <2>4, <3>1 DEF TidyInv
    <3>3. Others(boundTab)[Here] = NoConv /\ i # NoConv
      BY <1>1, <3>1 DEF Others, Here, ConvIds, NoConv
    <3>4. QED BY <2>3, <3>2, <3>3
  <2>6. \A ck \in ConvKeys : Others(boundTab)[ck] \in {byTenant[ck], NoConv}
    BY DEF Others
  <2>7. \A ck \in ConvKeys : byTenant[ck] # made + 1
    BY <2>1 DEF StoreInv, NumberedOnce, TypeOK, Indexed, ConvIds, NoConv
  <2>8. \A ck \in ConvKeys : ck[2] \in told' /\ Indexed(ck)' => OfTurns(saved'[byTenant'[ck]]) = {}
    BY <1>1, <1>3, <2>1, <2>2, <2>3, <2>6, <2>7 DEF TidyInv, OfTurns, Indexed
  <2>9. byTenant'[Here'] = conv'
    BY <1>1, <2>1, <2>3
  <2>10. OfTurns(shown') = {} /\ ShownIsClosed'
    BY <2>1 DEF OfTurns, ShownIsClosed, PlacesOf
  <2>11. QED BY <1>4, <2>1, <2>5, <2>8, <2>9, <2>10 DEF TidyInv
<1>7. QED BY <1>2, <1>5, <1>6

LEMMA CloseTidy ==
  ASSUME StoreInv, ApartInv, TidyInv, NEW t \in Tabs, TabClosedTold(t)
  PROVE  TidyInv'
<1>1. /\ UNCHANGED <<saved, conv, shown, boundTab, boundKey, phase, place>> /\ Here' = Here
      /\ active' = (IF t = boundTab THEN NoTurn ELSE active)
      /\ saveTimer' = FALSE /\ told' = told \cup {t}
      /\ byTenant' = Others(t) /\ stored' = Discarded(t).stored /\ stored' \subseteq stored
      /\ conv # NoConv
  <2>1. byTenant' = Others(t) /\ stored' = Discarded(t).stored /\ stored' \subseteq stored
    BY DiscardIndex DEF TabClosedTold
  <2>2. conv # NoConv
    BY DEF StoreInv, TypeOK, ConvIds, NoConv
  <2>3. QED BY <2>1, <2>2 DEF TabClosedTold, view, bound, turns, Here
<1>2. \A ck \in ConvKeys : byTenant'[ck] = IF ck[2] = t THEN NoConv ELSE byTenant[ck]
  BY <1>1 DEF Others
<1>3. active = NoTurn /\ phase = "readying" => Unsaved'
  BY <1>1 DEF Unsaved
<1>4. t = boundTab /\ phase # "inactive" => Unsaved'
  BY <1>1 DEF Unsaved, StoreInv, TypeOK
<1>5. Unsaved => Unsaved'
  BY <1>1 DEF Unsaved
<1>6. phase # "inactive" => Here \in ConvKeys /\ Here[2] = boundTab
  BY DEF StoreInv, BoundToPlace, Here
<1>7. ASSUME NEW ck \in ConvKeys, byTenant[ck] = conv, ck[2] = t
      PROVE  OfTurns(shown') = {} \/ Unsaved'
  <2>1. CASE phase = "inactive"
    BY <1>1, <2>1 DEF ApartInv
  <2>2. CASE phase = "readying" /\ active = NoTurn
    BY <1>3, <2>2
  <2>3. CASE phase # "inactive" /\ (phase = "ready" \/ active # NoTurn)
    <3>1. ck = Here
      BY <1>7, <2>3 DEF ApartInv, ShowsHere
    <3>2. QED BY <1>4, <1>6, <1>7, <2>3, <3>1
  <2>4. QED BY <2>1, <2>2, <2>3 DEF StoreInv, TypeOK
<1>8. (OfTurns(shown) = {} \/ Live \/ Unsaved)'
  BY <1>1, <1>2, <1>5, <1>7 DEF TidyInv, Live
<1>9. (phase = "ready" => byTenant[Here] = conv \/ Unsaved)'
  BY <1>1, <1>2, <1>4, <1>5, <1>6 DEF TidyInv
<1>10. (active # NoTurn => byTenant[Here] = conv /\ boundTab \notin told)'
  <2>1. active' # NoTurn => active # NoTurn /\ t # boundTab /\ phase # "inactive"
    BY <1>1 DEF ApartInv
  <2>2. QED BY <1>1, <1>2, <1>6, <2>1 DEF TidyInv
<1>11. \A i \in stored' : OfTurns(saved'[i]) # {} => \E ck \in ConvKeys : byTenant'[ck] = i
  BY <1>1, DiscardStored DEF TidyInv
<1>12. \A ck \in ConvKeys : ck[2] \in told' /\ Indexed(ck)' => OfTurns(saved'[byTenant'[ck]]) = {}
  BY <1>1, <1>2 DEF TidyInv, Indexed
<1>13. \A ck \in ConvKeys : ck[2] \in told' /\ byTenant'[ck] = conv' => OfTurns(shown') = {}
  BY <1>1, <1>2 DEF TidyInv
<1>14. (Live \/ ShownIsClosed)'
  <2>1. CASE ShownIsClosed
    BY <1>1, <2>1 DEF ShownIsClosed, PlacesOf
  <2>2. ASSUME NEW ck \in ConvKeys, byTenant[ck] = conv PROVE (Live \/ ShownIsClosed)'
    <3>1. CASE ck[2] # t
      BY <1>1, <1>2, <2>2, <3>1 DEF Live
    <3>2. CASE ck[2] = t
      <4>1. \A dk \in PlacesOf(shown') : dk = ck
        BY <1>1, <2>2 DEF ApartInv, AllFrom, PlacesOf
      <4>2. QED BY <1>1, <3>2, <4>1 DEF ShownIsClosed, PlacesOf
    <3>3. QED BY <3>1, <3>2
  <2>3. QED BY <2>1, <2>2 DEF TidyInv, Live
<1>15. QED BY <1>8, <1>9, <1>10, <1>11, <1>12, <1>13, <1>14 DEF TidyInv

LEMMA StepTidy ==
  ASSUME StoreInv, ApartInv, TidyInv, TurnKeepsTenant, [InputsInTime]_vars, [Next]_vars
  PROVE  TidyInv'
<1>1. CASE UNCHANGED vars
  BY <1>1, TabsTidy
<1>2. CASE InputsInTime /\ Next
  BY <1>2, TurnsTidy, TabsTidy, GateTidy, SwitchTidy, CloseTidy DEF Next
<1>3. QED BY <1>1, <1>2

\* The transcripts and the index agree, whatever order tabs switch, close and gates
\* pass in: discardTabSession takes both, and the conversation shown that it took from
\* the index is saved no more. So it is while turns keep their tenants and nothing is
\* sent, retried or saved by hand for a tab that the panel has been told is closed
\* (a retry there is saved by sendMessage, with no entry that would discard it).
THEOREM IndexLeads ==
  Spec /\ []TurnKeepsTenant /\ [][InputsInTime]_vars => []IndexLeadsToTranscripts
<1>1. StoreInv /\ ApartInv /\ TidyInv => IndexLeadsToTranscripts
  <2> SUFFICES ASSUME StoreInv, TidyInv PROVE IndexLeadsToTranscripts
    OBVIOUS
  <2>1. ASSUME NEW t \in Tabs, byTab[t] # NoConvKey PROVE byTenant[byTab[t]] \in stored
    <3>1. byTab[t] \in ConvKeys /\ byTab[t][2] = t
      BY <2>1 DEF StoreInv, TypeOK, OneForTab
    <3>2. QED BY <3>1 DEF StoreInv, OneForTab
  <2>2. QED BY <2>1 DEF TidyInv, IndexLeadsToTranscripts
<1>2. Init => StoreInv /\ ApartInv /\ TidyInv
  BY InitStore, InitApart, InitTidy
<1>3. StoreInv /\ ApartInv /\ TidyInv /\ TurnKeepsTenant /\ [InputsInTime]_vars /\ [Next]_vars
        => (StoreInv /\ ApartInv /\ TidyInv)'
  BY StepStore, StepApart, StepTidy
<1>4. QED BY <1>1, <1>2, <1>3, PTL DEF Spec

\* Once tab_closed has been handled, nothing asked or answered in that tab is stored,
\* and no late save of what is still on the screen stores it again; in the same
\* behaviours as IndexLeads.
THEOREM NothingOutlives ==
  Spec /\ []TurnKeepsTenant /\ [][InputsInTime]_vars => []NothingOutlivesItsTab
<1>1. StoreInv /\ ApartInv /\ TidyInv => NothingOutlivesItsTab
  <2> SUFFICES ASSUME StoreInv, ApartInv, TidyInv,
                      NEW i \in stored, NEW m \in OfTurns(saved[i]), place[m[1]][2] \in told
               PROVE  FALSE
    BY DEF NothingOutlivesItsTab, PlacesOf
  <2>1. PICK ck \in ConvKeys : byTenant[ck] = i
    BY DEF TidyInv
  <2>2. Indexed(ck)
    BY <2>1 DEF StoreInv, TypeOK, ConvIds, NoConv, Indexed
  <2>3. place[m[1]] = ck
    BY <2>1, <2>2 DEF ApartInv, AllFrom
  <2>4. QED BY <2>1, <2>2, <2>3 DEF TidyInv
<1>2. Init => StoreInv /\ ApartInv /\ TidyInv
  BY InitStore, InitApart, InitTidy
<1>3. StoreInv /\ ApartInv /\ TidyInv /\ TurnKeepsTenant /\ [InputsInTime]_vars /\ [Next]_vars
        => (StoreInv /\ ApartInv /\ TidyInv)'
  BY StepStore, StepApart, StepTidy
<1>4. QED BY <1>1, <1>2, <1>3, PTL DEF Spec

=============================================================================
