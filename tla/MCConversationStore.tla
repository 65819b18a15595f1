------------------------ MODULE MCConversationStore ------------------------
(***************************************************************************)
(* Instances of ConversationStore for TLC.                                  *)
(***************************************************************************)
EXTENDS ConversationStore, TLC

CONSTANTS Budget,      \* bound: moves of the tabs and of the workers, and unsent prompts
          MayRelogin,  \* a tab may change its tenant while its turn runs
          MayRetryClosed  \* a turn is retried in the conversation of a closed tab

VARIABLE spent

mcvars == <<vars, spent>>

\* What is shown is of a tab that the panel has been told is closed.
OfClosed == \E ck \in PlacesOf(shown) : ck[2] \in told

External ==
  \/ (MayRetryClosed \/ ~OfClosed) /\ \E u \in Turns \cup {NoTurn} : Notify(u)
  \/ WorkerVanishes
  \/ \E t \in Tabs : TabActivated(t)
  \/ \E t, next \in Tabs : TabCloses(t, next)
  \/ \E t \in Tabs, k \in Keys \cup {NoKey} :
       (MayRelogin \/ t # boundTab \/ active = NoTurn) /\ TabNavigates(t, k)

\* The panel has an event of the tabs to handle; its user does not send meanwhile.
GateDue == tabKey[activeTab] # boundKey \/ (boundKey # NoKey /\ activeTab # boundTab)

Internal ==
  \/ GateDue /\ Gate
  \/ WorkerGatePasses
  \/ TurnEnds \/ AnswerRefused \/ SaveTimerFires
  \/ ~GateDue /\ (SavesAtOnce \/ \E t \in Turns : Send(t))
  \/ \E t \in Turns : Item(t) \/ ToolNotice(t) \/ Delta(t)
  \/ \E t \in Tabs : TabClosedTold(t)

MCInit == Init /\ spent = 0
MCNext ==
  \/ Internal /\ UNCHANGED spent
  \/ External /\ spent < Budget /\ spent' = spent + 1
Symmetry == Permutations(Turns) \cup Permutations(Keys) \cup Permutations(Tabs)
MCSpec == MCInit /\ [][MCNext]_mcvars
=============================================================================
