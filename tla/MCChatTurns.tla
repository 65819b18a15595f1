---------------------------- MODULE MCChatTurns ----------------------------
(***************************************************************************)
(* Instances of ChatTurns for TLC.  Frames under way are always handled and *)
(* a worker always ends its turns; a configuration bounds with a budget     *)
(* what comes from outside: users, tabs, sockets, whatever else a worker    *)
(* says, and timers unless a run is about them.                            *)
(***************************************************************************)
EXTENDS ChatTurns, TLC

CONSTANTS UserBudget,  \* bound: what users do, timers, what else workers say
          WorldBudget, \* bound: sockets, tabs, panels and restarts
          LoneCloses,  \* a socket may close while another one is open
          PortsReused, \* a port's next worker may serve another place
          Repeats,     \* a worker may send a delta again
          Handoffs,    \* a place's next worker may open before the last one closes
          Questions    \* panels ask for questions

VARIABLES userSpent, worldSpent

mcvars == <<vars, userSpent, worldSpent>>

\* Turns are interchangeable: the next one to begin.
NextTurn == CHOOSE t \in Turns : status[t] = "new" \/ \A u \in Turns : status[u] # "new"

User ==
  \/ \E n \in Panels : UserSends(n, NextTurn) \/ UserAnswers(n, NextTurn)
  \/ \E n \in Panels : UserStops(n) \/ WatchdogFires(n)
  \/ \E n \in Panels : Questions /\ (PanelMounts(n) \/ AsksAgain(n))
  \/ \E t \in Turns : ToolEnds(t)
  \/ \E p \in Ports, t \in Turns : WorkerSignals(p, t)
  \/ \E p \in Ports, t \in Turns, i \in Pieces : (i = 0 \/ Repeats) /\ WorkerRepeats(p, t, i)

World ==
  \/ \E p \in Ports, x \in Places :
       /\ serves[p] \in {NoPlace, x} \/ PortsReused
       /\ Handoffs \/ \A q \in open : serves[q] # x
       /\ SocketOpens(p, x)
  \/ \E p \in Ports, dies \in BOOLEAN :
       /\ open = {p} \/ LoneCloses
       /\ SocketCloses(p, dies)
  \/ Heartbeat \/ Restart
  \/ \E n \in Panels, x \in Places : PanelSwitches(n, x) \/ PanelConnects(n, x)
  \/ \E n \in Panels : PanelCloses(n)

Internal ==
  \/ \E p \in Ports : ServiceWorkerReceives(p) \/ WorkerTakes(p)
  \/ \E n \in Panels : PostArrives(n) \/ PanelReceives(n)
  \/ \E p \in Ports, t \in Turns : WorkerSays(p, t) \/ WorkerEnds(p, t)

\* Panels, each at a place, and the sockets of the places' workers may have
\* connected before.
OneToOne(f) == \A i, j \in DOMAIN f : i # j => f[i] # f[j]
MCInit ==
  /\ Idle /\ userSpent = 0 /\ worldSpent = 0
  /\ chatPanels \in {Panels, {CHOOSE n \in Panels : TRUE}}
  /\ LET place == CHOOSE f \in [Panels -> Places] : OneToOne(f)
     IN  at = [n \in Panels |-> IF n \in chatPanels THEN place[n] ELSE NoPlace]
  /\ serves = CHOOSE f \in [Ports -> Places] : OneToOne(f)
  /\ open \in SUBSET Ports
  /\ seen = [n \in Panels |-> {serves[p] : p \in open}]

MCNext ==
  \/ Internal /\ UNCHANGED <<userSpent, worldSpent>>
  \/ User /\ userSpent < UserBudget /\ userSpent' = userSpent + 1 /\ UNCHANGED worldSpent
  \/ World /\ worldSpent < WorldBudget /\ worldSpent' = worldSpent + 1 /\ UNCHANGED userSpent
MCSpec == MCInit /\ [][MCNext]_mcvars
\* A watchdog needs no budget where its fairness counts.
Timers == \E n \in Panels : WatchdogFires(n)
MCFairSpec ==
  MCInit /\ [][MCNext \/ (Timers /\ UNCHANGED <<userSpent, worldSpent>>)]_mcvars /\ Fairness

=============================================================================
