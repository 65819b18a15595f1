----------------------------- MODULE ChatTurns -----------------------------
(***************************************************************************)
(* Chat turns from the side panel through the service worker to a worker    *)
(* and back (service-worker.ts 357-437, 671-742, 826-842, 992-1080,         *)
(* 1162-1172, 1234-1239; side-panel/state.ts; side-panel/use-panel.ts): the *)
(* tables that pin a turn to a panel and to a socket, the answers to        *)
(* questions, which resume a conversation as a turn of their own, and the   *)
(* ends that a turn may come to on each side.                               *)
(*                                                                         *)
(* A place is a tab with its tenant key; a panel is bound to one.  What a    *)
(* panel and the service worker post to each other, and what workers and    *)
(* the service worker send each other, waits in queues, in order: the tabs, *)
(* sockets and turns of each side go on meanwhile.  A response id and the   *)
(* chat id of the turn that resumes with it are one name.  An item's        *)
(* chat_message_start is piece 0 of its answer, its deltas are the pieces   *)
(* after it.  Of what a worker asks, only whose question it is matters.     *)
(***************************************************************************)
EXTENDS Integers, SequencesExt

CONSTANTS
  Turns, Panels, Ports, Places,
  NoTurn, NoPanel, NoPort, NoPlace,
  SameTenant, \* are the places tabs of one tenant
  MaxPiece,  \* bound: deltas of one answer
  MaxQueue   \* bound: frames under way on one channel

ASSUME TurnsAssumption ==
  /\ NoTurn \notin Turns /\ NoPanel \notin Panels
  /\ NoPort \notin Ports /\ NoPlace \notin Places
  /\ SameTenant \in BOOLEAN /\ MaxPiece \in Nat /\ MaxQueue \in Nat

VARIABLES
  open,         \* ports whose current socket is OPEN
  serves,       \* registry: the place an open port's worker advertises; of a closed
                \* port, the last one
  turnToPort, turnToBridgePort, turnRoutedAt, interactionPanels, answerTurns,
  chatPanels,   \* panels whose Port is connected
  toWorker,     \* frames sent on each socket
  fromWorker,   \* frames a worker sent on each socket
  posted,       \* messages each panel has posted
  toPanel,      \* messages posted to each panel
  working,      \* turns the worker behind each port works on (external)
  said,         \* the last piece each turn's worker has said (external)
  sentOver,     \* history: turns sent on each port's present socket
  stranded,     \* history: turns each port's sockets left pinned when they closed
  at,           \* the place each panel is bound to
  active,       \* each panel's active turn
  watched,      \* turns whose first-token watchdog is armed
  asker,        \* the panel that began each turn
  status,       \* how the panel sees a turn
  shown,        \* the pieces each turn's message shows
  seen,         \* liveTenants: the places each panel last heard have a worker
  mounted,      \* panels whose activation is ready: their InteractionPanel is mounted
  pending,      \* the places whose workers' questions each panel shows
  resumed       \* history: turns that began with an answer

sockets == <<open, serves>>
tables == <<turnToPort, turnToBridgePort, turnRoutedAt, interactionPanels, answerTurns>>
workers == <<working, said, sentOver, stranded>>
questions == <<seen, mounted, pending, resumed>>
panels == <<at, active, watched, asker, status, shown, questions>>
vars == <<sockets, tables, chatPanels, posted, toWorker, fromWorker, toPanel, workers, panels>>

Pieces == 0..MaxPiece
EndTypes == {"chat_done", "chat_error"}
AliveTypes == {"chat_keepalive", "chat_tool_notice"}
Statuses == {"new", "open", "done", "error", "stopped", "left"}

Frame(type, t) == [type |-> type, id |-> t]
Item(t, i) == [type |-> "item", id |-> t, seq |-> i]
Receipt(t, ok) == [type |-> "interaction_receipt", id |-> t, accepted |-> ok]
\* What a worker of place x asks, and a panel's command for all that it asks, which
\* the worker answers in kind.
Question(x) == [type |-> "interaction_event", place |-> x]
Snapshot(x) == [type |-> "interaction_snapshot", place |-> x]
\* A panel's post that begins a turn, with the panel's place.
Post(type, t, x) == [type |-> type, id |-> t, place |-> x]
\* broadcastBridges, with the places that have a worker.
Bridges(S) == [type |-> "bridges", live |-> S]

Frames ==
  [type : EndTypes \cup AliveTypes \cup {"chat_request", "chat_stop", "interaction_respond"},
   id : Turns]
    \cup [type : {"item"}, id : Turns, seq : Pieces]
    \cup [type : {"interaction_receipt"}, id : Turns, accepted : BOOLEAN]
    \cup [type : {"interaction_event", "interaction_snapshot"}, place : Places]
    \cup [type : {"bridges"}, live : SUBSET Places]

Posts ==
  [type : {"chat_request", "interaction_respond"}, id : Turns, place : Places]
    \cup [type : {"chat_stop"}, id : Turns] \cup [type : {"interaction_snapshot"}, place : Places]

Queues(q, S) == q \in [S -> Seq(Frames)]

TypeOK ==
  /\ open \subseteq Ports
  /\ serves \in [Ports -> Places \cup {NoPlace}]
  /\ turnToPort \in [Turns -> Panels \cup {NoPanel}]
  /\ turnToBridgePort \in [Turns -> Ports \cup {NoPort}]
  /\ turnRoutedAt \subseteq Turns /\ answerTurns \subseteq Turns
  /\ interactionPanels \in [Panels -> Ports \cup {NoPort}]
  /\ chatPanels \subseteq {n \in Panels : at[n] # NoPlace}
  /\ posted \in [Panels -> Seq(Posts)]
  /\ Queues(toWorker, Ports) /\ Queues(fromWorker, Ports) /\ Queues(toPanel, Panels)
  /\ working \in [Ports -> SUBSET Turns]
  /\ said \in [Turns -> -1..MaxPiece]
  /\ sentOver \in [Ports -> SUBSET Turns] /\ stranded \in [Ports -> SUBSET Turns]
  /\ at \in [Panels -> Places \cup {NoPlace}]
  /\ active \in [Panels -> Turns \cup {NoTurn}]
  /\ watched \subseteq Turns
  /\ asker \in [Turns -> Panels \cup {NoPanel}]
  /\ status \in [Turns -> Statuses]
  /\ mounted \subseteq Panels /\ resumed \subseteq Turns
  /\ seen \in [Panels -> SUBSET Places] /\ pending \in [Panels -> SUBSET Places]
  /\ shown \in [Turns -> Seq(Pieces)]
  \* a message opens with its item, once
  /\ \A t \in Turns : \A j \in DOMAIN shown[t] : shown[t][j] = 0 <=> j = 1

-----------------------------------------------------------------------------
(* The service worker's tables *)

\* planChatRequest, planSkillsRequest: the open sockets of place x.
RoutesOf(x) == {p \in open : serves[p] = x}

Send(p, frame) ==
  /\ Len(toWorker[p]) < MaxQueue
  /\ toWorker' = [toWorker EXCEPT ![p] = Append(@, frame)]

Unpinned(S) == /\ turnToPort' = [t \in Turns |-> IF t \in S THEN NoPanel ELSE turnToPort[t]]
               /\ turnToBridgePort' = [t \in Turns |-> IF t \in S THEN NoPort ELSE turnToBridgePort[t]]
Pin(t, n, p) == /\ turnToPort' = [turnToPort EXCEPT ![t] = n]
                /\ turnToBridgePort' = [turnToBridgePort EXCEPT ![t] = p]

Pinned(n) == {t \in Turns : turnToPort[t] = n}

\* Mutant of Failures: failActiveTurns only clears the tables.
FailuresUntold(n) == <<>>

\* failActiveTurns: the chat_error frames that panel n is posted.
Failures(n) == SetToSeq({Frame("chat_error", t) : t \in Pinned(n)})

LiveAfter(S) == Bridges({serves[p] : p \in open \ S})

\* broadcastToChatPanels
Broadcast(frame) ==
  toPanel' = [n \in Panels |-> IF n \in chatPanels THEN Append(toPanel[n], frame) ELSE toPanel[n]]

\* failActiveTurns, and the bridges that are left when sockets S have closed.
FailActiveTurns(S) ==
  /\ toPanel' = [n \in Panels |-> IF n \in chatPanels THEN toPanel[n] \o Failures(n) \o <<LiveAfter(S)>>
                                  ELSE toPanel[n]]
  /\ Unpinned({t \in Turns : turnToPort[t] # NoPanel})

-----------------------------------------------------------------------------
(* Sockets, the heartbeat and the service worker's life *)

\* The handshake names the place. A worker that outlives its socket goes on.
SocketOpens(p, x) ==
  /\ p \notin open
  /\ open' = open \cup {p}
  /\ serves' = [serves EXCEPT ![p] = x]
  /\ working' = [working EXCEPT ![p] = IF serves[p] = x THEN @ ELSE {}]
  /\ Broadcast(Bridges({serves[q] : q \in open} \cup {x}))
  /\ UNCHANGED <<tables, chatPanels, posted, toWorker, fromWorker, said, sentOver, stranded, panels>>

\* What was under way on sockets S is lost.
Lost(S) ==
  /\ open' = open \ S
  /\ toWorker' = [p \in Ports |-> IF p \in S THEN <<>> ELSE toWorker[p]]
  /\ fromWorker' = [p \in Ports |-> IF p \in S THEN <<>> ELSE fromWorker[p]]
  /\ sentOver' = [p \in Ports |-> IF p \in S THEN {} ELSE sentOver[p]]

\* Turns are failed when no socket is left; the others stay pinned.
SocketCloses(p, dies) ==
  /\ p \in open
  /\ Lost({p})
  /\ IF open = {p} THEN FailActiveTurns({p}) /\ UNCHANGED stranded
     ELSE /\ Broadcast(LiveAfter({p}))
          /\ stranded' = [stranded EXCEPT ![p] = @ \cup {t \in Turns : turnToBridgePort[t] = p}]
          /\ UNCHANGED <<turnToPort, turnToBridgePort>>
  /\ working' = [working EXCEPT ![p] = IF dies THEN {} ELSE @]
  /\ UNCHANGED <<serves, turnRoutedAt, interactionPanels, answerTurns, chatPanels, posted, said, panels>>

\* Mutant of Heartbeat: the stale sockets are closed, their turns are not failed.
HeartbeatSilent ==
  /\ open # {}
  /\ Lost(open)
  /\ UNCHANGED <<tables, serves, posted, toPanel, chatPanels, working, said, stranded, panels>>

Heartbeat ==
  /\ open # {}
  /\ Lost(open)
  /\ FailActiveTurns(open)
  /\ UNCHANGED <<serves, turnRoutedAt, interactionPanels, answerTurns, chatPanels, posted,
                 working, said, stranded, panels>>

\* A suspended service worker starts again with nothing; its Ports are gone.
Restart ==
  /\ Lost(open)
  /\ turnToPort' = [t \in Turns |-> NoPanel]
  /\ turnToBridgePort' = [t \in Turns |-> NoPort]
  /\ turnRoutedAt' = {} /\ answerTurns' = {}
  /\ interactionPanels' = [n \in Panels |-> NoPort]
  /\ chatPanels' = {}
  /\ posted' = [n \in Panels |-> <<>>] /\ toPanel' = [n \in Panels |-> <<>>]
  /\ UNCHANGED <<serves, working, said, stranded, panels>>

-----------------------------------------------------------------------------
(* Frames from a worker *)

Interaction(frame) ==
  frame.type \in {"interaction_event", "interaction_snapshot", "interaction_receipt"}

\* Mutant of Recipients: an interaction frame goes to every panel that ever asked.
AllRecipients(p) == {n \in chatPanels : interactionPanels[n] # NoPort}

Recipients(p) == {n \in chatPanels : interactionPanels[n] = p}

\* Mutant of Forgotten: a refused answer keeps its turn pinned.
ForgottenOnEnd(frame) == IF frame.type \in EndTypes THEN {frame.id} ELSE {}

\* The turns a frame unpins.
Forgotten(frame) ==
  IF \/ frame.type \in EndTypes
     \/ frame.type = "interaction_receipt" /\ frame.id \in answerTurns /\ ~frame.accepted
  THEN {frame.id} ELSE {}

\* onMessage: interaction frames by socket, chat frames by turn id.
ServiceWorkerReceives(p) ==
  /\ p \in open /\ fromWorker[p] # <<>>
  /\ LET frame == Head(fromWorker[p])
         to == IF Interaction(frame) THEN Recipients(p)
               ELSE {n \in chatPanels : turnToPort[frame.id] = n}
     IN  /\ \A n \in to : Len(toPanel[n]) < MaxQueue
         /\ toPanel' = [n \in Panels |-> IF n \in to THEN Append(toPanel[n], frame) ELSE toPanel[n]]
         /\ Unpinned(Forgotten(frame))
         /\ turnRoutedAt' = IF Interaction(frame) THEN turnRoutedAt ELSE turnRoutedAt \ {frame.id}
         /\ answerTurns' = IF frame.type = "interaction_receipt" THEN answerTurns \ {frame.id}
                           ELSE answerTurns
  /\ fromWorker' = [fromWorker EXCEPT ![p] = Tail(@)]
  /\ UNCHANGED <<sockets, interactionPanels, chatPanels, posted, toWorker, workers, panels>>

\* runTool: when a tool of any worker has ended, the only turn pinned is told.
ToolEnds(t) ==
  /\ turnToPort[t] # NoPanel /\ \A u \in Turns \ {t} : turnToPort[u] = NoPanel
  /\ Len(toPanel[turnToPort[t]]) < MaxQueue
  /\ toPanel' = [toPanel EXCEPT ![turnToPort[t]] = Append(@, Frame("chat_tool_notice", t))]
  /\ UNCHANGED <<sockets, tables, chatPanels, posted, toWorker, fromWorker, workers, panels>>

-----------------------------------------------------------------------------
(* Messages from a panel *)

Arrives(n, type) ==
  /\ posted[n] # <<>> /\ Head(posted[n]).type = type
  /\ posted' = [posted EXCEPT ![n] = Tail(@)]
  /\ UNCHANGED <<sockets, chatPanels, fromWorker, working, said, stranded, panels>>

\* The turn is pinned to the socket it is sent on, which may be gone or another's by now.
RequestArrives(n) ==
  /\ Arrives(n, "chat_request")
  /\ LET t == Head(posted[n]).id
         routes == RoutesOf(Head(posted[n]).place)
     IN  \/ \E p \in routes :
              /\ Pin(t, n, p)
              /\ turnRoutedAt' = turnRoutedAt \cup {t}
              /\ Send(p, Frame("chat_request", t))
              /\ sentOver' = [sentOver EXCEPT ![p] = @ \cup {t}]
              /\ UNCHANGED toPanel
         \/ /\ routes = {}
            /\ toPanel' = [toPanel EXCEPT ![n] = Append(@, Frame("chat_error", t))]
            /\ UNCHANGED <<turnToPort, turnToBridgePort, turnRoutedAt, toWorker, sentOver>>
  /\ UNCHANGED <<interactionPanels, answerTurns>>

\* An answer goes to the worker of the panel's place, if that is where the panel's last
\* snapshot went, or nowhere.
AnswerArrives(n) ==
  /\ Arrives(n, "interaction_respond")
  /\ LET t == Head(posted[n]).id
         routes == {p \in RoutesOf(Head(posted[n]).place) : interactionPanels[n] = p}
     IN  \/ \E p \in routes :
              /\ Pin(t, n, p)
              /\ answerTurns' = answerTurns \cup {t}
              /\ Send(p, Frame("interaction_respond", t))
              /\ sentOver' = [sentOver EXCEPT ![p] = @ \cup {t}]
         \/ routes = {} /\ UNCHANGED <<turnToPort, turnToBridgePort, answerTurns, toWorker, sentOver>>
  /\ UNCHANGED <<turnRoutedAt, interactionPanels, toPanel>>

\* A snapshot command binds the panel to its worker's port.
SnapshotArrives(n) ==
  /\ Arrives(n, "interaction_snapshot")
  /\ LET x == Head(posted[n]).place
     IN  \/ \E p \in RoutesOf(x) :
              /\ interactionPanels' = [interactionPanels EXCEPT ![n] = p]
              /\ Send(p, Snapshot(x))
         \/ RoutesOf(x) = {} /\ UNCHANGED <<interactionPanels, toWorker>>
  /\ UNCHANGED <<turnToPort, turnToBridgePort, turnRoutedAt, answerTurns, sentOver, toPanel>>

\* Mutant of StopTarget: a stop falls back to the worker of the panel's place.
StopTargetOrOwn(n, t) == IF turnToBridgePort[t] \in open THEN {turnToBridgePort[t]} ELSE RoutesOf(at[n])

\* chat_stop goes to the port the turn is pinned to, or nowhere.
StopTarget(n, t) == {turnToBridgePort[t]} \cap open

StopArrives(n) ==
  /\ Arrives(n, "chat_stop")
  /\ LET t == Head(posted[n]).id
     IN  IF StopTarget(n, t) = {} THEN UNCHANGED toWorker
         ELSE \E p \in StopTarget(n, t) : Send(p, Frame("chat_stop", t))
  /\ UNCHANGED <<tables, sentOver, toPanel>>

PostArrives(n) == RequestArrives(n) \/ AnswerArrives(n) \/ SnapshotArrives(n) \/ StopArrives(n)

-----------------------------------------------------------------------------
(* The panel: what its user does, its timers and its tabs *)

PanelPosts(n, post) ==
  /\ n \in chatPanels /\ Len(posted[n]) < MaxQueue
  /\ posted' = [posted EXCEPT ![n] = Append(@, post)]

\* begin_turn
Begins(n, t) ==
  /\ active[n] = NoTurn /\ status[t] = "new"
  /\ active' = [active EXCEPT ![n] = t]
  /\ asker' = [asker EXCEPT ![t] = n]
  /\ status' = [status EXCEPT ![t] = "open"]

TurnsOf(n) == {t \in Turns : asker[t] = n}

\* A request's watchdog replaces the one before it.
UserSends(n, t) ==
  /\ Begins(n, t)
  /\ PanelPosts(n, Post("chat_request", t, at[n]))
  /\ watched' = (watched \ TurnsOf(n)) \cup {t}
  /\ UNCHANGED <<sockets, tables, chatPanels, toWorker, fromWorker, toPanel, workers, at, shown, questions>>

\* The answer to a question the panel shows, with no turn under way, resumes the
\* conversation: a turn begins in the panel wherever the answer will end up.
UserAnswers(n, t) ==
  /\ Begins(n, t)
  /\ \E x \in pending[n] : pending' = [pending EXCEPT ![n] = @ \ {x}]
  /\ resumed' = resumed \cup {t}
  /\ PanelPosts(n, Post("interaction_respond", t, at[n]))
  /\ UNCHANGED <<sockets, tables, chatPanels, toWorker, fromWorker, toPanel, workers,
                 at, watched, shown, seen, mounted>>

\* The panel's turn is over for it, in state st.
Over(n, st) ==
  /\ status' = [t \in Turns |-> IF t = active[n] THEN st ELSE status[t]]
  /\ active' = [active EXCEPT ![n] = NoTurn]

UserStops(n) ==
  /\ active[n] # NoTurn
  /\ PanelPosts(n, Frame("chat_stop", active[n]))
  /\ Over(n, "stopped")
  /\ watched' = watched \ {active[n]}
  /\ UNCHANGED <<sockets, tables, chatPanels, toWorker, fromWorker, toPanel, workers, at, asker,
                 shown, questions>>

\* The worker gate asks for the tenant of the panel's tab, not for the tab.
Live(n, S) == at[n] \in S \/ (SameTenant /\ S # {})

\* The panel is ready (Panel has the gates; of them only the worker's matters here): its
\* InteractionPanel asks for the questions there are.
PanelMounts(n) ==
  /\ n \notin mounted /\ Live(n, seen[n])
  /\ mounted' = mounted \cup {n}
  /\ PanelPosts(n, Snapshot(at[n]))
  /\ UNCHANGED <<sockets, tables, chatPanels, toWorker, fromWorker, toPanel, workers, at, active,
                 watched, asker, status, shown, seen, pending, resumed>>

\* The receipt of an answer did not come in time.
AsksAgain(n) ==
  /\ n \in mounted
  /\ PanelPosts(n, Snapshot(at[n]))
  /\ UNCHANGED <<sockets, tables, chatPanels, toWorker, fromWorker, toPanel, workers, panels>>

\* The panel is not ready any more: its questions leave the screen.
Unmount(n) == mounted' = mounted \ {n} /\ pending' = [pending EXCEPT ![n] = {}]

\* gateToActiveTab: another tab is shown; the turn goes on without this panel.
PanelSwitches(n, x) ==
  /\ n \in chatPanels /\ at[n] # x
  /\ \A m \in Panels : at[m] # x
  /\ at' = [at EXCEPT ![n] = x]
  /\ Over(n, "left")
  /\ Unmount(n)
  /\ UNCHANGED <<sockets, tables, chatPanels, posted, toWorker, fromWorker, toPanel, workers,
                 watched, asker, shown, seen, resumed>>

WatchdogFires(n) ==
  /\ active[n] \in watched
  /\ Over(n, "error")
  /\ watched' = watched \ {active[n]}
  /\ UNCHANGED <<sockets, tables, chatPanels, posted, toWorker, fromWorker, toPanel, workers,
                 at, asker, shown, questions>>

\* onConnect: the panel is greeted with the places that have a worker.
PanelConnects(n, x) ==
  /\ at[n] = NoPlace
  /\ \A m \in Panels : at[m] # x
  /\ at' = [at EXCEPT ![n] = x]
  /\ chatPanels' = chatPanels \cup {n}
  /\ toPanel' = [toPanel EXCEPT ![n] = <<LiveAfter({})>>]
  /\ UNCHANGED <<sockets, tables, posted, toWorker, fromWorker, workers,
                 active, watched, asker, status, shown, questions>>

\* Mutant of Forget: onDisconnect without turnToBridgePort.delete.
ForgetHalf(n) ==
  /\ turnToPort' = [t \in Turns |-> IF t \in Pinned(n) THEN NoPanel ELSE turnToPort[t]]
  /\ turnRoutedAt' = turnRoutedAt \ Pinned(n)
  /\ UNCHANGED turnToBridgePort

Forget(n) == Unpinned(Pinned(n)) /\ turnRoutedAt' = turnRoutedAt \ Pinned(n)

\* The panel's page goes away: onDisconnect, after what it posted has been handled.
PanelCloses(n) ==
  /\ at[n] # NoPlace /\ posted[n] = <<>>
  /\ at' = [at EXCEPT ![n] = NoPlace]
  /\ chatPanels' = chatPanels \ {n}
  /\ interactionPanels' = [interactionPanels EXCEPT ![n] = NoPort]
  /\ Forget(n)
  /\ toPanel' = [toPanel EXCEPT ![n] = <<>>]
  /\ Over(n, "left")
  /\ watched' = watched \ TurnsOf(n)
  /\ Unmount(n) /\ seen' = [seen EXCEPT ![n] = {}]
  /\ UNCHANGED <<sockets, answerTurns, posted, toWorker, fromWorker, workers, asker, shown, resumed>>

-----------------------------------------------------------------------------
(* The panel: onMessage and onChatEvent *)

\* Mutant of Accepts: an item that is open already opens again.
AcceptsAny(t, i) == i = 0 \/ shown[t] # <<>>

\* panelReducer: an item opens once and a delta needs its item. It appends every
\* delta, those too that reduceChatTurn has just ignored for their number.
Accepts(t, i) == i = 0 <=> shown[t] = <<>>

Streams(n, t, frame) ==
  \/ /\ frame.type = "item"
     /\ shown' = IF Accepts(t, frame.seq) THEN [shown EXCEPT ![t] = Append(@, frame.seq)] ELSE shown
     /\ watched' = watched \ {t}
     /\ UNCHANGED <<active, status>>
  \/ /\ frame.type = "chat_keepalive"
     /\ watched' = (watched \ TurnsOf(n)) \cup {t}
     /\ UNCHANGED <<active, status, shown>>
  \/ /\ frame.type = "chat_tool_notice"
     /\ watched' = watched \ {t}
     /\ UNCHANGED <<active, status, shown>>
  \/ /\ frame.type \in EndTypes
     /\ Over(n, IF frame.type = "chat_done" THEN "done" ELSE "error")
     /\ watched' = watched \ {t}
     /\ UNCHANGED shown

\* InteractionPanel: a snapshot replaces the questions that are shown. An event adds or
\* removes one if its revision is the next; if it is a later one, the panel asks anew.
Hears(n, frame) ==
  LET x == frame.place
  IN  \/ /\ frame.type = "interaction_snapshot"
         /\ pending' = [pending EXCEPT ![n] = {x}]
         /\ UNCHANGED posted
      \/ /\ frame.type = "interaction_event"
         /\ \/ pending' = [pending EXCEPT ![n] = @ \cup {x}] /\ UNCHANGED posted
            \/ pending' = [pending EXCEPT ![n] = @ \ {x}] /\ UNCHANGED posted
            \/ PanelPosts(n, Snapshot(at[n])) /\ UNCHANGED pending

Untold == {"interaction_event", "interaction_snapshot", "interaction_receipt", "bridges"}

PanelReceives(n) ==
  /\ toPanel[n] # <<>>
  /\ toPanel' = [toPanel EXCEPT ![n] = Tail(@)]
  /\ LET frame == Head(toPanel[n])
         mine == frame.type \notin Untold /\ frame.id = active[n]
         refused == /\ frame.type = "interaction_receipt"
                    /\ ~frame.accepted /\ frame.id = active[n]
         gone == frame.type = "bridges" /\ ~Live(n, frame.live)
         asks == frame.type \in {"interaction_event", "interaction_snapshot"} /\ n \in mounted
     IN  /\ \/ mine /\ Streams(n, active[n], frame)
            \/ refused /\ Over(n, "left") /\ UNCHANGED <<watched, shown>>
            \/ ~mine /\ ~refused /\ UNCHANGED <<active, watched, status, shown>>
         /\ \/ gone /\ Unmount(n) /\ UNCHANGED posted
            \/ asks /\ Hears(n, frame) /\ UNCHANGED mounted
            \/ ~gone /\ ~asks /\ UNCHANGED <<posted, pending, mounted>>
         /\ seen' = IF frame.type = "bridges" THEN [seen EXCEPT ![n] = frame.live] ELSE seen
  /\ UNCHANGED <<sockets, tables, chatPanels, toWorker, fromWorker, workers, at, asker, resumed>>

-----------------------------------------------------------------------------
(* Workers (external) *)

Answers(p, frame) ==
  /\ Len(fromWorker[p]) < MaxQueue
  /\ fromWorker' = [fromWorker EXCEPT ![p] = Append(@, frame)]

Works(p, t) == working' = [working EXCEPT ![p] = @ \cup {t}]
Quits(p, t) == working' = [working EXCEPT ![p] = @ \ {t}]

\* One turn at a time (session-busy); an answer is accepted or refused.
WorkerTakes(p) ==
  /\ p \in open /\ toWorker[p] # <<>>
  /\ toWorker' = [toWorker EXCEPT ![p] = Tail(@)]
  /\ LET frame == Head(toWorker[p])
     IN  \/ /\ frame.type = "chat_request" /\ working[p] = {}
            /\ Works(p, frame.id) /\ UNCHANGED fromWorker
         \/ /\ frame.type = "chat_request" /\ working[p] # {}
            /\ Answers(p, Frame("chat_error", frame.id)) /\ UNCHANGED working
         \/ /\ frame.type = "chat_stop" /\ frame.id \in working[p]
            /\ Quits(p, frame.id) /\ Answers(p, Frame("chat_error", frame.id))
         \/ /\ frame.type = "chat_stop" /\ frame.id \notin working[p]
            /\ UNCHANGED <<working, fromWorker>>
         \/ /\ frame.type = "interaction_respond" /\ working[p] = {}
            /\ Works(p, frame.id) /\ Answers(p, Receipt(frame.id, TRUE))
         \/ /\ frame.type = "interaction_respond"
            /\ Answers(p, Receipt(frame.id, FALSE)) /\ UNCHANGED working
         \/ /\ frame.type = "interaction_snapshot"
            /\ Answers(p, Snapshot(serves[p])) /\ UNCHANGED working
  /\ UNCHANGED <<sockets, tables, chatPanels, posted, toPanel, said, sentOver, stranded, panels>>

\* The next piece of an answer.
WorkerSays(p, t) ==
  /\ p \in open /\ t \in working[p] /\ said[t] < MaxPiece
  /\ said' = [said EXCEPT ![t] = @ + 1]
  /\ Answers(p, Item(t, said[t] + 1))
  /\ UNCHANGED <<sockets, tables, chatPanels, posted, toWorker, toPanel, working, sentOver, stranded, panels>>

\* A piece said before.
WorkerRepeats(p, t, i) ==
  /\ p \in open /\ t \in working[p] /\ i <= said[t]
  /\ Answers(p, Item(t, i))
  /\ UNCHANGED <<sockets, tables, chatPanels, posted, toWorker, toPanel, workers, panels>>

\* A sign of life, or a question.
WorkerSignals(p, t) ==
  /\ p \in open /\ t \in working[p]
  /\ \/ \E type \in AliveTypes : Answers(p, Frame(type, t))
     \/ Answers(p, Question(serves[p]))
  /\ UNCHANGED <<sockets, tables, chatPanels, posted, toWorker, toPanel, workers, panels>>

WorkerEnds(p, t) ==
  /\ p \in open /\ t \in working[p]
  /\ Quits(p, t)
  /\ \E type \in EndTypes : Answers(p, Frame(type, t))
  /\ UNCHANGED <<sockets, tables, chatPanels, posted, toWorker, toPanel, said, sentOver, stranded, panels>>

-----------------------------------------------------------------------------
\* Nothing is under way: no turn, no frame, no question.
Idle ==
  /\ turnToPort = [t \in Turns |-> NoPanel]
  /\ turnToBridgePort = [t \in Turns |-> NoPort]
  /\ turnRoutedAt = {} /\ answerTurns = {}
  /\ interactionPanels = [n \in Panels |-> NoPort]
  /\ toWorker = [p \in Ports |-> <<>>] /\ fromWorker = [p \in Ports |-> <<>>]
  /\ posted = [n \in Panels |-> <<>>] /\ toPanel = [n \in Panels |-> <<>>]
  /\ working = [p \in Ports |-> {}] /\ said = [t \in Turns |-> -1]
  /\ sentOver = [p \in Ports |-> {}] /\ stranded = [p \in Ports |-> {}]
  /\ active = [n \in Panels |-> NoTurn] /\ watched = {}
  /\ asker = [t \in Turns |-> NoPanel]
  /\ status = [t \in Turns |-> "new"]
  /\ shown = [t \in Turns |-> <<>>]
  /\ mounted = {} /\ pending = [n \in Panels |-> {}] /\ resumed = {}

\* No panel and no socket yet.
Init ==
  /\ Idle
  /\ open = {} /\ serves = [p \in Ports |-> NoPlace]
  /\ at = [n \in Panels |-> NoPlace] /\ chatPanels = {} /\ seen = [n \in Panels |-> {}]

Next ==
  \/ \E p \in Ports, x \in Places : SocketOpens(p, x)
  \/ \E p \in Ports, dies \in BOOLEAN : SocketCloses(p, dies)
  \/ Heartbeat \/ Restart
  \/ \E p \in Ports : ServiceWorkerReceives(p)
  \/ \E t \in Turns : ToolEnds(t)
  \/ \E n \in Panels, t \in Turns : UserSends(n, t) \/ UserAnswers(n, t)
  \/ \E n \in Panels : RequestArrives(n) \/ AnswerArrives(n) \/ SnapshotArrives(n) \/ StopArrives(n)
  \/ \E n \in Panels : PanelMounts(n) \/ AsksAgain(n) \/ UserStops(n) \/ WatchdogFires(n)
  \/ \E n \in Panels, x \in Places : PanelSwitches(n, x) \/ PanelConnects(n, x)
  \/ \E n \in Panels : PanelCloses(n) \/ PanelReceives(n)
  \/ \E p \in Ports : WorkerTakes(p)
  \/ \E p \in Ports, t \in Turns : WorkerSays(p, t) \/ WorkerSignals(p, t) \/ WorkerEnds(p, t)
  \/ \E p \in Ports, t \in Turns, i \in Pieces : WorkerRepeats(p, t, i)

Spec == Init /\ [][Next]_vars

\* Frames that have arrived are handled, and a worker ends what it works on.
Fairness ==
  /\ \A p \in Ports : WF_vars(ServiceWorkerReceives(p)) /\ WF_vars(WorkerTakes(p))
  /\ \A n \in Panels : WF_vars(PostArrives(n)) /\ WF_vars(PanelReceives(n)) /\ WF_vars(WatchdogFires(n))
  /\ \A p \in Ports, t \in Turns : SF_vars(WorkerEnds(p, t))

-----------------------------------------------------------------------------
(* Properties *)

\* The two tables of a turn never part, and name a panel whose Port is connected:
\* every handler that drops a turn from one drops it from the other.
TurnTablesAgree ==
  \A t \in Turns :
    /\ turnToPort[t] = NoPanel <=> turnToBridgePort[t] = NoPort
    /\ turnToPort[t] # NoPanel => turnToPort[t] \in chatPanels /\ asker[t] = turnToPort[t]

\* What the panels show of a turn is what ChatTurn promises, of a worker that numbers
\* its deltas and sends each once.
Phase(t) == IF status[t] \in {"new", "open"} THEN status[t] ELSE "ended"
Turn == INSTANCE ChatTurn WITH phase <- [t \in Turns |-> Phase(t)]
TurnIsKept == Turn!TSpec

\* A stop that meets another socket than its turn's is of a turn that an earlier socket
\* of that very port left pinned, by closing while other sockets were open: no refused,
\* answered, failed or restarted turn is ever stopped at a port's next worker.
StrayStopsWereStranded ==
  \A p \in Ports : \A i \in DOMAIN toWorker[p] :
    toWorker[p][i].type = "chat_stop" => toWorker[p][i].id \in sentOver[p] \cup stranded[p]

\* Something is under way for turn t at port p.
UnderWay(t, p) ==
  \/ t \in working[p]
  \/ \E i \in DOMAIN toWorker[p] : toWorker[p][i] \in {Frame("chat_request", t),
                                                       Frame("interaction_respond", t)}
  \/ \E i \in DOMAIN fromWorker[p] :
       fromWorker[p][i] \in {Frame(type, t) : type \in EndTypes} \cup {Receipt(t, FALSE)}

\* isInFlight, which keeps the controlled tab and the active tenant where they are,
\* is true only while some worker has a turn of ours to finish, or because of a turn
\* that a socket left pinned by closing while others were open: no other turn stays
\* pinned after its socket, its worker or its answer is gone.
BusyOnlyWhileWorking ==
  \A t \in Turns : turnToPort[t] # NoPanel =>
    LET p == turnToBridgePort[t]
    IN  (p \in open /\ UnderWay(t, p)) \/ t \in stranded[p]

\* Frame f ends turn t in its panel.
EndOf(f, t) == f.type \in EndTypes /\ f.id = t

\* Nobody forgets a request that is open in a connected panel: its first-token watchdog
\* is armed, or it is pinned, so that its worker, its panel or the loss of the last
\* socket will end it, or its end is on its way to the panel. No handler takes a turn
\* from the tables without telling its panel, and no frame that disarms the watchdog
\* is still under way when the turn is not pinned any more, unless its end is, too.
NoRequestIsForgotten ==
  \A t \in Turns \ resumed :
    status[t] = "open" /\ asker[t] \in chatPanels =>
      \/ t \in watched
      \/ turnToPort[t] = asker[t]
      \/ \E i \in DOMAIN toPanel[asker[t]] : EndOf(toPanel[asker[t]][i], t)

\* A question of another place that a panel shows is about to go: the panel's own
\* command for its worker's questions, the worker's reply, or the news that the
\* worker is gone is on its way, although ports are reused by other places' workers
\* and interactionPanels keeps a port when its socket closes.
StrangeQuestionsGo ==
  \A n \in chatPanels :
    \/ pending[n] \subseteq {at[n]}
    \/ Snapshot(at[n]) \in Range(posted[n]) \cup Range(toPanel[n])
    \/ \E p \in open : /\ interactionPanels[n] = p /\ serves[p] = at[n]
                        /\ Snapshot(at[n]) \in Range(toWorker[p]) \cup Range(fromWorker[p])
    \/ \E frame \in Range(toPanel[n]) : frame.type = "bridges" /\ ~Live(n, frame.live)

\* Turn t is open in a panel that is still connected.
Hangs(t) == status[t] = "open" /\ asker[t] \in chatPanels

\* The turn of a request does not stay open for ever in a connected panel: the
\* worker, the service worker or the watchdog ends it (FAILURE-MODES.md: "every way a
\* chat turn can fail maps to a distinct, actionable message").
RequestSettles == \A t \in Turns : Hangs(t) /\ t \notin resumed ~> ~Hangs(t)
=============================================================================
