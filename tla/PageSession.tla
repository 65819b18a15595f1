----------------------------- MODULE PageSession -----------------------------
(***************************************************************************)
(* The controlled tab and what is read from its debugger (service-worker.ts *)
(* setControlledTab, the tab listeners' bindings, the network observer and  *)
(* its buffer, wait_for_api_response, the captured API bodies and the page  *)
(* snapshot; decideBinding of tab-binding.ts).                              *)
(*                                                                         *)
(* setControlledTab waits for Chrome twice, so calls of it overlap. Chrome  *)
(* carries its commands out in the order they are issued: a command has its *)
(* effect when issued, its caller goes on later. attachedTabs and Chrome's  *)
(* own record agree and are one variable. Chrome may refuse to move a tab   *)
(* into the red group or out of it: the code catches it and goes on. A page *)
(* is the tenant it is of. A network event either is a response that        *)
(* matches the pattern waited for and carries a resource, or any other.     *)
(***************************************************************************)
EXTENDS Integers, Sequences, FiniteSets, SequencesExt

CONSTANTS
  Tabs, Tenants, Calls, Waits,
  NoTab,
  Blank,      \* the page of a tab that shows no console
  Gone,       \* the page of a closed tab
  NoBody,
  Cap,        \* entries of the network buffer (500 in the code)
  MaxEvents   \* bound: network events

ASSUME SessionAssumption ==
  /\ NoTab \notin Tabs /\ Blank \notin Tenants /\ Gone \notin Tenants /\ Blank # Gone
  /\ NoBody \notin Tenants
  /\ Cap \in Nat \ {0} /\ MaxEvents \in Nat

Pages == Tenants \cup {Blank, Gone}
Events == [tab : Tabs, no : 1..MaxEvents, hit : BOOLEAN]
NoEvent == [tab |-> NoTab, no |-> 0, hit |-> FALSE]

VARIABLES
  page,        \* the page of each tab (Chrome)
  target,      \* targetTabId
  calls,       \* setControlledTab calls in progress
  grouped,     \* tabs in the red group (Chrome)
  refused,     \* history: tabs whose last move to or from the group failed
  attached,    \* attachedTabs
  reporting,   \* tabs whose Network domain is on (Chrome)
  observing,   \* observingNetwork
  buffer,      \* networkBuffer
  past,        \* history: every event Chrome has reported
  waits,       \* wait_for_api_response calls
  pending,     \* bodies on their way: pendingApi and getResponseBody
  captured,    \* latestApiCapture: the tenant of each tab's body
  chatting,    \* is a chat turn in flight (turnToPort is not empty)
  building,    \* the tab a snapshot is being built of
  snapshot     \* the last snapshot: the page and the body of it

binding == <<target, calls, grouped, refused>>
network == <<reporting, observing, buffer, past>>
context == <<pending, captured, building, snapshot>>
vars == <<page, attached, chatting, waits, binding, network, context>>

TypeOK ==
  /\ page \in [Tabs -> Pages]
  /\ target \in Tabs \cup {NoTab}
  /\ calls \in [Calls -> [pc : {"free", "ungrouping", "attaching"},
                          tab : Tabs \cup {NoTab}, prev : Tabs \cup {NoTab}, tool : BOOLEAN]]
  /\ grouped \subseteq Tabs /\ refused \subseteq Tabs
  /\ attached \subseteq Tabs /\ reporting \subseteq attached
  /\ observing \in BOOLEAN
  /\ buffer \in BoundedSeq(Events, Cap) /\ past \subseteq Events
  /\ waits \in [Waits -> [pc : {"idle", "enabling", "polling", "found", "timedOut"},
                          tab : Tabs \cup {NoTab}, from : 0..Cap, since : 0..MaxEvents,
                          scanned : 0..MaxEvents, steady : BOOLEAN,
                          got : Events \cup {NoEvent}]]
  /\ pending \subseteq Tabs \X Tenants
  /\ captured \in [Tabs -> Tenants \cup {NoBody}]
  /\ chatting \in BOOLEAN /\ building \in Tabs \cup {NoTab}
  /\ snapshot \in [page : Pages, body : Tenants \cup {NoBody}]

Open(t) == page[t] # Gone
IsConsole(p) == p \in Tenants

-----------------------------------------------------------------------------
(* Binding *)

\* isInFlight: a tool runs or a turn does.
InFlight ==
  \/ chatting
  \/ \E c \in Calls : calls[c].pc # "free" /\ calls[c].tool
  \/ \E w \in Waits : waits[w].pc \in {"enabling", "polling"}

\* decideBinding for an activated tab: "automation always wins".
Binds(t) == ~InFlight /\ IsConsole(page[t]) /\ t # target

Free == [pc |-> "free", tab |-> NoTab, prev |-> NoTab, tool |-> FALSE]

\* A wait stays steady while its tab is controlled and reports.
Steady(ws, tgt, rep) ==
  [w \in Waits |-> [ws[w] EXCEPT !.steady = @ /\ (ws[w].pc = "polling" =>
                                                    ws[w].tab = tgt /\ ws[w].tab \in rep)]]

\* tabs.group, tabs.ungroup: Chrome moves the tab, or refuses to.
Groups(t, grp) ==
  \/ Open(t) /\ grouped' = grp \cup {t} /\ refused' = refused \ {t}
  \/ grouped' = grp /\ refused' = refused \cup {t}

Ungroups(t, grp) ==
  \/ grouped' = grp \ {t} /\ refused' = refused \ {t}
  \/ t \in grp /\ grouped' = grp /\ refused' = refused \cup {t}

\* setControlledTab from the assignment of targetTabId on: an unbind ungroups
\* again and is over, a tab that is attached is grouped at once.
Take(c, t, prev, tool, grp) ==
  /\ target' = t
  /\ IF t # NoTab /\ t \notin attached
     THEN /\ calls' = [calls EXCEPT ![c] = [pc |-> "attaching", tab |-> t, prev |-> prev, tool |-> tool]]
          /\ grouped' = grp /\ UNCHANGED refused
     ELSE /\ calls' = [calls EXCEPT ![c] = Free]
          /\ IF t = NoTab THEN Ungroups(prev, grp) ELSE Groups(t, grp)

\* setControlledTab up to its first await; grp is the group the caller finds.
SetControlledTab(c, t, tool, grp) ==
  /\ calls[c].pc = "free"
  /\ IF target \notin {NoTab, t}
     THEN /\ calls' = [calls EXCEPT ![c] = [pc |-> "ungrouping", tab |-> t, prev |-> target, tool |-> tool]]
          /\ Ungroups(target, grp)
          /\ UNCHANGED target
     ELSE Take(c, t, target, tool, grp)

Ungrouped(c) ==
  LET k == calls[c]
  IN  /\ k.pc = "ungrouping"
      /\ Take(c, k.tab, k.prev, k.tool, grouped)
      /\ waits' = Steady(waits, target', reporting)
      /\ UNCHANGED <<page, attached, chatting, network, context>>

\* Mutant of AttachEnds: a refused debugger ends the call.
AttachEndsStrict(c) ==
  LET t == calls[c].tab
  IN  /\ calls[c].pc = "attaching"
      /\ calls' = [calls EXCEPT ![c] = Free]
      /\ IF IsConsole(page[t])
         THEN attached' = attached \cup {t} /\ Groups(t, grouped)
         ELSE UNCHANGED <<attached, grouped, refused>>
      /\ UNCHANGED <<page, target, chatting, waits, network, context>>

\* ensureDebuggerAttached refuses a tab that shows no console; the tab is grouped
\* all the same, if Chrome lets it: the binding holds either way.
AttachEnds(c) ==
  LET t == calls[c].tab
  IN  /\ calls[c].pc = "attaching"
      /\ attached' = IF IsConsole(page[t]) THEN attached \cup {t} ELSE attached
      /\ Groups(t, grouped)
      /\ calls' = [calls EXCEPT ![c] = Free]
      /\ UNCHANGED <<page, target, chatting, waits, network, context>>

\* onActivated, and a panel that connects: the tab in front is bound.
TabActivated(c, t) ==
  /\ Binds(t)
  /\ SetControlledTab(c, t, FALSE, grouped)
  /\ waits' = Steady(waits, target', reporting)
  /\ UNCHANGED <<page, attached, chatting, network, context>>

\* navigate and tabs_create bind the worker's tab whatever runs.
ToolBinds(c, t) ==
  /\ Open(t)
  /\ SetControlledTab(c, t, TRUE, grouped)
  /\ waits' = Steady(waits, target', reporting)
  /\ UNCHANGED <<page, attached, chatting, network, context>>

\* onUpdated: the controlled tab is unbound when it leaves the console.
TabNavigates(c, t, p) ==
  /\ Open(t) /\ p \notin {page[t], Gone}
  /\ page' = [page EXCEPT ![t] = p]
  /\ IF t = target /\ ~IsConsole(p)
     THEN SetControlledTab(c, NoTab, FALSE, grouped)
     ELSE UNCHANGED binding
  /\ waits' = Steady(waits, target', reporting)
  /\ UNCHANGED <<attached, chatting, network, context>>

\* onRemoved and the debugger's onDetach: the tab's records go.
TabCloses(c, t) ==
  /\ Open(t)
  /\ page' = [page EXCEPT ![t] = Gone]
  /\ attached' = attached \ {t} /\ reporting' = reporting \ {t}
  /\ captured' = [captured EXCEPT ![t] = NoBody]
  /\ pending' = {b \in pending : b[1] # t}
  /\ IF t = target
     THEN SetControlledTab(c, NoTab, FALSE, grouped \ {t})
     ELSE grouped' = grouped \ {t} /\ UNCHANGED <<target, calls, refused>>
  /\ waits' = Steady(waits, target', reporting')
  /\ UNCHANGED <<chatting, observing, buffer, past, building, snapshot>>

\* The debugger is detached: by the user (onDetach drops the body kept), or by the
\* detach tool, stop_agent or evaluateWithRecovery, of which Chrome sends no event.
Detached(t, own) ==
  /\ t \in attached
  /\ attached' = attached \ {t} /\ reporting' = reporting \ {t}
  /\ captured' = IF own THEN captured ELSE [captured EXCEPT ![t] = NoBody]
  /\ pending' = {b \in pending : b[1] # t}
  /\ waits' = Steady(waits, target, reporting')
  /\ UNCHANGED <<page, chatting, binding, observing, buffer, past, building, snapshot>>

\* A chat turn starts or ends (module ChatTurns).
TurnToggles ==
  /\ chatting' = ~chatting
  /\ UNCHANGED <<page, attached, waits, binding, network, context>>

-----------------------------------------------------------------------------
(* Network events *)

\* Mutant of Push: no entry ever goes.
PushAll(e) == Append(buffer, e)

\* The ring buffer: the oldest entry goes.
Push(e) == IF Len(buffer) = Cap THEN Append(Tail(buffer), e) ELSE Append(buffer, e)

\* debugger.onEvent: only events of the controlled tab are kept, without their tab.
\* The body of a resource is fetched when it has loaded.
NetworkEvent(t, hit) ==
  LET e == [tab |-> t, no |-> Cardinality(past) + 1, hit |-> hit]
  IN  /\ t \in reporting /\ Cardinality(past) < MaxEvents
      /\ hit => IsConsole(page[t])
      /\ past' = past \cup {e}
      /\ buffer' = IF t = target THEN Push(e) ELSE buffer
      /\ pending' = IF t = target /\ hit THEN pending \cup {<<t, page[t]>>} ELSE pending
      /\ UNCHANGED <<page, attached, chatting, waits, binding, reporting, observing,
                     captured, building, snapshot>>

BodyArrives(b) ==
  /\ b \in pending
  /\ pending' = pending \ {b}
  /\ captured' = [captured EXCEPT ![b[1]] = b[2]]
  /\ UNCHANGED <<page, attached, chatting, waits, binding, network, building, snapshot>>

BodyIsLost(b) ==
  /\ b \in pending
  /\ pending' = pending \ {b}
  /\ UNCHANGED <<page, attached, chatting, waits, binding, network, captured, building, snapshot>>

-----------------------------------------------------------------------------
(* wait_for_api_response *)

\* Mutant of Fresh: the first new entry is skipped.
FreshButFirst(w) == waits[w].from + 2..Len(buffer)

\* The entries a wait looks at: "only check NEW entries".
Fresh(w) == waits[w].from + 1..Len(buffer)

Polling(w, t) ==
  [waits EXCEPT ![w] = [pc |-> "polling", tab |-> t, from |-> Len(buffer),
                        since |-> Cardinality(past), scanned |-> Cardinality(past),
                        steady |-> t = target /\ t \in reporting', got |-> NoEvent]]

\* The worker's bound tab; enableNetworkObserver does nothing once it has observed.
WaitStarts(w, t) ==
  /\ Open(t) /\ waits[w].pc = "idle"
  /\ UNCHANGED reporting
  /\ waits' = IF observing THEN Polling(w, t)
              ELSE [waits EXCEPT ![w].pc = "enabling", ![w].tab = t]
  /\ UNCHANGED <<page, attached, chatting, binding, observing, buffer, past, context>>

\* Network.enable of a tab that can be attached; otherwise the tool fails.
Observed(w) ==
  LET t == waits[w].tab
  IN  /\ waits[w].pc = "enabling"
      /\ IF IsConsole(page[t]) \/ t \in attached
         THEN /\ attached' = attached \cup {t} /\ reporting' = reporting \cup {t}
              /\ observing' = TRUE
              /\ waits' = Polling(w, t)
         ELSE /\ waits' = [waits EXCEPT ![w].pc = "timedOut"]
              /\ UNCHANGED <<attached, reporting, observing>>
      /\ UNCHANGED <<page, chatting, binding, buffer, past, context>>

Scan(w) ==
  /\ waits[w].pc = "polling"
  /\ LET hits == {i \in Fresh(w) : buffer[i].hit}
     IN  waits' = IF hits = {}
                  THEN [waits EXCEPT ![w].scanned = Cardinality(past)]
                  ELSE [waits EXCEPT ![w].pc = "found",
                                     ![w].got = buffer[CHOOSE i \in hits : \A j \in hits : i <= j]]
  /\ UNCHANGED <<page, attached, chatting, binding, network, context>>

\* The deadline passes between two scans.
TimesOut(w) ==
  /\ waits[w].pc = "polling"
  /\ waits' = [waits EXCEPT ![w].pc = "timedOut"]
  /\ UNCHANGED <<page, attached, chatting, binding, network, context>>

-----------------------------------------------------------------------------
(* buildPageContext *)

\* The observer is enabled as for a wait; a snapshot of a tab it cannot attach fails.
BuildStarts(t) ==
  /\ building = NoTab /\ Open(t)
  /\ observing \/ IsConsole(page[t]) \/ t \in attached
  /\ building' = t
  /\ observing' = TRUE
  /\ attached' = IF observing THEN attached ELSE attached \cup {t}
  /\ reporting' = IF observing THEN reporting ELSE reporting \cup {t}
  /\ UNCHANGED <<page, chatting, waits, binding, buffer, past, pending, captured, snapshot>>

\* The body captured last of the tab, whatever page it was of.
BuildEnds ==
  /\ building # NoTab
  /\ snapshot' = [page |-> page[building], body |-> captured[building]]
  /\ building' = NoTab
  /\ UNCHANGED <<page, attached, chatting, waits, binding, network, pending, captured>>

-----------------------------------------------------------------------------
Init ==
  /\ page \in [Tabs -> Tenants \cup {Blank}]
  /\ target = NoTab /\ calls = [c \in Calls |-> Free] /\ grouped = {} /\ refused = {}
  /\ attached = {} /\ reporting = {} /\ observing = FALSE
  /\ buffer = <<>> /\ past = {}
  /\ waits = [w \in Waits |-> [pc |-> "idle", tab |-> NoTab, from |-> 0, since |-> 0,
                               scanned |-> 0, steady |-> FALSE, got |-> NoEvent]]
  /\ pending = {} /\ captured = [t \in Tabs |-> NoBody]
  /\ chatting = FALSE /\ building = NoTab
  /\ snapshot = [page |-> Blank, body |-> NoBody]

Next ==
  \/ TurnToggles \/ BuildEnds
  \/ \E c \in Calls : Ungrouped(c) \/ AttachEnds(c)
  \/ \E c \in Calls, t \in Tabs : TabActivated(c, t) \/ ToolBinds(c, t) \/ TabCloses(c, t)
  \/ \E c \in Calls, t \in Tabs, p \in Pages : TabNavigates(c, t, p)
  \/ \E t \in Tabs : BuildStarts(t)
  \/ \E t \in Tabs, own \in BOOLEAN : Detached(t, own)
  \/ \E t \in Tabs, hit \in BOOLEAN : NetworkEvent(t, hit)
  \/ \E b \in pending : BodyArrives(b) \/ BodyIsLost(b)
  \/ \E w \in Waits : Observed(w) \/ Scan(w) \/ TimesOut(w)
  \/ \E w \in Waits, t \in Tabs : WaitStarts(w, t)

Spec == Init /\ [][Next]_vars

-----------------------------------------------------------------------------
(* Properties *)

\* Whatever order overlapping calls of setControlledTab end in, the tab that is
\* controlled once all are over is in the red group, unless Chrome refused the last
\* move of it (a closed tab is always refused).
ControlledTabIsGrouped ==
  (\A c \in Calls : calls[c].pc = "free") /\ target # NoTab => target \in grouped \cup refused

\* A wait ends in a timeout only if, of the tab that stayed controlled and observed,
\* no matching response had come in when it last looked ...
NewResponsesAreSeen ==
  \A w \in Waits : waits[w].pc = "timedOut" /\ waits[w].steady =>
    ~\E e \in past : e.tab = waits[w].tab /\ e.hit /\ e.no > waits[w].since /\ e.no <= waits[w].scanned

\* ... which holds as long as the buffer has not dropped an entry.
SeenUntilFull == Cardinality(past) <= Cap => NewResponsesAreSeen
=============================================================================
