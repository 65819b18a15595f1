------------------------------ MODULE PageTools ------------------------------
(***************************************************************************)
(* The tools that act on one page through its debugger (service-worker.ts   *)
(* runTool, click, label_select, javascript_tool, navigate and the reads of *)
(* the accessibility tree), with the content script's references to         *)
(* elements (accessibility-tree.ts, ax-serialize.ts) and its indicator.     *)
(*                                                                         *)
(* Nothing serialises the calls of a tab: each tool goes from one debugger  *)
(* command to the next while other calls, the page and the user go on. A    *)
(* command takes effect in one step. An element is its place in the         *)
(* document and covers the earlier ones it shares a point with; to scroll   *)
(* one into view may move all others. What an evaluation computes of names  *)
(* and texts is any outcome it may have, and a tool that only scrolls or    *)
(* runs a script is a move of the page.                                     *)
(***************************************************************************)
EXTENDS Integers, Sequences, FiniteSets, SequencesExt, Indicator

CONSTANTS
  Calls,     \* tool calls that may overlap
  N,         \* bound: elements of the page that tools act on
  Points,    \* points of the viewport
  NoPoint,   \* outside the viewport
  Within,    \* <<inner, outer>>: the elements that contain another
  Reloads    \* reloads of a page that shows the CSRF error (2 in the code)

ASSUME ToolsAssumption ==
  /\ N \in Nat \ {0} /\ NoPoint \notin Points /\ Reloads \in Nat
  /\ Within \subseteq (1..N) \X (1..N)

Elements == 1..N
NoElement == 0
NoPress == -1
Tools == {"read", "click", "select", "javascript", "navigate"}

VARIABLES
  page,      \* the elements there are, each with the point its centre is at
  loaded,    \* has the document finished loading
  refs,      \* REFMAP: the element of each ref
  tag,       \* the element that carries data-xcsh-pick
  attached,  \* attachedTabs has the tab, and Chrome agrees
  stale,     \* the execution context hangs whatever it is asked to evaluate
  light,     \* the indicator's envelope
  calls

document == <<page, loaded, refs, tag>>
vars == <<document, attached, stale, light, calls>>

Places == Points \cup {NoPoint}
Pages == UNION {[S -> Places] : S \in SUBSET Elements}

\* target: the element the call's handle holds; held: is the handle valid; then: what
\* follows the mouse events; fresh: history, the page has not moved since the hit test
\* of the point succeeded; landed: history, what the press hit.
Call == [tool : Tools,
         pc : {"idle", "read", "resolve", "rescroll", "scroll", "measure", "test", "hover",
               "press", "release", "locate", "type", "poll", "pick", "untag", "commit",
               "attach", "evaluate", "neutralize", "go", "listen", "loading", "csrf", "settle",
               "done"},
         ref : 0..N, target : 0..N, point : Places, then : {"type", "untag", "done"},
         tries : 0..Max({1, Reloads}), held : BOOLEAN, fresh : BOOLEAN, landed : -1..N]

TypeOK ==
  /\ page \in Pages /\ loaded \in BOOLEAN
  /\ refs \in BoundedSeq(Elements, N) /\ tag \in 0..N
  /\ attached \in BOOLEAN /\ stale \in BOOLEAN
  /\ light \in Envelopes
  /\ calls \in [Calls -> Call]

\* document.elementFromPoint
Top(p) ==
  LET there == {e \in DOMAIN page : page[e] = p}
  IN  IF there = {} \/ p = NoPoint THEN NoElement ELSE Max(there)

\* "self / ancestor / descendant"
Hits(e, t) == e # NoElement /\ (e = t \/ <<e, t>> \in Within \/ <<t, e>> \in Within)

\* Where elements are once e is scrolled into view, if it can be.
ScrollsTo(e) ==
  /\ page' \in [DOMAIN page -> Places]
  /\ page' = page \/ page'[e] \in Points

\* No verdict holds any longer when the page has moved.
Moved(cs) ==
  IF page' = page THEN cs ELSE [c \in Calls |-> [cs[c] EXCEPT !.fresh = FALSE]]

\* serializeAx: refs are numbered from the start of the document, anew at each read.
Serialized == SetToSortSeq(DOMAIN page, <)

-----------------------------------------------------------------------------
(* runTool *)

Running(c) == calls[c].pc \notin {"idle", "done"}

FirstStep == [read |-> "read", click |-> "resolve", select |-> "locate",
              javascript |-> "attach", navigate |-> "neutralize"]

Blank(tool, pc, ref) ==
  [tool |-> tool, pc |-> pc, ref |-> ref, target |-> NoElement,
   point |-> NoPoint, then |-> "done", tries |-> 0, held |-> FALSE, fresh |-> FALSE, landed |-> NoPress]

\* Only a click is given a ref.
Starts(c, tool, ref) ==
  /\ ~Running(c) /\ (tool = "click" <=> ref # 0)
  /\ calls' = [calls EXCEPT ![c] = Blank(tool, FirstStep[tool], ref)]
  /\ light' = Show(light)
  /\ UNCHANGED <<document, attached, stale>>

\* The call is over, "finally" hides the indicator. What was pressed is kept.
Ended(c, landed) ==
  /\ LET k == calls[c]
     IN  calls' = [calls EXCEPT ![c] =
           IF landed = NoPress THEN Blank("read", "done", 0)
           ELSE [Blank(k.tool, "done", 0) EXCEPT !.target = k.target,
                                                 !.fresh = k.fresh, !.landed = landed]]
  /\ light' = Hide(light)

Fails(c) == Ended(c, NoPress)

\* The call goes on with some of its fields changed.
Goes(c, k) == calls' = [calls EXCEPT ![c] = k] /\ UNCHANGED light

\* evalInPage, evalForObject: the debugger is attached if need be; in a stale context
\* the evaluation hangs.
Evaluates(c, pc) == calls[c].pc = pc /\ ~stale /\ attached' = TRUE /\ UNCHANGED stale

\* An evaluation, or the attachment before it, fails: the session was detached
\* meanwhile, the tab left the console, the page threw.
EvaluationFails(c) ==
  /\ stale => calls[c].pc = "attach"
  /\ calls[c].pc \in {"read", "resolve", "pick", "locate", "type", "poll", "commit", "attach"}
  /\ Fails(c)
  /\ UNCHANGED <<document, attached, stale>>

-----------------------------------------------------------------------------
(* Reading: read_ax, find, wait_for, assert_text and the panel's snapshots *)

Read(c) ==
  /\ Evaluates(c, "read")
  /\ refs' = Serialized
  /\ Ended(c, NoPress)
  /\ UNCHANGED <<page, loaded, tag>>

\* wait_for reads until an element matches.
ReadAgain(c) ==
  /\ Evaluates(c, "read")
  /\ refs' = Serialized
  /\ UNCHANGED <<page, loaded, tag, light, calls>>

\* A snapshot is built for the panel without a tool call, of the same map.
SnapshotReads ==
  /\ ~stale /\ attached' = TRUE
  /\ refs' = Serialized
  /\ UNCHANGED <<page, loaded, tag, stale, light, calls>>

-----------------------------------------------------------------------------
(* Clicking *)

Resolve(c) ==
  /\ Evaluates(c, "resolve")
  /\ LET k == calls[c]
     IN  IF k.ref \in DOMAIN refs
         THEN Goes(c, [k EXCEPT !.pc = "scroll", !.held = TRUE, !.ref = 0, !.target = refs[k.ref]])
         ELSE Fails(c)
  /\ UNCHANGED document

\* DOM.scrollIntoViewIfNeeded moves the page under the points of other calls, too; that
\* it fails is caught.
Scroll(c) ==
  LET k == calls[c]
  IN  /\ k.pc \in {"rescroll", "scroll"}
      /\ \/ UNCHANGED page
         \/ k.held /\ k.target \in DOMAIN page /\ ScrollsTo(k.target)
      /\ calls' = Moved([calls EXCEPT ![c].pc = IF k.pc = "rescroll" THEN "scroll" ELSE "measure"])
      /\ UNCHANGED <<loaded, refs, tag, attached, stale, light>>

\* An element that is gone has neither quads nor a box model.
Measure(c) ==
  LET k == calls[c]
  IN  /\ k.pc = "measure"
      /\ IF k.held /\ k.target \in DOMAIN page
         THEN Goes(c, [k EXCEPT !.pc = "test", !.point = page[k.target]])
         ELSE Fails(c)
      /\ UNCHANGED <<document, attached, stale>>

Verified(k) ==
  [k EXCEPT !.pc = "hover", !.fresh = TRUE, !.then = IF k.tool = "click" THEN "done" ELSE "untag"]

\* Mutant of HitTest: what the second test says is not looked at.
HitTestOnce(c) ==
  LET k == calls[c]
  IN  /\ k.pc = "test" /\ ~stale
      /\ IF ~k.held THEN Fails(c)
         ELSE IF Hits(Top(k.point), k.target) \/ k.tries = 1
         THEN Goes(c, Verified(k))
         ELSE Goes(c, [k EXCEPT !.pc = "rescroll", !.tries = 1])
      /\ UNCHANGED <<document, attached, stale>>

\* The test is repeated once, after the element has been scrolled to again.
HitTest(c) ==
  LET k == calls[c]
  IN  /\ k.pc = "test" /\ ~stale
      /\ IF k.held /\ Hits(Top(k.point), k.target)
         THEN Goes(c, Verified(k))
         ELSE IF k.held /\ k.tries = 0
         THEN Goes(c, [k EXCEPT !.pc = "rescroll", !.tries = 1])
         ELSE Fails(c)
      /\ UNCHANGED <<document, attached, stale>>

\* dispatchClickAt: three mouse events at the point, on whatever is there by now. Each
\* fails when the session is gone. The press is one of the option or of the ref's
\* element, unless it only puts the focus on the input.
Hover(c) ==
  /\ calls[c].pc = "hover"
  /\ IF attached THEN Goes(c, [calls[c] EXCEPT !.pc = "press"]) ELSE Fails(c)
  /\ UNCHANGED <<document, attached, stale>>

Press(c) ==
  LET k == calls[c]
  IN  /\ k.pc = "press"
      /\ IF attached
         THEN Goes(c, [k EXCEPT !.pc = "release",
                                !.landed = IF k.then = "type" THEN NoPress ELSE Top(k.point)])
         ELSE Fails(c)
      /\ UNCHANGED <<document, attached, stale>>

Release(c) ==
  LET k == calls[c]
  IN  /\ k.pc = "release"
      /\ IF ~attached THEN Fails(c)
         ELSE IF k.then = "done" THEN Ended(c, k.landed)
         ELSE Goes(c, [k EXCEPT !.pc = k.then])
      /\ UNCHANGED <<document, attached, stale>>

-----------------------------------------------------------------------------
(* label_select *)

\* One evaluation finds an element, scrolls to it and tells its coordinates, where the
\* call clicks without a test.
ClicksAt(c, then) ==
  /\ \E e \in DOMAIN page :
       /\ ScrollsTo(e)
       /\ calls' = Moved([calls EXCEPT ![c] = [@ EXCEPT !.pc = "hover", !.point = page'[e],
                                                        !.then = then, !.fresh = FALSE]])
  /\ UNCHANGED <<loaded, refs, tag, light>>

\* The input is clicked, then typed into.
Locate(c) == Evaluates(c, "locate") /\ ClicksAt(c, "type")

Types(c) ==
  /\ Evaluates(c, "type")
  /\ Goes(c, [calls[c] EXCEPT !.pc = "poll"])
  /\ UNCHANGED document

\* One evaluation finds the option, scrolls to it, tags it alone and tells its
\* coordinates.
Poll(c) ==
  /\ Evaluates(c, "poll")
  /\ \E e \in DOMAIN page :
       /\ ScrollsTo(e)
       /\ tag' = e
       /\ calls' = Moved([calls EXCEPT ![c] = [@ EXCEPT !.pc = "pick", !.point = page'[e]]])
  /\ UNCHANGED <<loaded, refs, light>>

\* The element that carries the tag, or the coordinates if no element does any more.
Pick(c) ==
  /\ Evaluates(c, "pick")
  /\ LET k == calls[c]
     IN  Goes(c, IF tag = NoElement THEN [k EXCEPT !.pc = "hover", !.then = "untag"]
                 ELSE [k EXCEPT !.pc = "scroll", !.target = tag, !.held = TRUE])
  /\ UNCHANGED document

\* The tag is taken off, if the evaluation succeeds; a value is typed if one is given.
Untag(c) ==
  LET k == calls[c]
  IN  /\ k.pc = "untag" /\ ~stale /\ attached' \in {attached, TRUE}
      /\ tag' \in {NoElement, tag}
      /\ Ended(c, k.landed) \/ Goes(c, [k EXCEPT !.pc = "commit"])
      /\ UNCHANGED <<page, loaded, refs, stale>>

\* The value's input is clicked, if it is found, and typed into.
Commit(c) ==
  /\ Evaluates(c, "commit")
  /\ \/ Ended(c, calls[c].landed) /\ UNCHANGED document
     \/ ClicksAt(c, "done")

-----------------------------------------------------------------------------
(* javascript_tool: evaluateWithRecovery *)

\* Handles die with the debugger's session.
Dropped(cs) == [c \in Calls |-> [cs[c] EXCEPT !.held = FALSE]]

JsAttaches(c) ==
  /\ calls[c].pc = "attach"
  /\ attached' = TRUE
  /\ Goes(c, [calls[c] EXCEPT !.pc = "evaluate"])
  /\ UNCHANGED <<document, stale>>

JsEvaluates(c) ==
  /\ calls[c].pc = "evaluate" /\ ~stale /\ attached
  /\ Ended(c, NoPress)
  /\ UNCHANGED <<document, attached, stale>>

\* Mutant of JsGivesUp: only the first evaluation is bounded.
JsGivesUpOnce(c) ==
  LET k == calls[c]
  IN  /\ k.pc = "evaluate" /\ k.tries = 0
      /\ attached' = FALSE /\ stale' = FALSE /\ UNCHANGED light
      /\ calls' = [Dropped(calls) EXCEPT ![c].pc = "attach", ![c].tries = 1]
      /\ UNCHANGED document

\* The time is up, or the session went: reset it and try once more.
JsGivesUp(c) ==
  LET k == calls[c]
  IN  /\ k.pc = "evaluate"
      /\ IF k.tries = 0
         THEN /\ attached' = FALSE /\ stale' = FALSE /\ UNCHANGED light
              /\ calls' = [Dropped(calls) EXCEPT ![c].pc = "attach", ![c].tries = 1]
         ELSE Fails(c) /\ UNCHANGED <<attached, stale>>
      /\ UNCHANGED document

-----------------------------------------------------------------------------
(* navigate *)

\* A new document: its content script starts afresh, no handle or point outlives the
\* old one, and the debugger's context may be stale.
NewDocument(cs) ==
  /\ page' \in Pages /\ loaded' = FALSE
  /\ refs' = <<>> /\ tag' = NoElement /\ light' = Unlit
  /\ stale' \in {stale, TRUE} /\ UNCHANGED attached
  /\ calls' = [c \in Calls |-> [cs[c] EXCEPT !.held = FALSE, !.fresh = FALSE]]

\* navigate returns at once if the tab shows the page already.
AlreadyThere(c) ==
  /\ calls[c].pc = "neutralize" /\ calls[c].tries = 0
  /\ Ended(c, NoPress)
  /\ UNCHANGED <<document, attached, stale>>

\* Whether it succeeds or not; but in a stale context it hangs.
Neutralize(c) ==
  /\ calls[c].pc = "neutralize" /\ ~stale
  /\ attached' \in {attached, TRUE} /\ UNCHANGED stale
  /\ Goes(c, [calls[c] EXCEPT !.pc = "go"])
  /\ UNCHANGED document

\* Page.navigate or tabs.reload
Navigate(c) ==
  /\ calls[c].pc = "go"
  /\ NewDocument([calls EXCEPT ![c].pc = "listen"])

\* waitForNavigation is called, and listens, only now.
Listen(c) ==
  /\ calls[c].pc = "listen"
  /\ Goes(c, [calls[c] EXCEPT !.pc = "loading"])
  /\ UNCHANGED <<document, attached, stale>>

Loads ==
  /\ ~loaded /\ loaded' = TRUE
  /\ calls' = [c \in Calls |-> IF calls[c].pc = "loading" THEN [calls[c] EXCEPT !.pc = "csrf"]
                               ELSE calls[c]]
  /\ UNCHANGED <<page, refs, tag, attached, stale, light>>

LoadTimesOut(c) ==
  /\ calls[c].pc = "loading"
  /\ Goes(c, [calls[c] EXCEPT !.pc = "csrf"])
  /\ UNCHANGED <<document, attached, stale>>

\* A page that shows the CSRF error is reloaded, a few times at most.
RecoverFromCsrf(c) ==
  LET k == calls[c]
  IN  /\ k.pc = "csrf"
      /\ \/ k.tries < Reloads /\ Goes(c, [k EXCEPT !.pc = "neutralize", !.tries = @ + 1])
         \/ Goes(c, [k EXCEPT !.pc = "settle"])
      /\ UNCHANGED <<document, attached, stale>>

Settle(c) ==
  /\ calls[c].pc = "settle"
  /\ Ended(c, NoPress)
  /\ UNCHANGED <<document, attached, stale>>

-----------------------------------------------------------------------------
(* The page, the user and the debugger *)

\* The application renders: elements come, go and move; a tag goes with its element.
PageMoves ==
  /\ page' \in Pages
  /\ tag' \in {NoElement, tag} /\ tag' \in DOMAIN page' \cup {NoElement}
  /\ calls' = Moved(calls)
  /\ UNCHANGED <<loaded, refs, attached, stale, light>>

UserNavigates == NewDocument(calls)

\* stop_agent hides the indicators of all tabs, after it has asked for the session's end.
StopHides ==
  /\ light' = Hide(light)
  /\ UNCHANGED <<document, attached, stale, calls>>

\* The detach tool, stop_agent or the user ends the session.
Detached ==
  /\ attached /\ attached' = FALSE /\ stale' = FALSE
  /\ calls' = Dropped(calls)
  /\ UNCHANGED <<document, light>>

TimePasses ==
  /\ light' = Pass(light)
  /\ UNCHANGED <<document, attached, stale, calls>>

-----------------------------------------------------------------------------
Init ==
  /\ page \in Pages /\ loaded = TRUE
  /\ refs = <<>> /\ tag = NoElement
  /\ attached = FALSE /\ stale = FALSE
  /\ light = Unlit
  /\ calls = [c \in Calls |-> Blank("read", "idle", 0)]

\* What a call does next.
Step(c) ==
  \/ Read(c) \/ ReadAgain(c) \/ EvaluationFails(c)
  \/ Resolve(c) \/ Scroll(c) \/ Measure(c) \/ HitTest(c)
  \/ Hover(c) \/ Press(c) \/ Release(c)
  \/ Locate(c) \/ Types(c) \/ Poll(c) \/ Pick(c) \/ Untag(c) \/ Commit(c)
  \/ JsAttaches(c) \/ JsEvaluates(c) \/ JsGivesUp(c)
  \/ AlreadyThere(c) \/ Neutralize(c) \/ Navigate(c) \/ Listen(c) \/ LoadTimesOut(c)
  \/ RecoverFromCsrf(c) \/ Settle(c)

World ==
  \/ \E c \in Calls, tool \in Tools, ref \in 0..N : Starts(c, tool, ref)
  \/ PageMoves \/ UserNavigates \/ Detached \/ StopHides \/ SnapshotReads

Next == World \/ Loads \/ TimePasses \/ \E c \in Calls : Step(c)

Spec == Init /\ [][Next]_vars

\* Timers run out, and what can go on does.
Fairness == WF_vars(TimePasses) /\ \A c \in Calls : WF_vars(Step(c))

-----------------------------------------------------------------------------
(* Properties *)

\* A press the hit test allowed hits the element of the call's handle, whatever other
\* calls read, tagged, scrolled or reset and whatever the user did meanwhile, unless the
\* page moved after the verdict, by itself or under the scroll of another call
\* (clickElementByObjectId).
PressIsVerified ==
  \A c \in Calls : calls[c].landed # NoPress /\ calls[c].fresh => Hits(calls[c].landed, calls[c].target)

\* evaluateWithRecovery: an evaluation ends even if every context it is given hangs; and
\* a wait for a navigation ends even if its event came before it listened.
BoundedWaitsEnd ==
  \A c \in Calls :
    /\ calls[c].tool = "javascript" /\ Running(c) ~> ~Running(c)
    /\ calls[c].pc \in {"listen", "loading"} ~> calls[c].pc \notin {"listen", "loading"}

\* indicator-envelope.ts: whatever overlapping calls show and hide, the light of a page
\* goes down only when it has been up for the hold since the last call began.
HoldIsKept ==
  [][light.light = "lit" /\ light'.light # "lit" => light'.age = Hold \/ light' = Unlit]_vars

\* runTool's "finally" and the envelope: once no call runs, the light goes out.
IndicatorGoesOut ==
  (\A c \in Calls : ~Running(c)) ~> light.light = "dark" \/ \E c \in Calls : Running(c)
=============================================================================
