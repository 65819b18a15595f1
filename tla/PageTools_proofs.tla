------------------------- MODULE PageTools_proofs --------------------------
(***************************************************************************)
(* Proofs about PageTools: a press hits what its call verified, and the     *)
(* indicator stays up for its hold.                                         *)
(*                                                                         *)
(* What a press hits is fixed by its last verdict, three commands earlier   *)
(* at most. The invariant follows one call through its steps, and says what *)
(* the other calls, the page and the user cannot change meanwhile without   *)
(* the call being known not to be fresh.                                    *)
(***************************************************************************)
EXTENDS PageTools, TLAPS

-----------------------------------------------------------------------------
(* The invariant *)

\* The top element at a point of page pg.
TopOf(pg, p) ==
  LET there == {e \in DOMAIN pg : pg[e] = p}
  IN  IF there = {} \/ p = NoPoint THEN NoElement ELSE Max(there)

\* k is a call; what it holds of elements is whatever the references gave it.
IsCall(k) ==
  k \in [tool : Tools, pc : {k.pc}, ref : {k.ref}, target : {k.target},
         point : {k.point}, then : {"type", "untag", "done"}, tries : {k.tries},
         held : BOOLEAN, fresh : BOOLEAN, landed : {k.landed}]

\* The steps from the verdict, or from coordinates that are not tested, on.
Mouse == {"hover", "press", "release"}
Pointed == Mouse \cup {"untag", "commit", "done"}

\* Nothing is verified nor pressed yet, or a press only puts the focus on the input.
Unpressed(k) == ~k.fresh /\ k.landed = NoPress

\* The point about to be pressed shows the element, if the page has not moved.
PointIsVerified(k, pg) ==
  k.pc \in {"hover", "press"} /\ k.fresh => Hits(TopOf(pg, k.point), k.target)

PressWasVerified(k) == k.landed # NoPress /\ k.fresh => Hits(k.landed, k.target)

CallInv(k, pg) ==
  /\ IsCall(k)
  /\ k.pc \notin Pointed => Unpressed(k)
  /\ k.pc \in Mouse /\ k.then = "type" => Unpressed(k)
  /\ PointIsVerified(k, pg) /\ PressWasVerified(k)

PressInv ==
  /\ calls = [c \in Calls |-> calls[c]]
  /\ \A c \in Calls : CallInv(calls[c], page)

\* The envelope: a discharge that is queued is due when the hold is over, and none
\* is being torn down while it is lit.
LightInv ==
  /\ light \in Envelopes
  /\ light.hold > 0 => light.age + light.hold >= Hold
  /\ light.light = "lit" => light.cleanup = 0

-----------------------------------------------------------------------------
(* One call *)

LEMMA TopIsTopOf == \A p : Top(p) = TopOf(page, p)
BY DEF Top, TopOf

\* A call whose handle died, whose page moved, or both.
LEMMA CoolerCall ==
  ASSUME NEW k, NEW pg, NEW pg2, CallInv(k, pg), NEW m,
         \/ m = [k EXCEPT !.fresh = FALSE]
         \/ m = [k EXCEPT !.held = FALSE, !.fresh = FALSE]
         \/ m = [k EXCEPT !.held = FALSE] /\ pg2 = pg
  PROVE  CallInv(m, pg2)
<1>0. IsCall(k)
  BY DEF CallInv
<1>1. /\ IsCall(m) /\ m.pc = k.pc /\ m.target = k.target /\ m.point = k.point
      /\ m.then = k.then /\ m.landed = k.landed
      /\ m.fresh = FALSE \/ (m.fresh = k.fresh /\ pg2 = pg)
  <2>1. CASE m = [k EXCEPT !.fresh = FALSE]
    BY <1>0, <2>1 DEF IsCall
  <2>2. CASE m = [k EXCEPT !.held = FALSE, !.fresh = FALSE]
    BY <1>0, <2>2 DEF IsCall
  <2>3. CASE m = [k EXCEPT !.held = FALSE] /\ pg2 = pg
    BY <1>0, <2>3 DEF IsCall
  <2> QED
    BY <2>1, <2>2, <2>3
<1> QED
  BY <1>1 DEF CallInv, Unpressed, PointIsVerified, PressWasVerified

\* A call that has verified and pressed nothing is right wherever it is.
LEMMA UnpressedCall ==
  ASSUME NEW k, IsCall(k), Unpressed(k), NEW pg
  PROVE  CallInv(k, pg)
BY DEF CallInv, Unpressed, PointIsVerified, PressWasVerified

LEMMA BlankCall ==
  ASSUME NEW tool \in Tools, NEW pc, NEW ref, NEW pg
  PROVE  CallInv(Blank(tool, pc, ref), pg)
<1>1. PICK k : k = Blank(tool, pc, ref)
  OBVIOUS
<1>2. IsCall(k) /\ Unpressed(k)
  BY <1>1 DEF Blank, IsCall, Unpressed
<1>3. CallInv(k, pg)
  BY <1>2, UnpressedCall
<1> QED
  BY <1>1, <1>3

\* A call that ends keeps what it pressed, and whether that was verified.
OverCall(k, landed) ==
  IF landed = NoPress THEN Blank("read", "done", 0)
  ELSE [Blank(k.tool, "done", 0) EXCEPT !.target = k.target,
                                        !.fresh = k.fresh, !.landed = landed]

LEMMA EndedCall ==
  ASSUME NEW k, IsCall(k), NEW landed,
         landed # NoPress /\ k.fresh => Hits(landed, k.target), NEW pg
  PROVE  CallInv(OverCall(k, landed), pg)
<1>1. CASE landed = NoPress
  BY <1>1, BlankCall DEF OverCall, Tools
<1>2. CASE landed # NoPress
  <2>1. PICK m : m = OverCall(k, landed)
    OBVIOUS
  <2>2. /\ IsCall(m) /\ m.pc = "done" /\ m.target = k.target /\ m.fresh = k.fresh
        /\ m.landed = landed
    BY <1>2, <2>1 DEF OverCall, Blank, IsCall
  <2>3. CallInv(m, pg)
    BY <2>2 DEF CallInv, PointIsVerified, PressWasVerified, Pointed, Mouse
  <2> QED
    BY <2>1, <2>3
<1> QED
  BY <1>1, <1>2

-----------------------------------------------------------------------------
(* All calls *)

\* One call takes a step, and may move the page.
LEMMA MoveStep ==
  ASSUME PressInv, NEW c \in Calls, NEW m, calls' = Moved([calls EXCEPT ![c] = m]),
         CallInv(m, page')
  PROVE  PressInv'
<1>1. [calls EXCEPT ![c] = m] = [d \in Calls |-> IF d = c THEN m ELSE calls[d]]
  BY DEF PressInv
<1>2. calls' = [d \in Calls |-> calls'[d]]
  BY <1>1 DEF Moved
<1>3. ASSUME NEW d \in Calls
      PROVE  CallInv(calls'[d], page')
  <2>1. CallInv(calls[d], page)
    BY DEF PressInv
  <2>2. CASE page' = page
    <3>1. calls'[d] = IF d = c THEN m ELSE calls[d]
      BY <1>1, <2>2 DEF Moved
    <3> QED
      BY <2>1, <2>2, <3>1
  <2>3. CASE page' # page
    <3>1. calls'[d] = IF d = c THEN [m EXCEPT !.fresh = FALSE] ELSE [calls[d] EXCEPT !.fresh = FALSE]
      BY <1>1, <2>3 DEF Moved
    <3>2. CASE d = c
      <4>1. calls'[d] = [m EXCEPT !.fresh = FALSE]
        BY <3>1, <3>2
      <4> QED
        BY <4>1, CoolerCall
    <3>3. CASE d # c
      <4>1. calls'[d] = [calls[d] EXCEPT !.fresh = FALSE]
        BY <3>1, <3>3
      <4> QED
        BY <2>1, <4>1, CoolerCall
    <3> QED
      BY <3>2, <3>3
  <2> QED
    BY <2>2, <2>3
<1> QED
  BY <1>2, <1>3 DEF PressInv

\* One call takes a step that leaves the page alone.
LEMMA OwnStep ==
  ASSUME PressInv, NEW c \in Calls, NEW m, calls' = [calls EXCEPT ![c] = m],
         CallInv(m, page), page' = page
  PROVE  PressInv'
<1>1. calls' = Moved([calls EXCEPT ![c] = m]) /\ CallInv(m, page')
  BY DEF Moved
<1> QED
  BY <1>1, MoveStep

LEMMA OwnEnd ==
  ASSUME PressInv, NEW c \in Calls, NEW landed, Ended(c, landed),
         landed # NoPress /\ calls[c].fresh => Hits(landed, calls[c].target), page' = page
  PROVE  PressInv'
<1>1. calls' = [calls EXCEPT ![c] = OverCall(calls[c], landed)]
  BY DEF Ended, OverCall
<1>2. IsCall(calls[c])
  BY DEF PressInv, CallInv
<1>3. CallInv(OverCall(calls[c], landed), page)
  BY <1>2, EndedCall
<1> QED
  BY <1>1, <1>3, OwnStep

LEMMA OwnFails ==
  ASSUME PressInv, NEW c \in Calls, Fails(c), page' = page
  PROVE  PressInv'
<1>1. Ended(c, NoPress)
  BY DEF Fails
<1> QED
  BY <1>1, OwnEnd

\* A step of the page or the debugger.
LEMMA WorldStep ==
  ASSUME PressInv,
         \/ calls' = Moved(calls)
         \/ calls' = [c \in Calls |-> [calls[c] EXCEPT !.held = FALSE, !.fresh = FALSE]]
         \/ calls' = [c \in Calls |-> [calls[c] EXCEPT !.held = FALSE]] /\ page' = page
  PROVE  PressInv'
<1>1. \A c \in Calls : CallInv(calls[c], page)
  BY DEF PressInv
<1>2. calls' = [c \in Calls |-> calls'[c]]
  BY DEF PressInv, Moved
<1>3. ASSUME NEW c \in Calls
      PROVE  CallInv(calls'[c], page')
  <2>1. \/ calls'[c] = calls[c] /\ page' = page
        \/ calls'[c] = [calls[c] EXCEPT !.fresh = FALSE]
        \/ calls'[c] = [calls[c] EXCEPT !.held = FALSE, !.fresh = FALSE]
        \/ calls'[c] = [calls[c] EXCEPT !.held = FALSE] /\ page' = page
    BY DEF Moved
  <2> QED
    BY <1>1, <2>1, CoolerCall
<1> QED
  BY <1>2, <1>3 DEF PressInv

-----------------------------------------------------------------------------
(* The steps *)

\* A call goes on before anything is verified or pressed, and may move the page.
LEMMA QuietStep ==
  ASSUME PressInv, NEW c \in Calls, calls[c].pc \notin Pointed,
         NEW m, IsCall(m), m.fresh = calls[c].fresh \/ m.fresh = FALSE,
         m.landed = calls[c].landed,
         calls' = Moved([calls EXCEPT ![c] = m])
  PROVE  PressInv'
<1>1. Unpressed(m)
  BY DEF PressInv, CallInv, Unpressed
<1>2. CallInv(m, page')
  BY <1>1, UnpressedCall
<1> QED
  BY <1>2, MoveStep

LEMMA StartsInv ==
  ASSUME PressInv, NEW c \in Calls, NEW tool \in Tools, NEW ref, Starts(c, tool, ref)
  PROVE  PressInv'
<1>1. calls' = [calls EXCEPT ![c] = Blank(tool, FirstStep[tool], ref)] /\ page' = page
  BY DEF Starts, document
<1>2. CallInv(Blank(tool, FirstStep[tool], ref), page)
  BY BlankCall
<1> QED
  BY <1>1, <1>2, OwnStep

\* The steps that end or fail before anything is pressed.
LEMMA EndingInv ==
  ASSUME PressInv, NEW c \in Calls,
         \/ Read(c) \/ ReadAgain(c) \/ EvaluationFails(c) \/ JsEvaluates(c)
         \/ AlreadyThere(c) \/ Settle(c)
  PROVE  PressInv'
<1>1. ASSUME Read(c) \/ EvaluationFails(c) \/ JsEvaluates(c) \/ AlreadyThere(c) \/ Settle(c)
      PROVE  PressInv'
  <2>1. Ended(c, NoPress) /\ page' = page
    BY <1>1 DEF Read, EvaluationFails, JsEvaluates, AlreadyThere, Settle, Fails, document
  <2> QED
    BY <2>1, OwnEnd
<1>2. CASE ReadAgain(c)
  BY <1>2 DEF ReadAgain, PressInv
<1> QED
  BY <1>1, <1>2

\* The steps that only go on, to another step.
LEMMA GoingInv ==
  ASSUME PressInv, NEW c \in Calls,
         \/ Types(c) \/ JsAttaches(c) \/ Neutralize(c) \/ Listen(c) \/ LoadTimesOut(c)
         \/ RecoverFromCsrf(c)
  PROVE  PressInv'
<1> DEFINE k == calls[c]
<1>1. /\ page' = page
      /\ k.pc \in {"type", "attach", "neutralize", "listen", "loading", "csrf"}
      /\ \E pc, n : calls' = [calls EXCEPT ![c] = [k EXCEPT !.pc = pc, !.tries = n]]
  <2>1. IsCall(k)
    BY DEF PressInv, CallInv
  <2>2. \A pc : [k EXCEPT !.pc = pc] = [k EXCEPT !.pc = pc, !.tries = k.tries]
    BY <2>1 DEF IsCall
  <2>3. \/ \E pc : calls' = [calls EXCEPT ![c] = [k EXCEPT !.pc = pc]]
        \/ \E pc, n : calls' = [calls EXCEPT ![c] = [k EXCEPT !.pc = pc, !.tries = n]]
    BY DEF Types, JsAttaches, Neutralize, Listen, LoadTimesOut, RecoverFromCsrf, Goes
  <2>4. /\ page' = page
        /\ k.pc \in {"type", "attach", "neutralize", "listen", "loading", "csrf"}
    BY DEF Types, JsAttaches, Neutralize, Listen, LoadTimesOut, RecoverFromCsrf, Evaluates, document
  <2>5. CASE \E pc : calls' = [calls EXCEPT ![c] = [k EXCEPT !.pc = pc]]
    <3>1. PICK pc : calls' = [calls EXCEPT ![c] = [k EXCEPT !.pc = pc]]
      BY <2>5
    <3>2. calls' = [calls EXCEPT ![c] = [k EXCEPT !.pc = pc, !.tries = k.tries]]
      BY <2>2, <3>1
    <3> QED
      BY <2>4, <3>2
  <2> QED
    BY <2>3, <2>4, <2>5
<1>2. PICK pc, n : calls' = [calls EXCEPT ![c] = [k EXCEPT !.pc = pc, !.tries = n]]
  BY <1>1
<1>3. PICK m : m = [k EXCEPT !.pc = pc, !.tries = n]
  OBVIOUS
<1>4. IsCall(k)
  BY DEF PressInv, CallInv
<1>5. IsCall(m) /\ m.fresh = k.fresh /\ m.landed = k.landed
  BY <1>3, <1>4 DEF IsCall
<1>6. calls' = Moved([calls EXCEPT ![c] = m])
  BY <1>1, <1>2, <1>3 DEF Moved
<1>7. k.pc \notin Pointed
  BY <1>1 DEF Pointed, Mouse
<1> QED
  BY <1>5, <1>6, <1>7, QuietStep

LEMMA ResolveInv ==
  ASSUME PressInv, NEW c \in Calls, Resolve(c)
  PROVE  PressInv'
<1> DEFINE k == calls[c]
<1>1. IsCall(k) /\ k.pc = "resolve" /\ page' = page
  BY DEF PressInv, CallInv, Resolve, Evaluates, document
<1>2. CASE k.ref \in DOMAIN refs
  <2>1. PICK m : m = [k EXCEPT !.pc = "scroll", !.held = TRUE, !.ref = 0, !.target = refs[k.ref]]
    OBVIOUS
  <2>2. calls' = Moved([calls EXCEPT ![c] = m])
    BY <1>1, <1>2, <2>1 DEF Resolve, Goes, Moved
  <2>3. IsCall(m) /\ m.fresh = k.fresh /\ m.landed = k.landed
    BY <1>1, <2>1 DEF IsCall
  <2> QED
    BY <1>1, <2>2, <2>3, QuietStep DEF Pointed, Mouse
<1>3. CASE k.ref \notin DOMAIN refs
  <2>1. Fails(c)
    BY <1>3 DEF Resolve
  <2> QED
    BY <1>1, <2>1, OwnFails
<1> QED
  BY <1>2, <1>3

LEMMA ScrollInv ==
  ASSUME PressInv, NEW c \in Calls, Scroll(c)
  PROVE  PressInv'
<1> DEFINE k == calls[c]
<1>1. PICK pc : calls' = Moved([calls EXCEPT ![c] = [k EXCEPT !.pc = pc]])
  BY DEF Scroll
<1>2. IsCall(k) /\ k.pc \in {"rescroll", "scroll"}
  BY DEF PressInv, CallInv, Scroll
<1>3. PICK m : m = [k EXCEPT !.pc = pc]
  OBVIOUS
<1>4. IsCall(m) /\ m.fresh = k.fresh /\ m.landed = k.landed
  BY <1>2, <1>3 DEF IsCall
<1> QED
  BY <1>1, <1>2, <1>3, <1>4, QuietStep DEF Pointed, Mouse

LEMMA MeasureInv ==
  ASSUME PressInv, NEW c \in Calls, Measure(c)
  PROVE  PressInv'
<1> DEFINE k == calls[c]
<1>1. IsCall(k) /\ k.pc = "measure" /\ page' = page
  BY DEF PressInv, CallInv, Measure, document
<1>2. CASE k.held /\ k.target \in DOMAIN page
  <2>1. PICK m : m = [k EXCEPT !.pc = "test", !.point = page[k.target]]
    OBVIOUS
  <2>2. calls' = Moved([calls EXCEPT ![c] = m])
    BY <1>1, <1>2, <2>1 DEF Measure, Goes, Moved
  <2>3. IsCall(m) /\ m.fresh = k.fresh /\ m.landed = k.landed
    BY <1>1, <2>1 DEF IsCall
  <2> QED
    BY <1>1, <2>2, <2>3, QuietStep DEF Pointed, Mouse
<1>3. CASE ~(k.held /\ k.target \in DOMAIN page)
  <2>1. Fails(c)
    BY <1>3 DEF Measure
  <2> QED
    BY <1>1, <2>1, OwnFails
<1> QED
  BY <1>2, <1>3

\* The verdict: the point shows the element of the handle, or one that contains it or
\* that it contains.
LEMMA HitTestInv ==
  ASSUME PressInv, NEW c \in Calls, HitTest(c)
  PROVE  PressInv'
<1> DEFINE k == calls[c]
<1>1. CallInv(k, page) /\ k.pc = "test" /\ page' = page
  BY DEF PressInv, HitTest, document
<1>2. IsCall(k) /\ k.landed = NoPress
  BY <1>1 DEF CallInv, Unpressed, Pointed, Mouse
<1>3. CASE k.held /\ Hits(Top(k.point), k.target)
  <2>1. PICK m : /\ m = Verified(k)
                 /\ \E then \in {"untag", "done"} :
                      m = [k EXCEPT !.pc = "hover", !.fresh = TRUE, !.then = then]
    BY DEF Verified
  <2>2. calls' = [calls EXCEPT ![c] = m]
    BY <1>3, <2>1 DEF HitTest, Goes
  <2>3. /\ IsCall(m) /\ m.pc = "hover" /\ m.point = k.point /\ m.target = k.target
        /\ m.landed = NoPress /\ m.then # "type"
    BY <2>1, <1>2 DEF IsCall
  <2>4. Hits(TopOf(page, m.point), m.target)
    BY <1>3, <2>3, TopIsTopOf
  <2>5. CallInv(m, page)
    BY <2>3, <2>4 DEF CallInv, PointIsVerified, PressWasVerified, Pointed, Mouse
  <2> QED
    BY <1>1, <2>2, <2>5, OwnStep
<1>4. CASE ~(k.held /\ Hits(Top(k.point), k.target)) /\ k.held /\ k.tries = 0
  <2>1. PICK m : m = [k EXCEPT !.pc = "rescroll", !.tries = 1]
    OBVIOUS
  <2>2. calls' = Moved([calls EXCEPT ![c] = m])
    BY <1>1, <1>4, <2>1 DEF HitTest, Goes, Moved
  <2>3. IsCall(m) /\ m.fresh = k.fresh /\ m.landed = k.landed
    BY <2>1, <1>2 DEF IsCall
  <2> QED
    BY <1>1, <2>2, <2>3, QuietStep DEF Pointed, Mouse
<1>5. CASE ~(k.held /\ Hits(Top(k.point), k.target)) /\ ~(k.held /\ k.tries = 0)
  <2>1. Fails(c)
    BY <1>5 DEF HitTest
  <2> QED
    BY <1>1, <2>1, OwnFails
<1> QED
  BY <1>3, <1>4, <1>5

\* What a fresh call presses is what its verdict was about.
LEMMA MouseInv ==
  ASSUME PressInv, NEW c \in Calls, Hover(c) \/ Press(c) \/ Release(c)
  PROVE  PressInv'
<1> DEFINE k == calls[c]
<1>1. CallInv(k, page) /\ IsCall(k) /\ page' = page
  BY DEF PressInv, CallInv, Hover, Press, Release, document
<1>2. CASE ~attached
  <2>1. Fails(c)
    BY <1>2 DEF Hover, Press, Release
  <2> QED
    BY <1>1, <2>1, OwnFails
<1>3. CASE attached /\ Hover(c)
  <2>1. PICK m : m = [k EXCEPT !.pc = "press"]
    OBVIOUS
  <2>2. calls' = [calls EXCEPT ![c] = m] /\ k.pc = "hover"
    BY <1>3, <2>1 DEF Hover, Goes
  <2>3. /\ IsCall(m) /\ m.pc = "press" /\ m.point = k.point /\ m.target = k.target
        /\ m.fresh = k.fresh /\ m.landed = k.landed /\ m.then = k.then
    BY <1>1, <2>1 DEF IsCall
  <2>4. CallInv(m, page)
    BY <1>1, <2>2, <2>3
       DEF CallInv, Unpressed, PointIsVerified, PressWasVerified, Pointed, Mouse
  <2> QED
    BY <1>1, <2>2, <2>4, OwnStep
<1>4. CASE attached /\ Press(c)
  <2>1. PICK m : m = [k EXCEPT !.pc = "release",
                               !.landed = IF k.then = "type" THEN NoPress ELSE Top(k.point)]
    OBVIOUS
  <2>2. calls' = [calls EXCEPT ![c] = m] /\ k.pc = "press"
    BY <1>4, <2>1 DEF Press, Goes
  <2>3. /\ IsCall(m) /\ m.pc = "release" /\ m.target = k.target /\ m.fresh = k.fresh
        /\ m.then = k.then /\ m.landed = IF k.then = "type" THEN NoPress ELSE Top(k.point)
    BY <1>1, <2>1 DEF IsCall
  <2>4. k.fresh => Hits(Top(k.point), k.target)
    BY <1>1, <2>2, TopIsTopOf DEF CallInv, PointIsVerified
  <2>5. CallInv(m, page)
    BY <1>1, <2>2, <2>3, <2>4
       DEF CallInv, Unpressed, PointIsVerified, PressWasVerified, Pointed, Mouse
  <2> QED
    BY <1>1, <2>2, <2>5, OwnStep
<1>5. CASE attached /\ Release(c) /\ k.then = "done"
  <2>1. Ended(c, k.landed)
    BY <1>5 DEF Release
  <2>2. k.landed # NoPress /\ k.fresh => Hits(k.landed, k.target)
    BY <1>1 DEF CallInv, PressWasVerified
  <2> QED
    BY <1>1, <2>1, <2>2, OwnEnd
<1>6. CASE attached /\ Release(c) /\ k.then # "done"
  <2>1. PICK m : m = [k EXCEPT !.pc = k.then]
    OBVIOUS
  <2>2. calls' = [calls EXCEPT ![c] = m] /\ k.pc = "release"
    BY <1>6, <2>1 DEF Release, Goes
  <2>3. /\ IsCall(m) /\ m.pc = k.then /\ m.target = k.target /\ m.fresh = k.fresh
        /\ m.then = k.then /\ m.landed = k.landed /\ k.then \in {"type", "untag"}
    BY <1>1, <1>6, <2>1 DEF IsCall
  <2>4. CallInv(m, page)
    BY <1>1, <2>2, <2>3
       DEF CallInv, Unpressed, PointIsVerified, PressWasVerified, Pointed, Mouse
  <2> QED
    BY <1>1, <2>2, <2>4, OwnStep
<1> QED
  BY <1>2, <1>3, <1>4, <1>5, <1>6

\* A click at untested coordinates verifies nothing.
LEMMA ClicksAtInv ==
  ASSUME PressInv, NEW c \in Calls, NEW then \in {"type", "done"}, ClicksAt(c, then),
         then = "type" => calls[c].landed = NoPress
  PROVE  PressInv'
<1> DEFINE k == calls[c]
<1>1. PICK m, e : /\ m = [k EXCEPT !.pc = "hover", !.point = page'[e], !.then = then, !.fresh = FALSE]
                  /\ calls' = Moved([calls EXCEPT ![c] = m])
  BY DEF ClicksAt
<1>2. IsCall(k)
  BY DEF PressInv, CallInv
<1>3. IsCall(m) /\ m.pc = "hover" /\ m.then = then /\ ~m.fresh /\ m.landed = k.landed
  BY <1>1, <1>2 DEF IsCall
<1>4. CallInv(m, page')
  BY <1>3 DEF CallInv, Unpressed, PointIsVerified, PressWasVerified, Pointed, Mouse
<1> QED
  BY <1>1, <1>4, MoveStep

LEMMA SelectInv ==
  ASSUME PressInv, NEW c \in Calls, Locate(c) \/ Poll(c) \/ Pick(c) \/ Untag(c) \/ Commit(c)
  PROVE  PressInv'
<1> DEFINE k == calls[c]
<1>1. CallInv(k, page) /\ IsCall(k)
  BY DEF PressInv, CallInv
<1>2. CASE Locate(c)
  <2>1. ClicksAt(c, "type") /\ k.landed = NoPress
    BY <1>1, <1>2 DEF Locate, Evaluates, CallInv, Unpressed, Pointed, Mouse
  <2> QED
    BY <2>1, ClicksAtInv
<1>3. CASE Poll(c)
  <2>1. PICK e, m : /\ m = [k EXCEPT !.pc = "pick", !.point = page'[e]]
                    /\ calls' = Moved([calls EXCEPT ![c] = m])
    BY <1>3 DEF Poll
  <2>2. IsCall(m) /\ m.fresh = k.fresh /\ m.landed = k.landed /\ k.pc = "poll"
    BY <1>1, <1>3, <2>1 DEF IsCall, Poll, Evaluates
  <2> QED
    BY <2>1, <2>2, QuietStep DEF Pointed, Mouse
<1>4. CASE Pick(c)
  <2>1. k.pc = "pick" /\ page' = page /\ Unpressed(k)
    BY <1>1, <1>4 DEF Pick, Evaluates, document, CallInv, Pointed, Mouse
  <2>2. PICK m : /\ calls' = [calls EXCEPT ![c] = m]
                 /\ \/ m = [k EXCEPT !.pc = "hover", !.then = "untag"]
                    \/ m = [k EXCEPT !.pc = "scroll", !.target = tag, !.held = TRUE]
    BY <1>4 DEF Pick, Goes
  <2>3. IsCall(m) /\ m.fresh = k.fresh /\ m.landed = k.landed
    <3>1. CASE m = [k EXCEPT !.pc = "hover", !.then = "untag"]
      BY <1>1, <3>1 DEF IsCall
    <3>2. CASE m = [k EXCEPT !.pc = "scroll", !.target = tag, !.held = TRUE]
      BY <1>1, <3>2 DEF IsCall
    <3> QED
      BY <2>2, <3>1, <3>2
  <2>4. CallInv(m, page)
    BY <2>1, <2>3, UnpressedCall DEF Unpressed
  <2> QED
    BY <2>1, <2>2, <2>4, OwnStep
<1>5. CASE Untag(c)
  <2>1. page' = page /\ k.pc = "untag" /\ (k.landed # NoPress /\ k.fresh => Hits(k.landed, k.target))
    BY <1>1, <1>5 DEF Untag, CallInv, PressWasVerified
  <2>2. CASE Ended(c, k.landed)
    BY <2>1, <2>2, OwnEnd
  <2>3. CASE Goes(c, [k EXCEPT !.pc = "commit"])
    <3>1. PICK m : m = [k EXCEPT !.pc = "commit"] /\ calls' = [calls EXCEPT ![c] = m]
      BY <2>3 DEF Goes
    <3>2. /\ IsCall(m) /\ m.pc = "commit" /\ m.target = k.target /\ m.fresh = k.fresh
          /\ m.landed = k.landed
      BY <1>1, <3>1 DEF IsCall
    <3>3. CallInv(m, page)
      BY <2>1, <3>2 DEF CallInv, PointIsVerified, PressWasVerified, Pointed, Mouse
    <3> QED
      BY <2>1, <3>1, <3>3, OwnStep
  <2> QED
    BY <1>5, <2>2, <2>3 DEF Untag
<1>6. CASE Commit(c)
  <2>1. CASE Ended(c, k.landed) /\ UNCHANGED document
    <3>1. page' = page /\ (k.landed # NoPress /\ k.fresh => Hits(k.landed, k.target))
      BY <1>1, <2>1 DEF document, CallInv, PressWasVerified
    <3> QED
      BY <2>1, <3>1, OwnEnd
  <2>2. CASE ClicksAt(c, "done")
    BY <2>2, ClicksAtInv
  <2> QED
    BY <1>6, <2>1, <2>2 DEF Commit
<1> QED
  BY <1>2, <1>3, <1>4, <1>5, <1>6

\* The reset drops every handle of the tab; the call that made it tries again.
LEMMA JsGivesUpInv ==
  ASSUME PressInv, NEW c \in Calls, JsGivesUp(c)
  PROVE  PressInv'
<1> DEFINE k == calls[c]
<1>1. CallInv(k, page) /\ IsCall(k) /\ k.pc = "evaluate" /\ page' = page
  BY DEF PressInv, CallInv, JsGivesUp, document
<1>2. CASE k.tries = 0
  <2>1. calls' = [Dropped(calls) EXCEPT ![c].pc = "attach", ![c].tries = 1]
    BY <1>2 DEF JsGivesUp
  <2>2. PICK m : m = [[k EXCEPT !.held = FALSE] EXCEPT !.pc = "attach", !.tries = 1]
    OBVIOUS
  <2>3. calls' = [d \in Calls |-> IF d = c THEN m ELSE [calls[d] EXCEPT !.held = FALSE]]
    BY <2>1, <2>2 DEF Dropped
  <2>4. IsCall(m) /\ Unpressed(m)
    BY <1>1, <2>2 DEF IsCall, CallInv, Unpressed, Pointed, Mouse
  <2>5. CallInv(m, page)
    BY <2>4, UnpressedCall
  <2>6. ASSUME NEW d \in Calls
        PROVE  CallInv(calls'[d], page')
    <3>1. CASE d = c
      BY <1>1, <2>3, <2>5, <3>1
    <3>2. CASE d # c
      <4>1. calls'[d] = [calls[d] EXCEPT !.held = FALSE] /\ CallInv(calls[d], page)
        BY <2>3, <3>2 DEF PressInv
      <4> QED
        BY <1>1, <4>1, CoolerCall
    <3> QED
      BY <3>1, <3>2
  <2>7. calls' = [d \in Calls |-> calls'[d]]
    BY <2>3
  <2> QED
    BY <2>6, <2>7 DEF PressInv
<1>3. CASE k.tries # 0
  <2>1. Fails(c)
    BY <1>3 DEF JsGivesUp
  <2> QED
    BY <1>1, <2>1, OwnFails
<1> QED
  BY <1>2, <1>3

\* A new document forgets every handle and every verdict.
LEMMA NavigateInv ==
  ASSUME PressInv, NEW c \in Calls, Navigate(c)
  PROVE  PressInv'
<1> DEFINE k == calls[c]
<1>1. /\ CallInv(k, page) /\ IsCall(k) /\ k.pc = "go"
      /\ calls' = [d \in Calls |-> [[calls EXCEPT ![c].pc = "listen"][d]
                                      EXCEPT !.held = FALSE, !.fresh = FALSE]]
  BY DEF PressInv, CallInv, Navigate, NewDocument
<1>2. PICK m : m = [k EXCEPT !.pc = "listen"]
  OBVIOUS
<1>3. calls' = [d \in Calls |-> IF d = c THEN [m EXCEPT !.held = FALSE, !.fresh = FALSE]
                                ELSE [calls[d] EXCEPT !.held = FALSE, !.fresh = FALSE]]
  BY <1>1, <1>2 DEF PressInv
<1>4. IsCall(m) /\ Unpressed(m)
  BY <1>1, <1>2 DEF IsCall, CallInv, Unpressed, Pointed, Mouse
<1>5. CallInv(m, page)
  BY <1>4, UnpressedCall
<1>6. ASSUME NEW d \in Calls
      PROVE  CallInv(calls'[d], page')
  <2>1. CASE d = c
    <3>1. calls'[d] = [m EXCEPT !.held = FALSE, !.fresh = FALSE]
      BY <1>3, <2>1
    <3> QED
      BY <1>5, <3>1, CoolerCall
  <2>2. CASE d # c
    <3>1. calls'[d] = [calls[d] EXCEPT !.held = FALSE, !.fresh = FALSE] /\ CallInv(calls[d], page)
      BY <1>3, <2>2 DEF PressInv
    <3> QED
      BY <3>1, CoolerCall
  <2> QED
    BY <2>1, <2>2
<1>7. calls' = [d \in Calls |-> calls'[d]]
  BY <1>3
<1> QED
  BY <1>6, <1>7 DEF PressInv

LEMMA LoadsInv ==
  ASSUME PressInv, Loads
  PROVE  PressInv'
<1>1. /\ page' = page
      /\ calls' = [c \in Calls |-> IF calls[c].pc = "loading" THEN [calls[c] EXCEPT !.pc = "csrf"]
                                   ELSE calls[c]]
  BY DEF Loads
<1>2. ASSUME NEW d \in Calls
      PROVE  CallInv(calls'[d], page)
  <2>1. CallInv(calls[d], page) /\ IsCall(calls[d])
    BY DEF PressInv, CallInv
  <2>2. CASE calls[d].pc = "loading"
    <3>1. PICK m : m = [calls[d] EXCEPT !.pc = "csrf"] /\ calls'[d] = m
      BY <1>1, <2>2
    <3>2. IsCall(m) /\ Unpressed(m)
      BY <2>1, <2>2, <3>1 DEF IsCall, CallInv, Unpressed, Pointed, Mouse
    <3> QED
      BY <3>1, <3>2, UnpressedCall
  <2>3. CASE calls[d].pc # "loading"
    BY <1>1, <2>1, <2>3
  <2> QED
    BY <2>2, <2>3
<1>3. calls' = [d \in Calls |-> calls'[d]]
  BY <1>1
<1> QED
  BY <1>1, <1>2, <1>3 DEF PressInv

LEMMA WorldInv ==
  ASSUME PressInv,
         PageMoves \/ UserNavigates \/ Detached \/ StopHides \/ SnapshotReads \/ TimePasses
  PROVE  PressInv'
<1>1. CASE PageMoves
  BY <1>1, WorldStep DEF PageMoves
<1>2. CASE UserNavigates
  BY <1>2, WorldStep DEF UserNavigates, NewDocument
<1>3. CASE Detached
  BY <1>3, WorldStep DEF Detached, Dropped, document
<1>4. CASE StopHides \/ SnapshotReads \/ TimePasses
  BY <1>4 DEF StopHides, SnapshotReads, TimePasses, PressInv, document
<1> QED
  BY <1>1, <1>2, <1>3, <1>4

LEMMA PressInvInit == Init => PressInv
<1> SUFFICES ASSUME Init PROVE PressInv
  OBVIOUS
<1>1. calls = [c \in Calls |-> Blank("read", "idle", 0)] /\ "read" \in Tools
  BY DEF Init, Tools
<1>2. CallInv(Blank("read", "idle", 0), page)
  BY <1>1, BlankCall
<1> QED
  BY <1>1, <1>2 DEF PressInv

LEMMA PressInvNext == PressInv /\ [Next]_vars => PressInv'
<1> SUFFICES ASSUME PressInv, [Next]_vars PROVE PressInv'
  OBVIOUS
<1>1. ASSUME NEW c \in Calls, Step(c) PROVE PressInv'
  BY <1>1, EndingInv, GoingInv, ResolveInv, ScrollInv, MeasureInv, HitTestInv, MouseInv,
     SelectInv, JsGivesUpInv, NavigateInv DEF Step
<1>2. CASE World
  BY <1>2, StartsInv, WorldInv DEF World
<1>3. CASE Loads
  BY <1>3, LoadsInv
<1>4. CASE TimePasses
  BY <1>4, WorldInv
<1>5. CASE UNCHANGED vars
  BY <1>5 DEF vars, document, PressInv
<1> QED
  BY <1>1, <1>2, <1>3, <1>4, <1>5 DEF Next

-----------------------------------------------------------------------------
(* The envelope *)

LEMMA ShowLight == LightInv => /\ Show(light) \in Envelopes /\ Show(light).light = "lit"
                               /\ Show(light).hold = 0 /\ Show(light).cleanup = 0
BY IndicatorAssumption DEF LightInv, Envelopes, Show

\* What a step may do with the envelope.
LightMoves ==
  \/ light' = light
  \/ light' = Show(light)
  \/ light' = Hide(light)
  \/ light' = Pass(light)
  \/ light' = Unlit

LEMMA NextMovesLight == [Next]_vars => LightMoves
<1> SUFFICES ASSUME [Next]_vars PROVE LightMoves
  OBVIOUS
<1>1. ASSUME NEW c \in Calls, Step(c) PROVE LightMoves
  <2>1. CASE \/ ReadAgain(c) \/ HitTest(c) \/ Scroll(c) \/ Measure(c) \/ Resolve(c)
             \/ Hover(c) \/ Press(c) \/ Release(c)
    BY <2>1
       DEF ReadAgain, HitTest, Scroll, Measure, Resolve, Hover, Press, Release, Goes, Fails, Ended,
           LightMoves
  <2>2. CASE \/ Read(c) \/ EvaluationFails(c) \/ JsEvaluates(c) \/ AlreadyThere(c) \/ Settle(c)
             \/ Commit(c)
    BY <2>2
       DEF Read, EvaluationFails, JsEvaluates, AlreadyThere, Settle, Commit, ClicksAt, Fails, Ended,
           LightMoves
  <2>3. CASE \/ Locate(c) \/ Types(c) \/ Poll(c) \/ Pick(c) \/ Untag(c)
    BY <2>3 DEF Locate, ClicksAt, Types, Poll, Pick, Untag, Goes, Ended, LightMoves
  <2>4. CASE \/ JsAttaches(c) \/ JsGivesUp(c) \/ Neutralize(c) \/ Listen(c) \/ LoadTimesOut(c)
             \/ RecoverFromCsrf(c)
    BY <2>4
       DEF JsAttaches, JsGivesUp, Neutralize, Listen, LoadTimesOut, RecoverFromCsrf, Goes, Fails,
           Ended, LightMoves
  <2>5. CASE Navigate(c)
    BY <2>5 DEF Navigate, NewDocument, LightMoves
  <2> QED
    BY <1>1, <2>1, <2>2, <2>3, <2>4, <2>5 DEF Step
<1>2. CASE World
  BY <1>2
     DEF World, Starts, PageMoves, UserNavigates, NewDocument, Detached, StopHides,
         SnapshotReads, LightMoves
<1>3. CASE Loads \/ TimePasses
  BY <1>3 DEF Loads, TimePasses, LightMoves
<1>4. CASE UNCHANGED vars
  BY <1>4 DEF vars, LightMoves
<1> QED
  BY <1>1, <1>2, <1>3, <1>4 DEF Next

\* The light goes down only when the hold is over, or with its document.
HeldUp == light.light = "lit" /\ light'.light # "lit" => light'.age = Hold \/ light' = Unlit

LEMMA LightStep ==
  ASSUME LightInv, LightMoves
  PROVE  LightInv' /\ HeldUp
<1> USE IndicatorAssumption
<1>1. /\ light \in Envelopes /\ light.age \in 0..Hold /\ light.hold \in 0..Hold
      /\ light.cleanup \in 0..Cleanup /\ light.light \in {"dark", "lit", "fading"}
      /\ light.hold > 0 => light.age + light.hold >= Hold
      /\ light.light = "lit" => light.cleanup = 0
  BY DEF LightInv, Envelopes
<1>2. CASE light' = light
  BY <1>2 DEF LightInv, HeldUp
<1>3. CASE light' = Show(light)
  BY <1>3 DEF Show, LightInv, HeldUp, Envelopes
<1>4. CASE light' = Unlit
  BY <1>4 DEF Unlit, LightInv, HeldUp, Envelopes
<1>5. CASE light' = Hide(light)
  <2>1. CASE light.hold # 0
    BY <1>5, <2>1 DEF Hide, LightInv, HeldUp
  <2>2. CASE light.hold = 0 /\ light.age < Hold
    <3>1. light' = [light EXCEPT !.hold = Hold - light.age]
      BY <1>5, <2>2 DEF Hide
    <3>2. /\ light'.light = light.light /\ light'.age = light.age
          /\ light'.hold = Hold - light.age /\ light'.cleanup = light.cleanup
      BY <1>1, <3>1 DEF Envelopes
    <3>3. light' \in Envelopes
      BY <1>1, <2>2, <3>1 DEF Envelopes
    <3> QED
      BY <1>1, <3>2, <3>3 DEF LightInv, HeldUp
  <2>3. CASE light.hold = 0 /\ ~(light.age < Hold)
    <3>1. PICK x \in {"dark", "fading"} :
            light' = [light EXCEPT !.light = x, !.hold = 0, !.cleanup = Cleanup]
      BY <1>5, <2>3 DEF Hide, BeginRelease
    <3>2. /\ light'.light # "lit" /\ light'.age = light.age /\ light'.hold = 0
      BY <1>1, <3>1 DEF Envelopes
    <3>3. light' \in Envelopes
      <4>1. light' = [light |-> x, age |-> light.age, hold |-> 0, cleanup |-> Cleanup]
        BY <1>1, <3>1 DEF Envelopes
      <4>2. light.age \in 0..Hold /\ 0 \in 0..Hold /\ Cleanup \in 0..Cleanup
        BY <1>1 DEF Envelopes
      <4>3. x \in {"dark", "lit", "fading"}
        OBVIOUS
      <4> QED
        BY <4>1, <4>2, <4>3 DEF Envelopes
    <3> QED
      BY <1>1, <2>3, <3>2, <3>3 DEF LightInv, HeldUp
  <2> QED
    BY <1>1, <2>1, <2>2, <2>3
<1>6. CASE light' = Pass(light)
  <2>0. PICK a \in 0..Hold, h \in 0..Hold, u \in 0..Cleanup :
          /\ a = IF light.age < Hold THEN light.age + 1 ELSE light.age
          /\ h = IF light.hold > 0 THEN light.hold - 1 ELSE light.hold
          /\ u = IF light.cleanup > 0 THEN light.cleanup - 1 ELSE light.cleanup
    BY <1>1
  <2>1. PICK o : o = [light EXCEPT !.age = a, !.hold = h, !.cleanup = u]
    OBVIOUS
  <2>2. /\ o \in Envelopes /\ o.light = light.light
        /\ o.age = a /\ o.hold = h /\ o.cleanup = u
    BY <1>1, <2>1 DEF Envelopes
  <2>3. PICK d : d = IF light.cleanup = 1 THEN [o EXCEPT !.light = "dark"] ELSE o
    OBVIOUS
  <2>4. /\ d \in Envelopes /\ d.age = o.age /\ d.hold = o.hold /\ d.cleanup = o.cleanup
        /\ d.light = IF light.cleanup = 1 THEN "dark" ELSE light.light
    BY <2>2, <2>3 DEF Envelopes
  <2>5. light' = IF light.hold = 1 THEN BeginRelease(d) ELSE d
    BY <1>6, <2>0, <2>1, <2>3 DEF Pass
  <2>6. CASE light.hold # 1
    <3>1. light' = d
      BY <2>5, <2>6
    <3>2. light.light = "lit" => d.light = "lit" /\ d.cleanup = 0
      BY <1>1, <2>0, <2>2, <2>4
    <3>3. d.hold > 0 => d.age + d.hold >= Hold
      BY <1>1, <2>0, <2>2, <2>4
    <3>4. d.light = "lit" => light.light = "lit"
      BY <2>4
    <3> QED
      BY <2>4, <3>1, <3>2, <3>3, <3>4 DEF LightInv, HeldUp
  <2>7. CASE light.hold = 1
    <3>1. PICK x \in {"dark", "fading"} :
            light' = [d EXCEPT !.light = x, !.hold = 0, !.cleanup = Cleanup]
      BY <2>5, <2>7 DEF BeginRelease
    <3>2. /\ light'.light # "lit" /\ light'.age = d.age /\ light'.hold = 0
      BY <2>4, <3>1 DEF Envelopes
    <3>3. light' \in Envelopes
      <4>1. light' = [light |-> x, age |-> d.age, hold |-> 0, cleanup |-> Cleanup]
        BY <2>4, <3>1 DEF Envelopes
      <4>2. d.age \in 0..Hold /\ 0 \in 0..Hold /\ Cleanup \in 0..Cleanup
        BY <2>4 DEF Envelopes
      <4>3. x \in {"dark", "lit", "fading"}
        OBVIOUS
      <4> QED
        BY <4>1, <4>2, <4>3 DEF Envelopes
    <3>4. d.age = Hold
      BY <1>1, <2>0, <2>2, <2>4, <2>7
    <3> QED
      BY <3>2, <3>3, <3>4 DEF LightInv, HeldUp
  <2> QED
    BY <1>1, <2>6, <2>7
<1> QED
  BY <1>2, <1>3, <1>4, <1>5, <1>6 DEF LightMoves

LEMMA LightInvInit == Init => LightInv
BY IndicatorAssumption DEF Init, LightInv, Unlit, Envelopes

-----------------------------------------------------------------------------
(* Theorems *)

\* A press the hit test allowed hits the element of the call's handle, or one that
\* contains it or that it contains, unless the page moved after the verdict: whatever
\* other calls read, tag, scroll, press, reset or navigate meanwhile
\* (clickElementByObjectId, labelSelect).
THEOREM VerifiedPress == Spec => []PressIsVerified
<1>1. PressInv => PressIsVerified
  BY DEF PressInv, CallInv, PressWasVerified, PressIsVerified
<1> QED
  BY <1>1, PressInvInit, PressInvNext, PTL DEF Spec

\* However calls that show and hide the indicator overlap, its light goes down only
\* when it has been up for the hold since the last of them began, or with the document
\* (createIndicatorEnvelope).
THEOREM HoldKept == Spec => HoldIsKept
<1>1. LightInv /\ [Next]_vars => LightInv' /\ HeldUp
  BY NextMovesLight, LightStep
<1>2. LightInv /\ [Next]_vars => [HeldUp]_vars
  BY <1>1
<1> QED
  BY <1>1, <1>2, LightInvInit, PTL DEF Spec, HoldIsKept, HeldUp
=============================================================================
