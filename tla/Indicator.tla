------------------------------ MODULE Indicator ------------------------------
(***************************************************************************)
(* The opacity envelope of the on-page indicator (indicator-envelope.ts     *)
(* with the effects agent-visual-indicator.tsx gives it): attack, hold,     *)
(* release, cleanup. A timer is the time it has left, 0 when none is set.   *)
(***************************************************************************)
EXTENDS Integers

CONSTANTS
  Hold,      \* holdMs: the least time at full brightness after a trigger
  Cleanup    \* cleanupMs: from the start of the release to the teardown

ASSUME IndicatorAssumption == Hold \in Nat \ {0} /\ Cleanup \in Nat \ {0}

\* light: what is on the page; age: the time since the last trigger, up to Hold.
Envelopes == [light : {"dark", "lit", "fading"}, age : 0..Hold, hold : 0..Hold, cleanup : 0..Cleanup]

\* The envelope of a new document. Its clock and peakAt both begin at 0.
Unlit == [light |-> "dark", age |-> 0, hold |-> 0, cleanup |-> 0]

\* onRelease finds nothing to dim on a page whose elements are not there.
BeginRelease(e) ==
  [e EXCEPT !.light = IF @ = "dark" THEN @ ELSE "fading", !.hold = 0, !.cleanup = Cleanup]

\* Mutant of Show: a discharge already queued stays queued.
ShowKeepsHold(e) == [light |-> "lit", age |-> 0, hold |-> e.hold, cleanup |-> 0]

\* Mutant of Show: the queued discharge is cancelled, but holdTimer keeps its value.
ShowForgetsToReset(e) ==
  [light |-> "lit", age |-> 0, hold |-> IF e.hold > 0 THEN -1 ELSE e.hold, cleanup |-> 0]

\* show: both timers are cancelled, the hold starts anew.
Show(e) == [light |-> "lit", age |-> 0, hold |-> 0, cleanup |-> 0]

\* hide: at once, after the rest of the hold, or already queued.
Hide(e) ==
  IF e.hold # 0 THEN e
  ELSE IF e.age < Hold THEN [e EXCEPT !.hold = Hold - e.age]
  ELSE BeginRelease(e)

\* Time passes; a timer that runs out fires.
Pass(e) ==
  LET older == [e EXCEPT !.age = IF @ < Hold THEN @ + 1 ELSE @,
                         !.hold = IF @ > 0 THEN @ - 1 ELSE @,
                         !.cleanup = IF @ > 0 THEN @ - 1 ELSE @]
      dimmed == IF e.cleanup = 1 THEN [older EXCEPT !.light = "dark"] ELSE older
  IN  IF e.hold = 1 THEN BeginRelease(dimmed) ELSE dimmed
=============================================================================
