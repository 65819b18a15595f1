----------------------------- MODULE MCPageTools -----------------------------
(***************************************************************************)
(* Instances of PageTools for TLC.  A behaviour plays in one of two scenes. *)
(* "press": calls that read, select, click and evaluate overlap on a page   *)
(* that moves; time passes for the indicator when none of them runs.        *)
(* "clock": calls that only wait overlap with the indicator's timers.       *)
(***************************************************************************)
EXTENDS PageTools, TLC

CONSTANTS
  Starters,  \* bound: tool calls started
  Moves,     \* bound: moves of the page, the user and the panel
  Alone      \* bound: tools of which one call runs at a time

VARIABLES scene, started, moved

mcvars == <<vars, scene, started, moved>>

Cast == IF scene = "press" THEN Tools \ {"navigate"} ELSE {"read", "javascript", "navigate"}
Allowed(tool) ==
  tool \in Cast /\ (tool \in Alone => ~\E c \in Calls : calls[c].tool = tool /\ Running(c))
Clock == scene = "clock" \/ ~\E c \in Calls : Running(c)

First == CHOOSE c \in Calls : TRUE

\* At first all elements are shown. Calls are interchangeable: a fixed one starts first.
MCInit ==
  /\ Init /\ page \in [Elements -> Points]
  /\ scene \in {"press", "clock"} /\ started = 0 /\ moved = 0
MCNext ==
  /\ \/ (Loads \/ (Clock /\ TimePasses) \/ \E c \in Calls : Step(c)) /\ UNCHANGED <<started, moved>>
     \/ /\ \E c \in Calls, tool \in Tools, ref \in 0..N :
             Allowed(tool) /\ (started = 0 => c = First) /\ Starts(c, tool, ref)
        /\ started < Starters /\ started' = started + 1 /\ UNCHANGED moved
     \/ /\ PageMoves \/ UserNavigates \/ Detached \/ StopHides \/ SnapshotReads
        /\ moved < Moves /\ moved' = moved + 1 /\ UNCHANGED started
  /\ UNCHANGED scene
  \* where elements are matters only to what is pressed
  /\ scene = "clock" => page' = page

MCSpec == MCInit /\ [][MCNext]_mcvars
MCFairSpec == MCSpec /\ WF_mcvars(TimePasses /\ Clock /\ UNCHANGED <<scene, started, moved>>)
                     /\ \A c \in Calls : WF_mcvars(Step(c) /\ (scene = "clock" => page' = page)
                                                          /\ UNCHANGED <<scene, started, moved>>)
=============================================================================
