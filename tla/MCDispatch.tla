----------------------------- MODULE MCDispatch -----------------------------
(***************************************************************************)
(* Instances of Dispatch for TLC: one error of each kind GitHub has.        *)
(***************************************************************************)
EXTENDS Dispatch, TLC

AnError(status, remaining, reset, after, says) ==
  [status |-> status, remaining |-> remaining, reset |-> reset, after |-> after,
   says |-> says, deferred |-> FALSE]

MCAnswers ==
  {AnError(403, Unknown, Unknown, Unknown, "secondary"),
   AnError(403, Unknown, Unknown, 0, "secondary"),
   AnError(429, Unknown, Unknown, 500, ""),
   AnError(403, 0, 120, Unknown, "primary"),
   AnError(403, Unknown, Unknown, Unknown, "primary"),
   AnError(503, Unknown, Unknown, Unknown, ""),
   AnError(304, Unknown, Unknown, Unknown, ""),
   AnError(422, Unknown, Unknown, Unknown, ""),
   AnError(0, Unknown, Unknown, Unknown, "")}
=============================================================================
