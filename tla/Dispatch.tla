------------------------------ MODULE Dispatch ------------------------------
(***************************************************************************)
(* Requests to the GitHub API with retries, and the dispatch of a workflow  *)
(* run for one source that is built on them                                 *)
(* (scripts/github-api-resilience.cjs).                                     *)
(*                                                                         *)
(* A dispatch reads the runs of its source, posts if none is usable, and    *)
(* before it posts again reads them once more: a retried read inside a      *)
(* retried post. GitHub is external: a post may take effect though its      *)
(* answer is an error. Times are seconds; resets are relative to now.       *)
(***************************************************************************)
EXTENDS Integers, FiniteSets, FiniteSetsExt

CONSTANTS
  Answers,       \* the errors GitHub answers with
  Resets,        \* what GET /rate_limit reads
  Jitters,       \* what is added to a wait
  Unknown,       \* a header that is absent
  MaxAttempts, WaitBudget,           \* of the post: 5, 900
  ReceiptAttempts, ReceiptBudget,    \* of the read: 2, 60
  MaxRuns,       \* bound: runs of the source
  MaxDispatches  \* bound: dispatches of the source

ASSUME DispatchAssumption ==
  /\ MaxAttempts \in Nat \ {0} /\ WaitBudget \in Nat
  /\ ReceiptAttempts \in Nat \ {0} /\ ReceiptBudget \in Nat
  /\ Jitters \subseteq Nat /\ Resets \subseteq Int
  /\ MaxRuns \in Nat /\ MaxDispatches \in Nat

VARIABLES
  runs,          \* the workflow runs of the source (GitHub)
  listed,        \* how an inventory shows each: not ("no"), "late" or "at once" (GitHub)
  stage,         \* the request due: none ("idle"), "existing", "post" or "recover"
  attempt, waited,           \* retryGitHub of the post
  readAttempt, readWaited,   \* retryGitHub of the read
  result,        \* what the last dispatch reported
  dispatches     \* dispatches so far

github == <<runs, listed>>
post == <<attempt, waited>>
read == <<readAttempt, readWaited>>
vars == <<github, stage, post, read, result, dispatches>>

-----------------------------------------------------------------------------
(* Errors and waits *)

Error(status) ==
  [status |-> status, remaining |-> Unknown, reset |-> Unknown, after |-> Unknown,
   says |-> "", deferred |-> FALSE]

\* GitHubRetryDeferredError: no status, no headers, a code of its own.
Deferral == [Error(0) EXCEPT !.deferred = TRUE]

\* classifyGitHubError. A fetch that rejects has its code in its cause: status 0.
Kind(e, method) ==
  CASE e.after # Unknown \/ e.says = "secondary" \/ (e.status = 429 /\ e.remaining # 0) -> "secondary"
    [] OTHER -> IF e.remaining = 0 \/ e.says = "primary" THEN "primary"
                ELSE IF \/ e.status \in {408, 429, 500, 502, 503, 504}
                        \/ e.status = 304 /\ method = "GET" THEN "transient"
                ELSE "fatal"

Backoff(base, n, most) == Min({most, base * 2 ^ (n - 1)})

\* computeWaitSeconds
WaitSeconds(e, kind, n, reset) ==
  CASE kind = "primary" -> IF reset = Unknown THEN 60 ELSE Max({1, reset + 5})
    [] kind = "secondary" -> IF e.after # Unknown THEN e.after ELSE Backoff(60, n, 600)
    [] kind = "transient" -> Backoff(5, n, 60)

\* readPrimaryRateLimit goes through requestPage, with the method of the request it
\* is read for: GitHub has no POST /rate_limit.
RateReads(method) ==
  IF method = "GET"
  THEN [ok : {TRUE}, reset : Resets, error : {Deferral}]
       \cup [ok : {FALSE}, reset : {Unknown}, error : Answers]
  ELSE {[ok |-> FALSE, reset |-> Unknown, error |-> Error(404)]}

Exhausted(n, before, wait, most, budget) == n >= most \/ before + wait > budget

Throw(e) == [again |-> FALSE, wait |-> 0, error |-> e]

\* What retryGitHub may do with error e of attempt n.
Caught(e, method, n, before, most, budget) ==
  LET kind == Kind(e, method)
      rates == IF kind = "primary" /\ e.reset = Unknown THEN RateReads(method)
               ELSE {[ok |-> TRUE, reset |-> e.reset, error |-> e]}
      after(rate) == {WaitSeconds(e, kind, n, rate.reset) + j : j \in Jitters}
  IN  IF kind = "fatal" THEN {Throw(e)}
      ELSE {Throw(rate.error) : rate \in {r \in rates : ~r.ok}}
           \cup UNION {{IF Exhausted(n, before, w, most, budget) THEN Throw(Deferral)
                        ELSE [again |-> TRUE, wait |-> w, error |-> e] : w \in after(rate)}
                       : rate \in {r \in rates : r.ok}}

-----------------------------------------------------------------------------
(* Runs *)

\* Mutant of Usable: a run that has not started is none.
UsableStarted(s) == s \in {"running", "success"}

\* findWorkflowDispatchReceipt's filter.
Usable(s) == s \in {"queued", "running", "success"}

Made(rs) == {r \in 1..MaxRuns : rs[r] # "none"}
Receipts == {r \in Made(runs) : listed[r] # "no" /\ Usable(runs[r])}

\* A post takes effect: a new run, with the next id.
Creates ==
  LET r == Cardinality(Made(runs)) + 1
  IN  /\ r <= MaxRuns
      /\ runs' = [runs EXCEPT ![r] = "queued"]
      /\ \E l \in {"no", "at once"} : listed' = [listed EXCEPT ![r] = l]

RunMoves(r, s) ==
  /\ \/ runs[r] = "queued" /\ s = "running"
     \/ runs[r] = "running" /\ s \in {"success", "failure"}
  /\ runs' = [runs EXCEPT ![r] = s]
  /\ UNCHANGED <<listed, stage, post, read, result, dispatches>>

IsListed(r) ==
  /\ r \in Made(runs) /\ listed[r] = "no"
  /\ listed' = [listed EXCEPT ![r] = "late"]
  /\ UNCHANGED <<runs, stage, post, read, result, dispatches>>

-----------------------------------------------------------------------------
(* A dispatch *)

\* Mutant of NextAttempt: the attempt is not counted.
NextAttemptSame(n) == n

NextAttempt(n) == n + 1

\* dispatchWorkflow, of a source that may have been dispatched before.
Start ==
  /\ stage = "idle" /\ dispatches < MaxDispatches
  /\ dispatches' = dispatches + 1
  /\ stage' = "existing" /\ result' = "none"
  /\ attempt' = 1 /\ waited' = 0 /\ readAttempt' = 1 /\ readWaited' = 0
  /\ UNCHANGED github

End(report) == stage' = "idle" /\ result' = report

\* main: code 84 for a deferral, 1 for any other error.
Fail(e) == End(IF e.deferred THEN "deferred" ELSE "failed")

\* The post's retryGitHub catches e: a new attempt begins with recover's read.
PostCatches(e) ==
  \E o \in Caught(e, "POST", attempt, waited, MaxAttempts, WaitBudget) :
    IF o.again
    THEN /\ stage' = "recover" /\ attempt' = NextAttempt(attempt) /\ waited' = waited + o.wait
         /\ readAttempt' = 1 /\ readWaited' = 0
         /\ UNCHANGED result
    ELSE Fail(o.error) /\ UNCHANGED <<post, read>>

\* The inventory of runs is read: the receipt, or the post.
ReadAnswered ==
  /\ stage \in {"existing", "recover"}
  /\ IF Receipts # {} THEN End(IF stage = "existing" THEN "existing" ELSE "recovered")
     ELSE stage' = "post" /\ UNCHANGED result
  /\ UNCHANGED <<github, post, read, dispatches>>

\* The read fails: it is tried again, or ends the dispatch, or is the post's error.
ReadFails(e) ==
  /\ stage \in {"existing", "recover"}
  /\ \E o \in Caught(e, "GET", readAttempt, readWaited, ReceiptAttempts, ReceiptBudget) :
       IF o.again
       THEN /\ readAttempt' = NextAttempt(readAttempt) /\ readWaited' = readWaited + o.wait
            /\ UNCHANGED <<stage, post, result>>
       ELSE IF stage = "recover" THEN PostCatches(o.error)
       ELSE Fail(o.error) /\ UNCHANGED <<post, read>>
  /\ UNCHANGED <<github, dispatches>>

PostAnswered ==
  /\ stage = "post"
  /\ Creates
  /\ End("dispatched")
  /\ UNCHANGED <<post, read, dispatches>>

\* A server error or a lost answer may follow a post that took effect.
PostFails(e, took) ==
  /\ stage = "post"
  /\ took => e.status \in {0, 408, 500, 502, 503, 504}
  /\ IF took THEN Creates ELSE UNCHANGED github
  /\ PostCatches(e)
  /\ UNCHANGED dispatches

-----------------------------------------------------------------------------
Init ==
  /\ runs = [r \in 1..MaxRuns |-> "none"] /\ listed = [r \in 1..MaxRuns |-> "no"]
  /\ stage = "idle" /\ attempt = 1 /\ waited = 0 /\ readAttempt = 1 /\ readWaited = 0
  /\ result = "none" /\ dispatches = 0

Requests ==
  \/ ReadAnswered \/ PostAnswered
  \/ \E e \in Answers : ReadFails(e) \/ \E took \in BOOLEAN : PostFails(e, took)

Next ==
  \/ Start \/ Requests
  \/ \E r \in 1..MaxRuns : IsListed(r) \/ \E s \in {"running", "success", "failure"} : RunMoves(r, s)

\* GitHub answers every request or the fetch rejects.
Spec == Init /\ [][Next]_vars /\ WF_vars(Requests)

-----------------------------------------------------------------------------
(* Properties *)

TypeOK ==
  /\ runs \in [1..MaxRuns -> {"none", "queued", "running", "success", "failure"}]
  /\ listed \in [1..MaxRuns -> {"no", "late", "at once"}]
  /\ stage \in {"idle", "existing", "post", "recover"}
  /\ attempt \in 1..MaxAttempts /\ waited \in 0..WaitBudget
  /\ readAttempt \in 1..ReceiptAttempts /\ readWaited \in 0..ReceiptBudget
  /\ result \in {"none", "existing", "recovered", "dispatched", "deferred", "failed"}
  /\ dispatches \in 0..MaxDispatches

\* "an ambiguous mutation must recover its exact receipt instead of posting twice":
\* however often a source is dispatched and whatever fails, at most one of its runs
\* waits, runs or has succeeded, but for those GitHub was late to list.
OneUsableRun ==
  Cardinality({r \in Made(runs) : /\ listed[r] = "at once"
                                  /\ runs[r] \in {"queued", "running", "success"}}) <= 1

\* A dispatch ends.
DispatchEnds == stage # "idle" ~> stage = "idle"
=============================================================================
