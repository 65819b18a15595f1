-------------------------- MODULE Dispatch_proofs ---------------------------
(***************************************************************************)
(* Proofs about Dispatch: the attempts of a dispatch are bounded, and a      *)
(* source has at most one usable run that GitHub listed in time.            *)
(*                                                                         *)
(* The invariant is about the moment between the read of the inventory and  *)
(* the post that relies on it: from the empty answer on until the post has  *)
(* succeeded or failed, no run of the source can become usable, except by   *)
(* the post itself.                                                         *)
(***************************************************************************)
EXTENDS Dispatch, FiniteSetTheorems, TLAPS

-----------------------------------------------------------------------------
(* The invariant *)

\* The runs a dispatch must find and not make again.
Fit(rs, ls) == {r \in Made(rs) : ls[r] = "at once" /\ rs[r] \in {"queued", "running", "success"}}

GithubTypes ==
  /\ runs \in [1..MaxRuns -> {"none", "queued", "running", "success", "failure"}]
  /\ listed \in [1..MaxRuns -> {"no", "late", "at once"}]

\* The part of TypeOK that does not depend on the waits, which are exponential.
RequestTypes ==
  /\ stage \in {"idle", "existing", "post", "recover"}
  /\ attempt \in 1..MaxAttempts
  /\ readAttempt \in 1..ReceiptAttempts
  /\ result \in {"none", "existing", "recovered", "dispatched", "deferred", "failed"}

\* A post is due only while there is no run a dispatch must find.
PostIsDue == stage = "post" => Fit(runs, listed) = {}

OneFits == \A r, s \in Fit(runs, listed) : r = s

DispatchInv == GithubTypes /\ RequestTypes /\ PostIsDue /\ OneFits

-----------------------------------------------------------------------------
(* GitHub *)

\* The runs made are finitely many: the id of the next one is a number.
LEMMA MadeIsFinite ==
  ASSUME GithubTypes
  PROVE  Cardinality(Made(runs)) \in Nat
<1>1. IsFiniteSet(1..MaxRuns)
  BY FS_Interval, DispatchAssumption
<1>2. IsFiniteSet(Made(runs))
  BY <1>1, FS_Subset DEF Made
<1> QED
  BY <1>2, FS_CardinalityType

\* The post that finds no fitting run makes the only one.
LEMMA CreatesOne ==
  ASSUME GithubTypes, Fit(runs, listed) = {}, Creates
  PROVE  GithubTypes' /\ OneFits'
<1>1. PICK r \in Nat : r = Cardinality(Made(runs)) + 1 /\ r >= 1
  <2>1. Cardinality(Made(runs)) \in Nat
    BY MadeIsFinite
  <2> QED
    BY <2>1
<1>2. r \in 1..MaxRuns
  <2>1. r <= MaxRuns
    BY <1>1 DEF Creates
  <2> QED
    BY <1>1, <2>1, DispatchAssumption
<1>3. PICK l \in {"no", "at once"} :
        /\ runs' = [runs EXCEPT ![r] = "queued"]
        /\ listed' = [listed EXCEPT ![r] = l]
  BY <1>1 DEF Creates
<1>4. GithubTypes'
  BY <1>2, <1>3 DEF GithubTypes
<1>5. ASSUME NEW s \in 1..MaxRuns, s # r
      PROVE  s \notin Fit(runs', listed')
  <2>1. runs'[s] = runs[s] /\ listed'[s] = listed[s]
    BY <1>3, <1>5 DEF GithubTypes
  <2> QED
    BY <2>1 DEF Fit, Made
<1>6. OneFits'
  <2>1. \A s \in Fit(runs', listed') : s \in 1..MaxRuns
    BY DEF Fit, Made
  <2> QED
    BY <1>5, <2>1 DEF OneFits
<1> QED
  BY <1>4, <1>6

\* What GitHub does by itself makes no fitting run.
LEMMA GithubMoves ==
  ASSUME GithubTypes, NEW r \in 1..MaxRuns,
         IsListed(r) \/ \E s \in {"running", "success", "failure"} : RunMoves(r, s)
  PROVE  /\ GithubTypes'
         /\ Fit(runs', listed') \subseteq Fit(runs, listed)
<1>1. CASE IsListed(r)
  <2>1. runs' = runs /\ listed' = [listed EXCEPT ![r] = "late"]
    BY <1>1 DEF IsListed
  <2> QED
    BY <2>1 DEF GithubTypes, Fit, Made
<1>2. ASSUME NEW s \in {"running", "success", "failure"}, RunMoves(r, s)
      PROVE  /\ GithubTypes'
             /\ Fit(runs', listed') \subseteq Fit(runs, listed)
  <2>1. /\ runs[r] \in {"queued", "running"}
        /\ runs' = [runs EXCEPT ![r] = s]
        /\ listed' = listed
    BY <1>2 DEF RunMoves
  <2>2. GithubTypes'
    BY <2>1 DEF GithubTypes
  <2>3. ASSUME NEW q \in Fit(runs', listed')
        PROVE  q \in Fit(runs, listed)
    <3>1. q \in 1..MaxRuns /\ listed[q] = "at once"
      BY <2>1, <2>3 DEF Fit, Made
    <3>2. CASE q = r
      BY <2>1, <3>1, <3>2 DEF Fit, Made
    <3>3. CASE q # r
      <4>1. runs'[q] = runs[q]
        BY <2>1, <3>1, <3>3 DEF GithubTypes
      <4> QED
        BY <4>1, <3>1, <2>3 DEF Fit, Made
    <3> QED
      BY <3>2, <3>3
  <2> QED
    BY <2>2, <2>3
<1> QED
  BY <1>1, <1>2

-----------------------------------------------------------------------------
(* Retries *)

\* A retry is made only while attempts are left.
LEMMA CaughtIsBounded ==
  ASSUME NEW e, NEW method, NEW n \in Nat, NEW before, NEW most \in Nat, NEW budget,
         NEW o \in Caught(e, method, n, before, most, budget), o.again
  PROVE  n + 1 <= most
<1>1. o # Throw(Deferral) /\ \A x : o # Throw(x)
  BY DEF Throw
<1>2. \E w : o = IF Exhausted(n, before, w, most, budget) THEN Throw(Deferral)
                ELSE [again |-> TRUE, wait |-> w, error |-> e]
  BY <1>1 DEF Caught
<1>3. PICK w : ~Exhausted(n, before, w, most, budget)
  BY <1>1, <1>2
<1> QED
  BY <1>3 DEF Exhausted

\* The post's catch begins a recovery or ends the dispatch, and posts nothing.
LEMMA CatchTypes ==
  ASSUME RequestTypes, NEW e, PostCatches(e)
  PROVE  RequestTypes' /\ stage' # "post"
<1>1. PICK o \in Caught(e, "POST", attempt, waited, MaxAttempts, WaitBudget) :
        IF o.again
        THEN /\ stage' = "recover" /\ attempt' = NextAttempt(attempt)
             /\ waited' = waited + o.wait /\ readAttempt' = 1 /\ readWaited' = 0
             /\ UNCHANGED result
        ELSE Fail(o.error) /\ UNCHANGED <<post, read>>
  BY DEF PostCatches
<1>2. CASE o.again
  <2>1. attempt + 1 <= MaxAttempts
    BY <1>2, CaughtIsBounded, DispatchAssumption DEF RequestTypes
  <2> QED
    BY <1>1, <1>2, <2>1, DispatchAssumption DEF RequestTypes, NextAttempt
<1>3. CASE ~o.again
  BY <1>1, <1>3 DEF RequestTypes, Fail, End, post, read
<1> QED
  BY <1>2, <1>3

LEMMA ReadFailsTypes ==
  ASSUME RequestTypes, NEW e, ReadFails(e)
  PROVE  RequestTypes' /\ stage' # "post"
<1>1. PICK o \in Caught(e, "GET", readAttempt, readWaited, ReceiptAttempts, ReceiptBudget) :
        IF o.again
        THEN /\ readAttempt' = NextAttempt(readAttempt) /\ readWaited' = readWaited + o.wait
             /\ UNCHANGED <<stage, post, result>>
        ELSE IF stage = "recover" THEN PostCatches(o.error)
        ELSE Fail(o.error) /\ UNCHANGED <<post, read>>
  BY DEF ReadFails
<1>2. CASE o.again
  <2>1. readAttempt + 1 <= ReceiptAttempts
    BY <1>2, CaughtIsBounded, DispatchAssumption DEF RequestTypes
  <2>2. stage # "post"
    BY DEF ReadFails
  <2> QED
    BY <1>1, <1>2, <2>1, <2>2, DispatchAssumption DEF RequestTypes, NextAttempt, post
<1>3. CASE ~o.again /\ stage = "recover"
  <2>1. PostCatches(o.error)
    BY <1>1, <1>3
  <2> QED
    BY <2>1, CatchTypes
<1>4. CASE ~o.again /\ stage # "recover"
  BY <1>1, <1>4 DEF RequestTypes, Fail, End, post, read
<1> QED
  BY <1>2, <1>3, <1>4

-----------------------------------------------------------------------------
(* The invariant holds *)

LEMMA DispatchInvInit == Init => DispatchInv
<1> SUFFICES ASSUME Init PROVE DispatchInv
  OBVIOUS
<1>1. GithubTypes /\ RequestTypes
  BY DispatchAssumption DEF Init, GithubTypes, RequestTypes
<1>2. Fit(runs, listed) = {}
  BY DEF Init, Fit, Made
<1> QED
  BY <1>1, <1>2 DEF DispatchInv, PostIsDue, OneFits

LEMMA DispatchInvNext == DispatchInv /\ [Next]_vars => DispatchInv'
<1> SUFFICES ASSUME DispatchInv, [Next]_vars PROVE DispatchInv'
  OBVIOUS
<1> USE DEF DispatchInv
<1>1. ASSUME UNCHANGED github, RequestTypes', stage' # "post"
      PROVE  DispatchInv'
  BY <1>1 DEF github, GithubTypes, PostIsDue, OneFits
<1>2. CASE Start
  <2>1. RequestTypes' /\ stage' # "post" /\ UNCHANGED github
    BY <1>2, DispatchAssumption DEF Start, RequestTypes
  <2> QED
    BY <2>1, <1>1
<1>3. CASE ReadAnswered
  <2>1. UNCHANGED github /\ RequestTypes'
    BY <1>3 DEF ReadAnswered, RequestTypes, End, post, read
  <2>2. CASE Receipts # {}
    <3>1. stage' # "post"
      BY <1>3, <2>2 DEF ReadAnswered, End
    <3> QED
      BY <1>1, <2>1, <3>1
  <2>3. CASE Receipts = {}
    <3>1. Fit(runs, listed) = {}
      BY <2>3 DEF Receipts, Fit, Usable
    <3> QED
      BY <2>1, <3>1 DEF github, GithubTypes, PostIsDue, OneFits
  <2> QED
    BY <2>2, <2>3
<1>4. CASE PostAnswered
  <2>1. Fit(runs, listed) = {} /\ Creates
    BY <1>4 DEF PostAnswered, PostIsDue
  <2>2. GithubTypes' /\ OneFits'
    BY <2>1, CreatesOne
  <2>3. RequestTypes' /\ stage' # "post"
    BY <1>4 DEF PostAnswered, RequestTypes, End, post, read
  <2> QED
    BY <2>2, <2>3 DEF PostIsDue
<1>5. ASSUME NEW e \in Answers, ReadFails(e)
      PROVE  DispatchInv'
  <2>1. UNCHANGED github
    BY <1>5 DEF ReadFails
  <2>2. RequestTypes' /\ stage' # "post"
    BY <1>5, ReadFailsTypes
  <2> QED
    BY <1>1, <2>1, <2>2
<1>6. ASSUME NEW e \in Answers, NEW took \in BOOLEAN, PostFails(e, took)
      PROVE  DispatchInv'
  <2>1. Fit(runs, listed) = {} /\ PostCatches(e)
    BY <1>6 DEF PostFails, PostIsDue
  <2>2. RequestTypes' /\ stage' # "post"
    BY <2>1, CatchTypes
  <2>3. CASE took
    <3>1. Creates
      BY <1>6, <2>3 DEF PostFails
    <3>2. GithubTypes' /\ OneFits'
      BY <3>1, <2>1, CreatesOne
    <3> QED
      BY <2>2, <3>2 DEF PostIsDue
  <2>4. CASE ~took
    <3>1. UNCHANGED github
      BY <1>6, <2>4 DEF PostFails
    <3> QED
      BY <1>1, <2>2, <3>1
  <2> QED
    BY <2>3, <2>4
<1>7. ASSUME NEW r \in 1..MaxRuns,
             IsListed(r) \/ \E s \in {"running", "success", "failure"} : RunMoves(r, s)
      PROVE  DispatchInv'
  <2>1. GithubTypes' /\ Fit(runs', listed') \subseteq Fit(runs, listed)
    BY <1>7, GithubMoves
  <2>2. UNCHANGED <<stage, post, read, result>>
    BY <1>7 DEF IsListed, RunMoves
  <2>3. RequestTypes'
    BY <2>2 DEF RequestTypes, post, read
  <2> QED
    BY <2>1, <2>2, <2>3 DEF PostIsDue, OneFits
<1>8. CASE UNCHANGED vars
  BY <1>8 DEF vars, github, post, read, GithubTypes, RequestTypes, PostIsDue, OneFits
<1> QED
  BY <1>2, <1>3, <1>4, <1>5, <1>6, <1>7, <1>8 DEF Next, Requests

LEMMA DispatchInvHolds == Spec => []DispatchInv
<1> QED
  BY DispatchInvInit, DispatchInvNext, PTL DEF Spec

-----------------------------------------------------------------------------
(* Theorems *)

\* A dispatch posts at most MaxAttempts times, and reads the runs at most
\* ReceiptAttempts times before each post, whatever errors and waits come between
\* (retryGitHub's loop, and recover's inside it).
THEOREM AttemptsAreBounded ==
  Spec => [](attempt \in 1..MaxAttempts /\ readAttempt \in 1..ReceiptAttempts)
<1>1. DispatchInv => attempt \in 1..MaxAttempts /\ readAttempt \in 1..ReceiptAttempts
  BY DEF DispatchInv, RequestTypes
<1> QED
  BY <1>1, DispatchInvHolds, PTL

\* However often a source is dispatched and whatever posts fail after they took
\* effect, at most one run that GitHub listed in time waits, runs or has succeeded
\* (findWorkflowDispatchReceipt read before every post of dispatchWorkflow).
THEOREM OneRunAtATime == Spec => []OneUsableRun
<1>1. DispatchInv => OneUsableRun
  <2> SUFFICES ASSUME DispatchInv PROVE OneUsableRun
    OBVIOUS
  <2> DEFINE n == Cardinality(Fit(runs, listed))
  <2>0. SUFFICES n <= 1
    BY DEF OneUsableRun, Fit
  <2>1. CASE Fit(runs, listed) = {}
    <3>1. n = 0
      BY <2>1, FS_EmptySet
    <3> QED
      BY <3>1
  <2>2. CASE Fit(runs, listed) # {}
    <3>1. PICK r : Fit(runs, listed) = {r}
      BY <2>2 DEF DispatchInv, OneFits
    <3>2. n = 1
      BY <3>1, FS_Singleton
    <3> QED
      BY <3>2
  <2> QED
    BY <2>1, <2>2
<1> QED
  BY <1>1, DispatchInvHolds, PTL
=============================================================================
