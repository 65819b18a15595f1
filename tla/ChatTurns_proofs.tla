-------------------------- MODULE ChatTurns_proofs --------------------------
(***************************************************************************)
(* Theorems about ChatTurns for every set of turns, panels, ports and       *)
(* places: its types and tables, where stops and busy turns belong, and, of *)
(* a worker that sends each delta once, the order of what a panel is shown  *)
(* (so that ChatTurns implements ChatTurn).                                 *)
(***************************************************************************)
EXTENDS ChatTurns, FiniteSetTheorems, SequenceTheorems, TLAPS

-----------------------------------------------------------------------------
(* What holds of every behaviour: types, and the two tables *)

\* Turns are pinned one by one.
FinitelyPinned == IsFiniteSet({t \in Turns : turnToPort[t] # NoPanel})

\* An open socket advertises a place; of a closed one nothing is under way.
SocketsInOrder ==
  /\ \A p \in open : serves[p] # NoPlace
  /\ \A p \in Ports \ open : toWorker[p] = <<>> /\ fromWorker[p] = <<>> /\ sentOver[p] = {}

TypeInv == TypeOK /\ FinitelyPinned /\ SocketsInOrder

\* A panel's active turn is the one it began that is still open; a turn nobody has
\* begun has no panel.
OpenIsActive ==
  /\ \A t \in Turns : status[t] = "new" => asker[t] = NoPanel
  /\ \A n \in Panels : active[n] # NoTurn => status[active[n]] = "open" /\ asker[active[n]] = n
  /\ \A t \in Turns : status[t] = "open" => asker[t] \in Panels /\ active[asker[t]] = t

Carries(q, S) == \E i \in DOMAIN q : q[i] \in S
Once(q, S) == \A i, j \in DOMAIN q : q[i] \in S /\ q[j] \in S => i = j
\* Queue r has no element of S that q has not.
Fewer(r, q, S) == (Carries(r, S) => Carries(q, S)) /\ (Once(q, S) => Once(r, S))

\* The posts that begin turn t.
Requests(t) == {Post(type, t, x) : type \in {"chat_request", "interaction_respond"}, x \in Places}

\* What is posted is of a connected panel; it asks once for each turn that it began.
PostsInOrder ==
  \A n \in Panels :
    /\ posted[n] # <<>> => n \in chatPanels
    /\ \A t \in Turns : /\ Once(posted[n], Requests(t))
                        /\ Carries(posted[n], Requests(t)) => asker[t] = n

BaseInv == TypeInv /\ OpenIsActive /\ TurnTablesAgree /\ PostsInOrder

\* Frame f is about turn t.
About(f, t) ==
  /\ f.type \notin {"interaction_event", "interaction_snapshot", "bridges"}
  /\ f.id = t

In(q, t) == \E i \in DOMAIN q : About(q[i], t)

\* Something of turn t is or may come to be at port p.
Touches(t, p) ==
  \/ t \in working[p] \/ t \in sentOver[p] \/ turnToBridgePort[t] = p
  \/ In(toWorker[p], t) \/ In(fromWorker[p], t)

\* Turn t is still to begin, or its panel's post is still to arrive: there is nothing
\* of it anywhere yet.
Unsent(t) == status[t] = "new" \/ \E n \in Panels : Carries(posted[n], Requests(t))
Fresh(t) ==
  /\ \A p \in Ports : ~Touches(t, p)
  /\ \A n \in Panels : ~In(toPanel[n], t)
  /\ said[t] = -1 /\ shown[t] = <<>>

\* A turn is sent once, so all that is under way for it is at one port.
OnePort ==
  \A t \in Turns :
    /\ \A p, q \in Ports : Touches(t, p) /\ Touches(t, q) => p = q
    /\ Unsent(t) => Fresh(t)

-----------------------------------------------------------------------------
(* Deltas in order *)

\* A worker sends a delta a second time.
DeltaRepeats == \E p \in Ports, t \in Turns, i \in Pieces \ {0} : WorkerRepeats(p, t, i)

\* Frame f is a delta of turn t; the numbers of those in q; those increase along q.
IsDelta(f, t) == f.type = "item" /\ f.id = t /\ f.seq # 0
DeltasIn(q, t) == {q[i].seq : i \in {j \in DOMAIN q : IsDelta(q[j], t)}}
Ascends(q, t) ==
  \A i, j \in DOMAIN q :
    i < j /\ IsDelta(q[i], t) /\ IsDelta(q[j], t) => q[i].seq < q[j].seq

Below(S, D) == \A k \in S, d \in D : k < d
UpTo(m, D) == \A d \in D : d = 0 \/ d <= m
\* Queue r has no delta that q has not, in the order of q.
Thins(r, q, t) == DeltasIn(r, t) \subseteq DeltasIn(q, t) /\ (Ascends(q, t) => Ascends(r, t))

ShownOf(t) == {shown[t][i] : i \in DOMAIN shown[t]}

\* What panel n shows of turn t comes before what is on its way to the panel, and
\* that before what port p's worker has sent; all of it has been said.
AtPanelOrdered(t, n) ==
  /\ Ascends(toPanel[n], t)
  /\ Below(ShownOf(t), DeltasIn(toPanel[n], t))
  /\ UpTo(said[t], ShownOf(t)) /\ UpTo(said[t], DeltasIn(toPanel[n], t))

AtPortOrdered(t, n, p) ==
  /\ Ascends(fromWorker[p], t)
  /\ Below(ShownOf(t), DeltasIn(fromWorker[p], t))
  /\ Below(DeltasIn(toPanel[n], t), DeltasIn(fromWorker[p], t))
  /\ UpTo(said[t], DeltasIn(fromWorker[p], t))

Ordered(t) ==
  \A n \in Panels : asker[t] = n =>
    AtPanelOrdered(t, n) /\ \A p \in Ports : AtPortOrdered(t, n, p)

InOrder == \A t \in Turns : Ordered(t)

-----------------------------------------------------------------------------
(* Turns under way *)

\* What starts turn t at its worker, what resumes it and its receipts, what ends it.
Starts(t) == {Frame("chat_request", t), Frame("interaction_respond", t)}
Responds(t) == {Frame("interaction_respond", t)}
Receipts(t) == {Receipt(t, TRUE), Receipt(t, FALSE)}
Finals(t) == {Frame(type, t) : type \in EndTypes} \cup {Receipt(t, FALSE)}

\* An answer is receipted once.
ReceiptedOnce ==
  \A t \in Turns, p \in Ports :
    /\ Once(toWorker[p], Responds(t)) /\ Once(fromWorker[p], Receipts(t))
    /\ ~(Carries(toWorker[p], Responds(t)) /\ Carries(fromWorker[p], Receipts(t)))

\* A pinned turn is one of its socket, and its receipt, if it is to come, unpins it.
SentAt(t, p) ==
  /\ p \in open /\ t \in sentOver[p]
  /\ t \in working[p] \/ Carries(toWorker[p], Starts(t)) \/ Carries(fromWorker[p], Finals(t))
  /\ Carries(toWorker[p], Responds(t)) \/ Carries(fromWorker[p], Receipts(t)) => t \in answerTurns

\* Unless the turn's socket left it pinned.
IsSent(t) == t \in stranded[turnToBridgePort[t]] \/ SentAt(t, turnToBridgePort[t])

PinnedIsSent == \A t \in Turns : turnToPort[t] # NoPanel => IsSent(t)

BusyInv == ReceiptedOnce /\ PinnedIsSent /\ StrayStopsWereStranded

-----------------------------------------------------------------------------
(* Queues and frames *)

LEMMA Enqueue ==
  ASSUME NEW S, NEW q \in Seq(S), NEW f \in S
  PROVE  /\ Append(q, f) \in Seq(S)
         /\ Len(q) \in Nat /\ DOMAIN q = 1..Len(q)
         /\ DOMAIN Append(q, f) = 1..(Len(q) + 1)
         /\ \A i \in 1..Len(q) : Append(q, f)[i] = q[i]
         /\ Append(q, f)[Len(q) + 1] = f
BY AppendProperties, LenProperties

LEMMA Dequeue ==
  ASSUME NEW S, NEW q \in Seq(S), q # <<>>
  PROVE  /\ Tail(q) \in Seq(S)
         /\ Len(q) \in Nat /\ DOMAIN q = 1..Len(q) /\ 1 \in DOMAIN q
         /\ Head(q) = q[1] /\ Head(q) \in S
         /\ DOMAIN Tail(q) = 1..(Len(q) - 1)
         /\ \A i \in DOMAIN Tail(q) : Tail(q)[i] = q[i + 1] /\ i + 1 \in DOMAIN q
BY HeadTailProperties, LenProperties, EmptySeq

LEMMA Carried ==
  ASSUME NEW T, NEW q \in Seq(T), NEW S
  PROVE  /\ \A f \in T : Carries(Append(q, f), S) <=> Carries(q, S) \/ f \in S
         /\ q # <<>> => (Carries(q, S) <=> Head(q) \in S \/ Carries(Tail(q), S))
         /\ ~Carries(<<>>, S)
<1>1. ASSUME NEW f \in T PROVE Carries(Append(q, f), S) <=> Carries(q, S) \/ f \in S
  <2>1. /\ Len(q) \in Nat /\ DOMAIN q = 1..Len(q)
        /\ DOMAIN Append(q, f) = 1..(Len(q) + 1)
        /\ \A i \in 1..Len(q) : Append(q, f)[i] = q[i]
        /\ Append(q, f)[Len(q) + 1] = f
    BY Enqueue
  <2>2. QED BY <2>1 DEF Carries
<1>2. ASSUME q # <<>> PROVE Carries(q, S) <=> Head(q) \in S \/ Carries(Tail(q), S)
  <2>1. /\ Len(q) \in Nat /\ DOMAIN q = 1..Len(q) /\ 1 \in DOMAIN q /\ Head(q) = q[1]
        /\ DOMAIN Tail(q) = 1..(Len(q) - 1)
        /\ \A i \in DOMAIN Tail(q) : Tail(q)[i] = q[i + 1] /\ i + 1 \in DOMAIN q
    BY <1>2, Dequeue
  <2>2. \A i \in DOMAIN q : i = 1 \/ (i - 1 \in DOMAIN Tail(q) /\ Tail(q)[i - 1] = q[i])
    BY <2>1
  <2>3. QED BY <2>1, <2>2, Zenon DEF Carries
<1>3. QED BY <1>1, <1>2 DEF Carries

LEMMA OnceInQueue ==
  ASSUME NEW T, NEW q \in Seq(T), NEW S, Once(q, S)
  PROVE  /\ \A f \in T : f \notin S \/ ~Carries(q, S) => Once(Append(q, f), S)
         /\ q # <<>> => Once(Tail(q), S)
         /\ q # <<>> /\ Head(q) \in S => ~Carries(Tail(q), S)
<1>1. ASSUME NEW f \in T, f \notin S \/ ~Carries(q, S) PROVE Once(Append(q, f), S)
  <2>1. /\ Len(q) \in Nat /\ DOMAIN q = 1..Len(q)
        /\ DOMAIN Append(q, f) = 1..(Len(q) + 1)
        /\ \A i \in 1..Len(q) : Append(q, f)[i] = q[i]
        /\ Append(q, f)[Len(q) + 1] = f
    BY Enqueue
  <2>2. QED BY <1>1, <2>1 DEF Once, Carries
<1>2. ASSUME q # <<>> PROVE Once(Tail(q), S) /\ (Head(q) \in S => ~Carries(Tail(q), S))
  <2>1. /\ Len(q) \in Nat /\ DOMAIN q = 1..Len(q) /\ 1 \in DOMAIN q /\ Head(q) = q[1]
        /\ DOMAIN Tail(q) = 1..(Len(q) - 1)
        /\ \A i \in DOMAIN Tail(q) : Tail(q)[i] = q[i + 1] /\ i + 1 \in DOMAIN q
    BY <1>2, Dequeue
  <2>2. \A i, j \in DOMAIN Tail(q) : i + 1 = j + 1 => i = j
    BY <2>1
  <2>3. Once(Tail(q), S)
    BY <2>1, <2>2 DEF Once
  <2>4. \A i \in DOMAIN Tail(q) : i + 1 # 1
    BY <2>1
  <2>5. Head(q) \in S => ~Carries(Tail(q), S)
    BY <2>1, <2>4 DEF Once, Carries
  <2>6. QED BY <2>3, <2>5
<1>3. QED BY <1>1, <1>2

LEMMA FewerInQueue ==
  ASSUME NEW T, NEW q \in Seq(T), NEW S
  PROVE  /\ Fewer(q, q, S) /\ Fewer(<<>>, q, S)
         /\ q # <<>> => Fewer(Tail(q), q, S)
         /\ \A f \in T : f \notin S => Fewer(Append(q, f), q, S)
BY Carried, OnceInQueue DEF Fewer, Once

LEMMA FrameTypes ==
  /\ \A t \in Turns : /\ \A type \in EndTypes \cup AliveTypes : Frame(type, t) \in Frames
                      /\ Frame("chat_request", t) \in Frames
                      /\ Frame("chat_stop", t) \in Frames
                      /\ Frame("interaction_respond", t) \in Frames
                      /\ Frame("chat_error", t) \in Frames
                      /\ Frame("chat_tool_notice", t) \in Frames
                      /\ \A i \in Pieces : Item(t, i) \in Frames
                      /\ \A ok \in BOOLEAN : Receipt(t, ok) \in Frames
  /\ \A x \in Places : Question(x) \in Frames /\ Snapshot(x) \in Frames
  /\ \A S \in SUBSET Places : Bridges(S) \in Frames
BY DEF Frames, Frame, Item, Receipt, Question, Snapshot, Bridges, EndTypes, AliveTypes

LEMMA FrameFields ==
  ASSUME NEW f \in Frames
  PROVE  /\ f.type \in EndTypes \cup {"chat_request", "chat_stop", "interaction_respond",
                                      "interaction_receipt"} => f.id \in Turns
         /\ f.type = "item" => f.id \in Turns /\ f.seq \in Pieces
         /\ f.type = "interaction_receipt" => f.accepted \in BOOLEAN
         /\ f.type \in {"interaction_event", "interaction_snapshot"} => f.place \in Places
         /\ f.type = "bridges" => f.live \in SUBSET Places
BY DEF Frames, EndTypes, AliveTypes

LEMMA PostFields ==
  /\ \A m \in Posts :
       /\ m.type \in {"chat_request", "interaction_respond"} =>
            m.id \in Turns /\ m.place \in Places /\ m \in Requests(m.id)
       /\ m.type = "chat_stop" => m.id \in Turns
       /\ m.type = "interaction_snapshot" => m.place \in Places
  /\ \A t \in Turns :
       /\ \A x \in Places : /\ Post("chat_request", t, x) \in Posts
                            /\ Post("interaction_respond", t, x) \in Posts
                            /\ \A u \in Turns : u # t =>
                                 /\ Post("chat_request", t, x) \notin Requests(u)
                                 /\ Post("interaction_respond", t, x) \notin Requests(u)
       /\ Frame("chat_stop", t) \in Posts
       /\ \A u : Frame("chat_stop", u) \notin Requests(t)
       /\ \A x : Snapshot(x) \notin Requests(t)
  /\ \A x \in Places : Snapshot(x) \in Posts
<1>1. \A m \in Posts : m.type \in {"chat_request", "interaction_respond"} =>
        m.id \in Turns /\ m.place \in Places /\ m = Post(m.type, m.id, m.place)
  BY DEF Posts, Post
<1>2. \A m \in Posts : m.type \in {"chat_request", "interaction_respond"} => m \in Requests(m.id)
  BY <1>1 DEF Requests
<1>3. \A m \in Posts : /\ m.type = "chat_stop" => m.id \in Turns
                       /\ m.type = "interaction_snapshot" => m.place \in Places
  BY DEF Posts
<1>4. \A t \in Turns : \A m \in Requests(t) :
        m.id = t /\ m.type \in {"chat_request", "interaction_respond"}
  BY DEF Requests, Post
<1>5. \A t \in Turns :
        /\ \A x \in Places : Post("chat_request", t, x) \in Posts
                           /\ Post("interaction_respond", t, x) \in Posts
        /\ Frame("chat_stop", t) \in Posts
  BY DEF Posts, Post, Frame
<1>6. /\ \A x : Snapshot(x).type = "interaction_snapshot"
      /\ \A u : Frame("chat_stop", u).type = "chat_stop"
      /\ \A type, t, x : Post(type, t, x).id = t
  BY DEF Snapshot, Frame, Post
<1>7. \A x \in Places : Snapshot(x) \in Posts
  BY DEF Posts, Snapshot
<1>8. \A t, u \in Turns, x \in Places : u # t =>
        Post("chat_request", t, x) \notin Requests(u) /\ Post("interaction_respond", t, x) \notin Requests(u)
  BY <1>4, <1>6
<1>9. \A t \in Turns : /\ \A u : Frame("chat_stop", u) \notin Requests(t)
                       /\ \A x : Snapshot(x) \notin Requests(t)
  BY <1>4, <1>6
<1>10. \A m \in Posts : m.type \in {"chat_request", "interaction_respond"} => m.id \in Turns /\ m.place \in Places
  BY <1>1
<1>11. ASSUME NEW m \in Posts
       PROVE  /\ m.type \in {"chat_request", "interaction_respond"} =>
                   m.id \in Turns /\ m.place \in Places /\ m \in Requests(m.id)
              /\ m.type = "chat_stop" => m.id \in Turns
              /\ m.type = "interaction_snapshot" => m.place \in Places
  BY <1>2, <1>3, <1>10
<1>12. ASSUME NEW t \in Turns
       PROVE  /\ \A x \in Places : /\ Post("chat_request", t, x) \in Posts
                                   /\ Post("interaction_respond", t, x) \in Posts
                                   /\ \A u \in Turns : u # t =>
                                        /\ Post("chat_request", t, x) \notin Requests(u)
                                        /\ Post("interaction_respond", t, x) \notin Requests(u)
              /\ Frame("chat_stop", t) \in Posts
              /\ \A u : Frame("chat_stop", u) \notin Requests(t)
              /\ \A x : Snapshot(x) \notin Requests(t)
  BY <1>5, <1>8, <1>9
<1>13. QED BY <1>7, <1>11, <1>12

\* What a panel is posted when its pinned turns fail.
LEMMA FailuresType ==
  ASSUME FinitelyPinned, NEW n \in Panels
  PROVE  /\ Failures(n) \in Seq(Frames)
         /\ \A i \in DOMAIN Failures(n) : \E t \in Pinned(n) : Failures(n)[i] = Frame("chat_error", t)
<1> DEFINE E == {Frame("chat_error", t) : t \in Pinned(n)}
           f == [t \in Pinned(n) |-> Frame("chat_error", t)]
<1>1. IsFiniteSet(Pinned(n))
  BY TurnsAssumption, FS_Subset DEF FinitelyPinned, Pinned
<1>2. f \in Surjection(Pinned(n), E)
  BY DEF Surjection
<1>3. IsFiniteSet(E)
  BY <1>1, <1>2, FS_Surjection
<1>4. Cardinality(E) \in Nat /\ ExistsBijection(1..Cardinality(E), E)
  BY <1>3, FS_CardinalityType
<1>5. \E g \in [1..Cardinality(E) -> E] : IsInjective(g)
  BY <1>4 DEF ExistsBijection, Bijection, Injection
<1>6. Failures(n) \in [1..Cardinality(E) -> E]
  BY <1>5 DEF Failures, SetToSeq
<1>7. E \subseteq Frames
  BY FrameTypes DEF Pinned
<1> HIDE DEF f
<1>8. Failures(n) \in Seq(E)
  BY <1>4, <1>6, SeqDef
<1>9. Failures(n) \in Seq(Frames)
  BY <1>7, <1>8, SeqMonotonic
<1>10. QED BY <1>4, <1>6, <1>9

LEMMA FailedQueue ==
  ASSUME TypeInv, NEW n \in Panels, NEW S
  PROVE  LET q == toPanel[n] \o Failures(n) \o <<LiveAfter(S)>> IN
         /\ q \in Seq(Frames)
         /\ Len(toPanel[n]) \in Nat /\ DOMAIN toPanel[n] = 1..Len(toPanel[n])
         /\ Len(Failures(n)) \in Nat /\ DOMAIN q = 1..(Len(toPanel[n]) + Len(Failures(n)) + 1)
         /\ \A i \in DOMAIN toPanel[n] : q[i] = toPanel[n][i]
         /\ \A i \in DOMAIN q \ DOMAIN toPanel[n] :
              q[i] = LiveAfter(S) \/ \E t \in Pinned(n) : q[i] = Frame("chat_error", t)
         /\ q[Len(q)] = LiveAfter(S) /\ Len(q) \in DOMAIN q
<1> DEFINE a == toPanel[n]
           b == Failures(n)
           c == <<LiveAfter(S)>>
           q == a \o b \o c
<1>1. a \in Seq(Frames) /\ b \in Seq(Frames)
  BY FailuresType DEF TypeInv, TypeOK, Queues
<1>2. c \in Seq(Frames) /\ Len(c) = 1 /\ c[1] = LiveAfter(S)
  <2>1. LiveAfter(S) \in Frames
    <3>1. {serves[p] : p \in open \ S} \in SUBSET Places
      BY DEF TypeInv, TypeOK, SocketsInOrder
    <3>2. QED BY <3>1, FrameTypes DEF LiveAfter
  <2>2. QED BY <2>1
<1>3. \A i \in 1..Len(b) : \E t \in Pinned(n) : b[i] = Frame("chat_error", t)
  BY <1>1, FailuresType, LenProperties DEF TypeInv
<1> HIDE DEF a, b, c
<1>4. /\ a \o b \in Seq(Frames) /\ Len(a) \in Nat /\ Len(b) \in Nat
      /\ DOMAIN a = 1..Len(a)
      /\ Len(a \o b) = Len(a) + Len(b)
      /\ \A i \in 1..(Len(a) + Len(b)) :
           (a \o b)[i] = IF i <= Len(a) THEN a[i] ELSE b[i - Len(a)]
  BY <1>1, ConcatProperties, LenProperties
<1>5. /\ q \in Seq(Frames) /\ Len(q) = Len(a) + Len(b) + 1
      /\ DOMAIN q = 1..Len(q)
      /\ \A i \in 1..Len(q) : q[i] = IF i <= Len(a \o b) THEN (a \o b)[i] ELSE c[i - Len(a \o b)]
  <2>1. a \o b \in Seq(Frames) /\ c \in Seq(Frames)
    BY <1>2, <1>4
  <2>2. /\ q \in Seq(Frames) /\ Len(q) = Len(a \o b) + Len(c)
        /\ \A i \in 1..(Len(a \o b) + Len(c)) :
             q[i] = IF i <= Len(a \o b) THEN (a \o b)[i] ELSE c[i - Len(a \o b)]
    BY <2>1, ConcatProperties
  <2>3. DOMAIN q = 1..Len(q)
    BY <2>2, LenProperties
  <2>4. QED BY <1>2, <1>4, <2>2, <2>3
<1> HIDE DEF q
<1>6. \A i \in DOMAIN q : q[i] = IF i <= Len(a) THEN a[i]
                                 ELSE IF i <= Len(a) + Len(b) THEN b[i - Len(a)]
                                 ELSE LiveAfter(S)
  BY <1>2, <1>4, <1>5
<1>7. \A i \in DOMAIN q \ DOMAIN a :
        q[i] = LiveAfter(S) \/ \E t \in Pinned(n) : q[i] = Frame("chat_error", t)
  <2> SUFFICES ASSUME NEW i \in DOMAIN q \ DOMAIN a
               PROVE  q[i] = LiveAfter(S) \/ \E t \in Pinned(n) : q[i] = Frame("chat_error", t)
    OBVIOUS
  <2>1. CASE i <= Len(a) + Len(b)
    <3>1. i - Len(a) \in 1..Len(b) /\ q[i] = b[i - Len(a)]
      BY <2>1, <1>4, <1>5, <1>6
    <3>2. QED BY <3>1, <1>3
  <2>2. CASE ~(i <= Len(a) + Len(b))
    BY <2>2, <1>4, <1>5, <1>6
  <2>3. QED BY <2>1, <2>2
<1>8. QED BY <1>4, <1>5, <1>6, <1>7 DEF a, b, c, q

-----------------------------------------------------------------------------
(* Types *)

LEMMA InitTypes == Init => TypeInv
<1> SUFFICES ASSUME Init PROVE TypeInv OBVIOUS
<1>0. <<>> \in Seq(Posts)
  OBVIOUS
<1>1. <<>> \in Seq(Frames) /\ <<>> \in Seq(Pieces)
  OBVIOUS
<1>2. TypeOK
  BY <1>1, <1>0, TurnsAssumption DEF Init, Idle, TypeOK, Queues, Statuses
<1>3. {t \in Turns : turnToPort[t] # NoPanel} = {}
  BY DEF Init, Idle
<1>4. FinitelyPinned
  BY <1>3, FS_EmptySet DEF FinitelyPinned
<1>5. SocketsInOrder
  BY DEF Init, Idle, SocketsInOrder
<1>6. QED BY <1>2, <1>4, <1>5 DEF TypeInv

\* What Send and Answers append, and what leaves a queue, is a frame.
LEMMA SendType ==
  ASSUME TypeInv, NEW p \in Ports, NEW f \in Frames, Send(p, f)
  PROVE  Queues(toWorker', Ports)
<1>1. toWorker \in [Ports -> Seq(Frames)]
  BY DEF TypeInv, TypeOK, Queues
<1>2. Append(toWorker[p], f) \in Seq(Frames)
  BY <1>1, Enqueue
<1>3. QED BY <1>1, <1>2 DEF Queues, Send

LEMMA AnswersType ==
  ASSUME TypeInv, NEW p \in Ports, NEW f \in Frames, Answers(p, f)
  PROVE  Queues(fromWorker', Ports)
<1>1. fromWorker \in [Ports -> Seq(Frames)]
  BY DEF TypeInv, TypeOK, Queues
<1>2. Append(fromWorker[p], f) \in Seq(Frames)
  BY <1>1, Enqueue
<1>3. QED BY <1>1, <1>2 DEF Queues, Answers

LEMMA PostType ==
  ASSUME TypeInv, NEW n \in Panels, NEW m \in Posts, PanelPosts(n, m)
  PROVE  posted' \in [Panels -> Seq(Posts)]
<1>1. posted \in [Panels -> Seq(Posts)]
  BY DEF TypeInv, TypeOK
<1>2. Append(posted[n], m) \in Seq(Posts)
  BY <1>1, Enqueue
<1>3. QED BY <1>1, <1>2 DEF PanelPosts

LEMMA ArriveType ==
  ASSUME TypeInv, NEW n \in Panels, NEW type, Arrives(n, type)
  PROVE  /\ posted' \in [Panels -> Seq(Posts)]
         /\ Head(posted[n]) \in Posts /\ Head(posted[n]).type = type
         /\ open' = open /\ serves' = serves /\ chatPanels' = chatPanels
         /\ fromWorker' = fromWorker /\ working' = working /\ said' = said
         /\ stranded' = stranded /\ panels' = panels
<1>1. posted[n] \in Seq(Posts) /\ posted[n] # <<>>
  BY DEF TypeInv, TypeOK, Arrives
<1>2. Head(posted[n]) \in Posts /\ Tail(posted[n]) \in Seq(Posts)
  BY <1>1, Dequeue
<1>3. QED BY <1>2 DEF TypeInv, TypeOK, Arrives, sockets

\* A panel's connection and its place.
LEMMA PanelsAtPlaces == TypeInv => \A n \in chatPanels : n \in Panels /\ at[n] \in Places
BY DEF TypeInv, TypeOK

\* Unpinning turns, or pinning one, keeps the pinned ones finitely many.
LEMMA UnpinnedType ==
  ASSUME TypeInv, NEW S, Unpinned(S)
  PROVE  /\ turnToPort' \in [Turns -> Panels \cup {NoPanel}]
         /\ turnToBridgePort' \in [Turns -> Ports \cup {NoPort}]
         /\ FinitelyPinned'
<1>1. {t \in Turns : turnToPort'[t] # NoPanel} \subseteq {t \in Turns : turnToPort[t] # NoPanel}
  BY DEF Unpinned
<1>2. FinitelyPinned'
  BY <1>1, FS_Subset DEF FinitelyPinned, TypeInv
<1>3. QED BY <1>2 DEF TypeInv, TypeOK, Unpinned

LEMMA PinType ==
  ASSUME TypeInv, NEW t \in Turns, NEW n \in Panels, NEW p \in Ports, Pin(t, n, p)
  PROVE  /\ turnToPort' \in [Turns -> Panels \cup {NoPanel}]
         /\ turnToBridgePort' \in [Turns -> Ports \cup {NoPort}]
         /\ FinitelyPinned'
<1>1. {u \in Turns : turnToPort'[u] # NoPanel}
        \subseteq {u \in Turns : turnToPort[u] # NoPanel} \cup {t}
  BY DEF Pin, TypeInv, TypeOK
<1>2. FinitelyPinned'
  BY <1>1, FS_Subset, FS_AddElement DEF FinitelyPinned, TypeInv
<1>3. QED BY <1>2 DEF TypeInv, TypeOK, Pin

\* Sockets S close.
LEMMA LostType ==
  ASSUME TypeInv, NEW S, Lost(S), UNCHANGED serves
  PROVE  /\ open' \subseteq Ports /\ SocketsInOrder'
         /\ Queues(toWorker', Ports) /\ Queues(fromWorker', Ports)
         /\ sentOver' \in [Ports -> SUBSET Turns]
<1>1. <<>> \in Seq(Frames)
  OBVIOUS
<1>2. SocketsInOrder'
  BY DEF TypeInv, TypeOK, SocketsInOrder, Lost
<1>3. QED BY <1>1, <1>2 DEF TypeInv, TypeOK, Queues, Lost

LEMMA FailType ==
  ASSUME TypeInv, NEW S, FailActiveTurns(S)
  PROVE  /\ Queues(toPanel', Panels)
         /\ turnToPort' \in [Turns -> Panels \cup {NoPanel}]
         /\ turnToBridgePort' \in [Turns -> Ports \cup {NoPort}]
         /\ FinitelyPinned'
<1>1. ASSUME NEW n \in Panels PROVE toPanel'[n] \in Seq(Frames)
  BY FailedQueue DEF FailActiveTurns, TypeInv, TypeOK, Queues
<1>2. toPanel' = [n \in Panels |-> toPanel'[n]]
  BY DEF FailActiveTurns
<1>3. Queues(toPanel', Panels)
  BY <1>1, <1>2 DEF Queues
<1>4. QED BY <1>3, UnpinnedType DEF FailActiveTurns

\* The bridges that are left go to every connected panel.
LEMMA LiveType ==
  ASSUME TypeInv, NEW S
  PROVE  LiveAfter(S) \in Frames
<1>1. {serves[p] : p \in open \ S} \in SUBSET Places
  BY DEF TypeInv, TypeOK, SocketsInOrder
<1>2. QED BY <1>1, FrameTypes DEF LiveAfter

LEMMA BroadcastType ==
  ASSUME TypeInv, NEW f \in Frames, Broadcast(f)
  PROVE  Queues(toPanel', Panels)
<1>1. \A n \in Panels : toPanel[n] \in Seq(Frames) /\ Append(toPanel[n], f) \in Seq(Frames)
  BY Enqueue DEF TypeInv, TypeOK, Queues
<1>2. QED BY <1>1 DEF Broadcast, Queues

LEMMA OverType ==
  ASSUME TypeInv, NEW n \in Panels, NEW st \in Statuses, Over(n, st)
  PROVE  /\ status' \in [Turns -> Statuses]
         /\ active' \in [Panels -> Turns \cup {NoTurn}]
BY DEF TypeInv, TypeOK, Over

LEMMA BeginsType ==
  ASSUME TypeInv, NEW n \in Panels, NEW t \in Turns, Begins(n, t)
  PROVE  /\ status' \in [Turns -> Statuses]
         /\ active' \in [Panels -> Turns \cup {NoTurn}]
         /\ asker' \in [Turns -> Panels \cup {NoPanel}]
BY DEF TypeInv, TypeOK, Begins, Statuses

\* What a panel shows of a turn, when it accepts a frame.
LEMMA StreamsType ==
  ASSUME TypeInv, NEW n \in Panels, NEW f \in Frames, f.id = active[n], Streams(n, active[n], f)
  PROVE  /\ status' \in [Turns -> Statuses]
         /\ active' \in [Panels -> Turns \cup {NoTurn}]
         /\ watched' \subseteq Turns
         /\ shown' \in [Turns -> Seq(Pieces)]
         /\ \A t \in Turns : \A j \in DOMAIN shown'[t] : shown'[t][j] = 0 <=> j = 1
<1> USE DEF TypeInv, TypeOK
<1>1. CASE f.type = "item" /\ Streams(n, active[n], f)
  <2>1. f.id \in Turns /\ f.seq \in Pieces
    BY <1>1, FrameFields
  <2>2. shown' = IF Accepts(f.id, f.seq) THEN [shown EXCEPT ![f.id] = Append(@, f.seq)] ELSE shown
    BY <1>1 DEF Streams, EndTypes
  <2>3. UNCHANGED <<active, status>> /\ watched' \subseteq Turns
    BY <1>1, <2>1 DEF Streams, EndTypes
  <2> DEFINE q == shown[f.id]
  <2>4. q \in Seq(Pieces)
    BY <2>1
  <2>5. /\ Append(q, f.seq) \in Seq(Pieces)
        /\ Len(q) \in Nat /\ DOMAIN q = 1..Len(q)
        /\ DOMAIN Append(q, f.seq) = 1..(Len(q) + 1)
        /\ \A i \in 1..Len(q) : Append(q, f.seq)[i] = q[i]
        /\ Append(q, f.seq)[Len(q) + 1] = f.seq
    BY <2>1, <2>4, Enqueue
  <2>6. q = <<>> <=> Len(q) = 0
    BY <2>4, EmptySeq
  <2>7. Accepts(f.id, f.seq) =>
          \A j \in DOMAIN Append(q, f.seq) : Append(q, f.seq)[j] = 0 <=> j = 1
    <3> SUFFICES ASSUME Accepts(f.id, f.seq), NEW j \in 1..(Len(q) + 1)
                 PROVE  Append(q, f.seq)[j] = 0 <=> j = 1
      BY <2>5
    <3> HIDE DEF TypeInv, TypeOK
    <3>1. CASE j = Len(q) + 1
      BY <3>1, <2>5, <2>6 DEF Accepts
    <3>2. CASE j # Len(q) + 1
      <4>1. j \in DOMAIN q /\ Append(q, f.seq)[j] = q[j]
        BY <3>2, <2>5
      <4>2. QED BY <4>1, <2>1 DEF TypeInv, TypeOK
    <3>3. QED BY <3>1, <3>2
  <2>8. QED BY <2>1, <2>2, <2>3, <2>5, <2>7
<1>2. CASE f.type # "item" /\ Streams(n, active[n], f)
  <2>1. UNCHANGED shown
    BY <1>2 DEF Streams
  <2>2. watched' \subseteq Turns
    <3>1. CASE f.type = "chat_keepalive"
      BY <3>1, <1>2 DEF Streams, TurnsOf, Frames, EndTypes, AliveTypes
    <3>2. CASE f.type # "chat_keepalive"
      BY <3>2, <1>2 DEF Streams
    <3>3. QED BY <3>1, <3>2
  <2>3. status' \in [Turns -> Statuses] /\ active' \in [Panels -> Turns \cup {NoTurn}]
    BY <1>2, OverType DEF Streams, Statuses
  <2>4. QED BY <2>1, <2>2, <2>3
<1>3. QED BY <1>1, <1>2

LEMMA StepTypes == TypeInv /\ [Next]_vars => TypeInv'
<1> SUFFICES ASSUME TypeInv, [Next]_vars PROVE TypeInv' OBVIOUS
<1> USE DEF sockets, tables, workers, questions, panels
<1>1. ASSUME NEW p \in Ports, NEW x \in Places, SocketOpens(p, x) PROVE TypeInv'
  <2>1. SocketsInOrder'
    BY <1>1, TurnsAssumption DEF SocketOpens, SocketsInOrder, TypeInv, TypeOK
  <2>2. {serves[q] : q \in open} \cup {x} \in SUBSET Places
    BY DEF TypeInv, TypeOK, SocketsInOrder
  <2>3. Queues(toPanel', Panels)
    BY <1>1, <2>2, FrameTypes, BroadcastType DEF SocketOpens
  <2>4. QED BY <1>1, <2>1, <2>3 DEF SocketOpens, TypeInv, TypeOK, FinitelyPinned, Queues
<1>2. ASSUME NEW p \in Ports, NEW dies \in BOOLEAN, SocketCloses(p, dies) PROVE TypeInv'
  <2>1. /\ open' \subseteq Ports /\ SocketsInOrder'
        /\ Queues(toWorker', Ports) /\ Queues(fromWorker', Ports)
        /\ sentOver' \in [Ports -> SUBSET Turns]
    BY <1>2, LostType DEF SocketCloses
  <2>2. /\ Queues(toPanel', Panels)
        /\ turnToPort' \in [Turns -> Panels \cup {NoPanel}]
        /\ turnToBridgePort' \in [Turns -> Ports \cup {NoPort}]
        /\ FinitelyPinned'
    <3>1. CASE open = {p}
      BY <3>1, <1>2, FailType DEF SocketCloses
    <3>2. CASE open # {p}
      <4>2. Queues(toPanel', Panels)
        BY <3>2, <1>2, LiveType, BroadcastType DEF SocketCloses
      <4>3. QED BY <3>2, <4>2, <1>2 DEF SocketCloses, TypeInv, TypeOK, FinitelyPinned
    <3>3. QED BY <3>1, <3>2
  <2>3. working' \in [Ports -> SUBSET Turns]
    BY <1>2 DEF SocketCloses, TypeInv, TypeOK
  <2>4. stranded' \in [Ports -> SUBSET Turns]
    <3>1. stranded[p] \cup {t \in Turns : turnToBridgePort[t] = p} \in SUBSET Turns
      BY DEF TypeInv, TypeOK
    <3>2. QED BY <1>2, <3>1 DEF SocketCloses, TypeInv, TypeOK
  <2>5. QED BY <1>2, <2>1, <2>2, <2>3, <2>4 DEF SocketCloses, TypeInv, TypeOK
<1>3. CASE Heartbeat
  <2>1. /\ open' \subseteq Ports /\ SocketsInOrder'
        /\ Queues(toWorker', Ports) /\ Queues(fromWorker', Ports)
        /\ sentOver' \in [Ports -> SUBSET Turns]
    BY <1>3, LostType DEF Heartbeat
  <2>2. /\ Queues(toPanel', Panels)
        /\ turnToPort' \in [Turns -> Panels \cup {NoPanel}]
        /\ turnToBridgePort' \in [Turns -> Ports \cup {NoPort}]
        /\ FinitelyPinned'
    BY <1>3, FailType DEF Heartbeat
  <2>3. QED BY <1>3, <2>1, <2>2 DEF Heartbeat, TypeInv, TypeOK
<1>4. CASE Restart
  <2>1. /\ open' \subseteq Ports /\ SocketsInOrder'
        /\ Queues(toWorker', Ports) /\ Queues(fromWorker', Ports)
        /\ sentOver' \in [Ports -> SUBSET Turns]
    BY <1>4, LostType DEF Restart
  <2>2. {t \in Turns : turnToPort'[t] # NoPanel} = {}
    BY <1>4 DEF Restart
  <2>3. FinitelyPinned'
    BY <2>2, FS_EmptySet DEF FinitelyPinned
  <2>4. <<>> \in Seq(Frames) /\ <<>> \in Seq(Posts)
    OBVIOUS
  <2>5. QED BY <1>4, <2>1, <2>3, <2>4 DEF Restart, TypeInv, TypeOK, Queues
<1>5. ASSUME NEW p \in Ports, ServiceWorkerReceives(p) PROVE TypeInv'
  <2>1. PICK S : Unpinned(S)
    BY <1>5 DEF ServiceWorkerReceives
  <2>2. fromWorker[p] \in Seq(Frames) /\ fromWorker[p] # <<>>
    BY <1>5 DEF ServiceWorkerReceives, TypeInv, TypeOK, Queues
  <2>3. Head(fromWorker[p]) \in Frames /\ Tail(fromWorker[p]) \in Seq(Frames)
    BY <2>2, Dequeue
  <2>4. \A n \in Panels : Append(toPanel[n], Head(fromWorker[p])) \in Seq(Frames)
    BY <2>3, Enqueue DEF TypeInv, TypeOK, Queues
  <2>5. Queues(toPanel', Panels)
    BY <2>4, <1>5 DEF ServiceWorkerReceives, TypeInv, TypeOK, Queues
  <2>6. Queues(fromWorker', Ports)
    BY <2>3, <1>5 DEF ServiceWorkerReceives, TypeInv, TypeOK, Queues
  <2>7. turnRoutedAt' \subseteq Turns /\ answerTurns' \subseteq Turns
    BY <1>5 DEF ServiceWorkerReceives, TypeInv, TypeOK
  <2>8. SocketsInOrder'
    BY <1>5 DEF ServiceWorkerReceives, TypeInv, TypeOK, SocketsInOrder
  <2>9. QED BY <1>5, <2>1, <2>5, <2>6, <2>7, <2>8, UnpinnedType
              DEF ServiceWorkerReceives, TypeInv, TypeOK
<1>6. ASSUME NEW t \in Turns, ToolEnds(t) PROVE TypeInv'
  <2>1. turnToPort[t] \in Panels
    BY <1>6 DEF ToolEnds, TypeInv, TypeOK
  <2>2. Append(toPanel[turnToPort[t]], Frame("chat_tool_notice", t)) \in Seq(Frames)
    BY <2>1, FrameTypes, Enqueue DEF TypeInv, TypeOK, Queues
  <2>3. Queues(toPanel', Panels)
    BY <1>6, <2>2 DEF ToolEnds, TypeInv, TypeOK, Queues
  <2>4. QED BY <1>6, <2>3 DEF ToolEnds, TypeInv, TypeOK, FinitelyPinned, SocketsInOrder
<1>7. ASSUME NEW n \in Panels, NEW t \in Turns, UserSends(n, t) PROVE TypeInv'
  <2>1. /\ status' \in [Turns -> Statuses] /\ active' \in [Panels -> Turns \cup {NoTurn}]
        /\ asker' \in [Turns -> Panels \cup {NoPanel}]
    BY <1>7, BeginsType DEF UserSends
  <2>2. watched' \subseteq Turns
    BY <1>7 DEF UserSends, TypeInv, TypeOK, TurnsOf
  <2>3. posted' \in [Panels -> Seq(Posts)]
    BY <1>7, PostType, PostFields, PanelsAtPlaces DEF UserSends, PanelPosts
  <2>4. QED BY <1>7, <2>1, <2>2, <2>3
              DEF UserSends, TypeInv, TypeOK, FinitelyPinned, SocketsInOrder
<1>8. ASSUME NEW n \in Panels, NEW t \in Turns, UserAnswers(n, t) PROVE TypeInv'
  <2>1. /\ status' \in [Turns -> Statuses] /\ active' \in [Panels -> Turns \cup {NoTurn}]
        /\ asker' \in [Turns -> Panels \cup {NoPanel}]
    BY <1>8, BeginsType DEF UserAnswers
  <2>2. pending' \in [Panels -> SUBSET Places] /\ resumed' \subseteq Turns
    BY <1>8 DEF UserAnswers, TypeInv, TypeOK
  <2>3. posted' \in [Panels -> Seq(Posts)]
    BY <1>8, PostType, PostFields, PanelsAtPlaces DEF UserAnswers, PanelPosts
  <2>4. QED BY <1>8, <2>1, <2>2, <2>3
              DEF UserAnswers, TypeInv, TypeOK, FinitelyPinned, SocketsInOrder
<1>9. ASSUME NEW n \in Panels, PanelMounts(n) \/ AsksAgain(n) PROVE TypeInv'
  <2>1. posted' \in [Panels -> Seq(Posts)]
    BY <1>9, PostType, PostFields, PanelsAtPlaces DEF PanelMounts, AsksAgain, PanelPosts
  <2>2. mounted' \subseteq Panels
    BY <1>9 DEF PanelMounts, AsksAgain, TypeInv, TypeOK
  <2>3. QED BY <1>9, <2>1, <2>2
              DEF PanelMounts, AsksAgain, TypeInv, TypeOK, FinitelyPinned, SocketsInOrder
<1>10. ASSUME NEW n \in Panels, UserStops(n) PROVE TypeInv'
  <2>1. active[n] \in Turns
    BY <1>10 DEF UserStops, TypeInv, TypeOK
  <2>2. /\ status' \in [Turns -> Statuses] /\ active' \in [Panels -> Turns \cup {NoTurn}]
    BY <1>10, OverType DEF UserStops, Statuses
  <2>3. posted' \in [Panels -> Seq(Posts)]
    BY <1>10, <2>1, PostType, PostFields DEF UserStops
  <2>4. QED BY <1>10, <2>2, <2>3 DEF UserStops, TypeInv, TypeOK, FinitelyPinned, SocketsInOrder
<1>11. ASSUME NEW n \in Panels, RequestArrives(n) PROVE TypeInv'
  <2> DEFINE t == Head(posted[n]).id
             x == Head(posted[n]).place
  <2>1. /\ posted' \in [Panels -> Seq(Posts)] /\ t \in Turns /\ x \in Places
        /\ open' = open /\ serves' = serves /\ chatPanels' = chatPanels
        /\ fromWorker' = fromWorker /\ working' = working /\ said' = said
        /\ stranded' = stranded /\ panels' = panels
    BY <1>11, ArriveType, PostFields DEF RequestArrives
  <2> HIDE DEF t, x
  <2>2. ASSUME NEW p \in RoutesOf(x),
               /\ Pin(t, n, p)
               /\ turnRoutedAt' = turnRoutedAt \cup {t}
               /\ Send(p, Frame("chat_request", t))
               /\ sentOver' = [sentOver EXCEPT ![p] = @ \cup {t}]
               /\ UNCHANGED toPanel
        PROVE  TypeInv'
    <3>1. p \in Ports /\ p \in open
      BY DEF RoutesOf, TypeInv, TypeOK
    <3>2. Queues(toWorker', Ports)
      BY <2>1, <2>2, <3>1, FrameTypes, SendType
    <3>3. SocketsInOrder'
      BY <2>1, <2>2, <3>1 DEF Send, SocketsInOrder, TypeInv, TypeOK, Queues
    <3>4. QED BY <1>11, <2>1, <2>2, <3>1, <3>2, <3>3, PinType
                DEF RequestArrives, TypeInv, TypeOK, Queues
  <2>3. CASE /\ toPanel' = [toPanel EXCEPT ![n] = Append(@, Frame("chat_error", t))]
             /\ UNCHANGED <<turnToPort, turnToBridgePort, turnRoutedAt, toWorker, sentOver>>
    <3>1. Append(toPanel[n], Frame("chat_error", t)) \in Seq(Frames)
      BY <2>1, FrameTypes, Enqueue DEF TypeInv, TypeOK, Queues
    <3>2. Queues(toPanel', Panels)
      BY <2>3, <3>1 DEF TypeInv, TypeOK, Queues
    <3>3. QED BY <1>11, <2>1, <2>3, <3>2
                DEF RequestArrives, TypeInv, TypeOK, FinitelyPinned, SocketsInOrder
  <2>4. QED BY <1>11, <2>2, <2>3 DEF RequestArrives, t, x
<1>12. ASSUME NEW n \in Panels, AnswerArrives(n) PROVE TypeInv'
  <2> DEFINE t == Head(posted[n]).id
             x == Head(posted[n]).place
  <2>1. /\ posted' \in [Panels -> Seq(Posts)] /\ t \in Turns /\ x \in Places
        /\ open' = open /\ serves' = serves /\ chatPanels' = chatPanels
        /\ fromWorker' = fromWorker /\ working' = working /\ said' = said
        /\ stranded' = stranded /\ panels' = panels
    BY <1>12, ArriveType, PostFields DEF AnswerArrives
  <2> HIDE DEF t, x
  <2>2. ASSUME NEW p \in RoutesOf(x),
               /\ Pin(t, n, p)
               /\ answerTurns' = answerTurns \cup {t}
               /\ Send(p, Frame("interaction_respond", t))
               /\ sentOver' = [sentOver EXCEPT ![p] = @ \cup {t}]
        PROVE  TypeInv'
    <3>1. p \in Ports /\ p \in open
      BY DEF RoutesOf, TypeInv, TypeOK
    <3>2. Queues(toWorker', Ports)
      BY <2>1, <2>2, <3>1, FrameTypes, SendType
    <3>3. SocketsInOrder'
      BY <2>1, <2>2, <3>1 DEF Send, SocketsInOrder, TypeInv, TypeOK, Queues
    <3>4. QED BY <1>12, <2>1, <2>2, <3>1, <3>2, <3>3, PinType
                DEF AnswerArrives, TypeInv, TypeOK, Queues
  <2>3. CASE UNCHANGED <<turnToPort, turnToBridgePort, answerTurns, toWorker, sentOver>>
    BY <1>12, <2>1, <2>3 DEF AnswerArrives, TypeInv, TypeOK, FinitelyPinned, SocketsInOrder
  <2>4. QED BY <1>12, <2>2, <2>3 DEF AnswerArrives, t, x
<1>13. ASSUME NEW n \in Panels, SnapshotArrives(n) PROVE TypeInv'
  <2> DEFINE x == Head(posted[n]).place
  <2>1. /\ posted' \in [Panels -> Seq(Posts)] /\ x \in Places
        /\ open' = open /\ serves' = serves /\ chatPanels' = chatPanels
        /\ fromWorker' = fromWorker /\ working' = working /\ said' = said
        /\ stranded' = stranded /\ panels' = panels
    BY <1>13, ArriveType, PostFields DEF SnapshotArrives
  <2> HIDE DEF x
  <2>2. ASSUME NEW p \in RoutesOf(x),
               interactionPanels' = [interactionPanels EXCEPT ![n] = p], Send(p, Snapshot(x))
        PROVE  TypeInv'
    <3>1. p \in Ports /\ p \in open
      BY DEF RoutesOf, TypeInv, TypeOK
    <3>2. Queues(toWorker', Ports)
      BY <2>1, <2>2, <3>1, FrameTypes, SendType
    <3>3. SocketsInOrder'
      BY <1>13, <2>1, <2>2, <3>1 DEF SnapshotArrives, Send, SocketsInOrder, TypeInv, TypeOK, Queues
    <3>4. QED BY <1>13, <2>1, <2>2, <3>1, <3>2, <3>3
                DEF SnapshotArrives, TypeInv, TypeOK, FinitelyPinned
  <2>3. CASE UNCHANGED <<interactionPanels, toWorker>>
    BY <1>13, <2>1, <2>3 DEF SnapshotArrives, TypeInv, TypeOK, FinitelyPinned, SocketsInOrder
  <2>4. QED BY <1>13, <2>2, <2>3 DEF SnapshotArrives, x
<1>14. ASSUME NEW n \in Panels, StopArrives(n) PROVE TypeInv'
  <2> DEFINE t == Head(posted[n]).id
  <2>1. /\ posted' \in [Panels -> Seq(Posts)] /\ t \in Turns
        /\ open' = open /\ serves' = serves /\ chatPanels' = chatPanels
        /\ fromWorker' = fromWorker /\ working' = working /\ said' = said
        /\ stranded' = stranded /\ panels' = panels
    BY <1>14, ArriveType, PostFields DEF StopArrives
  <2> HIDE DEF t
  <2>2. Queues(toWorker', Ports) /\ SocketsInOrder'
    <3>1. CASE UNCHANGED toWorker
      BY <1>14, <2>1, <3>1 DEF StopArrives, TypeInv, TypeOK, SocketsInOrder
    <3>2. ASSUME NEW p \in StopTarget(n, t), Send(p, Frame("chat_stop", t))
          PROVE  Queues(toWorker', Ports) /\ SocketsInOrder'
      <4>1. p \in Ports /\ p \in open
        BY DEF StopTarget, TypeInv, TypeOK
      <4>2. Queues(toWorker', Ports)
        BY <2>1, <3>2, <4>1, FrameTypes, SendType
      <4>3. SocketsInOrder'
        BY <1>14, <2>1, <3>2, <4>1 DEF StopArrives, Send, SocketsInOrder, TypeInv, TypeOK, Queues
      <4>4. QED BY <4>2, <4>3
    <3>3. QED BY <1>14, <3>1, <3>2 DEF StopArrives, t
  <2>3. QED BY <1>14, <2>1, <2>2 DEF StopArrives, TypeInv, TypeOK, FinitelyPinned
<1>15. ASSUME NEW n \in Panels, WatchdogFires(n) PROVE TypeInv'
  <2>1. /\ status' \in [Turns -> Statuses] /\ active' \in [Panels -> Turns \cup {NoTurn}]
    BY <1>15, OverType DEF WatchdogFires, Statuses
  <2>2. QED BY <1>15, <2>1 DEF WatchdogFires, TypeInv, TypeOK, FinitelyPinned, SocketsInOrder
<1>16. ASSUME NEW n \in Panels, NEW x \in Places, PanelSwitches(n, x) PROVE TypeInv'
  <2>1. /\ status' \in [Turns -> Statuses] /\ active' \in [Panels -> Turns \cup {NoTurn}]
    BY <1>16, OverType DEF PanelSwitches, Statuses
  <2>2. QED BY <1>16, <2>1, TurnsAssumption
              DEF PanelSwitches, Unmount, TypeInv, TypeOK, FinitelyPinned, SocketsInOrder
<1>17. ASSUME NEW n \in Panels, NEW x \in Places, PanelConnects(n, x) PROVE TypeInv'
  <2>1. <<LiveAfter({})>> \in Seq(Frames)
    BY LiveType
  <2>2. Queues(toPanel', Panels)
    BY <1>17, <2>1 DEF PanelConnects, TypeInv, TypeOK, Queues
  <2>3. QED BY <1>17, <2>2, TurnsAssumption
              DEF PanelConnects, TypeInv, TypeOK, FinitelyPinned, SocketsInOrder
<1>18. ASSUME NEW n \in Panels, PanelCloses(n) PROVE TypeInv'
  <2>1. /\ status' \in [Turns -> Statuses] /\ active' \in [Panels -> Turns \cup {NoTurn}]
    BY <1>18, OverType DEF PanelCloses, Statuses
  <2>2. /\ turnToPort' \in [Turns -> Panels \cup {NoPanel}]
        /\ turnToBridgePort' \in [Turns -> Ports \cup {NoPort}]
        /\ FinitelyPinned'
    BY <1>18, UnpinnedType DEF PanelCloses, Forget
  <2>3. <<>> \in Seq(Frames)
    OBVIOUS
  <2>4. Queues(toPanel', Panels)
    BY <1>18, <2>3 DEF PanelCloses, Queues, TypeInv, TypeOK
  <2>5. turnRoutedAt' \subseteq Turns
    BY <1>18 DEF PanelCloses, Forget, TypeInv, TypeOK
  <2>6. QED BY <1>18, <2>1, <2>2, <2>4, <2>5
              DEF PanelCloses, Unmount, TypeInv, TypeOK, SocketsInOrder
<1>19. ASSUME NEW n \in Panels, PanelReceives(n) PROVE TypeInv'
  <2> DEFINE f == Head(toPanel[n])
  <2>1. toPanel[n] \in Seq(Frames) /\ toPanel[n] # <<>>
    BY <1>19 DEF PanelReceives, TypeInv, TypeOK, Queues
  <2>2. f \in Frames /\ Tail(toPanel[n]) \in Seq(Frames)
    BY <2>1, Dequeue
  <2>3. Queues(toPanel', Panels)
    BY <1>19, <2>2 DEF PanelReceives, Queues, TypeInv, TypeOK
  <2>4. /\ status' \in [Turns -> Statuses]
        /\ active' \in [Panels -> Turns \cup {NoTurn}]
        /\ watched' \subseteq Turns
        /\ shown' \in [Turns -> Seq(Pieces)]
        /\ \A t \in Turns : \A j \in DOMAIN shown'[t] : shown'[t][j] = 0 <=> j = 1
    <3>1. CASE f.id = active[n] /\ Streams(n, active[n], f)
      <4> HIDE DEF f
      <4>1. QED BY <3>1, <2>2, StreamsType
    <3>2. CASE Over(n, "left") /\ UNCHANGED <<watched, shown>>
      BY <3>2, OverType DEF TypeInv, TypeOK, Statuses
    <3>3. CASE UNCHANGED <<active, watched, status, shown>>
      BY <3>3 DEF TypeInv, TypeOK
    <3>4. QED BY <1>19, <3>1, <3>2, <3>3 DEF PanelReceives
  <2>5. /\ pending' \in [Panels -> SUBSET Places] /\ mounted' \subseteq Panels
        /\ posted' \in [Panels -> Seq(Posts)]
    <3>1. CASE Hears(n, f) /\ UNCHANGED mounted /\ f.type \in {"interaction_event", "interaction_snapshot"}
      <4>1. f.place \in Places
        BY <3>1, <2>2, FrameFields
      <4>2. PanelPosts(n, Snapshot(at[n])) => posted' \in [Panels -> Seq(Posts)]
        BY PostType, PostFields, PanelsAtPlaces DEF PanelPosts
      <4>3. /\ pending \in [Panels -> SUBSET Places] /\ mounted \subseteq Panels
            /\ posted \in [Panels -> Seq(Posts)]
            /\ pending[n] \cup {f.place} \in SUBSET Places /\ pending[n] \ {f.place} \in SUBSET Places
        BY <4>1 DEF TypeInv, TypeOK
      <4> HIDE DEF f
      <4>4. \/ PanelPosts(n, Snapshot(at[n])) /\ pending' = pending
            \/ posted' = posted /\ \E S \in SUBSET Places : pending' = [pending EXCEPT ![n] = S]
        BY <3>1, <4>1, <4>3 DEF Hears
      <4>5. QED BY <3>1, <4>2, <4>3, <4>4
    <3>2. CASE Unmount(n) /\ UNCHANGED posted
      BY <3>2 DEF Unmount, TypeInv, TypeOK
    <3>3. CASE UNCHANGED <<posted, pending, mounted>>
      BY <3>3 DEF TypeInv, TypeOK
    <3>4. QED BY <1>19, <3>1, <3>2, <3>3 DEF PanelReceives
  <2>6. seen' \in [Panels -> SUBSET Places]
    <3>1. f.type = "bridges" => f.live \in SUBSET Places
      BY <2>2, FrameFields
    <3>2. QED BY <1>19, <3>1 DEF PanelReceives, TypeInv, TypeOK
  <2>7. QED BY <1>19, <2>3, <2>4, <2>5, <2>6
              DEF PanelReceives, TypeInv, TypeOK, FinitelyPinned, SocketsInOrder
<1>20. ASSUME NEW p \in Ports, WorkerTakes(p) PROVE TypeInv'
  <2> DEFINE f == Head(toWorker[p])
  <2>1. toWorker[p] \in Seq(Frames) /\ toWorker[p] # <<>> /\ p \in open
    BY <1>20 DEF WorkerTakes, TypeInv, TypeOK, Queues
  <2>2. f \in Frames /\ Tail(toWorker[p]) \in Seq(Frames)
    BY <2>1, Dequeue
  <2>3. Queues(toWorker', Ports)
    BY <1>20, <2>2 DEF WorkerTakes, Queues, TypeInv, TypeOK
  <2>4. Queues(fromWorker', Ports) /\ working' \in [Ports -> SUBSET Turns]
    <3>1. CASE f.type \in {"chat_request", "chat_stop", "interaction_respond"}
      <4>1. f.id \in Turns
        BY <3>1, <2>2, FrameFields
      <4>2. Frame("chat_error", f.id) \in Frames /\ Receipt(f.id, TRUE) \in Frames
            /\ Receipt(f.id, FALSE) \in Frames
        BY <4>1, FrameTypes
      <4> HIDE DEF f
      <4>3. working' \in [Ports -> SUBSET Turns]
        <5>1. UNCHANGED working \/ Works(p, f.id) \/ Quits(p, f.id)
          BY <1>20, <3>1 DEF WorkerTakes, f
        <5>2. working \in [Ports -> SUBSET Turns]
          BY DEF TypeInv, TypeOK
        <5>3. working[p] \cup {f.id} \in SUBSET Turns /\ working[p] \ {f.id} \in SUBSET Turns
          BY <4>1, <5>2
        <5>4. QED BY <5>1, <5>2, <5>3 DEF Works, Quits
      <4>4. \/ UNCHANGED fromWorker \/ Answers(p, Frame("chat_error", f.id))
            \/ Answers(p, Receipt(f.id, TRUE)) \/ Answers(p, Receipt(f.id, FALSE))
        BY <1>20, <3>1 DEF WorkerTakes, f
      <4>5. QED BY <4>2, <4>3, <4>4, AnswersType DEF TypeInv, TypeOK
    <3>2. CASE f.type \notin {"chat_request", "chat_stop", "interaction_respond"}
      <4>1. Snapshot(serves[p]) \in Frames
        BY <2>1, FrameTypes DEF TypeInv, TypeOK, SocketsInOrder
      <4>2. Answers(p, Snapshot(serves[p])) /\ UNCHANGED working
        BY <1>20, <3>2 DEF WorkerTakes
      <4>3. QED BY <4>1, <4>2, AnswersType DEF TypeInv, TypeOK
    <3>3. QED BY <3>1, <3>2
  <2>5. SocketsInOrder'
    <3>1. \A q \in Ports \ open : toWorker'[q] = toWorker[q] /\ fromWorker'[q] = fromWorker[q]
      BY <1>20, <2>1 DEF WorkerTakes, Answers, TypeInv, TypeOK, Queues
    <3>2. QED BY <1>20, <3>1 DEF WorkerTakes, SocketsInOrder, TypeInv
  <2>6. QED BY <1>20, <2>3, <2>4, <2>5 DEF WorkerTakes, TypeInv, TypeOK, FinitelyPinned
<1>21. ASSUME NEW p \in Ports, NEW f \in Frames, Answers(p, f), p \in open,
              UNCHANGED <<sockets, tables, chatPanels, posted, toWorker, toPanel, sentOver, stranded, panels>>,
              working' \in [Ports -> SUBSET Turns], said' \in [Turns -> -1..MaxPiece]
       PROVE  TypeInv'
  <2>1. Queues(fromWorker', Ports)
    BY <1>21, AnswersType
  <2>2. SocketsInOrder'
    BY <1>21 DEF Answers, SocketsInOrder, TypeInv, TypeOK, Queues
  <2>3. QED BY <1>21, <2>1, <2>2 DEF TypeInv, TypeOK, FinitelyPinned
<1>22. ASSUME NEW p \in Ports, NEW t \in Turns, WorkerSays(p, t) PROVE TypeInv'
  <2>1. said[t] + 1 \in Pieces
    BY <1>22, TurnsAssumption DEF WorkerSays, TypeInv, TypeOK, Pieces
  <2>2. said' \in [Turns -> -1..MaxPiece]
    BY <1>22, <2>1 DEF WorkerSays, TypeInv, TypeOK, Pieces
  <2>3. Item(t, said[t] + 1) \in Frames
    BY <2>1, FrameTypes
  <2>4. QED BY <1>21, <1>22, <2>2, <2>3 DEF WorkerSays, TypeInv, TypeOK
<1>23. ASSUME NEW p \in Ports, NEW t \in Turns, WorkerSignals(p, t) PROVE TypeInv'
  <2>1. PICK f \in Frames : Answers(p, f)
    BY <1>23, FrameTypes DEF WorkerSignals, TypeInv, TypeOK, SocketsInOrder
  <2>2. QED BY <1>21, <1>23, <2>1 DEF WorkerSignals, TypeInv, TypeOK
<1>24. ASSUME NEW p \in Ports, NEW t \in Turns, WorkerEnds(p, t) PROVE TypeInv'
  <2>1. PICK f \in Frames : Answers(p, f)
    BY <1>24, FrameTypes DEF WorkerEnds
  <2>2. QED BY <1>21, <1>24, <2>1 DEF WorkerEnds, Quits, TypeInv, TypeOK
<1>25. ASSUME NEW p \in Ports, NEW t \in Turns, NEW i \in Pieces, WorkerRepeats(p, t, i)
       PROVE  TypeInv'
  <2>1. Item(t, i) \in Frames
    BY FrameTypes
  <2>2. QED BY <1>21, <1>25, <2>1 DEF WorkerRepeats, TypeInv, TypeOK
<1>26. CASE UNCHANGED vars
  BY <1>26 DEF vars, TypeInv, TypeOK, FinitelyPinned, SocketsInOrder
<1>27. QED
  BY <1>1, <1>2, <1>3, <1>4, <1>5, <1>6, <1>7, <1>8, <1>9, <1>10, <1>11, <1>12, <1>13, <1>14,
     <1>15, <1>16, <1>17, <1>18, <1>19, <1>20, <1>22, <1>23, <1>24, <1>25, <1>26 DEF Next

\* The tables, queues and panels stay within their types, whatever order sockets,
\* panels and workers come and go in.
THEOREM TurnTypesCorrect == Spec => []TypeOK
<1>1. Spec => []TypeInv
  BY InitTypes, StepTypes, PTL DEF Spec
<1>2. TypeInv => TypeOK
  BY DEF TypeInv
<1>3. QED BY <1>1, <1>2, PTL

-----------------------------------------------------------------------------
(* The tables of turns, and who began them *)

\* Unpinning keeps the two tables together.
LEMMA UnpinnedKeeps ==
  ASSUME TypeInv, TurnTablesAgree, NEW S, Unpinned(S), UNCHANGED asker,
         \A t \in Turns \ S : turnToPort[t] \in chatPanels => turnToPort[t] \in chatPanels'
  PROVE  TurnTablesAgree'
BY DEF TurnTablesAgree, Unpinned

LEMMA OverKeeps ==
  ASSUME TypeInv, OpenIsActive, NEW n \in Panels, NEW st \in {"done", "error", "stopped", "left"},
         Over(n, st), UNCHANGED asker
  PROVE  OpenIsActive'
BY TurnsAssumption DEF TypeInv, TypeOK, OpenIsActive, Over

LEMMA BeginsKeeps ==
  ASSUME TypeInv, OpenIsActive, NEW n \in Panels, NEW t \in Turns, Begins(n, t)
  PROVE  OpenIsActive'
BY TurnsAssumption DEF TypeInv, TypeOK, OpenIsActive, Begins

\* A turn that begins is not pinned yet.
LEMMA BeginsUnpinned ==
  ASSUME TypeInv, OpenIsActive, TurnTablesAgree, NEW n \in Panels, NEW t \in Turns, Begins(n, t),
         UNCHANGED <<turnToPort, turnToBridgePort, chatPanels>>
  PROVE  TurnTablesAgree'
<1>1. turnToPort[t] = NoPanel
  BY TurnsAssumption DEF TypeInv, TypeOK, OpenIsActive, TurnTablesAgree, Begins
<1>2. \A u \in Turns \ {t} : asker'[u] = asker[u]
  BY DEF TypeInv, TypeOK, Begins
<1>3. QED BY <1>1, <1>2 DEF TurnTablesAgree

LEMMA PinKeeps ==
  ASSUME TypeInv, TurnTablesAgree, NEW n \in chatPanels, NEW t \in Turns, NEW p \in Ports,
         asker[t] = n, Pin(t, n, p), UNCHANGED <<asker, chatPanels>>
  PROVE  TurnTablesAgree'
<1>1. /\ turnToPort'[t] = n /\ turnToBridgePort'[t] = p /\ n \in Panels
      /\ \A u \in Turns \ {t} : /\ turnToPort'[u] = turnToPort[u]
                                /\ turnToBridgePort'[u] = turnToBridgePort[u]
  BY DEF Pin, TypeInv, TypeOK
<1>2. QED BY <1>1, TurnsAssumption DEF TurnTablesAgree

\* The post of a turn that arrives at the service worker, the only one of that turn.
LEMMA HeadPost ==
  ASSUME BaseInv, NEW n \in Panels, NEW type \in {"chat_request", "interaction_respond"},
         Arrives(n, type), NEW t, t = Head(posted[n]).id
  PROVE  /\ t \in Turns /\ Head(posted[n]).place \in Places
         /\ asker[t] = n /\ n \in chatPanels /\ Unsent(t)
         /\ posted'[n] = Tail(posted[n]) /\ ~Carries(posted'[n], Requests(t))
<1>1. /\ posted[n] \in Seq(Posts) /\ posted[n] # <<>>
      /\ posted'[n] = Tail(posted[n]) /\ Head(posted[n]).type = type
  BY DEF Arrives, BaseInv, TypeInv, TypeOK
<1>2. Head(posted[n]) \in Posts
  BY <1>1, Dequeue
<1>3. t \in Turns /\ Head(posted[n]).place \in Places /\ Head(posted[n]) \in Requests(t)
  BY <1>1, <1>2, PostFields
<1>4. Carries(posted[n], Requests(t)) /\ Once(posted[n], Requests(t))
  BY <1>1, <1>3, Carried DEF BaseInv, PostsInOrder
<1>5. ~Carries(Tail(posted[n]), Requests(t))
  BY <1>1, <1>3, <1>4, OnceInQueue
<1>6. asker[t] = n /\ n \in chatPanels
  BY <1>1, <1>3, <1>4 DEF BaseInv, PostsInOrder
<1>7. QED BY <1>1, <1>3, <1>4, <1>5, <1>6 DEF Unsent

\* Posts go out in order, and only of connected panels.
LEMMA PostsKept ==
  ASSUME PostsInOrder, \A n \in Panels : posted'[n] # <<>> => n \in chatPanels',
         \A n \in Panels, t \in Turns :
           \/ Fewer(posted'[n], posted[n], Requests(t)) /\ (asker[t] = n => asker'[t] = n)
           \/ ~Carries(posted[n], Requests(t)) /\ ~Carries(posted'[n], Requests(t))
           \/ Once(posted'[n], Requests(t)) /\ asker'[t] = n
  PROVE  PostsInOrder'
<1> SUFFICES ASSUME NEW n \in Panels, NEW t \in Turns
             PROVE  /\ Once(posted'[n], Requests(t))
                    /\ Carries(posted'[n], Requests(t)) => asker'[t] = n
  BY DEF PostsInOrder, Once, Carries, Requests, Post
<1>1. /\ Once(posted[n], Requests(t))
      /\ Carries(posted[n], Requests(t)) => asker[t] = n
  BY DEF PostsInOrder
<1>2. ~Carries(posted'[n], Requests(t)) => Once(posted'[n], Requests(t))
  BY DEF Once, Carries
<1>3. QED BY <1>1, <1>2 DEF Fewer

\* A panel posts m, which begins no turn, or the turn t that has just begun.
LEMMA PostKeeps ==
  ASSUME BaseInv, NEW n \in Panels, NEW m \in Posts, PanelPosts(n, m), UNCHANGED chatPanels,
         \/ UNCHANGED asker /\ \A u \in Turns : m \notin Requests(u)
         \/ \E t \in Turns : Begins(n, t) /\ \A u \in Turns \ {t} : m \notin Requests(u)
  PROVE  PostsInOrder'
<1>1. /\ \A k \in Panels : posted[k] \in Seq(Posts)
      /\ \A k \in Panels : posted'[k] = IF k = n THEN Append(posted[n], m) ELSE posted[k]
      /\ n \in chatPanels
  BY DEF PanelPosts, BaseInv, TypeInv, TypeOK
<1>2. \A k \in Panels : posted'[k] # <<>> => k \in chatPanels'
  BY <1>1 DEF BaseInv, PostsInOrder
<1>3. ASSUME NEW u \in Turns, m \notin Requests(u), NEW k \in Panels
      PROVE  Fewer(posted'[k], posted[k], Requests(u))
  <2>1. posted[k] \in Seq(Posts)
    BY <1>1
  <2>2. Fewer(posted[k], posted[k], Requests(u)) /\ Fewer(Append(posted[k], m), posted[k], Requests(u))
    BY <1>3, <2>1, FewerInQueue
  <2>3. QED BY <1>1, <2>2
<1>4. CASE UNCHANGED asker /\ \A u \in Turns : m \notin Requests(u)
  BY <1>2, <1>3, <1>4, PostsKept DEF BaseInv
<1>5. ASSUME NEW t \in Turns, Begins(n, t), \A u \in Turns \ {t} : m \notin Requests(u)
      PROVE  PostsInOrder'
  <2>1. asker[t] = NoPanel /\ asker'[t] = n /\ \A u \in Turns \ {t} : asker'[u] = asker[u]
    BY <1>5 DEF Begins, BaseInv, OpenIsActive, TypeInv, TypeOK
  <2>2. \A k \in Panels : ~Carries(posted[k], Requests(t)) /\ Once(posted[k], Requests(t))
    BY <2>1, TurnsAssumption DEF BaseInv, PostsInOrder
  <2>3. Once(posted'[n], Requests(t))
    BY <1>1, <2>2, OnceInQueue
  <2>4. \A k \in Panels \ {n} : ~Carries(posted'[k], Requests(t))
    BY <1>1, <2>2
  <2>5. \A u \in Turns \ {t}, k \in Panels : Fewer(posted'[k], posted[k], Requests(u))
    BY <1>3, <1>5
  <2>6. QED BY <1>2, <2>1, <2>2, <2>3, <2>4, <2>5, PostsKept DEF BaseInv
<1>6. QED BY <1>4, <1>5

LEMMA ArriveKeeps ==
  ASSUME BaseInv, NEW n \in Panels, NEW type, Arrives(n, type)
  PROVE  /\ PostsInOrder' /\ UNCHANGED <<asker, chatPanels, active, status>>
         /\ \A k \in Panels, t \in Turns : Fewer(posted'[k], posted[k], Requests(t))
<1>1. /\ \A k \in Panels : posted[k] \in Seq(Posts)
      /\ \A k \in Panels : posted'[k] = IF k = n THEN Tail(posted[n]) ELSE posted[k]
      /\ posted[n] # <<>> /\ UNCHANGED <<asker, chatPanels, active, status>>
  BY DEF Arrives, panels, BaseInv, TypeInv, TypeOK
<1>2. \A k \in Panels, t \in Turns : Fewer(posted'[k], posted[k], Requests(t))
  BY <1>1, FewerInQueue
<1>3. \A k \in Panels : posted'[k] # <<>> => k \in chatPanels'
  BY <1>1 DEF BaseInv, PostsInOrder
<1>4. QED BY <1>1, <1>2, <1>3, PostsKept DEF BaseInv

LEMMA InitBase == Init => BaseInv
<1> SUFFICES ASSUME Init PROVE BaseInv OBVIOUS
<1>1. OpenIsActive /\ TurnTablesAgree
  BY DEF Init, Idle, OpenIsActive, TurnTablesAgree
<1>2. PostsInOrder
  BY DEF Init, Idle, PostsInOrder, Once, Carries
<1>3. QED BY <1>1, <1>2, InitTypes DEF BaseInv

LEMMA StepBase == BaseInv /\ [Next]_vars => BaseInv'
<1> DEFINE Kept == OpenIsActive' /\ TurnTablesAgree' /\ PostsInOrder'
<1> SUFFICES ASSUME BaseInv, [Next]_vars PROVE Kept
  BY StepTypes DEF BaseInv
<1> USE DEF sockets, tables, workers, questions, panels
<1>1. TypeInv /\ OpenIsActive /\ TurnTablesAgree /\ PostsInOrder
  BY DEF BaseInv
<1>2. CASE UNCHANGED <<asker, status, active, turnToPort, turnToBridgePort, chatPanels, posted>>
  BY <1>1, <1>2 DEF OpenIsActive, TurnTablesAgree, PostsInOrder
<1>3. ASSUME NEW S, Unpinned(S), UNCHANGED <<asker, status, active, chatPanels, posted>> PROVE Kept
  BY <1>1, <1>3, UnpinnedKeeps DEF OpenIsActive, PostsInOrder
<1>4. ASSUME NEW p \in Ports, NEW dies \in BOOLEAN, SocketCloses(p, dies) PROVE Kept
  <2>1. CASE open = {p}
    BY <1>3, <1>4, <2>1 DEF SocketCloses, FailActiveTurns
  <2>2. CASE open # {p}
    BY <1>2, <1>4, <2>2 DEF SocketCloses
  <2>3. QED BY <2>1, <2>2
<1>5. CASE Heartbeat
  BY <1>3, <1>5 DEF Heartbeat, FailActiveTurns
<1>6. CASE Restart
  <2>1. OpenIsActive' /\ TurnTablesAgree'
    BY <1>1, <1>6 DEF Restart, OpenIsActive, TurnTablesAgree
  <2>2. PostsInOrder'
    BY <1>6 DEF Restart, PostsInOrder, Once, Carries
  <2>3. QED BY <2>1, <2>2
<1>7. ASSUME NEW p \in Ports, ServiceWorkerReceives(p) PROVE Kept
  <2>1. PICK S : Unpinned(S)
    BY <1>7 DEF ServiceWorkerReceives
  <2>2. QED BY <1>3, <1>7, <2>1 DEF ServiceWorkerReceives
<1>8. ASSUME NEW n \in Panels, NEW t \in Turns, UserSends(n, t) \/ UserAnswers(n, t) PROVE Kept
  <2>1. Begins(n, t) /\ UNCHANGED <<turnToPort, turnToBridgePort, chatPanels>>
    BY <1>8 DEF UserSends, UserAnswers
  <2>2. PICK m \in Posts : PanelPosts(n, m) /\ \A u \in Turns \ {t} : m \notin Requests(u)
    BY <1>1, <1>8, PostFields, PanelsAtPlaces DEF UserSends, UserAnswers, PanelPosts
  <2>3. QED BY <1>1, <2>1, <2>2, BeginsKeeps, BeginsUnpinned, PostKeeps
<1>9. ASSUME NEW n \in Panels, PanelMounts(n) \/ AsksAgain(n) PROVE Kept
  <2>1. /\ PanelPosts(n, Snapshot(at[n]))
        /\ UNCHANGED <<asker, status, active, turnToPort, turnToBridgePort, chatPanels>>
    BY <1>9 DEF PanelMounts, AsksAgain
  <2>2. Snapshot(at[n]) \in Posts /\ \A u \in Turns : Snapshot(at[n]) \notin Requests(u)
    BY <1>1, <2>1, PostFields, PanelsAtPlaces DEF PanelPosts
  <2>3. QED BY <1>1, <2>1, <2>2, PostKeeps DEF OpenIsActive, TurnTablesAgree
<1>10. ASSUME NEW n \in Panels, UserStops(n) PROVE Kept
  <2>1. /\ active[n] \in Turns /\ PanelPosts(n, Frame("chat_stop", active[n])) /\ Over(n, "stopped")
        /\ UNCHANGED <<asker, turnToPort, turnToBridgePort, chatPanels>>
    BY <1>1, <1>10 DEF UserStops, TypeInv, TypeOK
  <2>2. /\ Frame("chat_stop", active[n]) \in Posts
        /\ \A u \in Turns : Frame("chat_stop", active[n]) \notin Requests(u)
    BY <2>1, PostFields
  <2>3. PostsInOrder'
    BY <2>1, <2>2, PostKeeps
  <2>4. QED BY <1>1, <2>1, <2>3, OverKeeps DEF TurnTablesAgree
<1>11. ASSUME NEW n \in Panels, RequestArrives(n) \/ AnswerArrives(n) PROVE Kept
  <2> DEFINE t == Head(posted[n]).id
  <2>1. PICK type \in {"chat_request", "interaction_respond"} : Arrives(n, type)
    BY <1>11 DEF RequestArrives, AnswerArrives
  <2>2. PostsInOrder' /\ UNCHANGED <<asker, chatPanels, active, status>>
    BY <2>1, ArriveKeeps
  <2>3. t \in Turns /\ asker[t] = n /\ n \in chatPanels
    BY <2>1, HeadPost
  <2>4. \/ UNCHANGED <<turnToPort, turnToBridgePort>>
        \/ \E p \in Ports : Pin(t, n, p)
    BY <1>1, <1>11 DEF RequestArrives, AnswerArrives, RoutesOf, TypeInv, TypeOK
  <2> HIDE DEF t
  <2>5. TurnTablesAgree'
    BY <1>1, <2>2, <2>3, <2>4, PinKeeps DEF TurnTablesAgree
  <2>6. QED BY <1>1, <2>2, <2>5 DEF OpenIsActive
<1>12. ASSUME NEW n \in Panels, SnapshotArrives(n) \/ StopArrives(n) PROVE Kept
  <2>1. PICK type : Arrives(n, type)
    BY <1>12 DEF SnapshotArrives, StopArrives
  <2>2. PostsInOrder' /\ UNCHANGED <<asker, chatPanels, active, status>>
    BY <2>1, ArriveKeeps
  <2>3. UNCHANGED <<turnToPort, turnToBridgePort>>
    BY <1>12 DEF SnapshotArrives, StopArrives
  <2>4. QED BY <1>1, <2>2, <2>3 DEF OpenIsActive, TurnTablesAgree
<1>13. ASSUME NEW n \in Panels, NEW st \in {"done", "error", "stopped", "left"}, Over(n, st),
              UNCHANGED <<asker, turnToPort, turnToBridgePort, chatPanels, posted>>
       PROVE  Kept
  BY <1>1, <1>13, OverKeeps DEF TurnTablesAgree, PostsInOrder
<1>14. ASSUME NEW n \in Panels, NEW x \in Places, PanelConnects(n, x) PROVE Kept
  BY <1>1, <1>14 DEF PanelConnects, OpenIsActive, TurnTablesAgree, PostsInOrder
<1>15. ASSUME NEW n \in Panels, PanelCloses(n) PROVE Kept
  <2>1. OpenIsActive'
    BY <1>1, <1>15, OverKeeps DEF PanelCloses
  <2>2. Unpinned(Pinned(n)) /\ UNCHANGED <<asker, posted>> /\ posted[n] = <<>>
    BY <1>15 DEF PanelCloses, Forget
  <2>3. \A t \in Turns \ Pinned(n) : turnToPort[t] \in chatPanels => turnToPort[t] \in chatPanels'
    BY <1>15 DEF PanelCloses, Pinned
  <2>4. PostsInOrder'
    BY <1>1, <1>15, <2>2 DEF PanelCloses, PostsInOrder
  <2>5. QED BY <1>1, <2>1, <2>2, <2>3, <2>4, UnpinnedKeeps
<1>16. ASSUME NEW n \in Panels, PanelReceives(n) PROVE Kept
  <2>1. UNCHANGED <<asker, turnToPort, turnToBridgePort, chatPanels>>
    BY <1>16 DEF PanelReceives
  <2>2. \/ UNCHANGED <<active, status>>
        \/ \E st \in {"done", "error", "stopped", "left"} : Over(n, st)
    BY <1>16 DEF PanelReceives, Streams
  <2>3. UNCHANGED posted \/ PanelPosts(n, Snapshot(at[n]))
    BY <1>16 DEF PanelReceives, Hears
  <2>4. OpenIsActive'
    BY <1>1, <2>1, <2>2, OverKeeps DEF OpenIsActive
  <2>5. PostsInOrder'
    <3>1. CASE UNCHANGED posted
      BY <1>1, <2>1, <3>1 DEF PostsInOrder
    <3>2. CASE PanelPosts(n, Snapshot(at[n]))
      <4>1. Snapshot(at[n]) \in Posts /\ \A u \in Turns : Snapshot(at[n]) \notin Requests(u)
        BY <1>1, <3>2, PostFields, PanelsAtPlaces DEF PanelPosts
      <4>2. QED BY <2>1, <3>2, <4>1, PostKeeps
    <3>3. QED BY <2>3, <3>1, <3>2
  <2>6. QED BY <1>1, <2>1, <2>4, <2>5 DEF TurnTablesAgree
<1>17. ASSUME NEW p \in Ports, NEW x \in Places, SocketOpens(p, x) PROVE Kept
  BY <1>2, <1>17 DEF SocketOpens
<1>18. ASSUME NEW t \in Turns, ToolEnds(t) PROVE Kept
  BY <1>2, <1>18 DEF ToolEnds
<1>19. ASSUME NEW n \in Panels, WatchdogFires(n) PROVE Kept
  BY <1>13, <1>19 DEF WatchdogFires
<1>20. ASSUME NEW n \in Panels, NEW x \in Places, PanelSwitches(n, x) PROVE Kept
  BY <1>13, <1>20 DEF PanelSwitches
<1>21. ASSUME NEW p \in Ports, WorkerTakes(p) PROVE Kept
  BY <1>2, <1>21 DEF WorkerTakes
<1>22. ASSUME NEW p \in Ports, NEW t \in Turns,
              WorkerSays(p, t) \/ WorkerSignals(p, t) \/ WorkerEnds(p, t)
       PROVE  Kept
  BY <1>2, <1>22 DEF WorkerSays, WorkerSignals, WorkerEnds
<1>23. ASSUME NEW p \in Ports, NEW t \in Turns, NEW i \in Pieces, WorkerRepeats(p, t, i) PROVE Kept
  BY <1>2, <1>23 DEF WorkerRepeats
<1>24. CASE UNCHANGED vars
  BY <1>2, <1>24 DEF vars
<1>25. QED
  BY <1>4, <1>5, <1>6, <1>7, <1>8, <1>9, <1>10, <1>11, <1>12, <1>14, <1>15, <1>16, <1>17,
     <1>18, <1>19, <1>20, <1>21, <1>22, <1>23, <1>24 DEF Next

LEMMA BaseInvariant == Spec => []BaseInv
<1>1. QED BY InitBase, StepBase, PTL DEF Spec

\* turnToPort and turnToBridgePort hold the same turns, each of a connected panel that
\* began it: every handler that deletes a turn from one deletes it from the other.
THEOREM TablesAgree == Spec => []TurnTablesAgree
<1>1. BaseInv => TurnTablesAgree
  BY DEF BaseInv
<1>2. QED BY <1>1, BaseInvariant, PTL

-----------------------------------------------------------------------------
(* A turn is at one port *)

LEMMA AboutFrames ==
  ASSUME NEW t \in Turns
  PROVE  /\ \A u \in Turns : /\ \A type \in EndTypes \cup AliveTypes : About(Frame(type, u), t) <=> u = t
                             /\ About(Frame("chat_request", u), t) <=> u = t
                             /\ About(Frame("chat_stop", u), t) <=> u = t
                             /\ About(Frame("interaction_respond", u), t) <=> u = t
                             /\ \A i \in Pieces : About(Item(u, i), t) <=> u = t
                             /\ \A ok \in BOOLEAN : About(Receipt(u, ok), t) <=> u = t
         /\ \A x : ~About(Question(x), t) /\ ~About(Snapshot(x), t) /\ ~About(Bridges(x), t)
BY DEF About, Frame, Item, Receipt, Question, Snapshot, Bridges, EndTypes, AliveTypes

LEMMA InQueues ==
  ASSUME NEW q \in Seq(Frames), NEW t
  PROVE  /\ \A f \in Frames : In(Append(q, f), t) <=> In(q, t) \/ About(f, t)
         /\ q # <<>> => /\ In(Tail(q), t) => In(q, t)
                        /\ About(Head(q), t) => In(q, t)
         /\ ~In(<<>>, t)
<1>1. ASSUME NEW f \in Frames PROVE In(Append(q, f), t) <=> In(q, t) \/ About(f, t)
  <2>1. /\ Len(q) \in Nat /\ DOMAIN q = 1..Len(q)
        /\ DOMAIN Append(q, f) = 1..(Len(q) + 1)
        /\ \A i \in 1..Len(q) : Append(q, f)[i] = q[i]
        /\ Append(q, f)[Len(q) + 1] = f
    BY Enqueue
  <2>2. QED BY <2>1 DEF In
<1>2. ASSUME q # <<>>
      PROVE  /\ In(Tail(q), t) => In(q, t)
             /\ About(Head(q), t) => In(q, t)
  BY <1>2, Dequeue DEF In
<1>3. ~In(<<>>, t)
  BY DEF In
<1>4. QED BY <1>1, <1>2, <1>3

LEMMA InFailed ==
  ASSUME TypeInv, NEW n \in Panels, NEW S, NEW t \in Turns,
         In(toPanel[n] \o Failures(n) \o <<LiveAfter(S)>>, t)
  PROVE  In(toPanel[n], t) \/ turnToPort[t] = n
<1> DEFINE q == toPanel[n] \o Failures(n) \o <<LiveAfter(S)>>
<1>1. PICK i \in DOMAIN q : About(q[i], t)
  BY DEF In
<1>2. /\ \A j \in DOMAIN toPanel[n] : q[j] = toPanel[n][j]
      /\ \A j \in DOMAIN q \ DOMAIN toPanel[n] :
           q[j] = LiveAfter(S) \/ \E u \in Pinned(n) : q[j] = Frame("chat_error", u)
  BY FailedQueue
<1> HIDE DEF q
<1>3. CASE i \in DOMAIN toPanel[n]
  BY <1>1, <1>2, <1>3 DEF In
<1>4. CASE i \notin DOMAIN toPanel[n]
  <2>1. q[i] = LiveAfter(S) \/ \E u \in Pinned(n) : q[i] = Frame("chat_error", u)
    BY <1>1, <1>2, <1>4
  <2>2. ~About(LiveAfter(S), t)
    BY AboutFrames DEF LiveAfter
  <2>3. PICK u \in Pinned(n) : q[i] = Frame("chat_error", u)
    BY <1>1, <2>1, <2>2
  <2>4. u = t
    BY <1>1, <2>3, AboutFrames DEF Pinned, EndTypes
  <2>5. QED BY <2>4 DEF Pinned
<1>5. QED BY <1>3, <1>4

\* The posts of a turn, in the state that a step leads to.
LEMMA UnsentNext ==
  ASSUME NEW t \in Turns
  PROVE  Unsent(t)' <=> status'[t] = "new" \/ \E n \in Panels : Carries(posted'[n], Requests(t))
BY DEF Unsent, Carries, Requests, Post

\* No turn becomes one that is still to be sent.
LEMMA UnsentBefore ==
  ASSUME BaseInv, [Next]_vars, NEW t \in Turns, Unsent(t)'
  PROVE  Unsent(t)
<1> USE DEF sockets, tables, workers, questions, panels
<1>0. TypeInv
  BY DEF BaseInv
<1>1. status'[t] = "new" \/ \E n \in Panels : Carries(posted'[n], Requests(t))
  BY UnsentNext
<1>2. CASE \A n \in Panels : Carries(posted'[n], Requests(t)) => Carries(posted[n], Requests(t))
  <2>1. status'[t] = "new" => status[t] = "new"
    <3>1. CASE UNCHANGED status
      BY <3>1
    <3>2. ASSUME NEW n, NEW st \in {"done", "error", "stopped", "left"}, Over(n, st)
          PROVE  status'[t] = "new" => status[t] = "new"
      BY <3>2 DEF Over
    <3>3. ASSUME NEW n, NEW u, Begins(n, u) PROVE status'[t] = "new" => status[t] = "new"
      BY <1>0, <3>3 DEF Begins, TypeInv, TypeOK
    <3>4. ASSUME NEW n \in Panels, PanelReceives(n) PROVE status'[t] = "new" => status[t] = "new"
      BY <3>1, <3>2, <3>4 DEF PanelReceives, Streams
    <3>5. ASSUME NEW n \in Panels,
                 UserStops(n) \/ WatchdogFires(n) \/ PanelCloses(n) \/ \E x : PanelSwitches(n, x)
          PROVE  status'[t] = "new" => status[t] = "new"
      BY <3>2, <3>5 DEF UserStops, WatchdogFires, PanelCloses, PanelSwitches
    <3>6. ASSUME NEW n \in Panels, NEW type, Arrives(n, type) PROVE UNCHANGED status
      BY <3>6 DEF Arrives
    <3>7. QED
      BY <3>1, <3>3, <3>4, <3>5, <3>6
         DEF Next, vars, SocketOpens, SocketCloses, Heartbeat, Restart, ServiceWorkerReceives,
             ToolEnds, UserSends, UserAnswers, RequestArrives, AnswerArrives, SnapshotArrives,
             StopArrives, PanelMounts, AsksAgain, PanelConnects, WorkerTakes, WorkerSays,
             WorkerSignals, WorkerEnds, WorkerRepeats
  <2>2. QED BY <1>1, <1>2, <2>1 DEF Unsent
<1>3. ASSUME NEW n \in Panels, NEW m \in Posts, PanelPosts(n, m), m \notin Requests(t)
      PROVE  Unsent(t)
  <2>1. \A k \in Panels : posted[k] \in Seq(Posts)
    BY <1>0 DEF TypeInv, TypeOK
  <2>2. \A k \in Panels : posted'[k] \in {posted[k], Append(posted[k], m)}
    BY <1>0, <1>3 DEF PanelPosts, TypeInv, TypeOK
  <2>3. \A k \in Panels : Carries(Append(posted[k], m), Requests(t)) => Carries(posted[k], Requests(t))
    BY <1>3, <2>1, Carried
  <2>4. QED BY <1>2, <2>2, <2>3
<1>4. ASSUME NEW n \in Panels, NEW u \in Turns, UserSends(n, u) \/ UserAnswers(n, u) PROVE Unsent(t)
  <2>1. CASE u = t
    BY <1>4, <2>1 DEF UserSends, UserAnswers, Begins, Unsent
  <2>2. CASE u # t
    <3>1. PICK m \in Posts : PanelPosts(n, m) /\ m \notin Requests(t)
      BY <1>0, <1>4, <2>2, PostFields, PanelsAtPlaces DEF UserSends, UserAnswers, PanelPosts
    <3>2. QED BY <1>3, <3>1
  <2>3. QED BY <2>1, <2>2
<1>5. ASSUME NEW n \in Panels, PanelPosts(n, Snapshot(at[n])) PROVE Unsent(t)
  BY <1>0, <1>3, <1>5, PostFields, PanelsAtPlaces DEF PanelPosts
<1>6. ASSUME NEW n \in Panels, UserStops(n) PROVE Unsent(t)
  BY <1>0, <1>3, <1>6, PostFields DEF UserStops, TypeInv, TypeOK
<1>7. ASSUME NEW n \in Panels, NEW type, Arrives(n, type) PROVE Unsent(t)
  BY <1>2, <1>7, ArriveKeeps DEF Fewer
<1>8. CASE UNCHANGED posted
  BY <1>2, <1>8
<1>9. CASE Restart
  BY <1>2, <1>9 DEF Restart, Carries
<1>10. ASSUME NEW n \in Panels, PanelMounts(n) \/ AsksAgain(n) \/ PanelReceives(n) PROVE Unsent(t)
  <2>1. UNCHANGED posted \/ PanelPosts(n, Snapshot(at[n]))
    BY <1>10 DEF PanelMounts, AsksAgain, PanelReceives, Hears
  <2>2. QED BY <1>5, <1>8, <2>1
<1>11. QED
  BY <1>4, <1>6, <1>7, <1>8, <1>9, <1>10
     DEF Next, vars, SocketOpens, SocketCloses, Heartbeat, ServiceWorkerReceives, ToolEnds,
         RequestArrives, AnswerArrives, SnapshotArrives, StopArrives, WatchdogFires, PanelSwitches,
         PanelConnects, PanelCloses, WorkerTakes, WorkerSays, WorkerSignals, WorkerEnds, WorkerRepeats

\* A turn whose post has arrived has been sent.
LEMMA SentOnce ==
  ASSUME BaseInv, NEW n \in Panels, NEW type \in {"chat_request", "interaction_respond"},
         Arrives(n, type), NEW t, t = Head(posted[n]).id
  PROVE  t \in Turns /\ Unsent(t) /\ ~Unsent(t)'
<1>1. /\ t \in Turns /\ asker[t] = n /\ Unsent(t)
      /\ ~Carries(posted'[n], Requests(t))
  BY HeadPost
<1>2. status'[t] # "new"
  BY <1>1, TurnsAssumption DEF Arrives, panels, BaseInv, OpenIsActive
<1>3. \A k \in Panels \ {n} : ~Carries(posted'[k], Requests(t))
  BY <1>1 DEF Arrives, BaseInv, PostsInOrder, TypeInv, TypeOK
<1>4. QED BY <1>1, <1>2, <1>3, UnsentNext

\* A step that sends no turn.
LEMMA StaysAtPort ==
  ASSUME BaseInv, OnePort, [Next]_vars,
         \A t \in Turns, p \in Ports : Touches(t, p)' => Touches(t, p),
         \A t \in Turns : Unsent(t) =>
           /\ said'[t] = said[t] /\ shown'[t] = shown[t]
           /\ \A n \in Panels : In(toPanel'[n], t) =>
                In(toPanel[n], t) \/ \E p \in Ports : Touches(t, p)
  PROVE  OnePort'
BY UnsentBefore DEF OnePort, Fresh

\* A turn that is pinned, or of which a frame arrives, is at a port.
LEMMA PinnedTouches ==
  ASSUME BaseInv, NEW t \in Turns, turnToPort[t] # NoPanel
  PROVE  \E p \in Ports : Touches(t, p)
BY DEF BaseInv, TypeInv, TypeOK, TurnTablesAgree, Touches

\* Queues that only lose frames, or pins that are only dropped.
LEMMA UnpinnedPorts ==
  ASSUME NEW S, Unpinned(S), NEW t \in Turns
  PROVE  turnToBridgePort'[t] \in {turnToBridgePort[t], NoPort}
BY DEF Unpinned

LEMMA LostTouches ==
  ASSUME TypeInv, NEW S, Lost(S), NEW t \in Turns, NEW p \in Ports,
         working'[p] \subseteq working[p],
         turnToBridgePort'[t] \in {turnToBridgePort[t], NoPort},
         Touches(t, p)'
  PROVE  Touches(t, p)
<1>1. /\ sentOver'[p] \subseteq sentOver[p]
      /\ In(toWorker'[p], t) => In(toWorker[p], t)
      /\ In(fromWorker'[p], t) => In(fromWorker[p], t)
  BY DEF Lost, In
<1>2. QED BY <1>1, TurnsAssumption DEF Touches

LEMMA FailedPanels ==
  ASSUME BaseInv, NEW S, FailActiveTurns(S), NEW t \in Turns, NEW n \in Panels,
         In(toPanel'[n], t)
  PROVE  In(toPanel[n], t) \/ \E p \in Ports : Touches(t, p)
<1>1. In(toPanel[n], t) \/ In(toPanel[n] \o Failures(n) \o <<LiveAfter(S)>>, t)
  BY DEF FailActiveTurns
<1>2. turnToPort[t] = n => \E p \in Ports : Touches(t, p)
  BY PinnedTouches, TurnsAssumption
<1>3. QED BY <1>1, <1>2, InFailed DEF BaseInv

\* A turn that is sent to port p, or to none.
LEMMA SendsAtPort ==
  ASSUME BaseInv, OnePort, [Next]_vars, NEW t \in Turns, ~Unsent(t)',
         UNCHANGED <<said, shown>>,
         \A u \in Turns \ {t} :
           /\ \A q \in Ports : Touches(u, q)' => Touches(u, q)
           /\ \A m \in Panels : In(toPanel'[m], u) => In(toPanel[m], u),
         \A q, r \in Ports : Touches(t, q)' /\ Touches(t, r)' => q = r
  PROVE  OnePort'
BY UnsentBefore DEF OnePort, Fresh

LEMMA BroadcastQuiet ==
  ASSUME TypeInv, NEW f \in Frames, Broadcast(f), NEW t, ~About(f, t),
         NEW n \in Panels, In(toPanel'[n], t)
  PROVE  In(toPanel[n], t)
<1>1. toPanel'[n] \in {toPanel[n], Append(toPanel[n], f)} /\ toPanel[n] \in Seq(Frames)
  BY DEF Broadcast, TypeInv, TypeOK, Queues
<1>2. QED BY <1>1, InQueues

\* A frame f of the worker at port p, of a turn that p has.
LEMMA AnswersTouch ==
  ASSUME TypeInv, OnePort, NEW p \in Ports, NEW f \in Frames, Answers(p, f),
         \A t \in Turns : About(f, t) => Touches(t, p),
         \A q \in Ports : working'[q] \subseteq working[q] \/ (q = p /\ \A t \in working'[p] : Touches(t, p)),
         \A q \in Ports : \A t \in Turns : In(toWorker'[q], t) => In(toWorker[q], t),
         UNCHANGED <<sentOver, turnToBridgePort>>,
         NEW t \in Turns, NEW q \in Ports, Touches(t, q)'
  PROVE  Touches(t, q)
<1>1. In(fromWorker'[q], t) => In(fromWorker[q], t) \/ (q = p /\ About(f, t))
  <2>1. fromWorker'[q] = IF q = p THEN Append(fromWorker[p], f) ELSE fromWorker[q]
    BY DEF Answers, TypeInv, TypeOK, Queues
  <2>2. fromWorker[p] \in Seq(Frames)
    BY DEF TypeInv, TypeOK, Queues
  <2>3. QED BY <2>1, <2>2, InQueues
<1>2. QED BY <1>1 DEF Touches

LEMMA InitPorts == Init => OnePort
BY TurnsAssumption DEF Init, Idle, OnePort, Fresh, Touches, In

LEMMA StepPorts == BaseInv /\ OnePort /\ [Next]_vars => OnePort'
<1> SUFFICES ASSUME BaseInv, OnePort, [Next]_vars PROVE OnePort' OBVIOUS
<1> USE DEF sockets, tables, workers, questions, panels
<1> DEFINE Stays == \A t \in Turns, p \in Ports : Touches(t, p)' => Touches(t, p)
           Quiet == \A t \in Turns, n \in Panels : In(toPanel'[n], t) => In(toPanel[n], t)
<1>0. TypeInv
  BY DEF BaseInv
<1>1. ASSUME Stays, Quiet, UNCHANGED <<said, shown>> PROVE OnePort'
  BY <1>1, StaysAtPort
<1>2. ASSUME NEW p \in Ports, NEW x \in Places, SocketOpens(p, x) PROVE OnePort'
  <2>1. Stays
    BY <1>0, <1>2 DEF SocketOpens, Touches, TypeInv, TypeOK
  <2>2. Quiet
    <3>1. PICK S \in SUBSET Places : Broadcast(Bridges(S))
      BY <1>0, <1>2 DEF SocketOpens, TypeInv, TypeOK, SocketsInOrder
    <3>2. QED BY <1>0, <3>1, FrameTypes, AboutFrames, BroadcastQuiet
  <2>3. QED BY <1>1, <1>2, <2>1, <2>2 DEF SocketOpens
<1>3. ASSUME NEW p \in Ports, NEW dies \in BOOLEAN, SocketCloses(p, dies) PROVE OnePort'
  <2>1. ASSUME NEW t \in Turns PROVE turnToBridgePort'[t] \in {turnToBridgePort[t], NoPort}
    BY <1>3, UnpinnedPorts DEF SocketCloses, FailActiveTurns
  <2>2. \A q \in Ports : working'[q] \subseteq working[q]
    BY <1>0, <1>3 DEF SocketCloses, TypeInv, TypeOK
  <2>3. Stays
    BY <1>0, <1>3, <2>1, <2>2, LostTouches DEF SocketCloses
  <2>4. ASSUME NEW t \in Turns, NEW n \in Panels, In(toPanel'[n], t)
        PROVE  In(toPanel[n], t) \/ \E q \in Ports : Touches(t, q)
    <3>1. CASE open = {p}
      BY <1>3, <2>4, <3>1, FailedPanels DEF SocketCloses
    <3>2. CASE open # {p}
      <4>1. Broadcast(LiveAfter({p})) /\ LiveAfter({p}) \in Frames
        BY <1>0, <1>3, <3>2, LiveType DEF SocketCloses
      <4>2. ~About(LiveAfter({p}), t)
        BY AboutFrames DEF LiveAfter
      <4>3. QED BY <1>0, <2>4, <4>1, <4>2, BroadcastQuiet
    <3>3. QED BY <3>1, <3>2
  <2>5. QED BY <1>3, <2>3, <2>4, StaysAtPort DEF SocketCloses
<1>4. CASE Heartbeat
  <2>1. ASSUME NEW t \in Turns PROVE turnToBridgePort'[t] \in {turnToBridgePort[t], NoPort}
    BY <1>4, UnpinnedPorts DEF Heartbeat, FailActiveTurns
  <2>2. Stays
    BY <1>0, <1>4, <2>1, LostTouches DEF Heartbeat
  <2>3. QED BY <1>4, <2>2, FailedPanels, StaysAtPort DEF Heartbeat
<1>5. CASE Restart
  <2>1. Stays
    BY <1>0, <1>5, LostTouches DEF Restart
  <2>2. \A t \in Turns, n \in Panels : ~In(toPanel'[n], t)
    BY <1>5 DEF Restart, In
  <2>3. QED BY <1>5, <2>1, <2>2, StaysAtPort DEF Restart
<1>6. ASSUME NEW p \in Ports, ServiceWorkerReceives(p) PROVE OnePort'
  <2> DEFINE f == Head(fromWorker[p])
  <2>1. /\ fromWorker[p] \in Seq(Frames) /\ fromWorker[p] # <<>>
        /\ \A q \in Ports : fromWorker'[q] = IF q = p THEN Tail(fromWorker[p]) ELSE fromWorker[q]
        /\ \A n \in Panels : toPanel'[n] \in {toPanel[n], Append(toPanel[n], f)}
    BY <1>0, <1>6 DEF ServiceWorkerReceives, TypeInv, TypeOK, Queues
  <2>2. ASSUME NEW t \in Turns PROVE turnToBridgePort'[t] \in {turnToBridgePort[t], NoPort}
    BY <1>6, UnpinnedPorts DEF ServiceWorkerReceives
  <2>3. Stays
    <3>1. \A q \in Ports, t \in Turns : In(fromWorker'[q], t) => In(fromWorker[q], t)
      BY <2>1, InQueues
    <3>2. UNCHANGED <<working, sentOver, toWorker>>
      BY <1>6 DEF ServiceWorkerReceives
    <3>3. QED BY <2>2, <3>1, <3>2, TurnsAssumption DEF Touches
  <2>4. ASSUME NEW t \in Turns, NEW n \in Panels, In(toPanel'[n], t)
        PROVE  In(toPanel[n], t) \/ Touches(t, p)
    <3>1. f \in Frames /\ toPanel[n] \in Seq(Frames)
      BY <1>0, <2>1, Dequeue DEF TypeInv, TypeOK, Queues
    <3>2. About(f, t) => In(fromWorker[p], t)
      BY <2>1, InQueues
    <3> HIDE DEF f
    <3>3. In(toPanel[n], t) \/ About(f, t)
      BY <2>1, <2>4, <3>1, InQueues
    <3>4. QED BY <3>2, <3>3 DEF Touches
  <2>5. QED BY <1>6, <2>3, <2>4, StaysAtPort DEF ServiceWorkerReceives
<1>7. ASSUME NEW t \in Turns, ToolEnds(t) PROVE OnePort'
  <2>1. turnToPort[t] \in Panels /\ Frame("chat_tool_notice", t) \in Frames
    BY <1>0, <1>7, FrameTypes DEF ToolEnds, TypeInv, TypeOK
  <2>2. \A n \in Panels : toPanel'[n] \in {toPanel[n], Append(toPanel[n], Frame("chat_tool_notice", t))}
    BY <1>0, <1>7, <2>1 DEF ToolEnds, TypeInv, TypeOK, Queues
  <2>3. \A u \in Turns : About(Frame("chat_tool_notice", t), u) => u = t
    BY AboutFrames DEF AliveTypes
  <2>4. ASSUME NEW u \in Turns, NEW n \in Panels, In(toPanel'[n], u)
        PROVE  In(toPanel[n], u) \/ u = t
    <3>1. toPanel[n] \in Seq(Frames)
      BY <1>0 DEF TypeInv, TypeOK, Queues
    <3>2. In(Append(toPanel[n], Frame("chat_tool_notice", t)), u) =>
            In(toPanel[n], u) \/ About(Frame("chat_tool_notice", t), u)
      BY <2>1, <3>1, InQueues
    <3>3. toPanel'[n] = toPanel[n] \/ toPanel'[n] = Append(toPanel[n], Frame("chat_tool_notice", t))
      BY <2>2
    <3>4. QED BY <2>3, <2>4, <3>2, <3>3
  <2>5. \E p \in Ports : Touches(t, p)
    BY <1>7, PinnedTouches DEF ToolEnds
  <2>6. Stays
    BY <1>7 DEF ToolEnds, Touches
  <2>7. QED BY <1>7, <2>4, <2>5, <2>6, StaysAtPort DEF ToolEnds
<1>8. ASSUME NEW n \in Panels, NEW t \in Turns, Unsent(t), ~Unsent(t)', NEW p \in Ports, NEW f \in Frames,
             Pin(t, n, p), Send(p, f), \A u \in Turns : About(f, u) <=> u = t,
             sentOver' = [sentOver EXCEPT ![p] = @ \cup {t}],
             UNCHANGED <<working, fromWorker, toPanel, said, shown>>
      PROVE  OnePort'
  <2>1. \A q \in Ports : ~Touches(t, q)
    BY <1>8 DEF OnePort, Fresh
  <2>2. \A q \in Ports, u \in Turns :
          In(toWorker'[q], u) => In(toWorker[q], u) \/ (q = p /\ u = t)
    <3>1. \A q \in Ports : toWorker'[q] = IF q = p THEN Append(toWorker[p], f) ELSE toWorker[q]
      BY <1>0, <1>8 DEF Send, TypeInv, TypeOK, Queues
    <3>2. toWorker[p] \in Seq(Frames)
      BY <1>0 DEF TypeInv, TypeOK, Queues
    <3>3. QED BY <1>8, <3>1, <3>2, InQueues
  <2>3. \A q \in Ports, u \in Turns :
          /\ u \in sentOver'[q] => u \in sentOver[q] \/ (q = p /\ u = t)
          /\ turnToBridgePort'[u] = q => turnToBridgePort[u] = q \/ (q = p /\ u = t)
    BY <1>0, <1>8 DEF Pin, TypeInv, TypeOK
  <2>4. \A q \in Ports, u \in Turns : Touches(u, q)' => Touches(u, q) \/ (q = p /\ u = t)
    BY <1>8, <2>2, <2>3 DEF Touches
  <2>5. QED BY <1>8, <2>1, <2>4, SendsAtPort
<1>9. ASSUME NEW n \in Panels, RequestArrives(n) \/ AnswerArrives(n) PROVE OnePort'
  <2>0. PICK t : t = Head(posted[n]).id
    OBVIOUS
  <2>1. /\ t \in Turns /\ Unsent(t) /\ ~Unsent(t)'
        /\ UNCHANGED <<working, fromWorker, said, shown>>
    BY <1>9, <2>0, SentOnce DEF RequestArrives, AnswerArrives, Arrives
  <2>2. \/ \E p \in RoutesOf(Head(posted[n]).place), type \in {"chat_request", "interaction_respond"} :
             /\ Pin(t, n, p) /\ Send(p, Frame(type, t))
             /\ sentOver' = [sentOver EXCEPT ![p] = @ \cup {t}]
             /\ UNCHANGED toPanel
        \/ /\ toPanel' = [toPanel EXCEPT ![n] = Append(@, Frame("chat_error", t))]
           /\ UNCHANGED <<turnToBridgePort, toWorker, sentOver>>
        \/ UNCHANGED <<turnToBridgePort, toWorker, sentOver, toPanel>>
    BY <1>9, <2>0 DEF RequestArrives, AnswerArrives
  <2>3. ASSUME NEW p \in RoutesOf(Head(posted[n]).place),
               NEW type \in {"chat_request", "interaction_respond"},
               Pin(t, n, p), Send(p, Frame(type, t)),
               sentOver' = [sentOver EXCEPT ![p] = @ \cup {t}], UNCHANGED toPanel
        PROVE  OnePort'
    <3>1. p \in Ports
      BY <1>0 DEF RoutesOf, TypeInv, TypeOK
    <3>2. Frame(type, t) \in Frames /\ \A u \in Turns : About(Frame(type, t), u) <=> u = t
      BY <2>1, FrameTypes, AboutFrames
    <3>3. QED BY <1>8, <2>1, <2>3, <3>1, <3>2
  <2>4. ASSUME UNCHANGED <<turnToBridgePort, toWorker, sentOver>>,
               \A m \in Panels, u \in Turns \ {t} : In(toPanel'[m], u) => In(toPanel[m], u)
        PROVE  OnePort'
    <3>1. Stays
      BY <2>1, <2>4 DEF Touches
    <3>2. \A q \in Ports : ~Touches(t, q)
      BY <2>1 DEF OnePort, Fresh
    <3>3. QED BY <2>1, <2>4, <3>1, <3>2, SendsAtPort
  <2>5. CASE /\ toPanel' = [toPanel EXCEPT ![n] = Append(@, Frame("chat_error", t))]
             /\ UNCHANGED <<turnToBridgePort, toWorker, sentOver>>
    <3>1. /\ Frame("chat_error", t) \in Frames
          /\ \A u \in Turns : About(Frame("chat_error", t), u) <=> u = t
      BY <2>1, FrameTypes, AboutFrames DEF EndTypes
    <3>2. \A m \in Panels : toPanel'[m] = IF m = n THEN Append(toPanel[n], Frame("chat_error", t))
                                          ELSE toPanel[m]
      BY <1>0, <2>5 DEF TypeInv, TypeOK, Queues
    <3>3. toPanel[n] \in Seq(Frames)
      BY <1>0 DEF TypeInv, TypeOK, Queues
    <3>4. QED BY <2>4, <2>5, <3>1, <3>2, <3>3, InQueues
  <2>6. QED BY <2>2, <2>3, <2>4, <2>5
<1>10. ASSUME NEW n \in Panels, NEW t \in Turns, UserSends(n, t) \/ UserAnswers(n, t) PROVE OnePort'
  BY <1>1, <1>10 DEF UserSends, UserAnswers, Touches
<1>11. ASSUME NEW p \in Ports, NEW f \in Frames, Send(p, f),
              \A t \in Turns : About(f, t) => turnToBridgePort[t] = p,
              UNCHANGED <<working, sentOver, turnToBridgePort, fromWorker>>
       PROVE  Stays
  <2>1. \A q \in Ports, u \in Turns :
          In(toWorker'[q], u) => In(toWorker[q], u) \/ turnToBridgePort[u] = q
    <3>1. \A q \in Ports : toWorker'[q] = IF q = p THEN Append(toWorker[p], f) ELSE toWorker[q]
      BY <1>0, <1>11 DEF Send, TypeInv, TypeOK, Queues
    <3>2. toWorker[p] \in Seq(Frames)
      BY <1>0 DEF TypeInv, TypeOK, Queues
    <3>3. QED BY <1>11, <3>1, <3>2, InQueues
  <2>2. QED BY <1>11, <2>1 DEF Touches
<1>12. ASSUME NEW n \in Panels, SnapshotArrives(n) PROVE OnePort'
  <2> DEFINE x == Head(posted[n]).place
  <2>1. x \in Places
    BY <1>0, <1>12, ArriveType, PostFields DEF SnapshotArrives
  <2>2. UNCHANGED toWorker \/ \E p \in RoutesOf(x) : Send(p, Snapshot(x))
    BY <1>12 DEF SnapshotArrives
  <2>3. UNCHANGED <<working, sentOver, turnToBridgePort, fromWorker, toPanel, said, shown>>
    BY <1>12 DEF SnapshotArrives, Arrives
  <2> HIDE DEF x
  <2>4. Snapshot(x) \in Frames /\ \A t \in Turns : ~About(Snapshot(x), t)
    BY <2>1, FrameTypes, AboutFrames
  <2>5. ASSUME NEW p \in RoutesOf(x), Send(p, Snapshot(x)) PROVE Stays
    <3>1. p \in Ports
      BY <1>0 DEF RoutesOf, TypeInv, TypeOK
    <3>2. QED BY <1>11, <2>3, <2>4, <2>5, <3>1
  <2>6. UNCHANGED toWorker => Stays
    BY <2>3 DEF Touches
  <2>7. QED BY <1>1, <2>2, <2>3, <2>5, <2>6
<1>13. ASSUME NEW n \in Panels, StopArrives(n) PROVE OnePort'
  <2> DEFINE t == Head(posted[n]).id
  <2>1. t \in Turns
    BY <1>0, <1>13, ArriveType, PostFields DEF StopArrives
  <2>2. UNCHANGED toWorker \/ \E p \in StopTarget(n, t) : Send(p, Frame("chat_stop", t))
    BY <1>13 DEF StopArrives
  <2>3. UNCHANGED <<working, sentOver, turnToBridgePort, fromWorker, toPanel, said, shown>>
    BY <1>13 DEF StopArrives, Arrives
  <2> HIDE DEF t
  <2>4. /\ Frame("chat_stop", t) \in Frames
        /\ \A u \in Turns : About(Frame("chat_stop", t), u) => u = t
    BY <2>1, FrameTypes, AboutFrames
  <2>5. ASSUME NEW p \in StopTarget(n, t), Send(p, Frame("chat_stop", t)) PROVE Stays
    <3>1. p \in Ports /\ turnToBridgePort[t] = p
      BY <1>0 DEF StopTarget, TypeInv, TypeOK
    <3>2. QED BY <1>11, <2>3, <2>4, <2>5, <3>1
  <2>6. UNCHANGED toWorker => Stays
    BY <2>3 DEF Touches
  <2>7. QED BY <1>1, <2>2, <2>3, <2>5, <2>6
<1>14. ASSUME NEW n \in Panels, PanelMounts(n) \/ AsksAgain(n) \/ UserStops(n) PROVE OnePort'
  BY <1>1, <1>14 DEF PanelMounts, AsksAgain, UserStops, Touches
<1>15. ASSUME NEW n \in Panels, WatchdogFires(n) PROVE OnePort'
  BY <1>1, <1>15 DEF WatchdogFires, Touches
<1>16. ASSUME NEW n \in Panels, NEW x \in Places, PanelSwitches(n, x) PROVE OnePort'
  BY <1>1, <1>16 DEF PanelSwitches, Touches
<1>17. ASSUME NEW n \in Panels, NEW x \in Places, PanelConnects(n, x) PROVE OnePort'
  <2>1. Stays
    BY <1>17 DEF PanelConnects, Touches
  <2>2. \A m \in Panels : toPanel'[m] \in {toPanel[m], <<LiveAfter({})>>}
    BY <1>0, <1>17 DEF PanelConnects, TypeInv, TypeOK, Queues
  <2>3. \A t \in Turns : ~In(<<LiveAfter({})>>, t)
    <3>1. \A t \in Turns : ~About(LiveAfter({}), t)
      BY AboutFrames DEF LiveAfter
    <3>2. QED BY <3>1 DEF In
  <2>4. QED BY <1>1, <1>17, <2>1, <2>2, <2>3 DEF PanelConnects
<1>18. ASSUME NEW n \in Panels, PanelCloses(n) PROVE OnePort'
  <2>1. Stays
    <3>1. ASSUME NEW t \in Turns PROVE turnToBridgePort'[t] \in {turnToBridgePort[t], NoPort}
      BY <1>18, UnpinnedPorts DEF PanelCloses, Forget
    <3>2. QED BY <1>18, <3>1, TurnsAssumption DEF PanelCloses, Touches
  <2>2. \A m \in Panels, t \in Turns : In(toPanel'[m], t) => In(toPanel[m], t)
    BY <1>0, <1>18 DEF PanelCloses, In, TypeInv, TypeOK, Queues
  <2>3. QED BY <1>1, <1>18, <2>1, <2>2 DEF PanelCloses
<1>19. ASSUME NEW n \in Panels, PanelReceives(n) PROVE OnePort'
  <2>1. \A m \in Panels, t \in Turns : In(toPanel'[m], t) => In(toPanel[m], t)
    <3>1. toPanel[n] \in Seq(Frames) /\ toPanel[n] # <<>>
      BY <1>0, <1>19 DEF PanelReceives, TypeInv, TypeOK, Queues
    <3>2. \A m \in Panels : toPanel'[m] = IF m = n THEN Tail(toPanel[n]) ELSE toPanel[m]
      BY <1>0, <1>19 DEF PanelReceives, TypeInv, TypeOK, Queues
    <3>3. QED BY <3>1, <3>2, InQueues
  <2>2. Stays
    BY <1>19 DEF PanelReceives, Touches
  <2>3. UNCHANGED said
    BY <1>19 DEF PanelReceives
  <2>4. CASE UNCHANGED shown
    BY <1>1, <2>1, <2>2, <2>3, <2>4
  <2>5. CASE shown' # shown
    <3>1. /\ \A t \in Turns \ {active[n]} : shown'[t] = shown[t]
          /\ Head(toPanel[n]).type = "item" /\ Head(toPanel[n]).id = active[n]
      BY <1>0, <1>19, <2>5 DEF PanelReceives, Streams, TypeInv, TypeOK
    <3>2. toPanel[n] \in Seq(Frames) /\ toPanel[n] # <<>>
      BY <1>0, <1>19 DEF PanelReceives, TypeInv, TypeOK, Queues
    <3>3. In(toPanel[n], active[n])
      BY <3>1, <3>2, InQueues DEF About
    <3>4. \A t \in Turns : Unsent(t) => t # active[n]
      BY <3>3 DEF OnePort, Fresh
    <3>5. QED BY <2>1, <2>2, <2>3, <3>1, <3>4, StaysAtPort
  <2>6. QED BY <2>4, <2>5
<1>20. ASSUME NEW p \in Ports, WorkerTakes(p) PROVE OnePort'
  <2> DEFINE f == Head(toWorker[p])
  <2>1. toWorker[p] \in Seq(Frames) /\ toWorker[p] # <<>> /\ f \in Frames
    BY <1>0, <1>20, Dequeue DEF WorkerTakes, TypeInv, TypeOK, Queues
  <2>2. \A q \in Ports, t \in Turns : In(toWorker'[q], t) => In(toWorker[q], t)
    <3>1. \A q \in Ports : toWorker'[q] = IF q = p THEN Tail(toWorker[p]) ELSE toWorker[q]
      BY <1>0, <1>20 DEF WorkerTakes, TypeInv, TypeOK, Queues
    <3>2. QED BY <2>1, <3>1, InQueues
  <2>3. \A t \in Turns : About(f, t) => Touches(t, p)
    BY <2>1, InQueues DEF Touches
  <2>4. CASE f.type \in {"chat_request", "chat_stop", "interaction_respond"}
    <3>1. f.id \in Turns /\ Touches(f.id, p)
      <4>1. f.id \in Turns /\ About(f, f.id)
        BY <2>1, <2>4, FrameFields DEF About
      <4>2. QED BY <2>3, <4>1
    <3>2. /\ Frame("chat_error", f.id) \in Frames /\ \A ok \in BOOLEAN : Receipt(f.id, ok) \in Frames
          /\ \A t \in Turns : /\ About(Frame("chat_error", f.id), t) => t = f.id
                              /\ \A ok \in BOOLEAN : About(Receipt(f.id, ok), t) => t = f.id
      BY <3>1, FrameTypes, AboutFrames DEF EndTypes
    <3>3. \/ UNCHANGED fromWorker \/ Answers(p, Frame("chat_error", f.id))
          \/ Answers(p, Receipt(f.id, TRUE)) \/ Answers(p, Receipt(f.id, FALSE))
      BY <1>20, <2>4 DEF WorkerTakes
    <3>4. UNCHANGED working \/ Works(p, f.id) \/ Quits(p, f.id)
      BY <1>20, <2>4 DEF WorkerTakes
    <3> HIDE DEF f
    <3>5. \A q \in Ports : working'[q] \subseteq working[q]
                           \/ (q = p /\ \A t \in working'[p] : Touches(t, p))
      <4>1. working \in [Ports -> SUBSET Turns]
        BY <1>0 DEF TypeInv, TypeOK
      <4>2. \A t \in working[p] : Touches(t, p)
        BY DEF Touches
      <4>3. QED BY <3>1, <3>4, <4>1, <4>2 DEF Works, Quits
    <3>6. Stays
      <4>1. UNCHANGED <<sentOver, turnToBridgePort>>
        BY <1>20 DEF WorkerTakes
      <4>2. CASE UNCHANGED fromWorker
        BY <2>2, <3>5, <4>1, <4>2 DEF Touches
      <4>3. ASSUME NEW g \in {Frame("chat_error", f.id), Receipt(f.id, TRUE), Receipt(f.id, FALSE)},
                   Answers(p, g)
            PROVE  Stays
        <5>1. g \in Frames /\ \A t \in Turns : About(g, t) => Touches(t, p)
          BY <3>1, <3>2
        <5>2. QED BY <1>0, <2>2, <3>5, <4>1, <4>3, <5>1, AnswersTouch
      <4>4. QED BY <3>3, <4>2, <4>3
    <3>7. QED BY <1>1, <1>20, <3>6 DEF WorkerTakes
  <2>5. CASE f.type \notin {"chat_request", "chat_stop", "interaction_respond"}
    <3>1. Answers(p, Snapshot(serves[p])) /\ UNCHANGED working
      BY <1>20, <2>5 DEF WorkerTakes
    <3>2. Snapshot(serves[p]) \in Frames /\ \A t \in Turns : ~About(Snapshot(serves[p]), t)
      BY <1>0, <1>20, FrameTypes, AboutFrames DEF WorkerTakes, TypeInv, TypeOK, SocketsInOrder
    <3>3. Stays
      BY <1>0, <1>20, <2>2, <3>1, <3>2, AnswersTouch DEF WorkerTakes
    <3>4. QED BY <1>1, <1>20, <3>3 DEF WorkerTakes
  <2>6. QED BY <2>4, <2>5
<1>21. ASSUME NEW p \in Ports, NEW t \in Turns, t \in working[p], NEW f \in Frames, Answers(p, f),
              \A u \in Turns : About(f, u) => u = t,
              \A q \in Ports : working'[q] \subseteq working[q],
              UNCHANGED <<toWorker, sentOver, turnToBridgePort>>
       PROVE  Stays
  <2>1. Touches(t, p)
    BY <1>21 DEF Touches
  <2>2. QED BY <1>0, <1>21, <2>1, AnswersTouch
<1>22. ASSUME NEW p \in Ports, NEW t \in Turns, WorkerSays(p, t) PROVE OnePort'
  <2>1. Item(t, said[t] + 1) \in Frames /\ \A u \in Turns : About(Item(t, said[t] + 1), u) => u = t
    <3>1. said[t] + 1 \in Pieces
      BY <1>0, <1>22, TurnsAssumption DEF WorkerSays, TypeInv, TypeOK, Pieces
    <3>2. QED BY <3>1, FrameTypes, AboutFrames
  <2>2. Stays
    BY <1>21, <1>22, <2>1 DEF WorkerSays
  <2>3. Touches(t, p)
    BY <1>22 DEF WorkerSays, Touches
  <2>4. \A u \in Turns \ {t} : said'[u] = said[u]
    BY <1>0, <1>22 DEF WorkerSays, TypeInv, TypeOK
  <2>5. ~Unsent(t)
    BY <2>3 DEF OnePort, Fresh
  <2>6. QED BY <1>22, <2>2, <2>4, <2>5, StaysAtPort DEF WorkerSays
<1>23. ASSUME NEW p \in Ports, NEW t \in Turns, WorkerSignals(p, t) PROVE OnePort'
  <2>1. PICK f \in Frames : Answers(p, f) /\ \A u \in Turns : About(f, u) => u = t
    <3>1. Question(serves[p]) \in Frames /\ \A u \in Turns : ~About(Question(serves[p]), u)
      BY <1>0, <1>23, FrameTypes, AboutFrames DEF WorkerSignals, TypeInv, TypeOK, SocketsInOrder
    <3>2. \A type \in AliveTypes : /\ Frame(type, t) \in Frames
                                   /\ \A u \in Turns : About(Frame(type, t), u) => u = t
      BY FrameTypes, AboutFrames
    <3>3. QED BY <1>23, <3>1, <3>2 DEF WorkerSignals
  <2>2. Stays
    BY <1>21, <1>23, <2>1 DEF WorkerSignals
  <2>3. QED BY <1>1, <1>23, <2>2 DEF WorkerSignals
<1>24. ASSUME NEW p \in Ports, NEW t \in Turns, WorkerEnds(p, t) PROVE OnePort'
  <2>1. PICK f \in Frames : Answers(p, f) /\ \A u \in Turns : About(f, u) => u = t
    <3>1. \A type \in EndTypes : /\ Frame(type, t) \in Frames
                                 /\ \A u \in Turns : About(Frame(type, t), u) => u = t
      BY FrameTypes, AboutFrames
    <3>2. QED BY <1>24, <3>1 DEF WorkerEnds
  <2>2. \A q \in Ports : working'[q] \subseteq working[q]
    BY <1>0, <1>24 DEF WorkerEnds, Quits, TypeInv, TypeOK
  <2>3. Stays
    BY <1>21, <1>24, <2>1, <2>2 DEF WorkerEnds
  <2>4. QED BY <1>1, <1>24, <2>3 DEF WorkerEnds
<1>25. ASSUME NEW p \in Ports, NEW t \in Turns, NEW i \in Pieces, WorkerRepeats(p, t, i)
       PROVE  OnePort'
  <2>1. Item(t, i) \in Frames /\ \A u \in Turns : About(Item(t, i), u) => u = t
    BY FrameTypes, AboutFrames
  <2>2. Stays
    BY <1>21, <1>25, <2>1 DEF WorkerRepeats
  <2>3. QED BY <1>1, <1>25, <2>2 DEF WorkerRepeats
<1>26. CASE UNCHANGED vars
  BY <1>1, <1>26 DEF vars, Touches
<1>27. QED
  BY <1>2, <1>3, <1>4, <1>5, <1>6, <1>7, <1>9, <1>10, <1>12, <1>13, <1>14, <1>15, <1>16, <1>17,
     <1>18, <1>19, <1>20, <1>22, <1>23, <1>24, <1>25, <1>26 DEF Next

-----------------------------------------------------------------------------
(* The deltas of a turn are shown in order *)

LEMMA DeltasAreAbout ==
  ASSUME NEW q, NEW t
  PROVE  /\ DeltasIn(q, t) # {} => In(q, t)
         /\ ~In(q, t) => DeltasIn(q, t) = {} /\ Ascends(q, t)
BY DEF DeltasIn, Ascends, IsDelta, In, About

LEMMA DeltasAppended ==
  ASSUME NEW q \in Seq(Frames), NEW t, NEW f \in Frames, Ascends(q, t)
  PROVE  /\ ~IsDelta(f, t) => DeltasIn(Append(q, f), t) = DeltasIn(q, t) /\ Ascends(Append(q, f), t)
         /\ IsDelta(f, t) /\ Below(DeltasIn(q, t), {f.seq}) =>
              DeltasIn(Append(q, f), t) = DeltasIn(q, t) \cup {f.seq} /\ Ascends(Append(q, f), t)
<1> DEFINE r == Append(q, f)
<1>1. /\ Len(q) \in Nat /\ DOMAIN q = 1..Len(q) /\ DOMAIN r = 1..(Len(q) + 1)
      /\ \A i \in 1..Len(q) : r[i] = q[i]
      /\ r[Len(q) + 1] = f
  BY Enqueue
<1> HIDE DEF r
<1>2. ~IsDelta(f, t) => DeltasIn(r, t) = DeltasIn(q, t)
  <2> SUFFICES ASSUME ~IsDelta(f, t) PROVE DeltasIn(r, t) = DeltasIn(q, t) OBVIOUS
  <2>1. \A i \in DOMAIN r : IsDelta(r[i], t) => i \in DOMAIN q
    BY <1>1
  <2>2. QED BY <1>1, <2>1 DEF DeltasIn
<1>3. IsDelta(f, t) => DeltasIn(r, t) = DeltasIn(q, t) \cup {f.seq}
  <2> SUFFICES ASSUME IsDelta(f, t) PROVE DeltasIn(r, t) = DeltasIn(q, t) \cup {f.seq} OBVIOUS
  <2>1. \A i \in DOMAIN r : i \in DOMAIN q \/ i = Len(q) + 1
    BY <1>1
  <2>2. DeltasIn(r, t) \subseteq DeltasIn(q, t) \cup {f.seq}
    BY <1>1, <2>1 DEF DeltasIn
  <2>3. Len(q) + 1 \in DOMAIN r /\ DOMAIN q \subseteq DOMAIN r
    BY <1>1
  <2>4. DeltasIn(q, t) \cup {f.seq} \subseteq DeltasIn(r, t)
    BY <1>1, <2>3 DEF DeltasIn
  <2>5. QED BY <2>2, <2>4
<1>4. ~IsDelta(f, t) => Ascends(r, t)
  BY <1>1 DEF Ascends
<1>5. IsDelta(f, t) /\ Below(DeltasIn(q, t), {f.seq}) => Ascends(r, t)
  <2> SUFFICES ASSUME IsDelta(f, t), Below(DeltasIn(q, t), {f.seq}),
                      NEW i \in DOMAIN r, NEW j \in DOMAIN r,
                      i < j, IsDelta(r[i], t), IsDelta(r[j], t)
               PROVE  r[i].seq < r[j].seq
    BY DEF Ascends
  <2>1. i \in DOMAIN q
    BY <1>1
  <2>2. CASE j \in DOMAIN q
    BY <1>1, <2>1, <2>2 DEF Ascends
  <2>3. CASE j \notin DOMAIN q
    <3>1. j = Len(q) + 1
      BY <1>1, <2>3
    <3>2. q[i].seq \in DeltasIn(q, t)
      BY <1>1, <2>1 DEF DeltasIn
    <3>3. QED BY <1>1, <2>1, <3>1, <3>2 DEF Below
  <2>4. QED BY <2>2, <2>3
<1>6. QED BY <1>2, <1>3, <1>4, <1>5 DEF r

LEMMA DeltasTaken ==
  ASSUME NEW q \in Seq(Frames), q # <<>>, NEW t, Ascends(q, t)
  PROVE  /\ Ascends(Tail(q), t) /\ DeltasIn(Tail(q), t) \subseteq DeltasIn(q, t)
         /\ IsDelta(Head(q), t) => /\ Head(q).seq \in DeltasIn(q, t)
                                   /\ Below({Head(q).seq}, DeltasIn(Tail(q), t))
<1> DEFINE r == Tail(q)
<1>1. /\ Len(q) \in Nat /\ DOMAIN q = 1..Len(q) /\ 1 \in DOMAIN q /\ Head(q) = q[1]
      /\ DOMAIN r = 1..(Len(q) - 1)
      /\ \A i \in DOMAIN r : r[i] = q[i + 1] /\ i + 1 \in DOMAIN q
  BY Dequeue
<1> HIDE DEF r
<1>2. Ascends(r, t)
  <2> SUFFICES ASSUME NEW i \in DOMAIN r, NEW j \in DOMAIN r,
                      i < j, IsDelta(r[i], t), IsDelta(r[j], t)
               PROVE  r[i].seq < r[j].seq
    BY DEF Ascends
  <2>1. i + 1 \in DOMAIN q /\ j + 1 \in DOMAIN q /\ i + 1 < j + 1
    BY <1>1
  <2>2. QED BY <1>1, <2>1 DEF Ascends
<1>3. DeltasIn(r, t) \subseteq DeltasIn(q, t)
  BY <1>1 DEF DeltasIn
<1>4. IsDelta(Head(q), t) => Head(q).seq \in DeltasIn(q, t)
  BY <1>1 DEF DeltasIn
<1>5. IsDelta(Head(q), t) => Below({Head(q).seq}, DeltasIn(r, t))
  <2> SUFFICES ASSUME IsDelta(Head(q), t), NEW i \in DOMAIN r, IsDelta(r[i], t)
               PROVE  Head(q).seq < r[i].seq
    BY DEF Below, DeltasIn
  <2>1. i + 1 \in DOMAIN q /\ 1 < i + 1
    BY <1>1
  <2>2. QED BY <1>1, <2>1 DEF Ascends
<1>6. QED BY <1>2, <1>3, <1>4, <1>5 DEF r

\* The failures that a panel is posted are no deltas.
LEMMA DeltasFailed ==
  ASSUME TypeInv, NEW n \in Panels, NEW S, NEW t \in Turns, Ascends(toPanel[n], t)
  PROVE  LET q == toPanel[n] \o Failures(n) \o <<LiveAfter(S)>> IN
         Ascends(q, t) /\ DeltasIn(q, t) = DeltasIn(toPanel[n], t)
<1> DEFINE q == toPanel[n] \o Failures(n) \o <<LiveAfter(S)>>
           a == toPanel[n]
<1>1. /\ Len(a) \in Nat /\ DOMAIN a = 1..Len(a)
      /\ Len(Failures(n)) \in Nat /\ DOMAIN q = 1..(Len(a) + Len(Failures(n)) + 1)
      /\ \A i \in DOMAIN a : q[i] = a[i]
      /\ \A i \in DOMAIN q \ DOMAIN a :
           q[i] = LiveAfter(S) \/ \E u \in Pinned(n) : q[i] = Frame("chat_error", u)
  BY FailedQueue
<1> HIDE DEF q, a
<1>2. ~IsDelta(LiveAfter(S), t) /\ \A u : ~IsDelta(Frame("chat_error", u), t)
  BY DEF IsDelta, LiveAfter, Bridges, Frame
<1>3. \A i \in DOMAIN q : IsDelta(q[i], t) => i \in DOMAIN a
  BY <1>1, <1>2
<1>4. DOMAIN a \subseteq DOMAIN q
  BY <1>1
<1>5. DeltasIn(q, t) = DeltasIn(a, t)
  BY <1>1, <1>3, <1>4 DEF DeltasIn
<1>6. Ascends(q, t)
  BY <1>1, <1>3 DEF Ascends, a
<1>7. QED BY <1>5, <1>6 DEF q, a

LEMMA ThinQueues ==
  ASSUME NEW q \in Seq(Frames), NEW t
  PROVE  /\ Thins(q, q, t) /\ Thins(<<>>, q, t)
         /\ q # <<>> => Thins(Tail(q), q, t)
         /\ \A f \in Frames : ~IsDelta(f, t) => Thins(Append(q, f), q, t)
<1>1. Thins(<<>>, q, t)
  BY DEF Thins, DeltasIn, Ascends
<1>2. q # <<>> => Thins(Tail(q), q, t)
  <2>1. ASSUME q # <<>> PROVE DeltasIn(Tail(q), t) \subseteq DeltasIn(q, t)
    BY <2>1, Dequeue DEF DeltasIn
  <2>2. QED BY <2>1, DeltasTaken DEF Thins
<1>3. ASSUME NEW f \in Frames, ~IsDelta(f, t) PROVE Thins(Append(q, f), q, t)
  <2>1. DeltasIn(Append(q, f), t) \subseteq DeltasIn(q, t)
    <3>1. /\ DOMAIN q = 1..Len(q) /\ DOMAIN Append(q, f) = 1..(Len(q) + 1) /\ Len(q) \in Nat
          /\ \A i \in 1..Len(q) : Append(q, f)[i] = q[i]
          /\ Append(q, f)[Len(q) + 1] = f
      BY Enqueue
    <3>2. \A i \in DOMAIN Append(q, f) : IsDelta(Append(q, f)[i], t) => i \in DOMAIN q
      BY <1>3, <3>1
    <3>3. QED BY <3>1, <3>2 DEF DeltasIn
  <2>2. QED BY <1>3, <2>1, DeltasAppended DEF Thins
<1>4. QED BY <1>1, <1>2, <1>3 DEF Thins

LEMMA ThinFailed ==
  ASSUME BaseInv, NEW S, FailActiveTurns(S), NEW n \in Panels, NEW t \in Turns, Ascends(toPanel[n], t)
  PROVE  Thins(toPanel'[n], toPanel[n], t)
BY DeltasFailed DEF FailActiveTurns, Thins, BaseInv

\* A turn of which nothing new is said, shown or queued stays in order.
LEMMA OrderKept ==
  ASSUME NEW t \in Turns, Ordered(t), asker'[t] = asker[t], said'[t] = said[t], shown'[t] = shown[t],
         \A n \in Panels : asker[t] = n => Thins(toPanel'[n], toPanel[n], t),
         \A p \in Ports : Thins(fromWorker'[p], fromWorker[p], t)
  PROVE  Ordered(t)'
<1> SUFFICES ASSUME NEW n \in Panels, asker'[t] = n
             PROVE  AtPanelOrdered(t, n)' /\ \A p \in Ports : AtPortOrdered(t, n, p)'
  BY DEF Ordered
<1>1. ShownOf(t)' = ShownOf(t)
  BY DEF ShownOf
<1>2. Thins(toPanel'[n], toPanel[n], t) /\ AtPanelOrdered(t, n)
  BY DEF Ordered
<1>3. AtPanelOrdered(t, n)'
  BY <1>1, <1>2 DEF AtPanelOrdered, Thins, Below, UpTo
<1>4. ASSUME NEW p \in Ports PROVE AtPortOrdered(t, n, p)'
  <2>1. AtPortOrdered(t, n, p) /\ Thins(fromWorker'[p], fromWorker[p], t)
    BY DEF Ordered
  <2>2. QED BY <1>1, <1>2, <2>1 DEF AtPortOrdered, Thins, Below, UpTo
<1>5. QED BY <1>3, <1>4

LEMMA NewOrdered ==
  ASSUME OnePort, NEW t \in Turns, status[t] = "new", shown'[t] = shown[t],
         \A n \in Panels : Thins(toPanel'[n], toPanel[n], t),
         \A p \in Ports : Thins(fromWorker'[p], fromWorker[p], t)
  PROVE  Ordered(t)'
<1>1. \A n \in Panels : DeltasIn(toPanel'[n], t) = {} /\ Ascends(toPanel'[n], t)
  BY DeltasAreAbout DEF OnePort, Unsent, Fresh, Thins
<1>2. \A p \in Ports : DeltasIn(fromWorker'[p], t) = {} /\ Ascends(fromWorker'[p], t)
  <2>1. \A p \in Ports : ~In(fromWorker[p], t)
    BY DEF OnePort, Unsent, Fresh, Touches
  <2>2. QED BY <2>1, DeltasAreAbout DEF Thins
<1>3. ShownOf(t)' = {}
  BY DEF OnePort, Unsent, Fresh, ShownOf
<1>4. QED BY <1>1, <1>2, <1>3 DEF Ordered, AtPanelOrdered, AtPortOrdered, Below, UpTo

LEMMA QuietOrder ==
  ASSUME OnePort, InOrder, UNCHANGED <<said, shown>>,
         \A t \in Turns : asker'[t] = asker[t] \/ status[t] = "new",
         \A t \in Turns, n \in Panels : asker[t] = n \/ status[t] = "new" =>
           Thins(toPanel'[n], toPanel[n], t),
         \A t \in Turns, p \in Ports : Thins(fromWorker'[p], fromWorker[p], t)
  PROVE  InOrder'
BY OrderKept, NewOrdered DEF InOrder

\* No delta is on its way of a turn that nobody asked for.
LEMMA PanelAscends ==
  ASSUME OnePort, InOrder, NEW t \in Turns, NEW n \in Panels, asker[t] = n \/ status[t] = "new"
  PROVE  Ascends(toPanel[n], t)
BY DeltasAreAbout DEF OnePort, Unsent, Fresh, InOrder, Ordered, AtPanelOrdered

LEMMA InitOrder == Init => InOrder
BY TurnsAssumption DEF Init, Idle, InOrder, Ordered

LEMMA DeltasTyped ==
  ASSUME NEW q \in Seq(Frames), NEW t
  PROVE  DeltasIn(q, t) \subseteq Pieces \ {0}
<1> SUFFICES ASSUME NEW d \in DeltasIn(q, t) PROVE d \in Pieces /\ d # 0
  OBVIOUS
<1>1. PICK i \in DOMAIN q : IsDelta(q[i], t) /\ d = q[i].seq
  BY DEF DeltasIn
<1>2. q[i] \in Frames
  BY <1>1
<1>3. QED BY <1>1, <1>2, FrameFields DEF IsDelta

\* Frames that are not deltas, as the handlers make them.
LEMMA OtherFrames ==
  ASSUME NEW t
  PROVE  /\ \A type, u : ~IsDelta(Frame(type, u), t) \/ type = "item"
         /\ \A u, ok : ~IsDelta(Receipt(u, ok), t)
         /\ \A x : ~IsDelta(Question(x), t) /\ ~IsDelta(Snapshot(x), t)
         /\ \A S : ~IsDelta(Bridges(S), t) /\ ~IsDelta(LiveAfter(S), t)
         /\ \A u : ~IsDelta(Item(u, 0), t)
BY DEF IsDelta, Frame, Receipt, Question, Snapshot, LiveAfter, Bridges, Item

\* The panels' queues are left alone and the worker at p sends no delta.
LEMMA AnswersOrder ==
  ASSUME TypeInv, OnePort, InOrder, NEW p \in Ports, NEW f \in Frames, Answers(p, f),
         \A t \in Turns : ~IsDelta(f, t), UNCHANGED <<said, shown, asker, toPanel>>
  PROVE  InOrder'
<1>1. ASSUME NEW t \in Turns, NEW q \in Ports PROVE Thins(fromWorker'[q], fromWorker[q], t)
  <2>1. fromWorker[q] \in Seq(Frames) /\ fromWorker'[q] \in {fromWorker[q], Append(fromWorker[q], f)}
    BY DEF Answers, TypeInv, TypeOK, Queues
  <2>2. Thins(fromWorker[q], fromWorker[q], t) /\ Thins(Append(fromWorker[q], f), fromWorker[q], t)
    BY <2>1, ThinQueues
  <2>3. QED BY <2>1, <2>2
<1>2. \A t \in Turns, n \in Panels : Thins(toPanel'[n], toPanel[n], t)
  BY ThinQueues DEF TypeInv, TypeOK, Queues
<1>3. QED BY <1>1, <1>2, QuietOrder

\* A delta goes from its worker's queue to the panel's.
LEMMA ReceivesOrder ==
  ASSUME BaseInv, OnePort, InOrder, NEW p \in Ports, ServiceWorkerReceives(p)
  PROVE  InOrder'
<1> DEFINE f == Head(fromWorker[p])
<1> USE DEF sockets, workers, panels, questions
<1>1. /\ fromWorker[p] \in Seq(Frames) /\ fromWorker[p] # <<>> /\ f \in Frames
      /\ \A q \in Ports : fromWorker'[q] = IF q = p THEN Tail(fromWorker[p]) ELSE fromWorker[q]
      /\ \A n \in Panels : toPanel[n] \in Seq(Frames)
      /\ \A n \in Panels : toPanel'[n] \in {toPanel[n], Append(toPanel[n], f)}
      /\ UNCHANGED <<said, shown, asker>>
  BY Dequeue DEF ServiceWorkerReceives, BaseInv, TypeInv, TypeOK, Queues
<1>2. \A t \in Turns, q \in Ports : Thins(fromWorker'[q], fromWorker[q], t)
  <2>1. \A q \in Ports : fromWorker[q] \in Seq(Frames)
    BY DEF BaseInv, TypeInv, TypeOK, Queues
  <2>2. QED BY <1>1, <2>1, ThinQueues
<1> HIDE DEF f
<1>3. ASSUME NEW t \in Turns PROVE Ordered(t)'
  <2>1. CASE ~IsDelta(f, t)
    <3>1. ASSUME NEW n \in Panels PROVE Thins(toPanel'[n], toPanel[n], t)
      <4>1. Thins(toPanel[n], toPanel[n], t) /\ Thins(Append(toPanel[n], f), toPanel[n], t)
        BY <1>1, <2>1, ThinQueues
      <4>2. QED BY <1>1, <4>1
    <3>2. QED BY <1>1, <1>2, <3>1, OrderKept DEF InOrder
  <2>2. CASE IsDelta(f, t)
    <3> SUFFICES ASSUME NEW n \in Panels, asker[t] = n
                 PROVE  AtPanelOrdered(t, n)' /\ \A q \in Ports : AtPortOrdered(t, n, q)'
      BY <1>1 DEF Ordered
    <3>1. /\ AtPanelOrdered(t, n) /\ AtPortOrdered(t, n, p)
          /\ \A q \in Ports : AtPortOrdered(t, n, q)
      BY DEF InOrder, Ordered
    <3>2. f.seq \in DeltasIn(fromWorker[p], t) /\ Below({f.seq}, DeltasIn(fromWorker'[p], t))
      BY <1>1, <2>2, <3>1, DeltasTaken DEF f, AtPortOrdered
    <3>3. ShownOf(t)' = ShownOf(t) /\ said'[t] = said[t]
      BY <1>1 DEF ShownOf
    <3>4. /\ Ascends(toPanel'[n], t)
          /\ DeltasIn(toPanel'[n], t) \subseteq DeltasIn(toPanel[n], t) \cup {f.seq}
      <4>1. Below(DeltasIn(toPanel[n], t), {f.seq})
        BY <3>1, <3>2 DEF AtPortOrdered, Below
      <4>2. /\ Ascends(Append(toPanel[n], f), t)
            /\ DeltasIn(Append(toPanel[n], f), t) = DeltasIn(toPanel[n], t) \cup {f.seq}
        BY <1>1, <2>2, <3>1, <4>1, DeltasAppended DEF AtPanelOrdered
      <4>3. QED BY <1>1, <3>1, <4>2 DEF AtPanelOrdered
    <3>5. AtPanelOrdered(t, n)'
      BY <3>1, <3>2, <3>3, <3>4 DEF AtPanelOrdered, AtPortOrdered, Below, UpTo
    <3>6. AtPortOrdered(t, n, p)'
      BY <1>2, <3>1, <3>2, <3>3, <3>4 DEF AtPortOrdered, Thins, Below, UpTo
    <3>7. ASSUME NEW q \in Ports, q # p PROVE AtPortOrdered(t, n, q)'
      <4>1. Touches(t, p)
        BY <3>2, DeltasAreAbout DEF Touches
      <4>2. ~In(fromWorker[q], t)
        BY <3>7, <4>1 DEF OnePort, Touches
      <4>3. DeltasIn(fromWorker'[q], t) = {} /\ Ascends(fromWorker'[q], t)
        BY <1>1, <3>7, <4>2, DeltasAreAbout
      <4>4. QED BY <4>3 DEF AtPortOrdered, Below, UpTo
    <3>8. QED BY <3>5, <3>6, <3>7
  <2>3. QED BY <2>1, <2>2
<1>4. QED BY <1>3 DEF InOrder

\* What a panel does with an item of its active turn.
LEMMA ShownDelta ==
  ASSUME BaseInv, InOrder, NEW n \in Panels, active[n] # NoTurn,
         toPanel[n] # <<>>, NEW f, f = Head(toPanel[n]),
         f.type = "item", f.id = active[n], Accepts(active[n], f.seq)
  PROVE  /\ f \in Frames /\ f.seq \in Pieces
         /\ shown[active[n]] \in Seq(Pieces)
         /\ Below(ShownOf(active[n]), {f.seq})
         /\ ShownOf(active[n]) = {} <=> f.seq = 0
         /\ f.seq # 0 => IsDelta(f, active[n])
<1> DEFINE t == active[n]
<1>1. t \in Turns /\ asker[t] = n
  BY DEF BaseInv, TypeInv, TypeOK, OpenIsActive
<1>2. toPanel[n] \in Seq(Frames) /\ f \in Frames
  BY Dequeue DEF BaseInv, TypeInv, TypeOK, Queues
<1>3. f.seq \in Pieces
  BY <1>2, FrameFields
<1>4. AtPanelOrdered(t, n)
  BY <1>1 DEF InOrder, Ordered
<1>5. shown[t] \in Seq(Pieces)
  BY <1>1 DEF BaseInv, TypeInv, TypeOK
<1>6. ShownOf(t) = {} <=> shown[t] = <<>>
  <2>1. ShownOf(t) = {} <=> DOMAIN shown[t] = {}
    BY DEF ShownOf
  <2>2. \A s \in Seq(Pieces) : DOMAIN s = {} <=> s = <<>>
    BY LenProperties, EmptySeq
  <2>3. QED BY <1>5, <2>1, <2>2
<1>7. f.seq # 0 => f.seq \in DeltasIn(toPanel[n], t)
  BY <1>2, <1>4, DeltasTaken DEF IsDelta, AtPanelOrdered
<1>8. Below(ShownOf(t), {f.seq})
  <2>1. CASE f.seq = 0
    BY <1>6, <2>1 DEF Accepts, Below
  <2>2. CASE f.seq # 0
    BY <1>4, <1>7, <2>2 DEF AtPanelOrdered, Below
  <2>3. QED BY <2>1, <2>2
<1>9. QED BY <1>2, <1>3, <1>5, <1>6, <1>8 DEF Accepts, IsDelta

\* The panel takes what is first in its queue: a delta of its active turn, after all
\* it shows and before all that is to come; anything else shows nothing.
LEMMA PanelOrder ==
  ASSUME BaseInv, OnePort, InOrder, NEW n \in Panels, PanelReceives(n)
  PROVE  InOrder'
<1> USE DEF sockets, workers, panels, questions
<1> DEFINE f == Head(toPanel[n])
<1>1. /\ toPanel[n] \in Seq(Frames) /\ toPanel[n] # <<>> /\ f \in Frames
      /\ \A m \in Panels : toPanel'[m] = IF m = n THEN Tail(toPanel[n]) ELSE toPanel[m]
      /\ UNCHANGED <<said, asker, fromWorker>>
  BY Dequeue DEF PanelReceives, BaseInv, TypeInv, TypeOK, Queues
<1>2. \A u \in Turns, m \in Panels : Thins(toPanel'[m], toPanel[m], u)
  <2>1. \A m \in Panels : toPanel[m] \in Seq(Frames)
    BY DEF BaseInv, TypeInv, TypeOK, Queues
  <2>2. QED BY <1>1, <2>1, ThinQueues
<1>3. \A u \in Turns, p \in Ports : Thins(fromWorker'[p], fromWorker[p], u)
  BY <1>1, ThinQueues DEF BaseInv, TypeInv, TypeOK, Queues
<1>4. CASE UNCHANGED shown
  BY <1>1, <1>2, <1>3, <1>4, QuietOrder
<1>5. CASE active[n] \notin Turns /\ shown' = [shown EXCEPT ![active[n]] = Append(@, f.seq)]
  <2>1. UNCHANGED shown
    BY <1>5 DEF BaseInv, TypeInv, TypeOK
  <2>2. QED BY <1>4, <2>1
<1>6. ASSUME NEW t \in Turns, t = active[n],
             f.type = "item", f.id = t, Accepts(t, f.seq),
             shown' = [shown EXCEPT ![t] = Append(@, f.seq)]
      PROVE  InOrder'
  <2>1. asker[t] = n
    BY <1>6, TurnsAssumption DEF BaseInv, TypeInv, TypeOK, OpenIsActive
  <2>2. /\ f.seq \in Pieces /\ shown[t] \in Seq(Pieces)
        /\ Below(ShownOf(t), {f.seq})
        /\ f.seq # 0 => IsDelta(f, t)
    BY <1>1, <1>6, ShownDelta, TurnsAssumption
  <2>3. ShownOf(t)' = ShownOf(t) \cup {f.seq}
    <3>1. shown'[t] = Append(shown[t], f.seq)
      BY <1>6, <2>1 DEF BaseInv, TypeInv, TypeOK
    <3>2. /\ Len(shown[t]) \in Nat /\ DOMAIN shown[t] = 1..Len(shown[t])
          /\ DOMAIN shown'[t] = 1..(Len(shown[t]) + 1)
          /\ \A i \in 1..Len(shown[t]) : shown'[t][i] = shown[t][i]
          /\ shown'[t][Len(shown[t]) + 1] = f.seq
      BY <2>2, <3>1, Enqueue
    <3>3. ShownOf(t)' = {shown'[t][i] : i \in DOMAIN shown'[t]}
      BY DEF ShownOf
    <3>4. \A k : k \in 1..(Len(shown[t]) + 1) <=> k \in 1..Len(shown[t]) \/ k = Len(shown[t]) + 1
      BY <3>2
    <3>5. ASSUME NEW x PROVE x \in ShownOf(t)' <=> x \in ShownOf(t) \cup {f.seq}
      BY <3>2, <3>3, <3>4, Zenon DEF ShownOf
    <3>6. QED BY <3>5
  <2>4. AtPanelOrdered(t, n)
    BY <2>1 DEF InOrder, Ordered
  <2>5. /\ DeltasIn(toPanel'[n], t) \subseteq DeltasIn(toPanel[n], t) /\ Ascends(toPanel'[n], t)
        /\ IsDelta(f, t) => /\ f.seq \in DeltasIn(toPanel[n], t)
                            /\ Below({f.seq}, DeltasIn(toPanel'[n], t))
    BY <1>1, <2>4, DeltasTaken DEF AtPanelOrdered
  <2>6. /\ \A d \in DeltasIn(toPanel[n], t) : d \in Nat /\ d # 0
        /\ \A p \in Ports : \A d \in DeltasIn(fromWorker[p], t) : d \in Nat /\ d # 0
    <3>1. \A p \in Ports : fromWorker[p] \in Seq(Frames)
      BY DEF BaseInv, TypeInv, TypeOK, Queues
    <3>2. QED BY <1>1, <3>1, DeltasTyped, TurnsAssumption DEF Pieces
  <2>7. Below({f.seq}, DeltasIn(toPanel'[n], t))
    BY <2>2, <2>5, <2>6 DEF Below
  <2> HIDE DEF f
  <2>8. AtPanelOrdered(t, n)'
    <3>1. UpTo(said'[t], ShownOf(t)')
      BY <1>1, <2>2, <2>3, <2>4, <2>5 DEF AtPanelOrdered, UpTo
    <3>2. Below(ShownOf(t)', DeltasIn(toPanel'[n], t))
      BY <2>3, <2>4, <2>5, <2>7 DEF AtPanelOrdered, Below
    <3>3. UpTo(said'[t], DeltasIn(toPanel'[n], t))
      BY <1>1, <2>4, <2>5 DEF AtPanelOrdered, UpTo
    <3>4. QED BY <2>5, <3>1, <3>2, <3>3 DEF AtPanelOrdered
  <2>9. ASSUME NEW p \in Ports PROVE AtPortOrdered(t, n, p)'
    <3>1. AtPortOrdered(t, n, p)
      BY <2>1 DEF InOrder, Ordered
    <3>2. Below({f.seq}, DeltasIn(fromWorker[p], t))
      <4>1. CASE f.seq = 0
        BY <2>6, <4>1 DEF Below
      <4>2. CASE f.seq # 0
        BY <2>2, <2>5, <3>1, <4>2 DEF AtPortOrdered, Below
      <4>3. QED BY <4>1, <4>2
    <3>3. QED BY <1>1, <2>3, <2>5, <3>1, <3>2 DEF AtPortOrdered, Below
  <2>10. ASSUME NEW u \in Turns, u # t PROVE Ordered(u)'
    <3>1. shown'[u] = shown[u]
      BY <1>6, <2>10 DEF BaseInv, TypeInv, TypeOK
    <3>2. QED BY <1>1, <1>2, <1>3, <3>1, OrderKept DEF InOrder
  <2>11. Ordered(t)'
    BY <1>1, <2>1, <2>8, <2>9 DEF Ordered
  <2>12. QED BY <2>10, <2>11 DEF InOrder
<1>7. QED BY <1>4, <1>5, <1>6 DEF PanelReceives, Streams, EndTypes

\* The next piece of an answer comes after all that has been said.
LEMMA SaysOrder ==
  ASSUME BaseInv, InOrder, NEW p \in Ports, NEW t \in Turns, WorkerSays(p, t)
  PROVE  InOrder'
<1> DEFINE f == Item(t, said[t] + 1)
<1> USE DEF panels
<1>1. /\ said[t] \in Int /\ said[t] + 1 \in Pieces
      /\ said'[t] = said[t] + 1 /\ \A u \in Turns \ {t} : said'[u] = said[u]
      /\ \A q \in Ports : fromWorker[q] \in Seq(Frames)
      /\ \A q \in Ports : fromWorker'[q] = IF q = p THEN Append(fromWorker[p], f) ELSE fromWorker[q]
      /\ \A n \in Panels : toPanel[n] \in Seq(Frames)
      /\ UNCHANGED <<toPanel, asker, shown>>
  BY TurnsAssumption DEF WorkerSays, Answers, BaseInv, TypeInv, TypeOK, Queues, Pieces
<1>2. f \in Frames /\ f.seq = said[t] + 1
  BY <1>1, FrameTypes DEF Item
<1>3. \A u : IsDelta(f, u) <=> u = t /\ said[t] + 1 # 0
  BY DEF IsDelta, Item
<1> HIDE DEF f
<1>4. ASSUME NEW u \in Turns, u # t PROVE Ordered(u)'
  <2>1. \A q \in Ports : /\ Thins(fromWorker[q], fromWorker[q], u)
                         /\ Thins(Append(fromWorker[q], f), fromWorker[q], u)
    BY <1>1, <1>2, <1>3, <1>4, ThinQueues
  <2>2. \A q \in Ports : Thins(fromWorker'[q], fromWorker[q], u)
    BY <1>1, <2>1
  <2>3. \A n \in Panels : Thins(toPanel'[n], toPanel[n], u)
    BY <1>1, ThinQueues
  <2>4. said'[u] = said[u] /\ asker'[u] = asker[u] /\ shown'[u] = shown[u] /\ Ordered(u)
    BY <1>1, <1>4 DEF InOrder
  <2>5. QED BY <2>2, <2>3, <2>4, OrderKept
<1>5. ASSUME NEW n \in Panels, asker[t] = n
      PROVE  AtPanelOrdered(t, n)' /\ \A q \in Ports : AtPortOrdered(t, n, q)'
  <2>1. ShownOf(t)' = ShownOf(t)
    BY <1>1 DEF ShownOf
  <2>2. AtPanelOrdered(t, n) /\ \A q \in Ports : AtPortOrdered(t, n, q)
    BY <1>5 DEF InOrder, Ordered
  <2>3. /\ \A k \in ShownOf(t) : k \in Nat
        /\ \A k \in DeltasIn(toPanel[n], t) : k \in Nat /\ k # 0
        /\ \A q \in Ports : \A k \in DeltasIn(fromWorker[q], t) : k \in Nat /\ k # 0
    <3>1. \A k \in ShownOf(t) : k \in Pieces
      BY DEF ShownOf, BaseInv, TypeInv, TypeOK
    <3>2. QED BY <1>1, <3>1, DeltasTyped, TurnsAssumption DEF Pieces
  <2>4. AtPanelOrdered(t, n)'
    BY <1>1, <2>1, <2>2, <2>3 DEF AtPanelOrdered, UpTo
  <2>5. ASSUME NEW q \in Ports, q # p \/ said[t] + 1 = 0 PROVE AtPortOrdered(t, n, q)'
    <3>1. DeltasIn(fromWorker'[q], t) \subseteq DeltasIn(fromWorker[q], t) /\ Ascends(fromWorker'[q], t)
      <4>1. AtPortOrdered(t, n, q)
        BY <2>2
      <4>2. q # p => fromWorker'[q] = fromWorker[q]
        BY <1>1
      <4>3. said[t] + 1 = 0 => Thins(Append(fromWorker[q], f), fromWorker[q], t)
        BY <1>1, <1>2, <1>3, ThinQueues
      <4>4. fromWorker'[q] \in {fromWorker[q], Append(fromWorker[q], f)}
        BY <1>1
      <4>5. QED BY <2>5, <4>1, <4>2, <4>3, <4>4 DEF AtPortOrdered, Thins
    <3>2. AtPortOrdered(t, n, q)
      BY <2>2
    <3>3. QED BY <1>1, <2>1, <2>3, <3>1, <3>2 DEF AtPortOrdered, Below, UpTo
  <2>6. ASSUME said[t] + 1 # 0 PROVE AtPortOrdered(t, n, p)'
    <3>1. AtPortOrdered(t, n, p)
      BY <2>2
    <3>2. /\ Below(ShownOf(t), {f.seq})
          /\ Below(DeltasIn(toPanel[n], t), {f.seq})
          /\ Below(DeltasIn(fromWorker[p], t), {f.seq})
      <4>1. f.seq > 0 /\ f.seq = said[t] + 1
        BY <1>1, <1>2, <2>6, TurnsAssumption DEF Pieces
      <4>2. QED BY <1>1, <2>2, <2>3, <3>1, <4>1 DEF AtPanelOrdered, AtPortOrdered, Below, UpTo
    <3>3. /\ DeltasIn(fromWorker'[p], t) = DeltasIn(fromWorker[p], t) \cup {f.seq}
          /\ Ascends(fromWorker'[p], t)
      <4>1. fromWorker[p] \in Seq(Frames) /\ fromWorker'[p] = Append(fromWorker[p], f)
        BY <1>1
      <4>2. Ascends(fromWorker[p], t) /\ IsDelta(f, t)
        BY <1>3, <2>6, <3>1 DEF AtPortOrdered
      <4>3. QED BY <1>2, <3>2, <4>1, <4>2, DeltasAppended
    <3>4. UpTo(said'[t], DeltasIn(fromWorker'[p], t))
      <4>1. \A d \in DeltasIn(fromWorker[p], t) : d <= said[t] /\ d \in Nat
        BY <2>3, <3>1 DEF AtPortOrdered, UpTo
      <4>2. \A d \in DeltasIn(fromWorker'[p], t) : d <= said'[t]
        BY <1>1, <1>2, <3>3, <4>1
      <4>3. QED BY <4>2 DEF UpTo
    <3>5. QED BY <1>1, <2>1, <3>1, <3>2, <3>3, <3>4 DEF AtPortOrdered, Below
  <2>7. QED BY <2>4, <2>5, <2>6
<1>6. Ordered(t)'
  BY <1>1, <1>5 DEF Ordered
<1>7. QED BY <1>4, <1>6 DEF InOrder

LEMMA StepOrder == BaseInv /\ OnePort /\ InOrder /\ [Next]_vars /\ [~DeltaRepeats]_vars => InOrder'
<1> SUFFICES ASSUME BaseInv, OnePort, InOrder, [Next]_vars, [~DeltaRepeats]_vars PROVE InOrder'
  OBVIOUS
<1> USE DEF sockets, tables, workers, questions, panels
<1>1. TypeInv
  BY DEF BaseInv
<1>2. /\ \A p \in Ports : fromWorker[p] \in Seq(Frames)
      /\ \A n \in Panels : toPanel[n] \in Seq(Frames)
  BY <1>1 DEF TypeInv, TypeOK, Queues
<1>3. /\ \A p \in Ports, t \in Turns : /\ Thins(fromWorker[p], fromWorker[p], t)
                                       /\ Thins(<<>>, fromWorker[p], t)
      /\ \A n \in Panels, t \in Turns : /\ Thins(toPanel[n], toPanel[n], t)
                                        /\ Thins(<<>>, toPanel[n], t)
  BY <1>2, ThinQueues
<1> DEFINE Silent == UNCHANGED <<said, shown, asker>>
           Sent == \A p \in Ports : fromWorker'[p] \in {fromWorker[p], <<>>}
<1>4. ASSUME Silent, Sent,
             \A n \in Panels : \/ toPanel'[n] \in {toPanel[n], <<>>}
                               \/ \E f \in Frames : /\ \A t \in Turns : ~IsDelta(f, t)
                                                    /\ toPanel'[n] = Append(toPanel[n], f)
      PROVE  InOrder'
  <2>1. \A p \in Ports, t \in Turns : Thins(fromWorker'[p], fromWorker[p], t)
    BY <1>3, <1>4
  <2>2. ASSUME NEW n \in Panels, NEW t \in Turns PROVE Thins(toPanel'[n], toPanel[n], t)
    BY <1>2, <1>3, <1>4, ThinQueues
  <2>3. QED BY <1>4, <2>1, <2>2, QuietOrder
<1>5. ASSUME Silent, Sent, NEW S, FailActiveTurns(S) PROVE InOrder'
  <2>1. \A p \in Ports, t \in Turns : Thins(fromWorker'[p], fromWorker[p], t)
    BY <1>3, <1>5
  <2>2. ASSUME NEW t \in Turns, NEW n \in Panels, asker[t] = n \/ status[t] = "new"
        PROVE  Thins(toPanel'[n], toPanel[n], t)
    BY <1>5, <2>2, PanelAscends, ThinFailed
  <2>3. QED BY <1>5, <2>1, <2>2, QuietOrder
<1>6. ASSUME Silent, Sent, NEW f \in Frames, Broadcast(f), \A t \in Turns : ~IsDelta(f, t) PROVE InOrder'
  BY <1>4, <1>6 DEF Broadcast
<1>7. ASSUME NEW p \in Ports, NEW dies \in BOOLEAN, SocketCloses(p, dies) PROVE InOrder'
  <2>1. Silent /\ Sent
    BY <1>7 DEF SocketCloses, Lost
  <2>2. CASE open = {p}
    BY <1>5, <1>7, <2>1, <2>2 DEF SocketCloses
  <2>3. CASE open # {p}
    <3>1. LiveAfter({p}) \in Frames /\ \A t \in Turns : ~IsDelta(LiveAfter({p}), t)
      BY <1>1, LiveType, OtherFrames
    <3>2. QED BY <1>6, <1>7, <2>1, <2>3, <3>1 DEF SocketCloses
  <2>4. QED BY <2>2, <2>3
<1>8. CASE Heartbeat
  <2>1. Silent /\ Sent
    BY <1>8 DEF Heartbeat, Lost
  <2>2. QED BY <1>5, <1>8, <2>1 DEF Heartbeat
<1>9. CASE Restart
  <2>1. Silent /\ Sent
    BY <1>9 DEF Restart, Lost
  <2>2. QED BY <1>4, <1>9, <2>1 DEF Restart
<1>10. ASSUME NEW t \in Turns, ToolEnds(t) PROVE InOrder'
  <2>1. Silent /\ Sent
    BY <1>10 DEF ToolEnds
  <2>2. /\ Frame("chat_tool_notice", t) \in Frames
        /\ \A u \in Turns : ~IsDelta(Frame("chat_tool_notice", t), u)
    BY FrameTypes, OtherFrames
  <2>3. \A n \in Panels : toPanel'[n] \in {toPanel[n], Append(toPanel[n], Frame("chat_tool_notice", t))}
    BY <1>1, <1>10 DEF ToolEnds, TypeInv, TypeOK, Queues
  <2>4. QED BY <1>4, <2>1, <2>2, <2>3
<1>11. ASSUME NEW n \in Panels, NEW t \in Turns, UserSends(n, t) \/ UserAnswers(n, t) PROVE InOrder'
  <2>1. \A u \in Turns : asker'[u] = asker[u] \/ status[u] = "new"
    BY <1>1, <1>11 DEF UserSends, UserAnswers, Begins, TypeInv, TypeOK
  <2>2. UNCHANGED <<said, shown, fromWorker, toPanel>>
    BY <1>11 DEF UserSends, UserAnswers
  <2>3. QED BY <1>3, <2>1, <2>2, QuietOrder
<1>12. ASSUME NEW n \in Panels, RequestArrives(n) PROVE InOrder'
  <2> DEFINE f == Frame("chat_error", Head(posted[n]).id)
  <2>1. Head(posted[n]).id \in Turns
    BY <1>1, <1>12, ArriveType, PostFields DEF RequestArrives
  <2>2. f \in Frames /\ \A u \in Turns : ~IsDelta(f, u)
    BY <2>1, FrameTypes, OtherFrames
  <2>3. \A m \in Panels : toPanel'[m] \in {toPanel[m], Append(toPanel[m], f)}
    BY <1>1, <1>12 DEF RequestArrives, TypeInv, TypeOK, Queues
  <2>4. Silent /\ Sent
    BY <1>12 DEF RequestArrives, Arrives
  <2> HIDE DEF f
  <2>5. QED BY <1>4, <2>2, <2>3, <2>4
<1>13. ASSUME NEW n \in Panels, AnswerArrives(n) \/ SnapshotArrives(n) \/ StopArrives(n) PROVE InOrder'
  <2>1. UNCHANGED <<said, shown, asker, fromWorker, toPanel>>
    BY <1>13 DEF AnswerArrives, SnapshotArrives, StopArrives, Arrives
  <2>2. QED BY <1>4, <2>1
<1>14. CASE UNCHANGED <<said, shown, asker, fromWorker, toPanel>>
  BY <1>4, <1>14
<1>15. ASSUME NEW n \in Panels, PanelCloses(n) PROVE InOrder'
  <2>1. \A m \in Panels : toPanel'[m] \in {toPanel[m], <<>>}
    BY <1>1, <1>15 DEF PanelCloses, TypeInv, TypeOK, Queues
  <2>2. QED BY <1>4, <1>15, <2>1 DEF PanelCloses
<1>16. ASSUME NEW p \in Ports, WorkerTakes(p) PROVE InOrder'
  <2>1. /\ toWorker[p] \in Seq(Frames) /\ toWorker[p] # <<>>
        /\ UNCHANGED <<said, shown, asker, toPanel>>
    BY <1>1, <1>16 DEF WorkerTakes, TypeInv, TypeOK, Queues
  <2>2. Head(toWorker[p]) \in Frames
    BY <2>1, Dequeue
  <2>3. UNCHANGED fromWorker \/ \E g \in Frames : Answers(p, g) /\ \A t \in Turns : ~IsDelta(g, t)
    <3> DEFINE f == Head(toWorker[p])
    <3>1. f.type \in {"chat_request", "chat_stop", "interaction_respond"} =>
            /\ \A g \in {Frame("chat_error", f.id), Receipt(f.id, TRUE), Receipt(f.id, FALSE)} :
                 g \in Frames /\ \A t \in Turns : ~IsDelta(g, t)
      <4>1. f.type \in {"chat_request", "chat_stop", "interaction_respond"} => f.id \in Turns
        BY <2>2, FrameFields
      <4>2. QED BY <4>1, FrameTypes, OtherFrames
    <3>2. Snapshot(serves[p]) \in Frames /\ \A t \in Turns : ~IsDelta(Snapshot(serves[p]), t)
      BY <1>1, <1>16, FrameTypes, OtherFrames DEF WorkerTakes, TypeInv, TypeOK, SocketsInOrder
    <3>3. \/ UNCHANGED fromWorker \/ Answers(p, Snapshot(serves[p]))
          \/ /\ f.type \in {"chat_request", "chat_stop", "interaction_respond"}
             /\ \E g \in {Frame("chat_error", f.id), Receipt(f.id, TRUE), Receipt(f.id, FALSE)} :
                  Answers(p, g)
      BY <1>16 DEF WorkerTakes
    <3>4. QED BY <3>1, <3>2, <3>3
  <2>4. QED BY <1>1, <1>14, <2>1, <2>3, AnswersOrder
<1>17. ASSUME NEW p \in Ports, NEW t \in Turns, WorkerSignals(p, t) \/ WorkerEnds(p, t)
       PROVE  InOrder'
  <2>1. \E f \in Frames : Answers(p, f) /\ \A u \in Turns : ~IsDelta(f, u)
    <3>1. p \in open => /\ Question(serves[p]) \in Frames
                        /\ \A u \in Turns : ~IsDelta(Question(serves[p]), u)
      BY <1>1, FrameTypes, OtherFrames DEF TypeInv, TypeOK, SocketsInOrder
    <3>2. \A type \in AliveTypes \cup EndTypes : /\ Frame(type, t) \in Frames
                                                 /\ \A u \in Turns : ~IsDelta(Frame(type, t), u)
      BY FrameTypes, OtherFrames DEF AliveTypes, EndTypes
    <3>3. QED BY <1>17, <3>1, <3>2 DEF WorkerSignals, WorkerEnds
  <2>2. QED BY <1>1, <1>17, <2>1, AnswersOrder DEF WorkerSignals, WorkerEnds
<1>18. ASSUME NEW p \in Ports, NEW t \in Turns, NEW i \in Pieces, WorkerRepeats(p, t, i)
       PROVE  InOrder'
  <2>1. CASE i = 0
    <3>1. Item(t, i) \in Frames /\ \A u \in Turns : ~IsDelta(Item(t, i), u)
      BY <2>1, FrameTypes, OtherFrames
    <3>2. QED BY <1>1, <1>18, <3>1, AnswersOrder DEF WorkerRepeats
  <2>2. CASE i # 0
    BY <1>14, <1>18, <2>2 DEF DeltaRepeats, vars
  <2>3. QED BY <2>1, <2>2
<1>19. ASSUME NEW p \in Ports, NEW x \in Places, SocketOpens(p, x) PROVE InOrder'
  <2>1. PICK S \in SUBSET Places : Broadcast(Bridges(S))
    BY <1>1, <1>19 DEF SocketOpens, TypeInv, TypeOK, SocketsInOrder
  <2>2. Silent /\ Sent
    BY <1>19 DEF SocketOpens
  <2>3. QED BY <1>6, <2>1, <2>2, FrameTypes, OtherFrames
<1>20. ASSUME NEW n \in Panels, PanelMounts(n) \/ AsksAgain(n) \/ UserStops(n) \/ WatchdogFires(n)
       PROVE  InOrder'
  BY <1>14, <1>20 DEF PanelMounts, AsksAgain, UserStops, WatchdogFires
<1>21. ASSUME NEW n \in Panels, NEW x \in Places, PanelSwitches(n, x) \/ PanelConnects(n, x)
       PROVE  InOrder'
  <2>1. CASE PanelSwitches(n, x)
    BY <1>14, <2>1 DEF PanelSwitches
  <2>2. CASE PanelConnects(n, x)
    <3>1. \A m \in Panels : toPanel'[m] \in {toPanel[m], <<LiveAfter({})>>}
      BY <1>1, <2>2 DEF PanelConnects, TypeInv, TypeOK, Queues
    <3>2. \A t \in Turns : \A q : Thins(<<LiveAfter({})>>, q, t)
      BY OtherFrames DEF Thins, DeltasIn, Ascends
    <3>3. \A t \in Turns, m \in Panels : Thins(toPanel'[m], toPanel[m], t)
      BY <1>3, <3>1, <3>2
    <3>4. UNCHANGED <<said, shown, asker, fromWorker>>
      BY <2>2 DEF PanelConnects
    <3>5. QED BY <1>3, <3>3, <3>4, QuietOrder
  <2>3. QED BY <1>21, <2>1, <2>2
<1>22. CASE UNCHANGED vars
  BY <1>14, <1>22 DEF vars
<1>23. QED
  BY <1>7, <1>8, <1>9, <1>10, <1>11, <1>12, <1>13, <1>15, <1>16, <1>17, <1>18, <1>19, <1>20,
     <1>21, <1>22, ReceivesOrder, PanelOrder, SaysOrder DEF Next

-----------------------------------------------------------------------------
(* ChatTurns implements ChatTurn *)

LEMMA Phases ==
  ASSUME NEW t \in Turns
  PROVE  /\ Phase(t) = "new" <=> status[t] = "new"
         /\ Phase(t) = "open" <=> status[t] = "open"
         /\ status[t] \notin {"new", "open"} => Phase(t) = "ended"
BY DEF Phase

\* The initial states are ChatTurn's.
LEMMA InitTurn == Init => Turn!TInit
<1> SUFFICES ASSUME Init PROVE [t \in Turns |-> Phase(t)] = [t \in Turns |-> "new"]
  BY DEF Init, Idle, Turn!TInit
<1>1. \A t \in Turns : status[t] = "new"
  BY DEF Init, Idle
<1>2. \A t \in Turns : Phase(t) = "new"
  BY <1>1, Phases
<1>3. QED BY <1>2

\* The panel's turn is over: it ends, or there is none.
LEMMA OverEnds ==
  ASSUME BaseInv, NEW n \in Panels, NEW st \in {"done", "error", "stopped", "left"},
         Over(n, st), UNCHANGED <<asker, shown>>
  PROVE  [Turn!TNext]_(Turn!tvars)
<1>1. status \in [Turns -> Statuses]
  BY DEF BaseInv, TypeInv, TypeOK
<1>2. CASE active[n] = NoTurn
  <2>1. status' = status
    BY <1>1, <1>2, TurnsAssumption DEF Over
  <2>2. QED BY <2>1 DEF Turn!tvars, Phase
<1>3. ASSUME NEW t \in Turns, active[n] = t PROVE Turn!Ends(t)
  <2>1. status[t] = "open"
    BY <1>3, TurnsAssumption DEF BaseInv, OpenIsActive
  <2>2. status'[t] = st /\ \A u \in Turns \ {t} : status'[u] = status[u]
    BY <1>1, <1>3 DEF Over
  <2>3. Phase(t)' = "ended" /\ \A u \in Turns \ {t} : Phase(u)' = Phase(u)
    BY <2>2 DEF Phase
  <2>4. Phase(t) = "open"
    BY <2>1, Phases
  <2>5. [u \in Turns |-> Phase(u)'] = [[u \in Turns |-> Phase(u)] EXCEPT ![t] = "ended"]
    BY <2>3
  <2>6. QED BY <2>4, <2>5 DEF Turn!Ends
<1>4. active[n] \in Turns \cup {NoTurn}
  BY DEF BaseInv, TypeInv, TypeOK
<1>5. QED BY <1>2, <1>3, <1>4 DEF Turn!TNext

LEMMA BeginsOpens ==
  ASSUME BaseInv, NEW n \in Panels, NEW t \in Turns, Begins(n, t), UNCHANGED shown
  PROVE  Turn!TNext
<1>1. status'[t] = "open" /\ \A u \in Turns \ {t} : status'[u] = status[u]
  BY DEF Begins, BaseInv, TypeInv, TypeOK
<1>2. Phase(t)' = "open" /\ \A u \in Turns \ {t} : Phase(u)' = Phase(u)
  BY <1>1 DEF Phase
<1>3. Phase(t) = "new"
  BY Phases DEF Begins
<1>4. \A u \in Turns : asker[u] = n => Phase(u) # "open"
  <2>1. \A u \in Turns : asker[u] = n => status[u] # "open"
    BY TurnsAssumption DEF Begins, BaseInv, OpenIsActive
  <2>2. QED BY <2>1, Phases
<1>5. [u \in Turns |-> Phase(u)'] = [[u \in Turns |-> Phase(u)] EXCEPT ![t] = "open"]
  BY <1>2
<1>6. Turn!Opens(n, t)
  BY <1>3, <1>4, <1>5 DEF Turn!Opens, Begins
<1>7. QED BY <1>6 DEF Turn!TNext

\* An item that the panel accepts comes after all that is shown.
LEMMA ItemShows ==
  ASSUME BaseInv, InOrder, NEW n \in Panels, NEW t \in Turns, t = active[n],
         toPanel[n] # <<>>, NEW f, f = Head(toPanel[n]), f.type = "item", f.id = t,
         Accepts(t, f.seq), shown' = [shown EXCEPT ![t] = Append(@, f.seq)],
         UNCHANGED <<asker, status>>
  PROVE  Turn!TNext
<1>1. f.seq \in Pieces /\ Below(ShownOf(t), {f.seq})
  BY ShownDelta, TurnsAssumption
<1>2. \A j \in DOMAIN shown[t] : shown[t][j] < f.seq
  BY <1>1 DEF Below, ShownOf
<1>3. Phase(t) = "open"
  BY Phases, TurnsAssumption DEF BaseInv, OpenIsActive
<1>4. Turn!Shows(t, f.seq)
  BY <1>2, <1>3 DEF Turn!Shows, Phase
<1>5. QED BY <1>1, <1>4 DEF Turn!TNext

\* Every step is one of ChatTurn's, or changes nothing of what it speaks of.
LEMMA StepTurn == BaseInv /\ InOrder /\ [Next]_vars => [Turn!TNext]_(Turn!tvars)
<1> SUFFICES ASSUME BaseInv, InOrder, [Next]_vars PROVE [Turn!TNext]_(Turn!tvars)
  OBVIOUS
<1> USE DEF panels, questions
<1>1. CASE UNCHANGED <<asker, status, shown>>
  BY <1>1 DEF Turn!tvars, Phase
<1>2. ASSUME NEW n \in Panels, PanelReceives(n) PROVE [Turn!TNext]_(Turn!tvars)
  <2> DEFINE f == Head(toPanel[n])
  <2>1. toPanel[n] # <<>> /\ UNCHANGED asker
    BY <1>2 DEF PanelReceives
  <2>2. CASE UNCHANGED shown /\ \E st \in {"done", "error", "left"} : Over(n, st)
    BY <2>1, <2>2, OverEnds
  <2>3. CASE /\ UNCHANGED status
             /\ f.type = "item" /\ f.id = active[n] /\ Accepts(active[n], f.seq)
             /\ shown' = [shown EXCEPT ![active[n]] = Append(@, f.seq)]
    <3>1. CASE active[n] \in Turns
      BY <2>1, <2>3, <3>1, ItemShows
    <3>2. CASE active[n] \notin Turns
      BY <1>1, <2>1, <2>3, <3>2 DEF BaseInv, TypeInv, TypeOK
    <3>3. QED BY <3>1, <3>2
  <2>4. QED BY <1>1, <1>2, <2>1, <2>2, <2>3 DEF PanelReceives, Streams
<1>3. ASSUME NEW n \in Panels, NEW t \in Turns, UserSends(n, t) \/ UserAnswers(n, t)
      PROVE  [Turn!TNext]_(Turn!tvars)
  BY <1>3, BeginsOpens DEF UserSends, UserAnswers
<1>4. ASSUME NEW n \in Panels,
             \/ PanelMounts(n) \/ AsksAgain(n) \/ UserStops(n) \/ WatchdogFires(n) \/ PanelCloses(n)
             \/ \E type : Arrives(n, type)
      PROVE  [Turn!TNext]_(Turn!tvars)
  BY <1>1, <1>4, OverEnds DEF PanelMounts, AsksAgain, UserStops, WatchdogFires, PanelCloses, Arrives
<1>5. ASSUME NEW n \in Panels, NEW x \in Places, PanelSwitches(n, x) \/ PanelConnects(n, x)
      PROVE  [Turn!TNext]_(Turn!tvars)
  BY <1>1, <1>5, OverEnds DEF PanelSwitches, PanelConnects
<1>6. ASSUME NEW p \in Ports, ServiceWorkerReceives(p) \/ WorkerTakes(p)
      PROVE  [Turn!TNext]_(Turn!tvars)
  BY <1>1, <1>6 DEF ServiceWorkerReceives, WorkerTakes
<1>7. ASSUME NEW p \in Ports, NEW t \in Turns,
             WorkerSays(p, t) \/ WorkerSignals(p, t) \/ WorkerEnds(p, t)
      PROVE  [Turn!TNext]_(Turn!tvars)
  BY <1>1, <1>7 DEF WorkerSays, WorkerSignals, WorkerEnds
<1>8. ASSUME NEW p \in Ports, NEW t \in Turns, NEW i \in Pieces, WorkerRepeats(p, t, i)
      PROVE  [Turn!TNext]_(Turn!tvars)
  BY <1>1, <1>8 DEF WorkerRepeats
<1>9. ASSUME NEW p \in Ports, NEW x \in Places, SocketOpens(p, x)
      PROVE  [Turn!TNext]_(Turn!tvars)
  BY <1>1, <1>9 DEF SocketOpens
<1>10. ASSUME NEW p \in Ports, NEW dies \in BOOLEAN, SocketCloses(p, dies)
       PROVE  [Turn!TNext]_(Turn!tvars)
  BY <1>1, <1>10 DEF SocketCloses
<1>11. ASSUME NEW t \in Turns, ToolEnds(t) PROVE [Turn!TNext]_(Turn!tvars)
  BY <1>1, <1>11 DEF ToolEnds
<1>12. CASE Heartbeat \/ Restart \/ UNCHANGED vars
  BY <1>1, <1>12 DEF Heartbeat, Restart, vars
<1>13. QED
  BY <1>2, <1>3, <1>4, <1>5, <1>6, <1>7, <1>8, <1>9, <1>10, <1>11, <1>12
     DEF Next, RequestArrives, AnswerArrives, SnapshotArrives, StopArrives

LEMMA OrderInvariant == Spec /\ [][~DeltaRepeats]_vars => [](BaseInv /\ OnePort /\ InOrder)
<1>1. Init => BaseInv /\ OnePort /\ InOrder
  BY InitBase, InitPorts, InitOrder
<1>2. BaseInv /\ OnePort /\ InOrder /\ [Next]_vars /\ [~DeltaRepeats]_vars
        => (BaseInv /\ OnePort /\ InOrder)'
  BY StepBase, StepPorts, StepOrder
<1>3. QED BY <1>1, <1>2, PTL DEF Spec

\* Of a worker that sends each delta once, what the panels show of a turn is what
\* ChatTurn promises: it opens once, its pieces are shown in the order of their
\* numbers and none twice, and nothing is shown after it has ended, whatever sockets,
\* panels, timers and the service worker's restarts do in between.
THEOREM TurnImplemented == Spec /\ [][~DeltaRepeats]_vars => TurnIsKept
<1>1. Init => Turn!TInit
  BY InitTurn
<1>2. BaseInv /\ InOrder /\ [Next]_vars => [Turn!TNext]_(Turn!tvars)
  BY StepTurn
<1>3. QED BY <1>1, <1>2, OrderInvariant, PTL DEF Spec, TurnIsKept, Turn!TSpec

-----------------------------------------------------------------------------
(* Turns are pinned while they are under way *)

LEMMA FrameKinds ==
  ASSUME NEW f \in Frames, NEW t
  PROVE  /\ f \in Responds(t) <=> f.type = "interaction_respond" /\ f.id = t
         /\ f \in Receipts(t) <=> f.type = "interaction_receipt" /\ f.id = t
         /\ f \in Starts(t) <=> f.type \in {"chat_request", "interaction_respond"} /\ f.id = t
         /\ f \in Finals(t) <=> /\ f.id = t
                                /\ \/ f.type \in EndTypes
                                   \/ f.type = "interaction_receipt" /\ ~f.accepted
BY DEF Frames, Frame, Receipt, Responds, Receipts, Starts, Finals, EndTypes, AliveTypes

\* What is about a turn that is still to be sent is nowhere.
LEMMA UnsentNowhere ==
  ASSUME OnePort, NEW t \in Turns, Unsent(t), NEW p \in Ports
  PROVE  ~Carries(toWorker[p], Responds(t)) /\ ~Carries(fromWorker[p], Receipts(t))
<1>1. ~In(toWorker[p], t) /\ ~In(fromWorker[p], t)
  BY DEF OnePort, Fresh, Touches
<1>2. QED BY <1>1 DEF In, About, Carries, Responds, Receipts, Frame, Receipt

\* No answer is sent, and no receipt.
LEMMA ReceiptsKept ==
  ASSUME ReceiptedOnce,
         \A t \in Turns, p \in Ports : /\ Fewer(toWorker'[p], toWorker[p], Responds(t))
                                       /\ Fewer(fromWorker'[p], fromWorker[p], Receipts(t))
  PROVE  ReceiptedOnce'
<1> SUFFICES ASSUME NEW t \in Turns, NEW p \in Ports
             PROVE  /\ Once(toWorker'[p], Responds(t)) /\ Once(fromWorker'[p], Receipts(t))
                    /\ ~(Carries(toWorker'[p], Responds(t)) /\ Carries(fromWorker'[p], Receipts(t)))
  BY DEF ReceiptedOnce, Responds, Receipts, Frame, Receipt
<1>1. QED BY DEF ReceiptedOnce, Fewer

LEMMA InitBusy == Init => BusyInv
<1> SUFFICES ASSUME Init PROVE BusyInv
  OBVIOUS
<1>1. ReceiptedOnce /\ StrayStopsWereStranded
  BY DEF Init, Idle, ReceiptedOnce, Once, Carries, StrayStopsWereStranded
<1>2. PinnedIsSent
  BY DEF Init, Idle, PinnedIsSent
<1>3. QED BY <1>1, <1>2 DEF BusyInv

\* The sockets close and all turns are unpinned.
LEMMA LostBusy ==
  ASSUME BaseInv, BusyInv, NEW S, Lost(S), UNCHANGED stranded,
         \A t \in Turns : turnToPort'[t] = NoPanel
  PROVE  BusyInv'
<1>1. \A p \in Ports : /\ toWorker[p] \in Seq(Frames) /\ fromWorker[p] \in Seq(Frames)
                       /\ \/ toWorker'[p] = toWorker[p] /\ fromWorker'[p] = fromWorker[p]
                             /\ sentOver'[p] = sentOver[p]
                          \/ toWorker'[p] = <<>> /\ fromWorker'[p] = <<>>
  BY DEF Lost, BaseInv, TypeInv, TypeOK, Queues
<1>2. ReceiptedOnce'
  BY <1>1, FewerInQueue, ReceiptsKept DEF BusyInv
<1>3. StrayStopsWereStranded'
  BY <1>1 DEF BusyInv, StrayStopsWereStranded
<1>4. QED BY <1>2, <1>3 DEF BusyInv, PinnedIsSent

\* Socket q closes, not as the last one: its turns stay pinned.
LEMMA LeftBusy ==
  ASSUME BaseInv, BusyInv, NEW q \in open, Lost({q}), UNCHANGED <<turnToPort, turnToBridgePort, answerTurns>>,
         stranded' = [stranded EXCEPT ![q] = @ \cup {t \in Turns : turnToBridgePort[t] = q}],
         \A p \in open \ {q} : working'[p] = working[p]
  PROVE  BusyInv'
<1>1. /\ q \in Ports /\ open' = open \ {q}
      /\ \A p \in Ports \ {q} : /\ toWorker'[p] = toWorker[p] /\ fromWorker'[p] = fromWorker[p]
                                /\ sentOver'[p] = sentOver[p] /\ stranded'[p] = stranded[p]
      /\ toWorker'[q] = <<>> /\ fromWorker'[q] = <<>>
      /\ \A p \in Ports : toWorker[p] \in Seq(Frames) /\ fromWorker[p] \in Seq(Frames)
      /\ \A t \in Turns : turnToBridgePort[t] = q => t \in stranded'[q]
  BY DEF Lost, BaseInv, TypeInv, TypeOK, Queues
<1>2. ReceiptedOnce'
  BY <1>1, FewerInQueue, ReceiptsKept DEF BusyInv
<1>3. StrayStopsWereStranded'
  BY <1>1 DEF BusyInv, StrayStopsWereStranded
<1>4. ASSUME NEW t \in Turns, turnToPort'[t] # NoPanel PROVE IsSent(t)'
  <2>1. PICK p \in Ports : p = turnToBridgePort[t]
    BY <1>4 DEF BaseInv, TypeInv, TypeOK, TurnTablesAgree
  <2>2. CASE p = q
    BY <1>1, <2>1, <2>2 DEF IsSent
  <2>3. CASE p # q
    <3>1. t \in stranded[p] \/ SentAt(t, p)
      BY <1>4, <2>1 DEF BusyInv, PinnedIsSent, IsSent
    <3>2. SentAt(t, p) => SentAt(t, p)'
      BY <1>1, <2>3 DEF SentAt, Starts, Responds, Receipts, Finals, Frame, Receipt, EndTypes
    <3>3. QED BY <1>1, <2>1, <2>3, <3>1, <3>2 DEF IsSent, SentAt
  <2>4. QED BY <2>2, <2>3
<1>5. QED BY <1>2, <1>3, <1>4 DEF BusyInv, PinnedIsSent

\* Nothing is sent; a socket may open, and turns may be unpinned.
LEMMA QuietBusy ==
  ASSUME BaseInv, BusyInv, UNCHANGED <<toWorker, fromWorker, sentOver, stranded, answerTurns>>,
         open \subseteq open', \A p \in open : working'[p] = working[p],
         \A t \in Turns : turnToPort'[t] # NoPanel =>
           turnToPort[t] # NoPanel /\ turnToBridgePort'[t] = turnToBridgePort[t]
  PROVE  BusyInv'
<1>1. ReceiptedOnce' /\ StrayStopsWereStranded'
  BY DEF BusyInv, ReceiptedOnce, StrayStopsWereStranded
<1>2. ASSUME NEW t \in Turns, turnToPort'[t] # NoPanel, t \notin stranded[turnToBridgePort'[t]]
      PROVE  SentAt(t, turnToBridgePort[t])'
  <2>1. turnToBridgePort'[t] = turnToBridgePort[t] /\ SentAt(t, turnToBridgePort[t])
    BY <1>2 DEF BusyInv, PinnedIsSent, IsSent
  <2>2. QED BY <2>1 DEF SentAt
<1>3. QED BY <1>1, <1>2 DEF BusyInv, PinnedIsSent, IsSent

\* A panel's post goes out as frame f on socket q, for a turn that is still to be sent
\* or of one that was sent there.
LEMMA SendsBusy ==
  ASSUME BaseInv, OnePort, BusyInv, NEW q \in Ports, NEW f \in Frames, Send(q, f),
         UNCHANGED <<open, fromWorker, working, stranded>>, answerTurns \subseteq answerTurns',
         \A p \in Ports : sentOver[p] \subseteq sentOver'[p],
         f.type = "chat_stop" => f.id \in sentOver'[q] \cup stranded[q],
         \A t \in Turns : f \in Responds(t) => Unsent(t) /\ t \in answerTurns',
         \A t \in Turns : turnToPort'[t] # NoPanel =>
           \/ turnToPort[t] # NoPanel /\ turnToBridgePort'[t] = turnToBridgePort[t]
           \/ /\ Unsent(t) /\ turnToBridgePort'[t] = q
              /\ q \in open /\ t \in sentOver'[q] /\ f \in Starts(t)
  PROVE  BusyInv'
<1>1. /\ \A p \in Ports : toWorker[p] \in Seq(Frames) /\ fromWorker[p] \in Seq(Frames)
      /\ \A p \in Ports : toWorker'[p] = IF p = q THEN Append(toWorker[q], f) ELSE toWorker[p]
  BY DEF Send, BaseInv, TypeInv, TypeOK, Queues
<1>2. ASSUME NEW S, NEW p \in Ports
      PROVE  Carries(toWorker'[p], S) <=> Carries(toWorker[p], S) \/ (p = q /\ f \in S)
  <2>1. toWorker[p] \in Seq(Frames)
    BY <1>1
  <2>2. Carries(Append(toWorker[p], f), S) <=> Carries(toWorker[p], S) \/ f \in S
    BY <2>1, Carried
  <2>3. QED BY <1>1, <2>2
<1>3. ReceiptedOnce'
  <2> SUFFICES ASSUME NEW t \in Turns, NEW p \in Ports
               PROVE  /\ Once(toWorker'[p], Responds(t)) /\ Once(fromWorker'[p], Receipts(t))
                      /\ ~(Carries(toWorker'[p], Responds(t)) /\ Carries(fromWorker'[p], Receipts(t)))
    BY DEF ReceiptedOnce, Responds, Receipts, Frame, Receipt
  <2>1. /\ Once(toWorker[p], Responds(t)) /\ Once(fromWorker[p], Receipts(t))
        /\ ~(Carries(toWorker[p], Responds(t)) /\ Carries(fromWorker[p], Receipts(t)))
    BY DEF BusyInv, ReceiptedOnce
  <2>2. f \in Responds(t) =>
          ~Carries(toWorker[p], Responds(t)) /\ ~Carries(fromWorker[p], Receipts(t))
    BY UnsentNowhere
  <2>3. Once(toWorker'[p], Responds(t))
    <3>1. toWorker[p] \in Seq(Frames) /\ toWorker'[p] \in {toWorker[p], Append(toWorker[p], f)}
      BY <1>1
    <3>2. Once(Append(toWorker[p], f), Responds(t))
      BY <2>1, <2>2, <3>1, OnceInQueue
    <3>3. QED BY <2>1, <3>1, <3>2
  <2>4. QED BY <1>2, <2>1, <2>2, <2>3
<1>4. StrayStopsWereStranded'
  <2> SUFFICES ASSUME NEW p \in Ports, NEW i \in DOMAIN toWorker'[p],
                      toWorker'[p][i].type = "chat_stop"
               PROVE  toWorker'[p][i].id \in sentOver'[p] \cup stranded'[p]
    BY DEF StrayStopsWereStranded
  <2>1. \/ i \in DOMAIN toWorker[p] /\ toWorker'[p][i] = toWorker[p][i]
        \/ p = q /\ toWorker'[p][i] = f
    <3>1. CASE p = q
      <4>1. toWorker[q] \in Seq(Frames) /\ toWorker'[q] = Append(toWorker[q], f)
        BY <1>1
      <4>2. /\ DOMAIN toWorker[q] = 1..Len(toWorker[q]) /\ Len(toWorker[q]) \in Nat
            /\ DOMAIN toWorker'[q] = 1..(Len(toWorker[q]) + 1)
            /\ \A j \in 1..Len(toWorker[q]) : toWorker'[q][j] = toWorker[q][j]
            /\ toWorker'[q][Len(toWorker[q]) + 1] = f
        BY <4>1, Enqueue
      <4>3. i \in DOMAIN toWorker'[q]
        BY <3>1
      <4>4. QED BY <3>1, <4>2, <4>3
    <3>2. CASE p # q
      <4>1. toWorker'[p] = toWorker[p]
        BY <1>1, <3>2
      <4>2. QED BY <4>1
    <3>3. QED BY <3>1, <3>2
  <2>2. QED BY <2>1 DEF BusyInv, StrayStopsWereStranded
<1>5. ASSUME NEW t \in Turns, turnToPort'[t] # NoPanel, t \notin stranded[turnToBridgePort'[t]]
      PROVE  SentAt(t, turnToBridgePort[t])'
  <2>1. CASE turnToPort[t] # NoPanel /\ turnToBridgePort'[t] = turnToBridgePort[t]
    <3>1. SentAt(t, turnToBridgePort[t]) /\ turnToBridgePort[t] \in Ports
      BY <1>5, <2>1 DEF BusyInv, PinnedIsSent, IsSent, SentAt, BaseInv, TypeInv, TypeOK
    <3>2. QED BY <1>2, <2>1, <3>1 DEF SentAt, Starts, Responds, Receipts, Finals, Frame, Receipt, EndTypes
  <2>2. CASE /\ Unsent(t) /\ turnToBridgePort'[t] = q
             /\ q \in open /\ t \in sentOver'[q] /\ f \in Starts(t)
    <3>1. ~Carries(toWorker[q], Responds(t)) /\ ~Carries(fromWorker[q], Receipts(t))
      BY <2>2, UnsentNowhere
    <3>2. Carries(toWorker'[q], Starts(t))
      BY <1>2, <2>2
    <3>3. Carries(toWorker'[q], Responds(t)) \/ Carries(fromWorker'[q], Receipts(t)) => t \in answerTurns'
      BY <1>2, <3>1
    <3>4. QED BY <2>2, <3>2, <3>3 DEF SentAt, Starts, Responds, Receipts, Finals, Frame, Receipt, EndTypes
  <2>3. QED BY <1>5, <2>1, <2>2
<1>6. QED BY <1>3, <1>4, <1>5 DEF BusyInv, PinnedIsSent, IsSent

\* The worker at socket q sends frame f, no receipt; if it quits a turn, f ends it.
LEMMA SaysBusy ==
  ASSUME BaseInv, BusyInv, NEW q \in Ports, NEW f \in Frames, Answers(q, f),
         f.type # "interaction_receipt",
         UNCHANGED <<open, toWorker, sentOver, stranded, turnToPort, turnToBridgePort, answerTurns>>,
         \A p \in Ports : \A t \in working[p] : t \in working'[p] \/ (p = q /\ f \in Finals(t))
  PROVE  BusyInv'
<1>1. /\ \A p \in Ports : toWorker[p] \in Seq(Frames) /\ fromWorker[p] \in Seq(Frames)
      /\ \A p \in Ports : fromWorker'[p] = IF p = q THEN Append(fromWorker[q], f) ELSE fromWorker[p]
  BY DEF Answers, BaseInv, TypeInv, TypeOK, Queues
<1>2. ASSUME NEW S, NEW p \in Ports
      PROVE  Carries(fromWorker'[p], S) <=> Carries(fromWorker[p], S) \/ (p = q /\ f \in S)
  <2>1. fromWorker[p] \in Seq(Frames)
    BY <1>1
  <2>2. Carries(Append(fromWorker[p], f), S) <=> Carries(fromWorker[p], S) \/ f \in S
    BY <2>1, Carried
  <2>3. QED BY <1>1, <2>2
<1>3. \A t \in Turns : f \notin Receipts(t)
  BY FrameKinds
<1>4. ReceiptedOnce'
  <2>1. \A t \in Turns, p \in Ports : /\ Fewer(toWorker'[p], toWorker[p], Responds(t))
                                      /\ Fewer(fromWorker'[p], fromWorker[p], Receipts(t))
    BY <1>1, <1>3, FewerInQueue
  <2>2. QED BY <2>1, ReceiptsKept DEF BusyInv
<1>5. StrayStopsWereStranded'
  BY DEF BusyInv, StrayStopsWereStranded
<1>6. ASSUME NEW t \in Turns, turnToPort'[t] # NoPanel, t \notin stranded[turnToBridgePort'[t]]
      PROVE  SentAt(t, turnToBridgePort[t])'
  <2>1. SentAt(t, turnToBridgePort[t]) /\ turnToBridgePort[t] \in Ports
    BY <1>6 DEF BusyInv, PinnedIsSent, IsSent, SentAt, BaseInv, TypeInv, TypeOK
  <2>2. QED BY <1>2, <1>3, <2>1 DEF SentAt, Starts, Responds, Receipts, Finals, Frame, Receipt, EndTypes
<1>7. QED BY <1>4, <1>5, <1>6 DEF BusyInv, PinnedIsSent, IsSent

\* The frame that ends a turn, or the receipt that refuses it, unpins it.
LEMMA ReceivesBusy ==
  ASSUME BaseInv, OnePort, BusyInv, NEW q \in Ports, ServiceWorkerReceives(q)
  PROVE  BusyInv'
<1> DEFINE f == Head(fromWorker[q])
<1> USE DEF sockets, workers
<1>1. /\ \A p \in Ports : toWorker[p] \in Seq(Frames) /\ fromWorker[p] \in Seq(Frames)
      /\ \A p \in Ports : fromWorker'[p] = IF p = q THEN Tail(fromWorker[q]) ELSE fromWorker[p]
      /\ fromWorker[q] # <<>>
      /\ UNCHANGED <<open, toWorker, working, sentOver, stranded>>
      /\ Unpinned(Forgotten(f))
      /\ answerTurns' = IF f.type = "interaction_receipt" THEN answerTurns \ {f.id} ELSE answerTurns
  BY DEF ServiceWorkerReceives, BaseInv, TypeInv, TypeOK, Queues
<1>2. f \in Frames /\ \A S : Carries(fromWorker[q], S) <=> f \in S \/ Carries(fromWorker'[q], S)
  BY <1>1, Carried, Dequeue
<1> HIDE DEF f
<1>3. ReceiptedOnce'
  <2>1. \A t \in Turns, p \in Ports : /\ Fewer(toWorker'[p], toWorker[p], Responds(t))
                                      /\ Fewer(fromWorker'[p], fromWorker[p], Receipts(t))
    BY <1>1, FewerInQueue
  <2>2. QED BY <2>1, ReceiptsKept DEF BusyInv
<1>4. StrayStopsWereStranded'
  BY <1>1 DEF BusyInv, StrayStopsWereStranded
<1>5. ASSUME NEW t \in Turns, turnToPort'[t] # NoPanel, t \notin stranded[turnToBridgePort'[t]]
      PROVE  SentAt(t, turnToBridgePort[t])'
  <2> DEFINE p == turnToBridgePort[t]
  <2>1. /\ t \notin Forgotten(f) /\ turnToPort[t] # NoPanel
        /\ turnToBridgePort'[t] = p
    BY <1>1, <1>5 DEF Unpinned
  <2>2. SentAt(t, p) /\ p \in Ports
    BY <1>5, <2>1 DEF BusyInv, PinnedIsSent, IsSent, SentAt, BaseInv, TypeInv, TypeOK
  <2>3. PICK r \in Ports : r = p
    BY <2>2
  <2> HIDE DEF p
  <2>4. SentAt(t, r)
    BY <2>2, <2>3
  <2>5. ASSUME f \in Receipts(t) PROVE r = q
    <3>1. About(f, t)
      BY <2>5 DEF Receipts, Receipt, About
    <3>2. In(fromWorker[q], t)
      BY <1>1, <3>1, InQueues DEF f
    <3>3. Touches(t, q) /\ Touches(t, r)
      BY <2>3, <3>2 DEF Touches, p
    <3>4. QED BY <3>3 DEF OnePort
  <2>6. r = q => f \notin Finals(t)
    <3>1. f \in Finals(t) => f.id = t /\ (f.type \in EndTypes \/ (f \in Receipts(t) /\ ~f.accepted))
      BY <1>2, FrameKinds
    <3>2. r = q /\ f \in Receipts(t) => t \in answerTurns /\ f.type = "interaction_receipt"
      BY <1>2, <2>4, FrameKinds DEF SentAt
    <3>3. QED BY <2>1, <3>1, <3>2 DEF Forgotten
  <2>7. t \in working[r] \/ Carries(toWorker[r], Starts(t)) \/ Carries(fromWorker'[r], Finals(t))
    BY <1>1, <1>2, <2>4, <2>6 DEF SentAt
  <2>8. ASSUME Carries(toWorker[r], Responds(t)) \/ Carries(fromWorker'[r], Receipts(t))
        PROVE  t \in answerTurns'
    <3>1. t \in answerTurns
      BY <1>1, <1>2, <2>4, <2>8 DEF SentAt
    <3>2. f \notin Receipts(t)
      <4>1. ASSUME f \in Receipts(t) PROVE FALSE
        <5>1. r = q /\ Carries(fromWorker[r], Receipts(t))
          BY <1>2, <2>5, <4>1
        <5>2. ~Carries(fromWorker'[r], Receipts(t))
          <6>1. Once(fromWorker[q], Receipts(t))
            BY DEF BusyInv, ReceiptedOnce
          <6>2. QED BY <1>1, <4>1, <5>1, <6>1, OnceInQueue DEF f
        <5>3. ~Carries(toWorker[r], Responds(t))
          BY <5>1 DEF BusyInv, ReceiptedOnce
        <5>4. QED BY <2>8, <5>2, <5>3
      <4>2. QED BY <4>1
    <3>3. QED BY <1>1, <1>2, <3>1, <3>2, FrameKinds
  <2>9. SentAt(t, r)'
    BY <1>1, <2>4, <2>7, <2>8 DEF SentAt, Starts, Responds, Receipts, Finals, Frame, Receipt, EndTypes
  <2>10. QED BY <2>1, <2>3, <2>9 DEF SentAt
<1>6. QED BY <1>1, <1>3, <1>4, <1>5 DEF BusyInv, PinnedIsSent, IsSent

\* A worker starts a turn, refuses it, ends it, or finds that it has ended.
LEMMA TakesBusy ==
  ASSUME BaseInv, OnePort, BusyInv, NEW q \in Ports, WorkerTakes(q)
  PROVE  BusyInv'
<1> DEFINE f == Head(toWorker[q])
<1> USE DEF sockets, tables
<1>1. /\ \A p \in Ports : toWorker[p] \in Seq(Frames) /\ fromWorker[p] \in Seq(Frames)
      /\ \A p \in Ports : toWorker'[p] = IF p = q THEN Tail(toWorker[q]) ELSE toWorker[p]
      /\ toWorker[q] # <<>> /\ q \in open
      /\ UNCHANGED <<open, sentOver, stranded, turnToPort, turnToBridgePort, answerTurns>>
  BY DEF WorkerTakes, BaseInv, TypeInv, TypeOK, Queues
<1>2. f \in Frames /\ \A S : Carries(toWorker[q], S) <=> f \in S \/ Carries(toWorker'[q], S)
  BY <1>1, Carried, Dequeue
<1>3. ASSUME NEW g \in Frames, Answers(q, g)
      PROVE  /\ \A S : Carries(fromWorker'[q], S) <=> Carries(fromWorker[q], S) \/ g \in S
             /\ fromWorker'[q] = Append(fromWorker[q], g)
             /\ \A p \in Ports \ {q} : fromWorker'[p] = fromWorker[p]
  <2>1. fromWorker'[q] = Append(fromWorker[q], g) /\ \A p \in Ports \ {q} : fromWorker'[p] = fromWorker[p]
    BY <1>3 DEF Answers, BaseInv, TypeInv, TypeOK, Queues
  <2>2. QED BY <1>1, <2>1, Carried
<1>4. /\ f.type \in {"chat_request", "chat_stop", "interaction_respond"} =>
           /\ f.id \in Turns
           /\ \A g \in {Frame("chat_error", f.id), Receipt(f.id, TRUE), Receipt(f.id, FALSE)} : g \in Frames
      /\ Snapshot(serves[q]) \in Frames
  <2>1. f.type \in {"chat_request", "chat_stop", "interaction_respond"} => f.id \in Turns
    BY <1>2, FrameFields
  <2>2. serves[q] \in Places
    BY <1>1 DEF BaseInv, TypeInv, TypeOK, SocketsInOrder
  <2>3. QED BY <2>1, <2>2, FrameTypes
<1>5. \A t \in Turns : /\ Frame("chat_error", t) \in Finals(t) /\ Receipt(t, FALSE) \in Finals(t)
                       /\ \A u : Frame("chat_error", u) \notin Receipts(t)
                       /\ \A x : Snapshot(x) \notin Receipts(t)
                       /\ \A u, ok : Receipt(u, ok) \in Receipts(t) => u = t
  BY DEF Finals, Receipts, Frame, Receipt, Snapshot, EndTypes
<1>6. \/ UNCHANGED fromWorker
      \/ \E g \in Frames : Answers(q, g) /\ \A t \in Turns : g \in Receipts(t) => f \in Responds(t)
  <2>1. \/ UNCHANGED fromWorker
        \/ Answers(q, Snapshot(serves[q]))
        \/ f.type \in {"chat_request", "chat_stop"} /\ Answers(q, Frame("chat_error", f.id))
        \/ f.type = "interaction_respond" /\ \E ok \in BOOLEAN : Answers(q, Receipt(f.id, ok))
    BY <1>1 DEF WorkerTakes
  <2>2. \A t \in Turns : f.type = "interaction_respond" /\ f.id = t => f \in Responds(t)
    BY <1>2, FrameKinds
  <2>3. QED BY <1>4, <1>5, <2>1, <2>2
<1>7. ASSUME NEW t \in Turns, t \in working[q] \/ f \in Starts(t)
      PROVE  t \in working'[q] \/ Carries(fromWorker'[q], Finals(t))
  <2>1. f \in Starts(t) => f.type \in {"chat_request", "interaction_respond"} /\ f.id = t
    BY <1>2, FrameKinds
  <2>2. working[q] \subseteq Turns /\ working \in [Ports -> SUBSET Turns]
    BY DEF BaseInv, TypeInv, TypeOK
  <2>3. CASE UNCHANGED working /\ f.type = "chat_stop"
    BY <1>7, <2>1, <2>3
  <2>4. CASE f.type \in {"chat_request", "interaction_respond"} /\ Works(q, f.id)
    BY <1>7, <2>1, <2>2, <2>4 DEF Works
  <2>5. CASE Quits(q, f.id) /\ f.type = "chat_stop" /\ Answers(q, Frame("chat_error", f.id))
    <3>1. CASE t = f.id
      BY <1>3, <1>4, <1>5, <2>5, <3>1
    <3>2. CASE t # f.id
      BY <1>7, <2>1, <2>2, <2>5, <3>2 DEF Quits
    <3>3. QED BY <3>1, <3>2
  <2>6. CASE f.type = "chat_request" /\ Answers(q, Frame("chat_error", f.id)) /\ UNCHANGED working
    <3>1. CASE t = f.id
      BY <1>3, <1>4, <1>5, <2>6, <3>1
    <3>2. CASE t # f.id
      BY <1>7, <2>1, <2>6, <3>2
    <3>3. QED BY <3>1, <3>2
  <2>7. CASE f.type = "interaction_respond" /\ Answers(q, Receipt(f.id, FALSE)) /\ UNCHANGED working
    <3>1. CASE t = f.id
      BY <1>3, <1>4, <1>5, <2>7, <3>1
    <3>2. CASE t # f.id
      BY <1>7, <2>1, <2>7, <3>2
    <3>3. QED BY <3>1, <3>2
  <2>8. CASE f.type = "interaction_snapshot" /\ UNCHANGED working
    BY <1>7, <2>1, <2>8
  <2>9. QED BY <1>1, <2>3, <2>4, <2>5, <2>6, <2>7, <2>8 DEF WorkerTakes
<1>8. \A p \in Ports \ {q} : working'[p] = working[p] /\ fromWorker'[p] = fromWorker[p]
  <2>1. \A p \in Ports \ {q} : working'[p] = working[p]
    BY DEF WorkerTakes, Works, Quits, BaseInv, TypeInv, TypeOK
  <2>2. QED BY <1>3, <1>6, <2>1
<1>9. ASSUME NEW t \in Turns
      PROVE  /\ Carries(fromWorker[q], Finals(t)) => Carries(fromWorker'[q], Finals(t))
             /\ Carries(fromWorker'[q], Receipts(t)) =>
                  Carries(fromWorker[q], Receipts(t)) \/ f \in Responds(t)
             /\ Once(fromWorker[q], Receipts(t)) /\ ~(Carries(fromWorker[q], Receipts(t)) /\ f \in Responds(t))
                  => Once(fromWorker'[q], Receipts(t))
  <2>1. CASE UNCHANGED fromWorker
    BY <2>1
  <2>2. ASSUME NEW g \in Frames, Answers(q, g), g \in Receipts(t) => f \in Responds(t)
        PROVE  /\ Carries(fromWorker[q], Finals(t)) => Carries(fromWorker'[q], Finals(t))
               /\ Carries(fromWorker'[q], Receipts(t)) =>
                    Carries(fromWorker[q], Receipts(t)) \/ f \in Responds(t)
               /\ Once(fromWorker[q], Receipts(t)) /\ ~(Carries(fromWorker[q], Receipts(t)) /\ f \in Responds(t))
                    => Once(fromWorker'[q], Receipts(t))
    <3>1. /\ \A S : Carries(fromWorker'[q], S) <=> Carries(fromWorker[q], S) \/ g \in S
          /\ fromWorker'[q] = Append(fromWorker[q], g) /\ fromWorker[q] \in Seq(Frames)
      BY <1>1, <1>3, <2>2
    <3>2. Once(fromWorker[q], Receipts(t)) /\ (g \notin Receipts(t) \/ ~Carries(fromWorker[q], Receipts(t)))
            => Once(fromWorker'[q], Receipts(t))
      BY <3>1, OnceInQueue
    <3>3. QED BY <2>2, <3>1, <3>2
  <2>3. QED BY <1>6, <2>1, <2>2
<1> HIDE DEF f
<1>10. ReceiptedOnce'
  <2> SUFFICES ASSUME NEW t \in Turns, NEW p \in Ports
               PROVE  /\ Once(toWorker'[p], Responds(t)) /\ Once(fromWorker'[p], Receipts(t))
                      /\ ~(Carries(toWorker'[p], Responds(t)) /\ Carries(fromWorker'[p], Receipts(t)))
    BY DEF ReceiptedOnce, Responds, Receipts, Frame, Receipt
  <2>1. /\ Once(toWorker[p], Responds(t)) /\ Once(fromWorker[p], Receipts(t))
        /\ ~(Carries(toWorker[p], Responds(t)) /\ Carries(fromWorker[p], Receipts(t)))
    BY DEF BusyInv, ReceiptedOnce
  <2>2. CASE p = q
    <3>1. /\ Once(Tail(toWorker[q]), Responds(t))
          /\ f \in Responds(t) => ~Carries(Tail(toWorker[q]), Responds(t))
      BY <1>1, <2>1, <2>2, OnceInQueue DEF f
    <3>2. toWorker'[q] = Tail(toWorker[q])
      BY <1>1
    <3>3. QED BY <1>2, <1>9, <2>1, <2>2, <3>1, <3>2
  <2>3. CASE p # q
    BY <1>1, <1>8, <2>1, <2>3
  <2>4. QED BY <2>2, <2>3
<1>11. StrayStopsWereStranded'
  <2> SUFFICES ASSUME NEW p \in Ports, NEW i \in DOMAIN toWorker'[p],
                      toWorker'[p][i].type = "chat_stop"
               PROVE  toWorker'[p][i].id \in sentOver[p] \cup stranded[p]
    BY <1>1 DEF StrayStopsWereStranded
  <2>1. PICK j \in DOMAIN toWorker[p] : toWorker'[p][i] = toWorker[p][j]
    <3>1. CASE p = q
      <4>1. /\ toWorker'[q] = Tail(toWorker[q]) /\ toWorker[q] \in Seq(Frames) /\ toWorker[q] # <<>>
            /\ i \in DOMAIN toWorker'[q]
        BY <1>1, <3>1
      <4>2. toWorker'[q][i] = toWorker[q][i + 1] /\ i + 1 \in DOMAIN toWorker[q]
        BY <4>1, Dequeue
      <4>3. QED BY <3>1, <4>2
    <3>2. CASE p # q
      <4>1. toWorker'[p] = toWorker[p]
        BY <1>1, <3>2
      <4>2. QED BY <4>1
    <3>3. QED BY <3>1, <3>2
  <2>2. QED BY <2>1 DEF BusyInv, StrayStopsWereStranded
<1>12. ASSUME NEW t \in Turns, turnToPort'[t] # NoPanel, t \notin stranded[turnToBridgePort'[t]]
      PROVE  SentAt(t, turnToBridgePort[t])'
  <2>1. PICK p \in Ports : p = turnToBridgePort[t]
    BY <1>1, <1>12 DEF BusyInv, PinnedIsSent, IsSent, SentAt, BaseInv, TypeInv, TypeOK
  <2>2. SentAt(t, p)
    BY <1>1, <1>12, <2>1 DEF BusyInv, PinnedIsSent, IsSent
  <2>3. t \in working'[p] \/ Carries(toWorker'[p], Starts(t)) \/ Carries(fromWorker'[p], Finals(t))
    BY <1>1, <1>2, <1>7, <1>8, <1>9, <2>2 DEF SentAt
  <2>4. Carries(toWorker'[p], Responds(t)) \/ Carries(fromWorker'[p], Receipts(t)) => t \in answerTurns
    BY <1>1, <1>2, <1>8, <1>9, <2>2 DEF SentAt
  <2>5. SentAt(t, p)'
    BY <1>1, <2>2, <2>3, <2>4 DEF SentAt, Starts, Responds, Receipts, Finals, Frame, Receipt, EndTypes
  <2>6. QED BY <1>1, <2>1, <2>5 DEF SentAt
<1>13. QED BY <1>1, <1>10, <1>11, <1>12 DEF BusyInv, PinnedIsSent, IsSent

LEMMA StepBusy == BaseInv /\ OnePort /\ BusyInv /\ [Next]_vars => BusyInv'
<1> SUFFICES ASSUME BaseInv, OnePort, BusyInv, [Next]_vars PROVE BusyInv'
  OBVIOUS
<1> USE DEF sockets, tables, workers, questions, panels
<1>1. /\ TypeInv /\ TypeOK
      /\ \A t \in Turns : turnToPort[t] = NoPanel <=> turnToBridgePort[t] = NoPort
  BY DEF BaseInv, TypeInv, TurnTablesAgree
<1>2. CASE UNCHANGED <<open, working, toWorker, fromWorker, sentOver, stranded, answerTurns,
                       turnToPort, turnToBridgePort>>
  BY <1>2, QuietBusy
<1>3. ASSUME NEW p \in Ports, NEW x \in Places, SocketOpens(p, x) PROVE BusyInv'
  <2>1. \A q \in open : working'[q] = working[q]
    BY <1>1, <1>3 DEF SocketOpens, TypeOK
  <2>2. QED BY <1>3, <2>1, QuietBusy DEF SocketOpens
<1>4. ASSUME NEW S, Unpinned(S), UNCHANGED <<open, working, toWorker, fromWorker, sentOver, stranded, answerTurns>>
      PROVE  BusyInv'
  BY <1>4, QuietBusy DEF Unpinned
<1>5. ASSUME NEW S, Lost(S), UNCHANGED stranded, Unpinned({t \in Turns : turnToPort[t] # NoPanel})
      PROVE  BusyInv'
  BY <1>5, LostBusy DEF Unpinned
<1>6. ASSUME NEW p \in Ports, NEW dies \in BOOLEAN, SocketCloses(p, dies) PROVE BusyInv'
  <2>1. CASE open = {p}
    BY <1>5, <1>6, <2>1 DEF SocketCloses, FailActiveTurns
  <2>2. CASE open # {p}
    <3>1. \A q \in open \ {p} : working'[q] = working[q]
      BY <1>1, <1>6 DEF SocketCloses, TypeOK
    <3>2. QED BY <1>6, <2>2, <3>1, LeftBusy DEF SocketCloses
  <2>3. QED BY <2>1, <2>2
<1>7. CASE Heartbeat
  BY <1>5, <1>7 DEF Heartbeat, FailActiveTurns
<1>8. CASE Restart
  BY <1>8, LostBusy DEF Restart
<1>9. ASSUME NEW n \in Panels, RequestArrives(n) \/ AnswerArrives(n) PROVE BusyInv'
  <2>0. PICK t : t = Head(posted[n]).id
    OBVIOUS
  <2>1. t \in Turns /\ Unsent(t) /\ UNCHANGED <<open, fromWorker, working, stranded>>
    BY <1>9, <2>0, SentOnce DEF RequestArrives, AnswerArrives, Arrives
  <2>2. CASE UNCHANGED <<turnToPort, turnToBridgePort, answerTurns, toWorker, sentOver>>
    BY <1>2, <2>1, <2>2
  <2>3. ASSUME NEW p \in RoutesOf(Head(posted[n]).place),
               NEW type \in {"chat_request", "interaction_respond"},
               Pin(t, n, p), Send(p, Frame(type, t)), sentOver' = [sentOver EXCEPT ![p] = @ \cup {t}],
               answerTurns \subseteq answerTurns', type = "interaction_respond" => t \in answerTurns'
        PROVE  BusyInv'
    <3> DEFINE f == Frame(type, t)
    <3>1. p \in Ports /\ p \in open
      BY <1>1 DEF RoutesOf, TypeOK
    <3>2. /\ f \in Frames /\ f \in Starts(t) /\ f.type = type
          /\ \A u \in Turns : f \in Responds(u) => u = t /\ type = "interaction_respond"
      BY <2>1, FrameTypes DEF Starts, Responds, Frame
    <3>3. t \in sentOver'[p] /\ \A q \in Ports : sentOver[q] \subseteq sentOver'[q]
      BY <1>1, <2>1, <2>3, <3>1 DEF TypeOK
    <3>4. /\ turnToBridgePort'[t] = p
          /\ \A u \in Turns \ {t} : turnToPort'[u] = turnToPort[u] /\ turnToBridgePort'[u] = turnToBridgePort[u]
      BY <1>1, <2>1, <2>3 DEF Pin, TypeOK
    <3> HIDE DEF f
    <3>5. Send(p, f)
      BY <2>3 DEF f
    <3>6. QED BY <2>1, <2>3, <3>1, <3>2, <3>3, <3>4, <3>5, SendsBusy
  <2>4. QED BY <1>9, <2>0, <2>1, <2>2, <2>3 DEF RequestArrives, AnswerArrives
<1>10. ASSUME NEW n \in Panels, NEW t \in Turns, UserSends(n, t) \/ UserAnswers(n, t) PROVE BusyInv'
  BY <1>2, <1>10 DEF UserSends, UserAnswers
<1>11. ASSUME NEW n \in Panels, SnapshotArrives(n) PROVE BusyInv'
  <2> DEFINE x == Head(posted[n]).place
  <2>1. x \in Places
    BY <1>1, <1>11, ArriveType, PostFields DEF SnapshotArrives
  <2>2. /\ UNCHANGED toWorker \/ \E p \in RoutesOf(x) : Send(p, Snapshot(x))
        /\ UNCHANGED <<open, fromWorker, working, sentOver, stranded, answerTurns, turnToPort, turnToBridgePort>>
    BY <1>11 DEF SnapshotArrives, Arrives
  <2> HIDE DEF x
  <2>3. /\ Snapshot(x) \in Frames /\ Snapshot(x).type = "interaction_snapshot"
        /\ \A t \in Turns : Snapshot(x) \notin Responds(t)
    BY <2>1, FrameTypes DEF Snapshot, Responds, Frame
  <2>4. ASSUME NEW p \in RoutesOf(x), Send(p, Snapshot(x)) PROVE BusyInv'
    <3>1. p \in Ports
      BY <1>1 DEF RoutesOf, TypeOK
    <3>2. QED BY <2>2, <2>3, <2>4, <3>1, SendsBusy
  <2>5. QED BY <1>2, <2>2, <2>4
<1>12. ASSUME NEW n \in Panels, StopArrives(n) PROVE BusyInv'
  <2> DEFINE t == Head(posted[n]).id
  <2>1. t \in Turns
    BY <1>1, <1>12, ArriveType, PostFields DEF StopArrives
  <2>2. /\ UNCHANGED toWorker \/ \E p \in StopTarget(n, t) : Send(p, Frame("chat_stop", t))
        /\ UNCHANGED <<open, fromWorker, working, sentOver, stranded, answerTurns, turnToPort, turnToBridgePort>>
    BY <1>12 DEF StopArrives, Arrives
  <2> HIDE DEF t
  <2>3. ASSUME NEW p \in StopTarget(n, t), Send(p, Frame("chat_stop", t)) PROVE BusyInv'
    <3>1. p \in Ports /\ turnToBridgePort[t] = p
      BY <1>1 DEF StopTarget, TypeOK
    <3>2. t \in sentOver[p] \cup stranded[p]
      BY <1>1, <2>1, <3>1, TurnsAssumption DEF BusyInv, PinnedIsSent, IsSent, SentAt
    <3>3. /\ Frame("chat_stop", t) \in Frames /\ Frame("chat_stop", t).id = t
          /\ \A u \in Turns : Frame("chat_stop", t) \notin Responds(u)
      BY <2>1, FrameTypes DEF Responds, Frame
    <3>4. QED BY <2>2, <2>3, <3>1, <3>2, <3>3, SendsBusy
  <2>4. QED BY <1>2, <2>2, <2>3
<1>13. ASSUME NEW n \in Panels, PanelCloses(n) PROVE BusyInv'
  BY <1>4, <1>13 DEF PanelCloses, Forget
<1>14. ASSUME NEW p \in Ports, NEW f \in Frames, Answers(p, f), f.type # "interaction_receipt",
              UNCHANGED <<open, toWorker, sentOver, stranded, working, turnToPort, turnToBridgePort, answerTurns>>
       PROVE  BusyInv'
  BY <1>14, SaysBusy
<1>15. ASSUME NEW p \in Ports, NEW t \in Turns, WorkerSays(p, t) PROVE BusyInv'
  <2>1. said[t] + 1 \in Pieces
    BY <1>1, <1>15, TurnsAssumption DEF WorkerSays, TypeOK, Pieces
  <2>2. Item(t, said[t] + 1) \in Frames /\ Item(t, said[t] + 1).type = "item"
    BY <2>1, FrameTypes DEF Item
  <2>3. QED BY <1>14, <1>15, <2>2 DEF WorkerSays
<1>16. ASSUME NEW p \in Ports, NEW t \in Turns, NEW i \in Pieces, WorkerRepeats(p, t, i)
       PROVE  BusyInv'
  <2>1. Item(t, i) \in Frames /\ Item(t, i).type = "item"
    BY FrameTypes DEF Item
  <2>2. QED BY <1>14, <1>16, <2>1 DEF WorkerRepeats
<1>17. ASSUME NEW p \in Ports, NEW t \in Turns, WorkerSignals(p, t) PROVE BusyInv'
  <2>1. Question(serves[p]) \in Frames /\ Question(serves[p]).type = "interaction_event"
    BY <1>1, <1>17, FrameTypes DEF WorkerSignals, TypeInv, TypeOK, SocketsInOrder, Question
  <2>2. \A type \in AliveTypes : Frame(type, t) \in Frames /\ Frame(type, t).type # "interaction_receipt"
    BY FrameTypes DEF Frame, AliveTypes
  <2>3. QED BY <1>14, <1>17, <2>1, <2>2 DEF WorkerSignals
<1>18. ASSUME NEW p \in Ports, NEW t \in Turns, WorkerEnds(p, t) PROVE BusyInv'
  <2>1. PICK type \in EndTypes : Answers(p, Frame(type, t))
    BY <1>18 DEF WorkerEnds
  <2>2. /\ Frame(type, t) \in Frames /\ Frame(type, t).type # "interaction_receipt"
        /\ Frame(type, t) \in Finals(t)
    BY <2>1, FrameTypes DEF Frame, EndTypes, Finals
  <2>3. \A q \in Ports : \A u \in working[q] : u \in working'[q] \/ (q = p /\ u = t)
    BY <1>1, <1>18 DEF WorkerEnds, Quits, TypeOK
  <2>4. QED BY <1>18, <2>1, <2>2, <2>3, SaysBusy DEF WorkerEnds
<1>19. ASSUME NEW t \in Turns, ToolEnds(t) PROVE BusyInv'
  BY <1>2, <1>19 DEF ToolEnds
<1>20. ASSUME NEW n \in Panels,
              PanelMounts(n) \/ AsksAgain(n) \/ UserStops(n) \/ WatchdogFires(n) \/ PanelReceives(n)
       PROVE  BusyInv'
  BY <1>2, <1>20 DEF PanelMounts, AsksAgain, UserStops, WatchdogFires, PanelReceives
<1>21. ASSUME NEW n \in Panels, NEW x \in Places, PanelSwitches(n, x) \/ PanelConnects(n, x)
       PROVE  BusyInv'
  BY <1>2, <1>21 DEF PanelSwitches, PanelConnects
<1>22. CASE UNCHANGED vars
  BY <1>2, <1>22 DEF vars
<1>23. QED
  BY <1>3, <1>6, <1>7, <1>8, <1>9, <1>10, <1>11, <1>12, <1>13, <1>15, <1>16, <1>17, <1>18, <1>19,
     <1>20, <1>21, <1>22, ReceivesBusy, TakesBusy DEF Next

LEMMA BusyInvariant == Spec => [](BaseInv /\ OnePort /\ BusyInv)
<1>1. Init => BaseInv /\ OnePort /\ BusyInv
  BY InitBase, InitPorts, InitBusy
<1>2. BaseInv /\ OnePort /\ BusyInv /\ [Next]_vars => (BaseInv /\ OnePort /\ BusyInv)'
  BY StepBase, StepPorts, StepBusy
<1>3. QED BY <1>1, <1>2, PTL DEF Spec

\* A chat_stop that meets another socket than the one its turn was sent on is of a turn
\* that an earlier socket of that port left pinned by closing while others were open:
\* that is the only way in which turnToBridgePort comes to name a port's next worker.
THEOREM StopsReachTheirWorker == Spec => []StrayStopsWereStranded
<1>1. BusyInv => StrayStopsWereStranded
  BY DEF BusyInv
<1>2. QED BY <1>1, BusyInvariant, PTL

\* isInFlight is true only while a worker has a turn of ours to finish, or because of a
\* turn that a socket left pinned by closing while others were open: every other way in
\* which a turn is lost on the way to its worker or back, or is over, unpins it.
THEOREM BusyIsWorking == Spec => []BusyOnlyWhileWorking
<1>1. BusyInv => BusyOnlyWhileWorking
  BY DEF BusyInv, PinnedIsSent, IsSent, SentAt, BusyOnlyWhileWorking, UnderWay, Carries, Starts, Finals
<1>2. QED BY <1>1, BusyInvariant, PTL


-----------------------------------------------------------------------------
(* Open requests *)

Ends(t) == {Frame(type, t) : type \in EndTypes}

\* What a panel acts on as its turn's.
Tells(t) == {f \in Frames : f.type \notin Untold /\ f.id = t}

Answer(t) == {Post("interaction_respond", t, x) : x \in Places}

\* Panel n's turn is pinned, or its end is under way, or its watchdog is armed and
\* nothing is under way that would disarm it.
Keeps(n, t) ==
  \/ turnToPort[t] = n
  \/ Carries(toPanel[n], Ends(t))
  \/ t \in watched /\ ~Carries(toPanel[n], Tells(t))

RequestsKept == \A n \in chatPanels, t \in Turns \ resumed : active[n] = t => Keeps(n, t)

\* The turns of answers are those that began with one.
AnswersResume ==
  /\ answerTurns \subseteq resumed
  /\ \A n \in Panels, t \in Turns : Carries(posted[n], Answer(t)) => t \in resumed

\* A panel that is nowhere has no turn.
AwayIsIdle == \A n \in Panels : at[n] = NoPlace => active[n] = NoTurn

AnswerInv == AnswersResume /\ AwayIsIdle

\* What a step must not do to a turn that panel n keeps.
Stays(n, t) ==
  /\ turnToPort[t] = n => turnToPort'[t] = n \/ Carries(toPanel'[n], Ends(t))
  /\ Carries(toPanel[n], Ends(t)) => Carries(toPanel'[n], Ends(t))
  /\ t \in watched /\ ~Carries(toPanel[n], Tells(t)) => t \in watched'
  /\ Carries(toPanel'[n], Tells(t)) =>
       Carries(toPanel[n], Tells(t)) \/ turnToPort[t] = n \/ Carries(toPanel'[n], Ends(t))

LEMMA KeepsNext ==
  ASSUME NEW n, NEW t
  PROVE  Keeps(n, t)' <=> \/ turnToPort'[t] = n
                          \/ Carries(toPanel'[n], Ends(t))
                          \/ t \in watched' /\ ~Carries(toPanel'[n], Tells(t))
BY DEF Keeps, Carries, Ends, Tells, Untold, Frame, Frames, EndTypes, AliveTypes, Pieces

LEMMA StaysKept ==
  ASSUME RequestsKept,
         \A n \in chatPanels', t \in Turns \ resumed' : active'[n] = t =>
           \/ Keeps(n, t)'
           \/ n \in chatPanels /\ t \notin resumed /\ active[n] = t /\ Stays(n, t)
  PROVE  RequestsKept'
<1> SUFFICES ASSUME NEW n \in chatPanels', NEW t \in Turns \ resumed', active'[n] = t
             PROVE  Keeps(n, t)'
  BY DEF RequestsKept
<1>1. CASE n \in chatPanels /\ t \notin resumed /\ active[n] = t /\ Stays(n, t)
  <2>1. Keeps(n, t)
    BY <1>1 DEF RequestsKept
  <2>2. QED BY <1>1, <2>1, KeepsNext DEF Keeps, Stays
<1>2. QED BY <1>1

\* Of which turns the frames are that the service worker and the tools post.
LEMMA TellsFrames ==
  ASSUME NEW t \in Turns
  PROVE  /\ \A u \in Turns : /\ Frame("chat_error", u) \in Ends(t) <=> u = t
                             /\ \A type : Frame(type, u) \in Tells(t) => u = t
         /\ \A S : Bridges(S) \notin Tells(t)
         /\ \A f \in Frames : f.type \in EndTypes /\ f.id = t => f \in Ends(t)
         /\ \A f \in Ends(t) : f.type \in EndTypes /\ f.id = t
<1>1. \A u \in Turns : Frame("chat_error", u) \in Ends(t) <=> u = t
  BY DEF Ends, Frame, EndTypes
<1>2. \A u \in Turns : \A type : Frame(type, u) \in Tells(t) => u = t
  BY DEF Tells, Frame
<1>3. \A S : Bridges(S) \notin Tells(t)
  BY DEF Tells, Bridges, Untold
<1>4. ASSUME NEW f \in Frames, f.type \in EndTypes, f.id = t PROVE f \in Ends(t)
  BY <1>4 DEF Frames, Ends, Frame, EndTypes, AliveTypes
<1>5. \A f \in Ends(t) : f.type \in EndTypes /\ f.id = t
  BY DEF Ends, Frame
<1>6. QED BY <1>1, <1>2, <1>3, <1>4, <1>5

LEMMA CarriedOver ==
  ASSUME NEW T, NEW a \in Seq(T), NEW b \in Seq(T), NEW S
  PROVE  Carries(a \o b, S) <=> Carries(a, S) \/ Carries(b, S)
<1>1. /\ Len(a) \in Nat /\ Len(b) \in Nat /\ DOMAIN a = 1..Len(a) /\ DOMAIN b = 1..Len(b)
      /\ DOMAIN (a \o b) = 1..(Len(a) + Len(b))
      /\ \A i \in 1..(Len(a) + Len(b)) :
           (a \o b)[i] = IF i <= Len(a) THEN a[i] ELSE b[i - Len(a)]
  BY ConcatProperties, LenProperties
<1>2. /\ \A i \in DOMAIN a : i \in DOMAIN (a \o b) /\ (a \o b)[i] = a[i]
      /\ \A i \in DOMAIN b : Len(a) + i \in DOMAIN (a \o b) /\ (a \o b)[Len(a) + i] = b[i]
      /\ \A i \in DOMAIN (a \o b) : \/ i \in DOMAIN a /\ (a \o b)[i] = a[i]
                                    \/ i - Len(a) \in DOMAIN b /\ (a \o b)[i] = b[i - Len(a)]
  BY <1>1
<1>3. QED BY <1>2, Zenon DEF Carries

\* Every pinned turn of a panel is told, and nothing of another.
LEMMA FailuresTell ==
  ASSUME TypeInv, NEW n \in Panels, NEW S, NEW t \in Turns
  PROVE  LET q == toPanel[n] \o Failures(n) \o <<LiveAfter(S)>>
         IN  /\ Carries(toPanel[n], Ends(t)) => Carries(q, Ends(t))
             /\ turnToPort[t] = n => Carries(q, Ends(t))
             /\ Carries(q, Tells(t)) => Carries(toPanel[n], Tells(t)) \/ turnToPort[t] = n
<1> DEFINE E == {Frame("chat_error", u) : u \in Pinned(n)}
           f == [u \in Pinned(n) |-> Frame("chat_error", u)]
           b == Failures(n)
<1>1. /\ b \in Seq(Frames) /\ toPanel[n] \in Seq(Frames) /\ LiveAfter(S) \in Frames
      /\ \A i \in DOMAIN b : \E u \in Pinned(n) : b[i] = Frame("chat_error", u)
  BY FailuresType, LiveType DEF TypeInv, TypeOK, Queues
<1>2. \A X : Carries(toPanel[n] \o b \o <<LiveAfter(S)>>, X)
               <=> Carries(toPanel[n], X) \/ Carries(b, X) \/ LiveAfter(S) \in X
  <2> SUFFICES ASSUME NEW X
               PROVE  Carries(toPanel[n] \o b \o <<LiveAfter(S)>>, X)
                        <=> Carries(toPanel[n], X) \/ Carries(b, X) \/ LiveAfter(S) \in X
    OBVIOUS
  <2> HIDE DEF b
  <2>1. toPanel[n] \o b \in Seq(Frames) /\ <<LiveAfter(S)>> \in Seq(Frames)
    BY <1>1, ConcatProperties
  <2>2. Carries(<<LiveAfter(S)>>, X) <=> LiveAfter(S) \in X
    BY DEF Carries
  <2>3. Carries(toPanel[n] \o b, X) <=> Carries(toPanel[n], X) \/ Carries(b, X)
    BY <1>1, CarriedOver
  <2>4. QED BY <2>1, <2>2, <2>3, CarriedOver
<1>3. ASSUME turnToPort[t] = n PROVE Carries(b, Ends(t))
  <2>1. IsFiniteSet(Pinned(n))
    BY TurnsAssumption, FS_Subset DEF TypeInv, FinitelyPinned, Pinned
  <2>2. f \in Surjection(Pinned(n), E)
    BY DEF Surjection
  <2>3. IsFiniteSet(E)
    BY <2>1, <2>2, FS_Surjection
  <2>4. Cardinality(E) \in Nat /\ ExistsBijection(1..Cardinality(E), E)
    BY <2>3, FS_CardinalityType
  <2>5. \E g \in [1..Cardinality(E) -> E] : IsInjective(g)
    BY <2>4 DEF ExistsBijection, Bijection, Injection
  <2>6. b \in [1..Cardinality(E) -> E] /\ IsInjective(b)
    BY <2>5 DEF Failures, SetToSeq
  <2> HIDE DEF f, E, b
  <2>7. b \in Injection(1..Cardinality(E), E)
    BY <2>6 DEF Injection, IsInjective
  <2>8. IsFiniteSet(1..Cardinality(E)) /\ Cardinality(1..Cardinality(E)) = Cardinality(E)
    BY <2>4, FS_Interval
  <2>9. b \in Surjection(1..Cardinality(E), E)
    BY <2>3, <2>7, <2>8, FS_Injection
  <2>10. Frame("chat_error", t) \in E
    BY <1>3 DEF E, Pinned
  <2>11. PICK i \in 1..Cardinality(E) : b[i] = Frame("chat_error", t)
    BY <2>9, <2>10 DEF Surjection
  <2>12. i \in DOMAIN b
    BY <2>6
  <2>13. QED BY <2>11, <2>12, TellsFrames DEF Carries
<1>4. ASSUME Carries(b, Tells(t)) PROVE turnToPort[t] = n
  <2>1. PICK u \in Pinned(n) : Frame("chat_error", u) \in Tells(t)
    BY <1>1, <1>4 DEF Carries
  <2>2. u = t
    BY <2>1, TellsFrames DEF Pinned
  <2>3. QED BY <2>2 DEF Pinned
<1>5. LiveAfter(S) \notin Tells(t)
  BY TellsFrames DEF LiveAfter
<1> HIDE DEF b
<1>6. QED BY <1>2, <1>3, <1>4, <1>5 DEF b

LEMMA InitHeld == Init => AnswerInv /\ RequestsKept
BY TurnsAssumption
   DEF Init, Idle, AnswerInv, AnswersResume, AwayIsIdle, RequestsKept, Carries

\* A step of answerTurns and of what is posted.
LEMMA AnswersKept ==
  ASSUME AnswersResume, resumed \subseteq resumed', answerTurns' \subseteq answerTurns \cup resumed',
         \A n \in Panels, t \in Turns :
           Carries(posted'[n], Answer(t)) => Carries(posted[n], Answer(t)) \/ t \in resumed'
  PROVE  AnswersResume'
<1>1. ASSUME NEW n \in Panels, NEW t \in Turns, Carries(posted'[n], Answer(t)) PROVE t \in resumed'
  BY <1>1 DEF AnswersResume
<1>2. QED BY <1>1 DEF AnswersResume, Carries, Answer, Post

LEMMA AnswerFields ==
  ASSUME NEW t \in Turns
  PROVE  /\ \A m \in Answer(t) : m.type = "interaction_respond" /\ m.id = t
         /\ \A m \in Posts : m.type = "interaction_respond" /\ m.id = t => m \in Answer(t)
<1>1. ASSUME NEW m \in Posts, m.type = "interaction_respond", m.id = t PROVE m \in Answer(t)
  <2>1. m.place \in Places /\ m = Post("interaction_respond", t, m.place)
    BY <1>1 DEF Posts, Post
  <2>2. QED BY <2>1 DEF Answer
<1>2. QED BY <1>1 DEF Answer, Post

LEMMA PostResumes ==
  ASSUME BaseInv, AnswersResume, NEW n \in Panels, NEW m \in Posts, PanelPosts(n, m),
         m.type = "interaction_respond" => m.id \in resumed',
         resumed \subseteq resumed', UNCHANGED answerTurns
  PROVE  AnswersResume'
<1>1. /\ posted[n] \in Seq(Posts)
      /\ \A k \in Panels : posted'[k] = IF k = n THEN Append(posted[n], m) ELSE posted[k]
  BY DEF PanelPosts, BaseInv, TypeInv, TypeOK
<1>2. ASSUME NEW k \in Panels, NEW t \in Turns, Carries(posted'[k], Answer(t))
      PROVE  Carries(posted[k], Answer(t)) \/ t \in resumed'
  <2>1. Carries(posted[k], Answer(t)) \/ m \in Answer(t)
    BY <1>1, <1>2, Carried
  <2>2. QED BY <2>1, AnswerFields
<1>3. QED BY <1>2, AnswersKept

LEMMA StepAnswers ==
  ASSUME BaseInv, AnswerInv, [Next]_vars
  PROVE  AnswersResume'
<1> USE DEF sockets, tables, workers, questions, panels
<1>1. TypeInv /\ AnswersResume
  BY DEF BaseInv, AnswerInv
<1>2. ASSUME UNCHANGED <<posted, resumed>>, answerTurns' \subseteq answerTurns PROVE AnswersResume'
  BY <1>1, <1>2, AnswersKept
<1>3. ASSUME NEW p \in Ports, NEW dies \in BOOLEAN, SocketCloses(p, dies) PROVE AnswersResume'
  BY <1>2, <1>3 DEF SocketCloses
<1>4. CASE Heartbeat
  BY <1>2, <1>4 DEF Heartbeat
<1>5. CASE Restart
  BY <1>5 DEF Restart, AnswersResume, Carries
<1>6. ASSUME NEW p \in Ports, ServiceWorkerReceives(p) PROVE AnswersResume'
  <2>1. UNCHANGED <<posted, resumed>>
    BY <1>6 DEF ServiceWorkerReceives
  <2>2. answerTurns' \subseteq answerTurns
    BY <1>6 DEF ServiceWorkerReceives
  <2>3. QED BY <1>2, <2>1, <2>2
<1>7. ASSUME NEW n \in Panels, NEW t \in Turns, UserSends(n, t) PROVE AnswersResume'
  <2>1. /\ PanelPosts(n, Post("chat_request", t, at[n])) /\ UNCHANGED <<answerTurns, resumed>>
        /\ Post("chat_request", t, at[n]).type = "chat_request"
    BY <1>7 DEF UserSends, Post
  <2>2. Post("chat_request", t, at[n]) \in Posts
    BY <1>1, <2>1, PostFields, PanelsAtPlaces DEF PanelPosts
  <2>3. QED BY <1>1, <2>1, <2>2, PostResumes
<1>8. ASSUME NEW n \in Panels, NEW t \in Turns, UserAnswers(n, t) PROVE AnswersResume'
  <2>1. /\ PanelPosts(n, Post("interaction_respond", t, at[n])) /\ UNCHANGED answerTurns
        /\ resumed' = resumed \cup {t}
        /\ Post("interaction_respond", t, at[n]).id = t
    BY <1>8 DEF UserAnswers, Post
  <2>2. Post("interaction_respond", t, at[n]) \in Posts
    BY <1>1, <2>1, PostFields, PanelsAtPlaces DEF PanelPosts
  <2>3. QED BY <1>1, <2>1, <2>2, PostResumes
<1>9. ASSUME NEW n \in Panels, PanelPosts(n, Snapshot(at[n])), UNCHANGED <<answerTurns, resumed>>
      PROVE  AnswersResume'
  <2>1. Snapshot(at[n]).type = "interaction_snapshot"
    BY DEF Snapshot
  <2>2. Snapshot(at[n]) \in Posts
    BY <1>1, <1>9, PostFields, PanelsAtPlaces DEF PanelPosts
  <2>3. QED BY <1>1, <1>9, <2>1, <2>2, PostResumes
<1>10. ASSUME NEW n \in Panels, PanelMounts(n) \/ AsksAgain(n) PROVE AnswersResume'
  BY <1>9, <1>10 DEF PanelMounts, AsksAgain
<1>11. ASSUME NEW n \in Panels, UserStops(n) PROVE AnswersResume'
  <2>1. /\ PanelPosts(n, Frame("chat_stop", active[n])) /\ active[n] \in Turns
        /\ UNCHANGED <<answerTurns, resumed>>
        /\ Frame("chat_stop", active[n]).type = "chat_stop"
    BY <1>1, <1>11 DEF UserStops, Frame, TypeInv, TypeOK
  <2>2. Frame("chat_stop", active[n]) \in Posts
    BY <2>1, PostFields
  <2>3. QED BY <1>1, <2>1, <2>2, PostResumes
<1>12. ASSUME NEW n \in Panels, PanelReceives(n) PROVE AnswersResume'
  <2>1. UNCHANGED <<answerTurns, resumed>>
    BY <1>12 DEF PanelReceives
  <2>2. UNCHANGED posted \/ PanelPosts(n, Snapshot(at[n]))
    BY <1>12 DEF PanelReceives, Hears
  <2>3. QED BY <1>2, <1>9, <2>1, <2>2
<1>13. ASSUME NEW n \in Panels, PostArrives(n) PROVE AnswersResume'
  <2>1. PICK type : Arrives(n, type)
    BY <1>13 DEF PostArrives, RequestArrives, AnswerArrives, SnapshotArrives, StopArrives
  <2>2. /\ posted[n] \in Seq(Posts) /\ posted[n] # <<>> /\ UNCHANGED resumed
        /\ \A k \in Panels : posted'[k] = IF k = n THEN Tail(posted[n]) ELSE posted[k]
    BY <1>1, <2>1 DEF Arrives, TypeInv, TypeOK
  <2>3. \A k \in Panels, t \in Turns : Carries(posted'[k], Answer(t)) => Carries(posted[k], Answer(t))
    BY <2>2, Carried
  <2>4. answerTurns' \subseteq answerTurns \cup resumed'
    <3>1. CASE AnswerArrives(n)
      <4>1. Head(posted[n]).type = "interaction_respond" /\ Head(posted[n]) \in Posts
        BY <2>2, <3>1, Dequeue DEF AnswerArrives, Arrives
      <4>2. Head(posted[n]).id \in Turns
        BY <4>1, PostFields
      <4>3. Head(posted[n]).id \in resumed
        BY <1>1, <2>2, <4>1, <4>2, AnswerFields, Carried DEF AnswersResume
      <4>4. QED BY <2>2, <3>1, <4>3 DEF AnswerArrives
    <3>2. CASE RequestArrives(n) \/ SnapshotArrives(n) \/ StopArrives(n)
      BY <3>2 DEF RequestArrives, SnapshotArrives, StopArrives
    <3>3. QED BY <1>13, <3>1, <3>2 DEF PostArrives
  <2>5. QED BY <1>1, <2>2, <2>3, <2>4, AnswersKept
<1>14. ASSUME NEW n \in Panels, NEW x \in Places, PanelSwitches(n, x) \/ PanelConnects(n, x)
       PROVE  AnswersResume'
  BY <1>2, <1>14 DEF PanelSwitches, PanelConnects
<1>15. ASSUME NEW n \in Panels, PanelCloses(n) \/ WatchdogFires(n) PROVE AnswersResume'
  BY <1>2, <1>15 DEF PanelCloses, WatchdogFires
<1>16. ASSUME NEW p \in Ports, NEW x \in Places, SocketOpens(p, x) PROVE AnswersResume'
  BY <1>2, <1>16 DEF SocketOpens
<1>17. ASSUME NEW t \in Turns, ToolEnds(t) PROVE AnswersResume'
  BY <1>2, <1>17 DEF ToolEnds
<1>18. ASSUME NEW p \in Ports, WorkerTakes(p) PROVE AnswersResume'
  BY <1>2, <1>18 DEF WorkerTakes
<1>19. ASSUME NEW p \in Ports, NEW t \in Turns,
              WorkerSays(p, t) \/ WorkerSignals(p, t) \/ WorkerEnds(p, t)
       PROVE  AnswersResume'
  BY <1>2, <1>19 DEF WorkerSays, WorkerSignals, WorkerEnds
<1>20. ASSUME NEW p \in Ports, NEW t \in Turns, NEW i \in Pieces, WorkerRepeats(p, t, i)
       PROVE  AnswersResume'
  BY <1>2, <1>20 DEF WorkerRepeats
<1>21. CASE UNCHANGED vars
  BY <1>2, <1>21 DEF vars
<1>22. QED
  BY <1>3, <1>4, <1>5, <1>6, <1>7, <1>8, <1>10, <1>11, <1>12, <1>13, <1>14, <1>15, <1>16, <1>17,
     <1>18, <1>19, <1>20, <1>21 DEF Next, PostArrives

LEMMA StepAway ==
  ASSUME BaseInv, AnswerInv, [Next]_vars
  PROVE  AwayIsIdle'
<1> USE DEF sockets, tables, workers, questions, panels
<1>1. TypeInv /\ AwayIsIdle
  BY DEF BaseInv, AnswerInv
<1>2. ASSUME UNCHANGED <<at, active>> PROVE AwayIsIdle'
  BY <1>1, <1>2 DEF AwayIsIdle
<1>3. ASSUME NEW n \in Panels, NEW st, Over(n, st), UNCHANGED at PROVE AwayIsIdle'
  BY <1>1, <1>3 DEF AwayIsIdle, Over, TypeInv, TypeOK
<1>4. ASSUME NEW n \in Panels, NEW t \in Turns, UserSends(n, t) \/ UserAnswers(n, t)
      PROVE  AwayIsIdle'
  BY <1>1, <1>4 DEF UserSends, UserAnswers, Begins, PanelPosts, AwayIsIdle, TypeInv, TypeOK
<1>5. ASSUME NEW n \in Panels, PanelReceives(n) PROVE AwayIsIdle'
  <2>1. UNCHANGED at /\ (UNCHANGED active \/ \E st : Over(n, st))
    BY <1>5 DEF PanelReceives, Streams
  <2>2. QED BY <1>2, <1>3, <2>1
<1>6. ASSUME NEW n \in Panels, UserStops(n) \/ WatchdogFires(n) PROVE AwayIsIdle'
  BY <1>3, <1>6 DEF UserStops, WatchdogFires
<1>7. ASSUME NEW n \in Panels, NEW x \in Places, PanelSwitches(n, x) \/ PanelConnects(n, x)
      PROVE  AwayIsIdle'
  BY <1>1, <1>7, TurnsAssumption
     DEF PanelSwitches, PanelConnects, Over, AwayIsIdle, TypeInv, TypeOK
<1>8. ASSUME NEW n \in Panels, PanelCloses(n) PROVE AwayIsIdle'
  BY <1>1, <1>8 DEF PanelCloses, Over, AwayIsIdle, TypeInv, TypeOK
<1>9. ASSUME NEW p \in Ports, NEW dies \in BOOLEAN, SocketCloses(p, dies) PROVE AwayIsIdle'
  BY <1>2, <1>9 DEF SocketCloses
<1>10. CASE Heartbeat \/ Restart
  BY <1>2, <1>10 DEF Heartbeat, Restart
<1>11. ASSUME NEW p \in Ports, ServiceWorkerReceives(p) PROVE AwayIsIdle'
  BY <1>2, <1>11 DEF ServiceWorkerReceives
<1>12. ASSUME NEW n \in Panels, PostArrives(n) PROVE AwayIsIdle'
  BY <1>2, <1>12 DEF PostArrives, RequestArrives, AnswerArrives, SnapshotArrives, StopArrives, Arrives
<1>13. ASSUME NEW n \in Panels, PanelMounts(n) \/ AsksAgain(n) PROVE AwayIsIdle'
  BY <1>2, <1>13 DEF PanelMounts, AsksAgain
<1>14. ASSUME NEW p \in Ports, NEW x \in Places, SocketOpens(p, x) PROVE AwayIsIdle'
  BY <1>2, <1>14 DEF SocketOpens
<1>15. ASSUME NEW t \in Turns, ToolEnds(t) PROVE AwayIsIdle'
  BY <1>2, <1>15 DEF ToolEnds
<1>16. ASSUME NEW p \in Ports, WorkerTakes(p) PROVE AwayIsIdle'
  BY <1>2, <1>16 DEF WorkerTakes
<1>17. ASSUME NEW p \in Ports, NEW t \in Turns,
              WorkerSays(p, t) \/ WorkerSignals(p, t) \/ WorkerEnds(p, t)
       PROVE  AwayIsIdle'
  BY <1>2, <1>17 DEF WorkerSays, WorkerSignals, WorkerEnds
<1>18. ASSUME NEW p \in Ports, NEW t \in Turns, NEW i \in Pieces, WorkerRepeats(p, t, i)
       PROVE  AwayIsIdle'
  BY <1>2, <1>18 DEF WorkerRepeats
<1>19. CASE UNCHANGED vars
  BY <1>2, <1>19 DEF vars
<1>20. QED
  BY <1>4, <1>5, <1>6, <1>7, <1>8, <1>9, <1>10, <1>11, <1>12, <1>13, <1>14, <1>15, <1>16,
     <1>17, <1>18, <1>19 DEF Next, PostArrives

\* A step that changes no table but pins a turn of n, and adds one frame at most to each
\* queue, of a turn that is pinned or ends with it.
LEMMA OneFrame ==
  ASSUME BaseInv, RequestsKept, UNCHANGED <<chatPanels, active, watched, resumed>>,
         \A n \in chatPanels, t \in Turns \ resumed : active[n] = t /\ turnToPort[t] = n =>
           turnToPort'[t] = n \/ Carries(toPanel'[n], Ends(t)),
         \A n \in chatPanels : \/ toPanel'[n] = toPanel[n]
                               \/ \E f \in Frames :
                                    /\ toPanel'[n] = Append(toPanel[n], f)
                                    /\ \A t \in Turns : f \in Tells(t) =>
                                         turnToPort[t] = n \/ f \in Ends(t)
  PROVE  RequestsKept'
<1> SUFFICES ASSUME NEW n \in chatPanels, NEW t \in Turns \ resumed, active[n] = t
             PROVE  Stays(n, t)
  BY StaysKept
<1>1. toPanel[n] \in Seq(Frames)
  BY DEF BaseInv, TypeInv, TypeOK, Queues
<1>2. CASE toPanel'[n] = toPanel[n]
  BY <1>2 DEF Stays
<1>3. ASSUME NEW f \in Frames, toPanel'[n] = Append(toPanel[n], f),
             f \in Tells(t) => turnToPort[t] = n \/ f \in Ends(t)
      PROVE  Stays(n, t)
  <2>1. /\ Carries(toPanel'[n], Ends(t)) <=> Carries(toPanel[n], Ends(t)) \/ f \in Ends(t)
        /\ Carries(toPanel'[n], Tells(t)) <=> Carries(toPanel[n], Tells(t)) \/ f \in Tells(t)
    BY <1>1, <1>3, Carried
  <2>2. QED BY <1>3, <2>1 DEF Stays
<1>4. QED BY <1>2, <1>3

\* The turns of a panel are not those of another.
LEMMA OwnTurn ==
  ASSUME BaseInv
  PROVE  \A n \in Panels, t \in Turns : active[n] = t => asker[t] = n /\ status[t] = "open"
BY TurnsAssumption DEF BaseInv, OpenIsActive, TypeInv, TypeOK

LEMMA FailHeld ==
  ASSUME BaseInv, RequestsKept, NEW S, FailActiveTurns(S),
         UNCHANGED <<chatPanels, active, watched, resumed>>
  PROVE  RequestsKept'
<1> SUFFICES ASSUME NEW n \in chatPanels, NEW t \in Turns \ resumed, active[n] = t
             PROVE  Stays(n, t)
  BY StaysKept
<1>1. TypeInv /\ n \in Panels
  BY DEF BaseInv, TypeInv, TypeOK
<1>2. toPanel'[n] = toPanel[n] \o Failures(n) \o <<LiveAfter(S)>>
  BY <1>1 DEF FailActiveTurns
<1>3. QED BY <1>1, <1>2, FailuresTell DEF Stays

LEMMA ReceivesHeld ==
  ASSUME BaseInv, AnswersResume, RequestsKept, NEW p \in Ports, ServiceWorkerReceives(p)
  PROVE  RequestsKept'
<1> DEFINE frame == Head(fromWorker[p])
           to == IF Interaction(frame) THEN Recipients(p)
                 ELSE {n \in chatPanels : turnToPort[frame.id] = n}
<1>1. /\ TypeInv /\ fromWorker[p] \in Seq(Frames) /\ fromWorker[p] # <<>>
      /\ UNCHANGED <<chatPanels, active, watched, resumed>>
      /\ toPanel' = [n \in Panels |-> IF n \in to THEN Append(toPanel[n], frame) ELSE toPanel[n]]
      /\ Unpinned(Forgotten(frame))
  BY DEF ServiceWorkerReceives, panels, questions, BaseInv, TypeInv, TypeOK, Queues
<1>2. frame \in Frames
  BY <1>1, Dequeue
<1> HIDE DEF frame
<1>3. ASSUME NEW n \in chatPanels, NEW t \in Turns \ resumed, turnToPort[t] = n
      PROVE  turnToPort'[t] = n \/ Carries(toPanel'[n], Ends(t))
  <2>1. CASE t \notin Forgotten(frame)
    BY <1>1, <1>3, <2>1 DEF Unpinned
  <2>2. CASE t \in Forgotten(frame)
    <3>1. /\ frame.id = t
          /\ \/ frame.type \in EndTypes
             \/ frame.type = "interaction_receipt" /\ t \in answerTurns
      BY <2>2 DEF Forgotten
    <3>2. frame.type \in EndTypes
      BY <3>1 DEF AnswersResume
    <3>3. n \in to /\ n \in Panels
      BY <1>1, <1>3, <3>1, <3>2 DEF Interaction, EndTypes, TypeInv, TypeOK
    <3>4. frame \in Ends(t) /\ toPanel'[n] = Append(toPanel[n], frame)
      BY <1>1, <1>2, <3>1, <3>2, <3>3, TellsFrames
    <3>5. toPanel[n] \in Seq(Frames)
      BY <1>1, <3>3 DEF TypeInv, TypeOK, Queues
    <3>6. QED BY <1>2, <3>4, <3>5, Carried
  <2>3. QED BY <2>1, <2>2
<1>4. ASSUME NEW n \in chatPanels, NEW t \in Turns, n \in to, frame \in Tells(t)
      PROVE  turnToPort[t] = n
  <2>1. frame.id = t /\ ~Interaction(frame)
    BY <1>4 DEF Tells, Untold, Interaction
  <2>2. QED BY <1>4, <2>1
<1>5. \A n \in chatPanels : toPanel'[n] = IF n \in to THEN Append(toPanel[n], frame) ELSE toPanel[n]
  BY <1>1 DEF TypeInv, TypeOK
<1> HIDE DEF to
<1>6. QED BY <1>1, <1>2, <1>3, <1>4, <1>5, OneFrame

LEMMA PanelHeld ==
  ASSUME BaseInv, RequestsKept, NEW n \in Panels, PanelReceives(n)
  PROVE  RequestsKept'
<1> DEFINE frame == Head(toPanel[n])
           mine == frame.type \notin Untold /\ frame.id = active[n]
<1>1. /\ TypeInv /\ toPanel[n] \in Seq(Frames) /\ toPanel[n] # <<>>
      /\ UNCHANGED <<chatPanels, resumed, turnToPort, asker>>
      /\ \A m \in Panels : toPanel'[m] = IF m = n THEN Tail(toPanel[n]) ELSE toPanel[m]
  BY DEF PanelReceives, tables, BaseInv, TypeInv, TypeOK, Queues
<1>2. frame \in Frames
  BY <1>1, Dequeue
<1>3. \/ mine /\ Streams(n, active[n], frame)
      \/ ~mine /\ UNCHANGED watched /\ (UNCHANGED active \/ \E st : Over(n, st))
  BY DEF PanelReceives, Untold
<1>4. /\ \A m \in Panels \ {n} : active'[m] = active[m]
      /\ active'[n] \in {active[n], NoTurn}
      /\ \A t \in Turns : t \in watched /\ asker[t] # n /\ t # active[n] => t \in watched'
  BY <1>1, <1>3 DEF Streams, Over, TurnsOf, TypeInv, TypeOK
<1>5. mine /\ frame.type \in EndTypes => active'[n] = NoTurn
  BY <1>1, <1>3 DEF Streams, Over, EndTypes, TypeInv, TypeOK
<1> HIDE DEF frame
<1> SUFFICES ASSUME NEW m \in chatPanels, NEW t \in Turns \ resumed, active'[m] = t
             PROVE  active[m] = t /\ Stays(m, t)
  BY <1>1, StaysKept
<1>6. m \in Panels /\ active[m] = t /\ t # NoTurn
  BY <1>1, <1>4, TurnsAssumption DEF TypeInv, TypeOK
<1>7. CASE m # n
  <2>1. asker[t] = m /\ t # active[n]
    BY <1>6, <1>7, OwnTurn
  <2>2. QED BY <1>1, <1>4, <1>6, <1>7, <2>1 DEF Stays
<1>8. CASE m = n
  <2>1. frame \notin Ends(t)
    BY <1>5, <1>6, <1>8, TellsFrames DEF Untold, EndTypes
  <2>2. mine => frame \in Tells(t)
    BY <1>2, <1>6, <1>8 DEF Tells
  <2>3. /\ Carries(toPanel[n], Ends(t)) <=> frame \in Ends(t) \/ Carries(toPanel'[n], Ends(t))
        /\ Carries(toPanel[n], Tells(t)) <=> frame \in Tells(t) \/ Carries(toPanel'[n], Tells(t))
    BY <1>1, Carried DEF frame
  <2> HIDE DEF mine
  <2>4. QED BY <1>1, <1>3, <1>6, <1>8, <2>1, <2>2, <2>3 DEF Stays
<1>9. QED BY <1>7, <1>8

LEMMA PostHeld ==
  ASSUME BaseInv, AnswersResume, RequestsKept, NEW n \in Panels, PostArrives(n)
  PROVE  RequestsKept'
<1> DEFINE t == Head(posted[n]).id
<1>1. UNCHANGED <<chatPanels, active, watched, resumed>>
  BY DEF PostArrives, RequestArrives, AnswerArrives, SnapshotArrives, StopArrives, Arrives, panels, questions
<1>2. CASE SnapshotArrives(n) \/ StopArrives(n)
  <2>1. UNCHANGED <<turnToPort, toPanel>>
    BY <1>2 DEF SnapshotArrives, StopArrives, tables
  <2>2. QED BY <1>1, <2>1, OneFrame
<1>3. CASE RequestArrives(n)
  <2>1. t \in Turns /\ asker[t] = n /\ n \in chatPanels
    BY <1>3, HeadPost DEF RequestArrives
  <2>2. CASE UNCHANGED toPanel /\ \E p : Pin(t, n, p)
    <3>1. \A u \in Turns : turnToPort'[u] = IF u = t THEN n ELSE turnToPort[u]
      BY <2>2 DEF Pin, BaseInv, TypeInv, TypeOK
    <3>2. \A m \in chatPanels, u \in Turns : turnToPort[u] = m /\ active[m] = u => turnToPort'[u] = m
      BY <2>1, <3>1, OwnTurn DEF BaseInv, TypeInv, TypeOK
    <3> HIDE DEF t
    <3>3. QED BY <1>1, <2>2, <3>2, OneFrame
  <2>3. CASE /\ UNCHANGED turnToPort
             /\ toPanel' = [toPanel EXCEPT ![n] = Append(@, Frame("chat_error", t))]
    <3> HIDE DEF t
    <3>1. \A m \in Panels : toPanel'[m] = IF m = n THEN Append(toPanel[n], Frame("chat_error", t))
                                          ELSE toPanel[m]
      BY <2>3 DEF BaseInv, TypeInv, TypeOK, Queues
    <3>2. /\ Frame("chat_error", t) \in Frames
          /\ \A u \in Turns : Frame("chat_error", t) \in Tells(u) => Frame("chat_error", t) \in Ends(u)
      BY <2>1, FrameTypes, TellsFrames
    <3>3. chatPanels \subseteq Panels
      BY DEF BaseInv, TypeInv, TypeOK
    <3>4. QED BY <1>1, <2>3, <3>1, <3>2, <3>3, OneFrame
  <2>4. QED BY <1>3, <2>2, <2>3 DEF RequestArrives
<1>4. CASE AnswerArrives(n)
  <2>1. /\ posted[n] \in Seq(Posts) /\ posted[n] # <<>>
        /\ Head(posted[n]).type = "interaction_respond" /\ UNCHANGED toPanel
    BY <1>4 DEF AnswerArrives, Arrives, BaseInv, TypeInv, TypeOK
  <2>2. Head(posted[n]) \in Posts
    BY <2>1, Dequeue
  <2>3. t \in Turns
    BY <2>1, <2>2, PostFields
  <2>4. t \in resumed
    BY <2>1, <2>2, <2>3, AnswerFields, Carried DEF AnswersResume
  <2>5. UNCHANGED turnToPort \/ \E p : Pin(t, n, p)
    BY <1>4 DEF AnswerArrives
  <2> HIDE DEF t
  <2>6. \A u \in Turns \ resumed : turnToPort'[u] = turnToPort[u]
    BY <2>4, <2>5 DEF Pin, BaseInv, TypeInv, TypeOK
  <2>7. QED BY <1>1, <2>1, <2>6, OneFrame
<1>5. QED BY <1>2, <1>3, <1>4 DEF PostArrives

\* A turn begins; of a request there is nothing under way yet.
LEMMA BeginsHeld ==
  ASSUME BaseInv, OnePort, RequestsKept, NEW n \in Panels, NEW t \in Turns,
         UserSends(n, t) \/ UserAnswers(n, t)
  PROVE  RequestsKept'
<1>1. /\ TypeInv /\ active[n] = NoTurn /\ status[t] = "new"
      /\ \A m \in Panels : active'[m] = IF m = n THEN t ELSE active[m]
      /\ UNCHANGED <<chatPanels, turnToPort, toPanel>>
  BY DEF UserSends, UserAnswers, Begins, tables, BaseInv, TypeInv, TypeOK
<1>2. resumed \subseteq resumed' /\ chatPanels \subseteq Panels
  BY <1>1 DEF UserSends, UserAnswers, questions, TypeInv, TypeOK
<1>3. \A u \in Turns : asker[u] # n /\ u \in watched => u \in watched'
  BY DEF UserSends, UserAnswers, TurnsOf
<1>4. t \notin resumed' => t \in watched'
  BY DEF UserSends, UserAnswers
<1>5. ~Carries(toPanel[n], Tells(t))
  <2>1. ~In(toPanel[n], t)
    BY <1>1 DEF OnePort, Unsent, Fresh
  <2>2. \A f \in Tells(t) : About(f, t)
    BY DEF Tells, About, Untold
  <2>3. QED BY <2>1, <2>2 DEF Carries, In
<1> SUFFICES ASSUME NEW m \in chatPanels, NEW u \in Turns \ resumed', active'[m] = u
             PROVE  Keeps(m, u)' \/ (u \notin resumed /\ active[m] = u /\ Stays(m, u))
  BY <1>1, StaysKept
<1>6. CASE m = n
  <2>1. u = t
    BY <1>1, <1>2, <1>6
  <2>2. QED BY <1>1, <1>4, <1>5, <1>6, <2>1, KeepsNext
<1>7. CASE m # n
  <2>1. active[m] = u
    BY <1>1, <1>2, <1>7
  <2>2. asker[u] # n
    BY <1>2, <1>7, <2>1, OwnTurn
  <2>3. QED BY <1>1, <1>2, <1>3, <2>1, <2>2 DEF Stays
<1>8. QED BY <1>6, <1>7

\* The turn of panel n is over; the turns of others are kept.
LEMMA OverHeld ==
  ASSUME BaseInv, RequestsKept, NEW n \in Panels, NEW st, Over(n, st),
         chatPanels' \subseteq chatPanels, UNCHANGED resumed,
         \A m \in chatPanels' \ {n} : toPanel'[m] = toPanel[m],
         \A t \in Turns : turnToPort[t] # n => turnToPort'[t] = turnToPort[t],
         \A t \in Turns : asker[t] # n /\ t \in watched => t \in watched'
  PROVE  RequestsKept'
<1>1. /\ chatPanels \subseteq Panels /\ active'[n] = NoTurn
      /\ \A m \in Panels \ {n} : active'[m] = active[m]
  BY DEF Over, BaseInv, TypeInv, TypeOK
<1> SUFFICES ASSUME NEW m \in chatPanels', NEW t \in Turns \ resumed, active'[m] = t
             PROVE  active[m] = t /\ Stays(m, t)
  BY StaysKept
<1>2. m # n /\ active[m] = t
  BY <1>1, TurnsAssumption
<1>3. asker[t] = m
  BY <1>1, <1>2, OwnTurn
<1>4. QED BY <1>2, <1>3 DEF Stays

LEMMA StepHeld ==
  ASSUME BaseInv, OnePort, AnswerInv, RequestsKept, [Next]_vars
  PROVE  RequestsKept'
<1> USE DEF sockets, tables, workers, questions, panels
<1>1. TypeInv /\ AnswersResume /\ AwayIsIdle /\ chatPanels \subseteq Panels
  BY DEF BaseInv, AnswerInv, TypeInv, TypeOK
<1>2. CASE UNCHANGED <<chatPanels, active, watched, resumed, turnToPort, toPanel>>
  BY <1>2, OneFrame
<1>3. ASSUME NEW S \in SUBSET Places, Broadcast(Bridges(S)),
             UNCHANGED <<chatPanels, active, watched, resumed, turnToPort>>
      PROVE  RequestsKept'
  <2>1. Bridges(S) \in Frames /\ \A t \in Turns : Bridges(S) \notin Tells(t)
    BY FrameTypes, TellsFrames
  <2>2. \A n \in chatPanels : toPanel'[n] = Append(toPanel[n], Bridges(S))
    BY <1>1, <1>3 DEF Broadcast
  <2>3. QED BY <1>3, <2>1, <2>2, OneFrame
<1>4. ASSUME NEW p \in Ports, NEW x \in Places, SocketOpens(p, x) PROVE RequestsKept'
  <2>1. {serves[q] : q \in open} \cup {x} \in SUBSET Places
    BY <1>1 DEF TypeInv, TypeOK, SocketsInOrder
  <2>2. QED BY <1>3, <1>4, <2>1 DEF SocketOpens
<1>5. ASSUME NEW p \in Ports, NEW dies \in BOOLEAN, SocketCloses(p, dies) PROVE RequestsKept'
  <2>1. UNCHANGED <<chatPanels, active, watched, resumed>>
    BY <1>5 DEF SocketCloses
  <2>2. CASE open = {p}
    BY <1>5, <2>1, <2>2, FailHeld DEF SocketCloses
  <2>3. CASE open # {p}
    <3>1. {serves[q] : q \in open \ {p}} \in SUBSET Places
      BY <1>1 DEF TypeInv, TypeOK, SocketsInOrder
    <3>2. QED BY <1>3, <1>5, <2>1, <2>3, <3>1 DEF SocketCloses, LiveAfter
  <2>4. QED BY <2>2, <2>3
<1>6. CASE Heartbeat
  BY <1>6, FailHeld DEF Heartbeat
<1>7. CASE Restart
  BY <1>7 DEF Restart, RequestsKept
<1>8. ASSUME NEW t \in Turns, ToolEnds(t) PROVE RequestsKept'
  <2>1. turnToPort[t] \in Panels /\ UNCHANGED <<chatPanels, active, watched, resumed, turnToPort>>
    BY <1>1, <1>8 DEF ToolEnds, TypeInv, TypeOK
  <2>2. \A n \in Panels : toPanel'[n] = IF n = turnToPort[t]
                                        THEN Append(toPanel[n], Frame("chat_tool_notice", t))
                                        ELSE toPanel[n]
    BY <1>1, <1>8, <2>1 DEF ToolEnds, TypeInv, TypeOK, Queues
  <2>3. /\ Frame("chat_tool_notice", t) \in Frames
        /\ \A u \in Turns : Frame("chat_tool_notice", t) \in Tells(u) => u = t
    BY FrameTypes, TellsFrames
  <2>4. QED BY <1>1, <2>1, <2>2, <2>3, OneFrame
<1>9. ASSUME NEW n \in Panels, UserStops(n) \/ WatchdogFires(n) PROVE RequestsKept'
  <2>1. \A t \in Turns : asker[t] # n /\ t \in watched => t \in watched'
    BY <1>9, OwnTurn DEF UserStops, WatchdogFires
  <2>2. /\ UNCHANGED <<chatPanels, resumed, turnToPort, toPanel>>
        /\ \E st : Over(n, st)
    BY <1>9 DEF UserStops, WatchdogFires
  <2>3. QED BY <2>1, <2>2, OverHeld
<1>10. ASSUME NEW n \in Panels, NEW x \in Places, PanelSwitches(n, x) PROVE RequestsKept'
  BY <1>10, OverHeld DEF PanelSwitches
<1>11. ASSUME NEW n \in Panels, NEW x \in Places, PanelConnects(n, x) PROVE RequestsKept'
  <2>1. /\ active[n] = NoTurn /\ chatPanels' = chatPanels \cup {n}
        /\ UNCHANGED <<active, watched, resumed, turnToPort>>
        /\ \A m \in Panels \ {n} : toPanel'[m] = toPanel[m]
    BY <1>1, <1>11 DEF PanelConnects, AwayIsIdle, TypeInv, TypeOK, Queues
  <2>2. ASSUME NEW m \in chatPanels', NEW t \in Turns \ resumed, active[m] = t
        PROVE  m \in chatPanels /\ Stays(m, t)
    BY <1>1, <2>1, <2>2, TurnsAssumption DEF Stays
  <2>3. QED BY <2>1, <2>2, StaysKept
<1>12. ASSUME NEW n \in Panels, PanelCloses(n) PROVE RequestsKept'
  <2>1. /\ Over(n, "left") /\ UNCHANGED resumed /\ chatPanels' \subseteq chatPanels
        /\ \A m \in Panels \ {n} : toPanel'[m] = toPanel[m]
        /\ \A t \in Turns : asker[t] # n /\ t \in watched => t \in watched'
    BY <1>1, <1>12 DEF PanelCloses, TurnsOf, TypeInv, TypeOK, Queues
  <2>2. \A t \in Turns : turnToPort[t] # n => turnToPort'[t] = turnToPort[t]
    BY <1>12 DEF PanelCloses, Forget, Unpinned, Pinned
  <2>3. QED BY <1>1, <2>1, <2>2, OverHeld
<1>13. ASSUME NEW n \in Panels, PanelMounts(n) \/ AsksAgain(n) PROVE RequestsKept'
  BY <1>2, <1>13 DEF PanelMounts, AsksAgain
<1>14. ASSUME NEW p \in Ports, WorkerTakes(p) PROVE RequestsKept'
  BY <1>2, <1>14 DEF WorkerTakes
<1>15. ASSUME NEW p \in Ports, NEW t \in Turns,
              WorkerSays(p, t) \/ WorkerSignals(p, t) \/ WorkerEnds(p, t)
       PROVE  RequestsKept'
  BY <1>2, <1>15 DEF WorkerSays, WorkerSignals, WorkerEnds
<1>16. ASSUME NEW p \in Ports, NEW t \in Turns, NEW i \in Pieces, WorkerRepeats(p, t, i)
       PROVE  RequestsKept'
  BY <1>2, <1>16 DEF WorkerRepeats
<1>17. CASE UNCHANGED vars
  BY <1>2, <1>17 DEF vars
<1>18. QED
  BY <1>1, <1>4, <1>5, <1>6, <1>7, <1>8, <1>9, <1>10, <1>11, <1>12, <1>13, <1>14, <1>15, <1>16,
     <1>17, ReceivesHeld, PanelHeld, PostHeld, BeginsHeld DEF Next, PostArrives

LEMMA HeldInvariant == Spec => [](BaseInv /\ OnePort /\ AnswerInv /\ RequestsKept)
<1>1. Init => BaseInv /\ OnePort /\ AnswerInv /\ RequestsKept
  BY InitBase, InitPorts, InitHeld
<1>2. BaseInv /\ OnePort /\ AnswerInv /\ RequestsKept /\ [Next]_vars
        => (BaseInv /\ OnePort /\ AnswerInv /\ RequestsKept)'
  BY StepBase, StepPorts, StepAnswers, StepAway, StepHeld DEF AnswerInv
<1>3. QED BY <1>1, <1>2, PTL DEF Spec

\* A request that is open in a connected panel is watched, pinned or about to end: the
\* watchdog is disarmed only by a frame of a turn that is still pinned or whose end
\* follows, and failActiveTurns, chat_error and every other way out of the tables tells
\* the panel.
THEOREM RequestsAreKept == Spec => []NoRequestIsForgotten
<1>1. BaseInv /\ RequestsKept => NoRequestIsForgotten
  <2> SUFFICES ASSUME BaseInv, RequestsKept, NEW t \in Turns \ resumed,
                      status[t] = "open", asker[t] \in chatPanels
               PROVE  \/ t \in watched \/ turnToPort[t] = asker[t]
                      \/ \E i \in DOMAIN toPanel[asker[t]] : EndOf(toPanel[asker[t]][i], t)
    BY DEF NoRequestIsForgotten
  <2>1. active[asker[t]] = t
    BY DEF BaseInv, OpenIsActive
  <2>2. Keeps(asker[t], t)
    BY <2>1 DEF RequestsKept
  <2>3. QED BY <2>2, TellsFrames DEF Keeps, Carries, EndOf
<1>2. QED BY <1>1, HeldInvariant, PTL
=============================================================================
