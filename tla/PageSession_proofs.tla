-------------------------- MODULE PageSession_proofs --------------------------
(***************************************************************************)
(* Theorems about PageSession for every set of tabs, tenants, calls and     *)
(* waits and every size of the buffer: its types, where overlapping calls   *)
(* of setControlledTab leave the red group, and what a wait for an API      *)
(* response has seen when it gives up.                                      *)
(***************************************************************************)
EXTENDS PageSession, FiniteSetTheorems, WellFoundedInduction, TLAPS

\* The records of calls and waits.
CallRecords == [pc : {"free", "ungrouping", "attaching"},
                tab : Tabs \cup {NoTab}, prev : Tabs \cup {NoTab}, tool : BOOLEAN]
WaitRecords == [pc : {"idle", "enabling", "polling", "found", "timedOut"},
                tab : Tabs \cup {NoTab}, from : 0..Cap, since : 0..MaxEvents,
                scanned : 0..MaxEvents, steady : BOOLEAN,
                got : Events \cup {NoEvent}]

\* Events are numbered as they come, and no more come than the bound.
NumberedInv ==
  /\ IsFiniteSet(past) /\ Cardinality(past) <= MaxEvents
  /\ \A e \in past : e.no <= Cardinality(past)

\* A call attaches to a tab, an unbind never does.
AttachesTab(cs) == \A c \in Calls : cs[c].pc = "attaching" => cs[c].tab \in Tabs

\* The controlled tab is grouped, or Chrome refused to, or a call in progress will
\* group it or take another.
GroupInv ==
  /\ AttachesTab(calls)
  /\ target # NoTab =>
       \/ target \in grouped \cup refused
       \/ \E c \in Calls : calls[c].pc = "attaching" /\ calls[c].tab = target
       \/ \E c \in Calls : calls[c].pc = "ungrouping"

\* The tab of a steady wait is the one whose events are kept.
SteadyInv ==
  \A w \in Waits :
    /\ waits[w].pc \in {"idle", "enabling"} => ~waits[w].steady
    /\ waits[w].pc = "enabling" => waits[w].tab \in Tabs
    /\ waits[w].pc = "polling" /\ waits[w].steady =>
         waits[w].tab = target /\ waits[w].tab \in reporting

\* Event e is among the entries that wait w looks at.
InSight(w, e) == \E i \in waits[w].from + 1..Len(buffer) : buffer[i] = e

\* Until the buffer is full, a steady wait has its tab's new events in sight, and has
\* seen no hit among those that had come when it last looked.
SightInv ==
  Cardinality(past) <= Cap =>
    /\ Len(buffer) <= Cardinality(past)
    /\ \A w \in Waits :
         /\ waits[w].scanned <= Cardinality(past)
         /\ waits[w].pc = "polling" => waits[w].from <= Len(buffer)
         /\ waits[w].pc = "polling" /\ waits[w].steady =>
              \A e \in past : e.tab = waits[w].tab /\ e.no > waits[w].since => InSight(w, e)
         /\ waits[w].pc \in {"polling", "timedOut"} /\ waits[w].steady =>
              \A e \in past : e.tab = waits[w].tab /\ e.hit /\ e.no > waits[w].since =>
                                e.no > waits[w].scanned

SessionInv == TypeOK /\ NumberedInv /\ GroupInv /\ SteadyInv /\ SightInv

-----------------------------------------------------------------------------
(* Operators *)

LEMMA BufferTypes ==
  \A q : q \in BoundedSeq(Events, Cap) <=> q \in Seq(Events) /\ Len(q) <= Cap
<1> SUFFICES ASSUME NEW q
             PROVE  q \in BoundedSeq(Events, Cap) <=> q \in Seq(Events) /\ Len(q) <= Cap
  OBVIOUS
<1>1. q \in BoundedSeq(Events, Cap) <=> \E n \in 0..Cap : q \in [1..n -> Events]
  BY DEF BoundedSeq, SeqOf
<1>2. ASSUME NEW n \in 0..Cap, q \in [1..n -> Events]
      PROVE  q \in Seq(Events) /\ Len(q) <= Cap
  <2>1. n \in Nat /\ n <= Cap
    BY SessionAssumption
  <2>2. q \in Seq(Events) /\ Len(q) = n
    BY <1>2, <2>1
  <2>3. QED BY <2>1, <2>2
<1>3. ASSUME q \in Seq(Events), Len(q) <= Cap
      PROVE  \E n \in 0..Cap : q \in [1..n -> Events]
  <2>1. Len(q) \in 0..Cap /\ q \in [1..Len(q) -> Events]
    BY <1>3, SessionAssumption
  <2>2. QED BY <2>1
<1>4. QED BY <1>1, <1>2, <1>3

\* An entry is added at the end, and until the buffer is full the others stay in place.
LEMMA PushEffect ==
  ASSUME buffer \in BoundedSeq(Events, Cap), NEW e \in Events
  PROVE  /\ Push(e) \in BoundedSeq(Events, Cap)
         /\ Len(buffer) < Cap =>
              /\ Len(Push(e)) = Len(buffer) + 1 /\ Push(e)[Len(buffer) + 1] = e
              /\ \A i \in 1..Len(buffer) : Push(e)[i] = buffer[i]
<1>1. buffer \in Seq(Events) /\ Len(buffer) <= Cap /\ Len(buffer) \in Nat /\ Cap \in Nat \ {0}
  BY BufferTypes, SessionAssumption
<1>2. CASE Len(buffer) = Cap
  <2>1. Tail(buffer) \in Seq(Events) /\ Len(Tail(buffer)) = Cap - 1
    BY <1>1, <1>2
  <2>2. Append(Tail(buffer), e) \in Seq(Events) /\ Len(Append(Tail(buffer), e)) = Cap
    BY <1>1, <2>1
  <2>3. Push(e) = Append(Tail(buffer), e)
    BY <1>2 DEF Push
  <2>4. Push(e) \in Seq(Events) /\ Len(Push(e)) <= Cap
    BY <1>1, <2>2, <2>3
  <2>5. QED BY <1>2, <2>4, <1>1, BufferTypes
<1>3. CASE Len(buffer) # Cap
  <2>1. Push(e) = Append(buffer, e)
    BY <1>3 DEF Push
  <2>2. /\ Push(e) \in Seq(Events) /\ Len(Push(e)) = Len(buffer) + 1
        /\ Push(e)[Len(buffer) + 1] = e /\ \A i \in 1..Len(buffer) : Push(e)[i] = buffer[i]
    BY <1>1, <2>1
  <2>3. Len(Push(e)) <= Cap
    BY <1>1, <1>3, <2>2
  <2>4. QED BY <2>2, <2>3, BufferTypes
<1>4. QED BY <1>2, <1>3

\* Steady disturbs no wait but for its steadiness.
LEMMA SteadyEffect ==
  ASSUME waits \in [Waits -> WaitRecords], NEW tgt, NEW rep
  PROVE  /\ Steady(waits, tgt, rep) \in [Waits -> WaitRecords]
         /\ \A w \in Waits :
              LET v == Steady(waits, tgt, rep)[w]
              IN  /\ v.pc = waits[w].pc /\ v.tab = waits[w].tab /\ v.from = waits[w].from
                  /\ v.since = waits[w].since /\ v.scanned = waits[w].scanned
                  /\ v.steady => waits[w].steady
                  /\ v.steady /\ v.pc = "polling" => v.tab = tgt /\ v.tab \in rep
<1>1. \A w \in Waits : Steady(waits, tgt, rep)[w] =
        [waits[w] EXCEPT !.steady = @ /\ (waits[w].pc = "polling" =>
                                            waits[w].tab = tgt /\ waits[w].tab \in rep)]
  BY DEF Steady
<1>2. ASSUME NEW w \in Waits
      PROVE  Steady(waits, tgt, rep)[w] \in WaitRecords
  <2>1. PICK on \in BOOLEAN : Steady(waits, tgt, rep)[w] = [waits[w] EXCEPT !.steady = on]
    <3>1. waits[w].steady \in BOOLEAN
      BY DEF WaitRecords
    <3> QED BY <1>1, <3>1
  <2>2. waits[w] \in WaitRecords
    OBVIOUS
  <2> QED BY <2>1, <2>2 DEF WaitRecords
<1>3. Steady(waits, tgt, rep) = [w \in Waits |-> Steady(waits, tgt, rep)[w]]
  BY DEF Steady
<1>4. Steady(waits, tgt, rep) \in [Waits -> WaitRecords]
  BY <1>2, <1>3
<1>5. QED BY <1>1, <1>4 DEF WaitRecords

\* Call c has taken tab t: it is grouped, was refused, or c attaches to it.
Taken(c, t) ==
  /\ AttachesTab(calls) => AttachesTab(calls')
  /\ target' = t /\ calls' \in [Calls -> CallRecords]
  /\ grouped' \subseteq Tabs /\ refused' \subseteq Tabs
  /\ t # NoTab => \/ t \in grouped' \cup refused'
                  \/ calls'[c].pc = "attaching" /\ calls'[c].tab = t

\* The last steps of setControlledTab do so.
LEMMA TakeEffect ==
  ASSUME calls \in [Calls -> CallRecords], refused \subseteq Tabs
  PROVE  \A c \in Calls, t, prev \in Tabs \cup {NoTab}, tool \in BOOLEAN, grp \in SUBSET Tabs :
           Take(c, t, prev, tool, grp) => Taken(c, t)
<1> SUFFICES ASSUME NEW c \in Calls, NEW t \in Tabs \cup {NoTab}, NEW prev \in Tabs \cup {NoTab},
                    NEW tool \in BOOLEAN, NEW grp \in SUBSET Tabs, Take(c, t, prev, tool, grp)
             PROVE  Taken(c, t)
  OBVIOUS
<1>1. CASE t # NoTab /\ t \notin attached
  BY <1>1 DEF Take, Taken, CallRecords, AttachesTab
<1>2. CASE ~(t # NoTab /\ t \notin attached)
  <2>1. /\ target' = t /\ calls' = [calls EXCEPT ![c] = Free]
        /\ IF t = NoTab THEN Ungroups(prev, grp) ELSE Groups(t, grp)
    BY <1>2 DEF Take
  <2>2. Free \in CallRecords /\ Free.pc = "free"
    BY DEF Free, CallRecords
  <2>3. AttachesTab(calls) => AttachesTab(calls')
    BY <2>1, <2>2 DEF AttachesTab
  <2>4. grouped' \subseteq Tabs /\ refused' \subseteq Tabs /\ (t # NoTab => t \in grouped' \cup refused')
    <3>1. CASE t = NoTab
      BY <2>1, <3>1, SessionAssumption DEF Ungroups
    <3>2. CASE t # NoTab
      BY <2>1, <3>2 DEF Groups
    <3>3. QED BY <3>1, <3>2
  <2>5. calls' \in [Calls -> CallRecords] /\ target' = t
    BY <2>1, <2>2
  <2>6. QED BY <2>3, <2>4, <2>5, Zenon DEF Taken
<1>3. QED BY <1>1, <1>2

LEMMA SetEffect ==
  ASSUME TypeOK, NEW c \in Calls, NEW t \in Tabs \cup {NoTab},
         NEW tool \in BOOLEAN, NEW grp \in SUBSET Tabs, SetControlledTab(c, t, tool, grp)
  PROVE  /\ AttachesTab(calls) => AttachesTab(calls')
         /\ target' \in Tabs \cup {NoTab} /\ calls' \in [Calls -> CallRecords]
         /\ grouped' \subseteq Tabs /\ refused' \subseteq Tabs
         /\ target' # NoTab => \/ target' \in grouped' \cup refused'
                               \/ calls'[c].pc = "attaching" /\ calls'[c].tab = target'
                               \/ calls'[c].pc = "ungrouping"
<1>1. calls \in [Calls -> CallRecords] /\ target \in Tabs \cup {NoTab} /\ refused \in SUBSET Tabs
  BY DEF TypeOK, CallRecords
<1>2. CASE target \notin {NoTab, t}
  BY <1>1, <1>2 DEF SetControlledTab, Ungroups, CallRecords, AttachesTab
<1>3. CASE target \in {NoTab, t}
  <2>1. Take(c, t, target, tool, grp)
    BY <1>3 DEF SetControlledTab
  <2>2. grp \subseteq Tabs /\ Taken(c, t)
    BY <1>1, <2>1, TakeEffect
  <2>3. QED BY <1>1, <2>2 DEF Taken
<1>4. QED BY <1>2, <1>3

\* A set of positions has a first.
LEMMA FirstPosition ==
  ASSUME NEW S \in SUBSET Nat, S # {}
  PROVE  \E i \in S : \A j \in S : i <= j
<1> DEFINE R == {p \in Nat \X Nat : p[1] < p[2]}
<1>1. IsWellFoundedOn(R, Nat)
  BY NatLessThanWellFounded DEF OpToRel, IsWellFoundedOn
<1>2. PICK i \in S : \A j \in S : ~(<<j, i>> \in R)
  BY <1>1, WFMin
<1>3. \A j \in S : ~(j < i)
  BY <1>2
<1>4. QED BY <1>2, <1>3

-----------------------------------------------------------------------------
(* The invariant *)

LEMMA InitSession == Init => SessionInv
<1> SUFFICES ASSUME Init PROVE SessionInv
  OBVIOUS
<1>1. IsFiniteSet(past) /\ Cardinality(past) = 0
  BY FS_EmptySet DEF Init
<1>2. 0 \in 0..Cap /\ 0 \in 0..MaxEvents /\ Len(buffer) = 0
  BY SessionAssumption DEF Init
<1>3. TypeOK
  <2>1. buffer \in BoundedSeq(Events, Cap)
    <3>1. buffer \in Seq(Events) /\ Len(buffer) <= Cap
      BY <1>2, SessionAssumption DEF Init
    <3>2. QED BY <3>1, BufferTypes
  <2>2. calls \in [Calls -> CallRecords] /\ waits \in [Waits -> WaitRecords]
    BY <1>2 DEF Init, Free, CallRecords, WaitRecords
  <2>3. /\ page \in [Tabs -> Pages] /\ captured \in [Tabs -> Tenants \cup {NoBody}]
        /\ snapshot \in [page : Pages, body : Tenants \cup {NoBody}]
    BY DEF Init, Pages
  <2>4. QED BY <2>1, <2>2, <2>3 DEF Init, TypeOK, CallRecords, WaitRecords
<1>4. NumberedInv /\ GroupInv /\ SteadyInv
  BY <1>1, SessionAssumption DEF Init, NumberedInv, GroupInv, AttachesTab, Free, SteadyInv
<1>5. SightInv
  BY <1>1, <1>2 DEF Init, SightInv
<1>6. QED BY <1>3, <1>4, <1>5 DEF SessionInv

\* A step that disturbs no wait but for its steadiness, nor any other record of it.
Keeps ==
  \A w \in Waits :
    /\ waits'[w].pc = waits[w].pc /\ waits'[w].tab = waits[w].tab
    /\ waits'[w].from = waits[w].from
    /\ waits'[w].since = waits[w].since /\ waits'[w].scanned = waits[w].scanned
    /\ waits'[w].steady => waits[w].steady
    /\ waits'[w].steady /\ waits'[w].pc = "polling" =>
         waits'[w].tab = target' /\ waits'[w].tab \in reporting'

LEMMA KeepsSight ==
  ASSUME SessionInv, Keeps, UNCHANGED <<buffer, past>>
  PROVE  NumberedInv' /\ SteadyInv' /\ SightInv'
<1>1. NumberedInv'
  BY DEF SessionInv, NumberedInv
<1>2. SteadyInv'
  BY DEF SessionInv, SteadyInv, Keeps
<1>3. SightInv'
  <2> SUFFICES ASSUME Cardinality(past') <= Cap
               PROVE  /\ Len(buffer') <= Cardinality(past')
                      /\ \A w \in Waits :
                           /\ waits'[w].scanned <= Cardinality(past')
                           /\ waits'[w].pc = "polling" => waits'[w].from <= Len(buffer')
                           /\ waits'[w].pc = "polling" /\ waits'[w].steady =>
                                \A e \in past' : e.tab = waits'[w].tab /\ e.no > waits'[w].since
                                                   => InSight(w, e)'
                           /\ waits'[w].pc \in {"polling", "timedOut"} /\ waits'[w].steady =>
                                \A e \in past' : e.tab = waits'[w].tab /\ e.hit /\ e.no > waits'[w].since
                                                   => e.no > waits'[w].scanned
    BY DEF SightInv
  <2>1. \A w \in Waits : \A e : InSight(w, e) => InSight(w, e)'
    BY DEF InSight, Keeps
  <2>2. QED BY <2>1 DEF SessionInv, SightInv, Keeps
<1>4. QED BY <1>1, <1>2, <1>3

\* What is reported is not less, the controlled tab is the same, and the waits are.
LEMMA NoWaitMoves ==
  ASSUME SessionInv, UNCHANGED <<waits, target>>, reporting \subseteq reporting'
  PROVE  Keeps
BY DEF SessionInv, SteadyInv, Keeps

\* The waits after Steady.
LEMMA SteadyKeeps ==
  ASSUME TypeOK, waits' = Steady(waits, target', reporting')
  PROVE  Keeps /\ waits' \in [Waits -> WaitRecords]
<1>1. waits \in [Waits -> WaitRecords]
  BY DEF TypeOK, WaitRecords
<1>2. /\ Steady(waits, target', reporting') \in [Waits -> WaitRecords]
      /\ \A w \in Waits :
           LET v == Steady(waits, target', reporting')[w]
           IN  /\ v.pc = waits[w].pc /\ v.tab = waits[w].tab /\ v.from = waits[w].from
               /\ v.since = waits[w].since /\ v.scanned = waits[w].scanned
               /\ v.steady => waits[w].steady
               /\ v.steady /\ v.pc = "polling" => v.tab = target' /\ v.tab \in reporting'
  BY <1>1, SteadyEffect
<1>3. QED BY <1>2 DEF Keeps

\* The handlers that bind, unbind and close tabs.
LEMMA BindingSteps ==
  ASSUME SessionInv,
         \/ \E c \in Calls : Ungrouped(c) \/ AttachEnds(c)
         \/ \E c \in Calls, t \in Tabs : TabActivated(c, t) \/ ToolBinds(c, t) \/ TabCloses(c, t)
         \/ \E c \in Calls, t \in Tabs, p \in Pages : TabNavigates(c, t, p)
  PROVE  SessionInv'
<1>1. TypeOK /\ GroupInv
  BY DEF SessionInv
<1>2. /\ calls \in [Calls -> CallRecords] /\ target \in Tabs \cup {NoTab} /\ grouped \in SUBSET Tabs
      /\ refused \in SUBSET Tabs /\ page \in [Tabs -> Pages] /\ NoTab \in Tabs \cup {NoTab}
  BY <1>1 DEF TypeOK, CallRecords
<1>3. SUFFICES TypeOK' /\ GroupInv' /\ Keeps /\ UNCHANGED <<buffer, past>>
  BY KeepsSight DEF SessionInv
<1>4. ASSUME NEW c \in Calls, Ungrouped(c)
      PROVE  TypeOK' /\ GroupInv' /\ Keeps /\ UNCHANGED <<buffer, past>>
  <2>1. /\ calls[c].tab \in Tabs \cup {NoTab} /\ calls[c].prev \in Tabs \cup {NoTab}
        /\ calls[c].tool \in BOOLEAN
    BY <1>2 DEF CallRecords
  <2>2. Take(c, calls[c].tab, calls[c].prev, calls[c].tool, grouped)
    BY <1>4 DEF Ungrouped
  <2>3. /\ target' \in Tabs \cup {NoTab} /\ calls' \in [Calls -> CallRecords] /\ grouped' \subseteq Tabs /\ refused' \subseteq Tabs
        /\ AttachesTab(calls')
        /\ target' # NoTab => \/ target' \in grouped' \cup refused'
                              \/ calls'[c].pc = "attaching" /\ calls'[c].tab = target'
    <3>1. Taken(c, calls[c].tab)
      BY <1>2, <2>1, <2>2, TakeEffect
    <3>2. QED BY <1>1, <2>1, <3>1 DEF Taken, GroupInv
  <2>4. waits' = Steady(waits, target', reporting')
    BY <1>4 DEF Ungrouped, network
  <2>5. Keeps /\ waits' \in [Waits -> WaitRecords]
    BY <1>1, <2>4, SteadyKeeps
  <2>6. TypeOK'
    BY <1>1, <1>4, <2>3, <2>5 DEF Ungrouped, TypeOK, CallRecords, WaitRecords, network, context
  <2>7. QED BY <1>4, <2>3, <2>5, <2>6 DEF Ungrouped, GroupInv, network
<1>5. ASSUME NEW c \in Calls, AttachEnds(c)
      PROVE  TypeOK' /\ GroupInv' /\ Keeps /\ UNCHANGED <<buffer, past>>
  <2> DEFINE t == calls[c].tab
  <2>1. t \in Tabs \cup {NoTab} /\ Free \in CallRecords /\ Free.pc = "free"
    BY <1>2 DEF CallRecords, Free
  <2>2. /\ calls' = [calls EXCEPT ![c] = Free] /\ calls[c].pc = "attaching"
        /\ attached' \in {attached, attached \cup {t}} /\ Groups(t, grouped)
        /\ UNCHANGED <<page, target, waits, reporting, buffer, past>>
    BY <1>5 DEF AttachEnds, network
  <2>3. Keeps
    BY <2>2, NoWaitMoves
  <2>4. GroupInv'
    <3>1. CASE t = target
      BY <1>1, <1>2, <2>1, <2>2, <3>1 DEF GroupInv, Groups, AttachesTab
    <3>2. CASE t # target
      BY <1>1, <1>2, <2>1, <2>2, <3>2 DEF GroupInv, Groups, AttachesTab
    <3>3. QED BY <3>1, <3>2
  <2>5. t \in Tabs
    BY <1>1, <2>2 DEF GroupInv, AttachesTab
  <2>6. TypeOK'
    BY <1>1, <1>2, <1>5, <2>1, <2>2, <2>5 DEF AttachEnds, Groups, TypeOK, CallRecords, network, context
  <2>7. QED BY <2>2, <2>3, <2>4, <2>6
<1>6. ASSUME NEW c \in Calls, NEW t \in Tabs, TabActivated(c, t) \/ ToolBinds(c, t)
      PROVE  TypeOK' /\ GroupInv' /\ Keeps /\ UNCHANGED <<buffer, past>>
  <2>1. \E tool \in BOOLEAN : SetControlledTab(c, t, tool, grouped)
    BY <1>6 DEF TabActivated, ToolBinds
  <2>2. /\ target' \in Tabs \cup {NoTab} /\ calls' \in [Calls -> CallRecords] /\ grouped' \subseteq Tabs /\ refused' \subseteq Tabs
        /\ target' # NoTab => \/ target' \in grouped' \cup refused'
                              \/ calls'[c].pc = "attaching" /\ calls'[c].tab = target'
                              \/ calls'[c].pc = "ungrouping"
        /\ AttachesTab(calls')
    BY <1>1, <1>2, <2>1, SetEffect DEF GroupInv
  <2>3. waits' = Steady(waits, target', reporting')
    BY <1>6 DEF TabActivated, ToolBinds, network
  <2>4. Keeps /\ waits' \in [Waits -> WaitRecords]
    BY <1>1, <2>3, SteadyKeeps
  <2>5. TypeOK'
    BY <1>1, <1>6, <2>2, <2>4 DEF TabActivated, ToolBinds, TypeOK, CallRecords, WaitRecords, network, context
  <2>6. QED BY <1>6, <2>2, <2>4, <2>5 DEF TabActivated, ToolBinds, GroupInv, network
<1>7. ASSUME NEW c \in Calls, NEW t \in Tabs, TabCloses(c, t)
      PROVE  TypeOK' /\ GroupInv' /\ Keeps /\ UNCHANGED <<buffer, past>>
  <2>1. waits' = Steady(waits, target', reporting')
    BY <1>7 DEF TabCloses
  <2>2. Keeps /\ waits' \in [Waits -> WaitRecords]
    BY <1>1, <2>1, SteadyKeeps
  <2>3. grouped \ {t} \in SUBSET Tabs /\ FALSE \in BOOLEAN
    BY <1>2
  <2>4. page' \in [Tabs -> Pages] /\ page'[t] = Gone /\ \A u \in Tabs \ {t} : page'[u] = page[u]
    BY <1>2, <1>7 DEF TabCloses, Pages
  <2>5. /\ target' \in Tabs \cup {NoTab} /\ calls' \in [Calls -> CallRecords] /\ grouped' \subseteq Tabs /\ refused' \subseteq Tabs
        /\ GroupInv'
    <3>1. CASE t = target
      <4>1. SetControlledTab(c, NoTab, FALSE, grouped \ {t})
        BY <1>7, <3>1 DEF TabCloses
      <4>2. /\ target' \in Tabs \cup {NoTab} /\ calls' \in [Calls -> CallRecords] /\ grouped' \subseteq Tabs /\ refused' \subseteq Tabs
            /\ target' # NoTab => \/ target' \in grouped' \cup refused'
                                  \/ calls'[c].pc = "attaching" /\ calls'[c].tab = target'
                                  \/ calls'[c].pc = "ungrouping"
            /\ AttachesTab(calls')
        BY <1>1, <1>2, <2>3, <4>1, SetEffect DEF GroupInv
      <4>3. QED BY <4>2 DEF GroupInv
    <3>2. CASE t # target
      <4>1. grouped' = grouped \ {t} /\ UNCHANGED <<target, calls, refused>>
        BY <1>7, <3>2 DEF TabCloses
      <4>2. QED BY <1>1, <1>2, <2>4, <3>2, <4>1 DEF GroupInv
    <3>3. QED BY <3>1, <3>2
  <2>6. captured' \in [Tabs -> Tenants \cup {NoBody}] /\ pending' \subseteq Tabs \X Tenants
    BY <1>1, <1>7 DEF TabCloses, TypeOK
  <2>7. attached' \subseteq Tabs /\ reporting' \subseteq attached'
    BY <1>1, <1>7 DEF TabCloses, TypeOK
  <2>8. TypeOK'
    BY <1>1, <1>7, <2>2, <2>4, <2>5, <2>6, <2>7 DEF TabCloses, TypeOK, CallRecords, WaitRecords
  <2>9. QED BY <1>7, <2>2, <2>5, <2>8 DEF TabCloses
<1>8. ASSUME NEW c \in Calls, NEW t \in Tabs, NEW p \in Pages, TabNavigates(c, t, p)
      PROVE  TypeOK' /\ GroupInv' /\ Keeps /\ UNCHANGED <<buffer, past>>
  <2>1. waits' = Steady(waits, target', reporting')
    BY <1>8 DEF TabNavigates, network
  <2>2. Keeps /\ waits' \in [Waits -> WaitRecords]
    BY <1>1, <2>1, SteadyKeeps
  <2>3. page' \in [Tabs -> Pages] /\ \A u \in Tabs : page[u] = Gone => page'[u] = Gone
    BY <1>2, <1>8 DEF TabNavigates, Open
  <2>4. /\ target' \in Tabs \cup {NoTab} /\ calls' \in [Calls -> CallRecords] /\ grouped' \subseteq Tabs /\ refused' \subseteq Tabs
        /\ GroupInv'
    <3>1. CASE t = target /\ ~IsConsole(p)
      <4>1. SetControlledTab(c, NoTab, FALSE, grouped) /\ FALSE \in BOOLEAN
        BY <1>8, <3>1 DEF TabNavigates
      <4>2. /\ target' \in Tabs \cup {NoTab} /\ calls' \in [Calls -> CallRecords] /\ grouped' \subseteq Tabs /\ refused' \subseteq Tabs
            /\ target' # NoTab => \/ target' \in grouped' \cup refused'
                                  \/ calls'[c].pc = "attaching" /\ calls'[c].tab = target'
                                  \/ calls'[c].pc = "ungrouping"
            /\ AttachesTab(calls')
        BY <1>1, <1>2, <4>1, SetEffect DEF GroupInv
      <4>3. QED BY <4>2 DEF GroupInv
    <3>2. CASE ~(t = target /\ ~IsConsole(p))
      <4>1. UNCHANGED <<target, calls, grouped, refused>>
        BY <1>8, <3>2 DEF TabNavigates, binding
      <4>2. QED BY <1>1, <1>2, <2>3, <4>1 DEF GroupInv
    <3>3. QED BY <3>1, <3>2
  <2>5. TypeOK'
    BY <1>1, <1>8, <2>2, <2>3, <2>4 DEF TabNavigates, TypeOK, CallRecords, WaitRecords, network, context
  <2>6. QED BY <1>8, <2>2, <2>4, <2>5 DEF TabNavigates, network
<1>9. QED BY <1>4, <1>5, <1>6, <1>7, <1>8

\* The steps that bind no tab and add no event.
LEMMA QuietSteps ==
  ASSUME SessionInv,
         \/ TurnToggles \/ BuildEnds \/ UNCHANGED vars
         \/ \E t \in Tabs : BuildStarts(t)
         \/ \E t \in Tabs, own \in BOOLEAN : Detached(t, own)
         \/ \E b \in pending : BodyArrives(b) \/ BodyIsLost(b)
  PROVE  SessionInv'
<1>1. TypeOK /\ GroupInv
  BY DEF SessionInv
<1>2. UNCHANGED <<page, binding, buffer, past>>
  BY DEF TurnToggles, BuildEnds, BuildStarts, Detached, BodyArrives, BodyIsLost, vars, network
<1>3. GroupInv'
  BY <1>1, <1>2 DEF GroupInv, AttachesTab, binding
<1>4. SUFFICES TypeOK' /\ Keeps
  BY <1>2, <1>3, KeepsSight DEF SessionInv
<1>5. CASE TurnToggles \/ BuildEnds \/ UNCHANGED vars
  <2>1. UNCHANGED <<waits, target, reporting>>
    BY <1>5 DEF TurnToggles, BuildEnds, vars, binding, network
  <2>2. page \in [Tabs -> Pages] /\ captured \in [Tabs -> Tenants \cup {NoBody}]
    BY <1>1 DEF TypeOK
  <2>3. snapshot' \in [page : Pages, body : Tenants \cup {NoBody}]
    BY <1>1, <1>5, <2>2 DEF TypeOK, TurnToggles, BuildEnds, vars, context
  <2>4. TypeOK'
    BY <1>1, <1>5, <2>3 DEF TypeOK, TurnToggles, BuildEnds, vars, binding, network, context
  <2>5. QED BY <2>1, <2>4, NoWaitMoves
<1>6. ASSUME NEW t \in Tabs, BuildStarts(t) PROVE TypeOK' /\ Keeps
  <2>1. UNCHANGED <<waits, target>> /\ reporting \subseteq reporting'
    BY <1>6 DEF BuildStarts, binding
  <2>2. attached' \subseteq Tabs /\ reporting' \subseteq attached'
    BY <1>1, <1>6 DEF TypeOK, BuildStarts
  <2>3. TypeOK'
    BY <1>1, <1>6, <2>2 DEF TypeOK, BuildStarts, binding
  <2>4. QED BY <2>1, <2>3, NoWaitMoves
<1>7. ASSUME NEW t \in Tabs, NEW own \in BOOLEAN, Detached(t, own) PROVE TypeOK' /\ Keeps
  <2>1. waits' = Steady(waits, target', reporting')
    BY <1>7 DEF Detached, binding
  <2>2. Keeps /\ waits' \in [Waits -> WaitRecords]
    BY <1>1, <2>1, SteadyKeeps
  <2>3. attached' \subseteq Tabs /\ reporting' \subseteq attached' /\ pending' \subseteq Tabs \X Tenants
    BY <1>1, <1>7 DEF TypeOK, Detached
  <2>4. captured' \in [Tabs -> Tenants \cup {NoBody}]
    BY <1>1, <1>7 DEF TypeOK, Detached
  <2>5. TypeOK'
    BY <1>1, <1>7, <2>2, <2>3, <2>4 DEF TypeOK, Detached, WaitRecords, binding
  <2>6. QED BY <2>2, <2>5
<1>8. ASSUME NEW b \in pending, BodyArrives(b) \/ BodyIsLost(b) PROVE TypeOK' /\ Keeps
  <2>1. UNCHANGED <<waits, target, reporting>>
    BY <1>8 DEF BodyArrives, BodyIsLost, binding, network
  <2>2. b[1] \in Tabs /\ b[2] \in Tenants
    BY <1>1 DEF TypeOK
  <2>3. captured' \in [Tabs -> Tenants \cup {NoBody}] /\ pending' \subseteq Tabs \X Tenants
    BY <1>1, <1>8, <2>2 DEF TypeOK, BodyArrives, BodyIsLost
  <2>4. TypeOK'
    BY <1>1, <1>8, <2>3 DEF TypeOK, BodyArrives, BodyIsLost, binding, network
  <2>5. QED BY <2>1, <2>4, NoWaitMoves
<1>9. QED BY <1>5, <1>6, <1>7, <1>8

\* A network event is a new one, and every steady wait for it has it in sight.
LEMMA EventStep ==
  ASSUME SessionInv, NEW t \in Tabs, NEW hit \in BOOLEAN, NetworkEvent(t, hit)
  PROVE  SessionInv'
<1>1. TypeOK /\ NumberedInv /\ GroupInv /\ SteadyInv /\ SightInv
  BY DEF SessionInv
<1>2. PICK e : /\ e = [tab |-> t, no |-> Cardinality(past) + 1, hit |-> hit]
               /\ past' = past \cup {e} /\ buffer' = (IF t = target THEN Push(e) ELSE buffer)
               /\ t \in reporting /\ Cardinality(past) < MaxEvents
               /\ UNCHANGED <<page, target, calls, grouped, refused, waits, attached, chatting, reporting,
                              observing, captured, building, snapshot>>
  BY DEF NetworkEvent, binding
<1>3. /\ Cardinality(past) \in Nat /\ Cardinality(past) + 1 \in 1..MaxEvents
      /\ e \in Events /\ e.tab = t /\ e.no = Cardinality(past) + 1
  BY <1>1, <1>2, FS_CardinalityType, SessionAssumption DEF NumberedInv, Events
<1>4. e \notin past
  BY <1>1, <1>3 DEF NumberedInv
<1>5. IsFiniteSet(past') /\ Cardinality(past') = Cardinality(past) + 1
  BY <1>1, <1>2, <1>4, FS_AddElement DEF NumberedInv
<1>6. buffer \in BoundedSeq(Events, Cap) /\ buffer \in Seq(Events) /\ Len(buffer) \in Nat /\ Len(buffer) <= Cap
  BY <1>1, BufferTypes DEF TypeOK
<1>7. /\ Push(e) \in BoundedSeq(Events, Cap)
      /\ Len(buffer) < Cap =>
           /\ Len(Push(e)) = Len(buffer) + 1 /\ Push(e)[Len(buffer) + 1] = e
           /\ \A i \in 1..Len(buffer) : Push(e)[i] = buffer[i]
  BY <1>3, <1>6, PushEffect
<1>8. buffer' \in BoundedSeq(Events, Cap)
  BY <1>2, <1>6, <1>7
<1>9. pending' \subseteq Tabs \X Tenants
  <2>1. hit => page[t] \in Tenants
    BY DEF NetworkEvent, IsConsole
  <2>2. QED BY <1>1, <2>1 DEF NetworkEvent, TypeOK
<1>10. past' \subseteq Events
  BY <1>1, <1>2, <1>3 DEF TypeOK
<1>11. TypeOK'
  BY <1>1, <1>2, <1>8, <1>9, <1>10 DEF TypeOK
<1>12. NumberedInv'
  <2>1. e.no = Cardinality(past) + 1
    BY <1>3
  <2>2. \A f \in past : f.no \in Nat
    BY <1>1 DEF TypeOK, Events
  <2>3. \A f \in past' : f.no <= Cardinality(past')
    BY <1>1, <1>2, <1>3, <1>5, <2>1, <2>2 DEF NumberedInv
  <2>4. QED BY <1>3, <1>5, <2>3, SessionAssumption DEF NumberedInv
<1>13. GroupInv' /\ SteadyInv'
  BY <1>1, <1>2 DEF GroupInv, AttachesTab, SteadyInv
<1>14. SightInv'
  <2> SUFFICES ASSUME Cardinality(past') <= Cap
               PROVE  /\ Len(buffer') <= Cardinality(past')
                      /\ \A w \in Waits :
                           /\ waits'[w].scanned <= Cardinality(past')
                           /\ waits'[w].pc = "polling" => waits'[w].from <= Len(buffer')
                           /\ waits'[w].pc = "polling" /\ waits'[w].steady =>
                                \A f \in past' : f.tab = waits'[w].tab /\ f.no > waits'[w].since
                                                   => InSight(w, f)'
                           /\ waits'[w].pc \in {"polling", "timedOut"} /\ waits'[w].steady =>
                                \A f \in past' : f.tab = waits'[w].tab /\ f.hit /\ f.no > waits'[w].since
                                                   => f.no > waits'[w].scanned
    BY DEF SightInv
  <2>1. Cardinality(past) < Cap /\ Len(buffer) <= Cardinality(past) /\ Len(buffer) < Cap
    BY <1>1, <1>3, <1>5, <1>6, SessionAssumption DEF SightInv
  <2>2. /\ Len(buffer') \in Nat /\ Len(buffer) <= Len(buffer') /\ Len(buffer') <= Cardinality(past')
        /\ \A i \in 1..Len(buffer) : buffer'[i] = buffer[i]
        /\ t = target => Len(buffer') = Len(buffer) + 1 /\ buffer'[Len(buffer')] = e
    BY <1>2, <1>3, <1>5, <1>6, <1>7, <2>1
  <2>3. ASSUME NEW w \in Waits
        PROVE  /\ waits'[w].scanned <= Cardinality(past')
               /\ waits'[w].pc = "polling" => waits'[w].from <= Len(buffer')
               /\ waits'[w].pc = "polling" /\ waits'[w].steady =>
                    \A f \in past' : f.tab = waits'[w].tab /\ f.no > waits'[w].since
                                       => InSight(w, f)'
               /\ waits'[w].pc \in {"polling", "timedOut"} /\ waits'[w].steady =>
                    \A f \in past' : f.tab = waits'[w].tab /\ f.hit /\ f.no > waits'[w].since
                                       => f.no > waits'[w].scanned
    <3>1. waits[w].from \in Nat /\ waits[w].scanned \in Nat /\ waits' = waits
      BY <1>1, <1>2, SessionAssumption DEF TypeOK
    <3>2. waits[w].scanned <= Cardinality(past) /\ (waits[w].pc = "polling" => waits[w].from <= Len(buffer))
      BY <1>1, <1>3, <2>1, SessionAssumption DEF SightInv
    <3>3. \A f : InSight(w, f) => InSight(w, f)'
      <4> SUFFICES ASSUME NEW f, NEW i \in waits[w].from + 1..Len(buffer), buffer[i] = f
                   PROVE  \E j \in waits[w].from + 1..Len(buffer') : buffer'[j] = f
        BY <3>1 DEF InSight
      <4>1. i \in 1..Len(buffer) /\ i \in waits[w].from + 1..Len(buffer')
        BY <1>6, <2>2, <3>1
      <4>2. QED BY <2>2, <4>1
    <3>4. waits[w].pc = "polling" /\ t = target => InSight(w, e)'
      <4>1. waits[w].pc = "polling" /\ t = target => Len(buffer') \in waits[w].from + 1..Len(buffer')
        BY <1>6, <2>2, <3>1, <3>2
      <4>2. QED BY <2>2, <3>1, <4>1 DEF InSight
    <3>5. waits[w].pc = "polling" /\ waits[w].steady => waits[w].tab = target
      BY <1>1 DEF SteadyInv
    <3>6. e.tab = t /\ e.no = Cardinality(past) + 1 /\ Cardinality(past) <= Cap
      BY <1>3, <2>1, SessionAssumption
    <3>7. waits'[w].pc = "polling" /\ waits'[w].steady =>
            \A f \in past' : f.tab = waits'[w].tab /\ f.no > waits'[w].since => InSight(w, f)'
      <4> SUFFICES ASSUME waits[w].pc = "polling", waits[w].steady,
                          NEW f \in past', f.tab = waits[w].tab, f.no > waits[w].since
                   PROVE  InSight(w, f)'
        BY <3>1
      <4>1. CASE f \in past
        BY <1>1, <3>3, <3>6, <4>1 DEF SightInv
      <4>2. CASE f = e
        BY <3>4, <3>5, <3>6, <4>2
      <4>3. QED BY <1>2, <4>1, <4>2
    <3>8. waits'[w].pc \in {"polling", "timedOut"} /\ waits'[w].steady =>
            \A f \in past' : f.tab = waits'[w].tab /\ f.hit /\ f.no > waits'[w].since
                               => f.no > waits'[w].scanned
      <4> SUFFICES ASSUME waits[w].pc \in {"polling", "timedOut"}, waits[w].steady,
                          NEW f \in past', f.tab = waits[w].tab, f.hit, f.no > waits[w].since
                   PROVE  f.no > waits[w].scanned
        BY <3>1
      <4>1. CASE f \in past
        BY <1>1, <3>6, <4>1 DEF SightInv
      <4>2. CASE f = e
        BY <1>3, <3>1, <3>2, <3>6, <4>2
      <4>3. QED BY <1>2, <4>1, <4>2
    <3>9. QED BY <1>3, <1>5, <1>6, <2>2, <3>1, <3>2, <3>7, <3>8
  <2>4. QED BY <2>2, <2>3
<1>15. QED BY <1>11, <1>12, <1>13, <1>14 DEF SessionInv

\* A wait that is about to poll has every later event in sight.
LEMMA PollingEffect ==
  ASSUME SessionInv, NEW w \in Waits, NEW t \in Tabs, waits' = Polling(w, t),
         UNCHANGED <<target, buffer, past>>, reporting \subseteq reporting'
  PROVE  waits' \in [Waits -> WaitRecords] /\ SteadyInv' /\ SightInv'
<1>1. TypeOK /\ NumberedInv /\ SteadyInv /\ SightInv
  BY DEF SessionInv
<1>2. /\ Cardinality(past) \in 0..MaxEvents /\ Len(buffer) \in 0..Cap
      /\ \A e \in past : e.no \in Nat
  <2>1. Cardinality(past) \in 0..MaxEvents
    BY <1>1, FS_CardinalityType, SessionAssumption DEF NumberedInv
  <2>2. buffer \in Seq(Events) /\ Len(buffer) <= Cap
    BY <1>1, BufferTypes DEF TypeOK
  <2>3. Len(buffer) \in 0..Cap
    BY <2>2, SessionAssumption
  <2>4. \A e \in past : e.no \in Nat
    BY <1>1 DEF TypeOK, Events
  <2>5. QED BY <2>1, <2>3, <2>4
<1>3. waits \in [Waits -> WaitRecords] /\ NoEvent \in Events \cup {NoEvent}
  BY <1>1 DEF TypeOK, WaitRecords
<1>4. /\ waits' \in [Waits -> WaitRecords]
      /\ \A v \in Waits \ {w} : waits'[v] = waits[v]
      /\ waits'[w].pc = "polling" /\ waits'[w].tab = t /\ waits'[w].from = Len(buffer)
      /\ waits'[w].since = Cardinality(past) /\ waits'[w].scanned = Cardinality(past)
      /\ waits'[w].steady => t = target /\ t \in reporting'
  BY <1>2, <1>3 DEF Polling, WaitRecords
<1>5. SteadyInv'
  BY <1>1, <1>4 DEF SteadyInv
<1>6. \A e \in past : ~(e.no > waits'[w].since)
  BY <1>1, <1>2, <1>4 DEF NumberedInv
<1>7. SightInv'
  <2>1. \A v \in Waits \ {w} : \A e : InSight(v, e) => InSight(v, e)'
    BY <1>4 DEF InSight
  <2>2. QED BY <1>1, <1>2, <1>4, <1>6, <2>1 DEF SightInv
<1>8. QED BY <1>4, <1>5, <1>7

\* A wait whose deadline has not passed: a scan without a hit saw all there was.
LEMMA WaitSteps ==
  ASSUME SessionInv,
         \/ \E w \in Waits : Observed(w) \/ Scan(w) \/ TimesOut(w)
         \/ \E w \in Waits, t \in Tabs : WaitStarts(w, t)
  PROVE  SessionInv'
<1>1. TypeOK /\ NumberedInv /\ GroupInv /\ SteadyInv /\ SightInv
  BY DEF SessionInv
<1>2. /\ waits \in [Waits -> WaitRecords] /\ buffer \in Seq(Events)
      /\ Cardinality(past) \in 0..MaxEvents
  BY <1>1, FS_CardinalityType, BufferTypes, SessionAssumption DEF NumberedInv, TypeOK, WaitRecords
<1>3. UNCHANGED <<page, target, calls, grouped, refused, buffer, past>>
  BY DEF Observed, Scan, TimesOut, WaitStarts, binding, network
<1>4. NumberedInv' /\ GroupInv'
  BY <1>1, <1>3 DEF NumberedInv, GroupInv, AttachesTab
<1>5. SUFFICES TypeOK' /\ SteadyInv' /\ SightInv'
  BY <1>4 DEF SessionInv
\* Another wait, of which nothing changes but what may be reported.
<1>6. ASSUME NEW w \in Waits, \A v \in Waits \ {w} : waits'[v] = waits[v],
             reporting \subseteq reporting',
             ~waits'[w].steady \/ waits'[w].pc = "found" , waits'[w].pc # "polling",
             waits'[w].pc \in {"idle", "enabling"} => ~waits'[w].steady,
             waits'[w].pc = "enabling" => waits'[w].tab \in Tabs,
             waits'[w].scanned = waits[w].scanned
      PROVE  SteadyInv' /\ SightInv'
  <2>1. SteadyInv'
    BY <1>1, <1>3, <1>6 DEF SteadyInv
  <2>2. \A v \in Waits \ {w} : \A e : InSight(v, e) => InSight(v, e)'
    BY <1>3, <1>6 DEF InSight
  <2>3. SightInv'
    BY <1>1, <1>3, <1>6, <2>2 DEF SightInv
  <2>4. QED BY <2>1, <2>3
<1>7. ASSUME NEW w \in Waits, Observed(w) PROVE TypeOK' /\ SteadyInv' /\ SightInv'
  <2> DEFINE t == waits[w].tab
  <2>1. CASE IsConsole(page[t]) \/ t \in attached
    <3>1. /\ attached' = attached \cup {t} /\ reporting' = reporting \cup {t} /\ observing' = TRUE
          /\ waits' = Polling(w, t)
      BY <1>7, <2>1 DEF Observed
    <3>2. t \in Tabs
      BY <1>1, <1>7 DEF Observed, SteadyInv
    <3>3. waits' \in [Waits -> WaitRecords] /\ SteadyInv' /\ SightInv'
      BY <1>3, <3>1, <3>2, PollingEffect
    <3>4. attached' \subseteq Tabs /\ reporting' \subseteq attached'
      BY <1>1, <3>1, <3>2 DEF TypeOK
    <3>5. TypeOK'
      BY <1>1, <1>3, <1>7, <3>1, <3>3, <3>4 DEF TypeOK, Observed, WaitRecords, context
    <3>6. QED BY <3>3, <3>5
  <2>2. CASE ~(IsConsole(page[t]) \/ t \in attached)
    <3>1. waits' = [waits EXCEPT ![w].pc = "timedOut"] /\ UNCHANGED <<attached, reporting, observing>>
      BY <1>7, <2>2 DEF Observed
    <3>2. ~waits[w].steady
      BY <1>1, <1>7 DEF Observed, SteadyInv
    <3>3. /\ waits' \in [Waits -> WaitRecords] /\ \A v \in Waits \ {w} : waits'[v] = waits[v]
          /\ waits'[w].pc = "timedOut" /\ waits'[w].scanned = waits[w].scanned /\ ~waits'[w].steady
      BY <1>2, <3>1, <3>2 DEF WaitRecords
    <3>4. TypeOK'
      BY <1>1, <1>3, <1>7, <3>1, <3>3 DEF TypeOK, Observed, WaitRecords, context
    <3>5. QED BY <1>6, <3>1, <3>3, <3>4
  <2>3. QED BY <2>1, <2>2
<1>8. ASSUME NEW w \in Waits, NEW t \in Tabs, WaitStarts(w, t)
      PROVE  TypeOK' /\ SteadyInv' /\ SightInv'
  <2>1. UNCHANGED <<reporting, attached, chatting, observing, pending, captured, building, snapshot>>
    BY <1>8 DEF WaitStarts, context
  <2>2. CASE observing
    <3>1. waits' = Polling(w, t)
      BY <1>8, <2>2 DEF WaitStarts
    <3>2. waits' \in [Waits -> WaitRecords] /\ SteadyInv' /\ SightInv'
      BY <1>3, <2>1, <3>1, PollingEffect
    <3>3. TypeOK'
      BY <1>1, <1>3, <2>1, <3>2 DEF TypeOK, WaitRecords
    <3>4. QED BY <3>2, <3>3
  <2>3. CASE ~observing
    <3>1. waits' = [waits EXCEPT ![w].pc = "enabling", ![w].tab = t]
      BY <1>8, <2>3 DEF WaitStarts
    <3>2. ~waits[w].steady
      BY <1>1, <1>8 DEF WaitStarts, SteadyInv
    <3>3. /\ waits' \in [Waits -> WaitRecords] /\ \A v \in Waits \ {w} : waits'[v] = waits[v]
          /\ waits'[w].pc = "enabling" /\ waits'[w].scanned = waits[w].scanned /\ ~waits'[w].steady
          /\ waits'[w].tab = t
      BY <1>2, <3>1, <3>2 DEF WaitRecords
    <3>4. TypeOK'
      BY <1>1, <1>3, <2>1, <3>3 DEF TypeOK, WaitRecords
    <3>5. QED BY <1>6, <2>1, <3>3, <3>4
  <2>4. QED BY <2>2, <2>3
<1>9. ASSUME NEW w \in Waits, TimesOut(w) PROVE TypeOK' /\ SteadyInv' /\ SightInv'
  <2>1. /\ waits' = [waits EXCEPT ![w].pc = "timedOut"] /\ waits[w].pc = "polling"
        /\ UNCHANGED <<reporting, attached, chatting, observing, pending, captured, building, snapshot>>
    BY <1>9 DEF TimesOut, network, context
  <2>2. /\ waits' \in [Waits -> WaitRecords] /\ \A v \in Waits \ {w} : waits'[v] = waits[v]
        /\ waits'[w].pc = "timedOut" /\ waits'[w].scanned = waits[w].scanned
        /\ waits'[w].steady = waits[w].steady /\ waits'[w].since = waits[w].since
        /\ waits'[w].tab = waits[w].tab
    BY <1>2, <2>1 DEF WaitRecords
  <2>3. TypeOK'
    BY <1>1, <1>3, <2>1, <2>2 DEF TypeOK, WaitRecords
  <2>4. SteadyInv'
    BY <1>1, <1>3, <2>1, <2>2 DEF SteadyInv
  <2>5. \A v \in Waits \ {w} : \A e : InSight(v, e) => InSight(v, e)'
    BY <1>3, <2>2 DEF InSight
  <2>6. SightInv'
    BY <1>1, <1>3, <2>1, <2>2, <2>5 DEF SightInv
  <2>7. QED BY <2>3, <2>4, <2>6
<1>10. ASSUME NEW w \in Waits, Scan(w) PROVE TypeOK' /\ SteadyInv' /\ SightInv'
  <2> DEFINE hits == {i \in Fresh(w) : buffer[i].hit}
  <2>1. /\ waits[w].pc = "polling"
        /\ waits' = IF hits = {} THEN [waits EXCEPT ![w].scanned = Cardinality(past)]
                    ELSE [waits EXCEPT ![w].pc = "found",
                                       ![w].got = buffer[CHOOSE i \in hits : \A j \in hits : i <= j]]
        /\ UNCHANGED <<reporting, attached, chatting, observing, pending, captured, building, snapshot>>
    BY <1>10 DEF Scan, network, context
  <2>2. CASE hits = {}
    <3>1. waits' = [waits EXCEPT ![w].scanned = Cardinality(past)] /\ waits[w].pc = "polling"
      BY <2>1, <2>2
    <3> HIDE DEF hits
    <3>2. /\ waits' \in [Waits -> WaitRecords] /\ \A v \in Waits \ {w} : waits'[v] = waits[v]
          /\ waits'[w].pc = "polling" /\ waits'[w].scanned = Cardinality(past)
          /\ waits'[w].steady = waits[w].steady /\ waits'[w].since = waits[w].since
          /\ waits'[w].tab = waits[w].tab /\ waits'[w].from = waits[w].from
      BY <1>2, <3>1 DEF WaitRecords
    <3>3. TypeOK'
      BY <1>1, <1>3, <2>1, <3>2 DEF TypeOK, WaitRecords
    <3>4. SteadyInv'
      BY <1>1, <1>3, <2>1, <3>2 DEF SteadyInv
    <3>5. \A v \in Waits : \A e : InSight(v, e) => InSight(v, e)'
      BY <1>3, <3>2 DEF InSight
    <3>6. \A e : InSight(w, e) => ~e.hit
      BY <2>2 DEF InSight, Fresh, hits
    <3>7. SightInv'
      BY <1>1, <1>2, <1>3, <2>1, <3>2, <3>5, <3>6 DEF SightInv
    <3>8. QED BY <3>3, <3>4, <3>7
  <2>3. CASE hits # {}
    <3> DEFINE i == CHOOSE i \in hits : \A j \in hits : i <= j
    <3>1. buffer[i] \in Events
      <4>1. hits \subseteq Fresh(w) /\ Fresh(w) \subseteq 1..Len(buffer)
        <5>1. waits[w].from \in Nat /\ Len(buffer) \in Nat
          BY <1>1, <1>2, SessionAssumption DEF TypeOK
        <5>2. QED BY <5>1 DEF Fresh
      <4>2. hits \in SUBSET Nat
        BY <4>1
      <4>3. \E j \in hits : \A k \in hits : j <= k
        BY <2>3, <4>2, FirstPosition
      <4>4. i \in hits
        BY <4>3
      <4> HIDE DEF i, hits
      <4>5. QED BY <1>2, <4>1, <4>4
    <3>2. waits' = [waits EXCEPT ![w].pc = "found", ![w].got = buffer[i]]
      BY <2>1, <2>3
    <3> HIDE DEF i
    <3>3. /\ waits' \in [Waits -> WaitRecords] /\ \A v \in Waits \ {w} : waits'[v] = waits[v]
          /\ waits'[w].pc = "found" /\ waits'[w].scanned = waits[w].scanned
      BY <1>2, <3>1, <3>2 DEF WaitRecords
    <3>4. TypeOK'
      BY <1>1, <1>3, <2>1, <3>3 DEF TypeOK, WaitRecords
    <3>5. QED BY <1>6, <2>1, <3>3, <3>4
  <2>4. QED BY <2>2, <2>3
<1>11. QED BY <1>7, <1>8, <1>9, <1>10

LEMMA StepSession == SessionInv /\ [Next]_vars => SessionInv'
BY BindingSteps, QuietSteps, EventStep, WaitSteps DEF Next

-----------------------------------------------------------------------------
(* Theorems *)

\* The binding, the calls and waits in progress, the buffer and what is captured are of
\* their types: the buffer holds no more than its size, only a tab that is attached
\* reports, no event is numbered beyond those that came.
THEOREM SessionTypesCorrect == Spec => []TypeOK
<1>1. SessionInv => TypeOK
  BY DEF SessionInv
<1>2. QED BY <1>1, InitSession, StepSession, PTL DEF Spec

\* However many calls of setControlledTab overlap, and whatever tabs navigate, close or
\* are refused the debugger meanwhile, the red group has the controlled tab once all
\* calls are over, or Chrome refused the last move of it: until then a call that will
\* group it, or take another, is in progress.
THEOREM ControlledIsGrouped == Spec => []ControlledTabIsGrouped
<1>1. SessionInv => ControlledTabIsGrouped
  BY DEF SessionInv, GroupInv, ControlledTabIsGrouped
<1>2. QED BY <1>1, InitSession, StepSession, PTL DEF Spec

\* wait_for_api_response does not give up on a response that was there for it to see
\* when it last looked, whatever size the buffer is, as long as no more events came than
\* it has entries: "only check NEW entries" misses none.
THEOREM SeenUnlessFull == Spec => []SeenUntilFull
<1>1. SessionInv => SeenUntilFull
  <2> SUFFICES ASSUME SessionInv, Cardinality(past) <= Cap, NEW w \in Waits,
                      waits[w].pc = "timedOut", waits[w].steady,
                      NEW e \in past, e.tab = waits[w].tab, e.hit,
                      e.no > waits[w].since, e.no <= waits[w].scanned
               PROVE  FALSE
    BY DEF SeenUntilFull, NewResponsesAreSeen
  <2>1. e.no > waits[w].scanned
    BY DEF SessionInv, SightInv
  <2>2. e.no \in Nat /\ waits[w].scanned \in Nat
    BY SessionAssumption DEF SessionInv, TypeOK, Events
  <2>3. QED BY <2>1, <2>2
<1>2. QED BY <1>1, InitSession, StepSession, PTL DEF Spec

=============================================================================
