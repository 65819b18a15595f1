------------------------------ MODULE ChatTurn ------------------------------
(***************************************************************************)
(* What the chat promises of a turn, whatever routes it: a turn is opened   *)
(* once, by one panel; the pieces of the answer are shown in the order the  *)
(* worker numbered them, none twice; a turn ends once, and nothing is shown *)
(* of it afterwards.                                                        *)
(***************************************************************************)
EXTENDS Naturals, Sequences

CONSTANTS Turns, Panels, NoPanel,
          Pieces    \* the numbers a worker gives the pieces of an answer

VARIABLES
  asker,  \* the panel that opened each turn
  phase,  \* "new", "open" or "ended"
  shown   \* the numbers of the pieces shown of each turn

tvars == <<asker, phase, shown>>

TInit ==
  /\ asker = [t \in Turns |-> NoPanel]
  /\ phase = [t \in Turns |-> "new"]
  /\ shown = [t \in Turns |-> <<>>]

Opens(n, t) ==
  /\ phase[t] = "new"
  /\ \A u \in Turns : asker[u] = n => phase[u] # "open"
  /\ phase' = [phase EXCEPT ![t] = "open"]
  /\ asker' = [asker EXCEPT ![t] = n]
  /\ UNCHANGED shown

Shows(t, i) ==
  /\ phase[t] = "open"
  /\ \A j \in DOMAIN shown[t] : shown[t][j] < i
  /\ shown' = [shown EXCEPT ![t] = Append(@, i)]
  /\ UNCHANGED <<asker, phase>>

Ends(t) ==
  /\ phase[t] = "open"
  /\ phase' = [phase EXCEPT ![t] = "ended"]
  /\ UNCHANGED <<asker, shown>>

TNext ==
  \/ \E n \in Panels, t \in Turns : Opens(n, t)
  \/ \E t \in Turns, i \in Pieces : Shows(t, i)
  \/ \E t \in Turns : Ends(t)

TSpec == TInit /\ [][TNext]_tvars
=============================================================================
