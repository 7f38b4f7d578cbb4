---------------------------- MODULE MessageBadge ----------------------------
(***************************************************************************)
(* What the #msgcnt badge of the message log promises, without the code's  *)
(* escalation steps: it counts the rows added since the last clear and its *)
(* colour is that of the worst type among them (INFO when there is none). *)
(* A step adds one or more rows (a batch of messages is one callback) or   *)
(* clears the log.  MessageLog is checked to implement this specification. *)
(***************************************************************************)
EXTENDS Naturals, Sequences, FiniteSetsExt

VARIABLES
    count,   \* rows since the last clear
    rows,    \* the types among them
    badge    \* the type whose colour the badge shows

\* the types of the log, from the mildest to the worst
Levels == <<"MESSAGING_INFO", "MESSAGING_WARNING", "MESSAGING_ERROR">>
Types == {Levels[i] : i \in DOMAIN Levels}

\* the worst type of S, INFO for an empty S
Worst(S) == Levels[Max({i \in DOMAIN Levels : Levels[i] \in S} \cup {1})]

Init ==
    /\ count = 0
    /\ rows = {}
    /\ badge = Levels[1]

\* rows of the types S are appended; the badge is repainted
Show(S) ==
    /\ S # {}
    /\ count' >= count + Cardinality(S)
    /\ rows' = rows \cup S
    /\ badge' = Worst(rows')

\* the log is emptied and the badge reset
Clear ==
    /\ count' = 0
    /\ rows' = {}
    /\ badge' = Levels[1]

Next == (\E S \in SUBSET Types : Show(S)) \/ Clear

Spec == Init /\ [][Next]_<<count, rows, badge>>

=============================================================================
