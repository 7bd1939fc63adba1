------------------------------ MODULE TurnLane ------------------------------
(***************************************************************************)
(* What a turn lane of xacpx promises, without its guards, waits and       *)
(* teardowns: one holder at a time, a bounded first-in-first-out backlog   *)
(* with one place of priority ahead of it, and a hand-over that leaves no  *)
(* gap between two turns for a third party to enter.                       *)
(*                                                                         *)
(* Contracted entrants wait only behind a holder, so that a holder's       *)
(* leaving is enough to serve them.  An uncontracted one may be left in    *)
(* the backlog of a free lane (a prompt accepted while the session is torn *)
(* down), and may then be overtaken.                                       *)
(***************************************************************************)
EXTENDS Integers, Sequences, FiniteSets, SequencesExt

CONSTANTS
    Entrant,     \* those who may hold the lane
    Priority,    \* entrants for the place of priority, all of them contracted
    Contracted,  \* entrants to whom an outcome is owed
    Bound,       \* the capacity of the backlog, the place of priority aside
    None

VARIABLES holder, backlog, phase

vars == <<holder, backlog, phase>>

Init ==
    /\ holder = None
    /\ backlog = <<>>
    /\ phase = [p \in Entrant |-> "outside"]

Waits(p) == Contains(backlog, p)
NoContractWaits == \A p \in Contracted : ~Waits(p)
Ordinary == {i \in DOMAIN backlog : backlog[i] \notin Priority}

\* A free lane is entered at once, but never past a contracted entrant.
Enter(p) ==
    /\ phase[p] = "outside"
    /\ holder = None
    /\ NoContractWaits
    /\ holder' = p
    /\ phase' = [phase EXCEPT ![p] = "holding"]
    /\ UNCHANGED backlog

\* Join the end of the backlog.
Join(p) ==
    /\ p \notin Priority
    /\ phase[p] = "outside"
    /\ p \in Contracted => holder # None
    /\ Cardinality(Ordinary) < Bound
    /\ backlog' = Append(backlog, p)
    /\ phase' = [phase EXCEPT ![p] = "waiting"]
    /\ UNCHANGED holder

\* Take the place of priority, if it is free, behind the holder.
Reserve(p) ==
    /\ p \in Priority
    /\ phase[p] = "outside"
    /\ holder # None
    /\ \A i \in DOMAIN backlog : backlog[i] \notin Priority
    /\ backlog' = <<p>> \o backlog
    /\ phase' = [phase EXCEPT ![p] = "waiting"]
    /\ UNCHANGED holder

Refuse(p) ==
    /\ phase[p] = "outside"
    /\ phase' = [phase EXCEPT ![p] = "gone"]
    /\ UNCHANGED <<holder, backlog>>

\* The holder leaves and the first of the backlog holds in the same step.
HandOver ==
    /\ holder # None
    /\ backlog # <<>>
    /\ holder' = Head(backlog)
    /\ backlog' = Tail(backlog)
    /\ phase' = [phase EXCEPT ![holder] = "gone", ![Head(backlog)] = "holding"]

Release ==
    /\ holder # None
    /\ backlog = <<>>
    /\ holder' = None
    /\ phase' = [phase EXCEPT ![holder] = "gone"]
    /\ UNCHANGED backlog

\* One of those who wait is withdrawn; the others keep their order.
Withdraw(i) ==
    /\ backlog' = RemoveAt(backlog, i)
    /\ phase' = [phase EXCEPT ![backlog[i]] = "gone"]
    /\ UNCHANGED holder

\* All who wait are withdrawn together.
WithdrawAll ==
    /\ backlog # <<>>
    /\ backlog' = <<>>
    /\ phase' = [p \in Entrant |-> IF Waits(p) THEN "gone" ELSE phase[p]]
    /\ UNCHANGED holder

Next ==
    \/ \E p \in Entrant : Enter(p) \/ Join(p) \/ Reserve(p) \/ Refuse(p)
    \/ HandOver
    \/ Release
    \/ \E i \in DOMAIN backlog : Withdraw(i)
    \/ WithdrawAll

Spec == Init /\ [][Next]_vars
=============================================================================
