---------------------------- MODULE DurableQueue ----------------------------
(***************************************************************************)
(* What the queue of a runtime session promises its senders: an accepted   *)
(* message leaves only from the head and only when a turn has brought it   *)
(* to its end, or together with all the others when the session is         *)
(* removed.  A turn may break off, and its message is then run again, but  *)
(* never out of order; and no turn starts while the queue is held.         *)
(* A message counts as accepted once it is in the journal, also when its   *)
(* sender was told that the write failed.                                  *)
(***************************************************************************)
EXTENDS Naturals, Sequences

CONSTANTS
    Message,
    Depth       \* how many messages the queue holds

VARIABLES
    queue,      \* the accepted messages, oldest first
    turn,       \* of the head: not begun, under way, or at its end
    held        \* the session was archived and nothing has lifted that yet

vars == <<queue, turn, held>>

Init ==
    /\ queue = <<>>
    /\ turn = "none"
    /\ held = FALSE

Accept(m) ==
    /\ m \notin {queue[i] : i \in DOMAIN queue}
    /\ Len(queue) < Depth
    /\ queue' = Append(queue, m)
    /\ UNCHANGED <<turn, held>>

Start ==
    /\ queue # <<>>
    /\ ~held
    /\ turn = "none"
    /\ turn' = "running"
    /\ UNCHANGED <<queue, held>>

Finish ==
    /\ turn = "running"
    /\ turn' = "finished"
    /\ UNCHANGED <<queue, held>>

\* The turn crashed, or its end was not recorded: the message keeps its place.
BreakOff ==
    /\ turn' = "none"
    /\ UNCHANGED <<queue, held>>

Retire ==
    /\ queue # <<>>
    /\ turn = "finished"
    /\ queue' = Tail(queue)
    /\ turn' = "none"
    /\ UNCHANGED held

Hold == held' = TRUE /\ UNCHANGED <<queue, turn>>
Lift == held' = FALSE /\ UNCHANGED <<queue, turn>>

\* The session is removed, between two turns.
Clear ==
    /\ turn = "none"
    /\ queue' = <<>>
    /\ held' = FALSE
    /\ UNCHANGED turn

Next ==
    \/ \E m \in Message : Accept(m)
    \/ Start \/ Finish \/ BreakOff \/ Retire \/ Hold \/ Lift \/ Clear

Spec == Init /\ [][Next]_vars
=============================================================================
