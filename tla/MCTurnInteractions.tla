------------------------- MODULE MCTurnInteractions -------------------------
(* Small instances of TurnInteractions.                                    *)
EXTENDS TurnInteractions

CONSTANTS t1, t2, a1, a2, e1, x

\* Two permission requests repeat one id across turns; an elicitation of the
\* first turn has the same id in the other broker.
MCTurnOf == [r \in Request |-> IF r = a2 THEN t2 ELSE t1]
MCIdOf == [r \in Request |-> x]
=============================================================================
