---------------------------- MODULE MCTurnQueue ----------------------------
(* A small instance of TurnQueue: the request ids the prompts carry.        *)
EXTENDS TurnQueue

CONSTANTS h1, s1, p1, i1, c1, c2, r1, r2, r3

\* p1 is retried as the interrupt i1 under the same id; a person's prompt and a
\* conversation member's turn carry an id too, which only inspection reads.
MCReqOf ==
    [p \in Prompt |->
        CASE p = h1 -> r3
          [] p = s1 -> r2
          [] OTHER  -> r1]
=============================================================================
