----------------------- MODULE TurnInteractionsProofs -----------------------
(***************************************************************************)
(* Safety of permission requests and elicitations for any turns, any calls *)
(* and any way they repeat each other's ids.                               *)
(***************************************************************************)
EXTENDS TurnInteractions, TLAPS

\* What is proved by induction: the table of entries, and that nobody is asked
\* for a request that is over.
IInv == TableInv /\ AskedForLiveTurn

\* The daemon starts with an empty table and no turn.
LEMMA InitEstablishesIInv == Init => IInv
<1> SUFFICES ASSUME Init PROVE IInv
  OBVIOUS
<1> USE DEF Init
<1>1. TypeOK
  BY DEF TypeOK, Phase
<1>2. \A r \in Request : held[SlotOf(r)] = None
  BY IdOfType DEF Slot, SlotOf, KindOf, Kinds
<1>3. EntryPerCall
  BY <1>2, NoneIsNone DEF EntryPerCall, InFlight, Entered
<1>4. EntryIsOpen
  BY <1>2, NoneIsNone DEF EntryIsOpen, Entered
<1>5. RoutesAreWatched
  BY DEF RoutesAreWatched
<1>6. AskedForLiveTurn
  BY DEF AskedForLiveTurn
<1> QED
  BY <1>1, <1>3, <1>4, <1>5, <1>6 DEF IInv, TableInv

\* Marking entries terminal and firing their controllers keeps the table: they
\* stay until their calls return.
LEMMA AbortKeepsTable ==
    ASSUME IInv, NEW R \in SUBSET Request, Abort(R),
           \A r \in R : Entered(r),
           UNCHANGED <<held, late, answer, result>>
    PROVE  /\ phase' \in [Request -> Phase]
           /\ settled' \subseteq Request /\ aborted' \subseteq Request
           /\ armed' \subseteq {r \in Request : held'[SlotOf(r)] = r}
           /\ EntryPerCall' /\ EntryIsOpen'
           /\ \A r \in Request :
                phase'[r] = "asked" =>
                    /\ phase[r] = "asked" /\ r \notin R
                    /\ r \in armed' /\ r \notin aborted'
<1> USE DEF IInv, TableInv, TypeOK, Abort, Interrupt
<1>1. \A r \in Request :
         phase'[r] = IF r \in R /\ phase[r] = "asked" THEN "settling" ELSE phase[r]
  OBVIOUS
<1>2. phase' \in [Request -> Phase]
  BY DEF Phase
<1>3. EntryPerCall'
  BY <1>1 DEF EntryPerCall, InFlight, Entered
<1>4. EntryIsOpen'
  BY <1>1 DEF EntryIsOpen, EntryPerCall, InFlight, Entered
<1>5. \A r \in Request :
         phase'[r] = "asked" =>
             /\ phase[r] = "asked" /\ r \notin R
             /\ r \in armed' /\ r \notin aborted'
  BY <1>1 DEF AskedForLiveTurn
<1> QED
  BY <1>2, <1>3, <1>4, <1>5

\* A new turn gets its routes and is watched.
LEMMA BindTurnKeepsIInv ==
    ASSUME IInv, NEW t \in Turn, NEW kinds \in SUBSET Kinds, BindTurn(t, kinds)
    PROVE  IInv'
<1> USE DEF IInv, TableInv, TypeOK, BindTurn
<1>1. routes[t] = {} /\ \A u \in Turn : u # t => routes'[u] = routes[u]
  BY DEF RoutesAreWatched
<1>2. TypeOK'
  OBVIOUS
<1>3. EntryPerCall'
  BY DEF EntryPerCall, InFlight, Entered
<1>4. EntryIsOpen'
  BY DEF EntryIsOpen, Entered
<1>5. RoutesAreWatched'
  BY <1>1 DEF RoutesAreWatched
<1>6. AskedForLiveTurn'
  BY <1>1, TurnOfType DEF AskedForLiveTurn
<1> QED
  BY <1>2, <1>3, <1>4, <1>5, <1>6

\* When the routes of a turn go, its calls are told, or there were none to tell.
LEMMA UnbindKeepsIInv ==
    ASSUME IInv, NEW t \in Turn, NEW R \in SUBSET Request, Abort(R),
           R = IF routes[t] = {} THEN {} ELSE Subscribed(t),
           turn' \in [Turn -> {"new", "bound", "disposed"}],
           \A u \in Turn : u # t => turn'[u] = turn[u],
           routes' = [routes EXCEPT ![t] = {}],
           listening' = listening \ {t},
           UNCHANGED <<held, late, answer, result, shutDown>>
    PROVE  IInv'
<1> USE DEF IInv, TableInv, TypeOK
<1>1. \A r \in R : Entered(r)
  BY DEF Subscribed
<1>2. /\ phase' \in [Request -> Phase]
      /\ settled' \subseteq Request /\ aborted' \subseteq Request
      /\ armed' \subseteq {r \in Request : held'[SlotOf(r)] = r}
      /\ EntryPerCall' /\ EntryIsOpen'
      /\ \A r \in Request :
           phase'[r] = "asked" =>
               /\ phase[r] = "asked" /\ r \notin R
               /\ r \in armed' /\ r \notin aborted'
  BY <1>1, AbortKeepsTable
<1>3. \A u \in Turn : routes'[u] = IF u = t THEN {} ELSE routes[u]
  OBVIOUS
<1>4. TypeOK'
  BY <1>2, <1>3
<1>5. RoutesAreWatched'
  BY <1>3 DEF RoutesAreWatched
<1>6. AskedForLiveTurn'
  <2>1. ASSUME NEW r \in Request, phase'[r] = "asked"
        PROVE  KindOf(r) \in routes'[TurnOf[r]]
    <3>1. /\ phase[r] = "asked" /\ r \notin R /\ KindOf(r) \in routes[TurnOf[r]]
          /\ r \in armed /\ TurnOf[r] \in Turn
      BY <1>2, <2>1, TurnOfType DEF AskedForLiveTurn
    <3>2. TurnOf[r] # t
      BY <3>1 DEF EntryIsOpen, RoutesAreWatched, Subscribed
    <3> QED
      BY <1>3, <3>1, <3>2
  <2> QED
    BY <1>2, <2>1 DEF AskedForLiveTurn
<1> QED
  BY <1>2, <1>4, <1>5, <1>6

\* A call that changes only its own phase, outside the race, keeps the
\* invariant as long as it stays on the same side of its registration.
LEMMA MoveKeepsIInv ==
    ASSUME IInv, NEW r \in Request, NEW p \in Phase \ {"new"},
           phase' = [phase EXCEPT ![r] = p],
           p = "done" <=> ~InFlight(r),
           p = "asked" => ~Stale(r),
           answer' \in [Request -> {"none", "good", "bad"}],
           result' \in [Request -> {"none", "granted", "refused"}],
           UNCHANGED <<turn, routes, listening, held, settled, aborted, armed,
                       late, shutDown>>
    PROVE  IInv'
<1> USE DEF IInv, TableInv, TypeOK
<1>1. \A q \in Request : phase'[q] = IF q = r THEN p ELSE phase[q]
  OBVIOUS
<1>2. TypeOK'
  OBVIOUS
<1>3. EntryPerCall'
  <2>1. InFlight(r)' <=> InFlight(r)
    BY <1>1 DEF InFlight, Phase
  <2>2. \A q \in Request : q # r => (InFlight(q)' <=> InFlight(q))
    BY <1>1 DEF InFlight
  <2> QED
    BY <2>1, <2>2 DEF EntryPerCall, Entered
<1>4. EntryIsOpen'
  BY <1>1 DEF EntryIsOpen, Entered
<1>5. RoutesAreWatched'
  BY DEF RoutesAreWatched
<1>6. AskedForLiveTurn'
  BY <1>1 DEF AskedForLiveTurn, Stale, EntryIsOpen
<1> QED
  BY <1>2, <1>3, <1>4, <1>5, <1>6

\* A registered call takes a free entry.
LEMMA RegisterKeepsIInv ==
    ASSUME IInv, NEW r \in Request, Register(r)
    PROVE  IInv'
<1> USE DEF IInv, TableInv, TypeOK, Register
<1>1. SlotOf(r) \in Slot /\ r # None
  BY IdOfType, NoneIsNone DEF Slot, SlotOf, KindOf, Kinds
<1>2. /\ held'[SlotOf(r)] = r
      /\ \A s \in Slot : s # SlotOf(r) => held'[s] = held[s]
  BY <1>1
<1>3. \A q \in Request : SlotOf(q) \in Slot
  BY IdOfType DEF Slot, SlotOf, KindOf, Kinds
<1>4. \A q \in Request : held'[SlotOf(q)] = q <=> q = r \/ held[SlotOf(q)] = q
  <2>1. ASSUME NEW q \in Request, SlotOf(q) = SlotOf(r)
        PROVE  held'[SlotOf(q)] = q <=> q = r \/ held[SlotOf(q)] = q
    BY <1>2, <2>1, NoneIsNone
  <2>2. ASSUME NEW q \in Request, SlotOf(q) # SlotOf(r)
        PROVE  held'[SlotOf(q)] = q <=> q = r \/ held[SlotOf(q)] = q
    BY <1>2, <1>3, <2>2
  <2> QED
    BY <2>1, <2>2
<1>5. \A q \in Request : phase'[q] = IF q = r THEN "logging" ELSE phase[q]
  OBVIOUS
<1>6. r \notin settled \cup aborted
  BY DEF EntryIsOpen
<1>7. TypeOK'
  <2>1. held' \in [Slot -> Request \cup {None}]
    BY <1>1
  <2>2. armed' \subseteq {q \in Request : held'[SlotOf(q)] = q}
    BY <1>4
  <2>3. phase' \in [Request -> Phase]
    BY DEF Phase
  <2> QED
    BY <2>1, <2>2, <2>3
<1>8. EntryPerCall'
  BY <1>4, <1>5 DEF EntryPerCall, InFlight, Entered
<1>9. EntryIsOpen'
  BY <1>4, <1>5, <1>6 DEF EntryIsOpen, Entered
<1>10. RoutesAreWatched'
  BY DEF RoutesAreWatched
<1>11. AskedForLiveTurn'
  BY <1>5 DEF AskedForLiveTurn
<1> QED
  BY <1>7, <1>8, <1>9, <1>10, <1>11

\* A call that returns removes its own entry.
LEMMA SettleKeepsIInv ==
    ASSUME IInv, NEW r \in Request, NEW o \in {"granted", "refused"},
           InFlight(r), Settle(r, o),
           UNCHANGED <<turn, routes, listening, aborted, late, answer, shutDown>>
    PROVE  IInv'
<1> USE DEF IInv, TableInv, TypeOK, Settle
<1>1. SlotOf(r) \in Slot /\ held[SlotOf(r)] = r
  BY IdOfType DEF Slot, SlotOf, KindOf, Kinds, EntryPerCall, Entered
<1>2. \A q \in Request : SlotOf(q) \in Slot
  BY IdOfType DEF Slot, SlotOf, KindOf, Kinds
<1>3. \A q \in Request : held'[SlotOf(q)] = q <=> q # r /\ held[SlotOf(q)] = q
  <2>1. ASSUME NEW q \in Request, SlotOf(q) = SlotOf(r)
        PROVE  held'[SlotOf(q)] = q <=> q # r /\ held[SlotOf(q)] = q
    BY <1>1, <2>1, NoneIsNone
  <2>2. ASSUME NEW q \in Request, SlotOf(q) # SlotOf(r)
        PROVE  held'[SlotOf(q)] = q <=> q # r /\ held[SlotOf(q)] = q
    BY <1>1, <1>2, <2>2
  <2> QED
    BY <2>1, <2>2
<1>4. \A q \in Request : phase'[q] = IF q = r THEN "done" ELSE phase[q]
  OBVIOUS
<1>5. TypeOK'
  <2>1. held' \in [Slot -> Request \cup {None}]
    BY <1>1
  <2>2. armed' \subseteq {q \in Request : held'[SlotOf(q)] = q}
    BY <1>3
  <2>3. phase' \in [Request -> Phase]
    BY DEF Phase
  <2> QED
    BY <2>1, <2>2, <2>3
<1>6. EntryPerCall'
  BY <1>3, <1>4 DEF EntryPerCall, InFlight, Entered
<1>7. EntryIsOpen'
  BY <1>3, <1>4 DEF EntryIsOpen, Entered
<1>8. RoutesAreWatched'
  BY DEF RoutesAreWatched
<1>9. AskedForLiveTurn'
  BY <1>4 DEF AskedForLiveTurn
<1> QED
  BY <1>5, <1>6, <1>7, <1>8, <1>9

\* The deadline and the withdrawal of one request.
LEMMA TimerKeepsIInv ==
    ASSUME IInv, NEW r \in Request, TimerFires(r)
    PROVE  IInv'
<1> USE DEF IInv, TableInv, TypeOK, TimerFires
<1>1. Abort({r}) /\ Entered(r)
  BY DEF EntryIsOpen
<1>2. /\ phase' \in [Request -> Phase]
      /\ settled' \subseteq Request /\ aborted' \subseteq Request
      /\ armed' \subseteq {q \in Request : held'[SlotOf(q)] = q}
      /\ EntryPerCall' /\ EntryIsOpen'
      /\ \A q \in Request :
           phase'[q] = "asked" =>
               /\ phase[q] = "asked" /\ q \notin {r}
               /\ q \in armed' /\ q \notin aborted'
  BY <1>1, AbortKeepsTable
<1>3. RoutesAreWatched'
  BY DEF RoutesAreWatched
<1>4. AskedForLiveTurn'
  BY <1>2 DEF AskedForLiveTurn
<1> QED
  BY <1>2, <1>3, <1>4

\* The agent withdraws one elicitation.
LEMMA WithdrawKeepsIInv ==
    ASSUME IInv, NEW r \in Request, Withdraw(r)
    PROVE  IInv'
<1> USE DEF IInv, TableInv, TypeOK, Withdraw, Interrupt
<1>1. \A q \in Request :
         phase'[q] = IF q = r /\ phase[q] = "asked" THEN "settling" ELSE phase[q]
  OBVIOUS
<1>2. TypeOK'
  BY DEF Phase
<1>3. EntryPerCall'
  BY <1>1 DEF EntryPerCall, InFlight, Entered
<1>4. EntryIsOpen'
  BY <1>1 DEF EntryIsOpen, Entered, InFlight
<1>5. RoutesAreWatched'
  BY DEF RoutesAreWatched
<1>6. AskedForLiveTurn'
  BY <1>1 DEF AskedForLiveTurn
<1> QED
  BY <1>2, <1>3, <1>4, <1>5, <1>6

\* Shutdown tells every open request.
LEMMA ShutdownKeepsIInv ==
    ASSUME IInv, Shutdown
    PROVE  IInv'
<1> USE DEF IInv, TableInv, TypeOK, Shutdown
<1> DEFINE R == {r \in Request : Entered(r) /\ r \notin settled}
<1>1. Abort(R) /\ R \in SUBSET Request /\ \A r \in R : Entered(r)
  OBVIOUS
<1> HIDE DEF R
<1>2. /\ phase' \in [Request -> Phase]
      /\ settled' \subseteq Request /\ aborted' \subseteq Request
      /\ armed' \subseteq {r \in Request : held'[SlotOf(r)] = r}
      /\ EntryPerCall' /\ EntryIsOpen'
      /\ \A r \in Request :
           phase'[r] = "asked" =>
               /\ phase[r] = "asked" /\ r \notin R
               /\ r \in armed' /\ r \notin aborted'
  BY <1>1, AbortKeepsTable
<1>3. TypeOK'
  BY <1>2
<1>4. RoutesAreWatched'
  BY DEF RoutesAreWatched
<1>5. AskedForLiveTurn'
  BY <1>2 DEF AskedForLiveTurn, EntryIsOpen, R
<1> QED
  BY <1>2, <1>3, <1>4, <1>5

\* The clock is no part of the table.
LEMMA ClockKeepsIInv ==
    ASSUME IInv, late' \subseteq Request,
           UNCHANGED <<turn, routes, listening, phase, held, settled, aborted,
                       armed, answer, result, shutDown>>
    PROVE  IInv'
BY DEF IInv, TableInv, TypeOK, EntryPerCall, InFlight, Entered, EntryIsOpen,
       RoutesAreWatched, AskedForLiveTurn

\* Every step keeps the invariant.
LEMMA StepKeepsIInv == IInv /\ [Next]_vars => IInv'
<1> SUFFICES ASSUME IInv, [Next]_vars PROVE IInv'
  OBVIOUS
<1> USE DEF IInv, TableInv, TypeOK
<1>1. ASSUME NEW t \in Turn, NEW kinds \in SUBSET Kinds, BindTurn(t, kinds)
      PROVE  IInv'
  BY <1>1, BindTurnKeepsIInv
<1>2. ASSUME NEW t \in Turn, AbortTurn(t) PROVE IInv'
  <2>1. Subscribed(t) \in SUBSET Request
    BY DEF Subscribed
  <2> QED
    BY <1>2, <2>1, UnbindKeepsIInv DEF AbortTurn
<1>3. ASSUME NEW t \in Turn, DisposeTurn(t) PROVE IInv'
  <2>1. Subscribed(t) \in SUBSET Request
    BY DEF Subscribed
  <2>2. (IF routes[t] = {} THEN {} ELSE Subscribed(t)) \in SUBSET Request
    BY <2>1
  <2> QED
    BY <1>3, <2>2, UnbindKeepsIInv DEF DisposeTurn
<1>4. ASSUME NEW r \in Request, Refuse(r) PROVE IInv'
  BY <1>4, MoveKeepsIInv DEF Refuse, Phase, InFlight
<1>5. ASSUME NEW r \in Request, Register(r) PROVE IInv'
  BY <1>5, RegisterKeepsIInv
<1>6. ASSUME NEW r \in Request, Dispatch(r) PROVE IInv'
  BY <1>6, MoveKeepsIInv DEF Dispatch, Phase, InFlight
<1>7. ASSUME NEW r \in Request, Answer(r) PROVE IInv'
  <2>1. answer' \in [Request -> {"none", "good", "bad"}]
    BY <1>7 DEF Answer
  <2> QED
    BY <1>7, <2>1, MoveKeepsIInv DEF Answer, Phase, InFlight
<1>8. ASSUME NEW r \in Request, ChannelFails(r) PROVE IInv'
  BY <1>8, MoveKeepsIInv DEF ChannelFails, Phase, InFlight
<1>9. ASSUME NEW r \in Request, Conclude(r) PROVE IInv'
  <2>1. CASE Stale(r) \/ answer[r] = "bad"
    BY <1>9, <2>1, MoveKeepsIInv DEF Conclude, Phase, InFlight
  <2>2. CASE ~(Stale(r) \/ answer[r] = "bad")
    BY <1>9, <2>2, SettleKeepsIInv DEF Conclude, InFlight
  <2> QED
    BY <2>1, <2>2
<1>10. ASSUME NEW r \in Request, Finish(r) PROVE IInv'
  BY <1>10, SettleKeepsIInv DEF Finish, InFlight
<1>11. ASSUME NEW r \in Request, PassDeadline(r) PROVE IInv'
  BY <1>11, ClockKeepsIInv DEF PassDeadline
<1>12. ASSUME NEW r \in Request, TimerFires(r) PROVE IInv'
  BY <1>12, TimerKeepsIInv
<1>13. ASSUME NEW r \in Request, Withdraw(r) PROVE IInv'
  BY <1>13, WithdrawKeepsIInv
<1>14. CASE Shutdown
  BY <1>14, ShutdownKeepsIInv
<1>15. CASE UNCHANGED vars
  BY <1>15, ClockKeepsIInv DEF vars
<1> QED
  BY <1>1, <1>2, <1>3, <1>4, <1>5, <1>6, <1>7, <1>8, <1>9, <1>10, <1>11, <1>12,
     <1>13, <1>14, <1>15 DEF Next

-----------------------------------------------------------------------------
(* Theorems.                                                               *)

\* The inductive invariant holds in every reachable state.
LEMMA IInvCorrect == Spec => []IInv
<1> QED
  BY InitEstablishesIInv, StepKeepsIInv, PTL DEF Spec

\* Every call in flight owns the entry of its id, and no other call does: what
\* the pending maps of the brokers hold is what is in flight.
THEOREM TableInvCorrect == Spec => []TableInv
<1>1. IInv => TableInv
  BY DEF IInv
<1> QED
  BY <1>1, IInvCorrect, PTL

\* Nobody is asked for a turn that has ended or a request that was withdrawn.
THEOREM NobodyAskedInVain == Spec => []AskedForLiveTurn
<1>1. IInv => AskedForLiveTurn
  BY DEF IInv
<1> QED
  BY <1>1, IInvCorrect, PTL

\* Only a call that resumes with a fresh, good answer grants, and it looked at
\* everything that could have ended the request.
LEMMA GrantLooked ==
    ASSUME IInv, [Next]_vars, NEW r \in Request,
           result[r] # "granted", result'[r] = "granted"
    PROVE  ~Stale(r)
<1>1. PICK q \in Request : Refuse(q) \/ Conclude(q) \/ Finish(q)
  BY DEF Next, vars, BindTurn, AbortTurn, DisposeTurn, Register, Dispatch, Answer,
         ChannelFails, PassDeadline, TimerFires, Withdraw, Shutdown
<1>2. result \in [Request -> {"none", "granted", "refused"}]
  BY DEF IInv, TableInv, TypeOK
<1>3. Conclude(q) /\ q = r
  BY <1>1, <1>2 DEF Refuse, Conclude, Finish, Settle
<1> QED
  BY <1>2, <1>3 DEF Conclude

\* A person's answer counts only for a request still open when it is delivered.
THEOREM GrantsAreTimely == Spec => GrantIsTimely
<1>1. ASSUME IInv, [Next]_vars
      PROVE  [\A r \in Request :
                 result[r] # "granted" /\ result'[r] = "granted" =>
                     /\ KindOf(r) \in routes[TurnOf[r]]
                     /\ r \notin late \cup aborted \cup settled
                     /\ ~shutDown]_vars
  BY <1>1, GrantLooked DEF Stale
<1> QED
  BY <1>1, IInvCorrect, PTL DEF Spec, GrantIsTimely
=============================================================================
