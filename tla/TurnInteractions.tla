-------------------------- MODULE TurnInteractions --------------------------
(***************************************************************************)
(* How an agent asks the person behind a turn: permission requests and     *)
(* form elicitations, routed by the turn they belong to.                   *)
(*   src/interactions/turn-interaction-registry.ts                         *)
(*   src/permissions/permission-interaction-broker.ts                      *)
(*   src/interactions/elicitation-interaction-broker.ts                    *)
(*   src/commands/handlers/session-handler.ts (binding and disposal)       *)
(*                                                                         *)
(* The registry holds one route per turn and kind, and tells its           *)
(* subscribers when the last route of a turn goes.  The permission broker  *)
(* subscribes once per turn, the elicitation broker once per request.      *)
(* Between registering a request and returning its result a broker awaits  *)
(* its log, the channel and the log again; the turn, the deadline and      *)
(* shutdown can change under each await.                                   *)
(***************************************************************************)
EXTENDS Integers, FiniteSets

CONSTANTS
    Turn,         \* prompt turns, named by their interactionId
    Permission,   \* calls of requestPermission
    Elicitation,  \* calls of resolveElicitation
    TurnOf,       \* the turn each request is for
    RequestId,    \* requestId, elicitationRequestId values
    IdOf,         \* the id each request carries; an agent may repeat one
    None

Request == Permission \cup Elicitation
Kinds == {"permission", "elicitation"}
KindOf(r) == IF r \in Permission THEN "permission" ELSE "elicitation"

ASSUME KindsDisjoint == Permission \cap Elicitation = {}
ASSUME TurnOfType == TurnOf \in [Request -> Turn]
ASSUME IdOfType == IdOf \in [Request -> RequestId]
ASSUME NoneIsNone == None \notin Request

VARIABLES
    turn,       \* whether a turn's routes are not yet bound, bound, disposed
    routes,     \* turns of the registry: the kinds each turn is bound for
    listening,  \* turns the permission broker is subscribed to
    phase,      \* where each call stands
    held,       \* the brokers' pending maps: kind and id to the call
    settled,    \* requests whose entry is marked terminal
    aborted,    \* requests whose AbortController fired
    armed,      \* requests whose deadline timer is armed; each has an entry
    late,       \* requests for which Date.now() >= expiresAt
    answer,     \* what the channel resolved with
    result,     \* what each call returned
    shutDown

vars == <<turn, routes, listening, phase, held, settled, aborted, armed, late,
          answer, result, shutDown>>

Phase == {"new",       \* not made
          "logging",   \* registered, awaiting the log before dispatch
          "asked",     \* in the race of the channel and the abort
          "answered",  \* the channel won the race, the call has not resumed
          "settling",  \* refused, awaiting the log before settle()
          "done"}
InFlight(r) == phase[r] \in {"logging", "asked", "answered", "settling"}

Slot == Kinds \X RequestId
SlotOf(r) == <<KindOf(r), IdOf[r]>>

TypeOK ==
    /\ turn \in [Turn -> {"new", "bound", "disposed"}]
    /\ routes \in [Turn -> SUBSET Kinds]
    /\ listening \subseteq Turn
    /\ phase \in [Request -> Phase]
    /\ held \in [Slot -> Request \cup {None}]
    /\ settled \subseteq Request
    /\ aborted \subseteq Request
    /\ armed \subseteq {r \in Request : held[SlotOf(r)] = r}
    /\ late \subseteq Request
    /\ answer \in [Request -> {"none", "good", "bad"}]
    /\ result \in [Request -> {"none", "granted", "refused"}]
    /\ shutDown \in BOOLEAN

Init ==
    /\ turn = [t \in Turn |-> "new"]
    /\ routes = [t \in Turn |-> {}]
    /\ listening = {}
    /\ phase = [r \in Request |-> "new"]
    /\ held = [s \in Slot |-> None]
    /\ settled = {}
    /\ aborted = {}
    /\ armed = {}
    /\ late = {}
    /\ answer = [r \in Request |-> "none"]
    /\ result = [r \in Request |-> "none"]
    /\ shutDown = FALSE

-----------------------------------------------------------------------------
(* Ending requests from outside.                                           *)

Entered(r) == held[SlotOf(r)] = r

\* An abort while the race is on makes the call resume in its catch block.
Interrupt(R) ==
    phase' = [r \in Request |->
                 IF r \in R /\ phase[r] = "asked" THEN "settling" ELSE phase[r]]

\* Mutant: the entry is marked terminal without firing its controller.
MarkOnly(R) ==
    /\ settled' = settled \cup R
    /\ armed' = armed \ R
    /\ UNCHANGED <<aborted, phase>>

\* abortInteraction and its siblings: mark the entry terminal first, then fire
\* its controller and clear its timer.
Abort(R) ==
    /\ settled' = settled \cup R
    /\ aborted' = aborted \cup R
    /\ armed' = armed \ R
    /\ Interrupt(R)

\* Those the registry tells when the last route of the turn goes.
Subscribed(t) ==
    {r \in Request :
        /\ TurnOf[r] = t /\ Entered(r) /\ r \notin settled
        /\ r \in Permission => t \in listening}

-----------------------------------------------------------------------------
(* The turn.                                                               *)

\* A prompt is dispatched: permission always, elicitation if the turn has a
\* route that can show a form.
BindTurn(t, kinds) ==
    /\ turn[t] = "new" /\ ~shutDown
    /\ "permission" \in kinds
    /\ turn' = [turn EXCEPT ![t] = "bound"]
    /\ routes' = [routes EXCEPT ![t] = kinds]
    /\ listening' = listening \cup {t}
    /\ UNCHANGED <<phase, held, settled, aborted, armed, late, answer, result,
                   shutDown>>

\* The turn's AbortSignal fires: both routes are unbound, and the second to go
\* tells the subscribers.
AbortTurn(t) ==
    /\ turn[t] = "bound" /\ routes[t] # {}
    /\ routes' = [routes EXCEPT ![t] = {}]
    /\ listening' = listening \ {t}
    /\ Abort(Subscribed(t))
    /\ UNCHANGED <<turn, held, late, answer, result, shutDown>>

\* Mutant: the permission binding is disposed of first, which unsubscribes the
\* permission broker while the elicitation route still keeps the turn alive.
DisposePermissionFirst(t) ==
    /\ turn[t] = "bound"
    /\ turn' = [turn EXCEPT ![t] = "disposed"]
    /\ routes' = [routes EXCEPT ![t] = {}]
    /\ listening' = listening \ {t}
    /\ Abort(IF routes[t] = Kinds THEN Subscribed(t) \cap Elicitation
             ELSE IF routes[t] = {} THEN {} ELSE Subscribed(t))
    /\ UNCHANGED <<held, late, answer, result, shutDown>>

\* The prompt has returned: the elicitation binding is disposed of, then the
\* permission binding, whose unbinding tells the subscribers before it
\* unsubscribes.  Nothing is told if an abort came first.
DisposeTurn(t) ==
    /\ turn[t] = "bound"
    /\ turn' = [turn EXCEPT ![t] = "disposed"]
    /\ routes' = [routes EXCEPT ![t] = {}]
    /\ listening' = listening \ {t}
    /\ Abort(IF routes[t] = {} THEN {} ELSE Subscribed(t))
    /\ UNCHANGED <<held, late, answer, result, shutDown>>

-----------------------------------------------------------------------------
(* A request.                                                              *)

\* Fail closed: the route, identity, channel support, deadline or outcome the
\* request needs is missing.
Refuse(r) ==
    /\ phase[r] = "new"
    /\ phase' = [phase EXCEPT ![r] = "done"]
    /\ result' = [result EXCEPT ![r] = "refused"]
    /\ UNCHANGED <<turn, routes, listening, held, settled, aborted, armed, late,
                   answer, shutDown>>

\* Mutant: a repeated id replaces the entry it finds.
RegisterRepeated(r) ==
    /\ phase[r] = "new"
    /\ ~shutDown
    /\ KindOf(r) \in routes[TurnOf[r]]
    /\ held' = [held EXCEPT ![SlotOf(r)] = r]
    /\ armed' = armed \cup {r}
    /\ phase' = [phase EXCEPT ![r] = "logging"]
    /\ UNCHANGED <<turn, routes, listening, settled, aborted, late, answer,
                   result, shutDown>>

\* The synchronous prefix of requestPermission and resolveElicitation.
Register(r) ==
    /\ phase[r] = "new"
    /\ ~shutDown
    /\ held[SlotOf(r)] = None
    /\ KindOf(r) \in routes[TurnOf[r]]
    /\ held' = [held EXCEPT ![SlotOf(r)] = r]
    /\ armed' = armed \cup {r}
    /\ phase' = [phase EXCEPT ![r] = "logging"]
    /\ UNCHANGED <<turn, routes, listening, settled, aborted, late, answer,
                   result, shutDown>>

\* What both verifications look at.
Stale(r) ==
    \/ r \in settled
    \/ ~Entered(r)
    \/ r \in aborted
    \/ r \in late
    \/ KindOf(r) \notin routes[TurnOf[r]]
    \/ shutDown

\* Mutant: the channel is asked without looking again after the log.
DispatchBlindly(r) ==
    /\ phase[r] = "logging"
    /\ phase' = [phase EXCEPT ![r] = "asked"]
    /\ UNCHANGED <<turn, routes, listening, held, settled, aborted, armed, late,
                   answer, result, shutDown>>

\* The log has been written: verify again, then ask the channel.
Dispatch(r) ==
    /\ phase[r] = "logging"
    /\ phase' = [phase EXCEPT ![r] = IF Stale(r) THEN "settling" ELSE "asked"]
    /\ UNCHANGED <<turn, routes, listening, held, settled, aborted, armed, late,
                   answer, result, shutDown>>

\* The channel resolves: with an outcome that was offered and the initiator's
\* identity, or with anything else.
Answer(r) ==
    /\ phase[r] = "asked"
    /\ phase' = [phase EXCEPT ![r] = "answered"]
    /\ \E a \in {"good", "bad"} : answer' = [answer EXCEPT ![r] = a]
    /\ UNCHANGED <<turn, routes, listening, held, settled, aborted, armed, late,
                   result, shutDown>>

\* The channel's request throws.
ChannelFails(r) ==
    /\ phase[r] = "asked"
    /\ phase' = [phase EXCEPT ![r] = "settling"]
    /\ UNCHANGED <<turn, routes, listening, held, settled, aborted, armed, late,
                   answer, result, shutDown>>

\* settle() and commit(): the first terminal decision stands.
Settle(r, outcome) ==
    /\ result' = [result EXCEPT ![r] =
                     IF r \in settled THEN "refused" ELSE outcome]
    /\ held' = [held EXCEPT ![SlotOf(r)] = None]
    /\ settled' = settled \cup {r}
    /\ armed' = armed \ {r}
    /\ phase' = [phase EXCEPT ![r] = "done"]

\* Mutant: the answer is validated but the turn is not looked at again.
ConcludeBlindly(r) ==
    /\ phase[r] = "answered"
    /\ IF answer[r] = "bad"
       THEN /\ phase' = [phase EXCEPT ![r] = "settling"]
            /\ UNCHANGED <<result, held, settled, armed>>
       ELSE Settle(r, "granted")
    /\ UNCHANGED <<turn, routes, listening, aborted, late, answer, shutDown>>

\* The call resumes with the channel's decision: verify, validate and commit
\* without an await, or log the refusal first.
Conclude(r) ==
    /\ phase[r] = "answered"
    /\ IF Stale(r) \/ answer[r] = "bad"
       THEN /\ phase' = [phase EXCEPT ![r] = "settling"]
            /\ UNCHANGED <<result, held, settled, armed>>
       ELSE Settle(r, "granted")
    /\ UNCHANGED <<turn, routes, listening, aborted, late, answer, shutDown>>

\* The refusal has been logged.
Finish(r) ==
    /\ phase[r] = "settling"
    /\ Settle(r, "refused")
    /\ UNCHANGED <<turn, routes, listening, aborted, late, answer, shutDown>>

-----------------------------------------------------------------------------
(* Time, withdrawal and shutdown.                                          *)

\* The clock passes expiresAt, possibly well before the timer is served.
PassDeadline(r) ==
    /\ InFlight(r) /\ r \notin late
    /\ late' = late \cup {r}
    /\ UNCHANGED <<turn, routes, listening, phase, held, settled, aborted, armed,
                   answer, result, shutDown>>

TimerFires(r) ==
    /\ r \in armed /\ r \in late
    /\ Abort({r})
    /\ UNCHANGED <<turn, routes, listening, held, late, answer, result, shutDown>>

\* The agent withdraws one elicitation: only its controller fires.
Withdraw(r) ==
    /\ r \in Elicitation /\ InFlight(r) /\ r \notin aborted
    /\ aborted' = aborted \cup {r}
    /\ Interrupt({r})
    /\ UNCHANGED <<turn, routes, listening, held, settled, armed, late, answer,
                   result, shutDown>>

\* dispose() of the daemon shuts down both brokers, which clear the registry.
Shutdown ==
    /\ ~shutDown
    /\ shutDown' = TRUE
    /\ routes' = [t \in Turn |-> {}]
    /\ listening' = {}
    /\ Abort({r \in Request : Entered(r) /\ r \notin settled})
    /\ UNCHANGED <<turn, held, late, answer, result>>

-----------------------------------------------------------------------------
Resume(r) == Dispatch(r) \/ Conclude(r) \/ Finish(r)

Next ==
    \/ \E t \in Turn :
          \/ \E kinds \in SUBSET Kinds : BindTurn(t, kinds)
          \/ AbortTurn(t) \/ DisposeTurn(t)
    \/ \E r \in Request :
          \/ Refuse(r) \/ Register(r) \/ Dispatch(r) \/ Answer(r)
          \/ ChannelFails(r) \/ Conclude(r) \/ Finish(r)
          \/ PassDeadline(r) \/ TimerFires(r) \/ Withdraw(r)
    \/ Shutdown

Spec == Init /\ [][Next]_vars

\* The log and the event loop make progress and timers are served; the channel,
\* the clock and the turn owe nothing.
FairSpec ==
    /\ Spec
    /\ \A r \in Request : WF_vars(Resume(r)) /\ WF_vars(TimerFires(r))

-----------------------------------------------------------------------------
(* Properties.                                                             *)

\* A person's answer counts only for a request still open at the moment it is
\* delivered: its turn bound, its deadline ahead, nothing aborted, no shutdown.
\* "A stale allow must never survive the race."
GrantIsTimely ==
    [][\A r \in Request :
          result[r] # "granted" /\ result'[r] = "granted" =>
              /\ KindOf(r) \in routes[TurnOf[r]]
              /\ r \notin late \cup aborted \cup settled
              /\ ~shutDown]_vars

\* Nobody is being asked on behalf of a turn that has ended, nor after the
\* request was withdrawn or timed out: the interface is told at once.
AskedForLiveTurn ==
    \A r \in Request :
        phase[r] = "asked" =>
            /\ KindOf(r) \in routes[TurnOf[r]]
            /\ r \in armed
            /\ r \notin aborted
            /\ ~shutDown

\* A call in flight owns the entry of its id and no other call does: settling
\* one never removes the entry of another.
EntryPerCall ==
    \A r \in Request : InFlight(r) <=> Entered(r)

\* An entry has its timer until it is terminal, and a call not yet made has
\* left no trace that would make its entry look terminal.
EntryIsOpen ==
    \A r \in Request :
        /\ r \in armed <=> Entered(r) /\ r \notin settled
        /\ phase[r] = "new" => r \notin settled \cup aborted

\* A turn with a route left is bound, and the permission broker hears when the
\* last one goes.
RoutesAreWatched ==
    \A t \in Turn : routes[t] # {} => turn[t] = "bound" /\ t \in listening

TableInv == TypeOK /\ EntryPerCall /\ EntryIsOpen /\ RoutesAreWatched

\* Every call returns once its deadline has passed, whether or not the channel
\* ever answers.
CallsReturn ==
    \A r \in Request : InFlight(r) /\ r \in late ~> phase[r] = "done"

\* A call whose turn was stopped or has ended returns without the channel's
\* help and without waiting out its deadline.
StopIsPrompt ==
    \A r \in Request :
        InFlight(r) /\ routes[TurnOf[r]] = {} ~> phase[r] = "done"
=============================================================================
