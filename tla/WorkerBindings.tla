--------------------------- MODULE WorkerBindings ---------------------------
(***************************************************************************)
(* Worker sessions of delegated tasks: how a start reserves one, binds it, *)
(* ensures its owner and launches the first turn; how a failed or cancelled*)
(* start is rolled back; how a binding is retired under a lease; and how   *)
(* the slots of parallel tasks are counted, freed and given to the queue.  *)
(*   src/orchestration/service/worker-session-manager.ts                   *)
(*   src/orchestration/service/rpc-delegation-service.ts                   *)
(*   src/orchestration/service/human-delegation-service.ts                 *)
(*   src/orchestration/service/task-approval-service.ts                    *)
(*   src/orchestration/worker-binding-retirement.ts, worker-launch.ts      *)
(*                                                                         *)
(* A mutate() of the service is one step.  Calls to the transport (ensure, *)
(* release, stop, a turn) begin in one step and end in another.            *)
(***************************************************************************)
EXTENDS Integers, FiniteSets

CONSTANTS
    Task,
    Worker,
    WorkerOf,       \* the worker session a task resolves to
    Human,          \* delegated by a person: started before it is recorded
    Chained,        \* delegated by a worker: started when it is approved
    Parallel,       \* in an ephemeral worker session of its own
    Cap,            \* maxParallelTasksPerAgent, for the one agent modelled
    MaxIdentities,  \* bound: identities of one worker in use at once
    MaxReconciles,  \* bound: reconcileParallelSlots calls under way
    MayRestart      \* whether the daemon may die

ASSUME KindsDisjoint ==
    /\ Human \subseteq Task /\ Chained \subseteq Task /\ Human \cap Chained = {}
    /\ Parallel \subseteq Task /\ WorkerOf \in [Task -> Worker]
ASSUME OwnWorker ==
    \A t \in Parallel, u \in Task : WorkerOf[t] = WorkerOf[u] => t = u
ASSUME TaskFinite == IsFiniteSet(Task)
ASSUME BindingBounds ==
    /\ {Cap, MaxIdentities, MaxReconciles} \subseteq Nat
    /\ MayRestart \in BOOLEAN

VARIABLES
    task,      \* orchestration.tasks
    binding,   \* orchestration.workerBindings: the identity bound, 0 for none
    start,     \* the start, or the roll-back of a start, under way for a task
    reserved,  \* pendingWorkerSessions, by the task that reserved
    slots,     \* pendingParallelStarts, by the task that holds the slot
    lease,     \* retiringWorkerSessions
    retire,    \* retireWorkerBinding calls past their claim
    cleaning,  \* bindings a cleanTasks call still has to retire
    recon,     \* reconcileParallelSlots calls
    turn,      \* tasks whose worker has a turn in flight
    stops,     \* startWorkerCancellation chains in flight
    owner,     \* identities of each worker that own a live engine session
    returned   \* history: tasks whose finished result was contested

vars == <<task, binding, start, reserved, slots, lease, retire, cleaning,
          recon, turn, stops, owner, returned>>

Identity == 1..MaxIdentities
Call == 1..MaxReconciles
Terminal == {"finished", "cancelled", "gone"}
(* blocked stands for blocked and waiting_for_human: both hold the session. *)
Holding == {"running", "blocked"}
Status == {"none", "needs_confirmation", "queued"} \cup Holding \cup Terminal

TaskRecord == [status   : Status,
               stop     : BOOLEAN,  \* cancelRequestedAt
               review   : BOOLEAN,  \* reviewPending
               answered : BOOLEAN,  \* a question of it was answered
               closed   : BOOLEAN]  \* ephemeralWorkerSessionClosed

(* The steps of a start.  reserve..undo belong to callers who hold the      *)
(* reservation; ensuring..settle to the detached chain of a task that is    *)
(* recorded already; teardown and restore also to a drained one.            *)
Reserving == {"stage", "ensure", "persist", "commit", "undo", "teardown", "restore"}
Step == {"idle", "reserve", "ensuring", "look", "cancel", "caught", "claim",
         "release", "settle"} \cup Reserving
StartRecord == [step  : Step,
                kind  : {"none", "human", "approve", "propose", "rpc", "drain"},
                lid   : 0..MaxIdentities,  \* stagedIdentity
                first : BOOLEAN,           \* no previous binding
                keep  : BOOLEAN,           \* retainBinding
                held  : BOOLEAN,           \* teardownLeaseHeld
                why   : {"none", "cancel", "abort", "skip", "fail"}]
Started(k, s, l, first) ==
    [step |-> s, kind |-> k, lid |-> l, first |-> first, keep |-> FALSE,
     held |-> FALSE, why |-> "none"]
NoStart == Started("none", "idle", 0, FALSE)

RetireRecord == [step : {"none", "releasing", "released"},
                 lid  : 0..MaxIdentities,
                 by   : 0..MaxReconciles]  \* 0: cleanTasks
CallRecord == [step : {"idle", "collect", "retire", "retiring", "drain", "draining"},
               todo : SUBSET Task,   \* still to be retired
               done : SUBSET Task,   \* found unbound, or retired
               task : SUBSET Task]   \* the one being retired or drained
NoRetire == [step |-> "none", lid |-> 0, by |-> 0]
NoCall == [step |-> "idle", todo |-> {}, done |-> {}, task |-> {}]

TypeOK ==
    /\ task \in [Task -> TaskRecord]
    /\ binding \in [Worker -> 0..MaxIdentities]
    /\ start \in [Task -> StartRecord]
    /\ {reserved, slots, turn, stops, returned} \subseteq SUBSET Task
    /\ lease \subseteq Worker /\ cleaning \subseteq Worker
    /\ retire \in [Worker -> RetireRecord]
    /\ recon \in [Call -> CallRecord]
    /\ owner \in [Worker -> SUBSET (0..MaxIdentities)]

NoTask(s) == [status |-> s, stop |-> FALSE, review |-> FALSE, answered |-> FALSE,
              closed |-> FALSE]

Init ==
    /\ task = [t \in Task |-> NoTask("none")]
    /\ binding = [w \in Worker |-> 0]
    /\ start = [t \in Task |-> NoStart]
    /\ reserved = {} /\ slots = {} /\ lease = {} /\ cleaning = {}
    /\ retire = [w \in Worker |-> NoRetire]
    /\ recon = [i \in Call |-> NoCall]
    /\ turn = {} /\ stops = {} /\ returned = {}
    /\ owner = [w \in Worker |-> {}]

-----------------------------------------------------------------------------
(* Questions the operations ask of the state.                              *)

W(t) == WorkerOf[t]
Is(t, s) == task[t].status = s
Over(t) == task[t].status \in Terminal
Exists(t) == ~Is(t, "none") /\ ~Is(t, "gone")
At(t, steps) == start[t].step \in steps
By(t, kinds) == start[t].kind \in kinds
StatusOf(t, s) == task' = [task EXCEPT ![t].status = s]

(* A task that still owns its worker session: not terminal, or its result   *)
(* is under review.                                                         *)
Owns(t) == Exists(t) /\ (~Over(t) \/ task[t].review)
OwnedByOther(t) == \E u \in Task \ {t} : W(u) = W(t) /\ Owns(u)
OwnedWorker(w) == \E u \in Task : W(u) = w /\ Owns(u)
ReservedWorker(w) == \E u \in reserved : W(u) = w

(* Mutant: the lease does not bar a new start.                             *)
AvailableUnderLease(t) ==
    /\ \A u \in reserved \ {t} : W(u) # W(t)
    /\ ~OwnedByOther(t)

(* Mutant: the recorded tasks alone tell whether a session is taken.       *)
AvailableUnreserved(t) == W(t) \notin lease /\ ~OwnedByOther(t)

(* assertWorkerSessionAvailable; before it reserves, t is not in reserved.  *)
Available(t) ==
    /\ W(t) \notin lease
    /\ \A u \in reserved \ {t} : W(u) # W(t)
    /\ ~OwnedByOther(t)

(* countActiveParallelSlots; a task whose start has recorded it and not yet *)
(* given the slot back counts twice.                                       *)
ActiveSlots ==
    Cardinality({t \in Parallel : task[t].status \in Holding}) + Cardinality(slots)
CanStart == ActiveSlots < Cap

InUse(w) == {binding[w], retire[w].lid} \cup owner[w]
              \cup {start[t].lid : t \in {u \in Task : W(u) = w}}
Fresh(w) == {l \in Identity \ InUse(w) : \A k \in Identity \ InUse(w) : l <= k}

(* workerBindingIdentityFields: a binding keeps its identity, a first one   *)
(* gets a new one.                                                         *)
Staged(t) == IF binding[W(t)] # 0 THEN {binding[W(t)]} ELSE Fresh(W(t))

Bind(t, l) == binding' = [binding EXCEPT ![W(t)] = l]
Unbind(t) == Bind(t, 0)

(* A turn finds or starts an owner of whatever its worker is bound to.      *)
Launch(t) ==
    /\ turn' = turn \cup {t}
    /\ owner' = [owner EXCEPT ![W(t)] = @ \cup {binding[W(t)]}]

Begin(t, kind, step) ==
    start' = [start EXCEPT ![t] = Started(kind, step, 0, FALSE)]
Goto(t, step) == start' = [start EXCEPT ![t].step = step]
Finish(t) == start' = [start EXCEPT ![t] = NoStart]

(* A reconcileParallelSlots call begins.  Of more calls than the bound the   *)
(* last ones do not get to their first step.                               *)
IdleCalls == {i \in Call : recon[i].step = "idle"}
Reconcile ==
    \/ IdleCalls = {} /\ UNCHANGED recon
    \/ \E i \in IdleCalls :
        /\ \A j \in IdleCalls : i <= j
        /\ recon' = [recon EXCEPT ![i].step = "collect"]

-----------------------------------------------------------------------------
(* A start up to the record of the task.                                   *)

KindOf(t) == IF t \in Human THEN "human" ELSE IF t \in Chained THEN "propose" ELSE "rpc"

Fetched(t) == Is(t, "none") \/ (t \in Chained /\ Is(t, "needs_confirmation"))
RequestKind(t) == IF Is(t, "none") THEN KindOf(t) ELSE "approve"
Gated(t) == t \in Parallel /\ RequestKind(t) # "propose"

(* The gate of a parallel task: it takes a slot, or is queued.  A task has  *)
(* one start here; that two approvals of it overlap is not modelled.       *)
Gate(t) ==
    /\ At(t, {"idle"}) /\ Fetched(t) /\ Gated(t)
    /\ IF CanStart
       THEN /\ slots' = slots \cup {t}
            /\ Begin(t, RequestKind(t), "reserve")
            /\ UNCHANGED task
       ELSE /\ StatusOf(t, "queued")
            /\ UNCHANGED <<slots, start>>
    /\ UNCHANGED <<binding, reserved, lease, retire, cleaning, recon, turn,
                   stops, owner, returned>>

(* reserveProposedWorkerSession.  A refusal ends the request; only an       *)
(* approval gives its slot back then, and only it can be refused with one.  *)
Reserve(t) ==
    /\ \/ At(t, {"reserve"})
       \/ At(t, {"idle"}) /\ Fetched(t) /\ ~Gated(t)
    /\ LET kind == IF At(t, {"reserve"}) THEN start[t].kind ELSE RequestKind(t) IN
       IF Available(t)
       THEN /\ reserved' = reserved \cup {t}
            /\ Begin(t, kind, IF kind \in {"human", "approve"} THEN "stage" ELSE "persist")
            /\ UNCHANGED slots
       ELSE /\ At(t, {"reserve"})
            /\ slots' = IF kind = "approve" THEN slots \ {t} ELSE slots
            /\ Finish(t)
            /\ UNCHANGED reserved
    /\ UNCHANGED <<task, binding, lease, retire, cleaning, recon, turn, stops,
                   owner, returned>>

(* The shell is bound before an owner can start.  Staging is refused when   *)
(* the session was taken or the workspace is not registered any more.       *)
Stage(t) ==
    /\ At(t, {"stage"})
    /\ \/ /\ Available(t)
          /\ \E l \in Staged(t) :
                /\ Bind(t, l)
                /\ start' = [start EXCEPT ![t] =
                     [@ EXCEPT !.step = "ensure", !.lid = l,
                               !.first = (binding[W(t)] = 0)]]
       \/ Goto(t, "undo") /\ UNCHANGED binding
    /\ UNCHANGED <<task, reserved, slots, lease, retire, cleaning, recon, turn,
                   stops, owner, returned>>

(* The catch blocks of a start by a person, an approval or a drain: the     *)
(* owner of a first binding is released under the lease before the shell    *)
(* may go; when another teardown has the lease, the shell stays.            *)
RollBack(t) ==
    LET s == start[t]
        kept == IF s.kind = "drain" THEN "restore" ELSE "undo" IN
    IF ~s.first THEN Goto(t, "restore") /\ UNCHANGED lease
    ELSE IF W(t) \in lease
    THEN /\ start' = [start EXCEPT ![t] = [@ EXCEPT !.step = kept, !.keep = TRUE]]
         /\ UNCHANGED lease
    ELSE /\ start' = [start EXCEPT ![t] = [@ EXCEPT !.step = "teardown", !.held = TRUE]]
         /\ lease' = lease \cup {W(t)}

(* ensureSession returns or rejects; a rejection may leave an owner too.    *)
(* Nothing guards the binding of a recorded task, so its ensure may have    *)
(* read the identity now bound instead of the one staged.                   *)
Ensured(t, l, grown) ==
    owner' = [owner EXCEPT ![W(t)] = IF grown THEN @ \cup {l} ELSE @]

EnsureEnds(t) ==
    /\ At(t, {"ensure"}) /\ By(t, {"human", "approve"})
    /\ \/ Ensured(t, start[t].lid, TRUE) /\ Goto(t, "persist") /\ UNCHANGED lease
       \/ /\ \E grown \in BOOLEAN : Ensured(t, start[t].lid, grown)
          /\ RollBack(t)
    /\ UNCHANGED <<task, binding, reserved, slots, retire, cleaning, recon, turn,
                   stops, returned>>

(* The task is recorded.  A detached start binds in the same step.          *)
Persist(t) ==
    /\ At(t, {"persist"})
    /\ LET fits == Available(t) /\ (By(t, {"approve"}) => Is(t, "needs_confirmation")) IN
       \/ /\ fits /\ By(t, {"human", "approve"})
          /\ StatusOf(t, "running") /\ Goto(t, "commit")
          /\ UNCHANGED <<binding, lease>>
       \/ /\ fits /\ By(t, {"rpc"})
          /\ StatusOf(t, "running")
          /\ \E l \in Staged(t) :
                /\ Bind(t, l)
                /\ start' = [start EXCEPT ![t] =
                     [@ EXCEPT !.step = "commit", !.lid = l,
                               !.first = (binding[W(t)] = 0)]]
          /\ UNCHANGED lease
       \/ /\ fits /\ By(t, {"propose"})
          /\ StatusOf(t, "needs_confirmation") /\ Goto(t, "commit")
          /\ UNCHANGED <<binding, lease>>
       \/ /\ By(t, {"human", "approve"}) /\ RollBack(t)
          /\ UNCHANGED <<task, binding>>
       \/ /\ By(t, {"rpc", "propose"}) /\ Goto(t, "undo")
          /\ UNCHANGED <<task, binding, lease>>
    /\ UNCHANGED <<reserved, slots, retire, cleaning, recon, turn, stops, owner,
                   returned>>

(* A parallel task's worker session is named after it, so that a request    *)
(* that failed before the task was recorded never asks for it again.       *)
NameSpent(t) == At(t, {"undo"}) /\ t \in Parallel /\ Is(t, "none")

(* Mutant: a slot claimed for a start that failed is never given back.      *)
UnreserveLeaks(t) ==
    /\ At(t, {"commit", "undo"})
    /\ reserved' = reserved \ {t}
    /\ slots' = IF At(t, {"undo"}) THEN slots ELSE slots \ {t}
    /\ IF At(t, {"commit"}) /\ By(t, {"human", "approve"})
       THEN Launch(t) ELSE UNCHANGED <<turn, owner>>
    /\ IF At(t, {"commit"}) /\ By(t, {"rpc"}) THEN Goto(t, "ensuring") ELSE Finish(t)
    /\ IF NameSpent(t) THEN StatusOf(t, "gone") ELSE UNCHANGED task
    /\ UNCHANGED <<binding, lease, retire, cleaning, recon, stops, returned>>

(* The reservation and the slot are given back; then the turn is launched,  *)
(* the detached chain begins, or the request fails.                        *)
Unreserve(t) ==
    /\ At(t, {"commit", "undo"})
    /\ reserved' = reserved \ {t}
    /\ slots' = slots \ {t}
    /\ IF At(t, {"commit"}) /\ By(t, {"human", "approve"})
       THEN Launch(t) ELSE UNCHANGED <<turn, owner>>
    /\ IF At(t, {"commit"}) /\ By(t, {"rpc"}) THEN Goto(t, "ensuring") ELSE Finish(t)
    /\ IF NameSpent(t) THEN StatusOf(t, "gone") ELSE UNCHANGED task
    /\ UNCHANGED <<binding, lease, retire, cleaning, recon, stops, returned>>

(* Mutant: the reservation is given back together with the lease.          *)
TeardownUnreserves(t) ==
    /\ At(t, {"teardown"})
    /\ lease' = lease \ {W(t)} /\ reserved' = reserved \ {t}
    /\ owner' = [owner EXCEPT ![W(t)] = @ \ {start[t].lid}]
    /\ start' = [start EXCEPT ![t] = [@ EXCEPT !.step = "restore", !.held = FALSE]]
    /\ UNCHANGED <<task, binding, slots, retire, cleaning, recon, turn, stops, returned>>

(* teardownStagedWorkerOwner ends; it gives the lease back in either case.  *)
TeardownEnds(t) ==
    /\ At(t, {"teardown"})
    /\ lease' = lease \ {W(t)}
    /\ \/ /\ owner' = [owner EXCEPT ![W(t)] = @ \ {start[t].lid}]
          /\ start' = [start EXCEPT ![t] = [@ EXCEPT !.step = "restore", !.held = FALSE]]
       \/ /\ UNCHANGED owner
          /\ start' = [start EXCEPT ![t] =
               [@ EXCEPT !.step = IF By(t, {"drain"}) THEN "restore" ELSE "undo",
                         !.keep = TRUE, !.held = FALSE]]
    /\ UNCHANGED <<task, binding, reserved, slots, retire, cleaning, recon, turn,
                   stops, returned>>

(* The shell is taken back: whatever is bound now is overwritten, unless it *)
(* cannot be saved.                                                        *)
Restore(t) ==
    /\ At(t, {"restore"}) /\ By(t, {"human", "approve"})
    /\ Bind(t, IF start[t].first THEN 0 ELSE start[t].lid) \/ UNCHANGED binding
    /\ Goto(t, "undo")
    /\ UNCHANGED <<task, reserved, slots, lease, retire, cleaning, recon, turn,
                   stops, owner, returned>>

-----------------------------------------------------------------------------
(* The detached chain of a start over RPC: runAutoRunRpcWorkerTask.         *)

DetachedEnsureEnds(t) ==
    /\ At(t, {"ensuring"}) /\ By(t, {"rpc"})
    /\ \E l \in {start[t].lid, binding[W(t)]}, grown \in BOOLEAN, next \in {"look", "caught"} :
        /\ next = "look" => grown
        /\ Ensured(t, l, grown)
        /\ Goto(t, next)
    /\ UNCHANGED <<task, binding, reserved, slots, lease, retire, cleaning, recon,
                   turn, stops, returned>>

(* The two checks after it, which write nothing and ask the same; the turn  *)
(* is launched right after the second.                                     *)
Look(t) ==
    /\ At(t, {"look"})
    /\ IF Is(t, "running") /\ ~task[t].stop
       THEN Launch(t) /\ Finish(t)
       ELSE /\ start' = [start EXCEPT ![t] =
                 IF Is(t, "running") THEN [@ EXCEPT !.step = "cancel"]
                 ELSE [@ EXCEPT !.step = "claim", !.why = "skip"]]
            /\ UNCHANGED <<turn, owner>>
    /\ UNCHANGED <<task, binding, reserved, slots, lease, retire, cleaning, recon,
                   stops, returned>>

Stopped(t) == Is(t, "running") /\ task[t].stop

(* Phase 1 of completeAutoRunStartupCancellation, after a look or a throw.  *)
Applies(t) ==
    /\ At(t, {"cancel", "caught"})
    /\ LET caught == At(t, {"caught"})
           next == IF start[t].first THEN "claim" ELSE "settle" IN
       IF Stopped(t)
       THEN start' = [start EXCEPT ![t] =
              [@ EXCEPT !.step = next, !.why = IF caught THEN "abort" ELSE "cancel"]]
       ELSE IF caught
       THEN start' = [start EXCEPT ![t] = [@ EXCEPT !.step = next, !.why = "fail"]]
       ELSE Finish(t)
    /\ UNCHANGED <<task, binding, reserved, slots, lease, retire, cleaning, recon,
                   turn, stops, owner, returned>>

Belongs(t) == binding[W(t)] = start[t].lid

(* claimWorkerTeardownLease: the checks and the claim are one step.  When   *)
(* it is refused the shell is kept.                                        *)
Claim(t) ==
    /\ At(t, {"claim"})
    /\ IF Belongs(t) /\ ~OwnedByOther(t) /\ ~ReservedWorker(W(t)) /\ W(t) \notin lease
       THEN /\ lease' = lease \cup {W(t)}
            /\ start' = [start EXCEPT ![t] =
                 [@ EXCEPT !.held = TRUE, !.step = IF start[t].first THEN "release" ELSE "settle"]]
       ELSE /\ UNCHANGED lease
            /\ IF start[t].why = "skip" THEN Finish(t)
               ELSE start' = [start EXCEPT ![t] =
                      [@ EXCEPT !.keep = TRUE, !.step = "settle"]]
    /\ UNCHANGED <<task, binding, reserved, slots, retire, cleaning, recon, turn,
                   stops, owner, returned>>

(* convergeStartupOwner ends.                                              *)
ReleaseEnds(t) ==
    /\ At(t, {"release"})
    /\ \/ /\ owner' = [owner EXCEPT ![W(t)] = @ \ {start[t].lid}]
          /\ Goto(t, "settle") /\ UNCHANGED lease
       \/ /\ UNCHANGED owner
          /\ IF start[t].why = "skip"
             THEN Finish(t) /\ lease' = lease \ {W(t)}
             ELSE /\ start' = [start EXCEPT ![t] = [@ EXCEPT !.step = "settle", !.keep = TRUE]]
                  /\ UNCHANGED lease
    /\ UNCHANGED <<task, binding, reserved, slots, retire, cleaning, recon, turn,
                   stops, returned>>

(* A first binding goes if it still is this start's and nobody else's; the  *)
(* binding before a reused one has the same identity.                      *)
DropBinding(t) ==
    IF start[t].first /\ ~start[t].keep /\ Belongs(t) /\ ~OwnedByOther(t)
    THEN Unbind(t) ELSE UNCHANGED binding

(* The last critical section of a cancelled, a skipped or a failed start,   *)
(* which looks at the task again, and the release of the lease after it.    *)
Settle(t) ==
    /\ At(t, {"settle"})
    /\ lease' = IF start[t].held THEN lease \ {W(t)} ELSE lease
    /\ LET why == start[t].why
           retry == why = "abort" /\ ~Stopped(t) IN
       /\ CASE why \in {"cancel", "abort"} /\ Stopped(t) ->
                 StatusOf(t, "cancelled") /\ DropBinding(t)
            [] why = "fail" /\ Exists(t) /\ ~Over(t) /\ ~task[t].stop ->
                 StatusOf(t, "finished") /\ DropBinding(t)
            [] why = "skip" \/ (why = "fail" /\ Is(t, "cancelled")) ->
                 DropBinding(t) /\ UNCHANGED task
            [] OTHER -> UNCHANGED <<task, binding>>
       /\ IF retry
          THEN start' = [start EXCEPT ![t] =
                 [@ EXCEPT !.step = IF start[t].first THEN "claim" ELSE "settle",
                           !.why = "fail", !.keep = FALSE, !.held = FALSE]]
          ELSE Finish(t)
    /\ UNCHANGED <<reserved, slots, retire, cleaning, recon, turn, stops, owner,
                   returned>>

-----------------------------------------------------------------------------
(* The life of a recorded task, as far as its worker session is concerned.  *)

(* The worker asks and is answered (HumanQuestions has the detail); one     *)
(* turn of a task is in flight at a time here.                             *)
Ask(t) ==
    /\ t \in turn /\ Is(t, "running")
    /\ StatusOf(t, "blocked")
    /\ UNCHANGED <<binding, start, reserved, slots, lease, retire, cleaning, recon,
                   turn, stops, owner, returned>>

Answer(t) ==
    /\ Is(t, "blocked") /\ t \notin turn
    /\ task' = [task EXCEPT ![t] = [@ EXCEPT !.status = "running", !.answered = TRUE]]
    /\ Launch(t)
    /\ UNCHANGED <<binding, start, reserved, slots, lease, retire, cleaning, recon,
                   stops, returned>>

(* A turn ends: its task finishes if it still runs; slots are reconciled.   *)
TurnEnds(t) ==
    /\ t \in turn
    /\ turn' = turn \ {t}
    /\ IF Is(t, "running") THEN StatusOf(t, "finished") ELSE UNCHANGED task
    /\ Reconcile
    /\ UNCHANGED <<binding, start, reserved, slots, lease, retire, cleaning, stops,
                   owner, returned>>

(* applyCancellationRequest.                                               *)
Cancel(t) ==
    /\ Exists(t) /\ ~Over(t)
    /\ IF Is(t, "running")
       THEN /\ task' = [task EXCEPT ![t].stop = TRUE]
            /\ stops' = IF task[t].stop THEN stops ELSE stops \cup {t}
            /\ UNCHANGED recon
       ELSE /\ task' = [task EXCEPT ![t] = [@ EXCEPT !.status = "cancelled", !.stop = TRUE]]
            /\ Reconcile
            /\ UNCHANGED stops
    /\ UNCHANGED <<binding, start, reserved, slots, lease, retire, cleaning, turn,
                   owner, returned>>

(* The stop request is acknowledged, which the command-line engine does for *)
(* a session without a turn too, or fails.  When it was for a retracted     *)
(* answer the task asks again.                                             *)
StopDone(t) ==
    /\ t \in stops
    /\ stops' = stops \ {t}
    /\ IF Is(t, "gone") THEN UNCHANGED <<task, recon>>
       ELSE \/ /\ Is(t, "running") /\ task[t].answered
               /\ task' = [task EXCEPT ![t] = [@ EXCEPT !.status = "blocked", !.stop = FALSE]]
               /\ UNCHANGED recon
            \/ /\ IF Over(t) THEN UNCHANGED task ELSE StatusOf(t, "cancelled")
               /\ Reconcile
    /\ UNCHANGED <<binding, start, reserved, slots, lease, retire, cleaning, turn,
                   owner, returned>>

StopFails(t) ==
    /\ t \in stops
    /\ stops' = stops \ {t}
    /\ UNCHANGED <<task, binding, start, reserved, slots, lease, retire, cleaning,
                   recon, turn, owner, returned>>

(* A finished result is contested, accepted or discarded.                  *)
Contest(t) ==
    /\ Is(t, "finished") /\ task[t].answered /\ ~task[t].review
    /\ task' = [task EXCEPT ![t].review = TRUE]
    /\ returned' = returned \cup {t}
    /\ UNCHANGED <<binding, start, reserved, slots, lease, retire, cleaning, recon,
                   turn, stops, owner>>

Accept(t) ==
    /\ task[t].review
    /\ task' = [task EXCEPT ![t].review = FALSE]
    /\ Reconcile
    /\ UNCHANGED <<binding, start, reserved, slots, lease, retire, cleaning, turn,
                   stops, owner, returned>>

Discard(t) ==
    /\ task[t].review
    /\ task' = [task EXCEPT ![t] = [@ EXCEPT !.review = FALSE, !.status = "blocked"]]
    /\ UNCHANGED <<binding, start, reserved, slots, lease, retire, cleaning, recon,
                   turn, stops, owner, returned>>

-----------------------------------------------------------------------------
(* Retirement: retireWorkerBinding, for cleanTasks and for a reconcile.     *)

(* cleanTasks forgets the terminal tasks and retires what they leave bound; *)
(* purgeSessionReferences does the same when a session is removed.         *)
Clean ==
    /\ cleaning = {}
    /\ LET over == {t \in Task : Exists(t) /\ Over(t) /\ ~task[t].review} IN
       /\ task' = [t \in Task |-> IF t \in over THEN NoTask("gone") ELSE task[t]]
       /\ returned' = returned \ over
       /\ cleaning' = {w \in Worker :
                         /\ binding[w] # 0
                         /\ \A t \in Task \ over : Exists(t) => W(t) # w}
       /\ over # {} \/ cleaning' # {}
    /\ UNCHANGED <<binding, start, reserved, slots, lease, retire, recon, turn,
                   stops, owner>>

MayRetire(w) == ~ReservedWorker(w) /\ ~OwnedWorker(w) /\ w \notin lease

ClaimRetirement(w, i) ==
    /\ lease' = lease \cup {w}
    /\ retire' = [retire EXCEPT ![w] = [step |-> "releasing", lid |-> binding[w], by |-> i]]

(* Snapshot and claim; the checks repeated before the release only see what *)
(* a failing release would answer in the same way.                         *)
CleanRetires(w) ==
    /\ w \in cleaning
    /\ cleaning' = cleaning \ {w}
    /\ IF binding[w] # 0 /\ MayRetire(w) THEN ClaimRetirement(w, 0)
       ELSE UNCHANGED <<lease, retire>>
    /\ UNCHANGED <<task, binding, start, reserved, slots, recon, turn, stops, owner,
                   returned>>

CallRetires(i, t) ==
    /\ recon[i].step = "retire" /\ t \in recon[i].todo
    /\ LET bound == binding[W(t)] # 0
           claims == bound /\ MayRetire(W(t)) IN
       /\ recon' = [recon EXCEPT ![i] =
            [@ EXCEPT !.todo = recon[i].todo \ {t}, !.task = IF claims THEN {t} ELSE {},
                      !.step = IF claims THEN "retiring" ELSE "retire",
                      !.done = IF bound THEN recon[i].done ELSE recon[i].done \cup {t}]]
       /\ IF claims THEN ClaimRetirement(W(t), i) ELSE UNCHANGED <<lease, retire>>
    /\ UNCHANGED <<task, binding, start, reserved, slots, cleaning, turn, stops,
                   owner, returned>>

(* The caller of a retirement hears that it was retired or retained.        *)
Retired(w, gone) ==
    LET i == retire[w].by IN
    /\ retire' = [retire EXCEPT ![w] = NoRetire]
    /\ lease' = lease \ {w}
    /\ recon' = IF i = 0 THEN recon
                ELSE [recon EXCEPT ![i] =
                       [@ EXCEPT !.step = "retire", !.task = {},
                                 !.done = recon[i].done \cup
                                            (IF gone THEN recon[i].task ELSE {})]]

RetireReleases(w) ==
    /\ retire[w].step = "releasing"
    /\ \/ /\ owner' = [owner EXCEPT ![w] = @ \ {retire[w].lid}]
          /\ retire' = [retire EXCEPT ![w].step = "released"]
          /\ UNCHANGED <<lease, recon>>
       \/ UNCHANGED owner /\ Retired(w, FALSE)
    /\ UNCHANGED <<task, binding, start, reserved, slots, cleaning, turn, stops,
                   returned>>

RetireVerifies(w) ==
    /\ retire[w].step = "released"
    /\ LET same == binding[w] = retire[w].lid /\ ~OwnedWorker(w) IN
       /\ binding' = IF same THEN [binding EXCEPT ![w] = 0] ELSE binding
       /\ Retired(w, same \/ binding[w] = 0)
    /\ UNCHANGED <<task, start, reserved, slots, cleaning, turn, stops, owner,
                   returned>>

-----------------------------------------------------------------------------
(* reconcileParallelSlots.                                                 *)

Ended(t) == t \in Parallel /\ Exists(t) /\ Over(t) /\ ~task[t].review

(* Phase 1 closes what was never started and collects the others.           *)
Collect(i) ==
    /\ recon[i].step = "collect"
    /\ LET ended == {t \in Task : Ended(t) /\ ~task[t].closed} IN
       /\ task' = [t \in Task |->
                     IF t \in ended /\ binding[W(t)] = 0
                     THEN [task[t] EXCEPT !.closed = TRUE] ELSE task[t]]
       /\ recon' = [recon EXCEPT ![i] =
            [@ EXCEPT !.step = "retire", !.todo = {t \in ended : binding[W(t)] # 0}]]
    /\ UNCHANGED <<binding, start, reserved, slots, lease, retire, cleaning, turn,
                   stops, owner, returned>>

(* Phase 3 marks the retired ones closed, unless they were reopened.        *)
Close(i) ==
    /\ recon[i].step = "retire" /\ recon[i].todo = {}
    /\ task' = [t \in Task |-> IF t \in recon[i].done /\ Ended(t)
                               THEN [task[t] EXCEPT !.closed = TRUE] ELSE task[t]]
    /\ recon' = [recon EXCEPT ![i] = [@ EXCEPT !.step = "drain", !.done = {}]]
    /\ UNCHANGED <<binding, start, reserved, slots, lease, retire, cleaning, turn,
                   stops, owner, returned>>

Queued == {t \in Parallel : Is(t, "queued")}

(* Mutant: the drain looks at the recorded tasks only, not at the slots.    *)
DrainsPastSlots(i) ==
    /\ recon[i].step = "drain"
    /\ \E t \in Queued :
        /\ Cardinality({u \in Parallel : task[u].status \in Holding}) < Cap
        /\ At(t, {"idle"})
        /\ StatusOf(t, "running")
        /\ \E l \in Staged(t) :
            /\ Bind(t, l)
            /\ start' = [start EXCEPT ![t] =
                 Started("drain", "ensuring", l, binding[W(t)] = 0)]
        /\ recon' = [recon EXCEPT ![i] = [@ EXCEPT !.step = "draining", !.task = {t}]]
    /\ UNCHANGED <<reserved, slots, lease, retire, cleaning, turn, stops, owner,
                   returned>>

(* Phase 4: queued tasks whose workspace is gone fail, the next one is      *)
(* recorded as running and bound.  Which one is oldest is not modelled.     *)
DrainStarts(i) ==
    /\ recon[i].step = "drain" /\ CanStart
    /\ \E t \in Queued, lost \in SUBSET Queued :
        /\ t \notin lost
        /\ task' = [u \in Task |->
             IF u \in lost THEN [task[u] EXCEPT !.status = "finished"]
             ELSE IF u = t THEN [task[u] EXCEPT !.status = "running"] ELSE task[u]]
        /\ \E l \in Staged(t) :
            /\ Bind(t, l)
            /\ start' = [start EXCEPT ![t] =
                 Started("drain", "ensuring", l, binding[W(t)] = 0)]
        /\ recon' = [recon EXCEPT ![i] = [@ EXCEPT !.step = "draining", !.task = {t}]]
    /\ UNCHANGED <<reserved, slots, lease, retire, cleaning, turn, stops, owner,
                   returned>>

(* Nothing is left to drain, or no slot is; or all of the queue is lost.    *)
DrainEnds(i) ==
    /\ recon[i].step = "drain"
    /\ \/ (Queued = {} \/ ~CanStart) /\ UNCHANGED task
       \/ /\ Queued # {} /\ CanStart
          /\ task' = [u \in Task |-> IF u \in Queued
                                     THEN [task[u] EXCEPT !.status = "finished"]
                                     ELSE task[u]]
    /\ recon' = [recon EXCEPT ![i] = NoCall]
    /\ UNCHANGED <<binding, start, reserved, slots, lease, retire, cleaning, turn,
                   stops, owner, returned>>

(* The ensure of a drained task ends; what became of the task meanwhile is  *)
(* not looked at before its turn is launched.  The call gives up when the   *)
(* event that tells of the start cannot be saved.                          *)
DrainEnsured(i, t) ==
    /\ recon[i].step = "draining" /\ t \in recon[i].task /\ At(t, {"ensuring"})
    /\ turn' = turn \cup {t}
    /\ \E l \in {start[t].lid, binding[W(t)]} :
          owner' = [owner EXCEPT ![W(t)] = @ \cup {l, binding[W(t)]}]
    /\ Finish(t)
    /\ \/ recon' = [recon EXCEPT ![i] = [@ EXCEPT !.step = "drain", !.task = {}]]
       \/ recon' = [recon EXCEPT ![i] = NoCall]
    /\ UNCHANGED <<task, binding, reserved, slots, lease, retire, cleaning, stops,
                   returned>>

DrainFails(t) ==
    /\ At(t, {"ensuring"}) /\ By(t, {"drain"})
    /\ \E l \in {start[t].lid, binding[W(t)]}, grown \in BOOLEAN : Ensured(t, l, grown)
    /\ RollBack(t)
    /\ UNCHANGED <<task, binding, reserved, slots, retire, cleaning, recon, turn,
                   stops, returned>>

(* The task is queued again and its shell goes, whether this drain bound it *)
(* first or found it bound; the call gives up.                             *)
DrainRestores(i, t) ==
    /\ recon[i].step = "draining" /\ t \in recon[i].task /\ At(t, {"restore"})
    /\ IF Is(t, "running")
       THEN /\ StatusOf(t, "queued")
            /\ IF start[t].keep THEN UNCHANGED binding ELSE Unbind(t)
       ELSE UNCHANGED <<task, binding>>
    /\ Finish(t)
    /\ recon' = [recon EXCEPT ![i] = NoCall]
    /\ UNCHANGED <<reserved, slots, lease, retire, cleaning, turn, stops, owner,
                   returned>>

-----------------------------------------------------------------------------
(* The daemon dies and is started again: what was in memory only is gone,   *)
(* engine sessions may survive it, and the slots are reconciled once.  The   *)
(* names of parallel requests that had begun are not used again.            *)
Restart ==
    /\ MayRestart
    /\ start' = [t \in Task |-> NoStart]
    /\ reserved' = {} /\ slots' = {} /\ lease' = {} /\ cleaning' = {}
    /\ retire' = [w \in Worker |-> NoRetire]
    /\ recon' = [i \in Call |-> IF i = 1 THEN [NoCall EXCEPT !.step = "collect"] ELSE NoCall]
    /\ turn' = {} /\ stops' = {}
    /\ owner' \in {owner, [w \in Worker |-> {}]}
    /\ task' = [t \in Task |-> IF t \in Parallel /\ Is(t, "none") /\ ~At(t, {"idle"})
                               THEN NoTask("gone") ELSE task[t]]
    /\ UNCHANGED <<binding, returned>>

Starts(t) ==
    \/ Gate(t) \/ Reserve(t) \/ Stage(t) \/ EnsureEnds(t) \/ Persist(t)
    \/ Unreserve(t) \/ TeardownEnds(t) \/ Restore(t)
    \/ DetachedEnsureEnds(t) \/ Look(t) \/ Applies(t) \/ Claim(t)
    \/ ReleaseEnds(t) \/ Settle(t)

Lives(t) ==
    \/ Ask(t) \/ Answer(t) \/ TurnEnds(t) \/ Cancel(t) \/ StopDone(t)
    \/ StopFails(t) \/ Contest(t) \/ Accept(t) \/ Discard(t)

Reconciles(i) ==
    \/ Collect(i) \/ Close(i) \/ DrainStarts(i) \/ DrainEnds(i)
    \/ \E t \in Task : CallRetires(i, t) \/ DrainEnsured(i, t) \/ DrainRestores(i, t)

Next ==
    \/ \E t \in Task : Starts(t) \/ Lives(t) \/ DrainFails(t)
    \/ \E w \in Worker : CleanRetires(w) \/ RetireReleases(w) \/ RetireVerifies(w)
    \/ \E i \in Call : Reconciles(i)
    \/ Clean \/ Restart

Spec == Init /\ [][Next]_vars

-----------------------------------------------------------------------------
(* Properties.                                                             *)

(* Who holds the lease of a worker.                                        *)
Holders(w) == {t \in Task : W(t) = w /\ start[t].held}
LeaseIsHeld ==
    \A w \in Worker :
        /\ w \in lease <=> Holders(w) # {} \/ retire[w].step # "none"
        /\ retire[w].step # "none" => Holders(w) = {}
        /\ \A t, u \in Holders(w) : t = u

(* Reservations, slots and drained tasks belong to a start under way.       *)
Drained(t) == \E i \in Call : recon[i].step = "draining" /\ t \in recon[i].task
HoldsClaims(t) ==
    /\ t \in reserved <=> At(t, Reserving) /\ ~By(t, {"drain"})
    /\ t \in slots <=> /\ t \in Parallel /\ ~By(t, {"propose", "drain"})
                       /\ At(t, Reserving \cup {"reserve"})
    /\ By(t, {"drain"}) <=> Drained(t)
ClaimsAreHeld == \A t \in Task : HoldsClaims(t)

(* Which kinds of start reach which step, and where the lease is held.      *)
HasShape(t) ==
    /\ At(t, {"idle"}) <=> By(t, {"none"})
    /\ start[t].held => At(t, {"teardown", "release", "settle"})
    /\ At(t, {"teardown", "release"}) => start[t].held
    /\ At(t, {"reserve"}) => t \in Parallel /\ By(t, {"human", "approve", "rpc"})
    /\ At(t, {"stage", "ensure"}) => By(t, {"human", "approve"})
    /\ At(t, {"teardown", "restore"}) => By(t, {"human", "approve", "drain"})
    /\ At(t, {"ensuring"}) => By(t, {"rpc", "drain"})
    /\ At(t, {"look", "cancel", "caught", "claim", "release", "settle"}) => By(t, {"rpc"})
    /\ By(t, {"drain"}) => t \in Parallel /\ At(t, {"ensuring", "teardown", "restore"})
    /\ start[t].why # "none" => At(t, {"claim", "release", "settle"})
StartsHaveShape == \A t \in Task : HasShape(t)

(* A task has no turn, question or result before its start is over, and what *)
(* a start may still do depends on whether it has recorded the task.        *)
Waiting == {"none", "needs_confirmation", "queued"}
Unrecorded == {"reserve", "stage", "ensure", "persist"}
Recorded(t) ==
    \/ At(t, {"commit"}) /\ ~By(t, {"propose"})
    \/ By(t, {"drain"})
    \/ At(t, {"ensuring", "look", "cancel", "caught", "claim", "release", "settle"})
StartsFirst(t) ==
    /\ ~At(t, {"idle"}) \/ task[t].status \in Waiting =>
           /\ t \notin turn /\ t \notin returned
           /\ ~task[t].answered /\ ~task[t].review /\ ~Is(t, "blocked")
    /\ task[t].review => t \in returned
    /\ t \in stops => ~Is(t, "none") /\ ~Is(t, "needs_confirmation")
    /\ Is(t, "queued") => At(t, {"idle"})
    /\ Recorded(t) => task[t].status \notin Waiting
    /\ ~At(t, {"idle"}) /\ ~Recorded(t) => ~Is(t, "running")
    /\ At(t, {"commit"}) => ~Is(t, "none")
    /\ At(t, Unrecorded) /\ By(t, {"human", "rpc", "propose"}) => Is(t, "none")
    /\ start[t].why = "skip" => ~Is(t, "running")
StartsComeFirst == \A t \in Task : StartsFirst(t)

(* Nothing is left behind under the name of a parallel task not yet asked    *)
(* for, so that its first request is never refused.                        *)
HasFreshName(t) ==
    Is(t, "none") /\ At(t, {"idle", "reserve"}) =>
        binding[W(t)] = 0 /\ retire[W(t)].step = "none"
NamesAreFresh == \A t \in Parallel : HasFreshName(t)

(* A reconcileParallelSlots call is at one thing at a time, which no other   *)
(* call is at.                                                             *)
CallsAreApart ==
    /\ \A i \in Call : recon[i].step = "draining" => \E t \in Task : recon[i].task = {t}
    /\ \A i, j \in Call :
          recon[i].step = "draining" /\ recon[j].step = "draining" /\ i # j =>
              recon[i].task \cap recon[j].task = {}
    /\ \A w \in Worker :
          retire[w].step # "none" /\ retire[w].by # 0 => recon[retire[w].by].step = "retiring"
    /\ \A w, v \in Worker :
          w # v /\ retire[w].step # "none" /\ retire[v].step # "none" =>
              retire[w].by = 0 \/ retire[w].by # retire[v].by

(* Every lease, reservation and slot has a holder who will give it back,    *)
(* and a lease has one: the finally blocks of the starts and retirements.   *)
BindingInv ==
    /\ TypeOK /\ LeaseIsHeld /\ ClaimsAreHeld /\ StartsHaveShape
    /\ StartsComeFirst /\ NamesAreFresh /\ CallsAreApart

(* A worker session serves one task: starts that have reserved it and tasks *)
(* recorded on it exclude each other.  A task that comes back because its   *)
(* result was discarded asks nobody, and is left out.                      *)
Claims(t) ==
    /\ t \notin returned
    /\ t \in reserved \/ task[t].status \in Holding \cup {"needs_confirmation", "queued"}
OneTaskPerWorker ==
    \A t, u \in Task : t # u /\ W(t) = W(u) => ~(Claims(t) /\ Claims(u))

(* An engine session is never released under another start: while a         *)
(* teardown or retirement of a worker is at its release, no other task has  *)
(* reserved the worker, waits for it or runs on it.                        *)
Releasing(w) == {t \in Task : W(t) = w /\ At(t, {"teardown", "release"})}
SparesStarts ==
    \A w \in Worker, u \in Task :
        W(u) = w /\ (Releasing(w) \ {u} # {} \/ retire[w].step = "releasing") => ~Claims(u)

(* A task that runs or is blocked keeps its binding, the only handle on its  *)
(* owner: no roll-back or retirement of another start takes it away.  One    *)
(* that came back after its result was discarded may find it gone.         *)
OwnedStaysBound ==
    [][\A t \in Task \ returned :
          task[t].status \in Holding /\ binding[W(t)] # 0 /\ binding'[W(t)] # binding[W(t)] =>
              task'[t].status \notin Holding]_vars

(* Parallel tasks that hold a session, and starts that will, never exceed   *)
(* the cap; a task that comes back after its result was discarded takes its *)
(* slot without asking, and is left out.                                   *)
WithinCap ==
    Cardinality(slots \cup ({t \in Parallel : task[t].status \in Holding} \ returned)) <= Cap

(* docs/external-mcp.md:375 "when a slot is released, tasks are             *)
(* automatically promoted to running": with nothing under way, no queued    *)
(* task waits beside a free slot.                                          *)
Quiet ==
    /\ \A t \in Task : At(t, {"idle"})
    /\ IdleCalls = Call /\ turn = {} /\ stops = {}
NoneStranded == Quiet /\ CanStart => Queued = {}
=============================================================================
