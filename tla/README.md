# Verification of xacpx

xacpx is a daemon that puts coding agents behind chat services: people, schedules and
other agents send prompts to named agent sessions; the daemon runs one turn of a session at
a time, asks people for permission on the agents' behalf, delegates tasks between agents and
keeps all of it across restarts. This directory holds TLA+ models of the parts whose
correctness depends on the order of events, TLC configurations that check them on small
instances, and TLAPS proofs, for all instances, of the safety properties those runs check.

Paths below are relative to the repository; `src/src` is the daemon and bridge, `src/packages`
the relay hub, its protocol and the channel plugins.

    tlc -workers 2 -config TurnQueue.cfg MCTurnQueue.tla   # a run
    tlapm TurnQueueProofs.tla                              # the proofs

The daemon is one Node.js event loop. Code between two `await`s runs without interruption,
and everything may change at an `await`. Throughout, **one action is one stretch of code
between two awaits**, complete with everything it calls synchronously.

## Components

| component | state it keeps | operations | how it meets the others | what is hard | what makes it correct |
|---|---|---|---|---|---|
| **Turn queue** `control/turn-queue.ts` | per session: the registered turn, a FIFO, an interrupt slot, two guards; request-id tombstones | submit, submitPeerTurn, submitPeerInterrupt, cancelTurn, cancelQueuedItem, clearSession/finishClear, a turn's `finally` | called by control service, scheduler, message router; calls the turn runner and notifies the router | awaits in `finally` and in waits for aborted turns; teardown against submissions; wedged turns | one turn at a time, order of the backlog, one outcome per contracted message, no lost wake-up |
| **State store** `state/debounced-state-store.ts` | the pending snapshot, a timer, the write in progress | save, saveNow, flush, dispose | all services commit through it under `stateMutex` | two write paths, failures, shutdown racing commits, crashes | durable commits are on disk before they are visible; accepted commits get written; the file never goes back |
| **Turn interactions** `interactions/`, `permissions/` | routes of a turn, a pending map per broker | bindTurn, requestPermission, resolveElicitation, abort, dispose, shutdown | bound by the session handler; asks channels; answers the transport | log awaits around the question; deadline, stop and answer in one tick; repeated ids; order of disposal | an answer counts only for an open request; every call returns |
| **Scheduled tasks** `scheduled/` | task records, claims of this process, the tick in progress | create, cancel, reconcile, claim, dispatch, mark | sends prompts into the turn queue; commits to the state store; `xacpx later cancel` writes the same file from another process | crash between claim and flush; time limits against late ends; shutdown in mid-tick; two writers of one file | at most one dispatch, no record stuck, honest records |
| **Orchestration tasks** `orchestration/service/` | task records, question packages, groups, notices | delegate, approve, reply, cancel, ask, answer, retract, review | durable commits to the state store; worker sessions | worker reply against cancellation against human answers; corrections of answers the worker already has | terminal states are final; a waiting task has an open question; a result that rests on a retracted answer is reviewed |
| **Worker bindings** `orchestration/service/worker-session-manager.ts`, `*-delegation-service.ts`, `task-approval-service.ts`, `orchestration/worker-*.ts` | reservations, bindings with their identity, retirement leases, slots of parallel tasks | reserve, stage, ensure, record, launch, roll back, retire, drain | orchestration tasks, the transport | transport calls outside the mutex; roll-backs and retirements against new starts of the same session | one task per worker session; nothing releases another start's session; the cap holds |
| **Agent message router** `orchestration/agent-message-router.ts` | accepted messages, completion contracts | send, deliver, settle, cancel | submitPeerTurn, notifications from the turn queue | retries, deduplication, bounded tombstones | one delivery, one completion |
| **Runtime queue store** `bridge/engine/runtime/runtime-queue.ts` | one journal file per session | enqueue, dequeueHead, suspend, remove | runtime engine and worker manager | a crash between dequeue and run, idempotent enqueue | receipts are durable, duplicates are absorbed |
| **Runtime engine and workers** `bridge/engine/` | worker processes, the drain loop, turn leases, fences | prompt, drain, archive, remove, fence, recover | bridge, transport | processes dying between any two steps, stale generations | one live worker per session; a fence ends only with its worker |
| **Locks** `process/file-lock.ts`, `daemon/runtime-consumer-lock.ts` | OS locks, some held by a helper process | acquire, release | daemon start and stop | helper death, release timeout | one daemon per state directory |
| **Sessions, control service** | session records, archive | create, archive, remove, rename | everything | removal spans several services | no turn on a removed session |
| **Bots, conversations, peer service** | bindings, conversation runs | staged removal, run, settle | sessions, router | partial failure of staged steps | steps resume where they stopped |
| **Relay hub** `packages/relay` | connections, outstanding requests, keyed locks | prompt, lifecycle requests, reconnect | daemons and browsers | reconnects, request timeouts, reader-writer locks | a reply reaches its request; locks are released |
| Turn runner, transports, channels, web client, protocol schemas, configuration, doctor | | | | mostly I/O, formatting and data validation | |

`PROJECT.json` lists every component with its status, and every hazard of the code with the
properties that cover it, or the reason none does yet.

## Modules

| module | what it is | code |
|---|---|---|
| `TurnQueue` | one session's lane | `control/turn-queue.ts`, `turn-support.ts` |
| `TurnLane` | what a lane promises: a holder, a bounded FIFO with one place of priority, hand-over without a gap | the abstract specification `TurnQueue` implements |
| `TurnQueueProofs` | proofs about `TurnQueue` | |
| `TurnLaneProofs` | proof that `TurnQueue` implements `TurnLane` | |
| `DebouncedStateStore` | memory, the file, and the two ways from one to the other | `state/debounced-state-store.ts`, its callers in `main.ts`, `util/private-file.ts` |
| `DebouncedStateStoreProofs` | proofs about `DebouncedStateStore` | |
| `TurnInteractions` | turns, routes and the requests of both brokers | `interactions/turn-interaction-registry.ts`, both brokers, `commands/handlers/session-handler.ts` |
| `ScheduledTasks` | the service and the scheduler over a file that lags behind memory, and the command line that writes it too | `scheduled/scheduled-service.ts`, `scheduled-scheduler.ts`, `cli.ts` (`later cancel`) |
| `RuntimeQueue` | the journal of one runtime session, the loop that drains it, prompts, archive, removal | `bridge/engine/runtime/runtime-queue.ts`, `bridge/engine/runtime-engine.ts` |
| `DurableQueue` | what a sender may rely on: first in, first out, at least once, held while archived | the abstract specification `RuntimeQueue` implements |
| `HumanQuestions` | questions of delegated tasks, their answers, packages, cancellations and reviews | `orchestration/service/`, `main.ts` |
| `WorkerBindings` | worker sessions of delegated tasks: starts, roll-backs, retirement, slots | `orchestration/service/`, `orchestration/worker-*.ts` |
| `TurnInteractionsProofs`, `ScheduledTasksProofs`, `RuntimeQueueProofs`, `HumanQuestionsProofs`, `WorkerBindingsProofs` | proofs about those modules | |
| `MC...` | instances of the above for TLC | |

Definitions whose comment begins with *Mutant* are not part of any model: each is a plausible
mistake in the action it precedes, kept to show that the property it breaks depends on that
action's detail. `PROJECT.json` says which property each one violates.

### TurnQueue

`inFlight`, `queue`, `slot`, `draining`, `removing` and `tombstones` are the entries one lane
has in the maps of the class (`pendingInterrupts` is the slot). A turn, its AbortController
and its `settled` promise are named by the prompt that becomes the turn; `aborted` is the set of
those whose controller or linked signal fired. `status` is where a submission stands, and
`waiters` the calls inside `raceWithTimeout`, in the order in which they began to wait, because
promise reactions run in that order.

| action | code |
|---|---|
| `SubmitStarts`, `SubmitEnqueues`, `SubmitRejected`, `SubmitWaits`, `SubmitResumes` | the outcomes of `submit`'s gate, and its continuation after waiting for an aborted turn |
| `PeerStarts`, `PeerEnqueues`, `InterruptReserves`, `PeerAbsorbed`, `PeerRejected` | the outcomes of `submitPeerTurn` and `submitPeerInterrupt` |
| `TurnEnds`, `TurnDetects`, `DetectionEnds` | the `finally` of a turn, without and with the await for session changes; both end in `AdvanceQueue` |
| `CancelTurn`, `DispatchTimeout`, `CancelQueuedItem` | stop requests, the idle watchdog, the caller's signal, removal from the backlog |
| `ClearSession`, `ClearResumes`, `FinishClear` | teardown, before and after its wait, and the caller's `finally` |
| `TombstoneExpires` | eviction after 24 h or 2000 entries, at any moment, of the request ids in `Expiring` |

The runner is the environment: a turn ends when it ends, and a cancelled turn may take as long as
it likes. The prompt drained by a hand-over starts in the ending turn's step, as `advanceQueue`
calls `submit` synchronously up to the registration of its turn.

### DebouncedStateStore

The state is the set of mutations applied to it. `live` is the AppState object all
services share, `disk` the file. A *debounced* mutation (a session's change, a scheduled task) is
made in place and committed with `save`; a *durable* one (an orchestration or bot transition) is
made on a copy, written with `saveNow`, and published once it is written. `mutex` is the durable
caller holding `stateMutex` over its `saveNow`; a debounced commit takes no more than one step
under the same mutex. `writes` is a set so that a second concurrent write would be
representable; `TypeOK` says there never is one. A failed write may or may not have replaced the
file (the release of the file lock can fail after the rename). `Restart` stands for a crash at any
moment and for a restart after a shutdown; the write in progress has replaced the file as a whole or
not at all, which is what writing a temporary file and renaming it gives against the death of a process. Power loss
is not modelled.

What the properties take for granted: the daemon is the only process that writes the file, and a write is atomic. Neither
is so in every corner of the code. `xacpx later cancel` has a store of its own (`cli.ts:983-992`) and writes the whole file from what it
loaded; `ScheduledTasks` shows what that means for a task, and other records are overwritten in the same way. On Windows a write whose
renames were all refused overwrites the file in place (`util/private-file.ts:66-76`), so that a crash can leave it torn.

### TurnInteractions

`routes` is the registry: the kinds a turn is bound for. The permission broker subscribes
once per turn (`listening`), the elicitation broker once per request. `held` is the two pending
maps. A call is `logging` before it asks, `asked` in the race with the channel, `answered` when the channel won but the
call has not resumed, and `settling` while a refusal is logged. `late` is the wall
clock's view of the deadline, `armed` the timer's: the clock can pass the deadline before the timer is served.
What makes an answer acceptable (an offered outcome, the initiator's identity, a form
that validates) is one of two outcomes of `Answer`.

### ScheduledTasks

Every critical section of the service is one step, because memory changes under `stateMutex` and a
debounced commit resolves at once. `stored` is the file: `Flush` copies memory to it
at any later time, so a crash (`Restart`) resumes from the records of some earlier moment.
`batch` is what the tick in progress has claimed, `work` what really became of each
agent turn, which no record need agree with.

`Cli` are the processes that run `xacpx later cancel`. Each loads the file (`LaterLoads`), cancels in what it loaded (`seen`) and writes all of
it back (`LaterCancels`). The daemon does not read the file again while it runs, so its memory keeps the task pending: its next flush
restores the record, and when the task is due its prompt is sent. `CancelHolds` says what is true of a
cancellation all the same, and `CancelIsFinal`, which the documentation promises, is violated (see *Disagreements*).
A flush may happen although no task changed since, because any change of the shared state writes all of it.

A restart takes at least a unit of the clock that due times are compared with, so that a task whose
time came in the last process is overdue in the next. The code compares with millisecond
timestamps, and a process does not start in less.

### RuntimeQueue

`items` and `suspendedOnDisk` are the journal file, `lockQueue` the store's per-session lock, `turnLease` the lease
that direct prompts and the drain loop take in turn. Prompts, the drain loop, an archive (`freeWarmProcess`) and a removal
(`deleteSession`, `releaseLogicalSession`) each have a `pc` or a phase of their own and move from one await to the next.
`generation` (the engine's epoch) tells those apart that began before a removal. `Fault` covers a write that fails, a worker that
dies in a turn and a restart of the host. A write that fails may have reached the journal first, as the code verifies it after the rename
(`runtime-queue.ts:141-152`): the message is queued then although its sender is told an error, the head is gone although it counts as
not removed, a suspension holds on disk although the archive failed. In `DurableQueue` such a message is accepted like any other. A removal can fail before anything was stopped (`RemoveFails`) or after its worker
is gone (`RemoveBreaksOff`, `runtime-engine.ts:2701-2729`); the `finally` lifts the marks either way.

Abstractions: the stop of a worker is one step with the check before it, also where the idle timer awaits a look at the journal between
its two looks at the turns (`runtime-engine.ts:858`): it asks again after that await, and a message that lands during it kicks the drain loop itself.
After a deletion that broke off the code refuses a new worker until the deletion is tried again (a durable fence); here one may start. Policies, model recovery, fences and the
rotation of workers for a changed MCP identity are left out; after a removal that succeeded only calls made before it
go on, because the session's row is gone.

What the code does and no property denies:

* An archive whose look at the journal comes just before a message lands leaves `coolPending` set when the drain loop's turn
  ends with an empty, unsuspended queue: nobody acts on the mark, the worker stays warm until the idle timer or
  the next prompt, and enqueues are refused meanwhile.
* A removal that was refused because a turn is under way clears the suspension in memory only; queued messages
  wait for the next prompt or send. After a failed removal of the head from the journal the drain loop gives up without a retry.
* A kick that meets a drain loop about to stop is lost if the worker is gone; `PendingIsRun` says it is not lost while there is one.
* An archive queued behind a removal of the journal can write a suspended journal for a session that is gone.

### HumanQuestions

A `mutate()` of the orchestration service is one step; a worker's turn (`turns`), telling a worker to stop
(`stops`), the delivery of a package's message (`sending`) and the hand-over of queued questions (`handoffs`) are under way
in between. One coordinator is modelled. `completed` and `failed` are one status, `unstarted` stands for
`needs_confirmation` and `queued`, and the start of a worker is the step `Dispatch`. `told` are the tasks whose results are in the
coordinator's turn that is under way; the turn marks them when it ends. `misled` is a history variable: the answer a task works from, or worked from, was retracted,
and no review has settled that yet.

A save that fails changes nothing, since `mutate` publishes its copy after the write (`main.ts:1500-1509`); where a call is under way when that happens the model has
the failure as a step (a worker's reply that is lost, a hand-over, a stop that stays unrecorded, marks that are not set). `Restart` finds every record and nothing that was under way: no
turn, stop request, delivery or hand-over. Launching the resumed turn never throws
(`main.ts:1630`), so answering and resuming are one step and the restoration of a question after a failed resume is not reached.
Routes and chat keys, groups, external coordinators, notices and progress are left out.

What the code does and no property denies:

* `correctionPending` and `cancelRequestedAt` are saved, the chain that tells the worker to stop is not. After a crash, or when the acknowledgement or the
  error could not be saved, a running task keeps both with no stop under way, and a later retraction or `cancelTask` of it is not passed on to the worker
  (`human-question-service.ts:248`, `task-cancellation-service.ts:86`). `cancelRequestedAt` also outlives a stop request that failed and a result that was discarded, with the same effect.
* A task that ran when the daemon died stays running on record, without a turn, until somebody cancels it.
* The coordinator's turn marks the task, not the result it listed (`notice-delivery-service.ts:266-300`): when that result was discarded and the task finished anew
  before the turn ends, the new result is marked heard although only the old one was told.
* A question that comes back into a package whose message is already awaited can only be cancelled.
* A stop request that is acknowledged late cancels a task that was reopened since, which nobody asked to cancel.
* The end of a worker's older turn, after its question was answered, completes the task while the resumed turn runs.
* The mark of an injection that was superseded keeps a second result from ever being injected.

### WorkerBindings

A worker session is named by `WorkerOf`; `binding` is the identity (LID) it is bound to, `owner` the identities
for which an engine session is alive. `start` is what a start, or the roll-back of one, does next: starts by a person and
approvals stage a shell and ensure its owner *before* the task is recorded (`stage`, `ensure`, `persist`); a start over RPC is recorded
first and ensured by a detached chain (`ensuring` to `settle`); a drained task is recorded by `DrainStarts`.
`reserved` and `slots` are the maps of pending starts, `lease` the set of `worker-binding-retirement.ts`,
`retire` and `cleaning` the retirements of `cleanTasks` (and of `purgeSessionReferences`, which does the same to the tasks of one session, `task-lifecycle-service.ts:340-414`)
and of `reconcileParallelSlots`, `recon` the calls of the latter.

Abstractions: consecutive critical sections that only read and ask the same are one step (the two looks before a
launch, the checks repeated before a release); the slot is given back in the step that gives the reservation back; the ensure of a
recorded task may act on the identity staged for it or on the one bound by then; at most one turn of a task is in flight; there is one agent and one
coordinator; which queued task is oldest is open; bindings without an identity, left by older versions, are not kept. `dispatchWorkerTask`
never throws in this build, so the branches for a failed dispatch are not reached. A parallel task's session is
named after the task, so a failed request never asks for the same name again (`NameSpent`); under a repeated name its gate would leak the slot. Beyond
`MaxReconciles` calls of `reconcileParallelSlots`, one that is made does not get to its first step; the runs have one, so that drains which overlap are covered by the proof of `WithinCap` only.

A task has one start: that two approvals of it overlap (`approveTask` looks at its status outside the mutex, `task-approval-service.ts:58-63`, and staging does not look again) is not
modelled. Of the saves after a shell was staged, those of a restore and of a drained task's event may fail here (the code's are best effort, and leave the call); the others do not.

What the code does and no property denies:

* A task whose contested result is discarded comes back as blocked without asking for its session or a slot: it may share the session
  with another task, exceed the cap, and find its binding gone. Such tasks (`returned`) are left out of the properties.
* An ensure that succeeds after its task was cancelled, cleaned and its binding retired leaves an owner that no binding names.
* A drain that fails for the second time deletes the binding it found, although the owner it kept after the first failure may be alive.
* Between the record of a task and the release of its slot the task counts twice, so another may be queued although there is room.
* Nothing looks after tasks that were running when the daemon died; only slots are reconciled at boot.

## Runs

Deadlock checking is off in all of them: every system here may stop, when nobody submits or commits
anything more.

| run | checks | instance, and why it is enough |
|---|---|---|
| `turn_queue` | `OneTurn`, `RunsOnce`, `IInv`, `InterruptNext`, `NeverForgotten`, and `LaneSpec`: `TurnQueue` implements `TurnLane`; `PeerResolved`, `CallsReturn`, `GuardFalls` | a person's prompt, a scheduled one, a peer message and the interrupt that retries it, two teardowns that may overlap, queue depth 2, one request id that may age out: every kind meets every guard and every other kind in the queue, a turn can end with both a reservation and a queue behind it; turns need never end, and `PeerResolved` is conditional on their ending |
| `state_store` | `StoreInv`, `DiskNeverRegresses`, `CommitReachesDisk`, `DisposeEnds` | two debounced and two durable mutations, two failed writes, two restarts: one commit in a write and one pending, a durable call that waits for another's write, a failure of each path |
| `interactions` | `AskedForLiveTurn`, `TableInv`, `GrantIsTimely`, `CallsReturn`, `StopIsPrompt` | two permission requests of two turns that repeat one id, and an elicitation that shares the turn of one and the id of both |
| `scheduled` | `RunsOnce`, `ExecutedRan`, `ClaimInv`, `CancelHolds`, `DueIsSettled` | two tasks, so that one waits in the batch while the other is dispatched, a command-line process that cancels any number of times (one at a time) beside the daemon, and clock values enough for a task to become due, and overdue after a restart (644,203 states); agents' turns need never end |
| `scheduled_cli` | `CancelIsFinal`, violated | one task, one command-line process: the shortest behaviour |
| `runtime_queue` | `QueueInv`, `ArchiveHolds`, `NeverKilledMidTurn`, and `QueueSpec`: `RuntimeQueue` implements `DurableQueue` | two messages, two sends (one may repeat the other's id), two prompts, one archive, one removal, one fault of any kind, before or after the write it hits, queue depth 2 (1,746,982 states): every pair of calls meets at every await |
| `runtime_queue_liveness` | `PendingIsRun`, `CallsReturn` | one message sent twice, one prompt, one archive, one removal, one death of the worker |
| `human_questions` | `QuestionInv`, `MisledIsReviewed`, `HeardIsFinal`, `FinishedStays` | two interchangeable tasks, three questions, two packages, two calls (worker turns, stop requests or the coordinator's turn) and one delivery in flight, saves that fail and restarts at any moment (1,777,786 states): a replacement question, a queued package behind an active one, an old turn or stop that ends after its task moved on, a retraction whose stop is lost |
| `bindings_reuse` | `BindingInv`, `OneTaskPerWorker`, `SparesStarts`, `OwnedStaysBound` | a task started over RPC and one by a person on one worker session, three identities, restarts: a detached chain, a roll-back, a retirement and a new start overlap in every order |
| `bindings_parallel` | `BindingInv`, `WithinCap` | two proposed tasks compete for one slot (cap 1), each in a session of its own: gate, queue, approval, drain and its failure, retirement, closing, reopening; the tasks are interchangeable, and a session is named like its task, so that permuting the tasks is a symmetry |

`IInv`, `StoreInv`, `TableInv`, `ClaimInv`, `QueueInv`, `QuestionInv` and `BindingInv` are conjunctions: the type invariant of their module and the
facts that tie its variables together, each named and explained where it is defined.

The bounds are: `MaxDepth` and `Depth` (real parameters of the code, 20 and more there), `Cap`, the finite sets of prompts,
messages, requests, tasks and mutations (each is used at most once), `MaxFailures`, `MaxFaults`, `MaxCrashes`, the numbers of sends, archives and removals,
of questions and packages, of worker turns, stop requests and the coordinator's turn together (`MaxCalls`) and deliveries in flight, `MaxIdentities`, `MaxReconciles`, and `Horizon`, where the
clock stops.

### Disagreements between the code and what is said of it

Three runs expect a violation. Each checks a sentence of the documentation or of a test,
and TLC finds a behaviour of the code that contradicts it. `PROJECT.json` quotes the sentences.

| run | behaviour |
|---|---|
| `scheduled_cli` | `xacpx later cancel` beside a running daemon records the task as cancelled and says so; the daemon's memory keeps it pending, and it is sent when it is due |
| `human_questions_wedged` | the acknowledgement of an earlier cancellation cancels a task that waits for the human by then, and leaves it in the active package, which can never close |
| `bindings_stranded` | a start that fails gives its slot back without draining the queue: a task that was queued because of it waits beside a free slot |

Other behaviours of the modelled code that its comments do not lead one to expect, which the properties are stated beside:

* Turn queue: a person's prompt accepted while a session is torn down waits behind an idle lane, until another prompt overtakes it
  (`PeerNotStranded` is about contracted messages, which a teardown rejects). Two removals of one session that overlap share `removing`:
  the first to finish lowers the guard of the other, so that it is not up for the whole of a removal as `turn-queue.ts:939-941` and `1013-1016` have it. No property states that it is; what
  `IInv` says of the lane holds without it. A submission that waited for an aborted
  turn does not look at `removing` again.
* State store: a `saveNow` that fails has already dropped another caller's pending commit, which stays in memory but is not written before the next commit (`AcceptedNotForgotten` excuses it through `failed`), and one that resumes after `dispose()` resolved starts a write.
* Scheduled tasks: a task that was carried out may be recorded as failed, and one that was sent as missed, by the next process.

## Fairness

* `TurnQueue`: what waits for a turn has a timer beside it, and the caller of `clearSession` reaches
  `finishClear` in its `finally`. A turn owes nothing. `PeerResolved` says what follows *if* turns end
  (`TurnsEnd`), because the agent answers or because a cancel or the idle watchdog ends them.
* `DebouncedStateStore`: timers fire, file operations end in one way or the other, and what awaited
  them resumes. Nobody is obliged to commit, to dispose or to crash.
* `TurnInteractions`: the log and the event loop make progress and a timer whose time has come is served. The
  channel, and the person behind it, owe nothing, and time need not pass: `StopIsPrompt` does not wait for a deadline,
  and `CallsReturn` is about requests whose deadline has passed.
* `ScheduledTasks`: the daemon is started, its loop runs, and its timers are served. Agents'
  turns need not end. `DueIsSettled` excuses a scheduler that was stopped.
* `RuntimeQueue`: the lock and the lease are handed on, timers fire, turns end (the engine has its own limits on them) and a removal
  stops waiting. Nobody has to send, prompt, archive or remove.

`HumanQuestions` and `WorkerBindings` state safety only: nothing obliges a worker, a person or a coordinator to answer.

Fairness is per call and weak everywhere: a step that stays possible is taken.

## Proofs

`tlapm` proves the following for every value of the constants that satisfies the named assumptions
of the modules. Those say that the kinds of prompts, calls, mutations and tasks are disjoint, that `None` is none of them,
that bounds are natural numbers, that prompts of the runtime queue and tasks are finitely many (`TaskFinite`, `QuestionBounds`: a batch is a sequence of them, a slot count their
number, a bound on what is in flight a bound on their sum), that a package's message may be sent at all (`MaxSends > 0`), and that a parallel task's worker session is named after that task (`OwnWorker`: the code appends a fresh id).

**TurnQueue** (`TurnQueueProofs`). `Spec => []IInv`, and from it `TypeOK`, `OneTurn`,
`HandOffGuarded`, `ReservationCancels`, `PeerNotStranded`, `BacklogConsistent`, `ContractOnce`; `Spec => InterruptNext`,
`Spec => NeverForgotten`, `Spec => []RunsOnce`; and the refinement `Spec => LaneSpec` (`TurnLaneProofs`).

`OneTurn` is not inductive: a hand-over starts the head of the backlog, so the backlog may hold only
prompts that are waiting there and nowhere else (`PlacesConsistent`: the place of an
accepted prompt is the one its status names, and the queue has no repetitions); a
waiter that resumes starts its prompt, so no waiter may be a prompt that was accepted or run
(`WaitersConsistent`); a hand-over from a turn that has detected session changes needs the guard to have been raised for
that very turn (`HandOffGuarded`); and that a contract has one outcome needs that only dropped prompts have been
notified (`NoticesConsistent`). These parts are proved together, one lemma for each operation,
over facts about `RemoveAt`, `Append`, `Head` and `Tail` proved at the head of the module.

A turn takes the lane from nobody or from the turn that ends, and what is reserved is first (`HandOver`): that gives `InterruptNext`, because a
reservation has a predecessor. The same lemma says that the ending turn's id is recorded in the step of the hand-over, which gives `NeverForgotten`
for the ids whose tombstone lasts (`Lasting`). `RunsOnce`, for the same ids (a retry more than 24 hours or 2000 requests late *may* run again), needs that
an id is remembered from the moment its message is admitted, to the queue, the slot or the lane (`RequestsOnce`): remembered only when the message has run, a retry could be queued
behind the original.

The refinement maps the turn in flight to the holder and the reservation, followed by the queue, to the backlog. It has one lemma for each
abstract step, and an operation of the code may be one or another of them, or none: a submission enters, joins, reserves or is refused; a teardown
withdraws everybody or, when nobody waits, is not seen. What it takes from the invariant is the point of it: a submission enters a free lane
past no contracted message (`PeerNotStranded`), a peer message joins only behind a holder, because the hand-off guard is up only while there is
one (`HandOffGuarded`), and a call that resumes after its wait is still outside (`WaitersConsistent`). Beyond `IInv` it needs that the queue holds no interrupt
(`QueueIsOrdinary`), so that the bound counts the queue alone.

**DebouncedStateStore** (`DebouncedStateStoreProofs`). `Spec => []StoreInv`, and from
it `TypeOK`, `WrittenIsOnDisk`, `ExposedIsOnDisk`, `AcceptedNotForgotten`,
`ShutdownOwesNothing`, and `Spec => DiskNeverRegresses`.

The argument: there is one write at a time, and a write drops nothing that matters, whenever
it lands (`WritesAreCurrent`: it holds everything on disk that was
acknowledged and everything durable in memory). It is current when it begins because what is on disk and
acknowledged is in memory (`LiveIsNewest`), and stays current because the disk changes only by that write and memory
grows only by debounced mutations, which nobody has been promised on disk. A `saveNow` holds `stateMutex` from its call to
its answer, so its candidate is memory and its own mutation (`MutexIsFresh`). A failed `saveNow` may have replaced the file;
its mutation was then told to nobody as written (`FreshIsNowhere` before, `rejected` after). Once
disposed, no timer is armed (`DisposedIsDisarmed`), which leaves `flush`'s loop to see every pending commit out.

**TurnInteractions** (`TurnInteractionsProofs`). `Spec => []TableInv`, `Spec => []AskedForLiveTurn` and `Spec => GrantIsTimely`, from the
inductive `IInv`, which is `TableInv` with `AskedForLiveTurn`. A pending map keyed by ids that callers choose is safe because
an entry and the phase of its call are created and dropped in one step (`EntryPerCall`); the question asked is always withdrawn because
everything that ends a turn finds all its entries, which needs the entry to be open until it is terminal (`EntryIsOpen`) and the permission broker to be
subscribed as long as a route is left (`RoutesAreWatched`). `GrantIsTimely` follows from the checks `Conclude` makes in the step in which it settles,
and from nothing before it: an answer that was valid when it came may not be by then.

**ScheduledTasks** (`ScheduledTasksProofs`). `Spec => []ClaimInv`, and from it `RunsOnce`, `ExecutedRan`, and `Spec => CancelHolds`.
That a prompt is sent once needs a fact about the disk, where the claim of a task that was sent may never have arrived: such a task was due when it was sent and is
overdue at the next start, so the reconciliation records it as missed before any tick looks at it (`SentIsOverdue`). Within one process, the batch holds
each task once, and only its head has been sent (`BatchIsClaimed`); here the batch is *some* ordering of the due tasks by due time, as ties are open. A record in the
file was true when it was written and is still no lie (`StoredWasTrue`), which is what the records of the next process start from; the same holds of what a command-line
process has loaded, whose write may put an old record in place of a newer one. `CancelHolds` is what that leaves of a cancellation: in the daemon's memory it bars the dispatch, and
once it is on disk as well, with no older image in anybody's hands (`NoOldImage`), no step undoes it.

**HumanQuestions** (`HumanQuestionsProofs`). `Spec => []QuestionInv`, `Spec => []MisledIsReviewed`, `Spec => []HeardIsFinal` and `Spec => FinishedStays`, from the
inductive `IInv`. `MisledIsReviewed` speaks of finished tasks, but the mark of the correction has to be followed through the worker's next question, its
answer, stop requests that fail and restarts, as the task may finish after any of them (`MisledFits`: it is set for every misled task that is not over). That a question raised anew starts clean needs that a task which
has not started, or runs, has none open (`AskedFits`); that a package closes with its last member needs that whoever waits for the human is an open member of the active one (`WaitsInActive`);
and a package taken for a new one must have no message of an older life under way (`NothingSentEarly`). `HeardIsFinal` is inductive by itself (`HeardFits`): the result is marked
heard in the step that looks at its review, and is contested only if it was not heard. The bounds on what is in flight are sums over tasks; that one more stays within them is a fact about cardinalities (`RoomForOne`).

**WorkerBindings** (`WorkerBindingsProofs`). `Spec => []BindingInv`, and on top of it `OneTaskPerWorker`, `SparesStarts`, `OwnedStaysBound` and `WithinCap`.
`BindingInv` is inductive: a lease has one holder, a start or a retirement (`LeaseIsHeld`); a reservation, a slot and a drained task belong to a start at a step that still gives
them back (`ClaimsAreHeld`); which kinds of start reach which step, and with the lease or not (`StartsHaveShape`); a task has no turn, question or
result before its start is over, and what a start may still do depends on whether it has recorded the task (`StartsComeFirst`);
nothing is bound or being retired under the name of a parallel task that was not asked for (`NamesAreFresh`, without which its gate could be refused and leak
the slot); and the calls of `reconcileParallelSlots` keep apart (`CallsAreApart`).
`OneTaskPerWorker` and `SparesStarts` need each other, and are proved together: a reservation is refused while a lease is held, and a lease is claimed only when nobody
has reserved the session or is recorded on it, both in one critical section. `OwnedStaysBound` follows case by case from the checks that precede a deletion:
a roll-back holds the only claim to the session, a detached clean-up and a retirement look at the other owners in the step that deletes, and a drain restores a task whose session no other task can name.
For `WithinCap` a task is counted once, whether by its slot, its record, or both; only the gate and the drain add one, and where they do the code's own count, which may count a start twice, is below the cap.

**RuntimeQueue** (`RuntimeQueueProofs`). `Spec => []QueueInv`, `Spec => []ArchiveHolds`, `Spec => NeverKilledMidTurn`, and the refinement `Spec => QueueSpec`;
beyond the kinds of callers being disjoint it assumes that there are finitely many prompts (`PromptFinite`: a count of turns is a number).
`QueueInv` is inductive. What archive and removal ask, whether anyone is in a turn, is a counter that they and the turns share, and it can be trusted because
it is exact until a removal has cleared it (`CountIsExact`), and because what a removal has outrun is told apart by its generation, so that none of it
starts a turn afterwards (`GenerationsTell`). That no message outlives the journal needs the order of the lock: a removal that asks for it is served after everybody whose
work it would undo (`UnlinkedLast`; `injectMessage` refuses while `deleting` is set, so no sender is behind it). What the drain loop read before its awaits is
still the head when its turn begins, unless a removal has made the loop stale (`HeadIsRead`): only the drain loop takes messages from the head.
`NeverKilledMidTurn` follows from the count, and from the lease where the worker is stopped by the end of another turn (`TurnsHoldTheLease`).
The refinement has one lemma per process; the step that starts a turn of the head is `TakeLease`, where `ArchiveHolds` turns the engine's
look at `queueSuspended` into the promise that nothing runs while the session is archived, a crash between the two writes included.

TLC checks what the theorems state in the runs of their modules, and the inductive invariants with it where a run names them (`IInv` of `TurnQueue`,
`StoreInv`, `TableInv`, `ClaimInv`, `BindingInv`, `QueueInv`); `IInv` of `HumanQuestions`, `RequestsOnce` and `QueueIsOrdinary` are only in the proof modules. The proofs
cover what those instances leave out, such as any number of teardowns, prompts, archives and faults, tombstones that age out, chains of tasks on one worker session, and any mix of kinds.

**Only model-checked.** Liveness, which is out of the prover's reach: `PeerResolved`, `CallsReturn` and `GuardFalls` of `TurnQueue`, `CommitReachesDisk` and `DisposeEnds`,
`CallsReturn` and `StopIsPrompt` of `TurnInteractions`, `DueIsSettled`, and `PendingIsRun` and `CallsReturn` of `RuntimeQueue`. Every invariant and action property
that a passing run checks is stated by a theorem.

## What is not modelled

* Everything the table of components marks as I/O: transports, channels, the web client, schemas, configuration, formatting.
* Inside the modelled parts: the contents of prompts, events and logs; the 24-hour clock of tombstones (any moment, or never);
  the lanes of other sessions, with which a lane shares only tombstones; the parsing and migration of `state.json`; a clock that goes back.
* The components under *Plan*.

## Plan

Built so far: the turn queue first, because all else runs through it, then the state
store that the rest commits to, the two parts that depend most on both, the durable queue of the runtime engine, and the two
hardest parts of the orchestration service.

Next modules, in this order:

1. `AgentMessages`: the router over an abstract lane (`TurnLane`), with retries and completion contracts.
2. `WorkerRuntime`: dispatch gate, fence and agent lease; processes that die at any step, generations that go stale.
3. `HubLocks` and `HubRequests`: the keyed reader-writer lock of the hub with RPC timeouts; request correlation over reconnects.
4. `SessionRemoval`: the control service composing `TurnQueue`'s teardown with the session's records and the transport.
5. `InstanceLock`, `BotRemoval`, `ConversationRun`: the staged removals and the run state machine.

Then theorems: each new module's inductive invariant, and that `AgentMessages` over `TurnLane` keeps its contracts over `TurnQueue` too, which `LaneKeepsPromise` makes a matter of
the abstract lane alone.
