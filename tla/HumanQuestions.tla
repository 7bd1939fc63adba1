--------------------------- MODULE HumanQuestions ---------------------------
(***************************************************************************)
(* How a delegated task stops to ask: the worker's question, the           *)
(* coordinator's answer and its retraction, the package of questions put   *)
(* to the human, the cancellation that chases a running worker, and the    *)
(* review of a contested result.                                           *)
(*   src/orchestration/service/human-question-service.ts                   *)
(*   src/orchestration/service/question-flow-core.ts                       *)
(*   src/orchestration/service/task-cancellation-service.ts                *)
(*   src/orchestration/service/task-lifecycle-service.ts (recordWorkerReply)*)
(*   src/orchestration/service/notice-delivery-service.ts (injection)      *)
(*   src/main.ts (launchWorkerTurn, finalizeWorkerTurn, doWakeCoordinator) *)
(*                                                                         *)
(* Every critical section of the service runs under one mutex, so a        *)
(* mutate() is one step here; what happens between two of them (telling    *)
(* the worker to stop, delivering a message, waking the coordinator, the   *)
(* worker's own turn, the coordinator's turn with the results) is a state  *)
(* of its own.  A mutate() works on a copy that is published once it is on *)
(* disk (src/main.ts, saveState), so one whose save fails changes nothing, *)
(* and a restart finds every record but nothing that was under way.  One   *)
(* coordinator is modelled; coordinators share nothing but the mutex.      *)
(***************************************************************************)
EXTENDS Integers, FiniteSets

CONSTANTS
    Task,
    MaxQuestions,  \* bound: questions raised, replacements included
    MaxPackages,   \* bound: packages the coordinator opens
    MaxCalls,      \* bound: turns and cancellations in flight
    MaxSends       \* bound: deliveries under way for one package

ASSUME QuestionBounds ==
    /\ IsFiniteSet(Task)
    /\ {MaxQuestions, MaxPackages, MaxCalls, MaxSends} \subseteq Nat
    /\ MaxSends > 0

VARIABLES
    task,      \* orchestration.tasks
    turns,     \* worker turns in flight, launchWorkerTurn
    stops,     \* startWorkerCancellation chains in flight
    packages,  \* humanQuestionPackages
    active,    \* coordinatorQuestionState.activePackageId, 0 for undefined
    queued,    \* coordinatorQuestionState.queuedQuestions
    sending,   \* deliveries of a package's message in flight
    handoffs,  \* handoffQueuedQuestions calls in flight, by closed package
    told,      \* tasks whose results are in a prompt of the coordinator's turns
    misled     \* history: the answer a task works or worked from was retracted

records == <<packages, active, queued>>
calls == <<sending, handoffs, told>>
vars == <<task, turns, stops, records, calls, misled>>

PackageId == 1..MaxPackages
Question == Task \X (1..MaxQuestions)
(* completed and failed are one here: nothing below treats them apart.      *)
Terminal == {"finished", "cancelled"}
Asking == {"blocked", "waiting_for_human"}
Status == {"unstarted", "running"} \cup Asking \cup Terminal

IsOver(t) == task[t].status \in Terminal
IsRunning(t) == task[t].status = "running"
QuestionOf(t) == <<t, task[t].qid>>

Total(count, bound) == Cardinality({q \in Task \X (1..bound) : q[2] <= count[q[1]]})
MayAsk == Total([t \in Task |-> task[t].qid], MaxQuestions) < MaxQuestions
Listening == IF told = {} THEN 0 ELSE 1
MayCall == Total(turns, MaxCalls) + Total(stops, MaxCalls) + Listening < MaxCalls

(* asked is openQuestion: none before the first question and after a        *)
(* cancellation that cleared it.  lastCancelError, which nothing reads, is  *)
(* left out.                                                               *)
TaskRecord == [status  : Status,
               asked   : {"none", "open", "answered"},
               qid     : 0..MaxQuestions,
               pkg     : 0..MaxPackages,
               stop    : BOOLEAN,  \* cancelRequestedAt
               correct : BOOLEAN,  \* correctionPending
               review  : BOOLEAN,  \* reviewPending
               heard   : BOOLEAN]  \* coordinatorInjectedAt

PackageRecord == [state     : {"none", "active", "closed"},
                  open      : SUBSET Task,
                  asks      : SUBSET Question,  \* taskQuestions of the message
                  delivered : BOOLEAN,
                  awaiting  : BOOLEAN]          \* awaitingReplyMessageId

NewTask == [status |-> "unstarted", asked |-> "none", qid |-> 0, pkg |-> 0,
            stop |-> FALSE, correct |-> FALSE, review |-> FALSE, heard |-> FALSE]
NoPackage == [state |-> "none", open |-> {}, asks |-> {},
              delivered |-> FALSE, awaiting |-> FALSE]

TypeOK ==
    /\ task \in [Task -> TaskRecord]
    /\ turns \in [Task -> 0..MaxCalls]
    /\ stops \in [Task -> 0..MaxCalls]
    /\ packages \in [PackageId -> PackageRecord]
    /\ active \in 0..MaxPackages
    /\ queued \subseteq Question
    /\ sending \in [PackageId -> 0..MaxSends]
    /\ handoffs \in [PackageId -> [step : {"none", "due", "waking"},
                                   took : SUBSET Question]]
    /\ told \subseteq Task
    /\ misled \in [Task -> BOOLEAN]

Init ==
    /\ task = [t \in Task |-> NewTask]
    /\ turns = [t \in Task |-> 0]
    /\ stops = [t \in Task |-> 0]
    /\ packages = [p \in PackageId |-> NoPackage]
    /\ active = 0
    /\ queued = {}
    /\ sending = [p \in PackageId |-> 0]
    /\ handoffs = [p \in PackageId |-> [step |-> "none", took |-> {}]]
    /\ told = {}
    /\ misled = [t \in Task |-> FALSE]

-----------------------------------------------------------------------------
(* Packages.                                                               *)

(* A task leaves a package; the last one to leave closes it.  Nothing reads *)
(* a closed package again, so its message is dropped with it.              *)
Without(package, t) ==
    IF package.open \subseteq {t}
    THEN [NoPackage EXCEPT !.state = "closed"]
    ELSE [package EXCEPT !.open = @ \ {t}]

LastMember(t) == task[t].pkg # 0 /\ packages[task[t].pkg].open \subseteq {t}

LeavePackage(t) ==
    LET p == task[t].pkg IN
    IF p = 0 THEN UNCHANGED <<packages, active>>
    ELSE /\ packages' = [packages EXCEPT ![p] = Without(@, t)]
         /\ active' = IF active = p /\ packages'[p].open = {} THEN 0 ELSE active

(* The questions queued behind package p are handed on once it closed.     *)
HandOffIf(closed, p) ==
    handoffs' = IF closed THEN [handoffs EXCEPT ![p].step = "due"] ELSE handoffs

(* Mutant: a question is reopened in its package although that has closed. *)
ReopenedInClosed(t) == task[t].pkg

(* The package a reopened question goes back to, 0 when it is not active.  *)
Reopened(t) ==
    LET p == task[t].pkg IN
    IF p # 0 /\ active = p /\ packages[p].state = "active" THEN p ELSE 0

(* A replacement question: the task asks again, in its package if that is   *)
(* still active, as a blocker of its own if not.                           *)
AskAgain(t) ==
    /\ MayAsk
    /\ task' = [task EXCEPT ![t] =
                  [@ EXCEPT !.status = IF Reopened(t) # 0 THEN "waiting_for_human"
                                                          ELSE "blocked",
                            !.asked = "open", !.qid = task[t].qid + 1,
                            !.pkg = Reopened(t),
                            !.review = FALSE,
                            !.correct = FALSE,
                            !.stop = task[t].stop /\ ~task[t].correct]]
    /\ packages' = IF Reopened(t) = 0 THEN packages
                   ELSE [packages EXCEPT ![Reopened(t)].open = @ \cup {t}]
    /\ misled' = [misled EXCEPT ![t] = FALSE]

-----------------------------------------------------------------------------
(* The worker.                                                             *)

Dispatch(t) ==
    /\ task[t].status = "unstarted"
    /\ MayCall
    /\ task' = [task EXCEPT ![t].status = "running"]
    /\ turns' = [turns EXCEPT ![t] = @ + 1]
    /\ UNCHANGED <<stops, records, calls, misled>>

RaiseQuestion(t) ==
    /\ turns[t] > 0
    /\ IsRunning(t)
    /\ task[t].asked # "open"
    /\ MayAsk
    /\ task' = [task EXCEPT ![t] =
                  [@ EXCEPT !.status = "blocked", !.asked = "open",
                            !.qid = task[t].qid + 1, !.pkg = 0]]
    /\ UNCHANGED <<turns, stops, records, calls, misled>>

(* Mutant: the reply settles the correction without a review.              *)
RepliedUncontested(t, status) ==
    [task EXCEPT ![t] = [@ EXCEPT !.status = status, !.correct = FALSE]]

(* recordWorkerReply: a reply to a pending correction is contested.        *)
Replied(t, status) ==
    [task EXCEPT ![t] =
        IF @.correct
        THEN [@ EXCEPT !.status = status, !.review = TRUE, !.correct = FALSE,
                       !.stop = FALSE]
        ELSE [@ EXCEPT !.status = status]]

(* The worker sends worker.reply itself, within its turn.                  *)
WorkerReplies(t) ==
    /\ turns[t] > 0
    /\ IsRunning(t)
    /\ \E status \in Terminal : task' = Replied(t, status)
    /\ UNCHANGED <<turns, stops, records, calls, misled>>

(* A worker's turn ends: finalizeWorkerTurn.  Which turn it was is not      *)
(* compared; a task that is not running ignores it, and a reply that       *)
(* cannot be saved is logged and lost.                                     *)
TurnEnds(t) ==
    /\ turns[t] > 0
    /\ turns' = [turns EXCEPT ![t] = @ - 1]
    /\ \/ IsRunning(t) /\ task' = Replied(t, "finished")
       \/ UNCHANGED task
    /\ UNCHANGED <<stops, records, calls, misled>>

-----------------------------------------------------------------------------
(* The coordinator answers.                                                *)

(* An answer to a waiting task must be one the awaited message asked for.  *)
WithinAwaited(t) ==
    LET p == task[t].pkg IN
    (/\ task[t].status = "waiting_for_human"
     /\ p # 0 /\ active = p /\ packages[p].awaiting)
      => QuestionOf(t) \in packages[p].asks

(* coordinatorAnswerQuestion; the worker is resumed by launching its next   *)
(* turn, which this build's resumeWorkerTask does without fail.            *)
Answer(t) ==
    /\ task[t].status \in Asking
    /\ task[t].asked = "open"
    /\ WithinAwaited(t)
    /\ MayCall
    /\ LeavePackage(t)
    /\ HandOffIf(LastMember(t) /\ t \in packages[task[t].pkg].open, task[t].pkg)
    /\ task' = [task EXCEPT ![t] = [@ EXCEPT !.status = "running",
                                             !.asked = "answered"]]
    /\ turns' = [turns EXCEPT ![t] = @ + 1]
    /\ UNCHANGED <<stops, queued, sending, told, misled>>

(* coordinatorRetractAnswer of a running task interrupts the worker, of a   *)
(* finished one whose result has not been injected contests the result.    *)
RetractRunning(t) ==
    /\ IsRunning(t)
    /\ task[t].asked = "answered"
    /\ task' = [task EXCEPT ![t] = [@ EXCEPT !.correct = TRUE, !.stop = TRUE]]
    /\ IF task[t].correct THEN UNCHANGED stops
       ELSE MayCall /\ stops' = [stops EXCEPT ![t] = @ + 1]
    /\ misled' = [misled EXCEPT ![t] = TRUE]
    /\ UNCHANGED <<turns, records, calls>>

RetractFinished(t) ==
    /\ task[t].status = "finished"
    /\ task[t].asked = "answered"
    /\ ~task[t].review /\ ~task[t].heard
    /\ task' = [task EXCEPT ![t].review = TRUE]
    /\ misled' = [misled EXCEPT ![t] = TRUE]
    /\ UNCHANGED <<turns, stops, records, calls>>

(* coordinatorReviewContestedResult                                        *)
AcceptResult(t) ==
    /\ task[t].review
    /\ task' = [task EXCEPT ![t].review = FALSE]
    /\ misled' = [misled EXCEPT ![t] = FALSE]
    /\ UNCHANGED <<turns, stops, records, calls>>

DiscardResult(t) ==
    /\ task[t].review
    /\ AskAgain(t)
    /\ UNCHANGED <<turns, stops, active, queued, calls>>

(* coordinatorRequestHumanInput: a new package, delivered after the mutex   *)
(* is left, or the queue behind the active one.                            *)
AskHuman(ts) ==
    /\ active = 0
    /\ ts # {} /\ \A t \in ts : task[t].status = "blocked" /\ task[t].asked = "open"
    /\ \E p \in PackageId :
         /\ packages[p].state = "none"
         /\ \A q \in PackageId : q < p => packages[q].state # "none"
         /\ packages' = [packages EXCEPT ![p] =
                           [state |-> "active", open |-> ts,
                            asks |-> {QuestionOf(t) : t \in ts},
                            delivered |-> FALSE, awaiting |-> FALSE]]
         /\ task' = [t \in Task |->
                       IF t \in ts
                       THEN [task[t] EXCEPT !.status = "waiting_for_human", !.pkg = p]
                       ELSE task[t]]
         /\ active' = p
         /\ sending' = [sending EXCEPT ![p] = @ + 1]
    /\ UNCHANGED <<turns, stops, queued, handoffs, told, misled>>

AskHumanLater(ts) ==
    /\ active # 0
    /\ ts # {} /\ \A t \in ts : task[t].status = "blocked" /\ task[t].asked = "open"
    /\ ts \cap packages[active].open = {}
    /\ queued' = queued \cup {QuestionOf(t) : t \in ts}
    /\ UNCHANGED <<task, turns, stops, packages, active, calls, misled>>

-----------------------------------------------------------------------------
(* The human.                                                              *)

IsActive(p) == active = p /\ packages[p].state = "active"

Sent(p) == sending[p] > 0 /\ sending' = [sending EXCEPT ![p] = @ - 1]

(* recordPackageMessageDeliverySuccess                                     *)
Delivered(p) ==
    /\ Sent(p)
    /\ packages' = IF IsActive(p)
                   THEN [packages EXCEPT ![p] = [@ EXCEPT !.delivered = TRUE,
                                                          !.awaiting = TRUE]]
                   ELSE packages
    /\ UNCHANGED <<task, turns, stops, active, queued, handoffs, told, misled>>

(* recordPackageMessageDeliveryError; a package has one message.           *)
DeliveryFails(p) ==
    /\ Sent(p)
    /\ packages' = IF IsActive(p)
                   THEN [packages EXCEPT ![p].awaiting = FALSE] ELSE packages
    /\ UNCHANGED <<task, turns, stops, active, queued, handoffs, told, misled>>

(* A delivery put off by the outbound quota records nothing.               *)
DeliveryDeferred(p) ==
    /\ Sent(p)
    /\ UNCHANGED <<task, turns, stops, records, handoffs, told, misled>>

RetryDelivery(p) ==
    /\ IsActive(p)
    /\ ~packages[p].delivered
    /\ sending[p] < MaxSends
    /\ packages' = [packages EXCEPT ![p].awaiting = FALSE]
    /\ sending' = [sending EXCEPT ![p] = @ + 1]
    /\ UNCHANGED <<task, turns, stops, active, queued, handoffs, told, misled>>

(* resolveLiveMessageTaskQuestions                                         *)
LiveQuestions(p) ==
    {q \in packages[p].asks : /\ q[1] \in packages[p].open
                              /\ task[q[1]].asked = "open"
                              /\ task[q[1]].qid = q[2]}

(* claimActiveHumanReply                                                   *)
ClaimReply(p) ==
    /\ active = p
    /\ packages[p].awaiting
    /\ LiveQuestions(p) # {}
    /\ packages' = [packages EXCEPT ![p].awaiting = FALSE]
    /\ UNCHANGED <<task, turns, stops, active, queued, calls, misled>>

-----------------------------------------------------------------------------
(* The questions queued behind a closed package.                           *)

StillBlocked(q) == /\ task[q[1]].status = "blocked"
                   /\ task[q[1]].asked = "open"
                   /\ task[q[1]].qid = q[2]

(* handoffQueuedQuestions, its first critical section.                     *)
HandOff(p) ==
    /\ handoffs[p].step = "due"
    /\ IF active = p THEN /\ handoffs' = [handoffs EXCEPT ![p].step = "none"]
                          /\ UNCHANGED queued
       ELSE LET live == {q \in queued : StillBlocked(q)} IN
            /\ queued' = live
            /\ handoffs' = [handoffs EXCEPT ![p] =
                              IF live = {} THEN [@ EXCEPT !.step = "none"]
                              ELSE [step |-> "waking", took |-> live]]
    /\ UNCHANGED <<task, turns, stops, packages, active, sending, told, misled>>

(* Dropping the questions that are not asked any more cannot be saved.     *)
HandOffFails(p) ==
    /\ handoffs[p].step = "due"
    /\ active # p /\ \E q \in queued : ~StillBlocked(q)
    /\ handoffs' = [handoffs EXCEPT ![p].step = "none"]
    /\ UNCHANGED <<task, turns, stops, records, sending, told, misled>>

(* The coordinator was woken: the questions it was woken for leave.  When   *)
(* waking it fails they stay, with the error on the question.              *)
HandOffWoken(p) ==
    /\ handoffs[p].step = "waking"
    /\ \E woken \in BOOLEAN :
         queued' = IF woken THEN queued \ handoffs[p].took ELSE queued
    /\ handoffs' = [handoffs EXCEPT ![p] = [step |-> "none", took |-> {}]]
    /\ UNCHANGED <<task, turns, stops, packages, active, sending, told, misled>>

-----------------------------------------------------------------------------
(* Cancellation.                                                           *)

(* applyCancellationRequest of a running task: the worker is told once.    *)
CancelRunning(t) ==
    /\ IsRunning(t)
    /\ task' = [task EXCEPT ![t].stop = TRUE]
    /\ IF task[t].stop THEN UNCHANGED stops
       ELSE MayCall /\ stops' = [stops EXCEPT ![t] = @ + 1]
    /\ UNCHANGED <<turns, records, calls, misled>>

(* applyCancellationRequest of a task that is not running ends it, and      *)
(* takes it out of the queue and its package.                              *)
CancelIdle(t) ==
    /\ task[t].status \in {"unstarted"} \cup Asking
    /\ task' = [task EXCEPT ![t] =
                  [@ EXCEPT !.status = "cancelled", !.asked = "none",
                            !.stop = TRUE]]
    /\ queued' = queued \ {QuestionOf(t)}
    /\ LeavePackage(t)
    /\ HandOffIf(LastMember(t), task[t].pkg)
    /\ UNCHANGED <<turns, stops, sending, told, misled>>

(* Mutant: the acknowledgement cancels a task that has finished meanwhile. *)
StopDoneLate(t) ==
    /\ stops[t] > 0
    /\ stops' = [stops EXCEPT ![t] = @ - 1]
    /\ \/ task[t].correct /\ AskAgain(t)
       \/ /\ ~task[t].correct
          /\ task' = [task EXCEPT ![t].status = "cancelled"]
          /\ UNCHANGED <<packages, misled>>
    /\ UNCHANGED <<turns, active, queued, calls>>

(* startWorkerCancellation got its acknowledgement: completeTaskCancellation.*)
StopDone(t) ==
    /\ stops[t] > 0
    /\ stops' = [stops EXCEPT ![t] = @ - 1]
    /\ \/ IsOver(t) /\ UNCHANGED <<task, packages, misled>>
       \/ ~IsOver(t) /\ task[t].correct /\ AskAgain(t)
       \/ /\ ~IsOver(t) /\ ~task[t].correct
          /\ task' = [task EXCEPT ![t].status = "cancelled"]
          /\ UNCHANGED <<packages, misled>>
    /\ UNCHANGED <<turns, active, queued, calls>>

(* The worker did not acknowledge, or the acknowledgement could not be      *)
(* saved: failTaskCancellation records the error, if that can be saved.     *)
StopFails(t) ==
    /\ stops[t] > 0
    /\ stops' = [stops EXCEPT ![t] = @ - 1]
    /\ UNCHANGED <<task, turns, records, calls, misled>>

-----------------------------------------------------------------------------
(* Results.                                                                *)

(* canInjectTaskIntoCoordinator                                            *)
CanInject(t) == task[t].status = "finished" /\ ~task[t].review

(* The coordinator's turn begins with every result it has not heard: it was *)
(* woken, or its session got a chat message.  Turns that overlap and list   *)
(* the same results are like one that ends later, as each result is marked  *)
(* on its own.                                                             *)
CoordinatorTurnStarts ==
    LET pending == {t \in Task : CanInject(t) /\ ~task[t].heard} IN
    /\ told = {} /\ pending # {}
    /\ MayCall
    /\ told' = pending
    /\ UNCHANGED <<task, turns, stops, records, sending, handoffs, misled>>

(* Mutant: all that was listed is marked, whatever became of it since.     *)
MarkedAsListed(ts) == [t \in Task |->
    IF t \in ts THEN [task[t] EXCEPT !.heard = TRUE] ELSE task[t]]

(* markTaskInjectionApplied looks at each task again.                      *)
Marked(ts) == [t \in Task |->
    IF t \in ts /\ CanInject(t) THEN [task[t] EXCEPT !.heard = TRUE] ELSE task[t]]

(* The turn ends.  Nothing is marked when it fails or the marks cannot be   *)
(* saved.                                                                  *)
CoordinatorTurnEnds ==
    /\ told # {}
    /\ told' = {}
    /\ task' = Marked(told) \/ UNCHANGED task
    /\ UNCHANGED <<turns, stops, records, sending, handoffs, misled>>

-----------------------------------------------------------------------------
(* The daemon dies and starts again from the file.  A task that ran stays   *)
(* running on record, with no turn.                                        *)
Restart ==
    /\ turns' = [t \in Task |-> 0]
    /\ stops' = [t \in Task |-> 0]
    /\ sending' = [p \in PackageId |-> 0]
    /\ handoffs' = [p \in PackageId |-> [step |-> "none", took |-> {}]]
    /\ told' = {}
    /\ UNCHANGED <<task, records, misled>>

-----------------------------------------------------------------------------
Next ==
    \/ \E t \in Task :
         \/ Dispatch(t) \/ RaiseQuestion(t) \/ WorkerReplies(t) \/ TurnEnds(t)
         \/ Answer(t) \/ RetractRunning(t) \/ RetractFinished(t)
         \/ AcceptResult(t) \/ DiscardResult(t)
         \/ CancelRunning(t) \/ CancelIdle(t) \/ StopDone(t) \/ StopFails(t)
    \/ \E ts \in SUBSET Task : AskHuman(ts) \/ AskHumanLater(ts)
    \/ CoordinatorTurnStarts \/ CoordinatorTurnEnds \/ Restart
    \/ \E p \in PackageId :
         \/ Delivered(p) \/ DeliveryFails(p) \/ DeliveryDeferred(p)
         \/ RetryDelivery(p) \/ ClaimReply(p)
         \/ HandOff(p) \/ HandOffFails(p) \/ HandOffWoken(p)

Spec == Init /\ [][Next]_vars

-----------------------------------------------------------------------------
(* A task that asks has an open question, and a task that waits for the    *)
(* human is among the open tasks of the active package: answers,           *)
(* retractions, cancellations, discarded results and the closing of        *)
(* packages move the three together.  That the question can be answered is *)
(* not said: one reopened in a package that awaits the reply to its        *)
(* message is refused an answer and can only be cancelled.                 *)
WaitingIsAsked ==
    \A t \in Task :
      /\ task[t].status \in Asking => task[t].asked = "open"
      /\ IsRunning(t) => task[t].asked # "open"
      /\ task[t].status = "waiting_for_human" =>
           active # 0 /\ task[t].pkg = active /\ t \in packages[active].open

(* The active package is open and has members, and no other is open: a     *)
(* closed package left active would queue every later question behind it.  *)
ActiveIsOpen ==
    \A p \in PackageId :
      /\ packages[p].state = "active" <=> active = p
      /\ packages[p].state = "active" <=> packages[p].open # {}

(* The two hold together.                                                 *)
QuestionInv == TypeOK /\ WaitingIsAsked /\ ActiveIsOpen

(* A result that rests on a retracted answer is under review until somebody *)
(* accepted or discarded it, and is not heard before: also when the         *)
(* retraction came while the worker ran and was cancelled, asked again or  *)
(* answered itself, when its stop was lost, or across a restart.           *)
MisledIsReviewed ==
    \A t \in Task : misled[t] /\ task[t].status = "finished" =>
      task[t].review /\ ~task[t].heard

(* A result the coordinator has heard is never contested or withdrawn,     *)
(* although its turn with the result and a retraction overlap.             *)
HeardIsFinal ==
    \A t \in Task : task[t].heard =>
      task[t].status = "finished" /\ ~task[t].review

(* A finished task stays as it finished; only a result under review comes   *)
(* back, as a question, and a worker's or a cancellation's late end cannot *)
(* change how the task ended.                                              *)
FinishedStays ==
    [][\A t \in Task : IsOver(t) =>
         \/ task'[t].status = task[t].status
         \/ task[t].review /\ task'[t].status \in Asking]_vars

(* "cancelling the last waiting_for_human task closes the active package    *)
(* and hands off queued blockers" (orchestration-service.test.ts:6620): an *)
(* open task of the active package still waits, so that answering or       *)
(* cancelling it can close the package.  But the acknowledgement of a      *)
(* cancellation asked for while the task ran cancels it where it is.       *)
ActiveCanClose ==
    active # 0 => \A t \in packages[active].open : task[t].status = "waiting_for_human"
=============================================================================
