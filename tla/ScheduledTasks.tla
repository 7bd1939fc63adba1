--------------------------- MODULE ScheduledTasks ---------------------------
(***************************************************************************)
(* Prompts scheduled for later: src/scheduled/scheduled-service.ts and     *)
(* src/scheduled/scheduled-scheduler.ts, over the debounced state file,    *)
(* and the command line's `later cancel` (src/cli.ts), which has its own   *)
(* copy of the file.                                                       *)
(*                                                                         *)
(* The service changes task records in memory under stateMutex and commits *)
(* them to the debounced store, so every critical section is one step and  *)
(* what a crash leaves behind is the memory of some earlier moment.  The   *)
(* scheduler claims what is due, dispatches one task after another with a  *)
(* time limit and records how each ended.  The command line is a process   *)
(* beside the daemon: it loads the file, cancels in what it loaded and     *)
(* writes all of that back; the daemon's memory never hears of it.         *)
(***************************************************************************)
EXTENDS Integers, Sequences, FiniteSets, SequencesExt

CONSTANTS
    Task,     \* task ids
    Cli,      \* processes that run `later cancel`
    Horizon   \* bound: the clock stops here

ASSUME HorizonType == Horizon \in Nat
ASSUME TaskFinite == IsFiniteSet(Task)

VARIABLES
    now,        \* the wall clock
    status,     \* task records in memory
    stored,     \* task records in state.json
    open,       \* whether the store still accepts commits
    due,        \* execute_at; 0 for a task not yet created
    claimed,    \* claimedInThisSession
    scheduler,  \* before start(), interval armed, or stop() called
    tick,       \* where the tick in progress stands
    batch,      \* claimed tasks of the tick, the current one first
    verdict,    \* how the current dispatch is to be recorded
    work,       \* what became of each task's agent turn
    runs,       \* how often each task was dispatched
    seen        \* the records each command-line process has loaded

vars == <<now, status, stored, open, due, claimed, scheduler, tick, batch,
          verdict, work, runs, seen>>

Status == {"absent", "pending", "triggering", "executed", "failed", "missed",
           "cancelled"}
Time == 0..Horizon

TypeOK ==
    /\ now \in Time
    /\ status \in [Task -> Status]
    /\ stored \in [Task -> Status]
    /\ open \in BOOLEAN
    /\ due \in [Task -> Time]
    /\ claimed \subseteq ToSet(batch)   \* bounded by the tasks in flight
    /\ scheduler \in {"down", "up", "stopped"}
    /\ tick \in {"idle", "claiming", "dispatching", "racing", "marking"}
    /\ batch \in Seq(Task)
    /\ verdict \in {"executed", "failed"}
    /\ work \in [Task -> {"none", "running", "ok", "failed", "late", "lost"}]
    /\ runs \in [Task -> Nat]
    /\ seen \in [Cli -> [Task -> Status]]

\* What a command-line process holds before it has loaded the file.
Blank == [t \in Task |-> "absent"]

Init ==
    /\ now = 0
    /\ status = [t \in Task |-> "absent"]
    /\ stored = status
    /\ open = TRUE
    /\ due = [t \in Task |-> 0]
    /\ claimed = {}
    /\ scheduler = "down"
    /\ tick = "idle"
    /\ batch = <<>>
    /\ verdict = "failed"
    /\ work = [t \in Task |-> "none"]
    /\ runs = [t \in Task |-> 0]
    /\ seen = [c \in Cli |-> Blank]

schedulerVars == <<scheduler, tick, batch, verdict>>
agentVars == <<work, runs>>

-----------------------------------------------------------------------------
(* What chats and operators do.                                            *)

Create(t, at) ==
    /\ due[t] = 0 /\ at > now
    /\ status' = [status EXCEPT ![t] = "pending"]
    /\ due' = [due EXCEPT ![t] = at]
    /\ UNCHANGED <<now, stored, open, claimed, schedulerVars, agentVars, seen>>

\* Mutant: a task that has been claimed can still be cancelled.
CancelTriggering(t) ==
    /\ status[t] \in {"pending", "triggering"}
    /\ status' = [status EXCEPT ![t] = "cancelled"]
    /\ UNCHANGED <<now, stored, open, due, claimed, schedulerVars, agentVars, seen>>

\* `/later cancel` and the agents' scheduled_cancel, in the daemon.
Cancel(t) ==
    /\ status[t] = "pending"
    /\ status' = [status EXCEPT ![t] = "cancelled"]
    /\ UNCHANGED <<now, stored, open, due, claimed, schedulerVars, agentVars, seen>>

-----------------------------------------------------------------------------
(* `xacpx later cancel`, a process beside the daemon (or without one).     *)

\* createCliScheduledTaskService loads the whole file.  Without a pending task
\* the command ends here.
LaterLoads(c) ==
    /\ seen[c] = Blank
    /\ \E t \in Task : stored[t] = "pending"
    /\ seen' = [seen EXCEPT ![c] = stored]
    /\ UNCHANGED <<now, status, stored, open, due, claimed, schedulerVars,
                   agentVars>>

\* laterCancel: it cancels in the records it loaded and writes all of them over
\* whatever the file holds by now.
LaterCancels(c, t) ==
    /\ seen[c][t] = "pending"
    /\ stored' = [seen[c] EXCEPT ![t] = "cancelled"]
    /\ seen' = [seen EXCEPT ![c] = Blank]
    /\ UNCHANGED <<now, status, open, due, claimed, schedulerVars, agentVars>>

-----------------------------------------------------------------------------
(* The scheduler.                                                          *)

\* Mutant: overdue tasks of the last session stay pending.
ReconciledKeepsOverdue(t) ==
    IF status[t] = "triggering" /\ t \notin claimed THEN "failed"
    ELSE status[t]

\* markStartupMissed: overdue tasks are missed, and those a dead process had
\* claimed failed.
Reconciled(t) ==
    IF status[t] = "pending" /\ due[t] < now THEN "missed"
    ELSE IF status[t] = "triggering" /\ t \notin claimed THEN "failed"
    ELSE status[t]

\* start(): reconcile, arm the interval and tick at once.  Channels are already
\* up and may have created or cancelled tasks.
Start ==
    /\ scheduler = "down"
    /\ status' = [t \in Task |-> Reconciled(t)]
    /\ scheduler' = "up"
    /\ tick' = "claiming"
    /\ UNCHANGED <<now, stored, open, due, claimed, batch, verdict, agentVars,
                   seen>>

\* The interval fires; a tick in progress makes it a no-op.
Tick ==
    /\ scheduler = "up" /\ tick = "idle"
    /\ tick' = "claiming"
    /\ UNCHANGED <<now, status, stored, open, due, claimed, scheduler, batch,
                   verdict, agentVars, seen>>

DueTasks == {t \in Task : status[t] = "pending" /\ due[t] <= now}

\* In the order they became due; which of two goes first that are due at the
\* same time is open.
Sorted(S) ==
    {s \in SetToSeqs(S) : \A i, j \in DOMAIN s : i < j => due[s[i]] <= due[s[j]]}

\* Mutant: a claim whose commit is rejected is not rolled back.
ClaimWithoutRollback ==
    /\ tick = "claiming"
    /\ status' = [t \in Task |->
                     IF t \in DueTasks THEN "triggering" ELSE status[t]]
    /\ IF DueTasks = {} \/ ~open
       THEN tick' = "idle" /\ UNCHANGED <<claimed, batch>>
       ELSE /\ claimed' = claimed \cup DueTasks
            /\ batch' \in Sorted(DueTasks)
            /\ tick' = "dispatching"
    /\ UNCHANGED <<now, stored, open, due, scheduler, verdict, agentVars, seen>>

\* claimDueTasks: the store rejects the commit once it is disposed, and the
\* claim is rolled back.
Claim ==
    /\ tick = "claiming"
    /\ IF DueTasks = {} \/ ~open
       THEN tick' = "idle" /\ UNCHANGED <<status, claimed, batch>>
       ELSE /\ status' = [t \in Task |->
                             IF t \in DueTasks THEN "triggering" ELSE status[t]]
            /\ claimed' = claimed \cup DueTasks
            /\ batch' \in Sorted(DueTasks)
            /\ tick' = "dispatching"
    /\ UNCHANGED <<now, stored, open, due, scheduler, verdict, agentVars, seen>>

Dispatch ==
    /\ tick = "dispatching"
    /\ tick' = "racing"
    /\ work' = [work EXCEPT ![Head(batch)] = "running"]
    /\ runs' = [runs EXCEPT ![Head(batch)] = @ + 1]
    /\ UNCHANGED <<now, status, stored, open, due, claimed, scheduler, batch,
                   verdict, seen>>

Racing(t) == tick = "racing" /\ Head(batch) = t

\* The agent's turn ends; nobody looks at how it ended after its time limit.
WorkEnds(t) ==
    /\ work[t] = "running"
    /\ IF Racing(t)
       THEN /\ tick' = "marking"
            /\ \/ verdict' = "executed" /\ work' = [work EXCEPT ![t] = "ok"]
               \/ verdict' = "failed" /\ work' = [work EXCEPT ![t] = "failed"]
       ELSE /\ work' = [work EXCEPT ![t] = "late"]
            /\ UNCHANGED <<tick, verdict>>
    /\ UNCHANGED <<now, status, stored, open, due, claimed, scheduler, batch,
                   runs, seen>>

\* Mutant: the time limit aborts the turn but does not reject the race.
TimeoutOnlyAborts == tick = "racing" /\ UNCHANGED vars

\* Mutant: a dispatch that reaches its limit counts as delivered.
TimeoutResolves ==
    /\ tick = "racing"
    /\ tick' = "marking"
    /\ verdict' = "executed"
    /\ UNCHANGED <<now, status, stored, open, due, claimed, scheduler, batch,
                   agentVars, seen>>

\* The dispatch reaches its limit: the race rejects, then the turn is asked to
\* stop, which it may ignore.
Timeout ==
    /\ tick = "racing"
    /\ tick' = "marking"
    /\ verdict' = "failed"
    /\ UNCHANGED <<now, status, stored, open, due, claimed, scheduler, batch,
                   agentVars, seen>>

\* markExecuted, markFailed; the record changes even if the commit is rejected.
Mark ==
    /\ tick = "marking"
    /\ status' = [status EXCEPT ![Head(batch)] = verdict]
    /\ claimed' = claimed \ {Head(batch)}
    /\ batch' = Tail(batch)
    /\ tick' = IF batch' = <<>> THEN "idle" ELSE "dispatching"
    /\ UNCHANGED <<now, stored, open, due, scheduler, verdict, agentVars, seen>>

-----------------------------------------------------------------------------
(* Time, the file, shutdown and restart.                                   *)

ClockTicks ==
    /\ now < Horizon
    /\ now' = now + 1
    /\ UNCHANGED <<status, stored, open, due, claimed, schedulerVars, agentVars,
                   seen>>

\* A debounced write of all records as they are when it is serialised.  Any
\* change of the shared state commits the whole of it, so the file can be written
\* although no task has changed since.
Flush ==
    /\ open /\ stored # status
    /\ stored' = status
    /\ UNCHANGED <<now, status, open, due, claimed, schedulerVars, agentVars, seen>>

\* stop() leaves a tick in progress alone.
Stop ==
    /\ scheduler = "up"
    /\ scheduler' = "stopped"
    /\ UNCHANGED <<now, status, stored, open, due, claimed, tick, batch, verdict,
                   agentVars, seen>>

\* Later in the shutdown the store flushes, if it can, and is disposed.
CloseStore ==
    /\ scheduler = "stopped" /\ open
    /\ open' = FALSE
    /\ stored' \in {stored, status}
    /\ UNCHANGED <<now, status, due, claimed, schedulerVars, agentVars, seen>>

\* The process ends, by a crash or after a shutdown, and the next one loads the
\* file.  That takes time on the clock that execute_at is compared with.
Restart ==
    /\ now < Horizon
    /\ now' = now + 1
    /\ status' = stored
    /\ open' = TRUE
    /\ claimed' = {}
    /\ scheduler' = "down"
    /\ tick' = "idle"
    /\ batch' = <<>>
    /\ work' = [t \in Task |-> IF work[t] = "running" THEN "lost" ELSE work[t]]
    /\ UNCHANGED <<stored, due, verdict, runs, seen>>

-----------------------------------------------------------------------------
Next ==
    \/ \E t \in Task :
          \/ \E at \in Time : Create(t, at)
          \/ Cancel(t) \/ WorkEnds(t)
          \/ \E c \in Cli : LaterCancels(c, t)
    \/ \E c \in Cli : LaterLoads(c)
    \/ Start \/ Tick \/ Claim \/ Dispatch \/ Timeout \/ Mark
    \/ ClockTicks \/ Flush \/ Stop \/ CloseStore \/ Restart

Spec == Init /\ [][Next]_vars

\* The daemon is started, its event loop runs and its timers are served; an
\* agent's turn need never end.
FairSpec ==
    /\ Spec
    /\ WF_vars(Start) /\ WF_vars(Tick) /\ WF_vars(Claim)
    /\ WF_vars(Dispatch) /\ WF_vars(Timeout) /\ WF_vars(Mark)

-----------------------------------------------------------------------------
(* Properties.                                                             *)

\* A scheduled prompt is never sent twice, although the claim may die with the
\* process before it reaches the disk.
RunsOnce == \A t \in Task : runs[t] <= 1

\* A task recorded as executed was carried out.
ExecutedRan == \A t \in Task : status[t] = "executed" => work[t] = "ok"

\* A triggering task is in the hands of the tick in progress, or of the startup
\* reconciliation to come; nobody else would ever look at it again.
TriggeringIsHeld ==
    \A t \in Task :
        status[t] = "triggering" => t \in ToSet(batch) \/ scheduler = "down"

\* The batch of the tick in progress: each task once, claimed, and only the
\* current one dispatched.  A verdict of executed is about a turn that went well.
BatchIsClaimed ==
    /\ batch # <<>> <=> tick \in {"dispatching", "racing", "marking"}
    /\ scheduler = "down" => tick = "idle"
    /\ \A i, j \in DOMAIN batch : i # j => batch[i] # batch[j]
    /\ \A i \in DOMAIN batch :
          /\ status[batch[i]] = "triggering" /\ due[batch[i]] <= now
          /\ i # 1 \/ tick = "dispatching" => runs[batch[i]] = 0
    /\ tick = "marking" /\ verdict = "executed" => work[batch[1]] = "ok"

\* A task that was sent is due, whatever an old record of it says, and is pending
\* in memory only until the startup reconciliation, which will find it overdue.
SentIsOverdue ==
    \A t \in Task :
        runs[t] # 0 =>
            /\ due[t] <= now
            /\ status[t] = "pending" => due[t] < now /\ scheduler = "down"

\* The records in the file, and those a command-line process took from it, are of
\* some earlier moment: the task was not created later, its turn ended as recorded.
StoredWasTrue ==
    \A t \in Task :
        /\ due[t] = 0 =>
              /\ status[t] = "absent" /\ stored[t] = "absent" /\ runs[t] = 0
              /\ \A c \in Cli : seen[c][t] = "absent"
        /\ work[t] = "none" <=> runs[t] = 0
        /\ "executed" \in {status[t], stored[t]} => work[t] = "ok"
        /\ \A c \in Cli : seen[c][t] = "executed" => work[t] = "ok"

ClaimInv ==
    TypeOK /\ TriggeringIsHeld /\ BatchIsClaimed /\ SentIsOverdue /\ StoredWasTrue

\* No command-line process is about to write an older record of the task.
NoOldImage(t) == \A c \in Cli : seen[c] = Blank \/ seen[c][t] = "cancelled"

\* A task cancelled in the daemon is not sent while the daemon remembers it; once
\* the cancellation is on disk too, and no command-line process holds an older
\* image, nothing undoes it: no claim, late answer, flush or restart.
CancelHolds ==
    [][\A t \in Task :
          status[t] = "cancelled" =>
              /\ runs'[t] = runs[t]
              /\ stored[t] = "cancelled" /\ NoOldImage(t) =>
                    status'[t] = "cancelled" /\ stored'[t] = "cancelled"]_vars

\* A task that state.json records as cancelled is not sent.  Not so when `xacpx
\* later cancel` recorded it beside a running daemon.
CancelIsFinal ==
    [][\A t \in Task : stored[t] = "cancelled" => runs'[t] = runs[t]]_vars

\* A due task is settled while the daemon runs, though the turns of earlier
\* tasks may never end.
DueIsSettled ==
    \A t \in Task :
        status[t] \in {"pending", "triggering"} /\ due[t] <= now ~>
            \/ status[t] \notin {"pending", "triggering"}
            \/ scheduler = "stopped"
=============================================================================
