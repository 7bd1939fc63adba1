---------------------------- MODULE RuntimeQueue ----------------------------
(***************************************************************************)
(* The durable message queue of one runtime session: the journal on disk   *)
(* and its per-session lock (RuntimeQueueStore), the loop that drains it,  *)
(* direct prompts, and archive and removal of the session (RuntimeEngine). *)
(* One session is modelled; two share nothing but the limits of the host.  *)
(*                                                                         *)
(* Calls and the drain loop are processes of one event loop: they run from *)
(* one await to the next without a break.                                  *)
(***************************************************************************)
EXTENDS Integers, Sequences, FiniteSets, SequencesExt

CONSTANTS
    Message,      \* messages by their messageId; a sender may send one again
    Prompt,       \* direct prompts, each made once
    Depth,        \* RUNTIME_QUEUE_MAX_DEPTH
    MaxSends,     \* bound: injectMessage calls
    MaxArchives,  \* bound: freeWarmProcess calls
    MaxRemoves,   \* bound: deleteSession and releaseLogicalSession calls
    FaultKinds,   \* what may go wrong: "write", "turn", "restart"
    MaxFaults,    \* bound: how often something goes wrong
    Nothing       \* no message

Drain == "drain"
Archiver == "archive"
Remover == "remove"
Turner == Prompt \cup {Drain}
Caller == Message \cup Prompt \cup {Drain, Archiver, Remover}

ASSUME CallerAssumption ==
    /\ Message \cap Prompt = {}
    /\ {Drain, Archiver, Remover} \cap (Message \cup Prompt) = {}
    /\ Nothing \notin Message
ASSUME PromptFinite == IsFiniteSet(Prompt)
ASSUME DepthAssumption == Depth \in Nat \ {0}
ASSUME BoundAssumption ==
    /\ MaxSends \in Nat /\ MaxArchives \in Nat
    /\ MaxRemoves \in Nat /\ MaxFaults \in Nat
    /\ FaultKinds \subseteq {"write", "turn", "restart"}

VARIABLES
    \* the journal file
    items, suspendedOnDisk,
    \* the engine's memory of the session
    queueSuspended, coolPending, deleting, generation, activeTurns,
    \* the store's lock and the turn lease, first in first out
    lockQueue, turnLease,
    \* the worker process of the session, and the two kinds of timer
    worker, idleTimer, retryTimer,
    \* where each caller stands: pc and captured generation of those that run
    \* turns, the message the drain loop has read, and the other calls
    pc, epoch, head, sending, archiving, removing,
    \* history: an archive suspended the queue and nothing lifted that since
    archived,
    \* what the bounds leave
    left

journal == <<items, suspendedOnDisk>>
memory == <<queueSuspended, coolPending, deleting, generation, activeTurns>>
queues == <<lockQueue, turnLease>>
machine == <<worker, idleTimer, retryTimer>>
turns == <<pc, epoch, head>>
calls == <<sending, archiving, removing>>
vars == <<journal, memory, queues, machine, turns, calls, archived, left>>

Pending == items # <<>>
HasActiveTurn == activeTurns > 0
Stale(q) == deleting \/ epoch[q] # generation
Acquiring == \E q \in Turner : pc[q] = "acquire"
Busy == \E q \in Turner : pc[q] = "running"

\* A removal that succeeds is followed by the removal of the session's row, under
\* the guard of the turn lane: from then on only calls already made are left.
Removed == removing = "gone"
Holds(q, queue) == queue # <<>> /\ Head(queue) = q

Place == {"off", "resume", "load", "admit", "wait", "prepare", "acquire", "running",
          "dequeue", "settle", "check", "kick", "cool", "done"}
TypeOK ==
    /\ items \in Seq(Message) /\ Len(items) <= Depth
    /\ suspendedOnDisk \in BOOLEAN
    /\ queueSuspended \in BOOLEAN /\ coolPending \in BOOLEAN /\ deleting \in BOOLEAN
    /\ generation \in Nat /\ activeTurns \in Nat
    /\ lockQueue \in Seq(Caller) /\ turnLease \in Seq(Turner)
    /\ worker \in {"none", "alive"} /\ idleTimer \in BOOLEAN /\ retryTimer \in BOOLEAN
    /\ pc \in [Turner -> Place]
    /\ epoch \in [Turner -> Nat]
    /\ head \in Message \cup {Nothing}
    /\ sending \in [Message -> {"idle", "saving", "saved"}]
    /\ archiving \in {"off", "suspending", "freeing"}
    /\ removing \in {"off", "delete", "release", "unlink", "drop", "gone"}
    /\ archived \in BOOLEAN
    /\ left \in [sends : 0 .. MaxSends, archives : 0 .. MaxArchives,
                removes : 0 .. MaxRemoves, faults : 0 .. MaxFaults]

Init ==
    /\ items = <<>> /\ suspendedOnDisk = FALSE
    /\ queueSuspended = FALSE /\ coolPending = FALSE /\ deleting = FALSE
    /\ generation = 0 /\ activeTurns = 0
    /\ lockQueue = <<>> /\ turnLease = <<>>
    /\ worker = "none" /\ idleTimer = FALSE /\ retryTimer = FALSE
    /\ pc = [q \in Turner |-> "off"] /\ epoch = [q \in Turner |-> 0] /\ head = Nothing
    /\ sending = [m \in Message |-> "idle"] /\ archiving = "off" /\ removing = "off"
    /\ archived = FALSE
    /\ left = [sends |-> MaxSends, archives |-> MaxArchives,
               removes |-> MaxRemoves, faults |-> MaxFaults]

----------------------------------------------------------------------------
(* Parts of the handlers. *)

Fault(kind) ==
    /\ kind \in FaultKinds /\ left.faults > 0
    /\ left' = [left EXCEPT !.faults = @ - 1]

\* A count that was cleared under a turn does not go below zero.
Decremented(n) == IF n > 0 THEN n - 1 ELSE 0

\* kickDrain and the first lines of drainLoop, which run without a break: a
\* loop that is under way is left alone, whatever it has read so far.
Kicks(p) == ~queueSuspended /\ ~deleting /\ p[Drain] = "off"
Kicked(p) == IF Kicks(p) THEN [p EXCEPT ![Drain] = "load"] ELSE p
KickedEpoch(p) == IF Kicks(p) THEN [epoch EXCEPT ![Drain] = generation] ELSE epoch
Kick == pc' = Kicked(pc) /\ epoch' = KickedEpoch(pc)

\* consumeSuspendCool, after the caller's own turn is no longer counted; w is
\* what has become of the worker.
ConsumeSuspendCool(active, w) ==
    /\ coolPending' = (coolPending /\ active > 0)
    /\ worker' = IF coolPending /\ active = 0 THEN "none" ELSE w

\* Mutant: the head whose turn broke off is not tried again.
DrainGivesUpForGood(retry, w) ==
    /\ pc' = [pc EXCEPT ![Drain] = "off"]
    /\ activeTurns' = Decremented(activeTurns)
    /\ turnLease' = Tail(turnLease)
    /\ IF queueSuspended
       THEN ConsumeSuspendCool(activeTurns', w)
       ELSE worker' = w /\ UNCHANGED coolPending
    /\ UNCHANGED retryTimer

\* The end of the drain loop's turn: count and lease go back, and a turn that
\* did not end for certain is left to the retry timer, or to the archive.
DrainGivesUp(retry, w) ==
    /\ pc' = [pc EXCEPT ![Drain] = "off"]
    /\ activeTurns' = Decremented(activeTurns)
    /\ turnLease' = Tail(turnLease)
    /\ IF queueSuspended
       THEN ConsumeSuspendCool(activeTurns', w) /\ UNCHANGED retryTimer
       ELSE /\ retryTimer' = (retry \/ retryTimer)
            /\ worker' = w
            /\ UNCHANGED coolPending

----------------------------------------------------------------------------
(* Sending a message: injectMessage and RuntimeQueueStore.enqueue. *)

Send(m) ==
    /\ sending[m] = "idle" /\ left.sends > 0
    /\ ~deleting /\ ~Removed
    /\ sending' = [sending EXCEPT ![m] = "saving"]
    /\ lockQueue' = Append(lockQueue, m)
    /\ left' = [left EXCEPT !.sends = @ - 1]
    /\ UNCHANGED <<journal, memory, turnLease, machine, turns, archiving, removing, archived>>

\* Under the lock: refused, already queued, or appended and on disk.  A write
\* that fails may have replaced the journal before its verification failed: the
\* message is queued then, although its sender is told that it is not.
Save(m) ==
    /\ sending[m] = "saving" /\ Holds(m, lockQueue)
    /\ lockQueue' = Tail(lockQueue)
    /\ \/ /\ deleting \/ coolPending \/ (~Contains(items, m) /\ Len(items) >= Depth)
          /\ sending' = [sending EXCEPT ![m] = "idle"]
          /\ UNCHANGED <<items, left>>
       \/ /\ ~deleting /\ ~coolPending
          /\ sending' = [sending EXCEPT ![m] = "saved"]
          /\ \/ Contains(items, m) /\ UNCHANGED items
             \/ ~Contains(items, m) /\ Len(items) < Depth /\ items' = Append(items, m)
          /\ UNCHANGED left
       \/ /\ Fault("write")
          /\ sending' = [sending EXCEPT ![m] = "idle"]
          /\ \/ UNCHANGED items
             \/ /\ ~deleting /\ ~coolPending
                /\ ~Contains(items, m) /\ Len(items) < Depth /\ items' = Append(items, m)
    /\ UNCHANGED <<suspendedOnDisk, memory, turnLease, machine, turns, archiving, removing, archived>>

\* The write is verified: the drain loop is kicked and the sender answered.
Acknowledge(m) ==
    /\ sending[m] = "saved"
    /\ sending' = [sending EXCEPT ![m] = "idle"]
    /\ Kick
    /\ UNCHANGED <<journal, memory, queues, machine, head, archiving, removing, archived, left>>

----------------------------------------------------------------------------
(* A turn, whether a prompt's or the drain loop's, from the lease on:       *)
(* executeRuntimeTurn inside withWorker.                                    *)

\* A turn that cannot be run: a prompt goes on to its finally block, with the
\* kick of withWorker's; the drain loop keeps its message.
TurnFails(q) ==
    IF q = Drain
    THEN DrainGivesUp(TRUE, worker) /\ UNCHANGED epoch
    ELSE /\ LET settled == [pc EXCEPT ![q] = "settle"] IN
            IF Pending THEN pc' = Kicked(settled) /\ epoch' = KickedEpoch(settled)
                       ELSE pc' = settled /\ UNCHANGED epoch
         /\ UNCHANGED <<coolPending, activeTurns, turnLease, worker, retryTimer>>

\* Mutant: the suspension is not looked at again once the lease is held.
TakeLeaseSuspended(q) ==
    /\ pc[q] = "wait" /\ Holds(q, turnLease)
    /\ IF Stale(q)
       THEN /\ pc' = [pc EXCEPT ![q] = IF q = Drain THEN "off" ELSE "done"]
            /\ activeTurns' = Decremented(activeTurns)
            /\ turnLease' = Tail(turnLease)
       ELSE /\ pc' = [pc EXCEPT ![q] = "prepare"]
            /\ UNCHANGED <<activeTurns, turnLease>>
    /\ UNCHANGED <<journal, queueSuspended, coolPending, deleting, generation, lockQueue, machine,
                   epoch, head, calls, archived, left>>

TakeLease(q) ==
    /\ pc[q] = "wait" /\ Holds(q, turnLease)
    /\ \/ /\ Stale(q)
          /\ pc' = [pc EXCEPT ![q] = IF q = Drain THEN "off" ELSE "done"]
          /\ activeTurns' = Decremented(activeTurns)
          /\ turnLease' = Tail(turnLease)
          /\ UNCHANGED <<coolPending, machine>>
       \/ /\ ~Stale(q) /\ q = Drain /\ queueSuspended
          /\ DrainGivesUp(FALSE, worker)
          /\ UNCHANGED idleTimer
       \/ /\ ~Stale(q) /\ (q = Drain => ~queueSuspended)
          /\ pc' = [pc EXCEPT ![q] = "prepare"]
          /\ UNCHANGED <<coolPending, activeTurns, turnLease, machine>>
    /\ UNCHANGED <<journal, queueSuspended, deleting, generation, lockQueue, epoch, head,
                   calls, archived, left>>

\* The checks before the worker is acquired; the idle timer is stopped.
Prepare(q) ==
    /\ pc[q] = "prepare"
    /\ \/ /\ Stale(q)
          /\ TurnFails(q)
          /\ UNCHANGED idleTimer
       \/ /\ ~Stale(q)
          /\ pc' = [pc EXCEPT ![q] = "acquire"]
          /\ idleTimer' = FALSE
          /\ UNCHANGED <<coolPending, activeTurns, turnLease, worker, retryTimer, epoch>>
    /\ UNCHANGED <<journal, queueSuspended, deleting, generation, lockQueue, head,
                   calls, archived, left>>

\* The worker is there.  If a removal began meanwhile, it is stopped again.
Acquire(q) ==
    /\ pc[q] = "acquire"
    /\ \/ /\ ~Stale(q)
          /\ pc' = [pc EXCEPT ![q] = "running"]
          /\ worker' = "alive"
          /\ UNCHANGED <<coolPending, activeTurns, turnLease, retryTimer, epoch, left>>
       \/ /\ Stale(q)
          /\ pc' = [pc EXCEPT ![q] = "prepare"]
          /\ worker' = "none"
          /\ UNCHANGED <<coolPending, activeTurns, turnLease, retryTimer, epoch, left>>
       \/ /\ Fault("turn")
          /\ TurnFails(q)
    /\ UNCHANGED <<journal, queueSuspended, deleting, generation, lockQueue, idleTimer, head,
                   calls, archived>>

\* The worker answers, or dies.
PromptTurnEnds(p) ==
    /\ pc[p] = "running"
    /\ LET settled == [pc EXCEPT ![p] = "settle"] IN
       IF Pending THEN pc' = Kicked(settled) /\ epoch' = KickedEpoch(settled)
                  ELSE pc' = settled /\ UNCHANGED epoch
    /\ \/ UNCHANGED <<worker, left>>
       \/ Fault("turn") /\ worker' = "none"
    /\ UNCHANGED <<journal, memory, queues, idleTimer, retryTimer, head, calls, archived>>

----------------------------------------------------------------------------
(* The drain loop. *)

Load ==
    /\ pc[Drain] = "load"
    /\ head' = IF Pending THEN Head(items) ELSE Nothing
    /\ pc' = [pc EXCEPT ![Drain] = "admit"]
    /\ UNCHANGED <<journal, memory, queues, machine, epoch, calls, archived, left>>

Admit ==
    /\ pc[Drain] = "admit"
    /\ \/ /\ Stale(Drain) \/ head = Nothing
          /\ pc' = [pc EXCEPT ![Drain] = "off"]
          /\ idleTimer' = (idleTimer \/ (~Stale(Drain) /\ worker = "alive" /\ ~Busy))
          /\ UNCHANGED <<activeTurns, turnLease>>
       \/ /\ ~Stale(Drain) /\ head # Nothing
          /\ pc' = [pc EXCEPT ![Drain] = "wait"]
          /\ activeTurns' = activeTurns + 1
          /\ turnLease' = Append(turnLease, Drain)
          /\ UNCHANGED idleTimer
    /\ UNCHANGED <<journal, queueSuspended, coolPending, deleting, generation, lockQueue,
                   worker, retryTimer, epoch, head, calls, archived, left>>

\* The turn ended for certain (completed, failed, cancelled, refused): the
\* message is to be removed.  The call that removes it queues for the lock in
\* the same breath.
DrainTurnEnds ==
    /\ pc[Drain] = "running"
    /\ pc' = [pc EXCEPT ![Drain] = "dequeue"]
    /\ activeTurns' = Decremented(activeTurns)
    /\ turnLease' = Tail(turnLease)
    /\ lockQueue' = Append(lockQueue, Drain)
    /\ UNCHANGED <<journal, queueSuspended, coolPending, deleting, generation, machine,
                   epoch, head, calls, archived, left>>

\* The worker died under it, or how it ended is not known.
DrainTurnBreaks ==
    /\ pc[Drain] = "running"
    /\ Fault("turn")
    /\ \E w \in {worker, "none"} : DrainGivesUp(TRUE, w)
    /\ UNCHANGED <<journal, queueSuspended, deleting, generation, lockQueue, idleTimer,
                   epoch, head, calls, archived>>

\* dequeueHead, and on to the next message.  A removal that fails may have
\* reached the journal.
Dequeue ==
    /\ pc[Drain] = "dequeue" /\ Holds(Drain, lockQueue)
    /\ lockQueue' = Tail(lockQueue)
    /\ \/ /\ items' = IF Pending THEN Tail(items) ELSE items
          /\ IF Pending /\ ~queueSuspended /\ ~deleting
             THEN /\ pc' = [pc EXCEPT ![Drain] = "load"]
                  /\ epoch' = [epoch EXCEPT ![Drain] = generation]
             ELSE pc' = [pc EXCEPT ![Drain] = "off"] /\ UNCHANGED epoch
          /\ IF Pending /\ queueSuspended
             THEN ConsumeSuspendCool(activeTurns, worker)
             ELSE UNCHANGED <<coolPending, worker>>
          /\ UNCHANGED left
       \/ /\ Fault("write")
          /\ items' = items \/ (Pending /\ items' = Tail(items))
          /\ pc' = [pc EXCEPT ![Drain] = "off"]
          /\ UNCHANGED <<coolPending, worker, epoch>>
    /\ UNCHANGED <<suspendedOnDisk, queueSuspended, deleting, generation, activeTurns, turnLease,
                   idleTimer, retryTimer, head, calls, archived>>

RetryTimerFires ==
    /\ retryTimer
    /\ retryTimer' = FALSE
    /\ Kick
    /\ UNCHANGED <<journal, memory, queues, worker, idleTimer, head, calls, archived, left>>

\* The idle timer finds no turn and no journal, and stops the worker.  It asks
\* for the turn once more after its await on the journal, so the two looks are
\* one step; a message that lands during the await kicks the drain loop itself.
IdleTimerFires ==
    /\ idleTimer
    /\ idleTimer' = FALSE
    /\ IF ~HasActiveTurn /\ Pending THEN Kick ELSE UNCHANGED <<pc, epoch>>
    /\ worker' = IF HasActiveTurn \/ Pending \/ Busy THEN worker ELSE "none"
    /\ UNCHANGED <<journal, memory, queues, retryTimer, head, calls, archived, left>>

----------------------------------------------------------------------------
(* A direct prompt. *)

PromptEnters(p) ==
    /\ pc[p] = "off"
    /\ ~deleting /\ ~Removed
    /\ pc' = [pc EXCEPT ![p] = "resume"]
    /\ epoch' = [epoch EXCEPT ![p] = generation]
    /\ activeTurns' = activeTurns + 1
    /\ lockQueue' = Append(lockQueue, p)
    /\ UNCHANGED <<journal, queueSuspended, coolPending, deleting, generation, turnLease,
                   machine, head, calls, archived, left>>

\* It lifts the suspension, first on disk and then in memory.
PromptResumes(p) ==
    /\ pc[p] = "resume" /\ Holds(p, lockQueue)
    /\ lockQueue' = Tail(lockQueue)
    /\ \/ /\ suspendedOnDisk' = FALSE
          /\ archived' = FALSE
          /\ UNCHANGED left
       \/ /\ Fault("write")
          /\ \/ UNCHANGED <<suspendedOnDisk, archived>>
             \/ suspendedOnDisk' = FALSE /\ archived' = FALSE
    /\ IF left' = left /\ ~Stale(p)
       THEN /\ queueSuspended' = FALSE
            /\ turnLease' = Append(turnLease, p)
            /\ pc' = [pc EXCEPT ![p] = "wait"]
            /\ UNCHANGED activeTurns
       ELSE /\ activeTurns' = Decremented(activeTurns)
            /\ pc' = [pc EXCEPT ![p] = "done"]
            /\ UNCHANGED <<queueSuspended, turnLease>>
    /\ UNCHANGED <<items, coolPending, deleting, generation, machine, epoch, head, calls>>

\* The finally block: the turn is no longer counted, the journal is read, and
\* what it said decides between the queue and the worker's rest.
PromptSettles(p) ==
    /\ pc[p] = "settle"
    /\ pc' = [pc EXCEPT ![p] = "check"]
    /\ activeTurns' = Decremented(activeTurns)
    /\ UNCHANGED <<journal, queueSuspended, coolPending, deleting, generation, queues, machine,
                   epoch, head, calls, archived, left>>

PromptChecks(p) ==
    /\ pc[p] = "check"
    /\ pc' = [pc EXCEPT ![p] = IF Pending THEN "kick" ELSE "cool"]
    /\ UNCHANGED <<journal, memory, queues, machine, epoch, head, calls, archived, left>>

PromptReturns(p) ==
    /\ pc[p] \in {"kick", "cool"}
    /\ LET done == [pc EXCEPT ![p] = "done"] IN
       IF pc[p] = "kick"
       THEN /\ pc' = Kicked(done) /\ epoch' = KickedEpoch(done)
            /\ UNCHANGED <<coolPending, worker, idleTimer>>
       ELSE /\ pc' = done /\ UNCHANGED epoch
            /\ IF worker = "alive" /\ coolPending
               THEN coolPending' = FALSE /\ worker' = "none" /\ UNCHANGED idleTimer
               ELSE /\ idleTimer' = (idleTimer \/ worker = "alive")
                    /\ UNCHANGED <<coolPending, worker>>
    /\ turnLease' = Tail(turnLease)
    /\ UNCHANGED <<journal, queueSuspended, deleting, generation, activeTurns, lockQueue,
                   retryTimer, head, calls, archived, left>>

----------------------------------------------------------------------------
(* Archive: freeWarmProcess. *)

ArchiveBegins ==
    /\ archiving = "off" /\ left.archives > 0
    /\ ~Removed
    /\ left' = [left EXCEPT !.archives = @ - 1]
    /\ idleTimer' = FALSE
    /\ IF Pending
       THEN archiving' = "suspending" /\ lockQueue' = Append(lockQueue, Archiver)
       ELSE archiving' = "freeing" /\ UNCHANGED lockQueue
    /\ UNCHANGED <<journal, memory, turnLease, worker, retryTimer, turns, sending, removing, archived>>

\* Mutant: the suspension does not reach the journal.
ArchiveSuspendsInMemory ==
    /\ archiving = "suspending" /\ Holds(Archiver, lockQueue)
    /\ lockQueue' = Tail(lockQueue)
    /\ queueSuspended' = TRUE
    /\ archived' = TRUE
    /\ archiving' = "freeing"
    /\ UNCHANGED <<journal, coolPending, deleting, generation, activeTurns, turnLease, machine,
                   turns, sending, removing, left>>

\* The suspension, first on disk and then in memory; a failed write is an error.
ArchiveSuspends ==
    /\ archiving = "suspending" /\ Holds(Archiver, lockQueue)
    /\ lockQueue' = Tail(lockQueue)
    /\ \/ /\ suspendedOnDisk' = TRUE
          /\ queueSuspended' = TRUE
          /\ archived' = TRUE
          /\ archiving' = "freeing"
          /\ UNCHANGED left
       \/ /\ Fault("write")
          /\ suspendedOnDisk' \in {suspendedOnDisk, TRUE}
          /\ archiving' = "off"
          /\ UNCHANGED <<queueSuspended, archived>>
    /\ UNCHANGED <<items, coolPending, deleting, generation, activeTurns, turnLease, machine,
                   turns, sending, removing>>

\* Mutant: the worker is stopped without a look at the turns.
ArchiveFreesAtOnce ==
    /\ archiving = "freeing"
    /\ ~Acquiring
    /\ archiving' = "off"
    /\ worker' = "none"
    /\ UNCHANGED <<journal, memory, queues, idleTimer, retryTimer, turns, sending, removing,
                   archived, left>>

\* The worker is stopped, or left to the end of the turn that uses it.
ArchiveFrees ==
    /\ archiving = "freeing"
    /\ ~Acquiring
    /\ archiving' = "off"
    /\ coolPending' = (coolPending \/ (worker = "alive" /\ HasActiveTurn))
    /\ worker' = IF HasActiveTurn THEN worker ELSE "none"
    /\ UNCHANGED <<journal, queueSuspended, deleting, generation, activeTurns, queues,
                   idleTimer, retryTimer, turns, sending, removing, archived, left>>

----------------------------------------------------------------------------
(* Removal: deleteSession ("delete") and releaseLogicalSession ("release"). *)

RemoveBegins(kind) ==
    /\ removing = "off" /\ left.removes > 0
    /\ left' = [left EXCEPT !.removes = @ - 1]
    /\ removing' = kind
    /\ deleting' = TRUE
    /\ generation' = generation + 1
    /\ UNCHANGED <<journal, queueSuspended, coolPending, activeTurns, queues, machine, turns,
                   sending, archiving, archived>>

\* Mutant: the removal does not wait for the turns.
RemoveQuiescesAtOnce ==
    /\ removing \in {"delete", "release"}
    /\ worker' = "none"
    /\ removing' = "unlink"
    /\ activeTurns' = 0 /\ coolPending' = FALSE
    /\ lockQueue' = Append(lockQueue, Remover)
    /\ UNCHANGED <<journal, queueSuspended, deleting, generation, turnLease, idleTimer, retryTimer,
                   turns, sending, archiving, archived, left>>

\* The worker is gone: a deletion waited for the turns, a release only asks
\* whether its worker is in one.  The journal comes last.
RemoveQuiesces ==
    /\ removing \in {"delete", "release"}
    /\ ~Acquiring
    /\ ~HasActiveTurn \/ (removing = "release" /\ worker = "none")
    /\ worker' = "none"
    /\ IF removing = "delete"
       THEN activeTurns' = 0 /\ coolPending' = FALSE /\ removing' = "unlink"
       ELSE removing' = "drop" /\ UNCHANGED <<activeTurns, coolPending>>
    /\ lockQueue' = Append(lockQueue, Remover)
    /\ UNCHANGED <<journal, queueSuspended, deleting, generation, turnLease, idleTimer, retryTimer,
                   turns, sending, archiving, archived, left>>

\* removeJournal, the rest of the cleaning, and the finally block.
RemoveUnlinks ==
    /\ removing \in {"unlink", "drop"} /\ Holds(Remover, lockQueue)
    /\ lockQueue' = Tail(lockQueue)
    /\ items' = <<>> /\ suspendedOnDisk' = FALSE
    /\ IF removing = "drop"
       THEN activeTurns' = 0 /\ coolPending' = FALSE /\ idleTimer' = FALSE
       ELSE UNCHANGED <<activeTurns, coolPending, idleTimer>>
    /\ deleting' = FALSE /\ queueSuspended' = FALSE /\ archived' = FALSE
    /\ removing' = "gone"
    /\ UNCHANGED <<generation, turnLease, worker, retryTimer, turns, sending, archiving, left>>

\* The removal breaks off when the worker is gone already: the session's records
\* or its journal cannot be removed, or what comes after the journal fails.
RemoveBreaksOff ==
    /\ Fault("write")
    /\ removing \in {"unlink", "drop"} /\ Holds(Remover, lockQueue)
    /\ lockQueue' = Tail(lockQueue)
    /\ \/ UNCHANGED journal
       \/ items' = <<>> /\ suspendedOnDisk' = FALSE
    /\ deleting' = FALSE /\ queueSuspended' = FALSE /\ archived' = FALSE
    /\ removing' = "off"
    /\ UNCHANGED <<coolPending, generation, activeTurns, turnLease, machine, turns, sending,
                   archiving>>

\* Mutant: a refused removal leaves its mark.
RemoveFailsKeepsMark ==
    /\ removing \in {"delete", "release"}
    /\ HasActiveTurn
    /\ removing = "release" => worker = "alive"
    /\ removing' = "off"
    /\ UNCHANGED <<journal, memory, queues, machine, turns, sending, archiving, archived, left>>

\* A turn outlasted the wait, or is under way: the removal is refused.
RemoveFails ==
    /\ removing \in {"delete", "release"}
    /\ HasActiveTurn
    /\ removing = "release" => worker = "alive"
    /\ deleting' = FALSE /\ queueSuspended' = FALSE /\ archived' = FALSE
    /\ removing' = "off"
    /\ UNCHANGED <<journal, coolPending, generation, activeTurns, queues, machine, turns,
                   sending, archiving, left>>

----------------------------------------------------------------------------
(* The host process ends and is started again; the queues are primed from   *)
(* the journals before anything else is served (primeQueuesFromCatalog).    *)

Restart ==
    /\ Fault("restart")
    /\ queueSuspended' = suspendedOnDisk
    /\ coolPending' = FALSE /\ deleting' = FALSE
    /\ generation' = 0 /\ activeTurns' = 0
    /\ lockQueue' = <<>> /\ turnLease' = <<>>
    /\ worker' = "none" /\ idleTimer' = FALSE /\ retryTimer' = FALSE
    /\ pc' = [q \in Turner |->
                 CASE q = Drain -> IF Pending /\ ~suspendedOnDisk THEN "load" ELSE "off"
                   [] pc[q] = "off" -> "off"
                   [] OTHER -> "done"]
    /\ epoch' = [q \in Turner |-> 0] /\ head' = Nothing
    /\ sending' = [m \in Message |-> "idle"] /\ archiving' = "off"
    /\ removing' = IF Removed THEN "gone" ELSE "off"
    /\ UNCHANGED <<journal, archived>>

----------------------------------------------------------------------------
TurnStep(q) == TakeLease(q) \/ Prepare(q) \/ Acquire(q)
DrainStep ==
    \/ Load \/ Admit \/ DrainTurnEnds \/ DrainTurnBreaks \/ Dequeue
PromptStep(p) ==
    \/ PromptEnters(p) \/ PromptResumes(p) \/ PromptTurnEnds(p)
    \/ PromptSettles(p) \/ PromptChecks(p) \/ PromptReturns(p)

Next ==
    \/ \E m \in Message : Send(m) \/ Save(m) \/ Acknowledge(m)
    \/ \E q \in Turner : TurnStep(q)
    \/ \E p \in Prompt : PromptStep(p)
    \/ DrainStep
    \/ RetryTimerFires \/ IdleTimerFires
    \/ ArchiveBegins \/ ArchiveSuspends \/ ArchiveFrees
    \/ \E kind \in {"delete", "release"} : RemoveBegins(kind)
    \/ RemoveQuiesces \/ RemoveUnlinks \/ RemoveBreaksOff \/ RemoveFails
    \/ Restart

Spec == Init /\ [][Next]_vars

----------------------------------------------------------------------------
(* Properties. *)

\* The history variables of the promise, read off the state of the engine.
TurnOfHead ==
    CASE \/ pc[Drain] = "running"
         \/ pc[Drain] \in {"prepare", "acquire"} /\ ~Stale(Drain) -> "running"
      [] pc[Drain] = "dequeue" -> "finished"
      [] OTHER -> "none"

Promise == INSTANCE DurableQueue
    WITH queue <- items, turn <- TurnOfHead, held <- archived

\* The journal and the drain loop together are a durable queue: messages are
\* run first in, first out, each at least once, none is lost by a crash, and an
\* archived session runs none until a direct prompt or a removal lifts that.
QueueSpec == Promise!Spec

\* The message the drain loop runs, or is about to remove, is the oldest in the
\* journal: nothing takes the journal away under a turn.
RunsTheHead ==
    pc[Drain] \in {"running", "dequeue"} => Pending /\ head = Head(items)

\* Whoever is in a turn is counted, so that archive and removal see it.
TurnsAreCounted == Busy => HasActiveTurn

\* A session that was removed leaves no message behind in a journal, whatever was
\* being sent meanwhile.
RemovedIsEmpty == Removed => ~Pending

\* A turn holds the lease from its first checks until it hands it on, so that
\* there is one at a time.
Leased == {"prepare", "acquire", "running", "settle", "check", "kick", "cool"}
TurnsHoldTheLease ==
    \A q \in Turner : pc[q] \in Leased => Holds(q, turnLease)

\* Everyone who is counted is counted once, until a removal clears the count
\* under turns that will not run any more.
Underway == {"resume", "wait", "prepare", "acquire", "running", "settle"}
Counted == {q \in Turner : pc[q] \in Underway}
CountIsExact == ~Removed => activeTurns = Cardinality(Counted)

\* What began before a removal is told apart by its generation, until the
\* host starts again; after a removal nothing else is on its way to a turn.
GenerationsTell ==
    /\ deleting <=> removing \in {"delete", "release", "unlink", "drop"}
    /\ \A q \in Turner :
          /\ epoch[q] <= generation
          /\ deleting /\ pc[q] \notin {"off", "done"} => epoch[q] # generation
          /\ Removed /\ pc[q] \in {"resume", "wait", "prepare", "acquire"} =>
                epoch[q] # generation

\* A turn has a worker, and a removal past its waiting has no turn.
TurnsHaveAWorker == Busy => worker = "alive" /\ removing \notin {"unlink", "drop", "gone"}

\* The removal of the journal is served after every message that is still being
\* sent, and after the drain loop's.
Unlinking == removing \in {"unlink", "drop"}
UnlinkedLast ==
    /\ \A m \in Message : sending[m] = "saving" => Contains(lockQueue, m) /\ ~Removed
    /\ pc[Drain] = "dequeue" => Contains(lockQueue, Drain)
    /\ Contains(lockQueue, Remover) => Unlinking
    /\ \A i, j \in DOMAIN lockQueue :
          i < j /\ lockQueue[i] = Remover => lockQueue[j] \notin Message \cup {Drain, Remover}

\* What the drain loop has read is still the head of the journal when it begins
\* a turn, unless a removal has made it stale.
HeadIsRead ==
    /\ pc[Drain] \in {"wait", "prepare", "acquire"} => head # Nothing
    /\ /\ pc[Drain] \in {"admit", "wait", "prepare", "acquire"}
       /\ epoch[Drain] = generation /\ head # Nothing
       => Pending /\ head = Head(items)

\* All of these hold together.
QueueInv ==
    /\ TypeOK /\ RunsTheHead /\ TurnsAreCounted /\ RemovedIsEmpty
    /\ TurnsHoldTheLease /\ CountIsExact /\ GenerationsTell /\ TurnsHaveAWorker
    /\ UnlinkedLast /\ HeadIsRead

\* The worker is never stopped under a turn: an archive, a removal, the idle
\* timer and the end of another turn all wait for it.
NeverKilledMidTurn ==
    [][Busy /\ worker' = "none" => left'.faults < left.faults]_vars

\* An archive outlives everything but a direct prompt and a removal, a restart
\* of the host included.
ArchiveHolds == archived => queueSuspended /\ suspendedOnDisk

----------------------------------------------------------------------------
(* Liveness.  The event loop runs what is ready, locks and leases are handed *)
(* on, timers fire, turns come to an end and removals stop waiting.          *)

Fairness ==
    /\ \A m \in Message : WF_vars(Save(m)) /\ WF_vars(Acknowledge(m))
    /\ \A q \in Turner : WF_vars(TurnStep(q))
    /\ \A p \in Prompt :
         WF_vars(PromptResumes(p) \/ PromptTurnEnds(p) \/ PromptSettles(p)
                 \/ PromptChecks(p) \/ PromptReturns(p))
    /\ WF_vars(DrainStep)
    /\ WF_vars(RetryTimerFires) /\ WF_vars(IdleTimerFires)
    /\ WF_vars(ArchiveSuspends) /\ WF_vars(ArchiveFrees)
    /\ WF_vars(RemoveQuiesces) /\ WF_vars(RemoveUnlinks \/ RemoveBreaksOff) /\ WF_vars(RemoveFails)

FairSpec == Spec /\ Fairness

\* A message that stays in the queue for good, although nothing suspends the
\* queue and no removal was tried since the host started, has lost its worker
\* for good: as long as there is one, the queue is drained, whichever of the
\* kicks were lost to a drain loop about to stop.
PendingIsRun ==
    \A m \in Message :
        <>[](Contains(items, m) /\ ~queueSuspended /\ generation = 0) => <>[](worker = "none")

\* Prompts, archives and removals return: lock and lease never wait for each
\* other in a circle, and no turn keeps a lease that it no longer uses.
CallsReturn ==
    /\ \A p \in Prompt : pc[p] = "resume" ~> pc[p] = "done"
    /\ archiving # "off" ~> archiving = "off"
    /\ deleting ~> ~deleting
=============================================================================
