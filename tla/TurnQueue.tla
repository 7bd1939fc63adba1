----------------------------- MODULE TurnQueue -----------------------------
(***************************************************************************)
(* The per-session turn lane of xacpx: src/control/turn-queue.ts.          *)
(*                                                                         *)
(* Every path that makes an agent session run a turn (a person's prompt, a *)
(* scheduled prompt, a message of a peer agent, a peer interrupt) goes     *)
(* through one TurnQueue.  Callers pass the session's internal alias as    *)
(* concurrencyKey, so resolveKey maps them to one lane; lanes share only   *)
(* the request-id tombstones.  This module is one lane.                    *)
(*                                                                         *)
(* The program is a single-threaded event loop: one action here is one     *)
(* stretch of code between two awaits.  A submission is named by the       *)
(* prompt it carries, and a prompt is submitted once; a retried delivery   *)
(* is another prompt with the same request id.  The turn a prompt becomes, *)
(* its AbortController and its `settled` promise are named by the prompt.  *)
(***************************************************************************)
EXTENDS Integers, Sequences, FiniteSets, SequencesExt

CONSTANTS
    Human,             \* prompts of people: submit() with queueable
    Scheduled,         \* prompts of the scheduler and turns of conversation
                       \* members: submit(), not queueable
    Peer,              \* submitPeerTurn()
    Interrupt,         \* submitPeerInterrupt()
    RequestId,         \* promptRequestId values
    ReqOf,             \* the request id each prompt carries, or None
    Clear,             \* calls of clearSession (removal, archive)
    MaxDepth,          \* QUEUE_MAX_DEPTH
    Expiring,          \* request ids whose tombstone may age out meanwhile
                       \* (24 h) or be evicted (2000 entries)
    None

Prompt == Human \cup Scheduled \cup Peer \cup Interrupt
PeerMessage == Peer \cup Interrupt   \* isPeerMessage, with a completion contract

ASSUME KindsDisjoint ==
    /\ Human \cap (Scheduled \cup Peer \cup Interrupt) = {}
    /\ Scheduled \cap (Peer \cup Interrupt) = {}
    /\ Peer \cap Interrupt = {}
    /\ Prompt \cap Clear = {}
ASSUME NoneIsNone == None \notin Prompt /\ None \notin RequestId
ASSUME ReqOfType == ReqOf \in [Prompt -> RequestId \cup {None}]
ASSUME MaxDepthType == MaxDepth \in Nat \ {0}
ASSUME ExpiringType == Expiring \subseteq RequestId

VARIABLES
    status,        \* where each submission stands (its call's progress)
    inFlight,      \* the turn registered on the lane, or None
    aborted,       \* prompts whose AbortController (or linked signal) fired
    queue,         \* the FIFO of queued prompts
    slot,          \* pendingInterrupts: the reserved interrupt, or None
    draining,      \* hand-off guard
    removing,      \* teardown guard
    tombstones,    \* settledRequestIds
    waiters,       \* calls awaiting a turn's settled promise, oldest first
    clear,         \* progress of each clearSession call
    guardBefore,   \* guardPreexisting of each clearSession call
    notices        \* onQueuedPeerCancelled notifications per prompt

laneVars  == <<inFlight, aborted, queue, slot, draining, tombstones>>
clearVars == <<removing, clear, guardBefore>>
vars == <<status, inFlight, aborted, queue, slot, draining, removing,
          tombstones, waiters, clear, guardBefore, notices>>

Status == {"new", "waiting", "queued", "reserved", "running", "detecting",
           "done", "absorbed", "rejected", "dropped"}
ClearStatus == {"idle", "unwinding", "teardown", "failed", "finished"}

\* The turn holds an execution of the runner, or its post-turn detection.
Executing(p) == status[p] \in {"running", "detecting"}
Settled(p) == status[p] = "done"     \* its settled promise is resolved

TypeOK ==
    /\ status \in [Prompt -> Status]
    /\ inFlight \in Prompt \cup {None}
    /\ aborted \subseteq Prompt
    /\ queue \in Seq(Prompt)
    /\ Len(queue) <= MaxDepth
    /\ slot \in Interrupt \cup {None}
    /\ draining \in BOOLEAN
    /\ removing \in BOOLEAN
    /\ tombstones \subseteq RequestId
    /\ waiters \in Seq([who : Prompt \cup Clear, on : Prompt])
    /\ clear \in [Clear -> ClearStatus]
    /\ guardBefore \in [Clear -> BOOLEAN]
    /\ notices \in [Prompt -> Nat]

Init ==
    /\ status = [p \in Prompt |-> "new"]
    /\ inFlight = None
    /\ aborted = {}
    /\ queue = <<>>
    /\ slot = None
    /\ draining = FALSE
    /\ removing = FALSE
    /\ tombstones = {}
    /\ waiters = <<>>
    /\ clear = [c \in Clear |-> "idle"]
    /\ guardBefore = [c \in Clear |-> FALSE]
    /\ notices = [p \in Prompt |-> 0]

-----------------------------------------------------------------------------
(* The gate of submit() and its outcomes.                                  *)

\* submit: a live turn, a hand-off or a teardown makes the lane busy; a turn
\* that is aborted and unwinding does not.
Busy == removing \/ draining \/ (inFlight # None /\ inFlight \notin aborted)

\* submitPeerTurn, submitPeerInterrupt: any registered turn is a predecessor.
PeerBusy == draining \/ inFlight # None

\* Mutant: the admission of a request is not remembered.
RecordedNever(p) == tombstones

\* recordSettledRequestId
Recorded(p) ==
    IF p = None \/ ReqOf[p] = None THEN tombstones
                                   ELSE tombstones \cup {ReqOf[p]}

\* The request id of the message was already admitted on this lane: settled,
\* queued or in flight.
Duplicate(p) ==
    /\ ReqOf[p] # None
    /\ \/ ReqOf[p] \in tombstones
       \/ \E i \in DOMAIN queue : ReqOf[queue[i]] = ReqOf[p]
       \/ inFlight # None /\ ReqOf[inFlight] = ReqOf[p]

\* What waits on the lane: the reservation and the queue.
Backlog == ToSet(queue) \cup ({slot} \ {None})

\* Register the turn and call the runner: one synchronous prefix.
Start(p) ==
    /\ inFlight' = p
    /\ status' = [status EXCEPT ![p] = "running"]

Answer(p, s) == status' = [status EXCEPT ![p] = s]

\* submit on a free lane: the turn starts in the caller's own step.
SubmitStarts(p) ==
    /\ p \in Human \cup Scheduled
    /\ status[p] = "new"
    /\ ~Busy
    /\ inFlight = None
    /\ Start(p)
    /\ UNCHANGED <<aborted, queue, slot, draining, tombstones, waiters,
                   clearVars, notices>>

\* submit of a person's prompt on a busy lane: queued, or refused when full.
SubmitEnqueues(p) ==
    /\ p \in Human
    /\ status[p] = "new"
    /\ Busy
    /\ Len(queue) < MaxDepth
    /\ queue' = Append(queue, p)
    /\ Answer(p, "queued")
    /\ UNCHANGED <<inFlight, aborted, slot, draining, tombstones, waiters,
                   clearVars, notices>>

\* queue-full for a person, turn-already-running for the scheduler.
SubmitRejected(p) ==
    /\ status[p] = "new"
    /\ Busy
    /\ \/ p \in Human /\ Len(queue) >= MaxDepth
       \/ p \in Scheduled
    /\ Answer(p, "rejected")
    /\ UNCHANGED <<laneVars, waiters, clearVars, notices>>

\* An aborted turn is unwinding: wait for it, at most CANCEL_DRAIN_TIMEOUT_MS.
SubmitWaits(p) ==
    /\ p \in Human \cup Scheduled
    /\ status[p] = "new"
    /\ ~Busy
    /\ inFlight # None
    /\ waiters' = Append(waiters, [who |-> p, on |-> inFlight])
    /\ Answer(p, "waiting")
    /\ UNCHANGED <<laneVars, clearVars, notices>>

\* Mutant: the await has no timer.
ResumesSettledOnly(i) ==
    LET settled == {j \in DOMAIN waiters : Settled(waiters[j].on)}
    IN  i \in settled /\ \A j \in settled : i <= j

\* The await of w's call ends: its turn settled and every earlier waiter of a
\* settled turn has resumed (promise reactions run in order), or the timer
\* fired first.
Resumes(i) ==
    LET settled == {j \in DOMAIN waiters : Settled(waiters[j].on)}
    IN  i \in settled => \A j \in settled : i <= j

\* Mutant: inFlight is not read again after the await.
SubmitResumesBlindly(p) ==
    \E i \in DOMAIN waiters :
        /\ waiters[i].who = p
        /\ Resumes(i)
        /\ waiters' = RemoveAt(waiters, i)
        /\ Start(p)
        /\ UNCHANGED <<aborted, queue, slot, draining, tombstones, clearVars,
                       notices>>

\* submit after the await: only inFlight is read again.
SubmitResumes(p) ==
    \E i \in DOMAIN waiters :
        /\ waiters[i].who = p
        /\ Resumes(i)
        /\ waiters' = RemoveAt(waiters, i)
        /\ IF inFlight # None
             THEN Answer(p, "rejected") /\ UNCHANGED inFlight
             ELSE Start(p)
        /\ UNCHANGED <<aborted, queue, slot, draining, tombstones, clearVars,
                       notices>>

-----------------------------------------------------------------------------
(* Peer admissions: synchronous, an answer in the caller's own step.       *)

\* submitPeerTurn on a free lane, or submitPeerInterrupt on an idle target.
PeerStarts(p) ==
    /\ p \in PeerMessage
    /\ status[p] = "new"
    /\ ~removing
    /\ ~Duplicate(p)
    /\ ~PeerBusy
    /\ Start(p)
    /\ tombstones' = Recorded(p)
    /\ UNCHANGED <<aborted, queue, slot, draining, waiters, clearVars, notices>>

\* Mutant: a teardown makes the lane busy for a peer instead of refusing it.
PeerEnqueuesInTeardown(p) ==
    /\ p \in Peer
    /\ status[p] = "new"
    /\ ~Duplicate(p)
    /\ PeerBusy \/ removing
    /\ Len(queue) < MaxDepth
    /\ queue' = Append(queue, p)
    /\ tombstones' = Recorded(p)
    /\ Answer(p, "queued")
    /\ UNCHANGED <<inFlight, aborted, slot, draining, waiters, clearVars,
                   notices>>

\* submitPeerTurn behind any registered turn; the id is recorded on admission.
PeerEnqueues(p) ==
    /\ p \in Peer
    /\ status[p] = "new"
    /\ ~removing
    /\ ~Duplicate(p)
    /\ PeerBusy
    /\ Len(queue) < MaxDepth
    /\ queue' = Append(queue, p)
    /\ tombstones' = Recorded(p)
    /\ Answer(p, "queued")
    /\ UNCHANGED <<inFlight, aborted, slot, draining, waiters, clearVars,
                   notices>>

\* submitPeerInterrupt on a busy lane: reserve, record, abort, in one step.
InterruptReserves(p) ==
    /\ p \in Interrupt
    /\ status[p] = "new"
    /\ ~removing
    /\ ~Duplicate(p)
    /\ PeerBusy
    /\ slot = None
    /\ slot' = p
    /\ tombstones' = Recorded(p)
    /\ aborted' = aborted \cup ({inFlight} \ {None})
    /\ Answer(p, "reserved")
    /\ UNCHANGED <<inFlight, queue, draining, waiters, clearVars, notices>>

\* A duplicate is answered with the admission already given.  An interrupt
\* also recognises its own id in the slot; submitPeerTurn does not look there.
PeerAbsorbed(p) ==
    /\ p \in PeerMessage
    /\ status[p] = "new"
    /\ ~removing
    /\ \/ Duplicate(p)
       \/ p \in Interrupt /\ slot # None /\ ReqOf[p] # None
          /\ ReqOf[slot] = ReqOf[p]
    /\ Answer(p, "absorbed")
    /\ UNCHANGED <<laneVars, waiters, clearVars, notices>>

\* target-unavailable during a teardown; queue-full for a full queue or an
\* occupied slot.  A rejection records no tombstone.
PeerRejected(p) ==
    /\ p \in PeerMessage
    /\ status[p] = "new"
    /\ \/ removing
       \/ /\ ~Duplicate(p)
          /\ PeerBusy
          /\ \/ p \in Peer /\ Len(queue) >= MaxDepth
             \/ /\ p \in Interrupt /\ slot # None
                /\ ReqOf[p] = None \/ ReqOf[slot] # ReqOf[p]
    /\ Answer(p, "rejected")
    /\ UNCHANGED <<laneVars, waiters, clearVars, notices>>

-----------------------------------------------------------------------------
(* The end of a turn.                                                      *)

\* Mutant: the ending turn is not remembered before the next takes its place.
AdvanceQueueForgets(p) ==
    /\ tombstones' = IF Backlog = {} THEN Recorded(inFlight) ELSE tombstones
    /\ draining' = FALSE
    /\ \/ /\ slot # None
          /\ inFlight' = slot
          /\ slot' = None
          /\ status' = [status EXCEPT ![p] = "done", ![slot] = "running"]
          /\ UNCHANGED queue
       \/ /\ slot = None /\ queue # <<>>
          /\ inFlight' = Head(queue)
          /\ queue' = Tail(queue)
          /\ status' = [status EXCEPT ![p] = "done", ![Head(queue)] = "running"]
          /\ UNCHANGED slot
       \/ /\ slot = None /\ queue = <<>>
          /\ inFlight' = None
          /\ status' = [status EXCEPT ![p] = "done"]
          /\ UNCHANGED <<queue, slot>>

\* Mutant: the FIFO head is drained ahead of the reservation.
AdvanceQueueFifoFirst(p) ==
    /\ tombstones' = Recorded(inFlight)
    /\ draining' = FALSE
    /\ \/ /\ queue # <<>>
          /\ inFlight' = Head(queue)
          /\ queue' = Tail(queue)
          /\ status' = [status EXCEPT ![p] = "done", ![Head(queue)] = "running"]
          /\ UNCHANGED slot
       \/ /\ queue = <<>> /\ slot # None
          /\ inFlight' = slot
          /\ slot' = None
          /\ status' = [status EXCEPT ![p] = "done", ![slot] = "running"]
          /\ UNCHANGED queue
       \/ /\ slot = None /\ queue = <<>>
          /\ inFlight' = None
          /\ status' = [status EXCEPT ![p] = "done"]
          /\ UNCHANGED <<queue, slot>>

\* Mutant: the newest queued prompt is drained, not the oldest.
AdvanceQueueLifo(p) ==
    /\ tombstones' = Recorded(inFlight)
    /\ draining' = FALSE
    /\ LET n == Len(queue) IN
       IF slot # None \/ n = 0
         THEN /\ inFlight' = slot
              /\ slot' = None
              /\ status' = [q \in Prompt |-> IF q = p THEN "done"
                               ELSE IF q = slot THEN "running" ELSE status[q]]
              /\ UNCHANGED queue
         ELSE /\ inFlight' = queue[n]
              /\ queue' = SubSeq(queue, 1, n - 1)
              /\ status' = [status EXCEPT ![p] = "done", ![queue[n]] = "running"]
              /\ UNCHANGED slot

\* advanceQueue(key) with the guard as it stands, for the ending turn p: the
\* reserved interrupt, else the FIFO head, starts as the drained turn in the
\* same step; else the lane is released.
AdvanceQueue(p) ==
    /\ tombstones' = Recorded(inFlight)
    /\ draining' = FALSE
    /\ \/ /\ slot # None
          /\ inFlight' = slot
          /\ slot' = None
          /\ status' = [status EXCEPT ![p] = "done", ![slot] = "running"]
          /\ UNCHANGED queue
       \/ /\ slot = None /\ queue # <<>>
          /\ inFlight' = Head(queue)
          /\ queue' = Tail(queue)
          /\ status' = [status EXCEPT ![p] = "done", ![Head(queue)] = "running"]
          /\ UNCHANGED slot
       \/ /\ slot = None /\ queue = <<>>
          /\ inFlight' = None
          /\ status' = [status EXCEPT ![p] = "done"]
          /\ UNCHANGED <<queue, slot>>

\* The runner returns (or throws) and nothing needs detecting: settle and
\* advance in the same step.
TurnEnds(p) ==
    /\ status[p] = "running"
    /\ AdvanceQueue(p)
    /\ UNCHANGED <<aborted, waiters, clearVars, notices>>

\* The transport session moved during the turn: the hand-off guard goes up,
\* if anything waits, before the detection is awaited.
TurnDetects(p) ==
    /\ status[p] = "running"
    /\ Answer(p, "detecting")
    /\ draining' = (draining \/ queue # <<>> \/ slot # None)
    /\ UNCHANGED <<inFlight, aborted, queue, slot, tombstones, waiters,
                   clearVars, notices>>

DetectionEnds(p) ==
    /\ status[p] = "detecting"
    /\ AdvanceQueue(p)
    /\ UNCHANGED <<aborted, waiters, clearVars, notices>>

-----------------------------------------------------------------------------
(* Cancellation.                                                           *)

\* cancelTurn, and the idle watchdog of the running turn.
CancelTurn ==
    /\ inFlight # None
    /\ inFlight \notin aborted
    /\ aborted' = aborted \cup {inFlight}
    /\ UNCHANGED <<status, inFlight, queue, slot, draining, tombstones, waiters,
                   clearVars, notices>>

\* The dispatch timeout of a scheduled prompt fires its external signal; the
\* turn is linked to it whether the signal fires before or after it starts.
DispatchTimeout(p) ==
    /\ p \in Scheduled \ aborted
    /\ status[p] \in {"waiting", "running", "detecting"}
    /\ aborted' = aborted \cup {p}
    /\ UNCHANGED <<status, inFlight, queue, slot, draining, tombstones, waiters,
                   clearVars, notices>>

\* notifyQueuedPeerCancelled: one terminal notice per dropped peer message.
Notify(dropped) ==
    notices' = [p \in Prompt |->
                  IF p \in dropped \cap PeerMessage THEN notices[p] + 1
                                                   ELSE notices[p]]

\* Mutant: the contract of a cancelled item is not resolved.
CancelQueuedItemSilently(p) ==
    /\ \/ slot = p /\ p # None /\ slot' = None /\ UNCHANGED queue
       \/ \E i \in DOMAIN queue :
             queue[i] = p /\ queue' = RemoveAt(queue, i) /\ UNCHANGED slot
    /\ Answer(p, "dropped")
    /\ UNCHANGED <<inFlight, aborted, draining, tombstones, waiters, clearVars,
                   notices>>

\* cancelQueuedItem: the reservation, or a queued prompt by its id.
CancelQueuedItem(p) ==
    /\ \/ slot = p /\ p # None /\ slot' = None /\ UNCHANGED queue
       \/ \E i \in DOMAIN queue :
             queue[i] = p /\ queue' = RemoveAt(queue, i) /\ UNCHANGED slot
    /\ Answer(p, "dropped")
    /\ Notify({p})
    /\ UNCHANGED <<inFlight, aborted, draining, tombstones, waiters, clearVars>>

\* The tombstone of an id outlives its 24 hours or is evicted.
TombstoneExpires(r) ==
    /\ r \in tombstones \cap Expiring
    /\ tombstones' = tombstones \ {r}
    /\ UNCHANGED <<status, inFlight, aborted, queue, slot, draining, waiters,
                   clearVars, notices>>

-----------------------------------------------------------------------------
(* Teardown of the session: clearSession, the caller's transport removal,  *)
(* finishClear.                                                            *)

DropBacklog ==
    /\ queue' = <<>>
    /\ slot' = None
    /\ status' = [p \in Prompt |-> IF p \in Backlog THEN "dropped"
                                                   ELSE status[p]]
    /\ Notify(Backlog)

\* The guard goes up and the backlog is dropped before anything is awaited.
\* With a registered turn: abort it and wait, at most cancelDrainTimeoutMs.
\* Without one (no hand-off can be live then) the session is cleared at once.
ClearSession(c) ==
    /\ clear[c] = "idle"
    /\ guardBefore' = [guardBefore EXCEPT ![c] = removing]
    /\ removing' = TRUE
    /\ DropBacklog
    /\ IF inFlight # None
         THEN /\ aborted' = aborted \cup {inFlight}
              /\ waiters' = Append(waiters, [who |-> c, on |-> inFlight])
              /\ clear' = [clear EXCEPT ![c] = "unwinding"]
         ELSE /\ clear' = [clear EXCEPT ![c] = "teardown"]
              /\ UNCHANGED <<aborted, waiters>>
    /\ UNCHANGED <<inFlight, draining, tombstones>>

\* Mutant: a failed clear keeps the guard.
ClearResumesKeepsGuard(c) ==
    \E i \in DOMAIN waiters :
        /\ waiters[i].who = c
        /\ Resumes(i)
        /\ waiters' = RemoveAt(waiters, i)
        /\ DropBacklog
        /\ IF inFlight = None /\ ~draining
             THEN /\ clear' = [clear EXCEPT ![c] = "teardown"]
                  /\ UNCHANGED removing
             ELSE /\ clear' = [clear EXCEPT ![c] = "failed"]
                  /\ UNCHANGED removing
        /\ UNCHANGED <<inFlight, aborted, draining, tombstones, guardBefore>>

\* After the await: drop what was admitted meanwhile, look again.  A failed
\* clear lowers the guard unless it was up when the call began.
ClearResumes(c) ==
    \E i \in DOMAIN waiters :
        /\ waiters[i].who = c
        /\ Resumes(i)
        /\ waiters' = RemoveAt(waiters, i)
        /\ DropBacklog
        /\ IF inFlight = None /\ ~draining
             THEN /\ clear' = [clear EXCEPT ![c] = "teardown"]
                  /\ UNCHANGED removing
             ELSE /\ clear' = [clear EXCEPT ![c] = "failed"]
                  /\ removing' = (removing /\ guardBefore[c])
        /\ UNCHANGED <<inFlight, aborted, draining, tombstones, guardBefore>>

\* removeSession / archiveSession: the transport is gone (or failed to go).
FinishClear(c) ==
    /\ clear[c] = "teardown"
    /\ clear' = [clear EXCEPT ![c] = "finished"]
    /\ removing' = FALSE
    /\ UNCHANGED <<status, laneVars, waiters, guardBefore, notices>>

-----------------------------------------------------------------------------
Submission(p) ==
    \/ SubmitStarts(p) \/ SubmitEnqueues(p) \/ SubmitRejected(p)
    \/ SubmitWaits(p) \/ PeerStarts(p) \/ PeerEnqueues(p)
    \/ InterruptReserves(p) \/ PeerAbsorbed(p) \/ PeerRejected(p)

TurnStep(p) == TurnEnds(p) \/ TurnDetects(p) \/ DetectionEnds(p)

Next ==
    \/ \E p \in Prompt :
          \/ Submission(p) \/ SubmitResumes(p) \/ TurnStep(p)
          \/ DispatchTimeout(p) \/ CancelQueuedItem(p)
    \/ CancelTurn
    \/ \E r \in RequestId : TombstoneExpires(r)
    \/ \E c \in Clear : ClearSession(c) \/ ClearResumes(c) \/ FinishClear(c)

Spec == Init /\ [][Next]_vars

\* What the program itself guarantees to go on: an awaited turn or its timer
\* resumes the calls that wait for one, and the finally of a teardown runs.
\* Turns may wedge: an agent may never answer and never die.  Submissions,
\* cancels and timeouts are nobody's obligation.
FairSpec ==
    /\ Spec
    /\ \A p \in Prompt : WF_vars(SubmitResumes(p))
    /\ \A c \in Clear : WF_vars(ClearResumes(c)) /\ WF_vars(FinishClear(c))

-----------------------------------------------------------------------------
(* Properties.                                                             *)

Started(p) == status[p] \in {"running", "detecting", "done"}
Accepted(p) == status[p] \in {"queued", "reserved"}
Lasting == RequestId \ Expiring   \* ids whose tombstone stays for good

\* Mutual exclusion: the turns that execute on the lane are exactly the one
\* turn registered in inFlight, through every hand-off, wait and teardown.
OneTurn == \A p \in Prompt : Executing(p) <=> inFlight = p

\* The hand-off guard never outlives the ending turn that raised it; leaked, it
\* would make every later submission queue forever.
HandOffGuarded ==
    draining => inFlight # None /\ status[inFlight] = "detecting"

\* A reserved interrupt always has a predecessor on the lane that was told to
\* stop: no reservation waits on a turn that nobody cancelled.
ReservationCancels == slot # None => inFlight # None /\ inFlight \in aborted

\* A peer message that waits on the lane has a turn ahead of it whose end will
\* start it, whatever was cleared or cancelled in between.
PeerNotStranded ==
    Backlog \cap PeerMessage # {} => inFlight # None

\* A prompt in the queue is in it once, and only accepted prompts wait: nothing
\* that ran, was refused or was dropped can be drained later.
BacklogConsistent ==
    /\ \A p \in Prompt : Accepted(p) <=> p \in Backlog
    /\ IsInjective(queue)

\* Peer messages that carry the same request id never run twice while its
\* tombstone lasts: a retry after a lost answer does not start a second turn.
RunsOnce ==
    \A p, q \in PeerMessage :
        p # q /\ Started(p) /\ Started(q) /\ ReqOf[p] = ReqOf[q] => ReqOf[p] \notin Lasting

\* A completion contract has one outcome: a peer message is either run or
\* reported cancelled, never both and never twice.
ContractOnce ==
    \A p \in PeerMessage :
        notices[p] + (IF Started(p) THEN 1 ELSE 0) <= 1

\* Once an interrupt is reserved, the next turn on the lane is that interrupt.
InterruptNext ==
    [][slot # None /\ inFlight' # inFlight => inFlight' = slot]_vars

\* inspectPromptRequest
Inspect(r) ==
    IF inFlight # None /\ ReqOf[inFlight] = r THEN "in-flight"
    ELSE IF r \in tombstones THEN "settled" ELSE "absent"

\* A request seen in flight is never absent afterwards: its tombstone is there
\* before the next turn takes its place, and stays unless it is of those that
\* age out.
NeverForgotten ==
    [][\A r \in Lasting : Inspect(r) # "absent" => Inspect(r)' # "absent"]_vars

\* Every peer message the lane accepts is run or reported cancelled, if each
\* turn ends: the runner returns because its agent answers, or because a cancel
\* or the idle watchdog stops it.
TurnsEnd == \A p \in Prompt : []<>~Executing(p)
PeerResolved ==
    TurnsEnd =>
        \A p \in PeerMessage :
            Accepted(p) ~> status[p] = "done" \/ notices[p] = 1

\* Every call that waits for a turn to unwind returns, even when the turn never
\* does.
CallsReturn ==
    /\ \A p \in Prompt : status[p] = "waiting" ~> status[p] # "waiting"
    /\ \A c \in Clear : clear[c] = "unwinding" ~> clear[c] # "unwinding"

\* The teardown guard does not outlast the calls that raised it, in whatever
\* order overlapping removals of the session fail, time out and finish.
GuardFalls == removing ~> ~removing

-----------------------------------------------------------------------------
(* The inductive invariant behind the safety properties.                     *)

\* A call waits at most once, and a waiting submission has no other state.
WaitersConsistent ==
    /\ \A i \in DOMAIN waiters :
          waiters[i].who \in Prompt => status[waiters[i].who] = "waiting"
    /\ \A i, j \in DOMAIN waiters :
          waiters[i].who = waiters[j].who /\ waiters[i].who \in Prompt => i = j

\* Only a dropped prompt has been reported cancelled, and once.
NoticesConsistent ==
    \A p \in Prompt :
        notices[p] <= 1 /\ (status[p] # "dropped" => notices[p] = 0)

\* The place of each accepted prompt is the one its status names.
PlacesConsistent ==
    /\ \A i \in DOMAIN queue : status[queue[i]] = "queued"
    /\ slot # None => status[slot] = "reserved"
    /\ \A p \in Prompt : status[p] = "queued" => \E i \in DOMAIN queue : queue[i] = p
    /\ \A p \in Prompt : status[p] = "reserved" => slot = p
    /\ IsInjective(queue)

\* OneTurn by itself is not inductive: the hand-over starts what the queue and
\* the slot hold, so these must hold nothing that runs, and a resumed waiter
\* must be nobody else's turn.
IInv ==
    /\ TypeOK
    /\ OneTurn
    /\ HandOffGuarded
    /\ ReservationCancels
    /\ PeerNotStranded
    /\ PlacesConsistent
    /\ WaitersConsistent
    /\ NoticesConsistent

-----------------------------------------------------------------------------
(* The lane implements TurnLane: at most one holder, a bounded backlog in    *)
(* order with one place of priority at its front.                            *)

Phase ==
    [p \in Prompt |->
        IF status[p] \in {"new", "waiting"} THEN "outside"
        ELSE IF Accepted(p) THEN "waiting"
        ELSE IF Executing(p) THEN "holding" ELSE "gone"]

\* The reservation is the place of priority ahead of the queue.
InOrder == IF slot = None THEN queue ELSE <<slot>> \o queue

Lane == INSTANCE TurnLane
          WITH Entrant <- Prompt, Priority <- Interrupt, Contracted <- PeerMessage,
               Bound <- MaxDepth, holder <- inFlight, phase <- Phase,
               backlog <- InOrder

\* Every behaviour of the lane is one of the abstract lane: entering, leaving
\* and handing over happen in its order and never in two steps.
LaneSpec == Lane!Spec
=============================================================================
