------------------------ MODULE DebouncedStateStore ------------------------
(***************************************************************************)
(* How the daemon's state reaches state.json:                              *)
(* src/state/debounced-state-store.ts and the two kinds of callers.        *)
(*                                                                         *)
(* Everything the daemon remembers is one AppState object.  A change of a  *)
(* session or of a scheduled task is made in place and committed by        *)
(* save(), which writes later; a change of an orchestration task, of a bot *)
(* or of a lifecycle is made on a copy, written by saveNow() and published *)
(* into the live object once it is on disk.  All callers hold stateMutex.  *)
(*                                                                         *)
(* The daemon is taken for the only process that writes the file, and a    *)
(* write for atomic.  `xacpx later cancel` has a store of its own          *)
(* (src/cli.ts; ScheduledTasks models what that does to a task), and on    *)
(* Windows a write whose every rename was refused overwrites the file in   *)
(* place (src/util/private-file.ts).                                       *)
(*                                                                         *)
(* A state is the set of mutations applied to it.  One action is one       *)
(* stretch of code between two awaits; the resumption of the call that     *)
(* owns a write is part of the write's end, because it is the first to     *)
(* have awaited `flushing` and whatever gets between schedules the same    *)
(* timer.                                                                  *)
(***************************************************************************)
EXTENDS Integers

CONSTANTS
    Debounced,    \* mutations made in place and committed with save()
    Durable,      \* mutations made on a copy and committed with saveNow()
    MaxFailures,  \* bound: how many writes of the file fail
    MaxCrashes,   \* bound: how often the daemon dies and restarts
    None

Mutation == Debounced \cup Durable

ASSUME KindsDisjoint == Debounced \cap Durable = {}
ASSUME NoneIsNone == None \notin Mutation
ASSUME BoundsType == MaxFailures \in Nat /\ MaxCrashes \in Nat

VARIABLES
    live,      \* the AppState object
    disk,      \* state.json
    pending,   \* whether `pending` is set; it is always the live object
    timer,     \* whether the debounce timer is armed
    writes,    \* delegate.save calls in progress (`flushing`)
    mutex,     \* the saveNow() caller that holds stateMutex, or None
    outcome,   \* what each mutation's caller has been told
    disposal,  \* dispose(): not called, flushing, resolved
    failed,    \* contents of the writes that failed, by path
    faults     \* failures and crashes so far

vars == <<live, disk, pending, timer, writes, mutex, outcome, disposal,
          failed, faults>>

Disposed == disposal # "open"
Flushing == writes # {}
Paths == {"flush", "now"}
Write == [content : SUBSET Mutation, by : Durable \cup {None}]
PathOf(w) == IF w.by = None THEN "flush" ELSE "now"

TypeOK ==
    /\ live \subseteq Mutation
    /\ disk \subseteq Mutation
    /\ pending \in BOOLEAN
    /\ timer \in BOOLEAN
    /\ writes \subseteq Write
    /\ \A v, w \in writes : v = w   \* one write at a time
    /\ mutex \in Durable \cup {None}
    /\ outcome \in [Mutation -> {"new", "accepted", "written", "rejected"}]
    /\ disposal \in {"open", "flushing", "done"}
    /\ failed \in [Paths -> SUBSET Mutation]
    /\ faults \in [failures : 0..MaxFailures, crashes : 0..MaxCrashes]

Init ==
    /\ live = {}
    /\ disk = {}
    /\ pending = FALSE
    /\ timer = FALSE
    /\ writes = {}
    /\ mutex = None
    /\ outcome = [m \in Mutation |-> "new"]
    /\ disposal = "open"
    /\ failed = [p \in Paths |-> {}]
    /\ faults = [failures |-> 0, crashes |-> 0]

-----------------------------------------------------------------------------
(* save()                                                                  *)

\* The mutation is made in place, then committed; a write in progress arms the
\* timer itself when it ends.
Save(m) ==
    /\ m \in Debounced /\ outcome[m] = "new" /\ mutex = None
    /\ live' = live \cup {m}
    /\ IF Disposed
       THEN /\ outcome' = [outcome EXCEPT ![m] = "rejected"]
            /\ UNCHANGED <<pending, timer>>
       ELSE /\ outcome' = [outcome EXCEPT ![m] = "accepted"]
            /\ pending' = TRUE
            /\ timer' = (timer \/ ~Flushing)
    /\ UNCHANGED <<disk, writes, mutex, disposal, failed, faults>>

-----------------------------------------------------------------------------
(* saveNow()                                                               *)

Candidate(m) == [content |-> live \cup {m}, by |-> m]
Waiting(m) == mutex = m /\ \A w \in writes : w.by # m

\* Mutant: saveNow does not await the write in progress.
SaveNowAtOnce(m) ==
    /\ m \in Durable /\ outcome[m] = "new" /\ mutex = None /\ ~Disposed
    /\ pending' = FALSE
    /\ timer' = FALSE
    /\ mutex' = m
    /\ writes' = writes \cup {Candidate(m)}
    /\ UNCHANGED <<live, disk, outcome, disposal, failed, faults>>

\* Mutant: the copy is published before it is written.
SaveNowPublishesFirst(m) ==
    /\ m \in Durable /\ outcome[m] = "new" /\ mutex = None /\ ~Disposed
    /\ pending' = FALSE
    /\ timer' = FALSE
    /\ mutex' = m
    /\ live' = live \cup {m}
    /\ writes' = IF Flushing THEN writes ELSE {Candidate(m)}
    /\ UNCHANGED <<disk, outcome, disposal, failed, faults>>

\* The snapshot supersedes a pending one; the write begins in the same step
\* unless another is in progress.
SaveNow(m) ==
    /\ m \in Durable /\ outcome[m] = "new" /\ mutex = None /\ ~Disposed
    /\ pending' = FALSE
    /\ timer' = FALSE
    /\ mutex' = m
    /\ writes' = IF Flushing THEN writes ELSE {Candidate(m)}
    /\ UNCHANGED <<live, disk, outcome, disposal, failed, faults>>

SaveNowRejected(m) ==
    /\ m \in Durable /\ outcome[m] = "new" /\ mutex = None /\ Disposed
    /\ outcome' = [outcome EXCEPT ![m] = "rejected"]
    /\ UNCHANGED <<live, disk, pending, timer, writes, mutex, disposal,
                   failed, faults>>

\* `while (this.flushing) await`: the write it waited for has ended.
SaveNowResumes(m) ==
    /\ m \in Durable /\ Waiting(m) /\ ~Flushing
    /\ writes' = {Candidate(m)}
    /\ UNCHANGED <<live, disk, pending, timer, mutex, outcome, disposal,
                   failed, faults>>

-----------------------------------------------------------------------------
(* The debounced flush.                                                    *)

\* Mutant: the snapshot stays pending while it is written.
FlushCycleKeepsPending ==
    /\ writes' = IF Flushing \/ ~pending THEN writes
                 ELSE {[content |-> live, by |-> None]}
    /\ UNCHANGED pending

\* runOneFlushCycle up to its await: the delegate serialises the live object
\* as it is now.
FlushCycle ==
    IF Flushing \/ ~pending
    THEN UNCHANGED <<pending, writes>>
    ELSE /\ pending' = FALSE
         /\ writes' = {[content |-> live, by |-> None]}

TimerFires ==
    /\ timer
    /\ timer' = FALSE
    /\ FlushCycle
    /\ UNCHANGED <<live, disk, mutex, outcome, disposal, failed, faults>>

\* Mutant: the flush cycle does not look for a commit made during the write.
NoReschedule(w) == UNCHANGED timer

\* The end of a write, as the call that owns it sees it: a commit made in the
\* meantime is scheduled.
Reschedule(w) == timer' = (timer \/ (pending /\ ~Disposed /\ writes = {w}))

\* The file has been replaced.  A durable caller publishes its copy, answers
\* and gives the mutex back.
WriteEnds(w) ==
    /\ writes' = writes \ {w}
    /\ disk' = w.content
    /\ Reschedule(w)
    /\ IF w.by = None
       THEN UNCHANGED <<live, mutex, outcome>>
       ELSE /\ live' = w.content
            /\ outcome' = [outcome EXCEPT ![w.by] = "written"]
            /\ mutex' = None
    /\ UNCHANGED <<pending, disposal, failed, faults>>

\* The delegate rejects, with the file replaced (releasing the file lock
\* failed) or not.  A flush only logs it; saveNow throws, and its caller
\* publishes nothing.
WriteFails(w) ==
    /\ faults.failures < MaxFailures
    /\ faults' = [faults EXCEPT !.failures = @ + 1]
    /\ writes' = writes \ {w}
    /\ disk' \in {disk, w.content}
    /\ failed' = [failed EXCEPT ![PathOf(w)] = @ \cup w.content]
    /\ Reschedule(w)
    /\ IF w.by = None
       THEN UNCHANGED <<mutex, outcome>>
       ELSE /\ outcome' = [outcome EXCEPT ![w.by] = "rejected"]
            /\ mutex' = None
    /\ UNCHANGED <<live, pending, disposal>>

-----------------------------------------------------------------------------
(* Shutdown and restart.                                                   *)

\* dispose: no more commits, then flush() up to its first await.
Dispose ==
    /\ disposal = "open"
    /\ timer' = FALSE
    /\ FlushCycle
    /\ disposal' = IF Flushing \/ pending THEN "flushing" ELSE "done"
    /\ UNCHANGED <<live, disk, mutex, outcome, failed, faults>>

\* flush() goes around its loop.  A saveNow that waits has awaited the same
\* write for longer, so it resumes first.
DisposeResumes ==
    /\ disposal = "flushing" /\ ~Flushing /\ mutex = None
    /\ FlushCycle
    /\ disposal' = IF pending THEN "flushing" ELSE "done"
    /\ UNCHANGED <<live, disk, timer, mutex, outcome, failed, faults>>

\* The daemon dies, or exits after a shutdown, and starts from the file.  The
\* write in progress replaced it as a whole or left it alone.
Restart ==
    /\ faults.crashes < MaxCrashes
    /\ faults' = [faults EXCEPT !.crashes = @ + 1]
    /\ disk' \in {disk} \cup {w.content : w \in writes}
    /\ live' = disk'
    /\ pending' = FALSE
    /\ timer' = FALSE
    /\ writes' = {}
    /\ mutex' = None
    /\ outcome' = [m \in Mutation |->
                      IF m = mutex THEN "rejected" ELSE outcome[m]]
    /\ disposal' = "open"
    /\ failed' = [p \in Paths |-> {}]

-----------------------------------------------------------------------------
WriteSettles == \E w \in writes : WriteEnds(w) \/ WriteFails(w)
Resumes == \E m \in Durable : SaveNowResumes(m)

Next ==
    \/ \E m \in Debounced : Save(m)
    \/ \E m \in Durable :
          SaveNow(m) \/ SaveNowRejected(m) \/ SaveNowResumes(m)
    \/ TimerFires
    \/ \E w \in writes : WriteEnds(w) \/ WriteFails(w)
    \/ Dispose
    \/ DisposeResumes
    \/ Restart

Spec == Init /\ [][Next]_vars

\* Timers fire, file operations end and what awaited them resumes.  Nothing
\* says that anyone ever commits, disposes or crashes.
FairSpec ==
    /\ Spec
    /\ WF_vars(TimerFires) /\ WF_vars(WriteSettles)
    /\ WF_vars(Resumes) /\ WF_vars(DisposeResumes)

-----------------------------------------------------------------------------
(* Properties.                                                             *)

\* A transition whose saveNow resolved is in state.json from then on, whatever
\* is flushed later and however often the daemon dies.
WrittenIsOnDisk == \A m \in Durable : outcome[m] = "written" => m \in disk

\* "orchestration only exposes a task transition in memory after it has been
\* persisted": nobody can act on a durable mutation the file lacks.
ExposedIsOnDisk == live \cap Durable \subseteq disk

\* A commit that save() accepted is still going to be written, unless a write
\* of it failed: it waits for a timer, a write in progress or shutdown's flush,
\* or it is part of a write in progress or of the one saveNow is about to make.
AcceptedNotForgotten ==
    /\ pending => timer \/ Flushing \/ disposal = "flushing"
    /\ \A m \in live \ disk :
          \/ outcome[m] = "rejected"
          \/ pending
          \/ mutex # None
          \/ \E w \in writes : m \in w.content
          \/ \E p \in Paths : m \in failed[p]

\* Once dispose() has resolved, nothing is left to a timer or to a flush, and
\* every accepted commit is on disk, failed visibly, or is in the hands of a
\* saveNow whose caller is still waiting for its answer.
ShutdownOwesNothing ==
    disposal = "done" =>
        /\ ~pending /\ ~timer /\ \A w \in writes : w.by # None
        /\ \A m \in live \ disk :
              \/ outcome[m] = "rejected"
              \/ mutex # None
              \/ \E p \in Paths : m \in failed[p]

\* No write, failed write or crash takes an acknowledged mutation off the disk.
DiskNeverRegresses ==
    [][\A m \in disk : outcome[m] \in {"accepted", "written"} => m \in disk']_vars

\* An accepted commit reaches the disk, unless a write of it fails or the
\* daemon dies first.
CommitReachesDisk ==
    \A m \in Debounced :
        outcome[m] = "accepted" ~>
            \/ m \in disk
            \/ m \notin live
            \/ \E p \in Paths : m \in failed[p]

\* A shutdown that waits for the last write ends.
DisposeEnds == disposal = "flushing" ~> disposal # "flushing"

-----------------------------------------------------------------------------
(* The inductive invariant behind the safety properties.                   *)

Acknowledged(m) == outcome[m] \in {"accepted", "written"}

\* A mutation nobody has been told about is nowhere but in its own write.
FreshIsNowhere ==
    \A m \in Mutation :
        outcome[m] = "new" =>
            /\ m \notin live
            /\ m \notin disk
            /\ \A w \in writes : m \in w.content => w.by = m

\* What is acknowledged and on disk is in memory.
LiveIsNewest == \A m \in disk : Acknowledged(m) => m \in live

\* A write in progress drops nothing that matters, whenever it lands.
WritesAreCurrent ==
    \A w \in writes :
        /\ \A m \in disk : Acknowledged(m) => m \in w.content
        /\ live \cap Durable \subseteq w.content
        /\ w.by = None => w.content \subseteq live
        /\ w.by # None => mutex = w.by /\ w.content = live \cup {w.by}

MutexIsFresh == mutex # None => outcome[mutex] = "new"

DisposedIsDisarmed ==
    /\ Disposed => ~timer
    /\ disposal = "done" => ~pending /\ \A w \in writes : w.by # None

StoreInv ==
    /\ TypeOK
    /\ WrittenIsOnDisk
    /\ ExposedIsOnDisk
    /\ FreshIsNowhere
    /\ LiveIsNewest
    /\ WritesAreCurrent
    /\ MutexIsFresh
    /\ DisposedIsDisarmed
    /\ AcceptedNotForgotten
=============================================================================
