------------------------ MODULE WorkerBindingsProofs ------------------------
(***************************************************************************)
(* Safety of worker sessions for any finite set of tasks, any assignment   *)
(* of worker sessions, any cap, and any number of restarts and             *)
(* reconciliations.                                                        *)
(***************************************************************************)
EXTENDS WorkerBindings, FiniteSetTheorems, TLAPS

\* Only t's record, its start and its place in the pending maps change.
Alone(t) ==
    \A u \in Task :
        u # t =>
            /\ start'[u] = start[u] /\ task'[u] = task[u]
            /\ u \in reserved' <=> u \in reserved
            /\ u \in slots' <=> u \in slots
            /\ u \in turn' <=> u \in turn
            /\ u \in stops' <=> u \in stops
            /\ u \in returned' <=> u \in returned

\* What the new start record and the new lease have to do with each other.
LeaseFollows(t) ==
    \/ lease' = lease /\ (start'[t].held <=> start[t].held)
    \/ lease' = lease \cup {W(t)} /\ W(t) \notin lease /\ start'[t].held
    \/ lease' = lease \ {W(t)} /\ start[t].held /\ ~start'[t].held

-----------------------------------------------------------------------------
(* Steps of one start.                                                     *)

\* The other tasks do not notice a step of the start of t.
LEMMA OthersKeep ==
    ASSUME BindingInv, NEW t \in Task, Alone(t),
           HasShape(t)', StartsFirst(t)', HoldsClaims(t)',
           \A u \in Task : u # t => (Drained(u)' <=> Drained(u))
    PROVE  StartsHaveShape' /\ StartsComeFirst' /\ ClaimsAreHeld'
<1>1. ASSUME NEW u \in Task, u # t
      PROVE  HasShape(u)' /\ StartsFirst(u)' /\ HoldsClaims(u)'
  <2>1. HasShape(u) /\ StartsFirst(u) /\ HoldsClaims(u)
    BY DEF BindingInv, StartsHaveShape, StartsComeFirst, ClaimsAreHeld
  <2>2. HasShape(u)'
    BY <1>1, <2>1 DEF HasShape, Alone, At, By
  <2>3. StartsFirst(u)'
    BY <1>1, <2>1 DEF StartsFirst, Recorded, Alone, At, By, Is
  <2>4. HoldsClaims(u)'
    BY <1>1, <2>1 DEF HoldsClaims, Alone, At, By
  <2> QED
    BY <2>2, <2>3, <2>4
<1> QED
  BY <1>1 DEF StartsHaveShape, StartsComeFirst, ClaimsAreHeld

\* The lease of a worker follows the start record of the one who takes it or
\* gives it back.
LEMMA LeaseStep ==
    ASSUME BindingInv, NEW t \in Task, LeaseFollows(t), retire' = retire,
           \A u \in Task : u # t => start'[u] = start[u]
    PROVE  LeaseIsHeld'
<1>1. \A w \in Worker : Holders(w)' \ {t} = Holders(w) \ {t}
  BY DEF Holders
<1>2. W(t) \in Worker
  BY KindsDisjoint DEF W
<1>3. CASE lease' = lease /\ (start'[t].held <=> start[t].held)
  <2>1. \A w \in Worker : Holders(w)' = Holders(w)
    BY <1>3 DEF Holders
  <2> QED
    BY <1>3, <2>1 DEF BindingInv, LeaseIsHeld
<1>4. CASE lease' = lease \cup {W(t)} /\ W(t) \notin lease /\ start'[t].held
  <2>1. Holders(W(t)) = {} /\ retire[W(t)].step = "none"
    BY <1>2, <1>4 DEF BindingInv, LeaseIsHeld
  <2>2. Holders(W(t))' = {t}
    BY <1>1, <1>2, <1>4, <2>1 DEF Holders
  <2>3. \A w \in Worker : w # W(t) => Holders(w)' = Holders(w)
    BY <1>1 DEF Holders
  <2> QED
    BY <1>4, <2>1, <2>2, <2>3 DEF BindingInv, LeaseIsHeld
<1>5. CASE lease' = lease \ {W(t)} /\ start[t].held /\ ~start'[t].held
  <2>1. t \in Holders(W(t))
    BY <1>5 DEF Holders
  <2>2. Holders(W(t)) = {t} /\ retire[W(t)].step = "none"
    BY <1>2, <2>1 DEF BindingInv, LeaseIsHeld
  <2>3. Holders(W(t))' = {}
    BY <1>1, <1>2, <1>5, <2>2 DEF Holders
  <2>4. \A w \in Worker : w # W(t) => Holders(w)' = Holders(w)
    BY <1>1 DEF Holders
  <2> QED
    BY <1>5, <2>2, <2>3, <2>4 DEF BindingInv, LeaseIsHeld
<1> QED
  BY <1>3, <1>4, <1>5 DEF LeaseFollows

\* A parallel task has its worker session to itself.
LEMMA OwnWorkerFacts ==
    ASSUME NEW t \in Task, NEW u \in Parallel, u # t
    PROVE  u \in Task /\ W(u) \in Worker /\ W(u) # W(t)
BY KindsDisjoint, OwnWorker DEF W

\* What a step of the start of t has to show.
LEMMA StartKeeps ==
    ASSUME BindingInv, NEW t \in Task, Alone(t), LeaseFollows(t),
           start' \in [Task -> StartRecord], task' \in [Task -> TaskRecord],
           binding' \in [Worker -> 0..MaxIdentities],
           \A w \in Worker : w # W(t) => binding'[w] = binding[w],
           owner' \in [Worker -> SUBSET (0..MaxIdentities)],
           {reserved', slots', turn'} \subseteq SUBSET Task,
           UNCHANGED <<retire, cleaning, recon, stops, returned>>,
           HasShape(t)', StartsFirst(t)', HoldsClaims(t)',
           t \in Parallel => HasFreshName(t)'
    PROVE  BindingInv'
<1>1. TypeOK'
  <2>1. lease' \subseteq Worker
    BY KindsDisjoint DEF BindingInv, TypeOK, LeaseFollows, W
  <2> QED
    BY <2>1 DEF BindingInv, TypeOK
<1>2. LeaseIsHeld'
  BY LeaseStep DEF Alone
<1>3. StartsHaveShape' /\ StartsComeFirst' /\ ClaimsAreHeld'
  BY OthersKeep DEF Drained
<1>4. NamesAreFresh'
  <2>1. ASSUME NEW u \in Parallel, u # t PROVE HasFreshName(u)'
    <3>1. u \in Task /\ W(u) \in Worker /\ W(u) # W(t)
      BY <2>1, OwnWorkerFacts
    <3> QED
      BY <2>1, <3>1 DEF BindingInv, NamesAreFresh, HasFreshName, Alone, At, Is, W
  <2> QED
    BY <2>1 DEF NamesAreFresh
<1>5. CallsAreApart'
  BY DEF BindingInv, CallsAreApart
<1> QED
  BY <1>1, <1>2, <1>3, <1>4, <1>5 DEF BindingInv

-----------------------------------------------------------------------------
(* The steps up to the record of a task.                                   *)

\* What the invariant says of one task.
LEMMA OneTask ==
    ASSUME BindingInv, NEW t \in Task
    PROVE  /\ start \in [Task -> StartRecord] /\ start[t] \in StartRecord
           /\ task \in [Task -> TaskRecord] /\ task[t] \in TaskRecord
           /\ binding \in [Worker -> 0..MaxIdentities]
           /\ owner \in [Worker -> SUBSET (0..MaxIdentities)]
           /\ {reserved, slots, turn, stops, returned} \subseteq SUBSET Task
           /\ HasShape(t) /\ StartsFirst(t) /\ HoldsClaims(t)
           /\ t \in Parallel => HasFreshName(t)
           /\ W(t) \in Worker
BY KindsDisjoint
   DEF BindingInv, TypeOK, StartsHaveShape, StartsComeFirst, ClaimsAreHeld,
       NamesAreFresh, W

\* A change of the start record of t, of its status, of its binding.
LEMMA StartChanges ==
    ASSUME BindingInv, NEW t \in Task, NEW r \in StartRecord,
           start' = [start EXCEPT ![t] = r]
    PROVE  /\ start' \in [Task -> StartRecord] /\ start'[t] = r
           /\ \A u \in Task : u # t => start'[u] = start[u]
BY OneTask

\* A new status leaves the rest of the record, and the other tasks, alone.
LEMMA StatusChanges ==
    ASSUME BindingInv, NEW t \in Task, NEW s \in Status, StatusOf(t, s)
    PROVE  /\ task' \in [Task -> TaskRecord]
           /\ task'[t].status = s
           /\ task'[t].stop = task[t].stop /\ task'[t].review = task[t].review
           /\ task'[t].answered = task[t].answered
           /\ \A u \in Task : u # t => task'[u] = task[u]
BY OneTask DEF StatusOf, TaskRecord

\* A new binding leaves those of the other workers alone.
LEMMA BindingChanges ==
    ASSUME BindingInv, NEW t \in Task, NEW l \in 0..MaxIdentities, Bind(t, l)
    PROVE  /\ binding' \in [Worker -> 0..MaxIdentities]
           /\ \A w \in Worker : w # W(t) => binding'[w] = binding[w]
BY OneTask DEF Bind

\* What a start that begins looks like.
LEMMA BeginFacts ==
    ASSUME BindingInv, NEW t \in Task, NEW k, NEW s, Begin(t, k, s),
           k \in {"none", "human", "approve", "propose", "rpc", "drain"}, s \in Step
    PROVE  /\ start' \in [Task -> StartRecord]
           /\ start'[t].step = s /\ start'[t].kind = k
           /\ ~start'[t].held /\ start'[t].why = "none"
           /\ \A u \in Task : u # t => start'[u] = start[u]
<1> DEFINE r == Started(k, s, 0, FALSE)
<1>1. r \in StartRecord /\ r.step = s /\ r.kind = k /\ ~r.held /\ r.why = "none"
  BY BindingBounds DEF Started, StartRecord
<1>2. start' = [start EXCEPT ![t] = r]
  BY DEF Begin
<1> HIDE DEF r
<1> QED
  BY <1>1, <1>2, StartChanges

\* A start that goes to its next step keeps the rest of its record.
LEMMA GotoFacts ==
    ASSUME BindingInv, NEW t \in Task, NEW s \in Step, Goto(t, s)
    PROVE  /\ start' \in [Task -> StartRecord]
           /\ start'[t].step = s /\ start'[t].kind = start[t].kind
           /\ start'[t].held = start[t].held /\ start'[t].why = start[t].why
           /\ \A u \in Task : u # t => start'[u] = start[u]
<1> DEFINE r == [start[t] EXCEPT !.step = s]
<1>1. /\ r \in StartRecord /\ r.step = s /\ r.kind = start[t].kind
      /\ r.held = start[t].held /\ r.why = start[t].why
  BY OneTask DEF StartRecord
<1>2. start' = [start EXCEPT ![t] = r]
  BY DEF Goto
<1> HIDE DEF r
<1> QED
  BY <1>1, <1>2, StartChanges

\* A start that is over.
LEMMA FinishFacts ==
    ASSUME BindingInv, NEW t \in Task, Finish(t)
    PROVE  /\ start' \in [Task -> StartRecord]
           /\ start'[t].step = "idle" /\ start'[t].kind = "none"
           /\ ~start'[t].held /\ start'[t].why = "none"
           /\ \A u \in Task : u # t => start'[u] = start[u]
<1>1. /\ NoStart \in StartRecord /\ NoStart.step = "idle" /\ NoStart.kind = "none"
      /\ ~NoStart.held /\ NoStart.why = "none"
  BY BindingBounds DEF NoStart, Started, StartRecord, Step
<1> QED
  BY <1>1, StartChanges DEF Finish

\* A slot is taken by a start that will give it back, or the task is queued.
LEMMA GateKeeps ==
    ASSUME BindingInv, NEW t \in Task, Gate(t)
    PROVE  BindingInv'
<1> USE DEF Gate
<1>0. /\ start[t].step = "idle" /\ start[t].kind = "none" /\ ~start[t].held
      /\ t \in Parallel /\ t \notin reserved /\ t \notin slots
      /\ HasFreshName(t) /\ ~Drained(t)
  BY OneTask DEF Gated, At, By, HasShape, HoldsClaims, Reserving
<1>1. CASE CanStart
  <2>1. RequestKind(t) \in {"human", "approve", "rpc"}
    BY DEF Gated, RequestKind, KindOf
  <2>2. /\ start' \in [Task -> StartRecord]
        /\ start'[t].step = "reserve" /\ start'[t].kind = RequestKind(t)
        /\ ~start'[t].held /\ start'[t].why = "none"
        /\ \A u \in Task : u # t => start'[u] = start[u]
    BY <1>1, <2>1, BeginFacts DEF Step
  <2>3. Alone(t) /\ LeaseFollows(t)
    BY <1>0, <1>1, <2>2 DEF Alone, LeaseFollows
  <2>4. HasShape(t)'
    BY <1>0, <2>1, <2>2 DEF HasShape, At, By
  <2>5. StartsFirst(t)'
    BY <1>0, <1>1, <2>1, <2>2, OneTask
       DEF StartsFirst, Recorded, Unrecorded, At, By, Is, Waiting, RequestKind, KindOf, Fetched
  <2>6. HoldsClaims(t)'
    BY <1>0, <1>1, <2>1, <2>2, OneTask DEF HoldsClaims, At, By, Drained, Reserving
  <2>7. HasFreshName(t)'
    BY <1>0, <1>1, <2>2 DEF HasFreshName, At, Is
  <2> QED
    BY <1>1, <2>2, <2>3, <2>4, <2>5, <2>6, <2>7, OneTask, StartKeeps
<1>2. CASE ~CanStart
  <2>1. /\ task' \in [Task -> TaskRecord]
        /\ task'[t].status = "queued"
        /\ task'[t].stop = task[t].stop /\ task'[t].review = task[t].review
        /\ task'[t].answered = task[t].answered
        /\ \A u \in Task : u # t => task'[u] = task[u]
    BY <1>2, StatusChanges DEF Status
  <2>3. Alone(t) /\ LeaseFollows(t)
    BY <1>0, <1>2, <2>1 DEF Alone, LeaseFollows
  <2>4. HasShape(t)'
    BY <1>2, OneTask DEF HasShape, At, By
  <2>5. StartsFirst(t)'
    BY <1>0, <1>2, <2>1, OneTask
       DEF StartsFirst, Recorded, Unrecorded, At, By, Is, Waiting, Fetched
  <2>6. HoldsClaims(t)'
    BY <1>0, <1>2, OneTask DEF HoldsClaims, At, By, Drained, Reserving
  <2>7. HasFreshName(t)'
    BY <2>1 DEF HasFreshName, Is
  <2> QED
    BY <1>2, <2>1, <2>3, <2>4, <2>5, <2>6, <2>7, OneTask, StartKeeps
<1> QED
  BY <1>1, <1>2

\* A first request under a parallel task's name is never refused its session.
LEMMA FreshIsAvailable ==
    ASSUME BindingInv, NEW t \in Parallel, At(t, {"reserve"}), Is(t, "none")
    PROVE  Available(t)
<1>1. t \in Task /\ W(t) \in Worker /\ HasFreshName(t) /\ HasShape(t)
  BY KindsDisjoint, OneTask
<1>2. \A u \in Task : W(u) = W(t) => u = t
  BY <1>1, OwnWorker DEF W
<1>3. Holders(W(t)) = {}
  BY <1>1, <1>2 DEF Holders, HasShape, At
<1>4. W(t) \notin lease
  BY <1>1, <1>3 DEF BindingInv, LeaseIsHeld, HasFreshName, At
<1> QED
  BY <1>1, <1>2, <1>4, OneTask DEF Available, OwnedByOther

\* A reservation is made by a start that will give it back; a refused one ends it.
LEMMA ReserveKeeps ==
    ASSUME BindingInv, NEW t \in Task, Reserve(t)
    PROVE  BindingInv'
<1> USE DEF Reserve
<1> DEFINE kind == IF At(t, {"reserve"}) THEN start[t].kind ELSE RequestKind(t)
<1>0. /\ ~start[t].held /\ ~Drained(t) /\ t \notin reserved
      /\ t \notin turn /\ t \notin returned /\ ~task[t].answered /\ ~task[t].review
      /\ task[t].status \notin {"blocked", "running", "queued"}
  BY OneTask
     DEF Fetched, At, By, Is, HasShape, StartsFirst, HoldsClaims, Reserving, Waiting, Recorded
<1>1. /\ kind \in {"human", "approve", "propose", "rpc"}
      /\ t \in slots <=> t \in Parallel /\ kind # "propose"
      /\ t \in stops => ~Is(t, "none") /\ ~Is(t, "needs_confirmation")
      /\ kind # "approve" => Is(t, "none")
  BY OneTask
     DEF Gated, Fetched, Unrecorded, RequestKind, KindOf, At, By, HasShape, StartsFirst, HoldsClaims, Reserving
<1> HIDE DEF kind
<1>2. CASE Available(t)
  <2>1. PICK s \in {"stage", "persist"} :
            /\ s = "stage" => kind \in {"human", "approve"}
            /\ Begin(t, kind, s)
    BY <1>2 DEF kind
  <2>2. /\ start' \in [Task -> StartRecord]
        /\ start'[t].step = s /\ start'[t].kind = kind
        /\ ~start'[t].held /\ start'[t].why = "none"
        /\ \A u \in Task : u # t => start'[u] = start[u]
    BY <1>1, <2>1, BeginFacts DEF Step, Reserving
  <2>3. reserved' = reserved \cup {t} /\ slots' = slots
    BY <1>2
  <2>4. Alone(t) /\ LeaseFollows(t)
    BY <1>0, <2>2, <2>3 DEF Alone, LeaseFollows
  <2>5. HasShape(t)'
    BY <1>1, <2>1, <2>2 DEF HasShape, At, By
  <2>6. StartsFirst(t)'
    BY <1>0, <1>1, <2>1, <2>2 DEF StartsFirst, Recorded, Unrecorded, At, By, Is, Waiting
  <2>7. HoldsClaims(t)'
    BY <1>0, <1>1, <2>1, <2>2, <2>3 DEF HoldsClaims, At, By, Drained, Reserving
  <2>8. HasFreshName(t)'
    BY <2>1, <2>2 DEF HasFreshName, At
  <2> QED
    BY <2>2, <2>3, <2>4, <2>5, <2>6, <2>7, <2>8, OneTask, StartKeeps
<1>3. CASE ~Available(t)
  <2>1. /\ At(t, {"reserve"}) /\ t \in Parallel /\ kind = start[t].kind
        /\ reserved' = reserved /\ Finish(t)
        /\ slots' = IF kind = "approve" THEN slots \ {t} ELSE slots
    BY <1>3, OneTask DEF kind, HasShape
  <2>2. kind = "approve" /\ ~Is(t, "none")
    BY <1>3, <2>1, OneTask, FreshIsAvailable DEF HasShape, StartsFirst, Unrecorded, At, By
  <2>3. /\ start' \in [Task -> StartRecord]
        /\ start'[t].step = "idle" /\ start'[t].kind = "none"
        /\ ~start'[t].held /\ start'[t].why = "none"
        /\ \A u \in Task : u # t => start'[u] = start[u]
    BY <2>1, FinishFacts
  <2>4. Alone(t) /\ LeaseFollows(t)
    BY <1>0, <2>1, <2>3 DEF Alone, LeaseFollows
  <2>5. HasShape(t)'
    BY <2>3 DEF HasShape, At, By
  <2>6. StartsFirst(t)'
    BY <1>0, <1>1, <2>3 DEF StartsFirst, Recorded, Unrecorded, At, By, Is
  <2>7. HoldsClaims(t)'
    BY <1>0, <2>1, <2>2, <2>3 DEF HoldsClaims, At, By, Drained, Reserving
  <2>8. HasFreshName(t)'
    BY <2>2 DEF HasFreshName, Is
  <2> QED
    BY <2>1, <2>3, <2>4, <2>5, <2>6, <2>7, <2>8, OneTask, StartKeeps
<1> QED
  BY <1>2, <1>3

\* A start binds a real identity.
LEMMA StagedIsIdentity ==
    ASSUME BindingInv, NEW t \in Task
    PROVE  Staged(t) \subseteq 0..MaxIdentities
BY OneTask, BindingBounds DEF Staged, Fresh, Identity

\* A step between two steps of a caller who holds the reservation, at which
\* the task is not recorded.
LEMMA ReservedMoves ==
    ASSUME BindingInv, NEW t \in Task,
           At(t, Reserving), By(t, {"human", "approve", "rpc", "propose"}),
           ~Recorded(t), LeaseFollows(t),
           start' \in [Task -> StartRecord],
           start'[t].step \in Reserving \ {"commit"}, start'[t].kind = start[t].kind,
           start'[t].step \in Unrecorded => At(t, Unrecorded),
           start'[t].why = start[t].why, HasShape(t)',
           \A u \in Task : u # t => start'[u] = start[u],
           binding' \in [Worker -> 0..MaxIdentities],
           \A w \in Worker : w # W(t) => binding'[w] = binding[w],
           owner' \in [Worker -> SUBSET (0..MaxIdentities)],
           UNCHANGED <<task, reserved, slots, turn, retire, cleaning, recon, stops,
                       returned>>
    PROVE  BindingInv'
<1>1. Alone(t)
  BY DEF Alone
<1>2. StartsFirst(t)'
  BY OneTask DEF StartsFirst, Recorded, Unrecorded, At, By, Is, Waiting, Reserving
<1>3. HoldsClaims(t)'
  BY OneTask DEF HoldsClaims, At, By, Drained, Reserving
<1>4. HasFreshName(t)'
  BY DEF HasFreshName, At, Reserving
<1> QED
  BY <1>1, <1>2, <1>3, <1>4, OneTask, StartKeeps

\* The shell is bound, or staging is refused and the start is undone.
LEMMA StageKeeps ==
    ASSUME BindingInv, NEW t \in Task, Stage(t)
    PROVE  BindingInv'
<1> USE DEF Stage
<1>0. /\ start[t].step = "stage" /\ start[t].kind \in {"human", "approve"}
      /\ ~start[t].held /\ start[t].why = "none" /\ At(t, Reserving) /\ ~Recorded(t)
      /\ By(t, {"human", "approve", "rpc", "propose"})
      /\ At(t, Unrecorded)
  BY OneTask DEF HasShape, At, By, Reserving, Recorded, Unrecorded
<1>1. ASSUME NEW l \in Staged(t), Bind(t, l),
             start' = [start EXCEPT ![t] =
                 [@ EXCEPT !.step = "ensure", !.lid = l, !.first = (binding[W(t)] = 0)]]
      PROVE  BindingInv'
  <2> DEFINE r == [start[t] EXCEPT !.step = "ensure", !.lid = l,
                                   !.first = (binding[W(t)] = 0)]
  <2>1. l \in 0..MaxIdentities
    BY StagedIsIdentity
  <2>2. /\ r \in StartRecord /\ r.step = "ensure" /\ r.kind = start[t].kind
        /\ r.held = start[t].held /\ r.why = start[t].why
    BY <2>1, OneTask DEF StartRecord, Step, Reserving
  <2>3. start' = [start EXCEPT ![t] = r]
    BY <1>1
  <2> HIDE DEF r
  <2>4. /\ start' \in [Task -> StartRecord]
        /\ start'[t].step = "ensure" /\ start'[t].kind = start[t].kind
        /\ ~start'[t].held /\ start'[t].why = start[t].why
        /\ \A u \in Task : u # t => start'[u] = start[u]
    BY <1>0, <2>2, <2>3, StartChanges
  <2>5. HasShape(t)' /\ LeaseFollows(t)
    BY <1>0, <2>4, OneTask DEF HasShape, At, By, LeaseFollows
  <2>6. start'[t].step \in Reserving \ {"commit"}
    BY <2>4 DEF Reserving
  <2>7. /\ binding' \in [Worker -> 0..MaxIdentities]
        /\ \A w \in Worker : w # W(t) => binding'[w] = binding[w]
    BY <1>1, <2>1, BindingChanges
  <2> QED
    BY <1>0, <2>4, <2>5, <2>6, <2>7, OneTask, ReservedMoves
<1>2. ASSUME Goto(t, "undo"), UNCHANGED binding
      PROVE  BindingInv'
  <2>4. /\ start' \in [Task -> StartRecord]
        /\ start'[t].step = "undo" /\ start'[t].kind = start[t].kind
        /\ ~start'[t].held /\ start'[t].why = start[t].why
        /\ \A u \in Task : u # t => start'[u] = start[u]
    BY <1>0, <1>2, GotoFacts DEF Step, Reserving
  <2>5. HasShape(t)' /\ LeaseFollows(t)
    BY <1>0, <2>4, OneTask DEF HasShape, At, By, LeaseFollows
  <2>6. start'[t].step \in Reserving \ {"commit"}
    BY <2>4 DEF Reserving
  <2> QED
    BY <1>0, <1>2, <2>4, <2>5, <2>6, OneTask, ReservedMoves
<1> QED
  BY <1>1, <1>2

\* The catch block of a start: it goes on to the owner's release under the
\* lease, to the restore, or keeps the shell.
LEMMA RollBackFacts ==
    ASSUME BindingInv, NEW t \in Task, RollBack(t), ~start[t].held,
           By(t, {"human", "approve", "drain"})
    PROVE  /\ start' \in [Task -> StartRecord]
           /\ start'[t].step \in {"teardown", "restore"}
                 \cup (IF By(t, {"drain"}) THEN {} ELSE {"undo"})
           /\ start'[t].kind = start[t].kind /\ start'[t].why = start[t].why
           /\ start'[t].held <=> start'[t].step = "teardown"
           /\ \A u \in Task : u # t => start'[u] = start[u]
           /\ LeaseFollows(t)
<1>1. CASE ~start[t].first
  BY <1>1, GotoFacts DEF RollBack, Step, Reserving, LeaseFollows
<1>2. CASE start[t].first /\ W(t) \in lease
  <2> DEFINE s == IF By(t, {"drain"}) THEN "restore" ELSE "undo"
             r == [start[t] EXCEPT !.step = s, !.keep = TRUE]
  <2>1. /\ r \in StartRecord /\ r.step = s /\ r.kind = start[t].kind
        /\ r.why = start[t].why /\ r.held = start[t].held
    BY OneTask DEF StartRecord, Step, Reserving
  <2>2. start' = [start EXCEPT ![t] = r] /\ lease' = lease
    BY <1>2 DEF RollBack, By
  <2> HIDE DEF r
  <2> QED
    BY <1>2, <2>1, <2>2, StartChanges DEF LeaseFollows
<1>3. CASE start[t].first /\ W(t) \notin lease
  <2> DEFINE r == [start[t] EXCEPT !.step = "teardown", !.held = TRUE]
  <2>1. /\ r \in StartRecord /\ r.step = "teardown" /\ r.kind = start[t].kind
        /\ r.why = start[t].why /\ r.held
    BY OneTask DEF StartRecord, Step, Reserving
  <2>2. start' = [start EXCEPT ![t] = r] /\ lease' = lease \cup {W(t)}
    BY <1>3 DEF RollBack
  <2> HIDE DEF r
  <2> QED
    BY <1>3, <2>1, <2>2, StartChanges DEF LeaseFollows
<1> QED
  BY <1>1, <1>2, <1>3

\* The identities that own an engine session stay well-typed.
LEMMA EnsuredFacts ==
    ASSUME BindingInv, NEW t \in Task, NEW l \in 0..MaxIdentities,
           NEW grown \in BOOLEAN, Ensured(t, l, grown)
    PROVE  owner' \in [Worker -> SUBSET (0..MaxIdentities)]
BY OneTask DEF Ensured

\* A start that has not recorded its task is rolled back.
LEMMA RollBackKeeps ==
    ASSUME BindingInv, NEW t \in Task, RollBack(t), At(t, {"ensure", "persist"}),
           By(t, {"human", "approve"}),
           owner' \in [Worker -> SUBSET (0..MaxIdentities)],
           UNCHANGED <<task, binding, reserved, slots, turn, retire, cleaning, recon,
                       stops, returned>>
    PROVE  BindingInv'
<1>1. /\ ~start[t].held /\ start[t].why = "none" /\ At(t, Reserving) /\ ~Recorded(t)
      /\ By(t, {"human", "approve", "rpc", "propose"})
      /\ By(t, {"human", "approve", "drain"}) /\ ~By(t, {"drain"})
  BY OneTask DEF HasShape, At, By, Reserving, Recorded
<1>2. /\ start' \in [Task -> StartRecord]
      /\ start'[t].step \in {"teardown", "restore", "undo"}
      /\ start'[t].kind = start[t].kind /\ start'[t].why = start[t].why
      /\ start'[t].held <=> start'[t].step = "teardown"
      /\ \A u \in Task : u # t => start'[u] = start[u]
      /\ LeaseFollows(t)
  BY <1>1, RollBackFacts
<1>3. HasShape(t)'
  BY <1>1, <1>2 DEF HasShape, At, By
<1>4. start'[t].step \in Reserving \ {"commit"} /\ start'[t].step \notin Unrecorded
  BY <1>2 DEF Reserving, Unrecorded
<1> QED
  BY <1>1, <1>2, <1>3, <1>4, OneTask, ReservedMoves

\* The owner was ensured, or the roll-back begins.
LEMMA EnsureEndsKeeps ==
    ASSUME BindingInv, NEW t \in Task, EnsureEnds(t)
    PROVE  BindingInv'
<1> USE DEF EnsureEnds
<1>1. /\ ~start[t].held /\ start[t].why = "none" /\ At(t, Reserving) /\ ~Recorded(t)
      /\ By(t, {"human", "approve", "rpc", "propose"}) /\ At(t, Unrecorded)
      /\ start[t].lid \in 0..MaxIdentities
  BY OneTask DEF HasShape, At, By, Reserving, Recorded, Unrecorded, StartRecord
<1>2. CASE Ensured(t, start[t].lid, TRUE) /\ Goto(t, "persist") /\ UNCHANGED lease
  <2>1. owner' \in [Worker -> SUBSET (0..MaxIdentities)]
    BY <1>1, <1>2, EnsuredFacts
  <2>2. /\ start' \in [Task -> StartRecord]
        /\ start'[t].step = "persist" /\ start'[t].kind = start[t].kind
        /\ ~start'[t].held /\ start'[t].why = start[t].why
        /\ \A u \in Task : u # t => start'[u] = start[u]
    BY <1>1, <1>2, GotoFacts DEF Step, Reserving
  <2>3. HasShape(t)' /\ LeaseFollows(t)
    BY <1>1, <1>2, <2>2 DEF HasShape, At, By, LeaseFollows
  <2>4. start'[t].step \in Reserving \ {"commit"}
    BY <2>2 DEF Reserving
  <2> QED
    BY <1>1, <2>1, <2>2, <2>3, <2>4, OneTask, ReservedMoves
<1>3. ASSUME NEW grown \in BOOLEAN, Ensured(t, start[t].lid, grown), RollBack(t)
      PROVE  BindingInv'
  <2>1. owner' \in [Worker -> SUBSET (0..MaxIdentities)]
    BY <1>1, <1>3, EnsuredFacts
  <2>2. At(t, {"ensure", "persist"})
    BY DEF At
  <2> QED
    BY <1>3, <2>1, <2>2, RollBackKeeps
<1> QED
  BY <1>2, <1>3

\* The task is recorded, and its start has only to give back what it holds.
LEMMA RecordKeeps ==
    ASSUME BindingInv, NEW t \in Task, At(t, {"persist"}),
           NEW s \in {"running", "needs_confirmation"}, StatusOf(t, s),
           s = "running" => By(t, {"human", "approve", "rpc"}),
           s = "needs_confirmation" => By(t, {"propose"}),
           start' \in [Task -> StartRecord],
           start'[t].step = "commit", start'[t].kind = start[t].kind,
           start'[t].why = start[t].why, start'[t].held <=> start[t].held,
           \A u \in Task : u # t => start'[u] = start[u],
           binding' \in [Worker -> 0..MaxIdentities],
           \A w \in Worker : w # W(t) => binding'[w] = binding[w],
           UNCHANGED <<reserved, slots, lease, owner, turn, retire, cleaning, recon,
                       stops, returned>>
    PROVE  BindingInv'
<1>1. /\ task' \in [Task -> TaskRecord] /\ task'[t].status = s
      /\ task'[t].stop = task[t].stop /\ task'[t].review = task[t].review
      /\ task'[t].answered = task[t].answered
      /\ \A u \in Task : u # t => task'[u] = task[u]
  BY StatusChanges DEF Status, Holding
<1>2. /\ t \notin turn /\ t \notin returned /\ ~task[t].answered /\ ~task[t].review
      /\ s = "needs_confirmation" => t \notin stops
      /\ ~start[t].held /\ start[t].why = "none"
  <2>1. ~start[t].held /\ start[t].why = "none"
    BY OneTask DEF HasShape, At
  <2> QED
    BY <2>1, OneTask DEF StartsFirst, HasShape, Unrecorded, At, By, Is
<1>3. Alone(t) /\ LeaseFollows(t)
  BY <1>1 DEF Alone, LeaseFollows
<1>4. HasShape(t)'
  BY <1>2, OneTask DEF HasShape, At, By
<1>5. StartsFirst(t)'
  BY <1>1, <1>2 DEF StartsFirst, Recorded, Unrecorded, At, By, Is, Waiting
<1>6. HoldsClaims(t)'
  BY OneTask DEF HoldsClaims, At, By, Drained, Reserving
<1>7. HasFreshName(t)'
  BY DEF HasFreshName, At
<1> QED
  BY <1>1, <1>3, <1>4, <1>5, <1>6, <1>7, OneTask, StartKeeps

\* The task is recorded by the start that reserved its session, or it is rolled back.
LEMMA PersistKeeps ==
    ASSUME BindingInv, NEW t \in Task, Persist(t)
    PROVE  BindingInv'
<1> USE DEF Persist
<1>1. /\ ~start[t].held /\ start[t].why = "none" /\ At(t, Reserving) /\ ~Recorded(t)
      /\ At(t, {"persist"}) /\ At(t, {"ensure", "persist"})
  BY OneTask DEF HasShape, At, Reserving, Recorded, By
<1>2. ASSUME NEW s \in {"running", "needs_confirmation"}, StatusOf(t, s),
             s = "running" => By(t, {"human", "approve", "rpc"}),
             s = "needs_confirmation" => By(t, {"propose"}),
             Goto(t, "commit"), UNCHANGED <<binding, lease>>
      PROVE  BindingInv'
  <2>1. /\ start' \in [Task -> StartRecord]
        /\ start'[t].step = "commit" /\ start'[t].kind = start[t].kind
        /\ start'[t].held = start[t].held /\ start'[t].why = start[t].why
        /\ \A u \in Task : u # t => start'[u] = start[u]
    BY <1>2, GotoFacts DEF Step, Reserving
  <2> QED
    BY <1>1, <1>2, <2>1, OneTask, RecordKeeps
<1>3. ASSUME By(t, {"rpc"}), StatusOf(t, "running"), NEW l \in Staged(t), Bind(t, l),
             start' = [start EXCEPT ![t] =
                 [@ EXCEPT !.step = "commit", !.lid = l, !.first = (binding[W(t)] = 0)]],
             UNCHANGED lease
      PROVE  BindingInv'
  <2> DEFINE r == [start[t] EXCEPT !.step = "commit", !.lid = l,
                                   !.first = (binding[W(t)] = 0)]
  <2>1. l \in 0..MaxIdentities
    BY StagedIsIdentity
  <2>2. /\ r \in StartRecord /\ r.step = "commit" /\ r.kind = start[t].kind
        /\ r.held = start[t].held /\ r.why = start[t].why
    BY <2>1, OneTask DEF StartRecord, Step, Reserving
  <2>3. start' = [start EXCEPT ![t] = r]
    BY <1>3
  <2> HIDE DEF r
  <2>4. /\ start' \in [Task -> StartRecord]
        /\ start'[t].step = "commit" /\ start'[t].kind = start[t].kind
        /\ start'[t].held = start[t].held /\ start'[t].why = start[t].why
        /\ \A u \in Task : u # t => start'[u] = start[u]
    BY <2>2, <2>3, StartChanges
  <2>5. /\ binding' \in [Worker -> 0..MaxIdentities]
        /\ \A w \in Worker : w # W(t) => binding'[w] = binding[w]
    BY <1>3, <2>1, BindingChanges
  <2>6. By(t, {"human", "approve", "rpc"})
    BY <1>3 DEF By
  <2> QED
    BY <1>1, <1>3, <2>4, <2>5, <2>6, RecordKeeps
<1>4. ASSUME By(t, {"human", "approve"}), RollBack(t), UNCHANGED <<task, binding>>
      PROVE  BindingInv'
  BY <1>1, <1>4, OneTask, RollBackKeeps
<1>5. ASSUME By(t, {"rpc", "propose"}), Goto(t, "undo"), UNCHANGED <<task, binding, lease>>
      PROVE  BindingInv'
  <2>1. /\ start' \in [Task -> StartRecord]
        /\ start'[t].step = "undo" /\ start'[t].kind = start[t].kind
        /\ ~start'[t].held /\ start'[t].why = start[t].why
        /\ \A u \in Task : u # t => start'[u] = start[u]
    BY <1>1, <1>5, GotoFacts DEF Step, Reserving
  <2>2. HasShape(t)' /\ LeaseFollows(t)
    BY <1>1, <1>5, <2>1 DEF HasShape, At, By, LeaseFollows
  <2>3. start'[t].step \in Reserving \ {"commit"} /\ start'[t].step \notin Unrecorded
    BY <2>1 DEF Reserving, Unrecorded
  <2>4. By(t, {"human", "approve", "rpc", "propose"})
    BY <1>5 DEF By
  <2> QED
    BY <1>1, <1>5, <2>1, <2>2, <2>3, <2>4, OneTask, ReservedMoves
<1>6. /\ By(t, {"human", "approve"}) => By(t, {"human", "approve", "rpc"})
      /\ ~("running" = "needs_confirmation")
  BY DEF By
<1> QED
  BY <1>2, <1>3, <1>4, <1>5, <1>6

-----------------------------------------------------------------------------
(* The steps of a start that has recorded its task.                        *)

\* A step of a detached or a drained start to another of its steps.
LEMMA RecordedMoves ==
    ASSUME BindingInv, NEW t \in Task, Recorded(t), ~At(t, {"commit"}),
           LeaseFollows(t), start' \in [Task -> StartRecord],
           start'[t].kind = start[t].kind,
           start'[t].step \in {"ensuring", "look", "cancel", "caught", "claim",
                               "release", "settle", "teardown", "restore"},
           start'[t].why = "skip" => start[t].why = "skip" \/ ~Is(t, "running"),
           HasShape(t)',
           \A u \in Task : u # t => start'[u] = start[u],
           owner' \in [Worker -> SUBSET (0..MaxIdentities)],
           UNCHANGED <<task, binding, reserved, slots, turn, retire, cleaning, recon,
                       stops, returned>>
    PROVE  BindingInv'
<1>1. Alone(t)
  BY DEF Alone
<1>2. StartsFirst(t)'
  BY OneTask DEF StartsFirst, Recorded, Unrecorded, HasShape, At, By, Is, Waiting
<1>3. HoldsClaims(t)'
  BY OneTask DEF HoldsClaims, HasShape, Recorded, At, By, Drained, Reserving
<1>4. HasFreshName(t)'
  BY DEF HasFreshName, At
<1> QED
  BY <1>1, <1>2, <1>3, <1>4, OneTask, StartKeeps

\* A detached start is over: its turn is launched, or its task has ended.
LEMMA DetachedFinishes ==
    ASSUME BindingInv, NEW t \in Task, By(t, {"rpc"}),
           At(t, {"look", "cancel", "caught", "claim", "release", "settle"}),
           Finish(t), LeaseFollows(t),
           task' \in [Task -> TaskRecord],
           task'[t].status \in {task[t].status, "finished", "cancelled"},
           task'[t].review = task[t].review, task'[t].answered = task[t].answered,
           \A u \in Task : u # t => task'[u] = task[u],
           turn' = turn \/ turn' = turn \cup {t},
           binding' \in [Worker -> 0..MaxIdentities],
           \A w \in Worker : w # W(t) => binding'[w] = binding[w],
           owner' \in [Worker -> SUBSET (0..MaxIdentities)],
           UNCHANGED <<reserved, slots, retire, cleaning, recon, stops, returned>>
    PROVE  BindingInv'
<1>1. /\ start' \in [Task -> StartRecord]
      /\ start'[t].step = "idle" /\ start'[t].kind = "none"
      /\ ~start'[t].held /\ start'[t].why = "none"
      /\ \A u \in Task : u # t => start'[u] = start[u]
  BY FinishFacts
<1>2. Alone(t)
  BY <1>1 DEF Alone
<1>3. HasShape(t)'
  BY <1>1 DEF HasShape, At, By
<1>4. task'[t].status \notin Waiting
  BY OneTask DEF StartsFirst, Recorded, At, By, Waiting
<1>5. StartsFirst(t)'
  BY <1>1, <1>4, OneTask DEF StartsFirst, Recorded, Unrecorded, At, By, Is, Waiting
<1>6. HoldsClaims(t)'
  BY <1>1, OneTask DEF HoldsClaims, At, By, Drained, Reserving
<1>7. HasFreshName(t)'
  BY <1>4 DEF HasFreshName, Is, Waiting
<1>8. {reserved', slots', turn'} \subseteq SUBSET Task
  BY OneTask
<1> QED
  BY <1>1, <1>2, <1>3, <1>5, <1>6, <1>7, <1>8, OneTask, StartKeeps

\* A roll-back gives the lease back, whether the release was verified or not.
LEMMA TeardownEndsKeeps ==
    ASSUME BindingInv, NEW t \in Task, TeardownEnds(t)
    PROVE  BindingInv'
<1> USE DEF TeardownEnds
<1>1. /\ start[t].held /\ start[t].why = "none" /\ At(t, Reserving) /\ ~At(t, {"commit"})
      /\ start[t].kind \in {"human", "approve", "drain"}
      /\ start[t].lid \in 0..MaxIdentities
  BY OneTask DEF HasShape, At, Reserving, By, StartRecord
<1>2. PICK r \in StartRecord :
          /\ start' = [start EXCEPT ![t] = r]
          /\ r.step \in {"restore", "undo"} /\ r.kind = start[t].kind
          /\ ~r.held /\ r.why = start[t].why
          /\ start[t].kind = "drain" => r.step = "restore"
          /\ owner' \in [Worker -> SUBSET (0..MaxIdentities)]
  <2>1. CASE /\ owner' = [owner EXCEPT ![W(t)] = @ \ {start[t].lid}]
             /\ start' = [start EXCEPT ![t] = [@ EXCEPT !.step = "restore", !.held = FALSE]]
    <3> DEFINE q == [start[t] EXCEPT !.step = "restore", !.held = FALSE]
    <3>0. "restore" \in Step
      BY DEF Step, Reserving
    <3>1. /\ q \in StartRecord /\ q.step = "restore" /\ q.kind = start[t].kind
          /\ ~q.held /\ q.why = start[t].why
      BY <3>0, OneTask DEF StartRecord
    <3>2. start' = [start EXCEPT ![t] = q]
      BY <2>1
    <3>3. owner' \in [Worker -> SUBSET (0..MaxIdentities)]
      BY <2>1, OneTask
    <3> HIDE DEF q
    <3> QED
      BY <3>1, <3>2, <3>3
  <2>2. CASE /\ UNCHANGED owner
             /\ start' = [start EXCEPT ![t] =
                  [@ EXCEPT !.step = IF By(t, {"drain"}) THEN "restore" ELSE "undo",
                            !.keep = TRUE, !.held = FALSE]]
    <3> DEFINE next == IF By(t, {"drain"}) THEN "restore" ELSE "undo"
               q == [start[t] EXCEPT !.step = next, !.keep = TRUE, !.held = FALSE]
    <3>1. /\ next \in {"restore", "undo"} /\ next \in Step
          /\ start[t].kind = "drain" => next = "restore"
      BY DEF By, Step, Reserving
    <3>2. start' = [start EXCEPT ![t] = q]
      BY <2>2
    <3> HIDE DEF next
    <3>3. /\ q \in StartRecord /\ q.step = next /\ q.kind = start[t].kind
          /\ ~q.held /\ q.why = start[t].why
      BY <3>1, OneTask DEF StartRecord
    <3> HIDE DEF q
    <3> QED
      BY <2>2, <3>1, <3>2, <3>3, OneTask
  <2> QED
    BY <2>1, <2>2
<1>5. /\ start' \in [Task -> StartRecord]
      /\ start'[t].step = r.step /\ start'[t].kind = start[t].kind
      /\ ~start'[t].held /\ start'[t].why = start[t].why
      /\ \A u \in Task : u # t => start'[u] = start[u]
  BY <1>2, StartChanges
<1>6. HasShape(t)' /\ LeaseFollows(t)
  BY <1>1, <1>2, <1>5, OneTask DEF HasShape, At, By, LeaseFollows
<1>7. CASE start[t].kind = "drain"
  <2>1. Recorded(t)
    BY <1>7 DEF Recorded, By
  <2>2. r.step = "restore"
    BY <1>2, <1>7
  <2> QED
    BY <1>1, <1>2, <1>5, <1>6, <2>1, <2>2, RecordedMoves
<1>8. CASE start[t].kind \in {"human", "approve"}
  <2>1. ~Recorded(t) /\ By(t, {"human", "approve", "rpc", "propose"})
    BY <1>8 DEF Recorded, By, At
  <2>2. r.step \in Reserving \ {"commit"} /\ r.step \notin Unrecorded
    BY <1>2 DEF Reserving, Unrecorded
  <2> QED
    BY <1>1, <1>2, <1>5, <1>6, <2>1, <2>2, OneTask, ReservedMoves
<1> QED
  BY <1>1, <1>7, <1>8

\* The shell of a start that was rolled back is taken away.
LEMMA RestoreKeeps ==
    ASSUME BindingInv, NEW t \in Task, Restore(t)
    PROVE  BindingInv'
<1> USE DEF Restore
<1>1. /\ ~start[t].held /\ start[t].why = "none" /\ At(t, Reserving) /\ ~Recorded(t)
      /\ By(t, {"human", "approve", "rpc", "propose"})
      /\ start[t].lid \in 0..MaxIdentities
  BY OneTask DEF HasShape, At, Reserving, Recorded, By, StartRecord
<1>2. /\ start' \in [Task -> StartRecord]
      /\ start'[t].step = "undo" /\ start'[t].kind = start[t].kind
      /\ ~start'[t].held /\ start'[t].why = start[t].why
      /\ \A u \in Task : u # t => start'[u] = start[u]
  BY <1>1, GotoFacts DEF Step, Reserving
<1>3. HasShape(t)' /\ LeaseFollows(t)
  BY <1>1, <1>2 DEF HasShape, At, By, LeaseFollows
<1>4. start'[t].step \in Reserving \ {"commit"} /\ start'[t].step \notin Unrecorded
  BY <1>2 DEF Reserving, Unrecorded
<1>5. /\ binding' \in [Worker -> 0..MaxIdentities]
      /\ \A w \in Worker : w # W(t) => binding'[w] = binding[w]
  <2>1. CASE UNCHANGED binding
    BY <2>1 DEF BindingInv, TypeOK
  <2>2. CASE Bind(t, IF start[t].first THEN 0 ELSE start[t].lid)
    BY <1>1, <2>2, BindingChanges, BindingBounds
  <2> QED
    BY <2>1, <2>2
<1> QED
  BY <1>1, <1>2, <1>3, <1>4, <1>5, OneTask, ReservedMoves

\* A launch adds a turn and an owner.
LEMMA LaunchFacts ==
    ASSUME BindingInv, NEW t \in Task, Launch(t)
    PROVE  /\ turn' = turn \cup {t}
           /\ owner' \in [Worker -> SUBSET (0..MaxIdentities)]
BY OneTask DEF Launch

\* A start gives back its reservation and its slot together.
LEMMA UnreserveKeeps ==
    ASSUME BindingInv, NEW t \in Task, Unreserve(t)
    PROVE  BindingInv'
<1>0. /\ At(t, {"commit", "undo"})
      /\ reserved' = reserved \ {t} /\ slots' = slots \ {t}
      /\ UNCHANGED <<binding, lease, retire, cleaning, recon, stops, returned>>
      /\ ~start[t].held /\ start[t].why = "none" /\ ~By(t, {"drain"}) /\ ~Drained(t)
      /\ t \notin turn /\ t \notin returned /\ ~task[t].answered /\ ~task[t].review
  BY OneTask DEF Unreserve, HasShape, HoldsClaims, StartsFirst, At, By
<1>1. CASE At(t, {"commit"}) /\ By(t, {"rpc"})
  <2>1. Goto(t, "ensuring") /\ UNCHANGED <<turn, owner, task>>
    BY <1>1 DEF Unreserve, NameSpent, At, By
  <2>2. /\ start' \in [Task -> StartRecord]
        /\ start'[t].step = "ensuring" /\ start'[t].kind = start[t].kind
        /\ ~start'[t].held /\ start'[t].why = start[t].why
        /\ \A u \in Task : u # t => start'[u] = start[u]
    BY <1>0, <2>1, GotoFacts DEF Step
  <2>3. Alone(t) /\ LeaseFollows(t)
    BY <1>0, <2>1, <2>2 DEF Alone, LeaseFollows
  <2>4. HasShape(t)'
    BY <1>0, <1>1, <2>2 DEF HasShape, At, By
  <2>5. StartsFirst(t)'
    BY <1>0, <1>1, <2>1, <2>2, OneTask DEF StartsFirst, Recorded, Unrecorded, At, By, Is
  <2>6. HoldsClaims(t)'
    BY <1>0, <1>1, <2>2 DEF HoldsClaims, At, By, Drained, Reserving
  <2>7. HasFreshName(t)'
    BY <2>2 DEF HasFreshName, At
  <2>8. {reserved', slots', turn'} \subseteq SUBSET Task
    BY <1>0, <2>1, OneTask
  <2> QED
    BY <1>0, <2>1, <2>2, <2>3, <2>4, <2>5, <2>6, <2>7, <2>8, OneTask, StartKeeps
<1>2. CASE ~(At(t, {"commit"}) /\ By(t, {"rpc"}))
  <2>1. Finish(t)
    BY <1>2 DEF Unreserve
  <2>2. /\ start' \in [Task -> StartRecord]
        /\ start'[t].step = "idle" /\ start'[t].kind = "none"
        /\ ~start'[t].held /\ start'[t].why = "none"
        /\ \A u \in Task : u # t => start'[u] = start[u]
    BY <2>1, FinishFacts
  <2>3. /\ owner' \in [Worker -> SUBSET (0..MaxIdentities)]
        /\ turn' \subseteq turn \cup {t} /\ turn \subseteq turn'
        /\ t \in turn' => At(t, {"commit"}) /\ By(t, {"human", "approve"})
    BY <1>0, LaunchFacts, OneTask DEF Unreserve
  <2>4. /\ task' \in [Task -> TaskRecord]
        /\ task'[t].status = IF NameSpent(t) THEN "gone" ELSE task[t].status
        /\ task'[t].review = task[t].review /\ task'[t].answered = task[t].answered
        /\ \A u \in Task : u # t => task'[u] = task[u]
    <3>1. CASE NameSpent(t)
      BY <3>1, StatusChanges DEF Unreserve, Status, Terminal
    <3>2. CASE ~NameSpent(t)
      BY <3>2, OneTask DEF Unreserve
    <3> QED
      BY <3>1, <3>2
  <2>5. Alone(t) /\ LeaseFollows(t)
    BY <1>0, <2>2, <2>3, <2>4 DEF Alone, LeaseFollows
  <2>6. HasShape(t)'
    BY <2>2 DEF HasShape, At, By
  <2>7. t \in turn' => task'[t].status \notin Waiting
    BY <2>3, <2>4, OneTask DEF StartsFirst, Recorded, NameSpent, Waiting, At, By
  <2>8. StartsFirst(t)'
    <3>1. task'[t].status \in {task[t].status, "gone"}
      BY <2>4
    <3>3. task[t].status # "blocked"
      BY <1>0, OneTask DEF StartsFirst, At, Is
    <3>4. t \in stops => ~Is(t, "none") /\ ~Is(t, "needs_confirmation")
      BY OneTask DEF StartsFirst
    <3> QED
      BY <1>0, <2>2, <2>4, <2>7, <3>1, <3>3, <3>4
         DEF StartsFirst, Recorded, Unrecorded, At, By, Is
  <2>9. HoldsClaims(t)'
    BY <1>0, <2>2 DEF HoldsClaims, At, By, Drained, Reserving
  <2>10. t \in Parallel => HasFreshName(t)'
    <3>1. At(t, {"commit"}) => ~Is(t, "none")
      BY OneTask DEF StartsFirst
    <3> QED
      BY <1>0, <2>4, <3>1 DEF HasFreshName, NameSpent, At, Is
  <2>11. {reserved', slots', turn'} \subseteq SUBSET Task
    BY <1>0, <2>3, OneTask
  <2> QED
    BY <1>0, <2>2, <2>3, <2>4, <2>5, <2>6, <2>8, <2>9, <2>10, <2>11, OneTask, StartKeeps
<1> QED
  BY <1>1, <1>2

\* The ensure of a detached start ends.
LEMMA DetachedEnsureEndsKeeps ==
    ASSUME BindingInv, NEW t \in Task, DetachedEnsureEnds(t)
    PROVE  BindingInv'
<1>1. PICK l \in {start[t].lid, binding[W(t)]}, grown \in BOOLEAN, next \in {"look", "caught"} :
          Ensured(t, l, grown) /\ Goto(t, next)
  BY DEF DetachedEnsureEnds
<1>2. /\ At(t, {"ensuring"}) /\ By(t, {"rpc"}) /\ Recorded(t) /\ ~At(t, {"commit"})
      /\ ~start[t].held /\ start[t].why = "none"
      /\ start[t].lid \in 0..MaxIdentities /\ binding[W(t)] \in 0..MaxIdentities
      /\ UNCHANGED <<task, binding, reserved, slots, lease, retire, cleaning, recon,
                     turn, stops, returned>>
  BY OneTask DEF DetachedEnsureEnds, HasShape, Recorded, At, By, StartRecord
<1>3. owner' \in [Worker -> SUBSET (0..MaxIdentities)]
  BY <1>1, <1>2, EnsuredFacts
<1>4. /\ start' \in [Task -> StartRecord]
      /\ start'[t].step = next /\ start'[t].kind = start[t].kind
      /\ ~start'[t].held /\ start'[t].why = start[t].why
      /\ \A u \in Task : u # t => start'[u] = start[u]
  BY <1>1, <1>2, GotoFacts DEF Step
<1>5. HasShape(t)' /\ LeaseFollows(t)
  BY <1>1, <1>2, <1>4 DEF HasShape, At, By, LeaseFollows
<1> QED
  BY <1>1, <1>2, <1>3, <1>4, <1>5, RecordedMoves

\* A detached start launches its turn, or turns to its clean-up.
LEMMA LookKeeps ==
    ASSUME BindingInv, NEW t \in Task, Look(t)
    PROVE  BindingInv'
<1>1. /\ At(t, {"look"}) /\ By(t, {"rpc"}) /\ Recorded(t) /\ ~At(t, {"commit"})
      /\ At(t, {"look", "cancel", "caught", "claim", "release", "settle"})
      /\ ~start[t].held /\ start[t].why = "none"
      /\ UNCHANGED <<task, binding, reserved, slots, lease, retire, cleaning, recon,
                     stops, returned>>
  BY OneTask DEF Look, HasShape, Recorded, At, By
<1>2. CASE Is(t, "running") /\ ~task[t].stop
  <2>1. Launch(t) /\ Finish(t)
    BY <1>2 DEF Look
  <2>2. /\ turn' = turn \cup {t}
        /\ owner' \in [Worker -> SUBSET (0..MaxIdentities)]
    BY <2>1, LaunchFacts
  <2>3. LeaseFollows(t)
    BY <1>1, <2>1, FinishFacts DEF LeaseFollows
  <2> QED
    BY <1>1, <2>1, <2>2, <2>3, OneTask, DetachedFinishes
<1>3. CASE ~(Is(t, "running") /\ ~task[t].stop) /\ Is(t, "running")
  <2>1. Goto(t, "cancel") /\ UNCHANGED <<turn, owner>>
    BY <1>3 DEF Look, Goto
  <2>2. /\ start' \in [Task -> StartRecord]
        /\ start'[t].step = "cancel" /\ start'[t].kind = start[t].kind
        /\ ~start'[t].held /\ start'[t].why = start[t].why
        /\ \A u \in Task : u # t => start'[u] = start[u]
    BY <1>1, <2>1, GotoFacts DEF Step
  <2>3. HasShape(t)' /\ LeaseFollows(t)
    BY <1>1, <2>2 DEF HasShape, At, By, LeaseFollows
  <2> QED
    BY <1>1, <2>1, <2>2, <2>3, OneTask, RecordedMoves
<1>4. CASE ~(Is(t, "running") /\ ~task[t].stop) /\ ~Is(t, "running")
  <2> DEFINE r == [start[t] EXCEPT !.step = "claim", !.why = "skip"]
  <2>1. start' = [start EXCEPT ![t] = r] /\ UNCHANGED <<turn, owner>>
    BY <1>4 DEF Look
  <2>2. "claim" \in Step
    BY DEF Step
  <2>3. /\ r \in StartRecord /\ r.step = "claim" /\ r.kind = start[t].kind
        /\ r.held = start[t].held
    BY <2>2, OneTask DEF StartRecord
  <2> HIDE DEF r
  <2>4. /\ start' \in [Task -> StartRecord]
        /\ start'[t].step = "claim" /\ start'[t].kind = start[t].kind
        /\ ~start'[t].held
        /\ \A u \in Task : u # t => start'[u] = start[u]
    BY <1>1, <2>1, <2>3, StartChanges
  <2>5. HasShape(t)' /\ LeaseFollows(t)
    BY <1>1, <2>4 DEF HasShape, At, By, LeaseFollows
  <2> QED
    BY <1>1, <1>4, <2>1, <2>4, <2>5, OneTask, RecordedMoves
<1> QED
  BY <1>2, <1>3, <1>4

\* A detached start that failed or was stopped knows why.
LEMMA AppliesKeeps ==
    ASSUME BindingInv, NEW t \in Task, Applies(t)
    PROVE  BindingInv'
<1>1. /\ By(t, {"rpc"}) /\ Recorded(t) /\ ~At(t, {"commit"})
      /\ At(t, {"look", "cancel", "caught", "claim", "release", "settle"})
      /\ ~start[t].held /\ start[t].why = "none"
      /\ UNCHANGED <<task, binding, reserved, slots, lease, retire, cleaning, recon,
                     turn, stops, owner, returned>>
  BY OneTask DEF Applies, HasShape, Recorded, At, By
<1>2. ASSUME NEW s \in {"claim", "settle"}, NEW y \in {"abort", "cancel", "fail"},
             start' = [start EXCEPT ![t] = [@ EXCEPT !.step = s, !.why = y]]
      PROVE  BindingInv'
  <2> DEFINE r == [start[t] EXCEPT !.step = s, !.why = y]
  <2>1. start' = [start EXCEPT ![t] = r]
    BY <1>2
  <2>2. s \in Step
    BY DEF Step
  <2>3. /\ r \in StartRecord /\ r.step = s /\ r.kind = start[t].kind
        /\ r.held = start[t].held /\ r.why = y
    BY <2>2, OneTask DEF StartRecord
  <2> HIDE DEF r
  <2>4. /\ start' \in [Task -> StartRecord]
        /\ start'[t].step = s /\ start'[t].kind = start[t].kind
        /\ ~start'[t].held /\ start'[t].why # "skip"
        /\ \A u \in Task : u # t => start'[u] = start[u]
    BY <1>1, <2>1, <2>3, StartChanges
  <2>5. HasShape(t)' /\ LeaseFollows(t)
    BY <1>1, <2>4 DEF HasShape, At, By, LeaseFollows
  <2> QED
    BY <1>1, <2>4, <2>5, OneTask, RecordedMoves
<1>3. ASSUME Finish(t)
      PROVE  BindingInv'
  <2>1. LeaseFollows(t)
    BY <1>1, <1>3, FinishFacts DEF LeaseFollows
  <2> QED
    BY <1>1, <1>3, <2>1, OneTask, DetachedFinishes
<1> QED
  BY <1>2, <1>3 DEF Applies

\* A clean-up takes the lease, or does without it and keeps the shell.
LEMMA ClaimKeeps ==
    ASSUME BindingInv, NEW t \in Task, Claim(t)
    PROVE  BindingInv'
<1>1. /\ At(t, {"claim"}) /\ By(t, {"rpc"}) /\ Recorded(t) /\ ~At(t, {"commit"})
      /\ At(t, {"look", "cancel", "caught", "claim", "release", "settle"})
      /\ ~start[t].held
      /\ UNCHANGED <<task, binding, reserved, slots, retire, cleaning, recon,
                     turn, stops, owner, returned>>
  BY OneTask DEF Claim, HasShape, Recorded, At, By
<1>2. ASSUME W(t) \notin lease, lease' = lease \cup {W(t)}, NEW s \in {"release", "settle"},
             start' = [start EXCEPT ![t] = [@ EXCEPT !.held = TRUE, !.step = s]]
      PROVE  BindingInv'
  <2> DEFINE r == [start[t] EXCEPT !.held = TRUE, !.step = s]
  <2>1. start' = [start EXCEPT ![t] = r]
    BY <1>2
  <2>2. s \in Step
    BY DEF Step
  <2>3. /\ r \in StartRecord /\ r.step = s /\ r.kind = start[t].kind
        /\ r.held /\ r.why = start[t].why
    BY <2>2, OneTask DEF StartRecord
  <2> HIDE DEF r
  <2>4. /\ start' \in [Task -> StartRecord]
        /\ start'[t].step = s /\ start'[t].kind = start[t].kind
        /\ start'[t].held /\ start'[t].why = start[t].why
        /\ \A u \in Task : u # t => start'[u] = start[u]
    BY <1>1, <2>1, <2>3, StartChanges
  <2>5. HasShape(t)' /\ LeaseFollows(t)
    BY <1>1, <1>2, <2>4 DEF HasShape, At, By, LeaseFollows
  <2> QED
    BY <1>1, <2>4, <2>5, OneTask, RecordedMoves
<1>3. ASSUME UNCHANGED lease,
             start' = [start EXCEPT ![t] = [@ EXCEPT !.keep = TRUE, !.step = "settle"]]
      PROVE  BindingInv'
  <2> DEFINE r == [start[t] EXCEPT !.keep = TRUE, !.step = "settle"]
  <2>1. start' = [start EXCEPT ![t] = r]
    BY <1>3
  <2>2. "settle" \in Step
    BY DEF Step
  <2>3. /\ r \in StartRecord /\ r.step = "settle" /\ r.kind = start[t].kind
        /\ r.held = start[t].held /\ r.why = start[t].why
    BY <2>2, OneTask DEF StartRecord
  <2> HIDE DEF r
  <2>4. /\ start' \in [Task -> StartRecord]
        /\ start'[t].step = "settle" /\ start'[t].kind = start[t].kind
        /\ ~start'[t].held /\ start'[t].why = start[t].why
        /\ \A u \in Task : u # t => start'[u] = start[u]
    BY <1>1, <2>1, <2>3, StartChanges
  <2>5. HasShape(t)' /\ LeaseFollows(t)
    BY <1>1, <1>3, <2>4 DEF HasShape, At, By, LeaseFollows
  <2> QED
    BY <1>1, <2>4, <2>5, OneTask, RecordedMoves
<1>4. ASSUME UNCHANGED lease, Finish(t)
      PROVE  BindingInv'
  <2>1. LeaseFollows(t)
    BY <1>1, <1>4, FinishFacts DEF LeaseFollows
  <2> QED
    BY <1>1, <1>4, <2>1, OneTask, DetachedFinishes
<1> QED
  BY <1>2, <1>3, <1>4 DEF Claim

\* A clean-up has released its owner, or could not verify that.
LEMMA ReleaseEndsKeeps ==
    ASSUME BindingInv, NEW t \in Task, ReleaseEnds(t)
    PROVE  BindingInv'
<1>1. /\ At(t, {"release"}) /\ By(t, {"rpc"}) /\ Recorded(t) /\ ~At(t, {"commit"})
      /\ At(t, {"look", "cancel", "caught", "claim", "release", "settle"})
      /\ start[t].held
      /\ UNCHANGED <<task, binding, reserved, slots, retire, cleaning, recon,
                     turn, stops, returned>>
  BY OneTask DEF ReleaseEnds, HasShape, Recorded, At, By
<1>2. owner' \in [Worker -> SUBSET (0..MaxIdentities)]
  BY OneTask DEF ReleaseEnds
<1>3. ASSUME UNCHANGED lease, Goto(t, "settle")
      PROVE  BindingInv'
  <2>1. /\ start' \in [Task -> StartRecord]
        /\ start'[t].step = "settle" /\ start'[t].kind = start[t].kind
        /\ start'[t].held /\ start'[t].why = start[t].why
        /\ \A u \in Task : u # t => start'[u] = start[u]
    BY <1>1, <1>3, GotoFacts DEF Step
  <2>2. HasShape(t)' /\ LeaseFollows(t)
    BY <1>1, <1>3, <2>1 DEF HasShape, At, By, LeaseFollows
  <2> QED
    BY <1>1, <1>2, <2>1, <2>2, OneTask, RecordedMoves
<1>4. ASSUME UNCHANGED lease,
             start' = [start EXCEPT ![t] = [@ EXCEPT !.step = "settle", !.keep = TRUE]]
      PROVE  BindingInv'
  <2> DEFINE r == [start[t] EXCEPT !.step = "settle", !.keep = TRUE]
  <2>1. start' = [start EXCEPT ![t] = r]
    BY <1>4
  <2>2. "settle" \in Step
    BY DEF Step
  <2>3. /\ r \in StartRecord /\ r.step = "settle" /\ r.kind = start[t].kind
        /\ r.held = start[t].held /\ r.why = start[t].why
    BY <2>2, OneTask DEF StartRecord
  <2> HIDE DEF r
  <2>4. /\ start' \in [Task -> StartRecord]
        /\ start'[t].step = "settle" /\ start'[t].kind = start[t].kind
        /\ start'[t].held /\ start'[t].why = start[t].why
        /\ \A u \in Task : u # t => start'[u] = start[u]
    BY <1>1, <2>1, <2>3, StartChanges
  <2>5. HasShape(t)' /\ LeaseFollows(t)
    BY <1>1, <1>4, <2>4 DEF HasShape, At, By, LeaseFollows
  <2> QED
    BY <1>1, <1>2, <2>4, <2>5, OneTask, RecordedMoves
<1>5. ASSUME Finish(t), lease' = lease \ {W(t)}
      PROVE  BindingInv'
  <2>1. LeaseFollows(t)
    BY <1>1, <1>5, FinishFacts DEF LeaseFollows
  <2> QED
    BY <1>1, <1>2, <1>5, <2>1, OneTask, DetachedFinishes
<1> QED
  BY <1>3, <1>4, <1>5 DEF ReleaseEnds

\* A clean-up drops at most the binding of its own worker.
LEMMA DropBindingFacts ==
    ASSUME BindingInv, NEW t \in Task, DropBinding(t) \/ UNCHANGED binding
    PROVE  /\ binding' \in [Worker -> 0..MaxIdentities]
           /\ \A w \in Worker : w # W(t) => binding'[w] = binding[w]
BY OneTask, BindingChanges, BindingBounds DEF DropBinding, Unbind

\* A clean-up ends or begins again, and gives the lease back.
LEMMA SettleKeeps ==
    ASSUME BindingInv, NEW t \in Task, Settle(t)
    PROVE  BindingInv'
<1>1. /\ At(t, {"settle"}) /\ By(t, {"rpc"}) /\ Recorded(t) /\ ~At(t, {"commit"})
      /\ At(t, {"look", "cancel", "caught", "claim", "release", "settle"})
      /\ lease' = IF start[t].held THEN lease \ {W(t)} ELSE lease
      /\ UNCHANGED <<reserved, slots, retire, cleaning, recon, turn, stops, owner,
                     returned>>
  BY OneTask DEF Settle, HasShape, Recorded, At, By
<1>2. /\ DropBinding(t) \/ UNCHANGED binding
      /\ StatusOf(t, "cancelled") \/ StatusOf(t, "finished") \/ UNCHANGED task
  BY DEF Settle
<1>3. /\ task' \in [Task -> TaskRecord]
      /\ task'[t].status \in {task[t].status, "finished", "cancelled"}
      /\ task'[t].review = task[t].review /\ task'[t].answered = task[t].answered
      /\ \A u \in Task : u # t => task'[u] = task[u]
  BY <1>2, StatusChanges, OneTask DEF Status, Terminal
<1>4. /\ binding' \in [Worker -> 0..MaxIdentities]
      /\ \A w \in Worker : w # W(t) => binding'[w] = binding[w]
  BY <1>2, DropBindingFacts
<1>5. ASSUME Finish(t)
      PROVE  BindingInv'
  <2>1. LeaseFollows(t)
    BY <1>1, <1>5, FinishFacts DEF LeaseFollows
  <2> QED
    BY <1>1, <1>3, <1>4, <1>5, <2>1, OneTask, DetachedFinishes
<1>6. ASSUME UNCHANGED <<task, binding>>, NEW s \in {"claim", "settle"},
             start' = [start EXCEPT ![t] =
                 [@ EXCEPT !.step = s, !.why = "fail", !.keep = FALSE, !.held = FALSE]]
      PROVE  BindingInv'
  <2> DEFINE r == [start[t] EXCEPT !.step = s, !.why = "fail", !.keep = FALSE,
                                   !.held = FALSE]
  <2>1. start' = [start EXCEPT ![t] = r]
    BY <1>6
  <2>2. s \in Step
    BY DEF Step
  <2>3. /\ r \in StartRecord /\ r.step = s /\ r.kind = start[t].kind
        /\ ~r.held /\ r.why = "fail"
    BY <2>2, OneTask DEF StartRecord
  <2> HIDE DEF r
  <2>4. /\ start' \in [Task -> StartRecord]
        /\ start'[t].step = s /\ start'[t].kind = start[t].kind
        /\ ~start'[t].held /\ start'[t].why = "fail"
        /\ \A u \in Task : u # t => start'[u] = start[u]
    BY <1>1, <2>1, <2>3, StartChanges
  <2>5. HasShape(t)' /\ LeaseFollows(t)
    BY <1>1, <1>6, <2>4 DEF HasShape, At, By, LeaseFollows
  <2> QED
    BY <1>1, <1>6, <2>4, <2>5, OneTask, RecordedMoves
<1>7. CASE start[t].why = "abort" /\ ~Stopped(t)
  <2>1. UNCHANGED <<task, binding>>
    BY <1>7 DEF Settle
  <2> QED
    BY <1>6, <1>7, <2>1 DEF Settle
<1>8. CASE ~(start[t].why = "abort" /\ ~Stopped(t))
  BY <1>5, <1>8 DEF Settle
<1> QED
  BY <1>7, <1>8

\* A drained start that fails is rolled back.
LEMMA DrainFailsKeeps ==
    ASSUME BindingInv, NEW t \in Task, DrainFails(t)
    PROVE  BindingInv'
<1>1. PICK l \in {start[t].lid, binding[W(t)]}, grown \in BOOLEAN : Ensured(t, l, grown)
  BY DEF DrainFails
<1>2. /\ By(t, {"drain"}) /\ Recorded(t) /\ ~At(t, {"commit"}) /\ RollBack(t)
      /\ By(t, {"human", "approve", "drain"})
      /\ ~start[t].held /\ start[t].why = "none" /\ t \in Parallel
      /\ start[t].lid \in 0..MaxIdentities /\ binding[W(t)] \in 0..MaxIdentities
      /\ UNCHANGED <<task, binding, reserved, slots, retire, cleaning, recon,
                     turn, stops, returned>>
  BY OneTask DEF DrainFails, HasShape, Recorded, At, By, StartRecord
<1>3. owner' \in [Worker -> SUBSET (0..MaxIdentities)]
  BY <1>1, <1>2, EnsuredFacts
<1>4. /\ start' \in [Task -> StartRecord]
      /\ start'[t].step \in {"teardown", "restore"}
      /\ start'[t].kind = start[t].kind /\ start'[t].why = start[t].why
      /\ start'[t].held <=> start'[t].step = "teardown"
      /\ \A u \in Task : u # t => start'[u] = start[u]
      /\ LeaseFollows(t)
  BY <1>2, RollBackFacts
<1>5. HasShape(t)'
  BY <1>2, <1>4 DEF HasShape, At, By
<1> QED
  BY <1>2, <1>3, <1>4, <1>5, RecordedMoves

-----------------------------------------------------------------------------
(* The life of a recorded task.                                            *)

\* A call that begins is at none of the things the others are at.
LEMMA ReconcileKeeps ==
    ASSUME BindingInv, Reconcile \/ UNCHANGED recon, UNCHANGED retire
    PROVE  /\ recon' \in [Call -> CallRecord]
           /\ \A u \in Task : Drained(u)' <=> Drained(u)
           /\ CallsAreApart'
<1>0. TypeOK /\ CallsAreApart
  BY DEF BindingInv
<1>1. CASE UNCHANGED recon
  BY <1>0, <1>1 DEF TypeOK, CallsAreApart, Drained
<1>2. ASSUME NEW i \in IdleCalls, recon' = [recon EXCEPT ![i].step = "collect"]
      PROVE  /\ recon' \in [Call -> CallRecord]
             /\ \A u \in Task : Drained(u)' <=> Drained(u)
             /\ CallsAreApart'
  <2>1. i \in Call /\ recon[i].step = "idle"
    BY DEF IdleCalls
  <2> DEFINE r == [recon[i] EXCEPT !.step = "collect"]
  <2>2. recon \in [Call -> CallRecord]
    BY <1>0 DEF TypeOK
  <2>3. recon' = [recon EXCEPT ![i] = r]
    BY <1>2
  <2>4. r \in CallRecord /\ r.step = "collect" /\ r.task = recon[i].task
    BY <2>1, <2>2 DEF CallRecord
  <2> HIDE DEF r
  <2>5. /\ recon' \in [Call -> CallRecord] /\ recon'[i] = r
        /\ \A j \in Call : j # i => recon'[j] = recon[j]
    BY <2>1, <2>2, <2>3, <2>4
  <2>6. \A j \in Call :
           /\ recon'[j].step = "draining" <=> recon[j].step = "draining"
           /\ recon[j].step = "retiring" => recon'[j].step = "retiring"
           /\ recon'[j].task = recon[j].task
    BY <2>1, <2>4, <2>5
  <2>7. \A u \in Task : Drained(u)' <=> Drained(u)
    BY <2>6 DEF Drained
  <2>8. \A w \in Worker : retire[w].by # 0 => retire[w].by \in Call
    BY <1>0 DEF TypeOK, RetireRecord, Call
  <2>9. CallsAreApart'
    <3>1. \A j \in Call : recon'[j].step = "draining" => \E u \in Task : recon'[j].task = {u}
      BY <1>0, <2>6 DEF CallsAreApart
    <3>2. \A j, k \in Call :
             recon'[j].step = "draining" /\ recon'[k].step = "draining" /\ j # k =>
                 recon'[j].task \cap recon'[k].task = {}
      BY <1>0, <2>6 DEF CallsAreApart
    <3>3. \A w \in Worker : retire[w].step # "none" /\ retire[w].by # 0 =>
             recon'[retire[w].by].step = "retiring"
      BY <1>0, <2>6, <2>8 DEF CallsAreApart
    <3> QED
      BY <1>0, <3>1, <3>2, <3>3 DEF CallsAreApart
  <2> QED
    BY <2>5, <2>7, <2>9
<1> QED
  BY <1>0, <1>1, <1>2 DEF Reconcile

\* What a step in the life of the task t has to show.
LEMMA LifeKeeps ==
    ASSUME BindingInv, NEW t \in Task, Alone(t),
           task' \in [Task -> TaskRecord],
           owner' \in [Worker -> SUBSET (0..MaxIdentities)],
           {turn', stops', returned'} \subseteq SUBSET Task,
           UNCHANGED <<binding, start, reserved, slots, lease, retire, cleaning>>,
           Reconcile \/ UNCHANGED recon,
           StartsFirst(t)', Is(t, "none")' => Is(t, "none")
    PROVE  BindingInv'
<1>1. /\ \A u \in Task : Drained(u)' <=> Drained(u)
      /\ CallsAreApart'
      /\ recon' \in [Call -> CallRecord]
  BY ReconcileKeeps
<1>2. TypeOK'
  BY <1>1 DEF BindingInv, TypeOK
<1>3. LeaseIsHeld'
  BY DEF BindingInv, LeaseIsHeld, Holders
<1>4. HasShape(t)' /\ HoldsClaims(t)'
  BY <1>1, OneTask DEF HasShape, HoldsClaims, At, By
<1>5. StartsHaveShape' /\ StartsComeFirst' /\ ClaimsAreHeld'
  BY <1>1, <1>4, OthersKeep
<1>6. NamesAreFresh'
  <2>1. ASSUME NEW u \in Parallel PROVE HasFreshName(u)'
    <3>1. u \in Task
      BY KindsDisjoint
    <3>2. Is(u, "none")' => Is(u, "none")
      BY <3>1 DEF Alone, Is
    <3> QED
      BY <3>1, <3>2 DEF BindingInv, NamesAreFresh, HasFreshName, At, W
  <2> QED
    BY <2>1 DEF NamesAreFresh
<1> QED
  BY <1>1, <1>2, <1>3, <1>5, <1>6 DEF BindingInv

\* A task with a turn, a question or a result has no start under way.
LEMMA LiveFacts ==
    ASSUME BindingInv, NEW t \in Task,
           t \in turn \/ Is(t, "blocked") \/ task[t].answered \/ task[t].review
    PROVE  At(t, {"idle"}) /\ task[t].status \notin Waiting /\ By(t, {"none"})
BY OneTask DEF StartsFirst, HasShape

\* The worker asks.
LEMMA AskKeeps ==
    ASSUME BindingInv, NEW t \in Task, Ask(t)
    PROVE  BindingInv'
<1>1. At(t, {"idle"}) /\ t \in turn /\ StatusOf(t, "blocked")
  BY LiveFacts DEF Ask
<1>2. /\ task' \in [Task -> TaskRecord] /\ task'[t].status = "blocked"
      /\ task'[t].review = task[t].review /\ task'[t].answered = task[t].answered
      /\ \A u \in Task : u # t => task'[u] = task[u]
  BY <1>1, StatusChanges DEF Status, Holding
<1>3. Alone(t)
  BY <1>2 DEF Ask, Alone
<1>4. StartsFirst(t)'
  BY <1>1, <1>2, OneTask DEF Ask, StartsFirst, Recorded, Unrecorded, At, By, Is, Waiting, HasShape
<1> QED
  BY <1>2, <1>3, <1>4, OneTask, LifeKeeps DEF Ask, Is

\* The worker's question is answered.
LEMMA AnswerKeeps ==
    ASSUME BindingInv, NEW t \in Task, Answer(t)
    PROVE  BindingInv'
<1>1. At(t, {"idle"}) /\ Launch(t)
  BY LiveFacts DEF Answer
<1> DEFINE r == [task[t] EXCEPT !.status = "running", !.answered = TRUE]
<1>2. r \in TaskRecord /\ r.status = "running" /\ r.review = task[t].review
  BY OneTask DEF TaskRecord, Status, Holding
<1>3. task' = [task EXCEPT ![t] = r]
  BY DEF Answer
<1> HIDE DEF r
<1>4. /\ task' \in [Task -> TaskRecord] /\ task'[t].status = "running"
      /\ task'[t].review = task[t].review
      /\ \A u \in Task : u # t => task'[u] = task[u]
  BY <1>2, <1>3, OneTask
<1>5. /\ turn' = turn \cup {t} /\ owner' \in [Worker -> SUBSET (0..MaxIdentities)]
  BY <1>1, LaunchFacts
<1>6. Alone(t)
  BY <1>4, <1>5 DEF Answer, Alone
<1>7. StartsFirst(t)'
  BY <1>1, <1>4, OneTask DEF Answer, StartsFirst, Recorded, Unrecorded, At, By, Is, Waiting, HasShape
<1> QED
  BY <1>4, <1>5, <1>6, <1>7, OneTask, LifeKeeps DEF Answer, Is

\* The worker's turn ends.
LEMMA TurnEndsKeeps ==
    ASSUME BindingInv, NEW t \in Task, TurnEnds(t)
    PROVE  BindingInv'
<1>1. At(t, {"idle"}) /\ task[t].status \notin Waiting /\ turn' = turn \ {t}
  BY LiveFacts DEF TurnEnds
<1>2. /\ task' \in [Task -> TaskRecord]
      /\ task'[t].status \in {task[t].status, "finished"}
      /\ task'[t].review = task[t].review /\ task'[t].answered = task[t].answered
      /\ \A u \in Task : u # t => task'[u] = task[u]
  BY StatusChanges, OneTask DEF TurnEnds, Status, Terminal
<1>3. Alone(t)
  BY <1>1, <1>2 DEF TurnEnds, Alone
<1>4. StartsFirst(t)'
  BY <1>1, <1>2, OneTask
     DEF TurnEnds, StartsFirst, Recorded, Unrecorded, At, By, Is, Waiting, HasShape
<1>5. {turn', stops', returned'} \subseteq SUBSET Task
  BY <1>1, OneTask DEF TurnEnds
<1> QED
  BY <1>2, <1>3, <1>4, <1>5, OneTask, LifeKeeps DEF TurnEnds, Is

\* A cancellation is requested.
LEMMA CancelKeeps ==
    ASSUME BindingInv, NEW t \in Task, Cancel(t)
    PROVE  BindingInv'
<1>0. ~Is(t, "none") /\ ~Is(t, "gone")
  BY DEF Cancel, Exists
<1>1. PICK s \in {task[t].status, "cancelled"} :
          /\ task' = [task EXCEPT ![t] = [@ EXCEPT !.status = s, !.stop = TRUE]]
          /\ stops' \in {stops, stops \cup {t}}
          /\ stops' # stops => s = "running"
          /\ s = task[t].status => Is(t, "running")
  <2>1. CASE Is(t, "running")
    <3>1. [task[t] EXCEPT !.stop = TRUE]
            = [task[t] EXCEPT !.status = task[t].status, !.stop = TRUE]
      BY OneTask DEF TaskRecord
    <3> QED
      BY <2>1, <3>1 DEF Cancel, Is
  <2>2. CASE ~Is(t, "running")
    BY <2>2 DEF Cancel, Over, Terminal
  <2> QED
    BY <2>1, <2>2
<1> DEFINE r == [task[t] EXCEPT !.status = s, !.stop = TRUE]
<1>2. /\ r \in TaskRecord /\ r.status = s
      /\ r.review = task[t].review /\ r.answered = task[t].answered
  BY <1>1, OneTask DEF TaskRecord, Status, Terminal
<1>3. task' = [task EXCEPT ![t] = r]
  BY <1>1
<1> HIDE DEF r
<1>4. /\ task' \in [Task -> TaskRecord] /\ task'[t].status = s
      /\ task'[t].review = task[t].review /\ task'[t].answered = task[t].answered
      /\ \A u \in Task : u # t => task'[u] = task[u]
  BY <1>2, <1>3, OneTask
<1>5. Alone(t)
  BY <1>1, <1>4 DEF Cancel, Alone
<1>6. StartsFirst(t)'
  BY <1>0, <1>1, <1>4, OneTask
     DEF Cancel, StartsFirst, Recorded, Unrecorded, At, By, Is, Waiting
<1>7. {turn', stops', returned'} \subseteq SUBSET Task
  BY <1>1, OneTask DEF Cancel
<1>8. Is(t, "none")' => Is(t, "none")
  BY <1>1, <1>4 DEF Is
<1>9. Reconcile \/ UNCHANGED recon
  BY DEF Cancel
<1> QED
  BY <1>4, <1>5, <1>6, <1>7, <1>8, <1>9, OneTask, LifeKeeps DEF Cancel

\* An acknowledged stop ends its task, or has it ask again, or finds it over.
LEMMA StopDoneFacts ==
    ASSUME BindingInv, NEW t \in Task, StopDone(t)
    PROVE  /\ task' \in [Task -> TaskRecord]
           /\ \/ task'[t].status \in {task[t].status, "cancelled"}
              \/ /\ task[t].status = "running" /\ task[t].answered
                 /\ task'[t].status = "blocked"
           /\ task'[t].review = task[t].review /\ task'[t].answered = task[t].answered
           /\ \A u \in Task : u # t => task'[u] = task[u]
<1>1. task \in [Task -> TaskRecord] /\ task[t] \in TaskRecord
  BY OneTask
<1>2. CASE UNCHANGED task
  BY <1>1, <1>2
<1>3. CASE StatusOf(t, "cancelled")
  BY <1>3, StatusChanges DEF Status, Terminal
<1>4. CASE /\ Is(t, "running") /\ task[t].answered
           /\ task' = [task EXCEPT ![t] =
                          [task[t] EXCEPT !.status = "blocked", !.stop = FALSE]]
  <2> DEFINE r == [task[t] EXCEPT !.status = "blocked", !.stop = FALSE]
  <2>1. /\ r \in TaskRecord /\ r.status = "blocked"
        /\ r.review = task[t].review /\ r.answered = task[t].answered
    BY <1>1 DEF TaskRecord, Status, Holding
  <2>2. task' = [task EXCEPT ![t] = r]
    BY <1>4
  <2> HIDE DEF r
  <2> QED
    BY <1>1, <1>4, <2>1, <2>2 DEF Is
<1> QED
  BY <1>2, <1>3, <1>4 DEF StopDone

\* A stop request is acknowledged.
LEMMA StopDoneKeeps ==
    ASSUME BindingInv, NEW t \in Task, StopDone(t)
    PROVE  BindingInv'
<1>1. stops' = stops \ {t} /\ ~Is(t, "none") /\ ~Is(t, "needs_confirmation")
  BY OneTask DEF StopDone, StartsFirst
<1>2. /\ task' \in [Task -> TaskRecord]
      /\ \/ task'[t].status \in {task[t].status, "cancelled"}
         \/ /\ task[t].status = "running" /\ task[t].answered
            /\ task'[t].status = "blocked"
      /\ task'[t].review = task[t].review /\ task'[t].answered = task[t].answered
      /\ \A u \in Task : u # t => task'[u] = task[u]
  BY StopDoneFacts
<1>3. Alone(t)
  BY <1>1, <1>2 DEF StopDone, Alone
<1>4. StartsFirst(t)'
  BY <1>1, <1>2, OneTask
     DEF StopDone, StartsFirst, Recorded, Unrecorded, At, By, Is, Waiting
<1>5. {turn', stops', returned'} \subseteq SUBSET Task
  BY <1>1, OneTask DEF StopDone
<1>6. Reconcile \/ UNCHANGED recon
  BY DEF StopDone
<1>7. Is(t, "none")' => Is(t, "none")
  BY <1>2 DEF Is
<1> QED
  BY <1>2, <1>3, <1>4, <1>5, <1>6, <1>7, OneTask, LifeKeeps DEF StopDone

\* A stop request fails.
LEMMA StopFailsKeeps ==
    ASSUME BindingInv, NEW t \in Task, StopFails(t)
    PROVE  BindingInv'
<1>1. stops' = stops \ {t} /\ task' = task /\ {turn', stops', returned'} \subseteq SUBSET Task
  BY OneTask DEF StopFails
<1>2. Alone(t)
  BY <1>1 DEF StopFails, Alone
<1>3. StartsFirst(t)'
  BY <1>1, OneTask DEF StopFails, StartsFirst, Recorded, At, By, Is
<1> QED
  BY <1>1, <1>2, <1>3, OneTask, LifeKeeps DEF StopFails, Is

\* A finished result is contested, accepted or discarded.
LEMMA ReviewKeeps ==
    ASSUME BindingInv, NEW t \in Task, Contest(t) \/ Accept(t) \/ Discard(t)
    PROVE  BindingInv'
<1>1. /\ At(t, {"idle"}) /\ By(t, {"none"}) /\ task[t].status \notin Waiting
      /\ start[t].why # "skip"
  BY LiveFacts, OneTask DEF Contest, Accept, Discard, HasShape, At
<1>2. PICK s \in {task[t].status, "blocked"}, b \in BOOLEAN :
          /\ task' = [task EXCEPT ![t] = [@ EXCEPT !.review = b, !.status = s]]
          /\ b => returned' = returned \cup {t}
          /\ ~b => returned' = returned
  <2>1. CASE Contest(t)
    <3>1. [task[t] EXCEPT !.review = TRUE]
            = [task[t] EXCEPT !.review = TRUE, !.status = task[t].status]
      BY OneTask DEF TaskRecord
    <3> QED
      BY <2>1, <3>1 DEF Contest
  <2>2. CASE Accept(t)
    <3>1. [task[t] EXCEPT !.review = FALSE]
            = [task[t] EXCEPT !.review = FALSE, !.status = task[t].status]
      BY OneTask DEF TaskRecord
    <3> QED
      BY <2>2, <3>1 DEF Accept
  <2>3. CASE Discard(t)
    BY <2>3 DEF Discard
  <2> QED
    BY <2>1, <2>2, <2>3
<1> DEFINE r == [task[t] EXCEPT !.review = b, !.status = s]
<1>3. r \in TaskRecord /\ r.status = s /\ (r.review <=> b)
  BY <1>2, OneTask DEF TaskRecord, Status, Holding
<1>4. task' = [task EXCEPT ![t] = r]
  BY <1>2
<1> HIDE DEF r
<1>5. /\ task' \in [Task -> TaskRecord] /\ task'[t].status = s
      /\ task'[t].review => t \in returned'
      /\ \A u \in Task : u # t => task'[u] = task[u]
  BY <1>2, <1>3, <1>4, OneTask
<1>6. s \notin Waiting
  BY <1>1, <1>2 DEF Waiting
<1>7. /\ returned' = returned \/ returned' = returned \cup {t}
      /\ UNCHANGED <<binding, start, reserved, slots, lease, retire, cleaning, turn,
                     stops, owner>>
      /\ Reconcile \/ UNCHANGED recon
  BY <1>2 DEF Contest, Accept, Discard
<1>8. Alone(t)
  BY <1>5, <1>7 DEF Alone
<1>9. StartsFirst(t)'
  BY <1>1, <1>5, <1>6, <1>7, OneTask
     DEF StartsFirst, Recorded, Unrecorded, At, By, Is, Waiting
<1>10. ~Is(t, "none")'
  BY <1>5, <1>6 DEF Is, Waiting
<1>11. {turn', stops', returned'} \subseteq SUBSET Task
  BY <1>7, OneTask
<1> QED
  BY <1>5, <1>7, <1>8, <1>9, <1>10, <1>11, OneTask, LifeKeeps

-----------------------------------------------------------------------------
(* Retirements and reconciliations.                                        *)

\* A step that only moves a call on.
LEMMA CallChanges ==
    ASSUME BindingInv, NEW i \in Call, NEW r \in CallRecord,
           recon' = [recon EXCEPT ![i] = r],
           recon[i].step # "draining", r.step # "draining"
    PROVE  /\ recon' \in [Call -> CallRecord] /\ recon'[i] = r
           /\ \A j \in Call : j # i => recon'[j] = recon[j]
           /\ \A u \in Task : Drained(u)' <=> Drained(u)
           /\ \A j \in Call : recon'[j].step = "draining" =>
                  recon[j].step = "draining" /\ recon'[j] = recon[j]
<1>1. recon \in [Call -> CallRecord]
  BY DEF BindingInv, TypeOK
<1>2. /\ recon' \in [Call -> CallRecord] /\ recon'[i] = r
      /\ \A j \in Call : j # i => recon'[j] = recon[j]
  BY <1>1
<1>3. \A j \in Call : (recon'[j].step = "draining" <=> recon[j].step = "draining")
                      /\ (recon[j].step = "draining" => recon'[j] = recon[j])
  BY <1>2
<1> QED
  BY <1>2, <1>3 DEF Drained

\* No start takes part in the step.
LEMMA StartsUntouched ==
    ASSUME BindingInv, UNCHANGED <<task, start, reserved, slots, turn, stops, returned>>,
           \A u \in Task : Drained(u)' <=> Drained(u)
    PROVE  /\ StartsHaveShape' /\ StartsComeFirst' /\ ClaimsAreHeld'
           /\ \A w \in Worker : Holders(w)' = Holders(w)
<1>1. ASSUME NEW u \in Task
      PROVE  HasShape(u)' /\ StartsFirst(u)' /\ HoldsClaims(u)'
  BY OneTask DEF HasShape, StartsFirst, HoldsClaims, Recorded, At, By, Is
<1> QED
  BY <1>1 DEF StartsHaveShape, StartsComeFirst, ClaimsAreHeld, Holders

\* A worker comes under the lease of a retirement.
LEMMA RetirementKeeps ==
    ASSUME BindingInv, NEW w \in Worker, NEW i \in 0..MaxReconciles,
           binding[w] # 0, w \notin lease, ClaimRetirement(w, i),
           UNCHANGED <<task, binding, start, reserved, slots, turn, stops, returned>>
    PROVE  /\ LeaseIsHeld' /\ NamesAreFresh'
           /\ lease' \subseteq Worker
           /\ retire' \in [Worker -> RetireRecord]
           /\ retire'[w].step = "releasing" /\ retire'[w].by = i
           /\ \A v \in Worker : v # w => retire'[v] = retire[v]
<1>1. Holders(w) = {} /\ retire[w].step = "none"
  BY DEF BindingInv, LeaseIsHeld
<1> DEFINE r == [step |-> "releasing", lid |-> binding[w], by |-> i]
<1>2. r \in RetireRecord /\ r.step = "releasing" /\ r.by = i
  BY DEF BindingInv, TypeOK, RetireRecord
<1>3. retire' = [retire EXCEPT ![w] = r] /\ lease' = lease \cup {w}
  BY DEF ClaimRetirement
<1> HIDE DEF r
<1>4. /\ retire' \in [Worker -> RetireRecord] /\ retire'[w] = r
      /\ \A v \in Worker : v # w => retire'[v] = retire[v]
  BY <1>2, <1>3 DEF BindingInv, TypeOK
<1>5. LeaseIsHeld'
  <2>1. \A v \in Worker : Holders(v)' = Holders(v)
    BY DEF Holders
  <2> QED
    BY <1>1, <1>2, <1>3, <1>4, <2>1 DEF BindingInv, LeaseIsHeld
<1>6. NamesAreFresh'
  <2>1. ASSUME NEW u \in Parallel PROVE HasFreshName(u)'
    <3>1. u \in Task /\ W(u) \in Worker
      BY KindsDisjoint DEF W
    <3>2. HasFreshName(u)
      BY DEF BindingInv, NamesAreFresh
    <3> QED
      BY <1>4, <3>1, <3>2 DEF HasFreshName, At, Is, W
  <2> QED
    BY <2>1 DEF NamesAreFresh
<1>7. lease' \subseteq Worker
  BY <1>3 DEF BindingInv, TypeOK
<1> QED
  BY <1>2, <1>4, <1>5, <1>6, <1>7

\* Forgetting ended tasks takes nothing from a start under way.
LEMMA CleanKeeps ==
    ASSUME BindingInv, Clean
    PROVE  BindingInv'
<1> DEFINE over == {t \in Task : Exists(t) /\ Over(t) /\ ~task[t].review}
<1>1. /\ task' = [t \in Task |-> IF t \in over THEN NoTask("gone") ELSE task[t]]
      /\ returned' = returned \ over
      /\ cleaning' \subseteq Worker
      /\ UNCHANGED <<binding, start, reserved, slots, lease, retire, recon, turn,
                     stops, owner>>
  BY DEF Clean
<1>2. NoTask("gone") \in TaskRecord
  BY DEF NoTask, TaskRecord, Status, Terminal
<1>3. task' \in [Task -> TaskRecord]
  BY <1>1, <1>2 DEF BindingInv, TypeOK
<1>4. TypeOK'
  BY <1>1, <1>3 DEF BindingInv, TypeOK
<1>5. LeaseIsHeld' /\ CallsAreApart'
  BY <1>1 DEF BindingInv, LeaseIsHeld, Holders, CallsAreApart
<1>6. ASSUME NEW u \in Task
      PROVE  HasShape(u)' /\ HoldsClaims(u)' /\ StartsFirst(u)'
  <2>1. HasShape(u)' /\ HoldsClaims(u)'
    BY <1>1, OneTask DEF HasShape, HoldsClaims, At, By, Drained
  <2>2. CASE u \in over
    <3>1. /\ task'[u].status = "gone" /\ ~task'[u].review /\ ~task'[u].answered
          /\ u \notin returned' /\ ~Is(u, "none")
      BY <1>1, <2>2 DEF NoTask, Exists
    <3> QED
      BY <1>1, <2>1, <3>1, OneTask DEF StartsFirst, Recorded, Unrecorded, At, By, Is, Waiting
  <2>3. CASE u \notin over
    <3>1. task'[u] = task[u] /\ (u \in returned' <=> u \in returned)
      BY <1>1, <2>3
    <3> QED
      BY <1>1, <2>1, <3>1, OneTask DEF StartsFirst, Recorded, At, By, Is
  <2> QED
    BY <2>2, <2>3
<1>7. NamesAreFresh'
  <2>1. ASSUME NEW u \in Parallel PROVE HasFreshName(u)'
    <3>1. u \in Task /\ HasFreshName(u)
      BY KindsDisjoint DEF BindingInv, NamesAreFresh
    <3>2. Is(u, "none")' => Is(u, "none")
      BY <1>1, <3>1 DEF Is, NoTask
    <3> QED
      BY <1>1, <3>1, <3>2 DEF HasFreshName, At, W
  <2> QED
    BY <2>1 DEF NamesAreFresh
<1> QED
  BY <1>4, <1>5, <1>6, <1>7 DEF BindingInv, StartsHaveShape, StartsComeFirst, ClaimsAreHeld

\* A clean-up of bindings takes the lease of a worker nobody holds.
LEMMA CleanRetiresKeeps ==
    ASSUME BindingInv, NEW w \in Worker, CleanRetires(w)
    PROVE  BindingInv'
<1>1. /\ cleaning' = cleaning \ {w}
      /\ UNCHANGED <<task, binding, start, reserved, slots, recon, turn, stops, owner,
                     returned>>
  BY DEF CleanRetires
<1>2. CASE binding[w] # 0 /\ MayRetire(w)
  <2>1. ClaimRetirement(w, 0) /\ w \notin lease /\ 0 \in 0..MaxReconciles
    BY <1>2, BindingBounds DEF CleanRetires, MayRetire
  <2>2. /\ LeaseIsHeld' /\ NamesAreFresh' /\ lease' \subseteq Worker
        /\ retire' \in [Worker -> RetireRecord]
        /\ retire'[w].by = 0
        /\ \A v \in Worker : v # w => retire'[v] = retire[v]
    BY <1>1, <1>2, <2>1, RetirementKeeps
  <2>3. StartsHaveShape' /\ StartsComeFirst' /\ ClaimsAreHeld'
    BY <1>1, StartsUntouched DEF Drained
  <2>4. CallsAreApart'
    BY <1>1, <2>2 DEF BindingInv, CallsAreApart
  <2>5. TypeOK'
    BY <1>1, <2>2 DEF BindingInv, TypeOK
  <2> QED
    BY <2>2, <2>3, <2>4, <2>5 DEF BindingInv
<1>3. CASE ~(binding[w] # 0 /\ MayRetire(w))
  <2>1. UNCHANGED <<lease, retire>>
    BY <1>3 DEF CleanRetires
  <2>2. /\ StartsHaveShape' /\ StartsComeFirst' /\ ClaimsAreHeld'
        /\ \A v \in Worker : Holders(v)' = Holders(v)
    BY <1>1, StartsUntouched DEF Drained
  <2>3. CallsAreApart' /\ LeaseIsHeld' /\ TypeOK'
    BY <1>1, <2>1, <2>2 DEF BindingInv, CallsAreApart, LeaseIsHeld, TypeOK
  <2>4. NamesAreFresh'
    BY <1>1, <2>1 DEF BindingInv, NamesAreFresh, HasFreshName, At, Is, W
  <2> QED
    BY <2>2, <2>3, <2>4 DEF BindingInv
<1> QED
  BY <1>2, <1>3

\* So does a reconciliation, for one task at a time.
LEMMA CallRetiresKeeps ==
    ASSUME BindingInv, NEW i \in Call, NEW t \in Task, CallRetires(i, t)
    PROVE  BindingInv'
<1> DEFINE bound == binding[W(t)] # 0
           claims == bound /\ MayRetire(W(t))
           r == [recon[i] EXCEPT !.todo = @ \ {t}, !.task = IF claims THEN {t} ELSE {},
                                 !.step = IF claims THEN "retiring" ELSE "retire",
                                 !.done = IF bound THEN @ ELSE @ \cup {t}]
<1>1. /\ recon' = [recon EXCEPT ![i] = r]
      /\ recon[i].step = "retire"
      /\ IF claims THEN ClaimRetirement(W(t), i) ELSE UNCHANGED <<lease, retire>>
      /\ UNCHANGED <<task, binding, start, reserved, slots, cleaning, turn, stops,
                     owner, returned>>
  BY DEF CallRetires
<1> HIDE DEF bound, claims
<1>2. r \in CallRecord /\ r.step = IF claims THEN "retiring" ELSE "retire"
  <2> DEFINE taken == IF claims THEN {t} ELSE {}
             next == IF claims THEN "retiring" ELSE "retire"
             gone == IF bound THEN recon[i].done ELSE recon[i].done \cup {t}
  <2>1. recon[i] \in CallRecord
    BY DEF BindingInv, TypeOK
  <2>2. /\ taken \in SUBSET Task /\ next \in {"retiring", "retire"}
        /\ recon[i].todo \ {t} \in SUBSET Task /\ gone \in SUBSET Task
    BY <2>1 DEF CallRecord
  <2>3. r = [recon[i] EXCEPT !.todo = @ \ {t}, !.task = taken, !.step = next,
                             !.done = gone]
    OBVIOUS
  <2> HIDE DEF r, taken, next, gone
  <2>4. r \in CallRecord /\ r.step = next
    BY <2>1, <2>2, <2>3 DEF CallRecord
  <2> QED
    BY <2>4 DEF next
<1>3. i \in 0..MaxReconciles /\ i # 0 /\ W(t) \in Worker
  BY OneTask, BindingBounds DEF Call
<1> HIDE DEF r
<1>4. /\ recon' \in [Call -> CallRecord] /\ recon'[i] = r
      /\ \A j \in Call : j # i => recon'[j] = recon[j]
      /\ \A u \in Task : Drained(u)' <=> Drained(u)
      /\ \A j \in Call : recon'[j].step = "draining" =>
             recon[j].step = "draining" /\ recon'[j] = recon[j]
  BY <1>1, <1>2, CallChanges
<1>5. /\ StartsHaveShape' /\ StartsComeFirst' /\ ClaimsAreHeld'
      /\ \A v \in Worker : Holders(v)' = Holders(v)
  BY <1>1, <1>4, StartsUntouched
<1>6. \A w \in Worker : retire[w].step # "none" /\ retire[w].by # 0 =>
          retire[w].by \in Call /\ retire[w].by # i
  BY <1>1 DEF BindingInv, CallsAreApart, TypeOK, RetireRecord, Call
<1>7. /\ LeaseIsHeld' /\ NamesAreFresh' /\ lease' \subseteq Worker
      /\ retire' \in [Worker -> RetireRecord]
      /\ claims => retire'[W(t)].by = i
      /\ ~claims => retire' = retire
      /\ \A v \in Worker : v # W(t) => retire'[v] = retire[v]
  <2>1. CASE claims
    <3>1. binding[W(t)] # 0 /\ W(t) \notin lease
      BY <2>1 DEF bound, claims, MayRetire
    <3> QED
      BY <1>1, <1>3, <2>1, <3>1, RetirementKeeps
  <2>2. CASE ~claims
    <3>1. LeaseIsHeld'
      BY <1>1, <1>5, <2>2 DEF BindingInv, LeaseIsHeld
    <3>2. NamesAreFresh'
      BY <1>1, <2>2 DEF BindingInv, NamesAreFresh, HasFreshName, At, Is, W
    <3> QED
      BY <1>1, <2>2, <3>1, <3>2 DEF BindingInv, TypeOK
  <2> QED
    BY <2>1, <2>2
<1>8. CallsAreApart'
  <2>1. \A j \in Call : recon'[j].step = "draining" => \E u \in Task : recon'[j].task = {u}
    BY <1>4 DEF BindingInv, CallsAreApart
  <2>2. \A j, k \in Call :
           recon'[j].step = "draining" /\ recon'[k].step = "draining" /\ j # k =>
               recon'[j].task \cap recon'[k].task = {}
    BY <1>4 DEF BindingInv, CallsAreApart
  <2>3. \A w \in Worker : retire'[w].step # "none" /\ retire'[w].by # 0 =>
           recon'[retire'[w].by].step = "retiring"
    <3>1. \A w \in Worker : retire[w].step # "none" /\ retire[w].by # 0 =>
             recon'[retire[w].by].step = "retiring"
      BY <1>4, <1>6 DEF BindingInv, CallsAreApart
    <3>2. CASE claims
      BY <1>2, <1>3, <1>4, <1>7, <3>1, <3>2
    <3>3. CASE ~claims
      BY <1>7, <3>1, <3>3
    <3> QED
      BY <3>2, <3>3
  <2>4. \A w, v \in Worker :
           w # v /\ retire'[w].step # "none" /\ retire'[v].step # "none" =>
               retire'[w].by = 0 \/ retire'[w].by # retire'[v].by
    <3>1. \A w, v \in Worker :
             w # v /\ retire[w].step # "none" /\ retire[v].step # "none" =>
                 retire[w].by = 0 \/ retire[w].by # retire[v].by
      BY DEF BindingInv, CallsAreApart
    <3>2. CASE claims
      BY <1>3, <1>6, <1>7, <3>1, <3>2
    <3>3. CASE ~claims
      BY <1>7, <3>1, <3>3
    <3> QED
      BY <3>2, <3>3
  <2> QED
    BY <2>1, <2>2, <2>3, <2>4 DEF CallsAreApart
<1>9. TypeOK'
  BY <1>1, <1>4, <1>7 DEF BindingInv, TypeOK
<1> QED
  BY <1>5, <1>7, <1>8, <1>9 DEF BindingInv

\* A retirement is over: the lease is given back and its caller goes on.
LEMMA RetiredKeeps ==
    ASSUME BindingInv, NEW w \in Worker, NEW gone \in BOOLEAN, Retired(w, gone),
           retire[w].step # "none",
           binding' = binding \/ binding' = [binding EXCEPT ![w] = 0],
           owner' \in [Worker -> SUBSET (0..MaxIdentities)],
           UNCHANGED <<task, start, reserved, slots, cleaning, turn, stops, returned>>
    PROVE  BindingInv'
<1> DEFINE i == retire[w].by
           r == [recon[i] EXCEPT !.step = "retire", !.task = {},
                                 !.done = recon[i].done \cup
                                            (IF gone THEN recon[i].task ELSE {})]
<1>0. TypeOK /\ CallsAreApart /\ LeaseIsHeld /\ NamesAreFresh
  BY DEF BindingInv
<1>1. /\ retire' = [retire EXCEPT ![w] = NoRetire] /\ lease' = lease \ {w}
      /\ recon' = IF i = 0 THEN recon ELSE [recon EXCEPT ![i] = r]
  BY DEF Retired
<1>2. /\ retire' \in [Worker -> RetireRecord]
      /\ retire'[w].step = "none"
      /\ \A v \in Worker : v # w => retire'[v] = retire[v]
  <2>1. NoRetire \in RetireRecord /\ NoRetire.step = "none"
    BY BindingBounds DEF NoRetire, RetireRecord
  <2> QED
    BY <1>0, <1>1, <2>1 DEF TypeOK
<1>3. i # 0 => i \in Call /\ recon[i].step = "retiring"
  BY <1>0 DEF TypeOK, CallsAreApart, RetireRecord, Call
<1>4. /\ recon' \in [Call -> CallRecord]
      /\ \A j \in Call : j # i => recon'[j] = recon[j]
      /\ \A u \in Task : Drained(u)' <=> Drained(u)
      /\ \A j \in Call : recon'[j].step = "draining" =>
             recon[j].step = "draining" /\ recon'[j] = recon[j]
  <2>1. CASE i = 0
    BY <1>0, <1>1, <2>1 DEF TypeOK, Drained
  <2>2. CASE i # 0
    <3>1. r \in CallRecord /\ r.step = "retire"
      <4> DEFINE new == recon[i].done \cup (IF gone THEN recon[i].task ELSE {})
      <4>1. recon[i] \in CallRecord
        BY <1>0, <1>3, <2>2 DEF TypeOK
      <4>2. new \in SUBSET Task
        BY <4>1 DEF CallRecord
      <4> HIDE DEF new
      <4>3. [recon[i] EXCEPT !.step = "retire", !.task = {}, !.done = new] \in CallRecord
        BY <4>1, <4>2 DEF CallRecord
      <4>4. [recon[i] EXCEPT !.step = "retire", !.task = {}, !.done = new].step = "retire"
        BY <4>1 DEF CallRecord
      <4> QED
        BY <4>3, <4>4 DEF new
    <3> HIDE DEF r, i
    <3>2. recon' = [recon EXCEPT ![i] = r] /\ i \in Call
          /\ recon[i].step # "draining" /\ r.step # "draining"
      BY <1>1, <1>3, <2>2, <3>1
    <3> QED
      BY <3>1, <3>2, CallChanges
  <2> QED
    BY <2>1, <2>2
<1> HIDE DEF r
<1>5. /\ StartsHaveShape' /\ StartsComeFirst' /\ ClaimsAreHeld'
      /\ \A v \in Worker : Holders(v)' = Holders(v)
  BY <1>4, StartsUntouched
<1>6. LeaseIsHeld'
  BY <1>0, <1>1, <1>2, <1>5 DEF LeaseIsHeld
<1>7. NamesAreFresh'
  <2>1. ASSUME NEW u \in Parallel PROVE HasFreshName(u)'
    <3>1. W(u) \in Worker /\ HasFreshName(u)
      BY <1>0, KindsDisjoint DEF W, NamesAreFresh
    <3>2. binding[W(u)] = 0 => binding'[W(u)] = 0
      BY <1>0, <3>1 DEF TypeOK
    <3>3. retire[W(u)].step = "none" => retire'[W(u)].step = "none"
      BY <1>2, <3>1
    <3> QED
      BY <3>1, <3>2, <3>3 DEF HasFreshName, At, Is, W
  <2> QED
    BY <2>1 DEF NamesAreFresh
<1>8. CallsAreApart'
  <2>1. \A j \in Call : recon'[j].step = "draining" => \E u \in Task : recon'[j].task = {u}
    BY <1>0, <1>4 DEF CallsAreApart
  <2>2. \A j, k \in Call :
           recon'[j].step = "draining" /\ recon'[k].step = "draining" /\ j # k =>
               recon'[j].task \cap recon'[k].task = {}
    BY <1>0, <1>4 DEF CallsAreApart
  <2>3. ASSUME NEW v \in Worker, retire'[v].step # "none", retire'[v].by # 0
        PROVE  recon'[retire'[v].by].step = "retiring"
    <3>1. v # w /\ retire'[v] = retire[v]
      BY <1>2, <2>3
    <3>2. retire[v].by \in Call /\ recon[retire[v].by].step = "retiring"
      BY <1>0, <2>3, <3>1 DEF TypeOK, CallsAreApart, RetireRecord, Call
    <3>3. retire[v].by # i
      BY <1>0, <2>3, <3>1 DEF CallsAreApart
    <3> QED
      BY <1>4, <3>1, <3>2, <3>3
  <2>4. \A x, v \in Worker :
           x # v /\ retire'[x].step # "none" /\ retire'[v].step # "none" =>
               retire'[x].by = 0 \/ retire'[x].by # retire'[v].by
    <3>1. \A v \in Worker : retire'[v].step # "none" => retire'[v] = retire[v]
      BY <1>2
    <3> QED
      BY <1>0, <3>1 DEF CallsAreApart
  <2> QED
    BY <2>1, <2>2, <2>3, <2>4 DEF CallsAreApart
<1>9. TypeOK'
  <2>1. binding' \in [Worker -> 0..MaxIdentities]
    BY <1>0, BindingBounds DEF TypeOK
  <2>2. lease' \subseteq Worker
    BY <1>0, <1>1 DEF TypeOK
  <2> QED
    BY <1>0, <1>2, <1>4, <2>1, <2>2 DEF TypeOK
<1> QED
  BY <1>5, <1>6, <1>7, <1>8, <1>9 DEF BindingInv

\* A retirement has released the owner, or ends without.
LEMMA RetireReleasesKeeps ==
    ASSUME BindingInv, NEW w \in Worker, RetireReleases(w)
    PROVE  BindingInv'
<1>1. /\ retire[w].step = "releasing"
      /\ UNCHANGED <<task, binding, start, reserved, slots, cleaning, turn, stops,
                     returned>>
  BY DEF RetireReleases
<1>2. owner' \in [Worker -> SUBSET (0..MaxIdentities)]
  BY DEF RetireReleases, BindingInv, TypeOK
<1>3. CASE /\ retire' = [retire EXCEPT ![w].step = "released"]
           /\ UNCHANGED <<lease, recon>>
  <2> DEFINE r == [retire[w] EXCEPT !.step = "released"]
  <2>1. r \in RetireRecord /\ r.step = "released" /\ r.by = retire[w].by
    BY DEF BindingInv, TypeOK, RetireRecord
  <2>2. retire' = [retire EXCEPT ![w] = r]
    BY <1>3
  <2> HIDE DEF r
  <2>3. /\ retire' \in [Worker -> RetireRecord] /\ retire'[w] = r
        /\ \A v \in Worker : v # w => retire'[v] = retire[v]
    BY <2>1, <2>2 DEF BindingInv, TypeOK
  <2>4. \A v \in Worker : /\ retire'[v].step = "none" <=> retire[v].step = "none"
                          /\ retire'[v].by = retire[v].by
    BY <1>1, <2>1, <2>3
  <2>5. /\ StartsHaveShape' /\ StartsComeFirst' /\ ClaimsAreHeld'
        /\ \A v \in Worker : Holders(v)' = Holders(v)
    BY <1>1, <1>3, StartsUntouched DEF Drained
  <2>6. LeaseIsHeld'
    BY <1>3, <2>4, <2>5 DEF BindingInv, LeaseIsHeld
  <2>7. NamesAreFresh'
    <3>1. ASSUME NEW u \in Parallel PROVE HasFreshName(u)'
      <4>1. W(u) \in Worker /\ HasFreshName(u)
        BY KindsDisjoint DEF W, BindingInv, NamesAreFresh
      <4> QED
        BY <1>1, <2>4, <4>1 DEF HasFreshName, At, Is, W
    <3> QED
      BY <3>1 DEF NamesAreFresh
  <2>8. CallsAreApart'
    BY <1>3, <2>4 DEF BindingInv, CallsAreApart
  <2>9. TypeOK'
    BY <1>1, <1>2, <1>3, <2>3 DEF BindingInv, TypeOK
  <2> QED
    BY <2>5, <2>6, <2>7, <2>8, <2>9 DEF BindingInv
<1>4. CASE Retired(w, FALSE)
  BY <1>1, <1>2, <1>4, RetiredKeeps
<1> QED
  BY <1>3, <1>4 DEF RetireReleases

\* A retirement deletes the binding it released, if it still is that one.
LEMMA RetireVerifiesKeeps ==
    ASSUME BindingInv, NEW w \in Worker, RetireVerifies(w)
    PROVE  BindingInv'
<1> DEFINE same == binding[w] = retire[w].lid /\ ~OwnedWorker(w)
<1>1. /\ retire[w].step # "none"
      /\ binding' = IF same THEN [binding EXCEPT ![w] = 0] ELSE binding
      /\ Retired(w, same \/ binding[w] = 0)
      /\ UNCHANGED <<task, start, reserved, slots, cleaning, turn, stops, owner,
                     returned>>
  BY DEF RetireVerifies
<1>2. owner' \in [Worker -> SUBSET (0..MaxIdentities)]
  BY <1>1 DEF BindingInv, TypeOK
<1>3. (same \/ binding[w] = 0) \in BOOLEAN
  OBVIOUS
<1> HIDE DEF same
<1> QED
  BY <1>1, <1>2, <1>3, RetiredKeeps

\* The tasks a call may end are queued ones, which nobody has started.
LostOrKept(u) ==
    /\ task'[u].status = task[u].status \/ (Is(u, "queued") /\ task'[u].status = "finished")
    /\ task'[u].review = task[u].review /\ task'[u].answered = task[u].answered

\* A task that fails in the queue, or is left alone, keeps what is known of it.
LEMMA LostKeeps ==
    ASSUME BindingInv, NEW u \in Task, LostOrKept(u), start'[u] = start[u],
           UNCHANGED <<turn, stops, returned>>
    PROVE  /\ HasShape(u)' /\ StartsFirst(u)'
           /\ Is(u, "none")' => Is(u, "none")
<1>1. HasShape(u)'
  BY OneTask DEF HasShape, At, By
<1>2. CASE task'[u].status = task[u].status
  BY <1>1, <1>2, OneTask DEF LostOrKept, StartsFirst, Recorded, At, By, Is
<1>3. CASE Is(u, "queued") /\ task'[u].status = "finished"
  <2>1. At(u, {"idle"}) /\ By(u, {"none"}) /\ start[u].why = "none"
        /\ ~task[u].review
    BY <1>3, OneTask DEF StartsFirst, HasShape, Waiting, At, Is
  <2> QED
    BY <1>1, <1>3, <2>1, OneTask
       DEF LostOrKept, StartsFirst, Recorded, Unrecorded, At, By, Is, Waiting
<1> QED
  BY <1>2, <1>3 DEF LostOrKept

\* A call moves on, and may write to tasks that have no start under way.
LEMMA CallKeeps ==
    ASSUME BindingInv, NEW i \in Call, NEW r \in CallRecord,
           recon' = [recon EXCEPT ![i] = r],
           recon[i].step \notin {"retiring", "draining"}, r.step # "draining",
           task' \in [Task -> TaskRecord], \A u \in Task : LostOrKept(u),
           UNCHANGED <<binding, start, reserved, slots, lease, retire, cleaning, turn,
                       stops, owner, returned>>
    PROVE  BindingInv'
<1>1. /\ recon' \in [Call -> CallRecord] /\ recon'[i] = r
      /\ \A j \in Call : j # i => recon'[j] = recon[j]
      /\ \A u \in Task : Drained(u)' <=> Drained(u)
      /\ \A j \in Call : recon'[j].step = "draining" =>
             recon[j].step = "draining" /\ recon'[j] = recon[j]
  BY CallChanges
<1>2. TypeOK'
  BY <1>1 DEF BindingInv, TypeOK
<1>3. LeaseIsHeld'
  BY DEF BindingInv, LeaseIsHeld, Holders
<1>4. ASSUME NEW u \in Task
      PROVE  HasShape(u)' /\ StartsFirst(u)' /\ HoldsClaims(u)'
  <2>1. HasShape(u)' /\ StartsFirst(u)'
    BY LostKeeps
  <2>2. HoldsClaims(u)'
    BY <1>1, OneTask DEF HoldsClaims, At, By
  <2> QED
    BY <2>1, <2>2
<1>5. NamesAreFresh'
  <2>1. ASSUME NEW u \in Parallel PROVE HasFreshName(u)'
    <3>1. u \in Task /\ HasFreshName(u)
      BY KindsDisjoint DEF BindingInv, NamesAreFresh
    <3>2. Is(u, "none")' => Is(u, "none")
      BY <3>1, LostKeeps
    <3> QED
      BY <3>1, <3>2 DEF HasFreshName, At, W
  <2> QED
    BY <2>1 DEF NamesAreFresh
<1>6. CallsAreApart'
  <2>1. \A j \in Call : recon'[j].step = "draining" => \E u \in Task : recon'[j].task = {u}
    BY <1>1 DEF BindingInv, CallsAreApart
  <2>2. \A j, k \in Call :
           recon'[j].step = "draining" /\ recon'[k].step = "draining" /\ j # k =>
               recon'[j].task \cap recon'[k].task = {}
    BY <1>1 DEF BindingInv, CallsAreApart
  <2>3. \A w \in Worker : retire[w].step # "none" /\ retire[w].by # 0 =>
           retire[w].by \in Call /\ recon[retire[w].by].step = "retiring"
    BY DEF BindingInv, CallsAreApart, TypeOK, RetireRecord, Call
  <2>4. \A w \in Worker : retire[w].step # "none" /\ retire[w].by # 0 =>
           recon'[retire[w].by].step = "retiring"
    BY <1>1, <2>3
  <2> QED
    BY <2>1, <2>2, <2>4 DEF BindingInv, CallsAreApart
<1> QED
  BY <1>2, <1>3, <1>4, <1>5, <1>6
     DEF BindingInv, StartsHaveShape, StartsComeFirst, ClaimsAreHeld

\* A reconciliation collects what it will retire.
LEMMA CollectKeeps ==
    ASSUME BindingInv, NEW i \in Call, Collect(i)
    PROVE  BindingInv'
<1> DEFINE ended == {t \in Task : Ended(t) /\ ~task[t].closed}
           todo == {t \in ended : binding[W(t)] # 0}
           r == [recon[i] EXCEPT !.step = "retire", !.todo = todo]
<1>1. /\ recon[i].step = "collect" /\ recon' = [recon EXCEPT ![i] = r]
      /\ task' = [t \in Task |-> IF t \in ended /\ binding[W(t)] = 0
                                 THEN [task[t] EXCEPT !.closed = TRUE] ELSE task[t]]
      /\ UNCHANGED <<binding, start, reserved, slots, lease, retire, cleaning, turn,
                     stops, owner, returned>>
  BY DEF Collect
<1>2. todo \in SUBSET Task
  OBVIOUS
<1> HIDE DEF todo, ended
<1>3. r \in CallRecord /\ r.step = "retire"
  BY <1>2 DEF BindingInv, TypeOK, CallRecord
<1> HIDE DEF r
<1>4. ASSUME NEW u \in Task
      PROVE  task'[u] \in TaskRecord /\ LostOrKept(u)
  BY <1>1, OneTask DEF LostOrKept, TaskRecord
<1>5. task' \in [Task -> TaskRecord]
  BY <1>1, <1>4
<1> QED
  BY <1>1, <1>3, <1>4, <1>5, CallKeeps

\* A reconciliation closes what it has retired.
LEMMA CloseKeeps ==
    ASSUME BindingInv, NEW i \in Call, Close(i)
    PROVE  BindingInv'
<1> DEFINE r == [recon[i] EXCEPT !.step = "drain", !.done = {}]
<1>1. /\ recon[i].step = "retire" /\ recon' = [recon EXCEPT ![i] = r]
      /\ task' = [t \in Task |-> IF t \in recon[i].done /\ Ended(t)
                                 THEN [task[t] EXCEPT !.closed = TRUE] ELSE task[t]]
      /\ UNCHANGED <<binding, start, reserved, slots, lease, retire, cleaning, turn,
                     stops, owner, returned>>
  BY DEF Close
<1>3. r \in CallRecord /\ r.step = "drain"
  BY DEF BindingInv, TypeOK, CallRecord
<1> HIDE DEF r
<1>4. ASSUME NEW u \in Task
      PROVE  task'[u] \in TaskRecord /\ LostOrKept(u)
  BY <1>1, OneTask DEF LostOrKept, TaskRecord
<1>5. task' \in [Task -> TaskRecord]
  BY <1>1, <1>4
<1> QED
  BY <1>1, <1>3, <1>4, <1>5, CallKeeps

\* A reconciliation has nothing more to drain.
LEMMA DrainEndsKeeps ==
    ASSUME BindingInv, NEW i \in Call, DrainEnds(i)
    PROVE  BindingInv'
<1>1. /\ recon[i].step = "drain" /\ recon' = [recon EXCEPT ![i] = NoCall]
      /\ UNCHANGED <<binding, start, reserved, slots, lease, retire, cleaning, turn,
                     stops, owner, returned>>
  BY DEF DrainEnds
<1>2. NoCall \in CallRecord /\ NoCall.step = "idle"
  BY DEF NoCall, CallRecord
<1>3. CASE task' = task
  <2>1. task' \in [Task -> TaskRecord] /\ \A u \in Task : LostOrKept(u)
    BY <1>3, OneTask DEF BindingInv, TypeOK, LostOrKept
  <2> QED
    BY <1>1, <1>2, <2>1, CallKeeps
<1>4. CASE task' = [u \in Task |-> IF u \in Queued
                                   THEN [task[u] EXCEPT !.status = "finished"]
                                   ELSE task[u]]
  <2>1. ASSUME NEW u \in Task
        PROVE  task'[u] \in TaskRecord /\ LostOrKept(u)
    BY <1>4, OneTask DEF LostOrKept, TaskRecord, Queued, Status, Terminal
  <2>2. task' \in [Task -> TaskRecord]
    BY <1>4, <2>1
  <2> QED
    BY <1>1, <1>2, <2>1, <2>2, CallKeeps
<1> QED
  BY <1>3, <1>4 DEF DrainEnds

\* A reconciliation records and binds the queued task it starts.
LEMMA DrainStartsKeeps ==
    ASSUME BindingInv, NEW i \in Call, DrainStarts(i)
    PROVE  BindingInv'
<1>1. PICK t \in Queued, lost \in SUBSET Queued, l \in 0..MaxIdentities :
          /\ t \notin lost
          /\ task' = [u \in Task |->
               IF u \in lost THEN [task[u] EXCEPT !.status = "finished"]
               ELSE IF u = t THEN [task[u] EXCEPT !.status = "running"] ELSE task[u]]
          /\ Bind(t, l)
          /\ start' = [start EXCEPT ![t] =
               Started("drain", "ensuring", l, binding[W(t)] = 0)]
          /\ recon' = [recon EXCEPT ![i] = [@ EXCEPT !.step = "draining", !.task = {t}]]
  <2>1. \A t \in Queued : t \in Task
    BY KindsDisjoint DEF Queued
  <2>2. \A t \in Queued : Staged(t) \subseteq 0..MaxIdentities
    BY <2>1, StagedIsIdentity
  <2> QED
    BY <2>2 DEF DrainStarts
<1>2. /\ recon[i].step = "drain"
      /\ UNCHANGED <<reserved, slots, lease, retire, cleaning, turn, stops, owner,
                     returned>>
  BY DEF DrainStarts
<1>3. /\ t \in Task /\ t \in Parallel /\ Is(t, "queued")
      /\ At(t, {"idle"}) /\ By(t, {"none"}) /\ ~start[t].held
      /\ t \notin turn /\ t \notin returned /\ ~task[t].answered /\ ~task[t].review
  <2>1. t \in Task /\ t \in Parallel /\ Is(t, "queued")
    BY KindsDisjoint DEF Queued
  <2> QED
    BY <2>1, OneTask DEF StartsFirst, HasShape, Waiting, At, Is
<1>4. t \notin reserved /\ t \notin slots /\ ~Drained(t)
  BY <1>3, OneTask DEF HoldsClaims, At, By, Reserving
<1>5. /\ start' \in [Task -> StartRecord]
      /\ start'[t].step = "ensuring" /\ start'[t].kind = "drain"
      /\ ~start'[t].held /\ start'[t].why = "none"
      /\ \A u \in Task : u # t => start'[u] = start[u]
  <2> DEFINE r == Started("drain", "ensuring", l, binding[W(t)] = 0)
  <2>1. /\ r \in StartRecord /\ r.step = "ensuring" /\ r.kind = "drain"
        /\ ~r.held /\ r.why = "none"
    BY <1>1 DEF Started, StartRecord, Step
  <2>2. start' = [start EXCEPT ![t] = r]
    BY <1>1
  <2> HIDE DEF r
  <2> QED
    BY <1>3, <2>1, <2>2, StartChanges
<1>6. /\ recon' \in [Call -> CallRecord]
      /\ recon'[i].step = "draining" /\ recon'[i].task = {t}
      /\ \A j \in Call : j # i => recon'[j] = recon[j]
  <2> DEFINE r == [recon[i] EXCEPT !.step = "draining", !.task = {t}]
  <2>1. r \in CallRecord /\ r.step = "draining" /\ r.task = {t}
    BY <1>3 DEF BindingInv, TypeOK, CallRecord
  <2>2. recon' = [recon EXCEPT ![i] = r]
    BY <1>1
  <2> HIDE DEF r
  <2> QED
    BY <2>1, <2>2 DEF BindingInv, TypeOK
<1>7. \A u \in Task : Drained(u)' <=> Drained(u) \/ u = t
  BY <1>2, <1>6 DEF Drained
<1>8. ASSUME NEW u \in Task, u # t
      PROVE  /\ HasShape(u)' /\ StartsFirst(u)' /\ HoldsClaims(u)'
             /\ task'[u] \in TaskRecord /\ LostOrKept(u)
             /\ Is(u, "none")' => Is(u, "none")
  <2>1. task'[u] \in TaskRecord /\ LostOrKept(u)
    BY <1>1, <1>8, OneTask DEF LostOrKept, TaskRecord, Queued, Status, Terminal
  <2>2. HasShape(u)' /\ StartsFirst(u)' /\ (Is(u, "none")' => Is(u, "none"))
    BY <1>2, <1>5, <1>8, <2>1, LostKeeps
  <2>3. HoldsClaims(u)'
    BY <1>2, <1>5, <1>7, <1>8, OneTask DEF HoldsClaims, At, By
  <2> QED
    BY <2>1, <2>2, <2>3
<1>9. /\ task'[t] \in TaskRecord /\ task'[t].status = "running"
      /\ task'[t].review = task[t].review /\ task'[t].answered = task[t].answered
  BY <1>1, <1>3, OneTask DEF TaskRecord, Status, Holding
<1>10. HasShape(t)' /\ StartsFirst(t)' /\ HoldsClaims(t)'
  <2>1. HasShape(t)'
    BY <1>3, <1>5 DEF HasShape, At, By
  <2>2. StartsFirst(t)'
    BY <1>2, <1>3, <1>5, <1>9 DEF StartsFirst, Recorded, Unrecorded, At, By, Is, Waiting
  <2>3. HoldsClaims(t)'
    BY <1>2, <1>3, <1>4, <1>5, <1>7 DEF HoldsClaims, At, By, Reserving
  <2> QED
    BY <2>1, <2>2, <2>3
<1>11. StartsHaveShape' /\ StartsComeFirst' /\ ClaimsAreHeld'
  BY <1>8, <1>10 DEF StartsHaveShape, StartsComeFirst, ClaimsAreHeld
<1>12. LeaseIsHeld'
  <2>1. LeaseFollows(t)
    BY <1>2, <1>3, <1>5 DEF LeaseFollows
  <2> QED
    BY <1>2, <1>3, <1>5, <2>1, LeaseStep
<1>13. /\ binding' \in [Worker -> 0..MaxIdentities]
       /\ \A w \in Worker : w # W(t) => binding'[w] = binding[w]
  BY <1>1, <1>3, BindingChanges
<1>14. NamesAreFresh'
  <2>1. ASSUME NEW u \in Parallel, u # t PROVE HasFreshName(u)'
    <3>1. u \in Task /\ W(u) \in Worker /\ W(u) # W(t) /\ HasFreshName(u)
      BY <1>3, <2>1, OwnWorkerFacts DEF BindingInv, NamesAreFresh
    <3> QED
      BY <1>2, <1>5, <1>8, <1>13, <2>1, <3>1 DEF HasFreshName, At, W
  <2>2. HasFreshName(t)'
    BY <1>9 DEF HasFreshName, Is
  <2> QED
    BY <2>1, <2>2 DEF NamesAreFresh
<1>15. CallsAreApart'
  <2>1. \A j \in Call : recon'[j].step = "draining" => \E u \in Task : recon'[j].task = {u}
    BY <1>3, <1>6 DEF BindingInv, CallsAreApart
  <2>2. \A j, k \in Call :
           recon'[j].step = "draining" /\ recon'[k].step = "draining" /\ j # k =>
               recon'[j].task \cap recon'[k].task = {}
    <3>1. \A j \in Call : j # i /\ recon'[j].step = "draining" => t \notin recon'[j].task
      BY <1>4, <1>6 DEF Drained
    <3>2. \A j, k \in Call :
             recon[j].step = "draining" /\ recon[k].step = "draining" /\ j # k =>
                 recon[j].task \cap recon[k].task = {}
      BY DEF BindingInv, CallsAreApart
    <3> QED
      BY <1>6, <3>1, <3>2
  <2>3. \A w \in Worker : retire[w].step # "none" /\ retire[w].by # 0 =>
           retire[w].by \in Call /\ recon[retire[w].by].step = "retiring"
    BY DEF BindingInv, CallsAreApart, TypeOK, RetireRecord, Call
  <2>4. \A w \in Worker : retire[w].step # "none" /\ retire[w].by # 0 =>
           recon'[retire[w].by].step = "retiring"
    BY <1>2, <1>6, <2>3
  <2> QED
    BY <1>2, <2>1, <2>2, <2>4 DEF BindingInv, CallsAreApart
<1>16. TypeOK'
  <2>1. task' \in [Task -> TaskRecord]
    BY <1>1, <1>8, <1>9
  <2> QED
    BY <1>2, <1>5, <1>6, <1>13, <2>1 DEF BindingInv, TypeOK
<1> QED
  BY <1>11, <1>12, <1>14, <1>15, <1>16 DEF BindingInv

\* The drain of the task t is over, and its start with it.
LEMMA DrainedKeeps ==
    ASSUME BindingInv, NEW i \in Call, NEW t \in Task, NEW r \in CallRecord,
           recon[i].step = "draining", t \in recon[i].task,
           recon' = [recon EXCEPT ![i] = r], r.step \in {"idle", "drain"},
           ~start[t].held, By(t, {"drain"}), Finish(t),
           task' \in [Task -> TaskRecord], Alone(t),
           {reserved', slots', turn'} \subseteq SUBSET Task,
           StartsFirst(t)', ~Is(t, "none")',
           binding' \in [Worker -> 0..MaxIdentities],
           \A w \in Worker : w # W(t) => binding'[w] = binding[w],
           owner' \in [Worker -> SUBSET (0..MaxIdentities)],
           UNCHANGED <<reserved, slots, lease, retire, cleaning, stops, returned>>
    PROVE  BindingInv'
<1>1. /\ start' \in [Task -> StartRecord]
      /\ start'[t].step = "idle" /\ start'[t].kind = "none"
      /\ ~start'[t].held /\ start'[t].why = "none"
      /\ \A u \in Task : u # t => start'[u] = start[u]
  BY FinishFacts
<1>2. /\ recon' \in [Call -> CallRecord] /\ recon'[i] = r
      /\ \A j \in Call : j # i => recon'[j] = recon[j]
  BY DEF BindingInv, TypeOK
<1>3. recon[i].task = {t}
  BY DEF BindingInv, CallsAreApart
<1>4. \A j \in Call : j # i /\ recon[j].step = "draining" => t \notin recon[j].task
  BY DEF BindingInv, CallsAreApart
<1>5. \A u \in Task : u # t => (Drained(u)' <=> Drained(u))
  BY <1>2, <1>3 DEF Drained
<1>6. ~Drained(t)'
  BY <1>2, <1>4 DEF Drained
<1>7. HasShape(t)' /\ HoldsClaims(t)'
  BY <1>1, <1>6, OneTask DEF HasShape, HoldsClaims, At, By, Reserving
<1>8. StartsHaveShape' /\ StartsComeFirst' /\ ClaimsAreHeld'
  BY <1>5, <1>7, OthersKeep
<1>9. LeaseIsHeld'
  <2>1. LeaseFollows(t)
    BY <1>1 DEF LeaseFollows
  <2> QED
    BY <1>1, <2>1, LeaseStep
<1>10. NamesAreFresh'
  <2>1. ASSUME NEW u \in Parallel, u # t PROVE HasFreshName(u)'
    <3>1. u \in Task /\ W(u) \in Worker /\ W(u) # W(t) /\ HasFreshName(u)
      BY <2>1, OwnWorkerFacts DEF BindingInv, NamesAreFresh
    <3> QED
      BY <2>1, <3>1 DEF HasFreshName, Alone, At, Is, W
  <2>2. HasFreshName(t)'
    BY DEF HasFreshName
  <2> QED
    BY <2>1, <2>2 DEF NamesAreFresh
<1>11. CallsAreApart'
  <2>1. \A j \in Call : recon'[j].step = "draining" =>
            recon[j].step = "draining" /\ recon'[j] = recon[j]
    BY <1>2
  <2>2. \A w \in Worker : retire[w].step # "none" /\ retire[w].by # 0 =>
           retire[w].by \in Call /\ recon[retire[w].by].step = "retiring"
    BY DEF BindingInv, CallsAreApart, TypeOK, RetireRecord, Call
  <2>3. \A w \in Worker : retire[w].step # "none" /\ retire[w].by # 0 =>
           recon'[retire[w].by].step = "retiring"
    BY <1>2, <2>2
  <2>4. \A j \in Call : recon'[j].step = "draining" => \E u \in Task : recon'[j].task = {u}
    BY <2>1 DEF BindingInv, CallsAreApart
  <2>5. \A j, k \in Call :
           recon'[j].step = "draining" /\ recon'[k].step = "draining" /\ j # k =>
               recon'[j].task \cap recon'[k].task = {}
    BY <2>1 DEF BindingInv, CallsAreApart
  <2> QED
    BY <2>3, <2>4, <2>5 DEF BindingInv, CallsAreApart
<1>12. TypeOK'
  BY <1>1, <1>2 DEF BindingInv, TypeOK
<1> QED
  BY <1>8, <1>9, <1>10, <1>11, <1>12 DEF BindingInv

\* A drained task's owner was ensured and its turn is launched.
LEMMA DrainEnsuredKeeps ==
    ASSUME BindingInv, NEW i \in Call, NEW t \in Task, DrainEnsured(i, t)
    PROVE  BindingInv'
<1> DEFINE drain == [recon[i] EXCEPT !.step = "drain", !.task = {}]
<1>0. PICK r \in {drain, NoCall} : recon' = [recon EXCEPT ![i] = r]
  BY DEF DrainEnsured
<1>1. /\ recon[i].step = "draining" /\ t \in recon[i].task
      /\ recon' = [recon EXCEPT ![i] = r] /\ Finish(t) /\ turn' = turn \cup {t}
      /\ UNCHANGED <<task, binding, reserved, slots, lease, retire, cleaning, stops,
                     returned>>
  BY <1>0 DEF DrainEnsured
<1>2. r \in CallRecord /\ r.step \in {"idle", "drain"}
  <2>1. drain \in CallRecord /\ drain.step = "drain"
    BY DEF BindingInv, TypeOK, CallRecord
  <2>2. NoCall \in CallRecord /\ NoCall.step = "idle"
    BY DEF NoCall, CallRecord
  <2> QED
    BY <1>0, <2>1, <2>2
<1> HIDE DEF drain
<1>3. Drained(t)
  BY <1>1 DEF Drained
<1>4. /\ By(t, {"drain"}) /\ ~start[t].held
      /\ task[t].status \notin Waiting /\ ~task[t].review
  BY <1>3, OneTask DEF DrainEnsured, HoldsClaims, HasShape, StartsFirst, Recorded, At, By
<1>5. /\ start'[t].step = "idle" /\ start'[t].kind = "none" /\ start'[t].why = "none"
      /\ \A u \in Task : u # t => start'[u] = start[u]
  BY <1>1, FinishFacts
<1>6. Alone(t)
  BY <1>1, <1>5 DEF Alone
<1>7. StartsFirst(t)'
  BY <1>1, <1>4, <1>5, OneTask DEF StartsFirst, Recorded, Unrecorded, At, By, Is, Waiting
<1>8. ~Is(t, "none")'
  BY <1>1, <1>4 DEF Is, Waiting
<1>9. owner' \in [Worker -> SUBSET (0..MaxIdentities)]
  <2>1. PICK l \in {start[t].lid, binding[W(t)]} :
            owner' = [owner EXCEPT ![W(t)] = @ \cup {l, binding[W(t)]}]
    BY DEF DrainEnsured
  <2>2. l \in 0..MaxIdentities /\ binding[W(t)] \in 0..MaxIdentities
    BY <2>1, OneTask DEF StartRecord
  <2> QED
    BY <2>1, <2>2, OneTask
<1>10. {reserved', slots', turn'} \subseteq SUBSET Task
  BY <1>1, OneTask
<1> QED
  BY <1>1, <1>2, <1>4, <1>6, <1>7, <1>8, <1>9, <1>10, OneTask, DrainedKeeps

\* A drained task that failed to start is queued again.
LEMMA DrainRestoresKeeps ==
    ASSUME BindingInv, NEW i \in Call, NEW t \in Task, DrainRestores(i, t)
    PROVE  BindingInv'
<1>1. /\ recon[i].step = "draining" /\ t \in recon[i].task
      /\ recon' = [recon EXCEPT ![i] = NoCall] /\ Finish(t) /\ At(t, {"restore"})
      /\ UNCHANGED <<reserved, slots, lease, retire, cleaning, turn, stops, owner,
                     returned>>
  BY DEF DrainRestores
<1>2. NoCall \in CallRecord /\ NoCall.step \in {"idle", "drain"}
  BY DEF NoCall, CallRecord
<1>3. Drained(t)
  BY <1>1 DEF Drained
<1>4. /\ By(t, {"drain"}) /\ ~start[t].held
      /\ task[t].status \notin Waiting
      /\ t \notin turn /\ t \notin returned /\ ~task[t].answered /\ ~task[t].review
      /\ ~Is(t, "blocked")
  BY <1>1, <1>3, OneTask DEF HoldsClaims, HasShape, StartsFirst, Recorded, At, By
<1>5. /\ start'[t].step = "idle" /\ start'[t].kind = "none" /\ start'[t].why = "none"
      /\ \A u \in Task : u # t => start'[u] = start[u]
  BY <1>1, FinishFacts
<1>6. /\ task' \in [Task -> TaskRecord]
      /\ task'[t].status \in {task[t].status, "queued"}
      /\ task'[t].review = task[t].review /\ task'[t].answered = task[t].answered
      /\ \A u \in Task : u # t => task'[u] = task[u]
  BY StatusChanges, OneTask DEF DrainRestores, Status
<1>7. Alone(t)
  BY <1>1, <1>5, <1>6 DEF Alone
<1>8. StartsFirst(t)'
  BY <1>1, <1>4, <1>5, <1>6, OneTask DEF StartsFirst, Recorded, Unrecorded, At, By, Is, Waiting
<1>9. ~Is(t, "none")'
  BY <1>4, <1>6 DEF Is, Waiting
<1>10. /\ binding' \in [Worker -> 0..MaxIdentities]
       /\ \A w \in Worker : w # W(t) => binding'[w] = binding[w]
  BY OneTask, BindingChanges, BindingBounds DEF DrainRestores, Unbind
<1>11. {reserved', slots', turn'} \subseteq SUBSET Task
  BY <1>1, OneTask
<1> QED
  BY <1>1, <1>2, <1>4, <1>6, <1>7, <1>8, <1>9, <1>10, <1>11, OneTask, DrainedKeeps

\* Nothing in memory survives a restart, and nothing on disk needs it.
LEMMA RestartKeeps ==
    ASSUME BindingInv, Restart
    PROVE  BindingInv'
<1>1. /\ start' = [t \in Task |-> NoStart]
      /\ reserved' = {} /\ slots' = {} /\ lease' = {} /\ cleaning' = {}
      /\ retire' = [w \in Worker |-> NoRetire]
      /\ recon' = [i \in Call |-> IF i = 1 THEN [NoCall EXCEPT !.step = "collect"] ELSE NoCall]
      /\ turn' = {} /\ stops' = {}
      /\ owner' \in {owner, [w \in Worker |-> {}]}
      /\ task' = [t \in Task |-> IF t \in Parallel /\ Is(t, "none") /\ ~At(t, {"idle"})
                                 THEN NoTask("gone") ELSE task[t]]
      /\ UNCHANGED <<binding, returned>>
  BY DEF Restart
<1>2. /\ NoStart \in StartRecord /\ NoStart.step = "idle" /\ NoStart.kind = "none"
      /\ ~NoStart.held /\ NoStart.why = "none"
  BY BindingBounds DEF NoStart, Started, StartRecord, Step
<1>3. NoRetire \in RetireRecord /\ NoRetire.step = "none"
  BY BindingBounds DEF NoRetire, RetireRecord
<1>4. \A i \in Call : recon'[i] \in CallRecord /\ recon'[i].step \in {"idle", "collect"}
  <2> DEFINE r == [NoCall EXCEPT !.step = "collect"]
  <2>1. r \in CallRecord /\ r.step = "collect"
    BY DEF NoCall, CallRecord
  <2>2. NoCall \in CallRecord /\ NoCall.step = "idle"
    BY DEF NoCall, CallRecord
  <2> HIDE DEF r
  <2>3. \A i \in Call : recon'[i] = r \/ recon'[i] = NoCall
    BY <1>1 DEF r
  <2> QED
    BY <2>1, <2>2, <2>3
<1>5. /\ NoTask("gone") \in TaskRecord /\ NoTask("gone").status = "gone"
      /\ ~NoTask("gone").review /\ ~NoTask("gone").answered
  BY DEF NoTask, TaskRecord, Status, Terminal
<1>6. ASSUME NEW u \in Task
      PROVE  /\ task'[u] \in TaskRecord
             /\ task'[u] = task[u] \/ task'[u] = NoTask("gone")
             /\ u \in Parallel /\ Is(u, "none")' => Is(u, "none") /\ At(u, {"idle"})
  BY <1>1, <1>5, OneTask DEF Is
<1>7. TypeOK'
  <2>1. task' \in [Task -> TaskRecord]
    BY <1>1, <1>6
  <2>2. recon' \in [Call -> CallRecord]
    BY <1>1, <1>4
  <2>3. owner' \in [Worker -> SUBSET (0..MaxIdentities)]
    BY <1>1 DEF BindingInv, TypeOK
  <2> QED
    BY <1>1, <1>2, <1>3, <2>1, <2>2, <2>3 DEF BindingInv, TypeOK
<1>8. LeaseIsHeld'
  BY <1>1, <1>2, <1>3 DEF LeaseIsHeld, Holders
<1>9. CallsAreApart'
  BY <1>1, <1>3, <1>4 DEF CallsAreApart
<1>10. ASSUME NEW u \in Task
       PROVE  HasShape(u)' /\ StartsFirst(u)' /\ HoldsClaims(u)'
  <2>1. start'[u] = NoStart
    BY <1>1
  <2>2. HasShape(u)'
    BY <1>2, <2>1 DEF HasShape, At, By
  <2>3. HoldsClaims(u)'
    BY <1>1, <1>2, <1>4, <2>1 DEF HoldsClaims, Drained, At, By, Reserving
  <2>4. StartsFirst(u)'
    <3>1. CASE task'[u] = task[u]
      BY <1>1, <1>2, <2>1, <3>1, OneTask
         DEF StartsFirst, Recorded, Unrecorded, At, By, Is, Waiting
    <3>2. CASE task'[u] = NoTask("gone")
      BY <1>1, <1>2, <1>5, <2>1, <3>2
         DEF StartsFirst, Recorded, Unrecorded, At, By, Is, Waiting
    <3> QED
      BY <1>6, <3>1, <3>2
  <2> QED
    BY <2>2, <2>3, <2>4
<1>11. NamesAreFresh'
  <2>1. ASSUME NEW u \in Parallel PROVE HasFreshName(u)'
    <3>1. u \in Task /\ W(u) \in Worker /\ HasFreshName(u)
      BY KindsDisjoint DEF BindingInv, NamesAreFresh, W
    <3> QED
      BY <1>1, <1>3, <1>6, <3>1 DEF HasFreshName, At, Is, W
  <2> QED
    BY <2>1 DEF NamesAreFresh
<1> QED
  BY <1>7, <1>8, <1>9, <1>10, <1>11
     DEF BindingInv, StartsHaveShape, StartsComeFirst, ClaimsAreHeld

-----------------------------------------------------------------------------
(* The invariant.                                                          *)

\* A state without tasks satisfies the invariant.
LEMMA InitHolds == Init => BindingInv
<1> SUFFICES ASSUME Init PROVE BindingInv
  OBVIOUS
<1>1. /\ NoStart \in StartRecord /\ NoStart.step = "idle" /\ NoStart.kind = "none"
      /\ ~NoStart.held /\ NoStart.why = "none"
  BY BindingBounds DEF NoStart, Started, StartRecord, Step
<1>2. NoRetire \in RetireRecord /\ NoRetire.step = "none"
  BY BindingBounds DEF NoRetire, RetireRecord
<1>3. NoCall \in CallRecord /\ NoCall.step = "idle"
  BY DEF NoCall, CallRecord
<1>4. /\ NoTask("none") \in TaskRecord /\ NoTask("none").status = "none"
      /\ ~NoTask("none").review /\ ~NoTask("none").answered
  BY DEF NoTask, TaskRecord, Status
<1>5. TypeOK
  BY <1>1, <1>2, <1>3, <1>4, BindingBounds DEF Init, TypeOK
<1>6. LeaseIsHeld /\ CallsAreApart
  BY <1>1, <1>2, <1>3 DEF Init, LeaseIsHeld, Holders, CallsAreApart
<1>7. ASSUME NEW u \in Task
      PROVE  HasShape(u) /\ StartsFirst(u) /\ HoldsClaims(u)
  <2>1. start[u] = NoStart /\ task[u] = NoTask("none")
    BY DEF Init
  <2>2. ~Drained(u)
    BY <1>3 DEF Init, Drained
  <2>3. HasShape(u)
    BY <1>1, <2>1 DEF HasShape, At, By
  <2>4. StartsFirst(u)
    BY <1>1, <1>4, <2>1 DEF Init, StartsFirst, Recorded, Unrecorded, At, By, Is, Waiting
  <2>5. HoldsClaims(u)
    BY <1>1, <2>1, <2>2 DEF Init, HoldsClaims, At, By, Reserving
  <2> QED
    BY <2>3, <2>4, <2>5
<1>8. NamesAreFresh
  BY <1>2, KindsDisjoint DEF Init, NamesAreFresh, HasFreshName, W
<1> QED
  BY <1>5, <1>6, <1>7, <1>8
     DEF BindingInv, StartsHaveShape, StartsComeFirst, ClaimsAreHeld

\* Every step preserves the invariant: one case for each operation.
LEMMA StepKeeps ==
    BindingInv /\ [Next]_vars => BindingInv'
<1> SUFFICES ASSUME BindingInv, [Next]_vars PROVE BindingInv'
  OBVIOUS
<1>1. ASSUME NEW t \in Task, Starts(t) PROVE BindingInv'
  BY <1>1, GateKeeps, ReserveKeeps, StageKeeps, EnsureEndsKeeps, PersistKeeps,
     UnreserveKeeps, TeardownEndsKeeps, RestoreKeeps, DetachedEnsureEndsKeeps,
     LookKeeps, AppliesKeeps, ClaimKeeps, ReleaseEndsKeeps, SettleKeeps
     DEF Starts
<1>2. ASSUME NEW t \in Task, Lives(t) PROVE BindingInv'
  BY <1>2, AskKeeps, AnswerKeeps, TurnEndsKeeps, CancelKeeps, StopDoneKeeps,
     StopFailsKeeps, ReviewKeeps
     DEF Lives
<1>3. ASSUME NEW i \in Call, Reconciles(i) PROVE BindingInv'
  BY <1>3, CollectKeeps, CloseKeeps, DrainStartsKeeps, DrainEndsKeeps,
     CallRetiresKeeps, DrainEnsuredKeeps, DrainRestoresKeeps
     DEF Reconciles
<1>4. ASSUME NEW w \in Worker, CleanRetires(w) \/ RetireReleases(w) \/ RetireVerifies(w)
      PROVE  BindingInv'
  BY <1>4, CleanRetiresKeeps, RetireReleasesKeeps, RetireVerifiesKeeps
<1>5. ASSUME UNCHANGED vars PROVE BindingInv'
  <2>1. TypeOK' /\ LeaseIsHeld' /\ CallsAreApart'
    BY <1>5 DEF vars, BindingInv, TypeOK, LeaseIsHeld, Holders, CallsAreApart
  <2>2. StartsHaveShape' /\ StartsComeFirst' /\ ClaimsAreHeld'
    BY <1>5, StartsUntouched DEF vars, Drained
  <2>3. NamesAreFresh'
    BY <1>5 DEF vars, BindingInv, NamesAreFresh, HasFreshName, At, Is, W
  <2> QED
    BY <2>1, <2>2, <2>3 DEF BindingInv
<1> QED
  BY <1>1, <1>2, <1>3, <1>4, <1>5, DrainFailsKeeps, CleanKeeps, RestartKeeps DEF Next

\* Every lease, reservation and slot has a holder who gives it back, whatever
\* starts, cancellations, retirements and restarts do to each other.
THEOREM BindingInvCorrect == Spec => []BindingInv
<1>1. Init => BindingInv
  BY InitHolds
<1>2. BindingInv /\ [Next]_vars => BindingInv'
  BY StepKeeps
<1> QED
  BY <1>1, <1>2, PTL DEF Spec

-----------------------------------------------------------------------------
(* Sessions: one task to a worker, and no release under a start.           *)

SessionInv == BindingInv /\ OneTaskPerWorker /\ SparesStarts

\* No task lays a new claim and no release begins.
Calmer ==
    /\ \A u \in Task : Claims(u)' => Claims(u)
    /\ \A u \in Task : At(u, {"teardown", "release"})' => At(u, {"teardown", "release"})
    /\ \A w \in Worker : retire'[w].step = "releasing" => retire[w].step = "releasing"

\* Where nobody gains a claim to a session, nothing can go wrong with it.
LEMMA CalmerKeeps ==
    ASSUME OneTaskPerWorker, SparesStarts, Calmer
    PROVE  OneTaskPerWorker' /\ SparesStarts'
<1>1. OneTaskPerWorker'
  BY DEF OneTaskPerWorker, Calmer, W
<1>2. ASSUME NEW w \in Worker, NEW u \in Task, W(u) = w, Claims(u)',
             Releasing(w)' \ {u} # {} \/ retire'[w].step = "releasing"
      PROVE  FALSE
  <2>1. Claims(u)
    BY <1>2 DEF Calmer
  <2>2. Releasing(w)' \subseteq Releasing(w)
    BY DEF Releasing, Calmer
  <2>3. Releasing(w) \ {u} # {} \/ retire[w].step = "releasing"
    BY <1>2, <2>2 DEF Calmer
  <2> QED
    BY <1>2, <2>1, <2>3 DEF SparesStarts
<1>3. SparesStarts'
  BY <1>2 DEF SparesStarts, W
<1> QED
  BY <1>1, <1>3

\* A task that is recorded and not over owns its worker session.
LEMMA ClaimsOwns ==
    ASSUME BindingInv, NEW u \in Task, Claims(u)
    PROVE  u \in reserved \/ Owns(u)
BY OneTask DEF Claims, Owns, Exists, Over, Is, Terminal, Holding

\* Whoever releases has the lease of the worker.
LEMMA ReleasingHeld ==
    ASSUME BindingInv, NEW w \in Worker, w \notin lease
    PROVE  Releasing(w) = {} /\ retire[w].step = "none"
<1>1. Holders(w) = {} /\ retire[w].step = "none"
  BY DEF BindingInv, LeaseIsHeld
<1>2. \A t \in Task : At(t, {"teardown", "release"}) => start[t].held
  BY DEF BindingInv, StartsHaveShape, HasShape
<1> QED
  BY <1>1, <1>2 DEF Releasing, Holders

\* A step of one start changes the claims of no other task.
LEMMA AloneCalmer ==
    ASSUME NEW t \in Task, Alone(t), Claims(t)' => Claims(t),
           At(t, {"teardown", "release"})' => At(t, {"teardown", "release"}),
           UNCHANGED retire
    PROVE  Calmer
<1>1. ASSUME NEW u \in Task, u # t
      PROVE  /\ Claims(u)' => Claims(u)
             /\ At(u, {"teardown", "release"})' => At(u, {"teardown", "release"})
  BY <1>1 DEF Alone, Claims, At
<1> QED
  BY <1>1 DEF Calmer

\* The claims of the task whose start moves on, when it had one already or its
\* record stays as it is.
LEMMA ClaimedBefore ==
    ASSUME BindingInv, NEW t \in Task, t \in reserved
    PROVE  Claims(t)
<1>1. ~At(t, {"idle"})
  BY OneTask DEF HoldsClaims, At, Reserving
<1> QED
  BY <1>1, OneTask DEF Claims, StartsFirst

\* A step of one task's start or life changes nothing of another task.
LEMMA StartsAlone ==
    ASSUME BindingInv, NEW t \in Task, Starts(t) \/ Lives(t) \/ DrainFails(t)
    PROVE  Alone(t) /\ UNCHANGED retire
<1>0. start \in [Task -> StartRecord] /\ task \in [Task -> TaskRecord]
  BY OneTask
<1>1. CASE Gate(t) \/ Reserve(t) \/ Unreserve(t)
  <2>1. CASE Gate(t)
    <3>1. \A u \in Task : u # t => start'[u] = start[u] /\ task'[u] = task[u]
      BY <1>0, <2>1 DEF Gate, Begin, StatusOf
    <3> QED
      <4>1. /\ slots' = slots \cup {t} \/ UNCHANGED slots
            /\ UNCHANGED <<reserved, turn, stops, returned, retire>>
        BY <2>1 DEF Gate
      <4> QED
        BY <3>1, <4>1 DEF Alone
  <2>2. CASE Reserve(t)
    <3>1. \A u \in Task : u # t => start'[u] = start[u]
      BY <1>0, <2>2 DEF Reserve, Begin, Finish
    <3>2. /\ reserved' = reserved \cup {t} \/ UNCHANGED reserved
          /\ slots' = slots \ {t} \/ UNCHANGED slots
          /\ UNCHANGED <<task, turn, stops, returned, retire>>
      BY <2>2 DEF Reserve
    <3> QED
      BY <3>1, <3>2 DEF Alone
  <2>3. CASE Unreserve(t)
    <3>1. \A u \in Task : u # t => start'[u] = start[u]
      BY <1>0, <2>3 DEF Unreserve, Goto, Finish
    <3>2. \A u \in Task : u # t => task'[u] = task[u]
      BY <1>0, <2>3 DEF Unreserve, StatusOf
    <3> QED
      BY <2>3, <3>1, <3>2 DEF Unreserve, Launch, Alone
  <2> QED
    BY <1>1, <2>1, <2>2, <2>3
<1>2. CASE Stage(t) \/ EnsureEnds(t) \/ TeardownEnds(t) \/ Restore(t) \/ DrainFails(t)
  BY <1>0, <1>2 DEF Stage, EnsureEnds, TeardownEnds, Restore, DrainFails, RollBack, Goto, Alone
<1>3. CASE Persist(t)
  BY <1>0, <1>3 DEF Persist, RollBack, Goto, StatusOf, Alone
<1>4. CASE DetachedEnsureEnds(t) \/ Look(t) \/ Applies(t)
  BY <1>0, <1>4 DEF DetachedEnsureEnds, Look, Applies, Goto, Finish, Launch, Alone
<1>5. CASE Claim(t) \/ ReleaseEnds(t)
  BY <1>0, <1>5 DEF Claim, ReleaseEnds, Goto, Finish, Alone
<1>6. CASE Settle(t)
  BY <1>0, <1>6 DEF Settle, Finish, StatusOf, Alone
<1>7. CASE Lives(t)
  BY <1>0, <1>7 DEF Lives, Ask, Answer, TurnEnds, Cancel, StopDone, StopFails, Contest,
     Accept, Discard, Launch, StatusOf, Alone
<1> QED
  BY <1>1, <1>2, <1>3, <1>4, <1>5, <1>6, <1>7 DEF Starts

\* A start or a release of t, when no other task has a claim to its worker, nor
\* a release of the worker is under way if t had no claim before.
LEMMA TakesSession ==
    ASSUME SessionInv, NEW t \in Task, Alone(t), UNCHANGED retire,
           \A u \in Task : u # t /\ W(u) = W(t) => ~Claims(u),
           Claims(t)' => \/ Claims(t)
                         \/ Releasing(W(t)) \ {t} = {} /\ retire[W(t)].step # "releasing"
    PROVE  OneTaskPerWorker' /\ SparesStarts'
<1>1. \A u \in Task : u # t => (Claims(u)' <=> Claims(u))
  BY DEF Alone, Claims
<1>2. \A w \in Worker : Releasing(w)' \ {t} = Releasing(w) \ {t}
  BY DEF Releasing, Alone, At, W
<1>3. OneTaskPerWorker'
  BY <1>1 DEF SessionInv, OneTaskPerWorker, W
<1>4. ASSUME NEW w \in Worker, NEW u \in Task, W(u) = w, Claims(u)',
             Releasing(w)' \ {u} # {} \/ retire[w].step = "releasing"
      PROVE  FALSE
  <2>1. CASE u = t
    <3>1. Releasing(w)' \ {u} = Releasing(w) \ {u}
      BY <1>2, <2>1
    <3> QED
      BY <1>4, <2>1, <3>1 DEF SessionInv, SparesStarts
  <2>2. CASE u # t
    <3>1. Claims(u) /\ W(t) # w
      BY <1>1, <1>4, <2>2
    <3>2. Releasing(w)' = Releasing(w)
      BY <1>2, <3>1 DEF Releasing, W
    <3> QED
      BY <1>4, <3>1, <3>2 DEF SessionInv, SparesStarts
  <2> QED
    BY <2>1, <2>2
<1>5. SparesStarts'
  BY <1>4 DEF SparesStarts, W
<1> QED
  BY <1>3, <1>5

\* The steps of a start that holds a reservation.
LEMMA ReservedSpares ==
    ASSUME SessionInv, NEW t \in Task, t \in reserved, Alone(t), UNCHANGED retire
    PROVE  OneTaskPerWorker' /\ SparesStarts'
<1>1. Claims(t)
  BY ClaimedBefore DEF SessionInv
<1>2. \A u \in Task : u # t /\ W(u) = W(t) => ~Claims(u)
  BY <1>1 DEF SessionInv, OneTaskPerWorker
<1> QED
  BY <1>1, <1>2, TakesSession

\* The steps of a start in an ephemeral worker session.
LEMMA ParallelSpares ==
    ASSUME SessionInv, NEW t \in Parallel, Alone(t), UNCHANGED retire,
           Claims(t)' => Claims(t) \/ retire[W(t)].step # "releasing"
    PROVE  OneTaskPerWorker' /\ SparesStarts'
<1>1. t \in Task /\ \A u \in Task : W(u) = W(t) => u = t
  BY KindsDisjoint, OwnWorker DEF W
<1>2. Releasing(W(t)) \ {t} = {}
  BY <1>1 DEF Releasing
<1> QED
  BY <1>1, <1>2, TakesSession

\* The steps of a start neither share a session nor release another's.
LEMMA StartsSpare ==
    ASSUME SessionInv, NEW t \in Task, Starts(t) \/ DrainFails(t)
    PROVE  OneTaskPerWorker' /\ SparesStarts'
<1>0. BindingInv /\ OneTaskPerWorker /\ SparesStarts /\ Alone(t) /\ UNCHANGED retire
  BY StartsAlone DEF SessionInv
<1>1. CASE Gate(t)
  <2>1. t \in Parallel /\ HasFreshName(t) /\ reserved' = reserved /\ returned' = returned
    BY <1>0, <1>1, OneTask DEF Gate, Gated
  <2>2. CASE Is(t, "none")
    BY <1>0, <1>1, <2>1, <2>2, ParallelSpares DEF Gate, HasFreshName, At
  <2>3. CASE ~Is(t, "none")
    <3>1. Is(t, "needs_confirmation") /\ t \notin returned
      BY <1>0, <1>1, <2>3, OneTask DEF Gate, Fetched, StartsFirst, Waiting, Is
    <3>2. Claims(t)
      BY <3>1 DEF Claims, Is
    <3> QED
      BY <1>0, <2>1, <3>2, ParallelSpares
  <2> QED
    BY <2>2, <2>3
<1>2. CASE Reserve(t)
  <2>1. CASE Available(t)
    <3>1. W(t) \notin lease /\ W(t) \in Worker
      BY <1>0, <2>1, OneTask DEF Available
    <3>2. Releasing(W(t)) = {} /\ retire[W(t)].step = "none"
      BY <1>0, <3>1, ReleasingHeld
    <3>3. \A u \in Task : u # t /\ W(u) = W(t) => ~Claims(u)
      BY <1>0, <2>1, ClaimsOwns DEF Available, OwnedByOther
    <3> QED
      BY <1>0, <3>2, <3>3, TakesSession
  <2>2. CASE ~Available(t)
    <3>1. /\ Finish(t) /\ UNCHANGED <<task, reserved, returned>>
      BY <1>2, <2>2 DEF Reserve
    <3>2. start'[t].step = "idle"
      BY <1>0, <3>1, FinishFacts
    <3>3. Claims(t)' => Claims(t)
      BY <3>1 DEF Claims
    <3> QED
      BY <1>0, <3>2, <3>3, AloneCalmer, CalmerKeeps DEF At
  <2> QED
    BY <2>1, <2>2
<1>3. CASE Stage(t) \/ EnsureEnds(t) \/ Persist(t) \/ Unreserve(t) \/ Restore(t)
  <2>1. t \in reserved
    BY <1>0, <1>3, OneTask
       DEF Stage, EnsureEnds, Persist, Unreserve, Restore, HoldsClaims, HasShape,
           At, By, Reserving
  <2> QED
    BY <1>0, <2>1, ReservedSpares
<1>4. CASE TeardownEnds(t)
  <2>1. CASE By(t, {"drain"})
    <3>1. t \in Parallel /\ UNCHANGED <<task, reserved, returned>>
      BY <1>0, <1>4, <2>1, OneTask DEF TeardownEnds, HasShape
    <3>2. Claims(t)' => Claims(t)
      BY <3>1 DEF Claims
    <3> QED
      BY <1>0, <3>1, <3>2, ParallelSpares
  <2>2. CASE ~By(t, {"drain"})
    <3>1. t \in reserved
      BY <1>0, <1>4, <2>2, OneTask DEF TeardownEnds, HoldsClaims, At, Reserving
    <3> QED
      BY <1>0, <3>1, ReservedSpares
  <2> QED
    BY <2>1, <2>2
<1>5. CASE DrainFails(t)
  <2>1. t \in Parallel /\ UNCHANGED <<task, reserved, returned>>
    BY <1>0, <1>5, OneTask DEF DrainFails, HasShape
  <2>2. Claims(t)' => Claims(t)
    BY <2>1 DEF Claims
  <2> QED
    BY <1>0, <2>1, <2>2, ParallelSpares
<1>6. CASE DetachedEnsureEnds(t) \/ Look(t) \/ Applies(t)
  <2>1. UNCHANGED <<task, reserved, returned>>
    BY <1>6 DEF DetachedEnsureEnds, Look, Applies
  <2>2. start'[t].step \notin {"teardown", "release"}
    <3>1. start \in [Task -> StartRecord] /\ start[t] \in StartRecord
      BY <1>0, OneTask
    <3>2. CASE DetachedEnsureEnds(t)
      BY <3>1, <3>2 DEF DetachedEnsureEnds, Goto, StartRecord
    <3>3. CASE Look(t)
      <4>1. CASE Finish(t)
        BY <1>0, <4>1, FinishFacts
      <4>2. CASE Goto(t, "cancel")
        BY <1>0, <4>2, GotoFacts DEF Step
      <4>3. CASE start' = [start EXCEPT ![t] =
                             [start[t] EXCEPT !.step = "claim", !.why = "skip"]]
        BY <3>1, <4>3 DEF StartRecord
      <4> QED
        BY <3>3, <4>1, <4>2, <4>3 DEF Look, Goto
    <3>4. CASE Applies(t)
      <4>1. CASE Finish(t)
        BY <1>0, <4>1, FinishFacts
      <4>2. ASSUME NEW s \in {"claim", "settle"}, NEW y,
                   start' = [start EXCEPT ![t] =
                              [start[t] EXCEPT !.step = s, !.why = y]]
            PROVE  start'[t].step \notin {"teardown", "release"}
        BY <3>1, <4>2 DEF StartRecord
      <4> QED
        BY <3>4, <4>1, <4>2 DEF Applies
    <3> QED
      BY <1>6, <3>2, <3>3, <3>4
  <2>3. Claims(t)' => Claims(t)
    BY <2>1 DEF Claims
  <2> QED
    BY <1>0, <2>2, <2>3, AloneCalmer, CalmerKeeps DEF At
<1>7. CASE Claim(t)
  <2>1. UNCHANGED <<task, reserved, returned>>
    BY <1>7 DEF Claim
  <2>2. Claims(t)' => Claims(t)
    BY <2>1 DEF Claims
  <2>3. CASE ~OwnedByOther(t) /\ ~ReservedWorker(W(t))
    <3>1. \A u \in Task : u # t /\ W(u) = W(t) => ~Claims(u)
      BY <1>0, <2>3, ClaimsOwns DEF OwnedByOther, ReservedWorker
    <3> QED
      BY <1>0, <2>2, <3>1, TakesSession
  <2>4. CASE ~(~OwnedByOther(t) /\ ~ReservedWorker(W(t)))
    <3>0. start \in [Task -> StartRecord] /\ start[t] \in StartRecord
      BY <1>0, OneTask
    <3>1. start'[t].step \notin {"teardown", "release"}
      <4>1. CASE Finish(t)
        BY <1>0, <4>1, FinishFacts
      <4>2. CASE start' = [start EXCEPT ![t] =
                             [start[t] EXCEPT !.keep = TRUE, !.step = "settle"]]
        BY <3>0, <4>2 DEF StartRecord
      <4> QED
        BY <1>7, <2>4, <4>1, <4>2 DEF Claim
    <3> QED
      BY <1>0, <2>2, <3>1, AloneCalmer, CalmerKeeps DEF At
  <2> QED
    BY <2>3, <2>4
<1>8. CASE ReleaseEnds(t)
  <2>1. UNCHANGED <<task, reserved, returned>> /\ At(t, {"teardown", "release"})
    BY <1>8 DEF ReleaseEnds, At
  <2>2. Claims(t)' => Claims(t)
    BY <2>1 DEF Claims
  <2> QED
    BY <1>0, <2>1, <2>2, AloneCalmer, CalmerKeeps
<1>9. CASE Settle(t)
  <2>1. UNCHANGED <<reserved, returned>>
    BY <1>9 DEF Settle
  <2>2. task'[t].status \in {task[t].status, "finished", "cancelled"}
    BY <1>0, <1>9, OneTask DEF Settle, StatusOf, TaskRecord
  <2>3. start'[t].step \notin {"teardown", "release"}
    <3>1. start \in [Task -> StartRecord] /\ start[t] \in StartRecord
      BY <1>0, OneTask
    <3>2. CASE Finish(t)
      BY <1>0, <3>2, FinishFacts
    <3>3. ASSUME NEW s \in {"claim", "settle"},
                 start' = [start EXCEPT ![t] =
                            [start[t] EXCEPT !.step = s, !.why = "fail",
                                             !.keep = FALSE, !.held = FALSE]]
          PROVE  start'[t].step \notin {"teardown", "release"}
      BY <3>1, <3>3 DEF StartRecord
    <3> QED
      BY <1>9, <3>2, <3>3 DEF Settle
  <2>4. Claims(t)' => Claims(t)
    BY <2>1, <2>2 DEF Claims, Holding
  <2> QED
    BY <1>0, <2>3, <2>4, AloneCalmer, CalmerKeeps DEF At
<1> QED
  BY <1>1, <1>2, <1>3, <1>4, <1>5, <1>6, <1>7, <1>8, <1>9 DEF Starts

\* Nor do the steps in the life of a recorded task.
LEMMA LivesSpare ==
    ASSUME SessionInv, NEW t \in Task, Lives(t)
    PROVE  OneTaskPerWorker' /\ SparesStarts'
<1>1. BindingInv /\ OneTaskPerWorker /\ SparesStarts /\ Alone(t) /\ UNCHANGED retire
  BY StartsAlone DEF SessionInv
<1>2. UNCHANGED <<start, reserved>>
  BY DEF Lives, Ask, Answer, TurnEnds, Cancel, StopDone, StopFails, Contest, Accept, Discard
<1>3. CASE Discard(t)
  <2>1. t \in returned /\ returned' = returned
    BY <1>1, <1>3, OneTask DEF Discard, StartsFirst
  <2>2. ~Claims(t)'
    BY <2>1 DEF Claims
  <2> QED
    BY <1>1, <1>2, <2>2, AloneCalmer, CalmerKeeps DEF At
<1>4. CASE ~Discard(t)
  <2>1. returned \subseteq returned'
    BY <1>4 DEF Lives, Ask, Answer, TurnEnds, Cancel, StopDone, StopFails, Contest, Accept
  <2>2. task[t] \in TaskRecord /\ task \in [Task -> TaskRecord]
    BY <1>1, OneTask
  <2>3. task'[t].status \in Holding \cup {"needs_confirmation", "queued"} =>
            task[t].status \in Holding \cup {"needs_confirmation", "queued"}
    <3>1. CASE Ask(t) \/ Answer(t)
      BY <3>1 DEF Ask, Answer, Is, Holding
    <3>2. CASE TurnEnds(t) \/ StopFails(t)
      BY <2>2, <3>2 DEF TurnEnds, StopFails, StatusOf, Holding, TaskRecord
    <3>5. CASE StopDone(t)
      BY <1>1, <3>5, StopDoneFacts DEF Holding
    <3>3. CASE Cancel(t)
      <4>1. CASE task' = [task EXCEPT ![t].stop = TRUE]
        BY <2>2, <4>1 DEF TaskRecord
      <4>2. CASE task' = [task EXCEPT ![t] =
                            [task[t] EXCEPT !.status = "cancelled", !.stop = TRUE]]
        BY <2>2, <4>2 DEF Holding, TaskRecord
      <4> QED
        BY <3>3, <4>1, <4>2 DEF Cancel
    <3>4. CASE Contest(t) \/ Accept(t)
      BY <2>2, <3>4 DEF Contest, Accept, TaskRecord
    <3> QED
      BY <1>4, <3>1, <3>2, <3>3, <3>4, <3>5 DEF Lives
  <2>4. Claims(t)' => Claims(t)
    BY <1>2, <2>1, <2>3 DEF Claims
  <2> QED
    BY <1>1, <1>2, <2>4, AloneCalmer, CalmerKeeps DEF At
<1> QED
  BY <1>3, <1>4

\* A retirement begins only where nobody has a claim.
LEMMA RetirementSpares ==
    ASSUME SessionInv, NEW w \in Worker, NEW i, MayRetire(w), ClaimRetirement(w, i),
           UNCHANGED <<task, start, reserved, returned>>
    PROVE  OneTaskPerWorker' /\ SparesStarts'
<1>1. BindingInv /\ OneTaskPerWorker /\ SparesStarts
  BY DEF SessionInv
<1>2. \A u \in Task : /\ Claims(u)' <=> Claims(u)
                      /\ At(u, {"teardown", "release"})' <=> At(u, {"teardown", "release"})
  BY DEF Claims, At
<1>3. \A u \in Task : W(u) = w => ~Claims(u)
  BY <1>1, ClaimsOwns DEF MayRetire, OwnedWorker, ReservedWorker
<1>4. \A v \in Worker : v # w => retire'[v] = retire[v]
  BY <1>1 DEF ClaimRetirement, BindingInv, TypeOK
<1>5. OneTaskPerWorker'
  BY <1>1, <1>2 DEF OneTaskPerWorker, W
<1>6. \A v \in Worker : Releasing(v)' = Releasing(v)
  BY <1>2 DEF Releasing, W
<1>7. SparesStarts'
  BY <1>1, <1>2, <1>3, <1>4, <1>6 DEF SparesStarts, W
<1> QED
  BY <1>5, <1>7

\* Nor do retirements.
LEMMA RetiresSpare ==
    ASSUME SessionInv, NEW w \in Worker,
           CleanRetires(w) \/ RetireReleases(w) \/ RetireVerifies(w)
    PROVE  OneTaskPerWorker' /\ SparesStarts'
<1>1. BindingInv /\ OneTaskPerWorker /\ SparesStarts
  BY DEF SessionInv
<1>2. UNCHANGED <<task, start, reserved, returned>>
  BY DEF CleanRetires, RetireReleases, RetireVerifies
<1>3. /\ \A u \in Task : Claims(u)' => Claims(u)
      /\ \A u \in Task : At(u, {"teardown", "release"})' => At(u, {"teardown", "release"})
  BY <1>2 DEF Claims, At
<1>4. CASE CleanRetires(w) /\ binding[w] # 0 /\ MayRetire(w)
  BY <1>2, <1>4, RetirementSpares DEF CleanRetires
<1>5. CASE ~(CleanRetires(w) /\ binding[w] # 0 /\ MayRetire(w))
  <2>1. \A v \in Worker : retire'[v].step = "releasing" => retire[v].step = "releasing"
    BY <1>1, <1>5
       DEF CleanRetires, RetireReleases, RetireVerifies, Retired, NoRetire, BindingInv,
           TypeOK, RetireRecord
  <2> QED
    BY <1>1, <1>3, <2>1, CalmerKeeps DEF Calmer
<1> QED
  BY <1>4, <1>5

\* Nor do the calls of reconcileParallelSlots.
LEMMA CallsSpare ==
    ASSUME SessionInv, NEW i \in Call, Reconciles(i)
    PROVE  OneTaskPerWorker' /\ SparesStarts'
<1>1. BindingInv /\ OneTaskPerWorker /\ SparesStarts
  BY DEF SessionInv
<1>2. CASE Collect(i) \/ Close(i) \/ DrainEnds(i)
  <2>1. UNCHANGED <<start, reserved, returned, retire>>
    BY <1>2 DEF Collect, Close, DrainEnds
  <2>2. ASSUME NEW u \in Task PROVE task'[u].status \in {task[u].status, "finished"}
    BY <1>1, <1>2, OneTask DEF Collect, Close, DrainEnds, TaskRecord
  <2>3. Calmer
    BY <2>1, <2>2 DEF Calmer, Claims, At, Holding
  <2> QED
    BY <1>1, <2>3, CalmerKeeps
<1>3. ASSUME NEW t \in Task, CallRetires(i, t)
      PROVE  OneTaskPerWorker' /\ SparesStarts'
  <2>1. UNCHANGED <<task, start, reserved, returned>> /\ W(t) \in Worker
    BY <1>1, <1>3, OneTask DEF CallRetires
  <2>2. CASE binding[W(t)] # 0 /\ MayRetire(W(t))
    <3>1. ClaimRetirement(W(t), i)
      BY <1>3, <2>2 DEF CallRetires
    <3> QED
      BY <2>1, <2>2, <3>1, RetirementSpares
  <2>3. CASE ~(binding[W(t)] # 0 /\ MayRetire(W(t)))
    <3>1. UNCHANGED retire
      BY <1>3, <2>3 DEF CallRetires
    <3>2. Calmer
      BY <2>1, <3>1 DEF Calmer, Claims, At
    <3> QED
      BY <1>1, <3>2, CalmerKeeps
  <2> QED
    BY <2>2, <2>3
<1>4. CASE DrainStarts(i)
  <2>1. PICK t \in Queued, lost \in SUBSET Queued :
          /\ task' = [u \in Task |->
               IF u \in lost THEN [task[u] EXCEPT !.status = "finished"]
               ELSE IF u = t THEN [task[u] EXCEPT !.status = "running"] ELSE task[u]]
          /\ \E l \in Staged(t) :
                start' = [start EXCEPT ![t] =
                  Started("drain", "ensuring", l, binding[W(t)] = 0)]
    BY <1>4 DEF DrainStarts
  <2>2. UNCHANGED <<reserved, returned, retire>>
    BY <1>4 DEF DrainStarts
  <2>3. t \in Task /\ Is(t, "queued") /\ t \notin returned
    BY <1>1, KindsDisjoint, OneTask DEF Queued, StartsFirst, Waiting, Is
  <2>4. Claims(t)
    BY <2>3 DEF Claims, Is
  <2>5. ASSUME NEW u \in Task, u # t
        PROVE  task'[u].status \in {task[u].status, "finished"} /\ start'[u] = start[u]
    BY <1>1, <2>1, <2>5, OneTask DEF TaskRecord
  <2>6. start'[t].step = "ensuring"
    BY <1>1, <2>1, <2>3, OneTask DEF Started
  <2>7. ASSUME NEW u \in Task
        PROVE  /\ Claims(u)' => Claims(u)
               /\ At(u, {"teardown", "release"})' => At(u, {"teardown", "release"})
    <3>1. CASE u = t
      BY <2>4, <2>6, <3>1 DEF At
    <3>2. CASE u # t
      BY <2>2, <2>5, <3>2 DEF Claims, At, Holding
    <3> QED
      BY <3>1, <3>2
  <2>8. Calmer
    BY <2>2, <2>7 DEF Calmer
  <2> QED
    BY <1>1, <2>8, CalmerKeeps
<1>5. ASSUME NEW t \in Task, DrainEnsured(i, t) \/ DrainRestores(i, t)
      PROVE  OneTaskPerWorker' /\ SparesStarts'
  <2>1. Finish(t) /\ UNCHANGED <<reserved, returned, retire>>
    BY <1>5 DEF DrainEnsured, DrainRestores
  <2>2. /\ start'[t].step = "idle"
        /\ \A u \in Task : u # t => start'[u] = start[u]
    BY <1>1, <2>1, FinishFacts
  <2>3. ASSUME NEW u \in Task
        PROVE  task'[u] = task[u] \/ (task[u].status = "running" /\ task'[u].status = "queued")
    BY <1>1, <1>5, OneTask DEF DrainEnsured, DrainRestores, StatusOf, Is, TaskRecord
  <2>4. \A u \in Task : Claims(u)' => Claims(u)
    BY <2>1, <2>3 DEF Claims, Holding
  <2>5. Calmer
    BY <2>1, <2>2, <2>4 DEF Calmer, At
  <2> QED
    BY <1>1, <2>5, CalmerKeeps
<1> QED
  BY <1>2, <1>3, <1>4, <1>5 DEF Reconciles

\* Nor does forgetting ended tasks.
LEMMA CleanSpares ==
    ASSUME SessionInv, Clean
    PROVE  OneTaskPerWorker' /\ SparesStarts'
<1>1. BindingInv /\ OneTaskPerWorker /\ SparesStarts
  BY DEF SessionInv
<1> DEFINE over == {t \in Task : Exists(t) /\ Over(t) /\ ~task[t].review}
<1>2. /\ task' = [t \in Task |-> IF t \in over THEN NoTask("gone") ELSE task[t]]
      /\ returned' = returned \ over
      /\ UNCHANGED <<start, reserved, retire>>
  BY DEF Clean
<1>3. ASSUME NEW u \in Task, Claims(u)' PROVE Claims(u)
  <2>1. CASE u \in over
    <3>1. task'[u].status = "gone"
      BY <1>2, <2>1 DEF NoTask
    <3>2. u \in reserved
      BY <1>2, <1>3, <3>1 DEF Claims, Holding
    <3> QED
      BY <1>1, <3>2, ClaimedBefore
  <2>2. CASE u \notin over
    BY <1>2, <1>3, <2>2 DEF Claims
  <2> QED
    BY <2>1, <2>2
<1>4. Calmer
  BY <1>2, <1>3 DEF Calmer, At
<1> QED
  BY <1>1, <1>4, CalmerKeeps

\* Nor does a restart.
LEMMA RestartSpares ==
    ASSUME SessionInv, Restart
    PROVE  OneTaskPerWorker' /\ SparesStarts'
<1>1. BindingInv /\ OneTaskPerWorker /\ SparesStarts
  BY DEF SessionInv
<1>2. /\ reserved' = {} /\ UNCHANGED returned
      /\ \A u \in Task : start'[u] = NoStart
      /\ \A w \in Worker : retire'[w] = NoRetire
      /\ \A u \in Task : task'[u] = task[u] \/ task'[u] = NoTask("gone")
  BY DEF Restart
<1>3. \A u \in Task : Claims(u)' => Claims(u)
  BY <1>2 DEF Claims, NoTask, Holding
<1>4. Calmer
  BY <1>2, <1>3 DEF Calmer, At, NoStart, Started, NoRetire
<1> QED
  BY <1>1, <1>4, CalmerKeeps

\* So that every step keeps sessions exclusive and starts spared.
LEMMA SessionsKept ==
    SessionInv /\ [Next]_vars => SessionInv'
<1> SUFFICES ASSUME SessionInv, [Next]_vars PROVE SessionInv'
  OBVIOUS
<1>1. BindingInv'
  BY StepKeeps DEF SessionInv
<1>2. ASSUME UNCHANGED vars PROVE OneTaskPerWorker' /\ SparesStarts'
  BY <1>2 DEF vars, SessionInv, OneTaskPerWorker, SparesStarts, Claims, Releasing, At, W
<1>3. OneTaskPerWorker' /\ SparesStarts'
  BY <1>2, StartsSpare, LivesSpare, RetiresSpare, CallsSpare, CleanSpares, RestartSpares
     DEF Next
<1> QED
  BY <1>1, <1>3 DEF SessionInv

\* They are at the beginning, when nothing is claimed.
LEMMA SessionsInitially == Init => SessionInv
<1> SUFFICES ASSUME Init PROVE SessionInv
  OBVIOUS
<1>1. BindingInv
  BY InitHolds
<1>2. \A u \in Task : ~Claims(u)
  BY DEF Init, Claims, NoTask, Holding
<1> QED
  BY <1>1, <1>2 DEF SessionInv, OneTaskPerWorker, SparesStarts

\* And so they always are.
LEMMA SessionInvHolds == Spec => []SessionInv
<1>1. Init => SessionInv
  BY SessionsInitially
<1>2. SessionInv /\ [Next]_vars => SessionInv'
  BY SessionsKept
<1> QED
  BY <1>1, <1>2, PTL DEF Spec

\* However starts, roll-backs and retirements interleave, two tasks never hold
\* the same worker session.
THEOREM WorkersAreExclusive == Spec => []OneTaskPerWorker
<1>1. SessionInv => OneTaskPerWorker
  BY DEF SessionInv
<1> QED
  BY <1>1, SessionInvHolds, PTL

\* No engine session is released under a start of another task.
THEOREM StartsAreSpared == Spec => []SparesStarts
<1>1. SessionInv => SparesStarts
  BY DEF SessionInv
<1> QED
  BY <1>1, SessionInvHolds, PTL

-----------------------------------------------------------------------------
(* Bindings: a task that holds its session keeps it.                       *)

\* A start binds what is bound already, or where nothing is.
LEMMA StagedKeepsBound ==
    ASSUME BindingInv, NEW t \in Task, NEW u \in Task, NEW l \in Staged(u), Bind(u, l),
           binding[W(t)] # 0
    PROVE  binding'[W(t)] = binding[W(t)]
<1>1. W(t) \in Worker /\ W(u) \in Worker /\ binding \in [Worker -> 0..MaxIdentities]
  BY OneTask
<1>2. CASE W(u) = W(t)
  <2>1. l = binding[W(t)]
    BY <1>2 DEF Staged
  <2> QED
    BY <1>1, <1>2, <2>1 DEF Bind
<1>3. CASE W(u) # W(t)
  BY <1>1, <1>3 DEF Bind
<1> QED
  BY <1>2, <1>3

\* A step that takes away a task's binding ends that task's hold of its session.
LEMMA StepKeepsBound ==
    ASSUME SessionInv, Next, NEW t \in Task \ returned,
           task[t].status \in Holding, binding[W(t)] # 0,
           binding'[W(t)] # binding[W(t)]
    PROVE  task'[t].status \notin Holding
<1>1. /\ BindingInv /\ OneTaskPerWorker /\ t \in Task /\ Claims(t) /\ Owns(t)
      /\ W(t) \in Worker /\ binding \in [Worker -> 0..MaxIdentities]
  <2>1. BindingInv /\ OneTaskPerWorker /\ t \in Task
    BY DEF SessionInv
  <2>2. Claims(t) /\ Owns(t)
    BY DEF Claims, Owns, Exists, Over, Is, Holding, Terminal
  <2> QED
    BY <2>1, <2>2, OneTask
<1>2. ASSUME NEW u \in Task, Stage(u) \/ Persist(u)
      PROVE  FALSE
  <2>1. (\E l \in Staged(u) : Bind(u, l)) \/ UNCHANGED binding
    BY <1>2 DEF Stage, Persist
  <2> QED
    BY <1>1, <2>1, StagedKeepsBound
<1>3. ASSUME NEW u \in Task, Restore(u)
      PROVE  FALSE
  <2>1. u \in reserved /\ ~At(u, {"idle"}) /\ ~Recorded(u)
    BY <1>1, <1>3, OneTask DEF Restore, HoldsClaims, Recorded, Reserving, At, By
  <2>2. Claims(u)
    BY <1>1, <2>1, ClaimedBefore
  <2>3. u # t
    BY <1>1, <2>1, OneTask DEF StartsFirst, Is, Holding
  <2>4. W(u) # W(t)
    BY <1>1, <2>2, <2>3 DEF OneTaskPerWorker
  <2> QED
    BY <1>1, <1>3, <2>4 DEF Restore, Bind
<1>4. ASSUME NEW u \in Task, Settle(u)
      PROVE  task'[t].status \notin Holding
  <2>1. DropBinding(u) /\ ~OwnedByOther(u) /\ W(u) = W(t)
    <3>1. DropBinding(u)
      BY <1>1, <1>4 DEF Settle
    <3> QED
      BY <1>1, <3>1 DEF DropBinding, Unbind, Bind
  <2>2. u = t
    BY <1>1, <2>1 DEF OwnedByOther
  <2>3. /\ start[t].why = "skip" => ~Is(t, "running")
        /\ ~Is(t, "blocked")
    BY <1>1, <1>4, <2>2, OneTask DEF Settle, StartsFirst, At
  <2>4. task \in [Task -> TaskRecord] /\ task[t] \in TaskRecord
    BY <1>1, OneTask
  <2>5. \/ StatusOf(t, "cancelled") \/ StatusOf(t, "finished")
        \/ start[t].why = "skip" \/ Is(t, "cancelled")
    BY <1>1, <1>4, <2>2 DEF Settle
  <2>6. CASE StatusOf(t, "cancelled") \/ StatusOf(t, "finished")
    BY <1>1, <2>4, <2>6 DEF StatusOf, TaskRecord, Holding
  <2>7. CASE start[t].why = "skip" \/ Is(t, "cancelled")
    BY <2>3, <2>7 DEF Is, Holding
  <2> QED
    BY <2>5, <2>6, <2>7
<1>5. ASSUME NEW w \in Worker, RetireVerifies(w)
      PROVE  FALSE
  <2>1. w = W(t) /\ ~OwnedWorker(w)
    BY <1>1, <1>5 DEF RetireVerifies
  <2> QED
    BY <1>1, <2>1 DEF OwnedWorker
<1>6. ASSUME NEW i \in Call, DrainStarts(i)
      PROVE  FALSE
  <2>1. \E u \in Queued, l \in UNION {Staged(v) : v \in Queued} :
            l \in Staged(u) /\ Bind(u, l)
    BY <1>6 DEF DrainStarts
  <2>2. \A u \in Queued : u \in Task
    BY KindsDisjoint DEF Queued
  <2> QED
    BY <1>1, <2>1, <2>2, StagedKeepsBound
<1>7. ASSUME NEW i \in Call, NEW u \in Task, DrainRestores(i, u)
      PROVE  task'[t].status \notin Holding
  <2>1. StatusOf(u, "queued") /\ Unbind(u)
    BY <1>1, <1>7 DEF DrainRestores
  <2>2. W(u) = W(t)
    BY <1>1, <2>1 DEF Unbind, Bind
  <2>3. Drained(u)
    BY <1>7 DEF DrainRestores, Drained
  <2>4. u \in Parallel
    BY <1>1, <2>3, OneTask DEF HoldsClaims, HasShape
  <2>5. u = t
    BY <1>1, <2>2, <2>4, OwnWorker DEF W
  <2> QED
    BY <1>1, <2>1, <2>5, StatusChanges DEF Status, Holding
<1>8. CASE UNCHANGED binding
  BY <1>8
<1>9. ASSUME NEW u \in Task, Starts(u) \/ DrainFails(u)
      PROVE  UNCHANGED binding \/ Stage(u) \/ Persist(u) \/ Restore(u) \/ Settle(u)
  BY <1>9 DEF Starts, Gate, Reserve, EnsureEnds, Unreserve, TeardownEnds,
     DetachedEnsureEnds, Look, Applies, Claim, ReleaseEnds, DrainFails
<1>10. ASSUME NEW u \in Task, Lives(u)
       PROVE  UNCHANGED binding
  BY <1>10 DEF Lives, Ask, Answer, TurnEnds, Cancel, StopDone, StopFails, Contest,
     Accept, Discard
<1>11. ASSUME NEW i \in Call, Reconciles(i)
       PROVE  \/ UNCHANGED binding \/ DrainStarts(i)
              \/ \E u \in Task : DrainRestores(i, u)
  BY <1>11 DEF Reconciles, Collect, Close, DrainEnds, CallRetires, DrainEnsured
<1>12. ASSUME NEW w \in Worker, CleanRetires(w) \/ RetireReleases(w)
       PROVE  UNCHANGED binding
  BY <1>12 DEF CleanRetires, RetireReleases
<1>13. Clean \/ Restart => UNCHANGED binding
  BY DEF Clean, Restart
<1> QED
  BY <1>2, <1>3, <1>4, <1>5, <1>6, <1>7, <1>8, <1>9, <1>10, <1>11, <1>12, <1>13 DEF Next

\* A task that runs or is blocked never loses the only handle on its owner.
THEOREM BindingsStay == Spec => OwnedStaysBound
<1> DEFINE Stays == \A t \in Task \ returned :
                      task[t].status \in Holding /\ binding[W(t)] # 0
                        /\ binding'[W(t)] # binding[W(t)] =>
                          task'[t].status \notin Holding
<1>1. SessionInv /\ [Next]_vars => [Stays]_vars
  BY StepKeepsBound
<1>2. Spec => [][Stays]_vars
  BY <1>1, SessionInvHolds, PTL DEF Spec
<1> QED
  BY <1>2 DEF OwnedStaysBound

-----------------------------------------------------------------------------
(* Slots: the cap of parallel tasks.                                       *)

Holds == {t \in Parallel : task[t].status \in Holding}
Used == slots \cup (Holds \ returned)

\* What a task has to do to take a place under the cap.
Enters(t) == t \in Used' /\ t \notin Used

\* A step in which no task takes a place keeps the cap.
LEMMA NoneEnters ==
    ASSUME BindingInv, WithinCap, \A t \in Task : ~Enters(t),
           slots' \in SUBSET Task
    PROVE  WithinCap'
<1>1. Used \subseteq Task /\ Used' \subseteq Task
  BY KindsDisjoint DEF BindingInv, TypeOK, Used, Holds
<1>2. IsFiniteSet(Used)
  BY <1>1, TaskFinite, FS_Subset
<1>3. Used' \subseteq Used
  BY <1>1 DEF Enters
<1>4. /\ Cardinality(Used') <= Cardinality(Used)
      /\ Cardinality(Used) \in Nat /\ Cardinality(Used') \in Nat
  BY <1>2, <1>3, FS_Subset, FS_CardinalityType
<1>5. Cardinality(Used) <= Cap /\ Cap \in Nat
  BY BindingBounds DEF WithinCap, Used, Holds
<1>6. Cardinality(Used') <= Cap
  BY <1>4, <1>5
<1> QED
  BY <1>6 DEF WithinCap, Used, Holds

\* Where a slot is free, one task may take a place.
LEMMA OneEnters ==
    ASSUME BindingInv, CanStart, NEW t \in Task, slots' \in SUBSET Task,
           \A u \in Task : u # t => ~Enters(u)
    PROVE  WithinCap'
<1>1. slots \subseteq Task /\ Holds \subseteq Task /\ Used \subseteq slots \cup Holds
      /\ Used' \subseteq Task
  BY KindsDisjoint DEF BindingInv, TypeOK, Used, Holds
<1>2. IsFiniteSet(slots) /\ IsFiniteSet(Holds)
  BY <1>1, TaskFinite, FS_Subset
<1>3. /\ IsFiniteSet(slots \cup Holds)
      /\ Cardinality(slots \cup Holds) <= Cardinality(slots) + Cardinality(Holds)
      /\ Cardinality(slots \cup Holds) \in Nat
      /\ Cardinality(slots) \in Nat /\ Cardinality(Holds) \in Nat
  <2>1. IsFiniteSet(slots \cap Holds)
    BY <1>2, FS_Intersection
  <2>2. Cardinality(slots \cap Holds) \in Nat /\ Cardinality(slots) \in Nat
        /\ Cardinality(Holds) \in Nat
    BY <1>2, <2>1, FS_CardinalityType
  <2>3. IsFiniteSet(slots \cup Holds)
        /\ Cardinality(slots \cup Holds)
             = Cardinality(slots) + Cardinality(Holds) - Cardinality(slots \cap Holds)
    BY <1>2, FS_Union
  <2>4. Cardinality(slots \cup Holds) \in Nat
    BY <2>3, FS_CardinalityType
  <2> QED
    BY <2>2, <2>3, <2>4
<1>4. Cardinality(Holds) + Cardinality(slots) < Cap /\ Cap \in Nat
  BY BindingBounds DEF CanStart, ActiveSlots, Holds
<1>5. Used' \subseteq (slots \cup Holds) \cup {t}
  BY <1>1 DEF Enters
<1>6. /\ IsFiniteSet((slots \cup Holds) \cup {t})
      /\ Cardinality((slots \cup Holds) \cup {t}) <= Cardinality(slots \cup Holds) + 1
      /\ Cardinality((slots \cup Holds) \cup {t}) \in Nat
  <2>1. /\ IsFiniteSet((slots \cup Holds) \cup {t})
        /\ Cardinality((slots \cup Holds) \cup {t}) =
             IF t \in slots \cup Holds THEN Cardinality(slots \cup Holds)
             ELSE Cardinality(slots \cup Holds) + 1
    BY <1>3, FS_AddElement
  <2> QED
    BY <1>3, <2>1
<1>7. Cardinality(Used') <= Cardinality((slots \cup Holds) \cup {t})
      /\ Cardinality(Used') \in Nat
  BY <1>5, <1>6, FS_Subset, FS_CardinalityType
<1>8. Cardinality(Used') <= Cap
  BY <1>3, <1>4, <1>6, <1>7
<1> QED
  BY <1>8 DEF WithinCap, Used, Holds

\* Tasks that do not start to hold a session take no place.
LEMMA QuietEnters ==
    ASSUME NEW t \in Task,
           t \in slots' => t \in slots,
           t \in returned => t \in returned' \/ task'[t].status \notin Holding,
           task'[t].status \in Holding /\ t \notin returned' =>
               task[t].status \in Holding \/ t \in slots
    PROVE  ~Enters(t)
BY DEF Enters, Used, Holds

\* Of the steps of a start only the gate takes a place, where there is one.
LEMMA StartsStayWithin ==
    ASSUME BindingInv, WithinCap, NEW t \in Task, Starts(t) \/ DrainFails(t)
    PROVE  WithinCap'
<1>1. BindingInv'
  BY StepKeeps DEF Next
<1>2. slots' \in SUBSET Task
  BY <1>1 DEF BindingInv, TypeOK
<1>3. CASE UNCHANGED <<task, slots, returned>>
  BY <1>2, <1>3, QuietEnters, NoneEnters
<1>4. CASE Gate(t)
  <2>1. CASE CanStart
    <3>1. \A u \in Task : u # t => ~Enters(u)
      BY <1>4, <2>1 DEF Gate, Enters, Used, Holds
    <3> QED
      BY <1>2, <2>1, <3>1, OneEnters
  <2>2. CASE ~CanStart
    <3>1. StatusOf(t, "queued") /\ UNCHANGED <<slots, returned>>
      BY <1>4, <2>2 DEF Gate
    <3>2. \A u \in Task : ~Enters(u)
      BY <3>1, StatusChanges, QuietEnters DEF Status, Holding
    <3> QED
      BY <1>2, <3>2, NoneEnters
  <2> QED
    BY <2>1, <2>2
<1>5. CASE Reserve(t)
  <2>1. \A u \in Task : ~Enters(u)
    BY <1>5, QuietEnters DEF Reserve
  <2> QED
    BY <1>2, <2>1, NoneEnters
<1>6. CASE Persist(t)
  <2>1. UNCHANGED <<slots, returned>>
    BY <1>6 DEF Persist
  <2>2. \/ UNCHANGED task \/ StatusOf(t, "needs_confirmation")
        \/ StatusOf(t, "running") /\ By(t, {"human", "approve", "rpc"})
    BY <1>6 DEF Persist, By
  <2>3. CASE UNCHANGED task
    BY <2>1, <2>3, <1>3
  <2>4. CASE StatusOf(t, "needs_confirmation")
    <3>1. \A u \in Task : ~Enters(u)
      BY <2>1, <2>4, StatusChanges, QuietEnters DEF Status, Holding
    <3> QED
      BY <1>2, <3>1, NoneEnters
  <2>5. CASE StatusOf(t, "running") /\ By(t, {"human", "approve", "rpc"})
    <3>1. t \in Parallel => t \in slots
      BY <1>6, <2>5, OneTask DEF Persist, HoldsClaims, Reserving, At, By
    <3>2. ASSUME NEW u \in Task PROVE ~Enters(u)
      <4>1. CASE u = t
        BY <2>1, <3>1, <4>1 DEF Enters, Used, Holds
      <4>2. CASE u # t
        BY <2>1, <2>5, <4>2, StatusChanges, QuietEnters DEF Status, Holding
      <4> QED
        BY <4>1, <4>2
    <3> QED
      BY <1>2, <3>2, NoneEnters
  <2> QED
    BY <2>2, <2>3, <2>4, <2>5
<1>7. CASE Unreserve(t)
  <2>1. slots' = slots \ {t} /\ UNCHANGED returned
        /\ (UNCHANGED task \/ StatusOf(t, "gone"))
    BY <1>7 DEF Unreserve
  <2>2. \A u \in Task : ~Enters(u)
    BY <2>1, StatusChanges, QuietEnters DEF Status, Holding, Terminal
  <2> QED
    BY <1>2, <2>2, NoneEnters
<1>8. CASE Settle(t)
  <2>1. UNCHANGED <<slots, returned>>
        /\ (UNCHANGED task \/ StatusOf(t, "cancelled") \/ StatusOf(t, "finished"))
    BY <1>8 DEF Settle
  <2>2. \A u \in Task : ~Enters(u)
    BY <2>1, StatusChanges, QuietEnters DEF Status, Holding, Terminal
  <2> QED
    BY <1>2, <2>2, NoneEnters
<1>9. \/ UNCHANGED <<task, slots, returned>> \/ Gate(t) \/ Reserve(t) \/ Persist(t)
      \/ Unreserve(t) \/ Settle(t)
  BY DEF Starts, Stage, EnsureEnds, TeardownEnds, Restore, DetachedEnsureEnds, Look,
     Applies, Claim, ReleaseEnds, DrainFails
<1> QED
  BY <1>3, <1>4, <1>5, <1>6, <1>7, <1>8, <1>9

\* A recorded task takes no place, unless its result was discarded.
LEMMA LivesStayWithin ==
    ASSUME BindingInv, WithinCap, NEW t \in Task, Lives(t)
    PROVE  WithinCap'
<1>1. slots' \in SUBSET Task /\ UNCHANGED slots
  BY DEF Lives, Ask, Answer, TurnEnds, Cancel, StopDone, StopFails, Contest, Accept,
     Discard, BindingInv, TypeOK
<1>2. task \in [Task -> TaskRecord] /\ StartsFirst(t)
  BY OneTask
<1>3. returned \subseteq returned'
  BY DEF Lives, Ask, Answer, TurnEnds, Cancel, StopDone, StopFails, Contest, Accept,
     Discard
<1>4. ASSUME NEW u \in Task, u # t PROVE task'[u] = task[u]
  BY <1>2, <1>4 DEF Lives, Ask, Answer, TurnEnds, Cancel, StopDone, StopFails,
     Contest, Accept, Discard, StatusOf
<1>5. task'[t].status \in Holding => task[t].status \in Holding \/ t \in returned
  <2>1. CASE Ask(t) \/ Answer(t)
    BY <2>1 DEF Ask, Answer, Is, Holding
  <2>2. CASE TurnEnds(t) \/ Cancel(t) \/ StopFails(t)
    BY <1>2, <2>2 DEF TurnEnds, Cancel, StopFails, StatusOf, Holding, TaskRecord
  <2>5. CASE StopDone(t)
    BY <2>5, StopDoneFacts DEF Holding
  <2>3. CASE Contest(t) \/ Accept(t)
    BY <1>2, <2>3 DEF Contest, Accept, TaskRecord
  <2>4. CASE Discard(t)
    BY <1>2, <2>4 DEF Discard, StartsFirst
  <2> QED
    BY <2>1, <2>2, <2>3, <2>4, <2>5 DEF Lives
<1>6. \A u \in Task : ~Enters(u)
  BY <1>1, <1>3, <1>4, <1>5, QuietEnters
<1> QED
  BY <1>1, <1>6, NoneEnters

\* Of a reconciliation only the drain takes a place, where there is one.
LEMMA CallsStayWithin ==
    ASSUME BindingInv, WithinCap, NEW i \in Call, Reconciles(i)
    PROVE  WithinCap'
<1>1. slots' \in SUBSET Task /\ UNCHANGED <<slots, returned>>
  BY DEF Reconciles, Collect, Close, DrainStarts, DrainEnds, CallRetires, DrainEnsured,
     DrainRestores, BindingInv, TypeOK
<1>2. task \in [Task -> TaskRecord]
  BY DEF BindingInv, TypeOK
<1>3. CASE Collect(i) \/ Close(i) \/ DrainEnds(i)
  <2>1. ASSUME NEW u \in Task
        PROVE  task'[u].status = task[u].status \/ task'[u].status = "finished"
    BY <1>2, <1>3 DEF Collect, Close, DrainEnds, TaskRecord
  <2>2. \A u \in Task : ~Enters(u)
    BY <1>1, <2>1, QuietEnters DEF Holding
  <2> QED
    BY <1>1, <2>2, NoneEnters
<1>4. CASE DrainStarts(i)
  <2>1. CanStart
    BY <1>4 DEF DrainStarts
  <2>2. PICK t \in Queued, lost \in SUBSET Queued :
          task' = [u \in Task |->
             IF u \in lost THEN [task[u] EXCEPT !.status = "finished"]
             ELSE IF u = t THEN [task[u] EXCEPT !.status = "running"] ELSE task[u]]
    BY <1>4 DEF DrainStarts
  <2>3. t \in Task
    BY KindsDisjoint DEF Queued
  <2>4. ASSUME NEW u \in Task, u # t
        PROVE  task'[u].status = task[u].status \/ task'[u].status = "finished"
    BY <1>2, <2>2, <2>4 DEF TaskRecord
  <2>5. \A u \in Task : u # t => ~Enters(u)
    BY <1>1, <2>4, QuietEnters DEF Holding
  <2> QED
    BY <1>1, <2>1, <2>3, <2>5, OneEnters
<1>5. ASSUME NEW t \in Task, CallRetires(i, t) \/ DrainEnsured(i, t) \/ DrainRestores(i, t)
      PROVE  WithinCap'
  <2>1. UNCHANGED task \/ StatusOf(t, "queued")
    BY <1>5 DEF CallRetires, DrainEnsured, DrainRestores
  <2>2. \A u \in Task : ~Enters(u)
    BY <1>1, <2>1, StatusChanges, QuietEnters DEF Status, Holding
  <2> QED
    BY <1>1, <2>2, NoneEnters
<1> QED
  BY <1>3, <1>4, <1>5 DEF Reconciles

\* Every step keeps the cap.
LEMMA CapKept == BindingInv /\ WithinCap /\ [Next]_vars => WithinCap'
<1> SUFFICES ASSUME BindingInv, WithinCap, [Next]_vars PROVE WithinCap'
  OBVIOUS
<1>1. CASE UNCHANGED vars
  BY <1>1 DEF vars, WithinCap
<1>2. ASSUME NEW w \in Worker, CleanRetires(w) \/ RetireReleases(w) \/ RetireVerifies(w)
      PROVE  WithinCap'
  BY <1>2 DEF CleanRetires, RetireReleases, RetireVerifies, WithinCap
<1>3. CASE Clean
  <2>1. slots' \in SUBSET Task /\ UNCHANGED slots /\ task \in [Task -> TaskRecord]
    BY <1>3 DEF Clean, BindingInv, TypeOK
  <2>2. ASSUME NEW u \in Task PROVE ~Enters(u)
    <3>1. \/ task'[u].status = "gone"
          \/ task'[u] = task[u] /\ (u \in returned => u \in returned')
      BY <1>3 DEF Clean, NoTask
    <3> QED
      BY <2>1, <3>1, QuietEnters DEF Holding
  <2> QED
    BY <2>1, <2>2, NoneEnters
<1>4. CASE Restart
  <2>1. slots' = {} /\ UNCHANGED returned /\ task \in [Task -> TaskRecord]
    BY <1>4 DEF Restart, BindingInv, TypeOK
  <2>2. ASSUME NEW u \in Task PROVE ~Enters(u)
    <3>1. task'[u].status = "gone" \/ task'[u] = task[u]
      BY <1>4 DEF Restart, NoTask
    <3> QED
      BY <2>1, <3>1 DEF Enters, Used, Holds, Holding
  <2> QED
    BY <2>1, <2>2, NoneEnters
<1> QED
  BY <1>1, <1>2, <1>3, <1>4, StartsStayWithin, LivesStayWithin, CallsStayWithin DEF Next

\* Parallel tasks and starts never exceed the cap of their agent.
THEOREM CapHolds == Spec => []WithinCap
<1>1. Init => WithinCap
  <2>1. Init => Used = {}
    <3>1. Init => \A t \in Parallel : task[t].status = "none"
      BY KindsDisjoint DEF Init, NoTask
    <3>2. Init => slots = {}
      BY DEF Init
    <3> QED
      BY <3>1, <3>2 DEF Used, Holds, Holding
  <2>2. Init => Cardinality(Used) = 0
    BY <2>1, FS_EmptySet
  <2> QED
    BY <2>2, BindingBounds DEF WithinCap, Used, Holds
<1>2. BindingInv /\ WithinCap /\ [Next]_vars => WithinCap'
  BY CapKept
<1> QED
  BY <1>1, <1>2, BindingInvCorrect, PTL DEF Spec
=============================================================================
