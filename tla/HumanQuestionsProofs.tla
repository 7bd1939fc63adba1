------------------------ MODULE HumanQuestionsProofs ------------------------
(***************************************************************************)
(* Safety of questions, answers and packages for any finite set of tasks   *)
(* and any bounds on what is in flight.                                    *)
(***************************************************************************)
EXTENDS HumanQuestions, FiniteSetTheorems, TLAPS

-----------------------------------------------------------------------------
(* The inductive invariant.                                                *)

(* What asked records of a task in each status.  A task that asks has had a *)
(* question, and one that has not started has none open.                   *)
AskedFits(t) ==
    /\ task[t].status \in Asking => task[t].asked = "open" /\ task[t].qid > 0
    /\ task[t].status \in {"unstarted", "running"} => task[t].asked # "open"

(* A task that waits for the human is an open member of the active package. *)
WaitsInActive(t) ==
    task[t].status = "waiting_for_human" =>
      active # 0 /\ task[t].pkg = active /\ t \in packages[active].open

(* A task that works or worked from a retracted answer is to be corrected   *)
(* while it lasts and under review once it finished: the mark survives the  *)
(* worker's next question and its answer.                                  *)
MisledFits(t) ==
    misled[t] => /\ ~IsOver(t) => task[t].correct
                 /\ task[t].status = "finished" => task[t].review

(* What was heard is final.                                                *)
HeardFits(t) == task[t].heard => task[t].status = "finished" /\ ~task[t].review

(* Nothing of a package that was never opened is being sent.               *)
NothingSentEarly == \A p \in PackageId : packages[p].state = "none" => sending[p] = 0

IInv ==
    /\ TypeOK
    /\ \A t \in Task : AskedFits(t) /\ WaitsInActive(t) /\ MisledFits(t) /\ HeardFits(t)
    /\ ActiveIsOpen
    /\ NothingSentEarly

-----------------------------------------------------------------------------
(* Counts.                                                                 *)

\* A count below its bound leaves each task room for one more: the pairs that
\* count for a task at the bound are as many as the bound.
LEMMA RoomForOne ==
    ASSUME NEW b \in Nat, NEW count \in [Task -> 0..b], NEW t \in Task,
           Total(count, b) < b
    PROVE  count[t] + 1 \in 0..b
<1> DEFINE S == {q \in Task \X (1..b) : q[2] <= count[q[1]]}
           F == {t} \X (1..b)
<1>1. IsFiniteSet(1..b) /\ Cardinality(1..b) = b
  BY FS_Interval
<1>2. IsFiniteSet({t}) /\ Cardinality({t}) = 1
  BY FS_Singleton
<1>3. IsFiniteSet(F) /\ Cardinality(F) = b
  <2>1. \A T, U : IsFiniteSet(T) /\ IsFiniteSet(U) =>
          IsFiniteSet(T \X U) /\ Cardinality(T \X U) = Cardinality(T) * Cardinality(U)
    BY FS_Product
  <2>2. IsFiniteSet(F) /\ Cardinality(F) = Cardinality({t}) * Cardinality(1..b)
    BY <1>1, <1>2, <2>1
  <2> QED
    BY <1>1, <1>2, <2>2
<1>4. IsFiniteSet(Task \X (1..b))
  BY <1>1, FS_Product, QuestionBounds
<1>5. S \subseteq Task \X (1..b)
  OBVIOUS
<1>6. IsFiniteSet(S)
  BY <1>4, <1>5, FS_Subset
<1>7. Cardinality(S) < b
  BY DEF Total
<1>8. ASSUME count[t] = b PROVE FALSE
  <2>1. F \subseteq S
    BY <1>8
  <2>2. Cardinality(F) <= Cardinality(S)
    BY <2>1, <1>6, FS_Subset
  <2>3. Cardinality(S) \in Nat
    BY <1>6, FS_CardinalityType
  <2> QED
    BY <2>2, <2>3, <1>3, <1>7
<1> QED
  BY <1>8

\* A count is a number.
LEMMA TotalIsNat ==
    ASSUME NEW b \in Nat, NEW count \in [Task -> 0..b]
    PROVE  Total(count, b) \in Nat
<1> DEFINE S == {q \in Task \X (1..b) : q[2] <= count[q[1]]}
<1>1. IsFiniteSet(Task \X (1..b))
  <2>1. IsFiniteSet(1..b)
    BY FS_Interval
  <2> QED
    BY <2>1, FS_Product, QuestionBounds
<1>2. IsFiniteSet(S)
  BY <1>1, FS_Subset
<1>3. Cardinality(S) \in Nat
  BY <1>2, FS_CardinalityType
<1> QED
  BY <1>3 DEF Total

\* What the bounds on questions and on calls to workers leave room for.
LEMMA Room ==
    ASSUME TypeOK, NEW t \in Task
    PROVE  /\ MayAsk => task[t].qid + 1 \in 1..MaxQuestions
           /\ MayCall => turns[t] + 1 \in 0..MaxCalls /\ stops[t] + 1 \in 0..MaxCalls
<1>1. {MaxQuestions, MaxCalls} \subseteq Nat
  BY QuestionBounds
<1>2. ASSUME MayAsk PROVE task[t].qid + 1 \in 1..MaxQuestions
  <2> DEFINE count == [u \in Task |-> task[u].qid]
  <2>1. count \in [Task -> 0..MaxQuestions]
    BY DEF TypeOK, TaskRecord
  <2>2. count[t] + 1 \in 0..MaxQuestions
    BY <1>1, <1>2, <2>1, RoomForOne DEF MayAsk
  <2> QED
    BY <1>1, <2>1, <2>2
<1>3. ASSUME MayCall PROVE turns[t] + 1 \in 0..MaxCalls /\ stops[t] + 1 \in 0..MaxCalls
  <2>1. turns \in [Task -> 0..MaxCalls] /\ stops \in [Task -> 0..MaxCalls]
    BY DEF TypeOK
  <2>2. Total(turns, MaxCalls) \in Nat /\ Total(stops, MaxCalls) \in Nat
    BY <1>1, <2>1, TotalIsNat
  <2>3. Total(turns, MaxCalls) + Total(stops, MaxCalls) < MaxCalls
    <3>1. Listening \in Nat
      BY DEF Listening
    <3>2. Total(turns, MaxCalls) + Total(stops, MaxCalls) + Listening < MaxCalls
      BY <1>3 DEF MayCall
    <3> QED
      BY <1>1, <2>2, <3>1, <3>2
  <2>4. Total(turns, MaxCalls) < MaxCalls /\ Total(stops, MaxCalls) < MaxCalls
    BY <1>1, <2>2, <2>3
  <2> QED
    BY <1>1, <2>1, <2>4, RoomForOne
<1> QED
  BY <1>2, <1>3
-----------------------------------------------------------------------------
(* Steps that leave the packages alone.                                    *)

\* A step that changes one task, and perhaps its turns and stop requests,
\* keeps the invariant if the task itself still meets it.
LEMMA TaskMoves ==
    ASSUME IInv, NEW t \in Task, NEW r \in TaskRecord,
           task' = [task EXCEPT ![t] = r],
           turns' \in [Task -> 0..MaxCalls], stops' \in [Task -> 0..MaxCalls],
           misled' \in [Task -> BOOLEAN], \A u \in Task \ {t} : misled'[u] = misled[u],
           UNCHANGED <<records, calls>>,
           AskedFits(t)', WaitsInActive(t)', MisledFits(t)', HeardFits(t)'
    PROVE  IInv'
<1>1. task' \in [Task -> TaskRecord] /\ \A u \in Task \ {t} : task'[u] = task[u]
  BY DEF IInv, TypeOK
<1>2. TypeOK'
  BY <1>1 DEF IInv, TypeOK, records, calls
<1>3. ASSUME NEW u \in Task, u # t
      PROVE  AskedFits(u)' /\ WaitsInActive(u)' /\ MisledFits(u)' /\ HeardFits(u)'
  <2>1. task'[u] = task[u] /\ misled'[u] = misled[u] /\ active' = active /\ packages' = packages
    BY <1>1, <1>3 DEF records
  <2>2. AskedFits(u) /\ WaitsInActive(u) /\ MisledFits(u) /\ HeardFits(u)
    BY <1>3 DEF IInv
  <2> QED
    BY <2>1, <2>2 DEF AskedFits, WaitsInActive, MisledFits, HeardFits, IsOver
<1>4. ActiveIsOpen' /\ NothingSentEarly'
  BY DEF IInv, ActiveIsOpen, NothingSentEarly, records, calls
<1> QED
  BY <1>2, <1>3, <1>4 DEF IInv

\* The parts of the invariant for one task.
LEMMA OfTask ==
    ASSUME IInv, NEW t \in Task
    PROVE  /\ task[t] \in TaskRecord /\ turns[t] \in 0..MaxCalls /\ stops[t] \in 0..MaxCalls
           /\ misled[t] \in BOOLEAN
           /\ AskedFits(t) /\ WaitsInActive(t) /\ MisledFits(t) /\ HeardFits(t)
BY DEF IInv, TypeOK

\* The statuses are different.
LEMMA Statuses ==
    /\ Asking \subseteq Status /\ Terminal \subseteq Status
    /\ "running" \in Status \ (Asking \cup Terminal)
    /\ "unstarted" \in Status \ (Asking \cup Terminal)
    /\ Asking \cap Terminal = {} /\ "finished" \in Terminal /\ "cancelled" \in Terminal
    /\ Asking = {"blocked", "waiting_for_human"} /\ Terminal = {"finished", "cancelled"}
BY DEF Status, Asking, Terminal

\* A step that leaves the tasks alone keeps what the invariant says of each
\* task, if nobody leaves the active package.
LEMMA TasksStay ==
    ASSUME IInv, TypeOK', UNCHANGED <<task, active, misled>>,
           \A p \in PackageId : packages[p].open \subseteq packages'[p].open,
           ActiveIsOpen', NothingSentEarly'
    PROVE  IInv'
<1>1. active \in 0..MaxPackages /\ MaxPackages \in Nat
  BY QuestionBounds DEF IInv, TypeOK
<1>2. active # 0 => packages[active].open \subseteq packages'[active].open
  BY <1>1 DEF PackageId
<1> SUFFICES ASSUME NEW u \in Task
             PROVE  AskedFits(u)' /\ WaitsInActive(u)' /\ MisledFits(u)' /\ HeardFits(u)'
  BY DEF IInv
<1>3. AskedFits(u) /\ WaitsInActive(u) /\ MisledFits(u) /\ HeardFits(u)
  BY DEF IInv
<1> QED
  BY <1>2, <1>3 DEF AskedFits, WaitsInActive, MisledFits, HeardFits, IsOver

\* Dispatching a task.
LEMMA DispatchKeeps ==
    ASSUME IInv, NEW t \in Task, Dispatch(t)
    PROVE  IInv'
<1> DEFINE r == [task[t] EXCEPT !.status = "running"]
<1>1. r \in TaskRecord /\ task' = [task EXCEPT ![t] = r]
  BY OfTask, Statuses DEF Dispatch, TaskRecord
<1>2. turns' \in [Task -> 0..MaxCalls]
  BY Room DEF Dispatch, IInv, TypeOK
<1>3. task'[t] = r /\ misled'[t] = misled[t]
  BY <1>1 DEF Dispatch, IInv, TypeOK
<1>4. AskedFits(t)' /\ WaitsInActive(t)'
  BY <1>3, OfTask, Statuses DEF AskedFits, WaitsInActive, Dispatch, TaskRecord
<1>5. MisledFits(t)' /\ HeardFits(t)'
  BY <1>3, OfTask, Statuses DEF MisledFits, HeardFits, IsOver, Dispatch, TaskRecord
<1> QED
  BY <1>1, <1>2, <1>4, <1>5, TaskMoves DEF Dispatch, IInv, TypeOK

\* A worker raises a question.
LEMMA RaiseQuestionKeeps ==
    ASSUME IInv, NEW t \in Task, RaiseQuestion(t)
    PROVE  IInv'
<1> DEFINE r == [task[t] EXCEPT !.status = "blocked", !.asked = "open", !.qid = @ + 1, !.pkg = 0]
<1>1. task[t].qid + 1 \in 1..MaxQuestions /\ MaxPackages \in Nat
  BY Room, QuestionBounds DEF RaiseQuestion, IInv
<1>2. r \in TaskRecord /\ task' = [task EXCEPT ![t] = r]
  <2>1. task[t] \in TaskRecord /\ "blocked" \in Status /\ 0 \in 0..MaxPackages
    BY <1>1, OfTask, Statuses
  <2>2. task[t].qid + 1 \in 0..MaxQuestions
    BY <1>1
  <2>3. r \in TaskRecord
    BY <2>1, <2>2 DEF TaskRecord
  <2> QED
    BY <2>3 DEF RaiseQuestion
<1>3. task'[t] = r /\ misled'[t] = misled[t]
  BY <1>2 DEF RaiseQuestion, IInv, TypeOK
<1>4. AskedFits(t)' /\ WaitsInActive(t)'
  BY <1>1, <1>3, OfTask, Statuses DEF AskedFits, WaitsInActive, TaskRecord
<1>5. MisledFits(t)' /\ HeardFits(t)'
  BY <1>3, OfTask, Statuses
  DEF MisledFits, HeardFits, IsOver, IsRunning, RaiseQuestion, TaskRecord
<1> QED
  BY <1>2, <1>4, <1>5, TaskMoves DEF RaiseQuestion, IInv, TypeOK

\* A running task's reply ends it; the reply to a correction is put under review.
LEMMA RepliedFacts ==
    ASSUME IInv, NEW t \in Task, IsRunning(t), NEW s \in Terminal, task' = Replied(t, s),
           misled' = misled
    PROVE  \E r \in TaskRecord :
             /\ task' = [task EXCEPT ![t] = r]
             /\ AskedFits(t)' /\ WaitsInActive(t)' /\ MisledFits(t)' /\ HeardFits(t)'
<1>1. ~IsOver(t) /\ ~task[t].heard /\ s \in Status /\ s \notin Asking \cup {"running", "unstarted"}
  BY OfTask, Statuses DEF IsRunning, IsOver, HeardFits
<1>2. CASE task[t].correct
  <2> DEFINE r == [task[t] EXCEPT !.status = s, !.review = TRUE, !.correct = FALSE,
                                  !.stop = FALSE]
  <2>1. task' = [task EXCEPT ![t] = r]
    BY <1>2 DEF Replied
  <2>2. r \in TaskRecord
    BY <1>1, OfTask DEF TaskRecord
  <2>3. r.status = s /\ r.review = TRUE /\ r.heard = task[t].heard
    BY OfTask DEF TaskRecord
  <2> HIDE DEF r
  <2>4. task'[t] = r
    BY <2>1 DEF IInv, TypeOK
  <2>5. AskedFits(t)' /\ WaitsInActive(t)' /\ MisledFits(t)' /\ HeardFits(t)'
    BY <1>1, <2>3, <2>4, Statuses
    DEF AskedFits, WaitsInActive, MisledFits, HeardFits, IsOver
  <2> QED
    BY <2>1, <2>2, <2>5
<1>3. CASE ~task[t].correct
  <2> DEFINE r == [task[t] EXCEPT !.status = s]
  <2>1. task' = [task EXCEPT ![t] = r]
    BY <1>3 DEF Replied
  <2>2. r \in TaskRecord
    BY <1>1, OfTask DEF TaskRecord
  <2>3. r.status = s /\ r.heard = task[t].heard
    BY OfTask DEF TaskRecord
  <2> HIDE DEF r
  <2>4. task'[t] = r
    BY <2>1 DEF IInv, TypeOK
  <2>5. ~misled[t]
    BY <1>1, <1>3, OfTask DEF MisledFits
  <2>6. AskedFits(t)' /\ WaitsInActive(t)' /\ MisledFits(t)' /\ HeardFits(t)'
    BY <1>1, <2>3, <2>4, <2>5, Statuses DEF AskedFits, WaitsInActive, MisledFits, HeardFits
  <2> QED
    BY <2>1, <2>2, <2>6
<1> QED
  BY <1>2, <1>3

\* A worker replies within its turn.
LEMMA WorkerRepliesKeeps ==
    ASSUME IInv, NEW t \in Task, WorkerReplies(t)
    PROVE  IInv'
<1>1. PICK s \in Terminal : task' = Replied(t, s)
  BY DEF WorkerReplies
<1>2. IsRunning(t) /\ UNCHANGED <<turns, stops, records, calls, misled>>
  BY DEF WorkerReplies
<1>3. PICK r \in TaskRecord :
        /\ task' = [task EXCEPT ![t] = r]
        /\ AskedFits(t)' /\ WaitsInActive(t)' /\ MisledFits(t)' /\ HeardFits(t)'
  BY <1>1, <1>2, RepliedFacts
<1> QED
  BY <1>2, <1>3, TaskMoves DEF IInv, TypeOK

\* A worker's turn ends.
LEMMA TurnEndsKeeps ==
    ASSUME IInv, NEW t \in Task, TurnEnds(t)
    PROVE  IInv'
<1>1. turns' \in [Task -> 0..MaxCalls] /\ UNCHANGED <<stops, records, calls, misled>>
  <2>1. MaxCalls \in Nat /\ turns[t] \in 0..MaxCalls /\ turns[t] > 0
    BY QuestionBounds DEF TurnEnds, IInv, TypeOK
  <2>2. turns[t] - 1 \in 0..MaxCalls
    BY <2>1
  <2> QED
    BY <2>2 DEF TurnEnds, IInv, TypeOK
<1>2. CASE UNCHANGED task
  <2>1. UNCHANGED <<packages, active, queued, sending, handoffs, told>>
    BY <1>1 DEF records, calls
  <2>2. TypeOK' /\ ActiveIsOpen' /\ NothingSentEarly'
    BY <1>1, <1>2, <2>1 DEF IInv, TypeOK, ActiveIsOpen, NothingSentEarly
  <2> QED
    BY <1>1, <1>2, <2>1, <2>2, TasksStay
<1>3. CASE IsRunning(t) /\ task' = Replied(t, "finished")
  <2>1. PICK r \in TaskRecord :
          /\ task' = [task EXCEPT ![t] = r]
          /\ AskedFits(t)' /\ WaitsInActive(t)' /\ MisledFits(t)' /\ HeardFits(t)'
    BY <1>1, <1>3, RepliedFacts, Statuses
  <2> QED
    BY <1>1, <2>1, TaskMoves DEF IInv, TypeOK
<1> QED
  BY <1>2, <1>3 DEF TurnEnds

\* Retracting the answer of a running task.
LEMMA RetractRunningKeeps ==
    ASSUME IInv, NEW t \in Task, RetractRunning(t)
    PROVE  IInv'
<1> DEFINE r == [task[t] EXCEPT !.correct = TRUE, !.stop = TRUE]
<1>1. task' = [task EXCEPT ![t] = r]
  BY DEF RetractRunning
<1>2. r \in TaskRecord
  BY OfTask DEF TaskRecord
<1>3. task'[t] = r
  BY <1>1 DEF IInv, TypeOK
<1>4. stops' \in [Task -> 0..MaxCalls]
  BY Room DEF RetractRunning, IInv, TypeOK
<1>5. /\ r.status = "running" /\ r.asked = "answered" /\ r.correct = TRUE
      /\ r.heard = task[t].heard /\ r.pkg = task[t].pkg
  BY <1>2, OfTask DEF TaskRecord, RetractRunning, IsRunning
<1>6. AskedFits(t)' /\ WaitsInActive(t)' /\ HeardFits(t)'
  BY <1>3, <1>5, OfTask, Statuses
  DEF AskedFits, WaitsInActive, HeardFits, RetractRunning, IsRunning
<1>7. MisledFits(t)'
  BY <1>3, <1>5, Statuses DEF MisledFits, IsOver
<1>8. misled' \in [Task -> BOOLEAN] /\ \A u \in Task \ {t} : misled'[u] = misled[u]
  BY DEF RetractRunning, IInv, TypeOK
<1>9. turns' \in [Task -> 0..MaxCalls] /\ UNCHANGED <<records, calls>>
  BY DEF RetractRunning, IInv, TypeOK
<1> HIDE DEF r
<1> QED
  BY <1>1, <1>2, <1>4, <1>6, <1>7, <1>8, <1>9, TaskMoves

\* Contesting or accepting a result changes no more than its review, and
\* whether the result is known to rest on a retracted answer.
LEMMA ReviewKeeps ==
    ASSUME IInv, NEW t \in Task, NEW b \in BOOLEAN, ~task[t].heard \/ ~b,
           IsOver(t) \/ ~b,
           task' = [task EXCEPT ![t].review = b],
           misled' = [misled EXCEPT ![t] = b],
           UNCHANGED <<turns, stops, records, calls>>
    PROVE  IInv'
<1> DEFINE r == [task[t] EXCEPT !.review = b]
<1>1. task' = [task EXCEPT ![t] = r]
  OBVIOUS
<1>2. r \in TaskRecord
  BY OfTask DEF TaskRecord
<1>3. task'[t] = r /\ misled'[t] = b
  BY <1>1 DEF IInv, TypeOK
<1>4. /\ r.status = task[t].status /\ r.asked = task[t].asked /\ r.qid = task[t].qid
      /\ r.pkg = task[t].pkg /\ r.heard = task[t].heard /\ r.review = b
  BY OfTask DEF TaskRecord
<1>5. AskedFits(t)'
  BY <1>3, <1>4, OfTask DEF AskedFits
<1>6. WaitsInActive(t)'
  BY <1>3, <1>4, OfTask DEF WaitsInActive, records
<1>7. MisledFits(t)'
  BY <1>3, <1>4 DEF MisledFits, IsOver
<1>8. HeardFits(t)'
  BY <1>3, <1>4, OfTask DEF HeardFits
<1>9. /\ misled' \in [Task -> BOOLEAN] /\ \A u \in Task \ {t} : misled'[u] = misled[u]
      /\ turns' \in [Task -> 0..MaxCalls] /\ stops' \in [Task -> 0..MaxCalls]
  BY DEF IInv, TypeOK
<1> HIDE DEF r
<1> QED
  BY <1>1, <1>2, <1>5, <1>6, <1>7, <1>8, <1>9, TaskMoves

\* Contesting a finished result.
LEMMA RetractFinishedKeeps ==
    ASSUME IInv, NEW t \in Task, RetractFinished(t)
    PROVE  IInv'
BY ReviewKeeps, Statuses DEF RetractFinished, IsOver

\* Accepting a contested result.
LEMMA AcceptResultKeeps ==
    ASSUME IInv, NEW t \in Task, AcceptResult(t)
    PROVE  IInv'
BY ReviewKeeps DEF AcceptResult

\* Cancelling a running task asks its worker to stop.
LEMMA CancelRunningKeeps ==
    ASSUME IInv, NEW t \in Task, CancelRunning(t)
    PROVE  IInv'
<1> DEFINE r == [task[t] EXCEPT !.stop = TRUE]
<1>1. task' = [task EXCEPT ![t] = r]
  BY DEF CancelRunning
<1>2. r \in TaskRecord
  BY OfTask DEF TaskRecord
<1>3. task'[t] = r /\ misled'[t] = misled[t]
  BY <1>1 DEF CancelRunning, IInv, TypeOK
<1>4. stops' \in [Task -> 0..MaxCalls]
  BY Room DEF CancelRunning, IInv, TypeOK
<1>5. /\ r.status = task[t].status /\ r.asked = task[t].asked /\ r.qid = task[t].qid
      /\ r.pkg = task[t].pkg /\ r.correct = task[t].correct /\ r.heard = task[t].heard
      /\ r.review = task[t].review
  BY OfTask DEF TaskRecord
<1>6. AskedFits(t)' /\ WaitsInActive(t)' /\ HeardFits(t)'
  BY <1>3, <1>5, OfTask DEF AskedFits, WaitsInActive, HeardFits, CancelRunning, records
<1>7. MisledFits(t)'
  BY <1>3, <1>5, OfTask DEF MisledFits, IsOver
<1> HIDE DEF r
<1> QED
  BY <1>1, <1>2, <1>4, <1>6, <1>7, TaskMoves DEF CancelRunning, IInv, TypeOK
-----------------------------------------------------------------------------
(* Steps in which a task moves in or out of a package.                     *)

\* What has to be shown of a step that changes one task and its package.
LEMMA PackageMoves ==
    ASSUME IInv, TypeOK', NEW t \in Task,
           \A u \in Task \ {t} : task'[u] = task[u] /\ misled'[u] = misled[u] /\ WaitsInActive(u)',
           AskedFits(t)', WaitsInActive(t)', MisledFits(t)', HeardFits(t)',
           ActiveIsOpen', NothingSentEarly'
    PROVE  IInv'
<1>1. ASSUME NEW u \in Task, u # t
      PROVE  AskedFits(u)' /\ MisledFits(u)' /\ HeardFits(u)'
  <2>1. task'[u] = task[u] /\ misled'[u] = misled[u]
    BY <1>1
  <2>2. AskedFits(u) /\ MisledFits(u) /\ HeardFits(u)
    BY <1>1 DEF IInv
  <2> QED
    BY <2>1, <2>2 DEF AskedFits, MisledFits, HeardFits, IsOver
<1> QED
  BY <1>1 DEF IInv

\* A task leaves its package: the others stay where they wait, and the package
\* it leaves empty is closed and no longer the active one.
LEMMA LeavePackageFacts ==
    ASSUME IInv, NEW t \in Task, LeavePackage(t), UNCHANGED sending
    PROVE  /\ packages' \in [PackageId -> PackageRecord] /\ active' \in 0..MaxPackages
           /\ ActiveIsOpen' /\ NothingSentEarly'
           /\ \A u \in Task \ {t} : task'[u] = task[u] => WaitsInActive(u)'
<1> DEFINE p == task[t].pkg
<1>0. /\ MaxPackages \in Nat /\ p \in 0..MaxPackages /\ active \in 0..MaxPackages
      /\ packages \in [PackageId -> PackageRecord]
      /\ \A u \in Task : WaitsInActive(u)
  BY OfTask, QuestionBounds DEF IInv, TypeOK, TaskRecord
<1>1. CASE p = 0
  <2>1. packages' = packages /\ active' = active
    BY <1>1 DEF LeavePackage
  <2> QED
    BY <1>0, <2>1 DEF IInv, ActiveIsOpen, NothingSentEarly, WaitsInActive
<1>2. CASE p # 0
  <2>1. /\ p \in PackageId /\ 0 \notin PackageId
        /\ packages' = [packages EXCEPT ![p] = Without(packages[p], t)]
        /\ active' = IF active = p /\ packages'[p].open = {} THEN 0 ELSE active
    BY <1>0, <1>2 DEF LeavePackage, PackageId
  <2>2. packages[p] \in PackageRecord
    BY <1>0, <2>1
  <2>3. NoPackage \in PackageRecord
    BY DEF NoPackage, PackageRecord
  <2>4. \A q \in PackageId \ {p} : packages'[q] = packages[q]
    BY <1>0, <2>1
  <2>5. /\ \A q \in PackageId : packages[q].state = "active" <=> active = q
        /\ \A q \in PackageId : packages[q].state = "active" <=> packages[q].open # {}
        /\ \A q \in PackageId : packages[q].state = "none" => sending[q] = 0
    BY DEF IInv, ActiveIsOpen, NothingSentEarly
  <2>6. CASE packages[p].open \subseteq {t}
    <3> DEFINE r == [NoPackage EXCEPT !.state = "closed"]
    <3>1. packages' = [packages EXCEPT ![p] = r]
      BY <2>1, <2>6 DEF Without
    <3>2. r \in PackageRecord /\ r.state = "closed" /\ r.open = {}
      BY DEF NoPackage, PackageRecord
    <3> HIDE DEF r
    <3>3. packages' \in [PackageId -> PackageRecord] /\ packages'[p] = r
      BY <1>0, <2>1, <3>1, <3>2
    <3>4. active' = IF active = p THEN 0 ELSE active
      BY <2>1, <3>2, <3>3
    <3>5. active' \in 0..MaxPackages /\ active' # p
      BY <1>0, <1>2, <3>4
    <3>6. ActiveIsOpen'
      <4>1. ASSUME NEW q \in PackageId, q # p
            PROVE  active' = q <=> active = q
        BY <2>1, <2>5, <3>4, <4>1
      <4> QED
        BY <2>4, <2>5, <3>2, <3>3, <3>5, <4>1 DEF ActiveIsOpen
    <3>7. NothingSentEarly'
      BY <2>4, <2>5, <3>2, <3>3 DEF NothingSentEarly
    <3>8. ASSUME NEW u \in Task \ {t}, task'[u] = task[u] PROVE WaitsInActive(u)'
      <4>1. CASE task[u].status # "waiting_for_human"
        BY <3>8, <4>1 DEF WaitsInActive
      <4>2. CASE task[u].status = "waiting_for_human"
        <5>1. active # 0 /\ task[u].pkg = active /\ u \in packages[active].open
          BY <1>0, <3>8, <4>2 DEF WaitsInActive
        <5>2. active # p /\ active \in PackageId
          BY <1>0, <2>6, <3>8, <5>1 DEF PackageId
        <5>3. active' = active /\ packages'[active] = packages[active]
          BY <2>4, <3>4, <5>2
        <5> QED
          BY <3>8, <5>1, <5>3 DEF WaitsInActive
      <4> QED
        BY <4>1, <4>2
    <3> QED
      BY <3>3, <3>5, <3>6, <3>7, <3>8
  <2>7. CASE ~(packages[p].open \subseteq {t})
    <3> DEFINE r == [packages[p] EXCEPT !.open = packages[p].open \ {t}]
    <3>1. packages' = [packages EXCEPT ![p] = r]
      BY <2>1, <2>7 DEF Without
    <3>2. packages[p].open \in SUBSET Task
      BY <2>2 DEF PackageRecord
    <3>3. /\ r \in PackageRecord /\ r.state = packages[p].state
          /\ r.open = packages[p].open \ {t} /\ r.open # {}
      BY <2>2, <2>7, <3>2 DEF PackageRecord
    <3> HIDE DEF r
    <3>4. packages' \in [PackageId -> PackageRecord] /\ packages'[p] = r
      BY <1>0, <2>1, <3>1, <3>3
    <3>5. active' = active
      BY <2>1, <3>3, <3>4
    <3>6. ActiveIsOpen' /\ NothingSentEarly'
      BY <2>4, <2>5, <2>7, <3>3, <3>4, <3>5 DEF ActiveIsOpen, NothingSentEarly
    <3>7. ASSUME NEW u \in Task \ {t}, task'[u] = task[u] PROVE WaitsInActive(u)'
      <4>1. WaitsInActive(u) /\ (active # 0 => active \in PackageId)
        BY <1>0, <3>7 DEF PackageId
      <4>2. active \in PackageId /\ u \in packages[active].open => u \in packages'[active].open
        BY <2>4, <3>3, <3>4, <3>7
      <4> QED
        BY <3>5, <3>7, <4>1, <4>2 DEF WaitsInActive
    <3> QED
      BY <1>0, <3>4, <3>5, <3>6, <3>7
  <2> QED
    BY <2>6, <2>7
<1> QED
  BY <1>1, <1>2

\* A task asks again: it waits in the package it was asked in if that is still
\* active, and is blocked on its own if not.
LEMMA AskAgainFacts ==
    ASSUME IInv, NEW t \in Task, AskAgain(t), UNCHANGED <<active, sending>>
    PROVE  /\ task' \in [Task -> TaskRecord] /\ packages' \in [PackageId -> PackageRecord]
           /\ \A u \in Task \ {t} : task'[u] = task[u] /\ WaitsInActive(u)'
           /\ task'[t].status \in Asking
           /\ task'[t].heard = task[t].heard
           /\ misled' = [misled EXCEPT ![t] = FALSE]
           /\ AskedFits(t)' /\ WaitsInActive(t)' /\ ActiveIsOpen' /\ NothingSentEarly'
<1> DEFINE p == Reopened(t)
           s == IF p # 0 THEN "waiting_for_human" ELSE "blocked"
           r == [task[t] EXCEPT !.status = s, !.asked = "open", !.qid = task[t].qid + 1,
                                !.pkg = p, !.review = FALSE, !.correct = FALSE,
                                !.stop = task[t].stop /\ ~task[t].correct]
<1>1. /\ MaxPackages \in Nat /\ task[t].pkg \in 0..MaxPackages
      /\ task[t].stop \in BOOLEAN /\ task[t].correct \in BOOLEAN
      /\ task[t] \in TaskRecord /\ task \in [Task -> TaskRecord]
      /\ packages \in [PackageId -> PackageRecord] /\ active \in 0..MaxPackages
  BY OfTask, QuestionBounds DEF IInv, TypeOK, TaskRecord
<1>2. task' = [task EXCEPT ![t] = r] /\ misled' = [misled EXCEPT ![t] = FALSE]
  BY DEF AskAgain
<1>3. task[t].qid + 1 \in 1..MaxQuestions /\ task[t].qid + 1 \in 0..MaxQuestions
  BY Room DEF AskAgain, IInv
<1>4. p \in 0..MaxPackages /\ (p # 0 => p \in PackageId /\ active = p /\ packages[p].state = "active")
  BY <1>1 DEF Reopened, PackageId
<1>5. s \in Status /\ s \in Asking
  BY Statuses
<1>6. (task[t].stop /\ ~task[t].correct) \in BOOLEAN
  OBVIOUS
<1>7. packages' = IF p = 0 THEN packages
                  ELSE [packages EXCEPT ![p].open = packages[p].open \cup {t}]
  BY DEF AskAgain
<1> HIDE DEF p
<1>8. r \in TaskRecord /\ r.status = s /\ r.asked = "open" /\ r.qid = task[t].qid + 1 /\ r.pkg = p
      /\ r.heard = task[t].heard
  <2> DEFINE b == task[t].stop /\ ~task[t].correct
  <2>1. b \in BOOLEAN
    BY <1>6
  <2> HIDE DEF b, s
  <2> QED
    BY <1>1, <1>3, <1>4, <1>5, <2>1 DEF TaskRecord
<1> HIDE DEF r
<1>9. task'[t] = r /\ task' \in [Task -> TaskRecord] /\ \A u \in Task \ {t} : task'[u] = task[u]
  BY <1>1, <1>2, <1>8
<1>10. AskedFits(t)'
  BY <1>1, <1>3, <1>5, <1>8, <1>9, Statuses DEF AskedFits, TaskRecord
<1>11. CASE p = 0
  <2>1. packages' = packages /\ active' = active /\ sending' = sending
    BY <1>7, <1>11
  <2>2. ActiveIsOpen' /\ NothingSentEarly' /\ \A u \in Task : WaitsInActive(u)
    BY <2>1 DEF IInv, ActiveIsOpen, NothingSentEarly
  <2>3. WaitsInActive(t)' /\ \A u \in Task \ {t} : WaitsInActive(u)'
    BY <1>8, <1>9, <1>11, <2>1, <2>2 DEF WaitsInActive
  <2> QED
    BY <1>1, <1>2, <1>5, <1>8, <1>9, <1>10, <2>1, <2>2, <2>3
<1>12. CASE p # 0
  <2> DEFINE k == [packages[p] EXCEPT !.open = packages[p].open \cup {t}]
  <2>1. packages' = [packages EXCEPT ![p] = k] /\ active' = active /\ sending' = sending
    BY <1>7, <1>12
  <2>2. p \in PackageId /\ active = p /\ packages[p] \in PackageRecord
    BY <1>1, <1>4, <1>12
  <2>3. packages[p].open \cup {t} \in SUBSET Task
    BY <2>2 DEF PackageRecord
  <2>4. /\ k \in PackageRecord /\ k.state = packages[p].state
        /\ k.open = packages[p].open \cup {t}
    BY <2>2, <2>3 DEF PackageRecord
  <2> HIDE DEF k
  <2>5. /\ packages' \in [PackageId -> PackageRecord] /\ packages'[p] = k
        /\ \A q \in PackageId \ {p} : packages'[q] = packages[q]
    BY <1>1, <2>1, <2>2, <2>4
  <2>6. /\ packages[p].state = "active"
        /\ \A q \in PackageId : packages[q].state = "active" <=> active = q
        /\ \A q \in PackageId : packages[q].state = "active" <=> packages[q].open # {}
        /\ \A q \in PackageId : packages[q].state = "none" => sending[q] = 0
        /\ \A u \in Task : WaitsInActive(u)
    BY <1>4, <1>12 DEF IInv, ActiveIsOpen, NothingSentEarly
  <2>7. k.open # {} /\ t \in k.open /\ \A u \in packages[p].open : u \in k.open
    BY <2>4
  <2>8. ActiveIsOpen' /\ NothingSentEarly'
    BY <2>1, <2>4, <2>5, <2>6, <2>7 DEF ActiveIsOpen, NothingSentEarly
  <2>9. WaitsInActive(t)' /\ \A u \in Task \ {t} : WaitsInActive(u)'
    BY <1>8, <1>9, <1>12, <2>1, <2>2, <2>5, <2>6, <2>7 DEF WaitsInActive
  <2> QED
    BY <1>1, <1>2, <1>5, <1>8, <1>9, <1>10, <2>5, <2>8, <2>9
<1> QED
  BY <1>11, <1>12
\* Discarding a contested result.
LEMMA DiscardResultKeeps ==
    ASSUME IInv, NEW t \in Task, DiscardResult(t)
    PROVE  IInv'
<1>1. AskAgain(t) /\ task[t].review
      /\ UNCHANGED <<turns, stops, active, queued, sending, handoffs, told>>
  BY DEF DiscardResult, calls
<1>2. ~task[t].heard
  BY <1>1, OfTask DEF HeardFits
<1>3. TypeOK'
  BY <1>1, AskAgainFacts DEF IInv, TypeOK
<1>4. MisledFits(t)' /\ HeardFits(t)' /\ \A u \in Task \ {t} : misled'[u] = misled[u]
  BY <1>1, <1>2, AskAgainFacts DEF MisledFits, HeardFits, IInv, TypeOK
<1> QED
  BY <1>1, <1>3, <1>4, AskAgainFacts, PackageMoves

\* A stop request that ends was under way.
LEMMA StopFacts ==
    ASSUME IInv, NEW t \in Task, stops[t] > 0, stops' = [stops EXCEPT ![t] = @ - 1]
    PROVE  stops' \in [Task -> 0..MaxCalls]
<1>1. MaxCalls \in Nat /\ stops[t] \in 0..MaxCalls
  BY QuestionBounds DEF IInv, TypeOK
<1>2. stops[t] - 1 \in 0..MaxCalls
  BY <1>1
<1> QED
  BY <1>2 DEF IInv, TypeOK

\* The worker acknowledged that it stopped.
LEMMA StopDoneKeeps ==
    ASSUME IInv, NEW t \in Task, StopDone(t)
    PROVE  IInv'
<1>1. /\ stops' \in [Task -> 0..MaxCalls]
      /\ UNCHANGED <<turns, active, queued, sending, handoffs, told>>
  BY StopFacts DEF StopDone, calls
<1>2. CASE IsOver(t) /\ UNCHANGED <<task, packages, misled>>
  <2>1. TypeOK' /\ ActiveIsOpen' /\ NothingSentEarly'
    BY <1>1, <1>2 DEF IInv, TypeOK, ActiveIsOpen, NothingSentEarly
  <2> QED
    BY <1>1, <1>2, <2>1, TasksStay
<1>3. CASE ~IsOver(t) /\ task[t].correct /\ AskAgain(t)
  <2>1. ~task[t].heard
    BY <1>3, OfTask, Statuses DEF HeardFits, IsOver
  <2>2. TypeOK'
    BY <1>1, <1>3, AskAgainFacts DEF IInv, TypeOK
  <2>3. MisledFits(t)' /\ HeardFits(t)' /\ \A u \in Task \ {t} : misled'[u] = misled[u]
    BY <1>1, <1>3, <2>1, AskAgainFacts DEF MisledFits, HeardFits, IInv, TypeOK
  <2> QED
    BY <1>1, <1>3, <2>2, <2>3, AskAgainFacts, PackageMoves
<1>4. CASE /\ ~IsOver(t) /\ ~task[t].correct
           /\ task' = [task EXCEPT ![t].status = "cancelled"]
           /\ UNCHANGED <<packages, misled>>
  <2> DEFINE r == [task[t] EXCEPT !.status = "cancelled"]
  <2>1. r \in TaskRecord
    BY OfTask, Statuses DEF TaskRecord
  <2>2. r.status = "cancelled" /\ r.heard = task[t].heard
    BY OfTask DEF TaskRecord
  <2>3. task'[t] = r /\ task' = [task EXCEPT ![t] = r]
    BY <1>4 DEF IInv, TypeOK
  <2>4. ~task[t].heard
    BY <1>4, OfTask, Statuses DEF HeardFits, IsOver
  <2>5. AskedFits(t)' /\ WaitsInActive(t)' /\ MisledFits(t)' /\ HeardFits(t)'
    BY <2>2, <2>3, <2>4, Statuses DEF AskedFits, WaitsInActive, MisledFits, HeardFits, IsOver
  <2>6. /\ turns' \in [Task -> 0..MaxCalls] /\ UNCHANGED <<records, calls>>
        /\ misled' \in [Task -> BOOLEAN] /\ \A u \in Task \ {t} : misled'[u] = misled[u]
    BY <1>1, <1>4 DEF IInv, TypeOK, records, calls
  <2> HIDE DEF r
  <2> QED
    BY <1>1, <2>1, <2>3, <2>5, <2>6, TaskMoves
<1> QED
  BY <1>2, <1>3, <1>4 DEF StopDone

\* The worker did not acknowledge.
LEMMA StopFailsKeeps ==
    ASSUME IInv, NEW t \in Task, StopFails(t)
    PROVE  IInv'
<1>1. stops' \in [Task -> 0..MaxCalls]
  BY StopFacts DEF StopFails
<1>2. UNCHANGED <<task, turns, packages, active, queued, sending, handoffs, told, misled>>
  BY DEF StopFails, records, calls
<1>3. TypeOK' /\ ActiveIsOpen' /\ NothingSentEarly'
  BY <1>1, <1>2 DEF IInv, TypeOK, ActiveIsOpen, NothingSentEarly
<1> QED
  BY <1>2, <1>3, TasksStay

\* An answer resumes the worker and takes the task out of its package.
LEMMA AnswerKeeps ==
    ASSUME IInv, NEW t \in Task, Answer(t)
    PROVE  IInv'
<1> DEFINE r == [task[t] EXCEPT !.status = "running", !.asked = "answered"]
<1>1. /\ LeavePackage(t) /\ UNCHANGED <<stops, queued, sending, told, misled>>
      /\ task' = [task EXCEPT ![t] = r]
  BY DEF Answer
<1>2. r \in TaskRecord
  BY OfTask, Statuses DEF TaskRecord
<1>3. /\ r.status = "running" /\ r.asked = "answered" /\ r.correct = task[t].correct
      /\ r.heard = task[t].heard
  BY OfTask DEF TaskRecord
<1> HIDE DEF r
<1>4. task' \in [Task -> TaskRecord] /\ task'[t] = r /\ \A u \in Task \ {t} : task'[u] = task[u]
  BY <1>1, <1>2 DEF IInv, TypeOK
<1>5. turns' \in [Task -> 0..MaxCalls]
  BY Room DEF Answer, IInv, TypeOK
<1>6. handoffs' \in [PackageId -> [step : {"none", "due", "waking"}, took : SUBSET Question]]
  BY DEF Answer, HandOffIf, IInv, TypeOK
<1>7. TypeOK'
  BY <1>1, <1>4, <1>5, <1>6, LeavePackageFacts DEF IInv, TypeOK
<1>8. ~IsOver(t) /\ ~task[t].heard
  BY OfTask, Statuses DEF Answer, IsOver, HeardFits
<1>9. AskedFits(t)' /\ WaitsInActive(t)' /\ HeardFits(t)'
  BY <1>3, <1>4, <1>8, Statuses DEF AskedFits, WaitsInActive, HeardFits
<1>10. MisledFits(t)'
  BY <1>1, <1>3, <1>4, <1>8, OfTask, Statuses DEF MisledFits, IsOver
<1> QED
  BY <1>1, <1>4, <1>7, <1>9, <1>10, LeavePackageFacts, PackageMoves

\* A task that is not running is cancelled where it is.
LEMMA CancelIdleKeeps ==
    ASSUME IInv, NEW t \in Task, CancelIdle(t)
    PROVE  IInv'
<1> DEFINE r == [task[t] EXCEPT !.status = "cancelled", !.asked = "none", !.stop = TRUE]
<1>1. /\ LeavePackage(t) /\ UNCHANGED <<turns, stops, sending, told, misled>>
      /\ task' = [task EXCEPT ![t] = r]
  BY DEF CancelIdle
<1>2. r \in TaskRecord
  BY OfTask, Statuses DEF TaskRecord
<1>3. r.status = "cancelled" /\ r.heard = task[t].heard
  BY OfTask DEF TaskRecord
<1> HIDE DEF r
<1>4. task' \in [Task -> TaskRecord] /\ task'[t] = r /\ \A u \in Task \ {t} : task'[u] = task[u]
  BY <1>1, <1>2 DEF IInv, TypeOK
<1>5. queued' \subseteq Question
  BY DEF CancelIdle, IInv, TypeOK
<1>6. handoffs' \in [PackageId -> [step : {"none", "due", "waking"}, took : SUBSET Question]]
  BY DEF CancelIdle, HandOffIf, IInv, TypeOK
<1>7. TypeOK'
  BY <1>1, <1>4, <1>5, <1>6, LeavePackageFacts DEF IInv, TypeOK
<1>8. ~task[t].heard
  BY OfTask, Statuses DEF CancelIdle, HeardFits
<1>9. AskedFits(t)' /\ WaitsInActive(t)' /\ HeardFits(t)' /\ MisledFits(t)'
  BY <1>3, <1>4, <1>8, Statuses DEF AskedFits, WaitsInActive, HeardFits, MisledFits, IsOver
<1> QED
  BY <1>1, <1>4, <1>7, <1>9, LeavePackageFacts, PackageMoves
-----------------------------------------------------------------------------
(* The human and the coordinator.                                          *)

\* The question of a task that asks is one.
LEMMA QuestionOfAsking ==
    ASSUME IInv, NEW t \in Task, task[t].status \in Asking
    PROVE  QuestionOf(t) \in Question
<1>1. task[t].qid \in 0..MaxQuestions /\ MaxQuestions \in Nat
  BY OfTask, QuestionBounds DEF TaskRecord
<1>2. task[t].qid \in 1..MaxQuestions
  BY <1>1, OfTask DEF AskedFits
<1> QED
  BY <1>2 DEF QuestionOf, Question

\* Blocked tasks are put to the human in a new package.
LEMMA AskHumanKeeps ==
    ASSUME IInv, NEW ts \in SUBSET Task, AskHuman(ts)
    PROVE  IInv'
<1> DEFINE asks == {QuestionOf(t) : t \in ts}
           move(t, p) == [task[t] EXCEPT !.status = "waiting_for_human", !.pkg = p]
<1>1. PICK p \in PackageId :
        /\ packages[p].state = "none"
        /\ packages' = [packages EXCEPT ![p] =
                          [state |-> "active", open |-> ts, asks |-> asks,
                           delivered |-> FALSE, awaiting |-> FALSE]]
        /\ task' = [t \in Task |-> IF t \in ts THEN move(t, p) ELSE task[t]]
        /\ active' = p
        /\ sending' = [sending EXCEPT ![p] = sending[p] + 1]
  BY DEF AskHuman
<1>2. /\ active = 0 /\ ts # {} /\ UNCHANGED <<turns, stops, queued, handoffs, told, misled>>
      /\ \A t \in ts : task[t].status = "blocked" /\ task[t].asked = "open"
  BY DEF AskHuman
<1>3. asks \in SUBSET Question
  BY <1>2, QuestionOfAsking, Statuses
<1>4. MaxPackages \in Nat /\ MaxSends \in Nat /\ MaxSends > 0 /\ p \in 0..MaxPackages /\ p # 0
  BY QuestionBounds DEF PackageId
<1> HIDE DEF asks
<1>5. DEFINE k == [state |-> "active", open |-> ts, asks |-> asks,
                   delivered |-> FALSE, awaiting |-> FALSE]
<1>6. k \in PackageRecord /\ k.state = "active" /\ k.open = ts
  BY <1>3 DEF PackageRecord
<1>7. packages' = [packages EXCEPT ![p] = k]
  BY <1>1
<1> HIDE DEF k
<1>8. /\ packages' \in [PackageId -> PackageRecord] /\ packages'[p] = k
      /\ \A q \in PackageId \ {p} : packages'[q] = packages[q]
  BY <1>6, <1>7 DEF IInv, TypeOK
<1>9. sending[p] = 0
  BY <1>1 DEF IInv, NothingSentEarly
<1>10. sending' \in [PackageId -> 0..MaxSends] /\ \A q \in PackageId \ {p} : sending'[q] = sending[q]
  <2>1. sending[p] + 1 \in 0..MaxSends
    BY <1>4, <1>9
  <2> QED
    BY <1>1, <2>1 DEF IInv, TypeOK
<1>11. ASSUME NEW t \in ts
       PROVE  /\ move(t, p) \in TaskRecord
              /\ move(t, p).status = "waiting_for_human" /\ move(t, p).pkg = p
              /\ move(t, p).asked = "open" /\ move(t, p).qid = task[t].qid
              /\ move(t, p).correct = task[t].correct /\ move(t, p).heard = task[t].heard
              /\ move(t, p).review = task[t].review
  <2>1. task[t] \in TaskRecord /\ "waiting_for_human" \in Status
    BY OfTask, Statuses
  <2> QED
    BY <1>2, <1>4, <2>1 DEF TaskRecord
<1> HIDE DEF move
<1>12. /\ task' \in [Task -> TaskRecord]
       /\ \A t \in ts : task'[t] = move(t, p)
       /\ \A t \in Task \ ts : task'[t] = task[t]
  BY <1>1, <1>11 DEF IInv, TypeOK
<1>13. TypeOK'
  BY <1>1, <1>2, <1>4, <1>8, <1>10, <1>12 DEF IInv, TypeOK
<1>14. ActiveIsOpen'
  <2>1. /\ \A q \in PackageId : packages[q].state = "active" <=> active = q
        /\ \A q \in PackageId : packages[q].state = "active" <=> packages[q].open # {}
        /\ \A q \in PackageId : q # 0
    BY QuestionBounds DEF IInv, ActiveIsOpen, PackageId
  <2> QED
    BY <1>1, <1>2, <1>6, <1>8, <2>1 DEF ActiveIsOpen
<1>15. NothingSentEarly'
  BY <1>6, <1>8, <1>10 DEF IInv, NothingSentEarly
<1>16. ASSUME NEW t \in ts
       PROVE  AskedFits(t)' /\ WaitsInActive(t)' /\ MisledFits(t)' /\ HeardFits(t)'
  <2>1. t \in Task /\ AskedFits(t) /\ MisledFits(t) /\ HeardFits(t) /\ task[t].status = "blocked"
    BY <1>2 DEF IInv
  <2>2. ~task[t].heard /\ ~IsOver(t)
    BY <2>1, Statuses DEF HeardFits, IsOver
  <2>3. AskedFits(t)'
    BY <1>11, <1>12, <2>1, Statuses DEF AskedFits
  <2>4. WaitsInActive(t)'
    BY <1>1, <1>4, <1>6, <1>8, <1>11, <1>12 DEF WaitsInActive
  <2>5. MisledFits(t)'
    BY <1>2, <1>11, <1>12, <2>1, <2>2 DEF MisledFits
  <2>6. HeardFits(t)'
    BY <1>11, <1>12, <2>2 DEF HeardFits
  <2> QED
    BY <2>3, <2>4, <2>5, <2>6
<1>17. ASSUME NEW t \in Task \ ts
       PROVE  AskedFits(t)' /\ WaitsInActive(t)' /\ MisledFits(t)' /\ HeardFits(t)'
  <2>1. AskedFits(t) /\ WaitsInActive(t) /\ MisledFits(t) /\ HeardFits(t) /\ task'[t] = task[t]
    BY <1>12 DEF IInv
  <2>2. WaitsInActive(t)'
    BY <1>2, <2>1 DEF WaitsInActive
  <2> QED
    BY <1>2, <2>1, <2>2 DEF AskedFits, MisledFits, HeardFits, IsOver
<1> QED
  BY <1>13, <1>14, <1>15, <1>16, <1>17 DEF IInv

\* Blocked tasks join the queue behind the active package.
LEMMA AskHumanLaterKeeps ==
    ASSUME IInv, NEW ts \in SUBSET Task, AskHumanLater(ts)
    PROVE  IInv'
<1>1. {QuestionOf(t) : t \in ts} \subseteq Question
  BY QuestionOfAsking, Statuses DEF AskHumanLater
<1>2. queued' \subseteq Question
  BY <1>1 DEF AskHumanLater, IInv, TypeOK
<1>3. TypeOK'
  BY <1>2 DEF AskHumanLater, IInv, TypeOK, calls
<1>4. ActiveIsOpen' /\ NothingSentEarly'
  BY DEF AskHumanLater, IInv, ActiveIsOpen, NothingSentEarly, calls
<1> QED
  BY <1>3, <1>4, TasksStay DEF AskHumanLater

\* A step of a package's message changes neither its members nor its state.
LEMMA MessageMoves ==
    ASSUME IInv, NEW p \in PackageId, NEW d \in BOOLEAN, NEW a \in BOOLEAN,
           packages' = [packages EXCEPT ![p] = [packages[p] EXCEPT !.delivered = d,
                                                                   !.awaiting = a]],
           sending' \in [PackageId -> 0..MaxSends],
           \A q \in PackageId : sending[q] = 0 => sending'[q] = 0 \/ packages[q].state = "active",
           UNCHANGED <<task, turns, stops, active, queued, handoffs, told, misled>>
    PROVE  IInv'
<1> DEFINE k == [packages[p] EXCEPT !.delivered = d, !.awaiting = a]
<1>1. packages[p] \in PackageRecord /\ packages \in [PackageId -> PackageRecord]
  BY DEF IInv, TypeOK
<1>2. k \in PackageRecord /\ k.state = packages[p].state /\ k.open = packages[p].open
  BY <1>1 DEF PackageRecord
<1>3. packages' = [packages EXCEPT ![p] = k]
  OBVIOUS
<1> HIDE DEF k
<1>4. /\ packages' \in [PackageId -> PackageRecord]
      /\ \A q \in PackageId : packages'[q].state = packages[q].state /\ packages'[q].open = packages[q].open
  BY <1>1, <1>2, <1>3
<1>5. TypeOK'
  BY <1>4 DEF IInv, TypeOK
<1>6. ActiveIsOpen' /\ NothingSentEarly'
  BY <1>4 DEF IInv, ActiveIsOpen, NothingSentEarly
<1> QED
  BY <1>4, <1>5, <1>6, TasksStay

\* A delivery that ends was under way.
LEMMA SentFacts ==
    ASSUME IInv, NEW p \in PackageId, Sent(p)
    PROVE  /\ sending' \in [PackageId -> 0..MaxSends]
           /\ \A q \in PackageId : sending[q] = 0 => sending'[q] = 0
<1>1. MaxSends \in Nat /\ sending[p] \in 0..MaxSends /\ sending[p] > 0
  BY QuestionBounds DEF Sent, IInv, TypeOK
<1>2. sending[p] - 1 \in 0..MaxSends
  BY <1>1
<1> QED
  BY <1>1, <1>2 DEF Sent, IInv, TypeOK
\* A package as it is, written as a step of its message.
LEMMA MessageOf ==
    ASSUME IInv, NEW p \in PackageId
    PROVE  /\ packages[p].delivered \in BOOLEAN /\ packages[p].awaiting \in BOOLEAN
           /\ packages = [packages EXCEPT ![p] =
                [packages[p] EXCEPT !.delivered = packages[p].delivered,
                                    !.awaiting = packages[p].awaiting]]
           /\ [packages EXCEPT ![p].awaiting = FALSE] =
                [packages EXCEPT ![p] = [packages[p] EXCEPT !.delivered = packages[p].delivered,
                                                            !.awaiting = FALSE]]
<1>1. packages \in [PackageId -> PackageRecord] /\ packages[p] \in PackageRecord
  BY DEF IInv, TypeOK
<1>2. packages[p].delivered \in BOOLEAN /\ packages[p].awaiting \in BOOLEAN
  BY <1>1 DEF PackageRecord
<1>3. [packages[p] EXCEPT !.delivered = packages[p].delivered,
                          !.awaiting = packages[p].awaiting] = packages[p]
  BY <1>1 DEF PackageRecord
<1>4. [packages[p] EXCEPT !.delivered = packages[p].delivered, !.awaiting = FALSE]
        = [packages[p] EXCEPT !.awaiting = FALSE]
  BY <1>1 DEF PackageRecord
<1> QED
  BY <1>1, <1>2, <1>3, <1>4

\* A delivery that ends, however it ends.
LEMMA SentKeeps ==
    ASSUME IInv, NEW p \in PackageId, Delivered(p) \/ DeliveryFails(p) \/ DeliveryDeferred(p)
    PROVE  IInv'
<1>1. /\ UNCHANGED <<task, turns, stops, active, queued, handoffs, told, misled>>
      /\ sending' \in [PackageId -> 0..MaxSends]
      /\ \A q \in PackageId : sending[q] = 0 => sending'[q] = 0
  BY SentFacts DEF Delivered, DeliveryFails, DeliveryDeferred, records
<1>2. CASE packages' = packages
  BY <1>1, <1>2, MessageOf, MessageMoves
<1>3. CASE packages' = [packages EXCEPT ![p] = [packages[p] EXCEPT !.delivered = TRUE,
                                                                   !.awaiting = TRUE]]
  BY <1>1, <1>3, MessageMoves
<1>4. CASE packages' = [packages EXCEPT ![p].awaiting = FALSE]
  BY <1>1, <1>4, MessageOf, MessageMoves
<1>5. \/ packages' = packages
      \/ packages' = [packages EXCEPT ![p] = [packages[p] EXCEPT !.delivered = TRUE,
                                                                 !.awaiting = TRUE]]
      \/ packages' = [packages EXCEPT ![p].awaiting = FALSE]
  BY DEF Delivered, DeliveryFails, DeliveryDeferred, records
<1> QED
  BY <1>2, <1>3, <1>4, <1>5

\* The message is sent again.
LEMMA RetryDeliveryKeeps ==
    ASSUME IInv, NEW p \in PackageId, RetryDelivery(p)
    PROVE  IInv'
<1>1. MaxSends \in Nat /\ sending[p] \in 0..MaxSends /\ sending[p] < MaxSends
  BY QuestionBounds DEF RetryDelivery, IInv, TypeOK
<1>2. sending[p] + 1 \in 0..MaxSends
  BY <1>1
<1>3. sending' \in [PackageId -> 0..MaxSends]
  BY <1>2 DEF RetryDelivery, IInv, TypeOK
<1>4. \A q \in PackageId : sending[q] = 0 => (sending'[q] = 0 \/ packages[q].state = "active")
  BY DEF RetryDelivery, IsActive, IInv, TypeOK
<1>5. packages' = [packages EXCEPT ![p].awaiting = FALSE]
  BY DEF RetryDelivery
<1> QED
  BY <1>3, <1>4, <1>5, MessageOf, MessageMoves DEF RetryDelivery

\* The human's reply is claimed.
LEMMA ClaimReplyKeeps ==
    ASSUME IInv, NEW p \in PackageId, ClaimReply(p)
    PROVE  IInv'
<1>1. /\ sending' \in [PackageId -> 0..MaxSends]
      /\ \A q \in PackageId : sending[q] = 0 => sending'[q] = 0
      /\ UNCHANGED <<task, turns, stops, active, queued, handoffs, told, misled>>
  BY DEF ClaimReply, IInv, TypeOK, calls
<1>2. packages' = [packages EXCEPT ![p].awaiting = FALSE]
  BY DEF ClaimReply
<1> QED
  BY <1>1, <1>2, MessageOf, MessageMoves

\* The queued questions are handed on.
LEMMA HandOffKeeps ==
    ASSUME IInv, NEW p \in PackageId, HandOff(p) \/ HandOffFails(p) \/ HandOffWoken(p)
    PROVE  IInv'
<1> DEFINE H == [step : {"none", "due", "waking"}, took : SUBSET Question]
<1>1. queued \subseteq Question /\ handoffs \in [PackageId -> H] /\ handoffs[p] \in H
  BY DEF IInv, TypeOK
<1>2. ASSUME HandOff(p) PROVE queued' \subseteq Question /\ handoffs' \in [PackageId -> H]
  <2>1. CASE active = p
    BY <1>1, <1>2, <2>1 DEF HandOff
  <2>2. CASE active # p
    <3> DEFINE live == {q \in queued : StillBlocked(q)}
               h == IF live = {} THEN [handoffs[p] EXCEPT !.step = "none"]
                    ELSE [step |-> "waking", took |-> live]
    <3>1. queued' = live /\ handoffs' = [handoffs EXCEPT ![p] = h]
      BY <1>2, <2>2 DEF HandOff
    <3>2. live \subseteq Question
      BY <1>1
    <3> HIDE DEF live
    <3>3. h \in H
      BY <1>1, <3>2
    <3> HIDE DEF h
    <3> QED
      BY <1>1, <3>1, <3>2, <3>3
  <2> QED
    BY <2>1, <2>2
<1>3. ASSUME HandOffWoken(p) PROVE queued' \subseteq Question /\ handoffs' \in [PackageId -> H]
  BY <1>1, <1>3 DEF HandOffWoken
<1>4. ASSUME HandOffFails(p) PROVE queued' \subseteq Question /\ handoffs' \in [PackageId -> H]
  BY <1>1, <1>4 DEF HandOffFails, records
<1>5. UNCHANGED <<task, turns, stops, packages, active, sending, told, misled>>
  BY DEF HandOff, HandOffFails, HandOffWoken, records
<1>6. TypeOK'
  BY <1>2, <1>3, <1>4, <1>5 DEF IInv, TypeOK
<1>7. ActiveIsOpen' /\ NothingSentEarly'
  BY <1>5 DEF IInv, ActiveIsOpen, NothingSentEarly
<1> QED
  BY <1>5, <1>6, <1>7, TasksStay

\* The coordinator's turn lists results.
LEMMA CoordinatorTurnStartsKeeps ==
    ASSUME IInv, CoordinatorTurnStarts
    PROVE  IInv'
<1>1. /\ UNCHANGED <<task, turns, stops, packages, active, queued, sending, handoffs, misled>>
      /\ told' \subseteq Task
  BY DEF CoordinatorTurnStarts, records
<1>2. TypeOK' /\ ActiveIsOpen' /\ NothingSentEarly'
  BY <1>1 DEF IInv, TypeOK, ActiveIsOpen, NothingSentEarly
<1> QED
  BY <1>1, <1>2, TasksStay

\* The coordinator heard the results that are still to be heard when its turn
\* ends: those of finished tasks, and not under review.
LEMMA CoordinatorTurnEndsKeeps ==
    ASSUME IInv, CoordinatorTurnEnds
    PROVE  IInv'
<1> DEFINE heard(t) == [task[t] EXCEPT !.heard = TRUE]
           ts == {t \in told : CanInject(t)}
<1>1. UNCHANGED <<turns, stops, packages, active, queued, sending, handoffs, misled>> /\ told' = {}
  BY DEF CoordinatorTurnEnds, records
<1>2. ActiveIsOpen' /\ NothingSentEarly'
  BY <1>1 DEF IInv, ActiveIsOpen, NothingSentEarly
<1>3. CASE UNCHANGED task
  <2>1. TypeOK'
    BY <1>1, <1>3 DEF IInv, TypeOK
  <2> QED
    BY <1>1, <1>2, <1>3, <2>1, TasksStay
<1>4. CASE task' = Marked(told)
  <2>1. told \subseteq Task /\ ts \subseteq Task
    BY DEF IInv, TypeOK
  <2>2. task' = [t \in Task |-> IF t \in ts THEN heard(t) ELSE task[t]]
    BY <1>4, <2>1 DEF Marked
  <2>3. \A t \in ts : task[t].status = "finished" /\ ~task[t].review
    BY DEF CanInject
  <2>4. ASSUME NEW t \in ts
        PROVE  /\ heard(t) \in TaskRecord /\ heard(t).status = task[t].status
               /\ heard(t).review = task[t].review
    BY <2>1, OfTask DEF TaskRecord
  <2> HIDE DEF heard, ts
  <2>5. /\ task' \in [Task -> TaskRecord]
        /\ \A t \in ts : task'[t] = heard(t)
        /\ \A t \in Task \ ts : task'[t] = task[t]
    BY <2>1, <2>2, <2>4 DEF IInv, TypeOK
  <2>6. TypeOK'
    BY <1>1, <2>5 DEF IInv, TypeOK
  <2>7. ASSUME NEW t \in ts
        PROVE  AskedFits(t)' /\ WaitsInActive(t)' /\ MisledFits(t)' /\ HeardFits(t)'
    <3>1. task'[t].status = "finished" /\ ~task'[t].review
      BY <2>3, <2>4, <2>5
    <3>2. ~misled[t]
      BY <2>1, <2>3, OfTask DEF MisledFits
    <3> QED
      BY <1>1, <3>1, <3>2, Statuses DEF AskedFits, WaitsInActive, MisledFits, HeardFits
  <2>8. ASSUME NEW t \in Task \ ts
        PROVE  AskedFits(t)' /\ WaitsInActive(t)' /\ MisledFits(t)' /\ HeardFits(t)'
    <3>1. AskedFits(t) /\ WaitsInActive(t) /\ MisledFits(t) /\ HeardFits(t)
      BY DEF IInv
    <3> QED
      BY <1>1, <2>5, <3>1 DEF AskedFits, WaitsInActive, MisledFits, HeardFits, IsOver
  <2> QED
    BY <1>2, <2>6, <2>7, <2>8 DEF IInv
<1> QED
  BY <1>3, <1>4 DEF CoordinatorTurnEnds

\* A restart keeps the records; nothing is under way after it.
LEMMA RestartKeeps ==
    ASSUME IInv, Restart
    PROVE  IInv'
<1>1. MaxCalls \in Nat /\ MaxSends \in Nat
  BY QuestionBounds
<1>2. /\ UNCHANGED <<task, packages, active, queued, misled>>
      /\ turns' \in [Task -> 0..MaxCalls] /\ stops' \in [Task -> 0..MaxCalls]
      /\ sending' = [p \in PackageId |-> 0] /\ told' = {}
      /\ handoffs' \in [PackageId -> [step : {"none", "due", "waking"}, took : SUBSET Question]]
  BY <1>1 DEF Restart, records
<1>3. TypeOK'
  BY <1>1, <1>2 DEF IInv, TypeOK
<1>4. ActiveIsOpen' /\ NothingSentEarly'
  BY <1>2 DEF IInv, ActiveIsOpen, NothingSentEarly
<1> QED
  BY <1>2, <1>3, <1>4, TasksStay

-----------------------------------------------------------------------------
(* The theorems.                                                           *)

\* Before anything was asked.
LEMMA InitHolds == Init => IInv
<1> SUFFICES ASSUME Init PROVE IInv
  OBVIOUS
<1>1. {MaxQuestions, MaxPackages, MaxCalls, MaxSends} \subseteq Nat
  BY QuestionBounds
<1>2. NewTask \in TaskRecord /\ NoPackage \in PackageRecord
  BY <1>1, Statuses DEF NewTask, NoPackage, TaskRecord, PackageRecord
<1>3. TypeOK
  BY <1>1, <1>2 DEF Init, TypeOK
<1>4. ASSUME NEW t \in Task
      PROVE  AskedFits(t) /\ WaitsInActive(t) /\ MisledFits(t) /\ HeardFits(t)
  <2>1. task[t] = NewTask
    BY DEF Init
  <2>2. ~misled[t]
    BY DEF Init
  <2> QED
    BY <2>1, <2>2, Statuses
    DEF NewTask, AskedFits, WaitsInActive, MisledFits, HeardFits
<1>5. ActiveIsOpen /\ NothingSentEarly
  <2>1. /\ \A p \in PackageId : packages[p] = NoPackage /\ sending[p] = 0 /\ p # 0
        /\ active = 0
    BY <1>1 DEF Init, PackageId
  <2> QED
    BY <2>1 DEF NoPackage, ActiveIsOpen, NothingSentEarly
<1> QED
  BY <1>3, <1>4, <1>5 DEF IInv

\* Every step keeps the invariant.
LEMMA StepKeeps == IInv /\ [Next]_vars => IInv'
<1> SUFFICES ASSUME IInv, [Next]_vars PROVE IInv'
  OBVIOUS
<1>1. ASSUME NEW t \in Task,
             \/ Dispatch(t) \/ RaiseQuestion(t) \/ WorkerReplies(t) \/ TurnEnds(t)
             \/ Answer(t) \/ RetractRunning(t) \/ RetractFinished(t)
             \/ AcceptResult(t) \/ DiscardResult(t)
             \/ CancelRunning(t) \/ CancelIdle(t) \/ StopDone(t) \/ StopFails(t)
      PROVE  IInv'
  BY <1>1, DispatchKeeps, RaiseQuestionKeeps, WorkerRepliesKeeps, TurnEndsKeeps, AnswerKeeps,
     RetractRunningKeeps, RetractFinishedKeeps, AcceptResultKeeps, DiscardResultKeeps, CancelRunningKeeps,
     CancelIdleKeeps, StopDoneKeeps, StopFailsKeeps
<1>2. ASSUME NEW ts \in SUBSET Task, AskHuman(ts) \/ AskHumanLater(ts)
      PROVE  IInv'
  BY <1>2, AskHumanKeeps, AskHumanLaterKeeps
<1>3. ASSUME NEW p \in PackageId,
             \/ Delivered(p) \/ DeliveryFails(p) \/ DeliveryDeferred(p)
             \/ RetryDelivery(p) \/ ClaimReply(p)
             \/ HandOff(p) \/ HandOffFails(p) \/ HandOffWoken(p)
      PROVE  IInv'
  BY <1>3, SentKeeps, RetryDeliveryKeeps, ClaimReplyKeeps, HandOffKeeps
<1>4. CASE CoordinatorTurnStarts \/ CoordinatorTurnEnds \/ Restart
  BY <1>4, CoordinatorTurnStartsKeeps, CoordinatorTurnEndsKeeps, RestartKeeps
<1>5. CASE UNCHANGED vars
  <2>1. /\ UNCHANGED <<task, active, packages, sending, misled>> /\ TypeOK'
    BY <1>5 DEF vars, records, calls, IInv, TypeOK
  <2>2. ActiveIsOpen' /\ NothingSentEarly'
    BY <2>1 DEF IInv, ActiveIsOpen, NothingSentEarly
  <2> QED
    BY <2>1, <2>2, TasksStay
<1> QED
  BY <1>1, <1>2, <1>3, <1>4, <1>5 DEF Next

\* The invariant holds in every run.
THEOREM Invariance == Spec => []IInv
BY InitHolds, StepKeeps, PTL DEF Spec

\* Tasks, their questions, their packages and the active package move together:
\* a task that waits for the human is an open member of the active package, and
\* a package is active just while it has members.
THEOREM QuestionsConsistent == Spec => []QuestionInv
<1>1. IInv => QuestionInv
  <2> SUFFICES ASSUME IInv PROVE QuestionInv
    OBVIOUS
  <2>1. ASSUME NEW t \in Task
        PROVE  AskedFits(t) /\ WaitsInActive(t)
    BY DEF IInv
  <2>2. WaitingIsAsked
    BY <2>1 DEF WaitingIsAsked, AskedFits, WaitsInActive, IsRunning
  <2> QED
    BY <2>2 DEF IInv, QuestionInv
<1> QED
  BY <1>1, Invariance, PTL

\* A result that rests on a retracted answer is under review, and unheard, until
\* somebody accepted or discarded it: the correction a retraction asks for
\* outlives the worker's questions and answers, lost stops and restarts.
THEOREM MisledReviewed == Spec => []MisledIsReviewed
<1>1. IInv => MisledIsReviewed
  <2> SUFFICES ASSUME IInv, NEW t \in Task, misled[t], task[t].status = "finished"
               PROVE  task[t].review /\ ~task[t].heard
    BY DEF MisledIsReviewed
  <2> QED
    BY OfTask DEF MisledFits, HeardFits
<1> QED
  BY <1>1, Invariance, PTL

\* A result the coordinator has heard is neither contested nor withdrawn.
THEOREM HeardStays == Spec => []HeardIsFinal
<1>1. IInv => HeardIsFinal
  BY DEF IInv, HeardIsFinal, HeardFits
<1> QED
  BY <1>1, Invariance, PTL
\* A step changes how an over task ended only by withdrawing its contested
\* result, which puts the task back to asking.
LEMMA OverTaskStep ==
    ASSUME IInv, Next, NEW t \in Task, IsOver(t)
    PROVE  task'[t].status = task[t].status \/ (task[t].review /\ task'[t].status \in Asking)
<1>0. /\ task \in [Task -> TaskRecord] /\ task[t] \in TaskRecord
      /\ task[t].status \notin Asking \cup {"running", "unstarted"}
  BY Statuses DEF IInv, TypeOK, IsOver
<1>1. ASSUME NEW u \in Task,
             \/ Dispatch(u) \/ RaiseQuestion(u) \/ Answer(u) \/ RetractRunning(u)
             \/ CancelRunning(u) \/ CancelIdle(u)
      PROVE  task'[t] = task[t]
  <2>1. task[u].status \in Asking \cup {"running", "unstarted"}
    BY <1>1 DEF Dispatch, RaiseQuestion, Answer, RetractRunning, CancelRunning, CancelIdle,
                IsRunning, Asking
  <2>2. u # t
    BY <1>0, <2>1
  <2>3. \E r : task' = [task EXCEPT ![u] = r]
    BY <1>1 DEF Dispatch, RaiseQuestion, Answer, RetractRunning, CancelRunning, CancelIdle
  <2> QED
    BY <1>0, <2>2, <2>3
<1>2. ASSUME NEW u \in Task, RetractFinished(u) \/ AcceptResult(u)
      PROVE  task'[t].status = task[t].status
  <2>1. PICK b \in BOOLEAN : task' = [task EXCEPT ![u].review = b]
    BY <1>2 DEF RetractFinished, AcceptResult
  <2> QED
    BY <1>0, <2>1 DEF TaskRecord
<1>3. ASSUME NEW u \in Task, DiscardResult(u)
      PROVE  task'[t].status = task[t].status \/ (task[t].review /\ task'[t].status \in Asking)
  <2>1. AskAgain(u) /\ task[u].review /\ UNCHANGED <<active, sending>>
    BY <1>3 DEF DiscardResult, calls
  <2> QED
    BY <2>1, AskAgainFacts
<1>4. ASSUME NEW u \in Task, WorkerReplies(u) \/ TurnEnds(u)
      PROVE  task'[t] = task[t]
  <2>1. CASE UNCHANGED task
    BY <2>1
  <2>2. CASE IsRunning(u) /\ \E s \in Terminal : task' = Replied(u, s)
    <3>1. u # t
      BY <1>0, <2>2 DEF IsRunning
    <3>2. \E r : task' = [task EXCEPT ![u] = r]
      BY <2>2 DEF Replied
    <3> QED
      BY <1>0, <3>1, <3>2
  <2> QED
    BY <1>4, <2>1, <2>2, Statuses DEF WorkerReplies, TurnEnds
<1>5. ASSUME NEW u \in Task, StopDone(u)
      PROVE  task'[t] = task[t]
  <2>1. CASE IsOver(u)
    BY <1>5, <2>1 DEF StopDone
  <2>2. CASE ~IsOver(u)
    <3>1. u # t
      BY <2>2
    <3>2. CASE task[u].correct
      <4>1. AskAgain(u) /\ UNCHANGED <<active, sending>>
        BY <1>5, <2>2, <3>2 DEF StopDone, calls
      <4> QED
        BY <3>1, <4>1, AskAgainFacts
    <3>3. CASE ~task[u].correct
      <4>1. \E r : task' = [task EXCEPT ![u] = r]
        BY <1>5, <2>2, <3>3 DEF StopDone
      <4> QED
        BY <1>0, <3>1, <4>1
    <3> QED
      BY <3>2, <3>3
  <2> QED
    BY <2>1, <2>2
<1>6. ASSUME NEW u \in Task, StopFails(u)
      PROVE  task'[t] = task[t]
  BY <1>6 DEF StopFails
<1>7. ASSUME NEW ts \in SUBSET Task, AskHuman(ts)
      PROVE  task'[t] = task[t]
  <2>1. t \notin ts
    BY <1>0, <1>7, Statuses DEF AskHuman
  <2> QED
    BY <1>7, <2>1 DEF AskHuman
<1>8. CASE CoordinatorTurnEnds
  <2>1. CASE UNCHANGED task
    BY <2>1
  <2>2. CASE task' = Marked(told)
    BY <1>0, <2>2 DEF Marked, TaskRecord, TypeOK
  <2> QED
    BY <1>8, <2>1, <2>2 DEF CoordinatorTurnEnds
<1>9. ASSUME NEW ts \in SUBSET Task, AskHumanLater(ts)
      PROVE  task'[t] = task[t]
  BY <1>9 DEF AskHumanLater
<1>10. ASSUME NEW p \in PackageId,
              \/ Delivered(p) \/ DeliveryFails(p) \/ DeliveryDeferred(p)
              \/ RetryDelivery(p) \/ ClaimReply(p)
             \/ HandOff(p) \/ HandOffFails(p) \/ HandOffWoken(p)
       PROVE  task'[t] = task[t]
  <2>1. task' = task
    BY <1>10 DEF Delivered, DeliveryFails, DeliveryDeferred, RetryDelivery, ClaimReply,
                 HandOff, HandOffFails, HandOffWoken
  <2> QED
    BY <2>1
<1>11. CASE CoordinatorTurnStarts \/ Restart
  BY <1>11 DEF CoordinatorTurnStarts, Restart
<1> QED
  BY <1>1, <1>2, <1>3, <1>4, <1>5, <1>6, <1>7, <1>8, <1>9, <1>10, <1>11 DEF Next

\* How a task ended stays, but for a contested result that is withdrawn.
THEOREM EndsStay == Spec => FinishedStays
<1>1. IInv /\ [Next]_vars =>
        [\A t \in Task : IsOver(t) =>
           \/ task'[t].status = task[t].status
           \/ task[t].review /\ task'[t].status \in Asking]_vars
  BY OverTaskStep
<1> QED
  BY <1>1, Invariance, PTL DEF Spec, FinishedStays
=============================================================================
