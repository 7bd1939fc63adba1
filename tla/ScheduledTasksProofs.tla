------------------------ MODULE ScheduledTasksProofs ------------------------
(***************************************************************************)
(* Safety of scheduled prompts for any finite set of tasks, any times and  *)
(* any number of restarts.                                                 *)
(***************************************************************************)
EXTENDS ScheduledTasks, SequenceTheorems, FiniteSetTheorems, TLAPS

\* A batch holds exactly the due tasks, each once.
LEMMA SortedFacts ==
    ASSUME NEW S, IsFiniteSet(S), NEW b \in Sorted(S)
    PROVE  /\ b \in Seq(S)
           /\ ToSet(b) = S
           /\ \A i, j \in DOMAIN b : i # j => b[i] # b[j]
           /\ b = <<>> <=> S = {}
<1> DEFINE n == Cardinality(S)
<1>1. n \in Nat
  BY FS_CardinalityType
<1>2. b \in [1..n -> S] /\ \A i, j \in 1..n : i # j => b[i] # b[j]
  BY DEF Sorted, SetToSeqs
<1>3. b \in Injection(1..n, S)
  BY <1>2 DEF Injection, IsInjective
<1>4. Cardinality(1..n) = Cardinality(S)
  BY <1>1, FS_Interval
<1>5. b \in Surjection(1..n, S)
  BY <1>3, <1>4, FS_Injection
<1>6. ToSet(b) = S
  BY <1>2, <1>5 DEF ToSet, Surjection
<1>7. b \in Seq(S) /\ DOMAIN b = 1..n
  BY <1>1, <1>2, SeqDef
<1>8. b = <<>> <=> S = {}
  <2>1. ASSUME b = <<>> PROVE S = {}
    <3>1. DOMAIN b = {}
      BY <2>1, EmptySeq, LenProperties
    <3> QED
      BY <3>1, <1>6 DEF ToSet
  <2>2. ASSUME b # <<>> PROVE S # {}
    <3>0. Len(b) \in Nat \ {0}
      BY <2>2, <1>7, EmptySeq
    <3>1. DOMAIN b = 1..Len(b)
      BY <1>7, LenProperties
    <3>2. 1 \in DOMAIN b
      BY <3>0, <3>1
    <3> QED
      BY <3>2, <1>6 DEF ToSet
  <2> QED
    BY <2>1, <2>2
<1> QED
  BY <1>2, <1>6, <1>7, <1>8

\* What taking the head of the batch leaves, when no task is in it twice.
LEMMA TailFacts ==
    ASSUME NEW S, NEW s \in Seq(S), s # <<>>,
           \A i, j \in DOMAIN s : i # j => s[i] # s[j]
    PROVE  /\ 1 \in DOMAIN s /\ Head(s) = s[1] /\ Head(s) \in S
           /\ Tail(s) \in Seq(S)
           /\ ToSet(Tail(s)) = ToSet(s) \ {Head(s)}
           /\ \A i \in DOMAIN Tail(s) :
                i + 1 \in DOMAIN s /\ i + 1 # 1 /\ Tail(s)[i] = s[i + 1]
           /\ \A i, j \in DOMAIN Tail(s) : i # j => Tail(s)[i] # Tail(s)[j]
<1>1. /\ 1 \in DOMAIN s /\ Head(s) = s[1] /\ Head(s) \in S
      /\ Tail(s) \in Seq(S)
      /\ \A i \in DOMAIN Tail(s) :
            i \in Nat /\ i + 1 \in DOMAIN s /\ i + 1 # 1 /\ Tail(s)[i] = s[i + 1]
      /\ \A i \in DOMAIN s :
            i # 1 => i - 1 \in DOMAIN Tail(s) /\ Tail(s)[i - 1] = s[i]
  BY HeadTailProperties, LenProperties, EmptySeq
<1>2. ToSet(Tail(s)) = ToSet(s) \ {Head(s)}
  <2>1. ASSUME NEW i \in DOMAIN Tail(s) PROVE Tail(s)[i] \in ToSet(s) \ {Head(s)}
    BY <1>1 DEF ToSet
  <2>2. ASSUME NEW i \in DOMAIN s, s[i] # Head(s)
        PROVE  \E j \in DOMAIN Tail(s) : Tail(s)[j] = s[i]
    BY <1>1, <2>2
  <2> QED
    BY <2>1, <2>2 DEF ToSet
<1>3. \A i, j \in DOMAIN Tail(s) : i # j => Tail(s)[i] # Tail(s)[j]
  BY <1>1
<1> QED
  BY <1>1, <1>2, <1>3

-----------------------------------------------------------------------------
(* The invariant.                                                          *)

\* The daemon starts without tasks, before its scheduler.
LEMMA InitEstablishesClaimInv == Init => ClaimInv
<1> SUFFICES ASSUME Init PROVE ClaimInv
  OBVIOUS
<1> USE DEF Init, Blank
<1>1. TypeOK
  BY HorizonType, EmptySeq DEF TypeOK, Status, Time
<1>2. TriggeringIsHeld
  BY DEF TriggeringIsHeld
<1>3. BatchIsClaimed
  BY EmptySeq, LenProperties DEF BatchIsClaimed
<1>4. SentIsOverdue
  BY DEF SentIsOverdue
<1>5. StoredWasTrue
  BY DEF StoredWasTrue
<1> QED
  BY <1>1, <1>2, <1>3, <1>4, <1>5 DEF ClaimInv

\* A new task is due in the future and was never sent.
LEMMA CreateKeepsClaimInv ==
    ASSUME ClaimInv, NEW t \in Task, NEW at \in Time, Create(t, at)
    PROVE  ClaimInv'
<1> USE DEF ClaimInv, TypeOK, Create, schedulerVars, agentVars
<1>1. now \in Nat /\ at \in Nat /\ at # 0
  BY HorizonType DEF Time
<1>2. status[t] = "absent" /\ stored[t] = "absent" /\ runs[t] = 0
  BY DEF StoredWasTrue
<1>3. TypeOK'
  BY DEF Status
<1>4. TriggeringIsHeld'
  BY DEF TriggeringIsHeld
<1>5. BatchIsClaimed'
  <2>1. \A i \in DOMAIN batch : batch[i] \in Task /\ batch[i] # t
    BY <1>2, LenProperties DEF BatchIsClaimed
  <2> QED
    BY <2>1 DEF BatchIsClaimed
<1>6. SentIsOverdue'
  BY <1>2 DEF SentIsOverdue
<1>7. StoredWasTrue'
  BY <1>1, <1>2 DEF StoredWasTrue
<1> QED
  BY <1>3, <1>4, <1>5, <1>6, <1>7

\* Only a pending task is cancelled, so none in the batch is.
LEMMA CancelKeepsClaimInv ==
    ASSUME ClaimInv, NEW t \in Task, Cancel(t)
    PROVE  ClaimInv'
<1> USE DEF ClaimInv, TypeOK, Cancel, schedulerVars, agentVars
<1>1. TypeOK'
  BY DEF Status
<1>2. TriggeringIsHeld'
  BY DEF TriggeringIsHeld
<1>3. BatchIsClaimed'
  <2>1. \A i \in DOMAIN batch : batch[i] \in Task /\ batch[i] # t
    BY LenProperties DEF BatchIsClaimed
  <2> QED
    BY <2>1 DEF BatchIsClaimed
<1>4. SentIsOverdue'
  BY DEF SentIsOverdue
<1>5. StoredWasTrue'
  BY DEF StoredWasTrue
<1> QED
  BY <1>1, <1>2, <1>3, <1>4, <1>5

\* Loading the file copies records of an earlier moment.
LEMMA LaterLoadsKeepsClaimInv ==
    ASSUME ClaimInv, NEW c \in Cli, LaterLoads(c)
    PROVE  ClaimInv'
<1> USE DEF ClaimInv, TypeOK, LaterLoads, schedulerVars, agentVars
<1>1. seen'[c] = stored /\ \A d \in Cli : d # c => seen'[d] = seen[d]
  OBVIOUS
<1>2. TypeOK'
  OBVIOUS
<1>3. TriggeringIsHeld'
  BY DEF TriggeringIsHeld
<1>4. BatchIsClaimed'
  BY DEF BatchIsClaimed
<1>5. SentIsOverdue'
  BY DEF SentIsOverdue
<1>6. StoredWasTrue'
  BY <1>1 DEF StoredWasTrue
<1> QED
  BY <1>2, <1>3, <1>4, <1>5, <1>6

\* What the command line writes back is of an earlier moment too, but for the
\* cancellation, which is in the file only.
LEMMA LaterCancelsKeepsClaimInv ==
    ASSUME ClaimInv, NEW c \in Cli, NEW t \in Task, LaterCancels(c, t)
    PROVE  ClaimInv'
<1> USE DEF ClaimInv, TypeOK, LaterCancels, schedulerVars, agentVars
<1>1. /\ seen'[c] = [u \in Task |-> "absent"]
      /\ \A d \in Cli : d # c => seen'[d] = seen[d]
  BY DEF Blank
<1>2. /\ stored'[t] = "cancelled"
      /\ \A u \in Task : u # t => stored'[u] = seen[c][u]
      /\ due[t] # 0
  BY DEF StoredWasTrue
<1>3. TypeOK'
  BY DEF Status, Blank
<1>4. TriggeringIsHeld'
  BY DEF TriggeringIsHeld
<1>5. BatchIsClaimed'
  BY DEF BatchIsClaimed
<1>6. SentIsOverdue'
  BY DEF SentIsOverdue
<1>7. StoredWasTrue'
  BY <1>1, <1>2 DEF StoredWasTrue
<1> QED
  BY <1>3, <1>4, <1>5, <1>6, <1>7

\* The startup reconciliation leaves nothing triggering, and nothing pending
\* that was sent.
LEMMA StartKeepsClaimInv ==
    ASSUME ClaimInv, Start
    PROVE  ClaimInv'
<1> USE DEF ClaimInv, TypeOK, Start, agentVars
<1>1. batch = <<>> /\ DOMAIN batch = {} /\ claimed = {}
  BY EmptySeq, LenProperties DEF BatchIsClaimed, ToSet
<1>2. \A t \in Task :
         /\ status'[t] \in Status \ {"triggering"}
         /\ status'[t] \in {status[t], "missed", "failed"}
         /\ status'[t] = "pending" => status[t] = "pending" /\ ~(due[t] < now)
         /\ status[t] \notin {"pending", "triggering"} => status'[t] = status[t]
  BY <1>1 DEF Reconciled, Status
<1>3. TypeOK'
  BY <1>2 DEF Status
<1>4. TriggeringIsHeld'
  BY <1>2 DEF TriggeringIsHeld
<1>5. BatchIsClaimed'
  BY <1>1 DEF BatchIsClaimed
<1>6. SentIsOverdue'
  BY <1>2 DEF SentIsOverdue
<1>7. StoredWasTrue'
  BY <1>2 DEF StoredWasTrue
<1> QED
  BY <1>3, <1>4, <1>5, <1>6, <1>7

\* A tick that begins has no batch yet, and the scheduler is not down.
LEMMA TickKeepsClaimInv ==
    ASSUME ClaimInv, Tick
    PROVE  ClaimInv'
<1> USE DEF ClaimInv, TypeOK, Tick, agentVars
<1>1. TypeOK'
  OBVIOUS
<1>2. TriggeringIsHeld'
  BY DEF TriggeringIsHeld
<1>3. BatchIsClaimed'
  BY DEF BatchIsClaimed
<1>4. SentIsOverdue'
  BY DEF SentIsOverdue
<1>5. StoredWasTrue'
  BY DEF StoredWasTrue
<1> QED
  BY <1>1, <1>2, <1>3, <1>4, <1>5

\* A claim takes all that is due; none of it was sent, because the scheduler is
\* not down any more.
LEMMA ClaimKeepsClaimInv ==
    ASSUME ClaimInv, Claim
    PROVE  ClaimInv'
<1> USE DEF ClaimInv, TypeOK, Claim, agentVars
<1>1. batch = <<>> /\ DOMAIN batch = {} /\ scheduler # "down" /\ claimed = {}
  BY EmptySeq, LenProperties DEF BatchIsClaimed, ToSet
<1>2. CASE DueTasks = {} \/ ~open
  <2>1. TypeOK'
    BY <1>2
  <2>2. TriggeringIsHeld'
    BY <1>2 DEF TriggeringIsHeld
  <2>3. BatchIsClaimed'
    BY <1>1, <1>2 DEF BatchIsClaimed
  <2>4. SentIsOverdue'
    BY <1>2 DEF SentIsOverdue
  <2>5. StoredWasTrue'
    BY <1>2 DEF StoredWasTrue
  <2> QED
    BY <2>1, <2>2, <2>3, <2>4, <2>5
<1>3. CASE ~(DueTasks = {} \/ ~open)
  <2>0. /\ DueTasks \subseteq Task
        /\ \A t \in DueTasks : status[t] = "pending" /\ due[t] <= now /\ runs[t] = 0
    BY <1>1 DEF DueTasks, SentIsOverdue
  <2>1. IsFiniteSet(DueTasks)
    BY <2>0, TaskFinite, FS_Subset
  <2>2. /\ batch' \in Seq(DueTasks)
        /\ ToSet(batch') = DueTasks
        /\ \A i, j \in DOMAIN batch' : i # j => batch'[i] # batch'[j]
        /\ batch' # <<>>
    BY <1>3, <2>1, SortedFacts
  <2>3. \A i \in DOMAIN batch' : batch'[i] \in DueTasks
    BY <2>2 DEF ToSet
  <2>4. \A t \in Task : status'[t] = IF t \in DueTasks THEN "triggering" ELSE status[t]
    BY <1>3
  <2>5. TypeOK'
    <3>1. batch' \in Seq(Task)
      BY <2>0, <2>2, SeqMonotonic
    <3>2. claimed' \subseteq ToSet(batch')
      BY <1>1, <1>3, <2>2
    <3> QED
      BY <1>3, <2>0, <3>1, <3>2 DEF Status
  <2>6. TriggeringIsHeld'
    BY <1>1, <1>3, <2>2, <2>4 DEF TriggeringIsHeld, ToSet
  <2>7. BatchIsClaimed'
    BY <1>1, <1>3, <2>0, <2>2, <2>3, <2>4 DEF BatchIsClaimed
  <2>8. SentIsOverdue'
    BY <1>3, <2>4 DEF SentIsOverdue
  <2>9. StoredWasTrue'
    BY <1>3, <2>0, <2>4 DEF StoredWasTrue
  <2> QED
    BY <2>5, <2>6, <2>7, <2>8, <2>9
<1> QED
  BY <1>2, <1>3

\* The current task of the batch is sent for the first time.
LEMMA DispatchKeepsClaimInv ==
    ASSUME ClaimInv, Dispatch
    PROVE  ClaimInv'
<1> USE DEF ClaimInv, TypeOK, Dispatch
<1> DEFINE h == Head(batch)
<1>1. /\ batch # <<>> /\ scheduler # "down"
      /\ \A i, j \in DOMAIN batch : i # j => batch[i] # batch[j]
  BY DEF BatchIsClaimed
<1>2. 1 \in DOMAIN batch /\ h = batch[1] /\ h \in Task
  BY <1>1, TailFacts
<1>3. status[h] = "triggering" /\ runs[h] = 0
  BY <1>2 DEF BatchIsClaimed
<1>4. \A t \in Task : t # h => runs'[t] = runs[t] /\ work'[t] = work[t]
  OBVIOUS
<1>5. runs'[h] = 1 /\ work'[h] = "running"
  BY <1>2, <1>3
<1> HIDE DEF h
<1>6. TypeOK'
  BY <1>2 DEF h
<1>7. TriggeringIsHeld'
  BY DEF TriggeringIsHeld
<1>8. BatchIsClaimed'
  <2>1. \A i \in DOMAIN batch : batch[i] \in Task
    BY LenProperties
  <2>2. \A i \in DOMAIN batch : i # 1 => batch[i] # h
    BY <1>1, <1>2
  <2> QED
    BY <1>1, <1>2, <1>4, <2>1, <2>2 DEF BatchIsClaimed
<1>9. SentIsOverdue'
  <2>1. due[h] <= now
    BY <1>2 DEF BatchIsClaimed
  <2> QED
    BY <1>3, <1>4, <2>1 DEF SentIsOverdue
<1>10. StoredWasTrue'
  BY <1>2, <1>3, <1>4, <1>5 DEF StoredWasTrue
<1> QED
  BY <1>6, <1>7, <1>8, <1>9, <1>10

\* A turn ends: for the current task, whose verdict it gives, or too late.
LEMMA WorkEndsKeepsClaimInv ==
    ASSUME ClaimInv, NEW t \in Task, WorkEnds(t)
    PROVE  ClaimInv'
<1> USE DEF ClaimInv, TypeOK, WorkEnds, Racing
<1>1. /\ work'[t] \in {"ok", "failed", "late"}
      /\ \A u \in Task : u # t => work'[u] = work[u]
  OBVIOUS
<1>2. \A i \in DOMAIN batch : batch[i] \in Task
  BY LenProperties
<1>3. TypeOK'
  OBVIOUS
<1>4. TriggeringIsHeld'
  BY DEF TriggeringIsHeld
<1>5. BatchIsClaimed'
  <2>1. CASE Racing(t)
    <3>1. batch # <<>> /\ 1 \in DOMAIN batch /\ Head(batch) = batch[1]
      BY <2>1, TailFacts DEF BatchIsClaimed
    <3>2. verdict' = "executed" => work'[batch[1]] = "ok"
      BY <2>1, <3>1
    <3> QED
      BY <2>1, <3>1, <3>2 DEF BatchIsClaimed
  <2>2. CASE ~Racing(t)
    <3>1. work[t] # "ok"
      OBVIOUS
    <3>2. batch # <<>> => batch[1] \in Task
      BY <1>2, TailFacts DEF BatchIsClaimed
    <3> QED
      BY <1>1, <2>2, <3>1, <3>2 DEF BatchIsClaimed
  <2> QED
    BY <2>1, <2>2
<1>6. SentIsOverdue'
  BY DEF SentIsOverdue
<1>7. StoredWasTrue'
  BY <1>1 DEF StoredWasTrue
<1> QED
  BY <1>3, <1>4, <1>5, <1>6, <1>7

\* A dispatch that reaches its limit is recorded as failed, whatever the turn
\* does then.
LEMMA TimeoutKeepsClaimInv ==
    ASSUME ClaimInv, Timeout
    PROVE  ClaimInv'
<1> USE DEF ClaimInv, TypeOK, Timeout, agentVars
<1>1. TypeOK'
  OBVIOUS
<1>2. TriggeringIsHeld'
  BY DEF TriggeringIsHeld
<1>3. BatchIsClaimed'
  BY DEF BatchIsClaimed
<1>4. SentIsOverdue'
  BY DEF SentIsOverdue
<1>5. StoredWasTrue'
  BY DEF StoredWasTrue
<1> QED
  BY <1>1, <1>2, <1>3, <1>4, <1>5

\* The current task is recorded and leaves the batch.
LEMMA MarkKeepsClaimInv ==
    ASSUME ClaimInv, Mark
    PROVE  ClaimInv'
<1> USE DEF ClaimInv, TypeOK, Mark, agentVars
<1> DEFINE h == Head(batch)
<1>1. /\ batch # <<>> /\ scheduler # "down"
      /\ \A i, j \in DOMAIN batch : i # j => batch[i] # batch[j]
      /\ verdict = "executed" => work[batch[1]] = "ok"
  BY DEF BatchIsClaimed
<1>2. /\ 1 \in DOMAIN batch /\ h = batch[1] /\ h \in Task
      /\ batch' \in Seq(Task)
      /\ ToSet(batch') = ToSet(batch) \ {h}
      /\ \A i \in DOMAIN batch' :
            i + 1 \in DOMAIN batch /\ i + 1 # 1 /\ batch'[i] = batch[i + 1]
      /\ \A i, j \in DOMAIN batch' : i # j => batch'[i] # batch'[j]
  BY <1>1, TailFacts
<1>3. status[h] = "triggering"
  BY <1>2 DEF BatchIsClaimed
<1>4. status'[h] = verdict /\ \A t \in Task : t # h => status'[t] = status[t]
  BY <1>2
<1>5. claimed' = claimed \ {h}
  OBVIOUS
<1> HIDE DEF h
<1>6. TypeOK'
  BY <1>2, <1>5 DEF Status, h
<1>7. TriggeringIsHeld'
  BY <1>2, <1>4 DEF TriggeringIsHeld
<1>8. BatchIsClaimed'
  <2>1. ASSUME NEW i \in DOMAIN batch'
        PROVE  /\ status'[batch'[i]] = "triggering" /\ due[batch'[i]] <= now
               /\ runs[batch'[i]] = 0
    <3>1. i + 1 \in DOMAIN batch /\ i + 1 # 1 /\ batch'[i] = batch[i + 1]
      BY <1>2
    <3>2. batch[i + 1] \in Task /\ batch[i + 1] # h
      BY <1>1, <1>2, <3>1, LenProperties
    <3>3. /\ status[batch[i + 1]] = "triggering" /\ due[batch[i + 1]] <= now
          /\ runs[batch[i + 1]] = 0
      BY <3>1 DEF BatchIsClaimed
    <3> QED
      BY <1>4, <3>1, <3>2, <3>3
  <2> QED
    BY <1>1, <1>2, <2>1 DEF BatchIsClaimed
<1>9. SentIsOverdue'
  BY <1>4 DEF SentIsOverdue
<1>10. StoredWasTrue'
  BY <1>1, <1>2, <1>3, <1>4 DEF StoredWasTrue
<1> QED
  BY <1>6, <1>7, <1>8, <1>9, <1>10

\* Time passes: what is overdue stays overdue.
LEMMA ClockTicksKeepsClaimInv ==
    ASSUME ClaimInv, ClockTicks
    PROVE  ClaimInv'
<1> USE DEF ClaimInv, TypeOK, ClockTicks, schedulerVars, agentVars
<1>1. now' = now + 1 /\ now \in Nat /\ \A t \in Task : due[t] \in Nat
  BY HorizonType DEF Time
<1>2. TypeOK'
  BY HorizonType DEF Time
<1>3. TriggeringIsHeld'
  BY DEF TriggeringIsHeld
<1>4. BatchIsClaimed'
  <2>1. \A i \in DOMAIN batch : batch[i] \in Task
    BY LenProperties
  <2> QED
    BY <1>1, <2>1 DEF BatchIsClaimed
<1>5. SentIsOverdue'
  BY <1>1 DEF SentIsOverdue
<1>6. StoredWasTrue'
  BY DEF StoredWasTrue
<1> QED
  BY <1>2, <1>3, <1>4, <1>5, <1>6

\* The file takes over the records in memory, now or when the store closes.
LEMMA WriteKeepsClaimInv ==
    ASSUME ClaimInv, stored' \in {stored, status}, open' \in BOOLEAN,
           UNCHANGED <<now, status, due, claimed, schedulerVars, agentVars, seen>>
    PROVE  ClaimInv'
<1> USE DEF ClaimInv, TypeOK, schedulerVars, agentVars
<1>1. now \in Nat /\ \A t \in Task : due[t] \in Nat
  BY HorizonType DEF Time
<1>2. TypeOK'
  OBVIOUS
<1>3. TriggeringIsHeld'
  BY DEF TriggeringIsHeld
<1>4. BatchIsClaimed'
  BY DEF BatchIsClaimed
<1>5. SentIsOverdue'
  BY <1>1 DEF SentIsOverdue
<1>6. StoredWasTrue'
  BY DEF StoredWasTrue
<1> QED
  BY <1>2, <1>3, <1>4, <1>5, <1>6

\* stop() only disarms the interval.
LEMMA StopKeepsClaimInv ==
    ASSUME ClaimInv, Stop
    PROVE  ClaimInv'
<1> USE DEF ClaimInv, TypeOK, Stop, agentVars
<1>1. TypeOK'
  OBVIOUS
<1>2. TriggeringIsHeld'
  BY DEF TriggeringIsHeld
<1>3. BatchIsClaimed'
  BY DEF BatchIsClaimed
<1>4. SentIsOverdue'
  BY DEF SentIsOverdue
<1>5. StoredWasTrue'
  BY DEF StoredWasTrue
<1> QED
  BY <1>1, <1>2, <1>3, <1>4, <1>5

\* The next process finds the records of the file; what was sent and is still
\* pending there is overdue by now.
LEMMA RestartKeepsClaimInv ==
    ASSUME ClaimInv, Restart
    PROVE  ClaimInv'
<1> USE DEF ClaimInv, TypeOK, Restart
<1>1. now' = now + 1 /\ now \in Nat /\ \A t \in Task : due[t] \in Nat
  BY HorizonType DEF Time
<1>2. \A t \in Task :
         /\ work'[t] \in {"none", "running", "ok", "failed", "late", "lost"}
         /\ work[t] = "ok" => work'[t] = "ok"
         /\ work'[t] = "none" <=> work[t] = "none"
  OBVIOUS
<1>3. batch' = <<>> /\ DOMAIN batch' = {} /\ ToSet(batch') = {}
  BY EmptySeq, LenProperties DEF ToSet
<1>4. TypeOK'
  BY <1>3, EmptySeq, HorizonType DEF Time
<1>5. TriggeringIsHeld'
  BY DEF TriggeringIsHeld
<1>6. BatchIsClaimed'
  BY <1>3 DEF BatchIsClaimed
<1>7. SentIsOverdue'
  BY <1>1 DEF SentIsOverdue
<1>8. StoredWasTrue'
  BY <1>2 DEF StoredWasTrue
<1> QED
  BY <1>4, <1>5, <1>6, <1>7, <1>8

\* Every step keeps the invariant.
LEMMA StepKeepsClaimInv ==
    ClaimInv /\ [Next]_vars => ClaimInv'
<1> SUFFICES ASSUME ClaimInv, [Next]_vars PROVE ClaimInv'
  OBVIOUS
<1>1. ASSUME NEW t \in Task, NEW at \in Time, Create(t, at) PROVE ClaimInv'
  BY <1>1, CreateKeepsClaimInv
<1>2. ASSUME NEW t \in Task, Cancel(t) PROVE ClaimInv'
  BY <1>2, CancelKeepsClaimInv
<1>3. ASSUME NEW t \in Task, WorkEnds(t) PROVE ClaimInv'
  BY <1>3, WorkEndsKeepsClaimInv
<1>4. CASE Start
  BY <1>4, StartKeepsClaimInv
<1>5. CASE Tick
  BY <1>5, TickKeepsClaimInv
<1>6. CASE Claim
  BY <1>6, ClaimKeepsClaimInv
<1>7. CASE Dispatch
  BY <1>7, DispatchKeepsClaimInv
<1>8. CASE Timeout
  BY <1>8, TimeoutKeepsClaimInv
<1>9. CASE Mark
  BY <1>9, MarkKeepsClaimInv
<1>10. CASE ClockTicks
  BY <1>10, ClockTicksKeepsClaimInv
<1>11. CASE Flush
  BY <1>11, WriteKeepsClaimInv DEF Flush, ClaimInv, TypeOK
<1>12. CASE Stop
  BY <1>12, StopKeepsClaimInv
<1>13. CASE CloseStore
  BY <1>13, WriteKeepsClaimInv DEF CloseStore, schedulerVars
<1>14. CASE Restart
  BY <1>14, RestartKeepsClaimInv
<1>16. ASSUME NEW c \in Cli, LaterLoads(c) PROVE ClaimInv'
  BY <1>16, LaterLoadsKeepsClaimInv
<1>17. ASSUME NEW c \in Cli, NEW t \in Task, LaterCancels(c, t) PROVE ClaimInv'
  BY <1>17, LaterCancelsKeepsClaimInv
<1>15. CASE UNCHANGED vars
  BY <1>15, WriteKeepsClaimInv DEF vars, schedulerVars, agentVars, ClaimInv, TypeOK
<1> QED
  BY <1>1, <1>2, <1>3, <1>4, <1>5, <1>6, <1>7, <1>8, <1>9, <1>10, <1>11, <1>12,
     <1>13, <1>14, <1>15, <1>16, <1>17 DEF Next

\* The claim and its record agree in every reachable state.
THEOREM ClaimInvCorrect == Spec => []ClaimInv
<1> QED
  BY InitEstablishesClaimInv, StepKeepsClaimInv, PTL DEF Spec

\* A dispatch sends a task that was not sent before, and nothing else sends.
LEMMA DispatchSends ==
    ASSUME ClaimInv, [Next]_vars, NEW t \in Task
    PROVE  \/ runs'[t] = runs[t]
           \/ status[t] = "triggering" /\ runs[t] = 0 /\ runs'[t] = 1
<1>1. CASE Dispatch
  <2>1. /\ batch # <<>> /\ batch \in Seq(Task) /\ tick = "dispatching"
        /\ \A i, j \in DOMAIN batch : i # j => batch[i] # batch[j]
    BY <1>1 DEF ClaimInv, TypeOK, BatchIsClaimed, Dispatch
  <2>2. 1 \in DOMAIN batch /\ Head(batch) = batch[1] /\ Head(batch) \in Task
    BY <2>1, TailFacts
  <2>3. status[Head(batch)] = "triggering" /\ runs[Head(batch)] = 0
    BY <2>1, <2>2 DEF ClaimInv, BatchIsClaimed
  <2> QED
    BY <1>1, <2>2, <2>3 DEF ClaimInv, TypeOK, Dispatch
<1>2. CASE ~Dispatch
  BY <1>2 DEF Next, vars, Create, Cancel, WorkEnds, Start, Tick, Claim, Timeout,
              Mark, ClockTicks, Flush, Stop, CloseStore, Restart, LaterLoads,
              LaterCancels, agentVars
<1> QED
  BY <1>1, <1>2

\* A scheduled prompt is sent at most once, whatever crashes.
THEOREM SentOnce == Spec => []RunsOnce
<1>1. Init => RunsOnce
  BY DEF Init, RunsOnce
<1>2. ClaimInv /\ RunsOnce /\ [Next]_vars => RunsOnce'
  BY DispatchSends DEF RunsOnce
<1> QED
  BY <1>1, <1>2, ClaimInvCorrect, PTL DEF Spec

\* What is recorded as executed was carried out.
THEOREM ExecutedIsTrue == Spec => []ExecutedRan
<1>1. ClaimInv => ExecutedRan
  BY DEF ClaimInv, StoredWasTrue, ExecutedRan
<1> QED
  BY <1>1, ClaimInvCorrect, PTL

\* Neither a flush nor a command-line process without an older image undoes a
\* cancellation that memory and file agree on, and a restart finds it.
LEMMA CancelledStays ==
    ASSUME ClaimInv, [Next]_vars, NEW t \in Task,
           status[t] = "cancelled", stored[t] = "cancelled", NoOldImage(t)
    PROVE  status'[t] = "cancelled" /\ stored'[t] = "cancelled"
<1> USE DEF ClaimInv, TypeOK
<1>1. ASSUME NEW c \in Cli, NEW u \in Task, LaterCancels(c, u)
      PROVE  stored'[t] = "cancelled"
  <2>1. seen[c][t] = "cancelled"
    BY <1>1 DEF LaterCancels, NoOldImage, Blank
  <2> QED
    BY <1>1, <2>1 DEF LaterCancels
<1>2. CASE Mark
  <2>1. batch # <<>> /\ \A i, j \in DOMAIN batch : i # j => batch[i] # batch[j]
    BY <1>2 DEF Mark, BatchIsClaimed
  <2>2. 1 \in DOMAIN batch /\ Head(batch) = batch[1] /\ Head(batch) \in Task
    BY <2>1, TailFacts
  <2>3. Head(batch) # t
    BY <2>2 DEF BatchIsClaimed
  <2> QED
    BY <1>2, <2>3 DEF Mark
<1>3. CASE Claim
  <2>1. t \notin DueTasks
    BY DEF DueTasks
  <2> QED
    BY <1>3, <2>1 DEF Claim
<1>4. CASE Start
  BY <1>4 DEF Start, Reconciled
<1>5. ASSUME NEW u \in Task, NEW at \in Time, Create(u, at)
      PROVE  status'[t] = "cancelled" /\ stored'[t] = "cancelled"
  BY <1>5 DEF Create, StoredWasTrue
<1>6. ASSUME NEW u \in Task, Cancel(u)
      PROVE  status'[t] = "cancelled" /\ stored'[t] = "cancelled"
  BY <1>6 DEF Cancel
<1>7. CASE Flush \/ CloseStore \/ Restart
  BY <1>7 DEF Flush, CloseStore, Restart
<1>8. ASSUME NEW c \in Cli, NEW u \in Task, LaterCancels(c, u)
      PROVE  status'[t] = "cancelled"
  BY <1>8 DEF LaterCancels
<1> QED
  BY <1>1, <1>2, <1>3, <1>4, <1>5, <1>6, <1>7, <1>8 DEF Next, vars, WorkEnds, Tick,
     Dispatch, Timeout, ClockTicks, Stop, LaterLoads

\* A task cancelled in the daemon is not sent, and once the file agrees and nobody
\* holds an older image of it the cancellation is final.
THEOREM CancellationHolds == Spec => CancelHolds
<1>1. ASSUME ClaimInv, [Next]_vars
      PROVE  [\A t \in Task :
                 status[t] = "cancelled" =>
                     /\ runs'[t] = runs[t]
                     /\ stored[t] = "cancelled" /\ NoOldImage(t) =>
                           status'[t] = "cancelled" /\ stored'[t] = "cancelled"]_vars
  <2>1. ASSUME NEW t \in Task, status[t] = "cancelled" PROVE runs'[t] = runs[t]
    BY <1>1, <2>1, DispatchSends
  <2>2. ASSUME NEW t \in Task, status[t] = "cancelled", stored[t] = "cancelled",
               NoOldImage(t)
        PROVE  status'[t] = "cancelled" /\ stored'[t] = "cancelled"
    BY <1>1, <2>2, CancelledStays
  <2> QED
    BY <2>1, <2>2
<1> QED
  BY <1>1, ClaimInvCorrect, PTL DEF Spec, CancelHolds
=============================================================================
