--------------------------- MODULE TurnLaneProofs ---------------------------
(***************************************************************************)
(* The turn lane implements TurnLane, step by step: its guards, waits and  *)
(* teardowns never let anyone hold, join or leave the lane in an order     *)
(* that the abstract lane does not have.                                   *)
(***************************************************************************)
EXTENDS TurnQueueProofs, FiniteSetTheorems

-----------------------------------------------------------------------------
(* The backlog in its order: what an operation on the queue does to it.    *)

\* The reservation is the first of the backlog, and the queue follows.
LEMMA InOrderFacts ==
    ASSUME TypeOK
    PROVE  /\ InOrder \in Seq(Prompt)
           /\ slot = None => InOrder = queue
           /\ slot # None => /\ Len(InOrder) = Len(queue) + 1
                             /\ InOrder[1] = slot
                             /\ \A i \in 1 .. Len(queue) : InOrder[i + 1] = queue[i]
<1>1. queue \in Seq(Prompt) /\ Len(queue) \in Nat
  BY LenProperties DEF TypeOK
<1>2. CASE slot = None
  BY <1>1, <1>2 DEF InOrder
<1>3. CASE slot # None
  <2>1. slot \in Prompt
    BY <1>3 DEF TypeOK, Prompt
  <2> DEFINE a == <<slot>>
  <2>2. a \in Seq(Prompt) /\ Len(a) = 1 /\ a[1] = slot
    BY <2>1
  <2> HIDE DEF a
  <2>3. /\ a \o queue \in Seq(Prompt)
        /\ Len(a \o queue) = 1 + Len(queue)
        /\ \A i \in 1 .. 1 + Len(queue) :
              (a \o queue)[i] = IF i <= 1 THEN a[i] ELSE queue[i - 1]
    <3>1. /\ a \o queue \in Seq(Prompt)
          /\ Len(a \o queue) = Len(a) + Len(queue)
          /\ \A i \in 1 .. Len(a) + Len(queue) :
                (a \o queue)[i] = IF i <= Len(a) THEN a[i] ELSE queue[i - Len(a)]
      BY ONLY <1>1, <2>2, ConcatProperties
    <3> QED
      BY <2>2, <3>1
  <2>4. \A i \in 1 .. Len(queue) : (a \o queue)[i + 1] = queue[i]
    <3> TAKE i \in 1 .. Len(queue)
    <3>1. i + 1 \in 1 .. 1 + Len(queue) /\ ~(i + 1 <= 1) /\ (i + 1) - 1 = i
      BY <1>1
    <3> QED
      BY <2>3, <3>1
  <2>5. (a \o queue)[1] = slot
    BY <1>1, <2>2, <2>3
  <2>6. InOrder = a \o queue
    BY <1>3 DEF InOrder, a
  <2> QED
    BY <1>1, <1>3, <2>3, <2>4, <2>5, <2>6
<1> QED
  BY <1>2, <1>3

\* Those who wait on the abstract lane are the backlog.
LEMMA WhoWaits ==
    ASSUME TypeOK, NEW p \in Prompt
    PROVE  Lane!Waits(p) <=> p \in Backlog
<1>1. queue \in Seq(Prompt) /\ Len(queue) \in Nat /\ DOMAIN queue = 1 .. Len(queue)
  BY LenProperties DEF TypeOK
<1>2. Lane!Waits(p) <=> \E i \in 1 .. Len(InOrder) : InOrder[i] = p
  BY DEF Lane!Waits, Lane!Contains
<1>3. p \in Backlog <=> (\E i \in 1 .. Len(queue) : queue[i] = p) \/ (slot # None /\ slot = p)
  BY <1>1 DEF Backlog, ToSet
<1>4. CASE slot = None
  BY <1>2, <1>3, <1>4, InOrderFacts
<1>5. CASE slot # None
  <2>1. /\ Len(InOrder) = Len(queue) + 1
        /\ InOrder[1] = slot
        /\ \A i \in 1 .. Len(queue) : InOrder[i + 1] = queue[i]
    BY <1>5, InOrderFacts
  <2>2. ASSUME NEW i \in 1 .. Len(InOrder)
        PROVE  i = 1 \/ (i - 1 \in 1 .. Len(queue) /\ InOrder[i] = queue[i - 1])
    <3>1. i # 1 => i - 1 \in 1 .. Len(queue) /\ (i - 1) + 1 = i
      BY <1>1, <2>1
    <3> QED
      BY <2>1, <3>1
  <2>3. \A i \in 1 .. Len(queue) : i + 1 \in 1 .. Len(InOrder)
    BY <1>1, <2>1
  <2>4. 1 \in 1 .. Len(InOrder)
    BY <1>1, <2>1
  <2> QED
    BY <1>2, <1>3, <1>5, <2>1, <2>2, <2>3, <2>4
<1> QED
  BY <1>4, <1>5

\* The places of the abstract backlog that are not of priority: the queue's.
LEMMA OrdinaryPlaces ==
    ASSUME TypeOK, \A i \in DOMAIN queue : queue[i] \notin Interrupt
    PROVE  Lane!Cardinality(Lane!Ordinary) = Len(queue)
<1>1. queue \in Seq(Prompt) /\ Len(queue) \in Nat /\ DOMAIN queue = 1 .. Len(queue)
  BY LenProperties DEF TypeOK
<1>2. Lane!Ordinary = {i \in DOMAIN InOrder : InOrder[i] \notin Interrupt}
  BY DEF Lane!Ordinary
<1>3. Cardinality(Lane!Ordinary) = Len(queue)
  <2>1. CASE slot = None
    <3>1. Lane!Ordinary = 1 .. Len(queue)
      BY <1>1, <1>2, <2>1, InOrderFacts
    <3>2. Cardinality(1 .. Len(queue)) = IF 1 > Len(queue) THEN 0 ELSE Len(queue) - 1 + 1
      BY ONLY <1>1, FS_Interval
    <3> QED
      BY <1>1, <3>1, <3>2
  <2>2. CASE slot # None
    <3>1. slot \in Interrupt
      BY <2>2 DEF TypeOK
    <3>2. /\ DOMAIN InOrder = 1 .. Len(queue) + 1
          /\ InOrder[1] = slot
          /\ \A i \in 1 .. Len(queue) : InOrder[i + 1] = queue[i]
      BY <1>1, <2>2, InOrderFacts, LenProperties
    <3>3. \A i \in 2 .. Len(queue) + 1 : InOrder[i] \notin Interrupt
      <4> TAKE i \in 2 .. Len(queue) + 1
      <4>1. i - 1 \in 1 .. Len(queue) /\ (i - 1) + 1 = i
        BY <1>1
      <4>2. InOrder[i] = queue[i - 1]
        BY <3>2, <4>1
      <4> QED
        BY <1>1, <4>1, <4>2
    <3>4. \A i \in 1 .. Len(queue) + 1 : i = 1 \/ i \in 2 .. Len(queue) + 1
      BY <1>1
    <3>5. \A i \in 2 .. Len(queue) + 1 : i \in 1 .. Len(queue) + 1 /\ i # 1
      BY <1>1
    <3>6. Lane!Ordinary = 2 .. Len(queue) + 1
      BY <1>2, <3>1, <3>2, <3>3, <3>4, <3>5
    <3>7. /\ 2 \in Int /\ Len(queue) + 1 \in Int
      BY <1>1
    <3>8. Cardinality(2 .. Len(queue) + 1)
            = IF 2 > Len(queue) + 1 THEN 0 ELSE (Len(queue) + 1) - 2 + 1
      BY ONLY <3>7, FS_Interval
    <3> QED
      BY <1>1, <3>6, <3>8
  <2> QED
    BY <2>1, <2>2
<1> QED
  BY <1>3 DEF Lane!Cardinality, Cardinality

\* Joining the queue is joining the end of the backlog.
LEMMA AppendInOrder ==
    ASSUME TypeOK, NEW p \in Prompt, queue' = Append(queue, p), slot' = slot
    PROVE  InOrder' = Append(InOrder, p)
<1>1. CASE slot = None
  BY <1>1 DEF InOrder
<1>2. CASE slot # None
  <2>1. slot \in Prompt /\ queue \in Seq(Prompt)
    BY <1>2 DEF TypeOK, Prompt
  <2> DEFINE a == <<slot>>
  <2>2. a \in Seq(Prompt)
    BY <2>1
  <2> HIDE DEF a
  <2>3. Append(a \o queue, p) = a \o Append(queue, p)
    <3> DEFINE e == <<p>>
    <3>1. e \in Seq(Prompt) /\ Append(queue, p) = queue \o e
      BY <2>1, AppendIsConcat
    <3>2. a \o queue \in Seq(Prompt)
      BY ONLY <2>1, <2>2, ConcatProperties
    <3>3. Append(a \o queue, p) = (a \o queue) \o e
      BY <3>2, AppendIsConcat
    <3> HIDE DEF e
    <3>4. (a \o queue) \o e = a \o (queue \o e)
      BY ONLY <2>1, <2>2, <3>1, ConcatAssociative
    <3> QED
      BY ONLY <3>1, <3>3, <3>4
  <2>4. InOrder = a \o queue /\ InOrder' = a \o Append(queue, p)
    BY <1>2 DEF InOrder, a
  <2> QED
    BY <2>3, <2>4
<1> QED
  BY <1>1, <1>2

\* A backlog without its first place.
LEMMA AfterFirst ==
    ASSUME TypeOK, slot # None
    PROVE  /\ InOrder # <<>> /\ Head(InOrder) = slot /\ Tail(InOrder) = queue
           /\ 1 \in DOMAIN InOrder /\ InOrder[1] = slot /\ RemoveAt(InOrder, 1) = queue
<1>1. /\ queue \in Seq(Prompt) /\ Len(queue) \in Nat
      /\ InOrder \in Seq(Prompt) /\ Len(InOrder) = Len(queue) + 1 /\ InOrder[1] = slot
      /\ \A i \in 1 .. Len(queue) : InOrder[i + 1] = queue[i]
  BY InOrderFacts, LenProperties DEF TypeOK
<1> DEFINE s == InOrder
<1> HIDE DEF s
<1>2. s \in Seq(Prompt) /\ Len(s) = Len(queue) + 1 /\ s[1] = slot
      /\ \A i \in 1 .. Len(queue) : s[i + 1] = queue[i]
  BY <1>1 DEF s
<1>3. s # <<>> /\ DOMAIN s = 1 .. Len(s) /\ 1 \in DOMAIN s
  BY <1>1, <1>2, LenProperties, EmptySeq
<1>4. /\ Head(s) = s[1] /\ Tail(s) \in Seq(Prompt) /\ Len(Tail(s)) = Len(s) - 1
      /\ \A i \in 1 .. Len(Tail(s)) : Tail(s)[i] = s[i + 1]
  BY ONLY <1>2, <1>3, HeadTailProperties
<1>5. Tail(s) = queue
  <2>1. Len(Tail(s)) = Len(queue) /\ \A i \in 1 .. Len(Tail(s)) : Tail(s)[i] = queue[i]
    BY <1>1, <1>2, <1>4
  <2> QED
    BY ONLY <1>1, <1>4, <2>1, SeqEqual
<1>6. RemoveAt(s, 1) = queue
  <2> DEFINE r == RemoveAt(s, 1)
  <2>1. /\ r \in Seq(Prompt) /\ Len(r) = Len(s) - 1
        /\ \A j \in DOMAIN r : r[j] = IF j < 1 THEN s[j] ELSE s[j + 1]
    BY ONLY <1>2, <1>3, RemoveAtFacts
  <2> HIDE DEF r
  <2>2. DOMAIN r = 1 .. Len(queue) /\ Len(r) = Len(queue)
    BY <1>1, <1>2, <2>1, LenProperties
  <2>3. \A j \in 1 .. Len(r) : r[j] = queue[j]
    <3> TAKE j \in 1 .. Len(r)
    <3>1. j \in DOMAIN r /\ j \in 1 .. Len(queue) /\ ~(j < 1)
      BY <1>1, <2>2
    <3>2. r[j] = s[j + 1]
      BY <2>1, <3>1
    <3> QED
      BY <1>2, <3>1, <3>2
  <2>4. r = queue
    BY ONLY <1>1, <2>1, <2>2, <2>3, SeqEqual
  <2> QED
    BY <2>4 DEF r
<1> QED
  BY <1>2, <1>3, <1>4, <1>5, <1>6 DEF s

\* Taking one out of the queue is taking it out of the backlog.
LEMMA RemoveInOrder ==
    ASSUME TypeOK, NEW i \in DOMAIN queue, queue' = RemoveAt(queue, i), slot' = slot
    PROVE  \E k \in DOMAIN InOrder : InOrder[k] = queue[i] /\ InOrder' = RemoveAt(InOrder, k)
<1>1. CASE slot = None
  BY <1>1 DEF InOrder
<1>2. CASE slot # None
  <2> DEFINE s == InOrder
             r == RemoveAt(queue, i)
             t == RemoveAt(s, i + 1)
  <2>1. /\ queue \in Seq(Prompt) /\ Len(queue) \in Nat /\ DOMAIN queue = 1 .. Len(queue)
        /\ i \in 1 .. Len(queue)
    BY LenProperties DEF TypeOK
  <2>2. /\ s \in Seq(Prompt) /\ Len(s) = Len(queue) + 1 /\ s[1] = slot
        /\ \A j \in 1 .. Len(queue) : s[j + 1] = queue[j]
    BY <1>2, InOrderFacts
  <2>3. /\ r \in Seq(Prompt) /\ Len(r) = Len(queue) - 1
        /\ \A j \in DOMAIN r : r[j] = IF j < i THEN queue[j] ELSE queue[j + 1]
    BY ONLY <2>1, RemoveAtFacts, i \in DOMAIN queue
  <2> HIDE DEF s
  <2>4. i + 1 \in DOMAIN s
    BY <2>1, <2>2, LenProperties
  <2>5. /\ t \in Seq(Prompt) /\ Len(t) = Len(s) - 1
        /\ \A j \in DOMAIN t : t[j] = IF j < i + 1 THEN s[j] ELSE s[j + 1]
    BY ONLY <2>2, <2>4, RemoveAtFacts
  <2>6. queue' = r
    OBVIOUS
  <2> HIDE DEF r, t
  <2> DEFINE a == <<slot>>
  <2>7. a \in Seq(Prompt) /\ Len(a) = 1 /\ a[1] = slot
    BY <1>2 DEF TypeOK, Prompt
  <2>8. InOrder' = a \o r
    BY <1>2, <2>6 DEF InOrder
  <2> HIDE DEF a
  <2>9. /\ a \o r \in Seq(Prompt)
         /\ Len(a \o r) = Len(a) + Len(r)
         /\ \A j \in 1 .. Len(a) + Len(r) :
               (a \o r)[j] = IF j <= Len(a) THEN a[j] ELSE r[j - Len(a)]
    <3>1. a \in Seq(Prompt) /\ r \in Seq(Prompt)
      BY <2>3, <2>7
    <3> QED
      BY ONLY <3>1, ConcatProperties
  <2>10. Len(a \o r) = Len(queue) /\ Len(t) = Len(queue)
    BY <2>1, <2>2, <2>3, <2>5, <2>7, <2>9
  <2>11. DOMAIN t = 1 .. Len(queue) /\ DOMAIN r = 1 .. Len(queue) - 1
    BY <2>1, <2>3, <2>5, <2>10, LenProperties
  <2>12. ASSUME NEW j \in 1 .. Len(queue) PROVE (a \o r)[j] = t[j]
    <3>1. (a \o r)[j] = IF j <= 1 THEN a[j] ELSE r[j - 1]
      BY <2>1, <2>3, <2>7, <2>9
    <3>2. t[j] = IF j < i + 1 THEN s[j] ELSE s[j + 1]
      BY <2>5, <2>11
    <3>3. CASE j = 1
      BY <2>1, <2>2, <2>7, <3>1, <3>2, <3>3
    <3>4. CASE j # 1
      <4>1. /\ j - 1 \in 1 .. Len(queue) - 1 /\ j - 1 \in 1 .. Len(queue) /\ (j - 1) + 1 = j
            /\ j \in 1 .. Len(queue) /\ ~(j <= 1) /\ (j - 1 < i <=> j < i + 1)
        BY <2>1, <3>4
      <4>2. r[j - 1] = IF j - 1 < i THEN queue[j - 1] ELSE queue[j]
        BY <2>3, <2>11, <4>1
      <4>3. s[j] = queue[j - 1] /\ s[j + 1] = queue[j]
        BY <2>2, <4>1
      <4> QED
        BY <3>1, <3>2, <4>1, <4>2, <4>3
    <3> QED
      BY <3>3, <3>4
  <2>13. a \o r = t
    BY ONLY <2>5, <2>9, <2>10, <2>12, SeqEqual
  <2>14. s[i + 1] = queue[i]
    BY <2>1, <2>2
  <2> QED
    BY <2>4, <2>8, <2>13, <2>14 DEF s, t
<1> QED
  BY <1>1, <1>2

-----------------------------------------------------------------------------
(* Where a submission stands, seen from the abstract lane.                 *)

PhaseOf(s) ==
    IF s \in {"new", "waiting"} THEN "outside"
    ELSE IF s \in {"queued", "reserved"} THEN "waiting"
    ELSE IF s \in {"running", "detecting"} THEN "holding" ELSE "gone"

\* The phase of a prompt is read off its status.
LEMMA PhaseReads ==
    /\ Phase = [p \in Prompt |-> PhaseOf(status[p])]
    /\ Phase' = [p \in Prompt |-> PhaseOf(status'[p])]
<1>1. \A p \in Prompt : /\ Accepted(p) <=> status[p] \in {"queued", "reserved"}
                        /\ Executing(p) <=> status[p] \in {"running", "detecting"}
                        /\ Accepted(p)' <=> status'[p] \in {"queued", "reserved"}
                        /\ Executing(p)' <=> status'[p] \in {"running", "detecting"}
  BY DEF Accepted, Executing
<1>2. \A p \in Prompt :
        (IF status[p] \in {"new", "waiting"} THEN "outside"
         ELSE IF Accepted(p) THEN "waiting"
         ELSE IF Executing(p) THEN "holding" ELSE "gone") = PhaseOf(status[p])
  BY <1>1 DEF PhaseOf
<1>3. \A p \in Prompt :
        (IF status'[p] \in {"new", "waiting"} THEN "outside"
         ELSE IF Accepted(p)' THEN "waiting"
         ELSE IF Executing(p)' THEN "holding" ELSE "gone") = PhaseOf(status'[p])
  BY <1>1 DEF PhaseOf
<1> QED
  BY <1>2, <1>3 DEF Phase

\* One submission moves.
LEMMA PhaseMoves ==
    ASSUME TypeOK, NEW p \in Prompt, NEW s, status' = [status EXCEPT ![p] = s]
    PROVE  Phase' = [Phase EXCEPT ![p] = PhaseOf(s)]
<1>1. \A q \in Prompt : status'[q] = IF q = p THEN s ELSE status[q]
  BY DEF TypeOK
<1>2. Phase' = [q \in Prompt |-> IF q = p THEN PhaseOf(s) ELSE PhaseOf(status[q])]
  BY <1>1, PhaseReads
<1> QED
  BY <1>2, PhaseReads

\* Nobody moves.
LEMMA PhaseStays ==
    ASSUME \A p \in Prompt : PhaseOf(status'[p]) = PhaseOf(status[p])
    PROVE  Phase' = Phase
BY PhaseReads

-----------------------------------------------------------------------------
(* What the refinement rests on besides IInv: the queue holds no interrupt, *)
(* so that the place of priority is the slot and nothing else.              *)

QueueIsOrdinary == \A p \in Interrupt : status[p] # "queued"

LaneInv == IInv /\ QueueIsOrdinary

\* Interrupts are reserved, started, absorbed or refused, but never queued.
LEMMA QueueIsOrdinaryStep == TypeOK /\ QueueIsOrdinary /\ [Next]_vars => QueueIsOrdinary'
<1> SUFFICES ASSUME TypeOK, QueueIsOrdinary, [Next]_vars,
                    NEW x \in Interrupt
             PROVE  status'[x] # "queued"
  BY DEF QueueIsOrdinary
<1>0. /\ x \in Prompt /\ x \notin Human /\ x \notin Peer /\ status[x] # "queued"
      /\ status \in [Prompt -> Status]
  BY KindsDisjoint DEF QueueIsOrdinary, Prompt, TypeOK
<1> USE <1>0
<1>1. CASE UNCHANGED vars
  BY <1>1 DEF vars
<1>2. ASSUME NEW p \in Prompt, Submission(p) PROVE status'[x] # "queued"
  BY <1>2 DEF Submission, SubmitStarts, SubmitEnqueues, SubmitRejected, SubmitWaits,
              PeerStarts, PeerEnqueues, InterruptReserves, PeerAbsorbed, PeerRejected,
              Start, Answer
<1>3. ASSUME NEW p \in Prompt, TurnStep(p) PROVE status'[x] # "queued"
  BY <1>3 DEF TurnStep, TurnEnds, DetectionEnds, TurnDetects, AdvanceQueue, Answer
<1>4. ASSUME NEW p \in Prompt, SubmitResumes(p) \/ DispatchTimeout(p) \/ CancelQueuedItem(p)
      PROVE  status'[x] # "queued"
  BY <1>4 DEF SubmitResumes, DispatchTimeout, CancelQueuedItem, Start, Answer
<1>5. ASSUME NEW c \in Clear, ClearSession(c) \/ ClearResumes(c) \/ FinishClear(c)
      PROVE  status'[x] # "queued"
  BY <1>5 DEF ClearSession, ClearResumes, FinishClear, DropBacklog
<1>6. CASE CancelTurn
  BY <1>6 DEF CancelTurn
<1>7. CASE \E r \in RequestId : TombstoneExpires(r)
  BY <1>7 DEF TombstoneExpires
<1> QED
  BY <1>1, <1>2, <1>3, <1>4, <1>5, <1>6, <1>7 DEF Next

\* The places of the queue hold no interrupt.
LEMMA QueueHasNoPriority ==
    ASSUME LaneInv
    PROVE  \A i \in DOMAIN queue : queue[i] \notin Interrupt
BY DEF LaneInv, IInv, PlacesConsistent, QueueIsOrdinary

-----------------------------------------------------------------------------
(* The steps of the abstract lane.                                         *)

\* A step that neither the holder, the backlog nor a phase shows.
LEMMA Unseen ==
    ASSUME UNCHANGED <<inFlight, queue, slot>>,
           \A p \in Prompt : PhaseOf(status'[p]) = PhaseOf(status[p])
    PROVE  [Lane!Next]_Lane!vars
<1>1. Phase' = Phase
  BY PhaseStays
<1>2. InOrder' = InOrder
  BY DEF InOrder
<1> QED
  BY <1>1, <1>2 DEF Lane!vars

\* A turn starts on a free lane: nobody with a contract waits there.
LEMMA EnterLane ==
    ASSUME LaneInv, NEW p \in Prompt, status[p] \in {"new", "waiting"},
           inFlight = None, Start(p), UNCHANGED <<queue, slot>>
    PROVE  [Lane!Next]_Lane!vars
<1>1. TypeOK /\ PeerNotStranded
  BY DEF LaneInv, IInv
<1>2. Phase[p] = "outside"
  BY PhaseReads DEF PhaseOf
<1>3. Phase' = [Phase EXCEPT ![p] = "holding"]
  BY <1>1, PhaseMoves DEF Start, PhaseOf
<1>4. Lane!NoContractWaits
  <2>1. \A x \in PeerMessage : x \in Prompt /\ x \notin Backlog
    BY <1>1 DEF PeerNotStranded, PeerMessage, Prompt
  <2> QED
    BY <1>1, <2>1, WhoWaits DEF Lane!NoContractWaits
<1>5. InOrder' = InOrder /\ inFlight' = p
  BY DEF InOrder, Start
<1>6. Lane!Enter(p)
  BY <1>2, <1>3, <1>4, <1>5 DEF Lane!Enter
<1> QED
  BY <1>6 DEF Lane!Next

\* A prompt joins the end of the backlog; one with a contract, behind a holder.
LEMMA JoinLane ==
    ASSUME LaneInv, NEW p \in Prompt, p \notin Interrupt, status[p] = "new",
           p \in PeerMessage => inFlight # None,
           Len(queue) < MaxDepth, queue' = Append(queue, p), Answer(p, "queued"),
           UNCHANGED <<inFlight, slot>>
    PROVE  [Lane!Next]_Lane!vars
<1>1. TypeOK
  BY DEF LaneInv, IInv
<1>2. Phase[p] = "outside"
  BY PhaseReads DEF PhaseOf
<1>3. Phase' = [Phase EXCEPT ![p] = "waiting"]
  BY <1>1, PhaseMoves DEF Answer, PhaseOf
<1>4. InOrder' = Append(InOrder, p)
  BY <1>1, AppendInOrder
<1>5. Lane!Cardinality(Lane!Ordinary) < MaxDepth
  <2>1. Lane!Cardinality(Lane!Ordinary) = Len(queue)
    BY <1>1, QueueHasNoPriority, OrdinaryPlaces
  <2> QED
    BY <2>1
<1>6. Lane!Join(p)
  BY <1>2, <1>3, <1>4, <1>5 DEF Lane!Join
<1> QED
  BY <1>6 DEF Lane!Next

\* An interrupt takes the place of priority behind the holder.
LEMMA ReserveLane ==
    ASSUME LaneInv, NEW p \in Interrupt, status[p] = "new", inFlight # None,
           slot = None, slot' = p, Answer(p, "reserved"), UNCHANGED <<inFlight, queue>>
    PROVE  [Lane!Next]_Lane!vars
<1>1. TypeOK /\ p \in Prompt /\ p # None
  BY NoneIsNone DEF LaneInv, IInv, Prompt
<1>2. Phase[p] = "outside"
  BY <1>1, PhaseReads DEF PhaseOf
<1>3. Phase' = [Phase EXCEPT ![p] = "waiting"]
  BY <1>1, PhaseMoves DEF Answer, PhaseOf
<1>4. InOrder = queue /\ InOrder' = <<p>> \o queue
  BY <1>1 DEF InOrder
<1>5. \A i \in DOMAIN InOrder : InOrder[i] \notin Interrupt
  BY <1>4, QueueHasNoPriority
<1>6. Lane!Reserve(p)
  BY <1>2, <1>3, <1>4, <1>5 DEF Lane!Reserve
<1> QED
  BY <1>1, <1>6 DEF Lane!Next

\* A submission is turned away, whether refused or known already.
LEMMA RefuseLane ==
    ASSUME LaneInv, NEW p \in Prompt, status[p] \in {"new", "waiting"},
           NEW s \in {"rejected", "absorbed"}, Answer(p, s),
           UNCHANGED <<inFlight, queue, slot>>
    PROVE  [Lane!Next]_Lane!vars
<1>1. TypeOK
  BY DEF LaneInv, IInv
<1>2. Phase[p] = "outside"
  BY PhaseReads DEF PhaseOf
<1>3. PhaseOf(s) = "gone"
  BY DEF PhaseOf
<1>4. Phase' = [Phase EXCEPT ![p] = "gone"]
  BY <1>1, <1>3, PhaseMoves DEF Answer
<1>5. InOrder' = InOrder
  BY DEF InOrder
<1>6. Lane!Refuse(p)
  BY <1>2, <1>4, <1>5 DEF Lane!Refuse
<1> QED
  BY <1>6 DEF Lane!Next

\* The holder leaves, and the first of the backlog has the lane in the same
\* step; without one the lane is free.
LEMMA HandOverLane ==
    ASSUME LaneInv, NEW p \in Prompt, Executing(p), AdvanceQueue(p)
    PROVE  [Lane!Next]_Lane!vars
<1> USE NoneIsNone
<1>1. TypeOK /\ inFlight = p /\ p # None
  BY DEF LaneInv, IInv, OneTurn
<1>2. ASSUME NEW q \in Prompt, q # p, status' = [status EXCEPT ![p] = "done", ![q] = "running"]
      PROVE  Phase' = [Phase EXCEPT ![p] = "gone", ![q] = "holding"]
  <2>1. \A x \in Prompt : status'[x] = IF x = q THEN "running"
                                      ELSE IF x = p THEN "done" ELSE status[x]
    BY <1>1, <1>2 DEF TypeOK
  <2>2. PhaseOf("done") = "gone" /\ PhaseOf("running") = "holding"
    BY DEF PhaseOf
  <2>3. Phase' = [x \in Prompt |-> IF x = q THEN "holding" ELSE IF x = p THEN "gone"
                                  ELSE PhaseOf(status[x])]
    BY <2>1, <2>2, PhaseReads
  <2> QED
    BY <1>2, <2>3, PhaseReads
<1>3. CASE slot # None
  <2>1. slot \in Prompt /\ slot # p
    BY <1>1, <1>3 DEF TypeOK, Prompt, LaneInv, IInv, PlacesConsistent, Executing
  <2>2. /\ inFlight' = slot /\ queue' = queue /\ slot' = None
        /\ status' = [status EXCEPT ![p] = "done", ![slot] = "running"]
    BY <1>3 DEF AdvanceQueue
  <2>3. InOrder # <<>> /\ Head(InOrder) = slot /\ Tail(InOrder) = queue
    BY <1>1, <1>3, AfterFirst
  <2>4. InOrder' = queue
    BY <2>2 DEF InOrder
  <2>5. Phase' = [Phase EXCEPT ![inFlight] = "gone", ![Head(InOrder)] = "holding"]
    BY <1>1, <1>2, <2>1, <2>2, <2>3
  <2>6. Lane!HandOver
    BY <1>1, <2>2, <2>3, <2>4, <2>5 DEF Lane!HandOver
  <2> QED
    BY <2>6 DEF Lane!Next
<1>4. CASE slot = None /\ queue # <<>>
  <2>1. Head(queue) \in Prompt /\ Head(queue) # p
    <3>1. queue \in Seq(Prompt)
      BY <1>1 DEF TypeOK
    <3>2. 1 \in DOMAIN queue /\ Head(queue) = queue[1] /\ Head(queue) \in Prompt
      BY <1>4, <3>1, HeadTailFacts
    <3> QED
      BY <3>2 DEF LaneInv, IInv, PlacesConsistent, Executing
  <2>2. /\ inFlight' = Head(queue) /\ queue' = Tail(queue) /\ slot' = None
        /\ status' = [status EXCEPT ![p] = "done", ![Head(queue)] = "running"]
    BY <1>4 DEF AdvanceQueue
  <2>3. InOrder = queue /\ InOrder' = Tail(queue)
    BY <1>4, <2>2 DEF InOrder
  <2>4. Phase' = [Phase EXCEPT ![inFlight] = "gone", ![Head(InOrder)] = "holding"]
    BY <1>1, <1>2, <2>1, <2>2, <2>3
  <2>5. Lane!HandOver
    BY <1>1, <1>4, <2>2, <2>3, <2>4 DEF Lane!HandOver
  <2> QED
    BY <2>5 DEF Lane!Next
<1>5. CASE slot = None /\ queue = <<>>
  <2>1. /\ inFlight' = None /\ queue' = queue /\ slot' = slot
        /\ status' = [status EXCEPT ![p] = "done"]
    BY <1>5 DEF AdvanceQueue
  <2>2. InOrder = <<>> /\ InOrder' = InOrder
    BY <1>5, <2>1 DEF InOrder
  <2>3. Phase' = [Phase EXCEPT ![p] = "gone"]
    <3>1. PhaseOf("done") = "gone"
      BY DEF PhaseOf
    <3>2. Phase' = [Phase EXCEPT ![p] = PhaseOf("done")]
      BY ONLY <1>1, <2>1, PhaseMoves
    <3> QED
      BY <3>1, <3>2
  <2>4. Lane!Release
    BY <1>1, <2>1, <2>2, <2>3 DEF Lane!Release
  <2> QED
    BY <2>4 DEF Lane!Next
<1> QED
  BY <1>3, <1>4, <1>5

\* One that waits is cancelled, wherever it waits.
LEMMA WithdrawLane ==
    ASSUME LaneInv, NEW p \in Prompt, CancelQueuedItem(p)
    PROVE  [Lane!Next]_Lane!vars
<1>1. TypeOK /\ inFlight' = inFlight /\ status' = [status EXCEPT ![p] = "dropped"]
  BY DEF LaneInv, IInv, CancelQueuedItem, Answer
<1>2. \E k \in DOMAIN InOrder : InOrder[k] = p /\ InOrder' = RemoveAt(InOrder, k)
  <2>1. CASE slot = p /\ p # None /\ slot' = None /\ queue' = queue
    <3>1. /\ 1 \in DOMAIN InOrder /\ InOrder[1] = p /\ RemoveAt(InOrder, 1) = queue
      BY <1>1, <2>1, AfterFirst
    <3>2. InOrder' = queue
      BY <2>1 DEF InOrder
    <3> QED
      BY <3>1, <3>2
  <2>2. CASE \E i \in DOMAIN queue :
                queue[i] = p /\ queue' = RemoveAt(queue, i) /\ slot' = slot
    BY <1>1, <2>2, RemoveInOrder
  <2> QED
    BY <2>1, <2>2 DEF CancelQueuedItem
<1>3. PICK k \in DOMAIN InOrder : InOrder[k] = p /\ InOrder' = RemoveAt(InOrder, k)
  BY <1>2
<1>4. Phase' = [Phase EXCEPT ![p] = "gone"]
  <2>1. PhaseOf("dropped") = "gone"
    BY DEF PhaseOf
  <2>2. Phase' = [Phase EXCEPT ![p] = PhaseOf("dropped")]
    BY ONLY <1>1, p \in Prompt, PhaseMoves
  <2> QED
    BY <2>1, <2>2
<1>5. Lane!RemoveAt(InOrder, k) = RemoveAt(InOrder, k)
  BY DEF Lane!RemoveAt, RemoveAt
<1>6. Lane!Withdraw(k)
  BY <1>1, <1>3, <1>4, <1>5 DEF Lane!Withdraw
<1> QED
  BY <1>3, <1>6 DEF Lane!Next

\* A clear drops all that wait, and does not touch who holds the lane.
LEMMA WithdrawAllLane ==
    ASSUME LaneInv, DropBacklog, inFlight' = inFlight
    PROVE  [Lane!Next]_Lane!vars
<1>1. TypeOK /\ PlacesConsistent
  BY DEF LaneInv, IInv
<1>2. /\ slot' = None /\ queue' = <<>> /\ InOrder' = <<>>
      /\ status' = [p \in Prompt |-> IF p \in Backlog THEN "dropped" ELSE status[p]]
  BY DEF DropBacklog, InOrder
<1>3. CASE InOrder = <<>>
  <2>1. slot = None
    BY <1>1, <1>3, AfterFirst
  <2>2. queue = <<>>
    BY <1>3, <2>1 DEF InOrder
  <2>3. Backlog = {}
    BY <2>1, <2>2 DEF Backlog, ToSet
  <2> QED
    BY <1>2, <2>1, <2>2, <2>3, Unseen
<1>4. CASE InOrder # <<>>
  <2>1. Phase' = [p \in Prompt |-> IF Lane!Waits(p) THEN "gone" ELSE Phase[p]]
    <3>1. \A p \in Prompt :
            PhaseOf(status'[p]) = IF p \in Backlog THEN "gone" ELSE PhaseOf(status[p])
      BY <1>2 DEF PhaseOf
    <3>2. \A p \in Prompt :
            PhaseOf(status'[p]) = IF Lane!Waits(p) THEN "gone" ELSE Phase[p]
      BY <1>1, <3>1, WhoWaits, PhaseReads
    <3> QED
      BY <3>2, PhaseReads
  <2>2. Lane!WithdrawAll
    BY <1>2, <1>4, <2>1 DEF Lane!WithdrawAll
  <2> QED
    BY <2>2 DEF Lane!Next
<1> QED
  BY <1>3, <1>4

\* Submissions: who comes in, who waits, who is turned away.
LEMMA SubmissionImplements ==
    ASSUME LaneInv, NEW p \in Prompt, Submission(p) \/ SubmitResumes(p)
    PROVE  [Lane!Next]_Lane!vars
<1> USE NoneIsNone
<1>0. TypeOK /\ HandOffGuarded
  BY DEF LaneInv, IInv
<1>1. CASE SubmitStarts(p)
  BY <1>1, EnterLane DEF SubmitStarts
<1>2. CASE PeerStarts(p)
  BY <1>2, EnterLane DEF PeerStarts, PeerBusy
<1>3. CASE SubmitResumes(p)
  <2>1. PICK i \in DOMAIN waiters : waiters[i].who = p
    BY <1>3 DEF SubmitResumes
  <2>2. status[p] = "waiting"
    BY <2>1 DEF LaneInv, IInv, WaitersConsistent
  <2>3. UNCHANGED <<queue, slot>>
    BY <1>3 DEF SubmitResumes
  <2>4. CASE inFlight # None
    <3>1. Answer(p, "rejected") /\ inFlight' = inFlight
      BY <1>3, <2>4 DEF SubmitResumes
    <3> QED
      BY <2>2, <2>3, <3>1, RefuseLane
  <2>5. CASE inFlight = None
    <3>1. Start(p)
      BY <1>3, <2>5 DEF SubmitResumes
    <3> QED
      BY <2>2, <2>3, <2>5, <3>1, EnterLane
  <2> QED
    BY <2>4, <2>5
<1>4. CASE SubmitEnqueues(p)
  <2>1. p \notin Interrupt /\ p \notin PeerMessage
    BY <1>4, KindsDisjoint DEF SubmitEnqueues, PeerMessage
  <2> QED
    BY <1>4, <2>1, JoinLane DEF SubmitEnqueues
<1>5. CASE PeerEnqueues(p)
  <2>1. p \notin Interrupt
    BY <1>5, KindsDisjoint DEF PeerEnqueues
  <2>2. inFlight # None
    BY <1>0, <1>5 DEF PeerEnqueues, PeerBusy, HandOffGuarded
  <2> QED
    BY <1>5, <2>1, <2>2, JoinLane DEF PeerEnqueues
<1>6. CASE InterruptReserves(p)
  <2>1. inFlight # None
    BY <1>0, <1>6 DEF InterruptReserves, PeerBusy, HandOffGuarded
  <2> QED
    BY <1>6, <2>1, ReserveLane DEF InterruptReserves
<1>7. CASE SubmitRejected(p)
  BY <1>7, RefuseLane DEF SubmitRejected, laneVars
<1>8. CASE PeerAbsorbed(p)
  BY <1>8, RefuseLane DEF PeerAbsorbed, laneVars
<1>9. CASE PeerRejected(p)
  BY <1>9, RefuseLane DEF PeerRejected, laneVars
<1>10. CASE SubmitWaits(p)
  <2>1. UNCHANGED <<inFlight, queue, slot>> /\ status[p] = "new"
        /\ status' = [status EXCEPT ![p] = "waiting"]
    BY <1>10 DEF SubmitWaits, Answer, laneVars
  <2>2. \A q \in Prompt : PhaseOf(status'[q]) = PhaseOf(status[q])
    BY <1>0, <2>1 DEF PhaseOf, TypeOK
  <2> QED
    BY <2>1, <2>2, Unseen
<1> QED
  BY <1>1, <1>2, <1>3, <1>4, <1>5, <1>6, <1>7, <1>8, <1>9, <1>10 DEF Submission

\* The steps of the turn that holds the lane.
LEMMA TurnImplements ==
    ASSUME LaneInv, NEW p \in Prompt, TurnStep(p)
    PROVE  [Lane!Next]_Lane!vars
<1>1. CASE TurnEnds(p) \/ DetectionEnds(p)
  BY <1>1, HandOverLane DEF TurnEnds, DetectionEnds, Executing
<1>2. CASE TurnDetects(p)
  <2>1. UNCHANGED <<inFlight, queue, slot>> /\ status[p] = "running"
        /\ status' = [status EXCEPT ![p] = "detecting"]
    BY <1>2 DEF TurnDetects, Answer
  <2>2. \A q \in Prompt : PhaseOf(status'[q]) = PhaseOf(status[q])
    BY <2>1 DEF PhaseOf, LaneInv, IInv, TypeOK
  <2> QED
    BY <2>1, <2>2, Unseen
<1> QED
  BY <1>1, <1>2 DEF TurnStep

\* Cancels, timeouts and the ageing of tombstones.
LEMMA RestImplements ==
    ASSUME LaneInv,
           \/ \E p \in Prompt : DispatchTimeout(p) \/ CancelQueuedItem(p)
           \/ CancelTurn
           \/ \E r \in RequestId : TombstoneExpires(r)
           \/ UNCHANGED vars
    PROVE  [Lane!Next]_Lane!vars
<1>1. CASE \E p \in Prompt : CancelQueuedItem(p)
  BY <1>1, WithdrawLane
<1>2. ASSUME \/ \E p \in Prompt : DispatchTimeout(p)
             \/ CancelTurn
             \/ \E r \in RequestId : TombstoneExpires(r)
             \/ UNCHANGED vars
      PROVE  [Lane!Next]_Lane!vars
  <2>1. UNCHANGED <<status, inFlight, queue, slot>>
    BY <1>2 DEF DispatchTimeout, CancelTurn, TombstoneExpires, vars
  <2> QED
    BY <2>1, Unseen
<1> QED
  BY <1>1, <1>2

\* Teardowns: the guard is the lane's own, only what is dropped is seen.
LEMMA ClearImplements ==
    ASSUME LaneInv, NEW c \in Clear, ClearSession(c) \/ ClearResumes(c) \/ FinishClear(c)
    PROVE  [Lane!Next]_Lane!vars
<1>1. CASE ClearSession(c) \/ ClearResumes(c)
  BY <1>1, WithdrawAllLane DEF ClearSession, ClearResumes
<1>2. CASE FinishClear(c)
  <2>1. UNCHANGED <<status, inFlight, queue, slot>>
    BY <1>2 DEF FinishClear, laneVars
  <2> QED
    BY <2>1, Unseen
<1> QED
  BY <1>1, <1>2

\* Every behaviour of the lane is one of the abstract lane: one holder at a
\* time, first in, first out behind the place of priority, and no gap between
\* two turns, for any number of prompts, request ids and clears.
THEOREM LaneKeepsPromise == Spec => LaneSpec
<1>1. Init => Lane!Init
  <2> SUFFICES ASSUME Init PROVE Lane!Init
    OBVIOUS
  <2>1. InOrder = <<>> /\ inFlight = None
    BY DEF Init, InOrder
  <2>2. Phase = [p \in Prompt |-> "outside"]
    BY PhaseReads DEF Init, PhaseOf
  <2> QED
    BY <2>1, <2>2 DEF Lane!Init
<1>2. Init => LaneInv
  BY InvInit DEF LaneInv, QueueIsOrdinary, Init, Prompt
<1>3. LaneInv /\ [Next]_vars => LaneInv'
  BY TypeStep, GoodStep, QueueIsOrdinaryStep DEF LaneInv, IInv, Good
<1>4. LaneInv /\ [Next]_vars => [Lane!Next]_Lane!vars
  BY SubmissionImplements, TurnImplements, RestImplements, ClearImplements DEF Next
<1> QED
  BY <1>1, <1>2, <1>3, <1>4, PTL DEF Spec, LaneSpec, Lane!Spec
=============================================================================
