-------------------------- MODULE TurnQueueProofs --------------------------
(***************************************************************************)
(* Safety of the turn lane for any number of prompts, request ids and      *)
(* clears, any depth of the queue, and tombstones that may expire.         *)
(***************************************************************************)
EXTENDS TurnQueue, SequenceTheorems, TLAPS

\* What RemoveAt of the community modules returns.
LEMMA RemoveAtFacts ==
    ASSUME NEW S, NEW s \in Seq(S), NEW i \in DOMAIN s
    PROVE  /\ RemoveAt(s, i) \in Seq(S)
           /\ Len(RemoveAt(s, i)) = Len(s) - 1
           /\ \A j \in DOMAIN RemoveAt(s, i) :
                /\ j \in DOMAIN s /\ j + 1 \in DOMAIN s
                /\ RemoveAt(s, i)[j] = IF j < i THEN s[j] ELSE s[j + 1]
<1>0. Len(s) \in Nat /\ DOMAIN s = 1 .. Len(s) /\ i \in 1 .. Len(s)
      /\ \A j \in 1 .. Len(s) : s[j] \in S
  BY LenProperties, ElementOfSeq
<1> DEFINE a == SubSeq(s, 1, i - 1)
           b == SubSeq(s, i + 1, Len(s))
<1>1. a \in Seq(S) /\ Len(a) = i - 1 /\ \A j \in 1 .. i - 1 : a[j] = s[j]
  BY <1>0, SubSeqProperties
<1>2. b \in Seq(S) /\ Len(b) = Len(s) - i /\ \A j \in 1 .. Len(s) - i : b[j] = s[i + j]
  BY <1>0, SubSeqProperties
<1> HIDE DEF a, b
<1>3. /\ a \o b \in Seq(S)
      /\ Len(a \o b) = Len(a) + Len(b)
      /\ \A j \in 1 .. Len(a) + Len(b) :
           (a \o b)[j] = IF j <= Len(a) THEN a[j] ELSE b[j - Len(a)]
  BY <1>1, <1>2, <1>0, ConcatProperties
<1>4. RemoveAt(s, i) = a \o b
  BY DEF RemoveAt, a, b
<1>5. Len(a) + Len(b) = Len(s) - 1
  BY <1>0, <1>1, <1>2
<1>6. ASSUME NEW j \in 1 .. Len(s) - 1
      PROVE  (a \o b)[j] = IF j < i THEN s[j] ELSE s[j + 1]
  <2>1. CASE j < i
    BY <1>0, <1>1, <1>3, <1>5, <2>1
  <2>2. CASE ~(j < i)
    <3> DEFINE k == j - Len(a)
    <3>1. k \in 1 .. Len(s) - i /\ i + k = j + 1 /\ ~(j <= Len(a))
      BY <1>0, <1>1, <2>2
    <3>2. (a \o b)[j] = b[k]
      BY <1>3, <1>5, <3>1
    <3>3. b[k] = s[i + k]
      BY <1>2, <3>1
    <3> QED
      BY <2>2, <3>1, <3>2, <3>3
  <2> QED
    BY <2>1, <2>2
<1>7. DOMAIN (a \o b) = 1 .. Len(s) - 1
  BY <1>3, <1>5, LenProperties
<1>8. \A j \in 1 .. Len(s) - 1 : j \in 1 .. Len(s) /\ j + 1 \in 1 .. Len(s)
  BY <1>0
<1>9. /\ a \o b \in Seq(S)
      /\ Len(a \o b) = Len(s) - 1
      /\ \A j \in DOMAIN (a \o b) :
            /\ j \in DOMAIN s /\ j + 1 \in DOMAIN s
            /\ (a \o b)[j] = IF j < i THEN s[j] ELSE s[j + 1]
  BY <1>0, <1>3, <1>5, <1>6, <1>7, <1>8
<1> QED
  BY <1>4, <1>9

\* What remains after RemoveAt is what was there, but for the element removed.
LEMMA RemoveAtKeeps ==
    ASSUME NEW S, NEW s \in Seq(S), NEW i \in DOMAIN s, NEW k \in DOMAIN s, k # i
    PROVE  \E j \in DOMAIN RemoveAt(s, i) : RemoveAt(s, i)[j] = s[k]
<1>1. /\ RemoveAt(s, i) \in Seq(S)
      /\ Len(RemoveAt(s, i)) = Len(s) - 1
      /\ \A j \in DOMAIN RemoveAt(s, i) :
            RemoveAt(s, i)[j] = IF j < i THEN s[j] ELSE s[j + 1]
  BY RemoveAtFacts
<1>2. /\ DOMAIN RemoveAt(s, i) = 1 .. Len(s) - 1
      /\ DOMAIN s = 1 .. Len(s) /\ Len(s) \in Nat
  BY <1>1, LenProperties
<1>3. CASE k < i
  BY <1>1, <1>2, <1>3
<1>4. CASE k > i
  <2>1. k - 1 \in DOMAIN RemoveAt(s, i) /\ ~(k - 1 < i) /\ (k - 1) + 1 = k
    BY <1>2, <1>4
  <2> QED
    BY <1>1, <2>1
<1> QED
  BY <1>2, <1>3, <1>4

\* What joining the end of the queue does to it.
LEMMA AppendFacts ==
    ASSUME NEW S, NEW s \in Seq(S), NEW e \in S
    PROVE  /\ DOMAIN Append(s, e) = DOMAIN s \cup {Len(s) + 1}
           /\ Len(s) + 1 \notin DOMAIN s
           /\ \A i \in DOMAIN s : Append(s, e)[i] = s[i]
           /\ Append(s, e)[Len(s) + 1] = e
BY AppendProperties, LenProperties

\* What taking the head of the queue leaves.
LEMMA HeadTailFacts ==
    ASSUME NEW S, NEW s \in Seq(S), s # <<>>
    PROVE  /\ 1 \in DOMAIN s /\ Head(s) = s[1] /\ Head(s) \in S
           /\ \A i \in DOMAIN Tail(s) :
                i + 1 \in DOMAIN s /\ i + 1 # 1 /\ Tail(s)[i] = s[i + 1]
           /\ \A i \in DOMAIN s :
                i # 1 => i - 1 \in DOMAIN Tail(s) /\ Tail(s)[i - 1] = s[i]
BY HeadTailProperties, LenProperties, EmptySeq

-----------------------------------------------------------------------------
(* Type correctness.                                                       *)

\* The lane starts well typed: idle, with nothing waiting.
LEMMA TypeInit == Init => TypeOK
<1> SUFFICES ASSUME Init PROVE TypeOK
  OBVIOUS
<1>1. /\ status \in [Prompt -> Status]
      /\ clear \in [Clear -> ClearStatus]
      /\ guardBefore \in [Clear -> BOOLEAN]
      /\ notices \in [Prompt -> Nat]
  BY DEF Init, Status, ClearStatus
<1>2. queue \in Seq(Prompt) /\ Len(queue) <= MaxDepth
  BY MaxDepthType, EmptySeq DEF Init
<1>3. waiters \in Seq([who : Prompt \cup Clear, on : Prompt])
  BY EmptySeq DEF Init
<1> QED
  BY <1>1, <1>2, <1>3 DEF Init, TypeOK

\* The backlog is a sequence of prompts: the slot's before the queue's.
LEMMA BacklogType ==
    ASSUME TypeOK
    PROVE  Backlog \subseteq Prompt
BY DEF TypeOK, Backlog, ToSet, Prompt

\* Every operation of the lane keeps the types and the bound of the queue.
LEMMA TypeStep == TypeOK /\ [Next]_vars => TypeOK'
<1> SUFFICES ASSUME TypeOK, [Next]_vars PROVE TypeOK'
  OBVIOUS
<1> USE DEF TypeOK, Status, ClearStatus
<1>1. ASSUME NEW p \in Prompt, SubmitStarts(p) PROVE TypeOK'
  BY <1>1 DEF SubmitStarts, Start, clearVars
<1>2. ASSUME NEW p \in Prompt, SubmitEnqueues(p) PROVE TypeOK'
  BY <1>2, AppendProperties, MaxDepthType DEF SubmitEnqueues, Answer, clearVars
<1>3. ASSUME NEW p \in Prompt, SubmitRejected(p) PROVE TypeOK'
  BY <1>3 DEF SubmitRejected, Answer, clearVars, laneVars
<1>4. ASSUME NEW p \in Prompt, SubmitWaits(p) PROVE TypeOK'
  BY <1>4, AppendProperties DEF SubmitWaits, Answer, clearVars, laneVars
<1>5. ASSUME NEW p \in Prompt, PeerStarts(p) PROVE TypeOK'
  BY <1>5, ReqOfType DEF PeerStarts, Start, Recorded, clearVars
<1>6. ASSUME NEW p \in Prompt, PeerEnqueues(p) PROVE TypeOK'
  <2>1. queue' \in Seq(Prompt) /\ Len(queue') <= MaxDepth
    BY <1>6, AppendProperties, MaxDepthType DEF PeerEnqueues
  <2>2. tombstones' \subseteq RequestId
    BY <1>6, ReqOfType DEF PeerEnqueues, Recorded
  <2> QED
    BY <1>6, <2>1, <2>2 DEF PeerEnqueues, Answer, clearVars
<1>7. ASSUME NEW p \in Prompt, InterruptReserves(p) PROVE TypeOK'
  BY <1>7, ReqOfType DEF InterruptReserves, Answer, Recorded, clearVars
<1>8. ASSUME NEW p \in Prompt, PeerAbsorbed(p) PROVE TypeOK'
  BY <1>8 DEF PeerAbsorbed, Answer, clearVars, laneVars
<1>9. ASSUME NEW p \in Prompt, PeerRejected(p) PROVE TypeOK'
  BY <1>9 DEF PeerRejected, Answer, clearVars, laneVars
<1>10. ASSUME NEW p \in Prompt, SubmitResumes(p) PROVE TypeOK'
  <2>1. PICK i \in DOMAIN waiters : waiters' = RemoveAt(waiters, i)
    BY <1>10 DEF SubmitResumes
  <2>2. waiters' \in Seq([who : Prompt \cup Clear, on : Prompt])
    BY <2>1, RemoveAtFacts
  <2> QED
    BY <1>10, <2>2 DEF SubmitResumes, Start, Answer, clearVars
<1>11. ASSUME NEW p \in Prompt, TurnEnds(p) \/ DetectionEnds(p) PROVE TypeOK'
  <2>1. AdvanceQueue(p) /\ UNCHANGED <<aborted, waiters, clearVars, notices>>
    BY <1>11 DEF TurnEnds, DetectionEnds
  <2>2. tombstones' \subseteq RequestId
    BY <2>1, ReqOfType DEF AdvanceQueue, Recorded
  <2>3. CASE slot # None
    <3>1. slot \in Prompt
      BY <2>3 DEF Prompt
    <3> QED
      BY <2>1, <2>2, <2>3, <3>1 DEF AdvanceQueue, clearVars
  <2>4. CASE slot = None /\ queue # <<>>
    <3>1. /\ Head(queue) \in Prompt
          /\ Tail(queue) \in Seq(Prompt)
          /\ Len(Tail(queue)) <= MaxDepth
      BY <2>4, HeadTailProperties, LenProperties, MaxDepthType
    <3> QED
      BY <2>1, <2>2, <2>4, <3>1 DEF AdvanceQueue, clearVars
  <2>5. CASE slot = None /\ queue = <<>>
    BY <2>1, <2>2, <2>5 DEF AdvanceQueue, clearVars
  <2> QED
    BY <2>3, <2>4, <2>5
<1>12. ASSUME NEW p \in Prompt, TurnDetects(p) PROVE TypeOK'
  BY <1>12 DEF TurnDetects, Answer, clearVars
<1>13. CASE CancelTurn
  BY <1>13 DEF CancelTurn, clearVars
<1>14. ASSUME NEW p \in Prompt, DispatchTimeout(p) PROVE TypeOK'
  BY <1>14 DEF DispatchTimeout, clearVars
<1>15. ASSUME NEW p \in Prompt, CancelQueuedItem(p) PROVE TypeOK'
  <2>1. queue' \in Seq(Prompt) /\ Len(queue') <= MaxDepth
    <3>1. ASSUME NEW i \in DOMAIN queue
          PROVE  /\ RemoveAt(queue, i) \in Seq(Prompt)
                 /\ Len(RemoveAt(queue, i)) <= MaxDepth
      BY RemoveAtFacts, LenProperties, MaxDepthType
    <3> QED
      BY <1>15, <3>1 DEF CancelQueuedItem
  <2> QED
    BY <1>15, <2>1 DEF CancelQueuedItem, Answer, Notify, clearVars
<1>16. ASSUME NEW r \in RequestId, TombstoneExpires(r) PROVE TypeOK'
  BY <1>16 DEF TombstoneExpires, clearVars
<1>17. ASSUME NEW c \in Clear, ClearSession(c) PROVE TypeOK'
  <2>1. queue' \in Seq(Prompt) /\ Len(queue') <= MaxDepth
    BY <1>17, EmptySeq, MaxDepthType DEF ClearSession, DropBacklog
  <2>2. waiters' \in Seq([who : Prompt \cup Clear, on : Prompt])
    <3>1. CASE inFlight # None
      <4>1. [who |-> c, on |-> inFlight] \in [who : Prompt \cup Clear, on : Prompt]
        BY <3>1
      <4>2. waiters' = Append(waiters, [who |-> c, on |-> inFlight])
        BY <1>17, <3>1 DEF ClearSession
      <4> QED
        BY <4>1, <4>2, AppendProperties
    <3>2. CASE inFlight = None
      BY <1>17, <3>2 DEF ClearSession
    <3> QED
      BY <3>1, <3>2
  <2>3. status' \in [Prompt -> Status] /\ notices' \in [Prompt -> Nat]
    BY <1>17 DEF ClearSession, DropBacklog, Notify
  <2> QED
    BY <1>17, <2>1, <2>2, <2>3 DEF ClearSession, DropBacklog
<1>18. ASSUME NEW c \in Clear, ClearResumes(c) PROVE TypeOK'
  <2>1. PICK i \in DOMAIN waiters : waiters' = RemoveAt(waiters, i)
    BY <1>18 DEF ClearResumes
  <2>2. waiters' \in Seq([who : Prompt \cup Clear, on : Prompt])
    BY <2>1, RemoveAtFacts
  <2>3. queue' \in Seq(Prompt) /\ Len(queue') <= MaxDepth
    BY <1>18, EmptySeq, MaxDepthType DEF ClearResumes, DropBacklog
  <2>4. status' \in [Prompt -> Status] /\ notices' \in [Prompt -> Nat]
    BY <1>18 DEF ClearResumes, DropBacklog, Notify
  <2> QED
    BY <1>18, <2>2, <2>3, <2>4 DEF ClearResumes, DropBacklog
<1>19. ASSUME NEW c \in Clear, FinishClear(c) PROVE TypeOK'
  BY <1>19 DEF FinishClear, laneVars
<1>20. CASE UNCHANGED vars
  BY <1>20 DEF vars
<1> QED
  BY <1>1, <1>2, <1>3, <1>4, <1>5, <1>6, <1>7, <1>8, <1>9, <1>10, <1>11, <1>12,
     <1>13, <1>14, <1>15, <1>16, <1>17, <1>18, <1>19, <1>20
     DEF Next, Submission, TurnStep

\* Every variable of the lane keeps its type, and the queue its bound.
THEOREM TypeCorrect == Spec => []TypeOK
BY TypeInit, TypeStep, PTL DEF Spec

-----------------------------------------------------------------------------
(* The inductive invariant.                                                *)

\* The idle lane satisfies the inductive invariant.
LEMMA InvInit == Init => IInv
<1> SUFFICES ASSUME Init PROVE IInv
  OBVIOUS
<1>1. TypeOK
  BY TypeInit
<1>2. queue = <<>> /\ DOMAIN queue = {} /\ waiters = <<>> /\ DOMAIN waiters = {}
  BY DEF Init
<1>3. OneTurn /\ HandOffGuarded /\ ReservationCancels /\ NoticesConsistent
  BY NoneIsNone DEF Init, OneTurn, HandOffGuarded, ReservationCancels,
                    NoticesConsistent, Executing
<1>4. PeerNotStranded /\ PlacesConsistent /\ WaitersConsistent
  BY <1>2 DEF Init, PeerNotStranded, PlacesConsistent, WaitersConsistent,
              Backlog, ToSet, IsInjective
<1> QED
  BY <1>1, <1>3, <1>4 DEF IInv

\* The invariant but for the types, which TypeStep preserves.
Good ==
    /\ OneTurn
    /\ HandOffGuarded
    /\ ReservationCancels
    /\ PeerNotStranded
    /\ PlacesConsistent
    /\ WaitersConsistent
    /\ NoticesConsistent

\* A turn is handed over to the slot or the head, or the lane is released.
LEMMA AdvanceQueueGood ==
    ASSUME TypeOK, Good, NEW p \in Prompt, Executing(p), AdvanceQueue(p),
           UNCHANGED <<aborted, waiters, clearVars, notices>>
    PROVE  Good'
<1> USE NoneIsNone DEF TypeOK, Good
<1>1. inFlight = p /\ p # None
  BY DEF OneTurn
<1>2. PICK q \in Prompt \cup {None} :
          /\ inFlight' = q
          /\ q # None => status[q] \in {"queued", "reserved"}
          /\ status' = [x \in Prompt |-> IF x = p THEN "done"
                                        ELSE IF x = q THEN "running" ELSE status[x]]
          /\ slot' = None
          /\ \/ slot # None /\ q = slot /\ queue' = queue
             \/ slot = None /\ queue # <<>> /\ q = Head(queue) /\ queue' = Tail(queue)
             \/ slot = None /\ queue = <<>> /\ q = None /\ queue' = queue
  <2>1. CASE slot # None
    <3>1. /\ slot \in Prompt /\ status[slot] = "reserved" /\ slot # p
      BY <2>1 DEF Prompt, PlacesConsistent, Executing
    <3> QED
      BY <2>1, <3>1 DEF AdvanceQueue
  <2>2. CASE slot = None /\ queue # <<>>
    <3>1. /\ Head(queue) \in Prompt /\ status[Head(queue)] = "queued"
          /\ Head(queue) # p /\ Head(queue) # None
      BY <2>2, HeadTailFacts DEF PlacesConsistent, Executing
    <3> QED
      BY <2>2, <3>1 DEF AdvanceQueue
  <2>3. CASE slot = None /\ queue = <<>>
    BY <2>3 DEF AdvanceQueue
  <2> QED
    BY <2>1, <2>2, <2>3
<1>3. /\ draining' = FALSE
      /\ waiters' = waiters /\ notices' = notices
  BY DEF AdvanceQueue
<1>4. OneTurn'
  BY <1>1, <1>2 DEF OneTurn, Executing
<1>5. HandOffGuarded' /\ ReservationCancels'
  BY <1>2, <1>3 DEF HandOffGuarded, ReservationCancels
<1>6. PlacesConsistent'
  <2>1. CASE queue' = queue
    BY <1>2, <2>1, HeadTailFacts DEF PlacesConsistent, Executing
  <2>2. CASE slot = None /\ queue # <<>> /\ inFlight' = Head(queue) /\ queue' = Tail(queue)
    <3>1. \A i \in DOMAIN queue' : /\ i + 1 \in DOMAIN queue
                                   /\ queue'[i] = queue[i + 1]
                                   /\ queue'[i] # Head(queue)
      BY <2>2, HeadTailFacts, LenProperties DEF PlacesConsistent, IsInjective
    <3>2. \A i \in DOMAIN queue' : status'[queue'[i]] = "queued"
      BY <1>2, <2>2, <3>1, ElementOfSeq, LenProperties DEF PlacesConsistent, Executing
    <3>3. \A x \in Prompt : status'[x] = "queued" =>
                               \E i \in DOMAIN queue' : queue'[i] = x
      <4> SUFFICES ASSUME NEW x \in Prompt, status'[x] = "queued"
                   PROVE  \E i \in DOMAIN queue' : queue'[i] = x
        OBVIOUS
      <4>1. status[x] = "queued" /\ x # Head(queue)
        BY <1>2, <2>2
      <4>2. PICK k \in DOMAIN queue : queue[k] = x
        BY <4>1 DEF PlacesConsistent
      <4>3. k # 1
        BY <2>2, <4>1, <4>2, HeadTailFacts
      <4> QED
        BY <2>2, <4>2, <4>3, HeadTailFacts
    <3>4. IsInjective(queue')
      <4> SUFFICES ASSUME NEW i \in DOMAIN queue', NEW j \in DOMAIN queue',
                          queue'[i] = queue'[j]
                   PROVE  i = j
        BY DEF IsInjective
      <4>1. queue[i + 1] = queue[j + 1] /\ i \in Int /\ j \in Int
        BY <2>2, <3>1, HeadTailProperties, LenProperties
      <4> QED
        BY <3>1, <4>1 DEF PlacesConsistent, IsInjective
    <3> QED
      BY <1>2, <2>2, <3>2, <3>3, <3>4 DEF PlacesConsistent
  <2> QED
    BY <1>2, <2>1, <2>2
<1>7. PeerNotStranded'
  <2>1. CASE inFlight' = None
    <3>1. queue' = <<>> /\ slot' = None
      BY <1>2, <2>1
    <3> QED
      BY <3>1 DEF PeerNotStranded, Backlog, ToSet
  <2> QED
    BY <2>1 DEF PeerNotStranded
<1>8. WaitersConsistent'
  BY <1>2, <1>3, ElementOfSeq, LenProperties DEF WaitersConsistent, Executing
<1>9. NoticesConsistent'
  BY <1>2, <1>3 DEF NoticesConsistent, Executing
<1> QED
  BY <1>4, <1>5, <1>6, <1>7, <1>8, <1>9 DEF Good

\* A new prompt joins the end of the queue.
LEMMA EnqueueGood ==
    ASSUME TypeOK, PlacesConsistent, NEW p \in Prompt,
           status[p] = "new", queue' = Append(queue, p), slot' = slot,
           status' = [status EXCEPT ![p] = "queued"]
    PROVE  PlacesConsistent'
<1> USE DEF TypeOK
<1>1. /\ DOMAIN queue' = DOMAIN queue \cup {Len(queue) + 1}
      /\ \A i \in DOMAIN queue : queue'[i] = queue[i] /\ queue[i] # p
      /\ queue'[Len(queue) + 1] = p
  BY AppendFacts DEF PlacesConsistent
<1>2. \A i \in DOMAIN queue' : status'[queue'[i]] = "queued"
  BY <1>1, ElementOfSeq, LenProperties DEF PlacesConsistent
<1>3. \A x \in Prompt : status'[x] = "queued" => \E i \in DOMAIN queue' : queue'[i] = x
  BY <1>1 DEF PlacesConsistent
<1>4. IsInjective(queue')
  BY <1>1 DEF PlacesConsistent, IsInjective
<1>5. /\ slot' # None => status'[slot'] = "reserved"
      /\ \A x \in Prompt : status'[x] = "reserved" => slot' = x
  BY DEF PlacesConsistent, Prompt
<1> QED
  BY <1>2, <1>3, <1>4, <1>5 DEF PlacesConsistent

\* The whole backlog is dropped; what runs on the lane is not touched.
LEMMA DropBacklogGood ==
    ASSUME TypeOK, Good, DropBacklog, UNCHANGED <<inFlight, draining>>
    PROVE  /\ OneTurn' /\ HandOffGuarded' /\ ReservationCancels'
           /\ PeerNotStranded' /\ PlacesConsistent' /\ NoticesConsistent'
           /\ \A x \in Prompt : status[x] = "waiting" => status'[x] = "waiting"
<1> USE NoneIsNone DEF TypeOK, Good
<1>1. \A x \in Prompt : x \in Backlog <=> status[x] \in {"queued", "reserved"}
  BY DEF PlacesConsistent, Backlog, ToSet
<1>2. \A x \in Prompt :
         status'[x] = IF status[x] \in {"queued", "reserved"} THEN "dropped" ELSE status[x]
  BY <1>1 DEF DropBacklog
<1>3. queue' = <<>> /\ DOMAIN queue' = {} /\ slot' = None
  BY DEF DropBacklog
<1>4. OneTurn' /\ HandOffGuarded' /\ ReservationCancels'
  BY <1>2, <1>3 DEF OneTurn, HandOffGuarded, ReservationCancels, Executing
<1>5. PlacesConsistent'
  BY <1>2, <1>3 DEF PlacesConsistent, IsInjective
<1>6. PeerNotStranded'
  <2>1. Backlog' = {}
    BY <1>3 DEF Backlog, ToSet
  <2> QED
    BY <2>1 DEF PeerNotStranded
<1>7. NoticesConsistent'
  <2> SUFFICES ASSUME NEW x \in Prompt
               PROVE  notices'[x] <= 1 /\ (status'[x] # "dropped" => notices'[x] = 0)
    BY DEF NoticesConsistent
  <2>1. notices'[x] = IF x \in Backlog \cap PeerMessage THEN notices[x] + 1 ELSE notices[x]
    BY DEF DropBacklog, Notify
  <2>2. notices[x] <= 1 /\ (status[x] # "dropped" => notices[x] = 0) /\ notices[x] \in Nat
    BY DEF NoticesConsistent
  <2>3. CASE x \in Backlog
    <3>1. notices[x] = 0 /\ status'[x] = "dropped"
      BY <1>1, <1>2, <2>2, <2>3
    <3>2. notices'[x] = 0 + 1 \/ notices'[x] = 0
      BY <2>1, <3>1
    <3> QED
      BY <3>1, <3>2
  <2>4. CASE x \notin Backlog
    <3>1. notices'[x] = notices[x] /\ status'[x] = status[x]
      BY <1>1, <1>2, <2>1, <2>4
    <3> QED
      BY <2>2, <3>1
  <2> QED
    BY <2>3, <2>4
<1> QED
  BY <1>2, <1>4, <1>5, <1>6, <1>7

\* A call leaves the waiting list.
LEMMA LeaveWaiters ==
    ASSUME TypeOK, WaitersConsistent, NEW i \in DOMAIN waiters,
           waiters' = RemoveAt(waiters, i),
           \A x \in Prompt :
              x # waiters[i].who /\ status[x] = "waiting" => status'[x] = "waiting"
    PROVE  WaitersConsistent'
<1> USE DEF TypeOK
<1> DEFINE k(j) == IF j < i THEN j ELSE j + 1
<1>0. /\ waiters' \in Seq([who : Prompt \cup Clear, on : Prompt])
      /\ \A j \in DOMAIN waiters' :
            /\ j \in DOMAIN waiters /\ j + 1 \in DOMAIN waiters
            /\ waiters'[j] = IF j < i THEN waiters[j] ELSE waiters[j + 1]
  <2> DEFINE r == RemoveAt(waiters, i)
  <2>1. waiters \in Seq([who : Prompt \cup Clear, on : Prompt])
    OBVIOUS
  <2>2. /\ r \in Seq([who : Prompt \cup Clear, on : Prompt])
        /\ \A j \in DOMAIN r :
              /\ j \in DOMAIN waiters /\ j + 1 \in DOMAIN waiters
              /\ r[j] = IF j < i THEN waiters[j] ELSE waiters[j + 1]
    BY ONLY <2>1, RemoveAtFacts, i \in DOMAIN waiters
  <2>3. waiters' = r
    OBVIOUS
  <2> HIDE DEF r
  <2> QED
    BY ONLY <2>2, <2>3
<1>00. i \in Int /\ DOMAIN waiters \subseteq Int /\ DOMAIN waiters' \subseteq Int
  BY <1>0, LenProperties
<1>1. \A j \in DOMAIN waiters' :
         k(j) \in DOMAIN waiters /\ k(j) # i /\ waiters'[j] = waiters[k(j)]
  BY <1>0, <1>00
<1>11. \A j \in DOMAIN waiters' : \A l \in DOMAIN waiters' : k(j) = k(l) => j = l
  BY <1>00
<1> HIDE DEF k
<1>2. \A j \in DOMAIN waiters' :
         waiters'[j].who \in Prompt => status'[waiters'[j].who] = "waiting"
  <2> SUFFICES ASSUME NEW j \in DOMAIN waiters', waiters'[j].who \in Prompt
               PROVE  status'[waiters'[j].who] = "waiting"
    OBVIOUS
  <2>1. waiters[k(j)].who \in Prompt /\ k(j) \in DOMAIN waiters /\ k(j) # i
    BY <1>1
  <2>2. status[waiters[k(j)].who] = "waiting" /\ waiters[k(j)].who # waiters[i].who
    BY <2>1 DEF WaitersConsistent
  <2> QED
    BY <1>1, <2>1, <2>2
<1>3. ASSUME NEW j \in DOMAIN waiters', NEW l \in DOMAIN waiters',
             waiters'[j].who = waiters'[l].who, waiters'[j].who \in Prompt
      PROVE  j = l
  <2>1. k(j) = k(l)
    BY <1>1, <1>3 DEF WaitersConsistent
  <2> QED
    BY <1>11, <2>1
<1> QED
  BY <1>2, <1>3 DEF WaitersConsistent

\* Taking one prompt out of the queue leaves the others, each once.
LEMMA RemovedFromQueue ==
    ASSUME TypeOK, IsInjective(queue), NEW i \in DOMAIN queue,
           queue' = RemoveAt(queue, i)
    PROVE  /\ \A j \in DOMAIN queue' : \E k \in DOMAIN queue :
                 queue'[j] = queue[k] /\ queue[k] # queue[i]
           /\ \A k \in DOMAIN queue :
                 queue[k] # queue[i] => \E j \in DOMAIN queue' : queue'[j] = queue[k]
           /\ IsInjective(queue')
<1> DEFINE k(j) == IF j < i THEN j ELSE j + 1
<1>1. /\ queue \in Seq(Prompt) /\ queue' \in Seq(Prompt)
      /\ \A j \in DOMAIN queue' :
            /\ j \in DOMAIN queue /\ j + 1 \in DOMAIN queue
            /\ queue'[j] = IF j < i THEN queue[j] ELSE queue[j + 1]
  <2> DEFINE r == RemoveAt(queue, i)
  <2>1. queue \in Seq(Prompt)
    BY DEF TypeOK
  <2>2. /\ r \in Seq(Prompt)
        /\ \A j \in DOMAIN r :
              /\ j \in DOMAIN queue /\ j + 1 \in DOMAIN queue
              /\ r[j] = IF j < i THEN queue[j] ELSE queue[j + 1]
    BY ONLY <2>1, RemoveAtFacts, i \in DOMAIN queue
  <2>3. queue' = r
    OBVIOUS
  <2> HIDE DEF r
  <2> QED
    BY ONLY <2>1, <2>2, <2>3
<1>2. i \in Int /\ DOMAIN queue \subseteq Int /\ DOMAIN queue' \subseteq Int
  BY <1>1, LenProperties
<1>3. \A j \in DOMAIN queue' : k(j) \in DOMAIN queue /\ k(j) # i /\ queue'[j] = queue[k(j)]
  BY <1>1, <1>2
<1>4. \A j \in DOMAIN queue' : \A l \in DOMAIN queue' : k(j) = k(l) => j = l
  BY <1>2
<1> HIDE DEF k
<1>5. \A j \in DOMAIN queue' : \E m \in DOMAIN queue :
         queue'[j] = queue[m] /\ queue[m] # queue[i]
  BY <1>3 DEF IsInjective
<1>6. \A m \in DOMAIN queue :
         queue[m] # queue[i] => \E j \in DOMAIN queue' : queue'[j] = queue[m]
  BY <1>1, RemoveAtKeeps
<1>7. IsInjective(queue')
  BY <1>3, <1>4 DEF IsInjective
<1> QED
  BY <1>5, <1>6, <1>7

\* Every operation of the lane preserves the inductive invariant: one step per
\* action, one conjunct per level below.
LEMMA GoodStep ==
    ASSUME TypeOK, Good, [Next]_vars
    PROVE  Good'
<1> USE NoneIsNone DEF TypeOK, Good
<1>1. ASSUME NEW p \in Prompt, SubmitStarts(p) PROVE Good'
  <2>1. OneTurn' /\ HandOffGuarded' /\ ReservationCancels'
    BY <1>1 DEF SubmitStarts, Start, clearVars, OneTurn, HandOffGuarded,
              ReservationCancels, Executing
  <2>2. PeerNotStranded'
    BY <1>1 DEF SubmitStarts, Start, clearVars, PeerNotStranded, Backlog, ToSet
  <2>3. PlacesConsistent'
    BY <1>1 DEF SubmitStarts, Start, clearVars, PlacesConsistent, IsInjective
  <2>4. WaitersConsistent'
    BY <1>1 DEF SubmitStarts, Start, clearVars, WaitersConsistent
  <2>5. NoticesConsistent'
    BY <1>1 DEF SubmitStarts, Start, clearVars, NoticesConsistent
  <2> QED
    BY <2>1, <2>2, <2>3, <2>4, <2>5 DEF Good
<1>2. ASSUME NEW p \in Prompt, SubmitEnqueues(p) PROVE Good'
  <2>1. OneTurn' /\ HandOffGuarded' /\ ReservationCancels'
    BY <1>2 DEF SubmitEnqueues, Answer, OneTurn, HandOffGuarded,
                ReservationCancels, Executing
  <2>2. PeerNotStranded'
    <3>1. Backlog' \subseteq Backlog \cup {p}
      <4>1. \A i \in DOMAIN queue' : queue'[i] = p \/ \E j \in DOMAIN queue : queue[j] = queue'[i]
        BY <1>2, AppendFacts DEF SubmitEnqueues
      <4> QED
        BY <1>2, <4>1 DEF SubmitEnqueues, Backlog, ToSet
    <3>2. p \notin PeerMessage
      BY <1>2, KindsDisjoint DEF SubmitEnqueues, PeerMessage
    <3> QED
      BY <1>2, <3>1, <3>2 DEF SubmitEnqueues, PeerNotStranded
  <2>3. PlacesConsistent'
    BY <1>2, EnqueueGood DEF SubmitEnqueues, Answer
  <2>4. WaitersConsistent'
    BY <1>2 DEF SubmitEnqueues, Answer, WaitersConsistent
  <2>5. NoticesConsistent'
    BY <1>2 DEF SubmitEnqueues, Answer, NoticesConsistent
  <2> QED
    BY <2>1, <2>2, <2>3, <2>4, <2>5 DEF Good
<1>3. ASSUME NEW p \in Prompt, SubmitRejected(p) PROVE Good'
  <2>1. OneTurn' /\ HandOffGuarded' /\ ReservationCancels'
    BY <1>3 DEF SubmitRejected, Answer, laneVars, OneTurn, HandOffGuarded,
              ReservationCancels, Executing
  <2>2. PeerNotStranded'
    BY <1>3 DEF SubmitRejected, Answer, laneVars, PeerNotStranded, Backlog, ToSet
  <2>3. PlacesConsistent'
    BY <1>3 DEF SubmitRejected, Answer, laneVars, PlacesConsistent, IsInjective
  <2>4. WaitersConsistent'
    BY <1>3 DEF SubmitRejected, Answer, laneVars, WaitersConsistent
  <2>5. NoticesConsistent'
    BY <1>3 DEF SubmitRejected, Answer, laneVars, NoticesConsistent
  <2> QED
    BY <2>1, <2>2, <2>3, <2>4, <2>5 DEF Good
<1>4. ASSUME NEW p \in Prompt, SubmitWaits(p) PROVE Good'
  <2>1. OneTurn' /\ HandOffGuarded' /\ ReservationCancels'
    BY <1>4 DEF SubmitWaits, Answer, laneVars, OneTurn, HandOffGuarded,
                ReservationCancels, Executing
  <2>2. PeerNotStranded'
    BY <1>4 DEF SubmitWaits, laneVars, PeerNotStranded, Backlog, ToSet
  <2>3. PlacesConsistent'
    BY <1>4 DEF SubmitWaits, Answer, laneVars, PlacesConsistent, IsInjective
  <2>4. WaitersConsistent'
    <3>1. [who |-> p, on |-> inFlight] \in [who : Prompt \cup Clear, on : Prompt]
      BY <1>4 DEF SubmitWaits
    <3>2. /\ DOMAIN waiters' = DOMAIN waiters \cup {Len(waiters) + 1}
          /\ \A i \in DOMAIN waiters : waiters'[i] = waiters[i]
          /\ waiters'[Len(waiters) + 1].who = p
      BY <1>4, <3>1, AppendFacts DEF SubmitWaits
    <3> QED
      BY <1>4, <3>2 DEF SubmitWaits, Answer, WaitersConsistent
  <2>5. NoticesConsistent'
    BY <1>4 DEF SubmitWaits, Answer, NoticesConsistent
  <2> QED
    BY <2>1, <2>2, <2>3, <2>4, <2>5 DEF Good
<1>5. ASSUME NEW p \in Prompt, PeerStarts(p) PROVE Good'
  <2>1. OneTurn' /\ HandOffGuarded' /\ ReservationCancels'
    BY <1>5 DEF PeerStarts, Start, PeerBusy, OneTurn, HandOffGuarded,
              ReservationCancels, Executing
  <2>2. PeerNotStranded'
    BY <1>5 DEF PeerStarts, Start, PeerBusy, PeerNotStranded, Backlog, ToSet
  <2>3. PlacesConsistent'
    BY <1>5 DEF PeerStarts, Start, PeerBusy, PlacesConsistent, IsInjective
  <2>4. WaitersConsistent'
    BY <1>5 DEF PeerStarts, Start, PeerBusy, WaitersConsistent
  <2>5. NoticesConsistent'
    BY <1>5 DEF PeerStarts, Start, PeerBusy, NoticesConsistent
  <2> QED
    BY <2>1, <2>2, <2>3, <2>4, <2>5 DEF Good
<1>6. ASSUME NEW p \in Prompt, PeerEnqueues(p) PROVE Good'
  <2>1. OneTurn' /\ HandOffGuarded' /\ ReservationCancels'
    BY <1>6 DEF PeerEnqueues, Answer, OneTurn, HandOffGuarded,
                ReservationCancels, Executing
  <2>2. PeerNotStranded'
    <3>1. inFlight' # None
      BY <1>6 DEF PeerEnqueues, PeerBusy, HandOffGuarded
    <3> QED
      BY <3>1 DEF PeerNotStranded
  <2>3. PlacesConsistent'
    BY <1>6, EnqueueGood DEF PeerEnqueues, Answer
  <2>4. WaitersConsistent'
    BY <1>6 DEF PeerEnqueues, Answer, WaitersConsistent
  <2>5. NoticesConsistent'
    BY <1>6 DEF PeerEnqueues, Answer, NoticesConsistent
  <2> QED
    BY <2>1, <2>2, <2>3, <2>4, <2>5 DEF Good
<1>7. ASSUME NEW p \in Prompt, InterruptReserves(p) PROVE Good'
  <2>1. inFlight # None
    BY <1>7 DEF InterruptReserves, PeerBusy, HandOffGuarded
  <2>2. OneTurn' /\ HandOffGuarded' /\ ReservationCancels'
    BY <1>7, <2>1 DEF InterruptReserves, Answer, OneTurn, HandOffGuarded,
                      ReservationCancels, Executing
  <2>3. PeerNotStranded'
    BY <1>7, <2>1 DEF InterruptReserves, PeerNotStranded
  <2>4. PlacesConsistent'
    BY <1>7 DEF InterruptReserves, Answer, PlacesConsistent, IsInjective
  <2>5. WaitersConsistent'
    BY <1>7 DEF InterruptReserves, Answer, WaitersConsistent
  <2>6. NoticesConsistent'
    BY <1>7 DEF InterruptReserves, Answer, NoticesConsistent
  <2> QED
    BY <2>2, <2>3, <2>4, <2>5, <2>6 DEF Good
<1>8. ASSUME NEW p \in Prompt, PeerAbsorbed(p) PROVE Good'
  <2>1. OneTurn' /\ HandOffGuarded' /\ ReservationCancels'
    BY <1>8 DEF PeerAbsorbed, Answer, laneVars, OneTurn, HandOffGuarded,
              ReservationCancels, Executing
  <2>2. PeerNotStranded'
    BY <1>8 DEF PeerAbsorbed, Answer, laneVars, PeerNotStranded, Backlog, ToSet
  <2>3. PlacesConsistent'
    BY <1>8 DEF PeerAbsorbed, Answer, laneVars, PlacesConsistent, IsInjective
  <2>4. WaitersConsistent'
    BY <1>8 DEF PeerAbsorbed, Answer, laneVars, WaitersConsistent
  <2>5. NoticesConsistent'
    BY <1>8 DEF PeerAbsorbed, Answer, laneVars, NoticesConsistent
  <2> QED
    BY <2>1, <2>2, <2>3, <2>4, <2>5 DEF Good
<1>9. ASSUME NEW p \in Prompt, PeerRejected(p) PROVE Good'
  <2>1. OneTurn' /\ HandOffGuarded' /\ ReservationCancels'
    BY <1>9 DEF PeerRejected, Answer, laneVars, OneTurn, HandOffGuarded,
              ReservationCancels, Executing
  <2>2. PeerNotStranded'
    BY <1>9 DEF PeerRejected, Answer, laneVars, PeerNotStranded, Backlog, ToSet
  <2>3. PlacesConsistent'
    BY <1>9 DEF PeerRejected, Answer, laneVars, PlacesConsistent, IsInjective
  <2>4. WaitersConsistent'
    BY <1>9 DEF PeerRejected, Answer, laneVars, WaitersConsistent
  <2>5. NoticesConsistent'
    BY <1>9 DEF PeerRejected, Answer, laneVars, NoticesConsistent
  <2> QED
    BY <2>1, <2>2, <2>3, <2>4, <2>5 DEF Good
<1>10. ASSUME NEW p \in Prompt, SubmitResumes(p) PROVE Good'
  <2>1. PICK i \in DOMAIN waiters : waiters[i].who = p /\ waiters' = RemoveAt(waiters, i)
    BY <1>10 DEF SubmitResumes
  <2>2. status[p] = "waiting"
    BY <2>1 DEF WaitersConsistent
  <2>3. /\ UNCHANGED <<aborted, queue, slot, draining, notices>>
        /\ \/ /\ inFlight # None /\ inFlight' = inFlight
              /\ status' = [status EXCEPT ![p] = "rejected"]
           \/ /\ inFlight = None /\ inFlight' = p
              /\ status' = [status EXCEPT ![p] = "running"]
    BY <1>10 DEF SubmitResumes, Start, Answer
  <2>4. OneTurn' /\ HandOffGuarded' /\ ReservationCancels'
    BY <2>2, <2>3 DEF OneTurn, HandOffGuarded, ReservationCancels, Executing
  <2>5. PeerNotStranded'
    BY <2>3 DEF PeerNotStranded, Backlog, ToSet
  <2>6. PlacesConsistent'
    <3>1. \A x \in Prompt : /\ status'[x] = "queued" <=> status[x] = "queued"
                            /\ status'[x] = "reserved" <=> status[x] = "reserved"
      BY <2>2, <2>3
    <3>2. (\A i1 \in DOMAIN queue : queue[i1] \in Prompt) /\ (slot # None => slot \in Prompt)
      BY ElementOfSeq, LenProperties DEF Prompt
    <3> QED
      BY <2>3, <3>1, <3>2 DEF PlacesConsistent
  <2>7. WaitersConsistent'
    BY <2>1, <2>3, LeaveWaiters
  <2>8. NoticesConsistent'
    BY <2>2, <2>3 DEF NoticesConsistent
  <2> QED
    BY <2>4, <2>5, <2>6, <2>7, <2>8 DEF Good
<1>11. ASSUME NEW p \in Prompt, TurnEnds(p) \/ DetectionEnds(p) PROVE Good'
  BY <1>11, AdvanceQueueGood DEF TurnEnds, DetectionEnds, Executing
<1>12. ASSUME NEW p \in Prompt, TurnDetects(p) PROVE Good'
  <2>1. inFlight = p
    BY <1>12 DEF TurnDetects, OneTurn, Executing
  <2>2. OneTurn' /\ HandOffGuarded' /\ ReservationCancels'
    BY <1>12, <2>1 DEF TurnDetects, Answer, OneTurn, HandOffGuarded,
                       ReservationCancels, Executing
  <2>3. PeerNotStranded'
    BY <1>12, <2>1 DEF TurnDetects, PeerNotStranded
  <2>4. PlacesConsistent'
    BY <1>12 DEF TurnDetects, Answer, PlacesConsistent, IsInjective
  <2>5. WaitersConsistent'
    BY <1>12 DEF TurnDetects, Answer, WaitersConsistent
  <2>6. NoticesConsistent'
    BY <1>12 DEF TurnDetects, Answer, NoticesConsistent
  <2> QED
    BY <2>2, <2>3, <2>4, <2>5, <2>6 DEF Good
<1>13. ASSUME CancelTurn PROVE Good'
  <2>1. OneTurn' /\ HandOffGuarded' /\ ReservationCancels'
    BY <1>13 DEF CancelTurn, OneTurn, HandOffGuarded,
              ReservationCancels, Executing
  <2>2. PeerNotStranded'
    BY <1>13 DEF CancelTurn, PeerNotStranded, Backlog, ToSet
  <2>3. PlacesConsistent'
    BY <1>13 DEF CancelTurn, PlacesConsistent, IsInjective
  <2>4. WaitersConsistent'
    BY <1>13 DEF CancelTurn, WaitersConsistent
  <2>5. NoticesConsistent'
    BY <1>13 DEF CancelTurn, NoticesConsistent
  <2> QED
    BY <2>1, <2>2, <2>3, <2>4, <2>5 DEF Good
<1>14. ASSUME NEW p \in Prompt, DispatchTimeout(p) PROVE Good'
  <2>1. OneTurn' /\ HandOffGuarded' /\ ReservationCancels'
    BY <1>14 DEF DispatchTimeout, OneTurn, HandOffGuarded,
              ReservationCancels, Executing
  <2>2. PeerNotStranded'
    BY <1>14 DEF DispatchTimeout, PeerNotStranded, Backlog, ToSet
  <2>3. PlacesConsistent'
    BY <1>14 DEF DispatchTimeout, PlacesConsistent, IsInjective
  <2>4. WaitersConsistent'
    BY <1>14 DEF DispatchTimeout, WaitersConsistent
  <2>5. NoticesConsistent'
    BY <1>14 DEF DispatchTimeout, NoticesConsistent
  <2> QED
    BY <2>1, <2>2, <2>3, <2>4, <2>5 DEF Good
<1>15. ASSUME NEW p \in Prompt, CancelQueuedItem(p) PROVE Good'
  <2>1. /\ status[p] \in {"queued", "reserved"}
        /\ status' = [status EXCEPT ![p] = "dropped"]
        /\ UNCHANGED <<inFlight, aborted, draining, waiters>>
    BY <1>15 DEF CancelQueuedItem, Answer, PlacesConsistent
  <2>2. \/ slot = p /\ slot' = None /\ queue' = queue
        \/ slot' = slot /\ \E i \in DOMAIN queue :
                              queue[i] = p /\ queue' = RemoveAt(queue, i)
    BY <1>15 DEF CancelQueuedItem
  <2>3. OneTurn' /\ HandOffGuarded' /\ ReservationCancels'
    BY <2>1, <2>2 DEF OneTurn, HandOffGuarded, ReservationCancels, Executing
  <2>4. /\ \A j \in DOMAIN queue' : \E k \in DOMAIN queue :
               queue'[j] = queue[k] /\ queue[k] # p
        /\ \A k \in DOMAIN queue :
               queue[k] # p => \E j \in DOMAIN queue' : queue'[j] = queue[k]
        /\ IsInjective(queue')
    <3>1. CASE slot = p /\ queue' = queue
      BY <2>1, <3>1 DEF PlacesConsistent
    <3>2. CASE \E i \in DOMAIN queue : queue[i] = p /\ queue' = RemoveAt(queue, i)
      <4>1. PICK i \in DOMAIN queue : queue[i] = p /\ queue' = RemoveAt(queue, i)
        BY <3>2
      <4>2. /\ \A j \in DOMAIN queue' : \E k \in DOMAIN queue :
                  queue'[j] = queue[k] /\ queue[k] # queue[i]
            /\ \A k \in DOMAIN queue :
                  queue[k] # queue[i] => \E j \in DOMAIN queue' : queue'[j] = queue[k]
            /\ IsInjective(queue')
        BY <4>1, RemovedFromQueue DEF PlacesConsistent
      <4> QED
        BY <4>1, <4>2
    <3> QED
      BY <2>2, <3>1, <3>2
  <2>5. PeerNotStranded'
    BY <2>1, <2>2, <2>4 DEF PeerNotStranded, Backlog, ToSet
  <2>6. PlacesConsistent'
    BY <2>1, <2>2, <2>4 DEF PlacesConsistent
  <2>7. WaitersConsistent'
    BY <2>1 DEF WaitersConsistent
  <2>8. NoticesConsistent'
    BY <1>15, <2>1 DEF CancelQueuedItem, Notify, NoticesConsistent
  <2> QED
    BY <2>3, <2>5, <2>6, <2>7, <2>8 DEF Good
<1>16. ASSUME NEW r \in RequestId, TombstoneExpires(r) PROVE Good'
  <2>1. OneTurn' /\ HandOffGuarded' /\ ReservationCancels'
    BY <1>16 DEF TombstoneExpires, OneTurn, HandOffGuarded,
              ReservationCancels, Executing
  <2>2. PeerNotStranded'
    BY <1>16 DEF TombstoneExpires, PeerNotStranded, Backlog, ToSet
  <2>3. PlacesConsistent'
    BY <1>16 DEF TombstoneExpires, PlacesConsistent, IsInjective
  <2>4. WaitersConsistent'
    BY <1>16 DEF TombstoneExpires, WaitersConsistent
  <2>5. NoticesConsistent'
    BY <1>16 DEF TombstoneExpires, NoticesConsistent
  <2> QED
    BY <2>1, <2>2, <2>3, <2>4, <2>5 DEF Good
<1>17. ASSUME NEW c \in Clear, ClearSession(c) PROVE Good'
  <2>1. DropBacklog /\ UNCHANGED <<inFlight, draining>>
    BY <1>17 DEF ClearSession
  <2>2. WaitersConsistent'
    <3>1. CASE inFlight = None
      BY <1>17, <2>1, <3>1, DropBacklogGood DEF ClearSession, WaitersConsistent
    <3>2. CASE inFlight # None
      <4>1. /\ [who |-> c, on |-> inFlight] \in [who : Prompt \cup Clear, on : Prompt]
            /\ c \notin Prompt
        BY <3>2, KindsDisjoint
      <4>2. /\ DOMAIN waiters' = DOMAIN waiters \cup {Len(waiters) + 1}
            /\ \A i \in DOMAIN waiters : waiters'[i] = waiters[i]
            /\ waiters'[Len(waiters) + 1].who = c
        BY <1>17, <3>2, <4>1, AppendFacts DEF ClearSession
      <4> QED
        BY <2>1, <4>1, <4>2, DropBacklogGood DEF WaitersConsistent
    <3> QED
      BY <3>1, <3>2
  <2> QED
    BY <2>1, <2>2, DropBacklogGood DEF Good
<1>18. ASSUME NEW c \in Clear, ClearResumes(c) PROVE Good'
  <2>1. DropBacklog /\ UNCHANGED <<inFlight, draining>>
    BY <1>18 DEF ClearResumes
  <2>2. PICK i \in DOMAIN waiters : waiters' = RemoveAt(waiters, i)
    BY <1>18 DEF ClearResumes
  <2>3. WaitersConsistent'
    BY <2>1, <2>2, LeaveWaiters, DropBacklogGood
  <2> QED
    BY <2>1, <2>3, DropBacklogGood DEF Good
<1>19. ASSUME NEW c \in Clear, FinishClear(c) PROVE Good'
  <2>1. OneTurn' /\ HandOffGuarded' /\ ReservationCancels'
    BY <1>19 DEF FinishClear, laneVars, OneTurn, HandOffGuarded,
              ReservationCancels, Executing
  <2>2. PeerNotStranded'
    BY <1>19 DEF FinishClear, laneVars, PeerNotStranded, Backlog, ToSet
  <2>3. PlacesConsistent'
    BY <1>19 DEF FinishClear, laneVars, PlacesConsistent, IsInjective
  <2>4. WaitersConsistent'
    BY <1>19 DEF FinishClear, laneVars, WaitersConsistent
  <2>5. NoticesConsistent'
    BY <1>19 DEF FinishClear, laneVars, NoticesConsistent
  <2> QED
    BY <2>1, <2>2, <2>3, <2>4, <2>5 DEF Good
<1>20. ASSUME UNCHANGED vars PROVE Good'
  <2>1. OneTurn' /\ HandOffGuarded' /\ ReservationCancels'
    BY <1>20 DEF vars, OneTurn, HandOffGuarded,
              ReservationCancels, Executing
  <2>2. PeerNotStranded'
    BY <1>20 DEF vars, PeerNotStranded, Backlog, ToSet
  <2>3. PlacesConsistent'
    BY <1>20 DEF vars, PlacesConsistent, IsInjective
  <2>4. WaitersConsistent'
    BY <1>20 DEF vars, WaitersConsistent
  <2>5. NoticesConsistent'
    BY <1>20 DEF vars, NoticesConsistent
  <2> QED
    BY <2>1, <2>2, <2>3, <2>4, <2>5 DEF Good
<1> QED
  BY <1>1, <1>2, <1>3, <1>4, <1>5, <1>6, <1>7, <1>8, <1>9, <1>10, <1>11, <1>12,
     <1>13, <1>14, <1>15, <1>16, <1>17, <1>18, <1>19, <1>20
     DEF Next, Submission, TurnStep

\* The inductive invariant holds in every reachable state of the lane.
THEOREM IInvCorrect == Spec => []IInv
<1>1. IInv /\ [Next]_vars => IInv'
  BY TypeStep, GoodStep DEF IInv, Good
<1> QED
  BY <1>1, InvInit, PTL DEF Spec

\* Turns on a session never overlap, and the one that runs is the one the lane
\* has registered.
THEOREM MutualExclusion == Spec => []OneTurn
BY IInvCorrect, PTL DEF IInv

\* The hand-off guard is never left up.
THEOREM HandOffNeverLeaks == Spec => []HandOffGuarded
BY IInvCorrect, PTL DEF IInv

\* A reservation never waits behind a turn that was not told to stop.
THEOREM ReservationsCancel == Spec => []ReservationCancels
BY IInvCorrect, PTL DEF IInv

\* No peer message is left in the backlog of a free lane.
THEOREM PeersNeverStranded == Spec => []PeerNotStranded
BY IInvCorrect, PTL DEF IInv

\* A peer message is run or reported cancelled, not both and not twice.
THEOREM ContractsOnce == Spec => []ContractOnce
<1>1. IInv => ContractOnce
  BY DEF IInv, TypeOK, NoticesConsistent, ContractOnce, Started, PeerMessage, Prompt
<1> QED
  BY <1>1, IInvCorrect, PTL

\* Only accepted prompts wait, each in one place.
THEOREM BacklogsConsistent == Spec => []BacklogConsistent
<1>1. IInv => BacklogConsistent
  BY NoneIsNone DEF IInv, TypeOK, PlacesConsistent, BacklogConsistent, Accepted,
                    Backlog, ToSet
<1> QED
  BY <1>1, IInvCorrect, PTL

-----------------------------------------------------------------------------
(* The order of turns.                                                     *)

\* A turn takes the lane only from nobody, or from the turn that ends; what
\* waits in the slot is first.
LEMMA HandOver ==
    ASSUME IInv, Next, inFlight' # inFlight
    PROVE  \/ inFlight = None /\ tombstones \subseteq tombstones'
           \/ /\ inFlight # None /\ tombstones' = Recorded(inFlight)
              /\ slot # None => inFlight' = slot
<1> USE NoneIsNone DEF IInv, TypeOK
<1>1. ASSUME NEW p \in Prompt, TurnEnds(p) \/ DetectionEnds(p)
      PROVE  /\ inFlight # None /\ tombstones' = Recorded(inFlight)
             /\ slot # None => inFlight' = slot
  <2>1. inFlight = p /\ p # None
    BY <1>1 DEF TurnEnds, DetectionEnds, OneTurn, Executing
  <2> QED
    BY <1>1, <2>1 DEF TurnEnds, DetectionEnds, AdvanceQueue
<1>2. ASSUME NEW p \in Prompt, SubmitStarts(p) \/ PeerStarts(p) \/ SubmitResumes(p)
      PROVE  inFlight = None /\ tombstones \subseteq tombstones'
  <2>1. CASE SubmitStarts(p)
    BY <2>1 DEF SubmitStarts
  <2>2. CASE PeerStarts(p)
    BY <2>2 DEF PeerStarts, PeerBusy, Recorded
  <2>3. CASE SubmitResumes(p)
    BY <2>3 DEF SubmitResumes
  <2> QED
    BY <1>2, <2>1, <2>2, <2>3
<1>3. ASSUME NEW p \in Prompt,
             \/ SubmitEnqueues(p) \/ SubmitRejected(p) \/ SubmitWaits(p) \/ PeerEnqueues(p)
             \/ InterruptReserves(p) \/ PeerAbsorbed(p) \/ PeerRejected(p)
             \/ TurnDetects(p) \/ DispatchTimeout(p) \/ CancelQueuedItem(p)
      PROVE  inFlight' = inFlight
  BY <1>3 DEF SubmitEnqueues, SubmitRejected, SubmitWaits, PeerEnqueues, InterruptReserves,
              PeerAbsorbed, PeerRejected, TurnDetects, DispatchTimeout, CancelQueuedItem,
              laneVars
<1>4. ASSUME CancelTurn \/ \E r \in RequestId : TombstoneExpires(r)
      PROVE  inFlight' = inFlight
  BY <1>4 DEF CancelTurn, TombstoneExpires
<1>5. ASSUME NEW c \in Clear, ClearSession(c) \/ ClearResumes(c) \/ FinishClear(c)
      PROVE  inFlight' = inFlight
  BY <1>5 DEF ClearSession, ClearResumes, FinishClear, laneVars
<1> QED
  BY <1>1, <1>2, <1>3, <1>4, <1>5 DEF Next, Submission, TurnStep

\* Once an interrupt is reserved, no turn comes before it.
THEOREM InterruptIsNext == Spec => InterruptNext
<1>1. IInv /\ [Next]_vars =>
        [slot # None /\ inFlight' # inFlight => inFlight' = slot]_vars
  BY HandOver DEF IInv, ReservationCancels
<1> QED
  BY <1>1, IInvCorrect, PTL DEF Spec, InterruptNext

-----------------------------------------------------------------------------
(* Request ids.                                                            *)

\* A tombstone goes only by expiring.
LEMMA TombstonesStay ==
    ASSUME Next
    PROVE  tombstones \subseteq tombstones' \cup Expiring
<1>1. ASSUME NEW p \in Prompt, Submission(p) PROVE tombstones \subseteq tombstones'
  BY <1>1 DEF Submission, SubmitStarts, SubmitEnqueues, SubmitRejected, SubmitWaits,
              PeerStarts, PeerEnqueues, InterruptReserves, PeerAbsorbed, PeerRejected,
              Recorded, laneVars
<1>2. ASSUME NEW p \in Prompt, TurnStep(p) PROVE tombstones \subseteq tombstones'
  BY <1>2 DEF TurnStep, TurnEnds, DetectionEnds, TurnDetects, AdvanceQueue, Recorded
<1>3. ASSUME NEW p \in Prompt, SubmitResumes(p) \/ DispatchTimeout(p) \/ CancelQueuedItem(p)
      PROVE  tombstones' = tombstones
  BY <1>3 DEF SubmitResumes, DispatchTimeout, CancelQueuedItem
<1>4. ASSUME NEW c \in Clear, ClearSession(c) \/ ClearResumes(c) \/ FinishClear(c)
      PROVE  tombstones' = tombstones
  BY <1>4 DEF ClearSession, ClearResumes, FinishClear, laneVars
<1>5. CASE CancelTurn
  BY <1>5 DEF CancelTurn
<1>6. ASSUME NEW r \in RequestId, TombstoneExpires(r) PROVE tombstones \subseteq tombstones' \cup Expiring
  BY <1>6 DEF TombstoneExpires
<1> QED
  BY <1>1, <1>2, <1>3, <1>4, <1>5, <1>6 DEF Next

\* As long as its tombstone lasts, a request seen in flight or settled is never
\* absent again.
THEOREM RequestsRemembered == Spec => NeverForgotten
<1>1. ASSUME IInv, [Next]_vars, NEW r \in Lasting, Inspect(r) # "absent"
      PROVE  Inspect(r)' # "absent"
  <2> USE NoneIsNone
  <2>0. r \in RequestId /\ r \notin Expiring
    BY DEF Lasting
  <2>1. r \in tombstones \/ (inFlight # None /\ ReqOf[inFlight] = r)
    BY <1>1 DEF Inspect
  <2>2. CASE r \in tombstones
    <3>1. r \in tombstones'
      BY <1>1, <2>0, <2>2, TombstonesStay DEF vars
    <3> QED
      BY <3>1 DEF Inspect
  <2>3. CASE inFlight # None /\ ReqOf[inFlight] = r
    <3>1. CASE inFlight' = inFlight
      BY <2>3, <3>1 DEF Inspect
    <3>2. CASE inFlight' # inFlight
      <4>1. tombstones' = Recorded(inFlight)
        BY <1>1, <2>3, <3>2, HandOver DEF vars
      <4>2. r \in tombstones'
        BY <2>0, <2>3, <4>1 DEF Recorded
      <4> QED
        BY <4>2 DEF Inspect
    <3> QED
      BY <3>1, <3>2
  <2> QED
    BY <2>1, <2>2, <2>3
<1>2. IInv /\ [Next]_vars =>
        [\A r \in Lasting : Inspect(r) # "absent" => Inspect(r)' # "absent"]_vars
  BY <1>1
<1> QED
  BY <1>2, IInvCorrect, PTL DEF Spec, NeverForgotten

\* A message was let in if it ran or waits to run.
Admitted(p) == Started(p) \/ Accepted(p)

\* Why no request runs twice: its id is remembered from the moment a message
\* with it is let in, not only when that message has run.
RequestsOnce ==
    /\ \A p \in PeerMessage : status[p] # "waiting"
    /\ \A p \in PeerMessage : Admitted(p) /\ ReqOf[p] \in Lasting => ReqOf[p] \in tombstones
    /\ \A p, q \in PeerMessage :
          p # q /\ Admitted(p) /\ Admitted(q) /\ ReqOf[p] = ReqOf[q] => ReqOf[p] \notin Lasting

\* A step that lets nobody in.
LEMMA NobodyAdmitted ==
    ASSUME RequestsOnce, tombstones \subseteq tombstones' \cup Expiring,
           \A p \in PeerMessage : /\ Admitted(p)' => Admitted(p)
                                  /\ status'[p] = "waiting" => status[p] = "waiting"
    PROVE  RequestsOnce'
BY DEF RequestsOnce, Lasting

\* A step that lets in one message whose id was not known.
LEMMA OneAdmitted ==
    ASSUME TypeOK, RequestsOnce, NEW p \in PeerMessage, ~Duplicate(p), tombstones' = Recorded(p),
           NEW s \in {"running", "queued", "reserved"}, status' = [status EXCEPT ![p] = s]
    PROVE  RequestsOnce'
<1>1. p \in Prompt /\ p # None /\ tombstones \subseteq tombstones'
  BY NoneIsNone DEF PeerMessage, Prompt, Recorded
<1>2. \A q \in PeerMessage : q # p => status'[q] = status[q]
  BY DEF TypeOK, PeerMessage, Prompt
<1>3. \A q \in PeerMessage : q # p => (Admitted(q)' <=> Admitted(q))
  BY <1>2 DEF Admitted, Started, Accepted
<1>4. status'[p] # "waiting"
  BY <1>1 DEF TypeOK
<1>5. ReqOf[p] \in Lasting => ReqOf[p] \in tombstones' /\ ReqOf[p] \notin tombstones
  BY <1>1, NoneIsNone DEF Recorded, Duplicate, Lasting
<1>6. \A q \in PeerMessage : q # p /\ Admitted(q) /\ ReqOf[q] \in Lasting => ReqOf[q] # ReqOf[p]
  BY <1>5 DEF RequestsOnce
<1>7. \A q \in PeerMessage : Admitted(q)' /\ ReqOf[q] \in Lasting => ReqOf[q] \in tombstones'
  BY <1>1, <1>3, <1>5 DEF RequestsOnce
<1>8. \A q, r \in PeerMessage :
        q # r /\ Admitted(q)' /\ Admitted(r)' /\ ReqOf[q] = ReqOf[r] => ReqOf[q] \notin Lasting
  BY <1>3, <1>6 DEF RequestsOnce
<1> QED
  BY <1>2, <1>4, <1>7, <1>8 DEF RequestsOnce

\* Every operation keeps request ids apart, as long as tombstones last.
LEMMA RequestsStep ==
    ASSUME IInv, RequestsOnce, Next
    PROVE  RequestsOnce'
<1> USE NoneIsNone
<1>0. TypeOK /\ Good /\ tombstones \subseteq tombstones' \cup Expiring
  BY TombstonesStay DEF IInv, Good
<1>1. ASSUME NEW p \in Prompt, p \in PeerMessage, PeerStarts(p) PROVE RequestsOnce'
  BY <1>0, <1>1, OneAdmitted DEF PeerStarts, Start
<1>2. ASSUME NEW p \in Prompt, PeerEnqueues(p) PROVE RequestsOnce'
  <2>1. p \in PeerMessage
    BY <1>2 DEF PeerEnqueues, PeerMessage
  <2> QED
    BY <1>0, <1>2, <2>1, OneAdmitted DEF PeerEnqueues, Answer
<1>3. ASSUME NEW p \in Prompt, InterruptReserves(p) PROVE RequestsOnce'
  <2>1. p \in PeerMessage
    BY <1>3 DEF InterruptReserves, PeerMessage
  <2> QED
    BY <1>0, <1>3, <2>1, OneAdmitted DEF InterruptReserves, Answer
<1>4. ASSUME NEW p \in Prompt, SubmitStarts(p) \/ SubmitEnqueues(p) \/ SubmitWaits(p)
      PROVE  RequestsOnce'
  <2>1. p \notin PeerMessage
    BY <1>4, KindsDisjoint DEF SubmitStarts, SubmitEnqueues, SubmitWaits, PeerMessage
  <2>2. \A q \in PeerMessage : status'[q] = status[q]
    BY <1>0, <1>4, <2>1
    DEF SubmitStarts, SubmitEnqueues, SubmitWaits, Start, Answer, TypeOK, PeerMessage, Prompt
  <2> QED
    BY <1>0, <2>2, NobodyAdmitted DEF Admitted, Started, Accepted
<1>5. ASSUME NEW p \in Prompt, SubmitRejected(p) \/ PeerAbsorbed(p) \/ PeerRejected(p)
      PROVE  RequestsOnce'
  <2>1. \E s \in {"rejected", "absorbed"} : status' = [status EXCEPT ![p] = s]
    BY <1>5 DEF SubmitRejected, PeerAbsorbed, PeerRejected, Answer
  <2>2. \A q \in PeerMessage : status'[q] = status[q] \/ status'[q] \in {"rejected", "absorbed"}
    BY <1>0, <2>1 DEF TypeOK, PeerMessage, Prompt
  <2> QED
    BY <1>0, <2>2, NobodyAdmitted DEF Admitted, Started, Accepted
<1>6. ASSUME NEW p \in Prompt, SubmitResumes(p) PROVE RequestsOnce'
  <2>1. status[p] = "waiting"
    BY <1>0, <1>6 DEF SubmitResumes, Good, WaitersConsistent
  <2>2. p \notin PeerMessage
    BY <2>1 DEF RequestsOnce
  <2>3. \A q \in PeerMessage : status'[q] = status[q]
    BY <1>0, <1>6, <2>2 DEF SubmitResumes, Start, Answer, TypeOK, PeerMessage, Prompt
  <2> QED
    BY <1>0, <2>3, NobodyAdmitted DEF Admitted, Started, Accepted
<1>7. ASSUME NEW p \in Prompt, TurnEnds(p) \/ DetectionEnds(p) PROVE RequestsOnce'
  <2>1. AdvanceQueue(p) /\ Executing(p)
    BY <1>7 DEF TurnEnds, DetectionEnds, Executing
  <2>2. ASSUME NEW n \in Prompt, Accepted(n),
               status' = [status EXCEPT ![p] = "done", ![n] = "running"]
        PROVE  RequestsOnce'
    <3>1. \A q \in PeerMessage :
            \/ status'[q] = status[q]
            \/ q = p /\ Admitted(q) /\ status'[q] \in {"done", "running"}
            \/ q = n /\ Admitted(q) /\ status'[q] = "running"
      BY <1>0, <2>1, <2>2 DEF TypeOK, PeerMessage, Prompt, Admitted, Started, Executing
    <3>2. \A q \in PeerMessage : /\ Admitted(q)' => Admitted(q)
                                 /\ status'[q] = "waiting" => status[q] = "waiting"
      BY <3>1 DEF Admitted, Started, Accepted
    <3> QED
      BY <1>0, <3>2, NobodyAdmitted
  <2>3. CASE slot # None
    <3>1. slot \in Prompt /\ Accepted(slot)
      BY <1>0, <2>3 DEF TypeOK, Good, PlacesConsistent, Accepted, Prompt
    <3> QED
      BY <2>1, <2>2, <2>3, <3>1 DEF AdvanceQueue
  <2>4. CASE slot = None /\ queue # <<>>
    <3>1. Head(queue) \in Prompt /\ Accepted(Head(queue))
      BY <1>0, <2>4, HeadTailFacts DEF TypeOK, Good, PlacesConsistent, Accepted
    <3> QED
      BY <2>1, <2>2, <2>4, <3>1 DEF AdvanceQueue
  <2>5. CASE slot = None /\ queue = <<>>
    <3>1. status' = [status EXCEPT ![p] = "done"]
      BY <2>1, <2>5 DEF AdvanceQueue
    <3>2. \A q \in PeerMessage : \/ status'[q] = status[q]
                                 \/ Admitted(q) /\ status'[q] = "done"
      BY <1>0, <2>1, <3>1 DEF TypeOK, PeerMessage, Prompt, Admitted, Started, Executing
    <3>3. \A q \in PeerMessage : /\ Admitted(q)' => Admitted(q)
                                 /\ status'[q] = "waiting" => status[q] = "waiting"
      BY <3>2 DEF Admitted, Started, Accepted
    <3> QED
      BY <1>0, <3>3, NobodyAdmitted
  <2> QED
    BY <2>3, <2>4, <2>5
<1>8. ASSUME NEW p \in Prompt, TurnDetects(p) PROVE RequestsOnce'
  <2>1. \A q \in PeerMessage : \/ status'[q] = status[q]
                               \/ Started(q) /\ status'[q] = "detecting"
    BY <1>0, <1>8 DEF TurnDetects, Answer, TypeOK, PeerMessage, Prompt, Started
  <2>2. \A q \in PeerMessage : /\ Admitted(q)' => Admitted(q)
                               /\ status'[q] = "waiting" => status[q] = "waiting"
    BY <2>1 DEF Admitted, Started, Accepted
  <2> QED
    BY <1>0, <2>2, NobodyAdmitted
<1>9. ASSUME NEW p \in Prompt, CancelQueuedItem(p) PROVE RequestsOnce'
  <2>1. \A q \in PeerMessage : status'[q] = status[q] \/ status'[q] = "dropped"
    BY <1>0, <1>9 DEF CancelQueuedItem, Answer, TypeOK, PeerMessage, Prompt
  <2> QED
    BY <1>0, <2>1, NobodyAdmitted DEF Admitted, Started, Accepted
<1>10. ASSUME NEW c \in Clear, ClearSession(c) \/ ClearResumes(c) PROVE RequestsOnce'
  <2>1. DropBacklog
    BY <1>10 DEF ClearSession, ClearResumes
  <2>2. \A q \in PeerMessage : status'[q] = status[q] \/ status'[q] = "dropped"
    BY <2>1 DEF DropBacklog, PeerMessage, Prompt
  <2> QED
    BY <1>0, <2>2, NobodyAdmitted DEF Admitted, Started, Accepted
<1>11. ASSUME status' = status PROVE RequestsOnce'
  BY <1>0, <1>11, NobodyAdmitted DEF Admitted, Started, Accepted
<1>12. ASSUME NEW p \in Prompt, PeerStarts(p) PROVE p \in PeerMessage
  BY <1>12 DEF PeerStarts
<1>13. ASSUME NEW p \in Prompt, DispatchTimeout(p) PROVE status' = status
  BY <1>13 DEF DispatchTimeout
<1>14. ASSUME CancelTurn \/ (\E r \in RequestId : TombstoneExpires(r))
                         \/ (\E c \in Clear : FinishClear(c))
       PROVE  status' = status
  BY <1>14 DEF CancelTurn, TombstoneExpires, FinishClear
<1> QED
  BY <1>1, <1>2, <1>3, <1>4, <1>5, <1>6, <1>7, <1>8, <1>9, <1>10, <1>11, <1>12, <1>13, <1>14
  DEF Next, Submission, TurnStep

\* As long as its tombstone lasts, messages with one request id never run twice,
\* however often and in whatever form (queued or interrupting) they are retried.
THEOREM NeverRunsTwice == Spec => []RunsOnce
<1>1. Init => RequestsOnce
  BY DEF Init, RequestsOnce, Admitted, Started, Accepted, PeerMessage, Prompt
<1>2. IInv /\ RequestsOnce /\ [Next]_vars => RequestsOnce'
  <2>1. CASE UNCHANGED vars
    BY <2>1, NobodyAdmitted DEF vars, Admitted, Started, Accepted
  <2> QED
    BY <2>1, RequestsStep
<1>3. RequestsOnce => RunsOnce
  BY DEF RequestsOnce, RunsOnce, Admitted
<1> QED
  BY <1>1, <1>2, <1>3, IInvCorrect, PTL DEF Spec

=============================================================================
