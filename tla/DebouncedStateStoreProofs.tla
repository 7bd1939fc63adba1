---------------------- MODULE DebouncedStateStoreProofs ----------------------
(***************************************************************************)
(* Safety of the state store for any mutations, any number of failed       *)
(* writes and any number of crashes.                                       *)
(***************************************************************************)
EXTENDS DebouncedStateStore, TLAPS

\* The program starts with an empty file and nobody committing.
LEMMA InitEstablishesStoreInv ==
    Init => StoreInv
<1> SUFFICES ASSUME Init PROVE StoreInv
  OBVIOUS
<1> USE DEF Init
<1>1. TypeOK
  <2>1. faults \in [failures : 0..MaxFailures, crashes : 0..MaxCrashes]
    BY BoundsType
  <2>2. outcome \in [Mutation -> {"new", "accepted", "written", "rejected"}]
    OBVIOUS
  <2>3. failed \in [Paths -> SUBSET Mutation]
    OBVIOUS
  <2> QED
    BY <2>1, <2>2, <2>3 DEF TypeOK
<1>2. WrittenIsOnDisk
  BY DEF WrittenIsOnDisk, Mutation
<1>3. ExposedIsOnDisk
  BY DEF ExposedIsOnDisk
<1>4. FreshIsNowhere
  BY DEF FreshIsNowhere, Mutation
<1>5. LiveIsNewest
  BY DEF LiveIsNewest
<1>6. WritesAreCurrent
  BY DEF WritesAreCurrent
<1>7. MutexIsFresh
  BY DEF MutexIsFresh
<1>8. DisposedIsDisarmed
  BY DEF DisposedIsDisarmed, Disposed
<1>9. AcceptedNotForgotten
  BY DEF AcceptedNotForgotten
<1> QED
  BY <1>1, <1>2, <1>3, <1>4, <1>5, <1>6, <1>7, <1>8, <1>9 DEF StoreInv

\* A commit that may wait keeps the invariant: its mutation is in memory only,
\* and a timer or a write in progress is there to write it.
LEMMA SaveKeepsStoreInv ==
    ASSUME StoreInv, NEW m \in Debounced, Save(m)
    PROVE  StoreInv'
<1>1. TypeOK'
  BY DEF StoreInv, TypeOK, Save, Disposed, Flushing, Mutation
<1>2. WrittenIsOnDisk'
  BY DEF StoreInv, TypeOK, WrittenIsOnDisk, Save, Mutation
<1>3. ExposedIsOnDisk'
  BY KindsDisjoint
  DEF StoreInv, ExposedIsOnDisk, Save
<1>4. FreshIsNowhere'
  BY DEF StoreInv, TypeOK, FreshIsNowhere, Save
<1>5. LiveIsNewest'
  BY DEF StoreInv, TypeOK, LiveIsNewest, Acknowledged, Save
<1>6. WritesAreCurrent'
  BY KindsDisjoint
  DEF StoreInv, TypeOK, WritesAreCurrent, Acknowledged, FreshIsNowhere,
      Save
<1>7. MutexIsFresh'
  BY DEF MutexIsFresh, Save
<1>8. DisposedIsDisarmed'
  BY DEF StoreInv, DisposedIsDisarmed, Save, Disposed
<1>9. AcceptedNotForgotten'
  <2>1. (pending => timer \/ Flushing \/ disposal = "flushing")'
    BY DEF StoreInv, TypeOK, AcceptedNotForgotten, DisposedIsDisarmed,
           Save, Disposed, Flushing
  <2>2. ASSUME NEW d \in live' \ disk'
        PROVE  \/ outcome'[d] = "rejected"
               \/ pending'
               \/ mutex' # None
               \/ \E w \in writes' : d \in w.content
               \/ \E p \in Paths : d \in failed'[p]
    <3>1. CASE d = m
      BY <3>1 DEF StoreInv, TypeOK, Save, Mutation
    <3>2. CASE d # m
      <4>1. d \in live \ disk /\ d \in Mutation
        BY <3>2, <2>2 DEF StoreInv, TypeOK, Save
      <4>2. outcome'[d] = outcome[d]
        BY <3>2, <4>1 DEF StoreInv, TypeOK, Save
      <4> QED
        BY <4>1, <4>2 DEF StoreInv, TypeOK, AcceptedNotForgotten, Save
    <3> QED
      BY <3>1, <3>2
  <2> QED
    BY <2>1, <2>2 DEF AcceptedNotForgotten
<1> QED
  BY <1>1, <1>2, <1>3, <1>4, <1>5, <1>6, <1>7, <1>8, <1>9 DEF StoreInv

\* A commit that may not wait keeps the invariant: the pending commit it drops
\* is part of its own candidate.
LEMMA SaveNowKeepsStoreInv ==
    ASSUME StoreInv, NEW m \in Durable, SaveNow(m)
    PROVE  StoreInv'
<1>1. TypeOK'
  <2>1. Candidate(m) \in Write
    BY DEF StoreInv, TypeOK, Candidate, Write, Mutation
  <2>2. writes' \subseteq Write /\ \A v, w \in writes' : v = w
    BY <2>1 DEF StoreInv, TypeOK, SaveNow, Flushing
  <2> QED
    BY <2>2 DEF StoreInv, TypeOK, SaveNow
<1>2. WrittenIsOnDisk'
  BY DEF StoreInv, WrittenIsOnDisk, SaveNow
<1>3. ExposedIsOnDisk'
  BY DEF StoreInv, ExposedIsOnDisk, SaveNow
<1>4. FreshIsNowhere'
  BY DEF StoreInv, FreshIsNowhere, SaveNow, Candidate
<1>5. LiveIsNewest'
  BY DEF StoreInv, LiveIsNewest, Acknowledged, SaveNow
<1>6. WritesAreCurrent'
  BY NoneIsNone
  DEF StoreInv, WritesAreCurrent, LiveIsNewest, Acknowledged, SaveNow,
      Candidate, Mutation
<1>7. MutexIsFresh'
  BY DEF MutexIsFresh, SaveNow
<1>8. DisposedIsDisarmed'
  BY DEF DisposedIsDisarmed, SaveNow, Disposed
<1>9. AcceptedNotForgotten'
  BY NoneIsNone
  DEF AcceptedNotForgotten, SaveNow, Mutation
<1> QED
  BY <1>1, <1>2, <1>3, <1>4, <1>5, <1>6, <1>7, <1>8, <1>9 DEF StoreInv

\* saveNow after dispose keeps the invariant: the mutation stays nowhere.
LEMMA SaveNowRejectedKeepsStoreInv ==
    ASSUME StoreInv, NEW m \in Durable, SaveNowRejected(m)
    PROVE  StoreInv'
<1>1. TypeOK'
  BY DEF StoreInv, TypeOK, SaveNowRejected, Mutation
<1>2. WrittenIsOnDisk'
  BY DEF StoreInv, WrittenIsOnDisk, SaveNowRejected
<1>3. ExposedIsOnDisk'
  BY DEF StoreInv, ExposedIsOnDisk, SaveNowRejected
<1>4. FreshIsNowhere'
  BY DEF StoreInv, FreshIsNowhere, SaveNowRejected
<1>5. LiveIsNewest'
  BY DEF StoreInv, LiveIsNewest, Acknowledged, SaveNowRejected
<1>6. WritesAreCurrent'
  BY DEF StoreInv, WritesAreCurrent, Acknowledged, SaveNowRejected
<1>7. MutexIsFresh'
  BY DEF MutexIsFresh, SaveNowRejected
<1>8. DisposedIsDisarmed'
  BY DEF StoreInv, DisposedIsDisarmed, SaveNowRejected
<1>9. AcceptedNotForgotten'
  BY DEF StoreInv, TypeOK, AcceptedNotForgotten, DisposedIsDisarmed,
         SaveNowRejected, Disposed
<1> QED
  BY <1>1, <1>2, <1>3, <1>4, <1>5, <1>6, <1>7, <1>8, <1>9 DEF StoreInv

\* saveNow's write, begun once the previous one ended, is current: live has not
\* changed since saveNow took the mutex, or has grown by what it still holds.
LEMMA SaveNowResumesKeepsStoreInv ==
    ASSUME StoreInv, NEW m \in Durable, SaveNowResumes(m)
    PROVE  StoreInv'
<1>1. TypeOK'
  <2>1. Candidate(m) \in Write
    BY DEF StoreInv, TypeOK, Candidate, Write, Mutation
  <2>2. writes' \subseteq Write /\ \A v, w \in writes' : v = w
    BY <2>1 DEF StoreInv, TypeOK, SaveNowResumes, Flushing
  <2> QED
    BY <2>2 DEF StoreInv, TypeOK, SaveNowResumes
<1>2. WrittenIsOnDisk'
  BY DEF StoreInv, WrittenIsOnDisk, SaveNowResumes
<1>3. ExposedIsOnDisk'
  BY DEF StoreInv, ExposedIsOnDisk, SaveNowResumes
<1>4. FreshIsNowhere'
  BY DEF StoreInv, FreshIsNowhere, SaveNowResumes, Candidate
<1>5. LiveIsNewest'
  BY DEF StoreInv, LiveIsNewest, Acknowledged, SaveNowResumes
<1>6. WritesAreCurrent'
  BY NoneIsNone
  DEF StoreInv, WritesAreCurrent, LiveIsNewest, Acknowledged,
      SaveNowResumes, Waiting, Candidate, Mutation
<1>7. MutexIsFresh'
  BY DEF StoreInv, MutexIsFresh, SaveNowResumes
<1>8. DisposedIsDisarmed'
  <2>1. Candidate(m).by # None
    BY NoneIsNone DEF Candidate, Mutation
  <2> QED
    BY <2>1 DEF StoreInv, DisposedIsDisarmed, SaveNowResumes, Disposed
<1>9. AcceptedNotForgotten'
  BY DEF AcceptedNotForgotten, SaveNowResumes, Candidate, Flushing
<1> QED
  BY <1>1, <1>2, <1>3, <1>4, <1>5, <1>6, <1>7, <1>8, <1>9 DEF StoreInv

\* A turn of the flush cycle keeps one write of the right type.
LEMMA FlushCycleType ==
    ASSUME TypeOK, FlushCycle
    PROVE  /\ pending' \in BOOLEAN
           /\ writes' \subseteq Write
           /\ \A v, w \in writes' : v = w
<1>1. [content |-> live, by |-> None] \in Write
  BY DEF TypeOK, Write
<1> QED
  BY <1>1 DEF TypeOK, FlushCycle, Flushing

\* A turn of the flush cycle drops no commit: what was pending is in its write,
\* and a write in progress goes on.
LEMMA FlushCycleCovers ==
    ASSUME TypeOK, FlushCycle
    PROVE  /\ pending' => pending /\ writes' = writes /\ Flushing
           /\ ~pending \/ Flushing => pending' = pending /\ writes' = writes
           /\ pending /\ ~Flushing =>
                 /\ ~pending'
                 /\ \E w \in writes' : w.content = live
<1>1. [content |-> live, by |-> None].content = live
  OBVIOUS
<1> QED
  BY <1>1 DEF TypeOK, FlushCycle, Flushing

\* The debounced flush keeps the invariant: it writes the whole of live.
LEMMA TimerFiresKeepsStoreInv ==
    ASSUME StoreInv, TimerFires
    PROVE  StoreInv'
<1>1. TypeOK'
  <2>1. FlushCycle
    BY DEF TimerFires
  <2>2. pending' \in BOOLEAN /\ writes' \subseteq Write /\ \A v, w \in writes' : v = w
    BY <2>1, FlushCycleType DEF StoreInv
  <2> QED
    BY <2>2 DEF StoreInv, TypeOK, TimerFires
<1>2. WrittenIsOnDisk'
  BY DEF StoreInv, WrittenIsOnDisk, TimerFires
<1>3. ExposedIsOnDisk'
  BY DEF StoreInv, ExposedIsOnDisk, TimerFires
<1>4. FreshIsNowhere'
  BY DEF StoreInv, FreshIsNowhere, TimerFires, FlushCycle
<1>5. LiveIsNewest'
  BY DEF StoreInv, LiveIsNewest, Acknowledged, TimerFires
<1>6. WritesAreCurrent'
  BY DEF StoreInv, WritesAreCurrent, LiveIsNewest, Acknowledged, TimerFires,
         FlushCycle
<1>7. MutexIsFresh'
  BY DEF StoreInv, MutexIsFresh, TimerFires
<1>8. DisposedIsDisarmed'
  BY DEF StoreInv, DisposedIsDisarmed, TimerFires, Disposed
<1>9. AcceptedNotForgotten'
  <2>1. FlushCycle /\ live' = live /\ disk' = disk /\ mutex' = mutex
        /\ outcome' = outcome /\ failed' = failed
    BY DEF TimerFires
  <2>2. (pending => timer \/ Flushing \/ disposal = "flushing")'
    BY <2>1, FlushCycleCovers DEF StoreInv, TypeOK, Flushing, TimerFires
  <2>3. ASSUME NEW d \in live \ disk
        PROVE  \/ outcome[d] = "rejected"
               \/ pending'
               \/ mutex # None
               \/ \E w \in writes' : d \in w.content
               \/ \E p \in Paths : d \in failed[p]
    BY <2>1, FlushCycleCovers DEF StoreInv, AcceptedNotForgotten
  <2> QED
    BY <2>1, <2>2, <2>3 DEF AcceptedNotForgotten
<1> QED
  BY <1>1, <1>2, <1>3, <1>4, <1>5, <1>6, <1>7, <1>8, <1>9 DEF StoreInv

\* The end of a write keeps the invariant: nothing acknowledged leaves the disk,
\* and a commit made meanwhile is scheduled.
LEMMA WriteEndsKeepsStoreInv ==
    ASSUME StoreInv, NEW w \in writes, WriteEnds(w)
    PROVE  StoreInv'
<1>1. TypeOK'
  BY DEF StoreInv, TypeOK, WriteEnds, Reschedule, Write
<1>2. WrittenIsOnDisk'
  BY DEF StoreInv, TypeOK, WrittenIsOnDisk, WritesAreCurrent, Acknowledged,
         WriteEnds, Mutation
<1>3. ExposedIsOnDisk'
  BY DEF StoreInv, ExposedIsOnDisk, WritesAreCurrent, WriteEnds
<1>4. FreshIsNowhere'
  BY DEF StoreInv, TypeOK, FreshIsNowhere, WritesAreCurrent, WriteEnds
<1>5. LiveIsNewest'
  BY DEF StoreInv, LiveIsNewest, WritesAreCurrent, WriteEnds
<1>6. WritesAreCurrent'
  BY DEF StoreInv, TypeOK, WritesAreCurrent, WriteEnds
<1>7. MutexIsFresh'
  BY DEF StoreInv, MutexIsFresh, WriteEnds
<1>8. DisposedIsDisarmed'
  BY DEF StoreInv, TypeOK, DisposedIsDisarmed, WriteEnds, Reschedule, Disposed
<1>9. AcceptedNotForgotten'
  BY DEF StoreInv, TypeOK, AcceptedNotForgotten, WritesAreCurrent,
         Acknowledged, FreshIsNowhere, DisposedIsDisarmed, WriteEnds,
         Reschedule, Disposed
<1> QED
  BY <1>1, <1>2, <1>3, <1>4, <1>5, <1>6, <1>7, <1>8, <1>9 DEF StoreInv

\* A failed write keeps the invariant, whether or not it replaced the file.
LEMMA WriteFailsKeepsStoreInv ==
    ASSUME StoreInv, NEW w \in writes, WriteFails(w)
    PROVE  StoreInv'
<1>1. TypeOK'
  BY BoundsType
  DEF StoreInv, TypeOK, WriteFails, Reschedule, PathOf, Paths, Write
<1>2. WrittenIsOnDisk'
  BY DEF StoreInv, TypeOK, WrittenIsOnDisk, WritesAreCurrent, Acknowledged,
         WriteFails, Mutation
<1>3. ExposedIsOnDisk'
  BY DEF StoreInv, ExposedIsOnDisk, WritesAreCurrent, WriteFails
<1>4. FreshIsNowhere'
  BY DEF StoreInv, TypeOK, FreshIsNowhere, WritesAreCurrent, WriteFails
<1>5. LiveIsNewest'
  BY DEF StoreInv, TypeOK, LiveIsNewest, Acknowledged, WritesAreCurrent,
         MutexIsFresh, WriteFails
<1>6. WritesAreCurrent'
  BY DEF StoreInv, TypeOK, WritesAreCurrent, WriteFails
<1>7. MutexIsFresh'
  BY DEF StoreInv, MutexIsFresh, WriteFails
<1>8. DisposedIsDisarmed'
  BY DEF StoreInv, TypeOK, DisposedIsDisarmed, WriteFails, Reschedule,
         Disposed
<1>9. AcceptedNotForgotten'
  BY DEF StoreInv, TypeOK, AcceptedNotForgotten, WritesAreCurrent,
         Acknowledged, FreshIsNowhere, DisposedIsDisarmed, WriteFails,
         Reschedule, Disposed, PathOf, Paths
<1> QED
  BY <1>1, <1>2, <1>3, <1>4, <1>5, <1>6, <1>7, <1>8, <1>9 DEF StoreInv

\* dispose keeps the invariant: it disarms the timer and flushes instead.
LEMMA DisposeKeepsStoreInv ==
    ASSUME StoreInv, Dispose
    PROVE  StoreInv'
<1>1. TypeOK'
  <2>1. FlushCycle
    BY DEF Dispose
  <2>2. pending' \in BOOLEAN /\ writes' \subseteq Write /\ \A v, w \in writes' : v = w
    BY <2>1, FlushCycleType DEF StoreInv
  <2> QED
    BY <2>2 DEF StoreInv, TypeOK, Dispose
<1>2. WrittenIsOnDisk'
  BY DEF StoreInv, WrittenIsOnDisk, Dispose
<1>3. ExposedIsOnDisk'
  BY DEF StoreInv, ExposedIsOnDisk, Dispose
<1>4. FreshIsNowhere'
  BY DEF StoreInv, FreshIsNowhere, Dispose, FlushCycle
<1>5. LiveIsNewest'
  BY DEF StoreInv, LiveIsNewest, Acknowledged, Dispose
<1>6. WritesAreCurrent'
  BY DEF StoreInv, WritesAreCurrent, LiveIsNewest, Acknowledged, Dispose,
         FlushCycle
<1>7. MutexIsFresh'
  BY DEF StoreInv, MutexIsFresh, Dispose
<1>8. DisposedIsDisarmed'
  BY DEF DisposedIsDisarmed, Dispose, FlushCycle, Flushing
<1>9. AcceptedNotForgotten'
  <2>1. FlushCycle /\ live' = live /\ disk' = disk /\ mutex' = mutex
        /\ outcome' = outcome /\ failed' = failed
    BY DEF Dispose
  <2>2. (pending => timer \/ Flushing \/ disposal = "flushing")'
    BY <2>1, FlushCycleCovers DEF StoreInv, TypeOK, Flushing, Dispose
  <2>3. ASSUME NEW d \in live \ disk
        PROVE  \/ outcome[d] = "rejected"
               \/ pending'
               \/ mutex # None
               \/ \E w \in writes' : d \in w.content
               \/ \E p \in Paths : d \in failed[p]
    BY <2>1, FlushCycleCovers DEF StoreInv, AcceptedNotForgotten
  <2> QED
    BY <2>1, <2>2, <2>3 DEF AcceptedNotForgotten
<1> QED
  BY <1>1, <1>2, <1>3, <1>4, <1>5, <1>6, <1>7, <1>8, <1>9 DEF StoreInv

\* A turn of flush's loop keeps the invariant.
LEMMA DisposeResumesKeepsStoreInv ==
    ASSUME StoreInv, DisposeResumes
    PROVE  StoreInv'
<1>1. TypeOK'
  <2>1. FlushCycle
    BY DEF DisposeResumes
  <2>2. pending' \in BOOLEAN /\ writes' \subseteq Write /\ \A v, w \in writes' : v = w
    BY <2>1, FlushCycleType DEF StoreInv
  <2> QED
    BY <2>2 DEF StoreInv, TypeOK, DisposeResumes
<1>2. WrittenIsOnDisk'
  BY DEF StoreInv, WrittenIsOnDisk, DisposeResumes
<1>3. ExposedIsOnDisk'
  BY DEF StoreInv, ExposedIsOnDisk, DisposeResumes
<1>4. FreshIsNowhere'
  BY DEF StoreInv, FreshIsNowhere, DisposeResumes, FlushCycle
<1>5. LiveIsNewest'
  BY DEF StoreInv, LiveIsNewest, Acknowledged, DisposeResumes
<1>6. WritesAreCurrent'
  BY DEF StoreInv, WritesAreCurrent, LiveIsNewest, Acknowledged,
         DisposeResumes, FlushCycle
<1>7. MutexIsFresh'
  BY DEF MutexIsFresh, DisposeResumes
<1>8. DisposedIsDisarmed'
  BY DEF StoreInv, DisposedIsDisarmed, DisposeResumes, FlushCycle, Flushing,
         Disposed
<1>9. AcceptedNotForgotten'
  <2>1. FlushCycle /\ live' = live /\ disk' = disk /\ mutex' = mutex
        /\ outcome' = outcome /\ failed' = failed
    BY DEF DisposeResumes
  <2>2. (pending => timer \/ Flushing \/ disposal = "flushing")'
    BY <2>1, FlushCycleCovers DEF StoreInv, TypeOK, Flushing, DisposeResumes
  <2>3. ASSUME NEW d \in live \ disk
        PROVE  \/ outcome[d] = "rejected"
               \/ pending'
               \/ mutex # None
               \/ \E w \in writes' : d \in w.content
               \/ \E p \in Paths : d \in failed[p]
    BY <2>1, FlushCycleCovers DEF StoreInv, AcceptedNotForgotten
  <2> QED
    BY <2>1, <2>2, <2>3 DEF AcceptedNotForgotten
<1> QED
  BY <1>1, <1>2, <1>3, <1>4, <1>5, <1>6, <1>7, <1>8, <1>9 DEF StoreInv

\* A crash keeps the invariant: whichever file it leaves, memory equals it.
LEMMA RestartKeepsStoreInv ==
    ASSUME StoreInv, Restart
    PROVE  StoreInv'
<1>1. TypeOK'
  <2>1. disk' \subseteq Mutation
    BY DEF StoreInv, TypeOK, Restart, Write
  <2>2. faults' \in [failures : 0..MaxFailures, crashes : 0..MaxCrashes]
    BY BoundsType DEF StoreInv, TypeOK, Restart
  <2>3. outcome' \in [Mutation -> {"new", "accepted", "written", "rejected"}]
    BY DEF StoreInv, TypeOK, Restart
  <2>4. failed' \in [Paths -> SUBSET Mutation]
    BY DEF Restart
  <2> QED
    BY <2>1, <2>2, <2>3, <2>4 DEF TypeOK, Restart
<1>2. WrittenIsOnDisk'
  BY DEF StoreInv, WrittenIsOnDisk, WritesAreCurrent, Acknowledged, Restart,
         Mutation
<1>3. ExposedIsOnDisk'
  BY DEF ExposedIsOnDisk, Restart
<1>4. FreshIsNowhere'
  BY DEF StoreInv, FreshIsNowhere, WritesAreCurrent, Restart
<1>5. LiveIsNewest'
  BY DEF LiveIsNewest, Restart
<1>6. WritesAreCurrent'
  BY DEF WritesAreCurrent, Restart
<1>7. MutexIsFresh'
  BY DEF MutexIsFresh, Restart
<1>8. DisposedIsDisarmed'
  BY DEF DisposedIsDisarmed, Restart
<1>9. AcceptedNotForgotten'
  BY DEF AcceptedNotForgotten, Restart
<1> QED
  BY <1>1, <1>2, <1>3, <1>4, <1>5, <1>6, <1>7, <1>8, <1>9 DEF StoreInv

-----------------------------------------------------------------------------
\* Every step of the program keeps the invariant.
LEMMA StoreInvPreserved ==
    StoreInv /\ [Next]_vars => StoreInv'
<1> SUFFICES ASSUME StoreInv, [Next]_vars PROVE StoreInv'
  OBVIOUS
<1>1. ASSUME NEW m \in Debounced, Save(m) PROVE StoreInv'
  BY <1>1, SaveKeepsStoreInv
<1>2. ASSUME NEW m \in Durable, SaveNow(m) PROVE StoreInv'
  BY <1>2, SaveNowKeepsStoreInv
<1>3. ASSUME NEW m \in Durable, SaveNowRejected(m) PROVE StoreInv'
  BY <1>3, SaveNowRejectedKeepsStoreInv
<1>4. ASSUME NEW m \in Durable, SaveNowResumes(m) PROVE StoreInv'
  BY <1>4, SaveNowResumesKeepsStoreInv
<1>5. CASE TimerFires
  BY <1>5, TimerFiresKeepsStoreInv
<1>6. ASSUME NEW w \in writes, WriteEnds(w) PROVE StoreInv'
  BY <1>6, WriteEndsKeepsStoreInv
<1>7. ASSUME NEW w \in writes, WriteFails(w) PROVE StoreInv'
  BY <1>7, WriteFailsKeepsStoreInv
<1>8. CASE Dispose
  BY <1>8, DisposeKeepsStoreInv
<1>9. CASE DisposeResumes
  BY <1>9, DisposeResumesKeepsStoreInv
<1>10. CASE Restart
  BY <1>10, RestartKeepsStoreInv
<1>11. CASE UNCHANGED vars
  BY <1>11 DEF vars, StoreInv, TypeOK, WrittenIsOnDisk, ExposedIsOnDisk,
     FreshIsNowhere, LiveIsNewest, WritesAreCurrent, MutexIsFresh,
     DisposedIsDisarmed, AcceptedNotForgotten, Acknowledged, Disposed, Flushing
<1> QED
  BY <1>1, <1>2, <1>3, <1>4, <1>5, <1>6, <1>7, <1>8, <1>9, <1>10, <1>11
  DEF Next

\* The inductive invariant holds of the store, for any mutations, failures and
\* crashes.
THEOREM StoreInvCorrect == Spec => []StoreInv
  BY InitEstablishesStoreInv, StoreInvPreserved, PTL DEF Spec

\* The variables of the store keep their types, and it never has two writes of
\* state.json in progress.
THEOREM TypeCorrect == Spec => []TypeOK
<1>1. StoreInv => TypeOK
  BY DEF StoreInv
<1> QED
  BY <1>1, StoreInvCorrect, PTL

\* A durable transition that was acknowledged is on disk from then on, through
\* later flushes, failed writes and crashes.
THEOREM WrittenStaysOnDisk == Spec => []WrittenIsOnDisk
<1>1. StoreInv => WrittenIsOnDisk
  BY DEF StoreInv
<1> QED
  BY <1>1, StoreInvCorrect, PTL

\* Nobody sees a durable transition in memory before the file has it.
THEOREM NothingExposedEarly == Spec => []ExposedIsOnDisk
<1>1. StoreInv => ExposedIsOnDisk
  BY DEF StoreInv
<1> QED
  BY <1>1, StoreInvCorrect, PTL

\* An accepted commit always has somebody left to write it, unless a write of
\* it failed.
THEOREM NoCommitForgotten == Spec => []AcceptedNotForgotten
<1>1. StoreInv => AcceptedNotForgotten
  BY DEF StoreInv
<1> QED
  BY <1>1, StoreInvCorrect, PTL

\* When dispose has resolved, no timer and no flush owes a commit a write.
THEOREM ShutdownIsComplete == Spec => []ShutdownOwesNothing
<1>1. StoreInv => ShutdownOwesNothing
  <2> SUFFICES ASSUME StoreInv, disposal = "done" PROVE ShutdownOwesNothing
    BY DEF ShutdownOwesNothing
  <2>1. ~pending /\ ~timer /\ \A w \in writes : w.by # None
    BY DEF StoreInv, DisposedIsDisarmed, Disposed
  <2>2. ASSUME NEW m \in live \ disk
        PROVE  \/ outcome[m] = "rejected"
               \/ mutex # None
               \/ \E p \in Paths : m \in failed[p]
    <3>1. (\E w \in writes : m \in w.content) => mutex # None
      BY <2>1 DEF StoreInv, WritesAreCurrent
    <3> QED
      BY <2>1, <3>1 DEF StoreInv, AcceptedNotForgotten
  <2> QED
    BY <2>1, <2>2 DEF ShutdownOwesNothing
<1> QED
  BY <1>1, StoreInvCorrect, PTL

\* No step of the program takes an acknowledged mutation off the disk: only
\* ends of writes and crashes replace the file, and a write in progress holds
\* everything on it that was acknowledged.
THEOREM DiskOnlyGrows == Spec => DiskNeverRegresses
<1> DEFINE Kept == \A m \in disk :
                     outcome[m] \in {"accepted", "written"} => m \in disk'
<1>1. StoreInv /\ [Next]_vars => [Kept]_vars
  <2> SUFFICES ASSUME StoreInv, Next PROVE Kept
    BY DEF Kept
  <2>1. disk' = disk \/ \E w \in writes : disk' = w.content
    BY DEF Next, Save, SaveNow, SaveNowRejected, SaveNowResumes, TimerFires,
       WriteEnds, WriteFails, Dispose, DisposeResumes, Restart
  <2>2. ASSUME NEW w \in writes, NEW m \in disk, Acknowledged(m)
        PROVE  m \in w.content
    BY <2>2 DEF StoreInv, WritesAreCurrent
  <2> QED
    BY <2>1, <2>2 DEF Kept, Acknowledged
<1> QED
  BY <1>1, StoreInvCorrect, PTL DEF Spec, DiskNeverRegresses
=============================================================================
