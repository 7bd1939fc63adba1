------------------------- MODULE RuntimeQueueProofs -------------------------
(***************************************************************************)
(* Safety of the durable queue of a runtime session for any messages, any  *)
(* finite set of prompts and any number of archives, removals and faults,  *)
(* and that it implements DurableQueue.                                    *)
(***************************************************************************)
EXTENDS RuntimeQueue, FiniteSetTheorems, TLAPS

-----------------------------------------------------------------------------
(* Queues.                                                                 *)

\* Who waits in a queue that somebody joined.
LEMMA ContainsAppend ==
    ASSUME NEW S, NEW s \in Seq(S), NEW e \in S, NEW x
    PROVE  /\ Append(s, e) \in Seq(S)
           /\ Contains(Append(s, e), x) <=> Contains(s, x) \/ x = e
<1>1. /\ Append(s, e) \in Seq(S) /\ Len(Append(s, e)) = Len(s) + 1 /\ Len(s) \in Nat
      /\ \A i \in 1..Len(s) : Append(s, e)[i] = s[i]
      /\ Append(s, e)[Len(s) + 1] = e
  OBVIOUS
<1> QED
  BY <1>1 DEF Contains

\* Who waits in a queue whose head was served.
LEMMA ContainsTail ==
    ASSUME NEW S, NEW s \in Seq(S), s # <<>>, NEW x
    PROVE  /\ Tail(s) \in Seq(S)
           /\ Contains(s, x) /\ x # Head(s) => Contains(Tail(s), x)
           /\ Contains(Tail(s), x) => \E i \in 2..Len(s) : s[i] = x
<1>1. /\ Tail(s) \in Seq(S) /\ Len(s) \in Nat \ {0} /\ Len(Tail(s)) = Len(s) - 1
      /\ \A i \in 1..Len(s)-1 : Tail(s)[i] = s[i+1]
      /\ Head(s) = s[1]
  OBVIOUS
<1>2. ASSUME Contains(s, x), x # Head(s) PROVE Contains(Tail(s), x)
  <2>1. PICK i \in 1..Len(s) : s[i] = x
    BY <1>2 DEF Contains
  <2>2. i - 1 \in 1..Len(s)-1 /\ Tail(s)[i - 1] = x
    BY <1>1, <1>2, <2>1
  <2> QED
    BY <1>1, <2>2 DEF Contains
<1>3. ASSUME Contains(Tail(s), x) PROVE \E i \in 2..Len(s) : s[i] = x
  <2>1. PICK i \in 1..Len(s)-1 : Tail(s)[i] = x
    BY <1>1, <1>3 DEF Contains
  <2>2. i + 1 \in 2..Len(s) /\ s[i + 1] = x
    BY <1>1, <2>1
  <2> QED
    BY <2>2
<1> QED
  BY <1>1, <1>2, <1>3

\* The removal of the journal is the last of those who work on its messages.
RemoverIsLast(s) ==
    \A i, j \in DOMAIN s :
        i < j /\ s[i] = Remover => s[j] \notin Message \cup {Drain, Remover}

\* Who joins a queue keeps the removal last, if the removal is not there or is
\* outside its concern.
LEMMA LastAppend ==
    ASSUME NEW S, NEW s \in Seq(S), NEW e \in S, RemoverIsLast(s),
           ~Contains(s, Remover) \/ e \notin Message \cup {Drain, Remover}
    PROVE  RemoverIsLast(Append(s, e))
<1>1. /\ DOMAIN Append(s, e) = 1..Len(s)+1 /\ DOMAIN s = 1..Len(s) /\ Len(s) \in Nat
      /\ \A i \in 1..Len(s) : Append(s, e)[i] = s[i]
      /\ Append(s, e)[Len(s) + 1] = e
  OBVIOUS
<1> SUFFICES ASSUME NEW i \in 1..Len(s)+1, NEW j \in 1..Len(s)+1, i < j,
                    Append(s, e)[i] = Remover
             PROVE  Append(s, e)[j] \notin Message \cup {Drain, Remover}
  BY <1>1 DEF RemoverIsLast
<1>2. i \in 1..Len(s) /\ s[i] = Remover
  BY <1>1
<1>3. CASE j \in 1..Len(s)
  BY <1>1, <1>2, <1>3 DEF RemoverIsLast
<1>4. CASE j = Len(s) + 1
  BY <1>1, <1>2, <1>4 DEF Contains
<1> QED
  BY <1>1, <1>3, <1>4

\* Serving the head keeps the removal last.
LEMMA LastTail ==
    ASSUME NEW S, NEW s \in Seq(S), s # <<>>, RemoverIsLast(s)
    PROVE  RemoverIsLast(Tail(s))
<1>1. /\ DOMAIN Tail(s) = 1..Len(s)-1 /\ DOMAIN s = 1..Len(s) /\ Len(s) \in Nat
      /\ \A i \in 1..Len(s)-1 : Tail(s)[i] = s[i+1]
  OBVIOUS
<1> SUFFICES ASSUME NEW i \in 1..Len(s)-1, NEW j \in 1..Len(s)-1, i < j,
                    Tail(s)[i] = Remover
             PROVE  Tail(s)[j] \notin Message \cup {Drain, Remover}
  BY <1>1 DEF RemoverIsLast
<1>2. i+1 \in DOMAIN s /\ j+1 \in DOMAIN s /\ i+1 < j+1 /\ s[i+1] = Remover
  BY <1>1
<1>3. s[j+1] \notin Message \cup {Drain, Remover}
  BY <1>2 DEF RemoverIsLast
<1> QED
  BY <1>1, <1>3

\* When the removal is served, nobody is behind it whose work it would undo.
LEMMA LastServed ==
    ASSUME NEW S, NEW s \in Seq(S), s # <<>>, RemoverIsLast(s), Head(s) = Remover
    PROVE  /\ \A x \in Message \cup {Drain} : ~Contains(s, x)
           /\ ~Contains(Tail(s), Remover)
<1>1. 1 \in DOMAIN s /\ s[1] = Remover /\ DOMAIN s = 1..Len(s) /\ Len(s) \in Nat
  OBVIOUS
<1>2. \A j \in 2..Len(s) : s[j] \notin Message \cup {Drain, Remover}
  BY <1>1 DEF RemoverIsLast
<1>3. Remover \notin Message \cup {Drain}
  BY CallerAssumption DEF Remover, Drain, Archiver
<1>4. \A x \in Message \cup {Drain} : ~Contains(s, x)
  BY <1>1, <1>2, <1>3 DEF Contains
<1>5. ~Contains(Tail(s), Remover)
  BY <1>2, ContainsTail
<1> QED
  BY <1>4, <1>5

-----------------------------------------------------------------------------
(* What a step that leaves the removal alone has to show.                  *)

\* Callers of different kinds are different.
LEMMA Kinds ==
    /\ Drain \in Turner /\ Drain \notin Prompt /\ Drain \notin Message
    /\ \A p \in Prompt : p \in Turner /\ p # Drain
    /\ Nothing \notin Message /\ Remover \notin Message /\ Archiver \notin Message
    /\ Remover # Drain /\ Archiver # Drain /\ Remover # Archiver
    /\ Turner \subseteq Caller /\ Message \subseteq Caller
    /\ Remover \in Caller /\ Archiver \in Caller
    /\ \A p \in Prompt : p \notin Message /\ p # Remover /\ p # Archiver
BY CallerAssumption DEF Turner, Caller, Drain, Remover, Archiver

\* The types that the lemmas use most.
LEMMA TypeFacts ==
    ASSUME QueueInv
    PROVE  /\ items \in Seq(Message) /\ Len(items) <= Depth
           /\ generation \in Nat /\ activeTurns \in Nat
           /\ lockQueue \in Seq(Caller) /\ turnLease \in Seq(Turner)
           /\ pc \in [Turner -> Place] /\ epoch \in [Turner -> Nat]
           /\ sending \in [Message -> {"idle", "saving", "saved"}]
           /\ left \in [sends : 0 .. MaxSends, archives : 0 .. MaxArchives,
                        removes : 0 .. MaxRemoves, faults : 0 .. MaxFaults]
BY DEF QueueInv, TypeOK

\* There are finitely many turners to count.
LEMMA TurnersFinite == IsFiniteSet(Turner)
<1>1. IsFiniteSet(Prompt \cup {Drain})
  BY PromptFinite, FS_AddElement
<1> QED
  BY <1>1 DEF Turner

\* A turner other than the one that moves is where it was, or is the drain loop
\* and was kicked.
Follows(r) ==
    \/ pc'[r] = pc[r] /\ epoch'[r] = epoch[r]
    \/ /\ r = Drain /\ pc[r] = "off" /\ pc'[r] = "load"
       /\ epoch'[r] = generation /\ ~deleting

Kept == \A r \in Turner : Follows(r)
OthersFollow(q) == \A r \in Turner : r # q => Follows(r)

\* The lease is passed on by its holder only.
LEMMA LeaseKept ==
    ASSUME QueueInv, NEW q \in Turner, OthersFollow(q),
           \/ /\ \/ turnLease' = turnLease
                 \/ \E x \in Turner : turnLease' = Append(turnLease, x)
              /\ pc'[q] \in Leased => Holds(q, turnLease)
           \/ /\ turnLease' = Tail(turnLease) /\ Holds(q, turnLease)
              /\ pc'[q] \notin Leased
    PROVE  TurnsHoldTheLease'
<1>1. turnLease \in Seq(Turner) /\ TurnsHoldTheLease
  BY TypeFacts DEF QueueInv
<1> SUFFICES ASSUME NEW r \in Turner, pc'[r] \in Leased
             PROVE  Holds(r, turnLease)'
  BY DEF TurnsHoldTheLease
<1>2. r # q => pc[r] \in Leased /\ Holds(r, turnLease)
  BY <1>1 DEF OthersFollow, Follows, TurnsHoldTheLease, Leased
<1>3. CASE turnLease' = Tail(turnLease) /\ Holds(q, turnLease) /\ pc'[q] \notin Leased
  BY <1>2, <1>3 DEF Holds
<1>4. CASE /\ \/ turnLease' = turnLease
              \/ \E x \in Turner : turnLease' = Append(turnLease, x)
           /\ pc'[q] \in Leased => Holds(q, turnLease)
  <2>1. Holds(r, turnLease)
    BY <1>2, <1>4
  <2>2. CASE turnLease' = turnLease
    BY <2>1, <2>2 DEF Holds
  <2>3. ASSUME NEW x \in Turner, turnLease' = Append(turnLease, x)
        PROVE  Holds(r, turnLease)'
    <3>1. turnLease' # <<>> /\ Head(turnLease') = Head(turnLease)
      BY <1>1, <2>1, <2>3 DEF Holds
    <3> QED
      BY <2>1, <3>1 DEF Holds
  <2> QED
    BY <1>4, <2>2, <2>3
<1> QED
  BY <1>3, <1>4

\* The count follows the turner that moves.
LEMMA CountKept ==
    ASSUME QueueInv, NEW q \in Turner, OthersFollow(q), UNCHANGED removing,
           \/ activeTurns' = activeTurns /\ (pc'[q] \in Underway <=> pc[q] \in Underway)
           \/ activeTurns' = activeTurns + 1 /\ pc[q] \notin Underway /\ pc'[q] \in Underway
           \/ /\ activeTurns' = Decremented(activeTurns)
              /\ pc[q] \in Underway /\ pc'[q] \notin Underway
    PROVE  CountIsExact'
<1> SUFFICES ASSUME ~Removed PROVE activeTurns' = Cardinality(Counted')
  BY DEF CountIsExact, Removed
<1>1. IsFiniteSet(Counted) /\ Cardinality(Counted) \in Nat
  BY TurnersFinite, FS_Subset, FS_CardinalityType DEF Counted
<1>2. activeTurns = Cardinality(Counted)
  BY DEF QueueInv, CountIsExact
<1>3. \A r \in Turner : r # q => (r \in Counted' <=> r \in Counted)
  BY DEF OthersFollow, Follows, Counted, Underway
<1>4. CASE activeTurns' = activeTurns /\ (pc'[q] \in Underway <=> pc[q] \in Underway)
  <2>1. Counted' = Counted
    BY <1>3, <1>4 DEF Counted
  <2> QED
    BY <1>2, <1>4, <2>1
<1>5. CASE activeTurns' = activeTurns + 1 /\ pc[q] \notin Underway /\ pc'[q] \in Underway
  <2>1. Counted' = Counted \cup {q} /\ q \notin Counted
    BY <1>3, <1>5 DEF Counted
  <2> QED
    BY <1>1, <1>2, <1>5, <2>1, FS_AddElement
<1>6. CASE /\ activeTurns' = Decremented(activeTurns)
           /\ pc[q] \in Underway /\ pc'[q] \notin Underway
  <2>1. Counted' = Counted \ {q} /\ q \in Counted
    BY <1>3, <1>6 DEF Counted
  <2>2. Cardinality(Counted') = Cardinality(Counted) - 1
    BY <1>1, <2>1, FS_RemoveElement
  <2>3. Cardinality(Counted) # 0
    BY <1>1, <2>1, FS_EmptySet
  <2> QED
    BY <1>1, <1>2, <1>6, <2>2, <2>3 DEF Decremented
<1> QED
  BY <1>4, <1>5, <1>6

\* Nothing new begins under a removal, nor after it.
LEMMA GenerationsKept ==
    ASSUME QueueInv, NEW q \in Turner, OthersFollow(q),
           UNCHANGED <<deleting, generation, removing>>,
           epoch'[q] = epoch[q] \/ (epoch'[q] = generation /\ ~deleting),
           pc[q] \in {"off", "done"} /\ pc'[q] \notin {"off", "done"} => ~deleting,
           Removed /\ pc'[q] \in {"resume", "wait", "prepare", "acquire"} =>
              epoch'[q] # generation
    PROVE  GenerationsTell'
<1>1. GenerationsTell /\ generation \in Nat /\ epoch \in [Turner -> Nat]
  BY TypeFacts DEF QueueInv
<1>2. ASSUME NEW r \in Turner, r # q
      PROVE  /\ epoch'[r] <= generation'
             /\ deleting' /\ pc'[r] \notin {"off", "done"} => epoch'[r] # generation'
             /\ Removed' /\ pc'[r] \in {"resume", "wait", "prepare", "acquire"} =>
                   epoch'[r] # generation'
  <2>1. Follows(r)
    BY <1>2 DEF OthersFollow
  <2> QED
    BY <1>1, <2>1 DEF Follows, GenerationsTell, Removed
<1>3. /\ epoch'[q] <= generation'
      /\ deleting' /\ pc'[q] \notin {"off", "done"} => epoch'[q] # generation'
      /\ Removed' /\ pc'[q] \in {"resume", "wait", "prepare", "acquire"} =>
            epoch'[q] # generation'
  BY <1>1 DEF GenerationsTell, Removed
<1>4. deleting' <=> removing' \in {"delete", "release", "unlink", "drop"}
  BY <1>1 DEF GenerationsTell
<1> QED
  BY <1>2, <1>3, <1>4 DEF GenerationsTell

\* Whoever is counted is seen, before a removal has cleared the count.
LEMMA BusyIsCounted ==
    ASSUME QueueInv, Busy
    PROVE  ~Removed /\ HasActiveTurn
BY DEF QueueInv, TurnsHaveAWorker, TurnsAreCounted, Removed

\* Archives and removals see whoever is counted.
LEMMA CountedIsActive ==
    ASSUME QueueInv, ~Removed, NEW q \in Turner, pc[q] \in Underway
    PROVE  HasActiveTurn /\ activeTurns > 0
<1>1. IsFiniteSet(Counted) /\ Cardinality(Counted) \in Nat /\ q \in Counted
  BY TurnersFinite, FS_Subset, FS_CardinalityType DEF Counted
<1>2. Cardinality(Counted) # 0
  BY <1>1, FS_EmptySet
<1> QED
  BY <1>1, <1>2 DEF QueueInv, CountIsExact, HasActiveTurn

\* A turn that runs is in a count that is exact.
LEMMA CountSeesAll ==
    ASSUME CountIsExact', TurnsHaveAWorker'
    PROVE  TurnsAreCounted'
<1> SUFFICES ASSUME NEW q \in Turner, pc'[q] = "running"
             PROVE  activeTurns' > 0
  BY DEF TurnsAreCounted, Busy, HasActiveTurn
<1>1. activeTurns' = Cardinality(Counted')
  BY DEF TurnsHaveAWorker, Busy, CountIsExact, Removed
<1>2. IsFiniteSet(Counted') /\ Cardinality(Counted') \in Nat
  BY TurnersFinite, FS_Subset, FS_CardinalityType DEF Counted
<1>3. q \in Counted'
  BY DEF Counted, Underway
<1>4. Cardinality(Counted') # 0
  BY <1>2, <1>3, FS_EmptySet
<1> QED
  BY <1>1, <1>2, <1>4

\* The journal at most grows, and the drain loop stays where it is, or is kicked.
LEMMA HeadKept ==
    ASSUME QueueInv, Follows(Drain), UNCHANGED <<head, generation>>,
           items' = items \/ \E m \in Message : items' = Append(items, m)
    PROVE  RunsTheHead' /\ HeadIsRead'
<1>1. RunsTheHead /\ HeadIsRead /\ items \in Seq(Message)
  BY TypeFacts DEF QueueInv
<1>2. Pending => Pending' /\ Head(items') = Head(items)
  <2>1. ASSUME NEW m \in Message, items' = Append(items, m), items # <<>>
        PROVE  items' # <<>> /\ Head(items') = Head(items)
    BY <1>1, <2>1
  <2> QED
    BY <2>1 DEF Pending
<1> QED
  BY <1>1, <1>2 DEF Follows, RunsTheHead, HeadIsRead

\* The drain loop goes on with the head it has read.
LEMMA DrainMoves ==
    ASSUME QueueInv, UNCHANGED <<items, head, generation>>,
           epoch'[Drain] = epoch[Drain],
           \/ pc'[Drain] \in {"off", "load"}
           \/ /\ pc'[Drain] \in {"wait", "prepare", "acquire"} /\ head # Nothing
              /\ pc[Drain] \in {"admit", "wait", "prepare", "acquire"}
           \/ pc'[Drain] = "running" /\ pc[Drain] = "acquire" /\ epoch[Drain] = generation
           \/ pc'[Drain] = "dequeue" /\ pc[Drain] = "running"
    PROVE  RunsTheHead' /\ HeadIsRead'
BY DEF QueueInv, RunsTheHead, HeadIsRead, Pending

\* The lock of the store is left alone, joined, or handed on.
LEMMA LockKept ==
    ASSUME QueueInv, UNCHANGED <<lockQueue, removing, sending>>,
           pc'[Drain] = "dequeue" => pc[Drain] = "dequeue"
    PROVE  UnlinkedLast'
BY DEF QueueInv, UnlinkedLast, Unlinking, Removed

\* Somebody asks for the lock: no message, nor the drain loop, behind a removal.
LEMMA LockJoined ==
    ASSUME QueueInv, UNCHANGED removing, NEW e \in Caller, e # Remover,
           lockQueue' = Append(lockQueue, e),
           e \in Message \cup {Drain} => ~Unlinking,
           \A m \in Message :
              sending'[m] = "saving" => sending[m] = "saving" \/ (m = e /\ ~Removed),
           pc'[Drain] = "dequeue" => pc[Drain] = "dequeue" \/ e = Drain
    PROVE  UnlinkedLast'
<1>1. UnlinkedLast /\ lockQueue \in Seq(Caller)
  BY TypeFacts DEF QueueInv
<1>2. \A x : Contains(lockQueue', x) <=> Contains(lockQueue, x) \/ x = e
  BY <1>1, ContainsAppend
<1>3. RemoverIsLast(lockQueue)
  BY <1>1 DEF UnlinkedLast, RemoverIsLast
<1>4. ~Contains(lockQueue, Remover) \/ e \notin Message \cup {Drain, Remover}
  BY <1>1 DEF UnlinkedLast
<1>5. RemoverIsLast(lockQueue')
  BY <1>1, <1>3, <1>4, LastAppend
<1> QED
  BY <1>1, <1>2, <1>5 DEF UnlinkedLast, Unlinking, Removed, RemoverIsLast

\* The holder of the lock hands it on.
LEMMA LockLeft ==
    ASSUME QueueInv, UNCHANGED removing, NEW e, Holds(e, lockQueue),
           lockQueue' = Tail(lockQueue),
           \A m \in Message : sending'[m] = "saving" => sending[m] = "saving" /\ m # e,
           pc'[Drain] = "dequeue" => pc[Drain] = "dequeue" /\ e # Drain
    PROVE  UnlinkedLast'
<1>1. UnlinkedLast /\ lockQueue \in Seq(Caller) /\ lockQueue # <<>> /\ Head(lockQueue) = e
  BY TypeFacts DEF QueueInv, Holds
<1>2. \A x : Contains(lockQueue, x) /\ x # e => Contains(lockQueue', x)
  BY <1>1, ContainsTail
<1>3. Contains(lockQueue', Remover) => Contains(lockQueue, Remover)
  <2>1. Len(lockQueue) \in Nat
    BY <1>1
  <2> QED
    BY <1>1, <2>1, ContainsTail DEF Contains
<1>4. RemoverIsLast(lockQueue')
  BY <1>1, LastTail DEF UnlinkedLast, RemoverIsLast
<1> QED
  BY <1>1, <1>2, <1>3, <1>4 DEF UnlinkedLast, Unlinking, Removed, RemoverIsLast

\* The worker goes only where nobody runs, and no turn begins under a removal.
LEMMA WorkerKept ==
    ASSUME QueueInv, NEW q \in Turner, OthersFollow(q), UNCHANGED removing,
           \/ pc'[q] # "running"
           \/ worker' = "alive" /\ removing \notin {"unlink", "drop", "gone"},
           \/ worker' = worker \/ worker' = "alive"
           \/ \A r \in Turner : r # q => pc[r] # "running"
    PROVE  TurnsHaveAWorker'
<1>1. \A r \in Turner : r # q /\ pc'[r] = "running" => pc[r] = "running"
  BY DEF OthersFollow, Follows
<1>2. CASE \E r \in Turner : r # q /\ pc'[r] = "running"
  <2>1. Busy /\ ~(\A r \in Turner : r # q => pc[r] # "running")
    BY <1>1, <1>2 DEF Busy
  <2> QED
    BY <2>1 DEF QueueInv, TurnsHaveAWorker
<1>3. CASE ~\E r \in Turner : r # q /\ pc'[r] = "running"
  BY <1>3 DEF TurnsHaveAWorker, Busy
<1> QED
  BY <1>2, <1>3

\* Two turners do not hold the lease at once.
LEMMA OneHolder ==
    ASSUME QueueInv, NEW q \in Turner, Holds(q, turnLease), NEW r \in Turner, r # q
    PROVE  pc[r] \notin Leased
BY DEF QueueInv, TurnsHoldTheLease, Holds

\* A step of the turner q, in all that it has to show.
LEMMA TurnerKeeps ==
    ASSUME QueueInv, NEW q \in Turner, OthersFollow(q), TypeOK',
           UNCHANGED <<deleting, generation, removing>>,
           \* the lease
           \/ /\ \/ turnLease' = turnLease
                 \/ \E x \in Turner : turnLease' = Append(turnLease, x)
              /\ pc'[q] \in Leased => Holds(q, turnLease)
           \/ /\ turnLease' = Tail(turnLease) /\ Holds(q, turnLease)
              /\ pc'[q] \notin Leased,
           \* the count
           \/ activeTurns' = activeTurns /\ (pc'[q] \in Underway <=> pc[q] \in Underway)
           \/ activeTurns' = activeTurns + 1 /\ pc[q] \notin Underway /\ pc'[q] \in Underway
           \/ /\ activeTurns' = Decremented(activeTurns)
              /\ pc[q] \in Underway /\ pc'[q] \notin Underway,
           \* the generation
           epoch'[q] = epoch[q] \/ (epoch'[q] = generation /\ ~deleting),
           pc[q] \in {"off", "done"} /\ pc'[q] \notin {"off", "done"} => ~deleting,
           Removed /\ pc'[q] \in {"resume", "wait", "prepare", "acquire"} =>
              epoch'[q] # generation,
           RunsTheHead' /\ HeadIsRead', UnlinkedLast', TurnsHaveAWorker', RemovedIsEmpty'
    PROVE  QueueInv'
<1>1. TurnsHoldTheLease'
  BY LeaseKept
<1>2. CountIsExact'
  BY CountKept
<1>3. GenerationsTell'
  BY GenerationsKept
<1>4. TurnsAreCounted'
  BY <1>2, CountSeesAll
<1> QED
  BY <1>1, <1>2, <1>3, <1>4 DEF QueueInv

-----------------------------------------------------------------------------
(* One lemma per action.                                                   *)

\* The kick of the drain loop moves nothing else, and only from where it stands off.
LEMMA KickFollows ==
    ASSUME NEW p, p \in [Turner -> Place], epoch \in [Turner -> Nat], generation \in Nat
    PROVE  /\ Kicked(p) \in [Turner -> Place] /\ KickedEpoch(p) \in [Turner -> Nat]
           /\ \A r \in Turner :
                 \/ Kicked(p)[r] = p[r] /\ KickedEpoch(p)[r] = epoch[r]
                 \/ /\ r = Drain /\ p[r] = "off" /\ Kicked(p)[r] = "load"
                    /\ KickedEpoch(p)[r] = generation /\ ~deleting
BY Kinds DEF Kicked, KickedEpoch, Kicks, Place

\* What the bounds leave, after a fault and after a call.
Left == [sends : 0 .. MaxSends, archives : 0 .. MaxArchives,
         removes : 0 .. MaxRemoves, faults : 0 .. MaxFaults]

\* No bound is overdrawn, and a fault shows in what is left.
LEMMA LeftTyped ==
    ASSUME QueueInv
    PROVE  /\ left \in Left
           /\ \A kind : Fault(kind) => left' \in Left /\ left'.faults < left.faults
           /\ left.sends > 0 => [left EXCEPT !.sends = @ - 1] \in Left
           /\ left.archives > 0 => [left EXCEPT !.archives = @ - 1] \in Left
           /\ left.removes > 0 => [left EXCEPT !.removes = @ - 1] \in Left
<1>1. left \in Left
  BY TypeFacts DEF Left
<1>2. /\ left.sends \in 0 .. MaxSends /\ left.archives \in 0 .. MaxArchives
      /\ left.removes \in 0 .. MaxRemoves /\ left.faults \in 0 .. MaxFaults
  BY <1>1 DEF Left
<1>3. /\ MaxSends \in Nat /\ MaxArchives \in Nat /\ MaxRemoves \in Nat /\ MaxFaults \in Nat
  BY BoundAssumption
<1>4. ASSUME NEW kind, Fault(kind) PROVE left' \in Left /\ left'.faults < left.faults
  <2>1. left.faults - 1 \in 0 .. MaxFaults
    BY <1>2, <1>3, <1>4 DEF Fault
  <2> QED
    BY <1>1, <1>2, <1>3, <1>4, <2>1 DEF Fault, Left
<1>5. ASSUME left.sends > 0 PROVE [left EXCEPT !.sends = @ - 1] \in Left
  <2>1. left.sends - 1 \in 0 .. MaxSends
    BY <1>2, <1>3, <1>5
  <2> QED
    BY <1>1, <2>1 DEF Left
<1>6. ASSUME left.archives > 0 PROVE [left EXCEPT !.archives = @ - 1] \in Left
  <2>1. left.archives - 1 \in 0 .. MaxArchives
    BY <1>2, <1>3, <1>6
  <2> QED
    BY <1>1, <2>1 DEF Left
<1>7. ASSUME left.removes > 0 PROVE [left EXCEPT !.removes = @ - 1] \in Left
  <2>1. left.removes - 1 \in 0 .. MaxRemoves
    BY <1>2, <1>3, <1>7
  <2> QED
    BY <1>1, <2>1 DEF Left
<1> QED
  BY <1>1, <1>4, <1>5, <1>6, <1>7

\* What the sender of a message does before it waits for the lock.
LEMMA SendKeeps ==
    ASSUME QueueInv, NEW m \in Message, Send(m)
    PROVE  QueueInv'
<1>7. lockQueue' \in Seq(Caller) /\ sending' \in [Message -> {"idle", "saving", "saved"}]
  BY TypeFacts, Kinds DEF Send
<1>8. left' \in Left
  BY LeftTyped DEF Send
<1>1. TypeOK'
  BY <1>7, <1>8 DEF QueueInv, TypeOK, Left, Send, journal, memory, machine, turns
<1>2. OthersFollow(Drain) /\ Follows(Drain)
  BY DEF Send, turns, OthersFollow, Follows
<1>3. RunsTheHead' /\ HeadIsRead'
  BY <1>2, HeadKept DEF Send, turns, journal, memory
<1>4. ~Unlinking
  BY DEF QueueInv, GenerationsTell, Send, Unlinking
<1>5. UnlinkedLast'
  BY <1>4, LockJoined, Kinds, TypeFacts DEF Send, turns
<1>6. TurnsHaveAWorker' /\ RemovedIsEmpty'
  BY DEF QueueInv, Send, turns, journal, machine, TurnsHaveAWorker, Busy, RemovedIsEmpty, Removed, Pending
<1> QED
  BY <1>1, <1>2, <1>3, <1>5, <1>6, Kinds, TurnerKeeps
     DEF Send, turns, memory, QueueInv, GenerationsTell, TurnsHoldTheLease

\* The save, under the lock.
LEMMA SaveKeeps ==
    ASSUME QueueInv, NEW m \in Message, Save(m)
    PROVE  QueueInv'
<1>0. /\ sending[m] = "saving" /\ Holds(m, lockQueue) /\ lockQueue' = Tail(lockQueue)
      /\ UNCHANGED <<suspendedOnDisk, memory, turnLease, machine, turns, archiving, removing, archived>>
      /\ sending' \in {[sending EXCEPT ![m] = "idle"], [sending EXCEPT ![m] = "saved"]}
      /\ items' = items \/ (items' = Append(items, m) /\ Len(items) < Depth)
      /\ left' = left \/ Fault("write")
  BY DEF Save
<1>7. items' \in Seq(Message) /\ Len(items') <= Depth
  <2>1. CASE items' = items
    BY <2>1, TypeFacts
  <2>2. CASE items' = Append(items, m) /\ Len(items) < Depth
    <3>1. items \in Seq(Message) /\ Depth \in Nat
      BY TypeFacts, DepthAssumption
    <3> QED
      BY <2>2, <3>1
  <2> QED
    BY <1>0, <2>1, <2>2
<1>8. lockQueue' \in Seq(Caller)
  BY <1>0, TypeFacts DEF Holds
<1>9. left' \in Left
  BY <1>0, LeftTyped
<1>10. sending' \in [Message -> {"idle", "saving", "saved"}]
  BY <1>0, TypeFacts
<1>1. TypeOK'
  BY <1>0, <1>7, <1>8, <1>9, <1>10 DEF QueueInv, TypeOK, Left, memory, machine, turns
<1>2. OthersFollow(Drain) /\ Follows(Drain)
  BY <1>0 DEF turns, OthersFollow, Follows
<1>3. RunsTheHead' /\ HeadIsRead'
  BY <1>0, <1>2, HeadKept DEF turns, memory
<1>5. UnlinkedLast'
  BY <1>0, LockLeft, Kinds, TypeFacts DEF turns
<1>6. TurnsHaveAWorker' /\ RemovedIsEmpty'
  BY <1>0 DEF QueueInv, turns, machine, TurnsHaveAWorker, Busy, RemovedIsEmpty, Removed, Pending, UnlinkedLast
<1> QED
  BY <1>0, <1>1, <1>2, <1>3, <1>5, <1>6, Kinds, TurnerKeeps
     DEF turns, memory, QueueInv, GenerationsTell, TurnsHoldTheLease

\* The sender is answered and the drain loop kicked.
LEMMA AcknowledgeKeeps ==
    ASSUME QueueInv, NEW m \in Message, Acknowledge(m)
    PROVE  QueueInv'
<1>0. /\ pc' \in [Turner -> Place] /\ epoch' \in [Turner -> Nat] /\ Kept
  BY KickFollows, TypeFacts DEF Acknowledge, Kick, Kept, Follows
<1>1. TypeOK'
  BY <1>0 DEF QueueInv, TypeOK, Acknowledge, journal, memory, queues, machine
<1>2. OthersFollow(Drain) /\ Follows(Drain)
  BY <1>0, Kinds DEF Kept, OthersFollow
<1>3. RunsTheHead' /\ HeadIsRead'
  BY <1>2, HeadKept DEF Acknowledge, journal, memory
<1>5. UnlinkedLast'
  BY <1>2 DEF Acknowledge, queues, Follows, QueueInv, UnlinkedLast, Unlinking, Removed
<1>6. TurnsHaveAWorker' /\ RemovedIsEmpty'
  BY <1>0 DEF QueueInv, Acknowledge, Kept, Follows, journal, machine, TurnsHaveAWorker, Busy,
              RemovedIsEmpty, Removed, Pending
<1>7. pc'[Drain] \in Leased <=> pc[Drain] \in Leased
  BY <1>2 DEF Follows, Leased
<1>8. pc'[Drain] \in Underway <=> pc[Drain] \in Underway
  BY <1>2 DEF Follows, Underway
<1> QED
  BY <1>1, <1>2, <1>3, <1>5, <1>6, <1>7, <1>8, Kinds, TurnerKeeps
     DEF Acknowledge, queues, memory, QueueInv, GenerationsTell, TurnsHoldTheLease, Follows

\* A count stays a number.
LEMMA Counts ==
    ASSUME NEW n \in Nat
    PROVE  Decremented(n) \in Nat
BY DEF Decremented

\* Who joins a queue leaves it a queue.
LEMMA Joined ==
    ASSUME NEW S, NEW s \in Seq(S), NEW e \in S
    PROVE  Append(s, e) \in Seq(S)
OBVIOUS

\* Who hands on what he holds leaves a queue.
LEMMA Passed ==
    ASSUME NEW S, NEW s \in Seq(S), NEW e, Holds(e, s)
    PROVE  Tail(s) \in Seq(S)
BY DEF Holds

\* What is left when the drain loop gives its turn up.
LEMMA GivesUpFacts ==
    ASSUME QueueInv, NEW retry \in BOOLEAN, NEW w \in {"none", "alive"},
           Holds(Drain, turnLease), DrainGivesUp(retry, w)
    PROVE  /\ pc' = [pc EXCEPT ![Drain] = "off"] /\ pc' \in [Turner -> Place]
           /\ activeTurns' = Decremented(activeTurns) /\ activeTurns' \in Nat
           /\ turnLease' = Tail(turnLease) /\ turnLease' \in Seq(Turner)
           /\ coolPending' \in BOOLEAN /\ retryTimer' \in BOOLEAN
           /\ worker' \in {"none", w}
<1>1. /\ pc' = [pc EXCEPT ![Drain] = "off"] /\ activeTurns' = Decremented(activeTurns)
      /\ turnLease' = Tail(turnLease)
  BY DEF DrainGivesUp
<1>2. pc' \in [Turner -> Place] /\ activeTurns' \in Nat
  BY <1>1, TypeFacts, Counts DEF Place
<1>3. turnLease' \in Seq(Turner)
  BY <1>1, TypeFacts, Passed
<1>4. coolPending \in BOOLEAN /\ retryTimer \in BOOLEAN
  BY DEF QueueInv, TypeOK
<1>5. coolPending' \in BOOLEAN /\ retryTimer' \in BOOLEAN /\ worker' \in {"none", w}
  BY <1>4 DEF DrainGivesUp, ConsumeSuspendCool
<1> QED
  BY <1>1, <1>2, <1>3, <1>5

\* A prompt that moves on, with or without a kick of the drain loop.
LEMMA MovesOn ==
    ASSUME QueueInv, NEW p \in Turner, p # Drain, NEW place \in Place,
           \/ pc' = [pc EXCEPT ![p] = place] /\ epoch' = epoch
           \/ /\ pc' = Kicked([pc EXCEPT ![p] = place])
              /\ epoch' = KickedEpoch([pc EXCEPT ![p] = place])
    PROVE  /\ OthersFollow(p) /\ epoch'[p] = epoch[p] /\ pc'[p] = place
           /\ pc' \in [Turner -> Place] /\ epoch' \in [Turner -> Nat]
<1> DEFINE moved == [pc EXCEPT ![p] = place]
<1>1. /\ pc \in [Turner -> Place] /\ epoch \in [Turner -> Nat] /\ generation \in Nat
  BY TypeFacts
<1>2. moved \in [Turner -> Place]
  BY <1>1
<1>3. /\ pc' \in [Turner -> Place] /\ epoch' \in [Turner -> Nat]
      /\ \A r \in Turner :
            \/ pc'[r] = moved[r] /\ epoch'[r] = epoch[r]
            \/ /\ r = Drain /\ moved[r] = "off" /\ pc'[r] = "load"
               /\ epoch'[r] = generation /\ ~deleting
  <2>1. \/ pc' = moved /\ epoch' = epoch
        \/ pc' = Kicked(moved) /\ epoch' = KickedEpoch(moved)
    OBVIOUS
  <2> HIDE DEF moved
  <2> QED
    BY <1>1, <1>2, <2>1, KickFollows
<1>4. OthersFollow(p)
  BY <1>1, <1>3 DEF OthersFollow, Follows
<1> QED
  BY <1>1, <1>3, <1>4

\* What is left when a turn cannot be run.
LEMMA FailFacts ==
    ASSUME QueueInv, NEW q \in Turner, pc[q] \in {"prepare", "acquire"}, TurnFails(q)
    PROVE  /\ OthersFollow(q) /\ epoch'[q] = epoch[q]
           /\ pc' \in [Turner -> Place] /\ epoch' \in [Turner -> Nat]
           /\ activeTurns' \in Nat /\ turnLease' \in Seq(Turner)
           /\ coolPending' \in BOOLEAN /\ retryTimer' \in BOOLEAN
           /\ worker' \in {"none", worker}
           /\ q = Drain => /\ pc'[q] = "off" /\ activeTurns' = Decremented(activeTurns)
                           /\ turnLease' = Tail(turnLease)
           /\ q # Drain => /\ pc'[q] = "settle" /\ activeTurns' = activeTurns
                           /\ turnLease' = turnLease /\ worker' = worker
<1>1. /\ pc \in [Turner -> Place] /\ epoch \in [Turner -> Nat] /\ generation \in Nat
      /\ worker \in {"none", "alive"} /\ coolPending \in BOOLEAN /\ retryTimer \in BOOLEAN
      /\ activeTurns \in Nat /\ turnLease \in Seq(Turner)
  BY DEF QueueInv, TypeOK
<1>2. Holds(q, turnLease)
  BY DEF QueueInv, TurnsHoldTheLease, Leased
<1>3. CASE q = Drain
  <2>1. DrainGivesUp(TRUE, worker) /\ epoch' = epoch
    BY <1>3 DEF TurnFails
  <2>2. pc' = [pc EXCEPT ![Drain] = "off"]
    BY <1>1, <1>2, <1>3, <2>1, GivesUpFacts
  <2>3. OthersFollow(q) /\ pc'[q] = "off"
    BY <1>1, <1>3, <2>1, <2>2 DEF OthersFollow, Follows
  <2> QED
    BY <1>1, <1>2, <1>3, <2>1, <2>3, GivesUpFacts
<1>4. CASE q # Drain
  <2>1. UNCHANGED <<coolPending, activeTurns, turnLease, worker, retryTimer>>
    BY <1>4 DEF TurnFails
  <2>2. /\ OthersFollow(q) /\ epoch'[q] = epoch[q] /\ pc'[q] = "settle"
        /\ pc' \in [Turner -> Place] /\ epoch' \in [Turner -> Nat]
    BY <1>4, MovesOn DEF TurnFails, Place
  <2> QED
    BY <1>1, <1>4, <2>1, <2>2
<1> QED
  BY <1>3, <1>4

\* A turner that got the lease begins, or is found stale or held up.
LEMMA TakeLeaseKeeps ==
    ASSUME QueueInv, NEW q \in Turner, TakeLease(q)
    PROVE  QueueInv'
<1>0. /\ pc[q] = "wait" /\ Holds(q, turnLease)
      /\ UNCHANGED <<journal, queueSuspended, deleting, generation, lockQueue, epoch, head,
                     calls, archived, left>>
  BY DEF TakeLease
<1>1. \/ /\ pc' \in {[pc EXCEPT ![q] = "off"], [pc EXCEPT ![q] = "done"]}
         /\ q = Drain => pc' = [pc EXCEPT ![q] = "off"]
         /\ activeTurns' = Decremented(activeTurns) /\ turnLease' = Tail(turnLease)
      \/ /\ pc' = [pc EXCEPT ![q] = "prepare"] /\ ~Stale(q)
         /\ UNCHANGED <<activeTurns, turnLease>>
  BY DEF TakeLease, DrainGivesUp
<1>2. /\ pc \in [Turner -> Place] /\ epoch \in [Turner -> Nat]
      /\ activeTurns \in Nat /\ turnLease \in Seq(Turner)
  BY DEF QueueInv, TypeOK
<1>3. OthersFollow(q) /\ pc' \in [Turner -> Place]
  BY <1>0, <1>1, <1>2 DEF OthersFollow, Follows, Place
<1>4. activeTurns' \in Nat /\ turnLease' \in Seq(Turner)
  BY <1>0, <1>1, <1>2, Counts, Passed
<1>5. UNCHANGED idleTimer /\ coolPending' \in BOOLEAN /\ retryTimer' \in BOOLEAN /\ worker' \in {"none", worker}
  <2>1. coolPending \in BOOLEAN /\ retryTimer \in BOOLEAN
    BY DEF QueueInv, TypeOK
  <2> QED
    BY <2>1 DEF TakeLease, machine, DrainGivesUp, ConsumeSuspendCool
<1>6. TypeOK'
  BY <1>0, <1>3, <1>4, <1>5 DEF QueueInv, TypeOK, journal, calls
<1>7. RunsTheHead' /\ HeadIsRead'
  <2>1. CASE q = Drain
    BY <1>0, <1>1, <1>2, <2>1, DrainMoves DEF journal, QueueInv, HeadIsRead
  <2>2. CASE q # Drain
    BY <1>0, <1>3, <2>2, HeadKept, Kinds DEF journal, OthersFollow
  <2> QED
    BY <2>1, <2>2
<1>8. UnlinkedLast'
  <2>1. pc'[Drain] = "dequeue" => pc[Drain] = "dequeue"
    BY <1>1, <1>2, Kinds
  <2> QED
    BY <1>0, <2>1, LockKept DEF calls
<1>9. TurnsHaveAWorker'
  <2>1. \A r \in Turner : pc[r] # "running"
    BY <1>0 DEF QueueInv, TurnsHoldTheLease, Leased, Holds
  <2> QED
    BY <1>0, <1>1, <1>2, <1>3, <2>1 DEF OthersFollow, Follows, TurnsHaveAWorker, Busy
<1>10. RemovedIsEmpty'
  BY <1>0 DEF QueueInv, journal, calls, RemovedIsEmpty, Removed, Pending
<1>11. Removed /\ pc'[q] \in {"resume", "wait", "prepare", "acquire"} => epoch'[q] # generation
  BY <1>0 DEF QueueInv, GenerationsTell
<1> QED
  BY <1>0, <1>1, <1>2, <1>3, <1>6, <1>7, <1>8, <1>9, <1>10, <1>11, TurnerKeeps
     DEF Leased, Underway, calls

\* The checks before the worker is acquired.
LEMMA PrepareKeeps ==
    ASSUME QueueInv, NEW q \in Turner, Prepare(q)
    PROVE  QueueInv'
<1>0. /\ pc[q] = "prepare"
      /\ UNCHANGED <<journal, queueSuspended, deleting, generation, lockQueue, head,
                     calls, archived, left>>
  BY DEF Prepare
<1>1. Holds(q, turnLease)
  BY <1>0 DEF QueueInv, TurnsHoldTheLease, Leased
<1>2. /\ OthersFollow(q) /\ epoch'[q] = epoch[q]
      /\ pc' \in [Turner -> Place] /\ epoch' \in [Turner -> Nat]
      /\ activeTurns' \in Nat /\ turnLease' \in Seq(Turner)
      /\ coolPending' \in BOOLEAN /\ retryTimer' \in BOOLEAN /\ idleTimer' \in BOOLEAN
      /\ worker' \in {"none", worker}
      /\ \/ /\ q = Drain /\ pc'[q] = "off" /\ activeTurns' = Decremented(activeTurns)
            /\ turnLease' = Tail(turnLease)
         \/ /\ q # Drain /\ pc'[q] = "settle"
            /\ activeTurns' = activeTurns /\ turnLease' = turnLease
         \/ /\ pc'[q] = "acquire" /\ UNCHANGED <<activeTurns, turnLease>>
  <2>1. CASE TurnFails(q) /\ UNCHANGED idleTimer
    BY <1>0, <2>1, FailFacts DEF QueueInv, TypeOK
  <2>2. CASE /\ pc' = [pc EXCEPT ![q] = "acquire"]
             /\ idleTimer' = FALSE
             /\ UNCHANGED <<coolPending, activeTurns, turnLease, worker, retryTimer, epoch>>
    BY <2>2 DEF QueueInv, TypeOK, OthersFollow, Follows, Place
  <2> QED
    BY <2>1, <2>2 DEF Prepare
<1>3. TypeOK'
  BY <1>0, <1>2 DEF QueueInv, TypeOK, journal, calls
<1>7. RunsTheHead' /\ HeadIsRead'
  <2>1. CASE q = Drain
    BY <1>0, <1>2, <2>1, DrainMoves DEF journal, QueueInv, HeadIsRead
  <2>2. CASE q # Drain
    BY <1>0, <1>2, <2>2, HeadKept, Kinds DEF journal, OthersFollow
  <2> QED
    BY <2>1, <2>2
<1>8. UnlinkedLast'
  <2>1. pc'[Drain] = "dequeue" => pc[Drain] = "dequeue"
    BY <1>2, Kinds DEF OthersFollow, Follows
  <2> QED
    BY <1>0, <2>1, LockKept DEF calls
<1>9. TurnsHaveAWorker'
  <2>1. \A r \in Turner : pc[r] # "running"
    BY <1>0, <1>1, OneHolder DEF Leased
  <2> QED
    BY <1>0, <1>2, <2>1 DEF OthersFollow, Follows, TurnsHaveAWorker, Busy
<1>10. RemovedIsEmpty'
  BY <1>0 DEF QueueInv, journal, calls, RemovedIsEmpty, Removed, Pending
<1>11. Removed /\ pc'[q] \in {"resume", "wait", "prepare", "acquire"} => epoch'[q] # generation
  BY <1>0, <1>2 DEF QueueInv, GenerationsTell
<1> QED
  BY <1>0, <1>1, <1>2, <1>3, <1>7, <1>8, <1>9, <1>10, <1>11, TurnerKeeps
     DEF Leased, Underway, calls

\* The worker is there, or it could not be started.
LEMMA AcquireKeeps ==
    ASSUME QueueInv, NEW q \in Turner, Acquire(q)
    PROVE  QueueInv'
<1>0. /\ pc[q] = "acquire"
      /\ UNCHANGED <<journal, queueSuspended, deleting, generation, lockQueue, idleTimer, head,
                     calls, archived>>
  BY DEF Acquire
<1>1. Holds(q, turnLease)
  BY <1>0 DEF QueueInv, TurnsHoldTheLease, Leased
<1>12. left' \in Left
  BY LeftTyped DEF Acquire
<1>2. /\ OthersFollow(q) /\ epoch'[q] = epoch[q]
      /\ pc' \in [Turner -> Place] /\ epoch' \in [Turner -> Nat]
      /\ activeTurns' \in Nat /\ turnLease' \in Seq(Turner)
      /\ coolPending' \in BOOLEAN /\ retryTimer' \in BOOLEAN
      /\ worker' \in {"none", "alive"}
      /\ \/ /\ q = Drain /\ pc'[q] = "off" /\ activeTurns' = Decremented(activeTurns)
            /\ turnLease' = Tail(turnLease)
         \/ /\ q # Drain /\ pc'[q] = "settle"
            /\ activeTurns' = activeTurns /\ turnLease' = turnLease
         \/ /\ pc'[q] = "prepare" /\ UNCHANGED <<activeTurns, turnLease>>
         \/ /\ pc'[q] = "running" /\ ~Stale(q) /\ worker' = "alive"
            /\ UNCHANGED <<activeTurns, turnLease>>
  <2>1. CASE TurnFails(q)
    BY <1>0, <2>1, FailFacts DEF QueueInv, TypeOK
  <2>2. CASE /\ \/ pc' = [pc EXCEPT ![q] = "running"] /\ ~Stale(q) /\ worker' = "alive"
                \/ pc' = [pc EXCEPT ![q] = "prepare"] /\ worker' = "none"
             /\ UNCHANGED <<coolPending, activeTurns, turnLease, retryTimer, epoch, left>>
    BY <2>2 DEF QueueInv, TypeOK, OthersFollow, Follows, Place
  <2> QED
    BY <2>1, <2>2 DEF Acquire
<1>3. TypeOK'
  BY <1>0, <1>2, <1>12 DEF QueueInv, TypeOK, Left, journal, calls
<1>7. RunsTheHead' /\ HeadIsRead'
  <2>1. CASE q = Drain
    BY <1>0, <1>2, <2>1, DrainMoves DEF journal, QueueInv, HeadIsRead, Stale
  <2>2. CASE q # Drain
    BY <1>0, <1>2, <2>2, HeadKept, Kinds DEF journal, OthersFollow
  <2> QED
    BY <2>1, <2>2
<1>8. UnlinkedLast'
  <2>1. pc'[Drain] = "dequeue" => pc[Drain] = "dequeue"
    BY <1>2, Kinds DEF OthersFollow, Follows
  <2> QED
    BY <1>0, <2>1, LockKept DEF calls
<1>9. TurnsHaveAWorker'
  <2>1. \A r \in Turner : pc[r] # "running"
    BY <1>0, <1>1, OneHolder DEF Leased
  <2>2. pc'[q] = "running" => removing \notin {"unlink", "drop", "gone"}
    BY <1>0, <1>2 DEF QueueInv, GenerationsTell, Removed, Stale
  <2> QED
    BY <1>0, <1>2, <2>1, <2>2 DEF OthersFollow, Follows, TurnsHaveAWorker, Busy, calls
<1>10. RemovedIsEmpty'
  BY <1>0 DEF QueueInv, journal, calls, RemovedIsEmpty, Removed, Pending
<1>11. Removed /\ pc'[q] \in {"resume", "wait", "prepare", "acquire"} => epoch'[q] # generation
  BY <1>0, <1>2 DEF QueueInv, GenerationsTell
<1> QED
  BY <1>0, <1>1, <1>2, <1>3, <1>7, <1>8, <1>9, <1>10, <1>11, TurnerKeeps
     DEF Leased, Underway, calls

\* The worker answers a prompt, or dies.
LEMMA PromptTurnEndsKeeps ==
    ASSUME QueueInv, NEW p \in Prompt, PromptTurnEnds(p)
    PROVE  QueueInv'
<1>0. /\ pc[p] = "running"
      /\ UNCHANGED <<journal, memory, queues, idleTimer, retryTimer, head, calls, archived>>
      /\ worker' \in {"none", worker}
      /\ left' = left \/ Fault("turn")
      /\ p \in Turner /\ p # Drain
  BY Kinds DEF PromptTurnEnds
<1>1. Holds(p, turnLease)
  BY <1>0 DEF QueueInv, TurnsHoldTheLease, Leased
<1>12. left' \in Left
  BY <1>0, LeftTyped
<1>2. /\ OthersFollow(p) /\ epoch'[p] = epoch[p] /\ pc'[p] = "settle"
      /\ pc' \in [Turner -> Place] /\ epoch' \in [Turner -> Nat]
  BY <1>0, MovesOn DEF PromptTurnEnds, Place
<1>3. TypeOK'
  BY <1>0, <1>2, <1>12 DEF QueueInv, TypeOK, Left, journal, memory, queues, calls
<1>7. RunsTheHead' /\ HeadIsRead'
  BY <1>0, <1>2, HeadKept, Kinds DEF journal, memory, OthersFollow
<1>8. UnlinkedLast'
  <2>1. pc'[Drain] = "dequeue" => pc[Drain] = "dequeue"
    BY <1>0, <1>2, Kinds DEF OthersFollow, Follows
  <2> QED
    BY <1>0, <2>1, LockKept DEF calls, queues
<1>9. TurnsHaveAWorker'
  <2>1. \A r \in Turner : r # p => pc[r] # "running"
    BY <1>0, <1>1, OneHolder DEF Leased
  <2> QED
    BY <1>0, <1>2, <2>1 DEF OthersFollow, Follows, TurnsHaveAWorker, Busy
<1>10. RemovedIsEmpty'
  BY <1>0 DEF QueueInv, journal, calls, RemovedIsEmpty, Removed, Pending
<1> QED
  BY <1>0, <1>1, <1>2, <1>3, <1>7, <1>8, <1>9, <1>10, TurnerKeeps
     DEF Leased, Underway, calls, memory, queues

\* The finally block of a prompt.
LEMMA PromptSettlesKeeps ==
    ASSUME QueueInv, NEW p \in Prompt, PromptSettles(p) \/ PromptChecks(p)
    PROVE  QueueInv'
<1>0. /\ UNCHANGED <<journal, queueSuspended, coolPending, deleting, generation, queues,
                     machine, epoch, head, calls, archived, left>>
      /\ p \in Turner /\ p # Drain
  BY Kinds DEF PromptSettles, PromptChecks, memory
<1>1. /\ OthersFollow(p) /\ pc' \in [Turner -> Place] /\ activeTurns' \in Nat
      /\ pc[p] \in {"settle", "check"}
      /\ \/ /\ pc[p] = "settle" /\ pc'[p] = "check"
            /\ activeTurns' = Decremented(activeTurns)
         \/ /\ pc[p] = "check" /\ pc'[p] \in {"kick", "cool"} /\ activeTurns' = activeTurns
  <2>1. CASE PromptSettles(p)
    BY <1>0, <2>1, TypeFacts, Counts DEF PromptSettles, OthersFollow, Follows, Place
  <2>2. CASE PromptChecks(p)
    BY <1>0, <2>2, TypeFacts DEF PromptChecks, OthersFollow, Follows, Place, memory
  <2> QED
    BY <2>1, <2>2
<1>2. Holds(p, turnLease)
  BY <1>0, <1>1 DEF QueueInv, TurnsHoldTheLease, Leased
<1>3. TypeOK'
  BY <1>0, <1>1 DEF QueueInv, TypeOK, journal, queues, machine, calls
<1>7. RunsTheHead' /\ HeadIsRead'
  BY <1>0, <1>1, HeadKept, Kinds DEF journal, OthersFollow
<1>8. UnlinkedLast'
  <2>1. pc'[Drain] = "dequeue" => pc[Drain] = "dequeue"
    BY <1>0, <1>1, Kinds DEF OthersFollow, Follows
  <2> QED
    BY <1>0, <2>1, LockKept DEF calls, queues
<1>9. TurnsHaveAWorker'
  BY <1>0, <1>1, WorkerKept DEF calls, machine
<1>10. RemovedIsEmpty'
  BY <1>0 DEF QueueInv, journal, calls, RemovedIsEmpty, Removed, Pending
<1> QED
  BY <1>0, <1>1, <1>2, <1>3, <1>7, <1>8, <1>9, <1>10, TurnerKeeps
     DEF Leased, Underway, calls, queues

\* A prompt kicks the queue or lets the worker rest, and passes the lease on.
LEMMA PromptReturnsKeeps ==
    ASSUME QueueInv, NEW p \in Prompt, PromptReturns(p)
    PROVE  QueueInv'
<1>0. /\ pc[p] \in {"kick", "cool"} /\ turnLease' = Tail(turnLease)
      /\ UNCHANGED <<journal, queueSuspended, deleting, generation, activeTurns, lockQueue,
                     retryTimer, head, calls, archived, left>>
      /\ worker' \in {"none", worker}
      /\ p \in Turner /\ p # Drain
  BY Kinds DEF PromptReturns
<1>1. Holds(p, turnLease)
  BY <1>0 DEF QueueInv, TurnsHoldTheLease, Leased
<1>2. /\ OthersFollow(p) /\ epoch'[p] = epoch[p] /\ pc'[p] = "done"
      /\ pc' \in [Turner -> Place] /\ epoch' \in [Turner -> Nat]
  BY <1>0, MovesOn DEF PromptReturns, Place
<1>4. /\ coolPending' \in BOOLEAN /\ idleTimer' \in BOOLEAN
      /\ turnLease' \in Seq(Turner)
  <2>1. coolPending \in BOOLEAN /\ idleTimer \in BOOLEAN
    BY DEF QueueInv, TypeOK
  <2>2. coolPending' \in BOOLEAN /\ idleTimer' \in BOOLEAN
    BY <2>1 DEF PromptReturns
  <2>3. turnLease' \in Seq(Turner)
    BY <1>0, <1>1, TypeFacts, Passed
  <2> QED
    BY <2>2, <2>3
<1>3. TypeOK'
  BY <1>0, <1>2, <1>4 DEF QueueInv, TypeOK, journal, calls
<1>7. RunsTheHead' /\ HeadIsRead'
  BY <1>0, <1>2, HeadKept, Kinds DEF journal, OthersFollow
<1>8. UnlinkedLast'
  <2>1. pc'[Drain] = "dequeue" => pc[Drain] = "dequeue"
    BY <1>0, <1>2, Kinds DEF OthersFollow, Follows
  <2> QED
    BY <1>0, <2>1, LockKept DEF calls
<1>9. TurnsHaveAWorker'
  <2>1. \A r \in Turner : r # p => pc[r] # "running"
    BY <1>0, <1>1, OneHolder DEF Leased
  <2> QED
    BY <1>0, <1>2, <2>1 DEF OthersFollow, Follows, TurnsHaveAWorker, Busy
<1>10. RemovedIsEmpty'
  BY <1>0 DEF QueueInv, journal, calls, RemovedIsEmpty, Removed, Pending
<1> QED
  BY <1>0, <1>1, <1>2, <1>3, <1>7, <1>8, <1>9, <1>10, TurnerKeeps
     DEF Leased, Underway, calls

\* A prompt asks for the lock, to lift a suspension.
LEMMA PromptEntersKeeps ==
    ASSUME QueueInv, NEW p \in Prompt, PromptEnters(p)
    PROVE  QueueInv'
<1>0. /\ pc[p] = "off" /\ ~deleting /\ ~Removed
      /\ pc' = [pc EXCEPT ![p] = "resume"]
      /\ epoch' = [epoch EXCEPT ![p] = generation]
      /\ activeTurns' = activeTurns + 1
      /\ lockQueue' = Append(lockQueue, p)
      /\ UNCHANGED <<journal, queueSuspended, coolPending, deleting, generation, turnLease,
                     machine, head, calls, archived, left>>
      /\ p \in Turner /\ p # Drain /\ p \in Caller /\ p # Remover /\ p \notin Message
  BY Kinds DEF PromptEnters
<1>1. /\ OthersFollow(p) /\ pc' \in [Turner -> Place] /\ epoch' \in [Turner -> Nat]
      /\ pc'[p] = "resume" /\ epoch'[p] = generation
  BY <1>0, TypeFacts DEF OthersFollow, Follows, Place
<1>2. activeTurns' \in Nat /\ lockQueue' \in Seq(Caller)
  BY <1>0, TypeFacts
<1>3. TypeOK'
  BY <1>0, <1>1, <1>2 DEF QueueInv, TypeOK, journal, machine, calls
<1>7. RunsTheHead' /\ HeadIsRead'
  BY <1>0, <1>1, HeadKept, Kinds DEF journal, OthersFollow
<1>8. UnlinkedLast'
  <2>1. pc'[Drain] = "dequeue" => pc[Drain] = "dequeue"
    BY <1>0, <1>1, Kinds DEF OthersFollow, Follows
  <2> QED
    BY <1>0, <2>1, LockJoined DEF calls
<1>9. TurnsHaveAWorker'
  BY <1>0, <1>1, WorkerKept DEF calls, machine
<1>10. RemovedIsEmpty'
  BY <1>0 DEF QueueInv, journal, calls, RemovedIsEmpty, Removed, Pending
<1> QED
  BY <1>0, <1>1, <1>2, <1>3, <1>7, <1>8, <1>9, <1>10, TurnerKeeps
     DEF Leased, Underway, calls

\* It has lifted the suspension and waits for the lease, or gives up.
LEMMA PromptResumesKeeps ==
    ASSUME QueueInv, NEW p \in Prompt, PromptResumes(p)
    PROVE  QueueInv'
<1>0. /\ pc[p] = "resume" /\ Holds(p, lockQueue) /\ lockQueue' = Tail(lockQueue)
      /\ UNCHANGED <<items, coolPending, deleting, generation, machine, epoch, head, calls>>
      /\ left' = left \/ Fault("write")
      /\ \/ /\ turnLease' = Append(turnLease, p) /\ pc' = [pc EXCEPT ![p] = "wait"]
            /\ activeTurns' = activeTurns
         \/ /\ activeTurns' = Decremented(activeTurns) /\ pc' = [pc EXCEPT ![p] = "done"]
            /\ turnLease' = turnLease
      /\ p \in Turner /\ p # Drain /\ p \notin Message
  BY Kinds DEF PromptResumes
<1>1. /\ OthersFollow(p) /\ pc' \in [Turner -> Place] /\ epoch'[p] = epoch[p]
      /\ pc'[p] \in {"wait", "done"}
  BY <1>0, TypeFacts DEF OthersFollow, Follows, Place
<1>2. /\ activeTurns' \in Nat /\ turnLease' \in Seq(Turner) /\ lockQueue' \in Seq(Caller)
      /\ left' \in Left
  <2>1. activeTurns \in Nat /\ turnLease \in Seq(Turner) /\ lockQueue \in Seq(Caller)
    BY TypeFacts
  <2>2. activeTurns' \in Nat /\ turnLease' \in Seq(Turner)
    BY <1>0, <2>1, Counts, Joined
  <2>3. lockQueue' \in Seq(Caller)
    BY <1>0, <2>1, Passed
  <2> QED
    BY <1>0, <2>2, <2>3, LeftTyped
<1>4. suspendedOnDisk' \in BOOLEAN /\ queueSuspended' \in BOOLEAN /\ archived' \in BOOLEAN
  BY DEF QueueInv, TypeOK, PromptResumes
<1>3. TypeOK'
  BY <1>0, <1>1, <1>2, <1>4 DEF QueueInv, TypeOK, Left, machine, calls
<1>7. RunsTheHead' /\ HeadIsRead'
  BY <1>0, <1>1, HeadKept, Kinds DEF OthersFollow
<1>8. UnlinkedLast'
  <2>1. pc'[Drain] = "dequeue" => pc[Drain] = "dequeue"
    BY <1>0, <1>1, Kinds DEF OthersFollow, Follows
  <2> QED
    BY <1>0, <2>1, LockLeft DEF calls
<1>9. TurnsHaveAWorker'
  BY <1>0, <1>1, WorkerKept DEF calls, machine
<1>10. RemovedIsEmpty'
  BY <1>0 DEF QueueInv, calls, RemovedIsEmpty, Removed, Pending
<1>11. Removed => epoch'[p] # generation
  BY <1>0 DEF QueueInv, GenerationsTell
<1>12. \/ turnLease' = turnLease
       \/ \E x \in Turner : turnLease' = Append(turnLease, x)
  BY <1>0
<1>13. /\ pc'[p] \notin Leased /\ pc[p] \notin {"off", "done"}
       /\ \/ activeTurns' = activeTurns /\ (pc'[p] \in Underway <=> pc[p] \in Underway)
          \/ /\ activeTurns' = Decremented(activeTurns)
             /\ pc[p] \in Underway /\ pc'[p] \notin Underway
  BY <1>0, <1>1, TypeFacts DEF Leased, Underway
<1> QED
  BY <1>0, <1>1, <1>3, <1>7, <1>8, <1>9, <1>10, <1>11, <1>12, <1>13, TurnerKeeps DEF calls

\* The drain loop reads the head of the journal, and decides.
LEMMA LoadKeeps ==
    ASSUME QueueInv, Load
    PROVE  QueueInv'
<1>0. /\ pc[Drain] = "load" /\ pc' = [pc EXCEPT ![Drain] = "admit"]
      /\ UNCHANGED <<journal, memory, queues, machine, epoch, calls, archived, left>>
      /\ Drain \in Turner
  BY Kinds DEF Load
<1>1. OthersFollow(Drain) /\ pc' \in [Turner -> Place] /\ pc'[Drain] = "admit"
  BY <1>0, TypeFacts DEF OthersFollow, Follows, Place
<1>2. head' \in Message \cup {Nothing}
  BY TypeFacts DEF Load, Pending
<1>3. TypeOK'
  BY <1>0, <1>1, <1>2 DEF QueueInv, TypeOK, journal, memory, queues, machine, calls
<1>7. RunsTheHead' /\ HeadIsRead'
  BY <1>0, <1>1 DEF RunsTheHead, HeadIsRead, Load, Pending, journal
<1>8. UnlinkedLast'
  BY <1>0, <1>1, LockKept DEF calls, queues
<1>9. TurnsHaveAWorker'
  BY <1>0, <1>1, WorkerKept DEF calls, machine
<1>10. RemovedIsEmpty'
  BY <1>0 DEF QueueInv, journal, calls, RemovedIsEmpty, Removed, Pending
<1> QED
  BY <1>0, <1>1, <1>3, <1>7, <1>8, <1>9, <1>10, TurnerKeeps
     DEF Leased, Underway, calls, memory, queues

\* It joins the queue for the lease, or stops.
LEMMA AdmitKeeps ==
    ASSUME QueueInv, Admit
    PROVE  QueueInv'
<1>0. /\ pc[Drain] = "admit"
      /\ UNCHANGED <<journal, queueSuspended, coolPending, deleting, generation, lockQueue,
                     worker, retryTimer, epoch, head, calls, archived, left>>
      /\ \/ /\ pc' = [pc EXCEPT ![Drain] = "off"] /\ activeTurns' = activeTurns
            /\ turnLease' = turnLease
         \/ /\ pc' = [pc EXCEPT ![Drain] = "wait"] /\ activeTurns' = activeTurns + 1
            /\ turnLease' = Append(turnLease, Drain)
            /\ head # Nothing /\ ~Stale(Drain)
      /\ Drain \in Turner
  BY Kinds DEF Admit
<1>1. OthersFollow(Drain) /\ pc' \in [Turner -> Place] /\ pc'[Drain] \in {"off", "wait"}
  BY <1>0, TypeFacts DEF OthersFollow, Follows, Place
<1>2. activeTurns' \in Nat /\ turnLease' \in Seq(Turner)
  <2>1. activeTurns \in Nat /\ turnLease \in Seq(Turner)
    BY TypeFacts
  <2> QED
    BY <1>0, <2>1, Joined
<1>4. idleTimer' \in BOOLEAN
  BY DEF QueueInv, TypeOK, Admit
<1>3. TypeOK'
  BY <1>0, <1>1, <1>2, <1>4 DEF QueueInv, TypeOK, journal, calls
<1>7. RunsTheHead' /\ HeadIsRead'
  BY <1>0, <1>1, DrainMoves, TypeFacts DEF journal
<1>8. UnlinkedLast'
  BY <1>0, <1>1, LockKept DEF calls
<1>9. TurnsHaveAWorker'
  BY <1>0, <1>1, WorkerKept DEF calls
<1>10. RemovedIsEmpty'
  BY <1>0 DEF QueueInv, journal, calls, RemovedIsEmpty, Removed, Pending
<1>11. Removed /\ pc'[Drain] \in {"resume", "wait", "prepare", "acquire"} =>
          epoch'[Drain] # generation
  BY <1>0, <1>1 DEF QueueInv, RemovedIsEmpty, HeadIsRead, Pending, Stale
<1>12. \/ turnLease' = turnLease
       \/ \E x \in Turner : turnLease' = Append(turnLease, x)
  BY <1>0
<1>13. /\ pc'[Drain] \notin Leased /\ pc[Drain] \notin {"off", "done"}
       /\ \/ activeTurns' = activeTurns /\ (pc'[Drain] \in Underway <=> pc[Drain] \in Underway)
          \/ /\ activeTurns' = activeTurns + 1
             /\ pc[Drain] \notin Underway /\ pc'[Drain] \in Underway
  BY <1>0, <1>1, TypeFacts DEF Leased, Underway
<1> QED
  BY <1>0, <1>1, <1>3, <1>7, <1>8, <1>9, <1>10, <1>11, <1>12, <1>13, TurnerKeeps DEF calls

\* Its turn ends for certain, and it waits for the lock to remove the message.
LEMMA DrainTurnEndsKeeps ==
    ASSUME QueueInv, DrainTurnEnds
    PROVE  QueueInv'
<1>0. /\ pc[Drain] = "running" /\ pc' = [pc EXCEPT ![Drain] = "dequeue"]
      /\ activeTurns' = Decremented(activeTurns) /\ turnLease' = Tail(turnLease)
      /\ lockQueue' = Append(lockQueue, Drain)
      /\ UNCHANGED <<journal, queueSuspended, coolPending, deleting, generation, machine,
                     epoch, head, calls, archived, left>>
      /\ Drain \in Turner /\ Drain \in Caller /\ Drain # Remover /\ Drain \notin Message
  BY Kinds DEF DrainTurnEnds
<1>1. OthersFollow(Drain) /\ pc' \in [Turner -> Place] /\ pc'[Drain] = "dequeue"
  BY <1>0, TypeFacts DEF OthersFollow, Follows, Place
<1>2. Holds(Drain, turnLease)
  BY <1>0 DEF QueueInv, TurnsHoldTheLease, Leased
<1>4. activeTurns' \in Nat /\ turnLease' \in Seq(Turner) /\ lockQueue' \in Seq(Caller)
  BY <1>0, <1>2, TypeFacts, Counts, Passed
<1>3. TypeOK'
  BY <1>0, <1>1, <1>4 DEF QueueInv, TypeOK, journal, machine, calls
<1>7. RunsTheHead' /\ HeadIsRead'
  BY <1>0, <1>1, DrainMoves DEF journal
<1>8. UnlinkedLast'
  <2>1. ~Unlinking
    BY <1>0 DEF QueueInv, TurnsHaveAWorker, Busy, Unlinking
  <2> QED
    BY <1>0, <1>1, <2>1, LockJoined DEF calls
<1>9. TurnsHaveAWorker'
  BY <1>0, <1>1, WorkerKept DEF calls, machine
<1>10. RemovedIsEmpty'
  BY <1>0 DEF QueueInv, journal, calls, RemovedIsEmpty, Removed, Pending
<1> QED
  BY <1>0, <1>1, <1>2, <1>3, <1>7, <1>8, <1>9, <1>10, TurnerKeeps
     DEF Leased, Underway, calls

\* Its turn breaks off, and the message keeps its place.
LEMMA DrainTurnBreaksKeeps ==
    ASSUME QueueInv, DrainTurnBreaks
    PROVE  QueueInv'
<1>0. /\ pc[Drain] = "running"
      /\ UNCHANGED <<journal, queueSuspended, deleting, generation, lockQueue, idleTimer,
                     epoch, head, calls, archived>>
      /\ Drain \in Turner
  BY Kinds DEF DrainTurnBreaks
<1>2. Holds(Drain, turnLease)
  BY <1>0 DEF QueueInv, TurnsHoldTheLease, Leased
<1>4. PICK w \in {worker, "none"} : DrainGivesUp(TRUE, w)
  BY DEF DrainTurnBreaks
<1>5. w \in {"none", "alive"} /\ left' \in Left
  BY LeftTyped DEF QueueInv, TypeOK, DrainTurnBreaks
<1>6. /\ pc' = [pc EXCEPT ![Drain] = "off"] /\ pc' \in [Turner -> Place]
      /\ activeTurns' = Decremented(activeTurns) /\ activeTurns' \in Nat
      /\ turnLease' = Tail(turnLease) /\ turnLease' \in Seq(Turner)
      /\ coolPending' \in BOOLEAN /\ retryTimer' \in BOOLEAN
      /\ worker' \in {"none", w}
  BY <1>2, <1>4, <1>5, GivesUpFacts
<1>1. OthersFollow(Drain) /\ pc'[Drain] = "off"
  BY <1>0, <1>6, TypeFacts DEF OthersFollow, Follows
<1>3. TypeOK'
  BY <1>0, <1>5, <1>6 DEF QueueInv, TypeOK, Left, journal, calls
<1>7. RunsTheHead' /\ HeadIsRead'
  BY <1>0, <1>1, DrainMoves DEF journal
<1>8. UnlinkedLast'
  BY <1>0, <1>1, LockKept DEF calls
<1>9. TurnsHaveAWorker'
  <2>1. \A r \in Turner : r # Drain => pc[r] # "running"
    BY <1>0, <1>2, OneHolder DEF Leased
  <2> QED
    BY <1>0, <1>1, <2>1 DEF OthersFollow, Follows, TurnsHaveAWorker, Busy
<1>10. RemovedIsEmpty'
  BY <1>0 DEF QueueInv, journal, calls, RemovedIsEmpty, Removed, Pending
<1> QED
  BY <1>0, <1>1, <1>2, <1>3, <1>6, <1>7, <1>8, <1>9, <1>10, TurnerKeeps
     DEF Leased, Underway, calls

\* The message is removed, or the removal failed.
LEMMA DequeueKeeps ==
    ASSUME QueueInv, Dequeue
    PROVE  QueueInv'
<1>0. /\ pc[Drain] = "dequeue" /\ Holds(Drain, lockQueue) /\ lockQueue' = Tail(lockQueue)
      /\ UNCHANGED <<suspendedOnDisk, queueSuspended, deleting, generation, activeTurns,
                     turnLease, idleTimer, retryTimer, head, calls, archived>>
      /\ Drain \in Turner /\ Drain \notin Message /\ Drain # Remover
  BY Kinds DEF Dequeue
<1>1. /\ \/ pc' = [pc EXCEPT ![Drain] = "off"] /\ epoch' = epoch
         \/ /\ pc' = [pc EXCEPT ![Drain] = "load"] /\ ~deleting
            /\ epoch' = [epoch EXCEPT ![Drain] = generation]
      /\ items' = items \/ (items # <<>> /\ items' = Tail(items))
      /\ left' = left \/ Fault("write")
  BY DEF Dequeue, Pending
<1>2. /\ OthersFollow(Drain) /\ pc' \in [Turner -> Place] /\ epoch' \in [Turner -> Nat]
      /\ pc'[Drain] \in {"off", "load"}
      /\ epoch'[Drain] = epoch[Drain] \/ (epoch'[Drain] = generation /\ ~deleting)
  <2>1. pc \in [Turner -> Place] /\ epoch \in [Turner -> Nat] /\ generation \in Nat
    BY TypeFacts
  <2>2. CASE pc' = [pc EXCEPT ![Drain] = "off"] /\ epoch' = epoch
    BY <1>0, <2>1, <2>2 DEF OthersFollow, Follows, Place
  <2>3. CASE /\ pc' = [pc EXCEPT ![Drain] = "load"] /\ ~deleting
             /\ epoch' = [epoch EXCEPT ![Drain] = generation]
    <3>1. pc' \in [Turner -> Place] /\ epoch' \in [Turner -> Nat]
      BY <2>1, <2>3 DEF Place
    <3>2. OthersFollow(Drain)
      BY <2>1, <2>3 DEF OthersFollow, Follows
    <3>3. pc'[Drain] = "load" /\ epoch'[Drain] = generation
      BY <1>0, <2>1, <2>3
    <3> QED
      BY <2>3, <3>1, <3>2, <3>3
  <2> QED
    BY <1>1, <2>2, <2>3
<1>4. items' \in Seq(Message) /\ Len(items') <= Depth
  <2>1. items \in Seq(Message) /\ Len(items) <= Depth /\ Depth \in Nat
    BY TypeFacts, DepthAssumption
  <2>2. CASE items # <<>> /\ items' = Tail(items)
    BY <2>1, <2>2
  <2> QED
    BY <1>1, <2>1, <2>2
<1>5. lockQueue' \in Seq(Caller) /\ left' \in Left
  BY <1>0, <1>1, TypeFacts, Passed, LeftTyped
<1>6. coolPending' \in BOOLEAN /\ worker' \in {"none", worker}
      /\ (worker' = worker \/ activeTurns = 0)
  <2>1. coolPending \in BOOLEAN /\ activeTurns \in Nat
    BY DEF QueueInv, TypeOK
  <2> QED
    BY <2>1 DEF Dequeue, ConsumeSuspendCool
<1>3. TypeOK'
  BY <1>0, <1>2, <1>4, <1>5, <1>6 DEF QueueInv, TypeOK, Left, calls
<1>7. RunsTheHead' /\ HeadIsRead'
  BY <1>2 DEF RunsTheHead, HeadIsRead
<1>8. UnlinkedLast'
  BY <1>0, <1>2, LockLeft DEF calls
<1>9. TurnsHaveAWorker'
  <2>1. activeTurns = 0 => \A r \in Turner : pc[r] # "running"
    BY DEF QueueInv, TurnsAreCounted, HasActiveTurn, Busy
  <2> QED
    BY <1>0, <1>2, <1>6, <2>1, WorkerKept DEF calls
<1>10. RemovedIsEmpty'
  BY <1>0, <1>1 DEF QueueInv, calls, RemovedIsEmpty, Removed, Pending
<1> QED
  BY <1>0, <1>2, <1>3, <1>7, <1>8, <1>9, <1>10, TurnerKeeps
     DEF Leased, Underway, calls

\* A step outside the turns, which at most kicks the drain loop and stops a
\* worker nobody uses.
LEMMA OutsideKeeps ==
    ASSUME QueueInv, TypeOK', Kept, UnlinkedLast',
           UNCHANGED <<items, deleting, generation, activeTurns, turnLease, head, removing>>,
           worker' = worker \/ ~Busy
    PROVE  QueueInv'
<1>1. Drain \in Turner /\ OthersFollow(Drain) /\ Follows(Drain)
  BY Kinds DEF Kept, OthersFollow
<1>2. RunsTheHead' /\ HeadIsRead'
  BY <1>1, HeadKept
<1>3. TurnsHaveAWorker'
  <2>1. Busy' => Busy
    BY DEF Kept, Follows, Busy
  <2> QED
    BY <2>1 DEF QueueInv, TurnsHaveAWorker
<1>4. RemovedIsEmpty'
  BY DEF QueueInv, RemovedIsEmpty, Removed, Pending
<1>5. pc'[Drain] \in Leased <=> pc[Drain] \in Leased
  BY <1>1 DEF Follows, Leased
<1>6. pc'[Drain] \in Underway <=> pc[Drain] \in Underway
  BY <1>1 DEF Follows, Underway
<1>7. pc'[Drain] \in Leased => Holds(Drain, turnLease)
  BY <1>1, <1>5 DEF QueueInv, TurnsHoldTheLease
<1>8. /\ epoch'[Drain] = epoch[Drain] \/ (epoch'[Drain] = generation /\ ~deleting)
      /\ pc[Drain] \in {"off", "done"} /\ pc'[Drain] \notin {"off", "done"} => ~deleting
      /\ Removed /\ pc'[Drain] \in {"resume", "wait", "prepare", "acquire"} =>
            epoch'[Drain] # generation
  BY <1>1 DEF Follows, QueueInv, GenerationsTell
<1> QED
  BY <1>1, <1>2, <1>3, <1>4, <1>6, <1>7, <1>8, TurnerKeeps

\* The retry timer and the idle timer.
LEMMA TimerKeeps ==
    ASSUME QueueInv, RetryTimerFires \/ IdleTimerFires
    PROVE  QueueInv'
<1>0. UNCHANGED <<journal, memory, queues, head, calls, archived, left>>
  BY DEF RetryTimerFires, IdleTimerFires
<1>1. Kick \/ UNCHANGED <<pc, epoch>>
  BY DEF RetryTimerFires, IdleTimerFires
<1>2. /\ pc' \in [Turner -> Place] /\ epoch' \in [Turner -> Nat] /\ Kept
  <2>1. CASE Kick
    BY <2>1, KickFollows, TypeFacts DEF Kick, Kept, Follows
  <2>2. CASE UNCHANGED <<pc, epoch>>
    BY <2>2, TypeFacts DEF Kept, Follows
  <2> QED
    BY <1>1, <2>1, <2>2
<1>3. /\ idleTimer' \in BOOLEAN /\ retryTimer' \in BOOLEAN /\ worker' \in {"none", "alive"}
      /\ worker' = worker \/ ~Busy
  BY DEF QueueInv, TypeOK, RetryTimerFires, IdleTimerFires
<1>4. TypeOK'
  BY <1>0, <1>2, <1>3 DEF QueueInv, TypeOK, journal, memory, queues, calls
<1>5. UnlinkedLast'
  <2>1. pc'[Drain] = "dequeue" => pc[Drain] = "dequeue"
    BY <1>2, Kinds DEF Kept, Follows
  <2> QED
    BY <1>0, <2>1, LockKept DEF calls, queues
<1> QED
  BY <1>0, <1>2, <1>3, <1>4, <1>5, OutsideKeeps DEF journal, memory, queues, calls

\* An archive asks for the lock, if there is anything to suspend.
LEMMA ArchiveBeginsKeeps ==
    ASSUME QueueInv, ArchiveBegins
    PROVE  QueueInv'
<1>0. /\ UNCHANGED <<journal, memory, turnLease, worker, retryTimer, turns, sending, removing,
                     archived>>
      /\ lockQueue' \in {lockQueue, Append(lockQueue, Archiver)}
      /\ archiving' \in {"suspending", "freeing"} /\ idleTimer' \in BOOLEAN
  BY DEF ArchiveBegins
<1>1. lockQueue' \in Seq(Caller)
  <2>1. lockQueue \in Seq(Caller) /\ Archiver \in Caller
    BY TypeFacts, Kinds
  <2>2. Append(lockQueue, Archiver) \in Seq(Caller)
    BY <2>1, Joined
  <2> QED
    BY <1>0, <2>1, <2>2
<1>2. left' \in Left
  BY LeftTyped DEF ArchiveBegins
<1>3. TypeOK'
  BY <1>0, <1>1, <1>2 DEF QueueInv, TypeOK, Left, journal, memory, turns
<1>4. UnlinkedLast'
  BY <1>0, LockKept, LockJoined, Kinds DEF turns
<1> QED
  BY <1>0, <1>3, <1>4, OutsideKeeps DEF journal, memory, turns, Kept, Follows

\* The suspension is on disk and in memory, or the write failed.
LEMMA ArchiveSuspendsKeeps ==
    ASSUME QueueInv, ArchiveSuspends
    PROVE  QueueInv'
<1>0. /\ Holds(Archiver, lockQueue) /\ lockQueue' = Tail(lockQueue)
      /\ UNCHANGED <<items, coolPending, deleting, generation, activeTurns, turnLease, machine,
                     turns, sending, removing>>
      /\ left' = left \/ Fault("write")
      /\ archiving' \in {"off", "freeing"}
  BY DEF ArchiveSuspends
<1>1. lockQueue' \in Seq(Caller)
  BY <1>0, TypeFacts, Passed
<1>2. left' \in Left
  BY <1>0, LeftTyped
<1>5. suspendedOnDisk' \in BOOLEAN /\ archived' \in BOOLEAN /\ queueSuspended' \in BOOLEAN
  BY DEF ArchiveSuspends, QueueInv, TypeOK
<1>3. TypeOK'
  BY <1>0, <1>1, <1>2, <1>5 DEF QueueInv, TypeOK, Left, machine, turns
<1>4. UnlinkedLast'
  BY <1>0, LockLeft, Kinds DEF turns
<1> QED
  BY <1>0, <1>3, <1>4, OutsideKeeps DEF machine, turns, Kept, Follows

\* The worker is stopped, if nobody is counted.
LEMMA ArchiveFreesKeeps ==
    ASSUME QueueInv, ArchiveFrees
    PROVE  QueueInv'
<1>0. /\ UNCHANGED <<journal, queueSuspended, deleting, generation, activeTurns, queues,
                     idleTimer, retryTimer, turns, sending, removing, archived, left>>
      /\ archiving' = "off" /\ worker' \in {"none", worker}
      /\ worker' = worker \/ ~HasActiveTurn
  BY DEF ArchiveFrees
<1>1. coolPending' \in BOOLEAN
  BY DEF QueueInv, TypeOK, ArchiveFrees
<1>2. worker' = worker \/ ~Busy
  BY <1>0 DEF QueueInv, TurnsAreCounted
<1>3. TypeOK'
  BY <1>0, <1>1 DEF QueueInv, TypeOK, journal, queues, turns
<1>4. UnlinkedLast'
  BY <1>0, LockKept DEF turns, queues
<1> QED
  BY <1>0, <1>2, <1>3, <1>4, OutsideKeeps DEF journal, queues, turns, Kept, Follows

\* A removal marks everything that began before it.
LEMMA RemoveBeginsKeeps ==
    ASSUME QueueInv, NEW kind \in {"delete", "release"}, RemoveBegins(kind)
    PROVE  QueueInv'
<1>0. /\ removing = "off" /\ removing' = kind /\ deleting' = TRUE
      /\ generation' = generation + 1 /\ left.removes > 0
      /\ left' = [left EXCEPT !.removes = @ - 1]
      /\ UNCHANGED <<journal, queueSuspended, coolPending, activeTurns, queues, machine, turns,
                     sending, archiving, archived>>
  BY DEF RemoveBegins
<1>1. left' \in Left /\ generation' \in Nat
  BY <1>0, LeftTyped, TypeFacts
<1>2. \A r \in Turner : epoch[r] <= generation /\ epoch[r] \in Nat /\ generation \in Nat
  BY TypeFacts DEF QueueInv, GenerationsTell
<1>3. \A r \in Turner : epoch[r] <= generation' /\ epoch[r] # generation'
  BY <1>0, <1>2
<1>4. TypeOK'
  BY <1>0, <1>1 DEF QueueInv, TypeOK, Left, journal, queues, machine, turns
<1>5. GenerationsTell'
  BY <1>0, <1>3 DEF GenerationsTell, turns
<1>6. RunsTheHead' /\ HeadIsRead'
  BY <1>0, <1>3, Kinds DEF QueueInv, RunsTheHead, HeadIsRead, Pending, journal, turns
<1>7. TurnsAreCounted' /\ RemovedIsEmpty' /\ TurnsHoldTheLease' /\ CountIsExact'
  BY <1>0 DEF QueueInv, TurnsAreCounted, Busy, HasActiveTurn, RemovedIsEmpty, Removed,
              TurnsHoldTheLease, CountIsExact, Counted, turns, queues, Holds
<1>8. TurnsHaveAWorker'
  BY <1>0 DEF QueueInv, TurnsHaveAWorker, Busy, turns, machine
<1>9. UnlinkedLast'
  BY <1>0 DEF QueueInv, UnlinkedLast, Unlinking, Removed, turns, queues
<1> QED
  BY <1>4, <1>5, <1>6, <1>7, <1>8, <1>9 DEF QueueInv

\* The worker is stopped where no turn is under way.
LEMMA RemoveQuiescesKeeps ==
    ASSUME QueueInv, RemoveQuiesces
    PROVE  QueueInv'
<1>0. /\ removing \in {"delete", "release"} /\ removing' \in {"unlink", "drop"}
      /\ ~HasActiveTurn \/ worker = "none"
      /\ worker' = "none" /\ lockQueue' = Append(lockQueue, Remover)
      /\ \/ activeTurns' = 0 /\ coolPending' = FALSE /\ ~HasActiveTurn
         \/ activeTurns' = activeTurns /\ coolPending' = coolPending
      /\ UNCHANGED <<journal, queueSuspended, deleting, generation, turnLease, idleTimer,
                     retryTimer, turns, sending, archiving, archived, left>>
  BY DEF RemoveQuiesces
<1>1. /\ lockQueue \in Seq(Caller) /\ Remover \in Caller /\ activeTurns \in Nat
      /\ UnlinkedLast
  BY TypeFacts, Kinds DEF QueueInv
<1>2. lockQueue' \in Seq(Caller)
  BY <1>0, <1>1, Joined
<1>3. ~Busy
  BY <1>0 DEF QueueInv, TurnsAreCounted, TurnsHaveAWorker
<1>4. activeTurns' = activeTurns
  BY <1>0, <1>1 DEF HasActiveTurn
<1>5. TypeOK'
  <2>1. coolPending' \in BOOLEAN /\ removing' \in {"off", "delete", "release", "unlink", "drop", "gone"}
    BY <1>0 DEF QueueInv, TypeOK
  <2> QED
    BY <1>0, <1>2, <1>4, <2>1 DEF QueueInv, TypeOK, journal, turns
<1>6. GenerationsTell'
  BY <1>0 DEF QueueInv, GenerationsTell, Removed, turns
<1>7. RunsTheHead' /\ HeadIsRead'
  BY <1>0 DEF QueueInv, RunsTheHead, HeadIsRead, Pending, journal, turns
<1>8. RemovedIsEmpty' /\ TurnsHoldTheLease' /\ CountIsExact'
  BY <1>0, <1>4 DEF QueueInv, RemovedIsEmpty, Removed,
                    TurnsHoldTheLease, CountIsExact, Counted, turns, Holds
<1>9. TurnsHaveAWorker' /\ TurnsAreCounted'
  BY <1>0, <1>3 DEF TurnsHaveAWorker, TurnsAreCounted, Busy, turns
<1>10. UnlinkedLast'
  <2>1. ~Contains(lockQueue, Remover)
    BY <1>0, <1>1 DEF UnlinkedLast, Unlinking
  <2>2. RemoverIsLast(lockQueue')
    BY <1>0, <1>1, <2>1, LastAppend DEF UnlinkedLast, RemoverIsLast
  <2>3. \A x : Contains(lockQueue', x) <=> Contains(lockQueue, x) \/ x = Remover
    BY <1>0, <1>1, ContainsAppend
  <2> QED
    BY <1>0, <1>1, <2>2, <2>3 DEF UnlinkedLast, RemoverIsLast, Unlinking, Removed, turns
<1> QED
  BY <1>5, <1>6, <1>7, <1>8, <1>9, <1>10 DEF QueueInv

\* The journal is removed, after everyone who works on its messages.
LEMMA RemoveUnlinksKeeps ==
    ASSUME QueueInv, RemoveUnlinks
    PROVE  QueueInv'
<1>0. /\ Unlinking /\ Holds(Remover, lockQueue)
      /\ lockQueue' = Tail(lockQueue)
      /\ items' = <<>> /\ suspendedOnDisk' = FALSE
      /\ deleting' = FALSE /\ queueSuspended' = FALSE /\ archived' = FALSE
      /\ removing' = "gone"
      /\ UNCHANGED <<generation, turnLease, worker, retryTimer, turns, sending, archiving, left>>
  BY DEF RemoveUnlinks, Unlinking
<1>1. /\ lockQueue \in Seq(Caller) /\ lockQueue # <<>> /\ Head(lockQueue) = Remover
      /\ UnlinkedLast /\ RemoverIsLast(lockQueue) /\ activeTurns \in Nat
  BY <1>0, TypeFacts DEF QueueInv, Holds, UnlinkedLast, RemoverIsLast
<1>2. /\ \A x \in Message \cup {Drain} : ~Contains(lockQueue, x)
      /\ ~Contains(lockQueue', Remover)
  BY <1>0, <1>1, LastServed
<1>3. (\A m \in Message : sending[m] # "saving") /\ pc[Drain] # "dequeue"
  BY <1>1, <1>2 DEF UnlinkedLast
<1>4. ~Busy /\ Drain \in Turner
  BY <1>0, Kinds DEF QueueInv, TurnsHaveAWorker, Unlinking
<1>5. /\ activeTurns' \in Nat /\ coolPending' \in BOOLEAN /\ idleTimer' \in BOOLEAN
  <2>1. coolPending \in BOOLEAN /\ idleTimer \in BOOLEAN
    BY DEF QueueInv, TypeOK
  <2>2. CASE removing = "drop"
    <3>1. activeTurns' = 0 /\ coolPending' = FALSE /\ idleTimer' = FALSE
      BY <2>2 DEF RemoveUnlinks
    <3> QED
      BY <3>1
  <2>3. CASE removing # "drop"
    BY <1>1, <2>1, <2>3 DEF RemoveUnlinks
  <2> QED
    BY <2>2, <2>3
<1>6. lockQueue' \in Seq(Caller)
  BY <1>0, <1>1, Passed
<1>7. TypeOK'
  <2>1. items' \in Seq(Message) /\ Len(items') <= Depth
    BY <1>0, DepthAssumption
  <2> QED
    BY <1>0, <1>5, <1>6, <2>1 DEF QueueInv, TypeOK, turns
<1>8. GenerationsTell'
  <2>1. deleting /\ \A q \in Turner : epoch[q] <= generation
    BY <1>0 DEF QueueInv, GenerationsTell, Unlinking
  <2>2. \A q \in Turner : pc[q] \notin {"off", "done"} => epoch[q] # generation
    BY <2>1 DEF QueueInv, GenerationsTell
  <2> QED
    BY <1>0, <2>1, <2>2 DEF GenerationsTell, turns
<1>9. RunsTheHead'
  BY <1>0, <1>3, <1>4 DEF RunsTheHead, turns, Busy
<1>10. HeadIsRead'
  <2>1. pc[Drain] \notin {"off", "done"} => epoch[Drain] # generation
    BY <1>0, <1>4 DEF QueueInv, GenerationsTell, Unlinking
  <2> QED
    BY <1>0, <2>1 DEF QueueInv, HeadIsRead, turns
<1>11. RemovedIsEmpty' /\ CountIsExact'
  BY <1>0 DEF RemovedIsEmpty, Pending, CountIsExact, Removed
<1>12. TurnsHoldTheLease'
  BY <1>0 DEF QueueInv, TurnsHoldTheLease, turns, Holds
<1>13. TurnsHaveAWorker' /\ TurnsAreCounted'
  BY <1>0, <1>4 DEF TurnsHaveAWorker, TurnsAreCounted, Busy, turns
<1>14. UnlinkedLast'
  <2>1. RemoverIsLast(lockQueue')
    BY <1>0, <1>1, LastTail
  <2> QED
    BY <1>0, <1>2, <1>3, <2>1 DEF UnlinkedLast, RemoverIsLast, turns
<1> QED
  BY <1>7, <1>8, <1>9, <1>10, <1>11, <1>12, <1>13, <1>14 DEF QueueInv

\* A removal that breaks off leaves the journal as it was, or removed.
LEMMA RemoveBreaksOffKeeps ==
    ASSUME QueueInv, RemoveBreaksOff
    PROVE  QueueInv'
<1>0. /\ Unlinking /\ Holds(Remover, lockQueue)
      /\ Fault("write")
      /\ lockQueue' = Tail(lockQueue)
      /\ UNCHANGED journal \/ (items' = <<>> /\ suspendedOnDisk' = FALSE)
      /\ deleting' = FALSE /\ queueSuspended' = FALSE /\ archived' = FALSE
      /\ removing' = "off"
      /\ UNCHANGED <<coolPending, generation, activeTurns, turnLease, machine, turns, sending,
                     archiving>>
  BY DEF RemoveBreaksOff, Unlinking
<1>1. /\ lockQueue \in Seq(Caller) /\ lockQueue # <<>> /\ Head(lockQueue) = Remover
      /\ UnlinkedLast /\ RemoverIsLast(lockQueue)
  BY <1>0, TypeFacts DEF QueueInv, Holds, UnlinkedLast, RemoverIsLast
<1>2. /\ \A x \in Message \cup {Drain} : ~Contains(lockQueue, x)
      /\ ~Contains(lockQueue', Remover)
  BY <1>0, <1>1, LastServed
<1>3. (\A m \in Message : sending[m] # "saving") /\ pc[Drain] # "dequeue"
  BY <1>1, <1>2 DEF UnlinkedLast
<1>4. ~Busy /\ Drain \in Turner
  BY <1>0, Kinds DEF QueueInv, TurnsHaveAWorker, Unlinking
<1>5. lockQueue' \in Seq(Caller) /\ left' \in Left
  BY <1>0, <1>1, Passed, LeftTyped DEF Fault
<1>6. items' \in Seq(Message) /\ Len(items') <= Depth /\ suspendedOnDisk' \in BOOLEAN
  <2>1. items \in Seq(Message) /\ Len(items) <= Depth /\ suspendedOnDisk \in BOOLEAN
    BY DEF QueueInv, TypeOK
  <2>2. CASE UNCHANGED journal
    BY <2>1, <2>2 DEF journal
  <2>3. CASE items' = <<>> /\ suspendedOnDisk' = FALSE
    <3>1. items' \in Seq(Message) /\ Len(items') <= Depth
      BY <2>3, DepthAssumption
    <3>2. suspendedOnDisk' \in BOOLEAN
      BY <2>3, Zenon
    <3> QED
      BY <3>1, <3>2
  <2> QED
    BY <1>0, <2>2, <2>3
<1>7. TypeOK'
  BY <1>0, <1>5, <1>6 DEF QueueInv, TypeOK, Left, machine, turns
<1>8. GenerationsTell'
  <2>1. deleting /\ \A q \in Turner : epoch[q] <= generation
    BY <1>0 DEF QueueInv, GenerationsTell, Unlinking
  <2>2. \A q \in Turner : pc[q] \notin {"off", "done"} => epoch[q] # generation
    BY <2>1 DEF QueueInv, GenerationsTell
  <2> QED
    BY <1>0, <2>1, <2>2 DEF GenerationsTell, turns
<1>9. RunsTheHead'
  BY <1>0, <1>3, <1>4 DEF RunsTheHead, turns, Busy
<1>10. HeadIsRead'
  <2>1. pc[Drain] \notin {"off", "done"} => epoch[Drain] # generation
    BY <1>0, <1>4 DEF QueueInv, GenerationsTell, Unlinking
  <2> QED
    BY <1>0, <2>1 DEF QueueInv, HeadIsRead, turns
<1>11. RemovedIsEmpty'
  BY <1>0 DEF RemovedIsEmpty, Removed
<1>12. TurnsHoldTheLease' /\ CountIsExact'
  <2>1. TurnsHoldTheLease'
    BY <1>0 DEF QueueInv, TurnsHoldTheLease, turns, Holds
  <2>2. ~Removed /\ Counted' = Counted
    BY <1>0 DEF Unlinking, Removed, turns, Counted
  <2> QED
    BY <1>0, <2>1, <2>2 DEF QueueInv, CountIsExact
<1>13. TurnsHaveAWorker' /\ TurnsAreCounted'
  BY <1>0, <1>4 DEF TurnsHaveAWorker, TurnsAreCounted, Busy, turns
<1>14. UnlinkedLast'
  <2>1. RemoverIsLast(lockQueue')
    BY <1>0, <1>1, LastTail
  <2> QED
    BY <1>0, <1>2, <1>3, <2>1 DEF UnlinkedLast, RemoverIsLast, turns
<1> QED
  BY <1>7, <1>8, <1>9, <1>10, <1>11, <1>12, <1>13, <1>14 DEF QueueInv

\* A removal that is refused leaves everything as it was, but for the generation.
LEMMA RemoveFailsKeeps ==
    ASSUME QueueInv, RemoveFails
    PROVE  QueueInv'
<1>0. /\ removing \in {"delete", "release"} /\ removing' = "off"
      /\ deleting' = FALSE /\ queueSuspended' = FALSE /\ archived' = FALSE
      /\ UNCHANGED <<journal, coolPending, generation, activeTurns, queues, machine, turns,
                     sending, archiving, left>>
  BY DEF RemoveFails
<1>1. TypeOK'
  BY <1>0 DEF QueueInv, TypeOK, journal, queues, machine, turns
<1>2. GenerationsTell'
  BY <1>0 DEF QueueInv, GenerationsTell, Removed, turns
<1>3. RunsTheHead' /\ HeadIsRead'
  BY <1>0 DEF QueueInv, RunsTheHead, HeadIsRead, Pending, journal, turns
<1>4. TurnsAreCounted' /\ RemovedIsEmpty' /\ TurnsHoldTheLease' /\ CountIsExact'
  BY <1>0 DEF QueueInv, TurnsAreCounted, Busy, HasActiveTurn, RemovedIsEmpty, Removed,
              TurnsHoldTheLease, CountIsExact, Counted, turns, queues, Holds
<1>5. TurnsHaveAWorker'
  BY <1>0 DEF QueueInv, TurnsHaveAWorker, Busy, turns, machine
<1>6. UnlinkedLast'
  BY <1>0 DEF QueueInv, UnlinkedLast, Unlinking, Removed, turns, queues
<1> QED
  BY <1>1, <1>2, <1>3, <1>4, <1>5, <1>6 DEF QueueInv

\* After a restart nobody is in a turn, and the journal is as it was.
LEMMA RestartKeeps ==
    ASSUME QueueInv, Restart
    PROVE  QueueInv'
<1>0. /\ queueSuspended' = suspendedOnDisk /\ coolPending' = FALSE /\ deleting' = FALSE
      /\ generation' = 0 /\ activeTurns' = 0
      /\ lockQueue' = <<>> /\ turnLease' = <<>>
      /\ worker' = "none" /\ idleTimer' = FALSE /\ retryTimer' = FALSE
      /\ epoch' = [q \in Turner |-> 0] /\ head' = Nothing
      /\ sending' = [m \in Message |-> "idle"] /\ archiving' = "off"
      /\ removing' = IF Removed THEN "gone" ELSE "off"
      /\ UNCHANGED <<journal, archived>>
  BY DEF Restart
<1>1. /\ pc' \in [Turner -> {"load", "off", "done"}]
  BY DEF Restart
<1>2. pc' \in [Turner -> Place] /\ \A q \in Turner : pc'[q] \in {"load", "off", "done"}
  BY <1>1 DEF Place
<1>3. left' \in Left
  BY LeftTyped DEF Restart
<1>4. TypeOK'
  <2>1. lockQueue' \in Seq(Caller) /\ turnLease' \in Seq(Turner)
    BY <1>0
  <2>2. epoch' \in [Turner -> Nat] /\ sending' \in [Message -> {"idle", "saving", "saved"}]
    BY <1>0
  <2>3. removing' \in {"off", "delete", "release", "unlink", "drop", "gone"}
    BY <1>0
  <2> QED
    BY <1>0, <1>2, <1>3, <2>1, <2>2, <2>3 DEF QueueInv, TypeOK, Left, journal
<1>5. ~Busy' /\ Counted' = {} /\ Drain \in Turner
  BY <1>2, Kinds DEF Busy, Counted, Underway
<1>6. CountIsExact'
  BY <1>0, <1>5, FS_EmptySet DEF CountIsExact
<1>7. GenerationsTell'
  <2>1. ~deleting' /\ removing' \in {"off", "gone"}
    BY <1>0
  <2>2. \A q \in Turner : epoch'[q] <= generation'
    BY <1>0
  <2> QED
    BY <1>2, <2>1, <2>2 DEF GenerationsTell
<1>8. RunsTheHead' /\ HeadIsRead' /\ TurnsHoldTheLease'
  BY <1>2, <1>5 DEF RunsTheHead, HeadIsRead, TurnsHoldTheLease, Leased
<1>9. TurnsAreCounted' /\ TurnsHaveAWorker'
  BY <1>5 DEF TurnsAreCounted, TurnsHaveAWorker
<1>10. RemovedIsEmpty'
  BY <1>0 DEF QueueInv, RemovedIsEmpty, Removed, Pending, journal
<1>11. UnlinkedLast'
  <2>1. \A x : ~Contains(lockQueue', x)
    BY <1>0 DEF Contains
  <2> QED
    BY <1>0, <1>2, <1>5, <2>1 DEF UnlinkedLast
<1> QED
  BY <1>4, <1>6, <1>7, <1>8, <1>9, <1>10, <1>11 DEF QueueInv

-----------------------------------------------------------------------------
(* The invariant of the queue.                                             *)

\* Nothing has happened yet.
LEMMA InitHolds == Init => QueueInv
<1> SUFFICES ASSUME Init PROVE QueueInv
  OBVIOUS
<1>1. /\ \A q \in Turner : pc[q] = "off" /\ epoch[q] = 0
      /\ pc \in [Turner -> Place] /\ epoch \in [Turner -> Nat]
      /\ sending \in [Message -> {"idle", "saving", "saved"}]
      /\ Drain \in Turner
  BY Kinds DEF Init, Place
<1>2. /\ items \in Seq(Message) /\ Len(items) <= Depth
      /\ lockQueue \in Seq(Caller) /\ turnLease \in Seq(Turner)
  BY DepthAssumption DEF Init
<1>3. left \in Left
  BY BoundAssumption DEF Init, Left
<1>4. TypeOK
  BY <1>1, <1>2, <1>3 DEF Init, TypeOK, Left
<1>5. ~Busy /\ Counted = {}
  BY <1>1 DEF Busy, Counted, Underway
<1>6. CountIsExact
  BY <1>5, FS_EmptySet DEF CountIsExact, Init
<1>7. GenerationsTell
  BY <1>1 DEF GenerationsTell, Init, Removed
<1>8. RunsTheHead /\ HeadIsRead /\ TurnsHoldTheLease
  BY <1>1 DEF RunsTheHead, HeadIsRead, TurnsHoldTheLease, Leased
<1>9. TurnsAreCounted /\ TurnsHaveAWorker /\ RemovedIsEmpty
  BY <1>5 DEF TurnsAreCounted, TurnsHaveAWorker, RemovedIsEmpty, Removed, Init
<1>10. UnlinkedLast
  <2>1. \A x : ~Contains(lockQueue, x)
    BY DEF Contains, Init
  <2> QED
    BY <1>1, <2>1 DEF UnlinkedLast, Init
<1> QED
  BY <1>4, <1>6, <1>7, <1>8, <1>9, <1>10 DEF QueueInv

\* One step per action.
LEMMA StepKeeps == QueueInv /\ [Next]_vars => QueueInv'
<1> SUFFICES ASSUME QueueInv, [Next]_vars PROVE QueueInv'
  OBVIOUS
<1>1. CASE UNCHANGED vars
  BY <1>1 DEF QueueInv, vars, journal, memory, queues, machine, turns, calls,
      TypeOK, RunsTheHead, TurnsAreCounted, RemovedIsEmpty, TurnsHoldTheLease, CountIsExact,
      GenerationsTell, TurnsHaveAWorker, UnlinkedLast, HeadIsRead, Pending, HasActiveTurn,
      Busy, Removed, Holds, Counted, Unlinking
<1>2. CASE \E m \in Message : Send(m) \/ Save(m) \/ Acknowledge(m)
  BY <1>2, SendKeeps, SaveKeeps, AcknowledgeKeeps
<1>3. CASE \E q \in Turner : TurnStep(q)
  BY <1>3, TakeLeaseKeeps, PrepareKeeps, AcquireKeeps DEF TurnStep
<1>4. CASE \E p \in Prompt : PromptStep(p)
  BY <1>4, PromptEntersKeeps, PromptResumesKeeps, PromptTurnEndsKeeps, PromptSettlesKeeps,
     PromptReturnsKeeps DEF PromptStep
<1>5. CASE DrainStep
  BY <1>5, LoadKeeps, AdmitKeeps, DrainTurnEndsKeeps, DrainTurnBreaksKeeps, DequeueKeeps
     DEF DrainStep
<1>6. CASE RetryTimerFires \/ IdleTimerFires
  BY <1>6, TimerKeeps
<1>7. CASE ArchiveBegins \/ ArchiveSuspends \/ ArchiveFrees
  BY <1>7, ArchiveBeginsKeeps, ArchiveSuspendsKeeps, ArchiveFreesKeeps
<1>8. CASE \E kind \in {"delete", "release"} : RemoveBegins(kind)
  BY <1>8, RemoveBeginsKeeps
<1>9. CASE RemoveQuiesces \/ RemoveUnlinks \/ RemoveBreaksOff \/ RemoveFails
  BY <1>9, RemoveQuiescesKeeps, RemoveUnlinksKeeps, RemoveBreaksOffKeeps, RemoveFailsKeeps
<1>10. CASE Restart
  BY <1>10, RestartKeeps
<1> QED
  BY <1>1, <1>2, <1>3, <1>4, <1>5, <1>6, <1>7, <1>8, <1>9, <1>10 DEF Next

\* The engine keeps its books: the journal's head is what the drain loop runs,
\* every turn is counted and holds the lease, what a removal has outrun is told
\* apart from what came after it, and a removed session has no journal left.
THEOREM QueueInvHolds == Spec => []QueueInv
<1>1. Init => QueueInv
  BY InitHolds
<1>2. QueueInv /\ [Next]_vars => QueueInv'
  BY StepKeeps
<1> QED
  BY <1>1, <1>2, PTL DEF Spec

-----------------------------------------------------------------------------
(* Archives.                                                               *)

\* The three marks of an archive go together.
LEMMA ArchiveKept ==
    ASSUME QueueInv, ArchiveHolds, [Next]_vars
    PROVE  ArchiveHolds'
<1> DEFINE Marks == <<archived, queueSuspended, suspendedOnDisk>>
<1> USE DEF ArchiveHolds
<1>1. CASE UNCHANGED Marks
  BY <1>1
<1>2. ASSUME NEW m \in Message, Send(m) \/ Save(m) \/ Acknowledge(m)
      PROVE  ArchiveHolds'
  BY <1>1, <1>2 DEF Send, Save, Acknowledge, journal, memory
<1>3. ASSUME NEW q \in Turner, TurnStep(q) PROVE ArchiveHolds'
  BY <1>1, <1>3 DEF TurnStep, TakeLease, Prepare, Acquire, journal
<1>4. ASSUME NEW p \in Prompt, PromptStep(p) PROVE ArchiveHolds'
  <2>1. CASE PromptResumes(p)
    <3>1. archived' = FALSE \/ UNCHANGED Marks
      <4>1. CASE Fault("write") /\ UNCHANGED <<suspendedOnDisk, archived>>
        <5>1. left'.faults < left.faults /\ left.faults \in Nat
          BY <4>1, LeftTyped DEF Left
        <5>2. left' # left
          BY <5>1
        <5> QED
          BY <2>1, <4>1, <5>2 DEF PromptResumes
      <4> QED
        BY <2>1, <4>1 DEF PromptResumes
    <3> QED
      BY <1>1, <3>1
  <2>2. CASE ~PromptResumes(p)
    BY <1>1, <1>4, <2>2 DEF PromptStep, PromptEnters, PromptTurnEnds, PromptSettles,
       PromptChecks, PromptReturns, journal, memory
  <2> QED
    BY <2>1, <2>2
<1>5. CASE DrainStep
  BY <1>1, <1>5 DEF DrainStep, Load, Admit, DrainTurnEnds, DrainTurnBreaks, Dequeue,
     journal, memory
<1>6. CASE RetryTimerFires \/ IdleTimerFires
  BY <1>1, <1>6 DEF RetryTimerFires, IdleTimerFires, journal, memory
<1>7. CASE ArchiveBegins \/ ArchiveSuspends \/ ArchiveFrees
  BY <1>7 DEF ArchiveBegins, ArchiveSuspends, ArchiveFrees, journal, memory
<1>8. CASE \E kind \in {"delete", "release"} : RemoveBegins(kind)
  BY <1>1, <1>8 DEF RemoveBegins, journal
<1>9. CASE RemoveQuiesces \/ RemoveUnlinks \/ RemoveBreaksOff \/ RemoveFails
  BY <1>9 DEF RemoveQuiesces, RemoveUnlinks, RemoveBreaksOff, RemoveFails, journal
<1>10. CASE Restart
  BY <1>10 DEF Restart, journal
<1>11. CASE UNCHANGED vars
  BY <1>1, <1>11 DEF vars, journal, memory
<1> QED
  BY <1>2, <1>3, <1>4, <1>5, <1>6, <1>7, <1>8, <1>9, <1>10, <1>11 DEF Next

\* An archive is remembered in memory and on disk until a prompt or a removal
\* lifts it, whatever write fails and however often the host is started again.
THEOREM ArchiveIsKept == Spec => []ArchiveHolds
<1>1. Init => ArchiveHolds
  BY DEF Init, ArchiveHolds
<1>2. QueueInv /\ ArchiveHolds /\ [Next]_vars => ArchiveHolds'
  BY ArchiveKept
<1> QED
  BY <1>1, <1>2, QueueInvHolds, PTL DEF Spec

-----------------------------------------------------------------------------
(* The worker under a turn.                                                *)

\* Where the holder of the lease is not in a turn, nobody is.
LEMMA NobodyElse ==
    ASSUME QueueInv, NEW q \in Turner, Holds(q, turnLease), pc[q] # "running"
    PROVE  ~Busy
BY OneHolder DEF Busy, Leased

\* A step that stops the worker finds nobody in a turn, or is a fault.
LEMMA StopsNobody ==
    ASSUME QueueInv, [Next]_vars, Busy, worker' = "none"
    PROVE  left'.faults < left.faults
<1>0. worker = "alive" /\ HasActiveTurn /\ activeTurns # 0
  BY DEF QueueInv, TurnsHaveAWorker, TurnsAreCounted, HasActiveTurn, TypeOK
<1>1. ASSUME NEW m \in Message, Send(m) \/ Save(m) \/ Acknowledge(m) PROVE FALSE
  BY <1>0, <1>1 DEF Send, Save, Acknowledge, machine
<1>2. ASSUME NEW q \in Turner, TurnStep(q) PROVE FALSE
  <2>1. Holds(q, turnLease) /\ pc[q] # "running"
    BY <1>2 DEF TurnStep, TakeLease, Prepare, Acquire, QueueInv, TurnsHoldTheLease, Leased
  <2> QED
    BY <2>1, NobodyElse
<1>3. ASSUME NEW p \in Prompt, PromptStep(p) PROVE left'.faults < left.faults
  <2>1. CASE PromptTurnEnds(p)
    BY <1>0, <2>1, LeftTyped DEF PromptTurnEnds
  <2>2. CASE PromptReturns(p)
    <3>1. Holds(p, turnLease) /\ pc[p] # "running"
      BY <2>2, Kinds DEF PromptReturns, QueueInv, TurnsHoldTheLease, Leased
    <3> QED
      BY <3>1, NobodyElse, Kinds
  <2>3. CASE PromptEnters(p) \/ PromptResumes(p) \/ PromptSettles(p) \/ PromptChecks(p)
    BY <1>0, <2>3 DEF PromptEnters, PromptResumes, PromptSettles, PromptChecks, machine
  <2> QED
    BY <1>3, <2>1, <2>2, <2>3 DEF PromptStep
<1>4. CASE DrainStep
  <2>1. CASE DrainTurnBreaks
    BY <2>1, LeftTyped DEF DrainTurnBreaks
  <2>2. CASE Dequeue
    BY <1>0, <2>2 DEF Dequeue, ConsumeSuspendCool
  <2>3. CASE Load \/ Admit \/ DrainTurnEnds
    BY <1>0, <2>3 DEF Load, Admit, DrainTurnEnds, machine
  <2> QED
    BY <1>4, <2>1, <2>2, <2>3 DEF DrainStep
<1>5. CASE RetryTimerFires \/ IdleTimerFires
  BY <1>0, <1>5 DEF RetryTimerFires, IdleTimerFires
<1>6. CASE ArchiveBegins \/ ArchiveSuspends \/ ArchiveFrees
  BY <1>0, <1>6 DEF ArchiveBegins, ArchiveSuspends, ArchiveFrees, machine
<1>7. CASE \E kind \in {"delete", "release"} : RemoveBegins(kind)
  BY <1>0, <1>7 DEF RemoveBegins, machine
<1>8. CASE RemoveQuiesces \/ RemoveUnlinks \/ RemoveBreaksOff \/ RemoveFails
  BY <1>0, <1>8 DEF RemoveQuiesces, RemoveUnlinks, RemoveBreaksOff, RemoveFails, machine
<1>9. CASE Restart
  BY <1>9, LeftTyped DEF Restart
<1>10. CASE UNCHANGED vars
  BY <1>0, <1>10 DEF vars, machine
<1> QED
  BY <1>1, <1>2, <1>3, <1>4, <1>5, <1>6, <1>7, <1>8, <1>9, <1>10 DEF Next

\* Neither an archive, a removal, the idle timer nor another turn's end stops
\* the worker while a turn runs on it: only a fault does.
THEOREM NeverKilled == Spec => NeverKilledMidTurn
<1>1. QueueInv /\ [Next]_vars => [Busy /\ worker' = "none" => left'.faults < left.faults]_vars
  BY StopsNobody
<1> QED
  BY <1>1, QueueInvHolds, PTL DEF Spec, NeverKilledMidTurn

-----------------------------------------------------------------------------
(* The queue implements DurableQueue.                                      *)

\* What the promise sees of the drain loop.
LEMMA TurnTells ==
    /\ pc[Drain] = "running" => TurnOfHead = "running"
    /\ pc[Drain] = "dequeue" => TurnOfHead = "finished"
    /\ pc[Drain] \in {"prepare", "acquire"} =>
          TurnOfHead = IF Stale(Drain) THEN "none" ELSE "running"
    /\ pc[Drain] \notin {"running", "dequeue", "prepare", "acquire"} => TurnOfHead = "none"
BY DEF TurnOfHead

\* The same of the state after a step.
LEMMA TurnTellsNext ==
    /\ pc'[Drain] = "running" => TurnOfHead' = "running"
    /\ pc'[Drain] = "dequeue" => TurnOfHead' = "finished"
    /\ pc'[Drain] \in {"prepare", "acquire"} =>
          TurnOfHead' = IF Stale(Drain)' THEN "none" ELSE "running"
    /\ pc'[Drain] \notin {"running", "dequeue", "prepare", "acquire"} => TurnOfHead' = "none"
BY DEF TurnOfHead

\* A step that leaves the drain loop alone, or kicks it, is none of its turns.
LEMMA TurnKept ==
    ASSUME Follows(Drain), UNCHANGED <<deleting, generation>>
    PROVE  TurnOfHead' = TurnOfHead
BY TurnTells, TurnTellsNext DEF Follows, Stale

\* A step that leaves the journal and the archive alone as well is not seen.
LEMMA NotSeen ==
    ASSUME TurnOfHead' = TurnOfHead, UNCHANGED <<items, archived>>
    PROVE  [Promise!Next]_Promise!vars
BY DEF Promise!vars

\* A step after which no turn of the head is under way breaks it off.
LEMMA BreaksOff ==
    ASSUME TurnOfHead' = "none", UNCHANGED <<items, archived>>
    PROVE  [Promise!Next]_Promise!vars
BY DEF Promise!Next, Promise!BreakOff

\* A sender's save is an acceptance, unless it was refused or failed.
LEMMA SaveImplements ==
    ASSUME QueueInv, NEW m \in Message, Send(m) \/ Save(m) \/ Acknowledge(m)
    PROVE  [Promise!Next]_Promise!vars
<1>1. CASE Save(m) /\ items' # items
  <2>1. ~Contains(items, m) /\ Len(items) < Depth /\ items' = Append(items, m)
    BY <1>1 DEF Save
  <2>2. m \notin {items[i] : i \in DOMAIN items}
    <3>1. DOMAIN items = 1..Len(items)
      BY TypeFacts
    <3> QED
      BY <2>1, <3>1 DEF Contains
  <2>3. UNCHANGED <<deleting, generation, archived>> /\ Follows(Drain)
    BY <1>1 DEF Save, memory, turns, Follows
  <2>4. TurnOfHead' = TurnOfHead
    BY <2>3, TurnKept
  <2>5. Promise!Accept(m)
    BY <2>1, <2>2, <2>3, <2>4 DEF Promise!Accept
  <2> QED
    BY <2>5 DEF Promise!Next
<1>2. CASE Save(m) /\ items' = items
  <2>1. UNCHANGED <<deleting, generation, archived>> /\ Follows(Drain)
    BY <1>2 DEF Save, memory, turns, Follows
  <2> QED
    BY <1>2, <2>1, TurnKept, NotSeen
<1>3. CASE Send(m)
  <2>1. UNCHANGED <<deleting, generation, archived, items>> /\ Follows(Drain)
    BY <1>3 DEF Send, memory, turns, journal, Follows
  <2> QED
    BY <2>1, TurnKept, NotSeen
<1>4. CASE Acknowledge(m)
  <2>1. UNCHANGED <<deleting, generation, archived, items>>
    BY <1>4 DEF Acknowledge, memory, journal
  <2>2. Follows(Drain)
    BY <1>4, KickFollows, TypeFacts, Kinds DEF Acknowledge, Kick, Follows
  <2> QED
    BY <2>1, <2>2, TurnKept, NotSeen
<1> QED
  BY <1>1, <1>2, <1>3, <1>4

\* A turn begins with the lease, its checks passed, and not while the queue is
\* held; what stops it before its worker runs breaks it off.
LEMMA TurnImplements ==
    ASSUME QueueInv, ArchiveHolds, NEW q \in Turner, TurnStep(q)
    PROVE  [Promise!Next]_Promise!vars
<1>0. UNCHANGED <<items, archived, deleting, generation>>
  BY DEF TurnStep, TakeLease, Prepare, Acquire, journal
<1>1. CASE q # Drain
  <2>1. OthersFollow(q)
    <3>1. CASE TurnFails(q) /\ pc[q] \in {"prepare", "acquire"}
      BY <3>1, FailFacts
    <3>2. CASE epoch' = epoch /\ \E place \in Place : pc' = [pc EXCEPT ![q] = place]
      BY <1>1, <3>2, MovesOn
    <3> QED
      BY <1>1, <3>1, <3>2 DEF TurnStep, TakeLease, Prepare, Acquire, Place
  <2>2. Follows(Drain)
    BY <1>1, <2>1, Kinds DEF OthersFollow
  <2> QED
    BY <1>0, <2>2, TurnKept, NotSeen
<1>2. CASE q = Drain /\ TakeLease(q)
  <2>1. /\ pc[Drain] = "wait" /\ TurnOfHead = "none" /\ epoch' = epoch
    BY <1>2, TurnTells DEF TakeLease
  <2>2. CASE pc' = [pc EXCEPT ![Drain] = "off"]
    <3>1. pc'[Drain] = "off"
      BY <2>2, TypeFacts, Kinds
    <3> QED
      BY <1>0, <3>1, BreaksOff, TurnTellsNext
  <2>3. CASE /\ ~Stale(Drain) /\ ~queueSuspended
             /\ pc' = [pc EXCEPT ![Drain] = "prepare"]
    <3>1. pc'[Drain] = "prepare" /\ ~Stale(Drain)'
      BY <1>0, <2>1, <2>3, TypeFacts, Kinds DEF Stale
    <3>2. TurnOfHead' = "running"
      BY <3>1, TurnTellsNext
    <3>3. items # <<>>
      BY <2>1, <2>3 DEF QueueInv, HeadIsRead, Stale, Pending
    <3>4. ~archived
      BY <2>3 DEF ArchiveHolds
    <3>5. Promise!Start
      BY <1>0, <2>1, <3>2, <3>3, <3>4 DEF Promise!Start
    <3> QED
      BY <3>5 DEF Promise!Next
  <2> QED
    BY <1>2, <2>2, <2>3 DEF TakeLease, DrainGivesUp
<1>3. CASE q = Drain /\ (Prepare(q) \/ Acquire(q))
  <2>1. pc[Drain] \in {"prepare", "acquire"}
    BY <1>3 DEF Prepare, Acquire
  <2>2. CASE TurnFails(Drain)
    <3>1. pc'[Drain] = "off"
      BY <2>1, <2>2, FailFacts, Kinds
    <3> QED
      BY <1>0, <3>1, BreaksOff, TurnTellsNext
  <2>3. CASE /\ epoch' = epoch
             /\ \/ pc' = [pc EXCEPT ![Drain] = "acquire"] /\ ~Stale(Drain)
                \/ pc' = [pc EXCEPT ![Drain] = "running"] /\ ~Stale(Drain)
                \/ pc' = [pc EXCEPT ![Drain] = "prepare"] /\ Stale(Drain)
    <3>1. /\ Stale(Drain)' <=> Stale(Drain)
          /\ \/ pc'[Drain] \in {"acquire", "running"} /\ ~Stale(Drain)
             \/ pc'[Drain] = "prepare" /\ Stale(Drain)
      BY <1>0, <2>3, TypeFacts, Kinds DEF Stale
    <3>2. TurnOfHead' = TurnOfHead
      BY <2>1, <3>1, TurnTells, TurnTellsNext
    <3> QED
      BY <1>0, <3>2, NotSeen
  <2> QED
    BY <1>3, <2>2, <2>3 DEF Prepare, Acquire
<1> QED
  BY <1>1, <1>2, <1>3 DEF TurnStep

\* A prompt lifts what an archive held, and is not seen otherwise.
LEMMA PromptImplements ==
    ASSUME QueueInv, NEW p \in Prompt, PromptStep(p)
    PROVE  [Promise!Next]_Promise!vars
<1>1. p \in Turner /\ p # Drain
  BY Kinds
<1>2. UNCHANGED <<items, deleting, generation>>
  BY DEF PromptStep, PromptEnters, PromptResumes, PromptTurnEnds, PromptSettles, PromptChecks,
         PromptReturns, journal, memory
<1>3. Follows(Drain)
  <2>1. CASE PromptEnters(p)
    BY <1>1, <2>1, TypeFacts DEF PromptEnters, Follows
  <2>2. CASE PromptResumes(p) \/ PromptSettles(p) \/ PromptChecks(p)
    <3>1. epoch' = epoch /\ \E place \in Place : pc' = [pc EXCEPT ![p] = place]
      BY <2>2 DEF PromptResumes, PromptSettles, PromptChecks, Place
    <3> QED
      BY <1>1, <3>1, MovesOn, Kinds DEF OthersFollow
  <2>3. CASE PromptTurnEnds(p)
    BY <1>1, <2>3, MovesOn, Kinds DEF PromptTurnEnds, Place, OthersFollow
  <2>4. CASE PromptReturns(p)
    BY <1>1, <2>4, MovesOn, Kinds DEF PromptReturns, Place, OthersFollow
  <2> QED
    BY <2>1, <2>2, <2>3, <2>4 DEF PromptStep
<1>4. TurnOfHead' = TurnOfHead
  BY <1>2, <1>3, TurnKept
<1>5. archived' = FALSE \/ archived' = archived
  BY DEF PromptStep, PromptEnters, PromptResumes, PromptTurnEnds, PromptSettles, PromptChecks,
         PromptReturns
<1>6. CASE archived' = FALSE
  BY <1>2, <1>4, <1>6 DEF Promise!Next, Promise!Lift
<1>7. CASE archived' = archived
  BY <1>2, <1>4, <1>7, NotSeen
<1> QED
  BY <1>5, <1>6, <1>7

\* A turn that ends for certain finishes, and its message is retired.
LEMMA DrainImplements ==
    ASSUME QueueInv, DrainStep
    PROVE  [Promise!Next]_Promise!vars
<1>0. UNCHANGED <<deleting, generation, archived>> /\ Drain \in Turner
      /\ pc \in [Turner -> Place]
  BY TypeFacts, Kinds
     DEF DrainStep, Load, Admit, DrainTurnEnds, DrainTurnBreaks, Dequeue, memory
<1>1. CASE Load \/ Admit \/ DrainTurnBreaks
  <2>1. pc'[Drain] \in {"admit", "off", "wait"} /\ items' = items
    BY <1>0, <1>1 DEF Load, Admit, DrainTurnBreaks, DrainGivesUp, journal
  <2> QED
    BY <1>0, <2>1, TurnTellsNext, BreaksOff
<1>2. CASE DrainTurnEnds
  <2>1. pc[Drain] = "running" /\ pc'[Drain] = "dequeue" /\ items' = items
    BY <1>0, <1>2 DEF DrainTurnEnds, journal
  <2>2. TurnOfHead = "running" /\ TurnOfHead' = "finished"
    BY <2>1, TurnTells, TurnTellsNext
  <2> QED
    BY <1>0, <2>1, <2>2 DEF Promise!Next, Promise!Finish
<1>3. CASE Dequeue
  <2>1. pc[Drain] = "dequeue" /\ pc'[Drain] \in {"load", "off"}
    BY <1>0, <1>3 DEF Dequeue
  <2>2. TurnOfHead = "finished" /\ TurnOfHead' = "none"
    BY <2>1, TurnTells, TurnTellsNext
  <2>3. items # <<>>
    BY <2>1 DEF QueueInv, RunsTheHead, Pending
  <2>4. CASE items' = items
    BY <1>0, <2>2, <2>4, BreaksOff
  <2>5. CASE items' = Tail(items)
    BY <1>0, <2>2, <2>3, <2>5 DEF Promise!Next, Promise!Retire
  <2> QED
    BY <1>3, <2>4, <2>5 DEF Dequeue
<1> QED
  BY <1>1, <1>2, <1>3 DEF DrainStep

\* An archive holds the queue, and is not seen otherwise; nor are the timers.
LEMMA ArchiveImplements ==
    ASSUME QueueInv,
           \/ RetryTimerFires \/ IdleTimerFires
           \/ ArchiveBegins \/ ArchiveSuspends \/ ArchiveFrees
    PROVE  [Promise!Next]_Promise!vars
<1>1. UNCHANGED <<items, deleting, generation>>
  BY DEF RetryTimerFires, IdleTimerFires, ArchiveBegins, ArchiveSuspends, ArchiveFrees,
         journal, memory
<1>2. Follows(Drain)
  <2>1. CASE Kick
    BY <2>1, KickFollows, TypeFacts, Kinds DEF Kick, Follows
  <2>2. CASE UNCHANGED <<pc, epoch>>
    BY <2>2 DEF Follows
  <2> QED
    BY <2>1, <2>2 DEF RetryTimerFires, IdleTimerFires, ArchiveBegins, ArchiveSuspends,
       ArchiveFrees, turns
<1>3. TurnOfHead' = TurnOfHead
  BY <1>1, <1>2, TurnKept
<1>4. archived' = TRUE \/ archived' = archived
  BY DEF RetryTimerFires, IdleTimerFires, ArchiveBegins, ArchiveSuspends, ArchiveFrees
<1>5. CASE archived' = TRUE
  BY <1>1, <1>3, <1>5 DEF Promise!Next, Promise!Hold
<1>6. CASE archived' = archived
  BY <1>1, <1>3, <1>6, NotSeen
<1> QED
  BY <1>4, <1>5, <1>6

\* A removal breaks the turn off, and clears the queue or lifts what was held.
LEMMA RemoveImplements ==
    ASSUME QueueInv,
           \/ \E kind \in {"delete", "release"} : RemoveBegins(kind)
           \/ RemoveQuiesces \/ RemoveUnlinks \/ RemoveBreaksOff \/ RemoveFails
    PROVE  [Promise!Next]_Promise!vars
<1>0. Drain \in Turner
  BY Kinds
<1>1. CASE \E kind \in {"delete", "release"} : RemoveBegins(kind)
  <2>1. UNCHANGED <<items, archived, pc>> /\ deleting' = TRUE
    BY <1>1 DEF RemoveBegins, journal, turns
  <2>2. Stale(Drain)'
    BY <2>1 DEF Stale
  <2>3. TurnOfHead' = TurnOfHead \/ TurnOfHead' = "none"
    BY <2>1, <2>2, TurnTells, TurnTellsNext
  <2> QED
    BY <2>1, <2>3, NotSeen, BreaksOff
<1>2. CASE RemoveQuiesces
  <2>1. UNCHANGED <<items, archived, deleting, generation>> /\ Follows(Drain)
    BY <1>2 DEF RemoveQuiesces, journal, turns, Follows
  <2> QED
    BY <2>1, TurnKept, NotSeen
<1>3. CASE RemoveUnlinks \/ RemoveBreaksOff
  <2>1. /\ Unlinking /\ deleting /\ UNCHANGED <<pc, epoch, generation>>
        /\ items' = <<>> \/ items' = items
        /\ archived' = FALSE /\ deleting' = FALSE
    BY <1>3 DEF RemoveUnlinks, RemoveBreaksOff, Unlinking, turns, journal, QueueInv,
                GenerationsTell
  <2>2. pc[Drain] # "running"
    BY <1>0, <2>1 DEF QueueInv, TurnsHaveAWorker, Busy, Unlinking
  <2>3. pc[Drain] # "dequeue"
    <3>1. lockQueue \in Seq(Caller) /\ lockQueue # <<>> /\ Head(lockQueue) = Remover
          /\ UnlinkedLast /\ RemoverIsLast(lockQueue)
      BY <1>3, TypeFacts DEF RemoveUnlinks, RemoveBreaksOff, Holds, QueueInv, UnlinkedLast,
                             RemoverIsLast
    <3>2. ~Contains(lockQueue, Drain)
      BY <3>1, LastServed
    <3> QED
      BY <3>1, <3>2 DEF UnlinkedLast
  <2>4. pc[Drain] \in {"prepare", "acquire"} => Stale(Drain) /\ Stale(Drain)'
    BY <1>0, <2>1 DEF QueueInv, GenerationsTell, Stale
  <2>5. TurnOfHead = "none" /\ TurnOfHead' = "none"
    BY <2>1, <2>2, <2>3, <2>4, TurnTells, TurnTellsNext
  <2> QED
    BY <2>1, <2>5 DEF Promise!Next, Promise!Clear, Promise!Lift
<1>4. CASE RemoveFails
  <2>1. /\ deleting /\ UNCHANGED <<items, pc, epoch, generation>> /\ archived' = FALSE
    BY <1>4 DEF RemoveFails, turns, journal, QueueInv, GenerationsTell
  <2>2. pc[Drain] \in {"prepare", "acquire"} => Stale(Drain) /\ Stale(Drain)'
    BY <1>0, <2>1 DEF QueueInv, GenerationsTell, Stale
  <2>3. TurnOfHead' = TurnOfHead
    BY <2>1, <2>2, TurnTells, TurnTellsNext
  <2> QED
    BY <2>1, <2>3 DEF Promise!Next, Promise!Lift
<1> QED
  BY <1>1, <1>2, <1>3, <1>4

\* A restart breaks the turn off, and takes nothing from the journal.
LEMMA RestartImplements ==
    ASSUME QueueInv, Restart
    PROVE  [Promise!Next]_Promise!vars
<1>1. UNCHANGED <<items, archived>> /\ pc'[Drain] \in {"load", "off"}
  BY Kinds DEF Restart, journal
<1> QED
  BY <1>1, TurnTellsNext, BreaksOff

\* What is accepted is run first in, first out, each message at least once, in
\* spite of faults, restarts and whatever else is called meanwhile; and an
\* archived session runs nothing until a direct prompt or a removal lifts that.
THEOREM QueueKeepsPromise == Spec => QueueSpec
<1>1. Init => Promise!Init
  BY Kinds DEF Init, Promise!Init, TurnOfHead
<1>2. QueueInv /\ ArchiveHolds /\ [Next]_vars => [Promise!Next]_Promise!vars
  <2> SUFFICES ASSUME QueueInv, ArchiveHolds, [Next]_vars
               PROVE  [Promise!Next]_Promise!vars
    OBVIOUS
  <2>1. CASE UNCHANGED vars
    <3>1. UNCHANGED <<items, archived, deleting, generation>> /\ Follows(Drain)
      BY <2>1 DEF vars, journal, memory, turns, Follows
    <3> QED
      BY <3>1, TurnKept, NotSeen
  <2>2. CASE Next
    BY <2>2, SaveImplements, TurnImplements, PromptImplements, DrainImplements,
       ArchiveImplements, RemoveImplements, RestartImplements DEF Next
  <2> QED
    BY <2>1, <2>2
<1> QED
  BY <1>1, <1>2, QueueInvHolds, ArchiveIsKept, PTL DEF Spec, QueueSpec, Promise!Spec
=============================================================================
