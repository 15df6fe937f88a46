-------------------------- MODULE SharedStateProofs --------------------------
(***************************************************************************)
(* Proofs about what bff's requests share, for any number of requests,     *)
(* sessions, users and lock objects.                                       *)
(*                                                                         *)
(* The refresh locks: LockInv is inductive.  An entry is forgotten only    *)
(* when no task has an Arc to it (HandlesAreTheMaps), so all users of a    *)
(* session meet at one lock object, and that object's permit is with one   *)
(* of them (PermitNotLost).  Mutual exclusion and the refinement follow.   *)
(*                                                                         *)
(* The session store: each helper keeps the index in step with the         *)
(* sessions (InStep), so a method does what the registry says, and one     *)
(* session beyond the cap is the most there ever is.                       *)
(***************************************************************************)
EXTENDS RefreshLocks, SessionStore, FiniteSetTheorems, SequenceTheorems, WellFoundedInduction, TLAPS

-----------------------------------------------------------------------------
(* The refresh locks                                                       *)

\* Taking one waiter out of a queue keeps the others and their order, which is
\* what a cancelled waiter does to the semaphore's queue.
LEMMA RemoveAtProperties ==
  ASSUME NEW S, NEW q \in Seq(S), NEW i \in 1..Len(q)
  PROVE  /\ RemoveAt(q, i) \in Seq(S)
         /\ Len(RemoveAt(q, i)) = Len(q) - 1
         /\ \A j \in 1..(Len(q) - 1) :
              RemoveAt(q, i)[j] = IF j < i THEN q[j] ELSE q[j + 1]
<1> DEFINE a == SubSeq(q, 1, i - 1)
           b == SubSeq(q, i + 1, Len(q))
<1>0. Len(q) \in Nat /\ \A j \in 1..Len(q) : q[j] \in S
  BY LenProperties, ElementOfSeq
<1>1. /\ a \in Seq(S)
      /\ Len(a) = i - 1
      /\ \A j \in 1..(i - 1) : a[j] = q[j]
  <2>1. \A j \in 1..(i - 1) : q[j] \in S
    BY <1>0
  <2>2. 1 \in Int /\ i - 1 \in Int
    BY <1>0
  <2>3. /\ a \in Seq(S)
        /\ Len(a) = IF 1 <= i - 1 THEN (i - 1) - 1 + 1 ELSE 0
        /\ \A j \in 1..((i - 1) - 1 + 1) : a[j] = q[1 + j - 1]
    BY <2>1, <2>2, SubSeqProperties
  <2> QED
    BY <2>3, <1>0
<1>2. /\ b \in Seq(S)
      /\ Len(b) = Len(q) - i
      /\ \A j \in 1..(Len(q) - i) : b[j] = q[i + j]
  <2>1. \A j \in (i + 1)..Len(q) : q[j] \in S
    BY <1>0
  <2>2. i + 1 \in Int /\ Len(q) \in Int
    BY <1>0
  <2>3. /\ b \in Seq(S)
        /\ Len(b) = IF i + 1 <= Len(q) THEN Len(q) - (i + 1) + 1 ELSE 0
        /\ \A j \in 1..(Len(q) - (i + 1) + 1) : b[j] = q[(i + 1) + j - 1]
    BY <2>1, <2>2, SubSeqProperties
  <2> QED
    BY <2>3, <1>0
<1>3. /\ a \o b \in Seq(S)
      /\ Len(a \o b) = Len(a) + Len(b)
      /\ \A j \in 1..(Len(a) + Len(b)) :
           (a \o b)[j] = IF j <= Len(a) THEN a[j] ELSE b[j - Len(a)]
  BY <1>1, <1>2, ConcatProperties
<1>4. RemoveAt(q, i) = a \o b
  BY DEF RemoveAt
<1> HIDE DEF a, b
<1>5. Len(a \o b) = Len(q) - 1
  BY <1>0, <1>1, <1>2, <1>3
<1>6. ASSUME NEW j \in 1..(Len(q) - 1)
      PROVE  (a \o b)[j] = IF j < i THEN q[j] ELSE q[j + 1]
  <2>1. j \in 1..(Len(a) + Len(b)) /\ Len(a) = i - 1
    BY <1>0, <1>1, <1>2
  <2>2. (a \o b)[j] = IF j <= i - 1 THEN a[j] ELSE b[j - (i - 1)]
    BY <1>3, <2>1
  <2>3. CASE j < i
    BY <2>2, <2>3, <1>0, <1>1
  <2>4. CASE ~(j < i)
    <3>1. j - (i - 1) \in 1..(Len(q) - i) /\ i + (j - (i - 1)) = j + 1
      BY <2>4, <1>0
    <3>2. b[j - (i - 1)] = q[j + 1]
      BY <3>1, <1>2
    <3> QED
      BY <2>2, <2>4, <3>2, <1>0
  <2> QED
    BY <2>3, <2>4
<1> QED
  BY <1>3, <1>4, <1>5, <1>6

\* PassOn gives the permit to a queued task and takes that task off the queue.
LEMMA PassOnProperties ==
  ASSUME TypeOK, NEW l \in Locks, PassOn(l)
  PROVE  /\ owner' \in [Locks -> Tasks \cup {NoTask}]
         /\ queue' \in [Locks -> Seq(Tasks)]
         /\ \A m \in Locks : m # l => owner'[m] = owner[m] /\ queue'[m] = queue[m]
         /\ \/ queue[l] = <<>> /\ owner'[l] = NoTask /\ queue'[l] = <<>>
            \/ /\ Len(queue[l]) \in Nat \ {0}
               /\ owner'[l] = queue[l][1]
               /\ Len(queue'[l]) = Len(queue[l]) - 1
               /\ \A i \in 1..Len(queue'[l]) : queue'[l][i] = queue[l][i + 1]
<1>1. queue[l] \in Seq(Tasks)
  BY DEF TypeOK
<1>2. CASE queue[l] = <<>>
  BY <1>1, <1>2 DEF TypeOK, PassOn
<1>3. CASE queue[l] # <<>>
  <2>1. /\ Len(queue[l]) \in Nat \ {0}
        /\ Head(queue[l]) = queue[l][1]
        /\ Head(queue[l]) \in Tasks
        /\ Tail(queue[l]) \in Seq(Tasks)
        /\ Len(Tail(queue[l])) = Len(queue[l]) - 1
        /\ \A i \in 1..Len(Tail(queue[l])) : Tail(queue[l])[i] = queue[l][i + 1]
    BY <1>1, <1>3, HeadTailProperties, EmptySeq
  <2> QED
    BY <1>3, <2>1 DEF TypeOK, PassOn
<1> QED
  BY <1>2, <1>3

\* The entry a task uses, the lock objects apart, and the types: what keeps
\* every user of a session at one lock object.
MapInv == TypeOK /\ HandlesAreTheMaps /\ LocksApart

\* No step takes an entry from under a user of it, or gives one out twice.
LEMMA MapInvStep == MapInv /\ [Next]_vars => MapInv'
<1> SUFFICES ASSUME MapInv, [Next]_vars PROVE MapInv'
  OBVIOUS
<1> USE SentinelAssumption DEF MapInv
<1>1. ASSUME NEW t \in Tasks, NEW s \in Sessions, CloneEntry(t, s)
      PROVE  MapInv'
  <2>1. CASE locks[s] # NoLock
    BY <1>1, <2>1 DEF TypeOK, HandlesAreTheMaps, LocksApart, CloneEntry, Phases
  <2>2. CASE locks[s] = NoLock
    <3> PICK l \in Locks : /\ Fresh(l)
                           /\ locks' = [locks EXCEPT ![s] = l]
                           /\ handle' = [handle EXCEPT ![t] = l]
                           /\ owner' = [owner EXCEPT ![l] = NoTask]
                           /\ queue' = [queue EXCEPT ![l] = <<>>]
      BY <1>1, <2>2 DEF CloneEntry
    <3>0. pc' = [pc EXCEPT ![t] = "asking"] /\ target' = [target EXCEPT ![t] = s]
          /\ pc[t] = "idle"
      BY <1>1 DEF CloneEntry
    <3>1. TypeOK'
      BY <3>0 DEF TypeOK, Phases
    <3>2. HandlesAreTheMaps'
      BY <3>0, <2>2 DEF TypeOK, HandlesAreTheMaps
    <3>3. LocksApart'
      BY <2>2 DEF TypeOK, LocksApart, Fresh
    <3> QED
      BY <3>1, <3>2, <3>3
  <2> QED
    BY <2>1, <2>2
<1>2. ASSUME NEW t \in Tasks, Poll(t)
      PROVE  MapInv'
  <2>1. handle[t] \in Locks
    BY <1>2 DEF TypeOK, HandlesAreTheMaps, Poll
  <2>2. Append(queue[handle[t]], t) \in Seq(Tasks)
    BY <2>1 DEF TypeOK
  <2>3. TypeOK'
    <3>1. /\ owner' \in [Locks -> Tasks \cup {NoTask}]
          /\ queue' \in [Locks -> Seq(Tasks)]
      <4>1. CASE owner[handle[t]] = NoTask
        <5>1. owner' = [owner EXCEPT ![handle[t]] = t] /\ queue' = queue
          BY <1>2, <4>1 DEF Poll
        <5> QED
          BY <5>1 DEF TypeOK
      <4>2. CASE owner[handle[t]] # NoTask
        <5>1. owner' = owner
              /\ queue' = [queue EXCEPT ![handle[t]] = Append(queue[handle[t]], t)]
          BY <1>2, <4>2 DEF Poll
        <5> QED
          BY <5>1, <2>1, <2>2 DEF TypeOK
      <4> QED
        BY <4>1, <4>2
    <3>2. pc' \in [Tasks -> Phases]
      BY <1>2 DEF TypeOK, Poll, Phases
    <3> QED
      BY <1>2, <3>1, <3>2 DEF TypeOK, Poll
  <2> QED
    BY <1>2, <2>3 DEF TypeOK, HandlesAreTheMaps, LocksApart, Poll
<1>3. ASSUME NEW t \in Tasks, Wake(t)
      PROVE  MapInv'
  BY <1>3 DEF TypeOK, HandlesAreTheMaps, LocksApart, Wake, Phases
<1>4. ASSUME NEW t \in Tasks, DropGuard(t)
      PROVE  MapInv'
  <2>1. handle[t] \in Locks /\ target[t] \in Sessions
    BY <1>4 DEF TypeOK, HandlesAreTheMaps, DropGuard
  <2>2. PassOn(handle[t])
    BY <1>4 DEF DropGuard
  <2>3. TypeOK'
    <3>1. /\ owner' \in [Locks -> Tasks \cup {NoTask}]
          /\ queue' \in [Locks -> Seq(Tasks)]
      BY <2>1, <2>2, PassOnProperties
    <3>2. locks' \in [Sessions -> Locks \cup {NoLock}]
      BY <1>4, <2>1 DEF TypeOK, DropGuard
    <3> QED
      BY <1>4, <3>1, <3>2 DEF TypeOK, DropGuard, Phases
  <2>4. HandlesAreTheMaps'
    BY <1>4, <2>1 DEF TypeOK, HandlesAreTheMaps, DropGuard
  <2>5. LocksApart'
    BY <1>4, <2>1 DEF TypeOK, LocksApart, DropGuard
  <2> QED
    BY <2>3, <2>4, <2>5
<1>5. ASSUME NEW t \in Tasks, Cancel(t)
      PROVE  MapInv'
  <2>1. handle[t] \in Locks
    BY <1>5 DEF TypeOK, HandlesAreTheMaps, Cancel
  <2>2. /\ owner' \in [Locks -> Tasks \cup {NoTask}]
        /\ queue' \in [Locks -> Seq(Tasks)]
    <3>1. CASE pc[t] = "asking"
      BY <1>5, <3>1 DEF TypeOK, Cancel
    <3>2. CASE pc[t] = "queued" /\ owner[handle[t]] = t
      BY <1>5, <2>1, <3>2, PassOnProperties DEF Cancel
    <3>3. CASE pc[t] = "queued" /\ owner[handle[t]] # t
      <4> PICK i \in 1..Len(queue[handle[t]]) :
               queue' = [queue EXCEPT ![handle[t]] = RemoveAt(queue[handle[t]], i)]
        BY <1>5, <3>3 DEF Cancel
      <4>1. RemoveAt(queue[handle[t]], i) \in Seq(Tasks)
        BY <2>1, RemoveAtProperties DEF TypeOK
      <4> QED
        BY <1>5, <3>3, <4>1, <2>1 DEF TypeOK, Cancel
    <3> QED
      BY <1>5, <3>1, <3>2, <3>3 DEF Cancel
  <2> QED
    BY <1>5, <2>2 DEF TypeOK, HandlesAreTheMaps, LocksApart, Cancel, Phases
<1>6. ASSUME NEW t \in Tasks, DropHandle(t)
      PROVE  MapInv'
  BY <1>6 DEF TypeOK, HandlesAreTheMaps, LocksApart, DropHandle, Phases
<1>7. CASE Prune
  BY <1>7 DEF TypeOK, HandlesAreTheMaps, LocksApart, Prune, Shared
<1>8. CASE UNCHANGED vars
  BY <1>8 DEF TypeOK, HandlesAreTheMaps, LocksApart, vars
<1> QED
  BY <1>1, <1>2, <1>3, <1>4, <1>5, <1>6, <1>7, <1>8 DEF Next

\* Who has a permit can give it back, and who is queued waits for it.
LEMMA PermitStep ==
  MapInv /\ PermitNotLost /\ QueueIsWaiters /\ [Next]_vars
    => PermitNotLost' /\ QueueIsWaiters'
<1> SUFFICES ASSUME MapInv, PermitNotLost, QueueIsWaiters, [Next]_vars
             PROVE  PermitNotLost' /\ QueueIsWaiters'
  OBVIOUS
<1> USE SentinelAssumption DEF MapInv
<1>q. \A l \in Locks : /\ Len(queue[l]) \in Nat
                       /\ \A i \in 1..Len(queue[l]) : queue[l][i] \in Tasks
  BY LenProperties, ElementOfSeq DEF TypeOK
<1>1. ASSUME NEW t \in Tasks, NEW s \in Sessions, CloneEntry(t, s)
      PROVE  PermitNotLost' /\ QueueIsWaiters'
  <2>1. CASE locks[s] # NoLock
    <3>1. /\ pc[t] = "idle" /\ pc' = [pc EXCEPT ![t] = "asking"]
          /\ handle' = [handle EXCEPT ![t] = locks[s]]
          /\ UNCHANGED <<owner, queue>>
      BY <1>1, <2>1 DEF CloneEntry
    <3>2. PermitNotLost'
      BY <3>1 DEF TypeOK, PermitNotLost
    <3>3. QueueIsWaiters'
      BY <3>1, <1>q DEF TypeOK, QueueIsWaiters
    <3> QED
      BY <3>2, <3>3
  <2>2. CASE locks[s] = NoLock
    <3> PICK l \in Locks : /\ Fresh(l)
                           /\ locks' = [locks EXCEPT ![s] = l]
                           /\ handle' = [handle EXCEPT ![t] = l]
                           /\ owner' = [owner EXCEPT ![l] = NoTask]
                           /\ queue' = [queue EXCEPT ![l] = <<>>]
      BY <1>1, <2>2 DEF CloneEntry
    <3>0. pc' = [pc EXCEPT ![t] = "asking"] /\ pc[t] = "idle"
      BY <1>1 DEF CloneEntry
    <3>1. \A u \in Tasks : handle[u] # l
      BY DEF Fresh, Shared
    <3>2. PermitNotLost'
      BY <3>0, <3>1 DEF TypeOK, PermitNotLost, HandlesAreTheMaps
    <3>3. QueueIsWaiters'
      BY <3>0, <3>1, <1>q DEF TypeOK, QueueIsWaiters, HandlesAreTheMaps
    <3> QED
      BY <3>2, <3>3
  <2> QED
    BY <2>1, <2>2
<1>2. ASSUME NEW t \in Tasks, Poll(t)
      PROVE  PermitNotLost' /\ QueueIsWaiters'
  <2> DEFINE l == handle[t]
  <2>0. l \in Locks
    BY <1>2 DEF TypeOK, HandlesAreTheMaps, Poll
  <2>1. CASE owner[l] = NoTask
    <3>1. owner' = [owner EXCEPT ![l] = t] /\ pc' = [pc EXCEPT ![t] = "holding"]
          /\ UNCHANGED <<queue, handle>> /\ pc[t] = "asking"
      BY <1>2, <2>1 DEF Poll
    <3>2. PermitNotLost'
      BY <3>1, <2>0, <2>1 DEF TypeOK, PermitNotLost
    <3>3. QueueIsWaiters'
      BY <3>1, <2>0, <2>1, <1>q DEF TypeOK, QueueIsWaiters, PermitNotLost
    <3> QED
      BY <3>2, <3>3
  <2>2. CASE owner[l] # NoTask
    <3>1. queue' = [queue EXCEPT ![l] = Append(queue[l], t)]
          /\ pc' = [pc EXCEPT ![t] = "queued"]
          /\ UNCHANGED <<owner, handle>> /\ pc[t] = "asking"
      BY <1>2, <2>2 DEF Poll
    <3>2. /\ Len(Append(queue[l], t)) = Len(queue[l]) + 1
          /\ \A i \in 1..Len(queue[l]) : Append(queue[l], t)[i] = queue[l][i]
          /\ Append(queue[l], t)[Len(queue[l]) + 1] = t
      BY <2>0 DEF TypeOK
    <3>3. PermitNotLost'
      BY <3>1, <2>0, <2>2 DEF TypeOK, PermitNotLost
    <3>4. QueueIsWaiters'
      <4>0. /\ \A m \in Locks : m # l => queue'[m] = queue[m]
            /\ Len(queue'[l]) = Len(queue[l]) + 1
            /\ \A i \in 1..Len(queue[l]) : queue'[l][i] = queue[l][i]
            /\ queue'[l][Len(queue[l]) + 1] = t
        BY <3>1, <3>2, <2>0 DEF TypeOK
      <4>1. \A m \in Locks : \A i \in 1..Len(queue[m]) : queue[m][i] # t
        BY <3>1 DEF QueueIsWaiters
      <4>2. owner[l] # t /\ pc'[t] = "queued" /\ handle'[t] = l
        BY <3>1, <2>0 DEF TypeOK, PermitNotLost
      <4>3. ASSUME NEW m \in Locks, NEW i \in 1..Len(queue'[m])
            PROVE  /\ pc'[queue'[m][i]] = "queued"
                   /\ handle'[queue'[m][i]] = m
                   /\ queue'[m][i] # owner'[m]
                   /\ \A j \in 1..Len(queue'[m]) : queue'[m][i] = queue'[m][j] => i = j
        <5>1. CASE m # l
          BY <5>1, <4>0, <4>1, <3>1, <1>q DEF TypeOK, QueueIsWaiters
        <5>2. CASE m = l /\ i \in 1..Len(queue[l])
          <6>1. queue[l][i] \in Tasks \ {t}
            BY <5>2, <4>1, <1>q, <2>0
          <6>2. \A j \in 1..Len(queue'[l]) : j \in 1..Len(queue[l]) \/ j = Len(queue[l]) + 1
            BY <4>0, <1>q, <2>0
          <6> QED
            BY <5>2, <6>1, <6>2, <4>0, <3>1, <2>0 DEF TypeOK, QueueIsWaiters
        <5>3. CASE m = l /\ i = Len(queue[l]) + 1
          <6>1. \A j \in 1..Len(queue'[l]) : j \in 1..Len(queue[l]) \/ j = Len(queue[l]) + 1
            BY <4>0, <1>q, <2>0
          <6> QED
            BY <5>3, <6>1, <4>0, <4>1, <4>2, <3>1, <2>0
        <5> QED
          BY <5>1, <5>2, <5>3, <4>0, <1>q, <2>0
      <4>4. ASSUME NEW u \in Tasks, pc'[u] = "queued"
            PROVE  \/ owner'[handle'[u]] = u
                   \/ \E i \in 1..Len(queue'[handle'[u]]) : queue'[handle'[u]][i] = u
        <5>1. CASE u = t
          <6>1. Len(queue[l]) + 1 \in 1..Len(queue'[l])
            BY <4>0, <1>q, <2>0
          <6> QED
            BY <5>1, <6>1, <4>0, <4>2
        <5>2. CASE u # t
          <6>1. pc[u] = "queued" /\ handle'[u] = handle[u] /\ handle[u] \in Locks
            BY <5>2, <4>4, <3>1 DEF TypeOK, HandlesAreTheMaps
          <6>2. CASE handle[u] # l \/ owner[l] = u
            BY <6>1, <6>2, <4>0, <3>1 DEF QueueIsWaiters
          <6>3. CASE handle[u] = l /\ owner[l] # u
            <7> PICK i \in 1..Len(queue[l]) : queue[l][i] = u
              BY <6>1, <6>3 DEF QueueIsWaiters
            <7> Len(queue[l]) \in Nat
              BY <1>q, <2>0
            <7>1. i \in 1..Len(queue'[l]) /\ queue'[l][i] = u
              BY <4>0
            <7> QED
              BY <7>1, <6>1, <6>3
          <6> QED
            BY <6>2, <6>3
        <5> QED
          BY <5>1, <5>2
      <4>5. \A m \in Locks : owner'[m] = NoTask => queue'[m] = <<>>
        BY <4>0, <3>1, <2>2 DEF QueueIsWaiters
      <4> QED
        BY <4>3, <4>4, <4>5 DEF QueueIsWaiters
    <3> QED
      BY <3>3, <3>4
  <2> QED
    BY <2>1, <2>2
<1>3. ASSUME NEW t \in Tasks, Wake(t)
      PROVE  PermitNotLost' /\ QueueIsWaiters'
  <2>1. handle[t] \in Locks
    BY <1>3 DEF TypeOK, HandlesAreTheMaps, Wake
  <2>2. PermitNotLost'
    BY <1>3, <2>1 DEF TypeOK, PermitNotLost, Wake
  <2>3. QueueIsWaiters'
    BY <1>3, <2>1, <1>q DEF TypeOK, QueueIsWaiters, Wake
  <2> QED
    BY <2>2, <2>3
<1>4. ASSUME NEW t \in Tasks, NEW l \in Locks, handle[t] = l, owner[l] = t,
             PassOn(l), pc' \in [Tasks -> Phases], handle' \in [Tasks -> Locks \cup {NoLock}],
             \A u \in Tasks \ {t} : pc'[u] = pc[u] /\ handle'[u] = handle[u],
             pc'[t] \in {"idle", "leaving"}
      PROVE  PermitNotLost' /\ QueueIsWaiters'
  <2>1. /\ \A m \in Locks : m # l => owner'[m] = owner[m] /\ queue'[m] = queue[m]
        /\ \/ queue[l] = <<>> /\ owner'[l] = NoTask /\ queue'[l] = <<>>
           \/ /\ Len(queue[l]) \in Nat \ {0}
              /\ owner'[l] = queue[l][1]
              /\ Len(queue'[l]) = Len(queue[l]) - 1
              /\ \A i \in 1..Len(queue'[l]) : queue'[l][i] = queue[l][i + 1]
    BY <1>4, PassOnProperties
  <2>0. \A u \in Tasks : pc[u] # "idle" => handle[u] \in Locks
    BY DEF TypeOK, HandlesAreTheMaps
  <2>2. \A m \in Locks : m # l => owner[m] # t
    BY <1>4 DEF PermitNotLost
  <2>3. \A m \in Locks : \A i \in 1..Len(queue[m]) : queue[m][i] # t
    BY <1>4 DEF QueueIsWaiters
  <2>4. CASE queue[l] = <<>>
    <3>0. owner'[l] = NoTask /\ queue'[l] = <<>>
      BY <2>1, <2>4
    <3>1. PermitNotLost'
      <4>1. ASSUME NEW m \in Locks, owner'[m] # NoTask
            PROVE  pc'[owner'[m]] \in {"holding", "queued"} /\ handle'[owner'[m]] = m
        <5>1. m # l /\ owner'[m] = owner[m] /\ owner[m] \in Tasks \ {t}
          BY <4>1, <2>1, <2>2, <3>0 DEF TypeOK
        <5> QED
          BY <5>1, <4>1, <1>4 DEF PermitNotLost
      <4>2. ASSUME NEW u \in Tasks, pc'[u] = "holding"
            PROVE  owner'[handle'[u]] = u
        <5>1. u # t /\ pc[u] = "holding" /\ handle'[u] = handle[u] /\ handle[u] \in Locks
          BY <4>2, <1>4, <2>0
        <5> QED
          BY <5>1, <1>4, <2>1 DEF PermitNotLost
      <4> QED
        BY <4>1, <4>2 DEF PermitNotLost
    <3>2. QueueIsWaiters'
      <4>1. \A m \in Locks : \A i \in 1..Len(queue'[m]) :
               m # l /\ queue'[m] = queue[m] /\ queue[m][i] \in Tasks \ {t}
        BY <1>q, <2>1, <2>3, <3>0
      <4>2. \A u \in Tasks : pc'[u] = "queued" =>
               u # t /\ pc[u] = "queued" /\ handle'[u] # l /\ handle'[u] = handle[u]
        BY <1>4, <2>4 DEF QueueIsWaiters
      <4>3. \A u \in Tasks : pc'[u] = "queued" =>
              \/ owner'[handle'[u]] = u
              \/ \E i \in 1..Len(queue'[handle'[u]]) : queue'[handle'[u]][i] = u
        BY <4>2, <2>0, <2>1 DEF QueueIsWaiters
      <4>4. \A m \in Locks : owner'[m] = NoTask => queue'[m] = <<>>
        BY <2>1, <3>0 DEF QueueIsWaiters
      <4>5. ASSUME NEW m \in Locks, NEW i \in 1..Len(queue'[m])
            PROVE  /\ pc'[queue'[m][i]] = "queued"
                   /\ handle'[queue'[m][i]] = m
                   /\ queue'[m][i] # owner'[m]
                   /\ \A j \in 1..Len(queue'[m]) : queue'[m][i] = queue'[m][j] => i = j
        <5>1. m # l /\ queue'[m] = queue[m] /\ queue[m][i] \in Tasks \ {t}
          BY <4>1
        <5>2. owner'[m] = owner[m]
          BY <5>1, <2>1
        <5>3. /\ pc'[queue[m][i]] = pc[queue[m][i]]
              /\ handle'[queue[m][i]] = handle[queue[m][i]]
          BY <5>1, <1>4
        <5> QED
          BY <5>1, <5>2, <5>3 DEF QueueIsWaiters
      <4> QED
        BY <4>3, <4>4, <4>5 DEF QueueIsWaiters
    <3> QED
      BY <3>1, <3>2
  <2>5. CASE queue[l] # <<>>
    <3>0. /\ Len(queue[l]) \in Nat \ {0}
          /\ owner'[l] = queue[l][1]
          /\ Len(queue'[l]) = Len(queue[l]) - 1
          /\ \A i \in 1..Len(queue'[l]) : queue'[l][i] = queue[l][i + 1]
      BY <2>1, <2>5
    <3>1. queue[l][1] \in Tasks \ {t} /\ pc[queue[l][1]] = "queued" /\ handle[queue[l][1]] = l
      BY <1>q, <2>3, <3>0 DEF QueueIsWaiters
    <3>2. PermitNotLost'
      <4>1. ASSUME NEW m \in Locks, owner'[m] # NoTask
            PROVE  pc'[owner'[m]] \in {"holding", "queued"} /\ handle'[owner'[m]] = m
        <5>1. CASE m = l
          BY <5>1, <3>0, <3>1, <1>4
        <5>2. CASE m # l
          <6>1. owner'[m] = owner[m] /\ owner[m] \in Tasks \ {t}
            BY <5>2, <4>1, <2>1, <2>2 DEF TypeOK
          <6> QED
            BY <6>1, <4>1, <1>4 DEF PermitNotLost
        <5> QED
          BY <5>1, <5>2
      <4>2. ASSUME NEW u \in Tasks, pc'[u] = "holding"
            PROVE  owner'[handle'[u]] = u
        <5>1. u # t /\ pc[u] = "holding" /\ handle'[u] = handle[u] /\ handle[u] \in Locks
          BY <4>2, <1>4, <2>0
        <5> QED
          BY <5>1, <1>4, <2>1 DEF PermitNotLost
      <4> QED
        BY <4>1, <4>2 DEF PermitNotLost
    <3>3. QueueIsWaiters'
      <4>1. \A m \in Locks : \A i \in 1..Len(queue'[m]) :
               /\ pc'[queue'[m][i]] = "queued"
               /\ handle'[queue'[m][i]] = m
               /\ queue'[m][i] # owner'[m]
               /\ \A j \in 1..Len(queue'[m]) : queue'[m][i] = queue'[m][j] => i = j
        <5> SUFFICES ASSUME NEW m \in Locks, NEW i \in 1..Len(queue'[m])
                     PROVE  /\ pc'[queue'[m][i]] = "queued"
                            /\ handle'[queue'[m][i]] = m
                            /\ queue'[m][i] # owner'[m]
                            /\ \A j \in 1..Len(queue'[m]) :
                                 queue'[m][i] = queue'[m][j] => i = j
          OBVIOUS
        <5>1. CASE m # l
          BY <5>1, <1>4, <1>q, <2>1, <2>3 DEF QueueIsWaiters
        <5>2. CASE m = l
          <6>1. i + 1 \in 1..Len(queue[l]) /\ queue'[l][i] = queue[l][i + 1] /\ i \in Nat
            BY <5>2, <3>0
          <6>2. queue'[m][i] # owner'[m]
            BY <5>2, <6>1, <3>0 DEF QueueIsWaiters
          <6>3. \A j \in 1..Len(queue'[m]) : queue'[m][i] = queue'[m][j] => i = j
            BY <5>2, <6>1, <3>0 DEF QueueIsWaiters
          <6> QED
            BY <5>2, <6>1, <6>2, <6>3, <1>4, <1>q, <2>3 DEF QueueIsWaiters
        <5> QED
          BY <5>1, <5>2
      <4>2. ASSUME NEW u \in Tasks, pc'[u] = "queued"
            PROVE  \/ owner'[handle'[u]] = u
                   \/ \E i \in 1..Len(queue'[handle'[u]]) : queue'[handle'[u]][i] = u
        <5>1. u # t /\ pc[u] = "queued" /\ handle'[u] = handle[u] /\ handle[u] \in Locks
          BY <4>2, <1>4 DEF HandlesAreTheMaps, TypeOK
        <5>2. CASE handle[u] # l
          BY <5>1, <5>2, <2>1 DEF QueueIsWaiters
        <5>3. CASE handle[u] = l
          <6> PICK i \in 1..Len(queue[l]) : queue[l][i] = u
            BY <5>1, <5>3, <1>4 DEF QueueIsWaiters
          <6>1. CASE i = 1
            BY <6>1, <5>1, <5>3, <3>0
          <6>2. CASE i # 1
            <7>1. i - 1 \in 1..Len(queue'[l]) /\ (i - 1) + 1 = i
              BY <6>2, <3>0
            <7>2. queue'[l][i - 1] = u
              BY <7>1, <3>0
            <7> QED
              BY <7>1, <7>2, <5>1, <5>3
          <6> QED
            BY <6>1, <6>2
        <5> QED
          BY <5>2, <5>3
      <4>3. \A m \in Locks : owner'[m] = NoTask => queue'[m] = <<>>
        BY <2>1, <3>0, <3>1 DEF QueueIsWaiters
      <4> QED
        BY <4>1, <4>2, <4>3 DEF QueueIsWaiters
    <3> QED
      BY <3>2, <3>3
  <2> QED
    BY <2>4, <2>5
<1>5. ASSUME NEW t \in Tasks, DropGuard(t)
      PROVE  PermitNotLost' /\ QueueIsWaiters'
  <2>1. /\ handle[t] \in Locks /\ owner[handle[t]] = t
        /\ PassOn(handle[t])
    BY <1>5 DEF TypeOK, HandlesAreTheMaps, PermitNotLost, DropGuard
  <2>2. /\ pc' \in [Tasks -> Phases] /\ handle' \in [Tasks -> Locks \cup {NoLock}]
        /\ \A u \in Tasks \ {t} : pc'[u] = pc[u] /\ handle'[u] = handle[u]
        /\ pc'[t] = "idle"
    BY <1>5 DEF TypeOK, DropGuard, Phases
  <2> QED
    BY <1>4, <2>1, <2>2
<1>6. ASSUME NEW t \in Tasks, Cancel(t)
      PROVE  PermitNotLost' /\ QueueIsWaiters'
  <2> DEFINE l == handle[t]
  <2>0. /\ l \in Locks
        /\ pc' = [pc EXCEPT ![t] = "leaving"]
        /\ UNCHANGED handle
    BY <1>6 DEF TypeOK, HandlesAreTheMaps, Cancel
  <2>1. CASE pc[t] = "asking"
    <3>1. UNCHANGED <<owner, queue>>
      BY <1>6, <2>1 DEF Cancel
    <3>2. PermitNotLost'
      BY <2>0, <2>1, <3>1 DEF TypeOK, PermitNotLost
    <3>3. QueueIsWaiters'
      BY <2>0, <2>1, <3>1, <1>q DEF TypeOK, QueueIsWaiters
    <3> QED
      BY <3>2, <3>3
  <2>2. CASE pc[t] = "queued" /\ owner[l] = t
    <3>1. PassOn(l)
      BY <1>6, <2>2 DEF Cancel
    <3>2. /\ pc' \in [Tasks -> Phases] /\ handle' \in [Tasks -> Locks \cup {NoLock}]
          /\ \A u \in Tasks \ {t} : pc'[u] = pc[u] /\ handle'[u] = handle[u]
          /\ pc'[t] = "leaving"
      BY <2>0 DEF TypeOK, Phases
    <3> QED
      BY <1>4, <2>0, <2>2, <3>1, <3>2
  <2>3. CASE pc[t] = "queued" /\ owner[l] # t
    <3> PICK i \in 1..Len(queue[l]) :
             queue[l][i] = t /\ queue' = [queue EXCEPT ![l] = RemoveAt(queue[l], i)]
      BY <1>6, <2>3 DEF Cancel
    <3>0. Len(queue[l]) \in Nat /\ i \in Nat /\ 1 <= i /\ i <= Len(queue[l])
      BY <1>q, <2>0
    <3>1. UNCHANGED owner
      BY <1>6, <2>3 DEF Cancel
    <3>2. /\ Len(queue'[l]) = Len(queue[l]) - 1
          /\ \A j \in 1..(Len(queue[l]) - 1) :
               queue'[l][j] = IF j < i THEN queue[l][j] ELSE queue[l][j + 1]
      BY <2>0, RemoveAtProperties DEF TypeOK
    <3>3. \A m \in Locks : m # l => queue'[m] = queue[m]
      BY <2>0 DEF TypeOK
    <3>4. \A m \in Locks : m # l => \A j \in 1..Len(queue[m]) : queue[m][j] # t
      BY <2>0 DEF QueueIsWaiters
    <3>5. \A j \in 1..Len(queue[l]) : queue[l][j] = t => j = i
      BY <2>0 DEF QueueIsWaiters
    <3>6. PermitNotLost'
      BY <2>0, <2>3, <3>1 DEF TypeOK, PermitNotLost
    <3>7. ASSUME NEW m \in Locks, NEW j \in 1..Len(queue'[m])
          PROVE  /\ pc'[queue'[m][j]] = "queued"
                 /\ handle'[queue'[m][j]] = m
                 /\ queue'[m][j] # owner'[m]
                 /\ \A k \in 1..Len(queue'[m]) : queue'[m][j] = queue'[m][k] => j = k
      <4>1. CASE m # l
        <5>1. queue'[m] = queue[m] /\ queue[m][j] \in Tasks \ {t}
          BY <4>1, <3>3, <3>4, <1>q
        <5>2. pc'[queue[m][j]] = pc[queue[m][j]] /\ handle'[queue[m][j]] = handle[queue[m][j]]
          BY <5>1, <2>0 DEF TypeOK
        <5> QED
          BY <5>1, <5>2, <3>1 DEF QueueIsWaiters
      <4>2. CASE m = l
        <5> DEFINE Old(n) == IF n < i THEN n ELSE n + 1
        <5>1. \A n \in 1..(Len(queue[l]) - 1) :
                /\ Old(n) \in 1..Len(queue[l])
                /\ Old(n) # i
                /\ queue'[l][n] = queue[l][Old(n)]
          <6> SUFFICES ASSUME NEW n \in 1..(Len(queue[l]) - 1)
                       PROVE  /\ Old(n) \in 1..Len(queue[l])
                              /\ Old(n) # i
                              /\ queue'[l][n] = queue[l][Old(n)]
            BY Zenon
          <6>1. queue'[l][n] = IF n < i THEN queue[l][n] ELSE queue[l][n + 1]
            BY <3>2
          <6>2. CASE n < i
            BY <3>0, <6>1, <6>2
          <6>3. CASE ~(n < i)
            BY <3>0, <6>1, <6>3
          <6> QED
            BY <6>2, <6>3
        <5>2. \A n, k \in 1..(Len(queue[l]) - 1) : Old(n) = Old(k) => n = k
          BY <3>0
        <5> HIDE DEF Old
        <5>3. /\ j \in 1..(Len(queue[l]) - 1)
              /\ queue'[l][j] = queue[l][Old(j)]
              /\ queue[l][Old(j)] \in Tasks \ {t}
          <6>1. j \in 1..(Len(queue[l]) - 1)
            BY <4>2, <3>2
          <6>2. Old(j) \in 1..Len(queue[l]) /\ Old(j) # i /\ queue'[l][j] = queue[l][Old(j)]
            BY <5>1, <6>1
          <6> QED
            BY <6>1, <6>2, <3>5, <1>q, <2>0
        <5>4. \A k \in 1..Len(queue'[m]) : queue'[m][j] = queue'[m][k] => j = k
          <6> SUFFICES ASSUME NEW k \in 1..Len(queue'[m]), queue'[m][j] = queue'[m][k]
                       PROVE  j = k
            BY Zenon
          <6>1. k \in 1..(Len(queue[l]) - 1) /\ queue'[l][j] = queue'[l][k]
            BY <4>2, <3>2
          <6>2. /\ Old(j) \in 1..Len(queue[l]) /\ Old(k) \in 1..Len(queue[l])
                /\ queue[l][Old(j)] = queue[l][Old(k)]
            BY <5>1, <5>3, <6>1
          <6>3. Old(j) = Old(k)
            BY <6>2, <2>0 DEF QueueIsWaiters
          <6> QED
            BY <5>2, <5>3, <6>1, <6>3
        <5>5. /\ pc'[queue[l][Old(j)]] = pc[queue[l][Old(j)]]
              /\ handle'[queue[l][Old(j)]] = handle[queue[l][Old(j)]]
          BY <5>3, <2>0 DEF TypeOK
        <5>6. /\ pc[queue[l][Old(j)]] = "queued" /\ handle[queue[l][Old(j)]] = l
              /\ queue[l][Old(j)] # owner[l]
          <6>1. Old(j) \in 1..Len(queue[l])
            BY <5>1, <5>3
          <6> QED
            BY <6>1, <2>0 DEF QueueIsWaiters
        <5>7. queue'[m][j] = queue[l][Old(j)] /\ owner'[m] = owner[m]
          BY <4>2, <5>3, <3>1
        <5> QED
          BY <4>2, <5>4, <5>5, <5>6, <5>7
      <4> QED
        BY <4>1, <4>2
    <3>8. ASSUME NEW u \in Tasks, pc'[u] = "queued"
          PROVE  \/ owner'[handle'[u]] = u
                 \/ \E j \in 1..Len(queue'[handle'[u]]) : queue'[handle'[u]][j] = u
      <4>1. u # t /\ pc[u] = "queued" /\ handle'[u] = handle[u] /\ handle[u] \in Locks
        BY <3>8, <2>0 DEF HandlesAreTheMaps, TypeOK
      <4>2. CASE handle[u] # l \/ owner[l] = u
        BY <4>1, <4>2, <3>1, <3>3 DEF QueueIsWaiters
      <4>3. CASE handle[u] = l /\ owner[l] # u
        <5> PICK j \in 1..Len(queue[l]) : queue[l][j] = u
          BY <4>1, <4>3 DEF QueueIsWaiters
        <5>1. CASE j < i
          <6>1. j \in 1..(Len(queue[l]) - 1) /\ queue'[l][j] = u
            BY <5>1, <3>2, <1>q, <2>0
          <6> QED
            BY <6>1, <3>2, <4>1, <4>3
        <5>2. CASE j > i
          <6>1. j - 1 \in 1..(Len(queue[l]) - 1) /\ ~(j - 1 < i) /\ (j - 1) + 1 = j
            BY <5>2, <1>q, <2>0
          <6>2. queue'[l][j - 1] = u
            BY <6>1, <3>2
          <6> QED
            BY <6>1, <6>2, <3>2, <4>1, <4>3
        <5>3. j # i
          BY <4>1
        <5> QED
          BY <5>1, <5>2, <5>3, <1>q, <2>0
      <4> QED
        BY <4>2, <4>3
    <3>9. \A m \in Locks : owner'[m] = NoTask => queue'[m] = <<>>
      <4>1. owner[l] # NoTask
        <5>1. Len(queue[l]) # 0
          BY <1>q, <2>0
        <5> QED
          BY <5>1, <2>0 DEF QueueIsWaiters
      <4> QED
        BY <4>1, <3>1, <3>3 DEF QueueIsWaiters
    <3> QED
      BY <3>6, <3>7, <3>8, <3>9 DEF QueueIsWaiters
  <2> QED
    BY <1>6, <2>1, <2>2, <2>3 DEF Cancel
<1>7. ASSUME NEW t \in Tasks, DropHandle(t)
      PROVE  PermitNotLost' /\ QueueIsWaiters'
  <2>1. PermitNotLost'
    BY <1>7 DEF TypeOK, PermitNotLost, DropHandle
  <2>2. QueueIsWaiters'
    <3>1. \A m \in Locks : \A i \in 1..Len(queue[m]) : queue[m][i] \in Tasks \ {t}
      BY <1>7, <1>q DEF QueueIsWaiters, DropHandle
    <3>2. /\ UNCHANGED <<owner, queue>>
          /\ \A u \in Tasks \ {t} : pc'[u] = pc[u] /\ handle'[u] = handle[u]
          /\ pc'[t] = "idle"
      BY <1>7 DEF TypeOK, DropHandle
    <3> QED
      BY <3>1, <3>2 DEF QueueIsWaiters
  <2> QED
    BY <2>1, <2>2
<1>8. CASE Prune
  BY <1>8 DEF PermitNotLost, QueueIsWaiters, Prune
<1>9. CASE UNCHANGED vars
  BY <1>9 DEF PermitNotLost, QueueIsWaiters, vars
<1> QED
  BY <1>1, <1>2, <1>3, <1>5, <1>6, <1>7, <1>8, <1>9 DEF Next

-----------------------------------------------------------------------------
\* The lock map keeps its invariant: every user of a session has the map's
\* lock object, no permit is lost, and the queue is who waits.
THEOREM LockInvariance == Spec => []LockInv
<1>1. Init => LockInv
  BY SentinelAssumption, EmptySeq
     DEF Init, LockInv, TypeOK, HandlesAreTheMaps, LocksApart, PermitNotLost,
         QueueIsWaiters, Phases
<1>2. LockInv /\ [Next]_vars => LockInv'
  BY MapInvStep, PermitStep DEF LockInv, MapInv
<1> QED
  BY <1>1, <1>2, PTL DEF Spec

\* Two requests never hold the turn of one session, whatever is cancelled,
\* forgotten or pruned in between (refresh_lock.rs:5-7).
THEOREM MutualExclusionHolds == Spec => []MutualExclusion
<1>1. LockInv => MutualExclusion
  BY DEF LockInv, MutualExclusion, HandlesAreTheMaps, PermitNotLost
<1> QED
  BY <1>1, LockInvariance, PTL

\* Every step of the lock map is a step of the per-session turn, or changes
\* nothing the proxy can see.
LEMMA StepSimulation == LockInv /\ LockInv' /\ [Next]_vars => [Mutex!Next]_(Mutex!mutexVars)
<1> SUFFICES ASSUME LockInv, LockInv', [Next]_vars
             PROVE  [Mutex!Next]_(Mutex!mutexVars)
  OBVIOUS
<1> USE SentinelAssumption
<1> DEFINE ph == [t \in Tasks |-> Phase(t)]
           se == [t \in Tasks |-> IF Phase(t) = "none" THEN NoSession ELSE target[t]]
<1>0. pc \in [Tasks -> Phases] /\ target \in [Tasks -> Sessions \cup {NoSession}]
  BY DEF LockInv, TypeOK
<1>1. ASSUME NEW t \in Tasks, NEW s \in Sessions, CloneEntry(t, s)
      PROVE  Mutex!Want(t, s)
  BY <1>0, <1>1 DEF CloneEntry, Mutex!Want, Phase
<1>2. ASSUME NEW t \in Tasks, pc[t] \in {"asking", "queued"},
             pc' = [pc EXCEPT ![t] = "holding"], UNCHANGED target
      PROVE  Mutex!Take(t)
  <2>1. MutualExclusion'
    BY DEF LockInv, MutualExclusion, HandlesAreTheMaps, PermitNotLost
  <2>2. \A u \in Tasks : Phase(u) = "has" => target[u] # target[t]
    BY <1>0, <1>2, <2>1 DEF MutualExclusion, Phase
  <2> QED
    BY <1>0, <1>2, <2>2 DEF Mutex!Take, Phase
<1>3. ASSUME NEW t \in Tasks, Poll(t)
      PROVE  Mutex!Take(t) \/ UNCHANGED Mutex!mutexVars
  <2>1. CASE owner[handle[t]] = NoTask
    BY <1>2, <1>3, <2>1 DEF Poll
  <2>2. CASE owner[handle[t]] # NoTask
    BY <1>0, <1>3, <2>2 DEF Poll, Phase, Mutex!mutexVars
  <2> QED
    BY <2>1, <2>2
<1>4. ASSUME NEW t \in Tasks, Wake(t)
      PROVE  Mutex!Take(t)
  BY <1>2, <1>4 DEF Wake
<1>5. ASSUME NEW t \in Tasks, DropGuard(t)
      PROVE  Mutex!Release(t)
  BY <1>0, <1>5 DEF DropGuard, Mutex!Release, Phase
<1>6. ASSUME NEW t \in Tasks, Cancel(t)
      PROVE  Mutex!GiveUp(t)
  BY <1>0, <1>6 DEF Cancel, Mutex!GiveUp, Phase
<1>7. ASSUME NEW t \in Tasks, DropHandle(t)
      PROVE  UNCHANGED Mutex!mutexVars
  BY <1>0, <1>7 DEF DropHandle, Phase, Mutex!mutexVars
<1>8. CASE Prune
  BY <1>8 DEF Prune, Phase, Mutex!mutexVars
<1>9. CASE UNCHANGED vars
  BY <1>9 DEF vars, Phase, Mutex!mutexVars
<1> QED
  BY <1>1, <1>3, <1>4, <1>5, <1>6, <1>7, <1>8, <1>9 DEF Next, Mutex!Next

\* The map of reference-counted locks implements the per-session turn.
THEOREM ImplementsMutexHolds == Spec => ImplementsMutex
<1>1. Init => Mutex!Init
  BY DEF Init, Mutex!Init, Phase
<1> QED
  BY <1>1, StepSimulation, LockInvariance, PTL DEF Spec, ImplementsMutex, Mutex!Spec

-----------------------------------------------------------------------------
(* The session store                                                       *)

\* A set of naturals with a member has a least one.
LEMMA Least ==
  ASSUME NEW T, T \subseteq Nat, T # {}
  PROVE  \E n \in T : \A m \in T : n <= m
<1>1. IsWellFoundedOn(OpToRel(<, Nat), Nat)
  BY NatLessThanWellFounded, Zenon
<1>2. PICK n \in T : \A m \in T : <<m, n>> \notin OpToRel(<, Nat)
  BY <1>1, WFMin, Zenon
<1>3. \A m \in T : ~(m < n)
  BY <1>2 DEF OpToRel
<1> QED
  BY <1>3

\* What holds of 0, and of n + 1 with n, holds of every natural: a set of those it
\* holds of has them all.
LEMMA EveryNatural ==
  ASSUME NEW T, 0 \in T, \A n \in Nat : n \in T => n + 1 \in T
  PROVE  Nat \subseteq T
<1>1. SUFFICES ASSUME Nat \ T # {} PROVE FALSE
  OBVIOUS
<1>2. PICK n \in Nat \ T : \A m \in Nat \ T : n <= m
  BY <1>1, Least
<1>3. n # 0 /\ n - 1 \in Nat /\ n - 1 \in T
  BY <1>2
<1> QED
  BY <1>2, <1>3

\* The last of the first k places.
LEMMA LastOfThem ==
  ASSUME NEW k \in Nat, NEW T, T \subseteq 1..k, T # {}
  PROVE  Max(T) \in T /\ \A m \in T : m <= Max(T)
<1> DEFINE rest == {k - m : m \in T}
<1>0. \A m \in T : m \in 1..k /\ k - m \in Nat /\ k - m \in rest
  OBVIOUS
<1>1. rest \subseteq Nat /\ rest # {}
  BY <1>0
<1>2. PICK x \in rest : \A y \in rest : x <= y
  <2> HIDE DEF rest
  <2> QED
    BY <1>1, Least
<1>3. PICK last \in T : x = k - last
  BY <1>2
<1>4. ASSUME NEW m \in T PROVE last >= m
  <2>1. k - last <= k - m
    BY <1>0, <1>2, <1>3
  <2> QED
    BY <1>0, <2>1
<1>5. \E y \in T : \A m \in T : y >= m
  BY <1>3, <1>4
<1>6. Max(T) \in T /\ \A m \in T : Max(T) >= m
  BY <1>5 DEF Max
<1> QED
  BY <1>0, <1>6

\* The last of the first k places, and what is left without it.
LEMMA LastOfAnInterval ==
  ASSUME NEW k \in Nat, k # 0
  PROVE  Max(1..k) = k /\ (1..k) \ {Max(1..k)} = 1..(k - 1)
<1>1. k \in 1..k /\ 1..k # {} /\ 1..k \subseteq 1..k
  OBVIOUS
<1>2. Max(1..k) \in 1..k /\ \A m \in 1..k : m <= Max(1..k)
  BY <1>1, LastOfThem
<1>3. Max(1..k) = k
  BY <1>1, <1>2
<1>4. (1..k) \ {k} = 1..(k - 1)
  OBVIOUS
<1> QED
  BY <1>3, <1>4

\* retain, as it goes through some of the places: the last of them after the others.
Kept(ids, id, read, g) ==
    IF read = {} THEN <<>>
    ELSE IF ids[Max(read)] = id THEN g[read \ {Max(read)}]
         ELSE Append(g[read \ {Max(read)}], ids[Max(read)])
IsRetain(g, ids, id) == g = [read \in SUBSET DOMAIN ids |-> Kept(ids, id, read, g)]

\* It goes through all of any sequence: through the first k places for every k.
LEMMA RetainExists ==
  ASSUME NEW ids, NEW n \in Nat, DOMAIN ids = 1..n, NEW id
  PROVE  \E g : IsRetain(g, ids, id)
<1> DEFINE Upto(k) == SUBSET (1..k)
           There(k) == \E g : g = [read \in Upto(k) |-> Kept(ids, id, read, g)]
           Known == {k \in Nat : There(k)}
<1>1. 0 \in Known
  <2> DEFINE g == [read \in Upto(0) |-> <<>>]
  <2>1. \A read \in Upto(0) : Kept(ids, id, read, g) = <<>>
    BY DEF Kept
  <2>2. g = [read \in Upto(0) |-> Kept(ids, id, read, g)]
    BY <2>1
  <2>3. There(0)
    BY <2>2, Zenon
  <2> HIDE DEF There
  <2> QED
    BY <2>3
<1>2. ASSUME NEW k \in Nat, k \in Known PROVE k + 1 \in Known
  <2>1. There(k) /\ (There(k + 1) => k + 1 \in Known)
    <3> HIDE DEF There
    <3> QED
      BY <1>2
  <2>2. PICK g : g = [read \in Upto(k) |-> Kept(ids, id, read, g)]
    BY <2>1, Zenon
  <2> DEFINE h == [read \in Upto(k + 1) |-> Kept(ids, id, read, g)]
  <2>3. \A read \in Upto(k) : read \in Upto(k + 1) /\ h[read] = g[read]
    <3>1. Upto(k) \subseteq Upto(k + 1)
      OBVIOUS
    <3> HIDE DEF Upto
    <3> QED
      BY <2>2, <3>1
  <2>4. ASSUME NEW read \in Upto(k + 1), read # {} PROVE read \ {Max(read)} \in Upto(k)
    <3>0. k + 1 \in Nat /\ read \subseteq 1..(k + 1)
      BY <2>4
    <3>1. Max(read) \in read /\ \A m \in read : m <= Max(read)
      BY <2>4, <3>0, LastOfThem
    <3>2. ASSUME NEW m \in read, m # Max(read) PROVE m \in 1..k
      <4>1. m \in 1..(k + 1) /\ Max(read) \in 1..(k + 1) /\ m <= Max(read)
        BY <2>4, <3>1
      <4> QED
        BY <3>2, <4>1
    <3> QED
      BY <3>2
  <2> HIDE DEF Upto
  <2>5. ASSUME NEW read \in Upto(k + 1) PROVE Kept(ids, id, read, g) = Kept(ids, id, read, h)
    <3>1. CASE read = {}
      BY <3>1 DEF Kept
    <3>2. CASE read # {}
      <4>1. h[read \ {Max(read)}] = g[read \ {Max(read)}]
        BY <2>3, <2>4, <3>2
      <4> HIDE DEF h
      <4> QED
        BY <3>2, <4>1 DEF Kept
    <3> QED
      BY <3>1, <3>2
  <2>6. h = [read \in Upto(k + 1) |-> Kept(ids, id, read, h)]
    BY <2>5
  <2> QED
    BY <2>1, <2>6, Zenon
<1>3. n \in Known
  <2> HIDE DEF Known
  <2>1. Nat \subseteq Known
    BY <1>1, <1>2, EveryNatural, Zenon
  <2> QED
    BY <2>1
<1>4. There(n)
  <2> HIDE DEF There
  <2> QED
    BY <1>3
<1> QED
  BY <1>4, Zenon DEF IsRetain

\* Of a sequence without repetitions, what is kept is all but the id, again without
\* repetitions (Vec::retain).
LEMMA RetainKeepsTheOthers ==
  ASSUME NEW S, NEW ids \in Seq(S), IsInjective(ids), NEW id
  PROVE  /\ retain(ids, id) \in Seq(S)
         /\ Range(retain(ids, id)) = Range(ids) \ {id}
         /\ IsInjective(retain(ids, id))
<1> DEFINE n == Len(ids)
           g == CHOOSE g : IsRetain(g, ids, id)
<1>1. n \in Nat /\ DOMAIN ids = 1..n /\ \A i \in 1..n : ids[i] \in S
  OBVIOUS
<1>2. IsRetain(g, ids, id)
  BY <1>1, RetainExists
<1>3. retain(ids, id) = g[1..n]
  BY <1>1 DEF retain, FoldLeft, MapThenFoldSet, IsRetain, Kept
<1> HIDE DEF g
<1>4. \A read \in SUBSET (1..n) : g[read] = Kept(ids, id, read, g)
  BY <1>1, <1>2 DEF IsRetain
<1> DEFINE Sound(s, k) == /\ s \in Seq(S)
                          /\ Range(s) = {ids[i] : i \in 1..k} \ {id}
                          /\ IsInjective(s)
           Told == {k \in Nat : k <= n => Sound(g[1..k], k)}
<1>5. 0 \in Told
  <2>1. 1..0 = {} /\ {} \in SUBSET (1..n)
    OBVIOUS
  <2>2. g[1..0] = <<>>
    BY <1>4, <2>1 DEF Kept
  <2>3. Range(<<>>) = {} /\ IsInjective(<<>>) /\ <<>> \in Seq(S)
    BY DEF Range, IsInjective
  <2>4. {ids[i] : i \in 1..0} = {}
    BY <2>1
  <2> QED
    BY <2>2, <2>3, <2>4
<1>6. ASSUME NEW k \in Nat, k \in Told PROVE k + 1 \in Told
  <2> SUFFICES ASSUME k + 1 <= n PROVE Sound(g[1..(k + 1)], k + 1)
    OBVIOUS
  <2> DEFINE s == g[1..k]
             own == ids[k + 1]
  <2>1. s \in Seq(S) /\ Range(s) = {ids[i] : i \in 1..k} \ {id} /\ IsInjective(s)
    BY <1>1, <1>6
  <2>2. /\ k + 1 \in 1..n /\ k + 1 \in Nat /\ k + 1 # 0 /\ (k + 1) - 1 = k
        /\ 1..(k + 1) \in SUBSET (1..n) /\ 1..(k + 1) # {} /\ own \in S
    <3>1. k + 1 \in 1..n /\ k + 1 \in Nat /\ k + 1 # 0 /\ (k + 1) - 1 = k
      BY <1>1
    <3>2. 1..(k + 1) \subseteq 1..n /\ k + 1 \in 1..(k + 1)
      BY <1>1, <3>1
    <3> QED
      BY <1>1, <3>1, <3>2
  <2>3. g[1..(k + 1)] = IF own = id THEN s ELSE Append(s, own)
    <3>1. Max(1..(k + 1)) = k + 1 /\ (1..(k + 1)) \ {Max(1..(k + 1))} = 1..k
      BY <2>2, LastOfAnInterval
    <3> QED
      BY <1>4, <2>2, <3>1 DEF Kept
  <2>4. {ids[i] : i \in 1..(k + 1)} = {ids[i] : i \in 1..k} \cup {own}
    <3>1. \A i \in 1..(k + 1) : i \in 1..k \/ i = k + 1
      OBVIOUS
    <3>2. \A i \in 1..k : i \in 1..(k + 1)
      OBVIOUS
    <3> QED
      BY <2>2, <3>1, <3>2
  <2>5. own \notin Range(s)
    <3>1. \A i \in 1..k : i \in 1..n /\ i # k + 1
      BY <2>2
    <3> QED
      BY <1>1, <2>1, <2>2, <3>1 DEF IsInjective
  <2> HIDE DEF s, own
  <2>6. CASE own = id
    BY <2>1, <2>3, <2>4, <2>6
  <2>7. CASE own # id
    <3>1. /\ Append(s, own) \in Seq(S) /\ DOMAIN Append(s, own) = DOMAIN s \cup {Len(s) + 1}
          /\ Len(s) + 1 \notin DOMAIN s
          /\ \A i \in DOMAIN s : Append(s, own)[i] = s[i]
          /\ Append(s, own)[Len(s) + 1] = own
      BY <2>1, <2>2
    <3>2. Range(Append(s, own)) = Range(s) \cup {own}
      BY <3>1 DEF Range
    <3>3. IsInjective(Append(s, own))
      BY <2>1, <2>5, <3>1 DEF IsInjective, Range
    <3> QED
      BY <2>1, <2>3, <2>4, <2>7, <3>1, <3>2, <3>3
  <2> QED
    BY <2>6, <2>7
<1>7. Sound(g[1..n], n)
  <2>1. n \in Told
    <3> HIDE DEF Told
    <3>1. Nat \subseteq Told
      BY <1>5, <1>6, EveryNatural, Zenon
    <3> QED
      BY <1>1, <3>1
  <2> QED
    BY <1>1, <2>1
<1>8. {ids[i] : i \in 1..n} = Range(ids)
  BY <1>1 DEF Range
<1> QED
  BY <1>3, <1>7, <1>8

\* The index is in step with a store's sessions: it has each user's, each once.
InStep(st) ==
    /\ DOMAIN st.by_id \subseteq SessionIds
    /\ st.by_id \in [DOMAIN st.by_id -> SessionData]
    /\ DOMAIN st.by_user = {st.by_id[id].user_id : id \in DOMAIN st.by_id}
    /\ \A u \in DOMAIN st.by_user :
          /\ st.by_user[u] \in Seq(SessionIds)
          /\ IsInjective(st.by_user[u])
          /\ Range(st.by_user[u]) = {id \in DOMAIN st.by_id : st.by_id[id].user_id = u}

\* A removed session leaves the index, and its user's entry goes with the last one.
LEMMA RemoveKeepsInStep ==
  ASSUME NEW st, InStep(st), NEW id \in DOMAIN st.by_id
  PROVE  /\ InStep(remove(st, id))
         /\ remove(st, id).by_id = [i \in DOMAIN st.by_id \ {id} |-> st.by_id[i]]
<1> DEFINE u == st.by_id[id].user_id
           new == remove(st, id)
           left == retain(st.by_user[u], id)
<1>1. /\ new.by_id = [i \in DOMAIN st.by_id \ {id} |-> st.by_id[i]]
      /\ new.by_user = unindex(st.by_user, id, u)
  BY DEF remove, Restrict
<1>2. /\ u \in DOMAIN st.by_user
      /\ st.by_user[u] \in Seq(SessionIds) /\ IsInjective(st.by_user[u])
      /\ Range(st.by_user[u]) = {i \in DOMAIN st.by_id : st.by_id[i].user_id = u}
  BY DEF InStep
<1>3. /\ left \in Seq(SessionIds) /\ IsInjective(left)
      /\ Range(left) = Range(st.by_user[u]) \ {id}
  BY <1>2, RetainKeepsTheOthers
<1>4. new.by_user = IF left = <<>> THEN [v \in DOMAIN st.by_user \ {u} |-> st.by_user[v]]
                    ELSE [st.by_user EXCEPT ![u] = left]
  BY <1>1, <1>2 DEF unindex, Restrict
<1> HIDE DEF new, left, u
<1>5. left = <<>> <=> Range(left) = {}
  <2>1. left \in Seq(SessionIds)
    BY <1>3
  <2>2. left = <<>> => DOMAIN left = {}
    OBVIOUS
  <2>3. DOMAIN left = {} => left = <<>>
    BY <2>1
  <2> QED
    BY <2>2, <2>3 DEF Range
<1>6. Range(left) = {i \in DOMAIN new.by_id : new.by_id[i].user_id = u}
  BY <1>1, <1>2, <1>3
<1>7. \A v : v # u => {i \in DOMAIN new.by_id : new.by_id[i].user_id = v}
                        = {i \in DOMAIN st.by_id : st.by_id[i].user_id = v}
  BY <1>1 DEF u
<1>8. DOMAIN new.by_id \subseteq SessionIds /\ new.by_id \in [DOMAIN new.by_id -> SessionData]
  BY <1>1 DEF InStep
<1>9. DOMAIN st.by_user = {st.by_id[i].user_id : i \in DOMAIN st.by_id}
  BY DEF InStep
<1>10. CASE left = <<>>
  <2>1. DOMAIN new.by_user = DOMAIN st.by_user \ {u}
        /\ \A v \in DOMAIN new.by_user : new.by_user[v] = st.by_user[v]
    BY <1>4, <1>10
  <2>2. DOMAIN new.by_user = {new.by_id[i].user_id : i \in DOMAIN new.by_id}
    <3>1. \A i \in DOMAIN new.by_id : new.by_id[i].user_id # u
      BY <1>5, <1>6, <1>10
    <3>2. \A i \in DOMAIN new.by_id : i \in DOMAIN st.by_id /\ new.by_id[i] = st.by_id[i]
      BY <1>1
    <3>3. \A i \in DOMAIN st.by_id : st.by_id[i].user_id # u => i \in DOMAIN new.by_id
      BY <1>1 DEF u
    <3> QED
      BY <1>9, <2>1, <3>1, <3>2, <3>3
  <2>3. InStep(new)
    BY <1>7, <1>8, <2>1, <2>2 DEF InStep
  <2> QED
    BY <1>1, <2>3 DEF new
<1>11. CASE left # <<>>
  <2>1. /\ DOMAIN new.by_user = DOMAIN st.by_user /\ new.by_user[u] = left
        /\ \A v \in DOMAIN new.by_user : v # u => new.by_user[v] = st.by_user[v]
    BY <1>2, <1>4, <1>11
  <2>2. DOMAIN new.by_user = {new.by_id[i].user_id : i \in DOMAIN new.by_id}
    <3>1. \E i \in DOMAIN new.by_id : new.by_id[i].user_id = u
      BY <1>5, <1>6, <1>11
    <3>2. \A i \in DOMAIN new.by_id : i \in DOMAIN st.by_id /\ new.by_id[i] = st.by_id[i]
      BY <1>1
    <3>3. \A i \in DOMAIN st.by_id : st.by_id[i].user_id # u => i \in DOMAIN new.by_id
      BY <1>1 DEF u
    <3> QED
      BY <1>9, <2>1, <3>1, <3>2, <3>3
  <2>3. InStep(new)
    BY <1>3, <1>6, <1>7, <1>8, <2>1, <2>2 DEF InStep
  <2> QED
    BY <1>1, <2>3 DEF new
<1> QED
  BY <1>10, <1>11

\* A session that is not there is put at the end of its user's entry.
LEMMA InsertKeepsInStep ==
  ASSUME NEW st, InStep(st), NEW id \in SessionIds, id \notin DOMAIN st.by_id,
         NEW data \in SessionData
  PROVE  /\ InStep(insert(st, id, data))
         /\ insert(st, id, data).by_id = With(st.by_id, id, data)
<1> DEFINE u == data.user_id
           new == insert(st, id, data)
           own == IF u \in DOMAIN st.by_user THEN st.by_user[u] ELSE <<>>
<1>1. /\ new.by_id = With(st.by_id, id, data)
      /\ new.by_user = [v \in DOMAIN st.by_user \cup {u} |->
                          IF v = u THEN Append(own, id) ELSE st.by_user[v]]
  BY DEF insert, With
<1>2. DOMAIN st.by_user = {st.by_id[i].user_id : i \in DOMAIN st.by_id}
  BY DEF InStep
<1>3. /\ own \in Seq(SessionIds) /\ IsInjective(own)
      /\ Range(own) = {i \in DOMAIN st.by_id : st.by_id[i].user_id = u}
  <2>1. CASE u \in DOMAIN st.by_user
    BY <2>1 DEF InStep
  <2>2. CASE u \notin DOMAIN st.by_user
    <3>1. {i \in DOMAIN st.by_id : st.by_id[i].user_id = u} = {}
      BY <1>2, <2>2
    <3>2. <<>> \in Seq(SessionIds) /\ IsInjective(<<>>) /\ Range(<<>>) = {}
      BY DEF IsInjective, Range
    <3> QED
      BY <2>2, <3>1, <3>2
  <2> QED
    BY <2>1, <2>2
<1> HIDE DEF own, new
<1>4. /\ DOMAIN new.by_id = DOMAIN st.by_id \cup {id} /\ new.by_id[id] = data
      /\ \A i \in DOMAIN st.by_id : new.by_id[i] = st.by_id[i]
  BY <1>1 DEF With
<1>5. /\ DOMAIN new.by_user = DOMAIN st.by_user \cup {u}
      /\ new.by_user[u] = Append(own, id)
      /\ \A v \in DOMAIN new.by_user : v # u => v \in DOMAIN st.by_user /\ new.by_user[v] = st.by_user[v]
  BY <1>1
<1>6. /\ Append(own, id) \in Seq(SessionIds) /\ IsInjective(Append(own, id))
      /\ Range(Append(own, id)) = Range(own) \cup {id}
  <2>1. /\ Append(own, id) \in Seq(SessionIds) /\ DOMAIN Append(own, id) = DOMAIN own \cup {Len(own) + 1}
        /\ Len(own) + 1 \notin DOMAIN own
        /\ \A i \in DOMAIN own : Append(own, id)[i] = own[i]
        /\ Append(own, id)[Len(own) + 1] = id
    BY <1>3
  <2>2. id \notin Range(own)
    BY <1>3
  <2> QED
    BY <1>3, <2>1, <2>2 DEF IsInjective, Range
<1>7. DOMAIN new.by_id \subseteq SessionIds /\ new.by_id \in [DOMAIN new.by_id -> SessionData]
  <2>1. DOMAIN st.by_id \subseteq SessionIds /\ \A i \in DOMAIN st.by_id : st.by_id[i] \in SessionData
    BY DEF InStep
  <2> QED
    BY <1>1, <1>4, <2>1 DEF With
<1>8. DOMAIN new.by_user = {new.by_id[i].user_id : i \in DOMAIN new.by_id}
  BY <1>2, <1>4, <1>5
<1>9. ASSUME NEW v \in DOMAIN new.by_user
      PROVE  /\ new.by_user[v] \in Seq(SessionIds)
             /\ IsInjective(new.by_user[v])
             /\ Range(new.by_user[v]) = {i \in DOMAIN new.by_id : new.by_id[i].user_id = v}
  <2>1. CASE v = u
    <3>1. {i \in DOMAIN new.by_id : new.by_id[i].user_id = u}
            = {i \in DOMAIN st.by_id : st.by_id[i].user_id = u} \cup {id}
      BY <1>4
    <3> QED
      BY <1>3, <1>5, <1>6, <2>1, <3>1
  <2>2. CASE v # u
    <3>1. {i \in DOMAIN new.by_id : new.by_id[i].user_id = v}
            = {i \in DOMAIN st.by_id : st.by_id[i].user_id = v}
      BY <1>4, <2>2
    <3>2. /\ v \in DOMAIN st.by_user /\ new.by_user[v] = st.by_user[v]
      BY <1>5, <2>2
    <3> QED
      BY <3>1, <3>2 DEF InStep
  <2> QED
    BY <2>1, <2>2
<1>10. InStep(new)
  BY <1>7, <1>8, <1>9 DEF InStep
<1> QED
  BY <1>1, <1>10 DEF new

\* remove_all, as it goes through some of the ids: one of them after the others.
One(ids) == CHOOSE x \in ids : TRUE
Left(st, ids, g) == IF ids = {} THEN st ELSE remove(g[ids \ {One(ids)}], One(ids))
IsRemoveAll(g, st, ids) == g = [some \in SUBSET ids |-> Left(st, some, g)]

\* It goes through all of any finite set of ids: through every k of them for every k.
LEMMA RemoveAllExists ==
  ASSUME NEW st, NEW ids, IsFiniteSet(ids)
  PROVE  \E g : IsRemoveAll(g, st, ids)
<1> DEFINE Upto(k) == {some \in SUBSET ids : Cardinality(some) <= k}
           There(k) == \E g : g = [some \in Upto(k) |-> Left(st, some, g)]
           Known == {k \in Nat : There(k)}
<1>0. \A some \in SUBSET ids : IsFiniteSet(some) /\ Cardinality(some) \in Nat
                                /\ Cardinality(some) <= Cardinality(ids)
  BY FS_Subset, FS_CardinalityType
<1>1. 0 \in Known
  <2> DEFINE g == [some \in Upto(0) |-> st]
  <2>1. \A some \in Upto(0) : some = {}
    BY <1>0, FS_EmptySet
  <2>2. \A some \in Upto(0) : Left(st, some, g) = st
    <3> HIDE DEF Upto, g
    <3> QED
      BY <2>1 DEF Left
  <2>3. g = [some \in Upto(0) |-> Left(st, some, g)]
    <3> HIDE DEF Upto
    <3> QED
      BY <2>2
  <2>4. There(0)
    <3> HIDE DEF Upto
    <3> QED
      BY <2>3, Zenon
  <2> HIDE DEF There
  <2> QED
    BY <2>4
<1>2. ASSUME NEW k \in Nat, k \in Known PROVE k + 1 \in Known
  <2>1. There(k) /\ (There(k + 1) => k + 1 \in Known)
    <3> HIDE DEF There
    <3> QED
      BY <1>2
  <2>2. PICK g : g = [some \in Upto(k) |-> Left(st, some, g)]
    <3> HIDE DEF Upto
    <3> QED
      BY <2>1, Zenon
  <2> DEFINE h == [some \in Upto(k + 1) |-> Left(st, some, g)]
  <2>3. \A some \in Upto(k) : some \in Upto(k + 1) /\ h[some] = g[some]
    <3>1. Upto(k) \subseteq Upto(k + 1)
      BY <1>0
    <3> HIDE DEF Upto
    <3> QED
      BY <2>2, <3>1
  <2>4. ASSUME NEW some \in Upto(k + 1), some # {} PROVE some \ {One(some)} \in Upto(k)
    <3>1. One(some) \in some
      BY <2>4 DEF One
    <3>2. Cardinality(some \ {One(some)}) = Cardinality(some) - 1
      BY <1>0, <3>1, FS_RemoveElement
    <3>3. some \ {One(some)} \in SUBSET ids /\ Cardinality(some) <= k + 1 /\ Cardinality(some) \in Nat
      BY <1>0
    <3> QED
      BY <3>2, <3>3
  <2> HIDE DEF Upto
  <2>5. ASSUME NEW some \in Upto(k + 1) PROVE Left(st, some, g) = Left(st, some, h)
    <3>1. CASE some = {}
      BY <3>1 DEF Left
    <3>2. CASE some # {}
      <4>1. h[some \ {One(some)}] = g[some \ {One(some)}]
        BY <2>3, <2>4, <3>2
      <4> HIDE DEF h
      <4> QED
        BY <3>2, <4>1 DEF Left
    <3> QED
      BY <3>1, <3>2
  <2>6. h = [some \in Upto(k + 1) |-> Left(st, some, h)]
    BY <2>5
  <2> QED
    BY <2>1, <2>6, Zenon
<1>3. There(Cardinality(ids))
  <2>1. Cardinality(ids) \in Known
    <3> HIDE DEF Known
    <3>1. Nat \subseteq Known
      BY <1>1, <1>2, EveryNatural, Zenon
    <3> QED
      BY <3>1, FS_CardinalityType
  <2> HIDE DEF There
  <2> QED
    BY <2>1
<1>4. Upto(Cardinality(ids)) = SUBSET ids
  BY <1>0
<1> HIDE DEF Upto
<1> QED
  BY <1>3, <1>4, Zenon DEF IsRemoveAll

\* What is removed is gone, and only that; the index stays in step.
LEMMA RemoveAllKeepsInStep ==
  ASSUME NEW st, InStep(st), NEW ids \in SUBSET DOMAIN st.by_id, IsFiniteSet(ids)
  PROVE  /\ InStep(remove_all(st, ids))
         /\ remove_all(st, ids).by_id = Without(st.by_id, ids)
<1> DEFINE g == CHOOSE g : IsRemoveAll(g, st, ids)
           Sound(s, some) == InStep(s) /\ s.by_id = [i \in DOMAIN st.by_id \ some |-> st.by_id[i]]
           Told == {k \in Nat : \A some \in SUBSET ids :
                                   Cardinality(some) <= k => Sound(g[some], some)}
<1>0. \A some \in SUBSET ids : IsFiniteSet(some) /\ Cardinality(some) \in Nat
  BY FS_Subset, FS_CardinalityType
<1>1. IsRemoveAll(g, st, ids)
  BY RemoveAllExists
<1>2. remove_all(st, ids) = g[ids]
  BY DEF remove_all, FoldSet, MapThenFoldSet, IsRemoveAll, Left, One
<1> HIDE DEF g
<1>3. \A some \in SUBSET ids : g[some] = Left(st, some, g)
  BY <1>1 DEF IsRemoveAll
<1>4. 0 \in Told
  <2>1. \A some \in SUBSET ids : Cardinality(some) <= 0 => some = {}
    BY <1>0, FS_EmptySet
  <2>2. g[{}] = st
    BY <1>3 DEF Left
  <2>3. Sound(st, {})
    BY DEF InStep
  <2> HIDE DEF Sound
  <2> QED
    BY <2>1, <2>2, <2>3
<1>5. ASSUME NEW k \in Nat, k \in Told PROVE k + 1 \in Told
  <2> SUFFICES ASSUME NEW some \in SUBSET ids, Cardinality(some) <= k + 1
               PROVE  Sound(g[some], some)
    <3> HIDE DEF Sound
    <3> QED
      OBVIOUS
  <2> DEFINE x == One(some)
             rest == some \ {x}
  <2>1. CASE some = {}
    <3>1. some \in SUBSET ids /\ Cardinality(some) <= k
      BY <2>1, FS_EmptySet
    <3> HIDE DEF Sound
    <3> QED
      BY <1>5, <3>1
  <2>2. CASE some # {}
    <3>1. x \in some
      BY <2>2 DEF One
    <3>2. Cardinality(rest) = Cardinality(some) - 1
      BY <1>0, <3>1, FS_RemoveElement
    <3>3. rest \in SUBSET ids /\ Cardinality(rest) <= k
      BY <1>0, <3>2
    <3>4. Sound(g[rest], rest)
      <4> HIDE DEF Sound, rest
      <4> QED
        BY <1>5, <3>3
    <3>5. g[some] = remove(g[rest], x)
      BY <1>3, <2>2 DEF Left
    <3>6. x \in DOMAIN g[rest].by_id
      BY <3>1, <3>4
    <3>7. /\ InStep(remove(g[rest], x))
          /\ remove(g[rest], x).by_id = [i \in DOMAIN g[rest].by_id \ {x} |-> g[rest].by_id[i]]
      BY <3>4, <3>6, RemoveKeepsInStep
    <3>8. g[some].by_id = [i \in DOMAIN st.by_id \ some |-> st.by_id[i]]
      <4>1. (DOMAIN st.by_id \ rest) \ {x} = DOMAIN st.by_id \ some
        BY <3>1
      <4>2. DOMAIN g[rest].by_id = DOMAIN st.by_id \ rest
            /\ \A i \in DOMAIN g[rest].by_id : g[rest].by_id[i] = st.by_id[i]
        BY <3>4
      <4> HIDE DEF rest, x
      <4> QED
        BY <3>5, <3>7, <4>1, <4>2
    <3> QED
      BY <3>5, <3>7, <3>8
  <2> QED
    BY <2>1, <2>2
<1>6. Sound(g[ids], ids)
  <2>1. Cardinality(ids) \in Told
    <3> HIDE DEF Told
    <3>1. Nat \subseteq Told
      BY <1>4, <1>5, EveryNatural, Zenon
    <3> QED
      BY <3>1, FS_CardinalityType
  <2>2. Cardinality(ids) <= Cardinality(ids)
    BY FS_CardinalityType
  <2> HIDE DEF Sound
  <2> QED
    BY <2>1, <2>2
<1> QED
  BY <1>2, <1>6 DEF Without

\* What is in step with the index does not depend on the store's other parts.
LEMMA InStepIsOfTheMaps ==
  ASSUME NEW st, NEW t, InStep(st), t.by_id = st.by_id, t.by_user = st.by_user
  PROVE  InStep(t)
  BY DEF InStep

Own(st, u) == {id \in DOMAIN st.by_id : st.by_id[id].user_id = u}

\* The index has a user's sessions, also a user's that has none.
LEMMA IndexedAreOwn ==
  ASSUME NEW st, InStep(st), NEW u
  PROVE  /\ Indexed(st, u) = Own(st, u)
         /\ Indexed(st, u) \cap DOMAIN st.by_id = Own(st, u)
<1>1. CASE u \in DOMAIN st.by_user
  BY <1>1 DEF InStep, Indexed, Own
<1>2. CASE u \notin DOMAIN st.by_user
  <2>1. Own(st, u) = {}
    BY <1>2 DEF InStep, Own
  <2> QED
    BY <1>2, <2>1 DEF Indexed
<1> QED
  BY <1>1, <1>2

\* One session beyond the cap is the oldest; of several as old, the one pushed first.
LEMMA OneOldest ==
  ASSUME NEW st, InStep(st), IsFiniteSet(DOMAIN st.by_id), NEW u, Own(st, u) # {}
  PROVE  \E x \in Own(st, u) :
            /\ Oldest(st, u, 1) = {x}
            /\ \A k \in Own(st, u) : st.by_id[x].created_at <= st.by_id[k].created_at
<1> DEFINE own == Own(st, u)
           ids == st.by_user[u]
           at(id) == CHOOSE i \in DOMAIN ids : ids[i] = id
           age(id) == st.by_id[id].created_at
           before(a, b) == \/ age(a) < age(b)
                           \/ age(a) = age(b) /\ at(a) < at(b)
           older(id) == {o \in own : before(o, id)}
<1>1. Oldest(st, u, 1) = {id \in own : Cardinality(older(id)) < 1}
  <2>1. Indexed(st, u) \cap DOMAIN st.by_id = own
    BY IndexedAreOwn
  <2> HIDE DEF own
  <2> QED
    BY <2>1 DEF Oldest
<1>2. \A id \in own : age(id) \in Nat
  BY DEF InStep, SessionData, Own
<1>3. \A id \in own : at(id) \in Nat /\ ids[at(id)] = id
  <2>1. u \in DOMAIN st.by_user
    BY DEF InStep, Own
  <2>2. ids \in Seq(SessionIds) /\ Range(ids) = own
    BY <2>1 DEF InStep, Own
  <2>3. \A id \in own : \E i \in DOMAIN ids : ids[i] = id
    BY <2>2 DEF Range
  <2>4. \A i \in DOMAIN ids : i \in Nat
    BY <2>2
  <2> QED
    BY <2>3, <2>4
<1>4. IsFiniteSet(own) /\ \A id \in own : IsFiniteSet(older(id)) /\ Cardinality(older(id)) \in Nat
  <2>1. IsFiniteSet(own)
    <3>1. own \in SUBSET DOMAIN st.by_id
      BY DEF Own
    <3> QED
      BY <3>1, FS_Subset
  <2>2. \A id \in own : older(id) \in SUBSET own
    OBVIOUS
  <2> HIDE DEF own, older
  <2> QED
    BY <2>1, <2>2, FS_Subset, FS_CardinalityType
<1> HIDE DEF at, age, own
<1>5. PICK x \in own : \A k \in own : age(x) < age(k) \/ (age(x) = age(k) /\ at(x) <= at(k))
  <2> DEFINE ages == {age(id) : id \in own}
  <2>1. ages \subseteq Nat /\ ages # {}
    BY <1>2 DEF own
  <2>2. PICK first \in ages : \A a \in ages : first <= a
    <3> HIDE DEF ages
    <3> QED
      BY <2>1, Least
  <2> DEFINE places == {at(id) : id \in {k \in own : age(k) = first}}
  <2>3. places \subseteq Nat /\ places # {}
    BY <1>3, <2>2
  <2>4. PICK p \in places : \A q \in places : p <= q
    <3> HIDE DEF places
    <3> QED
      BY <2>3, Least
  <2>5. PICK x \in own : age(x) = first /\ at(x) = p
    BY <2>4
  <2>6. ASSUME NEW k \in own PROVE age(x) < age(k) \/ (age(x) = age(k) /\ at(x) <= at(k))
    <3>1. age(x) <= age(k) /\ age(x) \in Nat /\ age(k) \in Nat
      BY <1>2, <2>2, <2>5, <2>6
    <3>2. CASE age(x) = age(k)
      <4>1. at(k) \in places
        BY <2>5, <2>6, <3>2
      <4> QED
        BY <2>4, <2>5, <3>2, <4>1
    <3> QED
      BY <3>1, <3>2
  <2> QED
    BY <2>6
<1>6. Cardinality(older(x)) < 1
  <2>1. \A o \in own : ~before(o, x)
    <3> SUFFICES ASSUME NEW o \in own PROVE ~before(o, x)
      OBVIOUS
    <3>1. /\ age(x) \in Nat /\ age(o) \in Nat /\ at(x) \in Nat /\ at(o) \in Nat
          /\ age(x) < age(o) \/ (age(x) = age(o) /\ at(x) <= at(o))
      BY <1>2, <1>3, <1>5
    <3> QED
      BY <3>1
  <2>2. older(x) = {}
    <3> HIDE DEF before
    <3> QED
      BY <2>1
  <2> QED
    BY <2>2, FS_EmptySet
<1>7. ASSUME NEW k \in own, k # x PROVE ~(Cardinality(older(k)) < 1)
  <2>1. before(x, k)
    <3>1. at(x) # at(k)
      BY <1>3, <1>5, <1>7
    <3>2. age(x) < age(k) \/ (age(x) = age(k) /\ at(x) <= at(k))
      BY <1>5, <1>7
    <3>3. at(x) \in Nat /\ at(k) \in Nat
      BY <1>3, <1>5, <1>7
    <3> QED
      BY <3>1, <3>2, <3>3
  <2>2. older(k) # {}
    <3> HIDE DEF before
    <3> QED
      BY <2>1
  <2> HIDE DEF older
  <2>3. Cardinality(older(k)) # 0 /\ Cardinality(older(k)) \in Nat
    BY <1>4, <2>2, FS_EmptySet
  <2> QED
    BY <2>3
<1> HIDE DEF older
<1>8. Oldest(st, u, 1) = {x}
  BY <1>1, <1>6, <1>7
<1>9. \A k \in own : age(x) <= age(k)
  BY <1>2, <1>5
<1> QED
  BY <1>8, <1>9 DEF own, age

\* Nobody goes when there is no excess.
LEMMA NoneOldest ==
  ASSUME NEW st, InStep(st), IsFiniteSet(DOMAIN st.by_id), NEW u
  PROVE  Oldest(st, u, 0) = {}
<1> DEFINE own == Indexed(st, u) \cap DOMAIN st.by_id
           at(id) == CHOOSE i \in DOMAIN st.by_user[u] : st.by_user[u][i] = id
           before(a, b) ==
             \/ st.by_id[a].created_at < st.by_id[b].created_at
             \/ st.by_id[a].created_at = st.by_id[b].created_at /\ at(a) < at(b)
           older(id) == {o \in own : before(o, id)}
<1>1. Oldest(st, u, 0) = {id \in own : Cardinality(older(id)) < 0}
  BY DEF Oldest
<1>2. \A id : older(id) \in SUBSET DOMAIN st.by_id
  OBVIOUS
<1> HIDE DEF older
<1>3. \A id : Cardinality(older(id)) \in Nat
  BY <1>2, FS_Subset, FS_CardinalityType
<1> HIDE DEF own
<1> QED
  BY <1>1, <1>3

\* What every step keeps.
StoreKept ==
    /\ InStep(Store) /\ IsFiniteSet(DOMAIN by_id)
    /\ DOMAIN by_id \subseteq issued /\ issued \subseteq SessionIds
    /\ now \in 0..MaxTime
    /\ CapHolds

\* An entry of the index has as many ids as it has places.
LEMMA KeptIsTheInvariant == StoreKept => StoreInv
<1> SUFFICES ASSUME StoreKept PROVE StoreInv
  OBVIOUS
<1>1. /\ DOMAIN by_user = {by_id[id].user_id : id \in DOMAIN by_id}
      /\ \A u \in DOMAIN by_user :
            /\ by_user[u] \in Seq(SessionIds) /\ IsInjective(by_user[u])
            /\ Range(by_user[u]) = {id \in DOMAIN by_id : by_id[id].user_id = u}
  BY DEF StoreKept, InStep, Store
<1>2. ASSUME NEW s \in Seq(SessionIds), IsInjective(s) PROVE Len(s) = Cardinality(Range(s))
  <2>1. Len(s) \in Nat /\ s \in [1..Len(s) -> Range(s)] /\ \A y \in Range(s) : \E i \in 1..Len(s) : s[i] = y
    BY DEF Range
  <2>2. s \in Bijection(1..Len(s), Range(s))
    BY <1>2, <2>1 DEF Bijection, Injection, Surjection
  <2>3. ExistsBijection(1..Len(s), Range(s))
    BY <2>2 DEF ExistsBijection
  <2> QED
    BY <2>1, <2>3, FS_CountingElements
<1> QED
  BY <1>1, <1>2 DEF StoreInv, IndexInStep, StoreKept

\* A store with some of the sessions, and no others, is within the cap too.
LEMMA FewerAreKept ==
  ASSUME StoreKept, NEW st, InStep(st), NEW ids, st.by_id = Without(by_id, ids),
         SetStore(st), UNCHANGED <<issued, now>>
  PROVE  StoreKept' /\ by_id' = Without(by_id, ids)
<1>1. by_id' = Without(by_id, ids)
  BY DEF SetStore
<1>2. InStep(Store')
  <2>1. Store'.by_id = st.by_id /\ Store'.by_user = st.by_user
    BY DEF Store, SetStore
  <2> QED
    BY <2>1, InStepIsOfTheMaps
<1>3. DOMAIN by_id' \in SUBSET DOMAIN by_id
  BY <1>1 DEF Without
<1>4. IsFiniteSet(DOMAIN by_id')
  BY <1>3, FS_Subset DEF StoreKept
<1>5. ASSUME NEW u \in Users
      PROVE  Cardinality({id \in DOMAIN by_id' : by_id'[id].user_id = u}) <= MAX_SESSIONS_PER_USER
  <2> DEFINE own == {id \in DOMAIN by_id : by_id[id].user_id = u}
             now_own == {id \in DOMAIN by_id' : by_id'[id].user_id = u}
  <2>1. own \in SUBSET DOMAIN by_id /\ now_own \in SUBSET own
    BY <1>1 DEF Without
  <2>2. Cardinality(own) <= MAX_SESSIONS_PER_USER
    BY DEF StoreKept, CapHolds
  <2> HIDE DEF own, now_own
  <2>3. IsFiniteSet(own)
    BY <2>1, FS_Subset DEF StoreKept
  <2>4. /\ Cardinality(now_own) <= Cardinality(own)
        /\ Cardinality(own) \in Nat /\ Cardinality(now_own) \in Nat
    BY <2>1, <2>3, FS_Subset, FS_CardinalityType
  <2>5. Cardinality(now_own) <= MAX_SESSIONS_PER_USER
    BY <2>2, <2>4, CapAssumption
  <2> QED
    BY <2>5 DEF now_own
<1>6. CapHolds'
  BY <1>5 DEF CapHolds
<1> QED
  BY <1>1, <1>2, <1>3, <1>4, <1>6 DEF StoreKept

\* What revoke and the sweep drop is gone, and only that.
LEMMA DropKeeps ==
  ASSUME StoreKept, NEW ids \in SUBSET DOMAIN by_id,
         SetStore(remove_all(Store, ids)), UNCHANGED <<issued, now>>
  PROVE  StoreKept' /\ by_id' = Without(by_id, ids)
<1>1. InStep(Store) /\ Store.by_id = by_id /\ IsFiniteSet(ids)
  BY FS_Subset DEF StoreKept, Store
<1>2. InStep(remove_all(Store, ids)) /\ remove_all(Store, ids).by_id = Without(by_id, ids)
  BY <1>1, RemoveAllKeepsInStep
<1> QED
  BY <1>2, FewerAreKept

\* take_session drops the session if it is there.
LEMMA TakeKeeps ==
  ASSUME StoreKept, NEW id \in SessionIds, take_session(id)
  PROVE  /\ StoreKept'
         /\ \/ id \in DOMAIN by_id /\ by_id' = Without(by_id, {id}) /\ handed' = {id}
            \/ by_id' = by_id /\ handed' = {}
<1>1. InStep(Store) /\ Store.by_id = by_id /\ Store.by_user = by_user
  BY DEF StoreKept, Store
<1>2. CASE id \in DOMAIN by_id
  <2>1. InStep(remove(Store, id)) /\ remove(Store, id).by_id = Without(by_id, {id})
    BY <1>1, <1>2, RemoveKeepsInStep DEF Without
  <2>2. SetStore(remove(Store, id)) /\ UNCHANGED <<issued, now>> /\ handed' = {id}
    BY <1>2 DEF take_session
  <2>3. StoreKept' /\ by_id' = Without(by_id, {id})
    BY <2>1, <2>2, FewerAreKept
  <2> QED
    BY <1>2, <2>2, <2>3
<1>3. CASE id \notin DOMAIN by_id
  <2>1. UNCHANGED <<by_id, by_user, issued, now>> /\ handed' = {}
    BY <1>1, <1>3 DEF take_session, remove, SetStore
  <2> QED
    BY <2>1 DEF StoreKept, Store, CapHolds
<1> QED
  BY <1>2, <1>3

\* A refresh moves the end of the session's refresh token and nothing else.
LEMMA UpdateKeeps ==
  ASSUME StoreKept, NEW id \in SessionIds, NEW rotated \in BOOLEAN, update_session(id, rotated)
  PROVE  /\ StoreKept' /\ handed' = {}
         /\ \/ UNCHANGED by_id
            \/ id \in DOMAIN by_id /\ by_id' = [by_id EXCEPT ![id] =
                  [by_id[id] EXCEPT !.refresh_expires_at = now + REFRESH_TTL]]
<1> DEFINE moved == [by_id[id] EXCEPT !.refresh_expires_at = now + REFRESH_TTL]
           data == IF rotated THEN moved ELSE by_id[id]
<1>1. InStep(Store) /\ Store.by_id = by_id /\ Store.by_user = by_user
  BY DEF StoreKept, Store
<1>2. by_id \in [DOMAIN by_id -> SessionData] /\ now \in Nat
  BY <1>1 DEF InStep, StoreKept
<1>3. CASE id \in DOMAIN by_id /\ SetStore(insert(remove(Store, id), id, data))
  <2>1. data \in SessionData /\ data.user_id = by_id[id].user_id
    BY <1>2, <1>3, TtlAssumption DEF SessionData
  <2> HIDE DEF data
  <2>2. /\ InStep(remove(Store, id))
        /\ remove(Store, id).by_id = [i \in DOMAIN by_id \ {id} |-> by_id[i]]
    BY <1>1, <1>3, RemoveKeepsInStep
  <2> DEFINE st == insert(remove(Store, id), id, data)
  <2>3. InStep(st) /\ st.by_id = With(remove(Store, id).by_id, id, data)
    <3>1. id \notin DOMAIN remove(Store, id).by_id
      BY <2>2
    <3> QED
      BY <2>1, <2>2, <3>1, InsertKeepsInStep
  <2>4. by_id' = st.by_id /\ by_user' = st.by_user
    BY <1>3 DEF SetStore
  <2> HIDE DEF st
  <2>5. by_id' = [by_id EXCEPT ![id] = data]
    BY <1>2, <1>3, <2>2, <2>3, <2>4 DEF With
  <2>6. InStep(Store')
    <3>1. Store'.by_id = st.by_id /\ Store'.by_user = st.by_user
      BY <2>4 DEF Store
    <3> QED
      BY <2>3, <3>1, InStepIsOfTheMaps
  <2>7. DOMAIN by_id' = DOMAIN by_id /\ \A i \in DOMAIN by_id : by_id'[i].user_id = by_id[i].user_id
    BY <1>2, <2>1, <2>5
  <2>8. CapHolds'
    <3>1. \A u : {i \in DOMAIN by_id' : by_id'[i].user_id = u} = {i \in DOMAIN by_id : by_id[i].user_id = u}
      BY <2>7
    <3> QED
      BY <3>1 DEF CapHolds, StoreKept
  <2>9. UNCHANGED <<issued, now>> /\ handed' = {}
    BY DEF update_session
  <2>10. StoreKept'
    BY <2>6, <2>7, <2>8, <2>9 DEF StoreKept
  <2>11. UNCHANGED by_id \/ by_id' = [by_id EXCEPT ![id] = moved]
    BY <1>2, <2>5 DEF data
  <2> QED
    BY <1>3, <2>9, <2>10, <2>11
<1>4. CASE UNCHANGED <<by_id, by_user>>
  BY <1>4 DEF update_session, StoreKept, Store, CapHolds
<1> QED
  BY <1>3, <1>4 DEF update_session

\* A login's session is added, and one beyond the cap, an oldest of its user's, goes.
LEMMA SaveKeeps ==
  ASSUME StoreKept, NEW id \in SessionIds, NEW user \in Users, NEW sid \in Sids \cup {NoSid},
         NEW created \in {now, now - 1} \cap Nat, save_session(id, user, sid, created)
  PROVE  LET all == With(by_id, id, [user_id |-> user, sid |-> sid, created_at |-> created,
                                     refresh_expires_at |-> created + REFRESH_TTL])
         IN  /\ StoreKept' /\ id \notin DOMAIN by_id
             /\ \E gone \in Evictions(all, user) : by_id' = Without(all, gone) /\ handed' = gone
<1> DEFINE data == [user_id |-> user, sid |-> sid, created_at |-> created,
                    refresh_expires_at |-> created + REFRESH_TTL]
           all == With(by_id, id, data)
           st == insert(Store, id, data)
           excess == Excess(st, user)
           gone == Oldest(st, user, excess)
           cap == MAX_SESSIONS_PER_USER
           before == {i \in DOMAIN by_id : by_id[i].user_id = user}
           own == {i \in DOMAIN all : all[i].user_id = user}
<1>1. InStep(Store) /\ Store.by_id = by_id /\ Store.by_user = by_user
  BY DEF StoreKept, Store
<1>2. /\ id \notin issued /\ issued' = issued \cup {id} /\ now' = now /\ handed' = gone
      /\ SetStore(remove_all(st, gone))
  BY DEF save_session
<1>3. data \in SessionData /\ data.user_id = user
  BY TtlAssumption DEF SessionData
<1> HIDE DEF data
<1>4. id \notin DOMAIN by_id /\ id \in SessionIds
  BY <1>2 DEF StoreKept
<1>5. InStep(st) /\ st.by_id = all
  BY <1>1, <1>3, <1>4, InsertKeepsInStep
<1>6. /\ DOMAIN all = DOMAIN by_id \cup {id} /\ all[id] = data
      /\ \A i \in DOMAIN by_id : all[i] = by_id[i]
  BY <1>4 DEF With
<1> HIDE DEF st, all
<1>7. IsFiniteSet(DOMAIN all) /\ IsFiniteSet(DOMAIN st.by_id)
  BY <1>5, <1>6, FS_AddElement DEF StoreKept
<1>8. before \in SUBSET DOMAIN by_id /\ own = before \cup {id} /\ id \notin before
      /\ own \in SUBSET DOMAIN all /\ own = Own(st, user)
  BY <1>3, <1>4, <1>5, <1>6 DEF Own
<1>9. Cardinality(before) <= cap
  BY DEF StoreKept, CapHolds
<1> HIDE DEF before, own
<1>10. /\ IsFiniteSet(before) /\ Cardinality(before) \in Nat /\ IsFiniteSet(own)
       /\ Cardinality(own) = Cardinality(before) + 1
  BY <1>8, FS_AddElement, FS_Subset, FS_CardinalityType DEF StoreKept
<1>11. excess = IF Cardinality(own) <= cap THEN 0 ELSE 1
  <2>1. Indexed(st, user) \cap DOMAIN st.by_id = own
    BY <1>5, <1>8, IndexedAreOwn
  <2>2. excess = IF Cardinality(own) > cap THEN Cardinality(own) - cap ELSE 0
    BY <2>1 DEF Excess
  <2>3. cap \in Nat
    BY CapAssumption
  <2> QED
    BY <1>9, <1>10, <2>2, <2>3
<1> HIDE DEF excess
<1>12. /\ gone \subseteq own
       /\ IF Cardinality(own) <= cap THEN gone = {} ELSE Cardinality(own \ gone) = cap
       /\ \A g \in gone, k \in own \ gone : all[g].created_at <= all[k].created_at
  <2>1. CASE Cardinality(own) <= cap
    <3>1. gone = {}
      BY <1>5, <1>7, <1>11, <2>1, NoneOldest
    <3> HIDE DEF gone
    <3> QED
      BY <2>1, <3>1
  <2>2. CASE ~(Cardinality(own) <= cap)
    <3>1. PICK x \in own : /\ Oldest(st, user, 1) = {x}
                           /\ \A k \in own : all[x].created_at <= all[k].created_at
      BY <1>5, <1>7, <1>8, OneOldest
    <3>2. gone = {x}
      BY <1>11, <2>2, <3>1
    <3>3. Cardinality(own \ {x}) = Cardinality(before)
      <4>1. Cardinality(own \ {x}) = Cardinality(own) - 1
        BY <1>10, FS_RemoveElement
      <4> QED
        BY <1>10, <4>1
    <3>4. Cardinality(own \ gone) = cap
      <4>1. cap \in Nat
        BY CapAssumption
      <4> QED
        BY <1>9, <1>10, <2>2, <3>2, <3>3, <4>1
    <3> HIDE DEF gone
    <3> QED
      BY <2>2, <3>1, <3>2, <3>4
  <2> QED
    BY <2>1, <2>2
<1> HIDE DEF gone, cap
<1>13. gone \in Evictions(all, user)
  BY <1>12 DEF Evictions, own, cap
<1>14. gone \in SUBSET DOMAIN all /\ IsFiniteSet(gone)
  BY <1>7, <1>8, <1>12, FS_Subset
<1>15. InStep(remove_all(st, gone)) /\ remove_all(st, gone).by_id = Without(all, gone)
  BY <1>5, <1>14, RemoveAllKeepsInStep
<1>16. by_id' = Without(all, gone) /\ by_user' = remove_all(st, gone).by_user
  BY <1>2, <1>15 DEF SetStore
<1>17. InStep(Store')
  <2>1. Store'.by_id = remove_all(st, gone).by_id /\ Store'.by_user = remove_all(st, gone).by_user
    BY <1>15, <1>16 DEF Store
  <2> QED
    BY <1>15, <2>1, InStepIsOfTheMaps
<1>18. DOMAIN by_id' = DOMAIN all \ gone /\ \A i \in DOMAIN by_id' : by_id'[i] = all[i]
  BY <1>16 DEF Without
<1>19. IsFiniteSet(DOMAIN by_id')
  BY <1>7, <1>18, FS_Subset
<1>20. ASSUME NEW u \in Users
       PROVE  Cardinality({i \in DOMAIN by_id' : by_id'[i].user_id = u}) <= MAX_SESSIONS_PER_USER
  <2> DEFINE theirs == {i \in DOMAIN by_id' : by_id'[i].user_id = u}
  <2>1. CASE u = user
    <3>1. theirs = own \ gone
      BY <1>18, <2>1 DEF own
    <3>2. Cardinality(own \ gone) <= cap
      <4>1. cap \in Nat
        BY CapAssumption DEF cap
      <4>2. gone = {} => own \ gone = own
        OBVIOUS
      <4> QED
        BY <1>12, <4>1, <4>2
    <3> QED
      BY <3>1, <3>2 DEF cap
  <2>2. CASE u # user
    <3> DEFINE had == {i \in DOMAIN by_id : by_id[i].user_id = u}
    <3>1. theirs \subseteq had
      BY <1>3, <1>6, <1>18, <2>2
    <3>2. had \in SUBSET DOMAIN by_id /\ Cardinality(had) <= MAX_SESSIONS_PER_USER
      BY DEF StoreKept, CapHolds
    <3> HIDE DEF had, theirs
    <3>3. IsFiniteSet(had)
      BY <3>2, FS_Subset DEF StoreKept
    <3>4. Cardinality(theirs) <= Cardinality(had) /\ Cardinality(had) \in Nat
          /\ Cardinality(theirs) \in Nat
      BY <3>1, <3>3, FS_Subset, FS_CardinalityType
    <3>5. Cardinality(theirs) <= MAX_SESSIONS_PER_USER
      BY <3>2, <3>4, CapAssumption
    <3> QED
      BY <3>5 DEF theirs
  <2> QED
    BY <2>1, <2>2
<1>21. StoreKept'
  <2>1. CapHolds'
    BY <1>20 DEF CapHolds
  <2>2. DOMAIN by_id' \subseteq issued' /\ issued' \subseteq SessionIds
    BY <1>2, <1>6, <1>18 DEF StoreKept
  <2> QED
    BY <1>2, <1>17, <1>19, <2>1, <2>2 DEF StoreKept
<1> QED
  BY <1>2, <1>4, <1>13, <1>16, <1>21 DEF all, data

\* A revocation names the sessions that the registry's does, whichever index it uses.
LEMMA RevokeKeeps ==
  ASSUME StoreKept, NEW selector \in Selectors, revoke(selector)
  PROVE  /\ StoreKept' /\ by_id' = Without(by_id, Matching(by_id, selector))
         /\ handed' = Matching(by_id, selector)
<1> DEFINE candidates == IF selector.kind = "Session" THEN DOMAIN by_id
                         ELSE Indexed(Store, selector.user_id)
           ids == {id \in candidates \cap DOMAIN by_id : matches(selector, by_id[id])}
<1>1. InStep(Store) /\ Store.by_id = by_id
  BY DEF StoreKept, Store
<1>2. ids = Matching(by_id, selector)
  <2>1. CASE selector.kind = "Session"
    BY <2>1 DEF Matching
  <2>2. CASE selector.kind # "Session"
    <3>1. candidates = {id \in DOMAIN by_id : by_id[id].user_id = selector.user_id}
      BY <1>1, <2>2, IndexedAreOwn DEF Own
    <3>2. selector.kind \in {"User", "UserSession"}
      BY <2>2 DEF Selectors, UserSelector, UserSessionSelector, SidSelector
    <3>3. \A id \in DOMAIN by_id : matches(selector, by_id[id]) => by_id[id].user_id = selector.user_id
      BY <3>2 DEF matches
    <3> HIDE DEF candidates
    <3> QED
      BY <3>1, <3>3 DEF Matching
  <2> QED
    BY <2>1, <2>2
<1>3. SetStore(remove_all(Store, ids)) /\ handed' = ids /\ UNCHANGED <<issued, now>>
  BY DEF revoke
<1> HIDE DEF ids
<1>4. Matching(by_id, selector) \in SUBSET DOMAIN by_id
  BY DEF Matching
<1> QED
  BY <1>2, <1>3, <1>4, DropKeeps

\* The sweep drops what is past its end.
LEMMA SweepKeeps ==
  ASSUME StoreKept, sweep_expired
  PROVE  /\ StoreKept' /\ by_id' = Without(by_id, Expired(by_id, now)) /\ handed' = {}
<1>1. Expired(by_id, now) \in SUBSET DOMAIN by_id
  BY DEF Expired
<1>2. SetStore(remove_all(Store, Expired(by_id, now))) /\ handed' = {} /\ UNCHANGED <<issued, now>>
  BY DEF sweep_expired, Expired
<1> QED
  BY <1>1, <1>2, DropKeeps

\* Time changes no session.
LEMMA TickKeeps == StoreKept /\ Tick => StoreKept'
  BY TtlAssumption DEF StoreKept, Tick, Store, CapHolds

\* The store begins with no session.
LEMMA InitStoreKept == StoreInit => StoreKept
<1> SUFFICES ASSUME StoreInit PROVE StoreKept
  OBVIOUS
<1>1. DOMAIN by_id = {} /\ DOMAIN by_user = {} /\ by_id \in [{} -> SessionData]
  BY DEF StoreInit
<1>2. InStep(Store)
  BY <1>1 DEF InStep, Store
<1>3. CapHolds
  <2>1. \A u : {id \in DOMAIN by_id : by_id[id].user_id = u} = {}
    BY <1>1
  <2> QED
    BY <2>1, FS_EmptySet, CapAssumption DEF CapHolds
<1> QED
  BY <1>1, <1>2, <1>3, FS_EmptySet, TtlAssumption DEF StoreInit, StoreKept

\* Every step keeps it.
LEMMA StoreNextKeeps == StoreKept /\ [StoreNext]_storeVars => StoreKept'
<1> SUFFICES ASSUME StoreKept, [StoreNext]_storeVars PROVE StoreKept'
  OBVIOUS
<1>1. CASE UNCHANGED storeVars
  BY <1>1 DEF storeVars, StoreKept, Store, CapHolds
<1>2. CASE \E id \in SessionIds, user \in Users, sid \in Sids \cup {NoSid} :
             \E created \in {now, now - 1} \cap Nat : save_session(id, user, sid, created)
  BY <1>2, SaveKeeps
<1>3. CASE \E id \in SessionIds, rotated \in BOOLEAN : update_session(id, rotated)
  BY <1>3, UpdateKeeps
<1>4. CASE \E id \in SessionIds : take_session(id)
  BY <1>4, TakeKeeps
<1>5. CASE \E selector \in Selectors : revoke(selector)
  BY <1>5, RevokeKeeps
<1>6. CASE sweep_expired
  BY <1>6, SweepKeeps
<1>7. CASE Tick
  BY <1>7, TickKeeps
<1> QED
  BY <1>1, <1>2, <1>3, <1>4, <1>5, <1>6, <1>7 DEF StoreNext

\* The index of each user's sessions stays in step with them, and holds no more than
\* the cap, through any logins, refreshes, logouts and sweeps (in_memory.rs:24-56).
THEOREM StoreInvariance == StoreSpec => []StoreInv
<1> QED
  BY InitStoreKept, StoreNextKeeps, KeptIsTheInvariant, PTL DEF StoreSpec

-----------------------------------------------------------------------------
(* The store is the registry                                               *)

\* The registry counts as everybody does.
LEMMA RegistrysSessions ==
  /\ \A s, ids : Registry!Without(s, ids) = Without(s, ids)
  /\ \A s, id, data : Registry!With(s, id, data) = With(s, id, data)
  /\ \A s, selector : Registry!Matching(s, selector) = Matching(s, selector)
  /\ \A s, time : Registry!Expired(s, time) = Expired(s, time)
  /\ \A s, u : Registry!Evictions(s, u) = Evictions(s, u)
  /\ Registry!Selectors = Selectors
<1>1. \A S : Registry!Cardinality(S) = Cardinality(S)
  BY Zenon DEF Registry!Cardinality, Cardinality
<1>2. \A s, ids : Registry!Without(s, ids) = Without(s, ids)
  BY DEF Registry!Without, Without
<1>3. \A s, id, data : Registry!With(s, id, data) = With(s, id, data)
  BY DEF Registry!With, With
<1>4. \A selector, data : Registry!matches(selector, data) <=> matches(selector, data)
  BY DEF Registry!matches, matches
<1>5. \A s, selector : Registry!Matching(s, selector) = Matching(s, selector)
  BY <1>4 DEF Registry!Matching, Matching
<1>6. \A data : Registry!ends_at(data) = ends_at(data)
  BY DEF Registry!ends_at, ends_at
<1>7. \A s, time : Registry!Expired(s, time) = Expired(s, time)
  BY <1>6 DEF Registry!Expired, Expired
<1>8. \A s, u : Registry!Evictions(s, u) = Evictions(s, u)
  BY <1>1 DEF Registry!Evictions, Evictions
<1>9. Registry!Selectors = Selectors
  BY DEF Registry!Selectors, Registry!UserSelector, Registry!UserSessionSelector,
     Registry!SidSelector, Selectors, UserSelector, UserSessionSelector, SidSelector
<1> QED
  BY <1>2, <1>3, <1>5, <1>7, <1>8, <1>9

\* Whatever the store does with its two maps, its callers see the registry's step.
LEMMA StepIsTheRegistrys ==
  StoreKept /\ [StoreNext]_storeVars => [Registry!Next]_(Registry!registryVars)
<1> SUFFICES ASSUME StoreKept, [StoreNext]_storeVars
             PROVE  Registry!Next \/ UNCHANGED Registry!registryVars
  OBVIOUS
<1> DEFINE Same == by_id' = by_id /\ handed' = {}
<1>1. CASE UNCHANGED storeVars
  BY <1>1 DEF storeVars, Registry!registryVars
<1>2. ASSUME NEW id \in SessionIds, NEW user \in Users, NEW sid \in Sids \cup {NoSid},
             NEW created \in {now, now - 1} \cap Nat, save_session(id, user, sid, created)
      PROVE  Registry!Operation /\ now' = now
  <2> DEFINE expires == created + REFRESH_TTL
             data == [user_id |-> user, sid |-> sid, created_at |-> created,
                      refresh_expires_at |-> expires]
  <2>1. /\ id \notin DOMAIN by_id
        /\ \E gone \in Evictions(With(by_id, id, data), user) :
              by_id' = Without(With(by_id, id, data), gone) /\ handed' = gone
    BY <1>2, SaveKeeps
  <2>2. data.user_id = user
    OBVIOUS
  <2> HIDE DEF data
  <2>3. Registry!Save(id, data)
    BY <2>1, <2>2, RegistrysSessions DEF Registry!Save
  <2>4. created \in 0..now /\ expires \in 0..(MaxTime + REFRESH_TTL)
    BY TtlAssumption DEF StoreKept
  <2>5. now' = now
    BY <1>2 DEF save_session
  <2> HIDE DEF expires
  <2>6. id \in SessionIds \ DOMAIN by_id
    BY <2>1
  <2> QED
    BY <2>3, <2>4, <2>5, <2>6 DEF Registry!Operation, data
<1>3. ASSUME NEW id \in SessionIds, NEW rotated \in BOOLEAN, update_session(id, rotated)
      PROVE  Registry!Operation /\ now' = now
  <2>1. /\ handed' = {}
        /\ \/ UNCHANGED by_id
           \/ id \in DOMAIN by_id /\ by_id' = [by_id EXCEPT ![id] =
                 [by_id[id] EXCEPT !.refresh_expires_at = now + REFRESH_TTL]]
    BY <1>3, UpdateKeeps
  <2>2. now' = now
    BY <1>3 DEF update_session
  <2>3. now + REFRESH_TTL \in 0..(MaxTime + REFRESH_TTL)
    BY TtlAssumption DEF StoreKept
  <2>4. CASE UNCHANGED by_id
    BY <2>1, <2>2, <2>4 DEF Registry!Operation
  <2>5. CASE id \in DOMAIN by_id /\ by_id' = [by_id EXCEPT ![id] =
               [by_id[id] EXCEPT !.refresh_expires_at = now + REFRESH_TTL]]
    <3>1. Registry!Update(id, [by_id[id] EXCEPT !.refresh_expires_at = now + REFRESH_TTL])
      BY <2>1, <2>5 DEF Registry!Update
    <3> QED
      BY <2>2, <2>3, <2>5, <3>1 DEF Registry!Operation
  <2> QED
    BY <2>1, <2>4, <2>5
<1>4. ASSUME NEW id \in SessionIds, take_session(id)
      PROVE  Registry!Operation /\ now' = now
  <2>1. \/ id \in DOMAIN by_id /\ by_id' = Without(by_id, {id}) /\ handed' = {id}
        \/ by_id' = by_id /\ handed' = {}
    BY <1>4, TakeKeeps
  <2>2. now' = now
    BY <1>4 DEF take_session
  <2>3. id \in DOMAIN by_id /\ by_id' = Without(by_id, {id}) /\ handed' = {id} => Registry!End({id})
    BY RegistrysSessions DEF Registry!End
  <2> QED
    BY <2>1, <2>2, <2>3 DEF Registry!Operation
<1>5. ASSUME NEW selector \in Selectors, revoke(selector)
      PROVE  Registry!Operation /\ now' = now
  <2>1. /\ by_id' = Without(by_id, Matching(by_id, selector))
        /\ handed' = Matching(by_id, selector)
    BY <1>5, RevokeKeeps
  <2>2. now' = now
    BY <1>5 DEF revoke
  <2>3. Matching(by_id, selector) \subseteq DOMAIN by_id
    BY DEF Matching
  <2>4. Registry!Revoke(selector)
    BY <2>1, <2>3, RegistrysSessions DEF Registry!Revoke, Registry!End
  <2> QED
    BY <2>2, <2>4, RegistrysSessions DEF Registry!Operation
<1>6. CASE sweep_expired
  <2>1. Registry!Sweep
    BY <1>6, SweepKeeps, RegistrysSessions DEF Registry!Sweep
  <2>2. now' = now
    BY <1>6 DEF sweep_expired
  <2> QED
    BY <2>1, <2>2 DEF Registry!Next, Registry!Operation
<1>7. CASE Tick
  BY <1>7 DEF Tick, Registry!Next
<1> QED
  BY <1>1, <1>2, <1>3, <1>4, <1>5, <1>6, <1>7 DEF StoreNext, Registry!Next

\* The two maps are the set of sessions that the storage traits promise: what is saved is
\* there until it is dropped, and what is dropped is what was named
\* (bff/src/storage/mod.rs:12-33).
THEOREM ImplementsRegistryHolds == StoreSpec => ImplementsRegistry
<1>1. StoreInit => Registry!Init
  BY DEF StoreInit, Registry!Init
<1> QED
  BY <1>1, InitStoreKept, StoreNextKeeps, StepIsTheRegistrys, PTL
     DEF StoreSpec, ImplementsRegistry, Registry!Spec
=============================================================================
