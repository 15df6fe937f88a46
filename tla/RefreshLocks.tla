---------------------------- MODULE RefreshLocks ----------------------------
(***************************************************************************)
(* bff/src/server/refresh_lock.rs: a map from session id to a shared       *)
(* (Arc) asynchronous mutex.  A task clones the map's Arc under the map's  *)
(* own mutex, then waits for the lock without it.  An entry is forgotten   *)
(* when its Arc is the only one left, by the guard's Drop or by the        *)
(* periodic prune.  The danger: forgetting an entry somebody still waits   *)
(* on gives the session a second lock, and two refreshes race at Hydra.    *)
(*                                                                         *)
(* One step is one critical section of the map's mutex, one operation of   *)
(* the lock's semaphore, or one drop of an Arc.  A request is cancelled    *)
(* (its future dropped) wherever it awaits.                                *)
(***************************************************************************)
EXTENDS Naturals, Sequences, SequencesExt

CONSTANTS Tasks,     \* the requests being served
          Sessions,  \* the session ids they refresh
          Locks,     \* the lock objects (Arc<AsyncMutex>) that can be allocated
          NoTask, NoLock, NoSession

ASSUME SentinelAssumption ==
  /\ NoTask \notin Tasks
  /\ NoLock \notin Locks
  /\ NoSession \notin Sessions

VARIABLES
  locks,   \* the map: session id -> lock object, NoLock when it has no entry
  owner,   \* who has the permit of a lock object, NoTask when it is free
  queue,   \* the tasks its semaphore queues, first come first served
  pc,      \* where a task is in acquire
  handle,  \* the lock object a task (its future or its guard) has an Arc to
  target   \* the session id it acquires

vars == <<locks, owner, queue, pc, handle, target>>

Phases == {"idle", "asking", "queued", "holding", "leaving"}

TypeOK ==
  /\ locks \in [Sessions -> Locks \cup {NoLock}]
  /\ owner \in [Locks -> Tasks \cup {NoTask}]
  /\ queue \in [Locks -> Seq(Tasks)]
  /\ pc \in [Tasks -> Phases]
  /\ handle \in [Tasks -> Locks \cup {NoLock}]
  /\ target \in [Tasks -> Sessions \cup {NoSession}]

Init ==
  /\ locks = [s \in Sessions |-> NoLock]
  /\ owner = [l \in Locks |-> NoTask]
  /\ queue = [l \in Locks |-> <<>>]
  /\ pc = [t \in Tasks |-> "idle"]
  /\ handle = [t \in Tasks |-> NoLock]
  /\ target = [t \in Tasks |-> NoSession]

-----------------------------------------------------------------------------
\* Arc::strong_count(l) > 1: besides the map, a task has an Arc to l.
Shared(l) == \E t \in Tasks : handle[t] = l

\* A default-constructed AsyncMutex: an object nothing refers to.
Fresh(l) == ~Shared(l) /\ \A s \in Sessions : locks[s] # l

\* The semaphore gives a released permit to the task that waited longest.
PassOn(l) ==
  IF queue[l] = <<>>
    THEN /\ owner' = [owner EXCEPT ![l] = NoTask]
         /\ UNCHANGED queue
    ELSE /\ owner' = [owner EXCEPT ![l] = Head(queue[l])]
         /\ queue' = [queue EXCEPT ![l] = Tail(queue[l])]

\* Mutant: acquire inserts a lock of its own instead of sharing the entry's.
CloneAlwaysFresh(t, s) ==
  /\ pc[t] = "idle"
  /\ pc' = [pc EXCEPT ![t] = "asking"]
  /\ target' = [target EXCEPT ![t] = s]
  /\ \E l \in Locks :
       /\ Fresh(l)
       /\ locks' = [locks EXCEPT ![s] = l]
       /\ handle' = [handle EXCEPT ![t] = l]
       /\ owner' = [owner EXCEPT ![l] = NoTask]
       /\ queue' = [queue EXCEPT ![l] = <<>>]

\* acquire, under the map's mutex: entry(session_id).or_default().clone().
CloneEntry(t, s) ==
  /\ pc[t] = "idle"
  /\ pc' = [pc EXCEPT ![t] = "asking"]
  /\ target' = [target EXCEPT ![t] = s]
  /\ \/ /\ locks[s] # NoLock
        /\ handle' = [handle EXCEPT ![t] = locks[s]]
        /\ UNCHANGED <<locks, owner, queue>>
     \/ /\ locks[s] = NoLock
        /\ \E l \in Locks :
             /\ Fresh(l)
             /\ locks' = [locks EXCEPT ![s] = l]
             /\ handle' = [handle EXCEPT ![t] = l]
             /\ owner' = [owner EXCEPT ![l] = NoTask]
             /\ queue' = [queue EXCEPT ![l] = <<>>]

\* The first poll of lock_owned(): the permit if it is free, else the queue.
Poll(t) ==
  LET l == handle[t] IN
  /\ pc[t] = "asking"
  /\ \/ /\ owner[l] = NoTask
        /\ owner' = [owner EXCEPT ![l] = t]
        /\ pc' = [pc EXCEPT ![t] = "holding"]
        /\ UNCHANGED queue
     \/ /\ owner[l] # NoTask
        /\ queue' = [queue EXCEPT ![l] = Append(queue[l], t)]
        /\ pc' = [pc EXCEPT ![t] = "queued"]
        /\ UNCHANGED owner
  /\ UNCHANGED <<locks, handle, target>>

\* A queued task that was given the permit is polled again.
Wake(t) ==
  /\ pc[t] = "queued"
  /\ owner[handle[t]] = t
  /\ pc' = [pc EXCEPT ![t] = "holding"]
  /\ UNCHANGED <<locks, owner, queue, handle, target>>

\* Mutant: the guard is dropped without giving its permit back.
DropGuardLeaks(t) ==
  /\ pc[t] = "holding"
  /\ handle' = [handle EXCEPT ![t] = NoLock]
  /\ pc' = [pc EXCEPT ![t] = "idle"]
  /\ target' = [target EXCEPT ![t] = NoSession]
  /\ UNCHANGED <<locks, owner, queue>>

\* RefreshGuard::drop, whether the refresh ended or its request was cancelled:
\* the permit and the guard's Arc go first, then the map's Arc is counted.
DropGuard(t) ==
  LET s == target[t]
      last == locks[s] # NoLock /\ \A u \in Tasks \ {t} : handle[u] # locks[s]
  IN
  /\ pc[t] = "holding"
  /\ PassOn(handle[t])
  /\ handle' = [handle EXCEPT ![t] = NoLock]
  /\ locks' = IF last THEN [locks EXCEPT ![s] = NoLock] ELSE locks
  /\ pc' = [pc EXCEPT ![t] = "idle"]
  /\ target' = [target EXCEPT ![t] = NoSession]

\* A request cancelled before it has its guard: it leaves the semaphore's
\* queue, or passes on a permit it was given but never saw.
Cancel(t) ==
  LET l == handle[t] IN
  /\ pc[t] \in {"asking", "queued"}
  /\ pc' = [pc EXCEPT ![t] = "leaving"]
  /\ \/ /\ pc[t] = "asking"
        /\ UNCHANGED <<owner, queue>>
     \/ /\ pc[t] = "queued" /\ owner[l] = t
        /\ PassOn(l)
     \/ /\ pc[t] = "queued" /\ owner[l] # t
        /\ \E i \in 1..Len(queue[l]) :
             /\ queue[l][i] = t
             /\ queue' = [queue EXCEPT ![l] = RemoveAt(queue[l], i)]
        /\ UNCHANGED owner
  /\ UNCHANGED <<locks, handle, target>>

\* ... and only then is its Arc dropped, without the map's mutex: nobody
\* looks whether the entry is still needed.
DropHandle(t) ==
  /\ pc[t] = "leaving"
  /\ pc' = [pc EXCEPT ![t] = "idle"]
  /\ handle' = [handle EXCEPT ![t] = NoLock]
  /\ target' = [target EXCEPT ![t] = NoSession]
  /\ UNCHANGED <<locks, owner, queue>>

\* Mutant: prune forgets entries somebody waits on.
PruneAll ==
  /\ locks' = [s \in Sessions |-> NoLock]
  /\ UNCHANGED <<owner, queue, pc, handle, target>>

\* Mutant: prune keeps an entry whose only Arc is the map's.
PruneNothing ==
  UNCHANGED vars

\* The sweep's prune: forget every entry whose Arc is the only one.
Prune ==
  /\ locks' = [s \in Sessions |-> IF Shared(locks[s]) THEN locks[s] ELSE NoLock]
  /\ UNCHANGED <<owner, queue, pc, handle, target>>

Next ==
  \/ \E t \in Tasks :
       \/ \E s \in Sessions : CloneEntry(t, s)
       \/ Poll(t)
       \/ Wake(t)
       \/ DropGuard(t)
       \/ Cancel(t)
       \/ DropHandle(t)
  \/ Prune

Spec == Init /\ [][Next]_vars

\* The executor polls a woken task, a holder is done when Hydra answers or its
\* 10 second timeout ends the call, and the sweep comes round.  Nobody has to
\* ask for a lock, and nobody has to be cancelled.
Fairness ==
  /\ \A t \in Tasks : WF_vars(Poll(t)) /\ WF_vars(Wake(t))
                      /\ WF_vars(DropGuard(t)) /\ WF_vars(DropHandle(t))
  /\ WF_vars(Prune)

FairSpec == Spec /\ Fairness

-----------------------------------------------------------------------------
\* No two requests refresh one session at the same time: "two refreshes
\* racing would log the user out" (refresh_lock.rs:5-7).
MutualExclusion ==
  \A t, u \in Tasks :
    pc[t] = "holding" /\ pc[u] = "holding" /\ target[t] = target[u] => t = u

\* Everyone who has an Arc for a session has the map's: an entry is never
\* forgotten, by a guard or by prune, under a task that still uses it.
HandlesAreTheMaps ==
  \A t \in Tasks :
    pc[t] # "idle" => /\ target[t] \in Sessions
                      /\ handle[t] # NoLock
                      /\ locks[target[t]] = handle[t]

\* Two sessions never share a lock object: "other sessions do not wait".
LocksApart ==
  \A s1, s2 \in Sessions :
    locks[s1] = locks[s2] /\ locks[s1] # NoLock => s1 = s2

\* A permit is with a task that can still give it back: it holds the lock, or
\* it is queued and about to see that it does.  Nobody waits for the departed.
PermitNotLost ==
  /\ \A l \in Locks :
       owner[l] # NoTask => /\ pc[owner[l]] \in {"holding", "queued"}
                            /\ handle[owner[l]] = l
  /\ \A t \in Tasks : pc[t] = "holding" => owner[handle[t]] = t

\* The semaphore queues exactly the tasks that wait without the permit, each
\* once, on the lock it has an Arc to; a free permit leaves nobody queued.
QueueIsWaiters ==
  /\ \A l \in Locks : \A i \in 1..Len(queue[l]) :
       /\ pc[queue[l][i]] = "queued"
       /\ handle[queue[l][i]] = l
       /\ queue[l][i] # owner[l]
       /\ \A j \in 1..Len(queue[l]) : queue[l][i] = queue[l][j] => i = j
  /\ \A t \in Tasks :
       pc[t] = "queued" =>
         \/ owner[handle[t]] = t
         \/ \E i \in 1..Len(queue[handle[t]]) : queue[handle[t]][i] = t
  /\ \A l \in Locks : owner[l] = NoTask => queue[l] = <<>>

\* The inductive invariant.
LockInv ==
  /\ TypeOK
  /\ HandlesAreTheMaps
  /\ LocksApart
  /\ PermitNotLost
  /\ QueueIsWaiters

\* A request that waits for its turn gets it, however many came before it and
\* whichever of them were cancelled.
WaiterGetsItsTurn ==
  \A t \in Tasks : pc[t] \in {"asking", "queued"} ~> pc[t] \in {"holding", "leaving"}

\* No entry stays in the map for ever unused.
OrphansAreForgotten ==
  \A s \in Sessions :
    (locks[s] # NoLock /\ ~Shared(locks[s])) ~> (locks[s] = NoLock \/ Shared(locks[s]))

-----------------------------------------------------------------------------
\* The turn as the proxy sees it.
Phase(t) ==
  CASE pc[t] \in {"asking", "queued"} -> "wants"
    [] pc[t] = "holding" -> "has"
    [] OTHER -> "none"

Mutex == INSTANCE RefreshMutex WITH
  phase <- [t \in Tasks |-> Phase(t)],
  session <- [t \in Tasks |-> IF Phase(t) = "none" THEN NoSession ELSE target[t]]

\* The lock map implements the per-session turn.
ImplementsMutex == Mutex!Spec
=============================================================================
