----------------------------- MODULE JwksCache ------------------------------
(***************************************************************************)
(* bff's cache of Hydra's signing keys (hydra/jwks.rs).  keys_for holds    *)
(* the cache's async mutex across the fetch, so others queue behind it;    *)
(* its caller may go away while it waits or fetches.  Meanwhile Hydra      *)
(* rotates its keys, and what it answered may be out of date on arrival.   *)
(***************************************************************************)
EXTENDS Integers, FiniteSets

CONSTANTS
  Calls,         \* callers of keys_for, each calling again and again
  Kids,          \* key ids; Hydra publishes each at most once
  AtFirst,       \* the keys Hydra publishes at first
  NoKid,         \* a token that names no key
  None,          \* no call, no keys
  max_age, min_refresh,
  FetchTimeout,  \* the HTTP client's timeout
  MaxTime        \* bound on the clock

ASSUME JwksAssumption ==
  /\ AtFirst \subseteq Kids /\ NoKid \notin Kids
  /\ max_age \in Nat \ {0} /\ min_refresh \in Nat \ {0}
  /\ FetchTimeout \in Nat /\ MaxTime \in Nat
  /\ None \notin Calls \cup (0..MaxTime)

VARIABLES
  now,
  published,     \* the keys Hydra publishes
  removed,       \* removed key -> when Hydra removed it
  keys,          \* Cached::keys: [kids, fetched_at], or None
  last_attempt,  \* Cached::last_attempt, or None
  holder,        \* the call that holds the mutex across its fetch, or None
  pc,            \* call -> where it is, or its answer
  kid,           \* call -> the key its token names
  stale,         \* call -> whether it may fall back on the cached keys
  body,          \* call -> what Hydra answered its fetch, not yet arrived
  got,           \* call -> the keys it was answered, to verify its token with
  steady,        \* call -> the keys published ever since it asked
  began          \* when the last fetch began, or None

vars == <<now, published, removed, keys, last_attempt, holder, pc, kid, stale, body,
          got, steady, began>>

Errors == {"Throttled", "Unreachable", "UnknownKey"}
Answers == {"Ok", "left"} \cup Errors
Times == 0..MaxTime

\* The types; the mutex is held exactly while a fetch is under way.
TypeOK ==
  /\ now \in Times
  /\ published \subseteq Kids
  /\ removed \in [DOMAIN removed -> Times] /\ DOMAIN removed \subseteq Kids \ published
  /\ keys \in {None} \cup [kids : SUBSET Kids, fetched_at : Times]
  /\ {last_attempt, began} \subseteq Times \cup {None}
  /\ pc \in [Calls -> {"idle", "waiting", "fetching"} \cup Answers]
  /\ kid \in [Calls -> Kids \cup {NoKid}]
  /\ stale \in [Calls -> BOOLEAN]
  /\ body \in [Calls -> (SUBSET Kids) \cup {None}]
  /\ got \in [Calls -> SUBSET Kids] /\ steady \in [Calls -> SUBSET Kids]
  /\ \A c \in Calls : pc[c] = "fetching" <=> holder = c

Init ==
  /\ now = 0
  /\ published = AtFirst /\ removed = <<>>
  /\ keys = None /\ last_attempt = None
  /\ holder = None
  /\ pc = [c \in Calls |-> "idle"]
  /\ kid = [c \in Calls |-> NoKid]
  /\ stale = [c \in Calls |-> FALSE]
  /\ body = [c \in Calls |-> None]
  /\ got = [c \in Calls |-> {}]
  /\ steady = [c \in Calls |-> {}]
  /\ began = None

-----------------------------------------------------------------------------
has_kid(ks, k) == k \in ks

Answer(c, outcome, ks) ==
  /\ pc' = [pc EXCEPT ![c] = outcome]
  /\ got' = [got EXCEPT ![c] = ks]

\* The cached keys answer a token naming k as they are.
Fresh(k) ==
  /\ keys # None
  /\ now - keys.fetched_at < max_age
  /\ k = NoKid \/ has_kid(keys.kids, k)

\* Mutant: keys serve for ever while Hydra cannot be reached.
ServesForEver(k) == keys # None /\ k # NoKid /\ has_kid(keys.kids, k)

\* The cached keys serve if fresh ones cannot be had.
ServesStale(k) ==
  /\ keys # None
  /\ k # NoKid
  /\ has_kid(keys.kids, k)
  /\ now - keys.fetched_at < max_age * 2

Throttled == last_attempt # None /\ now - last_attempt < min_refresh

Ask(c, k) ==
  /\ pc[c] \in {"idle"} \cup Answers
  /\ pc' = [pc EXCEPT ![c] = "waiting"]
  /\ kid' = [kid EXCEPT ![c] = k]
  /\ got' = [got EXCEPT ![c] = {}]
  /\ steady' = [steady EXCEPT ![c] = published]
  /\ UNCHANGED <<now, published, removed, keys, last_attempt, holder, stale, body, began>>

\* keys_for with the mutex, answered from the cache: fresh, or too soon to fetch.
AnswerFromCache(c) ==
  /\ pc[c] = "waiting" /\ holder = None
  /\ \/ Fresh(kid[c]) /\ Answer(c, "Ok", keys.kids)
     \/ /\ ~Fresh(kid[c]) /\ Throttled
        /\ \/ ServesStale(kid[c]) /\ Answer(c, "Ok", keys.kids)
           \/ ~ServesStale(kid[c]) /\ Answer(c, "Throttled", {})
  /\ UNCHANGED <<now, published, removed, keys, last_attempt, holder, kid, stale, body, steady,
                 began>>

\* Mutant: the attempt is not noted.
BeginFetchUnnoted(c) ==
  /\ pc[c] = "waiting" /\ holder = None
  /\ ~Fresh(kid[c]) /\ ~Throttled
  /\ began' = now
  /\ holder' = c
  /\ stale' = [stale EXCEPT ![c] = ServesStale(kid[c])]
  /\ pc' = [pc EXCEPT ![c] = "fetching"]
  /\ UNCHANGED <<now, published, removed, keys, last_attempt, kid, body, got, steady>>

\* keys_for up to the await of fetch: the attempt counts from here, however it ends.
BeginFetch(c) ==
  /\ pc[c] = "waiting" /\ holder = None
  /\ ~Fresh(kid[c]) /\ ~Throttled
  /\ last_attempt' = now
  /\ began' = now
  /\ holder' = c
  /\ stale' = [stale EXCEPT ![c] = ServesStale(kid[c])]
  /\ pc' = [pc EXCEPT ![c] = "fetching"]
  /\ UNCHANGED <<now, published, removed, keys, kid, body, got, steady>>

\* Hydra answers with the keys it publishes now.
HydraResponds(c) ==
  /\ pc[c] = "fetching" /\ body[c] = None
  /\ body' = [body EXCEPT ![c] = published]
  /\ UNCHANGED <<now, published, removed, keys, last_attempt, holder, pc, kid, stale, got,
                 steady, began>>

\* The answer arrived: the keys are as old as their arrival.
FetchOk(c) ==
  /\ pc[c] = "fetching" /\ body[c] # None
  /\ keys' = [kids |-> body[c], fetched_at |-> now]
  /\ holder' = None
  /\ body' = [body EXCEPT ![c] = None]
  /\ stale' = [stale EXCEPT ![c] = FALSE]
  /\ \/ kid[c] # NoKid /\ ~has_kid(body[c], kid[c]) /\ Answer(c, "UnknownKey", {})
     \/ (kid[c] = NoKid \/ has_kid(body[c], kid[c])) /\ Answer(c, "Ok", body[c])
  /\ UNCHANGED <<now, published, removed, last_attempt, kid, steady, began>>

\* Mutant: a failed fetch is an error whatever is cached.
FetchFailsOutright(c) ==
  /\ pc[c] = "fetching"
  /\ holder' = None
  /\ body' = [body EXCEPT ![c] = None]
  /\ stale' = [stale EXCEPT ![c] = FALSE]
  /\ Answer(c, "Unreachable", {})
  /\ UNCHANGED <<now, published, removed, keys, last_attempt, kid, steady, began>>

\* Mutant: a caller that falls back on stale keys leaves the mutex locked.
FetchFailsLocked(c) ==
  /\ pc[c] = "fetching"
  /\ \/ stale[c] /\ Answer(c, "Ok", keys.kids)
     \/ ~stale[c] /\ Answer(c, "Unreachable", {})
  /\ UNCHANGED <<now, published, removed, keys, last_attempt, holder, kid, stale, body, steady,
                 began>>

\* Unreachable, an error status, unreadable or timed out.
FetchFails(c) ==
  /\ pc[c] = "fetching"
  /\ holder' = None
  /\ body' = [body EXCEPT ![c] = None]
  /\ stale' = [stale EXCEPT ![c] = FALSE]
  /\ \/ stale[c] /\ Answer(c, "Ok", keys.kids)
     \/ ~stale[c] /\ Answer(c, "Unreachable", {})
  /\ UNCHANGED <<now, published, removed, keys, last_attempt, kid, steady, began>>

\* The caller goes away: its future and the mutex's guard are dropped.
Cancel(c) ==
  /\ pc[c] \in {"waiting", "fetching"}
  /\ holder' = IF holder = c THEN None ELSE holder
  /\ body' = [body EXCEPT ![c] = None]
  /\ stale' = [stale EXCEPT ![c] = FALSE]
  /\ Answer(c, "left", {})
  /\ UNCHANGED <<now, published, removed, keys, last_attempt, kid, steady, began>>

HydraAdds(k) ==
  /\ k \notin published /\ k \notin DOMAIN removed
  /\ published' = published \cup {k}
  /\ UNCHANGED <<now, removed, keys, last_attempt, holder, pc, kid, stale, body, got, steady,
                 began>>

HydraRemoves(k) ==
  /\ k \in published
  /\ published' = published \ {k}
  /\ removed' = [j \in DOMAIN removed \cup {k} |-> IF j = k THEN now ELSE removed[j]]
  /\ steady' = [c \in Calls |-> steady[c] \ {k}]
  /\ UNCHANGED <<now, keys, last_attempt, holder, pc, kid, stale, body, got, began>>

\* Time passes; the HTTP client lets no fetch last longer than its timeout.  An
\* answer is used at once, so it is gone when time has passed.
Tick ==
  /\ now < MaxTime
  /\ holder # None => now - began < FetchTimeout
  /\ now' = now + 1
  /\ pc' = [c \in Calls |-> IF pc[c] \in Answers THEN "idle" ELSE pc[c]]
  /\ got' = [c \in Calls |-> {}]
  /\ kid' = [c \in Calls |-> IF pc'[c] = "idle" THEN NoKid ELSE kid[c]]
  /\ steady' = [c \in Calls |-> IF pc'[c] = "idle" THEN {} ELSE steady[c]]
  /\ UNCHANGED <<published, removed, keys, last_attempt, holder, stale, body, began>>

Next ==
  \/ \E c \in Calls :
       \/ \E k \in Kids \cup {NoKid} : Ask(c, k)
       \/ AnswerFromCache(c)
       \/ BeginFetch(c)
       \/ HydraResponds(c)
       \/ FetchOk(c)
       \/ FetchFails(c)
       \/ Cancel(c)
  \/ \E k \in Kids : HydraAdds(k) \/ HydraRemoves(k)
  \/ Tick

Spec == Init /\ [][Next]_vars

\* A fetch ends, by its timeout at the latest; the mutex is first come, first
\* served, so a waiter is not passed over for ever.
Fairness == \A c \in Calls :
  /\ WF_vars(FetchFails(c))
  /\ SF_vars(AnswerFromCache(c) \/ BeginFetch(c))

FairSpec == Spec /\ Fairness

-----------------------------------------------------------------------------
\* "a key Hydra removed (after a compromise) stops verifying" (jwks.rs:44-45):
\* no caller is handed a key longer after its removal than twice the age keys are
\* trusted for, a fetch that fails, and one whose answer was long under way.
RemovedKeyStopsVerifying ==
  \A c \in Calls : \A k \in got[c] \cap DOMAIN removed :
    now - removed[k] <= max_age * 2 - 1 + FetchTimeout * 2

\* "at most one is made per min_refresh" (jwks.rs:55): fetches begin that far
\* apart, the ones that failed or whose caller went away included.
FetchesAreSpaced ==
  [][holder' # None /\ holder' # holder => began = None \/ now - began >= min_refresh]_vars

\* A token's key is called unknown, which Hydra takes for a final answer, only if
\* Hydra did not publish it all along since the caller asked
\* (backchannel_logout.rs:86-92 tells the two kinds of error apart).
UnknownOnlyIfUnpublished ==
  \A c \in Calls : pc[c] = "UnknownKey" => kid[c] \notin steady[c]

\* "so a short Hydra outage doesn't fail every check" (jwks.rs:88): a caller gets
\* a temporary error only if the cache lacks the key it named or is twice as old
\* as keys may be.
OutageTolerated ==
  [][\A c \in Calls : pc[c] # pc'[c] /\ pc'[c] \in {"Throttled", "Unreachable"} =>
       kid[c] = NoKid \/ keys = None
         \/ kid[c] \notin keys.kids \/ now - keys.fetched_at >= max_age * 2]_vars

\* Everybody who asks is answered, whoever else fetches, fails or goes away.
CallsAreAnswered ==
  \A c \in Calls : pc[c] \in {"waiting", "fetching"} ~> pc[c] \notin {"waiting", "fetching"}

\* A fetch began when it was noted, and within its timeout.
FetchIsNoted ==
  /\ last_attempt = began
  /\ began # None => began <= now
  /\ holder # None => holder \in Calls /\ began # None /\ now - began <= FetchTimeout

\* An answer on its way has all that Hydra published throughout the call, and
\* nothing it removed before the fetch.
BodyIsRecent ==
  \A c \in Calls :
    /\ steady[c] \subseteq published
    /\ body[c] # None =>
         /\ holder = c /\ steady[c] \subseteq body[c]
         /\ \A k \in body[c] \cap DOMAIN removed : removed[k] >= began

\* What is cached was published a fetch before it was stored; what may stand in
\* for the answer was young enough when the fetch began.
CachedIsRecent ==
  /\ keys # None =>
       /\ keys.fetched_at <= now
       /\ \A k \in keys.kids \cap DOMAIN removed : removed[k] + FetchTimeout >= keys.fetched_at
  /\ \A c \in Calls :
       stale[c] => holder = c /\ keys # None /\ began - keys.fetched_at < max_age * 2

\* What every state of jwks.rs keeps: a removed key is handed out for a bounded
\* time, and a published one is not called unknown.
CacheInv ==
  /\ TypeOK
  /\ FetchIsNoted /\ BodyIsRecent /\ CachedIsRecent
  /\ RemovedKeyStopsVerifying /\ UnknownOnlyIfUnpublished
=============================================================================
