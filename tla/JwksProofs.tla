----------------------------- MODULE JwksProofs ------------------------------
(***************************************************************************)
(* Proofs about JwksCache, for any callers, keys, ages and timeout.        *)
(* CacheInv is inductive: how old the keys are that a caller is handed is  *)
(* bounded by how old those were that an answer under way brings           *)
(* (BodyIsRecent) and the cache holds (CachedIsRecent).                    *)
(***************************************************************************)
EXTENDS JwksCache, TLAPS

\* The cached keys: when they came, and what was removed long before.  
LEMMA CachedKeysAreRecent ==
  ASSUME CacheInv, keys # None
  PROVE  /\ keys.kids \in SUBSET Kids /\ keys.fetched_at \in Nat /\ keys.fetched_at <= now
         /\ \A k \in keys.kids \cap DOMAIN removed :
              removed[k] \in Nat /\ removed[k] + FetchTimeout >= keys.fetched_at
  BY JwksAssumption DEF CacheInv, TypeOK, CachedIsRecent, Times

\* No fetch, no answer on its way and nothing to fall back on.
LEMMA NothingUnderWay ==
  ASSUME CacheInv, NEW c \in Calls, holder # c
  PROVE  pc[c] # "fetching" /\ body[c] = None /\ stale[c] = FALSE
  BY DEF CacheInv, TypeOK, BodyIsRecent, CachedIsRecent

\* The cache begins empty, with no fetch ever made.
LEMMA InitCacheInv == Init => CacheInv
<1> SUFFICES ASSUME Init PROVE CacheInv
  OBVIOUS
<1>1. TypeOK
  BY JwksAssumption DEF Init, TypeOK, Times
<1> QED
  BY <1>1, JwksAssumption DEF Init, CacheInv, FetchIsNoted, BodyIsRecent, CachedIsRecent,
     RemovedKeyStopsVerifying, UnknownOnlyIfUnpublished

\* A caller comes with the kid of its token.
LEMMA AskKeepsCacheInv ==
  ASSUME CacheInv, NEW c \in Calls, NEW k \in Kids \cup {NoKid}, Ask(c, k)
  PROVE  CacheInv'
<1> USE DEF CacheInv
<1>1. TypeOK'
  BY DEF Ask, TypeOK, Answers, Errors
<1>2. holder # c
  BY DEF Ask, TypeOK, Answers, Errors
<1>3. FetchIsNoted' /\ CachedIsRecent'
  BY DEF Ask, FetchIsNoted, CachedIsRecent
<1>4. BodyIsRecent'
  BY <1>2 DEF Ask, BodyIsRecent, TypeOK
<1>5. RemovedKeyStopsVerifying'
  BY DEF Ask, RemovedKeyStopsVerifying, TypeOK
<1>6. UnknownOnlyIfUnpublished'
  BY DEF Ask, UnknownOnlyIfUnpublished, TypeOK
<1> QED
  BY <1>1, <1>3, <1>4, <1>5, <1>6

\* The keys a call is answered with, if they are recent, keep the bound.
LEMMA AnswerKeepsBound ==
  ASSUME CacheInv, NEW c \in Calls, NEW ks \in SUBSET Kids, got' = [got EXCEPT ![c] = ks],
         UNCHANGED <<now, removed>>,
         \A k \in ks \cap DOMAIN removed :
           now - removed[k] <= max_age * 2 - 1 + FetchTimeout * 2
  PROVE  RemovedKeyStopsVerifying'
  BY DEF CacheInv, RemovedKeyStopsVerifying, TypeOK

\* keys_for without a fetch: from keys young enough, or refused by the throttle.
LEMMA AnswerFromCacheKeepsCacheInv ==
  ASSUME CacheInv, NEW c \in Calls, AnswerFromCache(c)
  PROVE  CacheInv'
<1> USE DEF CacheInv
<1>1. PICK ks \in SUBSET Kids, outcome \in {"Ok", "Throttled"} :
        /\ Answer(c, outcome, ks)
        /\ ks # {} => keys # None /\ ks = keys.kids /\ now - keys.fetched_at < max_age * 2
  BY CachedKeysAreRecent, JwksAssumption
     DEF AnswerFromCache, Fresh, ServesStale, TypeOK, Times
<1>2. TypeOK'
  BY <1>1 DEF AnswerFromCache, Answer, TypeOK, Answers, Errors
<1>3. FetchIsNoted' /\ BodyIsRecent' /\ CachedIsRecent'
  BY DEF AnswerFromCache, FetchIsNoted, BodyIsRecent, CachedIsRecent
<1>4. \A k \in ks \cap DOMAIN removed :
        now - removed[k] <= max_age * 2 - 1 + FetchTimeout * 2
  BY <1>1, CachedKeysAreRecent, JwksAssumption DEF TypeOK, Times
<1>5. RemovedKeyStopsVerifying'
  BY <1>1, <1>4, AnswerKeepsBound DEF AnswerFromCache, Answer
<1>6. UnknownOnlyIfUnpublished'
  BY <1>1 DEF AnswerFromCache, Answer, UnknownOnlyIfUnpublished, TypeOK
<1> QED
  BY <1>2, <1>3, <1>5, <1>6

\* keys_for up to its fetch: the attempt is noted, the mutex is held on.
LEMMA BeginFetchKeepsCacheInv ==
  ASSUME CacheInv, NEW c \in Calls, BeginFetch(c)
  PROVE  CacheInv'
<1> USE DEF CacheInv
<1>1. \A d \in Calls : pc[d] # "fetching" /\ body[d] = None /\ stale[d] = FALSE
  BY NothingUnderWay, JwksAssumption DEF BeginFetch
<1>2. TypeOK'
  BY <1>1, JwksAssumption DEF BeginFetch, TypeOK, ServesStale, Times
<1>3. FetchIsNoted'
  BY JwksAssumption DEF BeginFetch, FetchIsNoted, TypeOK, Times
<1>4. BodyIsRecent'
  BY <1>1 DEF BeginFetch, BodyIsRecent
<1>5. CachedIsRecent'
  BY <1>1 DEF BeginFetch, CachedIsRecent, ServesStale, TypeOK
<1>6. RemovedKeyStopsVerifying' /\ UnknownOnlyIfUnpublished'
  BY DEF BeginFetch, RemovedKeyStopsVerifying, UnknownOnlyIfUnpublished, TypeOK
<1> QED
  BY <1>2, <1>3, <1>4, <1>5, <1>6

\* Hydra answers with what it publishes then.
LEMMA HydraRespondsKeepsCacheInv ==
  ASSUME CacheInv, NEW c \in Calls, HydraResponds(c)
  PROVE  CacheInv'
<1> USE DEF CacheInv
<1>1. TypeOK'
  BY DEF HydraResponds, TypeOK
<1>2. holder = c /\ published \cap DOMAIN removed = {}
  BY DEF HydraResponds, TypeOK
<1>3. BodyIsRecent'
  BY <1>2 DEF HydraResponds, BodyIsRecent, TypeOK
<1> QED
  BY <1>1, <1>3 DEF HydraResponds, FetchIsNoted, CachedIsRecent, RemovedKeyStopsVerifying,
     UnknownOnlyIfUnpublished

\* A fetch that ends frees the mutex and leaves nothing under way.
LEMMA FetchEnds ==
  ASSUME CacheInv, NEW c \in Calls, holder = c,
         holder' = None, body' = [body EXCEPT ![c] = None], stale' = [stale EXCEPT ![c] = FALSE],
         UNCHANGED <<now, published, removed, last_attempt, began, steady>>
  PROVE  /\ FetchIsNoted' /\ BodyIsRecent'
         /\ \A d \in Calls : body'[d] = None /\ stale'[d] = FALSE
<1>1. \A d \in Calls : body'[d] = None /\ stale'[d] = FALSE
  BY NothingUnderWay DEF CacheInv, TypeOK
<1> QED
  BY <1>1 DEF CacheInv, FetchIsNoted, BodyIsRecent

\* The answer arrives and replaces the cached keys.
LEMMA FetchOkKeepsCacheInv ==
  ASSUME CacheInv, NEW c \in Calls, FetchOk(c)
  PROVE  CacheInv'
<1> USE DEF CacheInv
<1>1. PICK ks \in SUBSET Kids, outcome \in {"Ok", "UnknownKey"} :
        /\ Answer(c, outcome, ks) /\ ks \subseteq body[c]
        /\ outcome = "UnknownKey" => kid[c] \notin body[c]
  <2>1. body[c] \in SUBSET Kids
    BY DEF FetchOk, TypeOK
  <2> QED
    BY <2>1 DEF FetchOk, has_kid
<1>2. /\ holder = c /\ steady[c] \subseteq body[c] /\ body[c] \in SUBSET Kids
      /\ began \in Nat /\ now \in Nat /\ began <= now /\ now - began <= FetchTimeout
      /\ \A k \in body[c] \cap DOMAIN removed : removed[k] \in Nat /\ removed[k] >= began
  BY JwksAssumption DEF FetchOk, TypeOK, BodyIsRecent, FetchIsNoted, Times
<1>3. TypeOK'
  BY <1>1, <1>2, JwksAssumption DEF FetchOk, Answer, TypeOK, Answers, Errors
<1>4. FetchIsNoted' /\ BodyIsRecent' /\ \A d \in Calls : stale'[d] = FALSE
  BY <1>2, FetchEnds DEF FetchOk
<1>5. CachedIsRecent'
  BY <1>2, <1>4, JwksAssumption DEF FetchOk, CachedIsRecent
<1>6. \A k \in ks \cap DOMAIN removed :
        now - removed[k] <= max_age * 2 - 1 + FetchTimeout * 2
  BY <1>1, <1>2, JwksAssumption
<1>7. RemovedKeyStopsVerifying'
  BY <1>1, <1>6, AnswerKeepsBound DEF FetchOk, Answer
<1>8. UnknownOnlyIfUnpublished'
  BY <1>1, <1>2 DEF FetchOk, Answer, UnknownOnlyIfUnpublished, TypeOK
<1> QED
  BY <1>3, <1>4, <1>5, <1>7, <1>8

\* The fetch fails: the caller is given the old keys if they may stand in.
LEMMA FetchFailsKeepsCacheInv ==
  ASSUME CacheInv, NEW c \in Calls, FetchFails(c)
  PROVE  CacheInv'
<1> USE DEF CacheInv
<1>1. PICK ks \in SUBSET Kids, outcome \in {"Ok", "Unreachable"} :
        /\ Answer(c, outcome, ks)
        /\ ks # {} => stale[c] /\ ks = keys.kids
  BY CachedKeysAreRecent DEF FetchFails, CachedIsRecent, TypeOK
<1>2. holder = c
  BY DEF FetchFails, TypeOK
<1>3. TypeOK'
  BY <1>1, <1>2, JwksAssumption DEF FetchFails, Answer, TypeOK, Answers, Errors
<1>4. FetchIsNoted' /\ BodyIsRecent' /\ \A d \in Calls : stale'[d] = FALSE
  BY <1>2, FetchEnds DEF FetchFails
<1>5. CachedIsRecent'
  BY <1>4 DEF FetchFails, CachedIsRecent
<1>6. ASSUME NEW k \in ks \cap DOMAIN removed
      PROVE  now - removed[k] <= max_age * 2 - 1 + FetchTimeout * 2
  <2>1. /\ keys # None /\ ks = keys.kids /\ began \in Nat /\ now \in Nat
        /\ began - keys.fetched_at < max_age * 2 /\ now - began <= FetchTimeout
    BY <1>1, <1>2, JwksAssumption DEF CachedIsRecent, FetchIsNoted, TypeOK, Times
  <2> QED
    BY <2>1, CachedKeysAreRecent, JwksAssumption
<1>7. RemovedKeyStopsVerifying'
  BY <1>1, <1>6, AnswerKeepsBound DEF FetchFails, Answer
<1>8. UnknownOnlyIfUnpublished'
  BY <1>1 DEF FetchFails, Answer, UnknownOnlyIfUnpublished, TypeOK
<1> QED
  BY <1>3, <1>4, <1>5, <1>7, <1>8

\* The caller goes away, and its guard and fetch with it.
LEMMA CancelKeepsCacheInv ==
  ASSUME CacheInv, NEW c \in Calls, Cancel(c)
  PROVE  CacheInv'
<1> USE DEF CacheInv
<1>1. TypeOK'
  BY JwksAssumption DEF Cancel, Answer, TypeOK, Answers, Errors
<1>2. FetchIsNoted' /\ BodyIsRecent' /\ CachedIsRecent'
  BY NothingUnderWay DEF Cancel, FetchIsNoted, BodyIsRecent, CachedIsRecent, TypeOK
<1>3. RemovedKeyStopsVerifying' /\ UnknownOnlyIfUnpublished'
  BY DEF Cancel, Answer, RemovedKeyStopsVerifying, UnknownOnlyIfUnpublished, TypeOK
<1> QED
  BY <1>1, <1>2, <1>3

\* Hydra publishes another key.
LEMMA HydraAddsKeepsCacheInv ==
  ASSUME CacheInv, NEW k \in Kids, HydraAdds(k)
  PROVE  CacheInv'
<1> USE DEF CacheInv
<1>1. TypeOK'
  BY DEF HydraAdds, TypeOK
<1> QED
  BY <1>1 DEF HydraAdds, FetchIsNoted, BodyIsRecent, CachedIsRecent, RemovedKeyStopsVerifying,
     UnknownOnlyIfUnpublished

\* Hydra removes a key: whoever has it was handed it before.
LEMMA HydraRemovesKeepsCacheInv ==
  ASSUME CacheInv, NEW k \in Kids, HydraRemoves(k)
  PROVE  CacheInv'
<1> USE DEF CacheInv
<1>1. /\ DOMAIN removed' = DOMAIN removed \cup {k} /\ removed'[k] = now
      /\ \A j \in DOMAIN removed : removed'[j] = removed[j]
      /\ now \in Nat /\ now' = now
  BY JwksAssumption DEF HydraRemoves, TypeOK, Times
<1>2. TypeOK'
  BY DEF HydraRemoves, TypeOK
<1>3. FetchIsNoted'
  BY DEF HydraRemoves, FetchIsNoted
<1>4. BodyIsRecent'
  BY <1>1, JwksAssumption DEF HydraRemoves, BodyIsRecent, FetchIsNoted, TypeOK, Times
<1>5. CachedIsRecent'
  BY <1>1, JwksAssumption DEF HydraRemoves, CachedIsRecent, TypeOK, Times
<1>6. RemovedKeyStopsVerifying'
  BY <1>1, JwksAssumption DEF HydraRemoves, RemovedKeyStopsVerifying
<1>7. UnknownOnlyIfUnpublished'
  BY DEF HydraRemoves, UnknownOnlyIfUnpublished
<1> QED
  BY <1>2, <1>3, <1>4, <1>5, <1>6, <1>7

\* Time passes, for a fetch up to its timeout; whoever was answered is gone.
LEMMA TickKeepsCacheInv == CacheInv /\ Tick => CacheInv'
<1> SUFFICES ASSUME CacheInv, Tick PROVE CacheInv'
  OBVIOUS
<1> USE DEF CacheInv
<1>1. now \in Nat /\ now' \in Nat /\ now' = now + 1 /\ now' \in Times
  BY JwksAssumption DEF Tick, TypeOK, Times
<1>2. pc' \in [Calls -> {"idle", "waiting", "fetching"}]
      /\ \A c \in Calls : pc'[c] = "fetching" <=> pc[c] = "fetching"
  BY DEF Tick, TypeOK, Answers, Errors
<1>3. TypeOK'
  BY <1>1, <1>2 DEF Tick, TypeOK
<1>4. FetchIsNoted'
  BY <1>1, JwksAssumption DEF Tick, FetchIsNoted, TypeOK, Times
<1>5. \A c \in Calls : steady'[c] \in {{}, steady[c]} /\ got'[c] = {}
  BY DEF Tick
<1>6. BodyIsRecent'
  BY <1>5 DEF Tick, BodyIsRecent
<1>7. CachedIsRecent'
  BY <1>1, JwksAssumption DEF Tick, CachedIsRecent, TypeOK, Times
<1>8. RemovedKeyStopsVerifying' /\ UnknownOnlyIfUnpublished'
  BY <1>2, <1>5 DEF RemovedKeyStopsVerifying, UnknownOnlyIfUnpublished
<1> QED
  BY <1>3, <1>4, <1>6, <1>7, <1>8

\* Every step of jwks.rs, of Hydra and of the clock keeps CacheInv.
LEMMA NextKeepsCacheInv == CacheInv /\ [Next]_vars => CacheInv'
<1> SUFFICES ASSUME CacheInv, [Next]_vars PROVE CacheInv'
  OBVIOUS
<1>1. CASE UNCHANGED vars
  BY <1>1 DEF vars, CacheInv, TypeOK, FetchIsNoted, BodyIsRecent, CachedIsRecent,
     RemovedKeyStopsVerifying, UnknownOnlyIfUnpublished
<1>2. CASE Next
  BY <1>2, AskKeepsCacheInv, AnswerFromCacheKeepsCacheInv, BeginFetchKeepsCacheInv,
     HydraRespondsKeepsCacheInv, FetchOkKeepsCacheInv, FetchFailsKeepsCacheInv,
     CancelKeepsCacheInv, HydraAddsKeepsCacheInv, HydraRemovesKeepsCacheInv, TickKeepsCacheInv
     DEF Next
<1> QED
  BY <1>1, <1>2

\* A key Hydra removed is handed out for a bounded time only, and one it publishes
\* is not called unknown, whoever fetches, fails or goes away (jwks.rs:44-114).
THEOREM CacheInvariance == Spec => []CacheInv
  BY InitCacheInv, NextKeepsCacheInv, PTL DEF Spec

\* Fetches begin min_refresh apart, however the last one ended (jwks.rs:55).
THEOREM FetchesAreSpacedHolds == Spec => FetchesAreSpaced
<1>1. ASSUME CacheInv, [Next]_vars
      PROVE  [holder' # None /\ holder' # holder
                => began = None \/ now - began >= min_refresh]_vars
  <2> SUFFICES ASSUME Next, holder' # None, holder' # holder
               PROVE  began = None \/ now - began >= min_refresh
    BY <1>1
  <2>1. PICK c \in Calls : BeginFetch(c)
    BY DEF Next, Ask, AnswerFromCache, HydraResponds, FetchOk, FetchFails, Cancel, HydraAdds,
           HydraRemoves, Tick
  <2>2. last_attempt = began /\ now \in Nat /\ (began = None \/ began \in Nat)
    BY <1>1, JwksAssumption DEF CacheInv, FetchIsNoted, TypeOK, Times
  <2> QED
    BY <2>1, <2>2, JwksAssumption DEF BeginFetch, Throttled
<1> QED
  BY <1>1, CacheInvariance, PTL DEF Spec, FetchesAreSpaced

-----------------------------------------------------------------------------
(* A fetch that may not fall back on the cached keys found that they would *)
(* not do, and they still do not when it ends: it holds the mutex, so the  *)
(* cache is as it was, only older.                                         *)
FetchersKnow ==
    \A c \in Calls : pc[c] = "fetching" => stale[c] \/ ~ServesStale(kid[c])

\* Every step keeps what a fetch in progress knows of the cache.
LEMMA NextKeepsFetchersKnow == CacheInv /\ FetchersKnow /\ [Next]_vars => FetchersKnow'
<1> SUFFICES ASSUME CacheInv, FetchersKnow, [Next]_vars PROVE FetchersKnow'
  OBVIOUS
<1> USE DEF FetchersKnow
<1>0. pc \in [Calls -> {"idle", "waiting", "fetching"} \cup Answers] /\ stale \in [Calls -> BOOLEAN]
      /\ None \notin Calls
  BY JwksAssumption DEF CacheInv, TypeOK
<1>1. CASE UNCHANGED vars
  BY <1>1 DEF vars, ServesStale, has_kid
<1>2. ASSUME NEW c \in Calls, BeginFetch(c) PROVE FetchersKnow'
  BY <1>0, <1>2 DEF BeginFetch, ServesStale, has_kid, CacheInv, TypeOK
<1>3. ASSUME NEW c \in Calls,
             AnswerFromCache(c) \/ HydraResponds(c) \/ \E k \in Kids \cup {NoKid} : Ask(c, k)
      PROVE  FetchersKnow'
  BY <1>0, <1>3 DEF AnswerFromCache, HydraResponds, Ask, Answer, ServesStale, has_kid, CacheInv,
     TypeOK, Answers, Errors
<1>4. ASSUME NEW c \in Calls, FetchOk(c) \/ FetchFails(c) \/ Cancel(c) PROVE FetchersKnow'
  BY <1>0, <1>4 DEF FetchOk, FetchFails, Cancel, Answer, ServesStale, has_kid, CacheInv, TypeOK,
     Answers, Errors
<1>5. ASSUME NEW k \in Kids, HydraAdds(k) \/ HydraRemoves(k) PROVE FetchersKnow'
  BY <1>5 DEF HydraAdds, HydraRemoves, ServesStale, has_kid
<1>6. CASE Tick
  <2>1. now \in Nat /\ max_age \in Nat /\ (keys # None => keys.fetched_at \in Nat)
    BY CachedKeysAreRecent, JwksAssumption DEF CacheInv, TypeOK, Times
  <2>2. ASSUME NEW c \in Calls, pc'[c] = "fetching" PROVE pc[c] = "fetching" /\ kid'[c] = kid[c]
    BY <1>6, <2>2 DEF Tick, CacheInv, TypeOK
  <2> QED
    BY <1>6, <2>1, <2>2 DEF Tick, ServesStale, has_kid
<1> QED
  BY <1>1, <1>2, <1>3, <1>4, <1>5, <1>6 DEF Next

\* A caller is sent away with a temporary error only if the cache lacks its key or
\* is twice as old as keys may be, also when its fetch fails late (jwks.rs:88).
THEOREM OutageToleratedHolds == Spec => OutageTolerated
<1>1. Init => FetchersKnow
  BY DEF Init, FetchersKnow
<1>2. ASSUME CacheInv, FetchersKnow, [Next]_vars
      PROVE  [\A c \in Calls : pc[c] # pc'[c] /\ pc'[c] \in {"Throttled", "Unreachable"} =>
                kid[c] = NoKid \/ keys = None
                  \/ kid[c] \notin keys.kids \/ now - keys.fetched_at >= max_age * 2]_vars
  <2> SUFFICES ASSUME Next, NEW c \in Calls, pc[c] # pc'[c], pc'[c] \in {"Throttled", "Unreachable"}
               PROVE  kid[c] = NoKid \/ keys = None
                        \/ kid[c] \notin keys.kids \/ now - keys.fetched_at >= max_age * 2
    BY <1>2
  <2>1. AnswerFromCache(c) \/ FetchFails(c)
    <3>1. TypeOK
      BY <1>2 DEF CacheInv
    <3>2. ASSUME NEW d \in Calls, NEW o, pc' = [pc EXCEPT ![d] = o]
          PROVE  d = c /\ pc'[c] = o
      BY <3>1, <3>2 DEF TypeOK
    <3>3. CASE \E d \in Calls : AnswerFromCache(d) \/ FetchFails(d)
      BY <3>2, <3>3 DEF AnswerFromCache, FetchFails, Answer
    <3>4. CASE \E d \in Calls : \/ BeginFetch(d) \/ FetchOk(d) \/ Cancel(d)
                               \/ \E k \in Kids \cup {NoKid} : Ask(d, k)
      BY <3>2, <3>4 DEF BeginFetch, FetchOk, Cancel, Ask, Answer
    <3>5. CASE \/ \E d \in Calls : HydraResponds(d)
               \/ \E k \in Kids : HydraAdds(k) \/ HydraRemoves(k)
      BY <3>5 DEF HydraResponds, HydraAdds, HydraRemoves
    <3>6. CASE Tick
      BY <3>1, <3>6 DEF Tick, TypeOK
    <3> QED
      BY <3>3, <3>4, <3>5, <3>6 DEF Next
  <2>2. ~ServesStale(kid[c])
    BY <1>2, <2>1 DEF AnswerFromCache, FetchFails, Answer, FetchersKnow, CacheInv, TypeOK
  <2>3. now \in Nat /\ max_age \in Nat /\ (keys # None => keys.fetched_at \in Nat)
    BY <1>2, CachedKeysAreRecent, JwksAssumption DEF CacheInv, TypeOK, Times
  <2> QED
    BY <2>2, <2>3 DEF ServesStale, has_kid
<1> QED
  BY <1>1, <1>2, CacheInvariance, NextKeepsFetchersKnow, PTL DEF Spec, OutageTolerated
=============================================================================
