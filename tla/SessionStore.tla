---------------------------- MODULE SessionStore ----------------------------
(***************************************************************************)
(* bff/src/storage/in_memory.rs, InMemorySessionStorage: the sessions by   *)
(* id, and an index of each user's session ids.  Every operation holds the *)
(* store's mutex throughout, so it is one step.  The index has to be kept  *)
(* in step by hand: per-user revocation and the cap on sessions look only  *)
(* there.                                                                  *)
(***************************************************************************)
EXTENDS SessionModel, Sequences, SequencesExt

CONSTANTS SessionIds,
          REFRESH_TTL, \* ticks a refresh token lives
          MaxTime      \* bound on the clock

ASSUME TtlAssumption == REFRESH_TTL \in Nat \ {0} /\ MaxTime \in Nat

VARIABLES by_id,    \* id -> data
          by_user,  \* user -> ids, in the order they were pushed; no empty entry
          issued,   \* every id a login was ever given (a fresh UUID each)
          handed,   \* the ids of the sessions the last operation handed back
          now

storeVars == <<by_id, by_user, issued, handed, now>>

SessionData == [user_id : Users, sid : Sids \cup {NoSid}, created_at : Nat,
                refresh_expires_at : Nat]

StoreTypeOK ==
  /\ issued \subseteq SessionIds
  /\ DOMAIN by_id \subseteq issued
  /\ \A id \in DOMAIN by_id : by_id[id] \in SessionData
  /\ DOMAIN by_user \subseteq Users
  /\ \A u \in DOMAIN by_user : by_user[u] \in Seq(issued)
  /\ handed \subseteq issued
  /\ now \in 0..MaxTime

StoreInit ==
  /\ by_id = <<>>
  /\ by_user = <<>>
  /\ issued = {}
  /\ handed = {}
  /\ now = 0

-----------------------------------------------------------------------------
\* The private helpers, on a store [by_id, by_user].
Store == [by_id |-> by_id, by_user |-> by_user]

\* Vec::retain: all but the id, in their order.
retain(ids, id) ==
  FoldLeft(LAMBDA kept, own : IF own = id THEN kept ELSE Append(kept, own), <<>>, ids)

\* Mutant: an emptied entry stays.
UnindexKeepsEmpty(index, id, user) ==
  IF user \notin DOMAIN index THEN index
  ELSE [index EXCEPT ![user] = retain(@, id)]

\* Sessions::unindex: an emptied entry goes with its last id.
unindex(index, id, user) ==
  IF user \notin DOMAIN index THEN index
  ELSE LET ids == retain(index[user], id) IN
       IF ids = <<>> THEN Restrict(index, DOMAIN index \ {user})
                     ELSE [index EXCEPT ![user] = ids]

\* Sessions::insert: a replaced session leaves the index first.
insert(st, id, data) ==
  LET index == IF id \in DOMAIN st.by_id
                 THEN unindex(st.by_user, id, st.by_id[id].user_id)
                 ELSE st.by_user
      own == IF data.user_id \in DOMAIN index THEN index[data.user_id] ELSE <<>>
  IN  [by_id |-> [i \in DOMAIN st.by_id \cup {id} |->
                    IF i = id THEN data ELSE st.by_id[i]],
       by_user |-> [u \in DOMAIN index \cup {data.user_id} |->
                      IF u = data.user_id THEN Append(own, id) ELSE index[u]]]

\* Sessions::remove.
remove(st, id) ==
  IF id \notin DOMAIN st.by_id THEN st
  ELSE [by_id |-> Restrict(st.by_id, DOMAIN st.by_id \ {id}),
        by_user |-> unindex(st.by_user, id, st.by_id[id].user_id)]

\* Sessions::remove_all.
remove_all(st, ids) == FoldSet(LAMBDA id, acc : remove(acc, id), st, ids)

\* The ids the index has for a user.
Indexed(st, user) ==
  IF user \in DOMAIN st.by_user THEN Range(st.by_user[user]) ELSE {}

\* Mutant: the newest go.
NewestGo(st, user, excess) ==
  LET own == Indexed(st, user) \cap DOMAIN st.by_id
      newer(id) == {o \in own : st.by_id[o].created_at > st.by_id[id].created_at}
  IN  IF excess = 0 THEN {} ELSE {CHOOSE id \in own : newer(id) = {}}

\* The excess oldest of a user's sessions.  sort_by_key is stable, so of two
\* with one created_at the one pushed first is the older.
Oldest(st, user, excess) ==
  LET own == Indexed(st, user) \cap DOMAIN st.by_id
      at(id) == CHOOSE i \in DOMAIN st.by_user[user] : st.by_user[user][i] = id
      before(a, b) ==
        \/ st.by_id[a].created_at < st.by_id[b].created_at
        \/ st.by_id[a].created_at = st.by_id[b].created_at /\ at(a) < at(b)
  IN {id \in own : Cardinality({older \in own : before(older, id)}) < excess}

\* saturating_sub of the cap, counted in the index.
Excess(st, user) ==
  LET n == Cardinality(Indexed(st, user) \cap DOMAIN st.by_id) IN
  IF n > MAX_SESSIONS_PER_USER THEN n - MAX_SESSIONS_PER_USER ELSE 0

SetStore(st) == by_id' = st.by_id /\ by_user' = st.by_user

-----------------------------------------------------------------------------
\* save_session.  The callback read created_at before it had the store's mutex,
\* so another login may have been stored with a later one.
save_session(id, user, sid, created) ==
  LET st == insert(Store, id,
                   [user_id |-> user, sid |-> sid, created_at |-> created,
                    refresh_expires_at |-> created + REFRESH_TTL])
      oldest == Oldest(st, user, Excess(st, user))
  IN
  /\ id \notin issued
  /\ SetStore(remove_all(st, oldest))
  /\ issued' = issued \cup {id}
  /\ handed' = oldest
  /\ UNCHANGED now

\* update_session, with the data of a refresh: the refresh token's end moves
\* if it was rotated, everything else is the login's.
update_session(id, rotated) ==
  /\ id \in issued
  /\ \/ /\ id \in DOMAIN by_id
        /\ LET data == IF rotated
                         THEN [by_id[id] EXCEPT !.refresh_expires_at = now + REFRESH_TTL]
                         ELSE by_id[id]
           IN  SetStore(insert(remove(Store, id), id, data))
     \/ /\ id \notin DOMAIN by_id   \* Err(SessionGone)
        /\ UNCHANGED <<by_id, by_user>>
  /\ handed' = {}
  /\ UNCHANGED <<issued, now>>

take_session(id) ==
  /\ id \in issued
  /\ SetStore(remove(Store, id))
  /\ handed' = {id} \cap DOMAIN by_id
  /\ UNCHANGED <<issued, now>>

\* revoke: by the user's index, or over all sessions for a sid alone.
revoke(selector) ==
  LET candidates == IF selector.kind = "Session" THEN DOMAIN by_id
                    ELSE Indexed(Store, selector.user_id)
      ids == {id \in candidates \cap DOMAIN by_id : matches(selector, by_id[id])}
  IN
  /\ SetStore(remove_all(Store, ids))
  /\ handed' = ids
  /\ UNCHANGED <<issued, now>>

sweep_expired ==
  LET expired == {id \in DOMAIN by_id : ends_at(by_id[id]) <= now} IN
  /\ SetStore(remove_all(Store, expired))
  /\ handed' = {}
  /\ UNCHANGED <<issued, now>>

Tick ==
  /\ now < MaxTime
  /\ now' = now + 1
  /\ UNCHANGED <<by_id, by_user, issued, handed>>

StoreNext ==
  \/ \E id \in SessionIds, user \in Users, sid \in Sids \cup {NoSid} :
       \E created \in {now, now - 1} \cap Nat : save_session(id, user, sid, created)
  \/ \E id \in SessionIds, rotated \in BOOLEAN : update_session(id, rotated)
  \/ \E id \in SessionIds : take_session(id)
  \/ \E selector \in Selectors : revoke(selector)
  \/ sweep_expired
  \/ Tick

StoreSpec == StoreInit /\ [][StoreNext]_storeVars

-----------------------------------------------------------------------------
\* "Kept in step with by_id by insert and remove only" (in_memory.rs:17-18):
\* the index names each user's sessions exactly, each once, and no user without.
IndexInStep ==
  /\ DOMAIN by_user = {by_id[id].user_id : id \in DOMAIN by_id}
  /\ \A u \in DOMAIN by_user :
       /\ Range(by_user[u]) = {id \in DOMAIN by_id : by_id[id].user_id = u}
       /\ Len(by_user[u]) = Cardinality(Range(by_user[u]))

\* "A user keeps at most 20 sessions" (docs/flows/tokens.md:131).
CapHolds ==
  \A u \in Users :
    Cardinality({id \in DOMAIN by_id : by_id[id].user_id = u}) <= MAX_SESSIONS_PER_USER

\* The store is the registry of sessions that the callers are promised.
Registry == INSTANCE SessionRegistry WITH
  sessions <- by_id, Times <- 0..(MaxTime + REFRESH_TTL)

ImplementsRegistry == Registry!Spec

\* What every state of in_memory.rs keeps: the index of each user's sessions is
\* in step with them, and holds no more than the cap.
StoreInv == IndexInStep /\ CapHolds
=============================================================================
