-------------------------- MODULE SessionRegistry ---------------------------
(***************************************************************************)
(* What bff/src/storage/mod.rs promises of a SessionStorage: a set of      *)
(* sessions under their ids.  What an operation drops it hands back, so    *)
(* that the caller can revoke the refresh tokens; only the sweep drops     *)
(* without handing back.  A session that ended never comes back.           *)
(***************************************************************************)
EXTENDS SessionModel

CONSTANTS SessionIds,
          Times       \* the instants a refresh token may end at

VARIABLES sessions,  \* id -> data of the live sessions
          handed,    \* the ids the last operation dropped and handed back
          now

registryVars == <<sessions, handed, now>>

Init == sessions = <<>> /\ handed = {} /\ now = 0

\* save_session: beyond the cap, the user's oldest sessions go.
Save(id, data) ==
  LET all == With(sessions, id, data) IN
  \E gone \in Evictions(all, data.user_id) :
    /\ sessions' = Without(all, gone)
    /\ handed' = gone

\* update_session: an existing session only.
Update(id, data) ==
  /\ id \in DOMAIN sessions
  /\ sessions' = [sessions EXCEPT ![id] = data]
  /\ handed' = {}

\* take_session and revoke: exactly the sessions named, all of them handed back.
End(ids) ==
  /\ ids \subseteq DOMAIN sessions
  /\ sessions' = Without(sessions, ids)
  /\ handed' = ids

Revoke(selector) == End(Matching(sessions, selector))

\* sweep_expired: exactly the sessions past their end.
Sweep ==
  /\ sessions' = Without(sessions, Expired(sessions, now))
  /\ handed' = {}

Operation ==
  \/ \E id \in SessionIds \ DOMAIN sessions :
       \E user \in Users, sid \in Sids \cup {NoSid}, created \in 0..now :
         \E expires \in Times :
           Save(id, [user_id |-> user, sid |-> sid, created_at |-> created,
                     refresh_expires_at |-> expires])
  \/ \E id \in DOMAIN sessions : \E expires \in Times :
       Update(id, [sessions[id] EXCEPT !.refresh_expires_at = expires])
  \/ \E id \in DOMAIN sessions : End({id})
  \/ \E selector \in Selectors : Revoke(selector)
  \/ Sweep
  \/ UNCHANGED sessions /\ handed' = {}

Next ==
  \/ Operation /\ UNCHANGED now
  \/ now' = now + 1 /\ UNCHANGED <<sessions, handed>>

Spec == Init /\ [][Next]_registryVars
=============================================================================
