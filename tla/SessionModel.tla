---------------------------- MODULE SessionModel ----------------------------
(***************************************************************************)
(* bff/src/model/session.rs: what a session is, when it ends, and which    *)
(* sessions a logout names.  Time is counted in abstract ticks.            *)
(***************************************************************************)
EXTENDS Naturals, FiniteSets

CONSTANTS Users,                \* Kratos identity ids
          Sids,                 \* Hydra login session ids
          NoSid,                \* an id_token without a sid
          MAX_SESSION_LIFETIME, \* ticks from the login, 30 days in the code
          MAX_SESSIONS_PER_USER \* 20 in the code

ASSUME LifetimeAssumption == MAX_SESSION_LIFETIME \in Nat \ {0}
ASSUME CapAssumption == MAX_SESSIONS_PER_USER \in Nat \ {0}
ASSUME NoSidAssumption == NoSid \notin Sids

\* SessionData::ends_at: the refresh token's end or the absolute lifetime's,
\* whichever comes first.
ends_at(data) ==
  LET absolute == data.created_at + MAX_SESSION_LIFETIME IN
  IF data.refresh_expires_at <= absolute THEN data.refresh_expires_at ELSE absolute

\* SessionSelector.
UserSelector == [kind : {"User"}, user_id : Users]
UserSessionSelector == [kind : {"UserSession"}, user_id : Users, sid : Sids]
SidSelector == [kind : {"Session"}, sid : Sids]
Selectors == UserSelector \cup UserSessionSelector \cup SidSelector

\* SessionSelector::matches.  A session without a recorded sid cannot be told
\* apart from the one a UserSession names, so it goes too.
matches(selector, data) ==
  CASE selector.kind = "User" -> data.user_id = selector.user_id
    [] selector.kind = "UserSession" ->
         data.user_id = selector.user_id /\ data.sid \in {NoSid, selector.sid}
    [] selector.kind = "Session" -> data.sid = selector.sid

-----------------------------------------------------------------------------
\* A set of sessions is a function from the ids of the live ones to their data.
With(sessions, id, data) ==
  [i \in DOMAIN sessions \cup {id} |-> IF i = id THEN data ELSE sessions[i]]

Without(sessions, ids) == [id \in DOMAIN sessions \ ids |-> sessions[id]]

Matching(sessions, selector) == {id \in DOMAIN sessions : matches(selector, sessions[id])}

Expired(sessions, time) == {id \in DOMAIN sessions : ends_at(sessions[id]) <= time}

\* What a login of the user may drop: the oldest sessions beyond the cap.
\* Which of several equally old ones goes is the store's choice.
Evictions(sessions, user) ==
  LET own == {id \in DOMAIN sessions : sessions[id].user_id = user} IN
  {gone \in SUBSET own :
     /\ IF Cardinality(own) <= MAX_SESSIONS_PER_USER
          THEN gone = {}
          ELSE Cardinality(own \ gone) = MAX_SESSIONS_PER_USER
     /\ \A g \in gone, k \in own \ gone :
          sessions[g].created_at <= sessions[k].created_at}
=============================================================================
