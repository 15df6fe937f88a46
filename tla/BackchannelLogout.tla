------------------------- MODULE BackchannelLogout --------------------------
(***************************************************************************)
(* bff's POST /backchannel-logout: Hydra tells bff that a user logged out. *)
(* The handler (server/api/backchannel_logout.rs) verifies the logout      *)
(* token (hydra/logout_token.rs), remembers its jti (InMemoryJtiStorage)   *)
(* and ends the sessions it names.  It awaits between the three, so the    *)
(* clock moves, other deliveries of the same token run, the sweep forgets  *)
(* jtis, and Hydra may stop waiting.                                       *)
(***************************************************************************)
EXTENDS SessionModel

CONSTANTS
  Deliveries,  \* requests to the endpoint
  Tokens,      \* logout tokens
  Genuine,     \* the tokens Hydra signed, for this client
  ClaimsOf,    \* token -> its claims
  SessionOf,   \* id -> data of the sessions there are at first
  Absent,      \* a claim that is not there, or is of the wrong kind
  MAX_AGE, LEEWAY,
  Faults,      \* "keys" may be unavailable, Hydra may "leave"
  MaxTime      \* bound on the clock

ASSUME TokensAssumption ==
  /\ Genuine \subseteq Tokens
  /\ DOMAIN ClaimsOf = Tokens
  /\ MAX_AGE \in Nat /\ LEEWAY \in Nat /\ MaxTime \in Nat
  /\ Faults \subseteq {"keys", "leave"}

\* A time of issue is one if it is there (it is parsed as an integer), and Hydra
\* gives each of its tokens a jti of its own.
ASSUME ClaimsAssumption ==
  /\ \A t \in Tokens : ClaimsOf[t].iat # Absent => ClaimsOf[t].iat \in Nat
  /\ \A t, u \in Genuine :
       ClaimsOf[t].jti = ClaimsOf[u].jti /\ ClaimsOf[t].jti # Absent => t = u

VARIABLES
  now,
  live,       \* the ids of the sessions in the store
  used,       \* InMemoryJtiStorage: jti -> remembered until
  pc,         \* delivery -> where it is, or its answer
  token,      \* delivery -> the token it carries
  accepted,   \* deliveries whose jti was recorded: [delivery, jti, at]
  abandoned   \* tokens Hydra stopped waiting for after their jti was recorded

vars == <<now, live, used, pc, token, accepted, abandoned>>

Answers == {"Ok", "InvalidLogoutToken", "ReplayedLogoutToken", "KeysUnavailable", "left"}

\* The types; the jtis remembered are ones that Hydra's tokens carry.
TypeOK ==
  /\ now \in 0..MaxTime
  /\ live \subseteq DOMAIN SessionOf
  /\ used \in [DOMAIN used -> Nat]
  /\ DOMAIN used \subseteq {ClaimsOf[t].jti : t \in Genuine} \ {Absent}
  /\ pc \in [Deliveries -> {"idle", "verified", "recorded"} \cup Answers]
  /\ token \in [Deliveries -> Tokens \cup {Absent}]
  /\ \A a \in accepted : a.delivery \in Deliveries /\ a.at \in 0..MaxTime
  /\ abandoned \subseteq Tokens

Init ==
  /\ now = 0
  /\ live = DOMAIN SessionOf
  /\ used = <<>>
  /\ pc = [d \in Deliveries |-> "idle"]
  /\ token = [d \in Deliveries |-> Absent]
  /\ accepted = {} /\ abandoned = {}

-----------------------------------------------------------------------------
\* Mutant: a token without a sid names only the user's sessions that have none.
TargetNarrowed(claims) ==
  IF claims.sid = Absent THEN [kind |-> "UserSession", user_id |-> claims.sub, sid |-> NoSid]
  ELSE [kind |-> "Session", sid |-> claims.sid]

\* Whom a token with these claims logs out.
Target(claims) ==
  CASE claims.sub # Absent /\ claims.sid # Absent ->
         [kind |-> "UserSession", user_id |-> claims.sub, sid |-> claims.sid]
    [] claims.sub # Absent /\ claims.sid = Absent ->
         [kind |-> "User", user_id |-> claims.sub]
    [] claims.sub = Absent /\ claims.sid # Absent ->
         [kind |-> "Session", sid |-> claims.sid]

\* check_claims: not from the future, not too old, a logout event, no nonce, a
\* sub that is a user id if there is one, a sub or a sid, and a jti.
check_claims(claims, time) ==
  /\ claims.iat # Absent
  /\ claims.iat <= time + LEEWAY
  /\ claims.iat + MAX_AGE + LEEWAY >= time
  /\ claims.event
  /\ ~claims.nonce
  /\ claims.sub \in Users \cup {Absent}
  /\ claims.sub # Absent \/ claims.sid # Absent
  /\ claims.jti # Absent

\* While this is in the future the token could still pass the age check.
replay_until(claims) == claims.iat + MAX_AGE + LEEWAY

Answer(d, outcome) == pc' = [pc EXCEPT ![d] = outcome]

-----------------------------------------------------------------------------
\* Mutant: the jti is remembered before the token is verified.
VerifyRecordsFirst(d, t) ==
  /\ pc[d] = "idle"
  /\ token' = [token EXCEPT ![d] = t]
  /\ used' = [j \in DOMAIN used \cup ({ClaimsOf[t].jti} \ {Absent}) |->
                IF j = ClaimsOf[t].jti THEN replay_until(ClaimsOf[t]) ELSE used[j]]
  /\ \/ /\ t \in Genuine /\ check_claims(ClaimsOf[t], now)
        /\ Answer(d, IF ClaimsOf[t].jti \in DOMAIN used THEN "ReplayedLogoutToken"
                                                        ELSE "verified")
     \/ /\ ~(t \in Genuine /\ check_claims(ClaimsOf[t], now))
        /\ Answer(d, "InvalidLogoutToken")
  /\ UNCHANGED <<now, live, accepted, abandoned>>

\* verify_logout_token: typ, kid, the key of that kid, algorithm, issuer,
\* audience and signature, which only Hydra's own tokens pass; then the claims.
Verify(d, t) ==
  /\ pc[d] = "idle"
  /\ token' = [token EXCEPT ![d] = t]
  /\ \/ /\ "keys" \in Faults
        /\ Answer(d, "KeysUnavailable")
     \/ /\ t \in Genuine /\ check_claims(ClaimsOf[t], now)
        /\ Answer(d, "verified")
     \/ /\ ~(t \in Genuine /\ check_claims(ClaimsOf[t], now))
        /\ Answer(d, "InvalidLogoutToken")
  /\ UNCHANGED <<now, live, used, accepted, abandoned>>

\* Mutant: a jti the store has is never refused.
RecordAlways(d) ==
  LET claims == ClaimsOf[token[d]] IN
  /\ pc[d] = "verified"
  /\ used' = [j \in DOMAIN used \cup {claims.jti} |->
                IF j = claims.jti THEN replay_until(claims) ELSE used[j]]
  /\ accepted' = accepted \cup {[delivery |-> d, jti |-> claims.jti, at |-> now]}
  /\ Answer(d, "recorded")
  /\ UNCHANGED <<now, live, token, abandoned>>

\* InMemoryJtiStorage::record: refused while the jti is remembered.
Record(d) ==
  LET claims == ClaimsOf[token[d]] IN
  /\ pc[d] = "verified"
  /\ \/ /\ claims.jti \in DOMAIN used /\ used[claims.jti] > now
        /\ Answer(d, "ReplayedLogoutToken")
        /\ UNCHANGED <<used, accepted>>
     \/ /\ ~(claims.jti \in DOMAIN used /\ used[claims.jti] > now)
        /\ used' = [j \in DOMAIN used \cup {claims.jti} |->
                      IF j = claims.jti THEN replay_until(claims) ELSE used[j]]
        /\ accepted' = accepted \cup {[delivery |-> d, jti |-> claims.jti, at |-> now]}
        /\ Answer(d, "recorded")
  /\ UNCHANGED <<now, live, token, abandoned>>

\* end_sessions; the refresh tokens are Bff's EndSessions.
EndSessions(d) ==
  /\ pc[d] = "recorded"
  /\ live' = live \ {id \in live : matches(Target(ClaimsOf[token[d]]), SessionOf[id])}
  /\ Answer(d, "Ok")
  /\ UNCHANGED <<now, used, token, accepted, abandoned>>

\* Hydra stops waiting: the handler's future is dropped where it awaits.
Leave(d) ==
  /\ "leave" \in Faults
  /\ pc[d] \in {"verified", "recorded"}
  /\ abandoned' = IF pc[d] = "recorded" THEN abandoned \cup {token[d]} ELSE abandoned
  /\ Answer(d, "left")
  /\ UNCHANGED <<now, live, used, token, accepted>>

\* InMemoryJtiStorage::sweep_expired.
Sweep ==
  LET kept == {j \in DOMAIN used : used[j] > now} IN
  /\ kept # DOMAIN used
  /\ used' = [j \in kept |-> used[j]]
  /\ UNCHANGED <<now, live, pc, token, accepted, abandoned>>

Tick ==
  /\ now < MaxTime
  /\ now' = now + 1
  /\ UNCHANGED <<live, used, pc, token, accepted, abandoned>>

Next ==
  \/ \E d \in Deliveries :
       \/ \E t \in Tokens : Verify(d, t)
       \/ Record(d)
       \/ EndSessions(d)
       \/ Leave(d)
  \/ Sweep
  \/ Tick

Spec == Init /\ [][Next]_vars

\* A handler that is not dropped goes on.  Nobody has to deliver a token.
Fairness == \A d \in Deliveries : WF_vars(Record(d)) /\ WF_vars(EndSessions(d))

FairSpec == Spec /\ Fairness

-----------------------------------------------------------------------------
\* The sessions of the user and of the Hydra session a token names, whichever of
\* the two it does name; a user's session whose sid nobody knows may be the one.
Named(t) ==
  {id \in DOMAIN SessionOf :
     /\ ClaimsOf[t].sub # Absent => SessionOf[id].user_id = ClaimsOf[t].sub
     /\ ClaimsOf[t].sid # Absent =>
          \/ SessionOf[id].sid = ClaimsOf[t].sid
          \/ ClaimsOf[t].sub # Absent /\ SessionOf[id].sid = NoSid}

\* A session that ended was named by a token that Hydra signed and whose jti is
\* remembered or past its time: a forged or a malformed token ends nothing
\* (the checks of logout_token.rs, in front of end_sessions).
OnlyHydraEndsSessions ==
  \A id \in DOMAIN SessionOf \ live : \E a \in accepted :
    LET t == token[a.delivery] IN
    /\ t \in Genuine
    /\ id \in Named(t)
    /\ ClaimsOf[t].jti \in DOMAIN used \/ replay_until(ClaimsOf[t]) <= now

\* A forged token burns no genuine token's jti (backchannel_logout.rs:75-77): a
\* delivery is refused as a replay only if another had its jti recorded.
RefusedOnlyAsReplay ==
  \A d \in Deliveries : pc[d] = "ReplayedLogoutToken" =>
    \E a \in accepted : a.delivery # d /\ a.jti = ClaimsOf[token[d]].jti

\* Within the time a token passes the age check it is accepted once: a second
\* acceptance comes at the end of that time at the earliest.
AcceptedOnceInItsTime ==
  \A a, b \in accepted :
    a.jti = b.jti /\ a.delivery # b.delivery =>
      \E e \in {a, b} : e.at >= replay_until(ClaimsOf[token[e.delivery]])

\* A token whose jti is used up has ended the sessions it names, or is about to,
\* unless Hydra stopped waiting in between: its retry is then refused.
LogoutTakesEffect ==
  \A t \in Genuine :
    (\E d \in Deliveries : token[d] = t /\ pc[d] \in {"recorded", "ReplayedLogoutToken"})
      ~> (Named(t) \cap live = {} \/ \E u \in abandoned : ClaimsOf[u].jti = ClaimsOf[t].jti)

\* What the handler knows of a token it verified, whenever it asks.
Checked(t) ==
  /\ t \in Genuine
  /\ ClaimsOf[t].iat # Absent /\ ClaimsOf[t].jti # Absent
  /\ ClaimsOf[t].sub # Absent \/ ClaimsOf[t].sid # Absent

UnderWayIsChecked == \A d \in Deliveries : pc[d] \in {"verified", "recorded"} => Checked(token[d])
RecordedIsAccepted ==
  /\ \A d \in Deliveries : pc[d] = "recorded" => \E a \in accepted : a.delivery = d
  /\ \A j \in DOMAIN used : \E a \in accepted : a.jti = j

\* A token that was accepted is remembered until its time is over.
AcceptedIsRemembered ==
  \A a \in accepted :
    LET claims == ClaimsOf[token[a.delivery]] IN
    /\ Checked(token[a.delivery]) /\ a.jti = claims.jti
    /\ pc[a.delivery] \notin {"idle", "verified"}
    /\ \/ a.jti \in DOMAIN used /\ used[a.jti] = replay_until(claims)
       \/ replay_until(claims) <= now

\* What every state of backchannel_logout.rs and its jti store keeps: only
\* Hydra's tokens end sessions, and only a token used before is a replay, because
\* what is remembered is what was accepted.
ReplayInv ==
  /\ TypeOK
  /\ UnderWayIsChecked /\ RecordedIsAccepted /\ AcceptedIsRemembered
  /\ OnlyHydraEndsSessions /\ RefusedOnlyAsReplay
=============================================================================
