-------------------------- MODULE BackchannelProofs --------------------------
(***************************************************************************)
(* Proofs about BackchannelLogout, for any deliveries, tokens, sessions    *)
(* and times.  ReplayInv is inductive: a handler goes on only with a token *)
(* it checked (UnderWayIsChecked), and a jti is forgotten only when its    *)
(* token is too old to pass (AcceptedIsRemembered).  That a token is       *)
(* accepted once in its time follows from the latter.                      *)
(***************************************************************************)
EXTENDS BackchannelLogout, TLAPS

\* The time until which a checked token's jti is remembered.
LEMMA ReplayUntilNat ==
  ASSUME NEW t, Checked(t)
  PROVE  t \in Tokens /\ replay_until(ClaimsOf[t]) \in Nat
  BY TokensAssumption, ClaimsAssumption DEF Checked, replay_until

\* At the start no jti was ever seen and every session is there.
LEMMA InitReplayInv == Init => ReplayInv
<1> SUFFICES ASSUME Init PROVE ReplayInv
  OBVIOUS
<1>1. TypeOK
  BY TokensAssumption DEF Init, TypeOK
<1> QED
  BY <1>1 DEF Init, ReplayInv, UnderWayIsChecked, RecordedIsAccepted, AcceptedIsRemembered,
              OnlyHydraEndsSessions, RefusedOnlyAsReplay

\* verify_logout_token: a handler goes on only with a token it checked.
LEMMA VerifyKeepsReplayInv ==
  ASSUME ReplayInv, NEW d \in Deliveries, NEW t \in Tokens, Verify(d, t)
  PROVE  ReplayInv'
<1> USE DEF ReplayInv
<1>1. TypeOK'
  BY DEF Verify, Answer, TypeOK, Answers
<1>2. UnderWayIsChecked'
  BY DEF Verify, Answer, TypeOK, UnderWayIsChecked, Checked, check_claims
<1>3. \A a \in accepted : token'[a.delivery] = token[a.delivery] /\ pc'[a.delivery] = pc[a.delivery]
  BY DEF Verify, Answer, TypeOK, AcceptedIsRemembered
<1>4. RecordedIsAccepted' /\ AcceptedIsRemembered'
  BY <1>3 DEF Verify, Answer, TypeOK, RecordedIsAccepted, AcceptedIsRemembered, Checked
<1>5. OnlyHydraEndsSessions'
  BY <1>3 DEF Verify, OnlyHydraEndsSessions, Named
<1>6. RefusedOnlyAsReplay'
  BY DEF Verify, Answer, TypeOK, RefusedOnlyAsReplay
<1> QED
  BY <1>1, <1>2, <1>4, <1>5, <1>6

\* insert_if_absent: a new jti is recorded until replay_until, or the token is a replay.
LEMMA RecordKeepsReplayInv ==
  ASSUME ReplayInv, NEW d \in Deliveries, Record(d)
  PROVE  ReplayInv'
<1> USE DEF ReplayInv
<1> DEFINE claims == ClaimsOf[token[d]]
<1>0. /\ Checked(token[d]) /\ token[d] \in Tokens
      /\ replay_until(claims) \in Nat /\ claims.jti # Absent
      /\ pc[d] = "verified" /\ UNCHANGED <<now, live, token, abandoned>>
      /\ pc \in [Deliveries -> {"idle", "verified", "recorded"} \cup Answers]
  BY ReplayUntilNat DEF Record, UnderWayIsChecked, Checked, TypeOK
<1>1. CASE /\ claims.jti \in DOMAIN used
           /\ pc' = [pc EXCEPT ![d] = "ReplayedLogoutToken"]
           /\ UNCHANGED <<used, accepted>>
  <2>1. TypeOK'
    BY <1>0, <1>1 DEF TypeOK, Answers
  <2>2. UnderWayIsChecked' /\ RecordedIsAccepted' /\ AcceptedIsRemembered'
    BY <1>0, <1>1 DEF UnderWayIsChecked, RecordedIsAccepted, AcceptedIsRemembered, Checked
  <2>3. OnlyHydraEndsSessions'
    BY <1>0, <1>1 DEF OnlyHydraEndsSessions, Named
  <2>4. \E a \in accepted : a.delivery # d /\ a.jti = claims.jti
    BY <1>0, <1>1 DEF RecordedIsAccepted, AcceptedIsRemembered
  <2>5. RefusedOnlyAsReplay'
    BY <1>0, <1>1, <2>4 DEF RefusedOnlyAsReplay
  <2> QED
    BY <2>1, <2>2, <2>3, <2>5
<1>2. CASE /\ ~(claims.jti \in DOMAIN used /\ used[claims.jti] > now)
           /\ used' = [j \in DOMAIN used \cup {claims.jti} |->
                         IF j = claims.jti THEN replay_until(claims) ELSE used[j]]
           /\ accepted' = accepted \cup {[delivery |-> d, jti |-> claims.jti, at |-> now]}
           /\ pc' = [pc EXCEPT ![d] = "recorded"]
  <2> DEFINE new == [delivery |-> d, jti |-> claims.jti, at |-> now]
  <2>0. /\ new.delivery = d /\ new.jti = claims.jti /\ new.at = now
        /\ accepted' = accepted \cup {new}
    BY <1>2
  <2> HIDE DEF new
  <2>1. TypeOK'
    <3>1. /\ DOMAIN used' = DOMAIN used \cup {claims.jti}
          /\ \A j \in DOMAIN used' : used'[j] \in Nat
          /\ used' = [j \in DOMAIN used' |-> used'[j]]
      BY <1>0, <1>2 DEF TypeOK
    <3>2. claims.jti \in {ClaimsOf[t].jti : t \in Genuine} \ {Absent}
      BY <1>0 DEF Checked
    <3> QED
      BY <1>0, <1>2, <2>0, <3>1, <3>2 DEF TypeOK, Answers
  <2>2. UnderWayIsChecked' /\ RecordedIsAccepted'
    BY <1>0, <1>2, <2>0 DEF UnderWayIsChecked, RecordedIsAccepted, Checked
  <2>3. AcceptedIsRemembered'
    <3> SUFFICES ASSUME NEW a \in accepted'
                 PROVE  LET c == ClaimsOf[token[a.delivery]] IN
                        /\ Checked(token[a.delivery]) /\ a.jti = c.jti
                        /\ pc'[a.delivery] \notin {"idle", "verified"}
                        /\ \/ a.jti \in DOMAIN used' /\ used'[a.jti] = replay_until(c)
                           \/ replay_until(c) <= now
      BY <1>0 DEF AcceptedIsRemembered, Checked
    <3>1. CASE a = new
      BY <1>0, <1>2, <2>0, <3>1
    <3>2. CASE a \in accepted /\ a.jti # claims.jti
      BY <1>0, <1>2, <3>2 DEF AcceptedIsRemembered
    <3>3. CASE a \in accepted /\ a.jti = claims.jti
      <4>1. Checked(token[a.delivery]) /\ a.jti = ClaimsOf[token[a.delivery]].jti
        BY <3>3 DEF AcceptedIsRemembered
      <4>2. token[a.delivery] = token[d]
        BY <1>0, <3>3, <4>1, ClaimsAssumption DEF Checked
      <4> QED
        BY <1>0, <1>2, <3>3, <4>1, <4>2 DEF AcceptedIsRemembered
    <3> QED
      BY <2>0, <3>1, <3>2, <3>3
  <2>4. OnlyHydraEndsSessions'
    BY <1>0, <1>2, <2>0 DEF OnlyHydraEndsSessions, Named
  <2>5. RefusedOnlyAsReplay'
    BY <1>0, <1>2, <2>0 DEF RefusedOnlyAsReplay
  <2> QED
    BY <2>1, <2>2, <2>3, <2>4, <2>5
<1> QED
  BY <1>1, <1>2 DEF Record, Answer

\* revoke_matching: the sessions that end are those the recorded token names.
LEMMA EndSessionsKeepsReplayInv ==
  ASSUME ReplayInv, NEW d \in Deliveries, EndSessions(d)
  PROVE  ReplayInv'
<1> USE DEF ReplayInv
<1>0. UNCHANGED <<now, used, token, accepted, abandoned>> /\ Checked(token[d])
  BY DEF EndSessions, UnderWayIsChecked
<1>1. TypeOK'
  BY DEF EndSessions, Answer, TypeOK, Answers
<1>2. UnderWayIsChecked' /\ RecordedIsAccepted' /\ AcceptedIsRemembered' /\ RefusedOnlyAsReplay'
  BY DEF EndSessions, Answer, TypeOK, UnderWayIsChecked, RecordedIsAccepted,
         AcceptedIsRemembered, RefusedOnlyAsReplay, Checked
<1>3. OnlyHydraEndsSessions'
  <2> SUFFICES ASSUME NEW id \in DOMAIN SessionOf \ live'
               PROVE  \E a \in accepted :
                        LET t == token[a.delivery] IN
                        /\ t \in Genuine
                        /\ id \in Named(t)
                        /\ ClaimsOf[t].jti \in DOMAIN used \/ replay_until(ClaimsOf[t]) <= now
    BY <1>0 DEF OnlyHydraEndsSessions, Named
  <2>1. CASE id \notin live
    BY <2>1 DEF OnlyHydraEndsSessions
  <2>2. CASE id \in live
    <3>1. matches(Target(ClaimsOf[token[d]]), SessionOf[id])
      BY <2>2 DEF EndSessions
    <3>2. PICK a \in accepted : a.delivery = d
      BY DEF EndSessions, RecordedIsAccepted
    <3>3. id \in Named(token[d])
      BY <1>0, <3>1 DEF Named, Checked, Target, matches
    <3> QED
      BY <1>0, <3>2, <3>3 DEF AcceptedIsRemembered, Checked
  <2> QED
    BY <2>1, <2>2
<1> QED
  BY <1>1, <1>2, <1>3

\* A delivery, a handler that is dropped, the sweep of old jtis, the clock.
LEMMA OthersKeepReplayInv ==
  ASSUME ReplayInv, (\E d \in Deliveries : Leave(d)) \/ Sweep \/ Tick \/ UNCHANGED vars
  PROVE  ReplayInv'
<1> USE DEF ReplayInv
<1>1. ASSUME NEW d \in Deliveries, Leave(d)
      PROVE  ReplayInv'
  <2>1. TypeOK'
    BY <1>1, TokensAssumption
       DEF Leave, Answer, TypeOK, Answers, UnderWayIsChecked, Checked
  <2>2. UnderWayIsChecked' /\ RecordedIsAccepted' /\ AcceptedIsRemembered'
    BY <1>1 DEF Leave, Answer, TypeOK, UnderWayIsChecked, RecordedIsAccepted,
                AcceptedIsRemembered, Checked
  <2>3. OnlyHydraEndsSessions' /\ RefusedOnlyAsReplay'
    BY <1>1 DEF Leave, Answer, TypeOK, OnlyHydraEndsSessions, RefusedOnlyAsReplay, Named
  <2> QED
    BY <2>1, <2>2, <2>3
<1>2. CASE Sweep
  <2>0. /\ UNCHANGED <<now, live, pc, token, accepted, abandoned>>
        /\ DOMAIN used' = {j \in DOMAIN used : used[j] > now}
        /\ \A j \in DOMAIN used' : used'[j] = used[j]
        /\ used' = [j \in DOMAIN used' |-> used'[j]]
    BY <1>2 DEF Sweep
  <2>1. TypeOK'
    BY <2>0 DEF TypeOK, Answers
  <2>2. AcceptedIsRemembered'
    <3> SUFFICES ASSUME NEW a \in accepted,
                        a.jti \in DOMAIN used, a.jti \notin DOMAIN used'
                 PROVE  replay_until(ClaimsOf[token[a.delivery]]) <= now
      BY <2>0 DEF AcceptedIsRemembered, Checked
    <3>1. Checked(token[a.delivery]) /\ replay_until(ClaimsOf[token[a.delivery]]) \in Nat
      BY ReplayUntilNat DEF AcceptedIsRemembered
    <3>2. now \in Nat
      BY TokensAssumption DEF TypeOK
    <3> QED
      BY <2>0, <3>1, <3>2 DEF AcceptedIsRemembered
  <2>3. UnderWayIsChecked' /\ RecordedIsAccepted' /\ RefusedOnlyAsReplay'
    BY <2>0 DEF UnderWayIsChecked, RecordedIsAccepted, RefusedOnlyAsReplay, Checked
  <2>4. OnlyHydraEndsSessions'
    BY <2>0, <2>2 DEF OnlyHydraEndsSessions, AcceptedIsRemembered, Named
  <2> QED
    BY <2>1, <2>2, <2>3, <2>4
<1>3. CASE Tick
  <2>0. /\ now \in Nat /\ MaxTime \in Nat /\ now' = now + 1
        /\ UNCHANGED <<live, used, pc, token, accepted, abandoned>>
    BY <1>3, TokensAssumption DEF Tick, TypeOK
  <2>1. TypeOK'
    BY <1>3, <2>0 DEF Tick, TypeOK, Answers
  <2>2. \A a \in accepted : LET until == replay_until(ClaimsOf[token[a.delivery]]) IN
          until <= now => until <= now'
    BY <2>0, ReplayUntilNat DEF AcceptedIsRemembered
  <2>3. AcceptedIsRemembered'
    BY <2>0, <2>2 DEF AcceptedIsRemembered, Checked
  <2>4. OnlyHydraEndsSessions'
    BY <2>0, <2>2 DEF OnlyHydraEndsSessions, Named
  <2>5. UnderWayIsChecked' /\ RecordedIsAccepted' /\ RefusedOnlyAsReplay'
    BY <2>0 DEF UnderWayIsChecked, RecordedIsAccepted, RefusedOnlyAsReplay, Checked
  <2> QED
    BY <2>1, <2>3, <2>4, <2>5
<1>4. CASE UNCHANGED vars
  BY <1>4 DEF vars, TypeOK, UnderWayIsChecked, RecordedIsAccepted, AcceptedIsRemembered,
              OnlyHydraEndsSessions, RefusedOnlyAsReplay, Checked, Named
<1> QED
  BY <1>1, <1>2, <1>3, <1>4

\* Only Hydra's tokens end sessions, each whom it names, and only a token whose
\* jti another delivery had recorded is refused as a replay, for any deliveries.
THEOREM ReplayInvariance == Spec => []ReplayInv
<1>1. ReplayInv /\ [Next]_vars => ReplayInv'
  BY VerifyKeepsReplayInv, RecordKeepsReplayInv, EndSessionsKeepsReplayInv, OthersKeepReplayInv
     DEF Next
<1> QED
  BY <1>1, InitReplayInv, PTL DEF Spec

\* A logout token is accepted once in the time it passes the age check: the store
\* of jtis remembers it that long, however deliveries and sweeps interleave.
THEOREM AcceptedOnceHolds == Spec => []AcceptedOnceInItsTime
<1>1. Init => AcceptedOnceInItsTime
  BY DEF Init, AcceptedOnceInItsTime
<1>2. ASSUME ReplayInv, AcceptedOnceInItsTime, [Next]_vars
      PROVE  AcceptedOnceInItsTime'
  <2>0. \A a \in accepted : token'[a.delivery] = token[a.delivery]
    BY <1>2 DEF ReplayInv, TypeOK, AcceptedIsRemembered, Next, Verify, Record, EndSessions, Leave,
                Sweep, Tick, vars
  <2>1. CASE UNCHANGED accepted
    BY <1>2, <2>0, <2>1 DEF AcceptedOnceInItsTime
  <2>2. ASSUME NEW d \in Deliveries, Record(d), accepted' # accepted
        PROVE  AcceptedOnceInItsTime'
    <3> DEFINE claims == ClaimsOf[token[d]]
               new == [delivery |-> d, jti |-> claims.jti, at |-> now]
    <3>1. /\ ~(claims.jti \in DOMAIN used /\ used[claims.jti] > now)
          /\ accepted' = accepted \cup {new} /\ token' = token
      BY <2>2 DEF Record
    <3>2. /\ Checked(token[d]) /\ replay_until(claims) \in Nat /\ now \in Nat
      BY <1>2, <2>2, ReplayUntilNat, TokensAssumption
         DEF Record, ReplayInv, UnderWayIsChecked, TypeOK
    <3>3. ASSUME NEW a \in accepted, a.jti = claims.jti
          PROVE  now >= replay_until(claims)
      <4>1. Checked(token[a.delivery]) /\ a.jti = ClaimsOf[token[a.delivery]].jti
        BY <1>2 DEF ReplayInv, AcceptedIsRemembered
      <4>2. token[a.delivery] = token[d]
        BY <3>2, <3>3, <4>1, ClaimsAssumption DEF Checked
      <4> QED
        BY <1>2, <3>1, <3>2, <3>3, <4>2 DEF ReplayInv, AcceptedIsRemembered
    <3>4. new.delivery = d /\ new.jti = claims.jti /\ new.at = now
      OBVIOUS
    <3> HIDE DEF new, claims
    <3>5. (\E a \in accepted : a.jti = claims.jti) => new.at >= replay_until(ClaimsOf[token[d]])
      BY <3>3, <3>4 DEF claims
    <3> QED
      BY <1>2, <3>1, <3>4, <3>5 DEF AcceptedOnceInItsTime
  <2> QED
    BY <1>2, <2>1, <2>2 DEF Next, Verify, EndSessions, Leave, Sweep, Tick, vars
<1> QED
  BY <1>1, <1>2, ReplayInvariance, PTL DEF Spec
=============================================================================
