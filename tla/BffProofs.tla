----------------------------- MODULE BffProofs ------------------------------
(***************************************************************************)
(* What Bff's runs check on small instances, for every set of requests and *)
(* logins, every lifetime and every fault.  TokenInv is inductive; a step  *)
(* that hands out no token and gives nobody a turn (QuietStep) preserves   *)
(* it for one reason, the others each for their own.                       *)
(***************************************************************************)
EXTENDS Bff, TLAPS

\* A request that Finish answers or drops keeps nothing; no other is touched.
LEMMA FinishProperties ==
  ASSUME TypeOK, NEW r \in Requests, NEW outcome \in Answered, Finish(r, outcome)
  PROVE  /\ pc' \in [Requests -> {"idle", "waiting"} \cup Holding \cup Answered]
         /\ target' \in [Requests -> Logins \cup {None}]
         /\ held' \in [Requests -> SessionData \cup {NoData}]
         /\ answer' \in [Requests -> [kind : {"none", "rotated", "kept", "rejected"},
                                      token : 0..MaxToken]]
         /\ pc'[r] \in Answered
         /\ \A q \in Requests \ {r} :
              pc'[q] = pc[q] /\ target'[q] = target[q]
                /\ held'[q] = held[q] /\ answer'[q] = answer[q]
<1>1. NoAnswer \in [kind : {"none", "rotated", "kept", "rejected"}, token : 0..MaxToken]
  BY MaxTokenAssumption DEF NoAnswer
<1> QED BY <1>1 DEF TypeOK, Finish

\* Hydra's answers, and what they leave of the chain.
LEMMA HydraProperties ==
  ASSUME TypeOK, NEW c \in Logins, NEW token \in Tokens, NEW result \in Results,
         HydraRefreshes(c, token, result)
  PROVE  /\ chain' \in [Logins -> [live : BOOLEAN, token : 0..MaxToken]]
         /\ \A d \in Logins \ {c} : chain'[d] = chain[d]
         /\ chain'[c].live => chain[c].live
         /\ ~chain[c].live => chain'[c].live = chain[c].live /\ chain' = chain
         /\ reused' \in {reused, reused \cup {c}}
         /\ chain[c].live /\ chain[c].token = token =>
              /\ reused' = reused
              /\ result.kind # "rejected" => chain'[c].token = result.token
              /\ result.kind # "rotated" => chain'[c].token = token
         /\ ~chain[c].live => reused' = reused
<1>1. MaxToken \in Nat /\ Tokens \subseteq 0..MaxToken
  BY MaxTokenAssumption DEF Tokens
<1>2. chain \in [Logins -> [live : BOOLEAN, token : 0..MaxToken]]
  BY DEF TypeOK
<1>3. CASE /\ chain[c].live /\ chain[c].token = token /\ token < MaxToken
           /\ result = [kind |-> "rotated", token |-> token + 1]
           /\ chain' = [chain EXCEPT ![c].token = token + 1]
           /\ reused' = reused
  <2>1. token + 1 \in 0..MaxToken
    BY <1>1, <1>3 DEF Tokens
  <2> QED BY <1>2, <1>3, <2>1
<1>4. CASE chain' = chain /\ reused' = reused
           /\ chain[c].live /\ chain[c].token = token
           /\ result \in {[kind |-> "kept", token |-> token],
                          [kind |-> "rejected", token |-> token]}
  BY <1>2, <1>4
<1>5. CASE chain' = chain /\ reused' = reused /\ ~chain[c].live
  BY <1>2, <1>5
<1>6. CASE /\ chain[c].live /\ chain[c].token # token
           /\ chain' = [chain EXCEPT ![c].live = FALSE]
           /\ reused' = reused \cup {c}
  BY <1>2, <1>6
<1> QED BY <1>3, <1>4, <1>5, <1>6 DEF HydraRefreshes

-----------------------------------------------------------------------------
\* What Calls asks Hydra to revoke are tokens of sessions.
LEMMA CallsType ==
  ASSUME TypeOK, NEW ids \in SUBSET DOMAIN sessions, NEW by \in {"request", "task"}
  PROVE  Calls(ids, by) \subseteq RevokeCalls
BY DEF TypeOK, Calls, RevokeCalls, SessionData

\* Sessions that only go keep the type of the rest.
LEMMA WithoutType ==
  ASSUME TypeOK, NEW ids
  PROVE  /\ DOMAIN Without(sessions, ids) \subseteq Logins
         /\ \A c \in DOMAIN Without(sessions, ids) : Without(sessions, ids)[c] \in SessionData
BY DEF Without, TypeOK

\* Every action keeps the variables in their types.  RequestsHaveSessions is
\* needed for what Store writes: the data it read and the answer it got.
LEMMA TypeStep ==
  ASSUME TypeOK, RequestsHaveSessions, [Next]_vars
  PROVE  TypeOK'
<1> USE TimesAssumption, MaxTokenAssumption
<1>1. ASSUME NEW r \in Requests, NEW c \in Logins, Resolve(r, c)
      PROVE  TypeOK'
  <2>1. CASE Finish(r, "unauthenticated")
    BY <1>1, <2>1, FinishProperties DEF Resolve, TypeOK, loginVars, tokenVars, Answered
  <2>2. CASE Finish(r, "served")
    BY <1>1, <2>2, FinishProperties DEF Resolve, TypeOK, loginVars, tokenVars, Answered
  <2>3. CASE /\ pc' = [pc EXCEPT ![r] = "waiting"]
             /\ target' = [target EXCEPT ![r] = c]
             /\ UNCHANGED <<held, answer>>
    BY <1>1, <2>3 DEF Resolve, TypeOK, loginVars, tokenVars
  <2> QED BY <1>1, <2>1, <2>2, <2>3 DEF Resolve
<1>2. ASSUME NEW r \in Requests, TakeTurn(r)
      PROVE  TypeOK'
  <2>1. CASE Finish(r, "unauthenticated")
    BY <1>2, <2>1, FinishProperties DEF TakeTurn, TypeOK, loginVars, tokenVars, Answered
  <2>2. CASE Finish(r, "served")
    BY <1>2, <2>2, FinishProperties DEF TakeTurn, TypeOK, loginVars, tokenVars, Answered
  <2>3. CASE /\ target[r] \in DOMAIN sessions
             /\ pc' = [pc EXCEPT ![r] = "refreshing"]
             /\ held' = [held EXCEPT ![r] = sessions[target[r]]]
             /\ UNCHANGED <<target, answer>>
    BY <1>2, <2>3 DEF TakeTurn, TypeOK, loginVars, tokenVars, Holding
  <2> QED BY <1>2, <2>1, <2>2, <2>3 DEF TakeTurn
<1>3. ASSUME NEW r \in Requests, RefreshReaches(r)
      PROVE  TypeOK'
  <2>1. PICK result \in Results : /\ HydraRefreshes(target[r], held[r].token, result)
                                  /\ answer' = [answer EXCEPT ![r] = result]
    BY <1>3 DEF RefreshReaches
  <2>2. target[r] \in Logins /\ held[r].token \in Tokens
    BY <1>3 DEF RefreshReaches, RequestsHaveSessions, Holding, SessionData
  <2>3. /\ chain' \in [Logins -> [live : BOOLEAN, token : 0..MaxToken]]
        /\ reused' \in {reused, reused \cup {target[r]}}
    BY <2>1, <2>2, HydraProperties
  <2>4. result \in [kind : {"none", "rotated", "kept", "rejected"}, token : 0..MaxToken]
    BY DEF Results, Tokens
  <2>5. answer' \in [Requests -> [kind : {"none", "rotated", "kept", "rejected"},
                                  token : 0..MaxToken]]
    BY <2>1, <2>4 DEF TypeOK
  <2> QED BY <1>3, <2>2, <2>3, <2>5 DEF RefreshReaches, TypeOK, loginVars, Holding
<1>4. ASSUME NEW r \in Requests, Store(r)
      PROVE  TypeOK'
  <2>1. held[r] \in SessionData /\ answer[r].token \in Tokens /\ now \in Nat
    BY <1>4 DEF Store, RequestsHaveSessions, Holding, TypeOK, Results
  <2>2. Refreshed(r) \in SessionData
    <3> DEFINE ends == IF answer[r].kind = "rotated" THEN now + REFRESH_TTL
                                                    ELSE held[r].refresh_expires_at
    <3>1. ends \in Nat /\ now + ACCESS_TTL \in Nat
      BY <2>1 DEF SessionData
    <3> HIDE DEF ends
    <3>2. [held[r] EXCEPT !.token = answer[r].token, !.refresh_expires_at = ends,
                          !.expires_at = now + ACCESS_TTL] \in SessionData
      BY <2>1, <3>1 DEF SessionData
    <3> QED BY <3>2 DEF Refreshed, ends
  <2>3. /\ DOMAIN sessions' \subseteq Logins
        /\ \A c \in DOMAIN sessions' : sessions'[c] \in SessionData
    BY <1>4, <2>2 DEF Store, TypeOK
  <2> QED BY <1>4, <2>3, FinishProperties DEF Store, TypeOK, loginVars, tokenVars, Answered
<1>5. ASSUME NEW r \in Requests, StoreGone(r)
      PROVE  TypeOK'
  BY <1>5 DEF StoreGone, TypeOK, loginVars, tokenVars, Holding
<1>6. ASSUME NEW r \in Requests, Refused(r)
      PROVE  TypeOK'
  <2>1. target[r] \in Logins
    BY <1>6 DEF Refused, RequestsHaveSessions, Holding
  <2>2. left' \subseteq Logins
    BY <1>6, <2>1 DEF Refused, TypeOK
  <2> QED BY <1>6, <2>2, WithoutType, FinishProperties
          DEF Refused, TypeOK, loginVars, tokenVars, Answered
<1>7. ASSUME NEW r \in Requests, RevokeNew(r)
      PROVE  TypeOK'
  <2>1. target[r] \in Logins
    BY <1>7 DEF RevokeNew, RequestsHaveSessions, Holding
  <2>2. left' \subseteq Logins
    BY <1>7, <2>1 DEF RevokeNew, TypeOK
  <2>3. HydraRevokes(target[r], answer[r].token)
          \in [Logins -> [live : BOOLEAN, token : 0..MaxToken]]
    BY <2>1 DEF HydraRevokes, TypeOK
  <2>4. chain' \in [Logins -> [live : BOOLEAN, token : 0..MaxToken]]
    BY <1>7, <2>3 DEF RevokeNew, TypeOK
  <2> QED BY <1>7, <2>2, <2>4, FinishProperties DEF RevokeNew, TypeOK, loginVars, Answered
<1>8. ASSUME NEW r \in Requests, NEW outcome \in Answered, WithoutAnswer(r, outcome)
      PROVE  TypeOK'
  <2>1. pc[r] \in Holding => target[r] \in Logins /\ held[r].token \in Tokens
    BY DEF RequestsHaveSessions, SessionData
  <2>2. /\ strays' \subseteq [login : Logins, token : Tokens]
        /\ lost' \subseteq Logins
    BY <1>8, <2>1 DEF WithoutAnswer, TypeOK, Holding
  <2> QED BY <1>8, <2>2, FinishProperties DEF WithoutAnswer, TypeOK, loginVars
<1>9. ASSUME NEW r \in Requests, Unavailable(r)
      PROVE  TypeOK'
  BY <1>8, <1>9 DEF Unavailable, Answered
<1>10. ASSUME NEW r \in Requests, Cancel(r)
       PROVE  TypeOK'
  <2>1. CASE WithoutAnswer(r, "cancelled")
    BY <1>8, <2>1 DEF Answered
  <2>2. CASE /\ pc[r] = "waiting"
             /\ Finish(r, "cancelled")
             /\ UNCHANGED <<now, sessions, loginVars, tokenVars, revokes, lost, left>>
    BY <2>2, FinishProperties DEF TypeOK, loginVars, tokenVars, Answered
  <2>3. CASE /\ pc[r] = "revoking"
             /\ left' = left \cup {target[r]}
             /\ Finish(r, "cancelled")
             /\ UNCHANGED <<now, sessions, loginVars, tokenVars, revokes, lost>>
    <3>1. target[r] \in Logins
      BY <2>3 DEF RequestsHaveSessions, Holding
    <3> QED BY <2>3, <3>1, FinishProperties DEF TypeOK, loginVars, tokenVars, Answered
  <2> QED BY <1>10, <2>1, <2>2, <2>3 DEF Cancel
<1>11. ASSUME NEW call \in strays, StrayReaches(call)
       PROVE  TypeOK'
  <2>1. call.login \in Logins /\ call.token \in Tokens
    BY DEF TypeOK
  <2>2. PICK result \in Results : HydraRefreshes(call.login, call.token, result)
    BY <1>11 DEF StrayReaches
  <2>3. /\ chain' \in [Logins -> [live : BOOLEAN, token : 0..MaxToken]]
        /\ reused' \in {reused, reused \cup {call.login}}
    BY <2>1, <2>2, HydraProperties
  <2> QED BY <1>11, <2>1, <2>3 DEF StrayReaches, TypeOK, loginVars, requestVars
<1>12. ASSUME NEW c \in Logins, NEW p \in (Logins \ {c}) \cup {None}, Exchange(c, p)
       PROVE  TypeOK'
  <2>1. [live |-> TRUE, token |-> 1] \in [live : BOOLEAN, token : 0..MaxToken]
    OBVIOUS
  <2> QED BY <1>12, <2>1 DEF Exchange, TypeOK, requestVars
<1>13. ASSUME NEW c \in Logins, LoginFails(c)
       PROVE  TypeOK'
  BY <1>13 DEF LoginFails, TypeOK, requestVars, tokenVars
<1>14. ASSUME NEW c \in Logins, SaveSession(c)
       PROVE  TypeOK'
  <2> DEFINE data == [user_id |-> UserOf[c], sid |-> SidOf[c], created_at |-> now,
                      refresh_expires_at |-> now + REFRESH_TTL,
                      expires_at |-> now + ACCESS_TTL, token |-> 1]
             all == With(sessions, c, data)
  <2>1. data \in SessionData
    BY LoginsAssumption DEF TypeOK, SessionData, Tokens
  <2>2. PICK gone \in Evictions(all, UserOf[c]) :
          /\ sessions' = Without(all, gone)
          /\ revokes' = revokes \cup
               {[login |-> id, token |-> all[id].token, by |-> "task"] : id \in gone}
    BY <1>14 DEF SaveSession
  <2> HIDE DEF data
  <2>3. DOMAIN all \subseteq Logins /\ \A id \in DOMAIN all : all[id] \in SessionData
    BY <2>1 DEF With, TypeOK
  <2>4. gone \subseteq DOMAIN all
    BY DEF Evictions
  <2> HIDE DEF all
  <2>5. revokes' \subseteq RevokeCalls
    BY <2>2, <2>3, <2>4 DEF TypeOK, RevokeCalls, SessionData
  <2>6. /\ DOMAIN sessions' \subseteq Logins
        /\ \A id \in DOMAIN sessions' : sessions'[id] \in SessionData
    BY <2>2, <2>3 DEF Without
  <2> QED BY <1>14, <2>5, <2>6 DEF SaveSession, TypeOK, requestVars, tokenVars
<1>15. ASSUME NEW id, EndSession(id)
       PROVE  /\ DOMAIN sessions' \subseteq Logins
              /\ \A c \in DOMAIN sessions' : sessions'[c] \in SessionData
              /\ revokes' \subseteq RevokeCalls
  <2>1. Calls({id} \cap DOMAIN sessions, "request") \subseteq RevokeCalls
    BY CallsType
  <2> QED BY <1>15, <2>1, WithoutType DEF EndSession, TypeOK
<1>16. ASSUME NEW c \in Logins, EndPrevious(c)
       PROVE  TypeOK'
  BY <1>15, <1>16 DEF EndPrevious, TypeOK, requestVars, tokenVars
<1>17. ASSUME NEW c \in Logins, CancelLogin(c)
       PROVE  TypeOK'
  BY <1>17 DEF CancelLogin, TypeOK, requestVars, tokenVars
<1>18. ASSUME NEW c \in Logins, Logout(c)
       PROVE  TypeOK'
  BY <1>15, <1>18 DEF Logout, TypeOK, requestVars, tokenVars, loginVars
<1>19. ASSUME NEW selector \in Selectors, EndSessions(selector)
       PROVE  TypeOK'
  <2>1. Calls(Matching(sessions, selector), "task") \subseteq RevokeCalls
    BY CallsType DEF Matching
  <2> QED BY <1>19, <2>1, WithoutType DEF EndSessions, TypeOK, requestVars, tokenVars, loginVars
<1>20. ASSUME Sweep
       PROVE  TypeOK'
  <2>1. Expired(sessions, now) \subseteq Logins
    BY DEF Expired, TypeOK
  <2> QED BY <1>20, <2>1, WithoutType DEF Sweep, TypeOK, requestVars, tokenVars, loginVars
<1>21. ASSUME NEW call \in revokes, RevokeReaches(call)
       PROVE  TypeOK'
  <2>1. call.login \in Logins
    BY DEF TypeOK, RevokeCalls
  <2>2. chain' \in [Logins -> [live : BOOLEAN, token : 0..MaxToken]]
    BY <1>21, <2>1 DEF RevokeReaches, HydraRevokes, TypeOK
  <2> QED BY <1>21, <2>2 DEF RevokeReaches, TypeOK, requestVars, loginVars
<1>22. ASSUME NEW call \in revokes, RevokeFails(call)
       PROVE  TypeOK'
  <2>1. call.login \in Logins
    BY DEF TypeOK, RevokeCalls
  <2> QED BY <1>22, <2>1 DEF RevokeFails, TypeOK, requestVars, loginVars, tokenVars
<1>23. ASSUME NEW c \in Logins, HydraEndsChain(c)
       PROVE  TypeOK'
  <2>1. chain' \in [Logins -> [live : BOOLEAN, token : 0..MaxToken]]
    BY <1>23 DEF HydraEndsChain, TypeOK
  <2> QED BY <1>23, <2>1 DEF HydraEndsChain, TypeOK, requestVars, loginVars
<1>24. ASSUME Tick
       PROVE  TypeOK'
  BY <1>24 DEF Tick, TypeOK, requestVars, loginVars, tokenVars
<1>25. ASSUME UNCHANGED vars
       PROVE  TypeOK'
  BY <1>25 DEF vars, TypeOK
<1> QED BY <1>1, <1>2, <1>3, <1>4, <1>5, <1>6, <1>7, <1>9, <1>10, <1>11, <1>12, <1>13,
           <1>14, <1>16, <1>17, <1>18, <1>19, <1>20, <1>21, <1>22, <1>23, <1>24, <1>25
        DEF Next

-----------------------------------------------------------------------------
Active == {"waiting"} \cup Holding

Untouched(r) == /\ pc'[r] = pc[r] /\ target'[r] = target[r]
                /\ held'[r] = held[r] /\ answer'[r] = answer[r]

\* A step that stores no token, obtains none and gives nobody a turn: sessions
\* and chains only end, requests only finish, and one that finishes with a
\* rotated token in its hands is known to have lost it or has no session.
Quiet ==
  /\ \A c \in DOMAIN sessions' : c \in DOMAIN sessions /\ sessions'[c] = sessions[c]
  /\ \A c \in Logins :
       /\ chain'[c].live => chain[c].live
       /\ chain'[c].token = chain[c].token
       /\ login'[c] = login[c] \/ login'[c] \notin {"none", "exchanged"}
  /\ \A r \in Requests :
       \/ Untouched(r)
       \/ /\ pc'[r] \notin Active
          /\ pc[r] = "answered" /\ answer[r].kind = "rotated" =>
               target[r] \in lost' \/ target[r] \notin DOMAIN sessions'
  /\ \A call \in strays' : call \in strays \/ login'[call.login] \notin {"none", "exchanged"}
  /\ lost \subseteq lost' /\ reused' = reused

\* A quiet step breaks nothing.
LEMMA QuietStep ==
  ASSUME TokenInv, TypeOK', Quiet
  PROVE  TokenInv'
<1>1. OneTurn'
  BY DEF TokenInv, OneTurn, Quiet, Untouched, Active
<1>2. RequestsHaveSessions'
  <2> SUFFICES ASSUME NEW r \in Requests, pc'[r] \in Active
               PROVE  /\ target'[r] \in Logins /\ login'[target'[r]] \notin {"none", "exchanged"}
                      /\ pc'[r] \in Holding => held'[r] \in SessionData
                      /\ pc'[r] \in {"answered", "revoking"} => answer'[r] \in Results
                      /\ pc'[r] = "revoking" => answer'[r].kind # "rejected"
    BY DEF RequestsHaveSessions, Active, Holding
  <2>1. Untouched(r)
    BY DEF Quiet
  <2>2. /\ target[r] \in Logins /\ login[target[r]] \notin {"none", "exchanged"}
        /\ pc[r] \in Holding => held[r] \in SessionData
        /\ pc[r] \in {"answered", "revoking"} => answer[r] \in Results
        /\ pc[r] = "revoking" => answer[r].kind # "rejected"
    BY <2>1 DEF TokenInv, RequestsHaveSessions, Untouched, Active
  <2> QED BY <2>1, <2>2 DEF Untouched, Quiet
<1>3. LoginsStartClean'
  <2> SUFFICES ASSUME NEW c \in Logins, login'[c] \in {"none", "exchanged"}
               PROVE  /\ c \notin DOMAIN sessions' /\ \A call \in strays' : call.login # c
                      /\ login'[c] = "none" => ~chain'[c].live
                      /\ login'[c] = "exchanged" => chain'[c].token = 1
    BY DEF LoginsStartClean
  <2>1. login'[c] = login[c]
    BY DEF Quiet
  <2>2. /\ c \notin DOMAIN sessions /\ \A call \in strays : call.login # c
        /\ login[c] = "none" => ~chain[c].live
        /\ login[c] = "exchanged" => chain[c].token = 1
    BY <2>1 DEF TokenInv, LoginsStartClean
  <2> QED BY <2>1, <2>2 DEF Quiet
<1>4. HeldTokenIsCurrent'
  <2> SUFFICES ASSUME NEW r \in Requests, pc'[r] \in Holding, chain'[target'[r]].live,
                      target'[r] \notin lost'
               PROVE  \/ pc'[r] = "refreshing" /\ held'[r].token = chain'[target'[r]].token
                      \/ pc'[r] # "refreshing" /\ (answer'[r].kind # "rejected" =>
                                                answer'[r].token = chain'[target'[r]].token)
    BY DEF HeldTokenIsCurrent
  <2>1. Untouched(r)
    BY DEF Quiet, Active
  <2>2. target[r] \in Logins
    BY <2>1 DEF TokenInv, RequestsHaveSessions, Untouched
  <2>3. chain[target[r]].live /\ chain'[target[r]].token = chain[target[r]].token
        /\ target[r] \notin lost
    BY <2>1, <2>2 DEF Quiet, Untouched
  <2> QED BY <2>1, <2>3 DEF TokenInv, HeldTokenIsCurrent, Untouched
<1>5. StoredTokenIsCurrent'
  <2> SUFFICES ASSUME NEW c \in DOMAIN sessions', chain'[c].live, c \notin lost',
                      sessions'[c].token # chain'[c].token
               PROVE  \E r \in Requests :
                        /\ pc'[r] = "answered" /\ target'[r] = c
                        /\ answer'[r] = [kind |-> "rotated", token |-> chain'[c].token]
    BY DEF StoredTokenIsCurrent
  <2>1. c \in DOMAIN sessions /\ c \in Logins /\ sessions'[c] = sessions[c]
    BY DEF Quiet, TypeOK
  <2>2. chain[c].live /\ chain'[c].token = chain[c].token /\ c \notin lost
    BY <2>1 DEF Quiet
  <2>3. PICK r \in Requests : /\ pc[r] = "answered" /\ target[r] = c
                              /\ answer[r] = [kind |-> "rotated", token |-> chain[c].token]
    BY <2>1, <2>2 DEF TokenInv, StoredTokenIsCurrent
  <2>4. Untouched(r)
    BY <2>3 DEF Quiet
  <2> QED BY <2>2, <2>3, <2>4 DEF Untouched
<1>6. SpentOnlyAfterLoss'
  BY DEF TokenInv, SpentOnlyAfterLoss, Quiet
<1> QED BY <1>1, <1>2, <1>3, <1>4, <1>5, <1>6 DEF TokenInv

\* A request that finishes with no rotated token in hand, or with its loss
\* noted, is quiet about the requests.
LEMMA FinishIsQuiet ==
  ASSUME TypeOK, NEW r \in Requests, NEW outcome \in Answered, Finish(r, outcome)
  PROVE  pc'[r] \notin Active /\ \A q \in Requests \ {r} : Untouched(q)
BY FinishProperties DEF Active, Answered, Holding, Untouched

\* What the loop over Hydra's answers leaves of OneTurn, RequestsHaveSessions
\* and HeldTokenIsCurrent when no request but r changes.
LEMMA OneRequestStep ==
  ASSUME TokenInv, TypeOK', NEW r \in Requests,
         \A q \in Requests \ {r} : Untouched(q),
         target'[r] \in Logins,
         pc[r] \in Holding => pc'[r] \in Holding /\ target'[r] = target[r],
         pc'[r] \in Holding /\ pc[r] \notin Holding =>
           \A q \in Requests : pc[q] \in Holding => target[q] # target'[r],
         login' = login, login[target'[r]] \notin {"none", "exchanged"},
         pc'[r] \in Holding => held'[r] \in SessionData,
         pc'[r] \in {"answered", "revoking"} => answer'[r] \in Results,
         pc'[r] = "revoking" => answer'[r].kind # "rejected"
  PROVE  OneTurn' /\ RequestsHaveSessions'
<1>1. ASSUME NEW p \in Requests, NEW q \in Requests, p # q,
             pc'[p] \in Holding, pc'[q] \in Holding, target'[p] = target'[q]
      PROVE  FALSE
  <2>1. CASE p # r /\ q # r
    BY <1>1, <2>1 DEF TokenInv, OneTurn, Untouched
  <2>2. CASE p = r
    BY <1>1, <2>2 DEF TokenInv, OneTurn, Untouched
  <2>3. CASE q = r
    BY <1>1, <2>3 DEF TokenInv, OneTurn, Untouched
  <2> QED BY <2>1, <2>2, <2>3
<1>2. OneTurn'
  BY <1>1 DEF OneTurn
<1>3. ASSUME NEW q \in Requests
      PROVE  /\ pc'[q] \in {"waiting"} \cup Holding =>
                  target'[q] \in Logins /\ login'[target'[q]] \notin {"none", "exchanged"}
             /\ pc'[q] \in Holding => held'[q] \in SessionData
             /\ pc'[q] \in {"answered", "revoking"} => answer'[q] \in Results
             /\ pc'[q] = "revoking" => answer'[q].kind # "rejected"
  <2>1. CASE q = r
    BY <2>1
  <2>2. CASE q # r
    <3>1. Untouched(q)
      BY <2>2
    <3>2. /\ pc[q] \in {"waiting"} \cup Holding =>
                  target[q] \in Logins /\ login[target[q]] \notin {"none", "exchanged"}
          /\ pc[q] \in Holding => held[q] \in SessionData
          /\ pc[q] \in {"answered", "revoking"} => answer[q] \in Results
          /\ pc[q] = "revoking" => answer[q].kind # "rejected"
      BY DEF TokenInv, RequestsHaveSessions
    <3> QED BY <3>1, <3>2 DEF Untouched
  <2> QED BY <2>1, <2>2
<1>4. RequestsHaveSessions'
  BY <1>3 DEF RequestsHaveSessions
<1> QED BY <1>2, <1>4

-----------------------------------------------------------------------------
\* The steps that are not quiet, one by one.

\* A first look that leads to waiting: one more request with a session.
LEMMA WaitStep ==
  ASSUME TokenInv, TypeOK', NEW r \in Requests, NEW c \in Logins, Resolve(r, c),
         pc' = [pc EXCEPT ![r] = "waiting"], target' = [target EXCEPT ![r] = c],
         UNCHANGED <<held, answer>>
  PROVE  TokenInv'
<1>1. /\ pc[r] \notin Holding /\ login[c] = "done" /\ pc'[r] = "waiting" /\ target'[r] = c
      /\ \A q \in Requests \ {r} : Untouched(q)
  BY DEF Resolve, TokenInv, TypeOK, Holding, Answered, Untouched
<1>2. UNCHANGED <<sessions, login, chain, strays, lost, reused>>
  BY DEF Resolve, loginVars, tokenVars
<1>3. OneTurn' /\ RequestsHaveSessions'
  BY <1>1, <1>2, OneRequestStep DEF Holding
<1>4. LoginsStartClean' /\ SpentOnlyAfterLoss'
  BY <1>2 DEF TokenInv, LoginsStartClean, SpentOnlyAfterLoss
<1>5. HeldTokenIsCurrent'
  BY <1>1, <1>2 DEF TokenInv, HeldTokenIsCurrent, Untouched, Holding
<1>6. StoredTokenIsCurrent'
  <2> SUFFICES ASSUME NEW d \in DOMAIN sessions, chain[d].live, d \notin lost,
                      sessions[d].token # chain[d].token
               PROVE  \E q \in Requests :
                        /\ pc'[q] = "answered" /\ target'[q] = d
                        /\ answer'[q] = [kind |-> "rotated", token |-> chain[d].token]
    BY <1>2 DEF StoredTokenIsCurrent
  <2>1. PICK q \in Requests : /\ pc[q] = "answered" /\ target[q] = d
                              /\ answer[q] = [kind |-> "rotated", token |-> chain[d].token]
    BY DEF TokenInv, StoredTokenIsCurrent
  <2>2. Untouched(q)
    BY <1>1, <2>1 DEF Holding
  <2> QED BY <2>1, <2>2 DEF Untouched
<1> QED BY <1>3, <1>4, <1>5, <1>6 DEF TokenInv

\* A turn that leads to a refresh: the token read is the chain's, because
\* nobody else has the turn and could have a newer one in hand.
LEMMA TurnStep ==
  ASSUME TokenInv, TypeOK', NEW r \in Requests, TakeTurn(r),
         target[r] \in DOMAIN sessions,
         pc' = [pc EXCEPT ![r] = "refreshing"],
         held' = [held EXCEPT ![r] = sessions[target[r]]],
         UNCHANGED <<target, answer>>
  PROVE  TokenInv'
<1> DEFINE c == target[r]
<1>1. /\ pc[r] = "waiting" /\ pc'[r] = "refreshing" /\ held'[r] = sessions[c]
      /\ target'[r] = c /\ sessions[c] \in SessionData
      /\ \A q \in Requests \ {r} : Untouched(q)
  BY DEF TakeTurn, TokenInv, TypeOK, Untouched
<1>2. UNCHANGED <<sessions, login, chain, strays, lost, reused, target, answer>>
  BY DEF TakeTurn, loginVars, tokenVars
<1>3. c \in Logins /\ login[c] \notin {"none", "exchanged"}
  BY <1>1 DEF TokenInv, RequestsHaveSessions
<1>4. \A q \in Requests : pc[q] \in Holding => target[q] # c
  BY DEF TakeTurn
<1>5. OneTurn' /\ RequestsHaveSessions'
  BY <1>1, <1>2, <1>3, <1>4, OneRequestStep DEF Holding
<1>6. LoginsStartClean' /\ SpentOnlyAfterLoss'
  BY <1>2 DEF TokenInv, LoginsStartClean, SpentOnlyAfterLoss
<1>7. HeldTokenIsCurrent'
  <2>1. ASSUME NEW q \in Requests \ {r}
        PROVE  \/ pc'[q] \notin Holding
               \/ ~chain'[target'[q]].live
               \/ target'[q] \in lost'
               \/ pc'[q] = "refreshing" /\ held'[q].token = chain'[target'[q]].token
               \/ pc'[q] # "refreshing" /\ (answer'[q].kind # "rejected" =>
                                             answer'[q].token = chain'[target'[q]].token)
    <3>1. Untouched(q)
      BY <1>1
    <3> QED BY <1>2, <3>1 DEF TokenInv, HeldTokenIsCurrent, Untouched
  <2>2. ~chain[c].live \/ c \in lost \/ sessions[c].token = chain[c].token
    BY <1>4 DEF TokenInv, StoredTokenIsCurrent, Holding
  <2>3. ~chain'[target'[r]].live \/ target'[r] \in lost'
          \/ held'[r].token = chain'[target'[r]].token
    BY <1>1, <1>2, <2>2
  <2> QED BY <1>1, <2>1, <2>3 DEF HeldTokenIsCurrent
<1>8. StoredTokenIsCurrent'
  <2> SUFFICES ASSUME NEW d \in DOMAIN sessions, chain[d].live, d \notin lost,
                      sessions[d].token # chain[d].token
               PROVE  \E q \in Requests :
                        /\ pc'[q] = "answered" /\ target'[q] = d
                        /\ answer'[q] = [kind |-> "rotated", token |-> chain[d].token]
    BY <1>2 DEF StoredTokenIsCurrent
  <2>1. PICK q \in Requests : /\ pc[q] = "answered" /\ target[q] = d
                              /\ answer[q] = [kind |-> "rotated", token |-> chain[d].token]
    BY DEF TokenInv, StoredTokenIsCurrent
  <2>2. Untouched(q)
    BY <1>1, <2>1
  <2> QED BY <2>1, <2>2 DEF Untouched
<1> QED BY <1>5, <1>6, <1>7, <1>8 DEF TokenInv

\* Hydra acts on a refresh: it was given the chain's token unless an answer was
\* lost before, so a rotation leaves the new token in this request's hands only.
LEMMA ReachStep ==
  ASSUME TokenInv, TypeOK', NEW r \in Requests, RefreshReaches(r)
  PROVE  TokenInv'
<1> DEFINE c == target[r]
           token == held[r].token
<1>1. PICK result \in Results : /\ HydraRefreshes(c, token, result)
                                /\ answer' = [answer EXCEPT ![r] = result]
  BY DEF RefreshReaches
<1>2. /\ pc[r] = "refreshing" /\ pc'[r] = "answered" /\ answer'[r] = result
      /\ target'[r] = c
      /\ \A q \in Requests \ {r} : Untouched(q)
  BY <1>1 DEF RefreshReaches, TokenInv, TypeOK, Untouched
<1>3. UNCHANGED <<sessions, login, strays, lost, target, held>>
  BY DEF RefreshReaches, loginVars
<1>4. /\ c \in Logins /\ login[c] \notin {"none", "exchanged"}
      /\ held[r] \in SessionData /\ token \in Tokens
  BY <1>2 DEF TokenInv, RequestsHaveSessions, Holding, SessionData
<1> HIDE DEF c, token
<1>5. /\ \A d \in Logins \ {c} : chain'[d] = chain[d]
      /\ chain'[c].live => chain[c].live
      /\ reused' \in {reused, reused \cup {c}}
      /\ chain[c].live /\ chain[c].token = token =>
           /\ reused' = reused
           /\ result.kind # "rejected" => chain'[c].token = result.token
           /\ result.kind # "rotated" => chain'[c].token = token
      /\ ~chain[c].live => reused' = reused
  BY <1>1, <1>4, HydraProperties DEF TokenInv
<1>6. result.kind = "rotated" => result = [kind |-> "rotated", token |-> result.token]
  BY DEF Results
<1>7. ~chain[c].live \/ c \in lost \/ chain[c].token = token
  BY <1>2 DEF TokenInv, HeldTokenIsCurrent, Holding, c, token
<1>8. \A q \in Requests : pc[q] \in Holding /\ target[q] = c => q = r
  BY <1>2 DEF TokenInv, OneTurn, Holding, c
<1>9. OneTurn' /\ RequestsHaveSessions'
  <2>1. held'[r] \in SessionData /\ answer'[r] \in Results /\ target'[r] \in Logins
    BY <1>2, <1>3, <1>4
  <2>2. pc'[r] \in Holding /\ pc[r] \in Holding /\ target'[r] = target[r]
    BY <1>2 DEF Holding, c
  <2> QED BY <1>2, <1>3, <1>4, <2>1, <2>2, OneRequestStep
<1>10. LoginsStartClean'
  <2> SUFFICES ASSUME NEW d \in Logins, login[d] \in {"none", "exchanged"}
               PROVE  /\ d \notin DOMAIN sessions /\ \A call \in strays : call.login # d
                      /\ login[d] = "none" => ~chain'[d].live
                      /\ login[d] = "exchanged" => chain'[d].token = 1
    BY <1>3 DEF LoginsStartClean
  <2>1. chain'[d] = chain[d]
    BY <1>4, <1>5
  <2> QED BY <2>1 DEF TokenInv, LoginsStartClean
<1>11. HeldTokenIsCurrent'
  <2>1. ASSUME NEW q \in Requests \ {r}
        PROVE  \/ pc'[q] \notin Holding
               \/ ~chain'[target'[q]].live
               \/ target'[q] \in lost'
               \/ pc'[q] = "refreshing" /\ held'[q].token = chain'[target'[q]].token
               \/ pc'[q] # "refreshing" /\ (answer'[q].kind # "rejected" =>
                                             answer'[q].token = chain'[target'[q]].token)
    <3>1. Untouched(q)
      BY <1>2
    <3>2. CASE pc[q] \in Holding
      <4>1. target[q] \in Logins \ {c}
        BY <1>8, <3>2 DEF TokenInv, RequestsHaveSessions
      <4> QED BY <1>3, <1>5, <3>1, <4>1 DEF TokenInv, HeldTokenIsCurrent, Untouched
    <3> QED BY <3>1, <3>2 DEF Untouched
  <2>2. ~chain'[c].live \/ c \in lost'
          \/ (answer'[r].kind # "rejected" => answer'[r].token = chain'[c].token)
    BY <1>2, <1>3, <1>5, <1>7
  <2> QED BY <1>2, <2>1, <2>2 DEF HeldTokenIsCurrent
<1>12. StoredTokenIsCurrent'
  <2> SUFFICES ASSUME NEW d \in DOMAIN sessions, chain'[d].live, d \notin lost,
                      sessions[d].token # chain'[d].token
               PROVE  \E q \in Requests :
                        /\ pc'[q] = "answered" /\ target'[q] = d
                        /\ answer'[q] = [kind |-> "rotated", token |-> chain'[d].token]
    BY <1>3 DEF StoredTokenIsCurrent
  <2>1. d \in Logins
    BY DEF TokenInv, TypeOK
  <2>2. CASE d # c
    <3>1. chain'[d] = chain[d]
      BY <1>5, <2>1, <2>2
    <3>2. PICK q \in Requests : /\ pc[q] = "answered" /\ target[q] = d
                                /\ answer[q] = [kind |-> "rotated", token |-> chain[d].token]
      BY <3>1 DEF TokenInv, StoredTokenIsCurrent
    <3>3. Untouched(q)
      BY <1>2, <3>2
    <3> QED BY <3>1, <3>2, <3>3 DEF Untouched
  <2>3. CASE d = c
    <3>1. chain[c].live /\ chain[c].token = token
      BY <1>5, <1>7, <2>3
    <3>2. sessions[c].token = chain[c].token
      BY <1>2, <1>8, <2>3, <3>1 DEF TokenInv, StoredTokenIsCurrent, Holding
    <3>3. result.kind = "rotated" /\ chain'[c].token = result.token
      BY <1>5, <2>3, <3>1, <3>2
    <3> QED BY <1>2, <1>6, <2>3, <3>3
  <2> QED BY <2>2, <2>3
<1>13. SpentOnlyAfterLoss'
  <2>1. reused' = reused \/ c \in lost
    BY <1>5, <1>7
  <2> QED BY <1>3, <1>5, <2>1 DEF TokenInv, SpentOnlyAfterLoss
<1> QED BY <1>9, <1>10, <1>11, <1>12, <1>13 DEF TokenInv

\* The answer is stored: the stored token is the chain's again.
LEMMA StoreStep ==
  ASSUME TokenInv, TypeOK', NEW r \in Requests, Store(r)
  PROVE  TokenInv'
<1> DEFINE c == target[r]
<1>1. /\ pc[r] = "answered" /\ answer[r].kind \in {"rotated", "kept"} /\ c \in DOMAIN sessions
      /\ sessions' = [sessions EXCEPT ![c] = Refreshed(r)]
      /\ Finish(r, "served")
  BY DEF Store
<1>2. UNCHANGED <<login, chain, strays, lost, reused>>
  BY DEF Store, loginVars, tokenVars
<1>3. pc'[r] \notin Active /\ \A q \in Requests \ {r} : Untouched(q)
  BY <1>1, FinishIsQuiet DEF TokenInv, Answered
<1>4. c \in Logins /\ held[r] \in SessionData
  BY <1>1 DEF TokenInv, RequestsHaveSessions, Holding
<1>5. /\ DOMAIN sessions' = DOMAIN sessions
      /\ \A d \in DOMAIN sessions : d # c => sessions'[d] = sessions[d]
      /\ sessions'[c].token = answer[r].token
  <2>1. Refreshed(r).token = answer[r].token
    BY <1>4 DEF Refreshed, SessionData
  <2> QED BY <1>1, <2>1
<1>6. ~chain[c].live \/ c \in lost \/ answer[r].token = chain[c].token
  BY <1>1 DEF TokenInv, HeldTokenIsCurrent, Holding
<1>7. OneTurn' /\ RequestsHaveSessions' /\ HeldTokenIsCurrent'
  <2> DEFINE old(q) == /\ pc[q] \in Active /\ Untouched(q)
  <2>1. \A q \in Requests : pc'[q] \in Active => q # r /\ old(q)
    BY <1>3 DEF Untouched
  <2>2. OneTurn'
    BY <2>1 DEF TokenInv, OneTurn, Untouched, Active
  <2>3. RequestsHaveSessions'
    <3> SUFFICES ASSUME NEW q \in Requests, pc'[q] \in Active
                 PROVE  /\ target'[q] \in Logins
                        /\ login'[target'[q]] \notin {"none", "exchanged"}
                        /\ pc'[q] \in Holding => held'[q] \in SessionData
                        /\ pc'[q] \in {"answered", "revoking"} => answer'[q] \in Results
                        /\ pc'[q] = "revoking" => answer'[q].kind # "rejected"
      BY DEF RequestsHaveSessions, Active, Holding
    <3>1. Untouched(q) /\ pc[q] \in Active
      BY <2>1
    <3>2. /\ target[q] \in Logins /\ login[target[q]] \notin {"none", "exchanged"}
          /\ pc[q] \in Holding => held[q] \in SessionData
          /\ pc[q] \in {"answered", "revoking"} => answer[q] \in Results
          /\ pc[q] = "revoking" => answer[q].kind # "rejected"
      BY <3>1 DEF TokenInv, RequestsHaveSessions, Active
    <3> QED BY <1>2, <3>1, <3>2 DEF Untouched
  <2>4. HeldTokenIsCurrent'
    <3> SUFFICES ASSUME NEW q \in Requests, pc'[q] \in Holding
                 PROVE  \/ ~chain'[target'[q]].live
                        \/ target'[q] \in lost'
                        \/ pc'[q] = "refreshing" /\ held'[q].token = chain'[target'[q]].token
                        \/ pc'[q] # "refreshing" /\
                             (answer'[q].kind # "rejected" =>
                                answer'[q].token = chain'[target'[q]].token)
      BY DEF HeldTokenIsCurrent
    <3>1. Untouched(q)
      BY <2>1 DEF Active
    <3> QED BY <1>2, <3>1 DEF TokenInv, HeldTokenIsCurrent, Untouched
  <2> QED BY <2>2, <2>3, <2>4
<1>8. LoginsStartClean' /\ SpentOnlyAfterLoss'
  BY <1>2, <1>5 DEF TokenInv, LoginsStartClean, SpentOnlyAfterLoss
<1>9. StoredTokenIsCurrent'
  <2> SUFFICES ASSUME NEW d \in DOMAIN sessions, chain[d].live, d \notin lost,
                      sessions'[d].token # chain[d].token
               PROVE  \E q \in Requests :
                        /\ pc'[q] = "answered" /\ target'[q] = d
                        /\ answer'[q] = [kind |-> "rotated", token |-> chain[d].token]
    BY <1>2, <1>5 DEF StoredTokenIsCurrent
  <2>1. d # c /\ sessions'[d] = sessions[d]
    BY <1>5, <1>6
  <2>2. PICK q \in Requests : /\ pc[q] = "answered" /\ target[q] = d
                              /\ answer[q] = [kind |-> "rotated", token |-> chain[d].token]
    BY <2>1 DEF TokenInv, StoredTokenIsCurrent
  <2>3. Untouched(q)
    BY <1>3, <2>1, <2>2
  <2> QED BY <2>2, <2>3 DEF Untouched
<1> QED BY <1>7, <1>8, <1>9 DEF TokenInv

\* The session is gone: the request keeps its turn and its token, to revoke it.
LEMMA GoneStep ==
  ASSUME TokenInv, TypeOK', NEW r \in Requests, StoreGone(r)
  PROVE  TokenInv'
<1>1. /\ pc[r] = "answered" /\ answer[r].kind \in {"rotated", "kept"}
      /\ target[r] \notin DOMAIN sessions
      /\ pc'[r] = "revoking" /\ target'[r] = target[r] /\ held'[r] = held[r]
      /\ answer'[r] = answer[r]
      /\ \A q \in Requests \ {r} : Untouched(q)
  BY DEF StoreGone, TokenInv, TypeOK, Untouched
<1>2. UNCHANGED <<sessions, login, chain, strays, lost, reused, target, held, answer>>
  BY DEF StoreGone, loginVars, tokenVars
<1>3. /\ target[r] \in Logins /\ login[target[r]] \notin {"none", "exchanged"}
      /\ held[r] \in SessionData /\ answer[r] \in Results
  BY <1>1 DEF TokenInv, RequestsHaveSessions, Holding
<1>4. OneTurn' /\ RequestsHaveSessions'
  BY <1>1, <1>2, <1>3, OneRequestStep DEF Holding
<1>5. LoginsStartClean' /\ SpentOnlyAfterLoss'
  BY <1>2 DEF TokenInv, LoginsStartClean, SpentOnlyAfterLoss
<1>6. HeldTokenIsCurrent'
  <2> SUFFICES ASSUME NEW q \in Requests, pc'[q] \in Holding
               PROVE  \/ ~chain[target[q]].live
                      \/ target[q] \in lost
                      \/ pc'[q] = "refreshing" /\ held[q].token = chain[target[q]].token
                      \/ pc'[q] # "refreshing" /\
                           (answer[q].kind # "rejected" =>
                              answer[q].token = chain[target[q]].token)
    BY <1>2 DEF HeldTokenIsCurrent
  <2>1. CASE q = r
    BY <1>1, <2>1 DEF TokenInv, HeldTokenIsCurrent, Holding
  <2>2. CASE q # r
    BY <1>1, <2>2 DEF TokenInv, HeldTokenIsCurrent, Untouched
  <2> QED BY <2>1, <2>2
<1>7. StoredTokenIsCurrent'
  <2> SUFFICES ASSUME NEW d \in DOMAIN sessions, chain[d].live, d \notin lost,
                      sessions[d].token # chain[d].token
               PROVE  \E q \in Requests :
                        /\ pc'[q] = "answered" /\ target'[q] = d
                        /\ answer'[q] = [kind |-> "rotated", token |-> chain[d].token]
    BY <1>2 DEF StoredTokenIsCurrent
  <2>1. PICK q \in Requests : /\ pc[q] = "answered" /\ target[q] = d
                              /\ answer[q] = [kind |-> "rotated", token |-> chain[d].token]
    BY DEF TokenInv, StoredTokenIsCurrent
  <2>2. Untouched(q)
    BY <1>1, <2>1
  <2> QED BY <2>1, <2>2 DEF Untouched
<1> QED BY <1>4, <1>5, <1>6, <1>7 DEF TokenInv

\* Steps that touch one chain, which no request works on or which is known to
\* be lost, and no request.
LEMMA OtherChainsStep ==
  ASSUME TokenInv, TypeOK', NEW c \in Logins,
         UNCHANGED requestVars,
         \A d \in Logins \ {c} : chain'[d] = chain[d] /\ login'[d] = login[d],
         login[c] \notin {"none", "exchanged"} => login'[c] \notin {"none", "exchanged"},
         \A d \in DOMAIN sessions' \ {c} : d \in DOMAIN sessions /\ sessions'[d] = sessions[d],
         strays' \subseteq strays, lost \subseteq lost', reused' \subseteq reused \cup (lost' \cap {c}),
         \/ c \in lost'
         \/ chain' = chain
         \/ login[c] = "none",
         \/ c \in lost'
         \/ c \notin DOMAIN sessions'
         \/ sessions'[c].token = chain'[c].token,
         login'[c] \in {"none", "exchanged"} =>
           /\ c \notin DOMAIN sessions' /\ \A call \in strays' : call.login # c
           /\ login'[c] = "none" => ~chain'[c].live
           /\ login'[c] = "exchanged" => chain'[c].token = 1
  PROVE  TokenInv'
<1>1. UNCHANGED <<pc, target, held, answer>>
  BY DEF requestVars
<1>2. OneTurn'
  BY <1>1 DEF TokenInv, OneTurn
<1>3. RequestsHaveSessions'
  <2>1. \A q \in Requests : pc[q] \in {"waiting"} \cup Holding =>
          login'[target[q]] \notin {"none", "exchanged"}
    BY DEF TokenInv, RequestsHaveSessions
  <2> QED BY <1>1, <2>1 DEF TokenInv, RequestsHaveSessions
<1>4. LoginsStartClean'
  <2> SUFFICES ASSUME NEW d \in Logins \ {c}, login'[d] \in {"none", "exchanged"}
               PROVE  /\ d \notin DOMAIN sessions' /\ \A call \in strays' : call.login # d
                      /\ login'[d] = "none" => ~chain'[d].live
                      /\ login'[d] = "exchanged" => chain'[d].token = 1
    BY DEF LoginsStartClean
  <2>1. chain'[d] = chain[d] /\ login'[d] = login[d]
    OBVIOUS
  <2> QED BY <2>1 DEF TokenInv, LoginsStartClean
<1>5. \A q \in Requests : pc[q] \in Holding =>
        target[q] \in lost' \/ chain'[target[q]] = chain[target[q]]
  BY DEF TokenInv, RequestsHaveSessions
<1>6. HeldTokenIsCurrent'
  <2> SUFFICES ASSUME NEW q \in Requests, pc[q] \in Holding, target[q] \notin lost'
               PROVE  \/ ~chain'[target[q]].live
                      \/ pc[q] = "refreshing" /\ held[q].token = chain'[target[q]].token
                      \/ pc[q] # "refreshing" /\
                           (answer[q].kind # "rejected" =>
                              answer[q].token = chain'[target[q]].token)
    BY <1>1 DEF HeldTokenIsCurrent
  <2>1. chain'[target[q]] = chain[target[q]] /\ target[q] \notin lost
    BY <1>5
  <2> QED BY <2>1 DEF TokenInv, HeldTokenIsCurrent
<1>7. StoredTokenIsCurrent'
  <2> SUFFICES ASSUME NEW d \in DOMAIN sessions' \ {c}, chain'[d].live, d \notin lost',
                      sessions'[d].token # chain'[d].token
               PROVE  \E q \in Requests :
                        /\ pc[q] = "answered" /\ target[q] = d
                        /\ answer[q] = [kind |-> "rotated", token |-> chain'[d].token]
    BY <1>1 DEF StoredTokenIsCurrent
  <2>1. d \in DOMAIN sessions /\ d \in Logins /\ sessions'[d] = sessions[d]
        /\ chain'[d] = chain[d] /\ d \notin lost
    BY DEF TypeOK
  <2> QED BY <2>1 DEF TokenInv, StoredTokenIsCurrent
<1>8. SpentOnlyAfterLoss'
  BY DEF TokenInv, SpentOnlyAfterLoss
<1> QED BY <1>2, <1>3, <1>4, <1>6, <1>7, <1>8 DEF TokenInv

\* A stray call that reaches Hydra is a loss, whatever Hydra makes of it.
LEMMA StrayStep ==
  ASSUME TokenInv, TypeOK', NEW call \in strays, StrayReaches(call)
  PROVE  TokenInv'
<1> DEFINE c == call.login
<1>1. /\ c \in Logins /\ call.token \in Tokens
      /\ login[c] \notin {"none", "exchanged"}
  BY DEF TokenInv, TypeOK, LoginsStartClean
<1>2. PICK result \in Results : HydraRefreshes(c, call.token, result)
  BY DEF StrayReaches
<1>3. /\ \A d \in Logins \ {c} : chain'[d] = chain[d]
      /\ reused' \subseteq reused \cup {c}
  BY <1>1, <1>2, HydraProperties DEF TokenInv
<1>4. UNCHANGED <<sessions, login>> /\ UNCHANGED requestVars
      /\ strays' \subseteq strays /\ lost' = lost \cup {c}
  BY DEF StrayReaches, loginVars
<1> QED BY <1>1, <1>3, <1>4, OtherChainsStep

\* A chain begins: nobody works on it yet.
LEMMA ExchangeStep ==
  ASSUME TokenInv, TypeOK', NEW c \in Logins, NEW p, Exchange(c, p)
  PROVE  TokenInv'
<1>1. /\ login[c] = "none" /\ login'[c] = "exchanged" /\ chain'[c].token = 1
      /\ \A d \in Logins \ {c} : chain'[d] = chain[d] /\ login'[d] = login[d]
  BY DEF Exchange, TokenInv, TypeOK
<1>2. UNCHANGED <<sessions, strays, lost, reused>> /\ UNCHANGED requestVars
  BY DEF Exchange
<1>3. c \notin DOMAIN sessions /\ \A call \in strays : call.login # c
  BY <1>1 DEF TokenInv, LoginsStartClean
<1> QED BY <1>1, <1>2, <1>3, OtherChainsStep

\* A login is saved with the first token of its chain.
LEMMA SaveStep ==
  ASSUME TokenInv, TypeOK', NEW c \in Logins, SaveSession(c)
  PROVE  TokenInv'
<1> DEFINE data == [user_id |-> UserOf[c], sid |-> SidOf[c], created_at |-> now,
                    refresh_expires_at |-> now + REFRESH_TTL,
                    expires_at |-> now + ACCESS_TTL, token |-> 1]
           all == With(sessions, c, data)
<1>1. PICK gone \in Evictions(all, UserOf[c]) : sessions' = Without(all, gone)
  BY DEF SaveSession
<1>2. data.token = 1
  OBVIOUS
<1> HIDE DEF data
<1>3. /\ \A d \in DOMAIN sessions' \ {c} : d \in DOMAIN sessions /\ sessions'[d] = sessions[d]
      /\ c \in DOMAIN sessions' => sessions'[c] = data
  BY <1>1 DEF With, Without
<1>4. /\ login[c] = "exchanged" /\ login'[c] = "saved"
      /\ \A d \in Logins \ {c} : login'[d] = login[d]
      /\ UNCHANGED <<chain, strays, lost, reused>> /\ UNCHANGED requestVars
  BY DEF SaveSession, tokenVars, TokenInv, TypeOK
<1>5. chain[c].token = 1
  BY <1>4 DEF TokenInv, LoginsStartClean
<1> QED BY <1>2, <1>3, <1>4, <1>5, OtherChainsStep

-----------------------------------------------------------------------------
\* What ends sessions takes them out and changes no other.
LEMMA WithoutIsQuiet ==
  ASSUME NEW ids
  PROVE  \A c \in DOMAIN Without(sessions, ids) :
           c \in DOMAIN sessions /\ Without(sessions, ids)[c] = sessions[c]
BY DEF Without

\* Revoking a token leaves every chain as it is or dead.
LEMMA RevokeIsQuiet ==
  ASSUME TypeOK, NEW c \in Logins, NEW token
  PROVE  \A d \in Logins : /\ HydraRevokes(c, token)[d].live => chain[d].live
                           /\ HydraRevokes(c, token)[d].token = chain[d].token
BY DEF HydraRevokes, TypeOK

\* The inductive step.
LEMMA TokenStep ==
  ASSUME TokenInv, [Next]_vars
  PROVE  TokenInv'
<1> TypeOK'
  BY TypeStep DEF TokenInv
<1> USE DEF Answered
<1>1. ASSUME NEW r \in Requests, NEW c \in Logins, Resolve(r, c)
      PROVE  TokenInv'
  <2>1. ASSUME NEW outcome \in Answered, Finish(r, outcome)
        PROVE  TokenInv'
    <3>1. pc[r] # "answered"
      BY <1>1 DEF Resolve
    <3>2. Quiet
      BY <1>1, <2>1, <3>1, FinishIsQuiet DEF Resolve, Quiet, TokenInv, loginVars, tokenVars
    <3> QED BY <3>2, QuietStep
  <2>2. CASE /\ pc' = [pc EXCEPT ![r] = "waiting"]
             /\ target' = [target EXCEPT ![r] = c]
             /\ UNCHANGED <<held, answer>>
    BY <1>1, <2>2, WaitStep
  <2> QED BY <1>1, <2>1, <2>2 DEF Resolve
<1>2. ASSUME NEW r \in Requests, TakeTurn(r)
      PROVE  TokenInv'
  <2>1. ASSUME NEW outcome \in Answered, Finish(r, outcome)
        PROVE  TokenInv'
    <3>1. pc[r] # "answered"
      BY <1>2 DEF TakeTurn
    <3>2. Quiet
      BY <1>2, <2>1, <3>1, FinishIsQuiet DEF TakeTurn, Quiet, TokenInv, loginVars, tokenVars
    <3> QED BY <3>2, QuietStep
  <2>2. CASE /\ target[r] \in DOMAIN sessions
             /\ pc' = [pc EXCEPT ![r] = "refreshing"]
             /\ held' = [held EXCEPT ![r] = sessions[target[r]]]
             /\ UNCHANGED <<target, answer>>
    BY <1>2, <2>2, TurnStep
  <2> QED BY <1>2, <2>1, <2>2 DEF TakeTurn
<1>3. ASSUME NEW r \in Requests, RefreshReaches(r)
      PROVE  TokenInv'
  BY <1>3, ReachStep
<1>4. ASSUME NEW r \in Requests, Store(r)
      PROVE  TokenInv'
  BY <1>4, StoreStep
<1>5. ASSUME NEW r \in Requests, StoreGone(r)
      PROVE  TokenInv'
  BY <1>5, GoneStep
<1>6. ASSUME NEW r \in Requests, Refused(r)
      PROVE  TokenInv'
  <2>1. Quiet
    BY <1>6, FinishIsQuiet, WithoutIsQuiet DEF Refused, Quiet, TokenInv, loginVars, tokenVars
  <2> QED BY <2>1, QuietStep
<1>7. ASSUME NEW r \in Requests, RevokeNew(r)
      PROVE  TokenInv'
  <2>1. target[r] \in Logins
    BY <1>7 DEF RevokeNew, TokenInv, RequestsHaveSessions, Holding
  <2>2. \A d \in Logins : /\ chain'[d].live => chain[d].live
                          /\ chain'[d].token = chain[d].token
    BY <1>7, <2>1, RevokeIsQuiet DEF RevokeNew, TokenInv
  <2>3. Quiet
    BY <1>7, <2>2, FinishIsQuiet DEF RevokeNew, Quiet, TokenInv, loginVars
  <2> QED BY <2>3, QuietStep
<1>8. ASSUME NEW r \in Requests, NEW outcome \in Answered, WithoutAnswer(r, outcome)
      PROVE  TokenInv'
  <2>1. pc[r] \in Holding =>
          target[r] \in Logins /\ login[target[r]] \notin {"none", "exchanged"}
    BY DEF TokenInv, RequestsHaveSessions
  <2>2. pc'[r] \notin Active /\ \A q \in Requests \ {r} : Untouched(q)
    BY <1>8, FinishIsQuiet DEF WithoutAnswer, TokenInv
  <2>3. UNCHANGED <<sessions, login, chain, reused>>
    BY <1>8 DEF WithoutAnswer, loginVars
  <2>4. lost \subseteq lost' /\ (pc[r] = "answered" /\ answer[r].kind = "rotated"
                                   => target[r] \in lost')
    BY <1>8 DEF WithoutAnswer
  <2>5. \A call \in strays' : call \in strays \/ login'[call.login] \notin {"none", "exchanged"}
    BY <1>8, <2>1, <2>3 DEF WithoutAnswer, Holding
  <2>6. Quiet
    BY <2>2, <2>3, <2>4, <2>5 DEF Quiet
  <2> QED BY <2>6, QuietStep
<1>9. ASSUME NEW r \in Requests, Unavailable(r)
      PROVE  TokenInv'
  BY <1>8, <1>9 DEF Unavailable
<1>10. ASSUME NEW r \in Requests, Cancel(r)
       PROVE  TokenInv'
  <2>1. CASE WithoutAnswer(r, "cancelled")
    BY <1>8, <2>1
  <2>2. CASE /\ pc[r] \in {"waiting", "revoking"}
             /\ Finish(r, "cancelled")
             /\ UNCHANGED <<sessions, loginVars, tokenVars, lost>>
    <3>1. Quiet
      BY <2>2, FinishIsQuiet DEF Quiet, TokenInv, loginVars, tokenVars
    <3> QED BY <3>1, QuietStep
  <2> QED BY <1>10, <2>1, <2>2 DEF Cancel
<1>11. ASSUME NEW call \in strays, StrayReaches(call)
       PROVE  TokenInv'
  BY <1>11, StrayStep
<1>12. ASSUME NEW c \in Logins, NEW p, Exchange(c, p)
       PROVE  TokenInv'
  BY <1>12, ExchangeStep
<1>13. ASSUME NEW c \in Logins, SaveSession(c)
       PROVE  TokenInv'
  BY <1>13, SaveStep
<1>14. ASSUME UNCHANGED requestVars, UNCHANGED <<strays, lost, reused>>,
              \A c \in DOMAIN sessions' : c \in DOMAIN sessions /\ sessions'[c] = sessions[c],
              \A c \in Logins : /\ chain'[c].live => chain[c].live
                                /\ chain'[c].token = chain[c].token
                                /\ login'[c] = login[c] \/ login'[c] \notin {"none", "exchanged"}
       PROVE  TokenInv'
  <2>1. \A r \in Requests : Untouched(r)
    BY <1>14 DEF requestVars, Untouched
  <2>2. Quiet
    BY <1>14, <2>1 DEF Quiet
  <2> QED BY <2>2, QuietStep
<1>15. ASSUME NEW c \in Logins, LoginFails(c) \/ CancelLogin(c)
       PROVE  TokenInv'
  <2>1. \A d \in Logins : login'[d] = login[d] \/ login'[d] \notin {"none", "exchanged"}
    BY <1>15 DEF LoginFails, CancelLogin, TokenInv, TypeOK
  <2> QED BY <1>14, <1>15, <2>1 DEF LoginFails, CancelLogin, tokenVars
<1>16. ASSUME NEW c \in Logins, EndPrevious(c)
       PROVE  TokenInv'
  <2>1. \A d \in Logins : login'[d] = login[d] \/ login'[d] \notin {"none", "exchanged"}
    BY <1>16 DEF EndPrevious, TokenInv, TypeOK
  <2>2. \A d \in DOMAIN sessions' : d \in DOMAIN sessions /\ sessions'[d] = sessions[d]
    BY <1>16, WithoutIsQuiet DEF EndPrevious, EndSession
  <2> QED BY <1>14, <1>16, <2>1, <2>2 DEF EndPrevious, tokenVars
<1>17. ASSUME NEW c \in Logins, Logout(c)
       PROVE  TokenInv'
  <2>1. \A d \in DOMAIN sessions' : d \in DOMAIN sessions /\ sessions'[d] = sessions[d]
    BY <1>17, WithoutIsQuiet DEF Logout, EndSession
  <2> QED BY <1>14, <1>17, <2>1 DEF Logout, tokenVars, loginVars
<1>18. ASSUME NEW selector \in Selectors, EndSessions(selector)
       PROVE  TokenInv'
  <2>1. \A d \in DOMAIN sessions' : d \in DOMAIN sessions /\ sessions'[d] = sessions[d]
    BY <1>18, WithoutIsQuiet DEF EndSessions
  <2> QED BY <1>14, <1>18, <2>1 DEF EndSessions, tokenVars, loginVars
<1>19. ASSUME Sweep
       PROVE  TokenInv'
  <2>1. \A d \in DOMAIN sessions' : d \in DOMAIN sessions /\ sessions'[d] = sessions[d]
    BY <1>19, WithoutIsQuiet DEF Sweep
  <2> QED BY <1>14, <1>19, <2>1 DEF Sweep, tokenVars, loginVars
<1>20. ASSUME NEW call \in revokes, RevokeReaches(call)
       PROVE  TokenInv'
  <2>1. call.login \in Logins
    BY DEF TokenInv, TypeOK, RevokeCalls
  <2>2. \A d \in Logins : /\ chain'[d].live => chain[d].live
                          /\ chain'[d].token = chain[d].token
    BY <1>20, <2>1, RevokeIsQuiet DEF RevokeReaches, TokenInv
  <2> QED BY <1>14, <1>20, <2>2 DEF RevokeReaches, loginVars
<1>21. ASSUME NEW call \in revokes, RevokeFails(call)
       PROVE  TokenInv'
  BY <1>14, <1>21 DEF RevokeFails, loginVars, tokenVars
<1>22. ASSUME NEW c \in Logins, HydraEndsChain(c)
       PROVE  TokenInv'
  <2>1. \A d \in Logins : /\ chain'[d].live => chain[d].live
                          /\ chain'[d].token = chain[d].token
    BY <1>22 DEF HydraEndsChain, TokenInv, TypeOK
  <2> QED BY <1>14, <1>22, <2>1 DEF HydraEndsChain, loginVars
<1>23. ASSUME Tick
       PROVE  TokenInv'
  BY <1>14, <1>23 DEF Tick, loginVars, tokenVars
<1>24. ASSUME UNCHANGED vars
       PROVE  TokenInv'
  BY <1>14, <1>24 DEF vars, requestVars
<1> QED BY <1>1, <1>2, <1>3, <1>4, <1>5, <1>6, <1>7, <1>9, <1>10, <1>11, <1>12, <1>13,
           <1>15, <1>16, <1>17, <1>18, <1>19, <1>20, <1>21, <1>22, <1>23, <1>24
        DEF Next

-----------------------------------------------------------------------------
\* TokenInv holds in every state: types, one turn per session, and that stored
\* and presented tokens are the ones Hydra would accept.
THEOREM TokenInvariance == Spec => []TokenInv
<1>1. Init => TokenInv
  <2> SUFFICES ASSUME Init PROVE TokenInv
    OBVIOUS
  <2>1. TypeOK
    BY TimesAssumption, MaxTokenAssumption
       DEF Init, TypeOK, NoAnswer, NoData
  <2> QED BY <2>1 DEF Init, TokenInv, OneTurn, RequestsHaveSessions, LoginsStartClean,
                      HeldTokenIsCurrent, StoredTokenIsCurrent, SpentOnlyAfterLoss, Holding
<1>2. TokenInv /\ [Next]_vars => TokenInv'
  BY TokenStep
<1> QED BY <1>1, <1>2, PTL DEF Spec

\* bff never makes Hydra take one of its own races for theft: a spent token is
\* presented only when the answer to a refresh went astray.
THEOREM SpentOnlyAfterLossHolds == Spec => []SpentOnlyAfterLoss
<1>1. TokenInv => SpentOnlyAfterLoss
  BY DEF TokenInv
<1> QED BY <1>1, TokenInvariance, PTL

\* The token in the store is the one Hydra accepts, except while the request
\* that rotated it is about to store it, or after a loss.
THEOREM StoredTokenIsCurrentHolds == Spec => []StoredTokenIsCurrent
<1>1. TokenInv => StoredTokenIsCurrent
  BY DEF TokenInv
<1> QED BY <1>1, TokenInvariance, PTL

-----------------------------------------------------------------------------
\* The ids in the store grow by a login's, and by nothing else: update_session
\* of a late refresh in particular adds none.
LEMMA OnlySaveAdds ==
  ASSUME TypeOK, [Next]_vars, NEW c \in DOMAIN sessions', c \notin DOMAIN sessions
  PROVE  c \in Logins /\ SaveSession(c)
<1>1. ASSUME NEW d \in Logins, SaveSession(d)
      PROVE  c = d
  BY <1>1 DEF SaveSession, With, Without
<1>2. ASSUME NEW r \in Requests, Store(r)
      PROVE  DOMAIN sessions' = DOMAIN sessions
  BY <1>2 DEF Store
<1>3. ASSUME NEW ids, sessions' = Without(sessions, ids)
      PROVE  FALSE
  BY <1>3 DEF Without
<1>4. sessions' # sessions
  OBVIOUS
<1>5. \A r \in Requests : ~Refused(r)
  BY <1>3 DEF Refused
<1>6. \A d \in Logins : ~EndPrevious(d) /\ ~Logout(d)
  BY <1>3 DEF EndPrevious, Logout, EndSession
<1>7. ~Sweep /\ \A selector \in Selectors : ~EndSessions(selector)
  BY <1>3 DEF Sweep, EndSessions
<1>8. \A r \in Requests, d \in Logins : ~Resolve(r, d)
  BY <1>4 DEF Resolve
<1>9. \A r \in Requests : /\ ~TakeTurn(r) /\ ~RefreshReaches(r) /\ ~StoreGone(r)
                          /\ ~RevokeNew(r) /\ ~Unavailable(r) /\ ~Cancel(r)
  BY <1>4 DEF TakeTurn, RefreshReaches, StoreGone, RevokeNew, Unavailable, Cancel,
              WithoutAnswer
<1>10. \A d \in Logins : /\ \A p \in (Logins \ {d}) \cup {None} : ~Exchange(d, p)
                         /\ ~LoginFails(d) /\ ~CancelLogin(d) /\ ~HydraEndsChain(d)
  BY <1>4 DEF Exchange, LoginFails, CancelLogin, HydraEndsChain
<1>11. /\ \A call \in revokes : ~RevokeReaches(call) /\ ~RevokeFails(call)
       /\ \A call \in strays : ~StrayReaches(call)
       /\ ~Tick /\ ~(UNCHANGED vars)
  BY <1>4 DEF RevokeReaches, RevokeFails, StrayReaches, Tick, vars
<1>12. PICK d \in Logins : SaveSession(d)
  BY <1>2, <1>5, <1>6, <1>7, <1>8, <1>9, <1>10, <1>11 DEF Next
<1> QED BY <1>1, <1>12

\* A session that ended stays ended, whatever was under way when it did.
THEOREM EndedStaysEndedHolds == Spec => EndedStaysEnded
<1>1. ASSUME TokenInv, [Next]_vars, NEW c \in Logins,
             login[c] \in {"saved", "done", "orphaned"}, c \notin DOMAIN sessions,
             c \in DOMAIN sessions'
      PROVE  FALSE
  <2>1. SaveSession(c)
    BY <1>1, OnlySaveAdds DEF TokenInv
  <2> QED BY <1>1, <2>1 DEF SaveSession
<1>2. TokenInv /\ [Next]_vars =>
        [\A c \in Logins :
           login[c] \in {"saved", "done", "orphaned"} /\ c \notin DOMAIN sessions
             => c \notin DOMAIN sessions']_vars
  BY <1>1
<1> QED BY <1>2, TokenInvariance, PTL DEF Spec, EndedStaysEnded

-----------------------------------------------------------------------------
\* A token stays accounted for when its chain is left alone and whatever
\* accounted for it stays, or hands it on to a revocation, or gives it up.
LEMMA AccountKept ==
  ASSUME NEW c \in Logins, AccountedFor(c), chain'[c].token = chain[c].token,
         lost \subseteq lost', left \subseteq left',
         c \in DOMAIN sessions /\ sessions[c].token = chain[c].token =>
           \/ c \in DOMAIN sessions' /\ sessions'[c].token = chain[c].token
           \/ \E call \in revokes' : call.login = c /\ call.token = chain[c].token
           \/ c \in lost' \cup left',
         login[c] = "exchanged" =>
           \/ login'[c] = "exchanged"
           \/ c \in DOMAIN sessions' /\ sessions'[c].token = chain[c].token
           \/ \E call \in revokes' : call.login = c /\ call.token = chain[c].token
           \/ c \in left',
         \A r \in Requests :
           pc[r] \in {"answered", "revoking"} /\ target[r] = c /\ answer[r].kind = "rotated"
             /\ answer[r].token = chain[c].token =>
               \/ pc'[r] \in {"answered", "revoking"} /\ target'[r] = c /\ answer'[r] = answer[r]
               \/ c \in DOMAIN sessions' /\ sessions'[c].token = chain[c].token
               \/ c \in lost' \cup left',
         \A call \in revokes : call.login = c /\ call.token = chain[c].token =>
           call \in revokes' \/ c \in left'
  PROVE  AccountedFor(c)'
<1>1. CASE c \in DOMAIN sessions /\ sessions[c].token = chain[c].token
  BY <1>1 DEF AccountedFor
<1>2. CASE login[c] = "exchanged"
  BY <1>2 DEF AccountedFor
<1>3. ASSUME NEW r \in Requests, pc[r] \in {"answered", "revoking"}, target[r] = c,
             answer[r] = [kind |-> "rotated", token |-> chain[c].token]
      PROVE  AccountedFor(c)'
  BY <1>3 DEF AccountedFor
<1>4. ASSUME NEW call \in revokes, call.login = c, call.token = chain[c].token
      PROVE  AccountedFor(c)'
  BY <1>4 DEF AccountedFor
<1>5. CASE c \in lost \cup left
  BY <1>5 DEF AccountedFor
<1> QED BY <1>1, <1>2, <1>3, <1>4, <1>5 DEF AccountedFor

\* Calls has a revocation for every session it is asked about.
LEMMA CallsCover ==
  ASSUME NEW ids, NEW by, NEW c \in ids
  PROVE  \E call \in Calls(ids, by) : call.login = c /\ call.token = sessions[c].token
<1>1. [login |-> c, token |-> sessions[c].token, by |-> by] \in Calls(ids, by)
  BY DEF Calls
<1> QED BY <1>1

\* The inductive step of LiveTokensAccountedFor, on top of TokenInv.
LEMMA LiveStep ==
  ASSUME TokenInv, LiveTokensAccountedFor, [Next]_vars
  PROVE  LiveTokensAccountedFor'
<1> SUFFICES ASSUME NEW c \in Logins, chain'[c].live
             PROVE  AccountedFor(c)'
  BY DEF LiveTokensAccountedFor
<1> TypeOK
  BY DEF TokenInv
<1> USE DEF Answered
<1>0. chain[c].live => AccountedFor(c)
  BY DEF LiveTokensAccountedFor
<1>1. ASSUME NEW r \in Requests, NEW d \in Logins, Resolve(r, d)
      PROVE  AccountedFor(c)'
  <2>1. UNCHANGED <<sessions, login, chain, revokes, lost, left>>
    BY <1>1 DEF Resolve, loginVars, tokenVars
  <2>2. \A q \in Requests : pc[q] \in {"answered", "revoking"} =>
          pc'[q] = pc[q] /\ target'[q] = target[q] /\ answer'[q] = answer[q]
    BY <1>1 DEF Resolve, Finish, TypeOK
  <2> QED BY <1>0, <2>1, <2>2, AccountKept
<1>2. ASSUME NEW r \in Requests, TakeTurn(r)
      PROVE  AccountedFor(c)'
  <2>1. UNCHANGED <<sessions, login, chain, revokes, lost, left>>
    BY <1>2 DEF TakeTurn, loginVars, tokenVars
  <2>2. \A q \in Requests : pc[q] \in {"answered", "revoking"} =>
          pc'[q] = pc[q] /\ target'[q] = target[q] /\ answer'[q] = answer[q]
    BY <1>2 DEF TakeTurn, Finish, TypeOK
  <2> QED BY <1>0, <2>1, <2>2, AccountKept
<1>3. ASSUME NEW r \in Requests, RefreshReaches(r)
      PROVE  AccountedFor(c)'
  <2>1. PICK result \in Results : /\ HydraRefreshes(target[r], held[r].token, result)
                                  /\ answer' = [answer EXCEPT ![r] = result]
    BY <1>3 DEF RefreshReaches
  <2>2. target[r] \in Logins /\ held[r].token \in Tokens /\ pc[r] = "refreshing"
    BY <1>3 DEF RefreshReaches, TokenInv, RequestsHaveSessions, Holding, SessionData
  <2>3. UNCHANGED <<sessions, login, revokes, lost, left, target>>
    BY <1>3 DEF RefreshReaches, loginVars
  <2>4. /\ pc'[r] = "answered" /\ answer'[r] = result
        /\ \A q \in Requests \ {r} : pc'[q] = pc[q] /\ answer'[q] = answer[q]
    BY <1>3, <2>1 DEF RefreshReaches, TypeOK
  <2>5. CASE chain'[c].token = chain[c].token
    <3>1. chain[c].live
      BY <2>1, <2>2, HydraProperties
    <3> QED BY <1>0, <2>2, <2>3, <2>4, <2>5, <3>1, AccountKept
  <2>6. CASE chain'[c].token # chain[c].token
    <3>1. c = target[r] /\ result = [kind |-> "rotated", token |-> chain'[c].token]
      BY <2>1, <2>2, <2>6 DEF HydraRefreshes, TypeOK
    <3> QED BY <2>3, <2>4, <3>1 DEF AccountedFor
  <2> QED BY <2>5, <2>6
<1>4. ASSUME NEW r \in Requests, Store(r)
      PROVE  AccountedFor(c)'
  <2>1. UNCHANGED <<login, chain, revokes, lost, left>>
    BY <1>4 DEF Store, loginVars, tokenVars
  <2>2. \A q \in Requests \ {r} : Untouched(q)
    BY <1>4, FinishIsQuiet DEF Store
  <2>3. held[r] \in SessionData
    BY <1>4 DEF Store, TokenInv, RequestsHaveSessions, Holding
  <2>4. /\ DOMAIN sessions' = DOMAIN sessions /\ target[r] \in DOMAIN sessions
        /\ \A d \in DOMAIN sessions : d # target[r] => sessions'[d] = sessions[d]
        /\ sessions'[target[r]].token = answer[r].token
    <3>1. Refreshed(r).token = answer[r].token
      BY <2>3 DEF Refreshed, SessionData
    <3> QED BY <1>4, <3>1 DEF Store
  <2>5. CASE c = target[r]
    <3>1. c \in lost \/ answer[r].token = chain[c].token
      BY <1>4, <2>1, <2>5 DEF Store, TokenInv, HeldTokenIsCurrent, Holding
    <3> QED BY <2>1, <2>4, <2>5, <3>1 DEF AccountedFor
  <2>6. CASE c # target[r]
    BY <1>0, <2>1, <2>2, <2>4, <2>6, AccountKept DEF Untouched
  <2> QED BY <2>5, <2>6
<1>5. ASSUME NEW r \in Requests, StoreGone(r)
      PROVE  AccountedFor(c)'
  <2>1. UNCHANGED <<sessions, login, chain, revokes, lost, left, target, answer>>
    BY <1>5 DEF StoreGone, loginVars, tokenVars
  <2>2. \A q \in Requests : pc[q] \in {"answered", "revoking"} => pc'[q] \in {"answered", "revoking"}
    BY <1>5 DEF StoreGone, TypeOK
  <2> QED BY <1>0, <2>1, <2>2, AccountKept
<1>6. ASSUME NEW r \in Requests, Refused(r)
      PROVE  AccountedFor(c)'
  <2>1. UNCHANGED <<login, chain, revokes, lost>> /\ left \subseteq left'
    BY <1>6 DEF Refused, loginVars, tokenVars
  <2>2. c = target[r] => c \in left'
    BY <1>6, <2>1 DEF Refused
  <2>3. c # target[r] /\ c \in DOMAIN sessions =>
          c \in DOMAIN sessions' /\ sessions'[c] = sessions[c]
    BY <1>6 DEF Refused, Without
  <2>4. \A q \in Requests \ {r} : Untouched(q)
    BY <1>6, FinishIsQuiet DEF Refused
  <2> QED BY <1>0, <2>1, <2>2, <2>3, <2>4, AccountKept DEF Untouched
<1>7. ASSUME NEW r \in Requests, RevokeNew(r)
      PROVE  AccountedFor(c)'
  <2>1. UNCHANGED <<sessions, login, revokes, lost>> /\ left \subseteq left'
    BY <1>7 DEF RevokeNew, loginVars
  <2>2. \A q \in Requests \ {r} : Untouched(q)
    BY <1>7, FinishIsQuiet DEF RevokeNew
  <2>3. target[r] \in Logins
    BY <1>7 DEF RevokeNew, TokenInv, RequestsHaveSessions, Holding
  <2>4. chain[c].live /\ chain'[c].token = chain[c].token
    BY <1>7, <2>3, RevokeIsQuiet DEF RevokeNew
  <2>5. target[r] # c \/ answer[r].token # chain[c].token \/ c \in left'
    BY <1>7 DEF RevokeNew, HydraRevokes, TypeOK
  <2> QED BY <1>0, <2>1, <2>2, <2>4, <2>5, AccountKept DEF Untouched
<1>8. ASSUME NEW r \in Requests, NEW outcome \in Answered, WithoutAnswer(r, outcome)
      PROVE  AccountedFor(c)'
  <2>1. UNCHANGED <<sessions, login, chain, revokes, left>> /\ lost \subseteq lost'
    BY <1>8 DEF WithoutAnswer, loginVars
  <2>2. \A q \in Requests \ {r} : Untouched(q)
    BY <1>8, FinishIsQuiet DEF WithoutAnswer
  <2>3. pc[r] \in {"answered", "revoking"} /\ answer[r].kind = "rotated" => target[r] \in lost'
    BY <1>8 DEF WithoutAnswer
  <2> QED BY <1>0, <2>1, <2>2, <2>3, AccountKept DEF Untouched
<1>9. ASSUME NEW r \in Requests, Unavailable(r)
      PROVE  AccountedFor(c)'
  BY <1>8, <1>9 DEF Unavailable
<1>10. ASSUME NEW r \in Requests, Cancel(r)
       PROVE  AccountedFor(c)'
  <2>1. CASE WithoutAnswer(r, "cancelled")
    BY <1>8, <2>1
  <2>2. CASE /\ pc[r] = "waiting" \/ (pc[r] = "revoking" /\ target[r] \in left')
             /\ left \subseteq left'
             /\ Finish(r, "cancelled")
             /\ UNCHANGED <<sessions, loginVars, tokenVars, revokes, lost>>
    <3>1. \A q \in Requests \ {r} : Untouched(q)
      BY <2>2, FinishIsQuiet
    <3>2. UNCHANGED <<sessions, login, chain, revokes, lost>>
      BY <2>2 DEF loginVars, tokenVars
    <3> QED BY <1>0, <2>2, <3>1, <3>2, AccountKept DEF Untouched
  <2> QED BY <1>10, <2>1, <2>2 DEF Cancel
<1>11. ASSUME UNCHANGED requestVars, lost \subseteq lost', left \subseteq left',
              chain[c].live, chain'[c].token = chain[c].token,
              c \in DOMAIN sessions =>
                \/ c \in DOMAIN sessions' /\ sessions'[c] = sessions[c]
                \/ \E call \in revokes' : call.login = c /\ call.token = sessions[c].token
                \/ c \in left',
              login[c] = "exchanged" => login'[c] = "exchanged" \/ c \in left',
              \A call \in revokes : call.login = c /\ call.token = chain[c].token =>
                call \in revokes' \/ c \in left'
       PROVE  AccountedFor(c)'
  <2>1. UNCHANGED <<pc, target, answer>>
    BY <1>11 DEF requestVars
  <2> QED BY <1>0, <1>11, <2>1, AccountKept
<1>12. ASSUME NEW call \in strays, StrayReaches(call)
       PROVE  AccountedFor(c)'
  <2>1. call.login \in Logins /\ call.token \in Tokens
    BY DEF TypeOK
  <2>2. c # call.login => chain'[c] = chain[c]
    BY <1>12, <2>1, HydraProperties DEF StrayReaches
  <2>3. c = call.login => c \in lost'
    BY <1>12 DEF StrayReaches
  <2> QED BY <1>11, <1>12, <2>2, <2>3 DEF StrayReaches, loginVars, AccountedFor
<1>13. ASSUME NEW d \in Logins, NEW p, Exchange(d, p)
       PROVE  AccountedFor(c)'
  <2>1. CASE c = d
    BY <1>13, <2>1 DEF Exchange, TypeOK, AccountedFor
  <2>2. CASE c # d
    <3>1. chain'[c] = chain[c] /\ login'[c] = login[c]
      BY <1>13, <2>2 DEF Exchange, TypeOK
    <3> QED BY <1>11, <1>13, <3>1 DEF Exchange
  <2> QED BY <2>1, <2>2
<1>14. ASSUME NEW d \in Logins, LoginFails(d) \/ CancelLogin(d)
       PROVE  AccountedFor(c)'
  <2>1. login[c] = "exchanged" => login'[c] = "exchanged" \/ c \in left'
    BY <1>14 DEF LoginFails, CancelLogin, TypeOK
  <2> QED BY <1>11, <1>14, <2>1 DEF LoginFails, CancelLogin, tokenVars
<1>15. ASSUME NEW d \in Logins, SaveSession(d)
       PROVE  AccountedFor(c)'
  <2> DEFINE data == [user_id |-> UserOf[d], sid |-> SidOf[d], created_at |-> now,
                      refresh_expires_at |-> now + REFRESH_TTL,
                      expires_at |-> now + ACCESS_TTL, token |-> 1]
             all == With(sessions, d, data)
  <2>1. PICK gone \in Evictions(all, UserOf[d]) :
          /\ sessions' = Without(all, gone)
          /\ revokes' = revokes \cup
               {[login |-> id, token |-> all[id].token, by |-> "task"] : id \in gone}
    BY <1>15 DEF SaveSession
  <2>2. data.token = 1
    OBVIOUS
  <2> HIDE DEF data
  <2>3. /\ c = d => c \in DOMAIN all /\ all[c].token = 1
        /\ c # d /\ c \in DOMAIN sessions => c \in DOMAIN all /\ all[c] = sessions[c]
    BY <2>2 DEF With
  <2> HIDE DEF all
  <2>4. c \in DOMAIN all =>
          \/ c \in DOMAIN sessions' /\ sessions'[c] = all[c]
          \/ \E call \in revokes' : call.login = c /\ call.token = all[c].token
    <3>1. CASE c \in gone
      <4>1. [login |-> c, token |-> all[c].token, by |-> "task"] \in revokes'
        BY <2>1, <3>1
      <4> QED BY <4>1
    <3>2. CASE c \notin gone
      BY <2>1, <3>2 DEF Without
    <3> QED BY <3>1, <3>2
  <2>5. UNCHANGED <<chain, lost, left>> /\ UNCHANGED requestVars /\ revokes \subseteq revokes'
    BY <1>15, <2>1 DEF SaveSession, tokenVars
  <2>6. CASE c = d
    <3>1. chain[c].token = 1
      BY <1>15, <2>6 DEF SaveSession, TokenInv, LoginsStartClean
    <3> QED BY <2>3, <2>4, <2>5, <2>6, <3>1 DEF AccountedFor
  <2>7. CASE c # d
    <3>1. login'[c] = login[c]
      BY <1>15, <2>7 DEF SaveSession, TypeOK
    <3> QED BY <1>11, <2>3, <2>4, <2>5, <2>7, <3>1
  <2> QED BY <2>6, <2>7
<1>16. ASSUME NEW ids \in SUBSET DOMAIN sessions, NEW by,
              sessions' = Without(sessions, ids), revokes' = revokes \cup Calls(ids, by)
       PROVE  /\ c \in DOMAIN sessions =>
                   \/ c \in DOMAIN sessions' /\ sessions'[c] = sessions[c]
                   \/ \E call \in revokes' : call.login = c /\ call.token = sessions[c].token
              /\ revokes \subseteq revokes'
  BY <1>16, CallsCover DEF Without
<1>17. ASSUME NEW d \in Logins, EndPrevious(d)
       PROVE  AccountedFor(c)'
  <2>1. login[c] = "exchanged" => login'[c] = "exchanged"
    BY <1>17 DEF EndPrevious, TypeOK
  <2>2. /\ sessions' = Without(sessions, {previous[d]} \cap DOMAIN sessions)
        /\ revokes' = revokes \cup Calls({previous[d]} \cap DOMAIN sessions, "request")
        /\ UNCHANGED <<chain, lost, left>> /\ UNCHANGED requestVars
    BY <1>17 DEF EndPrevious, EndSession, tokenVars
  <2> QED BY <1>11, <1>16, <2>1, <2>2
<1>18. ASSUME NEW d \in Logins, Logout(d)
       PROVE  AccountedFor(c)'
  <2>1. /\ sessions' = Without(sessions, {d} \cap DOMAIN sessions)
        /\ revokes' = revokes \cup Calls({d} \cap DOMAIN sessions, "request")
        /\ UNCHANGED <<login, chain, lost, left>> /\ UNCHANGED requestVars
    BY <1>18 DEF Logout, EndSession, tokenVars, loginVars
  <2> QED BY <1>11, <1>16, <2>1
<1>19. ASSUME NEW selector \in Selectors, EndSessions(selector)
       PROVE  AccountedFor(c)'
  <2>1. /\ sessions' = Without(sessions, Matching(sessions, selector))
        /\ revokes' = revokes \cup Calls(Matching(sessions, selector), "task")
        /\ UNCHANGED <<login, chain, lost, left>> /\ UNCHANGED requestVars
    BY <1>19 DEF EndSessions, tokenVars, loginVars
  <2>2. Matching(sessions, selector) \subseteq DOMAIN sessions
    BY DEF Matching
  <2> QED BY <1>11, <1>16, <2>1, <2>2
<1>20. ASSUME Sweep
       PROVE  AccountedFor(c)'
  <2>1. c \in DOMAIN sessions =>
          \/ c \in DOMAIN sessions' /\ sessions'[c] = sessions[c]
          \/ c \in left'
    BY <1>20 DEF Sweep, Without
  <2> QED BY <1>11, <1>20, <2>1 DEF Sweep, tokenVars, loginVars
<1>21. ASSUME NEW call \in revokes, RevokeReaches(call)
       PROVE  AccountedFor(c)'
  <2>1. call.login \in Logins
    BY DEF TypeOK, RevokeCalls
  <2>2. chain[c].live /\ chain'[c].token = chain[c].token
    BY <1>21, <2>1, RevokeIsQuiet DEF RevokeReaches
  <2>3. call.login # c \/ call.token # chain[c].token
    BY <1>21, <2>1 DEF RevokeReaches, HydraRevokes, TypeOK
  <2> QED BY <1>11, <1>21, <2>2, <2>3 DEF RevokeReaches, loginVars
<1>22. ASSUME NEW call \in revokes, RevokeFails(call)
       PROVE  AccountedFor(c)'
  BY <1>11, <1>22 DEF RevokeFails, loginVars, tokenVars
<1>23. ASSUME NEW d \in Logins, HydraEndsChain(d)
       PROVE  AccountedFor(c)'
  <2>1. chain[c].live /\ chain'[c].token = chain[c].token
    BY <1>23 DEF HydraEndsChain, TypeOK
  <2> QED BY <1>11, <1>23, <2>1 DEF HydraEndsChain, loginVars
<1>24. ASSUME Tick \/ UNCHANGED vars
       PROVE  AccountedFor(c)'
  BY <1>11, <1>24 DEF Tick, vars, loginVars, tokenVars, requestVars
<1> QED BY <1>1, <1>2, <1>3, <1>4, <1>5, <1>6, <1>7, <1>9, <1>10, <1>12, <1>13, <1>14,
           <1>15, <1>17, <1>18, <1>19, <1>20, <1>21, <1>22, <1>23, <1>24
        DEF Next

\* No refresh token is forgotten alive: every one that works at Hydra is stored,
\* in a handler's hands, being revoked, or knowingly given up.
THEOREM LiveTokensAccountedForHolds == Spec => []LiveTokensAccountedFor
<1>1. Init => LiveTokensAccountedFor
  BY DEF Init, LiveTokensAccountedFor
<1>2. TokenInv /\ LiveTokensAccountedFor /\ [Next]_vars => LiveTokensAccountedFor'
  BY LiveStep
<1> QED BY <1>1, <1>2, TokenInvariance, PTL DEF Spec

-----------------------------------------------------------------------------
\* A request that finishes gives up or gives back its turn, or had none.
LEMMA FinishSimulation ==
  ASSUME TypeOK, NEW r \in Requests, NEW outcome \in Answered, Finish(r, outcome)
  PROVE  Turn!Next \/ UNCHANGED Turn!mutexVars
<1> USE DEF Holding, Answered
<1>1. pc'[r] \in Answered /\ \A q \in Requests \ {r} : Untouched(q)
  BY FinishProperties, FinishIsQuiet
<1>2. CASE pc[r] = "waiting"
  <2>1. Turn!GiveUp(r)
    BY <1>1, <1>2 DEF Turn!GiveUp, Untouched
  <2> QED BY <2>1 DEF Turn!Next
<1>3. CASE pc[r] \in Holding
  <2>1. Turn!Release(r)
    BY <1>1, <1>3 DEF Turn!Release, Untouched
  <2> QED BY <2>1 DEF Turn!Next
<1>4. CASE pc[r] \notin {"waiting"} \cup Holding
  BY <1>1, <1>4 DEF Turn!mutexVars, Untouched
<1> QED BY <1>2, <1>3, <1>4

\* Every step is a step of RefreshMutex, or leaves the turns alone.
LEMMA TurnSimulation ==
  ASSUME TokenInv, [Next]_vars
  PROVE  Turn!Next \/ UNCHANGED Turn!mutexVars
<1> TypeOK
  BY DEF TokenInv
<1> USE DEF Holding, Answered
<1>1. ASSUME NEW r \in Requests, NEW c \in Logins, Resolve(r, c)
      PROVE  Turn!Next \/ UNCHANGED Turn!mutexVars
  <2>1. ASSUME NEW outcome \in Answered, Finish(r, outcome)
        PROVE  Turn!Next \/ UNCHANGED Turn!mutexVars
    BY <2>1, FinishSimulation
  <2>2. CASE /\ pc' = [pc EXCEPT ![r] = "waiting"]
             /\ target' = [target EXCEPT ![r] = c]
    <3>1. Turn!Want(r, c)
      BY <1>1, <2>2 DEF Turn!Want, Resolve, TypeOK
    <3> QED BY <3>1 DEF Turn!Next
  <2> QED BY <1>1, <2>1, <2>2 DEF Resolve
<1>2. ASSUME NEW r \in Requests, TakeTurn(r)
      PROVE  Turn!Next \/ UNCHANGED Turn!mutexVars
  <2>1. ASSUME NEW outcome \in Answered, Finish(r, outcome)
        PROVE  Turn!Next \/ UNCHANGED Turn!mutexVars
    BY <2>1, FinishSimulation
  <2>2. CASE /\ pc' = [pc EXCEPT ![r] = "refreshing"]
             /\ UNCHANGED target
    <3>1. Turn!Take(r)
      BY <1>2, <2>2 DEF Turn!Take, TakeTurn, TypeOK
    <3> QED BY <3>1 DEF Turn!Next
  <2> QED BY <1>2, <2>1, <2>2 DEF TakeTurn
<1>3. ASSUME NEW r \in Requests, RefreshReaches(r) \/ StoreGone(r)
      PROVE  Turn!Next \/ UNCHANGED Turn!mutexVars
  BY <1>3 DEF RefreshReaches, StoreGone, TypeOK, Turn!mutexVars
<1>4. ASSUME NEW r \in Requests,
             Store(r) \/ Refused(r) \/ RevokeNew(r) \/ Unavailable(r) \/ Cancel(r)
      PROVE  Turn!Next \/ UNCHANGED Turn!mutexVars
  <2>1. \E outcome \in Answered : Finish(r, outcome)
    BY <1>4 DEF Store, Refused, RevokeNew, Unavailable, Cancel, WithoutAnswer
  <2> QED BY <2>1, FinishSimulation
<1>5. ASSUME UNCHANGED <<pc, target>>
      PROVE  Turn!Next \/ UNCHANGED Turn!mutexVars
  BY <1>5 DEF Turn!mutexVars
<1>6. ASSUME NEW c \in Logins,
             \/ \E p \in (Logins \ {c}) \cup {None} : Exchange(c, p)
             \/ LoginFails(c) \/ SaveSession(c) \/ EndPrevious(c) \/ CancelLogin(c)
             \/ Logout(c) \/ HydraEndsChain(c)
      PROVE  UNCHANGED <<pc, target>>
  BY <1>6 DEF Exchange, LoginFails, SaveSession, EndPrevious, CancelLogin, Logout,
              HydraEndsChain, requestVars
<1>7. ASSUME \/ \E selector \in Selectors : EndSessions(selector)
             \/ Sweep \/ Tick \/ UNCHANGED vars
             \/ \E call \in revokes : RevokeReaches(call) \/ RevokeFails(call)
             \/ \E call \in strays : StrayReaches(call)
      PROVE  UNCHANGED <<pc, target>>
  BY <1>7 DEF EndSessions, Sweep, Tick, vars, RevokeReaches, RevokeFails, StrayReaches,
              requestVars
<1> QED BY <1>1, <1>2, <1>3, <1>4, <1>5, <1>6, <1>7 DEF Next

\* bff's requests take their turns as RefreshMutex promises, which RefreshLocks
\* is shown to implement: the two modules meet at that specification.
THEOREM TakesTurnsHolds == Spec => TakesTurns
<1>1. Init => Turn!Init
  BY DEF Init, Turn!Init, Holding
<1>2. TokenInv /\ [Next]_vars => [Turn!Next]_(Turn!mutexVars)
  BY TurnSimulation
<1> QED BY <1>1, <1>2, TokenInvariance, PTL DEF Spec, TakesTurns, Turn!Spec

\* A request that waited is forwarded only with a session still in the store.
THEOREM ServedFromTheStoreHolds == Spec => ServedFromTheStore
<1>1. ASSUME TokenInv, [Next]_vars, NEW r \in Requests,
             pc[r] \in {"waiting", "answered"}, pc'[r] = "served"
      PROVE  target[r] \in DOMAIN sessions \cap DOMAIN sessions'
  <2> TypeOK
    BY <1>1 DEF TokenInv
  <2> USE DEF Answered
  <2>1. ASSUME NEW q \in Requests, Store(q)
        PROVE  q = r /\ target[r] \in DOMAIN sessions \cap DOMAIN sessions'
    BY <1>1, <2>1 DEF Store, Finish, TypeOK
  <2>2. ASSUME NEW q \in Requests, TakeTurn(q)
        PROVE  target[r] \in DOMAIN sessions \cap DOMAIN sessions'
    <3>1. q = r
      BY <1>1, <2>2 DEF TakeTurn, Finish, TypeOK
    <3> QED BY <1>1, <2>2, <3>1 DEF TakeTurn, Finish, TypeOK
  <2>3. \A q \in Requests, c \in Logins : ~Resolve(q, c)
    BY <1>1 DEF Resolve, Finish, TypeOK
  <2>4. \A q \in Requests : ~RefreshReaches(q) /\ ~StoreGone(q)
    BY <1>1 DEF RefreshReaches, StoreGone, TypeOK
  <2>5. \A q \in Requests : ~Refused(q) /\ ~RevokeNew(q)
    BY <1>1 DEF Refused, RevokeNew, Finish, TypeOK
  <2>6. \A q \in Requests : ~Unavailable(q) /\ ~Cancel(q)
    BY <1>1 DEF Unavailable, Cancel, WithoutAnswer, Finish, TypeOK
  <2>7. pc' # pc
    BY <1>1
  <2>8. \A c \in Logins :
          /\ \A p \in (Logins \ {c}) \cup {None} : ~Exchange(c, p)
          /\ ~LoginFails(c) /\ ~SaveSession(c) /\ ~EndPrevious(c) /\ ~CancelLogin(c)
          /\ ~Logout(c) /\ ~HydraEndsChain(c)
    BY <2>7 DEF Exchange, LoginFails, SaveSession, EndPrevious, CancelLogin, Logout,
                HydraEndsChain, requestVars
  <2>9. /\ \A selector \in Selectors : ~EndSessions(selector)
        /\ ~Sweep /\ ~Tick /\ ~(UNCHANGED vars)
        /\ \A call \in revokes : ~RevokeReaches(call) /\ ~RevokeFails(call)
        /\ \A call \in strays : ~StrayReaches(call)
    BY <2>7 DEF EndSessions, Sweep, Tick, vars, RevokeReaches, RevokeFails, StrayReaches,
                requestVars
  <2> QED BY <1>1, <2>1, <2>2, <2>3, <2>4, <2>5, <2>6, <2>8, <2>9 DEF Next
<1>2. TokenInv /\ [Next]_vars =>
        [\A r \in Requests :
           pc[r] \in {"waiting", "answered"} /\ pc'[r] = "served" =>
             target[r] \in DOMAIN sessions \cap DOMAIN sessions']_vars
  BY <1>1
<1> QED BY <1>2, TokenInvariance, PTL DEF Spec, ServedFromTheStore
=============================================================================
