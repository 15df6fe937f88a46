-------------------------------- MODULE Bff ---------------------------------
(***************************************************************************)
(* bff's sessions and Hydra's refresh tokens, and everything that touches  *)
(* both: proxied requests that refresh (server/api/proxy.rs), logins that  *)
(* complete (callback.rs), logouts (logout.rs), back-channel and internal  *)
(* revocation (end_sessions in server/mod.rs) and the expiry sweep.        *)
(*                                                                         *)
(* bff's store is the registry of SessionModel, which SessionStore         *)
(* implements; the per-session turn is RefreshMutex's, which RefreshLocks  *)
(* implements.  A handler is split where it awaits: there the clock moves, *)
(* other handlers run, and the client may go away, which drops the         *)
(* handler's future (Cancel).  A call to Hydra may fail or time out before *)
(* or after Hydra acted on it, and Hydra may act on a call nobody waits    *)
(* for any more.                                                           *)
(*                                                                         *)
(* A login names its session id and its chain of refresh tokens: token n   *)
(* of a chain is the n-th one issued, and Hydra rotates it on use.         *)
(***************************************************************************)
EXTENDS SessionModel

CONSTANTS
  Requests,     \* proxied requests
  Logins,       \* logins; each is also a session id and a token chain
  None,         \* no login
  UserOf,       \* login -> user, the id_token's sub
  SidOf,        \* login -> the id_token's sid, or NoSid
  REFRESH_TTL, ACCESS_TTL,
  ACCESS_TOKEN_REFRESH_LEEWAY,
  Faults,       \* the faults that may happen: a subset of AllFaults
  MaxTime,      \* bound on the clock
  MaxToken      \* bound on the tokens of a chain

AllFaults == {"cancel",  \* a client goes away while its request is served
              "hydra"}   \* a call to Hydra fails, times out or loses its answer

ASSUME FaultsAssumption == Faults \subseteq AllFaults
ASSUME LoginsAssumption ==
  /\ None \notin Logins
  /\ UserOf \in [Logins -> Users]
  /\ SidOf \in [Logins -> Sids \cup {NoSid}]
ASSUME TimesAssumption ==
  /\ REFRESH_TTL \in Nat /\ ACCESS_TTL \in Nat
  /\ ACCESS_TOKEN_REFRESH_LEEWAY \in Nat
  /\ MaxTime \in Nat
ASSUME MaxTokenAssumption == MaxToken \in Nat \ {0}

VARIABLES
  now,
  sessions,  \* bff's store: login -> session data
  login,     \* login -> how far its callback is
  previous,  \* login -> the session in the browser's cookie, or None
  chain,     \* Hydra: login -> [live, token]: the token it would accept
  pc,        \* request -> where it is
  target,    \* request -> the session its cookie names
  held,      \* request -> the session data it read, once it has the turn
  answer,    \* request -> Hydra's answer to its refresh
  revokes,   \* revocation calls under way
  strays,    \* refresh calls nobody waits for, that may still reach Hydra
  lost,      \* chains Hydra acted on without bff getting to know of it
  left,      \* chains bff gave up without having them revoked
  reused     \* chains Hydra saw a spent token of

vars == <<now, sessions, login, previous, chain, pc, target, held, answer,
          revokes, strays, lost, left, reused>>

tokenVars == <<chain, strays, reused>>
requestVars == <<pc, target, held, answer>>
loginVars == <<login, previous>>

-----------------------------------------------------------------------------
Tokens == 1..MaxToken
Answered == {"served", "unauthenticated", "unavailable", "cancelled"}
Holding == {"refreshing", "answered", "revoking"}
NoData == [token |-> 0]
NoAnswer == [kind |-> "none", token |-> 0]

SessionData ==
  [user_id : Users, sid : Sids \cup {NoSid}, created_at : Nat,
   refresh_expires_at : Nat, expires_at : Nat, token : Tokens]

RevokeCalls == [login : Logins, token : Tokens, by : {"request", "task"}]

TypeOK ==
  /\ now \in Nat
  /\ DOMAIN sessions \subseteq Logins
  /\ \A c \in DOMAIN sessions : sessions[c] \in SessionData
  /\ login \in [Logins -> {"none", "exchanged", "saved", "done", "orphaned", "failed"}]
  /\ previous \in [Logins -> Logins \cup {None}]
  /\ chain \in [Logins -> [live : BOOLEAN, token : 0..MaxToken]]
  /\ pc \in [Requests -> {"idle", "waiting"} \cup Holding \cup Answered]
  /\ target \in [Requests -> Logins \cup {None}]
  /\ held \in [Requests -> SessionData \cup {NoData}]
  /\ answer \in [Requests -> [kind : {"none", "rotated", "kept", "rejected"},
                              token : 0..MaxToken]]
  /\ revokes \subseteq RevokeCalls
  /\ strays \subseteq [login : Logins, token : Tokens]
  /\ lost \subseteq Logins /\ left \subseteq Logins /\ reused \subseteq Logins

Init ==
  /\ now = 0
  /\ sessions = <<>>
  /\ login = [c \in Logins |-> "none"]
  /\ previous = [c \in Logins |-> None]
  /\ chain = [c \in Logins |-> [live |-> FALSE, token |-> 0]]
  /\ pc = [r \in Requests |-> "idle"]
  /\ target = [r \in Requests |-> None]
  /\ held = [r \in Requests |-> NoData]
  /\ answer = [r \in Requests |-> NoAnswer]
  /\ revokes = {} /\ strays = {}
  /\ lost = {} /\ left = {} /\ reused = {}

-----------------------------------------------------------------------------
(* Hydra, as bff uses it.                                                  *)

\* POST /oauth2/revoke: the token named stops working; a spent one is nothing.
HydraRevokes(c, token) ==
  IF chain[c].token = token THEN [chain EXCEPT ![c].live = FALSE] ELSE chain

\* POST /oauth2/token, grant_type=refresh_token: rotated, or the same token
\* kept (a client without rotation); refused by the token hook or because the
\* chain is dead; a spent token presented again revokes the chain.
HydraRefreshes(c, token, result) ==
  \/ /\ chain[c].live /\ chain[c].token = token /\ token < MaxToken
     /\ result = [kind |-> "rotated", token |-> token + 1]
     /\ chain' = [chain EXCEPT ![c].token = token + 1]
     /\ UNCHANGED reused
  \/ /\ chain[c].live /\ chain[c].token = token
     /\ result \in {[kind |-> "kept", token |-> token],
                    [kind |-> "rejected", token |-> token]}
     /\ UNCHANGED <<chain, reused>>
  \/ /\ ~chain[c].live
     /\ result = [kind |-> "rejected", token |-> token]
     /\ UNCHANGED <<chain, reused>>
  \/ /\ chain[c].live /\ chain[c].token # token
     /\ result = [kind |-> "rejected", token |-> token]
     /\ chain' = [chain EXCEPT ![c].live = FALSE]
     /\ reused' = reused \cup {c}

Results == [kind : {"rotated", "kept", "rejected"}, token : Tokens]

-----------------------------------------------------------------------------
(* Proxied requests: resolve_bearer_token and refresh_session.             *)

is_fresh(data) == data.expires_at > now + ACCESS_TOKEN_REFRESH_LEEWAY

\* A request is answered, or gone; its guard, if it has one, is dropped.
Finish(r, outcome) ==
  /\ pc' = [pc EXCEPT ![r] = outcome]
  /\ held' = [held EXCEPT ![r] = NoData]
  /\ answer' = [answer EXCEPT ![r] = NoAnswer]
  /\ target' = [target EXCEPT ![r] = None]

\* The first look at the session, before any waiting.
Resolve(r, c) ==
  /\ pc[r] \in {"idle"} \cup Answered
  /\ login[c] = "done"
  /\ \/ /\ c \notin DOMAIN sessions \/ c \in Expired(sessions, now)
        /\ Finish(r, "unauthenticated")
     \/ /\ c \in DOMAIN sessions \ Expired(sessions, now)
        /\ is_fresh(sessions[c])
        /\ Finish(r, "served")
     \/ /\ c \in DOMAIN sessions \ Expired(sessions, now)
        /\ ~is_fresh(sessions[c])
        /\ pc' = [pc EXCEPT ![r] = "waiting"]
        /\ target' = [target EXCEPT ![r] = c]
        /\ UNCHANGED <<held, answer>>
  /\ UNCHANGED <<now, sessions, loginVars, tokenVars, revokes, lost, left>>

\* Mutant: the turn is not waited for.
TakeTurnAtOnce(r) ==
  LET c == target[r] IN
  /\ pc[r] = "waiting" /\ c \in DOMAIN sessions
  /\ pc' = [pc EXCEPT ![r] = "refreshing"]
  /\ held' = [held EXCEPT ![r] = sessions[c]]
  /\ UNCHANGED <<target, answer, now, sessions, loginVars, tokenVars, revokes, lost, left>>

\* Its turn: no other request of the session holds the guard.  The session is
\* read again, whoever went before may have refreshed or ended it.
TakeTurn(r) ==
  LET c == target[r] IN
  /\ pc[r] = "waiting"
  /\ \A q \in Requests : pc[q] \in Holding => target[q] # c
  /\ \/ /\ c \notin DOMAIN sessions
        /\ Finish(r, "unauthenticated")
     \/ /\ c \in DOMAIN sessions /\ is_fresh(sessions[c])
        /\ Finish(r, "served")
     \/ /\ c \in DOMAIN sessions /\ ~is_fresh(sessions[c])
        /\ pc' = [pc EXCEPT ![r] = "refreshing"]
        /\ held' = [held EXCEPT ![r] = sessions[c]]
        /\ UNCHANGED <<target, answer>>
  /\ UNCHANGED <<now, sessions, loginVars, tokenVars, revokes, lost, left>>

\* Hydra acts on the refresh; its answer is on its way back.
RefreshReaches(r) ==
  /\ pc[r] = "refreshing"
  /\ \E result \in Results :
       /\ HydraRefreshes(target[r], held[r].token, result)
       /\ answer' = [answer EXCEPT ![r] = result]
  /\ pc' = [pc EXCEPT ![r] = "answered"]
  /\ UNCHANGED <<now, sessions, loginVars, target, held, revokes, strays, lost, left>>

\* Mutant: the session keeps the refresh token that was just spent.
RefreshedKeepsToken(r) == [held[r] EXCEPT !.expires_at = now + ACCESS_TTL]

\* The data refresh_session stores: the login's, with the answer's tokens.
Refreshed(r) ==
  [held[r] EXCEPT
     !.token = answer[r].token,
     !.refresh_expires_at = IF answer[r].kind = "rotated" THEN now + REFRESH_TTL
                                                          ELSE held[r].refresh_expires_at,
     !.expires_at = now + ACCESS_TTL]

\* Mutant: the tokens are stored whether or not the session is still there.
StoreAlways(r) ==
  /\ pc[r] = "answered" /\ answer[r].kind \in {"rotated", "kept"}
  /\ sessions' = With(sessions, target[r], Refreshed(r))
  /\ Finish(r, "served")
  /\ UNCHANGED <<now, loginVars, tokenVars, revokes, lost, left>>

\* Tokens arrive and the session is still there: update_session.
Store(r) ==
  LET c == target[r] IN
  /\ pc[r] = "answered" /\ answer[r].kind \in {"rotated", "kept"}
  /\ c \in DOMAIN sessions
  /\ sessions' = [sessions EXCEPT ![c] = Refreshed(r)]
  /\ Finish(r, "served")
  /\ UNCHANGED <<now, loginVars, tokenVars, revokes, lost, left>>

\* Tokens arrive for a session that ended meanwhile: they are to be revoked.
StoreGone(r) ==
  /\ pc[r] = "answered" /\ answer[r].kind \in {"rotated", "kept"}
  /\ target[r] \notin DOMAIN sessions
  /\ pc' = [pc EXCEPT ![r] = "revoking"]
  /\ UNCHANGED <<now, sessions, loginVars, tokenVars, target, held, answer, revokes, lost, left>>

\* Mutant: a refused refresh is tried again with the same token.
RefusedRetries(r) ==
  /\ pc[r] = "answered" /\ answer[r].kind = "rejected"
  /\ pc' = [pc EXCEPT ![r] = "refreshing"]
  /\ answer' = [answer EXCEPT ![r] = NoAnswer]
  /\ UNCHANGED <<now, sessions, loginVars, tokenVars, target, held, revokes, lost, left>>

\* Hydra refused the refresh token: take_session.  Nothing is revoked, so a
\* chain only the token hook refused stays as it is.
Refused(r) ==
  LET c == target[r] IN
  /\ pc[r] = "answered" /\ answer[r].kind = "rejected"
  /\ sessions' = Without(sessions, {c})
  /\ left' = IF chain[c].live THEN left \cup {c} ELSE left
  /\ Finish(r, "unauthenticated")
  /\ UNCHANGED <<now, loginVars, tokenVars, revokes, lost>>

\* The revocation of the new token: done, or failed and only logged.
RevokeNew(r) ==
  /\ pc[r] = "revoking"
  /\ \/ /\ chain' = HydraRevokes(target[r], answer[r].token)
        /\ UNCHANGED left
     \/ /\ "hydra" \in Faults
        /\ left' = left \cup {target[r]}
        /\ UNCHANGED chain
  /\ Finish(r, "unauthenticated")
  /\ UNCHANGED <<now, sessions, loginVars, revokes, strays, lost, reused>>

\* The refresh call ends without an answer bff can use; the session is kept.
\* Either the call is dead, or it may still reach Hydra, or Hydra already
\* rotated and only the answer is lost.
WithoutAnswer(r, outcome) ==
  /\ \/ /\ pc[r] = "refreshing"
        /\ strays' \in {strays, strays \cup {[login |-> target[r], token |-> held[r].token]}}
        /\ UNCHANGED lost
     \/ /\ pc[r] = "answered"
        /\ lost' = IF answer[r].kind = "rotated" THEN lost \cup {target[r]} ELSE lost
        /\ UNCHANGED strays
  /\ Finish(r, outcome)
  /\ UNCHANGED <<now, sessions, loginVars, chain, reused, revokes, left>>

\* RefreshUnavailable: a network error, a timeout, a 5xx, an unusable body.
Unavailable(r) ==
  /\ "hydra" \in Faults
  /\ WithoutAnswer(r, "unavailable")

\* The client goes away and the handler's future is dropped.
Cancel(r) ==
  /\ "cancel" \in Faults
  /\ \/ /\ pc[r] = "waiting"
        /\ Finish(r, "cancelled")
        /\ UNCHANGED <<now, sessions, loginVars, tokenVars, revokes, lost, left>>
     \/ WithoutAnswer(r, "cancelled")
     \/ /\ pc[r] = "revoking"
        /\ left' = left \cup {target[r]}
        /\ Finish(r, "cancelled")
        /\ UNCHANGED <<now, sessions, loginVars, tokenVars, revokes, lost>>

\* A refresh call nobody waits for reaches Hydra after all.
StrayReaches(call) ==
  /\ \E result \in Results : HydraRefreshes(call.login, call.token, result)
  /\ strays' = strays \ {call}
  /\ lost' = lost \cup {call.login}
  /\ UNCHANGED <<now, sessions, loginVars, requestVars, revokes, left>>

-----------------------------------------------------------------------------
(* Logins: complete in callback.rs, from the code exchange on.             *)

\* Hydra redeems the code: a chain of refresh tokens begins.
Exchange(c, p) ==
  /\ login[c] = "none"
  /\ p \in {None} \cup {q \in Logins : login[q] = "done"}
  /\ chain' = [chain EXCEPT ![c] = [live |-> TRUE, token |-> 1]]
  /\ login' = [login EXCEPT ![c] = "exchanged"]
  /\ previous' = [previous EXCEPT ![c] = p]
  /\ UNCHANGED <<now, sessions, requestVars, revokes, strays, reused, lost, left>>

\* The answer never arrives, lacks a token, or its id_token does not verify:
\* the login fails, and nobody revokes the refresh token it was issued.
LoginFails(c) ==
  /\ login[c] = "exchanged"
  /\ login' = [login EXCEPT ![c] = "failed"]
  /\ left' = left \cup {c}
  /\ UNCHANGED <<now, sessions, previous, tokenVars, requestVars, revokes, lost>>

Calls(ids, by) == {[login |-> id, token |-> sessions[id].token, by |-> by] : id \in ids}

\* Mutant: the evicted sessions' tokens are not revoked.
SaveForgetsEvicted(c) ==
  LET all == With(sessions, c,
               [user_id |-> UserOf[c], sid |-> SidOf[c], created_at |-> now,
                refresh_expires_at |-> now + REFRESH_TTL,
                expires_at |-> now + ACCESS_TTL, token |-> 1])
  IN
  /\ login[c] = "exchanged"
  /\ \E gone \in Evictions(all, UserOf[c]) : sessions' = Without(all, gone)
  /\ login' = [login EXCEPT ![c] = "saved"]
  /\ UNCHANGED <<now, previous, tokenVars, requestVars, revokes, lost, left>>

\* save_session; what it evicts is revoked by a task of its own.
SaveSession(c) ==
  LET all == With(sessions, c,
               [user_id |-> UserOf[c], sid |-> SidOf[c], created_at |-> now,
                refresh_expires_at |-> now + REFRESH_TTL,
                expires_at |-> now + ACCESS_TTL, token |-> 1])
  IN
  /\ login[c] = "exchanged"
  /\ \E gone \in Evictions(all, UserOf[c]) :
       /\ sessions' = Without(all, gone)
       /\ revokes' = revokes \cup
            {[login |-> id, token |-> all[id].token, by |-> "task"] : id \in gone}
  /\ login' = [login EXCEPT ![c] = "saved"]
  /\ UNCHANGED <<now, previous, tokenVars, requestVars, lost, left>>

\* end_session: dropped, then revoked by the request itself.
EndSession(id) ==
  LET ended == {id} \cap DOMAIN sessions IN
  /\ sessions' = Without(sessions, ended)
  /\ revokes' = revokes \cup Calls(ended, "request")

\* The session the browser logged in over ends with the login.
EndPrevious(c) ==
  /\ login[c] = "saved"
  /\ EndSession(previous[c])
  /\ login' = [login EXCEPT ![c] = "done"]
  /\ UNCHANGED <<now, previous, tokenVars, requestVars, lost, left>>

\* The browser goes away after save_session, while the evicted are revoked: the
\* rest is not done, and no browser has the cookie.  (Going away later, while
\* the previous session's token is revoked, is RevokeFails and a "done" login
\* no request comes for.)
CancelLogin(c) ==
  /\ "cancel" \in Faults
  /\ login[c] = "saved"
  /\ login' = [login EXCEPT ![c] = "orphaned"]
  /\ UNCHANGED <<now, sessions, previous, tokenVars, requestVars, revokes, lost, left>>

-----------------------------------------------------------------------------
(* The ends of sessions.                                                   *)

\* POST /logout.
Logout(c) ==
  /\ login[c] = "done" /\ c \in DOMAIN sessions
  /\ EndSession(c)
  /\ UNCHANGED <<now, loginVars, tokenVars, requestVars, lost, left>>

\* Mutant: the sessions end, their tokens are not revoked.
EndSessionsForgets(selector) ==
  LET ended == Matching(sessions, selector) IN
  /\ ended # {}
  /\ sessions' = Without(sessions, ended)
  /\ UNCHANGED <<now, loginVars, tokenVars, requestVars, revokes, lost, left>>

\* end_sessions, for a back-channel logout or /internal/revoke: dropped at
\* once and revoked by a task of its own, which a cancelled caller leaves alone.
EndSessions(selector) ==
  LET ended == Matching(sessions, selector) IN
  /\ ended # {}
  /\ sessions' = Without(sessions, ended)
  /\ revokes' = revokes \cup Calls(ended, "task")
  /\ UNCHANGED <<now, loginVars, tokenVars, requestVars, lost, left>>

\* sweep_expired: dropped, and left to its TTL at Hydra.
Sweep ==
  /\ Expired(sessions, now) # {}
  /\ sessions' = Without(sessions, Expired(sessions, now))
  /\ left' = left \cup Expired(sessions, now)
  /\ UNCHANGED <<now, loginVars, tokenVars, requestVars, revokes, lost>>

\* Hydra acts on a revocation call ...
RevokeReaches(call) ==
  /\ chain' = HydraRevokes(call.login, call.token)
  /\ revokes' = revokes \ {call}
  /\ UNCHANGED <<now, sessions, loginVars, requestVars, strays, reused, lost, left>>

\* ... or it fails, which is only logged; one made by a request may also go
\* with the request.
RevokeFails(call) ==
  /\ "hydra" \in Faults \/ ("cancel" \in Faults /\ call.by = "request")
  /\ revokes' = revokes \ {call}
  /\ left' = left \cup {call.login}
  /\ UNCHANGED <<now, sessions, loginVars, requestVars, tokenVars, lost>>

\* Hydra ends a chain of its own accord: expired, or its consent revoked.
HydraEndsChain(c) ==
  /\ chain[c].live
  /\ chain' = [chain EXCEPT ![c].live = FALSE]
  /\ UNCHANGED <<now, sessions, loginVars, requestVars, revokes, strays, reused, lost, left>>

Tick ==
  /\ now < MaxTime
  /\ now' = now + 1
  /\ UNCHANGED <<sessions, loginVars, requestVars, tokenVars, revokes, lost, left>>

-----------------------------------------------------------------------------
RequestStep(r) ==
  \/ RefreshReaches(r) \/ Store(r) \/ StoreGone(r) \/ Refused(r) \/ RevokeNew(r)

Next ==
  \/ \E r \in Requests :
       \/ \E c \in Logins : Resolve(r, c)
       \/ TakeTurn(r)
       \/ RefreshReaches(r)
       \/ Store(r)
       \/ StoreGone(r)
       \/ Refused(r)
       \/ RevokeNew(r)
       \/ Unavailable(r)
       \/ Cancel(r)
  \/ \E c \in Logins :
       \/ \E p \in (Logins \ {c}) \cup {None} : Exchange(c, p)
       \/ LoginFails(c)
       \/ SaveSession(c)
       \/ EndPrevious(c)
       \/ CancelLogin(c)
       \/ Logout(c)
       \/ HydraEndsChain(c)
  \/ \E selector \in Selectors : EndSessions(selector)
  \/ Sweep
  \/ \E call \in revokes : RevokeReaches(call) \/ RevokeFails(call)
  \/ \E call \in strays : StrayReaches(call)
  \/ Tick

Spec == Init /\ [][Next]_vars

\* Hydra answers or the call times out, so a request under way moves on, and so
\* do revocations; the turn is first come first served (RefreshLocks'
\* WaiterGetsItsTurn), so a waiter is not passed over for ever.  No client has
\* to come, stay or go away, and no time has to pass.
Fairness ==
  /\ \A r \in Requests : SF_vars(TakeTurn(r)) /\ WF_vars(RequestStep(r))
  /\ WF_vars(\E call \in revokes : RevokeReaches(call) \/ RevokeFails(call))

FairSpec == Spec /\ Fairness

\* The same, with a clock too coarse to see a handler that waits for nobody:
\* it does not move while a request could take its turn.
PromptSpec ==
  /\ Init
  /\ [][Next /\ (now' # now => \A r \in Requests : ~ENABLED TakeTurn(r))]_vars
  /\ Fairness

-----------------------------------------------------------------------------
\* The token bff stores is the one Hydra accepts: it was rotated only by the
\* request that is about to store the new one, or by a refresh whose answer
\* went astray.
StoredTokenIsCurrent ==
  \A c \in DOMAIN sessions :
    \/ ~chain[c].live
    \/ sessions[c].token = chain[c].token
    \/ \E r \in Requests : /\ pc[r] = "answered" /\ target[r] = c
                           /\ answer[r] = [kind |-> "rotated", token |-> chain[c].token]
    \/ c \in lost

\* bff presents a spent token, which Hydra takes for theft, only after an
\* answer went astray: never because two of its requests raced
\* (docs/flows/tokens.md:122-125).
SpentOnlyAfterLoss == reused \subseteq lost

\* What the two rest on.  A session has one request with its turn; ...
OneTurn ==
  \A r, q \in Requests :
    pc[r] \in Holding /\ pc[q] \in Holding /\ target[r] = target[q] => r = q

\* ... a request works on a session that some login saved; ...
RequestsHaveSessions ==
  \A r \in Requests :
    /\ pc[r] \in {"waiting"} \cup Holding =>
         target[r] \in Logins /\ login[target[r]] \notin {"none", "exchanged"}
    /\ pc[r] \in Holding => held[r] \in SessionData
    /\ pc[r] \in {"answered", "revoking"} => answer[r] \in Results
    /\ pc[r] = "revoking" => answer[r].kind # "rejected"

\* ... before that the chain is untouched; ...
LoginsStartClean ==
  \A c \in Logins :
    /\ login[c] \in {"none", "exchanged"} =>
         c \notin DOMAIN sessions /\ \A call \in strays : call.login # c
    /\ login[c] = "none" => ~chain[c].live
    /\ login[c] = "exchanged" => chain[c].token = 1

\* ... and what a request presents, or was given, is the chain's token.
HeldTokenIsCurrent ==
  \A r \in Requests :
    \/ pc[r] \notin Holding
    \/ ~chain[target[r]].live
    \/ target[r] \in lost
    \/ pc[r] = "refreshing" /\ held[r].token = chain[target[r]].token
    \/ pc[r] # "refreshing" /\ (answer[r].kind # "rejected" =>
                                  answer[r].token = chain[target[r]].token)

\* The inductive invariant.
TokenInv ==
  /\ TypeOK
  /\ OneTurn
  /\ RequestsHaveSessions
  /\ LoginsStartClean
  /\ HeldTokenIsCurrent
  /\ StoredTokenIsCurrent
  /\ SpentOnlyAfterLoss

AccountedFor(c) ==
  \/ c \in DOMAIN sessions /\ sessions[c].token = chain[c].token
  \/ login[c] = "exchanged"
  \/ \E r \in Requests : /\ pc[r] \in {"answered", "revoking"} /\ target[r] = c
                         /\ answer[r] = [kind |-> "rotated", token |-> chain[c].token]
  \/ \E call \in revokes : call.login = c /\ call.token = chain[c].token
  \/ c \in lost \cup left

\* Every refresh token that works at Hydra is accounted for: bff's session has
\* it, the login or the refresh that was given it will store it or have it
\* revoked, it is being revoked, or bff knowingly gave it up
\* (server/mod.rs:63-65).
LiveTokensAccountedFor == \A c \in Logins : chain[c].live => AccountedFor(c)

\* A session that ended stays ended: no refresh, login or sweep that was under
\* way brings it back.
EndedStaysEnded ==
  [][\A c \in Logins :
       login[c] \in {"saved", "done", "orphaned"} /\ c \notin DOMAIN sessions
         => c \notin DOMAIN sessions']_vars

\* A request that waited for its turn or for Hydra is forwarded only if its
\* session is still in the store at that moment.
ServedFromTheStore ==
  [][\A r \in Requests :
       pc[r] \in {"waiting", "answered"} /\ pc'[r] = "served" =>
         target[r] \in DOMAIN sessions \cap DOMAIN sessions']_vars

\* Every request gets an answer, whatever fails and whoever goes away.
RequestsAreAnswered ==
  \A r \in Requests : pc[r] \in {"waiting"} \cup Holding ~> pc[r] \in Answered

\* The refresh token of a session that ended stops working, unless bff knowingly
\* gave it up or never got to know of it.
EndedTokensDie ==
  \A c \in Logins :
    (login[c] = "done" /\ c \notin DOMAIN sessions)
      ~> (~chain[c].live \/ c \in lost \cup left)

\* "A session also ends 30 days after its login, however often it refreshed"
\* (docs/flows/tokens.md:128-129): a session past its end is not refreshed.
NoRefreshPastTheEnd ==
  [][\A r \in Requests :
       pc[r] = "waiting" /\ pc'[r] = "refreshing" =>
         ends_at(sessions[target[r]]) > now]_vars

-----------------------------------------------------------------------------
\* The turn, as RefreshMutex has it.
Turn == INSTANCE RefreshMutex WITH
  Tasks <- Requests, Sessions <- Logins, NoSession <- None,
  phase <- [r \in Requests |-> CASE pc[r] = "waiting" -> "wants"
                                 [] pc[r] \in Holding -> "has"
                                 [] OTHER -> "none"],
  session <- [r \in Requests |->
                IF pc[r] \in {"waiting"} \cup Holding THEN target[r] ELSE None]

\* The requests take turns only as RefreshMutex promises them.
TakesTurns == Turn!Spec
=============================================================================
