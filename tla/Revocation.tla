----------------------------- MODULE Revocation -----------------------------
(***************************************************************************)
(* hooks' after-recovery and after-password-change web hooks               *)
(* (hooks/src/server/api/revocation.rs with clients/kratos.rs): end every  *)
(* other way into an account.  Every call to Kratos, Hydra or bff is a     *)
(* step; it may fail, and it may take effect and fail all the same.        *)
(* Between the steps the account goes on living: its sessions add          *)
(* credentials, its credentials start sessions, an admin deactivates it.   *)
(* Kratos calls the hook again when it failed.                             *)
(***************************************************************************)
EXTENDS Integers, Sequences, FiniteSets, FiniteSetsExt

CONSTANTS
  Creds, KindOf,       \* credentials, and their kinds: "password", "oidc", ...
  Sessions,            \* Kratos sessions
  CredsAtFirst, SessionsAtFirst,
  None,
  Requests,            \* [keep, purge]: what the hook can be asked
  Faults,              \* how a call may go wrong: "failed", "lost"
  Account,             \* what else may happen: "add", "signin", "deactivate"
  MAX_SESSION_ROUNDS, PageSize,
  request_timeout,
  MaxRetries           \* bound on Kratos' retries

PURGED_CREDENTIAL_TYPES == <<"webauthn", "passkey", "totp", "lookup_secret">>

ASSUME RevocationAssumption ==
  /\ KindOf \in [Creds -> {"password", "oidc"} \cup {PURGED_CREDENTIAL_TYPES[i] : i \in 1..4}]
  /\ CredsAtFirst \subseteq Creds /\ SessionsAtFirst \subseteq Sessions
  /\ Faults \subseteq {"failed", "lost"}
  /\ Account \subseteq {"add", "signin", "deactivate"}
  /\ Requests \subseteq [keep : SessionsAtFirst \cup {None}, purge : BOOLEAN]
  /\ IsFiniteSet(Sessions) /\ Creds \cap Sessions = {} /\ None \notin Creds \cup Sessions
  /\ request_timeout \in Nat \ {0} /\ MAX_SESSION_ROUNDS \in Nat /\ PageSize \in Nat \ {0, 1}

VARIABLES
  \* the account
  creds, sessions, active,
  downstream,  \* of "consent", "login", "bff": those that have sessions from before
  \* the handler
  req, pc, elapsed,
  todo,        \* what the loop the handler is in has left
  failed,      \* whether a step failed
  second,      \* whether the purge is the second one
  rounds,      \* rounds of listing sessions
  failing,     \* whether a session of this round could not be revoked
  rest_at,     \* when the calls after Kratos' began
  \* history
  retries, ever, before, tried,
  addedBy,     \* credential -> the session that added it, or None
  late         \* sessions signed in since the hook ended the others

accountState == <<creds, sessions, active, downstream>>
handler == <<req, pc, todo, failed, second, rounds, failing, rest_at>>
history == <<retries, ever, before, tried, addedBy, late>>
vars == <<accountState, handler, elapsed, history>>

KratosSteps == {"identity", "look", "put", "unlink", "types", "patch", "sessions", "list", "revoke"}
Rest == {"consent", "login", "bff"}
Answers == {"Ok", "RevocationIncomplete"}

\* The types; the session the user is in, which is to be kept, stays.
TypeOK ==
  /\ creds \subseteq Creds /\ sessions \subseteq Sessions /\ active \in BOOLEAN
  /\ downstream \subseteq Rest
  /\ req \in Requests
  /\ pc \in {"idle", "rest"} \cup KratosSteps \cup Answers
  /\ elapsed \in Nat
  /\ {failed, second, failing} \subseteq BOOLEAN
  /\ rounds \in 0..MAX_SESSION_ROUNDS
  /\ req.keep # None => req.keep \in sessions

Init ==
  /\ creds = CredsAtFirst /\ sessions = SessionsAtFirst /\ active = TRUE
  /\ downstream = Rest
  /\ req \in Requests
  /\ pc = "idle" /\ elapsed = 0
  /\ todo = {} /\ failed = FALSE /\ second = FALSE /\ rounds = 0 /\ failing = FALSE
  /\ rest_at = 0
  /\ retries = 0
  /\ ever = CredsAtFirst \cup SessionsAtFirst
  /\ before = {} /\ tried = {} /\ late = {}
  /\ addedBy = [c \in Creds |-> None]

-----------------------------------------------------------------------------
\* How a call goes: it succeeds, fails, or takes effect and its answer is lost.
Outcomes == {"ok"} \cup Faults
Landed(o) == o # "failed"
Note(o) == failed' = (failed \/ o # "ok")

OfKind(kind) == {c \in creds : KindOf[c] = kind}

kratos_budget == request_timeout \div 2
\* Mutant: the rest gets as much as Kratos does.
HalfForTheRest == request_timeout \div 2
rest_budget == (request_timeout * 2) \div 5

\* The step after Kratos' last.
ToRest ==
  /\ pc' = "rest" /\ todo' = Rest /\ rest_at' = elapsed

\* revoke: Kratos first, and in Kratos the credentials if they are to go.
Start ==
  /\ pc = "idle" \/ (pc = "RevocationIncomplete" /\ retries < MaxRetries)
  /\ retries' = IF pc = "idle" THEN 0 ELSE retries + 1
  /\ elapsed' = 0 /\ failed' = FALSE /\ second' = FALSE /\ rounds' = 0 /\ todo' = {}
  /\ failing' = FALSE
  /\ pc' = IF req.purge THEN "identity" ELSE "sessions"
  /\ before' = creds \cup (sessions \ {req.keep})
  /\ tried' = {} /\ late' = {}
  /\ UNCHANGED <<accountState, req, rest_at, ever, addedBy>>

\* Mutant: an identity that cannot be read has no links.
IdentityUnnoted(o) ==
  /\ pc = "identity"
  /\ \/ o = "ok" /\ todo' = OfKind("oidc")
     \/ o # "ok" /\ todo' = {}
  /\ pc' = "look"
  /\ UNCHANGED <<accountState, elapsed, req, failed, second, rounds, failing,
                 rest_at, history>>

\* purge_credentials reads the identity's links, and without them unlinks none.
Identity(o) ==
  /\ pc = "identity"
  /\ Note(o)
  /\ \/ o = "ok" /\ todo' = OfKind("oidc") /\ pc' = "look"
     \/ o # "ok" /\ todo' = {} /\ pc' = "unlink"
  /\ UNCHANGED <<accountState, elapsed, req, second, rounds, failing,
                 rest_at, history>>

\* scramble_password reads the identity again and leaves an inactive one alone.
Look(o) ==
  /\ pc = "look"
  /\ failed' = (failed \/ o # "ok" \/ ~active)
  /\ pc' = IF o = "ok" /\ active THEN "put" ELSE "unlink"
  /\ UNCHANGED <<accountState, elapsed, req, todo, second, rounds, failing,
                 rest_at, history>>

\* Its PUT sets a password nobody knows, and the state to active (with_password).
Put(o) ==
  /\ pc = "put"
  /\ Note(o)
  /\ IF Landed(o) THEN creds' = creds \ OfKind("password") /\ active' = TRUE
                  ELSE UNCHANGED <<creds, active>>
  /\ pc' = "unlink"
  /\ UNCHANGED <<sessions, downstream, elapsed, req, todo, second, rounds, failing,
                 rest_at, history>>

\* delete_oidc_link, for each link that was read.
Unlink(o) ==
  /\ pc = "unlink"
  /\ \/ /\ todo # {}
        /\ \E c \in todo :
             /\ creds' = IF Landed(o) THEN creds \ {c} ELSE creds
             /\ todo' = todo \ {c}
        /\ Note(o)
        /\ UNCHANGED pc
     \/ /\ todo = {} /\ o = "ok"
        /\ todo' = PURGED_CREDENTIAL_TYPES /\ pc' = "types"
        /\ UNCHANGED <<creds, failed>>
  /\ UNCHANGED <<sessions, active, downstream, elapsed, req, second, rounds, failing,
                 rest_at, history>>

\* delete_credential, for each type in turn; a passkey is looked for first.
DeleteType(o) ==
  LET kind == Head(todo) IN
  /\ pc = "types" /\ todo # <<>>
  /\ \/ /\ kind # "passkey"
        /\ creds' = IF Landed(o) THEN creds \ OfKind(kind) ELSE creds
        /\ todo' = Tail(todo)
        /\ UNCHANGED pc
     \/ /\ kind = "passkey"
        /\ \/ o = "ok" /\ OfKind(kind) # {} /\ pc' = "patch" /\ UNCHANGED todo
           \/ (o # "ok" \/ OfKind(kind) = {}) /\ todo' = Tail(todo) /\ UNCHANGED pc
        /\ UNCHANGED creds
  /\ Note(o)
  /\ UNCHANGED <<sessions, active, downstream, elapsed, req, second, rounds, failing,
                 rest_at, history>>

\* The patch that removes the passkey fails if it is gone by now.
Patch(o) ==
  /\ pc = "patch"
  /\ failed' = (failed \/ o # "ok" \/ OfKind("passkey") = {})
  /\ creds' = IF Landed(o) THEN creds \ OfKind("passkey") ELSE creds
  /\ todo' = Tail(todo) /\ pc' = "types"
  /\ UNCHANGED <<sessions, active, downstream, elapsed, req, second, rounds, failing,
                 rest_at, history>>

\* After the first purge the sessions end; after the second comes the rest.
Purged ==
  /\ pc = "types" /\ todo = <<>>
  /\ \/ ~second /\ pc' = "sessions" /\ todo' = {} /\ UNCHANGED rest_at
     \/ second /\ ToRest
  /\ UNCHANGED <<accountState, elapsed, req, failed, second, rounds, failing, history>>

\* The sessions ended or could not be: purge again, if asked to.
Ended ==
  \/ /\ req.purge
     /\ second' = TRUE /\ pc' = "identity" /\ todo' = {}
     /\ UNCHANGED rest_at
  \/ ~req.purge /\ ToRest /\ UNCHANGED second

\* revoke_kratos_sessions with no session to keep: one call ends them all.
RevokeAll(o) ==
  /\ pc = "sessions"
  /\ \/ /\ req.keep = None
        /\ sessions' = IF Landed(o) THEN {} ELSE sessions
        /\ Note(o)
        /\ Ended
     \/ /\ req.keep # None /\ o = "ok"
        /\ pc' = "list" /\ UNCHANGED <<sessions, failed, second, rest_at, todo>>
  /\ UNCHANGED <<creds, active, downstream, elapsed, req, rounds, failing, history>>

\* With one to keep: list a page of them, up to MAX_SESSION_ROUNDS times.
List(o) ==
  /\ pc = "list"
  /\ \/ /\ o # "ok" \/ rounds = MAX_SESSION_ROUNDS
        /\ failed' = TRUE /\ Ended /\ UNCHANGED rounds
     \/ /\ o = "ok" /\ rounds < MAX_SESSION_ROUNDS
        /\ rounds' = rounds + 1
        /\ UNCHANGED failed
        /\ \E page \in kSubset(Min({PageSize, Cardinality(sessions)}), sessions) :
             \/ page \ {req.keep} # {}
                  /\ todo' = page \ {req.keep} /\ pc' = "revoke" /\ UNCHANGED <<second, rest_at>>
             \/ page \ {req.keep} = {} /\ Ended
  /\ failing' = FALSE
  /\ UNCHANGED <<accountState, elapsed, req, history>>

\* revoke_session for each one listed; one failure and it is the last round.
RevokeListed(o, s) ==
  /\ pc = "revoke" /\ s \in todo
  /\ sessions' = IF Landed(o) THEN sessions \ {s} ELSE sessions
  /\ Note(o)
  /\ failing' = (failing \/ o # "ok")
  /\ \/ todo # {s} /\ todo' = todo \ {s} /\ UNCHANGED <<pc, second, rest_at>>
     \/ todo = {s} /\ failing' /\ Ended
     \/ todo = {s} /\ ~failing' /\ todo' = {} /\ pc' = "list" /\ UNCHANGED <<second, rest_at>>
  /\ UNCHANGED <<creds, active, downstream, elapsed, req, rounds, history>>

\* Kratos' half of the time is over: whatever it was doing, the rest goes on.
KratosGivesUp ==
  /\ pc \in KratosSteps /\ elapsed >= kratos_budget
  /\ failed' = TRUE
  /\ ToRest
  /\ UNCHANGED <<accountState, elapsed, req, second, rounds, failing, history>>

\* Hydra's consent sessions, its login sessions and bff's, at the same time.
RestCall(call, o) ==
  /\ pc = "rest" /\ call \in todo
  /\ downstream' = IF Landed(o) THEN downstream \ {call} ELSE downstream
  /\ Note(o)
  /\ tried' = tried \cup {call}
  /\ todo' = todo \ {call}
  /\ UNCHANGED <<creds, sessions, active, elapsed, req, pc, second, rounds, failing, rest_at,
                 retries, ever, before, addedBy, late>>

\* within: a call that takes too long is given up.
RestTimesOut ==
  /\ pc = "rest" /\ todo # {} /\ elapsed - rest_at >= rest_budget
  /\ failed' = TRUE
  /\ tried' = tried \cup todo
  /\ todo' = {}
  /\ UNCHANGED <<accountState, elapsed, req, pc, second, rounds, failing, rest_at, retries, ever, before,
                 addedBy, late>>

Reply ==
  /\ pc = "rest" /\ todo = {}
  /\ pc' = IF failed THEN "RevocationIncomplete" ELSE "Ok"
  /\ UNCHANGED <<accountState, elapsed, req, todo, failed, second, rounds, failing,
                 rest_at, history>>

\* Time passes while a call is under way, but no timer is passed over.
Tick ==
  /\ \/ pc \in KratosSteps /\ elapsed < kratos_budget
     \/ pc = "rest" /\ todo # {} /\ elapsed - rest_at < rest_budget
  /\ elapsed' = elapsed + 1
  /\ UNCHANGED <<accountState, handler, history>>

-----------------------------------------------------------------------------
\* A browser that is signed in adds a credential.
AddCredential(s, c) ==
  /\ "add" \in Account
  /\ active /\ s \in sessions /\ c \notin ever
  /\ creds' = creds \cup {c}
  /\ ever' = ever \cup {c}
  /\ addedBy' = [addedBy EXCEPT ![c] = s]
  /\ UNCHANGED <<sessions, active, downstream, handler, elapsed, retries, before, tried, late>>

\* A credential signs a browser in.
SignIn(s, c) ==
  /\ "signin" \in Account
  /\ active /\ c \in creds /\ s \notin ever
  /\ sessions' = sessions \cup {s}
  /\ ever' = ever \cup {s}
  /\ late' = IF second \/ pc \in {"rest"} \cup Answers THEN late \cup {s} ELSE late
  /\ UNCHANGED <<creds, active, downstream, handler, elapsed, retries, before, tried, addedBy>>

Deactivate ==
  /\ "deactivate" \in Account
  /\ active
  /\ active' = FALSE
  /\ UNCHANGED <<creds, sessions, downstream, handler, elapsed, history>>

Next ==
  \/ Start
  \/ \E o \in Outcomes :
       \/ Identity(o)
       \/ Look(o)
       \/ Put(o)
       \/ Unlink(o)
       \/ DeleteType(o)
       \/ Patch(o)
       \/ RevokeAll(o)
       \/ List(o)
       \/ \E s \in Sessions : RevokeListed(o, s)
       \/ \E call \in Rest : RestCall(call, o)
  \/ Purged
  \/ KratosGivesUp
  \/ RestTimesOut
  \/ Reply
  \/ Tick
  \/ \E s \in Sessions, c \in Creds : AddCredential(s, c) \/ SignIn(s, c)
  \/ Deactivate

Spec == Init /\ [][Next]_vars

-----------------------------------------------------------------------------
\* The hook answers Ok only when nothing the account had when the hook began is
\* left: credentials if they were to go, sessions but the one kept, Hydra's and
\* bff's sessions (revocation.rs:1-3), whatever failed, was lost or was retried.
NothingFromBeforeIsLeft ==
  pc = "Ok" =>
    /\ before \cap sessions = {}
    /\ req.purge => before \cap creds = {}
    /\ downstream = {}

\* "a session still alive during the first one could have added a credential
\* since" (revocation.rs:113-115): no credential is left but ones that a session
\* of after the revocation, or the kept one, added.
NoCredentialOfAnEndedSession ==
  pc = "Ok" /\ req.purge => \A c \in creds : addedBy[c] \in late \cup ({req.keep} \ {None})

\* "a Kratos outage must not leave Hydra's tokens and bff's sessions alive"
\* (revocation.rs:64-65): whatever hangs, the handler gets to the other calls and
\* answers, before the router's TimeoutLayer (router.rs:27-30) would drop it.
RestIsAlwaysTried ==
  /\ pc \in {"rest"} \cup KratosSteps => elapsed < request_timeout
  /\ pc \in Answers => tried = Rest

\* "an admin deactivation in between must not be undone" (kratos.rs:153-154).
DeactivationStays == [][active' => active]_vars

\* "the password, every passkey ... go, and so does every session and token"
\* (after_recovery.rs:11-13): when the hook answers Ok to a recovery, nobody but
\* the session it was told to keep is signed in.
EveryoneElseIsOut ==
  [][pc # "Ok" /\ pc' = "Ok" /\ req.purge => sessions \subseteq {req.keep}]_vars

\* What the handler has left to do is of the step it is at; it purges twice if it
\* purges, before and after it ends the sessions.
Suffixes ==
  {SubSeq(PURGED_CREDENTIAL_TYPES, i, Len(PURGED_CREDENTIAL_TYPES)) :
     i \in 1..Len(PURGED_CREDENTIAL_TYPES) + 1}
StepsInOrder ==
  /\ pc \in {"identity", "look", "put", "unlink"} => todo \in SUBSET Creds
  /\ pc \in {"types", "patch"} => todo \in Suffixes
  /\ pc = "patch" => todo # <<>> /\ Head(todo) = "passkey"
  /\ pc = "revoke" => todo \in SUBSET (Sessions \ {req.keep})
  /\ pc = "rest" => todo \in SUBSET Rest
  /\ pc \in {"identity", "look", "put", "unlink", "types", "patch"} \/ second => req.purge
  /\ pc \in {"sessions", "list", "revoke"} => ~second

\* Nothing the account once had comes back, and no failure is forgotten.
NothingReturns ==
  /\ creds \cup sessions \cup before \subseteq ever
  /\ req.keep \notin before
  /\ addedBy \in [Creds -> Sessions \cup {None}]
  /\ failing => failed
  /\ pc = "Ok" => ~failed

\* What the purge under way is to remove: the first all the account had, the
\* second all that an ended session added.
Theirs == late \cup ({req.keep} \ {None})
Doomed == IF second THEN {c \in creds : addedBy[c] \notin Theirs} ELSE before \cap creds

PurgeGetsOn ==
  ~failed /\ req.purge =>
    /\ pc \in {"look", "put", "unlink"} => \A c \in Doomed : KindOf[c] = "oidc" => c \in todo
    /\ pc \in {"unlink", "types", "patch"} => \A c \in Doomed : KindOf[c] # "password"
    /\ pc \in {"types", "patch"} =>
         \A c \in Doomed : \E i \in DOMAIN todo : KindOf[c] = todo[i]
    /\ pc \in {"sessions", "list", "revoke", "rest", "Ok"} => Doomed = {}
    /\ pc \in {"rest", "Ok"} => second
    /\ second => before \cap creds = {}

\* Who is signed in once the sessions were ended, and which calls are left.
SessionsAreEnded ==
  ~failed /\ (second \/ pc \in {"rest", "Ok"}) =>
    before \cap sessions = {} /\ sessions \subseteq Theirs
RestGetsOn ==
  ~failed =>
    /\ pc = "rest" => downstream \subseteq todo
    /\ pc = "Ok" => downstream = {}

\* What every state of revocation.rs keeps: Ok means that nothing is left, a
\* credential of an ended session included.
PurgeInv ==
  /\ TypeOK
  /\ StepsInOrder /\ NothingReturns /\ PurgeGetsOn /\ SessionsAreEnded /\ RestGetsOn
  /\ NothingFromBeforeIsLeft /\ NoCredentialOfAnEndedSession
=============================================================================
