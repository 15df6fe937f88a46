------------------------------ MODULE TokenHook ------------------------------
(***************************************************************************)
(* A refresh of a session, from bff through Hydra to the token hook and    *)
(* back: hooks/src/server/api/token_hook.rs, and how bff reads Hydra's     *)
(* answer, bff/src/hydra/mod.rs.  (How refreshes of one session take turns *)
(* is Bff's subject.)                                                      *)
(***************************************************************************)
EXTENDS Account

CONSTANTS Claims,     \* claim names a login-claims handler may return
          Reserved,   \* those it must not
          HookTries   \* bound: Hydra's calls of the hook

VARIABLES policy,     \* the settings: verified emails only? is there a handler?
          session,    \* bff's session: kept or dropped
          refresh,    \* the refresh under way
          token,      \* the claims of the last access token, or none
          since       \* history: what the account was since this refresh began

tokenVars == <<policy, session, refresh, token, since>>

NoToken == [minted |-> FALSE]
Idle == [at |-> "none", tries |-> 0]

TokenInit ==
    /\ policy \in [verified_only: BOOLEAN, handler: BOOLEAN]
    /\ session = "kept" /\ refresh = Idle /\ token = NoToken
    /\ since = {}

-----------------------------------------------------------------------------
(* The hook                                                                *)

(* Mutant: the identity's state is not looked at.                          *)
VerdictOnEmail(identity) ==
    IF identity.email = NoEmail THEN "IdentityWithoutEmail"
    ELSE IF policy.verified_only /\ ~email_verified(identity) THEN "EmailNotVerified"
    ELSE "Ok"

(* What it says of an identity it has read.                                *)
verdict(identity) ==
    IF ~is_active(identity) THEN "IdentityInactive"
    ELSE IF identity.email = NoEmail THEN "IdentityWithoutEmail"
    ELSE IF policy.verified_only /\ ~email_verified(identity) THEN "EmailNotVerified"
    ELSE "Ok"

(* Mutant: so is a Kratos that could not be asked.                         *)
DeniedInDoubt == {"IdentityNotFound", "IdentityInactive", "IdentityWithoutEmail",
                  "EmailNotVerified", "ReservedClaimOverridden", "IdentityLookupFailed"}

(* The errors that are a 403: Hydra does not ask again.                    *)
Denied == {"IdentityNotFound", "IdentityInactive", "IdentityWithoutEmail",
           "EmailNotVerified", "ReservedClaimOverridden"}

(* Hydra is done with the hook: it asks again after anything but a 403,    *)
(* and when it has asked enough its answer is a server error.              *)
Respond(result) ==
    /\ refresh' = CASE result \in Denied -> [at |-> "answer", error |-> "access_denied", why |-> result]
                    [] result \notin Denied /\ refresh.tries < HookTries ->
                         [at |-> "hook", tries |-> refresh.tries]
                    [] OTHER -> [at |-> "answer", error |-> "server_error", why |-> result]
    /\ UNCHANGED token

Mint(claims) ==
    /\ token' = [minted |-> TRUE, claims |-> claims,
                 email |-> refresh.read.email,
                 email_verified |-> email_verified(refresh.read)]
    /\ refresh' = [at |-> "answer", error |-> "none", why |-> "Ok"]

reject_reserved(claims) == claims \cap Reserved # {}

(* The identity is read from Kratos on every mint.                         *)
ReadIdentity ==
    /\ refresh.at = "hook"
    /\ LET asked == [refresh EXCEPT !.tries = @ + 1]
       IN  \E answer \in get_identity :
             /\ refresh' =
                  IF answer = "found" /\ verdict(account) = "Ok"
                  THEN [at |-> "claims", tries |-> asked.tries, read |-> account]
                  ELSE [at |-> "say", tries |-> asked.tries,
                        result |-> CASE answer = "found" -> verdict(account)
                                     [] answer = "not_found" -> "IdentityNotFound"
                                     [] OTHER -> "IdentityLookupFailed"]
    /\ UNCHANGED <<accountVars, policy, session, token, since>>

Say ==
    /\ refresh.at = "say"
    /\ Respond(refresh.result)
    /\ UNCHANGED <<accountVars, policy, session, since>>

(* The login-claims handler answers while the account may change; without  *)
(* one the token has no claims of its own.                                 *)
AddClaims ==
    /\ refresh.at = "claims"
    /\ IF ~policy.handler
       THEN Mint({})
       ELSE \/ Respond("DownstreamServiceFailed")
            \/ \E claims \in SUBSET Claims :
                  IF reject_reserved(claims) THEN Respond("ReservedClaimOverridden")
                                             ELSE Mint(claims)
    /\ UNCHANGED <<accountVars, policy, session, since>>

-----------------------------------------------------------------------------
(* bff                                                                     *)

BeginRefresh ==
    /\ session = "kept" /\ refresh.at = "none"
    /\ refresh' = [at |-> "hook", tries |-> 0]
    /\ since' = {account}
    /\ UNCHANGED <<accountVars, policy, session, token>>

(* check_response and token_request: which error an answer is.  `garbled`  *)
(* is a body that cannot be read, or an expires_in out of bounds.          *)
HydraError(error, garbled) ==
    CASE error = "none" /\ ~garbled -> "none"
      [] error = "none" /\ garbled -> "Unreadable"
      [] error \in {"invalid_grant", "token_inactive", "access_denied"} /\ ~garbled -> "Rejected"
      [] error \in {"invalid_client", "unauthorized_client"} /\ ~garbled -> "Misconfigured"
      [] OTHER -> "Unavailable"

(* refresh_session: only Rejected ends the session.                        *)
Settle(error) ==
    /\ session' = IF error = "Rejected" THEN "dropped" ELSE session
    /\ refresh' = Idle /\ since' = {}
    /\ UNCHANGED <<accountVars, policy, token>>

(* Hydra's answer arrives, perhaps garbled.                                *)
HydraAnswers ==
    /\ refresh.at = "answer"
    /\ \E garbled \in BOOLEAN : Settle(HydraError(refresh.error, garbled))

(* Or it is lost, or speaks of bff's own credentials.                      *)
HydraFails ==
    /\ refresh.at # "none"
    /\ \E error \in {"Unreachable", HydraError("invalid_client", FALSE)} : Settle(error)

TokenNext ==
    ReadIdentity \/ Say \/ AddClaims \/ BeginRefresh \/ HydraAnswers \/ HydraFails

(* What a refresh under way is to remember of the account's own changes.   *)
Remember == since' = IF refresh.at = "none" THEN since ELSE since \cup {account'}

-----------------------------------------------------------------------------
(* Properties                                                              *)

(* A token says of the account what it was at one moment of the refresh,   *)
(* a moment when it could sign in, whatever happens while the handler is   *)
(* asked; and nothing the handler says gets in the way of that             *)
(* (token_hook.rs:218-223: a refresh can't outlive a deactivation).        *)
TokensFollowTheAccount ==
    [][token' # token =>
          /\ token'.claims \cap Reserved = {}
          /\ \E a \in since : /\ a.state = "active" /\ a.email = token'.email
                              /\ token'.email # NoEmail
                              /\ token'.email_verified = (a.email \in a.verified)
                              /\ policy.verified_only => token'.email_verified]_tokenVars

(* What a refresh under way has learnt of the account is true of a moment  *)
(* since it began.                                                         *)
Unfit(a) == \/ a.state # "active"
            \/ a.email = NoEmail
            \/ policy.verified_only /\ a.email \notin a.verified
Justified(why) == why = "ReservedClaimOverridden" \/ \E a \in since : Unfit(a)
RefreshKnows ==
    /\ refresh.at # "none" => account \in since
    /\ refresh.at = "claims" => refresh.read \in since /\ ~Unfit(refresh.read)
    /\ refresh.at = "say" /\ refresh.result \in Denied => Justified(refresh.result)
    /\ refresh.at = "answer" =>
          /\ refresh.error \in {"none", "access_denied", "server_error"}
          /\ refresh.error = "access_denied" => Justified(refresh.why)

(* bff drops a session over a refresh only when the account had lost the   *)
(* right to it (or the handler claimed a reserved name): no outage of      *)
(* Kratos, the handler, the hook or Hydra, and no unreadable answer, ends  *)
(* one (proxy.rs:374, hydra/mod.rs:252).                                   *)
OutagesKeepTheSession ==
    [][session' # session => Justified(refresh.why)]_tokenVars
=============================================================================
