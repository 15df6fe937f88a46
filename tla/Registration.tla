---------------------------- MODULE Registration ----------------------------
(***************************************************************************)
(* The hooks Kratos calls when it has saved a new identity and when an     *)
(* address was verified: hooks/src/server/api/after_registration.rs and    *)
(* after_verification.rs, with webhook.rs and profile_api.rs.              *)
(*                                                                         *)
(* The registration is told to the application's webhook, and undone (the  *)
(* identity deleted) when that fails.  Kratos may retry, may stop waiting, *)
(* and every call can fail, be too late or lose its answer.                *)
(***************************************************************************)
EXTENDS Account

CONSTANTS Apis,             \* the profile APIs of the sign-up's provider
          Required, Scoped, \* those that must answer; those that need a scope
          RequestTimeout, UpstreamTimeout, WebhookTimeout,   \* in ticks
          MaxAttempts       \* bound: Kratos' calls of one hook

(* What hooks' configuration is refused without (config.rs).               *)
ASSUME TimeoutAssumption ==
    /\ RequestTimeout \in Nat /\ UpstreamTimeout \in Nat \ {0}
    /\ WebhookTimeout \in Nat \ {0}
    /\ 2 * UpstreamTimeout < RequestTimeout
    /\ 2 * WebhookTimeout <= RequestTimeout

ASSUME BoundAssumption == MaxAttempts \in Nat

(* What stands for no record, and for a delete under way, is no API's name.*)
ASSUME ApisAssumption == Apis \cap {"no record", "delete"} = {}

VARIABLES setup,     \* which handlers are set, how the user signed up
          flow,      \* Kratos' registration: running, registered, refused
          hook,      \* the attempt under way
          attempts,  \* how many Kratos has made
          record,    \* what the application keeps: its profile fields, or none
          astray,    \* calls whose caller is gone, that may still arrive
          mishaps,   \* history: what went wrong that a hook cannot mend
          notice     \* the verification hook: none, due, told, refused, failed

regVars == <<setup, flow, hook, attempts, record, astray, mishaps, notice>>

NoRecord == {"no record"}
TheDelete == {"delete"}

Results == {"Ok", "ConsentRequired", "ProfileApiFailed", "RegistrationRejected",
            "RegistrationHandlerFailed", "IdentityLookupFailed", "IdentityGone",
            "TimedOut"}

Working == {"lookup", "profile", "webhook", "replying"}
(* The webhooks the deployer configured, whether the sign-up came from a   *)
(* provider, and whether its user declined the scopes.                     *)
Setups == {s \in [handlers: SUBSET {"registration", "verification"},
                  social: BOOLEAN, declined: BOOLEAN] : s.declined => s.social}

NoHook == [at |-> "none", spent |-> 0, call |-> 0, fields |-> {}, result |-> "Ok"]

RegTypeOK ==
    /\ account \in Identities
    /\ setup \in Setups
    /\ flow \in {"running", "registered", "refused"}
    /\ hook \in [at: Working \cup {"none", "delete", "answered"},
                spent: 0..RequestTimeout, call: 0..RequestTimeout,
                fields: SUBSET Apis, result: Results]
    /\ attempts \in 0..MaxAttempts
    /\ record \in {NoRecord} \cup SUBSET Apis
    /\ astray \subseteq {TheDelete} \cup SUBSET Apis
    /\ mishaps \subseteq {"left", "cut", "undeleted", "unheard", "removed"}
    /\ notice \in {"none", "due", "told", "refused", "failed", "nobody"}

RegInit ==
    /\ setup \in Setups
    /\ flow = "running" /\ hook = NoHook /\ attempts = 0
    /\ record = NoRecord /\ astray = {} /\ mishaps = {} /\ notice = "none"

-----------------------------------------------------------------------------
(* The registration hook                                                   *)

apis == IF setup.social THEN Apis ELSE {}
selected == {a \in apis : ~(setup.declined /\ a \in Scoped)}

Budget == RequestTimeout \div 2

(* Which of the outcomes Kratos retries (the 5xx).                         *)
Retried == {"RegistrationHandlerFailed", "IdentityLookupFailed", "TimedOut"}

Goto(place) == hook' = [hook EXCEPT !.at = place, !.call = 0]

(* Mutant: an attempt that ran out of time leaves the identity.            *)
FinishForgives(result) ==
    hook' = [hook EXCEPT
              !.at = IF result \in {"Ok", "IdentityGone", "TimedOut"} THEN "answered" ELSE "delete",
              !.call = 0, !.result = result]

(* What `register` does with a result: any error but IdentityGone undoes   *)
(* the registration.                                                       *)
Finish(result) ==
    hook' = [hook EXCEPT
              !.at = IF result \in {"Ok", "IdentityGone"} THEN "answered" ELSE "delete",
              !.call = 0, !.result = result]

(* Kratos calls the hook.  With nothing configured it is done at once.     *)
Call ==
    /\ flow = "running" /\ hook.at = "none" /\ attempts < MaxAttempts
    /\ attempts' = attempts + 1
    /\ hook' = [NoHook EXCEPT
                 !.at = IF "registration" \in setup.handlers \/ apis # {} THEN "lookup" ELSE "answered"]
    /\ UNCHANGED <<accountVars, setup, flow, record, astray, mishaps, notice>>

(* Mutant: what Kratos says of the identity is not looked at.              *)
LookupTrusts ==
    /\ hook.at = "lookup"
    /\ Goto("profile")
    /\ UNCHANGED <<accountVars, setup, flow, attempts, record, astray, mishaps, notice>>

Lookup ==
    /\ hook.at = "lookup"
    /\ \E answer \in get_identity :
          CASE answer = "found" -> Goto("profile")
            [] answer = "not_found" -> Finish("IdentityGone")
            [] OTHER -> Finish("IdentityLookupFailed")
    /\ UNCHANGED <<accountVars, setup, flow, attempts, record, astray, mishaps, notice>>

(* profile_api::collect: a declined scope is found before any call, then   *)
(* a missing access token, then the calls' results, of which only those of *)
(* a required API can fail the sign-up.                                    *)
collect(token, results) ==
    IF \E a \in apis \ selected : a \in Required THEN "ConsentRequired"
    ELSE IF \E a \in selected \cap Required : ~token \/ results[a] # "complete"
         THEN "ProfileApiFailed"
         ELSE "Ok"

Profile ==
    /\ hook.at = "profile"
    /\ \E token \in BOOLEAN, results \in [apis -> {"complete", "partial", "failed"}] :
          LET result == collect(token, results)
              found  == {a \in selected : token /\ results[a] # "failed"}
          IN  \/ result # "Ok" /\ Finish(result)
              \/ /\ result = "Ok" /\ "registration" \in setup.handlers
                 /\ hook' = [hook EXCEPT !.at = "webhook", !.call = 0, !.fields = found]
              \/ result = "Ok" /\ "registration" \notin setup.handlers /\ Finish("Ok")
    /\ UNCHANGED <<accountVars, setup, flow, attempts, record, astray, mishaps, notice>>

(* The application takes the registration down; its answer is on its way.  *)
Recorded ==
    /\ hook.at = "webhook"
    /\ record' = hook.fields
    /\ Goto("replying")
    /\ UNCHANGED <<accountVars, setup, flow, attempts, astray, mishaps, notice>>

(* A call dropped before it arrived, that may yet do so.                   *)
OnTheWay == CASE hook.at = "webhook" -> {hook.fields}
              [] hook.at = "delete" -> {TheDelete}
              [] OTHER -> {}

(* Or it says no (400, 403, 422), is broken, or is not heard from in time. *)
NotRecorded ==
    /\ hook.at = "webhook"
    /\ \/ /\ Finish("RegistrationRejected")
          /\ UNCHANGED <<astray, mishaps>>
       \/ /\ Finish("RegistrationHandlerFailed")
          /\ \/ UNCHANGED <<astray, mishaps>>
             \/ astray' = astray \cup OnTheWay /\ mishaps' = mishaps \cup {"unheard"}
    /\ UNCHANGED <<accountVars, setup, flow, attempts, record, notice>>

Replied ==
    /\ hook.at = "replying"
    /\ \/ Finish("Ok") /\ UNCHANGED mishaps
       \/ Finish("RegistrationHandlerFailed") /\ mishaps' = mishaps \cup {"unheard"}
    /\ UNCHANGED <<accountVars, setup, flow, attempts, record, astray, notice>>

(* Half the request's time is over: the work is dropped where it is.       *)
OutOfBudget ==
    /\ hook.at \in Working /\ hook.spent = Budget
    /\ Finish("TimedOut")
    /\ astray' = astray \cup OnTheWay
    /\ mishaps' = IF hook.at \in {"webhook", "replying"} THEN mishaps \cup {"unheard"} ELSE mishaps
    /\ UNCHANGED <<accountVars, setup, flow, attempts, record, notice>>

(* A failed delete is only logged.                                         *)
Delete ==
    /\ hook.at = "delete"
    /\ \E done \in BOOLEAN :
          /\ delete_identity(done)
          /\ mishaps' = IF done THEN mishaps ELSE mishaps \cup {"undeleted"}
    /\ Goto("answered")
    /\ UNCHANGED <<changes, setup, flow, attempts, record, astray, notice>>

(* Kratos' side: 2xx goes on, a 5xx is retried, anything else ends it.     *)
Hears(ok, again) ==
    /\ flow' = CASE ok -> "registered"
                 [] ~ok /\ again /\ attempts < MaxAttempts -> "running"
                 [] OTHER -> "refused"
    /\ hook' = NoHook

Answer ==
    /\ hook.at = "answered"
    /\ Hears(hook.result = "Ok", hook.result \in Retried)
    /\ UNCHANGED <<accountVars, setup, attempts, record, astray, mishaps, notice>>

(* Kratos stops waiting: the handler is dropped in whatever call it is in. *)
KratosLeaves ==
    /\ hook.at # "none"
    /\ Hears(FALSE, TRUE)
    /\ astray' = astray \cup OnTheWay
    /\ mishaps' = mishaps \cup (IF hook.at = "delete" THEN {"cut"} ELSE {"left"})
    /\ UNCHANGED <<accountVars, setup, attempts, record, notice>>

(* A call without its caller takes effect after all.                       *)
Arrives ==
    /\ \E c \in astray :
          /\ astray' = astray \ {c}
          /\ IF c = TheDelete THEN delete_identity(TRUE) /\ UNCHANGED record
                            ELSE record' = c /\ UNCHANGED account
    /\ UNCHANGED <<changes, setup, flow, hook, attempts, mishaps, notice>>

(* Time passes in a call, up to that call's timeout and, for the work, to  *)
(* the end of its budget.                                                  *)
TimePasses ==
    /\ hook.at \in Working \cup {"delete"}
    /\ hook.call < IF hook.at \in {"webhook", "replying"} THEN WebhookTimeout ELSE UpstreamTimeout
    /\ hook.at \in Working => hook.spent < Budget
    /\ hook' = [hook EXCEPT !.spent = @ + 1, !.call = @ + 1]
    /\ UNCHANGED <<accountVars, setup, flow, attempts, record, astray, mishaps, notice>>

-----------------------------------------------------------------------------
(* The verification hook: the address is verified whatever it says.        *)

Verified ==
    /\ flow = "registered" /\ exists /\ notice = "none"
    /\ account.email \in Emails
    /\ account' = [account EXCEPT !.verified = @ \cup {account.email}]
    /\ notice' = "due"
    /\ UNCHANGED <<changes, setup, flow, hook, attempts, record, astray, mishaps>>

(* A refusal is swallowed (200); a failure is a 502, which Kratos retries  *)
(* until it has enough.                                                    *)
notify ==
    /\ notice = "due"
    /\ notice' \in IF "verification" \in setup.handlers THEN {"told", "refused", "failed"}
                                                     ELSE {"nobody"}
    /\ UNCHANGED <<accountVars, setup, flow, hook, attempts, record, astray, mishaps>>

RegNext ==
    \/ Call \/ Lookup \/ Profile \/ Recorded \/ NotRecorded \/ Replied
    \/ OutOfBudget \/ Delete \/ Answer \/ KratosLeaves \/ Arrives \/ TimePasses
    \/ Verified \/ notify

-----------------------------------------------------------------------------
(* Properties                                                              *)

(* The application and Kratos agree on who is registered                   *)
(* (after_registration.rs:126-132): a finished registration has its        *)
(* identity and, if the application is to be told, its record with all     *)
(* that is required in it; a refused one leaves neither.  Each exception   *)
(* is a call nobody could hear the end of.                                 *)
ApplicationAgrees ==
    /\ flow = "registered" /\ "registration" \in setup.handlers =>
          record # NoRecord /\ selected \cap Required \subseteq record
    /\ flow = "registered" /\ mishaps \cap {"cut", "removed"} = {} => exists
    /\ flow = "refused" /\ mishaps \cap {"left", "cut", "undeleted"} = {} => ~exists
    /\ record # NoRecord /\ mishaps = {} => exists

(* Once a failed attempt has deleted the identity no later attempt begins  *)
(* to tell the application of it (after_registration.rs:163-165), unless   *)
(* the delete overtakes the attempt because its handler was dropped.       *)
NeverTellsOfTheGone ==
    [][hook'.at = "webhook" /\ hook.at # "webhook" /\ "cut" \notin mishaps => exists]_hook

(* The delete always has the time its own call may take before the request *)
(* is cut off as a whole (after_registration.rs:129-131, config.rs:192).   *)
DeleteHasItsTime ==
    hook.at = "delete" => hook.spent + UpstreamTimeout - hook.call < RequestTimeout

(* What makes that inductive.  The work ends with its budget; Kratos calls *)
(* one hook at a time, and none once the registration is over.             *)
WorkInBudget == hook.at \in Working => hook.spent <= Budget
OneAtATime == flow # "running" => hook = NoHook

(* Nothing is told to the application that lacks what is required, and an  *)
(* Ok comes of its having been told.                                       *)
Complete(fields) == selected \cap Required \subseteq fields
Told == \/ hook.at = "replying"
        \/ hook.at = "answered" /\ hook.result = "Ok" /\ "registration" \in setup.handlers
        \/ flow = "registered" /\ "registration" \in setup.handlers
CompleteIsTold ==
    /\ \A call \in astray : call # TheDelete => Complete(call)
    /\ hook.at \in {"webhook", "replying"} =>
          "registration" \in setup.handlers /\ Complete(hook.fields)
    /\ record # NoRecord => Complete(record)
    /\ Told => record # NoRecord

(* With nothing configured there is nothing to fail.                       *)
Configured == "registration" \in setup.handlers \/ apis # {}
NothingFailsUnconfigured ==
    ~Configured => /\ hook.at \in {"none", "answered"} /\ hook.result = "Ok"
                   /\ astray = {}
                   /\ flow = "running" => exists

(* The identity goes by a delete: of an attempt that failed, or of one that*)
(* was cut off.                                                            *)
DeletedByFailure ==
    /\ TheDelete \in astray => "cut" \in mishaps
    /\ hook.at \in {"profile", "webhook", "replying"} => exists \/ "cut" \in mishaps
    /\ hook.at = "answered" /\ hook.result = "Ok" => exists \/ "cut" \in mishaps
    /\ hook.at = "delete" => hook.result \notin {"Ok", "IdentityGone"}
    /\ hook.at = "answered" /\ hook.result # "Ok" => ~exists \/ "undeleted" \in mishaps

(* A call without its caller, or a record without its registration, is one *)
(* that something happened to.                                             *)
MishapsAreNoted ==
    mishaps = {} => /\ astray = {}
                    /\ record # NoRecord => Told
=============================================================================
