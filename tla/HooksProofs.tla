---------------------------- MODULE HooksProofs -----------------------------
(***************************************************************************)
(* Proofs about the hooks service: Hooks (the registration and the tokens  *)
(* of one account) and Revocation (the purge after a recovery), for any    *)
(* account, requests, faults and times.                                    *)
(*                                                                         *)
(* RegistrationInv is inductive: what ApplicationAgrees says of a finished *)
(* registration comes of what each place of an attempt has established     *)
(* (CompleteIsTold, DeletedByFailure), or of a mishap that is noted when a *)
(* call loses its caller (MishapsAreNoted).  FailureKeeps and WorkGoesOn   *)
(* are the two ways every step of the work takes.                          *)
(* RefreshKnows is inductive: what a refresh has read of the account was   *)
(* so at a moment since it began.                                          *)
(* PurgeInv is inductive: each step of a purge has removed its part of     *)
(* what the purge is to remove (PurgeGetsOn, Doomed), or a failure is      *)
(* noted and the hook does not answer Ok.                                  *)
(***************************************************************************)
EXTENDS Hooks, Revocation, FiniteSetTheorems, SequenceTheorems, TLAPS

-----------------------------------------------------------------------------
(* The registration                                                        *)

\* The budget is half the request's time, and leaves the delete its own.
LEMMA BudgetLeavesTheDelete ==
  /\ Budget \in Nat /\ Budget <= RequestTimeout
  /\ Budget + UpstreamTimeout < RequestTimeout
  /\ UpstreamTimeout <= RequestTimeout /\ WebhookTimeout <= RequestTimeout
  BY TimeoutAssumption DEF Budget

\* Where an attempt goes with a result.
LEMMA FinishGoes ==
  ASSUME RegTypeOK, NEW result \in Results, Finish(result)
  PROVE  /\ hook' \in [at: {"answered", "delete"}, spent: {hook.spent}, call: {0},
                       fields: {hook.fields}, result: {result}]
         /\ hook'.at = "answered" <=> result \in {"Ok", "IdentityGone"}
  BY DEF RegTypeOK, Finish

\* What the hook finds at first.
LEMMA InitRegistrationInv == HooksInit => RegistrationInv
<1> SUFFICES ASSUME HooksInit PROVE RegistrationInv
  OBVIOUS
<1> USE DEF HooksInit, AccountInit, RegInit
<1>1. account \in Identities /\ exists
  BY EmailsAssumption DEF Identities, exists
<1>2. RegTypeOK
  <2>1. hook \in [at: Working \cup {"none", "delete", "answered"},
                 spent: 0..RequestTimeout, call: 0..RequestTimeout,
                 fields: SUBSET Apis, result: Results]
    BY TimeoutAssumption DEF NoHook, Results
  <2> QED
    BY <1>1, <2>1, BoundAssumption DEF RegTypeOK
<1>3. hook.at = "none" /\ hook.result = "Ok"
  BY DEF NoHook
<1>4. ApplicationAgrees /\ DeleteHasItsTime /\ WorkInBudget /\ OneAtATime
  BY <1>1, <1>3 DEF ApplicationAgrees, DeleteHasItsTime, WorkInBudget, OneAtATime, Working
<1>5. CompleteIsTold /\ NothingFailsUnconfigured /\ DeletedByFailure /\ MishapsAreNoted
  BY <1>1, <1>3 DEF CompleteIsTold, NothingFailsUnconfigured, DeletedByFailure, MishapsAreNoted, Told
<1> QED
  BY <1>2, <1>4, <1>5 DEF RegistrationInv

\* The settings of a registration do not change under it, nor what follows
\* from them.
LEMMA SettingsStay ==
  ASSUME UNCHANGED setup
  PROVE  /\ apis' = apis /\ selected' = selected /\ Configured' = Configured
         /\ \A fields : Complete(fields)' = Complete(fields)
<1>1. apis' = apis
  BY DEF apis
<1>2. selected' = selected
  BY <1>1 DEF selected
<1> QED
  BY <1>1, <1>2 DEF Configured, Complete

\* Kratos calls the hook: nothing was told yet, and where there is nothing to
\* do the attempt is over at once.
LEMMA CallKeeps ==
  ASSUME RegistrationInv, Call
  PROVE  RegistrationInv'
<1>1. /\ flow = "running" /\ hook.at = "none"
      /\ UNCHANGED <<account, setup, flow, record, astray, mishaps, notice>>
  BY DEF Call, accountVars
<1>2. /\ hook' \in [at: {"lookup", "answered"}, spent: {0}, call: {0}, fields: {{}}, result: {"Ok"}]
      /\ hook'.at = "lookup" <=> Configured
  BY DEF Call, NoHook, Configured
<1>3. /\ apis' = apis /\ selected' = selected /\ Configured' = Configured
      /\ \A fields : Complete(fields)' = Complete(fields)
  BY <1>1, SettingsStay
<1>4. exists' = exists
  BY <1>1 DEF exists
<1>5. RegTypeOK'
  <2>1. attempts' \in 0..MaxAttempts
    BY BoundAssumption DEF RegistrationInv, RegTypeOK, Call
  <2>2. hook' \in [at: Working \cup {"none", "delete", "answered"},
                  spent: 0..RequestTimeout, call: 0..RequestTimeout,
                  fields: SUBSET Apis, result: Results]
    BY <1>2, TimeoutAssumption DEF Working, Results
  <2> QED
    BY <1>1, <2>1, <2>2 DEF RegistrationInv, RegTypeOK
<1>6. ApplicationAgrees'
  BY <1>1, <1>3, <1>4 DEF RegistrationInv, ApplicationAgrees
<1>7. DeleteHasItsTime' /\ WorkInBudget' /\ OneAtATime'
  BY <1>1, <1>2, BudgetLeavesTheDelete DEF DeleteHasItsTime, WorkInBudget, OneAtATime, Budget
<1>8. CompleteIsTold'
  BY <1>1, <1>2, <1>3 DEF RegistrationInv, CompleteIsTold, Told, Configured
<1>9. NothingFailsUnconfigured' /\ DeletedByFailure' /\ MishapsAreNoted'
  <2>1. NothingFailsUnconfigured'
    BY <1>1, <1>2, <1>3, <1>4 DEF RegistrationInv, NothingFailsUnconfigured
  <2>2. DeletedByFailure'
    BY <1>1, <1>2, <1>3, <1>4 DEF RegistrationInv, NothingFailsUnconfigured, DeletedByFailure
  <2>3. MishapsAreNoted'
    BY <1>1, <1>2 DEF RegistrationInv, MishapsAreNoted, Told
  <2> QED
    BY <2>1, <2>2, <2>3
<1> QED
  BY <1>5, <1>6, <1>7, <1>8, <1>9 DEF RegistrationInv

\* Where a call that is dropped may go: nowhere, or to the application.
LEMMA WorkOnTheWay ==
  ASSUME RegistrationInv, hook.at \in Working
  PROVE  /\ OnTheWay = (IF hook.at = "webhook" THEN {hook.fields} ELSE {})
         /\ OnTheWay \subseteq SUBSET Apis /\ TheDelete \notin OnTheWay
         /\ \A call \in OnTheWay : Complete(call)
<1>1. OnTheWay = (IF hook.at = "webhook" THEN {hook.fields} ELSE {})
  BY DEF OnTheWay, Working
<1>2. hook.fields \in SUBSET Apis /\ hook.fields # TheDelete
  BY ApisAssumption DEF RegistrationInv, RegTypeOK, TheDelete
<1>3. hook.at = "webhook" => Complete(hook.fields)
  BY DEF RegistrationInv, CompleteIsTold
<1> QED
  BY <1>1, <1>2, <1>3

\* An attempt that fails goes on to the delete, with its call on the way or not:
\* when the application may have been told it is noted.
LEMMA FailureKeeps ==
  ASSUME RegistrationInv, hook.at \in Working,
         NEW result \in Results \ {"Ok", "IdentityGone"}, Finish(result),
         UNCHANGED <<account, setup, flow, attempts, record, notice>>,
         astray' \in {astray, astray \cup OnTheWay},
         mishaps' \in {mishaps, mishaps \cup {"unheard"}},
         hook.at = "replying" \/ astray' # astray => "unheard" \in mishaps'
  PROVE  RegistrationInv'
<1>1. flow = "running"
  BY DEF RegistrationInv, OneAtATime, Working, NoHook
<1>2. /\ hook' \in [at: {"delete"}, spent: {hook.spent}, call: {0},
                    fields: {hook.fields}, result: {result}]
      /\ hook \in [at: Working \cup {"none", "delete", "answered"},
                   spent: 0..RequestTimeout, call: 0..RequestTimeout,
                   fields: SUBSET Apis, result: Results]
  BY FinishGoes DEF RegistrationInv, RegTypeOK
<1>3. /\ apis' = apis /\ selected' = selected /\ Configured' = Configured
      /\ \A fields : Complete(fields)' = Complete(fields)
  BY SettingsStay
<1>4. exists' = exists
  BY DEF exists
<1>5. /\ OnTheWay \subseteq SUBSET Apis /\ TheDelete \notin OnTheWay
      /\ \A call \in OnTheWay : Complete(call)
  BY WorkOnTheWay
<1>6. RegTypeOK'
  <2>1. hook' \in [at: Working \cup {"none", "delete", "answered"},
                  spent: 0..RequestTimeout, call: 0..RequestTimeout,
                  fields: SUBSET Apis, result: Results]
    BY <1>2, TimeoutAssumption
  <2>2. astray' \subseteq {TheDelete} \cup SUBSET Apis
    BY <1>5 DEF RegistrationInv, RegTypeOK
  <2>3. mishaps' \subseteq {"left", "cut", "undeleted", "unheard", "removed"}
    BY DEF RegistrationInv, RegTypeOK
  <2> QED
    BY <2>1, <2>2, <2>3 DEF RegistrationInv, RegTypeOK
<1>7. ApplicationAgrees'
  BY <1>1, <1>4 DEF RegistrationInv, ApplicationAgrees
<1>8. DeleteHasItsTime' /\ WorkInBudget' /\ OneAtATime'
  <2>1. hook.spent <= Budget /\ hook.spent \in Nat /\ Budget \in Nat /\ UpstreamTimeout \in Nat
    BY <1>2, BudgetLeavesTheDelete, TimeoutAssumption DEF RegistrationInv, WorkInBudget
  <2>2. hook'.at = "delete" /\ hook'.spent = hook.spent /\ hook'.call = 0
    BY <1>2
  <2> QED
    BY <1>1, <2>1, <2>2, BudgetLeavesTheDelete, TimeoutAssumption
    DEF DeleteHasItsTime, WorkInBudget, OneAtATime, Working
<1>9. CompleteIsTold'
  BY <1>1, <1>2, <1>3, <1>5 DEF RegistrationInv, CompleteIsTold, Told
<1>10. NothingFailsUnconfigured'
  BY <1>3 DEF RegistrationInv, NothingFailsUnconfigured, Working
<1>11. DeletedByFailure'
  BY <1>2, <1>5 DEF RegistrationInv, DeletedByFailure
<1>12. MishapsAreNoted'
  BY <1>1, <1>2 DEF RegistrationInv, MishapsAreNoted, Told, Working
<1> QED
  BY <1>6, <1>7, <1>8, <1>9, <1>10, <1>11, <1>12 DEF RegistrationInv

\* The hook moves on in its work, or is done without having failed, with what
\* it has learnt: the rest of the registration waits.
LEMMA WorkGoesOn ==
  ASSUME RegistrationInv, hook.at \in Working,
         hook' \in [at: {"profile", "webhook", "answered"}, spent: {hook.spent},
                    call: {0}, fields: SUBSET Apis, result: Results],
         UNCHANGED <<account, setup, flow, attempts, record, astray, mishaps, notice>>,
         hook.at = "replying" => hook'.at = "answered" /\ hook'.result = "Ok",
         hook'.at = "webhook" => "registration" \in setup.handlers /\ Complete(hook'.fields),
         hook'.at = "answered" /\ hook'.result = "Ok" /\ "registration" \in setup.handlers
           => record # NoRecord,
         hook'.at = "answered" /\ hook'.result # "Ok" => ~exists,
         hook'.at # "answered" \/ hook'.result = "Ok" => exists \/ "cut" \in mishaps
  PROVE  RegistrationInv'
<1>1. flow = "running"
  BY DEF RegistrationInv, OneAtATime, NoHook, Working
<1>2. hook \in [at: Working \cup {"none", "delete", "answered"},
               spent: 0..RequestTimeout, call: 0..RequestTimeout,
               fields: SUBSET Apis, result: Results]
  BY DEF RegistrationInv, RegTypeOK
<1>3. /\ apis' = apis /\ selected' = selected /\ Configured' = Configured
      /\ \A fields : Complete(fields)' = Complete(fields)
  BY SettingsStay
<1>4. exists' = exists
  BY DEF exists
<1>5. RegTypeOK'
  <2>1. hook' \in [at: Working \cup {"none", "delete", "answered"},
                  spent: 0..RequestTimeout, call: 0..RequestTimeout,
                  fields: SUBSET Apis, result: Results]
    BY <1>2, TimeoutAssumption DEF Working
  <2> QED
    BY <2>1 DEF RegistrationInv, RegTypeOK
<1>6. ApplicationAgrees'
  BY <1>1, <1>4 DEF RegistrationInv, ApplicationAgrees
<1>7. DeleteHasItsTime' /\ WorkInBudget' /\ OneAtATime'
  BY <1>1 DEF RegistrationInv, DeleteHasItsTime, WorkInBudget, OneAtATime, Budget
<1>8. CompleteIsTold'
  <2>1. /\ \A call \in astray' : call # TheDelete => Complete(call)'
        /\ record' # NoRecord => Complete(record)'
    BY <1>3 DEF RegistrationInv, CompleteIsTold
  <2>2. Told' => record' # NoRecord
    BY <1>1 DEF Told
  <2>3. hook'.at # "replying"
    OBVIOUS
  <2> QED
    BY <1>3, <2>1, <2>2, <2>3 DEF CompleteIsTold
<1>9. NothingFailsUnconfigured'
  BY <1>3 DEF RegistrationInv, NothingFailsUnconfigured, Working
<1>10. DeletedByFailure'
  BY <1>4 DEF RegistrationInv, DeletedByFailure
<1>11. MishapsAreNoted'
  <2>1. hook.at = "replying" => "registration" \in setup.handlers
    BY DEF RegistrationInv, CompleteIsTold
  <2> QED
    BY <1>1, <2>1 DEF RegistrationInv, MishapsAreNoted, Told, Working
<1> QED
  BY <1>5, <1>6, <1>7, <1>8, <1>9, <1>10, <1>11 DEF RegistrationInv

\* Kratos has the identity, has none, or cannot be asked.
LEMMA LookupKeeps ==
  ASSUME RegistrationInv, Lookup
  PROVE  RegistrationInv'
<1>1. /\ hook.at = "lookup"
      /\ UNCHANGED <<account, setup, flow, attempts, record, astray, mishaps, notice>>
  BY DEF Lookup, accountVars
<1>2. \/ Finish("IdentityLookupFailed")
      \/ (exists /\ Goto("profile")) \/ (~exists /\ Finish("IdentityGone"))
  BY DEF Lookup, get_identity
<1>3. CASE Finish("IdentityLookupFailed")
  <2>1. hook.at \in Working /\ hook.at # "replying"
    BY <1>1 DEF Working
  <2>2. "IdentityLookupFailed" \in Results \ {"Ok", "IdentityGone"}
    BY DEF Results
  <2> QED
    BY <1>1, <1>3, <2>1, <2>2, FailureKeeps
<1>4. CASE (exists /\ Goto("profile")) \/ (~exists /\ Finish("IdentityGone"))
  <2>1. hook \in [at: Working \cup {"none", "delete", "answered"},
                 spent: 0..RequestTimeout, call: 0..RequestTimeout,
                 fields: SUBSET Apis, result: Results]
    BY DEF RegistrationInv, RegTypeOK
  <2>2. \/ /\ exists
           /\ hook' \in [at: {"profile"}, spent: {hook.spent}, call: {0},
                         fields: SUBSET Apis, result: Results]
        \/ /\ ~exists
           /\ hook' \in [at: {"answered"}, spent: {hook.spent}, call: {0},
                         fields: SUBSET Apis, result: {"IdentityGone"}]
    BY <1>4, <2>1 DEF Goto, Finish
  <2>3. hook' \in [at: {"profile", "webhook", "answered"}, spent: {hook.spent},
                   call: {0}, fields: SUBSET Apis, result: Results]
    BY <2>2 DEF Results
  <2> QED
    BY <1>1, <2>2, <2>3, WorkGoesOn DEF Working
<1> QED
  BY <1>2, <1>3, <1>4

\* What the profile APIs gave: without failure it has all that is required.
LEMMA CollectedIsComplete ==
  ASSUME NEW given \in BOOLEAN, NEW results \in [apis -> {"complete", "partial", "failed"}]
  PROVE  LET result == collect(given, results)
             found  == {a \in selected : given /\ results[a] # "failed"}
         IN  /\ result \in {"ConsentRequired", "ProfileApiFailed", "Ok"}
             /\ found \subseteq Apis
             /\ result = "Ok" => Complete(found)
<1> DEFINE result == collect(given, results)
           found  == {a \in selected : given /\ results[a] # "failed"}
<1>1. result \in {"ConsentRequired", "ProfileApiFailed", "Ok"}
  BY DEF collect
<1>2. found \subseteq Apis
  BY DEF selected, apis
<1>3. ASSUME result = "Ok" PROVE Complete(found)
  <2>1. \A a \in selected \cap Required : given /\ results[a] = "complete"
    BY <1>3 DEF collect
  <2> QED
    BY <2>1 DEF Complete
<1> QED
  BY <1>1, <1>2, <1>3

\* The profile is fetched: what is missing fails the sign-up, and the
\* application is called if there is one to call.
LEMMA ProfileKeeps ==
  ASSUME RegistrationInv, Profile
  PROVE  RegistrationInv'
<1>1. /\ hook.at = "profile" /\ hook.at \in Working
      /\ UNCHANGED <<account, setup, flow, attempts, record, astray, mishaps, notice>>
  BY DEF Profile, accountVars, Working
<1>2. PICK given \in BOOLEAN, results \in [apis -> {"complete", "partial", "failed"}] :
        LET result == collect(given, results)
            found  == {a \in selected : given /\ results[a] # "failed"}
        IN  \/ result # "Ok" /\ Finish(result)
            \/ /\ result = "Ok" /\ "registration" \in setup.handlers
               /\ hook' = [hook EXCEPT !.at = "webhook", !.call = 0, !.fields = found]
            \/ result = "Ok" /\ "registration" \notin setup.handlers /\ Finish("Ok")
  BY DEF Profile
<1> DEFINE result == collect(given, results)
           found  == {a \in selected : given /\ results[a] # "failed"}
<1>3. /\ result \in {"ConsentRequired", "ProfileApiFailed", "Ok"}
      /\ found \in SUBSET Apis
      /\ result = "Ok" => Complete(found)
  BY CollectedIsComplete
<1>4. hook \in [at: Working \cup {"none", "delete", "answered"},
               spent: 0..RequestTimeout, call: 0..RequestTimeout,
               fields: SUBSET Apis, result: Results]
  BY DEF RegistrationInv, RegTypeOK
<1>5. exists \/ "cut" \in mishaps
  BY <1>1 DEF RegistrationInv, DeletedByFailure
<1> HIDE DEF result, found
<1>6. \/ result # "Ok" /\ Finish(result)
      \/ /\ result = "Ok" /\ "registration" \in setup.handlers
         /\ hook' = [hook EXCEPT !.at = "webhook", !.call = 0, !.fields = found]
      \/ "registration" \notin setup.handlers /\ Finish("Ok")
  BY <1>2 DEF result, found
<1>7. CASE result # "Ok" /\ Finish(result)
  <2>1. result \in Results \ {"Ok", "IdentityGone"}
    BY <1>3, <1>7 DEF Results
  <2> QED
    BY <1>1, <1>7, <2>1, FailureKeeps
<1>8. CASE /\ result = "Ok" /\ "registration" \in setup.handlers
           /\ hook' = [hook EXCEPT !.at = "webhook", !.call = 0, !.fields = found]
  <2>1. hook' \in [at: {"webhook"}, spent: {hook.spent}, call: {0},
                   fields: {found}, result: Results]
    BY <1>3, <1>4, <1>8
  <2>2. hook' \in [at: {"profile", "webhook", "answered"}, spent: {hook.spent},
                   call: {0}, fields: SUBSET Apis, result: Results]
    BY <1>3, <2>1
  <2> QED
    BY <1>1, <1>3, <1>5, <1>8, <2>1, <2>2, WorkGoesOn
<1>9. CASE "registration" \notin setup.handlers /\ Finish("Ok")
  <2>1. hook' \in [at: {"answered"}, spent: {hook.spent}, call: {0},
                   fields: SUBSET Apis, result: {"Ok"}]
    BY <1>4, <1>9 DEF Finish
  <2>2. hook' \in [at: {"profile", "webhook", "answered"}, spent: {hook.spent},
                   call: {0}, fields: SUBSET Apis, result: Results]
    BY <2>1 DEF Results
  <2> QED
    BY <1>1, <1>5, <1>9, <2>1, <2>2, WorkGoesOn
<1> QED
  BY <1>6, <1>7, <1>8, <1>9

\* The application takes the registration down: its record is complete, and of
\* an identity that exists unless a delete was cut off.
LEMMA RecordedKeeps ==
  ASSUME RegistrationInv, Recorded
  PROVE  RegistrationInv'
<1>1. /\ hook.at = "webhook" /\ flow = "running" /\ record' = hook.fields
      /\ UNCHANGED <<account, setup, flow, attempts, astray, mishaps, notice>>
  BY DEF Recorded, accountVars, RegistrationInv, OneAtATime, NoHook
<1>2. /\ hook \in [at: Working \cup {"none", "delete", "answered"},
                   spent: 0..RequestTimeout, call: 0..RequestTimeout,
                   fields: SUBSET Apis, result: Results]
      /\ hook' \in [at: {"replying"}, spent: {hook.spent}, call: {0},
                    fields: {hook.fields}, result: {hook.result}]
  BY DEF RegistrationInv, RegTypeOK, Recorded, Goto
<1>3. /\ "registration" \in setup.handlers /\ Complete(hook.fields)
      /\ exists \/ "cut" \in mishaps
  BY <1>1 DEF RegistrationInv, CompleteIsTold, DeletedByFailure
<1>4. /\ apis' = apis /\ selected' = selected /\ Configured' = Configured
      /\ \A fields : Complete(fields)' = Complete(fields)
  BY <1>1, SettingsStay
<1>5. exists' = exists
  BY <1>1 DEF exists
<1>6. hook.fields # NoRecord
  BY <1>2, ApisAssumption DEF NoRecord
<1>7. RegTypeOK'
  <2>1. hook' \in [at: Working \cup {"none", "delete", "answered"},
                  spent: 0..RequestTimeout, call: 0..RequestTimeout,
                  fields: SUBSET Apis, result: Results]
    BY <1>2, TimeoutAssumption DEF Working
  <2>2. record' \in {NoRecord} \cup SUBSET Apis
    BY <1>1, <1>2
  <2> QED
    BY <1>1, <2>1, <2>2 DEF RegistrationInv, RegTypeOK
<1>8. ApplicationAgrees'
  BY <1>1, <1>3, <1>5 DEF RegistrationInv, ApplicationAgrees
<1>9. DeleteHasItsTime' /\ WorkInBudget' /\ OneAtATime'
  BY <1>1, <1>2 DEF RegistrationInv, DeleteHasItsTime, WorkInBudget, OneAtATime, Working, Budget
<1>10. CompleteIsTold'
  BY <1>1, <1>2, <1>3, <1>4, <1>6 DEF RegistrationInv, CompleteIsTold
<1>11. NothingFailsUnconfigured'
  BY <1>1, <1>4 DEF RegistrationInv, NothingFailsUnconfigured
<1>12. DeletedByFailure'
  BY <1>1, <1>2, <1>3, <1>5 DEF RegistrationInv, DeletedByFailure
<1>13. MishapsAreNoted'
  BY <1>1, <1>2 DEF RegistrationInv, MishapsAreNoted, Told
<1> QED
  BY <1>7, <1>8, <1>9, <1>10, <1>11, <1>12, <1>13 DEF RegistrationInv

\* The application refuses, is broken or is not heard from; or its answer comes,
\* or is lost; or the work has had its time.
LEMMA WebhookKeeps ==
  ASSUME RegistrationInv, NotRecorded \/ Replied \/ OutOfBudget
  PROVE  RegistrationInv'
<1>1. {"RegistrationRejected", "RegistrationHandlerFailed", "TimedOut"}
        \subseteq Results \ {"Ok", "IdentityGone"}
  BY DEF Results
<1>2. CASE NotRecorded
  <2>1. /\ hook.at = "webhook" /\ hook.at \in Working
        /\ UNCHANGED <<account, setup, flow, attempts, record, notice>>
    BY <1>2 DEF NotRecorded, accountVars, Working
  <2>2. \/ Finish("RegistrationRejected") /\ UNCHANGED <<astray, mishaps>>
        \/ Finish("RegistrationHandlerFailed") /\ UNCHANGED <<astray, mishaps>>
        \/ /\ Finish("RegistrationHandlerFailed")
           /\ astray' = astray \cup OnTheWay /\ mishaps' = mishaps \cup {"unheard"}
    BY <1>2 DEF NotRecorded
  <2> QED
    BY <1>1, <2>1, <2>2, FailureKeeps
<1>3. CASE Replied
  <2>1. /\ hook.at = "replying" /\ hook.at \in Working
        /\ UNCHANGED <<account, setup, flow, attempts, record, astray, notice>>
    BY <1>3 DEF Replied, accountVars, Working
  <2>2. \/ Finish("Ok") /\ UNCHANGED mishaps
        \/ Finish("RegistrationHandlerFailed") /\ mishaps' = mishaps \cup {"unheard"}
    BY <1>3 DEF Replied
  <2>3. CASE Finish("Ok") /\ UNCHANGED mishaps
    <3>1. hook' \in [at: {"answered"}, spent: {hook.spent}, call: {0},
                     fields: SUBSET Apis, result: {"Ok"}]
      BY <2>3 DEF RegistrationInv, RegTypeOK, Finish
    <3>2. hook' \in [at: {"profile", "webhook", "answered"}, spent: {hook.spent},
                     call: {0}, fields: SUBSET Apis, result: Results]
      BY <3>1 DEF Results
    <3>3. record # NoRecord /\ (exists \/ "cut" \in mishaps)
      BY <2>1 DEF RegistrationInv, CompleteIsTold, Told, DeletedByFailure
    <3> QED
      BY <2>1, <2>3, <3>1, <3>2, <3>3, WorkGoesOn
  <2>4. CASE Finish("RegistrationHandlerFailed") /\ mishaps' = mishaps \cup {"unheard"}
    BY <1>1, <2>1, <2>4, FailureKeeps
  <2> QED
    BY <2>2, <2>3, <2>4
<1>4. CASE OutOfBudget
  <2>1. /\ hook.at \in Working /\ Finish("TimedOut") /\ astray' = astray \cup OnTheWay
        /\ mishaps' = IF hook.at \in {"webhook", "replying"} THEN mishaps \cup {"unheard"} ELSE mishaps
        /\ UNCHANGED <<account, setup, flow, attempts, record, notice>>
    BY <1>4 DEF OutOfBudget, accountVars
  <2>2. hook.at # "webhook" => astray' = astray
    BY <2>1, WorkOnTheWay
  <2> QED
    BY <1>1, <2>1, <2>2, FailureKeeps
<1> QED
  BY <1>2, <1>3, <1>4

\* The delete of a failed attempt: the identity is gone, or it is noted.
LEMMA DeleteKeeps ==
  ASSUME RegistrationInv, Delete
  PROVE  RegistrationInv'
<1>1. /\ hook.at = "delete" /\ flow = "running"
      /\ UNCHANGED <<setup, flow, attempts, record, astray, notice>>
  BY DEF Delete, RegistrationInv, OneAtATime, NoHook
<1>2. \/ account' = [account EXCEPT !.state = "gone"] /\ mishaps' = mishaps
      \/ account' = account /\ mishaps' = mishaps \cup {"undeleted"}
  BY DEF Delete, delete_identity
<1>3. /\ account' \in Identities
      /\ exists' => exists /\ mishaps' = mishaps \cup {"undeleted"}
      /\ ~exists' \/ "undeleted" \in mishaps'
  BY <1>2 DEF RegistrationInv, RegTypeOK, Identities, exists
<1>4. /\ hook \in [at: Working \cup {"none", "delete", "answered"},
                   spent: 0..RequestTimeout, call: 0..RequestTimeout,
                   fields: SUBSET Apis, result: Results]
      /\ hook' \in [at: {"answered"}, spent: {hook.spent}, call: {0},
                    fields: {hook.fields}, result: {hook.result}]
  BY DEF RegistrationInv, RegTypeOK, Delete, Goto
<1>5. hook.result \notin {"Ok", "IdentityGone"}
  BY <1>1 DEF RegistrationInv, DeletedByFailure
<1>6. /\ apis' = apis /\ selected' = selected /\ Configured' = Configured
      /\ \A fields : Complete(fields)' = Complete(fields)
  BY <1>1, SettingsStay
<1>7. RegTypeOK'
  <2>1. hook' \in [at: Working \cup {"none", "delete", "answered"},
                  spent: 0..RequestTimeout, call: 0..RequestTimeout,
                  fields: SUBSET Apis, result: Results]
    BY <1>4, TimeoutAssumption
  <2>2. mishaps' \subseteq {"left", "cut", "undeleted", "unheard", "removed"}
    BY <1>2 DEF RegistrationInv, RegTypeOK
  <2> QED
    BY <1>1, <1>3, <2>1, <2>2 DEF RegistrationInv, RegTypeOK
<1>8. MishapsAreNoted' /\ (mishaps' = {} => record' = NoRecord)
  BY <1>1, <1>2, <1>4 DEF RegistrationInv, MishapsAreNoted, Told
<1>9. ApplicationAgrees'
  BY <1>1, <1>8 DEF ApplicationAgrees
<1>10. DeleteHasItsTime' /\ WorkInBudget' /\ OneAtATime'
  BY <1>1, <1>4 DEF DeleteHasItsTime, WorkInBudget, OneAtATime, Working
<1>11. CompleteIsTold'
  BY <1>1, <1>4, <1>5, <1>6 DEF RegistrationInv, CompleteIsTold, Told
<1>12. NothingFailsUnconfigured'
  BY <1>1, <1>6 DEF RegistrationInv, NothingFailsUnconfigured
<1>13. DeletedByFailure'
  BY <1>1, <1>2, <1>3, <1>4, <1>5 DEF RegistrationInv, DeletedByFailure
<1> QED
  BY <1>7, <1>8, <1>9, <1>10, <1>11, <1>12, <1>13 DEF RegistrationInv

\* Kratos hears the outcome: an Ok registers, what it may retry leaves the
\* registration open, anything else ends it.
LEMMA AnswerKeeps ==
  ASSUME RegistrationInv, Answer
  PROVE  RegistrationInv'
<1>1. /\ hook.at = "answered" /\ flow = "running" /\ hook' = NoHook
      /\ UNCHANGED <<account, setup, attempts, record, astray, mishaps, notice>>
  BY DEF Answer, Hears, accountVars, RegistrationInv, OneAtATime, NoHook
<1>2. /\ flow' \in {"registered", "running", "refused"}
      /\ flow' = "registered" <=> hook.result = "Ok"
  BY DEF Answer, Hears
<1>3. /\ hook' \in [at: {"none"}, spent: {0}, call: {0}, fields: {{}}, result: {"Ok"}]
  BY <1>1 DEF NoHook
<1>4. /\ apis' = apis /\ selected' = selected /\ Configured' = Configured
      /\ \A fields : Complete(fields)' = Complete(fields)
  BY <1>1, SettingsStay
<1>5. exists' = exists
  BY <1>1 DEF exists
<1>6. /\ flow' = "registered" => exists \/ "cut" \in mishaps
      /\ flow' # "registered" => ~exists \/ "undeleted" \in mishaps
      /\ Told <=> flow' = "registered" /\ "registration" \in setup.handlers
  BY <1>1, <1>2 DEF RegistrationInv, DeletedByFailure, Told
<1>7. /\ Told => record # NoRecord
      /\ record # NoRecord => Complete(record)
      /\ record # NoRecord /\ mishaps = {} => exists
  BY DEF RegistrationInv, CompleteIsTold, ApplicationAgrees
<1>8. RegTypeOK'
  <2>1. hook' \in [at: Working \cup {"none", "delete", "answered"},
                  spent: 0..RequestTimeout, call: 0..RequestTimeout,
                  fields: SUBSET Apis, result: Results]
    BY <1>3, TimeoutAssumption DEF Results
  <2> QED
    BY <1>1, <1>2, <2>1 DEF RegistrationInv, RegTypeOK
<1>9. ApplicationAgrees'
  BY <1>1, <1>4, <1>5, <1>6, <1>7 DEF ApplicationAgrees, Complete
<1>10. DeleteHasItsTime' /\ WorkInBudget' /\ OneAtATime'
  BY <1>1, <1>3 DEF DeleteHasItsTime, WorkInBudget, OneAtATime, Working
<1>11. CompleteIsTold'
  BY <1>1, <1>3, <1>4, <1>6 DEF RegistrationInv, CompleteIsTold, Told
<1>12. NothingFailsUnconfigured'
  BY <1>1, <1>2, <1>3, <1>4 DEF RegistrationInv, NothingFailsUnconfigured
<1>13. DeletedByFailure'
  BY <1>1, <1>3 DEF RegistrationInv, DeletedByFailure
<1>14. MishapsAreNoted'
  BY <1>1, <1>3, <1>6 DEF RegistrationInv, MishapsAreNoted, Told
<1> QED
  BY <1>8, <1>9, <1>10, <1>11, <1>12, <1>13, <1>14 DEF RegistrationInv

\* Kratos leaves: the handler is dropped, its call may yet arrive, and that is
\* noted; a delete is on its way only from an attempt that had come to it.
LEMMA KratosLeavesKeeps ==
  ASSUME RegistrationInv, KratosLeaves
  PROVE  RegistrationInv'
<1>1. /\ hook.at # "none" /\ flow = "running" /\ hook' = NoHook
      /\ astray' = astray \cup OnTheWay
      /\ mishaps' = mishaps \cup (IF hook.at = "delete" THEN {"cut"} ELSE {"left"})
      /\ UNCHANGED <<account, setup, attempts, record, notice>>
  BY DEF KratosLeaves, Hears, accountVars, RegistrationInv, OneAtATime, NoHook
<1>2. flow' \in {"running", "refused"}
  BY DEF KratosLeaves, Hears
<1>3. hook' \in [at: {"none"}, spent: {0}, call: {0}, fields: {{}}, result: {"Ok"}]
  BY <1>1 DEF NoHook
<1>4. /\ apis' = apis /\ selected' = selected /\ Configured' = Configured
      /\ \A fields : Complete(fields)' = Complete(fields)
  BY <1>1, SettingsStay
<1>5. exists' = exists
  BY <1>1 DEF exists
<1>6. /\ OnTheWay \subseteq {TheDelete} \cup SUBSET Apis
      /\ \A call \in OnTheWay : call # TheDelete => Complete(call)
      /\ TheDelete \in OnTheWay => hook.at = "delete"
      /\ hook.at = "answered" => OnTheWay = {}
  <2>1. CASE hook.at \in Working
    <3>1. hook.at # "answered"
      BY <2>1 DEF Working
    <3> QED
      BY <2>1, <3>1, WorkOnTheWay
  <2>2. CASE hook.at \in {"delete", "answered"}
    BY <2>2 DEF OnTheWay
  <2> QED
    BY <1>1, <2>1, <2>2 DEF RegistrationInv, RegTypeOK
<1>7. RegTypeOK'
  <2>1. hook' \in [at: Working \cup {"none", "delete", "answered"},
                  spent: 0..RequestTimeout, call: 0..RequestTimeout,
                  fields: SUBSET Apis, result: Results]
    BY <1>3, TimeoutAssumption DEF Results
  <2> QED
    BY <1>1, <1>2, <1>6, <2>1 DEF RegistrationInv, RegTypeOK
<1>8. ApplicationAgrees'
  BY <1>1, <1>2 DEF ApplicationAgrees
<1>9. DeleteHasItsTime' /\ WorkInBudget' /\ OneAtATime'
  BY <1>1, <1>3 DEF DeleteHasItsTime, WorkInBudget, OneAtATime, Working
<1>10. CompleteIsTold'
  BY <1>1, <1>2, <1>3, <1>4, <1>6 DEF RegistrationInv, CompleteIsTold, Told
<1>11. NothingFailsUnconfigured'
  BY <1>1, <1>3, <1>4, <1>5, <1>6 DEF RegistrationInv, NothingFailsUnconfigured
<1>12. DeletedByFailure'
  BY <1>1, <1>3, <1>6 DEF RegistrationInv, DeletedByFailure
<1>13. MishapsAreNoted'
  BY <1>1 DEF MishapsAreNoted
<1> QED
  BY <1>7, <1>8, <1>9, <1>10, <1>11, <1>12, <1>13 DEF RegistrationInv

\* A call without its caller arrives: what it does was noted when it was dropped.
LEMMA ArrivesKeeps ==
  ASSUME RegistrationInv, Arrives
  PROVE  RegistrationInv'
<1>1. UNCHANGED <<setup, flow, hook, attempts, mishaps, notice>>
  BY DEF Arrives
<1>2. PICK c \in astray :
        /\ astray' = astray \ {c}
        /\ IF c = TheDelete THEN delete_identity(TRUE) /\ UNCHANGED record
                            ELSE record' = c /\ UNCHANGED account
  BY DEF Arrives
<1>3. /\ apis' = apis /\ selected' = selected /\ Configured' = Configured
      /\ \A fields : Complete(fields)' = Complete(fields)
  BY <1>1, SettingsStay
<1>4. mishaps # {} /\ Configured /\ (c # TheDelete => Complete(c))
  BY DEF RegistrationInv, MishapsAreNoted, NothingFailsUnconfigured, CompleteIsTold
<1>5. CASE c = TheDelete
  <2>1. /\ account' \in Identities /\ ~exists' /\ UNCHANGED record
        /\ "cut" \in mishaps
    BY <1>2, <1>5 DEF delete_identity, Identities, exists, RegistrationInv, RegTypeOK, DeletedByFailure
  <2>2. RegTypeOK'
    BY <1>1, <1>2, <2>1 DEF RegistrationInv, RegTypeOK
  <2>3. ApplicationAgrees' /\ MishapsAreNoted'
    BY <1>1, <1>3, <2>1 DEF RegistrationInv, ApplicationAgrees, MishapsAreNoted
  <2>4. DeleteHasItsTime' /\ WorkInBudget' /\ OneAtATime'
    BY <1>1 DEF RegistrationInv, DeleteHasItsTime, WorkInBudget, OneAtATime, Budget
  <2>5. CompleteIsTold'
    BY <1>1, <1>2, <1>3, <2>1 DEF RegistrationInv, CompleteIsTold, Told
  <2>6. NothingFailsUnconfigured'
    BY <1>3, <1>4 DEF NothingFailsUnconfigured
  <2>7. DeletedByFailure'
    BY <1>1, <1>2, <2>1 DEF RegistrationInv, DeletedByFailure
  <2> QED
    BY <2>2, <2>3, <2>4, <2>5, <2>6, <2>7 DEF RegistrationInv
<1>6. CASE c # TheDelete
  <2>1. record' = c /\ UNCHANGED account /\ c \in SUBSET Apis /\ c # NoRecord
    <3>1. c \in SUBSET Apis
      BY <1>6 DEF RegistrationInv, RegTypeOK
    <3>2. c # NoRecord
      BY <3>1, ApisAssumption DEF NoRecord
    <3> QED
      BY <1>2, <1>6, <3>1, <3>2
  <2>2. exists' = exists
    BY <2>1 DEF exists
  <2>3. RegTypeOK'
    BY <1>1, <1>2, <2>1 DEF RegistrationInv, RegTypeOK
  <2>4. ApplicationAgrees' /\ MishapsAreNoted'
    <3>1. ApplicationAgrees'
      BY <1>1, <1>3, <1>4, <1>6, <2>1, <2>2 DEF RegistrationInv, ApplicationAgrees, Complete
    <3> QED
      BY <1>1, <1>4, <3>1 DEF MishapsAreNoted
  <2>5. DeleteHasItsTime' /\ WorkInBudget' /\ OneAtATime'
    BY <1>1 DEF RegistrationInv, DeleteHasItsTime, WorkInBudget, OneAtATime, Budget
  <2>6. CompleteIsTold'
    BY <1>1, <1>2, <1>3, <1>4, <1>6, <2>1 DEF RegistrationInv, CompleteIsTold
  <2>7. NothingFailsUnconfigured'
    BY <1>3, <1>4 DEF NothingFailsUnconfigured
  <2>8. DeletedByFailure'
    BY <1>1, <1>2, <2>2 DEF RegistrationInv, DeletedByFailure
  <2> QED
    BY <2>3, <2>4, <2>5, <2>6, <2>7, <2>8 DEF RegistrationInv
<1> QED
  BY <1>5, <1>6

\* Time passes in a call: the work has its budget, the delete its own.
LEMMA TimePassesKeeps ==
  ASSUME RegistrationInv, TimePasses
  PROVE  RegistrationInv'
<1>1. /\ hook.at \in Working \cup {"delete"} /\ hook.at # "none" /\ flow = "running"
      /\ UNCHANGED <<account, setup, flow, attempts, record, astray, mishaps, notice>>
  BY DEF TimePasses, accountVars, RegistrationInv, OneAtATime, NoHook, Working
<1>2. hook \in [at: Working \cup {"none", "delete", "answered"},
               spent: 0..RequestTimeout, call: 0..RequestTimeout,
               fields: SUBSET Apis, result: Results]
  BY DEF RegistrationInv, RegTypeOK
<1>3. hook' = [hook EXCEPT !.spent = hook.spent + 1, !.call = hook.call + 1]
  BY DEF TimePasses
<1>4. /\ hook.at \in Working => hook.spent < Budget
      /\ hook.call < RequestTimeout
      /\ hook.at = "delete" => hook.call < UpstreamTimeout
  BY <1>2, BudgetLeavesTheDelete, TimeoutAssumption DEF TimePasses, Working
<1>5. hook.at = "delete" => hook.spent + UpstreamTimeout - hook.call < RequestTimeout
  BY DEF RegistrationInv, DeleteHasItsTime
<1>6. hook.spent < RequestTimeout
  BY <1>1, <1>2, <1>4, <1>5, BudgetLeavesTheDelete, TimeoutAssumption
<1>7. hook' \in [at: {hook.at}, spent: {hook.spent + 1}, call: {hook.call + 1},
                 fields: {hook.fields}, result: {hook.result}]
  BY <1>2, <1>3
<1>8. /\ apis' = apis /\ selected' = selected /\ Configured' = Configured
      /\ \A fields : Complete(fields)' = Complete(fields)
  BY <1>1, SettingsStay
<1>9. exists' = exists
  BY <1>1 DEF exists
<1>10. RegTypeOK'
  <2>1. hook.spent + 1 \in 0..RequestTimeout /\ hook.call + 1 \in 0..RequestTimeout
    BY <1>2, <1>4, <1>6, TimeoutAssumption
  <2>2. hook' \in [at: Working \cup {"none", "delete", "answered"},
                  spent: 0..RequestTimeout, call: 0..RequestTimeout,
                  fields: SUBSET Apis, result: Results]
    BY <1>2, <1>7, <2>1
  <2> QED
    BY <1>1, <2>2 DEF RegistrationInv, RegTypeOK
<1>11. ApplicationAgrees'
  BY <1>1, <1>8, <1>9 DEF RegistrationInv, ApplicationAgrees
<1>12. DeleteHasItsTime' /\ WorkInBudget' /\ OneAtATime'
  <2>1. DeleteHasItsTime'
    BY <1>2, <1>5, <1>7, TimeoutAssumption DEF DeleteHasItsTime
  <2>2. WorkInBudget'
    BY <1>2, <1>4, <1>7, BudgetLeavesTheDelete DEF WorkInBudget, Budget
  <2> QED
    BY <1>1, <2>1, <2>2 DEF OneAtATime
<1>13. CompleteIsTold'
  BY <1>1, <1>7, <1>8 DEF RegistrationInv, CompleteIsTold, Told
<1>14. NothingFailsUnconfigured'
  BY <1>1, <1>7, <1>8, <1>9 DEF RegistrationInv, NothingFailsUnconfigured
<1>15. DeletedByFailure'
  BY <1>1, <1>7, <1>9 DEF RegistrationInv, DeletedByFailure
<1>16. MishapsAreNoted'
  BY <1>1, <1>7 DEF RegistrationInv, MishapsAreNoted, Told
<1> QED
  BY <1>10, <1>11, <1>12, <1>13, <1>14, <1>15, <1>16 DEF RegistrationInv

\* A verified address, a notice and a refresh are nothing to the registration.
LEMMA OthersKeep ==
  ASSUME RegistrationInv,
         UNCHANGED <<setup, flow, hook, attempts, record, astray, mishaps>>,
         account' \in Identities, exists' = exists,
         notice' \in {"none", "due", "told", "refused", "failed", "nobody"}
  PROVE  RegistrationInv'
<1>1. /\ apis' = apis /\ selected' = selected /\ Configured' = Configured
      /\ \A fields : Complete(fields)' = Complete(fields)
  BY SettingsStay
<1>2. RegTypeOK'
  BY DEF RegistrationInv, RegTypeOK
<1>3. ApplicationAgrees'
  BY <1>1 DEF RegistrationInv, ApplicationAgrees
<1>4. DeleteHasItsTime' /\ WorkInBudget' /\ OneAtATime'
  BY DEF RegistrationInv, DeleteHasItsTime, WorkInBudget, OneAtATime, Budget
<1>5. CompleteIsTold'
  BY <1>1 DEF RegistrationInv, CompleteIsTold, Told
<1>6. NothingFailsUnconfigured'
  BY <1>1 DEF RegistrationInv, NothingFailsUnconfigured
<1>7. DeletedByFailure' /\ MishapsAreNoted'
  BY DEF RegistrationInv, DeletedByFailure, MishapsAreNoted, Told
<1> QED
  BY <1>2, <1>3, <1>4, <1>5, <1>6, <1>7 DEF RegistrationInv

\* The account moves once it is registered: its removal is noted.
LEMMA AccountMovesKeeps ==
  ASSUME RegistrationInv, AccountMoves
  PROVE  RegistrationInv'
<1>1. /\ flow = "registered" /\ exists
      /\ UNCHANGED <<setup, flow, hook, attempts, record, astray, notice>>
      /\ mishaps' = IF account'.state = "gone" THEN mishaps \cup {"removed"} ELSE mishaps
  BY DEF AccountMoves, Change
<1>2. account' \in Identities
  <2>1. \/ \E s \in {"active", "inactive", "gone"} : account' = [account EXCEPT !.state = s]
        \/ \E e \in Emails \cup {NoEmail} : account' = [account EXCEPT !.email = e]
        \/ \E e \in Emails : account' = [account EXCEPT !.verified = account.verified \cup {e}]
    BY DEF AccountMoves, Change
  <2> QED
    BY <2>1 DEF RegistrationInv, RegTypeOK, Identities
<1>3. hook.at = "none"
  BY <1>1 DEF RegistrationInv, OneAtATime, NoHook
<1>4. /\ apis' = apis /\ selected' = selected /\ Configured' = Configured
      /\ \A fields : Complete(fields)' = Complete(fields)
  BY <1>1, SettingsStay
<1>5. /\ mishaps \subseteq mishaps'
      /\ mishaps' \subseteq {"left", "cut", "undeleted", "unheard", "removed"}
      /\ exists' \/ "removed" \in mishaps'
  BY <1>1 DEF exists, RegistrationInv, RegTypeOK
<1>6. RegTypeOK'
  BY <1>1, <1>2, <1>5 DEF RegistrationInv, RegTypeOK
<1>7. ApplicationAgrees'
  BY <1>1, <1>4, <1>5 DEF RegistrationInv, ApplicationAgrees
<1>8. DeleteHasItsTime' /\ WorkInBudget' /\ OneAtATime'
  BY <1>1 DEF RegistrationInv, DeleteHasItsTime, WorkInBudget, OneAtATime, Budget
<1>9. CompleteIsTold'
  BY <1>1, <1>4 DEF RegistrationInv, CompleteIsTold, Told
<1>10. NothingFailsUnconfigured'
  BY <1>1, <1>4 DEF RegistrationInv, NothingFailsUnconfigured
<1>11. DeletedByFailure' /\ MishapsAreNoted'
  BY <1>1, <1>3, <1>5 DEF RegistrationInv, DeletedByFailure, MishapsAreNoted, Told
<1> QED
  BY <1>6, <1>7, <1>8, <1>9, <1>10, <1>11 DEF RegistrationInv

\* Every step keeps what every state of a registration has.
LEMMA NextKeepsRegistrationInv ==
  ASSUME RegistrationInv, [HooksNext]_hooksVars
  PROVE  RegistrationInv'
<1>1. /\ account \in Identities
      /\ notice \in {"none", "due", "told", "refused", "failed", "nobody"}
  BY DEF RegistrationInv, RegTypeOK
<1>2. CASE RegNext
  <2>1. CASE Verified
    <3>1. account' \in Identities /\ exists' = exists
      BY <1>1, <2>1 DEF Verified, Identities, exists
    <3> QED
      BY <2>1, <3>1, OthersKeep DEF Verified
  <2>2. CASE notify
    <3>1. account' = account /\ exists' = exists
      BY <2>2 DEF notify, accountVars, exists
    <3>2. notice' \in {"none", "due", "told", "refused", "failed", "nobody"}
      BY <2>2 DEF notify
    <3> QED
      BY <1>1, <2>2, <3>1, <3>2, OthersKeep DEF notify
  <2> QED
    BY <1>2, <2>1, <2>2, CallKeeps, LookupKeeps, ProfileKeeps, RecordedKeeps, WebhookKeeps,
       DeleteKeeps, AnswerKeeps, KratosLeavesKeeps, ArrivesKeeps, TimePassesKeeps
    DEF RegNext
<1>3. CASE Tokens \/ UNCHANGED hooksVars
  <2>1. account' = account /\ UNCHANGED regVars
    BY <1>3
    DEF Tokens, TokenNext, ReadIdentity, Say, AddClaims, BeginRefresh, HydraAnswers, HydraFails,
        Settle, hooksVars, accountVars
  <2>2. exists' = exists
    BY <2>1 DEF exists
  <2> QED
    BY <1>1, <2>1, <2>2, OthersKeep DEF regVars
<1>4. CASE AccountMoves
  BY <1>4, AccountMovesKeeps
<1> QED
  BY <1>2, <1>3, <1>4 DEF HooksNext, RegistrationMoves

\* Kratos and the application agree on who registered, and the clean-up of a
\* failed registration has its time (after_registration.rs:126-132).
THEOREM RegistrationInvariance == HooksSpec => []RegistrationInv
<1>1. HooksInit => RegistrationInv
  BY InitRegistrationInv
<1>2. RegistrationInv /\ [HooksNext]_hooksVars => RegistrationInv'
  BY NextKeepsRegistrationInv
<1> QED
  BY <1>1, <1>2, PTL DEF HooksSpec

\* Only an attempt that found the identity there tells the application of it
\* (after_registration.rs:163-165).
THEOREM NeverTellsOfTheGoneHolds == HooksSpec => NeverTellsOfTheGone
<1>1. ASSUME RegistrationInv, [HooksNext]_hooksVars
      PROVE  [hook'.at = "webhook" /\ hook.at # "webhook" /\ "cut" \notin mishaps => exists]_hook
  <2> SUFFICES ASSUME hook' # hook, hook'.at = "webhook", hook.at # "webhook", "cut" \notin mishaps
               PROVE  exists
    OBVIOUS
  <2>1. RegNext
    BY <1>1
    DEF HooksNext, RegistrationMoves, Tokens, AccountMoves, hooksVars, regVars
  <2>2. hook \in [at: Working \cup {"none", "delete", "answered"},
                 spent: 0..RequestTimeout, call: 0..RequestTimeout,
                 fields: SUBSET Apis, result: Results]
    BY <1>1 DEF RegistrationInv, RegTypeOK
  <2>3. ~Call /\ ~Answer /\ ~KratosLeaves /\ ~Recorded /\ ~Delete
    <3>1. ~Call /\ ~Answer /\ ~KratosLeaves
      BY DEF Call, Answer, KratosLeaves, Hears, NoHook
    <3>2. \A place : place # "webhook" => ~Goto(place)
      BY <2>2 DEF Goto
    <3> QED
      BY <3>1, <3>2 DEF Recorded, Delete
  <2>4. \A result \in Results : ~Finish(result)
    BY <2>2 DEF Finish
  <2>5. ~TimePasses /\ ~Arrives /\ ~Verified /\ ~notify
    BY <2>2 DEF TimePasses, Arrives, Verified, notify
  <2>6. ~(NotRecorded \/ Replied \/ OutOfBudget)
    BY <2>4 DEF NotRecorded, Replied, OutOfBudget, Results
  <2>7. ~Lookup
    <3>1. Lookup => \/ Finish("IdentityLookupFailed") \/ Finish("IdentityGone") \/ Goto("profile")
      BY DEF Lookup
    <3>2. ~Goto("profile")
      BY <2>2 DEF Goto
    <3> QED
      BY <2>4, <3>1, <3>2 DEF Results
  <2>8. hook.at = "profile"
    BY <2>1, <2>3, <2>5, <2>6, <2>7 DEF RegNext, Profile
  <2> QED
    BY <1>1, <2>8 DEF RegistrationInv, DeletedByFailure
<1>2. RegistrationInv /\ [HooksNext]_hooksVars
        => [hook'.at = "webhook" /\ hook.at # "webhook" /\ "cut" \notin mishaps => exists]_hook
  BY <1>1
<1> QED
  BY <1>2, RegistrationInvariance, PTL DEF HooksSpec, NeverTellsOfTheGone

-----------------------------------------------------------------------------
(* The token hook                                                          *)

\* The hook says Ok of an identity exactly when it could sign in; what it denies
\* it denies for a reason.
LEMMA VerdictIsJust ==
  ASSUME NEW a
  PROVE  /\ verdict(a) = "Ok" <=> ~Unfit(a)
         /\ verdict(a) \in {"Ok", "IdentityInactive", "IdentityWithoutEmail", "EmailNotVerified"}
  BY DEF verdict, Unfit, is_active, email_verified

\* What justified a denial goes on justifying it while the refresh is under way.
LEMMA JustifiedStays ==
  ASSUME UNCHANGED policy, since \subseteq since', NEW why, Justified(why)
  PROVE  Justified(why)'
  BY DEF Justified, Unfit

\* What else happens to the account is remembered.
LEMMA RememberKeeps ==
  ASSUME RefreshKnows, Remember, UNCHANGED <<policy, refresh>>
  PROVE  RefreshKnows'
<1>1. since \subseteq since' /\ (refresh.at # "none" => account' \in since')
  BY DEF Remember
<1>2. \A why : Justified(why) => Justified(why)'
  BY <1>1, JustifiedStays
<1>3. \A a : Unfit(a)' <=> Unfit(a)
  BY DEF Unfit
<1> QED
  BY <1>1, <1>2, <1>3 DEF RefreshKnows

\* Every step of a refresh keeps what it knows.
LEMMA TokenStepKeeps ==
  ASSUME RefreshKnows, TokenNext
  PROVE  RefreshKnows'
<1>1. UNCHANGED <<account, policy>>
  BY DEF TokenNext, ReadIdentity, Say, AddClaims, BeginRefresh, HydraAnswers, HydraFails,
         Settle, accountVars
<1>2. \A a : Unfit(a)' <=> Unfit(a)
  BY <1>1 DEF Unfit
<1>3. since' = since => \A why : Justified(why) => Justified(why)'
  BY <1>1, JustifiedStays
<1>4. ASSUME NEW result, Respond(result), since' = since,
             refresh.at # "none", result \in Denied => Justified(result)
      PROVE  RefreshKnows'
  <2>1. \/ /\ result \in Denied
           /\ refresh' = [at |-> "answer", error |-> "access_denied", why |-> result]
        \/ refresh' = [at |-> "hook", tries |-> refresh.tries]
        \/ refresh' = [at |-> "answer", error |-> "server_error", why |-> result]
    BY <1>4 DEF Respond
  <2>2. account' \in since'
    BY <1>1, <1>4 DEF RefreshKnows
  <2> QED
    BY <1>3, <1>4, <2>1, <2>2 DEF RefreshKnows
<1>5. CASE ReadIdentity
  <2>1. /\ refresh.at = "hook" /\ since' = since /\ account \in since /\ account' \in since'
    BY <1>1, <1>5 DEF ReadIdentity, RefreshKnows
  <2>2. \/ /\ verdict(account) = "Ok"
           /\ refresh'.at = "claims" /\ refresh'.read = account
        \/ /\ refresh'.at = "say"
           /\ \/ refresh'.result = verdict(account) /\ verdict(account) # "Ok"
              \/ refresh'.result = "IdentityNotFound" /\ ~exists
              \/ refresh'.result = "IdentityLookupFailed"
    BY <1>5 DEF ReadIdentity, get_identity
  <2>3. CASE verdict(account) = "Ok" /\ refresh'.at = "claims" /\ refresh'.read = account
    BY <1>2, <2>1, <2>3, VerdictIsJust DEF RefreshKnows
  <2>4. CASE /\ refresh'.at = "say"
             /\ \/ refresh'.result = verdict(account) /\ verdict(account) # "Ok"
                \/ refresh'.result = "IdentityNotFound" /\ ~exists
                \/ refresh'.result = "IdentityLookupFailed"
    <3>1. verdict(account) # "Ok" \/ ~exists => Unfit(account)
      BY VerdictIsJust DEF exists, Unfit
    <3>2. refresh'.result \in Denied => Unfit(account)
      BY <2>4, <3>1 DEF Denied
    <3>3. refresh'.result \in Denied => \E a \in since' : Unfit(a)'
      BY <1>2, <2>1, <3>2
    <3> QED
      BY <2>1, <2>4, <3>3 DEF RefreshKnows, Justified
  <2> QED
    BY <2>2, <2>3, <2>4
<1>6. CASE Say
  <2>1. /\ refresh.at = "say" /\ since' = since /\ Respond(refresh.result)
        /\ refresh.result \in Denied => Justified(refresh.result)
    BY <1>6 DEF Say, RefreshKnows
  <2> QED
    BY <1>4, <2>1
<1>7. CASE AddClaims
  <2>1. refresh.at = "claims" /\ since' = since
    BY <1>7 DEF AddClaims
  <2>2. \/ Respond("DownstreamServiceFailed") \/ Respond("ReservedClaimOverridden")
        \/ refresh' = [at |-> "answer", error |-> "none", why |-> "Ok"]
    BY <1>7 DEF AddClaims, Mint
  <2>3. /\ "DownstreamServiceFailed" \notin Denied
        /\ Justified("ReservedClaimOverridden")
    BY DEF Denied, Justified
  <2>4. CASE refresh' = [at |-> "answer", error |-> "none", why |-> "Ok"]
    BY <1>1, <2>1, <2>4 DEF RefreshKnows
  <2> QED
    BY <1>4, <2>1, <2>2, <2>3, <2>4
<1>8. CASE BeginRefresh \/ HydraAnswers \/ HydraFails
  <2>1. \/ refresh' = [at |-> "hook", tries |-> 0] /\ since' = {account}
        \/ refresh' = [at |-> "none", tries |-> 0]
    BY <1>8 DEF BeginRefresh, HydraAnswers, HydraFails, Settle, Idle
  <2> QED
    BY <1>1, <2>1 DEF RefreshKnows
<1> QED
  BY <1>5, <1>6, <1>7, <1>8 DEF TokenNext

\* What a refresh under way has learnt of the account was so at a moment since
\* it began, whatever the account does meanwhile.
LEMMA RefreshKnowsHolds == HooksSpec => []RefreshKnows
<1>1. HooksInit => RefreshKnows
  BY DEF HooksInit, TokenInit, Idle, RefreshKnows
<1>2. ASSUME RefreshKnows, [HooksNext]_hooksVars
      PROVE  RefreshKnows'
  <2>1. CASE RegistrationMoves \/ AccountMoves
    BY <1>2, <2>1, RememberKeeps DEF RegistrationMoves, AccountMoves
  <2>2. CASE Tokens
    BY <1>2, <2>2, TokenStepKeeps DEF Tokens
  <2>3. CASE UNCHANGED hooksVars
    BY <1>2, <2>3 DEF hooksVars, accountVars, tokenVars, RefreshKnows, Justified, Unfit
  <2> QED
    BY <1>2, <2>1, <2>2, <2>3 DEF HooksNext
<1> QED
  BY <1>1, <1>2, PTL DEF HooksSpec

\* A token says of the account what it was at a moment of the refresh when it
\* could sign in (token_hook.rs:218-223).
THEOREM TokensFollowTheAccountHolds == HooksSpec => TokensFollowTheAccount
<1> DEFINE Followed ==
      token' # token =>
          /\ token'.claims \cap Reserved = {}
          /\ \E a \in since : /\ a.state = "active" /\ a.email = token'.email
                              /\ token'.email # NoEmail
                              /\ token'.email_verified = (a.email \in a.verified)
                              /\ policy.verified_only => token'.email_verified
<1>1. ASSUME RefreshKnows, [HooksNext]_hooksVars
      PROVE  Followed
  <2> SUFFICES ASSUME token' # token
               PROVE  Followed
    OBVIOUS
  <2>1. AddClaims
    BY <1>1
    DEF HooksNext, RegistrationMoves, AccountMoves, Tokens, TokenNext, hooksVars, tokenVars,
        ReadIdentity, Say, Respond, BeginRefresh, HydraAnswers, HydraFails, Settle
  <2>2. PICK claims : Mint(claims) /\ claims \cap Reserved = {}
    BY <2>1 DEF AddClaims, Respond, reject_reserved
  <2>3. refresh.read \in since /\ ~Unfit(refresh.read)
    BY <1>1, <2>1 DEF RefreshKnows, AddClaims
  <2>4. token' = [minted |-> TRUE, claims |-> claims, email |-> refresh.read.email,
                  email_verified |-> (refresh.read.email \in refresh.read.verified)]
    BY <2>2 DEF Mint, email_verified
  <2>5. /\ refresh.read.state = "active" /\ refresh.read.email # NoEmail
        /\ policy.verified_only => refresh.read.email \in refresh.read.verified
    BY <2>3 DEF Unfit
  <2> QED
    BY <2>2, <2>3, <2>4, <2>5
<1>2. RefreshKnows /\ [HooksNext]_hooksVars => [Followed]_tokenVars
  BY <1>1
<1> QED
  BY <1>2, RefreshKnowsHolds, PTL DEF HooksSpec, TokensFollowTheAccount

\* No outage and no unreadable answer ends a session: only a denial that the
\* account, or the handler's claim, gave a reason for (proxy.rs:374).
THEOREM OutagesKeepTheSessionHolds == HooksSpec => OutagesKeepTheSession
<1>1. ASSUME RefreshKnows, [HooksNext]_hooksVars, session' # session
      PROVE  Justified(refresh.why)
  <2>1. HydraAnswers \/ HydraFails
    BY <1>1
    DEF HooksNext, RegistrationMoves, AccountMoves, Tokens, TokenNext, hooksVars, tokenVars,
        ReadIdentity, Say, AddClaims, BeginRefresh
  <2>2. ~HydraFails
    BY <1>1 DEF HydraFails, HydraError, Settle
  <2>3. PICK garbled \in BOOLEAN : HydraError(refresh.error, garbled) = "Rejected"
    BY <1>1, <2>1, <2>2 DEF HydraAnswers, Settle
  <2>4. refresh.error \in {"invalid_grant", "token_inactive", "access_denied"}
    BY <2>3 DEF HydraError
  <2>5. refresh.at = "answer" /\ refresh.error = "access_denied"
    BY <1>1, <2>1, <2>2, <2>4 DEF HydraAnswers, RefreshKnows
  <2> QED
    BY <1>1, <2>5 DEF RefreshKnows
<1>2. RefreshKnows /\ [HooksNext]_hooksVars
        => [session' # session => Justified(refresh.why)]_tokenVars
  BY <1>1
<1> QED
  BY <1>2, RefreshKnowsHolds, PTL DEF HooksSpec, OutagesKeepTheSession

-----------------------------------------------------------------------------
(* Revocation                                                              *)

Types == {"webauthn", "passkey", "totp", "lookup_secret"}
\* The four types of credentials Kratos deletes one by one.
LEMMA FourTypes ==
  /\ PURGED_CREDENTIAL_TYPES \in Seq(Types) /\ Len(PURGED_CREDENTIAL_TYPES) = 4
  /\ DOMAIN PURGED_CREDENTIAL_TYPES = 1..4
  /\ \A i \in 1..4 : PURGED_CREDENTIAL_TYPES[i] \in Types
<1>1. PURGED_CREDENTIAL_TYPES \in Seq(Types)
  BY DEF PURGED_CREDENTIAL_TYPES, Types
<1>2. Len(PURGED_CREDENTIAL_TYPES) = 4
  BY DEF PURGED_CREDENTIAL_TYPES
<1>3. DOMAIN PURGED_CREDENTIAL_TYPES = 1..4
  BY <1>1, <1>2
<1>4. \A i \in 1..4 : PURGED_CREDENTIAL_TYPES[i] \in Types
  BY <1>1, <1>2, ElementOfSeq
<1> QED
  BY <1>1, <1>2, <1>3, <1>4

\* A list of types without its first.
LEMMA TailOfSuffix ==
  ASSUME NEW l \in Suffixes, l # <<>>
  PROVE  /\ Tail(l) \in Suffixes
         /\ \A x : (\E j \in DOMAIN l : x = l[j])
                      => x = Head(l) \/ \E j \in DOMAIN Tail(l) : x = Tail(l)[j]
<1> DEFINE P == PURGED_CREDENTIAL_TYPES
<1>1. P \in Seq(Types) /\ Len(P) = 4 /\ DOMAIN P = 1..4
      /\ \A j \in 1..4 : P[j] \in Types
  BY FourTypes
<1>2. PICK i \in 1..5 : l = SubSeq(P, i, 4)
  BY <1>1 DEF Suffixes
<1> HIDE DEF P
<1>3. i \in 1..4
  BY <1>2, SubSeqEmpty
<1>4. Head(l) = P[i] /\ Tail(l) = SubSeq(P, i + 1, 4)
  BY <1>1, <1>2, <1>3, HeadTailOfSubSeq
<1>5. \A k \in 1..5 : /\ SubSeq(P, k, 4) \in Seq(Types)
                     /\ Len(SubSeq(P, k, 4)) = 5 - k
                     /\ DOMAIN SubSeq(P, k, 4) = 1..5 - k
                     /\ \A j \in 1..5 - k : SubSeq(P, k, 4)[j] = P[k + j - 1]
  <2> TAKE k \in 1..5
  <2>1. \A j \in k..4 : P[j] \in Types
    BY <1>1
  <2>2. /\ SubSeq(P, k, 4) \in Seq(Types)
        /\ Len(SubSeq(P, k, 4)) = IF k <= 4 THEN 4 - k + 1 ELSE 0
        /\ \A j \in 1..4 - k + 1 : SubSeq(P, k, 4)[j] = P[k + j - 1]
    BY <2>1, SubSeqProperties
  <2> DEFINE S == SubSeq(P, k, 4)
  <2>3. S \in Seq(Types) /\ Len(S) = 5 - k /\ \A j \in 1..5 - k : S[j] = P[k + j - 1]
    <3> 4 - k + 1 = 5 - k
      OBVIOUS
    <3> QED
      BY <2>2
  <2> HIDE DEF S
  <2>4. DOMAIN S = 1..5 - k
    BY <2>3
  <2> QED
    BY <2>3, <2>4 DEF S
<1>6. Tail(l) \in Suffixes
  <2>1. i + 1 \in 1..5
    BY <1>3
  <2>2. Suffixes = {SubSeq(P, k, 4) : k \in 1..5}
    BY <1>1 DEF Suffixes, P
  <2> QED
    BY <1>4, <2>1, <2>2
<1>7. ASSUME NEW j \in DOMAIN l, l[j] # Head(l)
      PROVE  \E k \in DOMAIN Tail(l) : l[j] = Tail(l)[k]
  <2>1. j \in 1..5 - i /\ l[j] = P[i + j - 1]
    BY <1>2, <1>3, <1>5, <1>7
  <2>2. j # 1
    BY <1>3, <1>4, <1>7, <2>1
  <2>3. j - 1 \in 1..5 - (i + 1) /\ i + 1 \in 1..5 /\ (i + 1) + (j - 1) - 1 = i + j - 1
    BY <1>3, <2>1, <2>2
  <2>4. j - 1 \in DOMAIN Tail(l) /\ Tail(l)[j - 1] = P[(i + 1) + (j - 1) - 1]
    BY <1>4, <1>5, <2>3
  <2> QED
    BY <2>1, <2>3, <2>4
<1> QED
  BY <1>6, <1>7

\* The loop over the types begins with all of them.
LEMMA FirstSuffix ==
  /\ PURGED_CREDENTIAL_TYPES \in Suffixes
  /\ \A c \in Creds :
       \/ KindOf[c] \in {"password", "oidc"}
       \/ \E i \in DOMAIN PURGED_CREDENTIAL_TYPES : KindOf[c] = PURGED_CREDENTIAL_TYPES[i]
<1>1. SubSeq(PURGED_CREDENTIAL_TYPES, 1, 4) = PURGED_CREDENTIAL_TYPES
  BY FourTypes, SubSeqFull
<1> QED
  BY <1>1, FourTypes, RevocationAssumption DEF Suffixes

\* At first no hook has been called.
LEMMA InitPurgeInv == Init => PurgeInv
<1> SUFFICES ASSUME Init PROVE PurgeInv
  OBVIOUS
<1>1. TypeOK
  <2>1. 0 \in 0..MAX_SESSION_ROUNDS
    BY RevocationAssumption
  <2>2. {failed, second, failing} \subseteq BOOLEAN
    BY DEF Init
  <2>3. req.keep # None => req.keep \in sessions
    BY RevocationAssumption DEF Init
  <2> QED
    BY <2>1, <2>2, <2>3, RevocationAssumption DEF Init, TypeOK, Answers, KratosSteps
<1>2. NothingReturns
  BY RevocationAssumption DEF Init, NothingReturns
<1> QED
  BY <1>1, <1>2 DEF Init, PurgeInv, StepsInOrder, PurgeGetsOn, SessionsAreEnded, RestGetsOn,
     NothingFromBeforeIsLeft, NoCredentialOfAnEndedSession

\* What the properties say of Ok follows from how far the handler is then.
LEMMA OkMeansDone ==
  ASSUME TypeOK, NothingReturns, PurgeGetsOn, SessionsAreEnded, RestGetsOn
  PROVE  NothingFromBeforeIsLeft /\ NoCredentialOfAnEndedSession
  BY DEF NothingReturns, PurgeGetsOn, SessionsAreEnded, RestGetsOn, NothingFromBeforeIsLeft,
         NoCredentialOfAnEndedSession, Doomed, Theirs

\* A step of the handler adds nothing to the account, nor to what is doomed.
LEMMA DoomedShrinks ==
  ASSUME creds' \subseteq creds, UNCHANGED <<req, second, before, addedBy, late>>
  PROVE  Doomed' \subseteq Doomed
  BY DEF Doomed, Theirs

\* revoke begins, for the first time or as Kratos' retry.
LEMMA StartKeepsPurgeInv == PurgeInv /\ Start => PurgeInv'
<1> SUFFICES ASSUME PurgeInv, Start PROVE PurgeInv'
  OBVIOUS
<1> USE DEF PurgeInv, accountState, handler, history
<1>1. TypeOK'
  <2>1. 0 \in 0..MAX_SESSION_ROUNDS
    BY RevocationAssumption
  <2>2. {failed', second', failing'} \subseteq BOOLEAN
    BY DEF Start
  <2>3. pc' \in {"identity", "sessions"} /\ UNCHANGED <<creds, sessions, active, downstream, req>>
    BY DEF Start
  <2>4. elapsed' = 0 /\ rounds' = 0
    BY DEF Start
  <2> QED
    BY <2>1, <2>2, <2>3, <2>4 DEF TypeOK, Answers, KratosSteps
<1>2. StepsInOrder'
  BY DEF Start, StepsInOrder
<1>3. NothingReturns'
  BY RevocationAssumption DEF Start, NothingReturns, TypeOK
<1>4. PurgeGetsOn' /\ SessionsAreEnded' /\ RestGetsOn'
  BY DEF Start, PurgeGetsOn, SessionsAreEnded, RestGetsOn, Doomed
<1> QED
  BY <1>1, <1>2, <1>3, <1>4, OkMeansDone, PTL

\* The account is read: its oidc credentials are to be unlinked.
LEMMA IdentityKeepsPurgeInv ==
  ASSUME PurgeInv, NEW o \in Outcomes, Identity(o)
  PROVE  PurgeInv'
<1> USE DEF PurgeInv, accountState, handler, history
<1>1. TypeOK'
  BY DEF Identity, Note, TypeOK, Answers, KratosSteps
<1>2. StepsInOrder'
  BY DEF Identity, StepsInOrder, OfKind, TypeOK
<1>3. NothingReturns'
  BY DEF Identity, Note, NothingReturns, TypeOK
<1>4. Doomed' = Doomed /\ Doomed \subseteq creds
  BY DEF Identity, Doomed, Theirs
<1>5. PurgeGetsOn'
  BY <1>4 DEF Identity, Note, PurgeGetsOn, OfKind
<1>6. SessionsAreEnded' /\ RestGetsOn'
  BY DEF Identity, Note, SessionsAreEnded, RestGetsOn, Theirs
<1> QED
  BY <1>1, <1>2, <1>3, <1>5, <1>6, OkMeansDone, PTL

\* The account is read again for the write of its password.
LEMMA LookKeepsPurgeInv ==
  ASSUME PurgeInv, NEW o \in Outcomes, Look(o)
  PROVE  PurgeInv'
<1> USE DEF PurgeInv, accountState, handler, history
<1>1. TypeOK'
  BY DEF Look, TypeOK, Answers, KratosSteps
<1>2. StepsInOrder'
  BY DEF Look, StepsInOrder
<1>3. NothingReturns'
  BY DEF Look, NothingReturns, TypeOK
<1>4. Doomed' = Doomed
  BY DEF Look, Doomed, Theirs
<1>5. PurgeGetsOn'
  BY <1>4 DEF Look, PurgeGetsOn
<1>6. SessionsAreEnded' /\ RestGetsOn'
  BY DEF Look, SessionsAreEnded, RestGetsOn, Theirs
<1> QED
  BY <1>1, <1>2, <1>3, <1>5, <1>6, OkMeansDone, PTL

\* The account is written back with a password nobody knows.
LEMMA PutKeepsPurgeInv ==
  ASSUME PurgeInv, NEW o \in Outcomes, Put(o)
  PROVE  PurgeInv'
<1> USE DEF PurgeInv, accountState, handler, history
<1>1. TypeOK'
  BY DEF Put, Note, TypeOK, Answers, KratosSteps
<1>2. StepsInOrder'
  BY DEF Put, StepsInOrder
<1>3. creds' \subseteq creds
  BY DEF Put
<1>4. NothingReturns'
  BY <1>3 DEF Put, Note, NothingReturns, TypeOK
<1>5. Doomed' \subseteq Doomed /\ Doomed' \subseteq creds'
  BY <1>3, DoomedShrinks DEF Put, Doomed
<1>6. o = "ok" => \A c \in Doomed' : KindOf[c] # "password"
  BY <1>5 DEF Put, Landed, OfKind
<1>7. PurgeGetsOn'
  BY <1>3, <1>5, <1>6 DEF Put, Note, PurgeGetsOn
<1>8. SessionsAreEnded' /\ RestGetsOn'
  BY DEF Put, Note, SessionsAreEnded, RestGetsOn, Theirs
<1> QED
  BY <1>1, <1>2, <1>4, <1>7, <1>8, OkMeansDone, PTL

\* One oidc credential is unlinked, or its call fails.
LEMMA UnlinkKeepsPurgeInv ==
  ASSUME PurgeInv, NEW o \in Outcomes, Unlink(o)
  PROVE  PurgeInv'
<1> USE DEF PurgeInv, accountState, handler, history
<1>1. TypeOK'
  BY DEF Unlink, Note, TypeOK, Answers, KratosSteps
<1>2. StepsInOrder'
  BY FirstSuffix DEF Unlink, StepsInOrder
<1>3. creds' \subseteq creds
  BY DEF Unlink
<1>4. NothingReturns'
  BY <1>3 DEF Unlink, Note, NothingReturns, TypeOK
<1>5. Doomed' \subseteq Doomed /\ Doomed' \subseteq creds' /\ Doomed \subseteq Creds
  BY <1>3, DoomedShrinks DEF Unlink, Doomed, TypeOK
<1>6. CASE \E c \in todo : /\ creds' = IF Landed(o) THEN creds \ {c} ELSE creds
                           /\ todo' = todo \ {c} /\ Note(o) /\ UNCHANGED pc
  <2>1. ~failed' => ~failed /\ Landed(o)
    BY <1>6 DEF Note, Landed, TypeOK
  <2>2. PurgeGetsOn'
    BY <1>3, <1>5, <1>6, <2>1 DEF Unlink, PurgeGetsOn
  <2>3. SessionsAreEnded' /\ RestGetsOn'
    BY <1>6, <2>1 DEF Unlink, SessionsAreEnded, RestGetsOn, Theirs
  <2> QED
    BY <1>1, <1>2, <1>4, <2>2, <2>3, OkMeansDone, PTL
<1>7. CASE todo = {} /\ todo' = PURGED_CREDENTIAL_TYPES /\ pc' = "types" /\ UNCHANGED <<creds, failed>>
  <2>1. PurgeGetsOn'
    BY <1>3, <1>5, <1>7, FirstSuffix DEF Unlink, PurgeGetsOn
  <2>2. SessionsAreEnded' /\ RestGetsOn'
    BY <1>7 DEF Unlink, SessionsAreEnded, RestGetsOn, Theirs
  <2> QED
    BY <1>1, <1>2, <1>4, <2>1, <2>2, OkMeansDone, PTL
<1> QED
  BY <1>6, <1>7 DEF Unlink

\* The type at the head of the list is done: the rest of the list is what is left.
LEMMA TypeIsDone ==
  ASSUME PurgeInv, pc \in {"types", "patch"}, todo # <<>>, todo' = Tail(todo), pc' = "types",
         creds' \subseteq creds, UNCHANGED <<req, second, before, addedBy, late>>,
         ~failed' => ~failed /\ \A c \in creds' : KindOf[c] # Head(todo)
  PROVE  PurgeGetsOn'
<1> USE DEF PurgeInv
<1>1. todo \in Suffixes
  BY DEF StepsInOrder
<1>2. Doomed' \subseteq Doomed /\ Doomed' \subseteq creds'
  BY DoomedShrinks DEF Doomed
<1>3. ASSUME ~failed', req.purge, NEW c \in Doomed'
      PROVE  KindOf[c] # "password" /\ \E i \in DOMAIN todo' : KindOf[c] = todo'[i]
  <2>1. /\ KindOf[c] # "password" /\ KindOf[c] # Head(todo)
        /\ \E i \in DOMAIN todo : KindOf[c] = todo[i]
    BY <1>2, <1>3 DEF PurgeGetsOn
  <2> QED
    BY <1>1, <2>1, TailOfSuffix
<1> QED
  BY <1>3 DEF PurgeGetsOn

\* The credentials of one type are deleted, or the call fails.
LEMMA DeleteTypeKeepsPurgeInv ==
  ASSUME PurgeInv, NEW o \in Outcomes, DeleteType(o)
  PROVE  PurgeInv'
<1> USE DEF PurgeInv, accountState, handler, history
<1>0. todo \in Suffixes /\ todo # <<>> /\ pc = "types" /\ creds' \subseteq creds /\ Note(o)
      /\ UNCHANGED <<req, second, before, addedBy, late>>
  BY DEF DeleteType, StepsInOrder
<1>1. TypeOK'
  BY DEF DeleteType, Note, TypeOK, Answers, KratosSteps
<1>2. StepsInOrder'
  BY <1>0, TailOfSuffix DEF DeleteType, StepsInOrder
<1>3. NothingReturns'
  BY <1>0 DEF DeleteType, Note, NothingReturns, TypeOK
<1>4. ~failed' => ~failed /\ Landed(o) /\ o = "ok"
  BY <1>0 DEF Note, Landed, TypeOK
<1>5. SessionsAreEnded' /\ RestGetsOn'
  BY <1>0, <1>4 DEF DeleteType, SessionsAreEnded, RestGetsOn, Theirs
<1>6. PurgeGetsOn'
  <2>1. CASE pc' = "types" /\ todo' = Tail(todo)
    <3>1. ~failed' => \A c \in creds' : KindOf[c] # Head(todo)
      BY <1>0, <1>4, <2>1 DEF DeleteType, OfKind
    <3> QED
      BY <1>0, <1>4, <2>1, <3>1, TypeIsDone
  <2>2. CASE pc' = "patch" /\ UNCHANGED <<todo, creds>>
    <3>1. Doomed' = Doomed
      BY <1>0, <2>2 DEF Doomed, Theirs
    <3> QED
      BY <1>0, <1>4, <2>2, <3>1 DEF PurgeGetsOn
  <2> QED
    BY <1>0, <2>1, <2>2 DEF DeleteType
<1> QED
  BY <1>1, <1>2, <1>3, <1>5, <1>6, OkMeansDone, PTL

\* The passkeys, which cannot be deleted, are patched away.
LEMMA PatchKeepsPurgeInv ==
  ASSUME PurgeInv, NEW o \in Outcomes, Patch(o)
  PROVE  PurgeInv'
<1> USE DEF PurgeInv, accountState, handler, history
<1>0. todo \in Suffixes /\ todo # <<>> /\ pc = "patch" /\ Head(todo) = "passkey"
      /\ creds' \subseteq creds /\ UNCHANGED <<req, second, before, addedBy, late>>
  BY DEF Patch, StepsInOrder
<1>1. TypeOK'
  BY DEF Patch, TypeOK, Answers, KratosSteps
<1>2. StepsInOrder'
  BY <1>0, TailOfSuffix DEF Patch, StepsInOrder
<1>3. NothingReturns'
  BY <1>0 DEF Patch, NothingReturns, TypeOK
<1>4. ~failed' => ~failed /\ Landed(o)
  BY DEF Patch, Landed, TypeOK
<1>5. PurgeGetsOn'
  <2>1. ~failed' => \A c \in creds' : KindOf[c] # Head(todo)
    BY <1>0, <1>4 DEF Patch, OfKind
  <2> QED
    BY <1>0, <1>4, <2>1, TypeIsDone DEF Patch
<1>6. SessionsAreEnded' /\ RestGetsOn'
  BY <1>0, <1>4 DEF Patch, SessionsAreEnded, RestGetsOn, Theirs
<1> QED
  BY <1>1, <1>2, <1>3, <1>5, <1>6, OkMeansDone, PTL

\* A purge is over: the sessions come next, after the second the rest.
LEMMA PurgedKeepsPurgeInv == PurgeInv /\ Purged => PurgeInv'
<1> SUFFICES ASSUME PurgeInv, Purged PROVE PurgeInv'
  OBVIOUS
<1> USE DEF PurgeInv, accountState, handler, history
<1>1. TypeOK'
  BY DEF Purged, ToRest, TypeOK, Answers, KratosSteps
<1>2. StepsInOrder'
  BY DEF Purged, ToRest, StepsInOrder
<1>3. NothingReturns'
  BY DEF Purged, ToRest, NothingReturns
<1>4. Doomed' = Doomed
  BY DEF Purged, Doomed, Theirs
<1>5. ~failed /\ req.purge => Doomed = {}
  BY DEF Purged, PurgeGetsOn
<1>6. PurgeGetsOn'
  BY <1>4, <1>5 DEF Purged, ToRest, PurgeGetsOn
<1>7. SessionsAreEnded' /\ RestGetsOn'
  BY DEF Purged, ToRest, SessionsAreEnded, RestGetsOn, TypeOK, Theirs
<1> QED
  BY <1>1, <1>2, <1>3, <1>6, <1>7, OkMeansDone, PTL

\* The sessions ended, or a failure was noted: the second purge or the rest is next.
LEMMA EndedKeepsPurgeInv ==
  ASSUME PurgeInv, pc \in {"sessions", "list", "revoke"}, Ended, TypeOK',
         sessions' \subseteq sessions, failing' => failed',
         UNCHANGED <<creds, downstream, req, ever, before, addedBy, late>>,
         ~failed' => ~failed /\ sessions' \subseteq {req.keep} \ {None}
  PROVE  PurgeInv'
<1> USE DEF PurgeInv
<1>0. ~second /\ (~failed /\ req.purge => before \cap creds = {})
  BY DEF StepsInOrder, PurgeGetsOn, Doomed
<1>1. \/ req.purge /\ second' = TRUE /\ pc' = "identity" /\ todo' = {}
      \/ ~req.purge /\ second' = second /\ pc' = "rest" /\ todo' = Rest
  BY DEF Ended, ToRest
<1>2. StepsInOrder'
  BY <1>0, <1>1 DEF StepsInOrder
<1>3. NothingReturns'
  BY <1>1 DEF NothingReturns
<1>4. PurgeGetsOn'
  BY <1>0, <1>1 DEF PurgeGetsOn
<1>5. SessionsAreEnded' /\ RestGetsOn'
  BY <1>1 DEF SessionsAreEnded, RestGetsOn, TypeOK, Theirs, NothingReturns
<1> QED
  BY <1>2, <1>3, <1>4, <1>5, OkMeansDone, PTL

\* Still at it, ending sessions.
LEMMA EndingKeepsPurgeInv ==
  ASSUME PurgeInv, pc \in {"sessions", "list", "revoke"}, pc' \in {"list", "revoke"}, TypeOK',
         sessions' \subseteq sessions, failing' => failed', ~failed' => ~failed,
         pc' = "revoke" => todo' \in SUBSET (Sessions \ {req.keep}),
         UNCHANGED <<creds, downstream, req, second, ever, before, addedBy, late>>
  PROVE  PurgeInv'
<1> USE DEF PurgeInv
<1>1. StepsInOrder'
  BY DEF StepsInOrder
<1>2. NothingReturns'
  BY DEF NothingReturns
<1>3. Doomed' = Doomed
  BY DEF Doomed, Theirs
<1>4. PurgeGetsOn'
  BY <1>3 DEF PurgeGetsOn
<1>5. SessionsAreEnded' /\ RestGetsOn'
  BY DEF SessionsAreEnded, RestGetsOn, StepsInOrder
<1> QED
  BY <1>1, <1>2, <1>4, <1>5, OkMeansDone, PTL

\* All sessions are ended with one call, as none is kept.
LEMMA RevokeAllKeepsPurgeInv ==
  ASSUME PurgeInv, NEW o \in Outcomes, RevokeAll(o)
  PROVE  PurgeInv'
<1> USE DEF PurgeInv, accountState, handler, history
<1>1. TypeOK'
  BY DEF RevokeAll, Ended, ToRest, Note, TypeOK, Answers, KratosSteps
<1>2. /\ pc = "sessions" /\ sessions' \subseteq sessions
      /\ (failing' => failed') /\ (~failed' => ~failed)
      /\ UNCHANGED <<creds, downstream, req, ever, before, addedBy, late>>
  BY DEF RevokeAll, Note, NothingReturns, TypeOK
<1>3. CASE req.keep = None /\ sessions' = (IF Landed(o) THEN {} ELSE sessions) /\ Note(o) /\ Ended
  <2>1. ~failed' => sessions' = {}
    BY <1>3 DEF Note, Landed, TypeOK
  <2> QED
    BY <1>1, <1>2, <1>3, <2>1, EndedKeepsPurgeInv
<1>4. CASE pc' = "list" /\ UNCHANGED <<sessions, failed, second, rest_at, todo>>
  BY <1>1, <1>2, <1>4, EndingKeepsPurgeInv
<1> QED
  BY <1>3, <1>4 DEF RevokeAll

\* A page that shows nobody but the session to keep shows all there are.
LEMMA ShortPageIsAll ==
  ASSUME NEW S, IsFiniteSet(S), NEW keep,
         NEW page \in kSubset(Min({PageSize, Cardinality(S)}), S), page \ {keep} = {}
  PROVE  S \subseteq {keep}
<1>1. page \in SUBSET S /\ Cardinality(page) = Min({PageSize, Cardinality(S)})
  BY DEF kSubset
<1>2. IsFiniteSet(page) /\ Cardinality(S) \in Nat /\ PageSize \in Nat /\ PageSize >= 2
      /\ (Cardinality(S) = Cardinality(page) => S = page)
  BY <1>1, FS_Subset, FS_CardinalityType, RevocationAssumption
<1>3. Min({PageSize, Cardinality(S)}) = IF PageSize <= Cardinality(S) THEN PageSize ELSE Cardinality(S)
  BY <1>2 DEF Min
<1>4. Cardinality(page) <= 1
  <2>1. IsFiniteSet({keep}) /\ Cardinality({keep}) = 1
    BY FS_Singleton
  <2>2. page \in SUBSET {keep}
    OBVIOUS
  <2> QED
    BY <2>1, <2>2, FS_Subset
<1>5. Cardinality(page) = Cardinality(S)
  BY <1>1, <1>2, <1>3, <1>4
<1> QED
  BY <1>2, <1>5

\* A page of sessions is listed; a short one without others is the last.
LEMMA ListKeepsPurgeInv ==
  ASSUME PurgeInv, NEW o \in Outcomes, List(o)
  PROVE  PurgeInv'
<1> USE DEF PurgeInv, accountState, handler, history
<1>1. TypeOK'
  <2>1. rounds' \in 0..MAX_SESSION_ROUNDS
    BY RevocationAssumption DEF List, TypeOK
  <2>2. pc' \in {"identity", "rest", "revoke"} /\ {failed', second', failing'} \subseteq BOOLEAN
    BY DEF List, Ended, ToRest, TypeOK
  <2> QED
    BY <2>1, <2>2 DEF List, TypeOK, Answers, KratosSteps
<1>2. /\ pc = "list" /\ sessions' = sessions /\ failing' = FALSE /\ (~failed' => ~failed)
      /\ UNCHANGED <<creds, downstream, req, ever, before, addedBy, late>>
  BY DEF List
<1>3. CASE failed' = TRUE /\ Ended
  BY <1>1, <1>2, <1>3, EndedKeepsPurgeInv
<1>4. ASSUME NEW page \in kSubset(Min({PageSize, Cardinality(sessions)}), sessions),
             page \ {req.keep} = {}, Ended
      PROVE  PurgeInv'
  <2>1. IsFiniteSet(sessions) /\ None \notin sessions
    BY FS_Subset, RevocationAssumption DEF TypeOK
  <2>2. sessions \subseteq {req.keep}
    BY <1>4, <2>1, ShortPageIsAll
  <2>3. sessions' \subseteq {req.keep} \ {None}
    BY <1>2, <2>1, <2>2
  <2> QED
    BY <1>1, <1>2, <1>4, <2>3, EndedKeepsPurgeInv
<1>5. ASSUME NEW page \in kSubset(Min({PageSize, Cardinality(sessions)}), sessions),
             todo' = page \ {req.keep}, pc' = "revoke", UNCHANGED <<second, rest_at>>
      PROVE  PurgeInv'
  <2>1. todo' \in SUBSET (Sessions \ {req.keep})
    BY <1>5 DEF kSubset, TypeOK
  <2> QED
    BY <1>1, <1>2, <1>5, <2>1, EndingKeepsPurgeInv
<1> QED
  BY <1>3, <1>4, <1>5 DEF List

\* One listed session is ended, or its call fails.
LEMMA RevokeListedKeepsPurgeInv ==
  ASSUME PurgeInv, NEW o \in Outcomes, NEW s \in Sessions, RevokeListed(o, s)
  PROVE  PurgeInv'
<1> USE DEF PurgeInv, accountState, handler, history
<1>1. s \in todo /\ todo \in SUBSET (Sessions \ {req.keep})
  BY DEF RevokeListed, StepsInOrder
<1>2. TypeOK'
  <2>1. pc' \in {"identity", "rest", "list", "revoke"} /\ {failed', second', failing'} \subseteq BOOLEAN
    BY DEF RevokeListed, Note, Ended, ToRest, TypeOK
  <2>2. sessions' \subseteq Sessions /\ (req.keep # None => req.keep \in sessions')
    BY <1>1 DEF RevokeListed, TypeOK
  <2> QED
    BY <2>1, <2>2 DEF RevokeListed, TypeOK, Answers, KratosSteps
<1>3. /\ pc = "revoke" /\ sessions' \subseteq sessions
      /\ (failing' => failed') /\ (~failed' => ~failed)
      /\ UNCHANGED <<creds, downstream, req, ever, before, addedBy, late>>
  BY DEF RevokeListed, Note, NothingReturns, TypeOK
<1>4. CASE todo' = todo \ {s} /\ UNCHANGED <<pc, second, rest_at>>
  BY <1>1, <1>2, <1>3, <1>4, EndingKeepsPurgeInv
<1>5. CASE failing' /\ Ended
  BY <1>2, <1>3, <1>5, EndedKeepsPurgeInv
<1>6. CASE pc' = "list" /\ UNCHANGED <<second, rest_at>>
  BY <1>2, <1>3, <1>6, EndingKeepsPurgeInv
<1> QED
  BY <1>4, <1>5, <1>6 DEF RevokeListed

\* The handler is past Kratos, or Kratos' time is over.
LEMMA KratosGivesUpKeepsPurgeInv == PurgeInv /\ KratosGivesUp => PurgeInv'
<1> SUFFICES ASSUME PurgeInv, KratosGivesUp PROVE PurgeInv'
  OBVIOUS
<1> USE DEF PurgeInv, accountState, handler, history
<1>1. TypeOK'
  BY DEF KratosGivesUp, ToRest, TypeOK, Answers, KratosSteps
<1>2. StepsInOrder' /\ NothingReturns'
  BY DEF KratosGivesUp, ToRest, StepsInOrder, NothingReturns
<1>3. PurgeGetsOn' /\ SessionsAreEnded' /\ RestGetsOn'
  BY DEF KratosGivesUp, PurgeGetsOn, SessionsAreEnded, RestGetsOn
<1> QED
  BY <1>1, <1>2, <1>3, OkMeansDone, PTL

\* The calls after Kratos', and the answer: nothing of the account in Kratos changes.
LEMMA RestStepKeepsPurgeInv ==
  ASSUME PurgeInv, pc = "rest", pc' \in {"rest"} \cup Answers, TypeOK', ~failed' => ~failed,
         pc' = "rest" => todo' \in SUBSET Rest, pc' = "Ok" => ~failed',
         ~failed' => downstream' \subseteq todo', pc' = "Ok" => todo' = {},
         UNCHANGED <<creds, sessions, req, second, ever, before, addedBy, late, failing>>,
         failed => failed'
  PROVE  PurgeInv'
<1> USE DEF PurgeInv
<1>1. StepsInOrder' /\ NothingReturns'
  BY DEF StepsInOrder, NothingReturns, Answers
<1>2. Doomed' = Doomed
  BY DEF Doomed, Theirs
<1>3. PurgeGetsOn'
  BY <1>2 DEF PurgeGetsOn, Answers
<1>4. SessionsAreEnded' /\ RestGetsOn'
  BY DEF SessionsAreEnded, RestGetsOn, Theirs, Answers
<1> QED
  BY <1>1, <1>3, <1>4, OkMeansDone, PTL

\* One of the calls to Hydra and bff is made, or runs out of its share.
LEMMA RestKeepsPurgeInv ==
  ASSUME PurgeInv, (\E o \in Outcomes, call \in Rest : RestCall(call, o)) \/ RestTimesOut \/ Reply
  PROVE  PurgeInv'
<1> USE DEF PurgeInv, accountState, handler, history
<1>0. todo \subseteq Rest /\ pc = "rest" /\ (~failed => downstream \subseteq todo)
  BY DEF RestCall, RestTimesOut, Reply, StepsInOrder, RestGetsOn
<1>1. ASSUME NEW o \in Outcomes, NEW call \in Rest, RestCall(call, o) PROVE PurgeInv'
  <2>1. TypeOK'
    BY <1>1 DEF RestCall, Note, TypeOK
  <2>2. (~failed' => ~failed /\ Landed(o)) /\ (failed => failed')
    BY <1>1 DEF RestCall, Note, Landed, TypeOK
  <2>3. ~failed' => downstream' \subseteq todo'
    BY <1>0, <1>1, <2>2 DEF RestCall
  <2> QED
    BY <1>0, <1>1, <2>1, <2>2, <2>3, RestStepKeepsPurgeInv DEF RestCall, Answers
<1>2. CASE RestTimesOut
  <2>1. TypeOK'
    BY <1>2 DEF RestTimesOut, TypeOK
  <2> QED
    BY <1>0, <1>2, <2>1, RestStepKeepsPurgeInv DEF RestTimesOut, Answers
<1>3. CASE Reply
  <2>1. TypeOK'
    BY <1>3 DEF Reply, TypeOK, Answers
  <2>2. pc' \in Answers /\ (pc' = "Ok" => ~failed')
    BY <1>3 DEF Reply, Answers, TypeOK
  <2> QED
    BY <1>0, <1>3, <2>1, <2>2, RestStepKeepsPurgeInv DEF Reply, Answers
<1> QED
  BY <1>1, <1>2, <1>3

\* Time passes.
LEMMA TickKeepsPurgeInv == PurgeInv /\ Tick => PurgeInv'
<1> SUFFICES ASSUME PurgeInv, Tick PROVE PurgeInv'
  OBVIOUS
<1>1. elapsed' \in Nat
  BY DEF Tick, PurgeInv, TypeOK
<1> QED
  BY <1>1 DEF Tick, accountState, handler, history, PurgeInv, TypeOK, StepsInOrder, NothingReturns,
     PurgeGetsOn, SessionsAreEnded, RestGetsOn, NothingFromBeforeIsLeft,
     NoCredentialOfAnEndedSession, Doomed, Theirs

\* What a session that is to stay adds is not doomed.
LEMMA AddCredentialKeepsPurgeInv ==
  ASSUME PurgeInv, NEW s \in Sessions, NEW c \in Creds, AddCredential(s, c)
  PROVE  PurgeInv'
<1> USE DEF PurgeInv, accountState, handler, history
<1>1. TypeOK' /\ StepsInOrder'
  BY DEF AddCredential, TypeOK, StepsInOrder
<1>2. NothingReturns'
  BY DEF AddCredential, NothingReturns
<1>3. ~failed => Doomed' \subseteq Doomed
  <2>1. CASE ~second
    BY <2>1 DEF AddCredential, Doomed, NothingReturns
  <2>2. CASE second
    <3>1. ~failed => s \in Theirs
      BY <2>2 DEF AddCredential, SessionsAreEnded
    <3>2. addedBy' = [addedBy EXCEPT ![c] = s] /\ creds' = creds \cup {c} /\ Theirs' = Theirs
          /\ second' = second
      BY DEF AddCredential, Theirs
    <3>3. addedBy \in [Creds -> Sessions \cup {None}] /\ creds \subseteq Creds
      BY DEF NothingReturns, TypeOK
    <3>4. ~failed => \A x \in creds' : addedBy'[x] \notin Theirs' => x \in creds /\ addedBy[x] \notin Theirs
      BY <3>1, <3>2, <3>3
    <3> QED
      BY <2>2, <3>2, <3>4 DEF Doomed
  <2> QED
    BY <2>1, <2>2 DEF TypeOK
<1>4. before' \cap creds' = before \cap creds
  BY DEF AddCredential, NothingReturns
<1>5. PurgeGetsOn'
  BY <1>3, <1>4 DEF AddCredential, PurgeGetsOn
<1>6. SessionsAreEnded' /\ RestGetsOn'
  BY DEF AddCredential, SessionsAreEnded, RestGetsOn, Theirs
<1> QED
  BY <1>1, <1>2, <1>5, <1>6, OkMeansDone, PTL

\* Somebody signs in with a credential that is there: a session of after.
LEMMA SignInKeepsPurgeInv ==
  ASSUME PurgeInv, NEW s \in Sessions, NEW c \in Creds, SignIn(s, c)
  PROVE  PurgeInv'
<1> USE DEF PurgeInv, accountState, handler, history
<1>1. TypeOK' /\ StepsInOrder'
  BY DEF SignIn, TypeOK, StepsInOrder
<1>2. NothingReturns'
  BY DEF SignIn, NothingReturns
<1>3. Theirs \subseteq Theirs' /\ (second \/ pc \in {"rest", "Ok"} => s \in Theirs')
  BY DEF SignIn, Theirs, Answers
<1>4. Doomed' \subseteq Doomed
  BY <1>3 DEF SignIn, Doomed
<1>5. PurgeGetsOn'
  BY <1>4 DEF SignIn, PurgeGetsOn
<1>6. SessionsAreEnded' /\ RestGetsOn'
  BY <1>3 DEF SignIn, SessionsAreEnded, RestGetsOn, NothingReturns
<1> QED
  BY <1>1, <1>2, <1>5, <1>6, OkMeansDone, PTL

\* Only an admin deactivates the account, or nothing happens.
LEMMA SameAccountKeepsPurgeInv ==
  ASSUME PurgeInv, active' \in BOOLEAN,
         UNCHANGED <<creds, sessions, downstream, handler, elapsed, history>>
  PROVE  PurgeInv'
  BY DEF handler, history, PurgeInv, TypeOK, StepsInOrder, NothingReturns, PurgeGetsOn,
         SessionsAreEnded, RestGetsOn, NothingFromBeforeIsLeft, NoCredentialOfAnEndedSession,
         Doomed, Theirs

\* Every step of the hook and of the account keeps PurgeInv.
LEMMA NextKeepsPurgeInv == PurgeInv /\ [Next]_vars => PurgeInv'
<1> SUFFICES ASSUME PurgeInv, [Next]_vars PROVE PurgeInv'
  OBVIOUS
<1>1. CASE UNCHANGED vars
  BY <1>1, SameAccountKeepsPurgeInv DEF vars, accountState, PurgeInv, TypeOK
<1>2. CASE Deactivate
  BY <1>2, SameAccountKeepsPurgeInv DEF Deactivate
<1>3. CASE \E o \in Outcomes :
             \/ Identity(o) \/ Look(o) \/ Put(o) \/ Unlink(o) \/ DeleteType(o) \/ Patch(o)
             \/ RevokeAll(o) \/ List(o) \/ \E s \in Sessions : RevokeListed(o, s)
  BY <1>3, IdentityKeepsPurgeInv, LookKeepsPurgeInv, PutKeepsPurgeInv, UnlinkKeepsPurgeInv,
     DeleteTypeKeepsPurgeInv, PatchKeepsPurgeInv, RevokeAllKeepsPurgeInv, ListKeepsPurgeInv,
     RevokeListedKeepsPurgeInv
<1>4. CASE (\E o \in Outcomes, call \in Rest : RestCall(call, o)) \/ RestTimesOut \/ Reply
  BY <1>4, RestKeepsPurgeInv
<1>5. CASE Start \/ Purged \/ KratosGivesUp \/ Tick
  BY <1>5, StartKeepsPurgeInv, PurgedKeepsPurgeInv, KratosGivesUpKeepsPurgeInv, TickKeepsPurgeInv
<1>6. CASE \E s \in Sessions, c \in Creds : AddCredential(s, c) \/ SignIn(s, c)
  BY <1>6, AddCredentialKeepsPurgeInv, SignInKeepsPurgeInv
<1> QED
  BY <1>1, <1>2, <1>3, <1>4, <1>5, <1>6 DEF Next

\* The hook answers Ok only when nothing of the account's from before is left, nor a
\* credential that an ended session added, whatever failed, was lost or ran out of
\* time (revocation.rs:1-3, 64-65, 113-115).
THEOREM PurgeInvariance == Spec => []PurgeInv
  BY InitPurgeInv, NextKeepsPurgeInv, PTL DEF Spec

-----------------------------------------------------------------------------
(* The rest is always tried                                                *)

\* Neither part of the handler outlasts its budget, and every call is either left
\* or was tried.
BudgetsKept ==
  /\ pc \in KratosSteps => elapsed <= kratos_budget /\ tried = {}
  /\ pc = "rest" => /\ rest_at \in Nat /\ rest_at <= kratos_budget
                    /\ elapsed - rest_at <= rest_budget
                    /\ tried \cup todo = Rest
  /\ pc \in Answers => tried = Rest

\* Every step keeps the hook within the half of its time, and the other calls in theirs.
LEMMA NextKeepsBudgets == PurgeInv /\ BudgetsKept /\ [Next]_vars => BudgetsKept'
<1> SUFFICES ASSUME PurgeInv, BudgetsKept, [Next]_vars PROVE BudgetsKept'
  OBVIOUS
<1> USE DEF BudgetsKept
<1>0. /\ kratos_budget \in Nat /\ rest_budget \in Nat /\ elapsed \in Nat
  BY RevocationAssumption DEF kratos_budget, rest_budget, PurgeInv, TypeOK
<1>1. CASE pc \in KratosSteps /\ UNCHANGED <<elapsed, tried>>
           /\ (pc' \in KratosSteps \/ ToRest)
  BY <1>0, <1>1 DEF ToRest, KratosSteps, Answers
<1>2. CASE UNCHANGED <<pc, elapsed, tried, todo, rest_at>>
  BY <1>2
<1>3. CASE Start
  BY <1>0, <1>3 DEF Start, KratosSteps, Answers
<1>4. ASSUME NEW o \in Outcomes, NEW call \in Rest, RestCall(call, o) PROVE BudgetsKept'
  BY <1>0, <1>4 DEF RestCall, KratosSteps, Answers
<1>5. CASE RestTimesOut
  BY <1>5 DEF RestTimesOut, KratosSteps, Answers, handler, accountState, history
<1>6. CASE Reply
  BY <1>6 DEF Reply, KratosSteps, Answers, handler, accountState, history
<1>7. CASE Tick
  BY <1>0, <1>7 DEF Tick, KratosSteps, Answers, handler, accountState, history
<1>8. ASSUME NEW o \in Outcomes,
             \/ Identity(o) \/ Look(o) \/ Put(o) \/ Unlink(o) \/ DeleteType(o) \/ Patch(o)
             \/ RevokeAll(o) \/ List(o) \/ \E s \in Sessions : RevokeListed(o, s)
      PROVE  BudgetsKept'
  BY <1>1, <1>8 DEF Identity, Look, Put, Unlink, DeleteType, Patch, RevokeAll, List, RevokeListed,
     Ended, KratosSteps, handler, accountState, history
<1>9. CASE Purged \/ KratosGivesUp
  BY <1>1, <1>9 DEF Purged, KratosGivesUp, KratosSteps, handler, accountState, history
<1>10. CASE UNCHANGED vars \/ Deactivate
            \/ \E s \in Sessions, c \in Creds : AddCredential(s, c) \/ SignIn(s, c)
  BY <1>2, <1>10 DEF vars, Deactivate, AddCredential, SignIn, handler, accountState, history
<1> QED
  BY <1>3, <1>4, <1>5, <1>6, <1>7, <1>8, <1>9, <1>10 DEF Next

\* A Kratos that hangs keeps nobody from the calls to Hydra and bff, nor the handler
\* from answering in time (revocation.rs:64-104).
THEOREM RestIsAlwaysTriedHolds == Spec => []RestIsAlwaysTried
<1>1. Init => BudgetsKept
  BY DEF Init, BudgetsKept, KratosSteps, Answers
<1>2. PurgeInv /\ BudgetsKept => RestIsAlwaysTried
  <2> SUFFICES ASSUME PurgeInv, BudgetsKept PROVE RestIsAlwaysTried
    OBVIOUS
  <2>1. /\ elapsed \in Nat /\ request_timeout \in Nat \ {0}
        /\ kratos_budget \in Nat /\ rest_budget \in Nat
        /\ kratos_budget + rest_budget < request_timeout
    BY RevocationAssumption DEF PurgeInv, TypeOK, kratos_budget, rest_budget
  <2> QED
    BY <2>1 DEF BudgetsKept, RestIsAlwaysTried, KratosSteps, Answers
<1> QED
  BY <1>1, <1>2, PurgeInvariance, NextKeepsBudgets, PTL DEF Spec
=============================================================================
