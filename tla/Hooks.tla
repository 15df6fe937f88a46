------------------------------- MODULE Hooks -------------------------------
(***************************************************************************)
(* The hooks service over one account: its registration, then the tokens   *)
(* it gets for as long as it lives.  Both read the identity from Kratos    *)
(* each time (hooks/src/server/router.rs).                                 *)
(***************************************************************************)
EXTENDS Registration, TokenHook

hooksVars == <<accountVars, regVars, tokenVars>>

HooksInit == AccountInit /\ RegInit /\ TokenInit

(* Kratos signs nobody in before the registration is through.              *)
Tokens == flow = "registered" /\ TokenNext /\ UNCHANGED regVars

(* The account changes by itself, between any two steps of a hook.         *)
AccountMoves ==
    /\ flow = "registered"
    /\ Change /\ Remember
    /\ mishaps' = IF account'.state = "gone" THEN mishaps \cup {"removed"} ELSE mishaps
    /\ UNCHANGED <<setup, flow, hook, attempts, record, astray, notice>>
    /\ UNCHANGED <<policy, session, refresh, token>>

RegistrationMoves ==
    /\ RegNext
    /\ Remember /\ UNCHANGED <<policy, session, refresh, token>>

HooksNext == RegistrationMoves \/ Tokens \/ AccountMoves

HooksSpec == HooksInit /\ [][HooksNext]_hooksVars

\* What every state of after_registration.rs keeps: Kratos and the application
\* agree on who registered, and the clean-up of a failure has its time.
RegistrationInv ==
    /\ RegTypeOK
    /\ ApplicationAgrees
    /\ DeleteHasItsTime
    /\ WorkInBudget /\ OneAtATime /\ CompleteIsTold /\ NothingFailsUnconfigured
    /\ DeletedByFailure /\ MishapsAreNoted
=============================================================================
