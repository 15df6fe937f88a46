---------------------------- MODULE MCRevocation ----------------------------
(* Small instances of Revocation for TLC. *)
EXTENDS Revocation, TLC

CONSTANTS pw, link, key, s1, s2, s3

MCKindOf == pw :> "password" @@ link :> "oidc" @@ key :> "passkey"

\* after-recovery has no session in its context, but its body may name one;
\* after-password-change keeps the session the password was changed in.
Recovery == [keep |-> None, purge |-> TRUE]
PasswordChange == [keep |-> s1, purge |-> FALSE]
RecoveryKeeping == [keep |-> s1, purge |-> TRUE]
RecoveryOnly == {Recovery}
AllRequests == {Recovery, RecoveryKeeping, PasswordChange}
=============================================================================
