------------------------------ MODULE Account ------------------------------
(***************************************************************************)
(* One identity of Kratos, as far as the hooks read it, and the life it    *)
(* leads besides them: hooks/src/clients/kratos.rs.                        *)
(***************************************************************************)
EXTENDS Naturals, FiniteSets

CONSTANTS Emails,      \* the addresses the identity may have
          NoEmail,     \* stands for a missing `email` trait
          MaxChanges   \* bound: how often the account changes by itself

ASSUME EmailsAssumption == Emails # {} /\ NoEmail \notin Emails

VARIABLES account,     \* the identity: state, email trait, verified addresses
          changes      \* how often it has changed

accountVars == <<account, changes>>

Identities == [state: {"active", "inactive", "gone"},
             email: Emails \cup {NoEmail},
             verified: SUBSET Emails]

exists == account.state # "gone"

is_active(identity) == identity.state = "active"

email_verified(identity) == identity.email \in identity.verified

(* GET of an identity.  Its three outcomes are told apart by is_not_found: *)
(* the identity, none (404), or a failure that says nothing.               *)
get_identity == {"failed"} \cup (IF exists THEN {"found"} ELSE {"not_found"})

(* DELETE of an identity; a 404 counts as done.  The answer can be lost.   *)
delete_identity(done) ==
    \/ done /\ account' = [account EXCEPT !.state = "gone"]
    \/ ~done /\ UNCHANGED account

AccountInit ==
    /\ account = [state |-> "active",
                  email |-> CHOOSE e \in Emails : TRUE, verified |-> {}]
    /\ changes = 0

(* What an admin, a user in settings, or a code does.  A deleted identity  *)
(* stays deleted.                                                          *)
Change ==
    /\ exists /\ changes < MaxChanges
    /\ changes' = changes + 1
    /\ \/ \E s \in {"active", "inactive", "gone"} : account' = [account EXCEPT !.state = s]
       \/ \E e \in Emails \cup {NoEmail} : account' = [account EXCEPT !.email = e]
       \/ \E e \in Emails :
             account' = [account EXCEPT !.verified = @ \cup {e}]
    /\ account' # account
=============================================================================
