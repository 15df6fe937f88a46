------------------------------- MODULE MCBff --------------------------------
(* Small instances of Bff for TLC. *)
EXTENDS Bff, TLC

CONSTANTS c1, c2, u1, a

\* One login, for the races of requests with each other and with its end.
OneUserOf == c1 :> u1
OneSidOf == c1 :> a

\* Both logins are one user's: the second may log in over the first, or push
\* it over the cap.  Only the first has a sid, as in a login without one.
TwoUserOf == c1 :> u1 @@ c2 :> u1
TwoSidOf == c1 :> a @@ c2 :> NoSid
=============================================================================
