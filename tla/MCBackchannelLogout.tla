------------------------ MODULE MCBackchannelLogout -------------------------
(* A small instance of BackchannelLogout for TLC. *)
EXTENDS BackchannelLogout, TLC

CONSTANTS u1, a, b, j1, j2, j3, sidToken, userToken, bothToken, forged, junk

\* Hydra's own tokens carry a sid; one with a sub, or with both, is what the
\* standard allows.
\* The forged one copies a genuine jti, the junk one is signed but lacks a jti.
MCClaimsOf ==
  sidToken :> [iat |-> 0, event |-> TRUE, nonce |-> FALSE, sub |-> Absent, sid |-> a, jti |-> j1]
  @@ userToken :> [iat |-> 1, event |-> TRUE, nonce |-> FALSE, sub |-> u1, sid |-> Absent, jti |-> j2]
  @@ bothToken :> [iat |-> 3, event |-> TRUE, nonce |-> FALSE, sub |-> u1, sid |-> a, jti |-> j3]
  @@ forged :> [iat |-> 0, event |-> TRUE, nonce |-> FALSE, sub |-> u1, sid |-> b, jti |-> j1]
  @@ junk :> [iat |-> 0, event |-> TRUE, nonce |-> FALSE, sub |-> u1, sid |-> Absent, jti |-> Absent]

MCSessionOf ==
  1 :> [user_id |-> u1, sid |-> a, created_at |-> 0, refresh_expires_at |-> 9]
  @@ 2 :> [user_id |-> u1, sid |-> b, created_at |-> 0, refresh_expires_at |-> 9]
  @@ 3 :> [user_id |-> u1, sid |-> NoSid, created_at |-> 0, refresh_expires_at |-> 9]
=============================================================================
