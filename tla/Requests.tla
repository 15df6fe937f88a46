------------------------------ MODULE Requests ------------------------------
(***************************************************************************)
(* A request on its way through bff or login: the client's limit first,    *)
(* then the checks of its route (bff/src/server/router.rs, login's router  *)
(* in lib.rs).  An instance looks at one of the two services, whose        *)
(* limits are its own; requests do not meet each other except in those.    *)
(***************************************************************************)
EXTENDS ClientLimits

CONSTANTS Bodies, NoOne,                   \* see LoginProxy
          Segments,                        \* see Edge: the proxied paths' segments
          Forgeries                        \* what clients write into X-Forwarded-For

(* A body is a sequence of fields; a segment shows what it is after some   *)
(* decoding (Edge); who forges addresses writes a list of them.            *)
ASSUME RequestsAssumption ==
    /\ \A body \in Bodies : Len(body) \in Nat /\ DOMAIN body = 1..Len(body)
    /\ Segments \subseteq [what : {"plain", "dots", "slash"}, layers : Nat]
    /\ Forgeries \subseteq Seq([ip : Hosts \cup Proxies, form : {"bare", "port", "mapped", "unreadable"}])

VARIABLES service, call

vars == <<service, call, limitVars>>

Login == INSTANCE LoginProxy
Proxy == INSTANCE Edge

Idle == [at |-> "none"]

(* The routes of each service and the bucket each is counted in.  Proxied  *)
(* OPTIONS are answered by CORS before they are counted.                   *)
bucket(route) ==
    CASE route \in {"login-flow", "submit"} -> "small"
      [] route \in {"proxied", "page"} -> "large"
      [] OTHER -> "none"
Routes == IF service = "bff" THEN {"login-flow", "proxied", "preflight", "health", "internal"}
                             ELSE {"submit", "page", "health"}

Init ==
    /\ service \in {"bff", "login"}
    /\ call = Idle
    /\ LimitsInit

(* A request comes in and is counted; one over the limit goes no further.  *)
Arrive ==
    /\ call = Idle
    /\ \E route \in Routes :
          /\ call' = [at |-> route]
          /\ IF bucket(route) = "none" THEN UNCHANGED limitVars
             ELSE \E host \in Hosts, path \in UNION {[1..n -> Proxies] : n \in 0..2},
                     form \in {"bare", "unreadable"}, forged \in Forgeries :
                     Limit(bucket(route), host, path, form, forged)
    /\ UNCHANGED service

-----------------------------------------------------------------------------
(* login's proxy: what is not forwarded is answered.                       *)
Submit ==
    /\ call.at = "submit"
    /\ \E path \in Login!Paths, encoding \in Login!Encodings, body \in Bodies :
          call' = IF Login!Forwarded(path, encoding, body)
                  THEN [at |-> "sent", path |-> path, encoding |-> encoding, body |-> body,
                        key |-> Login!Attempt(path, encoding, body).key]
                  ELSE Idle
    /\ UNCHANGED <<service, limitVars>>

KratosReplies ==
    /\ Login!KratosAnswers \/ Login!KratosLost \/ Login!Settle
    /\ UNCHANGED <<service, limitVars>>

(* bff's proxy, and its logout.                                            *)
BrowserRequests ==
    [page: Proxy!Pages, method: {"GET", "POST", "DELETE"}, origin: Proxy!Pages \cup {"null", "absent", "unreadable"},
     referer: Proxy!Pages \cup {"absent"}, cookies: SUBSET {"own", "planted"},
     path: {{s} : s \in Segments}, headers: {{"content", "cookie", "authorization"}}]

FromBrowser ==
    /\ call.at \in {"proxied", "login-flow"}
    /\ \E r \in BrowserRequests :
          /\ r.origin \in Proxy!Origins(r.page) /\ r.referer \in Proxy!Referers(r.page)
          /\ IF call.at = "proxied" THEN Proxy!Forward(r) ELSE Proxy!LogoutCalled(r)
    /\ UNCHANGED <<service, limitVars>>

FromService ==
    /\ call.at = "internal"
    /\ Proxy!ServiceCall
    /\ UNCHANGED <<service, limitVars>>

Upstream == Proxy!UpstreamAnswers /\ UNCHANGED <<service, limitVars>>

(* The request is answered, or refused by the check it failed.             *)
Done ==
    /\ call # Idle /\ call.at \notin {"sent", "answered", "upstream"}
    /\ call' = Idle
    /\ UNCHANGED <<service, limitVars>>

Refill == call = Idle /\ Replenish /\ UNCHANGED <<service, call>>

Next ==
    \/ Arrive \/ Submit \/ KratosReplies \/ FromBrowser \/ FromService \/ Upstream
    \/ Done \/ Refill

-----------------------------------------------------------------------------
(* A password Kratos looks at was counted for its identifier               *)
(* (LoginProxy's EveryCheckIsCounted, of login/src/proxy.rs:145-176).      *)
EveryCheckIsCounted == Login!EveryCheckIsCounted

(* What the throttle is told of an answer is true (LoginProxy's            *)
(* OutcomeTellsTheTruth, of login/src/proxy.rs:316-366).                   *)
OutcomeTellsTheTruth == Login!OutcomeTellsTheTruth

(* What bff sends on, hands back and does for others is for those it may   *)
(* (Edge's EdgeInv, of bff/src/server/api/proxy.rs:237-287).               *)
EdgeInv == Proxy!EdgeInv
=============================================================================
