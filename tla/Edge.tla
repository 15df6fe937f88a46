-------------------------------- MODULE Edge --------------------------------
(***************************************************************************)
(* What stands between the browser and an upstream in bff                  *)
(* (bff/src/server/api/proxy.rs `authenticate`, origin_check.rs,           *)
(* cookie.rs), the same check before a logout, and the keys the services   *)
(* show each other (internal_revoke.rs, hooks/src/server/auth.rs).         *)
(***************************************************************************)
EXTENDS Naturals, FiniteSets

VARIABLE call      \* the request being handled, or how far it came

(* Where a request comes from: bff's own page, one of a trusted origin, or *)
(* anybody's.                                                              *)
Pages == {"own", "trusted", "foreign"}
trusted_origins == {"own", "trusted"}

(* What a browser says of the page: its Origin, `null` from where it has   *)
(* none, or nothing, and its Referer or nothing.                           *)
Origins(page) == {page, "null", "absent", "unreadable"}
Referers(page) == {page, "absent"}

require_trusted_origin(origin, referer) ==
    (IF origin # "absent" THEN origin ELSE referer) \in trusted_origins

needs_trusted_origin(method) == method \notin {"GET", "HEAD", "OPTIONS"}

(* A segment shows what it is, `..` (also as `..;x`, `...`), one with a    *)
(* slash, backslash or control character, or a plain name, once it has     *)
(* been decoded `layers` times.                                            *)
Segment(what, layers) == [what |-> what, layers |-> layers]
shows(segment, decoded) == segment.layers <= decoded

(* Mutant: a path is decoded once.                                         *)
is_clean_path_once(path) ==
    \A s \in path : ~(shows(s, 1) /\ s.what \in {"dots", "slash"})

is_clean_path(path) ==
    \A s \in path : \A decoded \in 1..2 : ~(shows(s, decoded) /\ s.what \in {"dots", "slash"})

(* The cookies called what the session cookie is called: the browser's own *)
(* and one a sibling domain planted.                                       *)
extract_cookie(cookies) ==
    IF Cardinality(cookies) = 1 THEN CHOOSE c \in cookies : TRUE ELSE "none"

(* What bff lets through of a request, of an answer.                       *)
REQUEST_HEADERS == {"content", "accept", "if-match"}
RESPONSE_HEADERS == {"content", "csp", "cache-control", "location"}
allowed(headers, names) == headers \cap names

(* Cache-Control: a set of directives.  What settles the matter; a         *)
(* field-qualified private does not.                                       *)
SHARED_CACHE_DIRECTIVES == {"public", "s-maxage", "private", "no-store"}
keep_out_of_shared_caches(directives) ==
    IF directives = {} THEN {"no-store"}
    ELSE IF directives \cap SHARED_CACHE_DIRECTIVES # {} THEN directives
    ELSE directives \cup {"private"}

-----------------------------------------------------------------------------
(* A proxied request                                                       *)

(* authenticate, up to the bearer token it takes from the session.         *)
Authenticated(r) ==
    /\ is_clean_path(r.path)
    /\ needs_trusted_origin(r.method) => require_trusted_origin(r.origin, r.referer)
    /\ extract_cookie(r.cookies) # "none"

(* It is sent on as whoever the cookie names.                              *)
Forward(r) ==
    /\ Authenticated(r)
    /\ call' = [at |-> "upstream", page |-> r.page, method |-> r.method, path |-> r.path,
                cookies |-> r.cookies, session |-> extract_cookie(r.cookies),
                headers |-> allowed(r.headers, REQUEST_HEADERS) \cup {"bearer"}]

(* The upstream answers; a cache in front of bff sees the answer.          *)
UpstreamAnswers ==
    /\ call.at = "upstream"
    /\ \E said \in SUBSET {"public", "s-maxage", "private", "private=", "no-store",
                           "max-age", "must-revalidate"},
          headers \in {{"content", "set-cookie"}, {"content", "csp", "clear-site-data"}} :
          call' = [at |-> "answer", said |-> said,
                   directives |-> keep_out_of_shared_caches(said),
                   headers |-> allowed(headers, RESPONSE_HEADERS) \cup {"nosniff", "csp"}]

(* POST /logout: it ends the session the cookie names.                     *)
LogoutCalled(r) ==
    /\ require_trusted_origin(r.origin, r.referer)
    /\ call' = [at |-> "upstream", page |-> r.page, method |-> "POST", path |-> {},
                cookies |-> r.cookies, session |-> extract_cookie(r.cookies), headers |-> {"bearer"}]

(* What one part of the system says to another, with the key it shows.     *)
(* bff takes any spelling of the scheme, and nobody when it has no key;    *)
(* hooks, which does not start without a key, takes the one.               *)
bearer_token(auth) == IF auth.scheme \in {"Bearer", "bearer"} THEN auth.token ELSE "missing"
authorize(presented, expected) == expected # "" /\ presented # "missing" /\ presented = expected
require_api_key(auth, expected) == auth.scheme = "Bearer" /\ auth.token = expected

ServiceCall ==
    \E to \in {"bff", "hooks"}, expected \in {"", "key"},
       auth \in [scheme: {"Bearer", "bearer", "Basic"}, token: {"", "key", "guess"}] :
          /\ to = "hooks" => expected # ""
          /\ IF to = "bff" THEN authorize(bearer_token(auth), expected)
                           ELSE require_api_key(auth, expected)
          /\ call' = [at |-> "revoking", token |-> auth.token]

-----------------------------------------------------------------------------
(* Properties                                                              *)

(* Only a page of a trusted origin changes anything or signs anybody out,  *)
(* whatever its browser leaves out of the request (proxy.rs:229-235,       *)
(* origin_check.rs:16-27).                                                 *)
OnlyTrustedPagesAct ==
    call.at = "upstream" /\ call.method \notin {"GET", "HEAD", "OPTIONS"} =>
       call.page \in {"own", "trusted"}

(* No request acts with a planted cookie while the browser has its own,    *)
(* none leaves its route at an upstream that decodes a path up to twice,   *)
(* and no credential but bff's goes with it (proxy.rs:172, cookie.rs:12).  *)
RequestsStayInTheirLane ==
    call.at = "upstream" =>
       /\ "own" \in call.cookies => call.session # "planted"
       /\ \A s \in call.path : \A decoded \in 0..2 : s.what # "plain" => s.layers > decoded
       /\ call.headers \cap {"cookie", "authorization", "upgrade"} = {}

(* A shared cache that saw no Authorization keeps an answer only if the    *)
(* upstream, which did, said it may (RFC 9111 3.5, proxy.rs:189-217).      *)
Stored(directives) == directives \cap {"private", "no-store"} = {}
NoStrangersAnswers ==
    call.at = "answer" /\ Stored(call.directives) => call.said \cap {"public", "s-maxage"} # {}

(* bff and hooks do what only they may ask of each other for no one else   *)
(* (internal_revoke.rs:97-113).                                            *)
KeysAreAsked == call.at = "revoking" => call.token = "key"

EdgeInv == OnlyTrustedPagesAct /\ RequestsStayInTheirLane /\ NoStrangersAnswers /\ KeysAreAsked
=============================================================================
