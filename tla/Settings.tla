------------------------------ MODULE Settings ------------------------------
(***************************************************************************)
(* What a deployer sets and which of it the three services start with:     *)
(* common/src/config.rs and the config.rs of bff, login and hooks.         *)
(*                                                                         *)
(* A deployment is one environment and one YAML file for all three (they   *)
(* run in one container) and login's language files.  A URL keeps what the *)
(* checks tell apart; a secret is none, short, the committed one, or long; *)
(* numbers are themselves, scaled down.  Types and logging are left out.   *)
(***************************************************************************)
EXTENDS Integers, Sequences, FiniteSets

CONSTANTS MAX_REFRESH_TOKEN_TTL_SECS,
          MAX_TAG_LEN, MAX_LANGUAGE_TAGS      \* see Locales

Lang == INSTANCE Locales

(* scheme "" does not parse; host "loopback" is this machine; `tail` is    *)
(* what comes after the host, or the user info before it.                  *)
Url(scheme, host, tail) == [scheme |-> scheme, host |-> host, tail |-> tail]
Empty == Url("", "none", "")
is_http(url) == url.scheme \in {"http", "https"} /\ url.host # "none"
is_loopback(url) == url.host = "loopback"
https_or_loopback(url) == url.scheme = "https" \/ is_loopback(url)

(* A cookie's name: the prefixes it begins with, and the rest.             *)
CookieName(prefixes, rest) == [prefixes |-> prefixes, rest |-> rest]
LOGIN_COOKIE == CookieName(<<>>, "wa_login")
has_prefix(name, prefix) == name.prefixes # <<>> /\ Head(name.prefixes) = prefix

-----------------------------------------------------------------------------
(* common: defaults, then the file, then the listed variables.             *)

merge(layer, over) ==
    [k \in DOMAIN layer \cup DOMAIN over |-> IF k \in DOMAIN over THEN over[k] ELSE layer[k]]

user_settings(d, read_file, table) ==
    LET vars == DOMAIN table \cap DOMAIN d.env
        fromEnv == [k \in {table[v] : v \in vars} |-> d.env[CHOOSE v \in vars : table[v] = k]]
    IN  IF read_file THEN merge(d.file, fromEnv) ELSE fromEnv

extract(defaults, user) == merge(defaults, user)

Profiles == {"dev", "prod"}
profile(user) == IF "profile" \in DOMAIN user THEN user.profile ELSE "prod"
Prod(user) == profile(user) = "prod"

(* Under prod these must be set, as their defaults are this machine.       *)
set_in_prod(user, keys) == Prod(user) => keys \subseteq DOMAIN user
require_https_in_prod(user, base, origins) ==
    Prod(user) => /\ \A url \in base \cup origins : url.scheme = "https" /\ url.host # "none"
                  /\ \A url \in origins : url.tail \in {"", "/"}

key_is_long(key) == key \in {"long", "committed"}

(* The rate limits, of bff as of login, and the proxies they believe.      *)
limits_accepted(config) ==
    config.rate_limit_max_attempts # 0 /\ config.rate_limit_proxy_max_attempts # 0
Net(family, prefix_len) == [family |-> family, prefix_len |-> prefix_len]
v4_mapped_as_v4(net) ==
    IF net.family = "mapped" /\ net.prefix_len >= 96 THEN Net("v4", net.prefix_len - 96) ELSE net
ip_nets(nets) == {v4_mapped_as_v4(n) : n \in nets}
too_wide_to_trust(net) == net.prefix_len < IF net.family = "v4" THEN 8 ELSE 32
proxies_accepted(user, nets) ==
    /\ \A n \in nets : n.family # "junk"
    /\ Prod(user) => \A n \in ip_nets(nets) : ~too_wide_to_trust(n)

-----------------------------------------------------------------------------
(* bff                                                                     *)

bffENV == [WA_PROFILE |-> "profile", WA_BFF_PORT |-> "port", WA_BFF_INTERNAL_PORT |-> "internal_port",
           WA_BFF_URL |-> "bff_url", WA_HYDRA_PUBLIC_URL |-> "hydra_public_url",
           WA_HYDRA_INTERNAL_URL |-> "hydra_internal_url", WA_BFF_CLIENT_ID |-> "bff_client_id",
           WA_DEFAULT_REDIRECT_URI |-> "default_redirect_uri",
           WA_BFF_CLIENT_SECRET |-> "bff_client_secret",
           WA_HYDRA_REFRESH_TOKEN_TTL_SECS |-> "hydra_refresh_token_ttl_secs",
           WA_BFF_INTERNAL_API_KEY |-> "internal_api_key",
           WA_SESSION_COOKIE_NAME |-> "session_cookie_name",
           WA_RATE_LIMIT_MAX_ATTEMPTS |-> "rate_limit_max_attempts",
           WA_REDIRECT_URI_ALLOWLIST |-> "redirect_uri_allowlist",
           WA_TRUSTED_ORIGINS |-> "trusted_origins", WA_TRUSTED_PROXIES |-> "trusted_proxies"]

Here(port) == Url("http", "loopback", "")

bffDefault ==
    [port |-> 8080, internal_port |-> 8082, bff_url |-> Here(8080), hydra_public_url |-> Here(4444),
     hydra_internal_url |-> Here(4444), bff_client_id |-> "bff", bff_client_secret |-> "",
     default_redirect_uri |-> {}, hydra_refresh_token_ttl_secs |-> 1,
     redirect_uri_allowlist |-> {}, internal_api_key |-> "",
     session_cookie_name |-> CookieName(<<>>, "wa_session"), routes |-> <<>>,
     trusted_origins |-> {}, rate_limit_max_attempts |-> 10, rate_limit_proxy_max_attempts |-> 600,
     trusted_proxies |-> {}]

bffUser(d) == user_settings(d, TRUE, bffENV)
bffConfig(d) == extract(bffDefault, bffUser(d))

secure_cookies(config) == config.bff_url.scheme = "https"
cookie_name(config, name) ==
    IF secure_cookies(config) /\ ~has_prefix(name, "__Host-")
    THEN [name EXCEPT !.prefixes = <<"__Host-">> \o @]
    ELSE name
session_cookie(config) == cookie_name(config, config.session_cookie_name)
login_cookie(config) == cookie_name(config, LOGIN_COOKIE)
is_cookie_token(name) == name.rest \notin {"", "a b"}

(* Mutant: the names are compared as they are set.                         *)
cookies_accepted_as_set(config) ==
    /\ is_cookie_token(config.session_cookie_name)
    /\ config.session_cookie_name # LOGIN_COOKIE
    /\ ~secure_cookies(config) =>
          \A p \in {"__Host-", "__Secure-"} : ~has_prefix(config.session_cookie_name, p)

cookies_accepted(config) ==
    /\ is_cookie_token(config.session_cookie_name)
    /\ session_cookie(config) # login_cookie(config)
    /\ ~secure_cookies(config) =>
          \A p \in {"__Host-", "__Secure-"} : ~has_prefix(config.session_cookie_name, p)

(* No two routes on one prefix or on a path of bff's own, no prefix that   *)
(* is a pattern or climbs, and no token in the clear under prod.           *)
RESERVED_PREFIXES == {"/login", "/callback", "/logout", "/logged-out", "/health"}
is_route_prefix(prefix) == prefix \notin {"/a/../b", "/a/", "/{x}", "api"}
check_routes(routes, prod) ==
    \A i \in DOMAIN routes :
       /\ is_route_prefix(routes[i].path_prefix)
       /\ routes[i].path_prefix \notin RESERVED_PREFIXES
       /\ \A j \in DOMAIN routes : routes[i].path_prefix = routes[j].path_prefix => i = j
       /\ is_http(routes[i].upstream_url)
       /\ routes[i].upstream_url.tail \notin {"user@", "#"}
       /\ prod => https_or_loopback(routes[i].upstream_url)

check_redirect_uri_allowlist(uris, prod) ==
    /\ prod => uris # {}
    /\ \A uri \in uris : /\ is_http(uri) /\ uri.tail \notin {"user@", "#", " "}
                         /\ prod => uri.scheme = "https"

(* An origin as a browser writes it.                                       *)
origins_accepted(origins, prod) ==
    \A o \in origins : /\ o.host # "none" /\ o.scheme # "" /\ o.tail \in {"", "/"}
                       /\ prod => o.scheme = "https"

bff_load(d) ==
    LET user == bffUser(d)
        config == bffConfig(d)
        prod == Prod(user)
    IN  /\ ~d.unreadable
        /\ profile(user) \in Profiles
        /\ set_in_prod(user, {"hydra_public_url", "hydra_internal_url"})
        /\ require_https_in_prod(user, {config.bff_url, config.hydra_public_url}, {})
        /\ is_http(config.hydra_internal_url)
        /\ config.bff_client_id # "" /\ config.bff_client_secret # ""
        /\ config.internal_api_key # ""
        /\ prod => /\ key_is_long(config.internal_api_key)
                   /\ "committed" \notin {config.internal_api_key, config.bff_client_secret}
        /\ cookies_accepted(config)
        /\ check_routes(config.routes, prod)
        /\ config.hydra_refresh_token_ttl_secs \in 1..MAX_REFRESH_TOKEN_TTL_SECS
        /\ config.port # config.internal_port
        /\ check_redirect_uri_allowlist(config.redirect_uri_allowlist, prod)
        /\ config.default_redirect_uri # {} =>
              check_redirect_uri_allowlist(config.default_redirect_uri, prod)
        /\ limits_accepted(config)
        /\ proxies_accepted(user, config.trusted_proxies)
        /\ origins_accepted(config.trusted_origins, prod)

-----------------------------------------------------------------------------
(* login: the environment alone                                            *)

loginENV == [WA_PROFILE |-> "profile", WA_BFF_URL |-> "bff_url", WA_LOGIN_PORT |-> "port",
             WA_LOGIN_PUBLIC_URL |-> "own_origin", WA_DEFAULT_REDIRECT_URI |-> "default_redirect_uri",
             WA_DEFAULT_LOCALE |-> "default_locale", WA_KRATOS_PUBLIC_URL |-> "kratos_public_url",
             WA_HYDRA_ADMIN_URL |-> "hydra_admin_url", WA_BFF_CLIENT_ID |-> "bff_client_id",
             WA_KRATOS_SESSION_COOKIE |-> "kratos_session_cookie",
             WA_RATE_LIMIT_MAX_ATTEMPTS |-> "rate_limit_max_attempts",
             WA_TRUSTED_PROXIES |-> "trusted_proxies"]

loginDefault ==
    [port |-> 8081, bff_url |-> Here(8080), own_origin |-> Here(8081), default_redirect_uri |-> {},
     default_locale |-> <<"en">>, kratos_public_url |-> Here(4433), hydra_admin_url |-> Here(4445),
     bff_client_id |-> "bff", kratos_session_cookie |-> "ory_kratos_session",
     rate_limit_max_attempts |-> 10, rate_limit_proxy_max_attempts |-> 600, trusted_proxies |-> {}]

loginUser(d) == user_settings(d, FALSE, loginENV)
(* An empty default destination counts as unset.                           *)
loginConfig(d) ==
    LET config == extract(loginDefault, loginUser(d))
    IN  [config EXCEPT !.default_redirect_uri = @ \ {Empty}]

login_load(d) ==
    LET user == loginUser(d)
        config == loginConfig(d)
    IN  /\ profile(user) \in Profiles
        /\ set_in_prod(user, {"kratos_public_url", "hydra_admin_url"})
        /\ require_https_in_prod(user, {config.bff_url} \cup config.default_redirect_uri,
                                 {config.own_origin})
        /\ \A uri \in config.default_redirect_uri : uri.scheme \in {"http", "https"}
        /\ config.kratos_session_cookie \notin {"", "a b"}
        /\ limits_accepted(config)
        /\ proxies_accepted(user, config.trusted_proxies)
        /\ config.own_origin.scheme # "" /\ is_http(config.kratos_public_url)
        /\ is_http(config.hydra_admin_url)
        /\ Lang!load(d.locales, config.default_locale)

-----------------------------------------------------------------------------
(* hooks                                                                   *)

hooksENV == [WA_PROFILE |-> "profile", WA_HOOKS_PORT |-> "port", WA_HOOKS_API_KEY |-> "hooks_api_key",
             WA_KRATOS_ADMIN_URL |-> "kratos_admin_url", WA_HYDRA_ADMIN_URL |-> "hydra_admin_url",
             WA_BFF_INTERNAL_URL |-> "bff_internal_url",
             WA_BFF_INTERNAL_API_KEY |-> "bff_internal_api_key"]

hooksDefault ==
    [port |-> 1983, hooks_api_key |-> "", kratos_admin_url |-> Here(4434),
     hydra_admin_url |-> Here(4445), bff_internal_url |-> Here(8082), bff_internal_api_key |-> "",
     handlers |-> {}, profile_apis |-> {}, request_timeout_secs |-> 30, upstream_timeout_secs |-> 10]

hooksUser(d) == user_settings(d, TRUE, hooksENV)
hooksConfig(d) == extract(hooksDefault, hooksUser(d))

validate(config) ==
    /\ \A url \in {config.kratos_admin_url, config.hydra_admin_url, config.bff_internal_url} : is_http(url)
    /\ \A url \in {h.url : h \in config.handlers} \cup config.profile_apis : https_or_loopback(url)
    /\ config.request_timeout_secs > 0 /\ config.upstream_timeout_secs > 0
    /\ 2 * config.upstream_timeout_secs < config.request_timeout_secs
    /\ \A h \in config.handlers :
          h.timeout_secs > 0 /\ 2 * h.timeout_secs <= config.request_timeout_secs

require_api_keys(config) == "" \notin {config.hooks_api_key, config.bff_internal_api_key}

hooks_load(d) ==
    LET user == hooksUser(d)
        config == hooksConfig(d)
    IN  /\ ~d.unreadable
        /\ profile(user) \in Profiles
        /\ set_in_prod(user, {"kratos_admin_url", "hydra_admin_url", "bff_internal_url"})
        /\ Prod(user) => config.hooks_api_key = "" \/ key_is_long(config.hooks_api_key)
        /\ validate(config)
        /\ require_api_keys(config)

-----------------------------------------------------------------------------
(* What the rest of the system takes for granted of the settings it serves *)
(* with, whichever way they were set.                                      *)

(* A browser keeps both of bff's cookies, and bff can tell them apart.     *)
Kept(config, name) ==
    has_prefix(name, "__Host-") \/ has_prefix(name, "__Secure-") => secure_cookies(config)
CookiesWork(bff) ==
    /\ Kept(bff, session_cookie(bff)) /\ Kept(bff, login_cookie(bff))
    /\ session_cookie(bff) # login_cookie(bff)

(* A hook answers before Kratos and Hydra stop waiting (Registration's     *)
(* TimeoutAssumption), with what it calls under a cap of its own.          *)
HooksFit(hooks) ==
    /\ 2 * hooks.upstream_timeout_secs < hooks.request_timeout_secs
    /\ \A h \in hooks.handlers : h.timeout_secs > 0 /\ 2 * h.timeout_secs <= hooks.request_timeout_secs

(* Each of bff's and login's addresses is its own, and each prefix leads   *)
(* to one upstream.                                                        *)
OneOfEach(bff, login, hooks) ==
    /\ Cardinality({bff.port, bff.internal_port, login.port, hooks.port}) = 4
    /\ \A i, j \in DOMAIN bff.routes :
          bff.routes[i].path_prefix = bff.routes[j].path_prefix => i = j

(* Under prod no cookie is sent in the clear or planted by a sibling, no   *)
(* browser is sent to a page anybody on the way can change, and no range   *)
(* of more than 2^24 IPv4 clients picks its own address.                   *)
ProdIsClosed(bff, login) ==
    /\ secure_cookies(bff) /\ has_prefix(session_cookie(bff), "__Host-")
    /\ \A url \in {login.own_origin, bff.hydra_public_url} \cup bff.redirect_uri_allowlist
                      \cup bff.default_redirect_uri \cup login.default_redirect_uri
                      \cup bff.trusted_origins : url.scheme = "https"
    /\ \A net \in ip_nets(bff.trusted_proxies \cup login.trusted_proxies) :
          net.family = "v4" => net.prefix_len >= 8

Sound(d) ==
    LET bff == bffConfig(d)
        login == loginConfig(d)
        hooks == hooksConfig(d)
    IN  /\ CookiesWork(bff) /\ HooksFit(hooks) /\ OneOfEach(bff, login, hooks)
        /\ "" \notin {bff.internal_api_key, hooks.hooks_api_key, hooks.bff_internal_api_key}
        /\ Prod(bffUser(d)) => ProdIsClosed(bff, login)
=============================================================================
