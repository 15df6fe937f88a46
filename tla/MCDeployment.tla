---------------------------- MODULE MCDeployment ----------------------------
(* An instance of Deployment: a working prod and a working dev deployment, *)
(* each with one deviation, or two that meet; requests of up to two fields *)
(* and a flow of every page.                                               *)
EXTENDS Deployment, TLC

-----------------------------------------------------------------------------
(* Settings                                                                *)
Https(tail) == Url("https", "app", tail)
Http(tail) == Url("http", "app", tail)
Route(prefix, url) == [path_prefix |-> prefix, upstream_url |-> url]
Handler(url, secs) == [url |-> url, timeout_secs |-> secs]

Whole(keys) == [k \in keys |-> Lang!Template(Lang!CONTEXT_NAMES(k), TRUE)]
English == Lang!Locale(Whole(Lang!MessageKeys), Whole(Lang!LabelKeys), <<>>)
Swedish == Lang!Locale(Whole({"InvalidCredentials"}), Whole({"LoginWith"}),
                       [email |-> Lang!Template({"title"}, TRUE)])
In(tag, locale) == [tag |-> tag, locale |-> locale]
Shipped == {In(<<"en">>, English), In(<<"sv">>, Swedish), In(<<"sv", "fi">>, Swedish)}

Change(env, file) == [env |-> env, file |-> file, drop |-> {}, locales |-> Shipped, unreadable |-> FALSE]
Env(var, value) == Change(var :> value, <<>>)
File(key, value) == Change(<<>>, key :> value)
Without(var) == [Change(<<>>, <<>>) EXCEPT !.drop = {var}]
Translated(files) == [Change(<<>>, <<>>) EXCEPT !.locales = files]
NoChange == Change(<<>>, <<>>)
Both(c, e) == [c EXCEPT !.env = e.env @@ @, !.file = e.file @@ @]

Prefixed(prefix, rest) == CookieName(<<prefix>>, rest)
Changes ==
    <<NoChange,
      Env("WA_PROFILE", "prod"), Env("WA_PROFILE", "dev"), Env("WA_PROFILE", "staging"),
      Without("WA_PROFILE"), File("profile", "dev"),
      Env("WA_BFF_URL", Http("")), Env("WA_LOGIN_PUBLIC_URL", Https("/path")),
      Env("WA_LOGIN_PUBLIC_URL", Http("")), Env("WA_HYDRA_PUBLIC_URL", Http("")),
      Env("WA_HYDRA_INTERNAL_URL", Empty), Without("WA_HYDRA_INTERNAL_URL"),
      Without("WA_HYDRA_ADMIN_URL"), Without("WA_KRATOS_PUBLIC_URL"), Without("WA_KRATOS_ADMIN_URL"),
      Env("WA_KRATOS_PUBLIC_URL", Https("")),
      Env("WA_BFF_CLIENT_SECRET", "committed"), Env("WA_BFF_INTERNAL_API_KEY", "short"),
      Env("WA_BFF_INTERNAL_API_KEY", ""), Env("WA_HOOKS_API_KEY", ""), Env("WA_HOOKS_API_KEY", "short"),
      Env("WA_SESSION_COOKIE_NAME", LOGIN_COOKIE), Env("WA_SESSION_COOKIE_NAME", CookieName(<<>>, "a b")),
      Env("WA_SESSION_COOKIE_NAME", Prefixed("__Host-", "wa_login")),
      Env("WA_SESSION_COOKIE_NAME", Prefixed("__Host-", "wa_session")),
      Env("WA_SESSION_COOKIE_NAME", Prefixed("__Secure-", "wa_session")),
      Env("WA_REDIRECT_URI_ALLOWLIST", {}), Env("WA_REDIRECT_URI_ALLOWLIST", {Http("")}),
      Env("WA_REDIRECT_URI_ALLOWLIST", {Https("user@")}),
      Env("WA_DEFAULT_REDIRECT_URI", {Https("")}), Env("WA_DEFAULT_REDIRECT_URI", {Http("")}),
      Env("WA_DEFAULT_REDIRECT_URI", {Empty}),
      Env("WA_TRUSTED_ORIGINS", {Https("/")}), Env("WA_TRUSTED_ORIGINS", {Http("")}),
      Env("WA_TRUSTED_ORIGINS", {Https("/path")}),
      Env("WA_TRUSTED_PROXIES", {Net("v4", 8)}), Env("WA_TRUSTED_PROXIES", {Net("v4", 7)}),
      Env("WA_TRUSTED_PROXIES", {Net("mapped", 103)}), Env("WA_TRUSTED_PROXIES", {Net("mapped", 104)}),
      Env("WA_TRUSTED_PROXIES", {Net("v6", 31)}), Env("WA_TRUSTED_PROXIES", {Net("junk", 0)}),
      Env("WA_HYDRA_REFRESH_TOKEN_TTL_SECS", 0),
      Env("WA_HYDRA_REFRESH_TOKEN_TTL_SECS", MAX_REFRESH_TOKEN_TTL_SECS + 1),
      Env("WA_RATE_LIMIT_MAX_ATTEMPTS", 0),
      Env("WA_BFF_PORT", 8082), Env("WA_LOGIN_PORT", 8080), File("port", 9000), File("internal_port", 1983),
      File("routes", <<Route("/api", Http(""))>>),
      File("routes", <<Route("/api", Https("")), Route("/api", Https("/v2"))>>),
      File("routes", <<Route("/login", Https(""))>>), File("routes", <<Route("/a/../b", Https(""))>>),
      File("handlers", {Handler(Http(""), 10)}), File("handlers", {Handler(Https(""), 16)}),
      File("handlers", {Handler(Https(""), 15)}), File("profile_apis", {Http("")}),
      File("upstream_timeout_secs", 15), File("request_timeout_secs", 20),
      File("upstream_timeout_secs", 0),
      [NoChange EXCEPT !.unreadable = TRUE],
      Both(Env("WA_BFF_URL", Http("")), Env("WA_PROFILE", "dev")),
      Both(Env("WA_PROFILE", "dev"), Env("WA_SESSION_COOKIE_NAME", Prefixed("__Host-", "wa_session"))),
      Both(Env("WA_BFF_URL", Https("")), Env("WA_SESSION_COOKIE_NAME", Prefixed("__Host-", "wa_login"))),
      Both(Without("WA_PROFILE"), File("profile", "dev")),
      Both(File("port", 9000), Env("WA_BFF_PORT", 9001)),
      Both(File("upstream_timeout_secs", 9), File("request_timeout_secs", 19)),
      Env("WA_DEFAULT_LOCALE", <<"sv">>), Env("WA_DEFAULT_LOCALE", <<"fi">>),
      Translated({In(<<"en">>, English), In(<<"sv">>, English), In(<<"sv">>, Swedish)}),
      Translated({In(<<"en">>, English), In(<<"a", "b", "c", "d">>, Swedish)}),
      Translated({In(<<"en">>, English),
                  In(<<"sv">>, [Swedish EXCEPT !.messages = [Unknown |-> Lang!Template({"provider"}, TRUE)]])}),
      Translated({In(<<"en">>, English),
                  In(<<"sv">>, [Swedish EXCEPT !.labels = [LoginWith |-> Lang!Template({"provider"}, FALSE)]])})>>

Production ==
    [env |-> [WA_PROFILE |-> "prod", WA_BFF_URL |-> Https(""), WA_LOGIN_PUBLIC_URL |-> Https(""),
              WA_HYDRA_PUBLIC_URL |-> Https(""), WA_HYDRA_INTERNAL_URL |-> Http(""),
              WA_HYDRA_ADMIN_URL |-> Http(""), WA_KRATOS_PUBLIC_URL |-> Http(""),
              WA_KRATOS_ADMIN_URL |-> Http(""), WA_BFF_INTERNAL_URL |-> Http(""),
              WA_BFF_CLIENT_SECRET |-> "long", WA_BFF_INTERNAL_API_KEY |-> "long",
              WA_HOOKS_API_KEY |-> "long", WA_REDIRECT_URI_ALLOWLIST |-> {Https("")}],
     file |-> [routes |-> <<Route("/api", Https(""))>>]]
Development ==
    [env |-> [WA_PROFILE |-> "dev", WA_BFF_CLIENT_SECRET |-> "committed",
              WA_BFF_INTERNAL_API_KEY |-> "committed", WA_HOOKS_API_KEY |-> "short"],
     file |-> [redirect_uri_allowlist |-> {Http("")}]]

Changed(base, c) ==
    LET env == c.env @@ base.env
    IN  [env |-> [v \in DOMAIN env \ c.drop |-> env[v]], file |-> c.file @@ base.file,
         unreadable |-> c.unreadable, locales |-> c.locales]

MCDeployments ==
    [n \in {"prod", "dev"} \X DOMAIN Changes |->
       Changed(IF n[1] = "prod" THEN Production ELSE Development, Changes[n[2]])]
MCWatched == {<<"prod", 1>>}

-----------------------------------------------------------------------------
(* Requests                                                                *)
MCNetwork == [a \in Hosts \cup Proxies |-> IF a \in {"h1", "h2"} THEN "net" ELSE a]
MCForgeries ==
    {<<>>} \cup {<<Entry(a, "bare")>> : a \in Hosts \cup Proxies}
           \cup {<<Entry("h1", "unreadable")>>, <<Entry("h1", "bare"), Entry("p", "port")>>}

Field(key, spelled, value) == [key |-> key, spelled |-> spelled, value |-> value]
Fields ==
    {Field("method", "plain", v) : v \in {"password", "code", "7"}}
    \cup {Field("identifier", "plain", v) : v \in {"alice", "ALICE", "bob", " ", "7"}}
    \cup {Field("password_identifier", "plain", "bob"), Field("identifier", "case", "bob"),
          Field("identifier", "folded", "bob"), Field("method", "case", "code"),
          Field("traits", "plain", "x")}
MCBodies == UNION {[1..n -> Fields] : n \in 0..2}

MCSegments == {[what |-> "plain", layers |-> 0]}
              \cup ([what: {"dots", "slash"}, layers: 0..3] \ {[what |-> "slash", layers |-> 0]})

-----------------------------------------------------------------------------
(* Pages                                                                   *)
Text(id, context) == Page!Said(id, context, "none")
Trait == Page!Said("Generated", {"title"}, "email")
Unsaid(group, kind) == Page!Input(group, kind, "filled", Text("none", {}))
Csrf == Unsaid("default", "hidden")
InputOf(group, state) == Page!Input(group, "field", state, Trait)
Button(group, id) == Page!Input(group, "submit", "filled", Text(id, {"provider"}))
Leading(group, kind, target) == Page!Node(group, kind, "filled", Text("none", {}), target)
Own(scheme) == Page!Address(scheme, "own")
OfKratos(scheme) == Page!Address(scheme, "kratos")
Elsewhere(scheme) == Page!Address(scheme, "elsewhere")

States == {"empty", "filled", "wrong"}
Schemes == {"https", "http", "//"}

Password == {InputOf("password", "empty"), Button("password", "Submit")}
Passkey(address) ==
    {Unsaid("passkey", "hidden"), Button("passkey", "Submit"), Leading("webauthn", "script", address)}
Social == {Button("oidc", "LoginWith")}

Nodes(page) ==
    CASE page = "login" ->
            {{Csrf, InputOf("default", s), InputOf("password", t), Button("password", "Submit")} \cup rest :
                s \in States, t \in {"empty", "wrong"},
                rest \in {{}, Social, Social \cup Passkey(OfKratos("http"))}}
            \cup {{Csrf, Leading("passkey", "a", address)} \cup Passkey(script) :
                     address \in {Page!Path, Page!Address("javascript", "none")}
                              \cup UNION {{Own(s), OfKratos(s), Elsewhere(s)} : s \in Schemes},
                     script \in {Own("https"), OfKratos("http"), Elsewhere("//")}}
      [] page = "registration" ->
            {{Csrf, InputOf("default", s), [InputOf("default", t) EXCEPT !.said.trait = "name"]} \cup rest :
                s, t \in States,
                rest \in {{Button("oidc", "RegistrationContinue")},
                          {Button("profile", "Submit")} \cup Social}}
            \cup {{Csrf, Unsaid("default", "hidden"), Button("profile", "none")} \cup Password
                    \cup Passkey(script) \cup rest :
                     script \in {Page!Path, OfKratos("https")}, rest \in {{}, Social}}
      [] page \in {"recovery", "verification"} ->
            {{Csrf, InputOf("code", s), Button("code", id)} \cup rest :
                s \in States, id \in {"Submit", "none"},
                rest \in {{}, {Unsaid("code", "hidden"), Button("code", "New")}}}
      [] OTHER ->
            {{Csrf, InputOf("profile", s), Button("profile", "Submit"), Leading("oidc", "img", image)}
             \cup Password \cup Passkey(Own("https")) \cup rest :
                s \in States, image \in {Page!Address("data", "none"), Elsewhere("https")},
                rest \in {{}, Social}}

Flow(page, request, action, nodes, messages) ==
    [page |-> page, request |-> request, action |-> action, nodes |-> nodes, messages |-> messages]
MCFlows ==
    UNION {{Flow(page, "other", Own(s), nodes, {}) : s \in {"https", "http"}, nodes \in Nodes(page)} :
              page \in {"login", "registration", "recovery", "verification", "settings"}}
    \cup {Flow("settings", "recovery", Own("https"), nodes, {}) : nodes \in Nodes("settings")}
    \cup {Flow("login", "other", action, {Csrf, InputOf("password", "wrong"), Button("password", "LoginWith")}, said) :
             action \in {OfKratos("http"), Elsewhere("https")},
             said \in SUBSET {Text("MinLength", {"min_length", "actual_length"}),
                              Text("MinLength", {"min_length"}), Text("New", {})}}

Tags == {<<"sv">>, <<"sv", "se">>, <<"xx">>}
MCHeaders ==
    [cookies: {<<>>, <<(<<"sv", "fi", "x">>)>>, <<(<<"xx">>), (<<"sv">>)>>}, accepted: {<<>>}]
    \cup [cookies: {<<>>}, accepted: {<<[tag |-> t, q |-> p], [tag |-> <<"en", "gb">>, q |-> 1]>> :
                                        t \in Tags, p \in 0..2}]
=============================================================================
