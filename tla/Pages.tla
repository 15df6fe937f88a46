-------------------------------- MODULE Pages --------------------------------
(***************************************************************************)
(* A page of login (login/src/render.rs, templates/pages): the flow Kratos *)
(* sent, put into forms by the page's template and into the visitor's      *)
(* language by Locales.                                                    *)
(***************************************************************************)
EXTENDS Locales

VARIABLE call      \* the request being handled, or how far it came

(* An address as it is written: a path of this host, an image in itself, a *)
(* URL with its scheme and host ("//host/..." takes the page's scheme), or *)
(* "javascript".                                                           *)
Address(scheme, host) == [scheme |-> scheme, host |-> host]
Path == Address("path", "own")
Nowhere == Address("none", "none")

(* A node of a flow: a field is empty, filled, or has Kratos' complaint;   *)
(* `target` is where a script, an image or a link leads.                   *)
Node(group, kind, state, said, target) ==
    [group |-> group, kind |-> kind, state |-> state, said |-> said, target |-> target]
Input(group, kind, state, said) == Node(group, kind, state, said, Nowhere)
Said(id, context, trait) == [id |-> id, context |-> context, trait |-> trait]

is_hidden_default(node) == node.group = "default" /\ node.kind = "hidden"
is_settled_field(node) == node.group = "default" /\ node.kind = "field" /\ node.state = "filled"

(* Mutant: a form has the nodes of its groups and no others.               *)
chosen_of_groups(flow, groups, missing_only) ==
    {n \in flow.nodes : n.group \in groups /\ ~(missing_only /\ is_settled_field(n))}

(* The nodes of some groups as one form, without its scripts; with no node *)
(* to show it is left out.                                                 *)
chosen(flow, groups, missing_only) ==
    {n \in flow.nodes : /\ n.group \in groups \/ is_hidden_default(n)
                        /\ ~(missing_only /\ is_settled_field(n))}
form(flow, groups, missing_only) ==
    LET nodes == chosen(flow, groups, missing_only)
    IN  IF \E n \in nodes : n.kind \notin {"hidden", "script", "unknown"}
        THEN {n \in nodes : n.kind # "script"} ELSE {}

(* A social sign-up that misses traits, and settings after a recovery.     *)
continuing(flow) == \E n \in flow.nodes : n.group = "oidc" /\ n.said.id = "RegistrationContinue"
recovering(flow) == flow.request = "recovery"

(* Mutant: the settings page without the form of a method Kratos offers.   *)
EachButPasskey(groups) == {{g} : g \in groups \ {"passkey"}}

Each(groups) == {{g} : g \in groups}
Groups(flow) ==
    CASE flow.page = "login" -> {{"default", "password"}, {"passkey", "webauthn"}, {"oidc"}}
      [] flow.page = "registration" ->
            IF continuing(flow) THEN {{"default", "oidc"}}
            ELSE {{"default", "profile", "password"}, {"passkey", "webauthn"}, {"oidc"}}
      [] flow.page \in {"recovery", "verification"} -> {{"default", "code"}}
      [] flow.page = "settings" ->
            IF recovering(flow) THEN {{"password"}}
            ELSE Each({"profile", "password", "oidc", "passkey", "webauthn", "totp", "lookup_secret"})

only_missing(flow) == flow.page = "registration" /\ continuing(flow)
forms(flow) == {form(flow, g, only_missing(flow)) : g \in Groups(flow)} \ {{}}
scripts(flow) ==
    {n \in UNION {chosen(flow, g, only_missing(flow)) : g \in Groups(flow)} : n.kind = "script"}

-----------------------------------------------------------------------------
(* Addresses.  `rules` has the schemes of this host and of Kratos, which   *)
(* the proxy serves on this host.                                          *)
https_only(rules) == rules.own = "https"

(* Parsed against this host, the address is this host's or Kratos'.        *)
local(target, rules) ==
    LET scheme == IF target.scheme = "//" THEN rules.own ELSE target.scheme
    IN  \/ target.scheme = "path"
        \/ target.host = "own" /\ scheme = rules.own
        \/ target.host = "kratos" /\ scheme = rules.kratos

(* Mutant: this host and Kratos may be linked to whatever their scheme.    *)
is_web_url_anywhere(target, rules) ==
    \/ target.scheme \in {"path", "https"} \/ target.host \in {"own", "kratos"}
    \/ target.scheme = "http" /\ ~https_only(rules)

is_web_url(target, rules) ==
    \/ target.scheme \in {"path", "https"}
    \/ target.scheme = "http" /\ ~https_only(rules)

(* Where a node leads as it stands in the page: a script's address is made *)
(* a path of this host, an image's and a link's is left as it was sent.    *)
Rendered(node, rules) ==
    CASE node.kind = "script" /\ local(node.target, rules) -> Path
      [] node.kind = "img" /\ node.target.scheme \in {"path", "data"} -> node.target
      [] node.kind = "a" /\ is_web_url(node.target, rules) -> node.target
      [] OTHER -> Nowhere

(* What a button says: its label, or the value or name it posts.           *)
Worded(catalog, language, node) ==
    CASE node.kind = "submit" /\ node.said.id = "none" -> Kratos
      [] node.kind = "a" -> label(catalog, language, node.said)
      [] OTHER -> field_label(catalog, language, node.said)

(* A flow whose form could not be posted to this host has no page.         *)
Render(flow, headers, catalog, rules) ==
    LET language == negotiate(catalog, headers)
    IN  call' = IF forms(flow) # {} /\ ~local(flow.action, rules) THEN [at |-> "no page"]
                ELSE [at |-> "visited", flow |-> flow, forms |-> forms(flow), language |-> language,
                      default |-> catalog.default, rules |-> rules,
                      messages |-> [m \in flow.messages |-> message(catalog, language, m)],
                      labels |-> [n \in UNION forms(flow) |-> Worded(catalog, language, n)],
                      leads |-> [n \in scripts(flow) \cup UNION forms(flow) |-> Rendered(n, rules)]]

-----------------------------------------------------------------------------
(* What Kratos takes and sends, as this stack configures it.               *)

(* The methods Kratos has enabled, in the flows that have a use for them:  *)
(* codes sign nobody in.  A registration takes the traits first.           *)
Methods(flow) ==
    CASE flow.page = "login" -> {"password", "passkey", "oidc"}
      [] flow.page \in {"registration", "settings"} -> {"profile", "password", "passkey", "oidc"}
      [] flow.page \in {"recovery", "verification"} -> {"code"}

(* A provider gives the traits; what it left out is asked for, and posted  *)
(* when the sign-up continues.  Who signs in by passkey or provider need   *)
(* not say who that is.                                                    *)
TakesDefault(flow, method) ==
    CASE flow.page = "login" -> method = "password"
      [] flow.page = "registration" -> (method = "oidc" => continuing(flow))
      [] OTHER -> TRUE

(* What a visitor who uses a method posts: the inputs of its group and of  *)
(* `default`.                                                              *)
Submission(flow, method) ==
    {n \in flow.nodes :
        \/ n.kind \in {"hidden", "field", "submit"} /\ n.group = method
        \/ n.kind = "hidden" /\ n.group = "default"
        \/ /\ n.kind = "field" /\ n.group = "default" /\ TakesDefault(flow, method)
           /\ continuing(flow) => n.state # "filled"}

(* Those a visitor has a button for; after a recovery login asks for the   *)
(* new password alone.                                                     *)
Offered(flow) ==
    {m \in Methods(flow) : /\ \E n \in flow.nodes : n.kind = "submit" /\ n.group = m
                           /\ flow.page = "settings" /\ recovering(flow) => m = "password"}

(* Kratos' flows: inputs of the enabled methods, and a CSRF token.  The    *)
(* traits are asked for in the first of two steps, in settings as a method *)
(* of their own; passkeys have a script.                                   *)
KratosSends(flow) ==
    /\ flow.page \in {"login", "registration", "recovery", "verification", "settings"}
    /\ \E token \in flow.nodes : is_hidden_default(token)
    /\ \A n \in flow.nodes :
          /\ n.kind \in {"hidden", "field", "submit"} => n.group \in Methods(flow) \cup {"default"}
          /\ n.kind = "script" => n.group = "webauthn"
          /\ continuing(flow) => flow.page = "registration" /\ n.group \in {"default", "oidc"}
          /\ n.kind = "field" /\ n.group = "default" =>
                /\ flow.page # "settings"
                /\ flow.page = "registration" => "passkey" \notin Offered(flow)

-----------------------------------------------------------------------------
(* Properties                                                              *)

(* With any translations login starts with, what Kratos says is told: in   *)
(* the visitor's language or the default one, never in Kratos' words, and  *)
(* as itself whenever Kratos sends the values it is known to send; a       *)
(* button login has a text for is in one of those languages too            *)
(* (i18n.rs:14-17, 294-352).                                               *)
AlwaysInTheVisitorsWords ==
    call.at = "visited" =>
       /\ \A m \in DOMAIN call.messages :
             LET text == call.messages[m]
                 key == from_id(MessageKeys, m.id)
             IN  /\ text.language \in {call.language, call.default} \ {NoTag}
                 /\ CONTEXT_NAMES(key) \subseteq m.context => text.of = key
       /\ \A n \in DOMAIN call.labels :
             n.said.id \in LabelKeys /\ CONTEXT_NAMES(n.said.id) \subseteq n.said.context =>
                call.labels[n].language \in {call.language, call.default} \ {NoTag}

(* Whichever of Kratos' methods a visitor uses, one form of the page posts *)
(* all it takes: its fields, what Kratos put beside them, the CSRF token   *)
(* and the button; with a passkey the page has the script that fills them  *)
(* in (render.rs:340-355, templates/pages).                                *)
NoFieldIsStranded ==
    call.at = "visited" =>
       \A m \in Offered(call.flow) :
          /\ \E f \in call.forms : Submission(call.flow, m) \subseteq f
          /\ m = "passkey" => \A n \in call.flow.nodes :
                n.kind = "script" /\ local(n.target, call.rules) =>
                   n \in DOMAIN call.leads /\ call.leads[n] = Path

OfThisStack(target) == target.scheme = "path" \/ target.host \in {"own", "kratos"}

(* A page posts to this host, for itself or for Kratos, and runs scripts   *)
(* of those two alone; nothing it links to runs one, and one on https      *)
(* links to no address in the clear, Kratos' own included                  *)
(* (render.rs:150-192, 360-364, 599-670).                                  *)
StaysWithThisHost ==
    call.at = "visited" =>
       /\ call.forms # {} => OfThisStack(call.flow.action)
       /\ \A n \in DOMAIN call.leads :
             LET shown == call.leads[n]
             IN  /\ n.kind = "a" => shown.scheme \in {"none", "path", "https", "http"}
                 /\ n.kind # "a" => shown.scheme \in {"none", "path", "data"}
                 /\ n.kind = "script" /\ shown = Path => OfThisStack(n.target)
                 /\ call.rules.own = "https" => shown.scheme # "http"

PagesInv == AlwaysInTheVisitorsWords /\ NoFieldIsStranded /\ StaysWithThisHost
=============================================================================
