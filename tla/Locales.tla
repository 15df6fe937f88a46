------------------------------- MODULE Locales -------------------------------
(***************************************************************************)
(* login's translations (login/src/i18n.rs): the language files, what a    *)
(* deployer may write in them, the language a visitor is answered in, and  *)
(* the text for what Kratos says.                                          *)
(*                                                                         *)
(* A tag is the sequence of its subtags.  A template keeps the names it    *)
(* wants filled in and whether its braces close; a text keeps the language *)
(* and the key it was found under, Kratos' own having neither.             *)
(***************************************************************************)
EXTENDS Naturals, Sequences, FiniteSets, FiniteSetsExt

CONSTANTS MAX_TAG_LEN, MAX_LANGUAGE_TAGS

(* The keys login has a text for, with and without values to fill in.      *)
MessageKeys == {"InvalidCredentials", "MinLength", "Unknown"}
LabelKeys == {"Submit", "LoginWith", "RegistrationContinue"}
CONTEXT_NAMES(key) ==
    CASE key = "MinLength" -> {"min_length", "actual_length"}
      [] key = "LoginWith" -> {"provider"}
      [] OTHER -> {}

Template(names, closed) == [names |-> names, closed |-> closed]
Locale(messages, labels, fields) ==
    [messages |-> messages, labels |-> labels, fields |-> fields]

-----------------------------------------------------------------------------
(* Loading                                                                 *)

placeholders_fit(texts, allowed(_)) ==
    \A key \in DOMAIN texts : texts[key].closed /\ texts[key].names \subseteq allowed(key)

check_keys(locale) ==
    /\ DOMAIN locale.messages \subseteq MessageKeys
    /\ DOMAIN locale.labels \subseteq LabelKeys
    /\ placeholders_fit(locale.messages, CONTEXT_NAMES)
    /\ placeholders_fit(locale.labels, CONTEXT_NAMES)
    /\ placeholders_fit(locale.fields, LAMBDA key : {"title", "name"})

check_complete(locale) ==
    MessageKeys \subseteq DOMAIN locale.messages /\ LabelKeys \subseteq DOMAIN locale.labels

(* Files of one tag in two cases are two of the same tag.                  *)
load(files, default) ==
    /\ \A f \in files : Len(f.tag) \in 1..MAX_TAG_LEN /\ check_keys(f.locale)
    /\ \A f, g \in files : f.tag = g.tag => f = g
    /\ \E f \in files : f.tag = default /\ check_complete(f.locale)

Catalog(files, default) ==
    [default |-> default,
     locales |-> [tag \in {f.tag : f \in files} |-> (CHOOSE f \in files : f.tag = tag).locale]]

-----------------------------------------------------------------------------
(* The language of an answer                                               *)

NoTag == <<>>

(* The loaded language for a tag, or for the tag with its last subtags     *)
(* dropped.                                                                *)
matching(catalog, tag) ==
    LET loaded == {n \in 1..Len(tag) : SubSeq(tag, 1, n) \in DOMAIN catalog.locales}
    IN  IF Len(tag) > MAX_TAG_LEN \/ loaded = {} THEN NoTag ELSE SubSeq(tag, 1, Max(loaded))

LookedAt(tags) == DOMAIN tags \cap 1..MAX_LANGUAGE_TAGS

(* The cookies in their order, then Accept-Language, best first and those  *)
(* of one quality in their order.                                          *)
language_cookies(catalog, headers) ==
    {i \in LookedAt(headers.cookies) : matching(catalog, headers.cookies[i]) # NoTag}
accepted_tags(catalog, headers) ==
    {i \in LookedAt(headers.accepted) : /\ headers.accepted[i].q > 0
                                        /\ matching(catalog, headers.accepted[i].tag) # NoTag}

negotiate(catalog, headers) ==
    LET cookies == language_cookies(catalog, headers)
        accepted == accepted_tags(catalog, headers)
        q(i) == headers.accepted[i].q
        best == CHOOSE i \in accepted : \A j \in accepted : q(i) > q(j) \/ (q(i) = q(j) /\ i <= j)
    IN  CASE cookies # {} -> matching(catalog, headers.cookies[Min(cookies)])
          [] cookies = {} /\ accepted # {} -> matching(catalog, headers.accepted[best].tag)
          [] OTHER -> catalog.default

-----------------------------------------------------------------------------
(* The text for what Kratos says                                           *)

Text(language, of) == [language |-> language, of |-> of]
Nothing == Text(NoTag, "nothing")
Kratos == Text(NoTag, "kratos")

(* A template can be filled in when Kratos sent each value it wants.       *)
fill(template, context) == template.closed /\ template.names \subseteq context

find(catalog, language, section, key, context) ==
    LET has(l) == LET texts == catalog.locales[l][section]
                  IN  key \in DOMAIN texts /\ fill(texts[key], context)
    IN  CASE has(language) -> Text(language, key)
          [] ~has(language) /\ has(catalog.default) -> Text(catalog.default, key)
          [] OTHER -> Nothing

from_id(keys, id) == IF id \in keys THEN id ELSE "Unknown"

message(catalog, language, said) ==
    LET own == find(catalog, language, "messages", from_id(MessageKeys, said.id), said.context)
    IN  IF own # Nothing THEN own ELSE find(catalog, language, "messages", "Unknown", {})

label(catalog, language, said) ==
    LET own == find(catalog, language, "labels", said.id, said.context)
    IN  IF said.id \notin LabelKeys \/ own = Nothing THEN Kratos ELSE own

(* A trait's label is found by the trait's name.                           *)
field_label(catalog, language, said) ==
    LET own == find(catalog, language, "fields", said.trait, said.context)
    IN  IF said.id # "Generated" THEN label(catalog, language, said)
        ELSE IF own # Nothing THEN own ELSE Kratos
=============================================================================
