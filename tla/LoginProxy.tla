----------------------------- MODULE LoginProxy -----------------------------
(***************************************************************************)
(* How login forwards a submission to Kratos (login/src/proxy.rs).  It     *)
(* reads the path and the body itself, to count the password attempt in    *)
(* them (LoginThrottle), and Kratos reads both again in its own way.       *)
(***************************************************************************)
EXTENDS Naturals, Sequences, FiniteSets

CONSTANTS Bodies,     \* sequences of fields
          NoOne       \* stands for no identifier

VARIABLE call         \* the request being handled, or how far it came

(* A path leads to Kratos' login submit or elsewhere, spelled plainly or   *)
(* in one of the ways that hide it; a key is spelled plainly, in another   *)
(* case, or with a letter that folds to ASCII.                             *)
Paths == [to: {"login", "other"},
          spelling: {"plain", "percent", "double", "dots", "api", "slash", "case"}]
Encodings == {"form", "json", "multipart"}
IdentifierKeys == {"identifier", "password_identifier"}

is_clean_path(path) == path.spelling \notin {"percent", "double", "dots"}
is_native_api_path(path) == path.spelling = "api"
is_login_submit_variant(path) == path.to = "login" /\ path.spelling \in {"slash", "case"}
is_login_submit(path) == path = [to |-> "login", spelling |-> "plain"]

(* The values a body has under some keys, spelled in some ways.            *)
Under(body, keys, spellings) ==
    {i \in DOMAIN body : body[i].key \in keys /\ body[i].spelled \in spellings}
Values(body, keys, spellings) == {body[i].value : i \in Under(body, keys, spellings)}

(* An identifier in another case, or with blanks around it, is the same.   *)
Key_of(identifier) == IF identifier \in {"ALICE", " alice "} THEN "alice" ELSE identifier
is_blank(identifier) == identifier = " "

(* Mutant: a key in another case is a key login does not know.             *)
from_json_passes_over(body) ==
    \E i \in DOMAIN body :
       \/ body[i].spelled = "folded"
       \/ body[i].key \in IdentifierKeys \cup {"method"} /\ body[i].value = "7"

(* What JSON Kratos could read in another way: a key that is one of these  *)
(* only by its looser matching, or a value that is not a string.           *)
from_json_refuses(body) ==
    \E i \in DOMAIN body :
       \/ body[i].spelled = "folded"
       \/ body[i].key \in IdentifierKeys \cup {"method"} /\ body[i].spelled = "case"
       \/ body[i].key \in IdentifierKeys \cup {"method"} /\ body[i].value = "7"

repeated(body) ==
    \E keys \in {{"method"}, IdentifierKeys} : Cardinality(Under(body, keys, {"plain"})) > 1

(* Only a password submission has a secret to guess.                       *)
throttled_identifier(body) ==
    LET who == {v \in Values(body, IdentifierKeys, {"plain"}) : ~is_blank(v)}
    IN  IF Values(body, {"method"}, {"plain"}) \subseteq {"password"} /\ who # {}
        THEN Key_of(CHOOSE v \in who : TRUE)
        ELSE NoOne

login_attempt(encoding, body) ==
    IF encoding \notin {"form", "json"} THEN [refused |-> "UnsupportedEncoding"]
    ELSE IF (encoding = "json" /\ from_json_refuses(body)) \/ repeated(body)
         THEN [refused |-> "Ambiguous"]
         ELSE [refused |-> "no", key |-> throttled_identifier(body)]

Attempt(path, encoding, body) ==
    IF is_login_submit(path) THEN login_attempt(encoding, body)
                             ELSE [refused |-> "no", key |-> NoOne]

(* A submission that is forwarded: the throttle admitted it (or tells it   *)
(* to wait, and nothing is sent).                                          *)
Forwarded(path, encoding, body) ==
    /\ is_clean_path(path) /\ ~is_native_api_path(path) /\ ~is_login_submit_variant(path)
    /\ Attempt(path, encoding, body).refused = "no"

-----------------------------------------------------------------------------
(* Kratos                                                                  *)

(* It decodes and tidies a path, matches JSON keys loosely, and where two  *)
(* fields say different things takes either.  It looks at no password      *)
(* without an identifier.                                                  *)
Spellings(encoding) == IF encoding = "form" THEN {"plain"} ELSE {"plain", "case", "folded"}
Checks(path, encoding, body) ==
    LET methods == Values(body, {"method"}, Spellings(encoding))
        who == Values(body, IdentifierKeys, Spellings(encoding)) \ {" "}
    IN  IF path.to = "login" /\ (methods = {} \/ "password" \in methods)
        THEN {Key_of(v) : v \in who}
        ELSE {}

(* Its answers: a redirect has a target on login's origin or elsewhere.    *)
Answer(status, target, cookie) == [status |-> status, target |-> target, cookie |-> cookie]
Refusals == {Answer("403", "none", FALSE), Answer("429", "none", FALSE), Answer("5xx", "none", FALSE),
             Answer("3xx", "/error", FALSE)}
AnswersTo(result) ==
    CASE result = "right" -> {Answer("422", "none", TRUE), Answer("2xx", "none", TRUE),
                              Answer("3xx", "elsewhere", TRUE), Answer("3xx", "own", TRUE)}
      [] result = "wrong" -> {Answer("4xx", "none", FALSE), Answer("3xx", "ui", FALSE),
                              Answer("2xx", "none", FALSE)}
         \* not looked at: refused before, or the browser is signed in already
      [] OTHER -> Refusals \cup {Answer("3xx", "elsewhere", FALSE), Answer("422", "none", FALSE),
                                 Answer("3xx", "none", FALSE)}

(* It answers a submission: a password is looked at, or none is.           *)
KratosAnswers ==
    /\ call.at = "sent"
    /\ \/ \E who \in Checks(call.path, call.encoding, call.body), result \in {"right", "wrong"} :
             \E answer \in AnswersTo(result) :
                call' = [at |-> "answered", key |-> call.key, checked |-> who, result |-> result,
                         answer |-> answer]
       \/ \E answer \in AnswersTo("none") :
             call' = [at |-> "answered", key |-> call.key, checked |-> NoOne, result |-> "none",
                      answer |-> answer]

(* The answer does not arrive, whatever was looked at.                     *)
KratosLost ==
    /\ call.at = "sent"
    /\ call' = [at |-> "settled", key |-> call.key, outcome |-> "NotAnAttempt",
                answered |-> FALSE, result |-> "none"]

-----------------------------------------------------------------------------
sets_session(answer) == answer.cookie

signed_in(answer) == IF sets_session(answer) THEN "Succeeded" ELSE "Failed"

(* What an answer says about the attempt that was counted for it.          *)
outcome(answer) ==
    CASE answer.status \in {"2xx", "422"} -> signed_in(answer)
      [] answer.status \in {"403", "429", "5xx"} -> "NotAnAttempt"
      [] answer.status = "3xx" ->
           IF answer.target = "/error" THEN "NotAnAttempt"
           ELSE IF answer.target \in {"ui", "none"} THEN "Failed"
           ELSE signed_in(answer)
      [] OTHER -> "Failed"

Settle ==
    /\ call.at = "answered"
    /\ call' = [at |-> "settled", key |-> call.key, outcome |-> outcome(call.answer),
                answered |-> TRUE, result |-> call.result]

-----------------------------------------------------------------------------
(* Properties                                                              *)

(* Kratos looks at a password only for the identifier the throttle counted *)
(* the attempt for, however path, keys and encoding are chosen             *)
(* (proxy.rs:107-145, 219-222).                                            *)
EveryCheckIsCounted == call.at = "answered" /\ call.checked # NoOne => call.checked = call.key

(* The throttle forgets the count only for the right password and gives    *)
(* an attempt back only when no password was looked at, as far as answers  *)
(* arrive: a browser already signed in proves nothing (proxy.rs:316-320).  *)
OutcomeTellsTheTruth ==
    call.at = "settled" =>
       /\ call.outcome = "Succeeded" <=> call.result = "right"
       /\ call.outcome = "NotAnAttempt" => call.result = "none"
=============================================================================
