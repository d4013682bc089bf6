------------------------------- MODULE Rules -------------------------------
(***************************************************************************)
(* The declarative routing rules (proxyapi/src/rules.rs) that the handler  *)
(* applies to the method, the URL and the headers of each request.  A URL  *)
(* and a prefix are sequences of tokens: scheme, authority, path segments;  *)
(* CONNECT's bare authority stands under the scheme "connect".              *)
(***************************************************************************)
EXTENDS Naturals, SequencesExt

Schemes == {"http", "https", "connect"}
HasAuthority(url) == url # <<>> /\ url[1] \in Schemes
PathOf(url) == IF HasAuthority(url) THEN SubSeq(url, 3, Len(url)) ELSE url

\* A URL a prefix was replaced in need not be one any more.
IsUri(url) == url # <<>> /\ (url[1] \in Schemes => Len(url) >= 2) /\ ~Contains(url, "invalid")

\* RouteRules::validate
IsValid(rule) ==
  CASE rule.action = "map_remote" -> rule.prefix # <<>> /\ rule.target # <<>>
    [] rule.action = "map_local" -> rule.prefix # <<>> /\ rule.directory # "" /\ rule.index # ""
    [] rule.action = "redirect" -> rule.prefix # <<>> /\ rule.target # <<>>
    [] rule.action = "mock" -> rule.prefix # <<>>
    [] OTHER -> rule.name # ""

\* The rules as they are read: an action there is, and the fields it has.
Actions == {"map_remote", "map_local", "redirect", "mock", "set_request_header", "remove_request_header"}

AreRules(rules) ==
  /\ Len(rules) \in Nat /\ DOMAIN rules = 1 .. Len(rules)
  /\ \A i \in DOMAIN rules :
       /\ rules[i].action \in Actions /\ rules[i].prefix \in Seq(STRING)
       /\ rules[i].action = "map_remote" => rules[i].target \in Seq(STRING)

validate(rules) == \A i \in DOMAIN rules : IsValid(rules[i])

Matches(rule, r) ==
  /\ IsPrefix(rule.prefix, r.url)
  /\ rule.action = "mock" => rule.method \in {"any", r.method}

Suffix(rule, url) == SubSeq(url, Len(rule.prefix) + 1, Len(url))

\* The path below the directory, or its index.
safe_local_path(rule, suffix) == IF suffix = <<>> THEN <<rule.index>> ELSE suffix

\* What reading the mapped file comes to; files are found or not as they are.
LocalOutcomes(rule, r) ==
  IF r.method \notin {"GET", "HEAD"} THEN {"405"}
  ELSE IF Contains(safe_local_path(rule, Suffix(rule, r.url)), "..") THEN {"error"}
  ELSE {"file", "404", "error"}

MapRemote(rule, r) ==
  LET mapped == rule.target \o Suffix(rule, r.url)
  IN IF IsUri(mapped) THEN [r EXCEPT !.url = mapped] ELSE [r EXCEPT !.outcome = "error"]

\* The request after one rule that matches it, "forward" unless it is answered.
RuleOutcome(rule, r) ==
  CASE rule.action = "set_request_header" -> {[r EXCEPT !.headers = @ \union {rule.name}]}
    [] rule.action = "remove_request_header" -> {[r EXCEPT !.headers = @ \ {rule.name}]}
    [] rule.action = "map_remote" -> {MapRemote(rule, r)}
    [] rule.action = "map_local" -> {[r EXCEPT !.outcome = o] : o \in LocalOutcomes(rule, r)}
    [] OTHER -> {[r EXCEPT !.outcome = rule.action]}

\* RouteRules::apply: in file order, each on what the earlier ones made of the
\* request, until one answers it or fails.
apply(rules, request) ==
  LET after[i \in 0 .. Len(rules)] ==
        IF i = 0 THEN {request}
        ELSE UNION {IF r.outcome = "forward" /\ Matches(rules[i], r)
                    THEN RuleOutcome(rules[i], r) ELSE {r} : r \in after[i - 1]}
  IN after[Len(rules)]
=============================================================================
