----------------------------- MODULE MCPayloads -----------------------------
(* Instances of Payloads for TLC: two rules out of those below over bodies  *)
(* that nest, and every environ of a request with no rule.                   *)
EXTENDS Payloads

Schemes == [s \in {"http", "https", "HTTPS:"} |-> IF s = "http" THEN "http" ELSE "https"]
Hosts   == [h \in {"Api.example", "app.internal", "[::1]"} |-> IF h = "Api.example" THEN "api.example" ELSE h]
SensitiveHeaders == {"authorization", "cookie"}

Path(t)   == [is |-> "tokens", tokens |-> t]
NoPath    == [is |-> "none"]
BadPath   == [is |-> "bad"]
Regex(least) == [is |-> "pattern", of |-> {"4", "5"}, least |-> least]
NoRegex   == [is |-> "none"]
BadRegex  == [is |-> "bad"]
Rule(target, path, regex, template) ==
  [enabled |-> TRUE, target |-> target, path |-> path, regex |-> regex, template |-> template]

Key(n) == <<"key", n>>
Ssn    == <<"deep", "ssn">>
BodyPaths == {NoPath, BadPath, Path(<< >>), Path(<<Ssn>>), Path(<<Key("user"), <<"any">>, <<"at", 1>>>>),
              Path(<<Ssn, Key("ssn")>>), Path(<<Key("user"), Key("cards"), <<"at", 5>>>>)}
Templates == {<< >>, <<"*", "$1", "$$", "$9">>, <<"$²">>}

BodyRules(target) ==
  {Rule(target, p, NoRegex, <<"*">>) : p \in BodyPaths}
  \cup {Rule(target, p, Regex(1), t) : p \in {NoPath, BadPath, Path(<<Ssn>>)}, t \in Templates}
  \cup {Rule(target, NoPath, Regex(0), <<"*">>), Rule(target, Path(<<Ssn>>), BadRegex, <<"*">>),
        [Rule(target, Path(<<Ssn>>), NoRegex, <<"*">>) EXCEPT !.enabled = FALSE]}
OtherRules ==
  {Rule("request_headers", Path(<<Key("x-id")>>), NoRegex, <<"*">>), Rule("request_headers", NoPath, Regex(1), <<"*">>),
   Rule("request_headers", Path(<< >>), NoRegex, <<"*">>),
   Rule("path", NoPath, Regex(1), <<"$0", "*">>), Rule("error_message", Path(<< >>), NoRegex, <<"*">>),
   Rule("error_message", Path(<<Ssn>>), Regex(1), <<"*">>)}

Nested == Object([ssn |-> Object([ssn |-> Text(<<"a", "4">>), age |-> Number]),
                  user |-> Object([cards |-> List(<<Text(<<"4", "b", "5", "4">>), Object([ssn |-> Text(<<"c">>)]), Text(<<"d", "5">>)>>),
                                   ssn |-> List(<<Text(<<"e">>), Text(<<"f">>)>>)])])
Bodies == {None, [form |-> "json", tree |-> Nested], [form |-> "json", tree |-> Text(<<"4", "g">>)],
           [form |-> "raw", text |-> <<"h", "5", "4", "i">>]}

Absent == [fwd_proto |-> << >>, fwd_host |-> << >>, fwd_port |-> << >>, host |-> None,
           server_name |-> None, scheme |-> "http", server_port |-> 8000]
From(h, p) == [host |-> h, port |-> p]
Environs == [fwd_proto : {<< >>, <<"http", "HTTPS:">>, <<"https", Blank>>, <<"https", "ht tp">>},
             fwd_host : {<< >>, <<From("Api.example", 8443)>>, <<From("Api.example", 443), From("no host", 1)>>},
             fwd_port : {<< >>, <<443>>, <<8443, Blank>>, <<Garbled>>, <<0>>, <<70000>>},
             host : {Blank, From("[::1]", Garbled), From("Api.example", None)},
             server_name : {From("app.internal", None)},
             scheme : {"http", None}, server_port : {80, 8000, None}]

Job(type, body, long, rules, hook, e, trust) ==
  [type |-> type, body |-> body, long |-> long, rules |-> rules, hook |-> hook,
   headers |-> [h \in {"authorization", "cookie", "x-id", "accept"} |->
                 Text(IF h = "accept" THEN <<h, "4">> ELSE <<h>>)],
   path |-> <<"/", "5", "4", "j">>, message |-> <<"k", "4">>, environ |-> e, trust |-> trust]

ASSUME UrlAssumption == Url!ProperConstants

UpTo2(S) == {<< >>} \cup {<<a>> : a \in S} \cup (S \X S)
Reports ==
  {Job("request", b, FALSE, r, "none", Absent, TRUE) : b \in Bodies, r \in UpTo2(BodyRules("request_body"))}
  \cup {Job("response", b, l, r, "none", Absent, TRUE) : b \in Bodies, l \in BOOLEAN, r \in UpTo2(BodyRules("response_body"))}
  \cup {Job(t, [form |-> "json", tree |-> Nested], FALSE, r, h, Absent, TRUE) :
          t \in {"request", "response", "error", "log"}, r \in UpTo2(OtherRules),
          h \in {"none", "drops_headers", "raises"}}
  \cup {Job("request", None, FALSE, << >>, "none", e, t) : e \in Environs, t \in BOOLEAN}
=============================================================================
