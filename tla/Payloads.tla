------------------------------ MODULE Payloads ------------------------------
(***************************************************************************)
(* What the writers send of a request, a response, an error or a log:       *)
(* sensitive headers are left out, a long response is cut, the masking      *)
(* rules run one after the other, the hook last, and the row is written or, *)
(* when something raises, lost.                                             *)
(***************************************************************************)
EXTENDS Masking

CONSTANTS
  Jobs,       \* what there is to report, and the masking configured for it
  Sensitive,  \* SENSITIVE_HEADERS
  Blank, Garbled, CleanSchemes, CleanHosts

Url == INSTANCE BaseUrl

VARIABLES
  job,   \* what is reported
  row,   \* the payload so far
  next,  \* the masking rule to apply next
  pc

vars == <<job, row, next, pc>>

NoRow == << >>

Init == job \in Jobs /\ row = NoRow /\ next = 1 /\ pc = "build"

-----------------------------------------------------------------------------
WithoutSensitiveHeaders(headers) == [h \in DOMAIN headers \ Sensitive |-> headers[h]]

(* _truncate: what a body begins with, marked as cut, and no longer JSON.   *)
RECURSIVE Flat(_)
Flat(v) ==
  CASE v.kind = "text"   -> v.text
    [] v.kind = "object" -> FoldSet(LAMBDA k, acc : acc \o Flat(v.fields[k]), << >>, DOMAIN v.fields)
    [] v.kind = "list"   -> FlattenSeq([i \in DOMAIN v.items |-> Flat(v.items[i])])
    [] OTHER -> << >>
Truncated(body, long) ==
  IF ~long \/ body = None THEN body
  ELSE [form |-> "raw", text |-> Append(Front(IF body.form = "raw" THEN body.text ELSE Flat(body.tree)), "cut")]

(* The payload each writer makes; the type says which one writes it.        *)
Raw(t) == [form |-> "raw", text |-> t]
Headers(j) == [form |-> "map", tree |-> Object(WithoutSensitiveHeaders(j.headers))]
Built(j) ==
  CASE j.type = "request"  -> [headers |-> Headers(j), path |-> Raw(j.path), request |-> j.body,
                               url |-> Url!Resolve(j.environ, j.trust)]
    [] j.type = "response" -> [headers |-> Headers(j), body |-> Truncated(j.body, j.long)]
    [] j.type = "error"    -> [message |-> Raw(j.message), stacktrace |-> Raw(<<"trace">> \o j.message),
                               stamped_path |-> Raw(j.path)]
    [] j.type = "log"      -> [message |-> Raw(j.message), data |-> j.body, stamped_path |-> Raw(j.path)]

Build ==
  /\ pc = "build"
  /\ row' = Built(job)
  /\ pc' = IF job.type = "log" THEN "write" ELSE "mask"
  /\ UNCHANGED <<job, next>>

(* apply of masking.py *)
Tokens(field) ==
  IF field = None THEN {} ELSE ToSet(IF field.form = "raw" THEN field.text ELSE Flat(field.tree))
Masked(r) == DOMAIN r \ {"url"}
Raises(r) == \E k \in Masked(r) : "raises" \in Tokens(r[k])

MaskNext ==
  /\ pc = "mask" /\ next <= Len(job.rules)
  /\ row' = ApplyRule(row, job.type, job.rules[next])
  /\ next' = next + 1
  /\ pc' = IF Raises(row') THEN "lost" ELSE "mask"
  /\ UNCHANGED job

RunHook ==
  /\ pc = "mask" /\ next > Len(job.rules)
  /\ pc' = IF job.hook = "raises" THEN "lost" ELSE "write"
  /\ row' = IF job.hook = "drops_headers" THEN [k \in DOMAIN row \ {"headers"} |-> row[k]] ELSE row
  /\ UNCHANGED <<job, next>>

Write == pc = "write" /\ pc' = "written" /\ UNCHANGED <<job, row, next>>

Next == Build \/ MaskNext \/ RunHook \/ Write

Spec == Init /\ [][Next]_vars

-----------------------------------------------------------------------------
(* Where the leaves of a value are, and which of them a path denotes: a     *)
(* place it leads to, or one inside it.                                      *)
RECURSIVE Places(_)
Places(v) ==
  CASE v.kind = "object" -> UNION {{<< <<"key", k>> >> \o p : p \in Places(v.fields[k])} : k \in DOMAIN v.fields}
    [] v.kind = "list"   -> UNION {{<< <<"at", i - 1>> >> \o p : p \in Places(v.items[i])} : i \in DOMAIN v.items}
    [] v.kind = "text"   -> {<< >>}
    [] OTHER -> {}

RECURSIVE At(_, _)
At(v, place) ==
  IF place = << >> THEN IF v.kind = "text" THEN v.text ELSE << >>
  ELSE IF ~HasChild(v, place[1]) THEN << >>
  ELSE At(IF v.kind = "object" THEN v.fields[place[1][2]] ELSE v.items[place[1][2] + 1], Tail(place))

RECURSIVE LeadsTo(_, _)
LeadsTo(tokens, place) ==
  IF tokens = << >> THEN place = << >>
  ELSE IF tokens[1][1] = "deep"
  THEN \E i \in DOMAIN place : place[i] = <<"key", tokens[1][2]>>
                               /\ LeadsTo(Tail(tokens), SubSeq(place, i + 1, Len(place)))
  ELSE place # << >> /\ (tokens[1] = <<"any">> \/ tokens[1] = place[1]) /\ LeadsTo(Tail(tokens), Tail(place))
Denotes(tokens, place) == \E n \in 0..Len(place) : LeadsTo(tokens, SubSeq(place, 1, n))

Tree(field) == IF field.form = "raw" THEN Text(field.text) ELSE field.tree
Leaves(r) == UNION {{<<k, p>> : p \in Places(Tree(r[k]))} : k \in {x \in Masked(r) : r[x] # None}}
Own(r, leaf) == ToSet(At(Tree(r[leaf[1]]), leaf[2]))

Rules(r, k) == {rule \in ToSet(job.rules) : rule.enabled /\ rule.path.is # "bad"
                 /\ rule.target \in DOMAIN FieldMap[job.type] /\ FieldMap[job.type][rule.target] = k}
Reaches(rule, r, leaf) ==
  IF r[leaf[1]].form = "raw" THEN rule.regex.is = "pattern"
  ELSE IF rule.path.is = "tokens" THEN Denotes(rule.path.tokens, leaf[2])
  ELSE rule.regex.is = "pattern"
Replaces(rule, r, leaf) == rule.regex.is # "pattern" /\ Reaches(rule, r, leaf)
Edits(rule, r, leaf) == rule.regex.is = "pattern" /\ Reaches(rule, r, leaf)

(* Nothing a rule's path denotes in what was reported can be read in the    *)
(* row that is written, whatever the rules before and after it did, and no  *)
(* sensitive header can, whatever the rules say.                             *)
AllTokens(r) == UNION {Tokens(r[k]) : k \in Masked(r)}
MaskedIsUnreadable == pc = "written" =>
  LET was == Built(job) IN
  /\ \A leaf \in Leaves(was) :
       (\E rule \in Rules(was, leaf[1]) : Replaces(rule, was, leaf)) =>
         Own(was, leaf) \cap AllTokens(row) \subseteq UNION {Own(was, l) : l \in Leaves(was) \ {leaf}}
  /\ job.type \in {"request", "response"} =>
       \A h \in DOMAIN job.headers \cap Sensitive : ToSet(Flat(job.headers[h])) \cap AllTokens(row) = {}

(* What no rule reaches is written as it was, and of what a regex reaches   *)
(* all that it does not match, in its place and order; what it matches is    *)
(* gone unless the replacement brings it back.  A row is lost only to a hook *)
(* that raises or to a replacement with a "$" before a digit that is none.   *)
OnlyDenotedChanges ==
  /\ pc = "written" => LET was == Built(job) IN
       \A leaf \in {l \in Leaves(was) : l[1] \in DOMAIN row} :
         LET rules   == Rules(was, leaf[1])
             edits   == {rule \in rules : Edits(rule, was, leaf)}
             matched == UNION {rule.regex.of : rule \in edits}
             before  == At(Tree(was[leaf[1]]), leaf[2])
             after   == At(Tree(row[leaf[1]]), leaf[2])
             Rest(t) == SelectSeq(t, LAMBDA x : x \in ToSet(before) \ matched)
         IN (\A rule \in rules : ~Replaces(rule, was, leaf)) =>
              /\ IF edits = {} THEN after = before ELSE Rest(after) = Rest(before)
              /\ (\A rule \in edits : ToSet(rule.template) \cap DOMAIN Group = {}) =>
                   \A rule \in edits : rule.regex.of \cap ToSet(before) \cap ToSet(after) = {}
  /\ pc = "lost" => job.hook = "raises" \/ \E rule \in ToSet(job.rules) : "$²" \in ToSet(rule.template)

(* The URL a request row reports is of what base_url.py:27-43 calls evidence, *)
(* whatever is masked in the row.                                            *)
BaseUrlEvidence ==
  pc = "written" /\ job.type = "request" => Url!Evidenced(job.environ, job.trust, row.url)
=============================================================================
