------------------------------ MODULE Masking ------------------------------
(***************************************************************************)
(* masking.py as operators.  A JSON value is a tree of objects, lists and  *)
(* leaves; a text is a sequence of tokens; a path is a sequence of steps    *)
(* <<"key", name>>, <<"at", index>>, <<"any">> and <<"deep", name>>.  A     *)
(* regex matches a run of tokens of a set, as [0-9]+ or [0-9]* does, and    *)
(* captures it as its only group.                                          *)
(***************************************************************************)
EXTENDS Integers, Sequences, SequencesExt, FiniteSetsExt

CONSTANTS None  \* no value: a field that is null

Text(t) == [kind |-> "text", text |-> t]
Object(f) == [kind |-> "object", fields |-> f]
List(s) == [kind |-> "list", items |-> s]
Number == [kind |-> "number"]

(* The wire key a rule's target names in a record of each type. *)
FieldMap == [
  request  |-> [request_body |-> "request", request_headers |-> "headers", path |-> "path"],
  response |-> [response_body |-> "body"],
  error    |-> [error_message |-> "message"],
  log      |-> << >>]

HasChild(v, step) ==
  \/ v.kind = "object" /\ step[1] = "key" /\ step[2] \in DOMAIN v.fields
  \/ v.kind = "list" /\ step[1] = "at" /\ step[2] < Len(v.items)

MapChild(v, step, F(_)) ==
  IF v.kind = "object" THEN [v EXCEPT !.fields[step[2]] = F(@)]
  ELSE [v EXCEPT !.items[step[2] + 1] = F(@)]

MapChildren(v, F(_)) ==
  CASE v.kind = "object" -> Object([k \in DOMAIN v.fields |-> F(v.fields[k])])
    [] v.kind = "list"   -> List([i \in DOMAIN v.items |-> F(v.items[i])])
    [] OTHER -> v

-----------------------------------------------------------------------------
(* expand: "$n" is the nth group or nothing, "$$" a dollar, what else there *)
(* is stands for itself.  "$" before a digit int() refuses, as in "$²",     *)
(* raises; the row is lost with it.                                          *)
Group == [x \in {"$0", "$1", "$9"} |-> CASE x = "$0" -> 1 [] x = "$1" -> 2 [] x = "$9" -> 10]
Expand(template, match) ==
  LET groups == <<match, match>>
      Part(p) == IF p \in DOMAIN Group
                 THEN IF Group[p] \in DOMAIN groups THEN groups[Group[p]] ELSE << >>
                 ELSE IF p = "$$" THEN <<"$">> ELSE IF p = "$²" THEN <<"raises">> ELSE <<p>>
  IN FlattenSeq([i \in DOMAIN template |-> Part(template[i])])

(* regex_replace_all from position pos on; a match of no length copies the  *)
(* token it stands before and goes on after it.                              *)
Run(text, i, of) == Max({n \in 0..(Len(text) + 1 - i) : \A j \in i..(i + n - 1) : text[j] \in of})

RECURSIVE ReplaceFrom(_, _, _, _)
ReplaceFrom(text, pos, regex, template) ==
  LET starts == {i \in pos..(Len(text) + 1) : Run(text, i, regex.of) >= regex.least} IN
  IF starts = {} THEN SubSeq(text, pos, Len(text))
  ELSE LET i == Min(starts) n == Run(text, i, regex.of) IN
       SubSeq(text, pos, i - 1) \o Expand(template, SubSeq(text, i, i + n - 1)) \o
       IF n > 0 THEN ReplaceFrom(text, i + n, regex, template)
       ELSE IF i > Len(text) THEN << >>
       ELSE <<text[i]>> \o ReplaceFrom(text, i + 1, regex, template)

RegexReplaceAll(text, regex, template) == ReplaceFrom(text, 1, regex, template)

RECURSIVE RegexReplaceLeaves(_, _, _)
RegexReplaceLeaves(v, regex, template) ==
  IF v.kind = "text" THEN Text(RegexReplaceAll(v.text, regex, template))
  ELSE MapChildren(v, LAMBDA c : RegexReplaceLeaves(c, regex, template))

-----------------------------------------------------------------------------
(* _compiled: a path that does not parse takes the regex with it; a regex   *)
(* that does not compile is none; no replacement is "...".                   *)
HasTokens(rule) == rule.path.is = "tokens"
HasRegexMutant(rule) == rule.regex.is = "pattern"
HasRegex(rule) == rule.path.is # "bad" /\ rule.regex.is = "pattern"
Replacement(rule) == IF rule.template = << >> THEN <<"...">> ELSE rule.template

Replaced(v, rule) ==
  IF HasRegex(rule) THEN RegexReplaceLeaves(v, rule.regex, Replacement(rule))
  ELSE Text(Replacement(rule))

(* transform and _descend: every place the path leads to is replaced; a     *)
(* descent does what is below before what holds it.                          *)
RECURSIVE Transform(_, _, _), Descend(_, _, _, _)
Transform(v, tokens, rule) ==
  IF tokens = << >> THEN Replaced(v, rule)
  ELSE LET step == Head(tokens) rest == Tail(tokens) IN
       CASE step[1] = "any"  -> MapChildren(v, LAMBDA c : Transform(c, rest, rule))
         [] step[1] = "deep" -> Descend(v, step[2], rest, rule)
         [] OTHER -> IF HasChild(v, step)
                     THEN MapChild(v, step, LAMBDA c : Transform(c, rest, rule)) ELSE v

DescendMutant(v, name, rest, rule) ==
  LET below == IF v.kind = "list" THEN v
               ELSE MapChildren(v, LAMBDA c : Descend(c, name, rest, rule))
      step  == <<"key", name>>
  IN IF HasChild(below, step)
     THEN MapChild(below, step, LAMBDA c : Transform(c, rest, rule)) ELSE below

Descend(v, name, rest, rule) ==
  LET below == MapChildren(v, LAMBDA c : Descend(c, name, rest, rule))
      step  == <<"key", name>>
  IN IF HasChild(below, step)
     THEN MapChild(below, step, LAMBDA c : Transform(c, rest, rule)) ELSE below

ApplyToValue(v, rule) ==
  IF HasTokens(rule) THEN Transform(v, rule.path.tokens, rule)
  ELSE IF HasRegex(rule) THEN Replaced(v, rule) ELSE v

ApplyToRawString(text, rule) ==
  IF HasRegex(rule) THEN RegexReplaceAll(text, rule.regex, Replacement(rule)) ELSE text

(* _mask_field: a field is raw text, a body that is JSON, or a map.  A map  *)
(* that was replaced whole is raw text for the rules after.                  *)
MaskField(field, rule) ==
  IF field.form = "raw" THEN [field EXCEPT !.text = ApplyToRawString(@, rule)]
  ELSE LET v == ApplyToValue(field.tree, rule) IN
       IF field.form = "map" /\ v.kind = "text" THEN [form |-> "raw", text |-> v.text]
       ELSE [field EXCEPT !.tree = v]

(* _apply_rule *)
Targeted(type, rule) ==
  IF rule.target \in DOMAIN FieldMap[type] THEN FieldMap[type][rule.target] ELSE "none"
ApplyRule(row, type, rule) ==
  LET key == Targeted(type, rule) IN
  IF ~rule.enabled \/ key \notin DOMAIN row THEN row
  ELSE IF row[key] = None THEN row
  ELSE [row EXCEPT ![key] = MaskField(@, rule)]
=============================================================================
