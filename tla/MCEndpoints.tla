----------------------------- MODULE MCEndpoints -----------------------------
(* Instances of Endpoints for TLC: applications of one or two routes.       *)
EXTENDS Endpoints

T(t) == <<"text", t>>
P(n) == <<"param", n>>

Rule(rule, methods, versions) ==
  [rule |-> rule, methods |-> methods, versions |-> versions, forwards |-> << >>, static |-> FALSE,
   parts |-> << >>, readable |-> TRUE]
Rules ==
  {Rule(<<Slash>>, {"GET"}, << >>),
   Rule(<<Slash, Slash, T("s")>>, {"GET"}, <<<<"v1">>>>),
   Rule(<<Slash, T("s"), Slash, P("id")>>, {"GET", "POST"}, <<<<"v2">>, <<"v1", "v2">>>>),
   Rule(<<Slash, T("s"), Slash, P("id"), Slash, T("n"), Slash>>, {"POST"}, <<<<"v1">>>>),
   Rule(<<Slash, T("s"), Slash, T("42")>>, {"GET"}, <<<<"v3">>>>),
   [Rule(<<Slash, T("static"), Slash, P("f")>>, {"GET"}, << >>) EXCEPT !.static = TRUE]}

View(parts, methods, versions, forwards) ==
  [rule |-> << >>, methods |-> methods, versions |-> versions, forwards |-> forwards, static |-> FALSE,
   parts |-> parts, readable |-> TRUE]
V1 == <<<<"v1">>>>
Views ==
  {View(<<<< >>>>, {}, V1, << >>),
   View(<<<<T("s"), Slash>>>>, {"GET", "POST"}, V1, << >>),
   View(<<<<Slash, T("s"), Slash, P("id")>>>>, {}, <<<< >>>>, <<<<"v1">>, <<"v2", "v1">>>>),
   View(<<<<T("api"), Slash>>, <<T("v1"), Slash>>, <<P("id"), Slash>>>>, {"GET"}, V1, <<<<"v2">>>>),
   View(<<<<T("api"), Slash>>, <<Anchor, P("id")>>>>, {"GET"}, V1, << >>),
   View(<<<< >>, <<Anchor, P("id")>>>>, {"GET"}, V1, << >>),
   View(<<<<Anchor, T("api"), Slash>>, <<P("id")>>>>, {"GET"}, V1, << >>),
   View(<<<<T("api"), Slash>>, <<P("id")>>>>, {"POST"}, V1, << >>),
   View(<<<<T("api"), Slash>>, << >>>>, {"GET"}, <<<<"v1">>, <<"v2">>>>, << >>),
   View(<<<<<<"dunder", "debug">>, Slash>>>>, {"GET"}, V1, << >>),
   View(<<<<T("own")>>>>, {"GET"}, << >>, << >>),
   [View(<<<<T("broken")>>>>, {"GET"}, V1, << >>) EXCEPT !.readable = FALSE]}

Words     == {"s", "n", "42", "static", "api", "v1", "own", "broken", "id", "f", "debug"}
VersionIds == {"v1", "v2", "v3"}

UpTo2(S) == {{a, b} : a, b \in S}
AllFlask == UpTo2(Rules)
AllDjango == UpTo2(Views)
=============================================================================
