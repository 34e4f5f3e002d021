------------------------------ MODULE Endpoints ------------------------------
(***************************************************************************)
(* The routes of a Flask or Django application: what its registrar         *)
(* publishes of them at boot, and what the decorators name to intake when  *)
(* one of them is asked for.  Intake grants nothing to a path and method   *)
(* that name no published row.  A path is a sequence of pieces:            *)
(* <<"slash">>, <<"anchor">> (the ^ of a regex), <<"text", t>> and         *)
(* <<"param", name>> (<name> or <converter:name>), which is published as   *)
(* <<"braces", name>> or <<"colon", name>>.                                *)
(***************************************************************************)
EXTENDS Integers, Sequences, SequencesExt, FiniteSetsExt

CONSTANTS
  FlaskApps,   \* sets of rules
  DjangoApps,  \* sets of URL patterns, each with the includes it stands in
  Verbs,       \* methods a client may use
  Names,       \* of parameters, and the text between them
  Versions

Slash  == <<"slash">>
Anchor == <<"anchor">>
Pieces == {Slash, Anchor} \cup ({"text", "param", "dunder"} \X Names)

(* A Flask rule starts with a slash, as werkzeug insists, and its view      *)
(* forwards to none; a Django pattern stands in any number of includes.      *)
ASSUME RouteAssumption ==
  /\ \A r \in UNION FlaskApps :
       /\ r.rule \in Seq(Pieces) /\ Len(r.rule) > 0 /\ r.rule[1] = Slash
       /\ r.versions \in Seq(Seq(Versions)) /\ r.forwards = << >>
  /\ \A r \in UNION DjangoApps :
       /\ r.parts \in Seq(Seq(Pieces))
       /\ r.versions \in Seq(Seq(Versions)) /\ r.forwards \in Seq(Seq(Versions))

VARIABLES
  framework, app,
  booted,     \* "no", "registered", or "unregistered"
  published,  \* the rows intake took
  asked       \* what the decorator of the view asked for sent, or NoAsk

NoAsk == << >>

vars == <<framework, app, booted, published, asked>>

Init ==
  /\ \/ framework = "flask" /\ app \in FlaskApps
     \/ framework = "django" /\ app \in DjangoApps
  /\ booted = "no" /\ published = {} /\ asked = NoAsk

-----------------------------------------------------------------------------
Spelled(path, how) ==
  [i \in DOMAIN path |-> IF path[i][1] = "param" THEN <<how, path[i][2]>> ELSE path[i]]
LStripped(path) ==
  SubSeq(path, Min({i \in DOMAIN path : path[i] # Slash} \cup {Len(path) + 1}), Len(path))
Rooted(path) == <<Slash>> \o LStripped(path)

(* The decorators' spelling, of whichever framework.                        *)
NormalizeRoutePatternMutant(pattern) == Spelled(pattern, "braces")
NormalizeRoutePattern(pattern) == Rooted(Spelled(pattern, "braces"))

(* The registrars'. *)
FlaskPath(rule) == Spelled(rule, "braces")
DjangoPath(pattern) == Spelled(Rooted(pattern), "colon")

(* What stacked @versioned declare: each version once, in order; a view     *)
(* that declares none and forwards has what it forwards to declare.          *)
Merged(lists) ==
  LET all == FlattenSeq(lists)
      merged[n \in 0..Len(all)] ==
        IF n = 0 THEN << >>
        ELSE IF all[n] \in ToSet(merged[n - 1]) THEN merged[n - 1] ELSE Append(merged[n - 1], all[n])
  IN merged[Len(all)]
DeclaredVersions(r) == IF Merged(r.versions) # << >> THEN Merged(r.versions) ELSE Merged(r.forwards)

Row(path, method, versions) == [path |-> path, http_method |-> method, endpoint_versions |-> versions]

(* A rule that serves GET serves HEAD, and Flask answers OPTIONS itself.    *)
RuleMethods(r) == r.methods \cup {"OPTIONS"} \cup (IF "GET" \in r.methods THEN {"HEAD"} ELSE {})

FlaskRows(r) ==
  IF r.static THEN {}
  ELSE {Row(FlaskPath(r.rule), m, Merged(r.versions)) : m \in RuleMethods(r) \ {"HEAD", "OPTIONS"}}

(* A pattern within includes is published under their prefixes, if it can   *)
(* be read, has a path that is not "__...", and declares a version; under    *)
(* the methods @require_http_methods names, or GET.                          *)
Published(r) ==
  LET path == FlattenSeq(r.parts) IN
  r.readable /\ path # << >> /\ path[1][1] # "dunder" /\ DeclaredVersions(r) # << >>
DjangoRows(r) ==
  IF ~Published(r) THEN {}
  ELSE {Row(DjangoPath(FlattenSeq(r.parts)), m, DeclaredVersions(r)) :
          m \in IF r.methods = {} THEN {"GET"} ELSE r.methods}

Register ==
  /\ booted = "no" /\ booted' = "registered"
  /\ published' = UNION {IF framework = "flask" THEN FlaskRows(r) ELSE DjangoRows(r) : r \in app}
  /\ UNCHANGED <<framework, app, asked>>

(* A post that fails or is refused is logged, and the application starts.   *)
RegistrationFails ==
  /\ booted = "no" /\ booted' = "unregistered"
  /\ UNCHANGED <<framework, app, published, asked>>

-----------------------------------------------------------------------------
(* Django resolves a pattern to its route, in which no part but the first   *)
(* that is not empty keeps its anchor.                                       *)
Anchored(part) == part # << >> /\ part[1] = Anchor
Follows(parts, i) == \E j \in 1..(i - 1) : parts[j] # << >>
RouteOf(parts) ==
  FlattenSeq([i \in DOMAIN parts |->
    IF Anchored(parts[i]) /\ Follows(parts, i) THEN Tail(parts[i]) ELSE parts[i]])

(* The URL that was called, when nothing better is known. *)
RequestPath(pattern) ==
  Rooted([i \in DOMAIN pattern |-> IF pattern[i][1] = "param" THEN <<"text", "42">> ELSE pattern[i]])

FlaskRoutePath(r, matched) == IF matched THEN NormalizeRoutePattern(r.rule) ELSE RequestPath(r.rule)
DjangoRoutePath(r) ==
  IF RouteOf(r.parts) # << >> THEN NormalizeRoutePattern(RouteOf(r.parts)) ELSE RequestPath(RouteOf(r.parts))

Ask(r, path, method, matched) ==
  /\ booted # "no"
  /\ asked' = [route |-> r, path |-> path, method |-> method, matched |-> matched]
  /\ UNCHANGED <<framework, app, booted, published>>

(* matched is FALSE where no rule was: in a request context pushed by hand. *)
FlaskAsks(r, method, matched) ==
  /\ framework = "flask" /\ ~r.static /\ method \in RuleMethods(r) \ {"OPTIONS"}
  /\ Ask(r, FlaskRoutePath(r, matched), method, matched)

DjangoAsks(r, method) ==
  /\ framework = "django" /\ r.readable /\ (r.methods = {} \/ method \in r.methods)
  /\ Ask(r, DjangoRoutePath(r), method, TRUE)

Next ==
  \/ Register \/ RegistrationFails
  \/ \E r \in app, method \in Verbs :
       \/ \E matched \in BOOLEAN : FlaskAsks(r, method, matched)
       \/ DjangoAsks(r, method)

Spec == Init /\ [][Next]_vars

-----------------------------------------------------------------------------
(* Intake stores and looks up a path with its parameters as colons.         *)
Canonical(path) ==
  [i \in DOMAIN path |-> IF path[i][1] = "braces" THEN <<"colon", path[i][2]>> ELSE path[i]]
Finds(ask) ==
  {row \in published : Canonical(row.path) = Canonical(ask.path) /\ row.http_method = ask.method}

(* Where the code is known to publish nothing that an ask could find: HEAD   *)
(* of a Flask rule, or a rule that starts with two slashes, one of which     *)
(* the decorator leaves out; of a Django view, a method it serves without    *)
(* declaring any, the empty path of the site's root, a path published as it  *)
(* is but resolved without the anchor of an inner regex, and what it leaves  *)
(* out.                                                                      *)
Unpublished(r, method) ==
  IF framework = "flask" THEN method = "HEAD" \/ (Len(r.rule) > 1 /\ r.rule[2] = Slash)
  ELSE \/ ~Published(r)
       \/ r.methods = {} /\ method # "GET"
       \/ \E i \in DOMAIN r.parts : Anchored(r.parts[i]) /\ Follows(r.parts, i)

(* Once the routes are published, a view that is asked for by its own route *)
(* finds a row with every version it declares, outside the cases above and   *)
(* in none of them: registrar and decorator spell the path apart, and must   *)
(* meet (commands/route_path.py:20-24).                                      *)
AskedIsPublished == booted = "registered" /\ asked # NoAsk /\ asked.matched =>
  LET r == asked.route IN
  IF Unpublished(r, asked.method)
  THEN \A row \in Finds(asked) : \E s \in app \ {r} : row \in FlaskRows(s) \cup DjangoRows(s)
  ELSE \E row \in Finds(asked) :
         ToSet(row.endpoint_versions) =
           UNION {ToSet(l) : l \in ToSet(IF \E k \in ToSet(r.versions) : k # << >>
                                         THEN r.versions ELSE r.forwards)}
=============================================================================
