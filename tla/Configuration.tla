--------------------------- MODULE Configuration ---------------------------
(***************************************************************************)
(* configuration.py and configure() of __init__.py under threads that call *)
(* intake: the singleton and its first construction, settings assigned one *)
(* at a time and resolved one at a time when a call reads them, the URL    *)
(* and the credentials a call ends up sending, and the URL a delayed       *)
(* writer keeps.  A URL is the sequence of what stands between its         *)
(* slashes, the host first.                                                *)
(***************************************************************************)
EXTENDS Integers, Sequences, SequencesExt

CONSTANTS
  Threads, Main,    \* Main configures first, if ConfiguredFirst
  ConfiguredFirst,  \* whether the application configures before it serves
  None, Empty,      \* unset, and ""
  Bad,              \* a cache_ttl or derive flag that is refused
  Segments,         \* what stands between the slashes of a URL, Empty included
  DerivedHost,      \* client ids of the form slug.random -> that slug's host
  DefaultUrl, DefaultLogUrl,
  Arguments,        \* what configure() is called with
  Attributes,       \* what is assigned to the Configuration directly
  Environments,     \* what the ENDPOINTBLANK_ variables may be
  MaxChanges, MaxCalls  \* bounds: changes of configuration, calls of intake

Order == <<"client_id", "client_secret", "base_url", "log_base_url", "cache_ttl", "derive">>
Settings == ToSet(Order)
FromEnvironment == {"client_id", "client_secret", "base_url", "log_base_url"}

(* `a or b` *)
Truthy(v) == v \notin {None, Empty}
Or(a, b) == IF Truthy(a) THEN a ELSE b

ASSUME ConfigurationAssumption ==
  /\ Main \in Threads /\ ConfiguredFirst \in BOOLEAN
  /\ \A a \in Arguments \cup Attributes : DOMAIN a \subseteq Settings
  /\ \A a \in Attributes : \E s \in Settings : DOMAIN a = {s}
  /\ \A e \in Environments : DOMAIN e = FromEnvironment
  /\ MaxChanges \in Nat /\ MaxCalls \in Nat

(* A URL names a host; the defaults end in no slash. *)
Urls == {u \in Seq(Segments) : Len(u) > 0 /\ u[1] # Empty}
BaseUrls == {"base_url", "log_base_url"}
ASSUME UrlAssumption ==
  /\ \A a \in Arguments \cup Attributes \cup Environments :
       \A s \in DOMAIN a \cap BaseUrls : Truthy(a[s]) => a[s] \in Urls
  /\ \A id \in DOMAIN DerivedHost : DerivedHost[id] \in Segments \ {Empty}
  /\ \A u \in {DefaultUrl, DefaultLogUrl} : u \in Urls /\ u[Len(u)] # Empty

(* None is a value of its own, and a flag that is not refused is a Boolean. *)
ASSUME ValueAssumption ==
  /\ None \notin Nat /\ None \notin Seq(Segments \cup {"api", "url", "log"})
  /\ \A a \in Arguments \cup Attributes :
       "derive" \in DOMAIN a => a["derive"] \in BOOLEAN \cup {Bad}

Default == [s \in Settings |->
  CASE s = "cache_ttl" -> 300 [] s = "derive" -> FALSE [] OTHER -> None]

VARIABLES
  environ,   \* the environment variables
  instance,  \* Configuration._instance: None, or an object
  fields,    \* the attributes of every object made, by object
  pc,        \* where each thread is
  stage,     \* what it wants the Configuration for
  obj,       \* the object it holds
  values,    \* the arguments it is configuring with
  left,      \* the places in Order of the settings it has yet to assign
  request,   \* what its call of intake has resolved so far
  writer,    \* the URL the shared delayed writer keeps, or None
  changes, calls,
  \* history
  done,      \* the changes made, in order
  mixed,     \* two of them ran at the same time
  quiet,     \* no change ran during this thread's call
  seen       \* the configurations current during it

shared == <<environ, instance, fields, writer>>
bounds == <<changes, calls>>
history == <<done, mixed, quiet, seen>>
vars == <<shared, pc, stage, obj, values, left, request, bounds, history>>

NoRequest == [url |-> None, id |-> None, secret |-> None]
Current == [set |-> IF instance = None THEN << >> ELSE fields[instance], env |-> environ]

Init ==
  /\ environ \in Environments
  /\ instance = None /\ fields = << >> /\ writer = None
  /\ pc = [t \in Threads |-> "idle"]
  /\ stage = [t \in Threads |-> "none"]
  /\ obj = [t \in Threads |-> None]
  /\ values = [t \in Threads |-> << >>]
  /\ left = [t \in Threads |-> {}]
  /\ request = [t \in Threads |-> NoRequest]
  /\ changes = 0 /\ calls = 0
  /\ done = << >> /\ mixed = FALSE
  /\ quiet = [t \in Threads |-> FALSE]
  /\ seen = [t \in Threads |-> {}]

Calling(t) == pc[t] \notin {"idle", "ended"} /\ stage[t] \in {"url", "log", "header"}
Configuring(t) == pc[t] \notin {"idle", "ended"} /\ stage[t] = "configure"

Goto(t, where) == pc' = [pc EXCEPT ![t] = where]
(* A thread forgets what it held when it is through. *)
Rest(t) ==
  /\ obj' = [obj EXCEPT ![t] = None]
  /\ values' = [values EXCEPT ![t] = << >>]
  /\ left' = [left EXCEPT ![t] = {}]
(* The calls under way see the configuration as this step leaves it. *)
Seen == seen' = [t \in Threads |-> IF Calling(t) THEN seen[t] \cup {Current'} ELSE seen[t]]

-----------------------------------------------------------------------------
(* configure(), and assignments to Configuration().  configure checks       *)
(* cache_ttl and the derive flag before it assigns anything.                 *)
RejectedMutant(a) == "cache_ttl" \in DOMAIN a /\ a.cache_ttl = Bad
Rejected(a) == \E s \in DOMAIN a \cap {"cache_ttl", "derive"} : a[s] = Bad

Started(t) ==
  /\ pc[t] = "idle" /\ changes < MaxChanges
  /\ ConfiguredFirst /\ done = << >> => t = Main
  /\ changes' = changes + 1

Begin(t, a) ==
  /\ Goto(t, "enter")
  /\ stage' = [stage EXCEPT ![t] = "configure"]
  /\ values' = [values EXCEPT ![t] = a]
  /\ mixed' = (mixed \/ \E u \in Threads : Configuring(u))
  /\ quiet' = [u \in Threads |-> FALSE]
  /\ UNCHANGED <<shared, obj, left, request, calls, done, seen>>

Configure(t, a) ==
  /\ Started(t)
  /\ IF Rejected(a)
     THEN UNCHANGED <<shared, pc, stage, obj, values, left, request, calls, history>>
     ELSE Begin(t, a)

SetAttribute(t, a) == Started(t) /\ done # << >> /\ Begin(t, a)

(* The process changes one of its environment variables. *)
SetEnvironment(e) ==
  /\ changes < MaxChanges /\ done # << >> /\ e # environ
  /\ changes' = changes + 1
  /\ environ' = e
  /\ quiet' = [t \in Threads |-> FALSE]
  /\ UNCHANGED <<instance, fields, writer, pc, stage, obj, values, left, request, calls, done, mixed>>
  /\ Seen

-----------------------------------------------------------------------------
(* Configuration(): the instance there is, or a new one, published before   *)
(* its defaults are set, whichever object is the instance by then.           *)
Work(t) == CASE stage[t] = "configure" -> "assign" [] stage[t] = "url" -> "base"
             [] stage[t] = "log" -> "log" [] stage[t] = "header" -> "id"

GotMutant(t) ==
  /\ obj' = [obj EXCEPT ![t] = IF pc[t] = "defaults" THEN None ELSE instance]
  /\ Goto(t, Work(t))
  /\ left' = [left EXCEPT ![t] = {k \in DOMAIN Order : Order[k] \in DOMAIN values[t]}]
  /\ UNCHANGED <<shared, stage, values, request, bounds, history>>

Got(t) ==
  /\ obj' = [obj EXCEPT ![t] = instance]
  /\ Goto(t, Work(t))
  /\ left' = [left EXCEPT ![t] = {k \in DOMAIN Order : Order[k] \in DOMAIN values[t]}]
  /\ UNCHANGED <<shared, stage, values, request, bounds, history>>

Enter(t) == pc[t] = "enter" /\ instance # None /\ Got(t)

Look(t) ==
  /\ pc[t] = "enter" /\ instance = None
  /\ Goto(t, "publish")
  /\ UNCHANGED <<shared, stage, obj, values, left, request, bounds, history>>

Publish(t) ==
  /\ pc[t] = "publish"
  /\ fields' = Append(fields, << >>)
  /\ instance' = Len(fields) + 1
  /\ Goto(t, "target")
  /\ UNCHANGED <<environ, writer, stage, obj, values, left, request, bounds, done, mixed, quiet>>
  /\ Seen

Target(t) ==
  /\ pc[t] = "target"
  /\ obj' = [obj EXCEPT ![t] = instance]
  /\ left' = [left EXCEPT ![t] = DOMAIN Order]
  /\ Goto(t, "defaults")
  /\ UNCHANGED <<shared, stage, values, request, bounds, history>>

(* The settings are assigned one at a time, in their order. *)
Coming(t) == Order[Min(left[t])]
Advance(t) == left' = [left EXCEPT ![t] = @ \ {Min(@)}]
SetField(o, s, v) ==
  fields' = [fields EXCEPT ![o] =
    [x \in DOMAIN @ \cup {s} |-> IF x = s THEN v ELSE @[x]]]

InitDefault(t) ==
  /\ pc[t] = "defaults" /\ left[t] # {}
  /\ SetField(obj[t], Coming(t), Default[Coming(t)])
  /\ Advance(t)
  /\ UNCHANGED <<environ, instance, writer, pc, stage, obj, values, request, bounds, done, mixed, quiet>>
  /\ Seen

Return(t) == pc[t] = "defaults" /\ left[t] = {} /\ Got(t)

-----------------------------------------------------------------------------
(* The setters; those of cache_ttl and the derive flag check again.         *)
Assign(t) ==
  /\ pc[t] = "assign" /\ left[t] # {}
  /\ LET s == Coming(t) v == values[t][s] IN
       IF s \in {"cache_ttl", "derive"} /\ v = Bad
       THEN /\ Goto(t, "idle") /\ Rest(t)
            /\ UNCHANGED <<shared, history>>
       ELSE /\ SetField(obj[t], s, v)
            /\ Advance(t)
            /\ UNCHANGED <<environ, instance, writer, pc, obj, values, done, mixed, quiet>>
            /\ Seen
  /\ UNCHANGED <<stage, request, bounds>>

Configured(t) ==
  /\ pc[t] = "assign" /\ left[t] = {}
  /\ Goto(t, "idle") /\ Rest(t)
  /\ done' = Append(done, values[t])
  /\ UNCHANGED <<shared, stage, request, bounds, mixed, quiet, seen>>

-----------------------------------------------------------------------------
(* Calls of intake, and rows for the log plane: the URL first, then the     *)
(* Basic header.  An attribute not there yet raises.                         *)
Ended(t, how) ==
  /\ Goto(t, "ended")
  /\ stage' = [stage EXCEPT ![t] = how]
  /\ Rest(t)

BeginCall(t, what) ==
  /\ pc[t] = "idle" /\ calls < MaxCalls
  /\ ConfiguredFirst => done # << >>
  /\ calls' = calls + 1
  /\ Goto(t, "enter")
  /\ stage' = [stage EXCEPT ![t] = what]
  /\ quiet' = [quiet EXCEPT ![t] = \A u \in Threads : ~Configuring(u)]
  /\ seen' = [seen EXCEPT ![t] = {Current}]
  /\ UNCHANGED <<shared, obj, values, left, request, changes, done, mixed>>

CallIntake(t) == BeginCall(t, "url")
FirstRow(t) == writer = None /\ BeginCall(t, "log")
NextRow(t) ==
  /\ writer # None /\ pc[t] = "idle" /\ calls < MaxCalls
  /\ calls' = calls + 1
  /\ request' = [request EXCEPT ![t].url = writer]
  /\ stage' = [stage EXCEPT ![t] = "header"]
  /\ Goto(t, "enter")
  /\ quiet' = [quiet EXCEPT ![t] = \A u \in Threads : ~Configuring(u)]
  /\ seen' = [seen EXCEPT ![t] = {Current}]
  /\ UNCHANGED <<shared, obj, values, left, changes, done, mixed>>

(* _normalize_base_url *)
RStripped(u) == SubSeq(u, 1, Max({0} \cup {i \in DOMAIN u : u[i] # Empty}))
Normalized(u) == IF Last(RStripped(u)) = "api" THEN None ELSE RStripped(u)

(* The URL is there, or the value it would have is refused. *)
Resolved(t, u) ==
  LET n == Normalized(u) url == Append(Append(n, "api"), stage[t]) IN
  IF n = None
  THEN Ended(t, "ValueError") /\ UNCHANGED <<shared, request>>
  ELSE /\ request' = [request EXCEPT ![t].url = url]
       /\ writer' = IF stage[t] = "log" THEN url ELSE writer
       /\ stage' = [stage EXCEPT ![t] = "header"]
       /\ Goto(t, "enter")
       /\ UNCHANGED <<environ, instance, fields, obj, values, left>>

Has(t, s) == s \in DOMAIN fields[obj[t]]
Get(t, s) == fields[obj[t]][s]

Then(t, where) == Goto(t, where) /\ UNCHANGED <<shared, stage, obj, values, left, request>>
Reading(t, where, s, Use(_)) ==
  /\ pc[t] = where
  /\ IF Has(t, s) THEN Use(Get(t, s))
     ELSE Ended(t, "AttributeError") /\ UNCHANGED <<shared, request>>
  /\ UNCHANGED <<bounds, history>>

ReadBaseUrl(t) == Reading(t, "base", "base_url", LAMBDA v :
  IF Truthy(Or(v, environ.base_url)) THEN Resolved(t, Or(v, environ.base_url))
  ELSE Then(t, "flag"))

ReadFlag(t) == Reading(t, "flag", "derive", LAMBDA v :
  IF v THEN Then(t, "slug") ELSE Resolved(t, DefaultUrl))

ReadSlugMutant(t) == Reading(t, "slug", "client_id", LAMBDA v :
  LET id == Or(environ.client_id, v) IN
  Resolved(t, IF id \in DOMAIN DerivedHost THEN <<DerivedHost[id]>> ELSE DefaultUrl))

ReadSlug(t) == Reading(t, "slug", "client_id", LAMBDA v :
  LET id == Or(v, environ.client_id) IN
  Resolved(t, IF id \in DOMAIN DerivedHost THEN <<DerivedHost[id]>> ELSE DefaultUrl))

ReadLogUrl(t) == Reading(t, "log", "log_base_url", LAMBDA v :
  Resolved(t, IF Truthy(Or(v, environ.log_base_url)) THEN Or(v, environ.log_base_url)
              ELSE DefaultLogUrl))

ReadId(t) == Reading(t, "id", "client_id", LAMBDA v :
  /\ request' = [request EXCEPT ![t].id = Or(v, environ.client_id)]
  /\ Goto(t, "secret")
  /\ UNCHANGED <<shared, stage, obj, values, left>>)

ReadSecret(t) == Reading(t, "secret", "client_secret", LAMBDA v :
  LET secret == Or(v, environ.client_secret) IN
  /\ request' = [request EXCEPT ![t].secret = secret]
  /\ Ended(t, IF Truthy(request[t].id) /\ Truthy(secret) THEN "sent" ELSE "ConfigurationError")
  /\ UNCHANGED shared)

Again(t) ==
  /\ pc[t] = "ended"
  /\ Goto(t, "idle")
  /\ stage' = [stage EXCEPT ![t] = "none"]
  /\ request' = [request EXCEPT ![t] = NoRequest]
  /\ seen' = [seen EXCEPT ![t] = {}]
  /\ UNCHANGED <<shared, obj, values, left, bounds, done, mixed, quiet>>

-----------------------------------------------------------------------------
Next ==
  \/ \E t \in Threads :
       \/ \E a \in Arguments : Configure(t, a)
       \/ \E a \in Attributes : SetAttribute(t, a)
       \/ Enter(t) \/ Look(t) \/ Publish(t) \/ Target(t) \/ InitDefault(t) \/ Return(t)
       \/ Assign(t) \/ Configured(t)
       \/ CallIntake(t) \/ FirstRow(t) \/ NextRow(t)
       \/ ReadBaseUrl(t) \/ ReadFlag(t) \/ ReadSlug(t) \/ ReadLogUrl(t)
       \/ ReadId(t) \/ ReadSecret(t) \/ Again(t)
  \/ \E e \in Environments : SetEnvironment(e)

Spec == Init /\ [][Next]_vars

-----------------------------------------------------------------------------
Locations == {"idle", "enter", "publish", "target", "defaults", "assign",
              "base", "flag", "slug", "log", "id", "secret", "ended"}
Ends == {"sent", "ConfigurationError", "ValueError", "AttributeError"}

(* Objects hold settings only, and a thread that works holds an object. *)
TypeOK ==
  /\ environ \in Environments
  /\ instance \in {None} \cup DOMAIN fields
  /\ \A o \in DOMAIN fields : DOMAIN fields[o] \subseteq Settings
  /\ pc \in [Threads -> Locations]
  /\ stage \in [Threads -> {"none", "configure", "url", "log", "header"} \cup Ends]
  /\ \A t \in Threads :
       /\ left[t] \subseteq DOMAIN Order
       /\ obj[t] \in {None} \cup DOMAIN fields
       /\ pc[t] \notin {"idle", "enter", "publish", "target", "ended"} => obj[t] # None
       /\ pc[t] = "ended" <=> stage[t] \in Ends
  /\ changes \in 0..MaxChanges /\ calls \in 0..MaxCalls

(* What the changes made so far ask for, by the precedence README.md gives  *)
(* each setting, without looking at the object.                              *)
Explicit(s) ==
  LET givers == {i \in DOMAIN done : s \in DOMAIN done[i]} IN
  IF givers = {} THEN Default[s] ELSE done[Max(givers)][s]
Chosen(s) == IF Truthy(Explicit(s)) THEN Explicit(s) ELSE environ[s]
ChosenUrl ==
  IF Truthy(Chosen("base_url")) THEN Chosen("base_url")
  ELSE IF Explicit("derive") /\ Chosen("client_id") \in DOMAIN DerivedHost
  THEN <<DerivedHost[Chosen("client_id")]>> ELSE DefaultUrl

Base(t) == SubSeq(request[t].url, 1, Len(request[t].url) - 2)
Resolves(t) == request[t].url # None /\ Last(request[t].url) = "url"

(* A call of intake that no change of configuration runs beside uses the    *)
(* URL, the id and the secret of one configuration: that of every change    *)
(* made before it, each setting by the last that supplied it, and of none   *)
(* that was rejected.  It fails only if that configuration is at fault.      *)
QuietCallIsWhole == \A t \in Threads : pc[t] = "ended" /\ quiet[t] /\ ~mixed =>
  /\ stage[t] = "sent" =>
       request[t].id = Chosen("client_id") /\ request[t].secret = Chosen("client_secret")
  /\ Resolves(t) => Base(t) = RStripped(ChosenUrl)
  /\ stage[t] # "AttributeError"
  /\ stage[t] = "ConfigurationError" => ~Truthy(Chosen("client_id")) \/ ~Truthy(Chosen("client_secret"))
  /\ stage[t] = "ValueError" =>
       "api" \in {Last(RStripped(u)) : u \in {ChosenUrl, IF Truthy(Chosen("log_base_url"))
                                                       THEN Chosen("log_base_url") ELSE DefaultLogUrl}}

(* Whatever changes beside a call, nothing it sends is older than the call: *)
(* the id, the secret and what the URL was made of were each configured at  *)
(* some time while it ran, neither credential is ever missing, and the URL   *)
(* has one slash and one /api before its resource, however it was spelled.   *)
Value(c, s) == Or(IF s \in DOMAIN c.set THEN c.set[s] ELSE None, c.env[s])
SentWasConfigured == \A t \in Threads : pc[t] = "ended" =>
  /\ stage[t] = "sent" =>
       /\ Truthy(request[t].id) /\ Truthy(request[t].secret)
       /\ \E c \in seen[t] : Value(c, "client_id") = request[t].id
       /\ \E c \in seen[t] : Value(c, "client_secret") = request[t].secret
  /\ request[t].url # None => Last(Base(t)) \notin {"api", Empty}
  /\ Resolves(t) =>
       \/ \E c \in seen[t] : LET u == Value(c, "base_url") IN Truthy(u) /\ Base(t) = RStripped(u)
       \/ /\ \E c \in seen[t] : ~Truthy(Value(c, "base_url"))
          /\ \/ Base(t) = DefaultUrl
             \/ /\ \E c \in seen[t] : c.set.derive
                /\ \E c \in seen[t] : LET id == Value(c, "client_id") IN
                     id \in DOMAIN DerivedHost /\ Base(t) = <<DerivedHost[id]>>

(* README.md:94: Configuration() always returns the same instance. *)
OneConfiguration == \A t, u \in Threads :
  obj[t] # None /\ obj[u] # None /\ {pc[t], pc[u]} \cap {"target", "defaults"} = {}
    => obj[t] = obj[u]
=============================================================================
