------------------------- MODULE ConfigurationProofs -------------------------
(* Theorems about Configuration, for any threads, arguments, environments,   *)
(* client ids and URLs, and any number of changes and calls.                 *)
EXTENDS Configuration, SequenceTheorems, WellFoundedInduction, TLAPS

-----------------------------------------------------------------------------
(* The library's least and greatest, and the order of the settings. *)

LEMMA Least ==
  ASSUME NEW S \in SUBSET Nat, S # {}
  PROVE  \E x \in S : \A y \in S : x <= y
<1>1. PICK x \in S : \A y \in S : ~(<<y, x>> \in OpToRel(<, Nat))
  BY NatLessThanWellFounded, WFMin
<1>2. \A y \in S : ~(y < x)
  BY <1>1 DEF OpToRel
<1>3. QED BY <1>2

LEMMA LeastIsMin ==
  ASSUME NEW S \in SUBSET Nat, S # {}
  PROVE  Min(S) \in S /\ \A y \in S : Min(S) <= y
<1>1. \E x \in S : \A y \in S : x <= y
  BY Least
<1>2. QED BY <1>1 DEF Min

LEMMA GreatestIsMax ==
  ASSUME NEW n \in Nat, NEW S \in SUBSET (0..n), S # {}
  PROVE  Max(S) \in S /\ \A y \in S : Max(S) >= y
<1> DEFINE below == {n - x : x \in S}
<1>1. below \in SUBSET Nat /\ below # {}
  <2>1. \A x \in S : n - x \in Nat
    OBVIOUS
  <2>2. QED BY <2>1
<1> HIDE DEF below
<1>2. PICK d \in below : \A e \in below : d <= e
  BY <1>1, Least
<1>3. PICK x \in S : d = n - x
  BY DEF below
<1>4. \A y \in S : x >= y
  <2> SUFFICES ASSUME NEW y \in S PROVE x >= y
    OBVIOUS
  <2>1. n - x <= n - y
    BY <1>2, <1>3 DEF below
  <2>2. x \in 0..n /\ y \in 0..n
    OBVIOUS
  <2>3. QED BY <2>1, <2>2
<1>5. \E z \in S : \A y \in S : z >= y
  BY <1>4
<1>6. QED BY <1>5 DEF Max

LEMMA Places ==
  /\ DOMAIN Order = 1..6
  /\ Settings = {"client_id", "client_secret", "base_url", "log_base_url", "cache_ttl", "derive"}
  /\ \A k \in DOMAIN Order : Order[k] \in Settings
  /\ \A s \in Settings : \E k \in DOMAIN Order : Order[k] = s
  /\ \A j, k \in DOMAIN Order : Order[j] = Order[k] => j = k
<1>1. DOMAIN Order = {1, 2, 3, 4, 5, 6}
  BY DEF Order
<1>2. /\ Order[1] = "client_id" /\ Order[2] = "client_secret" /\ Order[3] = "base_url"
      /\ Order[4] = "log_base_url" /\ Order[5] = "cache_ttl" /\ Order[6] = "derive"
  BY DEF Order
<1>3. Settings = {Order[k] : k \in DOMAIN Order}
  BY DEF Settings, ToSet
<1> HIDE DEF Order
<1>4. Settings = {"client_id", "client_secret", "base_url", "log_base_url", "cache_ttl", "derive"}
  BY <1>1, <1>2, <1>3
<1>5. \A j, k \in DOMAIN Order : Order[j] = Order[k] => j = k
  BY <1>1, <1>2
<1>6. QED BY <1>1, <1>3, <1>4, <1>5

(* The setting a thread assigns next is the first it has yet to assign. *)
LEMMA ComingIsLeft ==
  ASSUME NEW t \in Threads, left[t] \subseteq DOMAIN Order, left[t] # {}
  PROVE  /\ Min(left[t]) \in left[t] /\ Coming(t) = Order[Min(left[t])] /\ Coming(t) \in Settings
<1>1. left[t] \in SUBSET Nat
  BY Places
<1>2. QED BY <1>1, LeastIsMin, Places DEF Coming

-----------------------------------------------------------------------------
(* URLs. *)

(* Stripping the slashes off the end leaves a URL, that ends in none. *)
LEMMA Stripped ==
  ASSUME NEW u \in Urls
  PROVE  /\ RStripped(u) \in Urls /\ Last(RStripped(u)) # Empty
         /\ u[Len(u)] # Empty => RStripped(u) = u
<1> DEFINE S == {0} \cup {i \in DOMAIN u : u[i] # Empty}
           m == Max(S)
<1>1. u \in Seq(Segments) /\ Len(u) \in Nat /\ 1 \in DOMAIN u /\ u[1] # Empty /\ DOMAIN u = 1..Len(u)
  BY DEF Urls
<1>2. S \in SUBSET (0..Len(u)) /\ S # {} /\ 1 \in S
  BY <1>1
<1>3. m \in S /\ \A y \in S : m >= y
  <2> HIDE DEF S
  <2>1. QED BY <1>1, <1>2, GreatestIsMax
<1>4. m \in 1..Len(u) /\ u[m] # Empty
  BY <1>1, <1>2, <1>3
<1>5. RStripped(u) = SubSeq(u, 1, m)
  BY DEF RStripped
<1> HIDE DEF m
<1>6. /\ SubSeq(u, 1, m) \in Seq(Segments) /\ Len(SubSeq(u, 1, m)) = m
      /\ \A i \in 1..m : SubSeq(u, 1, m)[i] = u[i]
  BY <1>1, <1>4
<1>7. RStripped(u) \in Urls /\ Last(RStripped(u)) # Empty
  <2> DEFINE r == RStripped(u)
  <2>1. r \in Seq(Segments) /\ Len(r) = m /\ r[1] = u[1] /\ r[m] = u[m]
    BY <1>4, <1>5, <1>6
  <2> HIDE DEF r
  <2>2. r \in Urls /\ r[Len(r)] # Empty
    BY <1>1, <1>4, <2>1 DEF Urls
  <2>3. QED BY <2>2 DEF r, Last
<1>8. ASSUME u[Len(u)] # Empty PROVE RStripped(u) = u
  <2>1. Len(u) \in S
    BY <1>1, <1>8
  <2>2. m >= Len(u)
    BY <1>3, <2>1
  <2>3. m = Len(u)
    <3>1. Len(u) \in Nat /\ m \in Nat /\ m <= Len(u)
      BY <1>1, <1>4
    <3>2. QED BY <2>2, <3>1
  <2>4. QED BY <1>1, <1>5, <1>6, <2>3
<1>9. QED BY <1>7, <1>8

-----------------------------------------------------------------------------
(* Types. *)

(* What settings are given, and the objects that hold them. *)
Changes == Arguments \cup Attributes
Ran(f)  == {f[s] : s \in DOMAIN f}
Values  == {None, 300, FALSE} \cup UNION {Ran(a) : a \in Changes}
Given   == Values \cup UNION {Ran(e) : e \in Environments}
Fits(s, v) ==
  /\ v \in Values
  /\ s \in BaseUrls /\ Truthy(v) => v \in Urls
  /\ s = "derive" => v \in BOOLEAN
Objects == {f \in UNION {[D -> Values] : D \in SUBSET Settings} :
              \A s \in DOMAIN f : Fits(s, f[s])}
Parts    == Segments \cup {"api", "url", "log"}
Requests == [url : {None} \cup Seq(Parts), id : Given, secret : Given]
Configs  == [set : Objects, env : Environments]

(* An object with nothing set is one. *)
LEMMA NewObject == << >> \in Objects /\ DOMAIN << >> = {}
<1>1. << >> \in Seq(Values) /\ Len(<< >>) = 0
  OBVIOUS
<1>2. DOMAIN << >> = {} /\ << >> \in [{} -> Values]
  BY <1>1
<1>3. QED BY <1>2 DEF Objects

(* Setting a field makes an object of an object. *)
LEMMA SetObject ==
  ASSUME NEW f \in Objects, NEW s \in Settings, NEW v, Fits(s, v),
         NEW g, g = [x \in DOMAIN f \cup {s} |-> IF x = s THEN v ELSE f[x]]
  PROVE  g \in Objects
<1>1. PICK D \in SUBSET Settings : f \in [D -> Values]
  BY DEF Objects
<1>2. D \cup {s} \in SUBSET Settings /\ DOMAIN g = D \cup {s} /\ DOMAIN f = D
  BY <1>1
<1>3. \A x \in D \cup {s} : g[x] = IF x = s THEN v ELSE f[x]
  BY <1>1
<1>4. \A x \in DOMAIN g : Fits(x, g[x])
  BY <1>1, <1>2, <1>3 DEF Objects
<1>5. g \in [D \cup {s} -> Values]
  BY <1>1, <1>2, <1>4 DEF Fits
<1>6. QED BY <1>2, <1>4, <1>5 DEF Objects

LEMMA FieldSet ==
  ASSUME fields \in Seq(Objects), NEW o \in 1..Len(fields), NEW s \in Settings, NEW v,
         Fits(s, v), SetField(o, s, v)
  PROVE  /\ fields' \in Seq(Objects) /\ Len(fields') = Len(fields)
         /\ DOMAIN fields'[o] = DOMAIN fields[o] \cup {s}
         /\ \A x \in DOMAIN fields[o] \cup {s} : fields'[o][x] = IF x = s THEN v ELSE fields[o][x]
<1> DEFINE f == fields[o]
           g == [x \in DOMAIN f \cup {s} |-> IF x = s THEN v ELSE f[x]]
<1>1. f \in Objects
  OBVIOUS
<1>2. g \in Objects
  BY <1>1, SetObject
<1>3. fields' = [fields EXCEPT ![o] = g]
  BY DEF SetField
<1>4. DOMAIN g = DOMAIN f \cup {s} /\ \A x \in DOMAIN f \cup {s} : g[x] = IF x = s THEN v ELSE f[x]
  OBVIOUS
<1> HIDE DEF g
<1>5. fields' \in Seq(Objects) /\ Len(fields') = Len(fields) /\ fields'[o] = g
  BY <1>2, <1>3
<1>6. QED BY <1>4, <1>5

(* The defaults fit, and so does what a change gives and the setters accept. *)
LEMMA DefaultFits ==
  ASSUME NEW s \in Settings
  PROVE  Fits(s, Default[s])
<1>1. Default[s] = CASE s = "cache_ttl" -> 300 [] s = "derive" -> FALSE [] OTHER -> None
  BY DEF Default
<1>2. CASE s = "cache_ttl"
  BY <1>1, <1>2 DEF Fits, Values, BaseUrls
<1>3. CASE s = "derive"
  BY <1>1, <1>3 DEF Fits, Values, BaseUrls
<1>4. CASE s \notin {"cache_ttl", "derive"}
  BY <1>1, <1>4 DEF Fits, Values, BaseUrls, Truthy
<1>5. QED BY <1>2, <1>3, <1>4

LEMMA ChangeFits ==
  ASSUME NEW a \in Changes, NEW s \in DOMAIN a, ~(s \in {"cache_ttl", "derive"} /\ a[s] = Bad)
  PROVE  Fits(s, a[s])
<1>1. a[s] \in Values
  <2>1. a[s] \in Ran(a)
    BY DEF Ran
  <2>2. QED BY <2>1 DEF Values
<1>2. s \in BaseUrls /\ Truthy(a[s]) => a[s] \in Urls
  BY UrlAssumption DEF Changes
<1>3. s = "derive" => a[s] \in BOOLEAN
  BY ValueAssumption DEF Changes
<1>4. QED BY <1>1, <1>2, <1>3 DEF Fits

(* The types of the variables, in more detail than TypeOK gives them. *)
VariableTypes ==
  /\ environ \in Environments
  /\ fields \in Seq(Objects)
  /\ instance \in {None} \cup 1..Len(fields)
  /\ writer \in {None} \cup Seq(Parts)
  /\ pc \in [Threads -> Locations]
  /\ stage \in [Threads -> {"none", "configure", "url", "log", "header"} \cup Ends]
  /\ obj \in [Threads -> {None} \cup 1..Len(fields)]
  /\ values \in [Threads -> Changes \cup {<< >>}]
  /\ left \in [Threads -> SUBSET DOMAIN Order]
  /\ request \in [Threads -> Requests]
  /\ changes \in 0..MaxChanges /\ calls \in 0..MaxCalls
  /\ done \in Seq(Changes) /\ mixed \in BOOLEAN /\ quiet \in [Threads -> BOOLEAN]
  /\ seen \in [Threads -> SUBSET Configs]

(* Where a thread is says what it works for, and what it holds. *)
Wants == [where \in Locations |->
  CASE where = "idle" -> {"none", "configure"}
    [] where \in {"enter", "publish", "target", "defaults"} -> {"configure", "url", "log", "header"}
    [] where = "assign" -> {"configure"}
    [] where \in {"base", "flag", "slug"} -> {"url"}
    [] where = "log" -> {"log"}
    [] where \in {"id", "secret"} -> {"header"}
    [] where = "ended" -> Ends]
Holds(t) ==
  /\ stage[t] \in Wants[pc[t]]
  /\ pc[t] \notin {"idle", "enter", "publish", "target", "ended"} => obj[t] # None
  /\ pc[t] \in {"target", "defaults"} => instance # None
  /\ pc[t] = "assign" => \A k \in left[t] : Order[k] \in DOMAIN values[t]
  /\ Configuring(t) => values[t] \in Changes

Typed == VariableTypes /\ \A t \in Threads : Holds(t)

(* The steps of a thread; it leaves what the others hold alone. *)
Step(t) ==
  \/ \E a \in Arguments : Configure(t, a)
  \/ \E a \in Attributes : SetAttribute(t, a)
  \/ Enter(t) \/ Look(t) \/ Publish(t) \/ Target(t) \/ InitDefault(t) \/ Return(t)
  \/ Assign(t) \/ Configured(t)
  \/ CallIntake(t) \/ FirstRow(t) \/ NextRow(t)
  \/ ReadBaseUrl(t) \/ ReadFlag(t) \/ ReadSlug(t) \/ ReadLogUrl(t)
  \/ ReadId(t) \/ ReadSecret(t) \/ Again(t)
Aside(t) == \A u \in Threads \ {t} :
  /\ pc'[u] = pc[u] /\ stage'[u] = stage[u] /\ obj'[u] = obj[u]
  /\ values'[u] = values[u] /\ left'[u] = left[u] /\ request'[u] = request[u]

LEMMA Steps == Next <=> (\E t \in Threads : Step(t)) \/ (\E e \in Environments : SetEnvironment(e))
BY DEF Next, Step

LEMMA StepAside ==
  ASSUME Typed, NEW t \in Threads, Step(t)
  PROVE  Aside(t)
<1> USE DEF Typed, VariableTypes, Aside, Goto, Rest, shared, history, bounds
<1>1. ASSUME NEW a \in Arguments, Configure(t, a) PROVE Aside(t)
  BY <1>1 DEF Configure, Begin
<1>2. ASSUME NEW a \in Attributes, SetAttribute(t, a) PROVE Aside(t)
  BY <1>2 DEF SetAttribute, Begin
<1>3. CASE Enter(t) \/ Return(t)
  BY <1>3 DEF Enter, Return, Got
<1>4. CASE Look(t) \/ Publish(t) \/ Target(t) \/ InitDefault(t)
  BY <1>4 DEF Look, Publish, Target, InitDefault, Advance
<1>5. CASE Assign(t) \/ Configured(t)
  BY <1>5 DEF Assign, Configured, Advance
<1>6. CASE CallIntake(t) \/ FirstRow(t) \/ NextRow(t)
  BY <1>6 DEF CallIntake, FirstRow, NextRow, BeginCall
<1>7. CASE ReadBaseUrl(t)
  BY <1>7 DEF ReadBaseUrl, Reading, Resolved, Then, Ended
<1>8. CASE ReadFlag(t)
  BY <1>8 DEF ReadFlag, Reading, Resolved, Then, Ended
<1>9. CASE ReadSlug(t)
  BY <1>9 DEF ReadSlug, Reading, Resolved, Then, Ended
<1>10. CASE ReadLogUrl(t)
  BY <1>10 DEF ReadLogUrl, Reading, Resolved, Then, Ended
<1>11. CASE ReadId(t) \/ ReadSecret(t)
  BY <1>11 DEF ReadId, ReadSecret, Reading, Ended
<1>12. CASE Again(t)
  BY <1>12 DEF Again
<1>13. QED
  BY <1>1, <1>2, <1>3, <1>4, <1>5, <1>6, <1>7, <1>8, <1>9, <1>10, <1>11, <1>12 DEF Step

(* What is current is made of what there is. *)
LEMMA CurrentIsTyped ==
  ASSUME NEW f \in Seq(Objects), NEW i \in {None} \cup 1..Len(f), NEW e \in Environments
  PROVE  [set |-> IF i = None THEN << >> ELSE f[i], env |-> e] \in Configs
<1>1. (IF i = None THEN << >> ELSE f[i]) \in Objects
  BY NewObject
<1>2. QED BY <1>1 DEF Configs

LEMMA SeenIsTyped ==
  ASSUME seen \in [Threads -> SUBSET Configs], Seen, fields' \in Seq(Objects),
         instance' \in {None} \cup 1..Len(fields'), environ' \in Environments
  PROVE  seen' \in [Threads -> SUBSET Configs]
<1>1. Current' \in Configs
  BY CurrentIsTyped DEF Current
<1>2. QED BY <1>1 DEF Seen

(* What a setting read and its environment variable come to. *)
LEMMA ReadFits ==
  ASSUME VariableTypes, NEW t \in Threads, obj[t] # None, NEW s \in Settings, Has(t, s)
  PROVE  /\ Fits(s, Get(t, s))
         /\ s \in FromEnvironment => Or(Get(t, s), environ[s]) \in Given
         /\ s \in BaseUrls /\ Truthy(Or(Get(t, s), environ[s])) => Or(Get(t, s), environ[s]) \in Urls
<1>1. fields[obj[t]] \in Objects
  BY DEF VariableTypes
<1>2. Fits(s, Get(t, s))
  BY <1>1 DEF Objects, Has, Get
<1>3. environ \in Environments /\ DOMAIN environ = FromEnvironment
  BY ConfigurationAssumption DEF VariableTypes
<1>4. ASSUME s \in FromEnvironment PROVE Or(Get(t, s), environ[s]) \in Given
  <2>1. environ[s] \in Given
    BY <1>3, <1>4 DEF Given, Ran
  <2>2. Get(t, s) \in Given
    BY <1>2 DEF Fits, Given
  <2>3. QED BY <2>1, <2>2 DEF Or
<1>5. ASSUME s \in BaseUrls, Truthy(Or(Get(t, s), environ[s]))
      PROVE  Or(Get(t, s), environ[s]) \in Urls
  <2>1. s \in DOMAIN environ
    BY <1>3, <1>5 DEF BaseUrls, FromEnvironment
  <2>2. Truthy(environ[s]) => environ[s] \in Urls
    BY <1>3, <1>5, <2>1, UrlAssumption
  <2>3. Truthy(Get(t, s)) => Get(t, s) \in Urls
    BY <1>2, <1>5 DEF Fits
  <2>4. QED BY <1>5, <2>2, <2>3 DEF Or
<1>6. QED BY <1>2, <1>4, <1>5

LEMMA DefaultsAreUrls ==
  /\ DefaultUrl \in Urls /\ DefaultLogUrl \in Urls
  /\ RStripped(DefaultUrl) = DefaultUrl /\ RStripped(DefaultLogUrl) = DefaultLogUrl
BY UrlAssumption, Stripped

LEMMA HostsAreUrls ==
  ASSUME NEW id \in DOMAIN DerivedHost
  PROVE  <<DerivedHost[id]>> \in Urls /\ RStripped(<<DerivedHost[id]>>) = <<DerivedHost[id]>>
<1> DEFINE u == <<DerivedHost[id]>>
<1>1. DerivedHost[id] \in Segments /\ DerivedHost[id] # Empty
  BY UrlAssumption
<1>2. u \in Seq(Segments) /\ Len(u) = 1 /\ u[1] # Empty
  BY <1>1
<1> HIDE DEF u
<1>3. u \in Urls /\ u[Len(u)] # Empty
  BY <1>2 DEF Urls
<1>4. u \in Urls /\ RStripped(u) = u
  BY <1>3, Stripped
<1>5. QED BY <1>4 DEF u

(* A URL that is not refused: it has one slash and one /api before what it  *)
(* is for, and the base it was made of in front of them.                     *)
LEMMA UrlMade ==
  ASSUME NEW u \in Urls, NEW what \in {"url", "log"}, Normalized(u) # None,
         NEW url, url = Append(Append(Normalized(u), "api"), what)
  PROVE  /\ url \in Seq(Parts) /\ url # None /\ Last(url) = what
         /\ SubSeq(url, 1, Len(url) - 2) = RStripped(u)
         /\ Last(RStripped(u)) \notin {"api", Empty}
<1> DEFINE r == RStripped(u)
<1>1. r \in Urls /\ Last(r) # Empty
  BY Stripped
<1>2. Last(r) # "api" /\ Normalized(u) = r
  BY DEF Normalized
<1> HIDE DEF r
<1>3. r \in Seq(Parts)
  BY <1>1 DEF Urls, Parts
<1>4. "api" \in Parts /\ what \in Parts
  BY DEF Parts
<1> DEFINE v == Append(r, "api")
<1>5. v \in Seq(Parts) /\ Len(v) = Len(r) + 1 /\ \A i \in 1..Len(r) : v[i] = r[i]
  BY <1>3, <1>4
<1>6. url = Append(v, what)
  BY <1>2
<1> HIDE DEF v
<1>7. /\ url \in Seq(Parts) /\ Len(url) = Len(r) + 2 /\ url[Len(url)] = what
      /\ \A i \in 1..Len(r) : url[i] = r[i]
  <2>1. /\ url \in Seq(Parts) /\ Len(url) = Len(v) + 1 /\ url[Len(v) + 1] = what
        /\ \A i \in 1..Len(v) : url[i] = v[i]
    <3> DEFINE w == Append(v, what)
    <3>1. w \in Seq(Parts) /\ Len(w) = Len(v) + 1 /\ w[Len(v) + 1] = what /\ \A i \in 1..Len(v) : w[i] = v[i]
      BY <1>4, <1>5, AppendProperties
    <3>2. QED BY <1>6, <3>1
  <2>2. Len(r) \in Nat
    BY <1>3
  <2>3. QED BY <1>5, <2>1, <2>2
<1>8. SubSeq(url, 1, Len(url) - 2) = r
  BY <1>3, <1>7
<1>9. url # None
  BY <1>7, ValueAssumption DEF Parts
<1>10. QED BY <1>1, <1>2, <1>7, <1>8, <1>9 DEF r, Last

(* A base is refused only for ending in /api. *)
LEMMA UrlRefused ==
  ASSUME NEW u \in Urls, Normalized(u) = None
  PROVE  Last(RStripped(u)) = "api"
<1>1. RStripped(u) \in Seq(Parts)
  BY Stripped DEF Urls, Parts
<1>2. RStripped(u) # None
  BY <1>1, ValueAssumption DEF Parts
<1>3. QED BY <1>2 DEF Normalized

(* The steps keep the types. *)
LEMMA OthersHold ==
  ASSUME NEW t \in Threads, Aside(t), NEW u \in Threads \ {t}, Holds(u), instance # None => instance' # None
  PROVE  Holds(u)'
BY DEF Aside, Holds, Configuring

LEMMA EndedTyped ==
  ASSUME Typed, NEW t \in Threads, NEW how \in Ends, Ended(t, how),
         UNCHANGED <<shared, bounds, history>>, request' \in [Threads -> Requests]
  PROVE  VariableTypes' /\ Holds(t)'
<1>1. /\ pc' \in [Threads -> Locations] /\ pc'[t] = "ended"
      /\ obj' \in [Threads -> {None} \cup 1..Len(fields)]
      /\ values' \in [Threads -> Changes \cup {<< >>}]
      /\ left' \in [Threads -> SUBSET DOMAIN Order]
  BY DEF Typed, VariableTypes, Ended, Goto, Rest, Locations
<1>2. /\ stage' \in [Threads -> {"none", "configure", "url", "log", "header"} \cup Ends]
      /\ stage'[t] = how
  BY DEF Typed, VariableTypes, Ended
<1>3. VariableTypes'
  BY <1>1, <1>2 DEF Typed, VariableTypes, shared, bounds, history
<1>4. Holds(t)'
  BY <1>1, <1>2 DEF Holds, Wants, Locations, Configuring, Ends
<1>5. QED BY <1>3, <1>4

LEMMA ResolvedTyped ==
  ASSUME Typed, NEW t \in Threads, stage[t] \in {"url", "log"}, NEW u \in Urls, Resolved(t, u),
         UNCHANGED <<bounds, history>>
  PROVE  VariableTypes' /\ Holds(t)'
<1>1. CASE Normalized(u) = None
  <2>1. Ended(t, "ValueError") /\ UNCHANGED shared /\ UNCHANGED request
    BY <1>1 DEF Resolved
  <2>2. request' \in [Threads -> Requests]
    BY <2>1 DEF Typed, VariableTypes
  <2>3. QED BY <2>1, <2>2, EndedTyped DEF Ends
<1>2. CASE Normalized(u) # None
  <2> DEFINE url == Append(Append(Normalized(u), "api"), stage[t])
  <2>1. url \in Seq(Parts)
    BY <1>2, UrlMade
  <2>2. /\ request' = [request EXCEPT ![t].url = url]
        /\ writer' = IF stage[t] = "log" THEN url ELSE writer
        /\ stage' = [stage EXCEPT ![t] = "header"]
        /\ pc' = [pc EXCEPT ![t] = "enter"]
        /\ UNCHANGED <<environ, instance, fields, obj, values, left>>
    BY <1>2 DEF Resolved, Goto
  <2> HIDE DEF url
  <2>3. request' \in [Threads -> Requests]
    <3>1. request \in [Threads -> Requests] /\ request[t] \in Requests
      BY DEF Typed, VariableTypes
    <3>2. [request[t] EXCEPT !.url = url] \in Requests
      BY <2>1, <3>1 DEF Requests
    <3>3. QED BY <2>2, <3>1, <3>2
  <2>4. /\ pc' \in [Threads -> Locations] /\ pc'[t] = "enter" /\ stage'[t] = "header"
        /\ stage' \in [Threads -> {"none", "configure", "url", "log", "header"} \cup Ends]
    BY <2>2 DEF Typed, VariableTypes, Locations
  <2>5. VariableTypes'
    BY <2>1, <2>2, <2>3, <2>4 DEF Typed, VariableTypes, bounds, history
  <2>6. Holds(t)'
    BY <2>4 DEF Holds, Wants, Locations, Configuring
  <2>7. QED BY <2>5, <2>6
<1>3. QED BY <1>1, <1>2

LEMMA ThenTyped ==
  ASSUME Typed, NEW t \in Threads, stage[t] = "url", obj[t] # None, NEW where \in {"flag", "slug"},
         Then(t, where), UNCHANGED <<bounds, history>>
  PROVE  VariableTypes' /\ Holds(t)'
<1>1. pc' \in [Threads -> Locations] /\ pc'[t] = where
  BY DEF Typed, VariableTypes, Then, Goto, Locations
<1>2. VariableTypes'
  BY <1>1 DEF Typed, VariableTypes, Then, shared, bounds, history
<1>3. Holds(t)'
  BY <1>1 DEF Holds, Wants, Locations, Configuring, Then
<1>4. QED BY <1>2, <1>3

(* What a reading step does when the attribute is not there. *)
LEMMA RaisedTyped ==
  ASSUME Typed, NEW t \in Threads, Ended(t, "AttributeError"), UNCHANGED <<shared, request>>,
         UNCHANGED <<bounds, history>>
  PROVE  VariableTypes' /\ Holds(t)'
<1>1. request' \in [Threads -> Requests]
  BY DEF Typed, VariableTypes
<1>2. QED BY <1>1, EndedTyped DEF Ends

LEMMA ReadingTyped ==
  ASSUME Typed, NEW t \in Threads,
         ReadBaseUrl(t) \/ ReadFlag(t) \/ ReadSlug(t) \/ ReadLogUrl(t) \/ ReadId(t) \/ ReadSecret(t)
  PROVE  VariableTypes' /\ Holds(t)' /\ instance' = instance
<1> USE DEF Typed
<1>h. Holds(t)
  OBVIOUS
<1>1. CASE ReadBaseUrl(t)
  <2>1. pc[t] = "base" /\ UNCHANGED <<bounds, history>>
    BY <1>1 DEF ReadBaseUrl, Reading
  <2>2. stage[t] = "url" /\ obj[t] # None
    BY <1>h, <2>1 DEF Holds, Wants, Locations
  <2>3. CASE ~Has(t, "base_url")
    <3>1. Ended(t, "AttributeError") /\ UNCHANGED <<shared, request>>
      BY <1>1, <2>3 DEF ReadBaseUrl, Reading
    <3>2. QED BY <2>1, <3>1, RaisedTyped DEF shared
  <2>4. CASE Has(t, "base_url")
    <3> DEFINE w == Or(Get(t, "base_url"), environ["base_url"])
    <3>1. IF Truthy(w) THEN Resolved(t, w) ELSE Then(t, "flag")
      BY <1>1, <2>4 DEF ReadBaseUrl, Reading
    <3>2. Truthy(w) => w \in Urls
      BY <2>2, <2>4, ReadFits, Places DEF BaseUrls
    <3> HIDE DEF w
    <3>3. CASE Truthy(w)
      <4>1. Resolved(t, w) /\ instance' = instance
        BY <3>1, <3>3 DEF Resolved, shared
      <4>2. QED BY <2>1, <2>2, <3>2, <3>3, <4>1, ResolvedTyped
    <3>4. CASE ~Truthy(w)
      <4>1. Then(t, "flag") /\ instance' = instance
        BY <3>1, <3>4 DEF Then, shared
      <4>2. QED BY <2>1, <2>2, <4>1, ThenTyped
    <3>5. QED BY <3>3, <3>4
  <2>5. QED BY <2>3, <2>4
<1>2. CASE ReadFlag(t)
  <2>1. pc[t] = "flag" /\ UNCHANGED <<bounds, history>>
    BY <1>2 DEF ReadFlag, Reading
  <2>2. stage[t] = "url" /\ obj[t] # None
    BY <1>h, <2>1 DEF Holds, Wants, Locations
  <2>3. CASE ~Has(t, "derive")
    <3>1. Ended(t, "AttributeError") /\ UNCHANGED <<shared, request>>
      BY <1>2, <2>3 DEF ReadFlag, Reading
    <3>2. QED BY <2>1, <3>1, RaisedTyped DEF shared
  <2>4. CASE Has(t, "derive")
    <3>1. IF Get(t, "derive") THEN Then(t, "slug") ELSE Resolved(t, DefaultUrl)
      BY <1>2, <2>4 DEF ReadFlag, Reading
    <3>2. CASE Then(t, "slug")
      <4>1. instance' = instance
        BY <3>2 DEF Then, shared
      <4>2. QED BY <2>1, <2>2, <3>2, <4>1, ThenTyped
    <3>3. CASE Resolved(t, DefaultUrl)
      <4>1. instance' = instance
        BY <3>3 DEF Resolved, shared
      <4>2. QED BY <2>1, <2>2, <3>3, <4>1, ResolvedTyped, DefaultsAreUrls
    <3>4. QED BY <3>1, <3>2, <3>3
  <2>5. QED BY <2>3, <2>4
<1>3. CASE ReadSlug(t)
  <2>1. pc[t] = "slug" /\ UNCHANGED <<bounds, history>>
    BY <1>3 DEF ReadSlug, Reading
  <2>2. stage[t] = "url" /\ obj[t] # None
    BY <1>h, <2>1 DEF Holds, Wants, Locations
  <2>3. CASE ~Has(t, "client_id")
    <3>1. Ended(t, "AttributeError") /\ UNCHANGED <<shared, request>>
      BY <1>3, <2>3 DEF ReadSlug, Reading
    <3>2. QED BY <2>1, <3>1, RaisedTyped DEF shared
  <2>4. CASE Has(t, "client_id")
    <3> DEFINE id == Or(Get(t, "client_id"), environ["client_id"])
               u == IF id \in DOMAIN DerivedHost THEN <<DerivedHost[id]>> ELSE DefaultUrl
    <3>1. Resolved(t, u)
      BY <1>3, <2>4 DEF ReadSlug, Reading
    <3>2. u \in Urls
      BY HostsAreUrls, DefaultsAreUrls
    <3> HIDE DEF u
    <3>3. instance' = instance
      BY <3>1 DEF Resolved, shared
    <3>4. QED BY <2>1, <2>2, <3>1, <3>2, <3>3, ResolvedTyped
  <2>5. QED BY <2>3, <2>4
<1>4. CASE ReadLogUrl(t)
  <2>1. pc[t] = "log" /\ UNCHANGED <<bounds, history>>
    BY <1>4 DEF ReadLogUrl, Reading
  <2>2. stage[t] = "log" /\ obj[t] # None
    BY <1>h, <2>1 DEF Holds, Wants, Locations
  <2>3. CASE ~Has(t, "log_base_url")
    <3>1. Ended(t, "AttributeError") /\ UNCHANGED <<shared, request>>
      BY <1>4, <2>3 DEF ReadLogUrl, Reading
    <3>2. QED BY <2>1, <3>1, RaisedTyped DEF shared
  <2>4. CASE Has(t, "log_base_url")
    <3> DEFINE w == Or(Get(t, "log_base_url"), environ["log_base_url"])
               u == IF Truthy(w) THEN w ELSE DefaultLogUrl
    <3>1. Resolved(t, u)
      BY <1>4, <2>4 DEF ReadLogUrl, Reading
    <3>2. u \in Urls
      BY <2>2, <2>4, ReadFits, Places, DefaultsAreUrls DEF BaseUrls
    <3> HIDE DEF u
    <3>3. instance' = instance
      BY <3>1 DEF Resolved, shared
    <3>4. QED BY <2>1, <2>2, <3>1, <3>2, <3>3, ResolvedTyped
  <2>5. QED BY <2>3, <2>4
<1>5. CASE ReadId(t)
  <2>1. pc[t] = "id" /\ UNCHANGED <<bounds, history>>
    BY <1>5 DEF ReadId, Reading
  <2>2. stage[t] = "header" /\ obj[t] # None
    BY <1>h, <2>1 DEF Holds, Wants, Locations
  <2>3. CASE ~Has(t, "client_id")
    <3>1. Ended(t, "AttributeError") /\ UNCHANGED <<shared, request>>
      BY <1>5, <2>3 DEF ReadId, Reading
    <3>2. QED BY <2>1, <3>1, RaisedTyped DEF shared
  <2>4. CASE Has(t, "client_id")
    <3> DEFINE id == Or(Get(t, "client_id"), environ["client_id"])
    <3>1. /\ request' = [request EXCEPT ![t].id = id] /\ Goto(t, "secret")
          /\ UNCHANGED <<shared, stage, obj, values, left>>
      BY <1>5, <2>4 DEF ReadId, Reading
    <3>2. id \in Given
      BY <2>2, <2>4, ReadFits, Places DEF FromEnvironment
    <3> HIDE DEF id
    <3>3. request' \in [Threads -> Requests]
      <4>1. request \in [Threads -> Requests] /\ request[t] \in Requests
        BY DEF VariableTypes
      <4>2. [request[t] EXCEPT !.id = id] \in Requests
        BY <3>2, <4>1 DEF Requests
      <4>3. QED BY <3>1, <4>1, <4>2
    <3>4. pc' \in [Threads -> Locations] /\ pc'[t] = "secret"
      BY <3>1 DEF VariableTypes, Goto, Locations
    <3>5. VariableTypes'
      BY <2>1, <3>1, <3>3, <3>4 DEF VariableTypes, shared, bounds, history
    <3>6. Holds(t)'
      BY <2>2, <3>1, <3>4 DEF Holds, Wants, Locations, Configuring
    <3>7. QED BY <3>1, <3>5, <3>6 DEF shared
  <2>5. QED BY <2>3, <2>4
<1>6. CASE ReadSecret(t)
  <2>1. pc[t] = "secret" /\ UNCHANGED <<bounds, history>>
    BY <1>6 DEF ReadSecret, Reading
  <2>2. stage[t] = "header" /\ obj[t] # None
    BY <1>h, <2>1 DEF Holds, Wants, Locations
  <2>3. CASE ~Has(t, "client_secret")
    <3>1. Ended(t, "AttributeError") /\ UNCHANGED <<shared, request>>
      BY <1>6, <2>3 DEF ReadSecret, Reading
    <3>2. QED BY <2>1, <3>1, RaisedTyped DEF shared
  <2>4. CASE Has(t, "client_secret")
    <3> DEFINE secret == Or(Get(t, "client_secret"), environ["client_secret"])
               how == IF Truthy(request[t].id) /\ Truthy(secret) THEN "sent" ELSE "ConfigurationError"
    <3>1. request' = [request EXCEPT ![t].secret = secret] /\ Ended(t, how) /\ UNCHANGED shared
      BY <1>6, <2>4 DEF ReadSecret, Reading
    <3>2. secret \in Given
      BY <2>2, <2>4, ReadFits, Places DEF FromEnvironment
    <3>3. how \in Ends
      BY DEF Ends
    <3> HIDE DEF secret, how
    <3>4. request' \in [Threads -> Requests]
      <4>1. request \in [Threads -> Requests] /\ request[t] \in Requests
        BY DEF VariableTypes
      <4>2. [request[t] EXCEPT !.secret = secret] \in Requests
        BY <3>2, <4>1 DEF Requests
      <4>3. QED BY <3>1, <4>1, <4>2
    <3>5. QED BY <2>1, <3>1, <3>3, <3>4, EndedTyped DEF shared
  <2>5. QED BY <2>3, <2>4
<1>7. QED BY <1>1, <1>2, <1>3, <1>4, <1>5, <1>6

(* The steps of a change of configuration. *)
LEMMA BeginTyped ==
  ASSUME Typed, NEW t \in Threads, NEW a \in Changes, Started(t), Begin(t, a)
  PROVE  VariableTypes' /\ Holds(t)' /\ instance' = instance
<1>1. /\ pc' \in [Threads -> Locations] /\ pc'[t] = "enter"
      /\ stage' \in [Threads -> {"none", "configure", "url", "log", "header"} \cup Ends]
      /\ stage'[t] = "configure"
      /\ values' \in [Threads -> Changes \cup {<< >>}] /\ values'[t] = a
  BY DEF Typed, VariableTypes, Begin, Goto, Locations
<1>2. mixed' \in BOOLEAN /\ quiet' \in [Threads -> BOOLEAN]
  BY DEF Typed, VariableTypes, Begin
<1>3. changes' \in 0..MaxChanges
  BY ConfigurationAssumption DEF Typed, VariableTypes, Started
<1>4. VariableTypes'
  BY <1>1, <1>2, <1>3 DEF Typed, VariableTypes, Begin, shared
<1>5. Holds(t)'
  BY <1>1 DEF Holds, Wants, Locations, Configuring
<1>6. QED BY <1>4, <1>5 DEF Begin, shared

LEMMA GotTyped ==
  ASSUME Typed, NEW t \in Threads, stage[t] \in {"configure", "url", "log", "header"},
         pc[t] \in {"enter", "defaults"}, instance # None, Got(t)
  PROVE  VariableTypes' /\ Holds(t)' /\ instance' = instance
<1>1. /\ pc' \in [Threads -> Locations] /\ pc'[t] = Work(t)
      /\ obj' \in [Threads -> {None} \cup 1..Len(fields)] /\ obj'[t] = instance
      /\ left' \in [Threads -> SUBSET DOMAIN Order]
      /\ left'[t] = {k \in DOMAIN Order : Order[k] \in DOMAIN values[t]}
  BY DEF Typed, VariableTypes, Got, Goto, Work, Locations
<1>2. VariableTypes'
  BY <1>1 DEF Typed, VariableTypes, Got, shared, bounds, history
<1>3. Configuring(t)' => values'[t] \in Changes
  BY DEF Typed, Holds, Got, Configuring
<1>4. Holds(t)'
  BY <1>1, <1>3 DEF Holds, Wants, Locations, Work, Configuring, Got, Typed
<1>5. QED BY <1>2, <1>4 DEF Got, shared

LEMMA FieldTyped ==
  ASSUME Typed, NEW t \in Threads, pc[t] \in {"defaults", "assign"}, left[t] # {}, NEW v,
         Fits(Coming(t), v), SetField(obj[t], Coming(t), v), Advance(t), Seen,
         UNCHANGED <<environ, instance, writer, pc, stage, obj, values, request, bounds, done, mixed, quiet>>
  PROVE  VariableTypes' /\ Holds(t)' /\ instance' = instance
<1>1. obj[t] \in 1..Len(fields) /\ left[t] \subseteq DOMAIN Order
  BY DEF Typed, VariableTypes, Holds
<1>2. Coming(t) \in Settings /\ Min(left[t]) \in left[t]
  BY <1>1, ComingIsLeft
<1>3. fields' \in Seq(Objects) /\ Len(fields') = Len(fields)
  BY <1>1, <1>2, FieldSet DEF Typed, VariableTypes
<1>4. seen' \in [Threads -> SUBSET Configs]
  BY <1>3, SeenIsTyped DEF Typed, VariableTypes
<1>5. left' \in [Threads -> SUBSET DOMAIN Order] /\ left'[t] \subseteq left[t]
  BY DEF Typed, VariableTypes, Advance
<1>6. VariableTypes'
  BY <1>3, <1>4, <1>5 DEF Typed, VariableTypes, bounds
<1>7. Holds(t)'
  BY <1>5 DEF Typed, Holds, Configuring
<1>8. QED BY <1>6, <1>7

LEMMA ChangingTyped ==
  ASSUME Typed, NEW t \in Threads,
         Enter(t) \/ Look(t) \/ Publish(t) \/ Target(t) \/ InitDefault(t) \/ Return(t) \/ Assign(t) \/ Configured(t)
  PROVE  VariableTypes' /\ Holds(t)' /\ (instance # None => instance' # None)
<1> USE DEF Typed
<1>h. Holds(t)
  OBVIOUS
<1>1. CASE Enter(t) \/ Return(t)
  <2>1. stage[t] \in {"configure", "url", "log", "header"} /\ instance # None /\ Got(t)
        /\ pc[t] \in {"enter", "defaults"}
    BY <1>h, <1>1 DEF Enter, Return, Holds, Wants, Locations
  <2>2. QED BY <2>1, GotTyped
<1>2. CASE Look(t)
  <2>1. pc[t] = "enter" /\ pc' \in [Threads -> Locations] /\ pc'[t] = "publish"
    BY <1>2 DEF VariableTypes, Look, Goto, Locations
  <2>2. VariableTypes'
    BY <1>2, <2>1 DEF VariableTypes, Look, shared, bounds, history
  <2>3. Holds(t)'
    BY <1>h, <1>2, <2>1 DEF Look, Holds, Wants, Locations, Configuring
  <2>4. QED BY <1>2, <2>2, <2>3 DEF Look, shared
<1>3. CASE Publish(t)
  <2>1. pc[t] = "publish" /\ pc' \in [Threads -> Locations] /\ pc'[t] = "target"
    BY <1>3 DEF VariableTypes, Publish, Goto, Locations
  <2>2. /\ fields' \in Seq(Objects) /\ Len(fields') = Len(fields) + 1 /\ Len(fields) \in Nat
    BY <1>3, NewObject, AppendProperties DEF VariableTypes, Publish
  <2>3. instance' \in 1..Len(fields') /\ instance' # None
    BY <1>3, <2>2, ValueAssumption DEF Publish
  <2>4. obj' \in [Threads -> {None} \cup 1..Len(fields')]
    BY <1>3, <2>2 DEF VariableTypes, Publish
  <2>5. seen' \in [Threads -> SUBSET Configs]
    BY <1>3, <2>2, <2>3, SeenIsTyped DEF VariableTypes, Publish
  <2>6. VariableTypes'
    BY <1>3, <2>1, <2>2, <2>3, <2>4, <2>5 DEF VariableTypes, Publish, bounds
  <2>7. Holds(t)'
    BY <1>h, <1>3, <2>1, <2>3 DEF Publish, Holds, Wants, Locations, Configuring
  <2>8. QED BY <2>3, <2>6, <2>7
<1>4. CASE Target(t)
  <2>1. /\ pc[t] = "target" /\ pc' \in [Threads -> Locations] /\ pc'[t] = "defaults"
        /\ obj' \in [Threads -> {None} \cup 1..Len(fields)] /\ obj'[t] = instance
        /\ left' \in [Threads -> SUBSET DOMAIN Order]
    BY <1>4 DEF VariableTypes, Target, Goto, Locations
  <2>2. VariableTypes'
    BY <1>4, <2>1 DEF VariableTypes, Target, shared, bounds, history
  <2>3. Holds(t)'
    BY <1>h, <1>4, <2>1 DEF Target, Holds, Wants, Locations, Configuring, shared
  <2>4. QED BY <1>4, <2>2, <2>3 DEF Target, shared
<1>5. CASE InitDefault(t)
  <2>1. left[t] \subseteq DOMAIN Order
    BY DEF VariableTypes
  <2>2. Fits(Coming(t), Default[Coming(t)])
    BY <1>5, <2>1, ComingIsLeft, DefaultFits DEF InitDefault
  <2>3. QED BY <1>5, <2>2, FieldTyped DEF InitDefault
<1>6. CASE Assign(t)
  <2> DEFINE s == Coming(t)  v == values[t][s]
  <2>1. pc[t] = "assign" /\ left[t] # {} /\ UNCHANGED <<stage, request, bounds>> /\ left[t] \subseteq DOMAIN Order
    BY <1>6 DEF Assign, VariableTypes
  <2>2. CASE s \in {"cache_ttl", "derive"} /\ v = Bad
    <3>1. Goto(t, "idle") /\ Rest(t) /\ UNCHANGED <<shared, history>>
      BY <1>6, <2>2 DEF Assign
    <3>2. /\ pc' \in [Threads -> Locations] /\ pc'[t] = "idle"
          /\ obj' \in [Threads -> {None} \cup 1..Len(fields)]
          /\ values' \in [Threads -> Changes \cup {<< >>}]
          /\ left' \in [Threads -> SUBSET DOMAIN Order]
      BY <3>1 DEF VariableTypes, Goto, Rest, Locations
    <3>3. VariableTypes'
      BY <2>1, <3>1, <3>2 DEF VariableTypes, shared, bounds, history
    <3>4. Holds(t)'
      BY <1>h, <2>1, <3>2 DEF Holds, Wants, Locations, Configuring
    <3>5. QED BY <3>1, <3>3, <3>4 DEF shared
  <2>3. CASE ~(s \in {"cache_ttl", "derive"} /\ v = Bad)
    <3>1. /\ SetField(obj[t], s, v) /\ Advance(t) /\ Seen
          /\ UNCHANGED <<environ, instance, writer, pc, obj, values, done, mixed, quiet>>
      BY <1>6, <2>3 DEF Assign
    <3>2. s \in DOMAIN values[t] /\ values[t] \in Changes
      BY <1>h, <2>1, ComingIsLeft DEF Holds, Wants, Locations, Configuring
    <3>3. Fits(s, v)
      BY <2>3, <3>2, ChangeFits
    <3>4. QED BY <2>1, <3>1, <3>3, FieldTyped
  <2>4. QED BY <2>2, <2>3
<1>7. CASE Configured(t)
  <2>1. pc[t] = "assign" /\ Goto(t, "idle") /\ Rest(t) /\ done' = Append(done, values[t])
        /\ UNCHANGED <<shared, stage, request, bounds, mixed, quiet, seen>>
    BY <1>7 DEF Configured
  <2>2. /\ pc' \in [Threads -> Locations] /\ pc'[t] = "idle"
        /\ obj' \in [Threads -> {None} \cup 1..Len(fields)]
        /\ values' \in [Threads -> Changes \cup {<< >>}]
        /\ left' \in [Threads -> SUBSET DOMAIN Order]
    BY <2>1 DEF VariableTypes, Goto, Rest, Locations
  <2>3. values[t] \in Changes
    BY <1>h, <2>1 DEF Holds, Wants, Locations, Configuring
  <2>4. done' \in Seq(Changes)
    BY <2>1, <2>3, AppendProperties DEF VariableTypes
  <2>5. VariableTypes'
    BY <2>1, <2>2, <2>4 DEF VariableTypes, shared, bounds
  <2>6. Holds(t)'
    BY <1>h, <2>1, <2>2 DEF Holds, Wants, Locations, Configuring
  <2>7. QED BY <2>1, <2>5, <2>6 DEF shared
<1>8. QED BY <1>1, <1>2, <1>3, <1>4, <1>5, <1>6, <1>7

(* The steps of a call. *)
LEMMA CallTyped ==
  ASSUME Typed, NEW t \in Threads, NEW what \in {"url", "log", "header"}, pc[t] = "idle", calls < MaxCalls,
         calls' = calls + 1, Goto(t, "enter"), stage' = [stage EXCEPT ![t] = what],
         quiet' = [quiet EXCEPT ![t] = \A u \in Threads : ~Configuring(u)],
         seen' = [seen EXCEPT ![t] = {Current}], request' \in [Threads -> Requests],
         UNCHANGED <<shared, obj, values, left, changes, done, mixed>>
  PROVE  VariableTypes' /\ Holds(t)' /\ instance' = instance
<1>1. /\ pc' \in [Threads -> Locations] /\ pc'[t] = "enter"
      /\ stage' \in [Threads -> {"none", "configure", "url", "log", "header"} \cup Ends]
      /\ stage'[t] = what
  BY DEF Typed, VariableTypes, Goto, Locations
<1>2. Current \in Configs
  BY CurrentIsTyped DEF Typed, VariableTypes, Current
<1>3. seen' \in [Threads -> SUBSET Configs]
  BY <1>2 DEF Typed, VariableTypes
<1>4. quiet' \in [Threads -> BOOLEAN]
  BY DEF Typed, VariableTypes
<1>5. calls' \in 0..MaxCalls
  BY ConfigurationAssumption DEF Typed, VariableTypes
<1>6. VariableTypes'
  BY <1>1, <1>3, <1>4, <1>5 DEF Typed, VariableTypes, shared
<1>7. Holds(t)'
  BY <1>1 DEF Holds, Wants, Locations, Configuring
<1>8. QED BY <1>6, <1>7 DEF shared

LEMMA ServingTyped ==
  ASSUME Typed, NEW t \in Threads, CallIntake(t) \/ FirstRow(t) \/ NextRow(t) \/ Again(t)
  PROVE  VariableTypes' /\ Holds(t)' /\ instance' = instance
<1> USE DEF Typed
<1>1. CASE CallIntake(t) \/ FirstRow(t)
  <2>1. PICK what \in {"url", "log"} : BeginCall(t, what)
    BY <1>1 DEF CallIntake, FirstRow
  <2>2. request' \in [Threads -> Requests]
    BY <2>1 DEF BeginCall, VariableTypes
  <2>3. QED BY <2>1, <2>2, CallTyped DEF BeginCall
<1>2. CASE NextRow(t)
  <2>1. request' \in [Threads -> Requests]
    <3>1. /\ request \in [Threads -> Requests] /\ request[t] \in Requests
          /\ writer \in Seq(Parts) /\ request' = [request EXCEPT ![t].url = writer]
      BY <1>2 DEF VariableTypes, NextRow
    <3>2. [request[t] EXCEPT !.url = writer] \in Requests
      BY <3>1 DEF Requests
    <3>3. QED BY <3>1, <3>2
  <2>2. QED BY <1>2, <2>1, CallTyped DEF NextRow
<1>3. CASE Again(t)
  <2>1. /\ pc' \in [Threads -> Locations] /\ pc'[t] = "idle"
        /\ stage' \in [Threads -> {"none", "configure", "url", "log", "header"} \cup Ends]
        /\ stage'[t] = "none"
    BY <1>3 DEF VariableTypes, Again, Goto, Locations
  <2>2. request' \in [Threads -> Requests]
    <3>1. NoRequest \in Requests
      BY DEF NoRequest, Requests, Given, Values
    <3>2. QED BY <1>3, <3>1 DEF VariableTypes, Again
  <2>3. seen' \in [Threads -> SUBSET Configs]
    BY <1>3 DEF VariableTypes, Again
  <2>4. VariableTypes'
    BY <1>3, <2>1, <2>2, <2>3 DEF VariableTypes, Again, shared, bounds
  <2>5. Holds(t)'
    BY <2>1 DEF Holds, Wants, Locations, Configuring
  <2>6. QED BY <1>3, <2>4, <2>5 DEF Again, shared
<1>4. QED BY <1>1, <1>2, <1>3

(* A rejected call of configure() is counted, and changes nothing. *)
Dropped(t) ==
  /\ Started(t)
  /\ UNCHANGED <<shared, pc, stage, obj, values, left, request, calls, history>>

LEMMA StepKinds ==
  ASSUME NEW t \in Threads, Step(t)
  PROVE  \/ \E a \in Changes : (a \in Attributes \/ ~Rejected(a)) /\ Started(t) /\ Begin(t, a)
         \/ Dropped(t)
         \/ Enter(t) \/ Look(t) \/ Publish(t) \/ Target(t) \/ InitDefault(t) \/ Return(t)
         \/ Assign(t) \/ Configured(t)
         \/ CallIntake(t) \/ FirstRow(t) \/ NextRow(t) \/ Again(t)
         \/ ReadBaseUrl(t) \/ ReadFlag(t) \/ ReadSlug(t) \/ ReadLogUrl(t) \/ ReadId(t) \/ ReadSecret(t)
<1>1. ASSUME NEW a \in Arguments, Configure(t, a)
      PROVE  Dropped(t) \/ \E b \in Changes : (b \in Attributes \/ ~Rejected(b)) /\ Started(t) /\ Begin(t, b)
  BY <1>1 DEF Configure, Dropped, Changes
<1>2. ASSUME NEW a \in Attributes, SetAttribute(t, a)
      PROVE  \E b \in Changes : (b \in Attributes \/ ~Rejected(b)) /\ Started(t) /\ Begin(t, b)
  BY <1>2 DEF SetAttribute, Changes
<1>3. QED BY <1>1, <1>2 DEF Step

LEMMA TypedStep ==
  ASSUME Typed, NEW t \in Threads, Step(t)
  PROVE  Typed'
<1>1. VariableTypes' /\ Holds(t)' /\ (instance # None => instance' # None)
  <2>1. ASSUME NEW a \in Changes, Started(t), Begin(t, a)
        PROVE  VariableTypes' /\ Holds(t)' /\ (instance # None => instance' # None)
    BY <2>1, BeginTyped
  <2>2. CASE Dropped(t)
    <3>1. changes' \in 0..MaxChanges
      BY <2>2, ConfigurationAssumption DEF Dropped, Started, Typed, VariableTypes
    <3>2. VariableTypes'
      BY <2>2, <3>1 DEF Typed, VariableTypes, Dropped, shared, history
    <3>3. Holds(t)'
      BY <2>2 DEF Typed, Holds, Configuring, Dropped, shared
    <3>4. QED BY <2>2, <3>2, <3>3 DEF Dropped, shared
  <2>3. QED BY <2>1, <2>2, StepKinds, ChangingTyped, ReadingTyped, ServingTyped
<1>2. ASSUME NEW u \in Threads \ {t} PROVE Holds(u)'
  BY <1>1, StepAside, OthersHold DEF Typed
<1>3. QED BY <1>1, <1>2 DEF Typed

LEMMA TypedInvariant == Spec => []Typed
<1>1. Init => Typed
  <2> SUFFICES ASSUME Init PROVE Typed
    OBVIOUS
  <2>1. fields \in Seq(Objects) /\ Len(fields) = 0 /\ done \in Seq(Changes)
    BY DEF Init
  <2>2. NoRequest \in Requests
    BY DEF NoRequest, Requests, Given, Values
  <2>3. VariableTypes
    <3>1. writer = None /\ instance = None /\ environ \in Environments
          /\ pc \in [Threads -> Locations] /\ obj \in [Threads -> {None}]
          /\ values \in [Threads -> {<< >>}] /\ left \in [Threads -> SUBSET DOMAIN Order]
      BY DEF Init, Locations
    <3>2. /\ stage \in [Threads -> {"none", "configure", "url", "log", "header"} \cup Ends]
          /\ request \in [Threads -> Requests]
          /\ seen \in [Threads -> SUBSET Configs]
      BY <2>2 DEF Init
    <3>3. changes \in 0..MaxChanges /\ calls \in 0..MaxCalls
      BY ConfigurationAssumption DEF Init
    <3>4. mixed \in BOOLEAN /\ quiet \in [Threads -> BOOLEAN]
      BY DEF Init
    <3>5. QED BY <2>1, <3>1, <3>2, <3>3, <3>4 DEF VariableTypes
  <2>4. \A t \in Threads : Holds(t)
    BY DEF Init, Holds, Wants, Locations, Configuring
  <2>5. QED BY <2>3, <2>4 DEF Typed
<1>2. Typed /\ [Next]_vars => Typed'
  <2> SUFFICES ASSUME Typed, [Next]_vars PROVE Typed'
    OBVIOUS
  <2>1. ASSUME NEW t \in Threads, Step(t) PROVE Typed'
    BY <2>1, TypedStep
  <2>2. ASSUME NEW e \in Environments, SetEnvironment(e) PROVE Typed'
    <3>1. seen' \in [Threads -> SUBSET Configs]
      BY <2>2, SeenIsTyped DEF Typed, VariableTypes, SetEnvironment
    <3>2. changes' \in 0..MaxChanges /\ quiet' \in [Threads -> BOOLEAN]
      BY <2>2, ConfigurationAssumption DEF Typed, VariableTypes, SetEnvironment
    <3>3. VariableTypes'
      BY <2>2, <3>1, <3>2 DEF Typed, VariableTypes, SetEnvironment
    <3>4. \A t \in Threads : Holds(t)'
      BY <2>2 DEF Typed, Holds, Configuring, SetEnvironment
    <3>5. QED BY <3>3, <3>4 DEF Typed
  <2>3. CASE UNCHANGED vars
    <3>1. VariableTypes'
      BY <2>3 DEF Typed, VariableTypes, vars, shared, bounds, history
    <3>2. \A t \in Threads : Holds(t)'
      BY <2>3 DEF Typed, Holds, Configuring, vars, shared, bounds, history
    <3>3. QED BY <3>1, <3>2 DEF Typed
  <2>4. QED BY <2>1, <2>2, <2>3, Steps
<1>3. QED BY <1>1, <1>2, PTL DEF Spec

(* Every object holds settings only, a thread that works for a change or a  *)
(* call has an object, and one that ended has an outcome: whoever is first. *)
THEOREM TypeCorrect == Spec => []TypeOK
<1>1. Typed => TypeOK
  <2> SUFFICES ASSUME Typed PROVE TypeOK
    OBVIOUS
  <2>1. \A o \in DOMAIN fields : DOMAIN fields[o] \subseteq Settings
    BY DEF Typed, VariableTypes, Objects
  <2>2. ASSUME NEW t \in Threads
        PROVE  /\ left[t] \subseteq DOMAIN Order
               /\ obj[t] \in {None} \cup DOMAIN fields
               /\ pc[t] \notin {"idle", "enter", "publish", "target", "ended"} => obj[t] # None
               /\ pc[t] = "ended" <=> stage[t] \in Ends
    <3>1. /\ pc[t] \in Locations /\ stage[t] \in Wants[pc[t]] /\ left[t] \subseteq DOMAIN Order
          /\ obj[t] \in {None} \cup 1..Len(fields)
          /\ pc[t] \notin {"idle", "enter", "publish", "target", "ended"} => obj[t] # None
      BY DEF Typed, VariableTypes, Holds
    <3>2. DOMAIN fields = 1..Len(fields)
      BY DEF Typed, VariableTypes
    <3>3. pc[t] = "ended" => stage[t] \in Ends
      BY <3>1 DEF Wants, Locations
    <3>4. ASSUME pc[t] # "ended" PROVE stage[t] \in {"none", "configure", "url", "log", "header"}
      <4>1. CASE pc[t] \in {"idle", "enter", "publish", "target", "defaults", "assign"}
        BY <3>1, <4>1 DEF Wants, Locations
      <4>2. CASE pc[t] \in {"base", "flag", "slug", "log", "id", "secret"}
        BY <3>1, <4>2 DEF Wants, Locations
      <4>3. QED BY <3>1, <3>4, <4>1, <4>2 DEF Locations
    <3>5. QED BY <3>1, <3>2, <3>3, <3>4 DEF Ends
  <2>3. QED BY <2>1, <2>2 DEF Typed, VariableTypes, TypeOK
<1>2. QED BY <1>1, TypedInvariant, PTL

-----------------------------------------------------------------------------
(* An application that configures first, as README.md has it: there is one  *)
(* object, with every setting in it before any thread but Main has begun.    *)
Building(t) == pc[t] \in {"publish", "target", "defaults"}
Working(t)  == pc[t] \in {"defaults", "assign", "base", "flag", "slug", "log", "id", "secret"}
Begun ==
  /\ instance # None => instance = 1 /\ Len(fields) = 1
  /\ instance = None => Len(fields) = 0 /\ done = << >> /\ \A t \in Threads : ~Working(t)
  /\ done = << >> =>
       /\ writer = None
       /\ \A t \in Threads : pc[t] # "idle" => t = Main /\ Configuring(t)
Filled ==
  /\ \A t \in Threads : pc[t] = "defaults" =>
       \A k \in DOMAIN Order \ left[t] : Order[k] \in DOMAIN fields[1]
  /\ instance # None /\ (\A t \in Threads : pc[t] \notin {"target", "defaults"}) =>
       Settings \subseteq DOMAIN fields[1]
Placed(t) ==
  /\ Building(t) => done = << >>
  /\ pc[t] = "publish" => instance = None
  /\ Working(t) => obj[t] = 1
OneBuilt == Begun /\ Filled /\ \A t \in Threads : Placed(t)

(* A step that builds nothing and sets nothing. *)
LEMMA FrameBuilt ==
  ASSUME Typed, OneBuilt, NEW t \in Threads, Aside(t), UNCHANGED <<instance, fields, done>>,
         pc[t] \notin {"target", "defaults"}, ~Building(t)',
         Working(t)' => obj'[t] = 1 /\ instance # None,
         done = << >> => writer' = None /\ (pc'[t] # "idle" => t = Main /\ Configuring(t)')
  PROVE  OneBuilt'
<1>1. \A u \in Threads \ {t} : pc'[u] = pc[u] /\ stage'[u] = stage[u] /\ obj'[u] = obj[u] /\ left'[u] = left[u]
  BY DEF Aside
<1>2. Begun'
  BY <1>1 DEF OneBuilt, Begun, Working, Configuring
<1>3. \A u \in Threads : pc'[u] \in {"target", "defaults"} => u # t /\ pc[u] = pc'[u] /\ left'[u] = left[u]
  BY <1>1 DEF Building
<1>4. ASSUME \A u \in Threads : pc'[u] \notin {"target", "defaults"}
      PROVE  \A u \in Threads : pc[u] \notin {"target", "defaults"}
  BY <1>1, <1>4
<1>5. Filled'
  BY <1>3, <1>4 DEF OneBuilt, Filled
<1>6. \A u \in Threads : Placed(u)'
  BY <1>1 DEF OneBuilt, Placed, Building, Working
<1>7. QED BY <1>2, <1>5, <1>6 DEF OneBuilt

(* What a reading step leaves alone, and where it goes. *)
Reader(t) ==
  ReadBaseUrl(t) \/ ReadFlag(t) \/ ReadSlug(t) \/ ReadLogUrl(t) \/ ReadId(t) \/ ReadSecret(t)
LEMMA ResolvedFrame ==
  ASSUME Typed, NEW t \in Threads, NEW u, Resolved(t, u)
  PROVE  UNCHANGED <<environ, instance, fields>> /\ pc'[t] \in {"ended", "enter"}
BY DEF Typed, VariableTypes, Resolved, Ended, Goto, shared

LEMMA ReadingFrame ==
  ASSUME Typed, NEW t \in Threads, Reader(t)
  PROVE  /\ UNCHANGED <<environ, instance, fields, bounds, history>>
         /\ pc[t] \in {"base", "flag", "slug", "log", "id", "secret"}
         /\ stage[t] \in {"url", "log", "header"}
         /\ pc'[t] \in {"ended", "enter"} \/ (pc'[t] \in {"flag", "slug", "secret"} /\ obj'[t] = obj[t])
<1>h. Holds(t) /\ pc \in [Threads -> Locations]
  BY DEF Typed, VariableTypes
<1>1. ASSUME Ended(t, "AttributeError"), UNCHANGED <<shared, request>>
      PROVE  UNCHANGED <<environ, instance, fields>> /\ pc'[t] = "ended"
  BY <1>h, <1>1 DEF Ended, Goto, shared
<1>2. ASSUME NEW where \in {"flag", "slug"}, Then(t, where)
      PROVE  UNCHANGED <<environ, instance, fields>> /\ pc'[t] = where /\ obj'[t] = obj[t]
  BY <1>h, <1>2 DEF Then, Goto, shared
<1>3. CASE ReadBaseUrl(t)
  <2>1. pc[t] = "base" /\ UNCHANGED <<bounds, history>>
    BY <1>3 DEF ReadBaseUrl, Reading
  <2>2. stage[t] = "url"
    BY <1>h, <2>1 DEF Holds, Wants, Locations
  <2>3. \/ Ended(t, "AttributeError") /\ UNCHANGED <<shared, request>>
        \/ Then(t, "flag")
        \/ \E u : Resolved(t, u)
    BY <1>3 DEF ReadBaseUrl, Reading
  <2>4. QED BY <1>1, <1>2, <2>1, <2>2, <2>3, ResolvedFrame
<1>4. CASE ReadFlag(t)
  <2>1. pc[t] = "flag" /\ UNCHANGED <<bounds, history>>
    BY <1>4 DEF ReadFlag, Reading
  <2>2. stage[t] = "url"
    BY <1>h, <2>1 DEF Holds, Wants, Locations
  <2>3. \/ Ended(t, "AttributeError") /\ UNCHANGED <<shared, request>>
        \/ Then(t, "slug")
        \/ \E u : Resolved(t, u)
    BY <1>4 DEF ReadFlag, Reading
  <2>4. QED BY <1>1, <1>2, <2>1, <2>2, <2>3, ResolvedFrame
<1>5. CASE ReadSlug(t)
  <2>1. pc[t] = "slug" /\ UNCHANGED <<bounds, history>>
    BY <1>5 DEF ReadSlug, Reading
  <2>2. stage[t] = "url"
    BY <1>h, <2>1 DEF Holds, Wants, Locations
  <2>3. \/ Ended(t, "AttributeError") /\ UNCHANGED <<shared, request>>
        \/ \E u : Resolved(t, u)
    BY <1>5 DEF ReadSlug, Reading
  <2>4. QED BY <1>1, <2>1, <2>2, <2>3, ResolvedFrame
<1>6. CASE ReadLogUrl(t)
  <2>1. pc[t] = "log" /\ UNCHANGED <<bounds, history>>
    BY <1>6 DEF ReadLogUrl, Reading
  <2>2. stage[t] = "log"
    BY <1>h, <2>1 DEF Holds, Wants, Locations
  <2>3. \/ Ended(t, "AttributeError") /\ UNCHANGED <<shared, request>>
        \/ \E u : Resolved(t, u)
    BY <1>6 DEF ReadLogUrl, Reading
  <2>4. QED BY <1>1, <2>1, <2>2, <2>3, ResolvedFrame
<1>7. CASE ReadId(t)
  <2>1. pc[t] = "id" /\ UNCHANGED <<bounds, history>>
    BY <1>7 DEF ReadId, Reading
  <2>2. stage[t] = "header"
    BY <1>h, <2>1 DEF Holds, Wants, Locations
  <2>3. \/ Ended(t, "AttributeError") /\ UNCHANGED <<shared, request>>
        \/ Goto(t, "secret") /\ UNCHANGED <<shared, stage, obj, values, left>>
    BY <1>7 DEF ReadId, Reading
  <2>4. QED BY <1>h, <1>1, <2>1, <2>2, <2>3 DEF Goto, shared
<1>8. CASE ReadSecret(t)
  <2>1. pc[t] = "secret" /\ UNCHANGED <<bounds, history>>
    BY <1>8 DEF ReadSecret, Reading
  <2>2. stage[t] = "header"
    BY <1>h, <2>1 DEF Holds, Wants, Locations
  <2>3. UNCHANGED shared /\ \E how : Ended(t, how)
    BY <1>8 DEF ReadSecret, Reading
  <2>4. QED BY <1>h, <2>1, <2>2, <2>3 DEF Ended, Goto, shared
<1>9. QED BY <1>3, <1>4, <1>5, <1>6, <1>7, <1>8 DEF Reader

LEMMA BuildingStep ==
  ASSUME Typed, OneBuilt, NEW t \in Threads, Aside(t), Publish(t) \/ Target(t)
  PROVE  OneBuilt'
<1> USE DEF OneBuilt
<1>1. \A u \in Threads \ {t} : pc'[u] = pc[u] /\ stage'[u] = stage[u] /\ obj'[u] = obj[u] /\ left'[u] = left[u]
  BY DEF Aside
<1>2. Building(t) /\ done = << >> /\ pc \in [Threads -> Locations] /\ Placed(t)
  BY DEF Placed, Building, Publish, Target, Typed, VariableTypes
<1>3. t = Main /\ Configuring(t) /\ writer = None /\ \A u \in Threads \ {t} : pc'[u] = "idle"
  BY <1>1, <1>2 DEF Begun, Building
<1>4. CASE Publish(t)
  <2>1. /\ pc[t] = "publish" /\ pc'[t] = "target" /\ instance = None /\ Len(fields) = 0
        /\ UNCHANGED <<done, writer, stage>>
    BY <1>2, <1>4 DEF Publish, Goto, Placed, Begun
  <2>2. instance' = 1 /\ Len(fields') = 1 /\ instance' # None
    BY <1>4, <2>1, AppendProperties, NewObject, ValueAssumption DEF Publish, Typed, VariableTypes
  <2>3. Begun'
    BY <1>1, <1>2, <1>3, <2>1, <2>2 DEF Begun, Configuring
  <2>4. Filled'
    BY <1>1, <1>3, <2>1 DEF Filled
  <2>5. \A u \in Threads : Placed(u)'
    BY <1>2, <1>3, <2>1 DEF Placed, Building, Working
  <2>6. QED BY <2>3, <2>4, <2>5
<1>5. CASE Target(t)
  <2>1. /\ pc[t] = "target" /\ pc'[t] = "defaults" /\ instance # None
        /\ UNCHANGED <<instance, fields, done, writer, stage>>
    BY <1>2, <1>5 DEF Target, Goto, Typed, Holds, shared, history
  <2>2. obj'[t] = 1 /\ left'[t] = DOMAIN Order
    BY <1>5, <2>1 DEF Target, Begun, Typed, VariableTypes
  <2>3. Begun'
    BY <1>1, <1>2, <1>3, <2>1 DEF Begun, Configuring
  <2>4. Filled'
    BY <1>1, <1>3, <2>1, <2>2 DEF Filled
  <2>5. \A u \in Threads : Placed(u)'
    BY <1>2, <1>3, <2>1, <2>2 DEF Placed, Building, Working
  <2>6. QED BY <2>3, <2>4, <2>5
<1>6. QED BY <1>4, <1>5

LEMMA FieldBuilt ==
  ASSUME Typed, OneBuilt, NEW t \in Threads, Aside(t),
         pc[t] \in {"defaults", "assign"}, left[t] # {}, NEW v,
         Fits(Coming(t), v), SetField(obj[t], Coming(t), v), Advance(t),
         UNCHANGED <<instance, writer, pc, stage, obj, done>>
  PROVE  /\ OneBuilt'
         /\ DOMAIN fields'[1] = DOMAIN fields[1] \cup {Coming(t)}
         /\ \A x \in DOMAIN fields[1] \cup {Coming(t)} :
              fields'[1][x] = IF x = Coming(t) THEN v ELSE fields[1][x]
<1> USE DEF OneBuilt
<1>1. \A u \in Threads \ {t} : left'[u] = left[u]
  BY DEF Aside
<1>2. /\ obj[t] = 1 /\ instance # None /\ Len(fields) = 1 /\ fields \in Seq(Objects)
      /\ left[t] \subseteq DOMAIN Order
  BY DEF Placed, Working, Begun, Typed, VariableTypes
<1>3. Coming(t) \in Settings /\ Coming(t) = Order[Min(left[t])] /\ left'[t] = left[t] \ {Min(left[t])}
  BY <1>2, ComingIsLeft DEF Advance, Typed, VariableTypes
<1>4. /\ Len(fields') = Len(fields)
      /\ DOMAIN fields'[1] = DOMAIN fields[1] \cup {Coming(t)}
      /\ \A x \in DOMAIN fields[1] \cup {Coming(t)} :
           fields'[1][x] = IF x = Coming(t) THEN v ELSE fields[1][x]
  BY <1>2, <1>3, FieldSet
<1>5. Begun'
  BY <1>4 DEF Begun, Working, Configuring
<1>6. Filled'
  <2>1. ASSUME NEW u \in Threads, pc[u] = "defaults", NEW k \in DOMAIN Order \ left'[u]
        PROVE  Order[k] \in DOMAIN fields'[1]
    BY <1>1, <1>3, <1>4, <2>1 DEF Filled
  <2>2. QED BY <1>4, <2>1 DEF Filled
<1>7. \A u \in Threads : Placed(u)'
  BY DEF Placed, Building, Working
<1>8. QED BY <1>4, <1>5, <1>6, <1>7

(* Only Main can be building, and what works for a call comes after it. *)
LEMMA CallsAreLate ==
  ASSUME OneBuilt, NEW t \in Threads
  PROVE  /\ pc[t] # "idle" /\ ~Configuring(t) => done # << >>
         /\ Building(t) => Configuring(t)
         /\ done # << >> => instance # None /\ instance = 1
BY DEF OneBuilt, Begun, Placed, Building

LEMMA BuiltStep ==
  ASSUME ConfiguredFirst, Typed, OneBuilt, NEW t \in Threads, Step(t)
  PROVE  OneBuilt'
<1>1. Aside(t)
  BY StepAside
<1>2. /\ pc \in [Threads -> Locations] /\ obj \in [Threads -> {None} \cup 1..Len(fields)]
      /\ stage \in [Threads -> {"none", "configure", "url", "log", "header"} \cup Ends]
      /\ Holds(t) /\ Placed(t)
  BY DEF Typed, VariableTypes, OneBuilt
<1>3. ASSUME NEW a \in Changes, Started(t), Begin(t, a) PROVE OneBuilt'
  <2>1. /\ UNCHANGED <<instance, fields, writer, done>> /\ pc[t] = "idle" /\ pc'[t] = "enter"
        /\ stage'[t] = "configure"
    BY <1>2, <1>3 DEF Begin, Started, Goto, shared
  <2>2. done = << >> => t = Main /\ Configuring(t)' /\ writer' = None
    BY <1>3, <2>1 DEF Started, Configuring, OneBuilt, Begun
  <2>3. QED BY <1>1, <2>1, <2>2, FrameBuilt DEF Building, Working
<1>4. CASE Dropped(t)
  BY <1>4 DEF Dropped, shared, history, OneBuilt, Begun, Filled, Placed, Working, Building, Configuring
<1>5. CASE Look(t)
  <2>1. /\ UNCHANGED <<instance, fields, writer, done, stage>> /\ pc[t] = "enter" /\ pc'[t] = "publish"
        /\ instance = None
    BY <1>2, <1>5 DEF Look, Goto, shared, history
  <2>2. done = << >> /\ t = Main /\ Configuring(t)
    BY <2>1 DEF OneBuilt, Begun
  <2>3. Configuring(t)'
    BY <2>1, <2>2 DEF Configuring
  <2>4. /\ \A u \in Threads \ {t} : pc'[u] = pc[u] /\ stage'[u] = stage[u] /\ obj'[u] = obj[u] /\ left'[u] = left[u]
    BY <1>1 DEF Aside
  <2>5. Begun'
    BY <2>1, <2>2, <2>3, <2>4 DEF OneBuilt, Begun, Working, Configuring
  <2>6. Filled'
    BY <2>1, <2>4 DEF OneBuilt, Filled
  <2>7. \A u \in Threads : Placed(u)'
    BY <2>1, <2>2, <2>4 DEF OneBuilt, Placed, Building, Working
  <2>8. QED BY <2>5, <2>6, <2>7 DEF OneBuilt
<1>6. CASE Publish(t) \/ Target(t)
  BY <1>1, <1>6, BuildingStep
<1>7. CASE InitDefault(t)
  <2>1. left[t] \subseteq DOMAIN Order /\ left[t] # {}
    BY <1>7 DEF Typed, VariableTypes, InitDefault
  <2>2. Fits(Coming(t), Default[Coming(t)])
    BY <2>1, ComingIsLeft, DefaultFits
  <2>3. QED BY <1>1, <1>7, <2>2, FieldBuilt DEF InitDefault
<1>8. CASE Enter(t)
  <2>1. /\ UNCHANGED <<instance, fields, writer, done, stage>> /\ pc[t] = "enter" /\ pc'[t] = Work(t)
        /\ instance # None /\ obj'[t] = instance
    BY <1>2, <1>8 DEF Enter, Got, Goto, shared, history
  <2>2. stage[t] \in {"configure", "url", "log", "header"}
    BY <1>2, <2>1 DEF Holds, Wants, Locations
  <2>3. pc'[t] \in {"assign", "base", "log", "id"}
    BY <2>1, <2>2 DEF Work
  <2>4. obj'[t] = 1
    BY <2>1 DEF OneBuilt, Begun
  <2>5. done = << >> => t = Main /\ Configuring(t)' /\ writer' = None
    BY <2>1, <2>2, <2>3 DEF OneBuilt, Begun, Configuring
  <2>6. QED BY <1>1, <2>1, <2>3, <2>4, <2>5, FrameBuilt DEF Building
<1>9. CASE Return(t)
  <2>1. /\ UNCHANGED <<instance, fields, writer, done, stage>> /\ pc[t] = "defaults" /\ pc'[t] = Work(t)
        /\ obj'[t] = instance /\ left[t] = {}
    BY <1>2, <1>9 DEF Return, Got, Goto, shared, history
  <2>2. done = << >> /\ t = Main /\ Configuring(t) /\ writer = None /\ instance = 1 /\ instance # None
    BY <1>2, <2>1 DEF Placed, Building, Working, OneBuilt, Begun
  <2>3. pc'[t] = "assign" /\ Configuring(t)'
    BY <2>1, <2>2 DEF Work, Configuring
  <2>4. \A u \in Threads \ {t} : pc'[u] = "idle"
    BY <1>1, <2>2 DEF Aside, OneBuilt, Begun
  <2>5. Settings \subseteq DOMAIN fields[1]
    BY <2>1, Places DEF OneBuilt, Filled
  <2>6. Begun'
    BY <2>1, <2>2, <2>3, <2>4 DEF OneBuilt, Begun
  <2>7. Filled'
    BY <2>1, <2>3, <2>4, <2>5 DEF Filled
  <2>8. \A u \in Threads : Placed(u)'
    BY <2>1, <2>2, <2>3, <2>4 DEF Placed, Building, Working
  <2>9. QED BY <2>6, <2>7, <2>8 DEF OneBuilt
<1>10. CASE Assign(t)
  <2> DEFINE s == Coming(t)  v == values[t][s]
  <2>1. pc[t] = "assign" /\ left[t] # {} /\ UNCHANGED stage /\ left[t] \subseteq DOMAIN Order
    BY <1>10 DEF Assign, Typed, VariableTypes
  <2>2. CASE s \in {"cache_ttl", "derive"} /\ v = Bad
    <3>1. UNCHANGED <<instance, fields, writer, done>> /\ pc'[t] = "idle"
      BY <1>2, <1>10, <2>2 DEF Assign, Goto, shared, history
    <3>2. done = << >> => writer' = None
      BY <3>1 DEF OneBuilt, Begun
    <3>3. QED BY <1>1, <2>1, <3>1, <3>2, FrameBuilt DEF Building, Working
  <2>3. CASE ~(s \in {"cache_ttl", "derive"} /\ v = Bad)
    <3>1. SetField(obj[t], s, v) /\ Advance(t) /\ UNCHANGED <<instance, writer, pc, obj, done>>
      BY <1>10, <2>3 DEF Assign
    <3>2. s \in DOMAIN values[t] /\ values[t] \in Changes
      BY <1>2, <2>1, ComingIsLeft DEF Holds, Wants, Locations, Configuring
    <3>3. Fits(s, v)
      BY <2>3, <3>2, ChangeFits
    <3>4. QED BY <1>1, <2>1, <3>1, <3>3, FieldBuilt
  <2>4. QED BY <2>2, <2>3
<1>11. CASE Configured(t)
  <2>1. /\ UNCHANGED <<instance, fields, writer, stage>> /\ pc[t] = "assign" /\ pc'[t] = "idle"
        /\ done' = Append(done, values[t])
    BY <1>2, <1>11 DEF Configured, Goto, shared
  <2>2. values[t] \in Changes /\ done \in Seq(Changes)
    BY <1>2, <2>1 DEF Holds, Wants, Locations, Configuring, Typed, VariableTypes
  <2>3. done' # << >>
    <3>1. Len(done') = Len(done) + 1 /\ Len(done) \in Nat
      BY <2>1, <2>2, AppendProperties
    <3>2. QED BY <3>1
  <2>4. instance # None
    BY <1>2, <2>1 DEF OneBuilt, Begun, Working
  <2>5. \A u \in Threads \ {t} : pc'[u] = pc[u] /\ obj'[u] = obj[u] /\ left'[u] = left[u]
    BY <1>1 DEF Aside
  <2>6. \A u \in Threads : pc'[u] \in {"publish", "target", "defaults"} => FALSE
    <3>1. ASSUME NEW u \in Threads \ {t} PROVE ~Building(u)
      BY <2>1 DEF OneBuilt, Placed, Begun, Building
    <3>2. QED BY <2>1, <2>5, <3>1 DEF Building
  <2>7. \A u \in Threads : pc[u] \notin {"target", "defaults"}
    BY <2>1, <2>5, <2>6
  <2>8. Begun'
    BY <2>1, <2>3, <2>4, <2>5 DEF OneBuilt, Begun, Working
  <2>9. Filled'
    BY <2>1, <2>4, <2>6, <2>7 DEF OneBuilt, Filled
  <2>10. \A u \in Threads : Placed(u)'
    BY <2>1, <2>5, <2>6 DEF OneBuilt, Placed, Building, Working
  <2>11. QED BY <2>8, <2>9, <2>10 DEF OneBuilt
<1>12. CASE CallIntake(t) \/ FirstRow(t) \/ NextRow(t) \/ Again(t)
  <2>1. /\ UNCHANGED <<instance, fields, writer, done>> /\ pc[t] \in {"idle", "ended"} /\ pc'[t] \in {"enter", "idle"}
        /\ done # << >>
    <3>1. CASE CallIntake(t) \/ FirstRow(t)
      BY <1>2, <3>1 DEF CallIntake, FirstRow, BeginCall, Goto, shared
    <3>2. CASE NextRow(t)
      BY <1>2, <3>2 DEF NextRow, Goto, shared, OneBuilt, Begun
    <3>3. CASE Again(t)
      BY <1>2, <3>3 DEF Again, Goto, shared, OneBuilt, Begun, Configuring
    <3>4. QED BY <1>12, <3>1, <3>2, <3>3
  <2>2. QED BY <1>1, <2>1, FrameBuilt DEF Building, Working
<1>13. CASE Reader(t)
  <2>1. /\ UNCHANGED <<instance, fields, done>>
        /\ pc[t] \in {"base", "flag", "slug", "log", "id", "secret"}
        /\ stage[t] \in {"url", "log", "header"}
        /\ pc'[t] \in {"ended", "enter"} \/ (pc'[t] \in {"flag", "slug", "secret"} /\ obj'[t] = obj[t])
    BY <1>13, ReadingFrame DEF history
  <2>2. done # << >> /\ instance # None /\ obj[t] = 1
    BY <1>2, <2>1, CallsAreLate DEF Configuring, Placed, Working
  <2>3. QED BY <1>1, <2>1, <2>2, FrameBuilt DEF Building, Working
<1>14. QED
  BY <1>3, <1>4, <1>5, <1>6, <1>7, <1>8, <1>9, <1>10, <1>11, <1>12, <1>13, StepKinds DEF Reader

LEMMA OneBuiltInvariant ==
  ASSUME ConfiguredFirst
  PROVE  Spec => []OneBuilt
<1>1. Init => OneBuilt
  BY DEF Init, OneBuilt, Begun, Filled, Placed, Building, Working
<1>2. OneBuilt /\ Typed /\ [Next]_vars => OneBuilt'
  <2>1. ASSUME OneBuilt, Typed, NEW t \in Threads, Step(t) PROVE OneBuilt'
    BY <2>1, BuiltStep
  <2>2. ASSUME OneBuilt, NEW e \in Environments, SetEnvironment(e) PROVE OneBuilt'
    BY <2>2 DEF SetEnvironment, OneBuilt, Begun, Filled, Placed, Building, Working, Configuring
  <2>3. ASSUME OneBuilt, UNCHANGED vars PROVE OneBuilt'
    BY <2>3 DEF vars, shared, history, OneBuilt, Begun, Filled, Placed, Building, Working, Configuring
  <2>4. QED BY <2>1, <2>2, <2>3, Steps
<1>3. QED BY <1>1, <1>2, TypedInvariant, PTL DEF Spec

(* README.md:94, where it holds: an application that configures before it   *)
(* serves makes one Configuration, and every thread that holds one holds it. *)
THEOREM ConfiguredFirstIsOne ==
  ASSUME ConfiguredFirst
  PROVE  Spec => []OneConfiguration
<1>1. Typed /\ OneBuilt => OneConfiguration
  <2>1. ASSUME Typed, OneBuilt, NEW t \in Threads, obj[t] # None PROVE obj[t] = 1
    <3>1. obj[t] \in 1..Len(fields)
      BY <2>1 DEF Typed, VariableTypes
    <3>2. CASE Len(fields) = 0
      <4>1. 1..0 = {}
        OBVIOUS
      <4>2. QED BY <3>1, <3>2, <4>1
    <3>3. CASE Len(fields) = 1
      BY <3>1, <3>3
    <3>4. QED BY <2>1, <3>2, <3>3 DEF OneBuilt, Begun
  <2>2. QED BY <2>1 DEF OneConfiguration
<1>2. QED BY <1>1, OneBuiltInvariant, TypedInvariant, PTL

-----------------------------------------------------------------------------
(* What a call reads, and what it makes of it. *)
Now(s) == Value(Current, s)
DerivedUrl(id) == IF id \in DOMAIN DerivedHost THEN <<DerivedHost[id]>> ELSE DefaultUrl
OneSlash(url) == Last(SubSeq(url, 1, Len(url) - 2)) \notin {"api", Empty}

LEMMA Reads ==
  ASSUME Typed, OneBuilt, NEW t \in Threads, Reader(t), NEW s \in Settings
  PROVE  /\ Has(t, s) /\ Get(t, s) = fields[1][s] /\ Current.set = fields[1] /\ Current.env = environ
         /\ s \in DOMAIN Current.set
         /\ s \in FromEnvironment => Or(Get(t, s), environ[s]) = Now(s)
         /\ done # << >> /\ obj[t] # None /\ Calling(t) /\ Fits(s, Get(t, s))
<1>1. /\ pc[t] \in {"base", "flag", "slug", "log", "id", "secret"}
      /\ stage[t] \in {"url", "log", "header"}
  BY ReadingFrame
<1>2. done # << >> /\ instance # None /\ instance = 1 /\ obj[t] = 1
  BY <1>1, CallsAreLate DEF Configuring, OneBuilt, Placed, Working
<1>3. \A u \in Threads : pc[u] \notin {"target", "defaults"}
  BY <1>2 DEF OneBuilt, Placed, Building
<1>4. s \in DOMAIN fields[1]
  BY <1>2, <1>3 DEF OneBuilt, Filled
<1>5. obj[t] # None
  BY <1>1 DEF Typed, Holds
<1>6. Current.set = fields[1] /\ Current.env = environ
  BY <1>2 DEF Current
<1>7. Has(t, s) /\ Get(t, s) = fields[1][s]
  BY <1>2, <1>4 DEF Has, Get
<1>8. Fits(s, Get(t, s))
  BY <1>5, <1>7, ReadFits DEF Typed
<1>9. QED BY <1>1, <1>2, <1>4, <1>5, <1>6, <1>7, <1>8 DEF Now, Value, Calling

LEMMA NowFits ==
  ASSUME Typed, OneBuilt, NEW t \in Threads, Reader(t), NEW s \in BaseUrls, Truthy(Now(s))
  PROVE  Now(s) \in Urls
<1>1. s \in Settings /\ s \in FromEnvironment
  BY Places DEF BaseUrls, FromEnvironment
<1>2. QED BY <1>1, Reads, ReadFits DEF Typed

(* A URL made, and one refused. *)
LEMMA ResolvedOutcome ==
  ASSUME Typed, NEW t \in Threads, NEW u \in Urls, stage[t] \in {"url", "log"}, Resolved(t, u)
  PROVE  \/ /\ pc'[t] = "ended" /\ stage'[t] = "ValueError"
            /\ request' = request /\ writer' = writer /\ Last(RStripped(u)) = "api"
         \/ /\ pc'[t] = "enter" /\ stage'[t] = "header"
            /\ request'[t].url # None /\ OneSlash(request'[t].url)
            /\ Last(request'[t].url) = stage[t] /\ Base(t)' = RStripped(u)
            /\ writer' = IF stage[t] = "log" THEN request'[t].url ELSE writer
<1>1. /\ pc \in [Threads -> Locations] /\ request \in [Threads -> Requests]
      /\ stage \in [Threads -> {"none", "configure", "url", "log", "header"} \cup Ends]
  BY DEF Typed, VariableTypes
<1>2. CASE Normalized(u) = None
  <2>1. Ended(t, "ValueError") /\ UNCHANGED <<shared, request>>
    BY <1>2 DEF Resolved
  <2>2. QED BY <1>1, <1>2, <2>1, UrlRefused DEF Ended, Goto, shared
<1>3. CASE Normalized(u) # None
  <2> DEFINE url == Append(Append(Normalized(u), "api"), stage[t])
  <2>1. /\ url # None /\ Last(url) = stage[t] /\ SubSeq(url, 1, Len(url) - 2) = RStripped(u)
        /\ Last(RStripped(u)) \notin {"api", Empty}
    BY <1>3, UrlMade
  <2>2. /\ request' = [request EXCEPT ![t].url = url]
        /\ writer' = IF stage[t] = "log" THEN url ELSE writer
        /\ stage' = [stage EXCEPT ![t] = "header"]
        /\ pc' = [pc EXCEPT ![t] = "enter"]
    BY <1>3 DEF Resolved, Goto
  <2> HIDE DEF url
  <2>3. pc'[t] = "enter" /\ stage'[t] = "header"
    BY <1>1, <2>2
  <2>4. request'[t].url = url
    <3>1. request[t] \in Requests
      BY <1>1
    <3>2. QED BY <1>1, <2>2, <3>1 DEF Requests
  <2>5. Base(t)' = RStripped(u)
    BY <2>1, <2>4 DEF Base
  <2>6. QED BY <2>1, <2>2, <2>3, <2>4, <2>5 DEF OneSlash
<1>4. QED BY <1>2, <1>3

(* What each reading step comes to: every value it uses is the current one. *)
LEMMA ReadingOutcome ==
  ASSUME Typed, OneBuilt, NEW t \in Threads, Reader(t)
  PROVE  \/ pc[t] = "base" /\ Truthy(Now("base_url")) /\ Resolved(t, Now("base_url"))
         \/ pc[t] = "base" /\ ~Truthy(Now("base_url")) /\ Then(t, "flag")
         \/ pc[t] = "flag" /\ Current.set["derive"] /\ Then(t, "slug")
         \/ pc[t] = "flag" /\ ~Current.set["derive"] /\ Resolved(t, DefaultUrl)
         \/ pc[t] = "slug" /\ Resolved(t, DerivedUrl(Now("client_id")))
         \/ /\ pc[t] = "log"
            /\ Resolved(t, IF Truthy(Now("log_base_url")) THEN Now("log_base_url") ELSE DefaultLogUrl)
         \/ /\ pc[t] = "id" /\ Goto(t, "secret") /\ UNCHANGED <<shared, stage>>
            /\ request' = [request EXCEPT ![t].id = Now("client_id")]
         \/ /\ pc[t] = "secret" /\ UNCHANGED shared
            /\ request' = [request EXCEPT ![t].secret = Now("client_secret")]
            /\ Ended(t, IF Truthy(request[t].id) /\ Truthy(Now("client_secret"))
                        THEN "sent" ELSE "ConfigurationError")
<1>s. /\ "client_id" \in Settings \cap FromEnvironment /\ "client_secret" \in Settings \cap FromEnvironment
      /\ "base_url" \in Settings \cap FromEnvironment /\ "log_base_url" \in Settings \cap FromEnvironment
      /\ "derive" \in Settings
  BY Places DEF FromEnvironment
<1>1. CASE ReadBaseUrl(t)
  <2>1. Has(t, "base_url") /\ Or(Get(t, "base_url"), environ["base_url"]) = Now("base_url")
    BY <1>s, Reads
  <2>2. pc[t] = "base" /\ IF Truthy(Now("base_url")) THEN Resolved(t, Now("base_url")) ELSE Then(t, "flag")
    BY <1>1, <2>1 DEF ReadBaseUrl, Reading
  <2>3. QED BY <2>2
<1>2. CASE ReadFlag(t)
  <2>1. Has(t, "derive") /\ Get(t, "derive") = Current.set["derive"]
    BY <1>s, Reads
  <2>2. pc[t] = "flag" /\ IF Current.set["derive"] THEN Then(t, "slug") ELSE Resolved(t, DefaultUrl)
    BY <1>2, <2>1 DEF ReadFlag, Reading
  <2>3. QED BY <2>2
<1>3. CASE ReadSlug(t)
  <2>1. Has(t, "client_id") /\ Or(Get(t, "client_id"), environ["client_id"]) = Now("client_id")
    BY <1>s, Reads
  <2>2. pc[t] = "slug" /\ Resolved(t, DerivedUrl(Now("client_id")))
    BY <1>3, <2>1 DEF ReadSlug, Reading, DerivedUrl
  <2>3. QED BY <2>2
<1>4. CASE ReadLogUrl(t)
  <2>1. Has(t, "log_base_url") /\ Or(Get(t, "log_base_url"), environ["log_base_url"]) = Now("log_base_url")
    BY <1>s, Reads
  <2>2. /\ pc[t] = "log"
        /\ Resolved(t, IF Truthy(Now("log_base_url")) THEN Now("log_base_url") ELSE DefaultLogUrl)
    BY <1>4, <2>1 DEF ReadLogUrl, Reading
  <2>3. QED BY <2>2
<1>5. CASE ReadId(t)
  <2>1. Has(t, "client_id") /\ Or(Get(t, "client_id"), environ["client_id"]) = Now("client_id")
    BY <1>s, Reads
  <2>2. /\ pc[t] = "id" /\ Goto(t, "secret") /\ UNCHANGED <<shared, stage>>
        /\ request' = [request EXCEPT ![t].id = Now("client_id")]
    BY <1>5, <2>1 DEF ReadId, Reading
  <2>3. QED BY <2>2
<1>6. CASE ReadSecret(t)
  <2>1. Has(t, "client_secret") /\ Or(Get(t, "client_secret"), environ["client_secret"]) = Now("client_secret")
    BY <1>s, Reads
  <2>2. /\ pc[t] = "secret" /\ UNCHANGED shared
        /\ request' = [request EXCEPT ![t].secret = Now("client_secret")]
        /\ Ended(t, IF Truthy(request[t].id) /\ Truthy(Now("client_secret"))
                    THEN "sent" ELSE "ConfigurationError")
    BY <1>6, <2>1 DEF ReadSecret, Reading
  <2>3. QED BY <2>2
<1>7. QED BY <1>1, <1>2, <1>3, <1>4, <1>5, <1>6 DEF Reader

-----------------------------------------------------------------------------
(* What a call has resolved so far was configured while it ran. *)
WasNoUrl(t)    == \E c \in seen[t] : ~Truthy(Value(c, "base_url"))
WasUrl(t)      == \E c \in seen[t] :
  Truthy(Value(c, "base_url")) /\ Base(t) = RStripped(Value(c, "base_url"))
WasDerived(t)  == \E c \in seen[t] : c.set["derive"]
WasSlug(t)     == \E c \in seen[t] :
  Value(c, "client_id") \in DOMAIN DerivedHost /\ Base(t) = <<DerivedHost[Value(c, "client_id")]>>
WasBase(t)     == WasUrl(t) \/ (WasNoUrl(t) /\ (Base(t) = DefaultUrl \/ (WasDerived(t) /\ WasSlug(t))))
WasId(t)       == \E c \in seen[t] : Value(c, "client_id") = request[t].id
WasSecret(t)   == \E c \in seen[t] : Value(c, "client_secret") = request[t].secret

Evident(t) ==
  /\ Calling(t) => Current \in seen[t]
  /\ pc[t] = "idle" \/ stage[t] \in {"configure", "url", "log"} => request[t] = NoRequest
  /\ pc[t] \in {"flag", "slug"} => WasNoUrl(t)
  /\ pc[t] = "slug" => WasDerived(t)
  /\ request[t].url # None => OneSlash(request[t].url)
  /\ Resolves(t) => WasBase(t)
  /\ pc[t] = "secret" \/ stage[t] = "sent" => WasId(t)
  /\ stage[t] = "sent" => Truthy(request[t].id) /\ Truthy(request[t].secret) /\ WasSecret(t)
WriterEvident == writer # None => OneSlash(writer) /\ Last(writer) = "log"
AllEvident == WriterEvident /\ \A t \in Threads : Evident(t)

(* Every step shows the calls under way what it leaves current. *)
LEMMA StepSeen ==
  ASSUME Typed, NEW t \in Threads, Step(t), NEW u \in Threads \ {t}
  PROVE  /\ seen[u] \subseteq seen'[u]
         /\ Calling(u) => Current' \in seen'[u] \/ Current' = Current
<1>0. seen \in [Threads -> SUBSET Configs]
  BY DEF Typed, VariableTypes
<1>1. ASSUME Seen
      PROVE  seen[u] \subseteq seen'[u] /\ (Calling(u) => Current' \in seen'[u])
  BY <1>1 DEF Seen
<1>2. ASSUME UNCHANGED <<environ, instance, fields>>, seen'[u] = seen[u]
      PROVE  seen[u] \subseteq seen'[u] /\ Current' = Current
  BY <1>2 DEF Current
<1>3. ASSUME NEW a \in Changes, Begin(t, a) PROVE UNCHANGED <<environ, instance, fields, seen>>
  BY <1>3 DEF Begin, shared
<1>4. CASE Dropped(t) \/ Look(t) \/ Target(t)
  <2>1. UNCHANGED <<environ, instance, fields, seen>>
    BY <1>4 DEF Dropped, Look, Target, shared, history
  <2>2. QED BY <1>2, <2>1
<1>5. CASE Enter(t) \/ Return(t)
  <2>1. UNCHANGED <<environ, instance, fields, seen>>
    BY <1>5 DEF Enter, Return, Got, shared, history
  <2>2. QED BY <1>2, <2>1
<1>6. CASE Publish(t) \/ InitDefault(t)
  BY <1>1, <1>6 DEF Publish, InitDefault
<1>7. CASE Assign(t)
  <2>1. Seen \/ UNCHANGED <<environ, instance, fields, seen>>
    BY <1>7 DEF Assign, shared, history
  <2>2. QED BY <1>1, <1>2, <2>1
<1>8. CASE Configured(t)
  <2>1. UNCHANGED <<environ, instance, fields, seen>>
    BY <1>8 DEF Configured, shared
  <2>2. QED BY <1>2, <2>1
<1>9. CASE CallIntake(t) \/ FirstRow(t) \/ NextRow(t) \/ Again(t)
  <2>1. UNCHANGED <<environ, instance, fields>> /\ seen'[u] = seen[u]
    BY <1>0, <1>9 DEF CallIntake, FirstRow, NextRow, Again, BeginCall, shared
  <2>2. QED BY <1>2, <2>1
<1>10. CASE Reader(t)
  <2>1. UNCHANGED <<environ, instance, fields, seen>>
    BY <1>10, ReadingFrame DEF history
  <2>2. QED BY <1>2, <2>1
<1>11. QED
  BY <1>2, <1>3, <1>4, <1>5, <1>6, <1>7, <1>8, <1>9, <1>10, StepKinds DEF Reader

(* Evidence stands: what was seen stays seen. *)
LEMMA EvidenceStands ==
  ASSUME NEW t \in Threads, Evident(t), seen[t] \subseteq seen'[t],
         pc'[t] = pc[t], stage'[t] = stage[t], request'[t] = request[t],
         Calling(t) => Current' \in seen'[t] \/ Current' = Current
  PROVE  Evident(t)'
<1>1. Base(t)' = Base(t) /\ Resolves(t)' = Resolves(t) /\ Calling(t)' = Calling(t)
  BY DEF Base, Resolves, Calling
<1>2. /\ WasNoUrl(t) => WasNoUrl(t)'
      /\ WasDerived(t) => WasDerived(t)'
      /\ WasId(t) => WasId(t)'
      /\ WasSecret(t) => WasSecret(t)'
  BY DEF WasNoUrl, WasDerived, WasId, WasSecret
<1>3. WasUrl(t) => WasUrl(t)'
  BY <1>1 DEF WasUrl
<1>4. WasSlug(t) => WasSlug(t)'
  BY <1>1 DEF WasSlug
<1>5. WasBase(t) => WasBase(t)'
  BY <1>1, <1>2, <1>3, <1>4 DEF WasBase
<1>6. Calling(t) => Current' \in seen'[t]
  BY DEF Evident
<1>7. QED BY <1>1, <1>2, <1>5, <1>6 DEF Evident

(* A call that has resolved nothing needs none. *)
LEMMA NothingResolved ==
  ASSUME NEW t \in Threads, request'[t] = NoRequest, pc'[t] \notin {"flag", "slug", "secret"},
         stage'[t] # "sent", Calling(t)' => Current' \in seen'[t]
  PROVE  Evident(t)'
BY DEF Evident, Resolves, NoRequest

LEMMA ChangeEvident ==
  ASSUME Typed, OneBuilt, AllEvident, NEW t \in Threads, Configuring(t),
         Enter(t) \/ Look(t) \/ Publish(t) \/ Target(t) \/ InitDefault(t) \/ Return(t)
           \/ Assign(t) \/ Configured(t)
  PROVE  Evident(t)' /\ writer' = writer
<1>1. request[t] = NoRequest
  BY DEF AllEvident, Evident, Configuring
<1>2. pc \in [Threads -> Locations]
  BY DEF Typed, VariableTypes
<1>3. /\ request' = request /\ stage' = stage /\ writer' = writer
      /\ pc'[t] \in {"assign", "publish", "target", "defaults", "idle"}
  <2>1. CASE Enter(t) \/ Return(t)
    BY <1>2, <2>1 DEF Enter, Return, Got, Goto, Work, Configuring, shared
  <2>2. CASE Look(t) \/ Publish(t) \/ Target(t) \/ InitDefault(t)
    BY <1>2, <2>2 DEF Look, Publish, Target, InitDefault, Goto, shared
  <2>3. CASE Assign(t) \/ Configured(t)
    BY <1>2, <2>3 DEF Assign, Configured, Goto, shared
  <2>4. QED BY <2>1, <2>2, <2>3
<1>4. QED BY <1>1, <1>3, NothingResolved DEF Configuring, Calling

(* What works for a call enters, and does nothing else of a change. *)
LEMMA CallsOnlyEnter ==
  ASSUME Typed, OneBuilt, NEW t \in Threads, ~Configuring(t),
         Enter(t) \/ Look(t) \/ Publish(t) \/ Target(t) \/ InitDefault(t) \/ Return(t)
           \/ Assign(t) \/ Configured(t)
  PROVE  /\ Enter(t) /\ Calling(t) /\ pc'[t] \in {"base", "log", "id"}
         /\ UNCHANGED <<environ, instance, fields, writer, stage, request, bounds, history>>
<1>1. pc \in [Threads -> Locations] /\ Holds(t)
  BY DEF Typed, VariableTypes
<1>2. CASE Enter(t)
  <2>1. pc[t] = "enter" /\ stage[t] \in {"url", "log", "header"}
    BY <1>1, <1>2 DEF Enter, Holds, Wants, Locations, Configuring
  <2>2. QED BY <1>1, <1>2, <2>1 DEF Enter, Got, Goto, Work, Calling, shared
<1>3. ~Look(t)
  BY CallsAreLate DEF Look
<1>4. ~(Publish(t) \/ Target(t) \/ InitDefault(t) \/ Return(t))
  BY CallsAreLate DEF Publish, Target, InitDefault, Return, Building
<1>5. ~(Assign(t) \/ Configured(t))
  BY <1>1 DEF Assign, Configured, Holds, Wants, Locations, Configuring
<1>6. QED BY <1>2, <1>3, <1>4, <1>5

LEMMA ServingEvident ==
  ASSUME Typed, OneBuilt, AllEvident, NEW t \in Threads,
         CallIntake(t) \/ FirstRow(t) \/ NextRow(t) \/ Again(t)
  PROVE  Evident(t)' /\ writer' = writer
<1>1. /\ pc \in [Threads -> Locations] /\ request \in [Threads -> Requests]
      /\ stage \in [Threads -> {"none", "configure", "url", "log", "header"} \cup Ends]
      /\ seen \in [Threads -> SUBSET Configs] /\ Evident(t)
  BY DEF Typed, VariableTypes, AllEvident
<1>2. CASE CallIntake(t) \/ FirstRow(t)
  <2>1. /\ pc[t] = "idle" /\ pc'[t] = "enter" /\ stage'[t] \in {"url", "log"} /\ request' = request
        /\ seen'[t] = {Current} /\ UNCHANGED <<environ, instance, fields, writer>>
    BY <1>1, <1>2 DEF CallIntake, FirstRow, BeginCall, Goto, shared
  <2>2. Current' = Current /\ request'[t] = NoRequest
    BY <1>1, <2>1 DEF Current, Evident
  <2>3. QED BY <2>1, <2>2, NothingResolved
<1>3. CASE NextRow(t)
  <2>1. /\ pc[t] = "idle" /\ pc'[t] = "enter" /\ stage'[t] = "header" /\ writer # None
        /\ request' = [request EXCEPT ![t].url = writer]
        /\ seen'[t] = {Current} /\ UNCHANGED <<environ, instance, fields, writer>>
    BY <1>1, <1>3 DEF NextRow, Goto, shared
  <2>2. Current' = Current /\ request[t] \in Requests
    BY <1>1, <2>1 DEF Current
  <2>3. request'[t].url = writer
    BY <1>1, <2>1, <2>2 DEF Requests
  <2>4. OneSlash(writer) /\ Last(writer) # "url"
    BY <2>1 DEF AllEvident, WriterEvident
  <2>5. Evident(t)'
    BY <2>1, <2>2, <2>3, <2>4 DEF Evident, Resolves
  <2>6. QED BY <2>1, <2>5
<1>4. CASE Again(t)
  <2>1. pc'[t] = "idle" /\ stage'[t] = "none" /\ request'[t] = NoRequest /\ writer' = writer
    BY <1>1, <1>4 DEF Again, Goto, shared
  <2>2. QED BY <2>1, NothingResolved DEF Calling
<1>5. QED BY <1>2, <1>3, <1>4

LEMMA ResolvedEvident ==
  ASSUME Typed, OneBuilt, AllEvident, NEW t \in Threads, Reader(t), NEW u \in Urls,
         stage[t] \in {"url", "log"}, Resolved(t, u),
         stage[t] = "url" => \/ WasNoUrl(t) /\ u = DefaultUrl
                             \/ WasNoUrl(t) /\ WasDerived(t) /\ u = DerivedUrl(Now("client_id"))
                             \/ Truthy(Now("base_url")) /\ u = Now("base_url")
  PROVE  Evident(t)' /\ WriterEvident'
<1>1. /\ UNCHANGED <<environ, instance, fields, seen>> /\ Current' = Current
      /\ Calling(t) /\ Current \in seen[t] /\ request[t] = NoRequest
  BY ReadingFrame, Reads, Places DEF history, AllEvident, Evident, Current
<1>2. CASE /\ pc'[t] = "ended" /\ stage'[t] = "ValueError"
           /\ request' = request /\ writer' = writer /\ Last(RStripped(u)) = "api"
  BY <1>1, <1>2, NothingResolved DEF Calling, AllEvident, WriterEvident
<1>3. CASE /\ pc'[t] = "enter" /\ stage'[t] = "header"
           /\ request'[t].url # None /\ OneSlash(request'[t].url)
           /\ Last(request'[t].url) = stage[t] /\ Base(t)' = RStripped(u)
           /\ writer' = IF stage[t] = "log" THEN request'[t].url ELSE writer
  <2>1. WriterEvident'
    BY <1>3 DEF AllEvident, WriterEvident
  <2>2. ASSUME stage[t] = "url" PROVE WasBase(t)'
    <3>1. CASE WasNoUrl(t) /\ u = DefaultUrl
      BY <1>1, <1>3, <3>1, DefaultsAreUrls DEF WasBase, WasNoUrl
    <3>2. CASE WasNoUrl(t) /\ WasDerived(t) /\ u = DerivedUrl(Now("client_id"))
      <4>1. WasNoUrl(t)' /\ WasDerived(t)'
        BY <1>1, <3>2 DEF WasNoUrl, WasDerived
      <4>2. CASE Now("client_id") \in DOMAIN DerivedHost
        <5>1. Base(t)' = <<DerivedHost[Now("client_id")]>>
          BY <1>3, <3>2, <4>2, HostsAreUrls DEF DerivedUrl
        <5>2. WasSlug(t)'
          BY <1>1, <4>2, <5>1 DEF WasSlug, Now
        <5>3. QED BY <4>1, <5>2 DEF WasBase
      <4>3. CASE Now("client_id") \notin DOMAIN DerivedHost
        BY <1>3, <3>2, <4>1, <4>3, DefaultsAreUrls DEF DerivedUrl, WasBase
      <4>4. QED BY <4>2, <4>3
    <3>3. CASE Truthy(Now("base_url")) /\ u = Now("base_url")
      <4>1. WasUrl(t)'
        BY <1>1, <1>3, <3>3 DEF WasUrl, Now
      <4>2. QED BY <4>1 DEF WasBase
    <3>4. QED BY <2>2, <3>1, <3>2, <3>3
  <2>3. Resolves(t)' => stage[t] = "url"
    BY <1>3 DEF Resolves
  <2>4. Current' \in seen'[t]
    BY <1>1
  <2>5. QED BY <1>3, <2>1, <2>2, <2>3, <2>4 DEF Evident
<1>4. QED BY <1>2, <1>3, ResolvedOutcome

LEMMA ReadingEvident ==
  ASSUME Typed, OneBuilt, AllEvident, NEW t \in Threads, Reader(t)
  PROVE  Evident(t)' /\ WriterEvident'
<1>1. /\ UNCHANGED <<environ, instance, fields, seen>> /\ Current' = Current
      /\ Calling(t) /\ Current \in seen[t] /\ Holds(t) /\ Evident(t) /\ Current' \in seen'[t]
  BY ReadingFrame, Reads, Places DEF history, AllEvident, Evident, Current, Typed
<1>2. /\ pc \in [Threads -> Locations] /\ request \in [Threads -> Requests] /\ request[t] \in Requests
      /\ stage \in [Threads -> {"none", "configure", "url", "log", "header"} \cup Ends]
  BY DEF Typed, VariableTypes
<1>3. ASSUME pc[t] \in {"base", "flag", "slug"} PROVE stage[t] = "url"
  BY <1>1, <1>3 DEF Holds, Wants, Locations
<1>4. CASE pc[t] = "base" /\ Truthy(Now("base_url")) /\ Resolved(t, Now("base_url"))
  BY <1>3, <1>4, NowFits, ResolvedEvident DEF BaseUrls
<1>5. CASE pc[t] = "base" /\ ~Truthy(Now("base_url")) /\ Then(t, "flag")
  <2>1. pc'[t] = "flag" /\ stage'[t] = "url" /\ request' = request /\ writer' = writer
    BY <1>2, <1>3, <1>5 DEF Then, Goto, shared
  <2>2. WasNoUrl(t)'
    BY <1>1, <1>5 DEF WasNoUrl, Now
  <2>3. request'[t] = NoRequest
    BY <1>1, <1>3, <1>5, <2>1 DEF Evident
  <2>4. QED BY <1>1, <2>1, <2>2, <2>3 DEF Evident, NoRequest, Resolves, AllEvident, WriterEvident
<1>6. CASE pc[t] = "flag" /\ Current.set["derive"] /\ Then(t, "slug")
  <2>1. pc'[t] = "slug" /\ stage'[t] = "url" /\ request' = request /\ writer' = writer
    BY <1>2, <1>3, <1>6 DEF Then, Goto, shared
  <2>2. WasNoUrl(t)' /\ WasDerived(t)'
    BY <1>1, <1>6 DEF WasNoUrl, WasDerived, Evident
  <2>3. request'[t] = NoRequest
    BY <1>1, <1>3, <1>6, <2>1 DEF Evident
  <2>4. QED BY <1>1, <2>1, <2>2, <2>3 DEF Evident, NoRequest, Resolves, AllEvident, WriterEvident
<1>7. CASE pc[t] = "flag" /\ ~Current.set["derive"] /\ Resolved(t, DefaultUrl)
  <2>1. WasNoUrl(t)
    BY <1>1, <1>7 DEF Evident
  <2>2. QED BY <1>3, <1>7, <2>1, ResolvedEvident, DefaultsAreUrls
<1>8. CASE pc[t] = "slug" /\ Resolved(t, DerivedUrl(Now("client_id")))
  <2>1. WasNoUrl(t) /\ WasDerived(t)
    BY <1>1, <1>8 DEF Evident
  <2>2. DerivedUrl(Now("client_id")) \in Urls
    BY HostsAreUrls, DefaultsAreUrls DEF DerivedUrl
  <2>3. QED BY <1>3, <1>8, <2>1, <2>2, ResolvedEvident
<1>9. CASE /\ pc[t] = "log"
           /\ Resolved(t, IF Truthy(Now("log_base_url")) THEN Now("log_base_url") ELSE DefaultLogUrl)
  <2>1. stage[t] = "log"
    BY <1>1, <1>9 DEF Holds, Wants, Locations
  <2> DEFINE u == IF Truthy(Now("log_base_url")) THEN Now("log_base_url") ELSE DefaultLogUrl
  <2>2. u \in Urls
    BY NowFits, DefaultsAreUrls DEF BaseUrls
  <2>3. Resolved(t, u)
    BY <1>9
  <2> HIDE DEF u
  <2>4. QED BY <2>1, <2>2, <2>3, ResolvedEvident
<1>10. CASE /\ pc[t] = "id" /\ Goto(t, "secret") /\ UNCHANGED <<shared, stage>>
            /\ request' = [request EXCEPT ![t].id = Now("client_id")]
  <2>1. pc'[t] = "secret" /\ stage'[t] = "header" /\ writer' = writer
    BY <1>1, <1>2, <1>10 DEF Goto, shared, Holds, Wants, Locations
  <2>2. request'[t].id = Now("client_id") /\ request'[t].url = request[t].url
    BY <1>2, <1>10 DEF Requests
  <2>3. WasId(t)'
    BY <1>1, <2>2 DEF WasId, Now
  <2>4. Resolves(t)' = Resolves(t) /\ Base(t)' = Base(t)
    BY <2>2 DEF Resolves, Base
  <2>5. Resolves(t)' => WasBase(t)'
    BY <1>1, <2>4 DEF Evident, WasBase, WasUrl, WasNoUrl, WasDerived, WasSlug
  <2>6. request'[t].url # None => OneSlash(request'[t].url)
    BY <1>1, <2>2 DEF Evident
  <2>7. QED BY <1>1, <2>1, <2>3, <2>5, <2>6 DEF Evident, AllEvident, WriterEvident
<1>11. CASE /\ pc[t] = "secret" /\ UNCHANGED shared
            /\ request' = [request EXCEPT ![t].secret = Now("client_secret")]
            /\ Ended(t, IF Truthy(request[t].id) /\ Truthy(Now("client_secret"))
                        THEN "sent" ELSE "ConfigurationError")
  <2>1. /\ pc'[t] = "ended" /\ writer' = writer /\ stage'[t] \in {"sent", "ConfigurationError"}
        /\ stage'[t] = "sent" => Truthy(request[t].id) /\ Truthy(Now("client_secret"))
    BY <1>2, <1>11 DEF Ended, Goto, shared
  <2>2. /\ request'[t].id = request[t].id /\ request'[t].url = request[t].url
        /\ request'[t].secret = Now("client_secret")
    BY <1>2, <1>11 DEF Requests
  <2>3. WasId(t)' /\ WasSecret(t)'
    BY <1>1, <1>11, <2>2 DEF WasId, WasSecret, Now, Evident
  <2>4. Resolves(t)' = Resolves(t) /\ Base(t)' = Base(t)
    BY <2>2 DEF Resolves, Base
  <2>5. Resolves(t)' => WasBase(t)'
    BY <1>1, <2>4 DEF Evident, WasBase, WasUrl, WasNoUrl, WasDerived, WasSlug
  <2>6. request'[t].url # None => OneSlash(request'[t].url)
    BY <1>1, <2>2 DEF Evident
  <2>7. QED BY <1>1, <2>1, <2>2, <2>3, <2>5, <2>6 DEF Evident, AllEvident, WriterEvident
<1>12. QED BY <1>4, <1>5, <1>6, <1>7, <1>8, <1>9, <1>10, <1>11, ReadingOutcome

LEMMA EvidentStep ==
  ASSUME Typed, OneBuilt, AllEvident, NEW t \in Threads, Step(t)
  PROVE  AllEvident'
<1>1. Evident(t)' /\ WriterEvident'
  <2>1. ASSUME writer' = writer PROVE WriterEvident'
    BY <2>1 DEF AllEvident, WriterEvident
  <2>2. ASSUME NEW a \in Changes, Started(t), Begin(t, a) PROVE Evident(t)' /\ WriterEvident'
    <3>1. /\ pc[t] = "idle" /\ pc'[t] = "enter" /\ stage'[t] = "configure"
          /\ UNCHANGED <<request, writer>>
      BY <2>2 DEF Started, Begin, Goto, shared, Typed, VariableTypes
    <3>2. request[t] = NoRequest
      BY <3>1 DEF AllEvident, Evident
    <3>3. QED BY <2>1, <3>1, <3>2, NothingResolved DEF Calling
  <2>3. CASE Dropped(t)
    <3>1. UNCHANGED <<pc, stage, request, seen, writer, environ, instance, fields>>
      BY <2>3 DEF Dropped, shared, history
    <3>2. Current' = Current
      BY <3>1 DEF Current
    <3>3. QED BY <2>1, <3>1, <3>2, EvidenceStands DEF AllEvident
  <2>4. CASE Enter(t) \/ Look(t) \/ Publish(t) \/ Target(t) \/ InitDefault(t) \/ Return(t)
               \/ Assign(t) \/ Configured(t)
    <3>1. CASE Configuring(t)
      BY <2>1, <2>4, <3>1, ChangeEvident
    <3>2. CASE ~Configuring(t)
      <4>1. /\ Enter(t) /\ Calling(t) /\ pc'[t] \in {"base", "log", "id"}
            /\ UNCHANGED <<environ, instance, fields, writer, stage, request, bounds, history>>
        BY <2>4, <3>2, CallsOnlyEnter
      <4>2. pc[t] = "enter" /\ seen' = seen /\ Current' = Current /\ Evident(t)
        BY <4>1 DEF Enter, history, Current, AllEvident
      <4>3. Base(t)' = Base(t) /\ Resolves(t)' = Resolves(t)
        BY <4>1 DEF Base, Resolves
      <4>4. WasBase(t) => WasBase(t)'
        BY <4>2, <4>3 DEF WasBase, WasUrl, WasNoUrl, WasDerived, WasSlug
      <4>5. Calling(t) => Current' \in seen'[t]
        BY <4>1, <4>2 DEF Evident
      <4>6. stage[t] # "sent"
        BY <4>1 DEF Calling
      <4>7. Evident(t)'
        BY <4>1, <4>2, <4>3, <4>4, <4>5, <4>6 DEF Evident
      <4>8. QED BY <2>1, <4>1, <4>7
    <3>3. QED BY <3>1, <3>2
  <2>5. CASE CallIntake(t) \/ FirstRow(t) \/ NextRow(t) \/ Again(t)
    BY <2>1, <2>5, ServingEvident
  <2>6. CASE Reader(t)
    BY <2>6, ReadingEvident
  <2>7. QED BY <2>2, <2>3, <2>4, <2>5, <2>6, StepKinds DEF Reader
<1>2. ASSUME NEW u \in Threads \ {t} PROVE Evident(u)'
  <2>1. pc'[u] = pc[u] /\ stage'[u] = stage[u] /\ request'[u] = request[u]
    BY StepAside DEF Aside
  <2>2. seen[u] \subseteq seen'[u] /\ (Calling(u) => Current' \in seen'[u] \/ Current' = Current)
    BY StepSeen
  <2>3. QED BY <2>1, <2>2, EvidenceStands DEF AllEvident
<1>3. QED BY <1>1, <1>2 DEF AllEvident

LEMMA EvidentInvariant ==
  ASSUME ConfiguredFirst
  PROVE  Spec => []AllEvident
<1>1. Init => AllEvident
  <2> SUFFICES ASSUME Init PROVE AllEvident
    OBVIOUS
  <2>1. WriterEvident
    BY DEF Init, WriterEvident
  <2>2. ASSUME NEW t \in Threads PROVE Evident(t)
    <3>1. pc[t] = "idle" /\ stage[t] = "none" /\ request[t] = NoRequest
      BY DEF Init
    <3>2. QED BY <3>1 DEF Evident, Calling, Resolves, NoRequest
  <2>3. QED BY <2>1, <2>2 DEF AllEvident
<1>2. AllEvident /\ OneBuilt /\ Typed /\ [Next]_vars => AllEvident'
  <2>1. ASSUME AllEvident, OneBuilt, Typed, NEW t \in Threads, Step(t) PROVE AllEvident'
    BY <2>1, EvidentStep
  <2>2. ASSUME AllEvident, Typed, NEW e \in Environments, SetEnvironment(e) PROVE AllEvident'
    <3>1. UNCHANGED <<pc, stage, request, writer>> /\ Seen
      BY <2>2 DEF SetEnvironment
    <3>2. ASSUME NEW t \in Threads
          PROVE  seen[t] \subseteq seen'[t] /\ (Calling(t) => Current' \in seen'[t])
      BY <2>2, <3>1 DEF Seen, Typed, VariableTypes
    <3>3. ASSUME NEW t \in Threads PROVE Evident(t)'
      BY <2>2, <3>1, <3>2, EvidenceStands DEF AllEvident
    <3>4. WriterEvident'
      BY <2>2, <3>1 DEF AllEvident, WriterEvident
    <3>5. QED BY <3>3, <3>4 DEF AllEvident
  <2>3. ASSUME AllEvident, UNCHANGED vars PROVE AllEvident'
    <3>1. UNCHANGED <<pc, stage, request, seen, writer, environ, instance, fields>>
      BY <2>3 DEF vars, shared, history
    <3>2. Current' = Current
      BY <3>1 DEF Current
    <3>3. ASSUME NEW t \in Threads PROVE Evident(t)'
      BY <2>3, <3>1, <3>2, EvidenceStands DEF AllEvident
    <3>4. WriterEvident'
      BY <2>3, <3>1 DEF AllEvident, WriterEvident
    <3>5. QED BY <3>3, <3>4 DEF AllEvident
  <2>4. QED BY <2>1, <2>2, <2>3, Steps
<1>3. QED BY <1>1, <1>2, OneBuiltInvariant, TypedInvariant, PTL DEF Spec

(* Whatever is configured beside a call of intake, and however often: the   *)
(* id, the secret and what the URL was made of were each configured at some  *)
(* time while it ran, no credential is missing, and the URL has one slash    *)
(* and one /api before its resource.                                         *)
THEOREM SentIsConfigured ==
  ASSUME ConfiguredFirst
  PROVE  Spec => []SentWasConfigured
<1>1. AllEvident => SentWasConfigured
  <2> SUFFICES ASSUME AllEvident, NEW t \in Threads, pc[t] = "ended"
               PROVE  /\ stage[t] = "sent" =>
                           /\ Truthy(request[t].id) /\ Truthy(request[t].secret)
                           /\ WasId(t) /\ WasSecret(t)
                      /\ request[t].url # None => Last(Base(t)) \notin {"api", Empty}
                      /\ Resolves(t) => WasUrl(t) \/ (WasNoUrl(t) /\ (Base(t) = DefaultUrl \/ (WasDerived(t) /\ WasSlug(t))))
    BY DEF SentWasConfigured, WasId, WasSecret, WasUrl, WasNoUrl, WasDerived, WasSlug
  <2>1. Evident(t)
    BY DEF AllEvident
  <2>2. QED BY <2>1 DEF Evident, OneSlash, Base, WasBase
<1>2. QED BY <1>1, EvidentInvariant, PTL

-----------------------------------------------------------------------------
(* What the changes made so far ask for. *)
LEMMA ExplicitAppended ==
  ASSUME done \in Seq(Changes), NEW a \in Changes, done' = Append(done, a), NEW s
  PROVE  Explicit(s)' = IF s \in DOMAIN a THEN a[s] ELSE Explicit(s)
<1> DEFINE n == Len(done)
           before == {i \in DOMAIN done : s \in DOMAIN done[i]}
           after == {i \in DOMAIN done' : s \in DOMAIN done'[i]}
<1>1. /\ n \in Nat /\ DOMAIN done = 1..n /\ DOMAIN done' = 1..(n + 1)
      /\ done'[n + 1] = a /\ \A i \in 1..n : done'[i] = done[i]
  <2> DEFINE d == Append(done, a)
  <2>1. d \in Seq(Changes) /\ Len(d) = n + 1 /\ d[n + 1] = a /\ \A i \in 1..n : d[i] = done[i]
    BY AppendProperties
  <2>2. DOMAIN d = 1..(n + 1)
    BY <2>1
  <2> HIDE DEF d
  <2>3. QED BY <2>1, <2>2 DEF d
<1>2. /\ Explicit(s) = IF before = {} THEN Default[s] ELSE done[Max(before)][s]
      /\ Explicit(s)' = IF after = {} THEN Default[s] ELSE done'[Max(after)][s]
  BY DEF Explicit, Default
<1>3. CASE s \in DOMAIN a
  <2>1. n + 1 \in after /\ after \in SUBSET (0..(n + 1)) /\ n + 1 \in Nat
    BY <1>1, <1>3
  <2> HIDE DEF after, n
  <2>2. Max(after) \in after /\ Max(after) >= n + 1
    BY <2>1, GreatestIsMax
  <2>3. Max(after) = n + 1
    <3>1. Max(after) \in 0..(n + 1) /\ n \in Nat
      BY <1>1, <2>1, <2>2
    <3>2. QED BY <2>2, <3>1
  <2>4. QED BY <1>1, <1>2, <1>3, <2>1, <2>3
<1>4. CASE s \notin DOMAIN a
  <2>1. after = before
    <3>1. \A i \in 1..(n + 1) : i = n + 1 \/ i \in 1..n
      BY <1>1
    <3>2. QED BY <1>1, <1>4, <3>1
  <2>2. before \in SUBSET (0..n)
    BY <1>1
  <2> HIDE DEF before, after
  <2>3. before # {} => Max(before) \in before
    BY <1>1, <2>2, GreatestIsMax
  <2>4. before # {} => done'[Max(before)] = done[Max(before)]
    BY <1>1, <2>3 DEF before
  <2>5. QED BY <1>2, <1>4, <2>1, <2>4
<1>5. QED BY <1>3, <1>4

LEMMA NothingAsked ==
  ASSUME done = << >>, NEW s
  PROVE  Explicit(s) = Default[s]
<1>1. DOMAIN done = {}
  BY NewObject
<1>2. QED BY <1>1 DEF Explicit

LEMMA SameAsked ==
  ASSUME done' = done
  PROVE  /\ \A s : Explicit(s)' = Explicit(s)
         /\ environ' = environ => (\A s : Chosen(s)' = Chosen(s)) /\ ChosenUrl' = ChosenUrl
BY DEF Explicit, Chosen, ChosenUrl

-----------------------------------------------------------------------------
(* A change at a time leaves the object as the changes made so far ask; and *)
(* a call is quiet only while nobody configures.                             *)
Accepted(t)  == Configuring(t) => values[t] \in Attributes \/ ~Rejected(values[t])
Undisturbed == \A t \in Threads : quiet[t] => \A u \in Threads : ~Configuring(u)
Apart   == \A t, u \in Threads : Configuring(t) /\ Configuring(u) => t = u
AsAsked == instance # None /\ (\A t \in Threads : Configuring(t) => pc[t] = "enter") =>
  \A s \in Settings : fields[1][s] = Explicit(s)
AsDefault(t) == pc[t] = "defaults" =>
  \A k \in DOMAIN Order \ left[t] : fields[1][Order[k]] = Default[Order[k]]
AsAssigned(t) == pc[t] = "assign" => \A k \in DOMAIN Order :
  fields[1][Order[k]] = IF Order[k] \in DOMAIN values[t] /\ k \notin left[t]
                        THEN values[t][Order[k]] ELSE Explicit(Order[k])
Unmixed ==
  /\ Undisturbed /\ \A t \in Threads : Accepted(t)
  /\ ~mixed => Apart /\ AsAsked /\ \A t \in Threads : AsDefault(t) /\ AsAssigned(t)

(* Who sets a field is configuring. *)
LEMMA SettersConfigure ==
  ASSUME Typed, OneBuilt, NEW t \in Threads, pc[t] \in {"publish", "target", "defaults", "assign"}
  PROVE  Configuring(t)
<1>1. CASE pc[t] = "assign"
  BY <1>1 DEF Typed, Holds, Wants, Locations, Configuring
<1>2. CASE Building(t)
  BY <1>2, CallsAreLate
<1>3. QED BY <1>1, <1>2 DEF Building

LEMMA FrameUnmixed ==
  ASSUME Typed, OneBuilt, Unmixed, NEW t \in Threads, Aside(t), ~Configuring(t), ~Configuring(t)',
         UNCHANGED <<instance, fields, done, mixed>>, pc'[t] \notin {"defaults", "assign"},
         \A u \in Threads : quiet'[u] => quiet[u] \/ \A v \in Threads : ~Configuring(v)
  PROVE  Unmixed'
<1>1. \A u \in Threads \ {t} : pc'[u] = pc[u] /\ stage'[u] = stage[u] /\ values'[u] = values[u] /\ left'[u] = left[u]
  BY DEF Aside
<1>2. \A u \in Threads : (Configuring(u)' <=> Configuring(u)) /\ (Configuring(u)' => u # t)
  BY <1>1 DEF Configuring
<1>3. Undisturbed'
  BY <1>2 DEF Unmixed, Undisturbed
<1>4. \A u \in Threads : Accepted(u)'
  BY <1>1, <1>2 DEF Unmixed, Accepted
<1>5. ASSUME ~mixed PROVE Apart' /\ AsAsked'
  <2>1. Apart'
    BY <1>2, <1>5 DEF Unmixed, Apart
  <2>2. \A s : Explicit(s)' = Explicit(s)
    BY SameAsked
  <2>3. ASSUME \A u \in Threads : Configuring(u)' => pc'[u] = "enter"
        PROVE  \A u \in Threads : Configuring(u) => pc[u] = "enter"
    BY <1>1, <1>2, <2>3
  <2>4. AsAsked'
    BY <1>5, <2>2, <2>3 DEF Unmixed, AsAsked
  <2>5. QED BY <2>1, <2>4
<1>6. ASSUME ~mixed, NEW u \in Threads PROVE AsDefault(u)' /\ AsAssigned(u)'
  <2>1. CASE u = t
    BY <2>1 DEF AsDefault, AsAssigned
  <2>2. CASE u # t
    <3>1. AsDefault(u) /\ AsAssigned(u)
      BY <1>6 DEF Unmixed
    <3>2. pc'[u] = pc[u] /\ values'[u] = values[u] /\ left'[u] = left[u]
      BY <1>1, <2>2
    <3>3. \A s : Explicit(s)' = Explicit(s)
      BY SameAsked
    <3>4. AsDefault(u)'
      BY <3>1, <3>2 DEF AsDefault, Default
    <3>5. AsAssigned(u)'
      BY <3>1, <3>2, <3>3 DEF AsAssigned
    <3>6. QED BY <3>4, <3>5
  <2>3. QED BY <2>1, <2>2
<1>7. QED BY <1>3, <1>4, <1>5, <1>6 DEF Unmixed

LEMMA BeginUnmixed ==
  ASSUME Typed, OneBuilt, Unmixed, NEW t \in Threads, Aside(t), NEW a \in Changes,
         a \in Attributes \/ ~Rejected(a), Started(t), Begin(t, a)
  PROVE  Unmixed'
<1>1. \A u \in Threads \ {t} : pc'[u] = pc[u] /\ stage'[u] = stage[u] /\ values'[u] = values[u] /\ left'[u] = left[u]
  BY DEF Aside
<1>2. /\ pc[t] = "idle" /\ pc'[t] = "enter" /\ stage'[t] = "configure" /\ values'[t] = a
      /\ UNCHANGED <<instance, fields, done>>
      /\ mixed' = (mixed \/ \E u \in Threads : Configuring(u))
      /\ quiet' = [u \in Threads |-> FALSE]
  BY DEF Started, Begin, Goto, shared, Typed, VariableTypes
<1>3. Undisturbed'
  BY <1>2 DEF Undisturbed
<1>4. \A u \in Threads : Accepted(u)'
  BY <1>1, <1>2 DEF Unmixed, Accepted, Configuring
<1>5. ASSUME ~mixed' PROVE Apart' /\ AsAsked' /\ \A u \in Threads : AsDefault(u)' /\ AsAssigned(u)'
  <2>1. ~mixed /\ \A u \in Threads : ~Configuring(u)
    BY <1>2, <1>5
  <2>2. \A u \in Threads : Configuring(u)' => u = t
    BY <1>1, <2>1 DEF Configuring
  <2>3. \A u \in Threads : pc'[u] \notin {"defaults", "assign"}
    BY <1>1, <1>2, <2>1, SettersConfigure
  <2>4. AsAsked'
    BY <1>2, <2>1, SameAsked DEF Unmixed, AsAsked
  <2>5. QED BY <2>2, <2>3, <2>4 DEF Apart, AsDefault, AsAssigned
<1>6. QED BY <1>3, <1>4, <1>5 DEF Unmixed

(* A step of a change: it is the one change there is, unless two are mixed. *)
LEMMA ChangeUnmixed ==
  ASSUME Typed, OneBuilt, Unmixed, NEW t \in Threads, Aside(t), Configuring(t),
         quiet' = quiet, mixed' = mixed, values'[t] = values[t] \/ ~Configuring(t)',
         stage' = stage,
         ~mixed /\ Apart => AsAsked' /\ AsDefault(t)' /\ AsAssigned(t)'
  PROVE  Unmixed'
<1>1. \A u \in Threads \ {t} : pc'[u] = pc[u] /\ stage'[u] = stage[u] /\ values'[u] = values[u] /\ left'[u] = left[u]
  BY DEF Aside
<1>2. \A u \in Threads \ {t} : Configuring(u)' <=> Configuring(u)
  BY <1>1 DEF Configuring
<1>3. Undisturbed'
  BY DEF Unmixed, Undisturbed
<1>4. \A u \in Threads : Accepted(u)'
  BY <1>1, <1>2 DEF Unmixed, Accepted
<1>5. ASSUME ~mixed PROVE Apart' /\ AsAsked' /\ \A u \in Threads : AsDefault(u)' /\ AsAssigned(u)'
  <2>1. Apart
    BY <1>5 DEF Unmixed
  <2>2. \A u \in Threads \ {t} : ~Configuring(u)
    BY <2>1 DEF Apart
  <2>3. \A u \in Threads \ {t} : pc'[u] \notin {"defaults", "assign"}
    BY <1>1, <2>2, SettersConfigure
  <2>4. Apart'
    BY <1>2, <2>2 DEF Apart
  <2>5. QED BY <1>5, <2>1, <2>3, <2>4 DEF AsDefault, AsAssigned
<1>6. QED BY <1>3, <1>4, <1>5 DEF Unmixed

LEMMA EnteringUnmixed ==
  ASSUME Typed, OneBuilt, Unmixed, NEW t \in Threads, Aside(t), Configuring(t),
         Enter(t) \/ Look(t) \/ Publish(t) \/ Target(t) \/ Return(t)
  PROVE  Unmixed'
<1>1. /\ pc \in [Threads -> Locations] /\ left \in [Threads -> SUBSET DOMAIN Order]
      /\ stage[t] = "configure" /\ done \in Seq(Changes)
  BY DEF Typed, VariableTypes, Configuring
<1>2. CASE Enter(t) \/ Return(t)
  <2>1. /\ UNCHANGED <<instance, fields, done, quiet, mixed, stage, values>> /\ pc'[t] = "assign"
        /\ left'[t] = {k \in DOMAIN Order : Order[k] \in DOMAIN values[t]}
    BY <1>1, <1>2 DEF Enter, Return, Got, Goto, Work, shared, history
  <2>2. Configuring(t)' /\ instance # None
    BY <1>1, <1>2, <2>1 DEF Configuring, Enter, Return, OneBuilt, Begun, Working
  <2>3. ASSUME ~mixed, Apart PROVE \A s \in Settings : fields[1][s] = Explicit(s)
    <3>1. CASE Enter(t)
      BY <2>2, <2>3, <3>1 DEF Enter, Unmixed, AsAsked, Apart
    <3>2. CASE Return(t)
      <4>1. pc[t] = "defaults" /\ left[t] = {} /\ done = << >>
        BY <3>2 DEF Return, OneBuilt, Placed, Building
      <4>2. \A k \in DOMAIN Order : fields[1][Order[k]] = Default[Order[k]]
        BY <2>3, <4>1 DEF Unmixed, AsDefault
      <4>3. QED BY <4>1, <4>2, Places, NothingAsked
    <3>3. QED BY <1>2, <3>1, <3>2
  <2>4. ASSUME ~mixed, Apart PROVE AsAsked' /\ AsDefault(t)' /\ AsAssigned(t)'
    <3>1. AsAsked'
      BY <2>1, <2>2 DEF AsAsked
    <3>2. \A s : Explicit(s)' = Explicit(s)
      BY <2>1, SameAsked
    <3>3. ASSUME NEW k \in DOMAIN Order
          PROVE  fields'[1][Order[k]] = IF Order[k] \in DOMAIN values'[t] /\ k \notin left'[t]
                                        THEN values'[t][Order[k]] ELSE Explicit(Order[k])'
      <4>1. ~(Order[k] \in DOMAIN values[t] /\ k \notin left'[t])
        BY <2>1
      <4>2. fields[1][Order[k]] = Explicit(Order[k])
        BY <2>3, <2>4, Places
      <4>3. QED BY <2>1, <3>2, <4>1, <4>2
    <3>4. QED BY <2>1, <3>1, <3>3 DEF AsDefault, AsAssigned
  <2>5. QED BY <2>1, <2>4, ChangeUnmixed
<1>3. CASE Look(t) \/ Publish(t)
  <2>1. /\ UNCHANGED <<quiet, mixed, stage, values>> /\ pc'[t] \in {"publish", "target"}
    BY <1>1, <1>3 DEF Look, Publish, Goto, shared, history
  <2>2. Configuring(t)'
    BY <1>1, <2>1 DEF Configuring
  <2>3. QED BY <2>1, <2>2, ChangeUnmixed DEF AsAsked, AsDefault, AsAssigned
<1>4. CASE Target(t)
  <2>1. /\ UNCHANGED <<quiet, mixed, stage, values>> /\ pc'[t] = "defaults" /\ left'[t] = DOMAIN Order
    BY <1>1, <1>4 DEF Target, Goto, history
  <2>2. Configuring(t)'
    BY <1>1, <2>1 DEF Configuring
  <2>3. QED BY <2>1, <2>2, ChangeUnmixed DEF AsAsked, AsDefault, AsAssigned
<1>5. QED BY <1>2, <1>3, <1>4

LEMMA SettingUnmixed ==
  ASSUME Typed, OneBuilt, Unmixed, NEW t \in Threads, Aside(t), InitDefault(t)
  PROVE  Unmixed'
<1>1. /\ pc[t] = "defaults" /\ left[t] \subseteq DOMAIN Order /\ left[t] # {}
      /\ Configuring(t) /\ UNCHANGED <<quiet, mixed, stage, values, pc>>
  BY SettersConfigure DEF Typed, VariableTypes, InitDefault
<1>2. Coming(t) = Order[Min(left[t])] /\ left'[t] = left[t] \ {Min(left[t])} /\ Min(left[t]) \in left[t]
  BY <1>1, ComingIsLeft DEF InitDefault, Advance, Typed, VariableTypes
<1>3. \A x \in DOMAIN fields[1] \cup {Coming(t)} :
        fields'[1][x] = IF x = Coming(t) THEN Default[Coming(t)] ELSE fields[1][x]
  BY <1>1, FieldBuilt, ComingIsLeft, DefaultFits DEF InitDefault
<1>4. ASSUME ~mixed PROVE AsDefault(t)'
  <2>1. ASSUME NEW k \in DOMAIN Order \ left'[t] PROVE fields'[1][Order[k]] = Default[Order[k]]
    <3>1. CASE k = Min(left[t])
      BY <1>2, <1>3, <3>1
    <3>2. CASE k # Min(left[t])
      <4>1. Order[k] # Coming(t)
        BY <1>1, <1>2, <3>2, Places
      <4>2. fields[1][Order[k]] = Default[Order[k]] /\ Order[k] \in DOMAIN fields[1]
        BY <1>1, <1>2, <1>4, <3>2 DEF Unmixed, AsDefault, OneBuilt, Filled
      <4>3. QED BY <1>3, <4>1, <4>2
    <3>3. QED BY <3>1, <3>2
  <2>2. QED BY <2>1 DEF AsDefault, Default
<1>5. Configuring(t)' /\ pc'[t] = "defaults"
  BY <1>1 DEF Configuring
<1>6. QED BY <1>1, <1>4, <1>5, ChangeUnmixed DEF AsAsked, AsAssigned

(* A setter that refuses has assigned nothing before: configure() checked   *)
(* what it would refuse, and an assignment sets one thing.                    *)
LEMMA AssigningUnmixed ==
  ASSUME Typed, OneBuilt, Unmixed, NEW t \in Threads, Aside(t), Assign(t)
  PROVE  Unmixed'
<1> DEFINE s == Coming(t)  v == values[t][s]
<1>1. /\ pc[t] = "assign" /\ left[t] # {} /\ left[t] \subseteq DOMAIN Order
      /\ Configuring(t) /\ UNCHANGED <<quiet, mixed, stage>>
      /\ \A k \in left[t] : Order[k] \in DOMAIN values[t]
  BY SettersConfigure DEF Typed, VariableTypes, Assign, history, Holds
<1>2. s = Order[Min(left[t])] /\ Min(left[t]) \in left[t] /\ s \in DOMAIN values[t] /\ s \in Settings
  BY <1>1, ComingIsLeft
<1>3. values[t] \in Changes /\ instance # None
  BY <1>1 DEF Typed, Holds, OneBuilt, Begun, Working
<1>4. CASE s \in {"cache_ttl", "derive"} /\ v = Bad
  <2>1. pc'[t] = "idle" /\ UNCHANGED <<instance, fields, done>>
    BY <1>1, <1>4 DEF Assign, Goto, shared, history, Typed, VariableTypes
  <2>2. values[t] \in Attributes
    <3>1. Rejected(values[t])
      BY <1>2, <1>4 DEF Rejected
    <3>2. QED BY <1>1, <3>1 DEF Unmixed, Accepted
  <2>3. \A x \in DOMAIN values[t] : x = s
    <3>1. PICK z \in Settings : DOMAIN values[t] = {z}
      BY <2>2, ConfigurationAssumption
    <3>2. QED BY <1>2, <3>1
  <2>4. ASSUME ~mixed PROVE AsAsked'
    <3>1. ASSUME NEW x \in Settings PROVE fields[1][x] = Explicit(x)
      <4>1. PICK k \in DOMAIN Order : Order[k] = x
        BY Places
      <4>2. fields[1][Order[k]] = IF Order[k] \in DOMAIN values[t] /\ k \notin left[t]
                                  THEN values[t][Order[k]] ELSE Explicit(Order[k])
        BY <1>1, <2>4 DEF Unmixed, AsAssigned
      <4>3. Order[k] \in DOMAIN values[t] => k \in left[t]
        BY <1>1, <1>2, <2>3, Places
      <4>4. QED BY <4>1, <4>2, <4>3
    <3>2. \A x : Explicit(x)' = Explicit(x)
      BY <2>1, SameAsked
    <3>3. QED BY <2>1, <3>1, <3>2 DEF AsAsked
  <2>5. ~Configuring(t)'
    BY <2>1 DEF Configuring
  <2>6. AsDefault(t)' /\ AsAssigned(t)'
    BY <2>1 DEF AsDefault, AsAssigned
  <2>7. QED BY <1>1, <2>4, <2>5, <2>6, ChangeUnmixed
<1>5. CASE ~(s \in {"cache_ttl", "derive"} /\ v = Bad)
  <2>1. /\ SetField(obj[t], s, v) /\ Advance(t) /\ UNCHANGED <<instance, writer, pc, obj, values, done>>
    BY <1>5 DEF Assign
  <2>2. left'[t] = left[t] \ {Min(left[t])}
    BY <2>1 DEF Advance, Typed, VariableTypes
  <2>3. Fits(s, v)
    BY <1>2, <1>3, <1>5, ChangeFits
  <2>4. /\ OneBuilt'
        /\ \A x \in DOMAIN fields[1] \cup {s} : fields'[1][x] = IF x = s THEN v ELSE fields[1][x]
    BY <1>1, <2>1, <2>3, FieldBuilt
  <2>5. Configuring(t)' /\ pc'[t] = "assign"
    BY <1>1, <2>1 DEF Configuring
  <2>6. ASSUME ~mixed, Apart PROVE AsAssigned(t)'
    <3>1. \A x : Explicit(x)' = Explicit(x)
      BY <2>1, SameAsked
    <3>2. Settings \subseteq DOMAIN fields[1]
      <4>1. \A u \in Threads : pc[u] \notin {"target", "defaults"}
        BY <1>1, <2>6, SettersConfigure DEF Apart
      <4>2. QED BY <1>3, <4>1 DEF OneBuilt, Filled
    <3>3. ASSUME NEW k \in DOMAIN Order
          PROVE  fields'[1][Order[k]] = IF Order[k] \in DOMAIN values[t] /\ k \notin left'[t]
                                        THEN values[t][Order[k]] ELSE Explicit(Order[k])
      <4>1. fields[1][Order[k]] = IF Order[k] \in DOMAIN values[t] /\ k \notin left[t]
                                  THEN values[t][Order[k]] ELSE Explicit(Order[k])
        BY <1>1, <2>6 DEF Unmixed, AsAssigned
      <4>2. CASE k = Min(left[t])
        BY <1>2, <2>2, <2>4, <4>2
      <4>3. CASE k # Min(left[t])
        <5>1. Order[k] # s /\ Order[k] \in DOMAIN fields[1]
          BY <1>1, <1>2, <3>2, <4>3, Places
        <5>2. fields'[1][Order[k]] = fields[1][Order[k]]
          BY <2>4, <5>1
        <5>3. k \in left'[t] <=> k \in left[t]
          BY <2>2, <4>3
        <5>4. QED BY <4>1, <5>2, <5>3
      <4>4. QED BY <4>2, <4>3
    <3>4. QED BY <2>1, <3>1, <3>3 DEF AsAssigned
  <2>7. AsAsked' /\ AsDefault(t)'
    BY <2>5 DEF AsAsked, AsDefault
  <2>8. QED BY <1>1, <2>1, <2>6, <2>7, ChangeUnmixed
<1>6. QED BY <1>4, <1>5

LEMMA ConfiguredUnmixed ==
  ASSUME Typed, OneBuilt, Unmixed, NEW t \in Threads, Aside(t), Configured(t)
  PROVE  Unmixed'
<1>1. /\ pc[t] = "assign" /\ pc'[t] = "idle" /\ left[t] = {} /\ Configuring(t)
      /\ done' = Append(done, values[t]) /\ done \in Seq(Changes)
      /\ UNCHANGED <<instance, fields, quiet, mixed, stage>>
  BY SettersConfigure DEF Typed, VariableTypes, Configured, Goto, shared
<1>2. values[t] \in Changes
  BY <1>1 DEF Typed, Holds
<1>3. ~Configuring(t)'
  BY <1>1 DEF Configuring
<1>4. ASSUME ~mixed PROVE AsAsked'
  <2>1. ASSUME NEW x \in Settings PROVE fields[1][x] = Explicit(x)'
    <3>1. PICK k \in DOMAIN Order : Order[k] = x
      BY Places
    <3>2. fields[1][x] = IF x \in DOMAIN values[t] THEN values[t][x] ELSE Explicit(x)
      BY <1>1, <1>4, <3>1 DEF Unmixed, AsAssigned
    <3>3. QED BY <1>1, <1>2, <3>2, ExplicitAppended
  <2>2. QED BY <1>1, <2>1 DEF AsAsked
<1>5. AsDefault(t)' /\ AsAssigned(t)'
  BY <1>1 DEF AsDefault, AsAssigned
<1>6. QED BY <1>1, <1>3, <1>4, <1>5, ChangeUnmixed

LEMMA UnmixedStep ==
  ASSUME Typed, OneBuilt, Unmixed, NEW t \in Threads, Step(t)
  PROVE  Unmixed'
<1>1. Aside(t) /\ pc \in [Threads -> Locations] /\ quiet \in [Threads -> BOOLEAN]
      /\ stage \in [Threads -> {"none", "configure", "url", "log", "header"} \cup Ends]
  BY StepAside DEF Typed, VariableTypes
<1>2. ASSUME NEW a \in Changes, a \in Attributes \/ ~Rejected(a), Started(t), Begin(t, a) PROVE Unmixed'
  BY <1>1, <1>2, BeginUnmixed
<1>3. CASE Dropped(t)
  <2>1. UNCHANGED <<pc, stage, values, left, instance, fields, done, mixed, quiet>>
    BY <1>3 DEF Dropped, shared, history
  <2>2. /\ Undisturbed' /\ \A u \in Threads : Accepted(u)'
    BY <2>1 DEF Unmixed, Undisturbed, Accepted, Configuring
  <2>3. \A s : Explicit(s)' = Explicit(s)
    BY <2>1, SameAsked
  <2>4. AsAsked => AsAsked'
    BY <2>1, <2>3 DEF AsAsked, Configuring
  <2>5. Apart => Apart'
    BY <2>1 DEF Apart, Configuring
  <2>6. ASSUME NEW u \in Threads PROVE (AsDefault(u) => AsDefault(u)') /\ (AsAssigned(u) => AsAssigned(u)')
    BY <2>1, <2>3 DEF AsDefault, AsAssigned, Default
  <2>7. QED BY <2>1, <2>2, <2>4, <2>5, <2>6 DEF Unmixed
<1>4. CASE Enter(t) \/ Look(t) \/ Publish(t) \/ Target(t) \/ InitDefault(t) \/ Return(t)
             \/ Assign(t) \/ Configured(t)
  <2>1. CASE Configuring(t)
    BY <1>1, <1>4, <2>1, EnteringUnmixed, SettingUnmixed, AssigningUnmixed, ConfiguredUnmixed
  <2>2. CASE ~Configuring(t)
    <3>1. /\ pc'[t] \in {"base", "log", "id"}
          /\ UNCHANGED <<instance, fields, stage, history>> /\ Calling(t)
      BY <1>4, <2>2, CallsOnlyEnter
    <3>2. ~Configuring(t)'
      BY <3>1 DEF Configuring, Calling
    <3>3. QED BY <1>1, <2>2, <3>1, <3>2, FrameUnmixed DEF history
  <2>3. QED BY <2>1, <2>2
<1>5. CASE CallIntake(t) \/ FirstRow(t) \/ NextRow(t) \/ Again(t)
  <2>1. /\ UNCHANGED <<instance, fields, done, mixed>> /\ pc[t] \in {"idle", "ended"}
        /\ pc'[t] = "idle" \/ (pc'[t] = "enter" /\ stage'[t] \in {"url", "log", "header"})
    BY <1>1, <1>5 DEF CallIntake, FirstRow, NextRow, Again, BeginCall, Goto, shared
  <2>2. quiet' = quiet \/ quiet' = [quiet EXCEPT ![t] = \A u \in Threads : ~Configuring(u)]
    BY <1>5 DEF CallIntake, FirstRow, NextRow, Again, BeginCall
  <2>3. ASSUME NEW u \in Threads PROVE quiet'[u] => quiet[u] \/ \A v \in Threads : ~Configuring(v)
    BY <1>1, <2>2
  <2>4. ~Configuring(t) /\ ~Configuring(t)'
    BY <2>1 DEF Configuring
  <2>5. QED BY <1>1, <2>1, <2>3, <2>4, FrameUnmixed
<1>6. CASE Reader(t)
  <2>1. /\ UNCHANGED <<instance, fields, done, mixed, quiet>> /\ Calling(t)
        /\ pc'[t] \in {"ended", "enter", "flag", "slug", "secret"}
    BY <1>6, ReadingFrame, Reads, Places DEF history
  <2>2. ~Configuring(t)
    BY <2>1 DEF Configuring, Calling
  <2>3. ~Configuring(t)'
    <3>1. stage'[t] \in {"header", "url"} \cup Ends \/ stage'[t] = stage[t]
      BY <1>1, <1>6, ReadingOutcome DEF Resolved, Then, Ended, Ends
    <3>2. QED BY <2>1, <3>1 DEF Configuring, Calling, Ends
  <2>4. QED BY <1>1, <2>1, <2>2, <2>3, FrameUnmixed
<1>7. QED BY <1>2, <1>3, <1>4, <1>5, <1>6, StepKinds DEF Reader

LEMMA UnmixedInvariant ==
  ASSUME ConfiguredFirst
  PROVE  Spec => []Unmixed
<1>1. Init => Unmixed
  BY DEF Init, Unmixed, Undisturbed, Accepted, Configuring, Apart, AsAsked, AsDefault, AsAssigned
<1>2. Unmixed /\ OneBuilt /\ Typed /\ [Next]_vars => Unmixed'
  <2>1. ASSUME Unmixed, OneBuilt, Typed, NEW t \in Threads, Step(t) PROVE Unmixed'
    BY <2>1, UnmixedStep
  <2>2. ASSUME Unmixed, UNCHANGED <<pc, stage, values, left, instance, fields, done, mixed>>,
               \A t \in Threads : quiet'[t] => quiet[t]
        PROVE  Unmixed'
    <3>1. /\ Undisturbed' /\ \A u \in Threads : Accepted(u)'
      BY <2>2 DEF Unmixed, Undisturbed, Accepted, Configuring
    <3>2. \A s : Explicit(s)' = Explicit(s)
      BY <2>2, SameAsked
    <3>3. AsAsked => AsAsked'
      BY <2>2, <3>2 DEF AsAsked, Configuring
    <3>4. Apart => Apart'
      BY <2>2 DEF Apart, Configuring
    <3>5. ASSUME NEW u \in Threads PROVE (AsDefault(u) => AsDefault(u)') /\ (AsAssigned(u) => AsAssigned(u)')
      BY <2>2, <3>2 DEF AsDefault, AsAssigned, Default
    <3>6. QED BY <2>2, <3>1, <3>3, <3>4, <3>5 DEF Unmixed
  <2>3. ASSUME Unmixed, NEW e \in Environments, SetEnvironment(e) PROVE Unmixed'
    BY <2>2, <2>3 DEF SetEnvironment
  <2>4. ASSUME Unmixed, UNCHANGED vars PROVE Unmixed'
    BY <2>2, <2>4 DEF vars, shared, history
  <2>5. QED BY <2>1, <2>3, <2>4, Steps
<1>3. QED BY <1>1, <1>2, OneBuiltInvariant, TypedInvariant, PTL DEF Spec

-----------------------------------------------------------------------------
(* What a quiet call has resolved so far is what the changes ask for. *)
ChosenLogUrl == IF Truthy(Chosen("log_base_url")) THEN Chosen("log_base_url") ELSE DefaultLogUrl
WholeSoFar(t) == quiet[t] /\ ~mixed =>
  /\ pc[t] \in {"flag", "slug"} => ~Truthy(Chosen("base_url"))
  /\ pc[t] = "slug" => Explicit("derive")
  /\ Resolves(t) => Base(t) = RStripped(ChosenUrl)
  /\ pc[t] = "secret" \/ stage[t] = "sent" => request[t].id = Chosen("client_id")
  /\ stage[t] = "sent" => request[t].secret = Chosen("client_secret")
  /\ stage[t] # "AttributeError"
  /\ stage[t] = "ConfigurationError" => ~Truthy(Chosen("client_id")) \/ ~Truthy(Chosen("client_secret"))
  /\ stage[t] = "ValueError" =>
       "api" \in {Last(RStripped(ChosenUrl)), Last(RStripped(ChosenLogUrl))}

(* What was whole stays whole while nothing is configured. *)
LEMMA StaysWhole ==
  ASSUME NEW t \in Threads, WholeSoFar(t), quiet'[t] => quiet[t], UNCHANGED <<environ, done, mixed>>,
         pc'[t] = pc[t], stage'[t] = stage[t], request'[t] = request[t]
  PROVE  WholeSoFar(t)'
<1>1. (\A s : Chosen(s)' = Chosen(s) /\ Explicit(s)' = Explicit(s)) /\ ChosenUrl' = ChosenUrl
  BY SameAsked
<1>2. ChosenLogUrl' = ChosenLogUrl
  BY <1>1 DEF ChosenLogUrl
<1>3. Base(t)' = Base(t) /\ Resolves(t)' = Resolves(t)
  BY DEF Base, Resolves
<1>4. QED BY <1>1, <1>2, <1>3 DEF WholeSoFar

LEMMA WholeOfNothing ==
  ASSUME NEW t \in Threads, pc'[t] \notin {"flag", "slug", "secret"}, stage'[t] \notin Ends, ~Resolves(t)'
  PROVE  WholeSoFar(t)'
BY DEF WholeSoFar, Ends

(* A quiet call reads what the changes ask for. *)
LEMMA QuietReads ==
  ASSUME Typed, OneBuilt, Unmixed, NEW t \in Threads, Reader(t), quiet[t], ~mixed
  PROVE  /\ \A s \in Settings \cap FromEnvironment : Now(s) = Chosen(s)
         /\ Current.set["derive"] = Explicit("derive")
<1>1. \A u \in Threads : ~Configuring(u)
  BY DEF Unmixed, Undisturbed
<1>2. instance # None
  BY Reads, CallsAreLate, Places
<1>3. \A s \in Settings : fields[1][s] = Explicit(s)
  BY <1>1, <1>2 DEF Unmixed, AsAsked
<1>4. ASSUME NEW s \in Settings \cap FromEnvironment PROVE Now(s) = Chosen(s)
  <2>1. Get(t, s) = Explicit(s) /\ Or(Get(t, s), environ[s]) = Now(s)
    BY <1>3, Reads
  <2>2. QED BY <2>1 DEF Or, Chosen
<1>5. "derive" \in Settings
  BY Places
<1>6. Current.set = fields[1]
  BY <1>5, Reads
<1>7. QED BY <1>3, <1>4, <1>5, <1>6

LEMMA ResolvedWhole ==
  ASSUME Typed, OneBuilt, Unmixed, AllEvident, NEW t \in Threads, Reader(t), NEW u \in Urls,
         stage[t] \in {"url", "log"}, Resolved(t, u), quiet[t], ~mixed,
         u = IF stage[t] = "url" THEN ChosenUrl ELSE ChosenLogUrl
  PROVE  WholeSoFar(t)'
<1>1. /\ UNCHANGED <<environ, done, mixed, quiet>> /\ request[t] = NoRequest
  BY ReadingFrame DEF history, AllEvident, Evident
<1>2. (\A s : Chosen(s)' = Chosen(s) /\ Explicit(s)' = Explicit(s)) /\ ChosenUrl' = ChosenUrl
  BY <1>1, SameAsked
<1>3. ChosenLogUrl' = ChosenLogUrl
  BY <1>2 DEF ChosenLogUrl
<1>4. CASE /\ pc'[t] = "ended" /\ stage'[t] = "ValueError"
           /\ request' = request /\ writer' = writer /\ Last(RStripped(u)) = "api"
  <2>1. ~Resolves(t)'
    BY <1>1, <1>4 DEF Resolves, NoRequest
  <2>2. QED BY <1>2, <1>3, <1>4, <2>1 DEF WholeSoFar
<1>5. CASE /\ pc'[t] = "enter" /\ stage'[t] = "header"
           /\ request'[t].url # None /\ OneSlash(request'[t].url)
           /\ Last(request'[t].url) = stage[t] /\ Base(t)' = RStripped(u)
           /\ writer' = IF stage[t] = "log" THEN request'[t].url ELSE writer
  <2>1. Resolves(t)' => Base(t)' = RStripped(ChosenUrl')
    BY <1>2, <1>5 DEF Resolves
  <2>2. QED BY <1>5, <2>1 DEF WholeSoFar
<1>6. QED BY <1>4, <1>5, ResolvedOutcome

LEMMA ReadingWhole ==
  ASSUME Typed, OneBuilt, Unmixed, AllEvident, NEW t \in Threads, WholeSoFar(t), Reader(t)
  PROVE  WholeSoFar(t)'
<1>1. /\ UNCHANGED <<environ, done, mixed, quiet>> /\ Holds(t) /\ Evident(t) /\ Calling(t)
  BY ReadingFrame, Reads, Places DEF history, AllEvident, Typed
<1> SUFFICES ASSUME quiet[t], ~mixed PROVE WholeSoFar(t)'
  BY <1>1 DEF WholeSoFar
<1>2. /\ pc \in [Threads -> Locations] /\ request \in [Threads -> Requests] /\ request[t] \in Requests
      /\ stage \in [Threads -> {"none", "configure", "url", "log", "header"} \cup Ends]
  BY DEF Typed, VariableTypes
<1>3. ASSUME pc[t] \in {"base", "flag", "slug"} PROVE stage[t] = "url" /\ request[t] = NoRequest
  <2>1. stage[t] = "url"
    BY <1>1, <1>3 DEF Holds, Wants, Locations
  <2>2. QED BY <1>1, <2>1 DEF Evident
<1>4. /\ Now("base_url") = Chosen("base_url") /\ Now("client_id") = Chosen("client_id")
      /\ Now("log_base_url") = Chosen("log_base_url") /\ Now("client_secret") = Chosen("client_secret")
      /\ Current.set["derive"] = Explicit("derive")
  BY QuietReads, Places DEF FromEnvironment
<1>5. (\A s : Chosen(s)' = Chosen(s) /\ Explicit(s)' = Explicit(s)) /\ ChosenUrl' = ChosenUrl
  BY <1>1, SameAsked
<1>6. CASE pc[t] = "base" /\ Truthy(Now("base_url")) /\ Resolved(t, Now("base_url"))
  <2>1. Now("base_url") = ChosenUrl
    BY <1>4, <1>6 DEF ChosenUrl
  <2>2. QED BY <1>3, <1>6, <2>1, NowFits, ResolvedWhole DEF BaseUrls
<1>7. CASE pc[t] = "base" /\ ~Truthy(Now("base_url")) /\ Then(t, "flag")
  <2>1. pc'[t] = "flag" /\ stage'[t] = "url" /\ request'[t] = NoRequest
    BY <1>2, <1>3, <1>7 DEF Then, Goto
  <2>2. QED BY <1>4, <1>5, <1>7, <2>1 DEF WholeSoFar, Resolves, NoRequest
<1>8. CASE pc[t] = "flag" /\ Current.set["derive"] /\ Then(t, "slug")
  <2>1. pc'[t] = "slug" /\ stage'[t] = "url" /\ request'[t] = NoRequest
    BY <1>2, <1>3, <1>8 DEF Then, Goto
  <2>2. ~Truthy(Chosen("base_url"))
    BY <1>8 DEF WholeSoFar
  <2>3. QED BY <1>4, <1>5, <1>8, <2>1, <2>2 DEF WholeSoFar, Resolves, NoRequest
<1>9. CASE pc[t] = "flag" /\ ~Current.set["derive"] /\ Resolved(t, DefaultUrl)
  <2>1. DefaultUrl = ChosenUrl
    BY <1>4, <1>9 DEF ChosenUrl, WholeSoFar
  <2>2. QED BY <1>3, <1>9, <2>1, ResolvedWhole, DefaultsAreUrls
<1>10. CASE pc[t] = "slug" /\ Resolved(t, DerivedUrl(Now("client_id")))
  <2>1. DerivedUrl(Now("client_id")) = ChosenUrl
    BY <1>4, <1>10 DEF ChosenUrl, WholeSoFar, DerivedUrl
  <2>2. DerivedUrl(Now("client_id")) \in Urls
    BY HostsAreUrls, DefaultsAreUrls DEF DerivedUrl
  <2>3. QED BY <1>3, <1>10, <2>1, <2>2, ResolvedWhole
<1>11. CASE /\ pc[t] = "log"
            /\ Resolved(t, IF Truthy(Now("log_base_url")) THEN Now("log_base_url") ELSE DefaultLogUrl)
  <2>1. stage[t] = "log"
    BY <1>1, <1>11 DEF Holds, Wants, Locations
  <2>2. ChosenLogUrl \in Urls
    BY <1>4, NowFits, DefaultsAreUrls DEF BaseUrls, ChosenLogUrl
  <2>3. Resolved(t, ChosenLogUrl)
    BY <1>4, <1>11 DEF ChosenLogUrl
  <2>4. QED BY <2>1, <2>2, <2>3, ResolvedWhole
<1>12. CASE /\ pc[t] = "id" /\ Goto(t, "secret") /\ UNCHANGED <<shared, stage>>
            /\ request' = [request EXCEPT ![t].id = Now("client_id")]
  <2>1. pc'[t] = "secret" /\ stage'[t] = "header"
    BY <1>1, <1>2, <1>12 DEF Goto, Holds, Wants, Locations
  <2>2. request'[t].id = Now("client_id") /\ request'[t].url = request[t].url
    BY <1>2, <1>12 DEF Requests
  <2>3. Resolves(t)' = Resolves(t) /\ Base(t)' = Base(t)
    BY <2>2 DEF Resolves, Base
  <2>4. QED BY <1>4, <1>5, <2>1, <2>2, <2>3 DEF WholeSoFar
<1>13. CASE /\ pc[t] = "secret" /\ UNCHANGED shared
            /\ request' = [request EXCEPT ![t].secret = Now("client_secret")]
            /\ Ended(t, IF Truthy(request[t].id) /\ Truthy(Now("client_secret"))
                        THEN "sent" ELSE "ConfigurationError")
  <2>1. /\ pc'[t] = "ended"
        /\ stage'[t] = IF Truthy(request[t].id) /\ Truthy(Now("client_secret"))
                       THEN "sent" ELSE "ConfigurationError"
    BY <1>2, <1>13 DEF Ended, Goto
  <2>2. /\ request'[t].id = request[t].id /\ request'[t].url = request[t].url
        /\ request'[t].secret = Now("client_secret")
    BY <1>2, <1>13 DEF Requests
  <2>3. Resolves(t)' = Resolves(t) /\ Base(t)' = Base(t)
    BY <2>2 DEF Resolves, Base
  <2>4. request[t].id = Chosen("client_id")
    BY <1>13 DEF WholeSoFar
  <2>5. QED BY <1>4, <1>5, <2>1, <2>2, <2>3, <2>4 DEF WholeSoFar
<1>14. QED BY <1>6, <1>7, <1>8, <1>9, <1>10, <1>11, <1>12, <1>13, ReadingOutcome

LEMMA WholeStep ==
  ASSUME Typed, OneBuilt, Unmixed, AllEvident, \A u \in Threads : WholeSoFar(u),
         NEW t \in Threads, Step(t), NEW u \in Threads
  PROVE  WholeSoFar(u)'
<1>1. /\ pc \in [Threads -> Locations] /\ request \in [Threads -> Requests]
      /\ stage \in [Threads -> {"none", "configure", "url", "log", "header"} \cup Ends]
      /\ quiet \in [Threads -> BOOLEAN] /\ Evident(t)
  BY DEF Typed, VariableTypes, AllEvident
<1>2. ASSUME u # t PROVE pc'[u] = pc[u] /\ stage'[u] = stage[u] /\ request'[u] = request[u]
  BY <1>2, StepAside DEF Aside
<1>3. ASSUME NEW a \in Changes, Begin(t, a) PROVE WholeSoFar(u)'
  <2>1. ~quiet'[u]
    BY <1>3 DEF Begin
  <2>2. QED BY <2>1 DEF WholeSoFar
<1>4. CASE Dropped(t)
  <2>1. UNCHANGED <<environ, done, mixed, quiet, pc, stage, request>>
    BY <1>4 DEF Dropped, shared, history
  <2>2. QED BY <2>1, StaysWhole
<1>5. CASE Enter(t) \/ Look(t) \/ Publish(t) \/ Target(t) \/ InitDefault(t) \/ Return(t)
             \/ Assign(t) \/ Configured(t)
  <2>1. CASE Configuring(t)
    <3>1. quiet' = quiet
      <4>1. CASE Enter(t) \/ Return(t)
        BY <4>1 DEF Enter, Return, Got, history
      <4>2. CASE Look(t) \/ Publish(t) \/ Target(t) \/ InitDefault(t)
        BY <4>2 DEF Look, Publish, Target, InitDefault, history
      <4>3. CASE Assign(t) \/ Configured(t)
        BY <4>3 DEF Assign, Configured, history
      <4>4. QED BY <1>5, <4>1, <4>2, <4>3
    <3>2. ~quiet'[u]
      BY <2>1, <3>1 DEF Unmixed, Undisturbed
    <3>3. QED BY <3>2 DEF WholeSoFar
  <2>2. CASE ~Configuring(t)
    <3>1. /\ Calling(t) /\ pc'[t] \in {"base", "log", "id"} /\ Enter(t)
          /\ UNCHANGED <<environ, instance, fields, writer, stage, request, bounds, history>>
      BY <1>5, <2>2, CallsOnlyEnter
    <3>2. UNCHANGED <<environ, done, mixed, quiet>>
      BY <3>1 DEF history
    <3>3. CASE u # t
      BY <1>2, <3>2, <3>3, StaysWhole
    <3>4. CASE u = t
      <4>1. ChosenUrl' = ChosenUrl /\ Base(t)' = Base(t) /\ Resolves(t)' = Resolves(t)
        BY <3>1, <3>2, SameAsked DEF Base, Resolves
      <4>2. stage[t] \notin Ends
        BY <3>1 DEF Calling, Ends
      <4>3. QED BY <3>1, <3>2, <3>4, <4>1, <4>2 DEF WholeSoFar, Ends
    <3>5. QED BY <3>3, <3>4
  <2>3. QED BY <2>1, <2>2
<1>6. CASE CallIntake(t) \/ FirstRow(t) \/ NextRow(t) \/ Again(t)
  <2>1. UNCHANGED <<environ, done, mixed>> /\ pc[t] \in {"idle", "ended"} /\ pc'[t] \in {"idle", "enter"}
    BY <1>1, <1>6 DEF CallIntake, FirstRow, NextRow, Again, BeginCall, Goto, shared
  <2>2. CASE u # t
    <3>1. quiet'[u] = quiet[u]
      BY <1>1, <1>6, <2>2 DEF CallIntake, FirstRow, NextRow, Again, BeginCall
    <3>2. QED BY <1>2, <2>1, <2>2, <3>1, StaysWhole
  <2>3. CASE u = t
    <3>1. stage'[t] \in {"none", "url", "log", "header"}
      BY <1>1, <1>6 DEF CallIntake, FirstRow, NextRow, Again, BeginCall
    <3>2. ~Resolves(t)'
      <4>1. CASE CallIntake(t) \/ FirstRow(t)
        <5>1. request'[t] = NoRequest
          BY <1>1, <4>1 DEF CallIntake, FirstRow, BeginCall, Evident
        <5>2. QED BY <5>1 DEF Resolves, NoRequest
      <4>2. CASE NextRow(t)
        <5>1. request[t] \in Requests /\ writer # None /\ request' = [request EXCEPT ![t].url = writer]
          BY <1>1, <4>2 DEF NextRow
        <5>2. request'[t].url = writer /\ Last(writer) = "log"
          BY <1>1, <5>1 DEF Requests, AllEvident, WriterEvident
        <5>3. QED BY <5>2 DEF Resolves
      <4>3. CASE Again(t)
        <5>1. request'[t] = NoRequest
          BY <1>1, <4>3 DEF Again
        <5>2. QED BY <5>1 DEF Resolves, NoRequest
      <4>4. QED BY <1>6, <4>1, <4>2, <4>3
    <3>3. stage'[t] \notin Ends
      BY <3>1 DEF Ends
    <3>4. QED BY <2>1, <2>3, <3>2, <3>3, WholeOfNothing
  <2>4. QED BY <2>2, <2>3
<1>7. CASE Reader(t)
  <2>1. UNCHANGED <<environ, done, mixed, quiet>>
    BY <1>7, ReadingFrame DEF history
  <2>2. CASE u # t
    BY <1>2, <2>1, <2>2, StaysWhole
  <2>3. CASE u = t
    BY <1>7, <2>3, ReadingWhole
  <2>4. QED BY <2>2, <2>3
<1>8. QED BY <1>3, <1>4, <1>5, <1>6, <1>7, StepKinds DEF Reader

LEMMA WholeInvariant ==
  ASSUME ConfiguredFirst
  PROVE  Spec => [](\A u \in Threads : WholeSoFar(u))
<1> DEFINE Whole == \A u \in Threads : WholeSoFar(u)
<1>1. Init => Whole
  BY DEF Init, WholeSoFar
<1>2. Whole /\ AllEvident /\ Unmixed /\ OneBuilt /\ Typed /\ [Next]_vars => Whole'
  <2>1. ASSUME Whole, AllEvident, Unmixed, OneBuilt, Typed, NEW t \in Threads, Step(t),
               NEW u \in Threads
        PROVE  WholeSoFar(u)'
    BY <2>1, WholeStep
  <2>2. ASSUME Whole, NEW e \in Environments, SetEnvironment(e), NEW u \in Threads
        PROVE  WholeSoFar(u)'
    <3>1. ~quiet'[u]
      BY <2>2 DEF SetEnvironment
    <3>2. QED BY <3>1 DEF WholeSoFar
  <2>3. ASSUME Whole, UNCHANGED vars, NEW u \in Threads PROVE WholeSoFar(u)'
    <3>1. UNCHANGED <<environ, done, mixed, quiet, pc, stage, request>>
      BY <2>3 DEF vars, shared, history
    <3>2. QED BY <2>3, <3>1, StaysWhole
  <2>4. QED BY <2>1, <2>2, <2>3, Steps
<1> HIDE DEF Whole
<1>3. Spec => []Whole
  BY <1>1, <1>2, EvidentInvariant, UnmixedInvariant, OneBuiltInvariant, TypedInvariant, PTL DEF Spec
<1>4. QED BY <1>3 DEF Whole

(* A call of intake that no change of configuration runs beside, after      *)
(* changes made one at a time, uses the URL, the id and the secret of one    *)
(* configuration: that of every change made before it, each setting by the   *)
(* last that supplied it, and of none that was rejected.  It fails only if    *)
(* that configuration is at fault.                                            *)
THEOREM QuietCallsAreWhole ==
  ASSUME ConfiguredFirst
  PROVE  Spec => []QuietCallIsWhole
<1>1. (\A u \in Threads : WholeSoFar(u)) => QuietCallIsWhole
  <2> SUFFICES ASSUME NEW t \in Threads, WholeSoFar(t), pc[t] = "ended", quiet[t], ~mixed
               PROVE  /\ stage[t] = "sent" =>
                           request[t].id = Chosen("client_id") /\ request[t].secret = Chosen("client_secret")
                      /\ Resolves(t) => Base(t) = RStripped(ChosenUrl)
                      /\ stage[t] # "AttributeError"
                      /\ stage[t] = "ConfigurationError" =>
                           ~Truthy(Chosen("client_id")) \/ ~Truthy(Chosen("client_secret"))
                      /\ stage[t] = "ValueError" =>
                           "api" \in {Last(RStripped(u)) : u \in {ChosenUrl, ChosenLogUrl}}
    BY DEF QuietCallIsWhole, ChosenLogUrl
  <2>1. QED BY DEF WholeSoFar
<1>2. QED BY <1>1, WholeInvariant, PTL
=============================================================================
