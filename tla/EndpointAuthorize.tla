-------------------------- MODULE EndpointAuthorize --------------------------
(***************************************************************************)
(* commands/endpoint_authorize.py: server threads authorize the requests   *)
(* they serve, out of the cache when they can and through intake when they *)
(* cannot, and record the grant on the request (request_store.py).  A      *)
(* lookup, the call to intake and the store are separate steps, so         *)
(* other threads, a changed cache_ttl, a flush and time fall between them. *)
(***************************************************************************)
EXTENDS AuthenticationCache

CONSTANTS
  Threads,      \* threads of the host's server
  Requests,     \* [client, route, version, host] of the requests they serve
  NoRequest,    \* no request
  MaxRequests   \* bound: authorizations of the whole behaviour

ASSUME RequestAssumption == NoRequest \notin Requests /\ MaxRequests \in Nat

VARIABLES
  at,       \* where each thread is in authorize
  request,  \* the request it authorizes
  grant,    \* the grant recorded in the request's environ
  answer,   \* what authorize returned: a status class, or "none"
  served    \* how many authorizations have begun

vars == <<cache, ttl, clock, stores, at, request, grant, answer, served>>
callVars == <<at, request, grant, answer, served>>

(* _Grant: what intake decided, for whom and for which version, or the      *)
(* fields all None: _NO_GRANT, also what a 201 without a readable body gives.*)
NoGrant == [client |-> "none", version |-> "none"]
GrantOf(r) == [client |-> r.client, version |-> r.version]

(* The cache key: no host and no source address. *)
CacheKeyMutant(r) == <<r.client, r.route>>
CacheKey(r) == <<r.client, r.route, r.version>>

(* What requests are cached under, and what intake can answer, is enumerated. *)
ASSUME CatalogAssumption ==
  /\ NoGrant \in Grants
  /\ \A r \in Requests : CacheKey(r) \in Keys /\ GrantOf(r) \in Grants

Init ==
  /\ CacheInit
  /\ at = [t \in Threads |-> "idle"]
  /\ request = [t \in Threads |-> NoRequest]
  /\ grant = [t \in Threads |-> NoGrant]
  /\ answer = [t \in Threads |-> "none"]
  /\ served = 0

Goto(t, from, to) == at[t] = from /\ at' = [at EXCEPT ![t] = to]
RecordMutant(t, g) == grant' = [grant EXCEPT ![t] = [client |-> g.version, version |-> g.client]]
Record(t, g) == grant' = [grant EXCEPT ![t] = g]
Answer(t, a) == answer' = [answer EXCEPT ![t] = a]

(* authorize is called: no caller is named until intake or the cache names  *)
(* one.  The environ may already carry one: a host that stacks decorators or *)
(* dispatches again authorizes the same request twice.                       *)
Begin(t, r) ==
  /\ served < MaxRequests
  /\ served' = served + 1
  /\ Goto(t, "idle", "looking")
  /\ request' = [request EXCEPT ![t] = r]
  /\ Record(t, NoGrant)
  /\ Answer(t, "none")
  /\ UNCHANGED <<cache, ttl, clock, stores>>

Look(t) ==
  LET k == CacheKey(request[t])
  IN /\ at[t] = "looking"
     /\ Read(k)
     /\ \/ /\ Hit(k)
           /\ at' = [at EXCEPT ![t] = "idle"]
           /\ Record(t, cache[k].credentials)
           /\ Answer(t, "granted")
        \/ /\ ~Hit(k)
           /\ at' = [at EXCEPT ![t] = "posting"]
           /\ UNCHANGED <<grant, answer>>
     /\ UNCHANGED <<request, served>>

(* Intake answers 201, readable or not; anything else; or not at all (three *)
(* lost attempts, a missing credential, any other error).                    *)
IntakeGrants(t, g) ==
  /\ Goto(t, "posting", "storing")
  /\ g \in {GrantOf(request[t]), NoGrant}
  /\ Record(t, g)
  /\ UNCHANGED <<cache, ttl, clock, stores, request, answer, served>>

IntakeDoesNot(t, a) ==
  /\ Goto(t, "posting", "idle")
  /\ Answer(t, a)
  /\ UNCHANGED <<cache, ttl, clock, stores, request, grant, served>>

StoreGrant(t) ==
  /\ Goto(t, "storing", "idle")
  /\ Store(CacheKey(request[t]), grant[t])
  /\ Answer(t, "granted")
  /\ UNCHANGED <<request, grant, served>>

Next ==
  \/ \E t \in Threads :
       \/ \E r \in Requests : Begin(t, r)
       \/ Look(t)
       \/ \E g \in Grants : IntakeGrants(t, g)
       \/ \E a \in {"refused", "unanswered"} : IntakeDoesNot(t, a)
       \/ StoreGrant(t)
  \/ /\ \/ \E k \in Keys : Read(k) \/ Remove(k)
        \/ Clear
        \/ \E s \in Ttls : SetTtl(s)
        \/ PassTime
     /\ UNCHANGED callVars

Spec == Init /\ [][Next]_vars

-----------------------------------------------------------------------------
(* The cache, and what authorize has recorded and answered, keep their types;
   a grant is always one intake could have given. *)
TypeOK ==
  /\ CacheTypeOK
  /\ at \in [Threads -> {"idle", "looking", "posting", "storing"}]
  /\ request \in [Threads -> Requests \cup {NoRequest}]
  /\ grant \in [Threads -> Grants]
  /\ answer \in [Threads -> {"none", "granted", "refused", "unanswered"}]
  /\ served \in 0..MaxRequests

(* A cached grant is served only while younger than the ttl configured at   *)
(* the lookup and than the one it was written under: lowering cache_ttl      *)
(* bites at once and raising it never revives or extends an entry.  With 0   *)
(* nothing is served, and a lookup or a store that finds 0 leaves nothing    *)
(* behind that a ttl configured later could serve.                           *)
ServesFresh ==
  \A t \in Threads :
    at[t] = "looking" /\ answer'[t] = "granted" =>
      \E e \in {cache[CacheKey(request[t])]} :
        clock - e.written_at < ttl /\ clock - e.written_at < e.expires_at - e.written_at
OffEmpties ==
  Disabled /\ (\E t \in Threads : at[t] \in {"looking", "storing"} /\ at'[t] # at[t])
    => DOMAIN cache' = {}
ServedWithinTtl == [][ServesFresh /\ OffEmpties]_vars

(* The caller named on a granted request is the one intake named for that   *)
(* client, route and version, on a hit as on a miss, whoever filled the      *)
(* cache; a 201 that names nobody names nobody.  A refused or unanswered     *)
(* request names nobody, in particular no caller an earlier authorization of *)
(* the same environ named.                                                   *)
GrantIsForThisRequest ==
  \A t \in Threads :
    /\ answer[t] = "granted" => grant[t] \in {NoGrant, GrantOf(request[t])}
    /\ answer[t] \in {"refused", "unanswered"} => grant[t] = NoGrant

(* A store makes room at the cost of a usable grant only when every grant it *)
(* leaves is usable too: expired entries go first.                           *)
ExpiredGoFirst ==
  [][\A t \in Threads :
       /\ at[t] = "storing" /\ at'[t] = "idle" /\ ~Disabled
       /\ \E k \in ValidKeys : k \notin DOMAIN cache'
       => DOMAIN cache' \ {CacheKey(request[t])} \subseteq ValidKeys]_vars
=============================================================================
