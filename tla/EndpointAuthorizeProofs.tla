----------------------- MODULE EndpointAuthorizeProofs -----------------------
(* Theorems about EndpointAuthorize and the cache under it, for any number of *)
(* threads, requests and configured ttls, and any size of the cache.          *)
EXTENDS EndpointAuthorize, FiniteSetTheorems, WellFoundedInduction, TLAPS

-----------------------------------------------------------------------------
(* The cache's operations.  A read, a remove and a flush only take entries   *)
(* away; a store also writes one.                                            *)
Shrinks ==
  /\ DOMAIN cache' \subseteq DOMAIN cache
  /\ cache' = [k \in DOMAIN cache' |-> cache[k]]

(* Keeping some of the keys of the cache shrinks it. *)
LEMMA KeepShrinks ==
  ASSUME NEW keys, cache' = Keep(keys)
  PROVE  Shrinks /\ DOMAIN cache' = DOMAIN cache \cap keys
BY DEF Keep, Shrinks

(* So does emptying it. *)
LEMMA EmptyShrinks ==
  ASSUME cache' = << >>
  PROVE  Shrinks /\ DOMAIN cache' = {}
BY DEF Shrinks

(* A read shrinks the cache, and empties it when it is off. *)
LEMMA ReadShrinks ==
  ASSUME NEW k, CacheTypeOK, Read(k)
  PROVE  Shrinks /\ (Disabled => DOMAIN cache' = {})
<1>1. CASE Disabled
  BY <1>1, EmptyShrinks DEF Read
<1>2. CASE ~Disabled /\ k \in DOMAIN cache \ ValidKeys
  BY <1>2, KeepShrinks DEF Read
<1>3. CASE ~Disabled /\ k \notin DOMAIN cache \ ValidKeys
  <2>1. cache' = cache
    BY <1>3 DEF Read
  <2>2. QED BY <1>3, <2>1 DEF Shrinks, CacheTypeOK
<1>4. QED BY <1>1, <1>2, <1>3

(* What a store leaves beside the key it writes was there before, and was    *)
(* valid.                                                                     *)
LEMMA StoreKeeps ==
  ASSUME NEW k, NEW g, Store(k, g), ~Disabled
  PROVE  /\ Room(ValidKeys) \subseteq ValidKeys /\ ValidKeys \subseteq DOMAIN cache
         /\ DOMAIN cache' = Room(ValidKeys) \cup {k}
         /\ \A j \in Room(ValidKeys) \ {k} : cache'[j] = cache[j]
         /\ cache'[k].credentials = g
         /\ cache'[k].place = IF k \in Room(ValidKeys) THEN cache[k].place ELSE stores + 1
         /\ stores' = stores + 1
BY DEF Store, Room, ValidKeys

-----------------------------------------------------------------------------
(* Types. *)

(* Taking entries away keeps their types. *)
LEMMA ShrinkTyped ==
  ASSUME CacheTypeOK, Shrinks, UNCHANGED <<ttl, clock, stores>>
  PROVE  CacheTypeOK'
BY DEF CacheTypeOK, Shrinks

(* Storing a grant under a cache key keeps them too. *)
LEMMA StoreTyped ==
  ASSUME CacheTypeOK, NEW k \in Keys, NEW g \in Grants, Store(k, g)
  PROVE  CacheTypeOK'
<1>1. CASE Disabled
  <2>1. UNCHANGED <<ttl, clock, stores>> /\ cache' = << >>
    BY <1>1 DEF Store
  <2>2. QED BY <2>1, EmptyShrinks, ShrinkTyped
<1>2. CASE ~Disabled
  <2> DEFINE kept == Room(ValidKeys)
             e == [credentials |-> g, written_at |-> clock, expires_at |-> clock + ttl,
                   place |-> IF k \in kept THEN cache[k].place ELSE stores']
  <2>1. kept \subseteq DOMAIN cache /\ DOMAIN cache \subseteq Keys
    BY DEF Room, ValidKeys, CacheTypeOK
  <2>2. stores' = stores + 1 /\ UNCHANGED <<ttl, clock>>
    BY <1>2 DEF Store
  <2>3. cache' = [j \in kept \cup {k} |-> IF j = k THEN e ELSE cache[j]]
    BY <1>2 DEF Store
  <2>4. \A j \in kept : cache[j] \in CacheEntries
    BY <2>1 DEF CacheTypeOK
  <2>5. e \in CacheEntries
    BY <2>2, <2>4, TtlAssumption DEF CacheTypeOK, CacheEntries
  <2> HIDE DEF kept, e
  <2>6. DOMAIN cache' \subseteq Keys /\ cache' \in [DOMAIN cache' -> CacheEntries]
    BY <2>1, <2>3, <2>4, <2>5
  <2>7. QED BY <2>2, <2>6 DEF CacheTypeOK
<1>3. QED BY <1>1, <1>2

(* A thread under way has a request, as has one that has answered. *)
HasRequest == \A t \in Threads : at[t] # "idle" \/ answer[t] # "none" => request[t] \in Requests

Typed == TypeOK /\ HasRequest

(* Types, and that every call has its request, are inductive. *)
LEMMA TypedInvariant == Spec => []Typed
<1>1. Init => Typed
  <2> SUFFICES ASSUME Init PROVE Typed
    OBVIOUS
  <2>1. CacheTypeOK
    BY DEF Init, CacheInit, CacheTypeOK
  <2>2. QED
    BY <2>1, CatalogAssumption, RequestAssumption DEF Init, Typed, TypeOK, HasRequest
<1>2. Typed /\ [Next]_vars => Typed'
  <2> SUFFICES ASSUME Typed, [Next]_vars PROVE Typed'
    OBVIOUS
  <2> USE DEF Goto, Record, Answer
  <2>1. ASSUME NEW t \in Threads, NEW r \in Requests, Begin(t, r) PROVE Typed'
    BY <2>1, CatalogAssumption, RequestAssumption DEF Begin, Typed, TypeOK, HasRequest, CacheTypeOK
  <2>2. ASSUME NEW t \in Threads, Look(t) PROVE Typed'
    <3>1. CacheTypeOK'
      BY <2>2, ReadShrinks, ShrinkTyped DEF Look, Read, Typed, TypeOK
    <3>2. Hit(CacheKey(request[t])) => cache[CacheKey(request[t])].credentials \in Grants
      BY DEF Hit, ValidKeys, Typed, TypeOK, CacheTypeOK, CacheEntries
    <3>3. QED BY <2>2, <3>1, <3>2 DEF Look, Typed, TypeOK, HasRequest
  <2>3. ASSUME NEW t \in Threads, NEW g \in Grants, IntakeGrants(t, g) PROVE Typed'
    BY <2>3 DEF IntakeGrants, Typed, TypeOK, HasRequest, CacheTypeOK
  <2>4. ASSUME NEW t \in Threads, NEW a \in {"refused", "unanswered"}, IntakeDoesNot(t, a)
        PROVE Typed'
    BY <2>4 DEF IntakeDoesNot, Typed, TypeOK, HasRequest, CacheTypeOK
  <2>5. ASSUME NEW t \in Threads, StoreGrant(t) PROVE Typed'
    <3>1. CacheKey(request[t]) \in Keys /\ grant[t] \in Grants
      BY <2>5, CatalogAssumption DEF StoreGrant, Typed, TypeOK, HasRequest
    <3>2. CacheTypeOK'
      BY <2>5, <3>1, StoreTyped DEF StoreGrant, Typed, TypeOK
    <3>3. QED BY <2>5, <3>2 DEF StoreGrant, Typed, TypeOK, HasRequest
  <2>6. ASSUME UNCHANGED callVars, CacheTypeOK' PROVE Typed'
    BY <2>6 DEF callVars, Typed, TypeOK, HasRequest
  <2>7. ASSUME NEW k \in Keys, Read(k) \/ Remove(k) PROVE CacheTypeOK'
    BY <2>7, ReadShrinks, KeepShrinks, ShrinkTyped DEF Read, Remove, Typed, TypeOK
  <2>8. ASSUME Clear PROVE CacheTypeOK'
    BY <2>8, EmptyShrinks, ShrinkTyped DEF Clear, Typed, TypeOK
  <2>9. ASSUME (\E s \in Ttls : SetTtl(s)) \/ PassTime PROVE CacheTypeOK'
    BY <2>9 DEF SetTtl, PassTime, Typed, TypeOK, CacheTypeOK, CacheEntries
  <2>10. CASE UNCHANGED vars
    BY <2>10 DEF vars, Typed, TypeOK, HasRequest, CacheTypeOK
  <2>11. QED
    BY <2>1, <2>2, <2>3, <2>4, <2>5, <2>6, <2>7, <2>8, <2>9, <2>10 DEF Next
<1>3. QED BY <1>1, <1>2, PTL DEF Spec

(* Type correctness: every variable keeps its type, whatever the constants. *)
THEOREM TypeCorrect == Spec => []TypeOK
BY TypedInvariant, PTL DEF Typed

-----------------------------------------------------------------------------
(* Whose grant.  Two requests under one cache key are of the same client and *)
(* version, so a grant cached for one is one intake would give for the other. *)

(* What intake may say of a request. *)
Decisions(r) == {NoGrant, GrantOf(r)}

(* Requests under one cache key get the same grants. *)
LEMMA KeySeparates ==
  ASSUME NEW r \in Requests, NEW s \in Requests, CacheKey(r) = CacheKey(s)
  PROVE  Decisions(r) = Decisions(s)
BY DEF CacheKey, GrantOf, Decisions

(* The cache holds what intake may say of the requests it is looked up for. *)
CacheHonest ==
  \A r \in Requests :
    CacheKey(r) \in DOMAIN cache => cache[CacheKey(r)].credentials \in Decisions(r)

(* A call names nobody before intake or the cache does, and has no answer    *)
(* before it ends.                                                            *)
CallHonest(t) ==
  /\ at[t] # "idle" => answer[t] = "none"
  /\ at[t] \in {"looking", "posting"} => grant[t] = NoGrant
  /\ at[t] = "storing" => grant[t] \in Decisions(request[t])
  /\ answer[t] = "granted" => grant[t] \in Decisions(request[t])
  /\ answer[t] \in {"refused", "unanswered"} => grant[t] = NoGrant

Honest == CacheHonest /\ \A t \in Threads : CallHonest(t)

(* An entry taken away can not be wrong. *)
LEMMA ShrinkHonest ==
  ASSUME CacheHonest, Shrinks
  PROVE  CacheHonest'
BY DEF CacheHonest, Shrinks, CacheKey, Decisions, GrantOf

(* A call is as it was if its own variables are. *)
LEMMA OthersHonest ==
  ASSUME NEW t \in Threads, \A u \in Threads : CallHonest(u), CallHonest(t)',
         \A u \in Threads \ {t} :
           at'[u] = at[u] /\ request'[u] = request[u] /\ grant'[u] = grant[u] /\ answer'[u] = answer[u]
  PROVE  \A u \in Threads : CallHonest(u)'
BY DEF CallHonest, Decisions

(* Every grant, cached, recorded or answered with, is the right one. *)
LEMMA HonestInvariant == Spec => []Honest
<1>1. Init => Honest
  <2> SUFFICES ASSUME Init PROVE Honest
    OBVIOUS
  <2>1. DOMAIN cache = {}
    BY DEF Init, CacheInit
  <2>2. QED BY <2>1 DEF Init, Honest, CacheHonest, CallHonest
<1>2. Typed /\ Honest /\ [Next]_vars => Honest'
  <2> SUFFICES ASSUME Typed, Honest, [Next]_vars PROVE Honest'
    OBVIOUS
  <2> USE DEF Goto, Record, Answer
  <2>1. ASSUME NEW t \in Threads, NEW r \in Requests, Begin(t, r) PROVE Honest'
    <3>1. CallHonest(t)' /\ CacheHonest'
      BY <2>1 DEF Begin, Typed, TypeOK, CallHonest, Honest, CacheHonest, Decisions
    <3>2. QED BY <2>1, <3>1, OthersHonest DEF Begin, Typed, TypeOK, Honest
  <2>2. ASSUME NEW t \in Threads, Look(t) PROVE Honest'
    <3>1. CacheHonest'
      BY <2>2, ReadShrinks, ShrinkHonest DEF Look, Typed, TypeOK, Honest
    <3>2. at[t] = "looking" /\ request[t] \in Requests /\ request'[t] = request[t]
      BY <2>2 DEF Look, Typed, HasRequest
    <3>3. CASE Hit(CacheKey(request[t]))
      <4>1. cache[CacheKey(request[t])].credentials \in Decisions(request[t])
        BY <3>2, <3>3 DEF Hit, ValidKeys, Honest, CacheHonest
      <4>2. CallHonest(t)'
        BY <2>2, <3>2, <3>3, <4>1 DEF Look, Typed, TypeOK, CallHonest, Decisions
      <4>3. QED BY <2>2, <3>1, <3>3, <4>2, OthersHonest DEF Look, Typed, TypeOK, Honest
    <3>4. CASE ~Hit(CacheKey(request[t]))
      <4>1. CallHonest(t)'
        BY <2>2, <3>2, <3>4 DEF Look, Typed, TypeOK, Honest, CallHonest, Decisions
      <4>2. QED BY <2>2, <3>1, <3>4, <4>1, OthersHonest DEF Look, Typed, TypeOK, Honest
    <3>5. QED BY <3>3, <3>4
  <2>3. ASSUME NEW t \in Threads, NEW g \in Grants, IntakeGrants(t, g) PROVE Honest'
    <3>1. CallHonest(t)' /\ CacheHonest'
      BY <2>3 DEF IntakeGrants, Typed, TypeOK, CallHonest, Honest, CacheHonest, Decisions
    <3>2. QED BY <2>3, <3>1, OthersHonest DEF IntakeGrants, Typed, TypeOK, Honest
  <2>4. ASSUME NEW t \in Threads, NEW a \in {"refused", "unanswered"}, IntakeDoesNot(t, a)
        PROVE Honest'
    <3>1. CallHonest(t)' /\ CacheHonest'
      BY <2>4 DEF IntakeDoesNot, Typed, TypeOK, CallHonest, Honest, CacheHonest, Decisions
    <3>2. QED BY <2>4, <3>1, OthersHonest DEF IntakeDoesNot, Typed, TypeOK, Honest
  <2>5. ASSUME NEW t \in Threads, StoreGrant(t) PROVE Honest'
    <3> DEFINE k == CacheKey(request[t])
    <3>1. /\ at[t] = "storing" /\ request[t] \in Requests /\ request'[t] = request[t]
          /\ grant' = grant /\ grant[t] \in Decisions(request[t]) /\ Store(k, grant[t])
      BY <2>5 DEF StoreGrant, Typed, HasRequest, Honest, CallHonest
    <3>2. CacheHonest'
      <4>1. CASE Disabled
        BY <3>1, <4>1, EmptyShrinks, ShrinkHonest DEF Store, Honest
      <4>2. CASE ~Disabled
        <5> SUFFICES ASSUME NEW r \in Requests, CacheKey(r) \in DOMAIN cache'
                     PROVE  cache'[CacheKey(r)].credentials \in Decisions(r)
          BY DEF CacheHonest, CacheKey, Decisions, GrantOf
        <5>1. CASE CacheKey(r) = k
          BY <3>1, <4>2, <5>1, StoreKeeps, KeySeparates
        <5>2. CASE CacheKey(r) # k
          <6>1. /\ Room(ValidKeys) \subseteq DOMAIN cache
                /\ DOMAIN cache' = Room(ValidKeys) \cup {k}
                /\ \A j \in Room(ValidKeys) \ {k} : cache'[j] = cache[j]
            BY <3>1, <4>2, StoreKeeps
          <6>2. CacheKey(r) \in Room(ValidKeys) \ {k}
            BY <5>2, <6>1
          <6>3. QED BY <6>1, <6>2 DEF Honest, CacheHonest
        <5>3. QED BY <5>1, <5>2
      <4>3. QED BY <4>1, <4>2
    <3>3. CallHonest(t)'
      BY <2>5, <3>1 DEF StoreGrant, Typed, TypeOK, CallHonest, Decisions
    <3>4. QED BY <2>5, <3>2, <3>3, OthersHonest DEF StoreGrant, Typed, TypeOK, Honest
  <2>6. ASSUME UNCHANGED callVars, CacheHonest' PROVE Honest'
    BY <2>6 DEF callVars, Honest, CallHonest, Decisions
  <2>7. ASSUME NEW k \in Keys, Read(k) \/ Remove(k) PROVE CacheHonest'
    BY <2>7, ReadShrinks, KeepShrinks, ShrinkHonest DEF Remove, Typed, TypeOK, Honest
  <2>8. ASSUME Clear PROVE CacheHonest'
    BY <2>8, EmptyShrinks, ShrinkHonest DEF Clear, Honest
  <2>9. ASSUME (\E s \in Ttls : SetTtl(s)) \/ PassTime PROVE CacheHonest'
    BY <2>9 DEF SetTtl, PassTime, Honest, CacheHonest
  <2>10. CASE UNCHANGED vars
    BY <2>10 DEF vars, Honest, CacheHonest, CallHonest, Decisions
  <2>11. QED
    BY <2>1, <2>2, <2>3, <2>4, <2>5, <2>6, <2>7, <2>8, <2>9, <2>10 DEF Next
<1>3. QED BY <1>1, <1>2, TypedInvariant, PTL DEF Spec

(* A granted request names the caller intake named for its client, route and
   version, or nobody, whoever filled the cache and however threads interleave;
   a refused or unanswered one names nobody, even when its environ was
   authorized before. *)
THEOREM GrantsAreRight == Spec => []GrantIsForThisRequest
<1>1. Honest => GrantIsForThisRequest
  BY DEF Honest, CallHonest, GrantIsForThisRequest, Decisions
<1>2. QED BY <1>1, HonestInvariant, PTL

-----------------------------------------------------------------------------
(* What a lookup serves, and what a store gives up. *)

(* A lookup serves what is valid.                                             *)
LEMMA HitsFresh == Typed /\ Honest /\ [Next]_vars => ServesFresh
<1> SUFFICES ASSUME Typed, Honest, [Next]_vars,
                    NEW t \in Threads, at[t] = "looking", answer'[t] = "granted"
             PROVE  \E e \in {cache[CacheKey(request[t])]} :
                      /\ clock - e.written_at < ttl
                      /\ clock - e.written_at < e.expires_at - e.written_at
  BY DEF ServesFresh
<1>1. answer[t] = "none"
  BY DEF Honest, CallHonest
<1>2. Look(t)
  BY <1>1 DEF Next, vars, callVars, Begin, Look, IntakeGrants, IntakeDoesNot, StoreGrant,
              Goto, Answer, Typed, TypeOK
<1>3. CacheKey(request[t]) \in ValidKeys
  BY <1>1, <1>2 DEF Look, Hit
<1>4. cache[CacheKey(request[t])] \in CacheEntries
  BY <1>3 DEF ValidKeys, Typed, TypeOK, CacheTypeOK
<1>5. QED BY <1>3, <1>4 DEF ValidKeys, Valid, Typed, TypeOK, CacheTypeOK, CacheEntries

(* A lookup or a store that finds the cache switched off empties it.          *)
LEMMA FlushesWhenOff == Typed /\ [Next]_vars => OffEmpties
<1> SUFFICES ASSUME Typed, [Next]_vars, Disabled,
                    NEW t \in Threads, at[t] \in {"looking", "storing"}, at'[t] # at[t]
             PROVE  DOMAIN cache' = {}
  BY DEF OffEmpties
<1>1. Look(t) \/ StoreGrant(t)
  BY DEF Next, vars, callVars, Begin, Look, IntakeGrants, IntakeDoesNot, StoreGrant,
         Goto, Typed, TypeOK
<1>2. CASE Look(t)
  BY <1>2, ReadShrinks DEF Look, Typed, TypeOK
<1>3. CASE StoreGrant(t)
  BY <1>3, EmptyShrinks DEF StoreGrant, Store
<1>4. QED BY <1>1, <1>2, <1>3

(* A cached grant is served only inside the ttl configured now and inside the
   one it was written under, and nothing outlives a lookup or store that found
   the cache off. *)
THEOREM HitsAreFresh == Spec => ServedWithinTtl
<1>1. Typed /\ Honest /\ [Next]_vars => [ServesFresh /\ OffEmpties]_vars
  BY HitsFresh, FlushesWhenOff
<1>2. QED BY <1>1, TypedInvariant, HonestInvariant, PTL DEF Spec, ServedWithinTtl

(* A store drops a usable grant only if everything else it leaves is usable. *)
THEOREM ExpiredGo == Spec => ExpiredGoFirst
<1> DEFINE Fair == \A t \in Threads :
      /\ at[t] = "storing" /\ at'[t] = "idle" /\ ~Disabled
      /\ \E k \in ValidKeys : k \notin DOMAIN cache'
      => DOMAIN cache' \ {CacheKey(request[t])} \subseteq ValidKeys
<1>1. Typed /\ [Next]_vars => Fair
  <2> SUFFICES ASSUME Typed, [Next]_vars, NEW t \in Threads,
                      at[t] = "storing", at'[t] = "idle", ~Disabled,
                      \E k \in ValidKeys : k \notin DOMAIN cache'
               PROVE  DOMAIN cache' \ {CacheKey(request[t])} \subseteq ValidKeys
    OBVIOUS
  <2>1. StoreGrant(t)
    BY DEF Next, vars, callVars, Begin, Look, IntakeGrants, IntakeDoesNot, StoreGrant,
           Goto, Typed, TypeOK
  <2>2. QED BY <2>1, StoreKeeps DEF StoreGrant
<1>2. QED BY <1>1, TypedInvariant, PTL DEF Spec, ExpiredGoFirst

-----------------------------------------------------------------------------
(* The bound on the cache.  No two entries have one place, because a new     *)
(* place is the number of a store and those are still to come.               *)
Placed ==
  /\ IsFiniteSet(DOMAIN cache)
  /\ \A j, k \in DOMAIN cache : cache[j].place = cache[k].place => j = k
  /\ \A k \in DOMAIN cache : cache[k].place <= stores

BoundInv == Placed /\ CacheBounded

(* Fewer entries are in their places, and within the bound. *)
LEMMA ShrinkBounded ==
  ASSUME BoundInv, Shrinks, stores' = stores
  PROVE  BoundInv'
<1>1. IsFiniteSet(DOMAIN cache') /\ Cardinality(DOMAIN cache') <= Cardinality(DOMAIN cache)
  BY FS_Subset DEF BoundInv, Placed, Shrinks
<1>2. Cardinality(DOMAIN cache) \in Nat /\ Cardinality(DOMAIN cache') \in Nat
  BY <1>1, FS_CardinalityType DEF BoundInv, Placed
<1>3. QED BY <1>1, <1>2, SizeAssumption DEF BoundInv, Placed, CacheBounded, Shrinks

(* If no two members of S have one rank, and every member of K has fewer      *)
(* than cap of S above it, K has at most cap members: the lowest of them,    *)
(* which is there because < is well-founded, and those above it.             *)
LEMMA FewAbove ==
  ASSUME NEW S, IsFiniteSet(S), NEW rank \in [S -> Nat], NEW cap \in Nat,
         \A u, v \in S : rank[u] = rank[v] => u = v,
         NEW K \in SUBSET S,
         \A v \in K : Cardinality({w \in S : rank[w] > rank[v]}) < cap
  PROVE  IsFiniteSet(K) /\ Cardinality(K) <= cap
<1>1. IsFiniteSet(K)
  BY FS_Subset
<1>2. CASE K = {}
  BY <1>1, <1>2, FS_EmptySet
<1>3. CASE K # {}
  <2> DEFINE ranks == {rank[v] : v \in K}
  <2>1. ranks \in SUBSET Nat /\ ranks # {}
    BY <1>3
  <2>2. PICK u \in K : \A v \in K : rank[u] <= rank[v]
    <3>1. PICK x \in ranks : \A y \in ranks : ~(<<y, x>> \in OpToRel(<, Nat))
      <4> HIDE DEF ranks
      <4>1. QED BY <2>1, NatLessThanWellFounded, WFMin
    <3>2. x \in Nat /\ \A y \in ranks : y \in Nat /\ ~(y < x)
      BY <2>1, <3>1 DEF OpToRel
    <3>3. QED BY <3>2
  <2> DEFINE above == {w \in S : rank[w] > rank[u]}
  <2>3. K \subseteq above \cup {u} /\ u \notin above /\ IsFiniteSet(above) /\ Cardinality(above) < cap
    BY <2>2, FS_Subset
  <2> HIDE DEF above
  <2>4. /\ IsFiniteSet(above \cup {u}) /\ Cardinality(above \cup {u}) = Cardinality(above) + 1
        /\ Cardinality(above) \in Nat
    BY <2>3, FS_AddElement, FS_CardinalityType
  <2>5. Cardinality(K) <= Cardinality(above \cup {u}) /\ Cardinality(K) \in Nat
    BY <1>1, <2>3, <2>4, FS_Subset, FS_CardinalityType
  <2>6. QED BY <1>1, <2>3, <2>4, <2>5
<1>4. QED BY <1>2, <1>3

(* What Room keeps leaves place for one more entry. *)
LEMMA RoomBounded ==
  ASSUME CacheTypeOK, Placed, NEW keys \in SUBSET DOMAIN cache
  PROVE  IsFiniteSet(Room(keys)) /\ Cardinality(Room(keys)) <= MaxSize - 1
<1> DEFINE place == [k \in keys |-> cache[k].place]
           K == Room(keys)
<1>1. place \in [keys -> Nat] /\ \A j, k \in keys : place[j] = place[k] => j = k
  BY DEF CacheTypeOK, CacheEntries, Placed
<1>2. IsFiniteSet(keys)
  BY FS_Subset DEF Placed
<1>3. K \in SUBSET keys /\ \A k \in K : Cardinality(NewerKeys(keys, k)) < MaxSize - 1
  BY DEF Room
<1>4. ASSUME NEW k \in keys
      PROVE  NewerKeys(keys, k) = {j \in keys : place[j] > place[k]}
  BY DEF NewerKeys
<1>5. \A k \in K : Cardinality({j \in keys : place[j] > place[k]}) < MaxSize - 1
  BY <1>3, <1>4
<1>6. MaxSize - 1 \in Nat
  BY SizeAssumption
<1> HIDE DEF K, place
<1>7. IsFiniteSet(K) /\ Cardinality(K) <= MaxSize - 1
  BY <1>1, <1>2, <1>3, <1>5, <1>6, FewAbove
<1>8. QED BY <1>7 DEF K

(* A store stays within the bound. *)
LEMMA StoreBounded ==
  ASSUME CacheTypeOK, BoundInv, NEW k, NEW g, Store(k, g)
  PROVE  BoundInv'
<1>1. CASE Disabled
  BY <1>1, EmptyShrinks, ShrinkBounded DEF Store
<1>2. CASE ~Disabled
  <2> DEFINE kept == Room(ValidKeys)
  <2>1. /\ kept \subseteq DOMAIN cache /\ DOMAIN cache' = kept \cup {k}
        /\ \A j \in kept \ {k} : cache'[j] = cache[j]
        /\ cache'[k].place = IF k \in kept THEN cache[k].place ELSE stores + 1
        /\ stores' = stores + 1
    BY <1>2, StoreKeeps
  <2>2. IsFiniteSet(kept) /\ Cardinality(kept) <= MaxSize - 1
    BY RoomBounded DEF BoundInv, ValidKeys
  <2>3. \A j \in DOMAIN cache : cache[j].place \in Nat
    BY DEF CacheTypeOK, CacheEntries
  <2>4. stores \in Nat /\ Placed
    BY DEF CacheTypeOK, BoundInv
  <2> HIDE DEF kept
  <2>5. /\ IsFiniteSet(kept \cup {k}) /\ Cardinality(kept) \in Nat
        /\ Cardinality(kept \cup {k}) = IF k \in kept THEN Cardinality(kept)
                                        ELSE Cardinality(kept) + 1
    BY <2>2, FS_AddElement, FS_CardinalityType
  <2>6. CacheBounded'
    BY <2>1, <2>2, <2>5, SizeAssumption DEF CacheBounded
  <2>7. \A j \in kept \cup {k} :
          \/ j \in kept /\ cache'[j].place = cache[j].place /\ cache[j].place <= stores
          \/ j = k /\ cache'[j].place = stores + 1 /\ k \notin kept
    BY <2>1, <2>4 DEF Placed
  <2>8. \A i, j \in kept \cup {k} : cache'[i].place = cache'[j].place => i = j
    BY <2>1, <2>3, <2>4, <2>7 DEF Placed
  <2>9. \A j \in kept \cup {k} : cache'[j].place <= stores'
    BY <2>1, <2>3, <2>4, <2>7
  <2>10. QED BY <2>1, <2>5, <2>6, <2>8, <2>9 DEF BoundInv, Placed
<1>3. QED BY <1>1, <1>2

(* The cache stays within _MAX_SIZE, whatever is stored, read, removed and
   flushed by how many threads, under whatever ttls. *)
THEOREM CacheStaysBounded == Spec => []CacheBounded
<1>1. Init => BoundInv
  <2> SUFFICES ASSUME Init PROVE BoundInv
    OBVIOUS
  <2>1. DOMAIN cache = {}
    BY DEF Init, CacheInit
  <2>2. QED BY <2>1, FS_EmptySet, SizeAssumption DEF BoundInv, Placed, CacheBounded
<1>2. Typed /\ BoundInv /\ [Next]_vars => BoundInv'
  <2> SUFFICES ASSUME Typed, BoundInv, [Next]_vars PROVE BoundInv'
    OBVIOUS
  <2>1. CacheTypeOK
    BY DEF Typed, TypeOK
  <2>2. ASSUME NEW k, Read(k) \/ Remove(k) \/ Clear PROVE BoundInv'
    BY <2>1, <2>2, ReadShrinks, KeepShrinks, EmptyShrinks, ShrinkBounded DEF Read, Remove, Clear
  <2>3. ASSUME NEW k, NEW g, Store(k, g) PROVE BoundInv'
    BY <2>1, <2>3, StoreBounded
  <2>4. ASSUME UNCHANGED <<cache, stores>> PROVE BoundInv'
    BY <2>4 DEF BoundInv, Placed, CacheBounded
  <2>5. \/ \E k : Read(k) \/ Remove(k) \/ Clear
        \/ \E k, g : Store(k, g)
        \/ UNCHANGED <<cache, stores>>
    BY DEF Next, vars, Begin, Look, IntakeGrants, IntakeDoesNot, StoreGrant, SetTtl, PassTime
  <2>6. QED BY <2>2, <2>3, <2>4, <2>5
<1>3. Spec => []BoundInv
  BY <1>1, <1>2, TypedInvariant, PTL DEF Spec
<1>4. QED BY <1>3, PTL DEF BoundInv
=============================================================================
