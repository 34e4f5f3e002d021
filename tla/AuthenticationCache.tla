------------------------- MODULE AuthenticationCache -------------------------
(***************************************************************************)
(* commands/authentication_cache.py: the process's cache of authorization  *)
(* grants.  Every operation runs in one critical section, in which it also *)
(* reads the configured cache_ttl, so each is one action; the ttl and the  *)
(* clock move between them.  The dict keeps insertion order: an entry's    *)
(* place is the number of the store that first inserted its key, which a   *)
(* rewrite keeps.                                                          *)
(***************************************************************************)
EXTENDS Integers, FiniteSets

CONSTANTS
  Keys,      \* cache keys
  Grants,    \* what is cached under them
  Ttls,      \* values cache_ttl may be configured to; 0 switches the cache off
  MaxSize,   \* _MAX_SIZE
  MaxClock   \* bound: the clock stops here

ASSUME SizeAssumption == MaxSize \in Nat \ {0}
ASSUME TtlAssumption == Ttls \subseteq Nat /\ Ttls # {} /\ MaxClock \in Nat

VARIABLES
  cache,   \* _cache: key -> [credentials, written_at, expires_at, place]
  ttl,     \* Configuration().cache_ttl
  clock,   \* datetime.now
  stores   \* stores that inserted something, numbers the places

cacheVars == <<cache, ttl, clock, stores>>

CacheEntries == [credentials : Grants, written_at : Nat, expires_at : Nat, place : Nat]

CacheInit ==
  /\ cache = << >>
  /\ ttl \in Ttls
  /\ clock = 0
  /\ stores = 0

Disabled == ttl <= 0

(* _is_valid, under the ttl configured now. *)
ValidMutant(e) == clock < e.expires_at /\ e.expires_at - clock <= ttl
Valid(e) == clock < e.expires_at /\ clock - e.written_at < ttl

Keep(keys) == [k \in DOMAIN cache \cap keys |-> cache[k]]
ValidKeys == {k \in DOMAIN cache : Valid(cache[k])}
Hit(k) == ~Disabled /\ k \in ValidKeys

(* The keys a store leaves: the valid ones, then the oldest places go until *)
(* there is room for one more.                                               *)
NewerKeys(keys, k) == {j \in keys : cache[j].place > cache[k].place}
RoomMutant(keys) == {k \in keys : Cardinality(NewerKeys(keys, k)) < MaxSize}
Room(keys) == {k \in keys : Cardinality(NewerKeys(keys, k)) < MaxSize - 1}

StoreMutant(k, g) ==
  LET kept == Room(DOMAIN cache)
  IN /\ ~Disabled
     /\ stores' = stores + 1
     /\ cache' = [j \in kept \cup {k} |->
          IF j = k THEN [credentials |-> g, written_at |-> clock, expires_at |-> clock + ttl,
                         place |-> IF k \in kept THEN cache[k].place ELSE stores']
          ELSE cache[j]]
     /\ UNCHANGED <<ttl, clock>>

Store(k, g) ==
  LET kept == Room(ValidKeys)
  IN /\ UNCHANGED <<ttl, clock>>
     /\ IF Disabled THEN cache' = << >> /\ UNCHANGED stores
        ELSE /\ stores' = stores + 1
             /\ cache' = [j \in kept \cup {k} |->
                  IF j = k
                  THEN [credentials |-> g, written_at |-> clock, expires_at |-> clock + ttl,
                        place |-> IF k \in kept THEN cache[k].place ELSE stores']
                  ELSE cache[j]]

(* retrieve and exists: the same observation and the same side effects.  A  *)
(* read that finds the cache off clears all of it, one that finds an        *)
(* invalid entry deletes it.                                                 *)
Read(k) ==
  /\ cache' = CASE Disabled -> << >>
                [] ~Disabled /\ k \in DOMAIN cache \ ValidKeys -> Keep(DOMAIN cache \ {k})
                [] OTHER -> cache
  /\ UNCHANGED <<ttl, clock, stores>>

Remove(k) ==
  /\ cache' = Keep(DOMAIN cache \ {k})
  /\ UNCHANGED <<ttl, clock, stores>>

Clear == cache' = << >> /\ UNCHANGED <<ttl, clock, stores>>

(* Outside the cache: the host reconfigures, time passes. *)
SetTtl(t)  == ttl' = t /\ UNCHANGED <<cache, clock, stores>>
PassTime == clock < MaxClock /\ clock' = clock + 1 /\ UNCHANGED <<cache, ttl, stores>>

-----------------------------------------------------------------------------
(* Entries are grants under cache keys, with the times and the place. *)
CacheTypeOK ==
  /\ DOMAIN cache \subseteq Keys /\ cache \in [DOMAIN cache -> CacheEntries]
  /\ ttl \in Ttls
  /\ clock \in Nat /\ stores \in Nat

(* The cache never outgrows _MAX_SIZE, however many credentials, routes and *)
(* versions callers present.                                                 *)
CacheBounded == Cardinality(DOMAIN cache) <= MaxSize
=============================================================================
