------------------------ MODULE ManagementTransport ------------------------
(***************************************************************************)
(* _Transport.request of management/client.py: one call of the management  *)
(* API, its attempts and what ends it, over a network that loses requests  *)
(* and answers and an API that may still be running an attempt the caller  *)
(* has given up on.                                                        *)
(***************************************************************************)
EXTENDS Integers, FiniteSets

CONSTANTS
  Calls,       \* calls of the host application
  ChosenKeys,  \* idempotency keys it passes itself; else a call is its own key
  None,
  MaxRetries   \* max_retries

ASSUME RetryAssumption ==
  /\ MaxRetries \in Nat
  /\ None \notin Calls \cup ChosenKeys

VARIABLES
  at,       \* where each call is in request
  method,   \* its method
  key,      \* its Idempotency-Key, None when it sends none
  attempt,  \* retries so far
  outcome,  \* what ended it
  wire,     \* requests on their way to the API
  running,  \* requests the API is working on
  replies,  \* answers on their way back
  keys,     \* the API's keys: "running", "done", or absent
  effects   \* how often each call's operation took effect

vars == <<at, method, key, attempt, outcome, wire, running, replies, keys, effects>>
api  == <<wire, running, replies, keys, effects>>

Methods == {"GET", "POST", "PATCH", "DELETE"}
Keys    == Calls \cup ChosenKeys

(* What ends an attempt, by what request does about it.  "no_result" is a    *)
(* 2xx that is not JSON, or a replay the API no longer holds; "refused" is   *)
(* any other 4xx, or a 429 that asks for more than max_retry_wait.           *)
Answers == {"ok", "no_result", "rate_limited", "refused", "in_progress",
            "server_error", "unavailable"}
Outcomes == Answers \cup {"none", "connection_error", "request_error"}

Requests == [call : Calls, attempt : 0..MaxRetries, key : Keys \cup {None}]

Init ==
  /\ at = [c \in Calls |-> "new"]
  /\ method = [c \in Calls |-> "GET"]
  /\ key = [c \in Calls |-> None]
  /\ attempt = [c \in Calls |-> 0]
  /\ outcome = [c \in Calls |-> "none"]
  /\ wire = {} /\ running = {} /\ replies = {}
  /\ keys = << >>
  /\ effects = [c \in Calls |-> 0]

-----------------------------------------------------------------------------
(* request is called; only a POST has a key, one for all its attempts. *)
Begin(c, m, k) ==
  /\ at[c] = "new"
  /\ at' = [at EXCEPT ![c] = "sending"]
  /\ method' = [method EXCEPT ![c] = m]
  /\ key' = [key EXCEPT ![c] = k]
  /\ UNCHANGED <<attempt, outcome, api>>

(* The resource methods: those that read, that create, rotate or assign     *)
(* something, with a key the caller may choose, and that update or remove it.*)
Read(c)      == Begin(c, "GET", None)
Create(c, k) == k \in {c} \cup ChosenKeys /\ Begin(c, "POST", k)
Update(c)    == Begin(c, "PATCH", None)
Remove(c)    == Begin(c, "DELETE", None)

RequestMutant(c) == [call |-> c, attempt |-> attempt[c],
                     key |-> IF attempt[c] = 0 THEN key[c] ELSE None]
Request(c) == [call |-> c, attempt |-> attempt[c], key |-> key[c]]

Send(c) ==
  /\ at[c] = "sending"
  /\ at' = [at EXCEPT ![c] = "waiting"]
  /\ wire' = wire \cup {Request(c)}
  /\ UNCHANGED <<method, key, attempt, outcome, running, replies, keys, effects>>

End(c, o) ==
  /\ at' = [at EXCEPT ![c] = "ended"]
  /\ outcome' = [outcome EXCEPT ![c] = o]
  /\ UNCHANGED <<method, key, attempt>>

(* A request requests cannot send is not tried again. *)
CannotSend(c) == at[c] = "sending" /\ End(c, "request_error") /\ UNCHANGED api

(* _retry_delay and _backoff: which ends of an attempt are worth another.   *)
RetryAfterFailureMutant == {"GET", "DELETE", "POST", "PATCH"}
RetryAfterFailure == {"GET", "DELETE", "POST"}

RetriedMutant(c, o) ==
  /\ attempt[c] <= MaxRetries
  /\ \/ o = "rate_limited"
     \/ /\ method[c] \in RetryAfterFailure
        /\ o \in {"connection_error", "in_progress", "server_error", "unavailable"}

Retried(c, o) ==
  /\ attempt[c] < MaxRetries
  /\ \/ o = "rate_limited"
     \/ /\ method[c] \in RetryAfterFailure
        /\ o \in {"connection_error", "in_progress", "server_error", "unavailable"}

AttemptEndsMutant(c, o) ==
  IF ~Retried(c, o) THEN End(c, o)
  ELSE /\ at' = [at EXCEPT ![c] = "sending"]
       /\ attempt' = [attempt EXCEPT ![c] = IF o = "rate_limited" THEN @ ELSE @ + 1]
       /\ UNCHANGED <<method, key, outcome>>

AttemptEnds(c, o) ==
  IF ~Retried(c, o) THEN End(c, o)
  ELSE /\ at' = [at EXCEPT ![c] = "sending"]
       /\ attempt' = [attempt EXCEPT ![c] = @ + 1]
       /\ UNCHANGED <<method, key, outcome>>

ReceiveMutant(c, r) ==
  /\ at[c] = "waiting"
  /\ r.call = c
  /\ replies' = replies \ {r}
  /\ AttemptEnds(c, IF r.answer = "in_progress" THEN "ok" ELSE r.answer)
  /\ UNCHANGED <<wire, running, keys, effects>>

Receive(c, r) ==
  /\ at[c] = "waiting"
  /\ r.call = c
  /\ replies' = replies \ {r}
  /\ AttemptEnds(c, r.answer)
  /\ UNCHANGED <<wire, running, keys, effects>>

(* The connection fails or times out, wherever the request has got to: it   *)
(* may still be run, but nobody listens for its answer.                      *)
Lost(c) ==
  /\ at[c] = "waiting"
  /\ AttemptEnds(c, "connection_error")
  /\ replies' = {r \in replies : r.call # c}
  /\ UNCHANGED <<wire, running, keys, effects>>

-----------------------------------------------------------------------------
(* The API and the network in front of it.  A request no action ever takes  *)
(* off the wire is one the network lost.                                     *)
Listening(r) == at[r.call] = "waiting" /\ attempt[r.call] = r.attempt
Answered(r, a) ==
  replies' = IF Listening(r) THEN replies \cup {[call |-> r.call, answer |-> a]} ELSE replies
Idle == UNCHANGED <<at, method, key, attempt, outcome>>

(* Refused before anything runs. *)
Refuse(r, a) ==
  /\ a \in {"rate_limited", "refused", "unavailable"}
  /\ wire' = wire \ {r}
  /\ Answered(r, a)
  /\ Idle /\ UNCHANGED <<running, keys, effects>>

(* A key that is known is answered without running anything. *)
KeyKnown(r, a) ==
  /\ r.key \in DOMAIN keys
  /\ IF keys[r.key] = "running" THEN a = "in_progress" ELSE a \in {"ok", "no_result"}
  /\ wire' = wire \ {r}
  /\ Answered(r, a)
  /\ Idle /\ UNCHANGED <<running, keys, effects>>

Take(r) ==
  /\ r.key \notin DOMAIN keys
  /\ wire' = wire \ {r}
  /\ running' = running \cup {r}
  /\ keys' = IF r.key = None THEN keys
             ELSE [k \in DOMAIN keys \cup {r.key} |-> IF k = r.key THEN "running" ELSE keys[k]]
  /\ Idle /\ UNCHANGED <<replies, effects>>

Apply(r, a) ==
  /\ a \in {"ok", "no_result", "server_error"}
  /\ running' = running \ {r}
  /\ effects' = [effects EXCEPT ![r.call] = @ + 1]
  /\ keys' = IF r.key = None THEN keys ELSE [keys EXCEPT ![r.key] = "done"]
  /\ Answered(r, a)
  /\ Idle /\ UNCHANGED wire

Fail(r, a) ==
  /\ a \in {"refused", "server_error"}
  /\ running' = running \ {r}
  /\ keys' = [k \in DOMAIN keys \ {r.key} |-> keys[k]]
  /\ Answered(r, a)
  /\ Idle /\ UNCHANGED <<wire, effects>>

Client(c) ==
  Send(c) \/ CannotSend(c) \/ Lost(c) \/ \E r \in replies : Receive(c, r)

Next ==
  \/ \E c \in Calls :
       Read(c) \/ Update(c) \/ Remove(c) \/ (\E k \in Keys : Create(c, k)) \/ Client(c)
  \/ \E r \in wire : Take(r) \/ \E a \in Answers : Refuse(r, a) \/ KeyKnown(r, a)
  \/ \E r \in running, a \in Answers : Apply(r, a) \/ Fail(r, a)

Spec == Init /\ [][Next]_vars

(* The caller's thread runs, and its timeouts end a wait.  Nothing is       *)
(* assumed of the API or the network.                                        *)
FairSpec == Spec /\ \A c \in Calls : WF_vars(Client(c))

-----------------------------------------------------------------------------
(* Requests, answers and keys keep their types, and no call is tried more than
   MaxRetries times again. *)
TypeOK ==
  /\ at \in [Calls -> {"new", "sending", "waiting", "ended"}]
  /\ method \in [Calls -> Methods]
  /\ key \in [Calls -> Keys \cup {None}]
  /\ attempt \in [Calls -> 0..MaxRetries]
  /\ outcome \in [Calls -> Outcomes]
  /\ wire \cup running \subseteq Requests
  /\ replies \subseteq [call : Calls, answer : Answers]
  /\ DOMAIN keys \subseteq Keys /\ \A k \in DOMAIN keys : keys[k] \in {"running", "done"}

(* However often a POST is retried, by the client or by its caller with the *)
(* same key, and however late an attempt given up on runs, what it asks for *)
(* happens at most once.                                                     *)
EffectsOf(S) == Cardinality({e \in S \X (1..(MaxRetries + 1)) : e[2] <= effects[e[1]]})
PostOnce == \A k \in Keys : EffectsOf({c \in Calls : key[c] = k}) <= 1

(* A PATCH has no key: it happens at most once because it is sent again     *)
(* only when it was refused unrun.  So a caller told it was refused knows   *)
(* that nothing changed.                                                     *)
PatchOnce ==
  \A c \in Calls : method[c] = "PATCH" =>
    /\ effects[c] <= 1
    /\ outcome[c] \in {"rate_limited", "refused", "unavailable"}
         => effects[c] = 0

(* The attempts, keys, answers and timeouts of request, and an API that may *)
(* still run what the caller gave up on, add up to what ManagementPromise   *)
(* promises: a POST and a PATCH happen once, a PATCH not after it was        *)
(* refused, and success, or a replay that is gone, is told only of what      *)
(* happened (management/errors.py, IdempotencyReplayUnavailableError).       *)
Promise == INSTANCE ManagementPromise WITH
  Things <- Keys,
  asked  <- [c \in Calls |-> IF at[c] = "new" THEN "none" ELSE method[c]],
  thing  <- [c \in Calls |-> IF key[c] = None THEN c ELSE key[c]],
  times  <- effects,
  told   <- outcome
Promised == Promise!Spec

(* Every call ends, however the API and the network behave. *)
CallsEnd == \A c \in Calls : at[c] = "sending" ~> at[c] = "ended"
=============================================================================
