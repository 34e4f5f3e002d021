---------------------------- MODULE AccessTokens ----------------------------
(***************************************************************************)
(* The token cache of tokens/access_tokens.py with the mint it performs    *)
(* (commands/generate_access_token.py over commands/_http.py) and the      *)
(* caller in front of it (Authorization.header in authorization.py).       *)
(*                                                                         *)
(* Threads call header(url).  The lookup on the fast path takes no lock;   *)
(* a miss takes _lock, looks again, and mints while holding it.  Both maps *)
(* are replaced, never mutated, so each rebinding is one step, and the two *)
(* rebindings of one operation are two steps a lock-free reader can see    *)
(* between.                                                                *)
(*                                                                         *)
(* A URL is the sequence of its "/"-separated parts, so that the code's    *)
(* `url == key or url.startswith(key + "/")` is the prefix order.  A token *)
(* is the number of the mint that obtained it.                             *)
(***************************************************************************)
EXTENDS Integers, FiniteSets, SequencesExt

CONSTANTS
  Callers,        \* threads of the host application
  Urls,           \* URLs in play, requested and canonical, already stripped
  NoUrl,          \* what strip_url answers for anything else
  Resolve,        \* intake: the base URLs a requested URL may resolve to
  Answers,        \* the statuses intake answers with, [status, minted]
  Lifetimes,      \* expired_at of a minted token, relative to now
  Unreadable,     \* an expired_at that is absent or does not parse
  Naive,          \* an expired_at that parses to a datetime without a zone
  DefaultTtl,     \* the hour assumed for an unreadable expired_at
  RefreshBuffer,  \* _REFRESH_BUFFER
  FailureCap,     \* _FAILURE_CAP
  Attempts,       \* attempts _http.post makes
  Nobody,         \* the holder of a free lock
  MaxNow,         \* bound: the clock stops here
  MaxCalls        \* bound: calls of the whole behaviour

ASSUME UrlAssumption ==
  /\ Urls \subseteq Seq(STRING)
  /\ NoUrl \notin Urls
  /\ Resolve \in [Urls -> SUBSET Urls]

ASSUME CallerAssumption == Nobody \notin Callers

ASSUME TimeAssumption ==
  /\ Lifetimes \subseteq Int \cup {Unreadable, Naive}
  /\ Naive \notin Int
  /\ DefaultTtl \in Int
  /\ RefreshBuffer \in Nat
  /\ MaxNow \in Nat

ASSUME LimitAssumption ==
  /\ FailureCap \in Nat \ {0}
  /\ Attempts \in Nat \ {0}
  /\ MaxCalls \in Nat

ASSUME AnswerAssumption == Answers \subseteq [status : 100..599, minted : BOOLEAN]

VARIABLES
  entries,   \* _entries: canonical URL -> [token, expires]
  failures,  \* _failures: requested URL -> [result, first], first is its place in the dict
  lock,      \* _lock: its holder
  now,       \* the wall clock
  mints,     \* mints that have ended in a result so far
  calls,     \* calls begun so far
  pc,        \* where each caller is in token_result
  url,       \* base_url of each caller's call
  matched,   \* matched_key of the mint under way, as a set of at most one
  attempt,   \* attempt of the post under way
  result,    \* the TokenResult of each caller's call
  reply      \* what Authorization.header last did for each caller

vars == <<entries, failures, lock, now, mints, calls, pc, url, matched, attempt, result, reply>>

-----------------------------------------------------------------------------
Success            == "success"
CredentialRejected == "credential_rejected"
RequestRejected    == "request_rejected"
ServerError        == "server_error"
TransportError     == "transport_error"

FailureOutcomes == {CredentialRejected, RequestRejected, ServerError, TransportError}

(* What a call can end with besides an outcome: an exception of its own. *)
Raised == {"config_error", "unexpected"}

Results == [outcome : {Success} \cup FailureOutcomes \cup Raised,
            mint : Nat, by : Callers \cup {Nobody}, key : Urls \cup {NoUrl}]

Replies == [kind : {"none", "value_error", "config_error", "unavailable", "bearer"},
            result : Results]

Entries  == [token : Nat, expires : Int \cup {Naive}]
Failures == [result : Results, first : Nat]

NoResult == [outcome |-> "unexpected", mint |-> 0, by |-> Nobody, key |-> NoUrl]
NoReply  == [kind |-> "none", result |-> NoResult]

(* The base URLs intake can answer with. *)
Environments == UNION {Resolve[u] : u \in Urls}

(* _match_key: the longest key of a map covering a URL, as a set: empty when *)
(* nothing covers it.                                                        *)
Covers(key, u)  == IsPrefix(key, u)
Covering(u, keys) == {k \in keys : Covers(k, u)}
Match(u, keys)  == {k \in Covering(u, keys) : \A j \in Covering(u, keys) : Len(j) <= Len(k)}

(* _usable.  An entry without a zone is usable nowhere: comparing it raises. *)
Comparable(e) == e.expires # Naive
Usable(e) == Comparable(e) /\ e.expires > now + RefreshBuffer

Held(u)     == Match(u, DOMAIN entries)
Hits(u)     == {k \in Held(u) : Usable(entries[k])}
LookupRaises(u) == \E k \in Held(u) : ~Comparable(entries[k])

(* last_failure: the record of the longest recorded URL covering u. *)
LastFailures(u) == {failures[k].result : k \in Match(u, DOMAIN failures)}

(* _parse_expiry *)
ParseExpiry(lifetime) ==
  IF lifetime = Naive THEN Naive
  ELSE now + (IF lifetime = Unreadable THEN DefaultTtl ELSE lifetime)

(* GenerateAccessToken._outcome and the one say the body has on a 2xx. *)
Outcome(answer) ==
  CASE answer.status \in 200..299 -> IF answer.minted THEN Success ELSE ServerError
    [] answer.status = 401 -> CredentialRejected
    [] answer.status \in 400..499 \ {401} -> RequestRejected
    [] OTHER -> ServerError

(* Authorization.header: what it makes of a TokenResult or an exception. *)
Header(r) ==
  CASE r.outcome = Success -> [kind |-> "bearer", result |-> r]
    [] r.outcome = "config_error" -> [kind |-> "config_error", result |-> r]
    [] OTHER -> [kind |-> "unavailable", result |-> r]

Without(f, keys) == [k \in DOMAIN f \ keys |-> f[k]]

(* The Mutant operators below are faults the properties are tested against:  *)
(* each is a variant of the definition it precedes and is used nowhere else. *)

(* _record_failure: a URL that fails again keeps its place; past the cap    *)
(* the oldest places go.                                                     *)
Newer(f, u) == {v \in DOMAIN f : f[v].first > f[u].first}
TrimmedMutant(f) == [u \in {v \in DOMAIN f : Cardinality(Newer(f, v)) <= FailureCap} |-> f[u]]
Trimmed(f) == [u \in {v \in DOMAIN f : Cardinality(Newer(f, v)) < FailureCap} |-> f[u]]
Recorded(f, u, r) ==
  LET place == IF u \in DOMAIN f THEN f[u].first ELSE r.mint
  IN Trimmed([v \in DOMAIN f \cup {u} |-> IF v = u THEN [result |-> r, first |-> place] ELSE f[v]])

ForgottenMutant(f, u, key) == Without(f, {u, key})
(* _forget_failures: the URL asked for, and everything under the key. *)
Forgotten(f, u, key) == [v \in {w \in DOMAIN f : w # u /\ ~Covers(key, w)} |-> f[v]]

-----------------------------------------------------------------------------
Init ==
  /\ entries = << >>
  /\ failures = << >>
  /\ lock = Nobody
  /\ now = 0
  /\ mints = 0
  /\ calls = 0
  /\ pc = [c \in Callers |-> "idle"]
  /\ url = [c \in Callers |-> NoUrl]
  /\ matched = [c \in Callers |-> {}]
  /\ attempt = [c \in Callers |-> 0]
  /\ result = [c \in Callers |-> NoResult]
  /\ reply = [c \in Callers |-> NoReply]

Goto(c, from, to) == pc[c] = from /\ pc' = [pc EXCEPT ![c] = to]
Release == lock' = Nobody
EndsWith(c, outcome, mint, key) ==
  result' = [result EXCEPT ![c] = [outcome |-> outcome, mint |-> mint, by |-> c, key |-> key]]

(* header(url) is called.  A URL that does not strip raises ValueError. *)
Call(c, u) ==
  /\ calls < MaxCalls
  /\ calls' = calls + 1
  /\ Goto(c, "idle", "lookup")
  /\ url' = [url EXCEPT ![c] = u]
  /\ reply' = [reply EXCEPT ![c] = NoReply]
  /\ UNCHANGED <<entries, failures, lock, now, mints, matched, attempt, result>>

CallUnusableUrl(c) ==
  /\ pc[c] = "idle"
  /\ reply' = [reply EXCEPT ![c] = [kind |-> "value_error", result |-> NoResult]]
  /\ UNCHANGED <<entries, failures, lock, now, mints, calls, pc, url, matched, attempt, result>>

(* The fast path: one read of _entries, no lock. *)
FastHit(c) ==
  /\ Goto(c, "lookup", "answered")
  /\ \E k \in Hits(url[c]) : EndsWith(c, Success, entries[k].token, k)
  /\ UNCHANGED <<entries, failures, lock, now, mints, calls, url, matched, attempt, reply>>

FastMiss(c) ==
  /\ Goto(c, "lookup", "waiting")
  /\ Hits(url[c]) = {}
  /\ ~LookupRaises(url[c])
  /\ UNCHANGED <<entries, failures, lock, now, mints, calls, url, matched, attempt, result, reply>>

FastRaise(c) ==
  /\ Goto(c, "lookup", "answered")
  /\ LookupRaises(url[c])
  /\ EndsWith(c, "unexpected", 0, NoUrl)
  /\ UNCHANGED <<entries, failures, lock, now, mints, calls, url, matched, attempt, reply>>

Acquire(c) ==
  /\ Goto(c, "waiting", "locked")
  /\ lock = Nobody
  /\ lock' = c
  /\ UNCHANGED <<entries, failures, now, mints, calls, url, matched, attempt, result, reply>>

(* Under the lock: another caller may have filled it while this one waited. *)
LockedHit(c) ==
  /\ Goto(c, "locked", "answered")
  /\ Release
  /\ \E k \in Hits(url[c]) : EndsWith(c, Success, entries[k].token, k)
  /\ UNCHANGED <<entries, failures, now, mints, calls, url, matched, attempt, reply>>

LockedRaise(c) ==
  /\ Goto(c, "locked", "answered")
  /\ Release
  /\ LookupRaises(url[c])
  /\ EndsWith(c, "unexpected", 0, NoUrl)
  /\ UNCHANGED <<entries, failures, now, mints, calls, url, matched, attempt, reply>>

StartMintMutant(c) ==
  /\ Goto(c, "locked", "minting")
  /\ matched' = [matched EXCEPT ![c] = Held(url[c])]
  /\ attempt' = [attempt EXCEPT ![c] = 1]
  /\ UNCHANGED <<entries, failures, lock, now, mints, calls, url, result, reply>>

StartMint(c) ==
  /\ Goto(c, "locked", "minting")
  /\ Hits(url[c]) = {}
  /\ ~LookupRaises(url[c])
  /\ matched' = [matched EXCEPT ![c] = Held(url[c])]
  /\ attempt' = [attempt EXCEPT ![c] = 1]
  /\ UNCHANGED <<entries, failures, lock, now, mints, calls, url, result, reply>>

MintRaisesMutant(c, error) ==
  /\ Goto(c, "minting", "answered")
  /\ EndsWith(c, error, 0, NoUrl)
  /\ UNCHANGED <<entries, failures, lock, now, mints, calls, url, matched, attempt, reply>>

(* The mint raises: the credential is missing (before anything is sent), or *)
(* the request meets an error that is no transport error.  Nothing is       *)
(* recorded and the lock is left.                                            *)
MintRaises(c, error) ==
  /\ Goto(c, "minting", "answered")
  /\ error = "config_error" => attempt[c] = 1
  /\ Release
  /\ EndsWith(c, error, 0, NoUrl)
  /\ UNCHANGED <<entries, failures, now, mints, calls, url, matched, attempt, reply>>

RetryPostMutant(c) ==
  /\ pc[c] = "minting"
  /\ attempt[c] <= Attempts
  /\ attempt' = [attempt EXCEPT ![c] = @ + 1]
  /\ UNCHANGED <<entries, failures, lock, now, mints, calls, pc, url, matched, result, reply>>

(* An attempt of the post is lost and there is another one left. *)
RetryPost(c) ==
  /\ pc[c] = "minting"
  /\ attempt[c] < Attempts
  /\ attempt' = [attempt EXCEPT ![c] = @ + 1]
  /\ UNCHANGED <<entries, failures, lock, now, mints, calls, pc, url, matched, result, reply>>

(* The mint answers a failure: the entry it was refreshing goes first. *)
MintFails(c, outcome) ==
  /\ Goto(c, "minting", "recording")
  /\ mints' = mints + 1
  /\ EndsWith(c, outcome, mints + 1, NoUrl)
  /\ entries' = Without(entries, matched[c])
  /\ UNCHANGED <<failures, lock, now, calls, url, matched, attempt, reply>>

PostIsLost(c) == attempt[c] = Attempts /\ MintFails(c, TransportError)
IntakeRefuses(c, answer) == Outcome(answer) # Success /\ MintFails(c, Outcome(answer))

RecordFailure(c) ==
  /\ Goto(c, "recording", "answered")
  /\ Release
  /\ failures' = Recorded(failures, url[c], result[c])
  /\ UNCHANGED <<entries, now, mints, calls, url, matched, attempt, result, reply>>

(* The mint succeeds: the token is stored under the key intake resolved to, *)
(* and a matched entry under another key goes in the same rebinding.        *)
StoredMutant(f, c, key, entry) ==
  [k \in DOMAIN f \cup {key} |-> IF k = key THEN entry ELSE f[k]]
Stored(f, c, key, entry) ==
  [k \in (DOMAIN f \ matched[c]) \cup {key} |-> IF k = key THEN entry ELSE f[k]]

IntakeMints(c, answer, key, lifetime) ==
  /\ Goto(c, "minting", "forgetting")
  /\ Outcome(answer) = Success
  /\ key \in Resolve[url[c]]
  /\ mints' = mints + 1
  /\ EndsWith(c, Success, mints + 1, key)
  /\ entries' = Stored(entries, c, key, [token |-> mints + 1, expires |-> ParseExpiry(lifetime)])
  /\ UNCHANGED <<failures, lock, now, calls, url, matched, attempt, reply>>

ForgetFailures(c) ==
  /\ Goto(c, "forgetting", "answered")
  /\ Release
  /\ failures' = Forgotten(failures, url[c], result[c].key)
  /\ UNCHANGED <<entries, now, mints, calls, url, matched, attempt, result, reply>>

ReturnMutant(c) ==
  /\ Goto(c, "answered", "idle")
  /\ reply' = [reply EXCEPT ![c] =
       IF result[c].outcome \in FailureOutcomes
       THEN [kind |-> "unavailable",
             result |-> CHOOSE r \in LastFailures(url[c]) \cup {NoResult} :
                          LastFailures(url[c]) # {} => r # NoResult]
       ELSE Header(result[c])]
  /\ UNCHANGED <<entries, failures, lock, now, mints, calls, url, matched, attempt, result>>

Return(c) ==
  /\ Goto(c, "answered", "idle")
  /\ reply' = [reply EXCEPT ![c] = Header(result[c])]
  /\ url' = [url EXCEPT ![c] = NoUrl]
  /\ matched' = [matched EXCEPT ![c] = {}]
  /\ attempt' = [attempt EXCEPT ![c] = 0]
  /\ UNCHANGED <<entries, failures, lock, now, mints, calls, result>>

InvalidateMutant(c) ==
  /\ pc[c] = "idle"
  /\ reply[c].kind = "bearer"
  /\ lock = Nobody
  /\ entries' = Without(entries, {reply[c].result.key})
  /\ reply' = [reply EXCEPT ![c] = NoReply]
  /\ UNCHANGED <<failures, lock, now, mints, calls, pc, url, matched, attempt, result>>

(* invalidate(token) by a caller whose token a provider rejected.  Its      *)
(* critical section is one rebinding.                                        *)
Invalidate(c) ==
  /\ pc[c] = "idle"
  /\ reply[c].kind = "bearer"
  /\ lock = Nobody
  /\ entries' = Without(entries, {k \in DOMAIN entries : entries[k].token = reply[c].result.mint})
  /\ reply' = [reply EXCEPT ![c] = NoReply]
  /\ UNCHANGED <<failures, lock, now, mints, calls, pc, url, matched, attempt, result>>

(* clear(): two rebindings under the lock. *)
ClearEntries(c) ==
  /\ calls < MaxCalls
  /\ calls' = calls + 1
  /\ Goto(c, "idle", "clearing")
  /\ lock = Nobody
  /\ lock' = c
  /\ entries' = << >>
  /\ UNCHANGED <<failures, now, mints, url, matched, attempt, result, reply>>

ClearFailures(c) ==
  /\ Goto(c, "clearing", "idle")
  /\ Release
  /\ failures' = << >>
  /\ UNCHANGED <<entries, now, mints, calls, url, matched, attempt, result, reply>>

Tick ==
  /\ now < MaxNow
  /\ now' = now + 1
  /\ UNCHANGED <<entries, failures, lock, mints, calls, pc, url, matched, attempt, result, reply>>

(* The steps of a call under way: the thread's own code and the answer of   *)
(* intake, which post's timeouts bound.                                      *)
Step(c) ==
  \/ FastHit(c) \/ FastMiss(c) \/ FastRaise(c)
  \/ Acquire(c) \/ LockedHit(c) \/ LockedRaise(c) \/ StartMint(c)
  \/ \E error \in Raised : MintRaises(c, error)
  \/ RetryPost(c) \/ PostIsLost(c)
  \/ \E a \in Answers : IntakeRefuses(c, a)
  \/ \E a \in Answers, k \in Urls, t \in Lifetimes : IntakeMints(c, a, k, t)
  \/ RecordFailure(c) \/ ForgetFailures(c) \/ Return(c) \/ ClearFailures(c)

Next ==
  \/ \E c \in Callers :
       \/ \E u \in Urls : Call(c, u)
       \/ CallUnusableUrl(c) \/ Invalidate(c) \/ ClearEntries(c)
       \/ Step(c)
  \/ Tick

Spec == Init /\ [][Next]_vars

(* A thread that can run is run: the interpreter switches threads, and a   *)
(* post ends within its timeouts.  Callers need not call.                   *)
FairSpec == Spec /\ \A c \in Callers : WF_vars(Step(c))
-----------------------------------------------------------------------------
Locked == {"locked", "minting", "recording", "forgetting", "clearing"}
Places == {"idle", "lookup", "waiting", "answered"} \cup Locked

(* token_result, last_failure, invalidate and clear keep every variable in its
   type; so does header, in what it hands to its caller.  Tokens are held only
   under base URLs intake resolves to, never per resource: nothing evicts. *)
TypeOK ==
  /\ DOMAIN entries \subseteq Environments /\ entries \in [DOMAIN entries -> Entries]
  /\ DOMAIN failures \subseteq Urls /\ failures \in [DOMAIN failures -> Failures]
  /\ lock \in Callers \cup {Nobody}
  /\ now \in Nat /\ mints \in Nat /\ calls \in Nat
  /\ pc \in [Callers -> Places]
  /\ url \in [Callers -> Urls \cup {NoUrl}]
  /\ matched \in [Callers -> SUBSET Urls]
  /\ attempt \in [Callers -> 0..Attempts]
  /\ result \in [Callers -> Results]
  /\ reply \in [Callers -> Replies]

(* A request for a new token is under way only while nothing usable covers  *)
(* the URL it is for: callers that raced to the lock share the first one's  *)
(* mint instead of each exchanging the credential (the second look in       *)
(* token_result), and no one refills the map behind a mint's back.          *)
MintOnlyWhenSpent ==
  \A c \in Callers : pc[c] = "minting" => Hits(url[c]) = {}

(* A recorded failure is newer than every token held for its URL: a mint    *)
(* that works answers the failures under the key it is stored under, and a  *)
(* failure never outlives a later success for the URL it was recorded for.  *)
(* Between the two rebindings of a success the holder of the lock may still *)
(* owe it.                                                                   *)
FailureNewerThanToken ==
  \A u \in DOMAIN failures, k \in DOMAIN entries :
    Covers(k, u) =>
      \/ entries[k].token < failures[u].result.mint
      \/ lock # Nobody /\ pc[lock] = "forgetting" /\ result[lock].key = k

(* The failure map is bounded however many URLs callers invent while a      *)
(* credential is revoked.                                                    *)
FailuresBounded == Cardinality(DOMAIN failures) <= FailureCap

(* The reason header gives for having no token is that of a mint this very  *)
(* caller ran for this very call, never one another thread left in the      *)
(* shared record meanwhile.                                                  *)
ReasonIsOwn ==
  \A c \in Callers :
    reply[c].kind = "unavailable" => reply[c].result.by = c /\ reply[c].result = result[c]

(* The entry a mint was for no longer answers for its URL once the mint has *)
(* ended, whatever base URL intake resolves it to this time: what covers     *)
(* the URL is the new token, or an entry less specific than the one found    *)
(* spent.  Otherwise that one, the longer key, would win every lookup after, *)
(* and each of them mint again (access_tokens.py:151-157).                   *)
RefreshTakesEffect ==
  \A c \in Callers : pc[c] \in {"recording", "forgetting"} =>
    \A k \in Held(url[c]) :
      \/ entries[k].token = result[c].mint
      \/ \E m \in matched[c] : Len(k) < Len(m)

(* A token that is still good stays until the credential's owner drops it:  *)
(* clear, or an invalidate of that very token.  No refresh, no failed mint, *)
(* no second mint of a racing caller and no invalidate by a caller holding  *)
(* an older token replaces or discards it.  A mint may only find, when it    *)
(* ends, that intake resolves its URL to an environment that did not answer  *)
(* for it, and replaces that one's token.                                     *)
Dropped(k) == k \notin DOMAIN entries' \/ entries'[k] # entries[k]
KeepsGoodTokens == \A k \in DOMAIN entries :
  Dropped(k) /\ Usable(entries[k]) =>
    \/ \E c \in Callers : pc'[c] = "clearing"
    \/ \E c \in Callers : /\ reply[c].kind = "bearer" /\ reply'[c] = NoReply
                         /\ reply[c].result.mint = entries[k].token
    \/ \E c \in Callers : /\ pc[c] = "minting" /\ k \notin Held(url[c])
                         /\ k \in DOMAIN entries' /\ entries'[k].token = result'[c].mint
GoodTokenKept == [][KeepsGoodTokens]_vars

(* Every call ends, and the lock is given back after every outcome of a     *)
(* mint, the ones that raise included.                                       *)
CallsEnd == \A c \in Callers : []<>(pc[c] = "idle")
=============================================================================
