---------------------- MODULE ManagementTransportProofs ----------------------
(* Theorems about ManagementTransport, for any number of calls, chosen keys  *)
(* and retries: its types, that a POST takes effect once per key and a PATCH *)
(* once, and that it implements ManagementPromise.                           *)
EXTENDS ManagementTransport, FiniteSetTheorems, TLAPS

-----------------------------------------------------------------------------
(* The inductive invariant. *)

Typed == TypeOK /\ effects \in [Calls -> Nat]

(* Nothing is known of a call that was not made; an outcome is told at the   *)
(* end; POSTs are the calls with a key, and every request carries its call's.*)
Sound ==
  /\ \A c \in Calls : at[c] = "new" =>
       /\ effects[c] = 0 /\ key[c] = None
       /\ \A r \in wire \cup running \cup replies : r.call # c
  /\ \A c \in Calls : outcome[c] = "none" <=> at[c] # "ended"
  /\ \A c \in Calls : key[c] # None <=> method[c] = "POST"
  /\ \A r \in wire \cup running : r.key = key[r.call]

(* A key runs once at a time, and is done once something happened under it,  *)
(* which is then one call's doing, and once.                                 *)
Effective(k) == {c \in Calls : key[c] = k /\ effects[c] > 0}
Keyed ==
  /\ \A r \in running : r.key # None => r.key \in DOMAIN keys /\ keys[r.key] = "running"
  /\ \A r, s \in running : r.key # None /\ r.key = s.key => r = s
  /\ \A k \in Keys : \A c \in Effective(k) : k \in DOMAIN keys /\ keys[k] = "done"
  /\ \A k \in Keys : \A c, d \in Effective(k) : c = d /\ effects[c] = 1
  /\ \A k \in DOMAIN keys : keys[k] = "done" => Effective(k) # {}

(* A PATCH is in one place at a time: with the client, which may send it, on *)
(* the wire, at the API, in an answer, or over.  Until the last it has not   *)
(* happened, unless the answer says that it may have.                        *)
Refused == {"rate_limited", "refused", "unavailable"}
Patch(c) ==
  /\ effects[c] \in {0, 1}
  /\ at[c] = "sending" => effects[c] = 0
  /\ outcome[c] \in Refused => effects[c] = 0
  /\ \A r, s \in wire \cup running : r.call = c /\ s.call = c => r = s
  /\ \A r \in wire \cap running : r.call # c
  /\ \A r \in wire \cup running : r.call = c =>
       /\ effects[c] = 0 /\ at[c] # "sending" /\ outcome[c] \notin Refused
       /\ \A p \in replies : p.call # c
  /\ \A p, q \in replies : p.call = c /\ q.call = c => p = q
  /\ \A p \in replies : p.call = c =>
       at[c] = "waiting" /\ (p.answer \in Refused => effects[c] = 0)
Patched == \A c \in Calls : method[c] = "PATCH" => Patch(c)

(* An answer of success is given to what happened, for this call or another  *)
(* with its key.                                                             *)
Happened(c) == effects[c] > 0 \/ \E d \in Calls : key[c] # None /\ key[d] = key[c] /\ effects[d] > 0
Truthful == \A p \in replies : p.answer \in {"ok", "no_result"} => Happened(p.call)

Inv == Typed /\ Sound /\ Keyed /\ Patched /\ Truthful

-----------------------------------------------------------------------------
(* What the end of an attempt does to its call, and to no other. *)
LEMMA AttemptEndsFacts ==
  ASSUME TypeOK, NEW c \in Calls, NEW o \in Answers \cup {"connection_error"}, AttemptEnds(c, o)
  PROVE  /\ UNCHANGED <<method, key>>
         /\ attempt' \in [Calls -> 0..MaxRetries]
         /\ outcome' \in [Calls -> Outcomes]
         /\ at' \in [Calls -> {"new", "sending", "waiting", "ended"}]
         /\ \A d \in Calls : d # c => at'[d] = at[d] /\ outcome'[d] = outcome[d]
         /\ \/ at'[c] = "sending" /\ outcome'[c] = outcome[c] /\ Retried(c, o)
            \/ at'[c] = "ended" /\ outcome'[c] = o
<1>1. CASE Retried(c, o)
  <2>1. attempt' = [attempt EXCEPT ![c] = @ + 1] /\ attempt[c] < MaxRetries
    BY <1>1 DEF AttemptEnds, Retried
  <2>2. attempt[c] + 1 \in 0..MaxRetries
    BY <2>1, RetryAssumption DEF TypeOK
  <2>3. attempt' \in [Calls -> 0..MaxRetries]
    BY <2>1, <2>2 DEF TypeOK
  <2>4. QED BY <1>1, <2>3 DEF AttemptEnds, TypeOK
<1>2. CASE ~Retried(c, o)
  BY <1>2 DEF AttemptEnds, End, TypeOK, Outcomes
<1>3. QED BY <1>1, <1>2

(* Types. *)
LEMMA InitTyped == Init => Typed
BY RetryAssumption DEF Init, Typed, TypeOK, Methods, Outcomes, Answers, Keys

LEMMA TypedStep == Typed /\ [Next]_vars => Typed'
<1> SUFFICES ASSUME Typed, [Next]_vars PROVE Typed'
  OBVIOUS
<1> USE DEF Typed
<1>1. ASSUME NEW c \in Calls, NEW m \in Methods, NEW k \in Keys \cup {None}, Begin(c, m, k)
      PROVE  Typed'
  BY <1>1 DEF Begin, TypeOK, api
<1>2. ASSUME NEW c \in Calls, Send(c) PROVE Typed'
  <2>1. Request(c) \in Requests
    BY DEF Request, Requests, TypeOK
  <2>2. QED BY <1>2, <2>1 DEF Send, TypeOK
<1>3. ASSUME NEW c \in Calls, CannotSend(c) PROVE Typed'
  BY <1>3 DEF CannotSend, End, TypeOK, Outcomes, api
<1>4. ASSUME NEW c \in Calls, Lost(c) PROVE Typed'
  BY <1>4, AttemptEndsFacts DEF Lost, TypeOK
<1>5. ASSUME NEW c \in Calls, NEW r \in replies, Receive(c, r) PROVE Typed'
  <2>1. r.answer \in Answers
    BY DEF TypeOK
  <2>2. QED BY <1>5, <2>1, AttemptEndsFacts DEF Receive, TypeOK
<1>6. ASSUME NEW r \in wire \cup running, NEW a \in Answers, Answered(r, a)
      PROVE  replies' \subseteq [call : Calls, answer : Answers]
  BY <1>6 DEF Answered, TypeOK, Requests
<1>7. ASSUME NEW r \in wire, Take(r) PROVE Typed'
  BY <1>7 DEF Take, Idle, TypeOK, Requests
<1>8. ASSUME NEW r \in wire, NEW a \in Answers, Refuse(r, a) \/ KeyKnown(r, a) PROVE Typed'
  BY <1>6, <1>8 DEF Refuse, KeyKnown, Idle, TypeOK
<1>9. ASSUME NEW r \in running, NEW a \in Answers, Apply(r, a) PROVE Typed'
  <2>1. r \in Requests
    BY DEF TypeOK
  <2>2. effects' \in [Calls -> Nat]
    BY <1>9, <2>1 DEF Apply, Requests
  <2>3. DOMAIN keys' \subseteq Keys /\ \A k \in DOMAIN keys' : keys'[k] \in {"running", "done"}
    BY <1>9 DEF Apply, TypeOK
  <2>4. QED BY <1>6, <1>9, <2>2, <2>3 DEF Apply, Idle, TypeOK
<1>10. ASSUME NEW r \in running, NEW a \in Answers, Fail(r, a) PROVE Typed'
  BY <1>6, <1>10 DEF Fail, Idle, TypeOK
<1>11. CASE UNCHANGED vars
  BY <1>11 DEF vars, TypeOK
<1>12. QED
  BY <1>1, <1>2, <1>3, <1>4, <1>5, <1>7, <1>8, <1>9, <1>10, <1>11
     DEF Next, Client, Read, Create, Update, Remove, Keys, Methods

-----------------------------------------------------------------------------
(* An answer reaches only a call that is waiting for it. *)
LEMMA AnsweredFacts ==
  ASSUME NEW r, NEW a, Answered(r, a)
  PROVE  \A p \in replies' : p \notin replies =>
           p.call = r.call /\ p.answer = a /\ at[r.call] = "waiting"
BY DEF Answered, Listening

LEMMA InitSound == Init => Sound
BY DEF Init, Sound

LEMMA SoundStep == Typed /\ Sound /\ [Next]_vars => Sound'
<1> SUFFICES ASSUME Typed, Sound, [Next]_vars PROVE Sound'
  OBVIOUS
<1> USE DEF Typed, Sound
<1>1. ASSUME NEW c \in Calls, NEW m \in Methods, NEW k \in Keys \cup {None}, Begin(c, m, k),
             k # None <=> m = "POST"
      PROVE  Sound'
  BY <1>1 DEF Begin, TypeOK, Requests, api
<1>2. ASSUME NEW c \in Calls, Send(c) PROVE Sound'
  BY <1>2 DEF Send, Request, TypeOK, Requests
<1>3. ASSUME NEW c \in Calls, CannotSend(c) PROVE Sound'
  BY <1>3 DEF CannotSend, End, TypeOK, api
<1>4. ASSUME NEW c \in Calls, Lost(c) PROVE Sound'
  <2>1. \A d \in Calls : outcome'[d] = "none" <=> at'[d] # "ended"
    BY <1>4, AttemptEndsFacts DEF Lost
  <2>2. \A d \in Calls : at'[d] = "new" => at[d] = "new"
    BY <1>4, AttemptEndsFacts DEF Lost
  <2>3. UNCHANGED <<key, method>>
    BY <1>4, AttemptEndsFacts DEF Lost
  <2>4. QED BY <1>4, <2>1, <2>2, <2>3 DEF Lost
<1>5. ASSUME NEW c \in Calls, NEW r \in replies, Receive(c, r) PROVE Sound'
  <2>1. r.answer \in Answers /\ r.answer # "none"
    BY DEF TypeOK, Answers
  <2>2. \A d \in Calls : outcome'[d] = "none" <=> at'[d] # "ended"
    BY <1>5, <2>1, AttemptEndsFacts DEF Receive
  <2>3. \A d \in Calls : at'[d] = "new" => at[d] = "new"
    BY <1>5, <2>1, AttemptEndsFacts DEF Receive
  <2>4. UNCHANGED <<key, method>>
    BY <1>5, <2>1, AttemptEndsFacts DEF Receive
  <2>5. QED BY <1>5, <2>2, <2>3, <2>4 DEF Receive
<1>6. ASSUME NEW r \in wire, Take(r) PROVE Sound'
  BY <1>6 DEF Take, Idle
<1>7. ASSUME NEW r \in wire, NEW a \in Answers, Refuse(r, a) \/ KeyKnown(r, a) PROVE Sound'
  BY <1>7, AnsweredFacts DEF Refuse, KeyKnown, Idle
<1>8. ASSUME NEW r \in running, NEW a \in Answers, Apply(r, a) PROVE Sound'
  <2>1. r.call \in Calls /\ at[r.call] # "new"
    BY DEF TypeOK, Requests
  <2>2. \A d \in Calls : at[d] = "new" => effects'[d] = 0
    BY <1>8, <2>1 DEF Apply
  <2>3. QED BY <1>8, <2>2, AnsweredFacts DEF Apply, Idle
<1>9. ASSUME NEW r \in running, NEW a \in Answers, Fail(r, a) PROVE Sound'
  BY <1>9, AnsweredFacts DEF Fail, Idle
<1>10. CASE UNCHANGED vars
  BY <1>10 DEF vars
<1>11. QED
  BY <1>1, <1>2, <1>3, <1>4, <1>5, <1>6, <1>7, <1>8, <1>9, <1>10, RetryAssumption
     DEF Next, Client, Read, Create, Update, Remove, Keys, Methods

-----------------------------------------------------------------------------
(* Steps that leave the API's work, its keys and what happened as they are,  *)
(* and the keys of calls that were made, leave Keyed.                        *)
LEMMA KeyedStays ==
  ASSUME Keyed, UNCHANGED <<keys, effects>>, running' \subseteq running,
         \A c \in Calls : effects[c] > 0 => key'[c] = key[c]
  PROVE  Keyed'
<1>1. \A k : Effective(k)' = Effective(k)
  BY DEF Effective
<1>2. QED BY <1>1 DEF Keyed, Effective

LEMMA InitKeyed == Init => Keyed
BY DEF Init, Keyed, Effective

LEMMA KeyedStep == Typed /\ Sound /\ Keyed /\ [Next]_vars => Keyed'
<1> SUFFICES ASSUME Typed, Sound, Keyed, [Next]_vars PROVE Keyed'
  OBVIOUS
<1>1. ASSUME NEW c \in Calls, NEW m, NEW k, Begin(c, m, k) PROVE Keyed'
  <2>1. \A d \in Calls : effects[d] > 0 => key'[d] = key[d]
    BY <1>1 DEF Begin, Typed, TypeOK, Sound
  <2>2. QED BY <1>1, <2>1, KeyedStays DEF Begin, api
<1>2. ASSUME NEW c \in Calls, Client(c) PROVE Keyed'
  <2>1. UNCHANGED <<keys, effects, running, key>>
    <3>1. CASE Send(c) \/ CannotSend(c)
      BY <3>1 DEF Send, CannotSend, End, api
    <3>2. CASE Lost(c)
      BY <3>2, AttemptEndsFacts DEF Lost, Typed
    <3>3. ASSUME NEW r \in replies, Receive(c, r) PROVE UNCHANGED <<keys, effects, running, key>>
      <4>1. r.answer \in Answers
        BY DEF Typed, TypeOK
      <4>2. QED BY <3>3, <4>1, AttemptEndsFacts DEF Receive, Typed
    <3>4. QED BY <1>2, <3>1, <3>2, <3>3 DEF Client
  <2>2. QED BY <2>1, KeyedStays
<1>3. ASSUME NEW r \in wire, Take(r) PROVE Keyed'
  <2>1. r.key \in Keys \cup {None} /\ DOMAIN keys \subseteq Keys /\ None \notin Keys
    BY RetryAssumption DEF Typed, TypeOK, Requests, Keys
  <2>2. \A k : Effective(k)' = Effective(k)
    BY <1>3 DEF Take, Idle, Effective
  <2>3. CASE r.key = None
    BY <1>3, <2>2, <2>3 DEF Take, Keyed
  <2>4. CASE r.key # None
    <3>1. /\ DOMAIN keys' = DOMAIN keys \cup {r.key} /\ keys'[r.key] = "running"
          /\ \A k \in DOMAIN keys : keys'[k] = keys[k]
      BY <1>3, <2>4 DEF Take
    <3>2. Effective(r.key) = {}
      BY <1>3, <2>1, <2>4 DEF Take, Keyed
    <3>3. running' = running \cup {r} /\ \A s \in running : s.key # r.key
      BY <1>3, <2>4 DEF Take, Keyed
    <3>4. \A s \in running' : s.key # None => s.key \in DOMAIN keys' /\ keys'[s.key] = "running"
      BY <2>4, <3>1, <3>3 DEF Keyed
    <3>5. \A s, t \in running' : s.key # None /\ s.key = t.key => s = t
      BY <3>3 DEF Keyed
    <3>6. \A k \in Keys : \A c \in Effective(k) : k \in DOMAIN keys' /\ keys'[k] = "done"
      BY <3>1, <3>2 DEF Keyed
    <3>7. \A k \in Keys : \A c, d \in Effective(k) : c = d /\ effects'[c] = 1
      BY <1>3 DEF Keyed, Take
    <3>8. \A k \in DOMAIN keys' : keys'[k] = "done" => Effective(k) # {}
      BY <3>1 DEF Keyed
    <3>9. QED BY <2>2, <3>4, <3>5, <3>6, <3>7, <3>8 DEF Keyed
  <2>5. QED BY <2>3, <2>4
<1>4. ASSUME NEW r \in wire, NEW a \in Answers, Refuse(r, a) \/ KeyKnown(r, a) PROVE Keyed'
  BY <1>4, KeyedStays DEF Refuse, KeyKnown, Idle
<1>5. ASSUME NEW r \in running, NEW a \in Answers, Apply(r, a) PROVE Keyed'
  <2>1. r.call \in Calls /\ r.key = key[r.call] /\ r.key \in Keys \cup {None} /\ None \notin Keys
    BY RetryAssumption DEF Typed, TypeOK, Requests, Keys, Sound
  <2>2. /\ \A d \in Calls : effects'[d] = IF d = r.call THEN effects[d] + 1 ELSE effects[d]
        /\ effects \in [Calls -> Nat] /\ key' = key /\ running' = running \ {r}
    BY <1>5, <2>1 DEF Apply, Idle, Typed
  <2>3. CASE r.key = None
    <3> \A d \in Calls : key[d] \in Keys => effects'[d] = effects[d]
      BY <2>1, <2>2, <2>3
    <3>1. \A k \in Keys : Effective(k)' = Effective(k) /\ \A c \in Effective(k) : effects'[c] = effects[c]
      BY <2>2 DEF Effective
    <3>2. keys' = keys
      BY <1>5, <2>3 DEF Apply
    <3>3. DOMAIN keys \subseteq Keys
      BY DEF Typed, TypeOK
    <3>4. QED BY <2>2, <3>1, <3>2, <3>3 DEF Keyed
  <2>4. CASE r.key # None
    <3>1. r.key \in DOMAIN keys /\ keys[r.key] = "running"
      BY <2>4 DEF Keyed
    <3>2. Effective(r.key) = {} /\ effects[r.call] = 0
      BY <2>1, <2>2, <2>4, <3>1 DEF Keyed, Effective
    <3>3. Effective(r.key)' = {r.call} /\ effects'[r.call] = 1
      BY <2>1, <2>2, <3>2 DEF Effective
    <3>4. \A k \in Keys : k # r.key => Effective(k)' = Effective(k)
      BY <2>1, <2>2 DEF Effective
    <3>5. /\ DOMAIN keys' = DOMAIN keys /\ keys'[r.key] = "done"
          /\ \A k \in DOMAIN keys : k # r.key => keys'[k] = keys[k]
      BY <1>5, <2>4, <3>1 DEF Apply
    <3>6. \A s \in running' : s.key # None => s.key # r.key
      BY <2>2, <2>4 DEF Keyed
    <3>7. \A k \in Keys : k # r.key => \A c \in Effective(k) : effects'[c] = effects[c]
      BY <2>1, <2>2 DEF Effective
    <3>8. DOMAIN keys \subseteq Keys
      BY DEF Typed, TypeOK
    <3>9. QED BY <2>1, <2>2, <3>1, <3>3, <3>4, <3>5, <3>6, <3>7, <3>8 DEF Keyed
  <2>5. QED BY <2>3, <2>4
<1>6. ASSUME NEW r \in running, NEW a \in Answers, Fail(r, a) PROVE Keyed'
  <2>1. /\ DOMAIN keys' = DOMAIN keys \ {r.key} /\ \A k \in DOMAIN keys' : keys'[k] = keys[k]
        /\ running' = running \ {r}
    BY <1>6 DEF Fail
  <2>2. \A k : Effective(k)' = Effective(k)
    BY <1>6 DEF Fail, Idle, Effective
  <2>3. r.key # None => keys[r.key] = "running" /\ \A s \in running' : s.key # r.key
    BY <2>1 DEF Keyed
  <2>4. DOMAIN keys \subseteq Keys /\ None \notin Keys /\ effects' = effects
    BY <1>6, RetryAssumption DEF Typed, TypeOK, Keys, Fail
  <2>5. QED BY <2>1, <2>2, <2>3, <2>4 DEF Keyed
<1>7. CASE UNCHANGED vars
  BY <1>7, KeyedStays DEF vars
<1>8. QED
  BY <1>1, <1>2, <1>3, <1>4, <1>5, <1>6, <1>7 DEF Next, Read, Create, Update, Remove

-----------------------------------------------------------------------------
(* A step that is not about a PATCH, and of the rest takes nothing from what *)
(* is known of it, leaves it as it is.                                       *)
Of(c, S) == {x \in S : x.call = c}

LEMMA PatchStays ==
  ASSUME NEW c \in Calls, Patch(c), at'[c] = at[c], outcome'[c] = outcome[c], effects'[c] = effects[c],
         Of(c, wire') = Of(c, wire), Of(c, running') = Of(c, running), Of(c, replies') = Of(c, replies)
  PROVE  Patch(c)'
<1>1. /\ \A r \in wire' \cup running' : r.call = c => r \in wire \cup running
      /\ \A r \in wire' \cap running' : r.call = c => r \in wire \cap running
      /\ \A p \in replies' : p.call = c => p \in replies
  BY DEF Of
<1>2. QED BY <1>1 DEF Patch

LEMMA InitPatched == Init => Patched
BY DEF Init, Patched

LEMMA PatchedStep == Typed /\ Sound /\ Patched /\ [Next]_vars => Patched'
<1> SUFFICES ASSUME Typed, Sound, Patched, [Next]_vars, NEW c \in Calls, method'[c] = "PATCH"
             PROVE  Patch(c)'
  BY DEF Patched
<1>1. ASSUME NEW d \in Calls, NEW m, NEW k, Begin(d, m, k) PROVE Patch(c)'
  <2>1. CASE d = c
    BY <1>1, <2>1 DEF Begin, api, Patch, Sound, Typed, TypeOK, Refused
  <2>2. CASE d # c
    <3>1. method[c] = "PATCH" /\ at'[c] = at[c]
      BY <1>1, <2>2 DEF Begin, Typed, TypeOK
    <3>2. QED BY <1>1, <3>1, PatchStays DEF Begin, api, Patched, Of
  <2>3. QED BY <2>1, <2>2
<1>2. ASSUME NEW d \in Calls, Send(d) PROVE Patch(c)'
  <2>1. Patch(c)
    BY <1>2 DEF Send, Patched
  <2>2. CASE d = c
    <3>1. /\ at[c] = "sending" /\ at'[c] = "waiting" /\ outcome[c] = "none"
          /\ \A r \in wire \cup running : r.call # c
          /\ \A p \in replies : p.call # c
          /\ effects[c] = 0
      BY <1>2, <2>1, <2>2 DEF Send, Patch, Sound, Typed, TypeOK
    <3>2. Request(c).call = c
      BY DEF Request
    <3>3. QED BY <1>2, <2>2, <3>1, <3>2 DEF Send, Patch, Refused
  <2>3. CASE d # c
    <3>1. at'[c] = at[c] /\ Request(d).call # c
      BY <1>2, <2>3 DEF Send, Typed, TypeOK, Request
    <3>2. Of(c, wire') = Of(c, wire)
      BY <1>2, <3>1 DEF Send, Of
    <3>3. UNCHANGED <<outcome, effects, running, replies>>
      BY <1>2 DEF Send
    <3>4. QED BY <2>1, <3>1, <3>2, <3>3, PatchStays
  <2>4. QED BY <2>2, <2>3
<1>3. ASSUME NEW d \in Calls, CannotSend(d) PROVE Patch(c)'
  <2>1. Patch(c)
    BY <1>3 DEF CannotSend, End, Patched
  <2>2. CASE d = c
    BY <1>3, <2>1, <2>2 DEF CannotSend, End, api, Patch, Typed, TypeOK, Refused
  <2>3. CASE d # c
    <3>1. at'[c] = at[c] /\ outcome'[c] = outcome[c]
      BY <1>3, <2>3 DEF CannotSend, End, Typed, TypeOK
    <3>2. UNCHANGED api
      BY <1>3 DEF CannotSend
    <3>3. QED BY <2>1, <3>1, <3>2, PatchStays DEF api
  <2>4. QED BY <2>2, <2>3
<1>4. ASSUME NEW d \in Calls, NEW o \in Answers \cup {"connection_error"}, AttemptEnds(d, o),
             at[d] = "waiting", UNCHANGED <<wire, running, effects>>, replies' \subseteq replies,
             o = "connection_error" \/ \E p \in replies : p.call = d /\ p.answer = o,
             \A p \in replies : p \in replies' <=> p.call # d \/ (o # "connection_error" /\ p.answer # o)
      PROVE  Patch(c)'
  <2>1. UNCHANGED <<method, key>> /\ Patch(c)
    BY <1>4, AttemptEndsFacts DEF Typed, Patched
  <2>2. CASE d = c
    <3>1. \A p \in replies' : p.call # c
      BY <1>4, <2>1, <2>2 DEF Patch
    <3>2. o \in Refused => effects[c] = 0 /\ \A r \in wire \cup running : r.call # c
      BY <1>4, <2>1, <2>2 DEF Patch, Refused
    <3>3. CASE at'[c] = "sending" /\ outcome'[c] = outcome[c] /\ Retried(c, o)
      <4>1. o = "rate_limited"
        BY <2>1, <3>3 DEF Retried, RetryAfterFailure
      <4>2. QED BY <1>4, <2>1, <3>1, <3>2, <3>3, <4>1 DEF Patch, Refused
    <3>4. CASE at'[c] = "ended" /\ outcome'[c] = o
      BY <1>4, <2>1, <3>1, <3>2, <3>4 DEF Patch
    <3>5. QED BY <1>4, <2>2, <3>3, <3>4, AttemptEndsFacts DEF Typed
  <2>3. CASE d # c
    <3>1. at'[c] = at[c] /\ outcome'[c] = outcome[c]
      BY <1>4, <2>3, AttemptEndsFacts DEF Typed
    <3>2. Of(c, replies') = Of(c, replies)
      BY <1>4, <2>3 DEF Of
    <3>3. effects' = effects /\ wire' = wire /\ running' = running
      BY <1>4
    <3>4. QED BY <2>1, <3>1, <3>2, <3>3, PatchStays
  <2>4. QED BY <2>2, <2>3
<1>5. ASSUME NEW d \in Calls, Lost(d) PROVE Patch(c)'
  BY <1>4, <1>5 DEF Lost, Answers
<1>6. ASSUME NEW d \in Calls, NEW p \in replies, Receive(d, p) PROVE Patch(c)'
  <2>1. p.answer \in Answers /\ p.answer # "connection_error"
    BY DEF Typed, TypeOK, Answers
  <2>2. \A q \in replies : q.call = d /\ q.answer = p.answer => q = p
    BY <1>6 DEF Receive, Typed, TypeOK
  <2>3. QED BY <1>4, <1>6, <2>1, <2>2 DEF Receive
(* The API's steps: with a request of another call, with one of this. *)
<1>7. ASSUME NEW r \in wire \cup running, r.call # c, Idle, effects'[c] = effects[c],
             wire' \in {wire, wire \ {r}}, running' \in {running, running \ {r}, running \cup {r}},
             Of(c, replies') = Of(c, replies)
      PROVE  Patch(c)'
  <2>1. Of(c, wire') = Of(c, wire) /\ Of(c, running') = Of(c, running)
    BY <1>7 DEF Of
  <2>2. Patch(c) /\ at' = at /\ outcome' = outcome
    BY <1>7 DEF Idle, Patched
  <2>3. QED BY <1>7, <2>1, <2>2, PatchStays
<1>8. ASSUME NEW r \in wire \cup running, r.call = c, Idle, NEW a, Answered(r, a),
             \/ wire' = wire \ {r} /\ running' = running /\ r \in wire
             \/ running' = running \ {r} /\ wire' = wire /\ r \in running,
             effects'[c] \in {0, 1}, a \in Refused => effects'[c] = 0
      PROVE  Patch(c)'
  <2>1. Patch(c)
    BY <1>8 DEF Idle, Patched
  <2>2. \A s \in wire' \cup running' : s.call # c
    BY <1>8, <2>1 DEF Patch
  <2>3. at[c] # "sending" /\ outcome[c] \notin Refused /\ \A p \in replies : p.call # c
    BY <1>8, <2>1 DEF Patch
  <2>4. \A p \in replies' : p.call = c => p = [call |-> c, answer |-> a] /\ at[c] = "waiting"
    BY <1>8, <2>3 DEF Answered, Listening
  <2>5. QED BY <1>8, <2>2, <2>3, <2>4 DEF Patch, Idle
<1>9. ASSUME NEW r, NEW a, Answered(r, a), r.call # c
      PROVE  Of(c, replies') = Of(c, replies)
  BY <1>9 DEF Answered, Of
<1>10. ASSUME NEW r \in wire, Take(r) PROVE Patch(c)'
  <2>1. Patch(c)
    BY <1>10 DEF Take, Idle, Patched
  <2>2. CASE r.call = c
    BY <1>10, <2>1 DEF Take, Idle, Patch
  <2>3. CASE r.call # c
    BY <1>7, <1>10, <2>3 DEF Take
  <2>4. QED BY <2>2, <2>3
<1>11. ASSUME NEW r \in wire, NEW a \in Answers, Refuse(r, a) \/ KeyKnown(r, a) PROVE Patch(c)'
  <2>1. Patch(c)
    BY <1>11 DEF Refuse, KeyKnown, Idle, Patched
  <2>2. CASE r.call = c
    <3>1. effects[c] = 0
      BY <2>1, <2>2 DEF Patch
    <3>2. QED BY <1>8, <1>11, <2>2, <3>1 DEF Refuse, KeyKnown
  <2>3. CASE r.call # c
    BY <1>7, <1>9, <1>11, <2>3 DEF Refuse, KeyKnown
  <2>4. QED BY <2>2, <2>3
<1>12. ASSUME NEW r \in running, NEW a \in Answers, Apply(r, a) PROVE Patch(c)'
  <2>1. Patch(c)
    BY <1>12 DEF Apply, Idle, Patched
  <2>2. CASE r.call = c
    <3>1. effects[c] = 0
      BY <2>1, <2>2 DEF Patch
    <3>2. effects'[c] = 1 /\ a \notin Refused
      BY <1>12, <2>2, <3>1 DEF Apply, Typed, Refused
    <3>3. QED BY <1>8, <1>12, <2>2, <3>2 DEF Apply
  <2>3. CASE r.call # c
    <3>1. effects'[c] = effects[c]
      BY <1>12, <2>3 DEF Apply, Typed
    <3>2. QED BY <1>7, <1>9, <1>12, <2>3, <3>1 DEF Apply
  <2>4. QED BY <2>2, <2>3
<1>13. ASSUME NEW r \in running, NEW a \in Answers, Fail(r, a) PROVE Patch(c)'
  <2>1. Patch(c)
    BY <1>13 DEF Fail, Idle, Patched
  <2>2. CASE r.call = c
    <3>1. effects[c] = 0
      BY <2>1, <2>2 DEF Patch
    <3>2. QED BY <1>8, <1>13, <2>2, <3>1 DEF Fail
  <2>3. CASE r.call # c
    BY <1>7, <1>9, <1>13, <2>3 DEF Fail
  <2>4. QED BY <2>2, <2>3
<1>14. CASE UNCHANGED vars
  BY <1>14 DEF vars, Patched, Patch
<1>15. QED
  BY <1>1, <1>2, <1>3, <1>5, <1>6, <1>10, <1>11, <1>12, <1>13, <1>14
     DEF Next, Client, Read, Create, Update, Remove

-----------------------------------------------------------------------------
(* What happened stays so, and keeps the key it happened under. *)
LEMMA HappenedStays ==
  ASSUME Typed, Sound, NEW c \in Calls, at[c] # "new", Happened(c),
         effects' \in [Calls -> Nat], \A d \in Calls : effects'[d] >= effects[d],
         \A d \in Calls : at[d] # "new" => key'[d] = key[d]
  PROVE  Happened(c)'
<1>1. \A d \in Calls : effects[d] > 0 => effects'[d] > 0 /\ key'[d] = key[d]
  BY DEF Typed, Sound
<1>2. key'[c] = key[c]
  OBVIOUS
<1>3. QED BY <1>1, <1>2 DEF Happened

LEMMA InitTruthful == Init => Truthful
BY DEF Init, Truthful

LEMMA TruthfulStep == Typed /\ Typed' /\ Sound /\ Keyed /\ Truthful /\ [Next]_vars => Truthful'
<1> SUFFICES ASSUME Typed, Typed', Sound, Keyed, Truthful, [Next]_vars,
                    NEW p \in replies', p.answer \in {"ok", "no_result"}
             PROVE  Happened(p.call)'
  BY DEF Truthful
<1>1. ASSUME p \in replies, \A d \in Calls : effects'[d] >= effects[d],
             \A d \in Calls : at[d] # "new" => key'[d] = key[d]
      PROVE  Happened(p.call)'
  <2>1. p.call \in Calls /\ at[p.call] # "new" /\ Happened(p.call)
    BY <1>1 DEF Typed, TypeOK, Sound, Truthful
  <2>2. QED BY <1>1, <2>1, HappenedStays DEF Typed
<1>2. effects' = effects => \A d \in Calls : effects'[d] >= effects[d]
  BY DEF Typed
<1>3. ASSUME NEW c \in Calls, NEW m, NEW k, Begin(c, m, k) PROVE Happened(p.call)'
  <2>1. \A d \in Calls : at[d] # "new" => key'[d] = key[d]
    BY <1>3 DEF Begin, Typed, TypeOK
  <2>2. QED BY <1>1, <1>2, <1>3, <2>1 DEF Begin, api
<1>4. ASSUME NEW c \in Calls, Client(c) PROVE Happened(p.call)'
  <2>1. UNCHANGED <<effects, key>> /\ replies' \subseteq replies
    <3>1. CASE Send(c) \/ CannotSend(c)
      BY <3>1 DEF Send, CannotSend, End, api
    <3>2. CASE Lost(c)
      BY <3>2, AttemptEndsFacts DEF Lost, Typed
    <3>3. ASSUME NEW r \in replies, Receive(c, r) PROVE UNCHANGED <<effects, key>> /\ replies' \subseteq replies
      <4>1. r.answer \in Answers
        BY DEF Typed, TypeOK
      <4>2. QED BY <3>3, <4>1, AttemptEndsFacts DEF Receive, Typed
    <3>4. QED BY <1>4, <3>1, <3>2, <3>3 DEF Client
  <2>2. QED BY <1>1, <1>2, <2>1
<1>5. ASSUME NEW r \in wire, Take(r) PROVE Happened(p.call)'
  BY <1>1, <1>2, <1>5 DEF Take, Idle
<1>6. ASSUME NEW r \in wire, NEW a \in Answers, Refuse(r, a) \/ KeyKnown(r, a) PROVE Happened(p.call)'
  <2>1. CASE p \in replies
    BY <1>1, <1>2, <1>6, <2>1 DEF Refuse, KeyKnown, Idle
  <2>2. CASE p \notin replies
    <3>1. p.call = r.call /\ p.answer = a
      BY <1>6, <2>2, AnsweredFacts DEF Refuse, KeyKnown
    <3>2. KeyKnown(r, a)
      BY <1>6, <3>1 DEF Refuse
    <3>3. r.key \in DOMAIN keys /\ keys[r.key] = "done"
      BY <3>1, <3>2 DEF KeyKnown, Typed, TypeOK
    <3>4. PICK d \in Calls : key[d] = r.key /\ effects[d] > 0
      BY <3>3 DEF Keyed, Effective
    <3>5. key[r.call] = r.key /\ r.key # None
      BY <3>3, RetryAssumption DEF Sound, Typed, TypeOK, Keys
    <3>6. QED BY <3>1, <3>2, <3>4, <3>5 DEF KeyKnown, Idle, Happened
  <2>3. QED BY <2>1, <2>2
<1>7. ASSUME NEW r \in running, NEW a \in Answers, Apply(r, a) PROVE Happened(p.call)'
  <2>1. r.call \in Calls
    BY DEF Typed, TypeOK, Requests
  <2>2. \A d \in Calls : effects'[d] = IF d = r.call THEN effects[d] + 1 ELSE effects[d]
    BY <1>7 DEF Apply, Typed
  <2>3. CASE p \in replies
    <3>1. \A d \in Calls : effects'[d] >= effects[d]
      BY <2>2 DEF Typed
    <3>2. QED BY <1>1, <1>7, <2>3, <3>1 DEF Apply, Idle
  <2>4. CASE p \notin replies
    <3>1. p.call = r.call
      BY <1>7, <2>4, AnsweredFacts DEF Apply
    <3>2. effects'[r.call] > 0
      BY <2>1, <2>2 DEF Typed
    <3>3. QED BY <3>1, <3>2 DEF Happened
  <2>5. QED BY <2>3, <2>4
<1>8. ASSUME NEW r \in running, NEW a \in Answers, Fail(r, a) PROVE Happened(p.call)'
  <2>1. p \in replies
    BY <1>8, AnsweredFacts DEF Fail
  <2>2. QED BY <1>1, <1>2, <1>8, <2>1 DEF Fail, Idle
<1>9. CASE UNCHANGED vars
  BY <1>1, <1>2, <1>9 DEF vars
<1>10. QED
  BY <1>3, <1>4, <1>5, <1>6, <1>7, <1>8, <1>9 DEF Next, Read, Create, Update, Remove

-----------------------------------------------------------------------------
THEOREM Invariant == Spec => []Inv
<1>1. Init => Inv
  BY InitTyped, InitSound, InitKeyed, InitPatched, InitTruthful DEF Inv
<1>2. Inv /\ [Next]_vars => Inv'
  BY TypedStep, SoundStep, KeyedStep, PatchedStep, TruthfulStep DEF Inv
<1>3. QED BY <1>1, <1>2, PTL DEF Spec

(* Every variable keeps its type, and no call is retried more than           *)
(* MaxRetries times, whatever the network and the API do.                    *)
THEOREM TypeCorrect == Spec => []TypeOK
<1>1. Inv => TypeOK
  BY DEF Inv, Typed
<1>2. QED BY <1>1, Invariant, PTL

(* A POST happens once per key, over all calls that share it, their retries  *)
(* and the attempts they gave up on (client.py:175-259).                     *)
THEOREM PostsHappenOnce == Spec => []PostOnce
<1>1. Inv => PostOnce
  <2> SUFFICES ASSUME Typed, Keyed, NEW k \in Keys
               PROVE  EffectsOf({c \in Calls : key[c] = k}) <= 1
    BY DEF Inv, PostOnce
  <2> DEFINE E == {e \in {c \in Calls : key[c] = k} \X (1..(MaxRetries + 1)) : e[2] <= effects[e[1]]}
  <2>1. \A e \in E : e[1] \in Effective(k) /\ e[2] = 1 /\ e = <<e[1], e[2]>>
    <3> SUFFICES ASSUME NEW e \in E PROVE e[1] \in Effective(k) /\ e[2] = 1 /\ e = <<e[1], e[2]>>
      OBVIOUS
    <3>1. e[1] \in Calls /\ key[e[1]] = k /\ e[2] \in 1..(MaxRetries + 1) /\ e[2] <= effects[e[1]]
      OBVIOUS
    <3>2. e[2] \in Nat /\ e[2] >= 1 /\ effects[e[1]] \in Nat
      BY <3>1, RetryAssumption DEF Typed
    <3>3. e[1] \in Effective(k)
      BY <3>1, <3>2 DEF Effective
    <3>4. effects[e[1]] = 1
      BY <3>3 DEF Keyed
    <3>5. QED BY <3>1, <3>2, <3>3, <3>4
  <2>2. \A e, f \in E : e = f
    BY <2>1 DEF Keyed
  <2>3. Cardinality(E) <= 1
    <3>1. CASE E = {}
      BY <3>1, FS_EmptySet
    <3>2. ASSUME NEW e \in E PROVE Cardinality(E) <= 1
      <4>1. E = {e}
        BY <2>2
      <4>2. Cardinality({e}) = 1
        BY FS_Singleton
      <4>3. QED BY <4>1, <4>2
    <3>3. QED BY <3>1, <3>2
  <2>4. QED BY <2>3 DEF EffectsOf
<1>2. QED BY <1>1, Invariant, PTL

(* A PATCH, which has no key, happens once at most, and not at all when its  *)
(* caller is told it was refused (client.py:261-281).                        *)
THEOREM PatchesHappenOnce == Spec => []PatchOnce
<1>1. Inv => PatchOnce
  BY DEF Inv, Patched, Patch, PatchOnce, Refused
<1>2. QED BY <1>1, Invariant, PTL

-----------------------------------------------------------------------------
(* The implementation of ManagementPromise.  What the mapping shows of a     *)
(* call when nothing of it is new, and when it was made.                     *)
LEMMA Quiet ==
  ASSUME UNCHANGED <<method, key, effects, outcome>>, \A c \in Calls : at'[c] = "new" <=> at[c] = "new"
  PROVE  UNCHANGED Promise!promise
BY DEF Promise!promise

LEMMA Told ==
  ASSUME Inv, NEW c \in Calls, NEW o \in Outcomes \ {"none"}, at[c] \in {"sending", "waiting"},
         UNCHANGED <<method, key, effects>>, \A d \in Calls : at'[d] = "new" <=> at[d] = "new",
         outcome' = [outcome EXCEPT ![c] = o],
         o \in {"ok", "no_result"} => Happened(c),
         method[c] = "PATCH" /\ o \in Refused => effects[c] = 0
  PROVE  Promise!Tell(c, o) /\ o \in Promise!Outcomes
<1>1. o \in Promise!Outcomes
  BY DEF Promise!Outcomes, Promise!Successes, Promise!Refusals, Outcomes, Answers
<1>2. outcome[c] = "none" /\ at[c] # "new" /\ method[c] # "none"
  BY DEF Inv, Sound, Typed, TypeOK, Methods
<1>3. Happened(c) => Promise!Happened(c)
  <2> SUFFICES ASSUME Happened(c), effects[c] = 0 PROVE Promise!Happened(c)
    BY DEF Inv, Typed, Promise!Happened
  <2>1. PICK d \in Calls : key[c] # None /\ key[d] = key[c] /\ effects[d] > 0
    BY DEF Happened
  <2>2. at[d] # "new" /\ method[d] = "POST" /\ method[c] = "POST"
    BY <2>1 DEF Inv, Sound
  <2>3. QED BY <1>2, <2>1, <2>2 DEF Promise!Happened, Promise!Repeats
<1>4. method[c] = "PATCH" /\ o \in Promise!Refusals => ~Promise!Happened(c)
  BY <1>2 DEF Promise!Happened, Promise!Refusals, Refused
<1>5. UNCHANGED <<[d \in Calls |-> IF at[d] = "new" THEN "none" ELSE method[d]],
                  [d \in Calls |-> IF key[d] = None THEN d ELSE key[d]], effects>>
  OBVIOUS
<1>6. QED BY <1>1, <1>2, <1>3, <1>4, <1>5 DEF Promise!Tell, Promise!Successes

(* An attempt that ends ends its call, and tells; or it does not, and nobody *)
(* can see it.                                                               *)
LEMMA AttemptRefines ==
  ASSUME Inv, NEW c \in Calls, NEW o \in Answers \cup {"connection_error"}, AttemptEnds(c, o),
         at[c] = "waiting", effects' = effects,
         o \in {"ok", "no_result"} => Happened(c),
         method[c] = "PATCH" /\ o \in Refused => effects[c] = 0
  PROVE  [Promise!Next]_Promise!promise
<1>1. UNCHANGED <<method, key>> /\ \A d \in Calls : at'[d] = "new" <=> at[d] = "new"
  BY AttemptEndsFacts DEF Inv, Typed
<1>2. CASE Retried(c, o)
  <2>1. outcome' = outcome
    BY <1>2 DEF AttemptEnds
  <2>2. QED BY <1>1, <2>1, Quiet
<1>3. CASE ~Retried(c, o)
  <2>1. outcome' = [outcome EXCEPT ![c] = o] /\ o \in Outcomes \ {"none"}
    BY <1>3 DEF AttemptEnds, End, Outcomes, Answers
  <2>2. QED BY <1>1, <2>1, Told DEF Promise!Next
<1>4. QED BY <1>2, <1>3

(* What was asked for happens when the API applies it. *)
LEMMA ApplyRefines ==
  ASSUME Inv, NEW r \in running, NEW a, Apply(r, a)
  PROVE  Promise!Happen(r.call) /\ r.call \in Calls
<1> DEFINE c == r.call
<1>1. c \in Calls /\ at[c] # "new" /\ r.key = key[c] /\ method[c] \in Methods
  BY DEF Inv, Typed, TypeOK, Requests, Sound
<1>2. method[c] = "POST" => ~Promise!Happened(c)
  <2> SUFFICES ASSUME method[c] = "POST", NEW d \in Calls, d = c \/ key[d] = key[c], effects[d] > 0
               PROVE  FALSE
    <3>1. \A d \in Calls : method[d] = "POST" => key[d] # None
      BY DEF Inv, Sound
    <3>2. QED BY <1>1, <3>1 DEF Promise!Happened, Promise!Repeats
  <2>1. key[c] # None /\ key[c] \in Keys
    BY <1>1 DEF Inv, Sound, Typed, TypeOK
  <2>2. keys[key[c]] = "running"
    BY <1>1, <2>1 DEF Inv, Keyed
  <2>3. d \in Effective(key[c])
    BY DEF Effective
  <2>4. QED BY <2>1, <2>2, <2>3 DEF Inv, Keyed
<1>3. method[c] = "PATCH" => ~Promise!Happened(c) /\ outcome[c] \notin Promise!Refusals
  <2>1. method[c] = "PATCH" => effects[c] = 0 /\ outcome[c] \notin Refused
    BY <1>1 DEF Inv, Patched, Patch
  <2>2. method[c] = "PATCH" => ~Promise!Happened(c)
    <3> HIDE DEF c
    <3>1. QED BY <1>1, <2>1 DEF Promise!Happened
  <2>3. Promise!Refusals = Refused
    BY DEF Promise!Refusals, Refused
  <2>4. QED BY <2>1, <2>2, <2>3
<1>4. UNCHANGED <<[d \in Calls |-> IF at[d] = "new" THEN "none" ELSE method[d]],
                  [d \in Calls |-> IF key[d] = None THEN d ELSE key[d]], outcome>>
  BY DEF Apply, Idle
<1>5. effects' = [effects EXCEPT ![c] = @ + 1]
  BY DEF Apply
<1>6. method[c] # "none"
  BY <1>1 DEF Methods
<1>7. QED BY <1>1, <1>2, <1>3, <1>4, <1>5, <1>6 DEF Promise!Happen

LEMMA BeginRefines ==
  ASSUME Inv, NEW c \in Calls, NEW m \in Methods, NEW k \in Keys \cup {None}, Begin(c, m, k)
  PROVE  Promise!Next
<1> DEFINE thing == IF k = None THEN c ELSE k
<1>1. /\ [d \in Calls |-> IF at'[d] = "new" THEN "none" ELSE method'[d]]
         = [[d \in Calls |-> IF at[d] = "new" THEN "none" ELSE method[d]] EXCEPT ![c] = m]
      /\ [d \in Calls |-> IF key'[d] = None THEN d ELSE key'[d]]
         = [[d \in Calls |-> IF key[d] = None THEN d ELSE key[d]] EXCEPT ![c] = thing]
  BY DEF Begin, Inv, Typed, TypeOK
<1>2. thing \in Keys /\ m \in {"GET", "POST", "PATCH", "DELETE"}
  BY DEF Keys, Methods
<1>3. UNCHANGED <<effects, outcome>> /\ at[c] = "new"
  BY DEF Begin, api
<1>4. Promise!Ask(c, m, thing)
  BY <1>1, <1>3 DEF Promise!Ask
<1>5. QED BY <1>2, <1>4 DEF Promise!Next

(* Every behaviour of the transport is one ManagementPromise allows, seen    *)
(* through the mapping of ManagementTransport (client.py:175-259).           *)
THEOREM KeepsPromise == Spec => Promised
<1>1. Init => Promise!Init
  <2>1. ASSUME Init PROVE [c \in Calls |-> IF key[c] = None THEN c ELSE key[c]] \in [Calls -> Keys]
    BY <2>1 DEF Init, Keys
  <2>2. QED BY <2>1 DEF Init, Promise!Init
<1>2. Inv /\ [Next]_vars => [Promise!Next]_Promise!promise
  <2> SUFFICES ASSUME Inv, [Next]_vars PROVE [Promise!Next]_Promise!promise
    OBVIOUS
  <2>1. ASSUME NEW c \in Calls, Send(c) PROVE [Promise!Next]_Promise!promise
    <3>1. \A d \in Calls : at'[d] = "new" <=> at[d] = "new"
      BY <2>1 DEF Send, Inv, Typed, TypeOK
    <3>2. QED BY <2>1, <3>1, Quiet DEF Send
  <2>2. ASSUME NEW c \in Calls, CannotSend(c) PROVE [Promise!Next]_Promise!promise
    <3>1. \A d \in Calls : at'[d] = "new" <=> at[d] = "new"
      BY <2>2 DEF CannotSend, End, Inv, Typed, TypeOK
    <3>2. Promise!Tell(c, "request_error") /\ "request_error" \in Promise!Outcomes
      BY <2>2, <3>1, Told DEF CannotSend, End, api, Outcomes, Answers, Refused
    <3>3. QED BY <3>2 DEF Promise!Next
  <2>3. ASSUME NEW c \in Calls, Lost(c) PROVE [Promise!Next]_Promise!promise
    BY <2>3, AttemptRefines DEF Lost, Refused
  <2>4. ASSUME NEW c \in Calls, NEW p \in replies, Receive(c, p) PROVE [Promise!Next]_Promise!promise
    <3>1. p.answer \in Answers /\ p.call = c
      BY <2>4 DEF Receive, Inv, Typed, TypeOK
    <3>2. p.answer \in {"ok", "no_result"} => Happened(c)
      BY <3>1 DEF Inv, Truthful
    <3>3. method[c] = "PATCH" /\ p.answer \in Refused => effects[c] = 0
      BY <3>1 DEF Inv, Patched, Patch
    <3>4. QED BY <2>4, <3>1, <3>2, <3>3, AttemptRefines DEF Receive
  <2>5. ASSUME NEW r, Take(r) PROVE [Promise!Next]_Promise!promise
    BY <2>5, Quiet DEF Take, Idle
  <2>6. ASSUME NEW r, NEW a, Refuse(r, a) \/ KeyKnown(r, a) \/ Fail(r, a)
        PROVE  [Promise!Next]_Promise!promise
    BY <2>6, Quiet DEF Refuse, KeyKnown, Fail, Idle
  <2>7. ASSUME NEW r \in running, NEW a, Apply(r, a) PROVE [Promise!Next]_Promise!promise
    BY <2>7, ApplyRefines DEF Promise!Next
  <2>8. CASE UNCHANGED vars
    BY <2>8, Quiet DEF vars
  <2>9. QED
    BY <2>1, <2>2, <2>3, <2>4, <2>5, <2>6, <2>7, <2>8, BeginRefines
       DEF Next, Client, Read, Create, Update, Remove, Keys, Methods
<1>3. QED BY <1>1, <1>2, Invariant, PTL DEF Spec, Promised, Promise!Spec
=============================================================================
