------------------------- MODULE ManagementPromise -------------------------
(***************************************************************************)
(* What a call of the management API promises its caller, without the      *)
(* attempts, answers, keys on the wire and timeouts it is made of: how     *)
(* often what was asked for may happen, and what may be told of it.        *)
(***************************************************************************)
EXTENDS Integers

CONSTANTS
  Calls,  \* calls of the host application
  Things  \* what they ask for: calls that repeat a POST ask for the same one

VARIABLES
  asked,  \* the method of each call, "none" before it is made
  thing,  \* what it asks for
  times,  \* how often that happened on its behalf
  told    \* what its caller was told, "none" so far

promise == <<asked, thing, times, told>>

Refusals == {"refused", "rate_limited", "unavailable"}
Successes == {"ok", "no_result"}

Init ==
  /\ asked = [c \in Calls |-> "none"]
  /\ thing \in [Calls -> Things]
  /\ times = [c \in Calls |-> 0]
  /\ told = [c \in Calls |-> "none"]

Ask(c, method, t) ==
  /\ asked[c] = "none"
  /\ asked' = [asked EXCEPT ![c] = method]
  /\ thing' = [thing EXCEPT ![c] = t]
  /\ UNCHANGED <<times, told>>

(* It happened before, on behalf of this call or of one with the same key. *)
Repeats(c) == {d \in Calls : asked[d] = "POST" /\ thing[d] = thing[c]}
Happened(c) == \E d \in {c} \cup (IF asked[c] = "POST" THEN Repeats(c) ELSE {}) : times[d] > 0

(* What was asked for happens, possibly after the caller was told of a      *)
(* failure; a POST and a PATCH once, a PATCH never after it was refused.     *)
Happen(c) ==
  /\ asked[c] # "none"
  /\ asked[c] \in {"POST", "PATCH"} => ~Happened(c)
  /\ asked[c] = "PATCH" => told[c] \notin Refusals
  /\ times' = [times EXCEPT ![c] = @ + 1]
  /\ UNCHANGED <<asked, thing, told>>

(* The caller is told, once: success only of what happened, and that a      *)
(* PATCH was refused only if it did not.                                     *)
Tell(c, outcome) ==
  /\ asked[c] # "none" /\ told[c] = "none"
  /\ outcome \in Successes => Happened(c)
  /\ asked[c] = "PATCH" /\ outcome \in Refusals => ~Happened(c)
  /\ told' = [told EXCEPT ![c] = outcome]
  /\ UNCHANGED <<asked, thing, times>>

Outcomes == Successes \cup Refusals
            \cup {"in_progress", "server_error", "connection_error", "request_error"}

Next == \E c \in Calls :
  \/ \E m \in {"GET", "POST", "PATCH", "DELETE"}, t \in Things : Ask(c, m, t)
  \/ Happen(c)
  \/ \E o \in Outcomes : Tell(c, o)

Spec == Init /\ [][Next]_promise
=============================================================================
