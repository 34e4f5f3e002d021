------------------------- MODULE AccessTokensProofs -------------------------
(* Theorems about AccessTokens, for any number of threads and URLs, whatever *)
(* intake answers, and without the bounds TLC needs.                         *)
EXTENDS AccessTokens, FiniteSetTheorems, WellFoundedInduction, TLAPS

-----------------------------------------------------------------------------
(* The operators. *)

(* Every answer of intake is one of the outcomes of a mint. *)
LEMMA OutcomeType ==
  ASSUME NEW a \in Answers
  PROVE  Outcome(a) \in {Success} \cup FailureOutcomes
BY DEF Outcome, FailureOutcomes, Success, CredentialRejected, RequestRejected, ServerError,
       TransportError

(* header makes one of its replies of every result. *)
LEMMA HeaderType ==
  ASSUME NEW r \in Results
  PROVE  Header(r) \in Replies
BY DEF Header, Replies

(* An expiry is a time, or one without a zone. *)
LEMMA ExpiryType ==
  ASSUME now \in Nat, NEW t \in Lifetimes
  PROVE  ParseExpiry(t) \in Int \cup {Naive}
BY TimeAssumption DEF ParseExpiry

(* The values that stand for nothing are typed too. *)
LEMMA NoResultType == NoResult \in Results /\ NoReply \in Replies
<1>1. NoResult \in Results
  BY DEF NoResult, Results, Raised
<1>2. QED BY <1>1 DEF NoReply, Replies

(* Dropping keys of a map keeps its type. *)
LEMMA WithoutType ==
  ASSUME NEW S, NEW U, NEW f, f \in [DOMAIN f -> S], DOMAIN f \subseteq U, NEW K
  PROVE  /\ DOMAIN Without(f, K) \subseteq U
         /\ Without(f, K) \in [DOMAIN Without(f, K) -> S]
BY DEF Without

(* What intake answers with is a URL. *)
LEMMA EnvironmentUrls == Environments \subseteq Urls
BY UrlAssumption DEF Environments

(* The result a call ends with is typed. *)
LEMMA EndsWithType ==
  ASSUME result \in [Callers -> Results], NEW c \in Callers,
         NEW o \in {Success} \cup FailureOutcomes \cup Raised,
         NEW m \in Nat, NEW k \in Urls \cup {NoUrl}, EndsWith(c, o, m, k)
  PROVE  result' \in [Callers -> Results]
BY DEF EndsWith, Results

(* Recording a failure keeps the type of the failure map. *)
LEMMA RecordedType ==
  ASSUME NEW f, f \in [DOMAIN f -> Failures], DOMAIN f \subseteq Urls,
         NEW u \in Urls, NEW r \in Results
  PROVE  /\ DOMAIN Recorded(f, u, r) \subseteq Urls
         /\ Recorded(f, u, r) \in [DOMAIN Recorded(f, u, r) -> Failures]
<1> DEFINE place == IF u \in DOMAIN f THEN f[u].first ELSE r.mint
           g == [v \in DOMAIN f \cup {u} |->
                   IF v = u THEN [result |-> r, first |-> place] ELSE f[v]]
<1>1. place \in Nat
  BY DEF Failures, Results
<1>2. g \in [DOMAIN f \cup {u} -> Failures]
  BY <1>1 DEF Failures
<1>3. Recorded(f, u, r) = Trimmed(g)
  BY DEF Recorded
<1> HIDE DEF g
<1>4. DOMAIN Trimmed(g) \subseteq DOMAIN g /\ Trimmed(g) \in [DOMAIN Trimmed(g) -> Failures]
  BY <1>2 DEF Trimmed
<1>5. QED BY <1>2, <1>3, <1>4

-----------------------------------------------------------------------------
(* A request is for a URL, from its first step to its last. *)
UnderWay == {"lookup", "waiting", "locked", "minting", "recording", "forgetting", "answered"}
HasUrl == \A c \in Callers : pc[c] \in UnderWay => url[c] \in Urls

Typed == TypeOK /\ HasUrl

(* Types, and that every call under way has a URL, are inductive. *)
LEMMA TypedInvariant == Spec => []Typed
<1>1. Init => Typed
  <2> SUFFICES ASSUME Init PROVE Typed OBVIOUS
  <2>1. entries \in [DOMAIN entries -> Entries] /\ DOMAIN entries \subseteq Environments
    BY DEF Init
  <2>2. failures \in [DOMAIN failures -> Failures] /\ DOMAIN failures \subseteq Urls
    BY DEF Init
  <2>3. QED
    BY <2>1, <2>2, NoResultType, LimitAssumption
    DEF Init, Typed, TypeOK, HasUrl, Places, UnderWay
<1>2. Typed /\ [Next]_vars => Typed'
  <2> SUFFICES ASSUME Typed, [Next]_vars PROVE Typed'
    OBVIOUS
  <2> USE DEF Typed, TypeOK, HasUrl, Goto, Release, Places, Locked, UnderWay
  <2>1. ASSUME NEW c \in Callers, NEW u \in Urls, Call(c, u) PROVE Typed'
    BY <2>1, NoResultType DEF Call
  <2>2. ASSUME NEW c \in Callers, CallUnusableUrl(c) PROVE Typed'
    BY <2>2, NoResultType DEF CallUnusableUrl, Replies
  <2>3. ASSUME NEW c \in Callers, FastHit(c) PROVE Typed'
    <3>1. PICK k \in Hits(url[c]) : EndsWith(c, Success, entries[k].token, k)
      BY <2>3 DEF FastHit
    <3>2. k \in DOMAIN entries /\ k \in Urls /\ entries[k].token \in Nat
      BY EnvironmentUrls DEF Hits, Held, Match, Covering, Entries
    <3>3. result' \in [Callers -> Results]
      BY <3>1, <3>2, EndsWithType
    <3>4. QED BY <2>3, <3>3 DEF FastHit
  <2>4. ASSUME NEW c \in Callers, FastMiss(c) PROVE Typed'
    BY <2>4 DEF FastMiss
  <2>5. ASSUME NEW c \in Callers, FastRaise(c) PROVE Typed'
    <3>1. result' \in [Callers -> Results]
      BY <2>5, EndsWithType DEF FastRaise, Raised
    <3>2. QED BY <2>5, <3>1 DEF FastRaise
  <2>6. ASSUME NEW c \in Callers, Acquire(c) PROVE Typed'
    BY <2>6 DEF Acquire
  <2>7. ASSUME NEW c \in Callers, LockedHit(c) PROVE Typed'
    <3>1. PICK k \in Hits(url[c]) : EndsWith(c, Success, entries[k].token, k)
      BY <2>7 DEF LockedHit
    <3>2. k \in DOMAIN entries /\ k \in Urls /\ entries[k].token \in Nat
      BY EnvironmentUrls DEF Hits, Held, Match, Covering, Entries
    <3>3. result' \in [Callers -> Results]
      BY <3>1, <3>2, EndsWithType
    <3>4. QED BY <2>7, <3>3 DEF LockedHit
  <2>8. ASSUME NEW c \in Callers, LockedRaise(c) PROVE Typed'
    <3>1. result' \in [Callers -> Results]
      BY <2>8, EndsWithType DEF LockedRaise, Raised
    <3>2. QED BY <2>8, <3>1 DEF LockedRaise
  <2>9. ASSUME NEW c \in Callers, StartMint(c) PROVE Typed'
    <3>1. Held(url[c]) \in SUBSET Urls
      BY EnvironmentUrls DEF Held, Match, Covering
    <3>2. QED BY <2>9, <3>1, LimitAssumption DEF StartMint
  <2>10. ASSUME NEW c \in Callers, NEW e \in Raised, MintRaises(c, e) PROVE Typed'
    <3>1. result' \in [Callers -> Results]
      BY <2>10, EndsWithType DEF MintRaises
    <3>2. QED BY <2>10, <3>1 DEF MintRaises
  <2>11. ASSUME NEW c \in Callers, RetryPost(c) PROVE Typed'
    BY <2>11, LimitAssumption DEF RetryPost
  <2>12. ASSUME NEW c \in Callers, NEW o \in FailureOutcomes, MintFails(c, o) PROVE Typed'
    <3>0. mints + 1 \in Nat /\ EndsWith(c, o, mints + 1, NoUrl)
      BY <2>12 DEF MintFails
    <3>1. result' \in [Callers -> Results]
      BY <3>0, EndsWithType
    <3>2. DOMAIN entries' \subseteq Environments /\ entries' \in [DOMAIN entries' -> Entries]
      BY <2>12, WithoutType DEF MintFails
    <3>3. mints' \in Nat
      BY <2>12 DEF MintFails
    <3>4. QED BY <2>12, <3>1, <3>2, <3>3 DEF MintFails
  <2>13. ASSUME NEW c \in Callers, PostIsLost(c) PROVE Typed'
    BY <2>13, <2>12 DEF PostIsLost, FailureOutcomes
  <2>14. ASSUME NEW c \in Callers, NEW a \in Answers, IntakeRefuses(c, a) PROVE Typed'
    BY <2>14, <2>12, OutcomeType DEF IntakeRefuses
  <2>15. ASSUME NEW c \in Callers, NEW a \in Answers, NEW k \in Urls, NEW t \in Lifetimes,
                IntakeMints(c, a, k, t)
         PROVE Typed'
    <3>0. mints + 1 \in Nat /\ EndsWith(c, Success, mints + 1, k)
      BY <2>15 DEF IntakeMints
    <3>1. result' \in [Callers -> Results]
      BY <3>0, EndsWithType
    <3>2. [token |-> mints + 1, expires |-> ParseExpiry(t)] \in Entries
      BY ExpiryType DEF Entries
    <3>3. DOMAIN entries' \subseteq Environments /\ entries' \in [DOMAIN entries' -> Entries]
      BY <2>15, <3>2 DEF IntakeMints, Stored, Environments
    <3>4. mints' \in Nat
      BY <2>15 DEF IntakeMints
    <3>5. QED BY <2>15, <3>1, <3>3, <3>4 DEF IntakeMints
  <2>16. ASSUME NEW c \in Callers, RecordFailure(c) PROVE Typed'
    <3>1. DOMAIN failures' \subseteq Urls /\ failures' \in [DOMAIN failures' -> Failures]
      BY <2>16, RecordedType DEF RecordFailure
    <3>2. QED BY <2>16, <3>1 DEF RecordFailure
  <2>17. ASSUME NEW c \in Callers, ForgetFailures(c) PROVE Typed'
    <3>1. DOMAIN failures' \subseteq Urls /\ failures' \in [DOMAIN failures' -> Failures]
      BY <2>17 DEF ForgetFailures, Forgotten
    <3>2. QED BY <2>17, <3>1 DEF ForgetFailures
  <2>18. ASSUME NEW c \in Callers, Return(c) PROVE Typed'
    <3>1. Header(result[c]) \in Replies
      BY HeaderType
    <3>2. reply' \in [Callers -> Replies] /\ url' \in [Callers -> Urls \cup {NoUrl}]
      BY <2>18, <3>1 DEF Return
    <3>3. matched' \in [Callers -> SUBSET Urls] /\ attempt' \in [Callers -> 0..Attempts]
      BY <2>18, LimitAssumption DEF Return
    <3>4. pc' \in [Callers -> Places] /\ HasUrl'
      BY <2>18 DEF Return
    <3>5. QED BY <2>18, <3>2, <3>3, <3>4 DEF Return
  <2>19. ASSUME NEW c \in Callers, Invalidate(c) PROVE Typed'
    <3>1. DOMAIN entries' \subseteq Environments /\ entries' \in [DOMAIN entries' -> Entries]
      BY <2>19, WithoutType DEF Invalidate
    <3>2. QED BY <2>19, <3>1, NoResultType DEF Invalidate
  <2>20. ASSUME NEW c \in Callers, ClearEntries(c) PROVE Typed'
    BY <2>20 DEF ClearEntries
  <2>21. ASSUME NEW c \in Callers, ClearFailures(c) PROVE Typed'
    BY <2>21 DEF ClearFailures
  <2>22. CASE Tick
    BY <2>22 DEF Tick
  <2>23. CASE UNCHANGED vars
    BY <2>23 DEF vars
  <2>24. QED
    BY <2>1, <2>2, <2>3, <2>4, <2>5, <2>6, <2>7, <2>8, <2>9, <2>10, <2>11, <2>13, <2>14,
       <2>15, <2>16, <2>17, <2>18, <2>19, <2>20, <2>21, <2>22, <2>23
    DEF Next, Step
<1>3. QED BY <1>1, <1>2, PTL DEF Spec

(* Type correctness: every variable keeps its type, whatever the constants. *)
THEOREM TypeCorrect == Spec => []TypeOK
BY TypedInvariant, PTL DEF Typed

-----------------------------------------------------------------------------
(* The lock: a thread is in a critical section exactly while it holds it.    *)
LockHeld == \A c \in Callers : pc[c] \in Locked <=> lock = c

(* Being in the critical section and holding the lock are the same. *)
LEMMA LockInvariant == Spec => []LockHeld
<1>1. Init => LockHeld
  BY CallerAssumption DEF Init, LockHeld, Locked
<1>2. Typed /\ LockHeld /\ [Next]_vars => LockHeld'
  <2> SUFFICES ASSUME Typed, LockHeld, [Next]_vars PROVE LockHeld'
    OBVIOUS
  <2> USE CallerAssumption DEF Typed, TypeOK, LockHeld, Locked, Goto, Release
  <2>1. ASSUME NEW c \in Callers, NEW u \in Urls, Call(c, u) PROVE LockHeld'
    BY <2>1 DEF Call
  <2>2. ASSUME NEW c \in Callers,
               CallUnusableUrl(c) \/ FastHit(c) \/ FastMiss(c) \/ FastRaise(c)
        PROVE LockHeld'
    BY <2>2 DEF CallUnusableUrl, FastHit, FastMiss, FastRaise
  <2>3. ASSUME NEW c \in Callers, Acquire(c) \/ LockedHit(c) \/ LockedRaise(c) \/ StartMint(c)
        PROVE LockHeld'
    BY <2>3 DEF Acquire, LockedHit, LockedRaise, StartMint
  <2>4. ASSUME NEW c \in Callers, NEW e \in Raised, MintRaises(c, e) PROVE LockHeld'
    BY <2>4 DEF MintRaises
  <2>5. ASSUME NEW c \in Callers, NEW o, MintFails(c, o) PROVE LockHeld'
    BY <2>5 DEF MintFails
  <2>6. ASSUME NEW c \in Callers, RetryPost(c) \/ PostIsLost(c) PROVE LockHeld'
    BY <2>5, <2>6 DEF RetryPost, PostIsLost
  <2>7. ASSUME NEW c \in Callers, NEW a \in Answers, IntakeRefuses(c, a) PROVE LockHeld'
    BY <2>5, <2>7 DEF IntakeRefuses
  <2>8. ASSUME NEW c \in Callers, NEW a \in Answers, NEW k \in Urls, NEW t \in Lifetimes,
               IntakeMints(c, a, k, t)
        PROVE LockHeld'
    BY <2>8 DEF IntakeMints
  <2>9. ASSUME NEW c \in Callers, RecordFailure(c) \/ ForgetFailures(c) \/ Return(c)
        PROVE LockHeld'
    BY <2>9 DEF RecordFailure, ForgetFailures, Return
  <2>10. ASSUME NEW c \in Callers, Invalidate(c) \/ ClearEntries(c) \/ ClearFailures(c)
         PROVE LockHeld'
    BY <2>10 DEF Invalidate, ClearEntries, ClearFailures
  <2>11. CASE Tick \/ UNCHANGED vars
    BY <2>11 DEF Tick, vars
  <2>12. QED
    BY <2>1, <2>2, <2>3, <2>4, <2>6, <2>7, <2>8, <2>9, <2>10, <2>11 DEF Next, Step
<1>3. QED BY <1>1, <1>2, TypedInvariant, PTL DEF Spec

-----------------------------------------------------------------------------
(* Waiting callers share a mint.  Only the holder of the lock changes        *)
(* _entries, so what the second look found stays true through the request;   *)
(* the clock can only take more tokens out of use.                           *)
LEMMA HitsUnchanged ==
  ASSUME UNCHANGED <<entries, now>>, NEW d \in Callers, url'[d] = url[d]
  PROVE  Hits(url[d])' = Hits(url[d])
BY DEF Hits, Held, Usable, Comparable

(* As time passes tokens only go out of use. *)
LEMMA HitsShrink ==
  ASSUME TypeOK, Tick, NEW d \in Callers
  PROVE  Hits(url[d])' \subseteq Hits(url[d])
<1>1. Held(url[d])' = Held(url[d])
  BY DEF Tick, Held
<1>2. ASSUME NEW k \in DOMAIN entries, Usable(entries[k])' PROVE Usable(entries[k])
  BY <1>2, TimeAssumption DEF Tick, Usable, Comparable, TypeOK, Entries
<1>3. Held(url[d]) \subseteq DOMAIN entries
  BY DEF Held, Match, Covering
<1>4. QED BY <1>1, <1>2, <1>3 DEF Tick, Hits

(* token_result mints only while nothing usable covers its URL, however many
   callers missed at once: who waited for the lock looks again under it. *)
THEOREM OneMintAtATime == Spec => []MintOnlyWhenSpent
<1>1. Init => MintOnlyWhenSpent
  BY DEF Init, MintOnlyWhenSpent
<1>2. Typed /\ LockHeld /\ MintOnlyWhenSpent /\ [Next]_vars => MintOnlyWhenSpent'
  <2> SUFFICES ASSUME Typed, LockHeld, MintOnlyWhenSpent, [Next]_vars,
                      NEW d \in Callers, pc'[d] = "minting"
               PROVE  Hits(url[d])' = {}
    BY DEF MintOnlyWhenSpent
  <2> USE DEF Typed, TypeOK, Goto
  <2>0. ASSUME UNCHANGED <<entries, now>>, pc[d] = "minting", url'[d] = url[d]
        PROVE  Hits(url[d])' = {}
    BY <2>0, HitsUnchanged DEF MintOnlyWhenSpent
  <2>1. ASSUME NEW c \in Callers, NEW u \in Urls, Call(c, u) PROVE Hits(url[d])' = {}
    BY <2>0, <2>1 DEF Call
  <2>2. ASSUME NEW c \in Callers,
               CallUnusableUrl(c) \/ FastHit(c) \/ FastMiss(c) \/ FastRaise(c)
        PROVE Hits(url[d])' = {}
    BY <2>0, <2>2 DEF CallUnusableUrl, FastHit, FastMiss, FastRaise
  <2>3. ASSUME NEW c \in Callers, Acquire(c) \/ LockedHit(c) \/ LockedRaise(c)
        PROVE Hits(url[d])' = {}
    BY <2>0, <2>3 DEF Acquire, LockedHit, LockedRaise
  <2>4. ASSUME NEW c \in Callers, StartMint(c) PROVE Hits(url[d])' = {}
    <3>1. CASE d = c
      BY <2>4, <3>1, HitsUnchanged DEF StartMint
    <3>2. CASE d # c
      BY <2>0, <2>4, <3>2 DEF StartMint
    <3>3. QED BY <3>1, <3>2
  <2>5. ASSUME NEW c \in Callers, NEW e \in Raised, MintRaises(c, e) PROVE Hits(url[d])' = {}
    BY <2>0, <2>5 DEF MintRaises
  <2>6. ASSUME NEW c \in Callers, NEW o, MintFails(c, o) PROVE Hits(url[d])' = {}
    BY <2>6 DEF MintFails, LockHeld, Locked
  <2>7. ASSUME NEW c \in Callers, RetryPost(c) \/ PostIsLost(c) PROVE Hits(url[d])' = {}
    BY <2>0, <2>6, <2>7 DEF RetryPost, PostIsLost
  <2>8. ASSUME NEW c \in Callers, NEW a \in Answers, IntakeRefuses(c, a)
        PROVE Hits(url[d])' = {}
    BY <2>6, <2>8 DEF IntakeRefuses
  <2>9. ASSUME NEW c \in Callers, NEW a \in Answers, NEW k \in Urls, NEW t \in Lifetimes,
               IntakeMints(c, a, k, t)
        PROVE Hits(url[d])' = {}
    BY <2>9 DEF IntakeMints, LockHeld, Locked
  <2>10. ASSUME NEW c \in Callers, RecordFailure(c) \/ ForgetFailures(c) \/ Return(c)
         PROVE Hits(url[d])' = {}
    BY <2>0, <2>10 DEF RecordFailure, ForgetFailures, Return
  <2>11. ASSUME NEW c \in Callers, Invalidate(c) PROVE Hits(url[d])' = {}
    BY <2>11, CallerAssumption DEF Invalidate, LockHeld, Locked
  <2>12. ASSUME NEW c \in Callers, ClearEntries(c) PROVE Hits(url[d])' = {}
    BY <2>12, CallerAssumption DEF ClearEntries, LockHeld, Locked
  <2>13. ASSUME NEW c \in Callers, ClearFailures(c) PROVE Hits(url[d])' = {}
    BY <2>0, <2>13 DEF ClearFailures
  <2>14. CASE Tick
    BY <2>14, HitsShrink DEF Tick, MintOnlyWhenSpent
  <2>15. CASE UNCHANGED vars
    BY <2>0, <2>15 DEF vars
  <2>16. QED
    BY <2>1, <2>2, <2>3, <2>4, <2>5, <2>7, <2>8, <2>9, <2>10, <2>11, <2>12, <2>13, <2>14, <2>15
    DEF Next, Step
<1>3. QED BY <1>1, <1>2, TypedInvariant, LockInvariant, PTL DEF Spec

-----------------------------------------------------------------------------
(* Failures against tokens.  FailureNewerThanToken is not inductive: that a  *)
(* new record is newer than every token rests on tokens being numbered by    *)
(* the mints that have ended, and on nobody ending another one between a     *)
(* failed mint and its record.                                               *)
Numbered ==
  /\ \A k \in DOMAIN entries : entries[k].token <= mints
  /\ \A c \in Callers : pc[c] = "recording" =>
       \A k \in DOMAIN entries : entries[k].token < result[c].mint

NewerInv == Numbered /\ FailureNewerThanToken

(* Steps that leave both maps, the lock and the numbers alone. *)
LEMMA NewerFrame ==
  ASSUME Typed, NewerInv, NEW c \in Callers,
         UNCHANGED <<entries, failures, mints>>, lock' \in {lock, c, Nobody},
         \A d \in Callers \ {c} : pc'[d] = pc[d] /\ result'[d] = result[d],
         pc[c] # "forgetting", lock # Nobody => lock = c \/ lock' = lock,
         pc'[c] = "recording" => pc[c] = "recording" /\ result'[c] = result[c]
  PROVE  NewerInv'
<1>1. Numbered'
  BY DEF NewerInv, Numbered
<1>2. FailureNewerThanToken'
  BY CallerAssumption DEF NewerInv, FailureNewerThanToken, Typed, TypeOK
<1>3. QED BY <1>1, <1>2 DEF NewerInv

(* A failure on record is newer than any token held that covers its URL: the
   two rebindings of token_result never leave last_failure an old reason. *)
THEOREM FailuresAreNews == Spec => []FailureNewerThanToken
<1>1. Init => NewerInv
  BY DEF Init, NewerInv, Numbered, FailureNewerThanToken
<1>2. Typed /\ LockHeld /\ NewerInv /\ [Next]_vars => NewerInv'
  <2> SUFFICES ASSUME Typed, LockHeld, NewerInv, [Next]_vars PROVE NewerInv'
    OBVIOUS
  <2> USE CallerAssumption DEF Goto, Release
  <2>1. ASSUME NEW c \in Callers, NEW u \in Urls, Call(c, u) PROVE NewerInv'
    BY <2>1, NewerFrame DEF Call, Typed, TypeOK
  <2>2. ASSUME NEW c \in Callers,
               CallUnusableUrl(c) \/ FastHit(c) \/ FastMiss(c) \/ FastRaise(c)
        PROVE NewerInv'
    BY <2>2, NewerFrame DEF CallUnusableUrl, FastHit, FastMiss, FastRaise, EndsWith, Typed, TypeOK
  <2>3. ASSUME NEW c \in Callers, Acquire(c) \/ LockedHit(c) \/ LockedRaise(c) \/ StartMint(c)
        PROVE NewerInv'
    BY <2>3, NewerFrame
    DEF Acquire, LockedHit, LockedRaise, StartMint, EndsWith, Typed, TypeOK, LockHeld, Locked
  <2>4. ASSUME NEW c \in Callers, NEW e \in Raised, MintRaises(c, e) PROVE NewerInv'
    BY <2>4, NewerFrame DEF MintRaises, EndsWith, Typed, TypeOK, LockHeld, Locked
  <2>5. ASSUME NEW c \in Callers, NEW o, MintFails(c, o) PROVE NewerInv'
    <3>1. lock = c /\ \A d \in Callers : pc'[d] = "recording" => d = c
      BY <2>5 DEF MintFails, LockHeld, Locked, Typed, TypeOK
    <3>2. \A k \in DOMAIN entries' : k \in DOMAIN entries /\ entries'[k] = entries[k]
      BY <2>5 DEF MintFails, Without
    <3>3. mints' = mints + 1 /\ result'[c].mint = mints + 1
      BY <2>5 DEF MintFails, EndsWith, Typed, TypeOK
    <3>4. Numbered'
      BY <3>1, <3>2, <3>3 DEF NewerInv, Numbered, Typed, TypeOK, Entries
    <3>5. FailureNewerThanToken'
      BY <2>5, <3>1, <3>2 DEF MintFails, NewerInv, FailureNewerThanToken
    <3>6. QED BY <3>4, <3>5 DEF NewerInv
  <2>6. ASSUME NEW c \in Callers, RetryPost(c) PROVE NewerInv'
    BY <2>6, NewerFrame DEF RetryPost, Typed, TypeOK
  <2>7. ASSUME NEW c \in Callers, PostIsLost(c) PROVE NewerInv'
    BY <2>5, <2>7 DEF PostIsLost
  <2>8. ASSUME NEW c \in Callers, NEW a \in Answers, IntakeRefuses(c, a) PROVE NewerInv'
    BY <2>5, <2>8 DEF IntakeRefuses
  <2>9. ASSUME NEW c \in Callers, NEW a \in Answers, NEW k \in Urls, NEW t \in Lifetimes,
               IntakeMints(c, a, k, t)
        PROVE NewerInv'
    <3>1. lock = c /\ lock' = c /\ pc[c] = "minting" /\ pc'[c] = "forgetting"
          /\ \A d \in Callers : pc'[d] # "recording"
      BY <2>9 DEF IntakeMints, LockHeld, Locked, Typed, TypeOK
    <3>2. result'[c].key = k /\ mints' = mints + 1 /\ failures' = failures
      BY <2>9 DEF IntakeMints, EndsWith, Typed, TypeOK
    <3>3. \A j \in DOMAIN entries' :
            \/ j = k /\ entries'[j].token = mints + 1
            \/ j # k /\ j \in DOMAIN entries /\ entries'[j] = entries[j]
      BY <2>9 DEF IntakeMints, Stored
    <3>4. Numbered'
      BY <3>1, <3>2, <3>3 DEF NewerInv, Numbered, Typed, TypeOK, Entries
    <3>5. FailureNewerThanToken'
      BY <3>1, <3>2, <3>3 DEF NewerInv, FailureNewerThanToken
    <3>6. QED BY <3>4, <3>5 DEF NewerInv
  <2>10. ASSUME NEW c \in Callers, RecordFailure(c) PROVE NewerInv'
    <3>1. lock = c /\ pc[c] = "recording"
      BY <2>10 DEF RecordFailure, LockHeld, Locked
    <3>2. \A v \in DOMAIN failures' :
            \/ failures'[v].result = result[c]
            \/ v \in DOMAIN failures /\ failures'[v].result = failures[v].result
      BY <2>10 DEF RecordFailure, Recorded, Trimmed
    <3>3. \A d \in Callers : pc'[d] # "recording"
      BY <2>10, <3>1 DEF RecordFailure, LockHeld, Locked, Typed, TypeOK
    <3>4. Numbered'
      BY <2>10, <3>3 DEF RecordFailure, NewerInv, Numbered
    <3>5. FailureNewerThanToken'
      BY <2>10, <3>1, <3>2 DEF RecordFailure, NewerInv, Numbered, FailureNewerThanToken
    <3>6. QED BY <3>4, <3>5 DEF NewerInv
  <2>11. ASSUME NEW c \in Callers, ForgetFailures(c) PROVE NewerInv'
    <3>1. lock = c /\ pc[c] = "forgetting" /\ \A d \in Callers : pc'[d] # "recording"
      BY <2>11 DEF ForgetFailures, LockHeld, Locked, Typed, TypeOK
    <3>2. \A v \in DOMAIN failures' :
            v \in DOMAIN failures /\ ~Covers(result[c].key, v) /\ failures'[v] = failures[v]
      BY <2>11 DEF ForgetFailures, Forgotten
    <3>3. Numbered'
      BY <2>11, <3>1 DEF ForgetFailures, NewerInv, Numbered
    <3>4. FailureNewerThanToken'
      BY <2>11, <3>1, <3>2 DEF ForgetFailures, NewerInv, FailureNewerThanToken
    <3>5. QED BY <3>3, <3>4 DEF NewerInv
  <2>12. ASSUME NEW c \in Callers, Return(c) PROVE NewerInv'
    BY <2>12, NewerFrame DEF Return, Typed, TypeOK
  <2>13. ASSUME NEW c \in Callers, Invalidate(c) PROVE NewerInv'
    <3>1. \A k \in DOMAIN entries' : k \in DOMAIN entries /\ entries'[k] = entries[k]
      BY <2>13 DEF Invalidate, Without
    <3>2. QED BY <2>13, <3>1 DEF Invalidate, NewerInv, Numbered, FailureNewerThanToken
  <2>14. ASSUME NEW c \in Callers, ClearEntries(c) PROVE NewerInv'
    <3>1. DOMAIN entries' = {}
      BY <2>14 DEF ClearEntries
    <3>2. QED BY <3>1 DEF NewerInv, Numbered, FailureNewerThanToken
  <2>15. ASSUME NEW c \in Callers, ClearFailures(c) PROVE NewerInv'
    <3>1. DOMAIN failures' = {}
      BY <2>15 DEF ClearFailures
    <3>2. \A d \in Callers : pc'[d] = "recording" => pc[d] = "recording"
      BY <2>15 DEF ClearFailures, Typed, TypeOK
    <3>3. QED BY <2>15, <3>1, <3>2 DEF ClearFailures, NewerInv, Numbered, FailureNewerThanToken
  <2>16. CASE Tick \/ UNCHANGED vars
    BY <2>16 DEF Tick, vars, NewerInv, Numbered, FailureNewerThanToken
  <2>17. QED
    BY <2>1, <2>2, <2>3, <2>4, <2>6, <2>7, <2>8, <2>9, <2>10, <2>11, <2>12, <2>13, <2>14,
       <2>15, <2>16
    DEF Next, Step
<1>3. Spec => []NewerInv
  BY <1>1, <1>2, TypedInvariant, LockInvariant, PTL DEF Spec
<1>4. QED BY <1>3, PTL DEF NewerInv

-----------------------------------------------------------------------------
(* The bound on the failure map. *)

(* If no two members of S have one rank, and every member of K has fewer      *)
(* than cap of S above it, K has at most cap members: the lowest of them,    *)
(* which is there because < is well-founded, and those above it.             *)
LEMMA FewAbove ==
  ASSUME NEW S, IsFiniteSet(S), NEW rank \in [S -> Nat], NEW cap \in Nat,
         \A u, v \in S : rank[u] = rank[v] => u = v,
         NEW K \in SUBSET S,
         \A v \in K : Cardinality({w \in S : rank[w] > rank[v]}) < cap
  PROVE  IsFiniteSet(K) /\ Cardinality(K) <= cap
<1>1. IsFiniteSet(K)
  BY FS_Subset
<1>2. CASE K = {}
  BY <1>1, <1>2, FS_EmptySet
<1>3. CASE K # {}
  <2> DEFINE ranks == {rank[v] : v \in K}
  <2>1. ranks \in SUBSET Nat /\ ranks # {}
    BY <1>3
  <2>2. PICK u \in K : \A v \in K : rank[u] <= rank[v]
    <3>1. PICK x \in ranks : \A y \in ranks : ~(<<y, x>> \in OpToRel(<, Nat))
      <4> HIDE DEF ranks
      <4>1. QED BY <2>1, NatLessThanWellFounded, WFMin
    <3>2. x \in Nat /\ \A y \in ranks : y \in Nat /\ ~(y < x)
      BY <2>1, <3>1 DEF OpToRel
    <3>3. QED BY <3>2
  <2> DEFINE above == {w \in S : rank[w] > rank[u]}
  <2>3. K \subseteq above \cup {u} /\ u \notin above /\ IsFiniteSet(above) /\ Cardinality(above) < cap
    BY <2>2, FS_Subset
  <2> HIDE DEF above
  <2>4. /\ IsFiniteSet(above \cup {u}) /\ Cardinality(above \cup {u}) = Cardinality(above) + 1
        /\ Cardinality(above) \in Nat
    BY <2>3, FS_AddElement, FS_CardinalityType
  <2>5. Cardinality(K) <= Cardinality(above \cup {u}) /\ Cardinality(K) \in Nat
    BY <1>1, <2>3, <2>4, FS_Subset, FS_CardinalityType
  <2>6. QED BY <1>1, <2>3, <2>4, <2>5
<1>4. QED BY <1>2, <1>3

Distinct(f) == \A u, v \in DOMAIN f : f[u].first = f[v].first => u = v

(* However many records a map holds, no more than the cap stay. *)
LEMMA TrimmedBounded ==
  ASSUME NEW f, f \in [DOMAIN f -> Failures], IsFiniteSet(DOMAIN f), Distinct(f)
  PROVE  /\ IsFiniteSet(DOMAIN Trimmed(f))
         /\ Cardinality(DOMAIN Trimmed(f)) <= FailureCap
<1> DEFINE K == DOMAIN Trimmed(f)
           first == [v \in DOMAIN f |-> f[v].first]
<1>1. first \in [DOMAIN f -> Nat] /\ \A u, v \in DOMAIN f : first[u] = first[v] => u = v
  BY DEF Failures, Distinct
<1>2. ASSUME NEW v \in DOMAIN f
      PROVE  Newer(f, v) = {w \in DOMAIN f : first[w] > first[v]}
  BY DEF Newer
<1>3. K \in SUBSET DOMAIN f /\ \A v \in K : Cardinality(Newer(f, v)) < FailureCap
  BY DEF Trimmed
<1>4. \A v \in K : Cardinality({w \in DOMAIN f : first[w] > first[v]}) < FailureCap
  BY <1>2, <1>3
<1>5. FailureCap \in Nat
  BY LimitAssumption
<1> HIDE DEF K, first
<1>6. IsFiniteSet(K) /\ Cardinality(K) <= FailureCap
  BY <1>1, <1>3, <1>4, <1>5, FewAbove
<1>7. QED BY <1>6 DEF K

(* The places in the dict are distinct because a place is the number of the  *)
(* mint that took it.                                                        *)
Placed ==
  /\ IsFiniteSet(DOMAIN failures)
  /\ Distinct(failures)
  /\ \A u \in DOMAIN failures : failures[u].first <= mints
  /\ \A c \in Callers : pc[c] = "recording" =>
       /\ result[c].mint <= mints
       /\ \A u \in DOMAIN failures : failures[u].first < result[c].mint

BoundInv == Placed /\ FailuresBounded

(* Steps that leave the failure map alone keep what is known of it. *)
LEMMA BoundFrame ==
  ASSUME Typed, BoundInv, NEW c \in Callers,
         UNCHANGED <<failures, mints>>,
         \A d \in Callers \ {c} : pc'[d] = pc[d] /\ result'[d] = result[d],
         pc'[c] = "recording" => pc[c] = "recording" /\ result'[c] = result[c]
  PROVE  BoundInv'
BY DEF BoundInv, Placed, FailuresBounded, Distinct

(* So does dropping records from it. *)
LEMMA FewerFailures ==
  ASSUME BoundInv, DOMAIN failures' \subseteq DOMAIN failures,
         \A u \in DOMAIN failures' : failures'[u] = failures[u]
  PROVE  /\ FailuresBounded' /\ IsFiniteSet(DOMAIN failures') /\ Distinct(failures')
         /\ \A u \in DOMAIN failures' : failures'[u].first <= mints
<1>1. IsFiniteSet(DOMAIN failures') /\ Cardinality(DOMAIN failures') <= Cardinality(DOMAIN failures)
  BY FS_Subset DEF BoundInv, Placed
<1>2. Cardinality(DOMAIN failures) \in Nat /\ Cardinality(DOMAIN failures') \in Nat
  BY <1>1, FS_CardinalityType DEF BoundInv, Placed
<1>3. QED BY <1>1, <1>2, LimitAssumption DEF BoundInv, Placed, FailuresBounded, Distinct

(* _record_failure keeps the failure map within its cap, whatever the URLs and
   the order of failures and successes. *)
THEOREM FailureMapBounded == Spec => []FailuresBounded
<1>1. Init => BoundInv
  BY FS_EmptySet, LimitAssumption DEF Init, BoundInv, Placed, FailuresBounded, Distinct
<1>2. Typed /\ LockHeld /\ BoundInv /\ [Next]_vars => BoundInv'
  <2> SUFFICES ASSUME Typed, LockHeld, BoundInv, [Next]_vars PROVE BoundInv'
    OBVIOUS
  <2> USE CallerAssumption DEF Goto, Release
  <2>1. ASSUME NEW c \in Callers, NEW u \in Urls, Call(c, u) PROVE BoundInv'
    BY <2>1, BoundFrame DEF Call, Typed, TypeOK
  <2>2. ASSUME NEW c \in Callers,
               CallUnusableUrl(c) \/ FastHit(c) \/ FastMiss(c) \/ FastRaise(c)
        PROVE BoundInv'
    BY <2>2, BoundFrame DEF CallUnusableUrl, FastHit, FastMiss, FastRaise, EndsWith, Typed, TypeOK
  <2>3. ASSUME NEW c \in Callers, Acquire(c) \/ LockedHit(c) \/ LockedRaise(c) \/ StartMint(c)
        PROVE BoundInv'
    BY <2>3, BoundFrame DEF Acquire, LockedHit, LockedRaise, StartMint, EndsWith, Typed, TypeOK
  <2>4. ASSUME NEW c \in Callers, NEW e \in Raised, MintRaises(c, e) PROVE BoundInv'
    BY <2>4, BoundFrame DEF MintRaises, EndsWith, Typed, TypeOK
  <2>5. ASSUME NEW c \in Callers, NEW o, MintFails(c, o) PROVE BoundInv'
    <3>1. \A d \in Callers : pc'[d] = "recording" => d = c
      BY <2>5 DEF MintFails, LockHeld, Locked, Typed, TypeOK
    <3>2. failures' = failures /\ mints' = mints + 1 /\ result'[c].mint = mints + 1
      BY <2>5 DEF MintFails, EndsWith, Typed, TypeOK
    <3>3. Placed'
      BY <3>1, <3>2 DEF BoundInv, Placed, Distinct, Typed, TypeOK, Failures
    <3>4. QED BY <3>2, <3>3 DEF BoundInv, FailuresBounded
  <2>6. ASSUME NEW c \in Callers, RetryPost(c) PROVE BoundInv'
    BY <2>6, BoundFrame DEF RetryPost, Typed, TypeOK
  <2>7. ASSUME NEW c \in Callers, PostIsLost(c) PROVE BoundInv'
    BY <2>5, <2>7 DEF PostIsLost
  <2>8. ASSUME NEW c \in Callers, NEW a \in Answers, IntakeRefuses(c, a) PROVE BoundInv'
    BY <2>5, <2>8 DEF IntakeRefuses
  <2>9. ASSUME NEW c \in Callers, NEW a \in Answers, NEW k \in Urls, NEW t \in Lifetimes,
               IntakeMints(c, a, k, t)
        PROVE BoundInv'
    <3>1. \A d \in Callers : pc'[d] # "recording"
      BY <2>9 DEF IntakeMints, LockHeld, Locked, Typed, TypeOK
    <3>2. failures' = failures /\ mints' = mints + 1
      BY <2>9 DEF IntakeMints
    <3>3. Placed'
      BY <3>1, <3>2 DEF BoundInv, Placed, Distinct, Typed, TypeOK, Failures
    <3>4. QED BY <3>2, <3>3 DEF BoundInv, FailuresBounded
  <2>10. ASSUME NEW c \in Callers, RecordFailure(c) PROVE BoundInv'
    <3> DEFINE u == url[c]
               r == result[c]
               g == [v \in DOMAIN failures \cup {u} |->
                       IF v = u
                       THEN [result |-> r,
                             first |-> IF u \in DOMAIN failures THEN failures[u].first ELSE r.mint]
                       ELSE failures[v]]
    <3>1. pc[c] = "recording" /\ u \in Urls /\ r \in Results /\ mints' = mints
      BY <2>10 DEF RecordFailure, Typed, TypeOK, HasUrl, UnderWay
    <3>2. failures' = Trimmed(g)
      BY <2>10 DEF RecordFailure, Recorded
    <3>3. DOMAIN g = DOMAIN failures \cup {u} /\ IsFiniteSet(DOMAIN g)
      BY FS_AddElement DEF BoundInv, Placed
    <3>4. g \in [DOMAIN g -> Failures]
      BY <3>1 DEF Typed, TypeOK, Failures, Results
    <3>5. \A v \in DOMAIN g :
            \/ v \in DOMAIN failures /\ g[v].first = failures[v].first
            \/ v = u /\ u \notin DOMAIN failures /\ g[v].first = r.mint
      OBVIOUS
    <3>6. \A v \in DOMAIN failures : failures[v].first < r.mint
      BY <3>1 DEF BoundInv, Placed
    <3>a. /\ r.mint \in Nat /\ r.mint <= mints
          /\ Distinct(failures) /\ \A v \in DOMAIN failures : failures[v].first <= mints
      BY <3>1 DEF BoundInv, Placed, Results
    <3>b. mints \in Nat /\ \A v \in DOMAIN failures : failures[v].first \in Nat
      BY DEF Typed, TypeOK, Failures
    <3> HIDE DEF g, u, r
    <3>7. Distinct(g) /\ \A v \in DOMAIN g : g[v].first <= mints
      BY <3>3, <3>5, <3>6, <3>a, <3>b DEF Distinct
    <3>8. FailuresBounded' /\ IsFiniteSet(DOMAIN failures')
      BY <3>2, <3>3, <3>4, <3>7, TrimmedBounded DEF FailuresBounded
    <3>9. DOMAIN failures' \subseteq DOMAIN g /\ \A v \in DOMAIN failures' : failures'[v] = g[v]
      BY <3>2 DEF Trimmed
    <3>10. \A d \in Callers : pc'[d] # "recording"
      BY <2>10 DEF RecordFailure, LockHeld, Locked, Typed, TypeOK
    <3>11. Placed'
      BY <3>1, <3>7, <3>8, <3>9, <3>10 DEF Placed, Distinct
    <3>12. QED BY <3>8, <3>11 DEF BoundInv
  <2>11. ASSUME NEW c \in Callers, ForgetFailures(c) PROVE BoundInv'
    <3>1. DOMAIN failures' \subseteq DOMAIN failures
          /\ \A u \in DOMAIN failures' : failures'[u] = failures[u]
      BY <2>11 DEF ForgetFailures, Forgotten
    <3>2. \A d \in Callers : pc'[d] # "recording"
      BY <2>11 DEF ForgetFailures, LockHeld, Locked, Typed, TypeOK
    <3>3. QED BY <2>11, <3>1, <3>2, FewerFailures DEF ForgetFailures, BoundInv, Placed
  <2>12. ASSUME NEW c \in Callers, Return(c) PROVE BoundInv'
    BY <2>12, BoundFrame DEF Return, Typed, TypeOK
  <2>13. ASSUME NEW c \in Callers, Invalidate(c) PROVE BoundInv'
    BY <2>13, BoundFrame DEF Invalidate, Typed, TypeOK
  <2>14. ASSUME NEW c \in Callers, ClearEntries(c) PROVE BoundInv'
    BY <2>14, BoundFrame DEF ClearEntries, Typed, TypeOK
  <2>15. ASSUME NEW c \in Callers, ClearFailures(c) PROVE BoundInv'
    <3>1. DOMAIN failures' \subseteq DOMAIN failures
          /\ \A u \in DOMAIN failures' : failures'[u] = failures[u]
      BY <2>15 DEF ClearFailures
    <3>2. \A d \in Callers : pc'[d] # "recording"
      BY <2>15 DEF ClearFailures, LockHeld, Locked, Typed, TypeOK
    <3>3. QED BY <2>15, <3>1, <3>2, FewerFailures DEF ClearFailures, BoundInv, Placed
  <2>16. CASE Tick \/ UNCHANGED vars
    BY <2>16 DEF Tick, vars, BoundInv, Placed, FailuresBounded
  <2>17. QED
    BY <2>1, <2>2, <2>3, <2>4, <2>6, <2>7, <2>8, <2>9, <2>10, <2>11, <2>12, <2>13, <2>14,
       <2>15, <2>16
    DEF Next, Step
<1>3. Spec => []BoundInv
  BY <1>1, <1>2, TypedInvariant, LockInvariant, PTL DEF Spec
<1>4. QED BY <1>3, PTL DEF BoundInv

-----------------------------------------------------------------------------
(* The reason raised.  A call that is through its mint holds its own result, *)
(* and keeps it until its next one ends.                                     *)
Owned ==
  /\ \A c \in Callers : pc[c] \in {"recording", "forgetting", "answered"} => result[c].by = c
  /\ \A c \in Callers : reply[c].kind = "unavailable" =>
       /\ pc[c] \in {"idle", "clearing"}
       /\ reply[c].result.by = c /\ reply[c].result = result[c]

(* A step of one caller leaves what the others own alone. *)
LEMMA OwnedFrame ==
  ASSUME Typed, Owned, NEW c \in Callers,
         \A d \in Callers \ {c} : pc'[d] = pc[d] /\ result'[d] = result[d] /\ reply'[d] = reply[d],
         pc'[c] \in {"recording", "forgetting", "answered"} => result'[c].by = c,
         reply'[c].kind = "unavailable" =>
           /\ pc'[c] \in {"idle", "clearing"}
           /\ reply'[c].result.by = c /\ reply'[c].result = result'[c]
  PROVE  Owned'
BY DEF Owned

(* A step on the way to a result, by a caller that has no reply. *)
LEMMA OnTheWay ==
  ASSUME Typed, Owned, NEW c \in Callers, NEW from, NEW to, Goto(c, from, to),
         from \notin {"idle", "clearing"}, reply' = reply,
         \/ \E o, m, k : EndsWith(c, o, m, k)
         \/ result' = result /\ (from \in {"recording", "forgetting"} \/ to \in {"waiting", "locked", "minting"})
  PROVE  Owned'
<1>1. \A d \in Callers \ {c} : pc'[d] = pc[d] /\ result'[d] = result[d] /\ reply'[d] = reply[d]
  BY DEF Goto, EndsWith, Typed, TypeOK
<1>2. pc'[c] \in {"recording", "forgetting", "answered"} => result'[c].by = c
  BY DEF Goto, EndsWith, Typed, TypeOK, Owned
<1>3. reply'[c].kind # "unavailable"
  BY DEF Goto, Owned
<1>4. QED BY <1>1, <1>2, <1>3, OwnedFrame

(* header raises the failure of the mint its own call ran, whatever the others
   recorded under the same URL meanwhile. *)
THEOREM ReasonsAreOwn == Spec => []ReasonIsOwn
<1>1. Init => Owned
  BY DEF Init, Owned, NoReply
<1>2. Typed /\ Owned /\ [Next]_vars => Owned'
  <2> SUFFICES ASSUME Typed, Owned, [Next]_vars PROVE Owned'
    OBVIOUS
  <2>1. ASSUME NEW c \in Callers, NEW u \in Urls, Call(c, u) PROVE Owned'
    BY <2>1, OwnedFrame DEF Call, Goto, NoReply, Typed, TypeOK
  <2>2. ASSUME NEW c \in Callers, CallUnusableUrl(c) PROVE Owned'
    BY <2>2, OwnedFrame DEF CallUnusableUrl, Typed, TypeOK
  <2>3. ASSUME NEW c \in Callers, FastHit(c) \/ FastMiss(c) \/ FastRaise(c) PROVE Owned'
    BY <2>3, OnTheWay DEF FastHit, FastMiss, FastRaise
  <2>4. ASSUME NEW c \in Callers, Acquire(c) \/ LockedHit(c) \/ LockedRaise(c) \/ StartMint(c)
        PROVE Owned'
    BY <2>4, OnTheWay DEF Acquire, LockedHit, LockedRaise, StartMint
  <2>5. ASSUME NEW c \in Callers, NEW e \in Raised, MintRaises(c, e) PROVE Owned'
    BY <2>5, OnTheWay DEF MintRaises
  <2>6. ASSUME NEW c \in Callers, NEW o, MintFails(c, o) PROVE Owned'
    BY <2>6, OnTheWay DEF MintFails
  <2>7. ASSUME NEW c \in Callers, RetryPost(c) PROVE Owned'
    BY <2>7 DEF RetryPost, Owned
  <2>8. ASSUME NEW c \in Callers, PostIsLost(c) PROVE Owned'
    BY <2>6, <2>8 DEF PostIsLost
  <2>9. ASSUME NEW c \in Callers, NEW a \in Answers, IntakeRefuses(c, a) PROVE Owned'
    BY <2>6, <2>9 DEF IntakeRefuses
  <2>10. ASSUME NEW c \in Callers, NEW a \in Answers, NEW k \in Urls, NEW t \in Lifetimes,
                IntakeMints(c, a, k, t)
         PROVE Owned'
    BY <2>10, OnTheWay DEF IntakeMints
  <2>11. ASSUME NEW c \in Callers, RecordFailure(c) \/ ForgetFailures(c) PROVE Owned'
    BY <2>11, OnTheWay DEF RecordFailure, ForgetFailures
  <2>12. ASSUME NEW c \in Callers, Return(c) PROVE Owned'
    <3>1. pc'[c] = "idle" /\ result' = result /\ result[c].by = c
      BY <2>12 DEF Return, Goto, Typed, TypeOK, Owned
    <3>2. reply'[c] = Header(result[c]) /\ Header(result[c]).result = result[c]
      BY <2>12 DEF Return, Header, Typed, TypeOK
    <3>3. \A d \in Callers \ {c} : pc'[d] = pc[d] /\ result'[d] = result[d] /\ reply'[d] = reply[d]
      BY <2>12 DEF Return, Goto, Typed, TypeOK
    <3>4. QED BY <3>1, <3>2, <3>3, OwnedFrame
  <2>13. ASSUME NEW c \in Callers, Invalidate(c) PROVE Owned'
    BY <2>13, OwnedFrame DEF Invalidate, NoReply, Typed, TypeOK
  <2>14. ASSUME NEW c \in Callers, ClearEntries(c) \/ ClearFailures(c) PROVE Owned'
    <3>1. pc'[c] \in {"idle", "clearing"} /\ result' = result /\ reply' = reply
      BY <2>14 DEF ClearEntries, ClearFailures, Goto, Typed, TypeOK
    <3>2. \A d \in Callers \ {c} : pc'[d] = pc[d]
      BY <2>14 DEF ClearEntries, ClearFailures, Goto, Typed, TypeOK
    <3>3. QED BY <3>1, <3>2, OwnedFrame DEF Owned
  <2>15. CASE Tick \/ UNCHANGED vars
    BY <2>15 DEF Tick, vars, Owned
  <2>16. QED
    BY <2>1, <2>2, <2>3, <2>4, <2>5, <2>7, <2>8, <2>9, <2>10, <2>11, <2>12, <2>13, <2>14, <2>15
    DEF Next, Step
<1>3. Owned => ReasonIsOwn
  BY DEF Owned, ReasonIsOwn
<1>4. QED BY <1>1, <1>2, <1>3, TypedInvariant, PTL DEF Spec

-----------------------------------------------------------------------------
(* A mint refreshes the entry its second look found: only the holder of the  *)
(* lock changes _entries, so what was matched is still what covers the URL.  *)
MatchedIsHeld == \A c \in Callers : pc[c] = "minting" => matched[c] = Held(url[c])

(* Steps of one caller that leave the map, and every other caller, alone. *)
LEMMA MatchedFrame ==
  ASSUME MatchedIsHeld, entries' = entries,
         \A d \in Callers : pc'[d] = "minting" =>
           \/ pc[d] = "minting" /\ matched'[d] = matched[d] /\ url'[d] = url[d]
           \/ matched'[d] = Held(url[d]) /\ url'[d] = url[d]
  PROVE  MatchedIsHeld'
BY DEF MatchedIsHeld, Held

LEMMA MatchedInvariant == Spec => []MatchedIsHeld
<1>1. Init => MatchedIsHeld
  BY DEF Init, MatchedIsHeld
<1>2. Typed /\ LockHeld /\ MatchedIsHeld /\ [Next]_vars => MatchedIsHeld'
  <2> SUFFICES ASSUME Typed, LockHeld, MatchedIsHeld, [Next]_vars PROVE MatchedIsHeld'
    OBVIOUS
  <2> USE CallerAssumption DEF Typed, TypeOK, Goto, Release
  <2>1. ASSUME NEW c \in Callers, NEW u \in Urls, Call(c, u) PROVE MatchedIsHeld'
    BY <2>1, MatchedFrame DEF Call
  <2>2. ASSUME NEW c \in Callers,
               CallUnusableUrl(c) \/ FastHit(c) \/ FastMiss(c) \/ FastRaise(c)
        PROVE MatchedIsHeld'
    BY <2>2, MatchedFrame DEF CallUnusableUrl, FastHit, FastMiss, FastRaise
  <2>3. ASSUME NEW c \in Callers, Acquire(c) \/ LockedHit(c) \/ LockedRaise(c)
        PROVE MatchedIsHeld'
    BY <2>3, MatchedFrame DEF Acquire, LockedHit, LockedRaise
  <2>4. ASSUME NEW c \in Callers, StartMint(c) PROVE MatchedIsHeld'
    BY <2>4, MatchedFrame DEF StartMint
  <2>5. ASSUME NEW c \in Callers, NEW e \in Raised, MintRaises(c, e) PROVE MatchedIsHeld'
    BY <2>5, MatchedFrame DEF MintRaises
  <2>6. ASSUME \A d \in Callers : pc'[d] # "minting" PROVE MatchedIsHeld'
    BY <2>6 DEF MatchedIsHeld
  <2>7. ASSUME NEW c \in Callers, NEW o, MintFails(c, o) PROVE MatchedIsHeld'
    BY <2>6, <2>7 DEF MintFails, LockHeld, Locked
  <2>8. ASSUME NEW c \in Callers, RetryPost(c) PROVE MatchedIsHeld'
    BY <2>8, MatchedFrame DEF RetryPost
  <2>9. ASSUME NEW c \in Callers, PostIsLost(c) PROVE MatchedIsHeld'
    BY <2>7, <2>9 DEF PostIsLost
  <2>10. ASSUME NEW c \in Callers, NEW a \in Answers, IntakeRefuses(c, a) PROVE MatchedIsHeld'
    BY <2>7, <2>10 DEF IntakeRefuses
  <2>11. ASSUME NEW c \in Callers, NEW a \in Answers, NEW k \in Urls, NEW t \in Lifetimes,
                IntakeMints(c, a, k, t)
         PROVE MatchedIsHeld'
    BY <2>6, <2>11 DEF IntakeMints, LockHeld, Locked
  <2>12. ASSUME NEW c \in Callers, RecordFailure(c) \/ ForgetFailures(c) \/ Return(c)
         PROVE MatchedIsHeld'
    BY <2>12, MatchedFrame DEF RecordFailure, ForgetFailures, Return
  <2>13. ASSUME NEW c \in Callers, Invalidate(c) \/ ClearEntries(c) PROVE MatchedIsHeld'
    BY <2>6, <2>13 DEF Invalidate, ClearEntries, LockHeld, Locked
  <2>14. ASSUME NEW c \in Callers, ClearFailures(c) PROVE MatchedIsHeld'
    BY <2>14, MatchedFrame DEF ClearFailures
  <2>15. CASE Tick \/ UNCHANGED vars
    BY <2>15, MatchedFrame DEF Tick, vars
  <2>16. QED
    BY <2>1, <2>2, <2>3, <2>4, <2>5, <2>7, <2>8, <2>9, <2>10, <2>11, <2>12, <2>13, <2>14, <2>15
    DEF Next, Step
<1>3. QED BY <1>1, <1>2, TypedInvariant, LockInvariant, PTL DEF Spec

(* Of the keys covering a URL, one that is not the longest is shorter than   *)
(* one that is.                                                              *)
LEMMA LongerMatch ==
  ASSUME NEW u \in Urls, NEW K \in SUBSET Urls, NEW k \in Covering(u, K), k \notin Match(u, K)
  PROVE  \E m \in Match(u, K) : Len(k) < Len(m)
<1> DEFINE C == Covering(u, K)
           short == {Len(u) - Len(j) : j \in C}
<1>1. \A j \in C : Len(j) \in Nat /\ Len(u) - Len(j) \in Nat
  BY UrlAssumption DEF Covering, Covers, IsPrefix
<1>2. PICK x \in short : \A y \in short : ~(<<y, x>> \in OpToRel(<, Nat))
  <2>1. short \in SUBSET Nat /\ short # {}
    BY <1>1
  <2> HIDE DEF short
  <2>2. QED BY <2>1, NatLessThanWellFounded, WFMin
<1>3. x \in Nat /\ \A y \in short : y \in Nat /\ ~(y < x)
  BY <1>1, <1>2 DEF OpToRel
<1>4. PICK m \in C : x = Len(u) - Len(m)
  BY <1>2
<1>5. Len(u) \in Nat
  BY UrlAssumption
<1>6. \A j \in C : Len(j) <= Len(m)
  <2> SUFFICES ASSUME NEW j \in C PROVE Len(j) <= Len(m)
    OBVIOUS
  <2>1. Len(u) - Len(j) \in short
    OBVIOUS
  <2>2. Len(j) \in Nat /\ Len(m) \in Nat /\ ~(Len(u) - Len(j) < Len(u) - Len(m))
    BY <1>1, <1>3, <1>4, <2>1
  <2> HIDE DEF C, short
  <2>3. QED BY <1>5, <2>2
<1>7. m \in Match(u, K)
  BY <1>4, <1>6 DEF Match
<1>8. PICK j \in C : ~(Len(j) <= Len(k))
  BY DEF Match
<1>9. QED BY <1>1, <1>6, <1>7, <1>8

(* What a mint's end leaves of the entry it was for, and of the others. *)
LEMMA SpentGone ==
  ASSUME Typed, NEW c \in Callers, pc[c] = "minting", matched[c] = Held(url[c]),
         UNCHANGED <<url, matched>>,
         \A k \in DOMAIN entries' :
           \/ entries'[k].token = result'[c].mint
           \/ k \in DOMAIN entries \ matched[c]
  PROVE  \A k \in Held(url[c])' :
           \/ entries'[k].token = result'[c].mint
           \/ \E m \in matched'[c] : Len(k) < Len(m)
<1> SUFFICES ASSUME NEW k \in Held(url[c])', entries'[k].token # result'[c].mint
             PROVE  \E m \in matched[c] : Len(k) < Len(m)
  OBVIOUS
<1>1. k \in DOMAIN entries' /\ Covers(k, url[c])
  BY DEF Held, Match, Covering
<1>2. k \in Covering(url[c], DOMAIN entries) /\ k \notin Match(url[c], DOMAIN entries)
  BY <1>1 DEF Held, Covering
<1>3. url[c] \in Urls /\ DOMAIN entries \in SUBSET Urls
  BY EnvironmentUrls DEF Typed, TypeOK, HasUrl, UnderWay
<1>4. QED BY <1>2, <1>3, LongerMatch DEF Held

(* Steps that leave the map, and who is about to record or forget, alone. *)
LEMMA RefreshFrame ==
  ASSUME RefreshTakesEffect, entries' = entries,
         \A d \in Callers : pc'[d] \in {"recording", "forgetting"} =>
           pc[d] = pc'[d] /\ url'[d] = url[d] /\ matched'[d] = matched[d] /\ result'[d] = result[d]
  PROVE  RefreshTakesEffect'
BY DEF RefreshTakesEffect, Held

(* After a mint, whatever intake resolved the URL to and whether it answered
   at all, the entry found spent does not answer for the URL any more. *)
THEOREM MintsTakeEffect == Spec => []RefreshTakesEffect
<1>1. Init => RefreshTakesEffect
  BY DEF Init, RefreshTakesEffect
<1>2. Typed /\ LockHeld /\ MatchedIsHeld /\ RefreshTakesEffect /\ [Next]_vars => RefreshTakesEffect'
  <2> SUFFICES ASSUME Typed, LockHeld, MatchedIsHeld, RefreshTakesEffect, [Next]_vars
               PROVE  RefreshTakesEffect'
    OBVIOUS
  <2> USE CallerAssumption DEF Typed, TypeOK, Goto, Release
  <2>1. ASSUME NEW c \in Callers, NEW u \in Urls, Call(c, u) PROVE RefreshTakesEffect'
    BY <2>1, RefreshFrame DEF Call
  <2>2. ASSUME NEW c \in Callers,
               CallUnusableUrl(c) \/ FastHit(c) \/ FastMiss(c) \/ FastRaise(c)
        PROVE RefreshTakesEffect'
    BY <2>2, RefreshFrame DEF CallUnusableUrl, FastHit, FastMiss, FastRaise, EndsWith
  <2>3. ASSUME NEW c \in Callers, Acquire(c) \/ LockedHit(c) \/ LockedRaise(c) \/ StartMint(c)
        PROVE RefreshTakesEffect'
    BY <2>3, RefreshFrame DEF Acquire, LockedHit, LockedRaise, StartMint, EndsWith
  <2>4. ASSUME NEW c \in Callers, NEW e \in Raised, MintRaises(c, e) PROVE RefreshTakesEffect'
    BY <2>4, RefreshFrame DEF MintRaises, EndsWith
  <2>5. ASSUME NEW c \in Callers, pc[c] = "minting", \A d \in Callers \ {c} : pc'[d] = pc[d],
               UNCHANGED <<url, matched>>,
               \A k \in DOMAIN entries' :
                 entries'[k].token = result'[c].mint \/ k \in DOMAIN entries \ matched[c]
        PROVE RefreshTakesEffect'
    <3>1. ASSUME NEW d \in Callers, pc'[d] \in {"recording", "forgetting"} PROVE d = c
      BY <2>5, <3>1 DEF LockHeld, Locked
    <3>2. matched[c] = Held(url[c])
      BY <2>5 DEF MatchedIsHeld
    <3>3. QED BY <2>5, <3>1, <3>2, SpentGone DEF RefreshTakesEffect
  <2>6. ASSUME NEW c \in Callers, NEW o, MintFails(c, o) PROVE RefreshTakesEffect'
    BY <2>5, <2>6 DEF MintFails, Without
  <2>7. ASSUME NEW c \in Callers, RetryPost(c) PROVE RefreshTakesEffect'
    BY <2>7, RefreshFrame DEF RetryPost
  <2>8. ASSUME NEW c \in Callers, PostIsLost(c) PROVE RefreshTakesEffect'
    BY <2>6, <2>8 DEF PostIsLost
  <2>9. ASSUME NEW c \in Callers, NEW a \in Answers, IntakeRefuses(c, a) PROVE RefreshTakesEffect'
    BY <2>6, <2>9 DEF IntakeRefuses
  <2>10. ASSUME NEW c \in Callers, NEW a \in Answers, NEW j \in Urls, NEW t \in Lifetimes,
                IntakeMints(c, a, j, t)
         PROVE RefreshTakesEffect'
    <3>1. \A k \in DOMAIN entries' :
            entries'[k].token = result'[c].mint \/ k \in DOMAIN entries \ matched[c]
      BY <2>10 DEF IntakeMints, Stored, EndsWith
    <3>2. QED BY <2>5, <2>10, <3>1 DEF IntakeMints
  <2>11. ASSUME NEW c \in Callers, RecordFailure(c) \/ ForgetFailures(c) \/ Return(c)
         PROVE RefreshTakesEffect'
    BY <2>11, RefreshFrame DEF RecordFailure, ForgetFailures, Return
  <2>12. ASSUME \A d \in Callers : pc'[d] \notin {"recording", "forgetting"}
         PROVE RefreshTakesEffect'
    BY <2>12 DEF RefreshTakesEffect
  <2>13. ASSUME NEW c \in Callers, Invalidate(c) \/ ClearEntries(c) PROVE RefreshTakesEffect'
    BY <2>12, <2>13 DEF Invalidate, ClearEntries, LockHeld, Locked
  <2>14. ASSUME NEW c \in Callers, ClearFailures(c) PROVE RefreshTakesEffect'
    BY <2>14, RefreshFrame DEF ClearFailures
  <2>15. CASE Tick \/ UNCHANGED vars
    BY <2>15, RefreshFrame DEF Tick, vars
  <2>16. QED
    BY <2>1, <2>2, <2>3, <2>4, <2>7, <2>8, <2>9, <2>10, <2>11, <2>13, <2>14, <2>15
    DEF Next, Step
<1>3. QED BY <1>1, <1>2, TypedInvariant, LockInvariant, MatchedInvariant, PTL DEF Spec

(* Of a URL a mint is under way for, no entry held is usable. *)
LEMMA SpentIsUnusable ==
  ASSUME Typed, MintOnlyWhenSpent, MatchedIsHeld, NEW c \in Callers, pc[c] = "minting",
         NEW k \in matched[c], k \in DOMAIN entries
  PROVE  ~Usable(entries[k])
BY DEF MatchedIsHeld, MintOnlyWhenSpent, Hits

(* No refresh, failed mint or late invalidate loses a token that is still
   good: only clear, invalidate of that token, or a newer one of its own
   environment that a call for a URL it did not answer for was given. *)
THEOREM GoodTokensStay == Spec => GoodTokenKept
<1>1. ASSUME Typed, MintOnlyWhenSpent, MatchedIsHeld, [Next]_vars
      PROVE  [KeepsGoodTokens]_vars
  <2> DEFINE Replaced(k) == \E c \in Callers : /\ pc[c] = "minting" /\ k \notin Held(url[c])
                                               /\ k \in DOMAIN entries' /\ entries'[k].token = result'[c].mint
             Owed(k) == \/ \E c \in Callers : pc'[c] = "clearing"
                        \/ \E c \in Callers : /\ reply[c].kind = "bearer" /\ reply'[c] = NoReply
                                             /\ reply[c].result.mint = entries[k].token
  <2> SUFFICES ASSUME Next, NEW k \in DOMAIN entries, Dropped(k), Usable(entries[k])
               PROVE  Owed(k) \/ Replaced(k)
    BY <1>1 DEF KeepsGoodTokens
  <2>0. entries' # entries
    BY DEF Dropped
  <2>1. ASSUME NEW c \in Callers, NEW o, MintFails(c, o) PROVE FALSE
    <3>1. k \in matched[c]
      BY <2>1 DEF MintFails, Without, Dropped
    <3>2. QED BY <1>1, <2>1, <3>1, SpentIsUnusable DEF MintFails, Goto
  <2>2. ASSUME NEW c \in Callers, NEW a \in Answers, NEW j \in Urls, NEW t \in Lifetimes,
               IntakeMints(c, a, j, t)
        PROVE Replaced(k)
    <3>1. pc[c] = "minting" /\ matched[c] = Held(url[c])
      BY <1>1, <2>2 DEF IntakeMints, Goto, MatchedIsHeld
    <3>2. k \notin matched[c]
      BY <1>1, <3>1, SpentIsUnusable
    <3>3. k = j
      BY <2>2, <3>2 DEF IntakeMints, Stored, Dropped
    <3>4. k \in DOMAIN entries' /\ entries'[k].token = result'[c].mint
      BY <1>1, <2>2, <3>3 DEF IntakeMints, Stored, EndsWith, Typed, TypeOK
    <3>5. QED BY <3>1, <3>2, <3>4
  <2>3. ASSUME NEW c \in Callers, Invalidate(c) PROVE Owed(k)
    <3>1. reply[c].kind = "bearer" /\ reply'[c] = NoReply
      BY <1>1, <2>3 DEF Invalidate, Typed, TypeOK
    <3>2. reply[c].result.mint = entries[k].token
      BY <2>3 DEF Invalidate, Without, Dropped
    <3>3. QED BY <3>1, <3>2
  <2>4. ASSUME NEW c \in Callers, ClearEntries(c) PROVE Owed(k)
    BY <1>1, <2>4 DEF ClearEntries, Goto, Typed, TypeOK
  <2>5. ASSUME NEW c \in Callers,
               \/ \E u \in Urls : Call(c, u)
               \/ CallUnusableUrl(c) \/ FastHit(c) \/ FastMiss(c) \/ FastRaise(c)
               \/ Acquire(c) \/ LockedHit(c) \/ LockedRaise(c) \/ StartMint(c)
               \/ \E e \in Raised : MintRaises(c, e)
               \/ RetryPost(c) \/ RecordFailure(c) \/ ForgetFailures(c) \/ Return(c) \/ ClearFailures(c)
        PROVE FALSE
    BY <2>0, <2>5 DEF Call, CallUnusableUrl, FastHit, FastMiss, FastRaise, Acquire, LockedHit,
       LockedRaise, StartMint, MintRaises, RetryPost, RecordFailure, ForgetFailures, Return, ClearFailures
  <2>6. ASSUME NEW c \in Callers,
               PostIsLost(c) \/ \E a \in Answers : IntakeRefuses(c, a)
        PROVE FALSE
    BY <2>1, <2>6 DEF PostIsLost, IntakeRefuses
  <2>7. ~Tick
    BY <2>0 DEF Tick
  <2>8. QED
    BY <2>2, <2>3, <2>4, <2>5, <2>6, <2>7 DEF Next, Step
<1>2. QED
  BY <1>1, TypedInvariant, OneMintAtATime, MatchedInvariant, PTL
  DEF Spec, GoodTokenKept
=============================================================================
