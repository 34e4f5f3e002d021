-------------------------- MODULE InteractionProofs --------------------------
(* Theorems about Interaction, for any number of threads, environs and       *)
(* dispatches nested to any depth.                                           *)
EXTENDS Interaction, SequenceTheorems, TLAPS

-----------------------------------------------------------------------------
(* The inductive invariant.  Good is what holds of a dispatch wherever it is,*)
(* with n exceptions raised so far.                                          *)
Uuids      == (0..MaxRequests) \cup Environs \cup {None}
OrNone(S)  == S \cup {None}
RowType    == [uuid : Uuids, caller : OrNone(Callers), own : OrNone(Callers)]
EnvType    == [uuid : Uuids, caller : OrNone(Callers), deprecated : BOOLEAN,
               reported : OrNone(Addresses), input : {"sent", "empty"}]
FrameType  ==
  [env : Environs, kind : Kinds, at : {"app", "raised", "announced", "escaping", "ended", "late"},
   status : Statuses \cup Refusals \cup {None, 500}, exc : Exceptions,
   own : [caller : OrNone(Callers), deprecated : BOOLEAN], uuid : Uuids, rows : SUBSET RowType,
   reports : SUBSET Exceptions, twice : BOOLEAN, surfaced : SUBSET Exceptions,
   known : SUBSET Addresses, told : SUBSET [deprecated : BOOLEAN, own : BOOLEAN],
   started : OrNone(Statuses), inner : BOOLEAN, escaped : Exceptions]

Good(f, n) ==
  /\ \A r \in f.rows : r.caller \in {None, r.own}
  /\ \A h \in f.told : h.deprecated => h.own
  /\ \A x \in f.reports \cup f.surfaced : x.status = None /\ x.id <= n
  /\ f.inner = FALSE =>
       /\ \A r \in f.rows : r.uuid = f.uuid
       /\ f.at # "late" => \A h \in f.told : h.own => h.deprecated
       /\ f.kind # "django" => f.twice = FALSE

(* A dispatch under way, and one that is over. *)
OnStack(f, n) ==
  /\ f \in FrameType /\ Good(f, n)
  /\ f.at \in {"app", "raised", "announced", "escaping"}
  /\ f.status = f.started /\ f.escaped = NoExc
  /\ IF f.at = "app" THEN f.exc = NoExc ELSE f.exc.addr \in Addresses /\ f.exc.id <= n

Over(f, n) ==
  /\ f \in FrameType /\ Good(f, n)
  /\ f.at \in {"ended", "late"}
  /\ f.at = "ended" =>
       /\ f.inner = FALSE /\ f.own.caller # None => \E r \in f.rows : r.caller = f.own.caller
       /\ f.inner = FALSE => \A x \in f.surfaced \ f.reports : x.addr \in f.known
       /\ f.started # None => f.status = f.started
       /\ f.started = None /\ f.escaped.status # None => f.status = f.escaped.status
       /\ f.kind = "django" => f.status # None

(* What the store holds for the innermost dispatch: what its own latest      *)
(* authorization said, its uuid, and the address of an exception it knows.   *)
(* One that called a wrapped app has no store.                               *)
Pending(f) == {x \in f.surfaced \ f.reports : x.addr \notin f.known}
Attached(f, s, env) ==
  IF f.inner = TRUE THEN s = None
  ELSE /\ s = f.env
       /\ env[s].uuid = f.uuid /\ f.uuid # None
       /\ env[s].caller = f.own.caller /\ env[s].deprecated = f.own.deprecated
       /\ env[s].reported \in f.known \cup {None}
       /\ Pending(f) \subseteq (IF f.at = "escaping" THEN {f.exc} ELSE {})
       /\ f.kind # "django" /\ f.at # "app" /\ f.exc \in f.reports => env[s].reported = f.exc.addr

Typed ==
  /\ environ \in [Environs -> EnvType]
  /\ store \in [Threads -> OrNone(Environs)]
  /\ frames \in [Threads -> Seq(FrameType)]
  /\ served \in 0..MaxRequests /\ raised \in 0..MaxRaises

Stacked == \A t \in Threads : \A i \in 1..Len(frames[t]) :
  OnStack(frames[t][i], raised) /\ (i < Len(frames[t]) => frames[t][i].inner = TRUE)

Pointed == \A t \in Threads :
  IF frames[t] = << >> THEN store[t] = None ELSE Attached(Top(t), store[t], environ)

(* No environ is served on two threads at once. *)
Apart == \A t, u \in Threads : t # u =>
  \A i \in 1..Len(frames[t]), j \in 1..Len(frames[u]) : frames[t][i].env # frames[u][j].env

(* A dispatch that has yet to answer waits for the frame it returned to, or  *)
(* one below: when that is on top, the store is cleared.                     *)
Late(l, n, s, m) ==
  \/ l = << >>
  \/ \E f \in FrameType, k \in Nat :
       /\ l = <<f, k>> /\ OnStack(f, m) /\ f.at = "app"
       /\ k <= n /\ (k = n => s = None)
Lazy ==
  /\ lazy = [t \in Threads |-> lazy[t]]
  /\ \A t \in Threads : Late(lazy[t], Len(frames[t]), store[t], raised)

Ended == \A f \in ended : Over(f, raised)

Inv == Typed /\ Stacked /\ Pointed /\ Apart /\ Lazy /\ Ended

-----------------------------------------------------------------------------
(* The innermost dispatch, and the stack without it or with another in its   *)
(* place.                                                                    *)
LEMMA TopFacts ==
  ASSUME NEW S, NEW s \in Seq(S), s # << >>
  PROVE  /\ Len(s) \in Nat \ {0} /\ Last(s) = s[Len(s)] /\ Last(s) \in S
         /\ Front(s) \in Seq(S) /\ Len(Front(s)) = Len(s) - 1
         /\ \A i \in 1..(Len(s) - 1) : Front(s)[i] = s[i]
<1>1. Len(s) \in Nat \ {0}
  BY EmptySeq, LenProperties
<1>2. \A i \in 1..(Len(s) - 1) : s[i] \in S
  BY <1>1, ElementOfSeq
<1>3. /\ SubSeq(s, 1, Len(s) - 1) \in Seq(S)
      /\ Len(SubSeq(s, 1, Len(s) - 1)) = Len(s) - 1
      /\ \A i \in 1..(Len(s) - 1) : SubSeq(s, 1, Len(s) - 1)[i] = s[i]
  <2> DEFINE n == Len(s) - 1
  <2>1. n \in Int /\ 1 \in Int /\ \A i \in 1..n : s[i] \in S
    BY <1>1, <1>2
  <2> HIDE DEF n
  <2>2. /\ SubSeq(s, 1, n) \in Seq(S)
        /\ Len(SubSeq(s, 1, n)) = IF 1 <= n THEN n - 1 + 1 ELSE 0
        /\ \A i \in 1..(n - 1 + 1) : SubSeq(s, 1, n)[i] = s[1 + i - 1]
    BY <2>1, SubSeqProperties
  <2>3. 1..(n - 1 + 1) = 1..n /\ \A i \in 1..n : 1 + i - 1 = i
    BY <2>1
  <2>4. n >= 0
    BY <1>1 DEF n
  <2>5. /\ SubSeq(s, 1, n) \in Seq(S) /\ Len(SubSeq(s, 1, n)) = n
        /\ \A i \in 1..n : SubSeq(s, 1, n)[i] = s[i]
    <3>1. Len(SubSeq(s, 1, n)) = n
      BY <2>1, <2>2, <2>4
    <3>2. ASSUME NEW i \in 1..n PROVE SubSeq(s, 1, n)[i] = s[i]
      <4>1. SubSeq(s, 1, n)[i] = s[1 + i - 1]
        BY <2>2, <2>3
      <4>2. 1 + i - 1 = i
        BY <2>1
      <4>3. QED BY <4>1, <4>2
    <3>3. QED BY <2>2, <3>1, <3>2
  <2>6. QED BY <2>5 DEF n
<1>4. QED BY <1>1, <1>3, ElementOfSeq DEF Front, Last

LEMMA PushFacts ==
  ASSUME NEW S, NEW s \in Seq(S), NEW x \in S
  PROVE  /\ Append(s, x) \in Seq(S) /\ Append(s, x) # << >>
         /\ Len(Append(s, x)) = Len(s) + 1 /\ Len(s) \in Nat
         /\ \A i \in 1..Len(s) : Append(s, x)[i] = s[i]
         /\ Append(s, x)[Len(s) + 1] = x /\ Last(Append(s, x)) = x
<1>1. Append(s, x) \in Seq(S) /\ Len(Append(s, x)) = Len(s) + 1 /\ Len(s) \in Nat
  OBVIOUS
<1>2. (\A i \in 1..Len(s) : Append(s, x)[i] = s[i]) /\ Append(s, x)[Len(s) + 1] = x
  OBVIOUS
<1>3. QED BY <1>1, <1>2, EmptySeq DEF Last

(* With another on top. *)
LEMMA ReplaceFacts ==
  ASSUME NEW S, NEW s \in Seq(S), s # << >>, NEW x \in S
  PROVE  /\ Append(Front(s), x) \in Seq(S) /\ Append(Front(s), x) # << >>
         /\ Len(Append(Front(s), x)) = Len(s) /\ Len(s) \in Nat \ {0}
         /\ \A i \in 1..(Len(s) - 1) : Append(Front(s), x)[i] = s[i]
         /\ Append(Front(s), x)[Len(s)] = x /\ Last(Append(Front(s), x)) = x
<1>1. Front(s) \in Seq(S) /\ Len(Front(s)) = Len(s) - 1 /\ Len(s) \in Nat \ {0}
      /\ \A i \in 1..(Len(s) - 1) : Front(s)[i] = s[i]
  BY TopFacts
<1>2. QED BY <1>1, PushFacts

(* More exceptions make nothing of this untrue. *)
LEMMA MoreRaised ==
  ASSUME NEW m \in Nat, NEW n \in Nat, m <= n, NEW f \in FrameType
  PROVE  /\ Good(f, m) => Good(f, n)
         /\ OnStack(f, m) => OnStack(f, n)
         /\ Over(f, m) => Over(f, n)
<1>1. \A x \in f.reports \cup f.surfaced : x.id \in Int
  BY BoundAssumption DEF FrameType, Exceptions
<1>2. f.exc.id \in Int
  BY BoundAssumption DEF FrameType, Exceptions
<1>3. Good(f, m) => Good(f, n)
  BY <1>1 DEF Good
<1>4. QED BY <1>2, <1>3 DEF OnStack, Over

(* What the invariant says of the innermost dispatch. *)
LEMMA OnTop ==
  ASSUME Inv, NEW t \in Threads, frames[t] # << >>
  PROVE  /\ Top(t) \in FrameType /\ OnStack(Top(t), raised)
         /\ Attached(Top(t), store[t], environ)
         /\ frames[t] \in Seq(FrameType) /\ Len(frames[t]) \in Nat \ {0}
         /\ Top(t) = frames[t][Len(frames[t])]
<1>1. frames[t] \in Seq(FrameType)
  BY DEF Inv, Typed
<1>2. Top(t) = frames[t][Len(frames[t])] /\ Len(frames[t]) \in Nat \ {0}
  BY <1>1, TopFacts DEF Top
<1>3. OnStack(Top(t), raised)
  BY <1>2 DEF Inv, Stacked
<1>4. QED BY <1>1, <1>2, <1>3 DEF Inv, Pointed, OnStack

(* Frames of the other threads stay attached to what they point at. *)
LEMMA OthersAttached ==
  ASSUME Inv, NEW t \in Threads, NEW u \in Threads, u # t, frames[u] # << >>,
         NEW e, \A i \in 1..Len(frames[u]) : frames[u][i].env # e,
         NEW env, \A d \in Environs : d # e => env[d] = environ[d]
  PROVE  Attached(Top(u), store[u], env)
<1>1. /\ Top(u) \in FrameType /\ Attached(Top(u), store[u], environ)
      /\ Top(u) = frames[u][Len(frames[u])] /\ Len(frames[u]) \in Nat \ {0}
  BY OnTop
<1>2. Top(u).env # e /\ Top(u).env \in Environs
  BY <1>1 DEF FrameType
<1>3. QED BY <1>1, <1>2 DEF Attached

(* A step of t that leaves the other stacks alone, given what it makes of    *)
(* its own: the stack, the store s, what waits to answer, and the environ e.  *)
Moves(t, stack, s, l, e) ==
  /\ frames' = [frames EXCEPT ![t] = stack]
  /\ store' = [store EXCEPT ![t] = s]
  /\ lazy' = [lazy EXCEPT ![t] = l]
  /\ environ' \in [Environs -> EnvType]
  /\ \A d \in Environs : d # e => environ'[d] = environ[d]
  /\ served' \in 0..MaxRequests /\ raised' \in 0..MaxRaises /\ raised <= raised'
  /\ \A i \in 1..Len(stack) :
       /\ OnStack(stack[i], raised') /\ (i < Len(stack) => stack[i].inner = TRUE)
       /\ \A u \in Threads \ {t} : \A j \in 1..Len(frames[u]) : frames[u][j].env # stack[i].env
  /\ IF stack = << >> THEN s = None ELSE Attached(Last(stack), s, environ')
  /\ \A u \in Threads \ {t} : \A j \in 1..Len(frames[u]) : frames[u][j].env # e
  /\ Late(l, Len(stack), s, raised')
  /\ \A f \in ended' : Over(f, raised')

(* Such a step keeps the invariant of all threads. *)
LEMMA ThreadStep ==
  ASSUME Inv, NEW t \in Threads, NEW stack \in Seq(FrameType), NEW s \in OrNone(Environs),
         NEW e, NEW l, Moves(t, stack, s, l, e)
  PROVE  Inv'
<1> USE DEF Moves
<1>1. Typed'
  BY DEF Inv, Typed
<1>2. frames'[t] = stack /\ store'[t] = s /\ lazy'[t] = l
  BY DEF Inv, Typed, Lazy
<1>3. \A u \in Threads \ {t} : frames'[u] = frames[u] /\ store'[u] = store[u] /\ lazy'[u] = lazy[u]
  BY DEF Inv, Typed, Lazy
<1>4. raised \in Nat /\ raised' \in Nat /\ raised <= raised'
  BY BoundAssumption DEF Inv, Typed
<1>5. \A u \in Threads : \A i \in 1..Len(frames[u]) :
         frames[u][i] \in FrameType /\ OnStack(frames[u][i], raised)
  BY DEF Inv, Stacked, OnStack
<1>6. Stacked'
  <2> SUFFICES ASSUME NEW u \in Threads, NEW i \in 1..Len(frames'[u])
               PROVE  /\ OnStack(frames'[u][i], raised')
                      /\ i < Len(frames'[u]) => frames'[u][i].inner = TRUE
    BY DEF Stacked
  <2>1. CASE u = t
    BY <1>2, <2>1
  <2>2. CASE u # t
    <3>1. OnStack(frames[u][i], raised) /\ (i < Len(frames[u]) => frames[u][i].inner = TRUE)
      BY <1>3, <2>2 DEF Inv, Stacked
    <3>2. OnStack(frames[u][i], raised')
      BY <1>3, <1>4, <1>5, <2>2, <3>1, MoreRaised
    <3>3. QED BY <1>3, <2>2, <3>1, <3>2
  <2>3. QED BY <2>1, <2>2
<1>7. Pointed'
  <2> SUFFICES ASSUME NEW u \in Threads
               PROVE  IF frames'[u] = << >> THEN store'[u] = None
                      ELSE Attached(Last(frames'[u]), store'[u], environ')
    BY DEF Pointed, Top
  <2>1. CASE u = t
    BY <1>2, <2>1
  <2>2. CASE u # t
    <3>1. CASE frames[u] = << >>
      BY <1>3, <2>2, <3>1 DEF Inv, Pointed
    <3>2. CASE frames[u] # << >>
      <4>1. \A i \in 1..Len(frames[u]) : frames[u][i].env # e
        BY <2>2
      <4>2. Attached(Top(u), store[u], environ')
        BY <2>2, <3>2, <4>1, OthersAttached
      <4>3. QED BY <1>3, <2>2, <3>2, <4>2 DEF Top
    <3>3. QED BY <3>1, <3>2
  <2>3. QED BY <2>1, <2>2
<1>8. Apart'
  <2> SUFFICES ASSUME NEW u \in Threads, NEW v \in Threads, u # v,
                      NEW i \in 1..Len(frames'[u]), NEW j \in 1..Len(frames'[v])
               PROVE  frames'[u][i].env # frames'[v][j].env
    BY DEF Apart
  <2>1. CASE u = t
    BY <1>2, <1>3, <2>1
  <2>2. CASE v = t
    BY <1>2, <1>3, <2>2
  <2>3. CASE u # t /\ v # t
    BY <1>3, <2>3 DEF Inv, Apart
  <2>4. QED BY <2>1, <2>2, <2>3
<1>9. Lazy'
  <2> SUFFICES ASSUME NEW u \in Threads
               PROVE  Late(lazy'[u], Len(frames'[u]), store'[u], raised')
    BY DEF Inv, Lazy
  <2>1. CASE u = t
    BY <1>2, <2>1 DEF Late
  <2>2. CASE u # t
    <3>1. Late(lazy[u], Len(frames[u]), store[u], raised)
      BY DEF Inv, Lazy
    <3>2. \A f \in FrameType : OnStack(f, raised) => OnStack(f, raised')
      BY <1>4, MoreRaised
    <3>3. QED BY <1>3, <2>2, <3>1, <3>2 DEF Late
  <2>3. QED BY <2>1, <2>2
<1>10. QED BY <1>1, <1>6, <1>7, <1>8, <1>9 DEF Inv, Ended

(* What waits to answer goes on waiting. *)
LEMMA LateStays ==
  ASSUME NEW l, NEW n, NEW s, NEW m \in Nat, NEW k \in Nat, m <= k, Late(l, n, s, m)
  PROVE  Late(l, n, s, k)
<1>1. \A f \in FrameType : OnStack(f, m) => OnStack(f, k)
  BY MoreRaised
<1>2. QED BY <1>1 DEF Late

(* The store of a thread points at the innermost dispatch's environ, which   *)
(* no other thread serves, or at none.                                       *)
LEMMA StoreIsOwn ==
  ASSUME Inv, NEW t \in Threads
  PROVE  \A u \in Threads \ {t} : \A j \in 1..Len(frames[u]) : frames[u][j].env # store[t]
<1>1. SUFFICES ASSUME NEW u \in Threads \ {t}, NEW j \in 1..Len(frames[u])
               PROVE  frames[u][j].env # store[t]
  OBVIOUS
<1>2. frames[u][j].env \in Environs
  BY DEF Inv, Stacked, OnStack, FrameType
<1>3. CASE store[t] = None
  BY <1>2, <1>3, NoneAssumption
<1>4. CASE store[t] # None
  <2>1. frames[t] # << >>
    BY <1>4 DEF Inv, Pointed
  <2>2. store[t] = Top(t).env
    BY <1>4, <2>1, OnTop DEF Attached
  <2>3. Top(t) = frames[t][Len(frames[t])] /\ Len(frames[t]) \in 1..Len(frames[t])
    BY <2>1, OnTop
  <2>4. QED BY <2>2, <2>3 DEF Inv, Apart
<1>5. QED BY <1>3, <1>4

(* A step that changes the innermost dispatch, and the environ its store     *)
(* points at, keeps the invariant if the two still fit.                      *)
LEMMA TopStep ==
  ASSUME Inv, NEW t \in Threads, frames[t] # << >>, NEW f \in FrameType, SetTop(t, f),
         f.env = Top(t).env, OnStack(f, raised'), Attached(f, store[t], environ'),
         environ' \in [Environs -> EnvType],
         \A d \in Environs : d # store[t] => environ'[d] = environ[d],
         raised' \in 0..MaxRaises, raised <= raised',
         UNCHANGED <<store, lazy, served>>, ended' = {}
  PROVE  Inv'
<1> DEFINE stack == Append(Front(frames[t]), f)
<1>1. /\ frames[t] \in Seq(FrameType) /\ Len(frames[t]) \in Nat \ {0}
      /\ Top(t) = frames[t][Len(frames[t])]
  BY OnTop
<1>2. /\ stack \in Seq(FrameType) /\ stack # << >> /\ Len(stack) = Len(frames[t])
      /\ \A i \in 1..(Len(stack) - 1) : stack[i] = frames[t][i]
      /\ stack[Len(stack)] = f /\ Last(stack) = f
  BY <1>1, ReplaceFacts
<1>3. frames' = [frames EXCEPT ![t] = stack]
  BY DEF SetTop
<1> HIDE DEF stack
<1>4. raised \in Nat /\ raised' \in Nat
  BY BoundAssumption DEF Inv, Typed
<1>5. \A i \in 1..Len(stack) :
        /\ OnStack(stack[i], raised') /\ (i < Len(stack) => stack[i].inner = TRUE)
        /\ \A u \in Threads \ {t} : \A j \in 1..Len(frames[u]) : frames[u][j].env # stack[i].env
  <2> SUFFICES ASSUME NEW i \in 1..Len(stack)
               PROVE  /\ OnStack(stack[i], raised') /\ (i < Len(stack) => stack[i].inner = TRUE)
                      /\ \A u \in Threads \ {t} :
                           \A j \in 1..Len(frames[u]) : frames[u][j].env # stack[i].env
    OBVIOUS
  <2>1. stack[i].env = frames[t][i].env /\ i \in 1..Len(frames[t])
    BY <1>1, <1>2
  <2>2. \A u \in Threads \ {t} : \A j \in 1..Len(frames[u]) : frames[u][j].env # stack[i].env
    BY <2>1 DEF Inv, Apart
  <2>3. CASE i = Len(stack)
    BY <1>2, <2>2, <2>3
  <2>4. CASE i # Len(stack)
    <3>1. stack[i] = frames[t][i] /\ i < Len(frames[t])
      BY <1>1, <1>2, <2>4
    <3>2. OnStack(frames[t][i], raised) /\ frames[t][i].inner = TRUE /\ frames[t][i] \in FrameType
      BY <1>1, <2>1, <3>1 DEF Inv, Stacked, OnStack
    <3>3. OnStack(frames[t][i], raised')
      BY <1>4, <3>2, MoreRaised
    <3>4. QED BY <2>2, <3>1, <3>2, <3>3
  <2>5. QED BY <2>3, <2>4
<1>6. Late(lazy[t], Len(stack), store[t], raised')
  <2>1. Late(lazy[t], Len(stack), store[t], raised)
    BY <1>2 DEF Inv, Lazy
  <2>2. QED BY <1>4, <2>1, LateStays
<1>7. store[t] \in OrNone(Environs) /\ served' \in 0..MaxRequests
  BY DEF Inv, Typed
<1>8. store' = [store EXCEPT ![t] = store[t]] /\ lazy' = [lazy EXCEPT ![t] = lazy[t]]
  BY DEF Inv, Typed, Lazy
<1>9. \A u \in Threads \ {t} : \A j \in 1..Len(frames[u]) : frames[u][j].env # store[t]
  BY StoreIsOwn
<1>10. Moves(t, stack, store[t], lazy[t], store[t])
  BY <1>2, <1>3, <1>5, <1>6, <1>7, <1>8, <1>9 DEF Moves
<1>11. QED BY <1>2, <1>7, <1>10, ThreadStep

(* The end of a dispatch: what is below called a wrapped app, so it has no   *)
(* store, as the thread has none now.                                        *)
LEMMA PopStep ==
  ASSUME Inv, NEW t \in Threads, NEW stack \in Seq(FrameType), NEW l,
         frames' = [frames EXCEPT ![t] = stack], store' = [store EXCEPT ![t] = None],
         lazy' = [lazy EXCEPT ![t] = l], UNCHANGED <<environ, served, raised>>,
         Len(stack) < Len(frames[t]),
         \A i \in 1..Len(stack) :
           stack[i].env = frames[t][i].env /\ stack[i].inner = TRUE /\ OnStack(stack[i], raised),
         Late(l, Len(stack), None, raised), \A f \in ended' : Over(f, raised)
  PROVE  Inv'
<1>1. Len(stack) \in Nat /\ frames[t] \in Seq(FrameType) /\ Len(frames[t]) \in Nat
  BY DEF Inv, Typed
<1>2. \A i \in 1..Len(stack) :
        \A u \in Threads \ {t} : \A j \in 1..Len(frames[u]) : frames[u][j].env # stack[i].env
  BY <1>1 DEF Inv, Apart
<1>3. stack # << >> => Attached(Last(stack), None, environ)
  <2> SUFFICES ASSUME stack # << >> PROVE Attached(Last(stack), None, environ)
    OBVIOUS
  <2>1. Last(stack) = stack[Len(stack)] /\ Len(stack) \in Nat \ {0}
    BY TopFacts
  <2>2. Last(stack).inner = TRUE
    BY <2>1
  <2>3. QED BY <2>2 DEF Attached
<1>4. /\ environ' \in [Environs -> EnvType] /\ served' \in 0..MaxRequests
      /\ raised' \in 0..MaxRaises /\ raised <= raised'
      /\ \A d \in Environs : d # None => environ'[d] = environ[d]
  BY BoundAssumption DEF Inv, Typed
<1>5. \A u \in Threads \ {t} : \A j \in 1..Len(frames[u]) : frames[u][j].env # None
  BY NoneAssumption DEF Inv, Stacked, OnStack, FrameType
<1>6. None \in OrNone(Environs)
  BY DEF OrNone
<1>7. Moves(t, stack, None, l, None)
  BY <1>1, <1>2, <1>3, <1>4, <1>5 DEF Moves
<1>8. QED BY <1>6, <1>7, ThreadStep

-----------------------------------------------------------------------------
(* What the steps of a dispatch make of its frame.  Most leave all but its   *)
(* own grant, its place and its exception as it was.                         *)
GrantType == [caller : OrNone(Callers), deprecated : BOOLEAN]
Same(f, g) ==
  /\ f.env = g.env /\ f.kind = g.kind /\ f.status = g.status /\ f.uuid = g.uuid /\ f.rows = g.rows
  /\ f.reports = g.reports /\ f.twice = g.twice /\ f.surfaced = g.surfaced /\ f.known = g.known
  /\ f.told = g.told /\ f.started = g.started /\ f.inner = g.inner /\ f.escaped = g.escaped

LEMMA SameOnStack ==
  ASSUME NEW g \in FrameType, NEW f \in FrameType, Same(f, g), NEW n \in Nat, NEW m \in Nat, n <= m,
         OnStack(g, n), f.at \in {"app", "raised", "announced", "escaping"},
         IF f.at = "app" THEN f.exc = NoExc ELSE f.exc.addr \in Addresses /\ f.exc.id <= m
  PROVE  OnStack(f, m)
<1>1. OnStack(g, m)
  BY MoreRaised
<1>2. QED BY <1>1 DEF OnStack, Good, Same

LEMMA SameAttached ==
  ASSUME NEW g \in FrameType, NEW f \in FrameType, Same(f, g), NEW s, NEW env, NEW env2,
         Attached(g, s, env), g.at # "escaping",
         f.inner = FALSE =>
           /\ env2[s].uuid = env[s].uuid /\ env2[s].reported = env[s].reported
           /\ env2[s].caller = f.own.caller /\ env2[s].deprecated = f.own.deprecated,
         f.at # "app" /\ f.exc \in f.reports => g.at # "app" /\ f.exc = g.exc
  PROVE  Attached(f, s, env2)
<1>1. Pending(f) = Pending(g)
  BY DEF Same, Pending
<1>2. CASE f.inner = TRUE
  BY <1>2 DEF Attached, Same
<1>3. CASE f.inner = FALSE
  <2>1. g.inner = FALSE
    BY <1>3 DEF Same
  <2>2. QED BY <1>1, <1>3, <2>1 DEF Attached, Same
<1>4. QED BY <1>2, <1>3 DEF FrameType

(* What the store says to the innermost dispatch. *)
Fed(t, f) ==
  IF f.inner = TRUE THEN Uuid(t) = None /\ Stored(t).caller = None /\ Stored(t).deprecated = FALSE
  ELSE /\ Uuid(t) = f.uuid /\ f.uuid # None
       /\ Stored(t).caller = f.own.caller /\ Stored(t).deprecated = f.own.deprecated

LEMMA TopFed ==
  ASSUME Inv, NEW t \in Threads, frames[t] # << >>
  PROVE  Fed(t, Top(t))
<1>1. Top(t) \in FrameType /\ Attached(Top(t), store[t], environ)
  BY OnTop
<1>2. CASE Top(t).inner = TRUE
  BY <1>1, <1>2 DEF Attached, Fed, Uuid, Stored, NoGrant
<1>3. CASE Top(t).inner = FALSE
  <2>1. store[t] # None
    BY <1>1, <1>3, NoneAssumption DEF Attached, FrameType
  <2>2. QED BY <1>1, <1>3, <2>1 DEF Attached, Fed, Uuid, Stored
<1>4. QED BY <1>1, <1>2, <1>3 DEF FrameType

(* The store's own types. *)
LEMMA StoreType ==
  ASSUME Inv, NEW t \in Threads
  PROVE  Uuid(t) \in Uuids /\ OrOwn(Uuid(t)) \in Uuids /\ Stored(t) \in GrantType
<1>1. Uuid(t) \in Uuids
  BY DEF Inv, Typed, EnvType, Uuid, Uuids, OrNone
<1>2. 0 \in Uuids
  BY BoundAssumption DEF Uuids
<1>3. Stored(t) \in GrantType
  BY DEF Inv, Typed, EnvType, Stored, NoGrant, GrantType, OrNone
<1>4. QED BY <1>1, <1>2, <1>3 DEF OrOwn, OwnUuid

(* A row takes what the store says. *)
LEMMA WroteGood ==
  ASSUME Inv, NEW t \in Threads, NEW f \in FrameType, NEW n \in Nat, Good(f, n), Fed(t, f),
         NEW u \in {Uuid(t), OrOwn(Uuid(t))}, NEW g, g = Wrote(f, Row(f, u, Stored(t).caller))
  PROVE  /\ g \in FrameType /\ Good(g, n)
         /\ g = [f EXCEPT !.rows = f.rows \cup {Row(f, u, Stored(t).caller)}]
         /\ Row(f, u, Stored(t).caller).caller = Stored(t).caller
<1> DEFINE row == Row(f, u, Stored(t).caller)
<1>1. row \in RowType
  BY StoreType DEF Row, RowType, FrameType, GrantType
<1>2. row.uuid = u /\ row.caller = Stored(t).caller /\ row.own = f.own.caller
  BY DEF Row
<1>3. row.caller \in {None, row.own} /\ (f.inner = FALSE => row.uuid = f.uuid)
  BY <1>2 DEF Fed, OrOwn
<1> HIDE DEF row
<1>4. g = [f EXCEPT !.rows = f.rows \cup {row}]
  BY DEF Wrote, row
<1>5. g \in FrameType
  BY <1>1, <1>4 DEF FrameType
<1>6. /\ g.rows = f.rows \cup {row} /\ g.inner = f.inner /\ g.uuid = f.uuid /\ g.told = f.told
      /\ g.reports = f.reports /\ g.surfaced = f.surfaced /\ g.at = f.at /\ g.kind = f.kind
      /\ g.twice = f.twice
  BY <1>4 DEF FrameType
<1>7. Good(g, n)
  BY <1>3, <1>6 DEF Good
<1>8. QED BY <1>2, <1>4, <1>5, <1>7 DEF row

LEMMA TwiceType ==
  ASSUME NEW f \in FrameType, NEW b \in BOOLEAN
  PROVE  [f EXCEPT !.twice = b] \in FrameType
BY DEF FrameType

(* An error row does, and is the first of its exception where the            *)
(* middleware saw to it.                                                     *)
Reported(f, x, n, g) ==
  /\ g \in FrameType /\ Good(g, n) /\ g.reports = f.reports \cup {x}
  /\ g.env = f.env /\ g.kind = f.kind /\ g.at = f.at /\ g.status = f.status /\ g.exc = f.exc
  /\ g.own = f.own /\ g.uuid = f.uuid /\ g.surfaced = f.surfaced /\ g.known = f.known
  /\ g.started = f.started /\ g.inner = f.inner /\ g.escaped = f.escaped

LEMMA ReportGood ==
  ASSUME Inv, NEW t \in Threads, NEW f \in FrameType, NEW n \in Nat, Good(f, n), Fed(t, f),
         NEW x \in Exceptions, x.status = None, x.id <= n,
         f.kind # "django" /\ f.inner = FALSE => x \notin f.reports
  PROVE  Reported(f, x, n, Report(t, f, x))
<1> DEFINE g == Report(t, f, x)
<1> DEFINE h == Wrote(f, Row(f, OrOwn(Uuid(t)), Stored(t).caller))
<1>1. /\ h \in FrameType /\ Good(h, n)
      /\ h = [f EXCEPT !.rows = f.rows \cup {Row(f, OrOwn(Uuid(t)), Stored(t).caller)}]
  BY WroteGood
<1> HIDE DEF h
<1> DEFINE b == h.twice \/ x \in f.reports
<1>2. g = [h EXCEPT !.twice = b, !.reports = h.reports \cup {x}]
  <2>1. h.reports = f.reports /\ h.twice = f.twice
    BY <1>1 DEF FrameType
  <2>2. QED BY <2>1 DEF Report, h, g
<1> HIDE DEF b, g
<1>3. g \in FrameType
  <2>1. b \in BOOLEAN
    BY DEF b
  <2>2. h.reports \cup {x} \in SUBSET Exceptions
    BY <1>1 DEF FrameType
  <2> DEFINE k == [h EXCEPT !.twice = b]
  <2>3. k \in FrameType
    BY <1>1, <2>1, TwiceType
  <2>4. g = [k EXCEPT !.reports = h.reports \cup {x}]
    BY <1>2
  <2> HIDE DEF k
  <2>5. QED BY <2>2, <2>3, <2>4 DEF FrameType
<1>4. /\ h.reports = f.reports /\ h.env = f.env /\ h.kind = f.kind /\ h.at = f.at /\ h.status = f.status
      /\ h.exc = f.exc /\ h.own = f.own /\ h.uuid = f.uuid /\ h.surfaced = f.surfaced
      /\ h.known = f.known /\ h.started = f.started /\ h.inner = f.inner /\ h.escaped = f.escaped
      /\ h.twice = f.twice /\ h.told = f.told
  BY <1>1 DEF FrameType
<1>5. /\ g.reports = h.reports \cup {x} /\ g.rows = h.rows /\ g.told = h.told
      /\ g.env = h.env /\ g.kind = h.kind /\ g.at = h.at /\ g.status = h.status
      /\ g.exc = h.exc /\ g.own = h.own /\ g.uuid = h.uuid /\ g.surfaced = h.surfaced
      /\ g.known = h.known /\ g.started = h.started /\ g.inner = h.inner /\ g.escaped = h.escaped
  BY <1>1, <1>2 DEF FrameType
<1>6. g.kind # "django" /\ g.inner = FALSE => g.twice = FALSE
  <2> SUFFICES ASSUME g.kind # "django", g.inner = FALSE PROVE g.twice = FALSE
    OBVIOUS
  <2>1. h.twice = FALSE /\ ~(x \in f.reports)
    BY <1>1, <1>4, <1>5 DEF Good
  <2>2. g.twice = b
    BY <1>1, <1>2 DEF FrameType
  <2>3. b = FALSE
    BY <2>1 DEF b
  <2>4. QED BY <2>2, <2>3
<1>7. Good(g, n)
  BY <1>1, <1>5, <1>6 DEF Good
<1>8. QED BY <1>3, <1>4, <1>5, <1>7 DEF Reported, g

(* So do the headers of a response that starts. *)
LEMMA StartGood ==
  ASSUME Inv, NEW t \in Threads, NEW f \in FrameType, NEW n \in Nat, Good(f, n), Fed(t, f),
         NEW s \in Statuses, NEW g, g = Start(t, f, s)
  PROVE  /\ g \in FrameType /\ Good(g, n) /\ g.status = s /\ g.started = s
         /\ g.env = f.env /\ g.kind = f.kind /\ g.at = f.at /\ g.exc = f.exc /\ g.rows = f.rows
         /\ g.own = f.own /\ g.uuid = f.uuid /\ g.surfaced = f.surfaced /\ g.known = f.known
         /\ g.reports = f.reports /\ g.inner = f.inner /\ g.escaped = f.escaped /\ g.twice = f.twice
<1> DEFINE header == [deprecated |-> Stored(t).deprecated, own |-> f.own.deprecated]
<1>1. header \in [deprecated : BOOLEAN, own : BOOLEAN]
  BY StoreType DEF GrantType, FrameType
<1>2. (header.deprecated => header.own) /\ (f.inner = FALSE => (header.own => header.deprecated))
  BY DEF Fed, FrameType
<1> HIDE DEF header
<1>3. g = [f EXCEPT !.status = s, !.started = s, !.told = f.told \cup {header}]
  BY DEF Start, header
<1>4. g \in FrameType
  <2>1. s \in Statuses \cup Refusals \cup {None, 500} /\ s \in OrNone(Statuses)
    BY DEF OrNone
  <2>2. f.told \cup {header} \in SUBSET [deprecated : BOOLEAN, own : BOOLEAN]
    BY <1>1 DEF FrameType
  <2> DEFINE k == [f EXCEPT !.status = s]
             l == [k EXCEPT !.started = s]
  <2>3. k \in FrameType
    BY <2>1 DEF FrameType
  <2>4. g = [l EXCEPT !.told = f.told \cup {header}]
    BY <1>3
  <2> HIDE DEF k
  <2>5. l \in FrameType
    BY <2>1, <2>3 DEF FrameType
  <2> HIDE DEF l
  <2>6. QED BY <2>2, <2>4, <2>5 DEF FrameType
<1>5. /\ g.status = s /\ g.started = s /\ g.told = f.told \cup {header}
      /\ g.env = f.env /\ g.kind = f.kind /\ g.at = f.at /\ g.exc = f.exc /\ g.rows = f.rows
      /\ g.own = f.own /\ g.uuid = f.uuid /\ g.surfaced = f.surfaced /\ g.known = f.known
      /\ g.reports = f.reports /\ g.inner = f.inner /\ g.escaped = f.escaped /\ g.twice = f.twice
  BY <1>3 DEF FrameType
<1>6. Good(g, n)
  BY <1>2, <1>5 DEF Good
<1>7. QED BY <1>4, <1>5, <1>6

(* Another grant, place or exception. *)
Moved(f, o, a, x) == [f EXCEPT !.own = o, !.at = a, !.exc = x]

LEMMA MovedType ==
  ASSUME NEW f \in FrameType, NEW o \in GrantType,
         NEW a \in {"app", "raised", "announced", "escaping"}, NEW x \in Exceptions
  PROVE  LET g == Moved(f, o, a, x) IN
         g \in FrameType /\ Same(g, f) /\ g.own = o /\ g.at = a /\ g.exc = x
<1> DEFINE k == [f EXCEPT !.own = o]
           l == [k EXCEPT !.at = a]
           g == [l EXCEPT !.exc = x]
<1>1. k \in FrameType /\ Same(k, f) /\ k.own = o
  BY DEF FrameType, GrantType, Same
<1>2. g = Moved(f, o, a, x)
  BY DEF FrameType, Moved
<1> HIDE DEF k
<1>3. l \in FrameType /\ Same(l, k) /\ l.own = k.own /\ l.at = a
  BY <1>1 DEF FrameType, Same
<1> HIDE DEF l
<1>4. g \in FrameType /\ Same(g, l) /\ g.own = l.own /\ g.at = l.at /\ g.exc = x
  BY <1>3 DEF FrameType, Same
<1> HIDE DEF g
<1>5. QED BY <1>1, <1>2, <1>3, <1>4 DEF Same

(* What has nothing to do with the environs leaves them be. *)
LEMMA Kept ==
  ASSUME Inv, NEW t \in Threads, UNCHANGED environ
  PROVE  /\ environ' \in [Environs -> EnvType]
         /\ \A d \in Environs : d # store[t] => environ'[d] = environ[d]
BY DEF Inv, Typed

LEMMA Counted ==
  ASSUME Inv
  PROVE  raised \in Nat /\ raised \in 0..MaxRaises /\ MaxRaises \in Nat
BY BoundAssumption DEF Inv, Typed

LEMMA NoExcType == NoExc \in Exceptions
BY BoundAssumption DEF NoExc, Exceptions

-----------------------------------------------------------------------------
(* One lemma per step. *)

LEMMA InitInv == Init => Inv
<1> SUFFICES ASSUME Init PROVE Inv
  OBVIOUS
<1>1. << >> \in Seq(FrameType) /\ Len(<< >>) = 0
  BY EmptySeq
<1>2. Typed
  BY <1>1, BoundAssumption DEF Init, Typed, EnvType, Uuids, OrNone
<1>3. \A t \in Threads : frames[t] = << >> /\ Len(frames[t]) = 0 /\ lazy[t] = << >> /\ store[t] = None
  BY <1>1 DEF Init
<1>4. Stacked /\ Apart
  BY <1>3 DEF Stacked, Apart
<1>5. Pointed /\ Ended
  BY <1>3 DEF Init, Pointed, Ended
<1>6. Lazy
  BY <1>3 DEF Init, Lazy, Late
<1>7. QED BY <1>2, <1>4, <1>5, <1>6 DEF Inv

(* Putting a grant in the store. *)
LEMMA PutFacts ==
  ASSUME Inv, NEW t \in Threads, frames[t] # << >>, NEW g \in GrantType, Put(t, g)
  PROVE  /\ environ' \in [Environs -> EnvType]
         /\ \A d \in Environs : d # store[t] => environ'[d] = environ[d]
         /\ Top(t).inner = FALSE =>
              LET s == store[t] IN
              /\ environ'[s].uuid = environ[s].uuid /\ environ'[s].reported = environ[s].reported
              /\ environ'[s].caller = g.caller /\ environ'[s].deprecated = g.deprecated
<1>1. \A e \in Environs :
        LET c == [environ[e] EXCEPT !.caller = g.caller]
            d == [c EXCEPT !.deprecated = g.deprecated]
        IN /\ environ[e] \in EnvType /\ c \in EnvType /\ d \in EnvType
           /\ d = [environ[e] EXCEPT !.caller = g.caller, !.deprecated = g.deprecated]
           /\ d.uuid = environ[e].uuid /\ d.reported = environ[e].reported
           /\ d.caller = g.caller /\ d.deprecated = g.deprecated
  <2> SUFFICES ASSUME NEW e \in Environs
               PROVE  LET c == [environ[e] EXCEPT !.caller = g.caller]
                          d == [c EXCEPT !.deprecated = g.deprecated]
                      IN /\ environ[e] \in EnvType /\ c \in EnvType /\ d \in EnvType
                         /\ d = [environ[e] EXCEPT !.caller = g.caller, !.deprecated = g.deprecated]
                         /\ d.uuid = environ[e].uuid /\ d.reported = environ[e].reported
                         /\ d.caller = g.caller /\ d.deprecated = g.deprecated
    OBVIOUS
  <2> DEFINE c == [environ[e] EXCEPT !.caller = g.caller]
             d == [c EXCEPT !.deprecated = g.deprecated]
  <2>1. environ[e] \in EnvType
    BY DEF Inv, Typed
  <2>2. c \in EnvType /\ c.uuid = environ[e].uuid /\ c.reported = environ[e].reported /\ c.caller = g.caller
    BY <2>1 DEF EnvType, GrantType
  <2>3. d = [environ[e] EXCEPT !.caller = g.caller, !.deprecated = g.deprecated]
    BY <2>1 DEF EnvType
  <2> HIDE DEF c
  <2>4. g.deprecated \in BOOLEAN
    BY DEF GrantType
  <2>5. d \in EnvType
    BY <2>2, <2>4 DEF EnvType
  <2>6. /\ d.uuid = c.uuid /\ d.reported = c.reported /\ d.caller = c.caller
        /\ d.deprecated = g.deprecated
    BY <2>2 DEF EnvType
  <2> HIDE DEF d
  <2>7. QED BY <2>1, <2>2, <2>3, <2>5, <2>6 DEF c, d
<1>2. \A e \in Environs : environ'[e] \in EnvType
  BY <1>1 DEF Put
<1>3. environ' \in [Environs -> EnvType]
  BY <1>2 DEF Put
<1>4. \A d \in Environs : d # store[t] => environ'[d] = environ[d]
  BY DEF Put
<1>5. Top(t).inner = FALSE => store[t] \in Environs
  BY OnTop DEF Attached, FrameType
<1>6. QED BY <1>1, <1>3, <1>4, <1>5 DEF Put

(* What Attached looks at. *)
LEMMA AlikeAttached ==
  ASSUME NEW g \in FrameType, NEW f \in FrameType, NEW s, NEW env, Attached(g, s, env),
         f.inner = g.inner, f.env = g.env, f.uuid = g.uuid, f.own = g.own, f.known = g.known,
         f.surfaced = g.surfaced, f.reports = g.reports, f.at = g.at, f.exc = g.exc, f.kind = g.kind
  PROVE  Attached(f, s, env)
<1>1. Pending(f) = Pending(g)
  BY DEF Pending
<1>2. QED BY <1>1 DEF Attached

LEMMA AuthorizeStep ==
  ASSUME Inv, NEW t \in Threads, NEW g \in GrantType, Authorize(t, g)
  PROVE  Inv'
<1> DEFINE f == [Top(t) EXCEPT !.own = g]
<1>1. frames[t] # << >> /\ Top(t).at = "app" /\ Put(t, g) /\ SetTop(t, f)
      /\ UNCHANGED <<store, lazy, served, raised>> /\ ended' = {}
  BY DEF Authorize, In, Ongoing
<1>2. /\ Top(t) \in FrameType /\ OnStack(Top(t), raised) /\ Attached(Top(t), store[t], environ)
      /\ Top(t).exc \in Exceptions
  BY <1>1, OnTop DEF FrameType
<1> HIDE DEF f
<1>3. f \in FrameType /\ Same(f, Top(t)) /\ f.own = g /\ f.at = "app" /\ f.exc = Top(t).exc
  <2>1. f = Moved(Top(t), g, Top(t).at, Top(t).exc)
    BY <1>2 DEF f, Moved, FrameType
  <2>2. QED BY <1>1, <1>2, <2>1, MovedType
<1>4. OnStack(f, raised')
  BY <1>1, <1>2, <1>3, Counted, SameOnStack DEF OnStack
<1>5. /\ environ' \in [Environs -> EnvType]
      /\ \A d \in Environs : d # store[t] => environ'[d] = environ[d]
      /\ Top(t).inner = FALSE =>
           LET s == store[t] IN
           /\ environ'[s].uuid = environ[s].uuid /\ environ'[s].reported = environ[s].reported
           /\ environ'[s].caller = g.caller /\ environ'[s].deprecated = g.deprecated
  BY <1>1, PutFacts
<1>6. Attached(f, store[t], environ')
  <2>1. f.inner = FALSE =>
          LET s == store[t] IN
          /\ environ'[s].uuid = environ[s].uuid /\ environ'[s].reported = environ[s].reported
          /\ environ'[s].caller = f.own.caller /\ environ'[s].deprecated = f.own.deprecated
    BY <1>3, <1>5 DEF Same
  <2>2. QED BY <1>1, <1>2, <1>3, <2>1, SameAttached
<1>7. f.env = Top(t).env
  BY <1>3 DEF Same
<1>8. QED BY <1>1, <1>3, <1>4, <1>5, <1>6, <1>7, Counted, TopStep

LEMMA AuthenticateStep ==
  ASSUME Inv, NEW t \in Threads, NEW c \in Callers, Authenticate(t, c)
  PROVE  Inv'
<1>1. [Stored(t) EXCEPT !.caller = c] \in GrantType
  BY StoreType DEF GrantType, OrNone
<1>2. QED BY <1>1, AuthorizeStep DEF Authenticate

(* A fresh exception, of the app's own or a refusal. *)
LEMMA ThrowStep ==
  ASSUME Inv, NEW t \in Threads, In(t, "app"), NEW o \in GrantType,
         NEW status \in Refusals \cup {None},
         NEW h, \/ h = [Top(t) EXCEPT !.own = o, !.at = "raised"]
                \/ o = Top(t).own /\ h = [Top(t) EXCEPT !.at = "raised"],
         Throw(t, h, status),
         environ' \in [Environs -> EnvType],
         \A d \in Environs : d # store[t] => environ'[d] = environ[d],
         Top(t).inner = FALSE =>
           LET s == store[t] IN
           /\ environ'[s].uuid = environ[s].uuid /\ environ'[s].reported = environ[s].reported
           /\ environ'[s].caller = o.caller /\ environ'[s].deprecated = o.deprecated,
         UNCHANGED <<store, lazy, served>>, ended' = {}
  PROVE  Inv'
<1>1. frames[t] # << >> /\ Top(t).at = "app"
  BY DEF In
<1>2. /\ Top(t) \in FrameType /\ OnStack(Top(t), raised) /\ Attached(Top(t), store[t], environ)
  BY <1>1, OnTop
<1>3. PICK a \in Addresses \ Live :
        SetTop(t, [h EXCEPT !.exc = [id |-> raised', addr |-> a, status |-> status]])
  BY DEF Throw
<1> DEFINE x == [id |-> raised', addr |-> a, status |-> status]
           f == [h EXCEPT !.exc = x]
<1>4. raised' = raised + 1 /\ raised' \in 0..MaxRaises /\ raised \in Nat /\ raised' \in Nat
  BY Counted DEF Throw
<1>5. x \in Exceptions /\ x.id = raised' /\ x.addr = a /\ a \in Addresses
  BY <1>4 DEF Exceptions
<1> HIDE DEF x
<1>6. f \in FrameType /\ Same(f, Top(t)) /\ f.own = o /\ f.at = "raised" /\ f.exc = x
  <2>1. f = Moved(Top(t), o, "raised", x)
    <3>1. CASE h = [Top(t) EXCEPT !.own = o, !.at = "raised"]
      BY <1>2, <3>1 DEF Moved, FrameType
    <3>2. CASE o = Top(t).own /\ h = [Top(t) EXCEPT !.at = "raised"]
      BY <1>2, <3>2 DEF Moved, FrameType
    <3>3. QED BY <3>1, <3>2
  <2> HIDE DEF f
  <2>2. QED BY <1>2, <1>5, <2>1, MovedType
<1>7. SetTop(t, f)
  BY <1>3 DEF x
<1> HIDE DEF f
<1>8. OnStack(f, raised')
  BY <1>2, <1>4, <1>5, <1>6, SameOnStack
<1>9. f.exc \notin f.reports
  <2>1. \A y \in Top(t).reports : y.id <= raised
    BY <1>2 DEF OnStack, Good
  <2>2. QED BY <1>4, <1>5, <1>6, <2>1 DEF Same
<1>10. Attached(f, store[t], environ')
  BY <1>1, <1>2, <1>6, <1>9, SameAttached DEF Same
<1>11. raised <= raised'
  BY <1>4
<1>12. QED BY <1>1, <1>4, <1>6, <1>7, <1>8, <1>10, <1>11, TopStep DEF Same

LEMMA RefuseAuthorizationStep ==
  ASSUME Inv, NEW t \in Threads, NEW status \in Refusals, RefuseAuthorization(t, status)
  PROVE  Inv'
<1>1. NoGrant \in GrantType
  BY DEF NoGrant, GrantType, OrNone
<1>2. frames[t] # << >> /\ Put(t, NoGrant)
  BY DEF RefuseAuthorization, In
<1>3. QED BY <1>1, <1>2, PutFacts, ThrowStep DEF RefuseAuthorization, Ongoing

(* The store is kept. *)
LEMMA ThrowKept ==
  ASSUME Inv, NEW t \in Threads, In(t, "app"), NEW status \in Refusals \cup {None},
         Throw(t, [Top(t) EXCEPT !.at = "raised"], status),
         UNCHANGED <<environ, store, lazy, served>>, ended' = {}
  PROVE  Inv'
<1>1. frames[t] # << >>
  BY DEF In
<1>2. Top(t) \in FrameType /\ Top(t).own \in GrantType /\ Attached(Top(t), store[t], environ)
  BY <1>1, OnTop DEF FrameType, GrantType
<1>3. Top(t).inner = FALSE =>
        LET s == store[t] IN
        /\ environ'[s].uuid = environ[s].uuid /\ environ'[s].reported = environ[s].reported
        /\ environ'[s].caller = Top(t).own.caller /\ environ'[s].deprecated = Top(t).own.deprecated
  BY <1>2 DEF Attached
<1>4. QED BY <1>2, <1>3, Kept, ThrowStep

LEMMA RefuseAuthenticationStep ==
  ASSUME Inv, NEW t \in Threads, NEW status \in Refusals, RefuseAuthentication(t, status)
  PROVE  Inv'
BY ThrowKept DEF RefuseAuthentication, Ongoing

LEMMA RaiseStep ==
  ASSUME Inv, NEW t \in Threads, Raise(t)
  PROVE  Inv'
BY ThrowKept DEF Raise, Ongoing

LEMMA LogStep ==
  ASSUME Inv, NEW t \in Threads, Log(t)
  PROVE  Inv'
<1> DEFINE f == Wrote(Top(t), Row(Top(t), OrOwn(Uuid(t)), Stored(t).caller))
<1>1. frames[t] # << >> /\ SetTop(t, f) /\ UNCHANGED <<environ, store, lazy, served, raised>>
      /\ ended' = {}
  BY DEF Log, In, Ongoing
<1>2. /\ Top(t) \in FrameType /\ OnStack(Top(t), raised) /\ Attached(Top(t), store[t], environ)
      /\ Good(Top(t), raised) /\ Fed(t, Top(t))
  BY <1>1, OnTop, TopFed DEF OnStack
<1>3. /\ f \in FrameType /\ Good(f, raised)
      /\ f = [Top(t) EXCEPT !.rows =
                Top(t).rows \cup {Row(Top(t), OrOwn(Uuid(t)), Stored(t).caller)}]
  BY <1>2, Counted, WroteGood
<1> HIDE DEF f
<1>4. /\ f.inner = Top(t).inner /\ f.env = Top(t).env /\ f.uuid = Top(t).uuid /\ f.own = Top(t).own
      /\ f.known = Top(t).known /\ f.surfaced = Top(t).surfaced /\ f.reports = Top(t).reports
      /\ f.at = Top(t).at /\ f.exc = Top(t).exc /\ f.kind = Top(t).kind
      /\ f.status = Top(t).status /\ f.started = Top(t).started /\ f.escaped = Top(t).escaped
      /\ f \in FrameType
  BY <1>2, <1>3 DEF FrameType
<1>5. OnStack(f, raised')
  BY <1>1, <1>2, <1>3, <1>4 DEF OnStack
<1>6. Attached(f, store[t], environ')
  BY <1>1, <1>2, <1>4, AlikeAttached
<1>7. QED BY <1>1, <1>4, <1>5, <1>6, Kept, Counted, TopStep

LEMMA StartResponseStep ==
  ASSUME Inv, NEW t \in Threads, NEW s \in Statuses, StartResponse(t, s)
  PROVE  Inv'
<1> DEFINE f == Start(t, Top(t), s)
<1>1. frames[t] # << >> /\ SetTop(t, f) /\ UNCHANGED <<environ, store, lazy, served, raised>>
      /\ ended' = {}
  BY DEF StartResponse, In, Ongoing
<1>2. /\ Top(t) \in FrameType /\ OnStack(Top(t), raised) /\ Attached(Top(t), store[t], environ)
      /\ Good(Top(t), raised) /\ Fed(t, Top(t))
  BY <1>1, OnTop, TopFed DEF OnStack
<1>3. /\ f \in FrameType /\ Good(f, raised) /\ f.status = s /\ f.started = s
      /\ f.inner = Top(t).inner /\ f.env = Top(t).env /\ f.uuid = Top(t).uuid /\ f.own = Top(t).own
      /\ f.known = Top(t).known /\ f.surfaced = Top(t).surfaced /\ f.reports = Top(t).reports
      /\ f.at = Top(t).at /\ f.exc = Top(t).exc /\ f.kind = Top(t).kind
      /\ f.escaped = Top(t).escaped
  BY <1>2, Counted, StartGood
<1> HIDE DEF f
<1>4. OnStack(f, raised')
  BY <1>1, <1>2, <1>3 DEF OnStack
<1>5. Attached(f, store[t], environ')
  BY <1>1, <1>2, <1>3, AlikeAttached
<1>6. QED BY <1>1, <1>3, <1>4, <1>5, Kept, Counted, TopStep

(* The exception is dealt with, by the app's handler or by the framework. *)
LEMMA SettledStep ==
  ASSUME Inv, NEW t \in Threads, Catch(t) \/ Answer500(t)
  PROVE  Inv'
<1> DEFINE f == [Top(t) EXCEPT !.at = "app", !.exc = NoExc]
<1>1. frames[t] # << >> /\ SetTop(t, f) /\ UNCHANGED <<environ, store, lazy, served, raised>>
      /\ ended' = {} /\ Top(t).at \in {"raised", "announced"}
  BY DEF Catch, Answer500, In, Ongoing
<1>2. /\ Top(t) \in FrameType /\ OnStack(Top(t), raised) /\ Attached(Top(t), store[t], environ)
      /\ Top(t).own \in GrantType
  BY <1>1, OnTop DEF FrameType, GrantType
<1> HIDE DEF f
<1>3. f \in FrameType /\ Same(f, Top(t)) /\ f.own = Top(t).own /\ f.at = "app" /\ f.exc = NoExc
  <2>1. f = Moved(Top(t), Top(t).own, "app", NoExc)
    BY <1>2 DEF f, Moved, FrameType
  <2>2. QED BY <1>2, <2>1, NoExcType, MovedType
<1>4. OnStack(f, raised')
  BY <1>1, <1>2, <1>3, Counted, SameOnStack
<1>5. Attached(f, store[t], environ')
  <2>1. f.inner = FALSE =>
           /\ environ'[store[t]].caller = f.own.caller
           /\ environ'[store[t]].deprecated = f.own.deprecated
    BY <1>1, <1>2, <1>3 DEF Attached, Same
  <2>2. QED BY <1>1, <1>2, <1>3, <2>1, SameAttached
<1>6. QED BY <1>1, <1>3, <1>4, <1>5, Kept, Counted, TopStep DEF Same

LEMMA PropagateStep ==
  ASSUME Inv, NEW t \in Threads, NEW place \in {"raised", "escaping"}, Propagate(t, place)
  PROVE  Inv'
<1> DEFINE f == [Top(t) EXCEPT !.at = place]
<1>1. frames[t] # << >> /\ SetTop(t, f) /\ UNCHANGED <<environ, store, lazy, served, raised>>
      /\ ended' = {} /\ Top(t).at = "announced"
  BY DEF Propagate, In, Ongoing
<1>2. /\ Top(t) \in FrameType /\ OnStack(Top(t), raised) /\ Attached(Top(t), store[t], environ)
      /\ Top(t).own \in GrantType /\ Top(t).exc \in Exceptions
  BY <1>1, OnTop DEF FrameType, GrantType
<1> HIDE DEF f
<1>3. f \in FrameType /\ Same(f, Top(t)) /\ f.own = Top(t).own /\ f.at = place /\ f.exc = Top(t).exc
  <2>1. f = Moved(Top(t), Top(t).own, place, Top(t).exc)
    BY <1>2 DEF f, Moved, FrameType
  <2>2. QED BY <1>2, <2>1, MovedType
<1>4. OnStack(f, raised')
  <2>1. f.exc.addr \in Addresses /\ f.exc.id <= raised'
    BY <1>1, <1>2, <1>3 DEF OnStack
  <2>2. QED BY <1>1, <1>2, <1>3, <2>1, Counted, SameOnStack
<1>5. Attached(f, store[t], environ')
  <2>1. f.inner = FALSE =>
           /\ environ'[store[t]].caller = f.own.caller
           /\ environ'[store[t]].deprecated = f.own.deprecated
    BY <1>1, <1>2, <1>3 DEF Attached, Same
  <2>2. QED BY <1>1, <1>2, <1>3, <2>1, SameAttached
<1>6. QED BY <1>1, <1>3, <1>4, <1>5, Kept, Counted, TopStep DEF Same

(* An exception nobody handled, on to the next place. *)
Passed(f, a) == [Unhandled(f) EXCEPT !.at = a]

LEMMA PassedFacts ==
  ASSUME NEW f \in FrameType, NEW n \in Nat, OnStack(f, n), f.at = "raised",
         NEW a \in {"announced", "escaping"}
  PROVE  LET g == Passed(f, a) IN
         /\ g \in FrameType /\ OnStack(g, n) /\ g.at = a /\ g.exc = f.exc
         /\ g.surfaced = f.surfaced \cup (IF f.exc.status = None THEN {f.exc} ELSE {})
         /\ g.env = f.env /\ g.kind = f.kind /\ g.own = f.own /\ g.uuid = f.uuid
         /\ g.reports = f.reports /\ g.known = f.known /\ g.inner = f.inner
         /\ g.status = f.status /\ g.started = f.started /\ g.escaped = f.escaped
<1> DEFINE more == f.surfaced \cup (IF f.exc.status = None THEN {f.exc} ELSE {})
           k == [f EXCEPT !.surfaced = more]
           g == [k EXCEPT !.at = a]
<1>1. more \in SUBSET Exceptions
  BY DEF FrameType
<1>2. Unhandled(f) = k
  <2>1. CASE f.exc.status = None
    BY <2>1 DEF Unhandled
  <2>2. CASE f.exc.status # None
    <3>1. more = f.surfaced
      BY <2>2
    <3>2. k = f
      BY <3>1 DEF FrameType
    <3>3. QED BY <2>2, <3>2 DEF Unhandled
  <2>3. QED BY <2>1, <2>2
<1>3. g = Passed(f, a)
  BY <1>2 DEF Passed
<1>4. \A x \in more : x.status = None /\ x.id <= n
  BY DEF OnStack, Good
<1> HIDE DEF more
<1>5. k \in FrameType
  BY <1>1 DEF FrameType
<1>6. /\ k.surfaced = more /\ k.exc = f.exc
      /\ k.env = f.env /\ k.kind = f.kind /\ k.own = f.own /\ k.uuid = f.uuid
      /\ k.reports = f.reports /\ k.known = f.known /\ k.inner = f.inner /\ k.rows = f.rows
      /\ k.told = f.told /\ k.twice = f.twice
      /\ k.status = f.status /\ k.started = f.started /\ k.escaped = f.escaped
  BY DEF FrameType
<1> HIDE DEF k
<1>7. g \in FrameType
  BY <1>5 DEF FrameType
<1>8. /\ g.surfaced = more /\ g.exc = f.exc /\ g.at = a
      /\ g.env = f.env /\ g.kind = f.kind /\ g.own = f.own /\ g.uuid = f.uuid
      /\ g.reports = f.reports /\ g.known = f.known /\ g.inner = f.inner /\ g.rows = f.rows
      /\ g.told = f.told /\ g.twice = f.twice
      /\ g.status = f.status /\ g.started = f.started /\ g.escaped = f.escaped
  BY <1>5, <1>6 DEF FrameType
<1> HIDE DEF g
<1>9. Good(g, n)
  BY <1>4, <1>8 DEF OnStack, Good
<1>10. OnStack(g, n)
  BY <1>7, <1>8, <1>9 DEF OnStack
<1>11. QED BY <1>3, <1>7, <1>8, <1>10 DEF more

LEMMA EscapePlainStep ==
  ASSUME Inv, NEW t \in Threads, EscapePlain(t)
  PROVE  Inv'
<1> DEFINE f == Passed(Top(t), "escaping")
<1>1. frames[t] # << >> /\ SetTop(t, f) /\ UNCHANGED <<environ, store, lazy, served, raised>>
      /\ ended' = {} /\ Top(t).at = "raised"
  BY DEF EscapePlain, In, Ongoing, Passed
<1>2. /\ Top(t) \in FrameType /\ OnStack(Top(t), raised) /\ Attached(Top(t), store[t], environ)
  BY <1>1, OnTop
<1> HIDE DEF f
<1>3. /\ f \in FrameType /\ OnStack(f, raised) /\ f.at = "escaping" /\ f.exc = Top(t).exc
      /\ f.surfaced \subseteq Top(t).surfaced \cup {f.exc}
      /\ f.env = Top(t).env /\ f.kind = Top(t).kind /\ f.own = Top(t).own /\ f.uuid = Top(t).uuid
      /\ f.reports = Top(t).reports /\ f.known = Top(t).known /\ f.inner = Top(t).inner
  BY <1>1, <1>2, Counted, PassedFacts DEF f
<1>4. Pending(f) \subseteq Pending(Top(t)) \cup {f.exc}
  BY <1>3 DEF Pending
<1>5. Attached(f, store[t], environ')
  BY <1>1, <1>2, <1>3, <1>4 DEF Attached
<1>6. OnStack(f, raised')
  BY <1>1, <1>3
<1>7. QED BY <1>1, <1>3, <1>5, <1>6, Kept, Counted, TopStep

(* The report of an exception the middleware hears of, in the middle of a    *)
(* dispatch.                                                                 *)
LEMMA ReportedFrame ==
  ASSUME Inv, NEW t \in Threads, frames[t] # << >>, Top(t).at = "raised",
         Top(t).exc.status = None,
         Top(t).kind # "django" /\ Top(t).inner = FALSE => Top(t).exc \notin Top(t).reports
  PROVE  LET f == Passed(Top(t), "announced")
             g == Report(t, f, Top(t).exc) IN
         /\ g \in FrameType /\ OnStack(g, raised) /\ g.at = "announced" /\ g.exc = Top(t).exc
         /\ g.reports = Top(t).reports \cup {Top(t).exc}
         /\ g.surfaced = Top(t).surfaced \cup {Top(t).exc}
         /\ g.env = Top(t).env /\ g.kind = Top(t).kind /\ g.own = Top(t).own /\ g.uuid = Top(t).uuid
         /\ g.known = Top(t).known /\ g.inner = Top(t).inner
<1> DEFINE f == Passed(Top(t), "announced")
           g == Report(t, f, Top(t).exc)
<1>1. Top(t) \in FrameType /\ OnStack(Top(t), raised) /\ Fed(t, Top(t))
  BY OnTop, TopFed
<1> HIDE DEF f
<1>2. /\ f \in FrameType /\ OnStack(f, raised) /\ f.at = "announced" /\ f.exc = Top(t).exc
      /\ f.surfaced = Top(t).surfaced \cup {Top(t).exc}
      /\ f.env = Top(t).env /\ f.kind = Top(t).kind /\ f.own = Top(t).own /\ f.uuid = Top(t).uuid
      /\ f.reports = Top(t).reports /\ f.known = Top(t).known /\ f.inner = Top(t).inner
      /\ f.status = f.started /\ f.escaped = NoExc
  BY <1>1, Counted, PassedFacts DEF f, OnStack
<1>3. Fed(t, f)
  BY <1>1, <1>2 DEF Fed
<1>4. Good(f, raised) /\ Top(t).exc \in Exceptions /\ Top(t).exc.id <= raised
  BY <1>1, <1>2 DEF OnStack, FrameType
<1> HIDE DEF g
<1>5. /\ g \in FrameType /\ Good(g, raised) /\ g.reports = f.reports \cup {Top(t).exc}
      /\ g.env = f.env /\ g.kind = f.kind /\ g.at = f.at /\ g.status = f.status /\ g.exc = f.exc
      /\ g.own = f.own /\ g.uuid = f.uuid /\ g.surfaced = f.surfaced /\ g.known = f.known
      /\ g.started = f.started /\ g.inner = f.inner /\ g.escaped = f.escaped
  <2>1. f.kind # "django" /\ f.inner = FALSE => Top(t).exc \notin f.reports
    BY <1>2
  <2>2. g = Report(t, f, Top(t).exc) /\ raised \in Nat
    BY Counted DEF g
  <2>3. Reported(f, Top(t).exc, raised, g)
    BY <1>2, <1>3, <1>4, <2>1, <2>2, ReportGood
  <2>4. QED BY <2>3 DEF Reported
<1>6. OnStack(g, raised)
  BY <1>1, <1>2, <1>5 DEF OnStack
<1>7. QED BY <1>2, <1>5, <1>6 DEF f, g

LEMMA ProcessExceptionStep ==
  ASSUME Inv, NEW t \in Threads, ProcessException(t)
  PROVE  Inv'
<1> DEFINE f == Passed(Top(t), "announced")
           g == IF Top(t).exc.status # None THEN f ELSE Report(t, f, Top(t).exc)
<1>1. frames[t] # << >> /\ UNCHANGED <<environ, store, lazy, served, raised>>
      /\ ended' = {} /\ Top(t).at = "raised"
  BY DEF ProcessException, In, Ongoing
<1>2. /\ Top(t) \in FrameType /\ OnStack(Top(t), raised) /\ Attached(Top(t), store[t], environ)
  BY <1>1, OnTop
<1>3. f \in FrameType /\ f.exc = Top(t).exc /\ f.kind = Top(t).kind
  BY <1>1, <1>2, Counted, PassedFacts
<1>4. SetTop(t, g) /\ Top(t).kind = "django"
  BY <1>3 DEF ProcessException, Passed
<1> HIDE DEF f
<1>5. /\ g \in FrameType /\ OnStack(g, raised) /\ g.at = "announced"
      /\ g.surfaced \ g.reports \subseteq Top(t).surfaced \ Top(t).reports
      /\ g.env = Top(t).env /\ g.kind = Top(t).kind /\ g.own = Top(t).own /\ g.uuid = Top(t).uuid
      /\ g.known = Top(t).known /\ g.inner = Top(t).inner
  <2>1. CASE Top(t).exc.status # None
    BY <1>1, <1>2, <2>1, Counted, PassedFacts DEF f
  <2>2. CASE Top(t).exc.status = None
    BY <1>1, <1>4, <2>2, ReportedFrame DEF f
  <2>3. QED BY <2>1, <2>2
<1> HIDE DEF g
<1>6. Pending(g) \subseteq Pending(Top(t))
  BY <1>5 DEF Pending
<1>7. Attached(g, store[t], environ')
  BY <1>1, <1>2, <1>4, <1>5, <1>6 DEF Attached
<1>8. OnStack(g, raised')
  BY <1>1, <1>5
<1>9. QED BY <1>1, <1>4, <1>5, <1>7, <1>8, Kept, Counted, TopStep

LEMMA HandlerRaisesStep ==
  ASSUME Inv, NEW t \in Threads, HandlerRaises(t)
  PROVE  Inv'
<1>1. /\ frames[t] # << >> /\ Top(t).at = "announced"
      /\ UNCHANGED <<environ, store, lazy, served>> /\ ended' = {}
      /\ raised' = raised + 1 /\ raised' \in 0..MaxRaises /\ raised \in Nat /\ raised' \in Nat
      /\ raised <= raised'
  BY Counted DEF HandlerRaises, In, Ongoing
<1>2. /\ Top(t) \in FrameType /\ OnStack(Top(t), raised) /\ Attached(Top(t), store[t], environ)
  BY <1>1, OnTop
<1>3. PICK a \in Addresses \ Live :
        LET y == [id |-> raised', addr |-> a, status |-> None]
        IN SetTop(t, [Top(t) EXCEPT !.at = "escaping", !.exc = y, !.surfaced = @ \cup {y}])
  BY DEF HandlerRaises
<1> DEFINE y == [id |-> raised', addr |-> a, status |-> None]
           more == Top(t).surfaced \cup {y}
           k == [Top(t) EXCEPT !.at = "escaping"]
           l == [k EXCEPT !.exc = y]
           f == [l EXCEPT !.surfaced = more]
<1>4. y \in Exceptions /\ y.id = raised' /\ y.addr \in Addresses /\ y.status = None
  BY <1>1 DEF Exceptions
<1>5. SetTop(t, f)
  BY <1>2, <1>3 DEF FrameType
<1> HIDE DEF y
<1>6. more \in SUBSET Exceptions
  BY <1>2, <1>4 DEF FrameType
<1>7. \A x \in more \cup Top(t).reports : x.status = None /\ x.id <= raised'
  <2>1. OnStack(Top(t), raised')
    BY <1>1, <1>2, MoreRaised
  <2>2. QED BY <1>1, <1>4, <2>1 DEF OnStack, Good
<1>8. y \notin Top(t).reports
  <2>1. \A x \in Top(t).reports : x.id <= raised
    BY <1>2 DEF OnStack, Good
  <2>2. QED BY <1>1, <1>4, <2>1
<1>9. f \in FrameType
  <2>1. k \in FrameType
    BY <1>2 DEF FrameType
  <2> HIDE DEF k
  <2>2. l \in FrameType
    BY <1>4, <2>1 DEF FrameType
  <2> HIDE DEF l, more
  <2>3. QED BY <1>6, <2>2 DEF FrameType
<1>10. /\ f.at = "escaping" /\ f.exc = y /\ f.surfaced = more
       /\ f.inner = Top(t).inner /\ f.env = Top(t).env /\ f.uuid = Top(t).uuid /\ f.own = Top(t).own
       /\ f.known = Top(t).known /\ f.reports = Top(t).reports /\ f.kind = Top(t).kind
       /\ f.status = Top(t).status /\ f.started = Top(t).started /\ f.escaped = Top(t).escaped
       /\ f.rows = Top(t).rows /\ f.told = Top(t).told /\ f.twice = Top(t).twice
  <2> HIDE DEF more
  <2>1. QED BY <1>2 DEF FrameType
<1> HIDE DEF f
<1>11. OnStack(f, raised')
  <2>1. Good(f, raised')
    BY <1>2, <1>7, <1>10 DEF OnStack, Good
  <2>2. QED BY <1>1, <1>2, <1>4, <1>9, <1>10, <2>1 DEF OnStack
<1>12. Pending(f) \subseteq Pending(Top(t)) \cup {y}
  BY <1>10 DEF Pending
<1>13. Attached(f, store[t], environ')
  BY <1>1, <1>2, <1>8, <1>10, <1>12 DEF Attached
<1>14. QED BY <1>1, <1>5, <1>9, <1>10, <1>11, <1>13, Kept, TopStep

(* The store remembers the address of what it has heard of. *)
LEMMA Remembered ==
  ASSUME Inv, NEW e \in Environs, NEW a \in Addresses,
         environ' = [environ EXCEPT ![e].reported = a]
  PROVE  /\ environ' \in [Environs -> EnvType]
         /\ \A d \in Environs : d # e => environ'[d] = environ[d]
         /\ environ'[e].reported = a /\ environ'[e].uuid = environ[e].uuid
         /\ environ'[e].caller = environ[e].caller /\ environ'[e].deprecated = environ[e].deprecated
<1> DEFINE d == [environ[e] EXCEPT !.reported = a]
<1>1. environ[e] \in EnvType
  BY DEF Inv, Typed
<1>2. /\ d \in EnvType /\ d.reported = a /\ d.uuid = environ[e].uuid
      /\ d.caller = environ[e].caller /\ d.deprecated = environ[e].deprecated
  BY <1>1 DEF EnvType, OrNone
<1>3. environ' = [environ EXCEPT ![e] = d]
  BY DEF Inv, Typed
<1> HIDE DEF d
<1>4. environ' \in [Environs -> EnvType] /\ environ'[e] = d
      /\ \A c \in Environs : c # e => environ'[c] = environ[c]
  BY <1>2, <1>3 DEF Inv, Typed
<1>5. QED BY <1>2, <1>4

LEMMA SignalStep ==
  ASSUME Inv, NEW t \in Threads, Signal(t)
  PROVE  Inv'
<1> DEFINE f == Passed(Top(t), "announced")
           x == Top(t).exc
           g == Report(t, f, x)
           h == [g EXCEPT !.known = g.known \cup {x.addr}]
           s == store[t]
<1>1. frames[t] # << >> /\ UNCHANGED <<store, lazy, served, raised>>
      /\ ended' = {} /\ Top(t).at = "raised"
  BY DEF Signal, In, Ongoing
<1>2. /\ Top(t) \in FrameType /\ OnStack(Top(t), raised) /\ Attached(Top(t), s, environ)
      /\ Top(t).kind \in Kinds /\ Top(t).inner \in BOOLEAN /\ Top(t).env \in Environs
  BY <1>1, OnTop DEF FrameType
<1>3. /\ f \in FrameType /\ OnStack(f, raised) /\ f.at = "announced" /\ f.exc = x
      /\ f.surfaced = Top(t).surfaced \cup (IF x.status = None THEN {x} ELSE {})
      /\ f.env = Top(t).env /\ f.kind = Top(t).kind /\ f.own = Top(t).own /\ f.uuid = Top(t).uuid
      /\ f.reports = Top(t).reports /\ f.known = Top(t).known /\ f.inner = Top(t).inner
  BY <1>1, <1>2, Counted, PassedFacts
<1>4. x.addr \in Addresses /\ x.addr # None
  BY <1>1, <1>2, NoneAssumption DEF OnStack
<1>5. IF s = None \/ x.status # None \/ WasReported(t, x)
      THEN SetTop(t, f) /\ UNCHANGED environ
      ELSE SetTop(t, h) /\ environ' = [environ EXCEPT ![s].reported = x.addr]
  BY <1>3 DEF Signal, Passed
<1> HIDE DEF f
<1>6. CASE s = None \/ x.status # None \/ WasReported(t, x)
  <2>1. SetTop(t, f) /\ UNCHANGED environ
    BY <1>5, <1>6
  <2>2. f.inner = FALSE => Pending(f) \subseteq Pending(Top(t))
    <3> SUFFICES ASSUME f.inner = FALSE PROVE Pending(f) \subseteq Pending(Top(t))
      OBVIOUS
    <3>1. s # None /\ environ[s].reported \in f.known \cup {None}
      BY <1>2, <1>3, NoneAssumption DEF Attached
    <3>2. CASE x.status # None
      BY <1>3, <3>2 DEF Pending
    <3>3. CASE WasReported(t, x)
      <4>1. x.addr \in f.known
        BY <1>4, <3>1, <3>3 DEF WasReported
      <4>2. QED BY <1>3, <4>1 DEF Pending
    <3>4. QED BY <1>6, <3>1, <3>2, <3>3
  <2>3. Attached(f, s, environ')
    BY <1>1, <1>2, <1>3, <2>1, <2>2 DEF Attached
  <2>4. OnStack(f, raised')
    BY <1>1, <1>3
  <2>5. QED BY <1>1, <1>3, <2>1, <2>3, <2>4, Kept, Counted, TopStep
<1>7. CASE s # None /\ x.status = None /\ ~WasReported(t, x)
  <2>1. SetTop(t, h) /\ environ' = [environ EXCEPT ![s].reported = x.addr]
    BY <1>5, <1>7
  <2>2. Top(t).inner = FALSE
    BY <1>2, <1>7 DEF Attached
  <2>3. s = Top(t).env /\ s \in Environs
    BY <1>2, <2>2 DEF Attached
  <2>4. Top(t).kind # "django" => x \notin Top(t).reports
    BY <1>1, <1>2, <1>7, <2>2 DEF Attached, WasReported
  <2>5. /\ g \in FrameType /\ OnStack(g, raised) /\ g.at = "announced" /\ g.exc = x
        /\ g.reports = Top(t).reports \cup {x} /\ g.surfaced = Top(t).surfaced \cup {x}
        /\ g.env = Top(t).env /\ g.kind = Top(t).kind /\ g.own = Top(t).own /\ g.uuid = Top(t).uuid
        /\ g.known = Top(t).known /\ g.inner = Top(t).inner
    BY <1>1, <1>7, <2>4, ReportedFrame DEF f
  <2> HIDE DEF g
  <2>6. g.known \cup {x.addr} \in SUBSET Addresses
    BY <1>4, <2>5 DEF FrameType
  <2> DEFINE known == g.known \cup {x.addr}
  <2>7. h = [g EXCEPT !.known = known]
    OBVIOUS
  <2> HIDE DEF known, h
  <2>8. h \in FrameType
    BY <2>5, <2>6, <2>7 DEF FrameType, known
  <2>9. /\ h.at = g.at /\ h.exc = g.exc /\ h.reports = g.reports /\ h.surfaced = g.surfaced
        /\ h.env = g.env /\ h.kind = g.kind /\ h.own = g.own /\ h.uuid = g.uuid
        /\ h.known = known /\ h.inner = g.inner /\ h.rows = g.rows /\ h.told = g.told
        /\ h.twice = g.twice /\ h.status = g.status /\ h.started = g.started
        /\ h.escaped = g.escaped
    BY <2>5, <2>7 DEF FrameType
  <2>10. OnStack(h, raised')
    <3>1. Good(h, raised)
      BY <2>5, <2>9 DEF OnStack, Good
    <3>2. QED BY <1>1, <2>5, <2>8, <2>9, <3>1 DEF OnStack
  <2>11. Pending(h) \subseteq Pending(Top(t))
    BY <2>5, <2>9 DEF Pending, known
  <2>12. /\ environ' \in [Environs -> EnvType]
         /\ \A d \in Environs : d # s => environ'[d] = environ[d]
         /\ environ'[s].reported = x.addr /\ environ'[s].uuid = environ[s].uuid
         /\ environ'[s].caller = environ[s].caller /\ environ'[s].deprecated = environ[s].deprecated
    BY <1>4, <2>1, <2>3, Remembered
  <2>13. x.addr \in h.known
    BY <2>9 DEF known
  <2>14. Attached(h, s, environ')
    BY <1>1, <1>2, <2>2, <2>5, <2>9, <2>11, <2>12, <2>13 DEF Attached
  <2>15. h.env = Top(t).env
    BY <2>5, <2>9
  <2>16. raised' \in 0..MaxRaises /\ raised <= raised' /\ SetTop(t, h)
    BY <1>1, <2>1, Counted
  <2>17. /\ environ' \in [Environs -> EnvType]
         /\ \A d \in Environs : d # store[t] => environ'[d] = environ[d]
    BY <2>12
  <2>18. Attached(h, store[t], environ')
    BY <2>14
  <2>19. QED BY <1>1, <2>8, <2>10, <2>15, <2>16, <2>17, <2>18, TopStep
<1>8. QED BY <1>6, <1>7

(* What is left of the stack when a dispatch is over, and what waits above.  *)
LEMMA FrontStack ==
  ASSUME Inv, NEW t \in Threads, frames[t] # << >>
  PROVE  /\ Front(frames[t]) \in Seq(FrameType)
         /\ Len(Front(frames[t])) = Len(frames[t]) - 1 /\ Len(frames[t]) \in Nat \ {0}
         /\ \A i \in 1..Len(Front(frames[t])) :
              /\ Front(frames[t])[i] = frames[t][i] /\ frames[t][i].inner = TRUE
              /\ OnStack(frames[t][i], raised) /\ frames[t][i] \in FrameType
<1>1. frames[t] \in Seq(FrameType)
  BY DEF Inv, Typed
<1>2. /\ Front(frames[t]) \in Seq(FrameType) /\ Len(Front(frames[t])) = Len(frames[t]) - 1
      /\ Len(frames[t]) \in Nat \ {0}
      /\ \A i \in 1..(Len(frames[t]) - 1) : Front(frames[t])[i] = frames[t][i]
  BY <1>1, TopFacts
<1>3. QED BY <1>2 DEF Inv, Stacked, OnStack

LEMMA LeftFacts ==
  ASSUME Inv, NEW t \in Threads, frames[t] # << >>,
         NEW answer \in {<< >>, <<lazy[t][1], Len(frames[t]) - 1>>}, Left(t, answer)
  PROVE  \E l : lazy' = [lazy EXCEPT ![t] = l] /\ Late(l, Len(frames[t]) - 1, None, raised)
<1> DEFINE n == Len(frames[t])
           l == IF lazy[t] # << >> /\ lazy[t][2] = n THEN answer ELSE lazy[t]
<1>1. lazy' = [lazy EXCEPT ![t] = l]
  BY DEF Left, Inv, Lazy
<1>2. n \in Nat \ {0}
  BY OnTop
<1>3. Late(lazy[t], n, store[t], raised)
  BY DEF Inv, Lazy
<1>4. Late(l, n - 1, None, raised)
  <2> HIDE DEF n
  <2>1. CASE lazy[t] = << >>
    BY <2>1 DEF Late
  <2>2. CASE lazy[t] # << >>
    <3>1. PICK f \in FrameType, k \in Nat :
            lazy[t] = <<f, k>> /\ OnStack(f, raised) /\ f.at = "app" /\ k <= n
      BY <1>3, <2>2 DEF Late
    <3>2. CASE k = n
      <4>1. l = answer /\ n - 1 \in Nat
        BY <1>2, <2>2, <3>1, <3>2
      <4>2. answer = << >> \/ answer = <<f, n - 1>>
        BY <3>1 DEF n
      <4>3. QED BY <3>1, <4>1, <4>2 DEF Late
    <3>3. CASE k # n
      <4>1. l = <<f, k>> /\ k <= n - 1
        BY <1>2, <2>2, <3>1, <3>3
      <4>2. QED BY <3>1, <4>1 DEF Late
    <3>4. QED BY <3>2, <3>3
  <2>3. QED BY <2>1, <2>2
<1>5. QED BY <1>1, <1>4

(* A dispatch is over once its response row is written. *)
LEMMA OverFacts ==
  ASSUME Inv, NEW t \in Threads, NEW e \in FrameType, Good(e, raised), Fed(t, e), e.at = "ended",
         e.inner = FALSE => \A x \in e.surfaced \ e.reports : x.addr \in e.known,
         e.started # None => e.status = e.started,
         e.started = None /\ e.escaped.status # None => e.status = e.escaped.status,
         e.kind = "django" => e.status # None
  PROVE  Over(Wrote(e, ResponseRow(t, e)), raised)
<1> DEFINE row == Row(e, Uuid(t), Stored(t).caller)
           g == Wrote(e, row)
<1>1. /\ g \in FrameType /\ Good(g, raised) /\ g = [e EXCEPT !.rows = e.rows \cup {row}]
      /\ row.caller = Stored(t).caller
  <2>1. Uuid(t) \in {Uuid(t), OrOwn(Uuid(t))} /\ raised \in Nat
    BY Counted
  <2>2. QED BY <2>1, WroteGood
<1> HIDE DEF row
<1>2. /\ g.rows = e.rows \cup {row} /\ g.own = e.own /\ g.inner = e.inner /\ g.surfaced = e.surfaced
      /\ g.reports = e.reports /\ g.known = e.known /\ g.started = e.started /\ g.status = e.status
      /\ g.escaped = e.escaped /\ g.kind = e.kind /\ g.at = e.at
  <2> HIDE DEF g
  <2>1. QED BY <1>1 DEF FrameType
<1> HIDE DEF g
<1>3. g.inner = FALSE => row \in g.rows /\ row.caller = g.own.caller
  BY <1>1, <1>2 DEF Fed
<1>4. Over(g, raised)
  BY <1>1, <1>2, <1>3 DEF Over
<1>5. QED BY <1>4 DEF g, row, ResponseRow

(* The app returned, whatever becomes of its answer. *)
LEMMA ReturnedFrame ==
  ASSUME Inv, NEW t \in Threads, In(t, "app"), NEW k \in FrameType, Good(k, raised),
         k.inner = Top(t).inner, k.uuid = Top(t).uuid, k.own = Top(t).own, k.known = Top(t).known,
         k.surfaced = Top(t).surfaced, k.reports = Top(t).reports, k.escaped = Top(t).escaped,
         k.kind = Top(t).kind, k.status = k.started, k.kind = "django" => k.status # None,
         k.at = "app", NEW e, e = [k EXCEPT !.at = "ended"]
  PROVE  Over(Wrote(e, ResponseRow(t, e)), raised)
<1>1. /\ frames[t] # << >> /\ Top(t).at = "app" /\ Top(t) \in FrameType
      /\ OnStack(Top(t), raised) /\ Attached(Top(t), store[t], environ) /\ Fed(t, Top(t))
  BY OnTop, TopFed DEF In
<1>2. /\ e \in FrameType /\ e.at = "ended" /\ e.inner = k.inner /\ e.uuid = k.uuid /\ e.own = k.own
      /\ e.known = k.known /\ e.surfaced = k.surfaced /\ e.reports = k.reports
      /\ e.escaped = k.escaped /\ e.kind = k.kind /\ e.status = k.status /\ e.started = k.started
      /\ e.rows = k.rows /\ e.told = k.told /\ e.twice = k.twice
  BY DEF FrameType
<1>3. Good(e, raised)
  BY <1>2 DEF Good
<1>4. Fed(t, e)
  BY <1>1, <1>2 DEF Fed
<1>5. e.inner = FALSE => \A x \in e.surfaced \ e.reports : x.addr \in e.known
  <2>1. e.inner = FALSE => Pending(Top(t)) = {}
    BY <1>1, <1>2 DEF Attached
  <2>2. QED BY <1>2, <2>1 DEF Pending
<1>6. e.escaped.status = None
  BY <1>1, <1>2 DEF OnStack, NoExc
<1>7. QED BY <1>2, <1>3, <1>4, <1>5, <1>6, OverFacts

LEMMA ReturnStep ==
  ASSUME Inv, NEW t \in Threads, NEW s \in Statuses, Return(t, s)
  PROVE  Inv'
<1> DEFINE f == Top(t)
           k == IF f.kind = "django" THEN Start(t, f, s) ELSE f
           e == [k EXCEPT !.at = "ended"]
           stack == Front(frames[t])
<1>1. /\ In(t, "app") /\ frames[t] # << >> /\ Left(t, <<lazy[t][1], Len(frames[t]) - 1>>)
      /\ ended' = {Wrote(e, ResponseRow(t, e))} /\ store' = [store EXCEPT ![t] = None]
      /\ frames' = [frames EXCEPT ![t] = stack] /\ UNCHANGED <<environ, served, raised>>
  BY DEF Return, Finish, In
<1>2. /\ f \in FrameType /\ OnStack(f, raised) /\ Good(f, raised) /\ Fed(t, f) /\ f.at = "app"
      /\ f.status = f.started
  BY <1>1, OnTop, TopFed DEF OnStack, In
<1>3. s # None
  BY NoneAssumption
<1>4. /\ k \in FrameType /\ Good(k, raised) /\ k.at = "app"
      /\ k.inner = Top(t).inner /\ k.uuid = Top(t).uuid /\ k.own = Top(t).own
      /\ k.known = Top(t).known /\ k.surfaced = Top(t).surfaced /\ k.reports = Top(t).reports
      /\ k.escaped = Top(t).escaped /\ k.kind = Top(t).kind
      /\ k.status = k.started /\ (k.kind = "django" => k.status # None)
  <2>1. CASE f.kind = "django"
    <3>1. k = Start(t, f, s)
      BY <2>1
    <3> HIDE DEF k
    <3>2. /\ k \in FrameType /\ Good(k, raised) /\ k.status = s /\ k.started = s
          /\ k.env = f.env /\ k.kind = f.kind /\ k.at = f.at /\ k.exc = f.exc /\ k.rows = f.rows
          /\ k.own = f.own /\ k.uuid = f.uuid /\ k.surfaced = f.surfaced /\ k.known = f.known
          /\ k.reports = f.reports /\ k.inner = f.inner /\ k.escaped = f.escaped
          /\ k.twice = f.twice
      BY <1>2, <3>1, Counted, StartGood
    <3>3. QED BY <1>2, <1>3, <3>2
  <2>2. CASE f.kind # "django"
    BY <1>2, <2>2
  <2>3. QED BY <2>1, <2>2
<1> HIDE DEF k
<1>5. \A g \in ended' : Over(g, raised)
  <2>1. Over(Wrote(e, ResponseRow(t, e)), raised)
    BY <1>1, <1>4, ReturnedFrame
  <2>2. QED BY <1>1, <2>1
<1>6. PICK l : lazy' = [lazy EXCEPT ![t] = l] /\ Late(l, Len(frames[t]) - 1, None, raised)
  BY <1>1, LeftFacts
<1>7. /\ stack \in Seq(FrameType) /\ Len(stack) = Len(frames[t]) - 1 /\ Len(stack) < Len(frames[t])
      /\ \A i \in 1..Len(stack) :
           stack[i].env = frames[t][i].env /\ stack[i].inner = TRUE /\ OnStack(stack[i], raised)
  <2>1. /\ stack \in Seq(FrameType) /\ Len(stack) = Len(frames[t]) - 1 /\ Len(frames[t]) \in Nat \ {0}
        /\ \A i \in 1..Len(stack) :
             /\ stack[i] = frames[t][i] /\ frames[t][i].inner = TRUE
             /\ OnStack(frames[t][i], raised)
    BY <1>1, FrontStack
  <2> HIDE DEF stack
  <2>2. QED BY <2>1
<1> HIDE DEF stack
<1>8. QED BY <1>1, <1>5, <1>6, <1>7, PopStep

LEMMA ReturnLazilyStep ==
  ASSUME Inv, NEW t \in Threads, ReturnLazily(t)
  PROVE  Inv'
<1> DEFINE f == Top(t)
           e == [f EXCEPT !.at = "ended"]
           stack == Front(frames[t])
           l == <<f, Len(frames[t]) - 1>>
<1>1. /\ In(t, "app") /\ frames[t] # << >> /\ f.kind = "wsgi" /\ lazy' = [lazy EXCEPT ![t] = l]
      /\ ended' = {Wrote(e, ResponseRow(t, e))} /\ store' = [store EXCEPT ![t] = None]
      /\ frames' = [frames EXCEPT ![t] = stack] /\ UNCHANGED <<environ, served, raised>>
  BY DEF ReturnLazily, Finish, In
<1>2. f \in FrameType /\ OnStack(f, raised) /\ Good(f, raised) /\ f.at = "app" /\ f.status = f.started
  BY <1>1, OnTop DEF OnStack, In
<1>3. Over(Wrote(e, ResponseRow(t, e)), raised)
  BY <1>1, <1>2, ReturnedFrame
<1>4. \A g \in ended' : Over(g, raised)
  BY <1>1, <1>3
<1>5. /\ stack \in Seq(FrameType) /\ Len(stack) = Len(frames[t]) - 1 /\ Len(stack) < Len(frames[t])
      /\ Len(stack) \in Nat
      /\ \A i \in 1..Len(stack) :
           stack[i].env = frames[t][i].env /\ stack[i].inner = TRUE /\ OnStack(stack[i], raised)
  <2>1. /\ stack \in Seq(FrameType) /\ Len(stack) = Len(frames[t]) - 1 /\ Len(frames[t]) \in Nat \ {0}
        /\ \A i \in 1..Len(stack) :
             /\ stack[i] = frames[t][i] /\ frames[t][i].inner = TRUE
             /\ OnStack(frames[t][i], raised)
    BY <1>1, FrontStack
  <2> HIDE DEF stack
  <2>2. QED BY <2>1
<1>6. Late(l, Len(stack), None, raised)
  <2>1. l = <<f, Len(stack)>>
    BY <1>5
  <2> HIDE DEF f, stack, l
  <2>2. QED BY <1>2, <1>5, <2>1 DEF Late
<1> HIDE DEF stack, l
<1>7. QED BY <1>1, <1>4, <1>5, <1>6, PopStep

(* What the except branches leave for the response row. *)
WithStatus(f, s) == [f EXCEPT !.status = s]

LEMMA WithStatusFacts ==
  ASSUME NEW f \in FrameType, NEW n \in Nat, Good(f, n),
         NEW s \in Statuses \cup Refusals \cup {None, 500}
  PROVE  LET g == WithStatus(f, s) IN
         /\ g \in FrameType /\ Good(g, n) /\ g.status = s /\ g.started = f.started /\ g.kind = f.kind
         /\ g.at = f.at /\ g.inner = f.inner /\ g.uuid = f.uuid /\ g.own = f.own /\ g.known = f.known
         /\ g.surfaced = f.surfaced /\ g.reports = f.reports
<1> DEFINE g == [f EXCEPT !.status = s]
<1>1. g \in FrameType
  BY DEF FrameType
<1>2. /\ g.status = s /\ g.started = f.started /\ g.kind = f.kind
      /\ g.at = f.at /\ g.inner = f.inner /\ g.uuid = f.uuid /\ g.own = f.own /\ g.known = f.known
      /\ g.surfaced = f.surfaced /\ g.reports = f.reports /\ g.rows = f.rows /\ g.told = f.told
      /\ g.twice = f.twice
  BY DEF FrameType
<1>3. g = WithStatus(f, s)
  BY DEF WithStatus
<1> HIDE DEF g
<1>4. Good(g, n)
  BY <1>2 DEF Good
<1>5. QED BY <1>1, <1>2, <1>3, <1>4

LEMMA SettledFrame ==
  ASSUME Inv, NEW t \in Threads, In(t, "escaping")
  PROVE  LET f == Top(t)
             k == Settled(t, f) IN
         /\ k \in FrameType /\ Good(k, raised) /\ k.inner = f.inner /\ k.uuid = f.uuid /\ k.own = f.own
         /\ k.kind = f.kind /\ k.started = f.started /\ k.known = f.known /\ k.at = "escaping"
         /\ k.inner = FALSE => \A x \in k.surfaced \ k.reports : x.addr \in k.known
         /\ k.started # None => k.status = k.started
         /\ k.started = None /\ f.exc.status # None => k.status = f.exc.status
         /\ k.kind = "django" => k.status # None
<1> DEFINE f == Top(t)
           x == f.exc
           k == Settled(t, f)
           r == Report(t, f, x)
<1>1. /\ frames[t] # << >> /\ f.at = "escaping" /\ f \in FrameType /\ OnStack(f, raised)
      /\ Attached(f, store[t], environ) /\ Fed(t, f) /\ Good(f, raised) /\ raised \in Nat
      /\ f.status = f.started
  BY OnTop, TopFed, Counted DEF In, OnStack
<1>2. x \in Exceptions /\ x.addr \in Addresses /\ x.id <= raised
  BY <1>1 DEF OnStack, FrameType
<1>3. x.status \in Refusals \cup {None} /\ None # 500 /\ f.status \in OrNone(Statuses)
  BY <1>1, <1>2, NoneAssumption DEF Exceptions, FrameType
<1>4. f.inner = FALSE => /\ store[t] # None /\ environ[store[t]].reported \in f.known \cup {None}
                         /\ Pending(f) \subseteq {x}
                         /\ f.kind # "django" /\ x \in f.reports => environ[store[t]].reported = x.addr
  BY <1>1, NoneAssumption DEF Attached, FrameType
<1>5. x.status = None /\ (f.kind = "django" \/ ~WasReported(t, x)) => Reported(f, x, raised, r)
  <2> SUFFICES ASSUME x.status = None, f.kind = "django" \/ ~WasReported(t, x)
               PROVE  Reported(f, x, raised, r)
    OBVIOUS
  <2>1. f.kind # "django" /\ f.inner = FALSE => x \notin f.reports
    BY <1>4 DEF WasReported
  <2>2. QED BY <1>1, <1>2, <2>1, ReportGood
<1>6. CASE x.status # None
  <2> DEFINE s == IF f.status = None THEN x.status ELSE f.status
  <2>1. s \in Statuses \cup Refusals \cup {None, 500}
    BY <1>3 DEF OrNone
  <2>2. k = WithStatus(f, s)
    BY <1>6 DEF Settled, WithStatus
  <2>3. f.inner = FALSE => Pending(f) = {}
    BY <1>1, <1>4, <1>6 DEF Pending, Good
  <2> HIDE DEF k, s
  <2>4. /\ k \in FrameType /\ Good(k, raised) /\ k.status = s /\ k.started = f.started
        /\ k.kind = f.kind /\ k.at = f.at /\ k.inner = f.inner /\ k.uuid = f.uuid /\ k.own = f.own
        /\ k.known = f.known /\ k.surfaced = f.surfaced /\ k.reports = f.reports
    BY <1>1, <2>1, <2>2, WithStatusFacts
  <2>5. k.inner = FALSE => \A y \in k.surfaced \ k.reports : y.addr \in k.known
    BY <2>3, <2>4 DEF Pending
  <2>6. /\ k.started # None => k.status = k.started
        /\ k.started = None => k.status = x.status
        /\ k.status # None
    BY <1>1, <1>6, <2>4 DEF s
  <2>7. QED BY <1>1, <2>4, <2>5, <2>6 DEF k
<1>7. CASE x.status = None /\ f.kind = "django"
  <2> DEFINE s == IF r.status = None THEN 500 ELSE r.status
  <2>1. /\ r \in FrameType /\ Good(r, raised) /\ r.reports = f.reports \cup {x}
        /\ r.kind = f.kind /\ r.at = f.at /\ r.status = f.status
        /\ r.own = f.own /\ r.uuid = f.uuid /\ r.surfaced = f.surfaced /\ r.known = f.known
        /\ r.started = f.started /\ r.inner = f.inner
    BY <1>5, <1>7 DEF Reported
  <2>2. k = WithStatus(r, s)
    BY <1>7 DEF Settled, WithStatus
  <2> HIDE DEF r
  <2>3. s \in Statuses \cup Refusals \cup {None, 500}
    BY <2>1 DEF FrameType
  <2> HIDE DEF k, s
  <2>4. /\ k \in FrameType /\ Good(k, raised) /\ k.status = s /\ k.started = r.started
        /\ k.kind = r.kind /\ k.at = r.at /\ k.inner = r.inner /\ k.uuid = r.uuid /\ k.own = r.own
        /\ k.known = r.known /\ k.surfaced = r.surfaced /\ k.reports = r.reports
    BY <1>1, <2>1, <2>2, <2>3, WithStatusFacts
  <2>5. k.inner = FALSE => \A y \in k.surfaced \ k.reports : y.addr \in k.known
    BY <1>4, <2>1, <2>4 DEF Pending
  <2>6. (k.started # None => k.status = k.started) /\ k.status # None
    BY <1>1, <1>3, <2>1, <2>4 DEF s
  <2>7. QED BY <1>1, <1>7, <2>1, <2>4, <2>5, <2>6 DEF k
<1>8. CASE x.status = None /\ f.kind # "django" /\ WasReported(t, x)
  <2>1. k = f
    BY <1>8 DEF Settled
  <2>2. f.inner = FALSE => x.addr \in f.known
    BY <1>2, <1>4, <1>8, NoneAssumption DEF WasReported
  <2>3. f.inner = FALSE => \A y \in f.surfaced \ f.reports : y.addr \in f.known
    BY <1>4, <2>2 DEF Pending
  <2> HIDE DEF k
  <2>4. QED BY <1>1, <1>8, <2>1, <2>3 DEF k
<1>9. CASE x.status = None /\ f.kind # "django" /\ ~WasReported(t, x)
  <2>1. k = r
    BY <1>9 DEF Settled
  <2>2. /\ r \in FrameType /\ Good(r, raised) /\ r.reports = f.reports \cup {x}
        /\ r.kind = f.kind /\ r.at = f.at /\ r.status = f.status
        /\ r.own = f.own /\ r.uuid = f.uuid /\ r.surfaced = f.surfaced /\ r.known = f.known
        /\ r.started = f.started /\ r.inner = f.inner
    BY <1>5, <1>9 DEF Reported
  <2> HIDE DEF k, r
  <2>3. k.inner = FALSE => \A y \in k.surfaced \ k.reports : y.addr \in k.known
    BY <1>4, <2>1, <2>2 DEF Pending
  <2>4. QED BY <1>1, <1>9, <2>1, <2>2, <2>3 DEF k
<1>10. QED BY <1>6, <1>7, <1>8, <1>9

LEMMA EscapeStep ==
  ASSUME Inv, NEW t \in Threads, Escape(t)
  PROVE  Inv'
<1> DEFINE f == Top(t)
           k == Settled(t, f)
           e == [k EXCEPT !.at = "ended", !.escaped = f.exc]
           below == Front(frames[t])
           raiser == [Last(below) EXCEPT !.at = "raised", !.exc = f.exc]
           stack == IF below = << >> THEN below ELSE Append(Front(below), raiser)
<1>1. /\ In(t, "escaping") /\ frames[t] # << >> /\ Left(t, << >>)
      /\ ended' = {Wrote(e, ResponseRow(t, e))} /\ store' = [store EXCEPT ![t] = None]
      /\ frames' = [frames EXCEPT ![t] = stack] /\ UNCHANGED <<environ, served, raised>>
  BY DEF Escape, Finish, In
<1>2. /\ f \in FrameType /\ OnStack(f, raised) /\ Fed(t, f) /\ f.at = "escaping"
      /\ f.exc \in Exceptions /\ f.exc.addr \in Addresses /\ f.exc.id <= raised
  BY <1>1, OnTop, TopFed DEF OnStack, In, FrameType
<1>3. /\ k \in FrameType /\ Good(k, raised) /\ k.inner = f.inner /\ k.uuid = f.uuid /\ k.own = f.own
      /\ k.kind = f.kind /\ k.started = f.started /\ k.known = f.known /\ k.at = "escaping"
      /\ k.inner = FALSE => \A x \in k.surfaced \ k.reports : x.addr \in k.known
      /\ k.started # None => k.status = k.started
      /\ k.started = None /\ f.exc.status # None => k.status = f.exc.status
      /\ k.kind = "django" => k.status # None
  BY <1>1, SettledFrame
<1> HIDE DEF k
<1>4. e \in FrameType
  <2> DEFINE l == [k EXCEPT !.at = "ended"]
  <2>1. l \in FrameType
    BY <1>3 DEF FrameType
  <2>2. e = [l EXCEPT !.escaped = f.exc]
    OBVIOUS
  <2> HIDE DEF l, e, f
  <2>3. QED BY <1>2, <2>1, <2>2 DEF FrameType
<1>5. /\ e.at = "ended" /\ e.escaped = f.exc /\ e.inner = k.inner /\ e.uuid = k.uuid /\ e.own = k.own
      /\ e.kind = k.kind /\ e.started = k.started /\ e.known = k.known /\ e.surfaced = k.surfaced
      /\ e.reports = k.reports /\ e.status = k.status /\ e.rows = k.rows /\ e.told = k.told
      /\ e.twice = k.twice
  BY <1>3 DEF FrameType
<1> HIDE DEF e
<1>6. Good(e, raised) /\ Fed(t, e)
  BY <1>2, <1>3, <1>5 DEF Good, Fed
<1>7. Over(Wrote(e, ResponseRow(t, e)), raised)
  BY <1>3, <1>4, <1>5, <1>6, OverFacts
<1>8. \A g \in ended' : Over(g, raised)
  BY <1>1, <1>7
<1>9. /\ below \in Seq(FrameType) /\ Len(below) = Len(frames[t]) - 1 /\ Len(frames[t]) \in Nat \ {0}
      /\ \A i \in 1..Len(below) :
           /\ below[i] = frames[t][i] /\ frames[t][i].inner = TRUE
           /\ OnStack(frames[t][i], raised) /\ frames[t][i] \in FrameType
  BY <1>1, FrontStack
<1> HIDE DEF below
<1>10. /\ stack \in Seq(FrameType) /\ Len(stack) = Len(frames[t]) - 1
       /\ \A i \in 1..Len(stack) :
            stack[i].env = frames[t][i].env /\ stack[i].inner = TRUE /\ OnStack(stack[i], raised)
  <2>1. CASE below = << >>
    BY <1>9, <2>1
  <2>2. CASE below # << >>
    <3> DEFINE b == Last(below)
    <3>1. b = below[Len(below)] /\ Len(below) \in Nat \ {0}
      BY <1>9, <2>2, TopFacts
    <3>2. /\ b \in FrameType /\ OnStack(b, raised) /\ b.inner = TRUE
          /\ b.env = frames[t][Len(below)].env
      <4> HIDE DEF b
      <4>1. Len(below) \in 1..Len(below)
        BY <3>1
      <4>2. QED BY <1>9, <3>1, <4>1
    <3>3. b.own \in GrantType
      BY <3>2 DEF FrameType, GrantType
    <3>4. raiser = Moved(b, b.own, "raised", f.exc)
      BY <3>2 DEF Moved, FrameType
    <3> HIDE DEF b, raiser
    <3>5. raiser \in FrameType /\ Same(raiser, b) /\ raiser.at = "raised" /\ raiser.exc = f.exc
      BY <1>2, <3>2, <3>3, <3>4, MovedType
    <3>6. OnStack(raiser, raised)
      BY <1>2, <3>2, <3>5, Counted, SameOnStack
    <3>7. stack = Append(Front(below), raiser)
      BY <2>2
    <3> HIDE DEF stack
    <3>8. /\ stack \in Seq(FrameType) /\ Len(stack) = Len(below)
          /\ \A i \in 1..(Len(below) - 1) : stack[i] = below[i]
          /\ stack[Len(below)] = raiser
      <4>1. raiser \in FrameType /\ below \in Seq(FrameType)
        BY <1>9, <3>5
      <4>2. /\ Append(Front(below), raiser) \in Seq(FrameType)
            /\ Len(Append(Front(below), raiser)) = Len(below)
            /\ \A i \in 1..(Len(below) - 1) : Append(Front(below), raiser)[i] = below[i]
            /\ Append(Front(below), raiser)[Len(below)] = raiser
        BY <2>2, <4>1, ReplaceFacts
      <4>3. QED BY <3>7, <4>2
    <3>9. ASSUME NEW i \in 1..Len(stack)
          PROVE  /\ stack[i].env = frames[t][i].env /\ stack[i].inner = TRUE
                 /\ OnStack(stack[i], raised)
      <4>1. CASE i = Len(below)
        BY <3>2, <3>5, <3>6, <3>8, <4>1 DEF Same
      <4>2. CASE i # Len(below)
        <5>1. i \in 1..(Len(below) - 1) /\ i \in 1..Len(below)
          BY <3>1, <3>8, <4>2
        <5>2. QED BY <1>9, <3>8, <5>1
      <4>3. QED BY <4>1, <4>2
    <3>10. QED BY <1>9, <3>8, <3>9
  <2>3. QED BY <2>1, <2>2
<1> HIDE DEF stack
<1>11. PICK l : lazy' = [lazy EXCEPT ![t] = l] /\ Late(l, Len(frames[t]) - 1, None, raised)
  BY <1>1, LeftFacts
<1>12. Len(stack) < Len(frames[t])
  BY <1>9, <1>10
<1>13. QED BY <1>1, <1>8, <1>10, <1>11, <1>12, PopStep

(* An answer that starts late finds no store, so announces no deprecation.   *)
LEMMA StartLateStep ==
  ASSUME Inv, NEW t \in Threads, NEW s \in Statuses, StartLate(t, s)
  PROVE  Inv'
<1> DEFINE f == lazy[t][1]
           header == [deprecated |-> FALSE, own |-> f.own.deprecated]
           told == f.told \cup {header}
           k == [f EXCEPT !.started = s]
           l == [k EXCEPT !.told = told]
           e == [l EXCEPT !.at = "late"]
<1>1. /\ lazy[t] # << >> /\ Len(frames[t]) = lazy[t][2] /\ lazy' = [lazy EXCEPT ![t] = << >>]
      /\ ended' = {[Start(t, f, s) EXCEPT !.at = "late", !.status = f.status]}
      /\ UNCHANGED <<environ, store, frames, served, raised>>
  BY DEF StartLate
<1>2. f \in FrameType /\ OnStack(f, raised) /\ store[t] = None
  <2>1. PICK g \in FrameType, n \in Nat :
          /\ lazy[t] = <<g, n>> /\ OnStack(g, raised)
          /\ n <= Len(frames[t]) /\ (n = Len(frames[t]) => store[t] = None)
    BY <1>1 DEF Inv, Lazy, Late
  <2>2. f = g /\ n = Len(frames[t])
    BY <1>1, <2>1
  <2>3. QED BY <2>1, <2>2
<1> HIDE DEF f
<1>3. Stored(t).deprecated = FALSE
  BY <1>2 DEF Stored, NoGrant
<1>4. [Start(t, f, s) EXCEPT !.at = "late", !.status = f.status] = e
  <2>1. Start(t, f, s) = [f EXCEPT !.status = s, !.started = s, !.told = told]
    BY <1>3 DEF Start
  <2> HIDE DEF told
  <2>2. QED BY <1>2, <2>1 DEF FrameType
<1>5. header \in [deprecated : BOOLEAN, own : BOOLEAN] /\ header.deprecated = FALSE
  BY <1>2 DEF FrameType
<1> HIDE DEF header
<1>6. told \in SUBSET [deprecated : BOOLEAN, own : BOOLEAN]
  BY <1>2, <1>5 DEF FrameType
<1>7. \A h \in told : h.deprecated => h.own
  BY <1>2, <1>5 DEF OnStack, Good
<1> HIDE DEF told
<1>8. e \in FrameType
  <2>1. k \in FrameType
    BY <1>2 DEF FrameType, OrNone
  <2> HIDE DEF k
  <2>2. l \in FrameType
    BY <1>6, <2>1 DEF FrameType
  <2> HIDE DEF l
  <2>3. QED BY <2>2 DEF FrameType
<1>9. /\ e.at = "late" /\ e.told = told /\ e.rows = f.rows /\ e.reports = f.reports
      /\ e.surfaced = f.surfaced /\ e.inner = f.inner /\ e.uuid = f.uuid /\ e.kind = f.kind
      /\ e.twice = f.twice
  BY <1>2 DEF FrameType
<1> HIDE DEF e
<1>10. Over(e, raised)
  <2>1. Good(e, raised)
    BY <1>2, <1>7, <1>9 DEF OnStack, Good
  <2>2. QED BY <1>8, <1>9, <2>1 DEF Over
<1>11. Ended'
  BY <1>1, <1>4, <1>10 DEF Ended
<1>12. Lazy'
  <2>1. ASSUME NEW u \in Threads PROVE Late(lazy'[u], Len(frames[u]), store[u], raised)
    <3>1. CASE u = t
      BY <1>1, <3>1 DEF Inv, Lazy, Late
    <3>2. CASE u # t
      <4>1. lazy'[u] = lazy[u]
        BY <1>1, <3>2 DEF Inv, Lazy
      <4>2. QED BY <4>1 DEF Inv, Lazy
    <3>3. QED BY <3>1, <3>2
  <2>2. lazy' = [u \in Threads |-> lazy'[u]]
    BY <1>1 DEF Inv, Lazy
  <2>3. QED BY <1>1, <2>1, <2>2 DEF Lazy
<1>13. (Typed /\ Stacked /\ Pointed /\ Apart)'
  BY <1>1 DEF Inv, Typed, Stacked, Pointed, Apart, Top
<1>14. QED BY <1>11, <1>12, <1>13 DEF Inv

(* A dispatch begins: RequestStore.set leaves nothing of an earlier one but  *)
(* the address of what was reported.                                         *)
LEMMA BegunEnviron ==
  ASSUME Inv, NEW e \in Environs, served' \in 0..MaxRequests, served' # None,
         environ' = [environ EXCEPT ![e] = [Set(e) EXCEPT !.input = ReadBody(e)]]
  PROVE  /\ environ' \in [Environs -> EnvType]
         /\ \A d \in Environs : d # e => environ'[d] = environ[d]
         /\ environ'[e].uuid \in Uuids /\ environ'[e].uuid # None
         /\ environ'[e].caller = None /\ environ'[e].deprecated = FALSE
         /\ environ'[e].reported = environ[e].reported
<1> DEFINE u == IF e \in Traced THEN e ELSE served'
           b == [environ[e] EXCEPT !.caller = None]
           c == [b EXCEPT !.deprecated = FALSE]
           d == [c EXCEPT !.uuid = u]
           f == [d EXCEPT !.input = ReadBody(e)]
<1>1. environ[e] \in EnvType
  BY DEF Inv, Typed
<1>2. u \in Uuids /\ u # None
  BY NoneAssumption DEF Uuids
<1>3. [Set(e) EXCEPT !.input = ReadBody(e)] = f
  <2>1. Set(e) = [environ[e] EXCEPT !.caller = None, !.deprecated = FALSE, !.uuid = u]
    BY DEF Set
  <2> HIDE DEF u
  <2>2. QED BY <1>1, <2>1 DEF EnvType
<1> HIDE DEF u
<1>4. b \in EnvType /\ b.caller = None /\ b.reported = environ[e].reported
  BY <1>1 DEF EnvType, OrNone
<1> HIDE DEF b
<1>5. c \in EnvType /\ c.caller = None /\ c.deprecated = FALSE /\ c.reported = environ[e].reported
  BY <1>4 DEF EnvType
<1> HIDE DEF c
<1>6. /\ d \in EnvType /\ d.caller = None /\ d.deprecated = FALSE /\ d.uuid = u
      /\ d.reported = environ[e].reported
  BY <1>2, <1>5 DEF EnvType
<1> HIDE DEF d
<1>7. ReadBody(e) \in {"sent", "empty"}
  BY DEF ReadBody
<1>8. /\ f \in EnvType /\ f.caller = None /\ f.deprecated = FALSE /\ f.uuid = u
      /\ f.reported = environ[e].reported
  BY <1>6, <1>7 DEF EnvType
<1> HIDE DEF f
<1>9. environ' = [environ EXCEPT ![e] = f]
  BY <1>3
<1>10. /\ environ' \in [Environs -> EnvType] /\ environ'[e] = f
       /\ \A v \in Environs : v # e => environ'[v] = environ[v]
  BY <1>8, <1>9 DEF Inv, Typed
<1>11. QED BY <1>2, <1>8, <1>10

(* The frame of a dispatch that begins fits the store. *)
LEMMA BegunFrame ==
  ASSUME Inv, NEW e \in Environs, NEW kind \in Kinds, NEW u \in Uuids, u # None, NEW n \in Nat
  PROVE  LET f == NewFrame(e, kind, u)
             g == Wrote(f, Row(f, u, None)) IN
         /\ g \in FrameType /\ OnStack(g, n) /\ g.env = e /\ g.inner = FALSE /\ g.uuid = u
         /\ g.own = NoGrant /\ g.at = "app" /\ g.surfaced = {}
         /\ environ[e].reported \in g.known \cup {None}
<1> DEFINE f == NewFrame(e, kind, u)
           row == Row(f, u, None)
           g == Wrote(f, row)
<1>1. NoExc \in Exceptions /\ NoGrant \in GrantType
  BY NoExcType DEF NoGrant, GrantType, OrNone
<1>2. {environ[e].reported} \ {None} \in SUBSET Addresses
  BY DEF Inv, Typed, EnvType, OrNone
<1>3. f \in FrameType
  BY <1>1, <1>2 DEF NewFrame, FrameType, GrantType, OrNone
<1>4. /\ f.env = e /\ f.inner = FALSE /\ f.uuid = u /\ f.own = NoGrant /\ f.at = "app"
      /\ f.surfaced = {} /\ f.rows = {} /\ f.told = {} /\ f.reports = {} /\ f.twice = FALSE
      /\ f.status = None /\ f.started = None /\ f.exc = NoExc /\ f.escaped = NoExc
      /\ f.known = {environ[e].reported} \ {None}
  BY DEF NewFrame
<1> HIDE DEF f
<1>5. row \in RowType /\ row.uuid = u /\ row.caller = None
  BY <1>4 DEF Row, RowType, OrNone, NoGrant
<1> HIDE DEF row
<1>6. g = [f EXCEPT !.rows = {row}]
  BY <1>4 DEF Wrote
<1> HIDE DEF g
<1>7. g \in FrameType
  BY <1>3, <1>5, <1>6 DEF FrameType
<1>8. /\ g.env = e /\ g.inner = FALSE /\ g.uuid = u /\ g.own = NoGrant /\ g.at = "app"
      /\ g.surfaced = {} /\ g.rows = {row} /\ g.told = {} /\ g.reports = {} /\ g.twice = FALSE
      /\ g.status = None /\ g.started = None /\ g.exc = NoExc /\ g.escaped = NoExc
      /\ g.known = {environ[e].reported} \ {None}
  BY <1>3, <1>4, <1>6 DEF FrameType
<1>9. OnStack(g, n)
  <2>1. Good(g, n)
    BY <1>5, <1>8 DEF Good
  <2>2. QED BY <1>7, <1>8, <2>1 DEF OnStack
<1>10. QED BY <1>7, <1>8, <1>9 DEF f, g, row

(* A dispatch under another is one that called a wrapped app. *)
Called(f) == [f EXCEPT !.inner = TRUE]

LEMMA InnerType ==
  ASSUME NEW f \in FrameType, NEW b \in BOOLEAN
  PROVE  [f EXCEPT !.inner = b] \in FrameType
BY DEF FrameType

LEMMA CalledFacts ==
  ASSUME NEW f \in FrameType, NEW n \in Nat, OnStack(f, n)
  PROVE  LET g == Called(f) IN g \in FrameType /\ OnStack(g, n) /\ g.inner = TRUE /\ g.env = f.env
<1> DEFINE g == Called(f)
<1>1. g \in FrameType
  BY InnerType DEF Called
<1>2. /\ g.inner = TRUE /\ g.env = f.env /\ g.rows = f.rows /\ g.told = f.told /\ g.reports = f.reports
      /\ g.surfaced = f.surfaced /\ g.at = f.at /\ g.exc = f.exc /\ g.status = f.status
      /\ g.started = f.started /\ g.escaped = f.escaped
  BY DEF FrameType, Called
<1> HIDE DEF g
<1>3. OnStack(g, n)
  <2>1. Good(g, n)
    BY <1>2 DEF OnStack, Good
  <2>2. QED BY <1>1, <1>2, <2>1 DEF OnStack
<1>4. QED BY <1>1, <1>2, <1>3 DEF g

LEMMA EnterStep ==
  ASSUME Inv, NEW t \in Threads, NEW e \in Environs, NEW kind \in Kinds, Enter(t, e, kind)
  PROVE  Inv'
<1> DEFINE u == environ'[e].uuid
           f == NewFrame(e, kind, u)
           g == Wrote(f, Row(f, u, None))
           outer == [i \in DOMAIN frames[t] |-> [frames[t][i] EXCEPT !.inner = TRUE]]
           stack == Append(outer, g)
           n == Len(frames[t])
<1>1. /\ served < MaxRequests /\ served' = served + 1 /\ store' = [store EXCEPT ![t] = e]
      /\ frames[t] = << >> => lazy[t] = << >>
      /\ \A v \in Threads \ {t} : e \notin Active(v)
      /\ environ' = [environ EXCEPT ![e] = [Set(e) EXCEPT !.input = ReadBody(e)]]
      /\ ended' = {} /\ lazy' = lazy /\ raised' = raised
  BY DEF Enter, Ongoing
<1>2. f.uuid = u
  BY DEF NewFrame
<1>3. frames' = [frames EXCEPT ![t] = stack]
  BY <1>2 DEF Enter
<1>4. served' \in 0..MaxRequests /\ served' # None
  <2>1. served \in 0..MaxRequests /\ MaxRequests \in Nat
    BY BoundAssumption DEF Inv, Typed
  <2>2. served' \in 0..MaxRequests /\ served' \in Nat
    BY <1>1, <2>1
  <2>3. QED BY <2>2, NoneAssumption
<1>5. /\ environ' \in [Environs -> EnvType]
      /\ \A d \in Environs : d # e => environ'[d] = environ[d]
      /\ u \in Uuids /\ u # None
      /\ environ'[e].caller = None /\ environ'[e].deprecated = FALSE
      /\ environ'[e].reported = environ[e].reported
  BY <1>1, <1>4, BegunEnviron
<1> HIDE DEF u
<1>6. /\ g \in FrameType /\ OnStack(g, raised) /\ g.env = e /\ g.inner = FALSE /\ g.uuid = u
      /\ g.own = NoGrant /\ g.at = "app" /\ g.surfaced = {}
      /\ environ[e].reported \in g.known \cup {None}
  BY <1>5, Counted, BegunFrame
<1> HIDE DEF g
<1>7. frames[t] \in Seq(FrameType) /\ n \in Nat /\ DOMAIN frames[t] = 1..n
  BY DEF Inv, Typed
<1>8. \A i \in 1..n : /\ outer[i] \in FrameType /\ OnStack(outer[i], raised)
                      /\ outer[i].inner = TRUE /\ outer[i].env = frames[t][i].env
  <2> SUFFICES ASSUME NEW i \in 1..n
               PROVE  /\ outer[i] \in FrameType /\ OnStack(outer[i], raised)
                      /\ outer[i].inner = TRUE /\ outer[i].env = frames[t][i].env
    OBVIOUS
  <2>1. outer[i] = Called(frames[t][i])
    BY <1>7 DEF Called
  <2>2. frames[t][i] \in FrameType /\ OnStack(frames[t][i], raised)
    BY DEF Inv, Stacked, OnStack
  <2> HIDE DEF outer
  <2>3. QED BY <2>1, <2>2, Counted, CalledFacts
<1>9. outer \in Seq(FrameType) /\ Len(outer) = n
  <2>1. outer \in [1..n -> FrameType]
    BY <1>7, <1>8
  <2> HIDE DEF outer
  <2>2. QED BY <1>7, <2>1, IsASeq, LenProperties
<1> HIDE DEF outer
<1>10. /\ stack \in Seq(FrameType) /\ stack # << >> /\ Len(stack) = n + 1
       /\ \A i \in 1..n : stack[i] = outer[i]
       /\ stack[n + 1] = g /\ Last(stack) = g
  BY <1>6, <1>9, PushFacts
<1> HIDE DEF stack
<1>11. \A v \in Threads \ {t} : \A j \in 1..Len(frames[v]) : frames[v][j].env # e
  <2> SUFFICES ASSUME NEW v \in Threads \ {t}, NEW j \in 1..Len(frames[v])
               PROVE  frames[v][j].env # e
    OBVIOUS
  <2>1. frames[v] \in Seq(FrameType)
    BY DEF Inv, Typed
  <2>2. frames[v][j] \in ToSet(frames[v])
    BY <2>1 DEF ToSet
  <2>3. frames[v][j].env \in Active(v)
    BY <2>2 DEF Active
  <2>4. QED BY <1>1, <2>3
<1>12. \A i \in 1..Len(stack) :
         /\ OnStack(stack[i], raised') /\ (i < Len(stack) => stack[i].inner = TRUE)
         /\ \A v \in Threads \ {t} : \A j \in 1..Len(frames[v]) : frames[v][j].env # stack[i].env
  <2> SUFFICES ASSUME NEW i \in 1..Len(stack)
               PROVE  /\ OnStack(stack[i], raised') /\ (i < Len(stack) => stack[i].inner = TRUE)
                      /\ \A v \in Threads \ {t} :
                           \A j \in 1..Len(frames[v]) : frames[v][j].env # stack[i].env
    OBVIOUS
  <2>1. CASE i = n + 1
    BY <1>1, <1>6, <1>7, <1>10, <1>11, <2>1
  <2>2. CASE i # n + 1
    <3> HIDE DEF n
    <3>1. i \in 1..n
      BY <1>7, <1>10, <2>2
    <3>2. /\ OnStack(stack[i], raised) /\ stack[i].inner = TRUE /\ stack[i].env = frames[t][i].env
      BY <1>8, <1>10, <3>1
    <3>3. \A v \in Threads \ {t} : \A j \in 1..Len(frames[v]) : frames[v][j].env # stack[i].env
      BY <3>1, <3>2 DEF Inv, Apart, n
    <3>4. QED BY <1>1, <3>2, <3>3
  <2>3. QED BY <2>1, <2>2
<1>13. Attached(g, e, environ')
  <2>1. g.own.caller = None /\ g.own.deprecated = FALSE
    BY <1>6 DEF NoGrant
  <2>2. Pending(g) = {}
    BY <1>6 DEF Pending
  <2>3. QED BY <1>5, <1>6, <2>1, <2>2 DEF Attached, u
<1>14. Late(lazy[t], Len(stack), e, raised')
  <2>1. Late(lazy[t], n, store[t], raised)
    BY DEF Inv, Lazy
  <2> HIDE DEF n
  <2>2. QED BY <1>1, <1>7, <1>10, <2>1 DEF Late
<1>15. lazy' = [lazy EXCEPT ![t] = lazy[t]]
  BY <1>1 DEF Inv, Lazy
<1>16. raised' \in 0..MaxRaises /\ raised <= raised'
  BY <1>1, Counted
<1>17. \A x \in ended' : Over(x, raised')
  BY <1>1
<1>18. Moves(t, stack, e, lazy[t], e)
  BY <1>1, <1>3, <1>4, <1>5, <1>10, <1>11, <1>12, <1>13, <1>14, <1>15, <1>16, <1>17 DEF Moves
<1>19. e \in OrNone(Environs)
  BY DEF OrNone
<1>20. QED BY <1>10, <1>18, <1>19, ThreadStep

-----------------------------------------------------------------------------
LEMMA StepInv ==
  ASSUME Inv, NEW t \in Threads, Step(t)
  PROVE  Inv'
<1>1. CASE \E e \in Environs, k \in Kinds : Enter(t, e, k)
  BY <1>1, EnterStep
<1>2. CASE \E g \in Grants : Authorize(t, g)
  <2>1. Grants \subseteq GrantType
    BY DEF Grants, GrantType, OrNone
  <2>2. QED BY <1>2, <2>1, AuthorizeStep
<1>3. CASE \E c \in Callers : Authenticate(t, c)
  BY <1>3, AuthenticateStep
<1>4. CASE \E s \in Refusals : RefuseAuthorization(t, s) \/ RefuseAuthentication(t, s)
  BY <1>4, RefuseAuthorizationStep, RefuseAuthenticationStep
<1>5. CASE Raise(t)
  BY <1>5, RaiseStep
<1>6. CASE Log(t)
  BY <1>6, LogStep
<1>7. CASE \E s \in Statuses : StartResponse(t, s) \/ Return(t, s) \/ StartLate(t, s)
  BY <1>7, StartResponseStep, ReturnStep, StartLateStep
<1>8. CASE ReturnLazily(t)
  BY <1>8, ReturnLazilyStep
<1>9. CASE Catch(t) \/ Answer500(t)
  BY <1>9, SettledStep
<1>10. CASE EscapePlain(t)
  BY <1>10, EscapePlainStep
<1>11. CASE Signal(t)
  BY <1>11, SignalStep
<1>12. CASE ProcessException(t)
  BY <1>12, ProcessExceptionStep
<1>13. CASE HandlerRaises(t)
  BY <1>13, HandlerRaisesStep
<1>14. CASE \E place \in {"raised", "escaping"} : Propagate(t, place)
  BY <1>14, PropagateStep
<1>15. CASE Escape(t)
  BY <1>15, EscapeStep
<1>16. QED BY <1>1, <1>2, <1>3, <1>4, <1>5, <1>6, <1>7, <1>8, <1>9, <1>10, <1>11, <1>12, <1>13,
              <1>14, <1>15 DEF Step

LEMMA IdleInv == Inv /\ UNCHANGED vars => Inv'
<1> SUFFICES ASSUME Inv, UNCHANGED vars PROVE Inv'
  OBVIOUS
<1>1. (Typed /\ Stacked /\ Pointed)'
  BY DEF Inv, Typed, Stacked, Pointed, Top, vars
<1>2. (Apart /\ Lazy /\ Ended)'
  BY DEF Inv, Apart, Lazy, Ended, vars
<1>3. QED BY <1>1, <1>2 DEF Inv

(* The inductive invariant holds throughout. *)
THEOREM Invariance == Spec => []Inv
<1>1. Inv /\ [Next]_vars => Inv'
  <2> SUFFICES ASSUME Inv, [Next]_vars PROVE Inv'
    OBVIOUS
  <2>1. QED BY StepInv, IdleInv DEF Next
<1>2. QED BY <1>1, InitInv, PTL DEF Spec

-----------------------------------------------------------------------------
(* What it says of the dispatches to judge, those under way and the one that *)
(* just ended, and of those of them that called no wrapped app.              *)
LEMMA SeenFacts ==
  ASSUME Inv, NEW f \in Seen
  PROVE  f \in FrameType /\ Good(f, raised) /\ (OnStack(f, raised) \/ Over(f, raised))
<1>1. CASE f \in ended
  BY <1>1 DEF Inv, Ended, Over
<1>2. ASSUME NEW t \in Threads, f \in ToSet(frames[t])
      PROVE  f \in FrameType /\ Good(f, raised) /\ OnStack(f, raised)
  <2>1. frames[t] \in Seq(FrameType)
    BY DEF Inv, Typed
  <2>2. PICK i \in 1..Len(frames[t]) : f = frames[t][i]
    BY <1>2, <2>1 DEF ToSet
  <2>3. QED BY <2>2 DEF Inv, Stacked, OnStack
<1>3. QED BY <1>1, <1>2 DEF Seen

LEMMA PlainFacts ==
  ASSUME Inv, NEW f \in Plain
  PROVE  /\ f \in Seen /\ f.inner = FALSE /\ f \in FrameType
         /\ f.at \in {"app", "ended"} => Pending(f) = {}
<1>1. f \in Seen /\ f \in FrameType /\ f.inner = FALSE
  BY SeenFacts DEF Plain, FrameType
<1>2. CASE f \in ended
  BY <1>1, <1>2 DEF Inv, Ended, Over, OnStack, Pending
<1>3. ASSUME NEW t \in Threads, f \in ToSet(frames[t])
      PROVE  f.at \in {"app", "ended"} => Pending(f) = {}
  <2>1. frames[t] \in Seq(FrameType) /\ Len(frames[t]) \in Nat
    BY DEF Inv, Typed
  <2>2. PICK i \in 1..Len(frames[t]) : f = frames[t][i]
    BY <1>3, <2>1 DEF ToSet
  <2>3. i = Len(frames[t]) /\ frames[t] # << >>
    BY <1>1, <2>1, <2>2 DEF Inv, Stacked
  <2>4. f = Top(t) /\ Attached(f, store[t], environ)
    BY <2>2, <2>3, OnTop
  <2>5. QED BY <1>1, <2>4 DEF Attached
<1>4. QED BY <1>1, <1>2, <1>3 DEF Seen

(* TypeOK: the store, the environs and the dispatches keep their types, and  *)
(* an app runs on only once no exception is on its way through it.           *)
THEOREM TypeCorrect == Spec => []TypeOK
<1>1. Inv => TypeOK
  <2> SUFFICES ASSUME Inv PROVE TypeOK
    OBVIOUS
  <2>1. /\ environ \in [Environs -> [uuid : (0..MaxRequests) \cup Environs \cup {None},
                                     caller : Callers \cup {None}, deprecated : BOOLEAN,
                                     reported : Addresses \cup {None}, input : {"sent", "empty"}]]
        /\ store \in [Threads -> Environs \cup {None}]
        /\ served \in 0..MaxRequests /\ raised \in 0..MaxRaises
    BY DEF Inv, Typed, EnvType, Uuids, OrNone
  <2>2. ASSUME NEW f \in Seen
        PROVE  /\ f.env \in Environs /\ f.kind \in Kinds
               /\ f.at \in {"app", "raised", "announced", "escaping", "ended", "late"}
               /\ f.status \in Statuses \cup Refusals \cup {None, 500}
               /\ f.exc \in Exceptions /\ (f.at = "app" => f.exc = NoExc)
               /\ f.surfaced \cup f.reports \subseteq Exceptions
    <3>1. f \in FrameType /\ (OnStack(f, raised) \/ Over(f, raised))
      BY SeenFacts
    <3>2. f.at = "app" => f.exc = NoExc
      BY <3>1 DEF OnStack, Over
    <3>3. QED BY <3>1, <3>2 DEF FrameType
  <2>3. QED BY <2>1, <2>2 DEF TypeOK
<1>2. QED BY <1>1, Invariance, PTL

(* NothingLent: no row and no header of a response takes its caller or its   *)
(* deprecation from another dispatch's authorization, on however many        *)
(* threads, environs handed in again and apps called from apps: each         *)
(* RequestStore.set takes away what an earlier dispatch left, and each       *)
(* clear() what the dispatch itself did.                                     *)
THEOREM GrantsAreOwn == Spec => []NothingLent
<1>1. Inv => NothingLent
  BY SeenFacts DEF NothingLent, Good
<1>2. QED BY <1>1, Invariance, PTL

(* NothingForgotten: what a dispatch's authorization said reaches its        *)
(* response row, written before the store is cleared, and the headers of     *)
(* every response that starts while the dispatch is under way.               *)
THEOREM GrantsReachRows == Spec => []NothingForgotten
<1>1. Inv => NothingForgotten
  <2> SUFFICES ASSUME Inv, NEW f \in Plain
               PROVE  /\ Authorized(f) => \E r \in f.rows : r.caller = f.own.caller
                      /\ f.at # "late" => \A h \in f.told : h.own => h.deprecated
    BY DEF NothingForgotten
  <2>1. f \in Seen /\ f.inner = FALSE /\ Good(f, raised) /\ (OnStack(f, raised) \/ Over(f, raised))
    BY PlainFacts, SeenFacts
  <2>2. QED BY <2>1 DEF Good, OnStack, Over, Authorized
<1>2. QED BY <1>1, Invariance, PTL

(* RowsCorrelate: the request row, the log and error rows and the response   *)
(* row of a dispatch that calls no wrapped app all carry the uuid it was     *)
(* given on entry.                                                           *)
THEOREM UuidsAreOwn == Spec => []RowsCorrelate
<1>1. Inv => RowsCorrelate
  BY PlainFacts, SeenFacts DEF RowsCorrelate, Good
<1>2. QED BY <1>1, Invariance, PTL

(* ReportedOnce: under WSGI and Flask an exception is one error row, though  *)
(* the signal and the except branch may both hear of it, more than once; a   *)
(* refusal is none.  It needs that an exception on its way, if reported, is  *)
(* the one whose id() the environ remembers: an id is not reused for an      *)
(* exception that is alive.                                                  *)
THEOREM OneErrorRow == Spec => []ReportedOnce
<1>1. Inv => ReportedOnce
  <2> SUFFICES ASSUME Inv PROVE ReportedOnce
    OBVIOUS
  <2>1. \A f \in Seen : \A x \in f.reports : x.status = None
    BY SeenFacts DEF Good
  <2>2. \A f \in Plain : f.kind # "django" => f.twice = FALSE
    BY PlainFacts, SeenFacts DEF Good
  <2>3. QED BY <2>1, <2>2 DEF ReportedOnce
<1>2. QED BY <1>1, Invariance, PTL

(* DroppedOnlyByAddress: of an exception nobody handled, the one way not to  *)
(* be reported is to have the id() of one reported for the same environ.     *)
THEOREM DropsAreByAddress == Spec => []DroppedOnlyByAddress
<1>1. Inv => DroppedOnlyByAddress
  BY PlainFacts DEF DroppedOnlyByAddress, Pending
<1>2. QED BY <1>1, Invariance, PTL

(* StatusKnown: a response row has the status the app sent or, when none     *)
(* was, the refusing one; under Django it always has one.                    *)
THEOREM StatusesAreKnown == Spec => []StatusKnown
<1>1. Inv => StatusKnown
  BY SeenFacts DEF StatusKnown, OnStack, Over
<1>2. QED BY <1>1, Invariance, PTL
=============================================================================
