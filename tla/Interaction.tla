----------------------------- MODULE Interaction -----------------------------
(***************************************************************************)
(* One request through the host's server: the reporting middlewares        *)
(* (middleware/report_interaction.py for WSGI and Flask,                   *)
(* django/middleware.py), the decorators that authorize it, the per-request*)
(* store (request_store.py) and the rows written about it (writers/*.py).  *)
(*                                                                         *)
(* A server thread runs a stack of dispatches: an app may call an app that *)
(* is wrapped itself, with an environ of its own or with the same one.     *)
(* What a dispatch does between two points where the host's code or another*)
(* thread can run is one action.  A frame is a dispatch: its local         *)
(* variables in the middleware, and what was written about it.             *)
(***************************************************************************)
EXTENDS Integers, Sequences, SequencesExt

CONSTANTS
  Threads,      \* server threads
  Environs,     \* WSGI environ dicts
  Traced,       \* those with an X-Request-ID header
  Chunked,      \* those with a body and no CONTENT_LENGTH
  Kinds,        \* which middleware: "wsgi", "flask", "django"
  Callers,      \* source application environments intake may name
  Statuses,     \* statuses an app answers with
  Refusals,     \* statuses of a refusal
  Addresses,    \* what id() may answer for an exception
  None,
  MaxDepth,     \* bound: dispatches on top of one another
  MaxRequests,  \* bound: dispatches of the whole behaviour
  MaxRaises     \* bound: exceptions raised in the whole behaviour

ASSUME BoundAssumption == MaxDepth \in Nat /\ MaxRequests \in Nat /\ MaxRaises \in Nat
ASSUME NoneAssumption ==
  /\ None \notin Callers \cup Statuses \cup Refusals \cup Environs \cup Addresses \cup Nat
  /\ Traced \cup Chunked \subseteq Environs

VARIABLES
  environ,  \* each environ: what the store keeps in it and its wsgi.input
  store,    \* _local.environ of each thread
  frames,   \* the dispatches under way on each thread, the innermost last
  lazy,     \* a dispatch over before its app, a generator, began to answer
  ended,    \* the dispatch that ended in the last step, as a set of at most one
  served,   \* dispatches begun; also the source of uuid4
  raised    \* exceptions created, refusals included

vars == <<environ, store, frames, lazy, ended, served, raised>>

NoGrant == [caller |-> None, deprecated |-> FALSE]
Grants  == [caller : Callers, deprecated : BOOLEAN]
NoExc   == [id |-> 0, addr |-> None, status |-> None]

(* A uuid is the number of the dispatch it was made for, the environ whose  *)
(* header it is, or None; one a writer makes for itself is OwnUuid.          *)
OwnUuid == 0

Init ==
  /\ environ = [e \in Environs |->
       [uuid |-> None, caller |-> None, deprecated |-> FALSE, reported |-> None, input |-> "sent"]]
  /\ store = [t \in Threads |-> None]
  /\ frames = [t \in Threads |-> << >>]
  /\ lazy = [t \in Threads |-> << >>]
  /\ ended = {}
  /\ served = 0
  /\ raised = 0

-----------------------------------------------------------------------------
(* RequestStore, on the environ the thread points at. *)
Stored(t) == IF store[t] = None THEN NoGrant
             ELSE [caller |-> environ[store[t]].caller, deprecated |-> environ[store[t]].deprecated]
Uuid(t) == IF store[t] = None THEN None ELSE environ[store[t]].uuid

Put(t, g) == environ' = [e \in Environs |->
  IF e = store[t] THEN [environ[e] EXCEPT !.caller = g.caller, !.deprecated = g.deprecated]
  ELSE environ[e]]

(* _read_body leaves a copy of what it read: CONTENT_LENGTH bytes, or none. *)
ReadBody(e) == IF e \in Chunked THEN "empty" ELSE "sent"

SetMutant(e) == [environ[e] EXCEPT !.uuid = IF e \in Traced THEN e ELSE served']
(* RequestStore.set on an environ: whatever an earlier authorization said   *)
(* of the caller goes.                                                       *)
Set(e) == [environ[e] EXCEPT !.caller = None, !.deprecated = FALSE,
                             !.uuid = IF e \in Traced THEN e ELSE served']

(* A row: the uuid and the caller it carries, beside what the dispatch's    *)
(* own authorizations said.                                                  *)
Row(f, uuid, caller) == [uuid |-> uuid, caller |-> caller, own |-> f.own.caller]
Wrote(f, row) == [f EXCEPT !.rows = @ \cup {row}]
OrOwn(uuid) == IF uuid = None THEN OwnUuid ELSE uuid

(* ExceptionWriter.write *)
Report(t, f, x) ==
  [Wrote(f, Row(f, OrOwn(Uuid(t)), Stored(t).caller)) EXCEPT
     !.twice = @ \/ x \in f.reports, !.reports = @ \cup {x}]

WasReportedMutant(t, x) == store[t] # None /\ environ[store[t]].reported # None
(* _flask_exception_was_reported, and the guard of the signal's receiver. *)
WasReported(t, x) == store[t] # None /\ environ[store[t]].reported = x.addr

-----------------------------------------------------------------------------
Top(t) == Last(frames[t])
In(t, place) == frames[t] # << >> /\ Top(t).at = place
SetTop(t, f) == frames' = [frames EXCEPT ![t] = Append(Front(@), f)]
Live == {f.exc.addr : f \in UNION {ToSet(frames[t]) : t \in Threads}}
Ongoing == ended' = {} /\ UNCHANGED lazy
Active(t) == {f.env : f \in ToSet(frames[t])}

NewFrame(e, kind, uuid) ==
  [env |-> e, kind |-> kind, at |-> "app", status |-> None, exc |-> NoExc, own |-> NoGrant,
   uuid |-> uuid, rows |-> {}, reports |-> {}, twice |-> FALSE, surfaced |-> {},
   known |-> {environ[e].reported} \ {None}, told |-> {}, started |-> None, inner |-> FALSE,
   escaped |-> NoExc]

(* A request arrives: RequestStore.set, then RequestWriter.write, which     *)
(* never raises.  Django reads the body before, to the same effect.  An     *)
(* environ may be handed in again, once it was served or from inside the    *)
(* app that serves it.                                                       *)
Enter(t, e, kind) ==
  /\ served < MaxRequests
  /\ Len(frames[t]) < MaxDepth
  /\ IF frames[t] = << >> THEN lazy[t] = << >> ELSE In(t, "app")
  /\ \A u \in Threads \ {t} : e \notin Active(u)
  /\ served' = served + 1
  /\ environ' = [environ EXCEPT ![e] = [Set(e) EXCEPT !.input = ReadBody(e)]]
  /\ store' = [store EXCEPT ![t] = e]
  /\ LET f == NewFrame(e, kind, environ'[e].uuid)
         outer == [i \in DOMAIN frames[t] |-> [frames[t][i] EXCEPT !.inner = TRUE]]
     IN frames' = [frames EXCEPT ![t] = Append(outer, Wrote(f, Row(f, f.uuid, None)))]
  /\ Ongoing /\ UNCHANGED <<raised>>

(* @authorized and @authenticated: the grant is put in the stored environ.  *)
(* Authenticating names the caller only.                                     *)
Authorize(t, g) ==
  /\ In(t, "app")
  /\ Put(t, g)
  /\ SetTop(t, [Top(t) EXCEPT !.own = g])
  /\ Ongoing /\ UNCHANGED <<store, served, raised>>

Authenticate(t, c) == Authorize(t, [Stored(t) EXCEPT !.caller = c])

Throw(t, f, status) ==
  /\ raised < MaxRaises
  /\ raised' = raised + 1
  /\ \E a \in Addresses \ Live :
       SetTop(t, [f EXCEPT !.exc = [id |-> raised', addr |-> a, status |-> status]])

(* A refusal: authorize has dropped the grant first, authenticate has not. *)
RefuseAuthorization(t, status) ==
  /\ In(t, "app")
  /\ Put(t, NoGrant)
  /\ Throw(t, [Top(t) EXCEPT !.own = NoGrant, !.at = "raised"], status)
  /\ Ongoing /\ UNCHANGED <<store, served>>

RefuseAuthentication(t, status) ==
  /\ In(t, "app")
  /\ Throw(t, [Top(t) EXCEPT !.at = "raised"], status)
  /\ Ongoing /\ UNCHANGED <<environ, store, served>>

Raise(t) ==
  /\ In(t, "app")
  /\ Throw(t, [Top(t) EXCEPT !.at = "raised"], None)
  /\ Ongoing /\ UNCHANGED <<environ, store, served>>

(* LogWriter.write *)
Log(t) ==
  /\ In(t, "app")
  /\ SetTop(t, Wrote(Top(t), Row(Top(t), OrOwn(Uuid(t)), Stored(t).caller)))
  /\ Ongoing /\ UNCHANGED <<environ, store, served, raised>>

Start(t, f, s) ==
  [f EXCEPT !.status = s, !.started = s,
            !.told = @ \cup {[deprecated |-> Stored(t).deprecated, own |-> f.own.deprecated]}]

(* wrapped_start_response: the status, and the headers of a deprecation. *)
StartResponse(t, s) ==
  /\ In(t, "app")
  /\ Top(t).kind # "django"
  /\ Top(t).started = None
  /\ SetTop(t, Start(t, Top(t), s))
  /\ Ongoing /\ UNCHANGED <<environ, store, served, raised>>

-----------------------------------------------------------------------------
(* An app's own handler deals with the exception before anyone hears of it, *)
(* or, with no framework around the app, nobody does.                        *)
Catch(t) ==
  /\ In(t, "raised")
  /\ SetTop(t, [Top(t) EXCEPT !.at = "app", !.exc = NoExc])
  /\ Ongoing /\ UNCHANGED <<environ, store, served, raised>>

Unhandled(f) == IF f.exc.status = None THEN [f EXCEPT !.surfaced = @ \cup {f.exc}] ELSE f

EscapePlain(t) ==
  /\ In(t, "raised")
  /\ Top(t).kind = "wsgi"
  /\ SetTop(t, [Unhandled(Top(t)) EXCEPT !.at = "escaping"])
  /\ Ongoing /\ UNCHANGED <<environ, store, served, raised>>

(* Flask announces an exception none of the app's handlers took:            *)
(* _report_flask_exception.                                                  *)
Signal(t) ==
  LET f == [Unhandled(Top(t)) EXCEPT !.at = "announced"]
      x == f.exc
  IN /\ In(t, "raised")
     /\ f.kind = "flask"
     /\ IF store[t] = None \/ x.status # None \/ WasReported(t, x)
        THEN SetTop(t, f) /\ UNCHANGED environ
        ELSE /\ SetTop(t, [Report(t, f, x) EXCEPT !.known = @ \cup {x.addr}])
             /\ environ' = [environ EXCEPT ![store[t]].reported = x.addr]
     /\ Ongoing /\ UNCHANGED <<store, served, raised>>

(* Django's hook for an exception of a view: process_exception. *)
ProcessException(t) ==
  LET f == [Unhandled(Top(t)) EXCEPT !.at = "announced"]
  IN /\ In(t, "raised")
     /\ f.kind = "django"
     /\ SetTop(t, IF f.exc.status # None THEN f ELSE Report(t, f, f.exc))
     /\ Ongoing /\ UNCHANGED <<environ, store, served, raised>>

Answer500Mutant(t) ==
  /\ In(t, "announced")
  /\ SetTop(t, [Top(t) EXCEPT !.at = "app"])
  /\ Ongoing /\ UNCHANGED <<environ, store, served, raised>>

(* The framework then answers 500 itself, or lets the exception out: as far *)
(* as the middleware or, of a Flask app that is not wrapped, to the Flask   *)
(* app that called it; or its error handler raises another.                  *)
Answer500(t) ==
  /\ In(t, "announced")
  /\ SetTop(t, [Top(t) EXCEPT !.at = "app", !.exc = NoExc])
  /\ Ongoing /\ UNCHANGED <<environ, store, served, raised>>

Propagate(t, place) ==
  /\ In(t, "announced")
  /\ place = "raised" => Top(t).kind = "flask"
  /\ SetTop(t, [Top(t) EXCEPT !.at = place])
  /\ Ongoing /\ UNCHANGED <<environ, store, served, raised>>

HandlerRaises(t) ==
  /\ In(t, "announced")
  /\ Top(t).kind = "flask"
  /\ raised < MaxRaises
  /\ raised' = raised + 1
  /\ \E a \in Addresses \ Live :
       LET y == [id |-> raised', addr |-> a, status |-> None]
       IN SetTop(t, [Top(t) EXCEPT !.at = "escaping", !.exc = y, !.surfaced = @ \cup {y}])
  /\ Ongoing /\ UNCHANGED <<environ, store, served>>

-----------------------------------------------------------------------------
(* The finally of a dispatch: ResponseWriter.write, RequestStore.clear. *)
ResponseRow(t, f) == Row(f, Uuid(t), Stored(t).caller)

FinishMutant(t, f, below) ==
  /\ store' = [store EXCEPT ![t] = None]
  /\ ended' = {Wrote(f, Row(f, None, None))}
  /\ frames' = [frames EXCEPT ![t] = below]
  /\ UNCHANGED <<environ, served, raised>>

Finish(t, f, below) ==
  /\ ended' = {Wrote(f, ResponseRow(t, f))}
  /\ store' = [store EXCEPT ![t] = None]
  /\ frames' = [frames EXCEPT ![t] = below]
  /\ UNCHANGED <<environ, served, raised>>

(* What becomes of an answer an app below gave this one and that has not    *)
(* begun: whoever called this one gets it, or nobody if it raises.           *)
Left(t, answer) ==
  lazy' = [lazy EXCEPT ![t] = IF @ # << >> /\ @[2] = Len(frames[t]) THEN answer ELSE @]

(* The app returns.  Django's response comes with its status, and with it   *)
(* the middleware adds the headers of a deprecation.                         *)
Return(t, s) ==
  LET f == Top(t)
  IN /\ In(t, "app")
     /\ Left(t, <<lazy[t][1], Len(frames[t]) - 1>>)
     /\ Finish(t, [(IF f.kind = "django" THEN Start(t, f, s) ELSE f) EXCEPT !.at = "ended"],
               Front(frames[t]))

(* A plain app may answer with a generator that calls start_response when   *)
(* the server iterates it, after __call__ is over: the response row has no  *)
(* status, and the deprecation is looked up in a store that is cleared.      *)
ReturnLazily(t) ==
  LET f == Top(t)
  IN /\ In(t, "app")
     /\ f.kind = "wsgi" /\ f.started = None
     /\ lazy[t] = << >>
     /\ lazy' = [lazy EXCEPT ![t] = <<f, Len(frames[t]) - 1>>]
     /\ Finish(t, [f EXCEPT !.at = "ended"], Front(frames[t]))

StartLate(t, s) ==
  /\ lazy[t] # << >>
  /\ Len(frames[t]) = lazy[t][2]
  /\ frames[t] # << >> => In(t, "app")
  /\ ended' = {[Start(t, lazy[t][1], s) EXCEPT !.at = "late", !.status = lazy[t][1].status]}
  /\ lazy' = [lazy EXCEPT ![t] = << >>]
  /\ UNCHANGED <<environ, store, frames, served, raised>>

(* What the except branches make of an exception on its way out. *)
SettledTwiceMutant(t, f) ==
  IF f.exc.status # None THEN [f EXCEPT !.status = IF @ = None THEN f.exc.status ELSE @]
  ELSE [Report(t, f, f.exc) EXCEPT !.status = IF f.kind = "django" /\ @ = None THEN 500 ELSE @]

SettledUnknownMutant(t, f) ==
  IF f.exc.status # None \/ (f.kind # "django" /\ WasReported(t, f.exc)) THEN f
  ELSE [Report(t, f, f.exc) EXCEPT !.status = IF f.kind = "django" /\ @ = None THEN 500 ELSE @]

Settled(t, f) ==
  IF f.exc.status # None THEN [f EXCEPT !.status = IF @ = None THEN f.exc.status ELSE @]
  ELSE IF f.kind = "django" THEN [Report(t, f, f.exc) EXCEPT !.status = IF @ = None THEN 500 ELSE @]
  ELSE IF WasReported(t, f.exc) THEN f
  ELSE Report(t, f, f.exc)

(* An exception leaves the middleware; in a stack of dispatches the app     *)
(* below raises it.                                                          *)
Escape(t) ==
  LET f     == Top(t)
      below == Front(frames[t])
  IN /\ In(t, "escaping")
     /\ Left(t, << >>)
     /\ Finish(t, [Settled(t, f) EXCEPT !.at = "ended", !.escaped = f.exc],
               IF below = << >> THEN below
               ELSE Append(Front(below), [Last(below) EXCEPT !.at = "raised", !.exc = f.exc]))

Step(t) ==
  \/ \E e \in Environs, k \in Kinds : Enter(t, e, k)
  \/ \E g \in Grants : Authorize(t, g)
  \/ \E c \in Callers : Authenticate(t, c)
  \/ \E s \in Refusals : RefuseAuthorization(t, s) \/ RefuseAuthentication(t, s)
  \/ Raise(t) \/ Log(t)
  \/ \E s \in Statuses : StartResponse(t, s) \/ Return(t, s) \/ StartLate(t, s)
  \/ ReturnLazily(t)
  \/ Catch(t) \/ EscapePlain(t) \/ Signal(t) \/ ProcessException(t)
  \/ Answer500(t) \/ HandlerRaises(t)
  \/ \E place \in {"raised", "escaping"} : Propagate(t, place)
  \/ Escape(t)

Next == \E t \in Threads : Step(t)

Spec == Init /\ [][Next]_vars
-----------------------------------------------------------------------------
(* The dispatches to judge: those under way and the one that just ended.     *)
Seen  == ended \cup UNION {ToSet(frames[t]) : t \in Threads}
(* Those that called no wrapped app: its clear() would have taken the store *)
(* from under them.                                                          *)
Plain == {f \in Seen : ~f.inner}

Exceptions == [id : 0..MaxRaises, addr : Addresses \cup {None}, status : Refusals \cup {None}]

(* The store, the environs and the dispatches keep their types, and an app runs
   on only once no exception is on its way through it. *)
TypeOK ==
  /\ environ \in [Environs -> [uuid : (0..MaxRequests) \cup Environs \cup {None},
                               caller : Callers \cup {None}, deprecated : BOOLEAN,
                               reported : Addresses \cup {None}, input : {"sent", "empty"}]]
  /\ store \in [Threads -> Environs \cup {None}]
  /\ served \in 0..MaxRequests /\ raised \in 0..MaxRaises
  /\ \A f \in Seen :
       /\ f.env \in Environs /\ f.kind \in Kinds
       /\ f.at \in {"app", "raised", "announced", "escaping", "ended", "late"}
       /\ f.status \in Statuses \cup Refusals \cup {None, 500}
       /\ f.exc \in Exceptions /\ (f.at = "app" => f.exc = NoExc)
       /\ f.surfaced \cup f.reports \subseteq Exceptions

(* No row names, and no response announces as deprecated, on the strength   *)
(* of an authorization other than the dispatch's own latest: not one made   *)
(* on a reused thread, not one an environ handed in again still carries, not*)
(* one of an outer or inner dispatch; a response that starts late included.  *)
NothingLent ==
  \A f \in Seen :
    /\ \A r \in f.rows : r.caller \in {None, r.own}
    /\ \A h \in f.told : h.deprecated => h.own

(* And what the authorization said does reach the rows and the response, up *)
(* to the response row, which is written after the app is done.  A response *)
(* that starts after that has lost its deprecation.                          *)
Authorized(f) == f.at = "ended" /\ f.own.caller # None
NothingForgotten ==
  \A f \in Plain :
    /\ Authorized(f) => \E r \in f.rows : r.caller = f.own.caller
    /\ f.at # "late" => \A h \in f.told : h.own => h.deprecated

(* All rows of a dispatch, and those its app logs, carry one uuid, the one  *)
(* the dispatch was given on entry, and never one of another dispatch.       *)
RowsCorrelate == \A f \in Plain : \A r \in f.rows : r.uuid = f.uuid

(* Flask announces an exception the middleware then sees escape, and a      *)
(* composed app announces it again on its way through: it is one error row. *)
(* A refusal is none.                                                        *)
ReportedOnce ==
  /\ \A f \in Seen : \A x \in f.reports : x.status = None
  /\ \A f \in Plain : f.kind # "django" => ~f.twice

(* An exception nobody handled is reported, or its id() is that of one      *)
(* reported for the same environ before: a second, different failure of a   *)
(* dispatch is otherwise not taken for the first.                            *)
DroppedOnlyByAddress ==
  \A f \in Plain : f.at \in {"app", "ended"} => \A x \in f.surfaced \ f.reports : x.addr \in f.known

(* The response row has a status whenever the middleware could know one:    *)
(* the one the app sent, or the refusing one, and always under Django.       *)
StatusKnown ==
  \A f \in Seen :
    f.at = "ended" =>
      /\ f.started # None => f.status = f.started
      /\ f.started = None /\ f.escaped.status # None => f.status = f.escaped.status
      /\ f.kind = "django" => f.status # None

(* tests/test_flask_exception_reporting.py:160-161: of a composed app's     *)
(* inner failure and the outer view's own, both must be reported.            *)
EveryErrorReported ==
  \A f \in Plain : f.at = "ended" => f.surfaced \subseteq f.reports

(* writers/request_writer.py:113-114: downstream apps can still read the    *)
(* body.                                                                     *)
AppSeesBody ==
  \A f \in Seen : f.at = "app" /\ f.kind # "django" => environ[f.env].input = "sent"
=============================================================================
