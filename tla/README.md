# Specifications of end_point_blank

`end_point_blank` is a Python SDK that lives inside a host application. It gets
access tokens for the calls the host makes, authorizes the calls the host
receives, and reports requests, responses, errors and logs to a service called
*intake*; a separate client manages an organization over an HTTP API. The host
calls it from many threads, out of middlewares, decorators and signal handlers,
and its own state is a handful of process-wide maps, queues and thread-locals.
That is where it can be wrong in ways tests hardly reach, and what these modules
are about.

Paths below are relative to `src/src/end_point_blank/`.

## The system

| Component | State | Operations | Interacts with |
|---|---|---|---|
| Access tokens, `tokens/access_tokens.py` | `_entries` (canonical URL to token and expiry), `_failures` (URL to last failure, at most 64), one lock; both maps are replaced, never mutated, and read without the lock | `token_result`, `token`, `exists`, `last_failure`, `invalidate`, `clear` | mints through `commands/generate_access_token.py`, called by `authorization.py` |
| Intake HTTP, `commands/_http.py` | a session per thread | `post`: three attempts, `None` when none completed, anything that is not a transport error raised | everything that calls intake |
| Outbound authorization, `authorization.py`, `token_unavailable_error.py` | none | `header` (a Bearer header, or an error with this call's reason), `_intake_header` | access tokens, configuration |
| Authorization cache, `commands/authentication_cache.py` | an insertion-ordered dict of at most 1000 entries and a lock; `cache_ttl` is read under the lock at every use | `store`, `retrieve`, `exists`, `remove`, `clear` | inbound authorization |
| Inbound authorization, `commands/endpoint_authorize.py`, `commands/basic_authenticate.py`, the decorators | none of its own | look up, post to intake, record the grant on the request, store it | cache, request store, `unauthorized_error.py` |
| Request store, `request_store.py` | `_local.environ` per thread; uuid, caller and deprecation inside the environ | `set`, getters, setters, `clear` | middlewares, authorization, writers |
| Writers, `writers/*.py` | a shared `DelayedWriter` (queue of 500, `worker_count` threads) each for requests and responses; one per write for logs and errors | `write`, directly or through a queue; the worker loop | request store, intake |
| Reporting middlewares, `middleware/report_interaction.py`, `django/middleware.py` | what a dispatch holds in locals; the id of a reported exception in the environ | dispatch, `start_response`, Flask's signal, Django's `process_exception` | request store, writers, the host's app |
| Masking, `masking.py`, with `sensitive_headers.py` and the payloads of `writers/*.py` | compiled rules, cached by their text | `apply`: the rules in order, then the hook | writers, configuration |
| Reported URL, `base_url.py` | none | `resolve`, `hostname` | request writer, inbound authorization |
| Endpoint registration, `flask/endpoint_registrar.py`, `django/endpoint_registrar.py`, `commands/endpoint_update.py`, `commands/route_path.py` | what a view function carries as attributes | publish the routes at boot; name the route of a request | intake, decorators |
| Configuration, `configuration.py`, `configure` of `__init__.py` | a singleton, assigned one setting at a time and read at use | setters with validation, read-time precedence of settings | everything |
| Management client, `management/*.py` | none between calls | `request` with retries and idempotency keys; paging; resource methods | the management API |
| Other pure functions: `strip_url.py`, the truncators, `version_finder.py`, `route_pattern_finder.py`, `deprecation_headers.py` | none | strings in, strings out | the above |

What is hard here: threads that miss a cache together, or use what another just
replaced; two maps updated one after the other and read without the lock; a
token rejected while others still hold it; a cache whose validity moves with its
configuration; per-request state that must survive to the end of a dispatch and
not a step longer, on threads and environs that are reused; exceptions that are
delivered through two or three channels; queues that fill, and flushes that
fail; HTTP attempts that time out and are carried out all the same; settings that
change under a call that reads them one by one; masking rules that work on what
other rules left; routes that two pieces of code spell apart. The `hazards` of `PROJECT.json` list them one by one, each at its line, with the
properties that cover it or the reason none does.

## The modules

### AccessTokens

`token_result` as the code runs it: the lookup without the lock (`FastHit`,
`FastMiss`, `FastRaise`), the lock (`Acquire`), the second lookup under it
(`LockedHit`, `LockedRaise`), the request (`StartMint`, then `RetryPost`,
`MintRaises`, `PostIsLost`, `IntakeRefuses` or `IntakeMints`), and the second
rebinding of the two (`RecordFailure` after `MintFails`, `ForgetFailures` after
`IntakeMints`). `Return` is `Authorization.header` turning the result into a
header or an error. `Invalidate` and `ClearEntries`/`ClearFailures` are the
other writers. Two rebindings are two actions because readers take no lock.

A URL is a path, a sequence of segments, so that the prefix rule of `_match_key`
is `IsPrefix`. `Resolve` is intake: the set of registered URLs a requested one may
resolve to, which can differ from one mint to the next. A token is the number of the mint that made it. An `expired_at` without a
zone (`Naive`) is included: it parses, is stored, and raises at every lookup.

Properties: `MintOnlyWhenSpent` (callers that raced to the lock share one mint),
`FailureNewerThanToken` (a recorded failure is never older than a token held for
its URL), `FailuresBounded`, `ReasonIsOwn` (`header` raises this call's own
failure), `RefreshTakesEffect` (once a mint has ended, the entry it found spent no
longer answers for its URL, even when intake resolved the URL to another
environment this time), `GoodTokenKept` (only `clear`, invalidating that very
token, or a newer token that intake gave to a call the old one did not answer for
ends the stay of a usable token) and `CallsEnd` (liveness). That the map grows
with environments and not with resources is part of `TypeOK`.

### AuthenticationCache, EndpointAuthorize

`AuthenticationCache` is the cache: each operation is one critical section and
one action. `EndpointAuthorize` extends it with the threads that use it. Looking
up, posting and storing are separate actions (`Look`, `IntakeGrants` or
`IntakeDoesNot`, `StoreGrant`); between them the ttl changes, the cache is
flushed, other threads store and time passes. A place number stands for the
dict's insertion order.

Properties: `ServedWithinTtl` (a hit is valid by the ttl at the lookup and at the
write, and nothing outlives a lookup or store that finds the cache off),
`GrantIsForThisRequest` (a request names whom intake named for it, a refused one
nobody), `CacheBounded` and `ExpiredGoFirst`.

### DelayedWriter

The threads that write rows and the workers that take them off the queues. A row
is the number of its write, so that it can be followed: `EachRowOnce` says it is
in one place, or has met one fate, always. `FindShared` and `MakeShared` are the
two looks of `_get_delayed_writer`; `MakeOwn` is what the log and exception
writers do instead. `Take`, `Fill` and `Flush`/`FlushFails` are a worker's turn.

Properties: `EachRowOnce`, `JoinMeansFlushed` (the queue's count of unfinished
tasks is exactly what is queued or in flight), `OneSharedWriter`, the queues' bound
(part of `TypeOK`) and `EveryRowLeaves` (liveness).

### Interaction

One or more dispatches per server thread: WSGI, Flask or Django middleware, its
request row, the app's authorizations, refusals, logs and exceptions, the
framework's handling of those, and the end of the dispatch with its response row
and `clear`. Apps may be nested and environs handed in again. A plain app may
answer with a generator: its dispatch ends (`ReturnLazily`) before it calls
`start_response` (`StartLate`); `lazy` is what it left, and who has it: the app or the server that
called it, then whoever called that one (`Left`). The uuid of a request is the number of its dispatch, or its `X-Request-ID`. An exception has an
identity and an address: `id()` gives a freed address out again.

The frameworks are external and modelled by what they may do: Flask announces an
exception no handler took (`Signal`), then answers (`Answer500`), propagates it
(`Propagate`) or has a handler that raises another (`HandlerRaises`); Django
calls `process_exception`. Properties: `NothingLent` (no row or response uses
what another dispatch's authorization said), `NothingForgotten`,
`RowsCorrelate`, `ReportedOnce`, `DroppedOnlyByAddress`, `StatusKnown`.

### ManagementTransport, ManagementPromise

`_Transport.request` against an API with idempotency keys and a network that
loses requests and answers. A request given up on stays on the wire, or in the
API, and may still run; the network needs no action of its own to lose one.
Properties: `PostOnce` (a key takes effect at most once, over retries and over
calls that share it), `PatchOnce`, `CallsEnd`.

`ManagementPromise` is what a caller may rely on, with none of the above: a call
is asked for, what it asks for happens, and the caller is told. A POST and a
PATCH happen once; a PATCH does not happen once it is told refused; success, and
the replay that is no longer held, are told only of what happened. The transport
implements it (`Promise == INSTANCE ManagementPromise WITH ...`, property
`Promised`): what is asked is `method` once the call has begun, the thing asked
for is its key, or the call itself where there is none, the times it happened are
`effects`, what is told is `outcome`. Attempts, wire, running requests, replies
and the API's keys are hidden, and every step that touches only them stutters.

### Paging

`_iterate` and `_pages`: the limit is checked when an iterator is made (`Begin`),
the first page is asked for at the first `next()` (`Start`), a page's items are
yielded one at a time (`Yield`), and the step after the last looks at its cursor
(`Advance`). `Receive` is `_page`; `Fail` is a page that does not come or holds no
list. `Create` and `Delete` change the list meanwhile. The API is external: a row
is the number of its place in the list and a cursor such a place, which is an
assumption, as the client never looks into a cursor. It is right (`Answer`), errs
now and then with any rows and any cursor (`AnswerWrongly`), or is stuck on one
cursor (`AnswerStuck`). A retried GET changes nothing, so the transport is one step
here.

Properties: `ExactScan` (over an API that is right, what is in the list throughout
comes, nothing comes twice, and the check for a repeated cursor stops nothing) and
`IterationEnds` (liveness, also over an API that is stuck).

### Configuration

The singleton as `__new__` makes it, without a lock: `Look`, `Publish` (before its
defaults are set), `Target` (`_init_defaults` works on whatever is `_instance` by
then), `InitDefault` once per setting, `Return`. An object is a number and
`fields` its attributes, so that one may be missing. `Configure` checks
`cache_ttl` and `derive_base_url` and then assigns one setting at a time
(`Assign`); `SetAttribute` is an assignment to the object, `SetEnvironment` a
change of an environment variable. A call of intake resolves its URL
(`ReadBaseUrl`, `ReadFlag`, `ReadSlug`; `ReadLogUrl` for the log plane) and then
its credentials (`ReadId`, `ReadSecret`), each read a step of its own. `FirstRow`
makes the shared delayed writer keep its URL, `NextRow` uses it.

Properties: `QuietCallIsWhole` (without a change beside it a call uses one whole
configuration, each setting by the last change that supplied it, none by a
rejected one, and only that configuration's fault makes it fail) and
`SentWasConfigured` (with changes beside it, each value it sends was configured
while it ran, and the URL is well formed). `mixed`, `quiet` and `seen` are
history: they record which changes ran together and what was current meanwhile.
The id and the secret of one call may come from two configurations; nothing in
the code forbids it.

### BaseUrl, Masking, Payloads

`BaseUrl` is `base_url.py`: the last hop of each forwarded header, where it is
usable, the Host header and the connection; how a spelling is parsed is a map the
instance gives. `Evidenced` says of a URL that it follows from what is usable
(`Evidence`) and from nothing else.
`Masking` is `masking.py`: JSON as trees, text as sequences of tokens, a path as
the steps it parses to, a regex as a set of tokens it matches runs of (`least` 0
or 1: matches of no length are where a replacement loop goes wrong), a replacement
template with its `$` forms. Both are operators only.

`Payloads` is a row on its way: `Build` (sensitive headers left out, a long body
cut, the URL resolved), `MaskNext` once per rule, `RunHook`, `Write`. Its
properties compare the row that is written with what was reported, by the places
(`Places`, `At`) and by what it means for a path to denote one (`LeadsTo`), which
is defined on its own, without walking the tree as `Transform` does:
`MaskedIsUnreadable` and `OnlyDenotedChanges`. `BaseUrlEvidence` is that the URL of
a row is `Evidenced`. A token that the
report holds a second time, elsewhere, is outside `MaskedIsUnreadable`: a message
repeated in its stack trace is one, as stack traces are not masked.

### Endpoints

The two ends of a route. `Register` makes the rows each registrar publishes of a
framework's routes (`FlaskRows`, `DjangoRows`), `FlaskAsks` and `DjangoAsks` what a
decorator names to intake when the route is called. `AskedIsPublished` says that
they meet under intake's own normalisation (`Canonical`), with every version the
view declares, except in the cases `Unpublished` lists, and never in those.
`RouteAssumption` is what the frameworks give: a rule starts with a slash, a
pattern stands in any number of includes.

A definition whose name ends in `Mutant` is a faulty variant of the one after
it. No specification uses it: it is what a property is tried against, by putting
it in that definition's place, to see that the property would notice.

## Runs

All constants are small sets of model values; each bound is named in its module.

| Run | Shows | Bounds |
|---|---|---|
| `tokens` | safety and liveness of AccessTokens | 2 callers, 3 URLs (an environment, one inside it that is registered now and then, and a resource), 3 calls, clock 0..1, 2 attempts, cap 2 |
| `authorize` | the safety of cache and authorization | 2 threads, 3 requests (two clients, two versions), room for 2, ttl 0, 1 or 3, clock 0..3, 3 authorizations |
| `writers` | safety and liveness of the writers | 2 threads, one shared and one unshared stream, 2 workers, queue of 1, batch of 2, 3 rows |
| `interaction` | safety of dispatches | 2 threads, 2 environs (one with `X-Request-ID`, one chunked), 2 dispatches nested, in turn or late, 2 exceptions on 2 addresses |
| `management` | safety and liveness of calls, and that they implement the promise | 2 calls, a key they may share, one retry |
| `paging` | safety and liveness of an iteration | 3 rows, pages of 1 or 2, limits on both sides of the allowed ones, 2 changes, an API that errs once or is stuck on one cursor |
| `configuration` | the safety of configuring and reading | 2 threads of which one configures first, 5 calls of `configure`, 2 assignments, 2 environments, 3 changes, 2 calls of intake |
| `payloads` | masking and the reported URL | every pair of 19 body rules or of 6 others, 4 bodies, 3 hooks; every combination of 3 to 6 values of each forwarded header with 3 Host headers |
| `endpoints` | registrar and decorator agree | every pair of 6 Flask rules or 12 Django patterns |

Two threads are enough for every race the code has: each is between one that
looked and one that wrote. Three calls let a third find what the race of two
left. A clock of two ticks lets a token of the default lifetime be good and then
spent. A queue of one is full after one row, a batch of two is both filled and
cut short, a failure cap of two and a cache of two overflow with three URLs or
keys. Two dispatches are needed for nesting, for reuse and for an answer that
starts within another's dispatch; two exceptions for one to be taken for the
other. A second retry of the transport is as the first. Three changes of
configuration are two that run together and a third that comes late; two calls
are the one that makes the delayed writer and one that uses it. Three rows make
up to three pages, so that one is before, in and after what has been read; two
changes are a row deleted and created again. Two rules show
what one does to another; the body nests a name within itself, in a list and
beside it, which is what a descent can confuse. Two routes are enough for one to
be found in the place of another.

Three runs expect a violation. Each checks what a line of the repository says and
shows that the code does otherwise; `findings` in `PROJECT.json` quotes the line.

| Run | Statement | What happens |
|---|---|---|
| `errors` | `EveryErrorReported` | a second exception at the address of a freed first one is not reported |
| `body` | `AppSeesBody` | a body without `CONTENT_LENGTH` is replaced by an empty one |
| `one_configuration` | `OneConfiguration` | two threads that use `Configuration()` first, together, hold an object each |

The `configuration` run therefore lets one thread configure before the others
start (`ConfiguredFirst`), as the repository's README asks; `one_configuration`
does not. The `interaction` run states `NothingForgotten`, `RowsCorrelate` and
`DroppedOnlyByAddress` of dispatches that called no wrapped app (`Plain`), and
`ReportedOnce` outside Django.

### Fairness

`AccessTokens`: weak fairness of each caller's steps. A thread that can run is
run by the interpreter, and intake's answer is bounded by the timeouts of `post`.
The host need not call. The lock is not assumed fair: calls are bounded, so a
waiter is only overtaken finitely often; starvation by an endless stream of
other callers is outside what the run shows, as `threading.Lock` does not exclude
it. `DelayedWriter`: weak fairness of producers and workers, which loop for as
long as the process lives. `ManagementTransport`: weak fairness of the caller's
own thread only, whose timeouts end every wait; nothing is assumed of the API or
the network. `Paging`: weak fairness of the answers, one of which is that the
transport gives up, and of a caller that takes what is yielded until it drops the
iterator, which it may do at any time (`Abandon` has no fairness). `EndpointAuthorize`, `Interaction`, `Configuration`, `Payloads` and
`Endpoints` state safety only.

Deadlock is not checked: with their calls, rows and requests used up, all the
models come to rest, as an idle process does.

## Proofs

Each proof module is about the specification as it stands, for every value of its
constants, and rests on the assumptions its component's module names and on
nothing else. TLC evaluates those assumptions in the runs of that component.

Both bounded dicts evict their oldest insertion, which the models say by rank: a
key stays while fewer than so many keys were inserted after it. `FewAbove`, in
`AccessTokensProofs` and in `EndpointAuthorizeProofs`, proves that what stays is
then no more than that, provided no two keys have one rank. Why ranks are distinct
is each component's own argument.

`AccessTokensProofs` takes any number of callers and URLs, any `Resolve`, any
answers, lifetimes and limits. It assumes that URLs are sequences, the cap and
the attempts are positive, and `Nobody` is no caller.

- `TypeCorrect`: `Typed`, the type invariant and the fact that a call under way
  has a URL, is inductive. It includes that an entry is only made under a key intake
  resolved to.
- `OneMintAtATime`: by `LockHeld` (being in the critical section and holding the
  lock are the same) nobody else changes `_entries` to cover a URL being minted
  for, `invalidate` and `clear` only shrink it, and time only takes tokens out
  of use (`HitsShrink`).
- `FailuresAreNews`: `FailureNewerThanToken` is not inductive alone. `Numbered`
  adds that no token has a number beyond the mints that have ended, and that a
  failed mint still to be recorded is newer than every token: its number is the
  last, and whoever holds the lock is alone in making tokens.
- `FailureMapBounded`: `Placed` adds that the map is finite, that no two records
  have the same place, and that the failure about to be recorded has a place
  after all others.
- `MintsTakeEffect`: `MatchedIsHeld` says that what a mint matched is still what
  covers its URL when it ends. Of the keys covering a URL the longest was matched,
  so what is left once it is dropped is shorter or the new token (`LongerMatch`,
  `SpentGone`).
- `ReasonsAreOwn`: `Owned`, that a result about to be returned, and the reason of
  an error, carry the caller that made them. `OwnedFrame` is why the others do
  not matter.
- `GoodTokensStay`: what a mint drops is an entry it matched, which by
  `MatchedInvariant` is still held and by `OneMintAtATime` not usable. What else
  it replaces is the entry under the key intake answered with, which was not held
  for its URL. Nothing is assumed of how environments lie within one another.

`EndpointAuthorizeProofs` takes any number of threads, requests, keys and ttls
and any size of the cache. It assumes that `Keys` and `Grants` contain what
requests are cached under and what intake can say of them.

- `TypeCorrect`: with the fact that a thread under way, or with an answer, has a
  request. A read, a remove and a flush only take entries away (`Shrinks`), which
  keeps whatever holds of each entry; only a store needs an argument of its own.
- `GrantsAreRight`: `Honest`. What is cached under a key is
  what intake may say of every request with that key (`KeySeparates`: the key
  contains the client and the version, which is all a grant depends on), and a
  call names nobody until the cache or intake does.
- `HitsAreFresh`, `ExpiredGo`: the steps that answer, find the cache off, or evict, from the types and, for the first, from `Honest`.
- `CacheStaysBounded`: `Placed`. Places are distinct because a new one is the
  number of a store, and every place taken is one of an earlier store.

`DelayedWriterProofs` takes any number of producers, streams, workers and rows.

- `TypeCorrect`: with the facts that a producer about to put has a writer and one
  about to make a shared writer has a shared stream. It includes that no worker
  leaves its loop, and that queues are bounded (`QueuesStayBounded`): only a put adds
  to a queue, and it looks first.
- `SharedStreamsHaveOneWriter`: `Registered`. Every writer of a shared stream is
  the one `shared` records for it; so when the second look, under the lock, finds
  none, there is none.
- `EveryRowHasOnePlace`: `OnePlace` adds that an idle worker has an empty batch,
  without which one that took a row could lose another. `WorkerTurn` says what a
  step of a worker does to its writer, and `TurnIsTidy` that such a step keeps the
  rows in it apart and that what leaves it is what was sent or lost.
  `WritersApart` and `HandsApart` are the two kinds of step that touch no
  worker: a writer that is made, a row that changes hands.
- `JoinWaitsForEveryRow`: with no row in two places, a put adds one row to those
  pending and one to the count, and a flush takes as many from each.

`ConfigurationProofs` takes any threads, calls of `configure`, attributes,
environments, client ids and URLs. It assumes that a URL that is set names a
host (its first segment is not empty), that the two defaults end in no slash,
that an assignment to an attribute sets one setting, that a derive flag is a
Boolean or is refused, and that `None` is no number and no URL. The last three
theorems assume `ConfiguredFirst` besides; the run `one_configuration` shows why.

- `TypeCorrect`, without that: `Typed` adds to the types what a thread holds
  where it is (`Holds`): an object once it has one, arguments while it configures,
  a URL before it reads credentials.
- `ConfiguredFirstIsOne`: `OneBuilt`. Before the first change is done only `Main`
  is at work (`Begun`); it alone constructs, so there is at most one object, and it
  has all its settings unless `Main` is still setting their defaults (`Filled`,
  `Placed`). From it every thread that holds an object holds the instance.
- `SentIsConfigured`: `Evident`. Each value a call has read was configured at some
  time since it began; `seen` only grows, and always contains the current
  configuration. For the URL `Evident` records what was seen at each read on the
  way (no base URL, then the flag, then the id), as these may come from different
  configurations. `WriterEvident` is that the URL the delayed writer keeps is well
  formed, as rows that come later use it.
- `QuietCallsAreWhole`: `Unmixed`. While no two changes have run together, the
  object is what the changes done ask for, apart from the settings the change
  under way has reached: `AsAsked` between changes, `AsDefault` and `AsAssigned`
  within one. A quiet call runs beside no change (`Undisturbed`), so all it reads
  (`WholeSoFar`) is of one configuration, and an attribute is missing only while
  `Main` constructs. `Accepted` is that `configure` works on arguments it has
  checked: only an assignment to an attribute can be refused on the way, and as it
  sets one setting, it then leaves nothing behind.

`ManagementTransportProofs` takes any number of calls, chosen keys and retries. It
assumes only that `None` is no call and no key. `Inv` has five parts.

- `Typed`, with effects that are natural numbers: `TypeCorrect`.
- `Sound`: nothing is known of a call that was not made, an outcome is told at the
  end, the POSTs are the calls with a key, and a request carries its call's key.
- `Keyed`: under a key at most one request is running, while the API's record of
  it says so; and what happened under a key is one call's doing, once, when the
  record says done. From it `PostsHappenOnce`, which turns the sum over calls
  into the fact that all effects under a key are one.
- `Patched`: a PATCH is in one place at a time, with the client, on the wire, at
  the API, in an answer or over, and until the last it has not happened, unless
  the answer says that it may have. From it `PatchesHappenOnce`.
- `Truthful`: a success on its way back is of something that happened.

`KeepsPromise` shows that `Spec` implies `Promised`, one lemma per kind of step:
beginning a call is `Ask`, running a request is `Happen`, the end of an attempt is
`Tell` or hidden, everything else is hidden. `Truthful` and `Patched` are what
`Tell` asks for, `Keyed` and `Patched` what `Happen` does.

`PagingProofs` takes any ids, finite or not, any limits, page sizes, wrong answers,
changes and stuck cursors. It assumes that ids are positive numbers and that `None` and
`Blank` are no numbers. Its invariant `Progress` holds as long as the API has been right: between
pages, everything up to the cursor that is sent has been dealt with (`Swept`);
while a page is yielded, all that was yielded is before what is left of it, and
all that stands up to the next cursor is in one or the other (`Sweeping`). From it
`ScansAreExact`; a repeated cursor is excluded because one that is answered is
beyond the one that was sent.

`InteractionProofs` takes any number of threads, environs, callers and statuses,
and dispatches nested to any depth. It assumes that the bounds are numbers and that
`None` is nothing else. Each of the seven properties follows from one inductive
invariant, `Inv`, with a lemma per action (`Invariance`).

- `Typed`, and `Stacked`: of each dispatch under way, what `Good` says of its rows,
  its headers and its reports, and that all but the innermost have called a
  wrapped app.
- `Pointed`, on which the rest depends: the thread's store is the environ of its
  innermost dispatch and says what that dispatch's own latest authorization said,
  under its uuid; or, where it called a wrapped app, there is none. An exception
  that was reported and is still on its way is the one whose `id()` the environ
  remembers, and one not reported is either on its way or has an `id()` that was
  known.
- `Apart`: no environ is served on two threads at once, so a step of one thread
  leaves the others' stores alone (`ThreadStep`, `OthersAttached`).
- `Lazy`: an answer that has yet to start starts when the dispatch that returned it
  and all above it are over, so it finds no store.
- `Ended`: what is asked of a dispatch once it is over.

`GrantsAreOwn`, `GrantsReachRows` and `UuidsAreOwn` use `Good` and `Pointed`;
`OneErrorRow` and `DropsAreByAddress` the last part of `Pointed`, and that a new
exception never has the number of an old one; `StatusesAreKnown` that a frame's
status is the one the app started with until it ends.

`AddressProofs` is about two modules whose substance is in their operators:
`Endpoints`, for any rules, patterns, names and versions that satisfy
`RouteAssumption`; and `BaseUrl`, for any parsing that satisfies
`ProperConstants` (the values that stand for nothing, an empty hop and one that
cannot be read are no numbers, and no scheme or host is spelled or parsed as
nothing), which TLC evaluates in the run `payloads`. The functions of `Endpoints` that
recurse do so on a length; what they compute is proved with induction stated as a
set of numbers closed under a step (`Induction`, `Recursion`), for the joining of
includes (`Flattening`) and the merging of versions (`MergedVersions`).

- `AsksMeetRows`: `Routed`, that what is published is the registrar's rows and
  what was asked is what a decorator makes of a route of the application, is
  inductive, and implies `AskedIsPublished`. Spelling parameters and rooting a path
  commute (`RootedSpelled`), so intake knows what either side sends as the rooted
  path. It is one path on both sides unless an inner anchor or a second leading
  slash was left out. Then the two rooted paths differ in length: a route without
  an inner anchor is shorter and has at least as many leading slashes
  (`PartsKept`), and a rule that starts with two slashes loses one. So what is
  found in those cases is another route's row.
- `ReportedFromEvidence`: `Resolve` gives the same URL when the headers whose last
  hop is unusable are left out, one header at a time (`ProtoEvidence`,
  `PortEvidence`, `HostEvidence`), and when the connection's scheme and port are
  once a proxy gave either (`ConnectionUnused`). It is about the operators, in the
  words of `BaseUrlEvidence`; that the URL of a row is what `Resolve` gave, masked
  or not, is left to the run.

Only model-checked: liveness, which is beyond the prover under fairness; and the
three properties of `Payloads`. `MaskedIsUnreadable` and `OnlyDenotedChanges`
speak of trees of any depth, by operators that are recursive over them, which the
prover cannot do induction on; `BaseUrlEvidence` is stated in the same module,
and only the operators under it are proved about.

## Known divergences

Where the code differs from what its documentation says, or from what one would
expect, besides the three findings. Doc lines are those of the repository's
`README.md` unless a file is named.

- Environments nested in one another. `last_failure` keeps the failure of a
  shorter URL that covers the one asked for although a token was minted since
  (`tokens/access_tokens.py:265`), and a URL of the inner environment is answered
  with the outer one's token while only that is held (266). `tokens` has one
  environment inside another; no property excludes either behaviour.
- A wrapped app called by a wrapped app clears the store they share on its way
  out. The outer response row has no uuid (`writers/exception_writer.py:14-16`).
- The log and exception writers make a delayed writer per row, each with
  `worker_count` threads (83).
- A replacement with `$` before a digit that `int()` refuses (`$²`) raises, and the
  row is lost, although masking is said never to raise (`masking.py:5`, 509).
  `OnlyDenotedChanges` allows that loss, and no run refutes the claim.
- A response body that was cut is no longer JSON, so a rule with a path and no
  regex does not apply to it. `Payloads` says so in `Reaches`.
- With `DEBUG_PROPAGATE_EXCEPTIONS` Django hands an exception to both hooks of the
  middleware, and it is reported twice.
- An app that answers with a generator that starts late has no status in its
  response row and no deprecation headers.
- Both registrars are said to publish `{id}` (345-350). Django's publishes `:id`;
  they are equal only once intake has normalised them.
- Django: the empty path of the site root is never published; a view that
  declares no methods is published under GET alone; the `^` of a regex within an
  include is published but is not in the route the decorator sees. Flask: HEAD is
  never published, though it is served and asked for; a rule that starts with two
  slashes is published with both and asked for with one.
- The `route` of a response row is the framework's own pattern, not the spelling
  that is published.
- `@versioned(..., state=...)` (446, 467) has no such parameter.
- The check for a repeated cursor compares with the last one only: an API that
  answers two cursors in turn is asked for ever, though the comment at
  `management/client.py:351` is about any that answers the same cursor again.
- A page whose `next_cursor` is `""` is the last for the iterators
  (`management/client.py:348`), while its `has_more` is true
  (`management/models.py:46`).
- `FastJsonTruncator._ensure_limit` can exceed its limit by one byte; nothing in
  the package calls it.

## Not modelled

The management client's models and resource methods beyond the method and key they
send; `strip_url` (the tokens take a URL stripped, as a path);
`VersionFinder` and `RoutePatternFinder`, which probe the environ and the framework;
the truncators, `bearer_generate` and `log_entry`, which nothing in the package
uses; Django's async path; the header syntax of deprecations; per-thread sessions
and TLS. What becomes of queued rows at exit or after a fork, for which the code
has no handling. A clock that steps back. What intake does with a post it receives
twice, which is outside the repository.

## Plan

Done: AccessTokens, the cache and authorization, and the writers; the interaction,
with generator apps; the management transport and its promise; paging; configuration;
masking, payloads and the reported URL; endpoint registration; proofs of every
safety property but those of `Payloads`.

1. An abstract token service (per environment: no token, a token, a mint under
   way) and AccessTokens shown to implement it; an abstract cache (a partial map
   with an age) for AuthenticationCache.
2. Masking with recursive functions on the size of a tree and the length of a text,
   so that what a rule reaches can be proved as addresses are in `AddressProofs`.
3. `strip_url` and the truncators' byte limits against reference definitions.
4. Django's propagated exceptions and its async path in Interaction.
