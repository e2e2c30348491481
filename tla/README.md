# A formal model of claude-plan-api

`claude-plan-api` is a gateway that serves OpenAI- and Anthropic-shaped HTTP
endpoints from the OAuth credential of one Claude Code account, with a
telemetry store and a dashboard. This directory holds TLA+ models of its parts,
TLC configurations that check them on small instances, and TLAPS proofs of what
holds for every instance. Every definition is a translation of code of the
repository; `PROJECT.json` gives the lines of each (`map`), the runs, the
hazards with the properties that are for them, and the theorems.

## Inventory

| Component | State it keeps | Operations | Interacts with | What is hard | What makes it correct |
|---|---|---|---|---|---|
| Refresh lock (`domain/refresh-lock.ts`) | one lock file: owner, mtime | acquire (open, stat, unlink, two attempts), release | other gateway processes, through the file system | the file changes between any two calls; crashed and slow holders | exclusive until someone takes it over; acquire always ends; a crash wedges nobody |
| Credential lifecycle (`domain/credentials.ts`, `domain/refresh-backoff.ts`) | token in memory, `refreshPromise`, cooldown and last failure; the shared `.credentials.json` | ensureValidToken, refreshIfNeeded, forceRefresh, reload, write-back, boot | the lock, the token endpoint, the `claude` CLI, every route, the 60 s timer | tokens rotate, a used refresh token is dead; joins across awaits; lost answers; failed writes; crashes | one refresh per process; the grant survives; no usable token is lost; waiters are answered |
| Upstream call (`upstream/anthropic-client.ts`, `beta-exclusion.ts`, `fetch-retry.ts`) | per call: retry budgets, token; per model: excluded betas | callAnthropic | credential lifecycle, Anthropic API, client abort | four kinds of retry in any order; a live set shared by calls | bounded requests; no refused beta is sent twice |
| Profile and model caches (`domain/account.ts`, `domain/models.ts`) | registry, profile, in-flight promises | list, ensure, refresh, resolve | upstream clients, chat, count and model routes | shared and unshared fetches overlap | the registry never goes back; a forced refresh is fresh; what was listed resolves |
| Request transforms (`transform/openai-to-anthropic.ts`, `repair-tool-pairs.ts`, `domain/tool-mapping.ts`) | a tool map per request | sanitise, translate, repair, mark, choose options | routes, model registry, upstream | one repair causes another; options that exclude each other | upstream gets whole tool pairs and options the model takes; tool names round-trip |
| Response transforms (`anthropic-to-openai.ts`, `streaming.ts`, `completions.ts`, `sse-parser.ts`) | the state of one stream | per event or whole | upstream, clients, dashboard | four readings of one answer | all readings agree |
| Stream relay (`transform/streaming.ts`) | buffer, open tool block, deferred cancel, timers | read loop, cancel, keep-alive, force timer | upstream reader, client, telemetry store | cancel, abort signal, timer and end of stream race | the reader is let go once and for a reason; a cancelled relay ends |
| Request store (`observability/storage.ts`, `middleware.ts`) | SQLite rows, FTS shadow, WAL | insert, partial updates, reconcile, checkpoint, purge, close | middleware, stream relay, dashboard | index writes fail on their own; restarts; update order | nothing written is lost; the index is exact where it can be |
| Telemetry reads (`storage.ts`, `http/routes/telemetry/*`, `keys-metrics.ts`) | none | list, search, page, export, usage, metrics, percentiles | request store, dashboard | the same rows through several filters | the reads agree |
| Event log (`logger.ts`, `storage.ts`, `telemetry/logs.ts`) | `events` rows | emit, list, export, count | middleware, request store | failed writes are not reported to callers | what one table lacks the other tells |
| Event bus and live view (`event-bus.ts`, `telemetry/stream.ts`, `useEventStream.ts`, `live.tsx`) | subscribers; ring and side buffers; cached history | emit, subscribe, pause, resume, reconnect, mount | logger, browser | callbacks between state and render; history and stream overlap | a pause loses nothing; no event twice |
| API keys (`domain/api-keys.ts`, `guards/api-key.ts`, `routes/keys.ts`, `keys.tsx`) | key rows; dialogs | create, revoke, rename, rotate, authenticate | request store, dashboard | check-then-act; answers that outlive their dialog | a plaintext handed out works; revoked is final |
| Dashboard: sign-in (`auth.ts`, `main.tsx`, `__root.tsx`) | key, prompt, query cache | prompt, submit, dismiss, replay | every route of the API | late refusals of an older key | no page is left refused without a prompt |
| Dashboard: sessions (`sessions.ts`, `session-turns.ts`, `s.$sessionId.tsx`) | list, cache per turn | group, page, poll, dedupe | telemetry routes | a turn cached while unfinished; keys that interleave | sessions are cut where activity paused; each turn is shown whole in the end |
| Dashboard: date filter (`date-range.ts`) | picked dates | instants of a day | telemetry routes | clock changes | the picked days are covered |
| Static serving (`http/server.ts`, `static.ts`, `compression.ts`, `metrics-route-error.tsx`) | none; the build on disk, HTTP caches | serve, negotiate, cache, reload | deployment, browsers | pages older than the build | no reload loop; what is got can be read |
| Boot and shutdown (`index.ts`) | timers, `shuttingDown` | boot, drain, force-close | everything | drain against the 5 s timer | the process ends and loses nothing written |
| Deployment (`deploy/auto-deploy.sh`) | checkout, deps, dist, service, failure mark | fetch, reset, install, build, restart, health, roll back | git, systemd, the service | failing and killed steps | it says what runs and comes to rest |
| Logging to the console, tracing, anti-loop counters, charts | view state or none | | | | not modelled (see the end) |

## Modules

```
 RefreshLock <-INSTANCE- CredentialRefresh            (also instantiates the lock as what it
      ^                        ^                       implements: UsesLock)
 MCRefreshLock       MCCredentialPair, MCCredentialAlone

 ToolPairRepair <-EXTENDS- Conversation        Paging <-EXTENDS- TelemetryReads, EventLog
 ModelCatalog <-EXTENDS- ModelResolution

 StreamRelay, LiveView, Deploy <-EXTENDS- MCProgress -INSTANCE-> RequestStore, Sessions, Serving

 UpstreamCall, ModelResolution, Conversation, RequestOptions, Answers, RequestStore, Sessions,
 ApiKeys, DateRange, SignIn  <-EXTENDS- MCSafety -INSTANCE-> TelemetryReads, EventLog

 RefreshLockProofs        EXTENDS RefreshLock
 CredentialRefreshProofs  EXTENDS CredentialRefresh, INSTANCE RefreshLockProofs
 StreamRelayProofs        EXTENDS StreamRelay
 UpstreamProofs           EXTENDS UpstreamCall, ModelResolution, RequestOptions
 ConversationProofs       EXTENDS Conversation, Answers
 TelemetryProofs          EXTENDS RequestStore, DateRange
 DeployProofs             EXTENDS Deploy
 DashboardProofs          EXTENDS SignIn, ApiKeys, LiveView, Sessions
```

`MCSafety` and `MCProgress` put parts that share no state side by side. A
variable `subject` picks one part per behaviour and the others stay where they
began: interleaving two of them would multiply the states and show nothing, as
no step of one reads a variable of another. A part that is proved about is
extended, so that a run and a theorem speak of the same definition; names that such parts
would share carry a prefix (`CallInit`, `StoreTypeOK`, `DeployNext`). The others are
instantiated, and so are RequestStore and Sessions in `MCProgress`, which checks their
liveness on constants of its own. Interactions of components are inside modules: the lock with the
credential system; the middleware, the routes and the stream with the request
store; the conversation with repair and tool names; the event log with the
request rows; the keys with their routes and dialogs; deployment with serving
(`Serving`'s `MoveAway` and `PutInPlace` are
what `Deploy`'s build does to `dist`).

### RefreshLock

A contender is one call of `acquireRefreshLock`. `lockPc[c]` is the place in
it (`open`, `stat`, `unlink`, then `held`, `noop` or `busy`), `attempt[c]` the
loop counter, and the one lock file is described by its creator (`lockOwner`)
and by whether its mtime is past the TTL (`lockStale`). Each action is one
file-system call, because another process can run between any two. `Stat`
takes a vanished file for a stale one and `Unlink` removes whatever is at the
path, as the code does. `Crash(S)` kills the contenders of a process and leaves
the file; `Expire` is the TTL. `mkdir`, the payload and the file descriptor
play no role. An `unlink` or `stat` error other than a missing file (no permission)
is not modelled. `openSync` failing for another reason is (`OpenFails`).

### CredentialRefresh

Several processes (`Proc`), each with requests (`Request`, `Home`), share
`store`, the token in the file. A token is a number in order of issue and
stands for the whole credential; `live` holds those whose refresh token the
endpoint still honours, `parent` says which token each was exchanged for.

| Code | Model |
|---|---|
| `credentials`, `refreshPromise`, `cooldown` with `lastFailureKind` | `memory`, `inFlight`, `outcome` |
| a call on its way through `ensureValidToken`, `refreshIfNeeded`, `callAnthropic` | `stage`, `force`, `late`, `used` |
| `current` and the result of the refresh a call runs | `cur`, `got` |
| `refreshIfNeeded` from its re-read to its first await | `RefreshIfNeeded` with `ReturnAtOnce`, `JoinRefresh`, `LeadRefresh` |
| `ensureValidToken` and its wait loop | `Ensure`, `Poll`, `WaitEnds`, and `Verdict` for what a result leads to |
| `performRefresh`, `refreshViaOAuth` | `Mint`, `ReplyOk`, `ReplyTerminal`, `ReplyTransient`, `ReplyLost`, `RefreshFails` |
| `writeBackCredentials` | the comparison in `ReplyOk`, then `Rename` or `RenameFails` |
| `waitForAdopt` | `AwaitHolder`, `AdoptStored`, `AdoptGivesUp` |
| `finally` blocks of the refresh | `Release`, `Settle` |
| token capture, 401 and 429 handling of `callAnthropic` | `Capture`, `Reload`, `Recover`, `Finish` |
| boot, crash, cooldown end | `Boot`, `Crash`, `CooldownEnds` |
| the `claude` CLI and the endpoint (external) | `CliObtains`, `CliTears`, `CliWrites`, `Mint` |

What one process does between two awaits is one step, except that it is cut
where it touches a file that other processes touch: the lock calls, and the
comparison and the rename of a write-back. While a process is inside such a
stretch (`Busy`) its other requests do not move, as its event loop would not.

Abstractions, and why they keep what the properties need:

* Two reads of the file with nothing but local work between them are one (the
  re-read of `refreshIfNeeded` and the `adoptFromStore` of its cooldown branch;
  `reloadCredentialsFromSource` and the re-read of the forced refresh that
  follows it). The cooldown branch then never adopts anything new.
* Time is two counters: tokens up to `closing` have at most five minutes left,
  tokens up to `expired` at most one. All tokens have one lifetime, so they
  expire in order of issue, and none nears its expiry during a refresh that
  began before it was issued (`Unhurried`: seconds against hours).
* The endpoint rotates on every success. A response without a new refresh
  token, which the code accepts, is the gentler case.
* Repeats inside `fetchWithRetry` change no state; a lost answer is `ReplyLost`.
* `consecutive` and the backoff in milliseconds only set how long a cooldown
  lasts, which is any time here.
* The number of 401 rounds per call (two) is not counted here: a call may ask again
  any number of times, which allows more than the code does. UpstreamCall counts it.

What goes wrong in a behaviour: `Mishaps` chooses which of these a run allows,
each at most once and `MaxMishaps` in all: `lost` (the endpoint rotated and its
answer is gone), `unwritten` (the write-back fails), `unlocked` (the lock
directory is not usable), `crash` (a process dies), `cli` (the CLI logs in or
refreshes by itself). `mishaps` remembers which happened, so that a property can
say what it depends on. Endpoint errors, cooldowns, 401s and expiry are not
mishaps and occur in every run.

### UpstreamCall

The whole loop of `callAnthropic` for several calls of the same models. A call's
budgets are the code's (`auth`, `exclusions`, `rotationChecked`, `retries`);
an answer is its status, and whether it is a long-context error, an entitlement
denial, or asks for a wait above the cap. `getExcludedBetas` hands out the
model's live set, or a detached empty one that is never told of later
exclusions: `tracked` says which a call holds, and `View` what it sees through
it. What the credential does on a 401 is CredentialRefresh's; here a refresh
gives any token or none.

### ModelCatalog and ModelResolution

Upstream publishes versions (`Publish`); a fetch is asked, answered with the
version of that moment, and lands later. `GET /v1/models` shares its fetch
(`inflight`), the profile's first fetch is shared and `?refresh=1` is not
(`ProfileReturns` lands on the cache whatever came before). ModelResolution is
`resolveModel` with its variants and aliases over the registry of the moment,
against what `/v1/models` has ever listed.

### Conversation and ToolPairRepair

The client's history grows by user turns, upstream's replies (with tool calls
under the names of `createToolMap`) and tool results, late or missing, and is
compacted; the property is about what `openaiToAnthropic` makes of every state
of it: `Sanitize`, `Translate` (with batches of tool results), `PrependSystem`,
`RepairToolPairs` in both modes with its stripping and placeholder passes, and
the cache marks. A wire name is a sequence of words, so that the second name for an
`Agent` and the first for a tool `agent_2` are the same `Agent_2`, as in the code. A tool whose
own name is a wire name in use is sent under it and not recorded (`tool-mapping.ts:100`): `WireOf` and
`SentName`. A text is one of a few kinds (ordinary, without a character, white space, a placeholder,
the system prompt), a picture can be sent or not. An assistant's content is a string, which may be empty or
white space, or null, or the thinking blocks a client kept (`ReplyContent`). The passes are written so that they
can be proved about: a filter is the join of one sequence or none for each element (`Only`),
what a pass makes of one message is an operator of its own (`DropMessage`, `StripMessage`,
`AnswerMessage`, `SanitizeMessage`), and a loop over messages is a recursive function.

### RequestOptions

Everything of a request but its messages, by the capabilities of its model:
upstream's catalog once fetched and normalised, the fallback catalog before.
Effort by suffix, option or default; thinking, temperature, structured output,
tool choice and its serial form, limits, cache marks, pictures, stop sequences (the set of
them: nothing depends on their order), and the three routes that send it (chat,
completions, which overrides the fields of `Completion`, and the token count), with
chat's refusal of a conversation that ends in too many tool errors. A catalog has one entry
for an id, as `indexById` leaves it.

### Answers

An answer grows event by event on the upstream's side (`MessageStarts`, `Starts`,
`Delta`, `Stops`, `MessageEnds`) and on the relay's (`ProcessEvent` with its indices and
its chunks, one `Enqueue` each). Once ended, it is read four ways: a streaming client's
concatenation, `anthropicToOpenai`, the completions route, and the dashboard's
reconstruction of the recorded bytes. What a client puts together is left as it came: the
arguments of a call without input are "" there, and `{}` in the other readings. Filters and joins are flattened sequences, and
`Reconstructed` is a recursive function over the events.

### StreamRelay

One call of `streamAnthropicToOpenai`. `pc` is where its `start` is: in
`reader.read()`, in the lines of a chunk, in the end-of-stream flush, or out.
The flags have the code's names; `out` is the runtime's ReadableStream, `block`
and `upstream` are Anthropic's side. Bytes are the events they complete, and
possibly one whose newline is still to come, so that a chunk can end between a
line and its newline. JavaScript runs one callback at a time, so cancel, abort,
keep-alive and timer move only while the loop awaits a read or has ended.

| Code | Model |
|---|---|
| `safeEnqueue` | `Accepts` and `Enqueue` |
| `processEvent` | `Track`, `Write`, `Breaks` |
| the read loop, its `for`, its time budget | `ReadChunk`, `ReadDone`, `ReadFails`, `ProcessLine`, `NextRead` |
| the flush, `[DONE]` and `close()` | `FlushLine`, `EndStream` |
| `finally` | `Finish` |
| `cancel()` | `Cancel` with `CancelNow` or `DeferCancel` |
| the timer's callback | `GraceEnds` (it is due), `ForceTimer` (it runs) |

The code says that `clearTimeout` cannot stop a callback that is about to run,
and guards against it; `ClearTimer` therefore may leave a due callback queued.
The runtime calls `cancel()` at most once, and never on a stream that is over. A line
cut inside its JSON at the end of the stream parses to nothing and is the same as an
event never sent. What the events say is Answers; the record the stream writes at
its end is RequestStore's.

### RequestStore

One row per request, written by `insertRequest` (middleware) and three kinds of
`updateRequest`: the early one of the route, the final one of the route or of
the stream, and the middleware's status, in the orders the handlers produce.
A turn is one call into the store and each of its SQL statements is a step:
the read of the row before, the row itself, the deletion and the insertion of
its index entry. Any of them may fail, the process may die between two, and the
purge script of another process may come between two; `Checkpoint`, `Signal`,
`Drained`, `ForceClose`, `SidecarLost` (the WAL files are deleted) and `ServerStarts`
with `reconcileFtsIfStale` complete its life. `gap` and `missed` are history: the rows
whose index the start-up reconciliation cannot see to be wrong, and those with a failed
statement or a purge. `gap` says something of the database's contents, so what the file
holds without its sidecars (`main`) keeps the gap of that moment, which `SidecarLost`
brings back with it.

### TelemetryReads, EventLog, Paging

Rows appear, get their tokens and end (TelemetryReads), or begin, end, throw
and fail to be written, beside errors that handlers emit of their own and fatal ones of
the process (EventLog, `Trouble`); every read of them is an operator that
translates its query: the list with its filters and its two searches (FTS and
LIKE, either for any call, as one that throws falls back to the other), counts, per-key usage,
`deriveKeyMetrics` of the browser, the last use,
metrics with percentiles, exports, the log's filters. The export makes its own filters, without
one of the API key (`Exported`). Paging is what the routes
make of limit and offset; `Pages` reads a list page by page.

### ApiKeys

Rows, the statements on them, the handlers of `/api/keys` step by step (the
classification of a rotation and its swap are two steps), an administrator
elsewhere, `create-api-key.ts` on the host, answers that get lost, and the
dialogs of the keys page, each of which may be closed while its call is under way.
A plaintext is a number; its digest and prefix are functions of it.

### LiveView

`emit`, the event bus, the SSE route and the wire; the hook's ring buffer, its
side buffer while paused and its reconnect timer; the history query with its
cache; the page being left and visited again. A click and the render it causes
are one step (React flushes a click's updates before the next message); an
event that arrives between a programmatic change and its render is not.

### Sessions

The polled list and its grouping (`GroupHead`), the page of one conversation
with one cache entry per turn, its polls, its single refetch of a turn that has
just ceased to be the last, and the garbage collection of unused entries.
A request's key is the hash of its first user text, and a request without one is in no
conversation (`NoText`, `Chats`). The list's text is taken to be there from the first answer that has the row;
when the early update brings an upstream body that begins otherwise than the client's, it is the later one.
Keys are compared as `groupIntoConversations` compares them: texts with one hash are one key in the code
and in the model.

### SignIn

Queries with their fetches (one at a time, under the key of the time they were
sent), retries, the prompt, submission, dismissal, revocation of keys, and a
replay, whose refusal opens the prompt too.

### DateRange

`zonedWallClock` over a zone with one offset change: a wall-clock time that is
skipped or comes twice, resolved to the earlier side for the beginning of a day
and to the later one for its end; an instant is a second and its milliseconds.

### Serving

Builds of the dashboard that redeployments replace (with the window in which
`dist` is gone), a cache that keeps what its headers let it keep, tabs that load
a page and later a chunk of its build, `serveStatic` with its fallback to
`index.html`, the gate in front of the API, and compression by type, size,
encoding and status.

### Deploy

`auto-deploy.sh` command by command: fetch, reset, install, build, restart,
health, and the same steps back. Any command that changes something may fail: in `apply`, where errexit is
off, the next one runs on what it left (`ResetFails`, the failing alternatives of `Install` and `Build`,
`RestartFails`, after which the old process may still run, or none), and the health check asks whatever runs;
outside, a mark that cannot be written ends the script (`MarkFails`), and one that cannot be removed ends it as well, after it
has said deployed (`Healthy`). `stepFailed` remembers which commands of this `apply`
failed. Pushes arrive at any time, and the script is killed between any two commands.
A sound commit serves with its own dependencies; the service keeps running what
it was started with.

## Runs

| Run | Checks | Shows |
|---|---|---|
| `lock` | LockTypeOK, ExclusiveUntilTakeover, AcquireSettles, NeverWedged | three contenders, two crashes, holders that may outlive the TTL |
| `lock_readme` (violation) | NeverRefreshConcurrently | the lock does not exclude two refreshes unconditionally |
| `credentials_pair` | StoreKeepsGrant, NoFalseTerminal, UsesLock | two processes rotating one credential, three tokens, a failed write-back or an unusable lock directory |
| `credentials_alone` | TypeOK, SingleFlight, MemoryKeepsWorking, ServedTokenWorks, CooldownRespected, Answered | a waiting and a non-waiting request of one process, beside the CLI, with every mishap and with fairness |
| `relapse` (violation) | NoRelapse | a failed write-back resurrects the exchanged token while it has a minute to live |
| `refused` (violation) | RefusedOnlyWithoutToken | a request can be refused while a usable token is in memory |
| `relay_timer` (violation) | ForceTimerFrees | the force-close timer does nothing once a keep-alive has noticed the abort |
| `safety` | MCTypeOK and | the parts of MCSafety, one to a behaviour |
| – calls | RetriesSound | two calls of one model: no refused beta sent twice, long context given up only with nothing left to drop, bounded requests |
| – talk | HistoriesSound, ToolNamesRoundTrip | every history of four messages and two tool calls, in both repair modes; two tools that share a base, one of them called what the other is mapped to |
| – models | ForcedRefreshIsFresh, CatalogNeverGoesBack, ListedResolves | the boot's fetch and two clients, three catalogs |
| – keys | KeysHonoured | rotation, rename and revocation against an administrator elsewhere and lost answers |
| – store | IndexExact, NothingWrittenIsLost | two requests, two starts, two faults of any kind at any statement |
| – session | GroupedByActivity | three requests of two keys or none, in every order and at every distance |
| – answers | AnswersAgree | every answer of three blocks and three pieces, several texts and calls without input among them |
| – options | OptionsAccepted | requests that combine the options that meet, before and after the catalog is fetched |
| – reads, log | ReadsAgree | three rows through every filter, page by page, counted and exported; two requests with a failed write and an error of a handler's own |
| – dates | DaysCovered | every change of the clock at every hour of three days, and every instant |
| – sign | NeverStranded | a query and a replay, two keys revoked and submitted in any order |
| `progress` | MCTypeOK and | the parts of MCProgress, one to a behaviour, with their fairness |
| – relay | LetsGoProperly, NothingDropped, LetGo | one stream against abort, cancel, keep-alive and timer at every await, with a stalling upstream |
| – store | ShutdownEnds | a signal ends the process however many streams are open |
| – live | ShownAsReceived | five events, a lost connection, two visits, pauses anywhere |
| – session | ShownWholeInTheEnd | an open page shows each finished turn whole, though it cached a part |
| – deploy | SaysWhatRuns, ComesToRest | four commits, two kills, any command failing |
| – serving | DashboardLoads | two tabs, two redeployments, one shared cache |
| `deploy_fails` (violation) | FailureRollsBack | a step fails and the deployment succeeds |
| `dialog` (violation) | ReopensClean | a dialog opens with the answer meant for another |
| `live_return` (violation) | SurvivesNavigation | a page visited again shows less than before |

Each property has a mutant in `PROJECT.json`: a definition of the model changed as a
plausible slip in the code would change it, under which the run finds the property violated.

### Bounds

Lock: three contenders are the least with which one holds the lock while two
others judge the same file, and two crashes let a takeover crash as well.
Credentials: three tokens allow an exchange of an exchanged token, which is
where a relapse or a dead token shows; two processes suffice because the lock
and the file are all they share and every race is between a holder and one
other; two requests in one process cover joins. One mishap per behaviour keeps
each property's condition visible. `MayOverrun = FALSE` in the credential runs
because the token request is aborted after 15 s and the TTL is 20 s; the lock run
drops that assumption. The pair run uses the symmetry that swaps the two
processes with their requests, and checks no liveness.
Relay: seven events allow two tool blocks or a tool block after a thinking
block, with the final event; chunks of three can hold the end of a tool block
with events on both sides of it.
Calls: two calls make the shared set of betas change under a call in each of
its waits; budgets of one each are spent in every order. Talk: four messages hold a
call, its answer, a compaction's cut between them and a following turn; a
second call makes a batch; the two tools share a base, so that one is numbered, and one of
them is called what the other is mapped to, so that its name goes up as it is once the other's is
recorded (a tool called like a numbered base is left to the theorem); a user says an empty string, or a text, a
blank one and a bad image; tools and a system prompt come together, as what they share
is a budget of marks and RequestOptions combines those. Catalog: three versions, with one that is empty and
one without a model that was listed. Store: two faults put a failed index write
before a crash or a purge within an update; two starts give a reconciliation. Sessions:
three requests interleave two conversations, or one with a gap, or with a request without a text.
Answers: three blocks give a
text between thinking blocks, and two tools in a row. Reads: pages of one row
over three cross every page boundary, and an export of at most two is cut. Log: a limit above the most
(9 for 3) is cut to it, a first page is then full or not, and `MaxTroubles = 1` puts one error of a handler's own, or a fatal one, before, between and
after those of requests.
Dates: a day has six hours and the offsets a whole hour's difference; changes
occur at each hour of the day before, the picked day and the next. Sign-in: a
query and a replay are two requests that learn of a bad key at different times; each of
two keys is submitted and revoked before, in and after their fetches, and the theorem
covers any number of queries. Live:
buffers of two over five events overflow both and a reconnect loses one in
between. Deploy: a commit that touches the dependencies, one the dashboard, one
that does not answer. Serving: two of three builds have the same charts, so that
a chunk may or may not survive a redeployment.

### Fairness

In the lock: a started call ends, a holder releases (its request has
a timeout), the TTL passes and the 60 s timer calls again; `OpenFails` and
`Crash` are never owed. In the credential system: the steps the event loop, the
15 s abort timer, the 5 s adoption deadline and the 45 s waiting deadline take by
themselves. A poll is a timer callback, which the loop runs eventually even if
other requests are busy whenever one looks, hence strong fairness for `Poll`
alone. Clients, expiry, the CLI, the end of a cooldown and kindness of the
endpoint are not assumed. In the relay: the loop's own steps, a read that
`reader.cancel()` has ended, and `setTimeout`; neither the client nor the
upstream owes anything, and LetGo needs no keep-alive. In the store: a storage
call runs to its end and the force timer fires; no stream need end. In the
sessions: polls and refetches are answered and garbage-collection timers fire while the
page is open. In the deployment: the script's next command runs
(systemd's timer included); pushes and kills are bounded and owed by nobody.
In serving: a tab's import and its reload, which the browser carries out; a
redeployment is not owed.

## Where the code and its words differ

Shown by a run:

* README line 269 says the lock makes processes "never refresh concurrently".
  A file that vanishes between `openSync` and `statSync` counts as stale, and the
  `unlinkSync` that follows removes the lock another process has created in the
  meantime (`lock_readme`). What holds is ExclusiveUntilTakeover.
* `credentials.ts:330-332` says a failed write-back never resurrects the
  pre-refresh token. Refreshes start five minutes before expiry and the re-read
  adopts any token with more than one minute left (`relapse`). What holds is
  MemoryKeepsWorking: whatever is adopted in place of a usable token is usable.
* `credentials.ts:388-391` says `ensureValidToken` throws only when nothing
  usable is left. A request that joins a refresh forced by another's 401 gets
  that refresh's null (`refused`). What holds is ServedTokenWorks: when it does
  not throw, the token sent is usable.
* `streaming.ts:355-357` says the force-close timer enforces its ceiling
  "regardless". `safeEnqueue` sets `closed` when it notices an aborted signal, without
  cancelling the reader; if a keep-alive does so while the upstream stalls inside
  a tool block, the deferred `cancel()` that follows arms a timer that returns at
  once (`relay_timer`). LetGo states what holds otherwise. By the same route an
  event that arrives between the abort and `cancel()` ends the relay in the middle of
  a tool block, which is why LetsGoProperly speaks of a reader that was cancelled.
* `deploy/README.md:23-24` and `auto-deploy.sh:6` say any failing step rolls back.
  `apply` is the condition of an `if`, so errexit is off inside it (`deploy_fails`). A reset or a
  restart that fails is followed by the health check of the old service, and the script says deployed:
  what holds is SaysWhatRuns.
* `keys.tsx:426` says a reopened dialog starts clean; the answer of the call it was
  closed on sets its state later (`dialog`).
* `live.tsx:48` says the history survives navigation; its cached answer is the first
  visit's, without that visit's live events (`live_return`).

Seen while modelling, and reflected in the model, but of no property's concern:

* Store. `storage.ts:124-126` has triggers keep the index in sync; only the one on
  DELETE is left. An update cut before its first index statement leaves a row
  whose index is stale and which the reconciliation, which compares counts,
  cannot see; a purge within an update leaves a document without a row. The
  completions route without a stream never calls `updateRequest`, so its tokens are
  in no usage report.
* Deployment. A script killed between the reset and the restart leaves HEAD at
  origin, and no later run restarts the service; nor does one after a restart that failed while the old service answered.
  While resets go on failing, the script says deployed and bounces the service each minute; so it does with a commit
  that failed when the mark cannot be written. ComesToRest supposes that neither goes on for ever.
* Upstream call. A concurrent call that holds a detached set of exclusions may give up on a
  long context that another call's exclusions would have saved.
* Transforms. System text prepended to a user turn that begins with a tool result
  comes before it (`openai-to-anthropic.ts:573`), where `repair-tool-pairs.ts:239` says that
  results "must lead the user turn"; HistoriesSound lets that one block stand there and no other.
  An assistant's string of white space is sent as a text block beside its calls
  (`openai-to-anthropic.ts:491`), and one without calls goes as it is, even empty, though lines 210-216 are about
  upstream rejecting empty text; HistoriesSound asks for no text block without a character, and of white space
  allows what an assistant said as a string. A bad image may leave a message without content. Declared
  tools `bash` and `mcp_Bash` share one upstream name, since a name that is mapped to is
  taken for a mapped one (`tool-mapping.ts:100`, which `domain-tool-mapping.spec.ts:116-126` asserts); the calls of the second
  come back as the first's, the exception ToolNamesRoundTrip makes. A
  `tool_choice` may name a function that only the history has.
  `reasoning_details` are emitted and never read. The non-streamed answer keeps
  only the first text block; a streamed tool call without input has the arguments "" where
  the whole answer and the dashboard have `{}`: AnswersAgree names both. The token count keeps `cache_control` on
  the last tool, and answers 500 for errors that carry 429 or 503
  (`middleware.ts:106` says such errors keep their status).
* Models. `resolveFamilyAlias` says "freshest"; an undated id wins over a newer
  dated one. `ensureRegistry`, `pickContextManagementEdit` and `trackToolError`
  are never called. The profile cache can go back to an older answer.
* Keys. The rename route ignores that `updateApiKeyLabel` matched no row.
* Reads. The export ignores the `apiKeyId` filter (`export.ts:79-93`), so that what a key's list exports holds the rows of
  all keys: ListComplete says what is left of the agreement; percentiles are one place above the
  nearest rank; a key's page counts all paths of its last 500 rows while the
  linked list shows chats only; the 4xx filter lists five statuses.
* Dashboard. `session-turns.ts:213` calls a prior turn "structurally immutable", yet it
  may have been cached unfinished (the refetch that ShownWholeInTheEnd relies on
  is in the page). A session's id changes when its first row leaves the 500-row
  list. Events emitted while the stream reconnects are never fetched; the live
  view's dedup key may equate distinct events. A first fetch that is in flight
  without a key is not replaced when one is entered, so its late 401 reopens the
  prompt. An aborted replay leaves `streaming` set, the replay of a streamed
  request shows nothing, and refused mutations do not prompt. The dashboard shows wire tool
  names for streamed answers.
* Serving. `negotiateEncoding` ignores `;q=0`; the path on which compression fails
  omits `Vary`, against `compression.ts:20-22`; only `/metrics` has the reload
  boundary.

## Proofs

Checked by TLAPS from the named assumptions on the constants alone (any sets of
processes, requests, calls, clients, queries, commits; any bounds). The
assumptions say what the constants are: finite sets, numbers, the shape of a
record. TLC evaluates each of them in a run.

A safety property here is seldom inductive. For each, the inductive invariant
that carries it was found with TLC, as an invariant of the run, and proved step by
step.

* **RefreshLockProofs.** LockTypeCorrect: types, and with them the bound of two
  attempts. LockExclusive: ExclusiveUntilTakeover says
  nothing of the file, and a contender about to unlink would break it.
  `HolderOwnsFile` adds that before the first takeover nobody is at the unlink
  and the file is the holder's.
* **CredentialRefreshProofs.** CredentialsUseLock: the credential system implements
  `LockSafetySpec`, by one lemma for the steps of a request and one for
  everything else; RefreshExclusive carries LockExclusive over through that
  refinement. TypeCorrect and SingleFlightCorrect go together (`FlightInv`): whoever
  runs a refresh is the request `inFlight` names; `LeadRefresh` needs it empty,
  and `Settle` empties it only once its one leader has left.
  The tokens follow in layers, each using the ones before, with one lemma
  per group of steps (outside a refresh, the exchange, its end, the surroundings):
  `BoundsInv`, no token is about before it is issued, and one that was obtained is held
  by a refresh that has the lock or went on without;
  `ServedInv`, a token on its way is younger than the one it was exchanged for
  (`Younger`), an unforced refresh began with a token about to expire and neither the file nor
  its memory has since gone back to an older usable one (`Keeps`), and what it
  hands out is no younger than its memory (`Delivers`). ServedTokenAlwaysWorks
  and MemoryAlwaysKeepsWorking rest on these. CooldownAlwaysRespected rests on `FlightInv`: the refresh whose failure
  begins a cooldown is the only one of its process, so no other is under way in it (`CooldownStays`).
  `FreshInv` adds that a token on its way, in a gateway (`MintedFresh`) or in the CLI
  (`CliFresh`), is live and nowhere else, which gives StoreAlwaysKeepsGrant.
  `CalmInv`: without mishap or takeover one token is live, the file's or the one the
  lock's holder is about to write (`OneLive`), and no memory is ahead of the file
  (`FileLeads`); hence NeverFalselyTerminal.
* **StreamRelayProofs.** RelayCancelsOnce, RelayServesClients,
  RelayCompletesToolCall, and together RelayLetsGoProperly, from `RelayInv`, which says how
  the flags constrain one another: a timer belongs to a deferred
  cancel, a cancelled reader to a closed relay whose client cancelled, and neither
  occurs while lines are being processed.
  RelayDropsNothing and RelayTypeCorrect, from `WayInv`: the events the relay holds, lines and the
  retained one, are a way from where its parser is to where upstream is, and what is owed
  on that way is what has not been written. A way is a function, so that cutting, joining and
  prolonging one need no induction, save where a chunk is received, whose count of
  visible events is the recursive function `Sent`; there `SetInduction` is used.
* **UpstreamProofs.** RetriesAreSound, from two invariants beside the types
  (CallTypeCorrect). `SeenAll`: what a call has seen refused is in its model's set, which only
  grows, and a call that holds a detached set has seen nothing refused; so no
  send contains a refused beta, and a long-context answer with nothing left to
  exclude means the set is full. `PaidAll`: the requests sent are at most one
  more than what the four budgets have been charged.
  CatalogTypeCorrect, RegistryNeverGoesBack and ForcedRefreshesAreFresh: `OneFetch` (whoever
  fetches the registry is the one `inflight` stands for), `AnswerKept` (its answer is no
  older than the registry it will replace) and `Fresh` (what a forced refresh's own fetch
  brings was published after it was asked for, and is what it returns) are inductive
  together. ListedIdsResolve: an id means itself in every version that has it, and what a
  name of a family or of another vendor is resolved to is a place in the registry's
  list; the assumption `ResolutionConstantsOK` is that no such name is a `claude-` id.
  OptionsAlwaysAccepted and OptionTypeCorrect: `Mirror`, the catalog in force is the
  declared one normalised, makes what GetModelCapabilities answers a statement about what
  upstream declared (`Capabilities`); `BodySound` and `ProjectionSound` then go through the
  fields of the body.
* **ConversationProofs.** HistoriesStaySound, from TalkTypeCorrect: whatever a
  type-correct history is, its translation is a sequence of turns that are fit to be sent but for the pairing of
  their calls (`FitTurn`; `TranslationIsFit`, by way of `SanitizeGives`, `TranslateGives`, `PrependGives`).
  A pass over a history flattens what it makes of each message, so the proofs rest on where the
  parts of a flattened sequence lie (`Flattened`, `PlaceOf`): what follows a turn afterwards is what
  was made of the turn after it. A dropping pass that removes no message leaves all calls paired, because the two
  halves of a pair are matched by each other (`KeptArePaired`); one that removes a message makes the history
  shorter; a paired history is a fixed point: so the `length + 2` passes suffice (`RepairGives`).
  Stripping leaves every result its use, though it removes messages, as those with a use stay
  (`StripGives`), and then a placeholder for each use that lacks a result pairs everything
  (`AddGives`). Each keeps thinking turns untouched or removes them, and keeps turns fit; of the
  users' last turns at most two are marked (`LastTwo`), beside two fixed marks (`PlanFits`).
  The invariant needs to be no stronger than the types, since the whole history is sent anew each time.
  ToolNamesAlwaysRoundTrip: a map is `Sound` when it is finite and gives no
  wire name twice. Of the numbers `MapToolName` may try, one more than there are names, one
  is free (`OneIsFree`, by the pigeonhole principle, since the wires of a base differ), so adding a name keeps it
  so (`MapsOne`); a name that is a wire name in use adds nothing; `MapsMany` and `CallsKeepSound` are inductions over the names of a list and
  the messages of a history, and `Unmaps` gives the name back. That the calls of the
  history carry declared names, which the types say, rests on the round trip itself.
  AnswersAlwaysAgree and AnswerTypeCorrect, assuming `AnswerConstantsOK`, from `AnswerInv`. Agreement says nothing of an answer that has
  not ended, so the invariant says what each reader has of one that has begun: the chunks tell what all
  blocks have said and the calls they hold (`Told`), with the thinking of those that have stopped; the
  dashboard has exactly those, and all blocks by index (`Has`); what is open is what
  the relay accumulates (`Split`, `Opened`); reason and usage come once, and last (`EndTold`). An event appends one
  chunk or grows one block, and each reading of a flattened sequence takes that as one more piece
  (`BlockAdds`, `LastGrows`, `ChunkAdds`), or none, by what kind it is; `RelayStarts`, `RelayGrows` and
  `RelayStops` put the readings together, and `TextOfChunks` reads the completions' text.
* **TelemetryProofs.** StoreTypeCorrect; IndexStaysExact, from `IndexInv`: what each statement of
  a storage call may count on (`InsertReady`, `UpdateReady`, `IndexReady`), that a request that has
  not come has no row (`Untouched`), that the file is the database after an orderly stop
  (`Orderly`, `Stopped`), and that a document is true to its row in the database
  (`Sound`), in the file (`FileSound`), and there for every row (`RowsCovered`) but where a
  start was deceived: it compares counts, and a document a purge has orphaned makes up for a
  row that has none. WritesAreKept: a row loses columns only to a purge and to a crash with
  lost sidecars. FilterCoversTheDays: DaysCovered is a fact of integers about
  every zone with one change; `EarlierBound` and `LaterBound` say where a
  wall-clock time is put relative to any second's own reading, by the three cases of
  `zonedWallClock`'s bracket (before the change, after it, around it).
* **DeployProofs.** ReportsWhatRuns, and DeployTypeCorrect: from the reset on the checkout is at the
  run's target unless the reset failed, and once the restart has not failed the service was started from the checkout
  (`AtTarget`).
* **DashboardProofs.** NeverLeftWithoutSignIn: NeverStranded is inductive with the types; each step
  shows for one refused query that the prompt is open, or a fetch
  pending, or the operator has closed the prompt on that failure.
  KeysTypeCorrect, and KeysStayHonoured: a plaintext enters a call only with the
  statement that stores its digest (`AnswersAreStored`), and no statement touches a revoked row,
  whatever was looked up before (`RevokedRowsStay`).
  PauseLosesNothing and LiveTypeCorrect, from `LiveInv`: the two buffers joined show what was received,
  as far as they reach (`Transparent`), every list is in the order of emission (`InOrder`) and the
  history is what had been emitted (`HistoryOK`); `UnseenSelected` is what the
  merge's SelectSeq returns, from the definition of SelectSeq itself.
  SessionTypeCorrect and SessionsAreGrouped: `AllGrouped` is an induction on the rows of a window, each of
  which inherits the conversation of its key's previous row or begins one (`HeadFacts`); rows without a text are passed over.

Writing them changed the models in three places, each where the proof
failed for a reason. IndexExact was not true of more faults than the run had: when the sidecars
are lost the rows of the file come back and with them its gap, which the model
had left behind (`main` has it now). The options of a request
were a record whose fields nothing fixed (`RequestFields`, `Completion`).
The types of a conversation allowed messages that no client sends (a tool's without content, a
user's that is null), of which nothing follows: `AsSaid` says now what a message may be by
its role, and `TalkConstantsOK` what the contents of a user's turn are.

Model-checked only:

* ReadsAgree: its readings are sums, percentiles, sorted pages and filters by SelectSeq and folds, and what a
  fold computes for every input needs an induction with an operator parameter. One can do
  without where the code's own loop is a function over numbers or positions (`Sent`, `GroupHead`,
  `MapToolNames`, `DropPasses`, `Translate`, `Reconstructed`) or a flattened sequence, as above.
* The types of TelemetryReads, EventLog and Serving (the parts of MCTypeOK without a theorem).
* Liveness (Answered, AcquireSettles, NeverWedged, LetGo, ShutdownEnds,
  ShownWholeInTheEnd, ComesToRest, the second part of DashboardLoads), out of the
  prover's reach.

## Plan

1. What needs no fold of ReadsAgree (counts against lists, page by page) and of DashboardLoads (what a
   tab gets can be read).
2. Type theorems for Serving, EventLog and TelemetryReads.

## Not modelled

* Console logging, the trace context, CORS headers, the health answer, request
  ids, header strings, billing text and the wording of prompts and errors:
  no state, and no property speaks of them.
* `trackToolError` and its counters, `ensureRegistry`,
  `pickContextManagementEdit`: nothing calls them.
* Schema migrations of the store and its time buckets; conversation previews.
* The markers of a transcript (`computeMessageDedup`). It compares 32-bit djb2 fingerprints of messages
  (`session-turns.ts:149-153`, 186), and `sessions.ts:103-107` accepts that a collision makes a false marker: a model that took the
  fingerprint for the message would show just what the code does not promise.
* Events of the level info and warn that handlers emit besides the middleware's: they count in no read but the totals.
* Charts, layout and formatting of the dashboard, and its generated components.
* The refusals of `auto-deploy.sh` that change nothing (a modified checkout, a
  rewritten master).
* SQLite, React's query library, the browser, git, systemd, the CLI and the
  endpoints are external: modelled by what the code relies on.
