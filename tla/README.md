# TLA+ models of helix_thready

Specifications, model-checking configurations and proofs for the Go implementation under
`src/implementation`. Thready reads threads of posts from Telegram and Max, claims each post,
runs Skills on it (download, transcribe, analyse, research, reply), keeps the artifacts, and
tells the rest of the system through an event bus, callbacks and webhooks. The modules follow
the Go code, not the design documents; where the two disagree, a run shows it (see *Findings*).

## 1. Inventory

Paths are relative to `src/implementation`.

| Component | State it keeps | Operations | Talks to | Hard part | What makes it correct |
|---|---|---|---|---|---|
| `processing` | claim states under a mutex; per call: step results, attempt, context error | `Process` (claim, steps, retry, backoff, mark, event, callback), `Claim`, `MarkDone`, `MarkFailed`, `Release`, `State` | Skills, claimer, event emitter, callbacker | racing triggers, cancellation at any point, Release of a running post | one run per claim, claims and reports tell the truth, stage order, every claim settles |
| `event_bus_service` | journal, sticky values, subscriptions (queue or bounded buffer), async channel and counter, closed/stop | `Publish`, `PublishSticky`, `PublishAsync`, `Invalidate`, `Subscribe`, `SubscribeDurable`, `Unsubscribe`, `Drain`, `Close` | every producer and consumer in the process | deliveries happen after the lock is released; Close has five stages | no loss or duplicate between backlog and live, each publisher's order for every subscriber, snapshots first, Close ends |
| `download_manager/manager.go` | jobs with state, attempts, pause request; bounded queue; worker pool; started/stopped | `Start`, `Enqueue`, `Pause`, `Resume`, `Shutdown`, `Status`, `Wait`; `runJob`, `finish` | fetcher, progress and completion callbacks | pause and resume race with the worker; a lock is held across a blocking send | a job is in one pair of hands, never lost, stays final, keeps its budget, settles |
| `download_manager/http_fetcher.go` | `.part` data and `.dlstate` on disk, segment counters | probe, segments, persist, resume, checksum, rename | HTTP server, file system | crashes between data and state, concurrent persists | a resumed file has no hole, a finished one is complete |
| `callback_task` | tasks, dead letters, delivery failures under one mutex; webhook retry loop | `Submit`, `Start`, `Progress`, `Complete`, `Fail`, `Status`, `DeadLetters`, `DeliveryFailures`; `Notify` | HTTP receiver | delivery outside the lock, cancellation during backoff, lost answers | every change is delivered or recorded, dead letters exact, finished tasks stay |
| `skill_dispatch` | claims, registry of Skills | `Process`, `Claim`, `MarkDone`, `MarkFailed`, `Release` | Skills, one event sink | claim, settlement and every event are steps of their own; a Release overtakes a run | one winner per claim, a settled claim lets in nobody, events tell what happened, in order of precedence |
| `rest_gateway`, `server` | idempotency ledger, channels, jobs, signed tokens, event stream of 16 slots | routes, the chain (authentication, role, scopes, idempotency), handlers, stream bridge | all services, the bus | two requests with one key; slow or vanished stream readers | an answered key is replayed to its user only, the bridge ends |
| `user_service` | token store (issued, revoked), API keys, TOTP counters | `Issue`, `Validate`, `Refresh`, `Revoke`, `RevokeAllForUser`, `Purge` | gateway | `Refresh` and `Issue` are several critical sections | a refresh token is used once |
| `asset_service` | content-addressed blobs, encrypted index on disk and in memory, asset records | `Put`, `Get`, `Has`, reload, `ServeHTTP` | file system, HTTP clients | crash between blob and mapping, concurrent Puts of one content, damage on disk | what was acknowledged can be read; bytes are right and go to whom they belong |
| `metube_webhook`, `boba_adapter` | set of fired keys | `Poll`/`Run`, `Handle`/`Consume` | external services, webhook sink | check, deliver and mark are separate critical sections | a terminal job is reported, once per goroutine at most |
| `metering` | reservations, limits, usage records | `Allow`, `Release`, `RecordUsage`, `Aggregate`, `Bill` | all services | limits lowered under reservations, period boundaries, rounding to blocks | sums agree, periods partition, invoices charge whole blocks |
| `threadreader` | none | `Assemble`, `ExtractHashtags` | message sources | delivery in any order, with duplicates | the thread depends on the set of posts only |
| `semantic_search` | index (a map without a lock) | `Chunk`, `Index`, `Search` | files, embedder | files change, nothing is removed; hits merge in order of score | results are whole, disjoint and ranked |
| `sdk_go` | token of a client shared by goroutines | `do` with retries, `Login` and the other methods | gateway | lost answers, answers that cannot be decoded, requests net/http sends again, cancellation, a Login between two attempts of another call | a Login or a POST without a key acts once, nothing answered is asked for again, a GET gives up only after its attempts |
| `config` | none | load, validate | files, environment | precedence of layers | - |
| adapters (`telegram_adapter`, `max_adapter`, `ocr_adapter`), `cli`, SDKs in other languages, `integration` | none of their own | wire formats, one request, tests | remote systems | none that interleaves | - |

How they meet: a trigger calls `processing.Process`; its Skills use the download manager and the
stores; its events go to the bus, its completion to a callback; gateway clients read the bus
through a live subscription; jobs and tasks report to webhooks with the same signature scheme.

The hazards of this code, each at its line and with the properties that would catch it, are listed
in `PROJECT.json`. Where the code is exposed and every property speaks around the case, the list
names no property and a note says what is left open.

## 2. What is modelled

| Module | Models | Notes |
|---|---|---|
| `Processing` | `processing/*.go` | one action per stretch of `Process`/`runStep` between two points where another goroutine, the context or a Skill can interfere |
| `EventBus` | `event_bus_service/*.go` | one action per critical section or channel operation |
| `JobLifecycle` | the promise of `download_manager` for one job | abstract specification, four lines of state |
| `DownloadManager` | `download_manager/manager.go` | implements `JobLifecycle` (`LifecycleSpec`) |
| `CallbackTask` | `callback_task/*.go` | registry transitions and the delivery of their envelopes |
| `HttpFetcher` | `download_manager/http_fetcher.go` | the files survive a kill between any two steps |
| `AssetStore` | `asset_service/*.go` | both stores, the records and the handler, with restarts and damage |
| `Gateway` | `rest_gateway/*.go` and the services of `server/services.go` | requests as goroutines through the chain |
| `EventStream` | `GET /v1/events`: `handleEvents`, `realEvents.Subscribe` | the bus is the buffer of one live subscription |
| `Sessions` | `user_service/jwt.go`, `tokenstore.go` | one action per call of the store |
| `SdkClient` | `sdk_go/client.go` | `do`, attempt by attempt, and within one the transport's own replays |
| `Completions` | `metube_webhook/*.go`, `boba_adapter/*.go` | one protocol, two adapters: `adapter` says which |
| `Dispatcher` | `skill_dispatch/*.go` | |
| `Metering` | `metering/*.go` | integers wrap at `Half` |
| `Threads` | `threadreader/*.go` | operators against reference definitions |
| `Retrieval` | `semantic_search/*.go` | operators against reference definitions, and the index |
| `MCProcessing`, `MCEventBus`, `MCDownloadManager`, `MCCallbackTask` | | small instances for TLC |
| `MCStorage` | `HttpFetcher`, `AssetStore`, `Dispatcher` | units that share no state: a behaviour is one unit's, as `unit` says from the start |
| `MCGateway` | `Gateway`, `Sessions`, `SdkClient` | as above |
| `MCServices` | `EventStream`, `Completions`, `Metering`, `Threads`, `Retrieval` | as above |
| `ProcessingProofs`, `EventBusProofs`, `DownloadManagerProofs`, `CallbackTaskProofs` | | theorems about the module of the same name |
| `StorageProofs`, `ApiProofs` | | theorems about `HttpFetcher` and `AssetStore`, and about `Gateway`, `Sessions` and `SdkClient` |
| `ServicesProofs` | | theorems about `Completions`, `Dispatcher`, `Metering`, `Threads`, `Retrieval` |
| `CountingLemmas` | | lemmas on natural numbers, counting, listings, sums and folds that the proofs share |

### Processing

A call of `Process` is a process with a program counter: `idle` (claim or reject), `step` (loop
head), `attempt` (the check of `ctx.Err()` in `runStep`), `running` (inside `Skill.Run`),
`backoff`, `dead`, `mark`, `emit`, `callback`, `returned`. `claims` is `MemoryClaimer.states`.
A Skill's error matters only in two ways: whether `Permanent` wraps it and whether its *text* is
that of a context error, which is how the engine recognises cancellation. `CancelContext` may
happen at any moment; the backoff timer may still win the select. `epoch`, `early` and `wonAt`
are history: they count Releases and note the epoch a call won, so that "exactly once" can be said
with reprocessing in the model. Left out: payloads, artifacts, progress fractions, wording.

### EventBus

`log`, `sticky`, `subs`, `asyncCh`, `asyncPending`, `closed`, `stopped` are the fields of `Bus`.
A publisher (client or dispatcher) journals and picks its targets in one action (the locked part
of `publish`) and delivers to them one by one, in any order, since they come from a map. Durable
subscriptions have the queue and the element in the pump's hand, live ones the buffered channel.
`Close` is five actions: check, drain, mark, stop, wait, and then shutdown of the subscriptions.
A second close of `stop` ends in `panicked`. A logged event is its Seq; seq 0 is the notification
of `Invalidate`. `joined`, `got`, `dropped`, `accepted` are history. What a client may ask is
chosen by `Request`; `Posters`, `AsyncPosters`, `Owners`, `Closers` say who asks what.
`Drain` called on its own waits and changes nothing. `Dispatch` takes an event from the channel and
journals it in one action: the moment between the receive (bus.go:183) and the lock of `publish`,
when the event is in the dispatcher's hand only, is merged away. `asyncPending` still counts it then,
and nothing but the dispatcher takes it further.

### DownloadManager and JobLifecycle

`mu` is `Manager.mu`, held by `Enqueue` and `Resume` across the send to the bounded queue.
A worker's place in `runJob` is `wpc`; every critical section of the job's lock is an action, so
between the judgement of an error (`JudgePaused`, `JudgeTransient`, `JudgePermanent`) and the
assignment of the new state (`SetPaused`, `SetRetrying`, `Finish`) others can act, as in the code.
A job's context is dead exactly when its pause is requested or the manager is stopped, so it is no
variable. A fetch returns any result at any time. `Progress`/`CallbackPause` is a progress
callback that calls `Pause`, as a test of the repository does. `JobLifecycle` has the state and
the completion signal of each job only; the refinement maps both variables to themselves.
A `Pause` is one action although the code takes two locks; the guard says when the job can have
been found.

### CallbackTask

A caller is a goroutine inside one call of the registry. `Change` is the code all transitions
share: the change and the snapshot under the lock, then the entry into `Notify`. Delivery is the
retry loop of `deliver`: `Accepted` (2xx), `AnswerLost` (the receiver has the envelope, but the
answer is lost or not 2xx), `Unreachable`, the two arms of the backoff's select, and
`RecordFailure` (`recordDeliveryFailure`). A context that ends is seen in the backoff's select or
as a failed exchange, so it is no variable. An envelope is its task and its number among the
task's changes. A progress of NaN passes the range check and cannot be marshalled, which the
model keeps. A registry without a notifier is not modelled: its calls return at once.

### HttpFetcher

A block is what one `Read` returns; a block of data is the version of the resource it comes from
and its place. `part`, `saved`, `tmp` and `dest` are the four files; everything else is the
process's and is lost in `Kill`. A segment's goroutine passes through request, read, commit,
persist; `persist` is `Snapshot` (under the lock), `OpenTmp`, `WriteTmp`, `RenameTmp` (outside it),
one `writer` per goroutine, all through one `.tmp` name: an open file that is renamed by somebody
else becomes the state file, which `writer[w].fd` follows. A server either honours ranges, tells
the size, sends an ETag, answers whole bodies and keeps its content, or does not
(`MCServers` picks six combinations); the caller knows a checksum or does not.

### AssetStore

A content stands for its SHA-256; a blob is the content and the nonce it was sealed with. `Put` is
dedup check, commit of the blob (temporary file and rename are one step: nobody sees the temporary
one), and for the encrypted store the mapping on disk, then in memory. A concurrent `Put` of one
content seals it a second time, so index and disk may name different blobs. `Restart` loses calls
and memory and reloads the index; `Rot` damages a file. The handler is `Serve`, `Lookup`, `Read`.

### Gateway and EventStream

A request is a goroutine: `Arrive` (route, authentication, role, scopes), `LookUp` in the ledger,
the handler with its service, `Store` into the ledger. A token is the user and type it was signed
for and verifies until `Expire`. Handlers answer as the services do, in memory or the real ones.
`EventStream` takes one stream apart: handler, bridge, bus subscription, channel of the stream;
the client's context, `cancel` and the close of the bus can come at any point.

### Sessions, SdkClient

`Refresh` is validation, the compare-and-revoke of `RevokeIfActive` (`Gate`), and the steps of
`Issue`: sign, register the access token, register the refresh token and return. A logout of all
sessions between two of them misses tokens that are registered later, as in the code.

A call of `SdkClient` is a GET, a POST without an `Idempotency-Key` (`Search`), one with a key
(`KEYED`: `CreateChannel`, `Reprocess`) or the Login. `Attempt` chooses the credential and enters
`Do`, which sends nothing under a context that has ended; `Answer` is the server; `TransportError`
is a `Do` that fails, also after the server answered (a lost answer). Within one `Do`, `Replay` is
net/http's Transport, which sends a GET, or a POST because of its key, again when the reused
connection ends before the answer begins; `MaxReplays` bounds it. `Response` is what `do` makes of a
status: another attempt, the answer, or a `decode` failure, when a 2xx comes with a body that is cut
short or is not the JSON expected: that ends a GET without a retry and a Login without a token. A
non-2xx needs no body. `handled` keeps what the server answered and whether it was lost. Redirects
are left out, since no route of the gateway answers one.

### Completions, Dispatcher, Metering, Threads, Retrieval

`Completions` enumerates what a service can report (name, status, number) and translates it as
`classify`, `normProgress` and `EnvelopeFor` do. `Dispatcher` is close to `Processing`, but the
claim, the settlement and each event are separate there, so a post may be claimed anew before the
call that settled it has reported. A Skill registered twice runs twice, so `StageOrder`
speaks of places in the sorted list, and `DispatchedOnce` counts the successes of each kind.
`Metering` adds as `int64` does: a sum that leaves `-Half .. Half - 1` wraps. `Threads` reads a thread anew after each post that
arrives, or fails to fetch it. In `Retrieval` the SHA-256 of an id is any number (`Hash`) that tells
the possible ids apart: it breaks ties between equal scores.
`Threads!Assemble`, `ExtractHashtags`, `Retrieval!ChunkGo`, `ChunkMarkdown`, `Search` and
`mergeOverlaps` are pure; the properties compare them with definitions that do not follow the code
(sets of posts, tags as intervals, hits as sets of lines). `Metering!Bill` itself is evaluated only
with no events: the charges are checked through `Amount`, which it uses for each metric.

Modelled without a property that depends on it: where a rendition comes from and the cleaning of
its path (`AssetStore!LocalOpen`, `HttpOpen`, `Clean`), the handlers that only read and the
precedence of Skills in a reprocess request (`Gateway!HandleRead`, `Precedence`). Program counters
and their helpers (`Goto`, `Goes`, `Idle`, `Resting`) stand for no line of the code, and the map in
`PROJECT.json` does not name them.

## 3. Runs

All passing runs finish; the bounds are the smallest on which each hazard can happen.

| Run | Instance | What it shows |
|---|---|---|
| `processing` | 1 post, 2 calls, 3 Skills registered out of order (two of one stage), 2 attempts, 1 Release, fail-fast on and off | `ExactlyOnce`, `ClaimSound`, `ReportsTruthful`, `StageOrder`, `SettledIsFinal`, `ClaimedSettles` |
| `processing_best_effort` | 1 call, 2 Skills | `BestEffortRunsAll` fails (finding) |
| `event_bus` | 2 clients (one publishes both ways, the other subscribes, unsubscribes and closes), 2 subjects, 3 calls, 1 subscription of either kind, buffer 2, async channel 1 | `ExactlyOnePlace`, `PublisherOrder`, `SnapshotFirst`, `AsyncAccounted`, `DurableDelivered`, `CloseReturns`, `TypeOK` (the buffers' bounds) |
| `event_bus_order` | 2 concurrent publishers, 1 durable subscription | `DurableInPublishOrder` fails (finding) |
| `event_bus_close` | 1 asynchronous publisher, 1 closer | `CloseLosesNothing` fails (finding) |
| `download_manager` | 2 jobs, 2 workers, 2 clients, queue of 1, 1 retry, 1 pause per job, one job pausing itself from its callback | `NoSendAfterClose`, `SingleRunner`, `AccountedFor`, `RetryBudget`, `TerminalIsFinal`, `LifecycleSpec`, `JobsSettle`, `ShutdownDrains` |
| `download_callback` | 3 jobs, 1 worker, queue of 1: the smallest instance in which the queue is full while a job runs and another is sent | `SendReturns` fails (finding) |
| `download_budget` | 1 worker | `DeadMeansExhausted` fails (finding) |
| `callback_task` | 1 task, 2 callers, 2 attempts, 1 progress report, 1 retry per delivery | `NothingSilentlyLost`, `DeadLettersExact`, `TerminalIsFinal`, `CallReturns` |
| `storage` | fetcher: 3 blocks, 2 segments, state persisted every 2 blocks, 2 contents, 2 calls of Fetch, 1 kill, 6 kinds of server; assets: 2 contents, 2 accounts, 2 putters, 1 record, 1 read, 1 damage, 1 restart; dispatch: 1 post, 3 triggers, 3 Skills of two kinds, 2 attempts, 1 Release | `ResumeSound`, `PublishedWhole`, `AckedReadable`, `ServedIsRight`, `DispatchedOnce` |
| `gateway` | the seeded users, 2 clients, 1 key and requests without, 4 requests, memory and real services; sessions: 1 user, 2 callers, 3 pairs, lifetimes 1 and 2; SDK: 2 calls, one of them the Login, 1 retry, 1 replay per attempt, 2 targets | `ReplayAfterAnswer`, `RotatedOnce`, `CallsAccounted` |
| `services` | stream: buffers of 1, 4 events; completions: 2 jobs, both nameless, 2 pollers, 1 retry, 3 reports; metering: 2 metrics, 2 callers, `Half` = 128; threads: 3 posts, 36 threads, 4 deliveries; search: 3 files, 2 versions of one, cut at 3 | `StreamEnds`, `CompletedOnce`, `JobsReported`, `MeteredOnce`, `Assembled`, `Searched` |

Why the bounds are enough. Two calls suffice for a lost claim race and, with one Release, for two
overlapping runs; two attempts give a retry and an exhausted step; three Skills of two stages tell
a stable order from an unstable one. In the bus, three publications with a buffer of two overflow
a live subscription, and a durable cursor can lie before, inside and after the journal; one
subscription is enough because subscriptions do not interact. In the manager, the queue of one
makes the second send block, two workers allow a job to be picked up twice, one retry and one
pause reach `dead`, `retrying` and `paused` in every order. In the registry, two attempts reach
`retrying` and `dead`, one retry has a first, a last and an interrupted exchange, and two callers
leave one free to finish a task while the other still delivers. In the fetcher, three blocks in two
segments leave one segment with two, so a state can be partial, and two fetches with one kill let
an old temporary file meet a new run; the second content makes a mixed file possible. In the asset
service two putters of one content are what makes index and disk differ, and one restart reloads
that. In the gateway four requests are two overlapping and two later ones, with one key; the
accounts differ by role and scope, which is what the chain tells apart. In the SDK one call is the
Login, because no other call changes what a call reads, the token; a replay and a retry meet within
two attempts. In the dispatcher an early Release lets in a second call; the third trigger is the
one that must not be let in when the first call's mark settles the second one's claim. The three
calls are alike and begin in one order, which leaves out only renamings of them. Three pairs are a login and
two competing rotations. In metering, `Half` = 128 holds every sum of the instance, which is where
the property is stated. Three posts with equal and unequal times, missing roots and chains are every
case of the assembler's comparisons; three files are one of each language. What these instances do not
cover in numbers, the theorems cover for all constants where there are any (section 5).

The composed runs check units side by side that share no state: a behaviour runs one unit from its
initial state, and the others stay in theirs. They are composed for economy, and no property
relates two units; what really meets (stream and bridge, dispatcher and sink) is inside a unit.
`storage` uses symmetry of putters, `gateway` of requests and callers; neither has a temporal
property.

Deadlock checking is off in all runs: every system here may stop (all calls returned, bus closed,
manager shut down, every task finished, bounds used up).

Every property of a passing run has a mutant in `PROJECT.json`: a changed definition, standing next
to the original in the module, under which the same run finds the property violated.

## 4. Fairness

A component's `Spec` is without fairness; liveness is checked under `FairSpec`, and in `MCServices`
under the fairness of the two units that have a liveness property.

* `Processing`: weak fairness of what a call's goroutine does by itself, which includes that a
  Skill's `Run` returns; a Skill gets the context and the retry policy has no timeout of its own.
  Nobody has to trigger, cancel or Release.
* `EventBus`: weak fairness of each goroutine inside a call, of the dispatcher, and of consumers
  that keep reading. Delivery to a live subscription never blocks; the pump of a durable one does,
  which is why `DurableDelivered` needs the consumer and `CloseReturns` does not.
* `DownloadManager`: weak fairness of every worker and of a send that has room; a fetch returns.
  A fetch does get a context, and a hanging server is outside the model.
* `CallbackTask`: weak fairness of each caller inside a call. That an exchange ends is the
  receiver's promise, or the client's timeout, or the context's deadline: `http.DefaultClient`,
  used when no client is set, has no timeout.

* `EventStream`: weak fairness of handler and bridge, which includes that a write to the client
  returns, and strong fairness of the arms of a select that see the context or `done` ended
  (`SeeDone`, `BridgeQuits`): Go picks among ready cases at random, so an arm that is ready again
  and again is taken.
* `Completions`: weak fairness of a poller's own steps, and strong fairness of `Acknowledged`: a
  receiver that is asked again and again answers in the end. Without it no delivery is promised.
* `HttpFetcher`, `AssetStore`, `Gateway`, `Sessions`, `SdkClient`, `Dispatcher`, `Metering`,
  `Threads`, `Retrieval`: safety only, no fairness.

Elsewhere weak fairness is enough: no action that must happen is enabled only intermittently by a competitor
that may win for ever. Go mutexes and channels are granted in queue order, and the models have no
waiting loop that others could keep busy.

## 5. Proofs

TLAPS proves the following for every value of the constants that satisfies the named assumptions
of the module (non-empty limits, disjoint ids, hashes that do not collide; nothing on the number of
calls, jobs or workers).

**`ProcessingProofs`** - `TypeCorrect`, `ProcessedOnce` (`ExactlyOnce`), `ClaimsSound`
(`ClaimSound`), `SettledStays` (`SettledIsFinal`), `ReportsAreTrue` (`ReportsTruthful`),
`StagesInOrder` (`StageOrder`). `ExactlyOnce` alone is not inductive: a call
may claim only if nobody won the current epoch, so `UnclaimedInv` says that an unclaimed post has
no winner in it; `CallsInv` ties `wonAt` to the program counter and bounds it by the epoch;
`HolderInv` says that, without an early Release, a running call holds the claim, which excludes a
second mark; `EndInv` says why a run that reached its mark ended, which `ClaimSound` needs to read
the outcome from the results. `RunsInv` adds, call by call, what event and callback can have said
(`ReportSound`) and which steps have a result (`RunSound`). That the list a run walks through is a
stable sort of what was registered comes from `StableSort`; `StageOrder` follows.

**`EventBusProofs`** - `TypeCorrect`, `OnePlaceEach` (`ExactlyOnePlace`), `SnapshotsComeFirst`
(`SnapshotFirst`), `PublishersInOrder` (`PublisherOrder`), `AsyncCounted` (`AsyncAccounted`).
The invariant has these parts. `ControlInv`: where a goroutine can be, and that finitely many are
inside a call. `DeliveryInv`: what a publisher delivers is its newest event, and it targets no
subscription that joined later. `SubscriptionInv` and `StreamInv`: which subscriptions are
registered, and what a subscription's stream (received, in the pump's hand, queued or buffered)
can hold. `CountInv`: `asyncPending` is the number of senders, of events in the channel and of
the one the dispatcher works on. `CallOrder`: asynchronous events of one caller never overtake each
other between its hands, the channel and the journal. `StreamOrder` says of whole streams what
`PublisherOrder` says of what was received, for durable and for live subscribers: only so is it
inductive. A subscriber's backlog and snapshots are older than anything that is delivered to it
later (`BeforeStep`). `ExactlyOnePlace` counts
occurrences, with the lemmas on `Count`: each step moves an event from one place to the next.

**`DownloadManagerProofs`** - `TypeCorrect`, `QueueOpenForSends`, `OneRunner`, `NoJobLost`,
`BudgetKept`, `Implements` (the refinement of `JobLifecycle`), `FinalStays`. The invariant has two
halves. `HandsInv`: what a worker's place says of the state of its job (`PlaceInv`), that a queued
or sent job is `queued` (`WaitInv`), that hands are disjoint (`Apart`), and that a job something
is owed to is in someone's hands (`NoneLost`). Then the budget: `TryInv` and `AttemptInv` count a
try that a pause will cut short, or a pause not yet seen, as one due, and make
`attempts <= MaxRetries + 1 + pauses` inductive. The refinement follows from `PlaceInv` and
`NotifiedInv`, one step per action, each a step of `JobLifecycle` or a stutter.

**`CallbackTaskProofs`** - `TypeCorrect`, `EveryChangeReported` (`NothingSilentlyLost`),
`DeadLettersCorrect` (`DeadLettersExact`), `FinishedStays` (`TerminalIsFinal`). The three
invariants and `Held` (a caller that delivers has an envelope) are inductive together.

**`StorageProofs`, the fetcher** - `ResumesSoundly` (`ResumeSound`), `PublishesWhole`
(`PublishedWhole`). The state file is only one of the
places a count can be: `StateWritten`, `SnapsWritten` and `TmpWritten` say the same of the
session's state, of every snapshot on its way to the disk and of a temporary file a kill left;
`SegmentsPlaced` and `WritersPlaced` tie a goroutine's position to its segment and to its call of
`persist`, so that `Commit` counts the block just written; `Forgotten` says that the state file is
gone before the data is truncated or published. For `ResumeSound` it does not matter that segments do
not overlap: each counts only blocks that were written.
`PublishesWhole` needs more. `ShapesInv`: every state a run can resume from, wherever it lies,
divides the resource without a gap (`Shaped`), which for a new one is a fact about the integer
division in `Split`. `ReadsInv`: a goroutine that is through has counted its segment to the end.
`Accurate`: what is counted is the resource's byte at that place, as long as the server keeps its
content. `Finished` carries that from the last goroutine to the rename.

**`StorageProofs`, the stores** - `AckedStays` (`AckedReadable`), `HandlerAnswersRight` (`ServedIsRight`),
`AssetStoreTyped`. `IndexesSound` says that index and mapping name existing blobs of their content
and that the index has nothing the disk has not, which is what survives `Restart`; `PuttersSound`
says what a call of `Put` has already done; `AssetsAcked` that records name acknowledged contents;
`ReadersSound` what a request has found so far; `DamageCounted` that damaged bytes mean a damage.

**`ApiProofs`, the gateway** - `AnsweredIsReplayed` (`ReplayAfterAnswer`). `LedgerTrue` (an entry was an
answer) and `LedgerComplete` (an answer has an entry) are inductive with four facts on each
request: a request that repeats an answered one still finds the entry when it looks it up.

**`ApiProofs`, the tokens** - `RotatedOnceHolds` (`RotatedOnce`), `SessionsTyped`. `Spent`: the token a
caller is about to replace is revoked already, and nobody else holds it, which is what
`RevokeIfActive` is for; `Known` and `Unreturned` say which pairs can be presented at all.

**`ApiProofs`, the client** - `AccountsHold` (`CallsAccounted`), for any number of calls, retries and
replays: the property is inductive with `Ready`. While the server may act on a request again, each
of its answers so far allows that, and there is none to a Login or to a POST without a key; an
answer under way is not lost.

**`ServicesProofs`** - five parts, one for each module.

* `CalledBackOnce` (`CompletedOnce`): `fired` alone does not say who acknowledged a key, since other
  goroutines fill it at any time. `AcksCounted` says it of a goroutine's own deliveries: nobody's
  before the attempt, exactly this one between acknowledgement and mark; `FiredBacked` says that a
  fired key was acknowledged.
* `DispatchedAsTold` (`DispatchedOnce`): `WorkersInv` counts the calls that won a post against its
  claim and its Releases, and those that work on it against the claim and the Releases that came
  too early. For each call, `Moves` ties the flags to its place, `SinkTells` says which events its
  sink has seen, `InOrder` that the successes are, in order, the first steps of the list, `DeadAt`
  that the dead step's event comes after them. The list is a permutation of the registered Skills
  sorted by precedence, so counting its first steps by kind (`SuccessesCounted`, `StagesBefore`)
  gives what completed and failed promise of each stage.
* `MeteredRight` (`MeteredOnce`), under `SumsFit(w)`: no caller wants more than `w`, and
  `MaxReservations * w < Half`. Then `used = HeldIn + consumed`, `consumed = RecordedIn` and
  `used <= reservations * w` are inductive, so no sum wraps. The folds of `Aggregate` and of
  the property are shown to be sums; sums over adjacent periods add up (`PeriodsAddUp`), and
  `CeilDiv` proves that the invoice charges the least number of whole blocks that covers the
  overage. Outside `SumsFit` the sum does wrap (see *Findings*).
* `ThreadsAssembled` (`Assembled`): the state's invariant is short, the thread is `Assemble` of what
  was delivered. The work is in what the operators compute for sequences of any length: each fold
  is unfolded into its course of values, and `DedupeIs`, `FirstRootIs`, `OrganicIs`,
  `ChronologicalIs`, `ExtractHashtagsIs` and `HashtagsOfIs` follow by induction on the length. The
  scan's invariant is `ScanSound`: the tags found are those that start at or before the rune it is
  at, and what it will skip are tag characters, where no tag can start.
* `SearchedSafe` (`Searched`) and `RetrievalTypeCorrect` (`RetrievalTypeOK`): `RetrievalIInv` says
  that the index has possible chunks, one under an id, and of a `clean` file those of one version
  (`OneCut`). What a query gives follows operator by operator. `CutSound`: the chunks of one content
  do not meet. `RankedList`: `Ranked` lists each hit once, best first, since score and id's hash
  order hits of different chunks strictly. `MergeSound`, by induction over the hits folded: a result is
  the gapless interval of the hits it took in, all of its file and none above its score
  (`ResultOf`); results share no hit and their scores descend, because a hit to come is never better
  than a result (`ResultsLead`). `CleanApart`: two results that met on a line would hold two
  chunks of one cut that meet.

**`CountingLemmas`** - `LeastNat` (a set of natural numbers has a least element) and `NatInduct` are
the induction principle in a form whose parameters are sets, which the provers can instantiate;
`ListingExists` and `StableSort` say that a finite set with a strict total order can be listed in
it, so that the CHOOSE by which the models sort has a value; `Count*` count occurrences in a
sequence; `FoldingExists`, `CourseExists` and `Total*` unfold the library's folds and add numbers.

`MeteredOnce` asks for the smallest number of blocks only of metrics that cost something: without a
price every number of blocks is charged alike.

Only model-checked:

* liveness (`ClaimedSettles`, `DurableDelivered`, `CloseReturns`, `JobsSettle`, `ShutdownDrains`,
  `CallReturns`, `StreamEnds`, `JobsReported`): fairness and
  ENABLED are beyond the prover.

## 6. Findings

Each is a run that is expected to find a violation, with the quoted line in `PROJECT.json`.

* `processing_best_effort`: with fail-fast off, a Skill whose own error reads like a context error
  stops the remaining steps although the caller's context is alive.
* `event_bus_order`: two concurrent publishers can reach a durable subscriber out of publish
  order, since `Seq` is assigned under the lock and delivery comes after it.
* `event_bus_close`: `PublishAsync` between Close's drain and `closed = true` returns nil and the
  event is dropped.
* `download_callback`: `Enqueue` holds the manager's lock across a send on a full queue; a worker
  whose progress callback calls `Pause` waits for that lock, and nobody drains the queue.
* `download_budget`: attempts that a pause cut short count against the budget, so a job becomes
  `dead` after fewer failures than the budget allows.

Four more have no run of their own; the property named speaks around them and the line is quoted
in `PROJECT.json`:

* `rest_gateway/middleware.go:285`: two overlapping requests with one key both run the handler; the
  ledger is written after it, not before. `ReplayAfterAnswer` speaks of requests that arrive later.
* `metube_webhook/poller.go:71` (and `boba_adapter/bridge.go`): overlapping cycles notify a job
  twice; `CompletedOnce` counts one delivery per goroutine.
* `metering/quota.go:64`: `used+want` wraps; `MeteredOnce` is checked where sums fit.
* `semantic_search/engine.go:157`: adjacent results stay apart when the hit between them comes
  last; `Searched` does not ask for that merge.

## 7. Not modelled

* `config`: parsing and precedence of layers at start-up, sequential and stateless.
* `telegram_adapter`, `max_adapter`, `ocr_adapter`, `cli`: wire formats, external engines and one
  request each, without state that interleaves.
* SDKs in other languages (`docs/.../materials/sdk`): documentation material with the retry loop
  that `SdkClient` models.
* `user_service`: API keys, TOTP, roles and passwords are cryptography and tables; every operation
  on the key map is one critical section without a follow-up.
* `semantic_search` is partly modelled: similarities are arbitrary numbers, embedders and the
  cosine are floating point and an HTTP call. `sdk_go` is partly modelled: its methods and types
  are requests and their JSON.
* `integration`, `deployment_smoke`: tests.
* In the modelled parts: wording, log lines, request ids, byte ranges inside a served body
  (`http.ServeContent`), SSE and JSON encoding, signatures and encryption (taken as sound), delays
  (a timer may fire at any time), and the process's own start and stop.

## 8. Plan

Done: `Processing`, `EventBus`, `DownloadManager` with `JobLifecycle`, `CallbackTask`, then
`HttpFetcher`, `AssetStore`, `Gateway`, `EventStream`, `Sessions`, `SdkClient`, `Completions`,
`Dispatcher`, `Metering`, `Threads`, `Retrieval`.

Proved: every safety invariant and action property the passing runs check.

Left, in order of worth:

1. Composition of `Processing` with `CallbackTask` (a post's completion as a task), and of the
   manager as a Skill of `Processing`, the parts replaced by their abstract specifications.
2. An abstract ledger that answers each key once, and the gateway against it for requests that do
   not overlap.
