# contextmatrix-backendkit: TLA+ models and proofs

The repository is a Go library shared by the ContextMatrix backends (the agent
backend and the chat backend). It holds no main program: each package is a
component that a backend wires up, and most of the components are shared by
many goroutines. The modules here model those components from the source, TLC
checks them on small instances, and TLAPS proves every safety property that a run
checks, and the refinement of the abstract queue, for every value of the
constants.

    tlc -workers 2 -config hub.cfg LogHubFeed     # a run: PROJECT.json, "runs"
    tlapm LogHubProofs.tla                        # proofs

## 1. The system

| component | state | operations | talks to |
|---|---|---|---|
| **log hub** `logbridge/hub.go` | subscribers with a bounded channel each, backlogs of retained keys, the drop observer | `Retain`, `Release`, `Subscribe`, `Unsubscribe`, `Publish` | fed by the bridge and by backends; read by `/logs` handlers |
| **SSE log stream** `webhookcore/logs.go`, `CloseSSE` in `core.go` | one goroutine per client, its subscription, `sseShutdown` | `HandleLogs`, `CloseSSE` | the hub; the client; the server's shutdown |
| **log bridge** `logbridge/bridge.go` | the current redactor | `BridgeLine`, the `OnAwaiting` hook | stdout and stderr of workers; the hub; the redactor registry |
| **redactor registry** `logbridge/registry.go` | the secrets of each session, the composed redactor | `AddSessionKey`, `RemoveSessionKey`, `RedactLine` | sets the bridge's redactor |
| **request authentication** `Auth` in `webhookcore/middleware.go`, `replay.go`, `NewCore` | the replay cache: an ordered list and an index, and the janitor goroutine | `Auth`, `CheckAndInsert`, `StartJanitor`, `sweep` | the protocol module verifies the signature and calls the cache |
| **message dedup** `webhookcore/dedup.go` | the dedup cache: an ordered list and an index | `CheckAndRecord`, `Rollback` | the backends' `/message` handlers |
| **LLM proxy** `llmproxy/registry.go`, `proxy.go` | run key → token and upstream | `Register`, `Revoke`, `ServeHTTP`, `Paths` | workers, upstream providers |
| **worker URL check** `llmproxy/workerurl.go` | none | `ValidateContainerURL`, `WorkerBaseURL` | what workers get as base URL |
| **drain gate, admin auth, health** `webhookcore/middleware.go`, `core.go`, `health.go` | a drain flag, an admin token | middleware, `/health`, `/readyz` | every request |
| **request metrics** `webhookcore/recorder.go`, `metrics/` | counters; the status a response was given | `RecordMetrics`, `statusRecorder` | every request |
| **images, revision, JSON helpers** `webhookcore/images.go`, `revision.go`, `helpers.go` | none | listings, a lookup that may hang, answers | the image store |
| **worker frames** `frames/` | the bytes on a pipe | `Write`, `Reader.Next` | the stdin of a worker |
| **task-skills resolver** `taskskills/` | a checkout on disk, the last resolved directory | `Resolve` | git, container launches |

What is hard here, and hard to test:

* **Interleavings.** Publishers, subscribers and readers of the hub; handlers
  against `CloseSSE`; two copies of a request in the replay or the dedup cache;
  `Register`, `Revoke` and requests in flight; stdout and stderr of a worker;
  lines being bridged while a redactor is rebuilt; requests between two
  middlewares when the drain begins.
* **Values read early and used late.** The signature is verified with one
  reading of the clock and the cache asked with another; the proxy looks an
  entry up and uses it after the registry may have changed.
* **Limits.** Channels, backlogs and caches all drop something when full; the
  writer and the reader of frames each have their own limit on a line.
* **Failure half-way.** Any write to a client or a worker; a delivery after its
  record; a handler that panics before or after it has answered; a clone that
  fails, or whose process dies, at any of its steps.
* **What must eventually happen.** Handlers return, entries and frames get out,
  the server shuts down, calls of `Resolve` come back.

`PROJECT.json` lists each of these under "hazards", at its line, with the
properties that would notice.

## 2. The modules

Definitions carry the source's names; `PROJECT.json` maps each to its lines.
Content is left out throughout: an entry is the number of its `Publish` call, a
signed request a (timestamp, signature) pair, a message a (scope, id) pair, an
upstream a (base URL, key) pair, a URL its parts and a path the sequence of its
segments, a line of a worker its kind and the secrets in it, a frame its type and
length.

Some definitions come right after an altered form of themselves
(`HandedOverKept` before `HandedOver`): a plausible bug. `PROJECT.json`
("mutants") says which property must fail when the altered form takes the
definition's place. The altered forms are used nowhere else.

| module | models | notes |
|---|---|---|
| `LogHub` | `hub.go` | Every method holds `h.mu` throughout, so a method is an action. Reading a channel does not take the lock, so `Receive` is one more. `drops` splits the `ObserveDrop` calls by the filter of the queue that overflowed; `log` and `read` are histories. `Overlap = FALSE` restricts the environment to one subscriber at a time per key. |
| `LogFeed` | nothing: the abstract specification | What the consumers of one key are promised: one bounded lossy queue that counts what it loses. Connections do not occur in it. |
| `LogHubFeed` | nothing: the mapping | The hub as an implementation of `LogFeed`: what waits is the channel of the attached subscriber, or the backlog when there is none. |
| `LogStream` | `HandleLogs`, `CloseSSE` | Composes connections with the hub: a handler's `Accept`, `Take` and `Leave` are the hub's `Subscribe`, `Receive` and `Unsubscribe`. A handler takes a step wherever it touches the hub or may block: each write to the client and each case of the `select`. Clients read, stall, resume and hang up (external). |
| `TTLCache` | the list and index of both caches | Operators only. An entry is removed at the position that the index leads to, as by `list.Remove`. List and index are updated by separate statements and kept apart here, so that they can disagree. |
| `ReplayCache` | `Auth`, `CheckAndInsert`, the janitor, `ensureMinTTL`, `NewCore`'s floor | `Verify` and `CheckAndInsert` are two steps of a request. The signature check is external: it accepts a genuine pair while its timestamp is in the window of the wall clock, which may be set back (`behind`); records age by the monotonic clock. |
| `DedupCache` | `CheckAndRecord`, `Rollback` | The handler around them is a backend's; it is modelled from the doc comment, with the per-scope lock it asks for and, in other behaviours, without. The process may die and restart with an empty cache; requests under way are then lost and their clients ask again. |
| `LLMProxy` | `Register`, `Revoke`, `lookup`, `ServeHTTP`, `rewrite`, `upstreamError`, `workerurl.go` | `Register` draws the token in one step and stores the entry in another. A request is looked up in one step and forwarded in another, with the entry found. The container URL is configured once; workers call the API below the base URL derived from it. A base URL of an upstream is kept as it was registered, trailing slash, `?` or `#` included, and `Target` is what `url.Parse(base + suffix)` makes of it. Among the hosts a container URL may have is an `alias` of the loopback interface that the check does not know for one. |
| `Webhook` | `RecordMetrics`, `statusRecorder`, `Auth`, `AdminAuth`, `DrainGate`, the health, readiness and image handlers, `CloseSSE` | A request passes the middlewares of its route one step at a time. Routes, the order of gate and `Auth`, and the order of drain, `Shutdown` and `CloseSSE` are the backend's: all are looked at. A pair is signed for one route, which is settled when it is first seen (`signs`); the replay cache is the set of its pairs and may drop any of them at any time (`Forget`, history `forgotten`): when it does is the subject of `ReplayCache`. `/logs` is what `LogStream` shows of it: it streams, and may be blocked in a write (`Block`, `Unblock`) in which it sees nothing else. `Own` is what a request does by itself, `Outward` what takes as long as somebody else takes. The counter series is a function from labels to counts. |
| `Frames` | `Write`, `Reader.Next` | Byte by byte where a write fails: any part of the line may be on the pipe, and the host may write on. A read may fail behind any byte (`NextReadError`); what was read up to there is the scanner's last token. |
| `Bridge` | `BridgeLine`, `stamp`, `mapEvent`, `publish`, the redactor registry | A mutation of the registry has two steps, the registry's store and the bridge's; lines are bridged between them. Each worker has a stdout and a stderr reader. The configuration is that of either backend. An entry has the secrets its Content shows (`shown`), which the redactor masks, and those in its other fields (`raw`: Model, ToolUseID, what `MapExtra` sets), which it does not. `Stamp` sets the fields that the worker's key sets; what `MapExtra` put into the others (`rest`) stays. |
| `BridgeHub` | nothing of its own: the composition | `Bridge` publishing to an instance of `LogHub`, whose keys are the workers; the backend retains a key before it starts the worker; the consumer of a session connects, leaves and returns. Every line mentions all secrets wherever its kind can, so each is either masked or shown. |
| `TaskSkills` | `Resolve`, `fetchPointer`, `gitClone` | A call holds the lock throughout and takes a step for the pointer, the clearing, `MkdirAll` and each git command; each may fail. The process may die and restart at any step; the directory stays. |
| `LogHubProofs`, `LogStreamProofs`, `BridgeHubProofs`, `WebhookProofs`, `ReplayCacheProofs`, `DedupCacheProofs`, `WorkerProofs` | nothing: the proofs | Section 5. `LogHubProofs` includes the refinement of `LogFeed`, `BridgeHubProofs` the bridge alone and the composition, `WorkerProofs` what a worker is given: proxy, task skills, frames. |
| `TTLCacheProofs` | nothing: lemmas on the cache operations | Used through `INSTANCE` by the proofs of both caches. |
| `MCLogStream`, `MCReplayCache`, `MCDedupCache`, `MCLLMProxy`, `MCBridgeHub` | nothing: TLC instances | Symmetry sets, the set of timestamped pairs, the mount path, upstream base URLs with a trailing slash and with a `?`, the two backends' configurations. |

Points about atomicity. In `LogHub`, `Unsubscribe` drains the channel it
removes; no `Receive` falls between, because the goroutine that unsubscribes a
channel is the one that reads it (`HandleLogs`, the only caller). In
`LogStream`, a write to a client that has gone may succeed or fail: bytes may
still be buffered. In `Bridge`, publishing and the hook are two steps, so
the other stream's reader and the consumer act between them.

## 3. The runs

All runs but `skills` set `CHECK_DEADLOCK FALSE`: the bounds on clocks and
counters let each model run out of steps, and the components have no duty to be
always busy. "Everyone waits for everyone" is covered by `QueuesBounded` (the hub
sends on a channel while it holds its lock), by `CallsReturn` (the resolver holds
its lock through a clone) and by the liveness properties of stream, frames and
webhook.

A module's type invariant is the first conjunct of one of the properties:
`StreamTypeOK` of `SubscriptionsAreHandlers`, `ReplayTypeOK` of
`ReplayWellFormed`, `DedupTypeOK` of `DedupWellFormed`, `ProxyTypeOK` of
`StoredTokensAccounted`, `FramesTypeOK` of `ReceivedInOrder`, `WebhookTypeOK` of
`CountedAsAnswered`, `BridgeTypeOK` of `SinksAgree`.

| run | checks | shows |
|---|---|---|
| `hub` | `HubTypeOK`, `LiveRoom`, `BacklogOnlyWhenDetached`, `QueuesInOrder`, `QueuesBounded`, `LossesObservedOnce`, `HubImplementsFeed` | With consumers of a key one at a time, the hub refines `LogFeed`: what consumers read over all their connections, followed by what waits, is in order and repeats nothing, and connections do not show. Each loss of a retained key is observed exactly once; a replayed backlog does not use up the room for live entries. |
| `stream_safe` | `SubscriptionsAreHandlers`, `ConnectedMeansLive`, `WireInOrder` | Two handlers (overlapping subscribers) and clients that stall and vanish: exactly one subscription per running handler; a client that got `: connected` misses only counted entries; what reaches a client is in order. |
| `stream_live` | `DrainCompletes`, `HangupReleases`, `QueuedGetsOut` | Handlers end after `CloseSSE` and after a hangup, and entries get out, if no client stalls for ever. |
| `stream_stall` | `DrainCompletes` (violated) | Finding 1: the same without the assumption on the client. |
| `replay` | `ReplayWellFormed`, `HandledOnce` | A pair reaches the handler twice only after an eviction, or when the second request was verified before the record expired and asked the cache after; a wall clock set back widens that instant by as much and no more. A sweep leaves nothing expired behind, though it stops at the first fresh entry. |
| `dedup` | `DedupWellFormed`, `AckedWasDelivered`, `DeliveredOnce` | Under the lock an acknowledged message was delivered, also if the process died in between, and by one process once within the TTL unless evicted. Without the lock, only another request's `Rollback` can make it come twice. |
| `skills` | `SkillsTypeOK`, `CheckoutStable`, `CloneStartsClean`, `CallsReturn` | A directory that `Resolve` returned stays a complete checkout while the process lives; no step of a clone meets leftovers of a failed or killed attempt; every call returns, unless a git command or the file system hangs for ever. |
| `proxy` | `SentWhereIssued`, `DeadTokenRefused`, `StoredTokensAccounted`, `WorkerServed` | A request goes where its own token was issued for, with that endpoint's key; dead tokens are refused; every token is in exactly one place (not yet stored, live, dead) through concurrent `Register` and `Revoke` calls; whatever container URL passes the check, workers' calls hit the paths the proxy serves. |
| `frames` | `ReceivedInOrder`, `LossConfined`, `OversizedNeverFatal`, `FramesArrive` | The worker reads frames in order and once; a cut frame costs at most itself and the one behind it; no line `Write` lets through stops the reader; skipped lines do not hold up the frames behind them, and only a read that fails keeps a complete frame from arriving. |
| `webhook` | `CountedAsAnswered`, `DrainSticks`, `PairsAuthorise`, `HealthAnswers`, `ShutdownCompletes` | Each request is counted once, as answered, also after a panic; nothing that arrives after the drain began gets through; a guarded handler runs only for the configured token or a pair signed for its route, a second time only after the cache dropped the pair, and no other request uses a pair up; a `/health` probe that ends was answered 200, though its lookup failed or panicked; the shutdown completes unless a request waits for somebody else for ever. |
| `webhook_1xx` | `StatusCaptured` (violated) | Finding 2. |
| `bridge` | `ContentIsMasked`, `SinksAgree`, `OwnLinesOnly`, `FlagFollowsLog`, `IndicatorCurrent` | In the Content of entries, registered secrets are masked through every mixture of adds and removes; a consumer reads its own worker's lines only; the awaiting flag follows what was published, whatever stderr says; the working indicator is current over reconnects unless a drop was counted. |

### Bounds

* **Hub.** `SubBufSize` 2, three `Publish` and two `Subscribe` calls. A
  buffer of two and three entries suffice for a backlog with an inner order, a
  full channel that drops, a replay with live entries behind it and a requeue
  that trims. Two keys and the all-entries filter make the recipients of an
  entry differ; two subscriptions in a row make one reconnect. The real
  `subBufSize` is only compared with, so its size does not matter; order, bounds
  and types are proved for all sizes, and for overlapping subscribers.
* **Stream.** A buffer of one, two entries (the hub's own run varies more). Two
  connections for safety. One for liveness, where symmetry is
  not sound; handlers share only the hub, which never blocks, so a second one
  could not hold up the first.
* **Replay.** Skew 2, future skew 1, so the floor is 3; the configured TTL 1 is
  below it; timestamps up to 3 and a clock up to 8 reach past the end of every
  window and expiry. Three requests over three pairs with room for two: copies,
  evictions and expiries together. The wall clock may be set back by one
  (`MaxBehind`): enough to reopen a window that had closed.
* **Dedup.** Three requests, capacity one, TTL 1, clock up to 3: a record can
  expire and its successor too. One restart (`MaxRestarts`), with requests before
  and after it.
* **Proxy.** Two runs, two tokens, two requests; tokens for one run can replace
  one another, tokens for two must not disturb each other. Three base URLs: a
  plain one, one with a trailing slash and one with a `?`. Runs and requests are
  symmetric.
* **Frames.** A limit of four bytes; encodings well below it, at it with and
  without the newline, and beyond; three writes: a cut one, the one it spoils and
  one that must arrive.
* **Webhook.** Two requests on any routes and one pair, with and without a
  metrics token: every race here is between two requests or between one and the
  shutdown.
* **Bridge.** Two sessions with a worker each and two secrets they may share;
  `MaxEvents` is 6, where a mutation of the registry counts one and a line two:
  enough for two sessions that register the same secret, the end of one and a
  line of the other, or for three status entries over a buffer of two; two
  connections make one reconnect. `Heard` leaves out the kinds
  of lines that are mapped like one that is in it.
* **Task skills.** Three callers, two refs, any number of calls, failures and
  restarts: the state space is finite without a bound.

### Fairness

`StreamSpec`, `HubSpec` and the other safety specifications assume none.

* `HandlerFairness`: a handler that can leave does (weak: its goroutine is
  scheduled). Each case of the `select` is strongly fair: Go picks uniformly
  among the ready cases, so a case that is ready again and again is taken. A
  write is strongly fair: it completes when its client reads again and again. An
  entry that does not marshal (`Skip`) is an accident and carries no fairness, so
  a handler may be held up in any of its writes.
* `ClientFairness`: a stalled client reads on or goes away. This is an
  assumption about the outside that the code does *not* enforce; it is a
  separate formula, used by `stream_live` and left out of `stream_stall`.
* `FairWebhookSpec`: a request's goroutine is scheduled, the timer of the
  image lookup fires, and the `select` of a `/logs` handler that is reached again
  and again with `sseShutdown` closed takes that case (strong, for each request);
  a shutdown that has begun calls `CloseSSE` and returns when its requests are
  done (weak). Nothing that waits for somebody else is fair: reading a body,
  `ListImages`, the backend's handlers, the LLM upstream, a lookup whose context
  is done, a blocked write. The code sets no limit on these, so
  `ShutdownCompletes` is conditional: it speaks of behaviours in which no request
  stays in such a wait (`Waits`) for ever.
* `FairFramesSpec`: the worker calls `Next` in a loop (weak, on `Scan`: what
  `Next` does when no read fails). Writers owe nothing, and no read has to fail.
* `FairSkillsSpec`: fetching the pointer ends, well or badly (weak: the HTTP
  request has a deadline), and a waiting caller gets the lock if it is free again
  and again (strong: `sync.Mutex` hands over to a waiter that has starved for a
  millisecond). Neither the removal of the directory nor a git command is fair:
  `RemoveAll` and `MkdirAll` have no deadline, and a command that is killed at its
  deadline is waited for until every process that inherited its output has closed
  it. `CallsReturn` is conditional on no call staying there (`OnDisk`) for ever.

## 4. Findings

1. **`CloseSSE` does not unblock every handler** (`stream_stall`). A handler
   blocked in a write to a client that stopped reading does not look at
   `sseShutdown`.
2. **An informational response is recorded as the status** (`webhook_1xx`).
   `statusRecorder` keeps the first status it is given, also a 103 that the
   reverse proxy passes on from the upstream before the real answer; the request
   is then counted under 103 and as a success.

Met while modelling, documented or intended, and checked by no run:

* When subscribers of one key overlap, what only the one that leaves first had
  unread is discarded without an `ObserveDrop`: `Unsubscribe` requeues for the
  last subscriber only, as its comment says. The refinement is stated for
  consumers that connect one at a time.
* `Release` and a new `Retain` of a key while a subscriber is attached leave the
  entries from before on its channel.
* An entry whose write to the client fails has left the channel and is not
  requeued.
* At an age of exactly the TTL a pair is inside the window for `CheckAndInsert`
  and old enough for `sweep`; `HandledOnce` has `>=` for that reason.
* With `Auth` ahead of the gate, a request that is answered 503 has used its pair:
  the retry must be signed anew. A restart forgets the pairs.
* `Revoke` goes by run key alone: one that comes late removes the registration of
  a later use of the key.
* Only `Content` is redacted (`bridge.go:134`). `Model`, `ToolUseID` and every
  field that `MapExtra` sets are published as they came (`raw` in `Bridge`), while
  the comment at `bridge_test.go:771` says "TestRedaction ensures secrets never
  appear in bridged frames". `ContentIsMasked` claims no more than the code does.
* `Resolve` says that pointer fetch and clone run "under their own bounded
  deadline (cloneTimeout)" (`resolver.go:73`). `CombinedOutput` without a
  `WaitDelay` can outlast it: the deadline kills git, not a helper that still
  holds the output pipe, and the lock is held meanwhile.
* `Register` accepts a base URL with a trailing slash, a `?` or a `#`. With a slash
  the upstream is asked for a path with an empty segment; behind a `?` or `#` the
  worker's path is no longer part of the path at all. `ValidateContainerURL`, which
  guards the other end, refuses the latter. `SentWhereIssued` says where such a
  request goes.
* `ValidateContainerURL` refuses loopback addresses and `localhost`, so that
  workers do not reach themselves, but not every name of the loopback interface:
  `localhost.`, `127.1` and `::1` with a zone pass. `WorkerServed` speaks of the
  paths workers ask for and says nothing of the host.
* After a restart the first `Resolve` clears the directory that containers of the
  previous process may have mounted; `CheckoutStable` speaks of one process.

## 5. The proofs

Each theorem is `Spec => []Property` unless it says otherwise, for every value of
the constants that the named assumption of its module allows; the bounds (clock,
number of tokens, restarts, calls) are constants too, so the theorems hold for
any. No proof uses fairness. Each model has an inductive invariant, checked by
TLC on the run's instance before it was proved, lemmas on the operators, one
lemma per action (`...Inv`), a lemma that puts the actions together and the
theorems. The invariants and why the properties alone are not inductive:

**`LogHubProofs`** from `HubAssumption` (any keys without the all-entries
filter, any positive `SubBufSize`, overlapping subscribers or not, a keyed hub or
not).

* `HubTypeCorrect`, `HubBacklogDetached`, `HubQueuesInOrder`, `HubQueuesBounded`.
  `HubInv` is the conjunction of the four properties. `Unsubscribe` puts the
  unread entries ahead of the backlog, and the result is in order only because
  the backlog is empty then: that is `BacklogOnlyWhenDetached`, in its turn kept
  because `Subscribe` empties the backlog, `Publish` extends it only when nobody
  is attached and `Unsubscribe` refills it only for the last to leave. The bound
  on channels rests on the bound on backlogs.
* `HubLiveRoom` needs `Rooms`: a channel is replayed entries, at most as many as
  its capacity was extended by, and then live ones.
* `HubRefinesFeed` is the refinement, `HubSpec => HubImplementsFeed`, and
  `HubConsumerInOrder` is `HubSpec => []Feed!FeedInOrder`, both under the
  hypotheses `Keyed` and `~Overlap`, those of the `hub` run. `FeedInv` adds
  `OneEach` (a key has at most one subscriber) and `Rooms`; every action of the
  hub is shown to be one of `Offer`, `Other`, `Read`, `Trim`, `Keep`, `Forget` of
  the abstract queue, or a stutter.
* `HubLossesObservedOnce` is the action property `HubSpec => LossesObservedOnce`
  under `~Overlap`. `LostIs`: since a key has one place where its entries wait,
  the entries lost are those neither read nor waiting, so a step that moves
  entries from one to the other loses none (`LostPublish` for a new entry,
  `LostCut` for the front of a queue that is trimmed). Lost entries are a finite
  set, and their number grows by the number of `ObserveDrop` calls.

**`LogStreamProofs`**, on `LogHubProofs` and from its assumption; subscribers may
overlap.

* `StreamIsHub`: `StreamSpec => HubSpec`, so what is proved of the hub holds under
  the HTTP handlers; `StreamRefinesFeed` is its corollary for the abstract queue,
  under `Keyed` and `~Overlap`.
* `StreamSubscriptions`, `StreamWireInOrder`, `StreamConnectedMeansLive`.
  `StreamInv` is `HubInv` with three parts. `Selected`: channels hold entries of
  their filter only. `Linked`: a handler between `Subscribe` and its deferred
  `Unsubscribe` owns the subscription with its id, and no two own the same.
  `Served`: what a connection wrote, then what its handler holds, then its channel
  is one increasing sequence, in which the entries missing since `: connected` are
  no more than the drops counted for its filter. The wire alone is not inductive:
  that the next write is in order depends on what is in hand and on the channel,
  and these on the order of `Publish`.

**`BridgeHubProofs`** from `BridgeAssumption` and `BridgeHubAssumption`.

* `BridgeSinksAgree`, `BridgeContentIsMasked`, of `BridgeSpec`. `DueMasked`:
  what is owed a mask is registered and masked by the bridge, and what is being
  added is registered and will be by the rebuild that is under way; a rebuild of
  another session may come between.
* `ComposedIsBridge`: `BridgeHubSpec => BridgeSpec`, so that both hold in the
  composition (`ComposedMasks`).
* `AwaitingFollowsLog`. `HookIsNewest`: while the hook of an entry is still to
  run, that entry is the newest of its worker that is not from stderr, though
  stderr publishes in between.
* `ConsumersReadOwnLines`, `IndicatorIsCurrent`. These use the hub's proofs:
  steps of the composition are steps of the hub (`ComposedHubStep`), so its
  feeds are in order and, where nothing was dropped, complete (`FeedsOK`). With
  `ToldOK`, that what a worker last said is in its reader's hand or the last
  status of the log, a consumer that has caught up has read it.

**`WebhookProofs`** from `WebhookAssumption`.

* `WebhookDrainSticks`, `WebhookPairsAuthorise`, `WebhookHealthAnswers`,
  `WebhookCountsAnswers`. `RequestOK` ties the history of a request to the
  middlewares it still has ahead: a late one has the gate ahead, one whose
  handler ran has nothing ahead. `PairsOK`: the pairs that the cache holds,
  or held once, are those of requests past authentication, two of which have the
  same pair only if it was dropped; and a request that was refused with a pair of
  its own met one of these. `Tallied`: for each label, the series counts the
  requests that ended with it; the set of those is finite because each step ends
  at most one.

**`ReplayCacheProofs`** and **`DedupCacheProofs`** from `ReplayAssumption` and
`DedupAssumption`, both on **`TTLCacheProofs`**: what `Remove`, `PushBack`,
`DropFront` and `Record` keep of the agreement of list and index, and which
entries the result has.

* `ReplayCacheWellFormed`, `ReplayHandledOnce`. `HandledOnce` compares two
  acceptances far apart; `Kept` links them: the record of an accepted pair is in
  the cache until it expires or is evicted, whatever was recorded and swept
  meanwhile. `InTime` bounds when a pair can be verified at all. The
  completeness of a sweep, which stops at the first fresh entry, follows from
  the order of the list (`SweepIsExact`).
* `DedupCacheWellFormed`, `DedupAckedWasDelivered`, `DedupDeliversOnce`. A
  delivery has a start, when its message is recorded, and an end. `StartKept` and
  `DeliveredKept` say that the record of a start or a delivery of this life is in
  the cache until it expires, is evicted or robbed; `Spacing` that two of them are
  more than a TTL apart. That a `Rollback` takes its own record needs
  `OwnElements`: under the lock the record of a message whose delivery is under
  way is the one its request made, and without it the model's `robbed` says
  so. `Backed` is `AckedWasDelivered` with its other half: under the lock, a record
  is of a message that was delivered or is about to be by the one request inside.

**`WorkerProofs`** from `ProxyAssumption` (the prefix is a path that is not empty
and ends in no slash; the default base is a base), `SkillsAssumption` (`NoRef` and
the stand-in for a ref with a dash are not refs) and `FramesAssumption` (a positive
`MaxLine`; encodings are not empty).

* The proxy. `ProxyTokensAccounted`, `ProxyRefusesDeadTokens`, `ProxySendsWhereIssued`,
  `ProxyServesWorkers`. `IssuedAs`: an entry, wherever it is (built, stored, or
  with a request on its way), is the one its token was drawn for, also after
  `Revoke` or a new `Register` has removed it from the registry. `Apart`: a token
  is dead, stored or about to be, and one of these only; that no two entries have
  the same token follows from `IssuedAs` (`SameTokenSameEntry`). Without the two, a
  request in flight could hold an entry that nobody vouches for.
* The resolver. `SkillsTypeCorrect`, `SkillsCheckoutStable`, `SkillsCloneStartsClean`.
  `OneInside`: a caller is between lock and return exactly when it alone holds
  `r.mu`, so nobody else touches the directory under its clone. `Handed`: a
  resolved directory is whole and nobody is inside, and before that nothing was
  handed out, so clearing it takes nothing away. `FailInv` and `OnwardInv` treat
  once what every step does when it fails and when the call goes on.
* The frames. `FramesReceivedInOrder`, `FramesLossConfined`,
  `FramesOversizedNeverFatal`. `Laid` describes the pipe: its bytes are bytes that
  calls put there (`BytesOK`); a frame with one byte on the pipe has all its bytes
  there, side by side (`Unsplit`); frames are in the order of the calls
  (`Ordered`); behind a frame none that put a byte is missing (`NoGaps`). Of
  the properties none is inductive without it. Two lemmas carry the argument:
  `StartOf`, that a byte with no newline before it is at its own position, so that
  its frame begins at the head of the pipe, or belongs to a frame behind a cut one;
  and `LineIs`, that a line which parses as frame n ends in frame n's own newline.
  The first gives `LossConfined` (a whole frame at the head is the line and is
  returned) and, with the limit in `Write`, `OversizedNeverFatal`. The second gives
  `ReceivedInOrder`, with `Ahead`: what was returned is of calls before all that is
  on the pipe (until a read fails: the frame that is returned then may still have
  its newline there). `StateEmit`, `StateLine`, `StateTooLong`, `StateEOF` and
  `StateFailed` are the five things that happen to the pipe.

**Only model-checked.** Liveness under fairness (`DrainCompletes`,
`HangupReleases`, `QueuedGetsOut`, `FramesArrive`, `ShutdownCompletes`,
`CallsReturn`) is beyond the prover. Every other property of a passing run is
proved. The two findings are counterexamples and need no proof.

## 6. What is not modelled

* The text of entries: wording, truncation, token counts. A value is truncated
  before it is masked, so a secret that is cut in two by the limit is not a
  secret of the model: `ContentIsMasked` speaks of secrets that appear whole.
* The contents of `/images` and `/health` answers (`matchingTags`, the revision
  label). `WriteJSON`'s 500 for an answer that does not marshal is among the
  answers of a backend's handler; the kit's own answers always marshal.
* `metrics.New`, which builds and registers collectors, and the duration
  histogram.
* TLS, transports, the CA pool and the streaming of bodies in the proxy
  (net/http); the cryptography of signatures and tokens (a token never repeats, a
  genuine pair verifies).
* Ports and user information of a container URL, which the check ignores.
* `taskskills/auth.go`, which only builds an environment for git.

## 7. Plan

Done, in this order: the hub and its proofs, the stream, both caches, the proxy,
the bridge, the resolver and its proofs; then the request pipeline, the frames, the
worker URL, restarts and the wall clock, and the bridge composed with the hub;
then the refinement of `LogFeed` and the proofs of bridge, composition, proxy,
pipeline and caches; then the hub's accounting of losses, the stream and the
frames. All planned proofs are done. What could come next:

1. A specification of what overlapping consumers of one key are promised
   together: the refinement of `LogFeed` covers consumers one at a time, and for
   overlapping ones only each connection's own guarantees are stated.
2. The text of entries, as far as masking and truncation interact (section 6).
