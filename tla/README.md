# A TLA+ development of github-notifier

github-notifier lets a user subscribe an email address to the releases of a
GitHub repository.  Two Go processes do the work: `cmd/server` (HTTP API, saga
orchestrator, release scanner) and `cmd/notifier` (sends email through Resend).
They share nothing but RabbitMQ and one gRPC method; the server keeps its state
in Postgres, the notifier keeps its only state, a dedupe cache, in memory.

This directory models

- the protocol that makes a subscription come into being, the **Subscribe saga**,
  down to single database statements, publishes, sends and calls, with crashes,
  lost sessions, lost answers and timeouts;
- the **dedupe cache** the saga leans on, with its clock, TTL and capacity;
- the way of a **release** from GitHub, through the cache, the scanner, the queue
  and the notifier, to the inboxes of its subscribers;
- **`cmd/notifier` as a process**: the consumer's sessions and goroutines, the
  publisher and its supervisor, start and graceful shutdown, at the granularity
  of AMQP connections and channels.

TLC checks all four on small instances; TLAPS proves every safety
property that a run checks, and the three refinements, for any number of requests, calls, faults, sagas, handlers,
cache entries, repositories, releases, messages and sessions.

## 1. Inventory

### 1.1 Components

| component (source) | state | operations | correct when |
|---|---|---|---|
| **Subscription database** (`internal/subscription/adapter/postgres`, migrations) | tables `subscriptions`, `subscription_sagas` (foreign key with ON DELETE CASCADE) | CreateWithSaga, Confirm, Delete, MarkCompleted, MarkCompensated, GetPendingOlderThan, lookups | the two tables agree whoever deletes; a deleted row stays deleted |
| **Subscribe use case** (`app/subscribe.go`) | the request being handled | validate, check GitHub, get the repository row, check for a duplicate, create, publish | one row per (email, repository); a refused user is not locked out |
| **Saga orchestrator** (`saga/orchestrator.go`) | none of its own; works on the journal | Publish, HandleSent, HandleFailed, AttemptSyncRetry | every saga ends; what it deletes is an orphan; what it completes was mailed |
| **Timeout sweeper, gRPC retrier** (`saga/timeout_sweeper.go`, `saga/grpc_retrier.go`) | the sagas of the current round, the open call | sweep, retry with a 5 s timeout, fall through to compensation | no saga stays pending |
| **Replies consumer** (`adapter/rabbitmq/replies_consumer.go`) | the delivery in hand, the AMQP session | handle, ack, nack with requeue, reconnect | replies may be lost, doubled and reordered without harm; the queue drains |
| **Confirm, unsubscribe use cases** (`app/confirm.go`, `app/unsubscribe.go`) | the request being handled | find by token, then write | races with the compensation |
| **Notifier: command consumer** (`notifier/adapter/rabbitmq/consumer.go`) | the delivery in hand, the AMQP session | send, mark, reply with bounded retries, always ack | a delivered email is reported or at least remembered |
| **Notifier: gRPC server and dedupe** (`notifier/adapter/grpcsrv`) | claims by saga id with a TTL and a capacity, calls in progress | TryClaim, send, Release, Mark | a retry does not mail twice; a failed send does not count as sent |
| **Email provider client** (`notifier/adapter/resend`) | none | one HTTP POST with a 10 s timeout | - (its failures are inputs) |
| **Notifier: release deliveries** (the other queue of `consumer.go`) | the delivery in hand | send, ack, dead-letter | a notification is mailed or kept, never dropped |
| **Notifier: the consumer's sessions** (`Run` of `consumer.go`) | connection, channel, the goroutines of the session | dial with backoff, one goroutine per queue, join, close | one handler per queue; no message stays behind, however sessions end |
| **RabbitMQ publisher and topology** (`notifier/adapter/rabbitmq/{publisher,topology,messages}.go`) | the channel, the supervisor's session | publish with confirm, reconnect, close | a publish that succeeded is in the queue; the publisher comes back or closes |
| **Release scanner** (`release/app/scanner.go`, `release/adapter/postgres`) | `repositories.last_seen_tag`, the list of the current scan | scan, initial tag, fan-out, update of the tag | every confirmed subscriber hears of a release; none twice without a fault |
| **GitHub release client and cache** (`release/adapter/github`) | Redis entries with a TTL, GitHub's rate limit | look up, fetch, store | a stale answer delays news and never brings old news back |
| **GitHub repository check** (`cached_client.go`, `repo_checker.go`) | Redis entries | look up, ask GitHub, store, for a subscribe request | it draws on the rate limit of the scanner |
| **List subscriptions** (`app/get_subscriptions.go`) | none | a query | - |
| **Process wiring** (`cmd/server/main.go`, `cmd/notifier/main.go`) | goroutines | start, dial retries, graceful shutdown | restart is safe at any step; a stop ends, and what depends on a part goes before it |
| **Middleware, configuration, metrics, logging, templates, web page** | none the saga depends on | | |

### 1.2 Interactions

    user --HTTP--> Subscribe --tx--> Postgres
                      |  publish                     notifier.commands
                      +----------------------------> [queue] --> command consumer --> Resend --> inbox
                                                                    |  Mark(saga)
          replies consumer <-- [queue] <----------------------------+
             |                  app.saga.events                     |  dedupe cache (memory)
             | MarkCompleted / HandleFailed                         |
             v                                                      |
          Postgres <-- sweeper --gRPC SendConfirmation--> gRPC handler --> Resend --> inbox
             ^
             +-- Confirm / Unsubscribe (links in the emails)

Three workers may compensate the same saga (the subscribe handler after a
failed publish, the replies consumer, the sweeper), three may complete or end
it, two paths may send the email, and the user may confirm or unsubscribe at
any point once a link is out.  None of these holds a lock on the saga: the only
synchronization is `WHERE state = 'pending'` on the marks, the transaction of
the create, the cascade, and the mutex of the dedupe cache.

The releases take another way, and share only the subscriptions with the saga:

    GitHub --> cache (Redis) --> scanner --publish--> [notifier.deliveries] --> delivery goroutine --> Resend --> inbox
                                   |  ^                                               |
                     last_seen_tag v  | confirmed subscriptions                       v
                                  Postgres                                 [notifier.dead_letters]

### 1.3 What is hard

The hazards, each at its line, are listed in `PROJECT.json`.  In short: a
compensation reads a state and deletes later; the existence check and the
insert are two statements; the sweeper's call races the queued command; a send
that "failed" may have delivered; a reply may be lost, doubled or late; either
process may die between any two steps; a failed call releases a claim which the
other path has meanwhile made its own; the cache forgets (TTL, capacity,
restart); the queue would never drain if a handler kept failing.  For releases:
the tag is advanced after publishes that may have failed; a crash before that
publishes again; a shutdown makes every publish of the rest of a scan fail; tags
are compared for equality, so an old one out of a stale cache would be news; the
rate limit, shared with the subscribe requests, may end every scan at the same
place.  In the notifier: a publish takes the channel under a lock and uses it
without, while the supervisor replaces it; a session is lost under a goroutine
that is still sending; the broker may close a channel and keep the connection; the
shutdown waits in turn for parts that may hang, and takes down what others use.

## 2. Modules

| module | models | state |
|---|---|---|
| `Faults` | the faults the two processes must survive, counted and bounded | `serverFaults`, `notifierFaults` |
| `Subscribers` (extends `Faults`) | users' inboxes | `mailbox` |
| `SagaStore` (extends `Subscribers`) | the two tables and the repository methods | `subs`, `sagas`, `overdue` |
| `Transport` (extends `Subscribers`) | the two saga queues and the gRPC calls | `commands`, `events`, `calls` |
| `Orchestrator` (extends `SagaStore`, `Transport`) | `cmd/server`, the saga's part | `http`, `comp`, `replies`, `sweep`, `click` |
| `Notifier` (extends `Transport`) | `cmd/notifier`, the saga's part | `dedupe`, `cmd` |
| `SubscribeSaga` (extends both) | the composition, its fairness and its properties | |
| `SagaLifecycle` | what a subscribe request goes through, seen from outside | `stage`, `completed`, `mailed` |
| `MCSubscribeSaga`, `SagaClaims` | constants and the quiet specification for TLC; claims the code contradicts | |
| `SubscribeSagaProofs` | theorems about the saga: typing, the journal, its end, what completes it | |
| `SagaMailProofs` (extends it) | theorem: how many emails a request can lead to | |
| `SagaOverlapProofs` (extends `SagaMailProofs`) | theorem: what a completed saga means when calls overlap | |
| `SagaLifecycleProofs` (extends `SubscribeSagaProofs`) | theorem: the saga implements `SagaLifecycle` | |
| `Dedupe` | `grpcsrv/dedupe.go` and its two callers | `entries`, `now`, `sending`, `answer` |
| `ClaimSet` | what `Notifier` asks of that cache: an abstract set that may forget | `claims`, `answer` |
| `DedupeProofs` | theorems about the cache | |
| `GithubCache` (extends `Faults`) | GitHub's latest release and rate limit, the entries in Redis of releases and of checked repositories | `latest`, `withdrawn`, `quota`, `cached`, `checked`, `redisFaults` |
| `Scanner` (extends `GithubCache`) | the scanner, `last_seen_tag`, the subscriptions meanwhile, from the check of the repository on | `lastSeen`, `subs`, `scan`, `deliveries` |
| `ReleaseNotification` (extends `Scanner`) | the composition with the delivery goroutine; fairness and properties | `delivery`, `inbox`, `deadLetters` |
| `MCReleaseNotification` | constants for TLC | |
| `ReleaseProofs` | theorems about the releases: typing, who is addressed, order, losses | |
| `DuplicateProofs` (extends it) | theorem: how often a release reaches one inbox | |
| `Publisher` (extends `Faults`) | `publisher.go`: `publish`, the supervisor, the broker's confirms | `pubLink`, `pubSession`, `ready`, `supervisor`, `done`, `publish`, `wire` |
| `PublishPort` | what the callers of `publish` rely on, abstractly | `answer`, `stored` |
| `ConsumerSession` (extends `Publisher`) | `Consumer.Run` and `consumeQueue`, the broker's side of a session | `cancelled`, `run`, `conLink`, `conSession`, `closedCh`, `worker`, `buffer`, `box` |
| `NotifierProcess` (extends `ConsumerSession`) | `run` of `cmd/notifier/main.go`; the composition, fairness and properties | `main`, `attempt`, `expired`, `rpc`, `listenErr` |
| `MCNotifierProcess` | constants for TLC | |
| `NotifierProcessProofs` | theorems about the notifier process | |

The step of the whole system is a step of the server or a step of the notifier;
the steps of a process are the steps of its goroutines, one atomic action per
database statement, publish, send or RPC, the granularity at which goroutines
and processes really interleave.  The program counters (`http[r]`, `comp[w]`,
`replies.step`, `sweep.step`, `click[r]`, `cmd.step`, `calls[c].step`, `scan.step`,
`delivery.step`, and in the notifier process `main`, `run`, `supervisor`, `worker[w].step`,
`publish[p].step`) name the next effect of each.  Definitions called *Mutant* are
plausible bugs; no specification uses them, they serve to see each property fail.

| code | model |
|---|---|
| one request's UUIDs (subscription, saga, two tokens), created together | one element of `Requests` |
| row of `subscriptions` | `subs[r]`: absent, unconfirmed, confirmed |
| row of `subscription_sagas` | `sagas[r]`: absent, or its state |
| `started_at` older than `SAGA_TIMEOUT` | `r \in overdue`, entered by `SagaTimeout(r)` at any time while pending |
| ErrNotFound of an UPDATE/DELETE, which all callers take for success | the statement that changes nothing and succeeds |
| a statement that fails | `Breaks`: the caller sees an error, the statement took effect or not |
| `HandleFailed`, run by a handler, the consumer or the sweeper | `CompensateGet/Delete/Mark(w)`, one program counter `comp[w]` per worker |
| a publish | `Put`; a failed one puts the message or not |
| a queue | a bag of messages: prefetch, requeue and redelivery leave no order to rely on |
| unacknowledged delivery | held in `replies` or `cmd`; put back by a nack, a lost session or a crash; `stale` says that its session is gone, so that its ack or nack has no effect |
| a gRPC call | `calls[c]`: the handler's step, the saga, whether the client still waits |
| the 5 s deadline of a call | `RetryTimesOut`, possible at any moment of the call; the handler goes on, its answer has no reader (the handler hands its context to the send, which may then fail: `SendFails`, counted among the faults of the notifier's side) |
| a send that fails | `SendFails`: a fault, with or without the email delivered (lost answer, 10 s client timeout) |
| TTL and capacity of the cache | in `Notifier`, `Forget(r)`, a fault that may drop an entry at any time; in `Dedupe`, the clock and the evictions themselves |
| the readings of the clock inside one critical section of the cache | one instant (`now`) |
| an entry of `Dedupe.entries` | `entries[s]`, the time of its insertion; the oldest of several equally old is any of them, as the order of a Go map |
| a release tag | its number in the order of publication; 0 is none: GitHub's 404, the cache's `notfound`, `last_seen_tag` NULL |
| Redis entry with its TTL | `cached[p]`, at most one tag, dropped by `Expire(p)` at any time |
| Redis that fails | `RedisFault`: the lookup misses, the store is lost or not |
| rate limit | `quota`, renewed by `RenewQuota`; 0 is ErrRateLimit.  A 429 of a secondary limit, with requests left, is a fault after which the scan ends (`FetchRelease`) |
| one scan | `StartScan`, then for each repository of its list `FetchRelease`, `ListSubscribers`, `PublishNews(s)`, `UpdateLastSeenTag`; `scan.seen` is `last_seen_tag` as the list was read |
| a subscribe request up to its row | `Subscribe(s)`: the check of the repository out of the cache or from GitHub, the upsert of the repository (`GetOrCreate`), the insert.  A name that is no repository ends the request, leaves no row and is left out |
| a subscription deleted by its user or by a compensation | `DeleteSub(s)` |
| ctx of the scanner cancelled by a shutdown of the server | `StopServer`: `scan.cancelled`; from then on statements, requests and publishes fail of themselves, a publish perhaps after the broker has stored the message; `ExitServer` is the end of main, which does not wait for the scanner |
| nack without requeue | the notification becomes a dead letter |
| crash and restart | `ServerCrash`, `NotifierCrash`: memory gone, unacknowledged messages requeued, calls broken |

The notifier process:

| code | model |
|---|---|
| the connection and channel of a session | `pubLink`, `conLink`: up, muted (the broker closed the channel and kept the connection), down, closed by this side |
| sessions of the consumer and of the publisher | numbered; a goroutine or a publish belongs to the one it was started in, so that nothing in the model relies on the join |
| `p.ch`, read under the mutex | `ready` and `pubSession`; `TakeChannel` is the critical section, `WriteMessage` and `AwaitConfirm` come after it |
| PublishWithDeferredConfirm | `WriteMessage`: the message is on the wire, or the channel the call took is gone |
| `WaitContext` | `AwaitConfirm`: the confirm, a nack, the end of the channel or of ctx |
| fate of a written message | `wire[p]`: stored, refused, or lost with its connection; a message may be stored whose call has failed |
| the select of a goroutine of a queue | `Leave` (ctx done or deliveries closed) and `TakeDelivery`: with both ready, either |
| `sessionWG.Wait`, `closeSession` | `JoinWorkers` |
| prefetched deliveries | `buffer`; at the broker `box[m] = "out"` |
| ack and nack | `Settle`, without effect on a channel that is gone; a lost session requeues what is out |
| `dialPublisherWithRetry`, `dialConsumerWithRetry`, `lc.Listen` | `StartPublisher`, `StartConsumer` with `attempt`, `Listen` |
| `runSession` after a dial, without another look at ctx | `StartSession` |
| `os.Exit` when `ListenAndServe` fails | `HttpServerFails` |
| SIGTERM, the stages of `gracefulShutdown`, the deferred `replies.Close` and then `cancelConsumer` | `Signal`, `StopHttp`, `StopGrpc`, `StopConsumer`, `ClosePublisher`, `PublisherClosed`, `Return` |
| the 10 s of `shutdownCtx` | `Expire`, at any moment of the shutdown |

Of `dispatch`, `ConsumerSession` keeps what touches the session (the fate of the delivery and the
publishes of the reply); emails and dedupe are in `Notifier` and `ReleaseNotification`, whose
publishes succeed, fail, or fail although the message was enqueued.  That this is all a
publish does is `ImplementsPublishPort`.

Faults are counted (`MaxServerFaults`, `MaxNotifierFaults`), so that a run has
finitely many and liveness can be asked of what follows; the theorems hold for
any bound.  A timeout of a saga or of a call is not a fault: it may happen in
every run.

## 3. Properties

Safety (`SubscribeSaga`):

- `JournalMatchesSubs`: a subscription exists exactly when its saga does.
- `SagaEndsCompletedOrGone`: no saga is ever `compensated` or `timed_out`; it is
  pending, completed or gone.  This is what the code does (see finding 1).
- `CompletedMeansOnItsWay`: however calls overlap, the email of a completed saga was
  delivered or is being sent, as long as nothing failed on the notifier's side (a send cut
  off with its call is such a failure).
- `CompletedMeansMailed`: as long as one call is open at a time (`SingleCall`), a completed
  saga's email was delivered.
- `MailBound`: at most two emails, and two more for each fault of the notifier;
  no fault of the server's side, however many, adds one.
- `ImplementsLifecycle`: under `SingleCall`, whatever crashes, races and redeliveries
  happen, a request goes through the stages of `SagaLifecycle`: refused, or a row that
  awaits its confirmation, is confirmed, and goes; completed and confirmed only after the
  link was mailed; a row that is gone never comes back.  With overlapping calls a saga
  may be completed before its link is mailed, or without it (section 7).

Safety of the cache (`Dedupe`):

- `WithinCapacity`: at most `MaxEntries` entries.
- `FreshLostWhenFull`: an entry that counts is lost to its own release, or to an
  insertion into a cache full of entries that count, none of them older.
- `SendersExclude`: as long as entries that count never fill the cache, no two
  handlers send for one saga, though marks refresh, failed sends release and
  entries expire.  The condition is needed: `insertLocked` makes room before it
  looks whether its saga has an entry, so in a full cache a mark of one saga can
  evict the claim of another's send in progress (10 000 sagas within an hour).
- `ImplementsClaimSet`: to its callers the cache is the set of `ClaimSet`, the one
  that `Notifier` models: a claim is granted exactly when its saga does not count as
  claimed; whatever else happens, claims can only be forgotten.

Safety of the releases (`ReleaseNotification`):

- `LossBound`: when `last_seen_tag` moves on, the subscribers of the list who were
  not reached (no notification in the queue, in hand, in the inbox or among the
  dead letters) are at most as many as the server had faults: a crash between
  publishes and update loses nobody, a failed publish loses one, and a shutdown in
  the middle of the fan-out, after which every publish fails, loses nobody either,
  because the update fails with them.
- `DuplicateBound`: the same release reaches the same inbox again only after a
  fault, or because GitHub withdrew a release.
- `OldNewsNeedsCause`: `last_seen_tag` never goes back, and so an old release is never
  announced as new, unless Redis failed or GitHub withdrew a release.  The cache
  may be stale, but an entry older than the tag cannot survive the lookup that
  produced the tag, unless that lookup went past the cache.
- `UnconfirmedHearNothing`: no notification for a subscription that is not confirmed.
- `LeaversAreForgotten`: once a user has left and is on no list in hand, no scan makes a
  notification for them again.  (What was queued before is still mailed.)

Safety of the notifier process (`NotifierProcess`):

- `OneHandlerPerQueue`: a queue has one handler at a time, though a session may be lost
  under a goroutine that is still sending and the next dialled.
- `PublisherOutlivesHandlers`: the publisher of the replies is closed when no handler is
  left, unless the ten seconds ran out or the gRPC listener could not be opened.
- `AckedCommandAnswered`: without a fault, before a shutdown, and unless the listener
  failed, a command that was acknowledged has a reply in the broker.
- `DeadLetterNeedsCause`: before a shutdown, dead letters are at most as many as failed sends.
- `ImplementsPublishPort`: `publish` with its supervisor keeps what its callers rely on: a
  nil answer means the message is in the broker, an error says nothing, no call
  stores its message twice.

Liveness (under the fairness of section 5):

- `PendingResolves`: every pending saga ends.
- `NoOrphan`: under `SingleCall`, every subscription is mailed its link or removed.
- `RefusalEnds`: under `SingleCall`, a request refused as a duplicate sees the other row
  mailed or gone.
- `QueuesDrain`: from some point on both queues are empty.
- `CatchesUp`: the scanner catches up with each repository that has subscribers.
- `NewsArrives`: an enqueued notification ends in an inbox or among the dead letters.
- `DeliveriesSettle`: every message in the notifier's queues is settled, whether
  connections are lost or channels alone, unless the process is told to stop or dies
  with its HTTP server.
- `PublisherRecovers`: a publisher that lost its connection gets a new one, is closed, or
  dies with the process.
- `SignalStops`: the process that is told to stop, or whose listener fails with the consumer
  already running, exits, whatever hangs meanwhile.

`TypeOK` is more than typing in one place: `cmd.tries <= ReplyAttempts`.

## 4. Runs

| run | instance | shows |
|---|---|---|
| `saga_faults` | 1 request, 2 calls (symmetric), 2+2 faults, 2 reply attempts (4.2 M states) | `TypeOK`, `JournalMatchesSubs`, `SagaEndsCompletedOrGone`, `CompletedMeansOnItsWay`, `MailBound` |
| `saga_liveness` | 1 request, 1 call, 1+1 faults, fair (168 k states) | `CompletedMeansMailed`, `ImplementsLifecycle`, `PendingResolves`, `NoOrphan`, `QueuesDrain` |
| `saga_pair` | 2 requests for one pair, 1 server fault, no clicks, fair (740 k states) | `RefusalEnds` |
| `dedupe` | 3 sagas, 2 handlers, 2 entries, TTL 2, sends of at most 2, 5 ticks (55 k states) | `TypeOK`, `WithinCapacity`, `FreshLostWhenFull`, `ImplementsClaimSet`, `SendersExclude` |
| `release_stale` | 1 repository, 1 subscriber, 2 releases, 1 request per window, 1+1 faults, 1 fault of Redis, 1 withdrawn release (1.9 M states) | `DuplicateBound`, `OldNewsNeedsCause` |
| `release_liveness` | 1 repository, 2 subscribers, 2 releases, 1 request per window, 1+1 faults, fair (284 k states) | `TypeOK`, `UnconfirmedHearNothing`, `LossBound`, `LeaversAreForgotten`, `CatchesUp`, `NewsArrives` |
| `notifier_process` | 1 command, 1 notification, 2 sessions of the consumer, 2 reply attempts, 2 dial attempts, prefetch 1, 1 fault, fair (324 k states) | `TypeOK`, `OneHandlerPerQueue`, `PublisherOutlivesHandlers`, `AckedCommandAnswered`, `DeadLetterNeedsCause`, `ImplementsPublishPort`, `DeliveriesSettle`, `PublisherRecovers`, `SignalStops` |

Why these bounds say something.  Requests share no state but the queues (bags,
in which messages of different sagas do not meet), the workers' attention and
the pair: one request exhibits every race about one saga, two exhibit those
about a pair.  A call outlives its client: after a restart of the server, or a
compensation that failed, the sweeper calls again while the notifier still runs the
handler of the first call.  `saga_faults` has two calls for that; calls differ in their names only, and
the run has invariants only, so symmetry among them is sound.  The properties that need
one call at a time (`SingleCall`) are checked with one, in `saga_liveness` and
`saga_pair`.  Two faults per side allow, for
example, a lost publish whose compensation fails too, a crash of the notifier
followed by a failed send, and a reply redelivered after its retry.  The code
tries a reply 5 times; here 2 (1 in the liveness runs), enough to fail with and
without the event enqueued, to retry, and to give up.  `saga_pair` uses
`QuietSpec`, in which users follow no link: the property is about what the
system does on its own, and with clicks the graph of two sagas is out of reach.

The cache: 3 sagas and 2 entries make every insertion a candidate for eviction;
with TTL and send timeout equal, the boundary at which an entry stops counting
is the one at which a send still runs; 5 ticks are two and a half lifetimes.

The releases: the first release becomes the baseline and the second is news; a
withdrawn release and its successor give old news and a repeated tag.  With one
request per window each fetch empties the quota, so every scan may meet the
limit, and every subscribe request may be what it meets.  Two subscribers let one be
reached and the other lost, and one confirm or leave between the list and the
publishes; one fault of the server and two subscribers tell a shutdown that loses
nobody from one that loses the whole list.

The notifier process: a command and a notification, one per queue, because the
goroutines of the two queues share the session, the publisher and the shutdown but
no message.  Two sessions and one fault: a fault is a lost connection or channel, on
either side, a failed send or a nack of the broker, and the process must be right
again after any of them at any step.  Dials and the gRPC listener fail freely, beyond the bound on faults; two
attempts of the start let it succeed late and give up.

`CHECK_DEADLOCK FALSE` is set everywhere because the system may rest: the saga
has ended and nobody clicks, the bounded clock has run out, nobody subscribes.

### Violations, and what they mean

Each of these runs checks something the repository says of itself; TLC finds a
behaviour of the code that contradicts it.  `PROJECT.json` quotes the lines.

1. `claim_recorded` - a compensation leaves no `compensated` saga: the delete
   cascades to the saga row, and the mark that follows matches nothing.  The
   journal loses the outcome and `last_error`.  The repository's test uses a
   fake store without the cascade.
2. `claim_spares_confirmed` - the sweeper deletes a subscription its user has
   already confirmed (late reply, retry that times out).  Needs no fault.  For the
   same reason a saga that a reply completes between `HandleFailed`'s read and its
   delete is deleted with its subscription.
3. `claim_second_email` - the consumer never consults the dedupe cache, so a retry
   that races the queued command mails twice.  Needs no fault.
4. `claim_unique` - two concurrent requests create two rows; migration 000002
   dropped the UNIQUE constraint along with the column.
5. `claim_rounds` - a scan that the rate limit ends is not resumed: with more
   repositories than requests in a window some may never be checked.  The same
   property, `CatchesUp`, holds when the window covers a round (`release_liveness`).

They use the same modules as the passing runs; only the constants differ.

More consequences of the code are visible in the models without a run:

- The first release of a repository is the baseline and is announced to nobody,
  however long its subscribers have been confirmed (`Baseline`).  And a repository that
  nobody watched for a while keeps its old tag (`GetOrCreate`), so that its next
  subscriber is mailed a release older than the subscription.
- "At-least-once" (`docs/application-architecture.md:321`) holds up to failed publishes,
  each of which loses one notification (`LossBound` is the bound that holds).
- A graceful shutdown of the notifier cancels the sends under way: a notification
  that was being mailed is nacked and becomes a dead letter, although the docs keep
  dead letters for permanent failures (`docs/application-architecture.md:132`).  This is why
  `DeadLetterNeedsCause` stops at a shutdown.
- The publisher's supervisor listens to the close of the connection
  (`publisher.go:83`).  If the broker closes the channel alone, every later publish
  fails until the connection goes as well: `PublisherRecovers` cannot be asked of a
  `muted` link.  The consumer, whose deliveries close with the channel, does recover
  (`DeliveriesSettle`).
- After the ten seconds `StopConsumer` closes a consumer whose `Run` may still be at work
  (`cmd/notifier/main.go:179`); what `Run` does then is the same as after a lost session,
  but for a dial that ends between the close and the end of the process, whose
  `runSession` finds no connection and panics: in the model the process exits either way.
- When the gRPC listener cannot be opened (`cmd/notifier/main.go:92-96`), `run` returns with the
  consumer already at work: the deferred `replies.Close` (line 74) runs before the
  deferred `cancelConsumer` (line 66), so the publisher goes under a handler that is still
  sending, and its command is acknowledged without a reply if the process lives long
  enough.  `PublisherOutlivesHandlers` and `AckedCommandAnswered` except this start
  (`listenErr`); the sweeper answers for the saga.

## 5. Fairness

`FairSpec` asks weak fairness of every goroutine that, once it can proceed, does:
each subscribe handler from its first statement on, each compensation, the
replies consumer, the sweeper (its ticker fires for ever), the command consumer
(it redials for ever), each gRPC handler, and the clock (`SagaTimeout`).  This is
what the Go scheduler, timers and the supervisors' endless reconnect loops give.
Nothing is asked of users (`Admit`, clicks), of faults, or of the call timeout.
The waiting client of a call needs no timeout because handlers are fair and a
crash breaks the call.

For the releases: the scanner (its ticker fires for ever), the delivery goroutine,
the expiry of cache entries and the renewal of the rate limit; nothing is asked
of GitHub, of subscribers or of faults.  The subscribe requests draw on the same rate
limit; as there is one for each subscription of the instance, they end, and a limit
that covers a round then does.  With requests for ever, each of which needs a
repository that is not in the cache, the scanner may meet an empty quota for ever.

For the notifier process: main, the supervisor, `Run`, each goroutine, the
broker, the timer of the shutdown and the end of the gRPC handlers (bounded by the
client's deadline) under weak fairness.  A redial of the consumer and of the publisher
may fail at any time without being counted, so weak fairness of a loop would let it
fail for ever; the two strong fairness conditions (`SF_vars(Supervisor /\ ready')`,
`SF_vars(Consumer /\ conLink' = "up")`) say that whoever dials again and again reaches
the broker in the end.  They say nothing of the start, whose attempts are bounded: the
process may exit without having served.  No signal has to come, and nothing is asked of
`HttpServerFails`.

The bound on faults is the assumption that a broken part is
eventually repaired: with failures for ever no saga would end, and the code
does not promise it.

## 6. Theorems

### The saga

`SubscribeSagaProofs` proves, for every set of requests and calls, every
fault bound and every number of reply attempts:

- `SagaTypeOK`: `Spec => []TypeOK`.
- `JournalCoversSubs`: `Spec => []JournalMatchesSubs`.
- `SagaEnds`: `Spec => []SagaEndsCompletedOrGone`.
- `CompletedIsMailed`: `Spec => []CompletedMeansMailed`, assuming `SingleCall` (at most
  one call is open at a time).  A running sweeper makes one call at a time; a restarted server may
  open a second one while the notifier still runs the handler of the first, and
  then the second is answered OK because the first holds the claim, whatever
  becomes of the first's send.
- `CompletedIsOnItsWay` (`SagaOverlapProofs`): `Spec => []CompletedMeansOnItsWay`, which `saga_faults` checks with two calls: what is left
  of `CompletedMeansMailed` with any number of open calls: as long as nothing has failed on the
  notifier's side, the email of a completed saga was delivered or is being sent.
- `MailIsBounded` (`SagaMailProofs`): `Spec => []MailBound`.
- `SagaImplementsLifecycle` (`SagaLifecycleProofs`): `Spec => ImplementsLifecycle`, assuming
  `SingleCall` for the reason of `CompletedIsMailed`: the lifecycle completes only what was mailed.

Assumptions on constants: `NoRequest` is no request, fault bounds are natural
numbers, `ReplyAttempts` is positive, and the names of the two background
workers are no requests.

*Typing.*  `TypeOK` is not inductive: `replies.saga` may be `NoRequest` as far as
types go, and then `Put(events, ...)` is no function of the right domain.
`Typing` adds `Serving` (a worker that is not idle serves a request),
`CallsServe` (so does a call that is not free) and `AttemptLeft` (a reply that has
not been given up has an attempt left).

*Journal.*  `StepStatement` says that every step leaves the tables alone or
executes exactly one statement for one request; each statement preserves
agreement (`JournalStep`).  This is where the cascade is used.

*Ends.*  A saga could be marked compensated only by `CompensateMark`, whose guard
is that the row is still pending.  `DeletedForGood` says that a worker at `mark`
serves a saga whose row is gone; it stays so because the row can only come back
by `CreateWithSaga`, and by `CreatedOnce` the handler that could execute it has not
passed its create while the saga exists or existed.  `Compensation` conjoins
these with `Agreement`, which ties the workers' program counters to the
handlers they run in; `ControlStep` proves how program counters move, once for all statements.

*Mailed.*  `Mailed` follows the knowledge "an email was delivered" along every
path to `MarkCompleted`: from the send to `cmd.sent`, the sent event, the
delivery in hand; and from the send to the dedupe entry (once no call for the saga is
still sending), the OK of a call and the sweeper that has read it.

What holds however calls overlap is `Trail`: the email behind a command marked sent and behind
a reply "sent".  `ServerReads` says that the server takes an OK from a call and makes none up.

*Overlapping calls.*  `Promised` replaces "was delivered" by "is on its way" (`OnItsWay`:
delivered, or a handler is sending) wherever the dedupe cache vouches for the email: in the
entry, the OK it leads to, the sweeper that has read it and the saga it completes.  A
send under way can end without a delivery only by a fault of the notifier's side, which is the
hypothesis.  After such a fault the promise may be broken for good (section 7).

*How many emails.*  `MailBound` is not inductive: it says nothing of the emails still to
come.  `Budgeted` counts these with those that were sent (`Emails(r)`): one for each
command in the queue, for the command in hand before its send, for each call that sends,
for a claim that may still be made, and for a command still to be published.  A send
moves one unit into the mailbox; a publish, a receipt and a claim only move units; a failed publish or a
crash of the server never adds one.  A fault of the notifier adds at most two: a crash
puts the command back and forgets the claim.  The calls that send are counted with their
finiteness (`SendingChanges`), as the set of calls may be infinite.

*Lifecycle.*  The mapping reads the stage of a request off its row and its handler
(`Stages`), completion off the journal (`CompletedRows`), and the mail off the inbox
(`MailedLinks`).  `Underway` is what the refinement needs beyond `Compensation` and
`Mailed`: nothing is under way for a request that has no row yet (no command, call, retry
or click), and nobody follows a confirm link that was not mailed.  It is preserved because
whatever is under way comes from somewhere (`Origins`): a command from a publish, a call from
the sweeper, its saga from a pending row, a click from a row or an email.  Then each action is followed: those that
map to a step of `SagaLifecycle` (`CreateStep`, `DeleteStep`, `CompleteStep`, `ConfirmStep`,
`MailStep`, `RefuseStep`) and those nobody sees (`UnseenStep`).  A crash of the server
refuses all the requests at once whose handlers it ends before their create (`CrashStep`).

### The dedupe cache

`DedupeProofs` proves, for every set of sagas (finite or not) and of handlers, every
capacity, TTL, horizon, and send timeout not above the TTL (the code has 10 s and 1 h):

- `DedupeTypeOK`: `Spec => []TypeOK`.
- `StaysWithinCapacity`: `Spec => []WithinCapacity`.
- `FreshIsLostWhenFull`: `Spec => FreshLostWhenFull`.
- `ClaimsExclude`: `Spec => SendersExclude`.
- `CacheIsClaimSet`: `Spec => ImplementsClaimSet`, the refinement of `ClaimSet`.

*Capacity.*  The map stays finite (`Bounded`), so that counting it means something
although sagas may be infinitely many; `ClearedFits` says that whichever way room is
made, an entry less than the capacity is left.

*Eviction.*  When an insertion drops a fresh entry the cache was full after
pruning; since it never exceeds its capacity, pruning removed nothing, and all
entries are fresh (`AllFresh`).  This relates two scans of the map, and needs `Bounded`.

*Exclusion.*  `OneSender` is not inductive: it holds because the claim of a send in
progress still counts.  `Claiming` says so: its entry is no older than the send,
which is no older than the send timeout.  Marks make it younger; releases and `Seen`
remove other entries, the first because of `OneSender` itself; insertions remove
none while there is room (`InsertKeepsFresh`).

*Refinement.*  `claims` is mapped to the entries that count.  A refused claim, `Seen`
and the end of a send leave them alone; insertions add their saga and may drop
others; a tick only drops.

### The releases

`ReleaseProofs` proves, for every set of repositories and of subscriptions, every number
of releases, every rate limit and every bound on faults and withdrawals:

- `ReleaseTypeOK`: `Spec => []TypeOK`.
- `NobodyUnconfirmed`: `Spec => []UnconfirmedHearNothing`.
- `NoOldNews`: `Spec => OldNewsNeedsCause`.
- `LossesAreFaults`: `Spec => LossBound`.
- `LeaversStayForgotten`: `Spec => LeaversAreForgotten`.
- `DuplicatesArePaid` (`DuplicateProofs`): `Spec => []DuplicateBound`.

The constants are assumed to be natural numbers, every subscription to have a
repository, and `NoRepo` to be none.

*Typing.*  `AtWork` adds that a scanner past the start of a round has a repository, and
past the fetch a release; else `Advance` would not be typed.

*Unconfirmed.*  A subscription that confirmed never becomes unconfirmed again
(`ConfirmedForGood`), so a list that was right when it was read is still right when it
is used, however long the round takes.  `Addressed` is the invariant: who is on
the list confirmed, and who was reached confirmed.  The scanner reaches only those on the list
(`ScannerReaches`), the notifier only moves what was reached (`NotifierReaches`).

*Order.*  While Redis never failed and nothing was withdrawn, `InOrder` holds: for each
repository, last_seen_tag, the release in hand, the entry in the cache and GitHub's latest
follow one another.  The lookup preserves it because an entry is only
replaced after it expired (`LookupInOrder`); the update then never steps back.

*Leavers.*  A list that a step makes is the old one, an empty one, or just read
from the rows that are confirmed (`ListedConfirmed`), and a row that is deleted stays so.

*Loss.*  The invariant counts: the unreached of those served are at most the
faults, unless the scan is cancelled, and then the tag stays (`LossesPaid`).  It needs that whatever was reached stays so
(`ReachedForGood`), and that needs `HandOver`: a message whose session is gone is in the
queue again before the handler drops it, and one to be acknowledged was sent.
The subscriptions may be infinitely many, those served in a round are not.

*Duplicates.*  The scanner announces a release whenever it differs from the last one it saw.
What it is going to see is a way of four stations: the release in question, the last tag
seen (or the one in hand, which is about to become it), an entry of the cache or GitHub's latest, and
GitHub's latest.  A release of the past can be announced again only if this way goes down
somewhere.  `PaidFor` bounds, for each subscriber and release, the copies in the queue, in hand and
in the inbox, the one the scanner still owes (`Owed`), the descents of the way, and one unit
for a shutdown that has been counted and not yet cut the round short (`CutShort`), by one plus the
faults and withdrawals.  It holds because a lookup moves the scanner along the way and so uses the descent that the
announcement needs (`LookupFalls`); a release that is published removes descents; a
withdrawal, a lookup past the cache, or an update that never came adds at most one
(`OneMoreFall`), and each of these is counted.  `AsListed` is needed beside it: the tag the
scanner compares with, read when the round began, is still the one in the table, because nobody else
writes it.  TLC checked the invariant with 3 releases and 2 faults of Redis as well.

### The notifier process

`NotifierProcessProofs` proves, for every set of messages, every prefetch, every number of
attempts and of faults (and hence of sessions):

- `ProcessTypeOK`: `Spec => []TypeOK`.
- `OneHandler`: `Spec => []OneHandlerPerQueue`.
- `HandlersOutlived`: `Spec => []PublisherOutlivesHandlers`.
- `PublisherKeepsPort`: `Spec => ImplementsPublishPort`.
- `AckedIsAnswered`: `Spec => []AckedCommandAnswered`.
- `DeadLettersArePaid`: `Spec => []DeadLetterNeedsCause`.

Assumed of the constants: the two kinds of messages are disjoint, `NoMessage` is none of them,
prefetch and attempts are positive, and each attempt at a reply is a publish.

*Typing.*  That `conSession` stays within its bound is a fact about the code: `Run` dials
only after its session was lost, or in a process that stops and will not dial.
`Dialling` says so, at each step of `Run`: who may dial has lost as many sessions as were
dialled.  This needs that `closedCh`, which ends a session without a look at the
connection, is only closed by a goroutine whose deliveries ended.  `Phases` ties the
step of main to the other goroutines: the attempts left, whether `Run` and the supervisor
have started, whether ctx is done, how far a start got whose listener failed.

*Sessions.*  `Sessioned`: a goroutine that has not returned belongs to the newest session,
and `Run` is waiting for it.  `JoinWorkers` is the step that matters; a goroutine moves
alone (`GoroutineMoves`).  `OneHandler` and `HandlersOutlived` follow, the second because `done` comes
after `Run` has ended, or was never started (`Phases`), unless the listener failed.

*Publisher.*  `Written`: what a call has not written is not in the broker, and a call that
returned nil has seen its confirm.  `PublishingSteps` says that every step of the process
leaves the calls alone or is a step of one; each of these is a step of `PublishPort` or
a stutter.

*Answers.*  A state without faults, a signal or a failed listener is `Smooth`, and only smooth states
lead to one (`SmoothBefore`).  In these the publisher is `Calm`: it is connected before
there is a consumer, nothing takes its session away, every call works on that session,
and none has failed.  So a handler that waits for its reply (`Replying`) sees it
confirmed, hence stored (`Written`), before it acknowledges (`Answering`).  What happens
after any of these needs no proof: the property makes no claim there.

*Dead letters.*  `Paid` counts, with the dead letters, the goroutines that are about to
make one (`Rejecting`): a send that fails pays for both.  Whatever else becomes of such a
goroutine, its nack without effect after a lost session included, only lowers the sum.
The dead letters stay finite, though the messages may be infinitely many.

## 7. What is only model-checked, and what is not modelled

Liveness under fairness is checked by TLC and not proved (TLAPS has no
support for it here): `PendingResolves`, `NoOrphan`, `QueuesDrain`, `RefusalEnds`,
`CatchesUp`, `NewsArrives`, `DeliveriesSettle`, `PublisherRecovers`, `SignalStops`.  Every
safety property of the passing runs is a theorem.

With overlapping calls `CompletedMeansMailed`, `ImplementsLifecycle`, `NoOrphan` and
`RefusalEnds` fail: they are stated under `SingleCall`, and checked with one call.  One fault is enough for the first two, and
a second one makes it permanent: the server crashes and restarts while the notifier sends for a call; the sweeper's second call
finds the claim of the first, is answered OK and completes the saga; then the first send fails,
and nobody retries a completed saga.  `CompletedMeansOnItsWay` is what remains.

Abstracted:

- malformed messages (no publisher sends any), rendering, tokens and URLs (one identifier);
- the session loop of the replies consumer, which has the form of the one in
  `ConsumerSession` with a single queue: in `Orchestrator` a session that is lost requeues
  its delivery, and one that is being dialled is a consumer that takes its time;
- the shutdown of the notifier in `Notifier` and `ReleaseNotification`: the end of the process
  is a crash there, and a send or a reply that a done ctx cuts short (the returns of
  `publishReplyWithRetry`, `consumer.go:367-369` and `373-375`) is in `ConsumerSession`;
- a kill of the notifier, or a SIGTERM before `signal.Notify`, in `NotifierProcess`: what it
  leaves to the broker is `NotifierCrash`, and no other part of the process is left;
- crashes, the broker's requeues and what a done ctx does are the environment's doing: their
  actions have no lines of the source (external in `PROJECT.json`);
- the shutdown of `cmd/server` but for the scanner: what a cancelled ctx or a closed
  publisher does to a statement or a publish of the other goroutines is among the
  outcomes of a failed one, and what the end of main does to them is a crash;
- the loss of the notifier's cache on a restart in `Dedupe` (it is in `Notifier`, where it
  belongs to the protocol), and a second process of `cmd/notifier`;
- the `notfound` entries of the repository check: such a request leaves no row.

Left out for good: the construction of clients and routers, middleware, configuration,
metrics, logging, templates, the list query, the web page - no state the properties
depend on.

## 8. Plan

Done: the saga, the cache, the releases and the notifier process, sections 2 to 6.
All safety properties of the runs are proved.  What is left:

1. The lifecycle without `SingleCall`: a variant of `SagaLifecycle` in which a
   completed saga may wait for its email, and a proof that the saga implements it.
2. The steps of the liveness arguments that are safety: which quantity each round of the
   sweeper, of the scanner and of a redial lowers.
