# AgentJ: a formal model

AgentJ exposes a local HTTP server under a public host name and hosts LINE bot
webhooks. A **gateway** process accepts public HTTP and WebSocket traffic and
forwards it, over one WebSocket per tunnel, to an **agent** (the CLI) that talks
to the local server. A **web application** is the control plane: accounts,
tokens, tunnels, LINE channels, the request log. PostgreSQL is shared by both.

This directory holds TLA+ modules translated from the source, TLC runs that
check them on small instances, and TLAPS proofs for every instance.

`apps/…` and `packages/…` below are paths of the repository; `index.ts` alone is
`apps/tunnel-gateway/src/index.ts`.

## 1. Inventory

| Component | State | Operations | Hard behaviour | What makes it correct |
|---|---|---|---|---|
| Stream lifecycle (`index.ts`) | `streams`, `streamsBySession`, `activeStreamsByTunnel`, `activeStreamsGlobal`, one timer per stream, the reply or public WebSocket | `handleHttpIngress`, `startBufferedHttpIngress`, `handlePublicWebsocket`, `onAgentResponse*`, `onStreamError`, `failStream`, `finalizeStream`, stream timeout | every handler awaits the database and a send queue while timers, the client, the agent and other handlers act on the same stream; `finalizeStream` can run twice | capacity is neither lost nor exceeded; each stream ends; each client is answered; nothing is bound to a dead session |
| Agent sessions (`index.ts`, `lib/agent-heartbeat.ts`, `lib/tunnel-routing.ts`) | `agentsByTunnel`, `pendingOfflineTimersByTunnel`, per connection: `activeConnection`, hello and ping progress, `missedPongs`; the tunnel's row | `handleAgentConnection`: hello, takeover, ping, pong, close; grace timer | two agents register at once, close events arrive late, a grace callback and a ping task hold stale reads across an await, writes are not awaited, restarts forget timers | the newest agent serves the tunnel; an older one never displaces it; silent agents are dropped; grace periods end |
| LINE webhook queue (`index.ts`) | `line_webhook_events` rows (status, attempts, nextRetryAt), `isProcessingLineWebhookEvents` | enqueue, claim, dispatch, retry, delivered | lease against stream timeout, stale attempts, batch aborted by an exception | an event is settled; delivered stays delivered; attempts are bounded |
| Request log (`index.ts`, `apps/web/.../requests/route.ts`, `commands/logs.ts`) | `ingress_requests`, `ingress_payload_chunks`; the cursor of a reader | insert, update, finalize, `persistChunk`, cleanup, pagination, `logs`, `logs --follow` | rows appear behind the cursor; millisecond cursors over microsecond columns | a walk prints what was there; a follower prints what comes |
| Send queue (`lib/ws-send.ts`, also in the CLI) | promise chain, `bufferedAmount` | `send`, `waitForWebSocketDrain` | backpressure timeout, a closing socket, order after a failure | order is kept; every send settles |
| CLI agent (`packages/cli/src/lib/gateway-agent.ts`, `commands/tunnel/http.ts`, `commands/line/connect.ts`) | `pendingHttp`, `pendingWs`, `retryAttempt`, the send queue | message handler, local exchanges, reconnect loop | listeners attached after awaits, a connection lost at any await, back-off against grace | what it says of a stream is a response; a lost connection leaves nothing behind; the loop ends exactly on final close codes |
| Control plane (`apps/web/src/app/api/v1`, `lib/auth.ts`, `lib/session-cache.ts`) | rows of users, PATs, sessions, tunnels, channels; an in-memory session cache | register, log in and out; create and revoke PATs; create and delete tunnels; create and change channels; connect tokens | check-then-act across statements, a cache filled after a revocation, an advisory lock, statements that fail half-way | anonymous limit; revocation ends access; a row that was looked up as one's own is still so when it is written |
| Schema, contracts, SDK, CLI commands, UI, deployment | tables; none | | | not modelled, see section 7 |

Interaction. The web application creates a tunnel row and signs a connect
token; the agent connects with it (*AgentSessions*), and the gateway registers
the connection in `agentsByTunnel`. Ingress handlers look it up and create
streams bound to that session id (*StreamLifecycle*). The session's close event
fails its streams and starts the grace period; the end of the grace period
writes the tunnel row, which the web application and the host lookup read. LINE
events are dispatched as streams without a client (`managed`). At the other end of
the connection the agent (*CliAgent*) relays each stream to the local service.
Tunnels, tokens and channels come and go by requests to the API (*ControlPlane*).
Every request leaves a row that `agentj logs` reads in pages (*RequestLog*).

## 2. Modules

| Module | Models | Lines of code |
|---|---|---|
| `StreamLifecycle` | streams, capacity, timers, clients, and agent sessions as far as streams depend on them | `index.ts` 83-118, 267-528, 556-790, 1010-1022, 1034-1391 |
| `StreamContract` | what the gateway promises of a stream, without its mechanism | the same handlers, from outside |
| `StreamContractProofs` | theorem: `StreamLifecycle` implements it | |
| `MCStreamLifecycle` | instances and symmetry for TLC | |
| `StreamLifecycleProofs` | theorems about `StreamLifecycle` | |
| `AgentSessions` | connections, registry, heartbeat, grace period, tunnel row, restart | `index.ts` 448-490, 807-1032, 1644-1664, `agent-heartbeat.ts`, the tunnel and channel routes of the web application |
| `MCAgentSessions` | instances for TLC | |
| `AgentSessionsProofs` | theorems about `AgentSessions` | |
| `LineWebhook` | the queue of managed LINE webhooks: rows, poller, lease, dispatch, finalizers, the clock | `index.ts` 134-137, 181-184, 213-240, 267-391, 496-501, 543-545, 1210-1391, 1458-1593, `schema.ts` 15-19, 175-192 |
| `MCLineWebhook` | instances and symmetry for TLC, `calculateLineWebhookNextRetry` in ticks | |
| `LineWebhookProofs` | theorems about `LineWebhook`: types, lease, attempts | |
| `WebhookContract` | what the gateway promises of a stored event, without poller, leases and clock | `index.ts` 213-240, 1210-1229, 1326-1391, 1458-1517, `schema.ts` 15-19, 175-182 |
| `WebhookRetryProofs` | theorems: settled events, claims and attempts, `LineWebhook` implements `WebhookContract` | |
| `CliAgent` | reconnect loop, agent, local exchanges, send queue | `gateway-agent.ts` 30-46, 60-136, 161-505, 592-601, `ws-send.ts` of the CLI, `commands/tunnel/http.ts`, `commands/line/connect.ts`, the same loop in `commands/line/init.ts` |
| `MCCliAgent`, `CliAgentProofs` | symmetry for TLC; theorems | |
| `ControlPlane` | API requests as sequences of statements, the session cache, the advisory lock | `apps/web/src/app/api/v1` (auth, pats, tunnels, line/channels), `lib/auth.ts`, `lib/session-cache.ts`, `lib/tunnel-access.ts` |
| `MCControlPlane`, `ControlPlaneProofs` | symmetry for TLC; theorems | |
| `RequestLog` | insertion, cleanup, pages, cursors, `logs` with and without `--follow` | `index.ts` 305-316, 711-723, 1595-1617, `requests/route.ts`, `lib/request-log-cursor.ts`, `commands/logs.ts` |
| `RequestLogProofs` | theorems about `RequestLog` | |

### Atomicity

The gateway is one Node process. Between two awaits a handler runs alone, so an
action is the run of one handler from an event or a resolved await to its next
await; the CLI is another such process, and so is the web application, whose
requests interleave at every await. Whatever is awaited (a query, a queued WebSocket send) has a step of its
own at any later time. Writes that the code does not await (`runSafely(db…)`)
sit in a set and are applied in any order. An event that reaches no listener is
lost, as in the code.

### StreamLifecycle

`state[s]` holds the immutable fields of a `StreamState`; `ingress[s]` is the
await at which the handler of `s` is suspended; `armed` is the set of streams
with a live `timeoutHandle`, `due` those of them whose time has run out before the
callback has run; `finalizing[s]` counts the calls of `finalizeStream`
that wait for the database (there can be two); `client[s]` is the reply or the
public socket: `open`, `headers` (headers sent), `ending` (`end`, `destroy` or
`close` called), `closed` (its event has been emitted); `sending[s]` and
`pushing[s]` count the sends of a WebSocket stream in flight. `releases[s]` is a
history variable; `late[s]` counts the messages handled while `s` is being finalized.

| Code | Actions |
|---|---|
| agent lookup, `reserveStreamCapacity`, `streams.set`, `trackStreamBySession`, `armStreamTimeout`, INSERT issued | `CreateStream` |
| INSERT, start, chunk, `persistChunk`, end: success and failure | `InsertOk`/`InsertFailed`, `StartSent`/`StartFailed`, `ChunkSent`/`ChunkFailed`, `ChunkPersisted`/`PersistThrows`, `EndSent`/`EndFailed` |
| `for await (chunk of request.raw)` | `BodyChunk`, `BodyEnd`, `BodyAborted` |
| public WebSocket listeners | `WsMessage`, `WsChunkSent`, `WsChunkFailed`, `CloseEvent`, `WsEndSettled` |
| reply events, the client leaves | `CloseEvent`, `ClientLeaves` |
| agent messages | `OnAgentResponseStart`, `…Chunk`, `…End`, `OnStreamError`, `ChunkPushed`, `PushFailed` |
| stream timer | `TimeoutPasses`, `StreamTimeout` |
| `finalizeStream` | `FinalizeStreams` (up to its first await, part of the calling action) and `FinalizeStreamReturns` |
| hello, close | `RegisterAgent`, `AgentSocketCloses`, `AgentCloseEvent` |

A send succeeds only while the socket's close event has not come (`CanSend`) and
may fail at any time (backpressure). A request that is refused changes nothing
and is a stuttering step. An agent speaks about streams it was told of; it may
send its messages in any order, including an end without a start. Client and agent may
send any number of them: each re-arms the timer, as in the code. Two bounds keep the
instances finite without ending a conversation: `MaxPending` chunks of a stream are in
flight each way, and `MaxLate` messages arrive between the first finalizer and its return.
Response chunks carry no content here, so one that is written to a reply
already ended (`index.ts` 1241-1246) leaves the reply as it is.

### AgentSessions

`sock[c]` is the connection as the gateway sees it (`idle` before it exists);
`closeCode[c]` the code the gateway closes it with; `active` the sessions whose
`activeConnection` is set; `hello[c]` and `ping[c]` where the two asynchronous
tasks are suspended; `missed[c]` is `missedPongs`; `pinged` the agents that owe a
pong; `offlineTimer` the keys of `pendingOfflineTimersByTunnel`; `grace[t]` the
number of grace callbacks suspended in the channel lookup; `writes` the
statements not yet applied to the tunnel row; `row`, `linked` the database;
`deletedBy` is a history variable.

| Code | Actions |
|---|---|
| token verified, socket up | `Connect` |
| `agent_hello`: clear the timer, query, reject, too late, register | `Hello`, `HelloRead`/`HelloReadFails`, `HelloRejected`, `HelloTooLate`, `Register` |
| malformed message, second hello; hello timer | `BadMessage`, `HelloTimeout` |
| ping interval, its query, its send, its catch block, pong | `PingTick`, `PingRead`, `PingSent`, `PingFails`, `Pong` (with `MarkMissed`) |
| socket close | `PeerCloses`, `CloseEvent` |
| grace timer | `GraceExpires`, `GraceRead`, `GraceReadFails` |
| statements applied or failed | `Apply`, `WriteFails` |
| DELETE tunnel, POST line channel | `ApiDelete`, `ApiLink` |
| process ends and starts | `GatewayRestart` |

`RegisterAgent`, `AgentSocketCloses` and `AgentCloseEvent` of `StreamLifecycle` are
the actions `Register`, the closing actions and `CloseEvent` of `AgentSessions` as
streams see them.

### LineWebhook

`row[e]` is the row of `line_webhook_events` (status, attempts, `wait` = time until
`nextRetryAt`); `at` is the await at which the poller is suspended, `batch`,
`snapshot` and `current` are the loop over the selected events, `stream` the stream
that `startBufferedHttpIngress` works on, `claimAge` the time its claim has been on
the way to the database. `streams[s]` is a managed stream reduced to timer,
upstream status and whether the agent has been told of it; `finalizers` the calls
of `finalizeStream` in progress. `StreamLifecycle` has the same streams with their
clients and capacity and no clock.

| Code | Actions |
|---|---|
| `enqueueLineWebhookEvents`, tunnel or channel deleted | `Enqueue`, `Cascade` |
| interval, query for due events | `Poll`, `Select` |
| `claimLineWebhookEventForDispatch` | `Claim`, `ClaimRefused` |
| lookups of channel, tunnel, agent, capacity | `LookupMissing`, `NoAgentOrBusy`, `StartStream` |
| `startBufferedHttpIngress` | `InsertOk`, `InsertFails`, `IngressProceeds`, `SendFails` |
| `markLineWebhookEventRetry` by the poller | `RetrySelected` |
| an await of the batch rejects: `finally` | `Throws` |
| agent messages, session close, stream timer | `OnAgentResponseStart`, `…Chunk`, `…End`, `OnStreamError`, `SessionCloses`, `StreamTimeout` |
| `finalizeStream` after its first await, `markLineWebhookEventDelivered`, `markLineWebhookEventRetryById` | `RequestUpdated`, `Delivers`, `ReadsPending`, `ReadsSettled`, `Retries`, `MarkFails` |
| the clock; the process ends and starts | `Tick`, `GatewayRestart` |

Time is explicit here, because the lease is defined by the stream timeout. A
timer that has run out fires before the clock moves on; an awaited statement or
send takes any number of ticks. `late[e]` counts the ticks an event spent in a
statement that no stream timer limits (claim, lookups, finalizer), up to `Slack`,
the five seconds by which the lease exceeds the timeout. The lookup that finds no
channel or no tunnel marks the event failed, but both references cascade: the row
is gone too, and the UPDATE touches nothing.

The properties name their exceptions, and each is needed: without any one of them
TLC finds a counterexample (for `rearmed`, with an answer allowed; for `twice`, with
two finalizers at once and, for the lease, a slack longer than the retry delay). An answer of the agent
re-arms the stream timer but not the lease (`rearmed`). Two finalizers of one
stream each count an attempt, and the first of them replaces the lease by a retry
delay while the second still runs (`twice`). Statements that take longer than the
five seconds use up the lease (`late`). A stream that ends while
`startBufferedHttpIngress` still sends its request may deliver the event and
leave the poller with a retry to write over it (`early`). `overlapped` records the
events taken up again while an earlier dispatch was in flight.

### WebhookContract

`state[e]` is `absent`, `pending`, `delivered`, `failed` or `deleted`; `LineWebhook` maps to
it by the status of the row (`State`), a row that is gone being `deleted` once it was
stored. `dispatches` are the claims, counted up to the limit; `answered` the events
with a stream whose upstream status is 2xx (`Answered`), `accepted` those with a finalizer that
has decided for delivery (`Accepted`). `disturbed` and `doubled` are the exceptions of
the last paragraph that concern more than time: two parties have worked on the
event, a dispatch of it was ended twice. The contract allows a dispatch of a pending event
only, an outcome `delivered` only after an answered dispatch has ended, `failed` only
after enough dispatches or a double end, another outcome of a settled event only
when it is disturbed, and nothing at all of a deleted one. What is answered or
accepted may be forgotten at any time: a restart, a failing statement.

### StreamContract

`phase[s]` is `new`, `running`, `settling` or `gone`; `answer[s]` is what the client
has got. `StreamLifecycle` maps to it by `Phase`: a used stream is `running` while it is
in the map and no finalizer is at work on it, `settling` while one is, `gone` once
it has left the map; `answer` is `client`. The contract allows only one order: a
stream is admitted once, its answer has at most one head and one end, the head not
after the end, and it leaves the map only when nobody waits for an answer any more.
A stream may end by `Settle(S)` together with others: a closing session ends them in
one step.

### CliAgent

`loop` is the await of the command's loop (token, opening, hello, running,
sleeping, exited), `ws` the state of the gateway socket, `outbox` the sends of
`gatewaySendQueue` not yet settled, `heard[s]` the messages sent about a stream.
`exchange[s]` is the location of the local exchange: an HTTP request (`waiting`,
`responding`, `cut`) or a WebSocket (`opening`, `starting` until the start message is sent,
`piped`, and the ways out of it: `deaf` if it closed before its listeners were
attached, `failed`, `closing`, `orphaned` if the connection went first).

| Code | Actions |
|---|---|
| `createConnectToken`, `onceOpen`, `agent_hello`, sleep | `TokenFetched`/`TokenFailed`, `SocketOpened`/`SetupFailed`, `HelloSent`, `Woken` |
| close and error of the gateway socket, `cleanupStreams`, what `run` does with the code | `CloseEvent`, `ErrorEvent` (with `CleanupStreams`, `ConnectionEnds`, `ReconnectDelay`) |
| messages of the gateway | `Ping`, `StartHttpExchange`, `HandleWsStart`, `IngressChunk`, `IngressChunkRefused`, `IngressEnd`, `GatewayCloses` |
| `WebSocketSendQueue`: head sent, or rejected with all that follows from it | `HeadSent`, `HeadFailed` (with `SendRejected`) |
| events of the local response | `ResponseStarts`, `ResponseData`, `ResponseEnds`, `RequestError`, `ResponseAborted` |
| events of the local WebSocket | `LocalOpened`, `LocalOpenFailed`, `LocalMessage`, `LocalClosed`, `LocalError`, `LocalClosedUnheard` |

The gateway sends what its protocol allows, the local service does what it likes,
and the gateway socket may break at any moment. `Randoms` are the values of
`Math.random()`, in hundredths.

### ControlPlane

`req[r]` is a request: the statement it waits for (`at`), the operation, the cookie or
token, the id in its path, the mode in its body and the mode it has read. Each
awaited statement is an action; a transaction is one too, except the anonymous
tunnel's, whose lock, count and insert are three. `session`, `pat`, `patTokenId`
(tunnels) and `channel` are rows; `cached` and `age` the session cache. `doubt`, `late`,
`stray` and `unclean` are history variables: they name the exceptions of the
properties. One account and one workspace for each anonymous PAT are enough to
tell workspaces apart.

| Code | Actions |
|---|---|
| `auth/register`, `auth/login`, `auth/anonymous` | `Register`, `Login`, `AccountRead`, `InsertAccount`, `CreateSession`, `Provision`, `Provisioned` |
| `requireSessionAuth` with the cache | `SessionRequest`, `SessionRead`, `MemberRead`, `SessionExpires`, `Tick` |
| `auth/logout` | `Logout`, `SessionRevoked` |
| `pats`: create, revoke | `CreatePat`, `RevokePat`, `CleanUp` |
| `requirePatAuth` | `PatRequest`, `PatRead` |
| POST tunnels | `TakeLock`, `CountTunnels`, `InsertTunnel`, `SubdomainTaken` |
| DELETE tunnels; the gateway's grace period | `FindTunnel`, `DeleteTunnel`, `GatewayDeletes` |
| POST and PATCH line channels | `InsertChannel`, `ChannelRead`, `UpdateChannel` |
| a statement is rejected | `StatementFails` |

### RequestLog

Time is in ticks, `TicksPerMs` of them to the millisecond, because `started_at` has
microseconds and a cursor, formatted from a JavaScript `Date`, has not. A row takes
its time when its INSERT starts and is visible when it commits. `times[r]` counts how
often a row was printed; `owed` are the rows the command must print: those that were
there when a walk began, those that appeared after the cursor of a follower.

| Code | Actions |
|---|---|
| INSERT of a row; `cleanupOldRequestLogs` | `StartInsert`, `InsertCommits`, `CleanupBatch`, `Tick` |
| `logs` | `ListFirst`, `WalkPage`, `RequestFails` |
| `logs --follow` | `FollowFirst`, `Stamp`, `FollowPage`, `RequestFails` |

Two consequences of the cursor's resolution are named in the properties, as nothing
in the repository promises otherwise. A walk skips rows that are older than the
last row of a page but of the same millisecond. A follower prints the rows of its
last millisecond again on every poll, and does not get past a millisecond with as
many rows as a page.

## 3. Runs

| Run | Instance | Shows |
|---|---|---|
| `Stream` | 1 stream of any kind, 2 sessions of a tunnel, any number of chunks and messages (1 in flight each way, 1 late), fair | `TypeOK`, `NoOrphanStream`, `ClosedSessionDrained`, `NoHungClient`, `KeepsContract` (refinement), `StreamsEnd`, `ClientsAnswered`, `WaitingHandlerReturns` |
| `StreamCapacity` | 2 streams (`managed`), limit 1 per tunnel and 2 in all, 2 sessions, any number of agent messages (1 late), symmetric streams | `CapacityNeverLeaks`, `LimitsUnlessFinalizedTwice` |
| `StreamLimit` | 3 streams (`http`) without bodies, limit 1 | violation of `TunnelLimit` |
| `SessionsSafety` | 2 sessions of a tunnel, failing database, 1 restart | `TypeOK`, `LatestAgentWins`, `GraceOnlyWithoutAgent`, `DisplacedOnlyWithCause` |
| `SessionsLiveness` | the same, one silent agent, a database that answers, fair | `ConnectionResolves`, `SilentAgentDropped`, `GraceResolves` |
| `WebhookOverlap` | 2 events, 2 stream slots, timeout 1 tick, lease 3, retries 2 and 2 ticks, symmetric events and streams | `LeasePreventsOverlap` |
| `WebhookLiveness` | 1 event, 1 stream slot, 2 finalizers at once, 1 re-arming answer, 1 failing statement, 1 restart, fair | `TypeOK`, `AttemptsWithinLimit`, `SettledStaysSettled`, `KeepsQueueContract` (refinement), `PollerComesBack`, `EventsSettle` |
| `CliAgent` | 1 stream of any kind beside pings, 2 connections, 2 response chunks, 1 request chunk, 4 close codes, both extremes of the jitter, fair | `TypeOK`, `ResponsesWellFormed`, `CleanupLeavesNothing`, `BodyIntact`, `BackoffWithinBounds`, `FinishedReported`, `AgentComesBack` |
| `ControlPlane` | any 2 requests at a time; 1 session, 1 PAT of the account, 1 anonymous PAT, 2 tunnels, cache of 1 entry, good for one tick | `TypeOK`, `LogoutTakesEffect`, `AnonymousLimit`, `RevokedPatLosesTunnels`, `WritesAreAuthorised` |
| `RequestLog` | 3 rows in 3 milliseconds of 2 ticks, pages of 2, retention 3 ticks, cleanup one row at a time | `TypeOK`, `WalkComplete`, `RepeatsWithinMillisecond`, `FollowPrintsAll` |
| `SessionsGraceRace` | 2 sessions, no failures | violation of `DeletedExternally` |
| `SessionsDbOutage` | 2 sessions, failing database | violation of `HeartbeatTimeoutMeansMissedPong` |

Bounds. One tunnel is enough because nothing but the global counter relates two
tunnels, and that counter is exercised by two streams of one tunnel. Two
sessions give takeover and late close events. One stream shows every
interleaving of its own handler, client, agent, timer and finalizers; two show
competition for the last slot; three are needed to exceed a limit of one after
a double release. One chunk in flight each way meets every await of its handler and of
the others; chunks and messages follow each other without end. One late message is
enough for what only late messages do: re-arm a timer that was cleared, or start the
second finalizer. One missed pong allowed and one silent agent
exercise both sides of the comparison. `WebhookOverlap` has no re-arming answers: they are an
exception of its property, and the theorem `LeaseProtects` covers any number; in
`WebhookLiveness` events are delivered, and each exception of `SettledStaysSettled` (an
overlapping dispatch, a stream that ends while its request is still being sent, two
finalizers at once) does set a delivered event back to pending. One restart shows a fresh process over
old rows. Two attempts allowed show a first retry and the last; two stream slots a
second dispatch of the same event beside the first. A lease two ticks longer than
the timeout leaves room for statements that are late without using the slack up.
In `CliAgent` one connection may break and the last one stays, so that what is left
over from the first meets the second; two response chunks show the numbering. In
`ControlPlane` every hazard listed is between two requests; requests are reused, so
a tunnel can be created, found by another request, deleted and replaced. In `RequestLog`
three rows make a page, a second page and a crowded millisecond.
`CHECK_DEADLOCK FALSE` is set for the stream, session, agent and log runs because the
system may stop: clients and agents may be done, a command exits, and the bounds end
the behaviours. The poller never stops and the API always takes requests, so the
webhook runs and `ControlPlane` check for deadlock.

Fairness. Weak fairness is assumed of what the code awaits or schedules: queries
answer or fail, queued sends settle (the backpressure limit of `ws-send.ts`),
armed timers fire, a socket that is being closed emits `close` (the `ws` library
forces it after its own timeout). In `LineWebhook` the poller's steps (its interval
and its awaits), each stream's timer, the finalizers and the clock are fair.
In `CliAgent` queued sends settle, `close` is emitted, the delay ends, and the loop's
awaits return; strong fairness of `TokenFetched` and `SocketOpened` says that the API and
the gateway do not refuse the agent for ever. In `RequestLog` a follower asks again.
Nothing is assumed of the local service, the web application, failures or restarts, nor
of clients and agents, but that the liveness of a stream is conditional on their silence.
Every body chunk, WebSocket message, response start and response chunk re-arms the timer
(`index.ts` 747, 1122, 1218, 1239), so a client or an agent that chats for ever keeps its
stream for ever: an endless event stream or a busy WebSocket is meant to. `StreamsEnd`,
`ClientsAnswered` and `WaitingHandlerReturns` therefore say `FallsSilent(s) => ...`: if
from some time on these four steps are no longer taken of `s`. Nothing in the instance makes
them stop, and without the condition TLC refutes all three. In `LineWebhook` an answer that
re-arms the timer is bounded (`MaxAnswers`), so `EventsSettle` is for agents that do
not answer one request for ever.

Every property of a passing run is paired with a mutant: a definition of the
model replaced by the operator named in `PROJECT.json`, a plausible bug in the
code it models, under which TLC finds the property violated.

## 4. Findings

1. **Capacity released twice** (`StreamLimit`). `finalizeStream` tests the map
   before its awaits and releases after them. Two finalizers of one stream free
   its slot twice; the tunnel then serves more streams than
   `AGENTJ_MAX_ACTIVE_STREAMS_PER_TUNNEL`. The floors in `releaseStreamCapacity`
   keep the counters from going negative, and `LimitsUnlessFinalizedTwice` shows
   that this is the only way past the limits.
2. **A reconnecting agent loses its tunnel** (`SessionsGraceRace`). The grace
   callback does not look at the registry again after its lookup.
3. **A database outage closes healthy agents** (`SessionsDbOutage`). A failing
   tunnel lookup counts as a missed pong.

## 5. Proofs

The proof modules assume only the named assumptions on constants
(`ConstantsAssumption`, `SessionsAssumption`, `WebhookAssumption`, `AgentAssumption`,
`PlaneAssumption`, `LogAssumption`): any sets of tunnels, sessions, streams, events,
tokens and requests, any limits, page sizes and clock resolutions, any timeout with
a longer lease, any bounds.

*Streams.* `TypeOK` is inductive. The safety properties are not: the invariant is
`IInv == TypeOK /\ Bookkeeping /\ Accounting /\ Settling`. `Bookkeeping` ties the id of
a stream to its traces (an unused id is in no map; a used one is in `streams`
until its first release; `streamsBySession` is exact; a registered session is
not closed), without which the release of a stream could not be related to the
counters. `Accounting` says that the counters never exceed the cardinality of the
map and are exact while no stream has been released twice. `Settling` is the
conjunction of the stream properties, with the fact that a handler that sends
the WebSocket end has a closed client. The proof splits `Next` into the steps
that leave the maps alone (one lemma, `QuietInv`, from what they may do to timers,
finalizers and clients), the creation, the release (both by cardinalities of
finite sets) and the session steps.

*Contract.* `Refinement == Spec => KeepsContract`. Every step of `StreamLifecycle` maps to
a step of the contract or to a stutter: steps that change no client and no
finalizer stutter, `CreateStream` is `Admit`, events of the reply are `Begin`, `End` or
`Close`, a first finalizer is `Settle`, the last is `Leave`. `Settling` and `Bookkeeping` of the
invariant are what the last two need: nobody waits for an answer when a stream
leaves, and an unused id has no client.

*Sessions.* `RegistryInv` adds to `LatestAgentWins` and `GraceOnlyWithoutAgent` that an
active session has left `idle`: a socket never opens again. Most steps only close
sockets (`SocketsClosing`); `Register`, `CloseEvent` and `Restart` have lemmas of
their own. `DisplacedOnlyWithCause` follows because only these three write the
registry.

*Webhooks.* That no event is dispatched twice at a time is a matter of clocks, and
`LeasePreventsOverlap` says nothing about them. `LeaseInv` does: for every event to
which no exception applies (`Sound`), there is one stream or finalizer at a time
(`OneDispatch`), and `LeaseLeft`: what is left of the lease is at least the whole
timeout plus the rest of the slack during the lookups, what is left of the stream
timer plus the rest of the slack while the timer runs, and the rest of the slack
while a finalizer runs. A tick takes one from the lease and one from the timer or
the slack, so the inequality stays; a due event has no lease left, so by the same
inequality nothing of it is in flight (`DueIsQuiet`), which is what `Select` and
`Claim` need. `ClaimTimed` charges the time a claim takes to the slack. `SlotsMatch`
and `OneFinalizer` tie finalizers to the streams they end, `Known` says that nobody
works on an event that was never stored, `PollerShape` what the poller's location
says of its variables. `CountInv` proves the limit of attempts: every copy of the
count that may be written back (the poller's snapshot, a finalizer's read) was
taken of a pending row.

*Settled events.* `SettledStaysSettled` is a property of steps, so what is needed is an
invariant that says who may still write the row of an event, and when. For every
event that only one party has worked on at a time (`Clean`), `Undisturbed` says: it has at
most one stream; while a stream or a finalizer of it is about, the row is pending or
gone; what the poller is about to dispatch has no stream, and the poller's copy of it is what
the row says (`Fresh`); while it waits for the finalizer of its own failed dispatch,
that finalizer counts the attempt the poller will count; and a poller that is about to
write a retry (`markLineWebhookEventRetry`, which names the id alone) finds a
pending row, or one that the same count settles again. `SettleInv` is its conjunction
over the events; it uses `OneFinalizer` of the lease invariant.

*Claims and attempts.* `GivenUpAfterAllRetries` compares the count in the row with the
number of claims, but the count is written from copies. `Balance` keeps books: the attempts
in the row, in the poller's snapshot, or in a finalizer's memory, plus the streams that
may still count one (`Load`, the cardinality of a set of slots) and the claim that has led to
nothing yet (`Asked`), are never more than the claims. A claim pays for one stream or one
retry; a stream that leaves the map pays for the attempt its finalizer counts. A
dispatch that fails while the request is being sent passes its claim from the stream on
to the poller (`Ended`): both write a retry, with the same count. The books hold until a
stream of the event is finalized twice or the claims have reached the limit, where the
count of claims stops.

*The queue's contract.* `QueueRefinement == Spec => KeepsQueueContract`. One lemma per kind of
step: `Enqueue` is `Store`, `Claim` is `Dispatch`, a re-armed stream is `Answer`, each call of
`finalizeStream` is `End`, `Select` is `PickUp`, `RetrySelected`, `Retries` and `Delivers` are `Record` if
the row is there, `Cascade` is `Delete`; a finalizer that ends without writing and a
restart are `Lapse`; the rest stutters. `Served` says that whoever works on an event
works on a claim of it and that only a stream answered with 2xx is recorded as
delivered. `Record` is where the other theorems are spent: `GivenUpAfterAllRetries` in the
next state allows `failed`, `Undisturbed` allows the outcome of an event that is settled.

*Agent.* `TypeOK` gives the bounds of the delay only with a lemma about powers of two
(positive, as the number of subsets of a set; `DelayBounded`).
`CleanupLeavesNothing` is not inductive: `Placed` ties each location of an exchange to
the map that holds it and to the connection it came in on, so that a cleaned-up map
leaves no exchange at work; `Exchanges` is its conjunction over the streams.
`BodyIntact` is inductive with `Exchanges`: an open HTTP exchange is in
`pendingHttp`, so every chunk that arrives before the end is passed on (`Passed`).
`BackoffWithinBounds` needs that the delay was computed from the attempt it is stored
with (`SleepBounded`). `ResponsesWellFormed` speaks of what the gateway has heard, the agent
writes to a queue, and either may be ahead of the other by any number of messages:
`Wired` says of each stream that every part of a body that was heard stands at its
number, with only such parts before it, and a chunk or an end not without the start
(`HeardInOrder`); that on an open socket what is queued continues it
(`QueueInOrder`, `Fits`), and that before the exchange has begun nothing of it is heard or
queued (`Untold`). Sending the head of the queue moves the border between the
two, appending extends the second; once the socket is closed, only what was heard counts.

*Control plane.* `WellFormed` says what a request carries at each await. `LockProtects`
is the heart of `AnonymousLimit`: whoever counts or inserts for an anonymous user
holds the lock of the workspace, and no tunnel has come since it counted none. It
survives other requests' failures, deletions and inserts because only the holder
inserts. `CacheKnows` ties the cache to sessions being logged out: an entry of such a
session was made late, and its doubt is no greater than its age.
`RevokedPatLosesTunnels` follows from the types, `WellFormed` and the step.
`WritesAreAuthorised` is about two statements, the lookup of a row in the workspace of the
token and the write that names the row by its id alone (`tunnels/[tunnelId]/route.ts`,
`line/channels`). It is inductive with the types and `WellFormed`: a request comes to a
write only by a lookup that found the row its own (`FoundIsOwn`); a new tunnel has an id no
request refers to (`InsertedIsFresh`); any other step leaves the owners alone or deletes
rows (`WritesKept`, `OthersWrite`). It says nothing of what the lookup read: of two
PATCHes of a channel at once the later writes back fields the earlier has changed.

*Request log.* A finite set of rows has a newest and an oldest one: the strict
subset order on the sets of newer (older) rows is well-founded (`ExtremesExist`). So the
last row of a page exists and what is left out is older (`NewestPage`). The invariant
says of a walk that the cursor stands before every row printed and behind every row
owed and not printed, up to the named exception (`Walking`), of a follower that no
row printed is of a later millisecond than the cursor (`Following`).

Left to TLC: liveness (it needs fairness and ENABLED) and the violated properties.
Every safety property of a passing run is a theorem.

## 6. What is left

1. `AgentSessions`: an abstract registry it implements; the rows of `tunnel_sessions`.
2. `SendQueue` for the gateway: the tail of a WebSocket response, which is closed at
   once while earlier chunks may still wait in its queue.
3. The updates of a request row by handlers and finalizers that do not wait for its
   INSERT.
4. Composition of agent and gateway over a channel that may break.

## 7. Not modelled

- User interface, SDK, migrations, deployment and examples: presentation, or input
  and output without state of their own.
- One-shot CLI commands and the token store. Among them is the preparation of
  `line init`: it lists and stops the tunnels of the token, and on any error, not only
  a rejected token, provisions a new anonymous account and overwrites the token
  (`commands/line/init.ts` 61-75). Its reconnect loop is that of `CliAgent`.
- Calls of the LINE Messaging API: forwarded with a fresh retry key and an audit row;
  no state of the gateway or the database depends on them.
- Connect tokens (signed, with no state in the database) and the tunnel status
  derived from heartbeats; rows of `tunnel_sessions`; audit rows.
- The contents of request rows and their updates, the stored payload chunks and their
  truncation; the bytes of a stream, their order in the gateway's send queues, and
  `bufferedAmount` (a queued send settles or fails).
- zod parsing of messages, host names, headers and log wording: data that no
  property tells apart.
- Passwords, the rate limit of anonymous provisioning per address and the pruning of
  abandoned anonymous users.

Time is abstract in `StreamLifecycle`, `AgentSessions` and `CliAgent`: a timer may fire at
any moment while it is armed, so a property that depends on the lengths of two
timers is stated in `LineWebhook` alone. There, a retry delay counts from the moment
its statement is applied, and an event may count as due that became due while the
query waited. In `ControlPlane` ticks only age the cache, in `RequestLog` they date rows.
