# ai-connect in TLA+

ai-connect is a chat front end for several LLM providers: a server (`llm-http`)
that talks WebSocket to browsers (`llm-ui`), stores conversations in Postgres
(`llm-db`) and streams answers through a gateway library (`llm-gateway`).
This directory models what runs concurrently in it - the chat turn at both ends of
the wire, the gateway, the administration routes and the screens that call them -
and checks it with TLC and TLAPS.

`PROJECT.json` names, for every definition, the source lines it stands for; the
runs with their properties; a mutant of the code for each property; the
disagreements found between code and documentation; and the hazards the
properties are for.

## 1. Inventory

### llm-http: one server process

| Component | State | Operations | What makes it correct |
|---|---|---|---|
| `ConnectionSession` (chat-v2) | owned request ids, subscriptions, the socket | `start`, `handleChatSend` (five awaits), `handleChatAbort`, `dispose`, one handler per event | a client reads only its own requests, one terminal message each, and can abort what it is being sent |
| `ChatHandler` | `active`: one abort controller per request | `onChatRequested` (the stream loop), `abort`, `dispose` | every stream ends, with one terminal event, blamed on the right party |
| `MessagePersister` | `pending` buffers | one handler per event, with awaited appends | an answer is stored once, whole, and only if it completed or was aborted |
| `UsageRecorder` | `pending` contexts | one handler per event, with an awaited insert | a turn is billed at most once, and only if it completed |
| `EventBus` | subscribers | `subscribe`, `publish` | publish waits for every handler; a failing one harms no other |
| repositories | rows in Postgres | create, get, append, updateTitle, touch | - |
| process | `up` ... `exit` | SIGTERM handler | what was running is stopped in order |
| administration routes: members, workspaces, templates, guardrail policies, users | rows in Postgres; a handler's local variables between its awaits | one handler per route, a query or transaction per await | a reply says what was so; a refused request changed nothing; members keep a role |
| provider administration | `providers`, `provider_catalogs`, `workspace_providers` | create, update, rotate, delete, check; rows to configuration; attribution of usage | a stored key goes to its own base URL only; what is billed is what is loaded |

### llm-gateway: a library inside that process

| Component | State | Operations | What makes it correct |
|---|---|---|---|
| `CircuitBreaker` (one per provider) | state, failures, half-open count, openedAt | admit, record success or failure | opens for cause, tries again, lets few trials through |
| `RetryDecorator` (one per call) | the attempt counter | attempt, back off | ends; retries only what is worth it |
| `Router` | health per provider | mark, select | health agrees with the breakers |
| `LLMGateway` calls | timeouts, idle timers | chat, stream | a call ends; only provider faults cost a provider its health |
| `LLMGateway` registry | `rawProviders`, `circuitBreakers`, the router's map, `activeConfigs`, `pendingDisposes`, `refreshInFlight` | ensureFresh, refreshFromSource, applyLoadedConfig, deferDispose, dispose | the registry is one snapshot of the source and fresh as of the TTL; each instance is disposed once and not under a quiet stream |
| `FallbackChain` (SDK callers) | the index of the provider | attempt, move on | ends; falls back only on what another provider may do better |
| provider adapters (OpenAI, Anthropic, MiniMax, Ollama) | read buffer, tool calls being put together | translate requests, streams and errors | the chunks are the vendor's answer, in order, and its end is the vendor's |
| guardrails engine | the request being rewritten, the moderation client | run the checks of a policy over a request | a block stops the request; redaction loses no segment |

### llm-ui: the browser

| Component | State | Operations | What makes it correct |
|---|---|---|---|
| `WsClient` | the socket, timers, pending aborts | connect, send, abort, reconnect, dispose | one socket at a time; it reconnects; it stops when disposed |
| chat reducer | messages, drafts per request | one case per action | every token lands in the draft of its request |
| `ChatScreen`, `useChatSocket` | active conversation and its ref, history fetches, the state last rendered | send, stop, switch, new chat, unmount | the thread shown is the conversation's; the composer does not stay busy |
| HTTP client, auth context | the token | calls, 401 | a session known to be over is not used again |
| administration screens: providers, templates, workspaces, workspace detail with its tabs | lists, dialogs, what is busy, sequence counters | load, write, patch or refetch, navigate, close | once every answer is in, what is shown is what the server has |

### How they interact

A `c.chat.send` runs through `handleChatSend` and becomes `chat.requested` on the
bus. The chat handler answers with `stream.started`, pulls chunks from the
gateway and publishes each as `token.generated` or `stream.completed`; an error
ends in `stream.failed` or `stream.aborted`. Session, persister and recorder each
subscribe and keep a map of their own keyed by request id. They never call each
other: what the client reads, what is stored and what is billed agree only if
three maps are driven by the same events in the same order. In the gateway, a
call is resolved by the router to a breaker-wrapped provider, wrapped in a fresh
retry decorator; breaker and router are shared by all calls, and are updated at
different places of a call. On the server the gateway takes its providers from the
`providers` table (`DbProviderConfigSource`): the first call after `refreshTtlMs`
loads it, the calls that arrive meanwhile share that load, and changed providers
are swapped while calls still hold the old ones. A call's request first passes the
guardrails of its policy, and its answer comes through one vendor's adapter.

The administration routes write the tables the other parts read: memberships decide
whose `c.chat.send` is taken, provider rows become the gateway's configuration and
decide whom a turn is billed to. Their handlers share nothing but the database, and
each goes through several queries. In the browser, the console's screens call those
routes with any number of requests in flight, and the chat screen holds one socket
at a time to a chat session.

### What is hard

- Node runs one callback at a time, so the unit of interleaving is the code
  between two awaits. Between any two, a socket may close, a client may abort,
  a database call may fail, SIGTERM may arrive.
- An event's synchronous handlers finish before anything else runs, its
  asynchronous ones do not; the chat handler waits for them before it pulls the
  next chunk.
- A stream may go on after its finishing chunk (retries, several choices), so
  several terminal events can be published for one request.
- An attempt's verdict reaches a circuit breaker that has changed since the
  attempt was admitted; the breaker and the router's health can drift apart.
- A refresh displaces providers that streams still use; their disposal timer
  races the streams' idle timers, and a load in flight races `dispose()`.
- Nothing is recovered after a crash: an unhandled rejection in
  `handleChatSend` ends the process.
- An administration handler reads, awaits and then writes; only some writes are in a
  transaction, and a constraint behind a check may compare other things than the
  check does.
- The browser's callbacks read what React rendered last, the reducer has gone on by
  then; what is on its way is lost with the socket; a fetch of the history answers
  into whatever conversation is open by then.
- A screen's answers come in any order and after tab, page, route or session have
  changed; each screen has its own way to keep old ones out.
- A vendor's stream is cut anywhere by the network, ends in the vendor's own way, and
  may fail after it has said everything; a retry then says it again.

The full list, each at its line, is under `hazards` in `PROJECT.json`.

## 2. Modules

```
ChatBase ── constants and conv, shared by the four components
  ├─ ConnectionSession      the sessions of all sockets
  ├─ ChatHandler            active requests and their streams
  ├─ MessagePersister       buffers, awaited appends, messages table
  └─ UsageRecorder          contexts, awaited inserts, usage table
ChatTurn ── EXTENDS the four: the server process, events, Next, properties
  └─ INSTANCE TurnContract  what the server promises about one turn
MCChatTurn ── ChatTurn with the users of each connection, for TLC
ChatTurnProofs ── types, invariants and refinement; what the sessions own, read
                  and leave behind

CircuitBreaker ── the breaker's four variables and its methods
GatewayCalls ── EXTENDS it: calls, retries, router health, timeouts, aborts
GatewayProofs ── types and the safety of breaker and router

ProviderRegistry ── instances, registrations, deferred disposal, apply
GatewayRefresh ── EXTENDS it: the source, shared loads, calls, dispose
MCGatewayRefresh ── GatewayRefresh with its symmetry, for TLC
GatewayRefreshProofs ── all its properties, proved

AdminDb ── the administration's tables and the requests in flight
  ├─ MemberAdmin            members, roles, lists read by two queries, registering
  ├─ WorkspaceAdmin         workspaces, templates, policies, provider switches
  └─ ProviderAdmin          providers, the check, configuration, attribution
AdminServer ── EXTENDS the three: requests over one database, what replies claim
MCAdminServer ── one workspace, two providers, the requests of three users, for TLC
AdminProofs ── all its properties, proved

WsClient ── the browser's socket, its timers, the intents to abort
ChatStore ── the reducer, as operators
ChatClient ── the chat screen over both, against a server that is
              INSTANCE TurnContract
MCChatClient ── its sockets and sends, for TLC
ChatClientProofs ── lifeline, thread and replies, proved

Guardrails ── a policy's checks over the text of a request, as operators
StreamAdapters ── four vendors' answers and what becomes of them
RequestPipeline ── EXTENDS both: one call, retried or falling back, abortable
MCRequestPipeline ── policies, requests and every short answer, for TLC
PipelineProofs ── what is sent is guarded and what is heard is what arrived, proved

ConsoleCalls ── the server as the browser sees it, the HTTP client, the session
  └─ ProvidersConsole ─ LibraryConsole ─ WorkspacesConsole   each EXTENDS the last
WebConsole ── the screens together and what they show;  MCWebConsole
ConsoleProofs ── nobody waits in vain, proved
ShownProofs ── what is shown is so, proved
```

**Events.** `publish` starts every handler in a microtask, so the synchronous part
of all handlers of one event runs before any other callback. An event is
therefore one action of `ChatTurn` (`Ask`, `Chunk`, `FinishChunk`, `Throw`,
`Blocked`) that conjoins `<Component>On<Event>` of every subscriber. Each awaited
database call is an action of its own (`StoreUser`, `StoreAssistant`,
`StoreUsage`), enabled by the job variable the handler left. `AfterCompleted`
and `AfterAborted` are `publish` returning to the stream loop. A chunk that
carries both text and a finish is one step: the publish of its token awaits only
synchronous handlers, so nothing but microtasks separates the two events. Its two
messages are checked against the backpressure limit one by one (`Forward`): the first may
be written and the second, the end, dropped.

**handleChatSend** is `sending[r]`: `opening` (conversation lookup or creation),
`reading` (template and transcript), `checking` (policy and guardrails), then
`asked`, `blocked` or `rejected`. Several awaits in a row with no effect between
them are one wait. The request id is the model's key from the start, although the
server mints it in `OwnRequest`; nothing reads it before.

**The gateway, to ChatTurn,** is any stream: text and non-text chunks, finishing
chunks anywhere, an end with or without one, an error at any time. This covers
what retries and provider adapters do to a stream.

**GatewayCalls** is the other side: a call is `ready` (about to attempt),
`running`, `doomed` (attempted with an aborted signal) or in `backoff`. `Attempt`,
`Answer`, `Fail` and `Rejected` are where the breaker is asked and told; `Return`
and `Throw` are where the router is told. The breaker's clock is the boolean
`cooled`: whether the reset timeout has passed since the circuit opened. A
caller's invalid request and any other error that is not retried are `"fatal"`.
`probing` and `silent` are history: the trials of the present half-open episode,
and whether one of them ended without a verdict.

**ProviderRegistry** keeps the instances a gateway built. The code changes
`rawProviders`, `circuitBreakers` and the router's map together, so `raw` stands
for all three; `health` is the router's second map. Instances are slots of their
name and a slot is used again once nobody refers to its instance (`Collect`);
`Room` bounds how many of a name exist at once. `deferDispose` waits for
`streamIdleTimeoutMs`, a stream for `options.timeout ?? streamIdleTimeoutMs`
(`gateway.ts:621`); `Patient` are the calls whose own timeout is the longer. When a
disposal timer is set it is known to outlast every idle timer that runs by then but
for those of patient calls: `outlasts[i]` is the set of these calls, a call leaves it
when its timer is set anew or cleared or fires, and the disposal timer may fire when
the set is empty. A call whose timeout is shorter only times out sooner, which `Expire`
allows at any moment. Time needs no clock.

**GatewayRefresh** adds `ensureFresh` and the calls. `ensureFresh` is `EnterFresh`,
`EnterStart` or `EnterJoin`, by whether the configuration is fresh and a load is
shared; a load is asked, read (the query's snapshot) and then ignored, applied,
rejected by a constructor or failed, each with the `finally` that clears
`refreshInFlight` (`Settle`). `resolveProvider` runs after the await, on the registry
as it then is. `dispose` has one await, between `Dispose` and `Disposed`. The calls
are streams; `chat()` differs in a timer no chunk resets. `tripped` holds the
instances whose circuit has opened once: whether it is open again by the time a
fault is blamed is left open (`GatewayCalls` has the breaker in full).

**AdminServer.** A request is a frame: what is asked, the statement it awaits (`at`)
and what its handler remembers (`saw`). An action is the code from one await to the
next together with the statement awaited: a query, a write with its constraints
and cascades, or a whole transaction, which Postgres makes one step. `Fail` is an awaited call that
rejects, wherever that is. `truths` collects, for each request in flight, which of
the claims its replies could make held at some moment since it began. The
transactions over memberships are the exception: their statements are steps of their own
at read committed, each sees what is committed when it starts, and waits for and then skips
the rows another transaction has deleted (`lock`, `want`, `cut`); the last insert
commits. A row's `updatedAt` is a millisecond and a microsecond within it: `defaultNow()` of
an insert sets both, an update writes JavaScript's `new Date()`, which has the first only.
The two clocks need not agree, so a stamp may be older than the ones before it.
`SortsBefore` is the database's order, by both and then by uuid; `Newer` is the sort in
`db-provider-config-source.ts`, by the millisecond and then by `localeCompare`; the two orders
of ids are separate constants.

**ChatClient.** A server message is handled in one step: `Deliver` runs the socket's
handler, `useChatSocket`'s and the reducer. What callbacks read is `seen`, which lags behind `store`
until `Render`; a click renders at once. The server is `INSTANCE TurnContract`, the
contract `ChatTurn` is shown to implement, which is what composes the two: `Progress(k)`
is a step of the contract for send `k` and puts its messages on the way. What the client
writes is received at once; the answer may take any time. `FallSilent` is the stream that ends
without a chunk that has both finish and usage, as every stream of OpenAI does: the turn stays
`running` for the client, nothing more comes of it, and an abort finds no controller
(`mute`). Backpressure drops are in `ChatTurn` and left out here. Sockets and sends are
numbered in order of use.

**Guardrails and StreamAdapters** are operators over short sequences. A text is a sequence
of atoms and a detector the set of words it finds, so a regular expression is known
by its spans; a redacted span becomes one `Mask`. Most patterns find their words wherever
they occur; those of `Bounded` do only where `Stands` says so of the text around them, which
is any predicate: a blocklist's terms are between `\b`, and a card number is matched
greedily and put to the Luhn test. `apart` are the fields of a request that no check scans:
model, stop words, names and choice of tools, the response schema, ids of tool calls
(`temperature` and the like are numbers and left out). A vendor's answer is a sequence of
messages; for the adapters that cut lines out of bytes it arrives by half lines. The
opening of a tool call carries arguments or none.

In **RequestPipeline** a call is `fresh` until the gateway has made its signal, which is after
`await ensureFresh()`: `AbortEarly` is the caller's abort before that, `MakeSignal` looks at
it for a stream and not for `chat()` (`gateway.ts:565-594`, `:639`), and from then on `Abort`
is the caller's or the timer's. It runs its checks one by one, then attempts; `Own` is what the
process does, `Vendor` and `Moderator` what others answer. Breaker and router are taken as
letting the call through: they are in `GatewayCalls`.

**WebConsole.** `ui` is the mounted screen, `flight` its requests: each is sent, then
served (the server's step) and then answered, lost or failed; a request remembers
what its closure captured (`memo`), whether it is the latest of its kind and which
component it belongs to. A row's content is the number of the write it is from, so a
stale row shows. A request whose component is gone only matters while a 401 may still
end the session, so then it is kept among `strays`. What the connection check answers
is shown by nothing but `checking`. A provider without a switch is off. Ids are never
used again.

**History variables** (`wire`, `dropped`, `outcome`, `said`, `probing`, `silent`;
`fed`, `snapAt`, `applied`, `appliedAt`, `lapsedAt`, `kept`; `truths`, `probes`, `pairs`;
`strayed`, `crossed`, `lateCreated`; `skipped`, `altered`; `excused`) are written and never
read by an action's guard, but for `wire` in `ChatAbort`: a client can name a
request only after it was told of it.

## 3. Runs

| Run | Instance | States | Shows |
|---|---|---|---|
| `chat_turn` | 1 connection, 1 request, 2 chunks, every fault | 96,357 | seven safety properties, the refinement of `TurnContract`, four liveness properties |
| `chat_pair` | 2 users, 2 connections, 2 requests, 1 conversation, 1 chunk | 1.4 million (symmetric) | isolation between users; a client can abort what it is sent |
| `gateway_calls` | 1 provider, 3 calls, threshold 2, 1 half-open request, 1 retry, every mishap | 56,781 | the breaker and the router agree and every call ends |
| `gateway_refresh` | 2 names, 2 configurations, 2 slots, 2 calls (one pinned and patient), 2 loads, 2 edits | 264,564 | the registry under refreshes, failing constructors, a racing dispose and calls in flight |
| `admin_server` | 3 of 38 requests, 2 at a time, 1 failing call | 599,563 (symmetric) | replies, refusals, roles, keys and billing under interleaved handlers |
| `chat_client` | 2 sends, 2 sockets, 1 old conversation, 3 clicks, 1 token a turn | 738,718 | drafts, socket and thread against the server's contract; the composer is freed unless a turn fell silent |
| `request_pipeline` | 2000 guarded calls and 12 that answer at length | 156,377 | the scanned fields are sent clean, each attempt tells what arrived, an aborted signal ends the call |
| `web_console` | 2 writes, or 1 and a way back, or 1 and a fault; 3 requests at a time | 227,792 | what is shown is so, and nothing waits in vain |
| `chat_close`, `chat_silent_end`, `gateway_abort`, `gateway_recover` | smallest instance | - | each a disagreement between the code and what the repository says of it |

*Why the bounds suffice.* Requests share nothing but the conversation and the
session, so one request with every fault explores the life of a turn, and two
requests of two users explore what they share. Two chunks are enough for a
finishing chunk before, after and without text, and for a second completion.
Three calls are enough for one admitted while the circuit was closed to report
into the half-open circuit of a second while a third is rejected; a threshold of
two separates counting from tripping. Providers do not interact: each has its
own breaker and health, and a call has one provider.

A refresh treats each name alike and reads
nothing of another but through the failure of its constructor, so two names are
enough; two edits give a
gateway its first configuration and then a change or a removal of it, with the
TTL passing any number of times around them, and two slots let one displaced
instance coexist with its successor. Two calls are one that holds an instance
while the other enters.

`admin_server`: a race takes two requests and a third to make the row they race for
or to see what they left, so three requests, two at a time; one workspace with a member
and two providers of one kind are a row for each race. The failing call may be any.
`chat_client`: a
second send while the first is answered is what crosses drafts, a second socket what
a reconnect means; an old and a new conversation are the two ways to switch. Three
clicks are two sends and one stop or switch between, before or after. An
authentication limit of two tells a streak from a single failure.
`request_pipeline`: every policy of two of ten checks (each kind, each action, a threshold, a
moderator that fails open or closed, a disabled one) over five requests full of things to
find, some run together so that a mask sets one free, along four chains of providers; then
the lawful answers of each vendor of up to three lines or four events, streamed
through retries and fallbacks, cut anywhere (`Orderly` leaves
out those that only repeat a call or go on after a fault; the proof has them all).
`web_console`: its nine excused cases each need two writes at most, one way back or one
fault, and two rows tell a page from a list; adding members
is opened over one tab and tabs are picked once the members are there, since both behave alike
over every tab. Each case was left out in turn and found to be needed within these
bounds, but for `undone`, which needs two writes and a failure and was confirmed on a
larger instance of the one tab.

`CHECK_DEADLOCK FALSE` stands where the modelled world really
stops: in the chat runs (exit, crash, all clients gone and nothing left to do), in
`chat_client` (the user has clicked enough), in `request_pipeline` (the call has ended), in
`web_console` (the bounds are spent), and in the violation runs.

### Fairness

- `ChatTurn!Fairness`: weak fairness of `handleChatSend`'s steps and of the
  database's answers (drivers time out), of the stream (the gateway's idle
  timeout ends one that stalls) and of the shutdown once begun. None for the
  client, SIGTERM or a crash. Each is per request, since requests are separate
  promises.
- `GatewayCalls!FairSpec`: weak fairness of each call's progress and of the
  passing of time. `DemandSpec` adds, for `gateway_recover` only, that callers
  keep asking for every provider the router offers (strong fairness of `Begin`):
  without demand, a circuit that nobody tries refutes nothing.
- `ChatClient!Fairness`: weak fairness of the delivery of what has arrived, of React's
  render and of each turn at the server, which answers every send and ends every stream
  (`ChatTurn`'s `SendsResolve` and `StreamsEnd`, under its own fairness), with a message or, as
  `chat_silent_end` shows, without one. `BusyEnds` therefore has a second way out: over a socket
  that stays open the composer stays busy with a send whose turn fell silent (`Hanging`).
  None for the user, nor for the network, which may close a socket any time.
- `RequestPipeline!Spec`: weak fairness of what the process does once it can go on;
  none of the vendor, the moderator or the configuration's source, who may stall:
  `AbortEndsCall` holds against a vendor that never answers again, as the aborted signal
  reaches the adapters' own reads, and excepts a call that waits for a moderator
  (`moderation-check.ts:33` passes no signal and has no timeout). It speaks of the gateway's
  signal: an abort before that was made is lost for `chat()`.
- `AdminServer` and `WebConsole` state no fairness; their properties are invariants.

### What the violated runs show

1. `chat_close`: a socket that closes during `handleChatSend`'s awaits leaves a
   stream nobody hears and nobody aborts.
2. `chat_silent_end`: a stream without a finishing chunk publishes no terminal
   event.
3. `gateway_abort`: aborts count as failures of the provider.
4. `gateway_recover`: a provider marked unhealthy is never selected again.

### Also met while modelling

Each of these is what a module does because the code does it; no run of its own checks it.

*Gateway.* Failures are counted over all time, not in a row
(`docs/project-overview-pdr.md:47` says "5 consecutive failures"). `:48` says three
successful probes close a circuit and
one does; `core/config.ts:45` says `halfOpenRequests` requests are let through and
one more is (`TrialsBounded` states the true bound); an empty or abandoned stream
keeps its half-open slot for good (`HalfOpenAwaitsVerdict` excepts it);
`docs/project-changelog.md:201` says in-flight streams complete before their
provider is disposed, and `gateway.ts:305` that the idle timeout bounds how long they
live, but a stream outlives the disposal if it has a chunk after the swap, or an
`options.timeout` longer than `streamIdleTimeoutMs` (`:621`; `DisposedAfterIdle` excepts both;
harmless as long as the adapters inherit the empty `dispose` of `base-provider.ts:41`). The
signal of `chat()` never looks whether the caller's is aborted already (`:565-594`; that of
`stream()` does, `:639`), so a call aborted before it began, or during `await ensureFresh()`,
runs on until its timeout.

*Shutdown.* The process exits with streams running and appends in flight;
`docs/project-changelog.md:149` says "In-flight graceful shutdown: streams complete
before persister closes".

*Adapters and retries.* OpenAI sends usage in a last chunk without choices, which is skipped: the
stream ends silently. MiniMax's `[DONE]` yields a second finish, `stop`
without usage, even after `length`. A last line without its newline is lost: for Ollama
that is the end of the answer. Ollama's stream drops tool calls and always says `stop`. A
stream that fails after its finishing chunk is retried, and the whole answer and its
completion come again; so do the texts of any retried or fallen-back stream, whose earlier
chunks the caller keeps (`retry-decorator.ts:93-125`): `AnswerIsFaithful` is about one attempt.
Arguments that come with the opening of a tool call are stored and told by nothing
(`openai-provider.ts:141-166`: the start says `""`, the stored call is never emitted). OpenAI and
Anthropic wrap an abort as `PROVIDER_ERROR`, which is retried once, after the whole backoff,
before `checkAbort` ends it. No adapter sends an assistant's tool calls; Anthropic keeps
the last system message only; MiniMax drops images and tools, Ollama images by URL. The
base class never deletes the start time of a stream that succeeds.

*Guardrails.* Injection and moderation with the action `redact` only warn. All redactions in the
parameters of a tool are given up if one of them breaks the JSON. A text over the limit
skips the blocklist, and a mask put in before may be what takes it there. Moderation reads the
first 8000 characters. `guardrails/types.ts:20-24` says "The scan surface is the whole
`ChatRequest`", but `extractSegments` knows message texts, descriptions and parameters of tools,
arguments and `user` only: a response schema, stop words, the names of tools and the chosen one
leave unscanned (`openai-provider.ts:209-230`). A check looks once: a term it did not find
because it ran into a number (`\b`) stands free once a later check has masked the number.
`SentIsGuarded` says so: it lists the fields, and excepts bounded words in texts that were masked since.

*Administration.* Two concurrent `replaceRoles` of one member leave the union; one racing a
`remove` leaves role rows without a membership, and adding the member again with such a role
fails with 500. The unique key "backstop" of provider names
(`drizzle-providers-repository.ts:125`) misses equal names of different kinds or spelling that
the service's check refuses. `me-default-model-routes.ts:21` "Mirrors the gateway's
load rules" but also returns models of kinds that are never loaded and of rows that lose.
An update is answered 500 after its write if the row is deleted before it is read back.
Usage is attributed when the stream has ended and may name a provider that did not serve it.
`active-provider-resolver.ts:27-31` says that the billed row and the loaded one differ only if
two rows share an identical `updatedAt`; they may if they share its millisecond, since the
database orders by microseconds and the gateway's sort does not see them
(`db-provider-config-source.ts:47-49`). `BilledRowIsLoaded` is exact up to such rows.
A membership is asked for without looking whether the workspace is deleted.

*Chat client.* Opening a conversation while a send is pending orphans the send: its
`s.chat.started` binds the next send's draft, and its buffered abort is never flushed
(`chat-screen.tsx:78`, `chat-reducer.ts:62`). An `s.error` that answers an abort of an
ended request, or an `s.chat.failed` of an unknown one, is blamed on the active draft
(`:266`, `:221`). A stop pressed between the dispatch of `s.chat.started` and its render is
buffered and never sent (`use-chat-socket.ts:115`). A history that arrives after a send wipes
its draft (`chat-screen.tsx:85`). A late `s.conversation.created` takes the user out of the
conversation open by then (`:66`); one that is lost leaves the next send to create a second conversation. A
lost `s.chat.started` leaves the composer busy until the socket closes or the user goes on. A refused upgrade
(401) is close code 1006 to a browser, so `AUTH_FAIL_CODES` never counts it
(`ws-client.ts:49`). A timeout's abort is shown as the user's.

*Console.* `providers-screen.tsx:16` "refetched after every mutation" is not so when rotate-key
fails after the PATCH, and two refetches may land out of order. Closing a dialog when a write's answer
comes closes whichever dialog is open by then. `workspace-detail-screen.tsx:44` "only the
latest request may write state": a `loadMembers` captured under the old id takes the next
number and writes the old workspace's members under the new route; `onUpdated`
shows the old one's row there; `onDeleted` navigates away from wherever the user is. The providers
tab keeps one `busyId`, so a row can be toggled twice and its PATCHes cross. The templates
tab goes back to `prev` on a failure and undoes what came between. A template created
while the library loads is dropped or shown twice. Each render of the list wipes the form
of the dialog that creates a workspace, `submitting` with it. `workspaces-list-screen.tsx:60`
"jump to the page holding it" fails when the last page is full: `setPage` renders over the old
listing, whose effect (`:48-52`) sets the old last page again; two loads go out, the
first superseded, and the new row is on a page that is not shown. A late 401 of an old session
ends the new one (`http-client.ts:73`, `auth-context.tsx:62`). The connection check's verdict
may be shown next to credentials it did not test (`provider-form.tsx:73`).

## 4. Proofs

TLAPS proves, for every value of the constants (the assumptions are
`ChatAssumption`, `CircuitAssumption`, `CallAssumption`, `RegistryAssumption`,
`RefreshAssumption`, `WsClientAssumption`, `ChatClientAssumption`, `GuardrailAssumption`
(the mask is a text and not empty, the limits are numbers), `PipelineAssumption` (requests and policies
have their types, a detector's words are finitely many), `AnswerAssumption` (vendors
keep to their protocols: `Lawful`), and `AdminDbAssumption`,
`ProviderAssumption`, `StampAssumption` (there are at most 1000 microseconds to a millisecond),
`OrderAssumption` (each of the two orders of ids has a first in every set),
`InputsAssumption` and `InitAssumption` of the administration, and
`ConsoleAssumption` (rows have numbers, and those of rows to come are free), which TLC
evaluates on every run of their module). Type invariants are theorems and no properties of runs.

- `ChatTurnProofs`: `TypeCorrect`. A step of the server is shown to be a step of
  each component (`ComponentSteps`), and each component keeps its own types.
  `TurnsCorrect` is the inductive invariant of a turn, and from
  it follow `AnswersAreKeptOnce`, `TurnsAreBilledOnce`, `RefusalsLeaveNoTrace` and
  `ImplementsContract`. The properties are not inductive: that an answer is stored
  at most once follows only if one knows that a request with a pending entry has
  no append in flight and no row, that an append in flight holds all text said
  before the end, and that an entry exists only between the request and its first
  end. The invariant states this per request, relating `pending`, `buffer`,
  `answerJob`, `answers`, `outcome` and `said` (and likewise for the recorder);
  the refinement then shows each action to be an action of `TurnContract` or a
  stutter.
- `GatewayProofs`: `GatewayTyped` (with: no call exceeds `maxRetries`),
  `OpenOnlyForCause`, `RotationAgrees`, `TrialsAreBounded` and `HalfOpenIsAwaited`.
  The first three are inductive once a call that has begun is known to have a
  provider. The last two rest on `HalfInv`: every trial is in flight, there are at
  most `trials + 1` of them while the circuit is half-open and none otherwise, and
  at least one unless a silent end spoiled the episode. One lemma per kind of
  step: an admission, a verdict, and a step that is nothing to the breaker.

- `GatewayRefreshProofs`: all properties of `gateway_refresh`, from three layers.
  `Typed`, `SingleFlight` and `Timers`: at most one load is under way and it is the
  shared one, whoever waits waits for it, and only running idle timers are
  outlasted. `InstanceInv`: what is registered or pending exists under its own name,
  and every instance is in one of the states of `InstancesAccounted`; the apply that
  succeeds and the one that fails halfway have a lemma each, since the slots they
  take are chosen (`Spare`). `Streams`: a quiet open stream of a call that is not patient
  holds a registered instance, or a pending one whose timer outlasts its own; this, not
  `DisposedAfterIdle`, is what a swap and a timer preserve.

- `ChatTurnProofs`, the sessions: the properties that tie a session to the other components.
  `LinksInv` is inductive: while the process is up nothing is `Draining`, and per request, who owns it and
  may abort it (`Owning`), what its stream may still say (`Streaming`), whose
  transcript it is in (`Belonging`), what is being written (`Writing`) and what the
  client has read of it (`Reading`). The client's view is behind: what it may read
  next is bounded by what was said before the end, so `ClientSeesOneEnd` needs
  `Streaming` and `ClientReadsWhatIsKept` needs `Writing`.
- `ChatClientProofs`: `LifelineHolds`, `ThreadFollows` and `RepliesAreOwn`. The socket's invariant adds to
  `OneLifeline` that a socket closes by itself only once disposed of, and that
  who goes on has authentication failures left (`Life`). `AwaitedHere` and
  `Announced` (a conversation is announced only after its send was placed) let
  `Following` be inductive: unless an announcement came late, the conversation
  opened last is active and its history is either being fetched or in place.
  `RepliesFindTheirDraft` speaks of shown drafts only; what makes it hold is on its way.
  `Replying` therefore relates, for the draft that is awaited, the list of drafts to the
  socket's queue and the server's turn: the send is unanswered, refused, about to start or
  heard (`UnderWay`); once it is heard, the text the draft holds and the text in the queue
  add up to what the server said (`Answered`); everything else in the queue is for this draft,
  and every other send of the socket has ended. `Placed` (one draft per send, sent before the
  server takes it up) and `Forgotten` (an unmounted page has no drafts) complete it. It holds
  up to the first of the three events the property excepts, which are findings or listed in 3.
- `AdminProofs`: all properties of `admin_server`, for any number of requests at a time, any
  inputs a route's schema lets through (`InputsAssumption`) and any tables in which every
  member has a role and every provider its catalog (`InitAssumption`). `AdminInv` has three
  parts. `Known`: every claim that is true now is in `truths`, and what a request has already
  found out is implied by the statement it waits for (`Stage`), so a refusal three queries
  later is still about something that was so. `Membership`: what a transaction has locked,
  asked for and deleted belongs to the one seat it is about, and nothing was deleted before it
  began (`Seats`); hence it leaves the roles of every other seat alone, and its commit leaves
  its own with a role or without a member. `Pairs`: the key and base URL of every row, of the row a check has read and of
  the check that is under way were stored together. `BilledRowIsLoaded` is about two
  orders of the rows: the one loaded is of the last millisecond, and of that millisecond's
  rows the database's order has a first too (`FirstRow`: of those with the fewest microseconds left to
  the next, the first uuid), so the two share it. Each file of routes has its own lemmas (`MembersOk`, `WorkspacesOk`,
  `ProvidersOk`) from which `Handles` is put together.

- `PipelineProofs`: `PromptsAreGuarded`, for texts, policies and requests of any size. What
  `Guardrails` computes is recursive over the text, so the proof is an induction over it;
  the library's induction theorems cannot be instantiated here, and `Induction` restates
  the one about well-founded sets for a set of numbers. Of the operators: joining the
  parts of a message and cutting the text again loses nothing (`Assembly`, `Flattening`), a
  redacted text is its segments with every matched one masked (`Traced`), so a detector finds
  nothing new in it, but for words that have an atom of the mask and bounded words, which may
  have new surroundings (`RedactionKeepsClear`, `RedactionMasks`, `RedactionKeepsMasked`); `altered`
  says in which texts. Of the call: `GuardInv` says which checks have run over the request so far
  and that each of them left it as its policy asks, which the later ones preserve.
- `PipelineProofs`, the answers: `AnswersAreFaithful`, for lawful answers of any length, and `PipelineTyped`.
  `Lawful` is what each adapter relies on and cannot check: the end is said once and only a
  trailer follows it, "done" comes after the end, OpenAI's fragments of arguments after the
  opening of their call (which alone may carry arguments), Anthropic's blocks one at a time and
  one event each. Three layers.
  The wire: whatever number of half-lines each read brings, `Cutting` and `MoreArrives` show
  that the lines handed on are the next messages, none torn, and that the buffer is the half
  that is left. The message: `ChunksFaithful` says of each adapter that the chunks of one message
  tell its text and arguments in their places, each fragment of a call that was begun, and its
  end (`Faithful`), by induction over the items (`Sieve`, `ToldFlat`). The answer: `Follows`
  relates what was heard to the messages handled so far, together with the calls the adapter
  keeps (for Anthropic, those of the open block), and `MessageFollows` carries it over one
  message. `AnswerInv` is this for the stream of the attempt.

- `ConsoleProofs`: `ConsoleNeverHangs`, for any number of rows, pages, requests at a time
  and sessions; TLC sees three requests and two writes. `NothingHangs` says only that with
  nothing in flight nobody waits. `Inv` says for whom each request is and that whatever is
  waited for is on its way: a loading screen has its latest load in flight, a busy button
  the write it sent, a tab the load of its panel, a dialog that of its pool (`ProvidersWait`,
  `LibraryWait`, `ListWait`, `DetailWait`); conversely a request with an owner that is still
  mounted is one this owner sends (`Waiter`), with what it captured when it was sent (`Asked`), and the
  tokens in flight are of sessions that were begun (`SessionsOk`). A step is cut in two. `Turns`
  is what any step does to the requests, whatever the screen: some end, some lose the
  component that waited for them, some are superseded, some are sent; `ComingOn` and its like
  say once what stays on its way through that. Each handler then has one lemma that compares
  its change of the screen with what is still, or newly, on its way, and `InStep`,
  `LibraryGoOn`, `ListGoOn` and `DetailGoOn` put both together for their screen. The hard
  steps are those that do several of these at once: a jump from one workspace to another
  with the roster of the first still loading, the failed load that unmounts a tab
  (`GotWorkspaceInv`), and the 401 of any request, of an earlier session too
  (`UnauthorisedInv`). `Keep` is `filter` as a recursive function, so that it can be proved about.
- `ShownProofs`: `ConsoleShowsTheTruth`, that is `ShownIsTrue`, for any tables, pages, number of
  requests and order of their answers. The property is of moments when nothing is in flight;
  `TrueInv` says of every other moment how what is shown and what the server has may differ,
  and by which request. While no case was met (`excused = {}`) none is being met (`Clear`: no
  write lost or unheeded, two of one row, a load of the library while it is written, and the
  others of `Cases`), and the mounted screen is true (`Truth`): each row agrees with its row of
  the table unless a write of it is in flight, and then it has the value the patch or the
  way back will start from (`WriteTrue`, `SwitchesTrue`, `TemplatesTrue`); or the screen is
  loading and the latest answer, once given, is what the table has or was overtaken by a
  write that will be heard and load it again (`ComingLast`, `Took`). It needs `Inv`, which
  says whose answers there are, and `Base`, that ids still to be given have no rows. The
  server's step is looked at once for each table (`DetailServedTrue` and its like): it is the
  one step that changes what is true, and a request that waits for its answer must say so. The
  hard ones are the tabs of a workspace, changed before the answer and taken
  back on a failure (`ToggledTrue`, `TemplateMovedTrue`), the workspace that is left for
  another with answers of the first on their way (`JumpTrue`), and a screen that comes while
  writes of the last one are in flight, which `Clear` of the new screen rules out
  (`FreshStart`). TLC sees two writes and three requests.

Only model-checked: the liveness properties (`SendsResolve`, `StreamsEnd`,
`EndedTurnsAreStored`, `ShutdownEnds`, `CallsEnd`, `BusyEnds`, `AbortEndsCall`), as fairness and
ENABLED are outside TLAPS. Every safety property of the passing runs is a theorem.

## 5. Not modelled

Components with status `not_modelled` in `PROJECT.json` say why: the routing strategies
nothing constructs, telemetry, the transport registry, the dashboard's queries,
and the screens that show one load (members, overview, matrix, permissions).

Within the modelled ones: the order of rows by `createdAt`, `touch` after an append (it moves
a conversation's `updatedAt` only, so it is one step with the append), the
`partial` flag (the repository does not store it), error and ping messages, template
and workspace data, token counts, retry listeners, the breaker's `forceOpen` and
`forceClosed`, which only tests call, the factory's cache of static mode, the message
formats of vendors field by field, `listModels`, encryption and the audit log, passwords and
tokens, what forms validate, the settings form's own copy of a workspace's name, and the
text of anything shown.

## 6. Plan

Done: the chat turn at both ends, the gateway's calls, refresh and pipeline, the
administration routes and the console; as theorems, every safety property of the runs.
Left, in this order:

1. The order of rows by `createdAt`, and the answer that is read before it is written.
