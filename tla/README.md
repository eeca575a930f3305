# clamator in TLA+

clamator is a typed JSON-RPC layer. A *contract* names a service and its methods; a *client core*
turns a method call into a request or notification envelope and gives it to a *transport*; a *server
core* dispatches envelopes to handlers. Two transports exist, each in TypeScript and in Python:
in-process (`over-memory`) and Redis streams (`over-redis`). A code generator writes the typed wrappers
of both languages. This directory is the verification project of that code: TLA+ modules, the TLC
configurations that check them on small instances, and TLAPS proofs for every instance.

## 1. Inventory

| component | source | state | operations | talks to |
|---|---|---|---|---|
| Redis client transport (TS) | `ts/packages/over-redis/src/client-transport.ts` | `state`, `pending` map with timers, reply loop and its `lastId` | `send`, `notify`, `start`, `stop`, reply loop | XADD to the command stream, XREAD and DEL of its reply stream |
| Redis server transport (TS) | `ts/packages/over-redis/src/server-transport.ts` | `state`, `abort`, dispatchers, one consumer and one reclaim loop per service | `registerService`, `start`, `stop`, `handleEntry` | XGROUP, XREADGROUP, XAUTOCLAIM, XACK, XADD of replies; the dispatcher |
| Redis transports (Py) | `py/packages/over-redis/src/clamator_over_redis` | `_pending` dict of futures, reply task; loop tasks | as in TS, but tasks are cancelled where TS lets them end | as in TS |
| In-process transport (TS, Py) | `over-memory` `transport`, `bus` | bus registry, `pending`, own services, `state` | `registerService`, `send`, `notify`, `start`, `stop` | dispatchers on the shared bus |
| Server core (TS, Py) | `server-core.ts`, `server_core.py` | services, `state`, `inflight` | `registerService`, dispatcher, `start`, `stop` with drain | handlers, `Transport` |
| Client core (TS, Py) | `client-core.ts`, `client_core.py` | `state` | `call`, `notify`, `start`, `stop` | `Transport` |
| Envelopes, contracts, errors (TS, Py) | `envelope`, `contract`, `error` | none | parse, build, validate, error data | cores and transports |
| Code generation | `ts/packages/codegen` | the files it writes | load, lower, emit, manifest | files, `datamodel-codegen` |
| Backoff | `over-redis` `backoff` | attempt counter | `expBackoff`, `resetable` | nobody: the loops sleep a fixed 100 ms |
| Interop tests, scripts, examples | `tests/`, `scripts/` | - | - | - |

What is hard in this system:

- **Three steps per entry.** `handleEntry` awaits the dispatcher, the XADD of the reply and the XACK.
  Every await is a point where a process may die, a command fail or, in Python, a task be cancelled;
  what is not acknowledged is delivered again.
- **Two loops per service.** Consumer and reclaim loop of one server, and those of all other servers,
  obtain entries of the same group. An exception abandons the rest of a batch.
- **Many ways to settle a call.** Reply, timer, failed XADD, `stop()` and a cancelled caller race for
  each promise or future.
- **Stop in several awaits.** `stop()` of the TypeScript client keeps accepting calls until its last
  line; servers answer after the reply stream is deleted; a Python server cancels its loops anywhere.
- **Start and stop of four layers.** Core and transport keep separate states, set before some awaits
  and after others.
- **Files that outlive a run.** A run of the generator that fails leaves what it has written next to
  what earlier runs wrote.

What makes each component correct:

- client transport: each call settles, once; the map holds the unsettled ones, and beyond them only
  what a timer will remove; no reply is skipped.
- server transport: nothing is acknowledged before it is served; everything delivered is eventually
  served; an entry is in one loop's hands unless it was held too long; a handler is repeated only for a
  reason.
- cores: the dispatcher answers every request once with the code JSON-RPC prescribes and never answers
  a notification; start and stop are idempotent and end in agreement with the transport.
- in-process transport: as the client transport; stopping removes exactly one's own services.
- code generator: what the outputs take from a contract object comes from the same one in all of them,
  and a manifest never vouches for a wrapper that is not there.

## 2. Modules

| module | what it is |
|---|---|
| `RpcContract` | abstract specification of a transport: issue, serve at least once, settle once |
| `RedisStreams` | what the transports of both languages use of Redis: streams, group, pending entries list, reply stream |
| `RedisStreamsProofs` | lemmas about the operations of `RedisStreams`, shared by the proofs about both languages |
| `RedisRpc`, `MCRedisRpc` | the TypeScript Redis transports: one service, one client, a pool of servers; refines `RpcContract` |
| `RedisRpcProofs` | its inductive invariant, safety properties and refinement |
| `RedisRunsProofs` | the bound on the executions of a handler, and from it that no reply is lost |
| `PyRedisRpc`, `MCPyRedis` | the Python Redis transports with the drain of the core above; refines `RpcContract` |
| `PyRedisRpcProofs` | its inductive invariant, safety properties, refinement and the bound on the executions of a handler |
| `ServerLifecycle` | start and stop of `RpcServerCore` over `ServerRedisTransport`, overlapping and failing |
| `ServerLifecycleProofs` | its inductive invariant and safety properties |
| `MemoryRpc`, `MCMemoryRpc` | cores over the in-process transport and its bus, in either language; refines `RpcContract` |
| `MemoryRpcProofs` | its inductive invariant, safety properties and refinement |
| `Dispatch` | one envelope from the client core to the handler and back, in both languages |
| `DispatchProofs` | its inductive invariant, the documented outcome, who is answered, the inflight set |
| `Codegen`, `MCCodegen` | runs of the code generator and what they leave on disk |
| `CodegenProofs` | its inductive invariant, the agreement of files, the injectivity of `camelToSnake` |

Order of the work: the path of a message and its failures first, since at-least-once and settlement are
what users rely on; then the states around it; then the second language and the generator.

Composition. `RedisRpc`, `PyRedisRpc` and `MemoryRpc` are three implementations of `RpcContract`; the
first two stand on the same `RedisStreams`. They leave to `Dispatch` what a dispatcher answers, and
`RedisRpc` leaves to `ServerLifecycle` how its servers come up and go down. `PyRedisRpc` and `MemoryRpc`
include the core's drain, because there it decides which tasks are cancelled and which services leave
the bus.

Two steps of the first plan were dropped. `BatchLatency` would have shown entries that grow idle behind
others of their batch although every handler is fast: that is a matter of durations, which no module
has; `HeldTurnsIdle` lets it happen without asking why. `Backoff` is a pure function nobody calls.

Still open: a composition of `ServerLifecycle` with the message path of `RedisRpc`, and for Python the
counterpart of `NoReplyLost`.

## 3. The TypeScript Redis transports (`RedisStreams`, `RedisRpc`)

One action is the code between two awaits and the Redis command it ends in.

| code | model |
|---|---|
| command stream `<prefix>:cmds:<service>` | `stream`, a sequence of messages; every message is added at most once |
| group's last-delivered-id | `fresh`, the entries past it; `group` says whether XGROUP CREATE has happened. Created at `$`, so earlier entries are never in `fresh` |
| pending entries list | `pel`; `idle` are those idle for `consumerClaimIdleMs`. No owner: the code never reads one |
| reply stream and `lastId` | `replies`, the unread entries; `replyKey`, whether the key exists. MAXLEN `~` may drop any prefix that leaves `ReplyMaxLen` entries |
| `pending` map, timers | `pending`, `timer`; the promise is `status` |
| awaits of client `stop()` | `client`: started, aborting (loop), deleting (DEL), quitting, stopped; `send` is accepted until stopped |
| consumer and reclaim loop | two elements of `Loop` per server; `at` is the await (`poll`, `dispatch`, `reply`, `ack`), `cur` the entry in `handleEntry`, `todo` the rest of the batch |
| `catch` of a loop | `Abandon`: the batch is forgotten and stays in the PEL |
| `JSON.stringify` of a request throws in the executor of its promise | `SendThrows`: the promise is rejected at once, and the entry and the timer of a call stay until the timer fires or `stop()` comes to them |
| death of a process | `Crash`: both loops vanish; a new process may start in its place |

Messages are of three kinds: `Call`, `Note` (no reply-to) and `Junk` (what `handleEntry` acknowledges
undispatched). `Silent` calls get `null` from their dispatcher (a call to a method declared as a
notification; no run has one, the theorems cover any); `Throwing` messages make the dispatcher reject each
time, as a handler does that throws before it returns a promise. Any message may have params that
`JSON.stringify` refuses: `SendThrows` instead of `Send`, and the status `refused`. A reply that it refuses
is a `ReplyFails`: the dispatch has completed, and the failure is counted in `faults`. An entry with a
`Throwing` message is delivered without end, and `RunsAreBounded` says nothing of it.

Abstracted: several services (each has its own stream, group and loops and shares nothing but the
connection), several clients (each has its own reply stream and map), the wording of errors, the
contents of envelopes, the 100 ms pause after an error. XADDs of one client may overtake each other in
the model, which the code's single connection does not allow: the model has more behaviours.

An XAUTOCLAIM under way when `stop()` is called counts as answered before it. What a transport that
owns its connection loses when `redis.quit()` overtakes a handler that outlives its grace period is not
modelled: the entry stays pending, as after `ReplyFails`.

## 4. The Python Redis transports (`PyRedisRpc`)

One action is what one asyncio task does between two awaits.

| code | model |
|---|---|
| `_pending` dict | `pending`, its keys; `future`, the state of each call's future |
| the await of a task in `send` or `notify` | `awaits`: `xadd`, then `reply` (inside `wait_for`, which arms the timeout), `timeout` (the future is cancelled, the `except` clause has yet to run) |
| what the caller sees | `status`, with `cancelled` for a task the application cancels: no `except` clause takes its entry out |
| reply loop | `ReplyLoop`: pops the entry and sets the future unless it is done |
| client `stop()` | `client`: stopping, deleting, stopped; `send` refuses from its first line on |
| `RpcServerCore.stop`, then `ServerRedisTransport.stop` | `server`: started, draining (handlers in flight, loops still read), cancelled, expired (`shutdown_grace_ms` is over and `wait_for` cancels again), stopped |
| `task.cancel()` | `doomed`: loops that have been cancelled and have not run since. `CancelArrives` is the CancelledError at whatever await the loop is at; `Dispatch` clears it for a handler that swallows it |
| a handler that calls its own service | `Inner`: the call its handler awaits. The handler returns when that call has ended; when it is cancelled, so is the call |
| a field that is not UTF-8 | `Garbled`, some of the `Junk`: `decode()` raises outside the `try` of `_handle_entry`, so that `Proceed` abandons the batch and the entry is never acknowledged |
| `_handle_entry` | `at`, `cur`, `todo` as in `RedisRpc`; `runs` counts handlers begun, `served` those whose dispatcher returned |

`wait_for` differs between Python 3.11 and 3.12 when the result and the timeout come together; the model
has both outcomes. A loop's handler that ends in a CancelledError of its own (`HandlerCancelled`) counts
as a fault. An inner call is one envelope, shared by the executions of its outer handler.

## 5. Start and stop (`ServerLifecycle`)

| code | model |
|---|---|
| `RpcServerCore.services`, `state` | `services` (insertion order), `core` |
| `ServerRedisTransport.dispatchers`, `state`, `abort`, `blockingConns` | `dispatchers`, `transport`, `abort`, `conns` |
| `reclaimWakers` | `wakers`: the sleeps that nothing has ended yet |
| the two loops of a service | `loop`, the await each is at; `left`, the rest of its batch |
| a task of the application inside `start` or `stop` | `call`, the await it is at: `register` and `create` (the loops over the maps), `opened`; `drain`, `settle`, `quit`, `closed` |
| how it ended | `result` |

The for loops of `start` run over maps that may grow meanwhile, so the step keeps an index. Entries are
reduced to a handler that runs and an `ack` that is awaited. Whether Redis has an entry is a choice of
`Obtain` and `ObtainNothing`.

## 6. The in-process transports (`MemoryRpc`)

`language` is chosen once; most actions are common, and those that differ say so.

| code | model |
|---|---|
| `MemoryBus` | `bus`, whose dispatcher each service has |
| a server's core, `MemoryTransport.state`, own services | `core`, `transport`, `own`; `step` is the await of `start` or `stop` |
| client core's state and its transport's | `clientCore`, `client`; `awaits` are the core's calls that await the transport |
| `pending`, timers, promises | `pending`, `timer`, `status`; in Python `future`, which may be done before its caller goes on |
| a microtask (TS) or runner task (Py), the handler, the rest | `at`: queued, handler, returned (TS only), done; `via`, the dispatcher it was given |

`outcome` is what a dispatcher may come to: a reply, `null`, an exception, a cancellation. Tasks are
taken in any order: more behaviours than the engines have. In TypeScript every `await` yields; in Python
only one that has to wait, so `start` of a Python core is one step.

## 7. The dispatcher (`Dispatch`)

One case per initial state: languages of client and server, transport, what the contract declares, how
the method is found, the params and whether JSON can carry them, the handler and its behaviour, the data
of its result or error, and either an envelope that a client core builds or any envelope at all. The steps
are those of the two dispatchers up to the handler, the handler, and the way back (`JSON.stringify`,
`json.dumps`, `parseEnvelope`, outcome of `call`). Values are reduced to what the code tells apart: an id
that is a string, a fraction, neither or absent; a result that is undefined or refused by the schema; an
error code that is an integer or not; and for params, results and error data whether JSON carries them
(`plain`), Python writes them as NaN (`nan`) or nobody can write them (`opaque`). A method name is
well-formed, malformed, or well-formed but for a line feed at its end, which `$` lets pass in Python.

`Surprising` lists the cases in which a caller does not see what the documented pipeline says.
`OutcomeAsDocumented` is an equivalence: nothing else surprises, and each case in the list does. A check
of the application's own that raises, in Python, what is no ValidationError is the params or the behaviour
`raises`. The numbers a handler uses as error codes are finite, and reading an exception's attributes does
not fail.

An envelope that the parser refuses is acknowledged and dropped, as `OnlyRequestsAnswered` says of the
code; the protocol READMEs promise it an answer (section 11).

## 8. The code generator (`Codegen`)

A file is the version of the contract it was generated from; `Torn` is one whose write was cut off. Of a
TypeScript wrapper that is only the list of methods. The types of params and results are those of the
`<service>Contract` it imports, from the path `--ts-contract-import` gives (`emit-ts.ts:26-30,49-52`):
`Imported` is the source file that path names for a service, and `Types` the contract found there, which
changes with the sources, without a run. So the drift check of the manifest speaks for a TypeScript
wrapper only where the path names the last file that exports its service (`CompleteRunAgrees`).

| code | model |
|---|---|
| the contracts of the source files | `exports`, which `Edit` changes between runs |
| `loadContracts` | `ir`: every contract of every file, sorted by service, so that a service exported twice comes twice |
| the options of a run | `wanted`; `left` and `todo` are the outputs and contracts still to write, in the order of `cli.ts` |
| `emitTs`, `emitPy`, `writeManifest` | one file a step; `emitPy` first makes a temporary directory (`temp`) and removes it before it writes |
| an exception, a kill | `Fail`: the run ends where it is and may leave its temporary directory (`leaked`) |
| `camelToSnake` | the underscores it puts into a name, character by character of the three classes it tells apart |

## 9. Runs

| run | instance | shows |
|---|---|---|
| `redis_kinds` | 1 server, 2 calls, a notification whose dispatcher rejects, an undecodable entry, batches of 2, 1 fault | the bookkeeping of Redis and loops where entries of all kinds share batches and any message may be refused by JSON: `TypeOK`, `AckedOnlyWhenServed`, `PendingIsWaiting`, `AnsweredWasDispatched`, `NoReplyLost`, `HeldOnce`, and the refinement of `RpcContract`. Constraint: the client does not stop, and one message at most times out or is refused |
| `redis_takeover` | 2 servers, 1 call, 1 fault, 1 slow entry, fairness | `RunsAreBounded` among four loops; a survivor serves what another left behind, the call settles; `PendingIsWaiting` and `SettledOnce` with a client that may stop at any await |
| `py_redis` | 2 servers, 1 call, an entry that is not UTF-8, batches of 2, 1 fault, 1 stop | the same safety promises with cancellation at every await: `AckedOnlyWhenServed`, `DictHasTheWaiting`, `HeldOnce`, `RunsAreBounded`, refinement |
| `py_nested` | 1 server, a notification whose handler awaits a call of the same service, an undecodable entry, 1 slow entry, fairness | a handler that waits for its own consumer loop is released by the inner timeout; what was delivered is served |
| `life` | 1 service, 2 tasks, 4 calls of start and stop, 1 fault, fairness | overlapping lifecycles: one pair of loops, drained stops, no call hangs, aborted loops end |
| `memory` | either language, 2 servers, 2 services, one contested, 1 call, 1 notification, fairness | bus ownership, drains, pending map, refinement with liveness |
| `dispatch` | all cases | outcomes as documented exactly outside `Surprising`, who is answered, the inflight set |
| `codegen` | 2 services, 2 source files, 2 versions, 1 edit, 1 failed run, an import path that names the last file and one that names the first; all names of up to 4 characters | complete runs agree, the manifest is last, leaks are failures, handler names |
| `life_retry` | 2 services, 1 task, 3 calls, 1 fault | finding: a repeated `start()` returns without loops |
| `dispatch_refusals` | all cases | finding: error data that JSON cannot represent leaves a call without an answer |
| `py_drain` | 1 server, 1 call, 1 stop, no fault | finding: a stop within its grace cancels replies and acknowledgements |
| `py_loop_ends` | 1 server, 1 call, 1 notification, 1 fault, fairness | finding: a handler that ends in a CancelledError ends its loop |

Bounds. Two calls are the least in which one reply can settle the other's promise and a batch has a
rest; two loops per server and two servers are all the kinds of competition there are; one fault reaches
every failure at every await, and a second one would only repeat the path through the reclaim loop,
which abandons and obtains entries as the first time. `MaxSlow = 1` lets one entry be taken from a loop
that still holds it. Four calls of start and stop by two tasks include every pair that overlaps, and one
more after it. `ReplyMaxLen` is above the number of replies where `NoReplyLost` is checked, which needs it
(4 replies are the most that 2 calls with 1 fault can have, as in the proof of `RepliesAreKept`), and
small enough to trim in `redis_takeover`. In `memory` the first message goes to the contested service
and the other to the one that only the first server has. In `codegen` one edit between two runs is what makes
an old file and a new one meet, two files are what it takes to export a service twice, and four characters
are the shortest names whose capitals collide (`getABC`, `getABc`). The theorems of section 12 say that no
such bound matters for what they state.

`CHECK_DEADLOCK FALSE` everywhere: all calls made, everything stopped, dead or generated is an end the
system may reach.

## 10. Fairness

- `RedisRpc!Fairness`: an armed timer fires; Redis answers an XADD; the reply loop keeps reading; a
  pending entry that nobody holds grows idle; the loops of a started server keep polling, and what a
  loop does with an entry ends. The last is an assumption on handlers; the rest is what timers, `while`
  loops around every `catch` and a reachable Redis give. A failure is never assumed away, only bounded.
- `PyRedisRpc!Fairness`: the same for asyncio: ready tasks run, timeouts fire, a cancelled task sees its
  CancelledError, a grace period ends; a handler makes its inner call and returns once that has ended.
  Nothing says that a loop survives: `DeliveredIsServed` assumes a server that keeps both loops, and
  `py_loop_ends` shows what happens otherwise.
- `ServerLifecycle!PromptSpec`: Redis answers, grace timers fire. Handlers may hang, and a reclaim
  interval need not elapse: `AbortedLoopsExit` holds because `stop()` wakes the sleepers.
- `MemoryRpc!FairSpec`: timers fire, microtasks and ready tasks run. Handlers may hang.

Nobody ever has to send, cancel, start, stop or fail.

## 11. Findings

- `start()` after a failed `start()` returns with nothing started (`StartReturnsReady`).
- A Python server whose validation errors hold an exception or an object cannot send them and does not
  answer (`ValidationFailureAnswered`).
- A Python `stop()` whose handlers all return in time may still cancel their replies and
  acknowledgements, so that they are executed again (`DrainedIsDone`).
- A Python handler that ends in a CancelledError of its own ends the consumer loop; the server goes on
  without serving (`HandlersKeepServing`).

Two more disagreements have no run of their own, because properties of passing runs state the opposite of
what the documents say; their comments quote the documents:

- Both over-redis READMEs (`py/packages/over-redis/README.md:277`, `ts/packages/over-redis/README.md:266`)
  say of a handler that calls its own service on the only server: "the inner request sits in the stream
  forever, and the outer handler waits forever for the inner reply". The timeout of the inner `send()` ends
  the wait, the outer handler goes on, and the inner request is read and executed late. `py_nested` is that
  case: `DeliveredIsServed` and `ImplementsFairContract` hold of the code, not of what the READMEs say.
- Both protocol READMEs (`ts/packages/protocol/README.md:149`, `py/packages/protocol/README.md:154`) say
  that envelope-level parse and validation failures use -32700 and -32600; the design (`:192`) says the
  adapter rejects batches with -32600. `handleEntry` and `_handle_entry` acknowledge such an entry and drop
  it, also if it has an id and a reply-to: the -32600 that `parseEnvelope` raises (`envelope.ts:56`,
  `envelope.py:67`) never becomes a response, and `OnlyRequestsAnswered` says so.

Smaller disagreements met while modelling, equally without a run: the two loops of one server
dispatch concurrently (`over-redis/README.md:224`); a late reply creates the reply stream again that
`stop()` deleted (`over-redis/README.md:281`); a handler that throws before it returns a promise is
neither answered nor acknowledged (`server-core.ts:67`, against `docs/2026-05-07-clamator-design.md:660`);
`stop()` after a failed `start()` leaves the loops running (`server-core.ts:121`); `stop()` during
`start()` is undone when `start()` goes on. The models have all of these behaviours, and no property
claims the opposite. `Surprising` in `Dispatch` lists the differences between the languages, the
transports and the documented pipeline. Hazards without a property have a note in `PROJECT.json`.

## 12. What is proved

`RedisRpcProofs` and `RedisRunsProofs`, for any sets of servers and messages and any bounds, from
`MessagesAssumption` (the kinds of messages are disjoint, `None` is none of them) and `BoundsAssumption`
(counts are positive naturals, budgets are naturals):

| theorem | statement |
|---|---|
| `Invariance` | `Spec => []IInv` |
| `TypeCorrect` | `TypeOK` |
| `AtLeastOnce` | `AckedOnlyWhenServed` |
| `PendingMap` | `PendingIsWaiting` |
| `AnswersAreGenuine` | `AnsweredWasDispatched` |
| `Exclusive` | `HeldOnce` |
| `SettlesOnce` | `SettledOnce` |
| `Refinement` | `ImplementsContract` |
| `BoundedRuns` | `RunsAreBounded` |
| `RepliesKept` | `NoReplyLost`, as long as `Len(replies) < ReplyMaxLen` |
| `RepliesAreKept` | `NoReplyLost`, if `ReplyMaxLen > Cardinality(Call) * (1 + MaxFaults + MaxSlow)` |

The inductive invariant `IInv` adds to the properties what they rest on.

`PendingIsWaiting` has two halves. Entries and armed timers are the same calls, so that what is in the
map is removed in the end. And the unsettled calls are the entries that are not `Refused`: a call whose
envelope could not be written is rejected while `send()` has already made its entry. `Settle` and `Timeout`
take that entry out and leave the outcome as it is, as a second `reject` of a promise does, and the
refinement maps the throw to `Refuse`.

The inductive invariant also has

- `LoopInv`: a loop that is about to add a reply has completed the dispatch of its entry, and one that
  is about to acknowledge it has also added the reply, if one is due. Without it `Ack` could acknowledge
  anything.
- `ReplyInv`: an unread reply answers a call that has been dispatched and is not silent; the client's
  step from a reply to "answered" needs it.
- `EntryInv`: an entry is in one place only on its way from `sending` to the stream, the group and the
  loops, and what is there has been sent. The refinement needs it: a message that is served was issued.
- `ExclusiveInv`: undelivered and pending entries are disjoint, what a loop holds is not undelivered
  and, as long as nothing turned idle in a loop's hands, not idle. So neither XREADGROUP nor XAUTOCLAIM
  can hand out what a loop holds.

Each conjunct has a lemma per half of `Next` (client, servers, Redis), with one step per action. The
refinement maps every action to a step of `RpcContract` or to a stutter.

`BoundedRuns` is about messages whose dispatcher does not reject. A completed dispatch whose reply cannot be
written is a run, and is paid for by the fault it is; a dispatcher that rejects never completes, its message
comes back for free, and the theorem leaves it out. The proof needs more than who holds what: it keeps an
*account* of each message. The runs it has had, the number of loops that hold it and have not dispatched it
(`Owing`), and one if Redis may hand it out again (`Available`) never exceed one plus the failures and slow
entries so far. Being handed out turns the availability into a debt, a dispatch turns a debt into a run, a
handler that throws turns its debts into availability, and only a failure or an idle expiry in a loop's
hands raises the sum. `HandsInv` (a batch does not repeat the entry the loop is at) keeps a loop from owing
one message twice.

`NoReplyLost` cannot hold without a condition: MAXLEN trims what is unread when there is too much of it.
`RepliesKept` has the condition as a behaviour keeps it (there is room for one more reply) and does not
ask how; `RepliesAreKept` derives it from the constants. The account of runs extends to replies:
`UnreadInv` says that the unread replies to a call and the loops that are about to write one
(`Replying`) are not more than the runs of its handler. So the unread replies are at most the calls times
the runs of one call, by an injection of their positions into pairs of a call and a number
(`RepliesBounded`), and `BoundedRuns` limits the latter. The instance of `redis_kinds` satisfies the
hypothesis.

`PyRedisRpcProofs`, for any sets of servers and messages, any nesting of handlers and any bounds, from
`PyAssumption` (the kinds of messages are disjoint, an inner call is not itself nested, counts are
positive naturals, budgets are naturals):

| theorem | statement |
|---|---|
| `Invariance` | `Spec => []IInv` |
| `TypeCorrect` | `TypeOK` |
| `AtLeastOnce` | `AckedOnlyWhenServed` |
| `DictIsComplete` | `DictHasTheWaiting` |
| `Exclusive` | `HeldOnce` |
| `Refinement` | `ImplementsContract` |
| `SettlesOnce` | `Contract!SettledOnce` |
| `AnswersAreGenuine` | `[]Contract!AnsweredWasServed` |
| `BoundedRuns` | `RunsAreBounded` |

Its `IInv` has the same shape as that of `RedisRpc`, on the same lemmas about Redis
(`RedisStreamsProofs`). What cancellation adds is in two places. `FutureInv` separates the dict from the
callers: an entry may outlive its caller, but its future is then cancelled, so that a late reply settles
nothing. `CancelledTasks` sums up what the end of a handler does to the calls it awaits: an XADD under
way is applied or not, and the caller is told that it was cancelled, which is a `GiveUp` of the contract.
`SettlesOnce` and `AnswersAreGenuine` are consequences of `RpcContract` that the refinement carries over.

`BoundedRuns` keeps an account as above, with two changes. A run is charged when its handler starts, for
it may be cancelled before it ends. And a server that stops holds a credit for each message: one while it
drains, and afterwards as long as one of its loops holds the message (`Stopping`). A cancelled loop gives
back its batch out of its debts and the entry it is at out of this credit, which `StopServer` has paid
for. A server stops two loops but needs one credit: the first loop that lets go of a message the other
one holds does not make it available, and after `CancelLoops` neither loop obtains anything.

`ServerLifecycleProofs`, for any services, tasks, batches and budgets, from `LifecycleAssumption`:

| theorem | statement |
|---|---|
| `Invariance` | `Spec => []IInv` |
| `TypeCorrect` | `TypeOK` |
| `OneLoop` | `OneLoopPerService` |
| `LoopsAreDrained` | `StopIsDrained` |

`CreateInv` says that at most one task ever creates groups, and in the order of the dispatchers map, in
which a service has one place (`PlaceInv`): what the task has not come to has no loops. `AbortInv` says
that a transport which is not started, and has not been aborted, was never touched: so `stop()` finds
either nothing, or a transport whose later loops end at their first look at `abort`. `RestInv` carries
what the wait for the loops found to the moment the state is set, although a late `start()` may still
spawn loops in between.

`MemoryRpcProofs`, for both languages and any servers, services and messages, from `MemoryAssumption`
(calls and notifications are disjoint, `Provides` and `To` are functions, `None` is no server):

| theorem | statement |
|---|---|
| `Invariance` | `Spec => []IInv` |
| `TypeCorrect` | `TypeOK` |
| `PendingMap` | `PendingIsWaiting` |
| `Ownership` | `BusIsOwned` |
| `Drain` | `DrainedStop` |
| `Refinement` | `Spec => Contract!Spec`, the safety half of `ImplementsFairContract` |
| `SettlesOnce` | `Contract!SettledOnce` |
| `AnswersAreGenuine` | `[]Contract!AnsweredWasServed` |

There `IInv` adds `SentInv` (what has an entry or a timer has been sent, and a timer means a caller that
waits), `OwedInv` (what `stop()` found in flight is never queued again, and has ended when its drain was
not cut short), `LanguageInv` (TypeScript has no futures; in Python the step in which a dispatcher ends
is one with the rest of its runner, and an open entry belongs to a runner that has yet to end) and
`OutcomeInv` (a reply means that a dispatcher completed).

`DispatchProofs`, from `TransportAssumption` (a transport passes objects on, or JSON):

| theorem | statement |
|---|---|
| `Invariance` | `Spec => []IInv` |
| `Outcomes` | `OutcomeAsDocumented` |
| `AnswersAreDue` | `OnlyRequestsAnswered` |
| `InflightIsReleased` | `InflightReleased` |

The cases of `Dispatch` are finitely many and its run is exhaustive; the proof says *why* a call ends as
documented. `KindOfEnvelope` is what the two parsers agree on. `StageInv` keeps, from each step of a
dispatcher to the next, what has been accepted so far. The lemmas about the way back (`ErrorOutcome`,
`ValueOutcome`, `UndefinedOutcome`, `NoReplyOutcome`) compute what a caller makes of each kind of reply a
dispatcher builds: the code or value it was built with if the transport can carry its data to a client of
that language (`Delivered`), with the exceptions of a fraction and of undefined. `ReplyInv` says that the
reply of a call is `Right`: what the caller will make of it is documented exactly when the case is not
`Surprising`. `ResolvedRight` shows it for every step in which a dispatcher ends, and `OutcomeStep` for the
calls that never reach one.

`CodegenProofs`, for any services, source files, versions, method names and bounds, from
`CodegenAssumption` (services, files and versions are numbers), `FilesAssumption` (there is a last file,
if there is any) and `NamesAssumption` (a version has finitely many method names, and each begins with a
lower case letter, as METHOD_RE demands, `envelope.ts:6`):

| theorem | statement |
|---|---|
| `Invariance` | `Spec => []IInv` |
| `TypeCorrect` | `TypeOK` |
| `WrappersAgree` | `CompleteRunAgrees` |
| `ManifestComesLast` | `ManifestIsLast` |
| `LeaksAreBounded` | `LeaksAreFailures` |
| `HandlersStayDistinct` | `HandlersAreDistinct` |
| `CamelToSnakeInjective` | names without three capitals in a row have attributes of their own |

`IInv` says how far a run has come and what that means for the files. `OutputsInOrder` and `TodoInv`: the
outputs end in the order of `cli.ts`, and the contracts written to the current one precede the rest.
`WrappersInv`: a file that is being written holds the last contract of its service among those written so
far (a service that two files export is written twice), and a finished output holds the last of all,
which is what the manifest keeps of them. `CompleteInv` carries the agreement to the next run. The types
of a TypeScript wrapper are not in a file: `LastIsImported` says when the contract it imports is the one
the outputs keep.

`CamelToSnakeInjective` holds for names of any length; the run tries those of at most four characters. In a
name without three capitals in a row the rules put an underscore before each capital and nowhere else
(`BreaksAreCapitals`), so the places of the underscores give back what lower-casing took away.
`HandlersStayDistinct` turns this into the count of attributes of a generated file.

## 13. What is only model-checked, and what is not modelled

Every invariant and safety property of a passing run is a theorem of its specification. Only
model-checked are the liveness properties (`DeliveredIsServed`, `CallsReturn`, `AbortedLoopsExit`, and
in `ImplementsFairContract` that every call settles), which need fairness and are out of the prover's
reach, and the four findings, whose properties do not hold.

Not modelled:

- Durations: a timer may fire at any moment after it is armed, an entry grow idle at any moment.
- Python: a `start()` that fails half-way (as in TypeScript, which `ServerLifecycle` has) and the order in
  which `aclose` closes connections.
- `Codegen`: the text of the generated files, JSON schemas and their hashes, several contracts of one
  service in one file.
- Stack traces, causes and error constructors.
- `expBackoff` and `resetable`, which nothing calls; key names, wrappers that combine a core with a
  transport, log output, interop drivers and scripts.
