# SkyJS verification project

SkyJS runs JavaScript services (QuickJS) on the skynet actor kernel. The kernel
hands a service one message at a time; inside a service an event loop runs
timers, immediates, nextTicks and promises. Native modules in C give services
sockets, processes and files, and a cluster daemon per process carries calls to
other processes. The kernel itself (`skynet/`) is a submodule outside this
tree: it is modelled from how the code here uses it, and marked external.

This directory holds TLA+ models of SkyJS's own logic, the configurations TLC
checks them with, and theorems the TLA+ proof system checks. Paths below are
relative to the repository. `PROJECT.json` lists the components, runs,
mutants, findings, hazards and theorems, and maps every definition to the
lines it models.

    tlc -workers 2 -config Cluster.cfg MCClusterd     # and the other .cfg files
    tlapm ClusterdProofs.tla                          # and the other proof modules


## 1. Inventory

| Component | Source | State it keeps | Operations | Talks to |
|---|---|---|---|---|
| Cluster daemon | `service-src/skyclusterd.c` | `nodes[]` (address, socket, frame queue), `conns[]` (socket, readiness, half-received bodies), `psend[]` and `precv[]` (requests out and in), names, two session counters | commands listen, node, register, req, push; socket events; local replies and errors | socket layer, local services, `cluster.js` |
| Cluster client | `js/builtins/skyjs/cluster.js` | table of pending calls with their timers | call, send, query, register, connect | daemon, event loop |
| Event loop | `js/internal/event-loop.js` | handles, due times, queues of nextTicks and immediates, one outstanding kernel wake-up | setTimeout, setInterval, setImmediate, nextTick, clear, refresh, ref and unref, tick | `skynet.timeout` |
| Actor bridge | `js/internal/skynet-core.js` | pending calls, pending timeouts, protocols, hooks | call, send, timeout, fork, dispatch, the reply of a handler's value or promise | kernel, `snjs.c` |
| Service loader | `service-src/snjs.c`, `js-runtime.c` | runtime and context, memory account, trap flag | `init_cb`, `worker_cb` (dispatch, jobs, tick) | kernel, event loop |
| Gate server | `js/builtins/skyjs/gateserver.js` | listening socket, map of connections, number of clients | open, close, openclient, closeclient; socket events | frame buffer, user's handler |
| Network buffers | `service-src/js-net.c` | half-received frames per socket, ring of packets | dispatch, pop, pack, clear | gate |
| TCP sockets | `js/internal/net-core.js`, `js/builtins/net.js` | handler per socket, reader with its pending reads; a Socket's timers and end | connect with timeout, read, write, TLS upgrade, close, destroy | kernel sockets |
| HTTP client | `js/internal/http-core.js` | keep-alive pool, its cleanup timer, requests in flight | request, head, requestStream, retry, closeAllKeepalive | net |
| Node http, fetch | `js/builtins/http.js`, `fetch.js` | the bytes of a connection not yet parsed, responses under way | serve, request, fetch | net |
| Streams | `js/internal/stream-core.js`, `js/builtins/stream/index.js` | buffer queue, one waiter, tail of a promise chain; flags of the Node classes | read, pull, write, end, abort, pipe; push, pause, resume, destroy, pipeline, for await | fs, net, http |
| WebSocket | `packages/websocket/lib/websocket-core.js`, `adapters.js` | socket pool, handshake state, parts of a message | accept, connect, read, write, ping, close | net |
| Subprocesses | `service-src/js-subprocess.c`, `service/subprocess-service.js`, `js/internal/subprocess-core.js` | table of processes and pipes, pump timer, waits | spawn, write, read, wait, kill, release | kernel messages, OS |
| Files | `service-src/js-fs.c`, `service/fs-service.js`, `js/internal/fs-*.js` | handles and quota per owner, policy | open, read, write, close, watch | kernel messages, OS |
| Modules | `js/loader.js`, `js/internal/module-registry.js` | cache of modules, those that run | resolve, require, runMain | runtime's file reads |
| Serialisation | `service-src/js-seri.c` | none | pack, unpack | everything |
| TLS, crypto, native, buffers, URLs, permissions, entry | see `PROJECT.json` | wrappers and data types | | |

What is hard in each, and what makes it correct:

- **Cluster daemon.** Commands, socket events and local replies interleave
  freely; connections are refused, break in the middle of a body and are
  reopened; peers crash; every table is of fixed size; indexes into `conns[]`
  outlive the connection. Correct: each request is answered once, by its own
  answer or an error; nothing waits on a link that is gone; bodies arrive
  whole, once and in order; tables are cleaned.
- **Event loop.** Kernel timeouts cannot be cancelled and have a grain of
  10 ms; a callback may change any timer of the tick in progress. Correct: no
  handle is forgotten, early, run after it is cleared, or run twice.
- **Actor bridge and cluster client.** Three tables share one session counter;
  a timeout races a late answer. Correct: a promise is settled once, by the
  answer to its own call; a cluster call always ends.
- **Gate and frame buffer.** The stream is cut anywhere; clients interleave;
  user code closes clients whose packets are queued; handlers throw. Correct:
  messages are the client's frames, whole, in order, while it is connected.
- **Streams, sockets, HTTP.** State is read before an `await` and used after
  it: concurrent readers, an end that races writes, a timeout that races
  CONNECT, a pooled connection whose close is already in the mailbox.
- **Subprocesses and files.** One actor serves many owners, waits on OS
  processes, and can be blocked by a full pipe.


## 2. Modules and plan

| Order | Modules | State |
|---|---|---|
| 1 | `Clusterd`, with `ClusterRpc` as the promise it keeps | done |
| 2 | `JsService`: bridge, loop, cluster client and `worker_cb` composed | done |
| 3 | `NetPack` and `Gate`, which composes it with `gateserver.js` | done |
| 4 | `StreamCore`, the kernel's streams, and `NodeStreams`, the Node classes; `StreamProofs` | done |
| 5 | `NetCore`: handlers, readers and TLS upgrade; `HttpClient` over it | done |
| 6 | `NetSocket`: one `net.Socket`; `WebSocket` and `NodeHttp` over it; `SocketProofs` | done |
| 7 | `Subprocess` and `FsService`: the two owner services with their clients | done |
| 8 | `ModuleLoader`: resolution, and the cache that cycles and exceptions share; proofs in `ServiceProofs` | done |
| 9 | the integer widths of `js-seri.c` | left |

Each component has its module, a `...Properties` module states what is checked
of it (`SocketProperties`, `ServiceProperties` of two components each), and an
`MC...` module with its `.cfg` files is the instance for TLC.
Where one run covers components that share no state (`Streams`, `Sockets`,
`Services`), a variable of the instance that never changes says which of
them a behaviour exercises, and the others rest in their initial states: the run
explores the sum of the state spaces, not their product, and fairness is
asked of the one that is exercised only.

Theorems done: type correctness, the answers, the held requests, the links, and the
order, number and bodies of what is served, of the cluster daemon; all safety properties of `JsService`; all properties
of `Gate`; the modules of the loader; the safety
properties of the file service and of the child processes; all safety properties of
`HttpClient`; all safety properties of `StreamCore` and `NodeStreams`; how a
WebSocket ends, and what Node's HTTP exchanges.


## 3. The cluster daemon: `Clusterd`

`Clusterd.tla` models any number of processes, each with its daemon, and the
socket layer and local services around them. One handler of `clusterd_cb` is
one action.

| Code | Model |
|---|---|
| `handle_command` listen, register, node | `CmdListen`, `CmdRegister`, `CmdNode` |
| `handle_command` req and push, with `node_connect`, `emit_frame`, `node_send_request` | `ReqUnknownNode`, `ReqConnectFails`, `ReqConnects`, `ReqQueues`, `ReqWrites` (one per early return) |
| `clusterd_cb` CONNECT, ACCEPT, CLOSE and ERROR | `OnConnect` (with `node_flush_queue`), `OnAccept`, `OnClose` (with `node_fail_pending` and `node_clear_queue`) |
| `clusterd_cb` DATA: `handle_request` on an accepted, `handle_response` on an outbound connection | `OnRequest`, `OnResponse`; `OnIgnored` for events of a socket no slot knows |
| `dispatch_local_reply`, and `clusterd_cb` on an error | `LocalReply` |
| `nodes[]`, `conns[]`, `psend[]`, `precv[]`, `names` | `node`, `conn`, `psend`, `precv`, `names` |

`sock` and `inbox` are the socket layer: events of one socket come in order,
those of different sockets, commands and replies in any order. `TcpReset` cuts
what either end had not received at any event, so also between the parts of a
body. `Crash` restarts a process with empty tables and session 0. `issued`,
`answers`, `served` are history variables.

Abstracted: bytes (a DATA event is a frame; `conn_data` cuts the stream), seri
encoding, 32 KiB chunks (a chunk is the pair of its call and its index).
Malformed frames are not modelled.

`ClusterdProperties.tla` states the properties; `ClusterdProofs.tla` and
`ClusterdBodies.tla` prove most of them (types, answers and connections; what
services are handed). `ClusterRpc.tla` is the promise seen by callers: a call is served at most once, its caller hears of it at most
once, a reply is heard only of a call that was served, and an error says
nothing about whether it was. `ClusterdRpc.tla` is the refinement mapping.

### Runs

| Run | Instance | Shows |
|---|---|---|
| `Cluster` | two daemons, a small and a large request, two sockets, one fault, one crash | `NoOrphanedCall`, `NoLeakedConnection`, `ConnectionOrder`, `BodiesWhole`, `ServedAtMostOnce` |
| `ClusterTables` | the daemons dial each other, tables of one entry, sessions wrap at 2, four calls of different kinds, a node without a port, a service that exits | `TypeOK`, `HeldRequestsTracked`, `AnsweredAtMostOnce` |
| `ClusterCalls` | one call of each kind, two sockets, one fault, fairness | `ImplementsRpc`, `AnswersOwnRequest`, `EveryRequestAnswered`, `EveryPushServed` |
| `SlotReuse` | two client daemons and one server, a connection each | counterexample, see findings |
| `LargePushLost` | one large push | counterexample, see findings |

*Bounds.* Two sockets are a connection and its successor, which is what stale
state needs; two parts are a body with a first and a last one; one fault and
one crash can fall between any two steps; tables of one or two entries make
"full" a common case. `MaxSession` = 2 makes the counter wrap. The properties
relate at most two calls, two sockets or two daemons.

*Fairness* (`FairSpec`). The kernel runs every service that has messages, so
socket events are handled; a connection attempt succeeds or fails; a local
service answers what it holds. Callers, faults and crashes are not fair. No
crash and no service that exits is in `ClusterCalls`: a request to a dead
handle is not answered (`skynet_send`'s result is not looked at,
`skyclusterd.c:493`), and the caller's escape is then `cluster.js`'s timeout,
which `JsService` checks.

*Where the checks stop.* `AnswersOwnRequest` holds in `ClusterCalls` because
one client daemon is there; with two, `SlotReuse` refutes it.


## 4. A JavaScript service: `JsService`

One service: `skynet-core.js`, `event-loop.js`, `cluster.js`, and the
`worker_cb` of `snjs.c` that runs the loop's tick after each message.

| Code | Model |
|---|---|
| `init_cb` runs the script, with no tick after it | `RunMain` |
| `worker_cb`, dispatch of requests, answers, errors, timeouts | `OnRequest`, `OnAnswer`, `OnTimeout` |
| `drainMicrotasksAndNextTick` in `event-loop.js` | `RunNextTick`, `RunJob` |
| `tick`: immediates, due timers, wake-up | `StartImmediates`, `RunImmediate`, `StartTimers`, `RunTimer`, `EndTick` |
| `scheduleWake`, `earliestWake` | `ScheduleWake`, `EarliestWake`, `SoonEnough` |
| `skynet.call`, `cluster.call` and its 30 s timeout, `skynet.timeout` | the operations of user code, `Timeout` |

A tick is a sequence of actions, one per callback, because time passes and
messages arrive between callbacks, and because a callback may set, clear,
refresh, ref or unref any handle, including one the same tick has found due.
User code does at most one thing per callback and `MaxOps` things in all; it
may do any of them at any point. The two queues of jobs are counters, since
no property tells two jobs apart. The kernel (`Elapse`, `Expire`), the senders
of requests and the services that answer are external.

Time is in units, `CS` of which are a centisecond, the kernel's grain; the run
has two, so that a delay may end between kernel ticks, and it starts at both
phases.

| Run | Shows |
|---|---|
| `JsService` | `WakeCovers`, `JobsDrained`, `SettledOnce`, `RepliedOnce`, `FiresAsSet`, `EveryHandleRuns`, `EveryClusterCallEnds` |
| `MainJobs` | counterexample, see findings |

An answer from the cluster may be one that `seri.unpack` refuses
(`NotUnpacked`): `cluster.js` has deleted the entry by then, so nothing settles
the call, and `lost` remembers it. `EveryClusterCallEnds` excepts exactly these.

`WakeCovers` says when the wake-up comes, not only that it is set: the kernel's
timeout is within a centisecond of the time the loop asked for, and that time is
not after the handle's due time, unless it is already past. So an overdue timer
needs only a wake-up that is due, whatever set it. Between two ticks this must hold
for every handle that is neither cleared nor unreferenced.

*Bounds.* Two operations make one handle meet another, or a handle meet its
own clear or refresh; the delays 1 and 3 are below `MIN_DELAY_MS` (clamped) and
not a whole number of kernel ticks; the cluster timeout of one centisecond
races the answer both ways. `MaxTime` stops the clock once only intervals that
have run are left; it does not stop it for a handle that never ran or a
pending cluster call, so the liveness properties are not cut short.

*Fairness.* The service runs while it has work (kernel workers), the clock
advances while a kernel timer runs and a due kernel timer is delivered (timer
thread). Nobody has to send or answer anything. Deadlock is not an error here:
a service with no handles and no messages rests.


## 5. The gate: `NetPack` and `Gate`

`NetPack.tla` is the frame buffer of `js-net.c` as operators: `FilterData`
(`filter_data_`), `Split` (`push_more`), the ring (`PushData`, `ExpandQueue`,
`Pop`). `Gate.tla` has one action per branch of `gateserver.js`'s `onSocket`
(`OnData`, the loop over the ring as `PopPacket` and `EndMore`, `OnOpen`,
`OnClose`, `OnListenClose`, `OnError`) and one per API call (`OpenGate`,
`CloseGate`, `OpenClient`, `Kick`). The clients' streams are cut anywhere into
deliveries; sockets close or fail at any point, also inside a frame.

The run `Gate` has three clients of which two are admitted, frames of no byte
and of one, a radix of 2 (a length still has two digits), and a ring that grows
from two slots, so that headers and bodies are cut, the ring is copied while
its head is not at 0, and an empty frame is met. It shows `FramesDelivered`,
`NothingInvented`, `NoLeakedFrame`, `MessagesWhileConnected`. Deadlock is
off: when everything was sent and closed the gate rests.

`FramesDelivered` is stated for runs in which no handler threw: a throwing
handler leaves the loop, and the packets left wait in the ring for the next
delivery of several frames, while a lone frame overtakes them.


## 6. Streams: `StreamCore` and `NodeStreams`

`StreamCore.tla` is the kernel of `stream-core.js`. A stretch of code between
two awaits is an action, and the continuations run in any order.

| Code | Model |
|---|---|
| `AsyncQueue` with its one waiter | `buffer`, `waiter`, `Push`, `Shift` |
| `Readable.read`, `_pump`, the rest of a chunk put back | `Read`, `Pumped`, `Pulled`, `ReadOn`, `Take` with `Cut` |
| `cancel`; `Writable.write` on `_tail` | `Cancelled`; `Accepted`, `SinkWrite`, `SinkAnswers` |
| `end`, `abort` | `EndCall`, `EndWaits`, `EndCloses`; `Abort` |
| `pipe` | `PipeStart`, `PipeRead`, `PipeGot`, `SourceDone`, `PipeCancels`, `PipeAborts` |

`NodeStreams.tla` is the module users see: listeners run at once, so a push
goes as far as the next stage's queue of writes in one action (`Pushes`,
`Writes`); what waits for the tail of that queue is an action of its own
(`Run`, `TransformDone`, `TailDone`, `Finish`). `Wire` is `pipeline()`,
`Iterate` is `for await`.

The run `Streams` checks, for the kernel, a source of two chunks of three bytes
and one (a read of one byte leaves a rest), a pipe, a reader and a user who
writes, ends, cancels or aborts, at most `MaxCalls` = 3 times, with `MaxFails`
= 1 failure of source or sink, among them a source that refuses to be cancelled,
which then has not ended; and for the classes a source of `Chunks` = 3, a
Transform and a Writable (`K` = 3), `MaxWhims` = 2 pauses, destroys or failures
at any point, and `SlowSpins` lets the producer be slower than `for await`
waits. It shows `ReadableKeepsBytes`, `PipeDelivers`, `PipelineDelivers` and
`StreamsSettle`. Two overlapping reads are the pipe's and the reader's; two
calls and a failure meet in every order.

*Fairness.* Continuations run (the event loop drains them after every
message); sources and sinks answer, and the producer ends. Nobody has to read,
resume or write.

Two readers that wait at once lose each other (the queue has one waiter), so
`StreamsSettle` excludes reads that overlap. A stage that is destroyed, or
paused and never resumed, holds its pipeline for ever, which it excludes too.


## 7. Sockets, HTTP and WebSocket

### `NetCore` and `HttpClient`

`NetCore.tla` has the table of handlers, the dispatch of socket events, the
BufferedReader and the TLS upgrade; `HttpClient.tla` is `httpc` over it. Between
two events of the mailbox every continuation runs (`Quiet` guards the events).

| Code | Model |
|---|---|
| `helperConnect`, its timer, `dispatchEvent`, `reader`, `tlsUpgrade` | `Connects`, `ConnectTimeout`, `Handle`, `Reads`, `Upgrades`, `HandshakeFails` |
| `poolGet`, `poolPut`, `scheduleCleanup`, `closeAllKeepalive` | `Start`, `PoolPut`, `Expire` and `Cleanup`, `CloseAllKeepalive` |
| `clientParseUrl`, `request` with its retry, `head` | `Protocol`, `Throws`, `Start`, `ReadHead`, `ReadBody`, `Fails` |
| `requestStream` | `StreamRead`, `StreamClose`, `FinishStream` |
| `httpd.readRequest`, `writeResponse`, as the peer | `Serve`, `WriteResponse` |

A token is a head, a head with a line that is none, a part of a body, the end of
chunks, a chunk size that is no number, or a handshake record. A retry parses the
second head into what the first attempt left in `recvHeaderOut`, when the caller
gave one (`before`): of equal names there is an array, so the body may be read in a
way its server did not send it (`Merged`). `OwnAnswer` says of such an answer, and of
a stream that ended at a broken chunk, that it is of this request and this
connection, but not that it is whole; `RequestsSettle` excepts the body that
follows a merged head, which may be read as longer than it is.

The run `Http` makes three requests, the second beside the first (`Beside`), by
any of the calls `Calls` lists, among them a URL without a protocol, one
whose protocol is refused, and https, which has its own pool; servers answer with the
four `Shapes`: two lengths, so that a merged length cuts a body or waits for more,
chunks, and no length; there is one place in the pool (`MaxPerHost`), so the
second connection evicts the first; three sockets (`MaxFd`) are a pooled
connection, its replacement and another; one fault (`MaxFaults`) is a refused
connect, a reset, a server that closes, answers no response or a broken chunk, a failed handshake,
an expiry, a cleanup or a timeout. It shows `ConnectionsOwned`, `OwnAnswer`,
`SentAtMostTwice` and `RequestsSettle`.

*Fairness.* Events are handled and continuations run; the socket layer
establishes, delivers and tells of ends; a server that got a request answers or
closes. Timers, faults and the user are not fair.

### `NetSocket`, `WebSocket` and `NodeHttp`

`NetSocket.tla` is `builtins/net.js`: a Socket that connects (`Fresh`) or that a
Server gives (`Given`), its two timers (`Arm`, `OnConnect`: connect arms a
second one, which forgets the first), `Write`, `Destroy`, and which events an
action emits (`Heard`).

| Code | Model |
|---|---|
| `writeFrame`, `readFrame` | `FrameTokens`, `FrameAt`: two bytes of head, the extended length, the mask, the payload |
| `wsApi.accept` with `readHandshake`, `resolveAccept`, `tryHandle` | `Accept`, `ReadHandshake`, `LoopHead`, `Gather`, `Control`, `SocketFails`, `OtherFails` |
| `connect` with `writeHandshake`, `read`, `write`, `ping`, `close` | `WsConnect`, `Greets`, `WriteHandshake`, `StartRead`, `WsRead`, `WsWrite`, `WsPing`, `WsClose` |
| `adapters.js`: the reader and the TLS upgrade | `Drop`, `Hears`, `Shakes`, `Upgraded`, `WsEvent`, `WsTimer` |
| `http.js`: `Server._handle`, `parseRequest`, `ServerResponse` | `ServerData`, `ParseRequest`, `ResponseWrite`, `ResponseEnd`, `Finish` |
| `http.request`, `fetch` | `StartRequest`, `NodeEvent`, `ParseResponse` |

The peer keeps to RFC 6455 and may fragment, interleave control frames, and end
anywhere; HTTP peers may send the next request before the answer to the last.
Payloads are names with a length, so lengths may be the real ones: whole messages
of 65536 bytes (`Lengths`), parts of 131072 (`PartLengths`: two of them are the
256 KB `MAX_FRAME_SIZE`, three are too much), user messages of 126 and 65536
(`UserLengths`), so every form of a frame's length is read and written, and both sides
of the limit are met. `Allowance` is how many frames the peer may send and how many
`troubles` there may be: cut deliveries, resets, timers and calls of the user.
Over TLS both are 1, because a record more changes nothing the frames see. HTTP
has two requests a connection (`MaxRequests`) and one part a response
(`MaxParts`). The mailbox holds one event (`MaxMail`): the next waits in the
socket layer, which keeps the race of an event with a timer or a call.

A reader hears the socket from `accept` on, or once it is connected (`Reads`):
what was dispatched before is lost to it. An accept that comes after the socket's
end was dispatched waits for ever, which `ConnectionEnds` excepts. A record is
lost to such a reader or kept whole: that an accept falls between two parts of
one is left out, as is `options.reader`, by which an HTTP upgrade hands over
what it has read. `ConnectFails` is the connect that is refused at once.

The run `Sockets` shows `MessagesWhole`, `FramesSent`, `EndsOnce`,
`NodeExchanges` and `ConnectionEnds`. *Fairness*: events are dispatched,
continuations run, and what was sent arrives.


## 8. Owner services and modules: `Subprocess`, `FsService`, `ModuleLoader`

The first two have clients in the caller's service and one owner service; a request is
a message, and so is its answer, so steps of the two sides interleave.

| Code | Model |
|---|---|
| `subprocess-core.js`, `child_process.js`: spawn, exec, wait, kill, stdin writes, start and stop by name | `UserSpawn`, `UserExec`, `UserWait`, `UserKill`, `UserWrite`, `UserStart` and `Named`, `UserStop`; one action per answer (`OnSpawn`, `OnStatus`, `OnStdout`, `OnStderr`, `OnRelease`, `OnWritten`), `Wake` for the poll every 20 ms |
| `subprocess-service.js`: handlers | `Spawn`, `Status`, `Read`, `Signal`, `Release`, `Write` with `Block`, `Unblock` |
| its tick per process: drain, waitpid, last drain | `TickDrains`, `TickWaits`, `LastDrain` |
| `js-subprocess.c` | `Launches`, `Kills`, `Emptied`, `HasEnded`, `Frees`, `NoBytes` |
| `fs-sync.js`, `fs/index.js`, `fs/streams.js` in the caller's thread | `WriteFileSync`, `AppendFileSync`, `RmSync`, `RenameSync`, `CopyFileSync`, `WriteStreamEnds` |
| `fs-client.js`, `permission.js` | `ReadFileAsync`, `WriteFileAsync`, `AppendFileAsync`, `Configure`; `Permits` |
| `fs-service.js` | `StartRead` and `EndRead`, `StartWrite` and `EndWrite`, `Refuse`: the caller's thread may run between the two |

The run `Services` has, for child processes, two child objects of which one process may be alive
(`MaxProcesses`), pipes that hold one chunk (`Room`), an output limit of two
(`MaxOutput`), two waits, and the `Programs`: one that fails to start, some that write
before they end, one that reads first, one that writes over the limit. What user
code may do with each object is bounded by `Allowances`. For files: two names,
two asynchronous calls, contents of one and two chunks, one synchronous change
(`MaxSyncs`), and `Policies` that restrict the roots, the size or writing. It
shows `OutputWhole`, `FilesTold` and `WaitsSettle`, and `OneModule` of the loader.

*Fairness.* Both services handle mail and timers, processes run, and the
caller's continuations run. `WaitsSettle` excludes a process that waits for
input nobody sends (the code never closes its stdin) and the one embrace the
code allows: the owner blocked in a write to a process that is blocked in a
write to the owner.

`ModuleLoader` is `require`, which is synchronous: what interleaves in it are
the modules of a cycle, exceptions that pass through several of them, and the
requires that callbacks make later.

| Code | Model |
|---|---|
| `_resolveFilename`, `module-registry.js` | `ResolveFilename`; `Requests` has the kinds of names, `IsInternalAllowed` who may name an internal module |
| `tryFile` to `searchNodeModules` | `TryFile`, `TryExtensions`, `TryDirectory`, `TryPathOrDirectory`, `TryEngineModule`, `SearchNodeModules` |
| `_load` | `Finds` (in the cache), `Makes` (a new module, in the cache before its source runs), `Misses`; `Loaded`, and `Fails`, which forgets the module |
| the call stack | `stack`: a frame per module whose source runs, with the steps it has left |
| `runMain`, a callback | `RunMain`, `Callback` |

A path is a place, a depth and a name: the text of paths is left out, and
`realpath` with it. The run has a service at depth 1 (`Cwd`) with nine files: two
that require each other, a package found near and one further up, one of the
workspace, a builtin, an internal module and JSON. `Scripts` lets those of the
cycle throw before, after or around each other's require, and the JSON be
malformed; callbacks require twice more (`MaxLate`) and seven modules may be made
(`MaxModule`). `OneModule` says that a file has one module that runs or is
loaded, the cached one, and who was given a module before it was loaded is in its
cycle.


## 9. Proofs

| Theorem | States |
|---|---|
| `ClusterdProofs!TypeCorrect` | `Spec => []TypeOK`: every table, frame and counter keeps its type |
| `ClusterdProofs!AnsweredOnce`, `HeldTracked` | `Spec => []AnsweredAtMostOnce`, `[]HeldRequestsTracked` |
| `ClusterdProofs!CallsHaveLinks`, `ConnectionsAreFreed` | `Spec => []NoOrphanedCall`, `[]NoLeakedConnection` |
| `ClusterdBodies!ServedOnce`, `OrderKept` | `Spec => []ServedAtMostOnce`, `[]ConnectionOrder` |
| `ClusterdBodies!ServicesGetWholeBodies` | `Spec => []RequestsWhole`, the services' half of `BodiesWhole` |
| `JsServiceProofs!FiresAsItWasSet` | `Spec => FiresAsSet`, an action property |
| `JsServiceProofs!WakeUpsCover` | `Spec => []WakeCovers` |
| `JsServiceProofs!JobsAreDrained`, `CallsAreSettledOnce`, `RequestsAreRepliedOnce` | `Spec => []JobsDrained`, `[]SettledOnce`, `[]RepliedOnce` |
| `ServiceProofs!LoaderHasOneModule` | `LoaderSpec => []OneModule` |
| `ServiceProofs!FilesAreAsTold` | `FsSpec => []FilesTold` |
| `ServiceProofs!OutputIsWhole` | `SubprocessSpec => []OutputWhole` |
| `HttpProofs!ConnectionsHaveOwners`, `AnswersAreOwn`, `SentTwiceAtMost` | `HttpSpec => []ConnectionsOwned`, `[]OwnAnswer`, `[]SentAtMostTwice` |
| `StreamProofs!PipelinesDeliver` | `NodeSpec => []PipelineDelivers` |
| `StreamProofs!PipesDeliver`, `ReadablesKeep` | `CoreSpec => []PipeDelivers`, `[]ReadableKeepsBytes` |
| `SocketProofs!EndsAreOnce` | `WsSpec => []EndsOnce` |
| `SocketProofs!ExchangesAreWhole` | `NodeHttpSpec => []NodeExchanges` |
| `GateProofs!PushAppends`, `PopTakesOldest` | the ring is a first-in first-out queue for every capacity, position of the head and growth |
| `GateProofs!FramesGiven`, `NoFrameLeaks` | `Spec => []FramesDelivered`, `[]NoLeakedFrame` |
| `GateProofs!NoneInvented` | `Spec => []NothingInvented` |
| `GateProofs!ConnectedOnly` | `Spec => MessagesWhileConnected`, an action property |

They hold for all daemons, nodes, calls, workloads and table sizes, and any
number of faults, crashes and sockets, under the named assumptions of
`Clusterd.tla` (what a workload and a command are, that bounds are naturals,
that handles, names and the query address differ), of `JsService.tla` (what
delays, calls and the clock's grain are), of `NetPack.tla` and `Gate.tla` (that a
payload's length fits in two digits, which `js_netpack_pack` demands), of
`ModuleLoader.tla` (what a file, a request and a source are), of `FsService.tla`
(what a policy, a call and its content are), of `Subprocess.tla` (that limits are
not zero, that a program is a sequence of reads and writes or cannot be started,
and that no object or record is taken for the pid 0), of `NodeStreams.tla` (that
bounds are naturals and a pipeline has two stages or more), of `StreamCore.tla` (that
the source is a sequence of chunks, that sizes and bounds are naturals, and that the
pipe's task is none of the user's), of `NetCore.tla` and
`HttpClient.tla` (that bounds are naturals, what a call and a response are, and
that a request's protocol is one of the pool's or refused), and of `NodeHttp.tla` (that
bounds are naturals). `WsSpec` and `NodeHttpSpec` are the two kinds of behaviour
of the run `Sockets`, each without the other's variables and without fairness.

- *Type correctness.* One lemma per handler, over lemmas on what the helpers
  return (frames, bodies, slots, sessions). The types of bodies say that a
  body is not empty and that its chunks are of calls, which the dispatch
  relies on when it reads whose body it has.
- *Answers.* `AnsweredAtMostOnce` alone says too little of calls not yet
  issued. `AnswersInv` adds that such a call has no answer yet, and that a
  pending entry is kept by the daemon its call was made at. The actions then reduce to five ways in which a step
  moves the callers' side (`CallerMove`: nothing, a call refused, a call that
  waits, callers told, callers forgotten by a crash); `CallerMoves` reads them
  off the actions and `AnswersStep` shows the invariant kept by each.
- *Held requests.* In the same way, `ServiceMove` has the ways in which a step
  moves `precv`, `work` and `newSession`. `HeldInv` adds to the property that
  two held requests never share a local session, because sessions only grow
  while a daemon lives.
- *Links.* `LinkInv` adds to the two properties what an inbox says of its
  socket: a CLOSE that it is down, an ACCEPT that it was connected, has no slot
  yet and, if it is down, that a CLOSE follows. Two things the code relies on
  came out: a daemon never connects to itself, and `OnClose` may unlink a node
  only because a CLOSE never comes of a socket that is up. `LinkMove` leaves of
  the actions those that open, accept, close, break or crash; every other step
  takes an event from a box or adds frames to one, which changes neither matter.
- *Requests on their way.* The frames of a request go from the queue of a node to
  the inbox of the peer, and its last frame from there to a service. `RequestMove`
  has the ways in which a step moves them: not at all, though a step may drop any and
  add other frames (`Quiet`); the first event of a socket is taken (`Takes`); a link
  comes up and its queue follows what the socket carried (`Connects`); the listener
  learns of a connection (`Greets`); a call is issued (`Sends`). Three invariants
  are shown kept by these moves. `QueueInv`: no two nodes, of any daemons, have
  one socket, and a queue that is not empty waits for a link that is not ready.
  `BodyInv`: in every line a chunk follows its header or the chunk before it, except
  where a taken frame left it, and the reassembly of that connection, if it would accept
  the chunk, has what went before. `RequestInv` speaks of the places where the
  last frame of a request, or what a service was handed, may stand: a request stands
  in one place, and of two bound for one connection the one ahead was issued
  sooner. It is shown by tracing: each move gives a map from the places after the
  step to those before (`Still`, `Shifted`, `Backed`) under which requests stood
  already, apart and in the same order (`TokensKept`).
- *Handles of a service.* `FiresAsSet` is a property of one step, and follows
  from what is known of a handle that a tick has found due. `HandlesInv` says
  it of the sets such a handle comes from: an entry of a timer or immediate set,
  or of the batch, may still run; a due time is not before the delay has passed
  since the handle was set; and a batch of timers is past due, a batch of
  immediates is no longer in its set. `HandleMove` has the ways in which a step
  moves the loop.
- *Calls of a service.* A session number belongs to at most one call, but the
  state does not say to which once it is settled. `Numbered(o)` relates the
  state to an assignment `o` of sessions to calls, and the invariant says that
  one exists; each step keeps it or extends it by the session it allocates. An
  answer in the mailbox is then of the call whose promise it settles.
- *Requests.* `RequestsInv` adds that a request stands in the mailbox once, and
  that while it does its promise is not open and it has no reply.
- *Wake-ups.* `WakeInv` holds during a tick too, when nothing need be covered:
  a wake-up that is set is still to come. It needs arithmetic about rounding to
  centiseconds (`CeilBelow`), that `earliestWake` is the least due time
  (`EarliestIsSoonEnough`, by well-founded induction), and that the generation
  of a wake-up tells it from the ones it replaced.
- *Ring.* `Content` reads a ring as the sequence of what it holds; a push
  appends to it, a pop takes its head. `WrapOnce` is the one fact about `%` there.
- *Reassembly.* `Laid` says where each frame of a client lies in the stream of its
  bytes, and `Leaves(s, k, n, u)` what `u` is left after `n` bytes that end in frame
  `k + 1`: nothing, half a header, or part of a body. `FilterFrames` shows that any delivery
  after such a `u` gives the frames it ends, whole and in order, and leaves
  such a `u` again: by well-founded induction over what is left of the delivery
  (`SplitFrames`), and from there over a header or body begun before (`JoinFrames`).
- *Gate.* `GateInv` joins five parts. `StreamKept`: the bytes given to the frame
  buffer, those of the deliveries in the mailbox and those unsent follow one another in
  the client's stream. `Lifecycle` and `EndsLast`: one `ACCEPT` comes of a socket,
  before all else of it, and nothing comes after its end, so that the start of a frame
  that `js_netpack_close` frees is not put back. `Reassembly`: while more may come, what is
  uncomplete is what `Leaves` says. `Delivered`: unless a handler threw, the frames completed
  are those given and then those of the ring, which are of one client and only there
  while the loop runs. A step takes the first event, posts one, or leaves the mailbox
  (`Shifts`, `Post`), and each part has a lemma for each of these.
- *Counting.* When a handler throws, packets stay in the ring and later ones may
  overtake them, so that `Delivered` says nothing. `Once` counts instead: of any
  one payload, and of all, the messages given, those in the ring and those
  dropped are at most as many as the frames completed. A step moves these counts
  alike (`Accounts`), by the one fact `CountJoined` about the number of members
  that a set has among `n` numbers and `m` more.

- *Modules.* `OneModule` follows from the stack. `LoaderInv` adds that the ids
  on it grow towards the top (`Frames`), that a module runs exactly if one of its
  frames is the module's own (`Running`), that a callback catches what it
  requires, and that a frame with another above it, or an exception on its
  way to it, has a require to finish. So a module found in the cache before it
  is loaded is one further down the stack, and one that throws was given to
  nobody as loaded. The files may be any set: resolution is not
  looked into.

- *Files.* `FilesTold` compares an answer with what happened during the call,
  which `call` records: the contents its file had, and whether the caller changed
  files under the service's hands (`disturbed`). `FsInv` adds that a pending call
  is in the mailbox once or its answer is on its way (`Mailed`), that each
  request runs under the policy the one before it leaves (`InOrder`), that what
  the service found when it began still holds unless the call is disturbed
  (`Began`), that while no file is half written a pending call has seen
  what its file holds now (`Seen`), and that answers not yet heard are good
  ones (`AnswersGood`).
- *Child processes.* `OutputWhole` compares what an object gave with what its
  process wrote, which two mailboxes, a record and two pipes lie between. `SubInv`
  goes along that way: what the record keeps of a stream followed by what its pipe holds is all
  the process said, until the record is truncated, which happens only to one that says
  too much (`RecordsKept`); a record that says exited is of a process that is
  `Over`, whose output and code no step changes any more; an answer to status,
  stdout or stderr, and a request that was made on the strength of one, says what
  is so of a process that is over (`Mailings`); and an object that emitted exit
  has on each stream all there was before the first end (`Children`), whichever
  of several waits was first. A release destroys a record only after exit was
  emitted, so a second wait of the same process, which fails, was not needed. A
  spawn is asked for once and answered once (`SpawnsOnce`), which is what makes
  the pid of an object that is up the pid of a process with a record. A step
  of the caller only adds requests (`AskingInv`, `AnswerInv`), one of the owner
  only moves processes on (`Moves`, `OwnerInv`), and `Grows` is what both keep.
- *Pipelines.* Between the producer and the last stage a chunk is queued on the
  readable side of a stage or among the writes of the next. `Placed(a, b)` says
  that the first `b[i]` chunks reached the readable side of stage `i` and `a[i]`
  of them went on, so that what arrived, the writes and the readable sides, read
  from the last stage back, are adjacent pieces of 1, 2, 3, .... `InOrder` says
  that such counts exist while the pipeline is whole; each step that moves a
  chunk moves one count (`Drained` for a stage that hands all it has to the next). `Ends` says
  that a stage ends after those before it with nothing left to write, which
  makes `b[K]` all chunks when the promise resolves.
- *Pipes.* A chunk on its way through `pipeTo` is still the source's, queued,
  pulled by a read that has not returned, in the pipe's hands, or written. `CoreInv` joins
  what is known of each. `OneReader`: as no two reads met, one task reads, nobody waits
  in the readable's queue, and the pipe's own read is under way exactly when the pipe
  says so. `Pulls`: while only the pipe's reads returned anything, what they returned,
  what is in the reader's hands and what is queued are, byte for byte, the chunks
  pulled from the source so far. `Exhausted`: the readable ends only after the last chunk
  or a cancel, and a pipe that saw the end has nothing left behind it. `Carried`:
  the pipe has written all it read but the chunk it holds. `Numbered`: writes are numbered
  as they were accepted, the pipe has at most one of them, and the sink got all
  before the one it is at, none twice. `ClosedAfter` and `Settles` bring these
  together when the writable closes and the pipe resolves. A step on the readable is one
  of `ReadMoves`, `TakeMoves`, `PullMoves`, `PipeGot` or `Beside` (lemma `Kinds`), and each
  part has a lemma for each of them.
- *Readables.* The property counts bytes: how often each occurs among those that
  lie somewhere, and how many lie in the readable. Counts are hard to follow through steps, so
  `Kept` says more: there is a one-to-one map (`Alike`) from the spots where bytes lie,
  in the queue, in a reader's hands and in what was returned, to spots of the pulled chunks
  that carry the same bytes. Such maps compose; they survive a sequence moved elsewhere
  (`AlikeMoved`, the queue that shifts, a hand-over to the waiter), one that is cut in two
  (`AlikeSplit`, a read smaller than the chunk) and one added on both sides (`AlikeAdded`, a
  pull). `TallyAlike` turns the map back into equal counts. `Kept` also says that
  the readable's waiter is a task that waits, for a chunk handed to any other would be
  lost. The order is `Ordered`: while no two reads met, what was returned and the one sequence that is
  queued or in hands are the pulled chunks in a row.
- *Connections.* What a request reads depends on what is under way on its
  connection, in four places: the reader's buffer, the events of the mailbox
  (mixed with those of other sockets), the wire, and what the peer was asked
  and has not answered. `Flow(fd, R, c, b, m, w)` says that these are, in order
  and without a gap, the tokens of one response `R` after the first `c`, as far
  as they go, by a function that counts how many of `R` the first `i` events
  bring. Each way in which tokens move has its lemma (`FlowDelivers`,
  `FlowPosts`, `FlowFeeds`, `FlowTaken`, `FlowCut`). `Carries` says of a request
  at each of its steps what its connection carries: nothing while it connects, one record
  while it secures, after that the answer to the request itself, whole or broken, or
  nonsense. What a connection in the pool carries is not nothing: a merged length leaves
  a part of the body behind. But it is `Left` of an answer, in which no head is (`Rest`), so the
  next answer comes `After` it; and a request that finds such a rest before its head
  fails, because the first of it is no status line. So a head that is read is that of the
  request's own answer, and from there on the body is what follows it.
- *Owners and repetitions.* `Alone`, `PoolOnce` and `Owned` are
  `ConnectionsOwned` in parts, which need that a handler is `"connecting"` exactly while the
  request on the socket connects. `Sent` says that a request is known to a peer on two sockets
  at most: the one it is on, which is new if there is another, and one that came from the pool and so
  had carried another's answer. The steps of the client are taken through
  `ClientMoves` (sockets closed and opened, owners, one request, the pool),
  those of the network through `NetMoves`, those of the mailbox through `HandleMoves`.

- *Sockets' ends.* An accept or a connection ends in one of many places: a
  frame, a handshake, the pump's end, an error, a timer, a call of the user. `Told`
  says that an end is the last that was told, and that an accept that goes on told
  none; for that an ended one must stay silent, which rests on `Stages`: a
  handler runs only at the steps where its connection may be, and a `connect` that is not
  established has nobody who hears data. `Closed` says where a socket that is destroyed or out
  of the pool is closed, with the three ways in which it is not, and needs
  `EndsMailed`: the socket layer is over before its CLOSE or ERROR is heard.
- *Node's exchanges.* `Lies(S, b, at, buffer, mail, wire)`: what the peer sent, `S`, from
  place `b + 1` on is the buffer, the data of the events that wait (`at` says where each
  ends) and what is on the wire, without a gap. A delivery, an event taken, a
  request parsed and a peer that sends move pieces of it (`LiesPosted`, `LiesTaken`,
  `LiesCut`, `LiesSent`). `Asks(S, h, n)` says where in `S` the heads of the `n` requests are;
  the buffer always begins at the head of the first request that is not
  emitted, so what `parseRequest` cuts off is that request (`DataEmits`). For a client
  `S` is the reply and `b` stays 0: when the end is heard nothing waits and
  nothing is on the wire (`MailOrder`), so the buffer is the reply. `Answers` has
  an answer in `sent` only of a response that has finished, which it does once.

Only model-checked:

- every liveness property, which is beyond the prover;
- `ImplementsRpc`, `AnswersOwnRequest` and the callers' half of `BodiesWhole`
  (`RepliesWhole`) of the daemon, which hold for the checked instances and not for all
  constants: the first two need a single client daemon (see `SlotReuse`), and a reply of three
  chunks or more that a stale slot sends to another caller may be put together with that
  caller's own;
- `MessagesWhole` and `FramesSent` of `WebSocket`, which read frames back from their tokens.

The recursive functions of `Gate` (`Split`, `PushAll`, `FlattenSeq`), `BytesOf` of the streams and
`Among`, which the pool's cleanup uses, are reasoned about by well-founded
induction over lengths: that the function exists, and then what it returns.


## 10. Findings

- `SlotReuse`: `precv[]` remembers an index of `conns[]`; a reply follows it to
  whatever connection has the slot by then (`skyclusterd.c:829`). Sessions of
  both peers count from 1, so the other daemon's caller takes it for its answer.
- `LargePushLost`: a push of 32 KiB or more has session 0 in its header and
  another in its chunks, all of which `reasm_chunk` drops (`:757`).
- `MainJobs`: what the main script queues with nextTick, a promise or
  `skynet.fork` runs only at the first message, since `init_cb` has no tick.
  `test/service/gate-main.js` works around it with a timer.

Met while modelling, and followed by the model without a run of their own:

- a stale slot may hold an outbound connection that is not ready, and the
  reply is sent on it (`skyclusterd.c:829-831`);
- a hexadecimal handle that starts with a letter is taken for a name
  (`skyclusterd.c:925`, `cluster.js:77`);
- registering a name again keeps the first handle (`:892`);
- with `conns[]` full, an accepted socket is neither started nor closed (`:973`);
- a client rejected by a full gate lowers `clientNumber` when it closes, and
  gets `disconnect` without `connect` (`gateserver.js:57-70`); one whose socket
  failed stays in `connection` if no close follows;
- `gateserver.open` passes its backlog where `listen` takes a callback (`:107`);
- `refresh()` of a one-shot timer that has fired does not arm it again, and one
  refreshed in the tick that found it due still fires in it;
- `worker_cb` returns before the tick when a socket event completes no frame;
- a cluster answer that `seri.unpack` refuses leaves its call unsettled for ever,
  as `cluster.js:31` deletes the entry before it unpacks.

Streams:

- `pipe` does not abort its sink when the source refuses to be cancelled, and the
  source has then not ended (`stream-core.js:150-154`, `:242-247`);
- `for await` gives up after 1000 turns of the microtask queue without a chunk;
- `createReadStream` and `createWriteStream` override `_read` and `_write`,
  which nothing calls: the first reads nothing, the second writes an empty file
  (`test/service/fs-main.js:86` and `docs/node-compatibility.md:880` say otherwise);
- the kernel `pipeline`'s `timeoutMs` has no effect, and writes accepted before
  a close or an abort still reach the sink after it.

Sockets, HTTP and WebSocket:

- `openConnection` leaves the socket open when the handshake fails, and a close
  during the handshake settles nothing; the upgrade of `adapters.js` is the same;
- `netConnect` does not close the socket when its timer fires before the
  connection: the late CONNECT starts it; a refused connect is told to nobody;
- an accept that comes after the socket's CLOSE was dispatched waits for ever in
  its handshake (`websocket-core.js:550`, `adapters.js:170-178`);
- `websocket-core.js:599` closes the connection if it is already closed, so one
  that ends normally stays in the pool, with its socket open;
- after an oversized or unknown frame, `accept` answers false and no ending
  callback is called; a message can be told after the user's own close;
- http parses one request of a delivery and leaves the rest for the next one;
  `ServerResponse` always keeps the connection alive while `http.request` waits
  for its end, so the two never finish together (`test/service/http-node-main.js:34`
  expects it); handlers attached in the response callback come after "end";
- `http.request` sends no content-length, `fetch` does; answers to pipelined
  requests go out in the order their handlers end;
- a retry merges the heads of both attempts when `recvHeaderOut` is given
  (`http-core.js:665`, `:71-77`), and may cut the second body, wait for more of it, or
  read it raw; a chunk size that is no number ends a stream as done (`:917`);
- `requestStream`'s body without a length is not read; its `close()` does not
  settle a read in progress; `Server._connections` only grows.

Subprocesses and files:

- `exec()`, and a `wait()` before the owner has answered the spawn, ask for pid
  0 and reject with `ERR_NOT_FOUND` (`test/service/subprocess-main.js:13` expects
  a result); so does `exec()`'s write of what it is given for stdin;
- `stdin.end()` sends nothing, so a child that reads to the end of its input
  never ends; two waits both push the output and emit exit; a wait after the
  release rejects;
- `start(name)` checks the name before an await: of two at once the first is
  forgotten; a stream whose output is over the limit is cleared, then stops;
- `configure({readOnly})` resets the roots to all paths; `appendFileAsync`
  reads at once and writes the whole file later, so an update in between is lost;
- `truncateSync` always throws, since its primitives are not exported, and
  leaves its file open; `rmSync` with `recursive` does not recurse;
- `js-subprocess.c` keeps one static table without a lock, while each service
  that spawns starts an owner of its own on its own thread (`:52`, `:194`).


## 11. What is not modelled

- *In modelled components*: the SIGNAL trap and the memory limit of `snjs.c`,
  which depend on QuickJS's uncatchable exceptions; console, hooks and
  protocol registration of `skynet-core.js`; `netpack.clear`; malformed
  cluster frames; a wall clock that is set back. Two pairs of one kind of
  thing in streams and HTTP where one shows it: the kernel's `pipeline` (a row
  of pipes), several hosts. 1xx responses and header text;
  the listening socket of a Server, UDP, half-closed sockets; directories, links,
  watchers and file handles; several owner services in one process, which would
  need steps inside a primitive of `js-subprocess.c`; pids used again; `reapAll`,
  which nothing calls.
- *Modules*: the bootstrap, which is before the loader, native packages
  (`native-loader.js`), the text of paths, symbolic links, and files that change
  while a service runs.
- *Serialisation*: `js-seri.c` is a pure encoder and decoder: no interleaving
  reaches it.
- *At all*: the TLS session itself (its upgrade is modelled where it is driven),
  crypto, native extensions, the platform entry, which wrap libraries or the OS;
  buffers, URLs and events, which are data types.
