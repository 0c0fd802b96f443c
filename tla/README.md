# A TLA+ model of mcp-moqt-transport

`mcp-moqt-transport` carries MCP (JSON-RPC) sessions over Media over QUIC
Transport.  A *control connection* moves JSON-RPC messages on a pair of MOQT
tracks; *data tracks* move resources, tool results and notifications beside it.
Almost every part of it is shared by goroutines: the callers of `Write`, the
reader, a heartbeat, timers, receive loops, and whoever calls `Close`.  This
project models those parts at the grain of their critical sections, checks them
with TLC on small instances, and proves with TLAPS, for instances of any size,
the safety properties of all of them: types, invariants, action properties and
the refinements of the abstract specifications.

Paths below are relative to the repository; unqualified Go files are in
`pkg/moqttransport`.

## 1. Inventory

| component | state | operations | what makes it hard |
|---|---|---|---|
| acknowledgment tracker (`ack.go`) | pending map, timers, closed flag | Track, Ack, Nack, timeout, Close | timers that have already fired; ids used again; Close in two halves |
| control connection (`control_conn.go`) | closed, done, readCtx, the tracker, the heartbeat | Read, Write, Close, trackAckAsync, handleInboundAck | `closed` is read once before a retried write; Close races with all the rest |
| publisher slot, track writer and reader (`track_base.go`) | ready channel, cleared flag, next group | Set, Get, Clear, Write, WriteStream, Read, Close | select, then lock; a publisher may never come |
| retry (`retry.go`) | configuration | Do | a write that took effect may be repeated |
| heartbeat (`heartbeat.go`) | running, failures, context | Start, loop, sendHeartbeat, RecordPong, Stop | the counter is read twice; its own goroutine closes the connection |
| QUIC connection pool (`quic_manager.go`) | map of entries, counters, closed flag | Get, Put, CleanupExpired, Close | dials with the lock held; keys; expiry; Close past Get and Put |
| QUIC stream manager (`quic_manager.go`) | map of streams, counters | OpenStream, CloseStream, Close | not used by any other part |
| client transport (`client.go`) | session, sessionID, pool | Connect, OnClose, SubscribeDataTrack, Close | fields without a lock; every failure must give the connection back |
| server transport (`server.go`) | listener, connections, session handlers | Listen, Accept, Serve, setupConnection, OnClose, Close | four mutexes, two registries, Close against set-up |
| session handshake (`session_handlers.go`, `session_id.go`, both transports) | session ids, slots | discovery, control and data subscriptions | both ends wait for each other |
| data-track handler (`data_track_handler.go`) | publishers, subscribers, closed flag | HandleSubscribe, Subscribe, Unsubscribe, HandleRemoteTrack, receiveLoop, StreamMessages, Close | receive loops and stream goroutines outlive the lock |
| publishing (`data_track_handler.go`) | a call's writer, its batch, its encoding goroutines | Publish, PublishStream, BatchPublish | the writer is looked up once and may be replaced; a call that gives up leaves goroutines behind |
| configuration watcher (`pkg/config/watch.go`) | current, modTime | WatchFile, poll, Stop | the file changes between two system calls |
| metrics (`metrics.go`, `metrics_http.go`) | counters | Record*, Snapshot | not modelled: atomic counters, output only |
| configuration, TLS, options, logger, MCP capabilities, command line | none that changes concurrently | parsing, start-up | not modelled |

Interactions.  `controlConn.Write` runs `Retry.Do` around `TrackWriter.Write`
and then `AckTracker.Track`; `controlConn.Read` feeds `Heartbeat.RecordPong` and
`AckTracker.Ack`/`Nack`; the heartbeat writes through the same `TrackWriter` and
calls `controlConn.Close` when it has failed too often; `Close` calls the
transport's `OnClose`, which on the client returns the QUIC connection to the
pool and on the server removes the session and closes its data-track handlers.

`PROJECT.json` lists the hazards one by one with the lines they bite at and the
properties that watch them.

## 2. Modules

| module | models | composes |
|---|---|---|
| `AckPromise` | what the tracker promises: one verdict per handle | abstract specification |
| `AckTracker` | `ack.go` | refines `AckPromise` |
| `AckTrackerProofs` | theorems about the tracker and its use | `ControlAcks` |
| `ControlAcks` | how Write, Read and Close use the tracker | extends `AckTracker` |
| `ControlConn` | Write with its retries, slot and track writer, heartbeat, Read, Close | |
| `ControlConnProofs` | theorems about the control connection | `ControlConn` |
| `PoolPromise` | what the pool promises: one borrower at a time, nothing given up is lent again | abstract specification |
| `QUICConnectionPool` | the pool | refines `PoolPromise` |
| `QUICStreamManager` | the stream manager | |
| `QUICStreamManagerProofs` | theorems about the stream manager | `QUICStreamManager` |
| `ClientTransport` | Connect, OnClose, Close of the client | extends `QUICConnectionPool` |
| `ClientTransportProofs` | theorems about the pool and the client transport | `ClientTransport` |
| `Handshake` | both ends of the set-up of sessions, `SubscribeDataTrack` | |
| `HandshakeProofs` | theorems about the handshake | `Handshake` |
| `DataTrackHandler` | one data track of a handler | |
| `DataTrackHandlerProofs` | theorems about the handler and about publishing | `DataTrackPublish` |
| `DataTrackPublish` | Publish, PublishStream, BatchPublish over the writers of the handler | extends `DataTrackHandler` |
| `ServerTransport` | Listen, Accept, registration, OnClose, Close | |
| `ServerTransportProofs` | theorems about the server transport | `ServerTransport` |
| `ConfigWatcher` | WatchFile, poll, Stop and a writer of the file | |
| `ConfigWatcherProofs` | theorems about the watcher | `ConfigWatcher` |
| `MC*` | instances for TLC | one per specification that is run |

Conventions.  A step is one critical section, one atomic operation, one select
or one call that may block; where the code holds a mutex for a whole method the
method is one step.  An operator in lower case that stands for a Go function
keeps its name.  Operators under "Mutations" are deliberate bugs; they are in
no next-state relation and `PROJECT.json` says which definition each of them
replaces when it is shown that a property can fail.  A step that changes several
fields of one record is written with one inner EXCEPT
(`[f EXCEPT ![c] = [@ EXCEPT !.a = x, !.b = y]]`): the prover's translation of
several updates at the same index is not to be relied on; where such a field
depends on its old value, that value is written out instead of `@`.

What the models leave out, per module:

* `AckTracker`: a handle is the channel `Track` returned.  Time is the freedom
  of a timer to fire at any moment.  Timestamps and error values are left out.
* `ControlAcks`: a message is a kind and an id; notifications and heartbeats
  have no id and are not tracked.  The metrics are left out.  The writer below
  is one step that succeeds or fails.  A peer answers a request once, even when
  a retry sent it twice.
* `ControlConn`: payloads are left out.  Library calls may fail at any time and
  must fail when the connection is down; `WriteObject` succeeding counts as a
  copy on the wire.  `ackTracker.Close` is in `ControlAcks`, the metrics are
  left out.  The heartbeat's timeout may pass at any time.  `recv.Close` is
  folded into the cancellation of `readCtx`, which comes right before it and has
  the same effect on the reader.
* `QUICConnectionPool`: only the counters `Get` relies on.  The cleanup loop's
  exit is not modelled: cleaning a closed pool has no effect.  A dial ends.
  Connections are numbered in the order they were dialled.
* `QUICStreamManager`: streams are their ids; the byte counters are left out.
  The library's call succeeds or fails; `OpenStreamSync` takes longer over it
  than `OpenStream`, which is no difference here.
* `ClientTransport`: its instance has two addresses, a literal one and a host
  name such as the one the repository's own deployment dials
  (`docker-compose.yml:24`, `Dockerfile.client:22`), and `RemoteAddr` gives the
  literal one for both.  `t.session` and `t.sessionID` are in `Handshake`.  The
  steps between the pool's answer and the control connection are one that
  succeeds or fails; `Handshake` has the details.
* `Handshake`: one outstanding request of each kind per connection.  The pool is
  not there: a connection is used once.  A handler of the other end may answer or
  return without a word, as the code does when `Accept`, `Marshal` or
  `FetchStream` fails; a failed `WriteObject`, whose error is ignored, counts as
  the same.  `SubscribeDataTrack` reads `t.session` twice, and on a nil session
  the client's process ends (`AttachPanics`).
* `DataTrackHandler`: one track name (tracks share only the lock and the closed
  flag).  `HandleData` takes five steps: the closed flag, the look-up, the select
  on the subscriber's context, the call of the handler, and the handler's own
  select.  A panic ends the process: nothing runs after it.
* `DataTrackPublish`: a message is its position in the call.  Callers share
  nothing but the registry of writers and the group counter of a writer, which
  is in `ControlConn`.  A caller's context that is done, an encoding error and
  an error of the library are failures that may happen at any of the steps that
  look for them.  The metrics are left out.
* `ServerTransport`: an acceptor is one call of `Connect` (or one round of
  `Serve`) with its connection.  The server's own pool is never used by the
  code.  Each of its mutexes is a step and not a lock that is held, so an order in
  which they could deadlock would not be seen.  The metrics server is there from
  the end of `Listen`; in the code a goroutine started by `Listen`
  (`server.go:87-89`) binds it a little later.  A heartbeat cannot close a
  connection before it is registered: its first tick comes after 30 seconds.
* `ConfigWatcher`: two writes never share a modification time; errors of the
  file system other than a bad file are left out.

## 3. Runs

Passing runs; each explores the complete state space of its instance.

| run | instance | properties | shows |
|---|---|---|---|
| `acks` | request 1, response 1 (same id) and request 2; 2 of them tracked; fairness | `AtMostOneVerdict`, `ClosedSettles`, `TimeoutIsOwn`, `PromiseKept`, `EveryTrackSettles`, `AckedWasAnswered`, `AnswerSettles`, `WatchersExit` | no channel is sent to twice; Close leaves nobody waiting; timeouts have a cause; the tracker implements `AckPromise`; only what the peer answered with a result is acknowledged; closing releases the watcher goroutines |
| `conn_writers` | 2 writers (symmetric), 2 attempts each | `GroupsUnique`, `SuccessWasSent`, `SilentAfterClose` | a success means the object was written; silence after Close; no group number used twice |
| `conn_heartbeat` | 1 writer, 2 beats, 1 inbound message, `MaxFailures` 2, fairness | `HeartbeatCloseJustified`, `CloseReleases` | the heartbeat closes only after consecutive failures; Close ends every goroutine |
| `client` | 2 clients, a host name and the literal address it resolves to, pool limit 2, 3 dials, fairness | `StatsMatchPool`, `PoolKept`, `NothingLeftOpen`, `PutBackIsIdle`, `PoolCallsReturn` | counters agree with the map; the pool implements `PoolPromise`; no connection left open after Close; entries dialled by address go idle when put back; nobody waits for ever |
| `data_track` | 2 subscribers, 2 remote tracks, 2 publishers, channel of 1 | `LoopReachable`, `ReplacedIsReleased`, `CloseReachesLoops` | receive loops stay reachable; replaced registrations are released; Close tells the loops that read, and those at a full channel but for one case, to end |
| `publish` | 1 caller, up to 3 messages, batches of 1 or 2, 3 subscriptions of the peer, fairness | `MessagesInOrder`, `OneBatchAfterClose`, `PublishEnds` | the wire carries a prefix of the messages in order, all of them on success; a writer that was closed falls silent within one subgroup; calls and their goroutines end |
| `server` | 3 acceptors, fairness | `ListenerGone`, `UnregisteredIsClosed`, `CloseClosesHandlers`, `CloseReleasesAcceptors` | Close against set-up: no listener stays open, handlers registered before Close comes to them are closed, everybody gets an answer |
| `handshake` | 1 connection, 2 session ids, 1 `SubscribeDataTrack`, fairness | `EstablishedIsTwoWay`, `ConnectReturns` | the two ends never block each other; Connect returns and no session stays half open, but for a handler that does not answer |
| `config` | 4 writes, one of them invalid, fairness | `StampNotLate`, `DeliveredInOrder`, `CatchesUp`, `StopEndsLoop` | stamps, order of delivery, catching up, Stop |

`AcksTypeOK`, `ConnTypeOK`, `ClientTypeOK` and `ServerTypeOK` are checked by the
runs of their components, and proved; the type invariants of the tracker, the
data-track handler, publishing, the handshake, the watcher and the stream
manager are proved only.

Bounds.  Two of each actor are enough for the races modelled here: every
property speaks of one or two actors, and every hazard listed needs one actor's
step between two steps of another.  `MaxTracks`, `MaxBeats`, `MaxInbound`,
`MaxConns`, `MaxSubs`, `MaxLoops`, `MaxPubs` and `MaxWrites` only limit how
often the environment acts.  They cover the longest scenario a property speaks
of: two Track calls are an entry and its replacement, or two ids side by side
(the tracker's safety is proved for any number); three messages in batches of
two are a full batch and a short one, and three writers one that is looked up,
one that replaces it and one that replaces that; with `MaxFailures` 2, two beats
and one inbound message are a failure, a sign of life that resets the count, and
a failure that then must not close; three dials are a full pool and one
connection more after a place became free.  `MaxBeats` 0 in `conn_writers`
leaves the heartbeat to `conn_heartbeat`; it takes group numbers by the same
step (`takePublisher`) as the writers do.  One caller is enough in `publish`
because calls do not see each other.  `handshake` has one connection because its
properties speak of one; what several connections of a transport do to each
other is in `OneSession`, which is proved for any number of them and has no run.
`CHECK_DEADLOCK FALSE` is set wherever the
system may have nothing left to do: everything closed, or the bound reached.

Some properties are stated with the exception the code makes:
`EveryTrackSettles` and `ClosedSettles` leave out a handle whose entry a later
`Track` replaced (`ack.go:86`); `AnswerSettles` leaves out an answer read before
its message was tracked; `CloseReleases` leaves out a writer waiting in `Get`
with a live context (see `conn_blocked`).  `PutBackIsIdle` leaves out entries
filed under a host name, which `Put` never finds again (`quic_manager.go:185`).
`CloseReachesLoops` leaves out a loop at the full channel of a stream that
registered after the drain; `CloseClosesHandlers` leaves out handlers that are
registered after Close has been at the registry of sessions, which only their own
`OnClose` closes, if it is still to come (`server.go:214`).  `ConnectReturns`
leaves out a Connect whose request a handler of the server has left without an
answer, on a live connection and with a context nobody cancels, and
`EstablishedIsTwoWay` a session whose client's handler has done so to the server.
`TimeoutIsOwn` permits the timer of an earlier message to time out a newer one
with the same id (`ack.go:82`), `SuccessWasSent` a failure reported for a write
that took effect, `DeliveredInOrder` the default configuration that a truncated
file gives, and `StampNotLate` speaks of poll and not of the first load.

Runs that TLC refutes, each with a finding in `PROJECT.json`:

| run | property | what the code does |
|---|---|---|
| `conn_blocked` | `WritersReleased` | a Write waiting for a publisher is not released by Close: `Clear` does not wake `Get` |
| `client_reuse` | `IdleNotClosedHere` | `controlConn.Close` closes the QUIC connection and `OnClose` then puts it back as idle |
| `track_panic` | `StreamStops` | cancelling a stream closes its channel while a receive loop is on its way to send on it; the send panics |

### Seen while modelling, not checked by a run

* `ack.go:86`: tracking an id again replaces the pending entry without settling
  the old channel.
* `control_conn.go:177`: a response read before `Write` has tracked its request
  resolves nothing, and the message later times out.
* `control_conn.go:222`: `handleInboundAck` counts an acknowledgment, and the
  watcher of the entry it settles counts it again (`control_conn.go:198`).
* `heartbeat.go:88`: after a timeout the heartbeat waits for its write without
  limit, so a write that never returns is never counted as a failure.
* `errors.go:12` against `docs/api.md:135`: a `Write` overtaken by `Close`
  returns the error of the writer or of the context, not an `MCPError`.
* `quic_manager.go:185`: `Put` looks for the key `RemoteAddr` prints, `Get`
  files under the address it was given; with a host name they differ, the entry
  stays in use with nobody holding it, and the pool fills up.  `Client.cfg` has
  such a name.
* `quic_manager.go:85`: idle time is counted from the last `Get`.
* `client.go:88`: closing an older connection clears the session of a newer one.
* `client.go:109`: `SubscribeDataTrack` reads the field again after the test for
  nil, and on a nil session `Subscribe` panics (`data_track_handler.go:302`).  The
  model has the panic.
* `session_handlers.go:133-144`: a discovery handler that fails after `Accept`
  writes no object and resets nothing; the client waits in `ReadObject`
  (`client.go:131`) until its context ends.  `subscribeHandler` (lines 32-34)
  returns without an answer when `Accept` fails, and `Connect` or
  `setupConnection` waits in the same way.
* `data_track_handler.go:217`: `HandleData` tests `closed` before it looks the
  subscriber up.  A stream that passed its own test before Close and registers
  after the drain can receive one more message, and with its channel full the
  loop stays there until the stream's context ends.
* `data_track_handler.go:423`: with `batchSize` 0 the loop never advances, and
  opens empty subgroups for ever; `DataTrackPublish` assumes positive sizes.
* `data_track_handler.go:110`: `HandleSubscribe` does not test `closed`; a
  writer registered after Close has drained the map is never closed, and a call
  already past its own test publishes on it.
* `data_track_handler.go:171`: at the first encoding error the call returns and
  leaves the other goroutines running; the capacity of `errCh` lets them end.
* `quic_manager.go:341`: a stream opened past the test of `closed` is filed
  after Close has drained the manager and stays open.  A unidirectional stream
  is never counted as closed (`quic_manager.go:400`).
* `heartbeat.go:58`: when a heartbeat is started again after Stop, the old loop's
  deferred `running.Store(false)` may come last, and the next Stop then does
  nothing; and a loop that has not seen the cancelled context yet reads the new
  one from `h.ctx` (line 62) and goes on beside the new loop.  Nothing in the
  repository starts a heartbeat twice.
* `retry.go:44`: with `MaxAttempts` 0 or less, `Do` calls nothing and returns
  nil.
* `server.go:215`: a session may register its handlers after Close, and after its
  own `OnClose`, have passed; they stay registered and open for ever;
  `server.go:199` sets `OnClose` after the heartbeat was started.
* `watch.go:46`: a write between the first load and the first `Stat` is missed
  until the next one.  `CatchesUp` speaks of writes after the start.
* `server.go:131` says that `handle` "is called synchronously per accept by
  default" while `Serve` starts a goroutine for it (`server.go:158`).

### Fairness

Weak fairness of a step that is enabled says that a goroutine which can run is
run, a timer fires, a library call returns.  It is assumed for the code's own
goroutines only; callers, peers, clients and writers of the file are not obliged
to do anything.  Exceptions, each stated where it is used: strong fairness for
goroutines waiting for the pool's mutex (Go's mutex hands over to a waiter that
starves) and for the watcher's select (which picks at random among ready cases);
in the server, that the set-up of an accepted connection ends by an answer or an
error; in the handshake, that requests on a live connection reach their handlers,
which run, and may or may not answer.
`DataTrackHandler` has no liveness property: whether a stream ends depends on
its consumer, who owes nothing, so `CloseReachesLoops` says instead what a
blocked loop has been told once Close has drained the handler.  `PublishEnds` assumes that a call which can go
on does, that its encoding goroutines run and that calls of the MOQT library
return; nobody is obliged to subscribe or to close.

## 4. Theorems

`AckTrackerProofs` proves, for every set of ids and every `MaxTracks`:

* `TrackerTypes`: the type invariant;
* `OneVerdict`: no channel is sent to twice, also when ids are tracked again;
* `CloseSettlesAll`: once Close has returned, every channel whose entry was not
  replaced has its verdict, and no timer of an id tracked once is left running;
* `OwnTimeout`: a timeout verdict comes from a timer of the same id that was
  armed for this message or an earlier one;
* `TrackerKeepsPromise`: `TrackerSpec` implements `AckPromise`.

Except for the types none of these is inductive.  `OneVerdict` needs to know
that an entry which is still pending has not been sent to; for that pending
entries must be handed-out handles, each filed under its own id.
`CloseSettlesAll` needs, in addition, that the newest handle of an id is either
still pending under it or has its verdict, that nothing is pending after the
drain, and that the timer of an id tracked once is armed only while its entry is
pending.  `OwnTimeout` needs that no handle with a timer is newer than the entry
pending under its id.  `TrackerIInv` is the conjunction of these parts with the
type invariant (`PendingOK`, `FreshOK`, `SentOK`, `NewestOK`, `DrainedOK`,
`TimerOK`, `TimeoutIsOwn`).  Its proof has one lemma per action (`TrackInv`,
`ResolveInv`, `TimerInv`, `CloseInv`) over three lemmas shared by all of them:
`SettleInv` (what sending one verdict preserves), `TimersKept` and
`TimeoutsKept` (what a step that tracks nothing preserves).  The refinement maps
`promised` to the handles handed out and `verdict` to itself; `PromiseStep`
shows that every step is a `Promise`, a `Settle` or a stutter.  The only
assumption is `TrackerAssumption`: `MaxTracks` is a natural number.

The same module carries this over to `ControlAcks`.  `AcksUseTracker` proves that
`AcksSpec` implements `TrackerSpec`: whatever Write, Read, Close and the watcher
goroutines do to the tracker is one of its operations, or nothing, so that all
of the above holds on a control connection (`AcksKeepTracker`).  `AckedHasAnswer` and
`AnswersSettle` then hold for any set of messages, requests and responses that
share an id included.  They need `TrackedOK`, which ties each handle to the one
message it was returned for and to that message's id, and that the peer does not
both answer and refuse an id (`answered \intersect refused = {}`).
`AnswersSettle` is an action property: what it adds to the invariant is
`OnlyHandle`: while no response of this endpoint has taken its id, the handle of a
tracked request is the only one with that id, so an entry that is found is its own
and one that is missing was settled.

`ControlConnProofs` proves `ConnTypes`, `GroupsDiffer`, `SuccessSent`,
`CloseJustified` and `ClosedIsSilent` for any set of writers, any number of
attempts, beats and inbound messages, and any `MaxFailures` (`ConnAssumption`).  `SuccessSent` is
not inductive: `CallOK` adds how many copies each place in Write may have put on
the wire, counted against the attempts.  `CloseJustified` rests on `CloseOK`: the
heartbeat's counter never exceeds the beats missed since the last sign of life,
although it is read twice and reset by another goroutine in between.
`ClosedIsSilent` needs that the connection is down once Close is about
to call `OnClose`, so that a thread past the slot cannot open a subgroup or write.
`CallStepInv` says once what a step of one thread may do to its call; each
action is shown to be such a step.

`ClientTransportProofs` proves, for any clients, addresses and connections, any
`MaxPoolSize` (0, no limit, included) and any `MaxIdle` (`PoolAssumption`):

* `ClientUsesPool`: `ClientSpec` implements `PoolSpec`; the control connection
  that closes its QUIC connection is, for the pool, a peer that does;
* `LimitHolds` (`StatsMatchPool`), `CloseLeavesNothing` (`NothingLeftOpen`),
  `PoolKeepsPromise` (`PoolKept`), and what the promise comes to for two clients,
  `HolderIsAlone`;
* `PutBackGoesIdle` (`PutBackIsIdle`): an entry in use is held by a client,
  provided that it is filed under the address its connection reports.  Nothing is
  assumed of `RemoteAddr`; for host names the condition is false, see
  `quic_manager.go:185` above.

`PoolIInv` has four parts beside the types.  `HolderOK` says of each goroutine
that it has the mutex while it dials, that its connection is its own, and that
the entry of that connection is not idle and, if it is in use, filed under the
address the goroutine asked for.  `EntryOK` says that the map has all
connections that live.  `ClosedOK` is `NothingLeftOpen` with what makes it
inductive: a goroutine that waits in Put while Close drains has a dead
connection.  `CountersOK` adds to the counters that there is room for one more
connection as long as somebody dials; that is where the mutex, held from the
test of the limit to the end of the dial, is used.  The cardinalities are taken
from the library's theorems about finite sets.  The refinement maps `lent` to the
goroutines that have a connection, `shelf` to the idle entries and `made` to the
connections dialled; a hit and a dial are `Lend`, a Put that ends is `GiveBack`,
the cleanup and Close are `Discard`, and everything else is a stutter
(`PoolStepKeepsPromise`).  `ClientIInv` adds that a client with a control
connection has its QUIC connection.

`ServerTransportProofs` proves `ServerTypes`, `NoListenerLeft` and
`HandlersAttended` (`UnregisteredIsClosed`) for any set of acceptors.
`ListenerOK` follows Close from section to section (past the listener, none is
open; past the metrics server, none runs), and `RegisteredOK` says which of the
two registries a session may be in at each place of its set-up.  That handlers
are closed in the end is liveness (`CloseClosesHandlers`) and left to TLC.

`DataTrackHandlerProofs` proves `HandlerTypes`, `Replaced`, `Reachable` and
`CloseReaches` (`CloseReachesLoops`) for any number of subscribers, remote tracks
and writers and any capacity of a stream's channel (`TrackAssumption`).  A loop
can only be cancelled through its subscriber's reader field if it is the one
recorded there, and what HandleData has found must have been registered, so that
it is current or cancelled whatever happens to it between the look-up and the
send.  `HandlerIInv` therefore says what holds of each subscriber
(`SubscriberOK`: registered means current or cancelled, a closed channel belongs
to a cancelled stream) and of each loop (`LoopOK`), and of the writers
(`PublishersOK`).  A step of one loop is followed for that loop alone
(`LoopStep`); what subscriptions, Unsubscribe and Close do to the loops is
`LoopKept`.

For the calls that publish, the module proves `PublishUsesHandler` (`PublishSpec`
implements `HandlerSpec`, so that the above holds beside them), `InOrder`
(`MessagesInOrder`) and `LateOnce` (`OneBatchAfterClose`), for any number of
callers, messages and writers and any positive batch sizes
(`PublishAssumption`; with size 0 the loop does not end, see section 3).
`MessagesInOrder` says nothing of a batch that is being encoded, and that is
where it could be lost: `MarshalOK` counts results, encoding goroutines by
encoding goroutine.  Each of the batch that has ended has its result received or
in `errCh`, one that failed has it in `errCh` still, so when as many results as
messages were received without an error, every message is in the slice that is
handed to `WriteStream`; this takes the library's theorems about cardinalities
and sequences.  `WireOK` then says how much is on the wire at each place of the
call, and `LateOK` where a call with a subgroup on a closed writer can be.

`HandshakeProofs` proves `HandshakeTypes` and `OneSession`
(`OneSessionPerConnection`) for any set of connections and any set of session
ids.  The property is not inductive: `SessionOK` adds that a client's ids come from the server's end of its own
connection, and `OwnIDs` that two connections never have the same id, which is
what `generateSessionID` is for.

`ConfigWatcherProofs` proves `WatcherTypes`, `StampIsNotLate` and `InOrder` for
any number of writes.  `WatchIInv` adds to `StampNotLate` that what poll has
looked up is not later than the file, and that what it has loaded is not older
than what it looked up before; `OrderIInv` that nothing in the watcher is newer
than the file, and what poll is about to deliver not older than what it
delivered.

`QUICStreamManagerProofs` proves `ManagerInvariant`, `CountersMatch` and
`StreamsKept` for any number of goroutines, streams and calls, which is why the
manager has no run.  `GaugesMatch` needs that filing a stream adds an id to the
map that was not there (`NothingOverwritten`), and that needs `IDsOK`: ids are
never above the counter they were taken from.

Every safety property of a passing run, invariant or action property, and both
refinements are proved.  Only model-checked: liveness (`EveryTrackSettles`,
`WatchersExit`, `CloseReleases`, `PoolCallsReturn`, `PublishEnds`,
`CloseReleasesAcceptors`, `CloseClosesHandlers`, `EstablishedIsTwoWay`, `ConnectReturns`, `CatchesUp`,
`StopEndsLoop`), because liveness under fairness and ENABLED are outside the
prover's reach; and the three properties of the runs that TLC refutes, which are
false.  Nothing here needs induction over data: where the code counts or
concatenates, the invariants speak of lengths and cardinalities.

## 5. Plan

Done, in this order: the tracker with its promise and proofs; acknowledgments on
the control connection; the control connection; the pool and the client
transport; the data-track handler; the server transport; the handshake; the
configuration watcher; publishing; the stream manager; the pool's promise;
proofs of the handler, the handshake, the watcher and the stream manager; proofs
of the acknowledgments on a connection, the control connection, the pool with
the client transport, publishing and the server.

Next:

1. Proofs: what the two promises imply by themselves (a settled handle stays
settled; what was given up stays given up); that a group number is never given
out again at any later time, as an action property of `ControlConn`.
2. The heartbeat on its own: Start after Stop, `IsHealthy`, two loops.
3. The delays of `Retry` as a function, with jitter, against its bounds.

Not modelled and not planned: parsing and validation of configuration, TLS
set-up and options (sequential, no state that changes), the logger, the text
format of the metrics, the registration of MCP capabilities and the command line
(output and start-up only), the buffer pool of `track_base.go` (memory reuse).
