# obsr: a formal model

obsr keeps a tree of objects and typed entries in step between programs. One
program runs a server, the others run clients; each has a storage of its own, and
what a program sets or deletes is sent, stamped with the time, to the others.
This directory models that program in TLA+, checks the models with TLC and proves
part of what they show with TLAPS.

Line numbers are those of `src/` at the commit that is modelled.

## 1. The system

### 1.1 Components

| component | code | state | operations | module |
|---|---|---|---|---|
| storage | `src/src/storage/storage.cpp` | `m_entries` (handle table), `m_paths`, `m_ids`; per entry: value, stamp, network id, flags dirty/created/deleted | `get_or_create_entry`, `set_entry_value`, `clear_entry`, `delete_entry`, `delete_entries`, `on_entry_created/updated/deleted/id_assigned`, `act_on_dirty_entries`, `clear_net_ids`, `on_clock_resync` | `StorageOps`, `Storage` |
| listener storage | `src/src/storage/listener_storage.cpp` | `m_listeners`, `m_pending_events`, its thread | `create_listener`, `destroy_listener`, `notify`, `on_clock_resync`, `thread_main`, the destructor | `Listeners` |
| network server | `src/src/net/server.cpp` | `m_clients` (known ids, outgoing queue), `m_id_assignments`, `m_next_entry_id` | message handlers, `process_updates`, the handshake, start/stop | `ObsrNet`, `Replicas` |
| network client | `src/src/net/client.cpp` | `m_state`, outgoing queue, sync timer, `m_mutex` | `update` with its states, message handlers, `process_storage`, connection loss, stop | `ObsrNet`, `Clock`, `Looper` (its mutex) |
| messages, parser | `src/src/net/serialize.cpp`, `src/src/util/state.h` | `m_outgoing`; the parser's state, its data | `enqueue`, `process`, serializing, parsing state by state | `Messages`, `Codec` |
| clock | `src/src/util/time.cpp` | `m_offset`, `m_rtt2` | `now`, `sync`, `adjust_time` | `Clock` |
| socket_io, reader | `src/src/net/io.cpp`, `src/src/util/state.h` | read and write buffer, the reader's state, whether `event_out` is asked for | `start`, `write`, `on_read_ready`, `on_write_ready` | `Transport`, `Channel` |
| circular buffer | `src/src/io/buffer.cpp` | array, `m_read_pos`, `m_write_pos` | `read`, `write`, `find_and_seek_read`, `read_from`, `write_into` | `CircularBuffer` |
| looper | `src/src/events/events.cpp` | `m_handles`, `m_fd_map`, `m_updates`, `m_timer_handles`, `m_execute_requests`, what epoll watches | `loop`, `add`, `remove`, `request_updates`, `create_timer`, `stop_timer`, `request_execute` | `Looper` |
| instance objects | `src/src/instance.cpp` | `m_objects`, `m_object_paths` | `get_object`, `get_child`, `get_entry`, `delete_object` | `Objects` |
| handle table | `src/src/util/handles.h` | array of slots | lowest free slot, release, iteration | in each module that has one |
| OS wrappers | `src/src/os/` | none | system calls | what callers see of them |
| values, wire encoding | `src/include/obsr_types.h`, `src/src/io/serialize.cpp` | none | make, write, read | `Codec` |
| API, errors, build | `src/src/obsr.cpp`, ... | none | forwarding | not modelled |

### 1.2 How they interact

```
  program ──API──▶ instance ──▶ storage ──notify──▶ listener storage ──▶ callbacks
                      │            ▲  │ act_on_dirty_entries               (own thread)
                 start/stop        │  ▼
                      ▼      network server / client ◀── clock (sync, resync)
                    looper ──timer──▶ │ message_queue, parser
                      │               ▼
                      └──read/write──▶ socket_io ── circular buffers ── TCP
```

Four kinds of thread meet. Programs call the API; the looper's thread runs every
network callback and timer; the listener storage's thread runs the callbacks of
listeners; and each of them may be on another machine's end of a connection.
Storage methods hold a recursive mutex from start to end, so each is atomic. The
listener storage opens its mutex around every callback. The network code needs no
lock among its callbacks, as they share one thread.

### 1.3 What is hard, and what makes each component correct

* **Storage.** A local change and a message about the same entry cross. Entries
  are revived, deleted twice, named by an id before they have a value; calls throw
  half way. Correct means that both indexes fit the table, listeners can follow
  the readers from events alone, a local change stays dirty until it is sent or a
  newer one wins, and the order of arrival of stamped changes does not matter.
* **Server and clients.** Ids are chosen by the server and are told to each client
  separately, so what names an id must come after the message that introduces it.
  Handshakes overlap writes. Connections break anywhere, servers restart and
  number anew. Correct means that an id means the same path everywhere, all nodes
  come to read what was written last, and clients get in again. The last is not
  so where connecting fails for good, which 5.13 lists.
* **Clock.** Requests and answers straddle reconnections; what was measured must
  be near the truth, and applying it must bring the clocks together.
* **Listeners.** Listeners come and go, and slots are reused, while an event is
  being handed out. Correct means that none is called twice or out of order, none
  that should hear is missed, and the thread does not sleep through an event.
* **Looper.** Callbacks close and open sockets while results of the same poll are
  still to be handed out, and flag changes are queued. Correct means that a
  callback only gets what was reported for its own socket, the poller watches what
  the masks say, and `stop` returns and leaves nothing behind.
* **Transport.** TCP splits messages anywhere, buffers wrap and fill, a
  reconnection keeps what the last one left. Correct means that what is delivered
  was written, whole, in order, and that nothing is left lying.
* **Messages.** Some messages pass the queue, some do not fit, and the parser is a
  state machine that keeps data from one message to the next; writer and reader
  spell out the same layout in two places. Correct means that they agree, order is
  kept, and nothing waits for ever.
* **Objects.** Deletions leave paths in the index and slots are reused. Correct
  means that a path still has one object, and parents are found.

`PROJECT.json` lists the hazards one by one, at their lines, with the property that
would catch each.

## 2. Modules

| module | extends | stands for |
|---|---|---|
| `StorageOps` | standard modules | the storage's methods as functions from a storage to what a call leaves: `[store, notes, threw, at]` with the events in `notes` |
| `Storage` | `StorageOps` | one storage, its callers, and peers that send anything in any order |
| `StorageOpsProofs` | `StorageOps`, `TLAPS` | what each of those functions keeps, as lemmas |
| `StorageProofs` | `Storage`, `StorageOpsProofs` | theorems about `Storage` |
| `ObsrNet` | `StorageOps` | a server and its clients, one storage each, joined by connections |
| `ObsrNetProofs` | `ObsrNet`, `StorageOpsProofs` | theorems about `ObsrNet` |
| `Replicas` | standard modules | abstract: what a server promises to clients that only listen; `ObsrNet` implements it |
| `Clock` | standard modules | a client's clock and the exchange that syncs it |
| `Listeners` | standard modules | listener storage, its thread and the threads that call it |
| `ListenersProofs` | `Listeners`, `TLAPS` | theorems about `Listeners` |
| `Looper` | `SequencesExt` | the event loop's thread, a thread that starts and stops, epoll |
| `LooperProofs` | `Looper`, `TLAPS` | theorems about `Looper` |
| `CircularBuffer` | standard modules | the ring buffer's methods as operators on `[cells, read, write]` |
| `Transport` | `CircularBuffer` | one direction of a connection: writer, kernel stream, reader |
| `Channel` | standard modules | abstract: what a connection promises; `Transport` implements it |
| `ConnectionProofs` | `Transport`, `Clock`, `TLAPS` | theorems about `Transport` and `Clock` |
| `Codec` | `SequencesExt` | constructors of values, numbers and values on the wire, the layout of each message |
| `Messages` | `Codec` | message queue, serializer, a connection that may be full, and the parser at the other end |
| `MessagesProofs` | `Messages`, `TLAPS` | theorems about `Messages` and `Codec` |
| `Objects` | `SequencesExt` | object table and path index of the instance |
| `ObjectsProofs` | `Objects`, `TLAPS` | theorems about `Objects` |
| `MC...` | the module | sets and bounds for TLC |

`Storage` and `ObsrNet` share `StorageOps`: every message handler of the network
uses the functions the lemmas of `StorageOpsProofs` are about, and
`StoresConsistent` states the same invariants of every node of the network.

A loop of the code over a sequence (the entries a tick publishes, the entries a
handshake greets with, the names of a path) is a recursive function over the
numbers of its passes, so that a proof can follow it pass by pass.

The network is modelled in layers. `Transport` shows that `socket_io` is a `Channel`:
whole messages, in order, once. `Messages` puts the queue and the parser on such a
channel and shows that what is heard is what was asked for, in order. `ObsrNet` takes
both for granted: its connections are sequences of messages. And `ObsrNet`, for the
clients that only listen, implements `Replicas`.

Definitions whose names begin with `Faulty` are variants with a mistake the code
could plausibly contain. No specification uses them: they serve to show that a
property notices the mistake.

### 2.1 Storage

A storage is a record. `entries` is the handle table: entries are never released,
so the lowest free slot is the next one, and the table is a sequence. `paths` and
`ids` are the two maps. Each method is one operator, with every early return and
exception:
`SetEntry` is `set_entry_internal` (line 360), `DeleteEntry` is
`delete_entry_internal`, `GetOrCreate` is `get_or_create_entry`, `OnEntryCreated`,
`OnEntryUpdated`, `OnEntryDeleted` and `OnEntryIdAssigned` are the handlers. An
exception keeps what was done before it.

Two variables of `Storage` watch from outside and influence nothing. `view` is what a
listener that hears every event believes; an event that contradicts earlier ones
(a created event for an entry it knows, a wrong old value) turns it to `Broken`.
`shared` is what the network last saw of each entry. Peers are not modelled: any
id, path, value and stamp may arrive at any time, which includes everything lost,
repeated and reordered. The clock moves freely, also backwards, as a sync may move it.

### 2.2 Server and clients

One action is one callback on a looper: a tick of the update timer, with
everything `update` does in that state, or one message with its whole handler.
A message goes first to the outgoing queue of its `message_queue`; a tick moves the
queue to the connection; `immediate` ones go there directly. Connections are
sequences, lost when the connection breaks, but for what a client's write buffer
still holds: a suffix of `up`, which the next connection sends first, be it to the same
server (`Disconnect`) or to a restarted one that numbers anew (`RestartServer`).
Only a restart of the client empties it. A client goes from
`opening` through `in_handshake_time_sync` and `in_handshake` to `in_use`.
`ConnectFails` is an attempt after which no other can succeed, for one of the causes in 5.13;
the client is then in `stuck`, and `Connect` is disabled for it. Restarting the client
may or may not end that, since the looper outlives it. An attempt that fails and can be
repeated changes nothing and has no action. `MaxStuck` bounds the clients that are `stuck`.
The
parser's message keeps its fields from one message to the next, and as
`entry_create` carries no id, the handler sees the id of an earlier message
(`server.parsed`): the module follows that, with any initial value for a run
that says so. `written` lists the readings programs gave each path, one after the
other and when, and `latest` is the last of them; `missed` has the paths whose
deletion was told while some client was away. `HomeOf` gives each value one path, so that a value seen under another one
tells that ids were mixed up.

All nodes read one clock here. What syncing does is the business of `Clock`.

`Replicas` knows a history of readings for each path and how far each client has come
in it: it may skip some, it never goes back. The refinement mapping (`Come`) finds
that place from the client's reading and its stamp: the last time, not after the stamp,
at which the path read so. A handshake stamps a value with the time of the handshake,
hence `not after`.

### 2.3 Clock

`raw` and `skew` are the two system clocks, `offset` and `best` are `m_offset` and
`m_rtt2`. What is exchanged is a request, its response, and in the handshake
`handshake_ready` and `handshake_finished`; all of them are on their way for any time.
`ready` and `finishing` are `handshake_ready` and `handshake_finished` while they wait in the
`message_queue` of the client and of the server; requests and responses are immediate. As in
2.2 a lost connection leaves a suffix of what the client sent, which the next one sends
before its own request. So an old `handshake_ready` may be answered during a new
handshake: `FinishHandshake` takes `handshake_finished` in whatever state the client is
(`client.cpp:90-94`), and then a sync by the timer and the handshake go on side by side.
The offset a request was stamped under is carried along for the property only; the code
does not keep it.

### 2.4 Listeners

`thread_main` is split where it opens the mutex: looking at the queue, falling
asleep (the predicate has been read, the wait not yet begun), asleep, advancing to
the next slot, and calling. A listener that was destroyed between the choice and
the call is read from freed memory: its callback may or may not run. A
`notify_all` wakes a thread that is asleep, no other.

### 2.5 Looper

The loop runs through its phases: process updates, poll and hand out I/O events,
run timers, execute requests. Within a callback any sequence of `add`,
`remove` and `request_updates` may happen (the code asks that they come from
inside the looper), with the errors they raise, and an exception in
`process_update` ends the thread. `resource_data` objects are numbered, so that a
pointer to one that is gone differs from one to its successor.

A second thread is `instance`'s: it starts a network interface (`create_timer`), stops
it (`request_execute` with `execute_type::sync`) and, once `stop` has returned, destroys it.
`mutex` is the interface's `m_mutex`: a callback takes it for all of its time, as the
client's update timer does, or not at all; `stop_internal` calls `on_close`, which takes
it again, and a thread that has it already is `stuck` for ever. Other bad ends of
the process are states too: `terminated` (an exception left `loop()`), `aborted`
(`~socket_io` with a socket still open) and `undefined` (a callback of an interface that
is gone, or that is destroyed while it runs).

### 2.6 Transport

A message is the three cells of its header (magic, version, and the rest with the size) and
the cells of its body, so buffers can split it at each of these places. The 11 bytes of
`message_header` need no more than three: a header cut after its version, wherever that is, is
completed by the bytes that come next, and the model lets it have any size then. One cut
before the version is not, for the byte that comes next is a magic, and no version; both the
code and the model read on behind it.

`spoilt` collects the five causes that break the stream in the code: `filled` (a buffer
filled to the brim looks empty), `half_written` (the header was written and the body
found no room), `sent_twice` (the second write of `write_into` throws and the read position
stays), `kept_reading` (a client's reader goes on in the middle of a message of the
connection before) and `kept_header` (its buffer keeps the magic and the version of a header
that was cut, or the reader is in `error`). The last makes a message of an old header and new
bytes: `on_message` is called with a body nobody wrote, or the size is more than
`message_buffer_size`, and the reader stops in `error` (`ReadError`), which nothing resets, so that
each later connection ends with its first byte. The properties exclude these five by
name; each has to be: with any one of them left in, TLC finds a message that is damaged,
repeated or skipped.

`Channel` numbers messages as they are accepted, and delivers each number at most once
and in order, with gaps only after a connection was lost. The mapping maps a message
delivered with another's body to a number that was never sent, so `IsAChannel` says
that bodies are intact as well as that their order is.

### 2.7 Codec and Messages

A number is one or two pieces of 32 bits, a cell on the wire has a width in bytes and
the pieces in network order. A read that asks for another width than the cell it is
at would get parts of several in the code; here it fails, which is a parse error and a
violation of `ParsedToTheEnd`. The type of a value is that of `value_type`; the
constructors, serializers and deserializers follow the code for each, the mistaken ones
too: float and double arrays get the type of 64-bit integers, and `readf64` stores 64 bits
in the 32-bit member of its union.

`Messages` has the queue (immediate messages go past it, or to its front if the connection
cannot take them), a connection of bounded capacity, and the parser, of which each
`process_state` is one step between `SetData` and `Handle`. A lost connection (`Reconnect`)
empties the queue and takes what was on its way out of the middle of the wire: its front came
in time, its back is in the write buffer that the next connection sends. `Steps` is the table of
`select_next_state`. The parser's `m_data` is never cleared, as in the code. `Message` and `Values`
say what a program can hold in an `out_message` and in a `value`; what is sent (`Meant`) is any set
of such messages.

### 2.8 Objects

A call that walks a path makes one object for each name on the way; the walk stops
with `no_space` where the table is full and keeps what it made. `delete_object`
releases the handle and keeps the path. `entries` says where an entry of the storage came
from: `given` by `get_entry`, which makes the objects above it first; `arrived` with a message,
for which nobody makes objects; or `astray`, when `get_entry` met on its way the handle
of a deleted object, so that it made the hierarchy below another one.

## 3. Model checking

Each run is one module with one configuration:

```
cd tla; tlc -workers 2 -config MCStorage.cfg MCStorage
```

### 3.1 Runs that pass

| run | configuration | states | what it shows |
|---|---|---|---|
| `storage` | `MCStorage.cfg` | 121 thousand | A storage under its API and under peers that send anything: indexes, events, unpublished changes, convergence of updates. |
| `server_writes` | `MCObsrNetServer.cfg` | 268 thousand | When only the server's program writes (set and delete), a client that connects at any time and loses its connection once goes through what was written in order, never back, and ends up with the last of it; ids mean the same at both ends. |
| `churn` | `MCObsrNetChurn.cfg` | 898 thousand | Both ends set, delete and clear, a connection is lost, server or client restarts: stores stay consistent, ids come before what names them, the client gets in again unless connecting has failed for good. |
| `clock` | `MCClock.cfg` | 307 thousand | No exchange becomes two: there are never more than connections were made. What is measured is within the round trip. |
| `listeners` | `MCListeners.cfg` | 1.39 million | Each listener hears events in order and once, none is missed, none is left lying, and the destructor's join returns but in one moment. |
| `objects` | `MCObjects.cfg` | 80 thousand | Objects and their index survive deletions, the reuse of slots and entries without objects. |
| `looper` | `MCLooper.cfg` | 629 thousand | Events reach the socket they were reported for; masks and poller agree; a stop returns and leaves nothing behind, but for the stops `stop_timer` refuses. |
| `transport` | `MCTransport.cfg` | 74 thousand | `socket_io` is a channel across splits, wraps, cuts and reconnections, but for five named causes. |
| `messages` | `MCMessages.cfg` | 104 thousand | Messages of every type come out of the parser as they were meant and in order; only one that is too long holds up others. |

What is claimed, in the order of the configurations:

* `storage`: `LifecycleOK`, `PathIndexOK`, `IdIndexOK`, `ListenersAgree`,
  `NothingForgotten`, `UpdatesConverge` are invariants;
  `PendingOnlyYieldsToNewer` and `TypeChangesThroughEmpty` are action properties.
  `UpdatesConverge` is evaluated for every pair of messages on every reachable
  entry, so it is about two deliveries in both orders and not about one state.
* `server_writes`: `LatestEverywhere` (safety: nothing dirty, queued or on its way
  implies that all read the latest), `AgreeInTheEnd` (liveness: it comes to that and
  stays), `IdsMeanTheSame`, and `ServerLeads`, the refinement of `Replicas`. The first two
  excuse paths whose deletion a client missed, and nothing else that a lost connection
  could have cost.
* `churn`: `StoresConsistent`, `KnownIsTold`, `IdsComeFirst`, `EveryoneGetsIn`. It
  does not claim agreement, which the code does not reach there (section 5). `EveryoneGetsIn`
  excuses the clients in `stuck` and none else.
* `clock`: `OneExchangeEach`, `MeasuredWithinRoundTrip`. The first is an upper bound for messages
  and timer together. It does not say that handshake and timer take turns, which is not so
  after a reconnection (2.3).
* `listeners`: `HeardInOrder`, `NobodyMissed`, `EveryEventHandedOut`, `TearDownEnds`.
* `objects`: `ObjectsListed`, `ParentsListed`.
* `looper`: `HeardIsForMe`, `PollerAgrees`, `DiesOnlyOfReuse`, `StopLeavesNothing`,
  `StopReturns`.
* `transport`: `IsAChannel`, the refinement of `Channel`, and `ReadInTheEnd`.
* `messages`: `NoneOvertaken`, `ParsedToTheEnd`, `ArrivesAsMeant`, `OnlyTheLongHoldUp`.

### 3.2 Bounds, and why they are enough

* **storage**: three paths and two slots, so that one entry can be disturbed by calls
  on another and the third path may find the table full (`no_space`); two ids, so
  that an id can be taken by another entry; three values of two types, for changes
  within a type and mismatches; stamps 1..2, for older, equal and newer. Paths, ids
  and the two values of one type are interchangeable, which is used as symmetry.
  Nothing bounds the length of a behaviour.
* **ObsrNet**: two clients where one client's traffic has to reach another (`relay`), one
  where breaking and restarting multiply the states: what the server keeps for a client
  (`peer`) depends on no other client as long as clients only listen. Two paths so that ids
  can be confused, three ids so that a restarted server's numbers and stale ones can
  meet. `MaxWrites` bounds what programs do and `MaxDrops`, `MaxRestarts` what fails;
  three writes are enough for a path to be written, deleted and written again around a lost
  connection. `MaxTime` lets each write have a stamp of its own. `MaxStuck` is 1 in `churn`, which
  has one client, and 0 where agreement is claimed.
* **clock**: skews of two ticks either way and six ticks of time leave room for a
  round trip longer than the skew, and two closes for two old messages at once, such as a
  `handshake_ready` of each connection lost.
* **listeners**: two slots and three listeners, so that a slot is reused while its
  first listener is being called; two events, for the order; one sync.
* **looper**: two descriptors in two slots are enough for each to be reused by
  another resource between a poll and its callbacks; four calls from callbacks let
  one socket go and another come and change its flags; two starts leave one timer
  refused and another running.
* **transport**: seven cells per buffer against messages of three to five, so that
  positions wrap within a header and within a body and two messages rarely fit;
  four cells in the kernel, so that it fills. Three body sizes, three messages; two cuts, because
  a first piece that is sent twice comes out twice only when its second sending throws too.
* **messages**: one message on the connection at a time, so that the queue fills and immediate
  messages have to wait; ten messages of all types, three of them too long (a name, an array
  too big for the writer's buffer, and what stands behind them); three are asked for, so
  that one can be in the queue, one on the wire and one in the parser; one lost connection. With
  two messages on the wire, where the first can be lost and the second kept, the run passes too.
  Counts go to fourteen in place of 254.
* **objects**: three slots against two names and three levels, so that the table
  fills in the middle of a walk and slots are reused by other paths; one entry, as entries do not
  meet.

### 3.3 Fairness

Liveness rests on two assumptions, that threads run and that callbacks end:

* `ObsrNet!FairSpec`: weak fairness of the server's looper (`ServerNext`) and of each
  client's (`ClientNext(c)`). A looper polls with a timeout and its timers run
  periodically (`events.cpp:80-99`, the update timers of server and client), so one
  that has something to do does it. The server accepts, as its socket is in its
  looper. Reconnecting is a client's retry, on its timer too; that a `Connect` is taken in the
  end rests on the retries of a client whose connecting has not failed for good. That it
  fails for good is an action of its own (`ConnectFails`), not an unfair scheduler:
  `EveryoneGetsIn` is checked with it and excuses whom it befalls, `AgreeInTheEnd` is
  claimed only for behaviours without it (`MaxStuck` = 0).
* `Listeners!Spec`: weak fairness of the storage's own thread. It only waits on the
  condition variable, and waiting is `asleep`, where no step is enabled.
* `Looper!FairSpec`: weak fairness of the loop (`looper_thread` calls `loop()` for
  ever, and callbacks end), and strong fairness of `Wakes`: a thread in `stop` wants
  `m_mutex` back, which the looper's callbacks take again and again, but give back for
  the milliseconds of each poll. Weak fairness would let it starve, which no mutex
  of the platforms does.
* `Messages!FairSpec`: weak fairness of `Process`, which the update timer calls, and of
  the receiver, which the looper calls.
* `Transport!FairSpec`: weak fairness of `on_write_ready`, whether it sends or throws, and of the
  reading end, which are what the looper calls while epoll reports a socket ready.

Nothing is assumed of programs, of time, or of failures, nor that a cut connection
comes back by itself.

Runs without deadlock checking are those where a bound on time, writes or
messages ends the behaviour (`ObsrNet`, `Clock`, `Listeners`, `Transport`, `Messages`) or where the
thing itself may end (the loop dies of an exception in `Looper`, the storage is torn
down in `Listeners`). `storage` and `objects` check for deadlock.

### 3.4 Runs that find a violation

| run | property | what happens |
|---|---|---|
| `relay` | `LatestEverywhere` | The server announces one client's entry to the others under its own client id (`server.cpp:392` passes `id`, not `entry_id`), so they drop the value that follows. `obsr.h:47-49` promises the synchronization. |
| `renumbered` | `ValuesStayHome` | A client keeps its ids when the connection ends, and keeps the first meaning of an id (`storage.cpp:336`). After the server restarts and numbers anew, the client applies one path's update to another. `obsr.h:60`: paths "can be used as a unique identifier across nodes". |
| `clock_agrees` | `SyncedWithServer` | `clock::sync` measures how far the server is ahead, and `clock::now` subtracts it (`time.cpp:40`): syncing doubles the distance. `obsr.h:71-72` says that the clock may be synced to the server. |

`relay` has no lost connection and no restart in it.

## 4. Proofs

`tlapm <module>.tla` checks the proofs of a module: `StorageOpsProofs`,
`StorageProofs`, `ConnectionProofs`, `ObsrNetProofs`, `LooperProofs`, `ListenersProofs`,
`ObjectsProofs`, `MessagesProofs`. They rest on the named assumptions of the modules alone, which TLC
evaluates in the run of each module:

| module | assumptions on its constants |
|---|---|
| `StorageOps` | `ValuesAssumption`, `IdsAssumption` (markers are no values, no id), `CapacityAssumption` (there is a slot) |
| `Storage` | `BrokenAssumption`, `MatchingAssumption`, `MaxTimeAssumption`, `OffsetsAssumption` |
| `ObsrNet` | `ClientsAssumption`, `WritersAssumption`, `IdsAreNumbers` (ids count from 0), `ParserAssumption` (what the parser's id may start as), `RoomAssumption` (a slot for each path), `HomeAssumption`, `PathsAssumption` (the marker of no path is none), `TimeAssumption` |
| `Clock` | `SkewsAssumption`, `NeverAssumption`, `ClockBoundsAssumption` |
| `CircularBuffer` | `SizeAssumption` (two cells at least) |
| `Transport` | `PipeAssumption`, `SizesAssumption` (a message fits into an array), `BoundsAssumption` |
| `Looper` | `KindsAssumption`, `CapacityAssumption`, `FreeAssumption` (the marker of a free slot is nothing else), `BoundsAssumption` |
| `Listeners` | `HearsAssumption`, `CapacityAssumption`, `OffsetsAssumption`, `BoundsAssumption` |
| `Objects` | `CapacityAssumption`, `DepthAssumption`, `FreeAssumption` |
| `Codec` | `ByteAssumption`, `WriterAssumption` (two sizes) |
| `Messages` | `TakenAssumption`, `BoundsAssumption`, `JunkAssumption` (what lies beyond an array are numbers), `MeantAssumption` (what is sent are messages, their values such as `make_...` accepts) |

So they hold for any number of paths, values, types, ids, slots, clients, descriptors,
timers, listeners, events, names, messages and connections, buffers of any size, and any skew; bounds such as `MaxTime` or `MaxCalls` are
constants too, hence arbitrary.

### 4.1 Storage

| theorem | states |
|---|---|
| `TypeCorrect` | `Spec => []TypeOK` |
| `LifecycleKept`, `PathsAlwaysIndexed`, `IdsAlwaysIndexed` | `Spec => []LifecycleOK`, `Spec => []PathIndexOK`, `Spec => []IdIndexOK` |
| `ListenersAlwaysAgree` | `Spec => []ListenersAgree` |
| `NothingIsForgotten` | `Spec => []NothingForgotten` |
| `PendingYieldsOnlyToNewer` | `Spec => PendingOnlyYieldsToNewer` |
| `TypesChangeThroughEmpty` | `Spec => TypeChangesThroughEmpty` |
| `UpdatesAlwaysConverge` | `Spec => []UpdatesConverge` |

All follow from one inductive invariant, `IInv`. It has the type of the store, the
life cycle of entries and the two indexes (`StoreInv`), and for *all* handles, used or
not, what the observers hold: `Agree` says that a listener's view is the entry's
reading, and `Absent` where there is no entry; `Forget` says the same of `shared` for
entries that are not dirty. The part about unused handles is the strengthening: it is what
makes a new entry start in agreement. The life cycle is needed beside it, because
`set_entry_internal` tells listeners of the creation before `set_value` may throw;
only because a deleted entry or a ghost holds the empty value can it not throw then.

The proof goes from small to large. `SetEntryOK` and `DeleteEntryOK` say what
becomes of one entry, `SetEntryNotes` and `DeleteEntryNotes` what a listener makes of
the events. `GetOrCreateOK`, `EmplaceOK` and `PutEntryOK` say what becomes of the
indexes. `CallStep` and `PassStep` put these together: any call that leaves one entry
good, with events a listener can follow, preserves `IInv`; one lemma per action
(`LocalSetStep`, `RemoteCreateStep`, `AssignIdStep`, `DeleteEntriesStep`, `PublishStep`,
`ClockResyncStep`, ...) reduces the action to one of them. `StepInv` is the case
split over `Next`; it also yields `StepOK`, from which the two action properties follow.
`UpdatesAlwaysConverge` is not inductive: it follows in each state from the types, by
`OlderThenNewer`: of two updates with different stamps the newer one wins in either order.

The entry that `UpdatesConverge` speaks of has a value, and the updates keep its
type. Both are needed. On an entry without a value the first message is taken
whatever its stamp, and a value of another type is refused, in the order in which they come.

### 4.2 Clock

The theorems are in `ConnectionProofs`. `MeasuredWithinRoundTrip` (`MeasuresRight`) follows from
`ClockInv`: types, every request on its way was
stamped not after now, and the remote time in every answer lies between the sending of
its request and now. `Half` rounds as C++ does; `HalfBounds` bounds it on both sides.
`ExchangesAreOnePerConnection` proves `OneExchangeEach`. That bound is not inductive as it stands:
`Connect` puts its request beside all that lost connections left, so between two connections one
less must be going. `NoneDoubled` therefore counts the connections made (`Made`) in place of those
lost. It needs nothing of the order of messages and nothing of the state in which the client
takes them, which is why it also holds where old and new handshake overlap. `Lengths` says what
each step does to the lengths of the two queues.

`ClockTypeCorrect` comes with it (no run checks the type of `Clock`; the theorem does). The bounds of the module (time, requests, closes) are
constants of the theorem, hence arbitrary.

### 4.3 Server and clients

| theorem | states | for |
|---|---|---|
| `Inductive` | `Spec => []IInv` | any constants |
| `TypeCorrect` | `Spec => []TypeOK` | any constants |
| `ConsistentEverywhere` | `Spec => []StoresConsistent` | any constants |
| `PublishedIsTold` | `Spec => []KnownIsTold` | any constants |
| `IdsBeforeUpdates` | `Spec => []IdsComeFirst` | `Orderly`: at most one client (`Alone`), or `Listening` |
| `IdsAgree` | `Spec => []IdsMeanTheSame` | `Listening`: only the server's program writes, nobody restarts |
| `HomeIsKept` | `Spec => []ValuesStayHome` | `Listening` |
| `LeadsOn` | `Spec => [](IInv /\ JInv)` | `Listening` |
| `NobodyIsLeftBehind` | `Spec => []LatestEverywhere` | `Listening` and `Exact`: no clear, one type for each path |
| `ServerIsFollowed` | `Spec => ServerLeads` | `Listening` |

The conditions are those under which the code keeps these promises, not those
that are easy. With two clients, `entry_create` from one makes the server announce the entry to
the other under a wrong id (the run `relay`), so something may be named before its id
is told. With a restart of the server, or with a client that writes, whose
entries the server files under the id its parser has from an earlier message, ids get other
meanings (the run `renumbered`). An update with a value of another type, such as that of a clear,
is refused by all who get it (section 5), hence `Exact`. `server_writes` is a run under `Listening`
and `Exact`, `churn` one under `Alone`.

`IInv` has seven parts. `Stores` is `StoreInv`, the invariant of 4.1, of every node; the type
of the server's books, `Wires` and `Books` say that states, messages and what is written down have
their types. The heart is `Linked`. What a client is going to receive is what is on its connection and,
behind it, what its `message_queue` at the server still holds; of that whole stream
`StreamOK` says that each id in `m_published_entries` is known to the client or
assigned in the stream, that (`Orderly`) each message that names an id stands behind the one
that assigns it, and that (`Listening`) each assignment and each value belongs to the path the
server has for the id. Neither `KnownIsTold` nor `IdsComeFirst` is inductive alone: the server
puts an id in its books when it queues the message, so both have to speak of the queue, of the
connection and of the client's table at once. `Names` (`Listening`) says that the ids of the
server's storage are those of `m_id_assignments`, all below `m_next_entry_id`, that the clients
mean the same by them, and that its values are at home; `Followers` (`Listening`) that clients have
nothing to publish and values at home too.

There is one lemma for each way the stream changes: `AppendOK` (a message is queued),
`TailOK` (the client receives one), `OvertakeOK` (the sync response passes the queue).
`PublishOK`, `AssignNextOK`, `PublishEntryOK` and `TellOK` say it of what the server's
methods queue for all clients, `PublishAllOK`, `GreetedOK` and `ChangeMessagesOK` of
their loops, and one lemma per handler and per action reduces the step to these.

**The server leads.** `LatestEverywhere` speaks of the moment when nothing is on its way. To get
there one has to know at every moment what is on its way, and `JInv` says it in terms of the
history `written` of each path. A reading with its stamp, be it held by a client or
carried by a message, is a claim, and `Placed` says where in the history it belongs: where
the reading is the same, not after the stamp, and the next one not before it. A place is unique
although readings recur and a handshake stamps a value with the time of sending, for the server's
time moves on between two writes.

* `Leads`: the server's storage reads what was written last, under a stamp no older than the write,
  and what is not dirty there has an id.
* `Greeting`: the server keeps nothing for a client that is not connected, and one that is through
  its handshake, or to which `handshake_finished` is on its way, has been told of every id.
* `Forward`: for each path, the places of what the client holds and of the messages about it in
  the stream (connection and queue, as in `StreamOK`) never go down. So the test of stamps in
  `set_entry_internal` refuses no news, and a delayed message takes nobody back. This gives
  `ServerIsFollowed`.
* `Complete` (with `Exact`): if a path is not dirty, was not missed and its id is known to the client,
  then the last message about it in the stream carries what was written last, or there is none and
  the client reads it already. With an empty stream this is `LatestEverywhere`.

None of these is inductive without the others, nor without `IInv`: that a message about an id is
about the path the server has for it is `Names`, that the client does not drop it is `StreamOK`, that
the client has nothing of its own to say is `Followers`. The hard steps are `ServerUpdate`, which sends
all that is dirty, and the end of `SyncRequest`, which greets with all that is readable, to a client that
may have part of both in its stream; `News` says of one message that it may be put at the end of any such
stream, `Onward` that what the server does to the stream takes it on, `Sent` which paths it has told of,
and `PublishAllSends` and `GreetedSends` say it of the two loops. `ReadingLeads` is the step in which the
client takes the first message, `WriteLeads` the one in which the history grows.

`ServerIsFollowed` shows that every step maps to one of `Replicas` or to a stutter.
`ComesThere` identifies the mapping, `Come`, with the place of what the client holds: by `Forward`
a `ClientReceive` can only increase it (`ReceiveRefines`), a write of the server's program extends the
history and moves no client (`WriteRefines`), and the rest changes neither (`OthersStay`).

### 4.4 The loop

| theorem | states |
|---|---|
| `TypeCorrect` | `Spec => []TypeOK` |
| `CallbacksHearTheirOwn` | `Spec => []HeardIsForMe` |
| `PollerWatchesTheOpen` | `Spec => []PollerAgrees` |
| `LoopDiesOnlyOfReuse` | `Spec => []DiesOnlyOfReuse` |
| `StopIsComplete` | `Spec => []StopLeavesNothing` |

The parts of `IInv`: `Tables` relates the slots, `m_fd_map` and the poller. `Hearing` is
about results that are polled and not yet handed out: if another resource has taken the
descriptor since, it wants no events yet, because its `new_events_add` waits in the queue, and
that is why the mask test of `process_events` keeps the callback from it. `Queue` says that
a resource is added before it is changed, and that what is in the table is watched or
its `add` is still queued, unless a request for an earlier owner of the slot was done in
between (`MixedUp`), which is the one way the loop dies. `Queue` does not hold once the
process has ended badly, and nothing needs it then. `Stops` follows a stop from the request
through the sockets and the timer to the thread that waits.

### 4.5 Listeners

| theorem | states |
|---|---|
| `TypeCorrect` | `Spec => []TypeOK` |
| `AlwaysInOrder` | `Spec => []HeardInOrder` |
| `NoListenerMissed` | `Spec => NobodyMissed` |

`HeardInOrder` needs to know of the queue (`Queued`: events are numbered upwards), and that
a listener has heard at most the first of it, and that only if the pass is
behind it (`Heard`). As slots are reused, `behind` has to be said of listeners: `Passed(n)`
holds of the slot that has listener `n`, or of none. `NobodyMissed`, an action property, is about
the step that drops an event. `Served` collects what the pass has done until then, and
`Stamped` is why it did so: as long as no clock sync comes between, stamps are in the order of
what they stamp, so the test `m_creation_time < event time` is right.

### 4.6 Objects

`ObjectsAlwaysListed` and `ParentsAlwaysListed` state the two invariants of the run. `IInv` has
the types of the two tables, the root in its slot, every object in the index with its own
handle, and the parents of objects and of the entries that `get_entry` gave. A walk is a loop that
throws half way and keeps what it did, so everything is said of a walk first: `WalkOK` says
that its tables are good and that it only added to them, `IsAt` that it has come to the path it was
sent to. `ChildOK` proves both of one name, and `WalkGets` of the walk: it comes to its path
unless a stale handle leads it away. That the
index never loses a path (`delete_object` leaves it) is what keeps the parents, and the same
line is what makes handles stale.

### 4.7 Messages

| theorem | states |
|---|---|
| `MessagesParsedToTheEnd` | `Spec => []ParsedToTheEnd` |
| `MessagesArriveAsMeant` | `Spec => []ArrivesAsMeant` |
| `MessagesNotOvertaken` | `Spec => []NoneOvertaken` |

The run sends ten messages; the theorems speak of every message a program can mean (`Message` in
`Codec`: any numbers, any names, values of any length). The proof goes up in four layers. `NumberRead`
and `CountedRead` say that what stands first among some cells is read as it was written;
`MadeOK`, `WireFacts` and `ValueRead` say it of values, for the three mistreated types as far as it
is true (`Arrived`). `Reading` is the agreement of the two sides, which no line of the code
states: for each state of the parser, what is left to read of the message and what its data
has by then. One lemma per state (`CheckTypeOK` ... `ReadTimeValueOK`) shows that it leads to the
next, and `ProcessedOK` puts them together; so a state that read a field too early, too late or
for a wrong type would not go through. `IInv` carries this (`ParserOK`, `HeardOK`) from the
queue to the handler. The rest of it is about order: `Line` says that the numbers of the messages
that wait rise from `heard` over the parser and the connection to the end of the queue, and
`NoneLeftOut` that none is missing until a connection is lost. `LineAppend`, `LineProcess`, `LineTake`,
`LineHear`, `LineImmediate` and `LineCut` are the six things that happen to a line.

### 4.8 Transport

| theorem | states | for |
|---|---|---|
| `TypeCorrect` | `Spec => []TypeOK` | whatever goes wrong, the five causes of 2.6 included |
| `ChannelKept` | `Spec => IsAChannel` | `Transport` implements `Channel` |

They hold for every `Size` of the two buffers, every capacity of the kernel up to it, every set of body
lengths that fit into an array, and any number of messages and connections.

*The ring.* A buffer is two positions modulo `Size` and an array that keeps what was read. `Written`,
`ReadKeeps`, `Draw`, `Sends` and `Seek` say what `Write`, `Read`, `ReadFrom`, `SentInto` and `Find` do to
`Contents`, the sequence held: appending to it, cutting its front off. `Written` has a second half, of a
write that reaches the read position or passes it: the buffer then looks empty, or holds nothing but
cells of what was written last. From here on nothing of the proof mentions a position.

*Types.* `Typed` says of both buffers that they are rings, and that what is between their positions came
from messages (the rest of an array may still be blank); `TypedStep` shows that every step keeps it,
failing ones too, and a header forged of two, which has any size. `TypeOK` alone would not be kept: it
says nothing of the header the reader goes by.

*Order.* `IInv` is `Typed` and, as long as `spoilt` is empty, `Clean`, about the three sequences the
bytes are in, laid end to end: `Stream` (read buffer, kernel, write buffer) and `Flow`, its part
that can still arrive, since an old write buffer is not behind what the kernel has left.

| part | says | needed because |
|---|---|---|
| `Whole` | a header in `Flow` has its own body behind it, complete while the connection lasts | a body is delivered by its length only |
| `Ordered` | the numbers in `Stream` rise, above the one the reader is at | nothing comes twice, also when the write buffer of a client outlives its connection |
| `Midway` | a reader that has a header stands in front of its body | the header is parsed in one step, the body in another |
| `Sound` | the reader is not in `error`, and a header it has was written as one | what is forged, or comes after an error, was spoilt before: `kept_header` |
| `Unbroken` | without a cut all numbers up to the last one written are in `Stream` or have come | no gap on a connection that lasts |

Each step of `Transport` is then one of `Channel` or none: `WriteMessage` is `Send`, the step of
`ParseMessage` that calls `on_message` is `Deliver`, the first `Cut` is `Lose`, whatever adds to
`spoilt` is `Spoil` (as is everything after it), and the rest move bytes (`ChannelStep`).
That a client's reader brings nothing over that the next bytes could complete is the condition of
`Reconnect`: without `kept_reading` and `kept_header` at most a magic is left, behind which no version
can come (`CleanReconnect`). `NoError` shows that the reader then stays out of `error`.
TLC checked `Clean` on an instance before it was proved.

### 4.9 What is only model-checked

* Liveness under fairness, which is beyond the prover: `AgreeInTheEnd`, `EveryoneGetsIn`,
  `EveryEventHandedOut`, `TearDownEnds`, `StopReturns`, `ReadInTheEnd`, `OnlyTheLongHoldUp`.
* What the violation runs show is a counterexample and needs no proof.

Induction over data is out of reach as the library states it, with an operator as its
parameter. Where a loop needs it, the proofs use its first-order form: a set of numbers that
contains 0, and with each number the next one up to n, has all up to n (`Induct`, from
the least element of its complement). A lemma `...Passes` brings each recursive function
into that form.

## 5. What the code does that the properties do not promise

The properties are as strong as the code allows. Where they stop, it is because of
the following, which the modules follow as the code does it:

1. `entry_create` carries no id; the server uses the one its parser has from an earlier
   message, or an uninitialised one (`server.cpp:122`). `churn` starts with any.
2. A client that created an entry is never told its id, so it announces each later
   change as `entry_create`, a deletion as the creation of an empty value
   (`client.cpp:260-267`). Agreement is therefore claimed where the server writes.
3. A cleared entry is sent as an update with the empty value, which every other storage
   refuses as a mismatch of types (`storage.cpp:74-80`): a clear stays where it was made.
   `server_writes` has set and delete only; `churn` has clear too.
4. Handshakes, creations and deletions are stamped when sent (`server.cpp:323-325`,
   `405-416`, `client.cpp:264`), so a value set offline may replace a later one of the
   server's, where `obsr.h:66-67` promises "the latest created value (according to obsr
   time)". `LatestEverywhere` is therefore claimed where the server's program writes alone.
5. What was queued when a connection broke is dropped, its dirty flag already cleared
   (`client.cpp:285`): a client that writes and loses its connection may never send a
   change. A client that was away, or on its way out, is greeted with readable values only
   and does not learn of deletions: the paths in `missed`.
6. A repeated deletion does not refresh the stamp of the first.
7. `clock::sync` measures with the offset already applied and replaces the offset;
   `MeasuredWithinRoundTrip` is about answers taken with the offset of their request.
8. The circular buffer looks empty when full, `read_from` offers a second read of any length at
   position 0 and one cell too much elsewhere, and a throw in the second half of
   `write_into` leaves the read position: three of the causes in `spoilt`.
9. `socket_io::start` clears neither buffers nor reader (`io.cpp:131`). What a client's write buffer
   holds goes to the next connection, old requests, `handshake_ready` and updates included. A
   header or a body the client's reader has half of is completed with bytes of the next
   connection: `kept_reading`, `kept_header`.
10. A flag change queued for a resource that is then removed is applied to the next one
    in its slot and may end the loop (`events.cpp:201`): `DiesOnlyOfReuse` says that
    nothing else does. `stop_timer` looks in the table of resources (`events.cpp:145`), so
    with other sockets open or closed than the timer's number asks for, it throws. The sockets
    then stay open and the destructor aborts the process, or, with none open, the timer runs on
    with a callback to a network interface that is gone. `StopLeavesNothing` says that this
    is the only way to leave something behind. A reset connection is removed
    with descriptor -1 and its entry in `m_fd_map` stays (5.13).
11. `destroy_listener` frees a listener that may be in use by the thread; the destructor
    of the listener storage may miss the thread's sleep by a moment, and then waits for ever
    (`unheard` in `TearDownEnds`); events pending at that time are dropped.
12. `delete_object` leaves the path, which after reuse of the slot leads to another object, so
    `get_object` may answer with the wrong one, and `get_entry` make the objects above an
    entry elsewhere (`astray`). `delete_entries` matches a prefix anywhere in a path.
    `get_parent_for_entry` asserts a parent that entries made by messages do not have.
    `get_entry("/x")` throws `std::out_of_range`: the walk of the empty parent path looks
    behind its end (`instance.cpp:336`).
13. A client's connecting may fail for good. When connecting or writing fails inside its update
    (`io.cpp:175-179`, `211`), `on_close` locks the mutex the update holds (`client.cpp:168`): `StopReturns`
    excuses the looper that is `stuck`, and a `stop` then waits for ever. After ECONNRESET
    closed a socket (`socket.cpp:113`) its descriptor stays in `m_fd_map` (`events.cpp:88`), and if the next
    socket gets the same number, `looper::add` throws (`events.cpp:60-63`), at each retry of
    `do_open_and_connect` (`client.cpp:241-254`) anew. And a reader in `error` (5.9) stops each connection
    it gets. `EveryoneGetsIn` excuses these clients, as `stuck`.
14. A double arrives with the upper half of its bits gone (`io/serialize.cpp:104`). Arrays of
    floats and doubles are typed as arrays of 64-bit integers (`obsr_types.h:239`, `260`),
    for floats with as many bytes from beyond the array. `obsr.h:47-49` promises that values
    are synchronised; `ArrivesAsMeant` excludes these three types and says it of all others.
15. A message the serializer refuses (a name of 255 bytes, a value that does not fit
    the 512 bytes of `writer_buffer_size` with the fields before it) is tried again for ever and nothing behind it is sent
    (`net/serialize.cpp:321`), until the connection is lost: `HeldUp`.
16. `error_unknown_type` is 0, so the parser's `is_errored` does not see that error; the handlers
    notice that it did not finish and drop the message all the same.

## 6. What is abstracted or left out

* Payloads: values are model values with a type, but in `Codec` and `Messages`. There, the copies and
  getters of `value` are left out, and a read that is not aligned with what was written fails.
  No cell of a body looks like a magic, so resynchronisation onto a false header is left out.
* Messages no serializer of this program wrote.
* `Transport`: at most `Size` cells in the kernel, so that the second read stays in the array
  even where the code sets no limit; one direction of one connection. Two bytes that look like a
  magic and a version, in a body or in the rest of a header, are left out.
* `ObsrNet`: connections are unbounded sequences and break between messages; what happens
  within a message is `Transport`'s. Nothing that `Transport` calls spoilt happens here, but for the
  reader in `error`, for which `ConnectFails` stands. All nodes share one clock. In `server_writes`
  no client writes, so what one sets offline and stamps later (5.4) is in the models of
  `relay` and `churn` only. A full table is left out: the tables have a slot for each path.
* `Looper`: the wake-up descriptor and timeouts are a poll that may return empty at any time.
* Reads: `probe`, getters, `list` change nothing and have no action.
* OS wrappers, exception classes, logging and the API's forwarding.
* The iterator of `handle_table` looks at one element past its array at the end of an iteration.
* The mutex of `instance` (every call holds it from start to end) and that of the server's `update`,
  which takes none; the client's is in `Looper`.
* `destroy_listeners`, which nothing calls; opening the server's port and its retries; a start of
  the network that fails.

## 7. Plan

Done: the modules of section 2, each with its runs; the abstract specifications `Channel` and
`Replicas` with their refinements, both proved step by step; the theorems of section 4. What would come
next:

1. **A composition of `Transport` and `Messages`.** `Messages` takes whole messages from its
   connection; that this is `Channel` is read off the two modules, not checked.
2. **What a forged message does.** `Transport` shows when a reader hands on a message nobody wrote;
   `Messages` and `ObsrNet` take messages as their serializers write them.
