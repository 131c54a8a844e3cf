------------------------------- MODULE ObsrNet -------------------------------
(***************************************************************************)
(* A server (src/src/net/server.cpp) and its clients (client.cpp), each    *)
(* with a storage of its own, joined by one TCP connection per client.     *)
(*                                                                         *)
(* All network code of a node runs on the thread of its looper, so one     *)
(* message handler and one timer tick are one step each; the callers of    *)
(* the API write to the storages in between.  A message is first put in    *)
(* the m_outgoing list of its message_queue and moves to the connection on *)
(* the next tick; `immediate' ones go to the connection at once.           *)
(*                                                                         *)
(* The clocks of all nodes agree here: Clock.tla models their sync.        *)
(***************************************************************************)
EXTENDS StorageOps, FiniteSets, SequencesExt

CONSTANTS
    Clients, Server,
    Writers,        \* the nodes whose programs write
    Ops,            \* what they do: a subset of {"set", "delete", "clear"}
    HomeOf,         \* the one path each value is written to
    ParserStart,    \* ids the parser may hold before it parsed the first one
    MaxTime, MaxWrites, MaxDrops, MaxRestarts, MaxStuck  \* bounds

ASSUME ClientsAssumption == Server \notin Clients
ASSUME WritersAssumption == Writers \subseteq Clients \cup {Server}
\* Absent marks the ids in m_id_assignments that stand for no path yet.
ASSUME PathsAssumption == Absent \notin Paths
ASSUME IdsAreNumbers == IsFiniteSet(Ids) /\ Ids = 0..(Cardinality(Ids) - 1)
ASSUME ParserAssumption == ParserStart \subseteq Ids \cup {NoId} /\ ParserStart # {}
\* No storage runs out of slots here (Storage has calls that find it full).
ASSUME RoomAssumption == IsFiniteSet(Paths) /\ Cardinality(Paths) <= Capacity
ASSUME HomeAssumption == \A v \in Values : HomeOf[v] \in Paths
ASSUME TimeAssumption == MaxTime \in Nat \ {0}

Nodes == Clients \cup {Server}

VARIABLES
    store,      \* the storage of each node
    time,       \* the clock all nodes read
    server,     \* m_next_entry_id, m_id_assignments, the id left in m_parser,
                \* and m_next_client_id of its server_io
    peer,       \* m_clients: what the server keeps for each connection
    client,     \* m_state and m_outgoing of each network_client
    up, down,   \* the connections: to the server and from it
    written,    \* the readings programs gave each path one after the other, and when
    missed,     \* paths whose deletion was told while a client was away
    stuck,      \* the clients whose connecting has failed for good
    spent       \* writes, lost connections and restarts so far

vars == <<store, time, server, peer, client, up, down, written, missed, stuck, spent>>

NoPeer == [id |-> NoId, known |-> {}, queue |-> <<>>]
Connected == {c \in Clients : peer[c].id # NoId}

-----------------------------------------------------------------------------
(* Messages.  The definitions named Faulty... below are variants with a       *)
(* mistake the code could have made; no specification uses them.             *)

Create(p, v, t) == [type |-> "entry_create", path |-> p, value |-> v, ts |-> t]
Update(id, v, t) == [type |-> "entry_update", id |-> id, value |-> v, ts |-> t]
Deletion(id, t) == [type |-> "entry_delete", id |-> id, ts |-> t]
Assign(id, p) == [type |-> "entry_id_assign", id |-> id, path |-> p]
SyncRequest == [type |-> "time_sync_request"]
SyncResponse == [type |-> "time_sync_response"]
Ready == [type |-> "handshake_ready"]
Finished == [type |-> "handshake_finished"]

-----------------------------------------------------------------------------
(* What the server does to its own state s = [store, server, peer].          *)

\* assign_id_to_entry; the map keeps the first path of an id.
AssignNext(s, p) ==
    LET id == s.server.next
        assigned == [s.server EXCEPT !.next = id + 1,
                                     !.names[id] = IF @ = Absent THEN p ELSE @]
    IN  [s EXCEPT !.server = assigned, !.store = OnEntryIdAssigned(@, id, p)]

FaultyEnqueue(pr, m) == [pr EXCEPT !.queue = <<m>> \o @]
Enqueue(pr, m) == [pr EXCEPT !.queue = Append(@, m)]

FaultyPublishSilently(pr, id, p) == [pr EXCEPT !.known = @ \cup {id}]

\* server_client::publish
Publish(pr, id, p) ==
    [pr EXCEPT !.known = @ \cup {id}, !.queue = Append(@, Assign(id, p))]

FaultyPublishOwnId(pr, id, p) == IF id \in pr.known THEN pr ELSE Publish(pr, pr.id, p)

PublishUnknown(pr, id, p) == IF id \in pr.known THEN pr ELSE Publish(pr, id, p)

\* The peers after told was done to each connected client, or to each but one.
ToConnected(peers, told) ==
    [c \in Clients |-> IF peers[c].id = NoId THEN peers[c] ELSE told[c]]
ToOthers(peers, sender, told) == [ToConnected(peers, told) EXCEPT ![sender] = peers[sender]]

FaultyDeletionsUntold(s, h) ==
    LET e == s.store.entries[h]
        u == IF e.id = NoId THEN AssignNext(s, e.path) ELSE s
        id == u.store.entries[h].id
        told == [c \in Clients |->
                    IF e.deleted THEN PublishUnknown(s.peer[c], id, e.path)
                    ELSE Enqueue(PublishUnknown(s.peer[c], id, e.path),
                                 Update(id, e.value, e.ts))]
    IN  [u EXCEPT !.peer = ToConnected(@, told)]

\* The body of process_updates for one dirty entry.
PublishEntry(s, h) ==
    LET e == s.store.entries[h]
        u == IF e.id = NoId THEN AssignNext(s, e.path) ELSE s
        id == u.store.entries[h].id
        m == IF e.deleted THEN Deletion(id, time) ELSE Update(id, e.value, e.ts)
        told == [c \in Clients |-> Enqueue(PublishUnknown(s.peer[c], id, e.path), m)]
    IN  [u EXCEPT !.peer = ToConnected(@, told)]

\* process_updates: act_on_dirty_entries walks the whole handle table.
PublishAll(s) ==
    LET entries == s.store.entries
        upTo[h \in 0..Len(entries)] ==
            IF h = 0 THEN s
            ELSE IF entries[h].dirty THEN PublishEntry(upTo[h - 1], h)
            ELSE upTo[h - 1]
    IN  upTo[Len(entries)]

\* on_message, entry_create: the message carries no id, the handler uses the
\* one the parser still holds and assigns one only if that is id_not_assigned.
\* What it publishes to the others is their own client id.
HandleCreate(s, c, m) ==
    LET u == IF s.server.parsed = NoId THEN AssignNext(s, m.path) ELSE s
        id == IF s.server.parsed = NoId THEN s.server.next ELSE s.server.parsed
        told == [d \in Clients |-> Enqueue(Publish(s.peer[d], s.peer[d].id, m.path),
                                            Update(id, m.value, m.ts))]
    IN  [u EXCEPT !.store = OnEntryCreated(@, id, m.path, m.value, m.ts, time).store,
                  !.peer = ToOthers(@, c, told)]

HandleUpdate(s, c, m) ==
    LET told == [d \in Clients |-> Enqueue(s.peer[d], Update(m.id, m.value, m.ts))]
    IN  [s EXCEPT !.server.parsed = m.id,
                  !.store = OnEntryUpdated(@, m.id, m.value, m.ts, time).store,
                  !.peer = ToOthers(@, c, told)]

HandleDelete(s, c, m) ==
    LET told == [d \in Clients |-> Enqueue(s.peer[d], Deletion(m.id, m.ts))]
    IN  [s EXCEPT !.server.parsed = m.id,
                  !.store = OnEntryDeleted(@, m.id, m.ts, time).store,
                  !.peer = ToOthers(@, c, told)]

\* get_entry_value_from_id
ReadingById(s, id) == IF s.ids[id] = 0 THEN Absent ELSE Reading(s.entries[s.ids[id]])

FaultyGreetIdsOnly(pr, s, id) ==
    IF id \in pr.known THEN pr ELSE Publish(pr, id, s.server.names[id])
FaultyGreetValueFirst(pr, s, id) ==
    IF id \in pr.known THEN pr
    ELSE LET v == ReadingById(s.store, id)
         IN  Publish(IF v = Absent THEN pr ELSE Enqueue(pr, Update(id, v, time)),
                     id, s.server.names[id])

\* handle_do_handshake_for_client: every assigned id the client does not know,
\* with its value as of now.
GreetWith(pr, s, id) ==
    IF id \in pr.known THEN pr
    ELSE LET q == Publish(pr, id, s.server.names[id])
             v == ReadingById(s.store, id)
         IN  IF v = Absent THEN q ELSE Enqueue(q, Update(id, v, time))

Greeted(pr, s) ==
    LET upTo[n \in 0..Cardinality(Ids)] ==
            IF n = 0 THEN pr
            ELSE IF s.server.names[n - 1] = Absent THEN upTo[n - 1]
            ELSE GreetWith(upTo[n - 1], s, n - 1)
    IN  upTo[Cardinality(Ids)]

HandleReady(s, c) == [s EXCEPT !.peer[c] = Enqueue(Greeted(@, s), Finished)]

-----------------------------------------------------------------------------
Init ==
    /\ store = [n \in Nodes |-> EmptyStore]
    /\ time = 1
    /\ \E id \in ParserStart :
          server = [next |-> 0, names |-> [i \in Ids |-> Absent], parsed |-> id, serial |-> 0]
    /\ peer = [c \in Clients |-> NoPeer]
    /\ client = [c \in Clients |-> [state |-> "opening", queue |-> <<>>]]
    /\ up = [c \in Clients |-> <<>>]
    /\ down = [c \in Clients |-> <<>>]
    /\ written = [p \in Paths |-> <<[reading |-> Absent, at |-> 0]>>]
    /\ missed = {}
    /\ stuck = {}
    /\ spent = [writes |-> 0, drops |-> 0, restarts |-> 0]

ReadingAt(n, p) ==
    IF store[n].paths[p] = 0 THEN Absent ELSE Reading(store[n].entries[store[n].paths[p]])
latest(p) == Last(written[p]).reading

NetworkUnchanged == UNCHANGED <<server, peer, client, up, down, missed, stuck>>

-----------------------------------------------------------------------------
(* Programs.  Every write happens at a time of its own, so that there is     *)
(* one latest write of each path.                                           *)

Write(n, p, s, reading) ==
    /\ n \in Writers
    /\ spent.writes < MaxWrites
    /\ time < MaxTime
    /\ store' = [store EXCEPT ![n] = s]
    /\ written' = IF reading = latest(p) THEN written
                  ELSE [written EXCEPT ![p] = Append(@, [reading |-> reading, at |-> time])]
    /\ time' = time + 1
    /\ spent' = [spent EXCEPT !.writes = @ + 1]
    /\ NetworkUnchanged

\* get_entry followed by set_value; a value of another type is refused.
SetPath(n, v) ==
    LET p == HomeOf[v]
        u == GetOrCreate(store[n], p)
        r == SetEntryValue(u, u.paths[p], v, time)
    IN  "set" \in Ops /\ ~r.threw /\ Write(n, p, r.store, v)

\* A program deletes or clears what it can read.
CanRead(n, p) ==
    store[n].paths[p] # 0 /\ HasValue(store[n].entries[store[n].paths[p]])

DeletePath(n, p) ==
    /\ "delete" \in Ops
    /\ CanRead(n, p)
    /\ Write(n, p, DeleteOne(store[n], store[n].paths[p], time).store, Absent)

ClearPath(n, p) ==
    /\ "clear" \in Ops
    /\ CanRead(n, p)
    /\ Write(n, p, ClearEntry(store[n], store[n].paths[p], time).store, Empty)

Tick ==
    /\ time < MaxTime
    /\ time' = time + 1
    /\ UNCHANGED <<store, written, spent>> /\ NetworkUnchanged

-----------------------------------------------------------------------------
(* The client.                                                              *)

\* do_open_and_connect, then on_connect: the queue is cleared, but bytes a
\* former connection left in the write buffer (up) go out first.
Connect(c) ==
    /\ client[c].state = "opening"
    /\ c \notin stuck
    /\ client' = [client EXCEPT ![c] = [state |-> "in_handshake_time_sync", queue |-> <<>>]]
    /\ up' = [up EXCEPT ![c] = Append(@, SyncRequest)]
    /\ UNCHANGED <<store, time, server, peer, down, written, missed, stuck, spent>>

\* What process_storage sends of one dirty entry.
ChangeMessage(e) ==
    CASE e.id = NoId -> Create(e.path, e.value, time)
      [] e.id # NoId /\ e.deleted -> Deletion(e.id, e.ts)
      [] OTHER -> Update(e.id, e.value, e.ts)

\* process_storage: act_on_dirty_entries walks the whole handle table.
ChangeMessages(s) ==
    LET upTo[h \in 0..Len(s.entries)] ==
            IF h = 0 THEN <<>>
            ELSE IF s.entries[h].dirty THEN Append(upTo[h - 1], ChangeMessage(s.entries[h]))
            ELSE upTo[h - 1]
    IN  upTo[Len(s.entries)]

\* update() while in use: dirty entries are queued and the queue is written.
ClientUpdate(c) ==
    /\ client[c].state = "in_use"
    /\ client[c].queue # <<>> \/ DirtyHandles(store[c]) # {}
    /\ up' = [up EXCEPT ![c] = @ \o client[c].queue \o ChangeMessages(store[c])]
    /\ client' = [client EXCEPT ![c].queue = <<>>]
    /\ store' = [store EXCEPT ![c] = DirtyCleared(@)]
    /\ UNCHANGED <<time, server, peer, down, written, missed, stuck, spent>>

\* update() during the handshake writes the queue only.
ClientFlush(c) ==
    /\ client[c].state \in {"in_handshake_time_sync", "in_handshake"}
    /\ client[c].queue # <<>>
    /\ up' = [up EXCEPT ![c] = @ \o client[c].queue]
    /\ client' = [client EXCEPT ![c].queue = <<>>]
    /\ UNCHANGED <<store, time, server, peer, down, written, missed, stuck, spent>>

\* The storage after on_message; a type mismatch is caught and logged.
ClientStoreAfter(s, m) ==
    CASE m.type = "entry_update" -> OnEntryUpdated(s, m.id, m.value, m.ts, time).store
      [] m.type = "entry_delete" -> OnEntryDeleted(s, m.id, m.ts, time).store
      [] m.type = "entry_id_assign" -> OnEntryIdAssigned(s, m.id, m.path)
      [] OTHER -> s

FaultyNeverReady(cl, m) ==
    CASE m.type = "handshake_finished" -> [cl EXCEPT !.state = "in_use"]
      [] m.type = "time_sync_response" -> [cl EXCEPT !.state = "in_handshake"]
      [] OTHER -> cl

\* The client after on_message.
ClientAfter(cl, m) ==
    CASE m.type = "handshake_finished" -> [cl EXCEPT !.state = "in_use"]
      [] m.type = "time_sync_response" /\ cl.state = "in_handshake_time_sync" ->
            [state |-> "in_handshake", queue |-> Append(cl.queue, Ready)]
      [] OTHER -> cl

ClientReceive(c) ==
    /\ client[c].state # "opening"
    /\ down[c] # <<>>
    /\ down' = [down EXCEPT ![c] = Tail(@)]
    /\ store' = [store EXCEPT ![c] = ClientStoreAfter(@, Head(down[c]))]
    /\ client' = [client EXCEPT ![c] = ClientAfter(@, Head(down[c]))]
    /\ UNCHANGED <<time, server, peer, up, written, missed, stuck, spent>>

-----------------------------------------------------------------------------
(* The server.  `\E s \in {...}' names a state the handler computes, so that   *)
(* TLC computes it once where it decides whether the step is enabled.        *)

ServerState == [store |-> store[Server], server |-> server, peer |-> peer]

ServerBecomes(s) ==
    /\ store' = [store EXCEPT ![Server] = s.store]
    /\ server' = s.server
    /\ UNCHANGED <<time, client, written, stuck, spent>>

\* on_connect (bounded: client ids stay in Ids)
Accept(c) ==
    /\ client[c].state # "opening"
    /\ peer[c].id = NoId
    /\ server.serial \in Ids
    /\ peer' = [peer EXCEPT ![c] = [NoPeer EXCEPT !.id = server.serial]]
    /\ server' = [server EXCEPT !.serial = @ + 1]
    /\ UNCHANGED <<store, time, client, up, down, written, missed, stuck, spent>>

Handle(s, c, m) ==
    CASE m.type = "entry_create" -> HandleCreate(s, c, m)
      [] m.type = "entry_update" -> HandleUpdate(s, c, m)
      [] m.type = "entry_delete" -> HandleDelete(s, c, m)
      [] m.type = "handshake_ready" -> HandleReady(s, c)
      [] OTHER -> s

\* on_message (bounded: m_next_entry_id stays in Ids).  The answer to a time
\* sync request is written at once, past what is queued.
ServerReceive(c) ==
    /\ c \in Connected
    /\ up[c] # <<>>
    /\ \E m \in {Head(up[c])} : \E s \in {Handle(ServerState, c, m)} :
           /\ m.type = "entry_create" /\ server.parsed = NoId => server.next \in Ids
           /\ ServerBecomes(s)
           /\ peer' = s.peer
           /\ down' = IF m.type = "time_sync_request"
                      THEN [down EXCEPT ![c] = Append(@, SyncResponse)] ELSE down
    /\ up' = [up EXCEPT ![c] = Tail(@)]
    /\ UNCHANGED missed

\* process_updates: nothing happens without a client.  A client that is away
\* hears of a value when it is greeted, and of a deletion never (missed).
DirtyPaths(deleted) ==
    {store[Server].entries[h].path :
        h \in {g \in DirtyHandles(store[Server]) : store[Server].entries[g].deleted \in deleted}}

ServerUpdate ==
    LET dirty == DirtyHandles(store[Server])
        unnamed == {h \in dirty : store[Server].entries[h].id = NoId}
    IN  /\ Connected # {}
        /\ dirty # {} \/ \E c \in Connected : peer[c].queue # <<>>
        /\ unnamed # {} => server.next + Cardinality(unnamed) - 1 \in Ids
        /\ \E s \in {PublishAll(ServerState)} :
              /\ ServerBecomes([s EXCEPT !.store = DirtyCleared(@)])
              /\ down' = [c \in Clients |-> down[c] \o s.peer[c].queue]
              /\ peer' = [c \in Clients |-> [s.peer[c] EXCEPT !.queue = <<>>]]
        /\ missed' = (missed \ DirtyPaths({FALSE, TRUE})) \cup
                        (IF Connected = Clients THEN {} ELSE DirtyPaths({TRUE}))
        /\ UNCHANGED up

-----------------------------------------------------------------------------
(* Failures.                                                                *)

\* The connection breaks: on_close and on_disconnect.  What was on its way is
\* lost, except what had not left the client's write buffer; the client keeps
\* its net ids, and the values of paths whose deletion was on its way.
Disconnect(c) ==
    /\ spent.drops < MaxDrops
    /\ client[c].state # "opening"
    /\ client' = [client EXCEPT ![c].state = "opening"]
    /\ \E rest \in Suffixes(up[c]) : up' = [up EXCEPT ![c] = rest]
    /\ down' = [down EXCEPT ![c] = <<>>]
    /\ peer' = [peer EXCEPT ![c] = NoPeer]
    /\ missed' = missed \cup {p \in Paths : /\ latest(p) = Absent
                                            /\ ReadingAt(c, p) # Absent
                                            /\ p \notin DirtyPaths({TRUE})}
    /\ spent' = [spent EXCEPT !.drops = @ + 1]
    /\ UNCHANGED <<store, time, server, written, stuck>>

\* Connecting fails for good.  When connect() fails at once, on_close takes the
\* m_mutex update() holds, and the looper's thread waits for itself.  After a
\* connection was reset, the looper still lists the descriptor, and adding the
\* next socket, which reuses it, throws at every try.  A reader in the state
\* error closes each connection it gets.  (bounded: MaxStuck clients at a time)
ConnectFails(c) ==
    /\ client[c].state = "opening"
    /\ c \notin stuck
    /\ Cardinality(stuck) < MaxStuck
    /\ stuck' = stuck \cup {c}
    /\ UNCHANGED <<store, time, server, peer, client, up, down, written, missed, spent>>

\* What may be left of a client's write buffer when its server goes.
StillHeld(c) == IF client[c].state = "opening" THEN {up[c]} ELSE Suffixes(up[c])

\* stop_network and start_server: a new network_server on the same storage.
RestartServer ==
    /\ spent.restarts < MaxRestarts
    /\ \E id \in ParserStart :
          server' = [next |-> 0, names |-> [i \in Ids |-> Absent], parsed |-> id, serial |-> 0]
    /\ store' = [store EXCEPT ![Server] = NetIdsCleared(@)]
    /\ peer' = [c \in Clients |-> NoPeer]
    /\ client' = [c \in Clients |-> [client[c] EXCEPT !.state = "opening"]]
    /\ down' = [c \in Clients |-> <<>>]
    /\ \E rest \in [Clients -> UNION {StillHeld(c) : c \in Clients}] :
          (\A c \in Clients : rest[c] \in StillHeld(c)) /\ up' = rest
    /\ spent' = [spent EXCEPT !.restarts = @ + 1]
    /\ UNCHANGED <<time, written, missed, stuck>>

\* stop_network and start_client: a new network_client on the same storage, its
\* reader and write buffer new too; the looper is the same.
RestartClient(c) ==
    /\ spent.restarts < MaxRestarts
    /\ stuck' \in {stuck, stuck \ {c}}
    /\ client' = [client EXCEPT ![c] = [state |-> "opening", queue |-> <<>>]]
    /\ store' = [store EXCEPT ![c] = NetIdsCleared(@)]
    /\ peer' = [peer EXCEPT ![c] = NoPeer]
    /\ down' = [down EXCEPT ![c] = <<>>]
    /\ up' = [up EXCEPT ![c] = <<>>]
    /\ spent' = [spent EXCEPT !.restarts = @ + 1]
    /\ UNCHANGED <<time, server, written, missed>>

-----------------------------------------------------------------------------
ProgramNext ==
    \/ \E n \in Nodes, v \in Values : SetPath(n, v)
    \/ \E n \in Nodes, p \in Paths : DeletePath(n, p)
    \/ \E n \in Nodes, p \in Paths : ClearPath(n, p)
    \/ Tick

ClientNext(c) == Connect(c) \/ ClientUpdate(c) \/ ClientFlush(c) \/ ClientReceive(c)

ServerNext == ServerUpdate \/ \E c \in Clients : Accept(c) \/ ServerReceive(c)

FailureNext ==
    \/ \E c \in Clients : Disconnect(c)
    \/ \E c \in Clients : ConnectFails(c)
    \/ RestartServer
    \/ \E c \in Clients : RestartClient(c)

Next == ProgramNext \/ (\E c \in Clients : ClientNext(c)) \/ ServerNext \/ FailureNext

Spec == Init /\ [][Next]_vars

\* The loopers of the server and of each client go on: as long as one has a
\* message to read or a tick with something to do, it does something.  Programs,
\* the clock and failures owe nothing.
FairSpec ==
    /\ Spec
    /\ WF_vars(ServerNext)
    /\ \A c \in Clients : WF_vars(ClientNext(c))

-----------------------------------------------------------------------------
(* Properties.                                                              *)

\* Nothing is dirty, queued or on its way, and every client is in use.
Quiescent ==
    /\ \A n \in Nodes : DirtyHandles(store[n]) = {}
    /\ \A c \in Clients :
          /\ client[c].state = "in_use"
          /\ client[c].queue = <<>> /\ up[c] = <<>> /\ down[c] = <<>>
          /\ peer[c].id # NoId /\ peer[c].queue = <<>>

\* The type invariant of the network.
TypeOK ==
    /\ \A n \in Nodes : StoreTypeOK(store[n])
    /\ time \in 1..MaxTime
    /\ server.next \in Nat /\ server.serial \in Nat
    /\ server.names \in [Ids -> Paths \cup {Absent}]
    /\ server.parsed \in Ids \cup {NoId}
    /\ \A c \in Clients :
          /\ peer[c].id \in Ids \cup {NoId} /\ peer[c].known \subseteq Ids
          /\ client[c].state \in
                {"opening", "in_handshake_time_sync", "in_handshake", "in_use"}
    /\ missed \subseteq Paths
    /\ stuck \subseteq Clients
    /\ \A p \in Paths : written[p] \in Seq([reading : Visible, at : 0..MaxTime])

\* The storage of every node stays consistent whatever messages of the others
\* its handlers (on_entry_created and its siblings) apply, and across restarts.
StoresConsistent ==
    \A n \in Nodes : Lifecycle(store[n]) /\ PathIndex(store[n]) /\ IdIndex(store[n])

AgreeOn(p) == \A n \in Nodes : ReadingAt(n, p) = latest(p)

\* When nothing is left to do, every node reads what was written last:
\* process_updates, process_storage and the handshake leave nobody behind but
\* a client that was away when it was told that a path is deleted.
LatestEverywhere == Quiescent => \A p \in Paths : AgreeOn(p) \/ p \in missed

\* A value is only ever read under the path it was written to: the ids that
\* stand for paths in updates are never mixed up.
ValuesStayHome ==
    \A n \in Nodes, p \in Paths :
        ReadingAt(n, p) \in Values => HomeOf[ReadingAt(n, p)] = p

\* A network id in the m_ids of a client names the same path in the server's.
IdsMeanTheSame ==
    \A c \in Clients, id \in Ids :
        LET h == store[c].ids[id]
            g == store[Server].ids[id]
        IN  h # 0 => g # 0 /\ store[c].entries[h].path = store[Server].entries[g].path

\* An id in the server's list of what a client knows (m_published_entries) is
\* known there or its entry_id_assign is on its way.
KnownIsTold ==
    \A c \in Clients : \A id \in peer[c].known :
        \/ store[c].ids[id] # 0
        \/ \E p \in Paths : Assign(id, p) \in Range(down[c]) \cup Range(peer[c].queue)

\* No entry_update or entry_delete reaches a client before the id it names,
\* where on_entry_updated and on_entry_deleted would drop it.
IdsComeFirst ==
    \A c \in Clients :
        LET m == Head(down[c])
        IN  down[c] # <<>> /\ m.type \in {"entry_update", "entry_delete"} =>
                store[c].ids[m.id] # 0

\* Whatever breaks or restarts, every client gets through its handshake again,
\* but for those whose connecting has failed for good: connect() or looper::add
\* fails each time, or the reader of socket_io is in its state error.
EveryoneGetsIn == <>[](\A c \in Clients : client[c].state = "in_use" \/ c \in stuck)

\* What an entry reads, and which of the readings of its path it is: the last
\* that was there at the time of its stamp.
Come(n, p) ==
    LET h == store[n].paths[p]
        ts == IF h = 0 THEN 0 ELSE store[n].entries[h].ts
    IN  CHOOSE k \in DOMAIN written[p] :
            /\ written[p][k].reading = ReadingAt(n, p) /\ written[p][k].at <= ts
            /\ \A j \in DOMAIN written[p] :
                  written[p][j].reading = ReadingAt(n, p) /\ written[p][j].at <= ts => j <= k

\* Clients that only listen go through the readings of each path in the order
\* the server's program gave them, across lost connections and new handshakes,
\* which stamp values anew: none is ever taken back to an older reading.
R == INSTANCE Replicas WITH
        Followers <- Clients,
        Readings <- Visible,
        history <- [p \in Paths |-> [k \in DOMAIN written[p] |-> written[p][k].reading]],
        at <- [c \in Clients |-> [p \in Paths |-> Come(c, p)]]

ServerLeads == R!Spec

\* Every node ends up reading what was written last: each dirty entry is
\* published and each message is applied in the end, and a new handshake brings
\* what was lost with a connection, deletions excepted.  It is claimed where no
\* client's connecting fails for good (MaxStuck = 0): weak fairness then takes
\* each client through Connect, as the timer of connect_retry_time does.
AgreeInTheEnd == <>[](\A p \in Paths : AgreeOn(p) \/ p \in missed)
=============================================================================
