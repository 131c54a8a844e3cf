------------------------------ MODULE Storage ------------------------------
(***************************************************************************)
(* One storage, the callers of its public interface (the obsr API) and the *)
(* network thread that feeds it what peers send.  Messages arrive with any *)
(* id, path, value and timestamp a peer may have sent, in any order.       *)
(*                                                                         *)
(* Two variables follow the storage from outside:                          *)
(*   view   : what a listener that heard every event believes each entry   *)
(*            holds (Broken once an event contradicts the earlier ones)    *)
(*   shared : for each entry, the reading the network last saw, either     *)
(*            because it sent it or because act_on_dirty_entries read it   *)
(***************************************************************************)
EXTENDS StorageOps

CONSTANTS
    Prefixes,   \* arguments of delete_entries
    Matching,   \* the paths each of them is found in (storage_entry::is_in)
    Broken,     \* the view of a listener that heard contradicting events
    MaxTime,    \* bound: clock readings and timestamps are 1..MaxTime
    Offsets     \* clock offsets a resync may apply

ASSUME BrokenAssumption == Broken \notin Values \cup {Empty, Absent}
ASSUME MatchingAssumption == Matching \in [Prefixes -> SUBSET Paths]
ASSUME MaxTimeAssumption == MaxTime \in Nat \ {0}
ASSUME OffsetsAssumption == Offsets \subseteq Int

VARIABLES store, now, view, shared

vars == <<store, now, view, shared>>

Times == 1..MaxTime

TypeOK ==
    /\ StoreTypeOK(store)
    /\ now \in Times
    /\ view \in [Handles -> Visible \cup {Broken}]
    /\ shared \in [Handles -> Visible]

Init ==
    /\ store = EmptyStore
    /\ now \in Times
    /\ view = [h \in Handles |-> Absent]
    /\ shared = [h \in Handles |-> Absent]

-----------------------------------------------------------------------------
(* What a listener makes of the events of one call on one entry: at most a  *)
(* created event and then one other.                                        *)

Follow(v, note) ==
    CASE note.type = "created" /\ v = Absent -> Empty
      [] note.type = "value_changed" /\ v # Absent /\ v = note.old -> note.new
      [] note.type = "deleted" /\ v \notin {Absent, Broken} -> Absent
      [] OTHER -> Broken

Replay(v, notes) ==
    CASE Len(notes) = 0 -> v
      [] Len(notes) = 1 -> Follow(v, notes[1])
      [] Len(notes) = 2 -> Follow(Follow(v, notes[1]), notes[2])
      [] OTHER -> Broken

Take(r) ==
    /\ store' = r.store
    /\ view' = IF r.at = 0 THEN view
               ELSE [view EXCEPT ![r.at] = Replay(@, r.notes)]

\* A message was applied unless it was stale, unknown or refused.
Applied(r) == r.at # 0 /\ r.notes # <<>> /\ ~r.threw

TakeRemote(r, reading) ==
    /\ Take(r)
    /\ shared' = IF Applied(r) THEN [shared EXCEPT ![r.at] = reading] ELSE shared
    /\ UNCHANGED now

TakeLocal(r) == Take(r) /\ UNCHANGED <<shared, now>>

-----------------------------------------------------------------------------
(* The public interface.                                                    *)

GetEntry(p) ==
    /\ HasRoomFor(store, p)
    /\ store' = GetOrCreate(store, p)
    /\ UNCHANGED <<now, view, shared>>

SetValue(h, v) == Known(store, h) /\ TakeLocal(SetEntryValue(store, h, v, now))
ClearValue(h) == Known(store, h) /\ TakeLocal(ClearEntry(store, h, now))
Delete(h) == Known(store, h) /\ TakeLocal(DeleteOne(store, h, now))

DeleteEntries(prefix) ==
    LET r == DeleteMatching(store, Matching[prefix], now)
    IN  /\ store' = r.store
        /\ view' = [h \in Handles |-> IF Known(store, h)
                                      THEN Replay(view[h], r.notes[h]) ELSE view[h]]
        /\ UNCHANGED <<shared, now>>

-----------------------------------------------------------------------------
(* The network code.                                                        *)

RemoteCreate(id, p, v, t) ==
    /\ HasRoomFor(store, p)
    /\ TakeRemote(OnEntryCreated(store, id, p, v, t, now), v)

RemoteUpdate(id, v, t) == TakeRemote(OnEntryUpdated(store, id, v, t, now), v)
RemoteDelete(id, t) == TakeRemote(OnEntryDeleted(store, id, t, now), Absent)

AssignId(id, p) ==
    /\ HasRoomFor(store, p)
    /\ store' = OnEntryIdAssigned(store, id, p)
    /\ UNCHANGED <<now, view, shared>>

\* act_on_dirty_entries: the network code reads every dirty entry.
Publish ==
    /\ store' = DirtyCleared(store)
    /\ shared' = [h \in Handles |-> IF h \in DirtyHandles(store)
                                    THEN Reading(store.entries[h]) ELSE shared[h]]
    /\ UNCHANGED <<now, view>>

ClearNetIds == store' = NetIdsCleared(store) /\ UNCHANGED <<now, view, shared>>

\* The clock is not the storage's: it ticks, and a sync moves it either way.
ClockMoves == now' \in Times /\ UNCHANGED <<store, view, shared>>

\* Bounded: no stamp leaves 1..MaxTime (a real stamp is far from 0).
ClockResync(offset) ==
    /\ \A h \in DOMAIN store.entries :
          store.entries[h].ts # 0 => store.entries[h].ts - offset \in Times
    /\ store' = Resynced(store, offset)
    /\ UNCHANGED <<now, view, shared>>

-----------------------------------------------------------------------------
LocalNext ==
    \/ \E p \in Paths : GetEntry(p)
    \/ \E h \in Handles, v \in AnyValue : SetValue(h, v)
    \/ \E h \in Handles : ClearValue(h)
    \/ \E h \in Handles : Delete(h)
    \/ \E prefix \in Prefixes : DeleteEntries(prefix)

NetworkNext ==
    \/ \E id \in Ids, p \in Paths, v \in AnyValue, t \in Times : RemoteCreate(id, p, v, t)
    \/ \E id \in Ids, v \in AnyValue, t \in Times : RemoteUpdate(id, v, t)
    \/ \E id \in Ids, t \in Times : RemoteDelete(id, t)
    \/ \E id \in Ids, p \in Paths : AssignId(id, p)
    \/ Publish
    \/ ClearNetIds

ClockNext == ClockMoves \/ \E offset \in Offsets : ClockResync(offset)

Next == LocalNext \/ NetworkNext \/ ClockNext

Spec == Init /\ [][Next]_vars

-----------------------------------------------------------------------------
(* Properties.                                                              *)

Entries == {store.entries[h] : h \in DOMAIN store.entries}

\* Ghosts and deleted entries hold the empty value and a ghost has no stamp
\* and nothing to publish.  This is why set_value cannot throw after the
\* `created' event of a revived entry has been given to the listeners, and
\* why the first message about a ghost is never stale.
LifecycleOK == Lifecycle(store)

\* m_paths and the handle table are inverse of each other: two handles never
\* share a path, so an entry reached by path (network messages) and one
\* reached by handle (the API) are the same entry.
PathIndexOK == PathIndex(store)

\* m_ids only names entries that exist (on_entry_updated dereferences what it
\* finds unchecked), and an entry that carries a network id is found under it
\* (or an older entry that took the id first is).
IdIndexOK == IdIndex(store)

\* A listener that heard every event knows what a reader reads: events are
\* neither missing, doubled, contradictory nor carrying a wrong old value,
\* also when a call is refused half way.
ListenersAgree ==
    \A h \in DOMAIN store.entries : view[h] = Reading(store.entries[h])

\* An entry without the dirty flag reads as the network last saw it: no path
\* through set, clear, delete and the remote handlers drops a local change.
NothingForgotten ==
    \A h \in DOMAIN store.entries :
        ~store.entries[h].dirty => shared[h] = Reading(store.entries[h])

\* Two messages with different timestamps about an entry that has a value
\* leave it with the same reading in either order of arrival, as long as the
\* type of the entry does not change.
Update == [op: {"set"}, value: Values, ts: Times] \cup [op: {"delete"}, ts: Times]

ApplyTo(e, m) ==
    IF m.op = "set" THEN SetEntry(e, m.value, FALSE, e.id, FALSE, m.ts, now).entry
    ELSE DeleteEntry(e, FALSE, m.ts, now).entry

KeepsType(e, m) == m.op = "set" => TypeOf[m.value] = TypeOf[e.value]

UpdatesConverge ==
    \A e \in Entries : HasValue(e) /\ e.value # Empty =>
        \A m, n \in Update :
            m.ts # n.ts /\ KeepsType(e, m) /\ KeepsType(e, n) =>
                Reading(ApplyTo(ApplyTo(e, m), n)) = Reading(ApplyTo(ApplyTo(e, n), m))

\* A local change waiting to be published disappears only by being published
\* as it stands or by giving way to a message at least as new.
PendingOnlyYieldsToNewer ==
    [][\A h \in DOMAIN store.entries :
          store.entries[h].dirty /\ ~store'.entries[h].dirty =>
              /\ shared'[h] = Reading(store'.entries[h])
              /\ \/ Reading(store'.entries[h]) = Reading(store.entries[h])
                 \/ store'.entries[h].ts >= store.entries[h].ts]_vars

\* The type of a value changes only by way of the empty value or a deletion.
TypeChangesThroughEmpty ==
    [][\A h \in DOMAIN store.entries :
          LET old == store.entries[h].value
              new == store'.entries[h].value
          IN  old \in Values /\ new \in Values => TypeOf[old] = TypeOf[new]]_vars
=============================================================================
