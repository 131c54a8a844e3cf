----------------------------- MODULE StorageOps -----------------------------
(***************************************************************************)
(* The operations of obsr::storage::storage (src/src/storage/storage.cpp)  *)
(* as functions of the storage's state.  Every method runs under the       *)
(* storage's recursive mutex, so one call is one step; the modules that    *)
(* own a storage (Storage, ObsrNet) turn these functions into actions.     *)
(*                                                                         *)
(* A storage is a record                                                   *)
(*   entries : the handle table; entries are never released, so the lowest *)
(*             free slot is always the next one and the table is a         *)
(*             sequence: handle h is slot h - 1                            *)
(*   paths   : m_paths, 0 where a path has no entry                        *)
(*   ids     : m_ids, 0 where a network id is unknown                      *)
(***************************************************************************)
EXTENDS Integers, Sequences

CONSTANTS
    Paths,      \* entry paths
    Values,     \* the non-empty values an entry may hold
    TypeOf,     \* the value_type of each of them
    Empty,      \* value::make(): the value of type `empty'
    Absent,     \* what a reader of an entry without a value gets (nullopt)
    Ids,        \* network ids
    NoId,       \* id_not_assigned
    Capacity    \* slots of the handle table (256 in the code)

ASSUME ValuesAssumption == Empty \notin Values /\ Absent \notin Values \cup {Empty}
ASSUME IdsAssumption == NoId \notin Ids
ASSUME CapacityAssumption == Capacity \in Nat \ {0}

AnyValue == Values \cup {Empty}
Visible == AnyValue \cup {Absent}
Handles == 1..Capacity

EntryType == [path: Paths, value: AnyValue, ts: Int, id: Ids \cup {NoId},
              dirty: BOOLEAN, created: BOOLEAN, deleted: BOOLEAN]

(***************************************************************************)
(* Single entries.                                                         *)
(***************************************************************************)

\* A "ghost": get_or_create_entry on an unknown path.
Ghost(p) == [path |-> p, value |-> Empty, ts |-> 0, id |-> NoId,
             dirty |-> FALSE, created |-> TRUE, deleted |-> FALSE]

HasValue(e) == ~e.created /\ ~e.deleted

\* What get_entry_value answers.
Reading(e) == IF HasValue(e) THEN e.value ELSE Absent

\* The definitions named Faulty... are variants with a mistake the code could
\* have made; no specification uses them.
FaultyStaleSwapped(last, t) == t # 0 /\ last < t

\* A timestamp of 0 marks a local call, which is never stale.
Stale(last, t) == t # 0 /\ last > t

FaultyMismatchOnlyEmpty(old, new) == old # Empty /\ new = Empty

\* set_value refuses to change the type of a non-empty value.
Mismatch(old, new) == old # Empty /\ (new = Empty \/ TypeOf[old] # TypeOf[new])

Stamp(t, now) == IF t = 0 THEN now ELSE t

CreatedNote == [type |-> "created", old |-> Empty, new |-> Empty]
ChangedNote(v, w) == [type |-> "value_changed", old |-> v, new |-> w]
DeletedNote == [type |-> "deleted", old |-> Empty, new |-> Empty]

\* The outcome of a call on an entry: the entry after it, the events it gave
\* to the listener storage, and whether it threw entry_type_mismatch.
Outcome(e, notes, threw) == [entry |-> e, notes |-> notes, threw |-> threw]

\* The entry of set_entry_internal before the value is written: it is alive
\* again and knows its network id, even when writing the value then throws.
Revived(e, id) == [e EXCEPT !.created = FALSE, !.deleted = FALSE,
                            !.id = IF id = NoId THEN @ ELSE id]

FaultyBirthGhostOnly(e) == IF e.created THEN <<CreatedNote>> ELSE <<>>

Birth(e) == IF HasValue(e) THEN <<>> ELSE <<CreatedNote>>

Written(e, v, id, dirty, t) ==
    [Revived(e, id) EXCEPT !.value = v, !.dirty = dirty, !.ts = t]

SetEntry(e, v, clear, id, dirty, t, now) ==
    CASE Stale(e.ts, t) -> Outcome(e, <<>>, FALSE)
      [] ~Stale(e.ts, t) /\ ~clear /\ Mismatch(e.value, v) ->
            Outcome(Revived(e, id), Birth(e), TRUE)
      [] OTHER ->
            Outcome(Written(e, v, id, dirty, Stamp(t, now)),
                    Append(Birth(e), ChangedNote(e.value, v)), FALSE)

FaultyErasedKeepsValue(e, dirty, t) ==
    [e EXCEPT !.deleted = TRUE, !.dirty = dirty, !.ts = t]
FaultyErasedNeverDirty(e, dirty, t) ==
    [e EXCEPT !.value = Empty, !.deleted = TRUE, !.dirty = FALSE, !.ts = t]

Erased(e, dirty, t) ==
    [e EXCEPT !.value = Empty, !.deleted = TRUE, !.dirty = dirty, !.ts = t]

FaultyDeleteAlwaysFresh(e, dirty, t, now) ==
    IF ~HasValue(e) THEN Outcome(e, <<>>, FALSE)
    ELSE Outcome(Erased(e, dirty, Stamp(t, now)), <<DeletedNote>>, FALSE)

DeleteEntry(e, dirty, t, now) ==
    IF Stale(e.ts, t) \/ ~HasValue(e)
    THEN Outcome(e, <<>>, FALSE)
    ELSE Outcome(Erased(e, dirty, Stamp(t, now)), <<DeletedNote>>, FALSE)

(***************************************************************************)
(* The whole storage.                                                      *)
(***************************************************************************)

EmptyStore == [entries |-> <<>>, paths |-> [p \in Paths |-> 0],
               ids |-> [i \in Ids |-> 0]]

Known(s, h) == h \in DOMAIN s.entries

FaultyRoomUnchecked(s, p) == TRUE

\* m_entries.allocate_new throws no_space when every slot is taken.
HasRoomFor(s, p) == s.paths[p] # 0 \/ Len(s.entries) < Capacity

FaultyAlwaysCreate(s, p) ==
    [s EXCEPT !.entries = Append(@, Ghost(p)), !.paths[p] = Len(s.entries) + 1]

\* get_or_create_entry, and the same lookup in the network handlers.
GetOrCreate(s, p) ==
    IF s.paths[p] # 0 THEN s
    ELSE [s EXCEPT !.entries = Append(@, Ghost(p)),
                   !.paths[p] = Len(s.entries) + 1]

\* std::map::emplace keeps an id that is already mapped.
Emplace(ids, id, h) == IF ids[id] = 0 THEN [ids EXCEPT ![id] = h] ELSE ids

PutEntry(s, h, e) == [s EXCEPT !.entries[h] = e]

\* A call on the storage: its state after the call, the handle it touched (0
\* for none) and the outcome on that entry.
Result(s, h, out) ==
    [store |-> PutEntry(s, h, out.entry), at |-> h,
     notes |-> out.notes, threw |-> out.threw]
NoResult(s) == [store |-> s, at |-> 0, notes |-> <<>>, threw |-> FALSE]

SetEntryValue(s, h, v, now) ==
    Result(s, h, SetEntry(s.entries[h], v, FALSE, NoId, TRUE, 0, now))
ClearEntry(s, h, now) ==
    Result(s, h, SetEntry(s.entries[h], Empty, TRUE, NoId, TRUE, 0, now))
DeleteOne(s, h, now) ==
    Result(s, h, DeleteEntry(s.entries[h], TRUE, 0, now))

\* delete_entries: every entry whose path matches, in one pass of the table.
DeleteMatching(s, matching, now) ==
    LET Out(h) == IF s.entries[h].path \in matching
                  THEN DeleteEntry(s.entries[h], TRUE, 0, now)
                  ELSE Outcome(s.entries[h], <<>>, FALSE)
    IN  [store |-> [s EXCEPT !.entries = [h \in DOMAIN @ |-> Out(h).entry]],
         notes |-> [h \in DOMAIN s.entries |-> Out(h).notes]]

OnEntryCreated(s, id, p, v, t, now) ==
    LET u == GetOrCreate(s, p)
        h == u.paths[p]
    IN  Result([u EXCEPT !.ids = Emplace(@, id, h)], h,
               SetEntry(u.entries[h], v, FALSE, id, FALSE, t, now))

OnEntryUpdated(s, id, v, t, now) ==
    LET h == s.ids[id]
    IN  IF h = 0 THEN NoResult(s)
        ELSE Result(s, h, SetEntry(s.entries[h], v, FALSE, id, FALSE, t, now))

OnEntryDeleted(s, id, t, now) ==
    LET h == s.ids[id]
    IN  IF h = 0 THEN NoResult(s)
        ELSE Result(s, h, DeleteEntry(s.entries[h], FALSE, t, now))

OnEntryIdAssigned(s, id, p) ==
    LET u == GetOrCreate(s, p)
        h == u.paths[p]
    IN  [u EXCEPT !.entries[h].id = id, !.ids = Emplace(@, id, h)]

DirtyHandles(s) == {h \in DOMAIN s.entries : s.entries[h].dirty}

\* act_on_dirty_entries: every action of the code asks to go on, so the whole
\* table is walked and every dirty flag is cleared.
DirtyCleared(s) ==
    [s EXCEPT !.entries = [h \in DOMAIN @ |-> [@[h] EXCEPT !.dirty = FALSE]]]

FaultyOnlyIndexCleared(s) == [s EXCEPT !.ids = [i \in Ids |-> 0]]

NetIdsCleared(s) ==
    [s EXCEPT !.entries = [h \in DOMAIN @ |-> [@[h] EXCEPT !.id = NoId]],
              !.ids = [i \in Ids |-> 0]]

\* on_clock_resync: a stamp of 0 (never written) is left alone.
ResyncedEntry(e, offset) ==
    [e EXCEPT !.ts = IF e.ts = 0 THEN 0 ELSE e.ts - offset]
Resynced(s, offset) ==
    [s EXCEPT !.entries = [h \in DOMAIN @ |-> ResyncedEntry(@[h], offset)]]

(***************************************************************************)
(* What every storage satisfies between two calls.                         *)
(***************************************************************************)

StoreType ==
    [entries: Seq(EntryType), paths: [Paths -> 0..Capacity],
     ids: [Ids -> 0..Capacity]]

StoreTypeOK(s) == s \in StoreType /\ Len(s.entries) <= Capacity

\* An entry that has no value (a ghost, or a deleted one) holds the empty
\* value, is never both, and a ghost was never written: no stamp, nothing to
\* publish.
EntryLifecycle(e) ==
    /\ ~(e.created /\ e.deleted)
    /\ ~HasValue(e) => e.value = Empty
    /\ e.created => e.ts = 0 /\ ~e.dirty

Lifecycle(s) == \A h \in DOMAIN s.entries : EntryLifecycle(s.entries[h])

\* m_paths and the handle table are inverse of each other.
PathIndex(s) ==
    /\ \A p \in Paths : s.paths[p] # 0 =>
          /\ s.paths[p] \in DOMAIN s.entries
          /\ s.entries[s.paths[p]].path = p
    /\ \A h \in DOMAIN s.entries : s.paths[s.entries[h].path] = h

\* m_ids only names entries that exist, and the id of an entry is in m_ids.
IdIndex(s) ==
    /\ \A id \in Ids : s.ids[id] # 0 => s.ids[id] \in DOMAIN s.entries
    /\ \A h \in DOMAIN s.entries : s.entries[h].id # NoId =>
          s.ids[s.entries[h].id] # 0
=============================================================================
