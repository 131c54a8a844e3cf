--------------------------- MODULE StorageProofs ---------------------------
(***************************************************************************)
(* Theorems about one storage, for every set of paths, values and ids and  *)
(* every capacity.                                                         *)
(***************************************************************************)
EXTENDS Storage, StorageOpsProofs

-----------------------------------------------------------------------------
(* The events of a call.                                                    *)

\* The events of a call take a listener from the old reading to the new one,
\* also when the call is refused with a type mismatch.
LEMMA SetEntryNotes ==
    ASSUME NEW e \in EntryType, EntryLifecycle(e),
           NEW v \in AnyValue, NEW clear \in BOOLEAN, NEW id \in AnyId,
           NEW dirty \in BOOLEAN, NEW t \in Int, NEW n \in Int
    PROVE  LET out == SetEntry(e, v, clear, id, dirty, t, n)
           IN  Replay(Reading(e), out.notes) = Reading(out.entry)
  <1> DEFINE out == SetEntry(e, v, clear, id, dirty, t, n)
  <1>1. CASE Stale(e.ts, t)
    BY <1>1 DEF SetEntry, Outcome, Replay
  <1>2. CASE ~Stale(e.ts, t) /\ ~clear /\ Mismatch(e.value, v)
    <2>1. HasValue(e)
      BY <1>2 DEF Mismatch, EntryLifecycle
    <2>2. out.notes = <<>> /\ out.entry = Revived(e, id)
      BY <1>2, <2>1 DEF SetEntry, Outcome, Birth
    <2>3. Reading(Revived(e, id)) = e.value
      BY DEF Reading, Revived, HasValue, EntryType
    <2> QED
      BY <2>1, <2>2, <2>3 DEF Replay, Reading
  <1>3. CASE ~Stale(e.ts, t) /\ ~(~clear /\ Mismatch(e.value, v))
    <2>1. /\ out.notes = Append(Birth(e), ChangedNote(e.value, v))
          /\ out.entry = Written(e, v, id, dirty, Stamp(t, n))
      BY <1>3 DEF SetEntry, Outcome
    <2>2. Reading(out.entry) = v
      BY <2>1 DEF Written, Revived, Reading, HasValue, EntryType
    <2>3. CASE HasValue(e)
      <3>1. out.notes = <<ChangedNote(e.value, v)>>
        BY <2>1, <2>3 DEF Birth
      <3>2. Reading(e) = e.value /\ e.value # Absent
        BY <2>3, ValuesAssumption DEF Reading, EntryType, AnyValue
      <3> QED
        BY <2>2, <3>1, <3>2 DEF Replay, Follow, ChangedNote
    <2>4. CASE ~HasValue(e)
      <3>2. Reading(e) = Absent /\ e.value = Empty
        BY <2>4 DEF Reading, EntryLifecycle
      <3>3. Follow(Absent, CreatedNote) = Empty
        BY DEF Follow, CreatedNote
      <3>4. Follow(Empty, ChangedNote(Empty, v)) = v
        BY ValuesAssumption DEF Follow, ChangedNote
      <3>5. /\ Len(out.notes) = 2
            /\ out.notes[1] = CreatedNote
            /\ out.notes[2] = ChangedNote(Empty, v)
        <4> DEFINE c == CreatedNote
                   d == ChangedNote(Empty, v)
        <4>1. out.notes = Append(<<c>>, d)
          BY <2>1, <2>4, <3>2 DEF Birth
        <4> HIDE DEF c, d, out
        <4>2. <<c>> \in Seq({c, d}) /\ Len(<<c>>) = 1 /\ <<c>>[1] = c
          OBVIOUS
        <4>3. /\ Len(Append(<<c>>, d)) = 2
              /\ Append(<<c>>, d)[1] = c
              /\ Append(<<c>>, d)[2] = d
          BY <4>2, AppendProperties
        <4> QED
          BY <4>1, <4>3 DEF c, d
      <3>6. Replay(Absent, out.notes) = Follow(Follow(Absent, out.notes[1]), out.notes[2])
        BY <3>5 DEF Replay
      <3> QED
        BY <2>2, <3>2, <3>3, <3>4, <3>5, <3>6
    <2> QED
      BY <2>3, <2>4
  <1> QED
    BY <1>1, <1>2, <1>3

\* The events of a deletion, likewise.
LEMMA DeleteEntryNotes ==
    ASSUME NEW e \in EntryType, NEW dirty \in BOOLEAN, NEW t \in Int, NEW n \in Int
    PROVE  LET out == DeleteEntry(e, dirty, t, n)
           IN  Replay(Reading(e), out.notes) = Reading(out.entry)
  <1> DEFINE out == DeleteEntry(e, dirty, t, n)
  <1>1. CASE Stale(e.ts, t) \/ ~HasValue(e)
    BY <1>1 DEF DeleteEntry, Outcome, Replay
  <1>2. CASE ~(Stale(e.ts, t) \/ ~HasValue(e))
    <2>1. out.notes = <<DeletedNote>> /\ out.entry = Erased(e, dirty, Stamp(t, n))
      BY <1>2 DEF DeleteEntry, Outcome
    <2>2. Reading(out.entry) = Absent
      BY <2>1 DEF Erased, Reading, HasValue, EntryType
    <2>3. Reading(e) \notin {Absent, Broken}
      BY <1>2, ValuesAssumption, BrokenAssumption DEF Reading, EntryType, AnyValue
    <2> QED
      BY <2>1, <2>2, <2>3 DEF Replay, Follow, DeletedNote
  <1> QED
    BY <1>1, <1>2

-----------------------------------------------------------------------------
(* One call on one entry, seen from outside.  `reading' is what the caller   *)
(* or the message wants the entry to read, `dirty' whether the change is     *)
(* still to be published, t the timestamp (0 for a local call).              *)

Unapplied(e, out) ==
    /\ Reading(out.entry) = Reading(e)
    /\ out.entry.value = e.value
    /\ out.entry.dirty = e.dirty
    /\ out.entry.ts = e.ts
    /\ out.threw \/ out.notes = <<>>

AppliedAs(e, out, reading, dirty, t) ==
    /\ Reading(out.entry) = reading
    /\ out.entry.dirty = dirty
    /\ t # 0 => out.entry.ts >= e.ts
    /\ ~out.threw /\ out.notes # <<>>

KeepsTypeOf(old, new) ==
    old.value \in Values /\ new.value \in Values => TypeOf[old.value] = TypeOf[new.value]

GoodCall(e, out, reading, dirty, t) ==
    /\ out.entry \in EntryType
    /\ EntryLifecycle(out.entry)
    /\ out.entry.path = e.path
    /\ Replay(Reading(e), out.notes) = Reading(out.entry)
    /\ KeepsTypeOf(e, out.entry)
    /\ Unapplied(e, out) \/ AppliedAs(e, out, reading, dirty, t)

\* set_entry keeps the promises GoodCall lists: types, life cycle, events, flags.
LEMMA SetEntryGood ==
    ASSUME NEW e \in EntryType, EntryLifecycle(e),
           NEW v \in AnyValue, NEW clear \in BOOLEAN, clear => v = Empty,
           NEW id \in AnyId, NEW dirty \in BOOLEAN, NEW t \in Int, NEW n \in Int
    PROVE  GoodCall(e, SetEntry(e, v, clear, id, dirty, t, n), v, dirty, t)
  <1> DEFINE out == SetEntry(e, v, clear, id, dirty, t, n)
  <1>1. /\ out.entry \in EntryType
        /\ EntryLifecycle(out.entry)
        /\ out.entry.path = e.path
    BY SetEntryOK
  <1>2. Replay(Reading(e), out.notes) = Reading(out.entry)
    BY SetEntryNotes
  <1>3. CASE Stale(e.ts, t)
    <2>1. out.entry = e /\ out.notes = <<>>
      BY <1>3 DEF SetEntry, Outcome
    <2> QED
      BY <1>1, <1>2, <2>1 DEF GoodCall, Unapplied, KeepsTypeOf
  <1>4. CASE ~Stale(e.ts, t) /\ ~clear /\ Mismatch(e.value, v)
    <2>1. out.entry = Revived(e, id) /\ out.threw
      BY <1>4 DEF SetEntry, Outcome
    <2>2. HasValue(e)
      BY <1>4 DEF Mismatch, EntryLifecycle
    <2>3. /\ out.entry.value = e.value /\ out.entry.dirty = e.dirty
          /\ out.entry.ts = e.ts /\ HasValue(out.entry)
      BY <2>1 DEF Revived, HasValue, EntryType
    <2>4. Unapplied(e, out)
      BY <2>1, <2>2, <2>3 DEF Unapplied, Reading
    <2> QED
      BY <1>1, <1>2, <2>3, <2>4 DEF GoodCall, KeepsTypeOf
  <1>5. CASE ~Stale(e.ts, t) /\ ~(~clear /\ Mismatch(e.value, v))
    <2>1. /\ out.entry = Written(e, v, id, dirty, Stamp(t, n))
          /\ out.notes = Append(Birth(e), ChangedNote(e.value, v))
          /\ ~out.threw
      BY <1>5 DEF SetEntry, Outcome
    <2>2. /\ out.entry.value = v /\ out.entry.dirty = dirty
          /\ out.entry.ts = Stamp(t, n) /\ HasValue(out.entry)
      BY <2>1 DEF Written, Revived, HasValue, EntryType
    <2>3. out.notes # <<>>
      <3> DEFINE c == CreatedNote
                 d == ChangedNote(e.value, v)
      <3>1. Birth(e) \in {<<>>, <<c>>}
        BY DEF Birth
      <3> HIDE DEF out, c
      <3>2. Birth(e) \in Seq({c, d})
        <4> HIDE DEF d
        <4>1. <<>> \in Seq({c, d}) /\ <<c>> \in Seq({c, d})
          OBVIOUS
        <4> QED
          BY <3>1, <4>1
      <3> QED
        BY <2>1, <3>2, AppendProperties
    <2>4. t # 0 => out.entry.ts >= e.ts
      BY <1>5, <2>2 DEF Stale, Stamp, EntryType
    <2>5. KeepsTypeOf(e, out.entry)
      BY <1>5, <2>2, ValuesAssumption DEF KeepsTypeOf, Mismatch
    <2>6. AppliedAs(e, out, v, dirty, t)
      BY <2>1, <2>2, <2>3, <2>4 DEF AppliedAs, Reading
    <2> QED
      BY <1>1, <1>2, <2>5, <2>6 DEF GoodCall
  <1> QED
    BY <1>3, <1>4, <1>5

\* delete_entry keeps them too, and the entry then reads as absent.
LEMMA DeleteEntryGood ==
    ASSUME NEW e \in EntryType, EntryLifecycle(e),
           NEW dirty \in BOOLEAN, NEW t \in Int, NEW n \in Int
    PROVE  GoodCall(e, DeleteEntry(e, dirty, t, n), Absent, dirty, t)
  <1> DEFINE out == DeleteEntry(e, dirty, t, n)
  <1>1. /\ out.entry \in EntryType
        /\ EntryLifecycle(out.entry)
        /\ out.entry.path = e.path
        /\ out.entry.id = e.id
    BY DeleteEntryOK
  <1>2. Replay(Reading(e), out.notes) = Reading(out.entry)
    BY DeleteEntryNotes
  <1>3. CASE Stale(e.ts, t) \/ ~HasValue(e)
    <2>1. out.entry = e /\ out.notes = <<>>
      BY <1>3 DEF DeleteEntry, Outcome
    <2> QED
      BY <1>1, <1>2, <2>1 DEF GoodCall, Unapplied, KeepsTypeOf
  <1>4. CASE ~(Stale(e.ts, t) \/ ~HasValue(e))
    <2>1. /\ out.entry = Erased(e, dirty, Stamp(t, n))
          /\ out.notes = <<DeletedNote>> /\ ~out.threw
      BY <1>4 DEF DeleteEntry, Outcome
    <2>2. /\ out.entry.value = Empty /\ out.entry.dirty = dirty
          /\ out.entry.ts = Stamp(t, n) /\ ~HasValue(out.entry)
      BY <2>1 DEF Erased, HasValue, EntryType
    <2>3. t # 0 => out.entry.ts >= e.ts
      BY <1>4, <2>2 DEF Stale, Stamp, EntryType
    <2>4. AppliedAs(e, out, Absent, dirty, t)
      BY <2>1, <2>2, <2>3 DEF AppliedAs, Reading
    <2> QED
      BY <1>1, <1>2, <2>2, <2>4, ValuesAssumption DEF GoodCall, KeepsTypeOf
  <1> QED
    BY <1>3, <1>4

-----------------------------------------------------------------------------
(* The inductive invariant.                                                 *)

\* A handle not in use yet is known to nobody: this makes the agreement of
\* listeners and network inductive over the creation of ghosts.
Agree(s, seen) ==
    \A h \in Handles :
        seen[h] = IF h \in DOMAIN s.entries THEN Reading(s.entries[h]) ELSE Absent

Forget(s, sent) ==
    \A h \in Handles :
        IF h \in DOMAIN s.entries
        THEN ~s.entries[h].dirty => sent[h] = Reading(s.entries[h])
        ELSE sent[h] = Absent

IInv ==
    /\ StoreInv(store)
    /\ now \in Times
    /\ view \in [Handles -> Visible]
    /\ shared \in [Handles -> Visible]
    /\ Agree(store, view)
    /\ Forget(store, shared)

\* What every step does to every entry (the two action properties).
StepOK ==
    \A h \in DOMAIN store.entries :
        LET e == store.entries[h]
            f == store'.entries[h]
        IN  /\ e.dirty /\ ~f.dirty =>
                  /\ shared'[h] = Reading(f)
                  /\ Reading(f) = Reading(e) \/ f.ts >= e.ts
            /\ KeepsTypeOf(e, f)

\* The storages a call may work on: the current one, or the current one with
\* a ghost or a network id added.
Extends(s) ==
    /\ StoreInv(s)
    /\ DOMAIN store.entries \subseteq DOMAIN s.entries
    /\ \A h \in DOMAIN store.entries : s.entries[h] = store.entries[h]
    /\ \A h \in DOMAIN s.entries \ DOMAIN store.entries :
          s.entries[h] = Ghost(s.entries[h].path)

\* What a program reads of an entry is a value or the absence of one.
LEMMA ReadingType ==
    ASSUME NEW e \in EntryType
    PROVE  Reading(e) \in Visible
  BY DEF Reading, EntryType, Visible

\* A handle that was only asked for reads as absent and has nothing to publish.
LEMMA GhostFacts ==
    ASSUME NEW p \in Paths
    PROVE  /\ Reading(Ghost(p)) = Absent /\ ~Ghost(p).dirty
           /\ Ghost(p).value = Empty
  BY DEF Ghost, Reading, HasValue

\* New ghosts and ids change no reading: listeners and peers stay as they were.
LEMMA ExtendsOK ==
    ASSUME IInv, NEW s, Extends(s)
    PROVE  Agree(s, view) /\ Forget(s, shared)
  <1>1. \A h \in DOMAIN s.entries \ DOMAIN store.entries :
           Reading(s.entries[h]) = Absent /\ ~s.entries[h].dirty
    <2> SUFFICES ASSUME NEW h \in DOMAIN s.entries \ DOMAIN store.entries
                 PROVE  Reading(s.entries[h]) = Absent /\ ~s.entries[h].dirty
      OBVIOUS
    <2>1. s.entries[h].path \in Paths
      BY StoreFacts DEF Extends, EntryType
    <2> QED
      BY <2>1, GhostFacts DEF Extends
  <1>2. Agree(s, view)
    BY <1>1 DEF IInv, Agree, Extends
  <1>3. Forget(s, shared)
    BY <1>1 DEF IInv, Forget, Extends
  <1> QED
    BY <1>2, <1>3

\* Any call on one entry preserves the invariant; a local one (dirty) tells
\* the network nothing, a remote one is what the network knows.
LEMMA CallStep ==
    ASSUME IInv, NEW s, Extends(s), NEW h \in DOMAIN s.entries,
           NEW out, NEW reading \in Visible, NEW dirty \in BOOLEAN, NEW t \in Int,
           GoodCall(s.entries[h], out, reading, dirty, t),
           out.entry.id # NoId => s.ids[out.entry.id] # 0,
           ~dirty => t # 0,
           Take(Result(s, h, out)), now' = now,
           shared' = IF ~dirty /\ Applied(Result(s, h, out))
                     THEN [shared EXCEPT ![h] = reading] ELSE shared
    PROVE  IInv' /\ StepOK
  <1> DEFINE e == s.entries[h]
             f == out.entry
  <1>1. StoreInv(s) /\ h \in Handles /\ h # 0 /\ e \in EntryType
    BY StoreFacts DEF Extends, Handles
  <1>2. /\ store' = PutEntry(s, h, f)
        /\ view' = [view EXCEPT ![h] = Replay(@, out.notes)]
    BY <1>1 DEF Take, Result
  <1>3. /\ f \in EntryType /\ EntryLifecycle(f) /\ f.path = e.path
        /\ Replay(Reading(e), out.notes) = Reading(f)
        /\ KeepsTypeOf(e, f)
        /\ Unapplied(e, out) \/ AppliedAs(e, out, reading, dirty, t)
    BY DEF GoodCall
  <1>4. /\ StoreInv(store')
        /\ DOMAIN store'.entries = DOMAIN s.entries
        /\ store'.entries[h] = f
        /\ \A g \in DOMAIN s.entries \ {h} : store'.entries[g] = s.entries[g]
    BY <1>1, <1>2, <1>3, PutEntryOK
  <1>5. Agree(s, view) /\ Forget(s, shared)
    BY ExtendsOK
  <1>6. Applied(Result(s, h, out)) <=> out.notes # <<>> /\ ~out.threw
    BY <1>1 DEF Applied, Result
  <1> HIDE DEF e, f
  <1>7. Reading(f) \in Visible
    BY <1>3, ReadingType
  <1>8. /\ view \in [Handles -> Visible] /\ view[h] = Reading(e)
    BY <1>1, <1>5 DEF IInv, Agree, e
  <1>9. /\ view' \in [Handles -> Visible]
        /\ view'[h] = Reading(f)
        /\ \A g \in Handles \ {h} : view'[g] = view[g]
    BY <1>1, <1>2, <1>3, <1>7, <1>8
  <1>10. Agree(store', view')
    BY <1>4, <1>5, <1>9 DEF Agree
  <1>11. shared' \in [Handles -> Visible] /\ \A g \in Handles \ {h} : shared'[g] = shared[g]
    BY <1>1 DEF IInv
  <1>12. ~f.dirty => shared'[h] = Reading(f)
    <2>1. CASE Unapplied(e, out)
      <3>1. shared'[h] = shared[h]
        BY <1>1, <1>6, <2>1 DEF Unapplied
      <3>2. f.dirty = e.dirty /\ Reading(f) = Reading(e)
        BY <2>1 DEF Unapplied, f
      <3>3. ~e.dirty => shared[h] = Reading(e)
        BY <1>1, <1>5 DEF Forget, e
      <3> QED
        BY <3>1, <3>2, <3>3
    <2>2. CASE AppliedAs(e, out, reading, dirty, t)
      BY <1>1, <1>6, <2>2 DEF AppliedAs, IInv, f
    <2> QED
      BY <1>3, <2>1, <2>2
  <1>13. Forget(store', shared')
    BY <1>4, <1>5, <1>11, <1>12 DEF Forget
  <1>14. now' \in Times
    BY DEF IInv
  <1>15. IInv'
    BY <1>4, <1>9, <1>10, <1>11, <1>13, <1>14 DEF IInv
  <1>16. e.dirty /\ ~f.dirty => Reading(f) = Reading(e) \/ f.ts >= e.ts
    BY <1>3 DEF Unapplied, AppliedAs, f
  <1>17. StepOK
    <2> SUFFICES ASSUME NEW g \in DOMAIN store.entries
                 PROVE  /\ store.entries[g].dirty /\ ~store'.entries[g].dirty =>
                              /\ shared'[g] = Reading(store'.entries[g])
                              /\ \/ Reading(store'.entries[g]) = Reading(store.entries[g])
                                 \/ store'.entries[g].ts >= store.entries[g].ts
                        /\ KeepsTypeOf(store.entries[g], store'.entries[g])
      BY DEF StepOK
    <2>1. g \in DOMAIN s.entries /\ store.entries[g] = s.entries[g]
      BY DEF Extends
    <2>2. CASE g = h
      BY <1>3, <1>4, <1>12, <1>16, <2>1, <2>2 DEF e
    <2>3. CASE g # h
      <3>1. store'.entries[g] = store.entries[g]
        BY <1>4, <2>1, <2>3
      <3> QED
        BY <3>1 DEF KeepsTypeOf
    <2> QED
      BY <2>2, <2>3
  <1> QED
    BY <1>15, <1>17

\* Any pass over the table that leaves what the entries read, their paths and
\* their types alone, and stays inside m_ids, preserves the invariant.
GoodPass(es) ==
    /\ es \in [1..Len(store.entries) -> EntryType]
    /\ \A h \in DOMAIN store.entries :
          LET e == store.entries[h]
          IN  /\ EntryLifecycle(es[h])
              /\ es[h].path = e.path
              /\ es[h].value = e.value
              /\ Reading(es[h]) = Reading(e)
              /\ ~es[h].dirty => shared'[h] = Reading(e)
              /\ es[h].id # NoId => store'.ids[es[h].id] # 0
    /\ store' = [store EXCEPT !.entries = es, !.ids = store'.ids]
    /\ IdIndex(store') /\ store'.ids \in [Ids -> 0..Capacity]
    /\ now' = now /\ view' = view
    /\ shared' \in [Handles -> Visible]
    /\ \A h \in Handles \ DOMAIN store.entries : shared'[h] = shared[h]

\* A pass of the table that changes no reading preserves the invariant.
LEMMA PassStep ==
    ASSUME IInv, NEW es, GoodPass(es)
    PROVE  IInv' /\ StepOK
  <1> USE DEF GoodPass
  <1>1. /\ StoreInv(store) /\ Len(store.entries) \in Nat
        /\ DOMAIN store.entries = 1..Len(store.entries)
        /\ Len(store.entries) <= Capacity
        /\ store.paths \in [Paths -> 0..Capacity]
        /\ store = [entries |-> store.entries, paths |-> store.paths, ids |-> store.ids]
    BY StoreFacts DEF IInv
  <1>2. store' = [entries |-> es, paths |-> store.paths, ids |-> store'.ids]
    BY <1>1
  <1>3. es \in Seq(EntryType) /\ Len(es) = Len(store.entries) /\ DOMAIN es = DOMAIN store.entries
    BY <1>1
  <1>4. store'.entries = es /\ store'.paths = store.paths
    BY <1>2
  <1>5. StoreTypeOK(store')
    <2>1. store' \in StoreType
      BY <1>1, <1>2, <1>3 DEF StoreType
    <2> QED
      BY <1>1, <1>3, <1>4, <2>1 DEF StoreTypeOK
  <1>6. Lifecycle(store')
    BY <1>3, <1>4 DEF Lifecycle
  <1>7. PathIndex(store')
    <2>1. PathIndex(store)
      BY <1>1 DEF StoreInv
    <2> QED
      BY <2>1, <1>3, <1>4 DEF PathIndex
  <1>8. StoreInv(store')
    BY <1>5, <1>6, <1>7 DEF StoreInv
  <1>9. Agree(store', view')
    BY <1>3, <1>4 DEF IInv, Agree
  <1>10. Forget(store', shared')
    BY <1>3, <1>4 DEF IInv, Forget
  <1>11. IInv'
    BY <1>8, <1>9, <1>10 DEF IInv
  <1>12. StepOK
    <2> SUFFICES ASSUME NEW g \in DOMAIN store.entries
                 PROVE  /\ store.entries[g].dirty /\ ~store'.entries[g].dirty =>
                              /\ shared'[g] = Reading(store'.entries[g])
                              /\ Reading(store'.entries[g]) = Reading(store.entries[g])
                        /\ KeepsTypeOf(store.entries[g], store'.entries[g])
      BY DEF StepOK
    <2>1. store'.entries[g].value = store.entries[g].value
      BY <1>4
    <2>2. KeepsTypeOf(store.entries[g], store'.entries[g])
      BY <2>1 DEF KeepsTypeOf
    <2> QED
      BY <1>4, <2>2
  <1> QED
    BY <1>11, <1>12

\* get_or_create adds at most a ghost, and returns a handle of the table.
LEMMA GetOrCreateExtends ==
    ASSUME IInv, NEW p \in Paths, HasRoomFor(store, p)
    PROVE  LET u == GetOrCreate(store, p)
           IN  Extends(u) /\ u.paths[p] \in DOMAIN u.entries /\ u.ids = store.ids
  <1> DEFINE u == GetOrCreate(store, p)
  <1>1. /\ StoreInv(u)
        /\ u.paths[p] \in DOMAIN u.entries
        /\ u.ids = store.ids
        /\ DOMAIN store.entries \subseteq DOMAIN u.entries
        /\ \A h \in DOMAIN store.entries : u.entries[h] = store.entries[h]
        /\ \A h \in DOMAIN u.entries \ DOMAIN store.entries : u.entries[h] = Ghost(p)
    BY GetOrCreateOK DEF IInv
  <1>2. Ghost(p).path = p
    BY DEF Ghost
  <1> QED
    BY <1>1, <1>2 DEF Extends

\* A storage that was not touched.
LEMMA ExtendsItself ==
    ASSUME IInv
    PROVE  Extends(store)
  BY DEF IInv, Extends

\* A storage that only gained ghosts or ids.
LEMMA ExtendStep ==
    ASSUME IInv, NEW s, Extends(s), store' = s, UNCHANGED <<now, view, shared>>
    PROVE  IInv' /\ StepOK
  <1>1. Agree(store', view') /\ Forget(store', shared')
    BY ExtendsOK
  <1>2. IInv'
    BY <1>1 DEF IInv, Extends
  <1>3. StepOK
    BY DEF StepOK, Extends, KeepsTypeOf
  <1> QED
    BY <1>2, <1>3

-----------------------------------------------------------------------------
(* One lemma per action.                                                    *)

\* The entry a method finds, after the table may have grown.
LEMMA InvEntry ==
    ASSUME IInv, NEW s, Extends(s), NEW h \in DOMAIN s.entries
    PROVE  /\ s.entries[h] \in EntryType
           /\ EntryLifecycle(s.entries[h])
           /\ s.entries[h].id \in AnyId
           /\ s.entries[h].id # NoId => s.ids[s.entries[h].id] # 0
           /\ h \in Handles
  <1>1. s.entries[h] \in EntryType /\ EntryLifecycle(s.entries[h]) /\ h \in Handles
    BY StoreFacts DEF Extends
  <1>2. s.entries[h].id # NoId => s.ids[s.entries[h].id] # 0
    BY DEF Extends, StoreInv, IdIndex
  <1> QED
    BY <1>1, <1>2 DEF EntryType, AnyId

\* A call of the public interface (or an id assignment): nothing is known to
\* the network that was not before.
LEMMA LocalCallStep ==
    ASSUME IInv, NEW s, Extends(s), NEW h \in DOMAIN s.entries,
           NEW out, NEW reading \in Visible,
           GoodCall(s.entries[h], out, reading, TRUE, 0),
           out.entry.id # NoId => s.ids[out.entry.id] # 0,
           Take(Result(s, h, out)), now' = now, shared' = shared
    PROVE  IInv' /\ StepOK
  <1>1. /\ TRUE \in BOOLEAN /\ 0 \in Int
        /\ ~TRUE => 0 # 0
        /\ shared' = IF ~TRUE /\ Applied(Result(s, h, out))
                     THEN [shared EXCEPT ![h] = reading] ELSE shared
    OBVIOUS
  <1> QED
    BY <1>1, CallStep, ZenonT(30)

\* A call without events leaves a listener where it was.
LEMMA ReplayNothing == \A v : Replay(v, <<>>) = v
  <1>1. Len(<<>>) = 0
    OBVIOUS
  <1> QED
    BY <1>1 DEF Replay

\* A timestamp from the network is never the zero that means "no stamp".
LEMMA TimeFacts ==
    ASSUME IInv
    PROVE  now \in Int /\ \A t \in Times : t \in Int /\ t # 0
  BY MaxTimeAssumption DEF IInv, Times

\* Every value of an entry is visible, and so is the absence of one.
LEMMA ValueFacts == AnyValue \subseteq Visible /\ Absent \in Visible /\ Empty \in AnyValue
  BY DEF AnyValue, Visible

\* set_value and clear of a program preserve the invariant.
LEMMA LocalSetStep ==
    ASSUME IInv, NEW h \in Handles, NEW v \in AnyValue, NEW clear \in BOOLEAN,
           clear => v = Empty, Known(store, h),
           TakeLocal(Result(store, h, SetEntry(store.entries[h], v, clear, NoId, TRUE, 0, now)))
    PROVE  IInv' /\ StepOK
  <1> DEFINE e == store.entries[h]
             out == SetEntry(e, v, clear, NoId, TRUE, 0, now)
  <1>1. h \in DOMAIN store.entries /\ Extends(store)
    BY ExtendsItself DEF Known
  <1>2. /\ e \in EntryType /\ EntryLifecycle(e)
        /\ e.id # NoId => store.ids[e.id] # 0
    BY <1>1, InvEntry
  <1>3. NoId \in AnyId /\ 0 \in Int /\ now \in Int /\ v \in Visible
    BY TimeFacts, ValueFacts DEF AnyId
  <1>4. GoodCall(e, out, v, TRUE, 0)
    BY <1>2, <1>3, SetEntryGood
  <1>5. out.entry.id \in {e.id, NoId}
    BY <1>2, <1>3, SetEntryOK
  <1>6. Take(Result(store, h, out)) /\ now' = now /\ shared' = shared
    BY DEF TakeLocal
  <1> HIDE DEF out
  <1>7. out.entry.id # NoId => store.ids[out.entry.id] # 0
    BY <1>2, <1>5
  <1> QED
    BY <1>1, <1>3, <1>4, <1>6, <1>7, LocalCallStep

\* delete_entry of a program preserves it.
LEMMA LocalDeleteStep ==
    ASSUME IInv, NEW h \in Handles, Delete(h)
    PROVE  IInv' /\ StepOK
  <1> DEFINE e == store.entries[h]
             out == DeleteEntry(e, TRUE, 0, now)
  <1>1. h \in DOMAIN store.entries /\ Extends(store)
    BY ExtendsItself DEF Known, Delete
  <1>2. /\ e \in EntryType /\ EntryLifecycle(e)
        /\ e.id # NoId => store.ids[e.id] # 0
    BY <1>1, InvEntry
  <1>3. 0 \in Int /\ now \in Int /\ Absent \in Visible
    BY TimeFacts, ValueFacts
  <1>4. GoodCall(e, out, Absent, TRUE, 0)
    BY <1>2, <1>3, DeleteEntryGood
  <1>5. out.entry.id = e.id
    BY <1>2, <1>3, DeleteEntryOK
  <1>6. Take(Result(store, h, out)) /\ now' = now /\ shared' = shared
    BY DEF TakeLocal, Delete, DeleteOne
  <1> HIDE DEF out
  <1> QED
    BY <1>1, <1>2, <1>3, <1>4, <1>5, <1>6, CallStep

\* A value from the network, for an entry already found or created.
LEMMA RemoteSetStep ==
    ASSUME IInv, NEW s, Extends(s), NEW h \in DOMAIN s.entries,
           NEW id \in Ids, s.ids[id] # 0, NEW v \in AnyValue, NEW t \in Times,
           TakeRemote(Result(s, h, SetEntry(s.entries[h], v, FALSE, id, FALSE, t, now)), v)
    PROVE  IInv' /\ StepOK
  <1> DEFINE e == s.entries[h]
             out == SetEntry(e, v, FALSE, id, FALSE, t, now)
  <1>2. /\ e \in EntryType /\ EntryLifecycle(e)
        /\ e.id # NoId => s.ids[e.id] # 0
    BY InvEntry
  <1>3. id \in AnyId /\ t \in Int /\ t # 0 /\ now \in Int /\ v \in Visible
    BY TimeFacts, ValueFacts DEF AnyId
  <1>4. GoodCall(e, out, v, FALSE, t)
    BY <1>2, <1>3, SetEntryGood
  <1>5. out.entry.id \in {e.id, id}
    BY <1>2, <1>3, SetEntryOK
  <1>6. /\ Take(Result(s, h, out)) /\ now' = now
        /\ shared' = IF Applied(Result(s, h, out)) THEN [shared EXCEPT ![h] = v] ELSE shared
    BY DEF TakeRemote, Result
  <1> HIDE DEF out
  <1> QED
    BY <1>2, <1>3, <1>4, <1>5, <1>6, CallStep

\* A call of the network that finds nothing changes nothing.
LEMMA NothingStep ==
    ASSUME IInv, NEW reading, TakeRemote(NoResult(store), reading)
    PROVE  IInv' /\ StepOK
  <1>1. store' = store /\ UNCHANGED <<now, view, shared>>
    BY DEF TakeRemote, Take, NoResult, Applied
  <1> QED
    BY <1>1, ExtendsItself, ExtendStep

\* on_entry_created preserves the invariant.
LEMMA RemoteCreateStep ==
    ASSUME IInv, NEW id \in Ids, NEW p \in Paths, NEW v \in AnyValue, NEW t \in Times,
           RemoteCreate(id, p, v, t)
    PROVE  IInv' /\ StepOK
  <1> DEFINE u == GetOrCreate(store, p)
             h == u.paths[p]
             s == [u EXCEPT !.ids = Emplace(@, id, h)]
  <1>1. Extends(u) /\ h \in DOMAIN u.entries
    BY GetOrCreateExtends DEF RemoteCreate
  <1>2. StoreInv(s) /\ s.entries = u.entries /\ s.ids[id] # 0
    BY <1>1, EmplaceOK DEF Extends
  <1>3. Extends(s) /\ h \in DOMAIN s.entries
    BY <1>1, <1>2 DEF Extends
  <1>4. TakeRemote(Result(s, h, SetEntry(s.entries[h], v, FALSE, id, FALSE, t, now)), v)
    BY <1>2 DEF RemoteCreate, OnEntryCreated
  <1> HIDE DEF s, h
  <1> QED
    BY <1>2, <1>3, <1>4, RemoteSetStep

\* An id of m_ids names an entry of the table.
LEMMA KnownId ==
    ASSUME IInv, NEW id \in Ids, store.ids[id] # 0
    PROVE  store.ids[id] \in DOMAIN store.entries
  BY DEF IInv, StoreInv, IdIndex

\* on_entry_updated preserves the invariant, also for an unknown id.
LEMMA RemoteUpdateStep ==
    ASSUME IInv, NEW id \in Ids, NEW v \in AnyValue, NEW t \in Times,
           RemoteUpdate(id, v, t)
    PROVE  IInv' /\ StepOK
  <1>1. CASE store.ids[id] = 0
    BY <1>1, NothingStep DEF RemoteUpdate, OnEntryUpdated
  <1>2. CASE store.ids[id] # 0
    BY <1>2, KnownId, ExtendsItself, RemoteSetStep DEF RemoteUpdate, OnEntryUpdated
  <1> QED
    BY <1>1, <1>2

\* on_entry_deleted, likewise.
LEMMA RemoteDeleteStep ==
    ASSUME IInv, NEW id \in Ids, NEW t \in Times, RemoteDelete(id, t)
    PROVE  IInv' /\ StepOK
  <1>1. CASE store.ids[id] = 0
    BY <1>1, NothingStep DEF RemoteDelete, OnEntryDeleted
  <1>2. CASE store.ids[id] # 0
    <2> DEFINE h == store.ids[id]
               e == store.entries[h]
               out == DeleteEntry(e, FALSE, t, now)
    <2>1. h \in DOMAIN store.entries /\ Extends(store)
      BY <1>2, KnownId, ExtendsItself
    <2>2. /\ e \in EntryType /\ EntryLifecycle(e)
          /\ e.id # NoId => store.ids[e.id] # 0
      BY <2>1, InvEntry
    <2>3. t \in Int /\ t # 0 /\ now \in Int /\ Absent \in Visible
      BY TimeFacts, ValueFacts
    <2>4. GoodCall(e, out, Absent, FALSE, t)
      BY <2>2, <2>3, DeleteEntryGood
    <2>5. out.entry.id = e.id
      BY <2>2, <2>3, DeleteEntryOK
    <2>6. /\ Take(Result(store, h, out)) /\ now' = now
          /\ shared' = IF Applied(Result(store, h, out))
                       THEN [shared EXCEPT ![h] = Absent] ELSE shared
      BY <1>2 DEF RemoteDelete, OnEntryDeleted, TakeRemote, Result
    <2> HIDE DEF out, h
    <2> QED
      BY <2>1, <2>2, <2>3, <2>4, <2>5, <2>6, CallStep
  <1> QED
    BY <1>1, <1>2

\* on_entry_id_assigned preserves the invariant.
LEMMA AssignIdStep ==
    ASSUME IInv, NEW id \in Ids, NEW p \in Paths, AssignId(id, p)
    PROVE  IInv' /\ StepOK
  <1> DEFINE u == GetOrCreate(store, p)
             h == u.paths[p]
             s == [u EXCEPT !.ids = Emplace(@, id, h)]
             e == s.entries[h]
             f == [e EXCEPT !.id = id]
             out == Outcome(f, <<>>, FALSE)
  <1>1. Extends(u) /\ h \in DOMAIN u.entries
    BY GetOrCreateExtends DEF AssignId
  <1>2. StoreInv(s) /\ s.entries = u.entries /\ s.ids[id] # 0
    BY <1>1, EmplaceOK DEF Extends
  <1>3. Extends(s) /\ h \in DOMAIN s.entries
    BY <1>1, <1>2 DEF Extends
  <1>4. e \in EntryType /\ EntryLifecycle(e) /\ h \in Handles
    BY <1>3, InvEntry
  <1>5. /\ f \in EntryType /\ EntryLifecycle(f) /\ f.path = e.path /\ f.id = id
        /\ f.value = e.value /\ f.dirty = e.dirty /\ f.ts = e.ts
        /\ Reading(f) = Reading(e)
    BY <1>4 DEF EntryType, EntryLifecycle, HasValue, Reading
  <1>6. out.entry = f /\ out.notes = <<>>
    BY DEF Outcome
  <1>7. Reading(e) \in Visible
    BY <1>4, ReadingType
  <1>8. Replay(Reading(e), out.notes) = Reading(f)
    BY <1>5, <1>6, ReplayNothing
  <1>9. GoodCall(e, out, Reading(e), TRUE, 0)
    BY <1>5, <1>6, <1>8 DEF GoodCall, Unapplied, KeepsTypeOf
  <1>10. store' = PutEntry(s, h, f) /\ UNCHANGED <<now, view, shared>>
    <2>1. /\ u = [entries |-> u.entries, paths |-> u.paths, ids |-> u.ids]
          /\ h \in DOMAIN u.entries
      BY <1>1, StoreFacts DEF Extends
    <2> QED
      BY <2>1 DEF AssignId, OnEntryIdAssigned, PutEntry
  <1>11. h # 0 /\ view \in [Handles -> Visible] /\ Replay(view[h], <<>>) = view[h]
    BY <1>4, ReplayNothing DEF IInv, Handles
  <1>12. Take(Result(s, h, out))
    <2> HIDE DEF s, h, f, out
    <2>1. view' = [view EXCEPT ![h] = Replay(@, out.notes)]
      BY <1>6, <1>10, <1>11
    <2> QED
      BY <1>6, <1>10, <1>11, <2>1 DEF Take, Result
  <1> HIDE DEF out, e, f, s, h, u
  <1>13. out.entry.id # NoId => s.ids[out.entry.id] # 0
    BY <1>2, <1>5, <1>6
  <1>14. GoodCall(s.entries[h], out, Reading(e), TRUE, 0)
    BY <1>9 DEF e
  <1> QED
    BY <1>3, <1>7, <1>10, <1>12, <1>13, <1>14, LocalCallStep

\* What one pass of delete_entries does to an entry.
LEMMA DeleteEntriesStep ==
    ASSUME IInv, NEW prefix \in Prefixes, DeleteEntries(prefix)
    PROVE  IInv' /\ StepOK
  <1> DEFINE Out(h) == IF store.entries[h].path \in Matching[prefix]
                       THEN DeleteEntry(store.entries[h], TRUE, 0, now)
                       ELSE Outcome(store.entries[h], <<>>, FALSE)
             es == [h \in DOMAIN store.entries |-> Out(h).entry]
  <1>1. /\ StoreInv(store)
        /\ DOMAIN store.entries = 1..Len(store.entries)
        /\ DOMAIN store.entries \subseteq Handles
        /\ store = [entries |-> store.entries, paths |-> store.paths, ids |-> store.ids]
    BY StoreFacts DEF IInv
  <1>2. /\ store' = [store EXCEPT !.entries = es]
        /\ view' = [h \in Handles |-> IF h \in DOMAIN store.entries
                                      THEN Replay(view[h], Out(h).notes) ELSE view[h]]
        /\ UNCHANGED <<shared, now>>
    BY <1>1 DEF DeleteEntries, DeleteMatching, Known
  <1>3. \A h \in DOMAIN store.entries :
           /\ GoodCall(store.entries[h], Out(h), Absent, TRUE, 0)
           /\ Out(h).entry.id = store.entries[h].id
    <2> SUFFICES ASSUME NEW h \in DOMAIN store.entries
                 PROVE  /\ GoodCall(store.entries[h], Out(h), Absent, TRUE, 0)
                        /\ Out(h).entry.id = store.entries[h].id
      OBVIOUS
    <2>1. store.entries[h] \in EntryType /\ EntryLifecycle(store.entries[h])
      BY ExtendsItself, InvEntry
    <2>2. CASE store.entries[h].path \in Matching[prefix]
      <3>1. now \in Int /\ 0 \in Int
        BY TimeFacts
      <3>2. Out(h) = DeleteEntry(store.entries[h], TRUE, 0, now)
        BY <2>2
      <3>3. GoodCall(store.entries[h], DeleteEntry(store.entries[h], TRUE, 0, now),
                     Absent, TRUE, 0)
        BY <2>1, <3>1, DeleteEntryGood
      <3>4. DeleteEntry(store.entries[h], TRUE, 0, now).entry.id = store.entries[h].id
        BY <2>1, <3>1, DeleteEntryOK
      <3> HIDE DEF Out
      <3> QED
        BY <3>2, <3>3, <3>4
    <2>3. CASE store.entries[h].path \notin Matching[prefix]
      <3>1. Out(h).entry = store.entries[h] /\ Out(h).notes = <<>>
        BY <2>3 DEF Outcome
      <3> HIDE DEF Out
      <3> QED
        BY <2>1, <3>1, ReplayNothing DEF GoodCall, Unapplied, KeepsTypeOf
    <2> QED
      BY <2>2, <2>3
  <1> HIDE DEF Out
  <1>4. \A h \in DOMAIN store.entries :
           es[h] = Out(h).entry /\ es[h] \in EntryType /\ EntryLifecycle(es[h])
           /\ es[h].path = store.entries[h].path /\ es[h].id = store.entries[h].id
    BY <1>3 DEF GoodCall
  <1>5. es \in [1..Len(store.entries) -> EntryType] /\ DOMAIN es = DOMAIN store.entries
    BY <1>1, <1>4
  <1>6. \A h \in DOMAIN store.entries : es[h].id # NoId => store.ids[es[h].id] # 0
    BY <1>1, <1>4 DEF StoreInv, IdIndex
  <1> HIDE DEF es
  <1>7. StoreInv([store EXCEPT !.entries = es])
    BY <1>1, <1>4, <1>5, <1>6, NewEntriesOK
  <1>8. StoreInv(store') /\ store'.entries = es
    BY <1>1, <1>2, <1>7
  <1>9. \A h \in DOMAIN store.entries :
           /\ view[h] = Reading(store.entries[h])
           /\ view'[h] = Reading(es[h])
    BY <1>1, <1>2, <1>3, <1>4 DEF IInv, Agree, GoodCall
  <1>10. Agree(store', view') /\ view' \in [Handles -> Visible]
    <2>1. \A h \in DOMAIN store.entries : Reading(es[h]) \in Visible
      BY <1>4, ReadingType
    <2>2. \A h \in Handles \ DOMAIN store.entries : view'[h] = view[h]
      BY <1>2
    <2>3. view' = [h \in Handles |-> view'[h]]
      BY <1>2
    <2> QED
      BY <1>5, <1>8, <1>9, <2>1, <2>2, <2>3 DEF IInv, Agree
  <1>11. \A h \in DOMAIN store.entries :
            \/ es[h].dirty = TRUE
            \/ es[h].dirty = store.entries[h].dirty /\ Reading(es[h]) = Reading(store.entries[h])
    BY <1>3, <1>4 DEF GoodCall, Unapplied, AppliedAs
  <1>12. Forget(store', shared')
    BY <1>2, <1>5, <1>8, <1>11 DEF IInv, Forget
  <1>13. IInv'
    BY <1>2, <1>8, <1>10, <1>12 DEF IInv
  <1>14. StepOK
    <2>1. \A h \in DOMAIN store.entries : KeepsTypeOf(store.entries[h], es[h])
      BY <1>3, <1>4 DEF GoodCall
    <2> QED
      BY <1>8, <1>11, <2>1 DEF StepOK
  <1> QED
    BY <1>13, <1>14

\* What the invariant says of every entry, for the passes over the table.
LEMMA InvEntries ==
    ASSUME IInv
    PROVE  /\ DOMAIN store.entries = 1..Len(store.entries)
           /\ store = [entries |-> store.entries, paths |-> store.paths, ids |-> store.ids]
           /\ store.ids \in [Ids -> 0..Capacity]
           /\ IdIndex(store)
           /\ \A h \in DOMAIN store.entries :
                 /\ store.entries[h] \in EntryType
                 /\ EntryLifecycle(store.entries[h])
                 /\ store.entries[h].id # NoId => store.ids[store.entries[h].id] # 0
                 /\ h \in Handles
                 /\ ~store.entries[h].dirty => shared[h] = Reading(store.entries[h])
  BY StoreFacts DEF IInv, StoreInv, IdIndex, Forget

\* act_on_dirty_entries preserves the invariant.
LEMMA PublishStep ==
    ASSUME IInv, Publish
    PROVE  IInv' /\ StepOK
  <1> DEFINE es == [h \in DOMAIN store.entries |-> [store.entries[h] EXCEPT !.dirty = FALSE]]
  <1>1. store' = [store EXCEPT !.entries = es] /\ UNCHANGED <<now, view>>
    BY InvEntries DEF Publish, DirtyCleared
  <1>2. \A h \in DOMAIN store.entries :
           LET e == store.entries[h]
           IN  /\ es[h] \in EntryType /\ EntryLifecycle(es[h])
               /\ es[h].path = e.path /\ es[h].value = e.value
               /\ Reading(es[h]) = Reading(e) /\ es[h].id = e.id
    BY InvEntries DEF EntryType, EntryLifecycle, HasValue, Reading
  <1>3. es \in [1..Len(store.entries) -> EntryType]
    BY <1>2, InvEntries
  <1> HIDE DEF es
  <1>4. store'.ids = store.ids /\ store' = [store EXCEPT !.entries = es, !.ids = store'.ids]
    BY <1>1, InvEntries
  <1>5. \A h \in DOMAIN store.entries : shared'[h] = Reading(store.entries[h])
    BY InvEntries DEF Publish, DirtyHandles
  <1>6. /\ shared' \in [Handles -> Visible]
        /\ \A h \in Handles \ DOMAIN store.entries : shared'[h] = shared[h]
    <2>1. \A h \in DOMAIN store.entries : Reading(store.entries[h]) \in Visible
      BY InvEntries, ReadingType
    <2> QED
      BY <2>1 DEF Publish, DirtyHandles, IInv
  <1>7. IdIndex(store')
    <2>1. store'.entries = es /\ DOMAIN es = DOMAIN store.entries
      BY <1>1, <1>3, InvEntries
    <2> QED
      BY <1>2, <1>4, <2>1, InvEntries DEF IdIndex
  <1>8. \A h \in DOMAIN store.entries : es[h].id # NoId => store'.ids[es[h].id] # 0
    BY <1>2, <1>4, InvEntries
  <1>9. store'.ids \in [Ids -> 0..Capacity]
    BY <1>4, InvEntries
  <1>10. GoodPass(es)
    BY <1>1, <1>2, <1>3, <1>4, <1>5, <1>6, <1>7, <1>8, <1>9, InvEntries DEF GoodPass
  <1> QED
    BY <1>10, PassStep

\* clear_net_ids preserves the invariant.
LEMMA ClearNetIdsStep ==
    ASSUME IInv, ClearNetIds
    PROVE  IInv' /\ StepOK
  <1> DEFINE es == [h \in DOMAIN store.entries |-> [store.entries[h] EXCEPT !.id = NoId]]
             none == [i \in Ids |-> 0]
  <1>1. /\ store' = [store EXCEPT !.entries = es, !.ids = none]
        /\ UNCHANGED <<now, view, shared>>
    BY InvEntries DEF ClearNetIds, NetIdsCleared
  <1>2. \A h \in DOMAIN store.entries :
           LET e == store.entries[h]
           IN  /\ es[h] \in EntryType /\ EntryLifecycle(es[h])
               /\ es[h].path = e.path /\ es[h].value = e.value
               /\ es[h].dirty = e.dirty
               /\ Reading(es[h]) = Reading(e) /\ es[h].id = NoId
    BY InvEntries DEF EntryType, EntryLifecycle, HasValue, Reading
  <1>3. es \in [1..Len(store.entries) -> EntryType] /\ DOMAIN es = DOMAIN store.entries
    BY <1>2, InvEntries
  <1>4. none \in [Ids -> 0..Capacity] /\ \A i \in Ids : none[i] = 0
    BY CapacityAssumption
  <1> HIDE DEF es, none
  <1>5. /\ store'.ids = none /\ store'.entries = es
        /\ store' = [store EXCEPT !.entries = es, !.ids = store'.ids]
    BY <1>1, InvEntries
  <1>6. IdIndex(store')
    BY <1>2, <1>3, <1>4, <1>5 DEF IdIndex
  <1>7. /\ shared' \in [Handles -> Visible]
        /\ \A h \in DOMAIN store.entries :
              ~es[h].dirty => shared'[h] = Reading(store.entries[h])
    BY <1>1, <1>2, InvEntries DEF IInv
  <1>8. GoodPass(es)
    BY <1>1, <1>2, <1>3, <1>4, <1>5, <1>6, <1>7, InvEntries DEF GoodPass
  <1> QED
    BY <1>8, PassStep

\* on_clock_resync preserves the invariant.
LEMMA ClockResyncStep ==
    ASSUME IInv, NEW offset \in Offsets, ClockResync(offset)
    PROVE  IInv' /\ StepOK
  <1> DEFINE es == [h \in DOMAIN store.entries |-> ResyncedEntry(store.entries[h], offset)]
  <1>1. store' = [store EXCEPT !.entries = es] /\ UNCHANGED <<now, view, shared>>
    BY InvEntries DEF ClockResync, Resynced
  <1>2. \A h \in DOMAIN store.entries :
           LET e == store.entries[h]
           IN  /\ es[h] \in EntryType /\ EntryLifecycle(es[h])
               /\ es[h].path = e.path /\ es[h].value = e.value
               /\ es[h].dirty = e.dirty
               /\ Reading(es[h]) = Reading(e) /\ es[h].id = e.id
    <2> SUFFICES ASSUME NEW h \in DOMAIN store.entries
                 PROVE  LET e == store.entries[h]
                            f == ResyncedEntry(e, offset)
                        IN  /\ f \in EntryType /\ EntryLifecycle(f)
                            /\ f.path = e.path /\ f.value = e.value
                            /\ f.dirty = e.dirty
                            /\ Reading(f) = Reading(e) /\ f.id = e.id
      OBVIOUS
    <2>1. store.entries[h] \in EntryType /\ EntryLifecycle(store.entries[h])
      BY InvEntries
    <2>2. offset \in Int
      BY OffsetsAssumption
    <2> QED
      BY <2>1, <2>2 DEF ResyncedEntry, EntryType, EntryLifecycle, HasValue, Reading
  <1>3. es \in [1..Len(store.entries) -> EntryType] /\ DOMAIN es = DOMAIN store.entries
    BY <1>2, InvEntries
  <1> HIDE DEF es
  <1>4. /\ store'.ids = store.ids /\ store'.entries = es
        /\ store' = [store EXCEPT !.entries = es, !.ids = store'.ids]
    BY <1>1, InvEntries
  <1>5. IdIndex(store')
    BY <1>2, <1>3, <1>4, InvEntries DEF IdIndex
  <1>6. /\ shared' \in [Handles -> Visible]
        /\ \A h \in DOMAIN store.entries :
              ~es[h].dirty => shared'[h] = Reading(store.entries[h])
    BY <1>1, <1>2, InvEntries DEF IInv
  <1>7. \A h \in DOMAIN store.entries : es[h].id # NoId => store'.ids[es[h].id] # 0
    BY <1>2, <1>4, InvEntries
  <1>8. store'.ids \in [Ids -> 0..Capacity]
    BY <1>4, InvEntries
  <1>9. GoodPass(es)
    BY <1>1, <1>2, <1>3, <1>4, <1>5, <1>6, <1>7, <1>8, InvEntries DEF GoodPass
  <1> QED
    BY <1>9, PassStep

-----------------------------------------------------------------------------
(* The theorems.                                                            *)

\* The empty storage satisfies the invariant.
LEMMA InitInv == Init => IInv
  <1> SUFFICES ASSUME Init PROVE IInv
    OBVIOUS
  <1>1. StoreInv(store)
    BY EmptyStoreOK DEF Init
  <1>2. store.entries = <<>> /\ DOMAIN store.entries = {}
    BY DEF Init, EmptyStore
  <1>3. Agree(store, view) /\ Forget(store, shared)
    BY <1>2 DEF Init, Agree, Forget
  <1> QED
    BY <1>1, <1>3, ValueFacts DEF Init, IInv

\* Every step preserves the invariant and is one of the steps StepOK allows.
LEMMA StepInv == IInv /\ [Next]_vars => IInv' /\ (StepOK \/ UNCHANGED vars)
  <1> SUFFICES ASSUME IInv, [Next]_vars
               PROVE  IInv' /\ (StepOK \/ UNCHANGED vars)
    OBVIOUS
  <1>1. ASSUME NEW p \in Paths, GetEntry(p) PROVE IInv' /\ StepOK
    BY <1>1, GetOrCreateExtends, ExtendStep DEF GetEntry
  <1>2. ASSUME NEW h \in Handles, NEW v \in AnyValue, SetValue(h, v) PROVE IInv' /\ StepOK
    BY <1>2, LocalSetStep DEF SetValue, SetEntryValue
  <1>3. ASSUME NEW h \in Handles, ClearValue(h) PROVE IInv' /\ StepOK
    BY <1>3, LocalSetStep, ValueFacts DEF ClearValue, ClearEntry
  <1>4. ASSUME NEW h \in Handles, Delete(h) PROVE IInv' /\ StepOK
    BY <1>4, LocalDeleteStep
  <1>5. ASSUME NEW prefix \in Prefixes, DeleteEntries(prefix) PROVE IInv' /\ StepOK
    BY <1>5, DeleteEntriesStep
  <1>6. ASSUME NEW id \in Ids, NEW p \in Paths, NEW v \in AnyValue, NEW t \in Times,
               RemoteCreate(id, p, v, t)
        PROVE  IInv' /\ StepOK
    BY <1>6, RemoteCreateStep
  <1>7. ASSUME NEW id \in Ids, NEW v \in AnyValue, NEW t \in Times, RemoteUpdate(id, v, t)
        PROVE  IInv' /\ StepOK
    BY <1>7, RemoteUpdateStep
  <1>8. ASSUME NEW id \in Ids, NEW t \in Times, RemoteDelete(id, t) PROVE IInv' /\ StepOK
    BY <1>8, RemoteDeleteStep
  <1>9. ASSUME NEW id \in Ids, NEW p \in Paths, AssignId(id, p) PROVE IInv' /\ StepOK
    BY <1>9, AssignIdStep
  <1>10. CASE Publish
    BY <1>10, PublishStep
  <1>11. CASE ClearNetIds
    BY <1>11, ClearNetIdsStep
  <1>12. CASE ClockMoves
    BY <1>12 DEF ClockMoves, IInv, StepOK, KeepsTypeOf, StoreInv, StoreTypeOK,
                 Lifecycle, PathIndex, IdIndex, Agree, Forget
  <1>13. ASSUME NEW offset \in Offsets, ClockResync(offset) PROVE IInv' /\ StepOK
    BY <1>13, ClockResyncStep
  <1>14. CASE UNCHANGED vars
    BY <1>14 DEF vars, IInv, StoreInv, StoreTypeOK, Lifecycle, PathIndex, IdIndex, Agree, Forget
  <1> QED
    BY <1>1, <1>2, <1>3, <1>4, <1>5, <1>6, <1>7, <1>8, <1>9, <1>10, <1>11, <1>12,
       <1>13, <1>14 DEF Next, LocalNext, NetworkNext, ClockNext

\* The inductive invariant holds of every storage, whatever is called and in
\* whatever order.
THEOREM Invariance == Spec => []IInv
  BY InitInv, StepInv, PTL DEF Spec

\* Every variable keeps its type: in particular no handle outside the table.
THEOREM TypeCorrect == Spec => []TypeOK
  <1>1. IInv => TypeOK
    BY DEF IInv, StoreInv, TypeOK
  <1> QED
    BY <1>1, Invariance, PTL

\* The flags, the value and the stamp of every entry fit together, however often
\* it is deleted, cleared, revived or renumbered.
THEOREM LifecycleKept == Spec => []LifecycleOK
  <1>1. IInv => LifecycleOK
    BY DEF IInv, StoreInv, LifecycleOK
  <1> QED
    BY <1>1, Invariance, PTL

\* m_paths names every entry under its own path and only entries there are,
\* also after a full handle table made get_or_create_entry throw.
THEOREM PathsAlwaysIndexed == Spec => []PathIndexOK
  <1>1. IInv => PathIndexOK
    BY DEF IInv, StoreInv, PathIndexOK
  <1> QED
    BY <1>1, Invariance, PTL

\* m_ids only leads to entries there are, so that on_entry_updated and
\* on_entry_deleted never follow an id to a missing one.
THEOREM IdsAlwaysIndexed == Spec => []IdIndexOK
  <1>1. IInv => IdIndexOK
    BY DEF IInv, StoreInv, IdIndexOK
  <1> QED
    BY <1>1, Invariance, PTL

\* A listener that replays the events of every call reads what a reader reads.
THEOREM ListenersAlwaysAgree == Spec => []ListenersAgree
  <1>1. IInv => ListenersAgree
    BY StoreFacts DEF IInv, Agree, ListenersAgree
  <1> QED
    BY <1>1, Invariance, PTL

\* No local change loses its dirty flag before the network has read it.
THEOREM NothingIsForgotten == Spec => []NothingForgotten
  <1>1. IInv => NothingForgotten
    BY StoreFacts DEF IInv, Forget, NothingForgotten
  <1> QED
    BY <1>1, Invariance, PTL

\* A pending local change only yields to publication or to newer messages.
THEOREM PendingYieldsOnlyToNewer == Spec => PendingOnlyYieldsToNewer
  <1>1. IInv /\ [Next]_vars =>
          [\A h \in DOMAIN store.entries :
              store.entries[h].dirty /\ ~store'.entries[h].dirty =>
                  /\ shared'[h] = Reading(store'.entries[h])
                  /\ \/ Reading(store'.entries[h]) = Reading(store.entries[h])
                     \/ store'.entries[h].ts >= store.entries[h].ts]_vars
    BY StepInv DEF StepOK
  <1> QED
    BY <1>1, Invariance, PTL DEF Spec, PendingOnlyYieldsToNewer

\* The type of a value changes only by way of the empty value or a deletion.
THEOREM TypesChangeThroughEmpty == Spec => TypeChangesThroughEmpty
  <1>1. IInv /\ [Next]_vars =>
          [\A h \in DOMAIN store.entries :
              LET old == store.entries[h].value
                  new == store'.entries[h].value
              IN  old \in Values /\ new \in Values => TypeOf[old] = TypeOf[new]]_vars
    BY StepInv DEF StepOK, KeepsTypeOf
  <1> QED
    BY <1>1, Invariance, PTL DEF Spec, TypeChangesThroughEmpty

-----------------------------------------------------------------------------
(* Convergence of updates: the reading after two messages is the one of the *)
(* newer message, or the old reading when that one is stale too.            *)

ReadingOf(m) == IF m.op = "set" THEN m.value ELSE Absent

\* The fields of an update from the network.
LEMMA UpdateFacts ==
    ASSUME NEW m \in Update
    PROVE  /\ m.op \in {"set", "delete"}
           /\ m.ts \in Int /\ m.ts # 0
           /\ m.op = "set" => m.value \in Values /\ m.value # Empty /\ m.value \in AnyValue
  BY MaxTimeAssumption, ValuesAssumption DEF Update, Times, AnyValue

\* An update older than the entry changes nothing.
LEMMA StaleUpdate ==
    ASSUME NEW e \in EntryType, NEW m \in Update, e.ts > m.ts
    PROVE  ApplyTo(e, m) = e
  BY UpdateFacts DEF ApplyTo, SetEntry, DeleteEntry, Outcome, Stale

\* An update no older than the entry takes effect, unless the types clash.
LEMMA FreshUpdate ==
    ASSUME NEW e \in EntryType, EntryLifecycle(e), NEW m \in Update, m.ts >= e.ts,
           e.value # Empty => KeepsType(e, m)
    PROVE  LET f == ApplyTo(e, m)
           IN  /\ f \in EntryType /\ EntryLifecycle(f)
               /\ Reading(f) = ReadingOf(m)
               /\ f.value = IF m.op = "set" THEN m.value ELSE Empty
               /\ HasValue(e) => f.ts = m.ts
  <1> DEFINE f == ApplyTo(e, m)
  <1>1. ~Stale(e.ts, m.ts) /\ Stamp(m.ts, now) = m.ts
    BY UpdateFacts DEF Stale, Stamp, EntryType
  <1>2. CASE m.op = "set"
    <2>1. ~Mismatch(e.value, m.value)
      BY <1>2, UpdateFacts DEF Mismatch, KeepsType
    <2>2. f = Written(e, m.value, e.id, FALSE, m.ts)
      BY <1>1, <1>2, <2>1 DEF ApplyTo, SetEntry, Outcome
    <2>3. m.value \in AnyValue /\ m.ts \in Int
      BY <1>2, UpdateFacts
    <2> QED
      BY <1>2, <2>2, <2>3
         DEF Written, Revived, EntryType, EntryLifecycle, Reading, ReadingOf, HasValue
  <1>3. CASE m.op = "delete"
    <2>1. f = IF HasValue(e) THEN Erased(e, FALSE, m.ts) ELSE e
      BY <1>1, <1>3 DEF ApplyTo, DeleteEntry, Outcome
    <2>2. m.ts \in Int /\ m.op # "set"
      BY <1>3, UpdateFacts
    <2>3. CASE HasValue(e)
      BY <2>1, <2>2, <2>3
         DEF Erased, EntryType, AnyValue, EntryLifecycle, Reading, ReadingOf, HasValue
    <2>4. CASE ~HasValue(e)
      BY <2>1, <2>2, <2>4 DEF EntryLifecycle, Reading, ReadingOf
    <2> QED
      BY <2>3, <2>4
  <1> QED
    BY <1>2, <1>3, UpdateFacts

\* Two updates with different times: the later one wins in either order.
LEMMA OlderThenNewer ==
    ASSUME NEW e \in EntryType, EntryLifecycle(e), HasValue(e), e.value # Empty,
           NEW m \in Update, NEW n \in Update, m.ts < n.ts,
           KeepsType(e, m), KeepsType(e, n)
    PROVE  Reading(ApplyTo(ApplyTo(e, m), n)) = Reading(ApplyTo(ApplyTo(e, n), m))
  <1>1. m.ts \in Int /\ n.ts \in Int /\ e.ts \in Int
    BY UpdateFacts DEF EntryType
  <1>2. CASE e.ts > n.ts
    <2>1. ApplyTo(e, n) = e /\ ApplyTo(e, m) = e
      BY <1>1, <1>2, StaleUpdate
    <2> QED
      BY <2>1
  <1>3. CASE n.ts >= e.ts
    <2> DEFINE f == ApplyTo(e, n)
               g == ApplyTo(e, m)
    <2>1. f \in EntryType /\ Reading(f) = ReadingOf(n) /\ f.ts = n.ts
      BY <1>3, FreshUpdate
    <2>2. ApplyTo(f, m) = f
      BY <1>1, <2>1, StaleUpdate
    <2>3. Reading(ApplyTo(g, n)) = ReadingOf(n)
      <3>1. CASE e.ts > m.ts
        BY <3>1, <2>1, StaleUpdate
      <3>2. CASE m.ts >= e.ts
        <4>1. /\ g \in EntryType /\ EntryLifecycle(g) /\ g.ts = m.ts
              /\ g.value = IF m.op = "set" THEN m.value ELSE Empty
          BY <3>2, FreshUpdate
        <4>2. g.value # Empty => KeepsType(g, n)
          BY <4>1 DEF KeepsType
        <4>3. n.ts >= g.ts
          BY <1>1, <4>1
        <4> HIDE DEF g
        <4> QED
          BY <4>1, <4>2, <4>3, FreshUpdate
      <3> QED
        BY <1>1, <3>1, <3>2
    <2> QED
      BY <2>1, <2>2, <2>3
  <1> QED
    BY <1>1, <1>2, <1>3

\* Two messages about an entry with a value leave it with the same reading in
\* either order, for every clock value and every pair of timestamps.
THEOREM UpdatesAlwaysConverge == Spec => []UpdatesConverge
  <1>1. IInv => UpdatesConverge
    <2> SUFFICES ASSUME IInv, NEW h \in DOMAIN store.entries,
                        HasValue(store.entries[h]), store.entries[h].value # Empty,
                        NEW m \in Update, NEW n \in Update, m.ts # n.ts,
                        KeepsType(store.entries[h], m), KeepsType(store.entries[h], n)
                 PROVE  Reading(ApplyTo(ApplyTo(store.entries[h], m), n))
                          = Reading(ApplyTo(ApplyTo(store.entries[h], n), m))
      BY DEF UpdatesConverge, Entries
    <2>1. store.entries[h] \in EntryType /\ EntryLifecycle(store.entries[h])
      BY InvEntries
    <2>2. m.ts < n.ts \/ n.ts < m.ts
      BY UpdateFacts
    <2> QED
      BY <2>1, <2>2, OlderThenNewer
  <1> QED
    BY <1>1, Invariance, PTL
=============================================================================
