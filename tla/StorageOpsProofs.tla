-------------------------- MODULE StorageOpsProofs --------------------------
(***************************************************************************)
(* What the methods of a storage (StorageOps) do to any storage: facts that *)
(* the theorems about one storage and about the network both rest on.       *)
(***************************************************************************)
EXTENDS StorageOps, SequenceTheorems, TLAPS

AnyId == Ids \cup {NoId}

-----------------------------------------------------------------------------
(* Single entries.                                                          *)

\* set_entry_internal maps entries to entries, never changes the path, keeps
\* the life cycle, and leaves the entry under an id it had or was given.
LEMMA SetEntryOK ==
    ASSUME NEW e \in EntryType, EntryLifecycle(e),
           NEW v \in AnyValue, NEW clear \in BOOLEAN, NEW id \in AnyId,
           NEW dirty \in BOOLEAN, NEW t \in Int, NEW n \in Int
    PROVE  LET f == SetEntry(e, v, clear, id, dirty, t, n).entry
           IN  /\ f \in EntryType
               /\ EntryLifecycle(f)
               /\ f.path = e.path
               /\ f.id \in {e.id, id} /\ (id = NoId => f.id = e.id)
  <1> DEFINE r == Revived(e, id)
             w == Written(e, v, id, dirty, Stamp(t, n))
  <1>1. /\ r \in EntryType /\ r.path = e.path
        /\ r.id \in {e.id, id} /\ (id = NoId => r.id = e.id)
        /\ r.value = e.value /\ r.dirty = e.dirty /\ ~r.created /\ ~r.deleted
    BY DEF Revived, EntryType, AnyId
  <1>2. Stamp(t, n) \in Int
    BY DEF Stamp
  <1>3. /\ w \in EntryType /\ w.path = e.path
        /\ w.id \in {e.id, id} /\ (id = NoId => w.id = e.id)
        /\ w.value = v /\ w.dirty = dirty /\ ~w.created /\ ~w.deleted
    BY <1>1, <1>2 DEF Written, EntryType
  <1>4. EntryLifecycle(r) /\ EntryLifecycle(w)
    BY <1>1, <1>3 DEF EntryLifecycle, HasValue
  <1> HIDE DEF r, w
  <1>5. SetEntry(e, v, clear, id, dirty, t, n).entry \in {e, r, w}
    BY DEF SetEntry, Outcome, r, w
  <1> QED
    BY <1>1, <1>3, <1>4, <1>5

\* delete_entry_internal changes neither the path nor the id.
LEMMA DeleteEntryOK ==
    ASSUME NEW e \in EntryType, EntryLifecycle(e),
           NEW dirty \in BOOLEAN, NEW t \in Int, NEW n \in Int
    PROVE  LET f == DeleteEntry(e, dirty, t, n).entry
           IN  /\ f \in EntryType
               /\ EntryLifecycle(f)
               /\ f.path = e.path
               /\ f.id = e.id
  <1> DEFINE d == Erased(e, dirty, Stamp(t, n))
  <1>1. CASE HasValue(e)
    <2>1. Stamp(t, n) \in Int
      BY DEF Stamp
    <2>2. /\ d \in EntryType /\ d.path = e.path /\ d.id = e.id
          /\ d.value = Empty /\ d.dirty = dirty /\ ~d.created
      BY <1>1, <2>1 DEF Erased, EntryType, AnyValue, HasValue
    <2>3. EntryLifecycle(d)
      BY <2>2 DEF EntryLifecycle
    <2> HIDE DEF d
    <2>4. DeleteEntry(e, dirty, t, n).entry \in {e, d}
      BY DEF DeleteEntry, Outcome, d
    <2> QED
      BY <2>2, <2>3, <2>4
  <1>2. CASE ~HasValue(e)
    BY <1>2 DEF DeleteEntry, Outcome
  <1> QED
    BY <1>1, <1>2

\* What a written and what a deleted entry holds: the value and the dirty flag
\* it had, or those it was given.
LEMMA SetEntryHolds ==
    ASSUME NEW e \in EntryType, NEW v \in AnyValue, NEW clear \in BOOLEAN,
           NEW id \in AnyId, NEW dirty \in BOOLEAN, NEW t \in Int, NEW n \in Int
    PROVE  LET f == SetEntry(e, v, clear, id, dirty, t, n).entry
           IN  (f.value = e.value \/ f.value = v) /\ (f.dirty => e.dirty \/ dirty)
  <1> DEFINE r == Revived(e, id)
             w == Written(e, v, id, dirty, Stamp(t, n))
  <1>1. r.value = e.value /\ r.dirty = e.dirty /\ w.value = v /\ w.dirty = dirty
    BY DEF Written, Revived, EntryType
  <1> HIDE DEF r, w
  <1>2. SetEntry(e, v, clear, id, dirty, t, n).entry \in {e, r, w}
    BY DEF SetEntry, Outcome, r, w
  <1> QED
    BY <1>1, <1>2

\* A deletion leaves the old value or none, and no flag of its own accord.
LEMMA DeleteEntryHolds ==
    ASSUME NEW e \in EntryType, NEW dirty \in BOOLEAN, NEW t \in Int, NEW n \in Int
    PROVE  LET f == DeleteEntry(e, dirty, t, n).entry
           IN  (f.value = e.value \/ f.value = Empty) /\ (f.dirty => e.dirty \/ dirty)
  <1> DEFINE d == Erased(e, dirty, Stamp(t, n))
  <1>1. d.value = Empty /\ d.dirty = dirty
    BY DEF Erased, EntryType
  <1> HIDE DEF d
  <1>2. DeleteEntry(e, dirty, t, n).entry \in {e, d}
    BY DEF DeleteEntry, Outcome, d
  <1> QED
    BY <1>1, <1>2

-----------------------------------------------------------------------------
(* The storage between two calls.                                           *)

StoreInv(s) == StoreTypeOK(s) /\ Lifecycle(s) /\ PathIndex(s) /\ IdIndex(s)

\* A new storage.
LEMMA EmptyStoreOK == StoreInv(EmptyStore)
  <1>1. PICK s : s = EmptyStore
    OBVIOUS
  <1>2. /\ s = [entries |-> <<>>, paths |-> [p \in Paths |-> 0], ids |-> [i \in Ids |-> 0]]
        /\ <<>> \in Seq(EntryType) /\ Len(<<>>) = 0 /\ DOMAIN <<>> = {}
    BY <1>1 DEF EmptyStore
  <1>3. StoreTypeOK(s)
    BY <1>2, CapacityAssumption DEF StoreTypeOK, StoreType
  <1>4. Lifecycle(s) /\ PathIndex(s) /\ IdIndex(s)
    BY <1>2 DEF Lifecycle, PathIndex, IdIndex
  <1> QED
    BY <1>1, <1>3, <1>4 DEF StoreInv

\* What the consistency of a storage says of its parts.
LEMMA StoreFacts ==
    ASSUME NEW s, StoreInv(s)
    PROVE  /\ s.entries \in Seq(EntryType)
           /\ Len(s.entries) \in Nat
           /\ DOMAIN s.entries = 1..Len(s.entries)
           /\ Len(s.entries) <= Capacity
           /\ DOMAIN s.entries \subseteq Handles
           /\ s.paths \in [Paths -> 0..Capacity]
           /\ s.ids \in [Ids -> 0..Capacity]
           /\ s = [entries |-> s.entries, paths |-> s.paths, ids |-> s.ids]
           /\ \A h \in DOMAIN s.entries :
                 s.entries[h] \in EntryType /\ EntryLifecycle(s.entries[h])
  <1>1. s \in StoreType /\ Len(s.entries) <= Capacity
    BY DEF StoreInv, StoreTypeOK
  <1>2. /\ s.entries \in Seq(EntryType)
        /\ s.paths \in [Paths -> 0..Capacity]
        /\ s.ids \in [Ids -> 0..Capacity]
        /\ s = [entries |-> s.entries, paths |-> s.paths, ids |-> s.ids]
    BY <1>1 DEF StoreType
  <1>3. Len(s.entries) \in Nat /\ DOMAIN s.entries = 1..Len(s.entries)
    BY <1>2, LenProperties
  <1>4. DOMAIN s.entries \subseteq Handles
    BY <1>1, <1>3, CapacityAssumption DEF Handles
  <1>5. \A h \in DOMAIN s.entries :
           s.entries[h] \in EntryType /\ EntryLifecycle(s.entries[h])
    BY <1>2, <1>3, ElementOfSeq DEF StoreInv, Lifecycle
  <1> QED
    BY <1>1, <1>2, <1>3, <1>4, <1>5

\* Replacing the whole table by entries that keep their paths and carry only
\* mapped ids keeps the storage consistent (one entry, or a pass over all).
LEMMA NewEntriesOK ==
    ASSUME NEW s, StoreInv(s), NEW es,
           es \in [1..Len(s.entries) -> EntryType],
           \A h \in DOMAIN s.entries :
              /\ EntryLifecycle(es[h])
              /\ es[h].path = s.entries[h].path
              /\ es[h].id # NoId => s.ids[es[h].id] # 0
    PROVE  StoreInv([s EXCEPT !.entries = es])
  <1> DEFINE u == [s EXCEPT !.entries = es]
  <1>1. /\ Len(s.entries) \in Nat /\ DOMAIN s.entries = 1..Len(s.entries)
        /\ Len(s.entries) <= Capacity
        /\ s.paths \in [Paths -> 0..Capacity]
        /\ s.ids \in [Ids -> 0..Capacity]
        /\ s = [entries |-> s.entries, paths |-> s.paths, ids |-> s.ids]
    BY StoreFacts
  <1>2. u = [entries |-> es, paths |-> s.paths, ids |-> s.ids]
    BY <1>1
  <1>3. es \in Seq(EntryType) /\ Len(es) = Len(s.entries) /\ DOMAIN es = DOMAIN s.entries
    BY <1>1
  <1> HIDE DEF u
  <1>4. StoreTypeOK(u)
    BY <1>1, <1>2, <1>3 DEF StoreTypeOK, StoreType
  <1>5. Lifecycle(u)
    BY <1>2, <1>3 DEF Lifecycle
  <1>6. PathIndex(u)
    <2>1. PathIndex(s)
      BY DEF StoreInv
    <2> QED
      BY <2>1, <1>2, <1>3 DEF PathIndex
  <1>7. IdIndex(u)
    <2>1. IdIndex(s)
      BY DEF StoreInv
    <2> QED
      BY <2>1, <1>2, <1>3 DEF IdIndex
  <1> QED
    BY <1>4, <1>5, <1>6, <1>7 DEF StoreInv, u

\* Putting back one entry under its path and a mapped id.
LEMMA PutEntryOK ==
    ASSUME NEW s, StoreInv(s), NEW h \in DOMAIN s.entries,
           NEW e \in EntryType, EntryLifecycle(e),
           e.path = s.entries[h].path,
           e.id # NoId => s.ids[e.id] # 0
    PROVE  LET u == PutEntry(s, h, e)
           IN  /\ StoreInv(u)
               /\ DOMAIN u.entries = DOMAIN s.entries
               /\ u.entries[h] = e
               /\ \A g \in DOMAIN s.entries \ {h} : u.entries[g] = s.entries[g]
  <1> DEFINE es == [s.entries EXCEPT ![h] = e]
  <1>1. /\ s.entries \in Seq(EntryType)
        /\ DOMAIN s.entries = 1..Len(s.entries)
        /\ s = [entries |-> s.entries, paths |-> s.paths, ids |-> s.ids]
        /\ \A g \in DOMAIN s.entries :
              s.entries[g] \in EntryType /\ EntryLifecycle(s.entries[g])
    BY StoreFacts
  <1>2. /\ es \in [1..Len(s.entries) -> EntryType]
        /\ es[h] = e
        /\ \A g \in DOMAIN s.entries \ {h} : es[g] = s.entries[g]
    BY <1>1
  <1>3. \A g \in DOMAIN s.entries : s.entries[g].id # NoId => s.ids[s.entries[g].id] # 0
    BY DEF StoreInv, IdIndex
  <1>4. PutEntry(s, h, e) = [s EXCEPT !.entries = es]
    BY <1>1 DEF PutEntry
  <1> HIDE DEF es
  <1>5. \A g \in DOMAIN s.entries :
           /\ EntryLifecycle(es[g])
           /\ es[g].path = s.entries[g].path
           /\ es[g].id # NoId => s.ids[es[g].id] # 0
    BY <1>1, <1>2, <1>3
  <1>6. StoreInv([s EXCEPT !.entries = es])
    BY <1>2, <1>5, NewEntriesOK
  <1>7. [s EXCEPT !.entries = es].entries = es
    BY <1>1
  <1> QED
    BY <1>1, <1>2, <1>4, <1>6, <1>7

\* get_or_create_entry leaves every entry as it was and answers the one entry
\* of the path, a new ghost when there was none.
LEMMA GetOrCreateOK ==
    ASSUME NEW s, StoreInv(s), NEW p \in Paths, HasRoomFor(s, p)
    PROVE  LET u == GetOrCreate(s, p)
           IN  /\ StoreInv(u)
               /\ u.paths[p] \in DOMAIN u.entries
               /\ u.ids = s.ids
               /\ DOMAIN s.entries \subseteq DOMAIN u.entries
               /\ \A h \in DOMAIN s.entries : u.entries[h] = s.entries[h]
               /\ \A h \in DOMAIN u.entries \ DOMAIN s.entries : u.entries[h] = Ghost(p)
  <1> DEFINE u == GetOrCreate(s, p)
             k == Len(s.entries) + 1
  <1>1. /\ s.entries \in Seq(EntryType)
        /\ Len(s.entries) \in Nat
        /\ DOMAIN s.entries = 1..Len(s.entries)
        /\ Len(s.entries) <= Capacity
        /\ s.paths \in [Paths -> 0..Capacity]
        /\ s.ids \in [Ids -> 0..Capacity]
        /\ s = [entries |-> s.entries, paths |-> s.paths, ids |-> s.ids]
    BY StoreFacts
  <1>2. PathIndex(s) /\ IdIndex(s) /\ Lifecycle(s)
    BY DEF StoreInv
  <1>3. CASE s.paths[p] # 0
    <2>1. u = s
      BY <1>3 DEF GetOrCreate
    <2>2. s.paths[p] \in DOMAIN s.entries
      BY <1>2, <1>3 DEF PathIndex
    <2> QED
      BY <2>1, <2>2
  <1>4. CASE s.paths[p] = 0
    <2>1. u = [entries |-> Append(s.entries, Ghost(p)),
               paths |-> [s.paths EXCEPT ![p] = k], ids |-> s.ids]
      BY <1>1, <1>4 DEF GetOrCreate
    <2>2. Ghost(p) \in EntryType /\ EntryLifecycle(Ghost(p)) /\ Ghost(p).path = p
          /\ Ghost(p).id = NoId
      BY DEF Ghost, EntryType, AnyValue, EntryLifecycle, HasValue
    <2> HIDE DEF u
    <2>3. /\ u.entries \in Seq(EntryType)
          /\ Len(u.entries) = k
          /\ \A h \in 1..Len(s.entries) : u.entries[h] = s.entries[h]
          /\ u.entries[k] = Ghost(p)
      BY <1>1, <2>1, <2>2, AppendProperties
    <2>4. DOMAIN u.entries = 1..k
      BY <2>3, LenProperties
    <2>5. k \in 1..Capacity
      BY <1>1, <1>4, CapacityAssumption DEF HasRoomFor
    <2>6. /\ u.paths \in [Paths -> 0..Capacity] /\ u.paths[p] = k
          /\ \A q \in Paths \ {p} : u.paths[q] = s.paths[q]
      BY <1>1, <2>1, <2>5
    <2>7. \A h \in DOMAIN u.entries : h \in DOMAIN s.entries \/ h = k
      BY <1>1, <2>4
    <2>8. StoreTypeOK(u)
      BY <1>1, <2>1, <2>3, <2>5, <2>6 DEF StoreTypeOK, StoreType
    <2>9. Lifecycle(u)
      BY <1>1, <1>2, <2>2, <2>3, <2>7 DEF Lifecycle
    <2>10. PathIndex(u)
      <3>1. \A q \in Paths : u.paths[q] # 0 =>
               u.paths[q] \in DOMAIN u.entries /\ u.entries[u.paths[q]].path = q
        BY <1>1, <1>2, <2>2, <2>3, <2>4, <2>5, <2>6 DEF PathIndex
      <3>2. \A h \in DOMAIN s.entries : s.entries[h].path \in Paths \ {p}
        <4> SUFFICES ASSUME NEW h \in DOMAIN s.entries
                     PROVE  s.entries[h].path \in Paths /\ s.entries[h].path # p
          OBVIOUS
        <4>1. s.entries[h] \in EntryType
          BY StoreFacts
        <4>2. s.paths[s.entries[h].path] = h /\ h # 0
          BY <1>1, <1>2 DEF PathIndex
        <4> QED
          BY <1>4, <4>1, <4>2 DEF EntryType
      <3>3. \A h \in DOMAIN u.entries : u.paths[u.entries[h].path] = h
        <4> SUFFICES ASSUME NEW h \in DOMAIN u.entries
                     PROVE  u.paths[u.entries[h].path] = h
          OBVIOUS
        <4>1. CASE h \in DOMAIN s.entries
          <5>1. u.entries[h] = s.entries[h]
            BY <1>1, <2>3, <4>1
          <5>2. u.paths[s.entries[h].path] = s.paths[s.entries[h].path]
            BY <2>6, <3>2, <4>1
          <5> QED
            BY <1>2, <4>1, <5>1, <5>2 DEF PathIndex
        <4>2. CASE h = k
          BY <2>2, <2>3, <2>6, <4>2
        <4> QED
          BY <2>7, <4>1, <4>2
      <3> QED
        BY <3>1, <3>3 DEF PathIndex
    <2>11. IdIndex(u)
      <3>1. u.ids = s.ids
        BY <2>1
      <3>2. DOMAIN s.entries \subseteq DOMAIN u.entries
        BY <1>1, <2>4
      <3> QED
        BY <1>1, <1>2, <2>2, <2>3, <2>7, <3>1, <3>2 DEF IdIndex
    <2>12. StoreInv(u)
      BY <2>8, <2>9, <2>10, <2>11 DEF StoreInv
    <2> QED
      BY <1>1, <2>1, <2>3, <2>4, <2>5, <2>6, <2>7, <2>12 DEF u
  <1> QED
    BY <1>3, <1>4

\* m_ids.emplace
LEMMA EmplaceOK ==
    ASSUME NEW s, StoreInv(s), NEW id \in Ids, NEW h \in DOMAIN s.entries
    PROVE  LET u == [s EXCEPT !.ids = Emplace(@, id, h)]
           IN  /\ StoreInv(u)
               /\ u.entries = s.entries
               /\ u.paths = s.paths
               /\ u.ids[id] # 0
               /\ \A i \in Ids : s.ids[i] # 0 => u.ids[i] # 0
  <1> DEFINE u == [s EXCEPT !.ids = Emplace(@, id, h)]
             ids == Emplace(s.ids, id, h)
  <1>1. /\ s.entries \in Seq(EntryType)
        /\ DOMAIN s.entries \subseteq Handles
        /\ DOMAIN s.entries = 1..Len(s.entries)
        /\ s.paths \in [Paths -> 0..Capacity]
        /\ s.ids \in [Ids -> 0..Capacity]
        /\ s = [entries |-> s.entries, paths |-> s.paths, ids |-> s.ids]
    BY StoreFacts
  <1>2. u = [entries |-> s.entries, paths |-> s.paths, ids |-> ids]
    BY <1>1
  <1>3. /\ ids \in [Ids -> 0..Capacity]
        /\ ids[id] # 0
        /\ \A i \in Ids : s.ids[i] # 0 => ids[i] = s.ids[i]
        /\ \A i \in Ids : ids[i] \in {s.ids[i], h}
    BY <1>1, CapacityAssumption DEF Emplace, Handles
  <1> HIDE DEF u, ids
  <1>4. StoreTypeOK(u) /\ Lifecycle(u) /\ PathIndex(u)
    BY <1>1, <1>2, <1>3
       DEF StoreInv, StoreTypeOK, StoreType, Lifecycle, PathIndex
  <1>5. IdIndex(u)
    <2>1. IdIndex(s)
      BY DEF StoreInv
    <2>2. \A g \in DOMAIN s.entries : s.entries[g].id \in Ids \cup {NoId}
      BY StoreFacts DEF EntryType
    <2> QED
      BY <1>2, <1>3, <2>1, <2>2 DEF IdIndex
  <1> QED
    BY <1>2, <1>3, <1>4, <1>5 DEF StoreInv, u

\* What m_ids maps after m_ids.emplace: what it mapped, and the new id unless it
\* was mapped already.
LEMMA EmplaceHolds ==
    ASSUME NEW ids \in [Ids -> 0..Capacity], NEW id \in Ids, NEW h \in Handles
    PROVE  /\ \A i \in Ids : ids[i] # 0 => Emplace(ids, id, h)[i] = ids[i]
           /\ \A i \in Ids \ {id} : Emplace(ids, id, h)[i] = ids[i]
           /\ Emplace(ids, id, h)[id] # 0
           /\ ids[id] = 0 => Emplace(ids, id, h)[id] = h
  BY CapacityAssumption DEF Emplace, Handles

-----------------------------------------------------------------------------
(* What a call leaves of the storage it was made on.                        *)

\* Entries stay, under their paths, and so do the ids of m_ids.
Grows(s, u) ==
    /\ StoreInv(u)
    /\ DOMAIN s.entries \subseteq DOMAIN u.entries
    /\ \A g \in DOMAIN s.entries : u.entries[g].path = s.entries[g].path
    /\ \A i \in Ids : s.ids[i] # 0 => u.ids[i] = s.ids[i]

\* An entry holds what it held, or nothing, or is h and holds v.
Holds(s, u, h, v) ==
    \A g \in DOMAIN u.entries :
        \/ u.entries[g].value = Empty
        \/ g = h /\ u.entries[g].value = v
        \/ g \in DOMAIN s.entries /\ u.entries[g].value = s.entries[g].value

\* No entry became dirty.
NoneSoiled(s, u) ==
    \A g \in DOMAIN u.entries :
        u.entries[g].dirty => g \in DOMAIN s.entries /\ s.entries[g].dirty

\* No entry was given an id.
NoneNamed(s, u) ==
    \A g \in DOMAIN u.entries :
        u.entries[g].id # NoId =>
            g \in DOMAIN s.entries /\ u.entries[g].id = s.entries[g].id

\* A storage that is left alone grows.
LEMMA GrowsItself ==
    ASSUME NEW s, StoreInv(s), NEW h, NEW v
    PROVE  Grows(s, s) /\ Holds(s, s, h, v) /\ NoneSoiled(s, s) /\ NoneNamed(s, s)
  BY DEF Grows, Holds, NoneSoiled, NoneNamed

\* Two calls one after the other.
LEMMA GrowsFurther ==
    ASSUME NEW s, NEW w, NEW u, Grows(s, w), Grows(w, u), NEW h, NEW v,
           Holds(s, w, h, v), Holds(w, u, h, v)
    PROVE  /\ Grows(s, u) /\ Holds(s, u, h, v)
           /\ NoneSoiled(s, w) /\ NoneSoiled(w, u) => NoneSoiled(s, u)
           /\ NoneNamed(s, w) /\ NoneNamed(w, u) => NoneNamed(s, u)
  <1>1. Grows(s, u)
    <2>1. \A g \in DOMAIN s.entries : u.entries[g].path = s.entries[g].path
      BY DEF Grows
    <2>2. \A i \in Ids : s.ids[i] # 0 => u.ids[i] = s.ids[i]
      BY DEF Grows
    <2>3. StoreInv(u) /\ DOMAIN s.entries \subseteq DOMAIN u.entries
      BY DEF Grows
    <2> QED
      BY <2>1, <2>2, <2>3 DEF Grows
  <1>2. Holds(s, u, h, v)
    BY DEF Holds
  <1>3. NoneSoiled(s, w) /\ NoneSoiled(w, u) => NoneSoiled(s, u)
    BY DEF NoneSoiled
  <1>4. NoneNamed(s, w) /\ NoneNamed(w, u) => NoneNamed(s, u)
    BY DEF NoneNamed
  <1> QED
    BY <1>1, <1>2, <1>3, <1>4

\* Putting back one entry.
LEMMA PutEntryGrows ==
    ASSUME NEW s, StoreInv(s), NEW h \in DOMAIN s.entries,
           NEW e \in EntryType, EntryLifecycle(e),
           e.path = s.entries[h].path,
           e.id # NoId => s.ids[e.id] # 0, NEW v
    PROVE  LET u == PutEntry(s, h, e)
           IN  /\ Grows(s, u)
               /\ u.ids = s.ids /\ u.paths = s.paths
               /\ (e.value = s.entries[h].value \/ e.value = v) => Holds(s, u, h, v)
               /\ (e.dirty => s.entries[h].dirty) => NoneSoiled(s, u)
               /\ e.id = s.entries[h].id => NoneNamed(s, u)
  <1> DEFINE u == PutEntry(s, h, e)
  <1>1. /\ StoreInv(u)
        /\ DOMAIN u.entries = DOMAIN s.entries
        /\ u.entries[h] = e
        /\ \A g \in DOMAIN s.entries \ {h} : u.entries[g] = s.entries[g]
    BY PutEntryOK
  <1>2. u.ids = s.ids /\ u.paths = s.paths
    <2>1. s = [entries |-> s.entries, paths |-> s.paths, ids |-> s.ids]
      BY StoreFacts
    <2> QED
      BY <2>1 DEF PutEntry
  <1> HIDE DEF u
  <1>3. \A g \in DOMAIN s.entries : u.entries[g].path = s.entries[g].path
    BY <1>1
  <1>4. Grows(s, u)
    BY <1>1, <1>2, <1>3 DEF Grows
  <1>5. (e.value = s.entries[h].value \/ e.value = v) => Holds(s, u, h, v)
    BY <1>1 DEF Holds
  <1>6. (e.dirty => s.entries[h].dirty) => NoneSoiled(s, u)
    BY <1>1 DEF NoneSoiled
  <1>7. e.id = s.entries[h].id => NoneNamed(s, u)
    BY <1>1 DEF NoneNamed
  <1> QED
    BY <1>2, <1>4, <1>5, <1>6, <1>7 DEF u

\* get_or_create_entry adds at most a ghost, which has no id and is not dirty.
LEMMA GetOrCreateGrows ==
    ASSUME NEW s, StoreInv(s), NEW p \in Paths, HasRoomFor(s, p), NEW h, NEW v
    PROVE  LET u == GetOrCreate(s, p)
           IN  /\ Grows(s, u) /\ u.ids = s.ids
               /\ u.paths[p] \in DOMAIN u.entries /\ u.entries[u.paths[p]].path = p
               /\ Holds(s, u, h, v) /\ NoneSoiled(s, u) /\ NoneNamed(s, u)
  <1> DEFINE u == GetOrCreate(s, p)
  <1>1. /\ StoreInv(u)
        /\ u.paths[p] \in DOMAIN u.entries
        /\ u.ids = s.ids
        /\ DOMAIN s.entries \subseteq DOMAIN u.entries
        /\ \A g \in DOMAIN s.entries : u.entries[g] = s.entries[g]
        /\ \A g \in DOMAIN u.entries \ DOMAIN s.entries : u.entries[g] = Ghost(p)
    BY GetOrCreateOK
  <1> HIDE DEF u
  <1>2. Ghost(p).value = Empty /\ ~Ghost(p).dirty /\ Ghost(p).id = NoId
    BY DEF Ghost
  <1>3. Grows(s, u)
    BY <1>1 DEF Grows
  <1>4. u.entries[u.paths[p]].path = p
    <2>1. PathIndex(u) /\ DOMAIN u.entries \subseteq Handles
      BY <1>1, StoreFacts DEF StoreInv
    <2>2. u.paths[p] # 0
      BY <1>1, <2>1, CapacityAssumption DEF Handles
    <2> QED
      BY <2>1, <2>2 DEF PathIndex
  <1>5. Holds(s, u, h, v)
    BY <1>1, <1>2 DEF Holds
  <1>6. NoneSoiled(s, u)
    BY <1>1, <1>2 DEF NoneSoiled
  <1>7. NoneNamed(s, u)
    BY <1>1, <1>2 DEF NoneNamed
  <1> QED
    BY <1>1, <1>3, <1>4, <1>5, <1>6, <1>7 DEF u

\* The entry a method finds in the table.
LEMMA EntryFacts ==
    ASSUME NEW s, StoreInv(s), NEW h \in DOMAIN s.entries
    PROVE  /\ s.entries[h] \in EntryType /\ EntryLifecycle(s.entries[h])
           /\ s.entries[h].path \in Paths /\ s.entries[h].value \in AnyValue
           /\ s.entries[h].id \in AnyId /\ s.entries[h].ts \in Int
           /\ s.entries[h].id # NoId => s.ids[s.entries[h].id] # 0
  <1>1. s.entries[h] \in EntryType /\ EntryLifecycle(s.entries[h])
    BY StoreFacts
  <1>2. s.entries[h].id # NoId => s.ids[s.entries[h].id] # 0
    BY DEF StoreInv, IdIndex
  <1> QED
    BY <1>1, <1>2 DEF EntryType, AnyId

\* The store set_value and clear of a program leave.
LocalSet(s, h, v, clear, n) ==
  Result(s, h, SetEntry(s.entries[h], v, clear, NoId, TRUE, 0, n)).store

\* set_value and clear of a program: m_ids and all ids of entries stay.
LEMMA LocalSetGrows ==
    ASSUME NEW s, StoreInv(s), NEW h \in DOMAIN s.entries, NEW v \in AnyValue,
           NEW clear \in BOOLEAN, NEW n \in Int, NEW r,
           r = LocalSet(s, h, v, clear, n)
    PROVE  Grows(s, r) /\ r.ids = s.ids /\ Holds(s, r, h, v) /\ NoneNamed(s, r)
  <1>0. PICK d \in BOOLEAN : d = TRUE
    OBVIOUS
  <1>2. PICK e : e = s.entries[h]
    OBVIOUS
  <1>1. PICK f : f = SetEntry(e, v, clear, NoId, d, 0, n).entry
    OBVIOUS
  <1>3. /\ e \in EntryType /\ EntryLifecycle(e)
        /\ e.id # NoId => s.ids[e.id] # 0
    BY <1>2, EntryFacts
  <1>4. NoId \in AnyId /\ 0 \in Int
    BY DEF AnyId
  <1>5. f \in EntryType /\ EntryLifecycle(f) /\ f.path = e.path /\ f.id = e.id
    BY <1>1, <1>3, <1>4, SetEntryOK
  <1>6. f.value = e.value \/ f.value = v
    <2>1. PICK id \in AnyId : id = NoId
      BY <1>4
    <2>2. PICK z \in Int : z = 0
      BY <1>4
    <2>3. f = SetEntry(e, v, clear, id, d, z, n).entry
      BY <1>1, <2>1, <2>2
    <2> QED
      BY <1>3, <2>3, SetEntryHolds
  <1>7. PICK u : u = PutEntry(s, h, f)
    OBVIOUS
  <1>8. Grows(s, u) /\ u.ids = s.ids /\ Holds(s, u, h, v) /\ NoneNamed(s, u)
    BY <1>2, <1>3, <1>5, <1>6, <1>7, PutEntryGrows
  <1>9. r = u
    BY <1>0, <1>1, <1>2, <1>7 DEF Result, LocalSet
  <1> QED
    BY <1>8, <1>9

\* delete_entry of a program, likewise.
LEMMA LocalDeleteGrows ==
    ASSUME NEW s, StoreInv(s), NEW h \in DOMAIN s.entries, NEW n \in Int
    PROVE  LET u == DeleteOne(s, h, n).store
           IN  Grows(s, u) /\ u.ids = s.ids /\ Holds(s, u, h, Empty) /\ NoneNamed(s, u)
  <1>1. PICK f : f = DeleteEntry(s.entries[h], TRUE, 0, n).entry
    OBVIOUS
  <1>2. PICK e : e = s.entries[h]
    OBVIOUS
  <1>3. /\ e \in EntryType /\ EntryLifecycle(e)
        /\ e.id # NoId => s.ids[e.id] # 0
    BY <1>2, EntryFacts
  <1>4. TRUE \in BOOLEAN /\ 0 \in Int
    OBVIOUS
  <1>5. f \in EntryType /\ EntryLifecycle(f) /\ f.path = e.path /\ f.id = e.id
    BY <1>1, <1>2, <1>3, <1>4, DeleteEntryOK
  <1>6. f.value = e.value \/ f.value = Empty
    BY <1>1, <1>2, <1>3, <1>4, DeleteEntryHolds
  <1>7. PICK u : u = PutEntry(s, h, f)
    OBVIOUS
  <1>8. Grows(s, u) /\ u.ids = s.ids /\ Holds(s, u, h, Empty) /\ NoneNamed(s, u)
    BY <1>2, <1>3, <1>5, <1>6, <1>7, PutEntryGrows
  <1>9. DeleteOne(s, h, n).store = u
    BY <1>1, <1>7 DEF DeleteOne, Result
  <1> QED
    BY <1>8, <1>9

\* on_entry_updated: only the entry of the id holds something new.
LEMMA UpdatedGrows ==
    ASSUME NEW s, StoreInv(s), NEW id \in Ids, NEW v \in AnyValue,
           NEW t \in Int, NEW n \in Int
    PROVE  LET u == OnEntryUpdated(s, id, v, t, n).store
           IN  Grows(s, u) /\ u.ids = s.ids /\ Holds(s, u, s.ids[id], v) /\ NoneSoiled(s, u)
  <1>1. PICK h : h = s.ids[id]
    OBVIOUS
  <1>2. CASE h = 0
    <2>1. OnEntryUpdated(s, id, v, t, n).store = s
      BY <1>1, <1>2 DEF OnEntryUpdated, NoResult
    <2> QED
      BY <2>1, GrowsItself
  <1>3. CASE h # 0
    <2>0. PICK d \in BOOLEAN : d = FALSE
      OBVIOUS
    <2>1. PICK f : f = SetEntry(s.entries[h], v, d, id, d, t, n).entry
      OBVIOUS
    <2>2. PICK e : e = s.entries[h]
      OBVIOUS
    <2>3. h \in DOMAIN s.entries
      BY <1>1, <1>3 DEF StoreInv, IdIndex
    <2>4. /\ e \in EntryType /\ EntryLifecycle(e)
          /\ e.id # NoId => s.ids[e.id] # 0
      BY <2>2, <2>3, EntryFacts
    <2>5. id \in AnyId
      BY DEF AnyId
    <2>6. f \in EntryType /\ EntryLifecycle(f) /\ f.path = e.path /\ f.id \in {e.id, id}
      BY <2>1, <2>2, <2>4, <2>5, SetEntryOK
    <2>7. (f.value = e.value \/ f.value = v) /\ (f.dirty => e.dirty)
      <3>1. f = SetEntry(e, v, d, id, d, t, n).entry
        BY <2>1, <2>2
      <3>2. (f.value = e.value \/ f.value = v) /\ (f.dirty => e.dirty \/ d)
        BY <2>4, <2>5, <3>1, SetEntryHolds
      <3> QED
        BY <2>0, <3>2
    <2>8. f.id # NoId => s.ids[f.id] # 0
      BY <1>1, <1>3, <2>4, <2>6
    <2>9. PICK u : u = PutEntry(s, h, f)
      OBVIOUS
    <2>10. Grows(s, u) /\ u.ids = s.ids /\ Holds(s, u, h, v) /\ NoneSoiled(s, u)
      BY <2>2, <2>3, <2>6, <2>7, <2>8, <2>9, PutEntryGrows
    <2>11. OnEntryUpdated(s, id, v, t, n).store = u
      BY <1>1, <1>3, <2>0, <2>1, <2>9 DEF OnEntryUpdated, Result
    <2> QED
      BY <1>1, <2>10, <2>11
  <1> QED
    BY <1>2, <1>3

\* on_entry_deleted: the entry of the id holds nothing.
LEMMA DeletedGrows ==
    ASSUME NEW s, StoreInv(s), NEW id \in Ids, NEW t \in Int, NEW n \in Int
    PROVE  LET u == OnEntryDeleted(s, id, t, n).store
           IN  Grows(s, u) /\ u.ids = s.ids /\ Holds(s, u, s.ids[id], Empty) /\ NoneSoiled(s, u)
  <1>1. PICK h : h = s.ids[id]
    OBVIOUS
  <1>2. CASE h = 0
    <2>1. OnEntryDeleted(s, id, t, n).store = s
      BY <1>1, <1>2 DEF OnEntryDeleted, NoResult
    <2> QED
      BY <2>1, GrowsItself
  <1>3. CASE h # 0
    <2>1. PICK f : f = DeleteEntry(s.entries[h], FALSE, t, n).entry
      OBVIOUS
    <2>2. PICK e : e = s.entries[h]
      OBVIOUS
    <2>3. h \in DOMAIN s.entries
      BY <1>1, <1>3 DEF StoreInv, IdIndex
    <2>4. /\ e \in EntryType /\ EntryLifecycle(e)
          /\ e.id # NoId => s.ids[e.id] # 0
      BY <2>2, <2>3, EntryFacts
    <2>5. FALSE \in BOOLEAN
      OBVIOUS
    <2>6. f \in EntryType /\ EntryLifecycle(f) /\ f.path = e.path /\ f.id = e.id
      BY <2>1, <2>2, <2>4, <2>5, DeleteEntryOK
    <2>7. (f.value = e.value \/ f.value = Empty) /\ (f.dirty => e.dirty)
      BY <2>1, <2>2, <2>4, <2>5, DeleteEntryHolds
    <2>8. PICK u : u = PutEntry(s, h, f)
      OBVIOUS
    <2>9. Grows(s, u) /\ u.ids = s.ids /\ Holds(s, u, h, Empty) /\ NoneSoiled(s, u)
      BY <2>2, <2>3, <2>4, <2>6, <2>7, <2>8, PutEntryGrows
    <2>10. OnEntryDeleted(s, id, t, n).store = u
      BY <1>1, <1>3, <2>1, <2>8 DEF OnEntryDeleted, Result
    <2> QED
      BY <1>1, <2>9, <2>10
  <1> QED
    BY <1>2, <1>3

\* m_ids.emplace: entries and paths stay.
LEMMA EmplaceGrows ==
    ASSUME NEW s, StoreInv(s), NEW id \in Ids, NEW h \in DOMAIN s.entries, NEW k, NEW v
    PROVE  LET u == [s EXCEPT !.ids = Emplace(@, id, h)]
           IN  /\ Grows(s, u) /\ u.entries = s.entries /\ u.paths = s.paths
               /\ u.ids = Emplace(s.ids, id, h) /\ u.ids[id] # 0
               /\ Holds(s, u, k, v) /\ NoneSoiled(s, u) /\ NoneNamed(s, u)
  <1> DEFINE u == [s EXCEPT !.ids = Emplace(@, id, h)]
  <1>1. StoreInv(u) /\ u.entries = s.entries /\ u.paths = s.paths
    BY EmplaceOK
  <1>2. /\ s.ids \in [Ids -> 0..Capacity] /\ h \in Handles
        /\ s = [entries |-> s.entries, paths |-> s.paths, ids |-> s.ids]
    BY StoreFacts
  <1>3. u.ids = Emplace(s.ids, id, h)
    BY <1>2
  <1>4. u.ids[id] # 0 /\ \A i \in Ids : s.ids[i] # 0 => u.ids[i] = s.ids[i]
    BY <1>2, <1>3, EmplaceHolds
  <1> HIDE DEF u
  <1>5. Grows(s, u)
    BY <1>1, <1>4 DEF Grows
  <1>6. Holds(s, u, k, v) /\ NoneSoiled(s, u) /\ NoneNamed(s, u)
    BY <1>1 DEF Holds, NoneSoiled, NoneNamed
  <1> QED
    BY <1>1, <1>3, <1>4, <1>5, <1>6 DEF u

\* on_entry_created
LEMMA CreatedGrows ==
    ASSUME NEW s, StoreInv(s), NEW id \in Ids, NEW p \in Paths, HasRoomFor(s, p),
           NEW v \in AnyValue, NEW t \in Int, NEW n \in Int
    PROVE  Grows(s, OnEntryCreated(s, id, p, v, t, n).store)
  <1>1. PICK u : u = GetOrCreate(s, p)
    OBVIOUS
  <1>2. PICK h : h = u.paths[p]
    OBVIOUS
  <1>3. Grows(s, u) /\ StoreInv(u) /\ h \in DOMAIN u.entries /\ Holds(s, u, h, v)
    BY <1>1, <1>2, GetOrCreateGrows DEF Grows
  <1>4. PICK w : w = [u EXCEPT !.ids = Emplace(@, id, h)]
    OBVIOUS
  <1>5. /\ Grows(u, w) /\ StoreInv(w) /\ w.entries = u.entries /\ w.ids[id] # 0
        /\ Holds(u, w, h, v)
    <2>1. StoreInv(u) /\ h \in DOMAIN u.entries
      BY <1>3
    <2>2. /\ Grows(u, w) /\ w.entries = u.entries /\ w.ids[id] # 0
          /\ Holds(u, w, h, v)
      BY <1>4, <2>1, EmplaceGrows
    <2> QED
      BY <2>2 DEF Grows
  <1>6. PICK d \in BOOLEAN : d = FALSE
    OBVIOUS
  <1>7. PICK e : e = u.entries[h]
    OBVIOUS
  <1>8. /\ e = w.entries[h] /\ h \in DOMAIN w.entries /\ e \in EntryType
        /\ EntryLifecycle(e)
        /\ e.id # NoId => w.ids[e.id] # 0
    BY <1>3, <1>5, <1>7, EntryFacts
  <1>9. id \in AnyId
    BY DEF AnyId
  <1>10. PICK f : f = SetEntry(e, v, d, id, d, t, n).entry
    OBVIOUS
  <1>11. f \in EntryType /\ EntryLifecycle(f) /\ f.path = e.path /\ f.id \in {e.id, id}
    BY <1>8, <1>9, <1>10, SetEntryOK
  <1>12. f.value = e.value \/ f.value = v
    BY <1>8, <1>9, <1>10, SetEntryHolds
  <1>13. f.id # NoId => w.ids[f.id] # 0
    BY <1>5, <1>8, <1>11
  <1>14. PICK x : x = PutEntry(w, h, f)
    OBVIOUS
  <1>15. Grows(w, x) /\ Holds(w, x, h, v)
    BY <1>5, <1>8, <1>11, <1>12, <1>13, <1>14, PutEntryGrows
  <1>16. OnEntryCreated(s, id, p, v, t, n).store = x
    BY <1>1, <1>2, <1>4, <1>6, <1>7, <1>10, <1>14 DEF OnEntryCreated, Result
  <1>17. Grows(s, w) /\ Holds(s, w, h, v)
    BY <1>3, <1>5, GrowsFurther
  <1> QED
    BY <1>15, <1>16, <1>17, GrowsFurther

\* The entry h of the path p, a ghost if it is new, has the id, the id leads to
\* it unless it led elsewhere before, and the other entries are as they were.
HasId(s, id, p, u, h) ==
    /\ h \in DOMAIN u.entries /\ u.entries[h].path = p /\ u.entries[h].id = id
    /\ u.ids = Emplace(s.ids, id, h) /\ u.ids[id] # 0
    /\ \A g \in DOMAIN u.entries \ {h} :
          g \in DOMAIN s.entries /\ u.entries[g] = s.entries[g]
    /\ h \in DOMAIN s.entries => u.entries[h] = [s.entries[h] EXCEPT !.id = id]
    /\ h \notin DOMAIN s.entries => u.entries[h] = [Ghost(p) EXCEPT !.id = id]

\* on_entry_id_assigned: the entry of the path, a ghost if there was none, has
\* the id.
LEMMA AssignedGrows ==
    ASSUME NEW s, StoreInv(s), NEW id \in Ids, NEW p \in Paths, HasRoomFor(s, p),
           NEW k, NEW v, NEW r, r = OnEntryIdAssigned(s, id, p), NEW g, g = r.paths[p]
    PROVE  Grows(s, r) /\ Holds(s, r, k, v) /\ NoneSoiled(s, r) /\ HasId(s, id, p, r, g)
  <1>1. PICK u : u = GetOrCreate(s, p)
    OBVIOUS
  <1>2. PICK h : h = u.paths[p]
    OBVIOUS
  <1>3. /\ Grows(s, u) /\ StoreInv(u) /\ u.ids = s.ids
        /\ h \in DOMAIN u.entries /\ u.entries[h].path = p
        /\ Holds(s, u, k, v) /\ NoneSoiled(s, u)
    BY <1>1, <1>2, GetOrCreateGrows DEF Grows
  <1>4. PICK w : w = [u EXCEPT !.ids = Emplace(@, id, h)]
    OBVIOUS
  <1>5. /\ Grows(u, w) /\ StoreInv(w) /\ w.entries = u.entries /\ w.paths = u.paths
        /\ w.ids = Emplace(u.ids, id, h) /\ w.ids[id] # 0
        /\ Holds(u, w, k, v) /\ NoneSoiled(u, w)
    <2>1. StoreInv(u) /\ h \in DOMAIN u.entries
      BY <1>3
    <2>2. /\ Grows(u, w) /\ w.entries = u.entries /\ w.paths = u.paths
          /\ w.ids = Emplace(u.ids, id, h) /\ w.ids[id] # 0
          /\ Holds(u, w, k, v) /\ NoneSoiled(u, w)
      BY <1>4, <2>1, EmplaceGrows
    <2> QED
      BY <2>2 DEF Grows
  <1>6. PICK f : f = [u.entries[h] EXCEPT !.id = id]
    OBVIOUS
  <1>7. /\ f \in EntryType /\ EntryLifecycle(f) /\ f.path = p /\ f.id = id
        /\ f.value = u.entries[h].value /\ f.dirty = u.entries[h].dirty
    <2>1. u.entries[h] \in EntryType /\ EntryLifecycle(u.entries[h])
      BY <1>3, EntryFacts
    <2>2. /\ f \in EntryType /\ f.path = p /\ f.id = id /\ f.ts = u.entries[h].ts
          /\ f.value = u.entries[h].value /\ f.dirty = u.entries[h].dirty
          /\ f.created = u.entries[h].created /\ f.deleted = u.entries[h].deleted
      BY <1>3, <1>6, <2>1 DEF EntryType
    <2>3. EntryLifecycle(f)
      BY <2>1, <2>2 DEF EntryLifecycle, HasValue
    <2> QED
      BY <2>2, <2>3
  <1>8. PICK x : x = PutEntry(w, h, f)
    OBVIOUS
  <1>9. h \in DOMAIN w.entries /\ w.entries[h] = u.entries[h]
    BY <1>3, <1>5
  <1>10. /\ DOMAIN x.entries = DOMAIN w.entries /\ x.entries[h] = f
         /\ \A e \in DOMAIN w.entries \ {h} : x.entries[e] = w.entries[e]
    BY <1>3, <1>5, <1>7, <1>8, <1>9, PutEntryOK
  <1>11. /\ Grows(w, x) /\ x.ids = w.ids /\ x.paths = w.paths /\ Holds(w, x, k, v)
         /\ NoneSoiled(w, x)
    <2>1. /\ StoreInv(w) /\ f.path = w.entries[h].path /\ f.value = w.entries[h].value
          /\ f.dirty = w.entries[h].dirty /\ w.ids[f.id] # 0
      BY <1>3, <1>5, <1>7, <1>9
    <2>2. /\ Grows(w, x) /\ x.ids = w.ids /\ x.paths = w.paths /\ NoneSoiled(w, x)
      BY <1>7, <1>8, <1>9, <2>1, PutEntryGrows
    <2>3. Holds(w, x, k, v)
      BY <1>10, <2>1 DEF Holds
    <2> QED
      BY <2>2, <2>3
  <1>12. OnEntryIdAssigned(s, id, p) = x
    <2>1. u = [entries |-> u.entries, paths |-> u.paths, ids |-> u.ids]
      BY <1>3, StoreFacts
    <2>2. x = [w EXCEPT !.entries = [w.entries EXCEPT ![h] = f]]
      BY <1>8 DEF PutEntry
    <2>3. x = [entries |-> [u.entries EXCEPT ![h] = f], paths |-> u.paths,
               ids |-> Emplace(u.ids, id, h)]
      BY <1>4, <2>1, <2>2
    <2>4. OnEntryIdAssigned(s, id, p) =
             [u EXCEPT !.entries[h].id = id, !.ids = Emplace(@, id, h)]
      BY <1>1, <1>2 DEF OnEntryIdAssigned
    <2> QED
      BY <1>6, <2>1, <2>3, <2>4
  <1>13. \A e \in DOMAIN u.entries \ {h} : e \in DOMAIN s.entries /\ u.entries[e] = s.entries[e]
    <2>1. /\ \A e \in DOMAIN s.entries : u.entries[e] = s.entries[e]
          /\ \A e \in DOMAIN u.entries \ DOMAIN s.entries : u.entries[e] = Ghost(p)
      BY <1>1, GetOrCreateOK
    <2>2. \A e \in DOMAIN u.entries : u.paths[u.entries[e].path] = e
      BY <1>3 DEF StoreInv, PathIndex
    <2>3. Ghost(p).path = p
      BY DEF Ghost
    <2> QED
      BY <1>2, <2>1, <2>2, <2>3
  <1>14. h \in DOMAIN s.entries => u.entries[h] = s.entries[h]
    BY <1>1, GetOrCreateOK
  <1>15. Grows(s, w) /\ Holds(s, w, k, v) /\ NoneSoiled(s, w)
    BY <1>3, <1>5, GrowsFurther
  <1>16. Grows(s, x) /\ Holds(s, x, k, v) /\ NoneSoiled(s, x)
    BY <1>11, <1>15, GrowsFurther
  <1>17. /\ x.paths[p] = h /\ h \in DOMAIN x.entries
         /\ x.entries[h].path = p /\ x.entries[h].id = id
         /\ x.ids = Emplace(s.ids, id, h) /\ x.ids[id] # 0
    BY <1>2, <1>3, <1>5, <1>7, <1>9, <1>11, <1>10
  <1>18. \A e \in DOMAIN x.entries \ {h} : e \in DOMAIN s.entries /\ x.entries[e] = s.entries[e]
    BY <1>5, <1>10, <1>13
  <1>19. h \in DOMAIN s.entries => x.entries[h] = [s.entries[h] EXCEPT !.id = id]
    BY <1>6, <1>10, <1>14
  <1>20. h \notin DOMAIN s.entries => x.entries[h] = [Ghost(p) EXCEPT !.id = id]
    <2>1. h \notin DOMAIN s.entries => u.entries[h] = Ghost(p)
      BY <1>1, <1>3, GetOrCreateOK
    <2> QED
      BY <1>6, <1>10, <2>1
  <1>21. r = x /\ g = h
    BY <1>12, <1>17
  <1> QED
    BY <1>16, <1>17, <1>18, <1>19, <1>20, <1>21 DEF HasId

\* act_on_dirty_entries clears the dirty flags and nothing else.
LEMMA CleanedGrows ==
    ASSUME NEW s, StoreInv(s), NEW k, NEW v
    PROVE  LET u == DirtyCleared(s)
           IN  /\ Grows(s, u) /\ u.ids = s.ids /\ Holds(s, u, k, v)
               /\ NoneSoiled(s, u) /\ NoneNamed(s, u)
               /\ \A g \in DOMAIN u.entries : ~u.entries[g].dirty
  <1> DEFINE es == [g \in DOMAIN s.entries |-> [s.entries[g] EXCEPT !.dirty = FALSE]]
             u == [s EXCEPT !.entries = es]
  <1>1. /\ DOMAIN s.entries = 1..Len(s.entries)
        /\ s = [entries |-> s.entries, paths |-> s.paths, ids |-> s.ids]
    BY StoreFacts
  <1>2. ASSUME NEW g \in DOMAIN s.entries
        PROVE  /\ es[g] \in EntryType /\ EntryLifecycle(es[g])
               /\ es[g].path = s.entries[g].path /\ es[g].id = s.entries[g].id
               /\ es[g].value = s.entries[g].value /\ ~es[g].dirty
    <2>1. s.entries[g] \in EntryType /\ EntryLifecycle(s.entries[g])
      BY EntryFacts
    <2>2. PICK e : e = s.entries[g]
      OBVIOUS
    <2>3. PICK f : f = [e EXCEPT !.dirty = FALSE]
      OBVIOUS
    <2>4. /\ f \in EntryType /\ f.path = e.path /\ f.id = e.id /\ f.value = e.value
          /\ f.ts = e.ts /\ f.created = e.created /\ f.deleted = e.deleted /\ ~f.dirty
      BY <2>1, <2>2, <2>3 DEF EntryType
    <2>5. EntryLifecycle(f)
      BY <2>1, <2>2, <2>4 DEF EntryLifecycle, HasValue
    <2> QED
      BY <2>2, <2>3, <2>4, <2>5
  <1>3. es \in [1..Len(s.entries) -> EntryType]
    BY <1>1, <1>2
  <1>4. DOMAIN es = DOMAIN s.entries
    OBVIOUS
  <1> HIDE DEF es
  <1>5. \A g \in DOMAIN s.entries : es[g].id # NoId => s.ids[es[g].id] # 0
    BY <1>2, EntryFacts
  <1>6. StoreInv(u)
    BY <1>2, <1>3, <1>5, NewEntriesOK
  <1>7. u.entries = es /\ u.ids = s.ids
    BY <1>1
  <1>8. DirtyCleared(s) = u
    BY DEF DirtyCleared, es
  <1> HIDE DEF u
  <1>9. Grows(s, u)
    BY <1>2, <1>4, <1>6, <1>7 DEF Grows
  <1>10. Holds(s, u, k, v)
    BY <1>2, <1>4, <1>7 DEF Holds
  <1>11. NoneNamed(s, u)
    BY <1>2, <1>4, <1>7 DEF NoneNamed
  <1>12. \A g \in DOMAIN u.entries : ~u.entries[g].dirty
    BY <1>2, <1>4, <1>7
  <1>13. NoneSoiled(s, u)
    BY <1>12 DEF NoneSoiled
  <1> QED
    BY <1>7, <1>8, <1>9, <1>10, <1>11, <1>12, <1>13

\* clear_net_ids
LEMMA NetIdsClearedOK ==
    ASSUME NEW s, StoreInv(s)
    PROVE  StoreInv(NetIdsCleared(s))
  <1> DEFINE es == [g \in DOMAIN s.entries |-> [s.entries[g] EXCEPT !.id = NoId]]
             u == [s EXCEPT !.entries = es]
             w == [s EXCEPT !.entries = es, !.ids = [i \in Ids |-> 0]]
  <1>1. /\ DOMAIN s.entries = 1..Len(s.entries)
        /\ s = [entries |-> s.entries, paths |-> s.paths, ids |-> s.ids]
    BY StoreFacts
  <1>2. ASSUME NEW g \in DOMAIN s.entries
        PROVE  /\ es[g] \in EntryType /\ EntryLifecycle(es[g])
               /\ es[g].path = s.entries[g].path /\ es[g].id = NoId
    <2>1. s.entries[g] \in EntryType /\ EntryLifecycle(s.entries[g])
      BY EntryFacts
    <2>2. PICK e : e = s.entries[g]
      OBVIOUS
    <2>3. PICK f : f = [e EXCEPT !.id = NoId]
      OBVIOUS
    <2>4. /\ f \in EntryType /\ f.path = e.path /\ f.id = NoId /\ f.value = e.value
          /\ f.ts = e.ts /\ f.created = e.created /\ f.deleted = e.deleted
          /\ f.dirty = e.dirty
      BY <2>1, <2>2, <2>3 DEF EntryType
    <2>5. EntryLifecycle(f)
      BY <2>1, <2>2, <2>4 DEF EntryLifecycle, HasValue
    <2> QED
      BY <2>2, <2>3, <2>4, <2>5
  <1>3. es \in [1..Len(s.entries) -> EntryType] /\ DOMAIN es = DOMAIN s.entries
    BY <1>1, <1>2
  <1> HIDE DEF es
  <1>4. StoreInv(u)
    BY <1>2, <1>3, NewEntriesOK
  <1>5. /\ u = [entries |-> es, paths |-> s.paths, ids |-> s.ids]
        /\ w = [entries |-> es, paths |-> s.paths, ids |-> [i \in Ids |-> 0]]
    <2>1. PICK none : none = [i \in Ids |-> 0]
      OBVIOUS
    <2>2. u = [entries |-> es, paths |-> s.paths, ids |-> s.ids]
      BY <1>1
    <2>3. PICK x : x = [s EXCEPT !.entries = es]
      OBVIOUS
    <2>4. x = [entries |-> es, paths |-> s.paths, ids |-> s.ids]
      BY <2>2, <2>3
    <2>5. [x EXCEPT !.ids = none] = [entries |-> es, paths |-> s.paths, ids |-> none]
      BY <2>4
    <2>6. [s EXCEPT !.entries = es, !.ids = none] = [x EXCEPT !.ids = none]
      BY <2>3
    <2> QED
      BY <2>1, <2>2, <2>5, <2>6
  <1>6. w.ids = [i \in Ids |-> 0] /\ w.ids \in [Ids -> 0..Capacity]
    BY <1>5, CapacityAssumption
  <1>7. NetIdsCleared(s) = w
    BY DEF NetIdsCleared, es
  <1> HIDE DEF u, w
  <1>8. /\ u.entries \in Seq(EntryType) /\ u.paths \in [Paths -> 0..Capacity]
        /\ Len(u.entries) <= Capacity
    BY <1>4, StoreFacts
  <1>9. StoreTypeOK(w)
    BY <1>5, <1>6, <1>8 DEF StoreTypeOK, StoreType
  <1>10. Lifecycle(w) /\ PathIndex(w)
    BY <1>4, <1>5 DEF StoreInv, Lifecycle, PathIndex
  <1>11. IdIndex(w)
    BY <1>2, <1>3, <1>5, <1>6 DEF IdIndex
  <1> QED
    BY <1>7, <1>9, <1>10, <1>11 DEF StoreInv
=============================================================================
