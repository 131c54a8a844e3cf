------------------------------- MODULE Objects -------------------------------
(***************************************************************************)
(* The objects of obsr::instance (src/src/instance.cpp): the handle table  *)
(* m_objects and the index m_object_paths.  Every call holds m_mutex, so a *)
(* call is a step; a call that throws keeps what it did before.  Of the    *)
(* storage (Storage.tla) only where its entries come from matters here:    *)
(* from get_entry, or from messages, on the looper's thread.  A deleted    *)
(* entry keeps its path, so what delete_object does to them is left there. *)
(*                                                                         *)
(* A path is the sequence of its names; the root's is empty.               *)
(***************************************************************************)
EXTENDS Integers, Sequences, FiniteSets, SequencesExt

CONSTANTS
    Names,      \* names of objects and entries
    Free,       \* a slot that holds no object
    Capacity,   \* slots of m_objects (256 in the code)
    MaxDepth, MaxEntries    \* bounds: how deep objects are nested; entries

ASSUME CapacityAssumption == Capacity \in Nat \ {0}
ASSUME DepthAssumption == MaxDepth \in Nat \ {0}

Paths == SeqOf(Names, MaxDepth)

ASSUME FreeAssumption == Free \notin Paths \cup {"arrived", "given", "astray"}

Slots == 1..Capacity

\* The definitions named Faulty... are variants with a mistake the code could
\* have made; the specification does not use them.

VARIABLES
    objects,    \* m_objects: the path in each slot, Free where there is none
    paths,      \* m_object_paths, 0 where a path has no object
    entries     \* the storage's: "arrived", "given" by get_entry, or Free;
                \* "astray" when get_entry met a handle that was deleted

vars == <<objects, paths, entries>>

Root == <<>>
m_root == 1
Used(h) == objects[h] # Free

Init ==
    /\ objects = [h \in Slots |-> IF h = m_root THEN Root ELSE Free]
    /\ paths = [p \in Paths |-> 0]
    /\ entries = [p \in Paths |-> Free]

-----------------------------------------------------------------------------
(* A walk w is where a call is: the tables, the object it has come to,       *)
(* whether it threw, and whether it left the bound (a reused handle may lead *)
(* out of the tree of the path).                                            *)

Start(h) == [objects |-> objects, paths |-> paths, at |-> h, threw |-> FALSE,
             deep |-> FALSE]
Thrown(w) == [w EXCEPT !.threw = TRUE]

\* find_next_available_spot: the first free slot, 0 for none.
FreeSlot(table) ==
    LET free == {h \in Slots : table[h] = Free}
    IN  IF free = {} THEN 0 ELSE CHOOSE h \in free : \A g \in free : h <= g

FaultyAllocateUnlisted(w, p) ==
    LET h == FreeSlot(w.objects)
    IN  IF h = 0 THEN Thrown(w)
        ELSE [w EXCEPT !.objects[h] = p, !.at = h]

\* allocate_new, or no_space, and the path in the index.
Allocate(w, p) ==
    LET h == FreeSlot(w.objects)
    IN  IF h = 0 THEN Thrown(w)
        ELSE [w EXCEPT !.objects[h] = p, !.paths[p] = h, !.at = h]

\* get_or_create_child of the object the walk has come to.
Child(w, name) ==
    LET p == Append(w.objects[w.at], name)
    IN  IF w.threw \/ w.deep THEN w
        ELSE IF w.objects[w.at] = Free THEN Thrown(w)
        ELSE IF p \notin Paths THEN [w EXCEPT !.deep = TRUE]
        ELSE IF w.paths[p] # 0 THEN [w EXCEPT !.at = w.paths[p]]
        ELSE Allocate(w, p)

\* get_or_create_object: every object on the way is created.
Walk(p) ==
    LET upTo[n \in 0..Len(p)] ==
            IF n = 0 THEN Start(m_root) ELSE Child(upTo[n - 1], p[n])
    IN  upTo[Len(p)]

Ends(w) == ~w.deep /\ objects' = w.objects /\ paths' = w.paths

\* get_object
GetObject(p) == Ends(Walk(p)) /\ UNCHANGED entries

\* get_child
GetChild(h, name) ==
    /\ Used(h)
    /\ Ends(Child(Start(h), name))
    /\ UNCHANGED entries

EntryAt(p, how) ==
    /\ entries[p] # Free \/ Cardinality({q \in Paths : entries[q] # Free}) < MaxEntries
    /\ entries' = [entries EXCEPT ![p] = how]

\* On the way to p, m_object_paths has a handle that is free or another object's.
Stale(p) == \E n \in DOMAIN p : LET q == SubSeq(p, 1, n)
                                 IN  paths[q] # 0 /\ objects[paths[q]] # q

FaultyHierarchy(p) == Start(m_root)

\* The objects get_entry makes for a path: its parent and those on the way.
Hierarchy(p) == Walk(Front(p))

\* get_entry of a path; that of an entry of the root throws, because
\* get_or_create_object looks behind the end of the parent's empty path.
GetEntry(p) ==
    /\ Len(p) > 1
    /\ LET w == Hierarchy(p)
       IN  /\ Ends(w)
           /\ IF w.threw THEN UNCHANGED entries
              ELSE EntryAt(p, IF Stale(Front(p)) THEN "astray" ELSE "given")

\* get_entry of a name in an object
GetEntryIn(h, name) ==
    /\ Used(h)
    /\ LET p == Append(objects[h], name)
       IN  p \in Paths /\ EntryAt(p, "given")
    /\ UNCHANGED <<objects, paths>>

\* A message brings an entry (on_entry_id_assigned, on_entry_created), and
\* nobody makes objects for it; listeners learn its handle from the event.
Arrives(p) ==
    /\ p # Root
    /\ entries[p] = Free
    /\ EntryAt(p, "arrived")
    /\ UNCHANGED <<objects, paths>>

\* delete_object; the object's path stays in m_object_paths.
DeleteObject(h) ==
    /\ Used(h)
    /\ h # m_root
    /\ objects' = [objects EXCEPT ![h] = Free]
    /\ UNCHANGED <<paths, entries>>

Next ==
    \/ \E p \in Paths : GetObject(p)
    \/ \E p \in Paths : GetEntry(p)
    \/ \E p \in Paths : Arrives(p)
    \/ \E h \in Slots, name \in Names : GetChild(h, name)
    \/ \E h \in Slots, name \in Names : GetEntryIn(h, name)
    \/ \E h \in Slots : DeleteObject(h)

Spec == Init /\ [][Next]_vars

-----------------------------------------------------------------------------
\* However slots are reused, m_object_paths names the handle of each object, so
\* no two objects have the same path and get_or_create_child finds each.
ObjectsListed ==
    \A h \in Slots : Used(h) /\ h # m_root => paths[objects[h]] = h

\* The assertions of get_parent_for_object and get_parent_for_entry: the parent
\* of an object, and of an entry get_entry answered with, is the root or in
\* m_object_paths, whatever was deleted in between.  It does not hold of an entry
\* known from the event of its arrival only, and may not of one that get_entry made
\* on a path where an object was deleted, whose handle leads it elsewhere.
ParentsListed ==
    LET listed(p) == Front(p) = Root \/ paths[Front(p)] # 0
    IN  /\ \A h \in Slots : Used(h) /\ h # m_root => listed(objects[h])
        /\ \A p \in Paths : entries[p] = "given" => listed(p)
=============================================================================
