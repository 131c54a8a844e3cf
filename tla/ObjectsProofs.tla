--------------------------- MODULE ObjectsProofs ---------------------------
(***************************************************************************)
(* Theorems about the objects of an instance, for any number of slots,     *)
(* names and levels.                                                       *)
(***************************************************************************)
EXTENDS Objects, SequenceTheorems, WellFoundedInduction, TLAPS

-----------------------------------------------------------------------------
(* The inductive invariant, of the tables a walk has and of those there are. *)

\* The types of the two tables.
Tables(objs, index) ==
    /\ objs \in [Slots -> Paths \cup {Free}]
    /\ index \in [Paths -> 0..Capacity]

\* The root is in its slot, every object in the index, and its parent too.
Listed(objs, index) ==
    /\ objs[m_root] = Root
    /\ \A h \in Slots : objs[h] # Free /\ h # m_root =>
          /\ index[objs[h]] = h
          /\ Front(objs[h]) = Root \/ index[Front(objs[h])] # 0

\* The parents of the entries that get_entry gave.
Parents(index) ==
    \A p \in Paths : entries[p] = "given" => Front(p) = Root \/ index[Front(p)] # 0

IInv ==
    /\ Tables(objects, paths)
    /\ entries \in [Paths -> {"arrived", "given", "astray", Free}]
    /\ Listed(objects, paths)
    /\ Parents(paths)

\* What a walk w may have done to the tables: it has only added to them.
WalkOK(w) ==
    /\ Tables(w.objects, w.paths) /\ Listed(w.objects, w.paths)
    /\ w = [objects |-> w.objects, paths |-> w.paths, at |-> w.at, threw |-> w.threw,
            deep |-> w.deep]
    /\ w.at \in Slots /\ w.threw \in BOOLEAN /\ w.deep \in BOOLEAN
    /\ \A p \in Paths : paths[p] # 0 => w.paths[p] = paths[p]
    /\ \A p \in Paths : paths[p] = 0 /\ w.paths[p] # 0 => w.objects[w.paths[p]] = p
    /\ \A h \in Slots : objects[h] # Free => w.objects[h] = objects[h]

\* A walk that went well is at the path q.
IsAt(w, q) == ~w.threw /\ ~w.deep => w.objects[w.at] = q

-----------------------------------------------------------------------------
(* Paths and slots.                                                         *)

\* A path is a sequence of names; the root's is one, and parents are.
LEMMA PathFacts ==
    /\ Root \in Paths /\ Free \notin Paths
    /\ \A p \in Paths : p \in Seq(Names) /\ Len(p) \in 0..MaxDepth
    /\ \A p \in Seq(Names) : Len(p) <= MaxDepth => p \in Paths
  <1>1. ASSUME NEW p \in Paths PROVE p \in Seq(Names) /\ Len(p) \in 0..MaxDepth
    <2>1. PICK m \in 0..MaxDepth : p \in [1..m -> Names]
      BY DEF Paths, SeqOf
    <2>2. m \in Nat /\ p \in Seq(Names)
      BY <2>1, DepthAssumption
    <2> QED
      BY <2>1, <2>2, LenProperties
  <1>2. ASSUME NEW p \in Seq(Names), Len(p) <= MaxDepth PROVE p \in Paths
    <2>1. Len(p) \in 0..MaxDepth /\ p \in [1..Len(p) -> Names]
      BY <1>2, LenProperties, DepthAssumption
    <2> QED
      BY <2>1 DEF Paths, SeqOf
  <1>3. Root \in Paths
    <2>1. Root \in Seq(Names) /\ Len(Root) = 0
      BY EmptySeq DEF Root
    <2> QED
      <3>1. PICK r \in Seq(Names) : r = Root /\ Len(r) = 0
        BY <2>1
      <3>2. Len(r) <= MaxDepth
        BY <3>1, DepthAssumption
      <3> QED
        BY <1>2, <3>1, <3>2
  <1> QED
    BY <1>1, <1>2, <1>3, FreeAssumption

\* The parent of what is appended.
LEMMA FrontOfAppend ==
    ASSUME NEW p \in Paths, NEW name \in Names
    PROVE  Front(Append(p, name)) = p
  <1>1. p \in Seq(Names)
    BY PathFacts
  <1>2. PICK len \in Nat : len = Len(p)
    BY <1>1, LenProperties
  <1>3. PICK q \in Seq(Names) : q = Append(p, name)
    BY <1>1, AppendProperties
  <1>4. Len(q) = len + 1 /\ \A i \in 1..len : q[i] = p[i]
    BY <1>1, <1>2, <1>3, AppendProperties
  <1>5. PICK r : r = SubSeq(q, 1, len)
    OBVIOUS
  <1>6. /\ r \in Seq(Names) /\ Len(r) = len
        /\ \A i \in 1..len : r[i] = q[i]
    <2>1. \A i \in 1..len : q[i] \in Names
      BY <1>2, <1>4, <1>1, ElementOfSeq
    <2>2. /\ r \in Seq(Names)
          /\ Len(r) = IF 1 <= len THEN len - 1 + 1 ELSE 0
          /\ \A i \in 1..(len - 1 + 1) : r[i] = q[1 + i - 1]
      BY <2>1, <1>5, SubSeqProperties
    <2> QED
      BY <2>2
  <1>7. r = p
    BY <1>1, <1>2, <1>4, <1>6, SeqEqual
  <1>8. Front(q) = SubSeq(q, 1, len)
    BY <1>2, <1>4 DEF Front
  <1> QED
    BY <1>3, <1>5, <1>7, <1>8

\* The parent of a path is a path, the root's is the root.
LEMMA FrontFacts ==
    ASSUME NEW p \in Paths
    PROVE  Front(p) \in Paths
  <1>1. p \in Seq(Names) /\ Len(p) \in 0..MaxDepth
    BY PathFacts
  <1>2. PICK len \in Nat : len = Len(p) /\ len <= MaxDepth
    BY <1>1, DepthAssumption
  <1>3. PICK r : r = SubSeq(p, 1, len - 1)
    OBVIOUS
  <1>4. \A i \in 1..(len - 1) : p[i] \in Names
    BY <1>1, <1>2, ElementOfSeq
  <1>5. r \in Seq(Names) /\ Len(r) = IF 1 <= len - 1 THEN len - 1 - 1 + 1 ELSE 0
    BY <1>2, <1>3, <1>4, SubSeqProperties
  <1>6. Len(r) <= MaxDepth
    BY <1>2, <1>5, DepthAssumption
  <1>7. r \in Paths
    BY <1>5, <1>6, PathFacts
  <1> QED
    BY <1>2, <1>3, <1>7 DEF Front

\* A set of numbers that can be reached from 0 one by one.
LEMMA Induct ==
    ASSUME NEW n \in Nat, NEW S, 0 \in S, \A k \in 1..n : k - 1 \in S => k \in S
    PROVE  0..n \subseteq S
  <1> DEFINE Below == {ss \in Nat \X Nat : ss[1] < ss[2]}
             T == (0..n) \ S
  <1> SUFFICES ASSUME T # {}
               PROVE  FALSE
    OBVIOUS
  <1>1. IsWellFoundedOn(Below, Nat)
    BY NatLessThanWellFounded DEF OpToRel
  <1>2. PICK x \in T : \A y \in T : ~(<<y, x>> \in Below)
    <2> HIDE DEF Below
    <2>1. T \subseteq Nat
      OBVIOUS
    <2> HIDE DEF T
    <2> QED
      BY <1>1, <2>1, WFMin
  <1>3. x \in 1..n /\ x - 1 \in 0..n /\ x - 1 < x
    OBVIOUS
  <1>4. x - 1 \notin S
    BY <1>3
  <1>5. <<x - 1, x>> \in Below
    BY <1>3
  <1>6. x - 1 \in T
    BY <1>3, <1>4
  <1> QED
    BY <1>2, <1>5, <1>6

\* find_next_available_spot finds a free slot if there is one.
LEMMA FreeSlotFacts ==
    ASSUME NEW table
    PROVE  FreeSlot(table) = 0 \/ (FreeSlot(table) \in Slots /\ table[FreeSlot(table)] = Free)
  <1> DEFINE free == {h \in Slots : table[h] = Free}
             Below == {ss \in Nat \X Nat : ss[1] < ss[2]}
  <1>1. free \subseteq Nat
    BY CapacityAssumption DEF Slots
  <1>2. ASSUME free # {} PROVE \E h \in free : \A g \in free : h <= g
    <2>1. IsWellFoundedOn(Below, Nat)
      BY NatLessThanWellFounded DEF OpToRel
    <2>2. PICK h \in free : \A g \in free : ~(<<g, h>> \in Below)
      <3> HIDE DEF Below, free
      <3> QED
        BY <1>1, <1>2, <2>1, WFMin
    <2>3. ASSUME NEW g \in free PROVE h <= g
      <3>1. g \in Nat /\ h \in Nat /\ ~(<<g, h>> \in Below)
        BY <1>1, <2>2
      <3>2. ~(g < h)
        BY <3>1
      <3> QED
        BY <3>1, <3>2
    <2> QED
      BY <2>3
  <1> QED
    BY <1>2 DEF FreeSlot

-----------------------------------------------------------------------------
(* Walks.                                                                   *)

\* A call that throws.
LEMMA ThrownIs ==
    ASSUME NEW w, WalkOK(w)
    PROVE  Thrown(w) = [objects |-> w.objects, paths |-> w.paths, at |-> w.at,
                        threw |-> TRUE, deep |-> w.deep]
  <1>1. w = [objects |-> w.objects, paths |-> w.paths, at |-> w.at, threw |-> w.threw,
             deep |-> w.deep]
    BY DEF WalkOK
  <1>2. w.threw \in BOOLEAN /\ w.deep \in BOOLEAN
    BY DEF WalkOK
  <1>3. PICK u : u = Thrown(w)
    OBVIOUS
  <1>4. u = [w EXCEPT !.threw = TRUE]
    BY <1>3 DEF Thrown
  <1> QED
    BY <1>1, <1>2, <1>3, <1>4

\* allocate_new, for a child of the object the walk is at.
LEMMA AllocateOK ==
    ASSUME NEW w, WalkOK(w), NEW q \in Paths, w.objects[w.at] = q,
           NEW name \in Names, NEW p \in Paths, p = Append(q, name), w.paths[p] = 0
    PROVE  WalkOK(Allocate(w, p)) /\ IsAt(Allocate(w, p), p)
  <1>1. PICK objs : objs = w.objects
    OBVIOUS
  <1>2. PICK index : index = w.paths
    OBVIOUS
  <1>3. PICK h : h = FreeSlot(objs)
    OBVIOUS
  <1>4. /\ Tables(objs, index) /\ Listed(objs, index)
        /\ w = [objects |-> objs, paths |-> index, at |-> w.at, threw |-> w.threw,
                deep |-> w.deep]
        /\ w.at \in Slots /\ w.threw \in BOOLEAN /\ w.deep \in BOOLEAN
    BY <1>1, <1>2 DEF WalkOK
  <1>5. FreeSlot(w.objects) = h
    BY <1>1, <1>3
  <1>6. Allocate(w, p) = IF h = 0 THEN Thrown(w)
                         ELSE [w EXCEPT !.objects[h] = p, !.paths[p] = h, !.at = h]
    BY <1>5 DEF Allocate
  <1>7. CASE h = 0
    <2>1. Allocate(w, p) = [objects |-> objs, paths |-> index, at |-> w.at,
                            threw |-> TRUE, deep |-> w.deep]
      <3>1. Allocate(w, p) = Thrown(w)
        BY <1>6, <1>7
      <3> QED
        BY <1>1, <1>2, <3>1, ThrownIs
    <2> QED
      BY <1>1, <1>2, <1>4, <2>1 DEF WalkOK, IsAt
  <1>8. CASE h # 0
    <2>1. h \in Slots /\ objs[h] = Free
      BY <1>3, <1>8, FreeSlotFacts
    <2>2. PICK objs2 : objs2 = [objs EXCEPT ![h] = p]
      OBVIOUS
    <2>3. PICK index2 : index2 = [index EXCEPT ![p] = h]
      OBVIOUS
    <2>4. PICK u : u = [objects |-> objs2, paths |-> index2, at |-> h,
                        threw |-> w.threw, deep |-> w.deep]
      OBVIOUS
    <2>5. Allocate(w, p) = u
      BY <1>1, <1>2, <1>4, <1>6, <1>8, <2>2, <2>3, <2>4
    <2>6. /\ \A g \in Slots : objs2[g] = IF g = h THEN p ELSE objs[g]
          /\ \A r \in Paths : index2[r] = IF r = p THEN h ELSE index[r]
          /\ objs2 \in [Slots -> Paths \cup {Free}]
      BY <1>4, <2>1, <2>2, <2>3 DEF Tables
    <2>7. h \in 0..Capacity /\ h # 0 /\ m_root \in Slots
      BY <2>1, CapacityAssumption DEF Slots, m_root
    <2>8. Tables(objs2, index2)
      BY <1>4, <2>3, <2>6, <2>7 DEF Tables
    <2>9. h # m_root /\ index[p] = 0
      BY <1>2, <1>4, <2>1, PathFacts DEF Listed
    <2>10. Front(p) = q /\ (q = Root \/ (index[q] # 0 /\ q # p))
      <3>1. Front(p) = q
        BY FrontOfAppend
      <3>2. w.at # m_root => index[q] = w.at /\ w.at # 0
        BY <1>1, <1>4, PathFacts, CapacityAssumption DEF Listed, Slots
      <3> QED
        BY <1>1, <1>4, <2>9, <3>1, <3>2 DEF Listed
    <2>11. ASSUME NEW g \in Slots, objs2[g] # Free, g # m_root
           PROVE  /\ index2[objs2[g]] = g
                  /\ Front(objs2[g]) = Root \/ index2[Front(objs2[g])] # 0
      <3>1. CASE g = h
        BY <2>6, <2>10, <3>1
      <3>2. CASE g # h
        <4>1. PICK r \in Paths : r = objs[g] /\ r = objs2[g]
          BY <1>4, <2>6, <2>11, <3>2 DEF Tables
        <4>2. index[r] = g /\ (Front(r) = Root \/ index[Front(r)] # 0)
          BY <1>4, <2>11, <4>1, PathFacts DEF Listed
        <4>3. g # 0
          BY CapacityAssumption DEF Slots
        <4>4. r # p /\ Front(r) \in Paths
          BY <2>9, <4>2, <4>3, FrontFacts
        <4> QED
          BY <2>6, <2>7, <4>1, <4>2, <4>4
      <3> QED
        BY <3>1, <3>2
    <2>12. Listed(objs2, index2)
      BY <1>4, <2>6, <2>7, <2>9, <2>11 DEF Listed
    <2>13. \A r \in Paths : paths[r] = 0 /\ index2[r] # 0 => objs2[index2[r]] = r
      <3>1. ASSUME NEW r \in Paths, paths[r] = 0, index2[r] # 0
            PROVE  objs2[index2[r]] = r
        <4>1. CASE r = p
          BY <2>1, <2>6, <4>1
        <4>2. CASE r # p
          <5>1. PICK g : g = index[r] /\ g = index2[r]
            BY <2>6, <4>2
          <5>2. g \in Slots
            <6>1. g \in 0..Capacity /\ g # 0
              BY <1>4, <3>1, <5>1 DEF Tables
            <6> QED
              BY <6>1, CapacityAssumption DEF Slots
          <5>3. objs[g] = r
            BY <1>1, <1>2, <3>1, <5>1 DEF WalkOK
          <5>4. g # h
            BY <2>1, <5>3, PathFacts
          <5> QED
            BY <2>6, <5>1, <5>2, <5>3, <5>4
        <4> QED
          BY <4>1, <4>2
      <3> QED
        BY <3>1
    <2>14. /\ \A r \in Paths : paths[r] # 0 => index2[r] = paths[r]
           /\ \A g \in Slots : objects[g] # Free => objs2[g] = objects[g]
      BY <1>1, <1>2, <2>1, <2>6, <2>9 DEF WalkOK
    <2>15. WalkOK(u)
      BY <1>4, <2>1, <2>4, <2>8, <2>12, <2>14, <2>13 DEF WalkOK
    <2>16. IsAt(u, p)
      BY <2>1, <2>4, <2>6 DEF IsAt
    <2> QED
      BY <2>5, <2>15, <2>16
  <1> QED
    BY <1>7, <1>8

\* get_or_create_child: the walk gets to the child, if the index does not have
\* the handle of another object for it.
LEMMA ChildOK ==
    ASSUME NEW w, WalkOK(w), NEW name \in Names
    PROVE  /\ WalkOK(Child(w, name))
           /\ \A q \in Paths :
                 IsAt(w, q) /\ ~(paths[Append(q, name)] # 0
                                  /\ objects[paths[Append(q, name)]] # Append(q, name))
                    => IsAt(Child(w, name), Append(q, name))
  <1>1. PICK u : u = Child(w, name)
    OBVIOUS
  <1>2. PICK x : x = w.objects[w.at]
    OBVIOUS
  <1>3. /\ Tables(w.objects, w.paths) /\ Listed(w.objects, w.paths)
        /\ w = [objects |-> w.objects, paths |-> w.paths, at |-> w.at, threw |-> w.threw,
                deep |-> w.deep]
        /\ w.at \in Slots /\ w.threw \in BOOLEAN /\ w.deep \in BOOLEAN
    BY DEF WalkOK
  <1>4. CASE w.threw \/ w.deep
    <2>1. u = w
      BY <1>1, <1>4 DEF Child
    <2> QED
      BY <1>1, <1>4, <2>1 DEF IsAt
  <1>5. CASE ~w.threw /\ ~w.deep /\ x = Free
    <2>1. u = [objects |-> w.objects, paths |-> w.paths, at |-> w.at, threw |-> TRUE,
               deep |-> w.deep]
      BY <1>1, <1>2, <1>3, <1>5 DEF Child, Thrown
    <2> QED
      BY <1>1, <1>3, <2>1 DEF WalkOK, IsAt
  <1>6. CASE ~w.threw /\ ~w.deep /\ x # Free /\ Append(x, name) \notin Paths
    <2>1. u = [objects |-> w.objects, paths |-> w.paths, at |-> w.at,
               threw |-> w.threw, deep |-> TRUE]
      BY <1>1, <1>2, <1>3, <1>6 DEF Child
    <2> QED
      BY <1>1, <1>3, <2>1 DEF WalkOK, IsAt
  <1>7. CASE ~w.threw /\ ~w.deep /\ x # Free /\ Append(x, name) \in Paths
    <2>1. PICK p \in Paths : p = Append(x, name)
      BY <1>7
    <2>2. x \in Paths
      BY <1>2, <1>3, <1>7 DEF Tables
    <2>3. \A q \in Paths : IsAt(w, q) => q = x
      BY <1>2, <1>7 DEF IsAt
    <2>4. CASE w.paths[p] = 0
      <3>1. u = Allocate(w, p)
        BY <1>1, <1>2, <1>7, <2>1, <2>4 DEF Child
      <3>2. WalkOK(u) /\ IsAt(u, p)
        BY <1>2, <2>1, <2>2, <2>4, <3>1, AllocateOK
      <3> QED
        BY <1>1, <2>1, <2>3, <3>2
    <2>5. CASE w.paths[p] # 0
      <3>1. PICK h : h = w.paths[p]
        OBVIOUS
      <3>2. u = [objects |-> w.objects, paths |-> w.paths, at |-> h,
                 threw |-> w.threw, deep |-> w.deep]
        BY <1>1, <1>2, <1>3, <1>7, <2>1, <2>5, <3>1 DEF Child
      <3>3. h \in Slots
        BY <1>3, <2>5, <3>1, CapacityAssumption DEF Tables, Slots
      <3>4. WalkOK(u)
        BY <1>3, <3>2, <3>3 DEF WalkOK
      <3>5. ASSUME ~(paths[p] # 0 /\ objects[paths[p]] # p)
            PROVE  IsAt(u, p)
        <4>1. CASE paths[p] = 0
          <5>1. w.objects[h] = p
            BY <2>5, <3>1, <4>1 DEF WalkOK
          <5> QED
            BY <3>2, <5>1 DEF IsAt
        <4>2. CASE paths[p] # 0
          <5>1. h = paths[p] /\ objects[h] = p
            BY <2>1, <3>1, <3>5, <4>2 DEF WalkOK
          <5>2. w.objects[h] = p
            BY <3>3, <5>1, PathFacts DEF WalkOK
          <5> QED
            BY <3>2, <5>2 DEF IsAt
        <4> QED
          BY <4>1, <4>2
      <3> QED
        BY <1>1, <2>1, <2>3, <3>4, <3>5
    <2> QED
      BY <2>4, <2>5
  <1> QED
    BY <1>2, <1>4, <1>5, <1>6, <1>7

\* The walk to p is one step for each of its names.
LEMMA WalkPasses ==
    ASSUME NEW p, NEW n \in Nat, n = Len(p)
    PROVE  \E f : /\ Walk(p) = f[n] /\ f[0] = Start(m_root)
                  /\ \A k \in 1..n : f[k] = Child(f[k - 1], p[k])
  <1> DEFINE Is(g, m) ==
                g = [k \in 0..m |-> IF k = 0 THEN Start(m_root) ELSE Child(g[k - 1], p[k])]
  <1>1. PICK f : f = CHOOSE g : Is(g, n)
    OBVIOUS
  <1>2. Walk(p) = f[n]
    BY <1>1 DEF Walk
  <1>3. \E g : Is(g, n)
    <2> DEFINE S == {m \in 0..n : \E g : Is(g, m)}
    <2>1. 0 \in S
      <3>1. Is([k \in 0..0 |-> Start(m_root)], 0)
        OBVIOUS
      <3> HIDE DEF Is
      <3> QED
        BY <3>1
    <2>2. ASSUME NEW k \in 1..n, k - 1 \in S
          PROVE  k \in S
      <3>1. PICK g : Is(g, k - 1)
        BY <2>2
      <3>2. PICK x : x = Child(g[k - 1], p[k])
        OBVIOUS
      <3>3. PICK f2 : f2 = [i \in 0..k |-> IF i = k THEN x ELSE g[i]]
        OBVIOUS
      <3>4. \A i \in 0..(k - 1) :
               g[i] = IF i = 0 THEN Start(m_root) ELSE Child(g[i - 1], p[i])
        BY <3>1
      <3>5. \A i \in 0..(k - 1) : f2[i] = g[i]
        BY <3>3
      <3>6. f2[k] = x /\ k # 0 /\ k - 1 \in 0..(k - 1)
        BY <3>3
      <3>7. ASSUME NEW i \in 0..k
            PROVE  f2[i] = IF i = 0 THEN Start(m_root) ELSE Child(f2[i - 1], p[i])
        <4>1. CASE i = k
          BY <3>2, <3>5, <3>6, <4>1
        <4>2. CASE i # k
          <5>1. i \in 0..(k - 1) /\ (i # 0 => i - 1 \in 0..(k - 1))
            BY <4>2
          <5> QED
            BY <3>4, <3>5, <5>1
        <4> QED
          BY <4>1, <4>2
      <3>8. Is(f2, k)
        BY <3>3, <3>7
      <3> QED
        BY <3>8
    <2> HIDE DEF S
    <2>3. 0..n \subseteq S
      BY <2>1, <2>2, Induct
    <2>4. n \in S
      BY <2>3
    <2> QED
      BY <2>4 DEF S
  <1>4. Is(f, n)
    <2> HIDE DEF Is
    <2> QED
      BY <1>1, <1>3
  <1>5. f[0] = Start(m_root) /\ \A k \in 1..n : f[k] = Child(f[k - 1], p[k])
    BY <1>4
  <1> QED
    BY <1>2, <1>5

\* A call begins with the tables as they are.
LEMMA StartOK ==
    ASSUME IInv, NEW h \in Slots
    PROVE  WalkOK(Start(h)) /\ IsAt(Start(h), objects[h])
  BY DEF IInv, WalkOK, IsAt, Start

\* The beginnings of a path.
LEMMA Beginnings ==
    ASSUME NEW p \in Paths, NEW n \in Nat, n = Len(p)
    PROVE  /\ SubSeq(p, 1, 0) = Root /\ SubSeq(p, 1, n) = p
           /\ \A k \in 0..n : SubSeq(p, 1, k) \in Paths
           /\ \A k \in 1..n : /\ p[k] \in Names
                              /\ Append(SubSeq(p, 1, k - 1), p[k]) = SubSeq(p, 1, k)
  <1>1. p \in Seq(Names) /\ n <= MaxDepth /\ MaxDepth \in Nat
    BY PathFacts, DepthAssumption
  <1>2. SubSeq(p, 1, 0) = Root
    BY SubSeqEmpty DEF Root
  <1>3. SubSeq(p, 1, n) = p
    BY <1>1, SubSeqFull
  <1>4. \A k \in 1..n : p[k] \in Names
    BY <1>1, ElementOfSeq
  <1>5. ASSUME NEW k \in 0..n
        PROVE  /\ SubSeq(p, 1, k) \in Seq(Names) /\ Len(SubSeq(p, 1, k)) = k
               /\ \A i \in 1..k : SubSeq(p, 1, k)[i] = p[i]
    <2>1. \A i \in 1..k : p[i] \in Names
      BY <1>4
    <2>2. /\ SubSeq(p, 1, k) \in Seq(Names)
          /\ Len(SubSeq(p, 1, k)) = IF 1 <= k THEN k - 1 + 1 ELSE 0
          /\ \A i \in 1..(k - 1 + 1) : SubSeq(p, 1, k)[i] = p[1 + i - 1]
      BY <2>1, SubSeqProperties
    <2> QED
      BY <2>2
  <1>6. \A k \in 0..n : SubSeq(p, 1, k) \in Paths
    <2>1. ASSUME NEW k \in 0..n PROVE SubSeq(p, 1, k) \in Paths
      <3>1. PICK q \in Seq(Names) : q = SubSeq(p, 1, k) /\ Len(q) = k
        BY <1>5
      <3>2. Len(q) <= MaxDepth
        BY <1>1, <3>1
      <3>3. q \in Paths
        BY <3>2, PathFacts
      <3> QED
        BY <3>1, <3>3
    <2> QED
      BY <2>1
  <1>7. ASSUME NEW k \in 1..n
        PROVE  Append(SubSeq(p, 1, k - 1), p[k]) = SubSeq(p, 1, k)
    <2>1. PICK j : j = k - 1
      OBVIOUS
    <2>2. j \in 0..n /\ k \in 0..n /\ k = j + 1
      BY <2>1
    <2>3. PICK q \in Seq(Names) :
             /\ q = SubSeq(p, 1, j) /\ Len(q) = j /\ \A i \in 1..j : q[i] = p[i]
      BY <1>5, <2>2
    <2>4. PICK r \in Seq(Names) :
             /\ r = SubSeq(p, 1, k) /\ Len(r) = k /\ \A i \in 1..k : r[i] = p[i]
      BY <1>5, <2>2
    <2>5. PICK a \in Names : a = p[k]
      BY <1>4
    <2>6. PICK s \in Seq(Names) : s = Append(q, a)
      BY AppendProperties
    <2>7. Len(s) = k /\ s[k] = a /\ \A i \in 1..j : s[i] = q[i]
      BY <2>2, <2>3, <2>6, AppendProperties
    <2>8. \A i \in 1..k : s[i] = r[i]
      BY <2>2, <2>3, <2>4, <2>5, <2>7
    <2>9. s = r
      BY <2>4, <2>7, <2>8, SeqEqual
    <2> QED
      BY <2>1, <2>3, <2>4, <2>5, <2>6, <2>9
  <1> QED
    BY <1>2, <1>3, <1>4, <1>6, <1>7

\* get_or_create_object: it only adds to the tables, and gets to p if the index
\* has no stale handle on the way.
LEMMA WalkGets ==
    ASSUME IInv, NEW p \in Paths
    PROVE  WalkOK(Walk(p)) /\ (~Stale(p) => IsAt(Walk(p), p))
  <1>1. PICK n \in Nat : n = Len(p) /\ DOMAIN p = 1..n
    BY PathFacts, LenProperties
  <1>2. PICK f : /\ Walk(p) = f[n] /\ f[0] = Start(m_root)
                 /\ \A k \in 1..n : f[k] = Child(f[k - 1], p[k])
    BY <1>1, WalkPasses
  <1>3. m_root \in Slots
    BY CapacityAssumption DEF m_root, Slots
  <1>4. WalkOK(f[0]) /\ IsAt(f[0], Root)
    BY <1>2, <1>3, StartOK DEF IInv, Listed
  <1>5. ASSUME NEW k \in 1..n
        PROVE  /\ p[k] \in Names /\ SubSeq(p, 1, k - 1) \in Paths
               /\ Append(SubSeq(p, 1, k - 1), p[k]) = SubSeq(p, 1, k)
    <2>1. k - 1 \in 0..n
      OBVIOUS
    <2> QED
      BY <1>1, <2>1, Beginnings
  <1> DEFINE S == {k \in 0..n : WalkOK(f[k]) /\ (~Stale(p) => IsAt(f[k], SubSeq(p, 1, k)))}
  <1>6. 0 \in S
    <2>1. SubSeq(p, 1, 0) = Root /\ 0 \in 0..n
      BY <1>1, Beginnings
    <2>2. WalkOK(f[0]) /\ IsAt(f[0], SubSeq(p, 1, 0))
      BY <1>4, <2>1
    <2> QED
      BY <2>1, <2>2
  <1>7. ASSUME NEW k \in 1..n, k - 1 \in S
        PROVE  k \in S
    <2>1. PICK w : w = f[k - 1]
      OBVIOUS
    <2>2. PICK q \in Paths : q = SubSeq(p, 1, k - 1)
      BY <1>5
    <2>3. WalkOK(w) /\ (~Stale(p) => IsAt(w, q))
      BY <1>7, <2>1, <2>2
    <2>4. f[k] = Child(w, p[k]) /\ Append(q, p[k]) = SubSeq(p, 1, k) /\ p[k] \in Names
      BY <1>2, <1>5, <2>1, <2>2
    <2>5. ~Stale(p) => ~(paths[Append(q, p[k])] # 0
                         /\ objects[paths[Append(q, p[k])]] # Append(q, p[k]))
      BY <1>1, <2>4 DEF Stale
    <2>6. WalkOK(f[k]) /\ (~Stale(p) => IsAt(f[k], SubSeq(p, 1, k)))
      BY <2>3, <2>4, <2>5, ChildOK
    <2> QED
      BY <2>6
  <1> HIDE DEF S
  <1>8. 0..n \subseteq S
    BY <1>6, <1>7, Induct
  <1>9. WalkOK(f[n]) /\ (~Stale(p) => IsAt(f[n], SubSeq(p, 1, n)))
    BY <1>8 DEF S
  <1> QED
    BY <1>1, <1>2, <1>9, Beginnings

-----------------------------------------------------------------------------
(* The calls.                                                               *)

\* A call that ends with the tables of a walk, and leaves the entries alone.
LEMMA WalkStep ==
    ASSUME IInv, NEW w, WalkOK(w), Ends(w), entries' = entries
    PROVE  IInv'
  <1>1. objects' = w.objects /\ paths' = w.paths
    BY DEF Ends
  <1>2. Tables(objects', paths') /\ Listed(objects', paths')
    BY <1>1 DEF WalkOK
  <1>3. \A p \in Paths : paths[p] # 0 => paths'[p] # 0
    BY <1>1 DEF WalkOK
  <1>4. Parents(paths)'
    BY <1>3, FrontFacts DEF IInv, Parents
  <1> QED
    BY <1>2, <1>4 DEF IInv

\* get_entry of a path that was not led astray gives an entry with a parent.
LEMMA GetEntryStep ==
    ASSUME IInv, NEW p \in Paths, GetEntry(p)
    PROVE  IInv'
  <1>1. PICK q \in Paths : q = Front(p)
    BY FrontFacts
  <1>2. PICK w : w = Walk(q)
    OBVIOUS
  <1>3. Hierarchy(p) = w
    BY <1>1, <1>2 DEF Hierarchy
  <1>4. /\ Ends(w)
        /\ IF w.threw THEN UNCHANGED entries
           ELSE EntryAt(p, IF Stale(q) THEN "astray" ELSE "given")
    BY <1>1, <1>3 DEF GetEntry
  <1>5. WalkOK(w) /\ (~Stale(q) => IsAt(w, q))
    BY <1>2, WalkGets
  <1>6. CASE w.threw
    BY <1>4, <1>5, <1>6, WalkStep
  <1>7. CASE ~w.threw
    <2>1. PICK how \in {"astray", "given"} :
             /\ entries' = [entries EXCEPT ![p] = how]
             /\ how = "given" => ~Stale(q)
      BY <1>4, <1>7 DEF EntryAt
    <2>2. objects' = w.objects /\ paths' = w.paths /\ ~w.deep
      BY <1>4 DEF Ends
    <2>3. Tables(objects', paths') /\ Listed(objects', paths')
      BY <1>5, <2>2 DEF WalkOK
    <2>4. entries' \in [Paths -> {"arrived", "given", "astray", Free}]
      BY <2>1 DEF IInv
    <2>5. \A r \in Paths : paths[r] # 0 => paths'[r] # 0
      BY <1>5, <2>2 DEF WalkOK
    <2>6. how = "given" => q = Root \/ paths'[q] # 0
      <3>1. ASSUME how = "given" PROVE w.objects[w.at] = q /\ w.at \in Slots
        BY <1>5, <1>7, <2>1, <2>2, <3>1 DEF IsAt, WalkOK
      <3>2. ASSUME how = "given", w.at # m_root PROVE paths'[q] # 0
        <4>1. PICK g \in Slots : g = w.at /\ objects'[g] = q
          BY <2>2, <3>1, <3>2
        <4>2. paths'[q] = g
          BY <2>3, <3>2, <4>1, PathFacts DEF Listed
        <4> QED
          BY <4>2, CapacityAssumption DEF Slots
      <3>3. ASSUME how = "given", w.at = m_root PROVE q = Root
        BY <2>2, <2>3, <3>1, <3>3 DEF Listed
      <3> QED
        BY <3>2, <3>3
    <2>7. ASSUME NEW r \in Paths, entries'[r] = "given"
          PROVE  Front(r) = Root \/ paths'[Front(r)] # 0
      <3>1. CASE r = p
        <4>1. how = "given"
          BY <2>1, <2>7, <3>1 DEF IInv
        <4> QED
          BY <1>1, <2>6, <3>1, <4>1
      <3>2. CASE r # p
        <4>1. entries[r] = "given"
          BY <2>1, <2>7, <3>2 DEF IInv
        <4> QED
          BY <2>5, <4>1, FrontFacts DEF IInv, Parents
      <3> QED
        BY <3>1, <3>2
    <2> QED
      BY <2>3, <2>4, <2>7 DEF IInv, Parents
  <1> QED
    BY <1>6, <1>7

\* The calls that only change entries.
LEMMA EntryStep ==
    ASSUME IInv, NEW p \in Paths, NEW how \in {"arrived", "given"}, EntryAt(p, how),
           UNCHANGED <<objects, paths>>,
           how = "given" => Front(p) = Root \/ paths[Front(p)] # 0
    PROVE  IInv'
  <1>1. entries' = [entries EXCEPT ![p] = how]
    BY DEF EntryAt
  <1>2. entries' \in [Paths -> {"arrived", "given", "astray", Free}]
    BY <1>1 DEF IInv
  <1>3. Parents(paths)'
    BY <1>1 DEF IInv, Parents
  <1> QED
    BY <1>2, <1>3 DEF IInv

\* get_entry in an object, which is the entry's parent.
LEMMA GetEntryInStep ==
    ASSUME IInv, NEW h \in Slots, NEW name \in Names, GetEntryIn(h, name)
    PROVE  IInv'
  <1>1. PICK q \in Paths : q = objects[h]
    BY DEF GetEntryIn, Used, IInv, Tables
  <1>2. PICK p \in Paths : p = Append(q, name) /\ EntryAt(p, "given")
    BY <1>1 DEF GetEntryIn
  <1>3. Front(p) = q
    BY <1>2, FrontOfAppend
  <1>4. q = Root \/ paths[q] # 0
    <2>1. h # m_root => paths[q] = h
      BY <1>1, PathFacts DEF IInv, Listed
    <2> QED
      BY <1>1, <2>1, CapacityAssumption DEF IInv, Listed, Slots
  <1> QED
    BY <1>2, <1>3, <1>4, EntryStep DEF GetEntryIn

\* delete_object leaves the index as it is, and the root.
LEMMA DeleteObjectStep ==
    ASSUME IInv, NEW h \in Slots, DeleteObject(h)
    PROVE  IInv'
  <1>1. h # m_root /\ objects' = [objects EXCEPT ![h] = Free] /\ UNCHANGED <<paths, entries>>
    BY DEF DeleteObject
  <1>2. m_root \in Slots
    BY CapacityAssumption DEF m_root, Slots
  <1>3. Tables(objects', paths')
    BY <1>1 DEF IInv, Tables
  <1>4. \A g \in Slots : objects'[g] = IF g = h THEN Free ELSE objects[g]
    BY <1>1 DEF IInv, Tables
  <1>5. Listed(objects', paths')
    BY <1>1, <1>2, <1>4 DEF IInv, Listed
  <1> QED
    BY <1>1, <1>3, <1>5 DEF IInv, Parents

-----------------------------------------------------------------------------
(* The theorems.                                                            *)

\* At first there is the root only.
LEMMA InitInv == Init => IInv
  <1> SUFFICES ASSUME Init PROVE IInv
    OBVIOUS
  <1>1. m_root \in Slots /\ 0 \in 0..Capacity
    BY CapacityAssumption DEF m_root, Slots
  <1>2. /\ objects \in [Slots -> Paths \cup {Free}] /\ paths \in [Paths -> 0..Capacity]
        /\ entries = [p \in Paths |-> Free]
    BY <1>1, PathFacts DEF Init
  <1>3. objects[m_root] = Root /\ \A h \in Slots : h # m_root => objects[h] = Free
    BY <1>1 DEF Init
  <1>4. \A p \in Paths : entries[p] # "given"
    <2>1. CASE Free # "given"
      BY <1>2, <2>1
    <2> QED
      BY <2>1, FreeAssumption
  <1> QED
    BY <1>2, <1>3, <1>4 DEF IInv, Tables, Listed, Parents

\* Every call preserves the invariant.
LEMMA StepInv == IInv /\ [Next]_vars => IInv'
  <1> SUFFICES ASSUME IInv, [Next]_vars PROVE IInv'
    OBVIOUS
  <1>1. ASSUME NEW p \in Paths, GetObject(p) PROVE IInv'
    BY <1>1, WalkGets, WalkStep DEF GetObject
  <1>2. ASSUME NEW p \in Paths, GetEntry(p) PROVE IInv'
    BY <1>2, GetEntryStep
  <1>3. ASSUME NEW p \in Paths, Arrives(p) PROVE IInv'
    BY <1>3, EntryStep DEF Arrives
  <1>4. ASSUME NEW h \in Slots, NEW name \in Names, GetChild(h, name) PROVE IInv'
    BY <1>4, StartOK, ChildOK, WalkStep DEF GetChild
  <1>5. ASSUME NEW h \in Slots, NEW name \in Names, GetEntryIn(h, name) PROVE IInv'
    BY <1>5, GetEntryInStep
  <1>6. ASSUME NEW h \in Slots, DeleteObject(h) PROVE IInv'
    BY <1>6, DeleteObjectStep
  <1>7. CASE UNCHANGED vars
    BY <1>7 DEF vars, IInv, Tables, Listed, Parents
  <1> QED
    BY <1>1, <1>2, <1>3, <1>4, <1>5, <1>6, <1>7 DEF Next

\* The tables of src/src/instance.cpp, of objects and of paths, always fit each
\* other as IInv says.
THEOREM Inductive == Spec => []IInv
  BY InitInv, StepInv, PTL DEF Spec

\* m_object_paths has the handle of every object but the root, so that no two
\* objects have the same path, whatever was deleted and whose slot was reused.
THEOREM ObjectsAlwaysListed == Spec => []ObjectsListed
  <1>1. IInv => ObjectsListed
    BY DEF IInv, Listed, ObjectsListed, Used
  <1> QED
    BY <1>1, Inductive, PTL

\* The assertions of get_parent_for_object and get_parent_for_entry hold of every
\* object, and of every entry get_entry answered with unless it was led astray.
THEOREM ParentsAlwaysListed == Spec => []ParentsListed
  <1>1. IInv => ParentsListed
    BY FrontFacts DEF IInv, Tables, Listed, Parents, ParentsListed, Used
  <1> QED
    BY <1>1, Inductive, PTL
============================================================================
