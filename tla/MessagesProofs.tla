---------------------------- MODULE MessagesProofs ----------------------------
(***************************************************************************)
(* Theorems about the messages between two programs, for any messages,     *)
(* values and sizes: the parser reads every message to its end, what is    *)
(* heard is what was meant, and nothing that waits is overtaken.           *)
(*                                                                         *)
(* First what is read back of what was written, cell by cell, then that    *)
(* each state of the parser reads what the serializer has put there, then  *)
(* the order of the messages on their way.                                 *)
(***************************************************************************)
EXTENDS Messages, SequenceTheorems, WellFoundedInduction, TLAPS

-----------------------------------------------------------------------------
(* Cells, and reading them back.                                            *)

Piece == Int \cup Types
CellType == [width : Nat, pieces : Seq(Piece)]

\* Numbers are sequences of pieces.
LEMMA WordFacts ==
    /\ \A n \in Nat : \A w \in Words(n) : w \in Seq(Piece) /\ Len(w) = n
    /\ \A type \in Types : <<type>> \in Seq(Piece)
    /\ \A n \in Nat : <<n>> \in Seq(Piece)
  <1>1. ASSUME NEW n \in Nat, NEW w \in Words(n)
        PROVE  w \in Seq(Piece) /\ Len(w) = n
    <2>1. w \in [1..n -> Piece]
      BY DEF Words, Piece
    <2>2. w \in Seq(Piece)
      BY <2>1
    <2> QED
      BY <2>1, <2>2, LenProperties
  <1>2. \A type \in Types : <<type>> \in Seq(Piece)
    BY DEF Piece
  <1>3. \A n \in Nat : <<n>> \in Seq(Piece)
    BY DEF Piece
  <1> QED
    BY <1>1, <1>2, <1>3

\* What net turned round, host turns back.
LEMMA HostOfNet ==
    ASSUME NEW w \in Seq(Piece)
    PROVE  net(w) \in Seq(Piece) /\ Len(net(w)) = Len(w) /\ host(net(w)) = w
  <1>1. PICK n \in Nat : n = Len(w)
    BY LenProperties
  <1>2. PICK r : r = [i \in 1..n |-> w[(n - i) + 1]]
    OBVIOUS
  <1>3. net(w) = r
    BY <1>1, <1>2 DEF net, Reverse
  <1>4. \A i \in 1..n : (n - i) + 1 \in 1..n /\ (n - ((n - i) + 1)) + 1 = i
    OBVIOUS
  <1>5. \A i \in 1..n : w[i] \in Piece
    BY <1>1, ElementOfSeq
  <1>6. r \in [1..n -> Piece]
    BY <1>2, <1>4, <1>5
  <1>7. r \in Seq(Piece) /\ Len(r) = n
    <2>1. r \in Seq(Piece)
      BY <1>6
    <2> QED
      BY <1>6, <2>1, LenProperties
  <1>8. host(r) = [i \in 1..n |-> r[(n - i) + 1]]
    BY <1>7 DEF host, Reverse
  <1>9. \A i \in 1..n : r[(n - i) + 1] = w[i]
    BY <1>2, <1>4
  <1>10. w = [i \in 1..n |-> w[i]]
    BY <1>1, LenProperties
  <1> QED
    BY <1>1, <1>3, <1>7, <1>8, <1>9, <1>10

\* A number is one cell.
LEMMA CellFacts ==
    ASSUME NEW width \in Nat, NEW w \in Seq(Piece)
    PROVE  /\ Cell(width, w) \in Seq(CellType) /\ Len(Cell(width, w)) = 1
           /\ Cell(width, w)[1] = [width |-> width, pieces |-> net(w)]
  <1>1. PICK c : c = [width |-> width, pieces |-> net(w)]
    OBVIOUS
  <1>2. c \in CellType
    BY <1>1, HostOfNet DEF CellType
  <1> QED
    BY <1>1, <1>2 DEF Cell

\* The first and the rest of a sequence put together.
LEMMA ConcatFacts ==
    ASSUME NEW a \in Seq(CellType), NEW b \in Seq(CellType)
    PROVE  /\ a \o b \in Seq(CellType) /\ Len(a \o b) = Len(a) + Len(b)
           /\ \A i \in 1..Len(a) : (a \o b)[i] = a[i]
           /\ \A i \in 1..Len(b) : (a \o b)[Len(a) + i] = b[i]
           /\ SubSeq(a \o b, Len(a) + 1, Len(a \o b)) = b
  <1>1. PICK n \in Nat, m \in Nat : n = Len(a) /\ m = Len(b)
    BY LenProperties
  <1>2. PICK s \in Seq(CellType) : s = a \o b
    BY ConcatProperties
  <1>3. /\ Len(s) = n + m
        /\ \A i \in 1..(n + m) : s[i] = IF i <= n THEN a[i] ELSE b[i - n]
    BY <1>1, <1>2, ConcatProperties
  <1>4. \A i \in 1..n : s[i] = a[i]
    BY <1>1, <1>3
  <1>5. PICK r : r = SubSeq(s, n + 1, n + m)
    OBVIOUS
  <1>6. \A i \in (n + 1)..(n + m) : s[i] \in CellType
    BY <1>2, <1>3, ElementOfSeq
  <1>7. /\ r \in Seq(CellType)
        /\ Len(r) = IF n + 1 <= n + m THEN (n + m) - (n + 1) + 1 ELSE 0
        /\ \A i \in 1..((n + m) - (n + 1) + 1) : r[i] = s[(n + 1) + i - 1]
    BY <1>5, <1>6, SubSeqProperties
  <1>8. Len(r) = m /\ \A i \in 1..m : r[i] = s[n + i]
    <2>1. (n + m) - (n + 1) + 1 = m /\ (n + 1 <= n + m <=> 1 <= m)
      OBVIOUS
    <2>2. ASSUME NEW i \in 1..m PROVE r[i] = s[n + i]
      <3>1. r[i] = s[(n + 1) + i - 1]
        BY <1>7, <2>1
      <3>2. (n + 1) + i - 1 = n + i
        OBVIOUS
      <3> QED
        BY <3>1, <3>2
    <2>3. Len(r) = m
      BY <1>7, <2>1
    <2> QED
      BY <2>2, <2>3
  <1>9. \A i \in 1..m : r[i] = b[i]
    <2>1. \A i \in 1..m : n + i \in 1..(n + m) /\ ~(n + i <= n) /\ (n + i) - n = i
      OBVIOUS
    <2> QED
      BY <1>3, <1>8, <2>1
  <1>10. r = b
    BY <1>1, <1>7, <1>8, <1>9, SeqEqual
  <1> QED
    BY <1>1, <1>2, <1>3, <1>4, <1>5, <1>8, <1>9, <1>10

\* A number is read as it was written.
LEMMA NumberRead ==
    ASSUME NEW width \in Nat, NEW w \in Seq(Piece), NEW b \in Seq(CellType),
           NEW cells, cells = Cell(width, w) \o b
    PROVE  NumberIsThere(width, cells) /\ Number(cells) = w
  <1>1. PICK a \in Seq(CellType) : a = Cell(width, w)
    BY CellFacts
  <1>2. Len(a) = 1 /\ a[1] = [width |-> width, pieces |-> net(w)]
    BY <1>1, CellFacts
  <1>3. PICK m \in Nat : m = Len(b)
    BY LenProperties
  <1>4. cells \in Seq(CellType) /\ Len(cells) = 1 + m /\ cells[1] = a[1]
    <2>1. /\ cells \in Seq(CellType) /\ Len(cells) = Len(a) + Len(b)
          /\ \A i \in 1..Len(a) : cells[i] = a[i]
      BY <1>1, ConcatFacts
    <2> QED
      BY <1>2, <1>3, <2>1
  <1>5. cells # <<>>
    BY <1>4, EmptySeq
  <1> QED
    BY <1>2, <1>4, <1>5, HostOfNet DEF NumberIsThere, Number

\* What is counted: a counter, and a cell for each.
LEMMA CountedFacts ==
    ASSUME NEW width \in Nat, NEW s \in Seq(Seq(Piece))
    PROVE  /\ Counter(Len(s)) \o Cells(width, s) \in Seq(CellType)
           /\ Len(Counter(Len(s)) \o Cells(width, s)) = 1 + Len(s)
           /\ (Counter(Len(s)) \o Cells(width, s))[1] = [width |-> 1, pieces |-> <<Len(s)>>]
           /\ \A i \in 1..Len(s) : (Counter(Len(s)) \o Cells(width, s))[i + 1]
                                      = [width |-> width, pieces |-> net(s[i])]
  <1>1. PICK n \in Nat : n = Len(s)
    BY LenProperties
  <1>2. \A i \in 1..n : s[i] \in Seq(Piece)
    BY <1>1, ElementOfSeq
  <1>3. PICK a \in Seq(CellType) : a = Counter(n)
    BY WordFacts, CellFacts DEF Counter
  <1>4. Len(a) = 1 /\ a[1] = [width |-> 1, pieces |-> <<n>>]
    <2>1. net(<<n>>) = <<n>>
      BY DEF net, Reverse
    <2>2. <<n>> \in Seq(Piece)
      BY WordFacts
    <2> QED
      BY <1>3, <2>1, <2>2, CellFacts DEF Counter
  <1>5. PICK b : b = Cells(width, s)
    OBVIOUS
  <1>6. b = [i \in 1..n |-> [width |-> width, pieces |-> net(s[i])]]
    <2>1. DOMAIN s = 1..n
      BY <1>1, LenProperties
    <2>2. \A i \in 1..n : Cell(width, s[i])[1] = [width |-> width, pieces |-> net(s[i])]
      BY <1>2, CellFacts
    <2> QED
      BY <1>5, <2>1, <2>2 DEF Cells
  <1>7. \A i \in 1..n : [width |-> width, pieces |-> net(s[i])] \in CellType
    BY <1>2, HostOfNet DEF CellType
  <1>8. b \in [1..n -> CellType]
    BY <1>6, <1>7
  <1>9. b \in Seq(CellType) /\ Len(b) = n
    <2>1. b \in Seq(CellType)
      BY <1>8
    <2> QED
      BY <1>8, <2>1, LenProperties
  <1>10. PICK c \in Seq(CellType) : c = a \o b
    BY <1>9, ConcatProperties
  <1>11. /\ Len(c) = 1 + n
         /\ \A i \in 1..1 : c[i] = a[i]
         /\ \A i \in 1..n : c[1 + i] = b[i]
    <2>1. /\ Len(a \o b) = Len(a) + Len(b)
          /\ \A i \in 1..Len(a) : (a \o b)[i] = a[i]
          /\ \A i \in 1..Len(b) : (a \o b)[Len(a) + i] = b[i]
      BY <1>9, ConcatFacts
    <2> QED
      BY <1>4, <1>9, <1>10, <2>1
  <1>12. c[1] = a[1] /\ \A i \in 1..n : c[i + 1] = b[i]
    <2>1. 1 \in 1..1 /\ \A i \in 1..n : i + 1 = 1 + i
      OBVIOUS
    <2> QED
      BY <1>11, <2>1
  <1>13. c = Counter(Len(s)) \o Cells(width, s)
    BY <1>1, <1>3, <1>5, <1>10
  <1>14. \A i \in 1..n : c[i + 1] = [width |-> width, pieces |-> net(s[i])]
    BY <1>6, <1>12
  <1>15. Len(c) = 1 + n /\ c[1] = [width |-> 1, pieces |-> <<n>>]
    BY <1>4, <1>11, <1>12
  <1> QED
    BY <1>1, <1>13, <1>14, <1>15

\* What the counter says.
CountIn(cells) == cells[1].pieces[1]

\* What was counted is read as it was written.
LEMMA CountedRead ==
    ASSUME NEW width \in Nat, NEW s \in Seq(Seq(Piece)), NEW b \in Seq(CellType),
           NEW cells, cells = (Counter(Len(s)) \o Cells(width, s)) \o b
    PROVE  /\ CountedAre(width, cells) /\ CountedIn(cells) = s
           /\ CountIn(cells) = Len(s)
  <1>1. PICK n \in Nat : n = Len(s) /\ s \in [1..n -> Seq(Piece)]
    BY LenProperties
  <1>2. PICK a : a = Counter(n) \o Cells(width, s)
    OBVIOUS
  <1>3. /\ a \in Seq(CellType) /\ Len(a) = 1 + n
        /\ a[1] = [width |-> 1, pieces |-> <<n>>]
        /\ \A i \in 1..n : a[i + 1] = [width |-> width, pieces |-> net(s[i])]
    BY <1>1, <1>2, CountedFacts
  <1>4. PICK l \in Nat : l = Len(b)
    BY LenProperties
  <1>5. /\ cells \in Seq(CellType) /\ Len(cells) = (1 + n) + l
        /\ \A i \in 1..(1 + n) : cells[i] = a[i]
    <2>1. cells = a \o b
      BY <1>1, <1>2
    <2>2. /\ a \o b \in Seq(CellType) /\ Len(a \o b) = Len(a) + Len(b)
          /\ \A i \in 1..Len(a) : (a \o b)[i] = a[i]
      BY <1>3, ConcatFacts
    <2> QED
      BY <1>3, <1>4, <2>1, <2>2
  <1>6. cells[1] = [width |-> 1, pieces |-> <<n>>]
    <2>1. 1 \in 1..(1 + n)
      OBVIOUS
    <2> QED
      BY <1>3, <1>5, <2>1
  <1>7. \A i \in 1..n : cells[i + 1] = [width |-> width, pieces |-> net(s[i])]
    <2>1. \A i \in 1..n : i + 1 \in 1..(1 + n)
      OBVIOUS
    <2> QED
      BY <1>3, <1>5, <2>1
  <1>8. cells # <<>>
    BY <1>5, EmptySeq
  <1>9. \A i \in 2..(1 + n) : cells[i].width = width
    <2>1. \A i \in 2..(1 + n) : i - 1 \in 1..n /\ (i - 1) + 1 = i
      OBVIOUS
    <2>2. ASSUME NEW j \in 1..n PROVE cells[j + 1].width = width
      <3>1. PICK c : c = [width |-> width, pieces |-> net(s[j])]
        OBVIOUS
      <3>2. cells[j + 1] = c
        BY <1>7, <3>1
      <3> QED
        BY <3>1, <3>2
    <2> QED
      BY <2>1, <2>2
  <1>10. CountedAre(width, cells)
    BY <1>5, <1>6, <1>8, <1>9 DEF CountedAre, NumberIsThere
  <1>11. CountedIn(cells) = [i \in 1..n |-> host(net(s[i]))]
    <2>1. ASSUME NEW i \in 1..n PROVE cells[i + 1].pieces = net(s[i])
      <3>1. PICK c : c = [width |-> width, pieces |-> net(s[i])]
        OBVIOUS
      <3>2. cells[i + 1] = c
        BY <1>7, <3>1
      <3> QED
        BY <3>1, <3>2
    <2>2. cells[1].pieces[1] = n
      BY <1>6
    <2>3. CountedIn(cells) = [i \in 1..n |-> host(cells[i + 1].pieces)]
      BY <2>2 DEF CountedIn
    <2> QED
      BY <2>1, <2>3
  <1>12. \A i \in 1..n : host(net(s[i])) = s[i]
    BY <1>1, HostOfNet
  <1>13. s = [i \in 1..n |-> s[i]]
    BY <1>1
  <1>14. CountedIn(cells) = s
    BY <1>11, <1>12, <1>13
  <1> QED
    BY <1>1, <1>6, <1>10, <1>14 DEF CountIn

-----------------------------------------------------------------------------
(* Values.                                                                  *)

\* The types of values.
LEMMA TypeFacts ==
    /\ Types = {"empty", "raw", "string", "boolean", "integer32", "integer64",
                "floating_point32", "floating_point64", "integer32_array",
                "integer64_array", "floating_point32_array", "floating_point64_array"}
    /\ \A type \in Types : Width[type] \in Nat /\ Pieces(type) \in {1, 2}
    /\ Pieces("integer64_array") = 2 /\ Pieces("floating_point64") = 2
    /\ Counted \subseteq Types
  <1>1. Types = {"empty", "raw", "string", "boolean", "integer32", "integer64",
                 "floating_point32", "floating_point64", "integer32_array",
                 "integer64_array", "floating_point32_array", "floating_point64_array"}
    BY DEF Types, Width
  <1>2. \A type \in Types : Width[type] \in Nat
    BY <1>1 DEF Width
  <1>3. \A type \in Types : Pieces(type) \in {1, 2}
    BY DEF Pieces
  <1>4. Pieces("integer64_array") = 2 /\ Pieces("floating_point64") = 2
    BY DEF Pieces, Width
  <1>5. Counted \subseteq Types
    BY <1>1 DEF Counted
  <1> QED
    BY <1>1, <1>2, <1>3, <1>4, <1>5

\* The parts of a value.
LEMMA ValueFacts ==
    ASSUME NEW v \in Values
    PROVE  /\ v = [type |-> v.type, items |-> v.items] /\ v.type \in Types
           /\ v.items \in Seq(Words(Pieces(v.type))) /\ v.items \in Seq(Seq(Piece))
           /\ v.type \notin Counted => Len(v.items) = IF v.type = "empty" THEN 0 ELSE 1
  <1>1. /\ v \in [type : Types, items : Seq(Words(1) \cup Words(2))]
        /\ \A i \in DOMAIN v.items : v.items[i] \in Words(Pieces(v.type))
        /\ v.type \notin Counted => Len(v.items) = IF v.type = "empty" THEN 0 ELSE 1
    BY DEF Values
  <1>2. PICK s \in Seq(Words(1) \cup Words(2)) : s = v.items
    BY <1>1
  <1>3. PICK n \in Nat : n = Len(s) /\ DOMAIN s = 1..n /\ s = [i \in 1..n |-> s[i]]
    BY LenProperties
  <1>4. s \in [1..n -> Words(Pieces(v.type))]
    BY <1>1, <1>2, <1>3
  <1>5. s \in Seq(Words(Pieces(v.type)))
    BY <1>4
  <1>6. Pieces(v.type) \in Nat
    <2>1. PICK type \in Types : type = v.type
      BY <1>1
    <2>2. Pieces(type) \in {1, 2}
      BY TypeFacts
    <2> QED
      BY <2>1, <2>2
  <1>7. Words(Pieces(v.type)) \subseteq Seq(Piece)
    BY <1>6, WordFacts
  <1>8. s \in Seq(Seq(Piece))
    BY <1>4, <1>7
  <1> QED
    BY <1>1, <1>2, <1>5, <1>8

\* Where the k-th piece of the i-th item is.
LEMMA PieceIndex ==
    ASSUME NEW n \in {1, 2}, NEW i \in Nat, i >= 1, NEW k \in 1..n
    PROVE  /\ ((((i - 1) * n + k) - 1) \div n) + 1 = i
           /\ ((((i - 1) * n + k) - 1) % n) + 1 = k
  <1>1. CASE n = 1
    BY <1>1
  <1>2. CASE n = 2
    <2>1. PICK j \in Nat : j = i - 1
      OBVIOUS
    <2>2. CASE k = 1
      BY <1>2, <2>1, <2>2
    <2>3. CASE k = 2
      BY <1>2, <2>1, <2>3
    <2> QED
      BY <1>2, <2>2, <2>3
  <1> QED
    BY <1>1, <1>2

\* A piece of an array, or what is beyond it, is one.
LEMMA PieceFacts ==
    ASSUME NEW q \in {1, 2}, NEW items \in Seq(Words(q)), NEW k \in Nat, k >= 1,
           NEW junk \in Int
    PROVE  PieceAt(items, q, k, junk) \in Int
  <1>1. PICK i : i = ((k - 1) \div q) + 1
    OBVIOUS
  <1>2. PICK j \in 1..q : j = ((k - 1) % q) + 1
    OBVIOUS
  <1>3. PieceAt(items, q, k, junk) = IF i \in DOMAIN items THEN items[i][j] ELSE junk
    BY <1>1, <1>2 DEF PieceAt
  <1>4. ASSUME i \in DOMAIN items PROVE items[i][j] \in Int
    <2>1. items[i] \in Words(q)
      BY <1>4, LenProperties
    <2> QED
      BY <1>2, <2>1 DEF Words
  <1> QED
    BY <1>3, <1>4

\* A constructor makes a value, and but for two kinds of array the one it was
\* asked for.
LEMMA MadeOK ==
    ASSUME NEW v \in Values, NEW junk \in Int
    PROVE  /\ Made(v.type, v.items, junk) \in Values
           /\ v.type \notin {"floating_point32_array", "floating_point64_array"}
                 => Made(v.type, v.items, junk) = v
  <1>1. PICK type \in Types : type = v.type
    BY ValueFacts
  <1>2. PICK items \in Seq(Words(Pieces(type))) :
           /\ type = v.type /\ items = v.items /\ v = [type |-> type, items |-> items]
           /\ items \in Seq(Words(Pieces(type)))
    BY <1>1, ValueFacts
  <1>3. PICK made : made = MadeType(type)
    OBVIOUS
  <1>4. made \in Types /\ (made # type => made = "integer64_array" /\ type \in Counted)
    BY <1>3, TypeFacts DEF MadeType, Counted
  <1>5. PICK n \in {1, 2} : n = Pieces(made)
    BY <1>4, TypeFacts
  <1>6. PICK q \in {1, 2} : q = Pieces(type)
    BY TypeFacts
  <1>7. PICK len \in Nat : len = Len(items) /\ DOMAIN items = 1..len
    BY LenProperties
  <1>8. PICK out : out = [i \in 1..len |->
                             [k \in 1..n |-> PieceAt(items, q, (i - 1) * n + k, junk)]]
    OBVIOUS
  <1>9. Made(type, items, junk) = [type |-> made, items |-> out]
    BY <1>3, <1>5, <1>6, <1>7, <1>8 DEF Made
  <1>10. ASSUME NEW i \in 1..len PROVE out[i] \in Words(n)
    <2>1. ASSUME NEW k \in 1..n PROVE PieceAt(items, q, (i - 1) * n + k, junk) \in Int
      <3>1. (i - 1) * n + k \in Nat /\ (i - 1) * n + k >= 1
        <4>1. CASE n = 1
          BY <4>1
        <4>2. CASE n = 2
          BY <4>2
        <4> QED
          BY <4>1, <4>2
      <3> QED
        BY <1>2, <1>6, <3>1, PieceFacts
    <2> QED
      BY <1>8, <2>1 DEF Words
  <1>11. out \in [1..len -> Words(n)]
    BY <1>8, <1>10
  <1>12. out \in Seq(Words(1) \cup Words(2)) /\ Len(out) = len /\ DOMAIN out = 1..len
    <2>1. out \in [1..len -> Words(1) \cup Words(2)]
      BY <1>11
    <2>2. out \in Seq(Words(1) \cup Words(2))
      BY <2>1
    <2> QED
      BY <1>11, <2>2, LenProperties
  <1>13. made \notin Counted => Len(out) = IF made = "empty" THEN 0 ELSE 1
    <2>1. made \notin Counted => made = type
      BY <1>4 DEF Counted
    <2> QED
      BY <1>2, <1>7, <1>12, <2>1, ValueFacts
  <1>14. [type |-> made, items |-> out] \in Values
    BY <1>4, <1>5, <1>10, <1>12, <1>13 DEF Values
  <1>15. ASSUME made = type PROVE out = items
    <2>1. n = q
      BY <1>5, <1>6, <1>15
    <2>2. items \in [1..len -> Words(n)]
      BY <1>2, <1>6, <1>7, <2>1, LenProperties
    <2>3. ASSUME NEW i \in 1..len PROVE out[i] = items[i]
      <3>1. ASSUME NEW k \in 1..n PROVE PieceAt(items, q, (i - 1) * n + k, junk) = items[i][k]
        <4>1. i \in Nat /\ i >= 1
          OBVIOUS
        <4>2. /\ ((((i - 1) * n + k) - 1) \div n) + 1 = i
              /\ ((((i - 1) * n + k) - 1) % n) + 1 = k
          BY <4>1, PieceIndex
        <4> QED
          BY <1>7, <2>1, <4>2 DEF PieceAt
      <3>2. items[i] \in [1..n -> Int]
        BY <2>2 DEF Words
      <3>3. out[i] = [k \in 1..n |-> items[i][k]]
        BY <1>8, <3>1
      <3> QED
        BY <3>2, <3>3
    <2> QED
      BY <1>11, <2>2, <2>3
  <1>16. type \notin {"floating_point32_array", "floating_point64_array"} => made = type
    BY <1>3 DEF MadeType
  <1> QED
    BY <1>2, <1>9, <1>14, <1>15, <1>16

\* A value arrived as got: but for its mistreatments it is the same.
Arrived(got, v) ==
    /\ v.type \notin Mistreated => got = v
    /\ v.type = "floating_point64" => got.items[1][1] = v.items[1][1]

\* The serialized value.
LEMMA WireFacts ==
    ASSUME NEW v \in Values
    PROVE  /\ Wire(v) \in Seq(CellType)
           /\ v.type \notin Counted =>
                 \/ v.type = "empty" /\ Wire(v) = <<>> /\ v.items = <<>>
                 \/ /\ v.type # "empty" /\ v.items = <<v.items[1]>>
                    /\ v.items[1] \in Words(Pieces(v.type))
                    /\ Wire(v) = Cell(Width[v.type], v.items[1])
  <1>1. /\ v.type \in Types /\ Width[v.type] \in Nat
        /\ v.items \in Seq(Seq(Piece)) /\ v.items \in Seq(Words(Pieces(v.type)))
    BY ValueFacts, TypeFacts
  <1>2. CASE v.type \in Counted
    BY <1>1, <1>2, CountedFacts DEF Wire
  <1>3. CASE v.type \notin Counted /\ v.type = "empty"
    <2>1. v.items = <<>>
      BY <1>1, <1>3, ValueFacts, EmptySeq
    <2>2. Wire(v) = <<>>
      BY <1>3, <2>1 DEF Wire, Cells
    <2> QED
      BY <1>3, <2>1, <2>2, EmptySeq
  <1>4. CASE v.type \notin Counted /\ v.type # "empty"
    <2>1. PICK s : s = v.items
      OBVIOUS
    <2>2. Len(s) = 1 /\ s \in Seq(Seq(Piece)) /\ s \in Seq(Words(Pieces(v.type)))
      BY <1>1, <1>4, <2>1, ValueFacts
    <2>3. DOMAIN s = {1} /\ s = [i \in {1} |-> s[i]] /\ s[1] \in Words(Pieces(v.type))
      <3>1. 1..1 = {1}
        OBVIOUS
      <3> QED
        BY <2>2, <3>1, LenProperties
    <2>4. s = <<s[1]>> /\ s[1] \in Seq(Piece)
      <3>1. s[1] \in Seq(Piece)
        <4>1. 1 \in 1..Len(s)
          BY <2>2
        <4> QED
          BY <2>2, <4>1, ElementOfSeq
      <3>2. PICK x \in Seq(Piece) : x = s[1]
        BY <3>1
      <3>3. <<x>> \in Seq(Seq(Piece)) /\ Len(<<x>>) = 1 /\ <<x>>[1] = x
        OBVIOUS
      <3>4. \A i \in 1..Len(s) : s[i] = <<x>>[i]
        BY <2>2, <3>2, <3>3
      <3>5. s = <<x>>
        BY <2>2, <3>3, <3>4, SeqEqual
      <3> QED
        BY <3>1, <3>2, <3>5
    <2>5. PICK c \in Seq(CellType) : c = Cell(Width[v.type], s[1])
      BY <1>1, <2>4, CellFacts
    <2>6. Len(c) = 1
      BY <1>1, <2>4, <2>5, CellFacts
    <2>7. Wire(v) = [i \in {1} |-> c[1]]
      BY <1>4, <2>1, <2>3, <2>5 DEF Wire, Cells
    <2>8. c = [i \in {1} |-> c[i]]
      <3>1. 1..1 = {1}
        OBVIOUS
      <3> QED
        BY <2>6, <3>1, LenProperties
    <2> QED
      BY <1>4, <2>1, <2>3, <2>4, <2>5, <2>7, <2>8
  <1> QED
    BY <1>2, <1>3, <1>4

\* A value is read as it was written.
LEMMA ValueRead ==
    ASSUME NEW v \in Values, NEW junk \in Int, NEW cells, cells = Wire(v)
    PROVE  /\ ValueIsThere(v.type, cells) /\ Extent(v.type, cells) = Len(cells)
           /\ Arrived(ReadValue(v.type, cells, junk), v)
  <1>1. PICK type \in Types : type = v.type
    BY ValueFacts
  <1>2. PICK items \in Seq(Seq(Piece)) :
           items = v.items /\ v = [type |-> type, items |-> items]
    BY <1>1, ValueFacts
  <1>3. Width[type] \in Nat /\ cells \in Seq(CellType) /\ cells \o <<>> = cells
        /\ <<>> \in Seq(CellType)
    BY TypeFacts, WireFacts, ConcatEmptySeq, EmptySeq
  <1>4. CASE type \in Counted
    <2>1. cells = (Counter(Len(items)) \o Cells(Width[type], items)) \o <<>>
      BY <1>1, <1>2, <1>3, <1>4 DEF Wire
    <2>2. CountedAre(Width[type], cells) /\ CountedIn(cells) = items
          /\ CountIn(cells) = Len(items)
      <3>1. PICK width \in Nat : width = Width[type]
        BY <1>3
      <3>2. PICK b \in Seq(CellType) : b = <<>>
        BY <1>3
      <3>3. cells = (Counter(Len(items)) \o Cells(width, items)) \o b
        BY <2>1, <3>1, <3>2
      <3>4. CountedAre(width, cells)
        BY <3>3, CountedRead
      <3>5. CountedIn(cells) = items
        BY <3>3, CountedRead
      <3>6. CountIn(cells) = Len(items)
        BY <3>3, CountedRead
      <3> QED
        BY <3>1, <3>4, <3>5, <3>6
    <2>3. Len(cells) = 1 + Len(items)
      BY <1>1, <1>2, <1>3, <1>4, CountedFacts DEF Wire
    <2>4. ValueIsThere(type, cells) /\ Extent(type, cells) = Len(cells)
      BY <1>4, <2>2, <2>3 DEF ValueIsThere, Extent, Counted, CountIn
    <2>5. ASSUME type \notin Mistreated PROVE ReadValue(type, cells, junk) = v
      <3>1. ItemsOf(type, cells) = items
        BY <1>4, <2>2, <2>5 DEF ItemsOf, Mistreated, Counted
      <3>2. type \notin {"floating_point32_array", "floating_point64_array"}
        BY <2>5 DEF Mistreated
      <3> QED
        BY <1>1, <1>2, <3>1, <3>2, MadeOK DEF ReadValue
    <2>6. type # "floating_point64"
      BY <1>4 DEF Counted
    <2> QED
      BY <1>1, <2>4, <2>5, <2>6 DEF Arrived
  <1>5. CASE type \notin Counted /\ type = "empty"
    <2>1. cells = <<>> /\ items = <<>>
      BY <1>1, <1>2, <1>5, WireFacts
    <2>2. ItemsOf(type, cells) = items
      BY <1>5, <2>1 DEF ItemsOf
    <2>3. ReadValue(type, cells, junk) = v
      BY <1>1, <1>2, <1>5, <2>2, MadeOK DEF ReadValue
    <2>4. ValueIsThere(type, cells) /\ Extent(type, cells) = Len(cells)
      BY <1>5, <2>1, EmptySeq DEF ValueIsThere, Extent
    <2> QED
      BY <1>1, <1>5, <2>3, <2>4 DEF Arrived
  <1>6. CASE type \notin Counted /\ type # "empty"
    <2>1. PICK w : w = items[1]
      OBVIOUS
    <2>2. /\ items = <<w>> /\ w \in Words(Pieces(type))
          /\ cells = Cell(Width[type], w)
      BY <1>1, <1>2, <1>6, <2>1, WireFacts
    <2>3. w \in Seq(Piece)
      BY <2>2, TypeFacts, WordFacts
    <2>4. NumberIsThere(Width[type], cells) /\ Number(cells) = w
      BY <1>3, <2>2, <2>3, NumberRead
    <2>5. Len(cells) = 1
      BY <1>3, <2>2, <2>3, CellFacts
    <2>6. ValueIsThere(type, cells) /\ Extent(type, cells) = Len(cells)
      BY <1>6, <2>4, <2>5 DEF ValueIsThere, Extent
    <2>7. ASSUME type # "floating_point64" PROVE ReadValue(type, cells, junk) = v
      <3>1. type \notin {"floating_point64", "floating_point64_array",
                         "floating_point32_array"}
        BY <1>6, <2>7 DEF Counted
      <3>2. ItemsOf(type, cells) = items
        BY <1>6, <2>2, <2>4, <3>1 DEF ItemsOf
      <3> QED
        BY <1>1, <1>2, <3>1, <3>2, MadeOK DEF ReadValue
    <2>8. ASSUME type = "floating_point64"
          PROVE  ReadValue(type, cells, junk).items[1][1] = v.items[1][1]
      <3>1. w \in [1..2 -> Int]
        BY <2>2, <2>8, TypeFacts DEF Words
      <3>2. PICK r : r = Readf64(w)
        OBVIOUS
      <3>3. r \in Words(2) /\ r[1] = w[1]
        BY <3>1, <3>2 DEF Readf64, Words
      <3>4. ItemsOf(type, cells) = <<r>>
        <4>1. PICK words : words = <<w>>
          OBVIOUS
        <4>2. ItemsOf(type, cells) = [i \in DOMAIN words |-> Readf64(words[i])]
          BY <1>6, <2>4, <2>8, <4>1 DEF ItemsOf
        <4>3. DOMAIN words = 1..1 /\ words[1] = w
          BY <4>1
        <4>4. [i \in DOMAIN words |-> Readf64(words[i])] = [i \in 1..1 |-> r]
          BY <3>2, <4>3
        <4>5. [i \in 1..1 |-> r] = <<r>>
          OBVIOUS
        <4> QED
          BY <4>2, <4>4, <4>5
      <3>5. PICK u : u = [type |-> type, items |-> <<r>>]
        OBVIOUS
      <3>6. u \in Values
        <4>1. <<r>> \in Seq(Words(1) \cup Words(2)) /\ Len(<<r>>) = 1
              /\ DOMAIN <<r>> = {1} /\ <<r>>[1] = r
          BY <3>3
        <4> QED
          BY <1>6, <2>8, <3>3, <3>5, <4>1, TypeFacts DEF Values
      <3>7. Made(type, <<r>>, junk) = u
        BY <2>8, <3>5, <3>6, MadeOK
      <3>8. ReadValue(type, cells, junk).items[1] = r
        BY <3>4, <3>5, <3>7 DEF ReadValue
      <3>9. v.items[1] = w
        BY <1>2, <2>1
      <3> QED
        BY <3>3, <3>8, <3>9
    <2> QED
      BY <1>1, <2>6, <2>7, <2>8 DEF Arrived, Mistreated
  <1> QED
    BY <1>4, <1>5, <1>6

-----------------------------------------------------------------------------
(* The parser.                                                              *)

Timed(m) == m.type \in {"entry_create", "entry_update", "entry_delete",
                        "time_sync_request", "time_sync_response"}
WithId(m) == m.type \in {"entry_update", "entry_delete", "entry_id_assign"}

\* What was read of message m into d.
GotTime(d, m) == Timed(m) => d.send_time = m.send_time
GotId(d, m) == WithId(m) => d.id = m.id
GotName(d, m) == Named(m) => d.name = m.name

GotAll(d, m) ==
    /\ GotTime(d, m) /\ GotId(d, m) /\ GotName(d, m)
    /\ m.type = "time_sync_response" => d.time_value = m.time_value
    /\ Valued(m) => Arrived(d.value, m.value)

\* In the state s of its own, with rest still to be read, the parser has read
\* into d what stands before the rest in the body of m.
Reading(s, rest, d, m) ==
    \/ s = "check_type" /\ rest = Body(m)
    \/ s = "read_send_time" /\ Timed(m) /\ rest = Body(m)
    \/ /\ s = "read_id" /\ GotTime(d, m)
       /\ \/ m.type = "entry_id_assign" /\ rest = Body(m)
          \/ m.type = "entry_update" /\ rest = Cell(2, m.id) \o TypedWire(m.value)
          \/ m.type = "entry_delete" /\ rest = Cell(2, m.id)
    \/ /\ s = "read_name" /\ GotTime(d, m) /\ GotId(d, m)
       /\ \/ m.type = "entry_create" /\ rest = Text(m.name) \o TypedWire(m.value)
          \/ m.type = "entry_id_assign" /\ rest = Text(m.name)
    \/ /\ s = "read_value_type" /\ GotTime(d, m) /\ GotId(d, m) /\ GotName(d, m)
       /\ Valued(m) /\ rest = TypedWire(m.value)
    \/ /\ s = "read_value" /\ GotTime(d, m) /\ GotId(d, m) /\ GotName(d, m)
       /\ Valued(m) /\ rest = Wire(m.value) /\ d.type = m.value.type
    \/ /\ s = "read_time_value" /\ GotTime(d, m)
       /\ m.type = "time_sync_response" /\ rest = Cell(8, m.time_value)

DataShape(d) ==
    d = [send_time |-> d.send_time, id |-> d.id, name |-> d.name, type |-> d.type,
         value |-> d.value, time_value |-> d.time_value]
Shape(p) ==
    /\ p = [no |-> p.no, m_type |-> p.m_type, rest |-> p.rest, m_state |-> p.m_state,
            m_user_state |-> p.m_user_state, m_error_code |-> p.m_error_code,
            m_data |-> p.m_data]
    /\ DataShape(p.m_data)

\* The parser p is at message m, or is done with it.
Parsing(p, m) ==
    /\ p.m_type = m.type
    /\ \/ p.m_state = "in_state" /\ Reading(p.m_user_state, p.rest, p.m_data, m)
       \/ p.m_state = "end" /\ p.rest = <<>> /\ GotAll(p.m_data, m)

\* Messages and their parts.
LEMMA MessageFacts ==
    ASSUME NEW m \in Message
    PROVE  /\ m.type \in {"entry_create", "entry_update", "entry_delete",
                          "entry_id_assign", "time_sync_request", "time_sync_response",
                          "handshake_ready", "handshake_finished"}
           /\ Timed(m) => m.send_time \in Words(2)
           /\ WithId(m) => m.id \in Words(1)
           /\ Named(m) => m.name \in Seq(Words(1))
           /\ m.type = "time_sync_response" => m.time_value \in Words(2)
           /\ Valued(m) => m.value \in Values
  BY DEF Message, Timed, WithId, Named, Valued

\* A name on the wire.
LEMMA TextFacts ==
    ASSUME NEW name \in Seq(Words(1))
    PROVE  name \in Seq(Seq(Piece)) /\ Text(name) \in Seq(CellType)
           /\ Len(Text(name)) = 1 + Len(name)
  <1>1. Words(1) \subseteq Seq(Piece)
    BY WordFacts
  <1>2. name \in Seq(Seq(Piece))
    BY <1>1, SeqMonotonic
  <1> QED
    BY <1>2, CountedFacts DEF Text

\* A value and its type on the wire.
LEMMA TypedWireFacts ==
    ASSUME NEW v \in Values
    PROVE  /\ <<v.type>> \in Seq(Piece) /\ Wire(v) \in Seq(CellType)
           /\ Cell(1, <<v.type>>) \in Seq(CellType) /\ TypedWire(v) \in Seq(CellType)
           /\ TypedWire(v) = Cell(1, <<v.type>>) \o Wire(v)
  <1>1. v.type \in Types /\ Wire(v) \in Seq(CellType)
    BY ValueFacts, WireFacts
  <1>2. <<v.type>> \in Seq(Piece)
    BY <1>1, WordFacts
  <1>3. Cell(1, <<v.type>>) \in Seq(CellType)
    BY <1>2, CellFacts
  <1> QED
    BY <1>1, <1>2, <1>3, ConcatProperties DEF TypedWire

\* The bodies, as the parser reads them.
LEMMA BodyFacts ==
    ASSUME NEW m \in Message
    PROVE  /\ Body(m) \in Seq(CellType)
           /\ m.type = "entry_create" =>
                 /\ Body(m) = Cell(8, m.send_time) \o (Text(m.name) \o TypedWire(m.value))
                 /\ Text(m.name) \o TypedWire(m.value) \in Seq(CellType)
           /\ m.type = "entry_update" =>
                 /\ Body(m) = Cell(8, m.send_time) \o (Cell(2, m.id) \o TypedWire(m.value))
                 /\ Cell(2, m.id) \o TypedWire(m.value) \in Seq(CellType)
           /\ m.type = "entry_delete" => Body(m) = Cell(8, m.send_time) \o Cell(2, m.id)
           /\ m.type = "entry_id_assign" => Body(m) = Cell(2, m.id) \o Text(m.name)
           /\ m.type = "time_sync_request" => Body(m) = Cell(8, m.send_time)
           /\ m.type = "time_sync_response" =>
                 Body(m) = Cell(8, m.send_time) \o Cell(8, m.time_value)
           /\ m.type \in {"handshake_ready", "handshake_finished"} => Body(m) = <<>>
  <1>1. ASSUME NEW n \in Nat, NEW k \in Nat, NEW w \in Words(n)
        PROVE  Cell(k, w) \in Seq(CellType)
    BY WordFacts, CellFacts
  <1>2. \A n \in Nat : \A w \in Words(1) \cup Words(2) : Cell(n, w) \in Seq(CellType)
    BY <1>1
  <1>3. CASE m.type = "entry_create"
    <2>1. PICK a \in Seq(CellType) : a = Cell(8, m.send_time)
      BY <1>2, <1>3, MessageFacts DEF Timed
    <2>2. PICK b \in Seq(CellType) : b = Text(m.name)
      BY <1>3, MessageFacts, TextFacts DEF Named
    <2>3. PICK c \in Seq(CellType) : c = TypedWire(m.value)
      BY <1>3, MessageFacts, TypedWireFacts DEF Valued
    <2>4. Body(m) = (a \o b) \o c
      BY <1>3, <2>1, <2>2, <2>3 DEF Body
    <2>5. (a \o b) \o c = a \o (b \o c) /\ b \o c \in Seq(CellType)
      BY ConcatAssociative, ConcatProperties
    <2>6. a \o (b \o c) \in Seq(CellType)
      BY <2>5, ConcatProperties
    <2> QED
      BY <1>3, <2>1, <2>2, <2>3, <2>4, <2>5, <2>6
  <1>4. CASE m.type = "entry_update"
    <2>1. PICK a \in Seq(CellType) : a = Cell(8, m.send_time)
      BY <1>2, <1>4, MessageFacts DEF Timed
    <2>2. PICK b \in Seq(CellType) : b = Cell(2, m.id)
      BY <1>2, <1>4, MessageFacts DEF WithId
    <2>3. PICK c \in Seq(CellType) : c = TypedWire(m.value)
      BY <1>4, MessageFacts, TypedWireFacts DEF Valued
    <2>4. Body(m) = (a \o b) \o c
      BY <1>4, <2>1, <2>2, <2>3 DEF Body
    <2>5. (a \o b) \o c = a \o (b \o c) /\ b \o c \in Seq(CellType)
      BY ConcatAssociative, ConcatProperties
    <2>6. a \o (b \o c) \in Seq(CellType)
      BY <2>5, ConcatProperties
    <2> QED
      BY <1>4, <2>1, <2>2, <2>3, <2>4, <2>5, <2>6
  <1>5. CASE m.type = "entry_delete"
    <2>1. PICK a \in Seq(CellType) : a = Cell(8, m.send_time)
      BY <1>2, <1>5, MessageFacts DEF Timed
    <2>2. PICK b \in Seq(CellType) : b = Cell(2, m.id)
      BY <1>2, <1>5, MessageFacts DEF WithId
    <2>3. Body(m) = a \o b /\ a \o b \in Seq(CellType)
      BY <1>5, <2>1, <2>2, ConcatProperties DEF Body
    <2> QED
      BY <1>5, <2>1, <2>2, <2>3
  <1>6. CASE m.type = "entry_id_assign"
    <2>1. PICK a \in Seq(CellType) : a = Cell(2, m.id)
      BY <1>2, <1>6, MessageFacts DEF WithId
    <2>2. PICK b \in Seq(CellType) : b = Text(m.name)
      BY <1>6, MessageFacts, TextFacts DEF Named
    <2>3. Body(m) = a \o b /\ a \o b \in Seq(CellType)
      BY <1>6, <2>1, <2>2, ConcatProperties DEF Body
    <2> QED
      BY <1>6, <2>1, <2>2, <2>3
  <1>7. CASE m.type = "time_sync_request"
    BY <1>2, <1>7, MessageFacts DEF Timed, Body
  <1>8. CASE m.type = "time_sync_response"
    <2>1. PICK a \in Seq(CellType) : a = Cell(8, m.send_time)
      BY <1>2, <1>8, MessageFacts DEF Timed
    <2>2. PICK b \in Seq(CellType) : b = Cell(8, m.time_value)
      BY <1>2, <1>8, MessageFacts
    <2>3. Body(m) = a \o b /\ a \o b \in Seq(CellType)
      BY <1>8, <2>1, <2>2, ConcatProperties DEF Body
    <2> QED
      BY <1>8, <2>1, <2>2, <2>3
  <1>9. CASE m.type \in {"handshake_ready", "handshake_finished"}
    BY <1>9, EmptySeq DEF Body
  <1> QED
    BY <1>3, <1>4, <1>5, <1>6, <1>7, <1>8, <1>9, MessageFacts

\* select_next_state is a function.
LEMMA StepsFacts ==
    ASSUME NEW s \in Steps, NEW r \in Steps, s[1] = r[1], s[2] = r[2]
    PROVE  s[3] = r[3]
  <1> DEFINE To(u, t) ==
        IF u = "check_type"
        THEN IF t = "entry_id_assign" THEN "read_id"
             ELSE IF t \in {"handshake_ready", "handshake_finished"} THEN "end"
             ELSE "read_send_time"
        ELSE IF u = "read_id"
        THEN IF t = "entry_id_assign" THEN "read_name"
             ELSE IF t = "entry_update" THEN "read_value_type"
             ELSE "end"
        ELSE IF u = "read_name"
        THEN IF t = "entry_create" THEN "read_value_type" ELSE "end"
        ELSE IF u = "read_value_type" THEN "read_value"
        ELSE IF u = "read_send_time"
        THEN IF t = "entry_create" THEN "read_name"
             ELSE IF t \in {"entry_update", "entry_delete"} THEN "read_id"
             ELSE IF t = "time_sync_response" THEN "read_time_value"
             ELSE "end"
        ELSE "end"
  <1>1. ASSUME NEW x \in Steps PROVE x[3] = To(x[1], x[2])
    BY DEF Steps
  <1> HIDE DEF To
  <1> QED
    BY <1>1

\* The parser p has a transition to the state to.
GoesTo(p, to) == <<p.m_user_state, p.m_type, to>> \in Steps

\* select_next_state goes on to a state, or ends.
LEMMA SelectOK ==
    ASSUME NEW p, NEW to, GoesTo(p, to)
    PROVE  SelectNextState(p) = IF to = "end" THEN [p EXCEPT !.m_state = "end"]
                                ELSE [p EXCEPT !.m_user_state = to]
  <1>1. PICK next : next = {s \in Steps : s[1] = p.m_user_state /\ s[2] = p.m_type}
    OBVIOUS
  <1>2. PICK s : s = CHOOSE x \in next : TRUE
    OBVIOUS
  <1>3. PICK r \in Steps : r = <<p.m_user_state, p.m_type, to>>
    BY DEF GoesTo
  <1>4. r \in next /\ r[1] = p.m_user_state /\ r[2] = p.m_type /\ r[3] = to
    BY <1>1, <1>3
  <1>5. s \in next
    BY <1>2, <1>4
  <1>6. s \in Steps /\ s[1] = r[1] /\ s[2] = r[2]
    BY <1>1, <1>4, <1>5
  <1>7. s[3] = to
    BY <1>4, <1>6, StepsFacts
  <1>8. SelectNextState(p) =
           IF next = {} THEN Errored(p, error_unknown_type)
           ELSE LET z == s[3]
                IN  IF z = "end" THEN [p EXCEPT !.m_state = "end"]
                    ELSE [p EXCEPT !.m_user_state = z]
    BY <1>1, <1>2 DEF SelectNextState
  <1> QED
    BY <1>4, <1>7, <1>8

\* What the parser p becomes when it has read something.
After(p, rest, d, to) ==
    [no |-> p.no, m_type |-> p.m_type, rest |-> rest,
     m_state |-> IF to = "end" THEN "end" ELSE p.m_state,
     m_user_state |-> IF to = "end" THEN p.m_user_state ELSE to,
     m_error_code |-> p.m_error_code, m_data |-> d]

FieldNames == {"send_time", "id", "name", "type", "value", "time_value"}

\* The data, with one field set.
With(d, field, value) == [d EXCEPT ![field] = value]

LEMMA DataSet ==
    ASSUME NEW d, DataShape(d), NEW field \in FieldNames, NEW value
    PROVE  /\ DataShape(With(d, field, value))
           /\ With(d, field, value).send_time = IF field = "send_time" THEN value
                                                 ELSE d.send_time
           /\ With(d, field, value).id = IF field = "id" THEN value ELSE d.id
           /\ With(d, field, value).name = IF field = "name" THEN value ELSE d.name
           /\ With(d, field, value).type = IF field = "type" THEN value ELSE d.type
           /\ With(d, field, value).value = IF field = "value" THEN value ELSE d.value
           /\ With(d, field, value).time_value = IF field = "time_value" THEN value
                                                  ELSE d.time_value
  <1>1. PICK e : e = [d EXCEPT ![field] = value]
    OBVIOUS
  <1>2. /\ DataShape(e)
        /\ e.send_time = IF field = "send_time" THEN value ELSE d.send_time
        /\ e.id = IF field = "id" THEN value ELSE d.id
        /\ e.name = IF field = "name" THEN value ELSE d.name
        /\ e.type = IF field = "type" THEN value ELSE d.type
        /\ e.value = IF field = "value" THEN value ELSE d.value
        /\ e.time_value = IF field = "time_value" THEN value ELSE d.time_value
    BY <1>1 DEF DataShape, FieldNames
  <1>3. e = With(d, field, value)
    BY <1>1 DEF With
  <1> QED
    BY <1>2, <1>3

\* After n of the cells there is b.
Leaves(cells, n, b) ==
    \E a \in Seq(CellType) : cells = a \o b /\ Len(a) = n /\ b \in Seq(CellType)

\* Equality, under a name of its own for the lemmas that end in it.
Becomes(p, q) == p = q

\* A field was read.
LEMMA FieldMoves ==
    ASSUME NEW p, Shape(p), NEW n, NEW b, Leaves(p.rest, n, b),
           NEW field, NEW value, NEW to, GoesTo(p, to)
    PROVE  Becomes(Field(p, n, field, value), After(p, b, With(p.m_data, field, value), to))
  <1>1. PICK a \in Seq(CellType) : p.rest = a \o b /\ Len(a) = n /\ b \in Seq(CellType)
    BY DEF Leaves
  <1>2. PICK d : d = [p.m_data EXCEPT ![field] = value]
    OBVIOUS
  <1>3. PICK q : q = [no |-> p.no, m_type |-> p.m_type, rest |-> b, m_state |-> p.m_state,
                      m_user_state |-> p.m_user_state, m_error_code |-> p.m_error_code,
                      m_data |-> d]
    OBVIOUS
  <1>4. SubSeq(p.rest, n + 1, Len(p.rest)) = b
    <2>1. SubSeq(a \o b, Len(a) + 1, Len(a \o b)) = b
      BY <1>1, ConcatFacts
    <2> QED
      BY <1>1, <2>1
  <1>5. [p EXCEPT !.rest = SubSeq(@, n + 1, Len(@)), !.m_data[field] = value] = q
    <2>1. PICK r : r = SubSeq(p.rest, n + 1, Len(p.rest))
      OBVIOUS
    <2>2. PICK p1 : p1 = [p EXCEPT !.rest = r]
      OBVIOUS
    <2>3. [p EXCEPT !.rest = SubSeq(@, n + 1, Len(@)), !.m_data[field] = value]
             = [p1 EXCEPT !.m_data[field] = value]
      BY <2>1, <2>2
    <2>4. p1 = [no |-> p.no, m_type |-> p.m_type, rest |-> b, m_state |-> p.m_state,
                m_user_state |-> p.m_user_state, m_error_code |-> p.m_error_code,
                m_data |-> p.m_data]
      BY <1>4, <2>1, <2>2 DEF Shape
    <2>5. [p1 EXCEPT !.m_data[field] = value] = q
      <3>1. PICK e : e = p1.m_data
        OBVIOUS
      <3>2. e = p.m_data
        BY <2>4, <3>1
      <3>3. [p1 EXCEPT !.m_data[field] = value] = [p1 EXCEPT !.m_data = d]
        <4>1. d = [e EXCEPT ![field] = value]
          BY <1>2, <3>2
        <4> QED
          BY <3>1, <4>1
      <3>4. [p1 EXCEPT !.m_data = d] = q
        BY <1>3, <2>4
      <3> QED
        BY <3>3, <3>4
    <2> QED
      BY <2>3, <2>5
  <1>6. Field(p, n, field, value) = SelectNextState(q)
    BY <1>5 DEF Field
  <1>7. GoesTo(q, to)
    BY <1>3 DEF GoesTo
  <1>8. SelectNextState(q) = IF to = "end" THEN [q EXCEPT !.m_state = "end"]
                             ELSE [q EXCEPT !.m_user_state = to]
    BY <1>7, SelectOK
  <1>9. (IF to = "end" THEN [q EXCEPT !.m_state = "end"] ELSE [q EXCEPT !.m_user_state = to])
           = After(p, b, d, to)
    BY <1>3 DEF After
  <1> QED
    BY <1>2, <1>6, <1>8, <1>9 DEF With, Becomes

\* Still at the same message.
Good(q, p, m) ==
    Shape(q) /\ q.no = p.no /\ q.m_state \in {"in_state", "end"} /\ Parsing(q, m)

\* What there is to show when the parser has read something.
LEMMA AfterOK ==
    ASSUME NEW p, p.m_state = "in_state", NEW m, p.m_type = m.type, NEW d, DataShape(d),
           NEW rest, NEW to,
           \/ to = "end" /\ rest = <<>> /\ GotAll(d, m)
           \/ to # "end" /\ Reading(to, rest, d, m)
    PROVE  Good(After(p, rest, d, to), p, m)
  <1>1. PICK q : q = After(p, rest, d, to)
    OBVIOUS
  <1>2. /\ q = [no |-> q.no, m_type |-> q.m_type, rest |-> q.rest, m_state |-> q.m_state,
                m_user_state |-> q.m_user_state, m_error_code |-> q.m_error_code,
                m_data |-> q.m_data]
        /\ q.no = p.no /\ q.m_type = p.m_type /\ q.rest = rest /\ q.m_data = d
        /\ q.m_state = IF to = "end" THEN "end" ELSE p.m_state
        /\ q.m_user_state = IF to = "end" THEN p.m_user_state ELSE to
    BY <1>1 DEF After
  <1>3. Shape(q) /\ q.m_state \in {"in_state", "end"}
    BY <1>2 DEF Shape
  <1>4. Parsing(q, m)
    BY <1>2 DEF Parsing
  <1> QED
    BY <1>1, <1>2, <1>3, <1>4 DEF Good

\* check_type
LEMMA CheckTypeOK ==
    ASSUME NEW p, Shape(p), NEW m \in Message, p.m_state = "in_state", p.m_type = m.type,
           p.m_user_state = "check_type", p.rest = Body(m)
    PROVE  Good(SelectNextState(p), p, m)
  <1> DEFINE to == IF Timed(m) THEN "read_send_time"
                   ELSE IF m.type = "entry_id_assign" THEN "read_id"
                   ELSE "end"
  <1>1. GoesTo(p, to)
    BY MessageFacts DEF Steps, GoesTo, Timed
  <1>2. \/ to = "end" /\ p.rest = <<>> /\ GotAll(p.m_data, m)
        \/ to # "end" /\ Reading(to, p.rest, p.m_data, m)
    <2>1. CASE Timed(m)
      BY <2>1 DEF Reading
    <2>2. CASE m.type = "entry_id_assign"
      BY <2>2 DEF Reading, Timed, GotTime
    <2>3. CASE m.type \in {"handshake_ready", "handshake_finished"}
      <3>1. p.rest = <<>>
        BY <2>3, BodyFacts
      <3>2. GotAll(p.m_data, m)
        BY <2>3 DEF GotAll, GotTime, GotId, GotName, Timed, WithId, Named, Valued
      <3> QED
        BY <2>3, <3>1, <3>2 DEF Timed
    <2> QED
      BY <2>1, <2>2, <2>3, MessageFacts DEF Timed
  <1>3. PICK next : next = to
    OBVIOUS
  <1> HIDE DEF to
  <1>4. SelectNextState(p) = IF next = "end" THEN [p EXCEPT !.m_state = "end"]
                             ELSE [p EXCEPT !.m_user_state = next]
    BY <1>1, <1>3, SelectOK
  <1>5. SelectNextState(p) = After(p, p.rest, p.m_data, next)
    <2>1. (IF next = "end" THEN [p EXCEPT !.m_state = "end"]
           ELSE [p EXCEPT !.m_user_state = next]) = After(p, p.rest, p.m_data, next)
      BY DEF After, Shape
    <2> QED
      BY <1>4, <2>1
  <1>6. DataShape(p.m_data)
    BY DEF Shape
  <1> QED
    BY <1>2, <1>3, <1>5, <1>6, AfterOK

\* A number was read.
LEMMA NumberStep ==
    ASSUME NEW p, Shape(p), NEW m, p.m_state = "in_state", p.m_type = m.type,
           NEW width \in Nat, NEW w \in Seq(Piece), NEW b \in Seq(CellType),
           p.rest = Cell(width, w) \o b, NEW field \in FieldNames,
           NEW to, GoesTo(p, to),
           NEW d, d = With(p.m_data, field, w),
           \/ to = "end" /\ b = <<>> /\ GotAll(d, m)
           \/ to # "end" /\ Reading(to, b, d, m)
    PROVE  Good(ReadNumber(p, width, field), p, m)
  <1>1. PICK cells : cells = p.rest
    OBVIOUS
  <1>2. NumberIsThere(width, cells) /\ Number(cells) = w
    <2>1. cells = Cell(width, w) \o b
      BY <1>1
    <2>2. NumberIsThere(width, cells)
      BY <2>1, NumberRead
    <2>3. Number(cells) = w
      BY <2>1, NumberRead
    <2> QED
      BY <2>2, <2>3
  <1>3. PICK a \in Seq(CellType) : a = Cell(width, w) /\ Len(a) = 1
    BY CellFacts
  <1>4. ReadNumber(p, width, field) = Field(p, 1, field, w)
    BY <1>1, <1>2 DEF ReadNumber
  <1>5. Field(p, 1, field, w) = After(p, b, d, to)
    <2>1. Leaves(p.rest, 1, b)
      BY <1>3 DEF Leaves
    <2>2. Becomes(Field(p, 1, field, w), After(p, b, With(p.m_data, field, w), to))
      BY <2>1, FieldMoves
    <2> QED
      BY <2>2 DEF Becomes
  <1>6. DataShape(d)
    BY DataSet DEF Shape
  <1> QED
    BY <1>4, <1>5, <1>6, AfterOK

\* A number that is the last field.
LEMMA CellAlone ==
    ASSUME NEW width \in Nat, NEW w \in Seq(Piece)
    PROVE  /\ Cell(width, w) = Cell(width, w) \o <<>>
           /\ <<>> \in Seq(CellType)
  BY CellFacts, ConcatEmptySeq, EmptySeq

\* The state the parser is in, and the step it takes.
LEMMA ReadSendTimeOK ==
    ASSUME NEW p, Shape(p), NEW m \in Message, p.m_state = "in_state", p.m_type = m.type,
           p.m_user_state = "read_send_time", Timed(m), p.rest = Body(m)
    PROVE  Good(ReadNumber(p, 8, "send_time"), p, m)
  <1>1. PICK w \in Seq(Piece) : w = m.send_time
    BY MessageFacts, WordFacts
  <1>2. PICK d : d = With(p.m_data, "send_time", w)
    OBVIOUS
  <1>3. DataShape(p.m_data) /\ "send_time" \in FieldNames
    BY DEF Shape, FieldNames
  <1>4. d.send_time = w
    BY <1>2, <1>3, DataSet
  <1>5. GotTime(d, m)
    BY <1>1, <1>4 DEF GotTime
  <1>6. CASE m.type = "entry_create"
    <2>1. PICK b \in Seq(CellType) : b = Text(m.name) \o TypedWire(m.value)
      BY <1>6, BodyFacts
    <2>2. p.rest = Cell(8, w) \o b
      BY <1>1, <1>6, <2>1, BodyFacts
    <2>3. Reading("read_name", b, d, m)
      BY <1>5, <1>6, <2>1 DEF Reading, GotId, WithId
    <2>4. GoesTo(p, "read_name")
      BY <1>6 DEF Steps, GoesTo
    <2> QED
      BY <1>2, <1>3, <2>2, <2>3, <2>4, NumberStep
  <1>7. CASE m.type = "entry_update"
    <2>1. PICK b \in Seq(CellType) : b = Cell(2, m.id) \o TypedWire(m.value)
      BY <1>7, BodyFacts
    <2>2. p.rest = Cell(8, w) \o b
      BY <1>1, <1>7, <2>1, BodyFacts
    <2>3. Reading("read_id", b, d, m)
      BY <1>5, <1>7, <2>1 DEF Reading
    <2>4. GoesTo(p, "read_id")
      BY <1>7 DEF Steps, GoesTo
    <2> QED
      BY <1>2, <1>3, <2>2, <2>3, <2>4, NumberStep
  <1>8. CASE m.type = "entry_delete"
    <2>1. PICK b \in Seq(CellType) : b = Cell(2, m.id)
      <3>1. m.id \in Seq(Piece)
        BY <1>8, MessageFacts, WordFacts DEF WithId
      <3> QED
        BY <3>1, CellFacts
    <2>2. p.rest = Cell(8, w) \o b
      BY <1>1, <1>8, <2>1, BodyFacts
    <2>3. Reading("read_id", b, d, m)
      BY <1>5, <1>8, <2>1 DEF Reading
    <2>4. GoesTo(p, "read_id")
      BY <1>8 DEF Steps, GoesTo
    <2> QED
      BY <1>2, <1>3, <2>2, <2>3, <2>4, NumberStep
  <1>9. CASE m.type = "time_sync_request"
    <2>1. PICK b \in Seq(CellType) : b = <<>>
      BY CellAlone, <1>1
    <2>2. p.rest = Cell(8, w) \o b
      BY <1>1, <1>9, <2>1, BodyFacts, CellAlone
    <2>3. GotAll(d, m)
      BY <1>5, <1>9 DEF GotAll, GotId, GotName, WithId, Named, Valued
    <2>4. GoesTo(p, "end")
      BY <1>9 DEF Steps, GoesTo
    <2> QED
      BY <1>2, <1>3, <2>1, <2>2, <2>3, <2>4, NumberStep
  <1>10. CASE m.type = "time_sync_response"
    <2>1. PICK b \in Seq(CellType) : b = Cell(8, m.time_value)
      <3>1. m.time_value \in Seq(Piece)
        BY <1>10, MessageFacts, WordFacts
      <3> QED
        BY <3>1, CellFacts
    <2>2. p.rest = Cell(8, w) \o b
      BY <1>1, <1>10, <2>1, BodyFacts
    <2>3. Reading("read_time_value", b, d, m)
      BY <1>5, <1>10, <2>1 DEF Reading
    <2>4. GoesTo(p, "read_time_value")
      BY <1>10 DEF Steps, GoesTo
    <2> QED
      BY <1>2, <1>3, <2>2, <2>3, <2>4, NumberStep
  <1> QED
    BY <1>6, <1>7, <1>8, <1>9, <1>10 DEF Timed

\* read_id
LEMMA ReadIdOK ==
    ASSUME NEW p, Shape(p), NEW m \in Message, p.m_state = "in_state", p.m_type = m.type,
           p.m_user_state = "read_id", GotTime(p.m_data, m),
           \/ m.type = "entry_id_assign" /\ p.rest = Body(m)
           \/ m.type = "entry_update" /\ p.rest = Cell(2, m.id) \o TypedWire(m.value)
           \/ m.type = "entry_delete" /\ p.rest = Cell(2, m.id)
    PROVE  Good(ReadNumber(p, 2, "id"), p, m)
  <1>1. PICK w \in Seq(Piece) : w = m.id
    BY MessageFacts, WordFacts DEF WithId
  <1>2. PICK d : d = With(p.m_data, "id", w)
    OBVIOUS
  <1>3. DataShape(p.m_data) /\ "id" \in FieldNames
    BY DEF Shape, FieldNames
  <1>4. d.id = w /\ d.send_time = p.m_data.send_time
    BY <1>2, <1>3, DataSet
  <1>5. GotTime(d, m) /\ GotId(d, m)
    BY <1>1, <1>4 DEF GotTime, GotId
  <1>6. CASE m.type = "entry_id_assign"
    <2>1. PICK b \in Seq(CellType) : b = Text(m.name)
      BY <1>6, MessageFacts, TextFacts DEF Named
    <2>2. p.rest = Cell(2, w) \o b
      BY <1>1, <1>6, <2>1, BodyFacts
    <2>3. Reading("read_name", b, d, m)
      BY <1>5, <1>6, <2>1 DEF Reading
    <2>4. GoesTo(p, "read_name")
      BY <1>6 DEF Steps, GoesTo
    <2> QED
      BY <1>2, <1>3, <2>2, <2>3, <2>4, NumberStep
  <1>7. CASE m.type = "entry_update"
    <2>1. PICK b \in Seq(CellType) : b = TypedWire(m.value)
      BY <1>7, MessageFacts, TypedWireFacts DEF Valued
    <2>2. p.rest = Cell(2, w) \o b
      BY <1>1, <1>7, <2>1
    <2>3. Reading("read_value_type", b, d, m)
      BY <1>5, <1>7, <2>1 DEF Reading, GotName, Named, Valued
    <2>4. GoesTo(p, "read_value_type")
      BY <1>7 DEF Steps, GoesTo
    <2> QED
      BY <1>2, <1>3, <2>2, <2>3, <2>4, NumberStep
  <1>8. CASE m.type = "entry_delete"
    <2>1. PICK b \in Seq(CellType) : b = <<>>
      BY CellAlone, <1>1
    <2>2. p.rest = Cell(2, w) \o b
      BY <1>1, <1>8, <2>1, CellAlone
    <2>3. GotAll(d, m)
      BY <1>5, <1>8 DEF GotAll, GotName, Named, Valued
    <2>4. GoesTo(p, "end")
      BY <1>8 DEF Steps, GoesTo
    <2> QED
      BY <1>2, <1>3, <2>1, <2>2, <2>3, <2>4, NumberStep
  <1> QED
    BY <1>6, <1>7, <1>8

\* read_time_value
LEMMA ReadTimeValueOK ==
    ASSUME NEW p, Shape(p), NEW m \in Message, p.m_state = "in_state", p.m_type = m.type,
           p.m_user_state = "read_time_value", GotTime(p.m_data, m),
           m.type = "time_sync_response", p.rest = Cell(8, m.time_value)
    PROVE  Good(ReadNumber(p, 8, "time_value"), p, m)
  <1>1. PICK w \in Seq(Piece) : w = m.time_value
    BY MessageFacts, WordFacts
  <1>2. PICK d : d = With(p.m_data, "time_value", w)
    OBVIOUS
  <1>3. DataShape(p.m_data) /\ "time_value" \in FieldNames
    BY DEF Shape, FieldNames
  <1>4. d.time_value = w /\ d.send_time = p.m_data.send_time
    BY <1>2, <1>3, DataSet
  <1>5. GotAll(d, m)
    BY <1>1, <1>4 DEF GotAll, GotTime, GotId, GotName, WithId, Named, Valued
  <1>6. PICK b \in Seq(CellType) : b = <<>>
    BY CellAlone, <1>1
  <1>7. p.rest = Cell(8, w) \o b
    BY <1>1, <1>6, CellAlone
  <1>8. GoesTo(p, "end")
    BY DEF Steps, GoesTo
  <1> QED
    BY <1>2, <1>3, <1>5, <1>6, <1>7, <1>8, NumberStep

\* read_value_type
LEMMA ReadValueTypeOK ==
    ASSUME NEW p, Shape(p), NEW m \in Message, p.m_state = "in_state", p.m_type = m.type,
           p.m_user_state = "read_value_type", Valued(m), p.rest = TypedWire(m.value),
           GotTime(p.m_data, m), GotId(p.m_data, m), GotName(p.m_data, m)
    PROVE  Good(ReadValueType(p), p, m)
  <1>1. PICK v \in Values : v = m.value
    BY MessageFacts
  <1>2. PICK b \in Seq(CellType) : b = Wire(v)
    BY TypedWireFacts
  <1>3. PICK w \in Seq(Piece) : w = <<v.type>>
    BY TypedWireFacts
  <1>4. PICK cells : cells = p.rest /\ cells = Cell(1, w) \o b
    BY <1>1, <1>2, <1>3, TypedWireFacts
  <1>5. NumberIsThere(1, cells) /\ Number(cells) = w
    <2>1. PICK width \in Nat : width = 1
      OBVIOUS
    <2>2. cells = Cell(width, w) \o b
      BY <1>4, <2>1
    <2>3. NumberIsThere(width, cells)
      BY <2>2, NumberRead
    <2>4. Number(cells) = w
      BY <2>2, NumberRead
    <2> QED
      BY <2>1, <2>3, <2>4
  <1>6. ReadValueType(p) = Field(p, 1, "type", v.type)
    BY <1>3, <1>4, <1>5 DEF ReadValueType
  <1>7. PICK d : d = With(p.m_data, "type", v.type)
    OBVIOUS
  <1>8. DataShape(p.m_data) /\ "type" \in FieldNames
    BY DEF Shape, FieldNames
  <1>9. /\ DataShape(d) /\ d.type = v.type /\ d.send_time = p.m_data.send_time
        /\ d.id = p.m_data.id /\ d.name = p.m_data.name
    BY <1>7, <1>8, DataSet
  <1>10. Reading("read_value", b, d, m)
    BY <1>1, <1>2, <1>9 DEF Reading, GotTime, GotId, GotName
  <1>11. GoesTo(p, "read_value")
    BY DEF Steps, GoesTo, Valued
  <1>12. PICK a \in Seq(CellType) : a = Cell(1, w) /\ Len(a) = 1
    BY CellFacts
  <1>13. Field(p, 1, "type", v.type) = After(p, b, d, "read_value")
    <2>1. Leaves(p.rest, 1, b)
      BY <1>4, <1>12 DEF Leaves
    <2>2. Becomes(Field(p, 1, "type", v.type),
                  After(p, b, With(p.m_data, "type", v.type), "read_value"))
      BY <1>11, <2>1, FieldMoves
    <2> QED
      BY <1>7, <2>2 DEF Becomes
  <1> QED
    BY <1>6, <1>9, <1>10, <1>13, AfterOK


\* read_name
LEMMA ReadNameOK ==
    ASSUME NEW p, Shape(p), NEW m \in Message, p.m_state = "in_state", p.m_type = m.type,
           p.m_user_state = "read_name", GotTime(p.m_data, m), GotId(p.m_data, m),
           \/ m.type = "entry_create" /\ p.rest = Text(m.name) \o TypedWire(m.value)
           \/ m.type = "entry_id_assign" /\ p.rest = Text(m.name)
    PROVE  Good(ReadName(p), p, m)
  <1>1. PICK s : s = m.name
    OBVIOUS
  <1>2. /\ s \in Seq(Seq(Piece)) /\ Text(s) \in Seq(CellType)
        /\ Len(Text(s)) = 1 + Len(s)
    BY <1>1, MessageFacts, TextFacts DEF Named
  <1>3. PICK b \in Seq(CellType) : \E to :
           /\ p.rest = Text(s) \o b /\ GoesTo(p, to)
           /\ \/ to = "end" /\ m.type = "entry_id_assign" /\ b = <<>>
              \/ to = "read_value_type" /\ m.type = "entry_create" /\ b = TypedWire(m.value)
    <2>1. CASE m.type = "entry_create"
      <3>1. TypedWire(m.value) \in Seq(CellType)
        BY <2>1, MessageFacts, TypedWireFacts DEF Valued
      <3>2. GoesTo(p, "read_value_type")
        BY <2>1 DEF Steps, GoesTo
      <3> QED
        BY <1>1, <2>1, <3>1, <3>2
    <2>2. CASE m.type = "entry_id_assign"
      <3>1. <<>> \in Seq(CellType) /\ Text(s) \o <<>> = Text(s)
        BY <1>2, ConcatEmptySeq, EmptySeq
      <3>2. GoesTo(p, "end")
        BY <2>2 DEF Steps, GoesTo
      <3> QED
        BY <1>1, <2>2, <3>1, <3>2
    <2> QED
      BY <2>1, <2>2
  <1>4. PICK to :
           /\ p.rest = Text(s) \o b /\ GoesTo(p, to)
           /\ \/ to = "end" /\ m.type = "entry_id_assign" /\ b = <<>>
              \/ to = "read_value_type" /\ m.type = "entry_create" /\ b = TypedWire(m.value)
    BY <1>3
  <1>5. PICK cells : cells = p.rest
    OBVIOUS
  <1>6. CountedAre(1, cells) /\ CountedIn(cells) = s /\ CountIn(cells) = Len(s)
    <2>1. PICK width \in Nat : width = 1
      OBVIOUS
    <2>2. cells = (Counter(Len(s)) \o Cells(width, s)) \o b
      BY <1>4, <1>5, <2>1 DEF Text
    <2>3. CountedAre(width, cells)
      BY <1>2, <2>2, CountedRead
    <2>4. CountedIn(cells) = s
      BY <1>2, <2>2, CountedRead
    <2>5. CountIn(cells) = Len(s)
      BY <1>2, <2>2, CountedRead
    <2> QED
      BY <2>1, <2>3, <2>4, <2>5
  <1>7. PICK n : n = 1 + Len(s)
    OBVIOUS
  <1>8. ReadName(p) = Field(p, n, "name", s)
    BY <1>5, <1>6, <1>7 DEF ReadName, CountIn
  <1>9. Leaves(p.rest, n, b)
    BY <1>2, <1>4, <1>7 DEF Leaves
  <1>10. PICK d : d = With(p.m_data, "name", s)
    OBVIOUS
  <1>11. Becomes(Field(p, n, "name", s), After(p, b, With(p.m_data, "name", s), to))
    BY <1>4, <1>9, FieldMoves
  <1>12. ReadName(p) = After(p, b, d, to)
    BY <1>8, <1>10, <1>11 DEF Becomes
  <1>13. DataShape(p.m_data) /\ "name" \in FieldNames
    BY DEF Shape, FieldNames
  <1>14. /\ DataShape(d) /\ d.name = s /\ d.send_time = p.m_data.send_time
         /\ d.id = p.m_data.id
    BY <1>10, <1>13, DataSet
  <1>15. GotTime(d, m) /\ GotId(d, m) /\ GotName(d, m)
    BY <1>1, <1>14 DEF GotTime, GotId, GotName
  <1>16. CASE to = "end" /\ m.type = "entry_id_assign" /\ b = <<>>
    <2>1. GotAll(d, m)
      BY <1>15, <1>16 DEF GotAll, Valued
    <2> QED
      BY <1>12, <1>14, <1>16, <2>1, AfterOK
  <1>17. CASE to = "read_value_type" /\ m.type = "entry_create" /\ b = TypedWire(m.value)
    <2>1. Reading(to, b, d, m)
      BY <1>15, <1>17 DEF Reading, Valued
    <2>2. to # "end"
      BY <1>17
    <2> QED
      BY <1>12, <1>14, <2>1, <2>2, AfterOK
  <1> QED
    BY <1>4, <1>16, <1>17

\* read_value
LEMMA ReadValueOfOK ==
    ASSUME NEW p, Shape(p), NEW m \in Message, p.m_state = "in_state", p.m_type = m.type,
           p.m_user_state = "read_value", Valued(m), p.rest = Wire(m.value),
           p.m_data.type = m.value.type,
           GotTime(p.m_data, m), GotId(p.m_data, m), GotName(p.m_data, m),
           NEW junk \in Int
    PROVE  Good(ReadValueOf(p, junk), p, m)
  <1>1. PICK v \in Values : v = m.value
    BY MessageFacts
  <1>2. PICK cells : cells = p.rest /\ cells = Wire(v)
    BY <1>1
  <1>3. cells \in Seq(CellType) /\ <<>> \in Seq(CellType) /\ cells \o <<>> = cells
    BY <1>2, WireFacts, ConcatEmptySeq, EmptySeq
  <1>4. PICK type : type = p.m_data.type /\ type = v.type
    BY <1>1
  <1>5. ValueIsThere(type, cells) /\ Extent(type, cells) = Len(cells)
    <2>1. ValueIsThere(v.type, cells)
      BY <1>2, ValueRead
    <2>2. Extent(v.type, cells) = Len(cells)
      BY <1>2, ValueRead
    <2> QED
      BY <1>4, <2>1, <2>2
  <1>6. PICK got : got = ReadValue(type, cells, junk)
    OBVIOUS
  <1>7. Arrived(got, v)
    <2>1. Arrived(ReadValue(v.type, cells, junk), v)
      BY <1>2, ValueRead
    <2> QED
      BY <1>4, <1>6, <2>1
  <1>8. PICK n : n = Len(cells)
    OBVIOUS
  <1>9. ReadValueOf(p, junk) = Field(p, n, "value", got)
    BY <1>2, <1>4, <1>5, <1>6, <1>8 DEF ReadValueOf
  <1>10. Leaves(p.rest, n, <<>>)
    BY <1>2, <1>3, <1>8 DEF Leaves
  <1>11. GoesTo(p, "end")
    BY DEF Steps, GoesTo, Valued
  <1>12. PICK d : d = With(p.m_data, "value", got)
    OBVIOUS
  <1>13. Becomes(Field(p, n, "value", got), After(p, <<>>, With(p.m_data, "value", got), "end"))
    BY <1>10, <1>11, FieldMoves
  <1>14. ReadValueOf(p, junk) = After(p, <<>>, d, "end")
    BY <1>9, <1>12, <1>13 DEF Becomes
  <1>15. DataShape(p.m_data) /\ "value" \in FieldNames
    BY DEF Shape, FieldNames
  <1>16. /\ DataShape(d) /\ d.value = got /\ d.send_time = p.m_data.send_time
         /\ d.id = p.m_data.id /\ d.name = p.m_data.name
    BY <1>12, <1>15, DataSet
  <1>17. GotTime(d, m) /\ GotId(d, m) /\ GotName(d, m)
    BY <1>16 DEF GotTime, GotId, GotName
  <1>18. GotAll(d, m)
    BY <1>1, <1>7, <1>16, <1>17 DEF GotAll, Valued
  <1> QED
    BY <1>14, <1>16, <1>18, AfterOK

\* process_state: every step reads what was written.
LEMMA ProcessedOK ==
    ASSUME NEW p, Shape(p), NEW m \in Message, p.m_state = "in_state", Parsing(p, m),
           NEW junk \in Int
    PROVE  Good(Processed(p, junk), p, m)
  <1>1. p.m_type = m.type /\ Reading(p.m_user_state, p.rest, p.m_data, m)
    BY DEF Parsing
  <1>2. CASE p.m_user_state = "check_type"
    <2>1. p.rest = Body(m)
      BY <1>1, <1>2 DEF Reading
    <2>2. Processed(p, junk) = SelectNextState(p)
      BY <1>2 DEF Processed
    <2> QED
      BY <1>1, <1>2, <2>1, <2>2, CheckTypeOK
  <1>3. CASE p.m_user_state = "read_send_time"
    <2>1. Timed(m) /\ p.rest = Body(m)
      BY <1>1, <1>3 DEF Reading
    <2>2. Processed(p, junk) = ReadNumber(p, 8, "send_time")
      BY <1>3 DEF Processed
    <2> QED
      BY <1>1, <1>3, <2>1, <2>2, ReadSendTimeOK
  <1>4. CASE p.m_user_state = "read_id"
    <2>1. /\ GotTime(p.m_data, m)
          /\ \/ m.type = "entry_id_assign" /\ p.rest = Body(m)
             \/ m.type = "entry_update" /\ p.rest = Cell(2, m.id) \o TypedWire(m.value)
             \/ m.type = "entry_delete" /\ p.rest = Cell(2, m.id)
      BY <1>1, <1>4 DEF Reading
    <2>2. Processed(p, junk) = ReadNumber(p, 2, "id")
      BY <1>4 DEF Processed
    <2> QED
      BY <1>1, <1>4, <2>1, <2>2, ReadIdOK
  <1>5. CASE p.m_user_state = "read_name"
    <2>1. /\ GotTime(p.m_data, m) /\ GotId(p.m_data, m)
          /\ \/ m.type = "entry_create" /\ p.rest = Text(m.name) \o TypedWire(m.value)
             \/ m.type = "entry_id_assign" /\ p.rest = Text(m.name)
      BY <1>1, <1>5 DEF Reading
    <2>2. Processed(p, junk) = ReadName(p)
      BY <1>5 DEF Processed
    <2> QED
      BY <1>1, <1>5, <2>1, <2>2, ReadNameOK
  <1>6. CASE p.m_user_state = "read_value_type"
    <2>1. /\ GotTime(p.m_data, m) /\ GotId(p.m_data, m) /\ GotName(p.m_data, m)
          /\ Valued(m) /\ p.rest = TypedWire(m.value)
      BY <1>1, <1>6 DEF Reading
    <2>2. Processed(p, junk) = ReadValueType(p)
      BY <1>6 DEF Processed
    <2> QED
      BY <1>1, <1>6, <2>1, <2>2, ReadValueTypeOK
  <1>7. CASE p.m_user_state = "read_value"
    <2>1. /\ GotTime(p.m_data, m) /\ GotId(p.m_data, m) /\ GotName(p.m_data, m)
          /\ Valued(m) /\ p.rest = Wire(m.value) /\ p.m_data.type = m.value.type
      BY <1>1, <1>7 DEF Reading
    <2>2. Processed(p, junk) = ReadValueOf(p, junk)
      BY <1>7 DEF Processed
    <2> QED
      BY <1>1, <1>7, <2>1, <2>2, ReadValueOfOK
  <1>8. CASE p.m_user_state = "read_time_value"
    <2>1. /\ GotTime(p.m_data, m) /\ m.type = "time_sync_response"
          /\ p.rest = Cell(8, m.time_value)
      BY <1>1, <1>8 DEF Reading
    <2>2. Processed(p, junk) = ReadNumber(p, 8, "time_value")
      BY <1>8 DEF Processed
    <2> QED
      BY <1>1, <1>8, <2>1, <2>2, ReadTimeValueOK
  <1> QED
    BY <1>1, <1>2, <1>3, <1>4, <1>5, <1>6, <1>7, <1>8 DEF Reading

-----------------------------------------------------------------------------
(* The numbers of the messages on their way.  They are compared only among  *)
(* those in waiting, the messages that do not pass the queue.               *)

Nos(s) == {s[i].no : i \in 1..Len(s)}

Before(A, B, waiting) ==
    \A a \in A \cap waiting : \A b \in B \cap waiting : a < b

Rising(s, waiting) ==
    \A i, j \in 1..Len(s) :
        i < j /\ s[i].no \in waiting /\ s[j].no \in waiting => s[i].no < s[j].no

\* The heard h, the parsed p, the wire w and the queue q, in the order asked for.
Line(h, p, w, q, waiting) ==
    /\ Rising(h, waiting) /\ Rising(w, waiting) /\ Rising(q, waiting)
    /\ Before(Nos(h), p, waiting) /\ Before(Nos(h), Nos(w), waiting)
    /\ Before(Nos(h), Nos(q), waiting) /\ Before(p, Nos(w), waiting)
    /\ Before(p, Nos(q), waiting) /\ Before(Nos(w), Nos(q), waiting)

-----------------------------------------------------------------------------
(* The inductive invariant.                                                 *)

Waiting == {n \in DOMAIN asked : asked[n].type \notin Immediate}

Queued == {q \in [no : DOMAIN asked, m : Sendable] : q.m \in MessagesFor(asked[q.no])}
Wired == {OnWire(q) : q \in Queued}
HeardSet == {heard[i] : i \in DOMAIN heard}

Busy == parser.m_state \in {"in_state", "end"}
Parsed == IF Busy THEN {parser.no} ELSE {}

\* What is where, and which of the messages asked for it is.
PlacesOK ==
    /\ asked \in Seq(Meant)
    /\ m_outgoing \in Seq(Queued)
    /\ wire \in Seq(Wired)
    /\ heard \in Seq(HeardSet)
    /\ cuts \in Nat

\* The parser is right in what it has read so far.
ParserOK ==
    /\ Shape(parser)
    /\ parser.m_state \in {"start", "handled", "in_state", "end"}
    /\ Busy => /\ parser.no \in DOMAIN asked
               /\ \E m \in MessagesFor(asked[parser.no]) : Parsing(parser, m)

\* So is what was heard.
HeardAs(d, m) == d.type = m.type /\ GotAll(d.data, m)
HeardOK ==
    \A i \in 1..Len(heard) :
        /\ heard[i].no \in DOMAIN asked
        /\ \E m \in MessagesFor(asked[heard[i].no]) : HeardAs(heard[i], m)

\* Messages that wait keep their order all the way, and none is left out.
OrderOK == Line(heard, Parsed, wire, m_outgoing, Waiting)
NoneLeftOut ==
    cuts = 0 => Waiting \subseteq Nos(heard) \cup Parsed \cup Nos(wire) \cup Nos(m_outgoing)

IInv == PlacesOK /\ ParserOK /\ HeardOK /\ OrderOK /\ NoneLeftOut

-----------------------------------------------------------------------------
(* Numbers in sequences that are put together and taken apart.              *)

LEMMA JoinOK ==
    ASSUME NEW S, NEW s \in Seq(S), NEW t \in Seq(S), NEW waiting
    PROVE  /\ s \o t \in Seq(S)
           /\ Nos(s \o t) = Nos(s) \cup Nos(t)
           /\ Rising(s \o t, waiting) <=> /\ Rising(s, waiting) /\ Rising(t, waiting)
                                          /\ Before(Nos(s), Nos(t), waiting)
  <1>1. PICK n \in Nat : n = Len(s)
    BY LenProperties
  <1>2. PICK m \in Nat : m = Len(t)
    BY LenProperties
  <1>3. PICK u \in Seq(S) : u = s \o t
    BY ConcatProperties
  <1>4. /\ Len(u) = n + m
        /\ \A i \in 1..n : u[i] = s[i]
        /\ \A i \in 1..m : u[n + i] = t[i]
    <2>1. /\ Len(u) = n + m
          /\ \A i \in 1..(n + m) : u[i] = IF i <= n THEN s[i] ELSE t[i - n]
      BY <1>1, <1>2, <1>3, ConcatProperties
    <2>2. ASSUME NEW i \in 1..m PROVE u[n + i] = t[i]
      <3>1. PICK j : j = n + i
        OBVIOUS
      <3>2. j \in 1..(n + m) /\ ~(j <= n) /\ j - n = i
        BY <3>1
      <3>3. u[j] = t[j - n]
        BY <2>1, <3>2
      <3> QED
        BY <3>1, <3>2, <3>3
    <2>3. ASSUME NEW i \in 1..n PROVE u[i] = s[i]
      <3>1. i \in 1..(n + m) /\ i <= n
        OBVIOUS
      <3> QED
        BY <2>1, <3>1
    <2>4. Len(u) = n + m
      BY <2>1
    <2> QED
      BY <2>2, <2>3, <2>4
  <1>5. \A j \in 1..(n + m) : j \in 1..n \/ \E i \in 1..m : j = n + i
    <2>1. ASSUME NEW j \in 1..(n + m), j \notin 1..n PROVE j - n \in 1..m /\ j = n + (j - n)
      BY <2>1
    <2> QED
      BY <2>1
  <1>6. Nos(u) = Nos(s) \cup Nos(t)
    <2>1. Nos(u) = {u[i].no : i \in 1..(n + m)}
      BY <1>4 DEF Nos
    <2>2. Nos(s) = {s[i].no : i \in 1..n} /\ Nos(t) = {t[i].no : i \in 1..m}
      BY <1>1, <1>2 DEF Nos
    <2>3. \A i \in 1..n : i \in 1..(n + m)
      OBVIOUS
    <2>4. \A i \in 1..m : n + i \in 1..(n + m)
      OBVIOUS
    <2>5. Nos(u) \subseteq Nos(s) \cup Nos(t)
      <3>1. ASSUME NEW j \in 1..(n + m) PROVE u[j].no \in Nos(s) \cup Nos(t)
        <4>1. CASE j \in 1..n
          <5>1. u[j] = s[j]
            BY <1>4, <4>1
          <5>2. s[j].no \in Nos(s)
            BY <2>2, <4>1
          <5> QED
            BY <5>1, <5>2
        <4>2. CASE \E i \in 1..m : j = n + i
          <5>1. PICK i \in 1..m : j = n + i
            BY <4>2
          <5>2. u[j] = t[i]
            BY <1>4, <5>1
          <5>3. t[i].no \in Nos(t)
            BY <2>2
          <5> QED
            BY <5>2, <5>3
        <4> QED
          BY <1>5, <4>1, <4>2
      <3> QED
        BY <2>1, <3>1
    <2>6. Nos(s) \subseteq Nos(u)
      BY <1>4, <2>1, <2>2, <2>3
    <2>7. Nos(t) \subseteq Nos(u)
      BY <1>4, <2>1, <2>2, <2>4
    <2> QED
      BY <2>5, <2>6, <2>7
  <1>7. ASSUME Rising(u, waiting)
        PROVE  /\ Rising(s, waiting) /\ Rising(t, waiting)
               /\ Before(Nos(s), Nos(t), waiting)
    <2>1. \A i, j \in 1..(n + m) :
             i < j /\ u[i].no \in waiting /\ u[j].no \in waiting => u[i].no < u[j].no
      BY <1>4, <1>7 DEF Rising
    <2>2. ASSUME NEW i \in 1..n, NEW j \in 1..n, i < j, s[i].no \in waiting,
                 s[j].no \in waiting
          PROVE  s[i].no < s[j].no
      <3>1. i \in 1..(n + m) /\ j \in 1..(n + m)
        OBVIOUS
      <3> QED
        BY <1>4, <2>1, <2>2, <3>1
    <2>3. ASSUME NEW i \in 1..m, NEW j \in 1..m, i < j, t[i].no \in waiting,
                 t[j].no \in waiting
          PROVE  t[i].no < t[j].no
      <3>1. PICK k \in 1..(n + m) : k = n + i
        OBVIOUS
      <3>2. PICK l \in 1..(n + m) : l = n + j
        OBVIOUS
      <3>3. k < l /\ u[k] = t[i] /\ u[l] = t[j]
        BY <1>4, <2>3, <3>1, <3>2
      <3> QED
        BY <2>1, <2>3, <3>3
    <2>4. ASSUME NEW i \in 1..n, NEW j \in 1..m, s[i].no \in waiting, t[j].no \in waiting
          PROVE  s[i].no < t[j].no
      <3>1. i \in 1..(n + m)
        OBVIOUS
      <3>2. PICK l \in 1..(n + m) : l = n + j
        OBVIOUS
      <3>3. i < l /\ u[i] = s[i] /\ u[l] = t[j]
        BY <1>4, <3>2
      <3> QED
        BY <2>1, <2>4, <3>1, <3>3
    <2>5. Rising(s, waiting)
      BY <1>1, <2>2 DEF Rising
    <2>6. Rising(t, waiting)
      BY <1>2, <2>3 DEF Rising
    <2>7. Before(Nos(s), Nos(t), waiting)
      BY <1>1, <1>2, <2>4 DEF Before, Nos
    <2> QED
      BY <2>5, <2>6, <2>7
  <1>8. ASSUME Rising(s, waiting), Rising(t, waiting), Before(Nos(s), Nos(t), waiting)
        PROVE  Rising(u, waiting)
    <2>1. SUFFICES ASSUME NEW i \in 1..(n + m), NEW j \in 1..(n + m), i < j,
                          u[i].no \in waiting, u[j].no \in waiting
                   PROVE  u[i].no < u[j].no
      BY <1>4 DEF Rising
    <2>2. CASE i \in 1..n /\ j \in 1..n
      BY <1>1, <1>4, <1>8, <2>1, <2>2 DEF Rising
    <2>3. CASE i \in 1..n /\ j \notin 1..n
      <3>1. PICK l \in 1..m : j = n + l
        BY <1>5, <2>3
      <3>2. u[i] = s[i] /\ u[j] = t[l]
        BY <1>4, <2>3, <3>1
      <3>3. s[i].no \in Nos(s) /\ t[l].no \in Nos(t)
        BY <1>1, <1>2, <2>3 DEF Nos
      <3> QED
        BY <1>8, <2>1, <3>2, <3>3 DEF Before
    <2>4. CASE i \notin 1..n
      <3>1. PICK k \in 1..m : i = n + k
        BY <1>5, <2>4
      <3>2. j \notin 1..n
        BY <2>1, <2>4
      <3>3. PICK l \in 1..m : j = n + l
        BY <1>5, <3>2
      <3>4. k < l /\ u[i] = t[k] /\ u[j] = t[l]
        BY <1>4, <2>1, <3>1, <3>3
      <3> QED
        BY <1>2, <1>8, <2>1, <3>4 DEF Rising
    <2> QED
      BY <2>2, <2>3, <2>4
  <1> QED
    BY <1>3, <1>6, <1>7, <1>8

\* One alone, and none.
LEMMA OneOK ==
    ASSUME NEW S, NEW e \in S, NEW waiting
    PROVE  /\ <<e>> \in Seq(S) /\ Nos(<<e>>) = {e.no} /\ Rising(<<e>>, waiting)
           /\ <<>> \in Seq(S) /\ Nos(<<>>) = {} /\ Rising(<<>>, waiting)
  <1>1. PICK s : s = <<e>>
    OBVIOUS
  <1>2. s \in Seq(S) /\ Len(s) = 1 /\ s[1] = e
    BY <1>1
  <1>3. 1..Len(s) = {1}
    BY <1>2
  <1>4. Nos(s) = {e.no}
    BY <1>2, <1>3 DEF Nos
  <1>5. Rising(s, waiting)
    BY <1>3 DEF Rising
  <1>6. PICK o \in Seq(S) : o = <<>>
    BY EmptySeq
  <1>7. 1..Len(o) = {}
    <2>1. Len(o) = 0
      BY <1>6, EmptySeq
    <2> QED
      BY <2>1
  <1>8. Nos(o) = {} /\ Rising(o, waiting)
    BY <1>7 DEF Nos, Rising
  <1> QED
    BY <1>1, <1>2, <1>4, <1>5, <1>6, <1>8

\* The first n and the others.
LEMMA CutOK ==
    ASSUME NEW S, NEW s \in Seq(S), NEW n \in 0..Len(s)
    PROVE  /\ SubSeq(s, 1, n) \in Seq(S) /\ SubSeq(s, n + 1, Len(s)) \in Seq(S)
           /\ SubSeq(s, 1, n) \o SubSeq(s, n + 1, Len(s)) = s
           /\ Len(SubSeq(s, 1, n)) = n
           /\ \A i \in 1..n : SubSeq(s, 1, n)[i] = s[i]
  <1>1. PICK l \in Nat : l = Len(s)
    BY LenProperties
  <1>2. \A i \in 1..l : s[i] \in S
    BY <1>1, ElementOfSeq
  <1>3. PICK a : a = SubSeq(s, 1, n)
    OBVIOUS
  <1>4. PICK b : b = SubSeq(s, n + 1, l)
    OBVIOUS
  <1>5. a \in Seq(S) /\ Len(a) = n /\ \A i \in 1..n : a[i] = s[i]
    <2>1. \A i \in 1..n : s[i] \in S
      BY <1>1, <1>2
    <2>2. 1 \in Nat /\ n \in Nat
      BY <1>1
    <2>3. /\ a \in Seq(S)
          /\ Len(a) = IF 1 <= n THEN n - 1 + 1 ELSE 0
          /\ \A i \in 1..(n - 1 + 1) : a[i] = s[1 + i - 1]
      BY <1>3, <2>1, <2>2, SubSeqProperties
    <2>4. n - 1 + 1 = n /\ \A i \in 1..n : 1 + i - 1 = i
      BY <2>2
    <2> QED
      BY <2>2, <2>3, <2>4
  <1>6. b \in Seq(S) /\ Len(b) = l - n /\ \A i \in 1..(l - n) : b[i] = s[n + i]
    <2>1. \A i \in (n + 1)..l : s[i] \in S
      BY <1>1, <1>2
    <2>2. n + 1 \in Nat /\ n \in Nat /\ n <= l
      BY <1>1
    <2>3. /\ b \in Seq(S)
          /\ Len(b) = IF n + 1 <= l THEN l - (n + 1) + 1 ELSE 0
          /\ \A i \in 1..(l - (n + 1) + 1) : b[i] = s[(n + 1) + i - 1]
      BY <1>4, <2>1, <2>2, SubSeqProperties
    <2>4. l - (n + 1) + 1 = l - n /\ \A i \in 1..(l - n) : (n + 1) + i - 1 = n + i
      BY <2>2
    <2> QED
      BY <2>2, <2>3, <2>4
  <1>7. PICK u \in Seq(S) : u = a \o b
    BY <1>5, <1>6, ConcatProperties
  <1>8. Len(u) = l /\ \A i \in 1..l : u[i] = IF i <= n THEN a[i] ELSE b[i - n]
    <2>1. Len(u) = Len(a) + Len(b)
          /\ \A i \in 1..(Len(a) + Len(b)) : u[i] = IF i <= Len(a) THEN a[i] ELSE b[i - Len(a)]
      BY <1>5, <1>6, <1>7, ConcatProperties
    <2>2. Len(a) + Len(b) = l
      BY <1>1, <1>5, <1>6
    <2> QED
      BY <1>5, <2>1, <2>2
  <1>9. ASSUME NEW i \in 1..l PROVE u[i] = s[i]
    <2>1. CASE i <= n
      BY <1>5, <1>8, <2>1
    <2>2. CASE ~(i <= n)
      <3>1. PICK j : j = i - n
        OBVIOUS
      <3>2. j \in 1..(l - n) /\ n + j = i
        BY <1>1, <2>2, <3>1
      <3> QED
        BY <1>6, <1>8, <2>2, <3>1, <3>2
    <2> QED
      BY <2>1, <2>2
  <1>10. u = s
    BY <1>1, <1>8, <1>9, SeqEqual
  <1> QED
    BY <1>1, <1>3, <1>4, <1>5, <1>6, <1>7, <1>10

\* The first, and the others.
LEMMA TakeOK ==
    ASSUME NEW S, NEW s \in Seq(S), s # <<>>
    PROVE  Head(s) \in S /\ Tail(s) \in Seq(S) /\ <<Head(s)>> \o Tail(s) = s
  <1>1. Head(s) \in S /\ Tail(s) \in Seq(S) /\ Tail(s) = SubSeq(s, 2, Len(s))
    BY HeadTailProperties, TailIsSubSeq
  <1>2. Len(s) \in Nat /\ Len(s) # 0
    BY EmptySeq, LenProperties
  <1>3. PICK n \in 0..Len(s) : n = 1
    BY <1>2
  <1>4. /\ SubSeq(s, 1, n) \o SubSeq(s, n + 1, Len(s)) = s
        /\ SubSeq(s, 1, n) \in Seq(S) /\ Len(SubSeq(s, 1, n)) = n
        /\ \A i \in 1..n : SubSeq(s, 1, n)[i] = s[i]
    BY CutOK
  <1>5. PICK a \in Seq(S) : a = SubSeq(s, 1, n)
    BY <1>4
  <1>6. Len(a) = 1 /\ a[1] = Head(s)
    <2>1. Len(a) = 1 /\ a[1] = s[1]
      BY <1>3, <1>4, <1>5
    <2> QED
      BY <2>1
  <1>7. a = <<Head(s)>>
    <2>1. PICK b : b = <<Head(s)>>
      OBVIOUS
    <2>2. b \in Seq(S) /\ Len(b) = 1 /\ b[1] = Head(s)
      BY <1>1, <2>1
    <2>3. \A i \in 1..Len(a) : a[i] = b[i]
      BY <1>6, <2>2
    <2>4. a = b
      BY <1>6, <2>2, <2>3, SeqEqual
    <2> QED
      BY <2>1, <2>4
  <1>8. n + 1 = 2
    BY <1>3
  <1> QED
    BY <1>1, <1>4, <1>5, <1>7, <1>8

\* One more, behind the others or before them.
Plus(A, n) == A \cup {n}

LEMMA NosOK ==
    ASSUME NEW S, NEW q \in Seq(S), NEW e \in S
    PROVE  /\ Nos(Append(q, e)) = Plus(Nos(q), e.no)
           /\ Nos(<<e>> \o q) = Plus(Nos(q), e.no)
  <1>1. PICK t \in Seq(S) : t = <<e>>
    <2>1. <<e>> \in Seq(S)
      OBVIOUS
    <2> QED
      BY <2>1
  <1>2. Nos(t) = {e.no}
    BY <1>1, OneOK
  <1>3. Append(q, e) = q \o t
    BY <1>1, AppendIsConcat
  <1>4. Nos(q \o t) = Nos(q) \cup Nos(t) /\ Nos(t \o q) = Nos(t) \cup Nos(q)
    BY JoinOK
  <1> QED
    BY <1>1, <1>2, <1>3, <1>4 DEF Plus

\* One message more that waits, or does not, changes nothing for the others.
LEMMA LineGrows ==
    ASSUME NEW h, NEW p, NEW w, NEW q, NEW waiting, Line(h, p, w, q, waiting),
           NEW n, n \notin Nos(h) \cup p \cup Nos(w) \cup Nos(q)
    PROVE  Line(h, p, w, q, waiting \cup {n})
  <1> DEFINE more == waiting \cup {n}
  <1>1. ASSUME NEW s, n \notin Nos(s), Rising(s, waiting) PROVE Rising(s, more)
    <2>1. \A i \in 1..Len(s) : s[i].no # n
      BY <1>1 DEF Nos
    <2> QED
      BY <1>1, <2>1 DEF Rising
  <1>2. ASSUME NEW A, NEW B, n \notin A, n \notin B, Before(A, B, waiting)
        PROVE  Before(A, B, more)
    BY <1>2 DEF Before
  <1> HIDE DEF more
  <1>3. Rising(h, more) /\ Rising(w, more) /\ Rising(q, more)
    BY <1>1 DEF Line
  <1>4. /\ Before(Nos(h), p, more) /\ Before(Nos(h), Nos(w), more)
        /\ Before(Nos(h), Nos(q), more) /\ Before(p, Nos(w), more)
        /\ Before(p, Nos(q), more) /\ Before(Nos(w), Nos(q), more)
    BY <1>2 DEF Line
  <1> QED
    BY <1>3, <1>4 DEF Line, more

\* Behind all others.
Below(h, p, w, q, n) == \A k \in Nos(h) \cup p \cup Nos(w) \cup Nos(q) : k < n

LEMMA LineAppend ==
    ASSUME NEW h, NEW p, NEW w, NEW S, NEW q \in Seq(S), NEW e \in S, NEW waiting,
           Line(h, p, w, q, waiting), Below(h, p, w, q, e.no)
    PROVE  Line(h, p, w, Append(q, e), waiting)
  <1>1. PICK t \in Seq(S) : t = <<e>>
    <2>1. <<e>> \in Seq(S)
      OBVIOUS
    <2> QED
      BY <2>1
  <1>2. Nos(t) = {e.no} /\ Rising(t, waiting)
    BY <1>1, OneOK
  <1>3. Append(q, e) = q \o t
    BY <1>1, AppendIsConcat
  <1>4. Before(Nos(q), Nos(t), waiting)
    BY <1>2 DEF Below, Before
  <1>5. Nos(q \o t) = Nos(q) \cup {e.no} /\ Rising(q \o t, waiting)
    <2>1. Rising(q, waiting)
      BY DEF Line
    <2>2. Nos(q \o t) = Nos(q) \cup Nos(t)
      BY JoinOK
    <2>3. Rising(q \o t, waiting)
      BY <1>2, <1>4, <2>1, JoinOK
    <2> QED
      BY <1>2, <2>2, <2>3
  <1>6. /\ Before(Nos(h), Nos(q) \cup {e.no}, waiting)
        /\ Before(p, Nos(q) \cup {e.no}, waiting)
        /\ Before(Nos(w), Nos(q) \cup {e.no}, waiting)
    BY DEF Line, Below, Before
  <1> QED
    BY <1>3, <1>5, <1>6 DEF Line

\* Onto the wire, and to the front of the queue, of one that does not wait.
LEMMA LineImmediate ==
    ASSUME NEW h, NEW p, NEW S, NEW w \in Seq(S), NEW R, NEW q \in Seq(R), NEW waiting,
           Line(h, p, w, q, waiting), NEW e \in S, e.no \notin waiting,
           NEW f \in R, f.no \notin waiting
    PROVE  /\ Line(h, p, Append(w, e), q, waiting)
           /\ Line(h, p, w, <<f>> \o q, waiting)
  <1>1. PICK s \in Seq(S) : s = <<e>>
    <2>1. <<e>> \in Seq(S)
      OBVIOUS
    <2> QED
      BY <2>1
  <1>2. PICK t \in Seq(R) : t = <<f>>
    <2>1. <<f>> \in Seq(R)
      OBVIOUS
    <2> QED
      BY <2>1
  <1>3. Nos(s) = {e.no} /\ Rising(s, waiting)
    BY <1>1, OneOK
  <1>4. Nos(t) = {f.no} /\ Rising(t, waiting)
    BY <1>2, OneOK
  <1>5. Append(w, e) = w \o s
    BY <1>1, AppendIsConcat
  <1>6. Before(Nos(w), Nos(s), waiting) /\ Before(Nos(t), Nos(q), waiting)
    BY <1>3, <1>4 DEF Before
  <1>7. Nos(w \o s) = Nos(w) \cup {e.no} /\ Rising(w \o s, waiting)
    <2>1. Rising(w, waiting)
      BY DEF Line
    <2>2. Nos(w \o s) = Nos(w) \cup Nos(s)
      BY JoinOK
    <2>3. Rising(w \o s, waiting)
      BY <1>3, <1>6, <2>1, JoinOK
    <2> QED
      BY <1>3, <2>2, <2>3
  <1>8. Nos(t \o q) = Nos(q) \cup {f.no} /\ Rising(t \o q, waiting)
    <2>1. Nos(t \o q) = Nos(t) \cup Nos(q)
      BY JoinOK
    <2>2. Rising(q, waiting)
      BY DEF Line
    <2>3. Rising(t \o q, waiting)
      BY <1>4, <1>6, <2>2, JoinOK
    <2> QED
      BY <1>4, <2>1, <2>3
  <1>9. /\ Before(Nos(h), Nos(w) \cup {e.no}, waiting)
        /\ Before(p, Nos(w) \cup {e.no}, waiting)
        /\ Before(Nos(w) \cup {e.no}, Nos(q), waiting)
    BY DEF Line, Before
  <1>10. /\ Before(Nos(h), Nos(q) \cup {f.no}, waiting)
         /\ Before(p, Nos(q) \cup {f.no}, waiting)
         /\ Before(Nos(w), Nos(q) \cup {f.no}, waiting)
    BY DEF Line, Before
  <1>11. Line(h, p, w \o s, q, waiting)
    BY <1>7, <1>9 DEF Line
  <1>12. Line(h, p, w, t \o q, waiting)
    BY <1>8, <1>10 DEF Line
  <1> QED
    BY <1>2, <1>5, <1>7, <1>8, <1>11, <1>12

\* From the front of the queue, a, onto the wire, as x.
LEMMA LineProcess ==
    ASSUME NEW h, NEW p, NEW S, NEW w \in Seq(S), NEW x \in Seq(S), NEW R,
           NEW a \in Seq(R), NEW b \in Seq(R), NEW waiting,
           Line(h, p, w, a \o b, waiting),
           Nos(x) = Nos(a), Rising(a, waiting) => Rising(x, waiting)
    PROVE  /\ Line(h, p, w \o x, b, waiting)
           /\ Nos(w \o x) \cup Nos(b) = Nos(w) \cup Nos(a \o b)
  <1>1. /\ Nos(a \o b) = Nos(a) \cup Nos(b)
        /\ Rising(a, waiting) /\ Rising(b, waiting) /\ Before(Nos(a), Nos(b), waiting)
    BY JoinOK DEF Line
  <1>2. Before(Nos(w), Nos(x), waiting)
    BY <1>1 DEF Line, Before
  <1>3. Nos(w \o x) = Nos(w) \cup Nos(a) /\ Rising(w \o x, waiting)
    <2>1. Rising(w, waiting) /\ Rising(x, waiting)
      BY <1>1 DEF Line
    <2>2. Nos(w \o x) = Nos(w) \cup Nos(x)
      BY JoinOK
    <2>3. Rising(w \o x, waiting)
      BY <1>2, <2>1, JoinOK
    <2> QED
      BY <2>2, <2>3
  <1>4. /\ Before(Nos(h), Nos(w) \cup Nos(a), waiting)
        /\ Before(p, Nos(w) \cup Nos(a), waiting)
        /\ Before(Nos(w) \cup Nos(a), Nos(b), waiting)
        /\ Before(Nos(h), Nos(b), waiting) /\ Before(p, Nos(b), waiting)
    BY <1>1 DEF Line, Before
  <1> QED
    BY <1>1, <1>3, <1>4 DEF Line

\* A queue that was dropped, and a middle b of the wire.
LEMMA LineCut ==
    ASSUME NEW h, NEW p, NEW S, NEW a \in Seq(S), NEW b \in Seq(S), NEW c \in Seq(S), NEW q,
           NEW waiting, Line(h, p, a \o (b \o c), q, waiting)
    PROVE  Line(h, p, a \o c, <<>>, waiting)
  <1>1. PICK t : t = b \o c
    OBVIOUS
  <1>2. /\ t \in Seq(S) /\ Nos(t) = Nos(b) \cup Nos(c)
        /\ Rising(t, waiting) => Rising(c, waiting)
    BY <1>1, JoinOK
  <1>3. Line(h, p, a \o t, q, waiting)
    BY <1>1
  <1>4. /\ Nos(a \o t) = Nos(a) \cup Nos(t)
        /\ Rising(a, waiting) /\ Rising(t, waiting) /\ Before(Nos(a), Nos(t), waiting)
    <2>1. Rising(a \o t, waiting)
      BY <1>3 DEF Line
    <2>2. t \in Seq(S)
      BY <1>2
    <2>3. /\ Nos(a \o t) = Nos(a) \cup Nos(t)
          /\ Rising(a \o t, waiting) <=> /\ Rising(a, waiting) /\ Rising(t, waiting)
                                         /\ Before(Nos(a), Nos(t), waiting)
      BY <2>2, JoinOK
    <2> QED
      BY <2>1, <2>3
  <1>5. Before(Nos(a), Nos(c), waiting)
    BY <1>2, <1>4 DEF Before
  <1>6. Rising(a \o c, waiting) /\ Nos(a \o c) = Nos(a) \cup Nos(c)
    BY <1>2, <1>4, <1>5, JoinOK
  <1>7. Nos(<<>>) = {} /\ Rising(<<>>, waiting)
    <2>1. PICK S0, e : e \in S0
      <3>1. 1 \in {1}
        OBVIOUS
      <3> QED
        BY <3>1
    <2> QED
      BY <2>1, OneOK
  <1>8. Before(Nos(h), Nos(a \o c), waiting) /\ Before(p, Nos(a \o c), waiting)
    BY <1>2, <1>3, <1>4, <1>6 DEF Line, Before
  <1>9. \A s : Before(s, {}, waiting)
    BY DEF Before
  <1> QED
    BY <1>3, <1>6, <1>7, <1>8, <1>9 DEF Line

\* From the wire into the parser.
LEMMA LineTake ==
    ASSUME NEW h, NEW S, NEW e \in S, NEW t \in Seq(S), NEW q, NEW waiting,
           Line(h, {}, <<e>> \o t, q, waiting)
    PROVE  /\ Line(h, {e.no}, t, q, waiting)
           /\ Nos(<<e>> \o t) = {e.no} \cup Nos(t)
  <1>1. PICK s \in Seq(S) : s = <<e>>
    <2>1. <<e>> \in Seq(S)
      OBVIOUS
    <2> QED
      BY <2>1
  <1>2. Nos(s) = {e.no}
    BY <1>1, OneOK
  <1>3. Line(h, {}, s \o t, q, waiting)
    BY <1>1
  <1>4. /\ Nos(s \o t) = {e.no} \cup Nos(t)
        /\ Rising(t, waiting) /\ Before({e.no}, Nos(t), waiting)
    <2>1. Rising(s \o t, waiting)
      BY <1>3 DEF Line
    <2>2. Nos(s \o t) = Nos(s) \cup Nos(t)
      BY JoinOK
    <2>3. Rising(t, waiting) /\ Before(Nos(s), Nos(t), waiting)
      BY <2>1, JoinOK
    <2> QED
      BY <1>2, <2>2, <2>3
  <1>5. /\ Before(Nos(h), {e.no}, waiting) /\ Before(Nos(h), Nos(t), waiting)
        /\ Before({e.no}, Nos(q), waiting) /\ Before(Nos(t), Nos(q), waiting)
    BY <1>3, <1>4 DEF Line, Before
  <1>6. Line(h, {e.no}, t, q, waiting)
    BY <1>3, <1>4, <1>5 DEF Line
  <1> QED
    BY <1>1, <1>4, <1>6

\* From the parser to the handler.
LEMMA LineHear ==
    ASSUME NEW S, NEW h \in Seq(S), NEW e \in S, NEW w, NEW q, NEW waiting,
           Line(h, {e.no}, w, q, waiting)
    PROVE  Line(Append(h, e), {}, w, q, waiting)
  <1>1. PICK s \in Seq(S) : s = <<e>>
    <2>1. <<e>> \in Seq(S)
      OBVIOUS
    <2> QED
      BY <2>1
  <1>2. Nos(s) = {e.no} /\ Rising(s, waiting)
    BY <1>1, OneOK
  <1>3. Append(h, e) = h \o s
    BY <1>1, AppendIsConcat
  <1>4. Nos(h \o s) = Nos(h) \cup {e.no} /\ Rising(h \o s, waiting)
    <2>1. Rising(h, waiting) /\ Before(Nos(h), Nos(s), waiting)
      BY <1>2 DEF Line
    <2>2. Nos(h \o s) = Nos(h) \cup Nos(s)
      BY JoinOK
    <2>3. Rising(h \o s, waiting)
      BY <1>2, <2>1, JoinOK
    <2> QED
      BY <1>2, <2>2, <2>3
  <1>5. /\ Before(Nos(h) \cup {e.no}, Nos(w), waiting)
        /\ Before(Nos(h) \cup {e.no}, Nos(q), waiting)
        /\ Before(Nos(h) \cup {e.no}, {}, waiting)
        /\ Before({}, Nos(w), waiting) /\ Before({}, Nos(q), waiting)
    BY DEF Line, Before
  <1> QED
    BY <1>3, <1>4, <1>5 DEF Line

-----------------------------------------------------------------------------
(* Steps.                                                                   *)

\* What m may be in the queue: x is m, but for what the constructor of its value
\* has made of that.
Keeps(x, m) ==
    /\ x.type = m.type
    /\ Timed(m) => x.send_time = m.send_time
    /\ WithId(m) => x.id = m.id
    /\ Named(m) => x.name = m.name
    /\ m.type = "time_sync_response" => x.time_value = m.time_value
    /\ Valued(m) => \E junk \in Int : x.value = Made(m.value.type, m.value.items, junk)

LEMMA MessagesForOK ==
    ASSUME NEW m \in Meant, NEW x \in MessagesFor(m)
    PROVE  x \in Message /\ Keeps(x, m) /\ x \in Sendable /\ Bodies[x] = Body(x)
  <1>1. m \in Message
    BY MeantAssumption
  <1>2. x \in Sendable /\ Bodies[x] = Body(x)
    BY DEF Sendable, Bodies
  <1>3. CASE ~Valued(m)
    <2>1. x = m
      BY <1>3 DEF MessagesFor
    <2> QED
      BY <1>1, <1>2, <1>3, <2>1 DEF Keeps
  <1>4. CASE Valued(m)
    <2>1. PICK v \in Values : v = m.value
      BY <1>1, <1>4, MessageFacts
    <2>2. PICK junk \in Int : x = [m EXCEPT !.value = Made(v.type, v.items, junk)]
      BY <1>4, <2>1, JunkAssumption DEF MessagesFor
    <2>3. PICK u \in Values : u = Made(v.type, v.items, junk)
      BY MadeOK
    <2>4. x = [m EXCEPT !.value = u]
      BY <2>2, <2>3
    <2>5. CASE m.type = "entry_create"
      <3>1. m \in [type : {"entry_create"}, send_time : Words(2), name : Seq(Words(1)),
                   value : Values]
        BY <1>1, <2>5 DEF Message
      <3>2. x \in [type : {"entry_create"}, send_time : Words(2), name : Seq(Words(1)),
                   value : Values]
        BY <2>4, <3>1
      <3>3. /\ x.type = m.type /\ x.send_time = m.send_time /\ x.name = m.name
            /\ x.value = u
        BY <2>4, <3>1
      <3>4. Keeps(x, m)
        BY <2>1, <2>3, <2>5, <3>3 DEF Keeps, WithId
      <3> QED
        BY <1>2, <3>2, <3>4 DEF Message
    <2>6. CASE m.type = "entry_update"
      <3>1. m \in [type : {"entry_update"}, send_time : Words(2), id : Words(1),
                   value : Values]
        BY <1>1, <2>6 DEF Message
      <3>2. x \in [type : {"entry_update"}, send_time : Words(2), id : Words(1),
                   value : Values]
        BY <2>4, <3>1
      <3>3. /\ x.type = m.type /\ x.send_time = m.send_time /\ x.id = m.id
            /\ x.value = u
        BY <2>4, <3>1
      <3>4. Keeps(x, m)
        BY <2>1, <2>3, <2>6, <3>3 DEF Keeps, Named
      <3> QED
        BY <1>2, <3>2, <3>4 DEF Message
    <2> QED
      BY <1>4, <2>5, <2>6 DEF Valued
  <1> QED
    BY <1>3, <1>4

\* What is heard of m, through any of its forms, is m but for its mistreatment.
LEMMA HeardAsMeant ==
    ASSUME NEW m \in Meant, NEW x \in MessagesFor(m), NEW d, HeardAs(d, x)
    PROVE  /\ SameFields(d, m)
           /\ Valued(m) /\ m.value.type \notin Mistreated => d.data.value = m.value
           /\ Valued(m) /\ m.value.type = "floating_point64" =>
                 d.data.value.items[1][1] = m.value.items[1][1]
  <1>1. Keeps(x, m) /\ m \in Message
    BY MessagesForOK, MeantAssumption
  <1>2. x.type = m.type
    BY <1>1 DEF Keeps
  <1>3. d.type = x.type /\ GotAll(d.data, x)
    BY DEF HeardAs
  <1>4. SameFields(d, m)
    <2>1. Timed(m) => d.data.send_time = m.send_time
      BY <1>1, <1>2, <1>3 DEF GotAll, GotTime, Keeps, Timed
    <2>2. WithId(m) => d.data.id = m.id
      BY <1>1, <1>2, <1>3 DEF GotAll, GotId, Keeps, WithId
    <2>3. Named(m) => d.data.name = m.name
      BY <1>1, <1>2, <1>3 DEF GotAll, GotName, Keeps, Named
    <2>4. m.type = "time_sync_response" => d.data.time_value = m.time_value
      BY <1>1, <1>2, <1>3 DEF GotAll, Keeps
    <2> QED
      BY <1>2, <1>3, <2>1, <2>2, <2>3, <2>4 DEF SameFields, Timed, WithId
  <1>5. ASSUME Valued(m)
        PROVE  /\ m.value.type \notin Mistreated => d.data.value = m.value
               /\ m.value.type = "floating_point64" =>
                     d.data.value.items[1][1] = m.value.items[1][1]
    <2>1. PICK v \in Values : v = m.value
      BY <1>1, <1>5, MessageFacts
    <2>2. PICK junk \in Int : x.value = Made(v.type, v.items, junk)
      BY <1>1, <1>5, <2>1 DEF Keeps
    <2>3. v.type \notin {"floating_point32_array", "floating_point64_array"} => x.value = v
      BY <2>2, MadeOK
    <2>4. Arrived(d.data.value, x.value)
      BY <1>2, <1>3, <1>5 DEF GotAll, Valued
    <2> QED
      BY <2>1, <2>3, <2>4 DEF Arrived, Mistreated
  <1> QED
    BY <1>4, <1>5

\* What is in the queue, and what of it goes onto the wire.
LEMMA QueuedOK ==
    ASSUME asked \in Seq(Meant), NEW q \in Queued
    PROVE  /\ q.no \in DOMAIN asked /\ q.m \in MessagesFor(asked[q.no])
           /\ asked[q.no] \in Meant
           /\ OnWire(q) \in Wired /\ OnWire(q).no = q.no
           /\ OnWire(q).type = q.m.type /\ OnWire(q).body = Body(q.m)
  <1>1. q.no \in DOMAIN asked /\ q.m \in MessagesFor(asked[q.no])
    BY DEF Queued
  <1>2. asked[q.no] \in Meant
    BY <1>1, LenProperties, ElementOfSeq
  <1>3. Bodies[q.m] = Body(q.m)
    BY <1>1, <1>2, MessagesForOK
  <1>4. OnWire(q) \in Wired
    BY DEF Wired
  <1>5. OnWire(q) = [no |-> q.no, type |-> q.m.type, body |-> Body(q.m)]
    BY <1>3 DEF OnWire
  <1>6. PICK w : w = OnWire(q)
    OBVIOUS
  <1>7. w.no = q.no /\ w.type = q.m.type /\ w.body = Body(q.m)
    BY <1>5, <1>6
  <1> QED
    BY <1>1, <1>2, <1>4, <1>6, <1>7

LEMMA WiredOK ==
    ASSUME asked \in Seq(Meant), NEW w \in Wired
    PROVE  /\ w.no \in DOMAIN asked
           /\ \E m \in MessagesFor(asked[w.no]) : w.type = m.type /\ w.body = Body(m)
  <1>1. PICK q \in Queued : w = OnWire(q)
    BY DEF Wired
  <1> QED
    BY <1>1, QueuedOK

\* Everything on its way was asked for.
LEMMA NosAsked ==
    ASSUME IInv
    PROVE  Nos(heard) \cup Parsed \cup Nos(wire) \cup Nos(m_outgoing) \subseteq DOMAIN asked
  <1>1. Nos(heard) \subseteq DOMAIN asked
    BY DEF IInv, HeardOK, Nos
  <1>2. Parsed \subseteq DOMAIN asked
    BY DEF IInv, ParserOK, Parsed
  <1>3. Nos(wire) \subseteq DOMAIN asked
    <2>1. ASSUME NEW i \in 1..Len(wire) PROVE wire[i].no \in DOMAIN asked
      <3>1. wire[i] \in Wired
        BY ElementOfSeq DEF IInv, PlacesOK
      <3> QED
        BY <3>1, WiredOK DEF IInv, PlacesOK
    <2> QED
      BY <2>1 DEF Nos
  <1>4. Nos(m_outgoing) \subseteq DOMAIN asked
    <2>1. ASSUME NEW i \in 1..Len(m_outgoing) PROVE m_outgoing[i].no \in DOMAIN asked
      <3>1. m_outgoing[i] \in Queued
        BY ElementOfSeq DEF IInv, PlacesOK
      <3> QED
        BY <3>1, QueuedOK DEF IInv, PlacesOK
    <2> QED
      BY <2>1 DEF Nos
  <1> QED
    BY <1>1, <1>2, <1>3, <1>4

\* A sequence is one of its own elements.
LEMMA OwnSet ==
    ASSUME NEW S, NEW s \in Seq(S)
    PROVE  s \in Seq({s[i] : i \in DOMAIN s})
  <1>1. PICK n \in Nat : n = Len(s) /\ DOMAIN s = 1..n /\ s = [i \in 1..n |-> s[i]]
    BY LenProperties
  <1>2. s \in [1..n -> {s[i] : i \in DOMAIN s}]
    BY <1>1
  <1> QED
    BY <1>2

\* One message more was asked for.
LEMMA AskedGrows ==
    ASSUME IInv, NEW m \in Meant, asked' = Append(asked, m)
    PROVE  \E n \in Nat :
              /\ n = Len(asked) + 1
              /\ asked' \in Seq(Meant) /\ n \in DOMAIN asked' /\ asked'[n] = m
              /\ \A i \in DOMAIN asked : i \in DOMAIN asked' /\ asked'[i] = asked[i]
              /\ Waiting' = IF m.type \in Immediate THEN Waiting ELSE Waiting \cup {n}
              /\ Queued \subseteq Queued' /\ Wired \subseteq Wired'
              /\ \A k \in DOMAIN asked : k < n
              /\ n \notin Waiting
  <1>1. asked \in Seq(Meant)
    BY DEF IInv, PlacesOK
  <1>2. PICK l \in Nat : l = Len(asked) /\ DOMAIN asked = 1..l
    BY <1>1, LenProperties
  <1>3. PICK n \in Nat : n = l + 1
    OBVIOUS
  <1>4. /\ asked' \in Seq(Meant) /\ Len(asked') = n /\ DOMAIN asked' = 1..n
        /\ asked'[n] = m /\ \A i \in 1..l : asked'[i] = asked[i]
    <2>1. /\ asked' \in Seq(Meant) /\ Len(asked') = l + 1
          /\ \A i \in 1..l : asked'[i] = asked[i]
          /\ asked'[l + 1] = m
      BY <1>1, <1>2, AppendProperties
    <2>2. DOMAIN asked' = 1..Len(asked')
      BY <2>1, LenProperties
    <2> QED
      BY <1>3, <2>1, <2>2
  <1>5. 1..n = (1..l) \cup {n} /\ n \notin 1..l /\ n \in 1..n /\ \A k \in 1..l : k < n
    BY <1>3
  <1>6. \A i \in DOMAIN asked : i \in DOMAIN asked' /\ asked'[i] = asked[i]
    BY <1>2, <1>4, <1>5
  <1>7. Waiting' = IF m.type \in Immediate THEN Waiting ELSE Waiting \cup {n}
    <2>1. Waiting = {i \in 1..l : asked[i].type \notin Immediate}
      BY <1>2 DEF Waiting
    <2>2. Waiting' = {i \in 1..n : asked'[i].type \notin Immediate}
      BY <1>4 DEF Waiting
    <2>3. \A i \in 1..l : asked'[i].type \notin Immediate <=> asked[i].type \notin Immediate
      BY <1>4
    <2>4. asked'[n].type \notin Immediate <=> m.type \notin Immediate
      BY <1>4
    <2> QED
      BY <1>5, <2>1, <2>2, <2>3, <2>4
  <1>8. Queued \subseteq Queued'
    <2>1. ASSUME NEW q \in Queued PROVE q \in Queued'
      <3>1. /\ q \in [no : DOMAIN asked, m : Sendable]
            /\ q.m \in MessagesFor(asked[q.no]) /\ q.no \in DOMAIN asked
        BY DEF Queued
      <3>2. q \in [no : DOMAIN asked', m : Sendable]
        BY <1>6, <3>1
      <3>3. q.m \in MessagesFor(asked'[q.no])
        BY <1>6, <3>1
      <3> QED
        BY <3>2, <3>3 DEF Queued
    <2> QED
      BY <2>1
  <1>9. Wired \subseteq Wired'
    BY <1>8 DEF Wired
  <1>10. n \notin Waiting
    BY <1>2, <1>5 DEF Waiting
  <1> QED
    BY <1>2, <1>3, <1>4, <1>5, <1>6, <1>7, <1>8, <1>9, <1>10

\* What does not change as one more is asked for.
LEMMA AskedKeeps ==
    ASSUME IInv, asked' \in Seq(Meant), UNCHANGED <<parser, heard, cuts>>,
           \A i \in DOMAIN asked : i \in DOMAIN asked' /\ asked'[i] = asked[i]
    PROVE  /\ ParserOK' /\ HeardOK' /\ Parsed' = Parsed
           /\ heard' \in Seq(HeardSet') /\ cuts' \in Nat
  <1>1. ParserOK' /\ Parsed' = Parsed
    BY DEF IInv, ParserOK, Busy, Parsed
  <1>2. HeardOK'
    BY DEF IInv, HeardOK
  <1>3. heard' \in Seq(HeardSet') /\ cuts' \in Nat
    BY DEF IInv, PlacesOK, HeardSet
  <1> QED
    BY <1>1, <1>2, <1>3

\* message_queue::enqueue behind the others.
LEMMA EnqueueOK ==
    ASSUME IInv, NEW m \in Meant, Enqueue(m)
    PROVE  IInv'
  <1>1. /\ m.type \notin Immediate /\ asked' = Append(asked, m)
        /\ UNCHANGED <<wire, parser, heard, cuts>>
    BY DEF Enqueue
  <1>2. PICK n \in Nat :
           /\ n = Len(asked) + 1
           /\ asked' \in Seq(Meant) /\ n \in DOMAIN asked' /\ asked'[n] = m
           /\ \A i \in DOMAIN asked : i \in DOMAIN asked' /\ asked'[i] = asked[i]
           /\ Waiting' = IF m.type \in Immediate THEN Waiting ELSE Waiting \cup {n}
           /\ Queued \subseteq Queued' /\ Wired \subseteq Wired'
           /\ \A k \in DOMAIN asked : k < n
           /\ n \notin Waiting
    BY <1>1, AskedGrows
  <1>3. PICK made \in MessagesFor(m) : m_outgoing' = PutBehind([no |-> n, m |-> made])
    BY <1>2 DEF Enqueue
  <1>4. PICK e : e = [no |-> n, m |-> made]
    OBVIOUS
  <1>5. e \in Queued' /\ e.no = n
    <2>1. made \in Sendable
      BY MessagesForOK
    <2> QED
      BY <1>2, <1>4, <2>1 DEF Queued
  <1>6. m_outgoing' = Append(m_outgoing, e)
    BY <1>3, <1>4 DEF PutBehind
  <1>7. m_outgoing \in Seq(Queued') /\ wire' \in Seq(Wired')
    <2>1. m_outgoing \in Seq(Queued) /\ wire \in Seq(Wired)
      BY DEF IInv, PlacesOK
    <2> QED
      BY <1>1, <1>2, <2>1, SeqMonotonic
  <1>8. /\ ParserOK' /\ HeardOK' /\ Parsed' = Parsed
        /\ heard' \in Seq(HeardSet') /\ cuts' \in Nat
    BY <1>1, <1>2, AskedKeeps
  <1>9. PlacesOK'
    <2>1. m_outgoing' \in Seq(Queued')
      BY <1>5, <1>6, <1>7, AppendProperties
    <2> QED
      BY <1>2, <1>7, <1>8, <2>1 DEF PlacesOK
  <1>10. Waiting' = Waiting \cup {n}
    BY <1>1, <1>2
  <1>11. PICK all : all = Nos(heard) \cup Parsed \cup Nos(wire) \cup Nos(m_outgoing)
    OBVIOUS
  <1>12. \A k \in all : k < n
    BY <1>2, <1>11, NosAsked
  <1>13. n \notin all
    BY <1>12
  <1>14. Line(heard, Parsed, wire, m_outgoing, Waiting')
    BY <1>10, <1>11, <1>13, LineGrows DEF IInv, OrderOK
  <1>15. /\ Line(heard, Parsed, wire, Append(m_outgoing, e), Waiting')
         /\ Nos(Append(m_outgoing, e)) = Nos(m_outgoing) \cup {e.no}
    <2>1. Below(heard, Parsed, wire, m_outgoing, e.no)
      BY <1>5, <1>11, <1>12 DEF Below
    <2>2. Line(heard, Parsed, wire, Append(m_outgoing, e), Waiting')
      BY <1>5, <1>7, <1>14, <2>1, LineAppend
    <2>3. Nos(Append(m_outgoing, e)) = Nos(m_outgoing) \cup {e.no}
      <3>1. Nos(Append(m_outgoing, e)) = Plus(Nos(m_outgoing), e.no)
        BY <1>5, <1>7, NosOK
      <3> QED
        BY <3>1 DEF Plus
    <2> QED
      BY <2>2, <2>3
  <1>16. OrderOK'
    BY <1>1, <1>6, <1>8, <1>15 DEF OrderOK
  <1>17. NoneLeftOut'
    <2>1. cuts = 0 => Waiting \subseteq all
      BY <1>11 DEF IInv, NoneLeftOut
    <2>2. Nos(heard') \cup Parsed' \cup Nos(wire') \cup Nos(m_outgoing') = all \cup {n}
      BY <1>1, <1>5, <1>6, <1>8, <1>11, <1>15
    <2> QED
      BY <1>1, <1>10, <2>1, <2>2 DEF NoneLeftOut
  <1> QED
    BY <1>8, <1>9, <1>16, <1>17 DEF IInv

\* message_queue::enqueue with flag_immediate.
LEMMA EnqueueImmediateOK ==
    ASSUME IInv, NEW m \in Meant, EnqueueImmediate(m)
    PROVE  IInv'
  <1>1. /\ m.type \in Immediate /\ asked' = Append(asked, m)
        /\ UNCHANGED <<parser, heard, cuts>>
    BY DEF EnqueueImmediate
  <1>2. PICK n \in Nat :
           /\ n = Len(asked) + 1
           /\ asked' \in Seq(Meant) /\ n \in DOMAIN asked' /\ asked'[n] = m
           /\ \A i \in DOMAIN asked : i \in DOMAIN asked' /\ asked'[i] = asked[i]
           /\ Waiting' = IF m.type \in Immediate THEN Waiting ELSE Waiting \cup {n}
           /\ Queued \subseteq Queued' /\ Wired \subseteq Wired'
           /\ \A k \in DOMAIN asked : k < n
           /\ n \notin Waiting
    BY <1>1, AskedGrows
  <1>3. PICK e : e = [no |-> n, m |-> m]
    OBVIOUS
  <1>4. \/ wire' = Append(wire, OnWire(e)) /\ m_outgoing' = m_outgoing
        \/ m_outgoing' = <<e>> \o m_outgoing /\ wire' = wire
    BY <1>2, <1>3 DEF EnqueueImmediate, PutOff
  <1>5. e \in Queued' /\ e.no = n
    <2>1. m \in MessagesFor(m)
      BY <1>1 DEF MessagesFor, Valued, Immediate
    <2>2. m \in Sendable
      BY <2>1 DEF Sendable
    <2> QED
      BY <1>2, <1>3, <2>1, <2>2 DEF Queued
  <1>6. PICK f : f = OnWire(e)
    OBVIOUS
  <1>7. f \in Wired' /\ f.no = n
    <2>1. f \in Wired'
      BY <1>5, <1>6 DEF Wired
    <2>2. f.no = e.no
      BY <1>6 DEF OnWire
    <2> QED
      BY <1>5, <2>1, <2>2
  <1>8. m_outgoing \in Seq(Queued') /\ wire \in Seq(Wired')
    <2>1. m_outgoing \in Seq(Queued) /\ wire \in Seq(Wired)
      BY DEF IInv, PlacesOK
    <2> QED
      BY <1>2, <2>1, SeqMonotonic
  <1>9. /\ ParserOK' /\ HeardOK' /\ Parsed' = Parsed
        /\ heard' \in Seq(HeardSet') /\ cuts' \in Nat
    BY <1>1, <1>2, AskedKeeps
  <1>10. PlacesOK'
    <2>1. Append(wire, f) \in Seq(Wired')
      BY <1>7, <1>8, AppendProperties
    <2>2. <<e>> \o m_outgoing \in Seq(Queued')
      <3>1. <<e>> \in Seq(Queued')
        BY <1>5
      <3> QED
        BY <1>8, <3>1, ConcatProperties
    <2> QED
      BY <1>2, <1>4, <1>6, <1>8, <1>9, <2>1, <2>2 DEF PlacesOK
  <1>11. Waiting' = Waiting
    BY <1>1, <1>2
  <1>12. f.no \notin Waiting /\ e.no \notin Waiting
    BY <1>2, <1>5, <1>7
  <1>13. /\ Line(heard, Parsed, Append(wire, f), m_outgoing, Waiting)
         /\ Nos(Append(wire, f)) = Nos(wire) \cup {f.no}
         /\ Line(heard, Parsed, wire, <<e>> \o m_outgoing, Waiting)
         /\ Nos(<<e>> \o m_outgoing) = Nos(m_outgoing) \cup {e.no}
    <2>1. Line(heard, Parsed, wire, m_outgoing, Waiting)
      BY DEF IInv, OrderOK
    <2>2. Line(heard, Parsed, Append(wire, f), m_outgoing, Waiting)
      BY <1>5, <1>7, <1>8, <1>12, <2>1, LineImmediate
    <2>3. Nos(Append(wire, f)) = Nos(wire) \cup {f.no}
      <3>1. Nos(Append(wire, f)) = Plus(Nos(wire), f.no)
        BY <1>7, <1>8, NosOK
      <3> QED
        BY <3>1 DEF Plus
    <2>4. Line(heard, Parsed, wire, <<e>> \o m_outgoing, Waiting)
      BY <1>5, <1>7, <1>8, <1>12, <2>1, LineImmediate
    <2>5. Nos(<<e>> \o m_outgoing) = Nos(m_outgoing) \cup {e.no}
      <3>1. Nos(<<e>> \o m_outgoing) = Plus(Nos(m_outgoing), e.no)
        BY <1>5, <1>8, NosOK
      <3> QED
        BY <3>1 DEF Plus
    <2> QED
      BY <2>2, <2>3, <2>4, <2>5
  <1>14. OrderOK'
    BY <1>1, <1>4, <1>6, <1>9, <1>11, <1>13 DEF OrderOK
  <1>15. NoneLeftOut'
    <2>1. cuts = 0 =>
             Waiting \subseteq Nos(heard) \cup Parsed \cup Nos(wire) \cup Nos(m_outgoing)
      BY DEF IInv, NoneLeftOut
    <2>2. Nos(heard) \cup Parsed \cup Nos(wire) \cup Nos(m_outgoing)
             \subseteq Nos(heard') \cup Parsed' \cup Nos(wire') \cup Nos(m_outgoing')
      BY <1>1, <1>4, <1>6, <1>9, <1>13
    <2> QED
      BY <1>1, <1>11, <2>1, <2>2 DEF NoneLeftOut
  <1> QED
    BY <1>9, <1>10, <1>14, <1>15 DEF IInv

\* As many as can be written are taken.
LEMMA MostWritten ==
    ASSUME NEW l \in Nat, NEW T, T \subseteq 1..l, T # {}
    PROVE  (CHOOSE k \in T : \A j \in T : j <= k) \in T
  <1>1. PICK D : D = {l - k : k \in T}
    OBVIOUS
  <1>2. D \subseteq Nat /\ D # {}
    <2>1. \A k \in 1..l : l - k \in Nat
      OBVIOUS
    <2> QED
      BY <1>1, <2>1
  <1>3. PICK R : R = OpToRel(<, Nat)
    OBVIOUS
  <1>4. IsWellFoundedOn(R, Nat)
    BY <1>3, NatLessThanWellFounded
  <1>5. PICK d \in D : \A c \in D : ~(<<c, d>> \in R)
    BY <1>2, <1>4, WFMin
  <1>6. \A c \in D : ~(c < d)
    BY <1>2, <1>3, <1>5 DEF OpToRel
  <1>7. PICK k \in T : d = l - k
    BY <1>1
  <1>8. ASSUME NEW j \in T PROVE j <= k
    <2>1. l - j \in D /\ j \in 1..l /\ k \in 1..l
      BY <1>1
    <2>2. ~(l - j < l - k)
      BY <1>6, <1>7, <2>1
    <2> QED
      BY <2>1, <2>2
  <1> QED
    BY <1>8

\* What does not change as messages only move.
LEMMA AskedStays ==
    ASSUME asked' = asked
    PROVE  Waiting' = Waiting /\ Queued' = Queued /\ Wired' = Wired
  BY DEF Waiting, Queued, Wired

\* message_queue::process
LEMMA ProcessOK ==
    ASSUME IInv, Process
    PROVE  IInv'
  <1>1. Writable # {} /\ UNCHANGED <<asked, parser, heard, cuts>>
    BY DEF Process
  <1>2. PICK l \in Nat : l = Len(m_outgoing)
    BY LenProperties DEF IInv, PlacesOK
  <1>3. Writable \subseteq 1..l
    BY <1>2 DEF Writable
  <1>4. PICK n \in 1..l : n = CHOOSE k \in Writable : \A j \in Writable : j <= k
    BY <1>1, <1>3, MostWritten
  <1>5. PICK x : x = [i \in 1..n |-> OnWire(m_outgoing[i])]
    OBVIOUS
  <1>6. wire' = wire \o x /\ m_outgoing' = SubSeq(m_outgoing, n + 1, l)
    BY <1>2, <1>4, <1>5 DEF Process
  <1>7. PICK a : a = SubSeq(m_outgoing, 1, n)
    OBVIOUS
  <1>8. PICK b : b = SubSeq(m_outgoing, n + 1, l)
    OBVIOUS
  <1>9. /\ asked \in Seq(Meant) /\ m_outgoing \in Seq(Queued) /\ wire \in Seq(Wired)
        /\ Line(heard, Parsed, wire, m_outgoing, Waiting)
    BY DEF IInv, PlacesOK, OrderOK
  <1>10. /\ a \in Seq(Queued) /\ b \in Seq(Queued) /\ a \o b = m_outgoing
         /\ Len(a) = n /\ \A i \in 1..n : a[i] = m_outgoing[i]
    <2>1. n \in 0..Len(m_outgoing)
      BY <1>2
    <2> QED
      BY <1>2, <1>7, <1>8, <1>9, <2>1, CutOK
  <1>11. ASSUME NEW i \in 1..n PROVE x[i] \in Wired /\ x[i].no = a[i].no
    <2>1. PICK q \in Queued : q = a[i]
      BY <1>10, ElementOfSeq
    <2>2. x[i] = OnWire(q)
      BY <1>5, <1>10, <2>1
    <2> QED
      BY <1>9, <2>1, <2>2, QueuedOK
  <1>12. x \in Seq(Wired) /\ Len(x) = n
    <2>1. x \in [1..n -> Wired]
      BY <1>5, <1>11
    <2>2. x \in Seq(Wired)
      BY <2>1
    <2> QED
      BY <2>1, <2>2, LenProperties
  <1>13. Nos(x) = Nos(a)
    BY <1>10, <1>11, <1>12 DEF Nos
  <1>14. Rising(a, Waiting) => Rising(x, Waiting)
    BY <1>10, <1>11, <1>12 DEF Rising
  <1>15. Waiting' = Waiting /\ Queued' = Queued /\ Wired' = Wired
    BY <1>1, AskedStays
  <1>16. ParserOK' /\ HeardOK' /\ Parsed' = Parsed /\ heard' \in Seq(HeardSet')
    BY <1>1 DEF IInv, ParserOK, HeardOK, Busy, Parsed, PlacesOK, HeardSet
  <1>17. PlacesOK'
    <2>1. wire \o x \in Seq(Wired)
      BY <1>9, <1>12, ConcatProperties
    <2> QED
      BY <1>1, <1>6, <1>8, <1>9, <1>10, <1>15, <1>16, <2>1 DEF IInv, PlacesOK
  <1>18. Line(heard, Parsed, wire, a \o b, Waiting)
    BY <1>9, <1>10
  <1>19. Line(heard, Parsed, wire \o x, b, Waiting)
    BY <1>9, <1>10, <1>12, <1>13, <1>14, <1>18, LineProcess
  <1>20. Nos(wire \o x) \cup Nos(b) = Nos(wire) \cup Nos(m_outgoing)
    <2>1. Nos(wire \o x) = Nos(wire) \cup Nos(x)
      BY <1>9, <1>12, JoinOK
    <2>2. Nos(a \o b) = Nos(a) \cup Nos(b)
      BY <1>10, JoinOK
    <2> QED
      BY <1>10, <1>13, <2>1, <2>2
  <1>21. OrderOK'
    BY <1>1, <1>6, <1>8, <1>15, <1>16, <1>19 DEF OrderOK
  <1>22. NoneLeftOut'
    <2>1. Nos(wire') \cup Nos(m_outgoing') = Nos(wire) \cup Nos(m_outgoing)
      BY <1>6, <1>8, <1>20
    <2> QED
      BY <1>1, <1>15, <1>16, <2>1 DEF IInv, NoneLeftOut
  <1> QED
    BY <1>16, <1>17, <1>21, <1>22 DEF IInv

\* A connection lost.
LEMMA ReconnectOK ==
    ASSUME IInv, Reconnect
    PROVE  IInv'
  <1>1. m_outgoing' = <<>> /\ cuts' = cuts + 1 /\ UNCHANGED <<asked, parser, heard>>
    BY DEF Reconnect
  <1>2. PICK n \in 0..Len(wire) : \E k \in n..Len(wire) :
            wire' = SubSeq(wire, 1, n) \o SubSeq(wire, k + 1, Len(wire))
    BY DEF Reconnect
  <1>2a. PICK k \in n..Len(wire) :
            wire' = SubSeq(wire, 1, n) \o SubSeq(wire, k + 1, Len(wire))
    BY <1>2
  <1>3. wire \in Seq(Wired) /\ Line(heard, Parsed, wire, m_outgoing, Waiting) /\ cuts \in Nat
    BY DEF IInv, PlacesOK, OrderOK
  <1>4. PICK u, a, b, c : /\ u = SubSeq(wire, 1, k) /\ c = SubSeq(wire, k + 1, Len(wire))
                          /\ a = SubSeq(u, 1, n) /\ b = SubSeq(u, n + 1, Len(u))
    OBVIOUS
  <1>5. k \in 0..Len(wire) /\ n \in 0..k /\ n \in Nat /\ k \in Nat
    <2>1. Len(wire) \in Nat
      BY <1>3, LenProperties
    <2> QED
      BY <1>2a, <2>1
  <1>6. /\ a \in Seq(Wired) /\ b \in Seq(Wired) /\ c \in Seq(Wired)
        /\ wire = a \o (b \o c) /\ wire' = a \o c
    <2>1. /\ u \in Seq(Wired) /\ c \in Seq(Wired) /\ u \o c = wire
          /\ Len(u) = k /\ \A i \in 1..k : u[i] = wire[i]
      BY <1>3, <1>4, <1>5, CutOK
    <2>2. /\ a \in Seq(Wired) /\ b \in Seq(Wired) /\ a \o b = u
          /\ Len(a) = n /\ \A i \in 1..n : a[i] = u[i]
      <3>1. n \in 0..Len(u) /\ u \in Seq(Wired)
        BY <1>5, <2>1
      <3>2. /\ SubSeq(u, 1, n) \in Seq(Wired) /\ SubSeq(u, n + 1, Len(u)) \in Seq(Wired)
            /\ SubSeq(u, 1, n) \o SubSeq(u, n + 1, Len(u)) = u
            /\ Len(SubSeq(u, 1, n)) = n /\ \A i \in 1..n : SubSeq(u, 1, n)[i] = u[i]
        BY <3>1, CutOK
      <3> QED
        BY <1>4, <3>2
    <2>3. PICK f : f = SubSeq(wire, 1, n)
      OBVIOUS
    <2>4. f \in Seq(Wired) /\ Len(f) = n /\ \A i \in 1..n : f[i] = wire[i]
      BY <1>2, <1>3, <2>3, CutOK
    <2>5. \A i \in 1..n : a[i] = f[i]
      <3>1. \A i \in 1..n : i \in 1..k
        BY <1>5
      <3> QED
        BY <2>1, <2>2, <2>4, <3>1
    <2>6. a = f
      BY <2>2, <2>4, <2>5, SeqEqual
    <2>7. (a \o b) \o c = a \o (b \o c)
      <3>1. a \in Seq(Wired) /\ b \in Seq(Wired) /\ c \in Seq(Wired)
        BY <2>1, <2>2
      <3> QED
        BY <3>1, ConcatAssociative
    <2>8. wire' = f \o c
      BY <1>2a, <1>4, <2>3
    <2> QED
      BY <2>1, <2>2, <2>6, <2>7, <2>8
  <1>7. Waiting' = Waiting /\ Queued' = Queued /\ Wired' = Wired
    BY <1>1, AskedStays
  <1>8. ParserOK' /\ HeardOK' /\ Parsed' = Parsed /\ heard' \in Seq(HeardSet')
    BY <1>1 DEF IInv, ParserOK, HeardOK, Busy, Parsed, PlacesOK, HeardSet
  <1>9. PlacesOK'
    <2>1. m_outgoing' \in Seq(Queued')
      BY <1>1, EmptySeq
    <2> QED
      <3>1. a \o c \in Seq(Wired)
        BY <1>6, ConcatProperties
      <3>2. wire' \in Seq(Wired') /\ heard' \in Seq(HeardSet')
        BY <1>6, <1>7, <1>8, <3>1
      <3>3. asked' \in Seq(Meant) /\ cuts' \in Nat
        BY <1>1, <1>3 DEF IInv, PlacesOK
      <3> QED
        BY <2>1, <3>2, <3>3 DEF PlacesOK
  <1>10. Line(heard, Parsed, a \o (b \o c), m_outgoing, Waiting)
    BY <1>3, <1>6
  <1>11. Line(heard, Parsed, a \o c, <<>>, Waiting)
    BY <1>6, <1>10, LineCut
  <1>12. OrderOK'
    BY <1>1, <1>6, <1>7, <1>8, <1>11 DEF OrderOK
  <1>13. NoneLeftOut'
    BY <1>1, <1>3 DEF NoneLeftOut
  <1> QED
    BY <1>8, <1>9, <1>12, <1>13 DEF IInv

\* set_data and reset
LEMMA OnMessageOK ==
    ASSUME IInv, OnMessage
    PROVE  IInv'
  <1>1. /\ Idle /\ wire # <<>> /\ wire' = Tail(wire)
        /\ UNCHANGED <<asked, m_outgoing, heard, cuts>>
    BY DEF OnMessage
  <1>2. PICK e : e = Head(wire)
    OBVIOUS
  <1>3. parser' = SetData(parser, e)
    BY <1>2 DEF OnMessage
  <1>4. /\ asked \in Seq(Meant) /\ wire \in Seq(Wired) /\ Shape(parser)
        /\ Line(heard, Parsed, wire, m_outgoing, Waiting)
    BY DEF IInv, PlacesOK, ParserOK, OrderOK
  <1>5. e \in Wired /\ Tail(wire) \in Seq(Wired) /\ <<e>> \o Tail(wire) = wire
    BY <1>1, <1>2, <1>4, TakeOK
  <1>6. e.no \in DOMAIN asked
    BY <1>4, <1>5, WiredOK
  <1>7. PICK m \in MessagesFor(asked[e.no]) : e.type = m.type /\ e.body = Body(m)
    BY <1>4, <1>5, WiredOK
  <1>8. PICK p : p = SetData(parser, e)
    OBVIOUS
  <1>9. p = [no |-> e.no, m_type |-> e.type, rest |-> e.body, m_state |-> "in_state",
             m_user_state |-> "check_type", m_error_code |-> 0, m_data |-> parser.m_data]
    BY <1>4, <1>8 DEF SetData, Shape
  <1>10. /\ p = [no |-> p.no, m_type |-> p.m_type, rest |-> p.rest, m_state |-> p.m_state,
                 m_user_state |-> p.m_user_state, m_error_code |-> p.m_error_code,
                 m_data |-> p.m_data]
         /\ p.no = e.no /\ p.m_type = e.type /\ p.rest = e.body /\ p.m_state = "in_state"
         /\ p.m_user_state = "check_type" /\ p.m_data = parser.m_data
    BY <1>9
  <1>11. Shape(p)
    BY <1>4, <1>10 DEF Shape
  <1>12. Parsing(p, m)
    BY <1>7, <1>10 DEF Parsing, Reading
  <1>13. parser' = p
    BY <1>3, <1>8
  <1>14. Parsed = {} /\ Parsed' = {e.no}
    BY <1>1, <1>10, <1>13 DEF Idle, Busy, Parsed
  <1>15. ParserOK'
    BY <1>1, <1>6, <1>7, <1>10, <1>11, <1>12, <1>13 DEF ParserOK
  <1>16. Waiting' = Waiting /\ Queued' = Queued /\ Wired' = Wired
    BY <1>1, AskedStays
  <1>17. PlacesOK'
    BY <1>1, <1>5, <1>16 DEF IInv, PlacesOK, HeardSet
  <1>18. HeardOK'
    BY <1>1 DEF IInv, HeardOK
  <1>19. Line(heard, {}, <<e>> \o Tail(wire), m_outgoing, Waiting)
    BY <1>4, <1>5, <1>14
  <1>20. Line(heard, {e.no}, Tail(wire), m_outgoing, Waiting)
    BY <1>5, <1>19, LineTake
  <1>21. Nos(wire) = Plus(Nos(Tail(wire)), e.no)
    <2>1. Nos(<<e>> \o Tail(wire)) = Plus(Nos(Tail(wire)), e.no)
      BY <1>5, NosOK
    <2> QED
      BY <1>5, <2>1
  <1>22. OrderOK'
    BY <1>1, <1>14, <1>16, <1>20 DEF OrderOK
  <1>23. NoneLeftOut'
    <2>1. Nos(heard') \cup Parsed' \cup Nos(wire') \cup Nos(m_outgoing')
             = Nos(heard) \cup Parsed \cup Nos(wire) \cup Nos(m_outgoing)
      BY <1>1, <1>14, <1>21 DEF Plus
    <2> QED
      BY <1>1, <1>16, <2>1 DEF IInv, NoneLeftOut
  <1> QED
    BY <1>15, <1>17, <1>18, <1>22, <1>23 DEF IInv

\* process_state
LEMMA ProcessStateOK ==
    ASSUME IInv, ProcessState
    PROVE  IInv'
  <1>1. parser.m_state = "in_state" /\ UNCHANGED <<asked, m_outgoing, wire, heard, cuts>>
    BY DEF ProcessState
  <1>2. PICK junk \in Int : parser' = Processed(parser, junk)
    BY JunkAssumption DEF ProcessState
  <1>3. asked \in Seq(Meant) /\ Shape(parser) /\ parser.no \in DOMAIN asked
    BY <1>1 DEF IInv, PlacesOK, ParserOK, Busy
  <1>4. PICK m \in MessagesFor(asked[parser.no]) : Parsing(parser, m)
    BY <1>1 DEF IInv, ParserOK, Busy
  <1>5. m \in Message
    <2>1. asked[parser.no] \in Meant
      BY <1>3, LenProperties, ElementOfSeq
    <2> QED
      BY <1>4, <2>1, MessagesForOK
  <1>6. PICK p : p = parser
    OBVIOUS
  <1>7. Good(Processed(p, junk), p, m)
    BY <1>1, <1>3, <1>4, <1>5, <1>6, ProcessedOK
  <1>8. PICK q : q = Processed(p, junk)
    OBVIOUS
  <1>9. Shape(q) /\ q.no = p.no /\ q.m_state \in {"in_state", "end"} /\ Parsing(q, m)
    BY <1>7, <1>8 DEF Good
  <1>10. parser' = q
    BY <1>2, <1>6, <1>8
  <1>11. ParserOK'
    BY <1>1, <1>3, <1>4, <1>6, <1>9, <1>10 DEF ParserOK
  <1>12. Parsed' = Parsed
    BY <1>1, <1>6, <1>9, <1>10 DEF Parsed, Busy
  <1>13. Waiting' = Waiting /\ Queued' = Queued /\ Wired' = Wired
    BY <1>1, AskedStays
  <1>14. PlacesOK' /\ HeardOK'
    BY <1>1, <1>13 DEF IInv, PlacesOK, HeardOK, HeardSet
  <1>15. OrderOK' /\ NoneLeftOut'
    BY <1>1, <1>12, <1>13 DEF IInv, OrderOK, NoneLeftOut
  <1> QED
    BY <1>11, <1>14, <1>15 DEF IInv

\* What the handler is given.
LEMMA HandleOK ==
    ASSUME IInv, Handle
    PROVE  IInv'
  <1>1. /\ parser.m_state = "end" /\ parser' = [parser EXCEPT !.m_state = "handled"]
        /\ UNCHANGED <<asked, m_outgoing, wire, cuts>>
    BY DEF IInv, ParserOK, Handle
  <1>2. PICK e : e = [no |-> parser.no, type |-> parser.m_type, data |-> parser.m_data]
    OBVIOUS
  <1>3. heard' = Append(heard, e)
    BY <1>1, <1>2 DEF Handle
  <1>4. PICK m \in MessagesFor(asked[parser.no]) : Parsing(parser, m)
    BY <1>1 DEF IInv, ParserOK, Busy
  <1>5. /\ e.no = parser.no /\ e.no \in DOMAIN asked /\ m \in MessagesFor(asked[e.no])
        /\ HeardAs(e, m)
    BY <1>1, <1>2, <1>4 DEF IInv, ParserOK, Busy, Parsing, HeardAs
  <1>6. PICK S : S = HeardSet \cup {e}
    OBVIOUS
  <1>7. heard \in Seq(S) /\ e \in S
    <2>1. heard \in Seq(HeardSet) /\ HeardSet \subseteq S
      BY <1>6 DEF IInv, PlacesOK
    <2> QED
      BY <1>6, <2>1, SeqMonotonic
  <1>8. PICK l \in Nat : l = Len(heard)
    BY <1>7, LenProperties
  <1>9. /\ heard' \in Seq(S) /\ Len(heard') = l + 1
        /\ \A i \in 1..l : heard'[i] = heard[i]
        /\ heard'[l + 1] = e
    BY <1>3, <1>7, <1>8, AppendProperties
  <1>10. heard' \in Seq(HeardSet')
    BY <1>9, OwnSet DEF HeardSet
  <1>11. HeardOK'
    <2>1. ASSUME NEW i \in 1..l
          PROVE  /\ heard'[i].no \in DOMAIN asked
                 /\ \E x \in MessagesFor(asked[heard'[i].no]) : HeardAs(heard'[i], x)
      BY <1>8, <1>9 DEF IInv, HeardOK
    <2>2. \A i \in 1..(l + 1) : i \in 1..l \/ i = l + 1
      OBVIOUS
    <2>3. ASSUME NEW i \in 1..(l + 1)
          PROVE  /\ heard'[i].no \in DOMAIN asked
                 /\ \E x \in MessagesFor(asked[heard'[i].no]) : HeardAs(heard'[i], x)
      <3>1. CASE i \in 1..l
        BY <2>1, <3>1
      <3>2. CASE i = l + 1
        <4>1. heard'[i] = e
          BY <1>9, <3>2
        <4> QED
          BY <1>5, <4>1
      <3> QED
        BY <2>2, <3>1, <3>2
    <2> QED
      BY <1>1, <1>9, <2>3 DEF HeardOK
  <1>12. /\ Shape(parser') /\ parser'.m_state = "handled"
    <2>1. Shape(parser)
      BY DEF IInv, ParserOK
    <2>2. parser' = [no |-> parser.no, m_type |-> parser.m_type, rest |-> parser.rest,
                     m_state |-> "handled", m_user_state |-> parser.m_user_state,
                     m_error_code |-> parser.m_error_code, m_data |-> parser.m_data]
      BY <1>1, <2>1 DEF Shape
    <2> QED
      BY <2>1, <2>2 DEF Shape
  <1>13. ParserOK' /\ Parsed = {e.no} /\ Parsed' = {}
    BY <1>1, <1>5, <1>12 DEF ParserOK, Parsed, Busy
  <1>14. Waiting' = Waiting /\ Queued' = Queued /\ Wired' = Wired
    BY <1>1, AskedStays
  <1>15. PlacesOK'
    BY <1>1, <1>10, <1>14 DEF IInv, PlacesOK
  <1>16. Line(heard, {e.no}, wire, m_outgoing, Waiting)
    BY <1>13 DEF IInv, OrderOK
  <1>17. Line(Append(heard, e), {}, wire, m_outgoing, Waiting)
    BY <1>7, <1>16, LineHear
  <1>18. OrderOK'
    BY <1>1, <1>3, <1>13, <1>14, <1>17 DEF OrderOK
  <1>19. NoneLeftOut'
    <2>1. Nos(Append(heard, e)) = Plus(Nos(heard), e.no)
      BY <1>7, NosOK
    <2>2. Nos(heard') \cup Parsed' \cup Nos(wire') \cup Nos(m_outgoing')
             = Nos(heard) \cup Parsed \cup Nos(wire) \cup Nos(m_outgoing)
      BY <1>1, <1>3, <1>13, <2>1 DEF Plus
    <2> QED
      BY <1>1, <1>14, <2>2 DEF IInv, NoneLeftOut
  <1> QED
    BY <1>11, <1>13, <1>15, <1>18, <1>19 DEF IInv

-----------------------------------------------------------------------------
\* Nothing was sent yet.
LEMMA InitOK == Init => IInv
  <1> SUFFICES ASSUME Init PROVE IInv
    OBVIOUS
  <1>1. /\ asked = <<>> /\ m_outgoing = <<>> /\ wire = <<>> /\ heard = <<>> /\ cuts = 0
        /\ parser.m_state = "start"
    BY DEF Init
  <1>2. Shape(parser)
    BY DEF Init, NoData, Shape, DataShape
  <1>3. PlacesOK
    BY <1>1, EmptySeq DEF PlacesOK
  <1>4. ParserOK /\ Parsed = {}
    BY <1>1, <1>2 DEF ParserOK, Parsed, Busy
  <1>5. Len(heard) = 0 /\ Len(wire) = 0 /\ Len(m_outgoing) = 0
    BY <1>1, EmptySeq
  <1>6. 1..0 = {}
    OBVIOUS
  <1>7. HeardOK
    BY <1>5, <1>6 DEF HeardOK
  <1>8. Nos(heard) = {} /\ Nos(wire) = {} /\ Nos(m_outgoing) = {}
    BY <1>5, <1>6 DEF Nos
  <1>9. OrderOK
    <2>1. Rising(heard, Waiting) /\ Rising(wire, Waiting) /\ Rising(m_outgoing, Waiting)
      BY <1>5, <1>6 DEF Rising
    <2> QED
      BY <1>4, <1>8, <2>1 DEF OrderOK, Line, Before
  <1>10. NoneLeftOut
    <2>1. DOMAIN asked = {}
      BY <1>1
    <2> QED
      BY <2>1 DEF NoneLeftOut, Waiting
  <1> QED
    BY <1>3, <1>4, <1>7, <1>9, <1>10 DEF IInv

LEMMA StepOK == IInv /\ [Next]_vars => IInv'
  <1> SUFFICES ASSUME IInv, [Next]_vars PROVE IInv'
    OBVIOUS
  <1>1. CASE UNCHANGED vars
    <2>1. UNCHANGED <<asked, m_outgoing, wire, parser, heard, cuts>>
      BY <1>1 DEF vars
    <2>2. Waiting' = Waiting /\ Queued' = Queued /\ Wired' = Wired
      BY <2>1, AskedStays
    <2>3. Parsed' = Parsed /\ HeardSet' = HeardSet
      BY <2>1 DEF Parsed, Busy, HeardSet
    <2> QED
      BY <2>1, <2>2, <2>3
      DEF IInv, PlacesOK, ParserOK, HeardOK, OrderOK, NoneLeftOut, Busy
  <1>2. ASSUME NEW m \in Meant, Enqueue(m) PROVE IInv'
    BY <1>2, EnqueueOK
  <1>3. ASSUME NEW m \in Meant, EnqueueImmediate(m) PROVE IInv'
    BY <1>3, EnqueueImmediateOK
  <1>4. CASE Process
    BY <1>4, ProcessOK
  <1>5. CASE Reconnect
    BY <1>5, ReconnectOK
  <1>6. CASE OnMessage
    BY <1>6, OnMessageOK
  <1>7. CASE ProcessState
    BY <1>7, ProcessStateOK
  <1>8. CASE Handle
    BY <1>8, HandleOK
  <1> QED
    BY <1>1, <1>2, <1>3, <1>4, <1>5, <1>6, <1>7, <1>8 DEF Next, Receiver

LEMMA Invariance == Spec => []IInv
  BY InitOK, StepOK, PTL DEF Spec

\* The parser never gives up on a message and leaves nothing of it unread: every
\* transition of message_parser reads what message_serializer has written there.
THEOREM MessagesParsedToTheEnd == Spec => []ParsedToTheEnd
  <1>1. IInv => ParsedToTheEnd
    <2>1. ASSUME IInv, parser.m_state = "end" PROVE parser.rest = <<>>
      <3>1. \E m \in MessagesFor(asked[parser.no]) : Parsing(parser, m)
        BY <2>1 DEF IInv, ParserOK, Busy
      <3> QED
        BY <2>1, <3>1 DEF Parsing
    <2> QED
      BY <2>1 DEF IInv, ParserOK, ParsedToTheEnd
  <1> QED
    BY <1>1, Invariance, PTL

\* The handler is given what the program at the other end meant, whatever number,
\* name or value that was, but for values of the three types the code mistreats.
THEOREM MessagesArriveAsMeant == Spec => []ArrivesAsMeant
  <1>1. ASSUME IInv, NEW i \in DOMAIN heard
        PROVE  LET d == heard[i]
                   m == asked[d.no]
               IN  /\ SameFields(d, m)
                   /\ Valued(m) /\ m.value.type \notin Mistreated => d.data.value = m.value
                   /\ Valued(m) /\ m.value.type = "floating_point64" =>
                         d.data.value.items[1][1] = m.value.items[1][1]
    <2>1. i \in 1..Len(heard)
      BY <1>1, LenProperties DEF IInv, PlacesOK
    <2>2. PICK d : d = heard[i]
      OBVIOUS
    <2>3. PICK m \in Meant : m = asked[d.no]
      <3>1. d.no \in DOMAIN asked /\ asked \in Seq(Meant)
        BY <1>1, <2>1, <2>2 DEF IInv, PlacesOK, HeardOK
      <3> QED
        BY <3>1, LenProperties, ElementOfSeq
    <2>4. PICK x \in MessagesFor(m) : HeardAs(d, x)
      BY <1>1, <2>1, <2>2, <2>3 DEF IInv, HeardOK
    <2>5. SameFields(d, m)
      BY <2>4, HeardAsMeant
    <2>6. Valued(m) /\ m.value.type \notin Mistreated => d.data.value = m.value
      BY <2>4, HeardAsMeant
    <2>7. Valued(m) /\ m.value.type = "floating_point64" =>
             d.data.value.items[1][1] = m.value.items[1][1]
      BY <2>4, HeardAsMeant
    <2> QED
      BY <2>2, <2>3, <2>5, <2>6, <2>7
  <1>2. IInv => ArrivesAsMeant
    BY <1>1 DEF ArrivesAsMeant
  <1> QED
    BY <1>2, Invariance, PTL

\* Whatever waits in the queue is heard in the order it was asked for, without a gap
\* as long as no connection was lost: neither the queue, which puts off what it cannot
\* write, nor the loop that stops at the first failure reorders or skips anything.
THEOREM MessagesNotOvertaken == Spec => []NoneOvertaken
  <1>1. ASSUME IInv, NEW i \in DOMAIN heard, Waits(heard[i].no)
        PROVE  /\ \A j \in 1..(i - 1) :
                      Waits(heard[j].no) => heard[j].no < heard[i].no
               /\ cuts = 0 => \A n \in 1..(heard[i].no - 1) : Waits(n) => n \in HeardOf
    <2>1. PICK l \in Nat : l = Len(heard) /\ DOMAIN heard = 1..l
      BY <1>1, LenProperties DEF IInv, PlacesOK
    <2>2. \A n : Waits(n) <=> n \in Waiting
      BY DEF Waits, Waiting
    <2>3. Line(heard, Parsed, wire, m_outgoing, Waiting)
      BY <1>1 DEF IInv, OrderOK
    <2>4. ASSUME NEW j \in 1..(i - 1), Waits(heard[j].no)
          PROVE  heard[j].no < heard[i].no
      <3>1. j \in 1..l /\ i \in 1..l /\ j < i
        BY <2>1
      <3>2. heard[j].no \in Waiting /\ heard[i].no \in Waiting
        BY <1>1, <2>2, <2>4
      <3> QED
        BY <2>1, <2>3, <3>1, <3>2 DEF Line, Rising
    <2>5. PICK k : k = heard[i].no
      OBVIOUS
    <2>6. k \in Nos(heard) \cap Waiting /\ HeardOf = Nos(heard)
      BY <1>1, <2>1, <2>2, <2>5 DEF Nos, HeardOf
    <2>7. k \in Nat
      <3>1. asked \in Seq(Meant)
        BY <1>1 DEF IInv, PlacesOK
      <3>2. k \in DOMAIN asked
        BY <2>6 DEF Waiting
      <3> QED
        BY <3>1, <3>2, LenProperties
    <2>8. ASSUME cuts = 0, NEW n \in 1..(k - 1), Waits(n) PROVE n \in HeardOf
      <3>1. n \in Waiting
        BY <2>2, <2>8
      <3>2. n \in Nos(heard) \cup Parsed \cup Nos(wire) \cup Nos(m_outgoing)
        BY <1>1, <2>8, <3>1 DEF IInv, NoneLeftOut
      <3>3. ~(k < n)
        BY <2>7
      <3>4. n \notin Parsed /\ n \notin Nos(wire) /\ n \notin Nos(m_outgoing)
        BY <2>3, <2>6, <3>1, <3>3 DEF Line, Before
      <3> QED
        BY <2>6, <3>2, <3>4
    <2> QED
      BY <2>4, <2>5, <2>8
  <1>2. IInv => NoneOvertaken
    BY <1>1 DEF NoneOvertaken
  <1> QED
    BY <1>2, Invariance, PTL
============================================================================
