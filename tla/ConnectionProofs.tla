-------------------------- MODULE ConnectionProofs --------------------------
(***************************************************************************)
(* What one connection does: its bytes arrive in order and whole           *)
(* (Transport), and the time sync that runs over it measures right (Clock).*)
(*                                                                         *)
(* A buffer that wraps around is a sequence to who writes and reads it.    *)
(* The stream of a connection is then the cells of three such sequences,   *)
(* the reader's buffer, the kernel's and the writer's, and each step of    *)
(* either end moves a front or a back of it: the invariant says that every *)
(* header in the stream has its own body behind it and that numbers rise.  *)
(*                                                                         *)
(* Of the clock: in the client's own system time a request was stamped     *)
(* before it was answered, and both happened before now.                   *)
(***************************************************************************)
EXTENDS Transport, Clock, SequenceTheorems, WellFoundedInduction, TLAPS

-----------------------------------------------------------------------------
(* The ring buffer.                                                         *)

\* A buffer with cells of S.
Ring(S) == [cells: [Positions -> S], read: Positions, write: Positions]

\* A position goes round once at most.
LEMMA Round ==
    ASSUME NEW at \in Positions, NEW n \in 0..Size
    PROVE  /\ Advance(at, n) \in Positions
           /\ Advance(at, n) = IF at + n < Size THEN at + n ELSE at + n - Size
  <1>1. Size \in Nat /\ Size > 1 /\ at \in Nat /\ n \in Nat /\ at < Size /\ n <= Size
    BY SizeAssumption DEF Positions
  <1>2. CASE at + n < Size
    BY <1>1, <1>2 DEF Advance, Positions
  <1>3. CASE at + n >= Size
    <2>1. (at + n) % Size = at + n - Size
      BY <1>1, <1>3
    <2> QED
      BY <1>1, <1>3, <2>1 DEF Advance, Positions
  <1> QED
    BY <1>1, <1>2, <1>3

\* How far ahead of one position another one is.
LEMMA Distance ==
    ASSUME NEW i \in Positions, NEW at \in Positions
    PROVE  (i - at) % Size = IF at <= i THEN i - at ELSE i - at + Size
  <1>1. Size \in Nat /\ Size > 1 /\ at \in Nat /\ i \in Nat /\ at < Size /\ i < Size
    BY SizeAssumption DEF Positions
  <1>2. CASE at <= i
    BY <1>1, <1>2
  <1>3. CASE ~(at <= i)
    BY <1>1, <1>3
  <1> QED
    BY <1>2, <1>3

\* What is held, cell by cell.
LEMMA Holds ==
    ASSUME NEW S, NEW b \in Ring(S), NEW n, n = read_available(b)
    PROVE  /\ n \in 0..(Size - 1) /\ Room(b) = Size - n
           /\ Contents(b) \in Seq(S) /\ Len(Contents(b)) = n
           /\ \A i \in 1..n : Contents(b)[i] = b.cells[Advance(b.read, i - 1)]
           /\ b.write = Advance(b.read, n)
  <1>1. /\ Size \in Nat /\ Size > 1 /\ b.read \in Nat /\ b.write \in Nat
        /\ b.read < Size /\ b.write < Size
        /\ b.read \in Positions /\ b.write \in Positions /\ b.cells \in [Positions -> S]
    BY SizeAssumption DEF Positions, Ring
  <1>2. n \in 0..(Size - 1) /\ Room(b) = Size - n
    BY <1>1 DEF read_available, Room
  <1>3. \A i \in 1..n : Advance(b.read, i - 1) \in Positions
                        /\ Advance(b.read, i - 1) = (b.read + i - 1) % Size
    <2> SUFFICES ASSUME NEW i \in 1..n
                 PROVE  /\ Advance(b.read, i - 1) \in Positions
                        /\ Advance(b.read, i - 1) = (b.read + i - 1) % Size
      OBVIOUS
    <2>1. i - 1 \in 0..Size /\ b.read + (i - 1) = b.read + i - 1
      BY <1>1, <1>2
    <2> QED
      BY <1>1, <2>1, Round DEF Advance
  <1>4. Contents(b) = [i \in 1..n |-> b.cells[(b.read + i - 1) % Size]]
    BY DEF Contents, Ahead
  <1>5. \A i \in 1..n : Contents(b)[i] = b.cells[Advance(b.read, i - 1)]
                        /\ b.cells[Advance(b.read, i - 1)] \in S
    BY <1>1, <1>3, <1>4
  <1>6. Contents(b) \in [1..n -> S]
    BY <1>4, <1>5
  <1>7. Contents(b) \in Seq(S) /\ Len(Contents(b)) = n
    BY <1>2, <1>6, SeqDef
  <1>8. b.write = Advance(b.read, n)
    BY <1>1, <1>2, Round DEF read_available
  <1> QED
    BY <1>2, <1>5, <1>7, <1>8

\* What is written is behind what was held; what does not fit goes over the start of it.
LEMMA Written ==
    ASSUME NEW S, NEW b \in Ring(S), NEW s \in Seq(S), Len(s) <= Size, NEW c, c = Write(b, s)
    PROVE  /\ c \in Ring(S)
           /\ Len(s) < Room(b) => Contents(c) = Contents(b) \o s
           /\ Len(s) >= Room(b) =>
                 \A i \in DOMAIN Contents(c) : \E j \in DOMAIN s : Contents(c)[i] = s[j]
  <1>1. PICK l, n, r, w : /\ l = Len(s) /\ n = read_available(b) /\ r = b.read /\ w = b.write
    OBVIOUS
  <1>2. /\ Size \in Nat /\ Size > 1 /\ r \in Positions /\ w \in Positions
        /\ b.cells \in [Positions -> S] /\ l \in 0..Size /\ l \in Nat
        /\ \A i \in 1..l : s[i] \in S
    BY <1>1, SizeAssumption, LenProperties, ElementOfSeq DEF Ring
  <1>3. /\ n \in 0..(Size - 1) /\ Room(b) = Size - n /\ Contents(b) \in Seq(S)
        /\ Len(Contents(b)) = n /\ w = Advance(r, n)
        /\ \A i \in 1..n : Contents(b)[i] = b.cells[Advance(r, i - 1)]
    BY <1>1, Holds
  <1>4. PICK at : at = [i \in Positions |-> (i - w) % Size]
    OBVIOUS
  <1>5. \A i \in Positions : at[i] = (IF w <= i THEN i - w ELSE i - w + Size)
    BY <1>2, <1>4, Distance
  <1>6. c.cells = [i \in Positions |-> IF at[i] < l THEN s[at[i] + 1] ELSE b.cells[i]]
    BY <1>1, <1>4 DEF Write, Stored, Ring
  <1>7. \A i \in Positions : at[i] \in Nat /\ (at[i] < l => at[i] + 1 \in 1..l)
    BY <1>2, <1>5 DEF Positions
  <1>8. c.cells \in [Positions -> S]
    BY <1>2, <1>6, <1>7
  <1>9. c.read = r /\ c.write = Advance(w, l) /\ c \in Ring(S)
    BY <1>1, <1>2, <1>8, Round DEF Write, Ring
  <1>10. PICK m : m = read_available(c)
    OBVIOUS
  <1>11. /\ m \in 0..(Size - 1) /\ Contents(c) \in Seq(S) /\ Len(Contents(c)) = m
         /\ \A i \in 1..m : Contents(c)[i] = c.cells[Advance(r, i - 1)]
    <2>1. c \in Ring(S) /\ m = read_available(c)
      BY <1>9, <1>10
    <2>2. /\ m \in 0..(Size - 1) /\ Contents(c) \in Seq(S) /\ Len(Contents(c)) = m
          /\ \A i \in 1..m : Contents(c)[i] = c.cells[Advance(c.read, i - 1)]
      BY <2>1, Holds
    <2> QED
      BY <1>9, <2>2
  <1>12. w = IF r + n < Size THEN r + n ELSE r + n - Size
    BY <1>2, <1>3, Round
  <1>13. c.write = IF w + l < Size THEN w + l ELSE w + l - Size
    BY <1>2, <1>9, Round
  <1>20. /\ r \in Nat /\ w \in Nat /\ n \in Nat /\ l \in Nat
         /\ r < Size /\ w < Size /\ n < Size /\ l <= Size /\ Size \in Nat
    BY <1>2, <1>3 DEF Positions
  <1>14. m = IF n + l < Size THEN n + l ELSE n + l - Size
    <2>1. PICK v : v = c.write
      OBVIOUS
    <2>2. m = IF v < r THEN (Size - r) + v ELSE v - r
      BY <1>9, <1>10, <2>1 DEF read_available
    <2>3. v = IF w + l < Size THEN w + l ELSE w + l - Size
      BY <1>13, <2>1
    <2> QED
      BY <1>12, <1>20, <2>2, <2>3
  <1>15. ASSUME NEW i \in 1..Size
         PROVE  /\ Advance(r, i - 1) \in Positions
                /\ at[Advance(r, i - 1)] = IF n < i THEN i - 1 - n ELSE i - 1 - n + Size
    <2>1. i - 1 \in 0..Size
      BY <1>2
    <2>2. PICK q : q = Advance(r, i - 1)
      OBVIOUS
    <2>3. q \in Positions /\ q = IF r + (i - 1) < Size THEN r + (i - 1) ELSE r + (i - 1) - Size
      BY <1>2, <2>1, <2>2, Round
    <2>4. at[q] = IF w <= q THEN q - w ELSE q - w + Size
      BY <1>5, <2>3
    <2>5. at[q] = IF n < i THEN i - 1 - n ELSE i - 1 - n + Size
      <3>1. i \in Nat /\ i >= 1 /\ i <= Size
        BY <1>20
      <3>2. q = IF r + (i - 1) < Size THEN r + (i - 1) ELSE r + (i - 1) - Size
        BY <2>3
      <3> QED
        BY <1>12, <1>20, <2>4, <3>1, <3>2
    <2> QED
      BY <2>2, <2>3, <2>5
  <1>16. ASSUME l < Room(b)
         PROVE  Contents(c) = Contents(b) \o s
    <2>1. m = n + l
      BY <1>2, <1>3, <1>14, <1>16
    <2>2. PICK d, e, x : d = Contents(b) \o s /\ e = Contents(c) /\ x = Contents(b)
      OBVIOUS
    <2>3. /\ d \in Seq(S) /\ Len(d) = n + l
          /\ \A i \in 1..(n + l) : d[i] = IF i <= n THEN x[i] ELSE s[i - n]
      <3>1. x \in Seq(S) /\ Len(x) = n /\ d = x \o s
        BY <1>3, <2>2
      <3>2. /\ x \o s \in Seq(S) /\ Len(x \o s) = Len(x) + Len(s)
            /\ \A i \in 1..(Len(x) + Len(s)) : (x \o s)[i] = IF i <= Len(x) THEN x[i] ELSE s[i - Len(x)]
        BY <3>1, ConcatProperties
      <3>3. Len(s) = l
        BY <1>1
      <3> QED
        BY <3>1, <3>2, <3>3
    <2>4. ASSUME NEW i \in 1..(n + l)
          PROVE  e[i] = d[i]
      <3>1. PICK q : q = Advance(r, i - 1)
        OBVIOUS
      <3>2. i \in 1..Size /\ i \in 1..m /\ q \in Positions
        BY <1>2, <1>3, <1>15, <1>16, <2>1, <3>1
      <3>3. at[q] = IF n < i THEN i - 1 - n ELSE i - 1 - n + Size
        BY <1>15, <3>1, <3>2
      <3>4. e[i] = IF at[q] < l THEN s[at[q] + 1] ELSE b.cells[q]
        BY <1>6, <1>11, <2>2, <3>1, <3>2
      <3>5. CASE i <= n
        <4>1. ~(at[q] < l)
          BY <1>2, <1>3, <1>16, <3>3, <3>5
        <4>2. i \in 1..n
          BY <1>3, <3>5
        <4> QED
          BY <1>3, <2>2, <2>3, <3>1, <3>4, <3>5, <4>1, <4>2
      <3>6. CASE ~(i <= n)
        <4>1. at[q] < l /\ at[q] + 1 = i - n
          BY <1>2, <1>3, <3>3, <3>6
        <4> QED
          BY <2>3, <3>4, <3>6, <4>1
      <3> QED
        BY <3>5, <3>6
    <2> QED
      BY <1>11, <2>1, <2>2, <2>3, <2>4, SeqEqual
  <1>17. ASSUME l >= Room(b), NEW i \in DOMAIN Contents(c)
         PROVE  \E j \in DOMAIN s : Contents(c)[i] = s[j]
    <2>1. m = n + l - Size
      BY <1>2, <1>3, <1>14, <1>17
    <2>2. i \in 1..m
      BY <1>11, <1>17, LenProperties
    <2>3. PICK q : q = Advance(r, i - 1)
      OBVIOUS
    <2>4. i \in 1..Size /\ q \in Positions /\ i <= n
      BY <1>2, <1>3, <1>15, <2>1, <2>2, <2>3
    <2>5. at[q] = i - 1 - n + Size
      BY <1>3, <1>15, <2>3, <2>4
    <2>6. at[q] < l /\ at[q] + 1 \in 1..l
      BY <1>2, <1>3, <1>7, <2>1, <2>2, <2>4, <2>5
    <2>7. Contents(c)[i] = s[at[q] + 1]
      BY <1>6, <1>11, <2>2, <2>3, <2>4, <2>6
    <2> QED
      BY <1>1, <2>6, <2>7, LenProperties
  <1> QED
    BY <1>1, <1>9, <1>16, <1>17

\* What is read goes from the front of what was held.
LEMMA Taken ==
    ASSUME NEW S, NEW b \in Ring(S), NEW n \in 0..read_available(b), NEW c, c = Read(b, n)
    PROVE  /\ c \in Ring(S)
           /\ Contents(c) = SubSeq(Contents(b), n + 1, Len(Contents(b)))
           /\ Ahead(b, n) = SubSeq(Contents(b), 1, n)
  <1>1. PICK l, r, x : l = read_available(b) /\ r = b.read /\ x = Contents(b)
    OBVIOUS
  <1>2. /\ Size \in Nat /\ Size > 1 /\ r \in Positions /\ b.write \in Positions
        /\ b.cells \in [Positions -> S]
    BY <1>1, SizeAssumption DEF Ring
  <1>3. /\ l \in 0..(Size - 1) /\ x \in Seq(S) /\ Len(x) = l /\ b.write = Advance(r, l)
        /\ \A i \in 1..l : x[i] = b.cells[Advance(r, i - 1)]
    BY <1>1, Holds
  <1>4. n \in 0..l /\ n \in 0..Size
    BY <1>1, <1>2, <1>3
  <1>5. c.read = Advance(r, n) /\ c.write = b.write /\ c.cells = b.cells /\ c \in Ring(S)
    BY <1>1, <1>2, <1>4, Round DEF Read, Ring
  <1>6. PICK m, y : m = read_available(c) /\ y = Contents(c)
    OBVIOUS
  <1>7. /\ m \in 0..(Size - 1) /\ y \in Seq(S) /\ Len(y) = m
        /\ \A i \in 1..m : y[i] = c.cells[Advance(c.read, i - 1)]
    BY <1>5, <1>6, Holds
  <1>8. c.read = IF r + n < Size THEN r + n ELSE r + n - Size
    BY <1>2, <1>4, <1>5, Round
  <1>9. b.write = IF r + l < Size THEN r + l ELSE r + l - Size
    BY <1>2, <1>3, Round
  <1>10. m = l - n
    BY <1>2, <1>3, <1>4, <1>5, <1>6, <1>8, <1>9 DEF read_available, Positions
  <1>11. PICK z : z = SubSeq(x, n + 1, l)
    OBVIOUS
  <1>12. /\ z \in Seq(S) /\ Len(z) = l - n
         /\ \A i \in 1..(l - n) : z[i] = x[n + i]
    <2>1. \A i \in (n + 1)..l : x[i] \in S
      BY <1>3, <1>4, ElementOfSeq
    <2>2. /\ z \in Seq(S) /\ Len(z) = IF n + 1 <= l THEN l - (n + 1) + 1 ELSE 0
          /\ \A i \in 1..(l - (n + 1) + 1) : z[i] = x[n + 1 + i - 1]
      BY <1>3, <1>4, <1>11, <2>1, SubSeqProperties
    <2>3. l \in Nat /\ n \in Nat /\ n <= l /\ l - (n + 1) + 1 = l - n
      BY <1>3, <1>4
    <2>4. \A i \in 1..(l - n) : n + 1 + i - 1 = n + i
      BY <2>3
    <2> QED
      BY <2>2, <2>3, <2>4
  <1>13. ASSUME NEW i \in 1..(l - n)
         PROVE  y[i] = z[i]
    <2>1. i \in 1..m /\ n + i \in 1..l /\ i - 1 \in 0..Size /\ n + i - 1 \in 0..Size
      BY <1>2, <1>3, <1>4, <1>10
    <2>2. c.read \in Positions
      BY <1>5 DEF Ring
    <2>3. Advance(c.read, i - 1) = IF c.read + (i - 1) < Size THEN c.read + (i - 1) ELSE c.read + (i - 1) - Size
      BY <2>1, <2>2, Round
    <2>4. Advance(r, n + i - 1) = IF r + (n + i - 1) < Size THEN r + (n + i - 1) ELSE r + (n + i - 1) - Size
      BY <1>2, <2>1, Round
    <2>5. Advance(c.read, i - 1) = Advance(r, n + i - 1)
      BY <1>2, <1>3, <1>4, <1>8, <2>1, <2>3, <2>4 DEF Positions
    <2>6. y[i] = c.cells[Advance(c.read, i - 1)] /\ c.cells = b.cells
      BY <1>5, <1>7, <2>1
    <2>7. x[n + i] = b.cells[Advance(r, n + i - 1)]
      BY <1>3, <2>1
    <2> QED
      BY <1>12, <2>5, <2>6, <2>7
  <1>14. Contents(c) = SubSeq(Contents(b), n + 1, Len(Contents(b)))
    BY <1>1, <1>3, <1>6, <1>7, <1>10, <1>11, <1>12, <1>13, SeqEqual
  <1>15. PICK a, f : a = Ahead(b, n) /\ f = SubSeq(x, 1, n)
    OBVIOUS
  <1>16. /\ f \in Seq(S) /\ Len(f) = n
         /\ \A i \in 1..n : f[i] = x[i]
    <2>1. \A i \in 1..n : x[i] \in S
      BY <1>3, <1>4, ElementOfSeq
    <2>2. /\ f \in Seq(S) /\ Len(f) = IF 1 <= n THEN n - 1 + 1 ELSE 0
          /\ \A i \in 1..(n - 1 + 1) : f[i] = x[1 + i - 1]
      BY <1>3, <1>4, <1>15, <2>1, SubSeqProperties
    <2> QED
      BY <1>3, <1>4, <2>2
  <1>17. Contents(b) = [i \in 1..l |-> b.cells[(r + i - 1) % Size]]
    BY <1>1 DEF Contents, Ahead
  <1>18. a = [i \in 1..n |-> b.cells[(r + i - 1) % Size]]
    BY <1>1, <1>15 DEF Ahead
  <1>19. \A i \in 1..n : a[i] = x[i] /\ x[i] \in S
    <2>1. \A i \in 1..n : i \in 1..l
      BY <1>3, <1>4
    <2> QED
      BY <1>1, <1>3, <1>17, <1>18, <2>1, ElementOfSeq
  <1>20. a \in Seq(S) /\ Len(a) = n
    <2>1. a \in [1..n -> S]
      BY <1>18, <1>19
    <2> QED
      BY <1>4, <2>1, SeqDef
  <1>21. a = f
    BY <1>4, <1>16, <1>19, <1>20, SeqEqual
  <1> QED
    BY <1>1, <1>5, <1>14, <1>15, <1>21

\* The buffers that hold nothing but cells of T.
Holding(T) == {b \in Ring(T \cup {Blank}) : Contents(b) \in Seq(T)}

\* A buffer holds as many cells as are available, never all it has room for.
LEMMA Held ==
    ASSUME NEW T, NEW b \in Holding(T)
    PROVE  /\ b \in Ring(T \cup {Blank})
           /\ Contents(b) \in Seq(T) /\ Len(Contents(b)) = read_available(b)
           /\ read_available(b) \in Nat /\ read_available(b) < Size
           /\ Room(b) = Size - read_available(b)
  <1>1. b \in Ring(T \cup {Blank}) /\ Contents(b) \in Seq(T)
    BY DEF Holding
  <1>2. PICK n : n = read_available(b)
    OBVIOUS
  <1>3. n \in 0..(Size - 1) /\ Room(b) = Size - n /\ Len(Contents(b)) = n
    BY <1>1, <1>2, Holds
  <1> QED
    BY <1>1, <1>2, <1>3, SizeAssumption

\* An empty buffer holds nothing.
LEMMA HoldsNothing ==
    ASSUME NEW T
    PROVE  Empty \in Holding(T) /\ Contents(Empty) = <<>>
  <1>1. 0 \in Positions
    BY SizeAssumption DEF Positions
  <1>2. Empty \in Ring(T \cup {Blank})
    BY <1>1 DEF Empty, Ring
  <1>3. read_available(Empty) = 0
    BY DEF read_available, Empty
  <1>4. Contents(Empty) \in Seq(T \cup {Blank}) /\ Len(Contents(Empty)) = 0
    BY <1>2, <1>3, Holds
  <1>5. Contents(Empty) = <<>>
    BY <1>4, EmptySeq
  <1> QED
    BY <1>2, <1>5, EmptySeq DEF Holding

\* write keeps a buffer of its cells, and puts the new ones behind the old
\* unless they fill it.
LEMMA WriteKeeps ==
    ASSUME NEW T, NEW b \in Holding(T), NEW s \in Seq(T), Len(s) <= Size, NEW c, c = Write(b, s)
    PROVE  /\ c \in Holding(T)
           /\ Len(s) < Room(b) => Contents(c) = Contents(b) \o s
  <1>1. b \in Ring(T \cup {Blank}) /\ Contents(b) \in Seq(T) /\ s \in Seq(T \cup {Blank})
    BY SeqMonotonic DEF Holding
  <1>2. /\ c \in Ring(T \cup {Blank})
        /\ Len(s) < Room(b) => Contents(c) = Contents(b) \o s
        /\ Len(s) >= Room(b) =>
              \A i \in DOMAIN Contents(c) : \E j \in DOMAIN s : Contents(c)[i] = s[j]
    BY <1>1, Written
  <1>3. CASE Len(s) < Room(b)
    <2>1. Contents(b) \o s \in Seq(T)
      BY <1>1, ConcatProperties
    <2> QED
      BY <1>2, <1>3, <2>1 DEF Holding
  <1>4. CASE Len(s) >= Room(b)
    <2>1. Contents(c) \in Seq(T \cup {Blank})
      BY <1>2, Holds
    <2>2. /\ Len(Contents(c)) \in Nat /\ DOMAIN Contents(c) = 1..Len(Contents(c))
          /\ Contents(c) \in [1..Len(Contents(c)) -> T \cup {Blank}]
      BY <2>1, LenProperties
    <2>3. \A j \in DOMAIN s : s[j] \in T
      BY LenProperties, ElementOfSeq
    <2>4. \A i \in 1..Len(Contents(c)) : Contents(c)[i] \in T
      BY <1>2, <1>4, <2>2, <2>3
    <2>5. Contents(c) \in [1..Len(Contents(c)) -> T]
      BY <2>2, <2>4
    <2>6. Contents(c) \in Seq(T)
      BY <2>2, <2>5, SeqDef
    <2> QED
      BY <1>2, <2>6 DEF Holding
  <1>5. Len(s) \in Nat /\ Room(b) \in Int
    <2>1. read_available(b) \in Nat /\ Room(b) = Size - read_available(b)
      BY Held
    <2> QED
      BY <2>1, LenProperties, SizeAssumption
  <1> QED
    BY <1>2, <1>3, <1>4, <1>5

\* What is left of a sequence after its first n.
After(q, n) == SubSeq(q, n + 1, Len(q))

\* The parts of a sequence, element by element.
LEMMA Split ==
    ASSUME NEW T, NEW q \in Seq(T), NEW n \in 0..Len(q)
    PROVE  /\ After(q, n) \in Seq(T) /\ Len(After(q, n)) = Len(q) - n
           /\ \A i \in 1..(Len(q) - n) : After(q, n)[i] = q[n + i]
           /\ SubSeq(q, 1, n) \in Seq(T) /\ Len(SubSeq(q, 1, n)) = n
           /\ \A i \in 1..n : SubSeq(q, 1, n)[i] = q[i]
           /\ q = SubSeq(q, 1, n) \o After(q, n)
  <1>1. PICK l : l = Len(q)
    OBVIOUS
  <1>2. l \in Nat /\ n \in Nat /\ n <= l
    BY <1>1, LenProperties
  <1>3. \A i \in 1..l : q[i] \in T
    BY <1>1, ElementOfSeq
  <1>4. /\ SubSeq(q, n + 1, l) \in Seq(T)
        /\ Len(SubSeq(q, n + 1, l)) = IF n + 1 <= l THEN l - (n + 1) + 1 ELSE 0
        /\ \A i \in 1..(l - (n + 1) + 1) : SubSeq(q, n + 1, l)[i] = q[n + 1 + i - 1]
    <2>1. \A i \in (n + 1)..l : q[i] \in T
      BY <1>2, <1>3
    <2> QED
      BY <1>2, <2>1, SubSeqProperties
  <1>5. /\ SubSeq(q, 1, n) \in Seq(T)
        /\ Len(SubSeq(q, 1, n)) = IF 1 <= n THEN n - 1 + 1 ELSE 0
        /\ \A i \in 1..(n - 1 + 1) : SubSeq(q, 1, n)[i] = q[1 + i - 1]
    <2>1. \A i \in 1..n : q[i] \in T
      BY <1>2, <1>3
    <2> QED
      BY <1>2, <2>1, SubSeqProperties
  <1>6. \A i \in 1..(l - n) : n + 1 + i - 1 = n + i
    BY <1>2
  <1>7. l - (n + 1) + 1 = l - n /\ n - 1 + 1 = n
    BY <1>2
  <1>8. /\ After(q, n) \in Seq(T) /\ Len(After(q, n)) = l - n
        /\ \A i \in 1..(l - n) : After(q, n)[i] = q[n + i]
    BY <1>1, <1>2, <1>4, <1>6, <1>7 DEF After
  <1>9. /\ SubSeq(q, 1, n) \in Seq(T) /\ Len(SubSeq(q, 1, n)) = n
        /\ \A i \in 1..n : SubSeq(q, 1, n)[i] = q[i]
    BY <1>2, <1>5, <1>7
  <1>10. SubSeq(q, 1, n) \o SubSeq(q, n + 1, l) = SubSeq(q, 1, l)
    <2>1. 1 \in 1..(l + 1) /\ n \in (1 - 1)..l /\ l \in n..l
      BY <1>2
    <2> QED
      BY <1>1, <2>1, ConcatAdjacentSubSeq
  <1>11. SubSeq(q, 1, l) = q
    BY <1>1, SubSeqFull
  <1> QED
    BY <1>1, <1>8, <1>9, <1>10, <1>11 DEF After

\* read takes from the front of what is held.
LEMMA ReadKeeps ==
    ASSUME NEW T, NEW b \in Holding(T), NEW n \in 0..read_available(b), NEW c, c = Read(b, n)
    PROVE  /\ c \in Holding(T)
           /\ Contents(c) = After(Contents(b), n)
           /\ Ahead(b, n) = SubSeq(Contents(b), 1, n)
           /\ n \in 0..Len(Contents(b))
  <1>1. b \in Ring(T \cup {Blank}) /\ Contents(b) \in Seq(T) /\ Len(Contents(b)) = read_available(b)
    BY Held
  <1>2. /\ c \in Ring(T \cup {Blank})
        /\ Contents(c) = After(Contents(b), n)
        /\ Ahead(b, n) = SubSeq(Contents(b), 1, n)
    BY <1>1, Taken DEF After
  <1>3. After(Contents(b), n) \in Seq(T)
    BY <1>1, Split
  <1> QED
    BY <1>1, <1>2, <1>3 DEF Holding

\* A set of numbers that has one has a least one.
LEMMA LeastOf ==
    ASSUME NEW X \in SUBSET Nat, X # {}
    PROVE  \E x \in X : \A y \in X : x <= y
  <1> DEFINE R == {ss \in Nat \X Nat : ss[1] < ss[2]}
  <1>1. IsWellFoundedOn(R, Nat)
    BY NatLessThanWellFounded DEF OpToRel
  <1>2. PICK x \in X : \A y \in X : ~(<<y, x>> \in R)
    <2> HIDE DEF R
    <2> QED
      BY <1>1, WFMin
  <1>3. ASSUME NEW y \in X
        PROVE  x <= y
    <2>1. x \in Nat /\ y \in Nat /\ ~(<<y, x>> \in R)
      BY <1>2
    <2>2. ~(y < x)
      BY <2>1
    <2> QED
      BY <2>1, <2>2
  <1> QED
    BY <1>3

\* find_and_seek_read skips what is not wanted, and stops at what is.
LEMMA Seek ==
    ASSUME NEW T, NEW b \in Holding(T), NEW wanted, NEW x, x = Contents(b)
    PROVE  \E k \in 0..read_available(b) :
              /\ [b EXCEPT !.read = Find(b, wanted)] = Read(b, k)
              /\ \A i \in 1..k : x[i] \notin wanted
              /\ IF Found(b, wanted)
                 THEN k < read_available(b) /\ x[k + 1] \in wanted
                 ELSE \A i \in DOMAIN x : x[i] \notin wanted
  <1>1. PICK l, r, w, at : l = read_available(b) /\ r = b.read /\ w = b.write /\ at = Find(b, wanted)
    OBVIOUS
  <1>2. /\ b \in Ring(T \cup {Blank}) /\ x \in Seq(T) /\ Len(x) = l /\ l \in Nat /\ l < Size
        /\ r \in Positions /\ w \in Positions
    BY <1>1, Held DEF Ring
  <1>3. /\ Size \in Nat /\ r \in Nat /\ w \in Nat /\ r < Size /\ w < Size /\ w = Advance(r, l)
    <2>1. w = Advance(r, l)
      BY <1>1, <1>2, Holds
    <2> QED
      BY <1>2, <2>1, SizeAssumption DEF Positions
  <1>4. PICK there : there = {i \in 1..l : x[i] \in wanted}
    OBVIOUS
  <1>5. at = IF there = {} THEN IF w < r /\ w = 0 THEN r ELSE w
             ELSE Advance(r, (CHOOSE i \in there : \A j \in there : i <= j) - 1)
    BY <1>1, <1>4 DEF Find
  <1>6. Found(b, wanted) <=> there # {}
    BY <1>1, <1>4 DEF Found
  <1>7. DOMAIN x = 1..l
    BY <1>2, LenProperties
  <1>8. SUFFICES \E k \in 0..l : /\ at = Advance(r, k)
                                 /\ \A i \in 1..k : x[i] \notin wanted
                                 /\ IF there # {} THEN k < l /\ x[k + 1] \in wanted
                                    ELSE \A i \in 1..l : x[i] \notin wanted
    BY <1>1, <1>6, <1>7 DEF Read
  <1>9. CASE there = {}
    <2>1. \A i \in 1..l : x[i] \notin wanted
      BY <1>4, <1>9
    <2>2. CASE w < r /\ w = 0
      <3>1. at = Advance(r, 0)
        <4>1. Advance(r, 0) = r
          BY <1>3, SizeAssumption DEF Advance
        <4> QED
          BY <1>5, <1>9, <2>2, <4>1
      <3> QED
        BY <1>2, <1>9, <2>1, <3>1
    <2>3. CASE ~(w < r /\ w = 0)
      <3>1. at = Advance(r, l)
        BY <1>3, <1>5, <1>9, <2>3
      <3> QED
        BY <1>2, <1>9, <2>1, <3>1
    <2> QED
      BY <2>2, <2>3
  <1>10. CASE there # {}
    <2>1. there \in SUBSET Nat
      BY <1>2, <1>4
    <2>2. PICK m : m = CHOOSE i \in there : \A j \in there : i <= j
      OBVIOUS
    <2>3. m \in there /\ \A j \in there : m <= j
      BY <1>10, <2>1, <2>2, LeastOf
    <2>4. m \in 1..l /\ x[m] \in wanted
      BY <1>4, <2>3
    <2>5. \A i \in 1..(m - 1) : x[i] \notin wanted
      <3> SUFFICES ASSUME NEW i \in 1..(m - 1), x[i] \in wanted
                   PROVE  FALSE
        OBVIOUS
      <3>1. i \in 1..l /\ i < m
        BY <1>2, <2>4
      <3>2. i \in there
        BY <1>4, <3>1
      <3> QED
        BY <1>2, <2>3, <2>4, <3>1, <3>2
    <2>6. m - 1 \in 0..l /\ m - 1 < l /\ (m - 1) + 1 = m
      BY <1>2, <2>4
    <2>7. at = Advance(r, m - 1)
      BY <1>5, <1>10, <2>2
    <2> QED
      BY <1>10, <2>4, <2>5, <2>6, <2>7
  <1> QED
    BY <1>9, <1>10

\* read_from keeps a buffer of its cells, and puts what it read behind the old
\* unless it filled the buffer.
LEMMA Draw ==
    ASSUME NEW T, NEW b \in Holding(T), NEW s \in Seq(T), Len(s) <= Size,
           NEW k, k = TakenFrom(b, s), NEW c, c = ReadFrom(b, s)
    PROVE  /\ k \in 0..Len(s)
           /\ c \in Holding(T)
           /\ ~Overfilled(b, s) => Contents(c) = Contents(b) \o SubSeq(s, 1, k)
           /\ EndThrows(b, s) => k = Len(s)
  <1>1. PICK l, r, w, first, second :
            /\ l = Len(s) /\ r = b.read /\ w = b.write
            /\ first = FirstSpace(b) /\ second = SecondSpace(b, s)
    OBVIOUS
  <1>2. /\ Size \in Nat /\ r \in Nat /\ w \in Nat /\ l \in Nat /\ l <= Size /\ r < Size /\ w < Size
    <2>1. r \in Positions /\ w \in Positions
      BY <1>1, Held DEF Ring
    <2> QED
      BY <1>1, <2>1, SizeAssumption, LenProperties DEF Positions
  <1>3. /\ first = IF w >= r THEN Size - w ELSE r - w
        /\ second = IF r = 0 THEN l ELSE r - 1
    BY <1>1 DEF FirstSpace, SecondSpace
  <1>4. first \in Nat /\ first > 0 /\ second \in Nat
    BY <1>2, <1>3
  <1>5. Room(b) = IF w >= r THEN (Size - w) + r ELSE r - w
    BY <1>1 DEF Room
  <1>6. k = IF w >= r /\ l >= first
            THEN (IF first < l THEN first ELSE l)
                 + (IF second < l - (IF first < l THEN first ELSE l) THEN second
                    ELSE l - (IF first < l THEN first ELSE l))
            ELSE IF first < l THEN first ELSE l
    BY <1>1 DEF TakenFrom, ReadsTwice, Least
  <1>7. Overfilled(b, s) <=> IF w >= r THEN l >= first /\ r = 0 ELSE l >= first
    BY <1>1 DEF Overfilled, ReadsTwice
  <1>8. k \in 0..l
    BY <1>2, <1>4, <1>6
  <1>9. ~Overfilled(b, s) => k < Room(b)
    BY <1>2, <1>3, <1>4, <1>5, <1>6, <1>7
  <1>10. EndThrows(b, s) => k = l
    <2>1. EndThrows(b, s) => l = first /\ w >= r
      BY <1>1 DEF EndThrows, ReadsTwice
    <2> QED
      BY <1>2, <1>4, <1>6, <2>1
  <1>11. PICK taken : taken = SubSeq(s, 1, k)
    OBVIOUS
  <1>12. taken \in Seq(T) /\ Len(taken) = k
    BY <1>1, <1>8, <1>11, Split
  <1>13. c = Write(b, taken)
    BY <1>11 DEF ReadFrom, Write
  <1>14. /\ c \in Holding(T)
         /\ Len(taken) < Room(b) => Contents(c) = Contents(b) \o taken
    <2>1. Len(taken) <= Size
      BY <1>2, <1>8, <1>12
    <2> QED
      BY <1>12, <1>13, <2>1, WriteKeeps
  <1> QED
    BY <1>1, <1>8, <1>9, <1>10, <1>11, <1>12, <1>14

\* write_into sends what it holds, and as much as there is room for.
LEMMA Sends ==
    ASSUME NEW T, NEW b \in Holding(T), NEW room \in Nat
    PROVE  /\ SentInto(b, room) \in 0..read_available(b)
           /\ SentInto(b, room) <= room
           /\ SecondRefused(b, room) => room \in 0..read_available(b)
  <1>1. PICK l, r, w, o : l = read_available(b) /\ r = b.read /\ w = b.write /\ o = Offered(b)
    OBVIOUS
  <1>2. /\ Size \in Nat /\ r \in Nat /\ w \in Nat /\ l \in Nat /\ r < Size /\ w < Size
    <2>1. r \in Positions /\ w \in Positions /\ l \in Nat
      BY <1>1, Held DEF Ring
    <2> QED
      BY <2>1, SizeAssumption DEF Positions
  <1>3. /\ l = IF w < r THEN (Size - r) + w ELSE w - r
        /\ o = IF w < r THEN Size - r ELSE w - r
    BY <1>1 DEF read_available, Offered, Wraps
  <1>4. SentInto(b, room) = IF w < r /\ room > o THEN (IF l < room THEN l ELSE room)
                            ELSE IF o < room THEN o ELSE room
    BY <1>1 DEF SentInto, Wraps, Least
  <1>5. SecondRefused(b, room) <=> w < r /\ w > 0 /\ room = o
    BY <1>1 DEF SecondRefused, Wraps
  <1> QED
    BY <1>1, <1>2, <1>3, <1>4, <1>5

-----------------------------------------------------------------------------
(* What the cells of a stream say.                                          *)

Piece(m, k) == [is |-> "body", of |-> m, n |-> k]

\* The cells of one message.
Message(m, size) == Header(m, size) \o Body(m, size)

\* The cells there are.
LEMMA CellsAre ==
    ASSUME NEW c
    PROVE  c \in Cells <=> \/ \E m \in 1..MaxMessages : c = Magic(m)
                           \/ \E m \in 1..MaxMessages : c = Version(m)
                           \/ \E m \in 1..MaxMessages : \E n \in Sizes : c = Rest(m, n)
                           \/ \E m \in 1..MaxMessages : \E n \in Sizes : c \in ToSet(Body(m, n))
  BY DEF Cells, Magics

\* A magic is distinguished from the other cells by what it is.
LEMMA CellIs ==
    ASSUME NEW c \in Cells
    PROVE  /\ c.of \in 1..MaxMessages /\ c.n \in Nat
           /\ c \in Magics <=> c = Magic(c.of)
           /\ c \in Magics => ~IsRest(c) /\ ~IsVersion(c) /\ c.is = "magic"
           /\ IsVersion(c) => ~IsRest(c)
           /\ IsRest(c) => c.n \in Sizes
  <1>1. CASE \E m \in 1..MaxMessages : c = Magic(m)
    BY <1>1 DEF Magic, Magics, IsRest, IsVersion
  <1>1a. CASE \E m \in 1..MaxMessages : c = Version(m)
    <2>1. PICK m \in 1..MaxMessages : c = Version(m)
      BY <1>1a
    <2>2. c.is = "version" /\ c.of = m /\ c.n = 0
      BY <2>1 DEF Version
    <2>3. \A k : c # Magic(k)
      BY <2>2 DEF Magic
    <2> QED
      BY <2>2, <2>3 DEF Magics, IsRest, IsVersion
  <1>2. CASE \E m \in 1..MaxMessages, n \in Sizes : c = Rest(m, n)
    <2>1. PICK m \in 1..MaxMessages, n \in Sizes : c = Rest(m, n)
      BY <1>2
    <2>2. c.is = "rest" /\ c.of = m /\ c.n = n /\ n \in Nat
      BY <2>1, SizesAssumption DEF Rest
    <2>3. \A k : c # Magic(k)
      BY <2>2 DEF Magic
    <2> QED
      BY <2>2, <2>3 DEF Magics, IsRest, IsVersion
  <1>3. CASE \E m \in 1..MaxMessages, n \in Sizes : c \in ToSet(Body(m, n))
    <2>1. PICK m \in 1..MaxMessages, n \in Sizes : c \in ToSet(Body(m, n))
      BY <1>3
    <2>2. PICK i \in DOMAIN Body(m, n) : c = Body(m, n)[i]
      BY <2>1 DEF ToSet
    <2>3. i \in 1..n /\ c = [is |-> "body", of |-> m, n |-> i]
      BY <2>2 DEF Body
    <2>4. n \in Nat
      BY SizesAssumption
    <2>5. c.is = "body" /\ c.of = m /\ c.n \in Nat
      BY <2>3, <2>4
    <2>6. \A k : c # Magic(k)
      BY <2>5 DEF Magic
    <2> QED
      BY <2>5, <2>6 DEF Magics, IsRest, IsVersion
  <1> QED
    BY <1>1, <1>1a, <1>2, <1>3, CellsAre

\* The cells of a message are a magic, a version, the rest of the header and the
\* pieces.
LEMMA MessageIs ==
    ASSUME NEW m \in 1..MaxMessages, NEW size \in Sizes
    PROVE  /\ Header(m, size) \in Seq(Cells) /\ Len(Header(m, size)) = 3
           /\ Body(m, size) \in Seq(Cells) /\ Len(Body(m, size)) = size
           /\ Message(m, size) \in Seq(Cells) /\ Len(Message(m, size)) = size + 3
           /\ Message(m, size)[1] = Magic(m) /\ Magic(m) \in Magics
           /\ Message(m, size)[2] = Version(m) /\ IsVersion(Version(m))
           /\ Message(m, size)[3] = Rest(m, size) /\ IsRest(Rest(m, size))
           /\ \A k \in 1..size : /\ Body(m, size)[k] = Piece(m, k)
                                 /\ Message(m, size)[3 + k] = Piece(m, k)
                                 /\ Piece(m, k) \notin Magics
  <1>1. size \in Nat
    BY SizesAssumption
  <1>2. Magic(m) \in Cells /\ Version(m) \in Cells /\ Rest(m, size) \in Cells
    BY CellsAre
  <1>3. PICK h : h = Header(m, size)
    OBVIOUS
  <1>4. /\ h \in Seq(Cells) /\ Len(h) = 3
        /\ h[1] = Magic(m) /\ h[2] = Version(m) /\ h[3] = Rest(m, size)
    BY <1>2, <1>3 DEF Header
  <1>5. \A k \in 1..size : Body(m, size)[k] = Piece(m, k)
    BY DEF Body, Piece
  <1>6. DOMAIN Body(m, size) = 1..size
    BY DEF Body
  <1>7. \A k \in 1..size : Body(m, size)[k] \in Cells
    <2> SUFFICES ASSUME NEW k \in 1..size PROVE Body(m, size)[k] \in Cells
      OBVIOUS
    <2>1. Body(m, size)[k] \in ToSet(Body(m, size))
      BY <1>6 DEF ToSet
    <2> QED
      BY <2>1, CellsAre
  <1>8. Body(m, size) \in [1..size -> Cells]
    BY <1>7 DEF Body
  <1>9. PICK y : y = Body(m, size)
    OBVIOUS
  <1>10. y \in Seq(Cells) /\ Len(y) = size
    BY <1>1, <1>8, <1>9, SeqDef
  <1>11. PICK e : e = h \o y
    OBVIOUS
  <1>12. /\ e \in Seq(Cells) /\ Len(e) = 3 + size
         /\ \A i \in 1..(3 + size) : e[i] = IF i <= 3 THEN h[i] ELSE y[i - 3]
    <2>1. /\ h \o y \in Seq(Cells) /\ Len(h \o y) = Len(h) + Len(y)
          /\ \A i \in 1..(Len(h) + Len(y)) : (h \o y)[i] = IF i <= Len(h) THEN h[i] ELSE y[i - Len(h)]
      BY <1>4, <1>10, ConcatProperties
    <2> QED
      BY <1>4, <1>10, <1>11, <2>1
  <1>13. /\ e[1] = Magic(m) /\ e[2] = Version(m) /\ e[3] = Rest(m, size)
         /\ \A k \in 1..size : e[3 + k] = y[k]
    BY <1>1, <1>4, <1>12
  <1>14. /\ Magic(m) \in Magics /\ IsVersion(Version(m)) /\ IsRest(Rest(m, size))
         /\ \A k : Piece(m, k) \notin Magics
    BY DEF Magics, Magic, IsVersion, Version, IsRest, Rest, Piece
  <1> QED
    BY <1>1, <1>3, <1>4, <1>5, <1>9, <1>10, <1>11, <1>12, <1>13, <1>14 DEF Message

\* A header is followed by its own body, as far as it goes.
Framed(q) ==
    \A i \in DOMAIN q : Opens(q, i) /\ i + 2 \in DOMAIN q =>
        /\ IsRest(q[i + 2]) /\ q[i + 2].of = q[i].of
        /\ \A k \in 1..q[i + 2].n : i + 2 + k \in DOMAIN q => q[i + 2 + k] = Piece(q[i].of, k)

\* No message ends behind the end.
Closed(q) ==
    \A i \in DOMAIN q : Opens(q, i) => i + 2 \in DOMAIN q /\ i + 2 + q[i + 2].n <= Len(q)

\* The messages come in the order of their numbers,
Rising(q) ==
    \A i, j \in DOMAIN q : i < j /\ q[i] \in Magics /\ q[j] \in Magics => q[i].of < q[j].of

\* which are over lo and up to hi.
Between(q, lo, hi) ==
    \A i \in DOMAIN q : q[i] \in Magics => lo < q[i].of /\ q[i].of <= hi

\* The stream starts with the body of m, as far as it goes.
Begun(q, m, n) == \A k \in 1..n : k \in DOMAIN q => q[k] = Piece(m, k)

\* No magic is alone, and no number over lo and up to hi is missing.
Followed(q) == \A i \in DOMAIN q : q[i] \in Magics => Opens(q, i)
Complete(q, lo, hi) == \A m \in (lo + 1)..hi : \E i \in DOMAIN q : q[i] = Magic(m)

\* What is behind the first n of a well framed stream is well framed.
LEMMA AfterIsGood ==
    ASSUME NEW q \in Seq(Cells), NEW n \in 0..Len(q), NEW p, p = After(q, n)
    PROVE  /\ Framed(q) => Framed(p)
           /\ Closed(q) => Closed(p)
           /\ Followed(q) => Followed(p)
  <1>1. PICK l : l = Len(q)
    OBVIOUS
  <1>2. /\ l \in Nat /\ n \in Nat /\ n <= l /\ DOMAIN q = 1..l
        /\ p \in Seq(Cells) /\ Len(p) = l - n /\ \A i \in 1..(l - n) : p[i] = q[n + i]
    BY <1>1, Split, LenProperties
  <1>3. DOMAIN p = 1..(l - n)
    BY <1>2, LenProperties
  <1>4. \A i \in DOMAIN p : i \in Nat /\ n + i \in DOMAIN q /\ p[i] = q[n + i]
    BY <1>2, <1>3
  <1>5. \A i \in DOMAIN p : i + 1 \in DOMAIN p <=> n + i + 1 \in DOMAIN q
    BY <1>2, <1>3
  <1>6. \A i \in DOMAIN p : i + 1 \in DOMAIN p => p[i + 1] = q[n + i + 1]
    <2>1. \A i \in DOMAIN p : n + (i + 1) = n + i + 1
      BY <1>2, <1>3
    <2> QED
      BY <1>4, <2>1
  <1>7. \A i \in DOMAIN p : Opens(p, i) <=> Opens(q, n + i)
    BY <1>4, <1>5, <1>6 DEF Opens
  <1>7a. \A i \in DOMAIN p : i + 2 \in DOMAIN p <=> n + i + 2 \in DOMAIN q
    BY <1>2, <1>3
  <1>7b. \A i \in DOMAIN p : i + 2 \in DOMAIN p => p[i + 2] = q[n + i + 2]
    <2>1. \A i \in DOMAIN p : n + (i + 2) = n + i + 2
      BY <1>2, <1>3
    <2> QED
      BY <1>4, <2>1
  <1>8. \A i \in 1..l : q[i].n \in Nat
    BY <1>1, ElementOfSeq, CellIs
  <1>9. ASSUME Framed(q), NEW i \in DOMAIN p, Opens(p, i), i + 2 \in DOMAIN p
        PROVE  /\ IsRest(p[i + 2]) /\ p[i + 2].of = p[i].of
               /\ \A k \in 1..p[i + 2].n : i + 2 + k \in DOMAIN p => p[i + 2 + k] = Piece(p[i].of, k)
    <2>1. PICK j : j = n + i
      OBVIOUS
    <2>2. j \in DOMAIN q /\ Opens(q, j) /\ p[i] = q[j] /\ p[i + 2] = q[j + 2] /\ j + 2 \in DOMAIN q
      BY <1>4, <1>7, <1>7a, <1>7b, <1>9, <2>1
    <2>3. /\ IsRest(q[j + 2]) /\ q[j + 2].of = q[j].of
          /\ \A k \in 1..q[j + 2].n : j + 2 + k \in DOMAIN q => q[j + 2 + k] = Piece(q[j].of, k)
      BY <1>9, <2>2 DEF Framed
    <2>4. ASSUME NEW k \in 1..p[i + 2].n, i + 2 + k \in DOMAIN p
          PROVE  p[i + 2 + k] = Piece(p[i].of, k)
      <3>1. k \in Nat
        BY <1>2, <1>8, <2>2
      <3>2. n + (i + 2 + k) = j + 2 + k
        BY <1>2, <1>3, <2>1, <3>1
      <3>3. j + 2 + k \in DOMAIN q /\ p[i + 2 + k] = q[j + 2 + k]
        BY <1>4, <2>4, <3>2
      <3> QED
        BY <2>2, <2>3, <3>3
    <2> QED
      BY <2>2, <2>3, <2>4
  <1>10. ASSUME Closed(q), NEW i \in DOMAIN p, Opens(p, i)
         PROVE  i + 2 \in DOMAIN p /\ i + 2 + p[i + 2].n <= Len(p)
    <2>1. /\ n + i \in DOMAIN q /\ Opens(q, n + i)
          /\ n + i + 2 \in DOMAIN q /\ n + i + 2 + q[n + i + 2].n <= l
      BY <1>1, <1>4, <1>7, <1>10 DEF Closed
    <2>2. i + 2 \in DOMAIN p /\ p[i + 2] = q[n + i + 2] /\ n + i + 2 \in 1..l
      BY <1>2, <1>7a, <1>7b, <2>1
    <2>3. q[n + i + 2].n \in Nat
      BY <1>8, <2>2
    <2>4. PICK v : v = q[n + i + 2].n
      OBVIOUS
    <2>5. v \in Nat /\ i \in Nat /\ n + i + 2 + v <= l
      BY <1>4, <2>1, <2>3, <2>4
    <2>6. i + 2 + v <= Len(p)
      BY <1>2, <2>5
    <2> QED
      BY <2>2, <2>4, <2>6
  <1>11. Followed(q) => Followed(p)
    BY <1>4, <1>7 DEF Followed
  <1>12. Framed(q) => Framed(p)
    BY <1>9 DEF Framed
  <1>13. Closed(q) => Closed(p)
    BY <1>10 DEF Closed
  <1> QED
    BY <1>11, <1>12, <1>13

\* So is what is before them.
LEMMA BeforeIsGood ==
    ASSUME NEW q \in Seq(Cells), NEW n \in 0..Len(q), NEW p, p = SubSeq(q, 1, n)
    PROVE  /\ Framed(q) => Framed(p)
           /\ \A m, s : Begun(q, m, s) => Begun(p, m, s)
  <1>1. PICK l : l = Len(q)
    OBVIOUS
  <1>2. /\ l \in Nat /\ n \in Nat /\ n <= l /\ DOMAIN q = 1..l
        /\ p \in Seq(Cells) /\ Len(p) = n /\ \A i \in 1..n : p[i] = q[i]
    BY <1>1, Split, LenProperties
  <1>3. DOMAIN p = 1..n
    BY <1>2, LenProperties
  <1>4. \A i \in DOMAIN p : i \in DOMAIN q /\ p[i] = q[i]
    BY <1>2, <1>3
  <1>5. \A i \in DOMAIN p : Opens(p, i) => Opens(q, i)
    BY <1>4 DEF Opens
  <1>6. ASSUME Framed(q), NEW i \in DOMAIN p, Opens(p, i), i + 2 \in DOMAIN p
        PROVE  /\ IsRest(p[i + 2]) /\ p[i + 2].of = p[i].of
               /\ \A k \in 1..p[i + 2].n : i + 2 + k \in DOMAIN p => p[i + 2 + k] = Piece(p[i].of, k)
    <2>1. i + 2 \in DOMAIN q /\ p[i] = q[i] /\ p[i + 2] = q[i + 2] /\ i \in DOMAIN q /\ Opens(q, i)
      BY <1>4, <1>5, <1>6
    <2>2. /\ IsRest(q[i + 2]) /\ q[i + 2].of = q[i].of
          /\ \A k \in 1..q[i + 2].n : i + 2 + k \in DOMAIN q => q[i + 2 + k] = Piece(q[i].of, k)
      BY <1>6, <2>1 DEF Framed
    <2> QED
      BY <1>4, <2>1, <2>2
  <1>7. Framed(q) => Framed(p)
    BY <1>6 DEF Framed
  <1> QED
    BY <1>4, <1>7 DEF Begun

\* A message goes behind a stream that ends with a whole one.
LEMMA Appended ==
    ASSUME NEW q \in Seq(Cells), NEW m \in 1..MaxMessages, NEW size \in Sizes,
           NEW p, p = q \o Message(m, size)
    PROVE  /\ Framed(q) /\ Closed(q) => Framed(p)
           /\ Closed(q) => Closed(p)
           /\ \A lo \in Int : Between(q, lo, m - 1) /\ lo < m => Between(p, lo, m)
           /\ \A lo : Rising(q) /\ Between(q, lo, m - 1) => Rising(p)
           /\ Followed(q) => Followed(p)
           /\ \A lo \in Int : Complete(q, lo, m - 1) => Complete(p, lo, m)
           /\ \A o, s \in Nat : s <= Len(q) /\ Begun(q, o, s) => Begun(p, o, s)
           /\ p \in Seq(Cells) /\ Len(p) = Len(q) + size + 3
  <1>1. PICK l, e : l = Len(q) /\ e = Message(m, size)
    OBVIOUS
  <1>2. /\ size \in Nat /\ l \in Nat /\ DOMAIN q = 1..l /\ e \in Seq(Cells) /\ Len(e) = size + 3
        /\ e[1] = Magic(m) /\ e[2] = Version(m) /\ e[3] = Rest(m, size)
        /\ Magic(m) \in Magics /\ IsVersion(Version(m)) /\ IsRest(Rest(m, size))
        /\ \A k \in 1..size : e[3 + k] = Piece(m, k) /\ Piece(m, k) \notin Magics
    BY <1>1, MessageIs, SizesAssumption, LenProperties
  <1>3. /\ p \in Seq(Cells) /\ Len(p) = l + (size + 3)
        /\ \A i \in 1..(l + (size + 3)) : p[i] = IF i <= l THEN q[i] ELSE e[i - l]
    <2>1. /\ q \o e \in Seq(Cells) /\ Len(q \o e) = Len(q) + Len(e)
          /\ \A i \in 1..(Len(q) + Len(e)) : (q \o e)[i] = IF i <= Len(q) THEN q[i] ELSE e[i - Len(q)]
      BY <1>2, ConcatProperties
    <2>2. p = q \o e /\ Len(q) = l /\ Len(e) = size + 3
      BY <1>1, <1>2
    <2> QED
      BY <2>1, <2>2
  <1>4. DOMAIN p = 1..(l + (size + 3))
    BY <1>3, LenProperties
  <1>5. \A i \in 1..l : i \in DOMAIN p /\ p[i] = q[i]
    BY <1>2, <1>3, <1>4
  <1>6. /\ l + 1 \in DOMAIN p /\ l + 2 \in DOMAIN p /\ l + 3 \in DOMAIN p
        /\ p[l + 1] = Magic(m) /\ p[l + 2] = Version(m) /\ p[l + 3] = Rest(m, size)
    <2>1. /\ l + 1 - l = 1 /\ l + 2 - l = 2 /\ l + 3 - l = 3
          /\ ~(l + 1 <= l) /\ ~(l + 2 <= l) /\ ~(l + 3 <= l)
      BY <1>2
    <2>2. /\ l + 1 \in 1..(l + (size + 3)) /\ l + 2 \in 1..(l + (size + 3))
          /\ l + 3 \in 1..(l + (size + 3))
      BY <1>2
    <2> QED
      BY <1>2, <1>3, <1>4, <2>1, <2>2
  <1>7. \A k \in 1..size : l + 3 + k \in DOMAIN p /\ p[l + 3 + k] = Piece(m, k)
    <2>1. \A k \in 1..size : /\ l + 3 + k \in 1..(l + (size + 3))
                             /\ ~(l + 3 + k <= l) /\ l + 3 + k - l = 3 + k
      BY <1>2
    <2> QED
      BY <1>2, <1>3, <1>4, <2>1
  <1>8. \A i \in DOMAIN p : i > l + 1 => p[i] \notin Magics
    <2> SUFFICES ASSUME NEW i \in DOMAIN p, i > l + 1 PROVE p[i] \notin Magics
      OBVIOUS
    <2>1. Version(m) \notin Magics /\ Rest(m, size) \notin Magics
      <3>1. Rest(m, size).is = "rest" /\ Version(m).is = "version" /\ \A k : Magic(k).is = "magic"
        BY DEF Rest, Version, Magic
      <3> QED
        BY <3>1 DEF Magics
    <2>2. CASE i = l + 2 \/ i = l + 3
      BY <1>6, <2>1, <2>2
    <2>3. CASE i > l + 3
      <3>1. i - (l + 3) \in 1..size /\ l + 3 + (i - (l + 3)) = i
        BY <1>2, <1>4, <2>3
      <3> QED
        BY <1>2, <1>7, <3>1
    <2>4. i \in Int /\ l \in Int
      BY <1>2, <1>4
    <2>5. i = l + 2 \/ i = l + 3 \/ i > l + 3
      BY <2>4
    <2> QED
      BY <2>2, <2>3, <2>5
  <1>9. \A i \in DOMAIN p : p[i] \in Magics => (i \in 1..l /\ p[i] = q[i]) \/ (i = l + 1 /\ p[i] = Magic(m))
    <2> SUFFICES ASSUME NEW i \in DOMAIN p, p[i] \in Magics
                 PROVE  (i \in 1..l /\ p[i] = q[i]) \/ (i = l + 1 /\ p[i] = Magic(m))
      OBVIOUS
    <2>1. ~(i > l + 1)
      BY <1>8
    <2>2. i \in 1..l \/ i = l + 1
      BY <1>2, <1>4, <2>1
    <2> QED
      BY <1>5, <1>6, <2>2
  <1>10. \A i \in DOMAIN p : Opens(p, i) => (i \in 1..l /\ Opens(q, i)) \/ i = l + 1
    <2> SUFFICES ASSUME NEW i \in DOMAIN p, Opens(p, i), i # l + 1
                 PROVE  i \in 1..l /\ Opens(q, i)
      OBVIOUS
    <2>1. p[i] \in Magics /\ i + 1 \in DOMAIN p /\ IsVersion(p[i + 1])
      BY DEF Opens
    <2>2. i \in 1..l /\ p[i] = q[i]
      BY <1>9, <2>1
    <2>3. i # l
      <3>1. ~IsVersion(Magic(m))
        BY DEF IsVersion, Magic
      <3> QED
        BY <1>6, <2>1, <3>1
    <2>4. i + 1 \in 1..l
      BY <1>2, <2>2, <2>3
    <2> QED
      BY <1>2, <1>5, <2>1, <2>2, <2>4 DEF Opens
  <1>11. \A i \in 1..l : q[i].n \in Nat
    BY <1>1, ElementOfSeq, CellIs
  <1>12. Rest(m, size).of = m /\ Rest(m, size).n = size /\ Magic(m).of = m
    BY DEF Rest, Magic
  <1>12a. l + 1 + 2 = l + 3 /\ l + 1 + 1 = l + 2
    BY <1>2
  <1>13. ASSUME Framed(q), Closed(q), NEW i \in DOMAIN p, Opens(p, i), i + 2 \in DOMAIN p
         PROVE  /\ IsRest(p[i + 2]) /\ p[i + 2].of = p[i].of
                /\ \A k \in 1..p[i + 2].n : i + 2 + k \in DOMAIN p => p[i + 2 + k] = Piece(p[i].of, k)
    <2>1. CASE i = l + 1
      <3>1. p[i] = Magic(m) /\ p[i + 2] = Rest(m, size)
        BY <1>6, <1>12a, <2>1
      <3>2. \A k \in 1..size : i + 2 + k = l + 3 + k
        BY <1>2, <2>1
      <3>3. \A k \in 1..size : p[i + 2 + k] = Piece(m, k)
        BY <1>7, <3>2
      <3>4. IsRest(p[i + 2]) /\ p[i + 2].of = m /\ p[i].of = m /\ p[i + 2].n = size
        BY <1>2, <1>12, <3>1
      <3> QED
        BY <3>3, <3>4
    <2>2. CASE i \in 1..l /\ Opens(q, i)
      <3>1. i + 2 \in 1..l /\ i + 2 + q[i + 2].n <= l
        BY <1>1, <1>2, <1>13, <2>2 DEF Closed
      <3>1a. p[i] = q[i] /\ p[i + 2] = q[i + 2]
        BY <1>5, <2>2, <3>1
      <3>2. /\ IsRest(q[i + 2]) /\ q[i + 2].of = q[i].of
            /\ \A k \in 1..q[i + 2].n : i + 2 + k \in 1..l => q[i + 2 + k] = Piece(q[i].of, k)
        BY <1>2, <1>13, <2>2, <3>1 DEF Framed
      <3>4. \A k \in 1..q[i + 2].n : i + 2 + k \in 1..l
        <4>1. q[i + 2].n \in Nat
          BY <1>11, <3>1
        <4>2. PICK n : n = q[i + 2].n
          OBVIOUS
        <4>3. n \in Nat /\ l \in Nat /\ i \in 1..l /\ i + 2 + n <= l
          BY <1>2, <2>2, <3>1, <4>1, <4>2
        <4>4. \A k \in 1..n : i + 2 + k \in 1..l
          BY <4>3
        <4> QED
          BY <4>2, <4>4
      <3> QED
        BY <1>5, <3>1a, <3>2, <3>4
    <2> QED
      BY <1>10, <1>13, <2>1, <2>2
  <1>14. ASSUME Closed(q), NEW i \in DOMAIN p, Opens(p, i)
         PROVE  i + 2 \in DOMAIN p /\ i + 2 + p[i + 2].n <= Len(p)
    <2>1. CASE i = l + 1
      <3>1. i + 2 \in DOMAIN p /\ i + 2 = l + 3 /\ p[i + 2] = Rest(m, size)
        BY <1>6, <1>12a, <2>1
      <3>2. p[i + 2].n = size
        BY <1>12, <3>1
      <3>3. i + 2 + size <= Len(p)
        BY <1>2, <1>3, <3>1
      <3> QED
        BY <3>1, <3>2, <3>3
    <2>2. CASE i \in 1..l /\ Opens(q, i)
      <3>1. i + 2 \in 1..l /\ i + 2 + q[i + 2].n <= l
        BY <1>1, <1>2, <1>14, <2>2 DEF Closed
      <3>2. i + 2 \in DOMAIN p /\ p[i + 2] = q[i + 2]
        BY <1>5, <3>1
      <3>3. q[i + 2].n \in Nat
        BY <1>11, <3>1
      <3> QED
        BY <1>2, <1>3, <2>2, <3>1, <3>2, <3>3
    <2> QED
      BY <1>10, <1>14, <2>1, <2>2
  <1>15. \A i \in 1..l : q[i].of \in Nat
    BY <1>1, ElementOfSeq, CellIs
  <1>16. ASSUME NEW lo \in Int, Between(q, lo, m - 1), lo < m
         PROVE  Between(p, lo, m)
    <2> SUFFICES ASSUME NEW i \in DOMAIN p, p[i] \in Magics
                 PROVE  lo < p[i].of /\ p[i].of <= m
      BY DEF Between
    <2>1. CASE i \in 1..l /\ p[i] = q[i]
      <3>1. lo < q[i].of /\ q[i].of <= m - 1 /\ q[i].of \in Nat
        BY <1>2, <1>15, <1>16, <2>1 DEF Between
      <3> QED
        BY <2>1, <3>1
    <2>2. CASE p[i] = Magic(m)
      BY <1>12, <1>16, <2>2
    <2> QED
      BY <1>9, <2>1, <2>2
  <1>17. ASSUME NEW lo, Rising(q), Between(q, lo, m - 1)
         PROVE  Rising(p)
    <2> SUFFICES ASSUME NEW i \in DOMAIN p, NEW j \in DOMAIN p, i < j, p[i] \in Magics, p[j] \in Magics
                 PROVE  p[i].of < p[j].of
      BY DEF Rising
    <2>1. i \in 1..l /\ p[i] = q[i]
      <3>1. j \in 1..l \/ j = l + 1
        BY <1>9
      <3>2. i # l + 1
        BY <1>2, <3>1
      <3> QED
        BY <1>9, <3>2
    <2>2. CASE j \in 1..l /\ p[j] = q[j]
      BY <1>2, <1>17, <2>1, <2>2 DEF Rising
    <2>3. CASE p[j] = Magic(m)
      <3>1. q[i].of <= m - 1 /\ q[i].of \in Nat
        BY <1>2, <1>15, <1>17, <2>1 DEF Between
      <3> QED
        BY <1>12, <2>1, <2>3, <3>1
    <2> QED
      BY <1>9, <2>2, <2>3
  <1>18. ASSUME Followed(q)
         PROVE  Followed(p)
    <2> SUFFICES ASSUME NEW i \in DOMAIN p, p[i] \in Magics
                 PROVE  Opens(p, i)
      BY DEF Followed
    <2>1. CASE i \in 1..l /\ p[i] = q[i]
      <3>1. i + 1 \in 1..l /\ IsVersion(q[i + 1])
        BY <1>2, <1>18, <2>1 DEF Followed, Opens
      <3> QED
        BY <1>5, <2>1, <3>1 DEF Opens
    <2>2. CASE i = l + 1
      BY <1>2, <1>6, <1>12a, <2>2 DEF Opens
    <2> QED
      BY <1>9, <2>1, <2>2
  <1>19. ASSUME NEW lo \in Int, Complete(q, lo, m - 1)
         PROVE  Complete(p, lo, m)
    <2> SUFFICES ASSUME NEW o \in (lo + 1)..m
                 PROVE  \E i \in DOMAIN p : p[i] = Magic(o)
      BY DEF Complete
    <2>1. CASE o = m
      BY <1>6, <2>1
    <2>2. CASE o # m
      <3>1. o \in (lo + 1)..(m - 1)
        BY <2>2
      <3>2. PICK i \in 1..l : q[i] = Magic(o)
        BY <1>2, <1>19, <3>1 DEF Complete
      <3> QED
        BY <1>5, <3>2
    <2> QED
      BY <2>1, <2>2
  <1>20. ASSUME NEW o \in Nat, NEW s \in Nat, s <= Len(q), Begun(q, o, s)
         PROVE  Begun(p, o, s)
    <2> SUFFICES ASSUME NEW k \in 1..s
                 PROVE  p[k] = Piece(o, k)
      BY DEF Begun
    <2>1. k \in 1..l
      BY <1>1, <1>2, <1>20
    <2> QED
      BY <1>2, <1>5, <1>20, <2>1 DEF Begun
  <1> QED
    <2>1. Framed(q) /\ Closed(q) => Framed(p)
      BY <1>13 DEF Framed
    <2>2. Closed(q) => Closed(p)
      BY <1>14 DEF Closed
    <2>3. Len(p) = Len(q) + size + 3
      BY <1>1, <1>2, <1>3
    <2> QED
      BY <1>3, <1>16, <1>17, <1>18, <1>19, <1>20, <2>1, <2>2, <2>3

\* p is what is left of q when some of its cells are lost.
Thinner(p, q) ==
    \E f \in [DOMAIN p -> DOMAIN q] :
        /\ \A i \in DOMAIN p : p[i] = q[f[i]]
        /\ \A i, j \in DOMAIN p : i < j => f[i] < f[j]

\* Losing cells changes nothing of the order of the others.
LEMMA ThinnerIsRising ==
    ASSUME NEW p, NEW q, Thinner(p, q)
    PROVE  /\ Rising(q) => Rising(p)
           /\ \A lo, hi : Between(q, lo, hi) => Between(p, lo, hi)
  <1>1. PICK f \in [DOMAIN p -> DOMAIN q] :
            /\ \A i \in DOMAIN p : p[i] = q[f[i]]
            /\ \A i, j \in DOMAIN p : i < j => f[i] < f[j]
    BY DEF Thinner
  <1>2. \A i \in DOMAIN p : f[i] \in DOMAIN q
    BY <1>1
  <1>3. Rising(q) => Rising(p)
    BY <1>1, <1>2 DEF Rising
  <1>4. \A lo, hi : Between(q, lo, hi) => Between(p, lo, hi)
    BY <1>1, <1>2 DEF Between
  <1> QED
    BY <1>3, <1>4

\* The parts of a sequence are thinner than it,
LEMMA PartsAreThinner ==
    ASSUME NEW T, NEW q \in Seq(T), NEW n \in 0..Len(q)
    PROVE  Thinner(q, q) /\ Thinner(<<>>, q) /\ Thinner(After(q, n), q) /\ Thinner(SubSeq(q, 1, n), q)
  <1>1. PICK l : l = Len(q)
    OBVIOUS
  <1>2. /\ l \in Nat /\ n \in Nat /\ n <= l /\ DOMAIN q = 1..l
    BY <1>1, LenProperties
  <1>3. PICK p : p = After(q, n)
    OBVIOUS
  <1>4. DOMAIN p = 1..(l - n) /\ \A i \in 1..(l - n) : p[i] = q[n + i]
    <2>1. p \in Seq(T) /\ Len(p) = l - n /\ \A i \in 1..(l - n) : p[i] = q[n + i]
      BY <1>1, <1>3, Split
    <2> QED
      BY <2>1, LenProperties
  <1>5. PICK s : s = SubSeq(q, 1, n)
    OBVIOUS
  <1>6. DOMAIN s = 1..n /\ \A i \in 1..n : s[i] = q[i]
    <2>1. s \in Seq(T) /\ Len(s) = n /\ \A i \in 1..n : s[i] = q[i]
      BY <1>1, <1>5, Split
    <2> QED
      BY <2>1, LenProperties
  <1>7. Thinner(q, q)
    <2>1. PICK f : f = [i \in DOMAIN q |-> i]
      OBVIOUS
    <2>2. /\ f \in [DOMAIN q -> DOMAIN q]
          /\ \A i \in DOMAIN q : q[i] = q[f[i]]
          /\ \A i, j \in DOMAIN q : i < j => f[i] < f[j]
      BY <2>1
    <2> QED
      BY <2>2 DEF Thinner
  <1>8. Thinner(<<>>, q)
    <2>1. DOMAIN <<>> = {}
      OBVIOUS
    <2>2. PICK f : f = [i \in DOMAIN <<>> |-> i]
      OBVIOUS
    <2>3. f \in [DOMAIN <<>> -> DOMAIN q]
      BY <2>1, <2>2
    <2> QED
      BY <2>1, <2>3 DEF Thinner
  <1>9. Thinner(p, q)
    <2>1. PICK f : f = [i \in DOMAIN p |-> n + i]
      OBVIOUS
    <2>2. /\ f \in [DOMAIN p -> DOMAIN q]
          /\ \A i \in DOMAIN p : p[i] = q[f[i]]
          /\ \A i, j \in DOMAIN p : i < j => f[i] < f[j]
      BY <1>2, <1>4, <2>1
    <2> QED
      BY <2>2 DEF Thinner
  <1>10. Thinner(s, q)
    <2>1. PICK f : f = [i \in DOMAIN s |-> i]
      OBVIOUS
    <2>2. /\ f \in [DOMAIN s -> DOMAIN q]
          /\ \A i \in DOMAIN s : s[i] = q[f[i]]
          /\ \A i, j \in DOMAIN s : i < j => f[i] < f[j]
      BY <1>2, <1>6, <2>1
    <2> QED
      BY <2>2 DEF Thinner
  <1> QED
    BY <1>3, <1>5, <1>7, <1>8, <1>9, <1>10

\* and so are sequences put together of thinner ones.
LEMMA TogetherThinner ==
    ASSUME NEW T, NEW a \in Seq(T), NEW b \in Seq(T), NEW c \in Seq(T), NEW d \in Seq(T),
           Thinner(a, c), Thinner(b, d)
    PROVE  Thinner(a \o b, c \o d)
  <1>1. PICK m, n, p, q : m = Len(a) /\ n = Len(c) /\ p = a \o b /\ q = c \o d
    OBVIOUS
  <1>2. PICK u, v : u = Len(b) /\ v = Len(d)
    OBVIOUS
  <1>3. /\ m \in Nat /\ n \in Nat /\ u \in Nat /\ v \in Nat
        /\ DOMAIN a = 1..m /\ DOMAIN b = 1..u /\ DOMAIN c = 1..n /\ DOMAIN d = 1..v
    BY <1>1, <1>2, LenProperties
  <1>4. p \in Seq(T) /\ Len(p) = m + u /\ \A i \in 1..(m + u) : p[i] = IF i <= m THEN a[i] ELSE b[i - m]
    BY <1>1, <1>2, ConcatProperties
  <1>5. q \in Seq(T) /\ Len(q) = n + v /\ \A i \in 1..(n + v) : q[i] = IF i <= n THEN c[i] ELSE d[i - n]
    BY <1>1, <1>2, ConcatProperties
  <1>6. DOMAIN p = 1..(m + u) /\ DOMAIN q = 1..(n + v)
    BY <1>4, <1>5, LenProperties
  <1>7. PICK f \in [1..m -> 1..n] : /\ \A i \in 1..m : a[i] = c[f[i]]
                                    /\ \A i, j \in 1..m : i < j => f[i] < f[j]
    BY <1>3 DEF Thinner
  <1>8. PICK g \in [1..u -> 1..v] : /\ \A i \in 1..u : b[i] = d[g[i]]
                                    /\ \A i, j \in 1..u : i < j => g[i] < g[j]
    BY <1>3 DEF Thinner
  <1>9. PICK h : h = [i \in 1..(m + u) |-> IF i <= m THEN f[i] ELSE n + g[i - m]]
    OBVIOUS
  <1>10. \A i \in 1..(m + u) : IF i <= m THEN i \in 1..m /\ f[i] \in 1..n /\ h[i] = f[i]
                               ELSE i - m \in 1..u /\ g[i - m] \in 1..v /\ h[i] = n + g[i - m]
    BY <1>3, <1>7, <1>8, <1>9
  <1>11. \A i \in 1..(m + u) : h[i] \in 1..(n + v)
    <2> SUFFICES ASSUME NEW i \in 1..(m + u)
                 PROVE  h[i] \in 1..(n + v)
      OBVIOUS
    <2>1. CASE i <= m
      <3>1. f[i] \in 1..n /\ h[i] = f[i]
        BY <1>10, <2>1
      <3> QED
        BY <1>3, <3>1
    <2>2. CASE ~(i <= m)
      <3>1. g[i - m] \in 1..v /\ h[i] = n + g[i - m]
        BY <1>10, <2>2
      <3> QED
        BY <1>3, <3>1
    <2> QED
      BY <2>1, <2>2
  <1>12. h \in [1..(m + u) -> 1..(n + v)]
    BY <1>9, <1>11
  <1>13. ASSUME NEW i \in 1..(m + u)
         PROVE  p[i] = q[h[i]]
    <2>1. CASE i <= m
      BY <1>3, <1>4, <1>5, <1>7, <1>10, <1>11, <2>1
    <2>2. CASE ~(i <= m)
      <3>1. i - m \in 1..u /\ g[i - m] \in 1..v /\ h[i] = n + g[i - m]
        BY <1>10, <2>2
      <3>2. ~(h[i] <= n) /\ h[i] - n = g[i - m]
        BY <1>3, <3>1
      <3> QED
        BY <1>4, <1>5, <1>8, <1>11, <2>2, <3>1, <3>2
    <2> QED
      BY <2>1, <2>2
  <1>14. ASSUME NEW i \in 1..(m + u), NEW j \in 1..(m + u), i < j
         PROVE  h[i] < h[j]
    <2>1. CASE j <= m
      <3>1. i \in 1..m /\ j \in 1..m
        BY <1>3, <1>14, <2>1
      <3> QED
        BY <1>7, <1>10, <1>14, <2>1, <3>1
    <2>2. CASE i <= m /\ ~(j <= m)
      BY <1>3, <1>10, <2>2
    <2>3. CASE ~(i <= m)
      <3>1. ~(j <= m) /\ i - m < j - m
        BY <1>3, <1>14, <2>3
      <3>2. /\ i - m \in 1..u /\ g[i - m] \in 1..v /\ h[i] = n + g[i - m]
            /\ j - m \in 1..u /\ g[j - m] \in 1..v /\ h[j] = n + g[j - m]
        BY <1>10, <2>3, <3>1
      <3>3. g[i - m] < g[j - m]
        BY <1>8, <3>1, <3>2
      <3> QED
        BY <1>3, <3>2, <3>3
    <2> QED
      BY <2>1, <2>2, <2>3
  <1> QED
    BY <1>1, <1>6, <1>12, <1>13, <1>14 DEF Thinner

-----------------------------------------------------------------------------
(* What the variables hold.                                                 *)

\* A header that the next bytes completed is a Rest of nobody with any size.
Headers == Cells \cup {Rest(0, n) : n \in Nat}
Arrivals == [header : Headers, body : Seq(Cells)]
Readers == [state : {"header", "message", "error"}, header : Headers, runs : BOOLEAN]

Typed ==
    /\ writer \in {"client", "server"}
    /\ open \in BOOLEAN /\ cuts \in Nat /\ written \in 0..MaxMessages
    /\ out \in Holding(Cells) /\ in \in Holding(Cells)
    /\ pipe \in Seq(Cells) /\ Len(pipe) <= PipeSize
    /\ reader \in Readers
    /\ delivered \in Seq(Arrivals)
    /\ spoilt \subseteq {"filled", "half_written", "sent_twice", "kept_reading", "kept_header"}

LEMMA HeaderIs ==
    ASSUME NEW h \in Headers
    PROVE  h.of \in Nat /\ h.n \in Nat
  <1>1. CASE h \in Cells
    BY <1>1, CellIs
  <1>2. CASE \E n \in Nat : h = Rest(0, n)
    BY <1>2 DEF Rest
  <1> QED
    BY <1>1, <1>2 DEF Headers

\* What write puts into a buffer.
LEMMA WritesMessage ==
    ASSUME NEW b \in Holding(Cells), NEW m \in 1..MaxMessages, NEW size \in Sizes,
           NEW h, h = Write(b, Header(m, size)), NEW c, c = Write(h, Body(m, size))
    PROVE  /\ h \in Holding(Cells) /\ c \in Holding(Cells)
           /\ 3 + size < Room(b) => Contents(c) = Contents(b) \o Message(m, size)
  <1>1. PICK u, v : u = Header(m, size) /\ v = Body(m, size)
    OBVIOUS
  <1>2. /\ u \in Seq(Cells) /\ Len(u) = 3 /\ v \in Seq(Cells) /\ Len(v) = size
        /\ Message(m, size) = u \o v
    BY <1>1, MessageIs DEF Message
  <1>3. size \in Nat /\ size + 3 <= Size /\ Size \in Nat /\ 3 <= Size
    BY SizesAssumption, SizeAssumption
  <1>4. h \in Holding(Cells) /\ (3 < Room(b) => Contents(h) = Contents(b) \o u)
    BY <1>1, <1>2, <1>3, WriteKeeps
  <1>5. c \in Holding(Cells) /\ (size < Room(h) => Contents(c) = Contents(h) \o v)
    <2>1. Len(v) <= Size
      BY <1>2, <1>3
    <2> QED
      BY <1>1, <1>2, <1>4, <2>1, WriteKeeps
  <1>6. ASSUME 3 + size < Room(b)
        PROVE  Contents(c) = Contents(b) \o Message(m, size)
    <2>1. PICK x, y : x = Contents(b) /\ y = Contents(h)
      OBVIOUS
    <2>2. x \in Seq(Cells) /\ Len(x) \in Nat /\ Room(b) = Size - Len(x)
      BY <2>1, Held
    <2>3. y \in Seq(Cells) /\ Len(y) \in Nat /\ Room(h) = Size - Len(y)
      BY <1>4, <2>1, Held
    <2>4. y = x \o u
      <3>1. 3 < Room(b)
        BY <1>3, <1>6, <2>2
      <3> QED
        BY <1>4, <2>1, <3>1
    <2>5. Len(y) = Len(x) + 3
      <3>1. Len(x \o u) = Len(x) + Len(u)
        BY <1>2, <2>2, ConcatProperties
      <3> QED
        BY <1>2, <2>4, <3>1
    <2>6. size < Room(h)
      BY <1>3, <1>6, <2>2, <2>3, <2>5
    <2>7. (x \o u) \o v = x \o (u \o v)
      <3>1. x \in Seq(Cells) /\ u \in Seq(Cells) /\ v \in Seq(Cells)
        BY <1>2, <2>2
      <3> QED
        BY <3>1, ConcatAssociative
    <2>8. Contents(c) = y \o v
      BY <1>5, <2>1, <2>6
    <2>9. Contents(c) = x \o (u \o v)
      BY <2>4, <2>7, <2>8
    <2>10. Message(m, size) = u \o v
      BY <1>2
    <2> QED
      BY <2>1, <2>9, <2>10
  <1> QED
    BY <1>4, <1>5, <1>6

\* What the reader does when it looks for a header.
LEMMA ReadsHeader ==
    ASSUME Typed, ParseHeader, NEW x, x = Contents(in), NEW y, y = Contents(in')
    PROVE  /\ in' \in Holding(Cells)
           /\ \E k \in 0..Len(x) :
                 /\ \A i \in 1..k : x[i] \notin Magics
                 /\ \/ /\ k + 3 \in 0..Len(x)
                       /\ x[k + 1] \in Magics
                       /\ y = After(x, k + 3)
                       /\ \/ ~IsVersion(x[k + 2]) /\ reader' = reader
                          \/ /\ IsVersion(x[k + 2]) /\ IsRest(x[k + 3])
                             /\ Heading(x[k + 3])
                          \/ /\ IsVersion(x[k + 2]) /\ ~IsRest(x[k + 3])
                             /\ \E n \in Sizes \cup {Unsupported} : Heading(Rest(0, n))
                    \/ y = After(x, k) /\ reader' = [reader EXCEPT !.runs = FALSE]
  <1>1. PICK b : b = [in EXCEPT !.read = Find(in, Magics)]
    OBVIOUS
  <1>2. PICK l : l = Len(x)
    OBVIOUS
  <1>3. /\ in \in Holding(Cells) /\ x \in Seq(Cells) /\ l \in Nat /\ l = read_available(in)
        /\ DOMAIN x = 1..l /\ l < Size /\ Size \in Nat
    <2>1. in \in Holding(Cells)
      BY DEF Typed
    <2> QED
      BY <1>2, <2>1, Held, LenProperties, SizeAssumption
  <1>4. PICK k \in 0..l :
            /\ b = Read(in, k)
            /\ \A i \in 1..k : x[i] \notin Magics
            /\ IF Found(in, Magics) THEN k < l /\ x[k + 1] \in Magics
               ELSE \A i \in DOMAIN x : x[i] \notin Magics
    BY <1>1, <1>3, Seek
  <1>5. PICK z : z = Contents(b)
    OBVIOUS
  <1>6. b \in Holding(Cells) /\ z = After(x, k)
    BY <1>3, <1>4, <1>5, ReadKeeps
  <1>7. /\ z \in Seq(Cells) /\ Len(z) = l - k /\ \A i \in 1..(l - k) : z[i] = x[k + i]
        /\ read_available(b) = l - k
    <2>1. k \in 0..Len(x)
      BY <1>2, <1>4
    <2>2. z \in Seq(Cells) /\ Len(z) = l - k /\ \A i \in 1..(l - k) : z[i] = x[k + i]
      BY <1>2, <1>3, <1>6, <2>1, Split
    <2>3. read_available(b) = Len(z)
      BY <1>5, <1>6, Held
    <2> QED
      BY <2>2, <2>3
  <1>8. PICK whole, header : /\ whole = (Found(in, Magics) /\ Readable(b, 3))
                            /\ header = Ahead(b, 3)
    OBVIOUS
  <1>9. /\ in' = IF whole THEN Read(b, 3) ELSE b
        /\ \/ ~whole /\ reader' = [reader EXCEPT !.runs = FALSE]
           \/ whole /\ ~IsVersion(header[2]) /\ reader' = reader
           \/ whole /\ IsVersion(header[2]) /\ IsRest(header[3]) /\ Heading(header[3])
           \/ /\ whole /\ IsVersion(header[2]) /\ ~IsRest(header[3])
              /\ \E n \in Sizes \cup {Unsupported} : Heading(Rest(0, n))
    BY <1>1, <1>8 DEF ParseHeader, TryLater
  <1>10. Readable(b, 3) => l - k >= 3
    BY <1>3, <1>4, <1>7, SizeAssumption DEF Readable, can_read
  <1>11. CASE whole
    <2>1. l - k >= 3 /\ k < l /\ x[k + 1] \in Magics
      BY <1>4, <1>8, <1>10, <1>11
    <2>2. 3 \in 0..read_available(b)
      BY <1>3, <1>4, <1>7, <2>1
    <2>3. in' \in Holding(Cells) /\ y = After(z, 3) /\ header = SubSeq(z, 1, 3)
      BY <1>5, <1>6, <1>8, <1>9, <1>11, <2>2, ReadKeeps
    <2>4. 3 \in 0..Len(z) /\ k + 3 \in 0..Len(x)
      BY <1>2, <1>3, <1>4, <1>7, <2>1
    <2>5. header[2] = z[2] /\ header[3] = z[3]
      <3>1. \A i \in 1..3 : SubSeq(z, 1, 3)[i] = z[i]
        BY <1>7, <2>4, Split
      <3> QED
        BY <2>3, <3>1
    <2>6. z[2] = x[k + 2] /\ z[3] = x[k + 3]
      BY <1>3, <1>4, <1>7, <2>1
    <2>7. y = After(x, k + 3)
      <3>1. PICK w : w = After(x, k + 3)
        OBVIOUS
      <3>2. w \in Seq(Cells) /\ Len(w) = l - (k + 3) /\ \A i \in 1..(l - (k + 3)) : w[i] = x[k + 3 + i]
        <4>1. k + 3 \in 0..Len(x) /\ x \in Seq(Cells) /\ Len(x) = l
          BY <1>2, <1>3, <2>4
        <4> QED
          BY <3>1, <4>1, Split
      <3>3. y \in Seq(Cells) /\ Len(y) = l - k - 3 /\ \A i \in 1..(l - k - 3) : y[i] = z[3 + i]
        BY <1>7, <2>3, <2>4, Split
      <3>4. l - (k + 3) = l - k - 3 /\ \A i \in 1..(l - k - 3) : 3 + i \in 1..(l - k) /\ k + (3 + i) = k + 3 + i
        BY <1>3, <1>4
      <3>5. \A i \in 1..Len(y) : y[i] = w[i]
        BY <1>7, <3>2, <3>3, <3>4
      <3> QED
        BY <3>1, <3>2, <3>3, <3>4, <3>5, SeqEqual
    <2>8. \/ ~IsVersion(x[k + 2]) /\ reader' = reader
          \/ IsVersion(x[k + 2]) /\ IsRest(x[k + 3]) /\ Heading(x[k + 3])
          \/ /\ IsVersion(x[k + 2]) /\ ~IsRest(x[k + 3])
             /\ \E n \in Sizes \cup {Unsupported} : Heading(Rest(0, n))
      BY <1>9, <1>11, <2>5, <2>6
    <2> QED
      BY <1>2, <1>4, <2>1, <2>3, <2>4, <2>7, <2>8
  <1>12. CASE ~whole
    <2>1. in' = b /\ y = After(x, k) /\ reader' = [reader EXCEPT !.runs = FALSE]
      BY <1>5, <1>6, <1>9, <1>12
    <2> QED
      BY <1>2, <1>4, <1>6, <2>1
  <1> QED
    BY <1>11, <1>12

\* What the reader does when it looks for a body.
LEMMA ReadsBody ==
    ASSUME Typed, ParseMessage, NEW x, x = Contents(in), NEW y, y = Contents(in'),
           NEW n, n = reader.header.n
    PROVE  /\ in' \in Holding(Cells) /\ n \in Nat /\ reader.state = "message"
           /\ \/ /\ ~(n <= Len(x)) /\ in' = in /\ delivered' = delivered
                 /\ reader' = [reader EXCEPT !.runs = FALSE]
              \/ /\ n \in 0..Len(x)
                 /\ y = After(x, n)
                 /\ delivered' = Append(delivered, [header |-> reader.header, body |-> SubSeq(x, 1, n)])
                 /\ [header |-> reader.header, body |-> SubSeq(x, 1, n)] \in Arrivals
                 /\ reader' = [reader EXCEPT !.state = "header", !.runs = TRUE]
  <1>1. reader.state = "message" /\ reader.header \in Headers /\ in \in Holding(Cells)
    BY DEF ParseMessage, Typed, Readers
  <1>2. n \in Nat
    BY <1>1, HeaderIs
  <1>3. x \in Seq(Cells) /\ Len(x) = read_available(in) /\ Len(x) \in Nat
    BY <1>1, Held
  <1>4. can_read(in, n) <=> n <= Len(x)
    BY <1>2, <1>3 DEF can_read
  <1>5. CASE ~can_read(in, n)
    BY <1>1, <1>2, <1>4, <1>5 DEF ParseMessage, TryLater
  <1>6. CASE can_read(in, n)
    <2>1. n \in 0..Len(x) /\ n \in 0..read_available(in)
      BY <1>2, <1>3, <1>4, <1>6
    <2>2. /\ in' = Read(in, n)
          /\ delivered' = Append(delivered, [header |-> reader.header, body |-> Ahead(in, n)])
          /\ reader' = NextMessage(reader)
      BY <1>6 DEF ParseMessage
    <2>3. in' \in Holding(Cells) /\ y = After(x, n) /\ Ahead(in, n) = SubSeq(x, 1, n)
      BY <1>1, <2>1, <2>2, ReadKeeps
    <2>4. SubSeq(x, 1, n) \in Seq(Cells)
      BY <1>3, <2>1, Split
    <2> QED
      BY <1>1, <1>2, <2>1, <2>2, <2>3, <2>4 DEF NextMessage, Arrivals
  <1> QED
    BY <1>5, <1>6

-----------------------------------------------------------------------------
(* One step keeps the types.                                                *)

LEMMA TypedInit == Init => Typed
  <1> SUFFICES ASSUME Init PROVE Typed
    OBVIOUS
  <1>1. Empty \in Holding(Cells)
    BY HoldsNothing
  <1>2. <<>> \in Seq(Cells) /\ Len(<<>>) = 0 /\ <<>> \in Seq(Arrivals)
    BY EmptySeq
  <1>3. PipeSize \in Nat /\ 0 \in 0..MaxMessages /\ 0 <= PipeSize
    BY PipeAssumption, BoundsAssumption, SizeAssumption
  <1>4. FreshReader \in Readers
    BY DEF FreshReader, Readers, Headers
  <1> QED
    BY <1>1, <1>2, <1>3, <1>4 DEF Init, Typed

\* The numbers of a state that is typed, and its sequences.
LEMMA Numbers ==
    ASSUME Typed
    PROVE  /\ Size \in Nat /\ PipeSize \in Nat /\ PipeSize <= Size /\ MaxMessages \in Nat
           /\ written \in Nat /\ written <= MaxMessages /\ cuts \in Nat
           /\ Len(pipe) \in Nat /\ Len(pipe) <= PipeSize
  <1>1. Size \in Nat /\ PipeSize \in Nat /\ PipeSize <= Size /\ MaxMessages \in Nat
    BY PipeAssumption, SizeAssumption, BoundsAssumption
  <1>2. written \in 0..MaxMessages /\ cuts \in Nat
    BY DEF Typed
  <1>3. written \in Nat /\ written <= MaxMessages
    BY <1>1, <1>2
  <1>4. pipe \in Seq(Cells) /\ Len(pipe) <= PipeSize
    BY DEF Typed
  <1> QED
    BY <1>1, <1>2, <1>3, <1>4, LenProperties

LEMMA Buffers ==
    ASSUME Typed
    PROVE  out \in Holding(Cells) /\ in \in Holding(Cells) /\ pipe \in Seq(Cells)
  BY DEF Typed

LEMMA TypedStep ==
    ASSUME Typed, [Next]_vars
    PROVE  Typed'
  <1> USE DEF Spoils
  <1>1. ASSUME NEW size \in Sizes, WriteMessage(size)
        PROVE  Typed'
    <2>1. PICK m : m = written + 1
      OBVIOUS
    <2>2. m \in 1..MaxMessages /\ m \in 0..MaxMessages /\ out \in Holding(Cells)
      <3>1. m <= MaxMessages
        BY <1>1, <2>1 DEF WriteMessage
      <3> QED
        BY <2>1, <3>1, Numbers, Buffers
    <2>3. out' = Write(Write(out, Header(m, size)), Body(m, size)) /\ written' = m
      BY <1>1, <2>1 DEF WriteMessage
    <2>4. out' \in Holding(Cells)
      BY <2>2, <2>3, WritesMessage
    <2> QED
      BY <1>1, <2>2, <2>3, <2>4 DEF Typed, WriteMessage
  <1>2. ASSUME NEW size \in Sizes, WriteHalf(size)
        PROVE  Typed'
    <2>1. PICK m : m = written + 1
      OBVIOUS
    <2>2. m \in 1..MaxMessages /\ out \in Holding(Cells)
      <3>1. m <= MaxMessages
        BY <1>2, <2>1 DEF WriteHalf
      <3> QED
        BY <2>1, <3>1, Numbers, Buffers
    <2>3. out' = Write(out, Header(m, size))
      BY <1>2, <2>1 DEF WriteHalf
    <2>4. out' \in Holding(Cells)
      BY <2>2, <2>3, WritesMessage
    <2>5. cuts' \in Nat
      <3>1. cuts' = cuts + 1
        BY <1>2 DEF WriteHalf
      <3> QED
        BY <3>1, Numbers
    <2> QED
      BY <1>2, <2>4, <2>5 DEF Typed, WriteHalf
  <1>3. CASE SendSome
    <2>1. PICK room, n, x : room = PipeSize - Len(pipe) /\ n = SentInto(out, room) /\ x = Contents(out)
      OBVIOUS
    <2>2. out \in Holding(Cells) /\ pipe \in Seq(Cells) /\ Len(pipe) \in Nat /\ PipeSize \in Nat /\ room \in Nat
      BY <2>1, Numbers, Buffers
    <2>3. n \in 0..read_available(out) /\ n <= room
      BY <2>1, <2>2, Sends
    <2>4. out' \in Holding(Cells) /\ Ahead(out, n) = SubSeq(x, 1, n) /\ n \in 0..Len(x)
      BY <1>3, <2>1, <2>2, <2>3, ReadKeeps DEF SendSome
    <2>5. Ahead(out, n) \in Seq(Cells) /\ Len(Ahead(out, n)) = n
      <3>1. x \in Seq(Cells)
        BY <2>1, <2>2, Held
      <3> QED
        BY <2>4, <3>1, Split
    <2>6. pipe' = pipe \o Ahead(out, n)
      BY <1>3, <2>1 DEF SendSome
    <2>7. pipe' \in Seq(Cells) /\ Len(pipe') = Len(pipe) + n
      BY <2>2, <2>5, <2>6, ConcatProperties
    <2>8. Len(pipe') <= PipeSize
      BY <2>1, <2>2, <2>3, <2>4, <2>7
    <2> QED
      BY <1>3, <2>4, <2>7, <2>8 DEF Typed, SendSome
  <1>4. CASE SendThrows
    <2>1. PICK room, x : room = PipeSize - Len(pipe) /\ x = Contents(out)
      OBVIOUS
    <2>2. out \in Holding(Cells) /\ pipe \in Seq(Cells) /\ Len(pipe) \in Nat /\ PipeSize \in Nat /\ room \in Nat
      BY <2>1, Numbers, Buffers
    <2>3. room \in 0..read_available(out)
      BY <1>4, <2>1, <2>2, Sends DEF SendThrows
    <2>4. Ahead(out, room) = SubSeq(x, 1, room) /\ room \in 0..Len(x)
      BY <2>1, <2>2, <2>3, ReadKeeps
    <2>5. Ahead(out, room) \in Seq(Cells) /\ Len(Ahead(out, room)) = room
      <3>1. x \in Seq(Cells)
        BY <2>1, <2>2, Held
      <3> QED
        BY <2>4, <3>1, Split
    <2>6. pipe' = pipe \o Ahead(out, room)
      BY <1>4, <2>1 DEF SendThrows
    <2>7. pipe' \in Seq(Cells) /\ Len(pipe') = Len(pipe) + room
      BY <2>2, <2>5, <2>6, ConcatProperties
    <2>8. Len(pipe') <= PipeSize
      BY <2>1, <2>2, <2>7
    <2>9. cuts' \in Nat
      <3>1. cuts' = cuts + 1
        BY <1>4 DEF SendThrows
      <3> QED
        BY <3>1, Numbers
    <2> QED
      BY <1>4, <2>7, <2>8, <2>9 DEF Typed, SendThrows
  <1>5. CASE Receive
    <2>1. PICK k, l : k = TakenFrom(in, pipe) /\ l = Len(pipe)
      OBVIOUS
    <2>2. in \in Holding(Cells) /\ pipe \in Seq(Cells) /\ l \in Nat /\ PipeSize \in Nat /\ Size \in Nat
          /\ l <= Size /\ l <= PipeSize
      BY <2>1, Numbers, Buffers
    <2>3. k \in 0..l /\ ReadFrom(in, pipe) \in Holding(Cells)
      BY <2>1, <2>2, Draw
    <2>4. in' \in Holding(Cells)
      BY <1>5, <2>2, <2>3 DEF Receive
    <2>5. pipe' = After(pipe, k)
      BY <1>5, <2>1 DEF Receive, After
    <2>6. pipe' \in Seq(Cells) /\ Len(pipe') = l - k
      BY <2>1, <2>2, <2>3, <2>5, Split
    <2>7. Len(pipe') <= PipeSize
      BY <2>2, <2>3, <2>6
    <2> QED
      BY <1>5, <2>4, <2>6, <2>7 DEF Typed, Receive, Readers
  <1>6. CASE ParseHeader
    <2>1. PICK x : x = Contents(in)
      OBVIOUS
    <2>2. PICK k \in 0..Len(x) :
              \/ k + 3 \in 0..Len(x) /\ \/ reader' = reader
                                        \/ Heading(x[k + 3])
                                        \/ \E n \in Sizes \cup {Unsupported} : Heading(Rest(0, n))
              \/ reader' = [reader EXCEPT !.runs = FALSE]
      BY <1>6, <2>1, ReadsHeader
    <2>3. in' \in Holding(Cells)
      BY <1>6, <2>1, ReadsHeader
    <2>4. ASSUME NEW h \in Headers, Heading(h)
          PROVE  reader' \in Readers
      BY <2>4 DEF Typed, Readers, Heading
    <2>5. k + 3 \in 0..Len(x) => x[k + 3] \in Headers
      <3>1. x \in Seq(Cells)
        BY <2>1, Held DEF Typed
      <3>2. k + 3 \in 0..Len(x) => k + 3 \in 1..Len(x)
        OBVIOUS
      <3> QED
        BY <3>1, <3>2, ElementOfSeq DEF Headers
    <2>6. \A n \in Sizes \cup {Unsupported} : Rest(0, n) \in Headers
      <3>1. \A n \in Sizes \cup {Unsupported} : n \in Nat
        BY SizesAssumption, SizeAssumption DEF Unsupported
      <3> QED
        BY <3>1 DEF Headers
    <2>7. reader' \in Readers
      <3>1. CASE reader' = reader \/ reader' = [reader EXCEPT !.runs = FALSE]
        BY <3>1 DEF Typed, Readers
      <3> QED
        BY <2>2, <2>4, <2>5, <2>6, <3>1
    <2> QED
      BY <1>6, <2>3, <2>7 DEF Typed, ParseHeader
  <1>7. CASE ParseMessage
    <2>1. PICK x, n : x = Contents(in) /\ n = reader.header.n
      OBVIOUS
    <2>2. PICK d : d = [header |-> reader.header, body |-> SubSeq(x, 1, n)]
      OBVIOUS
    <2>3. /\ in' \in Holding(Cells)
          /\ \/ delivered' = delivered /\ reader' = [reader EXCEPT !.runs = FALSE]
             \/ /\ delivered' = Append(delivered, d) /\ d \in Arrivals
                /\ reader' = [reader EXCEPT !.state = "header", !.runs = TRUE]
      BY <1>7, <2>1, <2>2, ReadsBody
    <2>4. delivered' \in Seq(Arrivals)
      <3>1. delivered \in Seq(Arrivals)
        BY DEF Typed
      <3> QED
        BY <2>3, <3>1, AppendProperties
    <2>5. reader' \in Readers
      BY <2>3 DEF Typed, Readers
    <2> QED
      BY <1>7, <2>3, <2>4, <2>5 DEF Typed, ParseMessage
  <1>7a. CASE ReadError
    <2>1. in' \in Holding(Cells)
      <3>1. in \in Holding(Cells) /\ read_available(in) \in Nat
        BY Buffers, Held
      <3>2. read_available(in) \in 0..read_available(in)
        BY <3>1
      <3> QED
        BY <1>7a, <3>1, <3>2, ReadKeeps DEF ReadError
    <2>2. reader' \in Readers
      BY <1>7a DEF Typed, Readers, ReadError
    <2> QED
      BY <1>7a, <2>1, <2>2 DEF Typed, ReadError
  <1>8. CASE Cut
    <2>1. PICK n \in 0..Len(pipe) : pipe' = SubSeq(pipe, 1, n)
      BY <1>8 DEF Cut
    <2>2. pipe' \in Seq(Cells) /\ Len(pipe') = n /\ Len(pipe) \in Nat
      BY <2>1, Split, LenProperties DEF Typed
    <2>3. PipeSize \in Nat /\ Len(pipe) <= PipeSize
      BY Numbers
    <2>4. Len(pipe') <= PipeSize
      BY <2>1, <2>2, <2>3
    <2>5. cuts' \in Nat
      <3>1. cuts' = cuts + 1
        BY <1>8 DEF Cut
      <3> QED
        BY <3>1, Numbers
    <2> QED
      BY <1>8, <2>2, <2>4, <2>5 DEF Typed, Cut
  <1>9. CASE Reconnect
    <2>1. out' \in Holding(Cells) /\ in' \in Holding(Cells)
      BY <1>9, HoldsNothing DEF Typed, Reconnect
    <2>2. pipe' \in Seq(Cells) /\ Len(pipe') <= PipeSize
      <3>1. <<>> \in Seq(Cells) /\ Len(<<>>) = 0
        BY EmptySeq
      <3>2. PipeSize \in Nat /\ 0 <= PipeSize
        BY PipeAssumption, SizeAssumption
      <3> QED
        BY <1>9, <3>1, <3>2 DEF Reconnect
    <2>3. reader' \in Readers
      BY <1>9 DEF Typed, Reconnect, ReaderOf, FreshReader, Readers, Headers
    <2> QED
      BY <1>9, <2>1, <2>2, <2>3 DEF Typed, Reconnect
  <1>10. CASE UNCHANGED vars
    BY <1>10 DEF Typed, vars
  <1> QED
    BY <1>1, <1>2, <1>3, <1>4, <1>5, <1>6, <1>7, <1>7a, <1>8, <1>9, <1>10 DEF Next, ReadingEnd

\* Whatever goes wrong, the positions of both buffers stay inside their arrays, and
\* every cell they and the stream hold was once written.
THEOREM TypeCorrect == Spec => []TypeOK
  <1>1. Typed => TypeOK
    <2> SUFFICES ASSUME Typed PROVE TypeOK
      OBVIOUS
    <2>1. \A b \in {out, in} : b.read \in Positions /\ b.write \in Positions /\ Contents(b) \in Seq(Cells)
      <3>1. \A b \in {out, in} : b \in Holding(Cells)
        BY Buffers
      <3>2. \A b \in Holding(Cells) : b.read \in Positions /\ b.write \in Positions /\ Contents(b) \in Seq(Cells)
        BY Held DEF Ring
      <3> QED
        BY <3>1, <3>2
    <2>2. \A q \in Seq(Cells) : ToSet(q) \subseteq Cells
      BY LenProperties, ElementOfSeq DEF ToSet
    <2> QED
      BY <2>1, <2>2 DEF Typed, TypeOK
  <1> QED
    BY <1>1, TypedInit, TypedStep, PTL DEF Spec

-----------------------------------------------------------------------------
(* What is on the way while nothing has been spoilt.                        *)

\* The number of the message that came last.
Latest == IF delivered = <<>> THEN 0 ELSE Came[Len(delivered)]

\* The number the reader is done with, or at.
Done == IF reader.state = "message" THEN reader.header.of ELSE Latest

\* Everything that is on the way, and what of it can still arrive in one piece:
\* what the writer holds is cut off while there is no connection.
Stream == Contents(in) \o (pipe \o Contents(out))
Flow == IF open THEN Stream ELSE Contents(in) \o pipe

\* Header and body of each message are together.
Whole ==
    /\ Framed(Flow) /\ (open => Closed(Flow))
    /\ Framed(Contents(out)) /\ Closed(Contents(out))

\* The numbers rise, from the one that came last to the one written last.
Ordered ==
    /\ Rising(Stream) /\ Between(Stream, Done, written)
    /\ Latest \in 0..written

\* The reader that has a header is in front of its body.
Midway ==
    reader.state = "message" =>
        /\ Latest < reader.header.of /\ reader.header.of <= written
        /\ Begun(Flow, reader.header.of, reader.header.n)
        /\ open => reader.header.n <= Len(Flow)

\* The reader that has a header has one that was written.
Sound ==
    /\ reader.state # "error"
    /\ reader.state = "message" => reader.header \in Cells /\ IsRest(reader.header)

\* Without a cut every message is on the way or has come.
Unbroken ==
    cuts = 0 =>
        /\ open
        /\ reader.state = "message" => reader.header.of = Latest + 1
        /\ Followed(Stream) /\ Complete(Stream, Done, written)

Clean == Whole /\ Ordered /\ Midway /\ Sound /\ Unbroken

\* The parts of a stream are streams.
LEMMA Streams ==
    ASSUME NEW a \in Holding(Cells), NEW p \in Seq(Cells), NEW b \in Holding(Cells)
    PROVE  /\ Contents(a) \in Seq(Cells) /\ Contents(b) \in Seq(Cells)
           /\ p \o Contents(b) \in Seq(Cells) /\ Contents(a) \o p \in Seq(Cells)
           /\ Contents(a) \o (p \o Contents(b)) \in Seq(Cells)
  <1>1. Contents(a) \in Seq(Cells) /\ Contents(b) \in Seq(Cells)
    BY Held
  <1>2. PICK x, y, z : x = Contents(a) /\ y = Contents(b) /\ z = p \o y
    OBVIOUS
  <1>3. z \in Seq(Cells) /\ x \o p \in Seq(Cells)
    BY <1>1, <1>2, ConcatProperties
  <1>4. x \o z \in Seq(Cells)
    BY <1>1, <1>2, <1>3, ConcatProperties
  <1> QED
    BY <1>1, <1>2, <1>3, <1>4

\* The two ends of a stream put together are its front and its back.
LEMMA Ends ==
    ASSUME NEW a \in Seq(Cells), NEW b \in Seq(Cells), NEW q, q = a \o b
    PROVE  /\ q \in Seq(Cells) /\ Len(q) = Len(a) + Len(b)
           /\ \A i \in 1..Len(a) : i \in DOMAIN q /\ q[i] = a[i]
           /\ \A i \in 1..Len(b) : Len(a) + i \in DOMAIN q /\ q[Len(a) + i] = b[i]
           /\ DOMAIN q = 1..(Len(a) + Len(b)) /\ DOMAIN a = 1..Len(a) /\ DOMAIN b = 1..Len(b)
           /\ Len(a) \in Nat /\ Len(b) \in Nat
           /\ a = SubSeq(q, 1, Len(a)) /\ b = After(q, Len(a)) /\ Len(a) \in 0..Len(q)
  <1>1. PICK m, n : m = Len(a) /\ n = Len(b)
    OBVIOUS
  <1>2. m \in Nat /\ n \in Nat /\ DOMAIN a = 1..m /\ DOMAIN b = 1..n
    BY <1>1, LenProperties
  <1>3. q \in Seq(Cells) /\ Len(q) = m + n /\ \A i \in 1..(m + n) : q[i] = IF i <= m THEN a[i] ELSE b[i - m]
    BY <1>1, ConcatProperties
  <1>4. DOMAIN q = 1..(m + n)
    BY <1>3, LenProperties
  <1>5. \A i \in 1..m : i \in 1..(m + n) /\ i <= m
    BY <1>2
  <1>6. \A i \in 1..n : m + i \in 1..(m + n) /\ ~(m + i <= m) /\ m + i - m = i
    BY <1>2
  <1>7. /\ \A i \in 1..m : i \in DOMAIN q /\ q[i] = a[i]
        /\ \A i \in 1..n : m + i \in DOMAIN q /\ q[m + i] = b[i]
    <2>1. \A i \in 1..m : i \in DOMAIN q /\ q[i] = a[i]
      BY <1>3, <1>4, <1>5
    <2>2. ASSUME NEW i \in 1..n
          PROVE  m + i \in DOMAIN q /\ q[m + i] = b[i]
      <3>1. PICK j : j = m + i
        OBVIOUS
      <3>2. j \in 1..(m + n) /\ ~(j <= m) /\ j - m = i
        BY <1>2, <3>1
      <3> QED
        BY <1>3, <1>4, <3>1, <3>2
    <2> QED
      BY <2>1, <2>2
  <1>8. m \in 0..Len(q) /\ Len(q) - m = n
    BY <1>2, <1>3
  <1>9. PICK s, t : s = SubSeq(q, 1, m) /\ t = After(q, m)
    OBVIOUS
  <1>10. /\ s \in Seq(Cells) /\ Len(s) = m /\ \A i \in 1..m : s[i] = q[i]
         /\ t \in Seq(Cells) /\ Len(t) = n /\ \A i \in 1..n : t[i] = q[m + i]
    BY <1>3, <1>8, <1>9, Split
  <1>11. s = a
    BY <1>1, <1>7, <1>10, SeqEqual
  <1>12. t = b
    BY <1>1, <1>7, <1>10, SeqEqual
  <1> QED
    BY <1>1, <1>2, <1>3, <1>4, <1>7, <1>8, <1>9, <1>11, <1>12

\* Both are as good as the whole.
LEMMA EndsAreGood ==
    ASSUME NEW a \in Seq(Cells), NEW b \in Seq(Cells), NEW q, q = a \o b
    PROVE  /\ Framed(q) => Framed(a) /\ Framed(b)
           /\ \A m, s : Begun(q, m, s) => Begun(a, m, s)
           /\ Closed(q) => Closed(b)
           /\ Followed(q) => Followed(b)
           /\ Rising(q) => Rising(a) /\ Rising(b)
           /\ \A lo, hi : Between(q, lo, hi) => Between(a, lo, hi) /\ Between(b, lo, hi)
  <1>1. PICK n : n = Len(a)
    OBVIOUS
  <1>2. q \in Seq(Cells) /\ a = SubSeq(q, 1, n) /\ b = After(q, n) /\ n \in 0..Len(q)
    BY <1>1, Ends
  <1>3. /\ Framed(q) => Framed(a) /\ Framed(b)
        /\ \A m, s : Begun(q, m, s) => Begun(a, m, s)
        /\ Closed(q) => Closed(b)
        /\ Followed(q) => Followed(b)
    BY <1>2, AfterIsGood, BeforeIsGood
  <1>4. Thinner(a, q) /\ Thinner(b, q)
    BY <1>2, PartsAreThinner
  <1> QED
    BY <1>3, <1>4, ThinnerIsRising

\* Three streams put together are the same either way.
LEMMA Associative ==
    ASSUME NEW a \in Seq(Cells), NEW b \in Seq(Cells), NEW c \in Seq(Cells)
    PROVE  (a \o b) \o c = a \o (b \o c)
  BY ConcatAssociative

\* Nothing is empty of messages.
LEMMA NothingIsGood == Framed(<<>>) /\ Closed(<<>>)
  BY DEF Framed, Closed

\* A number that is not on the front of a stream is on its back.
LEMMA CompleteBack ==
    ASSUME NEW a \in Seq(Cells), NEW b \in Seq(Cells), NEW q, q = a \o b,
           NEW lo \in Int, NEW low \in Int, lo <= low, NEW hi \in Int,
           \A i \in 1..Len(a) : a[i] \in Magics => a[i].of <= low,
           Complete(q, lo, hi), hi <= MaxMessages, 0 <= lo
    PROVE  Complete(b, low, hi)
  <1> SUFFICES ASSUME NEW m \in (low + 1)..hi
               PROVE  \E i \in DOMAIN b : b[i] = Magic(m)
    BY DEF Complete
  <1>1. m \in (lo + 1)..hi /\ m \in 1..MaxMessages /\ m > low /\ m \in Int
    BY BoundsAssumption
  <1>2. PICK i \in DOMAIN q : q[i] = Magic(m)
    BY <1>1 DEF Complete
  <1>3. Magic(m) \in Magics /\ Magic(m).of = m
    BY <1>1 DEF Magics, Magic
  <1>4. PICK x, y : x = Len(a) /\ y = Len(b)
    OBVIOUS
  <1>5. /\ x \in Nat /\ y \in Nat /\ DOMAIN q = 1..(x + y) /\ DOMAIN b = 1..y
        /\ \A j \in 1..x : q[j] = a[j]
        /\ \A j \in 1..y : q[x + j] = b[j]
    BY <1>4, Ends
  <1>6. ~(i \in 1..x)
    <2> SUFFICES ASSUME i \in 1..x PROVE FALSE
      OBVIOUS
    <2>1. a[i] = Magic(m)
      BY <1>2, <1>5
    <2>2. m <= low
      BY <1>3, <1>4, <2>1
    <2> QED
      BY <1>1, <2>2
  <1>7. i - x \in 1..y /\ x + (i - x) = i
    BY <1>5, <1>6
  <1> QED
    BY <1>2, <1>5, <1>7

\* What came is as many numbers as were delivered.
LEMMA CameIs ==
    ASSUME delivered \in Seq(Arrivals)
    PROVE  /\ Came \in Seq(Nat) /\ Len(Came) = Len(delivered) /\ DOMAIN Came = DOMAIN delivered
           /\ Latest \in Nat
           /\ Latest = IF Came = <<>> THEN 0 ELSE Came[Len(Came)]
  <1>1. PICK n : n = Len(delivered)
    OBVIOUS
  <1>2. n \in Nat /\ DOMAIN delivered = 1..n /\ \A i \in 1..n : delivered[i] \in Arrivals
    BY <1>1, LenProperties, ElementOfSeq
  <1>3. \A i \in 1..n : delivered[i].header.of \in Nat
    BY <1>2, HeaderIs DEF Arrivals
  <1>4. Came \in [1..n -> Nat]
    BY <1>2, <1>3 DEF Came, Damaged
  <1>5. Came \in Seq(Nat) /\ Len(Came) = n /\ DOMAIN Came = 1..n
    BY <1>2, <1>4, SeqDef
  <1>6. Came = <<>> <=> n = 0
    BY <1>5, EmptySeq
  <1>7. delivered = <<>> <=> n = 0
    BY <1>1, EmptySeq
  <1>8. n # 0 => Came[n] \in Nat
    BY <1>2, <1>4
  <1> QED
    BY <1>1, <1>2, <1>5, <1>6, <1>7, <1>8 DEF Latest

-----------------------------------------------------------------------------
(* One step keeps what is on the way clean.                                 *)

\* A message is written behind everything.
LEMMA CleanWrite ==
    ASSUME Typed, Clean, NEW size \in Sizes, WriteMessage(size), spoilt' = {}
    PROVE  Clean'
  <1>1. PICK m, x, p, y, e, w : /\ m = written + 1 /\ x = Contents(in) /\ p = pipe
                                /\ y = Contents(out) /\ e = Message(m, size)
                                /\ w = x \o (p \o y)
    OBVIOUS
  <1>2. m <= MaxMessages /\ open
    BY <1>1 DEF WriteMessage
  <1>3. m \in 1..MaxMessages /\ out \in Holding(Cells) /\ in \in Holding(Cells) /\ p \in Seq(Cells)
        /\ m - 1 = written /\ written \in Nat
    BY <1>1, <1>2, Numbers, Buffers
  <1>4. ~(3 + size >= Room(out))
    <2>1. spoilt' = IF 3 + size >= Room(out) THEN spoilt \cup {"filled"} ELSE spoilt
      BY DEF WriteMessage, Spoils
    <2> QED
      BY <2>1
  <1>5. 3 + size < Room(out)
    <2>1. size \in Nat /\ Size \in Nat
      BY SizesAssumption, SizeAssumption
    <2>2. read_available(out) \in Nat /\ Room(out) = Size - read_available(out)
      BY <1>3, Held
    <2> QED
      BY <1>4, <2>1, <2>2
  <1>6. PICK y1 : y1 = Contents(out')
    OBVIOUS
  <1>7. y1 = y \o e
    <2>1. out' = Write(Write(out, Header(m, size)), Body(m, size))
      BY <1>1 DEF WriteMessage
    <2> QED
      <3>1. PICK h, c : h = Write(out, Header(m, size)) /\ c = Write(h, Body(m, size))
        OBVIOUS
      <3>2. m \in 1..MaxMessages /\ out \in Holding(Cells) /\ 3 + size < Room(out)
        BY <1>3, <1>5
      <3>3. Contents(c) = Contents(out) \o Message(m, size)
        BY <3>1, <3>2, WritesMessage
      <3>4. out' = c
        BY <2>1, <3>1
      <3> QED
        BY <1>1, <1>6, <3>3, <3>4
  <1>8. /\ x \in Seq(Cells) /\ y \in Seq(Cells) /\ e \in Seq(Cells) /\ p \o y \in Seq(Cells)
        /\ w \in Seq(Cells)
    BY <1>1, <1>3, Streams, MessageIs
  <1>9. PICK w1 : w1 = x \o (p \o y1)
    OBVIOUS
  <1>10. w1 = w \o e
    <2>1. (p \o y) \o e = p \o (y \o e)
      BY <1>3, <1>8, Associative
    <2>2. (x \o (p \o y)) \o e = x \o ((p \o y) \o e)
      <3>1. PICK v : v = p \o y
        OBVIOUS
      <3>2. x \in Seq(Cells) /\ v \in Seq(Cells) /\ e \in Seq(Cells)
        BY <1>8, <3>1
      <3>3. (x \o v) \o e = x \o (v \o e)
        BY <3>2, Associative
      <3> QED
        BY <3>1, <3>3
    <2> QED
      BY <1>1, <1>7, <1>9, <2>1, <2>2
  <1>11. /\ open' = open /\ in' = in /\ pipe' = pipe /\ reader' = reader /\ delivered' = delivered
         /\ written' = m /\ cuts' = cuts
    BY <1>1 DEF WriteMessage
  <1>12. Latest' = Latest /\ Done' = Done
    BY <1>11 DEF Latest, Done, Came
  <1>13. Stream = w /\ Flow = w /\ Stream' = w1 /\ Flow' = w1
    BY <1>1, <1>2, <1>6, <1>9, <1>11 DEF Stream, Flow
  <1>14. Done \in Int /\ Done < m
    <2>1. Latest \in 0..written
      BY DEF Clean, Ordered
    <2>2. CASE reader.state = "message"
      <3>1. reader.header \in Cells
        BY <2>2 DEF Clean, Sound
      <3>2. reader.header.of \in 1..MaxMessages
        BY <3>1, CellIs
      <3>3. reader.header.of <= written
        BY <2>2 DEF Clean, Midway
      <3>4. Done = reader.header.of
        BY <2>2 DEF Done
      <3> QED
        BY <1>1, <1>3, <3>2, <3>3, <3>4
    <2>3. CASE ~(reader.state = "message")
      <3>1. Done = Latest
        BY <2>3 DEF Done
      <3> QED
        BY <1>1, <1>3, <2>1, <3>1
    <2> QED
      BY <2>2, <2>3
  <1>15. Framed(w) /\ Closed(w) /\ Framed(y) /\ Closed(y)
    BY <1>1, <1>2, <1>13 DEF Clean, Whole
  <1>15a. /\ w1 = w \o Message(m, size) /\ y1 = y \o Message(m, size)
         /\ w \in Seq(Cells) /\ y \in Seq(Cells) /\ m \in 1..MaxMessages
    BY <1>1, <1>3, <1>7, <1>8, <1>10
  <1>16. Framed(w1) /\ Closed(w1) /\ Framed(y1) /\ Closed(y1)
    BY <1>15, <1>15a, Appended
  <1>17. Rising(w) /\ Between(w, Done, m - 1)
    BY <1>3, <1>13 DEF Clean, Ordered
  <1>18. Rising(w1) /\ Between(w1, Done, m)
    BY <1>14, <1>17, <1>15a, Appended
  <1>19. Whole'
    BY <1>6, <1>13, <1>16 DEF Whole
  <1>20. Ordered'
    <2>1. Latest \in 0..m
      <3>1. Latest \in 0..written
        BY DEF Clean, Ordered
      <3> QED
        BY <1>1, <1>3, <3>1
    <2> QED
      BY <1>11, <1>12, <1>13, <1>18, <2>1 DEF Ordered
  <1>21. Midway'
    <2> SUFFICES ASSUME reader.state = "message"
                 PROVE  /\ Latest < reader.header.of /\ reader.header.of <= m
                        /\ Begun(w1, reader.header.of, reader.header.n)
                        /\ reader.header.n <= Len(w1)
      BY <1>11, <1>12, <1>13 DEF Midway
    <2>1. /\ Latest < reader.header.of /\ reader.header.of <= written
          /\ Begun(w, reader.header.of, reader.header.n)
          /\ reader.header.n <= Len(w)
      BY <1>2, <1>13 DEF Clean, Midway
    <2>2. reader.header.of \in Nat /\ reader.header.n \in Nat
      <3>1. reader.header \in Cells
        BY DEF Clean, Sound
      <3> QED
        BY <3>1, CellIs
    <2>3. Begun(w1, reader.header.of, reader.header.n) /\ Len(w1) = Len(w) + size + 3
      <3>1. /\ \A o, s \in Nat : s <= Len(w) /\ Begun(w, o, s) => Begun(w1, o, s)
            /\ Len(w1) = Len(w) + size + 3
        BY <1>15a, Appended
      <3> QED
        BY <2>1, <2>2, <3>1
    <2>4. Len(w) \in Nat /\ size \in Nat
      BY <1>8, LenProperties, SizesAssumption
    <2> QED
      BY <1>1, <1>3, <2>1, <2>2, <2>3, <2>4
  <1>22. Sound'
    BY <1>11 DEF Clean, Sound
  <1>23. Unbroken'
    <2> SUFFICES ASSUME cuts = 0
                 PROVE  /\ reader.state = "message" => reader.header.of = Latest + 1
                        /\ Followed(w1) /\ Complete(w1, Done, m)
      BY <1>2, <1>11, <1>12, <1>13 DEF Unbroken
    <2>1. /\ reader.state = "message" => reader.header.of = Latest + 1
          /\ Followed(w) /\ Complete(w, Done, m - 1)
      BY <1>3, <1>13 DEF Clean, Unbroken
    <2> QED
      BY <1>14, <1>15a, <2>1, Appended
  <1> QED
    BY <1>19, <1>20, <1>21, <1>22, <1>23 DEF Clean

\* Sending moves cells along.
LEMMA CleanSend ==
    ASSUME Typed, Clean, SendSome
    PROVE  Clean'
  <1>1. PICK room, n, x, p, y : /\ room = PipeSize - Len(pipe) /\ n = SentInto(out, room)
                                /\ x = Contents(in) /\ p = pipe /\ y = Contents(out)
    OBVIOUS
  <1>2. out \in Holding(Cells) /\ in \in Holding(Cells) /\ p \in Seq(Cells) /\ room \in Nat
    BY <1>1, Numbers, Buffers
  <1>3. n \in 0..read_available(out)
    BY <1>1, <1>2, Sends
  <1>4. PICK y1, s : y1 = Contents(out') /\ s = Ahead(out, n)
    OBVIOUS
  <1>5. out' = Read(out, n) /\ pipe' = p \o s
    BY <1>1, <1>4 DEF SendSome
  <1>6. y1 = After(y, n) /\ s = SubSeq(y, 1, n) /\ n \in 0..Len(y)
    BY <1>1, <1>2, <1>3, <1>4, <1>5, ReadKeeps
  <1>7. x \in Seq(Cells) /\ y \in Seq(Cells)
    BY <1>1, <1>2, Streams
  <1>8. y = s \o y1 /\ s \in Seq(Cells) /\ y1 \in Seq(Cells)
    <2>1. y \in Seq(Cells) /\ n \in 0..Len(y)
      BY <1>6, <1>7
    <2>2. /\ SubSeq(y, 1, n) \in Seq(Cells) /\ After(y, n) \in Seq(Cells)
          /\ y = SubSeq(y, 1, n) \o After(y, n)
      BY <2>1, Split
    <2> QED
      BY <1>6, <2>2
  <1>9. (p \o s) \o y1 = p \o y
    BY <1>2, <1>8, Associative
  <1>10. /\ open' = open /\ in' = in /\ reader' = reader /\ delivered' = delivered
         /\ written' = written /\ cuts' = cuts /\ open
    BY DEF SendSome
  <1>11. Stream' = Stream /\ Flow' = Flow
    BY <1>1, <1>4, <1>5, <1>9, <1>10 DEF Stream, Flow
  <1>12. Latest' = Latest /\ Done' = Done
    BY <1>10 DEF Latest, Done, Came
  <1>13. Framed(y1) /\ Closed(y1)
    <2>1. Framed(y) /\ Closed(y)
      BY <1>1 DEF Clean, Whole
    <2> QED
      BY <1>8, <2>1, EndsAreGood
  <1>14. Whole'
    BY <1>4, <1>10, <1>11, <1>13 DEF Clean, Whole
  <1>15. Ordered' /\ Midway' /\ Sound' /\ Unbroken'
    BY <1>10, <1>11, <1>12 DEF Clean, Ordered, Midway, Sound, Unbroken
  <1> QED
    BY <1>14, <1>15 DEF Clean

\* So does reading, except that what is read can be lost with the end of a
\* closed stream.
LEMMA CleanReceive ==
    ASSUME Typed, Clean, Receive, spoilt' = {}
    PROVE  Clean'
  <1>1. PICK k, x, p, y : /\ k = TakenFrom(in, pipe)
                          /\ x = Contents(in) /\ p = pipe /\ y = Contents(out)
    OBVIOUS
  <1>2. /\ out \in Holding(Cells) /\ in \in Holding(Cells) /\ p \in Seq(Cells)
        /\ Len(p) <= Size /\ Len(p) \in Nat
    BY <1>1, Numbers, Buffers
  <1>3. x \in Seq(Cells) /\ y \in Seq(Cells)
    BY <1>1, <1>2, Streams
  <1>4. ~Overfilled(in, p)
    <2>1. spoilt' = IF Overfilled(in, p) THEN spoilt \cup {"filled"} ELSE spoilt
      BY <1>1 DEF Receive, Spoils
    <2> QED
      BY <2>1
  <1>5. /\ k \in 0..Len(p)
        /\ Contents(ReadFrom(in, p)) = x \o SubSeq(p, 1, k)
        /\ EndThrows(in, p) => k = Len(p)
    <2>1. pipe \in Seq(Cells) /\ Len(pipe) <= Size /\ ~Overfilled(in, pipe)
      BY <1>1, <1>2, <1>4
    <2>2. /\ k \in 0..Len(pipe)
          /\ Contents(ReadFrom(in, pipe)) = Contents(in) \o SubSeq(pipe, 1, k)
          /\ EndThrows(in, pipe) => k = Len(pipe)
      <3>1. PICK c : c = ReadFrom(in, pipe)
        OBVIOUS
      <3>2. k = TakenFrom(in, pipe) /\ in \in Holding(Cells)
        BY <1>1, <1>2
      <3>3. k \in 0..Len(pipe) /\ (EndThrows(in, pipe) => k = Len(pipe))
        BY <2>1, <3>2, Draw
      <3>4. Contents(c) = Contents(in) \o SubSeq(pipe, 1, k)
        BY <2>1, <3>1, <3>2, Draw
      <3> QED
        BY <3>1, <3>3, <3>4
    <2> QED
      BY <1>1, <2>2
  <1>6. PICK s, p1 : s = SubSeq(p, 1, k) /\ p1 = After(p, k)
    OBVIOUS
  <1>7. s \in Seq(Cells) /\ p1 \in Seq(Cells) /\ p = s \o p1 /\ Len(p1) = Len(p) - k
    <2>1. k \in 0..Len(p)
      BY <1>5
    <2>2. /\ SubSeq(p, 1, k) \in Seq(Cells) /\ After(p, k) \in Seq(Cells)
          /\ p = SubSeq(p, 1, k) \o After(p, k) /\ Len(After(p, k)) = Len(p) - k
      BY <1>2, <2>1, Split
    <2> QED
      BY <1>6, <2>2
  <1>8. /\ open' = open /\ out' = out /\ delivered' = delivered /\ pipe' = p1
        /\ written' = written /\ cuts' = cuts /\ reader' = [reader EXCEPT !.runs = TRUE]
        /\ in' = ReadFrom(in, p) \/ (~open /\ EndThrows(in, p) /\ in' = in)
    <2>1. in' = ReadFrom(in, p) \/ (~open /\ EndThrows(in, p) /\ in' = in)
      BY <1>1 DEF Receive
    <2> QED
      BY <1>1, <1>6, <2>1 DEF Receive, After
  <1>9. /\ reader'.state = reader.state /\ reader'.header = reader.header /\ reader'.runs = TRUE
    BY <1>8 DEF Typed, Readers
  <1>10. Latest' = Latest /\ Done' = Done
    BY <1>8, <1>9 DEF Latest, Done, Came
  <1>11. Sound'
    BY <1>9 DEF Clean, Sound
  <1>12. CASE in' = ReadFrom(in, p)
    <2>1. Contents(in') = x \o s
      BY <1>5, <1>6, <1>8, <1>12
    <2>2. (x \o s) \o p1 = x \o p
      BY <1>3, <1>7, Associative
    <2>3. (x \o s) \o (p1 \o y) = x \o (p \o y)
      <3>1. p1 \o y \in Seq(Cells)
        BY <1>3, <1>7, ConcatProperties
      <3>2. (x \o s) \o (p1 \o y) = x \o (s \o (p1 \o y))
        BY <1>3, <1>7, <3>1, Associative
      <3>3. s \o (p1 \o y) = (s \o p1) \o y
        BY <1>3, <1>7, Associative
      <3> QED
        BY <1>7, <3>2, <3>3
    <2>4. Stream' = Stream /\ Flow' = Flow
      BY <1>1, <1>8, <2>1, <2>2, <2>3 DEF Stream, Flow
    <2>5. Whole' /\ Ordered' /\ Midway' /\ Unbroken'
      BY <1>8, <1>9, <1>10, <2>4 DEF Clean, Whole, Ordered, Midway, Unbroken
    <2> QED
      BY <1>11, <2>5 DEF Clean
  <1>13. CASE ~open /\ EndThrows(in, p) /\ in' = in
    <2>1. p1 = <<>>
      <3>1. Len(p1) = 0
        BY <1>2, <1>5, <1>7, <1>13
      <3> QED
        BY <1>7, <3>1, EmptySeq
    <2>2. in' = in /\ x \o p1 = x /\ p1 \o y = y
      BY <1>3, <1>8, <1>13, <2>1, ConcatEmptySeq
    <2>3. Stream' = x \o y /\ Flow' = x /\ Stream = x \o (p \o y) /\ Flow = x \o p
      BY <1>1, <1>8, <1>13, <2>2 DEF Stream, Flow
    <2>4. Framed(x) /\ \A m, n : Begun(Flow, m, n) => Begun(x, m, n)
      <3>1. Framed(x \o p)
        BY <2>3 DEF Clean, Whole
      <3> QED
        BY <1>2, <1>3, <2>3, <3>1, EndsAreGood
    <2>5. Rising(x \o y) /\ Between(x \o y, Done, written)
      <3>1. PICK q : q = p \o y
        OBVIOUS
      <3>2. q \in Seq(Cells) /\ Thinner(y, q) /\ Thinner(x, x)
        <4>1. q \in Seq(Cells) /\ Len(p) \in 0..Len(q) /\ y = After(q, Len(p))
          BY <1>2, <1>3, <3>1, Ends
        <4>2. 0 \in 0..Len(x)
          BY <1>3, LenProperties
        <4> QED
          BY <1>3, <4>1, <4>2, PartsAreThinner
      <3>3. Thinner(x \o y, x \o q)
        BY <1>3, <3>2, TogetherThinner
      <3>4. Rising(x \o q) /\ Between(x \o q, Done, written)
        BY <2>3, <3>1 DEF Clean, Ordered
      <3> QED
        BY <3>3, <3>4, ThinnerIsRising
    <2>6. Whole'
      BY <1>8, <1>13, <2>3, <2>4 DEF Clean, Whole
    <2>7. Ordered'
      BY <1>8, <1>10, <2>3, <2>5 DEF Clean, Ordered
    <2>8. Midway'
      BY <1>8, <1>9, <1>10, <1>13, <2>3, <2>4 DEF Clean, Midway
    <2>9. Unbroken'
      BY <1>8, <1>13 DEF Clean, Unbroken
    <2> QED
      BY <1>11, <2>6, <2>7, <2>8, <2>9 DEF Clean
  <1> QED
    BY <1>8, <1>12, <1>13

\* What a cut takes is a middle of the stream, and no later part follows it.
LEMMA CleanCut ==
    ASSUME Typed, Clean, Cut
    PROVE  Clean'
  <1>1. PICK n \in 0..Len(pipe) : pipe' = SubSeq(pipe, 1, n)
    BY DEF Cut
  <1>2. PICK x, p, y, p1, b : /\ x = Contents(in) /\ p = pipe /\ y = Contents(out)
                              /\ p1 = SubSeq(pipe, 1, n) /\ b = After(pipe, n)
    OBVIOUS
  <1>3. /\ x \in Seq(Cells) /\ p \in Seq(Cells) /\ y \in Seq(Cells) /\ n \in 0..Len(p)
    BY <1>1, <1>2, Buffers, Streams
  <1>4. p1 \in Seq(Cells) /\ b \in Seq(Cells) /\ p = p1 \o b /\ Thinner(p1, p)
    <2>1. /\ SubSeq(p, 1, n) \in Seq(Cells) /\ After(p, n) \in Seq(Cells)
          /\ p = SubSeq(p, 1, n) \o After(p, n) /\ Thinner(SubSeq(p, 1, n), p)
      BY <1>3, Split, PartsAreThinner
    <2> QED
      BY <1>2, <2>1
  <1>5. /\ open /\ open' = FALSE /\ in' = in /\ out' = out /\ reader' = reader /\ delivered' = delivered
        /\ written' = written /\ cuts' = cuts + 1 /\ pipe' = p1 /\ ~reader.runs
    BY <1>1, <1>2 DEF Cut
  <1>6. /\ Stream = x \o (p \o y) /\ Flow = x \o (p \o y)
        /\ Stream' = x \o (p1 \o y) /\ Flow' = x \o p1
    BY <1>2, <1>5 DEF Stream, Flow
  <1>7. Latest' = Latest /\ Done' = Done
    BY <1>5 DEF Latest, Done, Came
  <1>8. /\ p \o y \in Seq(Cells) /\ p1 \o y \in Seq(Cells) /\ b \o y \in Seq(Cells)
        /\ x \o p1 \in Seq(Cells)
    BY <1>3, <1>4, ConcatProperties
  <1>9. x \o (p \o y) = (x \o p1) \o (b \o y)
    <2>1. (p1 \o b) \o y = p1 \o (b \o y)
      <3>1. p1 \in Seq(Cells) /\ b \in Seq(Cells) /\ y \in Seq(Cells)
        BY <1>3, <1>4
      <3> QED
        BY <3>1, Associative
    <2>2. (x \o p1) \o (b \o y) = x \o (p1 \o (b \o y))
      <3>1. PICK q : q = b \o y
        OBVIOUS
      <3>2. x \in Seq(Cells) /\ p1 \in Seq(Cells) /\ q \in Seq(Cells)
        BY <1>3, <1>4, <1>8, <3>1
      <3>3. (x \o p1) \o q = x \o (p1 \o q)
        BY <3>2, Associative
      <3> QED
        BY <3>1, <3>3
    <2> QED
      BY <1>4, <2>1, <2>2
  <1>10. Framed(x \o p1) /\ \A m, s : Begun(Flow, m, s) => Begun(x \o p1, m, s)
    <2>1. Framed(Flow)
      BY DEF Clean, Whole
    <2> QED
      BY <1>6, <1>8, <1>9, <2>1, EndsAreGood
  <1>11. Rising(x \o (p1 \o y)) /\ Between(x \o (p1 \o y), Done, written)
    <2>1. Thinner(x, x) /\ Thinner(y, y)
      <3>1. 0 \in 0..Len(x) /\ 0 \in 0..Len(y)
        BY <1>3, LenProperties
      <3> QED
        BY <1>3, <3>1, PartsAreThinner
    <2>2. Thinner(p1 \o y, p \o y)
      BY <1>3, <1>4, <2>1, TogetherThinner
    <2>3. Thinner(x \o (p1 \o y), x \o (p \o y))
      BY <1>3, <1>8, <2>1, <2>2, TogetherThinner
    <2>4. Rising(Stream) /\ Between(Stream, Done, written)
      BY DEF Clean, Ordered
    <2> QED
      BY <1>6, <2>3, <2>4, ThinnerIsRising
  <1>12. Whole'
    BY <1>5, <1>6, <1>10 DEF Clean, Whole
  <1>13. Ordered'
    BY <1>5, <1>6, <1>7, <1>11 DEF Clean, Ordered
  <1>14. Midway'
    BY <1>5, <1>6, <1>7, <1>10 DEF Clean, Midway
  <1>15. Sound'
    BY <1>5 DEF Clean, Sound
  <1>16. cuts' # 0
    BY <1>5, Numbers
  <1>17. Unbroken'
    BY <1>16 DEF Unbroken
  <1> QED
    BY <1>12, <1>13, <1>14, <1>15, <1>17 DEF Clean

\* A new connection starts with what the end that stayed has left.
LEMMA CleanReconnect ==
    ASSUME Typed, Clean, Reconnect, spoilt' = {}
    PROVE  Clean'
  <1>1. PICK x, p, y : x = Contents(in) /\ p = pipe /\ y = Contents(out)
    OBVIOUS
  <1>2. /\ x \in Seq(Cells) /\ p \in Seq(Cells) /\ y \in Seq(Cells)
        /\ p \o y \in Seq(Cells) /\ x \o p \in Seq(Cells)
    BY <1>1, Buffers, Streams
  <1>3. /\ ~open /\ open' = TRUE /\ ~reader.runs /\ pipe' = <<>> /\ delivered' = delivered
        /\ written' = written /\ cuts' = cuts
        /\ out' = IF writer = "client" THEN out ELSE Empty
        /\ in' = IF writer = "client" THEN Empty ELSE in
        /\ reader' = IF writer = "client" THEN FreshReader ELSE reader
    BY DEF Reconnect, ReaderOf
  <1>4. Stream = x \o (p \o y) /\ Flow = x \o p
    BY <1>1, <1>3 DEF Stream, Flow
  <1>5. /\ <<>> \o y = y /\ <<>> \o (<<>> \o y) = y
        /\ x \o (<<>> \o <<>>) = x
    <2>1. <<>> \o y = y /\ x \o <<>> = x
      BY <1>2, ConcatEmptySeq
    <2>2. <<>> \o <<>> = <<>>
      <3>1. <<>> \in Seq(Cells)
        BY EmptySeq
      <3> QED
        BY <3>1, ConcatEmptySeq
    <2> QED
      BY <2>1, <2>2
  <1>6. Latest' = Latest
    BY <1>3 DEF Latest, Came
  <1>7. Unbroken'
    <2>1. cuts # 0
      BY <1>3 DEF Clean, Unbroken
    <2> QED
      BY <1>3, <2>1 DEF Unbroken
  <1>8. Contents(Empty) = <<>>
    BY HoldsNothing
  <1>9. Latest \in 0..written /\ Latest \in Int
    <2>1. Latest \in 0..written
      BY DEF Clean, Ordered
    <2> QED
      BY <2>1, Numbers
  <1>10. CASE writer = "client"
    <2>1. out' = out /\ in' = Empty /\ reader' = FreshReader
      BY <1>3, <1>10
    <2>2. Stream' = y /\ Flow' = y
      BY <1>1, <1>3, <1>5, <1>8, <2>1 DEF Stream, Flow
    <2>3. reader'.state = "header"
      BY <2>1 DEF FreshReader
    <2>4. Done' = Latest
      BY <1>6, <2>3 DEF Done
    <2>5. Framed(y) /\ Closed(y)
      BY <1>1 DEF Clean, Whole
    <2>6. Rising(y) /\ Between(y, Done, written)
      <3>1. Rising(Stream) /\ Between(Stream, Done, written)
        BY DEF Clean, Ordered
      <3>2. Rising(p \o y) /\ Between(p \o y, Done, written)
        BY <1>2, <1>4, <3>1, EndsAreGood
      <3> QED
        BY <1>2, <3>2, EndsAreGood
    <2>7. Between(y, Latest, written)
      <3>1. CASE reader.state = "message"
        <4>1. Done = reader.header.of /\ Latest < Done
          BY <3>1 DEF Done, Clean, Midway
        <4>2. Done \in Int
          <5>1. reader.header \in Cells
            BY <3>1 DEF Clean, Sound
          <5> QED
            BY <4>1, <5>1, CellIs
        <4>3. \A i \in DOMAIN y : y[i].of \in Int
          BY <1>2, LenProperties, ElementOfSeq, CellIs
        <4>4. \A i \in DOMAIN y : Done < y[i].of => Latest < y[i].of
          BY <1>9, <4>1, <4>2, <4>3
        <4> QED
          BY <2>6, <4>4 DEF Between
      <3>2. CASE ~(reader.state = "message")
        BY <2>6, <3>2 DEF Done
      <3> QED
        BY <3>1, <3>2
    <2>8. Whole'
      BY <1>1, <2>1, <2>2, <2>5 DEF Whole
    <2>9. Ordered'
      BY <1>3, <1>6, <1>9, <2>2, <2>4, <2>6, <2>7 DEF Ordered
    <2>10. Midway'
      BY <2>3 DEF Midway
    <2>11. Sound'
      BY <2>3 DEF Sound
    <2> QED
      BY <1>7, <2>8, <2>9, <2>10, <2>11 DEF Clean
  <1>11. CASE writer # "client"
    <2>1. out' = Empty /\ in' = in /\ reader' = reader
      BY <1>3, <1>11
    <2>2. reader.state = "header" /\ ~HasOpened(in)
      <3>1. writer = "server"
        BY <1>11 DEF Typed
      <3>2. ~(reader.state = "message" \/ HasOpened(in))
        <4>1. PICK why : spoilt' = IF writer = "server" /\ (reader.state = "message" \/ HasOpened(in))
                                   THEN spoilt \cup {why} ELSE spoilt
          BY DEF Reconnect, Spoils
        <4> QED
          BY <3>1, <4>1
      <3>3. reader.state # "error" /\ reader \in Readers
        BY DEF Clean, Sound, Typed
      <3> QED
        BY <3>2, <3>3 DEF Readers
    <2>3. Stream' = x /\ Flow' = x
      BY <1>1, <1>3, <1>5, <1>8, <2>1 DEF Stream, Flow
    <2>4. Done' = Done
      BY <1>6, <2>1 DEF Done
    <2>5. \A i \in DOMAIN x : ~Opens(x, i)
      BY <1>1, <2>2 DEF HasOpened
    <2>6. Framed(x) /\ Closed(x)
      BY <2>5 DEF Framed, Closed
    <2>7. Rising(x) /\ Between(x, Done, written)
      <3>1. Rising(Stream) /\ Between(Stream, Done, written)
        BY DEF Clean, Ordered
      <3> QED
        BY <1>2, <1>4, <3>1, EndsAreGood
    <2>8. Whole'
      BY <1>8, <2>1, <2>3, <2>6, NothingIsGood DEF Whole
    <2>9. Ordered'
      BY <1>3, <1>6, <1>9, <2>3, <2>4, <2>7 DEF Ordered
    <2>10. Midway'
      <3>1. reader'.state = "header"
        BY <2>1, <2>2
      <3> QED
        BY <3>1 DEF Midway
    <2>11. Sound'
      BY <2>1 DEF Clean, Sound
    <2> QED
      BY <1>7, <2>8, <2>9, <2>10, <2>11 DEF Clean
  <1> QED
    BY <1>10, <1>11

\* A front of a stream can be split from it, whatever follows.
LEMMA FrontOf ==
    ASSUME NEW x \in Seq(Cells), NEW k \in 0..Len(x), NEW r \in Seq(Cells)
    PROVE  /\ SubSeq(x, 1, k) \in Seq(Cells) /\ Len(SubSeq(x, 1, k)) = k
           /\ After(x, k) \in Seq(Cells) /\ After(x, k) \o r \in Seq(Cells)
           /\ x \o r = SubSeq(x, 1, k) \o (After(x, k) \o r)
  <1>1. PICK a, b : a = SubSeq(x, 1, k) /\ b = After(x, k)
    OBVIOUS
  <1>2. a \in Seq(Cells) /\ Len(a) = k /\ b \in Seq(Cells) /\ x = a \o b
    BY <1>1, Split
  <1>3. a \in Seq(Cells) /\ b \in Seq(Cells)
    BY <1>2
  <1>4. (a \o b) \o r = a \o (b \o r)
    BY <1>3, Associative
  <1>5. b \o r \in Seq(Cells)
    BY <1>3, ConcatProperties
  <1> QED
    BY <1>1, <1>2, <1>4, <1>5

\* What is read from the front of the stream leaves the back of it.
LEMMA FrontTaken ==
    ASSUME Typed, NEW k \in 0..Len(Contents(in))
    PROVE  LET x == Contents(in)
               a == SubSeq(x, 1, k)
               w == After(x, k) \o (pipe \o Contents(out))
               u == IF open THEN w ELSE After(x, k) \o pipe
           IN  /\ x \in Seq(Cells) /\ a \in Seq(Cells) /\ Len(a) = k
               /\ w \in Seq(Cells) /\ u \in Seq(Cells)
               /\ Stream = a \o w /\ Flow = a \o u
  <1>1. PICK x, r : x = Contents(in) /\ r = pipe \o Contents(out)
    OBVIOUS
  <1>2. x \in Seq(Cells) /\ pipe \in Seq(Cells) /\ r \in Seq(Cells) /\ k \in 0..Len(x)
    BY <1>1, Buffers, Streams
  <1>3. PICK a, b : a = SubSeq(x, 1, k) /\ b = After(x, k)
    OBVIOUS
  <1>4. /\ a \in Seq(Cells) /\ Len(a) = k /\ b \o r \in Seq(Cells) /\ b \o pipe \in Seq(Cells)
        /\ x \o r = a \o (b \o r) /\ x \o pipe = a \o (b \o pipe)
    BY <1>2, <1>3, FrontOf
  <1>5. CASE open
    BY <1>1, <1>2, <1>3, <1>4, <1>5 DEF Stream, Flow
  <1>6. CASE ~open
    BY <1>1, <1>2, <1>3, <1>4, <1>6 DEF Stream, Flow
  <1> QED
    BY <1>5, <1>6

\* A header is found.
LEMMA CleanHeader ==
    ASSUME Typed, Clean, ParseHeader
    PROVE  Clean'
  <1>1. PICK x, y, x1 : x = Contents(in) /\ y = Contents(out) /\ x1 = Contents(in')
    OBVIOUS
  <1>2. reader.state = "header" /\ reader.runs
    BY DEF ParseHeader
  <1>3. /\ open' = open /\ out' = out /\ pipe' = pipe /\ delivered' = delivered
        /\ written' = written /\ cuts' = cuts
    BY DEF ParseHeader
  <1>4. Latest' = Latest /\ Done = Latest
    BY <1>2, <1>3 DEF Latest, Done, Came
  <1>5. PICK k \in 0..Len(x) :
            /\ \A i \in 1..k : x[i] \notin Magics
            /\ \/ /\ k + 3 \in 0..Len(x)
                  /\ x[k + 1] \in Magics
                  /\ x1 = After(x, k + 3)
                  /\ \/ ~IsVersion(x[k + 2]) /\ reader' = reader
                     \/ IsVersion(x[k + 2]) /\ IsRest(x[k + 3]) /\ Heading(x[k + 3])
                     \/ IsVersion(x[k + 2]) /\ ~IsRest(x[k + 3])
               \/ x1 = After(x, k) /\ reader' = [reader EXCEPT !.runs = FALSE]
    BY <1>1, ReadsHeader
  <1>6. PICK w1, u1 : /\ w1 = x1 \o (pipe \o y)
                      /\ u1 = IF open THEN w1 ELSE x1 \o pipe
    OBVIOUS
  <1>7. Stream' = w1 /\ Flow' = u1
    BY <1>1, <1>3, <1>6 DEF Stream, Flow
  <1>8. /\ Framed(Flow) /\ (open => Closed(Flow)) /\ Framed(y) /\ Closed(y)
        /\ Rising(Stream) /\ Between(Stream, Latest, written)
        /\ Latest \in 0..written /\ Latest \in Int /\ written \in Int /\ written <= MaxMessages /\ 0 <= Latest
    <2>1. /\ Framed(Flow) /\ (open => Closed(Flow)) /\ Framed(y) /\ Closed(y)
      BY <1>1 DEF Clean, Whole
    <2>2. Rising(Stream) /\ Between(Stream, Latest, written) /\ Latest \in 0..written
      BY <1>4 DEF Clean, Ordered
    <2> QED
      BY <2>1, <2>2, Numbers
  <1>9. cuts = 0 => open /\ Followed(Stream) /\ Complete(Stream, Latest, written)
    BY <1>4 DEF Clean, Unbroken
  <1>10. ASSUME NEW j \in 0..Len(x), x1 = After(x, j)
         PROVE  /\ x \in Seq(Cells) /\ SubSeq(x, 1, j) \in Seq(Cells)
                /\ w1 \in Seq(Cells) /\ u1 \in Seq(Cells)
                /\ Stream = SubSeq(x, 1, j) \o w1 /\ Flow = SubSeq(x, 1, j) \o u1
                /\ Len(SubSeq(x, 1, j)) = j /\ \A i \in 1..j : SubSeq(x, 1, j)[i] = x[i]
                /\ Framed(u1) /\ (open => Closed(u1)) /\ Rising(w1) /\ Between(w1, Latest, written)
                /\ cuts = 0 => Followed(w1)
    <2>1. PICK a : a = SubSeq(x, 1, j)
      OBVIOUS
    <2>2. /\ x \in Seq(Cells) /\ a \in Seq(Cells)
          /\ w1 \in Seq(Cells) /\ u1 \in Seq(Cells)
          /\ Stream = a \o w1 /\ Flow = a \o u1 /\ Len(a) = j
      <3>1. x = Contents(in) /\ a = SubSeq(x, 1, j) /\ x1 = After(x, j)
        BY <1>1, <1>10, <2>1
      <3>2. /\ w1 = x1 \o (pipe \o Contents(out))
            /\ u1 = IF open THEN w1 ELSE x1 \o pipe
        BY <1>1, <1>6
      <3>3. j \in 0..Len(Contents(in))
        BY <3>1
      <3> QED
        BY <3>1, <3>2, <3>3, FrontTaken
    <2>3. \A i \in 1..j : a[i] = x[i]
      BY <2>1, <2>2, Split
    <2>4. Framed(u1) /\ (open => Closed(u1))
      BY <1>8, <2>2, EndsAreGood
    <2>5. Rising(w1) /\ Between(w1, Latest, written) /\ (cuts = 0 => Followed(w1))
      BY <1>8, <1>9, <2>2, EndsAreGood
    <2> QED
      BY <2>1, <2>2, <2>3, <2>4, <2>5
  <1>11. ASSUME x1 = After(x, k), reader' = [reader EXCEPT !.runs = FALSE]
         PROVE  Clean'
    <2>1. reader'.state = "header"
      BY <1>2, <1>11 DEF Typed, Readers
    <2>2. Done' = Latest
      BY <1>4, <2>1 DEF Done
    <2>3. PICK a : a = SubSeq(x, 1, k)
      OBVIOUS
    <2>4. /\ a \in Seq(Cells) /\ w1 \in Seq(Cells) /\ Stream = a \o w1 /\ Len(a) = k
          /\ \A i \in 1..k : a[i] = x[i]
          /\ Framed(u1) /\ (open => Closed(u1)) /\ Rising(w1) /\ Between(w1, Latest, written)
          /\ cuts = 0 => Followed(w1)
      BY <1>10, <1>11, <2>3
    <2>5. cuts = 0 => Complete(w1, Latest, written)
      <3>1. \A i \in 1..Len(a) : a[i] \in Magics => a[i].of <= Latest
        BY <1>5, <2>4
      <3>2. Latest <= Latest
        BY <1>8
      <3> QED
        BY <1>8, <1>9, <2>4, <3>1, <3>2, CompleteBack
    <2>6. Whole'
      BY <1>1, <1>3, <1>7, <1>8, <2>4 DEF Whole
    <2>7. Ordered'
      BY <1>3, <1>4, <1>7, <1>8, <2>2, <2>4 DEF Ordered
    <2>8. Midway'
      BY <2>1 DEF Midway
    <2>9. Sound'
      BY <2>1 DEF Sound
    <2>10. Unbroken'
      BY <1>3, <1>7, <1>9, <2>1, <2>2, <2>4, <2>5 DEF Unbroken
    <2> QED
      BY <2>6, <2>7, <2>8, <2>9, <2>10 DEF Clean
  <1>12. ASSUME k + 3 \in 0..Len(x), x[k + 1] \in Magics, x1 = After(x, k + 3),
                \/ ~IsVersion(x[k + 2]) /\ reader' = reader
                \/ IsVersion(x[k + 2]) /\ IsRest(x[k + 3]) /\ Heading(x[k + 3])
                \/ IsVersion(x[k + 2]) /\ ~IsRest(x[k + 3])
         PROVE  Clean'
    <2>1. PICK a, h, g : a = SubSeq(x, 1, k + 3) /\ h = x[k + 3].of /\ g = x[k + 1].of
      OBVIOUS
    <2>2. /\ x \in Seq(Cells) /\ a \in Seq(Cells) /\ w1 \in Seq(Cells) /\ u1 \in Seq(Cells)
          /\ Stream = a \o w1 /\ Flow = a \o u1 /\ Len(a) = k + 3
          /\ \A i \in 1..(k + 3) : a[i] = x[i]
          /\ Framed(u1) /\ (open => Closed(u1)) /\ Rising(w1) /\ Between(w1, Latest, written)
          /\ cuts = 0 => Followed(w1)
      BY <1>10, <1>12, <2>1
    <2>3. k \in Nat /\ k + 1 \in 1..(k + 3) /\ k + 2 \in 1..(k + 3) /\ k + 3 \in 1..(k + 3)
          /\ k + 1 + 1 = k + 2 /\ k + 1 + 2 = k + 3
          /\ k + 1 \in 1..Len(x) /\ k + 2 \in 1..Len(x) /\ k + 3 \in 1..Len(x)
      <3>1. Len(x) \in Nat
        BY <2>2, LenProperties
      <3> QED
        BY <1>5, <1>12, <3>1
    <2>4. /\ \A i \in 1..(k + 3) : i \in DOMAIN Stream /\ Stream[i] = x[i] /\ i \in DOMAIN Flow /\ Flow[i] = x[i]
          /\ \A i \in DOMAIN w1 : k + 3 + i \in DOMAIN Stream /\ Stream[k + 3 + i] = w1[i] /\ i \in Nat /\ i > 0
          /\ \A i \in DOMAIN u1 : k + 3 + i \in DOMAIN Flow /\ Flow[k + 3 + i] = u1[i] /\ i \in Nat /\ i > 0
          /\ Len(Flow) = k + 3 + Len(u1) /\ Len(u1) \in Nat
      <3>0. a \in Seq(Cells) /\ w1 \in Seq(Cells) /\ u1 \in Seq(Cells)
            /\ Stream = a \o w1 /\ Flow = a \o u1 /\ Len(a) = k + 3
        BY <2>2
      <3>1. /\ \A i \in 1..(k + 3) : i \in DOMAIN Stream /\ Stream[i] = a[i]
            /\ \A i \in 1..Len(w1) : k + 3 + i \in DOMAIN Stream /\ Stream[k + 3 + i] = w1[i]
            /\ DOMAIN w1 = 1..Len(w1) /\ Len(w1) \in Nat
        BY <3>0, Ends
      <3>2. /\ \A i \in 1..(k + 3) : i \in DOMAIN Flow /\ Flow[i] = a[i]
            /\ \A i \in 1..Len(u1) : k + 3 + i \in DOMAIN Flow /\ Flow[k + 3 + i] = u1[i]
            /\ DOMAIN u1 = 1..Len(u1) /\ Len(u1) \in Nat /\ Len(Flow) = k + 3 + Len(u1)
        <4>1. PICK q : q = Flow
          OBVIOUS
        <4>2. q = a \o u1 /\ a \in Seq(Cells) /\ u1 \in Seq(Cells)
          BY <3>0, <4>1
        <4>3. /\ \A i \in 1..Len(a) : i \in DOMAIN q /\ q[i] = a[i]
              /\ \A i \in 1..Len(u1) : Len(a) + i \in DOMAIN q /\ q[Len(a) + i] = u1[i]
              /\ DOMAIN u1 = 1..Len(u1) /\ Len(u1) \in Nat /\ Len(q) = Len(a) + Len(u1)
          BY <4>2, Ends
        <4> QED
          BY <3>0, <4>1, <4>3
      <3>3. \A i \in 1..(k + 3) : a[i] = x[i]
        BY <2>2
      <3>4. \A i : (i \in 1..Len(w1) \/ i \in 1..Len(u1)) => i \in Nat /\ i > 0
        BY <3>1, <3>2
      <3> QED
        BY <3>1, <3>2, <3>3, <3>4
    <2>4a. DOMAIN Stream = 1..(k + 3 + Len(w1)) /\ DOMAIN w1 = 1..Len(w1) /\ Len(w1) \in Nat
      <3>1. PICK q : q = Stream
        OBVIOUS
      <3>2. q = a \o w1 /\ a \in Seq(Cells) /\ w1 \in Seq(Cells) /\ Len(a) = k + 3
        BY <2>2, <3>1
      <3>3. q \in Seq(Cells) /\ Len(q) = Len(a) + Len(w1)
        BY <3>2, ConcatProperties
      <3>4. DOMAIN q = 1..Len(q) /\ DOMAIN w1 = 1..Len(w1) /\ Len(w1) \in Nat
        BY <3>2, <3>3, LenProperties
      <3> QED
        BY <3>1, <3>2, <3>3, <3>4
    <2>5. /\ x[k + 1] \in Cells /\ x[k + 2] \in Cells /\ x[k + 3] \in Cells
          /\ h \in Nat /\ g \in Nat /\ x[k + 3].n \in Nat
      <3>1. x[k + 1] \in Cells /\ x[k + 2] \in Cells /\ x[k + 3] \in Cells
        BY <2>2, <2>3, ElementOfSeq
      <3> QED
        BY <2>1, <3>1, CellIs
    <2>6. Latest < g /\ g <= written
      BY <1>8, <1>12, <2>1, <2>3, <2>4 DEF Between
    <2>7. cuts = 0 => IsVersion(x[k + 2])
      <3>1. Stream[k + 1] \in Magics /\ k + 1 \in DOMAIN Stream /\ Stream[k + 2] = x[k + 2]
        BY <1>12, <2>3, <2>4
      <3> QED
        BY <1>9, <2>3, <3>1 DEF Followed, Opens
    <2>7a. IsVersion(x[k + 2]) => Opens(Flow, k + 1) /\ k + 1 \in DOMAIN Flow
      <3>1. /\ k + 1 \in DOMAIN Flow /\ Flow[k + 1] = x[k + 1]
            /\ k + 1 + 1 \in DOMAIN Flow /\ Flow[k + 1 + 1] = x[k + 2]
        BY <2>3, <2>4
      <3> QED
        BY <1>12, <3>1 DEF Opens
    <2>7b. k + 1 + 2 \in DOMAIN Flow /\ Flow[k + 1 + 2] = x[k + 3] /\ Flow[k + 1] = x[k + 1]
      BY <2>3, <2>4
    <2>8. CASE ~IsVersion(x[k + 2])
      <3>1. reader' = reader
        BY <1>12, <2>8
      <3>2. Done' = Latest
        BY <1>2, <1>4, <3>1 DEF Done
      <3>3. Whole'
        BY <1>1, <1>3, <1>7, <1>8, <2>2 DEF Whole
      <3>4. Ordered'
        BY <1>3, <1>4, <1>7, <1>8, <2>2, <3>2 DEF Ordered
      <3>5. Midway' /\ Sound'
        BY <1>2, <3>1 DEF Midway, Sound
      <3>6. Unbroken'
        BY <1>3, <2>7, <2>8 DEF Unbroken
      <3> QED
        BY <3>3, <3>4, <3>5, <3>6 DEF Clean
    <2>9. CASE IsVersion(x[k + 2])
      <3>0. IsRest(x[k + 3])
        BY <1>8, <2>7a, <2>7b, <2>9 DEF Framed
      <3>1. reader' = [reader EXCEPT !.state = "message", !.header = x[k + 3]]
        BY <1>12, <2>9, <3>0 DEF Heading
      <3>2. reader'.state = "message" /\ reader'.header = x[k + 3]
        BY <3>1 DEF Typed, Readers
      <3>3. Done' = h
        BY <2>1, <3>2 DEF Done
      <3>4. Opens(Flow, k + 1) /\ k + 1 \in DOMAIN Flow
        BY <2>7a, <2>9
      <3>5. /\ h = g
            /\ \A i \in 1..x[k + 3].n : k + 3 + i \in DOMAIN Flow => Flow[k + 3 + i] = Piece(g, i)
        <4>1. /\ Flow[k + 1 + 2].of = Flow[k + 1].of
              /\ \A i \in 1..Flow[k + 1 + 2].n : k + 1 + 2 + i \in DOMAIN Flow =>
                     Flow[k + 1 + 2 + i] = Piece(Flow[k + 1].of, i)
          BY <1>8, <2>7b, <3>4 DEF Framed
        <4> QED
          BY <2>1, <2>3, <2>7b, <4>1
      <3>6. Begun(u1, h, x[k + 3].n)
        <4> SUFFICES ASSUME NEW i \in 1..x[k + 3].n, i \in DOMAIN u1
                     PROVE  u1[i] = Piece(h, i)
          BY DEF Begun
        <4> QED
          BY <2>4, <3>5
      <3>7. open => x[k + 3].n <= Len(u1)
        <4> SUFFICES ASSUME Closed(Flow)
                     PROVE  x[k + 3].n <= Len(u1)
          BY <1>8
        <4>1. k + 1 + 2 + Flow[k + 1 + 2].n <= Len(Flow)
          BY <3>4 DEF Closed
        <4>2. Flow[k + 1 + 2] = x[k + 3]
          BY <2>7b
        <4>3. k + 3 + x[k + 3].n <= k + 3 + Len(u1)
          BY <2>3, <2>4, <4>1, <4>2
        <4> QED
          BY <2>3, <2>4, <2>5, <4>3
      <3>8. Between(w1, h, written)
        <4> SUFFICES ASSUME NEW i \in DOMAIN w1, w1[i] \in Magics
                     PROVE  h < w1[i].of /\ w1[i].of <= written
          BY DEF Between
        <4>1. w1[i].of <= written
          BY <2>2 DEF Between
        <4>2. k + 3 + i \in DOMAIN Stream /\ Stream[k + 3 + i] = w1[i] /\ k + 1 < k + 3 + i
          BY <2>3, <2>4
        <4>3. k + 1 \in DOMAIN Stream /\ Stream[k + 1] = x[k + 1]
          BY <2>3, <2>4
        <4>4. g < w1[i].of
          BY <1>8, <1>12, <2>1, <4>2, <4>3 DEF Rising
        <4> QED
          BY <3>5, <4>1, <4>4
      <3>9. \A i \in 1..Len(a) : a[i] \in Magics => a[i].of <= h
        <4> SUFFICES ASSUME NEW i \in 1..(k + 3), x[i] \in Magics
                     PROVE  x[i].of <= h
          BY <2>2
        <4>1. i \notin 1..k
          BY <1>5
        <4>2. i # k + 2 /\ i # k + 3
          BY <2>5, <2>9, <3>0, CellIs
        <4>3. i = k + 1
          BY <2>3, <4>1, <4>2
        <4> QED
          BY <2>1, <2>5, <3>5, <4>3
      <3>10. cuts = 0 => Complete(w1, h, written)
        <4>1. Latest <= h /\ h \in Int
          BY <1>8, <2>5, <2>6, <3>5
        <4> QED
          BY <1>8, <1>9, <2>2, <3>9, <4>1, CompleteBack
      <3>11. cuts = 0 => h = Latest + 1
        <4> SUFFICES ASSUME cuts = 0, h # Latest + 1
                     PROVE  FALSE
          OBVIOUS
        <4>1. h > Latest + 1 /\ Latest + 1 <= written
          BY <1>8, <2>5, <2>6, <3>5
        <4>2. Latest + 1 \in (Latest + 1)..written
          BY <1>8, <4>1
        <4>3. PICK i \in DOMAIN Stream : Stream[i] = Magic(Latest + 1)
          BY <1>9, <4>2 DEF Complete
        <4>4. Stream[i] \in Magics /\ Stream[i].of = Latest + 1
          <5>1. Latest + 1 \in 1..MaxMessages
            BY <1>8, <4>1, BoundsAssumption
          <5> QED
            BY <4>3, <5>1 DEF Magics, Magic
        <4>5. i \in 1..(k + 3) \/ \E j \in DOMAIN w1 : i = k + 3 + j
          <5>1. /\ DOMAIN Stream = 1..(k + 3 + Len(w1))
                /\ DOMAIN w1 = 1..Len(w1) /\ Len(w1) \in Nat
            BY <2>4a
          <5>2. i \in 1..(k + 3) \/ i - (k + 3) \in 1..Len(w1)
            BY <2>3, <5>1
          <5>3. k + 3 + (i - (k + 3)) = i
            BY <2>3, <5>1
          <5> QED
            BY <5>1, <5>2, <5>3
        <4>6. CASE i \in 1..(k + 3)
          <5>1. x[i] \in Magics /\ x[i].of = Latest + 1
            BY <2>4, <4>4, <4>6
          <5>2. i \notin 1..k
            BY <1>5, <5>1
          <5>3. i # k + 2 /\ i # k + 3
            BY <2>5, <2>9, <3>0, <5>1, CellIs
          <5>4. i = k + 1
            BY <2>3, <4>6, <5>2, <5>3
          <5> QED
            BY <2>1, <3>5, <4>1, <5>1, <5>4
        <4>7. CASE \E j \in DOMAIN w1 : i = k + 3 + j
          <5>1. PICK j \in DOMAIN w1 : i = k + 3 + j
            BY <4>7
          <5>2. w1[j] = Stream[i]
            BY <2>4, <5>1
          <5>3. h < w1[j].of
            BY <3>8, <4>4, <5>2 DEF Between
          <5> QED
            BY <1>8, <2>5, <4>1, <4>4, <5>2, <5>3
        <4> QED
          BY <4>5, <4>6, <4>7
      <3>12. Whole'
        BY <1>1, <1>3, <1>7, <1>8, <2>2 DEF Whole
      <3>13. Ordered'
        BY <1>3, <1>4, <1>7, <1>8, <2>2, <3>3, <3>8 DEF Ordered
      <3>14. Midway'
        BY <1>3, <1>4, <1>7, <2>1, <2>6, <3>2, <3>5, <3>6, <3>7 DEF Midway
      <3>15. Sound'
        BY <2>5, <3>0, <3>2 DEF Sound
      <3>16. Unbroken'
        BY <1>3, <1>4, <1>7, <1>9, <2>1, <2>2, <3>2, <3>3, <3>10, <3>11 DEF Unbroken
      <3> QED
        BY <3>12, <3>13, <3>14, <3>15, <3>16 DEF Clean
    <2> QED
      BY <2>8, <2>9
  <1> QED
    BY <1>5, <1>11, <1>12

\* A message comes that was written, behind the one before it.
LEMMA CleanBody ==
    ASSUME Typed, Clean, ParseMessage
    PROVE  /\ Clean'
           /\ \/ delivered' = delivered
              \/ \E m \in (Latest + 1)..written :
                    /\ cuts = 0 => m = Latest + 1
                    /\ Came' = Append(Came, m)
  <1>1. PICK x, y, x1, n, h, a : /\ x = Contents(in) /\ y = Contents(out) /\ x1 = Contents(in')
                                 /\ n = reader.header.n /\ h = reader.header.of
                                 /\ a = SubSeq(x, 1, n)
    OBVIOUS
  <1>2. PICK d : d = [header |-> reader.header, body |-> a]
    OBVIOUS
  <1>3. reader.state = "message" /\ reader.header \in Cells
    BY DEF ParseMessage, Clean, Sound
  <1>4. /\ open' = open /\ out' = out /\ pipe' = pipe /\ written' = written /\ cuts' = cuts
    BY DEF ParseMessage
  <1>5. /\ n \in Nat
        /\ \/ /\ in' = in /\ delivered' = delivered
              /\ reader' = [reader EXCEPT !.runs = FALSE]
           \/ /\ n \in 0..Len(x)
              /\ x1 = After(x, n)
              /\ delivered' = Append(delivered, d)
              /\ d \in Arrivals
              /\ reader' = [reader EXCEPT !.state = "header", !.runs = TRUE]
    BY <1>1, <1>2, ReadsBody
  <1>6. h \in Nat /\ h \in 1..MaxMessages
    BY <1>1, <1>3, CellIs
  <1>7. Done = h
    BY <1>1, <1>3 DEF Done
  <1>8. CASE in' = in /\ delivered' = delivered /\ reader' = [reader EXCEPT !.runs = FALSE]
    <2>1. Stream' = Stream /\ Flow' = Flow
      BY <1>4, <1>8 DEF Stream, Flow
    <2>2. reader'.state = reader.state /\ reader'.header = reader.header
      BY <1>8 DEF Typed, Readers
    <2>3. Latest' = Latest /\ Done' = Done
      BY <1>8, <2>2 DEF Latest, Done, Came
    <2>4. Whole' /\ Ordered' /\ Midway' /\ Unbroken'
      BY <1>4, <1>8, <2>1, <2>2, <2>3 DEF Clean, Whole, Ordered, Midway, Unbroken
    <2>5. Sound'
      BY <2>2 DEF Clean, Sound
    <2> QED
      BY <1>8, <2>4, <2>5 DEF Clean
  <1>9. CASE /\ n \in 0..Len(x)
             /\ x1 = After(x, n)
             /\ delivered' = Append(delivered, d)
             /\ d \in Arrivals
             /\ reader' = [reader EXCEPT !.state = "header", !.runs = TRUE]
    <2>1. PICK w1, u1 : /\ w1 = x1 \o (pipe \o y)
                        /\ u1 = IF open THEN w1 ELSE x1 \o pipe
      OBVIOUS
    <2>2. Stream' = w1 /\ Flow' = u1
      BY <1>1, <1>4, <2>1 DEF Stream, Flow
    <2>3. /\ x \in Seq(Cells) /\ a \in Seq(Cells)
          /\ w1 \in Seq(Cells) /\ u1 \in Seq(Cells)
          /\ Stream = a \o w1 /\ Flow = a \o u1 /\ Len(a) = n
      <3>1. x = Contents(in) /\ a = SubSeq(x, 1, n) /\ x1 = After(x, n) /\ n \in 0..Len(x)
        BY <1>1, <1>9
      <3>2. /\ w1 = x1 \o (pipe \o Contents(out))
            /\ u1 = IF open THEN w1 ELSE x1 \o pipe
        BY <1>1, <2>1
      <3> QED
        BY <3>1, <3>2, FrontTaken
    <2>4. /\ Framed(Flow) /\ (open => Closed(Flow)) /\ Framed(y) /\ Closed(y)
          /\ Rising(Stream) /\ Between(Stream, h, written)
          /\ Latest \in 0..written /\ Latest \in Int /\ written \in Int /\ written <= MaxMessages /\ 0 <= Latest
      <3>1. /\ Framed(Flow) /\ (open => Closed(Flow)) /\ Framed(y) /\ Closed(y)
        BY <1>1 DEF Clean, Whole
      <3>2. Rising(Stream) /\ Between(Stream, h, written) /\ Latest \in 0..written
        BY <1>7 DEF Clean, Ordered
      <3> QED
        BY <3>1, <3>2, Numbers
    <2>5. Latest < h /\ h <= written /\ Begun(Flow, h, n)
      BY <1>1, <1>3 DEF Clean, Midway
    <2>6. /\ Framed(u1) /\ (open => Closed(u1))
          /\ Rising(w1) /\ Between(w1, h, written)
      BY <2>3, <2>4, EndsAreGood
    <2>7. \A i \in 1..n : a[i] = Piece(h, i)
      <3>1. Begun(a, h, n)
        BY <2>3, <2>5, EndsAreGood
      <3>2. DOMAIN a = 1..n
        BY <2>3, LenProperties
      <3> QED
        BY <3>1, <3>2 DEF Begun
    <2>8. a = Body(h, n)
      <3>1. a \in [1..n -> Cells]
        BY <2>3, LenProperties
      <3>2. a = [i \in 1..n |-> a[i]]
        BY <3>1
      <3> QED
        BY <2>7, <3>2 DEF Body, Piece
    <2>9. delivered \in Seq(Arrivals)
      BY DEF Typed
    <2>10. PICK l : l = Len(delivered)
      OBVIOUS
    <2>11. /\ l \in Nat /\ DOMAIN delivered = 1..l /\ DOMAIN delivered' = 1..(l + 1)
           /\ Len(delivered') = l + 1 /\ delivered' # <<>>
           /\ \A i \in 1..l : delivered'[i] = delivered[i]
           /\ delivered'[l + 1] = d
      <3>1. /\ delivered' \in Seq(Arrivals) /\ delivered' # <<>> /\ Len(delivered') = l + 1
            /\ \A i \in 1..l : delivered'[i] = delivered[i]
            /\ delivered'[l + 1] = d
        BY <1>9, <2>9, <2>10, AppendProperties
      <3> QED
        BY <2>9, <2>10, <3>1, LenProperties
    <2>12. /\ Came' = [i \in 1..(l + 1) |-> Came'[i]]
           /\ Came'[l + 1] = h
           /\ \A i \in 1..l : Came'[i] = Came[i]
      <3>1. Came' = [i \in DOMAIN delivered' |->
                        IF delivered'[i].body = Body(delivered'[i].header.of, delivered'[i].header.n)
                        THEN delivered'[i].header.of ELSE Damaged]
        BY DEF Came
      <3>2. Came = [i \in DOMAIN delivered |->
                        IF delivered[i].body = Body(delivered[i].header.of, delivered[i].header.n)
                        THEN delivered[i].header.of ELSE Damaged]
        BY DEF Came
      <3>3. d.body = Body(d.header.of, d.header.n) /\ d.header.of = h
        BY <1>1, <1>2, <2>8
      <3>4. l + 1 \in 1..(l + 1) /\ \A i \in 1..l : i \in 1..(l + 1)
        BY <2>11
      <3> QED
        BY <2>11, <3>1, <3>2, <3>3, <3>4
    <2>13. Came' = Append(Came, h)
      <3>1. Came \in Seq(Nat) /\ Len(Came) = l
        BY <2>9, <2>10, CameIs
      <3>2. PICK c : c = Append(Came, h)
        OBVIOUS
      <3>3. /\ c \in Seq(Nat) /\ Len(c) = l + 1
            /\ \A i \in 1..l : c[i] = Came[i]
            /\ c[l + 1] = h
        BY <1>6, <3>1, <3>2, AppendProperties
      <3>4. c \in [1..(l + 1) -> Nat]
        BY <3>3, LenProperties
      <3>5. \A i \in 1..(l + 1) : i \in 1..l \/ i = l + 1
        BY <2>11
      <3>6. \A i \in 1..(l + 1) : c[i] = Came'[i]
        BY <2>12, <3>3, <3>5
      <3>7. c = [i \in 1..(l + 1) |-> c[i]]
        BY <3>4
      <3> QED
        BY <2>12, <3>2, <3>6, <3>7
    <2>14. Latest' = h
      BY <2>11, <2>12 DEF Latest
    <2>15. reader'.state = "header" /\ reader'.runs = TRUE
      BY <1>9 DEF Typed, Readers
    <2>16. Done' = h
      BY <2>14, <2>15 DEF Done
    <2>17. h \in 0..written /\ h \in (Latest + 1)..written
      BY <1>6, <2>4, <2>5
    <2>18. cuts = 0 => open /\ h = Latest + 1 /\ Followed(w1) /\ Complete(w1, h, written)
      <3> SUFFICES ASSUME cuts = 0
                   PROVE  open /\ h = Latest + 1 /\ Followed(w1) /\ Complete(w1, h, written)
        OBVIOUS
      <3>1. open /\ h = Latest + 1 /\ Followed(Stream) /\ Complete(Stream, h, written)
        BY <1>1, <1>3, <1>7 DEF Clean, Unbroken
      <3>2. Followed(w1)
        BY <2>3, <3>1, EndsAreGood
      <3>3. \A i \in 1..Len(a) : a[i] \in Magics => a[i].of <= h
        <4>1. \A i \in 1..n : Piece(h, i).of = h /\ h <= h
          BY <1>6 DEF Piece
        <4> QED
          BY <2>3, <2>7, <4>1
      <3>4. Complete(w1, h, written)
        <4>1. h \in Int /\ h <= h /\ 0 <= h
          BY <1>6
        <4> QED
          BY <2>3, <2>4, <3>1, <3>3, <4>1, CompleteBack
      <3> QED
        BY <3>1, <3>2, <3>4
    <2>19. Whole'
      BY <1>1, <1>4, <2>2, <2>4, <2>6 DEF Whole
    <2>20. Ordered'
      BY <1>4, <2>2, <2>6, <2>14, <2>16, <2>17 DEF Ordered
    <2>21. Midway'
      BY <2>15 DEF Midway
    <2>22. Sound'
      BY <2>15 DEF Sound
    <2>23. Unbroken'
      BY <1>4, <2>2, <2>15, <2>16, <2>18 DEF Unbroken
    <2> QED
      BY <2>13, <2>17, <2>18, <2>19, <2>20, <2>21, <2>22, <2>23 DEF Clean
  <1> QED
    BY <1>5, <1>8, <1>9

\* No header that was written is refused for its size.
LEMMA NoError ==
    ASSUME Typed, Clean
    PROVE  ~ReadError
  <1> SUFFICES ASSUME ReadError PROVE FALSE
    OBVIOUS
  <1>1. /\ reader.state # "error"
        /\ reader.state = "message" => reader.header \in Cells /\ IsRest(reader.header)
    BY DEF Clean, Sound
  <1>2. reader.header \in Cells /\ IsRest(reader.header) /\ reader.header.n = Size + 1
    BY <1>1 DEF ReadError, Unsupported
  <1>3. reader.header.n \in Sizes
    BY <1>2, CellIs
  <1> QED
    BY <1>2, <1>3, SizesAssumption, SizeAssumption

\* What is inductive: the types, and order on the way as long as nothing spoilt it.
IInv == Typed /\ (spoilt = {} => Clean)

\* Nothing is on the way at the start.
LEMMA InitInv == Init => IInv
  <1> SUFFICES ASSUME Init PROVE IInv
    OBVIOUS
  <1>1. Contents(Empty) = <<>>
    BY HoldsNothing
  <1>2. <<>> \o <<>> = <<>> /\ <<>> \in Seq(Cells)
    <2>1. <<>> \in Seq(Cells)
      BY EmptySeq
    <2> QED
      BY <2>1, ConcatEmptySeq
  <1>3. Stream = <<>> /\ Flow = <<>>
    BY <1>1, <1>2 DEF Init, Stream, Flow
  <1>4. reader.state = "header" /\ Latest = 0 /\ Done = 0 /\ written = 0
    BY DEF Init, FreshReader, Latest, Done
  <1>5. DOMAIN <<>> = {}
    OBVIOUS
  <1>6. Whole
    BY <1>1, <1>3, NothingIsGood DEF Init, Whole
  <1>7. Ordered
    BY <1>3, <1>4, <1>5 DEF Ordered, Rising, Between
  <1>8. Midway
    BY <1>4 DEF Midway
  <1>9. Sound
    BY <1>4 DEF Sound
  <1>10. Unbroken
    BY <1>3, <1>4, <1>5 DEF Init, Unbroken, Followed, Complete
  <1> QED
    BY <1>6, <1>7, <1>8, <1>9, <1>10, TypedInit DEF IInv, Clean

\* What is spoilt stays so.
LEMMA SpoiltStays ==
    ASSUME [Next]_vars
    PROVE  spoilt \subseteq spoilt'
  BY DEF Next, ReadingEnd, vars, Spoils, WriteMessage, WriteHalf, SendSome, SendThrows, Receive,
         ParseHeader, ParseMessage, ReadError, Cut, Reconnect

\* One step keeps order, and is a step of a channel.
LEMMA CleanStep ==
    ASSUME Typed, Clean, [Next]_vars, spoilt' = {}
    PROVE  Clean'
  <1>1. ASSUME NEW size \in Sizes, WriteMessage(size)
        PROVE  Clean'
    BY <1>1, CleanWrite
  <1>2. ASSUME NEW size \in Sizes, WriteHalf(size)
        PROVE  Clean'
    <2>1. "half_written" \in spoilt'
      BY <1>2 DEF WriteHalf, Spoils
    <2> QED
      BY <2>1
  <1>3. CASE SendThrows
    <2>1. "sent_twice" \in spoilt'
      BY <1>3 DEF SendThrows, Spoils
    <2> QED
      BY <2>1
  <1>4. CASE UNCHANGED vars
    <2>1. Latest' = Latest /\ Done' = Done /\ Stream' = Stream /\ Flow' = Flow
      BY <1>4 DEF vars, Latest, Done, Came, Stream, Flow
    <2> QED
      BY <1>4, <2>1 DEF vars, Clean, Whole, Ordered, Midway, Sound, Unbroken
  <1> QED
    BY <1>1, <1>2, <1>3, <1>4, CleanSend, CleanReceive, CleanHeader, CleanBody, NoError, CleanCut, CleanReconnect
    DEF Next, ReadingEnd

LEMMA Step ==
    ASSUME IInv, [Next]_vars
    PROVE  IInv'
  <1>1. Typed'
    BY TypedStep DEF IInv
  <1>2. ASSUME spoilt' = {}
        PROVE  Clean'
    <2>1. spoilt = {}
      BY <1>2, SpoiltStays
    <2> QED
      BY <1>2, <2>1, CleanStep DEF IInv
  <1> QED
    BY <1>1, <1>2 DEF IInv

LEMMA ChannelInit == Init => C!Init
  <1> SUFFICES ASSUME Init PROVE C!Init
    OBVIOUS
  <1>1. written = 0 /\ delivered = <<>> /\ spoilt = {} /\ cuts = 0
    BY DEF Init
  <1>2. Came = <<>>
    <2>1. delivered \in Seq(Arrivals) /\ Len(delivered) = 0
      BY <1>1, EmptySeq
    <2>2. Came \in Seq(Nat) /\ Len(Came) = 0
      BY <2>1, CameIs
    <2> QED
      BY <2>2, EmptySeq
  <1>3. (cuts > 0) = FALSE
    BY <1>1
  <1>4. (spoilt # {}) = FALSE
    BY <1>1
  <1> QED
    BY <1>1, <1>2, <1>3, <1>4 DEF C!Init

\* Every step is one of a channel, or none that shows.
LEMMA ChannelStep ==
    ASSUME IInv, [Next]_vars
    PROVE  [C!Next]_(C!vars)
  <1>1. CASE spoilt' # {}
    <2>1. (spoilt' # {}) = TRUE
      BY <1>1
    <2>2. C!Spoil
      BY <2>1 DEF C!Spoil
    <2> QED
      BY <2>2 DEF C!Next
  <1>2. CASE spoilt' = {}
    <2>1. Typed /\ Clean /\ spoilt = {}
      BY <1>2, SpoiltStays DEF IInv
    <2>2. spoilt' = spoilt /\ (spoilt' # {}) = (spoilt # {})
      BY <1>2, <2>1
    <2>3. cuts \in Nat
      BY <2>1, Numbers
    <2>4. ASSUME NEW size \in Sizes, WriteMessage(size)
          PROVE  C!Send
      <3>1. written' = written + 1 /\ delivered' = delivered /\ cuts' = cuts
        BY <2>4 DEF WriteMessage
      <3>2. Came' = Came
        BY <3>1 DEF Came
      <3> QED
        BY <2>2, <3>1, <3>2 DEF C!Send
    <2>5. ASSUME NEW size \in Sizes, WriteHalf(size)
          PROVE  FALSE
      <3>1. "half_written" \in spoilt'
        BY <2>5 DEF WriteHalf, Spoils
      <3> QED
        BY <1>2, <3>1
    <2>6. ASSUME SendThrows
          PROVE  FALSE
      <3>1. "sent_twice" \in spoilt'
        BY <2>6 DEF SendThrows, Spoils
      <3> QED
        BY <1>2, <3>1
    <2>7. ASSUME written' = written, delivered' = delivered, cuts' = cuts
          PROVE  UNCHANGED C!vars
      <3>1. Came' = Came
        BY <2>7 DEF Came
      <3> QED
        BY <2>2, <2>7, <3>1 DEF C!vars
    <2>8. SendSome \/ Receive \/ ParseHeader \/ Reconnect \/ UNCHANGED vars => UNCHANGED C!vars
      <3>1. SendSome \/ Receive \/ ParseHeader \/ Reconnect \/ UNCHANGED vars
            => written' = written /\ delivered' = delivered /\ cuts' = cuts
        BY DEF SendSome, Receive, ParseHeader, Reconnect, vars
      <3> QED
        BY <2>7, <3>1
    <2>9. ASSUME ParseMessage
          PROVE  C!Deliver \/ UNCHANGED C!vars
      <3>1. written' = written /\ cuts' = cuts
        BY <2>9 DEF ParseMessage
      <3>2. CASE delivered' = delivered
        BY <2>7, <3>1, <3>2
      <3>3. CASE \E m \in (Latest + 1)..written :
                    /\ cuts = 0 => m = Latest + 1
                    /\ Came' = Append(Came, m)
        <4>1. Latest = C!Latest
          BY <2>1, CameIs DEF Typed, C!Latest
        <4>2. ~(cuts > 0) => cuts = 0
          BY <2>3
        <4> QED
          BY <2>2, <3>1, <3>3, <4>1, <4>2 DEF C!Deliver
      <3> QED
        BY <2>1, <2>9, <3>2, <3>3, CleanBody
    <2>10. ASSUME Cut
           PROVE  C!Lose \/ UNCHANGED C!vars
      <3>1. written' = written /\ delivered' = delivered /\ cuts' = cuts + 1
        BY <2>10 DEF Cut
      <3>2. Came' = Came
        BY <3>1 DEF Came
      <3>3. (cuts' > 0) = TRUE
        BY <2>3, <3>1
      <3>4. CASE cuts > 0
        <4>1. (cuts' > 0) = (cuts > 0)
          BY <3>3, <3>4
        <4> QED
          BY <2>2, <3>1, <3>2, <4>1 DEF C!vars
      <3>5. CASE ~(cuts > 0)
        BY <2>2, <3>1, <3>2, <3>3, <3>5 DEF C!Lose
      <3> QED
        BY <3>4, <3>5
    <2> QED
      BY <2>1, <2>4, <2>5, <2>6, <2>8, <2>9, <2>10, NoError DEF Next, ReadingEnd, C!Next
  <1> QED
    BY <1>1, <1>2

\* socket_io and its reader are a channel, for buffers of any size and any number
\* of messages and of connections: as long as nothing spoilt it, what on_message
\* gets was written, with its own body, in order and once, and nothing is skipped
\* on a connection that lasts.
THEOREM ChannelKept == Spec => IsAChannel
  <1>1. Spec => []IInv
    BY InitInv, Step, PTL DEF Spec
  <1> QED
    BY <1>1, ChannelInit, ChannelStep, PTL DEF Spec, IsAChannel, C!Spec

-----------------------------------------------------------------------------
(* The clock.                                                               *)

Stamped == {r \in RequestType : r.local + r.under <= raw}
Answered == {a \in ResponseType : /\ a.local + a.under <= a.remote - skew
                                  /\ a.remote - skew <= raw}

ClockInv ==
    /\ ClockTypeOK
    /\ asked \in Seq(Stamped \cup {Ready})
    /\ answers \in Seq(Answered \cup {Finished})

\* Half stays an integer, and halves what is not negative.
LEMMA HalfBounds ==
    ASSUME NEW x \in Int
    PROVE  /\ Half(x) \in Int
           /\ x >= 0 => 2 * Half(x) <= x /\ x <= 2 * Half(x) + 1
BY DEF Half

\* The end of a sequence is a sequence of the same elements.
LEMMA EndOf ==
    ASSUME NEW S, NEW q \in Seq(S), NEW i \in 1..(Len(q) + 1)
    PROVE  SubSeq(q, i, Len(q)) \in Seq(S)
<1>1. Len(q) \in Nat
  BY LenProperties
<1>2. \A k \in i..Len(q) : q[k] \in S
  BY <1>1, ElementOfSeq
<1> QED BY <1>1, <1>2, SubSeqProperties

\* What is of the narrower sets is of the wider.
LEMMA Widened ==
    /\ Stamped \subseteq RequestType /\ Answered \subseteq ResponseType
    /\ Seq(Stamped \cup {Ready}) \subseteq Seq(RequestType \cup {Ready})
    /\ Seq(Answered \cup {Finished}) \subseteq Seq(ResponseType \cup {Finished})
<1>1. Stamped \subseteq RequestType /\ Answered \subseteq ResponseType
  BY DEF Stamped, Answered
<1>2. Stamped \cup {Ready} \subseteq RequestType \cup {Ready}
  BY <1>1
<1>3. Answered \cup {Finished} \subseteq ResponseType \cup {Finished}
  BY <1>1
<1> QED BY <1>1, <1>2, <1>3, SeqMonotonic

\* The invariant holds of a clock that has not asked yet.
LEMMA ClockInitially == ClockInit => ClockInv
<1> SUFFICES ASSUME ClockInit PROVE ClockInv
  OBVIOUS
<1>1. asked = <<>> /\ answers = <<>>
  BY DEF ClockInit
<1>2. asked \in Seq(Stamped \cup {Ready}) /\ answers \in Seq(Answered \cup {Finished})
  BY <1>1, EmptySeq
<1>3. /\ asked \in Seq(RequestType \cup {Ready})
      /\ answers \in Seq(ResponseType \cup {Finished})
  BY <1>2, Widened
<1>4. 0 \in 0..MaxTime /\ 0 \in 0..MaxCloses
  BY ClockBoundsAssumption
<1>5. raw = 0 /\ skew \in Skews /\ offset = 0 /\ best = Never /\ closes = 0
  BY DEF ClockInit
<1>6. state = "opening" /\ timer \in BOOLEAN /\ ready \in BOOLEAN /\ finishing = 0
  BY DEF ClockInit
<1> QED BY <1>2, <1>3, <1>4, <1>5, <1>6 DEF ClockInv, ClockTypeOK

\* Time passing keeps what was true of the messages true.
LEMMA StampsStay ==
    ASSUME ClockInv, raw' \in Int, raw' >= raw, skew' = skew
    PROVE  asked \in Seq(Stamped' \cup {Ready}) /\ answers \in Seq(Answered' \cup {Finished})
<1>1. Stamped \subseteq Stamped' /\ Answered \subseteq Answered'
  BY SkewsAssumption DEF ClockInv, ClockTypeOK, Stamped, Answered, RequestType, ResponseType
<1>2. /\ Stamped \cup {Ready} \subseteq Stamped' \cup {Ready}
      /\ Answered \cup {Finished} \subseteq Answered' \cup {Finished}
  BY <1>1
<1> QED BY <1>2, SeqMonotonic DEF ClockInv

\* The server answers after the request was sent.
LEMMA Answering ==
    ASSUME ClockInv, NEW r \in Stamped
    PROVE  Response(r) \in Answered
BY SkewsAssumption
   DEF ClockInv, ClockTypeOK, Stamped, Answered, RequestType, ResponseType, Response, ServerNow

\* A request is stamped with the time of now.
LEMMA Requesting ==
    ASSUME ClockInv
    PROVE  Request \in Stamped
BY DEF ClockInv, ClockTypeOK, Stamped, RequestType, Request, now

\* A step that leaves the clocks alone keeps the invariant if it keeps the type of
\* each of the rest.
LEMMA MessagesMove ==
    ASSUME ClockInv, UNCHANGED <<raw, skew>>, offset' \in Int, best' \in Int \cup {Never},
           state' \in {"opening", "in_handshake_time_sync", "in_handshake", "in_use"},
           timer' \in BOOLEAN, ready' \in BOOLEAN, finishing' \in Nat,
           asked' \in Seq(Stamped \cup {Ready}), answers' \in Seq(Answered \cup {Finished}),
           closes' \in 0..MaxCloses
    PROVE  ClockInv'
<1>1. Stamped' = Stamped /\ Answered' = Answered
  BY DEF Stamped, Answered
<1>2. /\ asked' \in Seq(RequestType \cup {Ready})
      /\ answers' \in Seq(ResponseType \cup {Finished})
  BY Widened
<1>3. raw' \in 0..MaxTime /\ skew' \in Skews
  BY DEF ClockInv, ClockTypeOK
<1> QED BY <1>1, <1>2, <1>3 DEF ClockInv, ClockTypeOK

\* Every step of the clock and of the messages preserves the invariant.
LEMMA ClockPreserved == ClockInv /\ [ClockNext]_clock_vars => ClockInv'
<1> SUFFICES ASSUME ClockInv, [ClockNext]_clock_vars PROVE ClockInv'
  OBVIOUS
<1>0. /\ raw \in Int /\ skew \in Int /\ offset \in Int /\ best \in Int \cup {Never}
      /\ state \in {"opening", "in_handshake_time_sync", "in_handshake", "in_use"}
      /\ timer \in BOOLEAN /\ ready \in BOOLEAN /\ finishing \in Nat
      /\ asked \in Seq(Stamped \cup {Ready}) /\ answers \in Seq(Answered \cup {Finished})
      /\ closes \in 0..MaxCloses
  BY SkewsAssumption, ClockBoundsAssumption DEF ClockInv, ClockTypeOK
<1>1. CASE Tick
  <2>1. raw' \in 0..MaxTime /\ raw' \in Int /\ raw' >= raw /\ skew' = skew
    BY <1>0, <1>1, ClockBoundsAssumption DEF Tick, ClockInv, ClockTypeOK
  <2>2. /\ asked' \in Seq(Stamped' \cup {Ready})
        /\ answers' \in Seq(Answered' \cup {Finished})
    BY <1>1, <2>1, StampsStay DEF Tick
  <2> QED BY <1>1, <2>1, <2>2 DEF Tick, ClockInv, ClockTypeOK
<1>2. Append(asked, Request) \in Seq(Stamped \cup {Ready})
  <2>1. Request \in Stamped \cup {Ready}
    BY Requesting
  <2> QED BY <1>0, <2>1, AppendProperties
<1>3. CASE Connect
  BY <1>0, <1>2, <1>3, MessagesMove DEF Connect
<1>4. CASE Ask
  BY <1>0, <1>2, <1>4, MessagesMove DEF Ask
<1>5. CASE Flush
  <2>1. Append(asked, Ready) \in Seq(Stamped \cup {Ready})
    BY <1>0, AppendProperties
  <2> QED BY <1>0, <1>5, <2>1, MessagesMove DEF Flush
<1>6. CASE Serve
  <2>1. Head(asked) \in Stamped \cup {Ready} /\ Tail(asked) \in Seq(Stamped \cup {Ready})
    BY <1>0, <1>6, HeadTailProperties DEF Serve
  <2>2. CASE Head(asked) = Ready
    BY <1>0, <1>6, <2>1, <2>2, MessagesMove DEF Serve
  <2>3. CASE Head(asked) # Ready
    <3>1. Response(Head(asked)) \in Answered \cup {Finished}
      BY <2>1, <2>3, Answering
    <3>2. Append(answers, Response(Head(asked))) \in Seq(Answered \cup {Finished})
      BY <1>0, <3>1, AppendProperties
    <3> QED BY <1>0, <1>6, <2>1, <2>3, <3>2, MessagesMove DEF Serve
  <2> QED BY <2>2, <2>3
<1>7. CASE ServerFlush
  <2>1. Append(answers, Finished) \in Seq(Answered \cup {Finished})
    BY <1>0, AppendProperties
  <2>2. finishing - 1 \in Nat
    BY <1>0, <1>7 DEF ServerFlush
  <2> QED BY <1>0, <1>7, <2>1, <2>2, MessagesMove DEF ServerFlush
<1>8. answers # <<>> =>
         /\ Head(answers) \in Answered \cup {Finished}
         /\ Tail(answers) \in Seq(Answered \cup {Finished})
  BY <1>0, HeadTailProperties
<1>9. CASE ReceiveAnswer
  <2>1. Head(answers) \in ResponseType
    BY <1>8, <1>9, Widened DEF ReceiveAnswer
  <2>2. RoundTrip(Head(answers)) \in Int /\ Half(RoundTrip(Head(answers))) \in Int
    <3>1. RoundTrip(Head(answers)) \in Int
      BY <1>0, <2>1 DEF RoundTrip, now, ResponseType
    <3> QED BY <3>1, HalfBounds
  <2>3. Measured(Head(answers)) \in Int
    BY <1>0, <2>1, <2>2 DEF Measured, now, ResponseType
  <2>4. best' \in Int \cup {Never} /\ offset' \in Int
    BY <1>0, <1>9, <2>2, <2>3 DEF ReceiveAnswer, Sync
  <2>5. /\ state' \in {"opening", "in_handshake_time_sync", "in_handshake", "in_use"}
        /\ timer' \in BOOLEAN /\ ready' \in BOOLEAN
    BY <1>0, <1>9 DEF ReceiveAnswer
  <2> QED BY <1>0, <1>8, <1>9, <2>4, <2>5, MessagesMove DEF ReceiveAnswer
<1>10. CASE FinishHandshake
  BY <1>0, <1>8, <1>10, MessagesMove DEF FinishHandshake
<1>11. CASE Close
  <2>1. asked' \in Seq(Stamped \cup {Ready})
    BY <1>0, <1>11, EndOf DEF Close
  <2>2. answers' \in Seq(Answered \cup {Finished})
    BY <1>11, EmptySeq DEF Close
  <2>3. closes' \in 0..MaxCloses
    BY <1>0, <1>11, ClockBoundsAssumption DEF Close
  <2> QED BY <1>0, <1>11, <2>1, <2>2, <2>3, MessagesMove DEF Close
<1>12. CASE UNCHANGED clock_vars
  BY <1>0, <1>12, MessagesMove DEF clock_vars
<1> QED BY <1>1, <1>3, <1>4, <1>5, <1>6, <1>7, <1>9, <1>10, <1>11, <1>12 DEF ClockNext

\* Every state of the clock is well typed, and its messages are in causal order.
THEOREM ClockInvariance == ClockSpec => []ClockInv
BY ClockInitially, ClockPreserved, PTL DEF ClockSpec

\* The variables keep their types.
THEOREM ClockTypeCorrect == ClockSpec => []ClockTypeOK
<1>1. ClockInv => ClockTypeOK
  BY DEF ClockInv
<1> QED BY <1>1, ClockInvariance, PTL

\* clock::sync measures the distance between the clocks up to the way there or
\* the way back, for any skew and any delay.
THEOREM MeasuresRight == ClockSpec => MeasuredWithinRoundTrip
<1> DEFINE a == Head(answers)
           rtt == RoundTrip(a)
           error == offset' - (ServerNow - now)
           Right == Half(rtt) - rtt <= error /\ error <= Half(rtt)
<1>1. ASSUME ClockInv, [ClockNext]_clock_vars, best' # best, a.under = offset
      PROVE  Right
  <2>1. ReceiveAnswer
    BY <1>1 DEF ClockNext, clock_vars, Tick, Connect, Ask, Flush, Serve, ServerFlush,
                FinishHandshake, Close
  <2>2. a \in Answered
    BY <1>1, <2>1, HeadTailProperties DEF ReceiveAnswer, ClockInv
  <2>3. offset' = Measured(a)
    BY <1>1, <2>1 DEF ReceiveAnswer, Sync
  <2>4. /\ a.local \in Int /\ a.remote \in Int
        /\ raw \in Int /\ skew \in Int /\ offset \in Int
        /\ a.local + offset <= a.remote - skew /\ a.remote - skew <= raw
    BY <1>1, <2>2, SkewsAssumption DEF Answered, ResponseType, ClockInv, ClockTypeOK
  <2>5. rtt \in Int /\ rtt >= 0 /\ rtt = raw - offset - a.local
    BY <2>4 DEF RoundTrip, now
  <2>6. Half(rtt) \in Int /\ 2 * Half(rtt) <= rtt /\ rtt <= 2 * Half(rtt) + 1
    BY <2>5, HalfBounds
  <2>7. error = a.remote + Half(rtt) - skew - raw
    <3>1. error = (a.remote + Half(rtt) - (raw - offset)) - ((raw + skew) - (raw - offset))
      BY <2>3 DEF Measured, ServerNow, now
    <3> HIDE DEF error, rtt
    <3> QED BY <2>4, <2>6, <3>1
  <2> HIDE DEF error, rtt, a
  <2> QED BY <2>4, <2>5, <2>6, <2>7
<1>2. ClockInv /\ [ClockNext]_clock_vars =>
        [best' # best /\ a.under = offset => Right]_clock_vars
  BY <1>1
<1> QED BY <1>2, ClockInvariance, PTL DEF ClockSpec, MeasuredWithinRoundTrip

-----------------------------------------------------------------------------
(* One exchange for each connection.  One more than were lost is too weak to *)
(* be kept by every step: between two connections there must be room for the *)
(* one the next connection starts, so those made are counted.                *)

Pending == Len(asked) + Len(answers) + finishing + One(ready) + One(timer)
Made == closes + One(state # "opening")
NoneDoubled == Pending <= Made

\* The lengths of the queues, after each change a step makes to one of them.
LEMMA Lengths ==
    ASSUME ClockInv
    PROVE  /\ Len(asked) \in Nat /\ Len(answers) \in Nat
           /\ \A r \in RequestType \cup {Ready} : Len(Append(asked, r)) = Len(asked) + 1
           /\ \A a \in ResponseType \cup {Finished} :
                  Len(Append(answers, a)) = Len(answers) + 1
           /\ asked # <<>> => Len(Tail(asked)) = Len(asked) - 1
           /\ answers # <<>> => Len(Tail(answers)) = Len(answers) - 1
           /\ \A i \in 1..(Len(asked) + 1) :
                  Len(SubSeq(asked, i, Len(asked))) = Len(asked) - i + 1
<1>1. /\ asked \in Seq(RequestType \cup {Ready})
      /\ answers \in Seq(ResponseType \cup {Finished})
  BY DEF ClockInv, ClockTypeOK
<1>2. Len(asked) \in Nat /\ Len(answers) \in Nat
  BY <1>1, LenProperties
<1>3. \A r \in RequestType \cup {Ready} : Len(Append(asked, r)) = Len(asked) + 1
  BY <1>1, AppendProperties
<1>4. \A a \in ResponseType \cup {Finished} : Len(Append(answers, a)) = Len(answers) + 1
  BY <1>1, AppendProperties
<1>5. asked # <<>> => Len(Tail(asked)) = Len(asked) - 1
  BY <1>1, HeadTailProperties
<1>6. answers # <<>> => Len(Tail(answers)) = Len(answers) - 1
  BY <1>1, HeadTailProperties
<1>7. ASSUME NEW i \in 1..(Len(asked) + 1)
      PROVE  Len(SubSeq(asked, i, Len(asked))) = Len(asked) - i + 1
  <2>1. \A k \in i..Len(asked) : asked[k] \in RequestType \cup {Ready}
    BY <1>1, <1>2, ElementOfSeq
  <2>2. Len(SubSeq(asked, i, Len(asked)))
          = IF i <= Len(asked) THEN Len(asked) - i + 1 ELSE 0
    BY <1>2, <2>1, SubSeqProperties
  <2> QED BY <1>2, <2>2
<1> QED BY <1>2, <1>3, <1>4, <1>5, <1>6, <1>7

\* Before the first connection there is no exchange.
LEMMA NoneInitially == ClockInit => NoneDoubled
BY EmptySeq, LenProperties DEF ClockInit, NoneDoubled, Pending, Made, One

\* Every step passes an exchange on, ends it, or starts one with a connection.
LEMMA NonePreserved == ClockInv /\ NoneDoubled /\ [ClockNext]_clock_vars => NoneDoubled'
<1> SUFFICES ASSUME ClockInv, NoneDoubled, [ClockNext]_clock_vars PROVE NoneDoubled'
  OBVIOUS
<1>0. /\ Len(asked) \in Nat /\ Len(answers) \in Nat /\ finishing \in Nat /\ closes \in Int
      /\ timer \in BOOLEAN /\ ready \in BOOLEAN
  BY ClockBoundsAssumption, Lengths DEF ClockInv, ClockTypeOK
<1> USE DEF NoneDoubled, Pending, Made, One
<1>1. CASE Tick
  BY <1>1 DEF Tick
<1>2. Request \in RequestType \cup {Ready}
  BY Requesting, Widened
<1>3. CASE Connect
  <2>1. Len(asked') = Len(asked) + 1
    BY <1>2, <1>3, Lengths DEF Connect
  <2> QED BY <1>0, <1>3, <2>1 DEF Connect
<1>4. CASE Ask
  <2>1. Len(asked') = Len(asked) + 1
    BY <1>2, <1>4, Lengths DEF Ask
  <2> QED BY <1>0, <1>4, <2>1 DEF Ask
<1>5. CASE Flush
  <2>1. Len(asked') = Len(asked) + 1
    BY <1>5, Lengths DEF Flush
  <2> QED BY <1>0, <1>5, <2>1 DEF Flush
<1>6. CASE Serve
  <2>1. Len(asked') = Len(asked) - 1
    BY <1>6, Lengths DEF Serve
  <2>2. CASE Head(asked) = Ready
    BY <1>0, <1>6, <2>1, <2>2 DEF Serve
  <2>3. CASE Head(asked) # Ready
    <3>1. Head(asked) \in Stamped
      BY <1>6, <2>3, HeadTailProperties DEF Serve, ClockInv
    <3>2. Len(answers') = Len(answers) + 1
      BY <1>6, <2>3, <3>1, Lengths, Answering, Widened DEF Serve
    <3> QED BY <1>0, <1>6, <2>1, <2>3, <3>2 DEF Serve
  <2> QED BY <2>2, <2>3
<1>7. CASE ServerFlush
  <2>1. Len(answers') = Len(answers) + 1
    BY <1>7, Lengths DEF ServerFlush
  <2> QED BY <1>0, <1>7, <2>1 DEF ServerFlush
<1>8. CASE ReceiveAnswer
  <2>1. Len(answers') = Len(answers) - 1
    BY <1>8, Lengths DEF ReceiveAnswer
  <2>2. asked' = asked /\ closes' = closes /\ finishing' = finishing
    BY <1>8 DEF ReceiveAnswer
  <2>3. CASE state = "in_handshake_time_sync"
    <3>1. state' = "in_handshake" /\ ready' = TRUE /\ timer' = timer
      BY <1>8, <2>3 DEF ReceiveAnswer
    <3> QED BY <1>0, <2>1, <2>2, <2>3, <3>1
  <2>4. CASE state # "in_handshake_time_sync"
    <3>1. state' = state /\ timer' = TRUE /\ ready' = ready
      BY <1>8, <2>4 DEF ReceiveAnswer
    <3> QED BY <1>0, <2>1, <2>2, <2>4, <3>1
  <2> QED BY <2>3, <2>4
<1>9. CASE FinishHandshake
  <2>1. Len(answers') = Len(answers) - 1
    BY <1>9, Lengths DEF FinishHandshake
  <2> QED BY <1>0, <1>9, <2>1 DEF FinishHandshake
<1>10. CASE Close
  <2>1. PICK i \in 1..(Len(asked) + 1) : asked' = SubSeq(asked, i, Len(asked))
    BY <1>10 DEF Close
  <2>2. Len(asked') = Len(asked) - i + 1
    BY <2>1, Lengths
  <2>3. Len(answers') = 0
    BY <1>10, EmptySeq, LenProperties DEF Close
  <2>4. /\ state # "opening" /\ state' = "opening" /\ timer' = FALSE /\ ready' = ready
        /\ finishing' = 0 /\ closes' = closes + 1
    BY <1>10 DEF Close
  <2> QED BY <1>0, <2>1, <2>2, <2>3, <2>4
<1>11. CASE UNCHANGED clock_vars
  BY <1>11 DEF clock_vars
<1> QED BY <1>1, <1>3, <1>4, <1>5, <1>6, <1>7, <1>8, <1>9, <1>10, <1>11 DEF ClockNext

\* A connection starts one exchange and none becomes two, in whatever state the
\* client takes an answer to what a former connection left in the write buffer: there
\* are never more of them, in messages and timer together, than connections were made.
THEOREM ExchangesAreOnePerConnection == ClockSpec => []OneExchangeEach
<1>1. ClockInit => ClockInv /\ NoneDoubled
  BY ClockInitially, NoneInitially
<1>2. (ClockInv /\ NoneDoubled) /\ [ClockNext]_clock_vars => (ClockInv /\ NoneDoubled)'
  BY ClockPreserved, NonePreserved
<1>3. ClockInv /\ NoneDoubled => OneExchangeEach
  <2> SUFFICES ASSUME ClockInv, NoneDoubled PROVE OneExchangeEach
    OBVIOUS
  <2>1. /\ Len(asked) \in Nat /\ Len(answers) \in Nat /\ finishing \in Nat /\ closes \in Int
        /\ timer \in BOOLEAN /\ ready \in BOOLEAN
    BY ClockBoundsAssumption, Lengths DEF ClockInv, ClockTypeOK
  <2> QED BY <2>1 DEF OneExchangeEach, NoneDoubled, Pending, Made, One
<1> QED BY <1>1, <1>2, <1>3, PTL DEF ClockSpec
=============================================================================
