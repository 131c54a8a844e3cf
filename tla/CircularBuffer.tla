--------------------------- MODULE CircularBuffer ---------------------------
(***************************************************************************)
(* obsr::io::circular_buffer (src/src/io/buffer.cpp) as operators over a   *)
(* record [cells, read, write]: m_buffer, m_read_pos and m_write_pos.      *)
(* What the code stores as bytes is a cell here.  A buffer with read equal *)
(* to write is empty, also when it got there by being filled.              *)
(***************************************************************************)
EXTENDS Integers, Sequences

CONSTANTS
    Size,   \* m_size
    Blank   \* a cell nothing was written to

ASSUME SizeAssumption == Size \in Nat \ {0, 1}

Positions == 0..(Size - 1)

Empty == [cells |-> [i \in Positions |-> Blank], read |-> 0, write |-> 0]

\* The definitions named Faulty... here and in Transport.tla are variants with
\* a mistake the code could have made; no specification uses them.
FaultyAdvance(pos, n) == pos + n
Advance(pos, n) == (pos + n) % Size

read_available(b) ==
    IF b.write < b.read THEN (Size - b.read) + b.write ELSE b.write - b.read

\* What can_write looks at: all of m_size as long as the data does not wrap.
write_available(b) ==
    IF b.write >= b.read THEN (Size - b.write) + b.write ELSE b.read - b.write

\* What write has room for.
Room(b) == IF b.write >= b.read THEN (Size - b.write) + b.read ELSE b.read - b.write

can_read(b, n) == read_available(b) >= n
can_write(b, n) == write_available(b) >= n

\* memcpy of s to position at, in two pieces if it reaches the end.
Stored(cells, at, s) ==
    [i \in Positions |-> LET k == (i - at) % Size
                         IN  IF k < Len(s) THEN s[k + 1] ELSE cells[i]]

\* The next n cells to be read, and the whole of what is held.
Ahead(b, n) == [i \in 1..n |-> b.cells[(b.read + i - 1) % Size]]
Contents(b) == Ahead(b, read_available(b))

Writable(b, s) == Len(s) <= Size /\ Len(s) <= Room(b)
Write(b, s) == [b EXCEPT !.cells = Stored(@, b.write, s), !.write = Advance(@, Len(s))]

Readable(b, n) == n <= Size /\ can_read(b, n)
Read(b, n) == [b EXCEPT !.read = Advance(@, n)]

\* find_and_seek_read: to the first of the wanted cells, or past everything.
Find(b, wanted) ==
    LET there == {i \in 1..read_available(b) : Contents(b)[i] \in wanted}
    IN  IF there = {} THEN IF b.write < b.read /\ b.write = 0 THEN b.read ELSE b.write
        ELSE Advance(b.read, (CHOOSE i \in there : \A j \in there : i <= j) - 1)
Found(b, wanted) == \E i \in 1..read_available(b) : Contents(b)[i] \in wanted

Least(m, n) == IF m < n THEN m ELSE n

(* read_from a socket that holds s: one read up to the end of the array and, *)
(* when that was filled, another one from its start.  The space of the       *)
(* second, m_read_pos - 1, is unsigned: at 0 there is no limit to it.        *)
FirstSpace(b) == IF b.write >= b.read THEN Size - b.write ELSE b.read - b.write
SecondSpace(b, s) == IF b.read = 0 THEN Len(s) ELSE b.read - 1
ReadsTwice(b, s) == b.write >= b.read /\ Len(s) >= FirstSpace(b)

TakenFrom(b, s) ==
    LET first == Least(FirstSpace(b), Len(s))
    IN  IF ReadsTwice(b, s) THEN first + Least(SecondSpace(b, s), Len(s) - first) ELSE first

\* When the second read finds nothing but the end of a closed stream it throws,
\* and m_write_pos stays where it was before the first.
EndThrows(b, s) == ReadsTwice(b, s) /\ b.read # 1 /\ Len(s) = FirstSpace(b)

ReadFrom(b, s) ==
    LET taken == SubSeq(s, 1, TakenFrom(b, s))
    IN  [b EXCEPT !.cells = Stored(@, b.write, taken), !.write = Advance(@, Len(taken))]

\* After read_from the buffer looks empty, or shorter than what is in it.
Overfilled(b, s) ==
    IF b.write >= b.read THEN ReadsTwice(b, s) /\ b.read = 0
    ELSE Len(s) >= FirstSpace(b)

(* write_into a socket with room: a piece up to the end of the array and,    *)
(* when all of it was taken, the piece at its start.  A socket that is full  *)
(* refuses the second with EAGAIN, which socket::write throws, and           *)
(* m_read_pos stays where it was.                                           *)
Wraps(b) == b.write < b.read
Offered(b) == IF Wraps(b) THEN Size - b.read ELSE b.write - b.read

SecondRefused(b, room) == Wraps(b) /\ b.write > 0 /\ room = Offered(b)

SentInto(b, room) ==
    IF Wraps(b) /\ room > Offered(b) THEN Least(read_available(b), room)
    ELSE Least(Offered(b), room)
=============================================================================
