-------------------------------- MODULE Codec --------------------------------
(***************************************************************************)
(* How a value and a message become bytes and values again: the            *)
(* constructors of obsr::value (src/include/obsr_types.h), io::serializer  *)
(* and io::deserializer (src/src/io/serialize.cpp) and message_serializer  *)
(* (src/src/net/serialize.cpp).                                            *)
(*                                                                         *)
(* A number is the sequence of its pieces of at most 32 bits, the lowest   *)
(* first: two for what is 64 bits wide, one for anything else.  A value is *)
(* a record [type, items], an item being a number: one for a scalar, none  *)
(* for the empty value, one for each element of an array and for each      *)
(* character of a string.  On the wire a number is a cell: its width in    *)
(* bytes and its pieces.  A read that does not ask for the width of the    *)
(* cell it starts at would get parts of several; here it fails.            *)
(***************************************************************************)
EXTENDS Integers, SequencesExt

CONSTANTS
    ByteMax,      \* UINT8_MAX
    WriterBuffer  \* writer_buffer_size

ASSUME ByteAssumption == ByteMax \in Nat
ASSUME WriterAssumption == WriterBuffer \in Nat

\* sizeof the items of each value_type.
Width ==
    [empty |-> 0, raw |-> 1, string |-> 1, boolean |-> 1, integer32 |-> 4,
     integer64 |-> 8, floating_point32 |-> 4, floating_point64 |-> 8,
     integer32_array |-> 4, integer64_array |-> 8, floating_point32_array |-> 4,
     floating_point64_array |-> 8]

Types == DOMAIN Width
Pieces(type) == IF Width[type] = 8 THEN 2 ELSE 1

\* Written with the number of their items before them.
Counted == {"raw", "string", "integer32_array", "integer64_array",
            "floating_point32_array", "floating_point64_array"}

\* What a program can hold: a number of n pieces, and a value.
Words(n) == [1..n -> Int]
Values ==
    {v \in [type : Types, items : Seq(Words(1) \cup Words(2))] :
        /\ \A i \in DOMAIN v.items : v.items[i] \in Words(Pieces(v.type))
        /\ v.type \notin Counted => Len(v.items) = IF v.type = "empty" THEN 0 ELSE 1}

\* is_within_size_limits, and verify_within_size_limits of obsr::value.
WithinLimits(n) == n < ByteMax

-----------------------------------------------------------------------------
(* obsr::value.  The constructors for arrays of floats and of doubles set    *)
(* the type of arrays of int64_t.  get_int64_array then reads as many        *)
(* elements of 64 bits, for floats half of them from beyond the array, where *)
(* there may be anything (junk).                                             *)

MadeType(type) ==
    IF type \in {"floating_point32_array", "floating_point64_array"}
    THEN "integer64_array"
    ELSE type

\* The k-th piece of an array of which each item has n.
PieceAt(items, n, k, junk) ==
    LET i == ((k - 1) \div n) + 1
    IN  IF i \in DOMAIN items THEN items[i][((k - 1) % n) + 1] ELSE junk

Made(type, items, junk) ==
    LET made == MadeType(type)
        n == Pieces(made)
    IN  [type |-> made,
         items |-> [i \in DOMAIN items |->
                       [k \in 1..n |-> PieceAt(items, Pieces(type), (i - 1) * n + k, junk)]]]

\* What make_... accepts; it throws for the others.
Makeable(type, items) == type \in Counted => WithinLimits(Len(items))

-----------------------------------------------------------------------------
(* io::serializer.  Numbers go out with the highest piece first and come     *)
(* back the same way (bits::net.. and bits::host..).                         *)

net(word) == Reverse(word)

\* The definitions named Faulty... here and in Messages.tla are variants with a
\* mistake the code could have made; no specification uses them.
FaultyHost(word) == word
host(word) == Reverse(word)

Cell(width, word) == <<[width |-> width, pieces |-> net(word)]>>
Cells(width, words) == [i \in DOMAIN words |-> Cell(width, words[i])[1]]

Counter(n) == Cell(1, <<n>>)
Text(s) == Counter(Len(s)) \o Cells(1, s)

Wire(v) ==
    IF v.type \in Counted
    THEN Counter(Len(v.items)) \o Cells(Width[v.type], v.items)
    ELSE Cells(Width[v.type], v.items)

TypedWire(v) == Cell(1, <<v.type>>) \o Wire(v)

-----------------------------------------------------------------------------
(* io::deserializer, on the cells that are left.  Each ...IsThere says that  *)
(* the read succeeds.                                                        *)

NumberIsThere(width, cells) == cells # <<>> /\ cells[1].width = width
Number(cells) == host(cells[1].pieces)

\* Where a counter stands first, the cells it counts.
CountedAre(width, cells) ==
    /\ NumberIsThere(1, cells)
    /\ LET n == cells[1].pieces[1]
       IN  /\ Len(cells) >= 1 + n
           /\ \A i \in 2..(1 + n) : cells[i].width = width
CountedIn(cells) == [i \in 1..cells[1].pieces[1] |-> host(cells[i + 1].pieces)]

\* readf64 stores the 64 bits it has read in the 32 of its union's integer.
Readf64(word) == <<word[1], 0>>

\* The type is what a byte was read as: it may be none.
ValueIsThere(type, cells) ==
    /\ type \in Types
    /\ IF type = "empty" THEN TRUE
       ELSE IF type \in Counted THEN CountedAre(Width[type], cells)
       ELSE NumberIsThere(Width[type], cells)

ItemsOf(type, cells) ==
    IF type = "empty" THEN <<>>
    ELSE LET words == IF type \in Counted THEN CountedIn(cells) ELSE <<Number(cells)>>
         IN  IF type \in {"floating_point64", "floating_point64_array"}
             THEN [i \in DOMAIN words |-> Readf64(words[i])]
             ELSE words

ReadValue(type, cells, junk) == Made(type, ItemsOf(type, cells), junk)

\* How many cells a value takes.
Extent(type, cells) ==
    IF type \in Counted THEN 1 + cells[1].pieces[1] ELSE IF type = "empty" THEN 0 ELSE 1

-----------------------------------------------------------------------------
(* message_serializer, for an out_message.                                   *)

Message ==
    [type : {"entry_create"}, send_time : Words(2), name : Seq(Words(1)), value : Values]
    \cup [type : {"entry_update"}, send_time : Words(2), id : Words(1), value : Values]
    \cup [type : {"entry_delete"}, send_time : Words(2), id : Words(1)]
    \cup [type : {"entry_id_assign"}, id : Words(1), name : Seq(Words(1))]
    \cup [type : {"time_sync_request"}, send_time : Words(2)]
    \cup [type : {"time_sync_response"}, send_time : Words(2), time_value : Words(2)]
    \cup [type : {"handshake_ready", "handshake_finished"}]

Body(m) ==
    CASE m.type = "entry_create" ->
            Cell(8, m.send_time) \o Text(m.name) \o TypedWire(m.value)
      [] m.type = "entry_update" ->
            Cell(8, m.send_time) \o Cell(2, m.id) \o TypedWire(m.value)
      [] m.type = "entry_delete" -> Cell(8, m.send_time) \o Cell(2, m.id)
      [] m.type = "entry_id_assign" -> Cell(2, m.id) \o Text(m.name)
      [] m.type = "time_sync_request" -> Cell(8, m.send_time)
      [] m.type = "time_sync_response" -> Cell(8, m.send_time) \o Cell(8, m.time_value)
      [] OTHER -> <<>>

Size(cells) == FoldLeft(LAMBDA n, cell : n + cell.width, 0, cells)

Named(m) == m.type \in {"entry_create", "entry_id_assign"}
Valued(m) == m.type \in {"entry_create", "entry_update"}

\* write_size refuses long names and values, linear_buffer what is too long for it.
Serializes(m) ==
    /\ Named(m) => WithinLimits(Len(m.name))
    /\ Valued(m) /\ m.value.type \in Counted => WithinLimits(Len(m.value.items))
    /\ Size(Body(m)) <= WriterBuffer
=============================================================================
