------------------------------ MODULE Transport ------------------------------
(***************************************************************************)
(* One direction of a connection: the socket_io that writes, with its      *)
(* m_write_buffer, the kernel's stream, and the socket_io that reads, with *)
(* its reader (src/src/net/io.cpp, src/src/util/state.h).                  *)
(*                                                                         *)
(* A network_client keeps one socket_io for all its connections and a      *)
(* server makes a new one for each, so after a reconnection the client's   *)
(* end has what was in its buffers and the server's end has nothing.       *)
(*                                                                         *)
(* A message is the three cells of its header (the magic, the version, and *)
(* the rest with its size) and the cells of its body; no other cell looks  *)
(* like a magic or a version.  A header can be cut between its cells: what *)
(* a cut inside the rest leaves is what one before it leaves, a header the *)
(* next bytes complete to one with any size.                               *)
(***************************************************************************)
EXTENDS CircularBuffer, SequencesExt

CONSTANTS
    Sizes,      \* sizes of messages
    PipeSize,   \* what the kernel holds of a stream
    MaxMessages, MaxCuts  \* bounds

\* With at most Size cells in the stream the second read of read_from stays in
\* the array even where the code sets it no limit.
ASSUME PipeAssumption == PipeSize \in 1..Size
ASSUME SizesAssumption == \A n \in Sizes : n \in Nat /\ n + 3 <= Size
ASSUME BoundsAssumption == MaxMessages \in Nat /\ MaxCuts \in Nat

VARIABLES
    writer,     \* who writes: "client" or "server"
    open,       \* is there a connection
    out,        \* m_write_buffer of the writer
    wants_out,  \* event_out is asked for
    pipe,       \* the stream
    in,         \* m_read_buffer of the reader
    reader,     \* its state and m_data: what it parses, or its error, and the
                \* header it read
    written,    \* messages written so far
    delivered,  \* what on_message was called with
    spoilt,     \* what has gone wrong on the way
    cuts        \* connections lost

vars == <<writer, open, out, wants_out, pipe, in, reader, written, delivered,
          spoilt, cuts>>

Magic(m) == [is |-> "magic", of |-> m, n |-> 0]
Version(m) == [is |-> "version", of |-> m, n |-> 0]
Rest(m, size) == [is |-> "rest", of |-> m, n |-> size]
Body(m, size) == [i \in 1..size |-> [is |-> "body", of |-> m, n |-> i]]
Header(m, size) == <<Magic(m), Version(m), Rest(m, size)>>

Magics == {Magic(m) : m \in 1..MaxMessages}
IsVersion(cell) == cell.is = "version"
IsRest(cell) == cell.is = "rest"

\* A message_size over message_buffer_size, which no write can give a message.
Unsupported == Size + 1

FreshReader == [state |-> "header", header |-> Rest(0, 0), runs |-> FALSE]

Init ==
    /\ writer \in {"client", "server"}
    /\ open = TRUE
    /\ out = Empty
    /\ wants_out = TRUE
    /\ pipe = <<>>
    /\ in = Empty
    /\ reader = FreshReader
    /\ written = 0
    /\ delivered = <<>>
    /\ spoilt = {}
    /\ cuts = 0

Spoils(why, cond) == spoilt' = IF cond THEN spoilt \cup {why} ELSE spoilt

-----------------------------------------------------------------------------
(* socket_io::write.  It refuses what can_write refuses, or its header; a    *)
(* body without room after its header stops the connection.                  *)

Accepts(b, m, size) == can_write(b, 3 + size) /\ Writable(b, Header(m, size))

WriteMessage(size) ==
    LET m == written + 1
        headed == Write(out, Header(m, size))
    IN  /\ open
        /\ m <= MaxMessages
        /\ Accepts(out, m, size)
        /\ Writable(headed, Body(m, size))
        /\ out' = Write(headed, Body(m, size))
        /\ Spoils("filled", 3 + size >= Room(out))
        /\ written' = m
        /\ wants_out' = TRUE
        /\ UNCHANGED <<writer, open, pipe, in, reader, delivered, cuts>>

WriteHalf(size) ==
    LET m == written + 1
        headed == Write(out, Header(m, size))
    IN  /\ open
        /\ m <= MaxMessages
        /\ cuts < MaxCuts
        /\ Accepts(out, m, size)
        /\ ~Writable(headed, Body(m, size))
        /\ ~reader.runs
        /\ out' = headed
        /\ Spoils("half_written", TRUE)
        /\ open' = FALSE
        /\ cuts' = cuts + 1
        /\ UNCHANGED <<writer, wants_out, pipe, in, reader, written, delivered>>

\* on_write_ready of a connected socket: the socket has room.
SendSome ==
    LET room == PipeSize - Len(pipe)
        n == SentInto(out, room)
    IN  /\ open
        /\ wants_out
        /\ room > 0
        /\ ~SecondRefused(out, room)
        /\ pipe' = pipe \o Ahead(out, n)
        /\ out' = Read(out, n)
        /\ wants_out' = (out.read # out.write)
        /\ UNCHANGED <<writer, open, in, reader, written, delivered, spoilt, cuts>>

\* write_into throws after it sent the first piece.
SendThrows ==
    LET room == PipeSize - Len(pipe)
    IN  /\ open
        /\ wants_out
        /\ room > 0
        /\ SecondRefused(out, room)
        /\ cuts < MaxCuts
        /\ ~reader.runs
        /\ pipe' = pipe \o Ahead(out, room)
        /\ Spoils("sent_twice", TRUE)
        /\ open' = FALSE
        /\ cuts' = cuts + 1
        /\ UNCHANGED <<writer, out, wants_out, in, reader, written, delivered>>

-----------------------------------------------------------------------------
(* on_read_ready: the reader is updated once and then processed until it     *)
(* wants more; runs says that it is at it.  The stream is read to its end,   *)
(* also when the other end has closed it; that it has may be seen later.     *)

Receive ==
    /\ pipe # <<>>
    /\ ~reader.runs
    /\ \/ in' = ReadFrom(in, pipe)
       \/ ~open /\ EndThrows(in, pipe) /\ in' = in
    /\ pipe' = SubSeq(pipe, TakenFrom(in, pipe) + 1, Len(pipe))
    /\ Spoils("filled", Overfilled(in, pipe))
    /\ reader' = [reader EXCEPT !.runs = TRUE]
    /\ UNCHANGED <<writer, open, out, wants_out, written, delivered, cuts>>

TryLater == reader' = [reader EXCEPT !.runs = FALSE]

Heading(header) == reader' = [reader EXCEPT !.state = "message", !.header = header]

\* read_state::header: the next magic, and a header from there on if the bytes
\* of one are there and the version is right.  Whatever else is behind the
\* version is taken for a type and a size.
ParseHeader ==
    /\ reader.runs
    /\ reader.state = "header"
    /\ LET b == [in EXCEPT !.read = Find(in, Magics)]
           whole == Found(in, Magics) /\ Readable(b, 3)
           header == Ahead(b, 3)
       IN  /\ in' = IF whole THEN Read(b, 3) ELSE b
           /\ \/ ~whole /\ TryLater
              \/ whole /\ ~IsVersion(header[2]) /\ reader' = reader
              \/ whole /\ IsVersion(header[2]) /\ IsRest(header[3]) /\ Heading(header[3])
              \/ /\ whole /\ IsVersion(header[2]) /\ ~IsRest(header[3])
                 /\ \E n \in Sizes \cup {Unsupported} : Heading(Rest(0, n))
    /\ UNCHANGED <<writer, open, out, wants_out, pipe, written, delivered, spoilt, cuts>>

FaultyNextMessage(r) == [r EXCEPT !.state = "header", !.runs = FALSE]

\* reset, and "read one message, there might be another".
NextMessage(r) == [r EXCEPT !.state = "header", !.runs = TRUE]

\* read_state::message: on_message is called once the whole body is there.
ParseMessage ==
    /\ reader.runs
    /\ reader.state = "message"
    /\ reader.header.n # Unsupported
    /\ LET n == reader.header.n
       IN  IF ~can_read(in, n)
           THEN TryLater /\ UNCHANGED <<in, delivered>>
           ELSE /\ in' = Read(in, n)
                /\ delivered' = Append(delivered, [header |-> reader.header,
                                                   body |-> Ahead(in, n)])
                /\ reader' = NextMessage(reader)
    /\ UNCHANGED <<writer, open, out, wants_out, pipe, written, spoilt, cuts>>

\* read_unsupported_size, and process() ever after, as nobody resets a reader in
\* error: on_read_ready stops the connection.  (cuts counts only what starts so)
ReadError ==
    /\ reader.runs
    /\ \/ reader.state = "error" /\ UNCHANGED in
       \/ /\ reader.state = "message"
          /\ reader.header.n = Unsupported
          /\ in' = Read(in, read_available(in))
    /\ reader' = [reader EXCEPT !.state = "error", !.runs = FALSE]
    /\ open' = FALSE
    /\ UNCHANGED <<writer, out, wants_out, pipe, written, delivered, spoilt, cuts>>

-----------------------------------------------------------------------------
\* The connection is lost, and with it the end of what the kernel holds.
Cut ==
    /\ open
    /\ cuts < MaxCuts
    /\ ~reader.runs
    /\ open' = FALSE
    /\ cuts' = cuts + 1
    /\ \E n \in 0..Len(pipe) : pipe' = SubSeq(pipe, 1, n)
    /\ UNCHANGED <<writer, out, wants_out, in, reader, written, delivered, spoilt>>

FaultyReaderOf(who) == reader
ReaderOf(who) == IF who = "client" THEN FreshReader ELSE reader

\* The magic and the version of a header are at i.
Opens(q, i) ==
    {i, i + 1} \subseteq DOMAIN q /\ q[i] \in Magics /\ IsVersion(q[i + 1])
HasOpened(b) == \E i \in DOMAIN Contents(b) : Opens(Contents(b), i)

\* start of the client's old socket_io and of a new one in the server.  A client's
\* reader goes on where it was, be it in a body or in a header.
Reconnect ==
    /\ ~open
    /\ ~reader.runs
    /\ open' = TRUE
    /\ pipe' = <<>>
    /\ wants_out' = TRUE
    /\ out' = IF writer = "client" THEN out ELSE Empty
    /\ in' = IF writer = "client" THEN Empty ELSE in
    /\ reader' = ReaderOf(writer)
    /\ Spoils(IF reader.state = "message" THEN "kept_reading" ELSE "kept_header",
              writer = "server" /\ (reader.state = "message" \/ HasOpened(in)))
    /\ UNCHANGED <<writer, written, delivered, cuts>>

ReadingEnd == Receive \/ ParseHeader \/ ParseMessage \/ ReadError

Next ==
    \/ \E size \in Sizes : WriteMessage(size)
    \/ \E size \in Sizes : WriteHalf(size)
    \/ SendSome
    \/ SendThrows
    \/ ReadingEnd
    \/ Cut
    \/ Reconnect

Spec == Init /\ [][Next]_vars

\* The loopers of both ends poll their sockets again and again, and call
\* on_write_ready, which may throw, and on_read_ready.
FairSpec == Spec /\ WF_vars(SendSome \/ SendThrows) /\ WF_vars(ReadingEnd)

-----------------------------------------------------------------------------
Cells ==
    Magics \cup {Version(m) : m \in 1..MaxMessages}
    \cup {Rest(m, n) : m \in 1..MaxMessages, n \in Sizes}
    \cup UNION {ToSet(Body(m, n)) : m \in 1..MaxMessages, n \in Sizes}

\* The type invariant of the transport: the positions stay inside the arrays,
\* and all that is held was once written.
TypeOK ==
    /\ \A b \in {out, in} : b.read \in Positions /\ b.write \in Positions
    /\ ToSet(Contents(out)) \cup ToSet(Contents(in)) \cup ToSet(pipe) \subseteq Cells
    /\ spoilt \subseteq {"filled", "half_written", "sent_twice", "kept_reading", "kept_header"}

\* What comes out: the number of a message if it has its own body.
Damaged == 0
Came == [i \in DOMAIN delivered |->
            LET d == delivered[i]
            IN  IF d.body = Body(d.header.of, d.header.n) THEN d.header.of ELSE Damaged]

C == INSTANCE Channel
         WITH sent <- written, heard <- Came, cut <- cuts > 0, spoilt <- spoilt # {}

\* socket_io and its reader are a channel: every message on_message gets is one
\* that write accepted, with its own body, none comes twice or late, and on a
\* connection that lasts none is skipped, as long as no buffer was filled to the
\* brim, no write stopped halfway or threw, and no reader went on with a message,
\* or with the magic and version of a header, of the connection before.
IsAChannel == C!Spec

\* A message written is read in the end if the connection lasts, without
\* another write to wake either end.
ReadInTheEnd ==
    \A m \in 1..MaxMessages :
        written = m ~> Len(delivered) >= m \/ spoilt # {} \/ cuts > 0
=============================================================================
