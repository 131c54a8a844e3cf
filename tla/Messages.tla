------------------------------- MODULE Messages -------------------------------
(***************************************************************************)
(* From one program's out_message to the other's parse_data: message_queue *)
(* with its message_serializer, the messages the connection has taken, and *)
(* the message_parser of the other end (src/src/net/serialize.cpp), which  *)
(* is a state_machine (src/src/util/state.h) that a message handler resets *)
(* and runs to its end.                                                    *)
(*                                                                         *)
(* The connection delivers whole messages in order (Transport) and takes a *)
(* bounded number of them at a time.                                       *)
(***************************************************************************)
EXTENDS Codec

CONSTANTS
    Meant,       \* what a program may want to send: values are [type, items]
    Junk,        \* what may lie beyond an array
    Taken,       \* how many messages the connection holds
    MaxSent, MaxCuts  \* bounds

ASSUME TakenAssumption == Taken \in Nat \ {0}
ASSUME BoundsAssumption == MaxSent \in Nat /\ MaxCuts \in Nat
ASSUME JunkAssumption == Junk \subseteq Int
ASSUME MeantAssumption ==
    /\ Meant \subseteq Message
    /\ \A m \in Meant : Valued(m) => Makeable(m.value.type, m.value.items)

VARIABLES
    asked,       \* what the program has asked to be sent, in order
    m_outgoing,  \* the queue: [no, m], with the place of the message in asked
    wire,        \* taken by the connection: [no, type, body]
    parser,      \* the message_parser
    heard,       \* what the other end's handler was given: [no, data]
    cuts         \* connections lost

vars == <<asked, m_outgoing, wire, parser, heard, cuts>>

\* flag_immediate is used for these.
Immediate == {"time_sync_request", "time_sync_response"}

NoData ==
    [send_time |-> <<0, 0>>, id |-> <<0>>, name |-> <<>>, type |-> "empty",
     value |-> [type |-> "empty", items |-> <<>>], time_value |-> <<0, 0>>]

Init ==
    /\ asked = <<>>
    /\ m_outgoing = <<>>
    /\ wire = <<>>
    /\ parser = [no |-> 0, m_type |-> "no_type", rest |-> <<>>, m_state |-> "start",
                 m_user_state |-> "check_type", m_error_code |-> 0, m_data |-> NoData]
    /\ heard = <<>>
    /\ cuts = 0

-----------------------------------------------------------------------------
(* message_queue.                                                            *)

\* What the queue holds of m: its value went through a constructor of value.
MessagesFor(m) ==
    IF Valued(m)
    THEN {[m EXCEPT !.value = Made(m.value.type, m.value.items, junk)] : junk \in Junk}
    ELSE {m}

\* What the serializer makes of each, and what it refuses.
Sendable == UNION {MessagesFor(m) : m \in Meant}
Bodies == [m \in Sendable |-> Body(m)]
Refused == {m \in Sendable : ~Serializes(m)}

OnWire(q) == [no |-> q.no, type |-> q.m.type, body |-> Bodies[q.m]]

\* write_message for the first n of q, after which the connection is as full as
\* it may be.
Writes(q, n) ==
    /\ Len(wire) + n <= Taken
    /\ \A i \in 1..n : q[i].m \notin Refused

FaultyPutBehind(q) == <<q>> \o m_outgoing
PutBehind(q) == Append(m_outgoing, q)

Enqueue(m) ==
    /\ Len(asked) < MaxSent
    /\ m.type \notin Immediate
    /\ asked' = Append(asked, m)
    /\ \E made \in MessagesFor(m) :
           m_outgoing' = PutBehind([no |-> Len(asked) + 1, m |-> made])
    /\ UNCHANGED <<wire, parser, heard, cuts>>

FaultyPutOff(q) == m_outgoing
PutOff(q) == <<q>> \o m_outgoing

\* flag_immediate: past the queue if possible, and at its front otherwise.
EnqueueImmediate(m) ==
    /\ Len(asked) < MaxSent
    /\ m.type \in Immediate
    /\ asked' = Append(asked, m)
    /\ LET q == [no |-> Len(asked) + 1, m |-> m]
       IN  IF Writes(<<q>>, 1)
           THEN wire' = Append(wire, OnWire(q)) /\ UNCHANGED m_outgoing
           ELSE m_outgoing' = PutOff(q) /\ UNCHANGED wire
    /\ UNCHANGED <<parser, heard, cuts>>

\* The first message that is refused ends the loop and stays.
Writable == {n \in 1..Len(m_outgoing) : Writes(m_outgoing, n)}

Process ==
    /\ Writable # {}
    /\ LET n == CHOOSE k \in Writable : \A j \in Writable : j <= k
       IN  /\ wire' = wire \o [i \in 1..n |-> OnWire(m_outgoing[i])]
           /\ m_outgoing' = SubSeq(m_outgoing, n + 1, Len(m_outgoing))
    /\ UNCHANGED <<asked, parser, heard, cuts>>

\* The connection is lost: of what it had taken, the first have arrived and the
\* last may still be in a client's m_write_buffer, for the next one.  That starts
\* with a queue that was cleared, by a client's on_connect, or is new, in a
\* server; the parser is kept.
Reconnect ==
    /\ cuts < MaxCuts
    /\ m_outgoing' = <<>>
    /\ \E n \in 0..Len(wire) : \E k \in n..Len(wire) :
           wire' = SubSeq(wire, 1, n) \o SubSeq(wire, k + 1, Len(wire))
    /\ cuts' = cuts + 1
    /\ UNCHANGED <<asked, parser, heard>>

-----------------------------------------------------------------------------
(* message_parser.  on_message resets and runs it; each step of process is   *)
(* process_state for one state, which reads a field and selects the next.    *)

Idle == parser.m_state \in {"start", "handled"}

\* set_data, reset and the first part of process.
FaultySetData(p, w) == [p EXCEPT !.no = w.no, !.m_type = w.type, !.rest = w.body,
                                 !.m_state = "in_state", !.m_error_code = 0]
SetData(p, w) ==
    [p EXCEPT !.no = w.no, !.m_type = w.type, !.rest = w.body, !.m_state = "in_state",
              !.m_error_code = 0, !.m_user_state = "check_type"]

OnMessage ==
    /\ Idle
    /\ wire # <<>>
    /\ parser' = SetData(parser, Head(wire))
    /\ wire' = Tail(wire)
    /\ UNCHANGED <<asked, m_outgoing, heard, cuts>>

error_unknown_type == 0
error_read_data == 1

Errored(p, code) == [p EXCEPT !.m_state = "error", !.m_error_code = code]

\* select_next_state: from which state to which, for which types.
Steps ==
    {<<"check_type", t, "read_send_time">> :
        t \in {"entry_create", "entry_update", "entry_delete", "time_sync_request",
               "time_sync_response"}}
    \cup {<<"check_type", t, "end">> : t \in {"handshake_ready", "handshake_finished"}}
    \cup {<<"check_type", "entry_id_assign", "read_id">>,
          <<"read_id", "entry_id_assign", "read_name">>,
          <<"read_id", "entry_update", "read_value_type">>,
          <<"read_id", "entry_delete", "end">>,
          <<"read_name", "entry_create", "read_value_type">>,
          <<"read_name", "entry_id_assign", "end">>,
          <<"read_value_type", "entry_create", "read_value">>,
          <<"read_value_type", "entry_update", "read_value">>,
          <<"read_value", "entry_create", "end">>,
          <<"read_value", "entry_update", "end">>,
          <<"read_send_time", "entry_create", "read_name">>,
          <<"read_send_time", "entry_update", "read_id">>,
          <<"read_send_time", "entry_delete", "read_id">>,
          <<"read_send_time", "time_sync_request", "end">>,
          <<"read_send_time", "time_sync_response", "read_time_value">>,
          <<"read_time_value", "time_sync_response", "end">>}

SelectNextState(p) ==
    LET next == {s \in Steps : s[1] = p.m_user_state /\ s[2] = p.m_type}
    IN  IF next = {} THEN Errored(p, error_unknown_type)
        ELSE LET to == (CHOOSE s \in next : TRUE)[3]
             IN  IF to = "end" THEN [p EXCEPT !.m_state = "end"]
                 ELSE [p EXCEPT !.m_user_state = to]

\* A field of n cells was read from the buffer into m_data.
Field(p, n, field, value) ==
    SelectNextState([p EXCEPT !.rest = SubSeq(@, n + 1, Len(@)), !.m_data[field] = value])

ReadNumber(p, width, field) ==
    IF NumberIsThere(width, p.rest) THEN Field(p, 1, field, Number(p.rest))
    ELSE Errored(p, error_read_data)

ReadName(p) ==
    IF CountedAre(1, p.rest) THEN Field(p, 1 + p.rest[1].pieces[1], "name", CountedIn(p.rest))
    ELSE Errored(p, error_read_data)

ReadValueType(p) ==
    IF NumberIsThere(1, p.rest) THEN Field(p, 1, "type", Number(p.rest)[1])
    ELSE Errored(p, error_read_data)

ReadValueOf(p, junk) ==
    LET type == p.m_data.type
    IN  IF ValueIsThere(type, p.rest)
        THEN Field(p, Extent(type, p.rest), "value", ReadValue(type, p.rest, junk))
        ELSE Errored(p, error_read_data)

\* process_state.
Processed(p, junk) ==
    CASE p.m_user_state = "check_type" -> SelectNextState(p)
      [] p.m_user_state = "read_id" -> ReadNumber(p, 2, "id")
      [] p.m_user_state = "read_name" -> ReadName(p)
      [] p.m_user_state = "read_value_type" -> ReadValueType(p)
      [] p.m_user_state = "read_value" -> ReadValueOf(p, junk)
      [] p.m_user_state = "read_send_time" -> ReadNumber(p, 8, "send_time")
      [] p.m_user_state = "read_time_value" -> ReadNumber(p, 8, "time_value")

ProcessState ==
    /\ parser.m_state = "in_state"
    /\ \E next \in {Processed(parser, junk) : junk \in Junk} : parser' = next
    /\ UNCHANGED <<asked, m_outgoing, wire, heard, cuts>>

\* The handler goes on with what was parsed, or drops it.
Handle ==
    /\ parser.m_state \in {"end", "error"}
    /\ heard' = IF parser.m_state = "end"
                THEN Append(heard, [no |-> parser.no, type |-> parser.m_type,
                                    data |-> parser.m_data])
                ELSE heard
    /\ parser' = [parser EXCEPT !.m_state = "handled"]
    /\ UNCHANGED <<asked, m_outgoing, wire, cuts>>

Receiver == OnMessage \/ ProcessState \/ Handle

Next ==
    \/ \E m \in Meant : Enqueue(m) \/ EnqueueImmediate(m)
    \/ Process
    \/ Reconnect
    \/ Receiver

Spec == Init /\ [][Next]_vars

\* The update timer processes the queue, the looper reads what has come.
FairSpec == Spec /\ WF_vars(Process) /\ WF_vars(Receiver)

-----------------------------------------------------------------------------
HeardOf == {heard[i].no : i \in DOMAIN heard}
Waits(n) == n \in DOMAIN asked /\ asked[n].type \notin Immediate

\* Whatever the queue took before a message is heard before it, unless a
\* connection was lost or one of the two is a time sync, which passes the queue
\* (message_queue::enqueue and process).
NoneOvertaken ==
    \A i \in DOMAIN heard :
        Waits(heard[i].no) =>
            /\ \A j \in 1..(i - 1) :
                   Waits(heard[j].no) => heard[j].no < heard[i].no
            /\ cuts = 0 => \A n \in 1..(heard[i].no - 1) : Waits(n) => n \in HeardOf

\* Whatever was parsed before it, the parser accepts every message that the
\* serializer accepted, and reads it to its last byte: the serializer and the
\* transitions of the parser, written apart, agree on the layout.
ParsedToTheEnd ==
    /\ parser.m_state # "error"
    /\ parser.m_state = "end" => parser.rest = <<>>

SameFields(d, m) ==
    /\ d.type = m.type
    /\ m.type \in {"entry_create", "entry_update", "entry_delete", "time_sync_request",
                   "time_sync_response"} => d.data.send_time = m.send_time
    /\ m.type \in {"entry_update", "entry_delete", "entry_id_assign"} => d.data.id = m.id
    /\ Named(m) => d.data.name = m.name
    /\ m.type = "time_sync_response" => d.data.time_value = m.time_value

\* Doubles lose half of their bits (Readf64), and arrays of floats or doubles
\* their type, and floats their bits (Made).
Mistreated == {"floating_point64", "floating_point32_array", "floating_point64_array"}

\* What is heard is what was meant, byte by byte, but for the three types whose
\* values the code mistreats; of a double the low half arrives.
ArrivesAsMeant ==
    \A i \in DOMAIN heard :
        LET d == heard[i]
            m == asked[d.no]
        IN  /\ SameFields(d, m)
            /\ Valued(m) /\ m.value.type \notin Mistreated => d.data.value = m.value
            /\ Valued(m) /\ m.value.type = "floating_point64" =>
                   d.data.value.items[1][1] = m.value.items[1][1]

\* A message waits behind one that the serializer refuses, or is one.
HeldUp(n) ==
    \E i \in DOMAIN m_outgoing :
        /\ m_outgoing[i].no = n
        /\ \E j \in 1..i : m_outgoing[j].m \in Refused

\* On a connection that lasts everything asked for is heard in the end, unless it
\* waits behind a message that is too long for the serializer, which stays at the
\* head of the queue for good (message_queue::process).
OnlyTheLongHoldUp ==
    \A n \in 1..MaxSent :
        Len(asked) >= n ~> n \in HeardOf \/ HeldUp(n) \/ cuts > 0
=============================================================================
