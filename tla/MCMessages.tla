----------------------------- MODULE MCMessages -----------------------------
(* Counts up to fourteen, a buffer for two long integers behind a short     *)
(* name, and messages of every type.                                        *)
EXTENDS Messages

Low == <<1, 2>>
High == <<3, 4>>

Value(type, items) == [type |-> type, items |-> items]
Create(name, value) ==
    [type |-> "entry_create", send_time |-> Low, name |-> name, value |-> value]
Update(value) ==
    [type |-> "entry_update", send_time |-> High, id |-> <<3>>, value |-> value]

Fits == Value("integer64_array", <<Low, High>>)
TooLong == Value("integer64_array", <<Low, High, Low>>)

MCMeant ==
    {Create(<<<<7>>>>, Fits), Create(<<<<7>>>>, Value("string", <<<<5>>, <<6>>>>)),
     Create([i \in 1..15 |-> <<7>>], Value("empty", <<>>)),
     Update(TooLong), Update(Value("floating_point64", <<High>>)),
     Update(Value("floating_point32_array", <<<<5>>, <<6>>>>)),
     [type |-> "entry_delete", send_time |-> Low, id |-> <<4>>],
     [type |-> "entry_id_assign", id |-> <<5>>, name |-> <<<<7>>, <<8>>>>],
     [type |-> "handshake_ready"],
     [type |-> "time_sync_response", send_time |-> High, time_value |-> Low]}
MCJunk == {9}
=============================================================================
