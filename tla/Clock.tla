-------------------------------- MODULE Clock --------------------------------
(***************************************************************************)
(* obsr::clock (src/src/util/time.cpp) and the exchange that keeps it in   *)
(* step with the server's (time_sync_request and time_sync_response in     *)
(* net/client.cpp and net/server.cpp), with the two messages of the        *)
(* handshake that start it.  The server never syncs: its obsr time is its  *)
(* system time.  Both system clocks advance at the same rate.              *)
(***************************************************************************)
EXTENDS Integers, Sequences

CONSTANTS
    Skews,      \* how far the server's system clock may be ahead of the client's
    Never,      \* m_rtt2 before the first sync (INT64_MAX)
    MaxTime, MaxAsked, MaxCloses    \* bounds

ASSUME SkewsAssumption == Skews \subseteq Int
ASSUME NeverAssumption == Never \notin Int
ASSUME ClockBoundsAssumption == MaxTime \in Nat /\ MaxAsked \in Nat /\ MaxCloses \in Nat

VARIABLES
    raw,        \* the client's system clock
    skew,       \* the server's minus the client's
    offset,     \* m_offset
    best,       \* m_rtt2
    state,      \* m_state of the client
    timer,      \* m_clock_sync_timer.is_running()
    ready,      \* does the client's m_outgoing hold a handshake_ready
    asked,      \* what is on its way to the server: requests and handshake_ready
    finishing,  \* how many handshake_finished the server's m_outgoing holds
    answers,    \* what is on its way to the client: responses and handshake_finished
    closes      \* connections lost so far

clock_vars ==
    <<raw, skew, offset, best, state, timer, ready, asked, finishing, answers, closes>>

now == raw - offset
ServerNow == raw + skew

\* A request carries the time of sending; `under' is the offset that time was
\* taken with, which the code does not keep.
Request == [type |-> "time_sync_request", local |-> now, under |-> offset]
Response(r) ==
    [type |-> "time_sync_response", local |-> r.local, under |-> r.under, remote |-> ServerNow]
Ready == [type |-> "handshake_ready"]
Finished == [type |-> "handshake_finished"]

\* Integer division as in C++.
Half(x) == IF x >= 0 THEN x \div 2 ELSE -((-x) \div 2)

-----------------------------------------------------------------------------
ClockInit ==
    /\ raw = 0
    /\ skew \in Skews
    /\ offset = 0
    /\ best = Never
    /\ state = "opening"
    /\ timer = FALSE
    /\ ready = FALSE
    /\ asked = <<>>
    /\ finishing = 0
    /\ answers = <<>>
    /\ closes = 0

Tick ==
    /\ raw < MaxTime
    /\ raw' = raw + 1
    /\ UNCHANGED <<skew, offset, best, state, timer, ready, asked, finishing, answers, closes>>

\* on_connect clears the queue.  What the former connection left in the write
\* buffer is sent before the request.
Connect ==
    /\ state = "opening"
    /\ Len(asked) < MaxAsked
    /\ state' = "in_handshake_time_sync"
    /\ ready' = FALSE
    /\ asked' = Append(asked, Request)
    /\ UNCHANGED <<raw, skew, offset, best, timer, finishing, answers, closes>>

FaultyAskKeepsTimer ==
    /\ timer
    /\ Len(asked) < MaxAsked
    /\ asked' = Append(asked, Request)
    /\ UNCHANGED <<raw, skew, offset, best, state, timer, ready, finishing, answers, closes>>

\* update(): the sync timer has elapsed.
Ask ==
    /\ timer
    /\ Len(asked) < MaxAsked
    /\ asked' = Append(asked, Request)
    /\ timer' = FALSE
    /\ UNCHANGED <<raw, skew, offset, best, state, ready, finishing, answers, closes>>

\* update() writes the queue, in each state but opening.
Flush ==
    /\ state # "opening"
    /\ ready
    /\ asked' = Append(asked, Ready)
    /\ ready' = FALSE
    /\ UNCHANGED <<raw, skew, offset, best, state, timer, finishing, answers, closes>>

\* The server's on_message: a request is answered at once, handshake_finished is
\* queued behind what it greets with.
Serve ==
    /\ state # "opening"
    /\ asked # <<>>
    /\ IF Head(asked) = Ready
       THEN finishing' = finishing + 1 /\ UNCHANGED answers
       ELSE answers' = Append(answers, Response(Head(asked))) /\ UNCHANGED finishing
    /\ asked' = Tail(asked)
    /\ UNCHANGED <<raw, skew, offset, best, state, timer, ready, closes>>

\* The server's update() writes its queue.
ServerFlush ==
    /\ finishing > 0
    /\ answers' = Append(answers, Finished)
    /\ finishing' = finishing - 1
    /\ UNCHANGED <<raw, skew, offset, best, state, timer, ready, asked, closes>>

FaultyMeasuredBack(a) == a.remote - Half(now - a.local) - now

\* clock::sync
RoundTrip(a) == now - a.local
Measured(a) == a.remote + Half(RoundTrip(a)) - now
Better(a) == best = Never \/ Half(RoundTrip(a)) < best

Sync(a) ==
    IF Better(a)
    THEN best' = Half(RoundTrip(a)) /\ offset' = Measured(a)
    ELSE UNCHANGED <<best, offset>>

\* The client's on_message, time_sync_response.
ReceiveAnswer ==
    /\ answers # <<>>
    /\ Head(answers) # Finished
    /\ Sync(Head(answers))
    /\ answers' = Tail(answers)
    /\ IF state = "in_handshake_time_sync"
       THEN state' = "in_handshake" /\ ready' = TRUE /\ UNCHANGED timer
       ELSE timer' = TRUE /\ UNCHANGED <<state, ready>>
    /\ UNCHANGED <<raw, skew, asked, finishing, closes>>

\* The client's on_message, handshake_finished, whatever the state: it may be
\* the answer to a handshake_ready of the connection before.
FinishHandshake ==
    /\ answers # <<>>
    /\ Head(answers) = Finished
    /\ answers' = Tail(answers)
    /\ state' = "in_use"
    /\ timer' = TRUE
    /\ UNCHANGED <<raw, skew, offset, best, ready, asked, finishing, closes>>

\* on_close: what was on its way is lost, except what still is in the client's
\* write buffer, which nothing empties.
Close ==
    /\ state # "opening"
    /\ closes < MaxCloses
    /\ state' = "opening"
    /\ timer' = FALSE
    /\ finishing' = 0
    /\ answers' = <<>>
    /\ \E i \in 1..(Len(asked) + 1) : asked' = SubSeq(asked, i, Len(asked))
    /\ closes' = closes + 1
    /\ UNCHANGED <<raw, skew, offset, best, ready>>

ClockNext ==
    \/ Tick \/ Connect \/ Ask \/ Flush \/ Serve \/ ServerFlush
    \/ ReceiveAnswer \/ FinishHandshake \/ Close

ClockSpec == ClockInit /\ [][ClockNext]_clock_vars

-----------------------------------------------------------------------------
RequestType == [type: {"time_sync_request"}, local: Int, under: Int]
ResponseType == [type: {"time_sync_response"}, local: Int, under: Int, remote: Int]

\* The type invariant; ConnectionProofs proves it.
ClockTypeOK ==
    /\ raw \in 0..MaxTime
    /\ skew \in Skews
    /\ offset \in Int
    /\ best \in Int \cup {Never}
    /\ state \in {"opening", "in_handshake_time_sync", "in_handshake", "in_use"}
    /\ timer \in BOOLEAN
    /\ ready \in BOOLEAN
    /\ asked \in Seq(RequestType \cup {Ready})
    /\ finishing \in Nat
    /\ answers \in Seq(ResponseType \cup {Finished})
    /\ closes \in 0..MaxCloses

One(cond) == IF cond THEN 1 ELSE 0

\* A connection starts one exchange and no handler makes two of it: its one
\* request is followed by the response, that by handshake_ready or by the timer,
\* handshake_ready by handshake_finished, that by the timer, the timer by the
\* next request.  on_close ends it, unless a request or a handshake_ready is left
\* in the write buffer: the next connection sends that too, and then both go on
\* side by side, in whatever state the client takes their answers.
OneExchangeEach ==
    Len(asked) + Len(answers) + finishing + One(ready) + One(timer) <= 1 + closes

\* What clock::sync takes for the distance to the server's clock is off by no
\* more than the way there or the way back took, provided no other sync moved
\* the clock while the answer was on its way.
MeasuredWithinRoundTrip ==
    [][best' # best /\ Head(answers).under = offset =>
          LET rtt == RoundTrip(Head(answers))
              error == offset' - (ServerNow - now)
          IN  Half(rtt) - rtt <= error /\ error <= Half(rtt)]_clock_vars

\* After a sync the client's clock agrees with the server's up to the round
\* trip of that sync: what clock::now() answers once clock::sync returned true.
SyncedWithServer ==
    [][best' # best =>
          LET rtt == RoundTrip(Head(answers))
              error == now' - ServerNow
          IN  -rtt <= error /\ error <= rtt]_clock_vars
=============================================================================
