-------------------------------- MODULE Looper --------------------------------
(***************************************************************************)
(* The event loop of src/src/events/events.cpp: one thread runs loop() over *)
(* and over; the calls that touch resources come from its callbacks (io.h:  *)
(* "must be used from inside the looper"), and one other thread starts and  *)
(* stops the network: it makes an interface, which is create_timer, and     *)
(* ends it, which is request_execute(sync) and the interface's destructor.   *)
(* The callbacks of an interface take its m_mutex for the whole call or for *)
(* none of it, as a timer's and a message's do.                             *)
(*                                                                         *)
(* A resource_data is a number, so that a pointer to one that is gone can  *)
(* be told from a pointer to its successor.  Slot 0 of m_handles holds the *)
(* run signal for ever and is left out of the tables.  poll() may return   *)
(* with nothing at any time (its timeout), so the signal itself is not     *)
(* modelled.                                                               *)
(***************************************************************************)
EXTENDS Integers, Sequences

CONSTANTS
    Fds,            \* descriptors the operating system hands out
    Flags,          \* event_types
    Kinds,          \* what request_updates is called with
    Free,           \* a slot without data; a descriptor that is not watched
    Capacity,       \* slots of m_handles besides slot 0
    TimerCapacity,  \* slots of m_timer_handles
    MaxCalls, MaxStarts  \* bounds: calls of add, remove, request_updates; starts

ASSUME KindsAssumption == Kinds \subseteq {"new_events", "new_events_add", "new_events_remove"}
ASSUME CapacityAssumption == Capacity \in Nat \ {0} /\ TimerCapacity \in Nat \ {0}
ASSUME FreeAssumption ==
    /\ Free \notin {"running", "stopped"}
    /\ \A events \in SUBSET Flags : Free # events
    /\ \A d \in [data : 1..MaxCalls, fd : Fds, events : SUBSET Flags] : Free # d
ASSUME BoundsAssumption == MaxCalls \in Nat /\ MaxStarts \in Nat

Slots == 1..Capacity
Timers == 0..(TimerCapacity - 1)
Datas == 1..MaxCalls

VARIABLES
    handles,    \* m_handles: [data, fd, events] in each slot, or Free
    fd_map,     \* m_fd_map: the data each descriptor points to, 0 for none
    polled,     \* the events the poller watches each descriptor for, or Free
    updates,    \* m_updates; by is the data the handle meant when it was queued
    timers,     \* m_timer_handles: "running", "stopped" (timeout 0) or Free
    requests,   \* m_execute_requests: the timers to be stopped
    loop,       \* where the looper's thread is
    user,       \* the other thread: what it does, and the timer it has
    refused,    \* the timers stop_timer did not stop, for ever
    mutex,      \* who holds m_mutex of the interface: "free", "looper", "user"
    spent       \* calls and starts so far

vars == <<handles, fd_map, polled, updates, timers, requests, loop, user,
          refused, mutex, spent>>

\* The definitions named Faulty... are variants with a mistake the code could
\* have made; the specification does not use them.

-----------------------------------------------------------------------------
Has(table, h) == h = 0 \/ (h \in Slots /\ table[h] # Free)
LiveSlots == {h \in Slots : handles[h] # Free}
LiveData == {handles[h].data : h \in LiveSlots}
OpenFds == {handles[h].fd : h \in LiveSlots}

\* There is no looper any more, or there is one that can be trusted with nothing.
Dead == loop.at \in {"terminated", "aborted", "undefined", "stuck"}

Least(S) == CHOOSE h \in S : \A g \in S : h <= g

\* find_next_available_spot; the signal's slot 0 is never free.
FirstFree(table) ==
    LET free == {h \in DOMAIN table : table[h] = Free}
    IN  IF free = {} THEN Capacity + 1 ELSE Least(free)

Idle == [at |-> "updates", results |-> {}, run |-> 0, heard |-> 0,
         next |-> 0, due |-> {}, gone |-> {}]

Init ==
    /\ handles = [h \in Slots |-> Free]
    /\ fd_map = [fd \in Fds |-> 0]
    /\ polled = [fd \in Fds |-> Free]
    /\ updates = <<>>
    /\ timers = [t \in Timers |-> Free]
    /\ requests = <<>>
    /\ loop = Idle
    /\ user = [does |-> "idle", timer |-> 0]
    /\ refused = {}
    /\ mutex = "free"
    /\ spent = [calls |-> 0, starts |-> 0]

-----------------------------------------------------------------------------
(* process_updates holds the lock throughout; here each update is a step and *)
(* the queue is emptied after the last.  An update of a handle nobody has is *)
(* skipped; epoll refuses to add what it watches and to change what it does  *)
(* not, and the io_exception leaves loop() and ends the process.             *)

NewEvents(kind, events, flags) ==
    CASE kind \in {"add", "new_events"} -> flags
      [] kind = "new_events_add"        -> events \cup flags
      [] kind = "new_events_remove"     -> events \ flags

Refused(d, kind) == (kind = "add") # (polled[d.fd] = Free)

FaultyToWatch(e, flags) == flags
ToWatch(e, flags) == e

Known(u) == handles[u.handle] # Free

process_update(u) ==
    IF ~Known(u) THEN
        /\ loop' = [loop EXCEPT !.next = @ + 1]
        /\ UNCHANGED <<handles, polled>>
    ELSE
        LET d == handles[u.handle]
            e == NewEvents(u.kind, d.events, u.flags)
        IN  /\ handles' = [handles EXCEPT ![u.handle].events = e]
            /\ IF Refused(d, u.kind)
               THEN loop' = [loop EXCEPT !.at = "terminated"] /\ UNCHANGED polled
               ELSE /\ loop' = [loop EXCEPT !.next = @ + 1]
                    /\ polled' = [polled EXCEPT ![d.fd] = ToWatch(e, u.flags)]

ProcessUpdate ==
    /\ loop.at = "updates"
    /\ loop.next < Len(updates)
    /\ process_update(updates[loop.next + 1])
    /\ UNCHANGED <<fd_map, updates, timers, requests, user, refused, mutex, spent>>

UpdatesDone ==
    /\ loop.at = "updates"
    /\ loop.next = Len(updates)
    /\ updates' = <<>>
    /\ loop' = [loop EXCEPT !.at = "poll", !.next = 0]
    /\ UNCHANGED <<handles, fd_map, polled, timers, requests, user, refused, mutex, spent>>

\* poll, without the lock: some of the watched descriptors are ready.
Watched == {fd \in Fds : polled[fd] # Free}
Heard(fd) == IF fd \notin OpenFds THEN 0
             ELSE handles[CHOOSE h \in LiveSlots : handles[h].fd = fd].data

Poll ==
    /\ loop.at = "poll"
    /\ \E ready \in SUBSET Watched : \E revents \in [ready -> SUBSET Flags] :
          /\ \A fd \in ready : revents[fd] # {} /\ revents[fd] \subseteq polled[fd]
          /\ loop' = [loop EXCEPT !.at = "events",
                        !.results = {[fd |-> fd, revents |-> revents[fd],
                                      of |-> Heard(fd)] : fd \in ready}]
    /\ UNCHANGED <<handles, fd_map, polled, updates, timers, requests, user,
                   refused, mutex, spent>>

-----------------------------------------------------------------------------
\* process_events: the data behind the descriptor now, and the events it wants
\* now of those reported; of is the data that was watched when they were.
DataOf(d) == handles[CHOOSE h \in LiveSlots : handles[h].data = d]

Adjusted(r) ==
    IF fd_map[r.fd] \notin LiveData THEN {}
    ELSE DataOf(fd_map[r.fd]).events \cap r.revents

\* A callback begins: it may take the interface's mutex, for which it waits.
Begins == \/ UNCHANGED mutex
          \/ mutex = "free" /\ mutex' = "looper"

ProcessEvent ==
    /\ loop.at = "events"
    /\ \E r \in loop.results :
          IF Adjusted(r) = {}
          THEN loop' = [loop EXCEPT !.results = @ \ {r}] /\ UNCHANGED mutex
          ELSE /\ loop' = [loop EXCEPT !.results = @ \ {r}, !.at = "io callback",
                                      !.run = fd_map[r.fd], !.heard = r.of]
               /\ Begins
    /\ UNCHANGED <<handles, fd_map, polled, updates, timers, requests, user,
                   refused, spent>>

\* process_timers: now is read once, so the timers due are known at its start.
EventsDone ==
    /\ loop.at = "events"
    /\ loop.results = {}
    /\ \E due \in SUBSET {t \in Timers : timers[t] = "running"} :
          loop' = [loop EXCEPT !.at = "timers", !.next = 0, !.due = due]
    /\ UNCHANGED <<handles, fd_map, polled, updates, timers, requests, user,
                   refused, mutex, spent>>

\* The callback of a timer that runs on refers to an interface that is gone.
Dangles(t) == t \in refused /\ (user.does = "idle" \/ user.timer # t)

VisitTimer ==
    /\ loop.at = "timers"
    /\ loop.next \in Timers
    /\ LET t == loop.next
           due == timers[t] = "running" /\ t \in loop.due
       IN  /\ loop' = [loop EXCEPT
                         !.next = t + 1,
                         !.gone = IF timers[t] = "stopped" THEN @ \cup {t} ELSE @,
                         !.at = CASE ~due       -> @
                                  [] Dangles(t) -> "undefined"
                                  [] OTHER      -> "timer callback"]
           /\ IF due THEN Begins ELSE UNCHANGED mutex
    /\ UNCHANGED <<handles, fd_map, polled, updates, timers, requests, user,
                   refused, spent>>

TimersDone ==
    /\ loop.at = "timers"
    /\ loop.next \notin Timers
    /\ timers' = [t \in Timers |-> IF t \in loop.gone THEN Free ELSE timers[t]]
    /\ loop' = [loop EXCEPT !.at = "requests", !.next = 0, !.due = {}, !.gone = {}]
    /\ UNCHANGED <<handles, fd_map, polled, updates, requests, user, refused,
                   mutex, spent>>

-----------------------------------------------------------------------------
(* execute_requests runs what network_client::stop and network_server::stop  *)
(* queue, under the interface's mutex: stop_timer, and then m_io.stop, which *)
(* closes every socket and tells nobody.  stop_timer looks for the timer's   *)
(* handle in m_handles and throws when it is not there, which ends the       *)
(* request before the sockets are stopped.                                   *)

FaultyStopTimer(t) == timers
stop_timer(t) == [timers EXCEPT ![t] = "stopped"]

RequestRuns ==
    /\ loop.at = "requests"
    /\ requests # <<>>
    /\ mutex = "free"
    /\ Has(handles, Head(requests))
    /\ timers' = stop_timer(Head(requests))
    /\ handles' = [h \in Slots |-> Free]
    /\ fd_map' = [fd \in Fds |-> IF fd \in OpenFds THEN 0 ELSE fd_map[fd]]
    /\ polled' = [fd \in Fds |-> IF fd \in OpenFds THEN Free ELSE polled[fd]]
    /\ requests' = Tail(requests)
    /\ UNCHANGED <<updates, loop, user, refused, mutex, spent>>

RequestThrows ==
    /\ loop.at = "requests"
    /\ requests # <<>>
    /\ mutex = "free"
    /\ ~Has(handles, Head(requests))
    /\ requests' = Tail(requests)
    /\ refused' = refused \cup {Head(requests)}
    /\ UNCHANGED <<handles, fd_map, polled, updates, timers, loop, user,
                   mutex, spent>>

\* notify_all: the thread that waits finds m_execute_requests empty.
LoopEnds ==
    /\ loop.at = "requests"
    /\ requests = <<>>
    /\ loop' = Idle
    /\ user' = [user EXCEPT !.does = IF @ = "waiting" THEN "notified" ELSE @]
    /\ UNCHANGED <<handles, fd_map, polled, updates, timers, requests, refused,
                   mutex, spent>>

-----------------------------------------------------------------------------
(* What callbacks do: sockets are opened, asked for other events and stopped. *)

InCallback == loop.at \in {"io callback", "timer callback"}
Call == spent.calls < MaxCalls /\ spent' = [spent EXCEPT !.calls = @ + 1]
Others == <<timers, requests, user, refused, mutex>>

FaultyNewData(fd, flags) == [data |-> spent.calls + 1, fd |-> fd, events |-> flags]

\* The data add puts in the table: it wants no events before the next loop.
NewData(fd, flags) == [data |-> spent.calls + 1, fd |-> fd, events |-> {}]

FaultyNeverAdded(fd) == FALSE
AlreadyAdded(fd) == fd_map[fd] # 0

\* add of a descriptor that was just opened, for the events of a socket that is
\* yet to connect or of a connected one; it is refused if m_fd_map still has the
\* descriptor, and by a full table.
Add(fd, flags) ==
    /\ InCallback
    /\ Call
    /\ fd \notin OpenFds
    /\ LET h == FirstFree(handles)
       IN  IF AlreadyAdded(fd) \/ h > Capacity
           THEN UNCHANGED <<handles, fd_map, updates>>
           ELSE /\ handles' = [handles EXCEPT ![h] = NewData(fd, flags)]
                /\ fd_map' = [fd_map EXCEPT ![fd] = IF @ = 0 THEN spent.calls + 1 ELSE @]
                /\ updates' = Append(updates, [handle |-> h, kind |-> "add",
                                               flags |-> flags, by |-> spent.calls + 1])
    /\ UNCHANGED <<polled, loop>>
    /\ UNCHANGED Others

Request(h, kind, flags) ==
    /\ InCallback
    /\ Call
    /\ h \in LiveSlots
    /\ updates' = Append(updates, [handle |-> h, kind |-> kind, flags |-> flags,
                                   by |-> handles[h].data])
    /\ UNCHANGED <<handles, fd_map, polled, loop>>
    /\ UNCHANGED Others

FaultyForgotten(fd) == polled
Unwatched(fd) == [polled EXCEPT ![fd] = Free]

\* stop_internal: remove, the close, and the callback that says so, which takes
\* the interface's mutex and waits for ever when its own thread has it.  A socket
\* whose read or write met ECONNRESET, in its own callback, closed itself before:
\* remove then erases descriptor -1.
RemoveAndClose(h, reset) ==
    /\ InCallback
    /\ Call
    /\ h \in LiveSlots
    /\ reset => handles[h].data = loop.run
    /\ LET fd == handles[h].fd
       IN  /\ fd_map' = IF reset THEN fd_map ELSE [fd_map EXCEPT ![fd] = 0]
           /\ polled' = Unwatched(fd)
    /\ handles' = [handles EXCEPT ![h] = Free]
    /\ loop' = [loop EXCEPT !.at = IF mutex = "looper" THEN "stuck" ELSE @]
    /\ UNCHANGED updates
    /\ UNCHANGED Others

CallbackEnds ==
    /\ InCallback
    /\ loop' = [loop EXCEPT !.at = IF @ = "io callback" THEN "events" ELSE "timers",
                            !.run = 0, !.heard = 0]
    /\ mutex' = "free"
    /\ UNCHANGED <<handles, fd_map, polled, updates, timers, requests, user,
                   refused, spent>>

-----------------------------------------------------------------------------
(* The other thread.                                                         *)

\* start: create_timer
Start ==
    /\ user.does = "idle"
    /\ ~Dead
    /\ spent.starts < MaxStarts
    /\ \E t \in Timers : timers[t] = Free
    /\ LET t == Least({u \in Timers : timers[u] = Free})
       IN  /\ timers' = [timers EXCEPT ![t] = "running"]
           /\ user' = [does |-> "running", timer |-> t]
    /\ spent' = [spent EXCEPT !.starts = @ + 1]
    /\ UNCHANGED <<handles, fd_map, polled, updates, requests, loop, refused, mutex>>

FaultyHeldWhileWaiting == "user"
HeldWhileWaiting == "free"

\* stop: the mutex is released, request_execute queues the request and waits
Stop ==
    /\ user.does = "running"
    /\ ~Dead
    /\ mutex = "free"
    /\ mutex' = HeldWhileWaiting
    /\ requests' = Append(requests, user.timer)
    /\ user' = [user EXCEPT !.does = "waiting"]
    /\ UNCHANGED <<handles, fd_map, polled, updates, timers, loop, refused, spent>>

\* stop returns, and the interface is destroyed: ~socket_io aborts the process
\* when a socket is still open, and a callback of it must not be running.
Wakes ==
    /\ user.does = "notified"
    /\ ~Dead
    /\ mutex = "free"
    /\ user' = [does |-> "idle", timer |-> 0]
    /\ loop' = [loop EXCEPT !.at = CASE LiveSlots # {} -> "aborted"
                                     [] InCallback     -> "undefined"
                                     [] OTHER          -> @]
    /\ UNCHANGED <<handles, fd_map, polled, updates, timers, requests, refused,
                   mutex, spent>>

LooperThread ==
    \/ ProcessUpdate
    \/ UpdatesDone
    \/ Poll
    \/ ProcessEvent
    \/ EventsDone
    \/ VisitTimer
    \/ TimersDone
    \/ RequestRuns
    \/ RequestThrows
    \/ LoopEnds
    \/ \E fd \in Fds, flags \in {{}, Flags} : Add(fd, flags)
    \/ \E h \in Slots, kind \in Kinds, flag \in Flags : Request(h, kind, {flag})
    \/ \E h \in Slots, reset \in BOOLEAN : RemoveAndClose(h, reset)
    \/ CallbackEnds

Next == LooperThread \/ Start \/ Stop \/ Wakes

Spec == Init /\ [][Next]_vars

\* looper_thread runs loop() for as long as the process lives, and no callback
\* runs for ever.  The looper gives the interface's mutex back and waits for
\* milliseconds before it wants it again, so who waits for it gets it.
FairSpec == Spec /\ WF_vars(LooperThread) /\ SF_vars(Wakes)

-----------------------------------------------------------------------------
\* The type invariant of the loop; m_fd_map leads to the data of every handle.
TypeOK ==
    /\ handles \in [Slots -> [data : Datas, fd : Fds, events : SUBSET Flags] \cup {Free}]
    /\ fd_map \in [Fds -> Datas \cup {0}]
    /\ polled \in [Fds -> (SUBSET Flags) \cup {Free}]
    /\ timers \in [Timers -> {"running", "stopped", Free}]
    /\ refused \subseteq Timers
    /\ \A h \in LiveSlots : fd_map[handles[h].fd] = handles[h].data

\* process_events calls a callback only with events that were reported for its
\* own resource, though sockets are closed and opened between the poll and the
\* call and descriptors and slots are reused; and m_fd_map never leads it to
\* data that is gone.
HeardIsForMe ==
    /\ loop.at = "io callback" => loop.run = loop.heard
    /\ \A r \in loop.results : fd_map[r.fd] \in LiveData \cup {0}

\* Whatever callbacks asked for while events were handed out, the poller
\* watches a descriptor for what the events mask of its data says, and nothing
\* else is watched.
PollerAgrees ==
    \A fd \in Fds : polled[fd] # Free =>
        \E h \in LiveSlots : handles[h].fd = fd
                             /\ (polled[fd] = handles[h].events \/ loop.at = "terminated")

\* The loop dies in process_update only over a request made for a resource that
\* was removed and whose slot another one has taken.
DiesOnlyOfReuse ==
    loop.at = "terminated" =>
        \E i \in 1..(loop.next + 1) :
            /\ updates[i].handle \in LiveSlots
            /\ handles[updates[i].handle].data # updates[i].by

\* A stop that returned leaves nothing behind: no socket in the tables, nothing
\* for the poller to watch, and no timer to call an interface that is gone.  The
\* exception is a stop whose request stop_timer, which looks in the wrong table,
\* threw out of: its timer runs on, and the destructor may abort the process.
StopLeavesNothing ==
    /\ loop.at \in {"aborted", "undefined"} => refused # {}
    /\ user.does = "idle" /\ ~Dead =>
          /\ LiveSlots = {}
          /\ Watched = {}
          /\ \A t \in Timers : timers[t] = "running" => t \in refused

\* A stop returns: stop waits for the loop without the interface's mutex, the
\* loop comes to its request, and nothing else keeps it, while the process lives
\* and the looper has not closed a socket with the mutex in its own hands.
StopReturns ==
    user.does \in {"waiting", "notified"} ~> user.does = "idle" \/ Dead
=============================================================================
