----------------------------- MODULE LooperProofs -----------------------------
(***************************************************************************)
(* Proofs about the event loop: what Looper.tla's run checks for two        *)
(* descriptors, two slots and two timers holds for any number of them, of   *)
(* calls and of starts.                                                     *)
(***************************************************************************)
EXTENDS Looper, WellFoundedInduction, TLAPS

(* The inductive invariant, in parts.                                       *)

Resource == [data : Datas, fd : Fds, events : SUBSET Flags]
Result == [fd : Fds, revents : SUBSET Flags, of : Datas \cup {0}]
UpdateOf == [handle : Slots, kind : Kinds \cup {"add"}, flags : SUBSET Flags, by : Datas]
Places == {"updates", "poll", "events", "io callback", "timers", "timer callback", "requests"}
Ends == {"terminated", "aborted", "undefined", "stuck"}

Loop == [at : Places \cup Ends, results : SUBSET Result, run : Datas \cup {0},
         heard : Datas \cup {0}, next : Nat, due : SUBSET Timers, gone : SUBSET Timers]
User == [does : {"idle", "running", "waiting", "notified"}, timer : Timers]
Spent == [calls : 0..MaxCalls, starts : Nat]

\* The types of all variables.
Types ==
    /\ handles \in [Slots -> Resource \cup {Free}]
    /\ fd_map \in [Fds -> Datas \cup {0}]
    /\ polled \in [Fds -> (SUBSET Flags) \cup {Free}]
    /\ updates \in Seq(UpdateOf)
    /\ timers \in [Timers -> {"running", "stopped", Free}]
    /\ requests \in Seq(Timers)
    /\ loop \in Loop
    /\ user \in User
    /\ refused \subseteq Timers
    /\ mutex \in {"free", "looper", "user"}
    /\ spent \in Spent

Live(h) == handles[h] # Free

\* The slots, m_fd_map and the poller: data are used once, m_fd_map leads from
\* the descriptor of a resource to its data and from no other, and the poller
\* watches only descriptors of resources.
Tables ==
    /\ \A h \in Slots : Live(h) => /\ fd_map[handles[h].fd] = handles[h].data
                                   /\ handles[h].data <= spent.calls
    /\ \A h, g \in Slots : Live(h) /\ Live(g) /\ handles[h].data = handles[g].data => h = g
    /\ \A h \in Slots, fd \in Fds :
          Live(h) /\ fd_map[fd] = handles[h].data => handles[h].fd = fd
    /\ \A fd \in Fds : fd_map[fd] <= spent.calls
    /\ \A fd \in Fds : polled[fd] # Free =>
          \E h \in Slots : Live(h) /\ handles[h].fd = fd
                           /\ (polled[fd] = handles[h].events \/ loop.at = "terminated")

\* What was heard and is still to be handed out: a resource that took over a
\* descriptor since wants no events yet.
Hearing ==
    /\ loop.results # {} => loop.at \in {"events", "io callback"} \cup Ends
    /\ \A r, s \in loop.results : r.fd = s.fd => r = s
    /\ \A r \in loop.results :
          /\ fd_map[r.fd] = 0 \/ \E h \in Slots : Live(h) /\ handles[h].data = fd_map[r.fd]
          /\ \A h \in Slots : Live(h) /\ handles[h].fd = r.fd =>
                handles[h].data = r.of \/ handles[h].events = {}
    /\ loop.at = "io callback" =>
          /\ loop.run = loop.heard /\ loop.run \in 1..spent.calls
          /\ \A r \in loop.results : fd_map[r.fd] # loop.run
    /\ loop.at \in Places \ {"io callback"} => loop.run = 0

\* How many updates process_updates has done.
Done == IF loop.at \in {"updates", "terminated"} THEN loop.next ELSE 0

AddPending(h) ==
    \E i \in (Done + 1)..Len(updates) :
        updates[i].kind = "add" /\ updates[i].handle = h /\ updates[i].by = handles[h].data

MixedUp(h) == \E j \in 1..Done : updates[j].handle = h /\ updates[j].by # handles[h].data

\* The queue of updates: data are added before they are changed, and the
\* poller watches what was added, but where a slot was reused.
Queue ==
    /\ Done <= Len(updates)
    /\ loop.at = "terminated" => loop.next < Len(updates)
    /\ \A i \in 1..Len(updates) : updates[i].by <= spent.calls
    /\ \A i, j \in 1..Len(updates) :
          updates[i].kind = "add" /\ updates[j].by = updates[i].by => i <= j
    /\ \A h \in Slots : Live(h) => AddPending(h) \/ polled[handles[h].fd] # Free
    /\ \A h \in Slots : Live(h) /\ AddPending(h) /\ polled[handles[h].fd] # Free => MixedUp(h)

\* The thread that starts and stops: a timer runs for the interface or was
\* refused, and a stop that was not refused has closed every socket.
Stops ==
    /\ requests # <<>> => user.does = "waiting" /\ requests = <<user.timer>>
    /\ \A t \in Timers : timers[t] = "running" =>
          t \in refused \/ (user.does # "idle" /\ user.timer = t)
    /\ user.does = "notified" \/ (user.does = "waiting" /\ requests = <<>>) =>
          /\ user.timer \in refused \/ timers[user.timer] # "running"
          /\ refused = {} => \A h \in Slots : ~Live(h)
    /\ user.does = "waiting" /\ requests = <<>> => loop.at = "requests"
    /\ user.does = "notified" /\ refused = {} => ~InCallback
    /\ user.does = "idle" /\ ~Dead => ~InCallback /\ \A h \in Slots : ~Live(h)
    /\ loop.at \in {"timers", "timer callback"} =>
          \A t \in loop.gone : timers[t] = "stopped"
    /\ loop.at \in Places \ {"timers", "timer callback"} => loop.gone = {}
    /\ loop.at \in {"aborted", "undefined"} => refused # {}

IInv ==
    /\ Types /\ Tables /\ Hearing
    /\ loop.at \notin {"aborted", "undefined", "stuck"} => Queue
    /\ DiesOnlyOfReuse
    /\ Stops

-----------------------------------------------------------------------------
(* Helpers.                                                                 *)

\* Least names a member of the set: a set of numbers has a least one.
LEMMA LeastIn == ASSUME NEW S \in SUBSET Nat, S # {} PROVE Least(S) \in S
  <1> DEFINE R == {ss \in Nat \X Nat : ss[1] < ss[2]}
  <1>1. IsWellFoundedOn(R, Nat)
    BY NatLessThanWellFounded DEF OpToRel
  <1>2. PICK x \in S : \A y \in S : ~(<<y, x>> \in R)
    <2> HIDE DEF R
    <2> QED
      BY <1>1, WFMin
  <1>3. \A y \in S : x <= y
    <2> SUFFICES ASSUME NEW y \in S PROVE x <= y
      OBVIOUS
    <2>1. x \in Nat /\ y \in Nat /\ ~(<<y, x>> \in R)
      BY <1>2
    <2>2. ~(y < x)
      BY <2>1
    <2> QED
      BY <2>1, <2>2
  <1> QED
    BY <1>3 DEF Least

\* find_next_available_spot finds a slot that is free.
LEMMA FirstFreeIsFree ==
    ASSUME handles \in [Slots -> Resource \cup {Free}], FirstFree(handles) <= Capacity
    PROVE  FirstFree(handles) \in Slots /\ handles[FirstFree(handles)] = Free
  <1> DEFINE free == {h \in Slots : handles[h] = Free}
  <1>1. DOMAIN handles = Slots
    OBVIOUS
  <1>2. free # {}
    BY <1>1, CapacityAssumption DEF FirstFree
  <1>3. FirstFree(handles) = Least(free)
    BY <1>1, <1>2 DEF FirstFree
  <1>4. Least(free) \in free
    BY <1>2, LeastIn, CapacityAssumption DEF Slots
  <1> QED
    BY <1>3, <1>4

\* find_next_available_spot answers a slot, or one more than there are.
LEMMA FirstFreeType ==
    ASSUME handles \in [Slots -> Resource \cup {Free}]
    PROVE  FirstFree(handles) \in 1..(Capacity + 1)
  <1> DEFINE free == {h \in Slots : handles[h] = Free}
  <1>1. DOMAIN handles = Slots
    OBVIOUS
  <1>2. free # {} => Least(free) \in Slots
    BY LeastIn, CapacityAssumption DEF Slots
  <1> QED
    BY <1>1, <1>2, CapacityAssumption DEF FirstFree, Slots

\* create_timer finds a timer slot that is free when there is one.
LEMMA StartTimer ==
    ASSUME \E t \in Timers : timers[t] = Free
    PROVE  LET t == Least({u \in Timers : timers[u] = Free})
           IN  t \in Timers /\ timers[t] = Free
  BY LeastIn, CapacityAssumption DEF Timers

\* A free slot is told from every resource, events mask and timer state.
LEMMA FreeFacts ==
    /\ Free \notin Resource
    /\ Free \notin SUBSET Flags
    /\ Free # "running" /\ Free # "stopped"
  BY FreeAssumption DEF Resource, Datas

-----------------------------------------------------------------------------
\* Every step of Next keeps the types.
LEMMA TypesStep == Types /\ [Next]_vars => Types'
  <1> SUFFICES ASSUME Types, [Next]_vars PROVE Types'
    OBVIOUS
  <1> USE DEF Types
  <1>1. CASE UNCHANGED vars
    BY <1>1 DEF vars
  <1>2. CASE ProcessUpdate
    <2> DEFINE u == updates[loop.next + 1]
               d == handles[u.handle]
               e == NewEvents(u.kind, d.events, u.flags)
    <2>1. u \in UpdateOf
      BY <1>2 DEF ProcessUpdate, Loop
    <2>2. CASE ~Known(u)
      BY <1>2, <2>2 DEF ProcessUpdate, process_update, Loop
    <2>3. CASE Known(u)
      <3>1. u.handle \in Slots /\ d \in Resource /\ u.flags \in SUBSET Flags
            /\ u.kind \in {"add", "new_events", "new_events_add", "new_events_remove"}
        BY <2>1, <2>3, KindsAssumption DEF Known, UpdateOf
      <3>2. e \in SUBSET Flags
        BY <3>1 DEF NewEvents, Resource
      <3>3. handles' = [handles EXCEPT ![u.handle].events = e]
            /\ loop' \in {[loop EXCEPT !.at = "terminated"], [loop EXCEPT !.next = @ + 1]}
            /\ polled' \in {polled, [polled EXCEPT ![d.fd] = e]}
        BY <1>2, <2>3 DEF ProcessUpdate, process_update, ToWatch
      <3>4. handles' \in [Slots -> Resource \cup {Free}]
        BY <3>1, <3>2, <3>3 DEF Resource
      <3>5. polled' \in [Fds -> (SUBSET Flags) \cup {Free}]
        BY <3>1, <3>2, <3>3 DEF Resource
      <3> QED
        <4>1. loop' \in Loop
          <5>1. CASE loop' = [loop EXCEPT !.at = "terminated"]
            BY <5>1 DEF Loop, Ends
          <5>2. CASE loop' = [loop EXCEPT !.next = @ + 1]
            <6>1. loop \in Loop /\ loop.next + 1 \in Nat
              BY DEF Loop
            <6> QED
              BY <5>2, <6>1 DEF Loop
          <5> QED
            BY <3>3, <5>1, <5>2
        <4> QED
          BY <1>2, <3>4, <3>5, <4>1 DEF ProcessUpdate
    <2> QED
      BY <2>2, <2>3
  <1>3. CASE UpdatesDone
    <2>1. loop' \in Loop
      BY <1>3 DEF UpdatesDone, Loop, Places
    <2>2. updates' \in Seq(UpdateOf)
      BY <1>3 DEF UpdatesDone
    <2> QED
      BY <1>3, <2>1, <2>2 DEF UpdatesDone
  <1>4. CASE Poll
    <2>1. PICK ready \in SUBSET Watched : \E revents \in [ready -> SUBSET Flags] :
             loop' = [loop EXCEPT !.at = "events",
                        !.results = {[fd |-> fd, revents |-> revents[fd],
                                      of |-> Heard(fd)] : fd \in ready}]
      BY <1>4 DEF Poll
    <2>2. \A fd \in Fds : Heard(fd) \in Datas \cup {0}
      BY DEF Heard, OpenFds, LiveSlots, Resource
    <2>3. loop'.results \in SUBSET Result
      BY <2>1, <2>2 DEF Result, Watched
    <2> QED
      BY <1>4, <2>1, <2>3 DEF Poll, Loop, Places
  <1>5. CASE ProcessEvent
    <2>1. loop' \in Loop
      <3>1. PICK r \in loop.results :
               \/ loop' = [loop EXCEPT !.results = @ \ {r}]
               \/ loop' = [loop EXCEPT !.results = @ \ {r}, !.at = "io callback",
                                      !.run = fd_map[r.fd], !.heard = r.of]
        BY <1>5 DEF ProcessEvent
      <3>2. /\ loop.results \ {r} \in SUBSET Result
            /\ fd_map[r.fd] \in Datas \cup {0} /\ r.of \in Datas \cup {0}
        BY DEF Loop, Result
      <3> QED
        BY <3>1, <3>2 DEF Loop, Places
    <2> QED
      BY <1>5, <2>1 DEF ProcessEvent, Begins
  <1>6. CASE EventsDone
    <2>1. loop' \in Loop
      <3>1. PICK due \in SUBSET Timers :
               loop' = [loop EXCEPT !.at = "timers", !.next = 0, !.due = due]
        BY <1>6 DEF EventsDone
      <3> QED
        BY <3>1 DEF Loop, Places
    <2> QED
      BY <1>6, <2>1 DEF EventsDone
  <1>7. CASE VisitTimer
    <2>1. loop' \in Loop
      <3> DEFINE t == loop.next
                 due == timers[t] = "running" /\ t \in loop.due
                 gone == IF timers[t] = "stopped" THEN loop.gone \cup {t} ELSE loop.gone
                 at == CASE ~due       -> loop.at
                         [] Dangles(t) -> "undefined"
                         [] OTHER      -> "timer callback"
      <3>1. loop' = [loop EXCEPT !.next = t + 1, !.gone = gone, !.at = at]
        BY <1>7 DEF VisitTimer
      <3>2. t \in Timers /\ t + 1 \in Nat
        BY <1>7, CapacityAssumption DEF VisitTimer, Timers
      <3>3. gone \in SUBSET Timers
        BY <3>2 DEF Loop
      <3>4. at \in Places \cup Ends
        BY DEF Loop, Places, Ends
      <3> HIDE DEF gone, at
      <3> QED
        BY <3>1, <3>2, <3>3, <3>4 DEF Loop
    <2> QED
      BY <1>7, <2>1 DEF VisitTimer, Begins
  <1>8. CASE TimersDone
    BY <1>8 DEF TimersDone, Loop, Places
  <1>9. CASE RequestRuns
    <2>1. timers' \in [Timers -> {"running", "stopped", Free}]
      BY <1>9 DEF RequestRuns, stop_timer
    <2>2. fd_map' \in [Fds -> Datas \cup {0}] /\ polled' \in [Fds -> (SUBSET Flags) \cup {Free}]
      BY <1>9 DEF RequestRuns
    <2>3. handles' \in [Slots -> Resource \cup {Free}]
      BY <1>9 DEF RequestRuns
    <2>4. requests' \in Seq(Timers)
      <3>1. requests # <<>> /\ requests' = Tail(requests)
        BY <1>9 DEF RequestRuns
      <3> QED
        BY <3>1
    <2> QED
      BY <1>9, <2>1, <2>2, <2>3, <2>4 DEF RequestRuns
  <1>10. CASE RequestThrows
    BY <1>10 DEF RequestThrows
  <1>11. CASE LoopEnds
    BY <1>11 DEF LoopEnds, Idle, Loop, Places, User
  <1>12. ASSUME NEW fd \in Fds, NEW flags \in {{}, Flags}, Add(fd, flags) PROVE Types'
    <2> DEFINE h == FirstFree(handles)
    <2>1. spent' \in Spent /\ spent.calls + 1 \in Datas
      BY <1>12, BoundsAssumption DEF Add, Call, Datas, Spent
    <2>2. CASE AlreadyAdded(fd) \/ h > Capacity
      BY <1>12, <2>1, <2>2 DEF Add, Others
    <2>3. CASE ~(AlreadyAdded(fd) \/ h > Capacity)
      <3>1. h \in Slots
        BY <2>3, FirstFreeIsFree, FirstFreeType, CapacityAssumption
      <3>2. NewData(fd, flags) \in Resource
        BY <2>1 DEF NewData, Resource
      <3>3. [handle |-> h, kind |-> "add", flags |-> flags, by |-> spent.calls + 1] \in UpdateOf
        BY <2>1, <3>1 DEF UpdateOf
      <3> QED
        <4>1. handles' \in [Slots -> Resource \cup {Free}]
          BY <1>12, <2>3, <3>1, <3>2 DEF Add
        <4>2. fd_map' \in [Fds -> Datas \cup {0}]
          BY <1>12, <2>1, <2>3 DEF Add
        <4>3. updates' \in Seq(UpdateOf)
          <5>1. updates' = Append(updates, [handle |-> h, kind |-> "add",
                                            flags |-> flags, by |-> spent.calls + 1])
            BY <1>12, <2>3 DEF Add
          <5> QED
            BY <3>3, <5>1
        <4> QED
          BY <1>12, <2>1, <4>1, <4>2, <4>3 DEF Add, Others
    <2> QED
      BY <2>2, <2>3
  <1>13. ASSUME NEW h \in Slots, NEW kind \in Kinds, NEW flag \in Flags,
                Request(h, kind, {flag})
         PROVE  Types'
    <2>1. [handle |-> h, kind |-> kind, flags |-> {flag}, by |-> handles[h].data] \in UpdateOf
      BY <1>13 DEF Request, LiveSlots, UpdateOf, Resource
    <2> QED
      BY <1>13, <2>1, BoundsAssumption DEF Request, Call, Others, Spent
  <1>14. ASSUME NEW h \in Slots, NEW reset \in BOOLEAN, RemoveAndClose(h, reset) PROVE Types'
    <2>1. handles[h] \in Resource
      BY <1>14 DEF RemoveAndClose, LiveSlots
    <2>2. /\ fd_map' \in [Fds -> Datas \cup {0}]
          /\ polled' \in [Fds -> (SUBSET Flags) \cup {Free}]
          /\ handles' \in [Slots -> Resource \cup {Free}]
      <3>1. handles[h].fd \in Fds
        BY <2>1 DEF Resource
      <3>2. fd_map' \in {fd_map, [fd_map EXCEPT ![handles[h].fd] = 0]}
        BY <1>14 DEF RemoveAndClose
      <3>3. polled' = [polled EXCEPT ![handles[h].fd] = Free]
        BY <1>14 DEF RemoveAndClose, Unwatched
      <3>4. handles' = [handles EXCEPT ![h] = Free]
        BY <1>14 DEF RemoveAndClose
      <3>5. fd_map' \in [Fds -> Datas \cup {0}]
        BY <3>1, <3>2
      <3>6. polled' \in [Fds -> (SUBSET Flags) \cup {Free}]
        BY <3>1, <3>3
      <3>7. handles' \in [Slots -> Resource \cup {Free}]
        BY <3>4
      <3> QED
        BY <3>5, <3>6, <3>7
    <2>3. loop' \in Loop
      BY <1>14 DEF RemoveAndClose, Loop, Ends
    <2>4. spent' \in Spent
      BY <1>14, BoundsAssumption DEF RemoveAndClose, Call, Spent
    <2> QED
      BY <1>14, <2>2, <2>3, <2>4 DEF RemoveAndClose, Others
  <1>15. CASE CallbackEnds
    BY <1>15 DEF CallbackEnds, Loop, Places, InCallback
  <1>16. CASE Start
    BY <1>16, StartTimer DEF Start, User, Spent
  <1>17. CASE Stop
    <2>1. user' \in User
      BY <1>17 DEF Stop, User
    <2>2. requests' \in Seq(Timers)
      <3>1. user.timer \in Timers /\ requests' = Append(requests, user.timer)
        BY <1>17 DEF Stop, User
      <3> QED
        BY <3>1
    <2> QED
      BY <1>17, <2>1, <2>2 DEF Stop, HeldWhileWaiting
  <1>18. CASE Wakes
    <2>1. loop' \in Loop
      BY <1>18 DEF Wakes, Loop, Ends
    <2>2. user' \in User
      BY <1>18, CapacityAssumption DEF Wakes, User, Timers
    <2> QED
      BY <1>18, <2>1, <2>2 DEF Wakes
  <1> QED
    BY <1>1, <1>2, <1>3, <1>4, <1>5, <1>6, <1>7, <1>8, <1>9, <1>10, <1>11, <1>12, <1>13,
       <1>14, <1>15, <1>16, <1>17, <1>18 DEF Next, LooperThread

-----------------------------------------------------------------------------
(* The tables.                                                              *)

\* A step that leaves the tables and the poller alone keeps Tables.
LEMMA TablesSame ==
    ASSUME Types, Types', Tables, UNCHANGED <<handles, fd_map, polled>>,
           spent.calls <= spent'.calls, loop.at = "terminated" => loop'.at = "terminated"
    PROVE  Tables'
  <1>1. \A h \in Slots : Live(h) => handles[h] \in Resource
    BY DEF Types, Live
  <1>2. spent.calls \in Nat /\ spent'.calls \in Nat
    BY DEF Types, Spent
  <1>3. \A h \in Slots : Live(h)' <=> Live(h)
    BY DEF Live
  <1>4. \A h \in Slots : Live(h) => handles[h].data <= spent'.calls
    BY <1>1, <1>2 DEF Tables, Resource, Datas
  <1>5. \A fd \in Fds : fd_map[fd] <= spent'.calls
    BY <1>2 DEF Tables, Types, Datas
  <1> QED
    BY <1>3, <1>4, <1>5 DEF Tables

\* process_update changes the mask of a resource and what the poller watches
\* its descriptor for together, or neither of both when the poller refuses.
LEMMA TablesProcessUpdate ==
    ASSUME Types, Tables, ProcessUpdate PROVE Tables'
  <1> DEFINE u == updates[loop.next + 1]
             d == handles[u.handle]
             e == NewEvents(u.kind, d.events, u.flags)
  <1>0. u \in UpdateOf
    BY DEF ProcessUpdate, Types, Loop
  <1>1. /\ u.handle \in Slots
        /\ UNCHANGED <<fd_map, spent>>
    BY <1>0 DEF ProcessUpdate, UpdateOf
  <1>2. CASE ~Known(u)
    BY <1>2, TablesSame, TypesStep DEF ProcessUpdate, process_update, Next, LooperThread, Types, Spent, Loop
  <1>3. CASE Known(u)
    <2>1. /\ handles' = [handles EXCEPT ![u.handle].events = e]
          /\ \/ loop'.at = "terminated" /\ polled' = polled
             \/ loop'.at = "updates" /\ polled' = [polled EXCEPT ![d.fd] = e]
      BY <1>3 DEF ProcessUpdate, process_update, ToWatch, Types, Loop
    <2>2. d \in Resource
      BY <1>1, <1>3 DEF Known, Types
    <2>3. \A h \in Slots :
             /\ Live(h)' <=> Live(h)
             /\ Live(h) => handles[h] \in Resource
             /\ Live(h) => /\ handles'[h].data = handles[h].data
                           /\ handles'[h].fd = handles[h].fd
                           /\ h # u.handle => handles'[h].events = handles[h].events
      <3>1. [d EXCEPT !.events = e] # Free
        <4>1. e \in SUBSET Flags
          BY <1>0, <2>2, KindsAssumption DEF NewEvents, UpdateOf, Resource
        <4>2. [d EXCEPT !.events = e] \in Resource
          BY <2>2, <4>1 DEF Resource
        <4> QED
          BY <4>2, FreeFacts
      <3> QED
        BY <1>1, <1>3, <2>1, <2>2, <3>1 DEF Live, Known, Types, Resource
    <2>4. handles'[u.handle].events = e /\ Live(u.handle)
      BY <1>1, <1>3, <2>1, <2>2 DEF Live, Known, Types, Resource
    <2>5. \A fd \in Fds : polled'[fd] # Free =>
             \E h \in Slots : Live(h)' /\ handles'[h].fd = fd
                              /\ (polled'[fd] = handles'[h].events \/ loop'.at = "terminated")
      <3> SUFFICES ASSUME NEW fd \in Fds, polled'[fd] # Free
                   PROVE  \E h \in Slots : Live(h)' /\ handles'[h].fd = fd
                              /\ (polled'[fd] = handles'[h].events \/ loop'.at = "terminated")
        OBVIOUS
      <3>1. CASE loop'.at = "terminated" /\ polled' = polled
        BY <2>3, <3>1 DEF Tables
      <3>2. CASE loop'.at = "updates" /\ polled' = [polled EXCEPT ![d.fd] = e]
        <4>1. CASE fd = d.fd
          BY <1>1, <2>2, <2>3, <2>4, <3>2, <4>1 DEF Types
        <4>2. CASE fd # d.fd
          <5>1. polled[fd] # Free /\ polled'[fd] = polled[fd]
            BY <3>2, <4>2 DEF Types
          <5>2. loop.at # "terminated"
            BY DEF ProcessUpdate
          <5> QED
            BY <2>3, <4>2, <5>1, <5>2 DEF Tables
        <4> QED
          BY <4>1, <4>2
      <3> QED
        BY <2>1, <3>1, <3>2
    <2> QED
      BY <1>1, <2>3, <2>5 DEF Tables
  <1> QED
    BY <1>2, <1>3

\* m_io.stop empties slots, m_fd_map and poller of everything that was open.
LEMMA TablesRequestRuns ==
    ASSUME Types, Types', Tables, RequestRuns PROVE Tables'
  <1>1. \A h \in Slots : ~Live(h)'
    BY DEF RequestRuns, Live
  <1>2. \A fd \in Fds : polled'[fd] = Free
    <2> SUFFICES ASSUME NEW fd \in Fds, fd \notin OpenFds PROVE polled[fd] = Free
      BY DEF RequestRuns
    <2> QED
      BY DEF Tables, OpenFds, LiveSlots, Live
  <1>3. \A fd \in Fds : fd_map'[fd] <= spent'.calls
    BY DEF RequestRuns, Tables, Types, Spent
  <1> QED
    BY <1>1, <1>2, <1>3 DEF Tables

\* add links a free slot and a descriptor nothing in m_fd_map has.
LEMMA TablesAdd ==
    ASSUME Types, Types', Tables, NEW fd \in Fds, NEW flags \in {{}, Flags}, Add(fd, flags)
    PROVE  Tables'
  <1> DEFINE n == spent.calls + 1
  <1>0. PICK h : h = FirstFree(handles)
    OBVIOUS
  <1>1. /\ loop' = loop /\ polled' = polled
        /\ spent'.calls = n /\ spent.calls \in Nat /\ n \in Nat
    BY DEF Add, Call, Types, Spent
  <1>2. CASE AlreadyAdded(fd) \/ h > Capacity
    BY <1>0, <1>1, <1>2, TablesSame DEF Add
  <1>3. CASE ~(AlreadyAdded(fd) \/ h > Capacity)
    <2>1. h \in Slots /\ handles[h] = Free /\ fd_map[fd] = 0
      BY <1>0, <1>3, FirstFreeIsFree, FirstFreeType, CapacityAssumption DEF Types, AlreadyAdded
    <2>2. /\ handles' = [handles EXCEPT ![h] = NewData(fd, flags)]
          /\ fd_map' = [fd_map EXCEPT ![fd] = n]
      BY <1>0, <1>3, <2>1 DEF Add
    <2>3. handles'[h].data = n /\ handles'[h].fd = fd /\ Live(h)'
      <3>1. handles'[h] = NewData(fd, flags)
        BY <2>1, <2>2 DEF Types
      <3>2. NewData(fd, flags) \in Resource
        BY <1>1 DEF NewData, Resource, Types, Spent, Datas
      <3>3. handles'[h] # Free
        BY <3>1, <3>2, FreeFacts
      <3> QED
        BY <3>1, <3>3 DEF NewData, Live
    <2>4. \A g \in Slots \ {h} : handles'[g] = handles[g] /\ (Live(g)' <=> Live(g))
      BY <2>1, <2>2 DEF Live, Types
    <2>5. \A g \in Slots : Live(g) => handles[g] \in Resource /\ g # h
      BY <2>1 DEF Live, Types
    <2>6. \A g \in Slots : Live(g) => handles[g].fd # fd
      BY DEF Add, OpenFds, LiveSlots, Live
    <2>7. /\ fd_map'[fd] = n
          /\ \A f \in Fds \ {fd} : fd_map'[f] = fd_map[f]
          /\ \A f \in Fds : fd_map[f] \in Nat
      BY <2>2 DEF Types, Datas
    <2>8. \A g \in Slots : Live(g) => handles[g].data \in Nat /\ handles[g].data < n
      BY <1>1, <2>5 DEF Tables, Resource, Datas
    <2>9. \A f \in Fds : fd_map[f] < n
      BY <1>1, <2>7 DEF Tables
    <2>10. \A g \in Slots : Live(g)' => /\ fd_map'[handles'[g].fd] = handles'[g].data
                                         /\ handles'[g].data <= spent'.calls
      BY <1>1, <2>1, <2>3, <2>4, <2>5, <2>6, <2>7, <2>8 DEF Tables, Resource
    <2>11. \A g, k \in Slots : Live(g)' /\ Live(k)' /\ handles'[g].data = handles'[k].data => g = k
      BY <1>1, <2>3, <2>4, <2>8 DEF Tables
    <2>12. \A g \in Slots, f \in Fds :
              Live(g)' /\ fd_map'[f] = handles'[g].data => handles'[g].fd = f
      BY <1>1, <2>3, <2>4, <2>7, <2>8, <2>9 DEF Tables
    <2>13. \A f \in Fds : fd_map'[f] <= spent'.calls
      BY <1>1, <2>7, <2>9
    <2>14. \A f \in Fds : polled'[f] # Free =>
              \E g \in Slots : Live(g)' /\ handles'[g].fd = f
                              /\ (polled'[f] = handles'[g].events \/ loop'.at = "terminated")
      BY <1>1, <2>4, <2>5 DEF Tables
    <2> QED
      BY <2>10, <2>11, <2>12, <2>13, <2>14 DEF Tables
  <1> QED
    BY <1>2, <1>3

\* remove unlinks the descriptor of the slot it frees, but after a reset, where
\* m_fd_map keeps a number that no resource has any more.
LEMMA TablesRemove ==
    ASSUME Types, Types', Tables, NEW h \in Slots, NEW reset \in BOOLEAN, RemoveAndClose(h, reset)
    PROVE  Tables'
  <1> DEFINE fd == handles[h].fd
  <1>1. /\ handles' = [handles EXCEPT ![h] = Free]
        /\ fd_map' \in {fd_map, [fd_map EXCEPT ![fd] = 0]}
        /\ polled' = [polled EXCEPT ![fd] = Free]
        /\ Live(h)
    BY DEF RemoveAndClose, Unwatched, LiveSlots, Live
  <1>2. fd \in Fds /\ handles[h] \in Resource
    BY <1>1 DEF Types, Resource, Live
  <1>3. spent'.calls = spent.calls + 1 /\ spent.calls \in Nat
    BY DEF RemoveAndClose, Call, Types, Spent
  <1>4. ~Live(h)' /\ \A g \in Slots \ {h} : handles'[g] = handles[g] /\ (Live(g)' <=> Live(g))
    BY <1>1 DEF Types, Live
  <1>5. \A g \in Slots : Live(g) => handles[g] \in Resource
    BY DEF Types, Live
  <1>6. \A g \in Slots \ {h} : Live(g) => handles[g].fd # fd
    BY <1>1, <1>5 DEF Tables
  <1>7. \A f \in Fds :
           /\ f # fd => fd_map'[f] = fd_map[f] /\ polled'[f] = polled[f]
           /\ fd_map'[f] \in {0, fd_map[f]}
           /\ fd_map[f] \in Nat
    <2>1. CASE fd_map' = fd_map
      BY <1>1, <1>2, <2>1 DEF Types, Datas
    <2>2. CASE fd_map' = [fd_map EXCEPT ![fd] = 0]
      BY <1>1, <1>2, <2>2 DEF Types, Datas
    <2> QED
      BY <1>1, <2>1, <2>2
  <1>8. polled'[fd] = Free
    BY <1>1, <1>2 DEF Types
  <1>9. \A g \in Slots : Live(g)' => /\ fd_map'[handles'[g].fd] = handles'[g].data
                                      /\ handles'[g].data <= spent'.calls
    BY <1>3, <1>4, <1>5, <1>6, <1>7 DEF Tables, Resource, Datas
  <1>10. \A g, k \in Slots : Live(g)' /\ Live(k)' /\ handles'[g].data = handles'[k].data => g = k
    BY <1>4 DEF Tables
  <1>11. \A g \in Slots, f \in Fds :
            Live(g)' /\ fd_map'[f] = handles'[g].data => handles'[g].fd = f
    <2> SUFFICES ASSUME NEW g \in Slots, NEW f \in Fds, Live(g)', fd_map'[f] = handles'[g].data
                 PROVE  handles'[g].fd = f
      OBVIOUS
    <2>1. g # h /\ handles'[g] = handles[g] /\ Live(g)
      BY <1>4
    <2>2. handles[g].data # 0
      BY <1>5, <2>1 DEF Resource, Datas
    <2>3. fd_map[f] = handles[g].data
      <3>1. fd_map'[f] \in {0, fd_map[f]}
        BY <1>7
      <3> QED
        BY <2>1, <2>2, <3>1
    <2> QED
      BY <2>1, <2>3 DEF Tables
  <1>12. \A f \in Fds : fd_map'[f] <= spent'.calls
    <2> SUFFICES ASSUME NEW f \in Fds PROVE fd_map'[f] <= spent'.calls
      OBVIOUS
    <2>1. fd_map'[f] \in {0, fd_map[f]} /\ fd_map[f] \in Nat
      BY <1>7
    <2>2. fd_map[f] <= spent.calls
      BY DEF Tables
    <2> QED
      BY <1>3, <2>1, <2>2
  <1>13. \A f \in Fds : polled'[f] # Free =>
            \E g \in Slots : Live(g)' /\ handles'[g].fd = f
                            /\ (polled'[f] = handles'[g].events \/ loop'.at = "terminated")
    <2> SUFFICES ASSUME NEW f \in Fds, polled'[f] # Free
                 PROVE  \E g \in Slots : Live(g)' /\ handles'[g].fd = f
                            /\ (polled'[f] = handles'[g].events \/ loop'.at = "terminated")
      OBVIOUS
    <2>1. f # fd /\ polled[f] # Free /\ polled'[f] = polled[f]
      BY <1>7, <1>8
    <2>2. loop.at # "terminated"
      BY DEF RemoveAndClose, InCallback
    <2> QED
      BY <1>4, <2>1, <2>2 DEF Tables
  <1> QED
    BY <1>9, <1>10, <1>11, <1>12, <1>13 DEF Tables

\* Every step keeps the slots, m_fd_map and the poller in agreement.
LEMMA TablesStep == Types /\ Tables /\ [Next]_vars => Tables'
  <1> SUFFICES ASSUME Types, Tables, [Next]_vars PROVE Tables'
    OBVIOUS
  <1> USE TypesStep
  <1>0. spent.calls \in Nat /\ loop \in Loop
    BY DEF Types, Spent
  <1>1. CASE ProcessUpdate
    BY <1>1, TablesProcessUpdate
  <1>2. CASE RequestRuns
    BY <1>2, TablesRequestRuns
  <1>3. ASSUME NEW fd \in Fds, NEW flags \in {{}, Flags}, Add(fd, flags) PROVE Tables'
    BY <1>3, TablesAdd
  <1>4. ASSUME NEW h \in Slots, NEW reset \in BOOLEAN, RemoveAndClose(h, reset) PROVE Tables'
    BY <1>4, TablesRemove
  <1>5. ASSUME UNCHANGED <<handles, fd_map, polled>>, spent.calls <= spent'.calls,
               loop.at # "terminated" \/ loop' = loop
        PROVE  Tables'
    BY <1>5, TablesSame
  <1>6. CASE UpdatesDone
    BY <1>0, <1>5, <1>6 DEF UpdatesDone
  <1>7. CASE Poll
    BY <1>0, <1>5, <1>7 DEF Poll
  <1>8. CASE ProcessEvent
    BY <1>0, <1>5, <1>8 DEF ProcessEvent
  <1>9. CASE EventsDone
    BY <1>0, <1>5, <1>9 DEF EventsDone
  <1>10. CASE VisitTimer
    BY <1>0, <1>5, <1>10 DEF VisitTimer
  <1>11. CASE TimersDone
    BY <1>0, <1>5, <1>11 DEF TimersDone
  <1>12. CASE RequestThrows
    BY <1>0, <1>5, <1>12 DEF RequestThrows
  <1>13. CASE LoopEnds
    BY <1>0, <1>5, <1>13 DEF LoopEnds
  <1>14. CASE CallbackEnds
    <2>1. loop.at # "terminated"
      BY <1>14 DEF CallbackEnds, InCallback
    <2> QED
      BY <1>0, <1>5, <1>14, <2>1 DEF CallbackEnds
  <1>15. CASE UNCHANGED vars
    BY <1>0, <1>5, <1>15 DEF vars
  <1>16. ASSUME NEW h \in Slots, NEW kind \in Kinds, NEW flag \in Flags,
               Request(h, kind, {flag})
        PROVE  Tables'
    <2>1. spent.calls <= spent'.calls
      BY <1>0, <1>16 DEF Request, Call, Types, Spent
    <2> QED
      BY <1>5, <1>16, <2>1 DEF Request
  <1>17. CASE Start \/ Stop \/ Wakes
    <2>1. spent.calls <= spent'.calls
      BY <1>0, <1>17 DEF Start, Stop, Wakes, Types, Spent
    <2> QED
      BY <1>5, <1>17, <2>1 DEF Start, Stop, Wakes, Dead
  <1> QED
    BY <1>1, <1>2, <1>3, <1>4, <1>6, <1>7, <1>8, <1>9, <1>10, <1>11, <1>12, <1>13, <1>14,
       <1>15, <1>16, <1>17 DEF Next, LooperThread

-----------------------------------------------------------------------------
(* What was heard.                                                          *)

\* Where nothing is heard and no socket is called there is nothing to show.
LEMMA HearingQuiet ==
    ASSUME loop'.results = {}, loop'.at # "io callback",
           loop'.at \in Places \ {"io callback"} => loop'.run = 0
    PROVE  Hearing'
  BY DEF Hearing

\* A step that leaves the tables and what is heard alone, and stays outside
\* callbacks or where it was.
LEMMA HearingSame ==
    ASSUME Types, Hearing, UNCHANGED <<handles, fd_map>>, spent.calls <= spent'.calls,
           spent'.calls \in Nat,
           loop'.results = loop.results, loop'.run = loop.run, loop'.heard = loop.heard,
           loop'.at = loop.at \/ loop'.at \in Ends
    PROVE  Hearing'
  <1>1. \A h \in Slots : Live(h)' <=> Live(h)
    BY DEF Live
  <1>2. loop.run \in 1..spent.calls => loop.run \in 1..spent'.calls
    BY DEF Types, Spent
  <1>3. /\ loop'.results # {} => loop'.at \in {"events", "io callback"} \cup Ends
        /\ loop'.at \in Places \ {"io callback"} => loop'.run = 0
        /\ loop'.at = "io callback" => loop.at = "io callback"
    BY DEF Hearing, Ends, Places
  <1> QED
    BY <1>1, <1>2, <1>3 DEF Hearing

\* poll reports each descriptor once, for the resource that has it.
LEMMA HearingPoll == ASSUME Types, Tables, Hearing, Poll PROVE Hearing'
  <1>1. PICK ready \in SUBSET Watched : \E revents \in [ready -> SUBSET Flags] :
             loop' = [loop EXCEPT !.at = "events",
                        !.results = {[fd |-> fd, revents |-> revents[fd],
                                      of |-> Heard(fd)] : fd \in ready}]
    BY DEF Poll
  <1>2. PICK revents \in [ready -> SUBSET Flags] :
             loop' = [loop EXCEPT !.at = "events",
                        !.results = {[fd |-> fd, revents |-> revents[fd],
                                      of |-> Heard(fd)] : fd \in ready}]
    BY <1>1
  <1>3. /\ loop'.results = {[fd |-> fd, revents |-> revents[fd], of |-> Heard(fd)] : fd \in ready}
        /\ loop'.at = "events" /\ loop'.run = loop.run
    BY <1>2 DEF Types, Loop
  <1>4. \A r \in loop'.results : r.fd \in Watched /\ r.of = Heard(r.fd)
    BY <1>3
  <1>5. \A r, s \in loop'.results : r.fd = s.fd => r = s
    BY <1>3
  <1>6. handles' = handles /\ fd_map' = fd_map
    BY DEF Poll
  <1>7. ASSUME NEW r \in loop'.results
        PROVE  /\ \E h \in Slots : Live(h) /\ handles[h].data = fd_map[r.fd]
               /\ \A h \in Slots : Live(h) /\ handles[h].fd = r.fd => handles[h].data = r.of
    <2>1. PICK h \in Slots : Live(h) /\ handles[h].fd = r.fd
      BY <1>4 DEF Watched, Tables
    <2>2. r.fd \in OpenFds
      BY <2>1 DEF OpenFds, LiveSlots, Live
    <2>3. \A g \in Slots : Live(g) /\ handles[g].fd = r.fd => handles[g].data = fd_map[r.fd]
      BY DEF Tables
    <2>4. Heard(r.fd) = fd_map[r.fd]
      <3>1. \E g \in LiveSlots : handles[g].fd = r.fd
        BY <2>1 DEF LiveSlots, Live
      <3>2. PICK g \in LiveSlots : /\ g = (CHOOSE k \in LiveSlots : handles[k].fd = r.fd)
                                   /\ handles[g].fd = r.fd
        BY <3>1
      <3> QED
        BY <2>2, <2>3, <3>2 DEF Heard, LiveSlots, Live
    <2> QED
      BY <1>4, <2>1, <2>3, <2>4
  <1>8. loop'.run = 0
    BY <1>3 DEF Hearing, Poll, Places
  <1>9. \A h \in Slots : Live(h)' <=> Live(h)
    BY <1>6 DEF Live
  <1> QED
    BY <1>3, <1>5, <1>6, <1>7, <1>8, <1>9 DEF Hearing

\* process_events calls the resource that was heard: one that took over the
\* descriptor since wants no events yet and is skipped.
LEMMA HearingProcessEvent ==
    ASSUME Types, Tables, Hearing, ProcessEvent PROVE Hearing'
  <1>1. PICK r \in loop.results :
          IF Adjusted(r) = {}
          THEN loop' = [loop EXCEPT !.results = @ \ {r}]
          ELSE loop' = [loop EXCEPT !.results = @ \ {r}, !.at = "io callback",
                                      !.run = fd_map[r.fd], !.heard = r.of]
    BY DEF ProcessEvent
  <1>2. handles' = handles /\ fd_map' = fd_map /\ spent' = spent
    BY DEF ProcessEvent
  <1>3. loop'.results = loop.results \ {r}
    BY <1>1 DEF Types, Loop
  <1>4. \A h \in Slots : Live(h)' <=> Live(h)
    BY <1>2 DEF Live
  <1>5. loop.at = "events" /\ loop.run = 0
    BY DEF ProcessEvent, Hearing, Places
  <1>6. CASE Adjusted(r) = {}
    <2>1. loop'.at = "events" /\ loop'.run = 0
      BY <1>1, <1>5, <1>6 DEF Types, Loop
    <2> QED
      BY <1>2, <1>3, <1>4, <2>1 DEF Hearing
  <1>7. CASE Adjusted(r) # {}
    <2>1. loop'.at = "io callback" /\ loop'.run = fd_map[r.fd] /\ loop'.heard = r.of
      BY <1>1, <1>7 DEF Types, Loop
    <2>2. r \in Result /\ fd_map[r.fd] \in Nat
      BY DEF Types, Loop, Result, Datas
    <2>3. PICK h \in Slots : /\ Live(h) /\ handles[h].data = fd_map[r.fd]
                             /\ DataOf(fd_map[r.fd]) = handles[h]
      <3>1. fd_map[r.fd] \in LiveData
        BY <1>7 DEF Adjusted
      <3>2. \E g \in LiveSlots : handles[g].data = fd_map[r.fd]
        BY <3>1 DEF LiveData
      <3> QED
        BY <3>2 DEF DataOf, LiveSlots, Live
    <2>4. handles[h].events # {}
      <3>1. DataOf(fd_map[r.fd]).events \cap r.revents # {}
        BY <1>7 DEF Adjusted
      <3> QED
        BY <2>3, <3>1
    <2>5. handles[h].fd = r.fd
      BY <2>2, <2>3 DEF Tables, Result
    <2>6. fd_map[r.fd] = r.of
      BY <2>3, <2>4, <2>5 DEF Hearing
    <2>7. fd_map[r.fd] \in 1..spent.calls
      <3>1. handles[h].data \in Datas
        BY <2>3 DEF Types, Resource, Live
      <3>2. fd_map[r.fd] <= spent.calls
        BY <2>2 DEF Tables, Result
      <3> QED
        BY <2>3, <3>1, <3>2 DEF Datas, Types, Spent
    <2>8. \A s \in loop.results \ {r} : fd_map[s.fd] # fd_map[r.fd]
      <3> SUFFICES ASSUME NEW s \in loop.results \ {r}, fd_map[s.fd] = fd_map[r.fd]
                   PROVE  FALSE
        OBVIOUS
      <3>1. s.fd \in Fds
        BY DEF Types, Loop, Result
      <3>2. handles[h].fd = s.fd
        BY <2>3, <3>1 DEF Tables
      <3> QED
        BY <2>5, <3>2 DEF Hearing
    <2> QED
      BY <1>2, <1>3, <1>4, <2>1, <2>6, <2>7, <2>8 DEF Hearing, Places
  <1> QED
    BY <1>6, <1>7

\* add gives a reused descriptor to data that want no events.
LEMMA HearingAdd ==
    ASSUME Types, Types', Tables, Tables', Hearing,
           NEW fd \in Fds, NEW flags \in {{}, Flags}, Add(fd, flags)
    PROVE  Hearing'
  <1> DEFINE n == spent.calls + 1
  <1>0. PICK h : h = FirstFree(handles)
    OBVIOUS
  <1>1. /\ loop' = loop /\ spent'.calls = n /\ spent.calls \in Nat /\ n \in Nat
    BY DEF Add, Call, Types, Spent
  <1>2. CASE AlreadyAdded(fd) \/ h > Capacity
    BY <1>0, <1>1, <1>2, HearingSame DEF Add
  <1>3. CASE ~(AlreadyAdded(fd) \/ h > Capacity)
    <2>1. h \in Slots /\ handles[h] = Free /\ fd_map[fd] = 0
      BY <1>0, <1>3, FirstFreeIsFree, FirstFreeType, CapacityAssumption DEF Types, AlreadyAdded
    <2>2. /\ handles' = [handles EXCEPT ![h] = NewData(fd, flags)]
          /\ fd_map' = [fd_map EXCEPT ![fd] = n]
      BY <1>0, <1>3, <2>1 DEF Add
    <2>3. handles'[h] = [data |-> n, fd |-> fd, events |-> {}]
      BY <2>1, <2>2 DEF Types, NewData
    <2>4. \A g \in Slots \ {h} : handles'[g] = handles[g] /\ (Live(g)' <=> Live(g))
      BY <2>1, <2>2 DEF Live, Types
    <2>5. Live(h)'
      <3>1. NewData(fd, flags) \in Resource
        BY <1>1 DEF NewData, Resource, Types, Spent, Datas
      <3> QED
        BY <2>3, <3>1, FreeFacts DEF Live, NewData
    <2>6. fd_map'[fd] = n /\ \A f \in Fds \ {fd} : fd_map'[f] = fd_map[f]
      BY <2>2 DEF Types
    <2>7. ASSUME NEW r \in loop.results
          PROVE  /\ r.fd \in Fds
                 /\ \/ fd_map'[r.fd] = 0
                    \/ \E g \in Slots : Live(g)' /\ handles'[g].data = fd_map'[r.fd]
                 /\ \A g \in Slots : Live(g)' /\ handles'[g].fd = r.fd =>
                       handles'[g].data = r.of \/ handles'[g].events = {}
                 /\ loop.run \in 1..spent.calls /\ fd_map[r.fd] # loop.run
                       => fd_map'[r.fd] # loop.run
      <3>1. r.fd \in Fds
        BY DEF Types, Loop, Result
      <3>4. \A g \in Slots : Live(g)' /\ handles'[g].fd = r.fd =>
               handles'[g].data = r.of \/ handles'[g].events = {}
        <4> SUFFICES ASSUME NEW g \in Slots, Live(g)', handles'[g].fd = r.fd
                     PROVE  handles'[g].data = r.of \/ handles'[g].events = {}
          OBVIOUS
        <4>1. CASE g = h
          BY <2>3, <4>1
        <4>2. CASE g # h
          <5>1. handles'[g] = handles[g] /\ Live(g)
            BY <2>4, <4>2
          <5> QED
            BY <5>1 DEF Hearing
        <4> QED
          BY <4>1, <4>2
      <3>2. CASE r.fd = fd
        <4>1. fd_map'[r.fd] = handles'[h].data
          BY <2>3, <2>6, <3>2
        <4>2. loop.run \in 1..spent.calls => fd_map'[r.fd] # loop.run
          BY <1>1, <2>6, <3>2
        <4> QED
          BY <2>1, <2>5, <3>1, <3>4, <4>1, <4>2
      <3>3. CASE r.fd # fd
        <4>1. fd_map'[r.fd] = fd_map[r.fd]
          BY <2>6, <3>1, <3>3
        <4>2. \A g \in Slots : Live(g) => g # h
          BY <2>1 DEF Live
        <4>3. \/ fd_map'[r.fd] = 0
              \/ \E g \in Slots : Live(g)' /\ handles'[g].data = fd_map'[r.fd]
          BY <2>4, <4>1, <4>2 DEF Hearing
        <4> QED
          BY <3>1, <3>4, <4>1, <4>3
      <3> QED
        BY <3>2, <3>3
    <2>8. loop.run \in 1..spent.calls => loop.run \in 1..spent'.calls
      BY <1>1
    <2> QED
      BY <1>1, <2>7, <2>8 DEF Hearing
  <1> QED
    BY <1>2, <1>3

\* The number of a resource is not 0, which stands for none.
LEMMA DataPositive == \A n \in Nat : \A d \in 1..n : d # 0
  OBVIOUS

\* remove, before or after a reset, leaves no event that could be handed to the
\* resource that runs, or to another one.
LEMMA HearingRemove ==
    ASSUME Types, Tables, Hearing,
           NEW h \in Slots, NEW reset \in BOOLEAN, RemoveAndClose(h, reset)
    PROVE  Hearing'
  <1>0. PICK fd : fd = handles[h].fd
    OBVIOUS
  <1>1. /\ handles' = [handles EXCEPT ![h] = Free]
        /\ \/ reset /\ fd_map' = fd_map /\ handles[h].data = loop.run
           \/ fd_map' = [fd_map EXCEPT ![fd] = 0]
        /\ Live(h) /\ InCallback
    BY <1>0 DEF RemoveAndClose, LiveSlots, Live
  <1>2. fd \in Fds /\ handles[h] \in Resource
    BY <1>0, <1>1 DEF Types, Resource, Live
  <1>3. /\ spent'.calls = spent.calls + 1 /\ spent.calls \in Nat
        /\ loop'.results = loop.results /\ loop'.run = loop.run /\ loop'.heard = loop.heard
        /\ loop'.at = loop.at \/ loop'.at = "stuck"
    BY DEF RemoveAndClose, Call, Types, Spent, Loop
  <1>4. ~Live(h)' /\ \A g \in Slots \ {h} : handles'[g] = handles[g] /\ (Live(g)' <=> Live(g))
    BY <1>1 DEF Types, Live
  <1>5. loop.run \in 1..spent.calls => loop.run \in 1..spent'.calls
    BY <1>3
  <1>6. ASSUME NEW r \in loop.results
        PROVE  /\ \/ fd_map'[r.fd] = 0
                  \/ \E g \in Slots : Live(g)' /\ handles'[g].data = fd_map'[r.fd]
               /\ \A g \in Slots : Live(g)' /\ handles'[g].fd = r.fd =>
                     handles'[g].data = r.of \/ handles'[g].events = {}
               /\ loop.run # 0 /\ fd_map[r.fd] # loop.run => fd_map'[r.fd] # loop.run
    <2>1. r.fd \in Fds
      BY DEF Types, Loop, Result
    <2>2. \A g \in Slots : Live(g)' /\ handles'[g].fd = r.fd =>
             handles'[g].data = r.of \/ handles'[g].events = {}
      <3> SUFFICES ASSUME NEW g \in Slots, Live(g)', handles'[g].fd = r.fd
                   PROVE  handles'[g].data = r.of \/ handles'[g].events = {}
        OBVIOUS
      <3>1. handles'[g] = handles[g] /\ Live(g)
        BY <1>4
      <3> QED
        BY <3>1 DEF Hearing
    <2>3. r.fd # fd => fd_map'[r.fd] = fd_map[r.fd]
      BY <1>1, <2>1 DEF Types
    <2>4. CASE fd_map[r.fd] = handles[h].data
      <3>1. r.fd = fd
        BY <1>0, <1>1, <2>1, <2>4 DEF Tables
      <3>2. handles[h].data # loop.run
        <4>1. CASE loop.at = "io callback"
          BY <2>4, <4>1 DEF Hearing
        <4>2. CASE loop.at = "timer callback"
          <5>1. loop.results = {}
            BY <4>2 DEF Hearing, Ends
          <5> QED
            BY <5>1
        <4> QED
          BY <1>1, <4>1, <4>2 DEF InCallback
      <3>3. fd_map'[r.fd] = 0
        BY <1>1, <1>2, <3>1, <3>2 DEF Types
      <3> QED
        BY <2>2, <3>3
    <2>5. CASE fd_map[r.fd] # handles[h].data
      <3>1. fd_map'[r.fd] \in {0, fd_map[r.fd]}
        <4>1. CASE fd_map' = fd_map
          BY <4>1
        <4>2. CASE fd_map' = [fd_map EXCEPT ![fd] = 0]
          BY <1>2, <2>1, <4>2 DEF Types
        <4> QED
          BY <1>1, <4>1, <4>2
      <3>2. fd_map[r.fd] = 0 \/ \E g \in Slots : Live(g) /\ handles[g].data = fd_map[r.fd]
        BY DEF Hearing
      <3>3. fd_map[r.fd] = 0
            \/ \E g \in Slots : Live(g)' /\ handles'[g].data = fd_map[r.fd]
        BY <1>4, <2>5, <3>2
      <3> QED
        BY <2>2, <3>1, <3>3
    <2> QED
      BY <2>4, <2>5
  <1>7. /\ loop'.results # {} => loop'.at \in {"events", "io callback"} \cup Ends
        /\ loop'.at \in Places \ {"io callback"} => loop'.run = 0
        /\ loop'.at = "io callback" => loop.at = "io callback"
    BY <1>3 DEF Hearing, Ends, Places
  <1>8. \A r, s \in loop'.results : r.fd = s.fd => r = s
    BY <1>3 DEF Hearing
  <1>9. \A r \in loop'.results :
           /\ \/ fd_map'[r.fd] = 0
              \/ \E g \in Slots : Live(g)' /\ handles'[g].data = fd_map'[r.fd]
           /\ \A g \in Slots : Live(g)' /\ handles'[g].fd = r.fd =>
                 handles'[g].data = r.of \/ handles'[g].events = {}
    BY <1>3, <1>6
  <1>10. loop'.at = "io callback" =>
            /\ loop'.run = loop'.heard /\ loop'.run \in 1..spent'.calls
            /\ \A r \in loop'.results : fd_map'[r.fd] # loop'.run
    <2> SUFFICES ASSUME loop'.at = "io callback"
                 PROVE  /\ loop'.run = loop'.heard /\ loop'.run \in 1..spent'.calls
                        /\ \A r \in loop'.results : fd_map'[r.fd] # loop'.run
      OBVIOUS
    <2>1. /\ loop.run = loop.heard /\ loop.run \in 1..spent.calls
          /\ \A r \in loop.results : fd_map[r.fd] # loop.run
      BY <1>7 DEF Hearing
    <2>2. loop.run # 0
      BY <1>3, <2>1, DataPositive
    <2> QED
      BY <1>3, <1>5, <1>6, <2>1, <2>2
  <1> QED
    BY <1>7, <1>8, <1>9, <1>10 DEF Hearing

\* Every step keeps what was heard with whom it was heard for.
LEMMA HearingStep == Types /\ Tables /\ Hearing /\ [Next]_vars => Hearing'
  <1> SUFFICES ASSUME Types, Tables, Hearing, [Next]_vars PROVE Hearing'
    OBVIOUS
  <1>0. Types' /\ Tables' /\ loop \in Loop /\ spent.calls \in Nat /\ spent'.calls \in Nat
    BY TypesStep, TablesStep DEF Types, Spent
  <1>1. CASE Poll
    BY <1>1, HearingPoll
  <1>2. CASE ProcessEvent
    BY <1>2, HearingProcessEvent
  <1>3. ASSUME NEW fd \in Fds, NEW flags \in {{}, Flags}, Add(fd, flags) PROVE Hearing'
    BY <1>0, <1>3, HearingAdd
  <1>4. ASSUME NEW h \in Slots, NEW reset \in BOOLEAN, RemoveAndClose(h, reset) PROVE Hearing'
    BY <1>4, HearingRemove
  <1>5. CASE ProcessUpdate
    <2>1. loop.results = {} /\ loop.run = 0
      BY <1>5 DEF ProcessUpdate, Hearing, Ends, Places
    <2>2. /\ loop'.results = loop.results /\ loop'.run = loop.run
          /\ loop'.at \in {"updates", "terminated"}
      BY <1>0, <1>5 DEF ProcessUpdate, process_update, Loop
    <2> QED
      BY <2>1, <2>2, HearingQuiet
  <1>6. CASE UpdatesDone \/ EventsDone \/ TimersDone \/ LoopEnds
    <2>1. loop.results = {} /\ loop.run = 0
      BY <1>6 DEF UpdatesDone, EventsDone, TimersDone, LoopEnds, Hearing, Ends, Places
    <2>2. loop'.at \in Places \ {"io callback"} /\ loop'.results = {} /\ loop'.run = 0
      <3>1. CASE UpdatesDone
        BY <1>0, <2>1, <3>1 DEF UpdatesDone, Loop, Places
      <3>2. CASE EventsDone
        BY <1>0, <2>1, <3>2 DEF EventsDone, Loop, Places
      <3>3. CASE TimersDone
        BY <1>0, <2>1, <3>3 DEF TimersDone, Loop, Places
      <3>4. CASE LoopEnds
        BY <3>4 DEF LoopEnds, Idle, Places
      <3> QED
        BY <1>6, <3>1, <3>2, <3>3, <3>4
    <2> QED
      BY <2>2, HearingQuiet
  <1>7. CASE VisitTimer
    <2>1. loop.results = {} /\ loop.run = 0
      BY <1>7 DEF VisitTimer, Hearing, Ends, Places
    <2>2. /\ loop'.results = loop.results /\ loop'.run = loop.run
          /\ loop'.at \in {"timers", "undefined", "timer callback"}
      BY <1>0, <1>7 DEF VisitTimer, Loop
    <2> QED
      BY <2>1, <2>2, HearingQuiet
  <1>8. CASE RequestRuns
    <2>1. loop' = loop /\ loop.results = {} /\ loop.run = 0 /\ loop.at # "io callback"
      BY <1>8 DEF RequestRuns, Hearing, Ends, Places
    <2> QED
      BY <2>1, HearingQuiet
  <1>9. CASE CallbackEnds
    <2>1. /\ loop'.results = loop.results /\ loop'.run = 0
          /\ \/ loop.at = "io callback" /\ loop'.at = "events"
             \/ loop.at = "timer callback" /\ loop'.at = "timers"
          /\ UNCHANGED <<handles, fd_map>>
      <3>1. loop' = [loop EXCEPT !.at = IF @ = "io callback" THEN "events" ELSE "timers",
                                 !.run = 0, !.heard = 0]
        BY <1>9 DEF CallbackEnds
      <3>2. loop'.results = loop.results /\ loop'.run = 0
        BY <1>0, <3>1 DEF Loop
      <3>3. loop'.at = IF loop.at = "io callback" THEN "events" ELSE "timers"
        BY <1>0, <3>1 DEF Loop
      <3> QED
        BY <1>9, <3>2, <3>3 DEF CallbackEnds, InCallback
    <2>2. \A h \in Slots : Live(h)' <=> Live(h)
      BY <2>1 DEF Live
    <2>3. loop'.results # {} => loop'.at \in {"events", "io callback"} \cup Ends
      BY <2>1 DEF Hearing, Ends
    <2>4. \A r, s \in loop'.results : r.fd = s.fd => r = s
      BY <2>1 DEF Hearing
    <2>5. \A r \in loop'.results :
             /\ \/ fd_map'[r.fd] = 0
                \/ \E g \in Slots : Live(g)' /\ handles'[g].data = fd_map'[r.fd]
             /\ \A g \in Slots : Live(g)' /\ handles'[g].fd = r.fd =>
                   handles'[g].data = r.of \/ handles'[g].events = {}
      BY <2>1, <2>2 DEF Hearing
    <2> QED
      BY <2>1, <2>3, <2>4, <2>5 DEF Hearing
  <1>10. ASSUME UNCHANGED <<handles, fd_map, loop>>, spent.calls <= spent'.calls
         PROVE  Hearing'
    BY <1>0, <1>10, HearingSame
  <1>11. CASE RequestThrows
    BY <1>0, <1>10, <1>11 DEF RequestThrows
  <1>12. ASSUME NEW h \in Slots, NEW kind \in Kinds, NEW flag \in Flags,
                Request(h, kind, {flag})
         PROVE  Hearing'
    <2>1. spent.calls <= spent'.calls
      BY <1>0, <1>12 DEF Request, Call, Types, Spent
    <2>2. UNCHANGED <<handles, fd_map, loop>>
      BY <1>12 DEF Request
    <2> QED
      BY <1>10, <2>1, <2>2
  <1>13. CASE Start \/ Stop
    <2>1. spent.calls <= spent'.calls
      BY <1>0, <1>13 DEF Start, Stop, Types, Spent
    <2>2. UNCHANGED <<handles, fd_map, loop>>
      BY <1>13 DEF Start, Stop
    <2> QED
      BY <1>10, <2>1, <2>2
  <1>14. CASE Wakes
    <2>1. loop'.at = loop.at \/ loop'.at \in Ends
      BY <1>0, <1>14 DEF Wakes, Ends, Loop
    <2>2. /\ loop'.results = loop.results /\ loop'.run = loop.run /\ loop'.heard = loop.heard
          /\ UNCHANGED <<handles, fd_map>> /\ spent.calls <= spent'.calls
      BY <1>0, <1>14 DEF Wakes, Loop
    <2> QED
      BY <1>0, <2>1, <2>2, HearingSame
  <1>15. CASE UNCHANGED vars
    <2>1. spent.calls <= spent'.calls
      BY <1>0, <1>15 DEF vars
    <2> QED
      BY <1>10, <1>15, <2>1 DEF vars
  <1> QED
    BY <1>1, <1>2, <1>3, <1>4, <1>5, <1>6, <1>7, <1>8, <1>9, <1>11, <1>12, <1>13, <1>14, <1>15
       DEF Next, LooperThread
-----------------------------------------------------------------------------
(* The queue of updates.                                                    *)

\* Two slots never have the same descriptor.
LEMMA FdsApart ==
    ASSUME Types, Tables, NEW h \in Slots, NEW g \in Slots, Live(h), Live(g),
           handles[h].fd = handles[g].fd
    PROVE  h = g
  BY DEF Tables

\* The three ways process_update ends: no such handle, done, refused by epoll.
LEMMA ProcessUpdateFacts ==
    ASSUME Types, ProcessUpdate, NEW u, u = updates[loop.next + 1]
    PROVE  /\ u \in UpdateOf
           /\ loop.at = "updates" /\ loop.next \in Nat /\ loop.next < Len(updates)
           /\ UNCHANGED <<fd_map, updates, spent>>
           /\ \A h \in Slots : /\ Live(h)' <=> Live(h)
                               /\ Live(h) => /\ handles'[h].data = handles[h].data
                                             /\ handles'[h].fd = handles[h].fd
           /\ \/ /\ ~Live(u.handle) /\ polled' = polled
                 /\ loop'.at = "updates" /\ loop'.next = loop.next + 1
              \/ /\ Live(u.handle) /\ ~Refused(handles[u.handle], u.kind)
                 /\ loop'.at = "updates" /\ loop'.next = loop.next + 1
                 /\ \E e \in SUBSET Flags : polled' = [polled EXCEPT ![handles[u.handle].fd] = e]
              \/ /\ Live(u.handle) /\ Refused(handles[u.handle], u.kind) /\ polled' = polled
                 /\ loop'.at = "terminated" /\ loop'.next = loop.next
  <1> DEFINE d == handles[u.handle]
             e == NewEvents(u.kind, d.events, u.flags)
  <1>1. /\ u \in UpdateOf /\ u.handle \in Slots
        /\ loop.at = "updates" /\ loop.next \in Nat /\ loop.next < Len(updates)
        /\ UNCHANGED <<fd_map, updates, spent>>
    <2>1. loop.at = "updates" /\ loop.next \in Nat /\ loop.next < Len(updates)
      BY DEF ProcessUpdate, Types, Loop
    <2>2. u \in UpdateOf
      <3>1. PICK q, i : q = updates /\ i = loop.next + 1
        OBVIOUS
      <3>2. q \in Seq(UpdateOf) /\ i \in 1..Len(q)
        BY <2>1, <3>1 DEF Types
      <3>3. q[i] \in UpdateOf
        BY <3>2
      <3> QED
        BY <3>1, <3>3
    <2>3. UNCHANGED <<fd_map, updates, spent>>
      BY DEF ProcessUpdate
    <2> QED
      BY <2>1, <2>2, <2>3 DEF UpdateOf
  <1>2. CASE ~Known(u)
    <2>1. handles' = handles /\ polled' = polled /\ loop' = [loop EXCEPT !.next = @ + 1]
      BY <1>2 DEF ProcessUpdate, process_update
    <2>2. loop'.at = "updates" /\ loop'.next = loop.next + 1
      BY <1>1, <2>1 DEF Types, Loop
    <2> QED
      BY <1>1, <1>2, <2>1, <2>2 DEF Known, Live
  <1>3. CASE Known(u)
    <2>1. d \in Resource
      BY <1>1, <1>3 DEF Known, Types
    <2>2. e \in SUBSET Flags
      BY <1>1, <2>1, KindsAssumption DEF NewEvents, UpdateOf, Resource
    <2>3. [d EXCEPT !.events = e] # Free
      <3>1. [d EXCEPT !.events = e] \in Resource
        BY <2>1, <2>2 DEF Resource
      <3> QED
        BY <3>1, FreeFacts
    <2>4. handles' = [handles EXCEPT ![u.handle].events = e]
      BY <1>3 DEF ProcessUpdate, process_update
    <2>5. \A h \in Slots : /\ Live(h)' <=> Live(h)
                           /\ Live(h) => /\ handles'[h].data = handles[h].data
                                         /\ handles'[h].fd = handles[h].fd
      BY <1>1, <1>3, <2>1, <2>3, <2>4 DEF Live, Known, Types, Resource
    <2>6. CASE Refused(d, u.kind)
      <3>1. loop' = [loop EXCEPT !.at = "terminated"] /\ polled' = polled
        BY <1>3, <2>6 DEF ProcessUpdate, process_update
      <3>2. loop'.at = "terminated" /\ loop'.next = loop.next
        BY <3>1 DEF Types, Loop
      <3> QED
        BY <1>1, <1>3, <2>5, <2>6, <3>1, <3>2 DEF Known, Live
    <2>7. CASE ~Refused(d, u.kind)
      <3>1. /\ loop' = [loop EXCEPT !.next = @ + 1]
            /\ polled' = [polled EXCEPT ![d.fd] = e]
        BY <1>3, <2>7 DEF ProcessUpdate, process_update, ToWatch
      <3>2. loop'.at = "updates" /\ loop'.next = loop.next + 1
        BY <1>1, <3>1 DEF Types, Loop
      <3> QED
        BY <1>1, <1>3, <2>2, <2>5, <2>7, <3>1, <3>2 DEF Known, Live
    <2> QED
      BY <2>6, <2>7
  <1> QED
    BY <1>2, <1>3

\* A step that leaves queue, slots and poller alone keeps Queue.
LEMMA QueueSame ==
    ASSUME Types, Queue, UNCHANGED <<handles, polled, updates>>, Done' = Done,
           spent.calls <= spent'.calls, spent'.calls \in Nat, loop'.at # "terminated"
    PROVE  Queue'
  <1>1. \A h \in Slots : /\ Live(h)' <=> Live(h)
                         /\ AddPending(h)' <=> AddPending(h)
                         /\ MixedUp(h)' <=> MixedUp(h)
    BY DEF Live, AddPending, MixedUp
  <1>2. \A i \in 1..Len(updates) : updates[i].by <= spent'.calls
    <2> SUFFICES ASSUME NEW i \in 1..Len(updates) PROVE updates[i].by <= spent'.calls
      OBVIOUS
    <2>1. updates[i] \in UpdateOf
      BY DEF Types
    <2>2. updates[i].by \in Nat
      BY <2>1 DEF UpdateOf, Datas
    <2>3. spent.calls \in Nat /\ updates[i].by <= spent.calls
      BY DEF Queue, Types, Spent
    <2> QED
      BY <2>2, <2>3
  <1> QED
    BY <1>1, <1>2 DEF Queue

\* process_updates: an update done leaves the queue in order, and one that epoll
\* refuses comes after one for a resource whose slot was taken over, or is one.
LEMMA QueueProcessUpdate ==
    ASSUME Types, Tables, Queue, ProcessUpdate
    PROVE  Queue' /\ DiesOnlyOfReuse'
  <1>0. PICK u : u = updates[loop.next + 1]
    OBVIOUS
  <1>1. PICK k : k = loop.next + 1
    OBVIOUS
  <1>2. /\ u \in UpdateOf /\ u.handle \in Slots /\ u = updates[k]
        /\ loop.at = "updates" /\ loop.next \in Nat /\ k \in 1..Len(updates)
        /\ Len(updates) \in Nat /\ Done = loop.next
        /\ updates' = updates /\ spent' = spent
    BY <1>0, <1>1, ProcessUpdateFacts DEF UpdateOf, Done, Types
  <1>3. \A h \in Slots : /\ Live(h)' <=> Live(h)
                         /\ Live(h) => /\ handles'[h].data = handles[h].data
                                       /\ handles'[h].fd = handles[h].fd
    BY <1>0, ProcessUpdateFacts
  <1>4. \A h \in Slots : Live(h) => handles[h] \in Resource /\ handles[h].fd \in Fds
    BY DEF Types, Live, Resource
  <1>5. CASE loop'.at = "updates" /\ loop'.next = k
    <2>1. Done' = k
      BY <1>5 DEF Done
    <2>2. ASSUME NEW h \in Slots, Live(h), AddPending(h)' PROVE AddPending(h)
      BY <1>1, <1>2, <1>3, <2>1, <2>2 DEF AddPending
    <2>3. ASSUME NEW h \in Slots, Live(h), h # u.handle, AddPending(h) PROVE AddPending(h)'
      BY <1>1, <1>2, <1>3, <2>1, <2>3 DEF AddPending
    <2>4. ASSUME NEW h \in Slots, Live(h), MixedUp(h) PROVE MixedUp(h)'
      BY <1>1, <1>2, <1>3, <2>1, <2>4 DEF MixedUp
    <2>5. ASSUME NEW h \in Slots, Live(h), h # u.handle
          PROVE  polled'[handles[h].fd] = polled[handles[h].fd]
      <3>1. CASE polled' = polled
        BY <3>1
      <3>2. ASSUME Live(u.handle), NEW e \in SUBSET Flags,
                   polled' = [polled EXCEPT ![handles[u.handle].fd] = e]
            PROVE  polled'[handles[h].fd] = polled[handles[h].fd]
        <4>1. handles[h].fd # handles[u.handle].fd
          BY <1>2, <2>5, <3>2, FdsApart
        <4> QED
          BY <1>4, <2>5, <3>2, <4>1 DEF Types
      <3> QED
        BY <1>0, <3>1, <3>2, ProcessUpdateFacts
    <2>6. ASSUME Live(u.handle) PROVE polled'[handles[u.handle].fd] # Free
      <3>1. \E e \in SUBSET Flags : polled' = [polled EXCEPT ![handles[u.handle].fd] = e]
        BY <1>0, <1>5, <2>6, ProcessUpdateFacts
      <3> QED
        BY <1>2, <1>4, <2>6, <3>1, FreeFacts DEF Types
    <2>7. ASSUME Live(u.handle), AddPending(u.handle)' PROVE MixedUp(u.handle)'
      <3>1. PICK i \in (k + 1)..Len(updates) :
               /\ updates[i].kind = "add" /\ updates[i].by = handles[u.handle].data
        BY <1>2, <1>3, <2>1, <2>7 DEF AddPending
      <3>2. ~(u.by = handles[u.handle].data)
        <4> SUFFICES ASSUME u.by = handles[u.handle].data PROVE FALSE
          OBVIOUS
        <4>1. i \in 1..Len(updates) /\ i > k
          BY <1>2, <3>1
        <4>2. i <= k
          BY <1>2, <3>1, <4>1 DEF Queue
        <4> QED
          BY <1>2, <4>1, <4>2
      <3> QED
        BY <1>2, <1>3, <2>1, <2>7, <3>2 DEF MixedUp
    <2>8. \A h \in Slots : Live(h)' => AddPending(h)' \/ polled'[handles'[h].fd] # Free
      <3> SUFFICES ASSUME NEW h \in Slots, Live(h)
                   PROVE  AddPending(h)' \/ polled'[handles[h].fd] # Free
        BY <1>3
      <3>1. CASE h = u.handle
        BY <2>6, <3>1
      <3>2. CASE h # u.handle
        BY <2>3, <2>5, <3>2 DEF Queue
      <3> QED
        BY <3>1, <3>2
    <2>9. \A h \in Slots :
             Live(h)' /\ AddPending(h)' /\ polled'[handles'[h].fd] # Free => MixedUp(h)'
      <3> SUFFICES ASSUME NEW h \in Slots, Live(h), AddPending(h)', polled'[handles[h].fd] # Free
                   PROVE  MixedUp(h)'
        BY <1>3
      <3>1. CASE h = u.handle
        BY <2>7, <3>1
      <3>2. CASE h # u.handle
        BY <2>2, <2>4, <2>5, <3>2 DEF Queue
      <3> QED
        BY <3>1, <3>2
    <2>10. Done' <= Len(updates')
      BY <1>2, <2>1
    <2>11. loop'.at # "terminated"
      BY <1>5
    <2> QED
      BY <1>2, <2>8, <2>9, <2>10, <2>11 DEF Queue, DiesOnlyOfReuse
  <1>6. CASE /\ Live(u.handle) /\ Refused(handles[u.handle], u.kind) /\ polled' = polled
             /\ loop'.at = "terminated" /\ loop'.next = loop.next
    <2>1. Done' = Done
      BY <1>2, <1>6 DEF Done
    <2>2. \A h \in Slots : Live(h) => /\ AddPending(h)' <=> AddPending(h)
                                      /\ MixedUp(h)' <=> MixedUp(h)
      BY <1>2, <1>3, <2>1 DEF AddPending, MixedUp
    <2>3. \A h \in Slots : Live(h)' => AddPending(h)' \/ polled'[handles'[h].fd] # Free
      BY <1>3, <1>6, <2>2 DEF Queue
    <2>4. \A h \in Slots :
             Live(h)' /\ AddPending(h)' /\ polled'[handles'[h].fd] # Free => MixedUp(h)'
      BY <1>3, <1>6, <2>2 DEF Queue
    <2>5. Done' <= Len(updates') /\ loop'.next < Len(updates')
      BY <1>1, <1>2, <1>6, <2>1
    <2>6. Queue'
      BY <1>2, <2>3, <2>4, <2>5 DEF Queue
    <2>7. \E i \in 1..k : Live(updates[i].handle) /\ updates[i].handle \in Slots
                          /\ handles[updates[i].handle].data # updates[i].by
      <3>1. CASE u.by # handles[u.handle].data
        BY <1>2, <1>6, <3>1
      <3>2. CASE u.by = handles[u.handle].data /\ u.kind = "add"
        <4>1. AddPending(u.handle)
          BY <1>1, <1>2, <3>2 DEF AddPending
        <4>2. polled[handles[u.handle].fd] # Free
          BY <1>6, <3>2 DEF Refused
        <4>3. MixedUp(u.handle)
          BY <1>2, <1>6, <4>1, <4>2 DEF Queue
        <4> QED
          BY <1>1, <1>2, <1>6, <4>3 DEF MixedUp
      <3>3. CASE u.by = handles[u.handle].data /\ u.kind # "add"
        <4>1. polled[handles[u.handle].fd] = Free
          BY <1>6, <3>3 DEF Refused
        <4>2. AddPending(u.handle)
          BY <1>2, <1>6, <4>1 DEF Queue
        <4>3. PICK i \in k..Len(updates) :
                 updates[i].kind = "add" /\ updates[i].by = handles[u.handle].data
          BY <1>1, <1>2, <4>2 DEF AddPending
        <4>4. i \in 1..Len(updates) /\ i # k /\ i >= k
          BY <1>2, <3>3, <4>3
        <4>5. i <= k
          BY <1>2, <3>3, <4>3, <4>4 DEF Queue
        <4> QED
          BY <1>2, <4>4, <4>5
      <3> QED
        BY <3>1, <3>2, <3>3
    <2>8. \E i \in 1..(loop'.next + 1) :
             /\ updates'[i].handle \in LiveSlots'
             /\ handles'[updates'[i].handle].data # updates'[i].by
      <3>1. PICK i \in 1..k : /\ Live(updates[i].handle) /\ updates[i].handle \in Slots
                              /\ handles[updates[i].handle].data # updates[i].by
        BY <2>7
      <3>2. updates[i].handle \in LiveSlots'
        BY <1>3, <3>1 DEF LiveSlots, Live
      <3> QED
        BY <1>1, <1>2, <1>3, <1>6, <3>1, <3>2
    <2> QED
      BY <2>6, <2>8 DEF DiesOnlyOfReuse
  <1> QED
    BY <1>0, <1>1, <1>5, <1>6, ProcessUpdateFacts

\* add queues the first update of its data, and the poller does not watch it yet.
LEMMA QueueAdd ==
    ASSUME Types, Types', Tables, Queue, NEW fd \in Fds, NEW flags \in {{}, Flags}, Add(fd, flags)
    PROVE  Queue'
  <1> DEFINE n == spent.calls + 1
  <1>0. PICK h : h = FirstFree(handles)
    OBVIOUS
  <1>1. /\ loop' = loop /\ polled' = polled /\ spent'.calls = n /\ spent.calls \in Nat /\ n \in Nat
        /\ Done = 0 /\ Done' = 0 /\ loop.at # "terminated"
    <2>1. loop' = loop /\ polled' = polled /\ loop.at \in {"io callback", "timer callback"}
      BY DEF Add, InCallback
    <2>2. spent'.calls = n /\ spent.calls \in Nat /\ n \in Nat
      BY DEF Add, Call, Types, Spent
    <2> QED
      BY <2>1, <2>2 DEF Done
  <1>2. CASE AlreadyAdded(fd) \/ h > Capacity
    BY <1>0, <1>1, <1>2, QueueSame DEF Add
  <1>3. CASE ~(AlreadyAdded(fd) \/ h > Capacity)
    <2>0. PICK m : m = Len(updates)
      OBVIOUS
    <2>1. h \in Slots /\ handles[h] = Free
      BY <1>0, <1>3, FirstFreeIsFree, FirstFreeType, CapacityAssumption DEF Types
    <2>2. /\ handles' = [handles EXCEPT ![h] = NewData(fd, flags)]
          /\ updates' = Append(updates, [handle |-> h, kind |-> "add", flags |-> flags, by |-> n])
      BY <1>0, <1>3, <2>1 DEF Add
    <2>3. handles'[h] = [data |-> n, fd |-> fd, events |-> {}]
      BY <2>1, <2>2 DEF Types, NewData
    <2>4. \A g \in Slots \ {h} : handles'[g] = handles[g] /\ (Live(g)' <=> Live(g))
      BY <2>1, <2>2 DEF Live, Types
    <2>5. /\ m \in Nat /\ Len(updates') = m + 1
          /\ updates'[m + 1] = [handle |-> h, kind |-> "add", flags |-> flags, by |-> n]
          /\ \A i \in 1..m : updates'[i] = updates[i]
      <3>1. updates \in Seq(UpdateOf)
        BY DEF Types
      <3> QED
        BY <2>0, <2>2, <3>1
    <2>6. \A i \in 1..m : updates[i].by \in Nat /\ updates[i].by <= spent.calls
      <3> SUFFICES ASSUME NEW i \in 1..m
                   PROVE  updates[i].by \in Nat /\ updates[i].by <= spent.calls
        OBVIOUS
      <3>1. updates[i] \in UpdateOf
        BY <2>0 DEF Types
      <3> QED
        BY <2>0, <3>1 DEF Queue, UpdateOf, Datas
    <2>7. \A i \in 1..Len(updates') : updates'[i].by <= spent'.calls
      BY <1>1, <2>5, <2>6
    <2>8. \A i, j \in 1..Len(updates') :
             updates'[i].kind = "add" /\ updates'[j].by = updates'[i].by => i <= j
      <3> SUFFICES ASSUME NEW i \in 1..(m + 1), NEW j \in 1..(m + 1),
                          updates'[i].kind = "add", updates'[j].by = updates'[i].by
                   PROVE  i <= j
        BY <2>5
      <3>1. CASE j = m + 1
        BY <2>5, <3>1
      <3>2. CASE j \in 1..m /\ i = m + 1
        <4>1. updates[j].by = n
          BY <2>5, <3>2
        <4> QED
          BY <1>1, <2>6, <3>2, <4>1
      <3>3. CASE j \in 1..m /\ i \in 1..m
        <4>1. updates[i].kind = "add" /\ updates[j].by = updates[i].by
          BY <2>5, <3>3
        <4> QED
          BY <2>0, <3>3, <4>1 DEF Queue
      <3> QED
        BY <2>5, <3>1, <3>2, <3>3
    <2>9. polled[fd] = Free
      BY DEF Tables, Add, OpenFds, LiveSlots, Live
    <2>10. ASSUME NEW g \in Slots, g # h, Live(g)' PROVE AddPending(g)' <=> AddPending(g)
      <3>1. handles'[g] = handles[g]
        BY <2>4, <2>10
      <3>2. AddPending(g) => AddPending(g)'
        BY <1>1, <2>0, <2>5, <3>1 DEF AddPending
      <3>3. AddPending(g)' => AddPending(g)
        <4> SUFFICES ASSUME NEW i \in 1..(m + 1), updates'[i].kind = "add",
                            updates'[i].handle = g, updates'[i].by = handles'[g].data
                     PROVE  AddPending(g)
          BY <1>1, <2>5 DEF AddPending
        <4>1. i # m + 1
          BY <2>5, <2>10
        <4>2. i \in 1..m
          BY <2>5, <4>1
        <4> QED
          BY <1>1, <2>0, <2>5, <3>1, <4>2 DEF AddPending
      <3> QED
        BY <3>2, <3>3
    <2>11. AddPending(h)'
      <3>1. m + 1 \in 1..(m + 1)
        BY <2>5
      <3> QED
        BY <1>1, <2>3, <2>5, <3>1 DEF AddPending
    <2>12. \A g \in Slots : Live(g)' => AddPending(g)' \/ polled'[handles'[g].fd] # Free
      <3> SUFFICES ASSUME NEW g \in Slots, Live(g)'
                   PROVE  AddPending(g)' \/ polled'[handles'[g].fd] # Free
        OBVIOUS
      <3>1. CASE g # h
        BY <1>1, <2>4, <2>10, <3>1 DEF Queue
      <3> QED
        BY <2>11, <3>1
    <2>13. \A g \in Slots :
              Live(g)' /\ AddPending(g)' /\ polled'[handles'[g].fd] # Free => MixedUp(g)'
      <3> SUFFICES ASSUME NEW g \in Slots, Live(g)', AddPending(g)', polled'[handles'[g].fd] # Free
                   PROVE  FALSE
        OBVIOUS
      <3>1. g # h
        BY <1>1, <2>3, <2>9
      <3>2. MixedUp(g)
        BY <1>1, <2>4, <2>10, <3>1 DEF Queue
      <3> QED
        BY <1>1, <3>2 DEF MixedUp
    <2> QED
      BY <1>1, <2>5, <2>7, <2>8, <2>12, <2>13 DEF Queue
  <1> QED
    BY <1>2, <1>3

\* request_updates queues a change after the add of the same data.
LEMMA QueueRequest ==
    ASSUME Types, Queue, NEW h \in Slots, NEW kind \in Kinds, NEW flag \in Flags,
           Request(h, kind, {flag}), Tables
    PROVE  Queue'
  <1>0. PICK m : m = Len(updates)
    OBVIOUS
  <1>00. PICK new : new = [handle |-> h, kind |-> kind, flags |-> {flag}, by |-> handles[h].data]
    OBVIOUS
  <1>1. /\ handles' = handles /\ polled' = polled /\ loop' = loop
        /\ loop.at \in {"io callback", "timer callback"} /\ Live(h)
        /\ updates' = Append(updates, new)
    BY <1>00 DEF Request, InCallback, LiveSlots, Live
  <1>2. spent'.calls = spent.calls + 1 /\ spent.calls \in Nat
    BY DEF Request, Call, Types, Spent
  <1>3. Done = 0 /\ Done' = 0
    BY <1>1 DEF Done
  <1>4. /\ m \in Nat /\ Len(updates') = m + 1 /\ updates'[m + 1] = new
        /\ \A i \in 1..m : updates'[i] = updates[i]
    <2>1. updates \in Seq(UpdateOf)
      BY DEF Types
    <2>2. updates' = Append(updates, new)
      BY <1>1
    <2> QED
      BY <1>0, <2>1, <2>2
  <1>5. new.kind # "add" /\ new.by <= spent.calls /\ new.by \in Nat
    <2>1. new.kind = kind /\ new.by = handles[h].data
      BY <1>00
    <2>2. handles[h].data \in Nat /\ handles[h].data <= spent.calls
      <3>1. handles[h] \in Resource
        BY <1>1 DEF Types, Live
      <3> QED
        <4>1. handles[h].data \in Nat
          BY <3>1 DEF Resource, Datas
        <4>2. Live(h)
          BY <1>1
        <4> QED
          BY <4>1, <4>2 DEF Tables
    <2>3. kind # "add"
      BY KindsAssumption
    <2> QED
      BY <2>1, <2>2, <2>3
  <1>6. \A i \in 1..(m + 1) : updates'[i].by <= spent'.calls
    <2> SUFFICES ASSUME NEW i \in 1..(m + 1) PROVE updates'[i].by <= spent'.calls
      OBVIOUS
    <2>1. updates'[i].by <= spent.calls
      <3>1. CASE i = m + 1
        BY <1>4, <1>5, <3>1
      <3>2. CASE i \in 1..m
        BY <1>0, <1>4, <3>2 DEF Queue
      <3> QED
        BY <1>4, <3>1, <3>2
    <2>2. updates'[i].by \in Nat
      <3>1. CASE i = m + 1
        BY <1>4, <1>5, <3>1
      <3>2. CASE i \in 1..m
        <4>1. updates[i] \in UpdateOf
          BY <1>0, <3>2 DEF Types
        <4> QED
          BY <1>4, <3>2, <4>1 DEF UpdateOf, Datas
      <3> QED
        BY <1>4, <3>1, <3>2
    <2> QED
      BY <1>2, <2>1, <2>2
  <1>7. \A i, j \in 1..(m + 1) :
           updates'[i].kind = "add" /\ updates'[j].by = updates'[i].by => i <= j
    <2> SUFFICES ASSUME NEW i \in 1..(m + 1), NEW j \in 1..(m + 1),
                        updates'[i].kind = "add", updates'[j].by = updates'[i].by
                 PROVE  i <= j
      OBVIOUS
    <2>1. i \in 1..m
      BY <1>4, <1>5
    <2>2. CASE j = m + 1
      BY <1>4, <2>1, <2>2
    <2>3. CASE j \in 1..m
      <3>1. updates[i].kind = "add" /\ updates[j].by = updates[i].by
        BY <1>4, <2>1, <2>3
      <3> QED
        BY <1>0, <2>1, <2>3, <3>1 DEF Queue
    <2> QED
      BY <1>4, <2>2, <2>3
  <1>8. \A g \in Slots : /\ Live(g)' <=> Live(g)
                         /\ MixedUp(g)' <=> MixedUp(g)
    <2>1. \A g \in Slots : Live(g)' <=> Live(g)
      BY <1>1 DEF Live
    <2>2. \A g \in Slots : ~MixedUp(g)' /\ ~MixedUp(g)
      BY <1>3 DEF MixedUp
    <2> QED
      BY <2>1, <2>2
  <1>9. ASSUME NEW g \in Slots PROVE AddPending(g)' <=> AddPending(g)
    <2>0. handles' = handles
      BY <1>1
    <2>1. AddPending(g) => AddPending(g)'
      BY <1>0, <1>3, <1>4, <2>0 DEF AddPending
    <2>2. AddPending(g)' => AddPending(g)
      <3> SUFFICES ASSUME NEW i \in 1..(m + 1), updates'[i].kind = "add",
                          updates'[i].handle = g, updates'[i].by = handles[g].data
                   PROVE  AddPending(g)
        BY <1>3, <1>4, <2>0 DEF AddPending
      <3>1. i \in 1..m
        BY <1>4, <1>5
      <3> QED
        BY <1>0, <1>3, <1>4, <3>1 DEF AddPending
    <2> QED
      BY <2>1, <2>2
  <1>10. /\ handles' = handles /\ polled' = polled /\ loop'.at # "terminated"
    BY <1>1
  <1>11. Done' <= Len(updates')
    BY <1>3, <1>4
  <1> QED
    BY <1>4, <1>6, <1>7, <1>8, <1>9, <1>10, <1>11 DEF Queue

\* remove leaves updates behind of a handle that nobody, or another one, has.
LEMMA QueueRemove ==
    ASSUME Types, Tables, Queue,
           NEW h \in Slots, NEW reset \in BOOLEAN, RemoveAndClose(h, reset)
    PROVE  (loop'.at # "stuck" => Queue') /\ loop'.at # "terminated"
  <1>1. /\ handles' = [handles EXCEPT ![h] = Free]
        /\ polled' = [polled EXCEPT ![handles[h].fd] = Free]
        /\ updates' = updates
        /\ loop.at \in {"io callback", "timer callback"} /\ Live(h)
    BY DEF RemoveAndClose, InCallback, LiveSlots, Live, Unwatched
  <1>2. loop'.at \in {loop.at, "stuck"}
    BY DEF RemoveAndClose, Types, Loop
  <1>3. spent'.calls = spent.calls + 1 /\ spent.calls \in Nat
    BY DEF RemoveAndClose, Call, Types, Spent
  <1>4. Done = 0 /\ Done' = 0
    BY <1>1, <1>2 DEF Done
  <1>5. ~Live(h)' /\ \A g \in Slots \ {h} : handles'[g] = handles[g] /\ (Live(g)' <=> Live(g))
    BY <1>1 DEF Types, Live
  <1>6. \A g \in Slots \ {h} : Live(g) => polled'[handles[g].fd] = polled[handles[g].fd]
    <2> SUFFICES ASSUME NEW g \in Slots \ {h}, Live(g)
                 PROVE  polled'[handles[g].fd] = polled[handles[g].fd]
      OBVIOUS
    <2>1. handles[g].fd # handles[h].fd
      BY <1>1, FdsApart
    <2>2. handles[g].fd \in Fds /\ handles[h].fd \in Fds
      BY <1>1 DEF Types, Live, Resource
    <2> QED
      BY <1>1, <2>1, <2>2 DEF Types
  <1>7. \A g \in Slots \ {h} : AddPending(g)' <=> AddPending(g)
    BY <1>1, <1>4, <1>5 DEF AddPending
  <1>8. \A g \in Slots \ {h} : MixedUp(g)' <=> MixedUp(g)
    BY <1>1, <1>4, <1>5 DEF MixedUp
  <1>9. \A i \in 1..Len(updates) : updates[i].by <= spent'.calls
    <2> SUFFICES ASSUME NEW i \in 1..Len(updates) PROVE updates[i].by <= spent'.calls
      OBVIOUS
    <2>1. updates[i].by \in Nat
      <3>1. updates[i] \in UpdateOf
        BY DEF Types
      <3> QED
        BY <3>1 DEF UpdateOf, Datas
    <2> QED
      BY <1>3, <2>1 DEF Queue
  <1>10. loop'.at # "terminated"
    BY <1>1, <1>2
  <1>11. \A g \in Slots : Live(g)' => g # h
    BY <1>5
  <1>12. \A g \in Slots : Live(g)' => AddPending(g)' \/ polled'[handles'[g].fd] # Free
    BY <1>5, <1>6, <1>7, <1>11 DEF Queue
  <1>13. \A g \in Slots :
            Live(g)' /\ AddPending(g)' /\ polled'[handles'[g].fd] # Free => MixedUp(g)'
    BY <1>5, <1>6, <1>7, <1>8, <1>11 DEF Queue
  <1>14. Done' <= Len(updates')
    BY <1>1, <1>4 DEF Queue
  <1> QED
    BY <1>1, <1>9, <1>10, <1>12, <1>13, <1>14 DEF Queue

\* The queue matters until the process dies or hangs.
QueueOrDead == loop.at \notin {"aborted", "undefined", "stuck"} => Queue

\* Every step keeps the queue in order until the process dies, and only
\* process_update terminates the looper.
LEMMA QueueStep ==
    Types /\ Tables /\ QueueOrDead /\ DiesOnlyOfReuse /\ [Next]_vars
        => QueueOrDead' /\ DiesOnlyOfReuse'
  <1> SUFFICES ASSUME Types, Tables, QueueOrDead, DiesOnlyOfReuse, [Next]_vars
               PROVE  QueueOrDead' /\ DiesOnlyOfReuse'
    OBVIOUS
  <1>0. Types' /\ loop \in Loop /\ spent.calls \in Nat /\ spent'.calls \in Nat
    BY TypesStep DEF Types, Spent
  <1>1. ASSUME Queue', loop'.at # "terminated" PROVE QueueOrDead' /\ DiesOnlyOfReuse'
    BY <1>1 DEF QueueOrDead, DiesOnlyOfReuse
  <1>2. CASE ProcessUpdate
    <2>1. Queue
      BY <1>2 DEF ProcessUpdate, QueueOrDead
    <2> QED
      BY <1>2, <2>1, QueueProcessUpdate DEF QueueOrDead
  <1>3. ASSUME NEW fd \in Fds, NEW flags \in {{}, Flags}, Add(fd, flags)
        PROVE  QueueOrDead' /\ DiesOnlyOfReuse'
    <2>1. Queue /\ loop'.at # "terminated"
      BY <1>3 DEF Add, InCallback, QueueOrDead
    <2> QED
      BY <1>0, <1>1, <1>3, <2>1, QueueAdd
  <1>4. ASSUME NEW h \in Slots, NEW kind \in Kinds, NEW flag \in Flags,
               Request(h, kind, {flag})
        PROVE  QueueOrDead' /\ DiesOnlyOfReuse'
    <2>1. Queue /\ loop'.at # "terminated"
      BY <1>4 DEF Request, InCallback, QueueOrDead
    <2> QED
      BY <1>1, <1>4, <2>1, QueueRequest
  <1>5. ASSUME NEW h \in Slots, NEW reset \in BOOLEAN, RemoveAndClose(h, reset)
        PROVE  QueueOrDead' /\ DiesOnlyOfReuse'
    <2>1. Queue
      BY <1>5 DEF RemoveAndClose, InCallback, QueueOrDead
    <2> QED
      BY <1>5, <2>1, QueueRemove DEF QueueOrDead, DiesOnlyOfReuse
  <1>6. CASE UpdatesDone
    <2>1. Queue /\ loop.at = "updates" /\ loop.next = Len(updates) /\ Done = Len(updates)
      BY <1>6 DEF UpdatesDone, QueueOrDead, Done
    <2>2. updates' = <<>> /\ handles' = handles /\ polled' = polled /\ loop'.at = "poll"
      BY <1>0, <1>6 DEF UpdatesDone, Loop
    <2>3. \A h \in Slots : Live(h) => polled[handles[h].fd] # Free
      <3>1. \A h \in Slots : ~AddPending(h)
        <4>1. Len(updates) \in Nat
          BY DEF Types
        <4> QED
          BY <2>1, <4>1 DEF AddPending
      <3> QED
        BY <2>1, <3>1 DEF Queue
    <2>4. Done' = 0 /\ Len(updates') = 0
      BY <2>2 DEF Done
    <2>5. \A h \in Slots : (Live(h)' <=> Live(h)) /\ ~AddPending(h)'
      BY <2>2, <2>4 DEF Live, AddPending
    <2>6. Queue'
      BY <2>2, <2>3, <2>4, <2>5 DEF Queue
    <2> QED
      BY <1>1, <2>2, <2>6
  <1>7. CASE RequestRuns
    <2>1. Queue /\ loop' = loop /\ loop.at = "requests" /\ updates' = updates /\ spent' = spent
      BY <1>7 DEF RequestRuns, QueueOrDead
    <2>2. \A h \in Slots : ~Live(h)'
      BY <1>7 DEF RequestRuns, Live
    <2>3. Done' = Done
      BY <2>1 DEF Done
    <2>4. Queue'
      BY <2>1, <2>2, <2>3 DEF Queue
    <2> QED
      BY <1>1, <2>1, <2>4
  <1>8. ASSUME UNCHANGED <<handles, polled, updates>>, spent.calls <= spent'.calls,
               loop.at \notin {"updates", "terminated", "aborted", "undefined", "stuck"},
               loop'.at \notin {"updates", "terminated"} \/ (loop'.next = 0 /\ loop'.at = "updates")
        PROVE  QueueOrDead' /\ DiesOnlyOfReuse'
    <2>1. Done = 0 /\ Done' = 0 /\ Queue /\ loop'.at # "terminated"
      BY <1>8 DEF Done, QueueOrDead
    <2> QED
      BY <1>0, <1>1, <1>8, <2>1, QueueSame
  <1>9. CASE Poll \/ ProcessEvent \/ EventsDone
    <2>1. loop.at \in {"poll", "events"} /\ UNCHANGED <<handles, polled, updates, spent>>
      BY <1>9 DEF Poll, ProcessEvent, EventsDone
    <2>2. loop'.at \in {"events", "io callback", "timers"}
      <3>1. CASE Poll
        BY <1>0, <3>1 DEF Poll, Loop
      <3>2. CASE ProcessEvent
        BY <1>0, <3>2 DEF ProcessEvent, Loop
      <3>3. CASE EventsDone
        BY <1>0, <3>3 DEF EventsDone, Loop
      <3> QED
        BY <1>9, <3>1, <3>2, <3>3
    <2>3. spent' = spent /\ UNCHANGED <<handles, polled, updates>>
      BY <2>1
    <2>4. spent.calls <= spent'.calls
      BY <1>0, <2>3
    <2>5. loop'.at \notin {"updates", "terminated"}
      BY <2>2
    <2> QED
      BY <1>8, <2>1, <2>3, <2>4, <2>5
  <1>10. CASE VisitTimer \/ TimersDone \/ RequestThrows \/ LoopEnds \/ CallbackEnds
    <2>1. /\ UNCHANGED <<handles, polled, updates, spent>>
          /\ loop.at \notin {"updates", "terminated", "aborted", "undefined", "stuck"}
      BY <1>10 DEF VisitTimer, TimersDone, RequestThrows, LoopEnds, CallbackEnds, InCallback
    <2>2. loop'.at \notin {"updates", "terminated"} \/ (loop'.next = 0 /\ loop'.at = "updates")
      <3>1. CASE VisitTimer
        <4>1. loop'.at \in {"timers", "undefined", "timer callback"}
          BY <1>0, <3>1 DEF VisitTimer, Loop
        <4> QED
          BY <4>1
      <3>2. CASE TimersDone
        <4>1. loop'.at = "requests"
          BY <1>0, <3>2 DEF TimersDone, Loop
        <4> QED
          BY <4>1
      <3>3. CASE RequestThrows
        <4>1. loop' = loop
          BY <3>3 DEF RequestThrows
        <4> QED
          BY <2>1, <4>1
      <3>4. CASE LoopEnds
        BY <3>4 DEF LoopEnds, Idle
      <3>5. CASE CallbackEnds
        <4>1. loop'.at \in {"events", "timers"}
          BY <1>0, <3>5 DEF CallbackEnds, Loop
        <4> QED
          BY <4>1
      <3> QED
        BY <1>10, <3>1, <3>2, <3>3, <3>4, <3>5
    <2>3. spent.calls <= spent'.calls
      BY <1>0, <2>1
    <2> QED
      BY <1>8, <2>1, <2>2, <2>3
  <1>11. ASSUME UNCHANGED <<handles, polled, updates, loop>>, spent'.calls = spent.calls
         PROVE  QueueOrDead' /\ DiesOnlyOfReuse'
    <2>1. Done' = Done /\ LiveSlots' = LiveSlots
      BY <1>11 DEF Done, LiveSlots
    <2>2. \A h \in Slots : /\ Live(h)' <=> Live(h)
                           /\ AddPending(h)' <=> AddPending(h)
                           /\ MixedUp(h)' <=> MixedUp(h)
      BY <1>11, <2>1 DEF Live, AddPending, MixedUp
    <2>3. DiesOnlyOfReuse'
      BY <1>11, <2>1 DEF DiesOnlyOfReuse
    <2>4. Queue => Queue'
      BY <1>11, <2>1, <2>2 DEF Queue
    <2> QED
      BY <1>11, <2>3, <2>4 DEF QueueOrDead
  <1>12. CASE Start \/ Stop \/ UNCHANGED vars
    <2>1. UNCHANGED <<handles, polled, updates, loop>>
      BY <1>12 DEF Start, Stop, vars
    <2>2. spent'.calls = spent.calls
      BY <1>0, <1>12 DEF Start, Stop, vars, Types, Spent
    <2> QED
      BY <1>11, <2>1, <2>2
  <1>13. CASE Wakes
    <2>1. UNCHANGED <<handles, polled, updates, spent>> /\ ~Dead
      BY <1>13 DEF Wakes
    <2>2. loop'.at \in {"aborted", "undefined"} \/ loop' = loop
      BY <1>0, <1>13 DEF Wakes, Loop
    <2> QED
      BY <1>11, <2>1, <2>2 DEF QueueOrDead, DiesOnlyOfReuse
  <1> QED
    BY <1>2, <1>3, <1>4, <1>5, <1>6, <1>7, <1>9, <1>10, <1>12, <1>13 DEF Next, LooperThread

-----------------------------------------------------------------------------
(* Starting and stopping.                                                   *)

\* No resource is in the table.
NoLive == \A h \in Slots : ~Live(h)

\* A step of the looper that leaves the timers and the requests alone, and gets
\* into a callback only for an interface that is there.
LEMMA StopsLoop ==
    ASSUME Stops, UNCHANGED <<timers, requests, user, refused>>,
           InCallback \/ (NoLive => NoLive'),
           loop'.at = loop.at \/ loop.at # "requests",
           InCallback' => \/ InCallback
                          \/ user.does \notin {"idle", "notified"}
                          \/ user.does = "notified" /\ refused # {},
           Dead => Dead',
           loop'.at \in {"timers", "timer callback"} =>
              \A t \in loop'.gone : timers[t] = "stopped",
           loop'.at \in Places \ {"timers", "timer callback"} => loop'.gone = {},
           loop'.at \in {"aborted", "undefined"} => refused # {}
    PROVE  Stops'
  <1>1. (requests # <<>> => user.does = "waiting" /\ requests = <<user.timer>>)'
    BY DEF Stops
  <1>2. (\A t \in Timers : timers[t] = "running" =>
            t \in refused \/ (user.does # "idle" /\ user.timer = t))'
    BY DEF Stops
  <1>3. (user.does = "notified" \/ (user.does = "waiting" /\ requests = <<>>) =>
          /\ user.timer \in refused \/ timers[user.timer] # "running"
          /\ refused = {} => \A h \in Slots : ~Live(h))'
    <2> SUFFICES ASSUME user.does = "notified" \/ (user.does = "waiting" /\ requests = <<>>)
                 PROVE  /\ user.timer \in refused \/ timers[user.timer] # "running"
                        /\ refused = {} => NoLive'
      BY DEF NoLive
    <2>1. refused = {} => NoLive /\ ~InCallback
      BY DEF Stops, NoLive, InCallback
    <2> QED
      BY <2>1 DEF Stops
  <1>4. (user.does = "waiting" /\ requests = <<>> => loop.at = "requests")'
    BY DEF Stops
  <1>5. (user.does = "notified" /\ refused = {} => ~InCallback)'
    BY DEF Stops
  <1>6. (user.does = "idle" /\ ~Dead => ~InCallback /\ \A h \in Slots : ~Live(h))'
    <2> SUFFICES ASSUME user.does = "idle", ~Dead' PROVE ~InCallback' /\ NoLive'
      BY DEF NoLive
    <2>1. ~InCallback /\ NoLive
      BY DEF Stops, NoLive
    <2> QED
      BY <2>1
  <1> QED
    BY <1>1, <1>2, <1>3, <1>4, <1>5, <1>6 DEF Stops

\* No socket of an interface that was stopped is called.
LEMMA StopsProcessEvent == ASSUME Types, Stops, ProcessEvent PROVE Stops'
  <1>1. /\ UNCHANGED <<handles, timers, requests, user, refused>>
        /\ loop.at = "events"
    BY DEF ProcessEvent
  <1>2. PICK r \in loop.results :
          IF Adjusted(r) = {}
          THEN loop' = [loop EXCEPT !.results = @ \ {r}]
          ELSE loop' = [loop EXCEPT !.results = @ \ {r}, !.at = "io callback",
                                      !.run = fd_map[r.fd], !.heard = r.of]
    BY DEF ProcessEvent
  <1>3. loop'.gone = loop.gone /\ loop.gone = {}
    <2>1. loop'.gone = loop.gone
      BY <1>2 DEF Types, Loop
    <2>2. loop.gone = {}
      BY <1>1 DEF Stops, Places
    <2> QED
      BY <2>1, <2>2
  <1>4. loop'.at \in {"events", "io callback"}
    BY <1>1, <1>2 DEF Types, Loop
  <1>5. NoLive => loop'.at = "events"
    <2> SUFFICES ASSUME NoLive PROVE loop'.at = "events"
      OBVIOUS
    <2>1. LiveData = {}
      BY DEF LiveData, LiveSlots, NoLive, Live
    <2>2. Adjusted(r) = {}
      BY <2>1 DEF Adjusted
    <2> QED
      BY <1>1, <1>2, <2>2 DEF Types, Loop
  <1>6. NoLive => NoLive'
    BY <1>1 DEF NoLive, Live
  <1>7. ~Dead /\ ~InCallback
    BY <1>1 DEF Dead, InCallback
  <1>8. InCallback' => user.does \notin {"idle", "notified"} \/ (user.does = "notified" /\ refused # {})
    <2> SUFFICES ASSUME ~NoLive
                 PROVE  user.does # "idle" /\ (user.does = "notified" => refused # {})
      BY <1>4, <1>5 DEF InCallback
    <2> QED
      BY <1>7 DEF Stops, NoLive
  <1> QED
    BY <1>1, <1>3, <1>4, <1>6, <1>7, <1>8, StopsLoop

\* A timer that is called belongs to the interface that is there, or was refused
\* by stop_timer.
LEMMA StopsVisitTimer == ASSUME Types, Stops, VisitTimer PROVE Stops'
  <1>0. PICK t : t = loop.next
    OBVIOUS
  <1>1. /\ UNCHANGED <<handles, timers, requests, user, refused>>
        /\ loop.at = "timers" /\ t \in Timers
    BY <1>0 DEF VisitTimer
  <1> DEFINE due == timers[t] = "running" /\ t \in loop.due
             gone == IF timers[t] = "stopped" THEN loop.gone \cup {t} ELSE loop.gone
             at == CASE ~due       -> loop.at
                     [] Dangles(t) -> "undefined"
                     [] OTHER      -> "timer callback"
  <1>2. loop' = [loop EXCEPT !.next = t + 1, !.gone = gone, !.at = at]
    BY <1>0 DEF VisitTimer
  <1>3. loop'.gone = gone /\ loop'.at = at
    <2> HIDE DEF gone, at
    <2> QED
      BY <1>2 DEF Types, Loop
  <1>4. \A s \in loop'.gone : timers[s] = "stopped"
    BY <1>1, <1>3 DEF Stops
  <1>5. loop'.at \in {"timers", "undefined", "timer callback"}
    BY <1>1, <1>3
  <1>6. loop'.at = "undefined" => refused # {}
    BY <1>1, <1>3 DEF Dangles
  <1>7. loop'.at = "timer callback" =>
           user.does # "idle" /\ (user.does = "notified" => refused # {})
    <2> SUFFICES ASSUME loop'.at = "timer callback"
                 PROVE  user.does # "idle" /\ (user.does = "notified" => refused # {})
      OBVIOUS
    <2>1. timers[t] = "running" /\ ~Dangles(t)
      BY <1>1, <1>3
    <2>2. t \in refused \/ (user.does # "idle" /\ user.timer = t)
      BY <1>1, <2>1 DEF Stops
    <2>3. user.does # "idle"
      BY <2>1, <2>2 DEF Dangles
    <2>4. user.does = "notified" => user.timer \in refused \/ timers[user.timer] # "running"
      BY DEF Stops
    <2> QED
      BY <2>1, <2>2, <2>3, <2>4
  <1>8. NoLive => NoLive'
    BY <1>1 DEF NoLive, Live
  <1>9. ~Dead /\ ~InCallback
    BY <1>1 DEF Dead, InCallback
  <1>10. InCallback' => user.does \notin {"idle", "notified"} \/ (user.does = "notified" /\ refused # {})
    BY <1>5, <1>7 DEF InCallback
  <1>11. loop'.at \notin Places \ {"timers", "timer callback"}
    BY <1>5 DEF Places
  <1> HIDE DEF due, gone, at
  <1> QED
    BY <1>1, <1>4, <1>5, <1>6, <1>8, <1>9, <1>10, <1>11, StopsLoop

\* process_timers frees the slots of stopped timers only.
LEMMA StopsTimersDone == ASSUME Types, Stops, TimersDone PROVE Stops'
  <1>1. /\ UNCHANGED <<handles, requests, user, refused>>
        /\ loop.at = "timers"
        /\ timers' = [t \in Timers |-> IF t \in loop.gone THEN Free ELSE timers[t]]
    BY DEF TimersDone
  <1>2. loop'.at = "requests" /\ loop'.gone = {}
    BY DEF TimersDone, Types, Loop
  <1>3. \A t \in Timers : timers'[t] = "running" => timers[t] = "running"
    BY <1>1, FreeFacts
  <1>4. ~Dead /\ ~InCallback /\ ~InCallback' /\ ~Dead'
    BY <1>1, <1>2 DEF Dead, InCallback
  <1>5. user.timer \in Timers
    BY DEF Types, User
  <1>6. \A h \in Slots : Live(h)' <=> Live(h)
    BY <1>1 DEF Live
  <1> QED
    BY <1>1, <1>2, <1>3, <1>4, <1>5, <1>6 DEF Stops

\* The request of stop stops its timer and closes every socket.
LEMMA StopsRequestRuns == ASSUME Types, Stops, RequestRuns PROVE Stops'
  <1>1. /\ UNCHANGED <<loop, user, refused>> /\ loop.at = "requests"
        /\ requests # <<>> /\ requests' = Tail(requests)
        /\ timers' = [timers EXCEPT ![Head(requests)] = "stopped"]
    BY DEF RequestRuns, stop_timer
  <1>2. user.does = "waiting" /\ requests = <<user.timer>> /\ user.timer \in Timers
    BY <1>1 DEF Stops, Types, User
  <1>3. Head(requests) = user.timer /\ Tail(requests) = <<>>
    BY <1>2
  <1>4. timers' = [timers EXCEPT ![user.timer] = "stopped"] /\ requests' = <<>>
    BY <1>1, <1>3
  <1>5. /\ timers'[user.timer] = "stopped"
        /\ \A t \in Timers : timers'[t] = "running" => timers[t] = "running"
    BY <1>2, <1>4 DEF Types
  <1>6. \A h \in Slots : ~Live(h)'
    BY DEF RequestRuns, Live
  <1>7. ~InCallback'
    BY <1>1 DEF InCallback
  <1>8. loop'.at \notin {"timers", "timer callback", "aborted", "undefined"} /\ loop'.gone = {}
    BY <1>1 DEF Stops, Places
  <1> QED
    BY <1>1, <1>2, <1>4, <1>5, <1>6, <1>7, <1>8 DEF Stops

\* stop_timer throws: the timer is one of the refused.
LEMMA StopsRequestThrows == ASSUME Types, Stops, RequestThrows PROVE Stops'
  <1>1. /\ UNCHANGED <<handles, timers, loop, user>> /\ loop.at = "requests"
        /\ requests # <<>> /\ requests' = Tail(requests)
        /\ refused' = refused \cup {Head(requests)}
    BY DEF RequestThrows
  <1>2. user.does = "waiting" /\ requests = <<user.timer>>
    BY <1>1 DEF Stops
  <1>3. Head(requests) = user.timer /\ Tail(requests) = <<>>
    BY <1>2
  <1>4. refused' = refused \cup {user.timer} /\ requests' = <<>>
    BY <1>1, <1>3
  <1>5. loop'.at \notin {"timers", "timer callback", "aborted", "undefined"} /\ loop'.gone = {}
    BY <1>1 DEF Stops, Places
  <1> QED
    BY <1>1, <1>2, <1>4, <1>5 DEF Stops

\* The thread that waits is told when its request was executed.
LEMMA StopsLoopEnds == ASSUME Types, Stops, LoopEnds PROVE Stops'
  <1>1. /\ UNCHANGED <<handles, timers, requests, refused>>
        /\ loop.at = "requests" /\ requests = <<>>
        /\ loop'.at = "updates" /\ loop'.gone = {}
    BY DEF LoopEnds, Idle
  <1>2. /\ user'.does = IF user.does = "waiting" THEN "notified" ELSE user.does
        /\ user'.timer = user.timer
    BY DEF LoopEnds, Types, User
  <1>3. \A h \in Slots : Live(h)' <=> Live(h)
    BY <1>1 DEF Live
  <1>4. ~InCallback' /\ ~Dead /\ user'.does # "waiting"
    BY <1>1, <1>2 DEF InCallback, Dead
  <1>5. user'.does = "idle" <=> user.does = "idle"
    BY <1>2
  <1>6. user'.does = "notified" => user.does \in {"notified", "waiting"}
    BY <1>2
  <1> QED
    BY <1>1, <1>2, <1>3, <1>4, <1>5, <1>6 DEF Stops

\* start takes a free timer slot, which no pass of process_timers is to free.
LEMMA StopsStart == ASSUME Types, Stops, Start PROVE Stops'
  <1>0. PICK t : t = Least({u \in Timers : timers[u] = Free})
    OBVIOUS
  <1>1. t \in Timers /\ timers[t] = Free
    BY <1>0, StartTimer DEF Start
  <1>2. /\ UNCHANGED <<handles, requests, loop, refused>>
        /\ user.does = "idle" /\ ~Dead
        /\ timers' = [timers EXCEPT ![t] = "running"]
        /\ user' = [does |-> "running", timer |-> t]
    BY <1>0 DEF Start
  <1>3. requests = <<>>
    BY <1>2 DEF Stops
  <1>4. \A s \in Timers \ {t} : timers'[s] = timers[s]
    BY <1>1, <1>2 DEF Types
  <1>5. ASSUME loop.at \in {"timers", "timer callback"}, NEW s \in loop.gone
        PROVE  timers'[s] = "stopped"
    <2>1. timers[s] = "stopped" /\ s \in Timers
      BY <1>5 DEF Stops, Types, Loop
    <2> QED
      BY <1>1, <1>4, <2>1, FreeFacts
  <1>6. user'.does = "running" /\ user'.timer = t
    BY <1>2
  <1> QED
    BY <1>2, <1>3, <1>4, <1>5, <1>6 DEF Stops

\* stop queues the only request there is.
LEMMA StopsStop == ASSUME Types, Stops, Stop PROVE Stops'
  <1>1. /\ UNCHANGED <<handles, timers, loop, refused>>
        /\ user.does = "running" /\ ~Dead
        /\ requests' = Append(requests, user.timer)
    BY DEF Stop
  <1>2. requests' = <<user.timer>>
    <2>1. requests = <<>>
      BY <1>1 DEF Stops
    <2> QED
      BY <1>1, <2>1
  <1>3. user'.does = "waiting" /\ user'.timer = user.timer
    BY DEF Stop, Types, User
  <1>4. requests' # <<>>
    BY <1>2
  <1> QED
    BY <1>1, <1>2, <1>3, <1>4 DEF Stops

\* stop returns to an interface without sockets, or its request was refused.
LEMMA StopsWakes == ASSUME Types, Stops, Wakes PROVE Stops'
  <1>1. /\ UNCHANGED <<handles, timers, requests, refused>>
        /\ user.does = "notified" /\ ~Dead
        /\ user' = [does |-> "idle", timer |-> 0]
    BY DEF Wakes
  <1>2. /\ loop'.at = CASE LiveSlots # {} -> "aborted"
                        [] InCallback     -> "undefined"
                        [] OTHER          -> loop.at
        /\ loop'.gone = loop.gone
    BY DEF Wakes, Types, Loop
  <1>3. requests = <<>>
    BY <1>1 DEF Stops
  <1>4. \A t \in Timers : timers[t] = "running" => t \in refused
    BY <1>1 DEF Stops
  <1>5. CASE LiveSlots # {} \/ InCallback
    <2>1. loop'.at \in {"aborted", "undefined"}
      BY <1>2, <1>5
    <2>2. refused # {}
      <3>1. CASE LiveSlots # {}
        BY <1>1, <3>1 DEF Stops, LiveSlots, Live
      <3>2. CASE InCallback
        BY <1>1, <3>2 DEF Stops
      <3> QED
        BY <1>5, <3>1, <3>2
    <2>3. Dead' /\ loop'.at \notin Places
      BY <2>1 DEF Dead, Places
    <2>4. loop'.at \notin {"timers", "timer callback"}
      BY <2>1
    <2> QED
      BY <1>1, <1>3, <1>4, <2>2, <2>3, <2>4 DEF Stops
  <1>6. CASE LiveSlots = {} /\ ~InCallback
    <2>1. loop'.at = loop.at
      BY <1>2, <1>6
    <2>2. ~InCallback' /\ ~Dead'
      BY <1>1, <1>6, <2>1 DEF InCallback, Dead
    <2>3. \A h \in Slots : ~Live(h)'
      BY <1>1, <1>6 DEF LiveSlots, Live
    <2> QED
      BY <1>1, <1>2, <1>3, <1>4, <2>1, <2>2, <2>3 DEF Stops
  <1> QED
    BY <1>5, <1>6

\* Every step keeps what a stop promises.
LEMMA StopsStep == Types /\ Stops /\ [Next]_vars => Stops'
  <1> SUFFICES ASSUME Types, Stops, [Next]_vars PROVE Stops'
    OBVIOUS
  <1>0. loop \in Loop
    BY DEF Types
  <1>1. ASSUME NEW fd \in Fds, NEW flags \in {{}, Flags}, Add(fd, flags) PROVE Stops'
    <2>1. UNCHANGED <<timers, requests, user, refused, loop>> /\ InCallback /\ InCallback' /\ Dead' = Dead
      BY <1>1 DEF Add, Others, InCallback, Dead
    <2> QED
      BY <2>1, StopsLoop DEF Stops
  <1>2. ASSUME NEW h \in Slots, NEW kind \in Kinds, NEW flag \in Flags,
               Request(h, kind, {flag})
        PROVE  Stops'
    <2>1. UNCHANGED <<timers, requests, user, refused, loop>> /\ InCallback /\ InCallback' /\ Dead' = Dead
      BY <1>2 DEF Request, Others, InCallback, Dead
    <2> QED
      BY <2>1, StopsLoop DEF Stops
  <1>3. ASSUME NEW h \in Slots, NEW reset \in BOOLEAN, RemoveAndClose(h, reset) PROVE Stops'
    <2>1. UNCHANGED <<timers, requests, user, refused>> /\ InCallback
      BY <1>3 DEF RemoveAndClose, Others
    <2>2. loop'.at \in {loop.at, "stuck"} /\ loop'.gone = loop.gone
      BY <1>0, <1>3 DEF RemoveAndClose, Loop
    <2>3. ~Dead /\ loop.at # "requests"
      BY <2>1 DEF InCallback, Dead
    <2>4. "stuck" \notin Places \cup {"timers", "timer callback", "aborted", "undefined"}
      BY DEF Places
    <2> QED
      BY <2>1, <2>2, <2>3, <2>4, StopsLoop DEF Stops
  <1>4. CASE ProcessUpdate \/ UpdatesDone \/ Poll \/ EventsDone
    <2>1. /\ UNCHANGED <<timers, requests, user, refused>>
          /\ loop.at \in {"updates", "poll", "events"}
      BY <1>4 DEF ProcessUpdate, UpdatesDone, Poll, EventsDone
    <2>2. loop.gone = {} /\ ~Dead /\ ~InCallback
      BY <2>1 DEF Stops, Places, Dead, InCallback
    <2>3. loop'.gone = loop.gone /\ loop'.at \in {"updates", "terminated", "poll", "events", "timers"}
      <3>1. CASE ProcessUpdate
        BY <1>0, <3>1 DEF ProcessUpdate, process_update, Loop
      <3>2. CASE UpdatesDone
        BY <1>0, <3>2 DEF UpdatesDone, Loop
      <3>3. CASE Poll
        BY <1>0, <3>3 DEF Poll, Loop
      <3>4. CASE EventsDone
        BY <1>0, <3>4 DEF EventsDone, Loop
      <3> QED
        BY <1>4, <3>1, <3>2, <3>3, <3>4
    <2>4. NoLive => NoLive'
      <3>1. CASE ProcessUpdate
        BY <3>1, ProcessUpdateFacts DEF NoLive
      <3>2. CASE UpdatesDone \/ Poll \/ EventsDone
        BY <3>2 DEF UpdatesDone, Poll, EventsDone, NoLive, Live
      <3> QED
        BY <1>4, <3>1, <3>2
    <2>5. ~InCallback'
      BY <2>3 DEF InCallback
    <2> QED
      BY <2>1, <2>2, <2>3, <2>4, <2>5, StopsLoop
  <1>5. CASE CallbackEnds
    <2>1. UNCHANGED <<timers, requests, user, refused>> /\ InCallback
      BY <1>5 DEF CallbackEnds
    <2>2. /\ loop'.at = IF loop.at = "io callback" THEN "events" ELSE "timers"
          /\ loop'.gone = loop.gone
      BY <1>0, <1>5 DEF CallbackEnds, Loop
    <2>3. ~InCallback' /\ ~Dead /\ loop.at # "requests"
      BY <2>1, <2>2 DEF InCallback, Dead
    <2>4. /\ loop'.at = "timers" => \A t \in loop'.gone : timers[t] = "stopped"
          /\ loop'.at = "events" => loop'.gone = {}
      BY <2>1, <2>2 DEF Stops, InCallback, Places
    <2>5. loop'.at \in {"timers", "events"}
      BY <2>2
    <2> QED
      BY <2>1, <2>3, <2>4, <2>5, StopsLoop
  <1>6. CASE UNCHANGED vars
    <2>1. UNCHANGED <<handles, timers, requests, user, refused, loop>>
      BY <1>6 DEF vars
    <2> QED
      BY <2>1, StopsLoop DEF Stops, NoLive, Live, InCallback, Dead
  <1> QED
    BY <1>1, <1>2, <1>3, <1>4, <1>5, <1>6, StopsProcessEvent, StopsVisitTimer, StopsTimersDone,
       StopsRequestRuns, StopsRequestThrows, StopsLoopEnds, StopsStart, StopsStop, StopsWakes
       DEF Next, LooperThread

-----------------------------------------------------------------------------
(* The invariant, and what it is for.                                       *)

\* The loop that was just made satisfies the invariant.
LEMMA InitIInv == Init => IInv
  <1> SUFFICES ASSUME Init PROVE IInv
    OBVIOUS
  <1>1. /\ handles = [h \in Slots |-> Free] /\ fd_map = [fd \in Fds |-> 0]
        /\ polled = [fd \in Fds |-> Free] /\ updates = <<>>
        /\ timers = [t \in Timers |-> Free] /\ requests = <<>> /\ refused = {}
        /\ user = [does |-> "idle", timer |-> 0] /\ mutex = "free"
        /\ spent = [calls |-> 0, starts |-> 0]
        /\ loop.at = "updates" /\ loop.results = {} /\ loop.run = 0 /\ loop.next = 0
        /\ loop.gone = {}
    BY DEF Init, Idle
  <1>2. loop \in Loop
    BY DEF Init, Idle, Loop, Places
  <1>3. Types
    BY <1>1, <1>2, CapacityAssumption, BoundsAssumption DEF Types, User, Spent, Timers
  <1>4. \A h \in Slots : ~Live(h)
    BY <1>1 DEF Live
  <1>5. Tables
    BY <1>1, <1>4 DEF Tables
  <1>6. Hearing
    BY <1>1 DEF Hearing
  <1>7. Done = 0 /\ Len(updates) = 0
    BY <1>1 DEF Done
  <1>8. Queue
    BY <1>1, <1>4, <1>7 DEF Queue
  <1>9. DiesOnlyOfReuse
    BY <1>1 DEF DiesOnlyOfReuse
  <1>10. Stops
    BY <1>1, <1>4, FreeFacts DEF Stops, InCallback
  <1> QED
    BY <1>3, <1>5, <1>6, <1>8, <1>9, <1>10 DEF IInv

\* IInv is inductive: it holds at first and every step keeps it.
THEOREM Inductive == Spec => []IInv
  <1>1. IInv /\ [Next]_vars => IInv'
    <2> SUFFICES ASSUME IInv, [Next]_vars PROVE IInv'
      OBVIOUS
    <2>1. Types /\ Tables /\ Hearing /\ QueueOrDead /\ DiesOnlyOfReuse /\ Stops
      BY DEF IInv, QueueOrDead
    <2>2. Types' /\ Tables' /\ Hearing' /\ QueueOrDead' /\ DiesOnlyOfReuse' /\ Stops'
      BY <2>1, TypesStep, TablesStep, HearingStep, QueueStep, StopsStep
    <2> QED
      BY <2>2 DEF IInv, QueueOrDead
  <1> QED
    BY InitIInv, <1>1, PTL DEF Spec

\* TypeOK: the tables of the loop hold what they are for, and m_fd_map leads
\* from the descriptor of every resource to its data.
THEOREM TypeCorrect == Spec => []TypeOK
  <1>1. IInv => TypeOK
    BY DEF IInv, Types, Tables, TypeOK, Resource, LiveSlots, Live
  <1> QED
    BY Inductive, <1>1, PTL

\* process_events runs a callback with events of its own resource only.
THEOREM CallbacksHearTheirOwn == Spec => []HeardIsForMe
  <1>1. IInv => HeardIsForMe
    <2> SUFFICES ASSUME IInv PROVE HeardIsForMe
      OBVIOUS
    <2>1. \A r \in loop.results : fd_map[r.fd] \in LiveData \cup {0}
      BY DEF IInv, Hearing, LiveData, LiveSlots, Live
    <2> QED
      BY <2>1 DEF IInv, Hearing, HeardIsForMe
  <1> QED
    BY Inductive, <1>1, PTL

\* The poller watches open descriptors, for the events their data want.
THEOREM PollerWatchesTheOpen == Spec => []PollerAgrees
  <1>1. IInv => PollerAgrees
    BY DEF IInv, Tables, PollerAgrees, LiveSlots, Live
  <1> QED
    BY Inductive, <1>1, PTL

\* process_update throws only over a request whose slot another resource took.
THEOREM LoopDiesOnlyOfReuse == Spec => []DiesOnlyOfReuse
  <1>1. IInv => DiesOnlyOfReuse
    BY DEF IInv
  <1> QED
    BY Inductive, <1>1, PTL

\* A stop that returned left no socket, no watched descriptor and no timer but
\* those stop_timer refused.
THEOREM StopIsComplete == Spec => []StopLeavesNothing
  <1>1. IInv => StopLeavesNothing
    <2> SUFFICES ASSUME IInv PROVE StopLeavesNothing
      OBVIOUS
    <2>1. loop.at \in {"aborted", "undefined"} => refused # {}
      BY DEF IInv, Stops
    <2>2. ASSUME user.does = "idle", ~Dead
          PROVE  LiveSlots = {} /\ Watched = {} /\ \A t \in Timers : timers[t] = "running" => t \in refused
      <3>1. \A h \in Slots : ~Live(h)
        BY <2>2 DEF IInv, Stops
      <3>2. LiveSlots = {}
        BY <3>1 DEF LiveSlots, Live
      <3>3. Watched = {}
        BY <3>1 DEF IInv, Tables, Watched
      <3>4. \A t \in Timers : timers[t] = "running" => t \in refused
        BY <2>2 DEF IInv, Stops
      <3> QED
        BY <3>2, <3>3, <3>4
    <2> QED
      BY <2>1, <2>2 DEF StopLeavesNothing
  <1> QED
    BY Inductive, <1>1, PTL
=============================================================================
