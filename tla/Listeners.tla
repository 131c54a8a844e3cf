------------------------------ MODULE Listeners ------------------------------
(***************************************************************************)
(* obsr::storage::listener_storage (src/src/storage/listener_storage.cpp): *)
(* API and looper threads queue events and create, destroy and restamp     *)
(* listeners under m_mutex, while the storage's own thread hands the first *)
(* event to one listener after the other and lets go of the mutex for the  *)
(* time of each callback.                                                  *)
(*                                                                         *)
(* A listener is one slot of a handle_table (util/handles.h).              *)
(***************************************************************************)
EXTENDS Integers, Sequences, FiniteSets

CONSTANTS
    Paths,      \* where events happen
    Prefixes,   \* what listeners listen to
    Hears,      \* Prefixes -> SUBSET Paths: the paths that contain each prefix
    Capacity,   \* slots of m_listeners (16 in the code)
    Offsets,    \* what a clock sync may measure
    MaxRaw, MaxEvents, MaxListeners, MaxSyncs   \* bounds

ASSUME HearsAssumption == Hears \in [Prefixes -> SUBSET Paths]
ASSUME CapacityAssumption == Capacity \in Nat \ {0}
ASSUME OffsetsAssumption == Offsets \subseteq Int
ASSUME BoundsAssumption == MaxEvents \in Nat /\ MaxListeners \in Nat

\* The definitions named Faulty... are variants with a mistake the code could
\* have made; the specification does not use them.

VARIABLES
    slots,      \* m_listeners
    pending,    \* m_pending_events
    thread,     \* where thread_main is, in which slot, with which listener
    running,    \* m_thread_loop_run
    unheard,    \* the destructor notified between the thread's look and its sleep
    clock,      \* the system clock, m_offset, and whether on_clock_resync is due
    made,       \* events and listeners made, and clock syncs, so far
    heard       \* the events each listener's callback was called with

vars == <<slots, pending, thread, running, unheard, clock, made, heard>>

Slots == 1..Capacity
Free == [n |-> 0]
Used(i) == slots[i] # Free
now == clock.raw - clock.offset

\* Changes with every step that moves the clock or the stamps taken from it.
Epoch == 2 * made.syncs - (IF clock.due THEN 1 ELSE 0)

\* The thread keeps the mutex from its look at the queue to its sleep, and
\* from one listener to the next.
Unlocked == thread.at \notin {"falling asleep", "advancing"}
At(place) == [at |-> place, slot |-> 0, listener |-> Free]

-----------------------------------------------------------------------------
Init ==
    /\ slots = [i \in Slots |-> Free]
    /\ pending = <<>>
    /\ thread = At("looking")
    /\ running = TRUE
    /\ unheard = FALSE
    /\ clock = [raw |-> 0, offset |-> 0, due |-> FALSE]
    /\ made = [events |-> 0, listeners |-> 0, syncs |-> 0]
    /\ heard = [n \in 1..MaxListeners |-> <<>>]

\* Threads of the program and of the looper call in while the instance lives.
Calling == running /\ Unlocked

\* Who is to hear an event on p: every listener whose stamp is of this epoch.
Audience(p) ==
    {slots[i].n : i \in {j \in Slots :
        Used(j) /\ slots[j].epoch = Epoch /\ p \in Hears[slots[j].prefix]}}

FaultyWokenLate(at) == IF at = "asleep" /\ pending # <<>> THEN "looking" ELSE at

\* m_has_events.notify_all()
Woken(at) == IF at = "asleep" THEN "looking" ELSE at

\* notify; the number, the audience and the epoch are not in the code.
Notify(p) ==
    /\ Calling
    /\ made.events < MaxEvents
    /\ pending' = Append(pending, [n |-> made.events + 1, path |-> p, ts |-> now,
                                   audience |-> Audience(p), epoch |-> Epoch])
    /\ thread' = [thread EXCEPT !.at = Woken(@)]
    /\ made' = [made EXCEPT !.events = @ + 1]
    /\ UNCHANGED <<slots, running, unheard, clock, heard>>

\* create_listener, in the first free slot.
Create(prefix) ==
    /\ Calling
    /\ made.listeners < MaxListeners
    /\ \E i \in Slots :
          /\ ~Used(i) /\ \A j \in 1..(i - 1) : Used(j)
          /\ slots' = [slots EXCEPT ![i] = [n |-> made.listeners + 1,
                                            prefix |-> prefix, since |-> now,
                                            epoch |-> Epoch]]
    /\ made' = [made EXCEPT !.listeners = @ + 1]
    /\ UNCHANGED <<pending, thread, running, unheard, clock, heard>>

\* destroy_listener
Destroy(i) ==
    /\ Calling
    /\ Used(i)
    /\ slots' = [slots EXCEPT ![i] = Free]
    /\ UNCHANGED <<pending, thread, running, unheard, clock, made, heard>>

Tick ==
    /\ clock.raw < MaxRaw
    /\ clock' = [clock EXCEPT !.raw = @ + 1]
    /\ UNCHANGED <<slots, pending, thread, running, unheard, made, heard>>

\* clock::sync on the looper's thread.
Sync(offset) ==
    /\ running
    /\ ~clock.due
    /\ made.syncs < MaxSyncs
    /\ clock' = [clock EXCEPT !.offset = offset, !.due = TRUE]
    /\ made' = [made EXCEPT !.syncs = @ + 1]
    /\ UNCHANGED <<slots, pending, thread, running, unheard, heard>>

\* adjust_time
Adjusted(ts) == ts - clock.offset

\* on_clock_resync, some time after the sync that made it due.
Resync ==
    /\ Calling
    /\ clock.due
    /\ pending' = [k \in DOMAIN pending |-> [pending[k] EXCEPT !.ts = Adjusted(@)]]
    /\ slots' = [i \in Slots |->
                    IF Used(i) THEN [slots[i] EXCEPT !.since = Adjusted(@)] ELSE Free]
    /\ clock' = [clock EXCEPT !.due = FALSE]
    /\ UNCHANGED <<thread, running, unheard, made, heard>>

\* The destructor, which does not take the mutex.
Stop ==
    /\ running
    /\ running' = FALSE
    /\ unheard' = (thread.at = "falling asleep")
    /\ thread' = [thread EXCEPT !.at = Woken(@)]
    /\ UNCHANGED <<slots, pending, clock, made, heard>>

-----------------------------------------------------------------------------
(* thread_main                                                              *)

\* The head of the loop and the predicate of the wait.
Look ==
    /\ thread.at = "looking"
    /\ thread' = IF ~running THEN At("done")
                 ELSE IF pending = <<>> THEN At("falling asleep") ELSE At("advancing")
    /\ UNCHANGED <<slots, pending, running, unheard, clock, made, heard>>

\* The rest of the wait: it goes to sleep and lets go of the mutex at once.
FallAsleep ==
    /\ thread.at = "falling asleep"
    /\ thread' = At("asleep")
    /\ UNCHANGED <<slots, pending, running, unheard, clock, made, heard>>

FaultyNextSlots(i) == {j \in Slots : j > i}

\* iterator::iterate_to_next_element
NextSlots(i) == {j \in Slots : j > i /\ Used(j)}

\* The next listener of the first event, which is dropped after the last one.
Advance ==
    /\ thread.at = "advancing"
    /\ \/ \E j \in NextSlots(thread.slot) :
            /\ \A k \in NextSlots(thread.slot) : j <= k
            /\ thread' = [at |-> "calling", slot |-> j, listener |-> slots[j]]
            /\ UNCHANGED pending
       \/ /\ NextSlots(thread.slot) = {}
          /\ pending' = Tail(pending)
          /\ thread' = At(IF Len(pending) = 1 THEN "looking" ELSE "advancing")
    /\ UNCHANGED <<slots, running, unheard, clock, made, heard>>

Alive(l) == slots[thread.slot].n = l.n

FaultyWants(l, e) == e.ts > l.since /\ e.path \in Hears[l.prefix]

\* listener_data::invoke
Wants(l, e) == e.ts >= l.since /\ e.path \in Hears[l.prefix]

FaultyReturnTo(slot) == [At("advancing") EXCEPT !.slot = slot - 1]
ReturnTo(slot) == [At("advancing") EXCEPT !.slot = slot]

\* The callback, with the mutex open.  A listener destroyed since then is read
\* from freed memory: its callback may be called or not.
Call ==
    /\ thread.at = "calling"
    /\ LET l == thread.listener
           e == Head(pending)
       IN  \E called \in IF Alive(l) THEN {Wants(slots[thread.slot], e)} ELSE BOOLEAN :
              heard' = IF called THEN [heard EXCEPT ![l.n] = Append(@, e.n)] ELSE heard
    /\ thread' = ReturnTo(thread.slot)
    /\ UNCHANGED <<slots, pending, running, unheard, clock, made>>

-----------------------------------------------------------------------------
ThreadNext == Look \/ FallAsleep \/ Advance \/ Call

CallerNext ==
    \/ \E p \in Paths : Notify(p)
    \/ \E prefix \in Prefixes : Create(prefix)
    \/ \E i \in Slots : Destroy(i)
    \/ \E offset \in Offsets : Sync(offset)
    \/ Resync
    \/ Stop

Next == ThreadNext \/ CallerNext \/ Tick

\* The scheduler lets the thread run; nobody has to call in.
Spec == Init /\ [][Next]_vars /\ WF_vars(ThreadNext)

-----------------------------------------------------------------------------
ListenerType == [n: 1..MaxListeners, prefix: Prefixes, since: Int, epoch: Int]
EventType == [n: 1..MaxEvents, path: Paths, ts: Int,
              audience: SUBSET (1..MaxListeners), epoch: Int]

\* The type invariant of the listener storage.
TypeOK ==
    /\ slots \in [Slots -> ListenerType \cup {Free}]
    /\ pending \in Seq(EventType)
    /\ thread.at \in {"looking", "falling asleep", "asleep", "advancing", "calling", "done"}
    /\ thread.slot \in Slots \cup {0}
    /\ thread.listener \in ListenerType \cup {Free}
    /\ thread.at = "calling" => thread.listener # Free /\ pending # <<>>
    /\ running \in BOOLEAN /\ unheard \in BOOLEAN
    /\ clock.offset \in Int /\ clock.due \in BOOLEAN
    /\ heard \in [1..MaxListeners -> Seq(1..MaxEvents)]

\* However listeners come and go while an event is handed out, each callback is
\* called in the order of the events and never twice with one of them.
HeardInOrder ==
    \A n \in 1..MaxListeners : \A i, j \in DOMAIN heard[n] :
        i < j => heard[n][i] < heard[n][j]

Listening == {slots[i].n : i \in {j \in Slots : Used(j)}}
HeardBy(n) == {heard[n][i] : i \in DOMAIN heard[n]}

\* When thread_main drops an event, every listener that was there when it
\* happened and still is has been called with it, as long as no clock sync
\* shifted the stamps since the listener was made.
NobodyMissed ==
    [][pending # <<>> /\ pending' = Tail(pending) =>
          LET e == Head(pending)
          IN  e.epoch = Epoch =>
                  \A n \in e.audience \cap Listening : e.n \in HeardBy(n)]_vars

\* Every event is handed out sooner or later, or the storage is torn down:
\* no wake-up of the thread is lost between its look at the queue and its wait.
EveryEventHandedOut ==
    \A k \in 1..MaxEvents :
        (\E i \in DOMAIN pending : pending[i].n = k)
            ~> (~running \/ \A i \in DOMAIN pending : pending[i].n # k)

\* The destructor's join returns, whatever the thread is at when it is told to
\* stop, but for the moment between the look at the queue and the sleep, which
\* the destructor does not wait out because it does not take the mutex.
TearDownEnds == ~running /\ ~unheard ~> thread.at = "done"
=============================================================================
