--------------------------- MODULE ListenersProofs ---------------------------
(***************************************************************************)
(* Theorems about the listener storage, for any number of listeners,       *)
(* slots, events, prefixes and clock syncs.                                *)
(***************************************************************************)
EXTENDS Listeners, SequenceTheorems, TLAPS

-----------------------------------------------------------------------------
(* The inductive invariant.                                                 *)

Places == {"looking", "falling asleep", "asleep", "advancing", "calling", "done"}
Busy == thread.at \in {"advancing", "calling"}

\* TypeOK with the types of whole records, and where the thread may be.
Types ==
    /\ slots \in [Slots -> ListenerType \cup {Free}]
    /\ pending \in Seq(EventType)
    /\ thread \in [at: Places, slot: Slots \cup {0}, listener: ListenerType \cup {Free}]
    /\ thread.at = "calling" => thread.listener # Free
    /\ Busy => pending # <<>>
    /\ ~Busy => thread.slot = 0
    /\ running \in BOOLEAN /\ unheard \in BOOLEAN
    /\ clock \in [raw: Int, offset: Int, due: BOOLEAN]
    /\ made \in [events: 0..MaxEvents, listeners: 0..MaxListeners, syncs: Int]
    /\ heard \in [1..MaxListeners -> Seq(1..MaxEvents)]

\* Listeners are numbered as they are made and none is in two slots; the one that
\* is being called is in the slot where it was found, or gone.
Numbered ==
    /\ \A i \in Slots : slots[i].n <= made.listeners
    /\ \A i, j \in Slots : Used(i) /\ slots[i].n = slots[j].n => i = j
    /\ thread.at = "calling" =>
          /\ thread.listener.n <= made.listeners
          /\ \A j \in Slots : slots[j].n = thread.listener.n => j = thread.slot

\* Events are queued in their order, for listeners there were.
Queued ==
    \A k \in DOMAIN pending :
        /\ pending[k].n <= made.events
        /\ \A n \in pending[k].audience : n <= made.listeners
        /\ \A m \in DOMAIN pending : k < m => pending[k].n < pending[m].n

\* The pass over the slots has been at listener n, or n is gone.
Passed(n) ==
    /\ \A j \in Slots : slots[j].n = n => j <= thread.slot
    /\ thread.at # "calling" \/ n # thread.listener.n

\* What a listener has heard of the queue is the first event at most, and that
\* only during the pass that hands it out, and behind the thread.
Heard ==
    \A n \in 1..MaxListeners : \A i \in DOMAIN heard[n] :
        /\ heard[n][i] <= made.events
        /\ n <= made.listeners
        /\ pending # <<>> =>
              /\ heard[n][i] <= pending[1].n
              /\ (heard[n][i] = pending[1].n => Busy /\ Passed(n))

\* Stamps of one epoch are in the order of what they stamp.
Stamped ==
    /\ \A j \in Slots : Used(j) =>
          /\ slots[j].epoch <= Epoch
          /\ (slots[j].epoch = Epoch => slots[j].since <= now)
    /\ \A k \in DOMAIN pending :
          /\ pending[k].epoch <= Epoch
          /\ pending[k].epoch = Epoch =>
                \A j \in Slots : Used(j) /\ slots[j].n \in pending[k].audience
                                    => Wants(slots[j], pending[k])

\* Every listener the pass has been at was called with the first event, if it
\* was there when it happened.
Served ==
    Busy /\ pending[1].epoch = Epoch =>
        \A j \in Slots :
            /\ Used(j) /\ j <= thread.slot
            /\ slots[j].n \in pending[1].audience
            /\ thread.at # "calling" \/ slots[j].n # thread.listener.n
            => pending[1].n \in HeardBy(slots[j].n)

IInv == Types /\ Numbered /\ Queued /\ HeardInOrder /\ Heard /\ Stamped /\ Served

-----------------------------------------------------------------------------
(* Facts about the types.                                                   *)

\* The first event, what is left without it, and the queue with one more.
LEMMA QueueFacts ==
    ASSUME Types
    PROVE  /\ Len(pending) \in Nat /\ DOMAIN pending = 1..Len(pending)
           /\ \A k \in DOMAIN pending : pending[k] \in EventType
           /\ pending # <<>> => Len(pending) > 0 /\ Head(pending) = pending[1]
  <1>1. pending \in Seq(EventType)
    BY DEF Types
  <1>2. Len(pending) \in Nat /\ DOMAIN pending = 1..Len(pending)
    BY <1>1, LenProperties
  <1>3. \A k \in DOMAIN pending : pending[k] \in EventType
    BY <1>1, <1>2, ElementOfSeq
  <1>4. pending # <<>> => Len(pending) > 0
    BY <1>1, EmptySeq
  <1>5. Head(pending) = pending[1]
    BY DEF Head
  <1> QED
    BY <1>2, <1>3, <1>4, <1>5

\* An empty slot holds no listener, and numbers of listeners are positive.
LEMMA SlotFacts ==
    ASSUME Types, NEW i \in Slots
    PROVE  /\ slots[i] \in ListenerType \cup {Free} /\ slots[i].n \in Nat
           /\ Used(i) <=> slots[i] \in ListenerType
           /\ Used(i) <=> slots[i].n > 0
  <1>1. slots[i] \in ListenerType \cup {Free}
    BY DEF Types
  <1>2. Free.n = 0
    BY DEF Free
  <1>3. \A l \in ListenerType : l.n \in 1..MaxListeners
    BY DEF ListenerType
  <1> QED
    BY <1>1, <1>2, <1>3, BoundsAssumption DEF Used

\* The same of the listener the thread has.
LEMMA CalledFacts ==
    ASSUME Types, thread.at = "calling"
    PROVE  thread.listener \in ListenerType /\ thread.listener.n \in 1..MaxListeners
  BY DEF Types, ListenerType

\* What a listener has heard is a sequence of numbers.
LEMMA HeardFacts ==
    ASSUME Types, NEW n \in 1..MaxListeners
    PROVE  /\ Len(heard[n]) \in Nat /\ DOMAIN heard[n] = 1..Len(heard[n])
           /\ \A i \in DOMAIN heard[n] : heard[n][i] \in 1..MaxEvents /\ heard[n][i] \in Int
  <1>1. heard[n] \in Seq(1..MaxEvents)
    BY DEF Types
  <1>2. Len(heard[n]) \in Nat /\ DOMAIN heard[n] = 1..Len(heard[n])
    BY <1>1, LenProperties
  <1>3. \A i \in DOMAIN heard[n] : heard[n][i] \in 1..MaxEvents
    BY <1>1, <1>2, ElementOfSeq
  <1> QED
    BY <1>2, <1>3, BoundsAssumption

\* The clock's numbers.
LEMMA ClockFacts ==
    ASSUME Types
    PROVE  Epoch \in Int /\ now \in Int /\ clock.offset \in Int /\ clock.raw \in Int
  BY DEF Types, Epoch, now

-----------------------------------------------------------------------------
(* Steps that leave slots, queue and counts alone.                          *)

\* What does not depend on the thread stays if its variables do.
LEMMA Untouched ==
    ASSUME IInv, UNCHANGED <<slots, pending, clock, made, heard>>
    PROVE  Queued' /\ HeardInOrder' /\ Stamped'
  BY DEF IInv, Queued, HeardInOrder, Stamped, Epoch, now, Used, Wants

\* A thread that is not in a pass, or begins one.
LEMMA ThreadMoves ==
    ASSUME IInv, UNCHANGED <<slots, pending, clock, made, heard>>,
           running' \in BOOLEAN, unheard' \in BOOLEAN,
           NEW place \in Places \ {"calling"}, place = "advancing" => pending # <<>>,
           ~Busy, thread' = [at |-> place, slot |-> 0, listener |-> thread'.listener],
           thread'.listener \in ListenerType \cup {Free}
    PROVE  IInv'
  <1>1. thread'.at = place /\ thread'.slot = 0
    OBVIOUS
  <1>2. Types'
    BY <1>1 DEF IInv, Types, Busy, Places
  <1>3. Numbered' 
    BY <1>1 DEF IInv, Numbered, Used
  <1>4. Heard'
    BY <1>1 DEF IInv, Heard, Busy
  <1>5. Served'
    BY <1>1 DEF Served, Slots
  <1> QED
    BY <1>2, <1>3, <1>4, <1>5, Untouched DEF IInv

\* The predicate of the wait.
LEMMA LookStep ==
    ASSUME IInv, Look
    PROVE  IInv'
  <1>1. ~Busy /\ thread.at = "looking" /\ Free \in ListenerType \cup {Free}
    BY DEF Look, Busy
  <1>2. PICK place \in Places \ {"calling"} :
           (place = "advancing" => pending # <<>>) /\ thread' = At(place)
    BY DEF Look, Places
  <1>3. UNCHANGED <<slots, pending, clock, made, heard, running, unheard>>
    BY DEF Look
  <1>4. running' \in BOOLEAN /\ unheard' \in BOOLEAN
    BY <1>3 DEF IInv, Types
  <1>5. /\ thread' = [at |-> place, slot |-> 0, listener |-> thread'.listener]
        /\ thread'.listener \in ListenerType \cup {Free}
    BY <1>2 DEF At
  <1> QED
    BY <1>1, <1>2, <1>3, <1>4, <1>5, ThreadMoves

\* The rest of the wait.
LEMMA FallAsleepStep ==
    ASSUME IInv, FallAsleep
    PROVE  IInv'
  <1>1. ~Busy
    BY DEF FallAsleep, Busy
  <1>2. PICK place \in Places \ {"calling"} : place = "asleep"
    BY DEF Places
  <1>3. UNCHANGED <<slots, pending, clock, made, heard, running, unheard>>
    BY DEF FallAsleep
  <1>4. running' \in BOOLEAN /\ unheard' \in BOOLEAN
    BY <1>3 DEF IInv, Types
  <1>5. /\ thread' = [at |-> place, slot |-> 0, listener |-> thread'.listener]
        /\ thread'.listener \in ListenerType \cup {Free}
    BY <1>2 DEF At, FallAsleep
  <1> QED
    BY <1>1, <1>2, <1>3, <1>4, <1>5, ThreadMoves

\* The notification of the destructor wakes the thread or finds it at work.
LEMMA StopStep ==
    ASSUME IInv, Stop
    PROVE  IInv'
  <1>1. UNCHANGED <<slots, pending, clock, made, heard>>
    BY DEF Stop
  <1>2. running' \in BOOLEAN /\ unheard' \in BOOLEAN
    BY DEF Stop
  <1>3. thread = [at |-> thread.at, slot |-> thread.slot, listener |-> thread.listener]
    BY DEF IInv, Types
  <1>4. CASE thread.at = "asleep"
    <2>1. ~Busy /\ thread.slot = 0 /\ thread.listener \in ListenerType \cup {Free}
      BY <1>4 DEF IInv, Types, Busy
    <2>2. PICK place \in Places \ {"calling"} : place = "looking"
      BY DEF Places
    <2>3. thread' = [at |-> place, slot |-> 0, listener |-> thread.listener]
      BY <1>3, <1>4, <2>1, <2>2 DEF Stop, Woken
    <2> QED
      BY <1>1, <1>2, <2>1, <2>2, <2>3, ThreadMoves
  <1>5. CASE thread.at # "asleep"
    <2>1. thread' = thread
      BY <1>3, <1>5 DEF Stop, Woken
    <2>2. Types'
      BY <1>1, <1>2, <2>1 DEF IInv, Types, Busy
    <2>3. Numbered'
      BY <1>1, <2>1 DEF IInv, Numbered, Used
    <2>4. Heard'
      BY <1>1, <2>1 DEF IInv, Heard, Busy, Passed
    <2>5. Served'
      BY <1>1, <2>1 DEF IInv, Served, Busy, Used, Epoch, HeardBy
    <2> QED
      BY <1>1, <2>2, <2>3, <2>4, <2>5, Untouched DEF IInv
  <1> QED
    BY <1>4, <1>5

\* Time passes.
LEMMA TickStep ==
    ASSUME IInv, Tick
    PROVE  IInv'
  <1>1. PICK raw \in Int : /\ raw = clock.raw + 1
                           /\ clock' = [clock EXCEPT !.raw = raw]
    <2>1. clock.raw + 1 \in Int
      BY ClockFacts DEF IInv
    <2> QED
      BY <2>1 DEF Tick
  <1>2. clock' = [raw |-> raw, offset |-> clock.offset, due |-> clock.due]
    BY <1>1 DEF IInv, Types
  <1>3. UNCHANGED <<slots, pending, thread, running, unheard, made, heard>>
    BY DEF Tick
  <1>4. Types'
    BY <1>2, <1>3 DEF IInv, Types, Busy
  <1>5. Epoch' = Epoch /\ now \in Int /\ now' = now + 1
    BY <1>1, <1>2, <1>3, ClockFacts DEF Epoch, now, IInv
  <1>6. Stamped'
    <2>1. \A j \in Slots : Used(j) => slots[j].since \in Int
      BY SlotFacts DEF IInv, ListenerType
    <2> QED
      BY <1>3, <1>5, <2>1 DEF IInv, Stamped, Used, Wants
  <1>7. Numbered' /\ Queued' /\ HeardInOrder' /\ Heard' /\ Served'
    BY <1>3, <1>5
       DEF IInv, Numbered, Queued, HeardInOrder, Heard, Served, Busy, Passed, Used, HeardBy
  <1> QED
    BY <1>4, <1>6, <1>7 DEF IInv

-----------------------------------------------------------------------------
(* Callers.                                                                 *)

\* Threads that hold the mutex leave the rest of the state alone.
LEMMA CallingFacts ==
    ASSUME IInv, Calling
    PROVE  thread.at \in {"looking", "asleep", "calling", "done"}
  BY DEF IInv, Types, Places, Calling, Unlocked

\* destroy_listener: what is said of all listeners is said of fewer.
LEMMA DestroyStep ==
    ASSUME IInv, NEW i \in Slots, Destroy(i)
    PROVE  IInv'
  <1>1. slots' = [slots EXCEPT ![i] = Free] /\ slots \in [Slots -> ListenerType \cup {Free}]
    BY DEF Destroy, IInv, Types
  <1>2. UNCHANGED <<pending, thread, running, unheard, clock, made, heard>>
    BY DEF Destroy
  <1>3. \A j \in Slots : slots'[j] = IF j = i THEN Free ELSE slots[j]
    BY <1>1
  <1>4. /\ Free.n = 0 /\ \A j \in Slots : (Used(j) <=> slots[j].n > 0) /\ slots[j].n \in Nat
        /\ made.listeners \in Nat
    BY SlotFacts, BoundsAssumption DEF IInv, Free, Types
  <1>5. Types'
    BY <1>1, <1>2 DEF IInv, Types, Busy
  <1>6. Numbered'
    <2>1. thread.at = "calling" => thread.listener.n > 0
      BY CalledFacts, BoundsAssumption DEF IInv
    <2> QED
      BY <1>2, <1>3, <1>4, <2>1 DEF IInv, Numbered, Used
  <1>7. Queued' /\ HeardInOrder'
    BY <1>2 DEF IInv, Queued, HeardInOrder
  <1>8. Heard'
    <2>1. \A n \in 1..MaxListeners : Passed(n) => Passed(n)'
      BY <1>2, <1>3, <1>4, BoundsAssumption DEF Passed
    <2> QED
      BY <1>2, <2>1 DEF IInv, Heard, Busy
  <1>9. \A j \in Slots : Used(j)' => Used(j) /\ slots'[j] = slots[j]
    BY <1>3 DEF Used
  <1>10. Stamped'
    BY <1>2, <1>9 DEF IInv, Stamped, Epoch, now, Wants
  <1>11. Served'
    BY <1>2, <1>9 DEF IInv, Served, Epoch, Busy, HeardBy
  <1> QED
    BY <1>5, <1>6, <1>7, <1>8, <1>10, <1>11 DEF IInv

\* create_listener: nobody waits for the new listener, and it for nothing yet.
LEMMA CreateStep ==
    ASSUME IInv, NEW prefix \in Prefixes, Create(prefix)
    PROVE  IInv'
  <1>1. PICK i \in Slots : slots' = [slots EXCEPT ![i] = [n |-> made.listeners + 1,
                               prefix |-> prefix, since |-> now, epoch |-> Epoch]]
    BY DEF Create
  <1>2. PICK l : l = [n |-> made.listeners + 1, prefix |-> prefix, since |-> now,
                      epoch |-> Epoch]
    OBVIOUS
  <1>3. slots' = [slots EXCEPT ![i] = l] /\ slots \in [Slots -> ListenerType \cup {Free}]
    BY <1>1, <1>2 DEF IInv, Types
  <1>4. UNCHANGED <<pending, thread, running, unheard, clock, heard>>
    BY DEF Create
  <1>5. made.listeners \in Nat /\ made.listeners + 1 \in 1..MaxListeners
    BY BoundsAssumption DEF Create, IInv, Types
  <1>6. /\ made' = [events |-> made.events, listeners |-> made.listeners + 1,
                    syncs |-> made.syncs]
        /\ made.events \in 0..MaxEvents /\ made.syncs \in Int
    BY DEF Create, IInv, Types
  <1>7. l \in ListenerType /\ l.n = made.listeners + 1 /\ l.since = now /\ l.epoch = Epoch
    BY <1>2, <1>5, ClockFacts DEF IInv, ListenerType
  <1>8. \A j \in Slots : slots'[j] = IF j = i THEN l ELSE slots[j]
    BY <1>3
  <1>9. \A j \in Slots : (Used(j) <=> slots[j].n > 0) /\ slots[j].n \in Nat
    BY SlotFacts DEF IInv
  <1>10. Types'
    BY <1>3, <1>4, <1>5, <1>6, <1>7 DEF IInv, Types, Busy
  <1>11. made'.listeners = made.listeners + 1 /\ made'.events = made.events /\ Epoch' = Epoch
    BY <1>4, <1>6 DEF Epoch
  <1>12. \A j \in Slots : slots[j].n <= made.listeners
    BY DEF IInv, Numbered
  <1>13. Numbered'
    <2>1. thread.at = "calling" => thread.listener.n <= made.listeners
                                   /\ thread.listener.n \in Nat
      BY CalledFacts, BoundsAssumption DEF IInv, Numbered
    <2>2. \A j \in Slots : slots'[j].n <= made'.listeners
      BY <1>5, <1>7, <1>8, <1>9, <1>11, <1>12
    <2>3. \A j, k \in Slots : slots'[j].n = slots'[k].n /\ slots'[j].n > 0 => j = k
      BY <1>5, <1>7, <1>8, <1>9, <1>12 DEF IInv, Numbered
    <2>4. \A j \in Slots : Used(j)' => slots'[j].n > 0
      BY <1>5, <1>7, <1>8, <1>9 DEF Used
    <2>5. thread.at = "calling" => \A j \in Slots :
             slots'[j].n = thread.listener.n => j = thread.slot
      BY <1>5, <1>7, <1>8, <2>1 DEF IInv, Numbered
    <2> QED
      BY <1>4, <1>5, <1>11, <2>1, <2>2, <2>3, <2>4, <2>5 DEF Numbered
  <1>14. Queued'
    <2>1. \A k \in DOMAIN pending : \A n \in pending[k].audience :
             n <= made.listeners /\ n \in Int
      BY QueueFacts, BoundsAssumption DEF IInv, Queued, EventType
    <2> QED
      BY <1>4, <1>5, <1>11, <2>1 DEF IInv, Queued
  <1>15. HeardInOrder'
    BY <1>4 DEF IInv, HeardInOrder
  <1>16. Heard'
    <2>1. \A n \in 1..MaxListeners : n <= made.listeners /\ Passed(n) => Passed(n)'
      BY <1>4, <1>5, <1>7, <1>8, BoundsAssumption DEF Passed
    <2> QED
      BY <1>4, <1>5, <1>11, <2>1, BoundsAssumption DEF IInv, Heard, Busy
  <1>17. \A j \in Slots : j # i => slots'[j] = slots[j] /\ (Used(j)' <=> Used(j))
    BY <1>8 DEF Used
  <1>18. slots'[i] = l /\ \A k \in DOMAIN pending : l.n \notin pending[k].audience
    <2>1. \A k \in DOMAIN pending : \A n \in pending[k].audience : n <= made.listeners
      BY DEF IInv, Queued
    <2> QED
      BY <1>5, <1>7, <1>8, <2>1
  <1>19. Stamped'
    BY <1>4, <1>7, <1>11, <1>17, <1>18, ClockFacts DEF IInv, Stamped, Wants, now
  <1>20. Served'
    <2>1. Busy => 1 \in DOMAIN pending
      BY QueueFacts DEF IInv, Types
    <2> QED
      BY <1>4, <1>11, <1>17, <1>18, <2>1 DEF IInv, Served, Busy, HeardBy
  <1> QED
    BY <1>10, <1>13, <1>14, <1>15, <1>16, <1>19, <1>20 DEF IInv

\* clock::sync: a new epoch, in which nothing has a stamp yet.
LEMMA SyncStep ==
    ASSUME IInv, NEW offset \in Offsets, Sync(offset)
    PROVE  IInv'
  <1>1. UNCHANGED <<slots, pending, thread, running, unheard, heard>>
    BY DEF Sync
  <1>2. /\ clock' = [raw |-> clock.raw, offset |-> offset, due |-> TRUE]
        /\ made' = [events |-> made.events, listeners |-> made.listeners,
                    syncs |-> made.syncs + 1]
        /\ clock.raw \in Int /\ clock.due = FALSE /\ made.syncs \in Int
        /\ made.events \in 0..MaxEvents /\ made.listeners \in 0..MaxListeners
    BY DEF Sync, IInv, Types
  <1>3. offset \in Int
    BY OffsetsAssumption
  <1>4. Types'
    BY <1>1, <1>2, <1>3 DEF IInv, Types, Busy
  <1>5. Epoch \in Int /\ Epoch' = Epoch + 1
    BY <1>2 DEF Epoch
  <1>6. made'.events = made.events /\ made'.listeners = made.listeners
    BY <1>2
  <1>7. Numbered' /\ Queued' /\ HeardInOrder' /\ Heard'
    BY <1>1, <1>6 DEF IInv, Numbered, Queued, HeardInOrder, Heard, Busy, Passed, Used
  <1>8. /\ \A j \in Slots : Used(j) => slots[j].epoch \in Int /\ slots[j].epoch <= Epoch
        /\ \A k \in DOMAIN pending : pending[k].epoch \in Int /\ pending[k].epoch <= Epoch
        /\ Busy => 1 \in DOMAIN pending
    BY SlotFacts, QueueFacts DEF IInv, Stamped, ListenerType, EventType, Types
  <1>9. Stamped' /\ Served'
    BY <1>1, <1>5, <1>8 DEF Stamped, Served, Used, Busy
  <1> QED
    BY <1>4, <1>7, <1>9 DEF IInv

\* on_clock_resync: another one.
LEMMA ResyncStep ==
    ASSUME IInv, Resync
    PROVE  IInv'
  <1>1. /\ UNCHANGED <<thread, running, unheard, made, heard>>
        /\ clock' = [raw |-> clock.raw, offset |-> clock.offset, due |-> FALSE]
        /\ clock.due = TRUE /\ made.syncs \in Int
    BY DEF Resync, IInv, Types
  <1>2. PICK q : q = [k \in DOMAIN pending |-> [pending[k] EXCEPT !.ts = Adjusted(@)]]
    OBVIOUS
  <1>3. pending' = q
    BY <1>2 DEF Resync
  <1>4. clock.offset \in Int
    BY ClockFacts DEF IInv
  <1>5. ASSUME NEW k \in DOMAIN pending
        PROVE  /\ q[k] \in EventType
               /\ q[k].n = pending[k].n /\ q[k].audience = pending[k].audience
               /\ q[k].epoch = pending[k].epoch
    <2>1. pending[k] \in EventType
      BY QueueFacts DEF IInv
    <2>2. PICK t \in Int : t = Adjusted(pending[k].ts)
      BY <1>4, <2>1 DEF Adjusted, EventType
    <2>3. q[k] = [pending[k] EXCEPT !.ts = t]
      BY <1>2, <2>2
    <2> QED
      BY <2>1, <2>2, <2>3 DEF EventType
  <1>6. q \in Seq(EventType) /\ DOMAIN q = DOMAIN pending /\ Len(q) = Len(pending)
    <2>1. DOMAIN pending = 1..Len(pending) /\ Len(pending) \in Nat
      BY QueueFacts DEF IInv
    <2>2. q \in [1..Len(pending) -> EventType]
      BY <1>2, <1>5, <2>1
    <2>3. q \in Seq(EventType)
      BY <2>1, <2>2
    <2> QED
      BY <1>2, <2>1, <2>3, LenProperties
  <1>7. ASSUME NEW j \in Slots
        PROVE  /\ slots'[j] \in ListenerType \cup {Free}
               /\ Used(j)' <=> Used(j)
               /\ slots'[j].n = slots[j].n
               /\ Used(j) => slots'[j].epoch = slots[j].epoch
    <2>1. slots'[j] = IF Used(j) THEN [slots[j] EXCEPT !.since = Adjusted(@)] ELSE Free
      BY DEF Resync
    <2>2. CASE Used(j)
      <3>1. slots[j] \in ListenerType
        BY <2>2, SlotFacts DEF IInv
      <3>2. PICK t \in Int : t = Adjusted(slots[j].since)
        BY <1>4, <3>1 DEF Adjusted, ListenerType
      <3>3. slots'[j] = [slots[j] EXCEPT !.since = t]
        BY <2>1, <2>2, <3>2
      <3>4. slots'[j] \in ListenerType /\ slots'[j].n = slots[j].n
            /\ slots'[j].epoch = slots[j].epoch
        BY <3>1, <3>2, <3>3 DEF ListenerType
      <3>5. slots'[j] # Free
        BY <3>4, BoundsAssumption DEF ListenerType, Free
      <3> QED
        BY <2>2, <3>4, <3>5 DEF Used
    <2>3. CASE ~Used(j)
      BY <2>1, <2>3 DEF Used
    <2> QED
      BY <2>2, <2>3
  <1>8. slots' \in [Slots -> ListenerType \cup {Free}]
    <2>1. slots' = [j \in Slots |-> IF Used(j) THEN [slots[j] EXCEPT !.since = Adjusted(@)]
                                    ELSE Free]
      BY DEF Resync
    <2> QED
      BY <1>7, <2>1
  <1>9. q = <<>> <=> pending = <<>>
    BY <1>6, QueueFacts, EmptySeq DEF IInv, Types
  <1>10. Types'
    BY <1>1, <1>3, <1>6, <1>8, <1>9, ClockFacts DEF IInv, Types, Busy
  <1>11. Numbered'
    BY <1>1, <1>7 DEF IInv, Numbered
  <1>12. Queued'
    BY <1>1, <1>3, <1>5, <1>6 DEF IInv, Queued
  <1>13. HeardInOrder'
    BY <1>1 DEF IInv, HeardInOrder
  <1>14. Heard'
    <2>1. \A n : Passed(n) => Passed(n)'
      BY <1>1, <1>7 DEF Passed
    <2>2. pending # <<>> => 1 \in DOMAIN pending
      BY QueueFacts DEF IInv
    <2>3. q # <<>> => pending # <<>> /\ q[1].n = pending[1].n
      BY <1>5, <1>9, <2>2
    <2> QED
      BY <1>1, <1>3, <2>1, <2>3 DEF IInv, Heard, Busy
  <1>15. Epoch \in Int /\ Epoch' = Epoch + 1
    BY <1>1 DEF Epoch
  <1>16. /\ \A j \in Slots : Used(j)' => slots'[j].epoch \in Int /\ slots'[j].epoch <= Epoch
         /\ \A k \in DOMAIN q : q[k].epoch \in Int /\ q[k].epoch <= Epoch
         /\ Busy => 1 \in DOMAIN q
    BY <1>5, <1>6, <1>7, SlotFacts, QueueFacts
       DEF IInv, Stamped, ListenerType, EventType, Types
  <1>17. Stamped' /\ Served'
    BY <1>1, <1>3, <1>15, <1>16 DEF Stamped, Served, Busy
  <1> QED
    BY <1>10, <1>11, <1>12, <1>13, <1>14, <1>17 DEF IInv

\* notify: the event comes last, with the listeners there are.
LEMMA NotifyStep ==
    ASSUME IInv, NEW p \in Paths, Notify(p)
    PROVE  IInv'
  <1>1. PICK e : e = [n |-> made.events + 1, path |-> p, ts |-> now,
                      audience |-> Audience(p), epoch |-> Epoch]
    OBVIOUS
  <1>2. pending' = Append(pending, e)
    BY <1>1 DEF Notify
  <1>3. UNCHANGED <<slots, running, unheard, clock, heard>>
    BY DEF Notify
  <1>4. /\ made' = [events |-> made.events + 1, listeners |-> made.listeners,
                    syncs |-> made.syncs]
        /\ made.events \in Nat /\ made.events + 1 \in 1..MaxEvents
        /\ made.listeners \in 0..MaxListeners /\ made.syncs \in Int
    <2>1. /\ made \in [events: 0..MaxEvents, listeners: 0..MaxListeners, syncs: Int]
          /\ made.events < MaxEvents /\ made' = [made EXCEPT !.events = @ + 1]
      BY DEF Notify, IInv, Types
    <2>2. PICK k \in Nat : k = made.events /\ k < MaxEvents
      BY <2>1, BoundsAssumption
    <2>3. made' = [made EXCEPT !.events = k + 1]
      BY <2>1, <2>2
    <2> QED
      BY <2>1, <2>2, <2>3, BoundsAssumption
  <1>5. made'.events = made.events + 1 /\ made'.listeners = made.listeners /\ Epoch' = Epoch
    BY <1>3, <1>4 DEF Epoch
  <1>6. \A n \in Audience(p) : \E j \in Slots :
           /\ Used(j) /\ slots[j].n = n /\ slots[j].epoch = Epoch
           /\ p \in Hears[slots[j].prefix]
    BY DEF Audience
  <1>7. Audience(p) \subseteq 1..MaxListeners /\ \A n \in Audience(p) : n <= made.listeners
    BY <1>6, SlotFacts DEF IInv, ListenerType, Numbered
  <1>8. /\ e \in EventType /\ e.n = made.events + 1 /\ e.audience = Audience(p)
        /\ e.epoch = Epoch /\ e.ts = now /\ e.path = p
    BY <1>1, <1>4, <1>7, ClockFacts DEF IInv, EventType
  <1>9. PICK q : q = pending'
    OBVIOUS
  <1>10. PICK len \in Nat : len = Len(pending) /\ DOMAIN pending = 1..len
    BY QueueFacts DEF IInv
  <1>11. /\ q \in Seq(EventType) /\ q # <<>> /\ DOMAIN q = 1..(len + 1)
         /\ q[len + 1] = e /\ \A k \in 1..len : q[k] = pending[k]
    <2>1. pending \in Seq(EventType)
      BY DEF IInv, Types
    <2>2. /\ q \in Seq(EventType) /\ q # <<>> /\ Len(q) = len + 1
          /\ q[len + 1] = e /\ \A k \in 1..len : q[k] = pending[k]
      BY <1>2, <1>8, <1>9, <1>10, <2>1, AppendProperties
    <2> QED
      BY <2>2, LenProperties
  <1>12. pending # <<>> => 1 \in 1..len
    BY <1>10, QueueFacts DEF IInv
  <1>13. /\ thread' \in [at: Places, slot: Slots \cup {0}, listener: ListenerType \cup {Free}]
         /\ thread'.slot = thread.slot /\ thread'.listener = thread.listener
         /\ Busy' <=> Busy
         /\ thread'.at = "calling" <=> thread.at = "calling"
    <2>1. thread = [at |-> thread.at, slot |-> thread.slot, listener |-> thread.listener]
      BY DEF IInv, Types
    <2>2. thread' = [at |-> Woken(thread.at), slot |-> thread.slot,
                     listener |-> thread.listener]
      BY <2>1 DEF Notify
    <2> QED
      BY <2>2 DEF IInv, Types, Busy, Woken, Places
  <1>14. Types'
    BY <1>3, <1>4, <1>9, <1>11, <1>13 DEF IInv, Types
  <1>15. Numbered'
    BY <1>3, <1>5, <1>13 DEF IInv, Numbered, Used
  <1>16. Queued'
    <2>1. \A k \in 1..len : pending[k].n <= made.events /\ pending[k].n \in Int
      BY <1>10, QueueFacts, BoundsAssumption DEF IInv, Queued, EventType
    <2>2. ASSUME NEW k \in DOMAIN q
          PROVE  /\ q[k].n <= made.events + 1
                 /\ \A n \in q[k].audience : n <= made.listeners
                 /\ \A m \in DOMAIN q : k < m => q[k].n < q[m].n
      <3>1. CASE k = len + 1
        BY <1>4, <1>7, <1>8, <1>11, <3>1
      <3>2. CASE k \in 1..len
        <4>1. q[k] = pending[k] /\ k \in DOMAIN pending
          BY <1>10, <1>11, <3>2
        <4>2. ASSUME NEW m \in DOMAIN q, k < m PROVE q[k].n < q[m].n
          <5>1. CASE m = len + 1
            BY <1>4, <1>8, <1>11, <2>1, <3>2, <4>1, <5>1
          <5>2. CASE m \in 1..len
            BY <1>10, <1>11, <4>1, <4>2, <5>2 DEF IInv, Queued
          <5> QED
            BY <1>11, <5>1, <5>2
        <4>3. pending[k].n <= made.events /\ pending[k].n \in Int
          BY <2>1, <3>2
        <4> QED
          BY <1>4, <4>1, <4>2, <4>3 DEF IInv, Queued
      <3> QED
        BY <1>11, <3>1, <3>2
    <2> QED
      BY <1>5, <1>9, <2>2 DEF Queued
  <1>17. HeardInOrder'
    BY <1>3 DEF IInv, HeardInOrder
  <1>18. \A n \in 1..MaxListeners : \A i \in DOMAIN heard[n] :
            heard[n][i] \in Int /\ heard[n][i] <= made.events
    BY HeardFacts DEF IInv, Heard
  <1>19. \A n : Passed(n) => Passed(n)'
    BY <1>3, <1>13 DEF Passed
  <1>20. Heard'
    <2>1. CASE pending = <<>>
      <3>1. len = 0
        BY <1>10, <2>1, EmptySeq
      <3>2. q[1] = e
        BY <1>11, <3>1
      <3> QED
        BY <1>3, <1>4, <1>5, <1>8, <1>9, <1>18, <3>2 DEF IInv, Heard
    <2>2. CASE pending # <<>>
      <3>1. q[1] = pending[1]
        BY <1>11, <1>12, <2>2
      <3> QED
        BY <1>3, <1>4, <1>5, <1>9, <1>13, <1>18, <1>19, <2>2, <3>1 DEF IInv, Heard
    <2> QED
      BY <2>1, <2>2
  <1>21. Stamped'
    <2>1. \A j \in Slots : Used(j)' =>
             slots'[j].epoch <= Epoch' /\ (slots'[j].epoch = Epoch' => slots'[j].since <= now')
      BY <1>3, <1>5 DEF IInv, Stamped, Used, now
    <2>2. ASSUME NEW j \in Slots, Used(j), slots[j].n \in Audience(p)
          PROVE  Wants(slots[j], e)
      <3>1. slots[j].epoch = Epoch /\ p \in Hears[slots[j].prefix]
        BY <1>6, <2>2 DEF IInv, Numbered
      <3>2. slots[j].since <= now /\ slots[j].since \in Int /\ now \in Int
        BY <2>2, <3>1, SlotFacts, ClockFacts DEF IInv, Stamped, ListenerType
      <3> QED
        BY <1>8, <3>1, <3>2 DEF Wants
    <2>3. ASSUME NEW k \in DOMAIN q
          PROVE  /\ q[k].epoch <= Epoch
                 /\ q[k].epoch = Epoch => \A j \in Slots :
                        Used(j) /\ slots[j].n \in q[k].audience => Wants(slots[j], q[k])
      <3>1. CASE k = len + 1
        BY <1>8, <1>11, <2>2, <3>1, ClockFacts DEF IInv
      <3>2. CASE k \in 1..len
        BY <1>10, <1>11, <3>2 DEF IInv, Stamped
      <3> QED
        BY <1>11, <3>1, <3>2
    <2> QED
      BY <1>3, <1>5, <1>9, <2>1, <2>3 DEF Stamped, Used, Wants
  <1>22. Served'
    <2>1. Busy => q[1] = pending[1]
      BY <1>11, <1>12 DEF IInv, Types
    <2> QED
      BY <1>3, <1>5, <1>9, <1>13, <2>1 DEF IInv, Served, HeardBy, Used
  <1> QED
    BY <1>14, <1>15, <1>16, <1>17, <1>20, <1>21, <1>22 DEF IInv

-----------------------------------------------------------------------------
(* The pass.                                                                *)

\* iterate_to_next_element: the next listener has not heard the event yet.
LEMMA NextListenerStep ==
    ASSUME IInv, thread.at = "advancing", NEW s \in NextSlots(thread.slot),
           \A k \in NextSlots(thread.slot) : s <= k,
           thread' = [at |-> "calling", slot |-> s, listener |-> slots[s]],
           UNCHANGED <<slots, pending, running, unheard, clock, made, heard>>
    PROVE  IInv'
  <1>1. s \in Slots /\ s > thread.slot /\ Used(s) /\ slots[s] \in ListenerType
    BY SlotFacts DEF NextSlots, IInv
  <1>2. Capacity \in Nat /\ Slots = 1..Capacity /\ thread.slot \in Slots \cup {0}
    BY CapacityAssumption DEF Slots, IInv, Types
  <1>3. thread'.at = "calling" /\ thread'.slot = s /\ thread'.listener = slots[s]
    OBVIOUS
  <1>4. Busy /\ Busy'
    BY <1>3 DEF Busy
  <1>5. thread' \in [at: Places, slot: Slots \cup {0}, listener: ListenerType \cup {Free}]
    BY <1>1 DEF Places
  <1>6. Types'
    BY <1>1, <1>3, <1>4, <1>5 DEF IInv, Types, Used
  <1>7. Numbered'
    BY <1>1, <1>3 DEF IInv, Numbered, Used
  <1>8. ASSUME NEW n, Passed(n), n = slots[s].n PROVE FALSE
    BY <1>1, <1>2, <1>8 DEF Passed
  <1>9. \A n : Passed(n) => Passed(n)'
    BY <1>1, <1>2, <1>3, <1>8 DEF Passed
  <1>10. Heard'
    BY <1>4, <1>9 DEF IInv, Heard
  <1>11. Served'
    <2>1. \A j \in Slots : Used(j) /\ j <= s /\ slots[j].n # slots[s].n => j <= thread.slot
      BY <1>1, <1>2 DEF NextSlots
    <2> QED
      BY <1>3, <1>4, <2>1 DEF IInv, Served, HeardBy, Used, Epoch
  <1> QED
    BY <1>6, <1>7, <1>10, <1>11, Untouched DEF IInv

\* The end of the pass drops the event; nobody has heard of the next one.
LEMMA EndOfPassStep ==
    ASSUME IInv, thread.at = "advancing", pending' = Tail(pending),
           thread' = At(IF Len(pending) = 1 THEN "looking" ELSE "advancing"),
           UNCHANGED <<slots, running, unheard, clock, made, heard>>
    PROVE  IInv'
  <1>1. pending \in Seq(EventType) /\ pending # <<>>
    BY DEF IInv, Types, Busy
  <1>2. PICK len \in Nat : len = Len(pending) /\ DOMAIN pending = 1..len /\ len > 0
    BY <1>1, QueueFacts DEF IInv
  <1>3. PICK q : q = pending'
    OBVIOUS
  <1>4. /\ q \in Seq(EventType) /\ DOMAIN q = 1..(len - 1)
        /\ \A k \in 1..(len - 1) : q[k] = pending[k + 1]
        /\ q # <<>> <=> len # 1
    <2>1. /\ q \in Seq(EventType) /\ Len(q) = len - 1
          /\ \A k \in 1..(len - 1) : q[k] = pending[k + 1]
      BY <1>1, <1>2, <1>3, HeadTailProperties
    <2>2. DOMAIN q = 1..(len - 1)
      BY <2>1, LenProperties
    <2>3. q # <<>> <=> len # 1
      BY <1>2, <2>1, EmptySeq
    <2> QED
      BY <2>1, <2>2, <2>3
  <1>5. /\ thread'.slot = 0 /\ thread'.listener = Free /\ thread'.at # "calling"
        /\ thread' \in [at: Places, slot: Slots \cup {0}, listener: ListenerType \cup {Free}]
        /\ Busy' <=> q # <<>>
    BY <1>2, <1>4 DEF At, Places, Busy
  <1>6. Types'
    BY <1>3, <1>4, <1>5 DEF IInv, Types
  <1>7. Numbered'
    BY <1>5 DEF IInv, Numbered, Used
  <1>8. \A k \in 1..(len - 1) : k + 1 \in 1..len
    BY <1>2
  <1>9. Queued'
    <2>1. ASSUME NEW k \in DOMAIN q
          PROVE  /\ q[k].n <= made.events
                 /\ \A n \in q[k].audience : n <= made.listeners
                 /\ \A m \in DOMAIN q : k < m => q[k].n < q[m].n
      <3>1. q[k] = pending[k + 1] /\ k + 1 \in DOMAIN pending
        BY <1>2, <1>4, <1>8
      <3>2. \A m \in DOMAIN q : q[m] = pending[m + 1] /\ m + 1 \in DOMAIN pending
        BY <1>2, <1>4, <1>8
      <3>3. \A m \in DOMAIN q : k < m => k + 1 < m + 1
        BY <1>2, <1>4
      <3>4. /\ q[k].n <= made.events
            /\ \A n \in q[k].audience : n <= made.listeners
        BY <3>1 DEF IInv, Queued
      <3>5. ASSUME NEW m \in DOMAIN q, k < m PROVE q[k].n < q[m].n
        BY <3>1, <3>2, <3>3, <3>5 DEF IInv, Queued
      <3> QED
        BY <3>4, <3>5
    <2> QED
      BY <1>3, <2>1 DEF Queued
  <1>10. HeardInOrder'
    BY DEF IInv, HeardInOrder
  <1>11. Heard'
    <2>1. q # <<>> => /\ 1 \in DOMAIN pending /\ 2 \in DOMAIN pending
                      /\ q[1] = pending[2] /\ pending[1].n < pending[2].n
                      /\ pending[1].n \in Int /\ pending[2].n \in Int
      <3>1. q # <<>> => 1 \in 1..(len - 1) /\ 2 \in 1..len /\ 1 \in 1..len
        BY <1>2, <1>4
      <3>2. \A k \in 1..len : pending[k].n \in Int
        BY <1>2, QueueFacts DEF IInv, EventType
      <3> QED
        <4>1. \A k \in 1..len, m \in 1..len : k < m => pending[k].n < pending[m].n
          BY <1>2 DEF IInv, Queued
        <4> QED
          BY <1>2, <1>4, <3>1, <3>2, <4>1
    <2>2. \A n \in 1..MaxListeners : \A i \in DOMAIN heard[n] : heard[n][i] \in Int
      BY HeardFacts DEF IInv
    <2> QED
      BY <1>1, <1>3, <2>1, <2>2 DEF IInv, Heard
  <1>12. Stamped'
    <2>1. \A k \in DOMAIN q : q[k] = pending[k + 1] /\ k + 1 \in DOMAIN pending
      BY <1>2, <1>4, <1>8
    <2> QED
      BY <1>3, <2>1 DEF IInv, Stamped, Used, Wants, Epoch, now
  <1>13. Served'
    BY <1>5 DEF Served, Slots
  <1> QED
    BY <1>6, <1>7, <1>9, <1>10, <1>11, <1>12, <1>13 DEF IInv

\* thread_main's step from one listener to the next.
LEMMA AdvanceStep ==
    ASSUME IInv, Advance
    PROVE  IInv'
  BY NextListenerStep, EndOfPassStep DEF Advance

\* invoke, with the mutex open: the listener hears the event if it wants it, and
\* has not heard it before.
LEMMA CallStep ==
    ASSUME IInv, Call
    PROVE  IInv'
  <1>1. /\ thread.at = "calling" /\ Busy
        /\ UNCHANGED <<slots, pending, running, unheard, clock, made>>
    BY DEF Call, Busy
  <1>2. PICK l : l = thread.listener
    OBVIOUS
  <1>3. l \in ListenerType /\ l.n \in 1..MaxListeners
    BY <1>1, <1>2, CalledFacts DEF IInv
  <1>4. PICK e : e = pending[1]
    OBVIOUS
  <1>5. /\ pending # <<>> /\ Head(pending) = e /\ e \in EventType
        /\ e.n \in 1..MaxEvents /\ e.n <= made.events /\ 1 \in DOMAIN pending
    BY <1>1, <1>4, QueueFacts DEF IInv, Types, EventType, Queued
  <1>6. PICK called \in BOOLEAN :
           /\ Alive(l) => called = Wants(slots[thread.slot], e)
           /\ heard' = IF called THEN [heard EXCEPT ![l.n] = Append(@, e.n)] ELSE heard
    BY <1>2, <1>5 DEF Call, Wants
  <1>7. /\ thread' = [at |-> "advancing", slot |-> thread.slot, listener |-> Free]
        /\ thread.slot \in Slots \cup {0}
    BY DEF Call, ReturnTo, At, IInv, Types
  <1>8. /\ thread'.at = "advancing" /\ thread'.slot = thread.slot /\ Busy'
        /\ thread' \in [at: Places, slot: Slots \cup {0}, listener: ListenerType \cup {Free}]
    BY <1>7 DEF Busy, Places
  <1>9. heard \in [1..MaxListeners -> Seq(1..MaxEvents)]
    BY DEF IInv, Types
  <1>10. PICK more : more = Append(heard[l.n], e.n)
    OBVIOUS
  <1>11. PICK len \in Nat : len = Len(heard[l.n]) /\ DOMAIN heard[l.n] = 1..len
    BY <1>3, HeardFacts DEF IInv
  <1>12. /\ more \in Seq(1..MaxEvents) /\ DOMAIN more = 1..(len + 1) /\ more[len + 1] = e.n
         /\ \A i \in 1..len : more[i] = heard[l.n][i]
    <2>1. heard[l.n] \in Seq(1..MaxEvents)
      BY <1>3, <1>9
    <2>2. /\ more \in Seq(1..MaxEvents) /\ Len(more) = len + 1 /\ more[len + 1] = e.n
          /\ \A i \in 1..len : more[i] = heard[l.n][i]
      BY <1>5, <1>10, <1>11, <2>1, AppendProperties
    <2> QED
      BY <2>2, LenProperties
  <1>13. \A n \in 1..MaxListeners :
            heard'[n] = IF called /\ n = l.n THEN more ELSE heard[n]
    BY <1>3, <1>6, <1>9, <1>10
  <1>14. heard' \in [1..MaxListeners -> Seq(1..MaxEvents)]
    BY <1>6, <1>9, <1>10, <1>12
  <1>15. \A i \in 1..len : heard[l.n][i] < e.n
    <2>1. ~Passed(l.n)
      BY <1>1, <1>2 DEF Passed
    <2>2. \A i \in 1..len : heard[l.n][i] \in Int
      BY <1>3, <1>11, HeardFacts DEF IInv
    <2> QED
      BY <1>3, <1>4, <1>5, <1>11, <2>1, <2>2, BoundsAssumption DEF IInv, Heard
  <1>16. Types'
    BY <1>1, <1>5, <1>8, <1>14 DEF IInv, Types
  <1>17. Numbered'
    BY <1>1, <1>8 DEF IInv, Numbered, Used
  <1>18. Queued' /\ Stamped'
    BY <1>1 DEF IInv, Queued, Stamped, Epoch, now, Used, Wants
  <1>19. HeardInOrder'
    <2>1. ASSUME NEW n \in 1..MaxListeners, NEW i \in DOMAIN heard'[n],
                 NEW j \in DOMAIN heard'[n], i < j
          PROVE  heard'[n][i] < heard'[n][j]
      <3>1. CASE called /\ n = l.n
        <4>1. heard'[n] = more /\ i \in 1..(len + 1) /\ j \in 1..(len + 1)
          BY <1>12, <1>13, <3>1
        <4>2. i \in 1..len
          BY <2>1, <4>1
        <4>3. CASE j = len + 1
          BY <1>12, <1>15, <4>1, <4>2, <4>3
        <4>4. CASE j \in 1..len
          BY <1>11, <1>12, <2>1, <3>1, <4>1, <4>2, <4>4 DEF IInv, HeardInOrder
        <4> QED
          BY <4>1, <4>3, <4>4
      <3>2. CASE ~(called /\ n = l.n)
        BY <1>13, <2>1, <3>2 DEF IInv, HeardInOrder
      <3> QED
        BY <3>1, <3>2
    <2> QED
      BY <2>1 DEF HeardInOrder
  <1>20. Passed(l.n)'
    <2>1. \A j \in Slots : slots[j].n = l.n => j = thread.slot
      BY <1>1, <1>2 DEF IInv, Numbered
    <2> QED
      BY <1>1, <1>8, <2>1, CapacityAssumption DEF Passed, Slots
  <1>21. \A n : Passed(n) => Passed(n)'
    BY <1>1, <1>8 DEF Passed
  <1>22. Heard'
    <2>1. ASSUME NEW n \in 1..MaxListeners, NEW i \in DOMAIN heard'[n]
          PROVE  /\ heard'[n][i] <= made.events /\ n <= made.listeners
                 /\ heard'[n][i] <= e.n
                 /\ heard'[n][i] = e.n => Passed(n)'
      <3>1. CASE called /\ n = l.n
        <4>1. heard'[n] = more /\ i \in 1..(len + 1)
          BY <1>12, <1>13, <3>1
        <4>2. l.n <= made.listeners
          BY <1>1, <1>2 DEF IInv, Numbered
        <4>3. CASE i = len + 1
          BY <1>5, <1>12, <1>20, <3>1, <4>1, <4>2, <4>3, BoundsAssumption
        <4>4. CASE i \in 1..len
          BY <1>4, <1>5, <1>11, <1>12, <1>20, <3>1, <4>1, <4>2, <4>4 DEF IInv, Heard
        <4> QED
          BY <4>1, <4>3, <4>4
      <3>2. CASE ~(called /\ n = l.n)
        BY <1>4, <1>5, <1>13, <1>21, <2>1, <3>2 DEF IInv, Heard
      <3> QED
        BY <3>1, <3>2
    <2> QED
      BY <1>1, <1>4, <1>8, <2>1 DEF Heard
  <1>23. \A n \in 1..MaxListeners : HeardBy(n) \subseteq HeardBy(n)'
    <2>1. ASSUME NEW n \in 1..MaxListeners, NEW i \in DOMAIN heard[n]
          PROVE  i \in DOMAIN heard'[n] /\ heard'[n][i] = heard[n][i]
      BY <1>11, <1>12, <1>13
    <2> QED
      BY <2>1 DEF HeardBy
  <1>24. called => e.n \in HeardBy(l.n)'
    <2>1. called => len + 1 \in DOMAIN heard'[l.n] /\ heard'[l.n][len + 1] = e.n
      BY <1>3, <1>11, <1>12, <1>13
    <2> QED
      BY <2>1 DEF HeardBy
  <1>25. Served'
    <2>1. ASSUME e.epoch = Epoch, NEW j \in Slots, Used(j), j <= thread.slot,
                 slots[j].n \in e.audience
          PROVE  e.n \in HeardBy(slots[j].n)'
      <3>1. CASE slots[j].n = l.n
        <4>1. j = thread.slot
          BY <1>1, <1>2, <3>1 DEF IInv, Numbered
        <4>2. Wants(slots[j], e)
          BY <1>4, <1>5, <2>1 DEF IInv, Stamped
        <4>3. called
          BY <1>2, <1>6, <3>1, <4>1, <4>2 DEF Alive
        <4> QED
          BY <1>1, <1>24, <3>1, <4>3 DEF HeardBy
      <3>2. CASE slots[j].n # l.n
        <4>1. slots[j].n \in 1..MaxListeners
          BY <1>5, <2>1 DEF EventType
        <4> QED
          BY <1>1, <1>2, <1>4, <1>23, <2>1, <3>2, <4>1 DEF IInv, Served
      <3> QED
        BY <3>1, <3>2
    <2> QED
      BY <1>1, <1>4, <1>8, <2>1 DEF Served, Epoch, Used
  <1> QED
    BY <1>16, <1>17, <1>18, <1>19, <1>22, <1>25 DEF IInv

-----------------------------------------------------------------------------
(* The theorems.                                                            *)

\* Nothing was made and nobody has heard anything yet.
LEMMA InitInv == Init => IInv
  <1> SUFFICES ASSUME Init PROVE IInv
    OBVIOUS
  <1>1. /\ slots = [i \in Slots |-> Free] /\ pending = <<>>
        /\ thread = [at |-> "looking", slot |-> 0, listener |-> Free]
        /\ clock = [raw |-> 0, offset |-> 0, due |-> FALSE]
        /\ made = [events |-> 0, listeners |-> 0, syncs |-> 0]
        /\ heard = [n \in 1..MaxListeners |-> <<>>]
    BY DEF Init, At
  <1>2. <<>> \in Seq(EventType) /\ <<>> \in Seq(1..MaxEvents)
    OBVIOUS
  <1>3. ~Busy
    BY <1>1 DEF Busy
  <1>4. Types
    <2>1. thread \in [at: Places, slot: Slots \cup {0}, listener: ListenerType \cup {Free}]
      BY <1>1 DEF Places
    <2>2. clock \in [raw: Int, offset: Int, due: BOOLEAN]
      BY <1>1
    <2>3. made \in [events: 0..MaxEvents, listeners: 0..MaxListeners, syncs: Int]
      BY <1>1, BoundsAssumption
    <2>4. slots \in [Slots -> ListenerType \cup {Free}]
      BY <1>1
    <2>5. heard \in [1..MaxListeners -> Seq(1..MaxEvents)]
      BY <1>1, <1>2
    <2>6. pending \in Seq(EventType) /\ thread.slot = 0 /\ thread.at # "calling"
      BY <1>1, <1>2
    <2> QED
      BY <1>3, <2>1, <2>2, <2>3, <2>4, <2>5, <2>6 DEF Init, Types
  <1>5. Free.n = 0 /\ \A i \in Slots : slots[i] = Free
    BY <1>1 DEF Free
  <1>6. Numbered
    BY <1>1, <1>5 DEF Numbered, Used
  <1>7. DOMAIN pending = {} /\ \A n \in 1..MaxListeners : DOMAIN heard[n] = {}
    BY <1>1
  <1>8. Queued /\ HeardInOrder /\ Heard
    BY <1>7 DEF Queued, HeardInOrder, Heard
  <1>9. Stamped /\ Served
    BY <1>3, <1>5, <1>7 DEF Stamped, Served, Used
  <1> QED
    BY <1>4, <1>6, <1>8, <1>9 DEF IInv

\* Every step of the thread, its callers and the clock keeps the invariant.
LEMMA StepInv == IInv /\ [Next]_vars => IInv'
  <1> SUFFICES ASSUME IInv, [Next]_vars PROVE IInv'
    OBVIOUS
  <1>1. CASE ThreadNext
    BY <1>1, LookStep, FallAsleepStep, AdvanceStep, CallStep DEF ThreadNext
  <1>2. CASE CallerNext
    BY <1>2, NotifyStep, CreateStep, DestroyStep, SyncStep, ResyncStep, StopStep
       DEF CallerNext
  <1>3. CASE Tick
    BY <1>3, TickStep
  <1>4. CASE UNCHANGED vars
    BY <1>4, Untouched
       DEF vars, IInv, Types, Numbered, Heard, Served, Busy, Passed, Used, Epoch, HeardBy
  <1> QED
    BY <1>1, <1>2, <1>3, <1>4 DEF Next

\* The invariant of the listener storage, its thread and its callers.
THEOREM Inductive == Spec => []IInv
  BY InitInv, StepInv, PTL DEF Spec

\* TypeOK: slots, queue and thread hold what they are for; in particular a
\* callback is only under way with a listener and an event.
THEOREM TypeCorrect == Spec => []TypeOK
  <1>1. IInv => TypeOK
    <2> SUFFICES ASSUME IInv PROVE TypeOK
      OBVIOUS
    <2>1. /\ slots \in [Slots -> ListenerType \cup {Free}] /\ pending \in Seq(EventType)
          /\ running \in BOOLEAN /\ unheard \in BOOLEAN
          /\ heard \in [1..MaxListeners -> Seq(1..MaxEvents)]
      BY DEF IInv, Types
    <2>2. thread.at = "calling" => thread.listener # Free /\ pending # <<>>
      BY DEF IInv, Types, Busy
    <2>3. /\ thread.at \in Places /\ thread.slot \in Slots \cup {0}
          /\ thread.listener \in ListenerType \cup {Free}
          /\ clock.offset \in Int /\ clock.due \in BOOLEAN
      BY DEF IInv, Types
    <2> QED
      BY <2>1, <2>2, <2>3 DEF TypeOK, Places
  <1> QED
    BY Inductive, <1>1, PTL

\* thread_main calls every callback in the order of the events and never twice
\* with one of them, however listeners come, go and share slots meanwhile.
THEOREM AlwaysInOrder == Spec => []HeardInOrder
  <1>1. IInv => HeardInOrder
    BY DEF IInv
  <1> QED
    BY Inductive, <1>1, PTL

\* A queue without its first event is none of what other steps make of it.
LEMMA ShorterQueue ==
    ASSUME NEW S, NEW q \in Seq(S), q # <<>>, NEW r, r = Tail(q)
    PROVE  r # q /\ DOMAIN r # DOMAIN q /\ \A e : r # Append(q, e)
  <1>1. PICK len \in Nat : len = Len(q) /\ len > 0 /\ DOMAIN q = 1..len
    BY EmptySeq, LenProperties
  <1>2. r \in Seq(S) /\ Len(r) = len - 1
    BY <1>1, HeadTailProperties
  <1>3. DOMAIN r = 1..(len - 1)
    BY <1>2, LenProperties
  <1>4. len \in DOMAIN q /\ len \notin DOMAIN r
    BY <1>1, <1>3
  <1>5. ASSUME NEW e, r = Append(q, e) PROVE FALSE
    <2>1. Len(r) = len + 1
      BY <1>1, <1>5
    <2> QED
      BY <1>1, <1>2, <2>1
  <1> QED
    BY <1>4, <1>5

\* An event is not dropped before every listener that was there when it happened
\* and still is has been called, but for those a clock sync has restamped.
THEOREM NoListenerMissed == Spec => NobodyMissed
  <1> DEFINE Missing ==
        pending # <<>> /\ pending' = Tail(pending) =>
            LET e == Head(pending)
            IN  e.epoch = Epoch =>
                    \A n \in e.audience \cap Listening : e.n \in HeardBy(n)
  <1>1. IInv /\ [Next]_vars => [Missing]_vars
    <2> SUFFICES ASSUME IInv, [Next]_vars, pending # <<>>, pending' = Tail(pending),
                        Head(pending).epoch = Epoch,
                        NEW n \in Head(pending).audience \cap Listening
                 PROVE  Head(pending).n \in HeardBy(n)
      BY DEF Missing
    <2>1. pending \in Seq(EventType) /\ Head(pending) = pending[1]
      BY QueueFacts DEF IInv, Types
    <2>2. /\ pending' # pending /\ DOMAIN pending' # DOMAIN pending
          /\ \A e : pending' # Append(pending, e)
      BY <2>1, ShorterQueue
    <2>3. ~Resync /\ ~\E p \in Paths : Notify(p)
      BY <2>2 DEF Resync, Notify
    <2>4. Advance
      BY <2>2, <2>3
         DEF Next, ThreadNext, CallerNext, Look, FallAsleep, Call, Create, Destroy,
             Sync, Stop, Tick, vars
    <2>5. thread.at = "advancing" /\ NextSlots(thread.slot) = {} /\ Busy
      BY <2>2, <2>4 DEF Advance, Busy
    <2>6. PICK j \in Slots : Used(j) /\ slots[j].n = n
      BY DEF Listening
    <2>7. j <= thread.slot
      <3>1. j \in Int /\ thread.slot \in Int
        BY CapacityAssumption DEF Slots, IInv, Types
      <3>2. ~(j > thread.slot)
        BY <2>5, <2>6 DEF NextSlots
      <3> QED
        BY <3>1, <3>2
    <2> QED
      BY <2>1, <2>5, <2>6, <2>7 DEF IInv, Served
  <1> QED
    BY Inductive, <1>1, PTL DEF Spec, NobodyMissed
=============================================================================
