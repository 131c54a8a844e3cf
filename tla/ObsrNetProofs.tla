---------------------------- MODULE ObsrNetProofs ----------------------------
(***************************************************************************)
(* Proofs about the server and its clients (ObsrNet).                       *)
(***************************************************************************)
EXTENDS ObsrNet, StorageOpsProofs, FiniteSetTheorems, WellFoundedInduction

-----------------------------------------------------------------------------
(* Messages, and what is on its way to one client.                          *)

UpdateMsg == [type: {"entry_update"}, id: Ids, value: AnyValue, ts: Int]
DeletionMsg == [type: {"entry_delete"}, id: Ids, ts: Int]
AssignMsg == [type: {"entry_id_assign"}, id: Ids, path: Paths]
CreateMsg == [type: {"entry_create"}, path: Paths, value: AnyValue, ts: Int]

Signals == {SyncRequest, Ready}
ToServer == CreateMsg \cup UpdateMsg \cup DeletionMsg \cup Signals
ToClient == UpdateMsg \cup DeletionMsg \cup AssignMsg \cup {SyncResponse, Finished}

\* There is at most one client: no client hears of what another one did.
Alone == \A c, d \in Clients : c = d

\* Only the server's program writes, and nobody is restarted.
Listening == Writers \subseteq {Server} /\ MaxRestarts = 0

\* Either is enough for a client to be told of ids before anything about them.
Orderly == Alone \/ Listening

NamesId(m) == m.type \in {"entry_update", "entry_delete"}
Assigns(m, id) == m.type = "entry_id_assign" /\ m.id = id

\* The client with the id table ids knows id, or one of the first k messages
\* on their way assigns it.
Told(ids, str, id, k) == ids[id] # 0 \/ \E j \in 1..k : Assigns(str[j], id)

AllTold(ids, str, known) == \A id \in known : Told(ids, str, id, Len(str))

InOrder(ids, str) ==
    \A k \in 1..Len(str) : NamesId(str[k]) => Told(ids, str, str[k].id, k - 1)

\* The paths a message means are those of the server's m_id_assignments.
Right(sv, m) ==
    /\ m.type = "entry_id_assign" => m.id < sv.next /\ sv.names[m.id] = m.path
    /\ (m.type = "entry_update" /\ m.value \in Values) =>
          m.id < sv.next /\ sv.names[m.id] = HomeOf[m.value]

AllRight(sv, str) == \A k \in 1..Len(str) : Right(sv, str[k])

StreamOK(ids, sv, str, known) ==
    /\ str \in Seq(ToClient)
    /\ AllTold(ids, str, known)
    /\ Orderly => InOrder(ids, str)
    /\ Listening => AllRight(sv, str)

\* What the fields of a message to a client are.
LEMMA ToClientFacts ==
    ASSUME NEW m \in ToClient
    PROVE  /\ m.type \in {"entry_update", "entry_delete", "entry_id_assign",
                          "time_sync_response", "handshake_finished"}
           /\ m.type = "entry_update" => m \in UpdateMsg
           /\ m.type = "entry_delete" => m \in DeletionMsg
           /\ m.type = "entry_id_assign" => m \in AssignMsg
  BY DEF ToClient, UpdateMsg, DeletionMsg, AssignMsg, SyncResponse, Finished

\* Likewise of a message to the server.
LEMMA ToServerFacts ==
    ASSUME NEW m \in ToServer
    PROVE  /\ m.type = "entry_create" => m \in CreateMsg
           /\ m.type = "entry_update" => m \in UpdateMsg
           /\ m.type = "entry_delete" => m \in DeletionMsg
  BY DEF ToServer, CreateMsg, UpdateMsg, DeletionMsg, Signals, SyncRequest, Ready

\* A message appended to what is on its way.
LEMMA AppendOK ==
    ASSUME NEW ids, NEW sv, NEW str, NEW known, StreamOK(ids, sv, str, known),
           NEW m \in ToClient, NEW more,
           (Orderly /\ NamesId(m)) => m.id \in known,
           Listening => Right(sv, m),
           \A id \in more : Assigns(m, id)
    PROVE  StreamOK(ids, sv, Append(str, m), known \cup more)
  <1>1. PICK s : s = Append(str, m)
    OBVIOUS
  <1>2. PICK n : n = Len(str)
    OBVIOUS
  <1>3. str \in Seq(ToClient) /\ n \in Nat
    BY <1>2, LenProperties DEF StreamOK
  <1>4. s \in Seq(ToClient) /\ Len(s) = n + 1 /\ s[n + 1] = m
    BY <1>1, <1>2, <1>3, AppendProperties
  <1>5. \A k \in 1..n : s[k] = str[k]
    BY <1>1, <1>2, <1>3, AppendProperties
  <1>6. ASSUME NEW id, NEW k \in 0..n, Told(ids, str, id, k)
        PROVE  Told(ids, s, id, k)
    BY <1>3, <1>5, <1>6 DEF Told
  <1>7. ASSUME NEW id, Told(ids, s, id, n)
        PROVE  Told(ids, s, id, n + 1)
    BY <1>3, <1>7 DEF Told
  <1>8. \A id \in known : Told(ids, s, id, n)
    <2>1. n \in 0..n
      BY <1>3
    <2> QED
      BY <1>2, <1>6, <2>1 DEF StreamOK, AllTold
  <1>9. AllTold(ids, s, known \cup more)
    <2>1. n + 1 \in 1..(n + 1)
      BY <1>3
    <2>2. \A id \in more : Told(ids, s, id, n + 1)
      BY <1>4, <2>1 DEF Told
    <2> QED
      BY <1>4, <1>7, <1>8, <2>2 DEF AllTold
  <1>10. ASSUME Orderly
         PROVE  InOrder(ids, s)
    <2>1. \A k \in 1..(n + 1) : k \in 1..n \/ k = n + 1
      BY <1>3
    <2>2. ASSUME NEW k \in 1..n, NamesId(s[k])
          PROVE  Told(ids, s, s[k].id, k - 1)
      <3>1. s[k] = str[k]
        BY <1>5
      <3>2. Told(ids, str, str[k].id, k - 1)
        BY <1>2, <1>10, <2>2, <3>1 DEF StreamOK, InOrder
      <3>3. k - 1 \in 0..n
        BY <1>3
      <3> QED
        BY <1>6, <3>1, <3>2, <3>3
    <2>3. ASSUME NamesId(s[n + 1])
          PROVE  Told(ids, s, s[n + 1].id, (n + 1) - 1)
      <3>1. Told(ids, s, m.id, n)
        BY <1>4, <1>8, <1>10, <2>3
      <3>2. (n + 1) - 1 = n
        BY <1>3
      <3> QED
        BY <1>4, <3>1, <3>2
    <2> QED
      BY <1>4, <2>1, <2>2, <2>3 DEF InOrder
  <1>11. ASSUME Listening
         PROVE  AllRight(sv, s)
    <2>1. \A k \in 1..(n + 1) : k \in 1..n \/ k = n + 1
      BY <1>3
    <2>2. AllRight(sv, str)
      BY <1>11 DEF StreamOK
    <2>3. Right(sv, m)
      BY <1>11
    <2> QED
      BY <1>2, <1>4, <1>5, <2>1, <2>2, <2>3 DEF AllRight
  <1> QED
    BY <1>1, <1>4, <1>9, <1>10, <1>11 DEF StreamOK

\* The client takes the first message: if it assigned an id, the client has it.
LEMMA TailOK ==
    ASSUME NEW ids, NEW new, NEW sv, NEW str, NEW known, StreamOK(ids, sv, str, known),
           str # <<>>, known \subseteq Ids,
           \A i \in Ids : ids[i] # 0 => new[i] # 0,
           \A i \in Ids : Assigns(Head(str), i) => new[i] # 0
    PROVE  StreamOK(new, sv, Tail(str), known)
  <1>1. PICK s : s = Tail(str)
    OBVIOUS
  <1>2. PICK n : n = Len(str)
    OBVIOUS
  <1>3. str \in Seq(ToClient)
    BY DEF StreamOK
  <1>4. n \in Nat /\ n # 0
    BY <1>2, <1>3, EmptySeq, LenProperties
  <1>5. s \in Seq(ToClient) /\ Len(s) = n - 1
    BY <1>1, <1>2, <1>3, HeadTailProperties
  <1>6. \A k \in 1..(n - 1) : s[k] = str[k + 1]
    BY <1>1, <1>2, <1>3, HeadTailProperties
  <1>7. Head(str) = str[1]
    BY <1>3, HeadTailProperties
  <1>8. ASSUME NEW id \in Ids, NEW k \in 1..n, Told(ids, str, id, k)
        PROVE  Told(new, s, id, k - 1)
    <2>1. CASE ids[id] # 0
      BY <2>1 DEF Told
    <2>2. ASSUME NEW j \in 1..k, Assigns(str[j], id)
          PROVE  Told(new, s, id, k - 1)
      <3>1. CASE j = 1
        BY <1>7, <2>2, <3>1 DEF Told
      <3>2. CASE j # 1
        <4>1. j - 1 \in 1..(k - 1) /\ j - 1 \in 1..(n - 1) /\ (j - 1) + 1 = j
          BY <1>4, <3>2
        <4>2. s[j - 1] = str[j]
          BY <1>6, <4>1
        <4> QED
          BY <2>2, <4>1, <4>2 DEF Told
      <3> QED
        BY <3>1, <3>2
    <2> QED
      BY <1>8, <2>1, <2>2 DEF Told
  <1>9. AllTold(new, s, known)
    <2> SUFFICES ASSUME NEW id \in known
                 PROVE  Told(new, s, id, Len(s))
      BY DEF AllTold
    <2>1. Told(ids, str, id, n) /\ id \in Ids /\ n \in 1..n
      BY <1>2, <1>4 DEF StreamOK, AllTold
    <2> QED
      BY <1>5, <1>8, <2>1
  <1>10. ASSUME Orderly
         PROVE  InOrder(new, s)
    <2> SUFFICES ASSUME NEW k \in 1..(n - 1), NamesId(s[k])
                 PROVE  Told(new, s, s[k].id, k - 1)
      BY <1>5 DEF InOrder
    <2>1. k + 1 \in 1..n /\ k \in 1..n /\ (k + 1) - 1 = k
      BY <1>4
    <2>2. s[k] = str[k + 1] /\ str[k + 1] \in ToClient
      BY <1>2, <1>3, <1>6, <2>1, ElementOfSeq
    <2>3. s[k].id \in Ids
      BY <2>2, ToClientFacts DEF NamesId, UpdateMsg, DeletionMsg
    <2>4. Told(ids, str, s[k].id, k)
      BY <1>2, <1>10, <2>1, <2>2 DEF StreamOK, InOrder
    <2> QED
      BY <1>8, <2>1, <2>3, <2>4
  <1>11. ASSUME Listening
         PROVE  AllRight(sv, s)
    <2>1. AllRight(sv, str)
      BY <1>11 DEF StreamOK
    <2>2. \A k \in 1..(n - 1) : k + 1 \in 1..n
      BY <1>4
    <2> QED
      BY <1>2, <1>5, <1>6, <2>1, <2>2 DEF AllRight
  <1> QED
    BY <1>1, <1>5, <1>9, <1>10, <1>11 DEF StreamOK

\* The answer to a time sync request overtakes what is queued.
LEMMA OvertakeOK ==
    ASSUME NEW ids, NEW sv, NEW a \in Seq(ToClient), NEW b \in Seq(ToClient), NEW known,
           StreamOK(ids, sv, a \o b, known)
    PROVE  StreamOK(ids, sv, Append(a, SyncResponse) \o b, known)
  <1>1. PICK str : str = a \o b
    OBVIOUS
  <1>2. PICK s : s = Append(a, SyncResponse) \o b
    OBVIOUS
  <1>3. PICK n : n = Len(a)
    OBVIOUS
  <1>4. PICK l : l = Len(b)
    OBVIOUS
  <1>5. n \in Nat /\ l \in Nat
    BY <1>3, <1>4, LenProperties
  <1>6. PICK a1 : a1 = Append(a, SyncResponse)
    OBVIOUS
  <1>7. SyncResponse \in ToClient /\ SyncResponse.type = "time_sync_response"
    BY DEF ToClient, SyncResponse
  <1>8. /\ a1 \in Seq(ToClient) /\ Len(a1) = n + 1 /\ a1[n + 1] = SyncResponse
        /\ \A k \in 1..n : a1[k] = a[k]
    BY <1>3, <1>6, <1>7, AppendProperties
  <1>9. /\ str \in Seq(ToClient) /\ Len(str) = n + l
        /\ \A k \in 1..(n + l) : str[k] = IF k <= n THEN a[k] ELSE b[k - n]
    BY <1>1, <1>3, <1>4, ConcatProperties
  <1>10. s \in Seq(ToClient) /\ Len(s) = (n + 1) + l
    BY <1>2, <1>4, <1>6, <1>8, ConcatProperties
  <1>11. \A k \in 1..((n + 1) + l) : s[k] = IF k <= n + 1 THEN a1[k] ELSE b[k - (n + 1)]
    BY <1>2, <1>4, <1>6, <1>8, ConcatProperties
  <1>12. \A k \in 1..n : s[k] = str[k]
    BY <1>5, <1>8, <1>9, <1>11
  <1>13. s[n + 1] = SyncResponse
    BY <1>5, <1>8, <1>11
  <1>14. ASSUME NEW k \in (n + 1)..(n + l)
         PROVE  s[k + 1] = str[k]
    <2>1. /\ k + 1 \in 1..((n + 1) + l) /\ ~(k + 1 <= n + 1) /\ (k + 1) - (n + 1) = k - n
          /\ k \in 1..(n + l) /\ ~(k <= n)
      BY <1>5
    <2> QED
      BY <1>9, <1>11, <2>1
  <1>15. ASSUME NEW id, NEW k \in 0..n, Told(ids, str, id, k)
         PROVE  Told(ids, s, id, k)
    BY <1>5, <1>12, <1>15 DEF Told
  <1>16. ASSUME NEW id, NEW k \in 0..(n + l), Told(ids, str, id, k)
         PROVE  Told(ids, s, id, k + 1)
    <2>1. CASE ids[id] # 0
      BY <2>1 DEF Told
    <2>2. ASSUME NEW j \in 1..k, Assigns(str[j], id)
          PROVE  Told(ids, s, id, k + 1)
      <3>1. CASE j \in 1..n
        <4>1. j \in 1..(k + 1)
          BY <1>5
        <4> QED
          BY <1>12, <2>2, <3>1, <4>1 DEF Told
      <3>2. CASE j \notin 1..n
        <4>1. j \in (n + 1)..(n + l) /\ j + 1 \in 1..(k + 1)
          BY <1>5, <3>2
        <4> QED
          BY <1>14, <2>2, <4>1 DEF Told
      <3> QED
        BY <3>1, <3>2
    <2> QED
      BY <1>16, <2>1, <2>2 DEF Told
  <1>17. AllTold(ids, s, known)
    <2>1. AllTold(ids, str, known)
      BY <1>1 DEF StreamOK
    <2>2. n + l \in 0..(n + l) /\ (n + l) + 1 = (n + 1) + l
      BY <1>5
    <2> QED
      BY <1>9, <1>10, <1>16, <2>1, <2>2 DEF AllTold
  <1>18. \A k \in 1..((n + 1) + l) :
            k \in 1..n \/ k = n + 1 \/ (k - 1 \in (n + 1)..(n + l) /\ (k - 1) + 1 = k)
    BY <1>5
  <1>19. ASSUME Orderly
         PROVE  InOrder(ids, s)
    <2>1. InOrder(ids, str)
      BY <1>1, <1>19 DEF StreamOK
    <2> SUFFICES ASSUME NEW k \in 1..((n + 1) + l), NamesId(s[k])
                 PROVE  Told(ids, s, s[k].id, k - 1)
      BY <1>10 DEF InOrder
    <2>2. CASE k \in 1..n
      <3>1. k \in 1..(n + l) /\ k - 1 \in 0..n
        BY <1>5, <2>2
      <3>2. Told(ids, str, s[k].id, k - 1)
        BY <1>9, <1>12, <2>1, <2>2, <3>1 DEF InOrder
      <3> QED
        BY <1>15, <3>1, <3>2
    <2>3. CASE k = n + 1
      BY <1>7, <1>13, <2>3 DEF NamesId
    <2>4. CASE k - 1 \in (n + 1)..(n + l) /\ (k - 1) + 1 = k
      <3>1. PICK i \in (n + 1)..(n + l) : i = k - 1 /\ i + 1 = k
        BY <2>4
      <3>2. i \in 1..(n + l) /\ i - 1 \in 0..(n + l) /\ (i - 1) + 1 = i
        BY <1>5
      <3>3. s[k] = str[i]
        BY <1>14, <3>1
      <3>4. Told(ids, str, s[k].id, i - 1)
        BY <1>9, <2>1, <3>2, <3>3 DEF InOrder
      <3> QED
        BY <1>16, <3>1, <3>2, <3>4
    <2> QED
      BY <1>18, <2>2, <2>3, <2>4
  <1>20. ASSUME Listening
         PROVE  AllRight(sv, s)
    <2>1. AllRight(sv, str)
      BY <1>1, <1>20 DEF StreamOK
    <2> SUFFICES ASSUME NEW k \in 1..((n + 1) + l)
                 PROVE  Right(sv, s[k])
      BY <1>10 DEF AllRight
    <2>2. CASE k \in 1..n
      <3>1. k \in 1..(n + l)
        BY <1>5, <2>2
      <3> QED
        BY <1>9, <1>12, <2>1, <2>2, <3>1 DEF AllRight
    <2>3. CASE k = n + 1
      BY <1>7, <1>13, <2>3 DEF Right
    <2>4. CASE k - 1 \in (n + 1)..(n + l) /\ (k - 1) + 1 = k
      <3>1. PICK i \in (n + 1)..(n + l) : i = k - 1 /\ i + 1 = k
        BY <2>4
      <3>2. i \in 1..(n + l)
        BY <1>5
      <3> QED
        BY <1>9, <1>14, <2>1, <3>1, <3>2 DEF AllRight
    <2> QED
      BY <1>18, <2>2, <2>3, <2>4
  <1> QED
    BY <1>1, <1>2, <1>10, <1>17, <1>19, <1>20 DEF StreamOK

\* The ids are the first numbers.
LEMMA IdsFacts ==
    /\ Cardinality(Ids) \in Nat
    /\ \A i : i \in Ids <=> (i \in Nat /\ i < Cardinality(Ids))
  <1>1. Cardinality(Ids) \in Nat
    BY IdsAreNumbers, FS_CardinalityType
  <1>2. PICK n \in Nat : n = Cardinality(Ids)
    BY <1>1
  <1>3. \A i : i \in Ids <=> i \in 0..(n - 1)
    BY <1>2, IdsAreNumbers
  <1>4. \A i : i \in 0..(n - 1) <=> (i \in Nat /\ i < n)
    OBVIOUS
  <1> QED
    BY <1>2, <1>3, <1>4

\* A client that knows more ids, and a server that assigned more of them.
LEMMA StreamGrows ==
    ASSUME NEW ids, NEW new, NEW sv, NEW str, NEW known, NEW sv2,
           StreamOK(ids, sv, str, known), known \subseteq Ids,
           \A i \in Ids : ids[i] # 0 => new[i] # 0,
           Listening => /\ sv.next \in Nat /\ sv2.next \in Nat /\ sv.next <= sv2.next
                        /\ \A i \in Ids : i < sv.next => sv2.names[i] = sv.names[i]
    PROVE  StreamOK(new, sv2, str, known)
  <1>1. str \in Seq(ToClient)
    BY DEF StreamOK
  <1>2. \A k \in 1..Len(str) : str[k] \in ToClient
    BY <1>1, ElementOfSeq
  <1>3. ASSUME NEW id \in Ids, NEW k, Told(ids, str, id, k)
        PROVE  Told(new, str, id, k)
    BY <1>3 DEF Told
  <1>4. AllTold(new, str, known)
    BY <1>3 DEF StreamOK, AllTold
  <1>5. ASSUME Orderly
        PROVE  InOrder(new, str)
    <2> SUFFICES ASSUME NEW k \in 1..Len(str), NamesId(str[k])
                 PROVE  Told(new, str, str[k].id, k - 1)
      BY DEF InOrder
    <2>1. str[k].id \in Ids
      BY <1>2, ToClientFacts DEF NamesId, UpdateMsg, DeletionMsg
    <2>2. Told(ids, str, str[k].id, k - 1)
      BY <1>5 DEF StreamOK, InOrder
    <2> QED
      BY <1>3, <2>1, <2>2
  <1>6. ASSUME Listening
        PROVE  AllRight(sv2, str)
    <2> SUFFICES ASSUME NEW k \in 1..Len(str)
                 PROVE  Right(sv2, str[k])
      BY DEF AllRight
    <2>1. PICK m \in ToClient : m = str[k]
      BY <1>2
    <2>2. Right(sv, m)
      BY <1>6, <2>1 DEF StreamOK, AllRight
    <2>3. (m.type = "entry_update" \/ m.type = "entry_id_assign") => m.id \in Ids
      BY ToClientFacts DEF UpdateMsg, AssignMsg
    <2>4. ASSUME NEW i \in Ids, i < sv.next
          PROVE  i < sv2.next /\ sv2.names[i] = sv.names[i]
      <3>1. i \in Nat
        BY IdsFacts
      <3> QED
        BY <1>6, <2>4, <3>1
    <2>5. Right(sv2, m)
      BY <2>2, <2>3, <2>4 DEF Right
    <2> QED
      BY <2>1, <2>5
  <1> QED
    BY <1>1, <1>4, <1>5, <1>6 DEF StreamOK

-----------------------------------------------------------------------------
(* What the server keeps for one client.                                    *)

PeerType == [id: Ids \cup {NoId}, known: SUBSET Ids, queue: Seq(ToClient)]

\* ids is the client's m_ids and dn what its connection still holds.
PeerOK(ids, dn, sv, pr) ==
    /\ pr \in PeerType
    /\ StreamOK(ids, sv, dn \o pr.queue, pr.known)

\* The parts of what the server keeps for a client.
LEMMA PeerFacts ==
    ASSUME NEW pr \in PeerType
    PROVE  /\ pr.id \in Ids \cup {NoId} /\ pr.known \subseteq Ids
           /\ pr.queue \in Seq(ToClient)
           /\ pr = [id |-> pr.id, known |-> pr.known, queue |-> pr.queue]
  BY DEF PeerType

\* Appending to the queue appends to what is on its way.
LEMMA AppendLast ==
    ASSUME NEW S, NEW a \in Seq(S), NEW b \in Seq(S), NEW m \in S
    PROVE  a \o Append(b, m) = Append(a \o b, m)
  <1>1. <<m>> \in Seq(S)
    OBVIOUS
  <1>2. Append(b, m) = b \o <<m>>
    BY AppendIsConcat
  <1>3. a \o (b \o <<m>>) = (a \o b) \o <<m>>
    BY <1>1, ConcatAssociative
  <1>4. a \o b \in Seq(S)
    BY ConcatProperties
  <1>5. Append(a \o b, m) = (a \o b) \o <<m>>
    BY <1>4, AppendIsConcat
  <1> QED
    BY <1>2, <1>3, <1>5

\* A message that names an id, or none, is put in the queue.
LEMMA EnqueueOK ==
    ASSUME NEW ids, NEW dn \in Seq(ToClient), NEW sv, NEW pr, PeerOK(ids, dn, sv, pr),
           NEW m \in ToClient,
           (Orderly /\ NamesId(m)) => m.id \in pr.known,
           Listening => Right(sv, m)
    PROVE  LET q == Enqueue(pr, m)
           IN  PeerOK(ids, dn, sv, q) /\ q.id = pr.id /\ q.known = pr.known
  <1>1. PICK q : q = Enqueue(pr, m)
    OBVIOUS
  <1>2. pr \in PeerType /\ StreamOK(ids, sv, dn \o pr.queue, pr.known)
    BY DEF PeerOK
  <1>3. /\ pr.id \in Ids \cup {NoId} /\ pr.known \subseteq Ids
        /\ pr.queue \in Seq(ToClient)
        /\ pr = [id |-> pr.id, known |-> pr.known, queue |-> pr.queue]
    BY <1>2, PeerFacts
  <1>4. q = [id |-> pr.id, known |-> pr.known, queue |-> Append(pr.queue, m)]
    BY <1>1, <1>3 DEF Enqueue
  <1>5. Append(pr.queue, m) \in Seq(ToClient)
    BY <1>3, AppendProperties
  <1>6. q \in PeerType /\ q.id = pr.id /\ q.known = pr.known
        /\ q.queue = Append(pr.queue, m)
    BY <1>3, <1>4, <1>5 DEF PeerType
  <1>7. StreamOK(ids, sv, Append(dn \o pr.queue, m), pr.known \cup {})
    BY <1>2, AppendOK
  <1>8. dn \o q.queue = Append(dn \o pr.queue, m)
    BY <1>3, <1>6, AppendLast
  <1>9. pr.known \cup {} = q.known
    BY <1>6
  <1>10. StreamOK(ids, sv, dn \o q.queue, q.known)
    BY <1>7, <1>8, <1>9
  <1> QED
    BY <1>1, <1>6, <1>10 DEF PeerOK

\* server_client::publish, and publishing only what the client does not know.
LEMMA PublishOK ==
    ASSUME NEW ids, NEW dn \in Seq(ToClient), NEW sv, NEW pr, PeerOK(ids, dn, sv, pr),
           NEW id \in Ids, NEW p \in Paths,
           Listening => id < sv.next /\ sv.names[id] = p
    PROVE  LET q == Publish(pr, id, p)
               r == PublishUnknown(pr, id, p)
           IN  /\ PeerOK(ids, dn, sv, q) /\ q.id = pr.id /\ id \in q.known
               /\ PeerOK(ids, dn, sv, r) /\ r.id = pr.id /\ id \in r.known
  <1>1. PICK q : q = Publish(pr, id, p)
    OBVIOUS
  <1>2. pr \in PeerType /\ StreamOK(ids, sv, dn \o pr.queue, pr.known)
    BY DEF PeerOK
  <1>3. /\ pr.id \in Ids \cup {NoId} /\ pr.known \subseteq Ids
        /\ pr.queue \in Seq(ToClient)
        /\ pr = [id |-> pr.id, known |-> pr.known, queue |-> pr.queue]
    BY <1>2, PeerFacts
  <1>4. PICK m : m = Assign(id, p)
    OBVIOUS
  <1>5. /\ m \in ToClient /\ m.type = "entry_id_assign" /\ m.id = id /\ m.path = p
        /\ m.type # "entry_update" /\ m.type # "entry_delete"
    BY <1>4 DEF Assign, ToClient, AssignMsg
  <1>6. q = [id |-> pr.id, known |-> pr.known \cup {id}, queue |-> Append(pr.queue, m)]
    BY <1>1, <1>3, <1>4 DEF Publish
  <1>7. Append(pr.queue, m) \in Seq(ToClient)
    BY <1>3, <1>5, AppendProperties
  <1>8. /\ q \in PeerType /\ q.id = pr.id /\ q.known = pr.known \cup {id}
        /\ q.queue = Append(pr.queue, m)
    BY <1>3, <1>6, <1>7 DEF PeerType
  <1>9. ~NamesId(m) /\ Assigns(m, id)
    BY <1>5 DEF NamesId, Assigns
  <1>10. Listening => Right(sv, m)
    BY <1>5 DEF Right
  <1>11. StreamOK(ids, sv, Append(dn \o pr.queue, m), pr.known \cup {id})
    BY <1>2, <1>5, <1>9, <1>10, AppendOK
  <1>12. dn \o q.queue = Append(dn \o pr.queue, m)
    BY <1>3, <1>5, <1>8, AppendLast
  <1>13. PeerOK(ids, dn, sv, q)
    BY <1>8, <1>11, <1>12 DEF PeerOK
  <1>14. PublishUnknown(pr, id, p) = IF id \in pr.known THEN pr ELSE q
    BY <1>1 DEF PublishUnknown
  <1>15. id \in q.known
    BY <1>8
  <1> QED
    BY <1>1, <1>8, <1>13, <1>14, <1>15

\* Afterwards the client counts as knowing the id.
LEMMA PublishUnknownFacts ==
    ASSUME NEW pr \in PeerType, NEW id \in Ids, NEW p, NEW r, r = PublishUnknown(pr, id, p)
    PROVE  /\ r.id = pr.id /\ r.known = pr.known \cup {id}
           /\ r = pr \/ r.queue = Append(pr.queue, Assign(id, p))
  <1>1. PICK m, known, queue, n : /\ m = Assign(id, p) /\ known = pr.known
                                  /\ queue = pr.queue /\ n = pr.id
    OBVIOUS
  <1>2. pr = [id |-> n, known |-> known, queue |-> queue]
    BY <1>1, PeerFacts
  <1>3. PICK q : q = Publish(pr, id, p)
    OBVIOUS
  <1>4. q = [id |-> n, known |-> known \cup {id}, queue |-> Append(queue, m)]
    BY <1>1, <1>2, <1>3 DEF Publish
  <1>5. r = IF id \in known THEN pr ELSE q
    BY <1>1, <1>3 DEF PublishUnknown
  <1> QED
    BY <1>1, <1>2, <1>4, <1>5

-----------------------------------------------------------------------------
(* What the server does to its own state.                                   *)

ServerType == [next: Nat, names: [Ids -> Paths \cup {Absent}],
               parsed: Ids \cup {NoId}, serial: Nat]

\* The values of a storage are under the path they are written to.
AtHome(st) ==
    \A h \in DOMAIN st.entries :
        st.entries[h].value \in Values => HomeOf[st.entries[h].value] = st.entries[h].path

\* m_id_assignments, the m_ids of the server's storage and the ids in its
\* entries agree, and nothing is known of an id that is not assigned yet.
NamesOK(st, sv) ==
    /\ \A i \in Ids : i < sv.next =>
          st.ids[i] # 0 /\ st.entries[st.ids[i]].path = sv.names[i]
    /\ \A i \in Ids : ~(i < sv.next) => st.ids[i] = 0 /\ sv.names[i] = Absent
    /\ \A h \in DOMAIN st.entries : st.entries[h].id # NoId =>
          /\ st.entries[h].id < sv.next
          /\ sv.names[st.entries[h].id] = st.entries[h].path

\* The ids in the m_ids of the clients are assigned, to the same paths.
Followed(sv) ==
    \A c \in Clients, i \in Ids : store[c].ids[i] # 0 =>
        i < sv.next /\ sv.names[i] = store[c].entries[store[c].ids[i]].path

\* A state s = [store, server, peer] the server's handlers may be in.
ServerOK(s) ==
    /\ s = [store |-> s.store, server |-> s.server, peer |-> s.peer]
    /\ StoreInv(s.store)
    /\ s.server \in ServerType
    /\ s.peer = [c \in Clients |-> s.peer[c]]
    /\ \A c \in Clients : PeerOK(store[c].ids, down[c], s.server, s.peer[c])
    /\ Listening => NamesOK(s.store, s.server) /\ AtHome(s.store) /\ Followed(s.server)

\* The parts of the server's state.
LEMMA ServerFacts ==
    ASSUME NEW sv \in ServerType
    PROVE  /\ sv.next \in Nat /\ sv.serial \in Nat /\ sv.parsed \in Ids \cup {NoId}
           /\ sv.names \in [Ids -> Paths \cup {Absent}]
           /\ sv = [next |-> sv.next, names |-> sv.names,
                    parsed |-> sv.parsed, serial |-> sv.serial]
  BY DEF ServerType

\* The table is never full: there is a slot for each path.
LEMMA RoomForAll ==
    ASSUME NEW s, StoreInv(s), NEW p \in Paths
    PROVE  HasRoomFor(s, p)
  <1> SUFFICES ASSUME s.paths[p] = 0
               PROVE  Len(s.entries) < Capacity
    BY DEF HasRoomFor
  <1>1. PICK n : n = Len(s.entries)
    OBVIOUS
  <1>2. n \in Nat /\ DOMAIN s.entries = 1..n
    BY <1>1, StoreFacts
  <1>3. PICK f : f = [h \in 1..n |-> s.entries[h].path]
    OBVIOUS
  <1>4. PathIndex(s)
    BY DEF StoreInv
  <1>5. \A h \in 1..n : s.entries[h].path \in Paths \ {p}
    <2> SUFFICES ASSUME NEW h \in 1..n
                 PROVE  s.entries[h].path \in Paths /\ s.entries[h].path # p
      OBVIOUS
    <2>1. s.entries[h].path \in Paths
      BY <1>2, EntryFacts
    <2>2. s.paths[s.entries[h].path] = h /\ h # 0
      BY <1>2, <1>4 DEF PathIndex
    <2> QED
      BY <2>1, <2>2
  <1>6. f \in [1..n -> Paths \ {p}]
    BY <1>3, <1>5
  <1>7. f \in Injection(1..n, Paths \ {p})
    <2>1. \A g, h \in 1..n : f[g] = f[h] => g = h
      BY <1>2, <1>3, <1>4 DEF PathIndex
    <2> QED
      BY <1>6, <2>1 DEF Injection, IsInjective
  <1>8. IsFiniteSet(Paths) /\ Cardinality(Paths) \in Nat
    BY RoomAssumption, FS_CardinalityType
  <1>9. /\ IsFiniteSet(Paths \ {p})
        /\ Cardinality(Paths \ {p}) = Cardinality(Paths) - 1
    BY <1>8, FS_RemoveElement
  <1>10. IsFiniteSet(1..n) /\ Cardinality(1..n) = n
    <2>1. Cardinality(1..n) = IF 1 > n THEN 0 ELSE n - 1 + 1
      BY <1>2, FS_Interval
    <2> QED
      BY <1>2, <2>1, FS_Interval
  <1>11. Cardinality(1..n) <= Cardinality(Paths \ {p})
    BY <1>7, <1>9, <1>10, FS_Injection DEF ExistsInjection
  <1> QED
    BY <1>1, <1>2, <1>8, <1>9, <1>10, <1>11, RoomAssumption, CapacityAssumption

\* Storing what a handler did to the storage and the counters keeps the peers,
\* as long as the ids that are assigned keep their paths.
LEMMA PeersKept ==
    ASSUME NEW s, ServerOK(s), NEW sv \in ServerType,
           Listening => /\ s.server.next <= sv.next
                        /\ \A i \in Ids : i < s.server.next => sv.names[i] = s.server.names[i]
    PROVE  \A c \in Clients : PeerOK(store[c].ids, down[c], sv, s.peer[c])
  <1> SUFFICES ASSUME NEW c \in Clients
               PROVE  PeerOK(store[c].ids, down[c], sv, s.peer[c])
    OBVIOUS
  <1>1. PICK pr : pr = s.peer[c]
    OBVIOUS
  <1>2. /\ pr \in PeerType
        /\ StreamOK(store[c].ids, s.server, down[c] \o pr.queue, pr.known)
    BY <1>1 DEF ServerOK, PeerOK
  <1>3. pr.known \subseteq Ids
    BY <1>2, PeerFacts
  <1>4. s.server.next \in Nat /\ sv.next \in Nat
    BY ServerFacts DEF ServerOK
  <1>5. StreamOK(store[c].ids, sv, down[c] \o pr.queue, pr.known)
    BY <1>2, <1>3, <1>4, StreamGrows
  <1> QED
    BY <1>1, <1>2, <1>5 DEF PeerOK

\* What assign_id_to_entry did: u is s after id was assigned to p, which h holds.
Assigned(s, id, p, u, h) ==
    /\ ServerOK(u) /\ u.peer = s.peer /\ u.server.next = id + 1
    /\ Listening => u.server.names[id] = p
    /\ \A i \in Ids \ {id} : u.server.names[i] = s.server.names[i]
    /\ Grows(s.store, u.store)
    /\ h \in DOMAIN u.store.entries /\ u.store.entries[h].path = p
    /\ u.store.entries[h].id = id
    /\ \A g \in DOMAIN u.store.entries \ {h} :
          g \in DOMAIN s.store.entries /\ u.store.entries[g] = s.store.entries[g]
    /\ h \in DOMAIN s.store.entries =>
          u.store.entries[h] = [s.store.entries[h] EXCEPT !.id = id]

\* assign_id_to_entry: the entry of the path has the next id, and the map, the
\* m_ids and the entries agree on it.
LEMMA AssignNextOK ==
    ASSUME NEW s, ServerOK(s), NEW id \in Ids, id = s.server.next, NEW p \in Paths,
           NEW u, u = AssignNext(s, p), NEW h, h = u.store.paths[p]
    PROVE  Assigned(s, id, p, u, h)
  <1>1. id = s.server.next
    OBVIOUS
  <1>2. PICK st : st = s.store
    OBVIOUS
  <1>3. PICK sv : sv = s.server
    OBVIOUS
  <1>4. /\ StoreInv(st) /\ sv \in ServerType
        /\ s = [store |-> st, server |-> sv, peer |-> s.peer]
        /\ Listening => NamesOK(st, sv) /\ AtHome(st) /\ Followed(sv)
    BY <1>2, <1>3 DEF ServerOK
  <1>5. /\ sv.next \in Nat /\ id = sv.next /\ id \in Ids /\ sv.serial \in Nat
        /\ sv.parsed \in Ids \cup {NoId}
        /\ sv.names \in [Ids -> Paths \cup {Absent}]
        /\ sv = [next |-> sv.next, names |-> sv.names,
                 parsed |-> sv.parsed, serial |-> sv.serial]
    BY <1>1, <1>3, <1>4, ServerFacts
  <1>6. PICK st2 : st2 = OnEntryIdAssigned(st, id, p)
    OBVIOUS
  <1>7. PICK names : names = [sv.names EXCEPT ![id] = IF @ = Absent THEN p ELSE @]
    OBVIOUS
  <1>8. PICK sv2 : sv2 = [next |-> id + 1, names |-> names,
                          parsed |-> sv.parsed, serial |-> sv.serial]
    OBVIOUS
  <1>9. PICK w : w = [store |-> st2, server |-> sv2, peer |-> s.peer]
    OBVIOUS
  <1>10. u = w
    <2>1. PICK a : a = [sv EXCEPT !.next = id + 1]
      OBVIOUS
    <2>2. a = [next |-> id + 1, names |-> sv.names, parsed |-> sv.parsed,
               serial |-> sv.serial]
      BY <1>5, <2>1
    <2>3. [a EXCEPT !.names[id] = IF @ = Absent THEN p ELSE @] = sv2
      BY <1>5, <1>7, <1>8, <2>2
    <2>4. PICK assigned :
             assigned = [sv EXCEPT !.next = id + 1,
                                   !.names[id] = IF @ = Absent THEN p ELSE @]
      OBVIOUS
    <2>5. assigned = [a EXCEPT !.names[id] = IF @ = Absent THEN p ELSE @]
      BY <2>1, <2>4
    <2>6. PICK s1 : s1 = [s EXCEPT !.server = assigned]
      OBVIOUS
    <2>7. s1 = [store |-> st, server |-> sv2, peer |-> s.peer]
      BY <1>4, <2>3, <2>5, <2>6
    <2>8. [s1 EXCEPT !.store = OnEntryIdAssigned(@, id, p)] = w
      BY <1>6, <1>9, <2>7
    <2>9. [s EXCEPT !.server = assigned, !.store = OnEntryIdAssigned(@, id, p)] =
             [s1 EXCEPT !.store = OnEntryIdAssigned(@, id, p)]
      BY <2>6
    <2>10. AssignNext(s, p) =
              [s EXCEPT !.server = assigned, !.store = OnEntryIdAssigned(@, id, p)]
      BY <1>1, <1>3, <2>4 DEF AssignNext
    <2> QED
      BY <2>8, <2>9, <2>10
  <1>11. /\ names \in [Ids -> Paths \cup {Absent}]
         /\ names[id] = IF sv.names[id] = Absent THEN p ELSE sv.names[id]
         /\ \A i \in Ids \ {id} : names[i] = sv.names[i]
    BY <1>5, <1>7
  <1>12. /\ sv2 \in ServerType /\ sv2.next = id + 1 /\ sv2.names = names
    BY <1>5, <1>8, <1>11 DEF ServerType
  <1>13. h = st2.paths[p]
    BY <1>9, <1>10
  <1>14. /\ Grows(st, st2) /\ Holds(st, st2, 0, Empty)
         /\ h \in DOMAIN st2.entries /\ st2.entries[h].path = p /\ st2.entries[h].id = id
         /\ st2.ids = Emplace(st.ids, id, h)
         /\ \A g \in DOMAIN st2.entries \ {h} :
               g \in DOMAIN st.entries /\ st2.entries[g] = st.entries[g]
         /\ h \in DOMAIN st.entries =>
               st2.entries[h] = [st.entries[h] EXCEPT !.id = id]
    <2>1. HasRoomFor(st, p)
      BY <1>4, RoomForAll
    <2>2. PICK k : k = 0
      OBVIOUS
    <2>3. /\ Grows(st, st2) /\ Holds(st, st2, k, Empty)
          /\ HasId(st, id, p, st2, h)
      BY <1>4, <1>5, <1>6, <1>13, <2>1, AssignedGrows
    <2> QED
      BY <2>2, <2>3 DEF HasId
  <1>15. StoreInv(st2) /\ h \in Handles /\ h # 0
    <2>1. StoreInv(st2)
      BY <1>14 DEF Grows
    <2>2. h \in Handles
      BY <1>14, <2>1, StoreFacts
    <2> QED
      BY <2>1, <2>2, CapacityAssumption DEF Handles
  <1>16. st.ids \in [Ids -> 0..Capacity]
    BY <1>4, StoreFacts
  <1>17. ASSUME Listening
         PROVE  NamesOK(st2, sv2) /\ AtHome(st2) /\ Followed(sv2) /\ names[id] = p
    <2>1. NamesOK(st, sv) /\ AtHome(st)
      BY <1>4, <1>17
    <2>2. \A i \in Ids : i \in Nat
      BY IdsFacts
    <2>3. ~(id < sv.next)
      BY <1>5
    <2>4. st.ids[id] = 0 /\ sv.names[id] = Absent
      BY <1>5, <2>1, <2>3 DEF NamesOK
    <2>5. names[id] = p /\ st2.ids[id] = h
      BY <1>5, <1>11, <1>14, <1>15, <1>16, <2>4, EmplaceHolds
    <2>6. \A i \in Ids \ {id} : st2.ids[i] = st.ids[i] /\ names[i] = sv.names[i]
      BY <1>5, <1>11, <1>14, <1>15, <1>16, EmplaceHolds
    <2>7. ASSUME NEW i \in Ids, i < sv2.next
          PROVE  st2.ids[i] # 0 /\ st2.entries[st2.ids[i]].path = sv2.names[i]
      <3>1. CASE i = id
        BY <1>12, <1>14, <1>15, <2>5, <3>1
      <3>2. CASE i # id
        <4>1. i < sv.next
          BY <1>5, <1>12, <2>2, <2>7, <3>2
        <4>2. st.ids[i] # 0 /\ st.entries[st.ids[i]].path = sv.names[i]
          BY <2>1, <4>1 DEF NamesOK
        <4>3. st.ids[i] \in DOMAIN st.entries
          BY <1>4, <4>2 DEF StoreInv, IdIndex
        <4>4. st2.entries[st.ids[i]].path = sv.names[i]
          BY <1>14, <4>2, <4>3 DEF Grows
        <4> QED
          BY <1>12, <2>6, <3>2, <4>2, <4>4
      <3> QED
        BY <3>1, <3>2
    <2>8. ASSUME NEW i \in Ids, ~(i < sv2.next)
          PROVE  st2.ids[i] = 0 /\ sv2.names[i] = Absent
      <3>1. i # id /\ ~(i < sv.next)
        BY <1>5, <1>12, <2>2, <2>8
      <3>2. st.ids[i] = 0 /\ sv.names[i] = Absent
        BY <2>1, <3>1 DEF NamesOK
      <3> QED
        BY <1>12, <2>6, <3>1, <3>2
    <2>9. ASSUME NEW g \in DOMAIN st2.entries, st2.entries[g].id # NoId
          PROVE  /\ st2.entries[g].id < sv2.next
                 /\ sv2.names[st2.entries[g].id] = st2.entries[g].path
      <3>1. CASE g = h
        <4>1. id < id + 1
          BY <1>5
        <4> QED
          BY <1>12, <1>14, <2>5, <3>1, <4>1
      <3>2. CASE g # h
        <4>1. g \in DOMAIN st.entries /\ st2.entries[g] = st.entries[g]
          BY <1>14, <3>2
        <4>2. PICK i : i = st.entries[g].id
          OBVIOUS
        <4>3. i < sv.next /\ sv.names[i] = st.entries[g].path
          BY <2>1, <2>9, <4>1, <4>2 DEF NamesOK
        <4>4. i \in Ids
          BY <1>4, <2>9, <4>1, <4>2, EntryFacts DEF AnyId
        <4>5. i \in Nat /\ i # id /\ i < id + 1
          BY <1>5, <2>2, <2>3, <4>3, <4>4
        <4>6. names[i] = sv.names[i]
          BY <2>6, <4>4, <4>5
        <4> QED
          BY <1>12, <4>1, <4>2, <4>3, <4>5, <4>6
      <3> QED
        BY <3>1, <3>2
    <2>10. NamesOK(st2, sv2)
      BY <2>7, <2>8, <2>9 DEF NamesOK
    <2>11. AtHome(st2)
      <3> SUFFICES ASSUME NEW g \in DOMAIN st2.entries, st2.entries[g].value \in Values
                   PROVE  HomeOf[st2.entries[g].value] = st2.entries[g].path
        BY DEF AtHome
      <3>1. g \in DOMAIN st.entries /\ st2.entries[g].value = st.entries[g].value
        BY <1>14, ValuesAssumption DEF Holds
      <3>2. st2.entries[g].path = st.entries[g].path
        BY <1>14, <3>1 DEF Grows
      <3> QED
        BY <2>1, <3>1, <3>2 DEF AtHome
    <2>12. Followed(sv2)
      <3> SUFFICES ASSUME NEW c \in Clients, NEW i \in Ids, store[c].ids[i] # 0
                   PROVE  /\ i < sv2.next
                          /\ sv2.names[i] = store[c].entries[store[c].ids[i]].path
        BY DEF Followed
      <3>1. Followed(sv)
        BY <1>4, <1>17
      <3>2. i < sv.next /\ sv.names[i] = store[c].entries[store[c].ids[i]].path
        BY <3>1 DEF Followed
      <3>3. i \in Nat
        BY <2>2
      <3>4. i # id /\ i < sv2.next
        BY <1>5, <1>12, <3>2, <3>3
      <3> QED
        BY <1>12, <2>6, <3>2, <3>4
    <2> QED
      BY <2>5, <2>10, <2>11, <2>12
  <1>18. \A c \in Clients : PeerOK(store[c].ids, down[c], sv2, s.peer[c])
    <2>1. ASSUME Listening
          PROVE  /\ sv.next <= sv2.next
                 /\ \A i \in Ids : i < sv.next => sv2.names[i] = sv.names[i]
      BY <1>5, <1>11, <1>12
    <2> QED
      BY <1>3, <1>12, <2>1, PeersKept
  <1>19. ServerOK(u)
    <2>1. u.store = st2 /\ u.server = sv2 /\ u.peer = s.peer
      BY <1>9, <1>10
    <2>2. s.peer = [c \in Clients |-> s.peer[c]]
      BY DEF ServerOK
    <2> QED
      BY <1>9, <1>10, <1>12, <1>15, <1>17, <1>18, <2>1, <2>2 DEF ServerOK
  <1> QED
    BY <1>1, <1>2, <1>3, <1>9, <1>10, <1>11, <1>12, <1>13, <1>14, <1>17, <1>19 DEF Assigned

\* New states of all clients.
LEMMA SetPeers ==
    ASSUME NEW s, ServerOK(s), NEW peers, peers = [c \in Clients |-> peers[c]],
           \A c \in Clients : PeerOK(store[c].ids, down[c], s.server, peers[c])
    PROVE  LET u == [s EXCEPT !.peer = peers]
           IN  ServerOK(u) /\ u.store = s.store /\ u.server = s.server /\ u.peer = peers
  <1>1. PICK st, sv, pr : st = s.store /\ sv = s.server /\ pr = s.peer
    OBVIOUS
  <1>2. s = [store |-> st, server |-> sv, peer |-> pr]
    BY <1>1 DEF ServerOK
  <1>3. PICK u : u = [s EXCEPT !.peer = peers]
    OBVIOUS
  <1>4. u = [store |-> st, server |-> sv, peer |-> peers]
    BY <1>2, <1>3
  <1>5. ServerOK(u)
    BY <1>1, <1>4 DEF ServerOK
  <1> QED
    BY <1>1, <1>3, <1>4, <1>5

\* Telling each connected client, or each but the sender of a message.
LEMMA TellOK ==
    ASSUME NEW s, ServerOK(s), NEW told, NEW sender \in Clients,
           NEW others \in SUBSET Clients,
           \A c \in others : s.peer[c].id # NoId =>
              PeerOK(store[c].ids, down[c], s.server, told[c])
    PROVE  /\ others = Clients => LET u == [s EXCEPT !.peer = ToConnected(@, told)]
                                  IN  /\ ServerOK(u) /\ u.store = s.store
                                      /\ u.server = s.server
           /\ others = Clients \ {sender} =>
                 LET u == [s EXCEPT !.peer = ToOthers(@, sender, told)]
                 IN  /\ ServerOK(u) /\ u.store = s.store
                     /\ u.server = s.server
  <1>1. PICK pr : pr = s.peer
    OBVIOUS
  <1>2. PICK all : all = ToConnected(pr, told)
    OBVIOUS
  <1>3. PICK most : most = ToOthers(pr, sender, told)
    OBVIOUS
  <1>4. /\ all = [c \in Clients |-> all[c]]
        /\ \A c \in Clients : all[c] = IF pr[c].id = NoId THEN pr[c] ELSE told[c]
    BY <1>2 DEF ToConnected
  <1>5. most = [all EXCEPT ![sender] = pr[sender]]
    BY <1>2, <1>3 DEF ToOthers
  <1>6. /\ most = [c \in Clients |-> most[c]] /\ most[sender] = pr[sender]
        /\ \A c \in Clients \ {sender} : most[c] = all[c]
    BY <1>4, <1>5
  <1>7. \A c \in Clients : PeerOK(store[c].ids, down[c], s.server, pr[c])
    BY <1>1 DEF ServerOK
  <1>8. ASSUME others = Clients
        PROVE  LET u == [s EXCEPT !.peer = ToConnected(@, told)]
               IN  ServerOK(u) /\ u.store = s.store /\ u.server = s.server
    <2>1. \A c \in Clients : PeerOK(store[c].ids, down[c], s.server, all[c])
      BY <1>1, <1>4, <1>7, <1>8
    <2>2. PICK u : u = [s EXCEPT !.peer = all]
      OBVIOUS
    <2>3. ServerOK(u) /\ u.store = s.store /\ u.server = s.server
      BY <1>4, <2>1, <2>2, SetPeers
    <2>4. [s EXCEPT !.peer = ToConnected(@, told)] = [s EXCEPT !.peer = all]
      BY <1>1, <1>2
    <2> QED
      BY <2>2, <2>3, <2>4
  <1>9. ASSUME others = Clients \ {sender}
        PROVE  LET u == [s EXCEPT !.peer = ToOthers(@, sender, told)]
               IN  ServerOK(u) /\ u.store = s.store /\ u.server = s.server
    <2>1. \A c \in Clients : PeerOK(store[c].ids, down[c], s.server, most[c])
      <3> SUFFICES ASSUME NEW c \in Clients
                   PROVE  PeerOK(store[c].ids, down[c], s.server, most[c])
        OBVIOUS
      <3>1. CASE c = sender
        BY <1>6, <1>7, <3>1
      <3>2. CASE c # sender
        <4>1. /\ most[c] = IF pr[c].id = NoId THEN pr[c] ELSE told[c]
              /\ c \in others
          BY <1>4, <1>6, <1>9, <3>2
        <4> QED
          BY <1>1, <1>7, <4>1
      <3> QED
        BY <3>1, <3>2
    <2>2. PICK u : u = [s EXCEPT !.peer = most]
      OBVIOUS
    <2>3. ServerOK(u) /\ u.store = s.store /\ u.server = s.server
      BY <1>6, <2>1, <2>2, SetPeers
    <2>4. [s EXCEPT !.peer = ToOthers(@, sender, told)] = [s EXCEPT !.peer = most]
      BY <1>1, <1>3
    <2> QED
      BY <2>2, <2>3, <2>4
  <1> QED
    BY <1>8, <1>9

\* The messages a node writes about an id, and when they are right.
LEMMA MessageFacts ==
    ASSUME NEW id \in Ids, NEW p \in Paths, NEW v \in AnyValue, NEW t \in Int, NEW sv
    PROVE  /\ Update(id, v, t) \in ToClient /\ Deletion(id, t) \in ToClient
           /\ Update(id, v, t) \in ToServer /\ Deletion(id, t) \in ToServer
           /\ Create(p, v, t) \in ToServer
           /\ Update(id, v, t).id = id /\ Deletion(id, t).id = id
           /\ Right(sv, Deletion(id, t))
           /\ (v \in Values => id < sv.next /\ sv.names[id] = HomeOf[v]) =>
                 Right(sv, Update(id, v, t))
  <1>1. Update(id, v, t) \in UpdateMsg /\ Deletion(id, t) \in DeletionMsg
        /\ Create(p, v, t) \in CreateMsg
    BY DEF Update, Deletion, Create, UpdateMsg, DeletionMsg, CreateMsg
  <1>2. Update(id, v, t).id = id /\ Deletion(id, t).id = id
    BY DEF Update, Deletion
  <1>3. Right(sv, Deletion(id, t))
    BY DEF Right, Deletion
  <1>4. (v \in Values => id < sv.next /\ sv.names[id] = HomeOf[v]) =>
           Right(sv, Update(id, v, t))
    BY DEF Right, Update
  <1> QED
    BY <1>1, <1>2, <1>3, <1>4 DEF ToClient, ToServer

\* The message m about the entry h, which has the id afterwards, goes to every
\* connected client, after the id if the client does not know it.
PublishedAs(s, h, u, id, m) ==
    /\ m = (IF s.store.entries[h].deleted THEN Deletion(id, time)
            ELSE Update(id, s.store.entries[h].value, s.store.entries[h].ts))
    /\ s.store.entries[h].id # NoId => id = s.store.entries[h].id
    /\ u.store.entries[h] = [s.store.entries[h] EXCEPT !.id = id]
    /\ \A i \in Ids : (i < s.server.next \/ i # id) => u.server.names[i] = s.server.names[i]
    /\ \A c \in Clients :
          u.peer[c] = IF s.peer[c].id = NoId THEN s.peer[c]
                      ELSE Enqueue(PublishUnknown(s.peer[c], id, s.store.entries[h].path), m)

\* The body of process_updates for one dirty entry: it has an id afterwards,
\* every connected client knows it and is told the value or the deletion.
LEMMA PublishEntryDoes ==
    ASSUME NEW s, ServerOK(s), NEW h \in DOMAIN s.store.entries,
           s.store.entries[h].id = NoId => s.server.next \in Ids,
           \A c \in Clients : down[c] \in Seq(ToClient), time \in Int,
           NEW v, v = PublishEntry(s, h)
    PROVE  /\ ServerOK(v)
           /\ DOMAIN v.store.entries = DOMAIN s.store.entries
           /\ \A g \in DOMAIN s.store.entries \ {h} :
                 v.store.entries[g] = s.store.entries[g]
           /\ v.server.next = IF s.store.entries[h].id = NoId
                              THEN s.server.next + 1 ELSE s.server.next
           /\ \E id \in Ids, m \in ToClient : PublishedAs(s, h, v, id, m)
  <1>1. PICK e : e = s.store.entries[h]
    OBVIOUS
  <1>2. StoreInv(s.store)
    BY DEF ServerOK
  <1>3. /\ e \in EntryType /\ e.path \in Paths /\ e.value \in AnyValue
        /\ e.id \in AnyId /\ e.ts \in Int
    BY <1>1, <1>2, EntryFacts
  <1>4. PICK u : u = IF e.id = NoId THEN AssignNext(s, e.path) ELSE s
    OBVIOUS
  <1>5. PICK id : id = u.store.entries[h].id
    OBVIOUS
  <1>6. /\ ServerOK(u) /\ u.peer = s.peer /\ id \in Ids
        /\ DOMAIN u.store.entries = DOMAIN s.store.entries
        /\ \A g \in DOMAIN s.store.entries \ {h} :
              u.store.entries[g] = s.store.entries[g]
        /\ u.store.entries[h].path = e.path /\ u.store.entries[h].value = e.value
        /\ u.server.next = IF e.id = NoId THEN s.server.next + 1 ELSE s.server.next
        /\ u.store.entries[h] = [e EXCEPT !.id = id] /\ (e.id # NoId => id = e.id)
        /\ \A i \in Ids : (i < s.server.next \/ i # id) =>
              u.server.names[i] = s.server.names[i]
    <2>1. CASE e.id # NoId
      <3>1. u = s /\ id = e.id
        BY <1>1, <1>4, <1>5, <2>1
      <3>2. [e EXCEPT !.id = e.id] = e
        BY <1>3 DEF EntryType
      <3> QED
        BY <1>1, <1>3, <2>1, <3>1, <3>2 DEF AnyId
    <2>2. CASE e.id = NoId
      <3>1. PICK k : k = u.store.paths[e.path]
        OBVIOUS
      <3>2. u = AssignNext(s, e.path)
        BY <1>4, <2>2
      <3>3. PICK p \in Paths : p = e.path
        BY <1>3
      <3>11. PICK n \in Ids : n = s.server.next
        BY <1>1, <2>2
      <3>4. k = u.store.paths[p] /\ u = AssignNext(s, p)
        BY <3>1, <3>2, <3>3
      <3>5. Assigned(s, n, p, u, k)
        BY <3>11, <3>4, AssignNextOK
      <3>6. /\ ServerOK(u) /\ u.peer = s.peer /\ u.server.next = n + 1
            /\ Grows(s.store, u.store)
            /\ \A i \in Ids \ {n} : u.server.names[i] = s.server.names[i]
            /\ k \in DOMAIN u.store.entries /\ u.store.entries[k].id = n
            /\ \A g \in DOMAIN u.store.entries \ {k} :
                  g \in DOMAIN s.store.entries /\ u.store.entries[g] = s.store.entries[g]
            /\ k \in DOMAIN s.store.entries =>
                  u.store.entries[k] = [s.store.entries[k] EXCEPT !.id = n]
        BY <3>5 DEF Assigned
      <3>7. k = h
        <4>1. h \in DOMAIN u.store.entries /\ u.store.entries[h].path = e.path
          BY <1>1, <3>6 DEF Grows
        <4>2. PathIndex(u.store)
          BY <3>6 DEF Grows, StoreInv
        <4> QED
          BY <3>1, <4>1, <4>2 DEF PathIndex
      <3>8. u.store.entries[h] = [e EXCEPT !.id = n]
        BY <1>1, <3>6, <3>7
      <3>9. u.store.entries[h].path = e.path /\ u.store.entries[h].value = e.value
        BY <1>3, <3>8 DEF EntryType
      <3>10. DOMAIN u.store.entries = DOMAIN s.store.entries
        BY <3>6, <3>7 DEF Grows
      <3>12. id = n
        BY <1>5, <3>6, <3>7
      <3>13. ~(n < s.server.next)
        BY <3>11, IdsFacts
      <3> QED
        BY <1>5, <2>2, <3>11, <3>6, <3>7, <3>8, <3>9, <3>10, <3>12, <3>13
    <2> QED
      BY <2>1, <2>2
  <1>7. PICK m : m = IF e.deleted THEN Deletion(id, time) ELSE Update(id, e.value, e.ts)
    OBVIOUS
  <1>8. PICK told : told = [c \in Clients |-> Enqueue(PublishUnknown(s.peer[c], id, e.path), m)]
    OBVIOUS
  <1>9. ASSUME Listening
        PROVE  /\ id < u.server.next /\ u.server.names[id] = e.path
               /\ e.value \in Values => HomeOf[e.value] = e.path
    <2>1. NamesOK(u.store, u.server) /\ AtHome(u.store)
      BY <1>6, <1>9 DEF ServerOK
    <2>2. id # NoId
      BY <1>6, IdsAssumption
    <2>3. h \in DOMAIN u.store.entries
      BY <1>6
    <2>4. id < u.server.next /\ u.server.names[id] = u.store.entries[h].path
      BY <1>5, <2>1, <2>2, <2>3 DEF NamesOK
    <2>5. e.value \in Values => HomeOf[e.value] = e.path
      BY <1>6, <2>1, <2>3 DEF AtHome
    <2> QED
      BY <1>6, <2>4, <2>5
  <1>10. m \in ToClient /\ m.id = id /\ (Listening => Right(u.server, m))
    <2>1. /\ Update(id, e.value, e.ts) \in ToClient /\ Deletion(id, time) \in ToClient
          /\ Update(id, e.value, e.ts).id = id /\ Deletion(id, time).id = id
      BY <1>3, <1>6, MessageFacts
    <2>2. Right(u.server, Deletion(id, time))
      BY <1>3, <1>6, MessageFacts
    <2>3. Listening => Right(u.server, Update(id, e.value, e.ts))
      BY <1>3, <1>6, <1>9, MessageFacts
    <2> QED
      BY <1>7, <2>1, <2>2, <2>3
  <1>11. ASSUME NEW c \in Clients
         PROVE  PeerOK(store[c].ids, down[c], u.server, told[c])
    <2>1. PICK pr : pr = s.peer[c]
      OBVIOUS
    <2>2. PeerOK(store[c].ids, down[c], u.server, pr)
      BY <1>6, <2>1 DEF ServerOK
    <2>3. PICK q : q = PublishUnknown(pr, id, e.path)
      OBVIOUS
    <2>7. PICK p \in Paths : p = e.path
      BY <1>3
    <2>8. PICK ids, dn, sv : ids = store[c].ids /\ dn = down[c] /\ sv = u.server
      OBVIOUS
    <2>9. id \in Ids /\ dn \in Seq(ToClient) /\ q = PublishUnknown(pr, id, p)
      BY <1>6, <2>3, <2>7, <2>8
    <2>10. PeerOK(ids, dn, sv, pr) /\ (Listening => id < sv.next /\ sv.names[id] = p)
      BY <1>9, <2>2, <2>7, <2>8
    <2>11. PeerOK(ids, dn, sv, q)
      BY <2>9, <2>10, PublishOK
    <2>12. id \in q.known
      <3>1. pr \in PeerType
        BY <2>10 DEF PeerOK
      <3>2. q.known = pr.known \cup {id}
        BY <2>9, <3>1, PublishUnknownFacts
      <3> QED
        BY <3>2
    <2>4. PeerOK(store[c].ids, down[c], u.server, q) /\ id \in q.known
      BY <2>8, <2>11, <2>12
    <2>5. PeerOK(store[c].ids, down[c], u.server, Enqueue(q, m))
      BY <1>10, <2>4, EnqueueOK
    <2>6. told[c] = Enqueue(q, m)
      BY <1>8, <2>1, <2>3
    <2> QED
      BY <2>5, <2>6
  <1>12. PICK w : w = [u EXCEPT !.peer = ToConnected(@, told)]
    OBVIOUS
  <1>13. ServerOK(w) /\ w.store = u.store /\ w.server = u.server
    <2>1. CASE Clients = {}
      <3>1. PICK pr : pr = u.peer
        OBVIOUS
      <3>2. PICK peers : peers = ToConnected(pr, told)
        OBVIOUS
      <3>3. peers = [c \in Clients |-> peers[c]]
        BY <3>2 DEF ToConnected
      <3>4. w = [u EXCEPT !.peer = peers]
        BY <1>12, <3>1, <3>2
      <3> QED
        BY <1>6, <2>1, <3>3, <3>4, SetPeers
    <2>2. CASE Clients # {}
      <3>1. PICK c \in Clients : TRUE
        BY <2>2
      <3>2. PICK others \in SUBSET Clients : others = Clients
        OBVIOUS
      <3> QED
        BY <1>6, <1>11, <1>12, <3>1, <3>2, TellOK
    <2> QED
      BY <2>1, <2>2
  <1>14. v = w
    BY <1>1, <1>4, <1>5, <1>7, <1>8, <1>12 DEF PublishEntry
  <1>15. \A c \in Clients : w.peer[c] = IF s.peer[c].id = NoId THEN s.peer[c] ELSE told[c]
    <2>1. PICK pr : pr = u.peer
      OBVIOUS
    <2>2. PICK peers : peers = ToConnected(pr, told)
      OBVIOUS
    <2>3. w = [u EXCEPT !.peer = peers]
      BY <1>12, <2>1, <2>2
    <2>4. w.peer = peers
      <3>1. u = [store |-> u.store, server |-> u.server, peer |-> u.peer]
        BY <1>6 DEF ServerOK
      <3> QED
        BY <2>3, <3>1
    <2> QED
      BY <1>6, <2>1, <2>2, <2>4 DEF ToConnected
  <1>16. PublishedAs(s, h, w, id, m)
    BY <1>1, <1>6, <1>7, <1>8, <1>13, <1>15 DEF PublishedAs
  <1> QED
    BY <1>1, <1>6, <1>10, <1>13, <1>14, <1>16

\* It keeps the server's state in order.
LEMMA PublishEntryOK ==
    ASSUME NEW s, ServerOK(s), NEW h \in DOMAIN s.store.entries,
           s.store.entries[h].id = NoId => s.server.next \in Ids,
           \A c \in Clients : down[c] \in Seq(ToClient), time \in Int
    PROVE  LET u == PublishEntry(s, h)
           IN  /\ ServerOK(u)
               /\ DOMAIN u.store.entries = DOMAIN s.store.entries
               /\ \A g \in DOMAIN s.store.entries \ {h} :
                     u.store.entries[g] = s.store.entries[g]
               /\ u.server.next = IF s.store.entries[h].id = NoId
                                  THEN s.server.next + 1 ELSE s.server.next
  <1>1. PICK u : u = PublishEntry(s, h)
    OBVIOUS
  <1>2. /\ ServerOK(u)
        /\ DOMAIN u.store.entries = DOMAIN s.store.entries
        /\ \A g \in DOMAIN s.store.entries \ {h} :
              u.store.entries[g] = s.store.entries[g]
        /\ u.server.next = IF s.store.entries[h].id = NoId
                           THEN s.server.next + 1 ELSE s.server.next
    BY <1>1, PublishEntryDoes
  <1> QED
    BY <1>1, <1>2

-----------------------------------------------------------------------------
(* The loops of the server, and of the client.  A loop over a table is a     *)
(* function defined by recursion; that there is one, and that it keeps an    *)
(* invariant, follows by induction over the first numbers.                   *)

\* A set that has 0 and the successor of each member below n has them all.
LEMMA Induct ==
    ASSUME NEW n \in Nat, NEW S, 0 \in S, \A k \in 1..n : k - 1 \in S => k \in S
    PROVE  0..n \subseteq S
  <1> DEFINE Below == {ss \in Nat \X Nat : ss[1] < ss[2]}
             T == (0..n) \ S
  <1> SUFFICES ASSUME T # {}
               PROVE  FALSE
    OBVIOUS
  <1>1. IsWellFoundedOn(Below, Nat)
    BY NatLessThanWellFounded DEF OpToRel
  <1>2. PICK x \in T : \A y \in T : ~(<<y, x>> \in Below)
    <2> HIDE DEF Below
    <2>1. T \subseteq Nat
      OBVIOUS
    <2> HIDE DEF T
    <2> QED
      BY <1>1, <2>1, WFMin
  <1>3. x \in 1..n /\ x - 1 \in 0..n /\ x - 1 < x
    OBVIOUS
  <1>4. x - 1 \notin S
    BY <1>3
  <1>5. <<x - 1, x>> \in Below
    BY <1>3
  <1>6. x - 1 \in T
    BY <1>3, <1>4
  <1> QED
    BY <1>2, <1>5, <1>6

\* process_updates: what each pass of the loop leaves.
LEMMA PublishPasses ==
    ASSUME NEW s, NEW n \in Nat, n = Len(s.store.entries)
    PROVE  \E f : /\ PublishAll(s) = f[n] /\ f[0] = s
                  /\ \A h \in 1..n : f[h] = IF s.store.entries[h].dirty
                                            THEN PublishEntry(f[h - 1], h) ELSE f[h - 1]
  <1> DEFINE Is(g, m) ==
                g = [h \in 0..m |-> IF h = 0 THEN s
                                    ELSE IF s.store.entries[h].dirty
                                         THEN PublishEntry(g[h - 1], h) ELSE g[h - 1]]
  <1>1. PICK f : f = CHOOSE g : Is(g, n)
    OBVIOUS
  <1>2. PublishAll(s) = f[n]
    BY <1>1 DEF PublishAll
  <1>3. \E g : Is(g, n)
    <2> DEFINE S == {m \in 0..n : \E g : Is(g, m)}
    <2>1. 0 \in S
      <3>1. Is([h \in 0..0 |-> s], 0)
        OBVIOUS
      <3> HIDE DEF Is
      <3> QED
        BY <3>1
    <2>2. ASSUME NEW k \in 1..n, k - 1 \in S
          PROVE  k \in S
      <3>1. PICK g : Is(g, k - 1)
        BY <2>2
      <3>2. PICK x : x = IF s.store.entries[k].dirty
                         THEN PublishEntry(g[k - 1], k) ELSE g[k - 1]
        OBVIOUS
      <3>3. PICK f2 : f2 = [h \in 0..k |-> IF h = k THEN x ELSE g[h]]
        OBVIOUS
      <3>4. \A h \in 0..(k - 1) :
               g[h] = IF h = 0 THEN s
                      ELSE IF s.store.entries[h].dirty
                           THEN PublishEntry(g[h - 1], h) ELSE g[h - 1]
        BY <3>1
      <3>5. \A h \in 0..(k - 1) : f2[h] = g[h]
        BY <3>3
      <3>6. f2[k] = x /\ k # 0 /\ k - 1 \in 0..(k - 1)
        BY <3>3
      <3>7. ASSUME NEW h \in 0..k
            PROVE  f2[h] = IF h = 0 THEN s
                           ELSE IF s.store.entries[h].dirty
                                THEN PublishEntry(f2[h - 1], h) ELSE f2[h - 1]
        <4>1. CASE h = k
          BY <3>2, <3>5, <3>6, <4>1
        <4>2. CASE h # k
          <5>1. h \in 0..(k - 1) /\ (h # 0 => h - 1 \in 0..(k - 1))
            BY <4>2
          <5> QED
            BY <3>4, <3>5, <5>1
        <4> QED
          BY <4>1, <4>2
      <3>8. Is(f2, k)
        BY <3>3, <3>7
      <3> QED
        BY <3>8
    <2> HIDE DEF S
    <2>3. 0..n \subseteq S
      BY <2>1, <2>2, Induct
    <2>4. n \in S
      BY <2>3
    <2> QED
      BY <2>4 DEF S
  <1>4. Is(f, n)
    <2> HIDE DEF Is
    <2> QED
      BY <1>1, <1>3
  <1>5. f[0] = s
    BY <1>4
  <1>6. \A h \in 1..n : f[h] = IF s.store.entries[h].dirty
                               THEN PublishEntry(f[h - 1], h) ELSE f[h - 1]
    BY <1>4
  <1> QED
    BY <1>2, <1>5, <1>6

\* Enough ids are left for the dirty entries without one.
Unnamed(s) == {h \in DirtyHandles(s.store) : s.store.entries[h].id = NoId}
EnoughIds(s) == Unnamed(s) # {} => s.server.next + Cardinality(Unnamed(s)) - 1 \in Ids

\* x is the state after the first m passes of process_updates over the table of
\* s, which has n entries.
Passed(s, n, x, m) ==
    /\ ServerOK(x)
    /\ DOMAIN x.store.entries = 1..n
    /\ \A g \in 1..n : g > m => x.store.entries[g] = s.store.entries[g]

\* Every pass leaves the server's state in order, and finds an id if it needs one.
LEMMA PassesOK ==
    ASSUME NEW s, ServerOK(s), EnoughIds(s),
           \A c \in Clients : down[c] \in Seq(ToClient), time \in Int,
           NEW n \in Nat, n = Len(s.store.entries), NEW f, f[0] = s,
           \A h \in 1..n : f[h] = IF s.store.entries[h].dirty
                                  THEN PublishEntry(f[h - 1], h) ELSE f[h - 1]
    PROVE  /\ \A m \in 0..n : Passed(s, n, f[m], m)
           /\ \A m \in 1..n : s.store.entries[m].dirty /\ s.store.entries[m].id = NoId =>
                                 f[m - 1].server.next \in Ids
  <1>1. PICK es : es = s.store.entries
    OBVIOUS
  <1>3. n \in Nat /\ DOMAIN es = 1..n
    BY <1>1, StoreFacts DEF ServerOK
  <1>4. /\ f[0] = s
        /\ \A h \in 1..n : f[h] = IF es[h].dirty
                                  THEN PublishEntry(f[h - 1], h) ELSE f[h - 1]
    BY <1>1
  <1>5. PICK U : U = Unnamed(s)
    OBVIOUS
  <1>6. \A h : h \in U <=> (h \in 1..n /\ es[h].dirty /\ es[h].id = NoId)
    BY <1>1, <1>3, <1>5 DEF Unnamed, DirtyHandles
  <1>7. IsFiniteSet(U) /\ Cardinality(U) \in Nat
    <2>1. IsFiniteSet(1..n)
      BY <1>3, FS_Interval
    <2>2. U \subseteq 1..n
      BY <1>6
    <2> QED
      BY <2>1, <2>2, FS_Subset, FS_CardinalityType
  <1>8. PICK next \in Nat : next = s.server.next
    BY ServerFacts DEF ServerOK
  <1>9. U # {} => next + Cardinality(U) - 1 \in Ids
    BY <1>5, <1>8 DEF EnoughIds
  <1> DEFINE Done(m) == {h \in U : h <= m}
             Good(x, m) ==
                /\ ServerOK(x)
                /\ DOMAIN x.store.entries = 1..n
                /\ \A g \in 1..n : g > m => x.store.entries[g] = es[g]
                /\ x.server.next = next + Cardinality(Done(m))
             Enough(m) == m \in U => f[m - 1].server.next \in Ids
             S == {m \in 0..n : Good(f[m], m) /\ Enough(m)}
  <1>10. 0 \in S
    <2>1. Done(0) = {}
      BY <1>3, <1>6
    <2>2. Cardinality(Done(0)) = 0
      BY <2>1, FS_EmptySet
    <2>3. f[0] = s
      BY <1>4
    <2>4. Good(s, 0)
      BY <1>1, <1>3, <1>8, <2>2
    <2>5. Enough(0)
      BY <1>6
    <2> HIDE DEF Good, Enough
    <2> QED
      BY <1>3, <2>3, <2>4, <2>5
  <1>11. ASSUME NEW k \in 1..n, k - 1 \in S
         PROVE  k \in S
    <2>1. PICK j \in 0..n : j = k - 1 /\ j + 1 = k /\ j < k
      BY <1>3
    <2>2. PICK x : x = f[j]
      OBVIOUS
    <2>3. Good(x, j)
      BY <1>11, <2>1, <2>2
    <2>4. f[k] = IF es[k].dirty THEN PublishEntry(x, k) ELSE x
      BY <1>4, <2>1, <2>2
    <2>5. PICK done : done = Done(j)
      OBVIOUS
    <2>6. \A h : h \in done <=> (h \in U /\ h <= j)
      BY <2>5
    <2>7. IsFiniteSet(done) /\ Cardinality(done) \in Nat /\ done \subseteq U /\ k \notin done
      <3>1. done \subseteq U /\ k \notin done
        BY <2>1, <2>6
      <3> QED
        BY <1>7, <3>1, FS_Subset, FS_CardinalityType
    <2>8. ServerOK(x) /\ DOMAIN x.store.entries = 1..n /\ x.store.entries[k] = es[k]
      BY <2>1, <2>3
    <2>9. \A g \in 1..n : g > k => x.store.entries[g] = es[g] /\ g > j
      BY <2>1, <2>3
    <2>10. x.server.next = next + Cardinality(done)
      BY <2>3, <2>5
    <2>11. CASE k \in U
      <3>1. es[k].dirty /\ es[k].id = NoId
        BY <1>6, <2>11
      <3>2. Done(k) = done \cup {k}
        <4>1. \A h \in U : h <= k <=> (h <= j \/ h = k)
          BY <1>6, <2>1
        <4> QED
          BY <2>6, <2>11, <4>1
      <3>3. Cardinality(Done(k)) = Cardinality(done) + 1
        BY <2>7, <3>2, FS_AddElement
      <3>4. Cardinality(done) + 1 <= Cardinality(U)
        <4>1. Done(k) \subseteq U
          OBVIOUS
        <4>2. Cardinality(Done(k)) <= Cardinality(U)
          <5> HIDE DEF Done
          <5> QED
            BY <1>7, <4>1, FS_Subset
        <4> QED
          BY <3>3, <4>2
      <3>5. x.server.next \in Ids
        <4>1. PICK a, b : a = Cardinality(done) /\ b = Cardinality(U)
          OBVIOUS
        <4>2. a \in Nat /\ b \in Nat /\ a + 1 <= b
          BY <1>7, <2>7, <3>4, <4>1
        <4>3. next + b - 1 \in Ids
          BY <1>9, <2>11, <4>1
        <4>4. next + a \in Nat /\ next + a <= next + b - 1
          BY <1>8, <4>2
        <4>5. PICK lim : lim = Cardinality(Ids)
          OBVIOUS
        <4>6. lim \in Nat /\ next + b - 1 < lim
          BY <4>3, <4>5, IdsFacts
        <4>7. next + a < lim
          BY <1>8, <4>2, <4>4, <4>6
        <4> QED
          BY <2>10, <4>1, <4>4, <4>5, <4>7, IdsFacts
      <3>6. PICK u : u = PublishEntry(x, k)
        OBVIOUS
      <3>7. /\ ServerOK(u)
            /\ DOMAIN u.store.entries = DOMAIN x.store.entries
            /\ \A g \in DOMAIN x.store.entries \ {k} :
                  u.store.entries[g] = x.store.entries[g]
            /\ u.server.next = x.server.next + 1
        BY <2>8, <3>1, <3>5, <3>6, PublishEntryOK
      <3>8. u.server.next = next + Cardinality(Done(k))
        <4>1. PICK a \in Nat : a = Cardinality(done)
          BY <2>7
        <4>2. PICK b \in Nat : b = next + a
          OBVIOUS
        <4>3. x.server.next = b
          BY <2>10, <4>1, <4>2
        <4>4. u.server.next = b + 1
          BY <3>7, <4>3
        <4>5. Cardinality(Done(k)) = a + 1
          BY <3>3, <4>1
        <4>6. b + 1 = next + (a + 1)
          BY <4>2
        <4> HIDE DEF Done
        <4> QED
          BY <4>4, <4>5, <4>6
      <3>9. \A g \in 1..n : g > k => u.store.entries[g] = es[g]
        <4>1. \A g \in 1..n : g > k => g # k
          BY <1>3
        <4> QED
          BY <2>8, <2>9, <3>7, <4>1
      <3> HIDE DEF Done
      <3>10. Good(u, k)
        BY <2>8, <3>7, <3>8, <3>9
      <3>11. f[k] = u /\ k \in 0..n
        BY <1>3, <2>4, <3>1, <3>6
      <3>12. Enough(k)
        BY <2>1, <2>2, <3>5
      <3> HIDE DEF Good, Enough
      <3> QED
        BY <3>10, <3>11, <3>12
    <2>12. CASE k \notin U
      <3>1. Done(k) = done
        <4>1. \A h \in U : h <= k <=> h <= j
          BY <1>6, <2>1, <2>12
        <4> QED
          BY <2>6, <4>1
      <3>2. CASE ~es[k].dirty
        <4>1. f[k] = x /\ k \in 0..n
          BY <1>3, <2>4, <3>2
        <4>2. Good(x, k)
          BY <2>8, <2>9, <2>10, <3>1
        <4>3. Enough(k)
          BY <2>12
        <4> HIDE DEF Good, Enough
        <4> QED
          BY <4>1, <4>2, <4>3
      <3>3. CASE es[k].dirty
        <4>1. es[k].id # NoId
          BY <1>6, <2>12, <3>3
        <4>2. PICK u : u = PublishEntry(x, k)
          OBVIOUS
        <4>3. /\ ServerOK(u)
              /\ DOMAIN u.store.entries = DOMAIN x.store.entries
              /\ \A g \in DOMAIN x.store.entries \ {k} :
                    u.store.entries[g] = x.store.entries[g]
              /\ u.server.next = x.server.next
          <5>1. k \in DOMAIN x.store.entries /\ x.store.entries[k].id # NoId
            BY <2>8, <4>1
          <5>2. ServerOK(u) /\ DOMAIN u.store.entries = DOMAIN x.store.entries
            BY <2>8, <4>2, <5>1, PublishEntryOK
          <5>3. \A g \in DOMAIN x.store.entries \ {k} :
                   u.store.entries[g] = x.store.entries[g]
            BY <2>8, <4>2, <5>1, PublishEntryOK
          <5>4. u.server.next = x.server.next
            BY <2>8, <4>2, <5>1, PublishEntryOK
          <5> QED
            BY <5>2, <5>3, <5>4
        <4>4. \A g \in 1..n : g > k => u.store.entries[g] = es[g]
          <5>1. \A g \in 1..n : g > k => g # k
            BY <1>3
          <5> QED
            BY <2>8, <2>9, <4>3, <5>1
        <4>5. Good(u, k)
          BY <2>8, <2>10, <3>1, <4>3, <4>4
        <4>6. f[k] = u /\ k \in 0..n
          BY <1>3, <2>4, <3>3, <4>2
        <4>7. Enough(k)
          BY <2>12
        <4> HIDE DEF Good, Enough
        <4> QED
          BY <4>5, <4>6, <4>7
      <3> QED
        BY <3>2, <3>3
    <2> QED
      BY <2>11, <2>12
  <1> HIDE DEF S
  <1>12. 0..n \subseteq S
    BY <1>3, <1>10, <1>11, Induct
  <1>13. \A m \in 0..n : Good(f[m], m) /\ Enough(m)
    <2> HIDE DEF Good, Enough
    <2> QED
      BY <1>12 DEF S
  <1>14. \A m \in 0..n : Passed(s, n, f[m], m)
    BY <1>1, <1>13 DEF Passed
  <1>15. ASSUME NEW m \in 1..n, m \in U
         PROVE  f[m - 1].server.next \in Ids
    <2>1. m \in 0..n
      BY <1>3
    <2>2. Enough(m)
      <3> HIDE DEF Good, Enough
      <3> QED
        BY <1>13, <2>1
    <2> QED
      BY <1>15, <2>2
  <1> QED
    BY <1>1, <1>6, <1>14, <1>15

\* process_updates keeps the server's state in order.
LEMMA PublishAllOK ==
    ASSUME NEW s, ServerOK(s), EnoughIds(s),
           \A c \in Clients : down[c] \in Seq(ToClient), time \in Int
    PROVE  LET u == PublishAll(s)
           IN  ServerOK(u) /\ DOMAIN u.store.entries = DOMAIN s.store.entries
  <1>1. PICK n \in Nat : n = Len(s.store.entries) /\ DOMAIN s.store.entries = 1..n
    BY StoreFacts DEF ServerOK
  <1>2. PICK f : /\ PublishAll(s) = f[n] /\ f[0] = s
                 /\ \A h \in 1..n : f[h] = IF s.store.entries[h].dirty
                                           THEN PublishEntry(f[h - 1], h) ELSE f[h - 1]
    BY <1>1, PublishPasses
  <1>3. n \in 0..n /\ \A m \in 0..n : Passed(s, n, f[m], m)
    BY <1>1, <1>2, PassesOK
  <1>4. Passed(s, n, f[n], n)
    BY <1>3
  <1> QED
    BY <1>1, <1>2, <1>4 DEF Passed

-----------------------------------------------------------------------------
(* The message handlers of the server.                                      *)

\* When others write too, any consistent storage will do.
LEMMA SetStore ==
    ASSUME NEW s, ServerOK(s), ~Listening, NEW st, StoreInv(st)
    PROVE  LET u == [s EXCEPT !.store = st]
           IN  ServerOK(u) /\ u.store = st /\ u.server = s.server /\ u.peer = s.peer
  <1>1. PICK sv, pr, old : sv = s.server /\ pr = s.peer /\ old = s.store
    OBVIOUS
  <1>2. s = [store |-> old, server |-> sv, peer |-> pr]
    BY <1>1 DEF ServerOK
  <1>3. PICK u : u = [s EXCEPT !.store = st]
    OBVIOUS
  <1>4. u = [store |-> st, server |-> sv, peer |-> pr]
    BY <1>2, <1>3
  <1>5. ServerOK(u)
    BY <1>1, <1>4 DEF ServerOK
  <1> QED
    BY <1>1, <1>3, <1>4, <1>5

\* The id of the message the parser read last.
LEMMA SetParsed ==
    ASSUME NEW s, ServerOK(s), ~Listening, NEW id \in Ids
    PROVE  LET u == [s EXCEPT !.server.parsed = id]
           IN  ServerOK(u) /\ u.store = s.store /\ u.peer = s.peer
  <1>1. PICK sv, pr, old : sv = s.server /\ pr = s.peer /\ old = s.store
    OBVIOUS
  <1>2. s = [store |-> old, server |-> sv, peer |-> pr] /\ sv \in ServerType
    BY <1>1 DEF ServerOK
  <1>3. PICK u : u = [s EXCEPT !.server.parsed = id]
    OBVIOUS
  <1>4. PICK sv2 : sv2 = [sv EXCEPT !.parsed = id]
    OBVIOUS
  <1>5. sv2 \in ServerType
    BY <1>2, <1>4 DEF ServerType
  <1>6. u = [store |-> old, server |-> sv2, peer |-> pr]
    BY <1>2, <1>3, <1>4
  <1>7. \A c \in Clients : PeerOK(store[c].ids, down[c], sv2, pr[c])
    BY <1>1, <1>5, PeersKept
  <1>8. ServerOK(u)
    BY <1>1, <1>5, <1>6, <1>7 DEF ServerOK
  <1> QED
    BY <1>1, <1>3, <1>6, <1>8

\* on_message, entry_create
LEMMA HandleCreateOK ==
    ASSUME NEW s, ServerOK(s), ~Listening, NEW c \in Clients, NEW m \in CreateMsg,
           s.server.parsed = NoId => s.server.next \in Ids,
           \A d \in Clients : down[d] \in Seq(ToClient), time \in Int
    PROVE  ServerOK(HandleCreate(s, c, m))
  <1>1. PICK v, t : v = m.value /\ t = m.ts
    OBVIOUS
  <1>2. PICK p \in Paths : p = m.path
    BY DEF CreateMsg
  <1>3. v \in AnyValue /\ t \in Int
    BY <1>1 DEF CreateMsg
  <1>4. PICK id : id = IF s.server.parsed = NoId THEN s.server.next ELSE s.server.parsed
    OBVIOUS
  <1>5. id \in Ids
    BY <1>4, ServerFacts DEF ServerOK
  <1>6. PICK u : u = IF s.server.parsed = NoId THEN AssignNext(s, p) ELSE s
    OBVIOUS
  <1>7. ServerOK(u) /\ u.peer = s.peer
    <2>1. CASE s.server.parsed = NoId
      <3>1. id = s.server.next /\ u = AssignNext(s, p)
        BY <1>4, <1>6, <2>1
      <3>2. PICK h : h = u.store.paths[p]
        OBVIOUS
      <3>3. Assigned(s, id, p, u, h)
        BY <1>5, <3>1, <3>2, AssignNextOK
      <3> QED
        BY <3>3 DEF Assigned
    <2>2. CASE s.server.parsed # NoId
      BY <1>6, <2>2
    <2> QED
      BY <2>1, <2>2
  <1>8. PICK st : st = OnEntryCreated(u.store, id, p, v, t, time).store
    OBVIOUS
  <1>9. StoreInv(st)
    <2>1. StoreInv(u.store)
      BY <1>7 DEF ServerOK
    <2>2. HasRoomFor(u.store, p)
      BY <2>1, RoomForAll
    <2>3. Grows(u.store, st)
      BY <1>3, <1>5, <1>8, <2>1, <2>2, CreatedGrows
    <2> QED
      BY <2>3 DEF Grows
  <1>10. PICK w : w = [u EXCEPT !.store = st]
    OBVIOUS
  <1>11. ServerOK(w) /\ w.peer = s.peer
    BY <1>7, <1>9, <1>10, SetStore
  <1>12. PICK told : told = [d \in Clients |-> Enqueue(Publish(s.peer[d], s.peer[d].id, p),
                                                        Update(id, v, t))]
    OBVIOUS
  <1>13. PICK others \in SUBSET Clients : others = Clients \ {c}
    OBVIOUS
  <1>14. ASSUME NEW d \in others, w.peer[d].id # NoId
         PROVE  PeerOK(store[d].ids, down[d], w.server, told[d])
    <2>1. ~Orderly /\ d \in Clients
      BY <1>13 DEF Orderly, Alone
    <2>2. PICK pr : pr = s.peer[d]
      OBVIOUS
    <2>3. PeerOK(store[d].ids, down[d], w.server, pr)
      BY <1>11, <2>1, <2>2 DEF ServerOK
    <2>4. PICK own \in Ids : own = pr.id
      BY <1>11, <1>14, <2>2, <2>3, PeerFacts DEF PeerOK
    <2>5. PICK q : q = Publish(pr, own, p)
      OBVIOUS
    <2>6. PeerOK(store[d].ids, down[d], w.server, q)
      BY <2>1, <2>3, <2>5, PublishOK
    <2>7. Update(id, v, t) \in ToClient
      BY <1>2, <1>3, <1>5, MessageFacts
    <2>8. PeerOK(store[d].ids, down[d], w.server, Enqueue(q, Update(id, v, t)))
      BY <2>1, <2>6, <2>7, EnqueueOK
    <2>9. told[d] = Enqueue(q, Update(id, v, t))
      BY <1>12, <2>1, <2>2, <2>4, <2>5
    <2> QED
      BY <2>8, <2>9
  <1>15. PICK x : x = [w EXCEPT !.peer = ToOthers(@, c, told)]
    OBVIOUS
  <1>16. ServerOK(x)
    BY <1>11, <1>13, <1>14, <1>15, TellOK
  <1>17. HandleCreate(s, c, m) =
            [u EXCEPT !.store = OnEntryCreated(@, id, p, v, t, time).store,
                      !.peer = ToOthers(@, c, told)]
    BY <1>1, <1>2, <1>4, <1>6, <1>12 DEF HandleCreate
  <1>18. w = [u EXCEPT !.store = OnEntryCreated(@, id, p, v, t, time).store]
    BY <1>8, <1>10
  <1>19. [u EXCEPT !.store = OnEntryCreated(@, id, p, v, t, time).store,
                   !.peer = ToOthers(@, c, told)] = x
    BY <1>15, <1>18
  <1> QED
    BY <1>16, <1>17, <1>19

\* on_message, entry_update
LEMMA HandleUpdateOK ==
    ASSUME NEW s, ServerOK(s), ~Listening, NEW c \in Clients, NEW m \in UpdateMsg,
           \A d \in Clients : down[d] \in Seq(ToClient), time \in Int
    PROVE  ServerOK(HandleUpdate(s, c, m))
  <1>1. PICK id, v, t : id = m.id /\ v = m.value /\ t = m.ts
    OBVIOUS
  <1>2. id \in Ids /\ v \in AnyValue /\ t \in Int
    BY <1>1 DEF UpdateMsg
  <1>3. PICK u : u = [s EXCEPT !.server.parsed = id]
    OBVIOUS
  <1>4. ServerOK(u) /\ u.peer = s.peer
    BY <1>2, <1>3, SetParsed
  <1>5. PICK st : st = OnEntryUpdated(u.store, id, v, t, time).store
    OBVIOUS
  <1>6. StoreInv(st)
    <2>1. StoreInv(u.store)
      BY <1>4 DEF ServerOK
    <2>2. Grows(u.store, st)
      BY <1>2, <1>5, <2>1, UpdatedGrows
    <2> QED
      BY <2>2 DEF Grows
  <1>7. PICK w : w = [u EXCEPT !.store = st]
    OBVIOUS
  <1>8. ServerOK(w) /\ w.peer = s.peer
    BY <1>4, <1>6, <1>7, SetStore
  <1>9. PICK told : told = [d \in Clients |-> Enqueue(s.peer[d], Update(id, v, t))]
    OBVIOUS
  <1>10. PICK others \in SUBSET Clients : others = Clients \ {c}
    OBVIOUS
  <1>11. ASSUME NEW d \in others
         PROVE  PeerOK(store[d].ids, down[d], w.server, told[d])
    <2>1. ~Orderly /\ d \in Clients
      BY <1>10 DEF Orderly, Alone
    <2>2. PICK pr : pr = s.peer[d]
      OBVIOUS
    <2>3. PeerOK(store[d].ids, down[d], w.server, pr)
      BY <1>8, <2>1, <2>2 DEF ServerOK
    <2>4. Update(id, v, t) \in ToClient
      BY <1>2, MessageFacts DEF ToClient, UpdateMsg, Update
    <2>5. PeerOK(store[d].ids, down[d], w.server, Enqueue(pr, Update(id, v, t)))
      BY <2>1, <2>3, <2>4, EnqueueOK
    <2> QED
      BY <1>9, <2>1, <2>2, <2>5
  <1>12. PICK x : x = [w EXCEPT !.peer = ToOthers(@, c, told)]
    OBVIOUS
  <1>13. ServerOK(x)
    BY <1>8, <1>10, <1>11, <1>12, TellOK
  <1>14. HandleUpdate(s, c, m) =
            [s EXCEPT !.server.parsed = id,
                      !.store = OnEntryUpdated(@, id, v, t, time).store,
                      !.peer = ToOthers(@, c, told)]
    BY <1>1, <1>9 DEF HandleUpdate
  <1>15. w = [u EXCEPT !.store = OnEntryUpdated(@, id, v, t, time).store]
    BY <1>5, <1>7
  <1>16. [s EXCEPT !.server.parsed = id,
                   !.store = OnEntryUpdated(@, id, v, t, time).store,
                   !.peer = ToOthers(@, c, told)] = x
    BY <1>3, <1>12, <1>15
  <1> QED
    BY <1>13, <1>14, <1>16

\* on_message, entry_delete
LEMMA HandleDeleteOK ==
    ASSUME NEW s, ServerOK(s), ~Listening, NEW c \in Clients, NEW m \in DeletionMsg,
           \A d \in Clients : down[d] \in Seq(ToClient), time \in Int
    PROVE  ServerOK(HandleDelete(s, c, m))
  <1>1. PICK id, t : id = m.id /\ t = m.ts
    OBVIOUS
  <1>2. id \in Ids /\ t \in Int
    BY <1>1 DEF DeletionMsg
  <1>3. PICK u : u = [s EXCEPT !.server.parsed = id]
    OBVIOUS
  <1>4. ServerOK(u) /\ u.peer = s.peer
    BY <1>2, <1>3, SetParsed
  <1>5. PICK st : st = OnEntryDeleted(u.store, id, t, time).store
    OBVIOUS
  <1>6. StoreInv(st)
    <2>1. StoreInv(u.store)
      BY <1>4 DEF ServerOK
    <2>2. Grows(u.store, st)
      BY <1>2, <1>5, <2>1, DeletedGrows
    <2> QED
      BY <2>2 DEF Grows
  <1>7. PICK w : w = [u EXCEPT !.store = st]
    OBVIOUS
  <1>8. ServerOK(w) /\ w.peer = s.peer
    BY <1>4, <1>6, <1>7, SetStore
  <1>9. PICK told : told = [d \in Clients |-> Enqueue(s.peer[d], Deletion(id, t))]
    OBVIOUS
  <1>10. PICK others \in SUBSET Clients : others = Clients \ {c}
    OBVIOUS
  <1>11. ASSUME NEW d \in others
         PROVE  PeerOK(store[d].ids, down[d], w.server, told[d])
    <2>1. ~Orderly /\ d \in Clients
      BY <1>10 DEF Orderly, Alone
    <2>2. PICK pr : pr = s.peer[d]
      OBVIOUS
    <2>3. PeerOK(store[d].ids, down[d], w.server, pr)
      BY <1>8, <2>1, <2>2 DEF ServerOK
    <2>4. Deletion(id, t) \in ToClient
      BY <1>2 DEF ToClient, DeletionMsg, Deletion
    <2>5. PeerOK(store[d].ids, down[d], w.server, Enqueue(pr, Deletion(id, t)))
      BY <2>1, <2>3, <2>4, EnqueueOK
    <2> QED
      BY <1>9, <2>1, <2>2, <2>5
  <1>12. PICK x : x = [w EXCEPT !.peer = ToOthers(@, c, told)]
    OBVIOUS
  <1>13. ServerOK(x)
    BY <1>8, <1>10, <1>11, <1>12, TellOK
  <1>14. HandleDelete(s, c, m) =
            [s EXCEPT !.server.parsed = id,
                      !.store = OnEntryDeleted(@, id, t, time).store,
                      !.peer = ToOthers(@, c, told)]
    BY <1>1, <1>9 DEF HandleDelete
  <1>15. w = [u EXCEPT !.store = OnEntryDeleted(@, id, t, time).store]
    BY <1>5, <1>7
  <1>16. [s EXCEPT !.server.parsed = id,
                   !.store = OnEntryDeleted(@, id, t, time).store,
                   !.peer = ToOthers(@, c, told)] = x
    BY <1>3, <1>12, <1>15
  <1> QED
    BY <1>13, <1>14, <1>16

\* handle_do_handshake_for_client, one id: the client learns its path and value.
LEMMA GreetWithOK ==
    ASSUME NEW s, ServerOK(s), NEW ids, NEW dn \in Seq(ToClient), time \in Int,
           NEW pr, PeerOK(ids, dn, s.server, pr),
           NEW id \in Ids, s.server.names[id] # Absent
    PROVE  PeerOK(ids, dn, s.server, GreetWith(pr, s, id))
  <1>1. PICK p : p = s.server.names[id]
    OBVIOUS
  <1>2. p \in Paths
    BY <1>1, ServerFacts DEF ServerOK
  <1>3. id \in Nat
    BY IdsFacts
  <1>4. StoreInv(s.store)
    BY DEF ServerOK
  <1>5. PICK h : h = s.store.ids[id]
    OBVIOUS
  <1>6. PICK v : v = ReadingById(s.store, id)
    OBVIOUS
  <1>7. v # Absent => /\ h # 0 /\ h \in DOMAIN s.store.entries
                      /\ v = s.store.entries[h].value /\ v \in AnyValue
    <2> SUFFICES ASSUME v # Absent
                 PROVE  /\ h # 0 /\ h \in DOMAIN s.store.entries
                        /\ v = s.store.entries[h].value /\ v \in AnyValue
      OBVIOUS
    <2>1. h # 0 /\ v = Reading(s.store.entries[h])
      BY <1>5, <1>6 DEF ReadingById
    <2>2. h \in DOMAIN s.store.entries
      BY <1>4, <1>5, <2>1 DEF StoreInv, IdIndex
    <2>3. v = s.store.entries[h].value
      BY <2>1 DEF Reading
    <2> QED
      BY <1>4, <2>1, <2>2, <2>3, EntryFacts
  <1>8. ASSUME Listening
        PROVE  /\ id < s.server.next
               /\ v \in Values => HomeOf[v] = p
    <2>1. NamesOK(s.store, s.server) /\ AtHome(s.store)
      BY <1>8 DEF ServerOK
    <2>2. id < s.server.next
      BY <2>1 DEF NamesOK
    <2>3. h # 0 /\ s.store.entries[h].path = p
      BY <1>1, <1>5, <2>1, <2>2 DEF NamesOK
    <2>4. ASSUME v \in Values
          PROVE  HomeOf[v] = p
      <3>1. v # Absent
        BY <2>4, ValuesAssumption
      <3> QED
        BY <1>7, <2>1, <2>3, <2>4, <3>1 DEF AtHome
    <2> QED
      BY <2>2, <2>4
  <1>9. PICK q : q = Publish(pr, id, p)
    OBVIOUS
  <1>10. PeerOK(ids, dn, s.server, q) /\ id \in q.known
    BY <1>1, <1>2, <1>8, <1>9, PublishOK
  <1>11. PICK m : m = Update(id, v, time)
    OBVIOUS
  <1>12. v # Absent => PeerOK(ids, dn, s.server, Enqueue(q, m))
    <2> SUFFICES ASSUME v # Absent
                 PROVE  PeerOK(ids, dn, s.server, Enqueue(q, m))
      OBVIOUS
    <2>1. m \in ToClient /\ m.id = id
      BY <1>2, <1>7, <1>11, MessageFacts
    <2>2. Listening => Right(s.server, m)
      BY <1>1, <1>2, <1>7, <1>8, <1>11, MessageFacts
    <2> QED
      BY <1>10, <2>1, <2>2, EnqueueOK
  <1>13. GreetWith(pr, s, id) = IF id \in pr.known THEN pr
                                ELSE IF v = Absent THEN q ELSE Enqueue(q, m)
    BY <1>1, <1>6, <1>9, <1>11 DEF GreetWith
  <1> QED
    BY <1>10, <1>12, <1>13

\* handle_do_handshake_for_client: what each pass of the loop leaves.
LEMMA GreetedPasses ==
    ASSUME NEW pr, NEW s, NEW n \in Nat, n = Cardinality(Ids)
    PROVE  \E f : /\ Greeted(pr, s) = f[n] /\ f[0] = pr
                  /\ \A h \in 1..n : f[h] = IF s.server.names[h - 1] = Absent THEN f[h - 1]
                                            ELSE GreetWith(f[h - 1], s, h - 1)
  <1> DEFINE Is(g, m) ==
                g = [h \in 0..m |-> IF h = 0 THEN pr
                                    ELSE IF s.server.names[h - 1] = Absent THEN g[h - 1]
                                    ELSE GreetWith(g[h - 1], s, h - 1)]
  <1>1. PICK f : f = CHOOSE g : Is(g, n)
    OBVIOUS
  <1>2. Greeted(pr, s) = f[n]
    BY <1>1 DEF Greeted
  <1>3. \E g : Is(g, n)
    <2> DEFINE S == {m \in 0..n : \E g : Is(g, m)}
    <2>1. 0 \in S
      <3>1. Is([h \in 0..0 |-> pr], 0)
        OBVIOUS
      <3> HIDE DEF Is
      <3> QED
        BY <3>1
    <2>2. ASSUME NEW k \in 1..n, k - 1 \in S
          PROVE  k \in S
      <3>1. PICK g : Is(g, k - 1)
        BY <2>2
      <3>2. PICK x : x = IF s.server.names[k - 1] = Absent THEN g[k - 1]
                         ELSE GreetWith(g[k - 1], s, k - 1)
        OBVIOUS
      <3>3. PICK f2 : f2 = [h \in 0..k |-> IF h = k THEN x ELSE g[h]]
        OBVIOUS
      <3>4. \A h \in 0..(k - 1) :
               g[h] = IF h = 0 THEN pr
                      ELSE IF s.server.names[h - 1] = Absent THEN g[h - 1]
                      ELSE GreetWith(g[h - 1], s, h - 1)
        BY <3>1
      <3>5. \A h \in 0..(k - 1) : f2[h] = g[h]
        BY <3>3
      <3>6. f2[k] = x /\ k # 0 /\ k - 1 \in 0..(k - 1)
        BY <3>3
      <3>7. ASSUME NEW h \in 0..k
            PROVE  f2[h] = IF h = 0 THEN pr
                           ELSE IF s.server.names[h - 1] = Absent THEN f2[h - 1]
                           ELSE GreetWith(f2[h - 1], s, h - 1)
        <4>1. CASE h = k
          BY <3>2, <3>5, <3>6, <4>1
        <4>2. CASE h # k
          <5>1. h \in 0..(k - 1) /\ (h # 0 => h - 1 \in 0..(k - 1))
            BY <4>2
          <5> QED
            BY <3>4, <3>5, <5>1
        <4> QED
          BY <4>1, <4>2
      <3>8. Is(f2, k)
        BY <3>3, <3>7
      <3> QED
        BY <3>8
    <2> HIDE DEF S
    <2>3. 0..n \subseteq S
      BY <2>1, <2>2, Induct
    <2>4. n \in S
      BY <2>3
    <2> QED
      BY <2>4 DEF S
  <1>4. Is(f, n)
    <2> HIDE DEF Is
    <2> QED
      BY <1>1, <1>3
  <1>5. f[0] = pr
    BY <1>4
  <1>6. \A h \in 1..n : f[h] = IF s.server.names[h - 1] = Absent THEN f[h - 1]
                               ELSE GreetWith(f[h - 1], s, h - 1)
    BY <1>4
  <1> QED
    BY <1>2, <1>5, <1>6

\* The messages that greet a new client keep its queue and its books in order.
LEMMA GreetedOK ==
    ASSUME NEW s, ServerOK(s), NEW ids, NEW dn \in Seq(ToClient), time \in Int,
           NEW pr, PeerOK(ids, dn, s.server, pr)
    PROVE  PeerOK(ids, dn, s.server, Greeted(pr, s))
  <1>1. PICK n \in Nat : n = Cardinality(Ids)
    BY IdsFacts
  <1>2. PICK f : /\ Greeted(pr, s) = f[n] /\ f[0] = pr
                 /\ \A h \in 1..n : f[h] = IF s.server.names[h - 1] = Absent THEN f[h - 1]
                                           ELSE GreetWith(f[h - 1], s, h - 1)
    BY <1>1, GreetedPasses
  <1> DEFINE S == {m \in 0..n : PeerOK(ids, dn, s.server, f[m])}
  <1>3. 0 \in S
    BY <1>2
  <1>4. ASSUME NEW k \in 1..n, k - 1 \in S
        PROVE  k \in S
    <2>1. PICK j \in 0..n : j = k - 1 /\ j \in Nat /\ j < n
      OBVIOUS
    <2>2. PICK x : x = f[j]
      OBVIOUS
    <2>3. PeerOK(ids, dn, s.server, x)
      BY <1>4, <2>1, <2>2
    <2>4. f[k] = IF s.server.names[j] = Absent THEN x ELSE GreetWith(x, s, j)
      BY <1>2, <2>1, <2>2
    <2>5. j \in Ids
      BY <1>1, <2>1, IdsFacts
    <2>6. PeerOK(ids, dn, s.server, f[k])
      <3>1. CASE s.server.names[j] = Absent
        BY <2>3, <2>4, <3>1
      <3>2. CASE s.server.names[j] # Absent
        <4>1. PeerOK(ids, dn, s.server, GreetWith(x, s, j))
          BY <2>3, <2>5, <3>2, GreetWithOK
        <4> QED
          BY <2>4, <3>2, <4>1
      <3> QED
        BY <3>1, <3>2
    <2> QED
      BY <2>6
  <1> HIDE DEF S
  <1>5. 0..n \subseteq S
    BY <1>3, <1>4, Induct
  <1>6. n \in S
    BY <1>5
  <1> QED
    BY <1>2, <1>6 DEF S

\* on_message, handshake_ready
LEMMA HandleReadyOK ==
    ASSUME NEW s, ServerOK(s), NEW c \in Clients,
           \A d \in Clients : down[d] \in Seq(ToClient), time \in Int
    PROVE  ServerOK(HandleReady(s, c))
  <1>1. PICK pr : pr = s.peer
    OBVIOUS
  <1>2. PICK x : x = Enqueue(Greeted(pr[c], s), Finished)
    OBVIOUS
  <1>3. PICK peers : peers = [pr EXCEPT ![c] = x]
    OBVIOUS
  <1>4. /\ pr = [d \in Clients |-> pr[d]]
        /\ \A d \in Clients : PeerOK(store[d].ids, down[d], s.server, pr[d])
    BY <1>1 DEF ServerOK
  <1>5. PeerOK(store[c].ids, down[c], s.server, x)
    <2>1. PICK q : q = Greeted(pr[c], s)
      OBVIOUS
    <2>2. PeerOK(store[c].ids, down[c], s.server, q)
      BY <1>4, <2>1, GreetedOK
    <2>3. Finished \in ToClient /\ ~NamesId(Finished) /\ Right(s.server, Finished)
      BY DEF ToClient, NamesId, Right, Finished
    <2> QED
      BY <1>2, <2>1, <2>2, <2>3, EnqueueOK
  <1>6. /\ peers = [d \in Clients |-> peers[d]] /\ peers[c] = x
        /\ \A d \in Clients \ {c} : peers[d] = pr[d]
    BY <1>3, <1>4
  <1>7. \A d \in Clients : PeerOK(store[d].ids, down[d], s.server, peers[d])
    BY <1>4, <1>5, <1>6
  <1>8. PICK u : u = [s EXCEPT !.peer = peers]
    OBVIOUS
  <1>9. ServerOK(u)
    BY <1>6, <1>7, <1>8, SetPeers
  <1>10. HandleReady(s, c) = u
    <2>1. HandleReady(s, c) = [s EXCEPT !.peer[c] = Enqueue(Greeted(@, s), Finished)]
      BY DEF HandleReady
    <2>2. s = [store |-> s.store, server |-> s.server, peer |-> pr]
      BY <1>1 DEF ServerOK
    <2> QED
      BY <1>1, <1>2, <1>3, <1>8, <2>1, <2>2
  <1> QED
    BY <1>9, <1>10

\* on_message
LEMMA HandleOK ==
    ASSUME NEW s, ServerOK(s), NEW c \in Clients, NEW m \in ToServer,
           Listening => m \in Signals,
           (m.type = "entry_create" /\ s.server.parsed = NoId) => s.server.next \in Ids,
           \A d \in Clients : down[d] \in Seq(ToClient), time \in Int
    PROVE  ServerOK(Handle(s, c, m))
  <1>1. m \in Signals => m.type \notin {"entry_create", "entry_update", "entry_delete"}
    BY DEF Signals, SyncRequest, Ready
  <1>2. CASE m.type = "entry_create"
    <2>1. m \in CreateMsg /\ ~Listening
      BY <1>1, <1>2, ToServerFacts
    <2>2. ServerOK(HandleCreate(s, c, m))
      BY <1>2, <2>1, HandleCreateOK
    <2> QED
      BY <1>2, <2>2 DEF Handle
  <1>3. CASE m.type = "entry_update"
    <2>1. m \in UpdateMsg /\ ~Listening
      BY <1>1, <1>3, ToServerFacts
    <2>2. ServerOK(HandleUpdate(s, c, m))
      BY <2>1, HandleUpdateOK
    <2> QED
      BY <1>3, <2>2 DEF Handle
  <1>4. CASE m.type = "entry_delete"
    <2>1. m \in DeletionMsg /\ ~Listening
      BY <1>1, <1>4, ToServerFacts
    <2>2. ServerOK(HandleDelete(s, c, m))
      BY <2>1, HandleDeleteOK
    <2> QED
      BY <1>4, <2>2 DEF Handle
  <1>5. CASE m.type = "handshake_ready"
    <2>1. ServerOK(HandleReady(s, c))
      BY HandleReadyOK
    <2> QED
      BY <1>5, <2>1 DEF Handle
  <1>6. CASE m.type \notin {"entry_create", "entry_update", "entry_delete", "handshake_ready"}
    BY <1>6 DEF Handle
  <1> QED
    BY <1>2, <1>3, <1>4, <1>5, <1>6

-----------------------------------------------------------------------------
(* What a client sends.                                                     *)

\* What a client says of a changed entry is a message of the protocol.
LEMMA ChangeMessageOK ==
    ASSUME NEW s, StoreInv(s), NEW h \in DOMAIN s.entries, time \in Int
    PROVE  ChangeMessage(s.entries[h]) \in ToServer
  <1>1. PICK e : e = s.entries[h]
    OBVIOUS
  <1>2. /\ e.path \in Paths /\ e.value \in AnyValue /\ e.ts \in Int
        /\ e.id \in AnyId
    BY <1>1, EntryFacts
  <1>3. Create(e.path, e.value, time) \in ToServer
    BY <1>2 DEF Create, CreateMsg, ToServer
  <1>4. e.id # NoId => /\ Deletion(e.id, e.ts) \in ToServer
                       /\ Update(e.id, e.value, e.ts) \in ToServer
    BY <1>2 DEF Deletion, Update, DeletionMsg, UpdateMsg, ToServer, AnyId
  <1>5. /\ e.id = NoId => ChangeMessage(e) = Create(e.path, e.value, time)
        /\ e.id # NoId => ChangeMessage(e) \in {Deletion(e.id, e.ts),
                                                Update(e.id, e.value, e.ts)}
    BY DEF ChangeMessage
  <1> QED
    BY <1>1, <1>3, <1>4, <1>5

\* process_storage: what each pass of the loop leaves.
LEMMA ChangePasses ==
    ASSUME NEW s, NEW n \in Nat, n = Len(s.entries)
    PROVE  \E f : /\ ChangeMessages(s) = f[n] /\ f[0] = <<>>
                  /\ \A h \in 1..n : f[h] = IF s.entries[h].dirty
                                            THEN Append(f[h - 1], ChangeMessage(s.entries[h]))
                                            ELSE f[h - 1]
  <1> DEFINE Longer(x, h) == Append(x, ChangeMessage(s.entries[h]))
  <1> DEFINE Is(g, m) ==
                g = [h \in 0..m |-> IF h = 0 THEN <<>>
                                    ELSE IF s.entries[h].dirty
                                         THEN Longer(g[h - 1], h)
                                         ELSE g[h - 1]]
  <1>1. PICK f : f = CHOOSE g : Is(g, n)
    OBVIOUS
  <1>2. ChangeMessages(s) = f[n]
    BY <1>1 DEF ChangeMessages
  <1> HIDE DEF Longer
  <1>3. \E g : Is(g, n)
    <2> DEFINE S == {m \in 0..n : \E g : Is(g, m)}
    <2>1. 0 \in S
      <3>1. Is([h \in 0..0 |-> <<>>], 0)
        OBVIOUS
      <3> HIDE DEF Is
      <3> QED
        BY <3>1
    <2>2. ASSUME NEW k \in 1..n, k - 1 \in S
          PROVE  k \in S
      <3>1. PICK g : Is(g, k - 1)
        BY <2>2
      <3>2. PICK x : x = IF s.entries[k].dirty
                         THEN Longer(g[k - 1], k) ELSE g[k - 1]
        OBVIOUS
      <3>3. PICK f2 : f2 = [h \in 0..k |-> IF h = k THEN x ELSE g[h]]
        OBVIOUS
      <3>4. \A h \in 0..(k - 1) :
               g[h] = IF h = 0 THEN <<>>
                      ELSE IF s.entries[h].dirty
                           THEN Longer(g[h - 1], h) ELSE g[h - 1]
        BY <3>1
      <3>5. \A h \in 0..(k - 1) : f2[h] = g[h]
        BY <3>3
      <3>6. f2[k] = x /\ k # 0 /\ k - 1 \in 0..(k - 1)
        BY <3>3
      <3>7. ASSUME NEW h \in 0..k
            PROVE  f2[h] = IF h = 0 THEN <<>>
                           ELSE IF s.entries[h].dirty
                                THEN Longer(f2[h - 1], h)
                                ELSE f2[h - 1]
        <4>1. CASE h = k
          BY <3>2, <3>5, <3>6, <4>1
        <4>2. CASE h # k
          <5>1. h \in 0..(k - 1) /\ (h # 0 => h - 1 \in 0..(k - 1))
            BY <4>2
          <5> QED
            BY <3>4, <3>5, <5>1
        <4> QED
          BY <4>1, <4>2
      <3>8. Is(f2, k)
        BY <3>3, <3>7
      <3> QED
        BY <3>8
    <2> HIDE DEF S
    <2>3. 0..n \subseteq S
      BY <2>1, <2>2, Induct
    <2>4. n \in S
      BY <2>3
    <2> QED
      BY <2>4 DEF S
  <1>4. Is(f, n)
    <2> HIDE DEF Is
    <2> QED
      BY <1>1, <1>3
  <1>5. f[0] = <<>>
    BY <1>4
  <1>6. \A h \in 1..n : f[h] = IF s.entries[h].dirty
                               THEN Longer(f[h - 1], h)
                               ELSE f[h - 1]
    BY <1>4
  <1> QED
    BY <1>2, <1>5, <1>6 DEF Longer

\* process_storage sends messages, and none when nothing is dirty.
LEMMA ChangeMessagesOK ==
    ASSUME NEW s, StoreInv(s), time \in Int
    PROVE  /\ ChangeMessages(s) \in Seq(ToServer)
           /\ (\A h \in DOMAIN s.entries : ~s.entries[h].dirty) => ChangeMessages(s) = <<>>
  <1>1. PICK n : n = Len(s.entries)
    OBVIOUS
  <1>2. n \in Nat /\ DOMAIN s.entries = 1..n
    BY <1>1, StoreFacts
  <1>3. PICK f : /\ ChangeMessages(s) = f[n] /\ f[0] = <<>>
                 /\ \A h \in 1..n : f[h] = IF s.entries[h].dirty
                                           THEN Append(f[h - 1], ChangeMessage(s.entries[h]))
                                           ELSE f[h - 1]
    BY <1>1, <1>2, ChangePasses
  <1> DEFINE Clean == \A h \in DOMAIN s.entries : ~s.entries[h].dirty
             S == {m \in 0..n : f[m] \in Seq(ToServer) /\ (Clean => f[m] = <<>>)}
  <1>4. 0 \in S
    <2>1. <<>> \in Seq(ToServer)
      OBVIOUS
    <2>2. 0 \in 0..n /\ f[0] = <<>>
      BY <1>2, <1>3
    <2> HIDE DEF Clean
    <2> QED
      BY <2>1, <2>2
  <1>5. ASSUME NEW k \in 1..n, k - 1 \in S
        PROVE  k \in S
    <2>1. PICK x : x = f[k - 1]
      OBVIOUS
    <2>2. x \in Seq(ToServer) /\ (Clean => x = <<>>)
      BY <1>5, <2>1
    <2>3. PICK m : m = ChangeMessage(s.entries[k])
      OBVIOUS
    <2>4. m \in ToServer
      BY <1>2, <2>3, ChangeMessageOK
    <2>5. Append(x, m) \in Seq(ToServer)
      BY <2>2, <2>4, AppendProperties
    <2>6. f[k] = IF s.entries[k].dirty THEN Append(x, m) ELSE x
      BY <1>3, <2>1, <2>3
    <2>7. f[k] \in Seq(ToServer)
      BY <2>2, <2>5, <2>6
    <2>8. Clean => f[k] = <<>>
      BY <1>2, <2>2, <2>6
    <2> HIDE DEF Clean
    <2> QED
      BY <1>2, <2>7, <2>8
  <1> HIDE DEF S
  <1>6. 0..n \subseteq S
    BY <1>2, <1>4, <1>5, Induct
  <1>7. n \in S
    BY <1>2, <1>6
  <1> QED
    BY <1>3, <1>7 DEF S
-----------------------------------------------------------------------------
(* The inductive invariant.                                                 *)

ClientType == [state: {"opening", "in_handshake_time_sync", "in_handshake", "in_use"},
               queue: Seq({Ready})]
SpentType == [writes: Nat, drops: Nat, restarts: Nat]
History == Seq([reading: Visible, at: 0..MaxTime])

\* The storages of all nodes are consistent.
Stores == store = [n \in Nodes |-> store[n]] /\ \A n \in Nodes : StoreInv(store[n])

\* What the server keeps for each client fits what the client knows and what is
\* on its way to it.
Linked ==
    /\ peer = [c \in Clients |-> peer[c]]
    /\ \A c \in Clients : PeerOK(store[c].ids, down[c], server, peer[c])

\* The connections carry messages.
Wires ==
    /\ client \in [Clients -> ClientType]
    /\ up \in [Clients -> Seq(ToServer)]
    /\ down \in [Clients -> Seq(ToClient)]

\* When only the server's program writes, all nodes mean the same by an id.
Names ==
    Listening => /\ NamesOK(store[Server], server)
                 /\ AtHome(store[Server])
                 /\ Followed(server)

\* Clients that only listen have nothing to publish, send signals only, and hold
\* their values where they belong.
Followers ==
    Listening =>
        /\ up \in [Clients -> Seq(Signals)]
        /\ \A c \in Clients :
              /\ \A h \in DOMAIN store[c].entries : ~store[c].entries[h].dirty
              /\ AtHome(store[c])

\* What the model keeps for its bounds and properties.
Books ==
    /\ time \in 1..MaxTime
    /\ written \in [Paths -> History]
    /\ missed \subseteq Paths
    /\ spent \in SpentType

IInv ==
    Stores /\ server \in ServerType /\ Linked /\ Wires /\ Names /\ Followers /\ Books

\* The server's handlers start from a state that is in order.
LEMMA ServerStateOK ==
    ASSUME IInv
    PROVE  ServerOK(ServerState)
  <1>1. Server \in Nodes
    BY DEF Nodes
  <1>2. StoreInv(store[Server])
    BY <1>1 DEF IInv, Stores
  <1>3. PICK s : s = [store |-> store[Server], server |-> server, peer |-> peer]
    OBVIOUS
  <1>4. s.store = store[Server] /\ s.server = server /\ s.peer = peer
    BY <1>3
  <1>5. ServerOK(s)
    BY <1>2, <1>3, <1>4 DEF ServerOK, IInv, Linked, Names
  <1> QED
    BY <1>3, <1>5 DEF ServerState

-----------------------------------------------------------------------------
(* Programs.                                                                *)

\* The ids keep their meaning when a call names no entry and maps no id.
LEMMA NamesKept ==
    ASSUME NEW st, StoreInv(st), NEW u, NEW sv, NamesOK(st, sv),
           Grows(st, u), u.ids = st.ids, NoneNamed(st, u)
    PROVE  NamesOK(u, sv)
  <1>1. ASSUME NEW i \in Ids, i < sv.next
        PROVE  u.ids[i] # 0 /\ u.entries[u.ids[i]].path = sv.names[i]
    <2>1. st.ids[i] # 0 /\ st.entries[st.ids[i]].path = sv.names[i]
      BY <1>1 DEF NamesOK
    <2>2. st.ids[i] \in DOMAIN st.entries
      BY <2>1 DEF StoreInv, IdIndex
    <2> QED
      BY <2>1, <2>2 DEF Grows
  <1>2. ASSUME NEW i \in Ids, ~(i < sv.next)
        PROVE  u.ids[i] = 0 /\ sv.names[i] = Absent
    BY <1>2 DEF NamesOK
  <1>3. ASSUME NEW h \in DOMAIN u.entries, u.entries[h].id # NoId
        PROVE  u.entries[h].id < sv.next /\ sv.names[u.entries[h].id] = u.entries[h].path
    <2>1. h \in DOMAIN st.entries /\ u.entries[h].id = st.entries[h].id
      BY <1>3 DEF NoneNamed
    <2>2. u.entries[h].path = st.entries[h].path
      BY <2>1 DEF Grows
    <2> QED
      BY <1>3, <2>1, <2>2 DEF NamesOK
  <1> QED
    BY <1>1, <1>2, <1>3 DEF NamesOK

\* Values stay home when the new one is written where it belongs.
LEMMA AtHomeKept ==
    ASSUME NEW st, NEW u, AtHome(st), Grows(st, u), NEW h, NEW v, Holds(st, u, h, v),
           (h \in DOMAIN u.entries /\ v \in Values) => HomeOf[v] = u.entries[h].path
    PROVE  AtHome(u)
  <1> SUFFICES ASSUME NEW g \in DOMAIN u.entries, u.entries[g].value \in Values
               PROVE  HomeOf[u.entries[g].value] = u.entries[g].path
    BY DEF AtHome
  <1>1. CASE g = h /\ u.entries[g].value = v
    BY <1>1
  <1>2. CASE g \in DOMAIN st.entries /\ u.entries[g].value = st.entries[g].value
    <2>1. u.entries[g].path = st.entries[g].path
      BY <1>2 DEF Grows
    <2> QED
      BY <1>2, <2>1 DEF AtHome
  <1>3. u.entries[g].value # Empty
    BY ValuesAssumption
  <1> QED
    BY <1>1, <1>2, <1>3 DEF Holds

\* One node's storage grew without new ids: the ids mean what they meant.
LEMMA StoreStep ==
    ASSUME IInv, NEW n \in Nodes, NEW s, store' = [store EXCEPT ![n] = s],
           Grows(store[n], s), s.ids = store[n].ids, NoneNamed(store[n], s),
           AtHome(store[n]) => AtHome(s), UNCHANGED <<server, peer, down>>
    PROVE  Stores' /\ (server \in ServerType)' /\ Linked' /\ Names'
  <1>1. store = [m \in Nodes |-> store[m]] /\ \A m \in Nodes : StoreInv(store[m])
    BY DEF IInv, Stores
  <1>2. /\ store' = [m \in Nodes |-> store'[m]] /\ store'[n] = s
        /\ \A m \in Nodes \ {n} : store'[m] = store[m]
    BY <1>1
  <1>3. Stores'
    BY <1>1, <1>2 DEF Stores, Grows
  <1>4. \A c \in Clients : store'[c].ids = store[c].ids
    BY <1>2 DEF Nodes
  <1>5. Linked'
    BY <1>4 DEF Linked, IInv
  <1>6. ASSUME Listening
        PROVE  NamesOK(store'[Server], server) /\ AtHome(store'[Server])
    <2>1. NamesOK(store[Server], server) /\ AtHome(store[Server]) /\ Server \in Nodes
      BY <1>6 DEF IInv, Names, Nodes
    <2>2. CASE n = Server
      BY <1>1, <1>2, <2>1, <2>2, NamesKept
    <2>3. CASE n # Server
      BY <1>2, <2>1, <2>3
    <2> QED
      BY <2>2, <2>3
  <1>7. ASSUME Listening, NEW c \in Clients, NEW i \in Ids, store'[c].ids[i] # 0
        PROVE  i < server.next /\ server.names[i] = store'[c].entries[store'[c].ids[i]].path
    <2>1. PICK h : h = store[c].ids[i]
      OBVIOUS
    <2>2. store'[c].ids[i] = h /\ h # 0 /\ c \in Nodes
      BY <1>4, <1>7, <2>1 DEF Nodes
    <2>3. i < server.next /\ server.names[i] = store[c].entries[h].path
      BY <1>7, <2>1, <2>2 DEF IInv, Names, Followed
    <2>4. h \in DOMAIN store[c].entries
      BY <1>1, <2>1, <2>2 DEF StoreInv, IdIndex
    <2>5. store'[c].entries[h].path = store[c].entries[h].path
      BY <1>2, <2>2, <2>4 DEF Grows
    <2> QED
      BY <2>2, <2>3, <2>5
  <1>8. Names'
    BY <1>6, <1>7 DEF Names, Followed
  <1> QED
    BY <1>3, <1>5, <1>8 DEF IInv

\* A program's write: only the storage of its node and the books change.
LEMMA WriteStep ==
    ASSUME IInv, NEW n, NEW p \in Paths, NEW s, NEW reading \in Visible,
           Write(n, p, s, reading),
           Grows(store[n], s), s.ids = store[n].ids, NoneNamed(store[n], s),
           AtHome(store[n]) => AtHome(s)
    PROVE  IInv'
  <1>1. n \in Writers /\ n \in Nodes
    BY WritersAssumption DEF Write, Nodes
  <1>2. /\ store' = [store EXCEPT ![n] = s] /\ time < MaxTime /\ time' = time + 1
        /\ written' = IF reading = latest(p) THEN written
                      ELSE [written EXCEPT ![p] = Append(@, [reading |-> reading, at |-> time])]
        /\ spent' = [spent EXCEPT !.writes = @ + 1]
        /\ UNCHANGED <<server, peer, client, up, down, missed>>
    BY DEF Write, NetworkUnchanged
  <1>3. Stores' /\ (server \in ServerType)' /\ Linked' /\ Names'
    BY <1>1, <1>2, StoreStep
  <1>4. Wires'
    BY <1>2 DEF IInv, Wires
  <1>5. Followers'
    <2>1. ASSUME Listening, NEW c \in Clients
          PROVE  store'[c] = store[c]
      BY <1>1, <1>2, <2>1, ClientsAssumption DEF Listening, IInv, Stores, Nodes
    <2> QED
      BY <1>2, <2>1 DEF IInv, Followers
  <1>6. Books'
    <2>1. /\ time \in 1..MaxTime /\ written \in [Paths -> History] /\ missed \subseteq Paths
          /\ spent \in SpentType
      BY DEF IInv, Books
    <2>2. time' \in 1..MaxTime /\ time \in 0..MaxTime
      BY <1>2, <2>1, TimeAssumption
    <2>3. [reading |-> reading, at |-> time] \in [reading: Visible, at: 0..MaxTime]
      BY <2>2
    <2>4. written' \in [Paths -> History]
      <3>1. Append(written[p], [reading |-> reading, at |-> time]) \in History
        BY <2>1, <2>3, AppendProperties DEF History
      <3> QED
        BY <1>2, <2>1, <3>1
    <2>5. spent' \in SpentType
      BY <1>2, <2>1 DEF SpentType
    <2> QED
      BY <1>2, <2>1, <2>2, <2>4, <2>5 DEF Books
  <1> QED
    BY <1>3, <1>4, <1>5, <1>6 DEF IInv

\* set_value of a program
LEMMA SetPathStep ==
    ASSUME IInv, NEW n \in Nodes, NEW v \in Values, SetPath(n, v)
    PROVE  IInv'
  <1>1. PICK p : p = HomeOf[v]
    OBVIOUS
  <1>2. p \in Paths
    BY <1>1, HomeAssumption
  <1>3. PICK st : st = store[n]
    OBVIOUS
  <1>4. StoreInv(st) /\ HasRoomFor(st, p)
    BY <1>2, <1>3, RoomForAll DEF IInv, Stores
  <1>5. PICK u : u = GetOrCreate(st, p)
    OBVIOUS
  <1>6. PICK h : h = u.paths[p]
    OBVIOUS
  <1>7. /\ Grows(st, u) /\ u.ids = st.ids
        /\ h \in DOMAIN u.entries /\ u.entries[h].path = p
        /\ Holds(st, u, h, v) /\ NoneNamed(st, u)
    BY <1>2, <1>4, <1>5, <1>6, GetOrCreateGrows
  <1>8. PICK s : s = SetEntryValue(u, h, v, time).store
    OBVIOUS
  <1>9. Grows(u, s) /\ s.ids = u.ids /\ Holds(u, s, h, v) /\ NoneNamed(u, s)
    <2>1. PICK clear \in BOOLEAN : clear = FALSE
      OBVIOUS
    <2>2. StoreInv(u) /\ v \in AnyValue /\ time \in Int
      BY <1>7 DEF Grows, AnyValue, IInv, Books
    <2>3. s = LocalSet(u, h, v, clear, time)
      BY <1>8, <2>1 DEF SetEntryValue, LocalSet
    <2> QED
      BY <1>7, <2>2, <2>3, LocalSetGrows
  <1>10. Grows(st, s) /\ Holds(st, s, h, v) /\ NoneNamed(st, s) /\ s.ids = st.ids
    BY <1>7, <1>9, GrowsFurther
  <1>11. s.entries[h].path = p
    BY <1>7, <1>9 DEF Grows
  <1>12. AtHome(st) => AtHome(s)
    BY <1>1, <1>10, <1>11, AtHomeKept
  <1>13. Write(n, p, s, v)
    BY <1>1, <1>3, <1>5, <1>6, <1>8 DEF SetPath
  <1>14. v \in Visible
    BY DEF Visible, AnyValue
  <1> QED
    BY <1>2, <1>3, <1>10, <1>12, <1>13, <1>14, WriteStep

\* The entry of a path a program can read.
LEMMA CanReadFacts ==
    ASSUME IInv, NEW n \in Nodes, NEW p \in Paths, CanRead(n, p)
    PROVE  StoreInv(store[n]) /\ store[n].paths[p] \in DOMAIN store[n].entries
  <1>1. StoreInv(store[n])
    BY DEF IInv, Stores
  <1>2. PathIndex(store[n]) /\ store[n].paths[p] # 0
    BY <1>1 DEF StoreInv, CanRead
  <1> QED
    BY <1>1, <1>2 DEF PathIndex

\* delete_entry of a program
LEMMA DeletePathStep ==
    ASSUME IInv, NEW n \in Nodes, NEW p \in Paths, DeletePath(n, p)
    PROVE  IInv'
  <1>1. PICK st, h : st = store[n] /\ h = st.paths[p]
    OBVIOUS
  <1>2. StoreInv(st) /\ h \in DOMAIN st.entries /\ time \in Int
    BY <1>1, CanReadFacts DEF DeletePath, IInv, Books
  <1>3. PICK s : s = DeleteOne(st, h, time).store
    OBVIOUS
  <1>4. Grows(st, s) /\ s.ids = st.ids /\ Holds(st, s, h, Empty) /\ NoneNamed(st, s)
    BY <1>2, <1>3, LocalDeleteGrows
  <1>5. AtHome(st) => AtHome(s)
    BY <1>4, AtHomeKept, ValuesAssumption
  <1>6. Write(n, p, s, Absent) /\ Absent \in Visible
    BY <1>1, <1>3 DEF DeletePath, Visible
  <1> QED
    BY <1>1, <1>4, <1>5, <1>6, WriteStep

\* clear of a program
LEMMA ClearPathStep ==
    ASSUME IInv, NEW n \in Nodes, NEW p \in Paths, ClearPath(n, p)
    PROVE  IInv'
  <1>1. PICK st, h : st = store[n] /\ h = st.paths[p]
    OBVIOUS
  <1>2. StoreInv(st) /\ h \in DOMAIN st.entries /\ time \in Int
    BY <1>1, CanReadFacts DEF ClearPath, IInv, Books
  <1>3. PICK s : s = ClearEntry(st, h, time).store
    OBVIOUS
  <1>4. Grows(st, s) /\ s.ids = st.ids /\ Holds(st, s, h, Empty) /\ NoneNamed(st, s)
    <2>1. PICK clear \in BOOLEAN : clear = TRUE
      OBVIOUS
    <2>2. s = LocalSet(st, h, Empty, clear, time)
      BY <1>3, <2>1 DEF ClearEntry, LocalSet
    <2>3. PICK v \in AnyValue : v = Empty
      BY DEF AnyValue
    <2>4. s = LocalSet(st, h, v, clear, time)
      BY <2>2, <2>3
    <2>5. Grows(st, s) /\ s.ids = st.ids /\ Holds(st, s, h, v) /\ NoneNamed(st, s)
      BY <1>2, <2>4, LocalSetGrows
    <2> QED
      BY <2>3, <2>5
  <1>5. AtHome(st) => AtHome(s)
    BY <1>4, AtHomeKept, ValuesAssumption
  <1>6. Write(n, p, s, Empty) /\ Empty \in Visible
    BY <1>1, <1>3 DEF ClearPath, Visible, AnyValue
  <1> QED
    BY <1>1, <1>4, <1>5, <1>6, WriteStep

\* The clock ticks.
LEMMA TickStep ==
    ASSUME IInv, Tick
    PROVE  IInv'
  <1>1. /\ time < MaxTime /\ time' = time + 1
        /\ UNCHANGED <<store, written, spent, server, peer, client, up, down, missed>>
    BY DEF Tick, NetworkUnchanged
  <1>2. Books'
    <2>1. time' \in 1..MaxTime
      BY <1>1, TimeAssumption DEF IInv, Books
    <2> QED
      BY <1>1, <2>1 DEF IInv, Books
  <1> QED
    BY <1>1, <1>2 DEF IInv, Stores, Linked, Wires, Names, Followed, Followers

-----------------------------------------------------------------------------
(* The client.                                                              *)

\* Signals are messages.
LEMMA SignalFacts ==
    /\ SyncRequest \in Signals /\ Ready \in Signals
    /\ Signals \subseteq ToServer
    /\ Seq(Signals) \subseteq Seq(ToServer) /\ Seq({Ready}) \subseteq Seq(Signals)
  <1>1. SyncRequest \in Signals /\ Ready \in Signals /\ Signals \subseteq ToServer
    BY DEF Signals, ToServer
  <1>2. {Ready} \subseteq Signals
    BY <1>1
  <1>3. ASSUME NEW S, NEW T, S \subseteq T
        PROVE  Seq(S) \subseteq Seq(T)
    <2> SUFFICES ASSUME NEW q \in Seq(S)
                 PROVE  q \in Seq(T)
      OBVIOUS
    <2>1. q \in [1..Len(q) -> T] /\ Len(q) \in Nat
      BY <1>3
    <2> QED
      BY <2>1
  <1> QED
    BY <1>1, <1>2, <1>3

\* A step of a client that sends something and changes no storage.
LEMMA SendStep ==
    ASSUME IInv, NEW c \in Clients, NEW cl \in ClientType, NEW out,
           out \in Seq(ToServer), Listening => out \in Seq(Signals),
           client' = [client EXCEPT ![c] = cl], up' = [up EXCEPT ![c] = out],
           UNCHANGED <<store, time, server, peer, down, written, missed, spent>>
    PROVE  IInv'
  <1>1. Wires'
    BY DEF IInv, Wires
  <1>2. Followers'
    BY DEF IInv, Followers
  <1>3. UNCHANGED <<store, time, server, peer, down, written, missed, spent>>
    OBVIOUS
  <1>4. Books' /\ Stores' /\ (server \in ServerType)'
    BY <1>3 DEF IInv, Books, Stores
  <1>5. Linked' /\ Names'
    BY <1>3 DEF IInv, Linked, Names, Followed
  <1> QED
    BY <1>1, <1>2, <1>4, <1>5 DEF IInv

\* What a client has in its queue and on its connection.
LEMMA ClientFacts ==
    ASSUME IInv, NEW c \in Clients
    PROVE  /\ client[c] \in ClientType
           /\ client[c].queue \in Seq({Ready})
           /\ up[c] \in Seq(ToServer) /\ down[c] \in Seq(ToClient)
           /\ Listening => up[c] \in Seq(Signals)
  BY DEF IInv, Wires, Followers, ClientType

\* The client's queue is sent, or its state changes.
LEMMA ClientTypeKept ==
    ASSUME NEW x \in ClientType
    PROVE  /\ [x EXCEPT !.queue = <<>>] \in ClientType
           /\ [x EXCEPT !.state = "opening"] \in ClientType
           /\ [x EXCEPT !.state = "in_use"] \in ClientType
           /\ [state |-> "in_handshake", queue |-> Append(x.queue, Ready)] \in ClientType
  <1>1. <<>> \in Seq({Ready})
    OBVIOUS
  <1>2. PICK S : S = Seq({Ready})
    OBVIOUS
  <1>3. x.queue \in S /\ <<>> \in S /\ Append(x.queue, Ready) \in S
    <2>1. x.queue \in Seq({Ready})
      BY DEF ClientType
    <2> QED
      BY <1>1, <1>2, <2>1, AppendProperties
  <1>4. ClientType = [state: {"opening", "in_handshake_time_sync", "in_handshake", "in_use"},
                      queue: S]
    BY <1>2 DEF ClientType
  <1> QED
    BY <1>3, <1>4

\* do_open_and_connect and on_connect
LEMMA ConnectStep ==
    ASSUME IInv, NEW c \in Clients, Connect(c)
    PROVE  IInv'
  <1>1. PICK cl : cl = [state |-> "in_handshake_time_sync", queue |-> <<>>]
    OBVIOUS
  <1>2. cl \in ClientType
    BY <1>1 DEF ClientType
  <1>3. PICK out : out = Append(up[c], SyncRequest)
    OBVIOUS
  <1>4. out \in Seq(ToServer) /\ (Listening => out \in Seq(Signals))
    BY <1>3, ClientFacts, SignalFacts, AppendProperties
  <1>5. client' = [client EXCEPT ![c] = cl] /\ up' = [up EXCEPT ![c] = out]
    BY <1>1, <1>3 DEF Connect, IInv, Wires
  <1>6. UNCHANGED <<store, time, server, peer, down, written, missed, spent>>
    BY DEF Connect
  <1> QED
    BY <1>2, <1>4, <1>5, <1>6, SendStep

\* Messages and their queue, one after the other.
LEMMA JoinOK ==
    ASSUME NEW S, NEW a \in Seq(S), NEW b \in Seq(S)
    PROVE  a \o b \in Seq(S)
  BY ConcatProperties

\* update() during the handshake
LEMMA ClientFlushStep ==
    ASSUME IInv, NEW c \in Clients, ClientFlush(c)
    PROVE  IInv'
  <1>1. PICK cl : cl = [client[c] EXCEPT !.queue = <<>>]
    OBVIOUS
  <1>2. cl \in ClientType
    BY <1>1, ClientFacts, ClientTypeKept
  <1>3. PICK out : out = up[c] \o client[c].queue
    OBVIOUS
  <1>4. out \in Seq(ToServer) /\ (Listening => out \in Seq(Signals))
    <2>1. client[c].queue \in Seq(Signals) /\ client[c].queue \in Seq(ToServer)
      BY ClientFacts, SignalFacts
    <2> QED
      BY <1>3, <2>1, ClientFacts, JoinOK
  <1>5. client' = [client EXCEPT ![c] = cl] /\ up' = [up EXCEPT ![c] = out]
    BY <1>1, <1>3 DEF ClientFlush, IInv, Wires
  <1>6. UNCHANGED <<store, time, server, peer, down, written, missed, spent>>
    BY DEF ClientFlush
  <1> QED
    BY <1>2, <1>4, <1>5, <1>6, SendStep

\* update() while in use
LEMMA ClientUpdateStep ==
    ASSUME IInv, NEW c \in Clients, ClientUpdate(c)
    PROVE  IInv'
  <1>1. PICK st, ms : st = store[c] /\ ms = ChangeMessages(st)
    OBVIOUS
  <1>2. StoreInv(st) /\ c \in Nodes /\ time \in Int
    BY <1>1 DEF IInv, Stores, Books, Nodes
  <1>3. /\ ms \in Seq(ToServer)
        /\ (\A h \in DOMAIN st.entries : ~st.entries[h].dirty) => ms = <<>>
    BY <1>1, <1>2, ChangeMessagesOK
  <1>4. PICK s : s = DirtyCleared(st)
    OBVIOUS
  <1>5. /\ Grows(st, s) /\ s.ids = st.ids /\ NoneNamed(st, s)
        /\ \A h \in DOMAIN s.entries : ~s.entries[h].dirty
        /\ Holds(st, s, 0, Empty)
    <2>1. PICK k : k = 0
      OBVIOUS
    <2>2. Holds(st, s, k, Empty)
      BY <1>2, <1>4, CleanedGrows
    <2> QED
      BY <1>2, <1>4, <2>1, <2>2, CleanedGrows
  <1>6. AtHome(st) => AtHome(s)
    BY <1>5, AtHomeKept, ValuesAssumption
  <1>7. /\ store' = [store EXCEPT ![c] = s]
        /\ up' = [up EXCEPT ![c] = (up[c] \o client[c].queue) \o ms]
        /\ client' = [client EXCEPT ![c].queue = <<>>]
        /\ UNCHANGED <<time, server, peer, down, written, missed, spent>>
    BY <1>1, <1>4 DEF ClientUpdate
  <1>8. Stores' /\ (server \in ServerType)' /\ Linked' /\ Names'
    BY <1>1, <1>2, <1>5, <1>6, <1>7, StoreStep
  <1>9. PICK out : out = (up[c] \o client[c].queue) \o ms
    OBVIOUS
  <1>10. client[c].queue \in Seq(Signals) /\ client[c].queue \in Seq(ToServer)
    BY ClientFacts, SignalFacts
  <1>11. out \in Seq(ToServer)
    BY <1>3, <1>9, <1>10, ClientFacts, JoinOK
  <1>12. Wires'
    <2>1. client' \in [Clients -> ClientType]
      <3>1. PICK cl : cl = [client[c] EXCEPT !.queue = <<>>]
        OBVIOUS
      <3>2. client' = [client EXCEPT ![c] = cl]
        BY <1>7, <3>1 DEF IInv, Wires
      <3>3. cl \in ClientType
        BY <3>1, ClientFacts, ClientTypeKept
      <3> QED
        BY <3>2, <3>3 DEF IInv, Wires
    <2>2. up' \in [Clients -> Seq(ToServer)]
      BY <1>7, <1>9, <1>11 DEF IInv, Wires
    <2> QED
      BY <1>7, <2>1, <2>2 DEF IInv, Wires
  <1>13. ASSUME Listening
         PROVE  out \in Seq(Signals)
    <2>1. ms \in Seq(Signals)
      BY <1>1, <1>3, <1>13 DEF IInv, Followers
    <2> QED
      BY <1>9, <1>10, <1>13, <2>1, ClientFacts, JoinOK
  <1>14. ASSUME Listening
         PROVE  up' \in [Clients -> Seq(Signals)]
    BY <1>7, <1>9, <1>13, <1>14 DEF IInv, Followers
  <1>15. ASSUME Listening, NEW d \in Clients
         PROVE  /\ \A h \in DOMAIN store'[d].entries : ~store'[d].entries[h].dirty
                /\ AtHome(store'[d])
    <2>1. CASE d = c
      <3>1. store'[d] = s
        BY <1>2, <1>7, <2>1 DEF IInv, Stores
      <3>2. AtHome(st)
        BY <1>1, <1>15 DEF IInv, Followers
      <3> QED
        BY <1>5, <1>6, <3>1, <3>2
    <2>2. CASE d # c
      <3>1. store'[d] = store[d]
        BY <1>7, <2>2 DEF IInv, Stores, Nodes
      <3> QED
        BY <1>15, <3>1 DEF IInv, Followers
    <2> QED
      BY <2>1, <2>2
  <1>16. Followers'
    BY <1>14, <1>15 DEF Followers
  <1>17. Books'
    BY <1>7 DEF IInv, Books
  <1> QED
    BY <1>8, <1>12, <1>16, <1>17 DEF IInv

\* The ids in one client's m_ids are assigned, to the same paths.
Follows(st, sv) ==
    \A i \in Ids : st.ids[i] # 0 => i < sv.next /\ sv.names[i] = st.entries[st.ids[i]].path

\* What a message m left of the client's storage st, where sv is the server's
\* m_id_assignments.
Received(st, m, s, sv) ==
    /\ Grows(st, s) /\ NoneSoiled(st, s)
    /\ \A i \in Ids : Assigns(m, i) => s.ids[i] # 0
    /\ Right(sv, m) /\ AtHome(st) /\ Follows(st, sv) => AtHome(s) /\ Follows(s, sv)

\* Ids keep their paths while entries do.
LEMMA FollowsKept ==
    ASSUME NEW st, StoreInv(st), NEW s, NEW sv, Grows(st, s), s.ids = st.ids,
           Follows(st, sv)
    PROVE  Follows(s, sv)
  <1> SUFFICES ASSUME NEW i \in Ids, s.ids[i] # 0
               PROVE  i < sv.next /\ sv.names[i] = s.entries[s.ids[i]].path
    BY DEF Follows
  <1>1. PICK h : h = st.ids[i]
    OBVIOUS
  <1>2. h # 0 /\ i < sv.next /\ sv.names[i] = st.entries[h].path
    BY <1>1 DEF Follows
  <1>3. h \in DOMAIN st.entries
    BY <1>1, <1>2 DEF StoreInv, IdIndex
  <1>4. s.entries[h].path = st.entries[h].path
    BY <1>3 DEF Grows
  <1> QED
    BY <1>1, <1>2, <1>4

\* on_message, entry_update
LEMMA ReceiveUpdate ==
    ASSUME NEW st, StoreInv(st), NEW m \in UpdateMsg, time \in Int, NEW sv,
           NEW s, s = OnEntryUpdated(st, m.id, m.value, m.ts, time).store
    PROVE  Received(st, m, s, sv)
  <1>1. PICK id \in Ids, v \in AnyValue, t \in Int : id = m.id /\ v = m.value /\ t = m.ts
    BY DEF UpdateMsg
  <1>2. m.type = "entry_update"
    BY DEF UpdateMsg
  <1>3. PICK h : h = st.ids[id]
    OBVIOUS
  <1>4. Grows(st, s) /\ s.ids = st.ids /\ Holds(st, s, h, v) /\ NoneSoiled(st, s)
    BY <1>1, <1>3, UpdatedGrows
  <1>5. ASSUME Right(sv, m), AtHome(st), Follows(st, sv)
        PROVE  AtHome(s)
    <2>1. ASSUME h \in DOMAIN s.entries, v \in Values
          PROVE  HomeOf[v] = s.entries[h].path
      <3>1. sv.names[id] = HomeOf[v]
        BY <1>1, <1>2, <1>5, <2>1 DEF Right
      <3>2. h # 0
        <4>1. DOMAIN s.entries = 1..Len(s.entries) /\ Len(s.entries) \in Nat
          BY <1>4, StoreFacts DEF Grows
        <4> QED
          BY <2>1, <4>1
      <3>3. sv.names[id] = st.entries[h].path /\ h \in DOMAIN st.entries
        BY <1>3, <1>5, <3>2 DEF Follows, StoreInv, IdIndex
      <3> QED
        BY <1>4, <3>1, <3>3 DEF Grows
    <2> QED
      BY <1>4, <1>5, <2>1, AtHomeKept
  <1>6. ASSUME NEW i
        PROVE  ~Assigns(m, i)
    BY <1>2 DEF Assigns
  <1> QED
    BY <1>4, <1>5, <1>6, FollowsKept DEF Received

\* on_message, entry_delete
LEMMA ReceiveDelete ==
    ASSUME NEW st, StoreInv(st), NEW m \in DeletionMsg, time \in Int, NEW sv,
           NEW s, s = OnEntryDeleted(st, m.id, m.ts, time).store
    PROVE  Received(st, m, s, sv)
  <1>1. PICK id \in Ids, t \in Int : id = m.id /\ t = m.ts
    BY DEF DeletionMsg
  <1>2. m.type = "entry_delete"
    BY DEF DeletionMsg
  <1>3. PICK h : h = st.ids[id]
    OBVIOUS
  <1>4. Grows(st, s) /\ s.ids = st.ids /\ Holds(st, s, h, Empty) /\ NoneSoiled(st, s)
    BY <1>1, <1>3, DeletedGrows
  <1>5. AtHome(st) => AtHome(s)
    BY <1>4, AtHomeKept, ValuesAssumption
  <1>6. ASSUME NEW i
        PROVE  ~Assigns(m, i)
    BY <1>2 DEF Assigns
  <1> QED
    BY <1>4, <1>5, <1>6, FollowsKept DEF Received

\* on_message, entry_id_assign
LEMMA ReceiveAssign ==
    ASSUME NEW st, StoreInv(st), NEW id \in Ids, NEW p \in Paths, NEW sv,
           NEW s, s = OnEntryIdAssigned(st, id, p),
           NEW m, m.type = "entry_id_assign", m.id = id, m.path = p
    PROVE  Received(st, m, s, sv)
  <1>1. PICK h : h = s.paths[p]
    OBVIOUS
  <1>2. HasRoomFor(st, p)
    BY RoomForAll
  <1>3. /\ Grows(st, s) /\ Holds(st, s, h, Empty) /\ NoneSoiled(st, s)
        /\ h \in DOMAIN s.entries /\ s.entries[h].path = p
        /\ s.ids = Emplace(st.ids, id, h) /\ s.ids[id] # 0
    <2>1. HasId(st, id, p, s, h) /\ Grows(st, s) /\ Holds(st, s, h, Empty) /\ NoneSoiled(st, s)
      BY <1>1, <1>2, AssignedGrows
    <2> QED
      BY <2>1 DEF HasId
  <1>4. AtHome(st) => AtHome(s)
    BY <1>3, AtHomeKept, ValuesAssumption
  <1>5. \A i \in Ids : Assigns(m, i) => s.ids[i] # 0
    BY <1>3 DEF Assigns
  <1>6. ASSUME Right(sv, m), Follows(st, sv)
        PROVE  Follows(s, sv)
    <2> SUFFICES ASSUME NEW i \in Ids, s.ids[i] # 0
                 PROVE  i < sv.next /\ sv.names[i] = s.entries[s.ids[i]].path
      BY DEF Follows
    <2>1. st.ids \in [Ids -> 0..Capacity] /\ h \in Handles
      <3>1. StoreInv(s)
        BY <1>3 DEF Grows
      <3> QED
        BY <1>3, <3>1, StoreFacts
    <2>2. /\ \A j \in Ids : st.ids[j] # 0 => s.ids[j] = st.ids[j]
          /\ \A j \in Ids \ {id} : s.ids[j] = st.ids[j]
          /\ st.ids[id] = 0 => s.ids[id] = h
      BY <1>3, <2>1, EmplaceHolds
    <2>3. CASE st.ids[i] # 0
      <3>1. PICK g : g = st.ids[i]
        OBVIOUS
      <3>2. s.ids[i] = g /\ g \in DOMAIN st.entries
        BY <2>2, <2>3, <3>1 DEF StoreInv, IdIndex
      <3>3. i < sv.next /\ sv.names[i] = st.entries[g].path
        BY <1>6, <2>3, <3>1 DEF Follows
      <3> QED
        BY <1>3, <3>2, <3>3 DEF Grows
    <2>4. CASE st.ids[i] = 0
      <3>1. i = id /\ s.ids[i] = h
        BY <2>2, <2>4
      <3>2. id < sv.next /\ sv.names[id] = p
        BY <1>6 DEF Right
      <3> QED
        BY <1>3, <3>1, <3>2
    <2> QED
      BY <2>3, <2>4
  <1> QED
    BY <1>3, <1>4, <1>5, <1>6 DEF Received

\* on_message
LEMMA ReceiveOK ==
    ASSUME NEW st, StoreInv(st), NEW m \in ToClient, time \in Int, NEW sv,
           NEW s, s = ClientStoreAfter(st, m)
    PROVE  Received(st, m, s, sv)
  <1>1. CASE m.type = "entry_update"
    <2>1. m \in UpdateMsg
      BY <1>1, ToClientFacts
    <2>2. s = OnEntryUpdated(st, m.id, m.value, m.ts, time).store
      BY <1>1 DEF ClientStoreAfter
    <2> QED
      BY <2>1, <2>2, ReceiveUpdate
  <1>2. CASE m.type = "entry_delete"
    <2>1. m \in DeletionMsg
      BY <1>2, ToClientFacts
    <2>2. s = OnEntryDeleted(st, m.id, m.ts, time).store
      BY <1>2 DEF ClientStoreAfter
    <2> QED
      BY <2>1, <2>2, ReceiveDelete
  <1>3. CASE m.type = "entry_id_assign"
    <2>1. m \in AssignMsg
      BY <1>3, ToClientFacts
    <2>2. PICK id \in Ids, p \in Paths : id = m.id /\ p = m.path
      BY <2>1 DEF AssignMsg
    <2>3. s = OnEntryIdAssigned(st, id, p)
      BY <1>3, <2>2 DEF ClientStoreAfter
    <2> QED
      BY <1>3, <2>2, <2>3, ReceiveAssign
  <1>4. CASE m.type \notin {"entry_update", "entry_delete", "entry_id_assign"}
    <2>1. s = st
      BY <1>4 DEF ClientStoreAfter
    <2>2. ASSUME NEW i
          PROVE  ~Assigns(m, i)
      BY <1>4 DEF Assigns
    <2>3. PICK k : k = 0
      OBVIOUS
    <2>4. Grows(st, st) /\ Holds(st, st, k, Empty) /\ NoneSoiled(st, st)
      BY GrowsItself
    <2> QED
      BY <2>1, <2>2, <2>4 DEF Received
  <1> QED
    BY <1>1, <1>2, <1>3, <1>4

\* Taking the first message of a connection takes it from all on its way.
LEMMA TailJoin ==
    ASSUME NEW S, NEW a \in Seq(S), a # <<>>, NEW b \in Seq(S)
    PROVE  /\ a \o b \in Seq(S) /\ a \o b # <<>>
           /\ Head(a \o b) = Head(a) /\ Tail(a \o b) = Tail(a) \o b
           /\ Tail(a) \in Seq(S) /\ Head(a) \in S
           /\ 1 \in 1..Len(a \o b) /\ (a \o b)[1] = Head(a)
  <1>1. PICK n, l : n = Len(a) /\ l = Len(b)
    OBVIOUS
  <1>2. n \in Nat /\ l \in Nat /\ n # 0
    BY <1>1, EmptySeq, LenProperties
  <1>3. PICK x : x = a \o b
    OBVIOUS
  <1>4. /\ x \in Seq(S) /\ Len(x) = n + l
        /\ \A k \in 1..(n + l) : x[k] = IF k <= n THEN a[k] ELSE b[k - n]
    BY <1>1, <1>3, ConcatProperties
  <1>5. PICK y : y = Tail(a)
    OBVIOUS
  <1>6. /\ y \in Seq(S) /\ Len(y) = n - 1 /\ Head(a) = a[1] /\ Head(a) \in S
        /\ \A k \in 1..(n - 1) : y[k] = a[k + 1]
    BY <1>1, <1>5, HeadTailProperties
  <1>7. x # <<>>
    BY <1>2, <1>4, EmptySeq
  <1>8. PICK z : z = Tail(x)
    OBVIOUS
  <1>9. /\ z \in Seq(S) /\ Len(z) = (n + l) - 1 /\ Head(x) = x[1]
        /\ \A k \in 1..((n + l) - 1) : z[k] = x[k + 1]
    BY <1>4, <1>7, <1>8, HeadTailProperties
  <1>10. PICK w : w = y \o b
    OBVIOUS
  <1>11. /\ w \in Seq(S) /\ Len(w) = (n - 1) + l
         /\ \A k \in 1..((n - 1) + l) : w[k] = IF k <= n - 1 THEN y[k] ELSE b[k - (n - 1)]
    BY <1>1, <1>6, <1>10, ConcatProperties
  <1>12. ASSUME NEW k \in 1..((n - 1) + l)
         PROVE  z[k] = w[k]
    <2>1. /\ k \in 1..((n + l) - 1) /\ k + 1 \in 1..(n + l)
          /\ (k <= n - 1) = (k + 1 <= n) /\ (k + 1) - n = k - (n - 1)
      BY <1>2
    <2>2. CASE k <= n - 1
      <3>1. k \in 1..(n - 1)
        BY <1>2, <2>2
      <3> QED
        BY <1>4, <1>6, <1>9, <1>11, <2>1, <2>2, <3>1
    <2>3. CASE ~(k <= n - 1)
      BY <1>4, <1>9, <1>11, <2>1, <2>3
    <2> QED
      BY <2>2, <2>3
  <1>13. z = w
    <2>1. Len(z) = Len(w) /\ Len(z) = (n - 1) + l
      BY <1>2, <1>9, <1>11
    <2>2. \A k \in 1..Len(z) : z[k] = w[k]
      BY <1>12, <2>1
    <2> QED
      BY <1>9, <1>11, <2>1, <2>2, SeqEqual
  <1>14. 1 \in 1..(n + l) /\ x[1] = a[1]
    <2>1. 1 \in 1..(n + l) /\ 1 <= n
      BY <1>2
    <2> QED
      BY <1>4, <2>1
  <1> QED
    BY <1>3, <1>4, <1>5, <1>6, <1>7, <1>8, <1>9, <1>10, <1>13, <1>14

\* on_message of a client
LEMMA ClientReceiveStep ==
    ASSUME IInv, NEW c \in Clients, ClientReceive(c)
    PROVE  IInv'
  <1>1. PICK st, pr, dn : st = store[c] /\ pr = peer[c] /\ dn = down[c]
    OBVIOUS
  <1>2. PICK m : m = Head(dn)
    OBVIOUS
  <1>3. PICK s : s = ClientStoreAfter(st, m)
    OBVIOUS
  <1>4. PICK cl : cl = ClientAfter(client[c], m)
    OBVIOUS
  <1>5. c \in Nodes /\ c # Server /\ StoreInv(st) /\ time \in Int
    BY <1>1, ClientsAssumption DEF IInv, Stores, Books, Nodes
  <1>6. /\ store' = [store EXCEPT ![c] = s] /\ down' = [down EXCEPT ![c] = Tail(dn)]
        /\ client' = [client EXCEPT ![c] = cl] /\ dn # <<>>
        /\ UNCHANGED <<time, server, peer, up, written, missed, spent>>
    BY <1>1, <1>2, <1>3, <1>4, <1>5 DEF ClientReceive, IInv, Stores, Wires
  <1>7. /\ pr \in PeerType /\ dn \in Seq(ToClient)
        /\ StreamOK(st.ids, server, dn \o pr.queue, pr.known)
    BY <1>1, ClientFacts DEF IInv, Linked, PeerOK
  <1>8. pr.queue \in Seq(ToClient) /\ pr.known \subseteq Ids
    BY <1>7, PeerFacts
  <1>9. PICK str : str = dn \o pr.queue
    OBVIOUS
  <1>10. /\ str \in Seq(ToClient) /\ str # <<>> /\ Head(str) = m
         /\ Tail(str) = Tail(dn) \o pr.queue /\ Tail(dn) \in Seq(ToClient)
         /\ m \in ToClient /\ 1 \in 1..Len(str) /\ str[1] = m
    <2>1. PICK b : b = pr.queue
      OBVIOUS
    <2>2. dn \in Seq(ToClient) /\ dn # <<>> /\ b \in Seq(ToClient) /\ str = dn \o b
      BY <1>6, <1>7, <1>8, <1>9, <2>1
    <2>3. str \in Seq(ToClient) /\ str # <<>> /\ Head(str) = Head(dn)
      BY <2>2, TailJoin
    <2>4. Tail(str) = Tail(dn) \o b /\ Tail(dn) \in Seq(ToClient) /\ Head(dn) \in ToClient
      BY <2>2, TailJoin
    <2>5. 1 \in 1..Len(str) /\ str[1] = Head(dn)
      BY <2>2, TailJoin
    <2> QED
      BY <1>2, <2>1, <2>3, <2>4, <2>5
  <1>11. Received(st, m, s, server)
    BY <1>3, <1>5, <1>10, ReceiveOK
  <1>12. Grows(st, s) /\ NoneSoiled(st, s) /\ \A i \in Ids : Assigns(m, i) => s.ids[i] # 0
    BY <1>11 DEF Received
  <1>13. \A i \in Ids : st.ids[i] # 0 => s.ids[i] # 0
    BY <1>12 DEF Grows
  <1>14. /\ store' = [n \in Nodes |-> store'[n]] /\ store'[c] = s
         /\ \A n \in Nodes \ {c} : store'[n] = store[n]
    BY <1>5, <1>6 DEF IInv, Stores
  <1>15. Stores'
    BY <1>12, <1>14 DEF IInv, Stores, Grows
  <1>16. down'[c] = Tail(dn) /\ \A d \in Clients \ {c} : down'[d] = down[d]
    BY <1>6 DEF IInv, Wires
  <1>17. Linked'
    <2>1. StreamOK(s.ids, server, Tail(str), pr.known)
      BY <1>7, <1>8, <1>9, <1>10, <1>12, <1>13, TailOK
    <2>2. PeerOK(store'[c].ids, down'[c], server, peer[c])
      BY <1>1, <1>7, <1>10, <1>14, <1>16, <2>1 DEF PeerOK
    <2>3. ASSUME NEW d \in Clients \ {c}
          PROVE  PeerOK(store'[d].ids, down'[d], server, peer[d])
      BY <1>14, <1>16 DEF IInv, Linked, Nodes
    <2> QED
      BY <1>6, <2>2, <2>3 DEF IInv, Linked
  <1>18. Wires'
    <2>1. cl \in ClientType
      BY <1>4, ClientFacts, ClientTypeKept DEF ClientAfter
    <2>2. client' \in [Clients -> ClientType]
      BY <1>6, <2>1 DEF IInv, Wires
    <2>3. down' \in [Clients -> Seq(ToClient)]
      BY <1>6, <1>10 DEF IInv, Wires
    <2> QED
      BY <1>6, <2>2, <2>3 DEF IInv, Wires
  <1>19. ASSUME Listening
         PROVE  AtHome(s) /\ Follows(s, server)
    <2>1. Right(server, m)
      BY <1>7, <1>9, <1>10, <1>19 DEF StreamOK, AllRight
    <2>2. AtHome(st) /\ Follows(st, server)
      BY <1>1, <1>19 DEF IInv, Followers, Names, Followed, Follows
    <2> QED
      BY <1>11, <2>1, <2>2 DEF Received
  <1>20. Names'
    <2>1. store'[Server] = store[Server]
      BY <1>5, <1>14 DEF Nodes
    <2>2. ASSUME Listening, NEW d \in Clients
          PROVE  Follows(store'[d], server)
      <3>1. CASE d = c
        BY <1>14, <1>19, <2>2, <3>1
      <3>2. CASE d # c
        <4>1. store'[d] = store[d]
          BY <1>14, <3>2 DEF Nodes
        <4> QED
          BY <2>2, <4>1 DEF IInv, Names, Followed, Follows
      <3> QED
        BY <3>1, <3>2
    <2> QED
      BY <1>6, <2>1, <2>2 DEF IInv, Names, Followed, Follows
  <1>21. Followers'
    <2>1. ASSUME Listening, NEW d \in Clients
          PROVE  /\ \A h \in DOMAIN store'[d].entries : ~store'[d].entries[h].dirty
                 /\ AtHome(store'[d])
      <3>1. CASE d = c
        <4>1. \A h \in DOMAIN st.entries : ~st.entries[h].dirty
          BY <1>1, <2>1 DEF IInv, Followers
        <4>2. \A h \in DOMAIN s.entries : ~s.entries[h].dirty
          BY <1>12, <4>1 DEF NoneSoiled
        <4> QED
          BY <1>14, <1>19, <2>1, <3>1, <4>2
      <3>2. CASE d # c
        <4>1. store'[d] = store[d]
          BY <1>14, <3>2 DEF Nodes
        <4> QED
          BY <2>1, <4>1 DEF IInv, Followers
      <3> QED
        BY <3>1, <3>2
    <2> QED
      BY <1>6, <2>1 DEF IInv, Followers
  <1>22. Books'
    BY <1>6 DEF IInv, Books
  <1> QED
    BY <1>6, <1>15, <1>17, <1>18, <1>20, <1>21, <1>22 DEF IInv

-----------------------------------------------------------------------------
(* The server.                                                              *)

\* A step of the server's looper: what it leaves of its storage and of its
\* clients is in order for what the connections hold afterwards.
LEMMA ServerStep ==
    ASSUME IInv, NEW st, StoreInv(st), NEW sv \in ServerType,
           Listening => NamesOK(st, sv) /\ AtHome(st) /\ Followed(sv),
           store' = [store EXCEPT ![Server] = st], server' = sv,
           peer' = [c \in Clients |-> peer'[c]],
           \A c \in Clients : PeerOK(store[c].ids, down'[c], sv, peer'[c]),
           down' \in [Clients -> Seq(ToClient)], up' \in [Clients -> Seq(ToServer)],
           Listening => up' \in [Clients -> Seq(Signals)],
           missed' \subseteq Paths, UNCHANGED <<time, client, written, spent>>
    PROVE  IInv'
  <1>1. /\ store' = [n \in Nodes |-> store'[n]] /\ store'[Server] = st
        /\ \A n \in Nodes \ {Server} : store'[n] = store[n]
    BY DEF IInv, Stores, Nodes
  <1>2. \A c \in Clients : store'[c] = store[c]
    BY <1>1, ClientsAssumption DEF Nodes
  <1>3. Stores'
    BY <1>1 DEF IInv, Stores
  <1>4. Linked'
    BY <1>2 DEF Linked
  <1>5. Wires'
    BY DEF IInv, Wires
  <1>6. Names'
    BY <1>1, <1>2 DEF Names, Followed
  <1>7. Followers'
    BY <1>2 DEF IInv, Followers
  <1>8. Books'
    BY DEF IInv, Books
  <1> QED
    BY <1>3, <1>4, <1>5, <1>6, <1>7, <1>8 DEF IInv

\* What is on its way without the queue, to a client of which nothing is known.
LEMMA PrefixOK ==
    ASSUME NEW ids, NEW sv, NEW a \in Seq(ToClient), NEW b \in Seq(ToClient), NEW known,
           StreamOK(ids, sv, a \o b, known)
    PROVE  StreamOK(ids, sv, a, {})
  <1>1. PICK n, l, str : n = Len(a) /\ l = Len(b) /\ str = a \o b
    OBVIOUS
  <1>2. n \in Nat /\ l \in Nat
    BY <1>1, LenProperties
  <1>3. Len(str) = n + l /\ \A k \in 1..(n + l) : str[k] = IF k <= n THEN a[k] ELSE b[k - n]
    BY <1>1, ConcatProperties
  <1>4. \A k \in 1..n : k \in 1..(n + l) /\ a[k] = str[k]
    <2>1. \A k \in 1..n : k \in 1..(n + l) /\ k <= n
      BY <1>2
    <2> QED
      BY <1>3, <2>1
  <1>5. ASSUME Orderly
        PROVE  InOrder(ids, a)
    <2> SUFFICES ASSUME NEW k \in 1..n, NamesId(a[k])
                 PROVE  Told(ids, a, a[k].id, k - 1)
      BY <1>1 DEF InOrder
    <2>1. Told(ids, str, a[k].id, k - 1)
      BY <1>1, <1>3, <1>4, <1>5 DEF StreamOK, InOrder
    <2>2. \A j \in 1..(k - 1) : j \in 1..n
      BY <1>2
    <2> QED
      BY <1>4, <2>1, <2>2 DEF Told
  <1>6. ASSUME Listening
        PROVE  AllRight(sv, a)
    BY <1>1, <1>3, <1>4, <1>6 DEF StreamOK, AllRight
  <1> QED
    BY <1>5, <1>6 DEF StreamOK, AllTold

\* Messages and nothing more.
LEMMA JoinNothing ==
    ASSUME NEW S, NEW a \in Seq(S)
    PROVE  a \o <<>> = a /\ <<>> \in Seq(S)
  BY ConcatEmptySeq

\* A client the server has just accepted: it knows nothing and gets nothing yet.
LEMMA NewPeerOK ==
    ASSUME NEW ids, NEW dn \in Seq(ToClient), NEW sv, NEW id \in Ids \cup {NoId},
           StreamOK(ids, sv, dn, {})
    PROVE  PeerOK(ids, dn, sv, [id |-> id, known |-> {}, queue |-> <<>>])
  <1>1. PICK pr : pr = [id |-> id, known |-> {}, queue |-> <<>>]
    OBVIOUS
  <1>2. pr.known = {} /\ pr.queue = <<>> /\ pr.id = id
    BY <1>1
  <1>3. pr \in PeerType
    BY <1>1 DEF PeerType
  <1>4. dn \o pr.queue = dn
    BY <1>2, JoinNothing
  <1> QED
    BY <1>1, <1>2, <1>3, <1>4 DEF PeerOK

\* on_connect
LEMMA AcceptStep ==
    ASSUME IInv, NEW c \in Clients, Accept(c)
    PROVE  IInv'
  <1>1. PICK sv : sv = [server EXCEPT !.serial = @ + 1]
    OBVIOUS
  <1>2. PICK pr : pr = [id |-> server.serial, known |-> {}, queue |-> <<>>]
    OBVIOUS
  <1>3. /\ server \in ServerType /\ ServerOK(ServerState)
        /\ peer = [d \in Clients |-> peer[d]]
        /\ \A d \in Clients : PeerOK(store[d].ids, down[d], server, peer[d])
    BY ServerStateOK DEF IInv, Linked
  <1>4. /\ peer' = [peer EXCEPT ![c] = pr] /\ server' = sv /\ server.serial \in Ids
        /\ UNCHANGED <<store, time, client, up, down, written, missed, spent>>
    <2>1. [NoPeer EXCEPT !.id = server.serial] = pr
      <3>1. PICK k, q, i : k = {} /\ q = <<>> /\ i = server.serial
        OBVIOUS
      <3>2. NoPeer = [id |-> NoId, known |-> k, queue |-> q]
        BY <3>1 DEF NoPeer
      <3>3. pr = [id |-> i, known |-> k, queue |-> q]
        BY <1>2, <3>1
      <3>4. [[id |-> NoId, known |-> k, queue |-> q] EXCEPT !.id = i] =
               [id |-> i, known |-> k, queue |-> q]
        OBVIOUS
      <3> QED
        BY <3>1, <3>2, <3>3, <3>4
    <2>2. peer' = [peer EXCEPT ![c] = [NoPeer EXCEPT !.id = server.serial]]
      BY DEF Accept
    <2>3. peer' = [peer EXCEPT ![c] = pr]
      BY <2>1, <2>2
    <2> QED
      BY <1>1, <2>3 DEF Accept
  <1>5. sv \in ServerType /\ sv.next = server.next /\ sv.names = server.names
    BY <1>1, <1>3 DEF ServerType
  <1>6. ServerState.server = server /\ ServerState.peer = peer
    BY DEF ServerState
  <1>7. \A d \in Clients : PeerOK(store[d].ids, down[d], sv, peer[d])
    <2>1. server.next \in Nat
      BY <1>3, ServerFacts
    <2>2. PICK x : x = ServerState
      OBVIOUS
    <2> QED
      BY <1>3, <1>5, <1>6, <2>1, <2>2, PeersKept
  <1>8. PeerOK(store[c].ids, down[c], sv, pr)
    <2>1. PICK old : old = peer[c]
      OBVIOUS
    <2>2. old \in PeerType /\ StreamOK(store[c].ids, sv, down[c] \o old.queue, old.known)
      BY <1>7, <2>1 DEF PeerOK
    <2>3. down[c] \in Seq(ToClient) /\ old.queue \in Seq(ToClient)
      BY <2>2, ClientFacts, PeerFacts
    <2>4. StreamOK(store[c].ids, sv, down[c], {})
      BY <2>2, <2>3, PrefixOK
    <2> QED
      BY <1>2, <1>4, <2>3, <2>4, NewPeerOK
  <1>9. /\ peer' = [d \in Clients |-> peer'[d]]
        /\ \A d \in Clients : PeerOK(store[d].ids, down'[d], sv, peer'[d])
    BY <1>3, <1>4, <1>7, <1>8
  <1>10. PICK st : st = store[Server]
    OBVIOUS
  <1>11. StoreInv(st) /\ store' = [store EXCEPT ![Server] = st]
    BY <1>4, <1>10 DEF IInv, Stores, Nodes
  <1>12. Listening => NamesOK(st, sv) /\ AtHome(st) /\ Followed(sv)
    BY <1>5, <1>10 DEF IInv, Names, NamesOK, Followed
  <1>13. /\ down' \in [Clients -> Seq(ToClient)] /\ up' \in [Clients -> Seq(ToServer)]
         /\ Listening => up' \in [Clients -> Seq(Signals)]
         /\ missed' \subseteq Paths
    BY <1>4 DEF IInv, Wires, Followers, Books
  <1> QED
    BY <1>4, <1>5, <1>9, <1>11, <1>12, <1>13, ServerStep

\* The server's state before a handler runs.
LEMMA StateFacts ==
    /\ ServerState.store = store[Server] /\ ServerState.server = server
    /\ ServerState.peer = peer
  BY DEF ServerState

\* What a state the server's handlers may leave says of its parts.
LEMMA StateParts ==
    ASSUME NEW s, ServerOK(s)
    PROVE  /\ StoreInv(s.store) /\ s.server \in ServerType
           /\ s.peer = [c \in Clients |-> s.peer[c]]
           /\ \A c \in Clients : PeerOK(store[c].ids, down[c], s.server, s.peer[c])
           /\ Listening => NamesOK(s.store, s.server) /\ AtHome(s.store) /\ Followed(s.server)
  BY DEF ServerOK

\* Reading one message leaves the rest.
LEMMA TailTyped ==
    ASSUME NEW S, NEW q \in Seq(S), q # <<>>
    PROVE  Head(q) \in S /\ Tail(q) \in Seq(S)
  BY HeadTailProperties

\* on_message of the server
LEMMA ServerReceiveStep ==
    ASSUME IInv, NEW c \in Clients, ServerReceive(c)
    PROVE  IInv'
  <1>1. PICK m : m = Head(up[c])
    OBVIOUS
  <1>2. PICK s : s = Handle(ServerState, c, m)
    OBVIOUS
  <1>3. /\ up[c] # <<>>
        /\ (m.type = "entry_create" /\ server.parsed = NoId) => server.next \in Ids
        /\ ServerBecomes(s) /\ peer' = s.peer
        /\ down' = IF m.type = "time_sync_request"
                   THEN [down EXCEPT ![c] = Append(@, SyncResponse)] ELSE down
        /\ up' = [up EXCEPT ![c] = Tail(@)] /\ missed' = missed
    BY <1>1, <1>2 DEF ServerReceive
  <1>4. /\ m \in ToServer /\ Tail(up[c]) \in Seq(ToServer)
        /\ Listening => m \in Signals /\ Tail(up[c]) \in Seq(Signals)
    BY <1>1, <1>3, ClientFacts, TailTyped
  <1>5. \A d \in Clients : down[d] \in Seq(ToClient)
    BY ClientFacts
  <1>6. ServerOK(s)
    <2>1. PICK x : x = ServerState
      OBVIOUS
    <2>2. ServerOK(x) /\ x.server = server /\ time \in Int
      BY <2>1, ServerStateOK, StateFacts DEF IInv, Books
    <2> QED
      BY <1>2, <1>3, <1>4, <1>5, <2>1, <2>2, HandleOK
  <1>7. /\ store' = [store EXCEPT ![Server] = s.store] /\ server' = s.server
        /\ UNCHANGED <<time, client, written, spent>>
    BY <1>3 DEF ServerBecomes
  <1>8. /\ StoreInv(s.store) /\ s.server \in ServerType
        /\ s.peer = [d \in Clients |-> s.peer[d]]
        /\ \A d \in Clients : PeerOK(store[d].ids, down[d], s.server, s.peer[d])
        /\ Listening => NamesOK(s.store, s.server) /\ AtHome(s.store) /\ Followed(s.server)
    BY <1>6, StateParts
  <1>9. PICK out : out = Append(down[c], SyncResponse)
    OBVIOUS
  <1>10. SyncResponse \in ToClient
    BY DEF ToClient
  <1>11. out \in Seq(ToClient)
    BY <1>5, <1>9, <1>10, AppendProperties
  <1>12. down' \in [Clients -> Seq(ToClient)]
    BY <1>3, <1>9, <1>11 DEF IInv, Wires
  <1>13. PeerOK(store[c].ids, out, s.server, s.peer[c])
    <2>1. PICK pr : pr = s.peer[c]
      OBVIOUS
    <2>2. /\ pr \in PeerType
          /\ StreamOK(store[c].ids, s.server, down[c] \o pr.queue, pr.known)
      BY <1>8, <2>1 DEF PeerOK
    <2>3. StreamOK(store[c].ids, s.server, out \o pr.queue, pr.known)
      BY <1>5, <1>9, <2>2, PeerFacts, OvertakeOK
    <2> QED
      BY <2>1, <2>2, <2>3 DEF PeerOK
  <1>14. ASSUME NEW d \in Clients
         PROVE  PeerOK(store[d].ids, down'[d], s.server, s.peer[d])
    <2>1. CASE m.type = "time_sync_request" /\ d = c
      <3>1. down'[d] = out
        BY <1>3, <1>9, <2>1 DEF IInv, Wires
      <3> QED
        BY <1>13, <2>1, <3>1
    <2>2. CASE ~(m.type = "time_sync_request" /\ d = c)
      <3>1. down'[d] = down[d]
        BY <1>3, <2>2 DEF IInv, Wires
      <3> QED
        BY <1>8, <3>1
    <2> QED
      BY <2>1, <2>2
  <1>15. /\ up' \in [Clients -> Seq(ToServer)]
         /\ Listening => up' \in [Clients -> Seq(Signals)]
         /\ missed' \subseteq Paths
    BY <1>3, <1>4 DEF IInv, Wires, Followers, Books
  <1> QED
    BY <1>3, <1>7, <1>8, <1>12, <1>14, <1>15, ServerStep

\* The paths whose changes the server is about to tell.
LEMMA DirtyPathsOK ==
    ASSUME IInv, NEW deleted
    PROVE  DirtyPaths(deleted) \subseteq Paths
  <1>1. StoreInv(store[Server])
    BY DEF IInv, Stores, Nodes
  <1> QED
    BY <1>1, StoreFacts DEF DirtyPaths, DirtyHandles, EntryType

\* What was queued is on its way: nothing changes for the client.
LEMMA FlushedOK ==
    ASSUME NEW ids, NEW dn \in Seq(ToClient), NEW sv, NEW pr, PeerOK(ids, dn, sv, pr)
    PROVE  /\ PeerOK(ids, dn \o pr.queue, sv, [pr EXCEPT !.queue = <<>>])
           /\ dn \o pr.queue \in Seq(ToClient)
  <1>1. PICK q, k, i : q = pr.queue /\ k = pr.known /\ i = pr.id
    OBVIOUS
  <1>2. pr \in PeerType /\ StreamOK(ids, sv, dn \o q, k)
    BY <1>1 DEF PeerOK
  <1>3. q \in Seq(ToClient) /\ k \subseteq Ids /\ i \in Ids \cup {NoId}
        /\ pr = [id |-> i, known |-> k, queue |-> q]
    BY <1>1, <1>2, PeerFacts
  <1>4. PICK none : none = <<>>
    OBVIOUS
  <1>5. none \in Seq(ToClient)
    BY <1>4
  <1>6. PICK new : new = [pr EXCEPT !.queue = none]
    OBVIOUS
  <1>7. new = [id |-> i, known |-> k, queue |-> none]
    BY <1>3, <1>6
  <1>8. new \in PeerType /\ new.queue = none /\ new.known = k
    BY <1>3, <1>5, <1>7 DEF PeerType
  <1>9. PICK str : str = dn \o q
    OBVIOUS
  <1>10. str \in Seq(ToClient) /\ str \o none = str
    BY <1>3, <1>4, <1>9, JoinOK, JoinNothing
  <1>11. PeerOK(ids, str, sv, new)
    BY <1>2, <1>8, <1>9, <1>10 DEF PeerOK
  <1> QED
    BY <1>1, <1>4, <1>6, <1>9, <1>10, <1>11

\* process_updates
LEMMA ServerUpdateStep ==
    ASSUME IInv, ServerUpdate
    PROVE  IInv'
  <1>1. PICK x : x = ServerState
    OBVIOUS
  <1>2. ServerOK(x) /\ x.store = store[Server] /\ x.server = server /\ time \in Int
    BY <1>1, ServerStateOK, StateFacts DEF IInv, Books
  <1>3. EnoughIds(x)
    BY <1>1, <1>2 DEF ServerUpdate, EnoughIds, Unnamed
  <1>4. \A d \in Clients : down[d] \in Seq(ToClient)
    BY ClientFacts
  <1>5. PICK u : u = PublishAll(x)
    OBVIOUS
  <1>6. ServerOK(u)
    BY <1>2, <1>3, <1>4, <1>5, PublishAllOK
  <1>7. PICK st, sv, pr : st = u.store /\ sv = u.server /\ pr = u.peer
    OBVIOUS
  <1>8. /\ StoreInv(st) /\ sv \in ServerType
        /\ \A d \in Clients : PeerOK(store[d].ids, down[d], sv, pr[d])
        /\ Listening => NamesOK(st, sv) /\ AtHome(st) /\ Followed(sv)
    BY <1>6, <1>7, StateParts
  <1>9. u = [store |-> st, server |-> sv, peer |-> pr]
    BY <1>6, <1>7 DEF ServerOK
  <1>10. PICK clean : clean = DirtyCleared(st)
    OBVIOUS
  <1>11. /\ store' = [store EXCEPT ![Server] = clean] /\ server' = sv
         /\ down' = [c \in Clients |-> down[c] \o pr[c].queue]
         /\ peer' = [c \in Clients |-> [pr[c] EXCEPT !.queue = <<>>]]
         /\ UNCHANGED <<time, client, written, spent, up>>
    <2>1. PICK w : w = [u EXCEPT !.store = DirtyCleared(@)]
      OBVIOUS
    <2>2. /\ ServerBecomes(w)
          /\ down' = [c \in Clients |-> down[c] \o pr[c].queue]
          /\ peer' = [c \in Clients |-> [pr[c] EXCEPT !.queue = <<>>]]
          /\ up' = up
      BY <1>1, <1>5, <1>7, <2>1 DEF ServerUpdate
    <2>3. w = [store |-> clean, server |-> sv, peer |-> pr]
      BY <1>9, <1>10, <2>1
    <2> QED
      BY <2>2, <2>3 DEF ServerBecomes
  <1>12. Grows(st, clean) /\ clean.ids = st.ids /\ NoneNamed(st, clean) /\ Holds(st, clean, 0, Empty)
    <2>1. PICK k : k = 0
      OBVIOUS
    <2>2. Holds(st, clean, k, Empty)
      BY <1>8, <1>10, CleanedGrows
    <2> QED
      BY <1>8, <1>10, <2>1, <2>2, CleanedGrows
  <1>13. StoreInv(clean)
    BY <1>12 DEF Grows
  <1>14. ASSUME Listening
         PROVE  NamesOK(clean, sv) /\ AtHome(clean) /\ Followed(sv)
    BY <1>8, <1>12, <1>14, NamesKept, AtHomeKept, ValuesAssumption
  <1>15. ASSUME NEW c \in Clients
         PROVE  PeerOK(store[c].ids, down'[c], sv, peer'[c]) /\ down'[c] \in Seq(ToClient)
    BY <1>4, <1>8, <1>11, FlushedOK
  <1>16. peer' = [c \in Clients |-> peer'[c]]
    BY <1>11
  <1>17. down' \in [Clients -> Seq(ToClient)]
    BY <1>11, <1>15
  <1>18. missed' \subseteq Paths
    <2>1. PICK b \in SUBSET BOOLEAN : b = {TRUE}
      OBVIOUS
    <2>2. missed \subseteq Paths /\ DirtyPaths(b) \subseteq Paths
      BY DirtyPathsOK DEF IInv, Books
    <2>3. missed' \subseteq missed \cup DirtyPaths({TRUE})
      BY DEF ServerUpdate
    <2> QED
      BY <2>1, <2>2, <2>3
  <1>19. /\ up' \in [Clients -> Seq(ToServer)]
         /\ Listening => up' \in [Clients -> Seq(Signals)]
    BY <1>11 DEF IInv, Wires, Followers
  <1> QED
    BY <1>8, <1>11, <1>13, <1>14, <1>15, <1>16, <1>17, <1>18, <1>19, ServerStep

-----------------------------------------------------------------------------
(* Failures.                                                                *)

\* What is left in a write buffer are messages.
LEMMA SuffixTyped ==
    ASSUME NEW S, NEW q \in Seq(S), NEW rest \in Suffixes(q)
    PROVE  rest \in Seq(S)
  <1>1. CASE rest = <<>>
    BY <1>1
  <1>2. ASSUME NEW l \in 1..Len(q), rest = SubSeq(q, l, Len(q))
        PROVE  rest \in Seq(S)
    <2>1. Len(q) \in Nat
      BY LenProperties
    <2>2. PICK n \in Int, k \in Int : n = Len(q) /\ k = l
      BY <2>1
    <2>3. \A i \in k..n : i \in 1..Len(q)
      BY <2>1, <2>2
    <2>4. \A i \in k..n : q[i] \in S
      BY <2>3, ElementOfSeq
    <2>5. SubSeq(q, k, n) \in Seq(S)
      BY <2>4, SubSeqProperties
    <2> QED
      BY <1>2, <2>2, <2>5
  <1> QED
    BY <1>1, <1>2 DEF Suffixes

\* A client the server knows nothing of, with nothing on its way.
LEMMA FreshOK ==
    ASSUME NEW ids, NEW sv, NEW dn, dn = <<>>, NEW pr, pr = NoPeer
    PROVE  PeerOK(ids, dn, sv, pr)
  <1>1. dn \in Seq(ToClient) /\ Len(dn) = 0
    OBVIOUS
  <1>2. StreamOK(ids, sv, dn, {})
    BY <1>1 DEF StreamOK, AllTold, InOrder, AllRight
  <1>3. PICK id \in Ids \cup {NoId} : id = NoId
    OBVIOUS
  <1>4. PeerOK(ids, dn, sv, [id |-> id, known |-> {}, queue |-> <<>>])
    BY <1>1, <1>2, NewPeerOK
  <1> QED
    BY <1>3, <1>4 DEF NoPeer

\* on_close and on_disconnect
LEMMA DisconnectStep ==
    ASSUME IInv, NEW c \in Clients, Disconnect(c)
    PROVE  IInv'
  <1>1. PICK rest \in Suffixes(up[c]) : up' = [up EXCEPT ![c] = rest]
    BY DEF Disconnect
  <1>2. /\ client' = [client EXCEPT ![c].state = "opening"]
        /\ down' = [down EXCEPT ![c] = <<>>] /\ peer' = [peer EXCEPT ![c] = NoPeer]
        /\ spent' = [spent EXCEPT !.drops = @ + 1]
        /\ UNCHANGED <<store, time, server, written>>
    BY DEF Disconnect
  <1>3. rest \in Seq(ToServer) /\ (Listening => rest \in Seq(Signals))
    BY ClientFacts, SuffixTyped
  <1>4. Stores' /\ (server \in ServerType)' /\ Names'
    BY <1>2 DEF IInv, Stores, Names, Followed
  <1>5. Linked'
    <2>1. /\ peer' = [d \in Clients |-> peer'[d]] /\ peer'[c] = NoPeer /\ down'[c] = <<>>
          /\ \A d \in Clients \ {c} : peer'[d] = peer[d] /\ down'[d] = down[d]
      BY <1>2 DEF IInv, Linked, Wires
    <2>2. PeerOK(store'[c].ids, down'[c], server', peer'[c])
      BY <2>1, FreshOK
    <2>3. ASSUME NEW d \in Clients \ {c}
          PROVE  PeerOK(store'[d].ids, down'[d], server', peer'[d])
      BY <1>2, <2>1 DEF IInv, Linked
    <2> QED
      BY <2>1, <2>2, <2>3 DEF Linked
  <1>6. Wires'
    <2>1. PICK cl : cl = [client[c] EXCEPT !.state = "opening"]
      OBVIOUS
    <2>2. client' = [client EXCEPT ![c] = cl]
      BY <1>2, <2>1 DEF IInv, Wires
    <2>3. cl \in ClientType
      BY <2>1, ClientFacts, ClientTypeKept
    <2>4. client' \in [Clients -> ClientType]
      BY <2>2, <2>3 DEF IInv, Wires
    <2>5. down' \in [Clients -> Seq(ToClient)]
      BY <1>2 DEF IInv, Wires
    <2>6. up' \in [Clients -> Seq(ToServer)]
      BY <1>1, <1>3 DEF IInv, Wires
    <2> QED
      BY <2>4, <2>5, <2>6 DEF Wires
  <1>7. Followers'
    BY <1>1, <1>2, <1>3 DEF IInv, Followers
  <1>8. Books'
    <2>1. PICK b \in SUBSET BOOLEAN : b = {TRUE}
      OBVIOUS
    <2>2. missed' \subseteq Paths
      BY DEF Disconnect, IInv, Books
    <2>3. spent' \in SpentType
      BY <1>2 DEF IInv, Books, SpentType
    <2> QED
      BY <1>2, <2>2, <2>3 DEF IInv, Books
  <1> QED
    BY <1>4, <1>5, <1>6, <1>7, <1>8 DEF IInv

\* Whoever restarts, not only the server's program writes what all read.
LEMMA RestartFacts ==
    ASSUME IInv, spent.restarts < MaxRestarts,
           spent' = [spent EXCEPT !.restarts = @ + 1],
           UNCHANGED <<time, written, missed>>
    PROVE  ~Listening /\ Books'
  <1>1. spent.restarts \in Nat
    BY DEF IInv, Books, SpentType
  <1>2. ~Listening
    BY <1>1 DEF Listening
  <1>3. spent' \in SpentType
    BY DEF IInv, Books, SpentType
  <1> QED
    BY <1>2, <1>3 DEF IInv, Books

\* A new network_server on the same storage.
LEMMA RestartServerStep ==
    ASSUME IInv, RestartServer
    PROVE  IInv'
  <1>1. ~Listening /\ Books'
    BY RestartFacts DEF RestartServer
  <1>2. /\ store' = [store EXCEPT ![Server] = NetIdsCleared(store[Server])]
        /\ peer' = [c \in Clients |-> NoPeer]
        /\ client' = [c \in Clients |-> [client[c] EXCEPT !.state = "opening"]]
        /\ down' = [c \in Clients |-> <<>>]
    BY DEF RestartServer
  <1>3. server' \in ServerType
    <2>1. PICK id \in ParserStart :
             server' = [next |-> 0, names |-> [i \in Ids |-> Absent], parsed |-> id,
                        serial |-> 0]
      BY DEF RestartServer
    <2>2. id \in Ids \cup {NoId}
      BY ParserAssumption
    <2>3. PICK names \in [Ids -> Paths \cup {Absent}] : names = [i \in Ids |-> Absent]
      OBVIOUS
    <2> QED
      BY <2>1, <2>2, <2>3 DEF ServerType
  <1>4. Stores'
    <2>1. PICK st : st = NetIdsCleared(store[Server])
      OBVIOUS
    <2>2. StoreInv(st)
      BY <2>1, NetIdsClearedOK DEF IInv, Stores, Nodes
    <2> QED
      BY <1>2, <2>1, <2>2 DEF IInv, Stores
  <1>5. Linked'
    BY <1>2, FreshOK DEF Linked
  <1>6. Wires'
    <2>1. \A c \in Clients : [client[c] EXCEPT !.state = "opening"] \in ClientType
      BY ClientFacts, ClientTypeKept
    <2>2. <<>> \in Seq(ToClient)
      OBVIOUS
    <2>3. PICK rest \in [Clients -> UNION {StillHeld(c) : c \in Clients}] :
             (\A c \in Clients : rest[c] \in StillHeld(c)) /\ up' = rest
      BY DEF RestartServer
    <2>4. ASSUME NEW c \in Clients
          PROVE  rest[c] \in Seq(ToServer)
      <3>1. up[c] \in Seq(ToServer)
        BY ClientFacts
      <3>2. rest[c] = up[c] \/ rest[c] \in Suffixes(up[c])
        BY <2>3 DEF StillHeld
      <3> QED
        BY <3>1, <3>2, SuffixTyped
    <2>5. up' \in [Clients -> Seq(ToServer)]
      BY <2>3, <2>4
    <2> QED
      BY <1>2, <2>1, <2>2, <2>5 DEF Wires
  <1>7. Names' /\ Followers'
    BY <1>1 DEF Names, Followers
  <1> QED
    BY <1>1, <1>3, <1>4, <1>5, <1>6, <1>7 DEF IInv

\* A new network_client on the same storage.
LEMMA RestartClientStep ==
    ASSUME IInv, NEW c \in Clients, RestartClient(c)
    PROVE  IInv'
  <1>1. ~Listening /\ Books'
    BY RestartFacts DEF RestartClient
  <1>2. PICK cl : cl = [state |-> "opening", queue |-> <<>>]
    OBVIOUS
  <1>3. /\ store' = [store EXCEPT ![c] = NetIdsCleared(store[c])]
        /\ peer' = [peer EXCEPT ![c] = NoPeer]
        /\ client' = [client EXCEPT ![c] = cl]
        /\ down' = [down EXCEPT ![c] = <<>>] /\ up' = [up EXCEPT ![c] = <<>>]
        /\ server' = server
    BY <1>2 DEF RestartClient
  <1>4. PICK st : st = NetIdsCleared(store[c])
    OBVIOUS
  <1>5. StoreInv(st)
    BY <1>4, NetIdsClearedOK DEF IInv, Stores, Nodes
  <1>6. Stores'
    BY <1>3, <1>4, <1>5 DEF IInv, Stores
  <1>7. /\ peer' = [d \in Clients |-> peer'[d]] /\ peer'[c] = NoPeer /\ down'[c] = <<>>
        /\ \A d \in Clients \ {c} :
              peer'[d] = peer[d] /\ down'[d] = down[d] /\ store'[d] = store[d]
    BY <1>3 DEF IInv, Linked, Wires, Stores, Nodes
  <1>8. PeerOK(store'[c].ids, down'[c], server', peer'[c])
    BY <1>7, FreshOK
  <1>9. ASSUME NEW d \in Clients \ {c}
        PROVE  PeerOK(store'[d].ids, down'[d], server', peer'[d])
    BY <1>3, <1>7 DEF IInv, Linked
  <1>10. Linked'
    BY <1>7, <1>8, <1>9 DEF Linked
  <1>11. Wires'
    <2>1. cl \in ClientType
      BY <1>2 DEF ClientType
    <2>2. <<>> \in Seq(ToClient) /\ <<>> \in Seq(ToServer)
      OBVIOUS
    <2>3. client' \in [Clients -> ClientType]
      BY <1>3, <2>1 DEF IInv, Wires
    <2>4. down' \in [Clients -> Seq(ToClient)] /\ up' \in [Clients -> Seq(ToServer)]
      BY <1>3, <2>2 DEF IInv, Wires
    <2> QED
      BY <2>3, <2>4 DEF Wires
  <1>12. Names' /\ Followers'
    BY <1>1 DEF Names, Followers
  <1> QED
    BY <1>1, <1>3, <1>6, <1>10, <1>11, <1>12 DEF IInv

-----------------------------------------------------------------------------
(* The theorems.                                                            *)

\* Before anything happens.
LEMMA InitInv == Init => IInv
  <1> SUFFICES ASSUME Init
               PROVE  IInv
    OBVIOUS
  <1>1. Stores
    BY EmptyStoreOK DEF Init, Stores
  <1>2. server \in ServerType /\ server.next = 0 /\ server.names = [i \in Ids |-> Absent]
    <2>1. PICK id \in ParserStart :
             server = [next |-> 0, names |-> [i \in Ids |-> Absent], parsed |-> id,
                       serial |-> 0]
      BY DEF Init
    <2>2. id \in Ids \cup {NoId}
      BY ParserAssumption
    <2>3. PICK names \in [Ids -> Paths \cup {Absent}] : names = [i \in Ids |-> Absent]
      OBVIOUS
    <2>4. server = [next |-> 0, names |-> names, parsed |-> id, serial |-> 0]
      BY <2>1, <2>3
    <2> QED
      BY <2>2, <2>3, <2>4 DEF ServerType
  <1>3. Linked
    BY FreshOK DEF Init, Linked
  <1>4. Wires
    <2>1. <<>> \in Seq(ToClient) /\ <<>> \in Seq(ToServer)
      OBVIOUS
    <2>2. [state |-> "opening", queue |-> <<>>] \in ClientType
      BY DEF ClientType
    <2> QED
      BY <2>1, <2>2 DEF Init, Wires
  <1>5. /\ \A n \in Nodes : store[n].entries = <<>> /\ DOMAIN store[n].entries = {}
        /\ \A n \in Nodes : \A i \in Ids : store[n].ids[i] = 0
    BY DEF Init, EmptyStore
  <1>6. Names
    <2>1. Server \in Nodes /\ Clients \subseteq Nodes
      BY DEF Nodes
    <2>2. \A i \in Ids : ~(i < 0)
      BY IdsFacts
    <2>3. NamesOK(store[Server], server)
      BY <1>2, <1>5, <2>1, <2>2 DEF NamesOK
    <2>4. AtHome(store[Server]) /\ Followed(server)
      BY <1>5, <2>1 DEF AtHome, Followed
    <2> QED
      BY <2>3, <2>4 DEF Names
  <1>7. Followers
    <2>1. <<>> \in Seq(Signals)
      OBVIOUS
    <2>2. \A c \in Clients : c \in Nodes
      BY DEF Nodes
    <2> QED
      BY <1>5, <2>1, <2>2 DEF Init, Followers, AtHome
  <1>8. Books
    <2>1. [reading |-> Absent, at |-> 0] \in [reading: Visible, at: 0..MaxTime]
      BY TimeAssumption DEF Visible
    <2>2. PICK S : S = [reading: Visible, at: 0..MaxTime]
      OBVIOUS
    <2>3. PICK x \in S : x = [reading |-> Absent, at |-> 0]
      BY <2>1, <2>2
    <2>4. <<x>> \in Seq(S)
      OBVIOUS
    <2>5. written \in [Paths -> History]
      BY <2>2, <2>3, <2>4 DEF Init, History
    <2>6. spent \in SpentType
      BY DEF Init, SpentType
    <2> QED
      BY <2>5, <2>6, TimeAssumption DEF Init, Books
  <1> QED
    BY <1>1, <1>2, <1>3, <1>4, <1>6, <1>7, <1>8 DEF IInv

\* Every step.
LEMMA StepInv == IInv /\ [Next]_vars => IInv'
  <1> SUFFICES ASSUME IInv, [Next]_vars
               PROVE  IInv'
    OBVIOUS
  <1>1. CASE ProgramNext
    <2>1. ASSUME NEW n \in Nodes, NEW v \in Values, SetPath(n, v)
          PROVE  IInv'
      BY <2>1, SetPathStep
    <2>2. ASSUME NEW n \in Nodes, NEW p \in Paths, DeletePath(n, p)
          PROVE  IInv'
      BY <2>2, DeletePathStep
    <2>3. ASSUME NEW n \in Nodes, NEW p \in Paths, ClearPath(n, p)
          PROVE  IInv'
      BY <2>3, ClearPathStep
    <2>4. CASE Tick
      BY <2>4, TickStep
    <2> QED
      BY <1>1, <2>1, <2>2, <2>3, <2>4 DEF ProgramNext
  <1>2. ASSUME NEW c \in Clients, ClientNext(c)
        PROVE  IInv'
    <2>1. CASE Connect(c)
      BY <2>1, ConnectStep
    <2>2. CASE ClientUpdate(c)
      BY <2>2, ClientUpdateStep
    <2>3. CASE ClientFlush(c)
      BY <2>3, ClientFlushStep
    <2>4. CASE ClientReceive(c)
      BY <2>4, ClientReceiveStep
    <2> QED
      BY <1>2, <2>1, <2>2, <2>3, <2>4 DEF ClientNext
  <1>3. CASE ServerNext
    <2>1. CASE ServerUpdate
      BY <2>1, ServerUpdateStep
    <2>2. ASSUME NEW c \in Clients, Accept(c)
          PROVE  IInv'
      BY <2>2, AcceptStep
    <2>3. ASSUME NEW c \in Clients, ServerReceive(c)
          PROVE  IInv'
      BY <2>3, ServerReceiveStep
    <2> QED
      BY <1>3, <2>1, <2>2, <2>3 DEF ServerNext
  <1>4. CASE FailureNext
    <2>1. ASSUME NEW c \in Clients, Disconnect(c)
          PROVE  IInv'
      BY <2>1, DisconnectStep
    <2>2. CASE RestartServer
      BY <2>2, RestartServerStep
    <2>3. ASSUME NEW c \in Clients, RestartClient(c)
          PROVE  IInv'
      BY <2>3, RestartClientStep
    <2>4. ASSUME NEW c \in Clients, ConnectFails(c)
          PROVE  IInv'
      BY <2>4
         DEF ConnectFails, IInv, Stores, Linked, Wires, Names, Followed, Followers, Books
    <2> QED
      BY <1>4, <2>1, <2>2, <2>3, <2>4 DEF FailureNext
  <1>5. CASE UNCHANGED vars
    BY <1>5 DEF vars, IInv, Stores, Linked, Wires, Names, Followed, Followers, Books
  <1> QED
    BY <1>1, <1>2, <1>3, <1>4, <1>5 DEF Next

\* The invariant of the server, its clients and what is on its way between them.
THEOREM Inductive == Spec => []IInv
  BY InitInv, StepInv, PTL DEF Spec

\* Only clients fail to connect.
StuckClients == stuck \subseteq Clients

LEMMA StuckStep == StuckClients /\ [Next]_vars => StuckClients'
  <1> SUFFICES ASSUME StuckClients, [Next]_vars
               PROVE  StuckClients'
    OBVIOUS
  <1>1. ASSUME UNCHANGED stuck
        PROVE  StuckClients'
    BY <1>1 DEF StuckClients
  <1>2. CASE ProgramNext
    BY <1>1, <1>2
       DEF ProgramNext, SetPath, DeletePath, ClearPath, Write, Tick, NetworkUnchanged
  <1>3. ASSUME NEW c \in Clients, ClientNext(c)
        PROVE  StuckClients'
    BY <1>1, <1>3 DEF ClientNext, Connect, ClientUpdate, ClientFlush, ClientReceive
  <1>4. CASE ServerNext
    BY <1>1, <1>4 DEF ServerNext, ServerUpdate, Accept, ServerReceive, ServerBecomes
  <1>5. CASE FailureNext
    BY <1>1, <1>5
       DEF FailureNext, Disconnect, ConnectFails, RestartServer, RestartClient, StuckClients
  <1>6. CASE UNCHANGED vars
    BY <1>1, <1>6 DEF vars
  <1> QED
    BY <1>2, <1>3, <1>4, <1>5, <1>6 DEF Next

\* TypeOK: the state of all nodes and of the server's bookkeeping is well formed.
THEOREM TypeCorrect == Spec => []TypeOK
  <1>1. IInv /\ StuckClients => TypeOK
    <2> SUFFICES ASSUME IInv, StuckClients
                 PROVE  TypeOK
      OBVIOUS
    <2>1. \A n \in Nodes : StoreTypeOK(store[n])
      BY DEF IInv, Stores, StoreInv
    <2>2. ASSUME NEW c \in Clients
          PROVE  /\ peer[c].id \in Ids \cup {NoId} /\ peer[c].known \subseteq Ids
                 /\ client[c].state \in
                       {"opening", "in_handshake_time_sync", "in_handshake", "in_use"}
      BY PeerFacts DEF IInv, Linked, PeerOK, Wires, ClientType
    <2>3. /\ server.next \in Nat /\ server.serial \in Nat
          /\ server.names \in [Ids -> Paths \cup {Absent}]
          /\ server.parsed \in Ids \cup {NoId}
      BY ServerFacts DEF IInv
    <2>4. /\ time \in 1..MaxTime /\ missed \subseteq Paths
          /\ \A p \in Paths : written[p] \in Seq([reading: Visible, at: 0..MaxTime])
      BY DEF IInv, Books, History
    <2> QED
      BY <2>1, <2>2, <2>3, <2>4 DEF TypeOK, StuckClients
  <1>2. Init => StuckClients
    BY DEF Init, StuckClients
  <1> QED
    BY Inductive, StuckStep, <1>1, <1>2, PTL DEF Spec

\* Whatever messages of the others its handlers apply, and across restarts, the
\* storage of every node stays consistent.
THEOREM ConsistentEverywhere == Spec => []StoresConsistent
  <1>1. IInv => StoresConsistent
    BY DEF IInv, Stores, StoreInv, StoresConsistent
  <1> QED
    BY Inductive, <1>1, PTL

\* m_published_entries only lists ids the client knows or is about to be told.
THEOREM PublishedIsTold == Spec => []KnownIsTold
  <1>1. IInv => KnownIsTold
    <2> SUFFICES ASSUME IInv, NEW c \in Clients, NEW id \in peer[c].known,
                        store[c].ids[id] = 0
                 PROVE  \E p \in Paths :
                           Assign(id, p) \in Range(down[c]) \cup Range(peer[c].queue)
      BY DEF KnownIsTold
    <2>1. PICK a, b, str : a = down[c] /\ b = peer[c].queue /\ str = a \o b
      OBVIOUS
    <2>2. PICK n, l : n = Len(a) /\ l = Len(b)
      OBVIOUS
    <2>3. /\ peer[c] \in PeerType /\ a \in Seq(ToClient) /\ b \in Seq(ToClient)
          /\ StreamOK(store[c].ids, server, str, peer[c].known)
      BY <2>1, ClientFacts, PeerFacts DEF IInv, Linked, PeerOK
    <2>4. /\ n \in Nat /\ l \in Nat /\ str \in Seq(ToClient) /\ Len(str) = n + l
          /\ \A k \in 1..(n + l) : str[k] = IF k <= n THEN a[k] ELSE b[k - n]
      <3>1. n \in Nat /\ l \in Nat
        BY <2>2, <2>3, LenProperties
      <3>2. str \in Seq(ToClient)
        BY <2>1, <2>3, JoinOK
      <3>3. Len(str) = n + l
        BY <2>1, <2>2, <2>3, ConcatProperties
      <3>4. \A k \in 1..(n + l) : str[k] = IF k <= n THEN a[k] ELSE b[k - n]
        BY <2>1, <2>2, <2>3, ConcatProperties
      <3> QED
        BY <3>1, <3>2, <3>3, <3>4
    <2>5. PICK j \in 1..(n + l) : Assigns(str[j], id)
      BY <2>3, <2>4 DEF StreamOK, AllTold, Told
    <2>6. PICK m \in ToClient : m = str[j]
      BY <2>4, ElementOfSeq
    <2>7. m.type = "entry_id_assign" /\ m.id = id
      BY <2>5, <2>6 DEF Assigns
    <2>8. PICK p \in Paths : m = Assign(id, p)
      <3>1. m \in AssignMsg
        BY <2>7, ToClientFacts
      <3> QED
        BY <2>7, <3>1 DEF AssignMsg, Assign
    <2>9. m \in Range(a) \cup Range(b)
      <3>1. DOMAIN a = 1..n /\ DOMAIN b = 1..l
        BY <2>2, <2>3, LenProperties
      <3>2. CASE j <= n
        <4>1. j \in 1..n
          BY <2>4, <3>2
        <4> QED
          BY <2>4, <2>6, <3>1, <3>2, <4>1 DEF Range
      <3>3. CASE ~(j <= n)
        <4>1. j - n \in 1..l
          BY <2>4, <3>3
        <4> QED
          BY <2>4, <2>6, <3>1, <3>3, <4>1 DEF Range
      <3> QED
        BY <3>2, <3>3
    <2> QED
      BY <2>1, <2>8, <2>9
  <1> QED
    BY Inductive, <1>1, PTL

\* A client that is alone, and clients that only listen, are told an id before
\* anything about it, and their handlers never drop an update or a deletion.  With
\* two clients that write the ids entry_create publishes are wrong, and this fails.
THEOREM IdsBeforeUpdates ==
    ASSUME Orderly
    PROVE  Spec => []IdsComeFirst
  <1>1. IInv => IdsComeFirst
    <2> SUFFICES ASSUME IInv, NEW c \in Clients, down[c] # <<>>,
                        Head(down[c]).type \in {"entry_update", "entry_delete"}
                 PROVE  store[c].ids[Head(down[c]).id] # 0
      BY DEF IdsComeFirst
    <2>1. PICK a, b, str : a = down[c] /\ b = peer[c].queue /\ str = a \o b
      OBVIOUS
    <2>2. /\ peer[c] \in PeerType /\ a \in Seq(ToClient) /\ b \in Seq(ToClient)
          /\ StreamOK(store[c].ids, server, str, peer[c].known)
      BY <2>1, ClientFacts, PeerFacts DEF IInv, Linked, PeerOK
    <2>3. PICK m : m = Head(a)
      OBVIOUS
    <2>4. 1 \in 1..Len(str) /\ str[1] = m
      <3>1. a # <<>>
        BY <2>1
      <3>2. /\ a \o b # <<>> /\ 1 \in 1..Len(a \o b)
            /\ (a \o b)[1] = Head(a) /\ Head(a) \in ToClient
        BY <2>2, <3>1, TailJoin
      <3> QED
        BY <2>1, <2>3, <3>2
    <2>5. NamesId(m)
      BY <2>1, <2>3 DEF NamesId
    <2>6. Told(store[c].ids, str, m.id, 1 - 1)
      BY <2>2, <2>4, <2>5 DEF StreamOK, InOrder
    <2>7. \A j : j \notin 1..(1 - 1)
      OBVIOUS
    <2> QED
      BY <2>1, <2>3, <2>6, <2>7 DEF Told
  <1> QED
    BY Inductive, <1>1, PTL

\* While only the server's program writes and nobody restarts, a client and the
\* server mean the same path by an id.
THEOREM IdsAgree ==
    ASSUME Listening
    PROVE  Spec => []IdsMeanTheSame
  <1>1. IInv => IdsMeanTheSame
    <2> SUFFICES ASSUME IInv, NEW c \in Clients, NEW id \in Ids, store[c].ids[id] # 0
                 PROVE  /\ store[Server].ids[id] # 0
                        /\ store[c].entries[store[c].ids[id]].path =
                              store[Server].entries[store[Server].ids[id]].path
      BY DEF IdsMeanTheSame
    <2>1. NamesOK(store[Server], server) /\ Followed(server)
      BY DEF IInv, Names
    <2>2. /\ id < server.next
          /\ server.names[id] = store[c].entries[store[c].ids[id]].path
      BY <2>1 DEF Followed
    <2> QED
      BY <2>1, <2>2 DEF NamesOK
  <1> QED
    BY Inductive, <1>1, PTL

\* Under the same conditions no value is ever read under another path than the
\* one it was written to.
THEOREM HomeIsKept ==
    ASSUME Listening
    PROVE  Spec => []ValuesStayHome
  <1>1. IInv => ValuesStayHome
    <2> SUFFICES ASSUME IInv, NEW n \in Nodes, NEW p \in Paths, ReadingAt(n, p) \in Values
                 PROVE  HomeOf[ReadingAt(n, p)] = p
      BY DEF ValuesStayHome
    <2>1. PICK st, h : st = store[n] /\ h = st.paths[p]
      OBVIOUS
    <2>2. h # 0 /\ ReadingAt(n, p) = st.entries[h].value
      BY <2>1, ValuesAssumption DEF ReadingAt, Reading
    <2>3. h \in DOMAIN st.entries /\ st.entries[h].path = p
      BY <2>1, <2>2 DEF IInv, Stores, StoreInv, PathIndex
    <2>4. AtHome(st)
      BY <2>1 DEF IInv, Names, Followers, Nodes
    <2> QED
      BY <2>2, <2>3, <2>4 DEF AtHome
  <1> QED
    BY Inductive, <1>1, PTL

-----------------------------------------------------------------------------
(* The server leads: what clients that only listen hold, and what is on its  *)
(* way to them, are readings of the server in the order it had them.         *)

\* A claim is a reading with the stamp it came with.
Claim(m) == [reading |-> IF m.type = "entry_update" THEN m.value ELSE Absent, ts |-> m.ts]

\* What an entry says, and what a storage says of a path.
Holding(e) == [reading |-> Reading(e), ts |-> e.ts]
Nothing == [reading |-> Absent, ts |-> 0]
Held(st, p) == IF st.paths[p] = 0 THEN Nothing ELSE Holding(st.entries[st.paths[p]])

\* x is the k-th reading of the history w: it was there at the time of its stamp
\* and the next was not there before.
IsAt(w, x, k) ==
    /\ w[k].reading = x.reading /\ w[k].at <= x.ts
    /\ k < Len(w) => x.ts <= w[k + 1].at

Placed(w, x) == \E k \in 1..Len(w) : IsAt(w, x, k)
Place(w, x) == CHOOSE k \in 1..Len(w) : IsAt(w, x, k)

\* The readings of a path until now, at times of their own, each a new one.
GoodHistory(w, now) ==
    /\ Len(w) # 0
    /\ \A k \in 1..Len(w) : w[k].at < now
    /\ \A k, l \in 1..Len(w) : k < l => w[k].at < w[l].at
    /\ \A k \in 1..(Len(w) - 1) : w[k].reading # w[k + 1].reading

\* The message m is about the path p.
About(names, m, p) == NamesId(m) /\ names[m.id] = p

\* A client that holds x of p, with str on its way to it, is never taken back.
InLine(w, now, names, p, x, str) ==
    /\ x.ts <= now /\ Placed(w, x)
    /\ \A j \in 1..Len(str) : About(names, str[j], p) =>
          /\ 1 <= str[j].ts /\ str[j].ts <= now
          /\ Placed(w, Claim(str[j]))
          /\ Place(w, x) <= Place(w, Claim(str[j]))
    /\ \A i, j \in 1..Len(str) :
          i < j /\ About(names, str[i], p) /\ About(names, str[j], p) =>
             Place(w, Claim(str[i])) <= Place(w, Claim(str[j]))

\* ... and what it is told of p last, or holds if it is told nothing, is r.
EndsWith(names, p, x, str, r) ==
    \/ \E j \in 1..Len(str) :
          /\ About(names, str[j], p) /\ Claim(str[j]).reading = r
          /\ \A i \in (j + 1)..Len(str) : ~About(names, str[i], p)
    \/ x.reading = r /\ \A j \in 1..Len(str) : ~About(names, str[j], p)

\* No update is refused for its type: nothing is cleared, and the values of a
\* path are of one type.
Exact == "clear" \notin Ops /\ \A u, v \in Values : HomeOf[u] = HomeOf[v] => TypeOf[u] = TypeOf[v]

\* p has an id the client was told of; p has changed since process_updates last ran.
Knows(st, known, p) == st.paths[p] # 0 /\ st.entries[st.paths[p]].id \in known
PathDirty(st, p) == st.paths[p] # 0 /\ st.entries[st.paths[p]].dirty

\* What the server's storage st holds is what its program wrote last.
Leads(st) ==
   /\ \A p \in Paths : /\ GoodHistory(written[p], time)
                       /\ Held(st, p).reading = latest(p)
                       /\ Last(written[p]).at <= Held(st, p).ts
                       /\ "clear" \notin Ops =>
                             \A k \in 1..Len(written[p]) : written[p][k].reading # Empty
   /\ \A h \in DOMAIN st.entries :
         LET e == st.entries[h]
         IN  1 <= e.ts /\ e.ts <= time /\ (~e.dirty => e.id # NoId)

\* The end of the handshake is on its way.
Finishes(str) == \E j \in 1..Len(str) : str[j] = Finished

\* The server keeps nothing for a client that is not connected; one that is
\* through its handshake, or about to be, knows all ids.
Greeting(sv, state, pr, dn) ==
    /\ pr.id = NoId => pr.known = {} /\ pr.queue = <<>> /\ dn = <<>>
    /\ state = "in_use" \/ Finishes(dn \o pr.queue) =>
          pr.id # NoId /\ \A i \in Ids : sv.names[i] # Absent => i \in pr.known

\* str, on its way to client c, takes it forward; of p it ends with what was
\* written last.  The server's names tell what the messages are about.
Forward(names, c, str) ==
    \A p \in Paths : InLine(written[p], time, names, p, Held(store[c], p), str)
Ends(names, c, str, p) == EndsWith(names, p, Held(store[c], p), str, latest(p))

\* The server has told a client that knows known of what p reads.
Due(st, gone, known, p) ==
    ~PathDirty(st, p) /\ p \notin gone /\ (Knows(st, known, p) \/ latest(p) = Absent)
Complete(st, names, gone, c, known, str) ==
    \A p \in Paths : Due(st, gone, known, p) => Ends(names, c, str, p)

\* What the server has told a client takes it forward and to what is written.
Following(st, sv, gone, c, pr, dn) ==
    /\ Greeting(sv, client[c].state, pr, dn)
    /\ Forward(sv.names, c, dn \o pr.queue)
    /\ Exact => Complete(st, sv.names, gone, c, pr.known, dn \o pr.queue)

\* The server leads, and every client follows.
JInv == /\ Leads(store[Server])
        /\ \A c \in Clients : Following(store[Server], server, missed, c, peer[c], down[c])

-----------------------------------------------------------------------------
(* Places in a history.                                                     *)

\* The readings of a history and when they came.
LEMMA HistoryFacts ==
    ASSUME NEW w \in History
    PROVE  /\ Len(w) \in Nat /\ DOMAIN w = 1..Len(w)
           /\ \A k \in 1..Len(w) : w[k].at \in Nat /\ w[k].reading \in Visible
  <1>1. PICK S : S = [reading: Visible, at: 0..MaxTime]
    OBVIOUS
  <1>2. w \in Seq(S)
    BY <1>1 DEF History
  <1>3. Len(w) \in Nat /\ DOMAIN w = 1..Len(w) /\ \A k \in 1..Len(w) : w[k] \in S
    BY <1>2, LenProperties, ElementOfSeq
  <1>4. \A y \in S : y.at \in Nat /\ y.reading \in Visible
    BY <1>1, TimeAssumption
  <1> QED
    BY <1>3, <1>4

\* A claim is at one place only.
LEMMA OnePlace ==
    ASSUME NEW w \in History, NEW now, GoodHistory(w, now), NEW x, x.ts \in Int,
           NEW k \in 1..Len(w), NEW l \in 1..Len(w), IsAt(w, x, k), IsAt(w, x, l)
    PROVE  k = l
  <1>1. Len(w) \in Nat /\ \A i \in 1..Len(w) : w[i].at \in Nat
    BY HistoryFacts
  <1>2. ASSUME NEW i \in 1..Len(w), NEW j \in 1..Len(w), i < j, IsAt(w, x, i), IsAt(w, x, j)
        PROVE  FALSE
    <2>1. i + 1 \in 1..Len(w) /\ i < Len(w) /\ i \in 1..(Len(w) - 1)
      BY <1>1, <1>2
    <2>2. x.ts <= w[i + 1].at /\ w[j].at <= x.ts
      BY <1>2, <2>1 DEF IsAt
    <2>3. ~(i + 1 < j)
      BY <1>1, <2>1, <2>2 DEF GoodHistory
    <2>4. j = i + 1
      BY <1>1, <1>2, <2>3
    <2>5. w[i].reading # w[i + 1].reading
      BY <2>1 DEF GoodHistory
    <2>6. w[i].reading = x.reading /\ w[j].reading = x.reading
      BY <1>2 DEF IsAt
    <2> QED
      BY <2>4, <2>5, <2>6
  <1> QED
    BY <1>1, <1>2

\* The place of a claim.
LEMMA PlaceFacts ==
    ASSUME NEW w \in History, NEW now, GoodHistory(w, now), NEW x, x.ts \in Int
    PROVE  /\ Placed(w, x) => Place(w, x) \in 1..Len(w) /\ IsAt(w, x, Place(w, x))
           /\ \A k \in 1..Len(w) : IsAt(w, x, k) => Placed(w, x) /\ Place(w, x) = k
  <1>1. ASSUME Placed(w, x)
        PROVE  Place(w, x) \in 1..Len(w) /\ IsAt(w, x, Place(w, x))
    BY <1>1 DEF Placed, Place
  <1>2. ASSUME NEW k \in 1..Len(w), IsAt(w, x, k)
        PROVE  Placed(w, x) /\ Place(w, x) = k
    <2>1. Placed(w, x)
      BY <1>2 DEF Placed
    <2>2. PICK l \in 1..Len(w) : l = Place(w, x) /\ IsAt(w, x, l)
      BY <1>1, <2>1
    <2>3. l = k
      BY <1>2, <2>2, OnePlace
    <2> QED
      BY <2>1, <2>2, <2>3
  <1> QED
    BY <1>1, <1>2

\* A claim of what was read last, made since, is at the end of the history.
LEMMA NewestPlace ==
    ASSUME NEW w \in History, NEW now, GoodHistory(w, now), NEW x, x.ts \in Int,
           x.reading = w[Len(w)].reading, w[Len(w)].at <= x.ts
    PROVE  Placed(w, x) /\ Place(w, x) = Len(w) /\ Len(w) \in 1..Len(w)
  <1>1. Len(w) \in 1..Len(w) /\ ~(Len(w) < Len(w))
    BY HistoryFacts DEF GoodHistory
  <1>2. IsAt(w, x, Len(w))
    BY <1>1 DEF IsAt
  <1> QED
    BY <1>1, <1>2, PlaceFacts

\* Of two claims the one that is later in time is not earlier in the history,
\* unless both are of the same reading.
LEMMA LaterPlace ==
    ASSUME NEW w \in History, NEW now, GoodHistory(w, now),
           NEW x, x.ts \in Int, Placed(w, x), NEW y, y.ts \in Int, Placed(w, y),
           y.ts < x.ts, Place(w, x) <= Place(w, y)
    PROVE  x.reading = y.reading
  <1>1. Len(w) \in Nat /\ \A i \in 1..Len(w) : w[i].at \in Nat
    BY HistoryFacts
  <1>2. PICK k \in 1..Len(w) : k = Place(w, x) /\ IsAt(w, x, k)
    BY PlaceFacts
  <1>3. PICK l \in 1..Len(w) : l = Place(w, y) /\ IsAt(w, y, l)
    BY PlaceFacts
  <1>4. k <= l
    BY <1>2, <1>3
  <1>5. ~(k < l)
    <2> SUFFICES ASSUME k < l
                 PROVE  FALSE
      OBVIOUS
    <2>1. k + 1 \in 1..Len(w) /\ k < Len(w)
      BY <1>1
    <2>2. x.ts <= w[k + 1].at /\ w[l].at <= y.ts
      BY <1>2, <1>3, <2>1 DEF IsAt
    <2>3. k + 1 < l \/ k + 1 = l
      BY <1>1
    <2>4. w[k + 1].at <= w[l].at
      BY <1>1, <2>1, <2>3 DEF GoodHistory
    <2> QED
      BY <1>1, <2>1, <2>2, <2>4
  <1>6. k = l
    BY <1>1, <1>4, <1>5
  <1> QED
    BY <1>2, <1>3, <1>6 DEF IsAt

\* What a history becomes when another reading comes at time now.
Prolonged(w, r, now) == Append(w, [reading |-> r, at |-> now])

\* Claims made until now keep their places when the history goes on.
LEMMA PlaceKept ==
    ASSUME NEW w \in History, NEW now \in Nat, GoodHistory(w, now), NEW r,
           NEW v, v = Prolonged(w, r, now), v \in History,
           r # w[Len(w)].reading
    PROVE  /\ GoodHistory(v, now + 1)
           /\ \A x : (x.ts \in Int /\ x.ts <= now /\ Placed(w, x)) =>
                        Placed(v, x) /\ Place(v, x) = Place(w, x)
  <1>1. PICK n \in Nat : n = Len(w) /\ n # 0
    BY HistoryFacts DEF GoodHistory
  <1>2. /\ Len(v) = n + 1 /\ v[n + 1] = [reading |-> r, at |-> now]
        /\ \A k \in 1..n : v[k] = w[k]
    <2>1. PICK S : S = [reading: Visible, at: 0..MaxTime]
      OBVIOUS
    <2>2. w \in Seq(S)
      BY <2>1 DEF History
    <2>3. PICK y : y = [reading |-> r, at |-> now]
      OBVIOUS
    <2>4. v = Append(w, y)
      BY <2>3 DEF Prolonged
    <2>5. Len(v) = n + 1 /\ v[n + 1] = y /\ \A k \in 1..n : v[k] = w[k]
      BY <1>1, <2>2, <2>4
    <2> QED
      BY <2>3, <2>5
  <1>3. v[n + 1].reading = r /\ v[n + 1].at = now
    BY <1>2
  <1>4. \A k \in 1..n : w[k].at \in Nat /\ w[k].at < now
    BY <1>1, HistoryFacts DEF GoodHistory
  <1>5. GoodHistory(v, now + 1)
    <2>1. \A k \in 1..(n + 1) : k \in 1..n \/ k = n + 1
      BY <1>1
    <2>2. \A k \in 1..(n + 1) : v[k].at < now + 1
      BY <1>2, <1>3, <1>4, <2>1
    <2>3. ASSUME NEW k \in 1..(n + 1), NEW l \in 1..(n + 1), k < l
          PROVE  v[k].at < v[l].at
      <3>1. k \in 1..n
        BY <1>1, <2>3
      <3>2. CASE l \in 1..n
        BY <1>1, <1>2, <2>3, <3>1, <3>2 DEF GoodHistory
      <3>3. CASE l = n + 1
        BY <1>2, <1>3, <1>4, <3>1, <3>3
      <3> QED
        BY <2>1, <3>2, <3>3
    <2>4. ASSUME NEW k \in 1..n
          PROVE  v[k].reading # v[k + 1].reading
      <3>1. CASE k = n
        BY <1>1, <1>2, <1>3, <3>1
      <3>2. CASE k # n
        <4>1. k \in 1..(n - 1) /\ k + 1 \in 1..n
          BY <1>1, <3>2
        <4> QED
          BY <1>1, <1>2, <4>1 DEF GoodHistory
      <3> QED
        BY <3>1, <3>2
    <2>5. (n + 1) - 1 = n /\ n + 1 # 0
      BY <1>1
    <2> QED
      BY <1>2, <2>2, <2>3, <2>4, <2>5 DEF GoodHistory
  <1>6. ASSUME NEW x, x.ts \in Int, x.ts <= now, Placed(w, x)
        PROVE  Placed(v, x) /\ Place(v, x) = Place(w, x)
    <2>1. PICK k \in 1..n : k = Place(w, x) /\ IsAt(w, x, k)
      BY <1>1, <1>6, PlaceFacts
    <2>2. k \in 1..Len(v)
      BY <1>1, <1>2
    <2>3. IsAt(v, x, k)
      <3>1. CASE k = n
        BY <1>1, <1>2, <1>3, <1>6, <2>1, <3>1 DEF IsAt
      <3>2. CASE k # n
        <4>1. k < n /\ k + 1 \in 1..n
          BY <1>1, <3>2
        <4> QED
          BY <1>1, <1>2, <2>1, <4>1 DEF IsAt
      <3> QED
        BY <3>1, <3>2
    <2>4. Placed(v, x) /\ Place(v, x) = k
      BY <1>5, <1>6, <2>2, <2>3, PlaceFacts
    <2> QED
      BY <2>1, <2>4
  <1> QED
    BY <1>5, <1>6

-----------------------------------------------------------------------------
(* What is on its way, path by path.                                        *)

\* A message about p says what was written last.
News(w, now, names, p, m) ==
    About(names, m, p) =>
        /\ 1 <= m.ts /\ m.ts <= now
        /\ Claim(m).reading = w[Len(w)].reading /\ w[Len(w)].at <= m.ts

\* The stamp of a message is the stamp of its claim.
LEMMA ClaimFacts ==
    ASSUME NEW m \in ToClient, NamesId(m)
    PROVE  m.ts \in Int /\ m.id \in Ids /\ Claim(m).ts = m.ts
  <1>1. m \in UpdateMsg \/ m \in DeletionMsg
    BY ToClientFacts DEF NamesId
  <1> QED
    BY <1>1 DEF Claim, UpdateMsg, DeletionMsg

\* News may follow whatever is on its way.
LEMMA LineAppend ==
    ASSUME NEW w \in History, NEW now, GoodHistory(w, now), NEW names, NEW p,
           NEW x, x.ts \in Int, NEW str \in Seq(ToClient), NEW m \in ToClient,
           InLine(w, now, names, p, x, str), News(w, now, names, p, m)
    PROVE  InLine(w, now, names, p, x, Append(str, m))
  <1>1. PICK s, n : s = Append(str, m) /\ n = Len(str)
    OBVIOUS
  <1>2. /\ n \in Nat /\ Len(s) = n + 1 /\ s[n + 1] = m
        /\ \A j \in 1..n : s[j] = str[j] /\ str[j] \in ToClient
    BY <1>1, AppendProperties, LenProperties, ElementOfSeq
  <1>3. PICK y : y = Claim(m)
    OBVIOUS
  <1>4. ASSUME About(names, m, p)
        PROVE  /\ 1 <= m.ts /\ m.ts <= now
               /\ Placed(w, y) /\ Place(w, y) = Len(w)
    <2>1. NamesId(m)
      BY <1>4 DEF About
    <2>2. m.ts \in Int /\ y.ts = m.ts
      BY <1>3, <2>1, ClaimFacts
    <2>3. /\ 1 <= m.ts /\ m.ts <= now
          /\ y.reading = w[Len(w)].reading /\ w[Len(w)].at <= y.ts
      BY <1>3, <1>4, <2>2 DEF News
    <2> QED
      BY <2>2, <2>3, NewestPlace
  <1>5. Len(w) \in Nat
    BY HistoryFacts
  <1>6. Place(w, x) \in 1..Len(w) /\ x.ts <= now /\ Placed(w, x)
    BY PlaceFacts DEF InLine
  <1>7. ASSUME NEW j \in 1..n, About(names, s[j], p)
        PROVE  /\ 1 <= s[j].ts /\ s[j].ts <= now
               /\ Placed(w, Claim(s[j])) /\ Place(w, x) <= Place(w, Claim(s[j]))
               /\ Place(w, Claim(s[j])) \in 1..Len(w)
    <2>1. PICK k : k = str[j] /\ k \in ToClient /\ s[j] = k
      BY <1>2
    <2>2. About(names, k, p)
      BY <1>7, <2>1
    <2>3. /\ 1 <= k.ts /\ k.ts <= now
          /\ Placed(w, Claim(k)) /\ Place(w, x) <= Place(w, Claim(k))
      BY <1>1, <2>1, <2>2 DEF InLine
    <2>4. Claim(k).ts \in Int
      BY <2>1, <2>2, ClaimFacts DEF About
    <2>5. Place(w, Claim(k)) \in 1..Len(w)
      BY <2>3, <2>4, PlaceFacts
    <2> QED
      BY <2>1, <2>3, <2>5
  <1>8. \A j \in 1..(n + 1) : j \in 1..n \/ j = n + 1
    BY <1>2
  <1>9. ASSUME NEW j \in 1..(n + 1), About(names, s[j], p)
        PROVE  /\ 1 <= s[j].ts /\ s[j].ts <= now
               /\ Placed(w, Claim(s[j])) /\ Place(w, x) <= Place(w, Claim(s[j]))
    <2>1. CASE j \in 1..n
      BY <1>7, <1>9, <2>1
    <2>2. CASE j = n + 1
      BY <1>2, <1>3, <1>4, <1>5, <1>6, <1>9, <2>2
    <2> QED
      BY <1>8, <2>1, <2>2
  <1>10. ASSUME NEW i \in 1..(n + 1), NEW j \in 1..(n + 1), i < j,
                About(names, s[i], p), About(names, s[j], p)
         PROVE  Place(w, Claim(s[i])) <= Place(w, Claim(s[j]))
    <2>1. i \in 1..n
      BY <1>2, <1>10
    <2>2. CASE j \in 1..n
      <3>1. s[i] = str[i] /\ s[j] = str[j]
        BY <1>2, <2>1, <2>2
      <3> QED
        BY <1>1, <1>10, <2>1, <2>2, <3>1 DEF InLine
    <2>3. CASE j = n + 1
      BY <1>2, <1>3, <1>4, <1>5, <1>7, <1>10, <2>1, <2>3
    <2> QED
      BY <1>8, <2>2, <2>3
  <1>11. \A j \in 1..Len(s) : About(names, s[j], p) =>
            /\ 1 <= s[j].ts /\ s[j].ts <= now
            /\ Placed(w, Claim(s[j])) /\ Place(w, x) <= Place(w, Claim(s[j]))
    BY <1>2, <1>9
  <1>12. \A i, j \in 1..Len(s) :
            i < j /\ About(names, s[i], p) /\ About(names, s[j], p) =>
               Place(w, Claim(s[i])) <= Place(w, Claim(s[j]))
    BY <1>2, <1>10
  <1>13. InLine(w, now, names, p, x, s)
    BY <1>6, <1>11, <1>12 DEF InLine
  <1> QED
    BY <1>1, <1>13

\* What is on its way ends as before, or with the news.
LEMMA EndAppend ==
    ASSUME NEW names, NEW p, NEW x, NEW str \in Seq(ToClient), NEW m \in ToClient, NEW r
    PROVE  /\ ~About(names, m, p) /\ EndsWith(names, p, x, str, r) =>
                 EndsWith(names, p, x, Append(str, m), r)
           /\ About(names, m, p) /\ Claim(m).reading = r =>
                 EndsWith(names, p, x, Append(str, m), r)
  <1>1. PICK s, n : s = Append(str, m) /\ n = Len(str)
    OBVIOUS
  <1>2. /\ n \in Nat /\ Len(s) = n + 1 /\ s[n + 1] = m
        /\ \A j \in 1..n : s[j] = str[j]
    BY <1>1, AppendProperties, LenProperties
  <1>3. \A j \in 1..(n + 1) : j \in 1..n \/ j = n + 1
    BY <1>2
  <1>4. ASSUME ~About(names, m, p), EndsWith(names, p, x, str, r)
        PROVE  EndsWith(names, p, x, s, r)
    <2>1. ASSUME NEW j \in 1..n, About(names, str[j], p), Claim(str[j]).reading = r,
                 \A i \in (j + 1)..n : ~About(names, str[i], p)
          PROVE  EndsWith(names, p, x, s, r)
      <3>1. j \in 1..(n + 1) /\ s[j] = str[j]
        BY <1>2
      <3>2. \A i \in (j + 1)..(n + 1) : (i \in (j + 1)..n /\ i \in 1..n) \/ i = n + 1
        BY <1>2
      <3>3. \A i \in (j + 1)..(n + 1) : ~About(names, s[i], p)
        BY <1>2, <1>4, <2>1, <3>2
      <3> QED
        BY <1>2, <2>1, <3>1, <3>3 DEF EndsWith
    <2>2. ASSUME x.reading = r, \A j \in 1..n : ~About(names, str[j], p)
          PROVE  EndsWith(names, p, x, s, r)
      <3>1. \A j \in 1..(n + 1) : ~About(names, s[j], p)
        BY <1>2, <1>3, <1>4, <2>2
      <3> QED
        BY <1>2, <2>2, <3>1 DEF EndsWith
    <2> QED
      BY <1>1, <1>4, <2>1, <2>2 DEF EndsWith
  <1>5. ASSUME About(names, m, p), Claim(m).reading = r
        PROVE  EndsWith(names, p, x, s, r)
    <2>1. n + 1 \in 1..Len(s) /\ \A i : i \notin ((n + 1) + 1)..Len(s)
      BY <1>2
    <2> QED
      BY <1>2, <1>5, <2>1 DEF EndsWith
  <1> QED
    BY <1>1, <1>4, <1>5

\* A client holding x takes the message m: it holds what m claims or what it held.
Takes(names, p, x, m, y) ==
    \/ y = x
    \/ About(names, m, p) /\ y = Claim(m)

\* Taking a message never takes a client back.
LEMMA LineTail ==
    ASSUME NEW w, NEW now, NEW names, NEW p, NEW x, NEW y,
           NEW str \in Seq(ToClient), str # <<>>,
           InLine(w, now, names, p, x, str), Takes(names, p, x, Head(str), y)
    PROVE  InLine(w, now, names, p, y, Tail(str))
  <1>1. PICK s, n, m : s = Tail(str) /\ n = Len(str) /\ m = Head(str)
    OBVIOUS
  <1>2. /\ n \in Nat /\ n # 0 /\ Len(s) = n - 1 /\ m = str[1] /\ m \in ToClient
        /\ \A j \in 1..(n - 1) : s[j] = str[j + 1]
    BY <1>1, HeadTailProperties, LenProperties, EmptySeq
  <1>3. \A j \in 1..(n - 1) : j + 1 \in 1..n /\ 1 < j + 1
    BY <1>2
  <1>4. 1 \in 1..n
    BY <1>2
  <1>5. ASSUME NEW j \in 1..(n - 1), About(names, s[j], p)
        PROVE  /\ 1 <= s[j].ts /\ s[j].ts <= now
               /\ Placed(w, Claim(s[j])) /\ Place(w, y) <= Place(w, Claim(s[j]))
    <2>1. PICK k \in 1..n : k = j + 1 /\ 1 < k /\ s[j] = str[k]
      BY <1>2, <1>3
    <2>2. /\ 1 <= str[k].ts /\ str[k].ts <= now
          /\ Placed(w, Claim(str[k])) /\ Place(w, x) <= Place(w, Claim(str[k]))
      BY <1>1, <1>5, <2>1 DEF InLine
    <2>3. CASE y = x
      BY <2>1, <2>2, <2>3
    <2>4. CASE About(names, m, p) /\ y = Claim(m)
      <3>1. Place(w, Claim(str[1])) <= Place(w, Claim(str[k]))
        BY <1>1, <1>2, <1>4, <1>5, <2>1, <2>4 DEF InLine
      <3> QED
        BY <1>2, <2>1, <2>2, <2>4, <3>1
    <2> QED
      BY <1>1, <2>3, <2>4 DEF Takes
  <1>6. ASSUME NEW i \in 1..(n - 1), NEW j \in 1..(n - 1), i < j,
               About(names, s[i], p), About(names, s[j], p)
        PROVE  Place(w, Claim(s[i])) <= Place(w, Claim(s[j]))
    <2>1. PICK k \in 1..n, l \in 1..n : k = i + 1 /\ l = j + 1 /\ k < l
      BY <1>3, <1>6
    <2>2. s[i] = str[k] /\ s[j] = str[l]
      BY <1>2, <2>1
    <2> QED
      BY <1>1, <1>6, <2>1, <2>2 DEF InLine
  <1>7. y.ts <= now /\ Placed(w, y)
    <2>1. CASE y = x
      BY <2>1 DEF InLine
    <2>2. CASE About(names, m, p) /\ y = Claim(m)
      <3>1. m.ts <= now /\ Placed(w, Claim(m))
        BY <1>1, <1>2, <1>4, <2>2 DEF InLine
      <3>2. y.ts = m.ts
        BY <1>2, <2>2, ClaimFacts DEF About
      <3> QED
        BY <2>2, <3>1, <3>2
    <2> QED
      BY <1>1, <2>1, <2>2 DEF Takes
  <1>8. \A j \in 1..Len(s) : About(names, s[j], p) =>
            /\ 1 <= s[j].ts /\ s[j].ts <= now
            /\ Placed(w, Claim(s[j])) /\ Place(w, y) <= Place(w, Claim(s[j]))
    BY <1>2, <1>5
  <1>9. \A i, j \in 1..Len(s) :
            i < j /\ About(names, s[i], p) /\ About(names, s[j], p) =>
               Place(w, Claim(s[i])) <= Place(w, Claim(s[j]))
    BY <1>2, <1>6
  <1>10. InLine(w, now, names, p, y, s)
    BY <1>7, <1>8, <1>9 DEF InLine
  <1> QED
    BY <1>1, <1>10

\* A client that keeps what it holds although it was told of the path.
Keeps(x, m) == m.ts < x.ts \/ x.reading = Claim(m).reading

\* Taking a message, a client comes to what is on its way all the same.
LEMMA EndTail ==
    ASSUME NEW w \in History, NEW now, GoodHistory(w, now), NEW names, NEW p,
           NEW x, x.ts \in Int, NEW y, NEW str \in Seq(ToClient), str # <<>>, NEW r,
           InLine(w, now, names, p, x, str), EndsWith(names, p, x, str, r),
           Takes(names, p, x, Head(str), y),
           About(names, Head(str), p) => y = Claim(Head(str)) \/ (y = x /\ Keeps(x, Head(str)))
    PROVE  EndsWith(names, p, y, Tail(str), r)
  <1>1. PICK s, n, m : s = Tail(str) /\ n = Len(str) /\ m = Head(str)
    OBVIOUS
  <1>2. /\ n \in Nat /\ n # 0 /\ Len(s) = n - 1 /\ m = str[1] /\ m \in ToClient
        /\ \A j \in 1..(n - 1) : s[j] = str[j + 1]
    BY <1>1, HeadTailProperties, LenProperties, EmptySeq
  <1>3. ASSUME NEW j \in 1..n, About(names, str[j], p), Claim(str[j]).reading = r,
               \A i \in (j + 1)..n : ~About(names, str[i], p)
        PROVE  EndsWith(names, p, y, s, r)
    <2>1. CASE j = 1
      <3>1. \A i \in 1..(n - 1) : i + 1 \in (j + 1)..n
        BY <1>2, <2>1
      <3>2. \A i \in 1..(n - 1) : ~About(names, s[i], p)
        BY <1>2, <1>3, <3>1
      <3>3. About(names, m, p) /\ Claim(m).reading = r
        BY <1>2, <1>3, <2>1
      <3>4. y.reading = r
        <4>1. CASE y = Claim(m)
          BY <3>3, <4>1
        <4>2. CASE y = x /\ m.ts < x.ts
          <5>1. 1 \in 1..Len(str) /\ About(names, str[1], p)
            BY <1>1, <1>2, <3>3
          <5>2. PICK z : z = Claim(m) /\ z.ts = m.ts /\ z.ts \in Int
            BY <1>2, <3>3, ClaimFacts DEF About
          <5>3. Placed(w, x) /\ Placed(w, z) /\ Place(w, x) <= Place(w, z)
            BY <1>2, <5>1, <5>2 DEF InLine
          <5>4. x.reading = z.reading
            BY <4>2, <5>2, <5>3, LaterPlace
          <5> QED
            BY <3>3, <4>2, <5>2, <5>4
        <4>3. CASE y = x /\ x.reading = Claim(m).reading
          BY <3>3, <4>3
        <4> QED
          BY <1>1, <3>3, <4>1, <4>2, <4>3 DEF Keeps
      <3> QED
        BY <1>2, <3>2, <3>4 DEF EndsWith
    <2>2. CASE j # 1
      <3>1. PICK k \in 1..(n - 1) : k + 1 = j
        <4>1. j - 1 \in 1..(n - 1) /\ (j - 1) + 1 = j
          BY <1>2, <2>2
        <4> QED
          BY <4>1
      <3>2. \A i \in (k + 1)..(n - 1) : i \in 1..(n - 1) /\ i + 1 \in (j + 1)..n
        BY <1>2, <3>1
      <3>3. \A i \in (k + 1)..(n - 1) : ~About(names, s[i], p)
        BY <1>2, <1>3, <3>2
      <3>4. s[k] = str[j]
        BY <1>2, <3>1
      <3> QED
        BY <1>2, <1>3, <3>3, <3>4 DEF EndsWith
    <2> QED
      BY <2>1, <2>2
  <1>4. ASSUME x.reading = r, \A j \in 1..n : ~About(names, str[j], p)
        PROVE  EndsWith(names, p, y, s, r)
    <2>1. 1 \in 1..n /\ \A j \in 1..(n - 1) : j + 1 \in 1..n
      BY <1>2
    <2>2. \A j \in 1..(n - 1) : ~About(names, s[j], p)
      BY <1>2, <1>4, <2>1
    <2>3. ~About(names, m, p)
      BY <1>2, <1>4, <2>1
    <2>4. y = x
      BY <1>1, <2>3 DEF Takes
    <2> QED
      BY <1>2, <1>4, <2>2, <2>4 DEF EndsWith
  <1>5. EndsWith(names, p, y, s, r)
    BY <1>1, <1>3, <1>4 DEF EndsWith
  <1> QED
    BY <1>1, <1>5

\* Only what is about the path counts: g finds each such message of s in str.
Finds(names, p, s, str, g) ==
    /\ \A j \in 1..Len(s) : About(names, s[j], p) =>
          g[j] \in 1..Len(str) /\ str[g[j]] = s[j]
    /\ \A i, j \in 1..Len(s) :
          i < j /\ About(names, s[i], p) /\ About(names, s[j], p) => g[i] < g[j]

\* What is about the path in s takes a client forward as it does in str.
LEMMA LineSame ==
    ASSUME NEW w, NEW now, NEW names, NEW p, NEW x, NEW str, NEW s, NEW g,
           Finds(names, p, s, str, g), InLine(w, now, names, p, x, str)
    PROVE  InLine(w, now, names, p, x, s)
  <1>1. ASSUME NEW j \in 1..Len(s), About(names, s[j], p)
        PROVE  /\ 1 <= s[j].ts /\ s[j].ts <= now
               /\ Placed(w, Claim(s[j])) /\ Place(w, x) <= Place(w, Claim(s[j]))
    <2>1. PICK k \in 1..Len(str) : k = g[j] /\ str[k] = s[j]
      BY <1>1 DEF Finds
    <2> QED
      BY <1>1, <2>1 DEF InLine
  <1>2. ASSUME NEW i \in 1..Len(s), NEW j \in 1..Len(s), i < j,
               About(names, s[i], p), About(names, s[j], p)
        PROVE  Place(w, Claim(s[i])) <= Place(w, Claim(s[j]))
    <2>1. PICK k \in 1..Len(str) : k = g[i] /\ str[k] = s[i]
      BY <1>2 DEF Finds
    <2>2. PICK l \in 1..Len(str) : l = g[j] /\ str[l] = s[j]
      BY <1>2 DEF Finds
    <2>3. k < l
      BY <1>2, <2>1, <2>2 DEF Finds
    <2> QED
      BY <1>2, <2>1, <2>2, <2>3 DEF InLine
  <1>3. x.ts <= now /\ Placed(w, x)
    BY DEF InLine
  <1> QED
    BY <1>1, <1>2, <1>3 DEF InLine

\* ... and to the same reading, when s has all of it.
LEMMA EndSame ==
    ASSUME NEW names, NEW p, NEW x, NEW str, NEW s, NEW g, NEW r,
           Finds(names, p, s, str, g),
           \A k \in 1..Len(str) : About(names, str[k], p) =>
              \E j \in 1..Len(s) : g[j] = k /\ s[j] = str[k],
           EndsWith(names, p, x, str, r), Len(s) \in Nat, Len(str) \in Nat
    PROVE  EndsWith(names, p, x, s, r)
  <1>1. ASSUME NEW k \in 1..Len(str), About(names, str[k], p), Claim(str[k]).reading = r,
               \A i \in (k + 1)..Len(str) : ~About(names, str[i], p)
        PROVE  EndsWith(names, p, x, s, r)
    <2>1. PICK j \in 1..Len(s) : g[j] = k /\ s[j] = str[k]
      BY <1>1
    <2>2. ASSUME NEW i \in (j + 1)..Len(s), About(names, s[i], p)
          PROVE  FALSE
      <3>1. i \in 1..Len(s) /\ j < i
        OBVIOUS
      <3>2. g[j] < g[i] /\ g[i] \in 1..Len(str) /\ str[g[i]] = s[i]
        BY <1>1, <2>1, <2>2, <3>1 DEF Finds
      <3>3. g[i] \in (k + 1)..Len(str)
        BY <2>1, <3>2
      <3> QED
        BY <1>1, <2>2, <3>2, <3>3
    <2> QED
      BY <1>1, <2>1, <2>2 DEF EndsWith
  <1>2. ASSUME x.reading = r, \A k \in 1..Len(str) : ~About(names, str[k], p)
        PROVE  EndsWith(names, p, x, s, r)
    <2>1. \A j \in 1..Len(s) : ~About(names, s[j], p)
      BY <1>2 DEF Finds
    <2> QED
      BY <1>2, <2>1 DEF EndsWith
  <1> QED
    BY <1>1, <1>2 DEF EndsWith

\* The answer to a time sync request is about no path.
LEMMA LineOvertake ==
    ASSUME NEW w, NEW now, NEW names, NEW p, NEW x,
           NEW a \in Seq(ToClient), NEW b \in Seq(ToClient)
    PROVE  /\ InLine(w, now, names, p, x, a \o b) =>
                 InLine(w, now, names, p, x, Append(a, SyncResponse) \o b)
           /\ \A r : EndsWith(names, p, x, a \o b, r) =>
                 EndsWith(names, p, x, Append(a, SyncResponse) \o b, r)
           /\ Finishes(Append(a, SyncResponse) \o b) => Finishes(a \o b)
  <1>1. PICK str, s, n, l : /\ str = a \o b /\ s = Append(a, SyncResponse) \o b
                            /\ n = Len(a) /\ l = Len(b)
    OBVIOUS
  <1>2. n \in Nat /\ l \in Nat
    BY <1>1, LenProperties
  <1>3. PICK a1 : a1 = Append(a, SyncResponse)
    OBVIOUS
  <1>4. SyncResponse \in ToClient /\ SyncResponse.type = "time_sync_response"
    BY DEF ToClient, SyncResponse
  <1>5. /\ a1 \in Seq(ToClient) /\ Len(a1) = n + 1 /\ a1[n + 1] = SyncResponse
        /\ \A k \in 1..n : a1[k] = a[k]
    BY <1>1, <1>3, <1>4, AppendProperties
  <1>6. /\ str \in Seq(ToClient) /\ Len(str) = n + l
        /\ \A k \in 1..(n + l) : str[k] = IF k <= n THEN a[k] ELSE b[k - n]
    BY <1>1, ConcatProperties
  <1>7. /\ s \in Seq(ToClient) /\ Len(s) = (n + 1) + l
        /\ \A k \in 1..((n + 1) + l) : s[k] = IF k <= n + 1 THEN a1[k] ELSE b[k - (n + 1)]
    BY <1>1, <1>3, <1>5, ConcatProperties
  <1>8. s[n + 1] = SyncResponse
    BY <1>2, <1>5, <1>7
  <1>9. PICK g : g = [j \in 1..((n + 1) + l) |-> IF j <= n THEN j ELSE j - 1]
    OBVIOUS
  <1>10. ASSUME NEW j \in 1..((n + 1) + l), j # n + 1
         PROVE  g[j] \in 1..(n + l) /\ str[g[j]] = s[j] /\ g[j] = IF j <= n THEN j ELSE j - 1
    <2>1. CASE j <= n
      <3>1. g[j] = j /\ j \in 1..(n + l) /\ j \in 1..n /\ j <= n + 1
        BY <1>2, <1>9, <2>1
      <3> QED
        BY <1>5, <1>6, <1>7, <2>1, <3>1
    <2>2. CASE ~(j <= n)
      <3>1. /\ g[j] = j - 1 /\ j - 1 \in 1..(n + l) /\ ~(j <= n + 1) /\ ~(j - 1 <= n)
            /\ (j - 1) - n = j - (n + 1)
        BY <1>2, <1>9, <1>10, <2>2
      <3> QED
        BY <1>6, <1>7, <2>2, <3>1
    <2> QED
      BY <2>1, <2>2
  <1>11. \A j \in 1..((n + 1) + l) : About(names, s[j], p) => j # n + 1
    BY <1>4, <1>8 DEF About, NamesId
  <1>12. Finds(names, p, s, str, g)
    <2>1. ASSUME NEW i \in 1..((n + 1) + l), NEW j \in 1..((n + 1) + l), i < j,
                 i # n + 1, j # n + 1
          PROVE  g[i] < g[j]
      <3>1. g[i] = IF i <= n THEN i ELSE i - 1
        BY <1>10, <2>1
      <3>2. g[j] = IF j <= n THEN j ELSE j - 1
        BY <1>10, <2>1
      <3> QED
        BY <1>2, <2>1, <3>1, <3>2
    <2> QED
      BY <1>6, <1>7, <1>10, <1>11, <2>1 DEF Finds
  <1>13. ASSUME NEW k \in 1..(n + l)
         PROVE  \E j \in 1..((n + 1) + l) : g[j] = k /\ s[j] = str[k]
    <2>1. PICK j \in 1..((n + 1) + l) : j = (IF k <= n THEN k ELSE k + 1) /\ j # n + 1
      <3>1. (IF k <= n THEN k ELSE k + 1) \in 1..((n + 1) + l)
        BY <1>2
      <3>2. (IF k <= n THEN k ELSE k + 1) # n + 1
        BY <1>2
      <3> QED
        BY <3>1, <3>2
    <2>2. g[j] = k
      BY <1>2, <1>10, <2>1
    <2>3. s[j] = str[k]
      BY <1>10, <2>1, <2>2
    <2> QED
      BY <2>2, <2>3
  <1>14. InLine(w, now, names, p, x, str) => InLine(w, now, names, p, x, s)
    BY <1>12, LineSame
  <1>15. ASSUME NEW r, EndsWith(names, p, x, str, r)
         PROVE  EndsWith(names, p, x, s, r)
    <2>1. \A k \in 1..Len(str) : About(names, str[k], p) =>
              \E j \in 1..Len(s) : g[j] = k /\ s[j] = str[k]
      BY <1>6, <1>7, <1>13
    <2>2. Len(s) \in Nat /\ Len(str) \in Nat
      BY <1>2, <1>6, <1>7
    <2> QED
      BY <1>12, <1>15, <2>1, <2>2, EndSame
  <1>16. Finishes(s) => Finishes(str)
    <2> SUFFICES ASSUME NEW j \in 1..Len(s), s[j] = Finished
                 PROVE  Finishes(str)
      BY DEF Finishes
    <2>1. j \in 1..((n + 1) + l) /\ j # n + 1
      BY <1>7, <1>8 DEF SyncResponse, Finished
    <2>2. g[j] \in 1..Len(str) /\ str[g[j]] = s[j]
      BY <1>6, <1>10, <2>1
    <2> QED
      BY <2>2 DEF Finishes
  <1> QED
    BY <1>1, <1>14, <1>15, <1>16

\* Names that mean the same in all that is on its way.
LEMMA LineRenamed ==
    ASSUME NEW w, NEW now, NEW names, NEW new, NEW p, NEW x, NEW str,
           \A j \in 1..Len(str) : About(new, str[j], p) <=> About(names, str[j], p)
    PROVE  /\ InLine(w, now, names, p, x, str) => InLine(w, now, new, p, x, str)
           /\ \A r : EndsWith(names, p, x, str, r) /\ Len(str) \in Nat =>
                        EndsWith(new, p, x, str, r)
  <1>1. ASSUME InLine(w, now, names, p, x, str)
        PROVE  InLine(w, now, new, p, x, str)
    BY <1>1 DEF InLine
  <1>2. ASSUME NEW r, EndsWith(names, p, x, str, r), Len(str) \in Nat
        PROVE  EndsWith(new, p, x, str, r)
    <2>1. \A j \in 1..Len(str) : \A i \in (j + 1)..Len(str) : i \in 1..Len(str)
      BY <1>2
    <2> QED
      BY <1>2, <2>1 DEF EndsWith
  <1> QED
    BY <1>1, <1>2

\* Nothing on its way: the client holds what it held.
LEMMA LineEmpty ==
    ASSUME NEW w, NEW now, NEW names, NEW p, NEW x, NEW str, InLine(w, now, names, p, x, str),
           NEW none, Len(none) = 0
    PROVE  /\ InLine(w, now, names, p, x, none)
           /\ \A r : EndsWith(names, p, x, none, r) <=> x.reading = r
           /\ ~Finishes(none)
  <1>1. \A j : j \notin 1..Len(none)
    OBVIOUS
  <1>2. InLine(w, now, names, p, x, none)
    BY <1>1 DEF InLine
  <1>3. \A r : EndsWith(names, p, x, none, r) <=> x.reading = r
    BY <1>1 DEF EndsWith
  <1>4. ~Finishes(none)
    BY <1>1 DEF Finishes
  <1> QED
    BY <1>2, <1>3, <1>4

\* Time goes on, and the history with it.
LEMMA LineLater ==
    ASSUME NEW w \in History, NEW now \in Nat, GoodHistory(w, now), NEW names, NEW p,
           NEW x, x.ts \in Int, NEW str \in Seq(ToClient),
           InLine(w, now, names, p, x, str),
           NEW v, v = w \/ \E r : r # w[Len(w)].reading /\ v = Prolonged(w, r, now) /\ v \in History
    PROVE  GoodHistory(v, now + 1) /\ InLine(v, now + 1, names, p, x, str)
  <1>1. /\ GoodHistory(v, now + 1)
        /\ \A y : (y.ts \in Int /\ y.ts <= now /\ Placed(w, y)) =>
                     Placed(v, y) /\ Place(v, y) = Place(w, y)
    <2>1. CASE v = w
      <3>1. \A k \in 1..Len(w) : w[k].at < now + 1
        BY HistoryFacts DEF GoodHistory
      <3> QED
        BY <2>1, <3>1 DEF GoodHistory
    <2>2. ASSUME NEW r, r # w[Len(w)].reading, v = Prolonged(w, r, now), v \in History
          PROVE  /\ GoodHistory(v, now + 1)
                 /\ \A y : (y.ts \in Int /\ y.ts <= now /\ Placed(w, y)) =>
                              Placed(v, y) /\ Place(v, y) = Place(w, y)
      BY <2>2, PlaceKept
    <2> QED
      BY <2>1, <2>2
  <1>2. x.ts <= now + 1 /\ Placed(v, x) /\ Place(v, x) = Place(w, x)
    BY <1>1 DEF InLine
  <1>3. ASSUME NEW j \in 1..Len(str), About(names, str[j], p)
        PROVE  /\ 1 <= str[j].ts /\ str[j].ts <= now + 1
               /\ Placed(v, Claim(str[j])) /\ Place(w, x) <= Place(v, Claim(str[j]))
               /\ Place(v, Claim(str[j])) = Place(w, Claim(str[j]))
    <2>1. PICK m \in ToClient : m = str[j]
      BY ElementOfSeq
    <2>2. /\ 1 <= m.ts /\ m.ts <= now /\ Placed(w, Claim(m))
          /\ Place(w, x) <= Place(w, Claim(m))
      BY <1>3, <2>1 DEF InLine
    <2>3. PICK y : y = Claim(m) /\ y.ts = m.ts /\ y.ts \in Int
      BY <1>3, <2>1, ClaimFacts DEF About
    <2>4. Placed(v, y) /\ Place(v, y) = Place(w, y)
      BY <1>1, <2>2, <2>3
    <2> QED
      BY <2>1, <2>2, <2>3, <2>4
  <1>4. ASSUME NEW i \in 1..Len(str), NEW j \in 1..Len(str), i < j,
               About(names, str[i], p), About(names, str[j], p)
        PROVE  Place(v, Claim(str[i])) <= Place(v, Claim(str[j]))
    <2>1. Place(w, Claim(str[i])) <= Place(w, Claim(str[j]))
      BY <1>4 DEF InLine
    <2> QED
      BY <1>3, <1>4, <2>1
  <1> QED
    BY <1>1, <1>2, <1>3, <1>4 DEF InLine

-----------------------------------------------------------------------------
(* What a storage says of its paths.                                        *)

\* The entry of a path speaks for it.
LEMMA HeldBy ==
    ASSUME NEW s, StoreInv(s), NEW h \in DOMAIN s.entries
    PROVE  Held(s, s.entries[h].path) = Holding(s.entries[h])
  <1>1. s.paths[s.entries[h].path] = h /\ h # 0
    <2>1. PathIndex(s) /\ DOMAIN s.entries = 1..Len(s.entries) /\ Len(s.entries) \in Nat
      BY StoreFacts DEF StoreInv
    <2> QED
      BY <2>1 DEF PathIndex
  <1> QED
    BY <1>1 DEF Held

\* Stamps are numbers.
LEMMA HeldFacts ==
    ASSUME NEW s, StoreInv(s), NEW p \in Paths
    PROVE  Held(s, p).ts \in Int
  <1>1. PathIndex(s)
    BY DEF StoreInv
  <1>2. CASE s.paths[p] = 0
    BY <1>2 DEF Held, Nothing
  <1>3. CASE s.paths[p] # 0
    <2>1. s.entries[s.paths[p]].ts \in Int
      BY <1>1, <1>3, EntryFacts DEF PathIndex
    <2> QED
      BY <1>3, <2>1 DEF Held, Holding
  <1> QED
    BY <1>2, <1>3

\* A call says nothing new of the paths of entries it left as they were.
LEMMA HeldKept ==
    ASSUME NEW s, StoreInv(s), NEW u, Grows(s, u), NEW h,
           \A g \in DOMAIN u.entries \ {h} :
              IF g \in DOMAIN s.entries THEN Holding(u.entries[g]) = Holding(s.entries[g])
              ELSE Holding(u.entries[g]) = Nothing,
           NEW p \in Paths, h \in DOMAIN u.entries => u.entries[h].path # p
    PROVE  Held(u, p) = Held(s, p)
  <1>1. PathIndex(s) /\ PathIndex(u)
    BY DEF StoreInv, Grows
  <1>2. /\ DOMAIN s.entries \subseteq DOMAIN u.entries
        /\ \A g \in DOMAIN s.entries : u.entries[g].path = s.entries[g].path
    BY DEF Grows
  <1>3. CASE s.paths[p] # 0
    <2>1. PICK g \in DOMAIN s.entries : g = s.paths[p] /\ s.entries[g].path = p
      BY <1>1, <1>3 DEF PathIndex
    <2>2. g \in DOMAIN u.entries /\ u.entries[g].path = p
      BY <1>2, <2>1
    <2>3. u.paths[p] = g /\ g # h
      BY <1>1, <2>2 DEF PathIndex
    <2>4. Holding(u.entries[g]) = Holding(s.entries[g])
      BY <2>2, <2>3
    <2> QED
      BY <1>3, <2>1, <2>3, <2>4 DEF Held
  <1>4. CASE s.paths[p] = 0 /\ u.paths[p] # 0
    <2>1. PICK g \in DOMAIN u.entries : g = u.paths[p] /\ u.entries[g].path = p
      BY <1>1, <1>4 DEF PathIndex
    <2>2. g \notin DOMAIN s.entries
      <3> SUFFICES ASSUME g \in DOMAIN s.entries
                   PROVE  FALSE
        OBVIOUS
      <3>1. s.paths[p] = g
        BY <1>1, <1>2, <2>1 DEF PathIndex
      <3> QED
        BY <1>4, <2>1, <3>1
    <2>3. Holding(u.entries[g]) = Nothing
      BY <2>1, <2>2
    <2> QED
      BY <1>4, <2>1, <2>3 DEF Held
  <1>5. CASE s.paths[p] = 0 /\ u.paths[p] = 0
    BY <1>5 DEF Held
  <1> QED
    BY <1>3, <1>4, <1>5

\* An entry after a call: it says v, stamped t, or what it said before.
Says(f, v, t) == Holding(f) = [reading |-> v, ts |-> t]
SaysSame(f, e) == Holding(f) = Holding(e)

\* set_entry_internal for a message that is not stale: the value and the stamp
\* of the message, or what there was.
LEMMA SetHolding ==
    ASSUME NEW e \in EntryType, EntryLifecycle(e), NEW v \in AnyValue, NEW id \in AnyId,
           NEW t \in Int, 1 <= t, NEW n, NEW no, no = FALSE,
           NEW f, f = SetEntry(e, v, no, id, no, t, n).entry
    PROVE  \/ Says(f, v, t)
           \/ SaysSame(f, e) /\ (t < e.ts \/ Mismatch(e.value, v))
  <1>1. e.ts \in Int /\ Stamp(t, n) = t /\ t # 0
    BY DEF EntryType, Stamp
  <1>2. CASE Stale(e.ts, t)
    <2>1. f = e
      BY <1>2 DEF SetEntry, Outcome
    <2>2. t < e.ts
      BY <1>1, <1>2 DEF Stale
    <2> QED
      BY <2>1, <2>2 DEF SaysSame
  <1>3. PICK r : r = Revived(e, id)
    OBVIOUS
  <1>4. /\ r \in EntryType /\ r.value = e.value /\ r.ts = e.ts /\ ~r.created /\ ~r.deleted
    BY <1>3 DEF Revived, EntryType, AnyId
  <1>5. CASE ~Stale(e.ts, t) /\ Mismatch(e.value, v)
    <2>1. f = r
      BY <1>3, <1>5 DEF SetEntry, Outcome
    <2>2. HasValue(e) /\ HasValue(r)
      BY <1>4, <1>5 DEF EntryLifecycle, Mismatch, HasValue
    <2>3. Reading(r) = Reading(e)
      BY <1>4, <2>2 DEF Reading
    <2> QED
      BY <1>4, <1>5, <2>1, <2>3 DEF SaysSame, Holding
  <1>6. CASE ~Stale(e.ts, t) /\ ~Mismatch(e.value, v)
    <2>1. f = [r EXCEPT !.value = v, !.dirty = no, !.ts = t]
      BY <1>1, <1>3, <1>6 DEF SetEntry, Outcome, Written
    <2>2. f.value = v /\ f.ts = t /\ ~f.created /\ ~f.deleted
      BY <1>4, <2>1 DEF EntryType
    <2> QED
      BY <2>2 DEF Says, Holding, Reading, HasValue
  <1> QED
    BY <1>2, <1>5, <1>6

\* delete_entry_internal likewise.
LEMMA DeleteHolding ==
    ASSUME NEW e \in EntryType, NEW t \in Int, 1 <= t, NEW n, NEW no, no = FALSE,
           NEW f, f = DeleteEntry(e, no, t, n).entry
    PROVE  \/ Says(f, Absent, t)
           \/ SaysSame(f, e) /\ (t < e.ts \/ Reading(e) = Absent)
  <1>1. e.ts \in Int /\ Stamp(t, n) = t /\ t # 0
    BY DEF EntryType, Stamp
  <1>2. CASE Stale(e.ts, t) \/ ~HasValue(e)
    <2>1. f = e
      BY <1>2 DEF DeleteEntry, Outcome
    <2>2. t < e.ts \/ Reading(e) = Absent
      BY <1>1, <1>2 DEF Stale, Reading
    <2> QED
      BY <2>1, <2>2 DEF SaysSame
  <1>3. CASE ~(Stale(e.ts, t) \/ ~HasValue(e))
    <2>1. f = [e EXCEPT !.value = Empty, !.deleted = TRUE, !.dirty = no, !.ts = t]
      BY <1>1, <1>3 DEF DeleteEntry, Outcome, Erased
    <2>2. f.ts = t /\ f.deleted
      BY <2>1 DEF EntryType
    <2> QED
      BY <2>2 DEF Says, Holding, Reading, HasValue
  <1> QED
    BY <1>2, <1>3

\* What a client that knows the id of a message holds after it.
Agreeing(st, names, m, s) ==
    \A p \in Paths :
       /\ Takes(names, p, Held(st, p), m, Held(s, p))
       /\ About(names, m, p) /\ st.ids[m.id] # 0 =>
             \/ Held(s, p) = Claim(m)
             \/ Held(s, p) = Held(st, p) /\ Keeps(Held(st, p), m)

\* A value of the path is not refused.
Fitting(st, names, m) ==
    m.type = "entry_update" =>
        \A h \in DOMAIN st.entries :
            About(names, m, st.entries[h].path) => ~Mismatch(st.entries[h].value, m.value)

\* One entry of the path the message is about was written.
LEMMA ReceiveEntry ==
    ASSUME NEW st, StoreInv(st), NEW names, NEW m, NamesId(m), NEW h \in DOMAIN st.entries,
           NEW s, Grows(st, s), NEW f, s = PutEntry(st, h, f),
           names[m.id] = st.entries[h].path,
           \/ Holding(f) = Claim(m)
           \/ Holding(f) = Holding(st.entries[h])
    PROVE  /\ \A p \in Paths : Takes(names, p, Held(st, p), m, Held(s, p))
           /\ \A p \in Paths : About(names, m, p) =>
                 Held(s, p) = Holding(f) /\ Held(st, p) = Holding(st.entries[h])
  <1>1. PICK q : q = st.entries[h].path
    OBVIOUS
  <1>2. q \in Paths /\ h \in DOMAIN s.entries /\ s.entries[h].path = q
    BY <1>1, EntryFacts DEF Grows
  <1>3. /\ DOMAIN s.entries = DOMAIN st.entries /\ s.entries[h] = f
        /\ \A g \in DOMAIN st.entries \ {h} : s.entries[g] = st.entries[g]
    <2>1. st = [entries |-> st.entries, paths |-> st.paths, ids |-> st.ids]
      BY StoreFacts
    <2>2. PICK es : es = st.entries
      OBVIOUS
    <2>3. s.entries = [es EXCEPT ![h] = f]
      BY <2>1, <2>2 DEF PutEntry
    <2>4. es \in Seq(EntryType)
      BY <2>2, StoreFacts
    <2> QED
      BY <2>2, <2>3, <2>4
  <1>4. Held(s, q) = Holding(f) /\ Held(st, q) = Holding(st.entries[h])
    <2>1. StoreInv(s)
      BY DEF Grows
    <2>2. Held(s, s.entries[h].path) = Holding(s.entries[h])
      BY <1>2, <2>1, HeldBy
    <2>3. Held(st, q) = Holding(st.entries[h])
      BY <1>1, HeldBy
    <2> QED
      BY <1>2, <1>3, <2>2, <2>3
  <1>5. \A p \in Paths : p # q => Held(s, p) = Held(st, p)
    <2> SUFFICES ASSUME NEW p \in Paths, p # q
                 PROVE  Held(s, p) = Held(st, p)
      OBVIOUS
    <2>1. \A g \in DOMAIN s.entries \ {h} :
              IF g \in DOMAIN st.entries THEN Holding(s.entries[g]) = Holding(st.entries[g])
              ELSE Holding(s.entries[g]) = Nothing
      BY <1>3
    <2>2. h \in DOMAIN s.entries => s.entries[h].path # p
      BY <1>2
    <2> QED
      BY <2>1, <2>2, HeldKept
  <1>6. \A p \in Paths : About(names, m, p) <=> p = q
    BY <1>1 DEF About
  <1> QED
    BY <1>4, <1>5, <1>6 DEF Takes

\* on_entry_updated and on_entry_deleted
LEMMA ReceiveChange ==
    ASSUME NEW st, StoreInv(st), NEW m \in ToClient, NamesId(m), 1 <= m.ts,
           NEW sv, Follows(st, sv), NEW s, s = ClientStoreAfter(st, m), time \in Int
    PROVE  /\ \A p \in Paths : Takes(sv.names, p, Held(st, p), m, Held(s, p))
           /\ Fitting(st, sv.names, m) => Agreeing(st, sv.names, m, s)
  <1>1. PICK id \in Ids, t \in Int : id = m.id /\ t = m.ts /\ 1 <= t
    BY ClaimFacts
  <1>5. PICK h : h = st.ids[id]
    OBVIOUS
  <1>2. CASE h = 0
    <2>1. s = st
      BY <1>1, <1>5, <1>2 DEF ClientStoreAfter, OnEntryUpdated, OnEntryDeleted, NoResult, NamesId
    <2>2. st.ids[m.id] = 0
      BY <1>1, <1>5, <1>2
    <2> QED
      BY <2>1, <2>2 DEF Agreeing, Takes
  <1>3. CASE h # 0
    <2>1. h \in DOMAIN st.entries
      BY <1>5, <1>3 DEF StoreInv, IdIndex
    <2>2. sv.names[m.id] = st.entries[h].path
      BY <1>1, <1>5, <1>3 DEF Follows
    <2>3. PICK e : e = st.entries[h]
      OBVIOUS
    <2>4. e \in EntryType /\ EntryLifecycle(e) /\ id \in AnyId
      BY <2>1, <2>3, EntryFacts DEF AnyId
    <2>5. PICK no, now : no = FALSE /\ now = time
      OBVIOUS
    <2>6. ASSUME NEW f, Grows(st, s), s = PutEntry(st, h, f),
                 \/ Holding(f) = Claim(m)
                 \/ /\ Holding(f) = Holding(e)
                    /\ \/ m.ts < e.ts
                       \/ Reading(e) = Claim(m).reading
                       \/ ~Fitting(st, sv.names, m)
          PROVE  /\ \A p \in Paths : Takes(sv.names, p, Held(st, p), m, Held(s, p))
                 /\ Fitting(st, sv.names, m) => Agreeing(st, sv.names, m, s)
      <3>1. /\ \A p \in Paths : Takes(sv.names, p, Held(st, p), m, Held(s, p))
            /\ \A p \in Paths : About(sv.names, m, p) =>
                  Held(s, p) = Holding(f) /\ Held(st, p) = Holding(e)
        <4>1. PICK names : names = sv.names
          OBVIOUS
        <4>2. names[m.id] = st.entries[h].path
          BY <2>2, <4>1
        <4>3. Holding(f) = Claim(m) \/ Holding(f) = Holding(st.entries[h])
          BY <2>3, <2>6
        <4>4. \A p \in Paths : Takes(names, p, Held(st, p), m, Held(s, p))
          BY <2>1, <2>6, <4>2, <4>3, ReceiveEntry
        <4>5. \A p \in Paths : About(names, m, p) =>
                 Held(s, p) = Holding(f) /\ Held(st, p) = Holding(st.entries[h])
          BY <2>1, <2>6, <4>2, <4>3, ReceiveEntry
        <4> QED
          BY <2>3, <4>1, <4>4, <4>5
      <3>2. Holding(e).ts = e.ts /\ Holding(e).reading = Reading(e)
        BY DEF Holding
      <3>3. ASSUME Fitting(st, sv.names, m), NEW p \in Paths, About(sv.names, m, p)
            PROVE  \/ Held(s, p) = Claim(m)
                   \/ Held(s, p) = Held(st, p) /\ Keeps(Held(st, p), m)
        BY <2>6, <3>1, <3>2, <3>3 DEF Keeps
      <3> QED
        BY <3>1, <3>3 DEF Agreeing
    <2>7. CASE m.type = "entry_update"
      <3>1. PICK v \in AnyValue : v = m.value
        BY <2>7, ToClientFacts DEF UpdateMsg
      <3>2. PICK f : f = SetEntry(e, v, no, id, no, t, now).entry
        OBVIOUS
      <3>3. s = OnEntryUpdated(st, id, v, t, time).store
        BY <1>1, <2>7, <3>1 DEF ClientStoreAfter
      <3>4. s = PutEntry(st, h, f)
        BY <1>5, <1>3, <2>3, <2>5, <3>2, <3>3 DEF OnEntryUpdated, Result
      <3>5. Grows(st, s)
        BY <3>3, UpdatedGrows
      <3>6. \/ Says(f, v, t)
            \/ SaysSame(f, e) /\ (t < e.ts \/ Mismatch(e.value, v))
        BY <1>1, <2>4, <2>5, <3>2, SetHolding
      <3>7. Claim(m) = [reading |-> v, ts |-> t]
        BY <1>1, <2>7, <3>1 DEF Claim
      <3>8. Mismatch(e.value, v) => ~Fitting(st, sv.names, m)
        BY <2>1, <2>2, <2>3, <2>7, <3>1 DEF Fitting, About
      <3> QED
        BY <1>1, <2>6, <3>4, <3>5, <3>6, <3>7, <3>8 DEF Says, SaysSame
    <2>8. CASE m.type = "entry_delete"
      <3>2. PICK f : f = DeleteEntry(e, no, t, now).entry
        OBVIOUS
      <3>3. s = OnEntryDeleted(st, id, t, time).store
        BY <1>1, <2>8 DEF ClientStoreAfter
      <3>4. s = PutEntry(st, h, f)
        BY <1>5, <1>3, <2>3, <2>5, <3>2, <3>3 DEF OnEntryDeleted, Result
      <3>5. Grows(st, s)
        BY <3>3, DeletedGrows
      <3>6. \/ Says(f, Absent, t)
            \/ SaysSame(f, e) /\ (t < e.ts \/ Reading(e) = Absent)
        BY <1>1, <2>4, <2>5, <3>2, DeleteHolding
      <3>7. Claim(m) = [reading |-> Absent, ts |-> t]
        BY <1>1, <2>8 DEF Claim
      <3>8. Claim(m).reading = Absent
        BY <3>7
      <3> QED
        BY <1>1, <2>6, <3>4, <3>5, <3>6, <3>7, <3>8 DEF Says, SaysSame
    <2> QED
      BY <2>7, <2>8 DEF NamesId
  <1> QED
    BY <1>2, <1>3

\* on_message of a client
LEMMA ReceiveHeld ==
    ASSUME NEW st, StoreInv(st), NEW m \in ToClient, NamesId(m) => 1 <= m.ts,
           NEW sv, Follows(st, sv), NEW s, s = ClientStoreAfter(st, m), time \in Int
    PROVE  /\ \A p \in Paths : Takes(sv.names, p, Held(st, p), m, Held(s, p))
           /\ Fitting(st, sv.names, m) => Agreeing(st, sv.names, m, s)
  <1>1. CASE NamesId(m)
    BY <1>1, ReceiveChange
  <1>2. CASE ~NamesId(m)
    <2>1. \A p \in Paths : Held(s, p) = Held(st, p)
      <3>1. CASE m.type = "entry_id_assign"
        <4>1. PICK id \in Ids, p \in Paths : id = m.id /\ p = m.path
          BY <3>1, ToClientFacts DEF AssignMsg
        <4>2. s = OnEntryIdAssigned(st, id, p)
          BY <3>1, <4>1 DEF ClientStoreAfter
        <4>3. PICK h, k : h = s.paths[p] /\ k = 0
          OBVIOUS
        <4>4. HasRoomFor(st, p)
          BY RoomForAll
        <4>5. Grows(st, s) /\ HasId(st, id, p, s, h)
          <5>1. Grows(st, s) /\ Holds(st, s, k, Empty) /\ NoneSoiled(st, s)
                /\ HasId(st, id, p, s, h)
            BY <4>2, <4>3, <4>4, AssignedGrows
          <5> QED
            BY <5>1
        <4>6. /\ h \in DOMAIN s.entries /\ s.entries[h].path = p
              /\ \A g \in DOMAIN s.entries \ {h} :
                    g \in DOMAIN st.entries /\ s.entries[g] = st.entries[g]
              /\ h \in DOMAIN st.entries =>
                    s.entries[h] = [st.entries[h] EXCEPT !.id = id]
              /\ h \notin DOMAIN st.entries =>
                    s.entries[h] = [Ghost(p) EXCEPT !.id = id]
          BY <4>5 DEF HasId
        <4>7. Holding(s.entries[h]) =
                 IF h \in DOMAIN st.entries THEN Holding(st.entries[h]) ELSE Nothing
          <5>1. CASE h \in DOMAIN st.entries
            <6>1. PICK e \in EntryType : e = st.entries[h]
              BY <5>1, EntryFacts
            <6>2. s.entries[h] = [e EXCEPT !.id = id]
              BY <4>6, <5>1, <6>1
            <6> QED
              BY <5>1, <6>1, <6>2 DEF Holding, Reading, HasValue, EntryType
          <5>2. CASE h \notin DOMAIN st.entries
            BY <4>6, <5>2 DEF Holding, Reading, HasValue, Ghost, Nothing
          <5> QED
            BY <5>1, <5>2
        <4>8. \A g \in DOMAIN s.entries \ {0} :
                 IF g \in DOMAIN st.entries THEN Holding(s.entries[g]) = Holding(st.entries[g])
                 ELSE Holding(s.entries[g]) = Nothing
          BY <4>6, <4>7
        <4>9. 0 \notin DOMAIN s.entries
          <5>1. StoreInv(s)
            BY <4>5 DEF Grows
          <5> QED
            BY <5>1, StoreFacts
        <4>10. \A q \in Paths : k \in DOMAIN s.entries => s.entries[k].path # q
          BY <4>3, <4>9
        <4>11. \A g \in DOMAIN s.entries \ {k} :
                 IF g \in DOMAIN st.entries THEN Holding(s.entries[g]) = Holding(st.entries[g])
                 ELSE Holding(s.entries[g]) = Nothing
          BY <4>3, <4>8
        <4> QED
          BY <4>5, <4>10, <4>11, HeldKept
      <3>2. CASE m.type # "entry_id_assign"
        BY <1>2, <3>2 DEF ClientStoreAfter, NamesId
      <3> QED
        BY <3>1, <3>2
    <2> QED
      BY <1>2, <2>1 DEF Takes, Agreeing, About
  <1> QED
    BY <1>1, <1>2

-----------------------------------------------------------------------------
(* What the server tells a client.                                          *)

\* The histories are in order, and the stamps the clients hold are numbers.
Clocked ==
    /\ time \in Nat
    /\ \A p \in Paths : written[p] \in History /\ GoodHistory(written[p], time)
    /\ \A c \in Clients, p \in Paths : Held(store[c], p).ts \in Int

\* What was on its way to c, str with the names old, has become new with the
\* names names: it takes c forward as before, and of the paths in told as well to
\* what was written last.
Onward(c, old, str, names, new, told) ==
    /\ Forward(old, c, str) => Forward(names, c, new)
    /\ \A p \in Paths : p \in told \/ Ends(old, c, str, p) => Ends(names, c, new, p)

\* One stretch after the other.
LEMMA OnwardTwice ==
    ASSUME NEW c, NEW old, NEW a, NEW mid, NEW b, NEW names, NEW d, NEW one, NEW two, NEW both,
           Onward(c, old, a, mid, b, one), Onward(c, mid, b, names, d, two),
           both \subseteq one \cup two
    PROVE  Onward(c, old, a, names, d, both)
  BY DEF Onward

\* A message that is news is put in the queue.
LEMMA OnwardAppend ==
    ASSUME Clocked, NEW c \in Clients, NEW names, NEW str \in Seq(ToClient),
           NEW m \in ToClient, NEW told,
           \A p \in Paths : News(written[p], time, names, p, m),
           \A p \in told : About(names, m, p)
    PROVE  Onward(c, names, str, names, Append(str, m), told)
  <1>1. PICK new : new = Append(str, m)
    OBVIOUS
  <1>2. ASSUME Forward(names, c, str), NEW p \in Paths
        PROVE  InLine(written[p], time, names, p, Held(store[c], p), new)
    <2>1. PICK w, x, now : w = written[p] /\ x = Held(store[c], p) /\ now = time
      OBVIOUS
    <2>2. /\ w \in History /\ GoodHistory(w, now) /\ x.ts \in Int
          /\ InLine(w, now, names, p, x, str) /\ News(w, now, names, p, m)
      BY <1>2, <2>1 DEF Forward, Clocked
    <2>3. InLine(w, now, names, p, x, Append(str, m))
      BY <2>2, LineAppend
    <2> QED
      BY <1>1, <2>1, <2>3
  <1>3. ASSUME NEW p \in Paths, p \in told \/ Ends(names, c, str, p)
        PROVE  Ends(names, c, new, p)
    <2>1. PICK x, r : x = Held(store[c], p) /\ r = latest(p)
      OBVIOUS
    <2>2. p \in told \/ EndsWith(names, p, x, str, r)
      BY <1>3, <2>1 DEF Ends
    <2>3. EndsWith(names, p, x, new, r)
      <3>1. CASE About(names, m, p)
        <4>1. Claim(m).reading = r
          BY <2>1, <3>1 DEF News, Last, latest
        <4> QED
          BY <1>1, <3>1, <4>1, EndAppend
      <3>2. CASE ~About(names, m, p)
        BY <1>1, <2>2, <3>2, EndAppend
      <3> QED
        BY <3>1, <3>2
    <2> QED
      BY <2>1, <2>3 DEF Ends
  <1> QED
    BY <1>1, <1>2, <1>3 DEF Onward, Forward

\* A message that names no id is news to nobody.
LEMMA NoNews ==
    ASSUME NEW m, ~NamesId(m), NEW names, NEW w, NEW p
    PROVE  News(w, time, names, p, m)
  BY DEF News, About

\* Every id in what is on its way is assigned.
LEMMA NamesBelow ==
    ASSUME Listening, NEW ids, NEW sv, NEW str, NEW known, StreamOK(ids, sv, str, known),
           \A i \in Ids : ids[i] # 0 => i < sv.next,
           NEW k \in 1..Len(str), NamesId(str[k])
    PROVE  str[k].id \in Ids /\ str[k].id < sv.next
  <1>1. str \in Seq(ToClient) /\ InOrder(ids, str) /\ AllRight(sv, str)
    BY DEF StreamOK, Orderly
  <1>2. Len(str) \in Nat
    BY <1>1, LenProperties
  <1>3. PICK m \in ToClient : m = str[k]
    BY <1>1, ElementOfSeq
  <1>4. PICK i \in Ids : i = m.id
    BY <1>3, ClaimFacts
  <1>5. Told(ids, str, i, k - 1)
    BY <1>1, <1>3, <1>4 DEF InOrder
  <1>6. CASE ids[i] # 0
    BY <1>3, <1>4, <1>6
  <1>7. ASSUME NEW j \in 1..(k - 1), Assigns(str[j], i)
        PROVE  i < sv.next
    <2>1. j \in 1..Len(str)
      BY <1>2
    <2>2. PICK a : a = str[j] /\ Right(sv, a)
      BY <1>1, <2>1 DEF AllRight
    <2> QED
      BY <1>7, <2>2 DEF Assigns, Right
  <1> QED
    BY <1>3, <1>4, <1>5, <1>6, <1>7 DEF Told

\* New names leave what is on its way as it was.
LEMMA OnwardRenamed ==
    ASSUME Listening, NEW x, ServerOK(x), NEW c \in Clients, down[c] \in Seq(ToClient),
           NEW names, \A i \in Ids : i < x.server.next => names[i] = x.server.names[i],
           NEW str, str = down[c] \o x.peer[c].queue, NEW none, none = {}
    PROVE  Onward(c, x.server.names, str, names, str, none)
  <1>1. PICK sv, pr, ids : sv = x.server /\ pr = x.peer[c] /\ ids = store[c].ids
    OBVIOUS
  <1>2. pr \in PeerType /\ StreamOK(ids, sv, str, pr.known) /\ Followed(sv)
    BY <1>1 DEF ServerOK, PeerOK
  <1>3. \A i \in Ids : ids[i] # 0 => i < sv.next
    BY <1>1, <1>2 DEF Followed
  <1>4. \A k \in 1..Len(str) : NamesId(str[k]) => str[k].id \in Ids /\ str[k].id < sv.next
    BY <1>2, <1>3, NamesBelow
  <1>5. PICK old : old = sv.names
    OBVIOUS
  <1>6. \A p : \A k \in 1..Len(str) : About(names, str[k], p) <=> About(old, str[k], p)
    BY <1>1, <1>4, <1>5 DEF About
  <1>7. Len(str) \in Nat
    BY <1>2, LenProperties DEF StreamOK
  <1>8. ASSUME NEW p \in Paths, NEW w, NEW y, InLine(w, time, old, p, y, str)
        PROVE  InLine(w, time, names, p, y, str)
    <2>1. PICK now : now = time
      OBVIOUS
    <2> QED
      BY <1>6, <1>8, <2>1, LineRenamed
  <1>9. ASSUME NEW p \in Paths, NEW y, NEW r, EndsWith(old, p, y, str, r)
        PROVE  EndsWith(names, p, y, str, r)
    BY <1>6, <1>7, <1>9, LineRenamed
  <1>10. Onward(c, old, str, names, str, none)
    BY <1>8, <1>9 DEF Onward, Forward, Ends
  <1> QED
    BY <1>1, <1>5, <1>10

\* SyncResponse, Finished and the assignment of an id name no id to be written.
LEMMA AssignFacts ==
    ASSUME NEW id \in Ids, NEW p \in Paths
    PROVE  /\ Assign(id, p) \in ToClient /\ ~NamesId(Assign(id, p)) /\ Assign(id, p) # Finished
           /\ Finished \in ToClient /\ ~NamesId(Finished)
  BY DEF Assign, ToClient, AssignMsg, NamesId, Finished

\* What is on the way of a client before and after something was queued.
LEMMA Queued ==
    ASSUME NEW dn \in Seq(ToClient), NEW pr \in PeerType, NEW m \in ToClient,
           NEW q, q.queue = Append(pr.queue, m)
    PROVE  /\ dn \o q.queue = Append(dn \o pr.queue, m)
           /\ dn \o pr.queue \in Seq(ToClient)
           /\ Finishes(dn \o q.queue) => Finishes(dn \o pr.queue) \/ m = Finished
  <1>1. pr.queue \in Seq(ToClient)
    BY PeerFacts
  <1>2. dn \o q.queue = Append(dn \o pr.queue, m)
    BY <1>1, AppendLast
  <1>3. PICK str : str = dn \o pr.queue
    OBVIOUS
  <1>4. str \in Seq(ToClient)
    BY <1>1, <1>3, JoinOK
  <1>5. ASSUME Finishes(Append(str, m)), m # Finished
        PROVE  Finishes(str)
    <2>1. PICK s, n : s = Append(str, m) /\ n = Len(str)
      OBVIOUS
    <2>2. /\ n \in Nat /\ Len(s) = n + 1 /\ s[n + 1] = m
          /\ \A j \in 1..n : s[j] = str[j]
      BY <1>4, <2>1, AppendProperties, LenProperties
    <2>3. PICK j \in 1..(n + 1) : s[j] = Finished
      BY <1>5, <2>1, <2>2 DEF Finishes
    <2>4. j \in 1..n
      BY <1>5, <2>2, <2>3
    <2> QED
      BY <2>1, <2>2, <2>3, <2>4 DEF Finishes
  <1> QED
    BY <1>2, <1>3, <1>4, <1>5

\* What is on its way to a client, with a name of its own.
OnWay(dn, pr) == dn \o pr.queue

\* It ends with what was queued last.
LEMMA QueuedLast ==
    ASSUME NEW dn \in Seq(ToClient), NEW pr \in PeerType, NEW m \in ToClient,
           NEW q, q.queue = Append(pr.queue, m)
    PROVE  /\ OnWay(dn, q) = Append(OnWay(dn, pr), m) /\ OnWay(dn, pr) \in Seq(ToClient)
           /\ m # Finished => (Finishes(OnWay(dn, q)) => Finishes(OnWay(dn, pr)))
  BY Queued DEF OnWay

\* The server tells a client only that p has got the id.
LEMMA TellId ==
    ASSUME Clocked, NEW c \in Clients, NEW dn \in Seq(ToClient), NEW pr \in PeerType,
           NEW id \in Ids, NEW p \in Paths, NEW names,
           NEW q, q.queue = Append(pr.queue, Assign(id, p)), NEW none, none = {}
    PROVE  /\ Onward(c, names, dn \o pr.queue, names, dn \o q.queue, none)
           /\ Finishes(dn \o q.queue) => Finishes(dn \o pr.queue)
  <1>1. PICK k : k = Assign(id, p)
    OBVIOUS
  <1>2. k \in ToClient /\ ~NamesId(k) /\ k # Finished /\ q.queue = Append(pr.queue, k)
    BY <1>1, AssignFacts
  <1>3. PICK a, b : a = OnWay(dn, pr) /\ b = OnWay(dn, q)
    OBVIOUS
  <1>4. b = Append(a, k) /\ a \in Seq(ToClient) /\ (Finishes(b) => Finishes(a))
    BY <1>2, <1>3, QueuedLast
  <1>5. \A o \in Paths : News(written[o], time, names, o, k)
    BY <1>2, NoNews
  <1>6. \A o \in none : About(names, k, o)
    OBVIOUS
  <1>7. Onward(c, names, a, names, b, none)
    BY <1>2, <1>4, <1>5, <1>6, OnwardAppend
  <1> QED
    BY <1>3, <1>4, <1>7 DEF OnWay

\* From pr to r by way of q, a client is told m about id, which stands for p, and
\* the id first if need be.
Tells(pr, q, r, id, p, m) ==
    /\ pr \in PeerType /\ q \in PeerType /\ m \in ToClient /\ id \in Ids /\ p \in Paths
    /\ q = pr \/ q.queue = Append(pr.queue, Assign(id, p))
    /\ NamesId(m) /\ m.id = id /\ r.queue = Append(q.queue, m)

\* What was written last to the path of m is news.
LEMMA TellNews ==
    ASSUME Clocked, NEW c \in Clients, NEW names, NEW p, NEW m \in ToClient,
           NamesId(m), names[m.id] = p, News(written[p], time, names, p, m),
           NEW b \in Seq(ToClient), NEW d, d = Append(b, m), NEW told, told = {p}
    PROVE  Onward(c, names, b, names, d, told)
  <1>1. \A o \in Paths : News(written[o], time, names, o, m)
    <2> SUFFICES ASSUME NEW o \in Paths, o # p
                 PROVE  News(written[o], time, names, o, m)
      OBVIOUS
    <2> QED
      BY DEF News, About
  <1>2. \A o \in told : About(names, m, o)
    BY DEF About
  <1> QED
    BY <1>1, <1>2, OnwardAppend

\* A client is told what was written last to the path p that id stands for.
Tidings(names, pr, q, r, id, p, m) ==
    /\ Tells(pr, q, r, id, p, m)
    /\ names[id] = p
    /\ News(written[p], time, names, p, m)

\* The server tells a client the id of p, and what was written last to p: news.
LEMMA TellPath ==
    ASSUME Clocked, NEW c \in Clients, NEW dn \in Seq(ToClient), NEW names,
           NEW pr, NEW q, NEW r, NEW id, NEW p, NEW m, Tidings(names, pr, q, r, id, p, m)
    PROVE  /\ Onward(c, names, OnWay(dn, pr), names, OnWay(dn, r), {p})
           /\ Finishes(OnWay(dn, r)) => Finishes(OnWay(dn, pr))
  <1>0. PICK told, a, d : told = {p} /\ a = OnWay(dn, pr) /\ d = OnWay(dn, r)
    OBVIOUS
  <1>1. /\ pr \in PeerType /\ q \in PeerType /\ m \in ToClient /\ id \in Ids /\ p \in Paths
        /\ q = pr \/ q.queue = Append(pr.queue, Assign(id, p))
        /\ NamesId(m) /\ m.id = id /\ r.queue = Append(q.queue, m)
        /\ names[id] = p /\ News(written[p], time, names, p, m)
    BY DEF Tidings, Tells
  <1>2. PICK b, none : b = OnWay(dn, q) /\ none = {}
    OBVIOUS
  <1>3. Onward(c, names, a, names, b, none) /\ (Finishes(b) => Finishes(a))
    <2>1. CASE q = pr
      <3>1. a = b
        BY <1>0, <1>2, <2>1
      <3>2. Onward(c, names, a, names, a, none)
        BY <1>2 DEF Onward
      <3> QED
        BY <3>1, <3>2
    <2>2. CASE q.queue = Append(pr.queue, Assign(id, p))
      <3>1. /\ Onward(c, names, dn \o pr.queue, names, dn \o q.queue, none)
            /\ Finishes(dn \o q.queue) => Finishes(dn \o pr.queue)
        BY <1>1, <1>2, <2>2, TellId
      <3> QED
        BY <1>0, <1>2, <3>1 DEF OnWay
    <2> QED
      BY <1>1, <2>1, <2>2
  <1>4. m # Finished
    BY <1>1 DEF NamesId, Finished
  <1>5. d = Append(b, m) /\ b \in Seq(ToClient) /\ (Finishes(d) => Finishes(b))
    BY <1>0, <1>1, <1>2, <1>4, QueuedLast
  <1>6. Onward(c, names, b, names, d, told)
    BY <1>0, <1>1, <1>5, TellNews
  <1>7. Onward(c, names, a, names, d, told)
    BY <1>2, <1>3, <1>6, OnwardTwice
  <1> QED
    BY <1>0, <1>3, <1>5, <1>7

\* No id that had a path has got another.
Kept(s, u) ==
    \A i \in Ids : i < s.server.next =>
        i < u.server.next /\ u.server.names[i] = s.server.names[i]

\* Every id that has a path is known.
AllKnown(names, known) == \A i \in Ids : names[i] # Absent => i \in known

\* From state s to u the server has told the client c, if it is connected, of the
\* paths in told, and of the ids of no others.
Sent(s, u, c, told) ==
    LET old == s.peer[c]
        new == u.peer[c]
    IN  /\ new.id = old.id /\ old.known \subseteq new.known
        /\ old.id = NoId => new.known = old.known /\ new.queue = old.queue
        /\ old.id # NoId /\ AllKnown(s.server.names, old.known) =>
              AllKnown(u.server.names, new.known)
        /\ \A i \in new.known \ old.known : i < u.server.next /\ u.server.names[i] \in told
        /\ Finishes(down[c] \o new.queue) => Finishes(down[c] \o old.queue)
        /\ Onward(c, s.server.names, down[c] \o old.queue, u.server.names,
                  down[c] \o new.queue, IF old.id = NoId THEN {} ELSE told)

\* One pass after the other.
LEMMA SentTwice ==
    ASSUME NEW s, NEW x, NEW u, NEW c \in Clients, NEW one, NEW two, NEW both,
           Sent(s, x, c, one), Sent(x, u, c, two), Kept(x, u),
           x.peer[c].known \subseteq Ids, both = one \cup two
    PROVE  Sent(s, u, c, both)
  <1>1. PICK a, b, d : a = s.peer[c] /\ b = x.peer[c] /\ d = u.peer[c]
    OBVIOUS
  <1>2. PICK sa, sb, sd : /\ sa = down[c] \o a.queue /\ sb = down[c] \o b.queue
                          /\ sd = down[c] \o d.queue
    OBVIOUS
  <1>3. PICK na, nb, nd : /\ na = s.server.names /\ nb = x.server.names
                          /\ nd = u.server.names
    OBVIOUS
  <1>4. /\ b.id = a.id /\ a.known \subseteq b.known
        /\ a.id = NoId => b.known = a.known /\ b.queue = a.queue
        /\ a.id # NoId /\ AllKnown(na, a.known) => AllKnown(nb, b.known)
        /\ \A i \in b.known \ a.known : i < x.server.next /\ nb[i] \in one
        /\ Finishes(sb) => Finishes(sa)
        /\ Onward(c, na, sa, nb, sb, IF a.id = NoId THEN {} ELSE one)
    BY <1>1, <1>2, <1>3 DEF Sent
  <1>5. /\ d.id = b.id /\ b.known \subseteq d.known
        /\ b.id = NoId => d.known = b.known /\ d.queue = b.queue
        /\ b.id # NoId /\ AllKnown(nb, b.known) => AllKnown(nd, d.known)
        /\ \A i \in d.known \ b.known : i < u.server.next /\ nd[i] \in two
        /\ Finishes(sd) => Finishes(sb)
        /\ Onward(c, nb, sb, nd, sd, IF b.id = NoId THEN {} ELSE two)
    BY <1>1, <1>2, <1>3 DEF Sent
  <1>6. \A i \in d.known \ a.known : i < u.server.next /\ nd[i] \in both
    BY <1>1, <1>3, <1>4, <1>5 DEF Kept
  <1>7. Onward(c, na, sa, nd, sd, IF a.id = NoId THEN {} ELSE both)
    <2>1. PICK t1, t2, t : /\ t1 = (IF a.id = NoId THEN {} ELSE one)
                           /\ t2 = (IF b.id = NoId THEN {} ELSE two)
                           /\ t = (IF a.id = NoId THEN {} ELSE both)
      OBVIOUS
    <2>2. t \subseteq t1 \cup t2
      BY <1>4, <2>1
    <2> QED
      BY <1>4, <1>5, <2>1, <2>2, OnwardTwice
  <1> QED
    BY <1>1, <1>2, <1>3, <1>4, <1>5, <1>6, <1>7 DEF Sent

\* A dirty entry holds what was written last to its path.
Newest(e) ==
    /\ ~e.created /\ 1 <= e.ts /\ e.ts <= time
    /\ Reading(e) = latest(e.path) /\ Last(written[e.path]).at <= e.ts

\* What process_updates sends of it is news.
ChangeOf(e, id) == IF e.deleted THEN Deletion(id, time) ELSE Update(id, e.value, e.ts)

LEMMA NewestIsNews ==
    ASSUME Clocked, NEW e \in EntryType, Newest(e), NEW id \in Ids,
           NEW m, m = ChangeOf(e, id), 1 <= time, NEW names
    PROVE  News(written[e.path], time, names, e.path, m) /\ NamesId(m) /\ m.id = id
  <1>1. PICK p, now, w : p = e.path /\ now = time /\ w = written[p]
    OBVIOUS
  <1>2. /\ w \in History /\ GoodHistory(w, now) /\ now \in Nat /\ e.ts \in Int
        /\ w[Len(w)].at <= e.ts /\ Reading(e) = w[Len(w)].reading
    BY <1>1 DEF Clocked, Newest, EntryType, latest, Last
  <1>3. Len(w) \in Nat /\ Len(w) # 0 /\ w[Len(w)].at \in Nat /\ w[Len(w)].at < now
    <2>1. Len(w) \in Nat /\ Len(w) # 0
      BY <1>2, HistoryFacts DEF GoodHistory
    <2>2. Len(w) \in 1..Len(w)
      BY <2>1
    <2> QED
      BY <1>2, <2>1, <2>2, HistoryFacts DEF GoodHistory
  <1>4. CASE e.deleted
    <2>1. m = Deletion(id, now)
      BY <1>1, <1>4 DEF ChangeOf
    <2>2. m.type = "entry_delete" /\ m.ts = now /\ m.id = id
      BY <2>1 DEF Deletion
    <2>3. Claim(m).reading = Absent /\ Reading(e) = Absent
      BY <1>4, <2>2 DEF Claim, Reading, HasValue
    <2> QED
      BY <1>1, <1>2, <1>3, <2>2, <2>3 DEF News, NamesId
  <1>5. CASE ~e.deleted
    <2>1. m = Update(id, e.value, e.ts)
      BY <1>5 DEF ChangeOf
    <2>2. m.type = "entry_update" /\ m.ts = e.ts /\ m.id = id /\ m.value = e.value
      BY <2>1 DEF Update
    <2>3. Claim(m).reading = e.value /\ Reading(e) = e.value
      BY <1>5, <2>2 DEF Claim, Reading, HasValue, Newest
    <2>4. 1 <= e.ts /\ e.ts <= now
      BY <1>1 DEF Newest
    <2> QED
      BY <1>1, <1>2, <1>3, <2>2, <2>3, <2>4 DEF News, NamesId
  <1> QED
    BY <1>4, <1>5

\* The body of process_updates for one dirty entry tells each connected client of
\* its path.
LEMMA PublishSends ==
    ASSUME Listening, Clocked, 1 <= time, NEW s, ServerOK(s), NEW h \in DOMAIN s.store.entries,
           Newest(s.store.entries[h]), NEW u, ServerOK(u), NEW id \in Ids, NEW m \in ToClient,
           PublishedAs(s, h, u, id, m), h \in DOMAIN u.store.entries,
           u.server.next = IF s.store.entries[h].id = NoId
                           THEN s.server.next + 1 ELSE s.server.next,
           NEW c \in Clients, down[c] \in Seq(ToClient), NEW told, told = {s.store.entries[h].path}
    PROVE  Kept(s, u) /\ Sent(s, u, c, told)
  <1>1. PICK e, p : e = s.store.entries[h] /\ p = e.path
    OBVIOUS
  <1>2. PICK pr, q, r, dn : /\ pr = s.peer[c] /\ q = PublishUnknown(pr, id, p)
                            /\ r = u.peer[c] /\ dn = down[c]
    OBVIOUS
  <1>3. PICK old, names : old = s.server.names /\ names = u.server.names
    OBVIOUS
  <1>4. /\ StoreInv(s.store) /\ NamesOK(s.store, s.server) /\ NamesOK(u.store, u.server)
        /\ s.server \in ServerType /\ u.server \in ServerType
        /\ pr \in PeerType /\ r \in PeerType
    BY <1>2 DEF ServerOK, PeerOK
  <1>5. e \in EntryType /\ p \in Paths
    BY <1>1, <1>4, EntryFacts
  <1>6. /\ m = ChangeOf(e, id)
        /\ u.store.entries[h] = [e EXCEPT !.id = id]
        /\ \A i \in Ids : (i < s.server.next \/ i # id) => names[i] = old[i]
        /\ r = IF pr.id = NoId THEN pr ELSE Enqueue(q, m)
    BY <1>1, <1>2, <1>3 DEF PublishedAs, ChangeOf
  <1>7. names[id] = p /\ id < u.server.next
    <2>1. u.store.entries[h].id = id /\ u.store.entries[h].path = p /\ id # NoId
      BY <1>1, <1>5, <1>6, IdsAssumption DEF EntryType
    <2> QED
      BY <1>3, <1>4, <2>1 DEF NamesOK
  <1>8. Kept(s, u)
    <2>1. s.server.next \in Nat /\ u.server.next \in Nat
      BY <1>4, ServerFacts
    <2>2. s.server.next <= u.server.next
      BY <2>1
    <2> QED
      BY <1>3, <1>6, <2>1, <2>2, IdsFacts DEF Kept
  <1>9. PICK none : none = {}
    OBVIOUS
  <1>10. PICK str : str = dn \o pr.queue
    OBVIOUS
  <1>11. Onward(c, old, str, names, str, none)
    <2>1. \A i \in Ids : i < s.server.next => names[i] = s.server.names[i]
      BY <1>3, <1>6
    <2>2. str = down[c] \o s.peer[c].queue
      BY <1>2, <1>10
    <2>3. Onward(c, s.server.names, str, names, str, none)
      BY <1>9, <2>1, <2>2, OnwardRenamed
    <2> QED
      BY <1>3, <2>3
  <1>12. CASE pr.id = NoId
    <2>1. r = pr
      BY <1>6, <1>12
    <2> QED
      BY <1>2, <1>3, <1>8, <1>9, <1>10, <1>11, <1>12, <2>1 DEF Sent
  <1>13. CASE pr.id # NoId
    <2>1. q.id = pr.id /\ q.known = pr.known \cup {id}
      BY <1>2, <1>4, PublishUnknownFacts
    <2>2. q = pr \/ q.queue = Append(pr.queue, Assign(id, p))
      BY <1>2, <1>4, PublishUnknownFacts
    <2>3. q \in PeerType
      <3>1. pr.queue \in Seq(ToClient) /\ pr.known \subseteq Ids
        BY <1>4, PeerFacts
      <3>2. PICK k : k = Assign(id, p)
        OBVIOUS
      <3>3. k \in ToClient
        BY <1>5, <3>2, AssignFacts
      <3>4. PICK a : a = Append(pr.queue, k)
        OBVIOUS
      <3>5. a \in Seq(ToClient)
        BY <3>1, <3>3, <3>4, AppendProperties
      <3>6. PICK x : x = Publish(pr, id, p)
        OBVIOUS
      <3>10. PICK pi, pk, pq : pi = pr.id /\ pk = pr.known /\ pq = pr.queue
        OBVIOUS
      <3>11. pr = [id |-> pi, known |-> pk, queue |-> pq]
        BY <1>4, <3>10, PeerFacts
      <3>12. x = [id |-> pi, known |-> pk \cup {id}, queue |-> Append(pq, k)]
        BY <3>2, <3>6, <3>11 DEF Publish
      <3>7. x = [id |-> pr.id, known |-> pr.known \cup {id}, queue |-> a]
        BY <3>4, <3>10, <3>12
      <3>8. pr.id \in Ids \cup {NoId}
        BY <1>4, PeerFacts
      <3>9. x \in PeerType
        BY <3>1, <3>5, <3>7, <3>8 DEF PeerType
      <3> QED
        BY <1>2, <1>4, <3>6, <3>9 DEF PublishUnknown
    <2>4. r.id = q.id /\ r.known = q.known /\ r.queue = Append(q.queue, m)
      <3>1. r = Enqueue(q, m)
        BY <1>6, <1>13
      <3>2. q = [id |-> q.id, known |-> q.known, queue |-> q.queue]
        BY <2>3, PeerFacts
      <3>3. PICK i, k, b : i = q.id /\ k = q.known /\ b = q.queue
        OBVIOUS
      <3>4. r = [id |-> i, known |-> k, queue |-> Append(b, m)]
        BY <3>1, <3>2, <3>3 DEF Enqueue
      <3> QED
        BY <3>3, <3>4
    <2>5. News(written[p], time, names, p, m) /\ NamesId(m) /\ m.id = id
      <3>1. PICK w, now : w = written[p] /\ now = time
        OBVIOUS
      <3>4. Newest(e) /\ m = ChangeOf(e, id)
        BY <1>1, <1>6
      <3>2. News(written[e.path], time, names, e.path, m) /\ NamesId(m) /\ m.id = id
        BY <1>5, <3>4, NewestIsNews
      <3> QED
        BY <1>1, <3>2
    <2>6. told = {p}
      BY <1>1
    <2>14. dn \in Seq(ToClient)
      BY <1>2
    <2>15. names[id] = p
      BY <1>7
    <2>16. Tells(pr, q, r, id, p, m)
      BY <1>4, <1>5, <2>2, <2>3, <2>4, <2>5 DEF Tells
    <2>7. PICK new : new = dn \o r.queue
      OBVIOUS
    <2>8. Onward(c, names, str, names, new, told) /\ (Finishes(new) => Finishes(str))
      <3>1. str = OnWay(dn, pr) /\ new = OnWay(dn, r)
        BY <1>10, <2>7 DEF OnWay
      <3>2. Tidings(names, pr, q, r, id, p, m)
        BY <2>5, <2>15, <2>16 DEF Tidings
      <3>3. /\ Onward(c, names, OnWay(dn, pr), names, OnWay(dn, r), {p})
            /\ Finishes(OnWay(dn, r)) => Finishes(OnWay(dn, pr))
        BY <2>14, <3>2, TellPath
      <3> QED
        BY <2>6, <3>1, <3>3
    <2>10. Onward(c, old, str, names, new, told)
      BY <1>9, <1>11, <2>8, OnwardTwice
    <2>11. r.known = pr.known \cup {id} /\ r.id = pr.id
      BY <2>1, <2>4
    <2>12. AllKnown(old, pr.known) => AllKnown(names, r.known)
      BY <1>6, <2>11 DEF AllKnown
    <2>13. \A i \in r.known \ pr.known : i < u.server.next /\ names[i] \in told
      BY <1>7, <2>6, <2>11
    <2> QED
      BY <1>2, <1>3, <1>8, <1>10, <1>13, <2>7, <2>8, <2>10, <2>11, <2>12, <2>13 DEF Sent
  <1> QED
    BY <1>12, <1>13

\* The paths of the dirty entries among the first m of the table es.
ToldUpTo(es, m) == {p \in Paths : \E g \in 1..m : es[g].dirty /\ es[g].path = p}

\* es and fs are n entries that differ in the ids of dirty ones, which have one in
\* fs if they are among the first m.
Alike(es, fs, n, m) ==
    \A g \in 1..n :
       /\ fs[g] = [es[g] EXCEPT !.id = fs[g].id]
       /\ ~es[g].dirty => fs[g] = es[g]
       /\ es[g].dirty /\ g <= m => fs[g].id # NoId

\* x is what process_updates has made of s after m passes.
Reached(s, x, n, m) ==
    /\ Kept(s, x)
    /\ \A c \in Clients : Sent(s, x, c, ToldUpTo(s.store.entries, m))
    /\ Alike(s.store.entries, x.store.entries, n, m)

\* Before the first pass.
LEMMA ReachedNone ==
    ASSUME NEW s, ServerOK(s), NEW n \in Nat, DOMAIN s.store.entries = 1..n, NEW m, m = 0
    PROVE  Reached(s, s, n, m)
  <1>1. Kept(s, s)
    BY DEF Kept
  <1>2. ToldUpTo(s.store.entries, m) = {}
    BY DEF ToldUpTo
  <1>3. \A c \in Clients : Sent(s, s, c, ToldUpTo(s.store.entries, m))
    BY <1>2 DEF Sent, Onward
  <1>4. Alike(s.store.entries, s.store.entries, n, m)
    <2>1. PICK es : es = s.store.entries
      OBVIOUS
    <2>2. \A g \in 1..n : es[g] \in EntryType
      BY <2>1, EntryFacts DEF ServerOK
    <2>3. \A g \in 1..n : es[g] = [es[g] EXCEPT !.id = es[g].id]
      BY <2>2 DEF EntryType
    <2>4. \A g \in 1..n : ~(g <= m)
      OBVIOUS
    <2> QED
      BY <2>1, <2>3, <2>4 DEF Alike
  <1> QED
    BY <1>1, <1>3, <1>4 DEF Reached

\* One more pass, over an entry that is not dirty.
LEMMA ReachedClean ==
    ASSUME NEW s, NEW x, NEW n \in Nat, NEW k \in 1..n, NEW j, j = k - 1, Reached(s, x, n, j),
           ~s.store.entries[k].dirty
    PROVE  Reached(s, x, n, k)
  <1>1. PICK es, fs : es = s.store.entries /\ fs = x.store.entries
    OBVIOUS
  <1>2. \A g \in Int : g <= k <=> (g <= j \/ g = k)
    OBVIOUS
  <1>3. ToldUpTo(es, k) = ToldUpTo(es, j)
    <2>1. \A g : g \in 1..k <=> (g \in 1..j \/ g = k)
      OBVIOUS
    <2> QED
      BY <1>1, <2>1 DEF ToldUpTo
  <1>4. Alike(es, fs, n, k)
    BY <1>1, <1>2 DEF Reached, Alike
  <1> QED
    BY <1>1, <1>3, <1>4 DEF Reached

\* ... and over one that is.
LEMMA ReachedDirty ==
    ASSUME Listening, Clocked, 1 <= time, NEW s, NEW x, ServerOK(s), ServerOK(x),
           NEW n \in Nat, NEW k \in 1..n, NEW j, j = k - 1, Reached(s, x, n, j),
           DOMAIN s.store.entries = 1..n, DOMAIN x.store.entries = 1..n,
           NEW e, e = s.store.entries[k], x.store.entries[k] = e, e.dirty, Newest(e),
           e.id = NoId => x.server.next \in Ids,
           \A c \in Clients : down[c] \in Seq(ToClient), NEW u, u = PublishEntry(x, k)
    PROVE  Reached(s, u, n, k)
  <1>1. PICK es, fs, gs : es = s.store.entries /\ fs = x.store.entries /\ gs = u.store.entries
    OBVIOUS
  <1>2. time \in Int /\ e \in EntryType
    BY EntryFacts DEF Clocked, ServerOK
  <1>3. /\ ServerOK(u) /\ DOMAIN gs = 1..n
        /\ \A g \in (1..n) \ {k} : gs[g] = fs[g]
        /\ u.server.next = IF e.id = NoId THEN x.server.next + 1 ELSE x.server.next
        /\ \E id \in Ids, m \in ToClient : PublishedAs(x, k, u, id, m)
    <2>1. k \in DOMAIN x.store.entries
      OBVIOUS
    <2>2. x.store.entries[k].id = NoId => x.server.next \in Ids
      OBVIOUS
    <2>3. ServerOK(u) /\ DOMAIN gs = 1..n
      BY <1>1, <1>2, <2>1, <2>2, PublishEntryDoes
    <2>4. \A g \in (1..n) \ {k} : gs[g] = fs[g]
      BY <1>1, <1>2, <2>1, <2>2, PublishEntryDoes
    <2>5. u.server.next = IF e.id = NoId THEN x.server.next + 1 ELSE x.server.next
      BY <1>2, <2>1, <2>2, PublishEntryDoes
    <2>6. \E id \in Ids, m \in ToClient : PublishedAs(x, k, u, id, m)
      BY <1>2, <2>1, <2>2, PublishEntryDoes
    <2> QED
      BY <2>3, <2>4, <2>5, <2>6
  <1>4. PICK id \in Ids, m \in ToClient : PublishedAs(x, k, u, id, m)
    BY <1>3
  <1>5. gs[k] = [e EXCEPT !.id = id]
    BY <1>1, <1>4 DEF PublishedAs
  <1>6. PICK one, two, both : /\ one = ToldUpTo(es, j) /\ two = {e.path}
                              /\ both = ToldUpTo(es, k)
    OBVIOUS
  <1>7. both = one \cup two
    <2>1. \A g : g \in 1..k <=> (g \in 1..j \/ g = k)
      OBVIOUS
    <2>2. e.path \in Paths /\ es[k] = e
      BY <1>1, <1>2 DEF EntryType
    <2> QED
      BY <1>6, <2>1, <2>2 DEF ToldUpTo
  <1>8. ASSUME NEW c \in Clients
        PROVE  Kept(x, u) /\ Sent(s, u, c, both)
    <2>1. k \in DOMAIN x.store.entries /\ k \in DOMAIN u.store.entries
      BY <1>1, <1>3
    <2>2. /\ Newest(x.store.entries[k]) /\ two = {x.store.entries[k].path}
          /\ down[c] \in Seq(ToClient)
          /\ u.server.next = IF x.store.entries[k].id = NoId
                             THEN x.server.next + 1 ELSE x.server.next
      BY <1>3, <1>6
    <2>3. Kept(x, u) /\ Sent(x, u, c, two)
      BY <1>3, <1>4, <2>1, <2>2, PublishSends
    <2>4. Sent(s, x, c, one)
      BY <1>1, <1>6 DEF Reached
    <2>5. x.peer[c].known \subseteq Ids
      BY PeerFacts DEF ServerOK, PeerOK
    <2> QED
      BY <1>7, <2>3, <2>4, <2>5, SentTwice
  <1>9. Kept(s, u)
    <2>1. Kept(s, x)
      BY DEF Reached
    <2>3. Kept(x, u)
      <3>1. s.server.next \in Nat
        BY ServerFacts DEF ServerOK
      <3>2. x.server.next \in Nat /\ u.server.next \in Nat
        BY <1>3, ServerFacts DEF ServerOK
      <3>3. x.server.next <= u.server.next
        BY <1>3, <3>2
      <3>4. \A i \in Ids : i < x.server.next => u.server.names[i] = x.server.names[i]
        BY <1>4 DEF PublishedAs
      <3> QED
        BY <3>2, <3>3, <3>4, IdsFacts DEF Kept
    <2> QED
      BY <2>1, <2>3 DEF Kept
  <1>10. Alike(es, gs, n, k)
    <2>1. Alike(es, fs, n, j)
      BY <1>1 DEF Reached
    <2>2. \A g \in 1..n : g # k => gs[g] = fs[g] /\ (g <= k => g <= j)
      BY <1>3
    <2>3. es[k] = e /\ gs[k].id = id /\ id # NoId
      BY <1>1, <1>2, <1>5, IdsAssumption DEF EntryType
    <2>4. /\ gs[k] = [es[k] EXCEPT !.id = gs[k].id]
          /\ ~es[k].dirty => gs[k] = es[k]
          /\ es[k].dirty /\ k <= k => gs[k].id # NoId
      BY <1>5, <2>3
    <2> QED
      BY <2>1, <2>2, <2>4 DEF Alike
  <1> QED
    BY <1>1, <1>6, <1>8, <1>9, <1>10 DEF Reached

\* process_updates tells each connected client of the paths of the dirty entries.
LEMMA PublishAllSends ==
    ASSUME Listening, Clocked, 1 <= time, NEW s, ServerOK(s), EnoughIds(s),
           \A c \in Clients : down[c] \in Seq(ToClient),
           \A h \in DOMAIN s.store.entries :
              s.store.entries[h].dirty => Newest(s.store.entries[h]),
           NEW u, u = PublishAll(s), NEW n \in Nat, n = Len(s.store.entries)
    PROVE  /\ ServerOK(u) /\ DOMAIN u.store.entries = 1..n /\ DOMAIN s.store.entries = 1..n
           /\ Reached(s, u, n, n)
  <1>1. DOMAIN s.store.entries = 1..n /\ time \in Int
    BY StoreFacts DEF ServerOK, Clocked
  <1>2. PICK f : /\ PublishAll(s) = f[n] /\ f[0] = s
                 /\ \A h \in 1..n : f[h] = IF s.store.entries[h].dirty
                                           THEN PublishEntry(f[h - 1], h) ELSE f[h - 1]
    BY PublishPasses
  <1>3. \A m \in 0..n : Passed(s, n, f[m], m)
    BY <1>1, <1>2, PassesOK
  <1>4. \A m \in 1..n : s.store.entries[m].dirty /\ s.store.entries[m].id = NoId =>
                           f[m - 1].server.next \in Ids
    BY <1>1, <1>2, PassesOK
  <1> DEFINE S == {m \in 0..n : Reached(s, f[m], n, m)}
  <1>5. 0 \in S
    BY <1>1, <1>2, ReachedNone
  <1>6. ASSUME NEW k \in 1..n, k - 1 \in S
        PROVE  k \in S
    <2>1. PICK j \in 0..n : j = k - 1 /\ j < k
      OBVIOUS
    <2>2. PICK x : x = f[j]
      OBVIOUS
    <2>3. Reached(s, x, n, j)
      BY <1>6, <2>1, <2>2
    <2>4. Passed(s, n, x, j)
      BY <1>3, <2>1, <2>2
    <2>5. PICK e : e = s.store.entries[k]
      OBVIOUS
    <2>6. ServerOK(x) /\ DOMAIN x.store.entries = 1..n /\ x.store.entries[k] = e
      BY <2>1, <2>4, <2>5 DEF Passed
    <2>7. f[k] = IF e.dirty THEN PublishEntry(x, k) ELSE x
      BY <1>2, <2>1, <2>2, <2>5
    <2>8. CASE e.dirty
      <3>1. PICK y : y = PublishEntry(x, k)
        OBVIOUS
      <3>2. Newest(e) /\ (e.id = NoId => x.server.next \in Ids)
        BY <1>1, <1>4, <2>1, <2>2, <2>5, <2>8
      <3>3. Reached(s, y, n, k)
        BY <1>1, <2>1, <2>3, <2>5, <2>6, <2>8, <3>1, <3>2, ReachedDirty
      <3> QED
        BY <2>7, <2>8, <3>1, <3>3
    <2>9. CASE ~e.dirty
      <3>1. Reached(s, x, n, k)
        BY <2>1, <2>3, <2>5, <2>9, ReachedClean
      <3> QED
        BY <2>7, <2>9, <3>1
    <2> QED
      BY <2>8, <2>9
  <1> HIDE DEF S
  <1>7. 0..n \subseteq S
    BY <1>5, <1>6, Induct
  <1>8. n \in S
    BY <1>7
  <1>9. Reached(s, u, n, n) /\ Passed(s, n, u, n)
    BY <1>2, <1>3, <1>8 DEF S
  <1> QED
    BY <1>1, <1>9 DEF Passed

\* The paths that read something and have an id in ids.
Shown(names, ids) == {p \in Paths : latest(p) # Absent /\ \E i \in ids : names[i] = p}

\* One id shows its path, if that reads something.
LEMMA OneShown ==
    ASSUME NEW names, NEW id, NEW p \in Paths, names[id] = p
    PROVE  /\ latest(p) = Absent => Shown(names, {id}) = {}
           /\ latest(p) # Absent => Shown(names, {id}) = {p}
  <1>1. \A o \in Paths : o \in Shown(names, {id}) <=> latest(o) # Absent /\ o = p
    BY DEF Shown
  <1>2. Shown(names, {id}) \subseteq Paths
    BY DEF Shown
  <1> QED
    BY <1>1, <1>2

\* From pr to u a client with dn on its connection was told of the ids it knows now.
Greets(sv, c, dn, pr, u) ==
    /\ u.id = pr.id /\ pr.known \subseteq u.known /\ u.known \subseteq Ids
    /\ Finishes(dn \o u.queue) => Finishes(dn \o pr.queue)
    /\ Onward(c, sv.names, dn \o pr.queue, sv.names, dn \o u.queue,
              Shown(sv.names, u.known \ pr.known))

\* One id after the other.
LEMMA GreetsTwice ==
    ASSUME NEW sv, NEW c, NEW dn, NEW pr, NEW q, NEW u,
           Greets(sv, c, dn, pr, q), Greets(sv, c, dn, q, u)
    PROVE  Greets(sv, c, dn, pr, u)
  <1>1. PICK names, sa, sb, sd : /\ names = sv.names /\ sa = dn \o pr.queue
                                 /\ sb = dn \o q.queue /\ sd = dn \o u.queue
    OBVIOUS
  <1>2. PICK one, two, both : /\ one = Shown(names, q.known \ pr.known)
                              /\ two = Shown(names, u.known \ q.known)
                              /\ both = Shown(names, u.known \ pr.known)
    OBVIOUS
  <1>3. both \subseteq one \cup two
    BY <1>2 DEF Shown
  <1>4. Onward(c, names, sa, names, sb, one) /\ Onward(c, names, sb, names, sd, two)
    BY <1>1, <1>2 DEF Greets
  <1>5. Onward(c, names, sa, names, sd, both)
    BY <1>3, <1>4, OnwardTwice
  <1> QED
    BY <1>1, <1>2, <1>5 DEF Greets

\* server_client::publish alone.
LEMMA PublishFacts ==
    ASSUME NEW pr \in PeerType, NEW id \in Ids, NEW p \in Paths, NEW q, q = Publish(pr, id, p)
    PROVE  /\ q \in PeerType /\ q.id = pr.id /\ q.known = pr.known \cup {id}
           /\ q.queue = Append(pr.queue, Assign(id, p))
  <1>1. PICK k, i, b, n : k = Assign(id, p) /\ i = pr.id /\ b = pr.queue /\ n = pr.known
    OBVIOUS
  <1>2. /\ pr = [id |-> i, known |-> n, queue |-> b] /\ i \in Ids \cup {NoId}
        /\ n \subseteq Ids /\ b \in Seq(ToClient)
    BY <1>1, PeerFacts
  <1>3. PICK a : a = Append(b, k)
    OBVIOUS
  <1>4. a \in Seq(ToClient)
    BY <1>1, <1>2, <1>3, AssignFacts, AppendProperties
  <1>5. q = [id |-> i, known |-> n \cup {id}, queue |-> a]
    BY <1>1, <1>2, <1>3 DEF Publish
  <1>6. q \in PeerType
    BY <1>2, <1>4, <1>5 DEF PeerType
  <1> QED
    BY <1>1, <1>3, <1>5, <1>6

\* Enqueue alone.
LEMMA EnqueueFacts ==
    ASSUME NEW pr \in PeerType, NEW m \in ToClient, NEW q, q = Enqueue(pr, m)
    PROVE  /\ q \in PeerType /\ q.id = pr.id /\ q.known = pr.known
           /\ q.queue = Append(pr.queue, m)
  <1>1. PICK i, b, n : i = pr.id /\ b = pr.queue /\ n = pr.known
    OBVIOUS
  <1>2. /\ pr = [id |-> i, known |-> n, queue |-> b] /\ i \in Ids \cup {NoId}
        /\ n \subseteq Ids /\ b \in Seq(ToClient)
    BY <1>1, PeerFacts
  <1>3. PICK a : a = Append(b, m)
    OBVIOUS
  <1>4. a \in Seq(ToClient)
    BY <1>2, <1>3, AppendProperties
  <1>5. q = [id |-> i, known |-> n, queue |-> a]
    BY <1>2, <1>3 DEF Enqueue
  <1>6. q \in PeerType
    BY <1>2, <1>4, <1>5 DEF PeerType
  <1> QED
    BY <1>1, <1>3, <1>5, <1>6

\* u is pr told of one more id and of what its path reads.
GreetedWith(names, pr, q, u, id, p, m) ==
    /\ Tidings(names, pr, q, u, id, p, m)
    /\ u \in PeerType /\ id \notin pr.known /\ u.known = pr.known \cup {id}
    /\ u.id = pr.id /\ latest(p) # Absent

\* A client that is told of one more id and of what its path reads.
LEMMA GreetTells ==
    ASSUME Clocked, NEW c \in Clients, NEW dn \in Seq(ToClient), NEW names,
           NEW pr, NEW q, NEW u, NEW id, NEW p, NEW m,
           GreetedWith(names, pr, q, u, id, p, m)
    PROVE  \A sv : sv.names = names => Greets(sv, c, dn, pr, u)
  <1>1. /\ Tidings(names, pr, q, u, id, p, m)
        /\ u \in PeerType /\ id \notin pr.known /\ u.known = pr.known \cup {id}
        /\ u.id = pr.id /\ latest(p) # Absent
    BY DEF GreetedWith
  <1>2. /\ Onward(c, names, OnWay(dn, pr), names, OnWay(dn, u), {p})
        /\ Finishes(OnWay(dn, u)) => Finishes(OnWay(dn, pr))
    BY <1>1, TellPath
  <1>3. u.known \ pr.known = {id}
    BY <1>1
  <1>4. Shown(names, {id}) = {p}
    <2>1. p \in Paths /\ names[id] = p
      BY <1>1 DEF Tidings, Tells
    <2>2. latest(p) # Absent
      BY <1>1
    <2> QED
      BY <2>1, <2>2, OneShown
  <1>5. pr.known \subseteq u.known /\ u.known \subseteq Ids
    BY <1>1, PeerFacts DEF Tidings, Tells
  <1> QED
    BY <1>1, <1>2, <1>3, <1>4, <1>5 DEF Greets, OnWay

\* handle_do_handshake_for_client, one id: the client is told of it, and of what
\* its path reads.
LEMMA GreetSends ==
    ASSUME Listening, Clocked, 1 <= time, NEW s, ServerOK(s),
           \A p \in Paths : Held(s.store, p).reading = latest(p),
           NEW c \in Clients, NEW dn \in Seq(ToClient), NEW pr \in PeerType,
           NEW id \in Ids, s.server.names[id] # Absent, NEW u, u = GreetWith(pr, s, id)
    PROVE  Greets(s.server, c, dn, pr, u) /\ id \in u.known /\ u \in PeerType
  <1>1. PICK names, p, h : /\ names = s.server.names /\ p = names[id]
                           /\ h = s.store.ids[id]
    OBVIOUS
  <1>2. /\ StoreInv(s.store) /\ NamesOK(s.store, s.server)
        /\ p \in Paths /\ pr.known \subseteq Ids
    BY <1>1, ServerFacts, PeerFacts DEF ServerOK
  <1>3. h # 0 /\ s.store.entries[h].path = p
    BY <1>1, <1>2 DEF NamesOK
  <1>4. h \in DOMAIN s.store.entries
    BY <1>1, <1>2, <1>3 DEF StoreInv, IdIndex
  <1>5. PICK e : e = s.store.entries[h]
    OBVIOUS
  <1>6. e \in EntryType /\ Reading(e) = latest(p)
    <2>1. Held(s.store, p) = Holding(e)
      BY <1>2, <1>3, <1>4, <1>5, HeldBy
    <2> QED
      BY <1>2, <1>4, <1>5, <2>1, EntryFacts DEF Holding
  <1>7. ReadingById(s.store, id) = Reading(e)
    BY <1>1, <1>3, <1>5 DEF ReadingById
  <1>8. PICK v, q : v = Reading(e) /\ q = Publish(pr, id, p)
    OBVIOUS
  <1>9. u = IF id \in pr.known THEN pr
            ELSE IF v = Absent THEN q ELSE Enqueue(q, Update(id, v, time))
    BY <1>1, <1>7, <1>8 DEF GreetWith
  <1>10. /\ q \in PeerType /\ q.id = pr.id /\ q.known = pr.known \cup {id}
         /\ q.queue = Append(pr.queue, Assign(id, p))
    BY <1>2, <1>8, PublishFacts
  <1>11. CASE id \in pr.known
    <2>1. u = pr
      BY <1>9, <1>11
    <2>2. Shown(names, {}) = {}
      BY DEF Shown
    <2> QED
      BY <1>1, <1>2, <1>11, <2>1, <2>2 DEF Greets, Onward
  <1>12. CASE id \notin pr.known /\ v = Absent
    <2>1. u = q
      BY <1>9, <1>12
    <2>2. PICK told : told = Shown(names, u.known \ pr.known)
      OBVIOUS
    <2>6. u.known = pr.known \cup {id} /\ latest(p) = Absent
      BY <1>6, <1>8, <1>10, <1>12, <2>1
    <2>3. told = {}
      <3>1. u.known \ pr.known = {id}
        BY <1>12, <2>6
      <3>2. Shown(names, {id}) = {}
        BY <1>1, <1>2, <2>6, OneShown
      <3> QED
        BY <2>2, <3>1, <3>2
    <2>4. Onward(c, names, dn \o pr.queue, names, dn \o q.queue, told)
      BY <1>2, <1>10, <2>3, TellId
    <2>5. Finishes(dn \o q.queue) => Finishes(dn \o pr.queue)
      <3>1. PICK none : none = {}
        OBVIOUS
      <3> QED
        BY <1>2, <1>10, <3>1, TellId
    <2> QED
      BY <1>1, <1>2, <1>10, <2>1, <2>2, <2>4, <2>5 DEF Greets
  <1>13. CASE id \notin pr.known /\ v # Absent
    <2>1. PICK m : m = Update(id, v, time)
      OBVIOUS
    <2>2. u = Enqueue(q, m)
      BY <1>9, <1>13, <2>1
    <2>3. v \in AnyValue
      BY <1>6, <1>8, <1>13 DEF Reading, EntryType
    <2>4. /\ m \in ToClient /\ m.type = "entry_update" /\ m.id = id /\ m.ts = time
          /\ m.value = v
      <3>1. time \in Int
        BY DEF Clocked
      <3> QED
        BY <2>1, <2>3, <3>1 DEF Update, ToClient, UpdateMsg
    <2>5. /\ u \in PeerType /\ u.id = q.id /\ u.known = q.known
          /\ u.queue = Append(q.queue, m)
      BY <1>10, <2>2, <2>4, EnqueueFacts
    <2>6. Tells(pr, q, u, id, p, m)
      BY <1>2, <1>10, <2>4, <2>5 DEF Tells, NamesId
    <2>7. News(written[p], time, names, p, m)
      <3>1. PICK w, now : w = written[p] /\ now = time
        OBVIOUS
      <3>2. w \in History /\ GoodHistory(w, now) /\ now \in Nat /\ v = w[Len(w)].reading
        BY <1>2, <1>6, <1>8, <3>1 DEF Clocked, latest, Last
      <3>3. Len(w) \in Nat /\ Len(w) # 0
        BY <3>2, HistoryFacts DEF GoodHistory
      <3>4. Len(w) \in 1..Len(w)
        BY <3>3
      <3>5. w[Len(w)].at \in Nat /\ w[Len(w)].at < now
        BY <3>2, <3>4, HistoryFacts DEF GoodHistory
      <3>6. Claim(m).reading = v
        BY <2>4 DEF Claim
      <3> QED
        BY <2>4, <3>1, <3>2, <3>5, <3>6 DEF News
    <2>8. /\ u.known = pr.known \cup {id} /\ u.id = pr.id /\ latest(p) # Absent
          /\ id \notin pr.known /\ names[id] = p
      BY <1>1, <1>6, <1>8, <1>10, <1>13, <2>5
    <2>9. GreetedWith(names, pr, q, u, id, p, m)
      BY <2>5, <2>6, <2>7, <2>8 DEF GreetedWith, Tidings
    <2>10. \A sv : sv.names = names => Greets(sv, c, dn, pr, u)
      BY <2>9, GreetTells
    <2> QED
      BY <1>1, <2>5, <2>8, <2>10
  <1> QED
    BY <1>11, <1>12, <1>13

\* handle_do_handshake_for_client: the client knows all ids and is told of what
\* their paths read.
LEMMA GreetedSends ==
    ASSUME Listening, Clocked, 1 <= time, NEW s, ServerOK(s),
           \A p \in Paths : Held(s.store, p).reading = latest(p),
           NEW c \in Clients, NEW dn \in Seq(ToClient), NEW pr \in PeerType,
           NEW u, u = Greeted(pr, s)
    PROVE  /\ Greets(s.server, c, dn, pr, u) /\ u \in PeerType
           /\ AllKnown(s.server.names, u.known)
  <1>1. PICK n \in Nat : n = Cardinality(Ids)
    BY IdsFacts
  <1>2. PICK f : /\ Greeted(pr, s) = f[n] /\ f[0] = pr
                 /\ \A h \in 1..n : f[h] = IF s.server.names[h - 1] = Absent THEN f[h - 1]
                                           ELSE GreetWith(f[h - 1], s, h - 1)
    BY <1>1, GreetedPasses
  <1>3. PICK names : names = s.server.names
    OBVIOUS
  <1> DEFINE Good(x, m) == /\ Greets(s.server, c, dn, pr, x) /\ x \in PeerType
                           /\ \A i \in Ids : i < m /\ names[i] # Absent => i \in x.known
             S == {m \in 0..n : Good(f[m], m)}
  <1>4. 0 \in S
    <2>1. Shown(names, {}) = {} /\ pr.known \subseteq Ids
      BY PeerFacts DEF Shown
    <2>2. Greets(s.server, c, dn, pr, pr)
      BY <1>3, <2>1 DEF Greets, Onward
    <2>3. \A i \in Ids : ~(i < 0)
      BY IdsFacts
    <2> QED
      BY <1>2, <2>2, <2>3
  <1>5. ASSUME NEW k \in 1..n, k - 1 \in S
        PROVE  k \in S
    <2>1. PICK j \in 0..n : j = k - 1 /\ j \in Nat /\ j < n
      OBVIOUS
    <2>2. PICK x : x = f[j]
      OBVIOUS
    <2>3. Good(x, j)
      BY <1>5, <2>1, <2>2
    <2>4. f[k] = IF names[j] = Absent THEN x ELSE GreetWith(x, s, j)
      BY <1>2, <1>3, <2>1, <2>2
    <2>5. j \in Ids
      BY <1>1, <2>1, IdsFacts
    <2>6. \A i \in Ids : i < k => i < j \/ i = j
      BY <2>1, IdsFacts
    <2>7. CASE names[j] = Absent
      <3>1. Good(x, k)
        BY <2>3, <2>6, <2>7
      <3> HIDE DEF Good
      <3> QED
        BY <2>4, <2>7, <3>1
    <2>8. CASE names[j] # Absent
      <3>1. PICK y : y = GreetWith(x, s, j)
        OBVIOUS
      <3>2. Greets(s.server, c, dn, x, y) /\ j \in y.known /\ y \in PeerType
        BY <1>3, <2>3, <2>5, <2>8, <3>1, GreetSends
      <3>3. Greets(s.server, c, dn, pr, y)
        BY <2>3, <3>2, GreetsTwice
      <3>4. x.known \subseteq y.known
        BY <3>2 DEF Greets
      <3>5. Good(y, k)
        BY <2>3, <2>6, <3>2, <3>3, <3>4
      <3> HIDE DEF Good
      <3> QED
        BY <2>4, <2>8, <3>1, <3>5
    <2> QED
      BY <2>7, <2>8
  <1> HIDE DEF S
  <1>6. 0..n \subseteq S
    BY <1>4, <1>5, Induct
  <1>7. n \in S
    BY <1>6
  <1>8. Good(u, n)
    <2> HIDE DEF Good
    <2> QED
      BY <1>2, <1>7 DEF S
  <1>9. \A i \in Ids : i < n
    BY <1>1, IdsFacts
  <1> QED
    BY <1>3, <1>8, <1>9 DEF AllKnown

-----------------------------------------------------------------------------
(* That the server leads is kept by every step.                             *)

\* What both invariants say of the nodes.
LEMMA Bearings ==
    ASSUME IInv, JInv
    PROVE  /\ Clocked /\ time \in Nat /\ 1 <= time
           /\ \A n \in Nodes : StoreInv(store[n])
           /\ Server \in Nodes /\ Clients \subseteq Nodes /\ Server \notin Clients
           /\ \A c \in Clients : down[c] \in Seq(ToClient) /\ peer[c] \in PeerType
           /\ \A p \in Paths : Held(store[Server], p).reading = latest(p)
  <1>1. /\ time \in Nat /\ 1 <= time
        /\ \A n \in Nodes : StoreInv(store[n])
        /\ \A p \in Paths : written[p] \in History
        /\ \A c \in Clients : down[c] \in Seq(ToClient) /\ peer[c] \in PeerType
    <2>1. time \in Nat /\ 1 <= time
      BY TimeAssumption DEF IInv, Books
    <2>2. \A n \in Nodes : StoreInv(store[n])
      BY DEF IInv, Stores
    <2>3. \A p \in Paths : written[p] \in History
      BY DEF IInv, Books
    <2>4. \A c \in Clients : down[c] \in Seq(ToClient)
      BY DEF IInv, Wires
    <2>5. \A c \in Clients : peer[c] \in PeerType
      BY DEF IInv, Linked, PeerOK
    <2> QED
      BY <2>1, <2>2, <2>3, <2>4, <2>5
  <1>2. Server \in Nodes /\ Clients \subseteq Nodes /\ Server \notin Clients
    BY ClientsAssumption DEF Nodes
  <1>3. \A p \in Paths : GoodHistory(written[p], time) /\ Held(store[Server], p).reading = latest(p)
    BY DEF JInv, Leads
  <1>4. \A c \in Clients, p \in Paths : Held(store[c], p).ts \in Int
    BY <1>1, <1>2, HeldFacts
  <1> QED
    BY <1>1, <1>2, <1>3, <1>4 DEF Clocked

\* Neither the time nor the histories nor the server's storage change.
LEMMA LeadsKept ==
    ASSUME Leads(store[Server]), UNCHANGED <<time, written>>, store'[Server] = store[Server]
    PROVE  Leads(store[Server])'
  <1>1. \A p \in Paths : latest(p)' = latest(p)
    BY DEF latest
  <1> QED
    BY <1>1 DEF Leads

\* A client that holds what it held, when nothing is written.
LEMMA ClientKept ==
    ASSUME NEW c \in Clients, UNCHANGED <<time, written>>,
           \A p \in Paths : Held(store'[c], p) = Held(store[c], p),
           NEW names, NEW str
    PROVE  /\ Forward(names, c, str)' <=> Forward(names, c, str)
           /\ \A p \in Paths : Ends(names, c, str, p)' <=> Ends(names, c, str, p)
  <1>1. \A p \in Paths : latest(p)' = latest(p)
    BY DEF latest
  <1>2. Forward(names, c, str)' <=> Forward(names, c, str)
    BY DEF Forward
  <1>3. ASSUME NEW p \in Paths
        PROVE  Ends(names, c, str, p)' <=> Ends(names, c, str, p)
    BY <1>1, <1>3 DEF Ends
  <1> QED
    BY <1>2, <1>3

\* A client nothing happens to.
LEMMA FollowingKept ==
    ASSUME NEW c \in Clients, UNCHANGED <<time, written>>,
           \A p \in Paths : Held(store'[c], p) = Held(store[c], p),
           store'[Server] = store[Server], server'.names = server.names,
           peer'[c] = peer[c], down'[c] = down[c], missed \subseteq missed',
           client'[c].state = client[c].state \/ client'[c].state # "in_use",
           Following(store[Server], server, missed, c, peer[c], down[c])
    PROVE  Following(store[Server], server, missed, c, peer[c], down[c])'
  <1>1. PICK str : str = down[c] \o peer[c].queue
    OBVIOUS
  <1>2. PICK names : names = server.names
    OBVIOUS
  <1>3. /\ Forward(names, c, str)' <=> Forward(names, c, str)
        /\ \A p \in Paths : Ends(names, c, str, p)' <=> Ends(names, c, str, p)
    BY ClientKept
  <1>4. (down[c] \o peer[c].queue)' = str /\ server'.names = names
    BY <1>1, <1>2
  <1>5. Greeting(server', client'[c].state, peer'[c], down'[c])
    BY DEF Following, Greeting
  <1>6. Forward(names, c, str)'
    BY <1>1, <1>2, <1>3 DEF Following
  <1>7. ASSUME Exact, NEW p \in Paths, Due(store[Server], missed, peer[c].known, p)'
        PROVE  Ends(names, c, str, p)'
    <2>1. latest(p)' = latest(p)
      BY DEF latest
    <2>2. Due(store[Server], missed, peer[c].known, p)
      BY <1>7, <2>1 DEF Due
    <2>3. Ends(names, c, str, p)
      BY <1>1, <1>2, <1>7, <2>2 DEF Following, Complete
    <2> QED
      BY <1>3, <2>3
  <1>8. Exact => Complete(store[Server], names, missed, c, peer[c].known, str)'
    BY <1>7 DEF Complete
  <1> QED
    BY <1>4, <1>5, <1>6, <1>8 DEF Following

\* What a storage says does not depend on its dirty flags.
LEMMA CleanedHeld ==
    ASSUME NEW s, StoreInv(s), NEW u, u = DirtyCleared(s), NEW p \in Paths
    PROVE  Held(u, p) = Held(s, p)
  <1>1. /\ DOMAIN s.entries = 1..Len(s.entries)
        /\ s = [entries |-> s.entries, paths |-> s.paths, ids |-> s.ids]
        /\ \A h \in DOMAIN s.entries : s.entries[h] \in EntryType
    BY StoreFacts
  <1>2. /\ u.paths = s.paths
        /\ u.entries = [h \in DOMAIN s.entries |-> [s.entries[h] EXCEPT !.dirty = FALSE]]
    BY <1>1 DEF DirtyCleared
  <1>3. \A h \in DOMAIN s.entries : Holding(u.entries[h]) = Holding(s.entries[h])
    BY <1>1, <1>2 DEF Holding, Reading, HasValue, EntryType
  <1>4. s.paths[p] # 0 => s.paths[p] \in DOMAIN s.entries
    BY DEF StoreInv, PathIndex
  <1> QED
    BY <1>2, <1>3, <1>4 DEF Held

\* A step of one client, or of the server for it alone.
LEMMA OneClient ==
    ASSUME JInv, NEW c \in Clients, UNCHANGED <<time, written>>,
           store'[Server] = store[Server], server'.names = server.names, missed \subseteq missed',
           \A d \in Clients \ {c} : /\ peer'[d] = peer[d] /\ down'[d] = down[d]
                                    /\ client'[d].state = client[d].state
                                    /\ store'[d] = store[d],
           Following(store[Server], server, missed, c, peer[c], down[c])'
    PROVE  JInv'
  <1>1. Leads(store[Server])'
    BY LeadsKept DEF JInv
  <1>2. ASSUME NEW d \in Clients \ {c}
        PROVE  Following(store[Server], server, missed, d, peer[d], down[d])'
    <2>1. Following(store[Server], server, missed, d, peer[d], down[d])
      BY DEF JInv
    <2> QED
      BY <2>1, FollowingKept
  <1>3. ASSUME NEW d \in Clients
        PROVE  Following(store[Server], server, missed, d, peer[d], down[d])'
    BY <1>2
  <1> QED
    BY <1>1, <1>3 DEF JInv

\* A client that only sends: do_open_and_connect, on_connect and update().
LEMMA SendLeads ==
    ASSUME IInv, JInv, NEW c \in Clients, Connect(c) \/ ClientFlush(c) \/ ClientUpdate(c)
    PROVE  JInv'
  <1>1. Server \in Nodes /\ c \in Nodes /\ Server # c /\ StoreInv(store[c])
    BY Bearings
  <1>2. store = [n \in Nodes |-> store[n]] /\ client = [d \in Clients |-> client[d]]
    BY DEF IInv, Stores, Wires
  <1>3. client[c] = [state |-> client[c].state, queue |-> client[c].queue]
    BY DEF IInv, Wires, ClientType
  <1>4. UNCHANGED <<time, written, server, peer, down, missed>>
    BY DEF Connect, ClientFlush, ClientUpdate
  <1>5. store' = store \/ store' = [store EXCEPT ![c] = DirtyCleared(@)]
    BY DEF Connect, ClientFlush, ClientUpdate
  <1>6. \A p \in Paths : Held(store'[c], p) = Held(store[c], p)
    BY <1>1, <1>2, <1>5, CleanedHeld
  <1>7. \A n \in Nodes \ {c} : store'[n] = store[n]
    BY <1>2, <1>5
  <1>8. /\ \A d \in Clients \ {c} : client'[d] = client[d]
        /\ client'[c].state = client[c].state \/ client'[c].state # "in_use"
    <2>1. CASE Connect(c)
      BY <1>2, <2>1 DEF Connect
    <2>2. CASE ~Connect(c)
      <3>1. client' = [client EXCEPT ![c].queue = <<>>]
        BY <2>2 DEF ClientFlush, ClientUpdate
      <3> QED
        BY <1>2, <1>3, <3>1
    <2> QED
      BY <2>1, <2>2
  <1>9. Following(store[Server], server, missed, c, peer[c], down[c])
    BY DEF JInv
  <1>10. Following(store[Server], server, missed, c, peer[c], down[c])'
    BY <1>1, <1>4, <1>6, <1>7, <1>8, <1>9, FollowingKept
  <1>11. \A d \in Clients \ {c} : d \in Nodes \ {c}
    BY DEF Nodes
  <1> QED
    BY <1>1, <1>4, <1>7, <1>8, <1>10, <1>11, OneClient

\* on_connect: nothing is on its way to the client and it knows nothing.
LEMMA AcceptLeads ==
    ASSUME IInv, JInv, NEW c \in Clients, Accept(c)
    PROVE  JInv'
  <1>1. peer = [d \in Clients |-> peer[d]] /\ server \in ServerType
    BY DEF IInv, Linked
  <1>2. UNCHANGED <<time, written, store, client, down, missed>>
    BY DEF Accept
  <1>3. server'.names = server.names
    BY <1>1, ServerFacts DEF Accept
  <1>4. /\ \A d \in Clients \ {c} : peer'[d] = peer[d]
        /\ peer'[c].known = {} /\ peer'[c].queue = <<>> /\ peer'[c].id = server.serial
    BY <1>1 DEF Accept, NoPeer
  <1>5. Following(store[Server], server, missed, c, peer[c], down[c])
    BY DEF JInv
  <1>6. peer[c].known = {} /\ peer[c].queue = <<>> /\ down[c] = <<>> /\ client[c].state # "in_use"
    BY <1>5 DEF Accept, Following, Greeting
  <1>7. PICK str : str = down[c] \o peer[c].queue
    OBVIOUS
  <1>8. (down[c] \o peer[c].queue)' = str
    BY <1>2, <1>4, <1>6, <1>7
  <1>9. peer'[c].id # NoId
    BY <1>4, IdsAssumption DEF Accept
  <1>10. ~Finishes(str)
    BY <1>6, <1>7 DEF Finishes
  <1>11. Greeting(server', client'[c].state, peer'[c], down'[c])
    BY <1>2, <1>6, <1>8, <1>9, <1>10 DEF Greeting
  <1>12. PICK names : names = server.names
    OBVIOUS
  <1>13. /\ Forward(names, c, str)' <=> Forward(names, c, str)
         /\ \A p \in Paths : Ends(names, c, str, p)' <=> Ends(names, c, str, p)
    BY <1>2, ClientKept
  <1>14. Forward(names, c, str)'
    BY <1>5, <1>7, <1>12, <1>13 DEF Following
  <1>15. ASSUME Exact, NEW p \in Paths, Due(store[Server], missed, peer[c].known, p)'
         PROVE  Ends(names, c, str, p)'
    <2>1. latest(p)' = latest(p)
      BY <1>2 DEF latest
    <2>2. Due(store[Server], missed, peer[c].known, p)
      BY <1>2, <1>4, <1>6, <1>15, <2>1 DEF Due
    <2>3. Ends(names, c, str, p)
      BY <1>5, <1>7, <1>12, <1>15, <2>2 DEF Following, Complete
    <2> QED
      BY <1>13, <2>3
  <1>16. Exact => Complete(store[Server], names, missed, c, peer[c].known, str)'
    BY <1>15 DEF Complete
  <1>17. Following(store[Server], server, missed, c, peer[c], down[c])'
    BY <1>3, <1>8, <1>11, <1>12, <1>14, <1>16 DEF Following
  <1> QED
    BY <1>2, <1>3, <1>4, <1>17, OneClient

\* The path of a dirty entry is dirty.
LEMMA DirtyPath ==
    ASSUME NEW st, StoreInv(st)
    PROVE  /\ \A h \in DOMAIN st.entries : st.entries[h].dirty => PathDirty(st, st.entries[h].path)
           /\ \A p \in Paths : PathDirty(st, p) => \E h \in DOMAIN st.entries :
                 h = st.paths[p] /\ st.entries[h].dirty /\ st.entries[h].path = p
  <1>1. \A h \in DOMAIN st.entries : st.entries[h].path \in Paths /\ st.paths[st.entries[h].path] = h
    BY EntryFacts DEF StoreInv, PathIndex
  <1>2. \A h \in DOMAIN st.entries : h # 0
    BY StoreFacts
  <1>3. \A p \in Paths : st.paths[p] # 0 =>
            st.paths[p] \in DOMAIN st.entries /\ st.entries[st.paths[p]].path = p
    BY DEF StoreInv, PathIndex
  <1> QED
    BY <1>1, <1>2, <1>3 DEF PathDirty

\* on_close and on_disconnect: a deletion that was on its way is missed.
LEMMA DisconnectLeads ==
    ASSUME IInv, JInv, NEW c \in Clients, Disconnect(c)
    PROVE  JInv'
  <1>1. /\ peer = [d \in Clients |-> peer[d]] /\ client = [d \in Clients |-> client[d]]
        /\ down = [d \in Clients |-> down[d]] /\ StoreInv(store[Server])
    BY Bearings DEF IInv, Linked, Wires
  <1>2. client[c] = [state |-> client[c].state, queue |-> client[c].queue]
    BY DEF IInv, Wires, ClientType
  <1>3. UNCHANGED <<time, written, store, server>>
    BY DEF Disconnect
  <1>4. /\ peer'[c] = NoPeer /\ down'[c] = <<>> /\ client'[c].state = "opening"
        /\ \A d \in Clients \ {c} :
              peer'[d] = peer[d] /\ down'[d] = down[d] /\ client'[d] = client[d]
    BY <1>1, <1>2 DEF Disconnect
  <1>5. missed \subseteq missed'
    BY DEF Disconnect
  <1>6. PICK str : str = down[c] \o peer[c].queue
    OBVIOUS
  <1>7. PICK none : none = <<>> \o <<>>
    OBVIOUS
  <1>8. Len(none) = 0 /\ none = <<>>
    BY <1>7
  <1>9. (down[c] \o peer[c].queue)' = none
    BY <1>4, <1>7 DEF NoPeer
  <1>10. PICK names : names = server.names
    OBVIOUS
  <1>11. Forward(names, c, str)
    BY <1>6, <1>10 DEF JInv, Following
  <1>12. ASSUME NEW p \in Paths
         PROVE  /\ InLine(written[p], time, names, p, Held(store[c], p), none)
                /\ Held(store[c], p).reading = latest(p) => Ends(names, c, none, p)
    <2>1. PICK x : x = Held(store[c], p)
      OBVIOUS
    <2>2. InLine(written[p], time, names, p, x, str)
      BY <1>11, <2>1 DEF Forward
    <2>3. /\ InLine(written[p], time, names, p, x, none)
          /\ \A r : EndsWith(names, p, x, none, r) <=> x.reading = r
      BY <1>8, <2>2, LineEmpty
    <2> QED
      BY <2>1, <2>3 DEF Ends
  <1>13. Forward(names, c, none)
    BY <1>12 DEF Forward
  <1>14. /\ Forward(names, c, none)' <=> Forward(names, c, none)
         /\ \A p \in Paths : Ends(names, c, none, p)' <=> Ends(names, c, none, p)
    BY <1>3, ClientKept
  <1>15. Greeting(server', client'[c].state, peer'[c], down'[c])
    BY <1>4, <1>8, <1>9 DEF Greeting, NoPeer, Finishes
  <1>16. ASSUME NEW p \in Paths, Due(store[Server], missed, peer[c].known, p)'
         PROVE  Ends(names, c, none, p)'
    <2>1. latest(p)' = latest(p)
      BY <1>3 DEF latest
    <2>2. ~PathDirty(store[Server], p) /\ p \notin missed' /\ latest(p) = Absent
      BY <1>3, <1>4, <1>16, <2>1 DEF Due, Knows, NoPeer, PathDirty
    <2>3. p \notin DirtyPaths({TRUE})
      <3>1. \A h \in DOMAIN store[Server].entries :
               store[Server].entries[h].dirty => store[Server].entries[h].path # p
        BY <1>1, <2>2, DirtyPath
      <3> QED
        BY <3>1 DEF DirtyPaths, DirtyHandles
    <2>4. ReadingAt(c, p) = Absent
      BY <2>2, <2>3 DEF Disconnect
    <2>5. Held(store[c], p).reading = Absent
      BY <2>4 DEF ReadingAt, Held, Holding, Nothing
    <2> QED
      BY <1>12, <1>14, <2>2, <2>5
  <1>17. Complete(store[Server], names, missed, c, peer[c].known, none)'
    BY <1>16 DEF Complete
  <1>18. Following(store[Server], server, missed, c, peer[c], down[c])'
    BY <1>3, <1>9, <1>10, <1>13, <1>14, <1>15, <1>17 DEF Following
  <1> QED
    BY <1>3, <1>4, <1>5, <1>18, OneClient

\* What a client that only listens has before it reads the first message m of str.
Reads(c, m, str) ==
    /\ m \in ToClient /\ str \in Seq(ToClient) /\ str # <<>> /\ Head(str) = m
    /\ Forward(server.names, c, str)
    /\ Follows(store[c], server) /\ Right(server, m) /\ AtHome(store[c])
    /\ NamesId(m) => /\ store[c].ids[m.id] # 0 /\ server.names[m.id] \in Paths
                     /\ 1 <= m.ts

\* The messages on its way to a client that only listens are such.
LEMMA ReadingFacts ==
    ASSUME Listening, IInv, JInv, NEW c \in Clients, down[c] # <<>>,
           NEW str, str = down[c] \o peer[c].queue
    PROVE  /\ Reads(c, Head(down[c]), str)
           /\ Tail(str) = Tail(down[c]) \o peer[c].queue
  <1>1. down[c] \in Seq(ToClient) /\ peer[c] \in PeerType /\ c \in Nodes
    BY Bearings
  <1>2. peer[c].queue \in Seq(ToClient)
    BY <1>1, PeerFacts
  <1>3. PICK m : m = Head(down[c])
    OBVIOUS
  <1>4. /\ str \in Seq(ToClient) /\ str # <<>> /\ Head(str) = m /\ m \in ToClient
        /\ Tail(str) = Tail(down[c]) \o peer[c].queue
        /\ 1 \in 1..Len(str) /\ str[1] = m
    <2>1. PICK a, b : a = down[c] /\ b = peer[c].queue
      OBVIOUS
    <2>2. a \in Seq(ToClient) /\ b \in Seq(ToClient)
      BY <1>1, <1>2, <2>1
    <2>3. a # <<>> /\ str = a \o b
      BY <2>1
    <2>4. str \in Seq(ToClient) /\ str # <<>> /\ Head(str) = Head(a)
      BY <2>2, <2>3, TailJoin
    <2>5. Tail(str) = Tail(a) \o b /\ Head(a) \in ToClient
      BY <2>2, <2>3, TailJoin
    <2>6. 1 \in 1..Len(str) /\ str[1] = Head(a)
      BY <2>2, <2>3, TailJoin
    <2> QED
      BY <1>3, <2>1, <2>2, <2>4, <2>5, <2>6
  <1>5. StreamOK(store[c].ids, server, str, peer[c].known)
    BY DEF IInv, Linked, PeerOK
  <1>6. /\ Followed(server) /\ NamesOK(store[Server], server) /\ AtHome(store[c])
    BY DEF IInv, Names, Followers
  <1>7. Follows(store[c], server)
    BY <1>6 DEF Followed, Follows
  <1>8. Right(server, m)
    BY <1>4, <1>5 DEF StreamOK, AllRight
  <1>9. Forward(server.names, c, str)
    BY DEF JInv, Following
  <1>10. ASSUME NamesId(m)
         PROVE  store[c].ids[m.id] # 0 /\ server.names[m.id] \in Paths /\ 1 <= m.ts
    <2>1. Told(store[c].ids, str, m.id, 1 - 1)
      BY <1>4, <1>5, <1>10 DEF StreamOK, InOrder, Orderly
    <2>2. store[c].ids[m.id] # 0
      BY <2>1 DEF Told
    <2>3. m.id \in Ids
      BY <1>4, <1>10, ClaimFacts
    <2>4. /\ server.names[m.id] = store[c].entries[store[c].ids[m.id]].path
          /\ store[c].ids[m.id] \in DOMAIN store[c].entries /\ StoreInv(store[c])
      BY <1>1, <1>7, <2>2, <2>3, Bearings DEF Follows, StoreInv, IdIndex
    <2>5. server.names[m.id] \in Paths
      BY <2>4, EntryFacts
    <2>6. PICK p \in Paths : p = server.names[m.id]
      BY <2>5
    <2>7. About(server.names, str[1], p)
      BY <1>4, <1>10, <2>6 DEF About
    <2>8. InLine(written[p], time, server.names, p, Held(store[c], p), str)
      BY <1>9 DEF Forward
    <2>9. 1 <= m.ts
      BY <1>4, <2>7, <2>8 DEF InLine
    <2> QED
      BY <2>2, <2>5, <2>9
  <1> QED
    BY <1>3, <1>4, <1>6, <1>7, <1>8, <1>9, <1>10 DEF Reads

\* Where nothing is cleared and the values of a path are of one type, a client
\* that listens refuses no value.
LEMMA ReadingFits ==
    ASSUME Exact, IInv, JInv, NEW c \in Clients, NEW m, NEW str, Reads(c, m, str)
    PROVE  Fitting(store[c], server.names, m)
  <1> SUFFICES ASSUME m.type = "entry_update", NEW h \in DOMAIN store[c].entries,
                      About(server.names, m, store[c].entries[h].path),
                      Mismatch(store[c].entries[h].value, m.value)
               PROVE  FALSE
    BY DEF Fitting
  <1>1. StoreInv(store[c])
    BY Bearings
  <1>2. PICK e : e = store[c].entries[h]
    OBVIOUS
  <1>3. e.path \in Paths /\ e.value \in AnyValue
    BY <1>1, <1>2, EntryFacts
  <1>4. PICK p \in Paths : p = e.path
    BY <1>3
  <1>5. m \in UpdateMsg
    BY ToClientFacts DEF Reads
  <1>6. m.value \in AnyValue /\ m.id \in Ids
    BY <1>5 DEF UpdateMsg
  <1>7. Len(str) \in Nat /\ str[1] = m /\ 1 \in 1..Len(str)
    BY DEF Reads
  <1>8. About(server.names, str[1], p) /\ server.names[m.id] = p
    BY <1>2, <1>4, <1>7 DEF About
  <1>9. InLine(written[p], time, server.names, p, Held(store[c], p), str)
    BY DEF Forward, Reads
  <1>10. Placed(written[p], Claim(m))
    BY <1>7, <1>8, <1>9 DEF InLine
  <1>11. PICK k \in 1..Len(written[p]) : written[p][k].reading = Claim(m).reading
    BY <1>10 DEF Placed, IsAt
  <1>12. written[p][k].reading # Empty
    BY DEF JInv, Leads, Exact
  <1>13. m.value # Empty
    BY <1>11, <1>12 DEF Claim
  <1>14. m.value \in Values
    BY <1>6, <1>13 DEF AnyValue
  <1>15. HomeOf[m.value] = p
    BY <1>8, <1>14 DEF Reads, Right
  <1>16. e.value # Empty /\ TypeOf[e.value] # TypeOf[m.value]
    BY <1>2, <1>13 DEF Mismatch
  <1>17. e.value \in Values
    BY <1>3, <1>16 DEF AnyValue
  <1>18. HomeOf[e.value] = p
    BY <1>2, <1>4, <1>17 DEF Reads, AtHome
  <1> QED
    BY <1>14, <1>15, <1>16, <1>17, <1>18 DEF Exact

\* What the client holds then takes it on: forward, and no less to the end.
LEMMA ReadingLeads ==
    ASSUME Listening, IInv, JInv, NEW c \in Clients, NEW m, NEW str, Reads(c, m, str),
           NEW s, s = ClientStoreAfter(store[c], m), NEW p \in Paths,
           NEW x, x = Held(store[c], p), NEW y, y = Held(s, p)
    PROVE  /\ InLine(written[p], time, server.names, p, y, Tail(str))
           /\ Exact /\ EndsWith(server.names, p, x, str, latest(p)) =>
                 EndsWith(server.names, p, y, Tail(str), latest(p))
           /\ Takes(server.names, p, x, m, y)
  <1>1. StoreInv(store[c]) /\ time \in Int /\ x.ts \in Int
    BY Bearings DEF Clocked
  <1>2. written[p] \in History /\ GoodHistory(written[p], time)
    BY Bearings DEF Clocked
  <1>3. PICK sv : sv = server
    OBVIOUS
  <1>4. m \in ToClient /\ (NamesId(m) => 1 <= m.ts) /\ Follows(store[c], sv)
    BY <1>3 DEF Reads
  <1>5. PICK st : st = store[c]
    OBVIOUS
  <1>6. /\ \A q \in Paths : Takes(sv.names, q, Held(st, q), m, Held(s, q))
        /\ Fitting(st, sv.names, m) => Agreeing(st, sv.names, m, s)
    BY <1>1, <1>4, <1>5, ReceiveHeld
  <1>7. Takes(sv.names, p, x, m, y)
    BY <1>5, <1>6
  <1>8. InLine(written[p], time, sv.names, p, x, str) /\ str \in Seq(ToClient) /\ str # <<>>
        /\ Head(str) = m
    BY <1>3 DEF Reads, Forward
  <1>9. PICK w \in History : w = written[p]
    BY <1>2
  <1>10. PICK now : now = time
    OBVIOUS
  <1>11. PICK names : names = sv.names
    OBVIOUS
  <1>12. InLine(w, now, names, p, y, Tail(str))
    BY <1>7, <1>8, <1>9, <1>10, <1>11, LineTail
  <1>13. ASSUME Exact, EndsWith(names, p, x, str, latest(p))
         PROVE  EndsWith(names, p, y, Tail(str), latest(p))
    <2>1. Fitting(st, sv.names, m)
      BY <1>3, <1>5, <1>13, ReadingFits
    <2>2. About(names, m, p) => (y = Claim(m) \/ (y = x /\ Keeps(x, m)))
      <3>1. About(names, m, p) => st.ids[m.id] # 0
        BY <1>5 DEF Reads, About
      <3>2. About(names, m, p) /\ st.ids[m.id] # 0 =>
              \/ Held(s, p) = Claim(m)
              \/ Held(s, p) = Held(st, p) /\ Keeps(Held(st, p), m)
        BY <1>6, <1>11, <2>1 DEF Agreeing
      <3> QED
        BY <1>5, <3>1, <3>2
    <2>3. PICK r : r = latest(p)
      OBVIOUS
    <2>4. GoodHistory(w, now) /\ InLine(w, now, names, p, x, str) /\ EndsWith(names, p, x, str, r)
      BY <1>2, <1>8, <1>9, <1>10, <1>11, <1>13, <2>3
    <2>5. Takes(names, p, x, Head(str), y)
      BY <1>7, <1>8, <1>11
    <2>6. About(names, Head(str), p) => y = Claim(Head(str)) \/ (y = x /\ Keeps(x, Head(str)))
      BY <1>8, <2>2
    <2>7. EndsWith(names, p, y, Tail(str), r)
      BY <1>1, <1>8, <2>4, <2>5, <2>6, EndTail
    <2> QED
      BY <2>3, <2>7
  <1> QED
    BY <1>3, <1>7, <1>9, <1>10, <1>11, <1>12, <1>13

\* on_message of a client
LEMMA ClientReceiveLeads ==
    ASSUME Listening, IInv, JInv, NEW c \in Clients, ClientReceive(c)
    PROVE  JInv'
  <1>1. /\ store = [n \in Nodes |-> store[n]] /\ client = [d \in Clients |-> client[d]]
        /\ down = [d \in Clients |-> down[d]]
        /\ c \in Nodes /\ Server \in Nodes /\ c # Server /\ Clients \subseteq Nodes
    BY Bearings DEF IInv, Stores, Wires
  <1>2. UNCHANGED <<time, written, server, peer, missed>> /\ down[c] # <<>>
    BY DEF ClientReceive
  <1>3. PICK str : str = down[c] \o peer[c].queue
    OBVIOUS
  <1>4. PICK m : m = Head(down[c])
    OBVIOUS
  <1>5. PICK s : s = ClientStoreAfter(store[c], m)
    OBVIOUS
  <1>6. /\ store'[c] = s /\ down'[c] = Tail(down[c])
        /\ client'[c] = ClientAfter(client[c], m)
        /\ \A n \in Nodes \ {c} : store'[n] = store[n]
        /\ \A d \in Clients \ {c} : down'[d] = down[d] /\ client'[d] = client[d]
    BY <1>1, <1>4, <1>5 DEF ClientReceive
  <1>7. Reads(c, m, str) /\ Tail(str) = Tail(down[c]) \o peer[c].queue
    BY <1>2, <1>3, <1>4, ReadingFacts
  <1>8. PICK new : new = Tail(str)
    OBVIOUS
  <1>9. (down[c] \o peer[c].queue)' = new
    BY <1>2, <1>6, <1>7, <1>8
  <1>10. PICK names : names = server.names
    OBVIOUS
  <1>11. ASSUME NEW p \in Paths
         PROVE  /\ InLine(written[p], time, names, p, Held(s, p), new)
                /\ Exact /\ Ends(names, c, str, p) => EndsWith(names, p, Held(s, p), new, latest(p))
    BY <1>5, <1>7, <1>8, <1>10, ReadingLeads DEF Ends
  <1>12. Forward(names, c, new)'
    BY <1>2, <1>6, <1>11 DEF Forward
  <1>13. ASSUME Exact, NEW p \in Paths, Due(store[Server], missed, peer[c].known, p)'
         PROVE  Ends(names, c, new, p)'
    <2>1. latest(p)' = latest(p)
      BY <1>2 DEF latest
    <2>2. store'[Server] = store[Server]
      BY <1>1, <1>6
    <2>3. Due(store[Server], missed, peer[c].known, p)
      BY <1>2, <1>13, <2>1, <2>2 DEF Due
    <2>4. Ends(names, c, str, p)
      BY <1>3, <1>10, <1>13, <2>3 DEF JInv, Following, Complete
    <2>5. EndsWith(names, p, Held(s, p), new, latest(p))
      BY <1>11, <1>13, <2>4
    <2> QED
      BY <1>6, <2>1, <2>5 DEF Ends
  <1>14. Exact => Complete(store[Server], names, missed, c, peer[c].known, new)'
    BY <1>13 DEF Complete
  <1>15. Greeting(server', client'[c].state, peer'[c], down'[c])
    <2>1. Greeting(server, client[c].state, peer[c], down[c])
      BY DEF JInv, Following
    <2>2. peer[c].id # NoId
      BY <1>2, <2>1 DEF Greeting
    <2>3. Finishes(new) => Finishes(str)
      <3>1. Len(str) \in Nat /\ \A j \in 1..Len(new) : j + 1 \in 1..Len(str) /\ new[j] = str[j + 1]
        BY <1>7, <1>8 DEF Reads
      <3> QED
        BY <3>1 DEF Finishes
    <2>4. m = Finished => Finishes(str)
      <3>1. 1 \in 1..Len(str) /\ str[1] = m
        BY <1>7 DEF Reads
      <3> QED
        BY <3>1 DEF Finishes
    <2>5. m.type = "handshake_finished" => m = Finished
      <3>1. m \in ToClient
        BY <1>7 DEF Reads
      <3> QED
        BY <3>1 DEF ToClient, UpdateMsg, DeletionMsg, AssignMsg, SyncResponse, Finished
    <2>6. client'[c].state = "in_use" => client[c].state = "in_use" \/ m = Finished
      <3>1. client[c] \in ClientType
        BY DEF IInv, Wires
      <3> QED
        BY <1>6, <2>5, <3>1 DEF ClientAfter, ClientType
    <2> QED
      BY <1>2, <1>3, <1>9, <2>1, <2>2, <2>3, <2>4, <2>6 DEF Greeting
  <1>16. Following(store[Server], server, missed, c, peer[c], down[c])'
    BY <1>2, <1>9, <1>10, <1>12, <1>14, <1>15 DEF Following
  <1>17. store'[Server] = store[Server] /\ \A d \in Clients \ {c} : store'[d] = store[d]
    BY <1>1, <1>6
  <1> QED
    BY <1>2, <1>6, <1>16, <1>17, OneClient

\* What the server has on its way to one client goes on, and the server's storage
\* and its names stay.
LEMMA OnwardLeads ==
    ASSUME IInv, JInv, NEW c \in Clients,
           UNCHANGED <<time, written, store, missed, client>>, server'.names = server.names,
           \A d \in Clients \ {c} : peer'[d] = peer[d] /\ down'[d] = down[d],
           peer[c].id # NoId, peer'[c].id # NoId,
           NEW told,
           Onward(c, server.names, down[c] \o peer[c].queue,
                  server.names, down'[c] \o peer'[c].queue, told),
           peer[c].known \subseteq peer'[c].known,
           AllKnown(server.names, peer'[c].known) \/
              (Finishes(down'[c] \o peer'[c].queue) => Finishes(down[c] \o peer[c].queue)),
           \A p \in Paths : latest(p) # Absent /\ Knows(store[Server], peer'[c].known, p) =>
              Knows(store[Server], peer[c].known, p) \/ p \in told
    PROVE  JInv'
  <1>1. PICK str : str = down[c] \o peer[c].queue
    OBVIOUS
  <1>2. PICK new : new = down'[c] \o peer'[c].queue
    OBVIOUS
  <1>3. PICK names : names = server.names
    OBVIOUS
  <1>4. Following(store[Server], server, missed, c, peer[c], down[c])
    BY DEF JInv
  <1>5. Forward(names, c, str) => Forward(names, c, new)
    BY <1>1, <1>2, <1>3 DEF Onward
  <1>6. \A p \in Paths : p \in told \/ Ends(names, c, str, p) => Ends(names, c, new, p)
    BY <1>1, <1>2, <1>3 DEF Onward
  <1>7. /\ Forward(names, c, new)' <=> Forward(names, c, new)
        /\ \A p \in Paths : Ends(names, c, new, p)' <=> Ends(names, c, new, p)
    BY ClientKept
  <1>8. Forward(names, c, new)'
    BY <1>1, <1>3, <1>4, <1>5, <1>7 DEF Following
  <1>9. ASSUME Exact, NEW p \in Paths, Due(store[Server], missed, peer[c].known, p)'
        PROVE  Ends(names, c, new, p)'
    <2>1. latest(p)' = latest(p)
      BY DEF latest
    <2>2. Due(store[Server], missed, peer[c].known, p) \/ p \in told
      BY <1>9, <2>1 DEF Due, Knows
    <2>3. Due(store[Server], missed, peer[c].known, p) => Ends(names, c, str, p)
      BY <1>1, <1>3, <1>4, <1>9 DEF Following, Complete
    <2> QED
      BY <1>6, <1>7, <2>2, <2>3
  <1>10. Exact => Complete(store[Server], names, missed, c, peer[c].known, new)'
    BY <1>9 DEF Complete
  <1>11. Greeting(server, client[c].state, peer[c], down[c])
    BY <1>4 DEF Following
  <1>12. (down[c] \o peer[c].queue)' = new /\ server'.names = names
    BY <1>2, <1>3
  <1>13. Greeting(server', client'[c].state, peer'[c], down'[c])
    <2>1. CASE AllKnown(server.names, peer'[c].known)
      BY <2>1 DEF Greeting, AllKnown
    <2>2. CASE Finishes(new) => Finishes(str)
      BY <1>1, <1>2, <1>11, <2>2 DEF Greeting
    <2> QED
      BY <1>1, <1>2, <2>1, <2>2
  <1>14. Following(store[Server], server, missed, c, peer[c], down[c])'
    BY <1>8, <1>10, <1>12, <1>13 DEF Following
  <1> QED
    BY <1>14, OneClient

\* The answer to a time sync request
LEMMA SyncLeads ==
    ASSUME Listening, IInv, JInv, NEW c \in Clients, ServerReceive(c), Head(up[c]) = SyncRequest
    PROVE  JInv'
  <1>1. down = [d \in Clients |-> down[d]] /\ store = [n \in Nodes |-> store[n]]
    BY DEF IInv, Stores, Wires
  <1>2. Handle(ServerState, c, SyncRequest) = ServerState
    BY DEF Handle, SyncRequest
  <1>3. /\ UNCHANGED <<time, written, client, missed, server, peer>>
        /\ store' = [store EXCEPT ![Server] = store[Server]]
        /\ down' = [down EXCEPT ![c] = Append(@, SyncResponse)] /\ c \in Connected
    <2>1. c \in Connected /\ UNCHANGED missed
      BY DEF ServerReceive
    <2>2. PICK m \in {Head(up[c])} : \E s \in {Handle(ServerState, c, m)} :
             /\ ServerBecomes(s) /\ peer' = s.peer
             /\ down' = IF m.type = "time_sync_request"
                        THEN [down EXCEPT ![c] = Append(@, SyncResponse)] ELSE down
      BY DEF ServerReceive
    <2>3. m = SyncRequest /\ m.type = "time_sync_request"
      BY <2>2 DEF SyncRequest
    <2>4. ServerBecomes(ServerState) /\ peer' = ServerState.peer
      BY <1>2, <2>2, <2>3
    <2> QED
      BY <2>1, <2>2, <2>3, <2>4, StateFacts DEF ServerBecomes
  <1>4. store' = store /\ down'[c] = Append(down[c], SyncResponse)
        /\ \A d \in Clients \ {c} : down'[d] = down[d]
    BY <1>1, <1>3
  <1>5. PICK a, b : a = down[c] /\ b = peer[c].queue
    OBVIOUS
  <1>6. a \in Seq(ToClient) /\ b \in Seq(ToClient)
    BY <1>5, Bearings, PeerFacts
  <1>7. PICK names : names = server.names
    OBVIOUS
  <1>8. PICK new : new = Append(a, SyncResponse) \o b
    OBVIOUS
  <1>9. ASSUME NEW p \in Paths
        PROVE  /\ InLine(written[p], time, names, p, Held(store[c], p), a \o b) =>
                     InLine(written[p], time, names, p, Held(store[c], p), new)
               /\ Ends(names, c, a \o b, p) => Ends(names, c, new, p)
    <2>1. PICK x : x = Held(store[c], p)
      OBVIOUS
    <2>2. PICK w : w = written[p]
      OBVIOUS
    <2>3. InLine(w, time, names, p, x, a \o b) => InLine(w, time, names, p, x, new)
      BY <1>6, <1>8, LineOvertake
    <2>4. \A r : EndsWith(names, p, x, a \o b, r) => EndsWith(names, p, x, new, r)
      BY <1>6, <1>8, LineOvertake
    <2> QED
      BY <2>1, <2>2, <2>3, <2>4 DEF Ends
  <1>10. Finishes(new) => Finishes(a \o b)
    BY <1>6, <1>8, LineOvertake
  <1>11. PICK told : told = {}
    OBVIOUS
  <1>12. Onward(c, names, a \o b, names, new, told)
    BY <1>9, <1>11 DEF Onward, Forward
  <1>13. down[c] \o peer[c].queue = a \o b /\ down'[c] \o peer'[c].queue = new
    BY <1>3, <1>4, <1>5, <1>8
  <1>14. Onward(c, server.names, down[c] \o peer[c].queue,
                server.names, down'[c] \o peer'[c].queue, told)
    BY <1>7, <1>12, <1>13
  <1>15. Finishes(down'[c] \o peer'[c].queue) => Finishes(down[c] \o peer[c].queue)
    BY <1>10, <1>13
  <1>16. peer[c].id # NoId
    BY <1>3 DEF Connected
  <1>17. \A d \in Clients \ {c} : peer'[d] = peer[d] /\ down'[d] = down[d]
    BY <1>3, <1>4
  <1>18. /\ server'.names = server.names /\ peer'[c].id # NoId
         /\ peer[c].known \subseteq peer'[c].known
         /\ \A p \in Paths : Knows(store[Server], peer'[c].known, p) =>
               Knows(store[Server], peer[c].known, p)
         /\ UNCHANGED <<time, written, store, missed, client>>
    BY <1>3, <1>4, <1>16
  <1> QED
    BY <1>14, <1>15, <1>16, <1>17, <1>18, OnwardLeads

\* The handshake of a client and its end
LEMMA ReadyLeads ==
    ASSUME Listening, IInv, JInv, NEW c \in Clients, ServerReceive(c), Head(up[c]) = Ready
    PROVE  JInv'
  <1>1. /\ peer = [d \in Clients |-> peer[d]] /\ store = [n \in Nodes |-> store[n]]
        /\ NamesOK(store[Server], server) /\ server \in ServerType
    BY DEF IInv, Stores, Linked, Names
  <1>2. PICK s : s = ServerState
    OBVIOUS
  <1>3. s.store = store[Server] /\ s.server = server /\ s.peer = peer /\ ServerOK(s)
    BY <1>2, StateFacts, ServerStateOK
  <1>4. PICK u : u = Greeted(peer[c], s)
    OBVIOUS
  <1>5. PICK q : q = Enqueue(u, Finished)
    OBVIOUS
  <1>6. PICK t : t = HandleReady(s, c)
    OBVIOUS
  <1>7. /\ t.store = store[Server] /\ t.server = server /\ t.peer[c] = q
        /\ \A d \in Clients \ {c} : t.peer[d] = peer[d]
    <2>1. s = [store |-> store[Server], server |-> server, peer |-> peer]
      BY <1>2 DEF ServerState
    <2>2. t = [s EXCEPT !.peer = [peer EXCEPT ![c] = q]]
      BY <1>1, <1>3, <1>4, <1>5, <1>6, <2>1 DEF HandleReady
    <2> QED
      BY <1>1, <2>1, <2>2
  <1>8. /\ UNCHANGED <<time, written, client, missed, down, server>> /\ peer' = t.peer
        /\ store' = [store EXCEPT ![Server] = store[Server]] /\ c \in Connected
    <2>1. c \in Connected /\ UNCHANGED missed
      BY DEF ServerReceive
    <2>2. PICK m \in {Head(up[c])} : \E v \in {Handle(ServerState, c, m)} :
             /\ ServerBecomes(v) /\ peer' = v.peer
             /\ down' = IF m.type = "time_sync_request"
                        THEN [down EXCEPT ![c] = Append(@, SyncResponse)] ELSE down
      BY DEF ServerReceive
    <2>3. m = Ready /\ m.type = "handshake_ready"
      BY <2>2 DEF Ready
    <2>4. Handle(s, c, Ready) = t
      BY <1>6 DEF Handle, Ready
    <2>5. ServerBecomes(t) /\ peer' = t.peer
      BY <1>2, <2>2, <2>3, <2>4
    <2> QED
      BY <1>7, <2>1, <2>2, <2>3, <2>5 DEF ServerBecomes
  <1>9. store' = store /\ peer'[c] = q
    BY <1>1, <1>7, <1>8
  <1>10. PICK a, pr : a = down[c] /\ pr = peer[c]
    OBVIOUS
  <1>11. /\ a \in Seq(ToClient) /\ pr \in PeerType
         /\ Clocked /\ 1 <= time /\ \A p \in Paths : Held(s.store, p).reading = latest(p)
    BY <1>3, <1>10, Bearings
  <1>12. /\ Greets(s.server, c, a, pr, u) /\ u \in PeerType
         /\ AllKnown(s.server.names, u.known)
    BY <1>3, <1>4, <1>10, <1>11, GreetedSends
  <1>13. PICK names : names = server.names
    OBVIOUS
  <1>14. PICK told : told = Shown(names, u.known \ pr.known)
    OBVIOUS
  <1>15. /\ Onward(c, names, a \o pr.queue, names, a \o u.queue, told)
         /\ pr.known \subseteq u.known /\ u.id = pr.id /\ u.known \subseteq Ids
    BY <1>3, <1>12, <1>13, <1>14 DEF Greets
  <1>16. PICK none : none = {}
    OBVIOUS
  <1>17. PICK f : f = Finished
    OBVIOUS
  <1>18. f \in ToClient /\ ~NamesId(f)
    BY <1>17 DEF Finished, ToClient, NamesId
  <1>19. q.id = u.id /\ q.known = u.known /\ q.queue = Append(u.queue, f)
    BY <1>5, <1>12, <1>17, <1>18, EnqueueFacts
  <1>20. a \o q.queue = Append(a \o u.queue, f) /\ a \o u.queue \in Seq(ToClient)
    BY <1>11, <1>12, <1>18, <1>19, Queued
  <1>21. Onward(c, names, a \o u.queue, names, a \o q.queue, none)
    <2>1. PICK str : str = a \o u.queue
      OBVIOUS
    <2>2. \A p \in Paths : News(written[p], time, names, p, f)
      BY <1>18, NoNews
    <2>3. str \in Seq(ToClient) /\ \A p \in none : About(names, f, p)
      BY <1>16, <1>20, <2>1
    <2>4. Onward(c, names, str, names, Append(str, f), none)
      BY <1>11, <1>18, <2>2, <2>3, OnwardAppend
    <2> QED
      BY <1>20, <2>1, <2>4
  <1>22. Onward(c, names, a \o pr.queue, names, a \o q.queue, told)
    <2>1. told \subseteq told \cup none
      OBVIOUS
    <2> QED
      BY <1>15, <1>21, <2>1, OnwardTwice
  <1>23. Onward(c, server.names, down[c] \o peer[c].queue,
                server.names, down'[c] \o peer'[c].queue, told)
    BY <1>8, <1>9, <1>10, <1>13, <1>22
  <1>24. peer[c].id # NoId /\ peer'[c].id # NoId
    BY <1>8, <1>9, <1>10, <1>15, <1>19 DEF Connected
  <1>25. AllKnown(server.names, peer'[c].known) /\ peer[c].known \subseteq peer'[c].known
    BY <1>3, <1>9, <1>10, <1>12, <1>15, <1>19
  <1>26. ASSUME NEW p \in Paths, latest(p) # Absent, Knows(store[Server], peer'[c].known, p)
         PROVE  Knows(store[Server], peer[c].known, p) \/ p \in told
    <2>1. PICK st : st = store[Server]
      OBVIOUS
    <2>2. PICK e : e = st.entries[st.paths[p]]
      OBVIOUS
    <2>3. st.paths[p] # 0 /\ e.id \in u.known
      BY <1>9, <1>19, <1>26, <2>1, <2>2 DEF Knows
    <2>4. st.paths[p] \in DOMAIN st.entries /\ e.path = p
      BY <2>1, <2>2, <2>3, Bearings DEF StoreInv, PathIndex
    <2>5. e.id # NoId
      BY <1>15, <2>3, IdsAssumption
    <2>6. names[e.id] = p
      BY <1>1, <1>13, <2>1, <2>2, <2>4, <2>5 DEF NamesOK
    <2> QED
      BY <1>10, <1>14, <1>26, <2>1, <2>2, <2>3, <2>6 DEF Knows, Shown
  <1>27. \A d \in Clients \ {c} : peer'[d] = peer[d] /\ down'[d] = down[d]
    BY <1>7, <1>8
  <1> QED
    BY <1>8, <1>9, <1>23, <1>24, <1>25, <1>26, <1>27, OnwardLeads

\* on_message of the server
LEMMA ServerReceiveLeads ==
    ASSUME Listening, IInv, JInv, NEW c \in Clients, ServerReceive(c)
    PROVE  JInv'
  <1>1. up[c] \in Seq(Signals) /\ up[c] # <<>>
    BY DEF IInv, Followers, ServerReceive
  <1>2. Head(up[c]) \in Signals
    BY <1>1, TailTyped
  <1> QED
    BY <1>2, SyncLeads, ReadyLeads DEF Signals

\* A dirty entry of the server holds what its program wrote last.
LEMMA DirtyNewest ==
    ASSUME IInv, JInv, NEW h \in DOMAIN store[Server].entries, store[Server].entries[h].dirty
    PROVE  Newest(store[Server].entries[h])
  <1>1. PICK st, e : st = store[Server] /\ e = st.entries[h]
    OBVIOUS
  <1>2. StoreInv(st) /\ h \in DOMAIN st.entries
    BY <1>1, Bearings
  <1>3. e \in EntryType /\ EntryLifecycle(e) /\ e.path \in Paths
    BY <1>1, <1>2, EntryFacts
  <1>4. Held(st, e.path) = Holding(e)
    BY <1>1, <1>2, HeldBy
  <1>5. PICK p \in Paths : p = e.path
    BY <1>3
  <1>6. Held(st, p).reading = latest(p) /\ Last(written[p]).at <= Held(st, p).ts
    BY <1>1 DEF JInv, Leads
  <1>7. Reading(e) = latest(p) /\ Last(written[p]).at <= e.ts
    BY <1>4, <1>5, <1>6 DEF Holding
  <1>8. 1 <= e.ts /\ e.ts <= time
    BY <1>1 DEF JInv, Leads
  <1>9. ~e.created
    BY <1>1, <1>3 DEF EntryLifecycle
  <1> QED
    BY <1>1, <1>5, <1>7, <1>8, <1>9 DEF Newest

\* Storages that differ in ids say the same of each path.
LEMMA AlikeHeld ==
    ASSUME NEW s, StoreInv(s), NEW u, StoreInv(u), NEW n, NEW m,
           DOMAIN s.entries = 1..n, DOMAIN u.entries = 1..n,
           Alike(s.entries, u.entries, n, m), NEW p \in Paths
    PROVE  u.paths[p] = s.paths[p] /\ Held(u, p) = Held(s, p)
  <1>1. ASSUME NEW g \in 1..n
        PROVE  u.entries[g].path = s.entries[g].path /\ Holding(u.entries[g]) = Holding(s.entries[g])
    <2>1. PICK e, f : e = s.entries[g] /\ f = u.entries[g]
      OBVIOUS
    <2>2. e \in EntryType /\ f = [e EXCEPT !.id = f.id]
      BY <2>1, EntryFacts DEF Alike
    <2>3. f.path = e.path /\ Holding(f) = Holding(e)
      BY <2>2 DEF EntryType, Holding, Reading, HasValue
    <2> QED
      BY <2>1, <2>3
  <1>2. /\ s.paths[p] # 0 => s.paths[p] \in 1..n /\ s.entries[s.paths[p]].path = p
        /\ u.paths[p] # 0 => u.paths[p] \in 1..n /\ u.entries[u.paths[p]].path = p
        /\ \A h \in 1..n : s.paths[s.entries[h].path] = h /\ u.paths[u.entries[h].path] = h
    BY DEF StoreInv, PathIndex
  <1>3. u.paths[p] = s.paths[p]
    BY <1>1, <1>2
  <1> QED
    BY <1>1, <1>2, <1>3 DEF Held

\* What process_updates leaves: u is the server's state after its passes, st its
\* storage with no entry dirty, and told are the paths it told of.
Updated(u, st, told) ==
    /\ ServerOK(u) /\ st = DirtyCleared(u.store)
    /\ Kept(ServerState, u)
    /\ \A c \in Clients : Sent(ServerState, u, c, told)
    /\ told = {p \in Paths : PathDirty(store[Server], p)}
    /\ \A p \in Paths : st.paths[p] = store[Server].paths[p]
                        /\ Held(st, p) = Held(store[Server], p)
    /\ \A h \in DOMAIN st.entries :
          /\ ~st.entries[h].dirty /\ st.entries[h].id # NoId
          /\ st.entries[h].id < u.server.next
          /\ u.server.names[st.entries[h].id] = st.entries[h].path
          /\ h \in DOMAIN store[Server].entries
          /\ st.entries[h].ts = store[Server].entries[h].ts
          /\ st.entries[h].path = store[Server].entries[h].path
          /\ ~store[Server].entries[h].dirty =>
                st.entries[h].id = store[Server].entries[h].id

\* process_updates is such a step, told of the paths that were dirty.
LEMMA UpdateSends ==
    ASSUME Listening, IInv, JInv, ServerUpdate, NEW u, u = PublishAll(ServerState),
           NEW st, st = DirtyCleared(u.store)
    PROVE  \E told : Updated(u, st, told)
  <1>1. PICK s, a : s = ServerState /\ a = store[Server]
    OBVIOUS
  <1>2. s.store = a /\ s.server = server /\ s.peer = peer /\ ServerOK(s) /\ StoreInv(a)
    BY <1>1, StateFacts, ServerStateOK, Bearings
  <1>3. EnoughIds(s)
    BY <1>1, StateFacts DEF ServerUpdate, EnoughIds, Unnamed
  <1>4. /\ Clocked /\ 1 <= time /\ \A c \in Clients : down[c] \in Seq(ToClient)
    BY Bearings
  <1>5. \A h \in DOMAIN s.store.entries : s.store.entries[h].dirty => Newest(s.store.entries[h])
    BY <1>1, <1>2, DirtyNewest
  <1>6. PICK n : n = Len(s.store.entries)
    OBVIOUS
  <1>7. n \in Nat
    BY <1>2, <1>6, StoreFacts
  <1>8. /\ ServerOK(u) /\ DOMAIN u.store.entries = 1..n /\ DOMAIN s.store.entries = 1..n
        /\ Reached(s, u, n, n)
    BY <1>1, <1>2, <1>3, <1>4, <1>5, <1>6, <1>7, PublishAllSends
  <1>9. PICK told : told = ToldUpTo(a.entries, n)
    OBVIOUS
  <1>10. Kept(s, u) /\ (\A c \in Clients : Sent(s, u, c, told)) /\ Alike(a.entries, u.store.entries, n, n)
    BY <1>2, <1>8, <1>9 DEF Reached
  <1>11. StoreInv(u.store) /\ NamesOK(u.store, u.server) /\ DOMAIN a.entries = 1..n
    BY <1>2, <1>8, StateParts
  <1>12. PICK b : b = u.store
    OBVIOUS
  <1>13. \A p \in Paths : b.paths[p] = a.paths[p] /\ Held(b, p) = Held(a, p)
    <2>2. PICK m : m = n
      OBVIOUS
    <2>3. StoreInv(b) /\ DOMAIN b.entries = 1..n /\ DOMAIN a.entries = 1..n
      BY <1>8, <1>11, <1>12
    <2>4. Alike(a.entries, b.entries, n, m)
      BY <1>10, <1>12, <2>2
    <2> QED
      BY <1>2, <2>3, <2>4, AlikeHeld
  <1>14. \A p \in Paths : Held(st, p) = Held(b, p)
    BY <1>11, <1>12, CleanedHeld
  <1>15. /\ st.paths = b.paths
         /\ st.entries = [h \in DOMAIN b.entries |-> [b.entries[h] EXCEPT !.dirty = FALSE]]
    BY <1>11, <1>12, StoreFacts DEF DirtyCleared
  <1>16. ASSUME NEW h \in DOMAIN st.entries
         PROVE  /\ ~st.entries[h].dirty /\ st.entries[h].id # NoId
                /\ st.entries[h].id < u.server.next
                /\ u.server.names[st.entries[h].id] = st.entries[h].path
                /\ h \in DOMAIN a.entries
                /\ st.entries[h].ts = a.entries[h].ts
                /\ st.entries[h].path = a.entries[h].path
                /\ ~a.entries[h].dirty => st.entries[h].id = a.entries[h].id
    <2>1. PICK e, f, g : e = a.entries[h] /\ f = b.entries[h] /\ g = st.entries[h]
      OBVIOUS
    <2>2. h \in 1..n /\ h \in DOMAIN b.entries /\ h \in DOMAIN a.entries
      BY <1>8, <1>11, <1>12, <1>15
    <2>3. e \in EntryType /\ f \in EntryType
      BY <1>2, <1>11, <1>12, <2>1, <2>2, EntryFacts
    <2>4. g = [f EXCEPT !.dirty = FALSE]
      BY <1>15, <2>1, <2>2
    <2>5. /\ f = [e EXCEPT !.id = f.id] /\ (~e.dirty => f = e)
          /\ e.dirty /\ h <= n => f.id # NoId
      BY <1>10, <1>12, <2>1, <2>2 DEF Alike
    <2>6. ~e.dirty => e.id # NoId
      BY <1>1, <2>1, <2>2 DEF JInv, Leads
    <2>7. h <= n
      BY <1>7, <2>2
    <2>8. f.id # NoId
      BY <2>5, <2>6, <2>7
    <2>9. f.id < u.server.next /\ u.server.names[f.id] = f.path
      BY <1>11, <1>12, <2>1, <2>2, <2>8 DEF NamesOK
    <2>10. ~g.dirty /\ g.id = f.id /\ g.path = f.path /\ g.ts = f.ts
      BY <2>3, <2>4 DEF EntryType
    <2>11. f.path = e.path /\ f.ts = e.ts
      BY <2>3, <2>5 DEF EntryType
    <2> QED
      BY <2>1, <2>2, <2>5, <2>8, <2>9, <2>10, <2>11
  <1>17. told = {p \in Paths : PathDirty(a, p)}
    <2>1. ASSUME NEW p \in Paths
          PROVE  p \in told <=> PathDirty(a, p)
      <3>1. PathDirty(a, p) => p \in told
        <4>1. PathDirty(a, p) => \E h \in DOMAIN a.entries :
                 h = a.paths[p] /\ a.entries[h].dirty /\ a.entries[h].path = p
          BY <1>2, DirtyPath
        <4> QED
          BY <1>9, <1>11, <4>1 DEF ToldUpTo
      <3>2. p \in told => PathDirty(a, p)
        <4>1. \A h \in DOMAIN a.entries :
                 a.entries[h].dirty => PathDirty(a, a.entries[h].path)
          BY <1>2, DirtyPath
        <4> QED
          BY <1>9, <1>11, <4>1 DEF ToldUpTo
      <3> QED
        BY <3>1, <3>2
    <2>2. told \subseteq Paths
      BY <1>9 DEF ToldUpTo
    <2> QED
      BY <2>1, <2>2
  <1>18. st.paths = b.paths /\ st = DirtyCleared(u.store) /\ ServerOK(u) /\ Kept(ServerState, u)
         /\ told = {p \in Paths : PathDirty(store[Server], p)}
         /\ \A c \in Clients : Sent(ServerState, u, c, told)
    BY <1>1, <1>8, <1>10, <1>15, <1>17
  <1>19. \A p \in Paths : st.paths[p] = store[Server].paths[p]
                          /\ Held(st, p) = Held(store[Server], p)
    BY <1>1, <1>13, <1>14, <1>18
  <1>20. Updated(u, st, told)
    BY <1>1, <1>16, <1>18, <1>19 DEF Updated
  <1> QED
    BY <1>20

\* The server's storage leads on when process_updates is done with it.
LEMMA UpdatedLeads ==
    ASSUME Leads(store[Server]), UNCHANGED <<time, written>>,
           NEW u, NEW st, NEW told, Updated(u, st, told), store'[Server] = st
    PROVE  Leads(store[Server])'
  <1>1. PICK a : a = store[Server]
    OBVIOUS
  <1>2. ASSUME NEW p \in Paths
        PROVE  /\ GoodHistory(written[p], time)
               /\ Held(st, p).reading = latest(p)
               /\ Last(written[p]).at <= Held(st, p).ts
               /\ "clear" \notin Ops =>
                     \A k \in 1..Len(written[p]) : written[p][k].reading # Empty
    <2>1. Held(st, p) = Held(a, p)
      BY <1>1 DEF Updated
    <2>2. /\ GoodHistory(written[p], time)
          /\ Held(a, p).reading = latest(p)
          /\ Last(written[p]).at <= Held(a, p).ts
      BY <1>1 DEF Leads
    <2>3. "clear" \notin Ops => \A k \in 1..Len(written[p]) : written[p][k].reading # Empty
      BY DEF Leads
    <2> QED
      BY <2>1, <2>2, <2>3
  <1>3. ASSUME NEW h \in DOMAIN st.entries
        PROVE  /\ 1 <= st.entries[h].ts /\ st.entries[h].ts <= time
               /\ ~st.entries[h].dirty => st.entries[h].id # NoId
    <2>1. h \in DOMAIN a.entries /\ st.entries[h].ts = a.entries[h].ts /\ st.entries[h].id # NoId
      BY <1>1 DEF Updated
    <2>2. 1 <= a.entries[h].ts /\ a.entries[h].ts <= time
      BY <1>1, <2>1 DEF Leads
    <2> QED
      BY <2>1, <2>2
  <1>4. \A p \in Paths : latest(p)' = latest(p)
    BY DEF latest
  <1> QED
    BY <1>2, <1>3, <1>4 DEF Leads

\* A deletion the server could not tell a client that is away is missed.
LEMMA DeletionMissed ==
    ASSUME IInv, JInv, ServerUpdate, NEW c \in Clients, peer[c].id = NoId,
           NEW p \in Paths, PathDirty(store[Server], p), latest(p) = Absent
    PROVE  p \in missed'
  <1>1. PICK st : st = store[Server]
    OBVIOUS
  <1>2. PICK h \in DOMAIN st.entries : st.entries[h].dirty /\ st.entries[h].path = p
    BY <1>1, Bearings, DirtyPath
  <1>3. st.entries[h] \in EntryType
    BY <1>1, Bearings, EntryFacts
  <1>4. Newest(st.entries[h])
    BY <1>1, <1>2, DirtyNewest
  <1>5. st.entries[h].value # Absent
    BY <1>3, ValuesAssumption DEF EntryType, AnyValue
  <1>6. st.entries[h].deleted
    BY <1>2, <1>4, <1>5 DEF Newest, Reading, HasValue
  <1>7. st.entries[h].deleted = TRUE
    BY <1>3, <1>6 DEF EntryType
  <1>8. p \in DirtyPaths({TRUE})
    BY <1>1, <1>2, <1>7 DEF DirtyPaths, DirtyHandles
  <1>9. Connected # Clients
    BY DEF Connected
  <1> QED
    BY <1>8, <1>9 DEF ServerUpdate

\* A path that was told of neither before nor now is not missed now if it was not.
LEMMA StillMissed ==
    ASSUME IInv, ServerUpdate, NEW p \in missed, ~PathDirty(store[Server], p)
    PROVE  p \in missed'
  <1>1. PICK st : st = store[Server]
    OBVIOUS
  <1>2. StoreInv(st)
    BY <1>1, ClientsAssumption DEF IInv, Stores, Nodes
  <1>3. \A h \in DOMAIN st.entries : st.entries[h].dirty => st.entries[h].path # p
    BY <1>1, <1>2, DirtyPath
  <1>4. p \notin DirtyPaths({FALSE, TRUE})
    BY <1>1, <1>3 DEF DirtyPaths, DirtyHandles
  <1> QED
    BY <1>4 DEF ServerUpdate

\* What the server knows now it has told the client of.
LEMMA DueOrTold ==
    ASSUME IInv, JInv, ServerUpdate, NEW u, NEW st, NEW told, Updated(u, st, told),
           NEW c \in Clients, NEW p \in Paths, p \notin missed',
           Knows(st, u.peer[c].known, p) \/ latest(p) = Absent
    PROVE  \/ p \in told /\ peer[c].id # NoId
           \/ Due(store[Server], missed, peer[c].known, p)
  <1>1. PICK a : a = store[Server]
    OBVIOUS
  <1>2. PICK old, new : old = peer[c] /\ new = u.peer[c]
    OBVIOUS
  <1>3. /\ new.id = old.id
        /\ old.id = NoId => new.known = old.known /\ new.queue = old.queue
        /\ \A i \in new.known \ old.known : u.server.names[i] \in told
    BY <1>2, StateFacts DEF Updated, Sent
  <1>4. p \in told <=> PathDirty(a, p)
    BY <1>1 DEF Updated
  <1>5. ASSUME p \in told, old.id = NoId
        PROVE  FALSE
    <2>1. new.known = {}
      BY <1>2, <1>3, <1>5 DEF JInv, Following, Greeting
    <2>2. latest(p) = Absent
      BY <1>2, <2>1 DEF Knows
    <2> QED
      BY <1>1, <1>2, <1>4, <1>5, <2>2, DeletionMissed
  <1>6. ASSUME p \notin told
        PROVE  Due(a, missed, old.known, p)
    <2>1. p \notin missed
      BY <1>1, <1>4, <1>6, StillMissed
    <2>2. ASSUME Knows(st, new.known, p)
          PROVE  Knows(a, old.known, p)
      <3>1. PICK h : h = st.paths[p]
        OBVIOUS
      <3>2. h # 0 /\ st.entries[h].id \in new.known /\ h = a.paths[p]
        BY <1>1, <2>2, <3>1 DEF Knows, Updated
      <3>3. StoreInv(a)
        BY <1>1, Bearings
      <3>4. h \in DOMAIN a.entries /\ a.entries[h].path = p
        BY <3>2, <3>3 DEF StoreInv, PathIndex
      <3>5. StoreInv(st)
        <4>1. PICK k : k = 0
          OBVIOUS
        <4>2. StoreInv(u.store)
          BY StateParts DEF Updated
        <4>3. Grows(u.store, st)
          BY <4>1, <4>2, CleanedGrows DEF Updated
        <4> QED
          BY <4>3 DEF Grows
      <3>6. h \in DOMAIN st.entries /\ st.entries[h].path = p
        BY <3>1, <3>2, <3>5 DEF StoreInv, PathIndex
      <3>7. ~a.entries[h].dirty
        BY <1>4, <1>6, <3>2 DEF PathDirty
      <3>8. st.entries[h].id = a.entries[h].id /\ u.server.names[st.entries[h].id] = p
        BY <1>1, <3>6, <3>7 DEF Updated
      <3>9. st.entries[h].id \in old.known
        BY <1>3, <1>6, <3>2, <3>8
      <3> QED
        BY <3>2, <3>8, <3>9 DEF Knows
    <2> QED
      BY <1>2, <1>4, <1>6, <2>1, <2>2 DEF Due
  <1> QED
    BY <1>1, <1>2, <1>5, <1>6

\* What a step of process_updates leaves of the variables.
LEMMA UpdateFacts ==
    ASSUME IInv, ServerUpdate, NEW u, u = PublishAll(ServerState), ServerOK(u),
           NEW st, st = DirtyCleared(u.store)
    PROVE  /\ UNCHANGED <<time, client, written>>
           /\ store'[Server] = st /\ server' = u.server
           /\ \A c \in Clients : /\ store'[c] = store[c]
                                 /\ peer'[c] = [u.peer[c] EXCEPT !.queue = <<>>]
                                 /\ down'[c] = down[c] \o u.peer[c].queue
  <1>1. store = [n \in Nodes |-> store[n]] /\ Server \in Nodes /\ Server \notin Clients
        /\ Clients \subseteq Nodes
    BY ClientsAssumption DEF IInv, Stores, Nodes
  <1>2. PICK b, sv, pr : b = u.store /\ sv = u.server /\ pr = u.peer
    OBVIOUS
  <1>3. u = [store |-> b, server |-> sv, peer |-> pr]
    BY <1>2 DEF ServerOK
  <1>4. PICK w : w = [u EXCEPT !.store = DirtyCleared(@)]
    OBVIOUS
  <1>5. /\ ServerBecomes(w)
        /\ down' = [c \in Clients |-> down[c] \o pr[c].queue]
        /\ peer' = [c \in Clients |-> [pr[c] EXCEPT !.queue = <<>>]]
    BY <1>2, <1>4 DEF ServerUpdate
  <1>6. w = [store |-> st, server |-> sv, peer |-> pr]
    BY <1>2, <1>3, <1>4
  <1>7. store' = [store EXCEPT ![Server] = st] /\ server' = sv /\ UNCHANGED <<time, client, written>>
    BY <1>5, <1>6 DEF ServerBecomes
  <1>8. \A c \in Clients : store'[c] = store[c]
    BY <1>1, <1>7
  <1>9. store'[Server] = st
    BY <1>1, <1>7
  <1> QED
    BY <1>2, <1>5, <1>7, <1>8, <1>9

\* process_updates
LEMMA ServerUpdateLeads ==
    ASSUME Listening, IInv, JInv, ServerUpdate
    PROVE  JInv'
  <1>1. PICK u : u = PublishAll(ServerState)
    OBVIOUS
  <1>2. PICK st : st = DirtyCleared(u.store)
    OBVIOUS
  <1>3. PICK told : Updated(u, st, told)
    BY <1>1, <1>2, UpdateSends
  <1>4. ServerOK(u)
    BY <1>3 DEF Updated
  <1>5. /\ UNCHANGED <<time, client, written>>
        /\ store'[Server] = st /\ server' = u.server
        /\ \A c \in Clients : /\ store'[c] = store[c]
                              /\ peer'[c] = [u.peer[c] EXCEPT !.queue = <<>>]
                              /\ down'[c] = down[c] \o u.peer[c].queue
    BY <1>1, <1>2, <1>4, UpdateFacts
  <1>6. Leads(store[Server])'
    BY <1>3, <1>5, UpdatedLeads DEF JInv
  <1>7. ASSUME NEW c \in Clients
        PROVE  Following(store[Server], server, missed, c, peer[c], down[c])'
    <2>1. PICK old, pu : old = peer[c] /\ pu = u.peer[c]
      OBVIOUS
    <2>2. PICK str, new, dn : dn = down[c] /\ str = dn \o old.queue /\ new = dn \o pu.queue
      OBVIOUS
    <2>3. dn \in Seq(ToClient) /\ pu \in PeerType
      BY <1>4, <2>1, <2>2, Bearings, StateParts DEF PeerOK
    <2>4. pu.queue \in Seq(ToClient) /\ pu = [id |-> pu.id, known |-> pu.known, queue |-> pu.queue]
      BY <2>3, PeerFacts
    <2>5. new \in Seq(ToClient)
      BY <2>2, <2>3, <2>4, JoinOK
    <2>6. /\ peer'[c].id = pu.id /\ peer'[c].known = pu.known /\ peer'[c].queue = <<>>
          /\ down'[c] = new
      BY <1>5, <2>1, <2>2, <2>4
    <2>7. new \o <<>> = new
      BY <2>5, JoinNothing
    <2>8. (down[c] \o peer[c].queue)' = new
      BY <2>6, <2>7
    <2>9. PICK names, later : names = server.names /\ later = u.server.names
      OBVIOUS
    <2>10. PICK s : s = ServerState
      OBVIOUS
    <2>11. /\ s.peer[c] = old /\ s.server.names = names /\ Sent(s, u, c, told)
      BY <1>3, <2>1, <2>9, <2>10, StateFacts DEF Updated
    <2>12. PICK mine : mine = IF old.id = NoId THEN {} ELSE told
      OBVIOUS
    <2>13. /\ pu.id = old.id /\ old.known \subseteq pu.known
           /\ old.id = NoId => pu.known = old.known /\ pu.queue = old.queue
           /\ old.id # NoId /\ AllKnown(names, old.known) => AllKnown(later, pu.known)
           /\ Finishes(new) => Finishes(str)
           /\ Onward(c, names, str, later, new, mine)
      BY <2>1, <2>2, <2>9, <2>11, <2>12 DEF Sent
    <2>14. Following(store[Server], server, missed, c, peer[c], down[c])
      BY DEF JInv
    <2>15. Greeting(server, client[c].state, old, dn)
      BY <2>1, <2>2, <2>14 DEF Following
    <2>16. Greeting(server', client'[c].state, peer'[c], down'[c])
      <3>1. old.id = NoId => pu.known = {} /\ new = <<>>
        BY <2>2, <2>13, <2>15 DEF Greeting
      <3>2. client[c].state = "in_use" \/ Finishes(new) =>
               pu.id # NoId /\ AllKnown(later, pu.known)
        BY <2>2, <2>9, <2>13, <2>15 DEF Greeting, AllKnown
      <3>3. down'[c] \o peer'[c].queue = new
        BY <2>6, <2>7
      <3> QED
        BY <1>5, <2>6, <2>9, <2>13, <3>1, <3>2, <3>3 DEF Greeting, AllKnown
    <2>17. Forward(later, c, new)
      BY <2>1, <2>2, <2>9, <2>13, <2>14 DEF Following, Onward
    <2>18. /\ Forward(later, c, new)' <=> Forward(later, c, new)
           /\ \A p \in Paths : Ends(later, c, new, p)' <=> Ends(later, c, new, p)
      BY <1>5, ClientKept
    <2>19. ASSUME Exact, NEW p \in Paths, Due(store[Server], missed, peer[c].known, p)'
           PROVE  Ends(later, c, new, p)'
      <3>1. latest(p)' = latest(p)
        BY <1>5 DEF latest
      <3>2. p \notin missed' /\ (Knows(st, pu.known, p) \/ latest(p) = Absent)
        BY <1>5, <2>6, <2>19, <3>1 DEF Due
      <3>3. p \in mine \/ Due(store[Server], missed, old.known, p)
        BY <1>3, <2>1, <2>12, <3>2, DueOrTold
      <3>4. Due(store[Server], missed, old.known, p) => Ends(names, c, str, p)
        BY <2>1, <2>2, <2>9, <2>14, <2>19 DEF Following, Complete
      <3>5. Ends(later, c, new, p)
        BY <2>13, <3>3, <3>4 DEF Onward
      <3> QED
        BY <2>18, <3>5
    <2>20. Exact => Complete(store[Server], later, missed, c, peer[c].known, new)'
      BY <2>19 DEF Complete
    <2>21. server'.names = later
      BY <1>5, <2>9
    <2> QED
      BY <2>8, <2>16, <2>17, <2>18, <2>20, <2>21 DEF Following
  <1> QED
    BY <1>6, <1>7 DEF JInv

\* The program of the server's node wrote r to the path p: s is its storage after
\* the call, a before.
Wrote(a, s, p, r) ==
    /\ StoreInv(s)
    /\ s.paths[p] \in DOMAIN s.entries
    /\ Holding(s.entries[s.paths[p]]) = [reading |-> r, ts |-> time]
    /\ s.entries[s.paths[p]].dirty
    /\ \A g \in DOMAIN s.entries \ {s.paths[p]} :
          g \in DOMAIN a.entries /\ s.entries[g] = a.entries[g]
    /\ \A g \in DOMAIN a.entries :
          g \in DOMAIN s.entries /\ s.entries[g].path = a.entries[g].path

\* The other paths read what they read.
LEMMA WroteFacts ==
    ASSUME NEW a, StoreInv(a), NEW s, NEW p \in Paths, NEW r, Wrote(a, s, p, r)
    PROVE  /\ Held(s, p) = [reading |-> r, ts |-> time] /\ PathDirty(s, p)
           /\ \A q \in Paths \ {p} :
                 /\ Held(s, q) = Held(a, q) /\ PathDirty(s, q) = PathDirty(a, q)
                 /\ \A known : Knows(s, known, q) = Knows(a, known, q)
  <1>1. StoreInv(s)
    BY DEF Wrote
  <1>2. \A h \in DOMAIN s.entries : h # 0
    BY <1>1, StoreFacts
  <1>3. /\ \A q \in Paths : s.paths[q] # 0 =>
              s.paths[q] \in DOMAIN s.entries /\ s.entries[s.paths[q]].path = q
        /\ \A h \in DOMAIN s.entries : s.paths[s.entries[h].path] = h
    BY <1>1 DEF StoreInv, PathIndex
  <1>4. /\ \A q \in Paths : a.paths[q] # 0 =>
              a.paths[q] \in DOMAIN a.entries /\ a.entries[a.paths[q]].path = q
        /\ \A h \in DOMAIN a.entries : a.paths[a.entries[h].path] = h
    BY DEF StoreInv, PathIndex
  <1>5. s.paths[p] # 0 /\ s.entries[s.paths[p]].path = p
    BY <1>2, <1>3 DEF Wrote
  <1>6. Held(s, p) = [reading |-> r, ts |-> time] /\ PathDirty(s, p)
    BY <1>5 DEF Wrote, Held, PathDirty
  <1>7. ASSUME NEW q \in Paths \ {p}
        PROVE  /\ s.paths[q] = a.paths[q]
               /\ s.paths[q] # 0 => s.entries[s.paths[q]] = a.entries[a.paths[q]]
    <2>1. ASSUME a.paths[q] # 0
          PROVE  s.paths[q] = a.paths[q]
      BY <1>3, <1>4, <2>1 DEF Wrote
    <2>2. ASSUME s.paths[q] # 0
          PROVE  /\ s.paths[q] \in DOMAIN a.entries
                 /\ s.entries[s.paths[q]] = a.entries[s.paths[q]]
      <3>1. s.paths[q] # s.paths[p]
        BY <1>3, <1>5, <2>2
      <3> QED
        BY <1>3, <2>2, <3>1 DEF Wrote
    <2>3. ASSUME s.paths[q] # 0
          PROVE  a.paths[q] = s.paths[q]
      BY <1>3, <1>4, <2>2, <2>3
    <2> QED
      BY <2>1, <2>2, <2>3
  <1>8. ASSUME NEW q \in Paths \ {p}
        PROVE  /\ Held(s, q) = Held(a, q) /\ PathDirty(s, q) = PathDirty(a, q)
               /\ \A known : Knows(s, known, q) = Knows(a, known, q)
    BY <1>7 DEF Held, PathDirty, Knows
  <1> QED
    BY <1>6, <1>8

\* A call writes the entry of its path and no other.
LEMMA WroteEntry ==
    ASSUME NEW a, StoreInv(a), NEW u, StoreInv(u), NEW p \in Paths, NEW r,
           NEW h, h = u.paths[p], h \in DOMAIN u.entries,
           \A g \in DOMAIN u.entries \ {h} : g \in DOMAIN a.entries /\ u.entries[g] = a.entries[g],
           \A g \in DOMAIN a.entries : g \in DOMAIN u.entries /\ u.entries[g] = a.entries[g],
           NEW f \in EntryType, EntryLifecycle(f), f.path = p, f.id = u.entries[h].id,
           Holding(f) = [reading |-> r, ts |-> time], f.dirty,
           NEW s, s = PutEntry(u, h, f)
    PROVE  Wrote(a, s, p, r)
  <1>1. u.entries[h].path = p
    BY StoreFacts DEF StoreInv, PathIndex
  <1>2. f.id # NoId => u.ids[f.id] # 0
    BY EntryFacts
  <1>3. /\ StoreInv(s) /\ DOMAIN s.entries = DOMAIN u.entries /\ s.entries[h] = f
        /\ \A g \in DOMAIN u.entries \ {h} : s.entries[g] = u.entries[g]
    BY <1>1, <1>2, PutEntryOK
  <1>4. s.paths[p] = h
    <2>1. PathIndex(s)
      BY <1>3 DEF StoreInv
    <2>2. h \in DOMAIN s.entries /\ s.entries[h].path = p
      BY <1>3
    <2> QED
      BY <2>1, <2>2 DEF PathIndex
  <1> QED
    BY <1>1, <1>3, <1>4 DEF Wrote

\* set_value of a program
LEMMA SetWrote ==
    ASSUME NEW a, StoreInv(a), NEW v \in Values, NEW p \in Paths, time \in Nat,
           NEW u, u = GetOrCreate(a, p),
           NEW t, t = SetEntryValue(u, u.paths[p], v, time), ~t.threw
    PROVE  Wrote(a, t.store, p, v)
  <1>1. HasRoomFor(a, p)
    BY RoomForAll
  <1>2. /\ StoreInv(u) /\ u.paths[p] \in DOMAIN u.entries
        /\ DOMAIN a.entries \subseteq DOMAIN u.entries
        /\ \A g \in DOMAIN a.entries : u.entries[g] = a.entries[g]
        /\ \A g \in DOMAIN u.entries \ DOMAIN a.entries : u.entries[g] = Ghost(p)
    BY <1>1, GetOrCreateOK
  <1>3. PICK h, e : h = u.paths[p] /\ e = u.entries[h]
    OBVIOUS
  <1>4. \A g \in DOMAIN u.entries \ {h} : g \in DOMAIN a.entries /\ u.entries[g] = a.entries[g]
    <2>1. \A g \in DOMAIN u.entries : u.paths[u.entries[g].path] = g
      BY <1>2 DEF StoreInv, PathIndex
    <2>2. Ghost(p).path = p
      BY DEF Ghost
    <2> QED
      BY <1>2, <1>3, <2>1, <2>2
  <1>5. e \in EntryType /\ EntryLifecycle(e) /\ e.path = p
    BY <1>2, <1>3, EntryFacts, StoreFacts DEF StoreInv, PathIndex
  <1>6. PICK out : out = SetEntry(e, v, FALSE, NoId, TRUE, 0, time)
    OBVIOUS
  <1>7. t.store = PutEntry(u, h, out.entry) /\ ~out.threw
    BY <1>3, <1>6 DEF SetEntryValue, Result
  <1>8. PICK f : f = out.entry
    OBVIOUS
  <1>9. f = [e EXCEPT !.created = FALSE, !.deleted = FALSE, !.id = e.id, !.value = v,
                      !.dirty = TRUE, !.ts = time]
    <2>1. f = Written(e, v, NoId, TRUE, Stamp(0, time))
      BY <1>6, <1>7, <1>8 DEF SetEntry, Outcome, Stale
    <2> QED
      BY <1>5, <2>1 DEF Written, Revived, Stamp, EntryType
  <1>10. /\ f \in EntryType /\ EntryLifecycle(f) /\ f.path = p /\ f.id = e.id
         /\ Holding(f) = [reading |-> v, ts |-> time] /\ f.dirty
    <2>1. /\ f.path = e.path /\ f.value = v /\ f.ts = time /\ f.id = e.id
          /\ f.dirty = TRUE /\ f.created = FALSE /\ f.deleted = FALSE
      BY <1>5, <1>9 DEF EntryType
    <2>2. f \in EntryType
      <3>1. f = [path |-> f.path, value |-> f.value, ts |-> f.ts, id |-> f.id,
                 dirty |-> f.dirty, created |-> f.created, deleted |-> f.deleted]
        BY <1>5, <1>9 DEF EntryType
      <3>2. /\ e.path \in Paths /\ e.id \in Ids \cup {NoId} /\ e.created \in BOOLEAN
            /\ e.deleted \in BOOLEAN /\ f.value \in AnyValue
        BY <1>5, <1>9, <2>1 DEF EntryType, AnyValue
      <3>3. f.path \in Paths /\ f.id \in Ids \cup {NoId} /\ f.ts \in Int
        BY <2>1, <3>2
      <3>4. f.dirty \in BOOLEAN /\ f.created \in BOOLEAN /\ f.deleted \in BOOLEAN
        BY <2>1, <3>2
      <3> QED
        BY <3>1, <3>2, <3>3, <3>4 DEF EntryType
    <2>3. f.dirty /\ ~f.created /\ ~f.deleted
      BY <1>5, <1>9, <2>1
    <2>4. EntryLifecycle(f)
      BY <2>1, <2>3 DEF EntryLifecycle, HasValue
    <2>5. Reading(f) = v
      BY <2>1, <2>3 DEF Reading, HasValue
    <2> QED
      BY <1>5, <1>9, <2>1, <2>2, <2>3, <2>4, <2>5 DEF Holding
  <1> QED
    BY <1>2, <1>3, <1>4, <1>7, <1>8, <1>10, WroteEntry

\* delete_entry and clear of a program
LEMMA EraseWrote ==
    ASSUME NEW a, StoreInv(a), NEW p \in Paths, time \in Nat,
           NEW h, h = a.paths[p], h \in DOMAIN a.entries, HasValue(a.entries[h])
    PROVE  /\ Wrote(a, DeleteOne(a, h, time).store, p, Absent)
           /\ Wrote(a, ClearEntry(a, h, time).store, p, Empty)
  <1>1. PICK e : e = a.entries[h]
    OBVIOUS
  <1>2. e \in EntryType /\ EntryLifecycle(e) /\ e.path = p /\ ~e.created /\ ~e.deleted
    BY <1>1, EntryFacts, StoreFacts DEF StoreInv, PathIndex, HasValue
  <1>3. PICK f : f = [e EXCEPT !.value = Empty, !.deleted = TRUE, !.dirty = TRUE, !.ts = time]
    OBVIOUS
  <1>4. DeleteOne(a, h, time).store = PutEntry(a, h, f)
    BY <1>1, <1>2, <1>3 DEF DeleteOne, Result, DeleteEntry, Outcome, Erased, Stale, Stamp, HasValue
  <1>5. PICK g : g = [e EXCEPT !.value = Empty, !.dirty = TRUE, !.ts = time]
    OBVIOUS
  <1>6. ClearEntry(a, h, time).store = PutEntry(a, h, g)
    <2>1. Written(e, Empty, NoId, TRUE, time) = g
      BY <1>2, <1>5 DEF Written, Revived, EntryType
    <2> QED
      BY <1>1, <2>1 DEF ClearEntry, Result, SetEntry, Outcome, Stale, Stamp
  <1>7. /\ f \in EntryType /\ EntryLifecycle(f) /\ f.path = p /\ f.id = e.id
        /\ Holding(f) = [reading |-> Absent, ts |-> time] /\ f.dirty
    <2>1. /\ f.path = e.path /\ f.value = Empty /\ f.ts = time /\ f.id = e.id
          /\ f.dirty = TRUE /\ f.created = e.created /\ f.deleted = TRUE
      BY <1>2, <1>3 DEF EntryType
    <2>2. f \in EntryType
      <3>1. f = [path |-> f.path, value |-> f.value, ts |-> f.ts, id |-> f.id,
                 dirty |-> f.dirty, created |-> f.created, deleted |-> f.deleted]
        BY <1>2, <1>3 DEF EntryType
      <3>2. /\ e.path \in Paths /\ e.id \in Ids \cup {NoId} /\ e.created \in BOOLEAN
            /\ e.deleted \in BOOLEAN /\ f.value \in AnyValue
        BY <1>2, <1>3, <2>1 DEF EntryType, AnyValue
      <3>3. f.path \in Paths /\ f.id \in Ids \cup {NoId} /\ f.ts \in Int
        BY <2>1, <3>2
      <3>4. f.dirty \in BOOLEAN /\ f.created \in BOOLEAN /\ f.deleted \in BOOLEAN
        BY <2>1, <3>2
      <3> QED
        BY <3>1, <3>2, <3>3, <3>4 DEF EntryType
    <2>3. f.dirty /\ ~f.created /\ f.deleted
      BY <1>2, <1>3, <2>1
    <2>4. EntryLifecycle(f)
      BY <2>1, <2>3 DEF EntryLifecycle, HasValue
    <2>5. Reading(f) = Absent
      BY <2>1, <2>3 DEF Reading, HasValue
    <2> QED
      BY <1>2, <1>3, <2>1, <2>2, <2>3, <2>4, <2>5 DEF Holding
  <1>8. /\ g \in EntryType /\ EntryLifecycle(g) /\ g.path = p /\ g.id = e.id
        /\ Holding(g) = [reading |-> Empty, ts |-> time] /\ g.dirty
    <2>1. /\ g.path = e.path /\ g.value = Empty /\ g.ts = time /\ g.id = e.id
          /\ g.dirty = TRUE /\ g.created = e.created /\ g.deleted = e.deleted
      BY <1>2, <1>5 DEF EntryType
    <2>2. g \in EntryType
      <3>1. g = [path |-> g.path, value |-> g.value, ts |-> g.ts, id |-> g.id,
                 dirty |-> g.dirty, created |-> g.created, deleted |-> g.deleted]
        BY <1>2, <1>5 DEF EntryType
      <3>2. /\ e.path \in Paths /\ e.id \in Ids \cup {NoId} /\ e.created \in BOOLEAN
            /\ e.deleted \in BOOLEAN /\ g.value \in AnyValue
        BY <1>2, <1>5, <2>1 DEF EntryType, AnyValue
      <3>3. g.path \in Paths /\ g.id \in Ids \cup {NoId} /\ g.ts \in Int
        BY <2>1, <3>2
      <3>4. g.dirty \in BOOLEAN /\ g.created \in BOOLEAN /\ g.deleted \in BOOLEAN
        BY <2>1, <3>2
      <3> QED
        BY <3>1, <3>2, <3>3, <3>4 DEF EntryType
    <2>3. g.dirty /\ ~g.created /\ ~g.deleted
      BY <1>2, <1>5, <2>1
    <2>4. EntryLifecycle(g)
      BY <2>1, <2>3 DEF EntryLifecycle, HasValue
    <2>5. Reading(g) = Empty
      BY <2>1, <2>3 DEF Reading, HasValue
    <2> QED
      BY <1>2, <1>5, <2>1, <2>2, <2>3, <2>4, <2>5 DEF Holding
  <1>9. PICK one, two : one = PutEntry(a, h, f) /\ two = PutEntry(a, h, g)
    OBVIOUS
  <1>10. Wrote(a, one, p, Absent)
    BY <1>1, <1>7, <1>9, WroteEntry
  <1>11. Wrote(a, two, p, Empty)
    BY <1>1, <1>8, <1>9, WroteEntry
  <1> QED
    BY <1>4, <1>6, <1>9, <1>10, <1>11

\* The history of a path goes on by one more reading, or not at all.
GoesOn(p) ==
    \/ written'[p] = written[p]
    \/ \E r : /\ r # latest(p) /\ written'[p] = Prolonged(written[p], r, time)
              /\ written'[p] \in History

\* Time passes for the clients, and the server's program may write.
LEMMA TimeLeads ==
    ASSUME IInv, JInv, UNCHANGED <<server, peer, client, down, missed>>, time' = time + 1,
           \A c \in Clients : store'[c] = store[c],
           \A p \in Paths : GoesOn(p),
           Leads(store[Server])',
           \A p \in Paths : \/ PathDirty(store'[Server], p)
                            \/ /\ written'[p] = written[p]
                               /\ ~PathDirty(store[Server], p)
                               /\ \A known : Knows(store'[Server], known, p) =
                                             Knows(store[Server], known, p)
    PROVE  JInv'
  <1> SUFFICES ASSUME NEW c \in Clients
               PROVE  Following(store[Server], server, missed, c, peer[c], down[c])'
    BY DEF JInv
  <1>1. Following(store[Server], server, missed, c, peer[c], down[c])
    BY DEF JInv
  <1>2. PICK str, names : str = down[c] \o peer[c].queue /\ names = server.names
    OBVIOUS
  <1>3. Clocked /\ time \in Nat /\ str \in Seq(ToClient)
    BY <1>2, Bearings, PeerFacts, JoinOK
  <1>4. ASSUME NEW p \in Paths
        PROVE  InLine(written'[p], time', names, p, Held(store'[c], p), str)
    <2>1. PICK w, v, x, now : /\ w = written[p] /\ v = written'[p]
                              /\ x = Held(store[c], p) /\ now = time
      OBVIOUS
    <2>2. w \in History /\ now \in Nat /\ GoodHistory(w, now) /\ x.ts \in Int
      BY <1>3, <2>1 DEF Clocked
    <2>3. InLine(w, now, names, p, x, str)
      BY <1>1, <1>2, <2>1 DEF Following, Forward
    <2>4. v = w \/ \E r : r # w[Len(w)].reading /\ v = Prolonged(w, r, now) /\ v \in History
      BY <2>1 DEF GoesOn, latest, Last
    <2>5. InLine(v, now + 1, names, p, x, str)
      BY <1>3, <2>2, <2>3, <2>4, LineLater
    <2> QED
      BY <2>1, <2>5
  <1>5. Forward(names, c, str)'
    BY <1>4 DEF Forward
  <1>6. ASSUME Exact, NEW p \in Paths, Due(store[Server], missed, peer[c].known, p)'
        PROVE  Ends(names, c, str, p)'
    <2>1. /\ written'[p] = written[p] /\ ~PathDirty(store[Server], p)
          /\ Knows(store'[Server], peer[c].known, p) = Knows(store[Server], peer[c].known, p)
      BY <1>6 DEF Due
    <2>2. latest(p)' = latest(p)
      BY <2>1 DEF latest
    <2>3. Due(store[Server], missed, peer[c].known, p)
      BY <1>6, <2>1, <2>2 DEF Due
    <2>4. Ends(names, c, str, p)
      BY <1>1, <1>2, <1>6, <2>3 DEF Following, Complete
    <2> QED
      BY <2>2, <2>4 DEF Ends
  <1>7. Exact => Complete(store[Server], names, missed, c, peer[c].known, str)'
    BY <1>6 DEF Complete
  <1>8. Greeting(server', client'[c].state, peer'[c], down'[c])
    BY <1>1 DEF Following, Greeting
  <1>9. (down[c] \o peer[c].queue)' = str /\ server'.names = names
    BY <1>2
  <1> QED
    BY <1>5, <1>7, <1>8, <1>9 DEF Following

\* A history is still in order later.
LEMMA HistoryLater ==
    ASSUME NEW w \in History, NEW now \in Nat, GoodHistory(w, now)
    PROVE  GoodHistory(w, now + 1)
  <1>1. \A k \in 1..Len(w) : w[k].at \in Nat /\ w[k].at < now
    BY HistoryFacts DEF GoodHistory
  <1>2. \A k \in 1..Len(w) : w[k].at < now + 1
    BY <1>1
  <1> QED
    BY <1>2 DEF GoodHistory

\* The clock ticks.
LEMMA TickLeads ==
    ASSUME IInv, JInv, Tick
    PROVE  JInv'
  <1>1. /\ UNCHANGED <<store, written, server, peer, client, down, missed>>
        /\ time' = time + 1
    BY DEF Tick, NetworkUnchanged
  <1>2. Clocked /\ time \in Nat
    BY Bearings
  <1>3. Leads(store[Server])'
    <2>1. PICK st : st = store[Server]
      OBVIOUS
    <2>2. ASSUME NEW p \in Paths
          PROVE  GoodHistory(written[p], time + 1)
      BY <1>2, HistoryLater DEF Clocked
    <2>3. ASSUME NEW h \in DOMAIN st.entries
          PROVE  st.entries[h].ts <= time + 1
      <3>1. st.entries[h].ts \in Int /\ st.entries[h].ts <= time
        BY <2>1, Bearings, EntryFacts DEF JInv, Leads
      <3> QED
        BY <1>2, <3>1
    <2>4. \A p \in Paths : latest(p)' = latest(p)
      BY <1>1 DEF latest
    <2>5. store'[Server] = st
      BY <1>1, <2>1
    <2>6. /\ \A p \in Paths : /\ Held(st, p).reading = latest(p)
                              /\ Last(written[p]).at <= Held(st, p).ts
                              /\ "clear" \notin Ops =>
                                    \A k \in 1..Len(written[p]) : written[p][k].reading # Empty
          /\ \A h \in DOMAIN st.entries :
                1 <= st.entries[h].ts /\ (~st.entries[h].dirty => st.entries[h].id # NoId)
      BY <2>1 DEF JInv, Leads
    <2> QED
      BY <1>1, <2>2, <2>3, <2>4, <2>5, <2>6 DEF Leads
  <1> QED
    BY <1>1, <1>3, TimeLeads DEF GoesOn

\* v reads r besides what w reads.
OfOld(w, v, r) ==
    \A k \in 1..Len(v) : v[k].reading = r \/ \E l \in 1..Len(w) : w[l].reading = v[k].reading

\* The history of one path after its program wrote r.
LEMMA WrittenOn ==
    ASSUME NEW w \in History, NEW now \in Nat, GoodHistory(w, now), NEW r,
           NEW v \in History,
           \/ r = Last(w).reading /\ v = w
           \/ r # Last(w).reading /\ v = Prolonged(w, r, now)
    PROVE  /\ GoodHistory(v, now + 1) /\ Last(v).reading = r /\ Last(v).at <= now
           /\ OfOld(w, v, r)
  <1>1. PICK n \in Nat : n = Len(w) /\ n # 0
    BY HistoryFacts DEF GoodHistory
  <1>2. \A k \in 1..n : w[k].at \in Nat /\ w[k].at < now
    BY <1>1, HistoryFacts DEF GoodHistory
  <1>3. CASE r = Last(w).reading /\ v = w
    <2>1. GoodHistory(v, now + 1)
      BY <1>3, HistoryLater
    <2>2. n \in 1..n /\ Last(v) = w[n]
      BY <1>1, <1>3 DEF Last
    <2> QED
      BY <1>2, <1>3, <2>1, <2>2 DEF OfOld
  <1>4. CASE r # Last(w).reading /\ v = Prolonged(w, r, now)
    <2>1. GoodHistory(v, now + 1)
      BY <1>4, PlaceKept DEF Last
    <2>2. PICK y : y = [reading |-> r, at |-> now]
      OBVIOUS
    <2>3. v = Append(w, y)
      BY <1>4, <2>2 DEF Prolonged
    <2>4. PICK S : S = [reading: Visible, at: 0..MaxTime]
      OBVIOUS
    <2>5. w \in Seq(S)
      BY <2>4 DEF History
    <2>6. Len(v) = n + 1 /\ v[n + 1] = y /\ \A k \in 1..n : v[k] = w[k]
      BY <1>1, <2>3, <2>5
    <2>7. Last(v) = y /\ y.reading = r /\ y.at = now
      BY <2>2, <2>6 DEF Last
    <2>8. \A k \in 1..(n + 1) : k \in 1..n \/ k = n + 1
      BY <1>1
    <2>9. \A k \in 1..Len(v) : v[k].reading = r \/ \E l \in 1..Len(w) : w[l].reading = v[k].reading
      BY <1>1, <2>6, <2>7, <2>8
    <2> QED
      BY <2>1, <2>7, <2>9 DEF OfOld
  <1> QED
    BY <1>3, <1>4

\* A write of the server's program.
LEMMA WriteLeads ==
    ASSUME Listening, IInv, JInv, IInv', NEW n, NEW p \in Paths, NEW s, NEW r,
           Write(n, p, s, r), Wrote(store[n], s, p, r), r = Empty => "clear" \in Ops
    PROVE  JInv'
  <1>1. /\ UNCHANGED <<server, peer, client, down, missed>> /\ time' = time + 1
        /\ store' = [store EXCEPT ![n] = s]
        /\ written' = IF r = latest(p) THEN written
                      ELSE [written EXCEPT ![p] = Append(@, [reading |-> r, at |-> time])]
    BY DEF Write, NetworkUnchanged
  <1>2. n = Server
    BY DEF Write, Listening
  <1>3. /\ store = [m \in Nodes |-> store[m]] /\ written = [q \in Paths |-> written[q]]
        /\ \A q \in Paths : written[q] \in History /\ written'[q] \in History
    BY DEF IInv, Stores, Books
  <1>4. PICK a : a = store[Server]
    OBVIOUS
  <1>5. /\ Clocked /\ time \in Nat /\ 1 <= time /\ StoreInv(a)
        /\ Server \in Nodes /\ Server \notin Clients /\ Clients \subseteq Nodes
    BY <1>4, Bearings
  <1>6. store'[Server] = s /\ \A c \in Clients : store'[c] = store[c]
    BY <1>1, <1>2, <1>3, <1>5
  <1>7. \A q \in Paths \ {p} : written'[q] = written[q]
    BY <1>1, <1>3
  <1>8. \/ r = latest(p) /\ written'[p] = written[p]
        \/ r # latest(p) /\ written'[p] = Prolonged(written[p], r, time)
    BY <1>1, <1>3 DEF Prolonged
  <1>9. Wrote(a, s, p, r)
    BY <1>2, <1>4
  <1>10. /\ Held(s, p) = [reading |-> r, ts |-> time] /\ PathDirty(s, p)
         /\ \A q \in Paths \ {p} :
               /\ Held(s, q) = Held(a, q) /\ PathDirty(s, q) = PathDirty(a, q)
               /\ \A known : Knows(s, known, q) = Knows(a, known, q)
    BY <1>5, <1>9, WroteFacts
  <1>11. /\ GoodHistory(written'[p], time + 1)
         /\ Last(written'[p]).reading = r /\ Last(written'[p]).at <= time
         /\ \A k \in 1..Len(written'[p]) : written'[p][k].reading = r \/
               \E l \in 1..Len(written[p]) : written[p][l].reading = written'[p][k].reading
    <2>1. PICK w, v, now : w = written[p] /\ v = written'[p] /\ now = time
      OBVIOUS
    <2>2. w \in History /\ v \in History /\ now \in Nat /\ GoodHistory(w, now)
      BY <1>3, <1>5, <2>1 DEF Clocked
    <2>3. \/ r = Last(w).reading /\ v = w
          \/ r # Last(w).reading /\ v = Prolonged(w, r, now)
      BY <1>8, <2>1 DEF latest
    <2>4. GoodHistory(v, now + 1) /\ Last(v).reading = r /\ Last(v).at <= now
      BY <2>2, <2>3, WrittenOn
    <2>5. OfOld(w, v, r)
      BY <2>2, <2>3, WrittenOn
    <2> QED
      BY <2>1, <2>4, <2>5 DEF OfOld
  <1>12. ASSUME NEW q \in Paths
         PROVE  /\ GoodHistory(written'[q], time + 1)
                /\ Held(s, q).reading = Last(written'[q]).reading
                /\ Last(written'[q]).at <= Held(s, q).ts
                /\ "clear" \notin Ops =>
                      \A k \in 1..Len(written'[q]) : written'[q][k].reading # Empty
    <2>1. /\ GoodHistory(written[q], time)
          /\ Held(a, q).reading = latest(q)
          /\ Last(written[q]).at <= Held(a, q).ts
          /\ "clear" \notin Ops => \A k \in 1..Len(written[q]) : written[q][k].reading # Empty
      BY <1>4 DEF JInv, Leads
    <2>2. CASE q = p
      BY <1>10, <1>11, <2>1, <2>2
    <2>3. CASE q # p
      BY <1>3, <1>5, <1>7, <1>10, <2>1, <2>3, HistoryLater DEF latest
    <2> QED
      BY <2>2, <2>3
  <1>13. ASSUME NEW h \in DOMAIN s.entries
         PROVE  /\ 1 <= s.entries[h].ts /\ s.entries[h].ts <= time + 1
                /\ ~s.entries[h].dirty => s.entries[h].id # NoId
    <2>1. CASE h = s.paths[p]
      <3>1. s.entries[h].ts = time /\ s.entries[h].dirty
        BY <1>9, <2>1 DEF Wrote, Holding
      <3> QED
        BY <1>5, <3>1
    <2>2. CASE h # s.paths[p]
      <3>1. h \in DOMAIN a.entries /\ s.entries[h] = a.entries[h]
        BY <1>9, <2>2 DEF Wrote
      <3>2. /\ 1 <= a.entries[h].ts /\ a.entries[h].ts <= time
            /\ ~a.entries[h].dirty => a.entries[h].id # NoId
        BY <1>4, <3>1 DEF JInv, Leads
      <3>3. a.entries[h].ts \in Int
        BY <1>5, <3>1, EntryFacts
      <3> QED
        BY <1>5, <3>1, <3>2, <3>3
    <2> QED
      BY <2>1, <2>2
  <1>14. Leads(store[Server])'
    BY <1>1, <1>6, <1>12, <1>13 DEF Leads, latest
  <1>15. ASSUME NEW q \in Paths
         PROVE  GoesOn(q)
    BY <1>3, <1>7, <1>8 DEF GoesOn
  <1>16. ASSUME NEW q \in Paths
         PROVE  \/ PathDirty(store'[Server], q)
                \/ /\ written'[q] = written[q]
                   /\ ~PathDirty(store[Server], q)
                   /\ \A known : Knows(store'[Server], known, q) =
                                 Knows(store[Server], known, q)
    BY <1>4, <1>6, <1>7, <1>10
  <1> QED
    BY <1>1, <1>6, <1>14, <1>15, <1>16, TimeLeads

\* set_value of the server's program
LEMMA SetLeads ==
    ASSUME Listening, IInv, JInv, IInv', NEW n \in Nodes, NEW v \in Values, SetPath(n, v)
    PROVE  JInv'
  <1>1. StoreInv(store[n]) /\ time \in Nat
    BY Bearings
  <1>2. PICK q \in Paths : q = HomeOf[v]
    BY HomeAssumption
  <1>3. PICK u : u = GetOrCreate(store[n], q)
    OBVIOUS
  <1>4. PICK t : t = SetEntryValue(u, u.paths[q], v, time)
    OBVIOUS
  <1>5. ~t.threw /\ Write(n, q, t.store, v)
    BY <1>2, <1>3, <1>4 DEF SetPath
  <1>6. Wrote(store[n], t.store, q, v)
    BY <1>1, <1>3, <1>4, <1>5, SetWrote
  <1>7. v # Empty
    BY ValuesAssumption
  <1> QED
    BY <1>5, <1>6, <1>7, WriteLeads

\* delete_entry and clear of the server's program
LEMMA EraseLeads ==
    ASSUME Listening, IInv, JInv, IInv', NEW n \in Nodes, NEW p \in Paths,
           DeletePath(n, p) \/ ClearPath(n, p)
    PROVE  JInv'
  <1>1. StoreInv(store[n]) /\ time \in Nat
    BY Bearings
  <1>2. PICK h : h = store[n].paths[p]
    OBVIOUS
  <1>3. CanRead(n, p)
    BY DEF DeletePath, ClearPath
  <1>4. h \in DOMAIN store[n].entries /\ HasValue(store[n].entries[h])
    BY <1>2, <1>3, CanReadFacts DEF CanRead
  <1>5. CASE DeletePath(n, p)
    <2>1. PICK s, r : s = DeleteOne(store[n], h, time).store /\ r = Absent
      OBVIOUS
    <2>2. Wrote(store[n], s, p, r)
      BY <1>1, <1>2, <1>4, <2>1, EraseWrote
    <2>3. Write(n, p, s, r)
      BY <1>2, <1>5, <2>1 DEF DeletePath
    <2>4. r # Empty
      BY <2>1, ValuesAssumption
    <2> QED
      BY <2>2, <2>3, <2>4, WriteLeads
  <1>6. CASE ClearPath(n, p)
    <2>1. PICK s, r : s = ClearEntry(store[n], h, time).store /\ r = Empty
      OBVIOUS
    <2>2. Wrote(store[n], s, p, r)
      BY <1>1, <1>2, <1>4, <2>1, EraseWrote
    <2>3. Write(n, p, s, r) /\ "clear" \in Ops
      BY <1>2, <1>6, <2>1 DEF ClearPath
    <2> QED
      BY <2>2, <2>3, WriteLeads
  <1> QED
    BY <1>5, <1>6

\* Before anything is written and anybody connects.
LEMMA InitLeads == Init => JInv
  <1> SUFFICES ASSUME Init
               PROVE  JInv
    OBVIOUS
  <1>1. Server \in Nodes /\ Clients \subseteq Nodes
    BY DEF Nodes
  <1>2. \A n \in Nodes : store[n] = EmptyStore
    BY DEF Init
  <1>3. \A p \in Paths : Held(EmptyStore, p) = Nothing
    BY DEF Held, EmptyStore
  <1>4. time = 1 /\ missed = {}
    BY DEF Init
  <1>5. PICK y, w : y = [reading |-> Absent, at |-> 0] /\ w = <<y>>
    OBVIOUS
  <1>6. Len(w) = 1 /\ w[1] = y /\ y.reading = Absent /\ y.at = 0 /\ Last(w) = y
    BY <1>5 DEF Last
  <1>7. \A p \in Paths : written[p] = w
    BY <1>5 DEF Init
  <1>8. GoodHistory(w, 1)
    BY <1>6 DEF GoodHistory
  <1>9. Absent # Empty
    BY ValuesAssumption
  <1>10. \A p \in Paths : latest(p) = Absent
    BY <1>6, <1>7 DEF latest
  <1>11. Leads(EmptyStore)
    <2>1. DOMAIN EmptyStore.entries = {}
      BY DEF EmptyStore
    <2>2. Nothing.reading = Absent /\ Nothing.ts = 0
      BY DEF Nothing
    <2>3. \A p \in Paths : /\ GoodHistory(written[p], time)
                           /\ Held(EmptyStore, p).reading = latest(p)
                           /\ Last(written[p]).at <= Held(EmptyStore, p).ts
      <3> SUFFICES ASSUME NEW p \in Paths
                   PROVE  /\ GoodHistory(written[p], time)
                          /\ Held(EmptyStore, p).reading = latest(p)
                          /\ Last(written[p]).at <= Held(EmptyStore, p).ts
        OBVIOUS
      <3>1. written[p] = w /\ Held(EmptyStore, p) = Nothing /\ latest(p) = Absent
        BY <1>3, <1>7, <1>10
      <3>2. Last(written[p]).at = 0 /\ Held(EmptyStore, p).ts = 0
        BY <1>6, <2>2, <3>1
      <3> QED
        BY <1>4, <1>8, <2>2, <3>1, <3>2
    <2>4. \A p \in Paths : \A k \in 1..Len(written[p]) : written[p][k].reading # Empty
      BY <1>6, <1>7, <1>9
    <2> QED
      BY <2>1, <2>3, <2>4 DEF Leads
  <1>12. ASSUME NEW c \in Clients
         PROVE  Following(store[Server], server, missed, c, peer[c], down[c])
    <2>1. peer[c] = NoPeer /\ down[c] = <<>> /\ client[c].state = "opening"
      BY DEF Init
    <2>2. PICK str : str = down[c] \o peer[c].queue
      OBVIOUS
    <2>3. Len(str) = 0
      BY <2>1, <2>2 DEF NoPeer
    <2>4. ~Finishes(str)
      BY <2>3 DEF Finishes
    <2>5. Greeting(server, client[c].state, peer[c], down[c])
      BY <2>1, <2>2, <2>4 DEF Greeting, NoPeer
    <2>6. \A p \in Paths : Held(store[c], p) = Nothing
      BY <1>1, <1>2, <1>3
    <2>7. IsAt(w, Nothing, 1)
      BY <1>6 DEF IsAt, Nothing
    <2>8. Placed(w, Nothing) /\ Nothing.ts <= 1
      BY <1>6, <2>7 DEF Placed, Nothing
    <2>9. \A p \in Paths : InLine(w, 1, server.names, p, Nothing, str)
      BY <2>3, <2>8 DEF InLine
    <2>10. Forward(server.names, c, str)
      BY <1>4, <1>7, <2>6, <2>9 DEF Forward
    <2>11. \A p \in Paths : Ends(server.names, c, str, p)
      <3> SUFFICES ASSUME NEW p \in Paths
                   PROVE  Ends(server.names, c, str, p)
        OBVIOUS
      <3>1. Held(store[c], p).reading = latest(p)
        BY <1>10, <2>6 DEF Nothing
      <3> QED
        BY <2>3, <3>1 DEF Ends, EndsWith
    <2> QED
      BY <2>2, <2>5, <2>10, <2>11 DEF Following, Complete
  <1> QED
    BY <1>1, <1>2, <1>11, <1>12 DEF JInv

\* Every step.
LEMMA StepLeads ==
    ASSUME Listening, IInv, IInv', JInv, [Next]_vars
    PROVE  JInv'
  <1>1. ASSUME NEW n \in Nodes, NEW v \in Values, SetPath(n, v)
        PROVE  JInv'
    BY <1>1, SetLeads
  <1>2. ASSUME NEW n \in Nodes, NEW p \in Paths, DeletePath(n, p) \/ ClearPath(n, p)
        PROVE  JInv'
    BY <1>2, EraseLeads
  <1>3. ASSUME Tick
        PROVE  JInv'
    BY <1>3, TickLeads
  <1>4. ASSUME NEW c \in Clients, ClientNext(c)
        PROVE  JInv'
    BY <1>4, SendLeads, ClientReceiveLeads DEF ClientNext
  <1>5. ASSUME ServerNext
        PROVE  JInv'
    BY <1>5, ServerUpdateLeads, AcceptLeads, ServerReceiveLeads DEF ServerNext
  <1>6. ASSUME NEW c \in Clients, Disconnect(c)
        PROVE  JInv'
    BY <1>6, DisconnectLeads
  <1>7. ASSUME RestartServer \/ \E c \in Clients : RestartClient(c)
        PROVE  JInv'
    BY <1>7, RestartFacts DEF RestartServer, RestartClient
  <1>8. ASSUME UNCHANGED vars \/ \E c \in Clients : ConnectFails(c)
        PROVE  JInv'
    <2>1. UNCHANGED <<store, time, server, peer, client, down, written, missed>>
      BY <1>8 DEF vars, ConnectFails
    <2>2. Leads(store[Server])'
      BY <2>1, LeadsKept DEF JInv
    <2>3. ASSUME NEW c \in Clients
          PROVE  Following(store[Server], server, missed, c, peer[c], down[c])'
      <3>1. Following(store[Server], server, missed, c, peer[c], down[c])
        BY DEF JInv
      <3> QED
        BY <2>1, <3>1, FollowingKept
    <2> QED
      BY <2>2, <2>3 DEF JInv
  <1> QED
    BY <1>1, <1>2, <1>3, <1>4, <1>5, <1>6, <1>7, <1>8 DEF Next, ProgramNext, FailureNext

\* As long as only the server's program writes and nobody is restarted, the server
\* leads: its storage reads what was written last, under a stamp no older than the
\* write, and what clients hold and what publish_entries, process_updates and the
\* handshake have put on its way to them are readings of the server in the order it
\* had them; so the time stamp check of set_entry_internal (storage.cpp) refuses
\* nothing that is news.
THEOREM LeadsOn ==
    ASSUME Listening
    PROVE  Spec => [](IInv /\ JInv)
  <1>1. Init => IInv /\ JInv
    BY InitInv, InitLeads
  <1>2. IInv /\ JInv /\ [Next]_vars => (IInv /\ JInv)'
    BY StepInv, StepLeads
  <1> QED
    BY <1>1, <1>2, PTL DEF Spec

\* What a client that is in use and has nothing on its way to it reads.
LEMMA ClientAgrees ==
    ASSUME Listening, Exact, IInv, JInv, Quiescent, NEW c \in Clients, NEW p \in Paths,
           p \notin missed
    PROVE  Held(store[c], p).reading = latest(p)
  <1>1. PICK a, pr, str : a = store[Server] /\ pr = peer[c] /\ str = down[c] \o peer[c].queue
    OBVIOUS
  <1>2. PICK names : names = server.names
    OBVIOUS
  <1>3. StoreInv(a) /\ NamesOK(a, server) /\ Server \in Nodes
    BY <1>1, Bearings DEF IInv, Names
  <1>4. Following(a, server, missed, c, pr, down[c])
    BY <1>1 DEF JInv
  <1>5. client[c].state = "in_use" /\ down[c] = <<>> /\ peer[c].queue = <<>>
    BY DEF Quiescent
  <1>6. Len(str) = 0
    BY <1>1, <1>5
  <1>7. \A i \in Ids : names[i] # Absent => i \in pr.known
    BY <1>2, <1>4, <1>5 DEF Following, Greeting
  <1>8. \A h \in DOMAIN a.entries : ~a.entries[h].dirty
    BY <1>1, <1>3 DEF Quiescent, DirtyHandles
  <1>9. ASSUME a.paths[p] # 0
        PROVE  Knows(a, pr.known, p)
    <2>1. PICK h : h = a.paths[p]
      OBVIOUS
    <2>2. h \in DOMAIN a.entries /\ a.entries[h].path = p
      BY <1>3, <1>9, <2>1 DEF StoreInv, PathIndex
    <2>3. a.entries[h].id # NoId
      BY <1>1, <1>8, <2>2 DEF JInv, Leads
    <2>4. a.entries[h].id \in Ids /\ names[a.entries[h].id] = p
      BY <1>2, <1>3, <2>2, <2>3, EntryFacts DEF NamesOK, AnyId
    <2>5. a.entries[h].id \in pr.known
      BY <1>7, <2>4, PathsAssumption
    <2> QED
      BY <1>9, <2>1, <2>5 DEF Knows
  <1>10. a.paths[p] = 0 => latest(p) = Absent
    <2>1. Held(a, p).reading = latest(p)
      BY <1>1, Bearings
    <2> QED
      BY <2>1 DEF Held, Nothing
  <1>11. ~PathDirty(a, p)
    BY <1>3, <1>8 DEF PathDirty, StoreInv, PathIndex
  <1>12. Due(a, missed, pr.known, p)
    BY <1>9, <1>10, <1>11 DEF Due
  <1>13. Ends(names, c, str, p)
    BY <1>1, <1>2, <1>4, <1>12 DEF Following, Complete
  <1> QED
    BY <1>6, <1>13 DEF Ends, EndsWith

\* When nothing is left to do every node reads what was written last, except a
\* client that was away when the server told of a deletion: process_updates and the
\* handshake leave nobody else behind, for any number of clients, paths, writes and
\* lost connections.
THEOREM NobodyIsLeftBehind ==
    ASSUME Listening, Exact
    PROVE  Spec => []LatestEverywhere
  <1>1. IInv /\ JInv => LatestEverywhere
    <2> SUFFICES ASSUME IInv, JInv, Quiescent, NEW p \in Paths, p \notin missed,
                        NEW n \in Nodes
                 PROVE  ReadingAt(n, p) = latest(p)
      BY DEF LatestEverywhere, AgreeOn
    <2>1. Held(store[n], p).reading = latest(p)
      BY Bearings, ClientAgrees DEF Nodes
    <2> QED
      BY <2>1 DEF Held, Holding, Nothing, ReadingAt
  <1> QED
    BY LeadsOn, <1>1, PTL

-----------------------------------------------------------------------------
(* The refinement: clients that only listen are replicas (Replicas).        *)

\* The readings of a history, and all of them: what Replicas calls history.
ReadingsOf(w) == [k \in DOMAIN w |-> w[k].reading]
Histories == [p \in Paths |-> ReadingsOf(written[p])]

\* How far each client has come: what Replicas calls at.
Places == [c \in Clients |-> [p \in Paths |-> Come(c, p)]]

\* How far a client has come is the place of what it holds.
Comes ==
    \A c \in Clients, p \in Paths :
        LET x == Held(store[c], p)
        IN  Placed(written[p], x) /\ x.ts <= time /\ Come(c, p) = Place(written[p], x)

\* ... as the server leads.
LEMMA ComesThere ==
    ASSUME IInv, JInv
    PROVE  Comes
  <1> SUFFICES ASSUME NEW c \in Clients, NEW p \in Paths, NEW x, x = Held(store[c], p)
               PROVE  Placed(written[p], x) /\ x.ts <= time /\ Come(c, p) = Place(written[p], x)
    BY DEF Comes
  <1>1. PICK w : w = written[p]
    OBVIOUS
  <1>2. w \in History /\ GoodHistory(w, time) /\ x.ts \in Int
    BY <1>1, Bearings DEF Clocked
  <1>3. Placed(w, x) /\ x.ts <= time
    BY <1>1 DEF JInv, Following, Forward, InLine
  <1>4. PICK k \in 1..Len(w) : k = Place(w, x) /\ IsAt(w, x, k)
    BY <1>2, <1>3, PlaceFacts
  <1>5. Len(w) \in Nat /\ DOMAIN w = 1..Len(w) /\ \A j \in 1..Len(w) : w[j].at \in Nat
    BY <1>2, HistoryFacts
  <1>6. PICK r : r = ReadingAt(c, p)
    OBVIOUS
  <1>7. PICK ts : ts = IF store[c].paths[p] = 0 THEN 0 ELSE store[c].entries[store[c].paths[p]].ts
    OBVIOUS
  <1>8. x.reading = r /\ x.ts = ts
    BY <1>6, <1>7 DEF Held, Holding, Nothing, ReadingAt
  <1>9. PICK S : S = {j \in 1..Len(w) : w[j].reading = r /\ w[j].at <= ts}
    OBVIOUS
  <1>10. k \in S
    BY <1>4, <1>8, <1>9 DEF IsAt
  <1>11. ASSUME NEW j \in S
         PROVE  j <= k
    <2> SUFFICES ASSUME ~(j <= k)
                 PROVE  FALSE
      OBVIOUS
    <2>1. /\ j \in 1..Len(w) /\ w[j].reading = r /\ w[j].at <= ts
          /\ k < j /\ k + 1 \in 1..Len(w) /\ k < Len(w) /\ k \in 1..(Len(w) - 1)
      BY <1>5, <1>9
    <2>2. ts <= w[k + 1].at
      BY <1>4, <1>8, <2>1 DEF IsAt
    <2>3. ~(k + 1 < j)
      <3>1. k + 1 < j => w[k + 1].at < w[j].at
        BY <1>2, <2>1 DEF GoodHistory
      <3>2. w[k + 1].at \in Nat /\ w[j].at \in Nat /\ ts \in Int
        BY <1>2, <1>5, <1>8, <2>1
      <3> QED
        BY <2>1, <2>2, <3>1, <3>2
    <2>4. j = k + 1
      BY <1>5, <2>1, <2>3
    <2>5. w[k].reading # w[k + 1].reading
      BY <1>2, <2>1 DEF GoodHistory
    <2> QED
      BY <1>4, <1>8, <2>1, <2>4, <2>5 DEF IsAt
  <1>12. Come(c, p) = CHOOSE j \in 1..Len(w) :
                         /\ w[j].reading = r /\ w[j].at <= ts
                         /\ \A i \in 1..Len(w) : w[i].reading = r /\ w[i].at <= ts => i <= j
    BY <1>1, <1>5, <1>6, <1>7 DEF Come
  <1>13. PICK l : l = Come(c, p)
    OBVIOUS
  <1>14. l \in 1..Len(w) /\ w[l].reading = r /\ w[l].at <= ts
         /\ \A i \in 1..Len(w) : w[i].reading = r /\ w[i].at <= ts => i <= l
    BY <1>9, <1>10, <1>11, <1>12, <1>13
  <1>15. l \in S /\ k <= l
    BY <1>9, <1>10, <1>14
  <1>16. l = k
    BY <1>11, <1>14, <1>15
  <1> QED
    BY <1>1, <1>3, <1>4, <1>13, <1>16

\* A client that holds what it held has come as far as it had.
LEMMA ComeSame ==
    ASSUME IInv, Clocked, Comes, Comes', NEW c \in Clients, NEW p \in Paths,
           Held(store'[c], p) = Held(store[c], p), GoesOn(p)
    PROVE  Come(c, p)' = Come(c, p)
  <1>1. PICK x, w, v, now : /\ x = Held(store[c], p) /\ w = written[p]
                            /\ v = written'[p] /\ now = time
    OBVIOUS
  <1>2. /\ w \in History /\ GoodHistory(w, now) /\ x.ts \in Int /\ now \in Nat
    BY <1>1 DEF Clocked
  <1>3. Placed(w, x) /\ x.ts <= now /\ Come(c, p) = Place(w, x)
    BY <1>1 DEF Comes
  <1>4. Come(c, p)' = Place(v, x)
    BY <1>1 DEF Comes
  <1>5. CASE v = w
    BY <1>3, <1>4, <1>5
  <1>6. CASE v # w
    <2>1. PICK r : r # w[Len(w)].reading /\ v = Prolonged(w, r, now) /\ v \in History
      BY <1>1, <1>6 DEF GoesOn, latest, Last
    <2>2. \A z : (z.ts \in Int /\ z.ts <= now /\ Placed(w, z)) =>
                    Placed(v, z) /\ Place(v, z) = Place(w, z)
      BY <1>2, <2>1, PlaceKept
    <2>3. Place(v, x) = Place(w, x)
      BY <1>2, <1>3, <2>2
    <2> QED
      BY <1>3, <1>4, <2>3
  <1> QED
    BY <1>5, <1>6

\* The first places.
LEMMA InitRefines ==
    ASSUME Init, IInv, JInv
    PROVE  R!Init
  <1>1. PICK y, w : y = [reading |-> Absent, at |-> 0] /\ w = <<y>>
    OBVIOUS
  <1>2. \A p \in Paths : written[p] = w
    BY <1>1 DEF Init
  <1>3. ReadingsOf(w) = <<Absent>>
    BY <1>1 DEF ReadingsOf
  <1>4. Histories = [p \in Paths |-> <<Absent>>]
    BY <1>2, <1>3 DEF Histories
  <1>5. ASSUME NEW c \in Clients, NEW p \in Paths
        PROVE  Come(c, p) = 1
    <2>1. PICK x : x = Held(store[c], p)
      OBVIOUS
    <2>2. Placed(w, x) /\ Come(c, p) = Place(w, x)
      BY <1>2, <2>1, ComesThere DEF Comes
    <2>3. w \in History /\ GoodHistory(w, time) /\ x.ts \in Int
      BY <1>2, <2>1, Bearings DEF Clocked
    <2>4. Place(w, x) \in 1..Len(w)
      BY <2>2, <2>3, PlaceFacts
    <2> QED
      BY <1>1, <2>2, <2>4
  <1>6. Places = [c \in Clients |-> [p \in Paths |-> 1]]
    BY <1>5 DEF Places
  <1> QED
    BY <1>4, <1>6 DEF R!Init, Histories, ReadingsOf, Places

\* Nothing is taken and the histories stay: a stutter.
LEMMA StayRefines ==
    ASSUME IInv, Clocked, Comes, Comes', UNCHANGED written,
           \A c \in Clients, p \in Paths : Held(store'[c], p) = Held(store[c], p)
    PROVE  UNCHANGED R!vars
  <1>1. \A c \in Clients, p \in Paths : Come(c, p)' = Come(c, p)
    BY ComeSame DEF GoesOn
  <1>2. Places' = Places
    BY <1>1 DEF Places
  <1>3. Histories' = Histories
    BY DEF Histories
  <1> QED
    BY <1>2, <1>3 DEF R!vars, Histories, ReadingsOf, Places

\* The readings of a history that goes on.
LEMMA ReadingsOn ==
    ASSUME NEW w \in History, NEW r, NEW now, NEW v, v = Prolonged(w, r, now)
    PROVE  ReadingsOf(v) = Append(ReadingsOf(w), r)
  <1>1. PICK n \in Nat : n = Len(w) /\ DOMAIN w = 1..n
    BY HistoryFacts
  <1>2. PICK y : y = [reading |-> r, at |-> now]
    OBVIOUS
  <1>3. PICK S : S = [reading: Visible, at: 0..MaxTime]
    OBVIOUS
  <1>4. w \in Seq(S)
    BY <1>3 DEF History
  <1>5. v = Append(w, y)
    BY <1>2 DEF Prolonged
  <1>6. DOMAIN v = 1..(n + 1) /\ v[n + 1] = y /\ \A k \in 1..n : v[k] = w[k]
    BY <1>1, <1>4, <1>5
  <1>7. PICK f : f = [k \in 1..n |-> w[k].reading]
    OBVIOUS
  <1>8. PICK T : T = {f[k] : k \in 1..n} \cup {r}
    OBVIOUS
  <1>9. f \in Seq(T) /\ Len(f) = n
    <2>1. \A k \in 1..n : f[k] \in T
      BY <1>8
    <2>2. f = [k \in 1..n |-> f[k]]
      BY <1>7
    <2>3. f \in [1..n -> T]
      BY <2>1, <2>2
    <2> QED
      BY <2>3
  <1>10. Append(f, r) = [k \in 1..(n + 1) |-> IF k = n + 1 THEN r ELSE f[k]]
    <2>1. PICK g : g = Append(f, r)
      OBVIOUS
    <2>2. r \in T
      BY <1>8
    <2>3. /\ g \in Seq(T) /\ Len(g) = n + 1 /\ g[n + 1] = r
          /\ \A k \in 1..n : g[k] = f[k]
      BY <1>9, <2>1, <2>2
    <2>4. g = [k \in 1..(n + 1) |-> g[k]]
      BY <2>3
    <2>5. \A k \in 1..(n + 1) : g[k] = IF k = n + 1 THEN r ELSE f[k]
      <3>1. \A k \in 1..(n + 1) : k = n + 1 \/ k \in 1..n
        BY <1>1
      <3> QED
        BY <2>3, <3>1
    <2> QED
      BY <2>1, <2>4, <2>5
  <1>11. ReadingsOf(v) = [k \in 1..(n + 1) |-> v[k].reading]
    BY <1>6 DEF ReadingsOf
  <1>12. \A k \in 1..(n + 1) : v[k].reading = IF k = n + 1 THEN r ELSE f[k]
    <2>1. \A k \in 1..(n + 1) : k = n + 1 \/ k \in 1..n
      BY <1>1
    <2>2. \A k \in 1..n : k # n + 1 /\ f[k] = w[k].reading
      BY <1>1, <1>7
    <2>3. v[n + 1].reading = r
      BY <1>2, <1>6
    <2> QED
      BY <1>6, <2>1, <2>2, <2>3
  <1>13. ReadingsOf(w) = f
    BY <1>1, <1>7 DEF ReadingsOf
  <1> QED
    BY <1>10, <1>11, <1>12, <1>13

\* The server's program writes something new.
LEMMA WriteRefines ==
    ASSUME IInv, IInv', Clocked, Comes, Comes', NEW p \in Paths, NEW r, r # latest(p),
           written' = [written EXCEPT ![p] = Append(@, [reading |-> r, at |-> time])],
           \A c \in Clients : store'[c] = store[c]
    PROVE  R!Write(p)
  <1>1. /\ written = [q \in Paths |-> written[q]]
        /\ \A q \in Paths : written[q] \in History /\ written'[q] \in History
    BY DEF IInv, Books
  <1>2. written'[p] = Prolonged(written[p], r, time)
    BY <1>1 DEF Prolonged
  <1>3. \A q \in Paths \ {p} : written'[q] = written[q]
    BY <1>1
  <1>4. \A q \in Paths : GoesOn(q)
    BY <1>1, <1>2, <1>3 DEF GoesOn
  <1>5. \A c \in Clients, q \in Paths : Come(c, q)' = Come(c, q)
    BY <1>4, ComeSame
  <1>6. Places' = Places
    BY <1>5 DEF Places
  <1>7. ReadingsOf(written'[p]) = Append(ReadingsOf(written[p]), r)
    <2>1. PICK w, v : w = written[p] /\ v = written'[p]
      OBVIOUS
    <2>2. PICK now : now = time
      OBVIOUS
    <2>3. w \in History /\ v = Prolonged(w, r, now)
      BY <1>1, <1>2, <2>1, <2>2
    <2>4. ReadingsOf(v) = Append(ReadingsOf(w), r)
      BY <2>3, ReadingsOn
    <2> QED
      BY <2>1, <2>4
  <1>8. Histories' = [Histories EXCEPT ![p] = Append(@, r)]
    <2>1. Histories' = [q \in Paths |-> ReadingsOf(written'[q])]
      BY DEF Histories, ReadingsOf
    <2>2. Histories[p] = ReadingsOf(written[p])
      BY DEF Histories
    <2>3. \A q \in Paths \ {p} : ReadingsOf(written'[q]) = ReadingsOf(written[q])
      BY <1>3
    <2>4. PICK old, new : /\ old = [q \in Paths |-> ReadingsOf(written[q])]
                          /\ new = [q \in Paths |-> ReadingsOf(written'[q])]
      OBVIOUS
    <2>5. new = [old EXCEPT ![p] = Append(@, r)]
      BY <1>7, <2>3, <2>4
    <2> QED
      BY <2>1, <2>4, <2>5 DEF Histories
  <1>9. r \in Visible
    <2>1. PICK w, v : w = written[p] /\ v = written'[p]
      OBVIOUS
    <2>2. w \in History /\ v \in History /\ v = Prolonged(w, r, time)
      BY <1>1, <1>2, <2>1
    <2>3. PICK y : y = [reading |-> r, at |-> time]
      OBVIOUS
    <2>4. PICK S : S = [reading: Visible, at: 0..MaxTime]
      OBVIOUS
    <2>5. w \in Seq(S) /\ v = Append(w, y)
      BY <2>2, <2>3, <2>4 DEF History, Prolonged
    <2>6. Len(w) \in Nat /\ Len(v) = Len(w) + 1 /\ v[Len(w) + 1] = y
      BY <2>5
    <2>7. Len(v) \in 1..Len(v) /\ v[Len(v)] = y
      BY <2>6
    <2>8. v[Len(v)].reading \in Visible
      BY <2>2, <2>7, HistoryFacts
    <2> QED
      BY <2>3, <2>7, <2>8
  <1> QED
    BY <1>6, <1>8, <1>9 DEF R!Write, Histories, ReadingsOf, Places

\* A client takes a message.
LEMMA ReceiveRefines ==
    ASSUME Listening, IInv, JInv, Clocked, Comes, Comes', NEW c \in Clients, ClientReceive(c)
    PROVE  R!Follow(c)
  <1>1. /\ store = [n \in Nodes |-> store[n]] /\ c \in Nodes /\ Clients \subseteq Nodes
    BY Bearings DEF IInv, Stores
  <1>2. UNCHANGED <<time, written>> /\ down[c] # <<>>
    BY DEF ClientReceive
  <1>3. PICK m, str, s : /\ m = Head(down[c]) /\ str = down[c] \o peer[c].queue
                         /\ s = ClientStoreAfter(store[c], m)
    OBVIOUS
  <1>4. Reads(c, m, str)
    BY <1>2, <1>3, ReadingFacts
  <1>5. store'[c] = s /\ \A d \in Clients \ {c} : store'[d] = store[d]
    BY <1>1, <1>3 DEF ClientReceive
  <1>6. Histories' = Histories
    BY <1>2 DEF Histories
  <1>7. ASSUME NEW d \in Clients \ {c}, NEW p \in Paths
        PROVE  Come(d, p)' = Come(d, p)
    BY <1>2, <1>5, ComeSame DEF GoesOn
  <1>8. ASSUME NEW d \in Clients, NEW p \in Paths
        PROVE  Come(d, p)' \in 1..Len(written[p])
    <2>1. PICK w, x : w = written[p] /\ x = Held(store'[d], p)
      OBVIOUS
    <2>2. w \in History /\ GoodHistory(w, time)
      BY <2>1 DEF Clocked
    <2>3. Placed(w, x) /\ Come(d, p)' = Place(w, x)
      BY <1>2, <2>1 DEF Comes
    <2>4. Place(w, x) \in 1..Len(w)
      BY <2>3 DEF Placed, Place
    <2> QED
      BY <2>1, <2>3, <2>4
  <1>9. ASSUME NEW p \in Paths
        PROVE  Come(c, p) <= Come(c, p)'
    <2>1. PICK w, x, y : w = written[p] /\ x = Held(store[c], p) /\ y = Held(s, p)
      OBVIOUS
    <2>2. Come(c, p) = Place(w, x) /\ Placed(w, x)
      BY <2>1 DEF Comes
    <2>3. Come(c, p)' = Place(w, y)
      BY <1>2, <1>5, <2>1 DEF Comes
    <2>4. Takes(server.names, p, x, m, y)
      BY <1>3, <1>4, <2>1, ReadingLeads
    <2>5. CASE y = x
      <3>1. Place(w, x) \in 1..Len(w) /\ Len(w) \in Nat
        BY <2>1, <2>2, HistoryFacts DEF Placed, Place, Clocked
      <3> QED
        BY <2>2, <2>3, <2>5, <3>1
    <2>6. CASE About(server.names, m, p) /\ y = Claim(m)
      <3>1. InLine(w, time, server.names, p, x, str)
        BY <1>4, <2>1 DEF Reads, Forward
      <3>2. 1 \in 1..Len(str) /\ str[1] = m
        BY <1>4 DEF Reads
      <3>3. Place(w, x) <= Place(w, Claim(m))
        BY <2>6, <3>1, <3>2 DEF InLine
      <3> QED
        BY <2>2, <2>3, <2>6, <3>3
    <2> QED
      BY <2>4, <2>5, <2>6 DEF Takes
  <1>10. \A p \in Paths : Len(Histories[p]) = Len(written[p])
    <2> SUFFICES ASSUME NEW p \in Paths
                 PROVE  Len(Histories[p]) = Len(written[p])
      OBVIOUS
    <2>1. PICK w : w = written[p]
      OBVIOUS
    <2>2. Len(w) \in Nat /\ DOMAIN w = 1..Len(w)
      BY <2>1, HistoryFacts DEF Clocked
    <2>3. Histories[p] = [k \in 1..Len(w) |-> w[k].reading]
      BY <2>1, <2>2 DEF Histories, ReadingsOf
    <2> QED
      BY <2>1, <2>2, <2>3
  <1>11. Places' \in [Clients -> [Paths -> Nat]]
    <2>1. \A d \in Clients, p \in Paths : Come(d, p)' \in Nat
      <3> SUFFICES ASSUME NEW d \in Clients, NEW p \in Paths
                   PROVE  Come(d, p)' \in Nat
        OBVIOUS
      <3>1. Len(written[p]) \in Nat
        BY HistoryFacts DEF Clocked
      <3> QED
        BY <1>8, <3>1
    <2> QED
      BY <2>1 DEF Places
  <1>12. \A p \in Paths : Places'[c][p] \in Places[c][p]..Len(Histories[p])
    <2> SUFFICES ASSUME NEW p \in Paths
                 PROVE  Places'[c][p] \in Places[c][p]..Len(Histories[p])
      OBVIOUS
    <2>1. Len(written[p]) \in Nat
      BY HistoryFacts DEF Clocked
    <2>2. Come(c, p) \in 1..Len(written[p])
      <3>1. PICK w, x : w = written[p] /\ x = Held(store[c], p)
        OBVIOUS
      <3>2. Placed(w, x) /\ Come(c, p) = Place(w, x)
        BY <3>1 DEF Comes
      <3>3. Place(w, x) \in 1..Len(w)
        BY <3>2 DEF Placed, Place
      <3> QED
        BY <3>1, <3>2, <3>3
    <2>3. Come(c, p)' \in Come(c, p)..Len(written[p])
      BY <1>8, <1>9, <2>1, <2>2
    <2>4. Places'[c][p] = Come(c, p)' /\ Places[c][p] = Come(c, p)
      BY DEF Places
    <2> QED
      BY <1>10, <2>3, <2>4
  <1>13. \A d \in Clients \ {c} : Places'[d] = Places[d]
    BY <1>7 DEF Places
  <1> QED
    BY <1>6, <1>11, <1>12, <1>13 DEF R!Follow, Histories, ReadingsOf, Places

\* Steps that write nothing and give no client anything to read.
Stays ==
    UNCHANGED written /\ \A c \in Clients, p \in Paths : Held(store'[c], p) = Held(store[c], p)

\* Everything but the programs' calls and what a client receives.
LEMMA OthersStay ==
    ASSUME IInv,
           \/ Tick \/ UNCHANGED vars \/ ServerNext
           \/ \E c \in Clients : Connect(c) \/ ClientFlush(c) \/ ClientUpdate(c)
           \/ \E c \in Clients : Disconnect(c) \/ ConnectFails(c)
    PROVE  Stays
  <1>1. /\ store = [n \in Nodes |-> store[n]] /\ \A n \in Nodes : StoreInv(store[n])
        /\ Clients \subseteq Nodes /\ Server \notin Clients
    BY ClientsAssumption DEF IInv, Stores, Nodes
  <1>2. ASSUME UNCHANGED <<store, written>>
        PROVE  Stays
    BY <1>2 DEF Stays
  <1>3. ASSUME NEW s, ServerBecomes(s)
        PROVE  Stays
    BY <1>1, <1>3 DEF ServerBecomes, Stays
  <1>4. ASSUME NEW c \in Clients, ClientUpdate(c)
        PROVE  Stays
    <2>1. UNCHANGED written /\ store' = [store EXCEPT ![c] = DirtyCleared(@)]
      BY <1>4 DEF ClientUpdate
    <2>2. store'[c] = DirtyCleared(store[c]) /\ \A d \in Clients \ {c} : store'[d] = store[d]
      BY <1>1, <2>1
    <2>3. \A p \in Paths : Held(store'[c], p) = Held(store[c], p)
      BY <1>1, <2>2, CleanedHeld
    <2> QED
      BY <2>1, <2>2, <2>3 DEF Stays
  <1>5. ASSUME ServerUpdate
        PROVE  Stays
    BY <1>3, <1>5 DEF ServerUpdate
  <1>6. ASSUME NEW c \in Clients, ServerReceive(c)
        PROVE  Stays
    BY <1>3, <1>6 DEF ServerReceive
  <1> QED
    BY <1>2, <1>4, <1>5, <1>6 DEF Tick, vars, ServerNext, Accept, Connect, ClientFlush,
                                    Disconnect, ConnectFails

\* A write of the server's program is one of Replicas, or the same reading again.
LEMMA ProgramRefines ==
    ASSUME Listening, IInv, IInv', Clocked, Comes, Comes',
           NEW n, NEW p \in Paths, NEW s, NEW r, Write(n, p, s, r)
    PROVE  [R!Next]_(R!vars)
  <1>1. n = Server
    BY DEF Write, Listening
  <1>2. /\ store = [m \in Nodes |-> store[m]] /\ Clients \subseteq Nodes /\ Server \notin Clients
    BY ClientsAssumption DEF IInv, Stores, Nodes
  <1>3. \A c \in Clients : store'[c] = store[c]
    BY <1>1, <1>2 DEF Write
  <1>4. CASE r = latest(p)
    <2>1. UNCHANGED written
      BY <1>4 DEF Write
    <2>2. UNCHANGED R!vars
      BY <1>3, <2>1, StayRefines
    <2> QED
      BY <2>2
  <1>5. CASE r # latest(p)
    <2>1. written' = [written EXCEPT ![p] = Append(@, [reading |-> r, at |-> time])]
      BY <1>5 DEF Write
    <2>2. R!Write(p)
      BY <1>3, <1>5, <2>1, WriteRefines
    <2> QED
      BY <2>2 DEF R!Next
  <1> QED
    BY <1>4, <1>5

\* Every step is one of Replicas, or a stutter.
LEMMA StepRefines ==
    ASSUME Listening, IInv, JInv, IInv', Clocked, Comes, Comes', [Next]_vars
    PROVE  [R!Next]_(R!vars)
  <1>1. ASSUME NEW n \in Nodes, NEW v \in Values, SetPath(n, v)
        PROVE  [R!Next]_(R!vars)
    <2>1. PICK p \in Paths : p = HomeOf[v]
      BY HomeAssumption
    <2>2. PICK s : Write(n, p, s, v)
      BY <1>1, <2>1 DEF SetPath
    <2> QED
      BY <2>1, <2>2, ProgramRefines
  <1>2. ASSUME NEW n \in Nodes, NEW p \in Paths, DeletePath(n, p) \/ ClearPath(n, p)
        PROVE  [R!Next]_(R!vars)
    <2>1. PICK s, r : Write(n, p, s, r)
      BY <1>2 DEF DeletePath, ClearPath
    <2> QED
      BY <2>1, ProgramRefines
  <1>3. ASSUME NEW c \in Clients, ClientReceive(c)
        PROVE  [R!Next]_(R!vars)
    <2>1. R!Follow(c)
      BY <1>3, ReceiveRefines
    <2> QED
      BY <2>1 DEF R!Next
  <1>4. ASSUME \/ Tick \/ UNCHANGED vars \/ ServerNext
               \/ \E c \in Clients : Connect(c) \/ ClientFlush(c) \/ ClientUpdate(c)
               \/ \E c \in Clients : Disconnect(c) \/ ConnectFails(c)
        PROVE  [R!Next]_(R!vars)
    <2>1. Stays
      BY <1>4, OthersStay
    <2>2. UNCHANGED R!vars
      BY <2>1, StayRefines DEF Stays
    <2> QED
      BY <2>2
  <1>5. ~(RestartServer \/ \E c \in Clients : RestartClient(c))
    BY RestartFacts DEF RestartServer, RestartClient
  <1> QED
    BY <1>1, <1>2, <1>3, <1>4, <1>5 DEF Next, ProgramNext, ClientNext, FailureNext

\* Clients that only listen are replicas of the server: each goes through the
\* readings of every path in the order the server's program gave them and is never
\* taken back, whatever connections break and however often it is greeted anew.
THEOREM ServerIsFollowed ==
    ASSUME Listening
    PROVE  Spec => ServerLeads
  <1>1. Init => R!Init
    BY InitInv, InitLeads, InitRefines
  <1>2. IInv /\ JInv => Clocked /\ Comes
    BY Bearings, ComesThere
  <1>3. /\ IInv /\ JInv /\ Clocked /\ Comes /\ [Next]_vars
        /\ (IInv /\ JInv /\ Clocked /\ Comes)'
        => [R!Next]_(R!vars)
    BY StepRefines
  <1> QED
    BY LeadsOn, <1>1, <1>2, <1>3, PTL DEF Spec, ServerLeads, R!Spec
=============================================================================
