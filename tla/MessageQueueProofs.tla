-------------------------- MODULE MessageQueueProofs --------------------------
(***************************************************************************)
(* Proofs about MessageQueue, for every number of slots, workers, clients  *)
(* and messages: the ring buffer implements the mailbox, no message is     *)
(* used after it was freed, no wakeup is missed while the server runs, the *)
(* queue outlives its threads, and a message overtakes fewer messages than *)
(* there are workers.                                                      *)
(*                                                                         *)
(* The invariant, QInv, has four parts besides the types.  OrderInv: the   *)
(* numbers of the pending messages grow from head to tail and are above    *)
(* those in the workers' hands.  FreeInv: what was freed is in neither     *)
(* place.  LockInv: a worker that has decided to wait holds the lock, so   *)
(* that the queue is still empty when it falls asleep.  JoinInv: how far   *)
(* main can have got with which threads running.                           *)
(***************************************************************************)
EXTENDS MessageQueue, SequenceTheorems, FiniteSetTheorems, TLAPS

States == {"none", "loop", "dequeue", "to_wait", "waiting", "handle", "exited"}

Letters == [message : 0..MaxMessages, client : Clients \cup {NoClient}]

QType ==
  /\ message_queue \in [Slots -> 0..MaxMessages]
  /\ client_queue \in [Slots -> Clients \cup {NoClient}]
  /\ queue_head \in Slots /\ queue_tail \in Slots
  /\ pc \in [Workers -> States]
  /\ message \in [Workers -> 0..MaxMessages]
  /\ client \in [Workers -> Clients \cup {NoClient}]
  /\ received \in 0..MaxMessages
  /\ running \in BOOLEAN /\ timer_running \in BOOLEAN

-----------------------------------------------------------------------------
(* The ring buffer.                                                        *)

\* The remainders the ring buffer computes.
LEMMA Remainder ==
  ASSUME NEW x \in Slots
  PROVE  x % QueueSize = x /\ (x + QueueSize) % QueueSize = x
BY QueueSizeAssumption DEF Slots

LEMMA NextSlotIs ==
  ASSUME NEW i \in Slots
  PROVE  /\ NextSlot(i) = IF i = QueueSize - 1 THEN 0 ELSE i + 1
         /\ NextSlot(i) \in Slots
<1>1. CASE i = QueueSize - 1
  <2>1. i + 1 = 0 + QueueSize /\ 0 \in Slots
    BY <1>1, QueueSizeAssumption DEF Slots
  <2> QED
    BY <1>1, <2>1, Remainder DEF NextSlot
<1>2. CASE i # QueueSize - 1
  <2>1. i + 1 \in Slots
    BY <1>2, QueueSizeAssumption DEF Slots
  <2> QED
    BY <1>2, <2>1, Remainder DEF NextSlot
<1> QED
  BY <1>1, <1>2

\* The number of messages from slot h up to slot t, the i-th slot from h on,
\* and the messages between them, for any contents of the two arrays.
Count(h, t) == (t - h + QueueSize) % QueueSize

Ring(h, i) == (h + i - 1) % QueueSize

Between(mq, cq, h, t) ==
  [i \in 1..Count(h, t) |-> [message |-> mq[Ring(h, i)], client |-> cq[Ring(h, i)]]]

LEMMA PendingIs ==
  /\ PendingCount = Count(queue_head, queue_tail)
  /\ Pending = Between(message_queue, client_queue, queue_head, queue_tail)
BY DEF PendingCount, Pending, Count, Ring, Between

LEMMA CountIs ==
  ASSUME NEW h \in Slots, NEW t \in Slots
  PROVE  /\ Count(h, t) = IF t >= h THEN t - h ELSE t - h + QueueSize
         /\ Count(h, t) \in Slots /\ Count(h, t) \in Nat
<1>1. CASE t >= h
  <2>1. t - h \in Slots
    BY <1>1, QueueSizeAssumption DEF Slots
  <2> QED
    BY <1>1, <2>1, Remainder, QueueSizeAssumption DEF Count, Slots
<1>2. CASE ~(t >= h)
  <2>1. t - h + QueueSize \in Slots
    BY <1>2, QueueSizeAssumption DEF Slots
  <2> QED
    BY <1>2, <2>1, Remainder, QueueSizeAssumption DEF Count, Slots
<1> QED
  BY <1>1, <1>2

LEMMA RingIs ==
  ASSUME NEW h \in Slots, NEW i \in 1..QueueSize
  PROVE  /\ Ring(h, i) = IF h + i - 1 < QueueSize THEN h + i - 1
                        ELSE h + i - 1 - QueueSize
         /\ Ring(h, i) \in Slots
<1>1. CASE h + i - 1 < QueueSize
  <2>1. h + i - 1 \in Slots
    BY <1>1, QueueSizeAssumption DEF Slots
  <2> QED
    BY <1>1, <2>1, Remainder DEF Ring
<1>2. CASE ~(h + i - 1 < QueueSize)
  <2> DEFINE x == h + i - 1 - QueueSize
  <2>1. x \in Slots /\ h + i - 1 = x + QueueSize
    BY <1>2, QueueSizeAssumption DEF Slots
  <2>2. Ring(h, i) = (x + QueueSize) % QueueSize
    BY <2>1 DEF Ring
  <2> HIDE DEF x
  <2>3. Ring(h, i) = x
    BY <2>1, <2>2, Remainder
  <2> QED
    BY <1>2, <2>1, <2>3 DEF x
<1> QED
  BY <1>1, <1>2

\* The messages between two slots are a sequence of letters, shorter than the
\* ring.
LEMMA BetweenType ==
  ASSUME NEW h \in Slots, NEW t \in Slots,
         NEW mq \in [Slots -> 0..MaxMessages],
         NEW cq \in [Slots -> Clients \cup {NoClient}]
  PROVE  /\ Between(mq, cq, h, t) \in Seq(Letters)
         /\ Len(Between(mq, cq, h, t)) = Count(h, t)
         /\ DOMAIN Between(mq, cq, h, t) = 1..Count(h, t)
         /\ \A i \in 1..Count(h, t) :
              /\ Ring(h, i) \in Slots
              /\ Between(mq, cq, h, t)[i] = [message |-> mq[Ring(h, i)],
                                            client |-> cq[Ring(h, i)]]
<1>0. Count(h, t) \in Slots
  BY CountIs
<1>1. Count(h, t) \in Nat /\ Count(h, t) < QueueSize
  BY <1>0, QueueSizeAssumption DEF Slots
<1>2. \A i \in 1..Count(h, t) : Ring(h, i) \in Slots
  BY <1>1, RingIs, QueueSizeAssumption
<1>3. \A i \in 1..Count(h, t) : Between(mq, cq, h, t)[i] \in Letters
  BY <1>2 DEF Between, Letters
<1> QED
  BY <1>1, <1>2, <1>3 DEF Between

\* A message written at the tail is appended.
LEMMA RingAppend ==
  ASSUME NEW h \in Slots, NEW t \in Slots, NextSlot(t) # h,
         NEW mq \in [Slots -> 0..MaxMessages],
         NEW cq \in [Slots -> Clients \cup {NoClient}],
         NEW m \in 0..MaxMessages, NEW c \in Clients \cup {NoClient},
         NEW mq2, NEW cq2, mq2[t] = m, cq2[t] = c,
         \A i \in Slots \ {t} : mq2[i] = mq[i] /\ cq2[i] = cq[i]
  PROVE  Between(mq2, cq2, h, NextSlot(t))
           = Append(Between(mq, cq, h, t), [message |-> m, client |-> c])
<1> DEFINE n == Count(h, t)
           u == NextSlot(t)
<1>a. u = (IF t = QueueSize - 1 THEN 0 ELSE t + 1) /\ u \in Slots /\ u # h
  BY NextSlotIs
<1>b. n = (IF t >= h THEN t - h ELSE t - h + QueueSize) /\ n \in Slots
  BY CountIs
<1>c. Count(h, u) = IF u >= h THEN u - h ELSE u - h + QueueSize
  BY <1>a, CountIs
<1> HIDE DEF n, u
<1>1. n \in Nat /\ n + 1 < QueueSize /\ Count(h, u) = n + 1
  BY <1>a, <1>b, <1>c, QueueSizeAssumption DEF Slots
<1>2. Ring(h, n + 1) = t
  <2>1. n + 1 \in 1..QueueSize
    BY <1>1, QueueSizeAssumption
  <2>2. Ring(h, n + 1) = IF h + (n + 1) - 1 < QueueSize THEN h + (n + 1) - 1
                         ELSE h + (n + 1) - 1 - QueueSize
    BY <2>1, RingIs
  <2> QED
    BY <1>1, <1>b, <2>2, QueueSizeAssumption DEF Slots
<1>3. \A i \in 1..n : Ring(h, i) \in Slots /\ Ring(h, i) # t
  <2> SUFFICES ASSUME NEW i \in 1..n PROVE Ring(h, i) \in Slots /\ Ring(h, i) # t
    OBVIOUS
  <2>1. i \in 1..QueueSize
    BY <1>1, QueueSizeAssumption
  <2>2. /\ Ring(h, i) = IF h + i - 1 < QueueSize THEN h + i - 1
                        ELSE h + i - 1 - QueueSize
        /\ Ring(h, i) \in Slots
    BY <2>1, RingIs
  <2> QED
    BY <1>1, <1>b, <2>2, QueueSizeAssumption DEF Slots
<1> USE DEF n, u
<1>4. Between(mq2, cq2, h, NextSlot(t)) =
        [i \in 1..(n + 1) |-> [message |-> mq2[Ring(h, i)], client |-> cq2[Ring(h, i)]]]
  BY <1>1 DEF Between
<1>5. Between(mq, cq, h, t) =
        [i \in 1..n |-> [message |-> mq[Ring(h, i)], client |-> cq[Ring(h, i)]]]
  BY DEF Between
<1>6. Append(Between(mq, cq, h, t), [message |-> m, client |-> c]) =
        [i \in 1..(n + 1) |-> IF i = n + 1 THEN [message |-> m, client |-> c]
                             ELSE [message |-> mq[Ring(h, i)], client |-> cq[Ring(h, i)]]]
  <2>1. /\ Between(mq, cq, h, t) \in Seq(Letters)
        /\ Len(Between(mq, cq, h, t)) = n
    BY BetweenType
  <2> HIDE DEF n
  <2>2. DOMAIN Append(Between(mq, cq, h, t), [message |-> m, client |-> c]) = 1..(n + 1)
    BY <1>1, <2>1
  <2> QED
    BY <1>1, <1>5, <2>1, <2>2
<1> HIDE DEF n
<1> DEFINE F(i) == [message |-> mq2[Ring(h, i)], client |-> cq2[Ring(h, i)]]
           G(i) == IF i = n + 1 THEN [message |-> m, client |-> c]
                   ELSE [message |-> mq[Ring(h, i)], client |-> cq[Ring(h, i)]]
<1>7. \A i \in 1..(n + 1) : F(i) = G(i)
  BY <1>1, <1>2, <1>3
<1>8. /\ Between(mq2, cq2, h, NextSlot(t)) = [i \in 1..(n + 1) |-> F(i)]
      /\ Append(Between(mq, cq, h, t), [message |-> m, client |-> c])
           = [i \in 1..(n + 1) |-> G(i)]
  BY <1>4, <1>6, Zenon
<1> HIDE DEF F, G
<1>9. [i \in 1..(n + 1) |-> F(i)] = [i \in 1..(n + 1) |-> G(i)]
  BY <1>7, Zenon
<1> QED
  BY <1>8, <1>9, Zenon

\* The message at the head is the first, and moving the head leaves the rest.
LEMMA RingTail ==
  ASSUME NEW h \in Slots, NEW t \in Slots, h # t,
         NEW mq \in [Slots -> 0..MaxMessages],
         NEW cq \in [Slots -> Clients \cup {NoClient}]
  PROVE  /\ Between(mq, cq, h, t) # <<>>
         /\ Head(Between(mq, cq, h, t)) = [message |-> mq[h], client |-> cq[h]]
         /\ Between(mq, cq, NextSlot(h), t) = Tail(Between(mq, cq, h, t))
<1> DEFINE n == Count(h, t)
           B == Between(mq, cq, h, t)
           k == NextSlot(h)
<1>a. k = (IF h = QueueSize - 1 THEN 0 ELSE h + 1) /\ k \in Slots
  BY NextSlotIs
<1>b. n = (IF t >= h THEN t - h ELSE t - h + QueueSize) /\ n \in Slots
  BY CountIs
<1>c. Count(k, t) = IF t >= k THEN t - k ELSE t - k + QueueSize
  BY <1>a, CountIs
<1> HIDE DEF n, k
<1>1. n \in Nat /\ n > 0 /\ n < QueueSize /\ Count(k, t) = n - 1
  BY <1>a, <1>b, <1>c, QueueSizeAssumption DEF Slots
<1>2. Ring(h, 1) = h
  <2>1. 1 \in 1..QueueSize
    BY QueueSizeAssumption
  <2>2. Ring(h, 1) = IF h + 1 - 1 < QueueSize THEN h + 1 - 1 ELSE h + 1 - 1 - QueueSize
    BY <2>1, RingIs
  <2> QED
    BY <2>2, QueueSizeAssumption DEF Slots
<1>3. \A i \in 1..(n - 1) : Ring(k, i) = Ring(h, i + 1)
  <2> SUFFICES ASSUME NEW i \in 1..(n - 1) PROVE Ring(k, i) = Ring(h, i + 1)
    OBVIOUS
  <2>1. i \in 1..QueueSize /\ i + 1 \in 1..QueueSize
    BY <1>1, QueueSizeAssumption
  <2>2. /\ Ring(k, i) = IF k + i - 1 < QueueSize THEN k + i - 1 ELSE k + i - 1 - QueueSize
        /\ Ring(h, i + 1) = IF h + (i + 1) - 1 < QueueSize THEN h + (i + 1) - 1
                            ELSE h + (i + 1) - 1 - QueueSize
    BY <1>a, <2>1, RingIs
  <2>3. h \in Nat /\ i \in Nat /\ QueueSize \in Nat /\ h < QueueSize /\ i < QueueSize
    BY <1>1, QueueSizeAssumption DEF Slots
  <2>4. CASE h = QueueSize - 1
    <3>1. k = 0
      BY <1>a, <2>4
    <3> QED
      BY <2>2, <2>3, <2>4, <3>1
  <2>5. CASE h # QueueSize - 1
    <3>1. k = h + 1
      BY <1>a, <2>5
    <3> QED
      BY <2>2, <2>3, <3>1
  <2> QED
    BY <2>4, <2>5
<1> USE DEF n, k
<1>4. /\ B \in Seq(Letters) /\ Len(B) = n
      /\ \A i \in 1..n : B[i] = [message |-> mq[Ring(h, i)], client |-> cq[Ring(h, i)]]
  BY BetweenType
<1>5. Between(mq, cq, NextSlot(h), t) =
        [i \in 1..(n - 1) |-> [message |-> mq[Ring(h, i + 1)], client |-> cq[Ring(h, i + 1)]]]
  BY <1>1, <1>3 DEF Between
<1> HIDE DEF n, B
<1>6. Tail(B) = [i \in 1..(n - 1) |-> B[i + 1]] /\ B # <<>> /\ Head(B) = B[1]
  <2>1. B # <<>>
    BY <1>1, <1>4
  <2>2. /\ Tail(B) \in Seq(Letters) /\ Len(Tail(B)) = n - 1
        /\ \A i \in 1..(n - 1) : Tail(B)[i] = B[i + 1]
    BY <1>1, <1>4, <2>1, HeadTailProperties
  <2>3. Tail(B) = [i \in 1..(n - 1) |-> B[i + 1]]
    <3>1. Tail(B) \in [1..(n - 1) -> Letters]
      BY <2>2, LenProperties
    <3> QED
      BY <2>2, <3>1
  <2>4. Head(B) = B[1]
    BY <1>4, <2>1
  <2> QED
    BY <2>1, <2>3, <2>4
<1>7. \A i \in 1..(n - 1) : B[i + 1] = [message |-> mq[Ring(h, i + 1)],
                                         client |-> cq[Ring(h, i + 1)]]
  BY <1>1, <1>4
<1> QED
  BY <1>1, <1>2, <1>4, <1>5, <1>6, <1>7 DEF B

-----------------------------------------------------------------------------
(* The invariant.                                                          *)

OrderInv ==
  /\ \A i, j \in 1..Len(Pending) : i < j => Pending[i].message < Pending[j].message
  /\ \A i \in 1..Len(Pending) : Pending[i].message \in 1..received
  /\ \A w \in Busy : message[w] \in 1..received
  /\ \A w \in Busy, i \in 1..Len(Pending) : message[w] < Pending[i].message
  /\ \A v, w \in Busy : message[v] = message[w] => v = w

FreeInv ==
  main # "destroyed" =>
    /\ frees \in [Messages -> Nat]
    /\ \A i \in 1..Len(Pending) : frees[Pending[i].message] = 0
    /\ \A w \in Busy : frees[message[w]] = 0
    /\ \A m \in Messages : frees[m] <= 1 /\ (m > received => frees[m] = 0)

LockInv ==
  /\ waiting \subseteq Workers
  /\ \A w \in Workers : pc[w] = "waiting" <=> w \in waiting
  /\ \A w \in Workers : pc[w] = "to_wait" => queue_lock = w /\ queue_head = queue_tail
  /\ main = "created" => \A w \in Workers : pc[w] = "none"
  /\ WorkIsNoticed

AllCreated == \A w \in Workers : pc[w] # "none"

JoinInv ==
  /\ main = "starting" => running
  /\ main \in {"start_timer", "up", "join_timer", "stop_workers"} /\ AllCreated => running
  /\ main \in {"joined", "ws_stopped", "destroyed"} /\ AllCreated
       => \A w \in Workers : pc[w] = "exited"
  /\ main \in {"join_timer", "stop_workers", "broadcast", "joining", "joined",
                "ws_stopped", "destroyed"} => ~timer_running
  /\ ~timer_running /\ main # "join_timer" => timer \in {"none", "exited"}

QInv == QType /\ OrderInv /\ FreeInv /\ LockInv /\ JoinInv

\* The pending messages as a sequence.
LEMMA PendingType ==
  ASSUME QType
  PROVE  /\ Pending \in Seq(Letters)
         /\ Len(Pending) = PendingCount /\ Len(Pending) \in Nat
         /\ Len(Pending) \in Slots
<1>1. Count(queue_head, queue_tail) \in Slots /\ Count(queue_head, queue_tail) \in Nat
  BY CountIs DEF QType
<1>2. /\ Pending \in Seq(Letters)
      /\ Len(Pending) = Count(queue_head, queue_tail)
  BY PendingIs, BetweenType DEF QType
<1> QED
  BY <1>1, <1>2, PendingIs

-----------------------------------------------------------------------------
(* What a step does to the messages.                                       *)

\* Nothing.
Quiet ==
  /\ UNCHANGED <<Pending, message, client, received, frees>>
  /\ Busy' = Busy
  /\ main = "destroyed" => main' = "destroyed"

\* The next message is put in the queue, or lost because the queue is full.
Put ==
  /\ received < MaxMessages /\ received' = received + 1
  /\ \/ /\ Len(Pending) < QueueSize - 1
        /\ \E c \in Clients :
             Pending' = Append(Pending, [message |-> received + 1, client |-> c])
     \/ Len(Pending) = QueueSize - 1 /\ Pending' = Pending
  /\ UNCHANGED <<message, client, frees, main>>
  /\ Busy' = Busy

\* A worker takes the first message.
Taken(w) ==
  /\ Pending # <<>> /\ Pending' = Tail(Pending)
  /\ w \notin Busy /\ Busy' = Busy \cup {w}
  /\ message' = [message EXCEPT ![w] = Head(Pending).message]
  /\ client' = [client EXCEPT ![w] = Head(Pending).client]
  /\ UNCHANGED <<received, frees, main>>

\* A worker frees the message it has answered.
Done(w) ==
  /\ w \in Busy /\ Busy' = Busy \ {w}
  /\ frees' = [frees EXCEPT ![message[w]] = @ + 1]
  /\ message' = [message EXCEPT ![w] = NULL]
  /\ UNCHANGED <<Pending, client, received, main>>

\* The queue is destroyed.
Destroy ==
  /\ main' = "destroyed"
  /\ UNCHANGED <<Pending, message, client, received>>
  /\ Busy' = Busy

\* An unchanged queue holds the same messages.
LEMMA SamePending ==
  ASSUME UNCHANGED queue_vars
  PROVE  Pending' = Pending
BY PendingIs DEF queue_vars, Pending, PendingCount

\* A worker that changes its place without getting to the handler, or leaving
\* it, keeps the others busy.
LEMMA SameBusy ==
  ASSUME NEW w \in Workers, NEW l \in States \ {"handle"}, pc[w] # "handle",
         pc \in [Workers -> States], pc' = [pc EXCEPT ![w] = l]
  PROVE  Busy' = Busy
BY DEF Busy

LEMMA WakeBusy ==
  ASSUME LockInv, NEW W \in SUBSET waiting, Wake(W)
  PROVE  Busy' = Busy
BY DEF Busy, Wake, LockInv

LEMMA PutEffect ==
  ASSUME QType, LockInv, NEW c \in Clients, server_handlers_process_message(c)
  PROVE  Put
<1>1. /\ received < MaxMessages /\ received' = received + 1
      /\ UNCHANGED <<message, client, frees, main>>
  BY DEF server_handlers_process_message, work_vars
<1>2. Len(Pending) = Count(queue_head, queue_tail)
  BY PendingType, PendingIs
<1>3. /\ Count(queue_head, queue_tail) =
           IF queue_tail >= queue_head THEN queue_tail - queue_head
           ELSE queue_tail - queue_head + QueueSize
      /\ NextSlot(queue_tail) = IF queue_tail = QueueSize - 1 THEN 0 ELSE queue_tail + 1
  BY CountIs, NextSlotIs DEF QType
<1>4. QueueFull <=> Len(Pending) = QueueSize - 1
  BY <1>2, <1>3, QueueSizeAssumption DEF QType, QueueFull, Slots
<1>5. Len(Pending) \in Nat /\ Len(Pending) <= QueueSize - 1
  BY PendingType, QueueSizeAssumption DEF Slots
<1>6. CASE QueueFull
  <2>1. UNCHANGED <<queue_vars, pc>>
    BY <1>6 DEF server_handlers_process_message
  <2>2. Pending' = Pending /\ Busy' = Busy
    BY <2>1, SamePending DEF Busy
  <2> QED
    BY <1>1, <1>4, <1>6, <2>2 DEF Put
<1>7. CASE ~QueueFull
  <2>1. /\ message_queue' = [message_queue EXCEPT ![queue_tail] = received + 1]
        /\ client_queue' = [client_queue EXCEPT ![queue_tail] = c]
        /\ queue_tail' = NextSlot(queue_tail) /\ queue_head' = queue_head
        /\ Signal
    BY <1>7 DEF server_handlers_process_message
  <2>2. received + 1 \in 0..MaxMessages
    BY <1>1, MaxMessagesAssumption DEF QType
  <2>3. Pending' = Between(message_queue', client_queue', queue_head', queue_tail')
    BY DEF Pending, PendingCount, Between, Count, Ring
  <2>4. Pending' = Append(Pending, [message |-> received + 1, client |-> c])
    <3>1. Between(message_queue', client_queue', queue_head, NextSlot(queue_tail))
          = Append(Between(message_queue, client_queue, queue_head, queue_tail),
                   [message |-> received + 1, client |-> c])
      <4>1. /\ queue_head \in Slots /\ queue_tail \in Slots
            /\ NextSlot(queue_tail) # queue_head
            /\ message_queue \in [Slots -> 0..MaxMessages]
            /\ client_queue \in [Slots -> Clients \cup {NoClient}]
            /\ c \in Clients \cup {NoClient}
        BY <1>7 DEF QType, QueueFull
      <4>2. /\ message_queue'[queue_tail] = received + 1
            /\ client_queue'[queue_tail] = c
            /\ \A i \in Slots \ {queue_tail} : /\ message_queue'[i] = message_queue[i]
                                              /\ client_queue'[i] = client_queue[i]
        BY <2>1, <4>1
      <4> QED
        BY <2>2, <4>1, <4>2, RingAppend
    <3>2. Pending = Between(message_queue, client_queue, queue_head, queue_tail)
      BY PendingIs
    <3> QED
      BY <2>1, <2>3, <3>1, <3>2, Zenon
  <2>5. Busy' = Busy
    <3>1. CASE UNCHANGED <<waiting, pc>>
      BY <3>1 DEF Busy
    <3>2. CASE \E w \in waiting : Wake({w})
      BY <3>2, WakeBusy
    <3> QED
      BY <2>1, <3>1, <3>2 DEF Signal
  <2> QED
    BY <1>1, <1>4, <1>5, <1>7, <2>4, <2>5, QueueSizeAssumption DEF Put
<1> QED
  BY <1>6, <1>7

LEMMA TakeEffect ==
  ASSUME QType, NEW w \in Workers, DequeueMessage(w)
  PROVE  Taken(w)
<1> DEFINE B == Between(message_queue, client_queue, queue_head, queue_tail)
<1>1. /\ queue_head # queue_tail /\ pc[w] = "dequeue"
      /\ message' = [message EXCEPT ![w] = message_queue[queue_head]]
      /\ client' = [client EXCEPT ![w] = client_queue[queue_head]]
      /\ queue_head' = NextSlot(queue_head)
      /\ pc' = [pc EXCEPT ![w] = "handle"]
      /\ UNCHANGED <<message_queue, client_queue, queue_tail, received, frees, main>>
  BY DEF DequeueMessage
<1>2. /\ B # <<>>
      /\ Head(B) = [message |-> message_queue[queue_head],
                    client |-> client_queue[queue_head]]
      /\ Between(message_queue, client_queue, NextSlot(queue_head), queue_tail) = Tail(B)
  BY <1>1, RingTail DEF QType
<1>3. Pending = B
  BY PendingIs
<1>4. Pending' = Between(message_queue', client_queue', queue_head', queue_tail')
  BY DEF Pending, PendingCount, Between, Count, Ring
<1>5. Pending' = Tail(B)
  BY <1>1, <1>2, <1>4, Zenon
<1>6. w \notin Busy /\ Busy' = Busy \cup {w}
  BY <1>1 DEF Busy, QType
<1>7. /\ Head(B).message = message_queue[queue_head]
      /\ Head(B).client = client_queue[queue_head]
  BY <1>2
<1>8. /\ message' = [message EXCEPT ![w] = Head(Pending).message]
      /\ client' = [client EXCEPT ![w] = Head(Pending).client]
  BY <1>1, <1>3, <1>7, Zenon
<1>9. Pending # <<>> /\ Pending' = Tail(Pending)
  BY <1>2, <1>3, <1>5, Zenon
<1> QED
  BY <1>1, <1>6, <1>8, <1>9, Zenon DEF Taken

LEMMA DoneEffect ==
  ASSUME QType, NEW w \in Workers, HandleMessage(w)
  PROVE  Done(w)
<1>1. Pending' = Pending
  BY SamePending DEF HandleMessage
<1>2. w \in Busy /\ Busy' = Busy \ {w}
  BY DEF HandleMessage, Busy, QType
<1> QED
  BY <1>1, <1>2 DEF HandleMessage, Done

\* The steps of the workers that only move them about.
LEMMA WorkerQuiet ==
  ASSUME QType, LockInv, NEW w \in Workers,
         \/ WorkerLoop(w) \/ DequeueEmpty(w) \/ CondWait(w) \/ DequeueStopped(w)
         \/ SpuriousWakeup(w) \/ CreateWorker(w)
  PROVE  Quiet
<1>1. UNCHANGED <<queue_vars, message, client, received, frees, main>>
  BY DEF WorkerLoop, DequeueEmpty, CondWait, DequeueStopped, SpuriousWakeup,
         CreateWorker, work_vars
<1>2. CASE SpuriousWakeup(w)
  BY <1>1, <1>2, WakeBusy, SamePending DEF SpuriousWakeup, Quiet
<1>3. CASE ~SpuriousWakeup(w)
  <2>1. /\ pc[w] # "handle"
        /\ \E l \in States \ {"handle"} : pc' = [pc EXCEPT ![w] = l]
    BY <1>3 DEF WorkerLoop, DequeueEmpty, CondWait, DequeueStopped, CreateWorker, States
  <2>2. Busy' = Busy
    BY <2>1, SameBusy DEF QType
  <2> QED
    BY <1>1, <2>2, SamePending DEF Quiet
<1> QED
  BY <1>2, <1>3

\* The steps of main and of the snapshot thread that touch no message.
LEMMA MainQuiet ==
  ASSUME QType, LockInv,
         \/ StartWorkers \/ WorkersStarted \/ CreateFails \/ StartTimer \/ StopTimer
         \/ JoinTimer \/ StopWorkers \/ StopBroadcast \/ StopJoin \/ ServerStop
         \/ SnapshotLoop \/ SnapshotTake
  PROVE  Quiet
<1>1. /\ UNCHANGED <<queue_vars, message, client, received, frees>>
      /\ main = "destroyed" => main' = "destroyed"
  BY DEF StartWorkers, WorkersStarted, CreateFails, StartTimer, StopTimer, JoinTimer,
         StopWorkers, StopBroadcast, StopJoin, ServerStop, SnapshotLoop, SnapshotTake,
         work_vars
<1>2. Busy' = Busy
  <2>1. CASE StopBroadcast
    BY <2>1, WakeBusy DEF StopBroadcast
  <2>2. CASE pc' = pc
    BY <2>2 DEF Busy
  <2> QED
    BY <2>1, <2>2
       DEF StartWorkers, WorkersStarted, CreateFails, StartTimer, StopTimer, JoinTimer,
           StopWorkers, StopJoin, ServerStop, SnapshotLoop, SnapshotTake
<1> QED
  BY <1>1, <1>2, SamePending DEF Quiet

\* Every step does one of these things.
LEMMA StepEffect ==
  ASSUME QType, LockInv, [Next]_vars
  PROVE  \/ Quiet \/ Put \/ Destroy
         \/ \E w \in Workers : Taken(w) \/ Done(w)
<1>1. CASE \E c \in Clients : server_handlers_process_message(c)
  BY <1>1, PutEffect
<1>2. CASE \E w \in Workers : Worker(w) \/ SpuriousWakeup(w)
  BY <1>2, WorkerQuiet, TakeEffect, DoneEffect DEF Worker
<1>3. CASE Startup \/ CreateFails \/ StopTimer
  BY <1>3, MainQuiet, WorkerQuiet DEF Startup
<1>4. CASE Shutdown
  <2>1. CASE server_handlers_destroy
    <3>1. /\ UNCHANGED <<queue_vars, message, client, received, pc>>
          /\ main' = "destroyed"
      BY <2>1 DEF server_handlers_destroy, work_vars
    <3>2. Pending' = Pending /\ Busy' = Busy
      BY <3>1, SamePending DEF Busy
    <3> QED
      BY <3>1, <3>2 DEF Destroy
  <2> QED
    BY <1>4, <2>1, MainQuiet DEF Shutdown
<1>5. CASE Snapshot
  BY <1>5, MainQuiet DEF Snapshot
<1>6. CASE UNCHANGED vars
  <2>1. UNCHANGED <<queue_vars, message, client, received, frees, pc, main>>
    BY <1>6 DEF vars, queue_vars
  <2> QED
    BY <2>1, SamePending DEF Quiet, Busy
<1> QED
  BY <1>1, <1>2, <1>3, <1>4, <1>5, <1>6 DEF Next, Finished

-----------------------------------------------------------------------------
(* Every part of the invariant is kept.                                    *)

LEMMA TypeStep ==
  ASSUME QType, LockInv, [Next]_vars
  PROVE  QType'
<1> USE DEF QType, States
<1>1. CASE \E c \in Clients : server_handlers_process_message(c)
  <2> PICK c \in Clients : server_handlers_process_message(c)
    BY <1>1
  <2>1. received + 1 \in 0..MaxMessages /\ NextSlot(queue_tail) \in Slots
    BY NextSlotIs, MaxMessagesAssumption DEF server_handlers_process_message
  <2>2. pc' \in [Workers -> States]
    BY DEF server_handlers_process_message, Signal, Wake
  <2>3. /\ message_queue' \in [Slots -> 0..MaxMessages]
        /\ client_queue' \in [Slots -> Clients \cup {NoClient}]
        /\ queue_head' \in Slots /\ queue_tail' \in Slots
        /\ received' \in 0..MaxMessages
    BY <2>1 DEF server_handlers_process_message, queue_vars
  <2> QED
    BY <2>2, <2>3 DEF server_handlers_process_message, work_vars, timer_vars
<1>2. CASE \E w \in Workers : Worker(w) \/ SpuriousWakeup(w) \/ CreateWorker(w)
  <2> PICK w \in Workers : Worker(w) \/ SpuriousWakeup(w) \/ CreateWorker(w)
    BY <1>2
  <2>1. CASE DequeueMessage(w)
    BY <2>1, NextSlotIs DEF DequeueMessage, timer_vars
  <2>2. CASE HandleMessage(w)
    <3>1. NULL \in 0..MaxMessages
      BY MaxMessagesAssumption DEF NULL
    <3> QED
      BY <2>2, <3>1 DEF HandleMessage, queue_vars, timer_vars
  <2>3. CASE SpuriousWakeup(w)
    BY <2>3 DEF SpuriousWakeup, Wake, queue_vars, timer_vars, work_vars
  <2> QED
    BY <2>1, <2>2, <2>3
       DEF Worker, WorkerLoop, DequeueEmpty, CondWait, DequeueStopped, CreateWorker,
           queue_vars, timer_vars, work_vars
<1>3. CASE StartWorkers \/ WorkersStarted \/ CreateFails \/ StopTimer \/ Shutdown
  BY <1>3
     DEF StartWorkers, WorkersStarted, CreateFails, StopTimer, Shutdown, JoinTimer,
         StopWorkers, StopBroadcast, StopJoin, ServerStop, server_handlers_destroy,
         Wake, queue_vars, timer_vars, work_vars
<1>4. CASE StartTimer \/ Snapshot
  BY <1>4
     DEF StartTimer, Snapshot, SnapshotLoop, SnapshotTake, queue_vars, timer_vars, work_vars
<1>5. CASE UNCHANGED vars
  BY <1>5 DEF vars
<1> QED
  BY <1>1, <1>2, <1>3, <1>4, <1>5 DEF Next, Startup, Finished

\* The messages stay in order, for each of the things a step can do.
LEMMA OrderStep ==
  ASSUME QType, OrderInv,
         \/ Quiet \/ Put \/ Destroy
         \/ \E w \in Workers : Taken(w) \/ Done(w)
  PROVE  OrderInv'
<1>0. Pending \in Seq(Letters) /\ Len(Pending) \in Nat /\ received \in Nat
  BY PendingType, MaxMessagesAssumption DEF QType
<1>a. \A i \in 1..Len(Pending) : Pending[i].message \in Int
  BY <1>0 DEF OrderInv
<1>1. CASE Quiet \/ Destroy
  BY <1>1 DEF Quiet, Destroy, OrderInv
<1>2. CASE Put
  <2>1. CASE Pending' = Pending
    BY <1>2, <1>0, <2>1 DEF Put, OrderInv
  <2>2. ASSUME NEW c \in Clients,
               Pending' = Append(Pending, [message |-> received + 1, client |-> c])
        PROVE  OrderInv'
    <3> DEFINE n == Len(Pending)
    <3>1. /\ Len(Pending') = n + 1
          /\ \A i \in 1..n : Pending'[i] = Pending[i]
          /\ Pending'[n + 1] = [message |-> received + 1, client |-> c]
      BY <1>0, <2>2
    <3>2. \A i \in 1..n : Pending'[i].message = Pending[i].message
      BY <3>1
    <3>3. Pending'[n + 1].message = received + 1
      BY <3>1
    <3>4. n \in Nat
      BY <1>0
    <3>5. \A i \in 1..Len(Pending') : i \in 1..n \/ i = n + 1
      BY <3>1, <3>4
    <3> HIDE DEF n
    <3>6. /\ message' = message /\ Busy' = Busy /\ received' = received + 1
      BY <1>2 DEF Put
    <3>7. /\ \A i, j \in 1..n : i < j => Pending[i].message < Pending[j].message
          /\ \A i \in 1..n : Pending[i].message \in 1..received
          /\ \A w \in Busy : message[w] \in 1..received
          /\ \A w \in Busy, i \in 1..n : message[w] < Pending[i].message
          /\ \A v, w \in Busy : message[v] = message[w] => v = w
      BY DEF OrderInv, n
    <3>8. \A i, j \in 1..Len(Pending') : i < j => Pending'[i].message < Pending'[j].message
      BY <1>0, <3>2, <3>3, <3>4, <3>5, <3>7
    <3>9. \A i \in 1..Len(Pending') : Pending'[i].message \in 1..received'
      BY <1>0, <3>2, <3>3, <3>5, <3>6, <3>7
    <3>10. \A w \in Busy' : message'[w] \in 1..received'
      BY <1>0, <3>6, <3>7
    <3>11. \A w \in Busy', i \in 1..Len(Pending') : message'[w] < Pending'[i].message
      BY <1>0, <3>2, <3>3, <3>5, <3>6, <3>7
    <3> QED
      BY <3>6, <3>7, <3>8, <3>9, <3>10, <3>11 DEF OrderInv
  <2> QED
    BY <1>2, <2>1, <2>2 DEF Put
<1>3. ASSUME NEW w \in Workers, Taken(w)
      PROVE  OrderInv'
  <2> DEFINE n == Len(Pending)
  <2>1. /\ Len(Pending') = n - 1 /\ n \in Nat /\ n > 0
        /\ \A i \in 1..(n - 1) : Pending'[i] = Pending[i + 1]
        /\ Head(Pending) = Pending[1]
    BY <1>0, <1>3, HeadTailProperties DEF Taken
  <2>2. /\ Busy' = Busy \cup {w} /\ w \notin Busy /\ received' = received
        /\ message'[w] = Pending[1].message
        /\ \A v \in Busy : message'[v] = message[v]
    BY <1>3, <2>1 DEF Taken, QType, Busy
  <2> HIDE DEF n
  <2>3. /\ \A i, j \in 1..n : i < j => Pending[i].message < Pending[j].message
        /\ \A i \in 1..n : Pending[i].message \in 1..received
        /\ \A v \in Busy : message[v] \in 1..received
        /\ \A v \in Busy, i \in 1..n : message[v] < Pending[i].message
        /\ \A u, v \in Busy : message[u] = message[v] => u = v
    BY DEF OrderInv, n
  <2>a. n \in Nat
    BY <1>0 DEF n
  <2>4. \A i \in 1..(n - 1) : i + 1 \in 1..n
    BY <2>a
  <2>5. 1 \in 1..n
    BY <2>1, <2>a
  <2>6. \A i, j \in 1..(n - 1) : i < j => Pending'[i].message < Pending'[j].message
    <3> SUFFICES ASSUME NEW i \in 1..(n - 1), NEW j \in 1..(n - 1), i < j
                 PROVE  Pending'[i].message < Pending'[j].message
      OBVIOUS
    <3>1. i + 1 \in 1..n /\ j + 1 \in 1..n /\ i + 1 < j + 1
      BY <2>4
    <3>2. Pending[i + 1].message < Pending[j + 1].message
      BY <2>3, <3>1
    <3> QED
      BY <2>1, <3>2
  <2>7. \A i \in 1..(n - 1) : Pending'[i].message \in 1..received'
    BY <2>1, <2>2, <2>3, <2>4
  <2>8. \A v \in Busy' : message'[v] \in 1..received'
    BY <2>2, <2>3, <2>5
  <2>9. \A v \in Busy', i \in 1..(n - 1) : message'[v] < Pending'[i].message
    BY <2>1, <2>2, <2>3, <2>4, <2>5
  <2>10. \A u, v \in Busy' : message'[u] = message'[v] => u = v
    <3>1. \A v \in Busy : message[v] < Pending[1].message /\ message[v] \in Int
      BY <2>3, <2>5
    <3>2. \A v \in Busy : message[v] # Pending[1].message
      BY <1>a, <2>5, <3>1 DEF n
    <3> QED
      BY <2>2, <2>3, <3>2
  <2> QED
    BY <2>1, <2>6, <2>7, <2>8, <2>9, <2>10 DEF OrderInv
<1>4. ASSUME NEW w \in Workers, Done(w)
      PROVE  OrderInv'
  <2>1. /\ Busy' = Busy \ {w} /\ received' = received /\ Pending' = Pending
        /\ \A v \in Busy' : v \in Busy /\ message'[v] = message[v]
    BY <1>4 DEF Done, QType, Busy
  <2> QED
    BY <2>1 DEF OrderInv
<1> QED
  BY <1>1, <1>2, <1>3, <1>4

\* What is pending or held was not freed.
LEMMA FreeStep ==
  ASSUME QType, OrderInv, FreeInv,
         \/ Quiet \/ Put \/ Destroy
         \/ \E w \in Workers : Taken(w) \/ Done(w)
  PROVE  FreeInv'
<1> SUFFICES ASSUME main' # "destroyed"
             PROVE  FreeInv'
  BY DEF FreeInv
<1>0. /\ Pending \in Seq(Letters) /\ Len(Pending) \in Nat
      /\ received \in Nat /\ MaxMessages \in Nat /\ received <= MaxMessages
  BY PendingType, MaxMessagesAssumption DEF QType
<1>1. main # "destroyed"
  BY DEF Quiet, Put, Taken, Done, Destroy
<1>2. /\ frees \in [Messages -> Nat]
      /\ \A i \in 1..Len(Pending) : frees[Pending[i].message] = 0
      /\ \A v \in Busy : frees[message[v]] = 0
      /\ \A m \in Messages : frees[m] <= 1 /\ (m > received => frees[m] = 0)
  BY <1>1 DEF FreeInv
<1>3. CASE Quiet
  BY <1>2, <1>3 DEF Quiet, FreeInv
<1>4. CASE Put
  <2>1. frees' = frees /\ message' = message /\ Busy' = Busy /\ received' = received + 1
    BY <1>4 DEF Put
  <2>2. \A m \in Messages : frees'[m] <= 1 /\ (m > received' => frees'[m] = 0)
    BY <1>0, <1>2, <2>1 DEF Messages
  <2>3. frees[received + 1] = 0
    BY <1>0, <1>2, <1>4 DEF Messages, Put
  <2>4. \A i \in 1..Len(Pending') : frees'[Pending'[i].message] = 0
    <3>1. CASE Pending' = Pending
      BY <1>2, <2>1, <3>1
    <3>2. ASSUME NEW c \in Clients,
                 Pending' = Append(Pending, [message |-> received + 1, client |-> c])
          PROVE  \A i \in 1..Len(Pending') : frees'[Pending'[i].message] = 0
      BY <1>0, <1>2, <2>1, <2>3, <3>2
    <3> QED
      BY <1>4, <3>1, <3>2 DEF Put
  <2> QED
    BY <1>2, <2>1, <2>2, <2>4 DEF FreeInv
<1>5. ASSUME NEW w \in Workers, Taken(w)
      PROVE  FreeInv'
  <2>1. /\ Len(Pending') = Len(Pending) - 1 /\ Len(Pending) > 0
        /\ \A i \in 1..(Len(Pending) - 1) : Pending'[i] = Pending[i + 1]
        /\ Head(Pending) = Pending[1]
    BY <1>0, <1>5, HeadTailProperties DEF Taken
  <2>2. /\ Busy' = Busy \cup {w} /\ received' = received /\ frees' = frees
        /\ message'[w] = Pending[1].message
        /\ \A v \in Busy : v # w => message'[v] = message[v]
    BY <1>5, <2>1 DEF Taken, QType, Busy
  <2>3. \A i \in 1..Len(Pending') : frees'[Pending'[i].message] = 0
    <3>1. \A i \in 1..Len(Pending') : i + 1 \in 1..Len(Pending) /\ Pending'[i] = Pending[i + 1]
      BY <1>0, <2>1
    <3> QED
      BY <1>2, <2>2, <3>1
  <2>4. \A v \in Busy' : frees'[message'[v]] = 0
    <3>1. frees[Pending[1].message] = 0
      BY <1>0, <1>2, <2>1
    <3> QED
      BY <1>2, <2>2, <3>1
  <2> QED
    BY <1>2, <2>2, <2>3, <2>4 DEF FreeInv
<1>6. ASSUME NEW w \in Workers, Done(w)
      PROVE  FreeInv'
  <2> DEFINE m == message[w]
  <2>1. /\ Busy' = Busy \ {w} /\ received' = received /\ Pending' = Pending /\ w \in Busy
        /\ frees' = [frees EXCEPT ![m] = @ + 1]
        /\ \A v \in Busy' : v \in Busy /\ v # w /\ message'[v] = message[v]
    BY <1>6 DEF Done, QType, Busy
  <2>a. /\ m \in 1..received
        /\ \A i \in 1..Len(Pending) : m < Pending[i].message /\ Pending[i].message \in 1..received
        /\ \A v \in Busy' : message[v] # m /\ message[v] \in 1..received
    BY <2>1 DEF OrderInv
  <2>b. 1..received \subseteq Messages
    BY <1>0 DEF Messages
  <2>3. frees[m] = 0
    BY <1>2, <2>1
  <2>5. \A v \in Busy' : message[v] # m /\ message[v] \in Messages
    BY <2>a, <2>b
  <2> HIDE DEF m
  <2>2. m \in Messages /\ m <= received
    BY <1>0, <2>a, <2>b
  <2>4. \A i \in 1..Len(Pending) : Pending[i].message # m /\ Pending[i].message \in Messages
    BY <1>0, <2>a, <2>b
  <2>6. /\ frees' \in [Messages -> Nat] /\ frees'[m] = 1
        /\ \A k \in Messages : k # m => frees'[k] = frees[k]
    BY <1>2, <2>1, <2>2, <2>3
  <2>7. \A i \in 1..Len(Pending') : frees'[Pending'[i].message] = 0
    BY <1>2, <2>1, <2>4, <2>6
  <2>8. \A v \in Busy' : frees'[message'[v]] = 0
    BY <1>2, <2>1, <2>5, <2>6
  <2>9. \A k \in Messages : frees'[k] <= 1 /\ (k > received' => frees'[k] = 0)
    BY <1>0, <1>2, <2>1, <2>2, <2>6 DEF Messages
  <2> QED
    BY <2>6, <2>7, <2>8, <2>9 DEF FreeInv
<1>7. CASE Destroy
  BY <1>7 DEF Destroy
<1> QED
  BY <1>3, <1>4, <1>5, <1>6, <1>7

\* No wakeup is missed.
LEMMA LockStep ==
  ASSUME QType, LockInv, [Next]_vars
  PROVE  LockInv'
<1> USE DEF LockInv, QType, WorkIsNoticed
<1>0. Unlocked \notin Workers
  BY WorkersAssumption DEF Unlocked
<1>1. CASE \E c \in Clients : server_handlers_process_message(c)
  <2> PICK c \in Clients : server_handlers_process_message(c)
    BY <1>1
  <2>1. /\ queue_lock = Unlocked /\ queue_lock' = queue_lock
        /\ running' = running /\ main' = main
        /\ \A w \in Workers : pc[w] # "to_wait"
    BY <1>0 DEF server_handlers_process_message
  <2>2. CASE QueueFull
    BY <2>1, <2>2 DEF server_handlers_process_message, queue_vars
  <2>3. CASE ~QueueFull
    <3>1. CASE waiting = {} /\ UNCHANGED <<waiting, pc>>
      BY <2>1, <3>1, WorkersAssumption
    <3>2. CASE \E w \in waiting : Wake({w})
      BY <2>1, <3>2 DEF Wake
    <3> QED
      BY <2>3, <3>1, <3>2 DEF server_handlers_process_message, Signal
  <2> QED
    BY <2>2, <2>3
<1>2. ASSUME NEW w \in Workers, Worker(w) \/ SpuriousWakeup(w) \/ CreateWorker(w)
      PROVE  LockInv'
  <2>1. CASE CondWait(w)
    BY <1>0, <2>1 DEF CondWait, queue_vars
  <2>2. CASE DequeueEmpty(w)
    BY <1>0, <2>2 DEF DequeueEmpty, queue_vars
  <2>3. CASE DequeueMessage(w)
    BY <1>0, <2>3 DEF DequeueMessage
  <2>4. CASE SpuriousWakeup(w)
    BY <2>4 DEF SpuriousWakeup, Wake, queue_vars
  <2> QED
    BY <1>2, <2>1, <2>2, <2>3, <2>4
       DEF Worker, WorkerLoop, DequeueStopped, HandleMessage, CreateWorker, queue_vars
<1>3. CASE StopBroadcast
  BY <1>3, WorkersAssumption DEF StopBroadcast, Wake, queue_vars
<1>4. CASE StartWorkers
  BY <1>4, WorkersAssumption DEF StartWorkers, queue_vars
<1>5. CASE \/ WorkersStarted \/ CreateFails \/ StopTimer \/ StartTimer \/ Snapshot
           \/ JoinTimer \/ StopWorkers \/ StopJoin \/ ServerStop
           \/ server_handlers_destroy \/ UNCHANGED vars
  <2> HIDE DEF LockInv, QType, WorkIsNoticed
  <2> DEFINE Same == /\ UNCHANGED <<queue_head, queue_tail, queue_lock, waiting, pc>>
                     /\ running' => running
                     /\ main' = "created" => main = "created"
  <2>1. ASSUME WorkersStarted \/ CreateFails \/ StopWorkers \/ StopJoin
        PROVE  Same
    BY <2>1 DEF WorkersStarted, CreateFails, StopWorkers, StopJoin, queue_vars
  <2>2. ASSUME StopTimer \/ StartTimer \/ Snapshot \/ JoinTimer
        PROVE  Same
    BY <2>2 DEF StopTimer, StartTimer, Snapshot, SnapshotLoop, SnapshotTake, JoinTimer,
                queue_vars
  <2>3. ASSUME ServerStop \/ server_handlers_destroy \/ UNCHANGED vars
        PROVE  Same
    BY <2>3 DEF ServerStop, server_handlers_destroy, queue_vars, vars
  <2>4. Same
    BY <1>5, <2>1, <2>2, <2>3
  <2> QED
    BY <2>4 DEF LockInv, WorkIsNoticed
<1> QED
  BY <1>1, <1>2, <1>3, <1>4, <1>5 DEF Next, Startup, Shutdown, Finished

\* Which threads run when.
LEMMA JoinStep ==
  ASSUME QType, LockInv, JoinInv, [Next]_vars
  PROVE  JoinInv'
<1> USE DEF JoinInv, AllCreated
<1>1. CASE \/ \E c \in Clients : server_handlers_process_message(c)
           \/ \E w \in Workers : SpuriousWakeup(w)
           \/ StopBroadcast
  <2>1. /\ \A w \in Workers : pc'[w] = "none" <=> pc[w] = "none"
        /\ \A w \in Workers : pc[w] = "exited" => pc'[w] = "exited"
        /\ running' = running /\ UNCHANGED timer_vars
    BY <1>1 DEF server_handlers_process_message, SpuriousWakeup, StopBroadcast, Signal,
                Wake, LockInv
  <2>2. main' = main \/ (main = "broadcast" /\ main' = "joining")
    BY <1>1 DEF server_handlers_process_message, SpuriousWakeup, StopBroadcast
  <2> QED
    BY <2>1, <2>2 DEF timer_vars
<1>2. ASSUME NEW w \in Workers, Worker(w)
      PROVE  JoinInv'
  <2>1. /\ \A v \in Workers : pc'[v] = "none" <=> pc[v] = "none"
        /\ \A v \in Workers : pc[v] = "exited" => pc'[v] = "exited"
        /\ UNCHANGED <<timer_vars, running, main>>
    BY <1>2 DEF Worker, WorkerLoop, DequeueEmpty, CondWait, DequeueStopped,
                DequeueMessage, HandleMessage, QType
  <2> QED
    BY <2>1 DEF timer_vars
<1>3. CASE \/ StartWorkers \/ CreateFails \/ WorkersStarted
           \/ \E w \in Workers : CreateWorker(w)
  BY <1>3 DEF StartWorkers, CreateFails, WorkersStarted, CreateWorker, timer_vars
<1>4. CASE StartTimer \/ StopTimer \/ JoinTimer \/ Snapshot
  <2>1. pc' = pc /\ running' = running /\ timer_running \in BOOLEAN
    BY <1>4 DEF StartTimer, StopTimer, JoinTimer, Snapshot, SnapshotLoop, SnapshotTake, QType
  <2>2. CASE StartTimer
    BY <2>1, <2>2 DEF StartTimer, timer_vars
  <2>3. CASE StopTimer
    BY <2>1, <2>3 DEF StopTimer
  <2>4. CASE JoinTimer
    BY <2>1, <2>4 DEF JoinTimer, timer_vars
  <2>5. CASE Snapshot
    BY <2>1, <2>5 DEF Snapshot, SnapshotLoop, SnapshotTake
  <2> QED
    BY <1>4, <2>2, <2>3, <2>4, <2>5
<1>5. CASE StopWorkers \/ StopJoin \/ ServerStop \/ server_handlers_destroy
  BY <1>5 DEF StopWorkers, StopJoin, ServerStop, server_handlers_destroy, timer_vars
<1>6. CASE UNCHANGED vars
  BY <1>6 DEF vars
<1> QED
  BY <1>1, <1>2, <1>3, <1>4, <1>5, <1>6 DEF Next, Startup, Shutdown, Finished

-----------------------------------------------------------------------------
(* The theorems.                                                           *)

LEMMA InitPending ==
  ASSUME Init
  PROVE  Pending = <<>> /\ Len(Pending) = 0 /\ Busy = {} /\ 0 \in Slots
<1>1. 0 \in Slots /\ queue_head = 0 /\ queue_tail = 0
  BY QueueSizeAssumption DEF Init, Slots
<1>2. Count(0, 0) = 0
  BY <1>1, CountIs, QueueSizeAssumption DEF Slots
<1>3. PendingCount = 0
  BY <1>1, <1>2, PendingIs
<1>4. Pending = <<>>
  BY <1>3 DEF Pending
<1> QED
  BY <1>1, <1>4 DEF Init, Busy

\* The invariant, for every number of slots, workers, clients and messages.
THEOREM QueueInvariant == Spec => []QInv
<1>1. Init => QInv
  <2> SUFFICES ASSUME Init PROVE QInv
    OBVIOUS
  <2>1. QType
    <3>1. 0 \in 0..MaxMessages
      BY MaxMessagesAssumption
    <3>2. /\ message_queue \in [Slots -> 0..MaxMessages]
          /\ message \in [Workers -> 0..MaxMessages]
      BY <3>1 DEF Init, NULL
    <3> QED
      BY <3>1, <3>2, InitPending DEF Init, QType, States
  <2>2. OrderInv
    BY InitPending DEF OrderInv
  <2>3. FreeInv
    <3>1. /\ frees \in [Messages -> Nat]
          /\ \A m \in Messages : frees[m] = 0
      BY DEF Init
    <3>2. \A m \in Messages : frees[m] <= 1 /\ (m > received => frees[m] = 0)
      BY <3>1
    <3> QED
      BY <3>1, <3>2, InitPending DEF FreeInv
  <2>4. LockInv
    BY WorkersAssumption DEF LockInv, WorkIsNoticed, Init
  <2>5. JoinInv
    BY DEF JoinInv, Init
  <2> QED
    BY <2>1, <2>2, <2>3, <2>4, <2>5 DEF QInv
<1>2. QInv /\ [Next]_vars => QInv'
  BY StepEffect, TypeStep, OrderStep, FreeStep, LockStep, JoinStep DEF QInv
<1> QED
  BY <1>1, <1>2, PTL DEF Spec

\* Until the queue is destroyed no worker and no slot between head and tail
\* points to memory that was freed, and nothing is freed twice.
THEOREM HeldMessagesAlwaysLive == Spec => []HeldMessagesAreLive
<1>1. QInv => HeldMessagesAreLive
  <2> SUFFICES ASSUME QInv PROVE HeldMessagesAreLive
    OBVIOUS
  <2>1. PendingCount = Len(Pending)
    BY PendingType DEF QInv
  <2> QED
    BY <2>1 DEF QInv, FreeInv, OrderInv, HeldMessagesAreLive
<1> QED
  BY <1>1, QueueInvariant, PTL

\* No wakeup of the condition variable is missed while the server runs.
THEOREM WorkAlwaysNoticed == Spec => []WorkIsNoticed
<1>1. QInv => WorkIsNoticed
  BY DEF QInv, LockInv
<1> QED
  BY <1>1, QueueInvariant, PTL

\* server_handlers_destroy and market_data_destroy run when every thread that
\* was started has been joined, if all the workers could be created.
THEOREM AlwaysDestroyedAfterJoin == Spec => []DestroyedAfterJoin
<1>1. QInv => DestroyedAfterJoin
  BY DEF QInv, JoinInv, AllCreated, DestroyedAfterJoin
<1> QED
  BY <1>1, QueueInvariant, PTL

\* The ring buffer with its lock, its condition variable and its threads
\* implements the mailbox.
THEOREM QueueImplementsMailbox == Spec => ImplementsMailbox
<1>1. Init => Mail!MInit
  BY InitPending DEF Mail!MInit, Init, Working
<1>2. QInv /\ [Next]_vars => [Mail!MNext]_(Mail!mvars)
  <2> SUFFICES ASSUME QInv, [Next]_vars PROVE [Mail!MNext]_(Mail!mvars)
    OBVIOUS
  <2> USE DEF QInv, Mail!MNext, Mail!mvars
  <2>1. CASE Quiet \/ Destroy
    BY <2>1 DEF Quiet, Destroy, Working
  <2>2. CASE Put
    <3>1. Working' = Working
      BY <2>2 DEF Put, Working
    <3> QED
      BY <2>2, <3>1 DEF Put, Mail!Accept, Mail!Refuse
  <2>3. ASSUME NEW w \in Workers, Taken(w)
        PROVE  Mail!Take
    <3>1. Working' = Working \cup {[message |-> Head(Pending).message,
                                    client |-> Head(Pending).client]}
      <4>1. /\ w \notin Busy /\ Busy' = Busy \cup {w}
            /\ message'[w] = Head(Pending).message /\ client'[w] = Head(Pending).client
            /\ \A v \in Busy : message'[v] = message[v] /\ client'[v] = client[v]
        BY <2>3 DEF Taken, Busy, QType
      <4>2. Working' = {[message |-> message'[v], client |-> client'[v]] :
                          v \in Busy \cup {w}}
        BY <4>1, Zenon DEF Working
      <4> QED
        BY <4>1, <4>2 DEF Working
    <3>2. Head(Pending) \in Letters
      BY <2>3, PendingType DEF Taken
    <3>3. Head(Pending) = [message |-> Head(Pending).message,
                           client |-> Head(Pending).client]
      BY <3>2 DEF Letters
    <3> QED
      BY <2>3, <3>1, <3>3 DEF Taken, Mail!Take
  <2>4. ASSUME NEW w \in Workers, Done(w)
        PROVE  Mail!Finish
    <3> DEFINE m == [message |-> message[w], client |-> client[w]]
    <3>1. /\ m \in Working
          /\ \A v \in Busy \ {w} : [message |-> message[v], client |-> client[v]] # m
      BY <2>4 DEF Done, Working, OrderInv
    <3>2. Working' = {[message |-> message[v], client |-> client[v]] : v \in Busy \ {w}}
      BY <2>4 DEF Done, Working, Busy, QType
    <3>3. Working' = Working \ {m}
      BY <3>1, <3>2 DEF Working
    <3> QED
      BY <2>4, <3>1, <3>3 DEF Done, Mail!Finish
  <2> QED
    BY <2>1, <2>2, <2>3, <2>4, StepEffect
<1> QED
  BY <1>1, <1>2, QueueInvariant, PTL DEF Spec, ImplementsMailbox, Mail!MSpec

-----------------------------------------------------------------------------
(* How far messages overtake each other.                                   *)

\* For a message that was handled: what is still in the queue came after it, and
\* not every worker is busy with one that came before.
Passed(m) ==
  /\ \A i \in 1..Len(Pending) : m < Pending[i].message
  /\ \E v \in Workers : v \in Busy => m < message[v]

OvertakeInv == main # "destroyed" => \A m \in Messages : frees[m] > 0 => Passed(m)

LEMMA OvertakeStep ==
  ASSUME QInv, OvertakeInv,
         \/ Quiet \/ Put \/ Destroy
         \/ \E w \in Workers : Taken(w) \/ Done(w)
  PROVE  OvertakeInv'
<1> SUFFICES ASSUME main' # "destroyed", NEW m \in Messages, frees'[m] > 0
             PROVE  Passed(m)'
  BY DEF OvertakeInv
<1>0. /\ Pending \in Seq(Letters) /\ Len(Pending) \in Nat
      /\ received \in Nat /\ m \in Nat
  BY PendingType, MaxMessagesAssumption DEF QInv, QType, Messages
<1>1. main # "destroyed"
  BY DEF Quiet, Put, Taken, Done, Destroy
<1>2. frees[m] > 0 => Passed(m) /\ m <= received
  <2>1. frees[m] > 0 => Passed(m)
    BY <1>1 DEF OvertakeInv
  <2>2. m > received => frees[m] = 0
    BY <1>1 DEF QInv, FreeInv
  <2> QED
    BY <1>0, <2>1, <2>2
<1>3. CASE Quiet
  BY <1>2, <1>3 DEF Quiet, Passed
<1>4. CASE Put
  <2>1. /\ Passed(m) /\ m <= received
        /\ message' = message /\ Busy' = Busy
    BY <1>2, <1>4 DEF Put
  <2>2. ASSUME NEW c \in Clients,
               Pending' = Append(Pending, [message |-> received + 1, client |-> c])
        PROVE  \A i \in 1..Len(Pending') : m < Pending'[i].message
    <3> SUFFICES ASSUME NEW i \in 1..Len(Pending') PROVE m < Pending'[i].message
      OBVIOUS
    <3>1. Len(Pending') = Len(Pending) + 1
      BY <1>0, <2>2
    <3>2. CASE i = Len(Pending) + 1
      <4>1. Pending'[i] = [message |-> received + 1, client |-> c]
        BY <1>0, <2>2, <3>2
      <4>2. Pending'[i].message = received + 1
        BY <4>1
      <4>3. m < received + 1
        BY <1>0, <2>1
      <4> QED
        BY <4>2, <4>3
    <3>3. CASE i # Len(Pending) + 1
      <4>1. i \in 1..Len(Pending)
        BY <1>0, <3>1, <3>3
      <4>2. Pending'[i] = Pending[i]
        BY <1>0, <2>2, <4>1
      <4> QED
        BY <2>1, <4>1, <4>2 DEF Passed
    <3> QED
      BY <3>2, <3>3
  <2>3. \A i \in 1..Len(Pending') : m < Pending'[i].message
    BY <1>4, <2>1, <2>2 DEF Put, Passed
  <2> QED
    BY <2>1, <2>3 DEF Passed
<1>5. ASSUME NEW w \in Workers, Taken(w)
      PROVE  Passed(m)'
  <2>1. /\ Len(Pending') = Len(Pending) - 1 /\ Len(Pending) > 0
        /\ \A i \in 1..(Len(Pending) - 1) : Pending'[i] = Pending[i + 1]
        /\ Head(Pending) = Pending[1]
    BY <1>0, <1>5, HeadTailProperties DEF Taken
  <2>2. /\ Busy' = Busy \cup {w}
        /\ message'[w] = Pending[1].message
        /\ \A v \in Workers \ {w} : message'[v] = message[v]
    BY <1>5, <2>1 DEF Taken, QInv, QType
  <2>3. Passed(m)
    BY <1>2, <1>5 DEF Taken
  <2>4. \A i \in 1..Len(Pending') : m < Pending'[i].message
    <3>1. \A i \in 1..Len(Pending') : i + 1 \in 1..Len(Pending) /\ Pending'[i] = Pending[i + 1]
      BY <1>0, <2>1
    <3>2. \A i \in 1..Len(Pending) : m < Pending[i].message
      BY <2>3 DEF Passed
    <3> QED
      BY <3>1, <3>2
  <2>5. m < Pending[1].message
    <3>1. 1 \in 1..Len(Pending)
      BY <1>0, <2>1
    <3> QED
      BY <2>3, <3>1 DEF Passed
  <2>6. PICK v \in Workers : v \in Busy => m < message[v]
    BY <2>3 DEF Passed
  <2>7. v \in Busy' => m < message'[v]
    BY <2>2, <2>5, <2>6
  <2> QED
    BY <2>4, <2>7 DEF Passed
<1>6. ASSUME NEW w \in Workers, Done(w)
      PROVE  Passed(m)'
  <2>1. /\ w \in Busy /\ Busy' = Busy \ {w} /\ Pending' = Pending
        /\ \A v \in Workers \ {w} : message'[v] = message[v]
    BY <1>6 DEF Done, QInv, QType
  <2>2. CASE m = message[w]
    <3>1. \A i \in 1..Len(Pending) : m < Pending[i].message
      BY <2>1, <2>2 DEF QInv, OrderInv
    <3>2. w \notin Busy'
      BY <2>1
    <3> QED
      BY <2>1, <3>1, <3>2 DEF Passed
  <2>3. CASE m # message[w]
    <3>1. frees'[m] = frees[m]
      BY <1>1, <1>6, <2>3 DEF Done, QInv, FreeInv
    <3>2. Passed(m)
      BY <1>2, <3>1
    <3> QED
      BY <2>1, <3>2 DEF Passed
  <2> QED
    BY <2>2, <2>3
<1>7. CASE Destroy
  BY <1>7 DEF Destroy
<1> QED
  BY <1>3, <1>4, <1>5, <1>6, <1>7

\* However many workers there are, fewer than that many earlier messages are
\* still to be handled when a message has been handled by worker_thread.
THEOREM OvertakingAlwaysBounded == Spec => []OvertakingBounded
<1>1. Init => OvertakeInv
  BY DEF Init, OvertakeInv
<1>2. QInv /\ OvertakeInv /\ [Next]_vars => OvertakeInv'
  BY StepEffect, OvertakeStep DEF QInv
<1>3. QInv /\ OvertakeInv => OvertakingBounded
  <2> SUFFICES ASSUME QInv, OvertakeInv, main # "destroyed",
                      NEW m \in Messages, frees[m] > 0
               PROVE  Cardinality({w \in Busy : message[w] < m})
                        + Cardinality({i \in 1..PendingCount : Pending[i].message < m})
                      < Cardinality(Workers)
    BY DEF OvertakingBounded
  <2> DEFINE before == {w \in Busy : message[w] < m}
  <2>1. Passed(m) /\ m \in Nat
    BY MaxMessagesAssumption DEF OvertakeInv, Messages
  <2>2. /\ PendingCount = Len(Pending)
        /\ \A i \in 1..Len(Pending) : Pending[i].message \in Nat
        /\ \A w \in Busy : message[w] \in Nat
    <3>1. PendingCount = Len(Pending) /\ 1..received \subseteq Nat
      BY PendingType DEF QInv, QType
    <3>2. /\ \A i \in 1..Len(Pending) : Pending[i].message \in 1..received
          /\ \A w \in Busy : message[w] \in 1..received
      BY DEF QInv, OrderInv
    <3> QED
      BY <3>1, <3>2
  <2>3. {i \in 1..PendingCount : Pending[i].message < m} = {}
    <3>1. ASSUME NEW i \in 1..Len(Pending) PROVE ~(Pending[i].message < m)
      <4>1. m < Pending[i].message
        BY <2>1 DEF Passed
      <4>2. Pending[i].message \in Nat /\ m \in Nat
        BY <2>1, <2>2
      <4> QED
        BY <4>1, <4>2
    <3> QED
      BY <2>2, <3>1
  <2>4. before \subseteq Workers /\ before # Workers
    <3>1. PICK v \in Workers : v \in Busy => m < message[v]
      BY <2>1 DEF Passed
    <3>2. v \in Busy => ~(message[v] < m)
      BY <2>1, <2>2, <3>1
    <3> QED
      BY <3>2 DEF Busy
  <2>5. IsFiniteSet(Workers)
    BY WorkersAssumption
  <2> HIDE DEF before
  <2>6. /\ Cardinality(before) \in Nat /\ Cardinality(Workers) \in Nat
        /\ Cardinality(before) < Cardinality(Workers)
    <3>1. /\ IsFiniteSet(before) /\ Cardinality(before) <= Cardinality(Workers)
          /\ Cardinality(before) # Cardinality(Workers)
      BY <2>4, <2>5, FS_Subset
    <3>2. Cardinality(before) \in Nat /\ Cardinality(Workers) \in Nat
      BY <2>5, <3>1, FS_CardinalityType
    <3> QED
      BY <3>1, <3>2
  <2>7. Cardinality({}) = 0
    BY FS_EmptySet
  <2>8. Cardinality(before) + 0 < Cardinality(Workers)
    BY <2>6
  <2> QED
    BY <2>3, <2>7, <2>8 DEF before
<1> QED
  BY <1>1, <1>2, <1>3, QueueInvariant, PTL DEF Spec
=============================================================================
