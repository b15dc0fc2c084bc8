---------------------------- MODULE MessageQueue -----------------------------
(***************************************************************************)
(* The message queue of src/server/server_handlers.c and the threads       *)
(* around it: the service thread of the WebSocket server, which puts the   *)
(* messages it receives in the ring buffer; the worker threads, which take *)
(* them out; and the main thread of server_app.c, which starts the workers *)
(* and the snapshot thread of market_data.c, stops them and destroys the   *)
(* queue and the market data.  No other thread calls market_data.c.        *)
(*                                                                         *)
(* What happens under queue_lock is one action, except that a worker that  *)
(* has decided to wait still holds the lock when it goes to sleep: the     *)
(* flag `running` is written without the lock and can change in between.   *)
(* pthread_cond_wait releases the lock and joins the waiters in one step.  *)
(* A message is the pointer strdup returned; memory never runs out.        *)
(***************************************************************************)
EXTENDS Integers, Sequences, FiniteSets

CONSTANTS
  Clients,      \* connected clients
  Workers,      \* worker threads (thread_pool_size of them)
  QueueSize,    \* message_queue_size
  MaxMessages   \* bound: messages received

ASSUME QueueSizeAssumption == QueueSize \in Nat \ {0}
ASSUME MaxMessagesAssumption == MaxMessages \in Nat
ASSUME WorkersAssumption ==
  Workers # {} /\ IsFiniteSet(Workers) /\ "unlocked" \notin Workers

VARIABLES
  message_queue,  \* slot -> message; a slot keeps its pointer after dequeue
  client_queue,   \* slot -> the client that sent it
  queue_head,
  queue_tail,
  running,        \* handlers->running
  queue_lock,     \* the worker that holds queue_lock between actions
  waiting,        \* workers asleep in pthread_cond_wait on queue_cond
  pc,             \* where each worker thread is
  message,        \* the message each worker is working on
  client,         \* the client variable of each worker
  main,           \* where the main thread is
  timer_running,  \* market->running
  timer,          \* where the snapshot thread is
  received,       \* number of messages received from the network
  frees           \* history: message -> how often it was passed to free

vars == <<message_queue, client_queue, queue_head, queue_tail, running,
          queue_lock, waiting, pc, message, client, main, timer_running, timer,
          received, frees>>

queue_vars == <<message_queue, client_queue, queue_head, queue_tail>>

work_vars == <<message, client>>

timer_vars == <<timer_running, timer>>

Messages == 1..MaxMessages

Slots == 0..(QueueSize - 1)

NULL == 0

NoClient == "no client"

Unlocked == "unlocked"

Init ==
  /\ message_queue = [i \in Slots |-> NULL]
  /\ client_queue = [i \in Slots |-> NoClient]
  /\ queue_head = 0 /\ queue_tail = 0
  /\ running = FALSE
  /\ queue_lock = Unlocked
  /\ waiting = {}
  /\ pc = [w \in Workers |-> "none"]
  /\ message = [w \in Workers |-> NULL]
  /\ client = [w \in Workers |-> NoClient]
  /\ main = "created"
  /\ timer_running = FALSE /\ timer = "none"
  /\ received = 0
  /\ frees = [m \in Messages |-> 0]

-----------------------------------------------------------------------------
(* The service thread.                                                     *)

\* Workers in W leave pthread_cond_wait; they have to take the lock again.
Wake(W) ==
  /\ waiting' = waiting \ W
  /\ pc' = [w \in Workers |-> IF w \in W THEN "dequeue" ELSE pc[w]]

\* Mutation: no signal is sent.
Signal_Forgotten == UNCHANGED <<waiting, pc>>

\* pthread_cond_signal: one waiter, if there is one.
Signal ==
  \/ waiting = {} /\ UNCHANGED <<waiting, pc>>
  \/ \E w \in waiting : Wake({w})

NextSlot(i) == (i + 1) % QueueSize

\* Mutation: a slot is left unused.
QueueFull_Early == NextSlot(NextSlot(queue_tail)) = queue_head

QueueFull == NextSlot(queue_tail) = queue_head

\* server_handlers_process_message, called by message_handler_wrapper, which
\* ignores the -1 of a full queue: the message is gone.  The service thread
\* runs from ws_server_start to ws_server_stop.
server_handlers_process_message(sender) ==
  LET msg_copy == received + 1
  IN
  /\ main \notin {"ws_stopped", "destroyed"}
  /\ received < MaxMessages
  /\ queue_lock = Unlocked
  /\ received' = msg_copy
  /\ IF QueueFull
     THEN UNCHANGED <<queue_vars, waiting, pc>>
     ELSE /\ message_queue' = [message_queue EXCEPT ![queue_tail] = msg_copy]
          /\ client_queue' = [client_queue EXCEPT ![queue_tail] = sender]
          /\ queue_tail' = NextSlot(queue_tail)
          /\ Signal
          /\ UNCHANGED queue_head
  /\ UNCHANGED <<timer_vars, running, queue_lock, work_vars, main, frees>>

-----------------------------------------------------------------------------
(* The worker threads.                                                     *)

\* while (handlers->running), read without the lock.
WorkerLoop(w) ==
  /\ pc[w] = "loop"
  /\ pc' = [pc EXCEPT ![w] = IF running THEN "dequeue" ELSE "exited"]
  /\ UNCHANGED <<queue_vars, timer_vars, running, queue_lock, waiting, work_vars, main,
                 received, frees>>

\* dequeue_message takes the lock, or takes it again after a wait, and finds
\* nothing to do: it will wait, and still has the lock.
DequeueEmpty(w) ==
  /\ pc[w] = "dequeue"
  /\ queue_lock = Unlocked
  /\ queue_head = queue_tail /\ running
  /\ queue_lock' = w
  /\ pc' = [pc EXCEPT ![w] = "to_wait"]
  /\ UNCHANGED <<queue_vars, timer_vars, running, waiting, work_vars, main, received, frees>>

\* pthread_cond_wait: the lock is released as the worker goes to sleep.
CondWait(w) ==
  /\ pc[w] = "to_wait"
  /\ queue_lock' = Unlocked
  /\ waiting' = waiting \cup {w}
  /\ pc' = [pc EXCEPT ![w] = "waiting"]
  /\ UNCHANGED <<queue_vars, timer_vars, running, work_vars, main, received, frees>>

\* pthread_cond_wait may return without a signal.
SpuriousWakeup(w) ==
  /\ w \in waiting
  /\ Wake({w})
  /\ UNCHANGED <<queue_vars, timer_vars, running, queue_lock, work_vars, main,
                 received, frees>>

\* dequeue_message finds the server stopping and returns NULL, whatever is in
\* the queue.
DequeueStopped(w) ==
  /\ pc[w] = "dequeue"
  /\ queue_lock = Unlocked
  /\ ~running
  /\ pc' = [pc EXCEPT ![w] = "loop"]
  /\ UNCHANGED <<queue_vars, timer_vars, running, queue_lock, waiting, work_vars, main,
                 received, frees>>

\* Mutation: the head does not move.
DequeueMessage_HeadStays(w) ==
  /\ pc[w] = "dequeue"
  /\ queue_lock = Unlocked
  /\ queue_head # queue_tail /\ running
  /\ message' = [message EXCEPT ![w] = message_queue[queue_head]]
  /\ client' = [client EXCEPT ![w] = client_queue[queue_head]]
  /\ pc' = [pc EXCEPT ![w] = "handle"]
  /\ UNCHANGED <<queue_vars, timer_vars, running, queue_lock, waiting, main, received, frees>>

\* Mutation: the newest message is taken.
DequeueMessage_Newest(w) ==
  LET newest == (queue_tail + QueueSize - 1) % QueueSize
  IN
  /\ pc[w] = "dequeue"
  /\ queue_lock = Unlocked
  /\ queue_head # queue_tail /\ running
  /\ message' = [message EXCEPT ![w] = message_queue[newest]]
  /\ client' = [client EXCEPT ![w] = client_queue[newest]]
  /\ queue_tail' = newest
  /\ pc' = [pc EXCEPT ![w] = "handle"]
  /\ UNCHANGED <<message_queue, client_queue, queue_head, timer_vars, running,
                 queue_lock, waiting, main, received, frees>>

\* dequeue_message returns the message at the head.
DequeueMessage(w) ==
  /\ pc[w] = "dequeue"
  /\ queue_lock = Unlocked
  /\ queue_head # queue_tail /\ running
  /\ message' = [message EXCEPT ![w] = message_queue[queue_head]]
  /\ client' = [client EXCEPT ![w] = client_queue[queue_head]]
  /\ queue_head' = NextSlot(queue_head)
  /\ pc' = [pc EXCEPT ![w] = "handle"]
  /\ UNCHANGED <<message_queue, client_queue, queue_tail, timer_vars, running, queue_lock,
                 waiting, main, received, frees>>

\* Mutation: the worker returns after one message.
HandleMessage_Once(w) ==
  /\ pc[w] = "handle"
  /\ frees' = [frees EXCEPT ![message[w]] = @ + 1]
  /\ message' = [message EXCEPT ![w] = NULL]
  /\ pc' = [pc EXCEPT ![w] = "exited"]
  /\ UNCHANGED <<queue_vars, timer_vars, running, queue_lock, waiting, client, main, received>>

\* The handler runs to its end and the worker frees the message.
HandleMessage(w) ==
  /\ pc[w] = "handle"
  /\ frees' = [frees EXCEPT ![message[w]] = @ + 1]
  /\ message' = [message EXCEPT ![w] = NULL]
  /\ pc' = [pc EXCEPT ![w] = "loop"]
  /\ UNCHANGED <<queue_vars, timer_vars, running, queue_lock, waiting, client, main, received>>

-----------------------------------------------------------------------------
(* The main thread.                                                        *)

\* server_handlers_start_workers.
StartWorkers ==
  /\ main = "created"
  /\ running' = TRUE
  /\ main' = "starting"
  /\ UNCHANGED <<queue_vars, timer_vars, queue_lock, waiting, pc, work_vars, received, frees>>

CreateWorker(w) ==
  /\ main = "starting"
  /\ pc[w] = "none"
  /\ pc' = [pc EXCEPT ![w] = "loop"]
  /\ UNCHANGED <<queue_vars, timer_vars, running, queue_lock, waiting, work_vars, main,
                 received, frees>>

\* pthread_create fails: start_workers returns -1, which main ignores.
CreateFails ==
  /\ main = "starting"
  /\ \E w \in Workers : pc[w] = "none"
  /\ running' = FALSE
  /\ main' = "start_timer"
  /\ UNCHANGED <<queue_vars, timer_vars, queue_lock, waiting, pc, work_vars, received, frees>>

WorkersStarted ==
  /\ main = "starting"
  /\ \A w \in Workers : pc[w] # "none"
  /\ main' = "start_timer"
  /\ UNCHANGED <<queue_vars, timer_vars, running, queue_lock, waiting, pc,
                 work_vars, received, frees>>

\* market_data_start_snapshot_timer, which may fail; main does not look at the
\* result and enters its loop.
StartTimer ==
  /\ main = "start_timer"
  /\ main' = "up"
  /\ \/ timer_running' = TRUE /\ timer' = "loop"
     \/ UNCHANGED timer_vars
  /\ UNCHANGED <<queue_vars, running, queue_lock, waiting, pc, work_vars, received, frees>>

\* A signal ends the main loop and main calls market_data_stop_snapshot_timer,
\* which returns at once if there is no snapshot thread.
StopTimer ==
  /\ main = "up"
  /\ timer_running' = FALSE
  /\ main' = IF timer_running THEN "join_timer" ELSE "stop_workers"
  /\ UNCHANGED <<queue_vars, timer, running, queue_lock, waiting, pc, work_vars,
                 received, frees>>

JoinTimer ==
  /\ main = "join_timer" /\ timer = "exited"
  /\ main' = "stop_workers"
  /\ UNCHANGED <<queue_vars, timer_vars, running, queue_lock, waiting, pc,
                 work_vars, received, frees>>

\* server_handlers_stop_workers clears the flag without the lock.  It returns
\* at once if the workers are not running.
StopWorkers ==
  /\ main = "stop_workers"
  /\ main' = IF running THEN "broadcast" ELSE "joined"
  /\ running' = FALSE
  /\ UNCHANGED <<queue_vars, timer_vars, queue_lock, waiting, pc, work_vars, received, frees>>

\* pthread_cond_broadcast.
StopBroadcast ==
  /\ main = "broadcast"
  /\ Wake(waiting)
  /\ main' = "joining"
  /\ UNCHANGED <<queue_vars, timer_vars, running, queue_lock, work_vars, received, frees>>

\* Mutation: only one worker is joined.
StopJoin_One ==
  /\ main = "joining"
  /\ \E w \in Workers : pc[w] = "exited"
  /\ main' = "joined"
  /\ UNCHANGED <<queue_vars, timer_vars, running, queue_lock, waiting, pc, work_vars,
                 received, frees>>

\* pthread_join returns for every worker.
StopJoin ==
  /\ main = "joining"
  /\ \A w \in Workers : pc[w] = "exited"
  /\ main' = "joined"
  /\ UNCHANGED <<queue_vars, timer_vars, running, queue_lock, waiting, pc, work_vars,
                 received, frees>>

\* ws_server_stop joins the service thread.
ServerStop ==
  /\ main = "joined"
  /\ main' = "ws_stopped"
  /\ UNCHANGED <<queue_vars, timer_vars, running, queue_lock, waiting, pc, work_vars,
                 received, frees>>

\* market_data_destroy, and server_handlers_destroy, which frees what every slot
\* of the queue points to.
server_handlers_destroy ==
  /\ main = "ws_stopped"
  /\ frees' = [m \in Messages |->
                 frees[m] + Cardinality({i \in Slots : message_queue[i] = m})]
  /\ main' = "destroyed"
  /\ UNCHANGED <<queue_vars, timer_vars, running, queue_lock, waiting, pc, work_vars, received>>

-----------------------------------------------------------------------------
(* The snapshot thread.                                                    *)

\* while (market->running), then the sleep.
SnapshotLoop ==
  /\ timer = "loop"
  /\ timer' = IF timer_running THEN "sleep" ELSE "exited"
  /\ UNCHANGED <<queue_vars, timer_running, running, queue_lock, waiting, pc,
                 work_vars, main, received, frees>>

\* The sleep ends; the snapshot taken for each book is freed unsent.
SnapshotTake ==
  /\ timer = "sleep"
  /\ timer' = "loop"
  /\ UNCHANGED <<queue_vars, timer_running, running, queue_lock, waiting, pc,
                 work_vars, main, received, frees>>

\* Nothing is left to do.
Finished ==
  /\ main = "destroyed"
  /\ UNCHANGED vars

Worker(w) ==
  \/ WorkerLoop(w)
  \/ DequeueEmpty(w)
  \/ CondWait(w)
  \/ DequeueStopped(w)
  \/ DequeueMessage(w)
  \/ HandleMessage(w)

\* The steps main takes by itself, before its loop and after it was told to stop.
Startup ==
  StartWorkers \/ (\E w \in Workers : CreateWorker(w)) \/ WorkersStarted \/ StartTimer

Shutdown ==
  \/ JoinTimer \/ StopWorkers \/ StopBroadcast \/ StopJoin \/ ServerStop
  \/ server_handlers_destroy

Snapshot == SnapshotLoop \/ SnapshotTake

Next ==
  \/ \E c \in Clients : server_handlers_process_message(c)
  \/ \E w \in Workers : Worker(w) \/ SpuriousWakeup(w)
  \/ Startup \/ CreateFails \/ StopTimer \/ Shutdown
  \/ Snapshot
  \/ Finished

Spec == Init /\ [][Next]_vars

\* The scheduler runs every thread that can run.  Nothing makes messages or
\* signals arrive, or wakes a waiter that was not signalled.
FairSpec ==
  /\ Spec
  /\ \A w \in Workers : WF_vars(Worker(w))
  /\ WF_vars(Startup \/ Shutdown)
  /\ WF_vars(Snapshot)

-----------------------------------------------------------------------------
(* What the queue holds, and its properties.                               *)

\* Number of messages between head and tail.
PendingCount == (queue_tail - queue_head + QueueSize) % QueueSize

\* The messages in the queue, oldest first, each with its client.
Pending ==
  [i \in 1..PendingCount |->
     LET slot == (queue_head + i - 1) % QueueSize
     IN [message |-> message_queue[slot], client |-> client_queue[slot]]]

Busy == {w \in Workers : pc[w] = "handle"}

\* What the workers hold.
Working == {[message |-> message[w], client |-> client[w]] : w \in Busy}

\* The ring buffer, the lock, the condition variable and the threads implement
\* a mailbox: no message is lost except when all but one of the slots are
\* taken, none is handed out twice or out of order, and the client stored in
\* client_queue stays with its message.
Mail == INSTANCE Mailbox
          WITH Capacity <- QueueSize - 1, pending <- Pending, working <- Working

ImplementsMailbox == Mail!MSpec

\* Until the queue is destroyed a message in the queue, or in the hands of a
\* worker, is never memory that was already freed, and no message is freed
\* twice or held by two workers.
HeldMessagesAreLive ==
  main # "destroyed" =>
    /\ \A i \in 1..PendingCount : frees[Pending[i].message] = 0
    /\ \A w \in Busy : frees[message[w]] = 0
    /\ \A m \in Messages : frees[m] <= 1
    /\ \A v, w \in Busy : message[v] = message[w] => v = w

\* While the server runs, the workers never all sleep with a message in the
\* queue: every signal is sent under the lock under which a worker found the
\* queue empty.
WorkIsNoticed ==
  running /\ queue_head # queue_tail
    => \E w \in Workers : pc[w] # "waiting"

\* Workers answer in parallel, so that an order can be overtaken by later ones
\* while a worker is busy with it, but one that is still in the queue cannot:
\* when a message has been handled, fewer earlier ones than there are workers
\* are still to be handled.
OvertakingBounded ==
  main # "destroyed" =>
    \A m \in Messages : frees[m] > 0 =>
      Cardinality({w \in Busy : message[w] < m})
        + Cardinality({i \in 1..PendingCount : Pending[i].message < m})
      < Cardinality(Workers)

\* The queue and the market data are destroyed only when no thread can touch
\* them any more, provided every worker could be created.
DestroyedAfterJoin ==
  main = "destroyed" /\ (\A w \in Workers : pc[w] # "none")
    => /\ \A w \in Workers : pc[w] = "exited"
       /\ timer \in {"none", "exited"}

\* An accepted message is answered, or the server is told to stop.
AcceptedIsHandled ==
  \A m \in Messages :
    (\E i \in 1..PendingCount : Pending[i].message = m)
      ~> (frees[m] > 0 \/ ~running)

-----------------------------------------------------------------------------
(* What the code says of itself and does not do.                           *)

\* server_app.c logs "Trading server shutdown complete" at the end of a
\* shutdown.  A worker that found `running` set, and has not gone to sleep
\* when stop_workers broadcasts, sleeps for ever and is never joined.
ShutdownCompletes == main = "broadcast" ~> main = "destroyed"
=============================================================================
