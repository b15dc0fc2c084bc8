# Verification of the quantitative trading system

TLA+ models of the trading server and client in `src/`, TLC configurations that
check them on small instances, and TLAPS proofs about the matching engine, the trader
accounts, the message queue, the table of order books, the session list, the
client's connection, and an order's way from the command line to the confirmation.

## The system

The server (`src/server`) accepts WebSocket messages on one service thread,
queues them, and handles them on a pool of worker threads. A placement goes to
the order book of its symbol (`src/trading_engine`), which keeps one AVL tree for
each side and matches after each placement. The client (`src/client`) runs a main
thread, an input thread with a command line, and a service thread that keeps the
connection.

### Inventory

| component | state | operations | what makes it hard |
|---|---|---|---|
| order (`order.c`) | record with remaining quantity and cancel flag | create, reduce, cancel | orders are named by id in requests and by (price, second) in the trees |
| order book (`order_book.c`) | two trees, broadcaster | add, match, cancel, traverse, quantity at a price | a loop that deletes while it matches; canceled orders stay in the trees |
| AVL tree (`avl_tree.c`) | nodes with key, order and height | insert, delete, extremes, traversal | rotations; deletion by copying; duplicate keys |
| trade broadcaster | pointer to the server | send trade | delivery depends on a callback of the server |
| trade, trader | balances | place, execute, update | funds reserved at one price and paid out at another; an ignored result; used by tests only |
| message queue (`server_handlers.c`) | ring buffer, mutex, condition, flag | enqueue, dequeue, start, stop, destroy | wakeups, shutdown, ownership of messages |
| handlers and registry (`server_handlers.c`) | table of symbols and books, read-write lock | place, cancel, snapshot, add book | the table is changed under the read lock |
| sessions (`session_manager.c`) | linked list, count, subscriptions | add, remove, subscribe, unsubscribe, query, cleanup, ping | checks before the lock; removal from the middle |
| WebSocket server (`ws_server.c`) | context, flag, broadcast buffer | start, stop, callbacks, broadcast, send | lifetime of a client against queued messages |
| market data (`market_data.c`) | table of symbols, timer thread | update, snapshot, start, stop | a thread that sleeps while main destroys what it uses |
| client connection (`ws_client.c`) | flags, connection, retry count | connect, callbacks, reconnect, disconnect, destroy | three threads share flags without a lock |
| client application, command line, commands | flags, view request | start, quit, signal, commands, display | stopping from several threads; which answer belongs to which request |
| order entry, trade history, market monitor | lists under a lock | submit, cancel, add, update | limits, reused ids, eviction |
| JSON protocol | none that lasts | recognise, parse, format | a snapshot has no type |
| order loader | none that lasts | load a file into a book | orders no account has paid for |
| logging | level | print | nothing |

`PROJECT.json` lists the components with their status, and the hazards with the
line at which each one bites and the properties that would catch it.

## Modules

| module | models | correspondence |
|---|---|---|
| `OrderBook` | `order.c`, `order_book.c` | `orders` is the sequence of allocated orders, so an index is an `Order*`; a side is the set of orders its tree holds; `order_book_add_order`, `order_book_cancel_order`, `order_book_match_orders` (entry), `MatchStep` (an iteration that trades), `MatchReturn` (the break), `Tick` (the clock); `order_book_get_quantity_at_price` is an operator |
| `TraderAccounts` | `trader.c`, `trade.c`, `order_loader.c` over `OrderBook` | `balance` is the field of each Trader, `owner` the trader_id of each order; `trader_place_order`, `trader_set_balance`, `trade_execute` (one trade, in the order of the broadcasts), `LoadLine` (one order of a file) |
| `MCOrderBook` | instance for TLC | the quantities of the instance |
| `AVLTree` | `avl_tree.c` | a tree is a nested record; each C function is an operator of the same name |
| `AVLTreeSpec` | any sequence of `avl_insert` and `avl_delete_order` | the tree and the set of orders it should hold |
| `OrderBookAVL` | `order_book.c` on the trees | the same actions as `OrderBook`, which it implements (`Implements`) |
| `OrderBookProofs`, `TraderAccountsProofs`, `MessageQueueProofs`, `BookRegistryProofs`, `SessionManagerProofs`, `WSClientProofs`, `TradingSessionProofs` | theorems | see below |
| `SumsProofs` | lemmas | what the sums in the properties of the book and the accounts compute |
| `Mailbox` | abstract: a bounded FIFO mailbox | what the queue promises |
| `MessageQueue` | queue, workers, market data's snapshot thread, main's start and shutdown | one action per stretch between two operations on the lock or condition; implements `Mailbox` |
| `BookRegistry` | find-or-create, place, cancel, snapshot, add book | a placement is split at each access to the shared table, and an insertion into the read and the write of the book's tree; `overlapped` remembers that two workers were at the end of the table, or in one book, at once |
| `Subscriptions` | abstract: a set of (client, symbol) pairs | what the session list promises |
| `SessionManager` | `session_manager.c`, main's loop | one action per critical section, separate actions for what is read before the lock; the cleanup is one action per session of its loop, because the limit is tested without the lock while it counts down; implements `Subscriptions` |
| `WSClient` | `ws_client.c`, start and stop in `client_app.c` and `command_line.c` | `main`, `input` and `service` say where each thread is |
| `TradingSession` | one client and the server from end to end: `client_app.c`, `client_commands.c`, `trade_history.c`, `json_protocol.c`, the handlers' answers, `ws_server_send` | a JSON object is a record with the fields readers look for; `EnterCommand`, `SendCommand` (input thread), `ClientReceive` (service thread), `ServerReceive`, `Dequeue`, `PlaceOrder`, `PlaceMatch`, `BookRequest`, `SendSnapshot` (server), `Closed`, `Established` (network) |
| `MCTradingSession` | instance for TLC | a book other clients have left |

Components meet in five places. The book on trees is the composition of the
book and `AVLTree`. `TraderAccounts` composes accounts and file loader with
`OrderBook`, of which every one of its steps is a step or a stutter.
`MessageQueue` composes the service thread, the workers, the snapshot thread and
main. `SessionManager` composes the session calls with main's loop.
`TradingSession` composes client, network, queue, workers and books, each reduced
to what the other modules show of it.

Abstractions: prices are integers that are only compared; ids, symbols and clients
are model values; `time(NULL)` is a variable advanced by `Tick`; texts of messages
are left out. `TradingSession` is about what prices look like on the screen: there
they are in hundredths of a cent, and printing rounds them to a cent (a half cent,
which printf rounds by its binary value, does not occur). `BookRegistry` uses buys at different prices, so that its books
neither match nor drop orders: that is the subject of `OrderBook`.

Definitions whose comment begins with "Mutation" are faulty variants of the
definition that follows them. No specification uses them; each stands in for its
original to show that a property notices the fault.

## Runs

Runs that hold:

| run | bounds | shows |
|---|---|---|
| `order_book` | 4 orders, 2 prices, 2 quantities, 2 clock values | accounting of orders, fills and depth; limits and price priority of trades; the uncrossed book after matching; a canceled order never trades |
| `trader_accounts` | 3 orders, 2 traders, 2 prices, quantities -1, 0, 1 and 2, one clock value | every account adds up and trading creates no money, under quantities that are not validated; every payment goes through; the matching loop ends |
| `avl_tree` | up to 12 keys | balance, order, agreement of key and order, extremes |
| `order_book_avl` | 3 orders, 2 ids, 2 prices, 2 quantities, 2 clock values: a side can rotate | the book on trees implements the book on sets |
| `message_queue` | 2 clients, 2 workers, 3 slots, 4 messages | the queue is a bounded FIFO mailbox; held messages are not freed; work does not sit with all workers asleep; a message that has been handled overtook fewer messages than there are workers; destruction follows the joins, that of the snapshot thread included; an accepted message is handled unless the server stops |
| `book_registry` | 2 workers, 1 thread adding books, 2 symbols, 3 orders, with and without broadcaster | the table is complete, without duplicates and within its arrays, and confirmed orders are reachable and shown, until two workers overlap; placements fail only, and always, without a broadcaster |
| `session_manager` | 3 clients, limit 2, 2 symbols | the list implements a set of subscriptions; no session is removed early |
| `ws_client` | 3 retries, the value in the code | retries and attempts stay within their bounds; `connected` means an open connection; a loss is noticed; disconnecting ends the process; when the client is freed |
| `trading_session` | 2 symbols, 2 workers, 4 prices, 2 commands, 3 inputs in all (commands, losses of the connection, ticks, trade notices) | a VIEW that is alone under way is answered and shows the book as it is, best prices first; what is shown as placed was typed, at most once each; what the trade history keeps |

Runs in which the code departs from what a comment, log line, test or document
says (each is a finding in `PROJECT.json`):

| run | the code |
|---|---|
| `buy_time_priority` | among buys at one price the latest trades first |
| `cancel_finds_resting` | cancellation searches the right spine only |
| `shutdown_completes` | the wakeup of the shutdown can be lost |

Other behaviour that a reader of the code may not expect. The models contain it,
and the properties are stated around it:

- an order with the price and second of another of its side is acknowledged and
  dropped (`avl_tree.c:128`; the set `dropped` in `OrdersAccounted`);
- a canceled order, or one of another symbol, at the head of a side hides the
  orders behind it (`order_book.c:207`; the hypothesis of `MatchedIsUncrossed`);
- `server_handlers_destroy` frees the slots of handled messages again (the limit
  of `HeldMessagesAreLive`);
- `server_app.c:41` configures no trade broadcaster, so that no book can be created
  (`FailsWithoutBroadcaster`);
- two workers that place orders at once both hold the read lock: they can write one
  entry of the table twice, count one of two entries, or lose one of two
  insertions in a tree (`server_handlers.c:117-128`; the hypothesis `~overlapped`
  in `BookRegistry`);
- a second cancellation of an order is confirmed (`handle_cancel_order`); the
  client's CANCEL command, which its help lists, sends nothing
  (`format_command_as_json`);
- money taken for a buy that is canceled, dropped or filled below its limit is not
  given back (`trader.c:151`; `Held` and `Spent` in `AccountsAddUp`), and a buy of a
  negative quantity adds to the balance (`NoMoneyCreated`);
- a full trade history forgets the newest trade but one, not the oldest
  (`trade_history.c:58`; `HistoryKeepsFirstAndLast`);
- a snapshot of more than `max_orders` bids leaves out the best ones, because the
  traversal starts with the lowest price (`server_handlers.c:53`; the hypothesis
  of `ViewShowsBook`);
- the client shows the next snapshot it gets after a VIEW, which can be the one that
  follows a placement, and ignores an error: the flag then waits for a later
  snapshot (`client_app.c:161`; `clean` in `TradingSession`);
- an executed trade is announced to no client: `ws_server_broadcast` uses a callback
  reason nobody handles (`ws_server.c:203`);
- the answer to a request of a closed connection uses the memory of its client,
  which may belong to the next connection (`server_handlers.c:492`;
  `ws_server_send` in `TradingSession`);
- the client's service thread reconnects while the first attempt is under way, and
  counts its retries over the life of the client (`ws_client.c:123-131`);
- on a quit command main may free the client while the input thread still waits
  for the service thread (`FreedAfterService`);
- the client's signal handler waits for the input thread, that is for a line of
  input (`command_line.c:98`; `QuitEnds` begins after it).

Why the bounds are enough. A partial fill followed by a second counterparty takes
three orders, and a drop or a cancellation beside it four. Twelve keys give trees
of height four, on which all rotations and both kinds of deletion occur. Three
slots wrap around and fill with two messages queued; two workers are enough for
one to sleep while the other works. Two symbols and a table of two entries reach
the last entry. Three clients against a limit of two reach a refusal. Two traders and
three orders give a partial fill below the buyer's limit with an order beside it that
is canceled, dropped or loaded from a file. Two commands and one more input give a
placement that races a VIEW, an answer that outlives its connection, a full queue
(one slot), a snapshot and a history at their limits (two rows, two trades).

Fairness. Each worker, and main, is a thread that the scheduler runs: weak fairness
of its steps (in `MessageQueue`, of every worker and of main's start and shutdown;
in `WSClient`, of the three threads; the snapshot thread, too). In `TradingSession` it
is enough that some thread with work to do runs (`Progress`), each step of them
being one of finitely many for a message. Arrival of messages, the network, signals and
the user have no fairness. In `OrderBook` the matching loop is weakly fair, being
straight-line code.

In `WSClient`, behaviour after the client has been freed is not followed; a signal
is delivered to main in its loop.

## Proofs

### The order book

`OrderBookProofs` proves, for every set of ids, symbols, prices and quantities and
every bound on orders and time, from the assumptions of `OrderBook` (prices and
quantities are integers, the bounds are naturals):

- `TypeCorrect`, `KeysUniqueAlways`, `AllOrdersAccounted`,
  `TradesAlwaysWithinLimits`, `MatchedAlwaysUncrossed`: invariants;
- `FillsAlwaysMatchTrades`, `DepthAlwaysMatchesTrades`: invariants that sum over the
  trades made and over the orders of a side;
- `CanceledNeverTradesAlways`, `BestPricesTradeAlways`: action properties.

The argument goes through the inductive invariant

    IInv == TypeOK /\ KeysUnique /\ OrdersAccounted /\ RemainingBounded
            /\ TradesWithinLimits /\ MatchedIsStuck

(`BookInvariant`). None of the properties is inductive alone. Deletion is by key, so
that only the filled order leaves (`OrdersAccounted`) needs `KeysUnique`. That a
trade stays within its orders needs `RemainingBounded`: what remains of
an order for a positive quantity is between zero and that quantity, and an order
for any other quantity is never touched. `MatchedIsUncrossed` speaks of all pairs, while the code compares one;
`MatchedIsStuck` says that in phase "matched" the best pair does not match, and
the extremes of the two sides bound all others. There is one lemma per action
(`AddPreserves`, `CancelPreserves`, `MatchPreserves`), over `MatchEffect` and
`TradeFields`, which say what one iteration changes.

That fills match trades is inductive once `IInv` is there: a trade adds its quantity
to the sum of exactly two orders, and an order just added is in no trade. The depth
follows, because `IInv` says which orders rest at a price.

The sums are those of `SumFunction` of the community modules, which takes the
elements of a set one by one in an order of its own. `SumsProofs` shows that the
recursion inside is well defined and that the order does not matter: a
sum has one more summand with one more element, changes by as much as a summand
changes, and is monotone. The proofs look at the smallest subset for which a lemma
fails, which exists because the set is finite.

### Trader accounts

`TraderAccountsProofs`, for every finite set of traders, all balances and all prices
above zero: `AccountsKeepBook` (`AccountsSpec => Spec`, so that all of the above holds
with accounts), `AccountsNeverOverdrawn`, `PaymentsAlwaysGoThrough`,
`AccountsAlwaysAddUp` and `NoMoneyEverCreated`. The invariant is `AInv`: `IInv` of the
book, no negative balance, an owner for every order and no trade executed before it
was made. That `trade_create` refuses no trade of the book comes from
`TradesWithinLimits`; that the credit is not refused, from the balance and the value
of the trade both being at least zero.

`GroupsAlwaysAddUp` states the accounting for any group of traders at once: their
balances are what was put on their accounts, less what their buys hold and spent at
their limits, plus what their sales earned. A group of one is `AccountsAddUp`. For the
group of all traders what was spent at the limits is at least what was earned, trade
by trade, but for orders nobody paid for, which is `NoMoneyCreated`. `FundInv` adds that
only buys are paid for.

### The message queue

`MessageQueueProofs`, for every number of slots and messages and every set of clients
and (at least one) workers: `HeldMessagesAlwaysLive`, `WorkAlwaysNoticed`,
`AlwaysDestroyedAfterJoin`, `QueueImplementsMailbox` and `OvertakingAlwaysBounded`. The
inductive invariant is

    QInv == QType /\ OrderInv /\ FreeInv /\ LockInv /\ JoinInv

`OrderInv`: messages are numbered by arrival, the pending ones increase from head to
tail, and the ones workers hold are older than all of them and distinct. It is what
makes `FreeInv` (nothing pending or held was freed) inductive: a slot keeps its
pointer after it was taken, and only the order tells that it is not taken again.
`LockInv`: a worker about to wait holds the lock and sees an empty queue. `JoinInv`
follows main through start and shutdown. The lemmas `RingAppend` and `RingTail` say
that a step of tail appends to, and a step of head removes the first of, the sequence
the ring buffer stands for, wrapping around included. `StepEffect` sorts every step
into five kinds (nothing, put, taken, done, destroyed), and each part of `QInv` is
then shown for the kinds instead of for the actions. For the bound on overtaking
`OvertakeInv` adds that a message already handled is older than all pending ones, and
than what some worker holds unless that worker holds nothing: then the workers that hold
an older message are not all of them.

### The table of order books

`BookRegistryProofs`, for any sets of workers and of threads that add books, and every
finite set of symbols: `TableSound`, `ConfirmedReachable`,
`FailsOnlyWithoutBroadcaster` and the action property `ConfirmedShown`. The inductive
invariant is

    RegistryInv == TypeInv /\ LockInv /\ BroadcasterInv /\ (~overlapped => SoundInv)
    SoundInv    == TableInv /\ EnterInv /\ InsertInv /\ ConfirmedInv

`EnterInv` says, for the one worker at the end of the table, which of the stores of
its entry it has made, and that no entry for its symbol appeared since it looked:
the read lock it holds (`LockInv`) keeps `server_handlers_add_order_book` out, and
another worker would have set `overlapped`. `InsertInv` says that a worker inserts in
the book its symbol leads to, and that the contents it read are still those of the
book.

### The session list

`SessionManagerProofs`, for every finite set of threads, every set of clients and
symbols, every limit and every timeout: `CountAlwaysRight`,
`YoungSessionsAlwaysStay`, `ListImplementsSubscriptions` and
`SubscribersAlwaysExact`. The inductive invariant is

    SInv == TypeInv /\ OneSession /\ OneSymbol /\ LimitInv /\ SweepInv

The searches return the first match; `OneSession` and `OneSymbol` make it the only one,
so that removing it removes the client or the symbol (`RemovedElements`,
`RemovedSymbols`). `LimitInv` counts the sessions that threads are about to add:
the limit is tested without the lock, and with n threads it is exceeded by at most
n - 1. `SweepInv` says that the clock of the cleanup is never ahead, so that a session
looks younger to it than it is. For `SubscribersAlwaysExact` the loop of
`session_manager_get_subscribers` is a recursive function; that it is well
defined, and what it holds after each session, is shown by looking at the first
session at which it would fail.

### The client's connection

`WSClientProofs`, for every `max_retries`: `RetriesAlwaysBounded`,
`ConnectedAlwaysOpen` and `FreedOnlyAfterService`, from the invariant `WInv`, which
adds how many attempts main and the service thread have made at each of their places,
and which thread can have stopped the client.

### From the command to the confirmation

`TradingSessionProofs`, for any sets of workers and symbols, any number of commands and
lost connections and every limit of the queue and the history:
`ConfirmationsAlwaysMatch` and `HistoryAlwaysKept`.

What handles a message never compares it with what was sent, so the first needs to know
where every order is. The invariant is

    SessionInv     == TypeInv /\ OrdersComeFrom
    OrdersComeFrom == \E at \in [DOMAIN typed -> Places] : From(at)

A place is a position on the wire, in the queue, among the answers or among the
confirmations, or a worker. `at` gives each order that was sent one place, and `From(at)`
says that whatever is at a place is an order sent that `at` puts there. No two
confirmations are then of one order sent, and there are no more of them than orders
(`MatchesFromInv`). `MoveKeeps` is the step all actions but `SendCommand` share: if
whatever is at a place after the step came from the place a function takes there, then
`at` followed by that function is the new `at`. The functions are `Stay`, `Advance` (the first
of a queue leaves, the others move up) and `Leave` (a worker answers). A message that is
lost leaves an entry of `at` that stands for nothing, so a closed connection and a
full queue need no argument of their own.

The history is inductive as it stands, once it is stated with its exact contents.

### What is only model-checked

Liveness everywhere: `AcceptedIsHandled`, `MatchingEnds`, `LossIsNoticed`, `QuitEnds`,
`ViewIsAnswered` (fairness is outside the prover's reach). `AVLTree` and `OrderBookAVL`,
which use recursive operators. `ViewShowsBook` of `TradingSession`, which is about the
order in which `SetToSortSeq` puts a set, a choice among permutations whose existence
takes an induction over the set.

## Not modelled

- Parsing of text, formatting, printing and logging, beyond the fields of a message
  and the rounding of prices. Memory exhaustion, except where a handler's answer
  depends on it.
- Code that nothing calls: `order_set_price`, `order_set_quantity`,
  `parse_book_snapshot` and the serialisers other than the one of a snapshot, the
  validators other than those of price and quantity, the queries of the trade
  history, the updates and queries of the market data. The client's
  order entry, which is created and destroyed and not used. The market monitor,
  which nobody subscribes to.
- `ws_server_broadcast`, which reaches no client.
- A tree torn by two workers in the middle of a rotation, a crash on the memory of a
  client that has gone, and whatever the client does after it was freed: undefined
  behaviour that is followed only as far as described above.
- Replies the server never sends (MSG_ORDER_REJECTED and the status messages).
