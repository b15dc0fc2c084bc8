---------------------------- MODULE TradingSession ----------------------------
(***************************************************************************)
(* A client and the server from end to end: the commands of client_app.c   *)
(* and client_commands.c, the JSON messages of json_protocol.c, the answers *)
(* of the handlers in server_handlers.c, and what the client shows.        *)
(*                                                                         *)
(* A JSON object is a record; what a reader looks for is a field of it.    *)
(* Prices are in hundredths of a cent, the resolution of MIN_PRICE.  On    *)
(* the client, handle_command runs in the input thread and handle_message  *)
(* in the service thread.  On the server, workers answer in parallel; how  *)
(* they share the queue and the table of books is the subject of           *)
(* MessageQueue and BookRegistry, and how a book matches of OrderBook.     *)
(***************************************************************************)
EXTENDS Integers, Sequences, FiniteSets, SequencesExt

CONSTANTS
  Symbols,
  Prices,         \* prices a user types
  Quantities,     \* quantities a user types
  Workers,        \* worker threads
  StartBooks,     \* the books other clients may have left
  Broadcasters,   \* see BookRegistry: FALSE is the configuration of server_app.c
  Capacity,       \* messages the queue holds
  MIN_PRICE, MAX_PRICE, MIN_QUANTITY, MAX_QUANTITY,  \* protocol_constants.h, scaled
  max_orders,     \* rows of a snapshot per side (200)
  max_trades,     \* trades the history keeps (1000)
  MaxCommands,    \* bound: commands typed
  MaxInputs       \* bound: commands, trade notices, connections lost and ticks

ASSUME SessionAssumption ==
  /\ Prices \subseteq Nat /\ Quantities \subseteq Nat
  /\ {Capacity, max_orders, max_trades, MaxCommands, MaxInputs} \subseteq Nat
  /\ max_trades > 0

VARIABLES
  now,           \* time(NULL), of both sides
  is_view_requested,
  entered,       \* the command handle_command is working on
  commands,      \* commands typed so far
  inputs,        \* inputs so far (see MaxInputs)
  connection,    \* number of the connection, 0 while there is none
  connections,   \* connections made so far
  wire,          \* messages on their way to the server
  queue,         \* the message queue: <<connection, message>>
  working,       \* worker -> what it works on
  books,         \* symbol that has a book -> its resting orders
  broadcaster,   \* handlers->trade_broadcaster is not NULL
  inbound,       \* messages on their way to the client
  screen,        \* the book handle_message printed last
  history,       \* trade_history, newest first
  notices,       \* trades the client was told of so far
  typed,         \* history: the orders sent
  confirmed,     \* history: the orders shown as placed
  viewing,       \* history: the symbol of the last VIEW
  clean          \* history: that VIEW was typed when nothing was under way, and
                 \* nothing has come between it and its answer

client == <<now, is_view_requested, entered, commands, inputs>>
net == <<connection, connections, wire, inbound>>
server == <<queue, working, books, broadcaster>>
display == <<screen, history, notices, confirmed>>
vars == <<client, net, server, display, typed, viewing, clean>>

NoCommand == [type |-> "none"]

Idle == [pc |-> "idle"]

\* The types of message_types.h.
MSG_PLACE_ORDER == 1
MSG_REQUEST_BOOK == 3
MSG_ORDER_ACCEPTED == 101
MSG_TRADE_EXECUTED == 104
MSG_BOOK_SNAPSHOT == 105
MSG_ERROR == 107
NoType == 0

Init ==
  /\ now = 0
  /\ is_view_requested = FALSE /\ entered = NoCommand
  /\ commands = 0 /\ inputs = 0
  /\ connection = 1 /\ connections = 1
  /\ wire = <<>> /\ inbound = <<>> /\ queue = <<>>
  /\ working = [w \in Workers |-> Idle]
  /\ broadcaster \in Broadcasters
  /\ books \in IF broadcaster THEN StartBooks ELSE {<<>>}
  /\ screen = <<>>
  /\ history = <<>> /\ notices = 0 /\ typed = <<>> /\ confirmed = <<>>
  /\ viewing = (CHOOSE s \in Symbols : TRUE) /\ clean = FALSE

-----------------------------------------------------------------------------
(* Commands.                                                               *)

validate_price(price) == price >= MIN_PRICE /\ price <= MAX_PRICE

validate_quantity(quantity) == quantity >= MIN_QUANTITY /\ quantity <= MAX_QUANTITY

\* The commands parse_command accepts, other than HELP and QUIT (see WSClient).
\* The id of an order is made of the second in which it is typed.
parse_command ==
  {[type |-> t, symbol |-> s, price |-> p, quantity |-> q, order_id |-> now] :
     t \in {"BUY", "SELL"}, s \in Symbols, p \in {x \in Prices : validate_price(x)},
     q \in {x \in Quantities : validate_quantity(x)}}
  \cup [type : {"VIEW"}, symbol : Symbols]
  \cup [type : {"CANCEL"}, order_id : {now}]

NULL == [type |-> NoType]

\* A cancellation has no message.
format_command_as_json(cmd) ==
  CASE cmd.type \in {"BUY", "SELL"} ->
         [type |-> MSG_PLACE_ORDER, order_id |-> cmd.order_id,
          trader_id |-> "TRADER", symbol |-> cmd.symbol, price |-> cmd.price,
          quantity |-> cmd.quantity, is_buy |-> cmd.type = "BUY"]
    [] cmd.type = "VIEW" -> [type |-> MSG_REQUEST_BOOK, symbol |-> cmd.symbol]
    [] OTHER -> NULL

\* Nothing the client sent is still to be answered.
NothingUnderWay ==
  /\ wire = <<>> /\ queue = <<>> /\ inbound = <<>>
  /\ \A w \in Workers : working[w] = Idle

\* The environment does something.
Input == inputs < MaxInputs /\ inputs' = inputs + 1

\* A line is typed, and handle_command sets the flag before it knows whether
\* there is a connection ...
EnterCommand(cmd) ==
  /\ entered = NoCommand
  /\ Input
  /\ commands < MaxCommands
  /\ commands' = commands + 1
  /\ entered' = cmd
  /\ is_view_requested' = (is_view_requested \/ cmd.type = "VIEW")
  /\ viewing' = IF cmd.type = "VIEW" THEN cmd.symbol ELSE viewing
  /\ clean' = CASE cmd.type = "VIEW" -> connection # 0 /\ NothingUnderWay
                [] cmd.type = "CANCEL" -> clean
                [] OTHER -> FALSE
  /\ UNCHANGED <<now, net, server, display, typed>>

\* ... and sends the message, if there is one and the connection is up.
SendCommand ==
  LET json == format_command_as_json(entered)
      sent == connection # 0 /\ json # NULL
  IN
  /\ entered # NoCommand
  /\ entered' = NoCommand
  /\ wire' = IF sent THEN Append(wire, json) ELSE wire
  /\ typed' = IF sent /\ json.type = MSG_PLACE_ORDER THEN Append(typed, json)
                                                     ELSE typed
  /\ UNCHANGED <<now, is_view_requested, commands, inputs, connection, connections, inbound,
                 server, display, viewing, clean>>

-----------------------------------------------------------------------------
(* The connection.                                                         *)

\* What is on its way is lost; what the server has read is still worked on.
Closed ==
  /\ Input
  /\ connection # 0
  /\ connection' = 0
  /\ wire' = <<>> /\ inbound' = <<>>
  /\ clean' = FALSE
  /\ UNCHANGED <<now, is_view_requested, entered, commands, connections, server,
                 display, typed, viewing>>

Established ==
  /\ connection = 0
  /\ connections' = connections + 1
  /\ connection' = connections + 1
  /\ UNCHANGED <<client, wire, inbound, server, display, typed, viewing, clean>>

\* LWS_CALLBACK_RECEIVE of the server and server_handlers_process_message: a
\* full queue loses the message and tells nobody.
ServerReceive ==
  /\ wire # <<>>
  /\ wire' = Tail(wire)
  /\ IF Len(queue) < Capacity
     THEN queue' = Append(queue, <<connection, Head(wire)>>) /\ UNCHANGED clean
     ELSE clean' = FALSE /\ UNCHANGED queue
  /\ UNCHANGED <<client, connection, connections, inbound, working, books,
                 broadcaster, display, typed, viewing>>

\* ws_server_send on a connection.  The memory of a client that has gone is
\* freed and may belong to the next one by the time a worker uses it.
ws_server_send(to, json) ==
  \/ to = connection /\ inbound' = Append(inbound, json)
  \/ to # connection /\ connection # 0 /\ inbound' = Append(inbound, json)
  \/ to # connection /\ UNCHANGED inbound

-----------------------------------------------------------------------------
(* The handlers of the server.                                             *)

\* Mutation: a message without a type is not recognised.
parse_base_message_TypeOnly(json) ==
  IF "type" \in DOMAIN json THEN json.type ELSE NoType

\* What a reader takes a message for.  A snapshot carries no type.
parse_base_message(json) ==
  CASE "type" \in DOMAIN json -> json.type
    [] {"symbol", "bids", "asks"} \subseteq DOMAIN json -> MSG_BOOK_SNAPSHOT
    [] "Trade Details" \in DOMAIN json -> MSG_ORDER_ACCEPTED
    [] OTHER -> NoType

\* Mutation: the message stays at the head of the queue.
Dequeue_Kept(w) ==
  /\ working[w] = Idle
  /\ queue # <<>>
  /\ working' = [working EXCEPT ![w] = [pc |-> "handle", to |-> Head(queue)[1],
                                       json |-> Head(queue)[2]]]
  /\ UNCHANGED <<client, net, queue, books, broadcaster, display, typed, viewing, clean>>

\* dequeue_message, for a worker that waits in worker_thread.
Dequeue(w) ==
  /\ working[w] = Idle
  /\ queue # <<>>
  /\ queue' = Tail(queue)
  /\ working' = [working EXCEPT ![w] = [pc |-> "handle", to |-> Head(queue)[1],
                                       json |-> Head(queue)[2]]]
  /\ UNCHANGED <<client, net, books, broadcaster, display, typed, viewing, clean>>

send_error_response(to) == ws_server_send(to, [type |-> MSG_ERROR])

\* An order message must have all its fields.
parse_order_message(json) ==
  {"order_id", "trader_id", "symbol", "price", "quantity", "is_buy"} \subseteq DOMAIN json

Bids(book) == {o \in book : o.is_buy}

Asks(book) == {o \in book : ~o.is_buy}

\* compare_nodes: the order of the tree.
Before(o, p) ==
  \/ o.price < p.price
  \/ o.price = p.price /\ o.timestamp < p.timestamp

SameKey(o, p) == o.is_buy = p.is_buy /\ o.price = p.price /\ o.timestamp = p.timestamp

\* order_book_add_order: an order whose key the tree has is dropped.
order_book_add_order(book, o) ==
  IF \E p \in book : SameKey(o, p) THEN book ELSE book \cup {o}

Orders == [price : Int, remaining : Int, is_buy : BOOLEAN, timestamp : Int]

\* The last node of the buy tree trades with the first of the sell tree as long
\* as their prices cross; what is filled leaves the book.
order_book_match_orders(unmatched) ==
  LET Match[book \in SUBSET Orders] ==
        LET buys == SetToSortSeq(Bids(book), Before)
            sells == SetToSortSeq(Asks(book), Before)
            buy == Last(buys)
            sell == Head(sells)
            traded == IF buy.remaining < sell.remaining THEN buy.remaining
                                                        ELSE sell.remaining
            left == {[o EXCEPT !.remaining = @ - traded] : o \in {buy, sell}}
        IN IF Bids(book) = {} \/ Asks(book) = {} \/ buy.price < sell.price
           THEN book
           ELSE Match[(book \ {buy, sell}) \cup {o \in left : o.remaining > 0}]
  IN Match[unmatched]

\* collect_orders in the order of the tree, and serialize_book_snapshot.
Rows(orders) ==
  LET sorted == SetToSortSeq(orders, Before)
  IN [i \in 1..Min({max_orders, Len(sorted)}) |->
        [price |-> sorted[i].price, quantity |-> sorted[i].remaining]]

serialize_book_snapshot(s, book) ==
  [symbol |-> s, bids |-> Rows(Bids(book)), asks |-> Rows(Asks(book))]

\* printf("%.2f").
Cents(price) == (price + 50) \div 100

\* A book that is not in the table is created, empty.
find_book(s) == IF s \in DOMAIN books THEN books[s] ELSE {}

\* handle_place_order up to the confirmation.
PlaceOrder(w) ==
  LET json == working[w].json
      s == json.symbol
      order == [price |-> json.price, remaining |-> json.quantity,
                is_buy |-> json.is_buy, timestamp |-> now]
  IN
  /\ working[w].pc = "handle"
  /\ parse_base_message(json) = MSG_PLACE_ORDER
  /\ parse_order_message(json)
  /\ IF broadcaster
     THEN /\ books' = (s :> order_book_add_order(find_book(s), order)) @@ books
          /\ ws_server_send(working[w].to,
               [type |-> MSG_ORDER_ACCEPTED, status |-> "success",
                details |-> [order_id |-> json.order_id, symbol |-> s,
                             price |-> Cents(json.price), quantity |-> json.quantity,
                             side |-> IF json.is_buy THEN "Buy" ELSE "Sell"]])
          /\ working' = [working EXCEPT ![w].pc = "match"]
     ELSE /\ send_error_response(working[w].to)
          /\ working' = [working EXCEPT ![w] = Idle]
          /\ UNCHANGED books
  /\ UNCHANGED <<client, connection, connections, wire, queue, broadcaster, display,
                 typed, viewing, clean>>

\* The rest of handle_place_order up to the sending of the snapshot.
PlaceMatch(w) ==
  LET s == working[w].json.symbol
      matched == order_book_match_orders(books[s])
  IN
  /\ working[w].pc = "match"
  /\ books' = [books EXCEPT ![s] = matched]
  /\ working' = [working EXCEPT ![w] =
                   [pc |-> "send", to |-> @.to, json |-> serialize_book_snapshot(s, matched)]]
  /\ UNCHANGED <<client, net, queue, broadcaster, display, typed, viewing, clean>>

\* handle_book_request: the snapshot is taken under the lock and sent after it.
BookRequest(w) ==
  LET s == working[w].json.symbol IN
  /\ working[w].pc = "handle"
  /\ parse_base_message(working[w].json) = MSG_REQUEST_BOOK
  /\ IF s \notin DOMAIN books
     THEN /\ send_error_response(working[w].to)
          /\ working' = [working EXCEPT ![w] = Idle]
     ELSE /\ working' = [working EXCEPT ![w] =
                           [pc |-> "send", to |-> @.to,
                            json |-> serialize_book_snapshot(s, books[s])]]
          /\ UNCHANGED inbound
  /\ UNCHANGED <<client, connection, connections, wire, queue, books, broadcaster,
                 display, typed, viewing, clean>>

\* The snapshot is sent; a sender that has gone is not told apart.
SendSnapshot(w) ==
  /\ working[w].pc = "send"
  /\ ws_server_send(working[w].to, working[w].json)
  /\ working' = [working EXCEPT ![w] = Idle]
  /\ UNCHANGED <<client, connection, connections, wire, queue, books, broadcaster,
                 display, typed, viewing, clean>>

-----------------------------------------------------------------------------
(* What the client does with a message.                                    *)

\* MSG_ORDER_ACCEPTED: the order is shown as placed.
ShowAccepted(json) ==
  /\ confirmed' = Append(confirmed, json.details)
  /\ UNCHANGED <<screen, is_view_requested, clean>>

\* A price is rounded to a cent on the screen.
Printed(rows) == [i \in DOMAIN rows |-> [rows[i] EXCEPT !.price = Cents(@)]]

\* Mutation: the bids are printed in the order of the message.
ShowBook_Unreversed(json) ==
  IF is_view_requested
  THEN /\ screen' = [symbol |-> json.symbol,
                     bids |-> Printed(json.bids), asks |-> Printed(json.asks)]
       /\ is_view_requested' = FALSE
       /\ clean' = FALSE
       /\ UNCHANGED confirmed
  ELSE UNCHANGED <<screen, is_view_requested, clean, confirmed>>

\* MSG_BOOK_SNAPSHOT: shown if a view is wanted, whichever book it is of.  The
\* bids are printed from the last to the first.
ShowBook(json) ==
  IF is_view_requested
  THEN /\ screen' = [symbol |-> json.symbol,
                     bids |-> Printed(Reverse(json.bids)), asks |-> Printed(json.asks)]
       /\ is_view_requested' = FALSE
       /\ clean' = FALSE
       /\ UNCHANGED confirmed
  ELSE UNCHANGED <<screen, is_view_requested, clean, confirmed>>

\* handle_message; an error is not among the types it shows.
ClientReceive ==
  LET json == Head(inbound)
      msg_type == parse_base_message(json)
  IN
  /\ inbound # <<>>
  /\ inbound' = Tail(inbound)
  /\ CASE msg_type = MSG_ORDER_ACCEPTED -> ShowAccepted(json)
       [] msg_type = MSG_BOOK_SNAPSHOT -> ShowBook(json)
       [] OTHER -> UNCHANGED <<screen, is_view_requested, clean, confirmed>>
  /\ UNCHANGED <<now, entered, commands, inputs, connection, connections, wire, server,
                 history, notices, typed, viewing>>

\* And so must a trade message.
parse_trade_message(json) ==
  {"symbol", "buy_order_id", "sell_order_id", "price", "quantity", "timestamp"}
    \subseteq DOMAIN json

\* Mutation: the limit is tested with > instead of >=.
trade_history_add_trade_OneMore(trade) ==
  <<trade>> \o IF Len(history) > max_trades THEN Tail(history) ELSE history

\* A full history first loses its head, which is the trade added last.
trade_history_add_trade(trade) ==
  <<trade>> \o IF Len(history) >= max_trades THEN Tail(history) ELSE history

\* A message of type MSG_TRADE_EXECUTED with the fields of TradeMessage, as the
\* protocol's headers define it, comes at any time.  The repository's server
\* announces trades to nobody (ws_server_broadcast reaches no client): its
\* behaviours are those without this action.
TradeExecuted ==
  LET json == [type |-> MSG_TRADE_EXECUTED, symbol |-> viewing, buy_order_id |-> 0,
               sell_order_id |-> 0, price |-> 1, quantity |-> 1,
               timestamp |-> notices + 1]
  IN
  /\ Input
  /\ connection # 0
  /\ notices' = notices + 1
  /\ parse_base_message(json) = MSG_TRADE_EXECUTED /\ parse_trade_message(json)
  /\ history' = trade_history_add_trade(json.timestamp)
  /\ UNCHANGED <<now, is_view_requested, entered, commands, net, server, screen,
                 confirmed, typed, viewing, clean>>

Tick ==
  /\ Input
  /\ now' = now + 1
  /\ UNCHANGED <<is_view_requested, entered, commands, net, server, display, typed,
                 viewing, clean>>

Worker(w) ==
  Dequeue(w) \/ PlaceOrder(w) \/ PlaceMatch(w) \/ BookRequest(w) \/ SendSnapshot(w)

Next ==
  \/ \E cmd \in parse_command : EnterCommand(cmd)
  \/ SendCommand \/ ServerReceive \/ ClientReceive
  \/ \E w \in Workers : Worker(w)
  \/ Closed \/ Established
  \/ TradeExecuted \/ Tick

Spec == Init /\ [][Next]_vars

\* As long as the input thread has a command to finish, a service thread a
\* message to take or a worker something to do, one of them runs.  The user, the
\* network's failures and the clock owe nothing.
Progress ==
  SendCommand \/ ServerReceive \/ ClientReceive \/ \E w \in Workers : Worker(w)

FairSpec == Spec /\ WF_vars(Progress)

-----------------------------------------------------------------------------
(* Properties.                                                             *)

\* The answer to a VIEW that is the only thing under way shows the book the
\* user asked for as the server has it: best prices first, every ask or the
\* max_orders best of them, and every bid if there are at most max_orders.
\* (With more bids than that it is the best ones that are cut off; with an order
\* under way the snapshot that follows every placement may be shown instead.)
ViewShowsBook ==
  [][(clean /\ is_view_requested /\ ~is_view_requested') =>
       LET book == books[viewing]
           bids == screen'.bids
           asks == screen'.asks
           Best(rows, orders, first(_, _)) ==
             /\ Len(rows) = Min({max_orders, Cardinality(orders)})
             /\ \A i \in 1..Len(rows) :
                  \E o \in orders :
                    /\ rows[i] = [price |-> Cents(o.price), quantity |-> o.remaining]
                    /\ Cardinality({p \in orders : first(p, o)}) = i - 1
           After(o, p) == Before(p, o)
       IN
       /\ screen'.symbol = viewing
       /\ viewing \in DOMAIN books
       /\ Best(asks, Asks(book), Before)
       /\ Cardinality(Bids(book)) <= max_orders => Best(bids, Bids(book), After)]_vars

\* Such a VIEW of a book that exists is answered, unless something comes
\* between: a further order or VIEW, the loss of the connection, a full queue.
ViewIsAnswered ==
  (clean /\ viewing \in DOMAIN books) ~> ~clean

\* What the client shows as placed is an order its user typed, to the nearest
\* cent, and no order is shown as placed more often than it was sent, across
\* connections that close while the answer is being made.
ConfirmationsMatch ==
  /\ Len(confirmed) <= Len(typed)
  /\ \A i \in 1..Len(confirmed) : \E j \in 1..Len(typed) :
       LET c == confirmed[i]
           t == typed[j]
       IN /\ <<c.order_id, c.symbol, c.quantity>> = <<t.order_id, t.symbol, t.quantity>>
          /\ c.side = IF t.is_buy THEN "Buy" ELSE "Sell"
          /\ 100 * c.price - t.price \in -50..50

\* The history holds at most max_trades trades, newest first: the last one the
\* client was told of, and the first ones.  A full history forgets the trade
\* before the newest, not the oldest.
HistoryKeepsFirstAndLast ==
  LET n == IF notices <= max_trades THEN notices ELSE max_trades
  IN history = [i \in 1..n |-> IF i = 1 THEN notices ELSE n - i + 1]
=============================================================================
