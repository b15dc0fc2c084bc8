------------------------------ MODULE OrderBook ------------------------------
(***************************************************************************)
(* The matching engine of src/trading_engine: order.c and order_book.c     *)
(* over the ordered collections that avl_tree.c implements.                *)
(*                                                                         *)
(* An order is the record order_create fills in; `orders` is the sequence  *)
(* of the orders allocated so far, so an index stands for an Order pointer *)
(* and indices grow in arrival order.  Nothing in the program frees an     *)
(* order that was put in a book, so an index stays valid for ever.  A side *)
(* of the book is the set of the orders its tree holds: the shape of the   *)
(* tree is added by module OrderBookAVL, which implements this one.        *)
(*                                                                         *)
(* order_book_match_orders is a loop.  Each iteration is one action, and   *)
(* `phase` keeps every other call out until the loop returns.  After the   *)
(* return, phase is "matched" until an order is added or canceled.         *)
(***************************************************************************)
EXTENDS Integers, Sequences, FiniteSets, Functions

CONSTANTS
  Ids,          \* order ids: chosen by the clients, not unique
  Symbols,      \* ticker symbols
  Prices,       \* prices, as integers (ticks); only ever compared
  Quantities,   \* quantities an order may carry; not validated, may be <= 0
  MaxOrders,    \* bound: orders created
  MaxTime       \* bound: seconds the clock may advance

ASSUME PricesAssumption == Prices \subseteq Int
ASSUME QuantitiesAssumption == Quantities \subseteq Int
ASSUME MaxOrdersAssumption == MaxOrders \in Nat
ASSUME MaxTimeAssumption == MaxTime \in Nat

VARIABLES
  orders,       \* every Order allocated, in order of creation
  buy_orders,   \* orders held by book->buy_orders
  sell_orders,  \* orders held by book->sell_orders
  trades,       \* trades handed to trade_broadcaster_send_trade, oldest first
  dropped,      \* history: orders avl_insert discarded as duplicates
  phase,        \* "open", "matching" or "matched"
  now           \* time(NULL), in seconds

vars == <<orders, buy_orders, sell_orders, trades, dropped, phase, now>>

Order == [order_id : Ids, symbol : Symbols, price : Prices,
          quantity : Quantities, remaining : Int, is_buy : BOOLEAN,
          timestamp : Nat, is_canceled : BOOLEAN]

Refs == DOMAIN orders

Trade == [buy : Refs, sell : Refs, price : Prices, quantity : Int]

-----------------------------------------------------------------------------
(* Keys of the trees.                                                      *)

\* Both trees are sorted by ascending price, then by ascending timestamp: the
\* two branches on is_buy_tree return the same sign.
compare_nodes(price1, timestamp1, price2, timestamp2) ==
  IF price1 # price2
  THEN IF price1 > price2 THEN 1 ELSE -1
  ELSE IF timestamp1 < timestamp2 THEN -1
       ELSE IF timestamp1 > timestamp2 THEN 1 ELSE 0

\* compare_nodes on the keys of two orders.
Cmp(x, y) == compare_nodes(orders[x].price, orders[x].timestamp,
                           orders[y].price, orders[y].timestamp)

\* Mutation: the wrong end of the tree.
avl_find_max_Min(tree) == CHOOSE x \in tree : \A y \in tree : Cmp(x, y) <= 0

avl_find_max(tree) == CHOOSE x \in tree : \A y \in tree : Cmp(y, x) <= 0

avl_find_min(tree) == CHOOSE x \in tree : \A y \in tree : Cmp(x, y) <= 0

\* Mutation: no test for an equal key.
HasKey_Never(tree, price, timestamp) == FALSE

\* insert_node finds a node with the key of the new order.
HasKey(tree, price, timestamp) ==
  \E x \in tree : compare_nodes(price, timestamp,
                                orders[x].price, orders[x].timestamp) = 0

\* Mutation: the timestamp is not compared.
avl_delete_order_ByPrice(tree, o) == {x \in tree : orders[x].price # orders[o].price}

\* avl_delete_order removes the node that has the key of order o.
avl_delete_order(tree, o) == {x \in tree : Cmp(x, o) # 0}

Side(is_buy) == IF is_buy THEN buy_orders ELSE sell_orders

\* Mutation: canceled orders are counted.
order_book_get_quantity_at_price_Canceled(price, is_buy) ==
  SumFunction([o \in {x \in Side(is_buy) : orders[x].price = price}
                 |-> orders[o].remaining])

\* order_book_get_quantity_at_price: the callback adds up what remains of the
\* orders at the price that are not canceled.
order_book_get_quantity_at_price(price, is_buy) ==
  SumFunction([o \in {x \in Side(is_buy) : orders[x].price = price
                                           /\ ~orders[x].is_canceled}
                 |-> orders[o].remaining])

-----------------------------------------------------------------------------
(* Operations on orders.                                                   *)

order_create(id, symbol, price, quantity, is_buy) ==
  [order_id |-> id, symbol |-> symbol, price |-> price,
   quantity |-> quantity, remaining |-> quantity, is_buy |-> is_buy,
   timestamp |-> now, is_canceled |-> FALSE]

\* order_reduce_quantity refuses a negative amount and more than remains.
Reduced(order, amount) ==
  IF amount < 0 \/ amount > order.remaining
  THEN order
  ELSE [order EXCEPT !.remaining = @ - amount]

\* Mutations: a condition is left out, or made strict.
is_match_possible_NoPrice(b, s) ==
  /\ ~orders[b].is_canceled /\ ~orders[s].is_canceled
  /\ orders[b].symbol = orders[s].symbol
  /\ orders[b].remaining > 0 /\ orders[s].remaining > 0

is_match_possible_NoCancel(b, s) ==
  /\ orders[b].symbol = orders[s].symbol
  /\ orders[b].price >= orders[s].price
  /\ orders[b].remaining > 0 /\ orders[s].remaining > 0

is_match_possible_Strict(b, s) ==
  /\ ~orders[b].is_canceled /\ ~orders[s].is_canceled
  /\ orders[b].symbol = orders[s].symbol
  /\ orders[b].price > orders[s].price
  /\ orders[b].remaining > 0 /\ orders[s].remaining > 0

is_match_possible(b, s) ==
  /\ ~orders[b].is_canceled
  /\ ~orders[s].is_canceled
  /\ orders[b].symbol = orders[s].symbol
  /\ orders[b].price >= orders[s].price
  /\ orders[b].remaining > 0
  /\ orders[s].remaining > 0

\* Mutation: always what the buyer wants.
match_quantity_Buyers(b, s) == orders[b].remaining

match_quantity(b, s) ==
  IF orders[b].remaining < orders[s].remaining
  THEN orders[b].remaining
  ELSE orders[s].remaining

-----------------------------------------------------------------------------
(* Actions.                                                                *)

Init ==
  /\ orders = <<>>
  /\ buy_orders = {} /\ sell_orders = {}
  /\ trades = <<>>
  /\ dropped = {}
  /\ phase = "open"
  /\ now = 0

\* order_create and order_book_add_order.  The tree discards an order whose
\* key it already holds; the caller is told 0 either way.
order_book_add_order(id, symbol, price, quantity, is_buy) ==
  LET new == Len(orders) + 1
      dup == HasKey(Side(is_buy), price, now)
  IN
  /\ phase # "matching"
  /\ Len(orders) < MaxOrders
  /\ orders' = Append(orders, order_create(id, symbol, price, quantity, is_buy))
  /\ buy_orders' = IF is_buy /\ ~dup THEN buy_orders \cup {new} ELSE buy_orders
  /\ sell_orders' = IF ~is_buy /\ ~dup THEN sell_orders \cup {new}
                                       ELSE sell_orders
  /\ dropped' = IF dup THEN dropped \cup {new} ELSE dropped
  /\ phase' = "open"
  /\ UNCHANGED <<trades, now>>

\* Best pair of the book, and whether the loop may match it.
Matchable ==
  /\ buy_orders # {} /\ sell_orders # {}
  /\ is_match_possible(avl_find_max(buy_orders), avl_find_min(sell_orders))

\* order_book_match_orders up to its loop: the early returns when a side is
\* empty or the best pair does not match.
order_book_match_orders ==
  /\ phase # "matching"
  /\ phase' = IF Matchable THEN "matching" ELSE "matched"
  /\ UNCHANGED <<orders, buy_orders, sell_orders, trades, dropped, now>>

\* process_match, and the removal of the orders it filled.
process_match(b, s) ==
  LET q == match_quantity(b, s)
      os == [orders EXCEPT ![b] = Reduced(@, q), ![s] = Reduced(@, q)]
  IN
  /\ orders' = os
  /\ trades' = Append(trades, [buy |-> b, sell |-> s,
                               price |-> orders[s].price, quantity |-> q])
  /\ buy_orders' = IF os[b].remaining = 0
                   THEN avl_delete_order(buy_orders, b) ELSE buy_orders
  /\ sell_orders' = IF os[s].remaining = 0
                    THEN avl_delete_order(sell_orders, s) ELSE sell_orders

\* One iteration of the matching loop that executes a trade.
MatchStep ==
  /\ phase = "matching"
  /\ Matchable
  /\ process_match(avl_find_max(buy_orders), avl_find_min(sell_orders))
  /\ UNCHANGED <<dropped, phase, now>>

\* Mutation: the loop has no break when the best pair does not match.
MatchReturn_NoBreak ==
  /\ phase = "matching"
  /\ ~Matchable
  /\ phase' = IF buy_orders = {} \/ sell_orders = {} THEN "matched" ELSE "matching"
  /\ UNCHANGED <<orders, buy_orders, sell_orders, trades, dropped, now>>

\* The iteration that finds a side empty or no match, and breaks.
MatchReturn ==
  /\ phase = "matching"
  /\ ~Matchable
  /\ phase' = "matched"
  /\ UNCHANGED <<orders, buy_orders, sell_orders, trades, dropped, now>>

\* The last node of the right spine of a tree is the one avl_find_max returns.
SpineOf(tree, spine) ==
  /\ spine \subseteq tree
  /\ tree # {} => avl_find_max(tree) \in spine

\* order_book_cancel_order compares each node with its own order, so its walk
\* only ever turns right: it visits the right spine of the tree, by ascending
\* key, and cancels the first order there that has the id.  Which orders are
\* on the spine depends on the shape of the tree, which this module leaves
\* open; the greatest key is always there.
order_book_cancel_order(id, is_buy) ==
  \E spine \in SUBSET Side(is_buy) :
    LET hits == {x \in spine : orders[x].order_id = id}
        o == avl_find_min(hits)
    IN
    /\ phase # "matching"
    /\ SpineOf(Side(is_buy), spine)
    /\ hits # {}
    /\ orders' = [orders EXCEPT ![o].is_canceled = TRUE]
    /\ phase' = "open"
    /\ UNCHANGED <<buy_orders, sell_orders, trades, dropped, now>>

\* The wall clock moves on, whatever the engine is doing.
Tick ==
  /\ now < MaxTime
  /\ now' = now + 1
  /\ UNCHANGED <<orders, buy_orders, sell_orders, trades, dropped, phase>>

AddSome ==
  \E id \in Ids, symbol \in Symbols, price \in Prices,
     quantity \in Quantities, is_buy \in BOOLEAN :
       order_book_add_order(id, symbol, price, quantity, is_buy)

CancelSome == \E id \in Ids, is_buy \in BOOLEAN : order_book_cancel_order(id, is_buy)

Next ==
  \/ AddSome
  \/ order_book_match_orders
  \/ MatchStep
  \/ MatchReturn
  \/ CancelSome
  \/ Tick

Spec == Init /\ [][Next]_vars

\* The thread that runs order_book_match_orders is not stopped in its loop.
FairSpec == Spec /\ WF_vars(MatchStep \/ MatchReturn)
-----------------------------------------------------------------------------
(* Properties.                                                             *)

\* Every variable has its type; a tree only holds allocated orders.
TypeOK ==
  /\ orders \in Seq(Order)
  /\ buy_orders \subseteq Refs
  /\ sell_orders \subseteq Refs
  /\ trades \in Seq(Trade)
  /\ dropped \subseteq Refs
  /\ phase \in {"open", "matching", "matched"}
  /\ now \in 0..MaxTime

\* An order process_match filled: it had something to sell or buy, and has not
\* any more.
Filled(o) == orders[o].quantity > 0 /\ orders[o].remaining = 0

Live(o) == ~orders[o].is_canceled /\ orders[o].remaining > 0

\* order_book_match_orders deletes by key (price, second): the key must name
\* one order of its side, or a neighbour leaves the book with the filled one.
KeysUnique ==
  \A is_buy \in BOOLEAN : \A x, y \in Side(is_buy) : Cmp(x, y) = 0 => x = y

\* No order gets lost other than by the duplicate check of insert_node, and
\* none is in two places: each order given to order_book_add_order rests in
\* the tree of its own side, or was filled, or was dropped as a duplicate.
OrdersAccounted ==
  \A o \in Refs :
    /\ o \in Side(orders[o].is_buy) <=> (~Filled(o) /\ o \notin dropped)
    /\ o \notin Side(~orders[o].is_buy)
    /\ o \in dropped => orders[o].remaining = orders[o].quantity

\* A trade process_match broadcasts is between a buy and a sell of one symbol,
\* for a positive quantity, at the seller's limit and within the buyer's, and
\* for no more than either order was for.
TradesWithinLimits ==
  \A i \in DOMAIN trades :
    LET t == trades[i]
        b == orders[t.buy]
        s == orders[t.sell]
    IN /\ b.is_buy /\ ~s.is_buy
       /\ b.symbol = s.symbol
       /\ s.price = t.price /\ t.price <= b.price
       /\ t.quantity > 0
       /\ t.quantity <= b.quantity - b.remaining
       /\ t.quantity <= s.quantity - s.remaining

\* What order o has traded according to the broadcast trades.
TradedBy(o) ==
  SumFunction([i \in DOMAIN trades |-> IF o \in {trades[i].buy, trades[i].sell}
                                      THEN trades[i].quantity ELSE 0])

\* What an order has lost of its quantity is exactly what the trades broadcast
\* for it add up to: a fill is broadcast once, and no order is overfilled.
FillsMatchTrades ==
  \A o \in Refs : orders[o].quantity - orders[o].remaining = TradedBy(o)

\* The depth order_book_get_quantity_at_price reports is what the orders at the
\* price, canceled and dropped ones aside, still have to trade after all the
\* trades broadcast so far.
DepthMatchesTrades ==
  \A price \in Prices, is_buy \in BOOLEAN :
    order_book_get_quantity_at_price(price, is_buy) =
      SumFunction([o \in {x \in Refs \ dropped : /\ orders[x].price = price
                                                /\ orders[x].is_buy = is_buy
                                                /\ ~orders[x].is_canceled}
                     |-> orders[o].quantity - TradedBy(o)])

\* When order_book_match_orders returns, only the heads of the two sides can
\* have stopped it: if they are live and of one symbol the book is uncrossed,
\* and everything there was to match has been matched.  (A canceled order, or
\* one of another symbol, at the head of a side does hide those behind it.)
MatchedIsUncrossed ==
  LET bb == avl_find_max(buy_orders)
      ss == avl_find_min(sell_orders)
  IN phase = "matched" =>
       \A b \in buy_orders, s \in sell_orders :
         /\ Live(bb) /\ Live(ss)
         /\ orders[bb].symbol = orders[ss].symbol
         => orders[b].price < orders[s].price

\* Once canceled, an order stays canceled and never trades again.
CanceledNeverTrades ==
  [][\A o \in Refs : orders[o].is_canceled =>
       orders'[o].is_canceled /\ orders'[o].remaining = orders[o].remaining]_vars

\* The trade that a step executes, if it executes one.
Trading == Len(trades') > Len(trades)
NewTrade == trades'[Len(trades')]

\* A trade is between the best prices of the book: no resting buy bids more
\* than the buyer, no resting sell asks less than the seller, and no resting
\* sell at the seller's price is older (test_price_priority and, for sells,
\* test_time_priority).
BestPricesTrade ==
  [][Trading =>
       /\ \A x \in buy_orders : orders[x].price <= orders[NewTrade.buy].price
       /\ \A x \in sell_orders :
            \/ orders[x].price > orders[NewTrade.sell].price
            \/ /\ orders[x].price = orders[NewTrade.sell].price
               /\ orders[x].timestamp >= orders[NewTrade.sell].timestamp]_vars

\* The matching loop ends.
MatchingEnds == (phase = "matching") ~> (phase = "matched")

\* "Price-time priority matching" for buys: no resting live buy at the buyer's
\* price is older than the buyer that trades.
BuyTimePriority ==
  [][Trading =>
       \A x \in buy_orders :
         Live(x) /\ orders[x].price = orders[NewTrade.buy].price =>
           orders[x].timestamp >= orders[NewTrade.buy].timestamp]_vars
=============================================================================
