---------------------------- MODULE OrderBookAVL -----------------------------
(***************************************************************************)
(* The order book on its two AVL trees: order_book.c calling avl_tree.c.   *)
(* It differs from OrderBook in that each side is a tree, so the walk of   *)
(* order_book_cancel_order is the one the code makes.  It implements       *)
(* OrderBook (property Implements).                                        *)
(***************************************************************************)
EXTENDS AVLTree, FiniteSets

CONSTANTS Ids, Symbols, Prices, Quantities, MaxOrders, MaxTime

VARIABLES
  orders,      \* every Order allocated, in order of creation
  buy_root,    \* book->buy_orders->root
  sell_root,   \* book->sell_orders->root
  trades,      \* trades handed to trade_broadcaster_send_trade
  dropped,     \* history: orders avl_insert discarded as duplicates
  phase,       \* "open", "matching" or "matched"
  now,         \* time(NULL), in seconds
  unreached    \* history: orders with the id asked for that rested in the tree
               \* when order_book_cancel_order last returned -1

vars == <<orders, buy_root, sell_root, trades, dropped, phase, now, unreached>>

\* The orders a tree holds.
OrdersIn(root) == LET s == avl_inorder_traverse(root) IN {s[i] : i \in DOMAIN s}

Book == INSTANCE OrderBook WITH buy_orders <- OrdersIn(buy_root),
                                sell_orders <- OrdersIn(sell_root)

Root(is_buy) == IF is_buy THEN buy_root ELSE sell_root

Init ==
  /\ orders = <<>>
  /\ buy_root = Nil /\ sell_root = Nil
  /\ trades = <<>>
  /\ dropped = {}
  /\ phase = "open"
  /\ now = 0
  /\ unreached = {}

order_book_add_order(id, symbol, price, quantity, is_buy) ==
  LET new == Len(orders) + 1
      grown == avl_insert(Root(is_buy), is_buy, price, now, new)
  IN
  /\ phase # "matching"
  /\ Len(orders) < MaxOrders
  /\ orders' = Append(orders,
                      Book!order_create(id, symbol, price, quantity, is_buy))
  /\ buy_root' = IF is_buy THEN grown ELSE buy_root
  /\ sell_root' = IF is_buy THEN sell_root ELSE grown
  /\ dropped' = IF new \in OrdersIn(grown) THEN dropped ELSE dropped \cup {new}
  /\ phase' = "open"
  /\ UNCHANGED <<trades, now, unreached>>

Matchable ==
  /\ ~avl_is_empty(buy_root) /\ ~avl_is_empty(sell_root)
  /\ Book!is_match_possible(avl_find_max(buy_root), avl_find_min(sell_root))

order_book_match_orders ==
  /\ phase # "matching"
  /\ phase' = IF Matchable THEN "matching" ELSE "matched"
  /\ UNCHANGED <<orders, buy_root, sell_root, trades, dropped, now, unreached>>

\* Mutation: an order leaves the tree whether or not it was filled.
DeleteIfFilled_Always(root, is_buy, order) ==
  avl_delete_order(root, is_buy, order.price, order.timestamp)

\* The tree after a match: a filled order is deleted by its price and time.
DeleteIfFilled(root, is_buy, order) ==
  IF order.remaining = 0
  THEN avl_delete_order(root, is_buy, order.price, order.timestamp)
  ELSE root

MatchStep ==
  LET b == avl_find_max(buy_root)
      s == avl_find_min(sell_root)
      q == Book!match_quantity(b, s)
  IN
  /\ phase = "matching"
  /\ Matchable
  /\ orders' = [orders EXCEPT ![b] = Book!Reduced(@, q), ![s] = Book!Reduced(@, q)]
  /\ trades' = Append(trades, [buy |-> b, sell |-> s,
                               price |-> orders[s].price, quantity |-> q])
  /\ buy_root' = DeleteIfFilled(buy_root, TRUE, orders'[b])
  /\ sell_root' = DeleteIfFilled(sell_root, FALSE, orders'[s])
  /\ UNCHANGED <<dropped, phase, now, unreached>>

MatchReturn ==
  /\ phase = "matching"
  /\ ~Matchable
  /\ phase' = "matched"
  /\ UNCHANGED <<orders, buy_root, sell_root, trades, dropped, now, unreached>>

RECURSIVE CancelWalk(_, _, _)
\* The loop of order_book_cancel_order: the order found, 0 at the null pointer.
CancelWalk(node, id, is_buy) ==
  IF IsNil(node) THEN 0
  ELSE IF orders[node.order].order_id = id THEN node.order
  ELSE LET cmp == compare_nodes(node.price, node.timestamp,
                                orders[node.order].price,
                                orders[node.order].timestamp, is_buy)
       IN CancelWalk(IF cmp < 0 THEN node.left ELSE node.right, id, is_buy)

order_book_cancel_order(id, is_buy) ==
  LET o == CancelWalk(Root(is_buy), id, is_buy)
  IN
  /\ phase # "matching"
  /\ \/ /\ o # 0                      \* return 0
        /\ orders' = [orders EXCEPT ![o].is_canceled = TRUE]
        /\ phase' = "open"
        /\ unreached' = {}
     \/ /\ o = 0                      \* return -1
        /\ unreached' = {x \in OrdersIn(Root(is_buy)) : orders[x].order_id = id}
        /\ UNCHANGED <<orders, phase>>
  /\ UNCHANGED <<buy_root, sell_root, trades, dropped, now>>

Tick ==
  /\ now < MaxTime
  /\ now' = now + 1
  /\ UNCHANGED <<orders, buy_root, sell_root, trades, dropped, phase, unreached>>

AddSome ==
  \E id \in Ids, symbol \in Symbols, price \in Prices,
     quantity \in Quantities, is_buy \in BOOLEAN :
       order_book_add_order(id, symbol, price, quantity, is_buy)

CancelSome == \E id \in Ids, is_buy \in BOOLEAN : order_book_cancel_order(id, is_buy)

Next ==
  \/ AddSome
  \/ order_book_match_orders
  \/ MatchStep
  \/ MatchReturn
  \/ CancelSome
  \/ Tick

Spec == Init /\ [][Next]_vars

-----------------------------------------------------------------------------
\* The book on its trees does nothing the book on sets does not do: the tree
\* returns the extreme orders, drops only duplicates, deletes only the filled
\* order, and the cancellation walk meets the right spine.
Implements == Book!Spec

\* A cancellation that answers -1 ("Order not found for cancellation") leaves
\* no order with that id in the tree it was asked to look in.
CancelFindsResting == unreached = {}
=============================================================================
