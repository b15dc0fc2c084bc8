--------------------------- MODULE OrderBookProofs ---------------------------
(***************************************************************************)
(* Proofs about OrderBook, for every set of ids, symbols, integer prices   *)
(* and integer quantities and every bound on orders and time.              *)
(*                                                                         *)
(* The safety invariants are not inductive one by one: that a deletion by  *)
(* key removes only the filled order needs the keys to be unique, and that *)
(* a filled order is the one that left needs every order to be on its own  *)
(* side.  IInv puts them together with what remains of an order.           *)
(***************************************************************************)
EXTENDS OrderBook, SumsProofs, SequenceTheorems

\* What remains of an order is between nothing and its quantity; an order with
\* no positive quantity is never touched.
RemainingBounded ==
  \A o \in Refs :
    IF orders[o].quantity > 0
    THEN orders[o].remaining \in 0..orders[o].quantity
    ELSE orders[o].remaining = orders[o].quantity

\* The matching loop has returned only because its best pair does not match.
MatchedIsStuck == phase = "matched" => ~Matchable

IInv ==
  /\ TypeOK
  /\ KeysUnique
  /\ OrdersAccounted
  /\ RemainingBounded
  /\ TradesWithinLimits
  /\ MatchedIsStuck

-----------------------------------------------------------------------------
(* Extreme elements of finite ordered sets.                                *)

\* A nonempty finite set has an element that a given strict order puts below
\* no other: the extreme node avl_find_max and avl_find_min stop at.
LEMMA MaximalElement ==
  ASSUME NEW S, IsFiniteSet(S), S # {}, NEW R,
         \A x \in S : <<x, x>> \notin R,
         \A x, y, z \in S : <<x, y>> \in R /\ <<y, z>> \in R => <<x, z>> \in R
  PROVE  \E m \in S : \A y \in S : <<m, y>> \notin R
<1> DEFINE Up(x) == {y \in S : <<x, y>> \in R}
           U == {Up(x) : x \in S}
<1>1. U # {} /\ U \subseteq SUBSET S
  <2>1. PICK x \in S : TRUE
    OBVIOUS
  <2>2. Up(x) \in U
    OBVIOUS
  <2>3. \A y \in S : Up(y) \subseteq S
    OBVIOUS
  <2>4. ASSUME NEW u \in U
        PROVE  u \in SUBSET S
    <3>1. PICK y \in S : u = Up(y)
      OBVIOUS
    <3> QED
      BY <2>3, <3>1
  <2> QED
    BY <2>2, <2>4
<1>2. IsWellFoundedOn(StrictSubsetOrdering(S), SUBSET S)
  BY FS_StrictSubsetOrderingWellFounded, FS_FiniteSubsetsOfFinite
<1>3. PICK u \in U : \A v \in U : ~(<<v, u>> \in StrictSubsetOrdering(S))
  <2> HIDE DEF U
  <2> QED BY <1>1, <1>2, WFMin
<1>4. PICK m \in S : u = Up(m)
  OBVIOUS
<1>5. ASSUME NEW y \in S, <<m, y>> \in R
      PROVE  FALSE
  <2>1. Up(y) \subseteq Up(m)
    BY <1>5
  <2>2. y \in Up(m) /\ y \notin Up(y)
    BY <1>5
  <2>3. Up(y) \in U /\ Up(y) \in SUBSET S /\ Up(m) \in SUBSET S
    OBVIOUS
  <2>4. <<Up(y), Up(m)>> \in StrictSubsetOrdering(S)
    <3> HIDE DEF Up
    <3> QED BY <2>1, <2>2, <2>3 DEF StrictSubsetOrdering
  <2> QED
    BY <1>3, <1>4, <2>3, <2>4
<1> QED
  BY <1>5

\* compare_nodes is a total order on the keys.
LEMMA CompareNodes ==
  ASSUME NEW p1 \in Int, NEW t1 \in Int, NEW p2 \in Int, NEW t2 \in Int
  PROVE  LET c == compare_nodes(p1, t1, p2, t2)
             d == compare_nodes(p2, t2, p1, t1)
         IN /\ c \in {-1, 0, 1}
            /\ c = 0 <=> (p1 = p2 /\ t1 = t2)
            /\ c < 0 <=> (p1 < p2 \/ (p1 = p2 /\ t1 < t2))
            /\ c > 0 <=> d < 0
            /\ c = 0 <=> d = 0
            /\ c <= 0 <=> ~(d < 0)
BY DEF compare_nodes

\* The fields of an allocated order have their types.
LEMMA OrderFields ==
  ASSUME TypeOK, NEW o \in Refs
  PROVE  /\ orders[o] \in Order
         /\ orders[o].price \in Prices /\ orders[o].price \in Int
         /\ orders[o].timestamp \in Nat
         /\ orders[o].quantity \in Int
         /\ orders[o].remaining \in Int
         /\ orders[o].is_buy \in BOOLEAN
         /\ orders[o].is_canceled \in BOOLEAN
<1>1. orders[o] \in Order
  BY DEF TypeOK, Refs
<1> QED
  BY <1>1, PricesAssumption, QuantitiesAssumption DEF Order

\* The orders allocated are finitely many, so each side of the book is finite.
LEMMA RefsFinite ==
  ASSUME TypeOK
  PROVE  /\ Len(orders) \in Nat
         /\ Refs = 1..Len(orders)
         /\ \A T \in SUBSET Refs : IsFiniteSet(T)
<1>1. Len(orders) \in Nat /\ Refs = 1..Len(orders)
  BY LenProperties DEF TypeOK, Refs
<1>2. IsFiniteSet(Refs)
  BY <1>1, FS_Interval
<1> QED
  BY <1>1, <1>2, FS_Subset

\* Cmp compares two allocated orders by price, then by timestamp.
LEMMA CmpOrder ==
  ASSUME TypeOK, NEW x \in Refs, NEW y \in Refs
  PROVE  /\ Cmp(x, y) \in Int
         /\ Cmp(x, y) < 0 <=> \/ orders[x].price < orders[y].price
                              \/ /\ orders[x].price = orders[y].price
                                 /\ orders[x].timestamp < orders[y].timestamp
         /\ Cmp(x, y) = 0 <=> /\ orders[x].price = orders[y].price
                              /\ orders[x].timestamp = orders[y].timestamp
         /\ Cmp(x, y) > 0 <=> Cmp(y, x) < 0
         /\ Cmp(x, y) <= 0 <=> ~(Cmp(y, x) < 0)
<1>1. /\ orders[x].price \in Int /\ orders[x].timestamp \in Int
      /\ orders[y].price \in Int /\ orders[y].timestamp \in Int
  BY OrderFields
<1> QED
  BY <1>1, CompareNodes DEF Cmp

\* Cmp is transitive.
LEMMA CmpTransitive ==
  ASSUME TypeOK, NEW x \in Refs, NEW y \in Refs, NEW z \in Refs,
         Cmp(x, y) < 0, Cmp(y, z) < 0
  PROVE  Cmp(x, z) < 0
<1>1. /\ orders[x].price \in Int /\ orders[x].timestamp \in Int
      /\ orders[y].price \in Int /\ orders[y].timestamp \in Int
      /\ orders[z].price \in Int /\ orders[z].timestamp \in Int
  BY OrderFields
<1> QED
  BY <1>1, CmpOrder

\* avl_find_max returns an order of the tree with no key above its own.
LEMMA FindMax ==
  ASSUME TypeOK, NEW T \in SUBSET Refs, T # {}
  PROVE  /\ avl_find_max(T) \in T
         /\ \A y \in T : Cmp(y, avl_find_max(T)) <= 0
<1> DEFINE R == {p \in T \X T : Cmp(p[1], p[2]) < 0}
<1>1. \A x, y \in T : <<x, y>> \in R <=> Cmp(x, y) < 0
  OBVIOUS
<1> HIDE DEF R
<1>2. \A x \in T : <<x, x>> \notin R
  BY <1>1, OrderFields, CmpOrder
<1>3. \A x, y, z \in T : <<x, y>> \in R /\ <<y, z>> \in R => <<x, z>> \in R
  BY <1>1, CmpTransitive
<1>4. PICK m \in T : \A y \in T : <<m, y>> \notin R
  BY <1>2, <1>3, RefsFinite, MaximalElement
<1>5. \A y \in T : Cmp(y, m) <= 0
  BY <1>1, <1>4, CmpOrder
<1> QED
  BY <1>5 DEF avl_find_max

\* avl_find_min returns an order of the tree with no key below its own.
LEMMA FindMin ==
  ASSUME TypeOK, NEW T \in SUBSET Refs, T # {}
  PROVE  /\ avl_find_min(T) \in T
         /\ \A y \in T : Cmp(avl_find_min(T), y) <= 0
<1> DEFINE R == {p \in T \X T : Cmp(p[2], p[1]) < 0}
<1>1. \A x, y \in T : <<x, y>> \in R <=> Cmp(y, x) < 0
  OBVIOUS
<1> HIDE DEF R
<1>2. \A x \in T : <<x, x>> \notin R
  BY <1>1, OrderFields, CmpOrder
<1>3. \A x, y, z \in T : <<x, y>> \in R /\ <<y, z>> \in R => <<x, z>> \in R
  BY <1>1, CmpTransitive
<1>4. PICK m \in T : \A y \in T : <<m, y>> \notin R
  BY <1>2, <1>3, RefsFinite, MaximalElement
<1>5. \A y \in T : Cmp(m, y) <= 0
  BY <1>1, <1>4, CmpOrder
<1> QED
  BY <1>5 DEF avl_find_min

-----------------------------------------------------------------------------
(* What the actions do to the state.                                       *)

\* An order that was only marked or reduced keeps what identifies it.
SameTerms(o) ==
  /\ orders'[o].order_id = orders[o].order_id
  /\ orders'[o].symbol = orders[o].symbol
  /\ orders'[o].price = orders[o].price
  /\ orders'[o].quantity = orders[o].quantity
  /\ orders'[o].is_buy = orders[o].is_buy
  /\ orders'[o].timestamp = orders[o].timestamp

\* The fields of a new order.
LEMMA CreatedFields ==
  ASSUME NEW id, NEW symbol, NEW price, NEW quantity, NEW is_buy,
         NEW e, e = order_create(id, symbol, price, quantity, is_buy)
  PROVE  /\ e.price = price /\ e.quantity = quantity /\ e.remaining = quantity
         /\ e.is_buy = is_buy
BY DEF order_create

\* order_book_add_order appends one order and leaves the others alone.
LEMMA AddEffect ==
  ASSUME TypeOK,
         NEW id \in Ids, NEW symbol \in Symbols, NEW price \in Prices,
         NEW quantity \in Quantities, NEW is_buy \in BOOLEAN,
         order_book_add_order(id, symbol, price, quantity, is_buy)
  PROVE  LET new == Len(orders) + 1 IN
         /\ orders' \in Seq(Order)
         /\ Refs' = Refs \cup {new}
         /\ new \notin Refs
         /\ \A o \in Refs : orders'[o] = orders[o]
         /\ orders'[new] = order_create(id, symbol, price, quantity, is_buy)
<1> DEFINE e == order_create(id, symbol, price, quantity, is_buy)
<1>1. now \in Nat
  BY MaxTimeAssumption DEF TypeOK
<1>2. e \in Order
  BY <1>1, QuantitiesAssumption DEF order_create, Order
<1>3. orders' = Append(orders, e)
  BY DEF order_book_add_order
<1> HIDE DEF e
<1>4. orders \in Seq(Order)
  BY DEF TypeOK
<1>5. /\ orders' \in Seq(Order)
      /\ Len(orders') = Len(orders) + 1
      /\ \A i \in 1..Len(orders) : orders'[i] = orders[i]
      /\ orders'[Len(orders) + 1] = e
  BY <1>2, <1>3, <1>4, AppendProperties
<1>6. Refs = 1..Len(orders) /\ Len(orders) \in Nat
  BY RefsFinite
<1>7. Refs' = 1..Len(orders')
  BY <1>5, LenProperties DEF Refs
<1> QED
  BY <1>5, <1>6, <1>7 DEF e

\* order_book_cancel_order marks one order of the book.
LEMMA CancelEffect ==
  ASSUME TypeOK, NEW id \in Ids, NEW is_buy \in BOOLEAN,
         order_book_cancel_order(id, is_buy)
  PROVE  /\ orders' \in Seq(Order)
         /\ Refs' = Refs
         /\ \A o \in Refs : /\ SameTerms(o)
                            /\ orders'[o].remaining = orders[o].remaining
                            /\ orders[o].is_canceled => orders'[o].is_canceled
         /\ UNCHANGED <<buy_orders, sell_orders, trades, dropped, now>>
         /\ phase' = "open"
<1>1. PICK spine \in SUBSET Side(is_buy) :
        LET hits == {x \in spine : orders[x].order_id = id}
        IN /\ hits # {}
           /\ orders' = [orders EXCEPT ![avl_find_min(hits)].is_canceled = TRUE]
           /\ phase' = "open"
           /\ UNCHANGED <<buy_orders, sell_orders, trades, dropped, now>>
  BY Zenon DEF order_book_cancel_order
<1> DEFINE hits == {x \in spine : orders[x].order_id = id}
           o == avl_find_min(hits)
<1>2. hits \subseteq Refs
  BY DEF Side, TypeOK
<1>3. o \in Refs
  <2> HIDE DEF hits
  <2>1. hits # {}
    BY <1>1 DEF hits
  <2> QED BY <1>2, <2>1, FindMin
<1>4. orders' = [orders EXCEPT ![o] = [orders[o] EXCEPT !.is_canceled = TRUE]]
  BY <1>1
<1> HIDE DEF o
<1>5. orders \in Seq(Order) /\ Refs = 1..Len(orders)
  BY RefsFinite DEF TypeOK
<1>6. [orders[o] EXCEPT !.is_canceled = TRUE] \in Order
  BY <1>3, OrderFields DEF Order
<1>7. /\ orders' \in Seq(Order)
      /\ Len(orders') = Len(orders)
      /\ \A j \in Refs : orders'[j] = IF j = o
                           THEN [orders[o] EXCEPT !.is_canceled = TRUE]
                           ELSE orders[j]
  BY <1>3, <1>4, <1>5, <1>6, ExceptSeq
<1>8. Refs' = Refs
  BY <1>5, <1>7, LenProperties DEF Refs
<1>9. ASSUME NEW j \in Refs
      PROVE  /\ SameTerms(j)
             /\ orders'[j].remaining = orders[j].remaining
             /\ orders[j].is_canceled => orders'[j].is_canceled
  <2>1. orders[j] \in Order
    BY OrderFields
  <2>2. CASE j = o
    <3>1. orders'[j] = [orders[j] EXCEPT !.is_canceled = TRUE]
      BY <1>7, <2>2
    <3> QED
      BY <2>1, <3>1 DEF SameTerms, Order
  <2>3. CASE j # o
    BY <1>7, <2>3 DEF SameTerms
  <2> QED
    BY <2>2, <2>3
<1> QED
  BY <1>1, <1>7, <1>8, <1>9

\* An iteration of the matching loop trades q between the best buy b and the
\* best sell s, and takes them out of the book when nothing remains of them.
MatchEffectOf(b, s, q) ==
  /\ b \in buy_orders /\ s \in sell_orders /\ b # s
  /\ is_match_possible(b, s)
  /\ q = match_quantity(b, s)
  /\ q \in Int /\ q > 0 /\ q <= orders[b].remaining /\ q <= orders[s].remaining
  /\ \A x \in buy_orders : Cmp(x, b) <= 0
  /\ \A x \in sell_orders : Cmp(s, x) <= 0
  /\ orders' \in Seq(Order)
  /\ Refs' = Refs
  /\ \A o \in Refs :
       /\ SameTerms(o)
       /\ orders'[o].is_canceled = orders[o].is_canceled
       /\ orders'[o].remaining = IF o \in {b, s} THEN orders[o].remaining - q
                                 ELSE orders[o].remaining
  /\ trades' = Append(trades, [buy |-> b, sell |-> s,
                               price |-> orders[s].price, quantity |-> q])
  /\ buy_orders' = IF orders[b].remaining = q THEN buy_orders \ {b} ELSE buy_orders
  /\ sell_orders' = IF orders[s].remaining = q THEN sell_orders \ {s} ELSE sell_orders
  /\ dropped' = dropped
  /\ phase' = phase /\ phase = "matching"
  /\ now' = now

\* With unique keys, deleting by the key of an order deletes that order only.
LEMMA DeleteEffect ==
  ASSUME TypeOK, KeysUnique, NEW is_buy \in BOOLEAN, NEW o \in Side(is_buy)
  PROVE  avl_delete_order(Side(is_buy), o) = Side(is_buy) \ {o}
<1>1. Side(is_buy) \subseteq Refs
  BY DEF Side, TypeOK
<1>2. Cmp(o, o) = 0
  BY <1>1, CmpOrder
<1>3. \A x \in Side(is_buy) : Cmp(x, o) = 0 => x = o
  BY DEF KeysUnique
<1> QED
  BY <1>2, <1>3 DEF avl_delete_order

\* process_match reduces the best buy and the best sell by the same positive
\* quantity, records the trade, and deletes exactly the orders it filled.
LEMMA MatchEffect ==
  ASSUME TypeOK, KeysUnique, OrdersAccounted, MatchStep
  PROVE  \E b \in buy_orders, s \in sell_orders, q \in Int : MatchEffectOf(b, s, q)
<1> DEFINE b == avl_find_max(buy_orders)
           s == avl_find_min(sell_orders)
           q == match_quantity(b, s)
<1>1. /\ b \in buy_orders /\ \A x \in buy_orders : Cmp(x, b) <= 0
      /\ s \in sell_orders /\ \A x \in sell_orders : Cmp(s, x) <= 0
  BY FindMax, FindMin DEF MatchStep, Matchable, TypeOK
<1>2. is_match_possible(b, s) /\ process_match(b, s)
      /\ UNCHANGED <<dropped, phase, now>> /\ phase = "matching"
  BY DEF MatchStep, Matchable
<1> HIDE DEF b, s
<1>3. b \in Refs /\ s \in Refs /\ b # s
  BY <1>1 DEF TypeOK, OrdersAccounted, Side
<1>4. /\ orders[b] \in Order /\ orders[s] \in Order
      /\ orders[b].remaining \in Int /\ orders[s].remaining \in Int
  BY <1>3, OrderFields
<1>5. /\ q \in Int /\ q > 0
      /\ q <= orders[b].remaining /\ q <= orders[s].remaining
  BY <1>2, <1>4 DEF match_quantity, is_match_possible
<1> DEFINE nb == [orders[b] EXCEPT !.remaining = @ - q]
           ns == [orders[s] EXCEPT !.remaining = @ - q]
<1>6. Reduced(orders[b], q) = nb /\ Reduced(orders[s], q) = ns
  BY <1>4, <1>5 DEF Reduced
<1> HIDE DEF q
<1>7. nb \in Order /\ ns \in Order
  BY <1>4, <1>5 DEF Order
<1>8. orders' = [orders EXCEPT ![b] = nb, ![s] = ns]
  BY <1>2, <1>3, <1>6 DEF process_match, q
<1>9. orders \in Seq(Order) /\ Refs = 1..Len(orders)
  BY RefsFinite DEF TypeOK
<1>10. /\ orders' \in Seq(Order)
       /\ Len(orders') = Len(orders)
       /\ \A j \in Refs : orders'[j] = IF j = s THEN ns
                                       ELSE IF j = b THEN nb ELSE orders[j]
  <2> HIDE DEF nb, ns
  <2> DEFINE os == [orders EXCEPT ![b] = nb]
  <2>1. /\ os \in Seq(Order) /\ Len(os) = Len(orders)
        /\ \A j \in Refs : os[j] = IF j = b THEN nb ELSE orders[j]
    BY <1>3, <1>7, <1>9, ExceptSeq
  <2>2. orders' = [os EXCEPT ![s] = ns]
    BY <1>8
  <2> HIDE DEF os
  <2> QED
    BY <1>3, <1>7, <1>9, <2>1, <2>2, ExceptSeq
<1>11. Refs' = Refs
  BY <1>9, <1>10, LenProperties DEF Refs
<1>12. ASSUME NEW o \in Refs
       PROVE  /\ SameTerms(o)
              /\ orders'[o].is_canceled = orders[o].is_canceled
              /\ orders'[o].remaining = IF o \in {b, s} THEN orders[o].remaining - q
                                        ELSE orders[o].remaining
  <2>1. CASE o = s
    <3>1. orders'[o] = [orders[o] EXCEPT !.remaining = orders[o].remaining - q]
      BY <1>10, <2>1
    <3> QED BY <1>4, <2>1, <3>1 DEF SameTerms, Order
  <2>2. CASE o = b
    <3>1. orders'[o] = [orders[o] EXCEPT !.remaining = orders[o].remaining - q]
      BY <1>3, <1>10, <2>2
    <3> QED BY <1>4, <2>2, <3>1 DEF SameTerms, Order
  <2>3. CASE o \notin {b, s}
    BY <1>10, <2>3 DEF SameTerms
  <2> QED
    BY <2>1, <2>2, <2>3
<1>13. /\ buy_orders' = IF orders[b].remaining = q THEN buy_orders \ {b}
                        ELSE buy_orders
       /\ sell_orders' = IF orders[s].remaining = q THEN sell_orders \ {s}
                         ELSE sell_orders
  <2>1. /\ avl_delete_order(buy_orders, b) = buy_orders \ {b}
        /\ avl_delete_order(sell_orders, s) = sell_orders \ {s}
    BY <1>1, DeleteEffect DEF Side
  <2>2. /\ buy_orders' = IF orders'[b].remaining = 0
                         THEN avl_delete_order(buy_orders, b) ELSE buy_orders
        /\ sell_orders' = IF orders'[s].remaining = 0
                          THEN avl_delete_order(sell_orders, s) ELSE sell_orders
    BY <1>2 DEF process_match
  <2>3. /\ orders'[b].remaining = 0 <=> orders[b].remaining = q
        /\ orders'[s].remaining = 0 <=> orders[s].remaining = q
    BY <1>3, <1>4, <1>5, <1>12
  <2> QED
    BY <2>1, <2>2, <2>3
<1>14. trades' = Append(trades, [buy |-> b, sell |-> s,
                                 price |-> orders[s].price, quantity |-> q])
  BY <1>2 DEF process_match, q
<1> QED
  <2>1. MatchEffectOf(b, s, q)
    BY <1>1, <1>2, <1>3, <1>5, <1>10, <1>11, <1>12, <1>13, <1>14
       DEF MatchEffectOf, q
  <2> QED
    BY <1>1, <1>5, <2>1

-----------------------------------------------------------------------------
(* The invariant holds initially and every action preserves it.            *)

\* Trades that name allocated orders still do when more are allocated.
LEMMA TradesKeepType ==
  ASSUME trades \in Seq(Trade), Refs \subseteq Refs'
  PROVE  trades \in Seq(Trade')
<1>1. Trade \subseteq Trade'
  BY DEF Trade
<1> QED
  BY <1>1, SeqMonotonic

\* The fields of a recorded trade have their types.
LEMMA TradeFields ==
  ASSUME TypeOK, NEW i \in DOMAIN trades
  PROVE  /\ trades[i].buy \in Refs /\ trades[i].sell \in Refs
         /\ trades[i].price \in Int /\ trades[i].quantity \in Int
<1>1. trades[i] \in Trade
  BY DEF TypeOK
<1> QED
  BY <1>1, PricesAssumption DEF Trade

\* The empty book satisfies the inductive invariant.
LEMMA InitIInv == Init => IInv
<1> SUFFICES ASSUME Init PROVE IInv
  OBVIOUS
<1>1. Refs = {}
  BY DEF Init, Refs
<1>2. TypeOK
  BY <1>1, EmptySeq, MaxTimeAssumption DEF Init, TypeOK
<1> QED
  BY <1>1, <1>2 DEF Init, IInv, KeysUnique, Side, OrdersAccounted,
     RemainingBounded, TradesWithinLimits, MatchedIsStuck

\* order_book_add_order keeps the inductive invariant: the duplicate check of
\* insert_node is what keeps the keys unique.
LEMMA AddPreserves ==
  ASSUME IInv,
         NEW id \in Ids, NEW symbol \in Symbols, NEW price \in Prices,
         NEW quantity \in Quantities, NEW is_buy \in BOOLEAN,
         order_book_add_order(id, symbol, price, quantity, is_buy)
  PROVE  IInv'
<1> DEFINE new == Len(orders) + 1
           dup == HasKey(Side(is_buy), price, now)
<1>1. /\ orders' \in Seq(Order)
      /\ Refs' = Refs \cup {new}
      /\ new \notin Refs
      /\ \A o \in Refs : orders'[o] = orders[o]
      /\ orders'[new] = order_create(id, symbol, price, quantity, is_buy)
  BY AddEffect DEF IInv
<1>2. /\ buy_orders' = IF is_buy /\ ~dup THEN buy_orders \cup {new} ELSE buy_orders
      /\ sell_orders' = IF ~is_buy /\ ~dup THEN sell_orders \cup {new} ELSE sell_orders
      /\ dropped' = IF dup THEN dropped \cup {new} ELSE dropped
      /\ phase' = "open" /\ trades' = trades /\ now' = now
  BY DEF order_book_add_order
<1>3. TypeOK
  BY DEF IInv
<1>4. /\ price \in Int /\ quantity \in Int /\ now \in Nat
  BY <1>3, PricesAssumption, QuantitiesAssumption, MaxTimeAssumption DEF TypeOK
<1>5. /\ orders'[new].price = price /\ orders'[new].timestamp = now
      /\ orders'[new].quantity = quantity /\ orders'[new].remaining = quantity
      /\ orders'[new].is_buy = is_buy
  BY <1>1 DEF order_create
<1>6. ~dup => \A x \in Side(is_buy) : ~(orders[x].price = price
                                        /\ orders[x].timestamp = now)
  <2>1. Side(is_buy) \subseteq Refs
    BY <1>3 DEF Side, TypeOK
  <2>2. ASSUME NEW x \in Side(is_buy),
               orders[x].price = price, orders[x].timestamp = now
        PROVE  dup
    <3>1. compare_nodes(price, now, orders[x].price, orders[x].timestamp) = 0
      BY <1>4, <2>2, CompareNodes
    <3> QED BY <3>1 DEF HasKey
  <2> QED BY <2>2
<1> HIDE DEF new, dup
<1>7. TypeOK'
  <2>1. trades' \in Seq(Trade')
    BY <1>1, <1>2, <1>3, TradesKeepType DEF TypeOK
  <2> QED
    BY <1>1, <1>2, <1>3, <2>1 DEF TypeOK
<1>8. KeysUnique'
  <2> SUFFICES ASSUME NEW side \in BOOLEAN, NEW x \in Side(side)',
                      NEW y \in Side(side)', Cmp(x, y)' = 0
               PROVE  x = y
    BY DEF KeysUnique
  <2>1. Side(side)' = IF side = is_buy /\ ~dup THEN Side(side) \cup {new}
                                               ELSE Side(side)
    BY <1>2 DEF Side
  <2>2. Side(side) \subseteq Refs
    BY <1>3 DEF Side, TypeOK
  <2>3. x \in Refs' /\ y \in Refs'
    BY <1>1, <2>1, <2>2
  <2>4. /\ orders'[x].price = orders'[y].price
        /\ orders'[x].timestamp = orders'[y].timestamp
    <3>1. /\ orders'[x].price \in Int /\ orders'[x].timestamp \in Int
          /\ orders'[y].price \in Int /\ orders'[y].timestamp \in Int
      BY <1>1, <1>3, <1>4, <1>5, <2>3, OrderFields
    <3> QED BY <3>1, CompareNodes DEF Cmp
  <2>5. CASE x \in Side(side) /\ y \in Side(side)
    <3>1. Cmp(x, y) = 0
      BY <1>1, <1>3, <2>2, <2>4, <2>5, CmpOrder
    <3> QED BY <2>5, <3>1 DEF IInv, KeysUnique
  <2>6. CASE x = new /\ y \in Side(side)
    BY <1>1, <1>5, <1>6, <2>1, <2>2, <2>4, <2>6
  <2>7. CASE y = new /\ x \in Side(side)
    BY <1>1, <1>5, <1>6, <2>1, <2>2, <2>4, <2>7
  <2> QED
    BY <2>1, <2>5, <2>6, <2>7
<1>9. OrdersAccounted'
  <2> SUFFICES ASSUME NEW o \in Refs'
               PROVE  /\ o \in Side(orders[o].is_buy)' <=>
                           (~Filled(o)' /\ o \notin dropped')
                      /\ o \notin Side(~orders[o].is_buy)'
                      /\ o \in dropped' => orders'[o].remaining = orders'[o].quantity
    BY DEF OrdersAccounted
  <2>1. CASE o = new
    <3>1. ~Filled(o)'
      BY <1>4, <1>5, <2>1 DEF Filled
    <3>2. new \notin buy_orders /\ new \notin sell_orders /\ new \notin dropped
      BY <1>1, <1>3 DEF TypeOK
    <3> QED BY <1>2, <1>5, <2>1, <3>1, <3>2 DEF Side
  <2>2. CASE o \in Refs
    <3>1. o # new /\ orders'[o] = orders[o]
      BY <1>1, <2>2
    <3>2. /\ o \in Side(orders[o].is_buy) <=> (~Filled(o) /\ o \notin dropped)
          /\ o \notin Side(~orders[o].is_buy)
          /\ o \in dropped => orders[o].remaining = orders[o].quantity
      BY <2>2 DEF IInv, OrdersAccounted
    <3> QED BY <1>2, <3>1, <3>2 DEF Side, Filled
  <2> QED
    BY <1>1, <2>1, <2>2
<1>10. RemainingBounded'
  BY <1>1, <1>4, <1>5 DEF IInv, RemainingBounded
<1>11. TradesWithinLimits'
  <2>1. \A i \in DOMAIN trades : /\ orders'[trades[i].buy] = orders[trades[i].buy]
                                 /\ orders'[trades[i].sell] = orders[trades[i].sell]
    BY <1>1, <1>3, TradeFields
  <2> QED
    BY <1>2, <2>1 DEF IInv, TradesWithinLimits
<1>12. MatchedIsStuck'
  BY <1>2 DEF MatchedIsStuck
<1> QED
  BY <1>7, <1>8, <1>9, <1>10, <1>11, <1>12 DEF IInv

\* When the orders keep their terms, Cmp compares them as before.
LEMMA CmpUnchanged ==
  ASSUME TypeOK, NEW x \in Refs, NEW y \in Refs, SameTerms(x), SameTerms(y)
  PROVE  Cmp(x, y)' = Cmp(x, y)
BY DEF Cmp, SameTerms

\* order_book_cancel_order keeps the inductive invariant: it changes no key, no
\* quantity and no tree.
LEMMA CancelPreserves ==
  ASSUME IInv, NEW id \in Ids, NEW is_buy \in BOOLEAN,
         order_book_cancel_order(id, is_buy)
  PROVE  IInv'
<1>1. /\ orders' \in Seq(Order)
      /\ Refs' = Refs
      /\ \A o \in Refs : SameTerms(o) /\ orders'[o].remaining = orders[o].remaining
      /\ UNCHANGED <<buy_orders, sell_orders, trades, dropped, now>>
      /\ phase' = "open"
  BY CancelEffect DEF IInv
<1>2. TypeOK
  BY DEF IInv
<1>3. TypeOK'
  <2>1. trades' \in Seq(Trade')
    BY <1>1, <1>2, TradesKeepType DEF TypeOK
  <2> QED BY <1>1, <1>2, <2>1 DEF TypeOK
<1>4. KeysUnique'
  <2>1. \A x, y \in Refs : Cmp(x, y)' = Cmp(x, y)
    BY <1>1, <1>2, CmpUnchanged
  <2>2. \A side \in BOOLEAN : Side(side)' = Side(side) /\ Side(side) \subseteq Refs
    BY <1>1, <1>2 DEF Side, TypeOK
  <2> QED BY <2>1, <2>2 DEF IInv, KeysUnique
<1>5. OrdersAccounted'
  BY <1>1 DEF IInv, OrdersAccounted, Side, Filled, SameTerms
<1>6. RemainingBounded'
  BY <1>1 DEF IInv, RemainingBounded, SameTerms
<1>7. TradesWithinLimits'
  BY <1>1, <1>2, TradeFields DEF IInv, TradesWithinLimits, SameTerms
<1>8. MatchedIsStuck'
  BY <1>1 DEF MatchedIsStuck
<1> QED
  BY <1>3, <1>4, <1>5, <1>6, <1>7, <1>8 DEF IInv

\* An iteration of the matching loop keeps the inductive invariant.
LEMMA MatchPreserves ==
  ASSUME IInv, MatchStep
  PROVE  IInv'
<1>1. PICK b \in buy_orders, s \in sell_orders, q \in Int : MatchEffectOf(b, s, q)
  BY MatchEffect DEF IInv
<1> USE DEF MatchEffectOf
<1>2. TypeOK
  BY DEF IInv
<1>3. b \in Refs /\ s \in Refs
  BY <1>1, <1>2 DEF TypeOK
<1>4. /\ orders[b].is_buy = TRUE /\ orders[s].is_buy = FALSE
      /\ orders[b].price \in Int /\ orders[s].price \in Prices
      /\ orders[b].quantity \in Int /\ orders[s].quantity \in Int
      /\ orders[b].remaining \in Int /\ orders[s].remaining \in Int
  BY <1>1, <1>3, <1>2, OrderFields DEF IInv, OrdersAccounted, Side
<1>5. /\ orders[b].quantity > 0 /\ orders[b].remaining <= orders[b].quantity
      /\ orders[s].quantity > 0 /\ orders[s].remaining <= orders[s].quantity
  BY <1>1, <1>3, <1>4 DEF IInv, RemainingBounded
<1> DEFINE t == [buy |-> b, sell |-> s, price |-> orders[s].price, quantity |-> q]
<1>6. t \in Trade
  BY <1>3, <1>4 DEF Trade
<1>7. /\ trades' \in Seq(Trade)
      /\ Len(trades') = Len(trades) + 1
      /\ \A i \in DOMAIN trades : trades'[i] = trades[i]
      /\ trades'[Len(trades) + 1] = t
      /\ DOMAIN trades' = DOMAIN trades \cup {Len(trades) + 1}
  <2>1. trades \in Seq(Trade)
    BY <1>2 DEF TypeOK
  <2>2. trades' = Append(trades, t)
    BY <1>1
  <2> HIDE DEF t
  <2>3. /\ trades' \in Seq(Trade)
        /\ Len(trades') = Len(trades) + 1
        /\ \A i \in 1..Len(trades) : trades'[i] = trades[i]
        /\ trades'[Len(trades) + 1] = t
    BY <1>6, <2>1, <2>2, AppendProperties
  <2>4. Len(trades) \in Nat /\ DOMAIN trades = 1..Len(trades)
        /\ DOMAIN trades' = 1..Len(trades')
    BY <2>1, <2>3, LenProperties
  <2> QED BY <2>3, <2>4
<1>8. TypeOK'
  <2>1. Trade' = Trade
    BY <1>1 DEF Trade
  <2> QED BY <1>1, <1>2, <1>7, <2>1 DEF TypeOK
<1>9. KeysUnique'
  <2>1. \A x, y \in Refs : Cmp(x, y)' = Cmp(x, y)
    BY <1>1, <1>2, CmpUnchanged
  <2>2. \A side \in BOOLEAN : Side(side)' \subseteq Side(side) /\ Side(side) \subseteq Refs
    BY <1>1, <1>2 DEF Side, TypeOK
  <2> QED BY <2>1, <2>2 DEF IInv, KeysUnique
<1>10. OrdersAccounted'
  <2> SUFFICES ASSUME NEW o \in Refs
               PROVE  /\ o \in Side(orders[o].is_buy)' <=>
                           (~Filled(o)' /\ o \notin dropped')
                      /\ o \notin Side(~orders[o].is_buy)'
                      /\ o \in dropped' => orders'[o].remaining = orders'[o].quantity
    BY <1>1 DEF OrdersAccounted
  <2>1. /\ o \in Side(orders[o].is_buy) <=> (~Filled(o) /\ o \notin dropped)
        /\ o \notin Side(~orders[o].is_buy)
        /\ o \in dropped => orders[o].remaining = orders[o].quantity
    BY DEF IInv, OrdersAccounted
  <2>2. orders'[o].is_buy = orders[o].is_buy /\ orders'[o].quantity = orders[o].quantity
    BY <1>1 DEF SameTerms
  <2>3. CASE o \notin {b, s}
    <3>1. orders'[o].remaining = orders[o].remaining
      BY <1>1, <2>3
    <3> QED BY <1>1, <2>1, <2>2, <2>3, <3>1 DEF Side, Filled
  <2>4. CASE o = b
    <3>1. orders'[o].remaining = orders[o].remaining - q /\ o # s
      BY <1>1, <2>4
    <3>2. Filled(o)' <=> orders[o].remaining = q
      BY <1>1, <1>4, <1>5, <2>2, <2>4, <3>1 DEF Filled
    <3>3. o \notin dropped /\ o \notin sell_orders
      BY <1>1, <1>4, <2>1, <2>4 DEF Side
    <3>4. /\ orders'[o].is_buy = TRUE /\ dropped' = dropped
          /\ o \in buy_orders' <=> orders[o].remaining # q
          /\ o \notin sell_orders'
      BY <1>1, <1>4, <2>2, <2>4, <3>3
    <3> QED BY <3>2, <3>3, <3>4 DEF Side
  <2>5. CASE o = s
    <3>1. orders'[o].remaining = orders[o].remaining - q /\ o # b
      BY <1>1, <2>5
    <3>2. Filled(o)' <=> orders[o].remaining = q
      BY <1>1, <1>4, <1>5, <2>2, <2>5, <3>1 DEF Filled
    <3>3. o \notin dropped /\ o \notin buy_orders
      BY <1>1, <1>4, <2>1, <2>5 DEF Side
    <3>4. /\ orders'[o].is_buy = FALSE /\ dropped' = dropped
          /\ o \in sell_orders' <=> orders[o].remaining # q
          /\ o \notin buy_orders'
      BY <1>1, <1>4, <2>2, <2>5, <3>3
    <3> QED BY <3>2, <3>3, <3>4 DEF Side
  <2> QED
    BY <2>3, <2>4, <2>5
<1>11. RemainingBounded'
  <2> SUFFICES ASSUME NEW o \in Refs
               PROVE  IF orders'[o].quantity > 0
                      THEN orders'[o].remaining \in 0..orders'[o].quantity
                      ELSE orders'[o].remaining = orders'[o].quantity
    BY <1>1 DEF RemainingBounded
  <2>1. orders'[o].quantity = orders[o].quantity
    BY <1>1 DEF SameTerms
  <2>2. CASE o \notin {b, s}
    BY <1>1, <2>1, <2>2 DEF IInv, RemainingBounded
  <2>3. CASE o \in {b, s}
    <3>1. /\ orders'[o].remaining = orders[o].remaining - q
          /\ q \in Int /\ q > 0 /\ q <= orders[o].remaining
          /\ orders[o].quantity > 0 /\ orders[o].remaining <= orders[o].quantity
          /\ orders[o].quantity \in Int /\ orders[o].remaining \in Int
      BY <1>1, <1>4, <1>5, <2>3
    <3> QED BY <2>1, <3>1
  <2> QED
    BY <2>2, <2>3
<1>12. TradesWithinLimits'
  <2> SUFFICES ASSUME NEW i \in DOMAIN trades'
               PROVE  /\ orders'[trades'[i].buy].is_buy /\ ~orders'[trades'[i].sell].is_buy
                      /\ orders'[trades'[i].buy].symbol = orders'[trades'[i].sell].symbol
                      /\ orders'[trades'[i].sell].price = trades'[i].price
                      /\ trades'[i].price <= orders'[trades'[i].buy].price
                      /\ trades'[i].quantity > 0
                      /\ trades'[i].quantity <= orders'[trades'[i].buy].quantity
                                                - orders'[trades'[i].buy].remaining
                      /\ trades'[i].quantity <= orders'[trades'[i].sell].quantity
                                                - orders'[trades'[i].sell].remaining
    BY DEF TradesWithinLimits
  <2>1. CASE i \in DOMAIN trades
    <3> DEFINE x == trades[i].buy
               y == trades[i].sell
    <3>1. /\ x \in Refs /\ y \in Refs /\ trades[i].quantity \in Int
      BY <1>2, <2>1, TradeFields
    <3>2. /\ orders[x].is_buy /\ ~orders[y].is_buy
          /\ orders[x].symbol = orders[y].symbol
          /\ orders[y].price = trades[i].price /\ trades[i].price <= orders[x].price
          /\ trades[i].quantity > 0
          /\ trades[i].quantity <= orders[x].quantity - orders[x].remaining
          /\ trades[i].quantity <= orders[y].quantity - orders[y].remaining
      BY <2>1 DEF IInv, TradesWithinLimits
    <3> HIDE DEF x, y
    <3>3. SameTerms(x) /\ SameTerms(y)
      BY <1>1, <3>1
    <3>4. /\ orders[x].remaining \in Int /\ orders[x].quantity \in Int
          /\ orders[y].remaining \in Int /\ orders[y].quantity \in Int
      BY <1>2, <3>1, OrderFields
    <3>5. /\ orders'[x].remaining \in Int /\ orders'[x].remaining <= orders[x].remaining
          /\ orders'[y].remaining \in Int /\ orders'[y].remaining <= orders[y].remaining
      <4>1. q \in Int /\ q > 0
        BY <1>1
      <4>2. ASSUME NEW o \in {x, y}
            PROVE  \/ orders'[o].remaining = orders[o].remaining
                   \/ orders'[o].remaining = orders[o].remaining - q
        BY <1>1, <3>1
      <4> QED
        BY <3>4, <4>1, <4>2
    <3>6. trades'[i] = trades[i] /\ trades'[i].buy = x /\ trades'[i].sell = y
      BY <1>7, <2>1 DEF x, y
    <3>7. /\ trades[i].quantity <= orders[x].quantity - orders'[x].remaining
          /\ trades[i].quantity <= orders[y].quantity - orders'[y].remaining
      BY <3>1, <3>2, <3>4, <3>5
    <3> QED
      BY <3>2, <3>3, <3>6, <3>7 DEF SameTerms
  <2>2. CASE i = Len(trades) + 1
    <3>1. trades'[i].buy = b /\ trades'[i].sell = s
          /\ trades'[i].price = orders[s].price /\ trades'[i].quantity = q
      BY <1>7, <2>2
    <3>2. SameTerms(b) /\ SameTerms(s)
      BY <1>1, <1>3
    <3>3. /\ orders[b].symbol = orders[s].symbol
          /\ orders[s].price <= orders[b].price
      BY <1>1, <1>4, PricesAssumption DEF is_match_possible
    <3>4. /\ q <= orders[b].quantity - orders'[b].remaining
          /\ q <= orders[s].quantity - orders'[s].remaining
      <4>1. /\ orders'[b].remaining = orders[b].remaining - q
            /\ orders'[s].remaining = orders[s].remaining - q
        BY <1>1, <1>3
      <4>2. q \in Int /\ q > 0
        BY <1>1
      <4> QED
        BY <1>4, <1>5, <4>1, <4>2
    <3>5. /\ orders'[b].is_buy /\ ~orders'[s].is_buy
          /\ orders'[b].symbol = orders'[s].symbol
          /\ orders'[s].price = orders[s].price
          /\ orders[s].price <= orders'[b].price
      BY <1>1, <1>4, <3>2, <3>3 DEF SameTerms
    <3>6. /\ q > 0
          /\ q <= orders'[b].quantity - orders'[b].remaining
          /\ q <= orders'[s].quantity - orders'[s].remaining
      BY <1>1, <3>2, <3>4 DEF SameTerms
    <3> QED
      BY <3>1, <3>5, <3>6
  <2> QED
    BY <1>7, <2>1, <2>2
<1>13. MatchedIsStuck'
  BY <1>1 DEF MatchedIsStuck
<1> QED
  BY <1>8, <1>9, <1>10, <1>11, <1>12, <1>13 DEF IInv

\* Every step of the book keeps the inductive invariant.
LEMMA NextIInv == IInv /\ [Next]_vars => IInv'
<1> SUFFICES ASSUME IInv, [Next]_vars PROVE IInv'
  OBVIOUS
<1>1. CASE AddSome
  BY <1>1, AddPreserves DEF AddSome
<1>2. CASE CancelSome
  BY <1>2, CancelPreserves DEF CancelSome
<1>3. CASE MatchStep
  BY <1>3, MatchPreserves
<1> DEFINE Quiet == UNCHANGED <<orders, buy_orders, sell_orders, trades, dropped>>
<1>4. ASSUME Quiet, TypeOK', MatchedIsStuck'
      PROVE  IInv'
  <2>1. KeysUnique'
    BY <1>4 DEF IInv, KeysUnique, Cmp, Side
  <2>2. OrdersAccounted'
    BY <1>4 DEF IInv, OrdersAccounted, Filled, Refs, Side
  <2>3. RemainingBounded' /\ TradesWithinLimits'
    BY <1>4 DEF IInv, RemainingBounded, TradesWithinLimits, Refs
  <2> QED
    BY <1>4, <2>1, <2>2, <2>3 DEF IInv
<1>5. ASSUME Quiet
      PROVE  /\ Refs' = Refs /\ Trade' = Trade
             /\ Matchable' <=> Matchable
  <2>1. Refs' = Refs /\ Trade' = Trade
    BY <1>5 DEF Refs, Trade
  <2>2. Matchable' <=> Matchable
    BY <1>5 DEF Matchable, is_match_possible, avl_find_max, avl_find_min, Cmp
  <2> QED
    BY <2>1, <2>2
<1>6. CASE order_book_match_orders
  <2>1. Quiet
    BY <1>6 DEF order_book_match_orders
  <2>2. TypeOK'
    BY <1>5, <1>6, <2>1 DEF IInv, TypeOK, order_book_match_orders
  <2>3. MatchedIsStuck'
    BY <1>5, <1>6, <2>1 DEF MatchedIsStuck, order_book_match_orders
  <2> QED BY <1>4, <2>1, <2>2, <2>3
<1>7. CASE MatchReturn
  <2>1. Quiet
    BY <1>7 DEF MatchReturn
  <2>2. TypeOK'
    BY <1>5, <1>7, <2>1 DEF IInv, TypeOK, MatchReturn
  <2>3. MatchedIsStuck'
    BY <1>5, <1>7, <2>1 DEF MatchedIsStuck, MatchReturn
  <2> QED BY <1>4, <2>1, <2>2, <2>3
<1>8. CASE Tick
  <2>1. Quiet /\ phase' = phase
    BY <1>8 DEF Tick
  <2>2. TypeOK'
    BY <1>5, <1>8, <2>1, MaxTimeAssumption DEF IInv, TypeOK, Tick
  <2>3. MatchedIsStuck'
    BY <1>5, <2>1 DEF IInv, MatchedIsStuck
  <2> QED BY <1>4, <2>1, <2>2, <2>3
<1>9. CASE UNCHANGED vars
  <2>1. Quiet /\ phase' = phase /\ now' = now
    BY <1>9 DEF vars
  <2>2. TypeOK'
    BY <1>5, <2>1 DEF IInv, TypeOK
  <2>3. MatchedIsStuck'
    BY <1>5, <2>1 DEF IInv, MatchedIsStuck
  <2> QED BY <1>4, <2>1, <2>2, <2>3
<1> QED
  BY <1>1, <1>2, <1>3, <1>6, <1>7, <1>8, <1>9 DEF Next

-----------------------------------------------------------------------------
(* Theorems.                                                               *)

\* The inductive invariant holds in every behaviour of the book.
THEOREM BookInvariant == Spec => []IInv
<1> QED
  BY InitIInv, NextIInv, PTL DEF Spec

\* Every variable of the book keeps its type, whatever orders come in.
THEOREM TypeCorrect == Spec => []TypeOK
<1>1. IInv => TypeOK
  BY DEF IInv
<1> QED
  BY <1>1, BookInvariant, PTL

\* A key names one order of its side, for every sequence of calls: deleting a
\* filled order by its key never takes another order with it.
THEOREM KeysUniqueAlways == Spec => []KeysUnique
<1>1. IInv => KeysUnique
  BY DEF IInv
<1> QED
  BY <1>1, BookInvariant, PTL

\* Each order accepted rests on its own side, or is filled, or was dropped as a
\* duplicate: the engine loses no other order.
THEOREM AllOrdersAccounted == Spec => []OrdersAccounted
<1>1. IInv => OrdersAccounted
  BY DEF IInv
<1> QED
  BY <1>1, BookInvariant, PTL

\* Every trade is within the limits of both its orders.
THEOREM TradesAlwaysWithinLimits == Spec => []TradesWithinLimits
<1>1. IInv => TradesWithinLimits
  BY DEF IInv
<1> QED
  BY <1>1, BookInvariant, PTL

\* When matching has returned and the heads of the two sides are live and of
\* one symbol, no bid reaches an ask: since the best pair does not match, and the
\* best pair bounds every other pair, none does.
THEOREM MatchedAlwaysUncrossed == Spec => []MatchedIsUncrossed
<1>1. IInv => MatchedIsUncrossed
  <2> SUFFICES ASSUME IInv, phase = "matched",
                      NEW b \in buy_orders, NEW s \in sell_orders,
                      Live(avl_find_max(buy_orders)), Live(avl_find_min(sell_orders)),
                      orders[avl_find_max(buy_orders)].symbol
                        = orders[avl_find_min(sell_orders)].symbol
               PROVE  orders[b].price < orders[s].price
    BY DEF MatchedIsUncrossed
  <2>1. TypeOK /\ ~Matchable
    BY DEF IInv, MatchedIsStuck
  <2> DEFINE bb == avl_find_max(buy_orders)
             ss == avl_find_min(sell_orders)
  <2>2. /\ bb \in buy_orders /\ Cmp(b, bb) <= 0
        /\ ss \in sell_orders /\ Cmp(ss, s) <= 0
    BY <2>1, FindMax, FindMin DEF TypeOK
  <2>3. /\ ~is_match_possible(bb, ss)
        /\ Live(bb) /\ Live(ss) /\ orders[bb].symbol = orders[ss].symbol
    BY <2>1 DEF Matchable
  <2> HIDE DEF bb, ss
  <2>4. b \in Refs /\ bb \in Refs /\ s \in Refs /\ ss \in Refs
    BY <2>1, <2>2 DEF TypeOK
  <2>5. /\ orders[b].price \in Int /\ orders[bb].price \in Int
        /\ orders[s].price \in Int /\ orders[ss].price \in Int
    BY <2>1, <2>4, OrderFields
  <2>6. orders[bb].price < orders[ss].price
    BY <2>2, <2>3, <2>5 DEF is_match_possible, Live
  <2>7. orders[b].price <= orders[bb].price /\ orders[ss].price <= orders[s].price
    BY <2>1, <2>2, <2>4, <2>5, CmpOrder
  <2> QED
    BY <2>5, <2>6, <2>7
<1> QED
  BY <1>1, BookInvariant, PTL

\* Cancellation is final: a canceled order stays canceled and never trades.
THEOREM CanceledNeverTradesAlways == Spec => CanceledNeverTrades
<1> DEFINE A == \A o \in Refs : orders[o].is_canceled =>
       orders'[o].is_canceled /\ orders'[o].remaining = orders[o].remaining
<1>1. IInv /\ [Next]_vars => A
  <2> SUFFICES ASSUME IInv, [Next]_vars, NEW o \in Refs, orders[o].is_canceled
               PROVE  /\ orders'[o].is_canceled
                      /\ orders'[o].remaining = orders[o].remaining
    OBVIOUS
  <2>1. CASE AddSome
    BY <2>1, AddEffect DEF AddSome, IInv
  <2>2. CASE CancelSome
    BY <2>2, CancelEffect DEF CancelSome, IInv
  <2>3. CASE MatchStep
    <3>1. PICK b \in buy_orders, s \in sell_orders, q \in Int : MatchEffectOf(b, s, q)
      BY <2>3, MatchEffect DEF IInv
    <3>2. o \notin {b, s}
      BY <3>1 DEF MatchEffectOf, is_match_possible
    <3> QED BY <3>1, <3>2 DEF MatchEffectOf
  <2>4. CASE orders' = orders
    BY <2>4
  <2> QED
    BY <2>1, <2>2, <2>3, <2>4
       DEF Next, order_book_match_orders, MatchReturn, Tick, vars
<1> QED
  BY <1>1, BookInvariant, PTL DEF Spec, CanceledNeverTrades

\* Price priority on both sides and time priority among sells, at every trade.
THEOREM BestPricesTradeAlways == Spec => BestPricesTrade
<1> DEFINE A ==
      Trading =>
        /\ \A x \in buy_orders : orders[x].price <= orders[NewTrade.buy].price
        /\ \A x \in sell_orders :
             \/ orders[x].price > orders[NewTrade.sell].price
             \/ /\ orders[x].price = orders[NewTrade.sell].price
                /\ orders[x].timestamp >= orders[NewTrade.sell].timestamp
<1>1. IInv /\ [Next]_vars => A
  <2> SUFFICES ASSUME IInv, [Next]_vars, Trading PROVE A
    OBVIOUS
  <2>1. TypeOK /\ Len(trades) \in Nat
    BY LenProperties DEF IInv, TypeOK
  <2>2. trades' # trades
    BY <2>1 DEF Trading
  <2>3. MatchStep
    BY <2>2, CancelEffect, <2>1 DEF Next, AddSome, order_book_add_order, CancelSome,
       order_book_match_orders, MatchReturn, Tick, vars
  <2>4. PICK b \in buy_orders, s \in sell_orders, q \in Int : MatchEffectOf(b, s, q)
    BY <2>3, MatchEffect DEF IInv
  <2>5. b \in Refs /\ s \in Refs /\ buy_orders \subseteq Refs /\ sell_orders \subseteq Refs
    BY <2>1, <2>4 DEF TypeOK
  <2>6. NewTrade.buy = b /\ NewTrade.sell = s
    <3> DEFINE t == [buy |-> b, sell |-> s, price |-> orders[s].price, quantity |-> q]
    <3>1. t \in Trade
      BY <2>1, <2>4, <2>5, OrderFields DEF Trade
    <3>2. trades \in Seq(Trade) /\ trades' = Append(trades, t)
      BY <2>1, <2>4 DEF TypeOK, MatchEffectOf
    <3> HIDE DEF t
    <3>3. NewTrade = t
      BY <3>1, <3>2, AppendProperties DEF NewTrade
    <3> QED BY <3>3 DEF t
  <2>7. ASSUME NEW x \in buy_orders
        PROVE  orders[x].price <= orders[b].price
    <3>1. Cmp(x, b) <= 0
      BY <2>4 DEF MatchEffectOf
    <3> QED BY <2>1, <2>5, <3>1, CmpOrder, OrderFields
  <2>8. ASSUME NEW x \in sell_orders
        PROVE  \/ orders[x].price > orders[s].price
               \/ /\ orders[x].price = orders[s].price
                  /\ orders[x].timestamp >= orders[s].timestamp
    <3>1. Cmp(s, x) <= 0
      BY <2>4 DEF MatchEffectOf
    <3>2. /\ orders[x].price \in Int /\ orders[s].price \in Int
          /\ orders[x].timestamp \in Int /\ orders[s].timestamp \in Int
      BY <2>1, <2>5, OrderFields
    <3> QED BY <2>1, <2>5, <3>1, <3>2, CmpOrder
  <2> QED
    BY <2>6, <2>7, <2>8
<1> QED
  BY <1>1, BookInvariant, PTL DEF Spec, BestPricesTrade

-----------------------------------------------------------------------------
(* Fills and trades add up.                                                *)

\* A sum over the domain of the function written [x \in S |-> ...].
LEMMA SumOver ==
  ASSUME NEW f, NEW S, DOMAIN f = S
  PROVE  SumFunction(f) = SumFunctionOnSet(f, S)
BY DEF SumFunction

\* The trades are finitely many.
LEMMA TradesFinite ==
  ASSUME TypeOK
  PROVE  /\ Len(trades) \in Nat /\ DOMAIN trades = 1..Len(trades)
         /\ IsFiniteSet(DOMAIN trades)
<1>1. Len(trades) \in Nat /\ DOMAIN trades = 1..Len(trades)
  BY LenProperties DEF TypeOK
<1> QED
  BY <1>1, FS_Interval

\* A broadcast trade counts for its two orders.
LEMMA TradedByAppend ==
  ASSUME TypeOK, NEW o, NEW t, trades' = Append(trades, t), t.quantity \in Int
  PROVE  /\ TradedBy(o) \in Int
         /\ TradedBy(o)' = TradedBy(o) + (IF o \in {t.buy, t.sell} THEN t.quantity ELSE 0)
<1> DEFINE D == DOMAIN trades
           n == Len(trades) + 1
           f == [i \in D |-> IF o \in {trades[i].buy, trades[i].sell}
                             THEN trades[i].quantity ELSE 0]
           g == [i \in D \cup {n} |-> IF o \in {trades'[i].buy, trades'[i].sell}
                                      THEN trades'[i].quantity ELSE 0]
<1>1. /\ IsFiniteSet(D) /\ n \notin D
      /\ DOMAIN trades' = D \cup {n}
      /\ \A i \in D : trades'[i] = trades[i]
      /\ trades'[n] = t
  <2>1. trades \in Seq(Trade) /\ D = 1..Len(trades) /\ Len(trades) \in Nat /\ IsFiniteSet(D)
    BY TradesFinite DEF TypeOK
  <2>2. /\ DOMAIN trades' = 1..(Len(trades) + 1)
        /\ \A i \in 1..Len(trades) : trades'[i] = trades[i]
        /\ trades'[Len(trades) + 1] = t
    BY <2>1
  <2> QED
    BY <2>1, <2>2
<1> HIDE DEF D, n
<1>2. \A i \in D : f[i] \in Int /\ g[i] = f[i]
  BY <1>1, TradeFields DEF D
<1>3. g[n] = IF o \in {t.buy, t.sell} THEN t.quantity ELSE 0
  BY <1>1
<1>4. TradedBy(o) = SumFunctionOnSet(f, D)
  BY SumOver DEF TradedBy, D
<1>5. TradedBy(o)' = SumFunctionOnSet(g, D \cup {n})
  <2>1. TradedBy(o)' = SumFunction(g)
    BY <1>1 DEF TradedBy
  <2>2. DOMAIN g = D \cup {n}
    OBVIOUS
  <2> HIDE DEF g
  <2> QED
    BY <2>1, <2>2, SumOver
<1> HIDE DEF f, g
<1>6. SumFunctionOnSet(g, D \cup {n}) = SumFunctionOnSet(f, D) + g[n]
  <2>1. g[n] \in Int
    BY <1>3
  <2>2. IsFiniteSet(D) /\ n \notin D
    BY <1>1
  <2> QED
    BY <1>2, <2>1, <2>2, SumAdd
<1>7. SumFunctionOnSet(f, D) \in Int
  BY <1>1, <1>2, SumType
<1> QED
  BY <1>3, <1>4, <1>5, <1>6, <1>7

\* What is no order yet has not traded.
LEMMA TradedByNobody ==
  ASSUME TypeOK, NEW o, o \notin Refs
  PROVE  TradedBy(o) = 0
<1> DEFINE f == [i \in DOMAIN trades |-> IF o \in {trades[i].buy, trades[i].sell}
                                         THEN trades[i].quantity ELSE 0]
<1>1. \A i \in DOMAIN trades : f[i] = 0
  BY TradeFields
<1>2. TradedBy(o) = SumFunctionOnSet(f, DOMAIN trades)
  BY SumOver DEF TradedBy
<1> HIDE DEF f
<1> QED
  BY <1>1, <1>2, TradesFinite, SumNothing

LEMMA InitFills == Init => FillsMatchTrades
<1>1. Init => Refs = {}
  BY DEF Init, Refs
<1> QED
  BY <1>1 DEF FillsMatchTrades

\* Every step keeps fills and trades in agreement.
LEMMA NextFills == IInv /\ FillsMatchTrades /\ [Next]_vars => FillsMatchTrades'
<1> SUFFICES ASSUME IInv, FillsMatchTrades, [Next]_vars, NEW o \in Refs'
             PROVE  orders'[o].quantity - orders'[o].remaining = TradedBy(o)'
  BY DEF FillsMatchTrades
<1>0. TypeOK
  BY DEF IInv
<1>1. ASSUME o \in Refs
      PROVE  /\ orders[o].quantity \in Int /\ orders[o].remaining \in Int
             /\ orders[o].quantity - orders[o].remaining = TradedBy(o)
  BY <1>0, <1>1, OrderFields DEF FillsMatchTrades
<1>2. ASSUME trades' = trades
      PROVE  TradedBy(o)' = TradedBy(o)
  BY <1>2 DEF TradedBy
<1>3. CASE AddSome
  <2>1. PICK id \in Ids, symbol \in Symbols, price \in Prices,
             quantity \in Quantities, is_buy \in BOOLEAN :
          order_book_add_order(id, symbol, price, quantity, is_buy)
    BY <1>3 DEF AddSome
  <2> DEFINE new == Len(orders) + 1
  <2>2. /\ Refs' = Refs \cup {new} /\ new \notin Refs
        /\ \A x \in Refs : orders'[x] = orders[x]
        /\ orders'[new] = order_create(id, symbol, price, quantity, is_buy)
    BY <1>0, <2>1, AddEffect
  <2>3. trades' = trades
    BY <2>1 DEF order_book_add_order
  <2> HIDE DEF new
  <2>4. CASE o \in Refs
    BY <1>1, <1>2, <2>2, <2>3, <2>4
  <2>5. CASE o = new
    <3>1. TradedBy(o) = 0
      BY <1>0, <2>2, <2>5, TradedByNobody
    <3>2. orders'[o].quantity = quantity /\ orders'[o].remaining = quantity /\ quantity \in Int
      BY <2>2, <2>5, CreatedFields, QuantitiesAssumption
    <3> QED
      BY <1>2, <2>3, <3>1, <3>2
  <2> QED
    BY <2>2, <2>4, <2>5
<1>4. CASE CancelSome
  <2>1. /\ Refs' = Refs /\ trades' = trades
        /\ \A x \in Refs : SameTerms(x) /\ orders'[x].remaining = orders[x].remaining
    BY <1>0, <1>4, CancelEffect DEF CancelSome
  <2> QED
    BY <1>1, <1>2, <2>1 DEF SameTerms
<1>5. CASE MatchStep
  <2>1. PICK b \in buy_orders, s \in sell_orders, q \in Int : MatchEffectOf(b, s, q)
    BY <1>5, MatchEffect DEF IInv
  <2> DEFINE t == [buy |-> b, sell |-> s, price |-> orders[s].price, quantity |-> q]
  <2>2. trades' = Append(trades, t) /\ t.quantity = q /\ t.buy = b /\ t.sell = s
    BY <2>1 DEF MatchEffectOf
  <2> HIDE DEF t
  <2>3. TradedBy(o)' = TradedBy(o) + (IF o \in {b, s} THEN q ELSE 0)
    BY <1>0, <2>2, TradedByAppend
  <2>4. /\ o \in Refs /\ SameTerms(o)
        /\ orders'[o].remaining = IF o \in {b, s} THEN orders[o].remaining - q
                                  ELSE orders[o].remaining
    BY <2>1 DEF MatchEffectOf
  <2>5. orders'[o].quantity = orders[o].quantity
    BY <2>4 DEF SameTerms
  <2> QED
    BY <1>1, <2>3, <2>4, <2>5
<1>6. CASE order_book_match_orders \/ MatchReturn \/ Tick \/ UNCHANGED vars
  <2>1. orders' = orders /\ trades' = trades
    BY <1>6 DEF order_book_match_orders, MatchReturn, Tick, vars
  <2>2. o \in Refs
    BY <2>1 DEF Refs
  <2> QED
    BY <1>1, <1>2, <2>1, <2>2
<1> QED
  BY <1>3, <1>4, <1>5, <1>6 DEF Next

\* What an order has lost of its quantity is what its broadcast trades add up
\* to, for any number of orders and partial fills.
THEOREM FillsAlwaysMatchTrades == Spec => []FillsMatchTrades
<1> QED
  BY BookInvariant, InitFills, NextFills, PTL DEF Spec

\* The depth reported at a price is what the trades have left of the orders
\* there: the orders that are no longer in the tree have nothing left.
THEOREM DepthAlwaysMatchesTrades == Spec => []DepthMatchesTrades
<1>1. ASSUME IInv, FillsMatchTrades
      PROVE  DepthMatchesTrades
  <2> SUFFICES ASSUME NEW price \in Prices, NEW is_buy \in BOOLEAN
               PROVE  order_book_get_quantity_at_price(price, is_buy) =
                        SumFunction([o \in {x \in Refs \ dropped :
                                              /\ orders[x].price = price
                                              /\ orders[x].is_buy = is_buy
                                              /\ ~orders[x].is_canceled}
                                       |-> orders[o].quantity - TradedBy(o)])
    BY DEF DepthMatchesTrades
  <2> DEFINE T == {x \in Side(is_buy) : orders[x].price = price /\ ~orders[x].is_canceled}
             S == {x \in Refs \ dropped : /\ orders[x].price = price
                                          /\ orders[x].is_buy = is_buy
                                          /\ ~orders[x].is_canceled}
             f == [o \in T |-> orders[o].remaining]
             g == [o \in S |-> orders[o].quantity - TradedBy(o)]
  <2>1. TypeOK /\ OrdersAccounted /\ Side(is_buy) \subseteq Refs
    BY <1>1 DEF IInv, TypeOK, Side
  <2>2. \A o \in Refs : /\ orders[o].quantity - TradedBy(o) = orders[o].remaining
                        /\ orders[o].remaining \in Int
    <3> SUFFICES ASSUME NEW o \in Refs
                 PROVE  /\ orders[o].quantity - TradedBy(o) = orders[o].remaining
                        /\ orders[o].remaining \in Int
      OBVIOUS
    <3>1. /\ orders[o].quantity \in Int /\ orders[o].remaining \in Int
          /\ orders[o].quantity - orders[o].remaining = TradedBy(o)
      BY <1>1, <2>1, OrderFields DEF FillsMatchTrades
    <3> QED
      BY <3>1
  <2>3. T \subseteq S
    <3> SUFFICES ASSUME NEW x \in T PROVE x \in S
      OBVIOUS
    <3>1. x \in Refs /\ x \in Side(is_buy)
      BY <2>1
    <3>2. orders[x].is_buy = is_buy
      BY <2>1, <3>1, OrderFields DEF OrdersAccounted
    <3>3. x \notin dropped
      BY <2>1, <3>1, <3>2 DEF OrdersAccounted
    <3> QED
      BY <3>1, <3>2, <3>3
  <2>4. \A o \in S \ T : orders[o].remaining = 0
    BY <2>1 DEF OrdersAccounted, Filled
  <2>5. IsFiniteSet(S) /\ IsFiniteSet(T) /\ S \subseteq Refs
    BY <2>1, <2>3, RefsFinite, FS_Subset
  <2>6. /\ \A o \in S : g[o] \in Int
        /\ \A o \in T : f[o] \in Int /\ g[o] = f[o]
        /\ \A o \in S \ T : g[o] = 0
    BY <2>2, <2>3, <2>4, <2>5
  <2>7. /\ order_book_get_quantity_at_price(price, is_buy) = SumFunctionOnSet(f, T)
        /\ SumFunction(g) = SumFunctionOnSet(g, S)
    BY SumOver DEF order_book_get_quantity_at_price
  <2> HIDE DEF S, T, f, g
  <2>8. SumFunctionOnSet(f, T) = SumFunctionOnSet(g, T)
    BY <2>5, <2>6, SumSame
  <2>9. SumFunctionOnSet(g, S) = SumFunctionOnSet(g, T)
    BY <2>3, <2>5, <2>6, SumZeros
  <2>10. order_book_get_quantity_at_price(price, is_buy) = SumFunction(g)
    BY <2>7, <2>8, <2>9
  <2> QED
    BY <2>10 DEF g, S
<1> QED
  BY <1>1, BookInvariant, FillsAlwaysMatchTrades, PTL
=============================================================================
