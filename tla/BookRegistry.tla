---------------------------- MODULE BookRegistry -----------------------------
(***************************************************************************)
(* The table of order books in src/server/server_handlers.c: worker        *)
(* threads in the three message handlers, and threads that call            *)
(* server_handlers_add_order_book.  handle_place_order looks a symbol up   *)
(* and enters a new book under the READ lock of books_lock, and the orders *)
(* of a book have no lock of their own, so the steps of two placements     *)
(* interleave: every access to book_count that another thread can come     *)
(* between is an action of its own, and an insertion in a book reads its   *)
(* tree in one and writes it in another, so that one of two insertions at  *)
(* the same time can be lost.  The loop that searches the table, which     *)
(* changes nothing, is one action.  `overlapped` remembers that two        *)
(* workers have been at the end of the table, or in one book, at once.     *)
(*                                                                         *)
(* An order is a number, and a book is the set of the orders in it.  The   *)
(* orders are buys at different prices, so that none is matched or dropped *)
(* and an order stays in its book: what happens inside a book is the       *)
(* subject of OrderBook.                                                   *)
(***************************************************************************)
EXTENDS Integers, FiniteSets, FiniteSetsExt, TLC

CONSTANTS
  Workers,          \* worker threads
  Callers,          \* threads that call server_handlers_add_order_book
  Symbols,
  Broadcasters,     \* the configurations: TRUE with a trade broadcaster, FALSE
                    \* with NULL, as in server_app.c
  MAX_SYMBOLS,
  MaxOrders         \* bound: orders placed

ASSUME RegistryAssumption ==
  /\ Broadcasters \subseteq BOOLEAN
  /\ IsFiniteSet(Symbols)
  /\ MAX_SYMBOLS \in Nat /\ MaxOrders \in Nat

VARIABLES
  trade_broadcaster,  \* handlers->trade_broadcaster is not NULL
  books,         \* index -> book, for the indices written so far
  symbols,       \* index -> symbol, for the indices written so far
  book_count,
  contents,      \* the books created, each with its orders
  readers,       \* threads holding books_lock for reading
  pc,            \* where each thread is
  symbol,        \* the symbol each thread works on
  book,          \* the local variable `book` of handle_place_order
  seen,          \* the orders of that book when the insertion read its tree
  overlapped,    \* history: see above
  count,         \* book_count as read by book_count++
  placed,        \* orders placed so far
  confirmed,     \* history: <<order, symbol>> answered MSG_ORDER_ACCEPTED
  failed,        \* history: symbols answered "Failed to place order"
  canceled,      \* orders canceled
  reply          \* the last answer to a cancellation or a book request

vars == <<trade_broadcaster, books, symbols, book_count, contents, readers, pc,
          symbol, book, seen, overlapped, count, placed, confirmed, failed, canceled,
          reply>>

answers == <<canceled, reply>>

locals == <<symbol, book, seen, count>>

\* No thread changes trade_broadcaster.
table == <<trade_broadcaster, books, symbols, book_count>>

Threads == Workers \cup Callers

NULL == 0

NoSymbol == "no symbol"

\* Function f with v at i.  handle_place_order does not compare book_count with
\* MAX_SYMBOLS: an index from MAX_SYMBOLS on is in the memory behind the arrays.
Store(f, i, v) == [j \in DOMAIN f \cup {i} |-> IF j = i THEN v ELSE f[j]]

Init ==
  /\ trade_broadcaster \in Broadcasters
  /\ books = <<>>
  /\ symbols = <<>>
  /\ book_count = 0
  /\ contents = <<>>
  /\ readers = {}
  /\ pc = [t \in Threads |-> "idle"]
  /\ symbol = [t \in Threads |-> NoSymbol]
  /\ book = [w \in Workers |-> NULL]
  /\ seen = [w \in Workers |-> {}]
  /\ overlapped = FALSE
  /\ count = [w \in Workers |-> 0]
  /\ placed = 0
  /\ confirmed = {}
  /\ failed = {}
  /\ canceled = {}
  /\ reply = [kind |-> "none", symbol |-> NoSymbol, orders |-> {}]

Goto(t, l) == pc' = [pc EXCEPT ![t] = l]

\* books[i]; server_handlers_create clears the table.
BookAt(i) == IF i \in DOMAIN books THEN books[i] ELSE NULL

\* Mutation: the last entry is not searched.
find_book_ButLast(s) ==
  LET hits == {i \in DOMAIN symbols : i < book_count - 1 /\ symbols[i] = s}
  IN IF hits = {} THEN NULL ELSE BookAt(Min(hits))

\* The first entry for s below book_count, as in every handler and in
\* server_handlers_get_order_book.
find_book(s) ==
  LET hits == {i \in DOMAIN symbols : i < book_count /\ symbols[i] = s}
  IN IF hits = {} THEN NULL ELSE BookAt(Min(hits))

\* order_book_create: NULL without a trade broadcaster, otherwise a new, empty
\* book.
order_book_create == IF trade_broadcaster THEN Cardinality(DOMAIN contents) + 1 ELSE NULL

WithNewBook(b) == Store(contents, b, {})

-----------------------------------------------------------------------------
(* handle_place_order.                                                     *)

\* Workers at the end of the table: they found no entry and enter one.
Creating == {w \in Workers : pc[w] \in {"create", "store_book", "store_symbol",
                                        "read_count", "write_count"}}

\* Worker w is not the only one in book b.
Shared(w, b) == \E v \in Workers \ {w} : pc[v] = "adding" /\ book[v] = b

\* Mutation: the table is searched without the lock.
PlaceFind_Unlocked(w, s) ==
  /\ pc[w] = "idle"
  /\ placed < MaxOrders
  /\ placed' = placed + 1
  /\ symbol' = [symbol EXCEPT ![w] = s]
  /\ book' = [book EXCEPT ![w] = find_book(s)]
  /\ overlapped' = (overlapped \/ (find_book(s) = NULL /\ Creating # {}))
  /\ Goto(w, IF find_book(s) = NULL THEN "create" ELSE "add")
  /\ UNCHANGED <<answers, table, contents, readers, seen, count, confirmed, failed>>

\* The read lock is taken and the table searched.
PlaceFind(w, s) ==
  /\ pc[w] = "idle"
  /\ placed < MaxOrders
  /\ placed' = placed + 1
  /\ readers' = readers \cup {w}
  /\ symbol' = [symbol EXCEPT ![w] = s]
  /\ book' = [book EXCEPT ![w] = find_book(s)]
  /\ overlapped' = (overlapped \/ (find_book(s) = NULL /\ Creating # {}))
  /\ Goto(w, IF find_book(s) = NULL THEN "create" ELSE "add")
  /\ UNCHANGED <<answers, table, contents, seen, count, confirmed, failed>>

\* Mutation: the test for NULL is the wrong way round.
PlaceCreate_Inverted(w) ==
  /\ pc[w] = "create"
  /\ book' = [book EXCEPT ![w] = order_book_create]
  /\ contents' = IF trade_broadcaster THEN WithNewBook(order_book_create) ELSE contents
  /\ Goto(w, IF trade_broadcaster THEN "unlock_failed" ELSE "store_book")
  /\ UNCHANGED <<answers, table, readers, symbol, seen, overlapped, count, placed,
                 confirmed, failed>>

\* order_book_create, which may return NULL.
PlaceCreate(w) ==
  /\ pc[w] = "create"
  /\ book' = [book EXCEPT ![w] = order_book_create]
  /\ contents' = IF trade_broadcaster THEN WithNewBook(order_book_create) ELSE contents
  /\ Goto(w, IF trade_broadcaster THEN "store_book" ELSE "unlock_failed")
  /\ UNCHANGED <<answers, table, readers, symbol, seen, overlapped, count, placed,
                 confirmed, failed>>

\* books[book_count] = book.
PlaceStoreBook(w) ==
  /\ pc[w] = "store_book"
  /\ books' = Store(books, book_count, book[w])
  /\ Goto(w, "store_symbol")
  /\ UNCHANGED <<answers, trade_broadcaster, symbols, book_count, contents, readers,
                 locals, overlapped, placed, confirmed, failed>>

\* strncpy to symbols[book_count].
PlaceStoreSymbol(w) ==
  /\ pc[w] = "store_symbol"
  /\ symbols' = Store(symbols, book_count, symbol[w])
  /\ Goto(w, "read_count")
  /\ UNCHANGED <<answers, trade_broadcaster, books, book_count, contents, readers,
                 locals, overlapped, placed, confirmed, failed>>

\* book_count++ reads ...
PlaceReadCount(w) ==
  /\ pc[w] = "read_count"
  /\ count' = [count EXCEPT ![w] = book_count]
  /\ Goto(w, "write_count")
  /\ UNCHANGED <<answers, table, contents, readers, symbol, book, seen, overlapped,
                 placed, confirmed, failed>>

\* ... and writes.
PlaceWriteCount(w) ==
  /\ pc[w] = "write_count"
  /\ book_count' = count[w] + 1
  /\ Goto(w, "add")
  /\ UNCHANGED <<answers, trade_broadcaster, books, symbols, contents, readers,
                 locals, overlapped, placed, confirmed, failed>>

\* order_book_add_order reads the tree of the book ...
PlaceRead(w) ==
  /\ pc[w] = "add"
  /\ seen' = [seen EXCEPT ![w] = contents[book[w]]]
  /\ overlapped' = (overlapped \/ Shared(w, book[w]))
  /\ Goto(w, "adding")
  /\ UNCHANGED <<answers, table, contents, readers, symbol, book, count, placed,
                 confirmed, failed>>

\* The number of the order that is placed next.
NewOrder == Cardinality(confirmed) + 1

\* Mutation: the order goes into the first book of the table.
PlaceAdd_FirstBook(w) ==
  /\ pc[w] = "adding"
  /\ contents' = [contents EXCEPT ![books[0]] = seen[w] \cup {NewOrder}]
  /\ confirmed' = confirmed \cup {<<NewOrder, symbol[w]>>}
  /\ readers' = readers \ {w}
  /\ Goto(w, "idle")
  /\ UNCHANGED <<answers, table, locals, overlapped, placed, failed>>

\* ... and writes it with the order; the order is confirmed, the book matched
\* and sent, and the lock released.
PlaceAdd(w) ==
  /\ pc[w] = "adding"
  /\ contents' = [contents EXCEPT ![book[w]] = seen[w] \cup {NewOrder}]
  /\ confirmed' = confirmed \cup {<<NewOrder, symbol[w]>>}
  /\ readers' = readers \ {w}
  /\ Goto(w, "idle")
  /\ UNCHANGED <<answers, table, locals, overlapped, placed, failed>>

\* No book: the lock is released and the client told so.
PlaceFail(w) ==
  /\ pc[w] = "unlock_failed"
  /\ failed' = failed \cup {symbol[w]}
  /\ readers' = readers \ {w}
  /\ Goto(w, "idle")
  /\ UNCHANGED <<answers, table, contents, locals, overlapped, placed, confirmed>>

-----------------------------------------------------------------------------
(* handle_cancel_order and handle_book_request: the book is searched and   *)
(* used under the read lock, by one action each.                           *)

Answer(kind, s, orders) == reply' = [kind |-> kind, symbol |-> s, orders |-> orders]

\* order_book_cancel_order does not find every order that rests in the book
\* (see OrderBook), and does not look whether the one it finds was canceled.
handle_cancel_order(w, s, order) ==
  LET b == find_book(s)
  IN
  /\ pc[w] = "idle"
  /\ \/ /\ b = NULL
        /\ Answer("book_not_found", s, {})
        /\ UNCHANGED canceled
     \/ /\ b # NULL
        /\ Answer("order_not_found", s, {})
        /\ UNCHANGED canceled
     \/ /\ b # NULL /\ order \in contents[b]
        /\ Answer("canceled", s, {order})
        /\ canceled' = canceled \cup {order}
  /\ overlapped' = (overlapped \/ Shared(w, b))
  /\ UNCHANGED <<table, contents, readers, pc, locals, placed, confirmed, failed>>

\* The snapshot collect_orders fills: the orders that are not canceled.
handle_book_request(w, s) ==
  LET b == find_book(s)
  IN
  /\ pc[w] = "idle"
  /\ IF b = NULL
     THEN Answer("book_not_found", s, {})
     ELSE Answer("snapshot", s, contents[b] \ canceled)
  /\ overlapped' = (overlapped \/ Shared(w, b))
  /\ UNCHANGED <<table, contents, readers, pc, locals, placed, confirmed, failed,
                 canceled>>

-----------------------------------------------------------------------------
(* server_handlers_add_order_book.                                         *)

\* The bound is tested before the lock is taken.
AddCheck(t, s) ==
  /\ pc[t] = "idle"
  /\ book_count < MAX_SYMBOLS
  /\ symbol' = [symbol EXCEPT ![t] = s]
  /\ Goto(t, "write_lock")
  /\ UNCHANGED <<answers, table, contents, readers, book, seen, overlapped, count,
                 placed, confirmed, failed>>

\* What it does under the write lock.
AddLocked(t) ==
  /\ pc[t] = "write_lock"
  /\ readers = {}
  /\ Goto(t, "idle")
  /\ IF ~trade_broadcaster \/ \E i \in DOMAIN symbols : i < book_count /\ symbols[i] = symbol[t]
     THEN UNCHANGED <<table, contents>>
     ELSE /\ contents' = WithNewBook(order_book_create)
          /\ symbols' = Store(symbols, book_count, symbol[t])
          /\ books' = Store(books, book_count, order_book_create)
          /\ book_count' = book_count + 1
  /\ UNCHANGED <<answers, trade_broadcaster, readers, locals, overlapped, placed,
                 confirmed, failed>>

Worker(w) ==
  \/ \E s \in Symbols : PlaceFind(w, s)
  \/ PlaceCreate(w)
  \/ PlaceStoreBook(w)
  \/ PlaceStoreSymbol(w)
  \/ PlaceReadCount(w)
  \/ PlaceWriteCount(w)
  \/ PlaceRead(w)
  \/ PlaceAdd(w)
  \/ PlaceFail(w)
  \/ \E s \in Symbols, order \in 1..MaxOrders : handle_cancel_order(w, s, order)
  \/ \E s \in Symbols : handle_book_request(w, s)

Caller(t) == (\E s \in Symbols : AddCheck(t, s)) \/ AddLocked(t)

\* Every order was placed.
Finished ==
  /\ placed = MaxOrders
  /\ \A w \in Workers : pc[w] = "idle"
  /\ UNCHANGED vars

Next ==
  \/ \E w \in Workers : Worker(w)
  \/ \E t \in Callers : Caller(t)
  \/ Finished

Spec == Init /\ [][Next]_vars

\* Workers and symbols are interchangeable.
Symmetry == Permutations(Workers) \cup Permutations(Symbols)

-----------------------------------------------------------------------------
(* Properties.                                                             *)

\* Unless two workers overlapped, every entry below book_count is complete, a
\* symbol has one entry, so that every handler works on the same book, and the
\* table does not outgrow its arrays while there are at most MAX_SYMBOLS
\* symbols: the write lock keeps server_handlers_add_order_book, which tests the
\* bound before it has the lock, away from a placement that is entering a book
\* and does not test the bound at all.
TableIsSound ==
  ~overlapped =>
    /\ \A i \in 0..(book_count - 1) : /\ BookAt(i) \in DOMAIN contents
                                      /\ i \in DOMAIN symbols
                                      /\ symbols[i] \in Symbols
    /\ \A i, j \in 0..(book_count - 1) : symbols[i] = symbols[j] => i = j
    /\ Cardinality(Symbols) <= MAX_SYMBOLS => book_count <= MAX_SYMBOLS

\* A confirmed order is in the book that its symbol leads to, where it can be
\* matched, shown and canceled, unless two workers overlapped: nothing else
\* that the threads do loses an order.
ConfirmedOrdersReachable ==
  ~overlapped =>
    \A c \in confirmed :
      LET b == find_book(c[2])
      IN b # NULL /\ c[1] \in contents[b]

\* Once an order for a symbol was confirmed, no worker answers "Order book not
\* found" for it, and a snapshot shows every confirmed order of the symbol that
\* was not canceled, unless two workers overlapped.
ConfirmedOrdersShown ==
  [][LET shown == {c[1] : c \in {d \in confirmed : d[2] = reply'.symbol}}
     IN reply' # reply /\ ~overlapped' =>
          /\ reply'.kind = "book_not_found" => shown = {}
          /\ reply'.kind = "snapshot" => shown \ canceled \subseteq reply'.orders]_vars

\* A placement fails for want of a book exactly when there is no broadcaster to
\* create one with, as in server_app.c; the table is then empty for good.
FailsWithoutBroadcaster ==
  IF trade_broadcaster THEN failed = {} ELSE confirmed = {} /\ book_count = 0
=============================================================================
