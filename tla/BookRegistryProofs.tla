------------------------- MODULE BookRegistryProofs -------------------------
(***************************************************************************)
(* Proofs about BookRegistry, for any sets of threads and symbols, with or *)
(* without a trade broadcaster.                                            *)
(*                                                                         *)
(* The invariant says, for every thread in handle_place_order, how much of *)
(* a new entry it has written and that the table has not changed under it, *)
(* as long as no two workers overlapped: one worker at most is at the end  *)
(* of the table, the read lock keeps server_handlers_add_order_book away   *)
(* from it, and the book a worker inserts in is the one its symbol leads   *)
(* to, with the contents that the insertion has read.                      *)
(***************************************************************************)
EXTENDS BookRegistry, FiniteSetTheorems, TLAPS

Entering == {"create", "store_book", "store_symbol", "read_count", "write_count"}

Placing == Entering \cup {"add", "adding", "unlock_failed"}

\* Index i is an entry for symbol s that holds book b.
Entry(i, s, b) ==
  /\ i \in Nat /\ i < book_count
  /\ i \in DOMAIN symbols /\ symbols[i] = s
  /\ i \in DOMAIN books /\ books[i] = b

TypeInv ==
  /\ trade_broadcaster \in BOOLEAN
  /\ overlapped \in BOOLEAN
  /\ book_count \in Nat
  /\ DOMAIN books \subseteq Nat
  /\ DOMAIN symbols \subseteq Nat
  /\ \E n \in Nat : DOMAIN contents = 1..n
  /\ pc \in [Threads -> Placing \cup {"idle", "write_lock"}]
  /\ DOMAIN symbol = Threads
  /\ DOMAIN book = Workers
  /\ DOMAIN seen = Workers
  /\ count \in [Workers -> Nat]
  /\ \A t \in Threads : pc[t] # "idle" => symbol[t] \in Symbols

\* A thread in handle_place_order is a worker that holds the read lock.
LockInv == \A t \in Threads : pc[t] \in Placing => t \in Workers /\ t \in readers

\* What a worker can be doing with and without a broadcaster.
BroadcasterInv ==
  IF trade_broadcaster
  THEN /\ failed = {}
       /\ \A t \in Threads : pc[t] # "unlock_failed"
  ELSE /\ confirmed = {}
       /\ book_count = 0
       /\ \A t \in Threads : pc[t] \in {"idle", "write_lock", "create", "unlock_failed"}

\* The entries below book_count are complete, and no two are for one symbol.
TableInv ==
  /\ \A i \in 0..(book_count - 1) :
       /\ i \in DOMAIN books /\ books[i] \in DOMAIN contents
       /\ i \in DOMAIN symbols /\ symbols[i] \in Symbols
  /\ \A i, j \in 0..(book_count - 1) : symbols[i] = symbols[j] => i = j

\* What worker w, at the end of the table, has written of its entry.
Written(w) ==
  /\ \A i \in 0..(book_count - 1) : symbols[i] # symbol[w]
  /\ pc[w] # "create" => book[w] \in DOMAIN contents
  /\ pc[w] \in {"store_symbol", "read_count", "write_count"} =>
       book_count \in DOMAIN books /\ books[book_count] = book[w]
  /\ pc[w] \in {"read_count", "write_count"} =>
       book_count \in DOMAIN symbols /\ symbols[book_count] = symbol[w]
  /\ pc[w] = "write_count" => count[w] = book_count

EnterInv ==
  /\ \A v, w \in Creating : v = w
  /\ \A w \in Creating : Written(w)

\* A worker that inserts an order does so in the book its symbol leads to, alone.
InsertInv ==
  /\ \A w \in Workers :
       pc[w] \in {"add", "adding"} => \E i \in Nat : Entry(i, symbol[w], book[w])
  /\ \A w \in Workers : pc[w] = "adding" => seen[w] = contents[book[w]]
  /\ \A v, w \in Workers :
       pc[v] = "adding" /\ pc[w] = "adding" /\ book[v] = book[w] => v = w

\* A confirmed order is in a book that its symbol leads to.
ConfirmedInv ==
  \A c \in confirmed :
    \E i \in Nat : Entry(i, c[2], books[i]) /\ c[1] \in contents[books[i]]

SoundInv == TableInv /\ EnterInv /\ InsertInv /\ ConfirmedInv

RegistryInv ==
  /\ TypeInv
  /\ LockInv
  /\ BroadcasterInv
  /\ ~overlapped => SoundInv

-----------------------------------------------------------------------------
(* What the search of the table finds.                                     *)

\* The search returns the book of the one entry for a symbol.
LEMMA FindsEntry ==
  ASSUME TypeInv, TableInv, NEW s, NEW i \in 0..(book_count - 1), symbols[i] = s
  PROVE  find_book(s) = books[i] /\ find_book(s) # NULL
<1> DEFINE hits == {j \in DOMAIN symbols : j < book_count /\ symbols[j] = s}
<1>1. hits = {i}
  BY DEF TypeInv, TableInv
<1>2. Min(hits) = i
  <2>1. \A x \in hits : x = i
    BY <1>1
  <2>2. \E x \in hits : \A y \in hits : x <= y
    BY <1>1, <2>1
  <2>3. Min(hits) \in hits
    BY <2>2 DEF Min
  <2> QED
    BY <2>1, <2>3
<1>3. find_book(s) = BookAt(i)
  <2> HIDE DEF hits
  <2>1. find_book(s) = IF hits = {} THEN NULL ELSE BookAt(Min(hits))
    BY DEF find_book, hits
  <2> QED
    BY <1>1, <1>2, <2>1
<1>4. i \in DOMAIN books /\ books[i] \in DOMAIN contents
  BY DEF TableInv
<1> QED
  BY <1>3, <1>4 DEF BookAt, TypeInv, NULL

\* The search of a sound table returns NULL only when there is no entry.
LEMMA FindsNone ==
  ASSUME TypeInv, TableInv, NEW s, find_book(s) = NULL
  PROVE  \A i \in 0..(book_count - 1) : symbols[i] # s
BY FindsEntry

\* When it does find a book, it is the book of an entry.
LEMMA FoundIsEntry ==
  ASSUME TypeInv, TableInv, NEW s, find_book(s) # NULL
  PROVE  \E i \in Nat : Entry(i, s, find_book(s))
<1>1. PICK i \in DOMAIN symbols : i < book_count /\ symbols[i] = s
  BY DEF find_book
<1>2. i \in 0..(book_count - 1)
  BY <1>1 DEF TypeInv
<1>3. find_book(s) = books[i]
  BY <1>1, <1>2, FindsEntry
<1> QED
  BY <1>1, <1>2, <1>3 DEF Entry, TableInv, TypeInv

\* An empty table leads nowhere.
LEMMA EmptyTable ==
  ASSUME TypeInv, book_count = 0, NEW s
  PROVE  find_book(s) = NULL
BY DEF find_book, TypeInv

\* order_book_create returns a book that was not there before.
LEMMA NewBookIsNew ==
  ASSUME TypeInv, trade_broadcaster
  PROVE  /\ order_book_create \in Nat \ {0}
         /\ order_book_create \notin DOMAIN contents
         /\ \E n \in Nat : DOMAIN WithNewBook(order_book_create) = 1..n
<1>1. PICK n \in Nat : DOMAIN contents = 1..n
  BY DEF TypeInv
<1>2. Cardinality(1..n) = n
  BY FS_Interval
<1>3. order_book_create = n + 1
  BY <1>1, <1>2 DEF order_book_create
<1>4. DOMAIN WithNewBook(order_book_create) = 1..(n + 1)
  BY <1>1, <1>3 DEF WithNewBook, Store
<1> QED
  BY <1>1, <1>3, <1>4

-----------------------------------------------------------------------------
(* Types, the read lock and the broadcaster.                               *)

LEMMA InitRegistryInv == Init => RegistryInv
<1> SUFFICES ASSUME Init PROVE RegistryInv
  OBVIOUS
<1>1. TypeInv
  <2>1. DOMAIN contents = 1..0
    BY DEF Init
  <2>2. trade_broadcaster \in BOOLEAN
    BY RegistryAssumption DEF Init
  <2>3. DOMAIN books = {} /\ DOMAIN symbols = {}
    BY DEF Init
  <2>4. pc \in [Threads -> Placing \cup {"idle", "write_lock"}]
    BY DEF Init
  <2>5. /\ DOMAIN symbol = Threads /\ DOMAIN book = Workers /\ DOMAIN seen = Workers
        /\ count \in [Workers -> Nat]
        /\ \A t \in Threads : pc[t] = "idle"
    BY DEF Init
  <2>6. book_count \in Nat /\ overlapped \in BOOLEAN
    BY DEF Init
  <2> QED
    BY <2>1, <2>2, <2>3, <2>4, <2>5, <2>6 DEF TypeInv
<1>2. LockInv
  BY DEF Init, LockInv, Placing, Entering, Threads
<1>3. BroadcasterInv
  BY DEF Init, BroadcasterInv, Threads
<1>4. SoundInv
  BY DEF Init, SoundInv, TableInv, EnterInv, InsertInv, ConfirmedInv, Creating, Threads
<1> QED
  BY <1>1, <1>2, <1>3, <1>4 DEF RegistryInv

\* The steps of the threads, one by one.
LEMMA NextCases ==
  ASSUME [Next]_vars
  PROVE  \/ \E w \in Workers, s \in Symbols : PlaceFind(w, s)
         \/ \E w \in Workers : \/ PlaceCreate(w)
                               \/ PlaceStoreBook(w)
                               \/ PlaceStoreSymbol(w)
                               \/ PlaceReadCount(w)
                               \/ PlaceWriteCount(w)
                               \/ PlaceRead(w)
                               \/ PlaceAdd(w)
                               \/ PlaceFail(w)
         \/ \E w \in Workers, s \in Symbols, order \in 1..MaxOrders :
              handle_cancel_order(w, s, order)
         \/ \E w \in Workers, s \in Symbols : handle_book_request(w, s)
         \/ \E t \in Callers, s \in Symbols : AddCheck(t, s)
         \/ \E t \in Callers : AddLocked(t)
         \/ UNCHANGED vars
BY DEF Next, Worker, Caller, Finished

LEMMA TypePreserved ==
  ASSUME TypeInv, [Next]_vars
  PROVE  TypeInv'
<1>1. ASSUME NEW w \in Workers, NEW s \in Symbols, PlaceFind(w, s)
      PROVE  TypeInv'
  BY <1>1 DEF PlaceFind, TypeInv, Goto, Threads, Placing, Entering, answers, table, locals
<1>2. ASSUME NEW w \in Workers, PlaceCreate(w)
      PROVE  TypeInv'
  <2>1. CASE trade_broadcaster
    BY <1>2, <2>1, NewBookIsNew DEF PlaceCreate, TypeInv, Goto, Threads, Placing,
       Entering, answers, table, locals
  <2>2. CASE ~trade_broadcaster
    BY <1>2, <2>2 DEF PlaceCreate, order_book_create, NULL, TypeInv, Goto, Threads,
       Placing, Entering, answers, table, locals
  <2> QED
    BY <2>1, <2>2
<1>3. ASSUME NEW w \in Workers, PlaceStoreBook(w)
      PROVE  TypeInv'
  BY <1>3 DEF PlaceStoreBook, Store, TypeInv, Goto, Threads, Placing, Entering, answers,
     table, locals
<1>4. ASSUME NEW w \in Workers, PlaceStoreSymbol(w)
      PROVE  TypeInv'
  BY <1>4 DEF PlaceStoreSymbol, Store, TypeInv, Goto, Threads, Placing, Entering,
     answers, table, locals
<1>5. ASSUME NEW w \in Workers, PlaceReadCount(w)
      PROVE  TypeInv'
  BY <1>5 DEF PlaceReadCount, TypeInv, Goto, Threads, Placing, Entering, answers, table,
     locals
<1>6. ASSUME NEW w \in Workers, PlaceWriteCount(w)
      PROVE  TypeInv'
  BY <1>6 DEF PlaceWriteCount, TypeInv, Goto, Threads, Placing, Entering, answers, table,
     locals
<1>7. ASSUME NEW w \in Workers, PlaceRead(w)
      PROVE  TypeInv'
  BY <1>7 DEF PlaceRead, TypeInv, Goto, Threads, Placing, Entering, answers, table, locals
<1>8. ASSUME NEW w \in Workers, PlaceAdd(w)
      PROVE  TypeInv'
  BY <1>8 DEF PlaceAdd, TypeInv, Goto, Threads, Placing, Entering, answers, table, locals
<1>9. ASSUME NEW w \in Workers, PlaceFail(w)
      PROVE  TypeInv'
  BY <1>9 DEF PlaceFail, TypeInv, Goto, Threads, Placing, Entering, answers, table, locals
<1>10. ASSUME NEW w \in Workers, NEW s \in Symbols, NEW order \in 1..MaxOrders,
             handle_cancel_order(w, s, order)
      PROVE  TypeInv'
  BY <1>10 DEF handle_cancel_order, TypeInv, Goto, Threads, Placing, Entering, answers,
     table, locals
<1>11. ASSUME NEW w \in Workers, NEW s \in Symbols, handle_book_request(w, s)
      PROVE  TypeInv'
  BY <1>11 DEF handle_book_request, TypeInv, Goto, Threads, Placing, Entering, answers,
     table, locals
<1>12. ASSUME NEW t \in Callers, NEW s \in Symbols, AddCheck(t, s)
      PROVE  TypeInv'
  BY <1>12 DEF AddCheck, TypeInv, Goto, Threads, Placing, Entering, answers, table, locals
<1>13. ASSUME NEW t \in Callers, AddLocked(t)
      PROVE  TypeInv'
  <2>1. CASE UNCHANGED <<table, contents>>
    BY <1>13, <2>1 DEF AddLocked, TypeInv, Goto, Threads, Placing, Entering, answers,
       table, locals
  <2>2. CASE ~UNCHANGED <<table, contents>>
    <3>1. trade_broadcaster
      BY <1>13, <2>2 DEF AddLocked
    <3> QED
      BY <1>13, <2>2, <3>1, NewBookIsNew DEF AddLocked, Store, TypeInv, Goto, Threads,
         Placing, Entering, answers, table, locals
  <2> QED
    BY <2>1, <2>2
<1>14. ASSUME UNCHANGED vars
      PROVE  TypeInv'
  BY <1>14 DEF vars, TypeInv, Goto, Threads, Placing, Entering, answers, table, locals
<1> QED
  BY <1>1, <1>2, <1>3, <1>4, <1>5, <1>6, <1>7, <1>8, <1>9, <1>10, <1>11, <1>12, <1>13,
     <1>14, NextCases

LEMMA LockPreserved ==
  ASSUME TypeInv, LockInv, [Next]_vars
  PROVE  LockInv'
<1>1. ASSUME NEW w \in Workers, NEW s \in Symbols, PlaceFind(w, s)
      PROVE  LockInv'
  BY <1>1 DEF PlaceFind, LockInv, TypeInv, Goto, Threads, Placing, Entering, answers,
     table, locals
<1>2. ASSUME NEW w \in Workers, PlaceCreate(w)
      PROVE  LockInv'
  BY <1>2 DEF PlaceCreate, LockInv, TypeInv, Goto, Threads, Placing, Entering, answers,
     table, locals
<1>3. ASSUME NEW w \in Workers, PlaceStoreBook(w)
      PROVE  LockInv'
  BY <1>3 DEF PlaceStoreBook, LockInv, TypeInv, Goto, Threads, Placing, Entering,
     answers, table, locals
<1>4. ASSUME NEW w \in Workers, PlaceStoreSymbol(w)
      PROVE  LockInv'
  BY <1>4 DEF PlaceStoreSymbol, LockInv, TypeInv, Goto, Threads, Placing, Entering,
     answers, table, locals
<1>5. ASSUME NEW w \in Workers, PlaceReadCount(w)
      PROVE  LockInv'
  BY <1>5 DEF PlaceReadCount, LockInv, TypeInv, Goto, Threads, Placing, Entering,
     answers, table, locals
<1>6. ASSUME NEW w \in Workers, PlaceWriteCount(w)
      PROVE  LockInv'
  BY <1>6 DEF PlaceWriteCount, LockInv, TypeInv, Goto, Threads, Placing, Entering,
     answers, table, locals
<1>7. ASSUME NEW w \in Workers, PlaceRead(w)
      PROVE  LockInv'
  BY <1>7 DEF PlaceRead, LockInv, TypeInv, Goto, Threads, Placing, Entering, answers,
     table, locals
<1>8. ASSUME NEW w \in Workers, PlaceAdd(w)
      PROVE  LockInv'
  BY <1>8 DEF PlaceAdd, LockInv, TypeInv, Goto, Threads, Placing, Entering, answers,
     table, locals
<1>9. ASSUME NEW w \in Workers, PlaceFail(w)
      PROVE  LockInv'
  BY <1>9 DEF PlaceFail, LockInv, TypeInv, Goto, Threads, Placing, Entering, answers,
     table, locals
<1>10. ASSUME NEW w \in Workers, NEW s \in Symbols, NEW order \in 1..MaxOrders,
             handle_cancel_order(w, s, order)
      PROVE  LockInv'
  BY <1>10 DEF handle_cancel_order, LockInv, TypeInv, Goto, Threads, Placing, Entering,
     answers, table, locals
<1>11. ASSUME NEW w \in Workers, NEW s \in Symbols, handle_book_request(w, s)
      PROVE  LockInv'
  BY <1>11 DEF handle_book_request, LockInv, TypeInv, Goto, Threads, Placing, Entering,
     answers, table, locals
<1>12. ASSUME NEW t \in Callers, NEW s \in Symbols, AddCheck(t, s)
      PROVE  LockInv'
  BY <1>12 DEF AddCheck, LockInv, TypeInv, Goto, Threads, Placing, Entering, answers,
     table, locals
<1>13. ASSUME NEW t \in Callers, AddLocked(t)
      PROVE  LockInv'
  BY <1>13 DEF AddLocked, LockInv, TypeInv, Goto, Threads, Placing, Entering, answers,
     table, locals
<1>14. ASSUME UNCHANGED vars
      PROVE  LockInv'
  BY <1>14 DEF vars, LockInv, TypeInv, Goto, Threads, Placing, Entering, answers, table,
     locals
<1> QED
  BY <1>1, <1>2, <1>3, <1>4, <1>5, <1>6, <1>7, <1>8, <1>9, <1>10, <1>11, <1>12, <1>13,
     <1>14, NextCases

\* While a thread holds the write lock no worker is in handle_place_order.
LEMMA WriteLockExcludes ==
  ASSUME TypeInv, LockInv, readers = {}, NEW w \in Workers
  PROVE  pc[w] \in {"idle", "write_lock"} /\ w \notin Creating
BY DEF TypeInv, LockInv, Threads, Placing, Entering, Creating

LEMMA BroadcasterPreserved ==
  ASSUME TypeInv, BroadcasterInv, [Next]_vars
  PROVE  BroadcasterInv'
<1>1. ASSUME NEW w \in Workers, NEW s \in Symbols, PlaceFind(w, s)
      PROVE  BroadcasterInv'
  <2>1. CASE trade_broadcaster
    BY <1>1, <2>1 DEF PlaceFind, BroadcasterInv, TypeInv, Goto, Threads, Placing,
       Entering, answers, table, locals
  <2>2. CASE ~trade_broadcaster
    <3>1. find_book(s) = NULL
      BY <2>2, EmptyTable DEF BroadcasterInv
    <3> QED
      BY <1>1, <2>2, <3>1 DEF PlaceFind, BroadcasterInv, TypeInv, Goto, Threads, Placing,
         Entering, answers, table, locals
  <2> QED
    BY <2>1, <2>2
<1>2. ASSUME NEW w \in Workers, PlaceCreate(w)
      PROVE  BroadcasterInv'
  BY <1>2 DEF PlaceCreate, BroadcasterInv, TypeInv, Goto, Threads, Placing, Entering,
     answers, table, locals
<1>3. ASSUME NEW w \in Workers, PlaceStoreBook(w)
      PROVE  BroadcasterInv'
  BY <1>3 DEF PlaceStoreBook, BroadcasterInv, TypeInv, Goto, Threads, Placing, Entering,
     answers, table, locals
<1>4. ASSUME NEW w \in Workers, PlaceStoreSymbol(w)
      PROVE  BroadcasterInv'
  BY <1>4 DEF PlaceStoreSymbol, BroadcasterInv, TypeInv, Goto, Threads, Placing,
     Entering, answers, table, locals
<1>5. ASSUME NEW w \in Workers, PlaceReadCount(w)
      PROVE  BroadcasterInv'
  BY <1>5 DEF PlaceReadCount, BroadcasterInv, TypeInv, Goto, Threads, Placing, Entering,
     answers, table, locals
<1>6. ASSUME NEW w \in Workers, PlaceWriteCount(w)
      PROVE  BroadcasterInv'
  BY <1>6 DEF PlaceWriteCount, BroadcasterInv, TypeInv, Goto, Threads, Placing, Entering,
     answers, table, locals
<1>7. ASSUME NEW w \in Workers, PlaceRead(w)
      PROVE  BroadcasterInv'
  BY <1>7 DEF PlaceRead, BroadcasterInv, TypeInv, Goto, Threads, Placing, Entering,
     answers, table, locals
<1>8. ASSUME NEW w \in Workers, PlaceAdd(w)
      PROVE  BroadcasterInv'
  BY <1>8 DEF PlaceAdd, BroadcasterInv, TypeInv, Goto, Threads, Placing, Entering,
     answers, table, locals
<1>9. ASSUME NEW w \in Workers, PlaceFail(w)
      PROVE  BroadcasterInv'
  BY <1>9 DEF PlaceFail, BroadcasterInv, TypeInv, Goto, Threads, Placing, Entering,
     answers, table, locals
<1>10. ASSUME NEW w \in Workers, NEW s \in Symbols, NEW order \in 1..MaxOrders,
             handle_cancel_order(w, s, order)
      PROVE  BroadcasterInv'
  BY <1>10 DEF handle_cancel_order, BroadcasterInv, TypeInv, Goto, Threads, Placing,
     Entering, answers, table, locals
<1>11. ASSUME NEW w \in Workers, NEW s \in Symbols, handle_book_request(w, s)
      PROVE  BroadcasterInv'
  BY <1>11 DEF handle_book_request, BroadcasterInv, TypeInv, Goto, Threads, Placing,
     Entering, answers, table, locals
<1>12. ASSUME NEW t \in Callers, NEW s \in Symbols, AddCheck(t, s)
      PROVE  BroadcasterInv'
  BY <1>12 DEF AddCheck, BroadcasterInv, TypeInv, Goto, Threads, Placing, Entering,
     answers, table, locals
<1>13. ASSUME NEW t \in Callers, AddLocked(t)
      PROVE  BroadcasterInv'
  BY <1>13 DEF AddLocked, BroadcasterInv, TypeInv, Goto, Threads, Placing, Entering,
     answers, table, locals
<1>14. ASSUME UNCHANGED vars
      PROVE  BroadcasterInv'
  BY <1>14 DEF vars, BroadcasterInv, TypeInv, Goto, Threads, Placing, Entering, answers,
     table, locals
<1> QED
  BY <1>1, <1>2, <1>3, <1>4, <1>5, <1>6, <1>7, <1>8, <1>9, <1>10, <1>11, <1>12, <1>13,
     <1>14, NextCases

-----------------------------------------------------------------------------
(* What a step does to the entries and to the orders in the books.         *)

\* The entries below book_count stay as they are.
EntriesStay ==
  /\ book_count' \in Nat /\ book_count' >= book_count
  /\ \A i \in 0..(book_count - 1) :
       /\ i \in DOMAIN books' /\ books'[i] = books[i]
       /\ i \in DOMAIN symbols' /\ symbols'[i] = symbols[i]

\* No book goes away and no order leaves one.
OrdersStay ==
  \A b \in DOMAIN contents : b \in DOMAIN contents' /\ contents[b] \subseteq contents'[b]

\* The flag is never cleared.
LEMMA NotOverlappedBefore ==
  ASSUME TypeInv, [Next]_vars, ~overlapped'
  PROVE  ~overlapped
<1>1. ASSUME NEW w \in Workers, NEW s \in Symbols, PlaceFind(w, s)
      PROVE  ~overlapped
  BY <1>1 DEF PlaceFind, TypeInv, answers, table, locals
<1>2. ASSUME NEW w \in Workers, PlaceCreate(w)
      PROVE  ~overlapped
  BY <1>2 DEF PlaceCreate, TypeInv, answers, table, locals
<1>3. ASSUME NEW w \in Workers, PlaceStoreBook(w)
      PROVE  ~overlapped
  BY <1>3 DEF PlaceStoreBook, TypeInv, answers, table, locals
<1>4. ASSUME NEW w \in Workers, PlaceStoreSymbol(w)
      PROVE  ~overlapped
  BY <1>4 DEF PlaceStoreSymbol, TypeInv, answers, table, locals
<1>5. ASSUME NEW w \in Workers, PlaceReadCount(w)
      PROVE  ~overlapped
  BY <1>5 DEF PlaceReadCount, TypeInv, answers, table, locals
<1>6. ASSUME NEW w \in Workers, PlaceWriteCount(w)
      PROVE  ~overlapped
  BY <1>6 DEF PlaceWriteCount, TypeInv, answers, table, locals
<1>7. ASSUME NEW w \in Workers, PlaceRead(w)
      PROVE  ~overlapped
  BY <1>7 DEF PlaceRead, TypeInv, answers, table, locals
<1>8. ASSUME NEW w \in Workers, PlaceAdd(w)
      PROVE  ~overlapped
  BY <1>8 DEF PlaceAdd, TypeInv, answers, table, locals
<1>9. ASSUME NEW w \in Workers, PlaceFail(w)
      PROVE  ~overlapped
  BY <1>9 DEF PlaceFail, TypeInv, answers, table, locals
<1>10. ASSUME NEW w \in Workers, NEW s \in Symbols, NEW order \in 1..MaxOrders,
             handle_cancel_order(w, s, order)
      PROVE  ~overlapped
  BY <1>10 DEF handle_cancel_order, TypeInv, answers, table, locals
<1>11. ASSUME NEW w \in Workers, NEW s \in Symbols, handle_book_request(w, s)
      PROVE  ~overlapped
  BY <1>11 DEF handle_book_request, TypeInv, answers, table, locals
<1>12. ASSUME NEW t \in Callers, NEW s \in Symbols, AddCheck(t, s)
      PROVE  ~overlapped
  BY <1>12 DEF AddCheck, TypeInv, answers, table, locals
<1>13. ASSUME NEW t \in Callers, AddLocked(t)
      PROVE  ~overlapped
  BY <1>13 DEF AddLocked, TypeInv, answers, table, locals
<1>14. ASSUME UNCHANGED vars
      PROVE  ~overlapped
  BY <1>14 DEF vars, TypeInv, answers, table, locals
<1> QED
  BY <1>1, <1>2, <1>3, <1>4, <1>5, <1>6, <1>7, <1>8, <1>9, <1>10, <1>11, <1>12, <1>13,
     <1>14, NextCases

LEMMA EntriesStayStep ==
  ASSUME TypeInv, SoundInv, [Next]_vars
  PROVE  EntriesStay
<1>a. ASSUME UNCHANGED table
      PROVE  EntriesStay
  BY <1>a DEF EntriesStay, TableInv, SoundInv, TypeInv, table
<1>1. ASSUME NEW w \in Workers, NEW s \in Symbols, PlaceFind(w, s)
      PROVE  EntriesStay
  BY <1>1, <1>a DEF PlaceFind
<1>2. ASSUME NEW w \in Workers, PlaceCreate(w)
      PROVE  EntriesStay
  BY <1>2, <1>a DEF PlaceCreate
<1>3. ASSUME NEW w \in Workers, PlaceStoreBook(w)
      PROVE  EntriesStay
  BY <1>3 DEF PlaceStoreBook, EntriesStay, Store, TableInv, SoundInv, TypeInv, table
<1>4. ASSUME NEW w \in Workers, PlaceStoreSymbol(w)
      PROVE  EntriesStay
  BY <1>4 DEF PlaceStoreSymbol, EntriesStay, Store, TableInv, SoundInv, TypeInv, table
<1>5. ASSUME NEW w \in Workers, PlaceReadCount(w)
      PROVE  EntriesStay
  BY <1>5, <1>a DEF PlaceReadCount
<1>6. ASSUME NEW w \in Workers, PlaceWriteCount(w)
      PROVE  EntriesStay
  <2>1. count[w] = book_count
    BY <1>6 DEF PlaceWriteCount, SoundInv, EnterInv, Written, Creating
  <2> QED
    BY <1>6, <2>1 DEF PlaceWriteCount, EntriesStay, TableInv, SoundInv, TypeInv, table
<1>7. ASSUME NEW w \in Workers, PlaceRead(w)
      PROVE  EntriesStay
  BY <1>7, <1>a DEF PlaceRead
<1>8. ASSUME NEW w \in Workers, PlaceAdd(w)
      PROVE  EntriesStay
  BY <1>8, <1>a DEF PlaceAdd
<1>9. ASSUME NEW w \in Workers, PlaceFail(w)
      PROVE  EntriesStay
  BY <1>9, <1>a DEF PlaceFail
<1>10. ASSUME NEW w \in Workers, NEW s \in Symbols, NEW order \in 1..MaxOrders,
             handle_cancel_order(w, s, order)
      PROVE  EntriesStay
  BY <1>10, <1>a DEF handle_cancel_order
<1>11. ASSUME NEW w \in Workers, NEW s \in Symbols, handle_book_request(w, s)
      PROVE  EntriesStay
  BY <1>11, <1>a DEF handle_book_request
<1>12. ASSUME NEW t \in Callers, NEW s \in Symbols, AddCheck(t, s)
      PROVE  EntriesStay
  BY <1>12, <1>a DEF AddCheck
<1>13. ASSUME NEW t \in Callers, AddLocked(t)
      PROVE  EntriesStay
  BY <1>13 DEF AddLocked, EntriesStay, Store, TableInv, SoundInv, TypeInv, table
<1>14. ASSUME UNCHANGED vars
      PROVE  EntriesStay
  BY <1>14, <1>a DEF vars, table
<1> QED
  BY <1>1, <1>2, <1>3, <1>4, <1>5, <1>6, <1>7, <1>8, <1>9, <1>10, <1>11, <1>12, <1>13,
     <1>14, NextCases

LEMMA OrdersStayStep ==
  ASSUME TypeInv, SoundInv, [Next]_vars
  PROVE  OrdersStay
<1> USE DEF OrdersStay
<1>1. ASSUME NEW w \in Workers, NEW s \in Symbols, PlaceFind(w, s)
      PROVE  OrdersStay
  BY <1>1 DEF PlaceFind
<1>2. ASSUME NEW w \in Workers, PlaceCreate(w)
      PROVE  OrdersStay
  <2>1. CASE trade_broadcaster
    BY <1>2, <2>1, NewBookIsNew DEF PlaceCreate, WithNewBook, Store
  <2>2. CASE ~trade_broadcaster
    BY <1>2, <2>2 DEF PlaceCreate
  <2> QED
    BY <2>1, <2>2
<1>3. ASSUME NEW w \in Workers, PlaceStoreBook(w)
      PROVE  OrdersStay
  BY <1>3 DEF PlaceStoreBook
<1>4. ASSUME NEW w \in Workers, PlaceStoreSymbol(w)
      PROVE  OrdersStay
  BY <1>4 DEF PlaceStoreSymbol
<1>5. ASSUME NEW w \in Workers, PlaceReadCount(w)
      PROVE  OrdersStay
  BY <1>5 DEF PlaceReadCount
<1>6. ASSUME NEW w \in Workers, PlaceWriteCount(w)
      PROVE  OrdersStay
  BY <1>6 DEF PlaceWriteCount
<1>7. ASSUME NEW w \in Workers, PlaceRead(w)
      PROVE  OrdersStay
  BY <1>7 DEF PlaceRead
<1>8. ASSUME NEW w \in Workers, PlaceAdd(w)
      PROVE  OrdersStay
  <2>1. seen[w] = contents[book[w]]
    BY <1>8 DEF PlaceAdd, SoundInv, InsertInv
  <2> QED
    BY <1>8, <2>1 DEF PlaceAdd
<1>9. ASSUME NEW w \in Workers, PlaceFail(w)
      PROVE  OrdersStay
  BY <1>9 DEF PlaceFail
<1>10. ASSUME NEW w \in Workers, NEW s \in Symbols, NEW order \in 1..MaxOrders,
             handle_cancel_order(w, s, order)
      PROVE  OrdersStay
  BY <1>10 DEF handle_cancel_order
<1>11. ASSUME NEW w \in Workers, NEW s \in Symbols, handle_book_request(w, s)
      PROVE  OrdersStay
  BY <1>11 DEF handle_book_request
<1>12. ASSUME NEW t \in Callers, NEW s \in Symbols, AddCheck(t, s)
      PROVE  OrdersStay
  BY <1>12 DEF AddCheck
<1>13. ASSUME NEW t \in Callers, AddLocked(t)
      PROVE  OrdersStay
  <2>1. CASE UNCHANGED contents
    BY <2>1
  <2>2. CASE ~UNCHANGED contents
    <3>1. trade_broadcaster /\ contents' = WithNewBook(order_book_create)
      BY <1>13, <2>2 DEF AddLocked
    <3> QED
      BY <3>1, NewBookIsNew DEF WithNewBook, Store
  <2> QED
    BY <2>1, <2>2
<1>14. ASSUME UNCHANGED vars
      PROVE  OrdersStay
  BY <1>14 DEF vars
<1> QED
  BY <1>1, <1>2, <1>3, <1>4, <1>5, <1>6, <1>7, <1>8, <1>9, <1>10, <1>11, <1>12, <1>13,
     <1>14, NextCases

-----------------------------------------------------------------------------
(* The table, the entry that is being written, the insertions and the      *)
(* confirmed orders, for a step after which no two workers overlapped.     *)

\* A step that leaves the table alone, and no book goes away.
LEMMA TableKept ==
  ASSUME TypeInv, TableInv, OrdersStay, EntriesStay, book_count' = book_count
  PROVE  TableInv'
BY DEF TypeInv, TableInv, OrdersStay, EntriesStay

\* A step that adds a complete entry for a symbol that had none.
LEMMA TableGrows ==
  ASSUME TypeInv, TableInv, OrdersStay, EntriesStay, book_count' = book_count + 1,
         book_count \in DOMAIN books', books'[book_count] \in DOMAIN contents',
         book_count \in DOMAIN symbols', symbols'[book_count] \in Symbols,
         \A i \in 0..(book_count - 1) : symbols[i] # symbols'[book_count]
  PROVE  TableInv'
<1>1. \A i \in 0..book_count : i \in 0..(book_count - 1) \/ i = book_count
  BY DEF TypeInv
<1>2. 0..(book_count' - 1) = 0..book_count
  BY DEF TypeInv
<1>3. ASSUME NEW i \in 0..book_count
      PROVE  /\ i \in DOMAIN books' /\ books'[i] \in DOMAIN contents'
             /\ i \in DOMAIN symbols' /\ symbols'[i] \in Symbols
  BY <1>1 DEF TableInv, OrdersStay, EntriesStay
<1>4. ASSUME NEW i \in 0..book_count, NEW j \in 0..book_count, symbols'[i] = symbols'[j]
      PROVE  i = j
  BY <1>1, <1>4 DEF TableInv, EntriesStay
<1> QED
  BY <1>2, <1>3, <1>4 DEF TableInv

LEMMA TablePreserved ==
  ASSUME TypeInv, LockInv, SoundInv, [Next]_vars
  PROVE  TableInv'
<1> USE EntriesStayStep, OrdersStayStep, TableKept DEF SoundInv
<1>1. ASSUME NEW w \in Workers, NEW s \in Symbols, PlaceFind(w, s)
      PROVE  TableInv'
  BY <1>1 DEF PlaceFind, table
<1>2. ASSUME NEW w \in Workers, PlaceCreate(w)
      PROVE  TableInv'
  BY <1>2 DEF PlaceCreate, table
<1>3. ASSUME NEW w \in Workers, PlaceStoreBook(w)
      PROVE  TableInv'
  BY <1>3 DEF PlaceStoreBook, table
<1>4. ASSUME NEW w \in Workers, PlaceStoreSymbol(w)
      PROVE  TableInv'
  BY <1>4 DEF PlaceStoreSymbol, table
<1>5. ASSUME NEW w \in Workers, PlaceReadCount(w)
      PROVE  TableInv'
  BY <1>5 DEF PlaceReadCount, table
<1>6. ASSUME NEW w \in Workers, PlaceWriteCount(w)
      PROVE  TableInv'
  <2>1. w \in Creating /\ Written(w)
    BY <1>6 DEF PlaceWriteCount, EnterInv, Creating
  <2>2. count[w] = book_count
    BY <1>6, <2>1 DEF PlaceWriteCount, Written
  <2>3. /\ book_count' = book_count + 1
        /\ UNCHANGED <<books, symbols, contents>>
    BY <1>6, <2>2 DEF PlaceWriteCount
  <2>4. /\ book_count \in DOMAIN books /\ books[book_count] \in DOMAIN contents
        /\ book_count \in DOMAIN symbols /\ symbols[book_count] = symbol[w]
        /\ \A i \in 0..(book_count - 1) : symbols[i] # symbol[w]
    BY <1>6, <2>1 DEF PlaceWriteCount, Written
  <2>5. symbol[w] \in Symbols
    BY <1>6 DEF PlaceWriteCount, TypeInv, Threads
  <2> QED
    BY <2>3, <2>4, <2>5, TableGrows
<1>7. ASSUME NEW w \in Workers, PlaceRead(w)
      PROVE  TableInv'
  BY <1>7 DEF PlaceRead, table
<1>8. ASSUME NEW w \in Workers, PlaceAdd(w)
      PROVE  TableInv'
  BY <1>8 DEF PlaceAdd, table
<1>9. ASSUME NEW w \in Workers, PlaceFail(w)
      PROVE  TableInv'
  BY <1>9 DEF PlaceFail, table
<1>10. ASSUME NEW w \in Workers, NEW s \in Symbols, NEW order \in 1..MaxOrders,
             handle_cancel_order(w, s, order)
      PROVE  TableInv'
  BY <1>10 DEF handle_cancel_order, table
<1>11. ASSUME NEW w \in Workers, NEW s \in Symbols, handle_book_request(w, s)
      PROVE  TableInv'
  BY <1>11 DEF handle_book_request, table
<1>12. ASSUME NEW t \in Callers, NEW s \in Symbols, AddCheck(t, s)
      PROVE  TableInv'
  BY <1>12 DEF AddCheck, table
<1>13. ASSUME NEW t \in Callers, AddLocked(t)
      PROVE  TableInv'
  <2>1. CASE UNCHANGED <<table, contents>>
    BY <2>1 DEF table
  <2>2. CASE ~UNCHANGED <<table, contents>>
    <3>1. /\ trade_broadcaster
          /\ contents' = WithNewBook(order_book_create)
          /\ symbols' = Store(symbols, book_count, symbol[t])
          /\ books' = Store(books, book_count, order_book_create)
          /\ book_count' = book_count + 1
          /\ \A i \in DOMAIN symbols : ~(i < book_count /\ symbols[i] = symbol[t])
      BY <1>13, <2>2 DEF AddLocked
    <3>2. symbol[t] \in Symbols
      BY <1>13 DEF AddLocked, TypeInv, Threads
    <3>3. /\ book_count \in DOMAIN books' /\ books'[book_count] \in DOMAIN contents'
          /\ book_count \in DOMAIN symbols' /\ symbols'[book_count] = symbol[t]
      BY <3>1 DEF Store, WithNewBook
    <3>4. ASSUME NEW i \in 0..(book_count - 1) PROVE symbols[i] # symbol[t]
      <4>1. i \in DOMAIN symbols
        BY DEF TableInv
      <4>2. i < book_count
        BY DEF TypeInv
      <4> QED
        BY <3>1, <4>1, <4>2
    <3> QED
      BY <3>1, <3>2, <3>3, <3>4, TableGrows
  <2> QED
    BY <2>1, <2>2
<1>14. ASSUME UNCHANGED vars
      PROVE  TableInv'
  BY <1>14 DEF vars, table
<1> QED
  BY <1>1, <1>2, <1>3, <1>4, <1>5, <1>6, <1>7, <1>8, <1>9, <1>10, <1>11, <1>12, <1>13,
     <1>14, NextCases

LEMMA EnterPreserved ==
  ASSUME TypeInv, LockInv, SoundInv, [Next]_vars, ~overlapped'
  PROVE  EnterInv'
<1>1. ASSUME NEW w \in Workers, NEW s \in Symbols, PlaceFind(w, s)
      PROVE  EnterInv'
  <2>1. CASE find_book(s) = NULL
    <3>1. Creating = {}
      BY <1>1, <2>1 DEF PlaceFind
    <3>2. \A v \in Creating' : v = w
      BY <1>1, <2>1, <3>1 DEF PlaceFind, Creating, Goto, Threads, TypeInv
    <3>3. \A i \in 0..(book_count - 1) : symbols[i] # s
      BY <2>1, FindsNone DEF SoundInv
    <3>4. Written(w)'
      BY <1>1, <2>1, <3>3 DEF PlaceFind, Written, Goto, Threads, TypeInv, table
    <3> QED
      BY <3>2, <3>4 DEF EnterInv
  <2>2. CASE find_book(s) # NULL
    <3>1. w \notin Creating /\ Creating' = Creating
      BY <1>1, <2>2 DEF PlaceFind, Creating, Goto, Threads, TypeInv
    <3>2. ASSUME NEW v \in Creating PROVE Written(v)'
      <4>1. v # w /\ v \in Workers /\ Written(v)
        BY <3>1, <3>2 DEF SoundInv, EnterInv, Creating
      <4> QED
        BY <1>1, <2>2, <4>1 DEF PlaceFind, Written, Goto, Threads, TypeInv, table
    <3> QED
      BY <3>1, <3>2 DEF SoundInv, EnterInv
  <2> QED
    BY <2>1, <2>2
<1>2. ASSUME NEW w \in Workers, PlaceCreate(w)
      PROVE  EnterInv'
  <2>1. w \in Creating /\ \A v \in Creating : v = w
    BY <1>2 DEF PlaceCreate, SoundInv, EnterInv, Creating
  <2>2. \A v \in Creating' : v = w
    BY <1>2, <2>1 DEF PlaceCreate, Creating, Goto, Threads, TypeInv
  <2>3. Written(w)
    BY <2>1 DEF SoundInv, EnterInv
  <2>4. CASE trade_broadcaster
    <3>1. book'[w] \in DOMAIN contents'
      BY <1>2, <2>4 DEF PlaceCreate, WithNewBook, Store, TypeInv
    <3>2. /\ \A i \in 0..(book_count' - 1) : symbols'[i] # symbol'[w]
          /\ pc'[w] = "store_book"
      BY <1>2, <2>3, <2>4 DEF PlaceCreate, Written, Goto, Threads, TypeInv, table
    <3>3. Written(w)'
      BY <3>1, <3>2 DEF Written
    <3> QED
      BY <2>2, <3>3 DEF EnterInv
  <2>5. CASE ~trade_broadcaster
    <3>1. Creating' = {}
      BY <1>2, <2>2, <2>5 DEF PlaceCreate, Creating, Goto, Threads, TypeInv
    <3> QED
      BY <3>1 DEF EnterInv
  <2> QED
    BY <2>4, <2>5
<1>3. ASSUME NEW w \in Workers, PlaceStoreBook(w)
      PROVE  EnterInv'
  <2>1. w \in Creating /\ \A v \in Creating : v = w
    BY <1>3 DEF PlaceStoreBook, SoundInv, EnterInv, Creating
  <2>2. \A v \in Creating' : v = w
    BY <1>3, <2>1 DEF PlaceStoreBook, Creating, Goto, Threads, TypeInv
  <2>3. Written(w)
    BY <2>1 DEF SoundInv, EnterInv
  <2>4. book_count \in DOMAIN books' /\ books'[book_count] = book[w]
    BY <1>3 DEF PlaceStoreBook, Store
  <2>5. pc'[w] = "store_symbol"
    BY <1>3 DEF PlaceStoreBook, Goto, Threads, TypeInv
  <2>6. Written(w)'
    BY <1>3, <2>3, <2>4, <2>5 DEF PlaceStoreBook, Written, locals
  <2> QED
    BY <2>2, <2>6 DEF EnterInv
<1>4. ASSUME NEW w \in Workers, PlaceStoreSymbol(w)
      PROVE  EnterInv'
  <2>1. w \in Creating /\ \A v \in Creating : v = w
    BY <1>4 DEF PlaceStoreSymbol, SoundInv, EnterInv, Creating
  <2>2. \A v \in Creating' : v = w
    BY <1>4, <2>1 DEF PlaceStoreSymbol, Creating, Goto, Threads, TypeInv
  <2>3. Written(w)
    BY <2>1 DEF SoundInv, EnterInv
  <2>4. book_count \in DOMAIN symbols' /\ symbols'[book_count] = symbol[w]
    BY <1>4 DEF PlaceStoreSymbol, Store
  <2>5. pc'[w] = "read_count"
    BY <1>4 DEF PlaceStoreSymbol, Goto, Threads, TypeInv
  <2>6. \A i \in 0..(book_count - 1) : symbols'[i] = symbols[i]
    BY EntriesStayStep DEF EntriesStay
  <2>7. Written(w)'
    BY <1>4, <2>3, <2>4, <2>5, <2>6 DEF PlaceStoreSymbol, Written, locals
  <2> QED
    BY <2>2, <2>7 DEF EnterInv
<1>5. ASSUME NEW w \in Workers, PlaceReadCount(w)
      PROVE  EnterInv'
  BY <1>5 DEF PlaceReadCount, SoundInv, TypeInv, EnterInv, Creating, Written, Goto,
     Threads, answers, table, locals
<1>6. ASSUME NEW w \in Workers, PlaceWriteCount(w)
      PROVE  EnterInv'
  <2>1. \A v \in Creating : v = w
    BY <1>6 DEF PlaceWriteCount, SoundInv, EnterInv, Creating
  <2>2. Creating' = {}
    BY <1>6, <2>1 DEF PlaceWriteCount, Creating, Goto, Threads, TypeInv
  <2> QED
    BY <2>2 DEF EnterInv
<1>7. ASSUME NEW w \in Workers, PlaceRead(w)
      PROVE  EnterInv'
  BY <1>7 DEF PlaceRead, SoundInv, TypeInv, EnterInv, Creating, Written, Goto, Threads,
     answers, table, locals
<1>8. ASSUME NEW w \in Workers, PlaceAdd(w)
      PROVE  EnterInv'
  BY <1>8 DEF PlaceAdd, SoundInv, TypeInv, EnterInv, Creating, Written, Goto, Threads,
     answers, table, locals
<1>9. ASSUME NEW w \in Workers, PlaceFail(w)
      PROVE  EnterInv'
  BY <1>9 DEF PlaceFail, SoundInv, TypeInv, EnterInv, Creating, Written, Goto, Threads,
     answers, table, locals
<1>10. ASSUME NEW w \in Workers, NEW s \in Symbols, NEW order \in 1..MaxOrders,
             handle_cancel_order(w, s, order)
      PROVE  EnterInv'
  BY <1>10 DEF handle_cancel_order, SoundInv, TypeInv, EnterInv, Creating, Written, Goto,
     Threads, answers, table, locals
<1>11. ASSUME NEW w \in Workers, NEW s \in Symbols, handle_book_request(w, s)
      PROVE  EnterInv'
  BY <1>11 DEF handle_book_request, SoundInv, TypeInv, EnterInv, Creating, Written, Goto,
     Threads, answers, table, locals
<1>12. ASSUME NEW t \in Callers, NEW s \in Symbols, AddCheck(t, s)
      PROVE  EnterInv'
  BY <1>12 DEF AddCheck, SoundInv, TypeInv, EnterInv, Creating, Written, Goto, Threads,
     answers, table, locals
<1>13. ASSUME NEW t \in Callers, AddLocked(t)
      PROVE  EnterInv'
  <2>1. \A w \in Workers : pc[w] \in {"idle", "write_lock"}
    BY <1>13, WriteLockExcludes DEF AddLocked
  <2>2. Creating' = {}
    BY <1>13, <2>1 DEF AddLocked, Creating, Goto, Threads, TypeInv
  <2> QED
    BY <2>2 DEF EnterInv
<1>14. ASSUME UNCHANGED vars
      PROVE  EnterInv'
  BY <1>14 DEF vars, SoundInv, TypeInv, EnterInv, Creating, Written, Goto, Threads,
     answers, table, locals
<1> QED
  BY <1>1, <1>2, <1>3, <1>4, <1>5, <1>6, <1>7, <1>8, <1>9, <1>10, <1>11, <1>12, <1>13,
     <1>14, NextCases

\* An entry stays an entry for the same symbol and the same book.
LEMMA EntryKept ==
  ASSUME TypeInv, EntriesStay, NEW s, NEW b, NEW k \in Nat, Entry(k, s, b)
  PROVE  /\ k < book_count'
         /\ k \in DOMAIN symbols' /\ symbols'[k] = s
         /\ k \in DOMAIN books' /\ books'[k] = b
<1>2. k \in 0..(book_count - 1) /\ symbols[k] = s /\ books[k] = b
  BY DEF Entry, TypeInv
<1>3. /\ k \in DOMAIN books' /\ books'[k] = books[k]
      /\ k \in DOMAIN symbols' /\ symbols'[k] = symbols[k]
  BY <1>2 DEF EntriesStay
<1>4. k < book_count'
  BY <1>2 DEF EntriesStay, TypeInv
<1> QED
  BY <1>2, <1>3, <1>4

\* A worker that inserts an order is at an entry of the table.
AtEntry(w) == pc[w] \in {"add", "adding"} => \E i \in Nat : Entry(i, symbol[w], book[w])

\* A worker that was inserting an order, and goes on with the same book.
LEMMA AtEntryKept ==
  ASSUME TypeInv, EntriesStay, NEW w \in Workers, AtEntry(w),
         symbol'[w] = symbol[w], book'[w] = book[w],
         pc'[w] \in {"add", "adding"} => pc[w] \in {"add", "adding"}
  PROVE  AtEntry(w)'
<1> SUFFICES ASSUME pc'[w] \in {"add", "adding"}
             PROVE  \E i \in Nat : Entry(i, symbol[w], book[w])'
  BY DEF AtEntry
<1>1. PICK k \in Nat : Entry(k, symbol[w], book[w])
  BY DEF AtEntry
<1>2. /\ k < book_count'
      /\ k \in DOMAIN symbols' /\ symbols'[k] = symbol[w]
      /\ k \in DOMAIN books' /\ books'[k] = book[w]
  BY <1>1, EntryKept
<1> QED
  BY <1>2 DEF Entry

LEMMA AtEntryPreserved ==
  ASSUME TypeInv, LockInv, SoundInv, [Next]_vars, NEW v \in Workers
  PROVE  AtEntry(v)'
<1> USE EntriesStayStep
<1>a. AtEntry(v)
  BY DEF AtEntry, SoundInv, InsertInv
<1>1. ASSUME NEW w \in Workers, NEW s \in Symbols, PlaceFind(w, s)
      PROVE  AtEntry(v)'
  <2>1. CASE v # w
    BY <1>1, <1>a, <2>1, AtEntryKept DEF PlaceFind, TypeInv, Threads, Goto, locals
  <2>2. CASE v = w /\ find_book(s) = NULL
    BY <1>1, <2>2 DEF PlaceFind, AtEntry, TypeInv, Threads, Goto, locals
  <2>3. CASE v = w /\ find_book(s) # NULL
    <3>1. \E i \in Nat : Entry(i, s, find_book(s))
      BY <2>3, FoundIsEntry DEF SoundInv
    <3>2. symbol'[v] = s /\ book'[v] = find_book(s) /\ UNCHANGED <<books, symbols, book_count>>
      BY <1>1, <2>3 DEF PlaceFind, table, TypeInv, Threads, Goto, locals
    <3> QED
      BY <3>1, <3>2 DEF AtEntry, Entry
  <2> QED
    BY <2>1, <2>2, <2>3
<1>2. ASSUME NEW w \in Workers, PlaceCreate(w)
      PROVE  AtEntry(v)'
  <2>1. CASE v # w
    BY <1>2, <1>a, <2>1, AtEntryKept DEF PlaceCreate, TypeInv, Threads, Goto, locals
  <2>2. CASE v = w
    BY <1>2, <2>2 DEF PlaceCreate, AtEntry, TypeInv, Threads, Goto, locals
  <2> QED
    BY <2>1, <2>2
<1>3. ASSUME NEW w \in Workers, PlaceStoreBook(w)
      PROVE  AtEntry(v)'
  BY <1>3, <1>a, AtEntryKept DEF PlaceStoreBook, TypeInv, Threads, Goto, locals
<1>4. ASSUME NEW w \in Workers, PlaceStoreSymbol(w)
      PROVE  AtEntry(v)'
  BY <1>4, <1>a, AtEntryKept DEF PlaceStoreSymbol, TypeInv, Threads, Goto, locals
<1>5. ASSUME NEW w \in Workers, PlaceReadCount(w)
      PROVE  AtEntry(v)'
  BY <1>5, <1>a, AtEntryKept DEF PlaceReadCount, TypeInv, Threads, Goto, locals
<1>6. ASSUME NEW w \in Workers, PlaceWriteCount(w)
      PROVE  AtEntry(v)'
  <2>1. CASE v # w
    BY <1>6, <1>a, <2>1, AtEntryKept DEF PlaceWriteCount, TypeInv, Threads, Goto, locals
  <2>2. CASE v = w
    <3>1. Written(w)
      BY <1>6 DEF PlaceWriteCount, SoundInv, EnterInv, Creating
    <3>2. /\ book_count \in DOMAIN books /\ books[book_count] = book[w]
          /\ book_count \in DOMAIN symbols /\ symbols[book_count] = symbol[w]
          /\ count[w] = book_count
      BY <1>6, <3>1 DEF PlaceWriteCount, Written
    <3>3. /\ book_count' = book_count + 1
          /\ UNCHANGED <<books, symbols, symbol, book>>
      BY <1>6, <3>2 DEF PlaceWriteCount, locals
    <3>4. PICK n \in Nat : n = book_count
      BY DEF TypeInv
    <3>5. Entry(n, symbol[w], book[w])'
      BY <3>2, <3>3, <3>4 DEF Entry
    <3> QED
      BY <2>2, <3>5 DEF AtEntry
  <2> QED
    BY <2>1, <2>2
<1>7. ASSUME NEW w \in Workers, PlaceRead(w)
      PROVE  AtEntry(v)'
  BY <1>7, <1>a, AtEntryKept DEF PlaceRead, TypeInv, Threads, Goto, locals
<1>8. ASSUME NEW w \in Workers, PlaceAdd(w)
      PROVE  AtEntry(v)'
  BY <1>8, <1>a, AtEntryKept DEF PlaceAdd, TypeInv, Threads, Goto, locals
<1>9. ASSUME NEW w \in Workers, PlaceFail(w)
      PROVE  AtEntry(v)'
  BY <1>9, <1>a, AtEntryKept DEF PlaceFail, TypeInv, Threads, Goto, locals
<1>10. ASSUME NEW w \in Workers, NEW s \in Symbols, NEW order \in 1..MaxOrders,
             handle_cancel_order(w, s, order)
      PROVE  AtEntry(v)'
  BY <1>10, <1>a, AtEntryKept DEF handle_cancel_order, TypeInv, Threads, Goto, locals
<1>11. ASSUME NEW w \in Workers, NEW s \in Symbols, handle_book_request(w, s)
      PROVE  AtEntry(v)'
  BY <1>11, <1>a, AtEntryKept DEF handle_book_request, TypeInv, Threads, Goto, locals
<1>12. ASSUME NEW t \in Callers, NEW s \in Symbols, AddCheck(t, s)
      PROVE  AtEntry(v)'
  <2>1. CASE v # t
    BY <1>12, <1>a, <2>1, AtEntryKept DEF AddCheck, TypeInv, Threads, Goto, locals
  <2>2. CASE v = t
    BY <1>12, <2>2 DEF AddCheck, AtEntry, TypeInv, Threads, Goto, locals
  <2> QED
    BY <2>1, <2>2
<1>13. ASSUME NEW t \in Callers, AddLocked(t)
      PROVE  AtEntry(v)'
  BY <1>13, <1>a, AtEntryKept DEF AddLocked, TypeInv, Threads, Goto, locals
<1>14. ASSUME UNCHANGED vars
      PROVE  AtEntry(v)'
  BY <1>14, <1>a, AtEntryKept DEF vars
<1> QED
  BY <1>1, <1>2, <1>3, <1>4, <1>5, <1>6, <1>7, <1>8, <1>9, <1>10, <1>11, <1>12, <1>13,
     <1>14, NextCases

\* The book a worker inserts in exists.
LEMMA InsertsInBook ==
  ASSUME TypeInv, SoundInv, NEW w \in Workers, pc[w] \in {"add", "adding"}
  PROVE  book[w] \in DOMAIN contents
<1>1. PICK k \in Nat : Entry(k, symbol[w], book[w])
  BY DEF SoundInv, InsertInv
<1>2. k < book_count /\ books[k] = book[w]
  BY <1>1 DEF Entry
<1>3. k \in 0..(book_count - 1)
  BY <1>2 DEF TypeInv
<1> QED
  BY <1>2, <1>3 DEF SoundInv, TableInv

\* What worker v has read of its book is what the book holds.
Fresh(v) == pc[v] = "adding" => seen[v] = contents[book[v]]

LEMMA FreshKept ==
  ASSUME NEW v \in Workers, Fresh(v),
         pc'[v] = "adding" => pc[v] = "adding",
         pc'[v] = "adding" => /\ seen'[v] = seen[v] /\ book'[v] = book[v]
                              /\ contents'[book[v]] = contents[book[v]]
  PROVE  Fresh(v)'
BY DEF Fresh

LEMMA FreshPreserved ==
  ASSUME TypeInv, LockInv, SoundInv, [Next]_vars, NEW v \in Workers
  PROVE  Fresh(v)'
<1>a. Fresh(v)
  BY DEF Fresh, SoundInv, InsertInv
<1>b. pc[v] = "adding" => book[v] \in DOMAIN contents
  BY InsertsInBook
<1>1. ASSUME NEW w \in Workers, NEW s \in Symbols, PlaceFind(w, s)
      PROVE  Fresh(v)'
  BY <1>1, <1>a, FreshKept DEF PlaceFind, TypeInv, Threads, Goto, locals
<1>2. ASSUME NEW w \in Workers, PlaceCreate(w)
      PROVE  Fresh(v)'
  <2>1. pc[v] = "adding" => contents'[book[v]] = contents[book[v]]
    BY <1>2, <1>b, NewBookIsNew DEF PlaceCreate, WithNewBook, Store
  <2> QED
    BY <1>2, <1>a, <2>1, FreshKept DEF PlaceCreate, TypeInv, Threads, Goto, locals
<1>3. ASSUME NEW w \in Workers, PlaceStoreBook(w)
      PROVE  Fresh(v)'
  BY <1>3, <1>a, FreshKept DEF PlaceStoreBook, TypeInv, Threads, Goto, locals
<1>4. ASSUME NEW w \in Workers, PlaceStoreSymbol(w)
      PROVE  Fresh(v)'
  BY <1>4, <1>a, FreshKept DEF PlaceStoreSymbol, TypeInv, Threads, Goto, locals
<1>5. ASSUME NEW w \in Workers, PlaceReadCount(w)
      PROVE  Fresh(v)'
  BY <1>5, <1>a, FreshKept DEF PlaceReadCount, TypeInv, Threads, Goto, locals
<1>6. ASSUME NEW w \in Workers, PlaceWriteCount(w)
      PROVE  Fresh(v)'
  BY <1>6, <1>a, FreshKept DEF PlaceWriteCount, TypeInv, Threads, Goto, locals
<1>7. ASSUME NEW w \in Workers, PlaceRead(w)
      PROVE  Fresh(v)'
  <2>1. CASE v # w
    BY <1>7, <1>a, <2>1, FreshKept DEF PlaceRead, TypeInv, Threads, Goto, locals
  <2>2. CASE v = w
    BY <1>7, <2>2 DEF PlaceRead, Fresh, TypeInv, Threads, Goto, locals
  <2> QED
    BY <2>1, <2>2
<1>8. ASSUME NEW w \in Workers, PlaceAdd(w)
      PROVE  Fresh(v)'
  <2>1. CASE v = w
    BY <1>8, <2>1 DEF PlaceAdd, Fresh, TypeInv, Threads, Goto, locals
  <2>2. CASE v # w
    <3>1. pc[v] = "adding" => book[v] # book[w]
      BY <1>8, <2>2 DEF PlaceAdd, SoundInv, InsertInv
    <3>2. pc[v] = "adding" => contents'[book[v]] = contents[book[v]]
      BY <1>8, <1>b, <3>1 DEF PlaceAdd
    <3> QED
      BY <1>8, <1>a, <2>2, <3>2, FreshKept DEF PlaceAdd, TypeInv, Threads, Goto, locals
  <2> QED
    BY <2>1, <2>2
<1>9. ASSUME NEW w \in Workers, PlaceFail(w)
      PROVE  Fresh(v)'
  BY <1>9, <1>a, FreshKept DEF PlaceFail, TypeInv, Threads, Goto, locals
<1>10. ASSUME NEW w \in Workers, NEW s \in Symbols, NEW order \in 1..MaxOrders,
             handle_cancel_order(w, s, order)
      PROVE  Fresh(v)'
  BY <1>10, <1>a, FreshKept DEF handle_cancel_order, TypeInv, Threads, Goto, locals
<1>11. ASSUME NEW w \in Workers, NEW s \in Symbols, handle_book_request(w, s)
      PROVE  Fresh(v)'
  BY <1>11, <1>a, FreshKept DEF handle_book_request, TypeInv, Threads, Goto, locals
<1>12. ASSUME NEW t \in Callers, NEW s \in Symbols, AddCheck(t, s)
      PROVE  Fresh(v)'
  BY <1>12, <1>a, FreshKept DEF AddCheck, TypeInv, Threads, Goto, locals
<1>13. ASSUME NEW t \in Callers, AddLocked(t)
      PROVE  Fresh(v)'
  <2>1. pc[v] # "adding"
    BY <1>13, WriteLockExcludes DEF AddLocked
  <2> QED
    BY <1>13, <1>a, <2>1, FreshKept DEF AddLocked, TypeInv, Threads, Goto, locals
<1>14. ASSUME UNCHANGED vars
      PROVE  Fresh(v)'
  BY <1>14, <1>a, FreshKept DEF vars
<1> QED
  BY <1>1, <1>2, <1>3, <1>4, <1>5, <1>6, <1>7, <1>8, <1>9, <1>10, <1>11, <1>12, <1>13,
     <1>14, NextCases

\* No two workers insert in one book.
LEMMA AlonePreserved ==
  ASSUME TypeInv, SoundInv, [Next]_vars, ~overlapped',
         NEW u \in Workers, NEW v \in Workers,
         pc'[u] = "adding", pc'[v] = "adding", book'[u] = book'[v]
  PROVE  u = v
<1>1. ASSUME NEW w \in Workers, NEW s \in Symbols, PlaceFind(w, s)
      PROVE  u = v
  BY <1>1 DEF PlaceFind, SoundInv, InsertInv, TypeInv, Threads, Goto, locals
<1>2. ASSUME NEW w \in Workers, PlaceCreate(w)
      PROVE  u = v
  BY <1>2 DEF PlaceCreate, SoundInv, InsertInv, TypeInv, Threads, Goto, locals
<1>3. ASSUME NEW w \in Workers, PlaceStoreBook(w)
      PROVE  u = v
  BY <1>3 DEF PlaceStoreBook, SoundInv, InsertInv, TypeInv, Threads, Goto, locals
<1>4. ASSUME NEW w \in Workers, PlaceStoreSymbol(w)
      PROVE  u = v
  BY <1>4 DEF PlaceStoreSymbol, SoundInv, InsertInv, TypeInv, Threads, Goto, locals
<1>5. ASSUME NEW w \in Workers, PlaceReadCount(w)
      PROVE  u = v
  BY <1>5 DEF PlaceReadCount, SoundInv, InsertInv, TypeInv, Threads, Goto, locals
<1>6. ASSUME NEW w \in Workers, PlaceWriteCount(w)
      PROVE  u = v
  BY <1>6 DEF PlaceWriteCount, SoundInv, InsertInv, TypeInv, Threads, Goto, locals
<1>7. ASSUME NEW w \in Workers, PlaceRead(w)
      PROVE  u = v
  <2>1. ~Shared(w, book[w])
    BY <1>7 DEF PlaceRead
  <2> QED
    BY <1>7, <2>1 DEF PlaceRead, Shared, SoundInv, InsertInv, TypeInv, Threads, Goto, locals
<1>8. ASSUME NEW w \in Workers, PlaceAdd(w)
      PROVE  u = v
  BY <1>8 DEF PlaceAdd, SoundInv, InsertInv, TypeInv, Threads, Goto, locals
<1>9. ASSUME NEW w \in Workers, PlaceFail(w)
      PROVE  u = v
  BY <1>9 DEF PlaceFail, SoundInv, InsertInv, TypeInv, Threads, Goto, locals
<1>10. ASSUME NEW w \in Workers, NEW s \in Symbols, NEW order \in 1..MaxOrders,
             handle_cancel_order(w, s, order)
      PROVE  u = v
  BY <1>10 DEF handle_cancel_order, SoundInv, InsertInv, TypeInv, Threads, Goto, locals
<1>11. ASSUME NEW w \in Workers, NEW s \in Symbols, handle_book_request(w, s)
      PROVE  u = v
  BY <1>11 DEF handle_book_request, SoundInv, InsertInv, TypeInv, Threads, Goto, locals
<1>12. ASSUME NEW t \in Callers, NEW s \in Symbols, AddCheck(t, s)
      PROVE  u = v
  BY <1>12 DEF AddCheck, SoundInv, InsertInv, TypeInv, Threads, Goto, locals
<1>13. ASSUME NEW t \in Callers, AddLocked(t)
      PROVE  u = v
  BY <1>13 DEF AddLocked, SoundInv, InsertInv, TypeInv, Threads, Goto, locals
<1>14. ASSUME UNCHANGED vars
      PROVE  u = v
  BY <1>14 DEF vars, SoundInv, InsertInv, TypeInv, Threads, Goto, locals
<1> QED
  BY <1>1, <1>2, <1>3, <1>4, <1>5, <1>6, <1>7, <1>8, <1>9, <1>10, <1>11, <1>12, <1>13,
     <1>14, NextCases

LEMMA InsertPreserved ==
  ASSUME TypeInv, LockInv, SoundInv, [Next]_vars, ~overlapped'
  PROVE  InsertInv'
<1>1. \A w \in Workers : AtEntry(w)'
  BY AtEntryPreserved
<1>2. \A w \in Workers : Fresh(w)'
  BY FreshPreserved
<1>3. \A u, v \in Workers :
        pc'[u] = "adding" /\ pc'[v] = "adding" /\ book'[u] = book'[v] => u = v
  BY AlonePreserved
<1> QED
  BY <1>1, <1>2, <1>3 DEF InsertInv, AtEntry, Fresh

\* Order o rests in a book that symbol s leads to.
Reachable(o, s) == \E i \in Nat : Entry(i, s, books[i]) /\ o \in contents[books[i]]

LEMMA ReachableKept ==
  ASSUME TypeInv, TableInv, EntriesStay, OrdersStay, NEW o, NEW s, Reachable(o, s)
  PROVE  Reachable(o, s)'
<1>1. PICK k \in Nat : Entry(k, s, books[k]) /\ o \in contents[books[k]]
  BY DEF Reachable
<1>2. /\ k < book_count' /\ books'[k] = books[k]
      /\ k \in DOMAIN symbols' /\ symbols'[k] = s
      /\ k \in DOMAIN books'
  BY <1>1, EntryKept
<1>3. books[k] \in DOMAIN contents
  BY <1>1 DEF Entry, TableInv, TypeInv
<1>4. o \in contents'[books'[k]]
  BY <1>1, <1>2, <1>3 DEF OrdersStay
<1> QED
  BY <1>2, <1>4 DEF Reachable, Entry

LEMMA ConfirmedPreserved ==
  ASSUME TypeInv, SoundInv, [Next]_vars
  PROVE  ConfirmedInv'
<1>1. EntriesStay /\ OrdersStay /\ TableInv
  BY EntriesStayStep, OrdersStayStep DEF SoundInv
<1>2. \A c \in confirmed : Reachable(c[1], c[2])'
  <2>1. \A c \in confirmed : Reachable(c[1], c[2])
    BY DEF SoundInv, ConfirmedInv, Reachable
  <2> QED
    BY <1>1, <2>1, ReachableKept
<1>3. ASSUME NEW w \in Workers, PlaceAdd(w), NEW c \in confirmed' \ confirmed
      PROVE  Reachable(c[1], c[2])'
  <2>1. c[1] = NewOrder /\ c[2] = symbol[w]
    <3>1. confirmed' = confirmed \cup {<<NewOrder, symbol[w]>>}
      BY <1>3 DEF PlaceAdd
    <3>2. c = <<NewOrder, symbol[w]>>
      BY <3>1
    <3> QED
      BY <3>2
  <2>2. PICK k \in Nat : Entry(k, symbol[w], book[w])
    BY <1>3 DEF PlaceAdd, SoundInv, InsertInv
  <2>3. book[w] \in DOMAIN contents
    BY <1>3, InsertsInBook DEF PlaceAdd
  <2>4. NewOrder \in contents'[book[w]]
    BY <1>3, <2>3 DEF PlaceAdd
  <2>5. UNCHANGED <<books, symbols, book_count>>
    BY <1>3 DEF PlaceAdd, table
  <2> QED
    BY <2>1, <2>2, <2>4, <2>5 DEF Reachable, Entry
<1>4. \/ confirmed' = confirmed
      \/ \E w \in Workers : PlaceAdd(w)
  BY NextCases DEF PlaceFind, PlaceCreate, PlaceStoreBook, PlaceStoreSymbol, PlaceReadCount,
     PlaceWriteCount, PlaceRead, PlaceFail, handle_cancel_order, handle_book_request,
     AddCheck, AddLocked, vars
<1>5. \A c \in confirmed' : Reachable(c[1], c[2])'
  BY <1>2, <1>3, <1>4
<1> QED
  BY <1>5 DEF ConfirmedInv, Reachable

-----------------------------------------------------------------------------
(* The theorems.                                                           *)

LEMMA RegistryInvPreserved == RegistryInv /\ [Next]_vars => RegistryInv'
<1> SUFFICES ASSUME RegistryInv, [Next]_vars PROVE RegistryInv'
  OBVIOUS
<1> USE DEF RegistryInv
<1>1. TypeInv' /\ LockInv' /\ BroadcasterInv'
  BY TypePreserved, LockPreserved, BroadcasterPreserved
<1>2. ASSUME ~overlapped' PROVE SoundInv'
  <2>1. SoundInv
    BY <1>2, NotOverlappedBefore
  <2>2. TableInv' /\ EnterInv' /\ InsertInv' /\ ConfirmedInv'
    BY <1>2, <2>1, TablePreserved, EnterPreserved, InsertPreserved, ConfirmedPreserved
  <2> QED
    BY <2>2 DEF SoundInv
<1> QED
  BY <1>1, <1>2

\* The invariant holds in every reachable state of handle_place_order,
\* handle_cancel_order, handle_book_request and server_handlers_add_order_book.
THEOREM RegistryInvariant == Spec => []RegistryInv
<1>1. Init => RegistryInv
  BY InitRegistryInv
<1>2. RegistryInv /\ [Next]_vars => RegistryInv'
  BY RegistryInvPreserved
<1> QED
  BY <1>1, <1>2, PTL DEF Spec

\* Distinct entries are for distinct symbols, so there are no more entries than
\* symbols.
LEMMA EntriesBounded ==
  ASSUME TypeInv, TableInv
  PROVE  book_count <= Cardinality(Symbols)
<1> DEFINE entries == 0..(book_count - 1)
           f == [i \in entries |-> symbols[i]]
<1>1. IsFiniteSet(Symbols)
  BY RegistryAssumption
<1>2. f \in Injection(entries, Symbols)
  BY DEF TableInv, Injection, IsInjective
<1>3. Cardinality(entries) <= Cardinality(Symbols)
  BY <1>1, <1>2, FS_Injection
<1>4. Cardinality(entries) = book_count
  <2>1. book_count \in Nat
    BY DEF TypeInv
  <2>2. Cardinality(entries) = IF 0 <= book_count - 1 THEN (book_count - 1) - 0 + 1 ELSE 0
    BY <2>1, FS_Interval
  <2> QED
    BY <2>1, <2>2
<1> QED
  BY <1>3, <1>4

\* TableIsSound holds for any number of threads, symbols and orders: unless two
\* workers overlapped in handle_place_order, the table of server_handlers.c has
\* complete entries, one per symbol, and stays within its arrays.
THEOREM TableSound == Spec => []TableIsSound
<1>1. RegistryInv => TableIsSound
  <2> SUFFICES ASSUME RegistryInv, ~overlapped PROVE TableIsSound
    BY DEF TableIsSound
  <2>1. TypeInv /\ TableInv
    BY DEF RegistryInv, SoundInv
  <2>2. Cardinality(Symbols) <= MAX_SYMBOLS => book_count <= MAX_SYMBOLS
    <3>1. book_count <= Cardinality(Symbols) /\ book_count \in Nat
      BY <2>1, EntriesBounded DEF TypeInv
    <3>2. Cardinality(Symbols) \in Nat /\ MAX_SYMBOLS \in Nat
      BY RegistryAssumption, FS_CardinalityType
    <3> QED
      BY <3>1, <3>2
  <2> QED
    BY <2>1, <2>2 DEF TableIsSound, TableInv, BookAt
<1> QED
  BY <1>1, RegistryInvariant, PTL

\* In a sound state the search for the symbol of a confirmed order finds a book
\* that holds the order.
LEMMA ConfirmedIsFound ==
  ASSUME TypeInv, SoundInv, NEW c \in confirmed
  PROVE  find_book(c[2]) # NULL /\ c[1] \in contents[find_book(c[2])]
<1>1. PICK k \in Nat : Entry(k, c[2], books[k]) /\ c[1] \in contents[books[k]]
  BY DEF SoundInv, ConfirmedInv
<1>2. k \in 0..(book_count - 1) /\ symbols[k] = c[2]
  BY <1>1 DEF Entry, TypeInv
<1>3. find_book(c[2]) = books[k] /\ find_book(c[2]) # NULL
  BY <1>2, FindsEntry DEF SoundInv
<1> QED
  BY <1>1, <1>3

\* ConfirmedOrdersReachable holds for any number of threads, symbols and orders.
THEOREM ConfirmedReachable == Spec => []ConfirmedOrdersReachable
<1>1. RegistryInv => ConfirmedOrdersReachable
  BY ConfirmedIsFound DEF RegistryInv, ConfirmedOrdersReachable
<1> QED
  BY <1>1, RegistryInvariant, PTL

\* FailsWithoutBroadcaster holds for any number of threads, symbols and orders,
\* whether workers overlapped or not.
THEOREM FailsOnlyWithoutBroadcaster == Spec => []FailsWithoutBroadcaster
<1>1. RegistryInv => FailsWithoutBroadcaster
  BY DEF RegistryInv, BroadcasterInv, FailsWithoutBroadcaster
<1> QED
  BY <1>1, RegistryInvariant, PTL

\* The answers of handle_cancel_order and handle_book_request.
LEMMA AnswersShowConfirmed ==
  ASSUME TypeInv, LockInv, ~overlapped => SoundInv, [Next]_vars, reply' # reply, ~overlapped'
  PROVE  /\ reply'.kind = "book_not_found" => ~\E c \in confirmed : c[2] = reply'.symbol
         /\ reply'.kind = "snapshot" =>
              \A c \in confirmed : c[2] = reply'.symbol =>
                c[1] \in canceled \/ c[1] \in reply'.orders
<1>1. SoundInv
  BY NotOverlappedBefore
<1>2. ASSUME NEW w \in Workers, NEW s \in Symbols, NEW order \in 1..MaxOrders,
             handle_cancel_order(w, s, order)
      PROVE  /\ reply'.kind = "book_not_found" => find_book(reply'.symbol) = NULL
             /\ reply'.kind # "snapshot"
  BY <1>2 DEF handle_cancel_order, Answer
<1>3. ASSUME NEW w \in Workers, NEW s \in Symbols, handle_book_request(w, s)
      PROVE  /\ reply'.kind = "book_not_found" => find_book(reply'.symbol) = NULL
             /\ reply'.kind = "snapshot" =>
                  reply'.orders = contents[find_book(reply'.symbol)] \ canceled
  BY <1>3 DEF handle_book_request, Answer
<1>4. \/ \E w \in Workers, s \in Symbols, order \in 1..MaxOrders :
           handle_cancel_order(w, s, order)
      \/ \E w \in Workers, s \in Symbols : handle_book_request(w, s)
  BY NextCases DEF PlaceFind, PlaceCreate, PlaceStoreBook, PlaceStoreSymbol,
     PlaceReadCount, PlaceWriteCount, PlaceRead, PlaceAdd, PlaceFail, AddCheck, AddLocked,
     answers, vars
<1>5. /\ reply'.kind = "book_not_found" => find_book(reply'.symbol) = NULL
      /\ reply'.kind = "snapshot" =>
           reply'.orders = contents[find_book(reply'.symbol)] \ canceled
  BY <1>2, <1>3, <1>4
<1>6. \A c \in confirmed : find_book(c[2]) # NULL /\ c[1] \in contents[find_book(c[2])]
  BY <1>1, ConfirmedIsFound
<1> QED
  BY <1>5, <1>6

\* ConfirmedOrdersShown holds for any number of threads, symbols and orders: what
\* handle_cancel_order and handle_book_request answer is true of every order that
\* was confirmed before.
THEOREM ConfirmedShown == Spec => ConfirmedOrdersShown
<1> DEFINE A ==
       LET shown == {c[1] : c \in {d \in confirmed : d[2] = reply'.symbol}}
       IN reply' # reply /\ ~overlapped' =>
            /\ reply'.kind = "book_not_found" => shown = {}
            /\ reply'.kind = "snapshot" => shown \ canceled \subseteq reply'.orders
<1>1. RegistryInv /\ [Next]_vars => A
  BY AnswersShowConfirmed DEF RegistryInv
<1> QED
  BY <1>1, RegistryInvariant, PTL DEF Spec, ConfirmedOrdersShown
=============================================================================
