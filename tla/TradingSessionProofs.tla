------------------------ MODULE TradingSessionProofs ------------------------
(***************************************************************************)
(* Proofs about TradingSession, for any numbers of workers, commands and   *)
(* lost connections: what the client shows as placed was typed, at most    *)
(* once for each time it was sent, and what the trade history keeps.       *)
(*                                                                         *)
(* An order that was sent is at one place at most: on the wire, in the     *)
(* queue, with a worker, in an answer or among the confirmed ones.  The    *)
(* invariant is that there is a function from the orders sent to such      *)
(* places under which every order at a place is that of some order sent.   *)
(***************************************************************************)
EXTENDS TradingSession, SequenceTheorems, FiniteSetTheorems, TLAPS

\* Where an order can be.
Places ==
  ({"wire", "queue", "inbound", "confirmed"} \X Int) \cup ({"working"} \X Workers)

\* Confirmation c is of the order in message t.
ConfirmationOf(c, t) ==
  /\ <<c.order_id, c.symbol, c.quantity>> = <<t.order_id, t.symbol, t.quantity>>
  /\ c.side = IF t.is_buy THEN "Buy" ELSE "Sell"
  /\ 100 * c.price - t.price \in -50..50

IsPlacement(json) == parse_base_message(json) = MSG_PLACE_ORDER

IsConfirmation(json) == parse_base_message(json) = MSG_ORDER_ACCEPTED

\* Every order at a place is one that was sent and that is there according to at.
WireFrom(at) ==
  \A i \in DOMAIN wire : IsPlacement(wire[i]) =>
    \E j \in DOMAIN typed : at[j] = <<"wire", i>> /\ typed[j] = wire[i]

QueueFrom(at) ==
  \A i \in DOMAIN queue : IsPlacement(queue[i][2]) =>
    \E j \in DOMAIN typed : at[j] = <<"queue", i>> /\ typed[j] = queue[i][2]

WorkingFrom(at) ==
  \A w \in Workers : working[w].pc = "handle" /\ IsPlacement(working[w].json) =>
    \E j \in DOMAIN typed : at[j] = <<"working", w>> /\ typed[j] = working[w].json

InboundFrom(at) ==
  \A i \in DOMAIN inbound : IsConfirmation(inbound[i]) =>
    \E j \in DOMAIN typed : at[j] = <<"inbound", i>> /\ ConfirmationOf(inbound[i].details, typed[j])

ConfirmedFrom(at) ==
  \A i \in DOMAIN confirmed :
    \E j \in DOMAIN typed : at[j] = <<"confirmed", i>> /\ ConfirmationOf(confirmed[i], typed[j])

From(at) ==
  WireFrom(at) /\ QueueFrom(at) /\ WorkingFrom(at) /\ InboundFrom(at) /\ ConfirmedFrom(at)

OrdersComeFrom == \E at \in [DOMAIN typed -> Places] : From(at)

-----------------------------------------------------------------------------
(* Types.                                                                  *)

Commands ==
  [type : {"BUY", "SELL"}, symbol : Symbols, price : Nat, quantity : Nat, order_id : Nat]
  \cup [type : {"VIEW"}, symbol : Symbols]
  \cup [type : {"CANCEL"}, order_id : Nat]

Placements ==
  [type : {MSG_PLACE_ORDER}, order_id : Nat, trader_id : {"TRADER"}, symbol : Symbols,
   price : Nat, quantity : Nat, is_buy : BOOLEAN]

Requests == [type : {MSG_REQUEST_BOOK}, symbol : Symbols]

Messages == Placements \cup Requests

IsSnapshot(json) == parse_base_message(json) = MSG_BOOK_SNAPSHOT

\* What a worker holds at each of its places.
Working(x) ==
  \/ x = Idle
  \/ x \in [pc : {"handle"}, to : Nat, json : Messages]
  \/ x \in [pc : {"match"}, to : Nat, json : Placements]
  \/ x.pc = "send" /\ IsSnapshot(x.json)

IsSequence(s) == \E S : s \in Seq(S)

TypeInv ==
  /\ now \in Nat /\ connection \in Nat /\ connections \in Nat
  /\ entered \in Commands \cup {NoCommand}
  /\ wire \in Seq(Messages)
  /\ queue \in Seq(Nat \X Messages)
  /\ IsSequence(inbound)
  /\ IsSequence(confirmed)
  /\ typed \in Seq(Placements)
  /\ DOMAIN working = Workers
  /\ \A w \in Workers : Working(working[w])

\* What the readers take the messages for.
LEMMA PlacementsAre ==
  ASSUME NEW json \in Placements
  PROVE  IsPlacement(json) /\ json \in Messages
<1>1. /\ DOMAIN json = {"type", "order_id", "trader_id", "symbol", "price", "quantity", "is_buy"}
      /\ json.type = MSG_PLACE_ORDER
  BY DEF Placements
<1>2. "type" \in DOMAIN json /\ "bids" \notin DOMAIN json /\ "Trade Details" \notin DOMAIN json
  BY <1>1
<1>3. parse_base_message(json) = json.type
  BY <1>2 DEF parse_base_message
<1> QED
  BY <1>1, <1>3 DEF IsPlacement, Messages

LEMMA RequestsAre ==
  ASSUME NEW json \in Requests
  PROVE  ~IsPlacement(json) /\ json \in Messages
<1>1. DOMAIN json = {"type", "symbol"} /\ json.type = MSG_REQUEST_BOOK
  BY DEF Requests
<1>2. "type" \in DOMAIN json /\ "bids" \notin DOMAIN json /\ "Trade Details" \notin DOMAIN json
  BY <1>1
<1>3. parse_base_message(json) = json.type
  BY <1>2 DEF parse_base_message
<1> QED
  BY <1>1, <1>3 DEF IsPlacement, Messages, MSG_REQUEST_BOOK, MSG_PLACE_ORDER

LEMMA SnapshotsAre ==
  ASSUME NEW symbol, NEW book
  PROVE  IsSnapshot(serialize_book_snapshot(symbol, book))
<1> DEFINE json == serialize_book_snapshot(symbol, book)
<1>1. DOMAIN json = {"symbol", "bids", "asks"}
  BY DEF serialize_book_snapshot
<1> HIDE DEF json
<1>2. /\ "type" \notin DOMAIN json /\ {"symbol", "bids", "asks"} \subseteq DOMAIN json
      /\ "Trade Details" \notin DOMAIN json
  BY <1>1
<1>3. parse_base_message(json) = MSG_BOOK_SNAPSHOT
  BY <1>2 DEF parse_base_message
<1> QED
  BY <1>3 DEF IsSnapshot, json

\* An error and a snapshot are no confirmations.
LEMMA OtherAnswers ==
  /\ ~IsConfirmation([type |-> MSG_ERROR])
  /\ \A json : IsSnapshot(json) => ~IsConfirmation(json)
<1> DEFINE json == [type |-> MSG_ERROR]
<1>1. DOMAIN json = {"type"} /\ json.type = MSG_ERROR
  OBVIOUS
<1> HIDE DEF json
<1>2. "type" \in DOMAIN json /\ "bids" \notin DOMAIN json /\ "Trade Details" \notin DOMAIN json
  BY <1>1
<1>3. parse_base_message(json) = json.type
  BY <1>2 DEF parse_base_message
<1>4. ~IsConfirmation(json)
  BY <1>1, <1>3 DEF IsConfirmation, MSG_ERROR, MSG_ORDER_ACCEPTED
<1>5. \A x : IsSnapshot(x) => ~IsConfirmation(x)
  BY DEF IsSnapshot, IsConfirmation, MSG_BOOK_SNAPSHOT, MSG_ORDER_ACCEPTED
<1> QED
  BY <1>4, <1>5 DEF json

\* What handle_command sends.
LEMMA SentMessage ==
  ASSUME NEW cmd \in Commands, NEW json, json = format_command_as_json(cmd)
  PROVE  \/ json \in Placements /\ json.type = MSG_PLACE_ORDER /\ json # NULL
         \/ json \in Requests /\ json.type # MSG_PLACE_ORDER
         \/ json = NULL /\ json.type # MSG_PLACE_ORDER
<1>1. CASE cmd \in [type : {"BUY", "SELL"}, symbol : Symbols, price : Nat, quantity : Nat,
                    order_id : Nat]
  <2>1. json = [type |-> MSG_PLACE_ORDER, order_id |-> cmd.order_id,
                trader_id |-> "TRADER", symbol |-> cmd.symbol, price |-> cmd.price,
                quantity |-> cmd.quantity, is_buy |-> cmd.type = "BUY"]
    BY <1>1 DEF format_command_as_json
  <2>2. json \in Placements /\ json.type = MSG_PLACE_ORDER
    BY <1>1, <2>1 DEF Placements
  <2> QED
    BY <2>2 DEF NULL, NoType, MSG_PLACE_ORDER
<1>2. CASE cmd \in [type : {"VIEW"}, symbol : Symbols]
  <2>1. json = [type |-> MSG_REQUEST_BOOK, symbol |-> cmd.symbol]
    BY <1>2 DEF format_command_as_json
  <2> QED
    BY <1>2, <2>1 DEF Requests, MSG_REQUEST_BOOK, MSG_PLACE_ORDER
<1>3. CASE cmd \in [type : {"CANCEL"}, order_id : Nat]
  <2>1. json = NULL
    BY <1>3 DEF format_command_as_json
  <2> QED
    BY <2>1 DEF NULL, NoType, MSG_PLACE_ORDER
<1> QED
  BY <1>1, <1>2, <1>3 DEF Commands

\* Sequences of any elements.
\* r is s with e behind it.
IsAppended(r, s, e) ==
  /\ IsSequence(r)
  /\ Len(s) \in Nat /\ DOMAIN s = 1..Len(s)
  /\ DOMAIN r = 1..(Len(s) + 1)
  /\ r[Len(s) + 1] = e
  /\ \A i \in DOMAIN s : r[i] = s[i]
  /\ \A i \in DOMAIN r : i \in DOMAIN s \/ i = Len(s) + 1

LEMMA AppendAny ==
  ASSUME NEW s, IsSequence(s), NEW e, NEW r, r = Append(s, e)
  PROVE  IsAppended(r, s, e)
<1>1. PICK S : s \in Seq(S)
  BY DEF IsSequence
<1> DEFINE T == S \cup {e}
<1>2. Len(s) \in Nat /\ DOMAIN s = 1..Len(s) /\ \A i \in 1..Len(s) : s[i] \in S
  BY <1>1, LenProperties
<1>3. s \in Seq(T)
  BY <1>1, <1>2
<1>4. e \in T
  OBVIOUS
<1> HIDE DEF T
<1>5. /\ r \in Seq(T) /\ Len(r) = Len(s) + 1
      /\ \A i \in 1..Len(s) : r[i] = s[i]
      /\ r[Len(s) + 1] = e
  BY <1>3, <1>4, AppendProperties
<1>6. DOMAIN r = 1..Len(r)
  BY <1>5, LenProperties
<1>7. \A i \in DOMAIN r : i \in DOMAIN s \/ i = Len(s) + 1
  BY <1>2, <1>5, <1>6
<1> QED
  BY <1>2, <1>5, <1>6, <1>7 DEF IsAppended, IsSequence

LEMMA AppendIn ==
  ASSUME NEW S, NEW s \in Seq(S), NEW e \in S
  PROVE  Append(s, e) \in Seq(S)
  BY AppendProperties

LEMMA TailAny ==
  ASSUME NEW s, IsSequence(s), s # <<>>, NEW r, r = Tail(s)
  PROVE  /\ \A S : s \in Seq(S) => r \in Seq(S) /\ Head(s) \in S
         /\ IsSequence(r)
         /\ Len(s) \in Nat \ {0} /\ DOMAIN s = 1..Len(s)
         /\ Head(s) = s[1]
         /\ DOMAIN r = 1..(Len(s) - 1)
         /\ \A i \in DOMAIN r : i + 1 \in DOMAIN s /\ r[i] = s[i + 1]
<1>1. PICK S : s \in Seq(S)
  BY DEF IsSequence
<1>2. Len(s) \in Nat /\ DOMAIN s = 1..Len(s) /\ Len(s) # 0
  BY <1>1, LenProperties, EmptySeq
<1>3. \A T : s \in Seq(T) => r \in Seq(T) /\ Head(s) \in T
  BY HeadTailProperties
<1>4. /\ r \in Seq(S) /\ Len(r) = Len(s) - 1
      /\ \A i \in 1..(Len(s) - 1) : r[i] = s[i + 1]
  BY <1>1, HeadTailProperties
<1>5. Head(s) = s[1]
  BY <1>1, <1>2
<1>6. DOMAIN r = 1..(Len(s) - 1)
  BY <1>4, LenProperties
<1> QED
  BY <1>2, <1>3, <1>4, <1>5, <1>6 DEF IsSequence

-----------------------------------------------------------------------------
(* The types are invariant.                                                *)

LEMMA TypeInit == Init => TypeInv
<1> SUFFICES ASSUME Init
             PROVE  TypeInv
  OBVIOUS
<1>1. \A w \in Workers : Working(working[w])
  BY DEF Init, Working
<1>2. inbound \in Seq({}) /\ confirmed \in Seq({})
  BY DEF Init
<1> QED
  BY <1>1, <1>2 DEF Init, TypeInv, IsSequence

\* One worker changes what it works on.
LEMMA WorkingUpdate ==
  ASSUME TypeInv, NEW w \in Workers, NEW x, Working(x), working' = [working EXCEPT ![w] = x]
  PROVE  /\ DOMAIN working' = Workers
         /\ \A v \in Workers : Working(working'[v])
         /\ working'[w] = x
         /\ \A v \in Workers \ {w} : working'[v] = working[v]
<1>1. DOMAIN working = Workers /\ \A v \in Workers : Working(working[v])
  BY DEF TypeInv
<1>2. DOMAIN working' = Workers
  BY <1>1
<1>3. /\ working'[w] = x
      /\ \A v \in Workers \ {w} : working'[v] = working[v]
  BY <1>1
<1>4. \A v \in Workers : Working(working'[v])
  BY <1>1, <1>3, Zenon
<1> QED
  BY <1>2, <1>3, <1>4

\* What ws_server_send does to the messages on their way to the client.
LEMMA Sent ==
  ASSUME TypeInv, NEW to, NEW json, ws_server_send(to, json)
  PROVE  /\ IsSequence(inbound')
         /\ inbound' = Append(inbound, json) \/ inbound' = inbound
<1>1. IsSequence(inbound)
  BY DEF TypeInv
<1>2. inbound' = Append(inbound, json) \/ inbound' = inbound
  BY DEF ws_server_send
<1>3. CASE inbound' = inbound
  BY <1>1, <1>3
<1>4. CASE inbound' = Append(inbound, json)
  <2>1. PICK r : r = inbound'
    OBVIOUS
  <2>2. IsAppended(r, inbound, json)
    BY <1>1, <1>4, <2>1, AppendAny
  <2> QED
    BY <1>4, <2>1, <2>2 DEF IsAppended
<1> QED
  BY <1>2, <1>3, <1>4

\* What a worker holds before each of its steps, and after.
LEMMA WorkerHolds ==
  ASSUME TypeInv, NEW w \in Workers
  PROVE  /\ working[w].pc = "handle" => working[w] \in [pc : {"handle"}, to : Nat, json : Messages]
         /\ working[w].pc = "match" => working[w] \in [pc : {"match"}, to : Nat, json : Placements]
         /\ working[w].pc = "send" => IsSnapshot(working[w].json)
<1>1. Working(working[w])
  BY DEF TypeInv
<1> QED
  BY <1>1 DEF Working, Idle

LEMMA DequeueType ==
  ASSUME TypeInv, NEW w \in Workers, Dequeue(w)
  PROVE  TypeInv'
<1> DEFINE x == [pc |-> "handle", to |-> Head(queue)[1], json |-> Head(queue)[2]]
<1>1. queue \in Seq(Nat \X Messages) /\ queue # <<>>
  BY DEF TypeInv, Dequeue
<1>2. Tail(queue) \in Seq(Nat \X Messages) /\ Head(queue) \in Nat \X Messages
  BY <1>1, TailAny
<1>3. x \in [pc : {"handle"}, to : Nat, json : Messages]
  BY <1>2
<1>4. working' = [working EXCEPT ![w] = x]
  BY DEF Dequeue
<1>5. Working(x)
  BY <1>3 DEF Working
<1> HIDE DEF x
<1>6. DOMAIN working' = Workers /\ \A v \in Workers : Working(working'[v])
  BY <1>4, <1>5, WorkingUpdate
<1>7. queue' \in Seq(Nat \X Messages)
  BY <1>2 DEF Dequeue
<1>8. UNCHANGED <<now, connection, connections, entered, wire, inbound, confirmed, typed>>
  BY DEF Dequeue, client, net, display
<1> QED
  BY <1>6, <1>7, <1>8 DEF TypeInv, Working, IsSnapshot, IsSequence

LEMMA PlaceOrderType ==
  ASSUME TypeInv, NEW w \in Workers, PlaceOrder(w)
  PROVE  TypeInv'
<1>1. working[w].pc = "handle" /\ IsPlacement(working[w].json)
  BY DEF PlaceOrder, IsPlacement
<1>2. working[w] \in [pc : {"handle"}, to : Nat, json : Messages]
  BY <1>1, WorkerHolds
<1>3. working[w].json \in Placements
  BY <1>1, <1>2, RequestsAre DEF Messages
<1>4. UNCHANGED <<now, connection, connections, entered, wire, queue, confirmed, typed>>
  BY DEF PlaceOrder, client, display
<1>5. IsSequence(inbound')
  BY Sent DEF PlaceOrder, send_error_response
<1>6. PICK x : Working(x) /\ working' = [working EXCEPT ![w] = x]
  <2>1. CASE broadcaster
    <3> DEFINE x == [working[w] EXCEPT !.pc = "match"]
    <3>1. x \in [pc : {"match"}, to : Nat, json : Placements]
      BY <1>2, <1>3
    <3>2. working' = [working EXCEPT ![w] = x]
      BY <2>1 DEF PlaceOrder
    <3> QED
      BY <3>1, <3>2 DEF Working
  <2>2. CASE ~broadcaster
    BY <2>2 DEF PlaceOrder, Working
  <2> QED
    BY <2>1, <2>2
<1>7. DOMAIN working' = Workers /\ \A v \in Workers : Working(working'[v])
  BY <1>6, WorkingUpdate
<1> QED
  BY <1>4, <1>5, <1>7 DEF TypeInv, Working, IsSnapshot, IsSequence

LEMMA PlaceMatchType ==
  ASSUME TypeInv, NEW w \in Workers, PlaceMatch(w)
  PROVE  TypeInv'
<1>1. PICK x : working' = [working EXCEPT ![w] = x] /\ x.pc = "send" /\ IsSnapshot(x.json)
  <2> DEFINE json == serialize_book_snapshot(working[w].json.symbol,
                       order_book_match_orders(books[working[w].json.symbol]))
             x == [pc |-> "send", to |-> working[w].to, json |-> json]
  <2>1. IsSnapshot(json)
    BY SnapshotsAre
  <2>2. working' = [working EXCEPT ![w] = x]
    BY DEF PlaceMatch, TypeInv
  <2> HIDE DEF json
  <2>3. x.pc = "send" /\ x.json = json
    OBVIOUS
  <2> HIDE DEF x
  <2> QED
    BY <2>1, <2>2, <2>3
<1>2. DOMAIN working' = Workers /\ \A v \in Workers : Working(working'[v])
  BY <1>1, WorkingUpdate DEF Working
<1>3. UNCHANGED <<now, connection, connections, entered, wire, queue, inbound, confirmed, typed>>
  BY DEF PlaceMatch, client, net, display
<1> QED
  BY <1>2, <1>3 DEF TypeInv, Working, IsSnapshot, IsSequence

LEMMA BookRequestType ==
  ASSUME TypeInv, NEW w \in Workers, BookRequest(w)
  PROVE  TypeInv'
<1>1. UNCHANGED <<now, connection, connections, entered, wire, queue, confirmed, typed>>
  BY DEF BookRequest, client, display
<1>2. IsSequence(inbound')
  BY Sent DEF BookRequest, send_error_response, TypeInv
<1>3. PICK x : Working(x) /\ working' = [working EXCEPT ![w] = x]
  <2> DEFINE json == serialize_book_snapshot(working[w].json.symbol,
                                             books[working[w].json.symbol])
             x == [pc |-> "send", to |-> working[w].to, json |-> json]
  <2>1. IsSnapshot(json)
    BY SnapshotsAre
  <2>2. working' = [working EXCEPT ![w] = Idle] \/ working' = [working EXCEPT ![w] = x]
    BY DEF BookRequest, TypeInv
  <2> HIDE DEF json
  <2> QED
    BY <2>1, <2>2 DEF Working
<1>4. DOMAIN working' = Workers /\ \A v \in Workers : Working(working'[v])
  BY <1>3, WorkingUpdate
<1> QED
  BY <1>1, <1>2, <1>4 DEF TypeInv, Working, IsSnapshot, IsSequence

LEMMA SendSnapshotType ==
  ASSUME TypeInv, NEW w \in Workers, SendSnapshot(w)
  PROVE  TypeInv'
<1>1. UNCHANGED <<now, connection, connections, entered, wire, queue, confirmed, typed>>
  BY DEF SendSnapshot, client, display
<1>2. IsSequence(inbound')
  BY Sent DEF SendSnapshot
<1>3. Working(Idle) /\ working' = [working EXCEPT ![w] = Idle]
  BY DEF SendSnapshot, Working
<1>4. DOMAIN working' = Workers /\ \A v \in Workers : Working(working'[v])
  BY <1>3, WorkingUpdate
<1> QED
  BY <1>1, <1>2, <1>4 DEF TypeInv, Working, IsSnapshot, IsSequence

LEMMA SendCommandType ==
  ASSUME TypeInv, SendCommand
  PROVE  TypeInv'
<1>1. PICK json : json = format_command_as_json(entered)
  OBVIOUS
<1>2. entered \in Commands
  BY DEF TypeInv, SendCommand
<1>3. \/ json \in Placements
      \/ json \in Requests /\ json.type # MSG_PLACE_ORDER
      \/ json = NULL /\ json.type # MSG_PLACE_ORDER
  BY <1>1, <1>2, SentMessage
<1>4. wire' \in Seq(Messages)
  <2>1. wire' = wire \/ (json # NULL /\ wire' = Append(wire, json))
    BY <1>1 DEF SendCommand
  <2>2. json # NULL => json \in Messages
    BY <1>3 DEF Messages
  <2> QED
    BY <2>1, <2>2, AppendIn DEF TypeInv
<1>5. typed' \in Seq(Placements)
  <2>1. typed' = typed \/ (json.type = MSG_PLACE_ORDER /\ typed' = Append(typed, json))
    BY <1>1 DEF SendCommand
  <2>2. json.type = MSG_PLACE_ORDER => json \in Placements
    BY <1>3
  <2> QED
    BY <2>1, <2>2, AppendIn DEF TypeInv
<1>6. entered' = NoCommand
  BY DEF SendCommand
<1>7. UNCHANGED <<now, connection, connections, queue, working, inbound, confirmed>>
  BY DEF SendCommand, server, display
<1> QED
  BY <1>4, <1>5, <1>6, <1>7 DEF TypeInv, Working, IsSnapshot, IsSequence

LEMMA ServerReceiveType ==
  ASSUME TypeInv, ServerReceive
  PROVE  TypeInv'
<1>1. wire \in Seq(Messages) /\ wire # <<>>
  BY DEF TypeInv, ServerReceive
<1>2. Tail(wire) \in Seq(Messages) /\ Head(wire) \in Messages
  BY <1>1, TailAny
<1>3. wire' \in Seq(Messages)
  BY <1>2 DEF ServerReceive
<1>4. queue' \in Seq(Nat \X Messages)
  <2>1. <<connection, Head(wire)>> \in Nat \X Messages /\ queue \in Seq(Nat \X Messages)
    BY <1>2 DEF TypeInv
  <2>2. queue' = queue \/ queue' = Append(queue, <<connection, Head(wire)>>)
    BY DEF ServerReceive
  <2> QED
    BY <2>1, <2>2, AppendIn
<1>5. UNCHANGED <<now, connection, connections, entered, inbound, working, confirmed, typed>>
  BY DEF ServerReceive, client, display
<1> QED
  BY <1>3, <1>4, <1>5 DEF TypeInv, Working, IsSnapshot, IsSequence

\* What handle_message shows as placed.
LEMMA ClientShows ==
  ASSUME ClientReceive
  PROVE  \/ IsConfirmation(Head(inbound)) /\ confirmed' = Append(confirmed, Head(inbound).details)
         \/ confirmed' = confirmed
<1>1. CASE IsConfirmation(Head(inbound))
  BY <1>1 DEF ClientReceive, ShowAccepted, IsConfirmation, MSG_ORDER_ACCEPTED, MSG_BOOK_SNAPSHOT
<1>2. CASE ~IsConfirmation(Head(inbound))
  BY <1>2 DEF ClientReceive, ShowBook, IsConfirmation
<1> QED
  BY <1>1, <1>2

LEMMA ClientReceiveType ==
  ASSUME TypeInv, ClientReceive
  PROVE  TypeInv'
<1>1. IsSequence(Tail(inbound))
  BY TailAny DEF TypeInv, ClientReceive
<1>2. IsSequence(inbound')
  BY <1>1 DEF ClientReceive
<1>3. IsSequence(confirmed')
  <2>1. CASE confirmed' = confirmed
    BY <2>1 DEF TypeInv
  <2>2. CASE confirmed' = Append(confirmed, Head(inbound).details)
    <3>1. PICK r : r = confirmed'
      OBVIOUS
    <3>2. IsAppended(r, confirmed, Head(inbound).details)
      BY <2>2, <3>1, AppendAny DEF TypeInv
    <3> QED
      BY <3>1, <3>2 DEF IsAppended
  <2> QED
    BY <2>1, <2>2, ClientShows
<1>4. UNCHANGED <<now, connection, connections, entered, wire, queue, working, typed>>
  BY DEF ClientReceive, server
<1> QED
  BY <1>2, <1>3, <1>4 DEF TypeInv, Working, IsSnapshot, IsSequence

LEMMA EnterCommandType ==
  ASSUME TypeInv, NEW cmd \in parse_command, EnterCommand(cmd)
  PROVE  TypeInv'
<1>1. cmd \in Commands
  <2>1. CASE cmd.type \in {"BUY", "SELL"}
    <3>1. PICK t \in {"BUY", "SELL"}, sym \in Symbols, p \in Prices, q \in Quantities :
            cmd = [type |-> t, symbol |-> sym, price |-> p, quantity |-> q, order_id |-> now]
      BY <2>1 DEF parse_command
    <3>2. p \in Nat /\ q \in Nat /\ now \in Nat
      BY SessionAssumption DEF TypeInv
    <3> QED
      BY <3>1, <3>2 DEF Commands
  <2>2. CASE cmd.type \notin {"BUY", "SELL"}
    <3>1. cmd \in [type : {"VIEW"}, symbol : Symbols] \cup [type : {"CANCEL"}, order_id : {now}]
      BY <2>2 DEF parse_command
    <3> QED
      BY <3>1 DEF Commands, TypeInv
  <2> QED
    BY <2>1, <2>2
<1>2. entered' = cmd
  BY DEF EnterCommand
<1>3. UNCHANGED <<now, connection, connections, wire, queue, working, inbound, confirmed, typed>>
  BY DEF EnterCommand, net, server, display
<1> QED
  BY <1>1, <1>2, <1>3 DEF TypeInv, Working, IsSnapshot, IsSequence

LEMMA TypeNext ==
  ASSUME TypeInv, [Next]_vars
  PROVE  TypeInv'
<1>1. ASSUME NEW cmd \in parse_command, EnterCommand(cmd)
      PROVE  TypeInv'
  BY <1>1, EnterCommandType
<1>2. ASSUME NEW w \in Workers, Worker(w)
      PROVE  TypeInv'
  BY <1>2, DequeueType, PlaceOrderType, PlaceMatchType, BookRequestType, SendSnapshotType
  DEF Worker
<1>3. CASE SendCommand
  BY <1>3, SendCommandType
<1>4. CASE ServerReceive
  BY <1>4, ServerReceiveType
<1>5. CASE ClientReceive
  BY <1>5, ClientReceiveType
<1>6. CASE Closed
  <2>1. wire' = <<>> /\ inbound' = <<>> /\ connection' = 0
    BY <1>6 DEF Closed
  <2>2. UNCHANGED <<now, connections, entered, queue, working, confirmed, typed>>
    BY <1>6 DEF Closed, server, display
  <2>3. inbound' \in Seq({}) /\ wire' \in Seq(Messages)
    BY <2>1
  <2> QED
    BY <2>1, <2>2, <2>3 DEF TypeInv, Working, IsSnapshot, IsSequence
<1>7. CASE Established
  <2>1. UNCHANGED <<entered, wire, queue, working, inbound, confirmed, typed>>
    BY <1>7 DEF Established, client, server, display
  <2>2. now' \in Nat /\ connection' \in Nat /\ connections' \in Nat
    BY <1>7 DEF Established, client, server, display, TypeInv
  <2> QED
    BY <2>1, <2>2 DEF TypeInv, Working, IsSnapshot, IsSequence
<1>8. CASE TradeExecuted
  <2>1. UNCHANGED <<entered, wire, queue, working, inbound, confirmed, typed>>
    BY <1>8 DEF TradeExecuted, net, server, display
  <2>2. now' \in Nat /\ connection' \in Nat /\ connections' \in Nat
    BY <1>8 DEF TradeExecuted, net, server, TypeInv
  <2> QED
    BY <2>1, <2>2 DEF TypeInv, Working, IsSnapshot, IsSequence
<1>9. CASE Tick
  <2>1. UNCHANGED <<entered, wire, queue, working, inbound, confirmed, typed>>
    BY <1>9 DEF Tick, net, server, display
  <2>2. now' \in Nat /\ connection' \in Nat /\ connections' \in Nat
    BY <1>9 DEF Tick, net, server, display, TypeInv
  <2> QED
    BY <2>1, <2>2 DEF TypeInv, Working, IsSnapshot, IsSequence
<1>10. CASE UNCHANGED vars
  BY <1>10 DEF vars, client, net, server, display, TypeInv, Working, IsSnapshot, IsSequence
<1> QED
  BY <1>1, <1>2, <1>3, <1>4, <1>5, <1>6, <1>7, <1>8, <1>9, <1>10 DEF Next

-----------------------------------------------------------------------------
(* Orders move from place to place.                                        *)

WireMoved(r) ==
  \A i \in DOMAIN wire' : IsPlacement(wire'[i]) =>
    \E k \in DOMAIN wire : r[<<"wire", k>>] = <<"wire", i>> /\ wire'[i] = wire[k]

QueueMoved(r) ==
  \A i \in DOMAIN queue' : IsPlacement(queue'[i][2]) =>
    \/ \E k \in DOMAIN queue : r[<<"queue", k>>] = <<"queue", i>> /\ queue'[i] = queue[k]
    \/ \E k \in DOMAIN wire : r[<<"wire", k>>] = <<"queue", i>> /\ queue'[i][2] = wire[k]

WorkingMoved(r) ==
  \A w \in Workers : working'[w].pc = "handle" /\ IsPlacement(working'[w].json) =>
    \/ r[<<"working", w>>] = <<"working", w>> /\ working'[w] = working[w]
    \/ \E k \in DOMAIN queue : r[<<"queue", k>>] = <<"working", w>> /\ working'[w].json = queue[k][2]

InboundMoved(r) ==
  \A i \in DOMAIN inbound' : IsConfirmation(inbound'[i]) =>
    \/ \E k \in DOMAIN inbound : r[<<"inbound", k>>] = <<"inbound", i>> /\ inbound'[i] = inbound[k]
    \/ \E w \in Workers : /\ working[w].pc = "handle" /\ IsPlacement(working[w].json)
                          /\ r[<<"working", w>>] = <<"inbound", i>>
                          /\ ConfirmationOf(inbound'[i].details, working[w].json)

ConfirmedMoved(r) ==
  \A i \in DOMAIN confirmed' :
    \/ \E k \in DOMAIN confirmed :
         r[<<"confirmed", k>>] = <<"confirmed", i>> /\ confirmed'[i] = confirmed[k]
    \/ \E k \in DOMAIN inbound : /\ IsConfirmation(inbound[k])
                                 /\ r[<<"inbound", k>>] = <<"confirmed", i>>
                                 /\ confirmed'[i] = inbound[k].details

\* Whatever is at a place after the step came from the place that r takes there,
\* and r takes a place to one place only.
Moved(r) ==
  WireMoved(r) /\ QueueMoved(r) /\ WorkingMoved(r) /\ InboundMoved(r) /\ ConfirmedMoved(r)

\* A step that only moves orders about keeps them those that were sent.
LEMMA MoveKeeps ==
  ASSUME OrdersComeFrom, typed' = typed, NEW r \in [Places -> Places], Moved(r)
  PROVE  OrdersComeFrom'
<1>1. PICK at \in [DOMAIN typed -> Places] : From(at)
  BY DEF OrdersComeFrom
<1>2. PICK to : to = [j \in DOMAIN typed |-> r[at[j]]]
  OBVIOUS
<1>3. to \in [DOMAIN typed -> Places] /\ \A j \in DOMAIN typed : to[j] = r[at[j]]
  BY <1>1, <1>2
<1>4. WireFrom(to)'
  <2> SUFFICES ASSUME NEW i \in DOMAIN wire', IsPlacement(wire'[i])
               PROVE  \E j \in DOMAIN typed : to[j] = <<"wire", i>> /\ typed[j] = wire'[i]
    BY DEF WireFrom, IsPlacement, parse_base_message
  <2>1. PICK k \in DOMAIN wire : r[<<"wire", k>>] = <<"wire", i>> /\ wire'[i] = wire[k]
    BY DEF Moved, WireMoved
  <2>2. PICK j \in DOMAIN typed : at[j] = <<"wire", k>> /\ typed[j] = wire[k]
    BY <1>1, <2>1 DEF From, WireFrom
  <2> QED
    BY <1>3, <2>1, <2>2
<1>5. QueueFrom(to)'
  <2> SUFFICES ASSUME NEW i \in DOMAIN queue', IsPlacement(queue'[i][2])
               PROVE  \E j \in DOMAIN typed : to[j] = <<"queue", i>> /\ typed[j] = queue'[i][2]
    BY DEF QueueFrom, IsPlacement, parse_base_message
  <2>1. CASE \E k \in DOMAIN queue : r[<<"queue", k>>] = <<"queue", i>> /\ queue'[i] = queue[k]
    <3>1. PICK k \in DOMAIN queue : r[<<"queue", k>>] = <<"queue", i>> /\ queue'[i] = queue[k]
      BY <2>1
    <3>2. PICK j \in DOMAIN typed : at[j] = <<"queue", k>> /\ typed[j] = queue[k][2]
      BY <1>1, <3>1 DEF From, QueueFrom
    <3> QED
      BY <1>3, <3>1, <3>2
  <2>2. CASE \E k \in DOMAIN wire : r[<<"wire", k>>] = <<"queue", i>> /\ queue'[i][2] = wire[k]
    <3>1. PICK k \in DOMAIN wire : r[<<"wire", k>>] = <<"queue", i>> /\ queue'[i][2] = wire[k]
      BY <2>2
    <3>2. PICK j \in DOMAIN typed : at[j] = <<"wire", k>> /\ typed[j] = wire[k]
      BY <1>1, <3>1 DEF From, WireFrom
    <3> QED
      BY <1>3, <3>1, <3>2
  <2> QED
    BY <2>1, <2>2 DEF Moved, QueueMoved
<1>6. WorkingFrom(to)'
  <2> SUFFICES ASSUME NEW w \in Workers, working'[w].pc = "handle", IsPlacement(working'[w].json)
               PROVE  \E j \in DOMAIN typed : to[j] = <<"working", w>> /\ typed[j] = working'[w].json
    BY DEF WorkingFrom, IsPlacement, parse_base_message
  <2>1. CASE r[<<"working", w>>] = <<"working", w>> /\ working'[w] = working[w]
    <3>1. PICK j \in DOMAIN typed : at[j] = <<"working", w>> /\ typed[j] = working[w].json
      BY <1>1, <2>1 DEF From, WorkingFrom
    <3> QED
      BY <1>3, <2>1, <3>1
  <2>2. CASE \E k \in DOMAIN queue :
               r[<<"queue", k>>] = <<"working", w>> /\ working'[w].json = queue[k][2]
    <3>1. PICK k \in DOMAIN queue :
            r[<<"queue", k>>] = <<"working", w>> /\ working'[w].json = queue[k][2]
      BY <2>2
    <3>2. PICK j \in DOMAIN typed : at[j] = <<"queue", k>> /\ typed[j] = queue[k][2]
      BY <1>1, <3>1 DEF From, QueueFrom
    <3> QED
      BY <1>3, <3>1, <3>2
  <2> QED
    BY <2>1, <2>2 DEF Moved, WorkingMoved
<1>7. InboundFrom(to)'
  <2> SUFFICES ASSUME NEW i \in DOMAIN inbound', IsConfirmation(inbound'[i])
               PROVE  \E j \in DOMAIN typed :
                        to[j] = <<"inbound", i>> /\ ConfirmationOf(inbound'[i].details, typed[j])
    BY DEF InboundFrom, IsConfirmation, parse_base_message, ConfirmationOf
  <2>1. CASE \E k \in DOMAIN inbound :
               r[<<"inbound", k>>] = <<"inbound", i>> /\ inbound'[i] = inbound[k]
    <3>1. PICK k \in DOMAIN inbound :
            r[<<"inbound", k>>] = <<"inbound", i>> /\ inbound'[i] = inbound[k]
      BY <2>1
    <3>2. PICK j \in DOMAIN typed :
            at[j] = <<"inbound", k>> /\ ConfirmationOf(inbound[k].details, typed[j])
      BY <1>1, <3>1 DEF From, InboundFrom
    <3> QED
      BY <1>3, <3>1, <3>2
  <2>2. ASSUME NEW w \in Workers, working[w].pc = "handle", IsPlacement(working[w].json),
               r[<<"working", w>>] = <<"inbound", i>>,
               ConfirmationOf(inbound'[i].details, working[w].json)
        PROVE  \E j \in DOMAIN typed :
                 to[j] = <<"inbound", i>> /\ ConfirmationOf(inbound'[i].details, typed[j])
    <3>1. PICK j \in DOMAIN typed : at[j] = <<"working", w>> /\ typed[j] = working[w].json
      BY <1>1, <2>2 DEF From, WorkingFrom
    <3> QED
      BY <1>3, <2>2, <3>1
  <2> QED
    BY <2>1, <2>2 DEF Moved, InboundMoved
<1>8. ConfirmedFrom(to)'
  <2> SUFFICES ASSUME NEW i \in DOMAIN confirmed'
               PROVE  \E j \in DOMAIN typed :
                        to[j] = <<"confirmed", i>> /\ ConfirmationOf(confirmed'[i], typed[j])
    BY DEF ConfirmedFrom, ConfirmationOf
  <2>1. ASSUME NEW k \in DOMAIN confirmed, r[<<"confirmed", k>>] = <<"confirmed", i>>,
               confirmed'[i] = confirmed[k]
        PROVE  \E j \in DOMAIN typed :
                 to[j] = <<"confirmed", i>> /\ ConfirmationOf(confirmed'[i], typed[j])
    <3>1. PICK j \in DOMAIN typed :
            at[j] = <<"confirmed", k>> /\ ConfirmationOf(confirmed[k], typed[j])
      BY <1>1 DEF From, ConfirmedFrom
    <3> QED
      BY <1>3, <2>1, <3>1
  <2>2. ASSUME NEW k \in DOMAIN inbound, IsConfirmation(inbound[k]),
               r[<<"inbound", k>>] = <<"confirmed", i>>, confirmed'[i] = inbound[k].details
        PROVE  \E j \in DOMAIN typed :
                 to[j] = <<"confirmed", i>> /\ ConfirmationOf(confirmed'[i], typed[j])
    <3>1. PICK j \in DOMAIN typed :
            at[j] = <<"inbound", k>> /\ ConfirmationOf(inbound[k].details, typed[j])
      BY <1>1, <2>2 DEF From, InboundFrom
    <3> QED
      BY <1>3, <2>2, <3>1
  <2> QED
    BY <2>1, <2>2 DEF Moved, ConfirmedMoved
<1> QED
  BY <1>3, <1>4, <1>5, <1>6, <1>7, <1>8 DEF OrdersComeFrom, From

\* No order moves.
Stay == [p \in Places |-> p]

\* The first of a queue moves to a place, and those behind it move up.
Advance(from, to) ==
  [p \in Places |-> IF p[1] = from THEN IF p[2] = 1 THEN to ELSE <<from, p[2] - 1>>
                                   ELSE p]

\* A worker's order moves to a place.
Leave(w, to) == [p \in Places |-> IF p = <<"working", w>> THEN to ELSE p]

LEMMA PlacesAre ==
  /\ \A k \in Int : <<"wire", k>> \in Places /\ <<"queue", k>> \in Places
  /\ \A k \in Int : <<"inbound", k>> \in Places /\ <<"confirmed", k>> \in Places
  /\ \A w \in Workers : <<"working", w>> \in Places
  BY DEF Places

LEMMA StayIs ==
  Stay \in [Places -> Places] /\ \A p \in Places : Stay[p] = p
  BY DEF Stay

\* What such a movement does to each place.
IsAdvance(r, from, to) ==
  /\ r \in [Places -> Places]
  /\ r[<<from, 1>>] = to
  /\ \A k \in Int : k # 1 => r[<<from, k>>] = <<from, k - 1>>
  /\ \A tag \in {"wire", "queue", "inbound", "confirmed"} : tag # from =>
       \A k \in Int : r[<<tag, k>>] = <<tag, k>>
  /\ \A w \in Workers : r[<<"working", w>>] = <<"working", w>>

LEMMA AdvanceIs ==
  ASSUME NEW from \in {"wire", "queue", "inbound"}, NEW to \in Places
  PROVE  \E r : IsAdvance(r, from, to)
<1> DEFINE r == Advance(from, to)
<1> SUFFICES IsAdvance(r, from, to)
  OBVIOUS
<1>1. \A k \in Int : <<from, k>> \in Places
  BY DEF Places
<1>2. \A p \in Places : p[1] = from => p[2] \in Int
  BY DEF Places
<1>3. \A p \in Places : r[p] = IF p[1] = from THEN IF p[2] = 1 THEN to ELSE <<from, p[2] - 1>>
                                              ELSE p
  BY DEF Advance
<1>4. r \in [Places -> Places]
  <2>1. ASSUME NEW p \in Places
        PROVE  r[p] \in Places
    <3>1. CASE p[1] = from /\ p[2] # 1
      <4>1. PICK k \in Int : k = p[2] - 1
        BY <1>2, <3>1
      <4>2. r[p] = <<from, k>>
        BY <1>3, <3>1, <4>1
      <4> QED
        BY <1>1, <4>2
    <3>2. CASE ~(p[1] = from /\ p[2] # 1)
      <4>1. r[p] = to \/ r[p] = p
        BY <1>3, <3>2
      <4> QED
        BY <4>1
    <3> QED
      BY <3>1, <3>2
  <2> QED
    BY <2>1 DEF Advance
<1> HIDE DEF r
<1>5. r[<<from, 1>>] = to /\ \A k \in Int : k # 1 => r[<<from, k>>] = <<from, k - 1>>
  <2>1. ASSUME NEW k \in Int
        PROVE  r[<<from, k>>] = IF k = 1 THEN to ELSE <<from, k - 1>>
    <3>1. PICK p : p = <<from, k>>
      OBVIOUS
    <3>2. p \in Places /\ p[1] = from /\ p[2] = k
      BY <1>1, <3>1
    <3>3. r[p] = IF k = 1 THEN to ELSE <<from, k - 1>>
      BY <1>3, <3>2
    <3> QED
      BY <3>1, <3>3
  <2>2. r[<<from, 1>>] = to
    <3>1. PICK k \in Int : k = 1
      OBVIOUS
    <3>2. r[<<from, k>>] = to
      BY <2>1, <3>1
    <3> QED
      BY <3>1, <3>2
  <2>3. ASSUME NEW k \in Int, k # 1
        PROVE  r[<<from, k>>] = <<from, k - 1>>
    BY <2>1, <2>3
  <2> QED
    BY <2>2, <2>3
<1>6. \A p \in Places : p[1] # from => r[p] = p
  BY <1>3
<1>7. ASSUME NEW tag \in {"wire", "queue", "inbound", "confirmed"}, tag # from, NEW k \in Int
      PROVE  r[<<tag, k>>] = <<tag, k>>
  <2>1. PICK p : p = <<tag, k>>
    OBVIOUS
  <2>2. p \in Places /\ p[1] # from
    BY <1>7, <2>1 DEF Places
  <2> QED
    BY <1>6, <2>1, <2>2
<1>8. ASSUME NEW w \in Workers
      PROVE  r[<<"working", w>>] = <<"working", w>>
  <2>1. PICK p : p = <<"working", w>>
    OBVIOUS
  <2>2. p \in Places /\ p[1] # from
    BY <2>1 DEF Places
  <2> QED
    BY <1>6, <2>1, <2>2
<1> QED
  BY <1>4, <1>5, <1>7, <1>8, Zenon DEF IsAdvance

IsLeave(r, w, to) ==
  /\ r \in [Places -> Places]
  /\ r[<<"working", w>>] = to
  /\ \A tag \in {"wire", "queue", "inbound", "confirmed"} : \A k \in Int :
       r[<<tag, k>>] = <<tag, k>>
  /\ \A v \in Workers \ {w} : r[<<"working", v>>] = <<"working", v>>

LEMMA LeaveIs ==
  ASSUME NEW w \in Workers, NEW to \in Places
  PROVE  \E r : IsLeave(r, w, to)
<1> DEFINE r == Leave(w, to)
<1>1. r \in [Places -> Places]
  BY DEF Leave
<1>2. \A p \in Places : r[p] = IF p = <<"working", w>> THEN to ELSE p
  BY DEF Leave
<1> HIDE DEF r
<1>3. r[<<"working", w>>] = to
  BY <1>2, PlacesAre
<1>4. ASSUME NEW tag \in {"wire", "queue", "inbound", "confirmed"}, NEW k \in Int
      PROVE  r[<<tag, k>>] = <<tag, k>>
  <2>1. PICK p : p = <<tag, k>>
    OBVIOUS
  <2>2. p \in Places /\ p # <<"working", w>>
    BY <2>1 DEF Places
  <2> QED
    BY <1>2, <2>1, <2>2
<1>5. ASSUME NEW v \in Workers \ {w}
      PROVE  r[<<"working", v>>] = <<"working", v>>
  <2>1. PICK p : p = <<"working", v>>
    OBVIOUS
  <2>2. p \in Places /\ p # <<"working", w>>
    BY <2>1 DEF Places
  <2> QED
    BY <1>2, <2>1, <2>2
<1>6. IsLeave(r, w, to)
  BY <1>1, <1>3, <1>4, <1>5, Zenon DEF IsLeave
<1> QED
  BY <1>6

\* The indices of the sequences are integers.
LEMMA Indices ==
  ASSUME TypeInv
  PROVE  /\ \A i \in DOMAIN wire : i \in Int
         /\ \A i \in DOMAIN queue : i \in Int
         /\ \A i \in DOMAIN inbound : i \in Int
         /\ \A i \in DOMAIN confirmed : i \in Int
         /\ Len(wire) \in Nat /\ Len(queue) \in Nat /\ Len(inbound) \in Nat
         /\ Len(confirmed) \in Nat
<1>1. ASSUME NEW s, IsSequence(s)
      PROVE  Len(s) \in Nat /\ \A i \in DOMAIN s : i \in Int
  <2>1. PICK S : s \in Seq(S)
    BY <1>1 DEF IsSequence
  <2> QED
    BY <2>1, LenProperties
<1>2. /\ IsSequence(wire)
      /\ IsSequence(queue)
      /\ IsSequence(inbound)
      /\ IsSequence(confirmed)
  BY DEF TypeInv, IsSequence
<1> QED
  BY <1>1, <1>2

\* A step that adds no order anywhere.
LEMMA NothingMoves ==
  ASSUME TypeInv, OrdersComeFrom,
         UNCHANGED <<typed, queue, confirmed>>,
         wire' = wire \/ wire' = <<>>,
         \A w \in Workers : working'[w] = working[w] \/ working'[w].pc # "handle",
         \A i \in DOMAIN inbound' : IsConfirmation(inbound'[i]) =>
            i \in DOMAIN inbound /\ inbound'[i] = inbound[i]
  PROVE  OrdersComeFrom'
<1>1. WireMoved(Stay)
  <2>1. \A i \in DOMAIN wire' : i \in DOMAIN wire /\ wire'[i] = wire[i]
    OBVIOUS
  <2>2. \A i \in DOMAIN wire : Stay[<<"wire", i>>] = <<"wire", i>>
    BY StayIs, PlacesAre, Indices
  <2> QED
    BY <2>1, <2>2 DEF WireMoved
<1>2. QueueMoved(Stay)
  <2>1. \A i \in DOMAIN queue : Stay[<<"queue", i>>] = <<"queue", i>>
    BY StayIs, PlacesAre, Indices
  <2> QED
    BY <2>1 DEF QueueMoved
<1>3. WorkingMoved(Stay)
  <2>1. \A w \in Workers : Stay[<<"working", w>>] = <<"working", w>>
    BY StayIs, PlacesAre
  <2> QED
    BY <2>1 DEF WorkingMoved
<1>4. InboundMoved(Stay)
  <2>1. \A i \in DOMAIN inbound : Stay[<<"inbound", i>>] = <<"inbound", i>>
    BY StayIs, PlacesAre, Indices
  <2> QED
    BY <2>1 DEF InboundMoved
<1>5. ConfirmedMoved(Stay)
  <2>1. \A i \in DOMAIN confirmed : Stay[<<"confirmed", i>>] = <<"confirmed", i>>
    BY StayIs, PlacesAre, Indices
  <2> QED
    BY <2>1 DEF ConfirmedMoved
<1> QED
  BY <1>1, <1>2, <1>3, <1>4, <1>5, StayIs, MoveKeeps DEF Moved

\* An answer that is no confirmation adds none.
LEMMA NoConfirmationAdded ==
  ASSUME TypeInv, NEW to, NEW json, ~IsConfirmation(json), ws_server_send(to, json)
  PROVE  \A i \in DOMAIN inbound' : IsConfirmation(inbound'[i]) =>
           i \in DOMAIN inbound /\ inbound'[i] = inbound[i]
<1>1. CASE inbound' = inbound
  BY <1>1
<1>2. CASE inbound' = Append(inbound, json)
  <2>1. PICK r : r = inbound'
    OBVIOUS
  <2>2. IsAppended(r, inbound, json)
    BY <1>2, <2>1, AppendAny DEF TypeInv
  <2>3. \A i \in DOMAIN r : i \in DOMAIN inbound \/ i = Len(inbound) + 1
    BY <2>2 DEF IsAppended
  <2>4. \A i \in DOMAIN r : IsConfirmation(r[i]) => i \in DOMAIN inbound /\ r[i] = inbound[i]
    BY <2>2, <2>3, Zenon DEF IsAppended
  <2> QED
    BY <2>1, <2>4
<1> QED
  BY <1>1, <1>2, Sent

-----------------------------------------------------------------------------
(* Every action keeps the orders those that were sent.                     *)

\* Rounding to a cent moves a price by at most half of one.
LEMMA CentsAreNear ==
  ASSUME NEW p \in Nat
  PROVE  100 * Cents(p) - p \in -50..50
<1>1. PICK q \in Int : q = (p + 50) \div 100
  OBVIOUS
<1>2. 100 * q <= p + 50 /\ p + 50 < 100 * q + 100
  BY <1>1
<1> QED
  BY <1>1, <1>2 DEF Cents

\* The first of s moves to a place, and the others are those of t.
IsTaken(r, s, t, from, to) ==
  /\ \A i \in DOMAIN t : \E k \in DOMAIN s : r[<<from, k>>] = <<from, i>> /\ t[i] = s[k]
  /\ 1 \in DOMAIN s /\ s[1] = Head(s) /\ r[<<from, 1>>] = to

LEMMA TakenFrom ==
  ASSUME NEW s, IsSequence(s), s # <<>>, NEW t, t = Tail(s),
         NEW from \in {"wire", "queue", "inbound"}, NEW to \in Places,
         NEW r, IsAdvance(r, from, to)
  PROVE  IsTaken(r, s, t, from, to)
<1>1. /\ Len(s) \in Nat \ {0} /\ DOMAIN s = 1..Len(s)
      /\ Head(s) = s[1]
      /\ DOMAIN t = 1..(Len(s) - 1)
      /\ \A i \in DOMAIN t : i + 1 \in DOMAIN s /\ t[i] = s[i + 1]
  BY TailAny
<1>2. r[<<from, 1>>] = to
  BY DEF IsAdvance
<1>3. 1 \in DOMAIN s
  BY <1>1
<1>4. ASSUME NEW i \in DOMAIN t
      PROVE  \E k \in DOMAIN s : r[<<from, k>>] = <<from, i>> /\ t[i] = s[k]
  <2>1. PICK k \in Int : k = i + 1
    BY <1>1
  <2>2. k \in DOMAIN s /\ t[i] = s[k] /\ k # 1 /\ k - 1 = i
    BY <1>1, <2>1
  <2>3. r[<<from, k>>] = <<from, k - 1>>
    BY <2>2 DEF IsAdvance
  <2> QED
    BY <2>2, <2>3
<1> QED
  BY <1>1, <1>2, <1>3, <1>4, Zenon DEF IsTaken

LEMMA ServerReceiveFrom ==
  ASSUME TypeInv, OrdersComeFrom, ServerReceive
  PROVE  OrdersComeFrom'
<1>1. PICK to : to = <<"queue", Len(queue) + 1>>
  OBVIOUS
<1>2. to \in Places
  <2>1. PICK k \in Int : k = Len(queue) + 1
    BY Indices
  <2> QED
    BY <1>1, <2>1, PlacesAre
<1>3. PICK r : IsAdvance(r, "wire", to)
  BY <1>2, AdvanceIs
<1>4. /\ r \in [Places -> Places]
      /\ \A k \in Int : r[<<"queue", k>>] = <<"queue", k>>
      /\ \A k \in Int : r[<<"inbound", k>>] = <<"inbound", k>>
      /\ \A k \in Int : r[<<"confirmed", k>>] = <<"confirmed", k>>
      /\ \A v \in Workers : r[<<"working", v>>] = <<"working", v>>
  BY <1>3 DEF IsAdvance
<1>5. PICK t : t = Tail(wire)
  OBVIOUS
<1>6. wire # <<>> /\ wire' = t /\ IsSequence(wire)
  BY <1>5 DEF ServerReceive, TypeInv, IsSequence
<1>7. /\ \A i \in DOMAIN t : \E k \in DOMAIN wire : r[<<"wire", k>>] = <<"wire", i>> /\ t[i] = wire[k]
      /\ 1 \in DOMAIN wire /\ wire[1] = Head(wire) /\ r[<<"wire", 1>>] = to
  <2>1. IsTaken(r, wire, t, "wire", to)
    BY <1>2, <1>3, <1>5, <1>6, TakenFrom
  <2> QED
    BY <2>1 DEF IsTaken
<1>8. WireMoved(r)
  BY <1>6, <1>7 DEF WireMoved
<1>9. \A k \in DOMAIN queue : r[<<"queue", k>>] = <<"queue", k>>
  BY <1>4, Indices, Zenon
<1>10. QueueMoved(r)
  <2>1. CASE queue' = queue
    BY <1>9, <2>1 DEF QueueMoved
  <2>2. CASE queue' = Append(queue, <<connection, Head(wire)>>)
    <3>1. PICK q : q = queue'
      OBVIOUS
    <3>2. /\ q[Len(queue) + 1] = <<connection, Head(wire)>>
          /\ \A i \in DOMAIN queue : q[i] = queue[i]
          /\ \A i \in DOMAIN q : i \in DOMAIN queue \/ i = Len(queue) + 1
      <4>1. PICK e : e = <<connection, Head(wire)>>
        OBVIOUS
      <4>2. IsSequence(queue) /\ q = Append(queue, e)
        BY <2>2, <3>1, <4>1 DEF TypeInv, IsSequence
      <4>3. IsAppended(q, queue, e)
        BY <4>2, AppendAny
      <4> QED
        BY <4>1, <4>3 DEF IsAppended
    <3>3. \A i \in DOMAIN q : i \in DOMAIN queue \/ i = Len(queue) + 1
      BY <3>2
    <3>4. ASSUME NEW i \in DOMAIN q
          PROVE  \/ \E k \in DOMAIN queue : r[<<"queue", k>>] = <<"queue", i>> /\ q[i] = queue[k]
                 \/ \E k \in DOMAIN wire : r[<<"wire", k>>] = <<"queue", i>> /\ q[i][2] = wire[k]
      <4>1. CASE i \in DOMAIN queue
        BY <1>9, <3>2, <4>1
      <4>2. CASE i = Len(queue) + 1
        <5>1. q[i][2] = wire[1]
          BY <1>7, <3>2, <4>2
        <5> QED
          BY <1>1, <1>7, <4>2, <5>1
      <4> QED
        BY <3>3, <4>1, <4>2
    <3> QED
      BY <3>1, <3>4 DEF QueueMoved
  <2> QED
    BY <2>1, <2>2 DEF ServerReceive
<1>11. WorkingMoved(r)
  <2>1. \A w \in Workers : r[<<"working", w>>] = <<"working", w>>
    BY <1>4
  <2> QED
    BY <2>1 DEF WorkingMoved, ServerReceive
<1>12. InboundMoved(r)
  <2>1. \A i \in DOMAIN inbound : r[<<"inbound", i>>] = <<"inbound", i>>
    BY <1>4, Indices, Zenon
  <2> QED
    BY <2>1 DEF InboundMoved, ServerReceive
<1>13. ConfirmedMoved(r)
  <2>1. \A i \in DOMAIN confirmed : r[<<"confirmed", i>>] = <<"confirmed", i>>
    BY <1>4, Indices, Zenon
  <2> QED
    BY <2>1 DEF ConfirmedMoved, ServerReceive, display
<1>14. typed' = typed
  BY DEF ServerReceive
<1> QED
  BY <1>4, <1>8, <1>10, <1>11, <1>12, <1>13, <1>14, MoveKeeps DEF Moved

LEMMA DequeueFrom ==
  ASSUME TypeInv, OrdersComeFrom, NEW w \in Workers, Dequeue(w)
  PROVE  OrdersComeFrom'
<1>1. PICK to : to = <<"working", w>>
  OBVIOUS
<1>2. to \in Places
  BY <1>1, PlacesAre
<1>3. PICK r : IsAdvance(r, "queue", to)
  BY <1>2, AdvanceIs
<1>4. /\ r \in [Places -> Places]
      /\ \A k \in Int : r[<<"wire", k>>] = <<"wire", k>>
      /\ \A k \in Int : r[<<"inbound", k>>] = <<"inbound", k>>
      /\ \A k \in Int : r[<<"confirmed", k>>] = <<"confirmed", k>>
      /\ \A v \in Workers : r[<<"working", v>>] = <<"working", v>>
  BY <1>3 DEF IsAdvance
<1>5. PICK t : t = Tail(queue)
  OBVIOUS
<1>6. queue # <<>> /\ queue' = t /\ IsSequence(queue)
  BY <1>5 DEF Dequeue, TypeInv, IsSequence
<1>7. /\ \A i \in DOMAIN t : \E k \in DOMAIN queue :
           r[<<"queue", k>>] = <<"queue", i>> /\ t[i] = queue[k]
      /\ 1 \in DOMAIN queue /\ queue[1] = Head(queue) /\ r[<<"queue", 1>>] = to
  <2>1. IsTaken(r, queue, t, "queue", to)
    BY <1>2, <1>3, <1>5, <1>6, TakenFrom
  <2> QED
    BY <2>1 DEF IsTaken
<1>8. WireMoved(r)
  <2>1. \A i \in DOMAIN wire : r[<<"wire", i>>] = <<"wire", i>>
    BY <1>4, Indices, Zenon
  <2> QED
    BY <2>1 DEF WireMoved, Dequeue, net
<1>9. QueueMoved(r)
  BY <1>6, <1>7 DEF QueueMoved
<1>10. WorkingMoved(r)
  <2>1. \A v \in Workers : r[<<"working", v>>] = <<"working", v>>
    BY <1>4
  <2>2. \A v \in Workers \ {w} : working'[v] = working[v]
    BY DEF Dequeue, TypeInv
  <2>3. working'[w].json = Head(queue)[2]
    BY DEF Dequeue, TypeInv
  <2>4. r[<<"queue", 1>>] = <<"working", w>> /\ working'[w].json = queue[1][2]
    BY <1>1, <1>7, <2>3
  <2> QED
    BY <1>7, <2>1, <2>2, <2>4 DEF WorkingMoved
<1>11. InboundMoved(r)
  <2>1. \A i \in DOMAIN inbound : r[<<"inbound", i>>] = <<"inbound", i>>
    BY <1>4, Indices, Zenon
  <2> QED
    BY <2>1 DEF InboundMoved, Dequeue, net
<1>12. ConfirmedMoved(r)
  <2>1. \A i \in DOMAIN confirmed : r[<<"confirmed", i>>] = <<"confirmed", i>>
    BY <1>4, Indices, Zenon
  <2> QED
    BY <2>1 DEF ConfirmedMoved, Dequeue, display
<1>13. typed' = typed
  BY DEF Dequeue
<1> QED
  BY <1>4, <1>8, <1>9, <1>10, <1>11, <1>12, <1>13, MoveKeeps DEF Moved

LEMMA ClientReceiveFrom ==
  ASSUME TypeInv, OrdersComeFrom, ClientReceive
  PROVE  OrdersComeFrom'
<1>1. PICK to : to = <<"confirmed", Len(confirmed) + 1>>
  OBVIOUS
<1>2. to \in Places
  <2>1. PICK k \in Int : k = Len(confirmed) + 1
    BY Indices
  <2> QED
    BY <1>1, <2>1, PlacesAre
<1>3. PICK r : IsAdvance(r, "inbound", to)
  BY <1>2, AdvanceIs
<1>4. /\ r \in [Places -> Places]
      /\ \A k \in Int : r[<<"wire", k>>] = <<"wire", k>>
      /\ \A k \in Int : r[<<"queue", k>>] = <<"queue", k>>
      /\ \A k \in Int : r[<<"confirmed", k>>] = <<"confirmed", k>>
      /\ \A v \in Workers : r[<<"working", v>>] = <<"working", v>>
  BY <1>3 DEF IsAdvance
<1>5. PICK t : t = Tail(inbound)
  OBVIOUS
<1>6. inbound # <<>> /\ inbound' = t /\ IsSequence(inbound)
  BY <1>5 DEF ClientReceive, TypeInv
<1>7. /\ \A i \in DOMAIN t : \E k \in DOMAIN inbound :
           r[<<"inbound", k>>] = <<"inbound", i>> /\ t[i] = inbound[k]
      /\ 1 \in DOMAIN inbound /\ inbound[1] = Head(inbound) /\ r[<<"inbound", 1>>] = to
  <2>1. IsTaken(r, inbound, t, "inbound", to)
    BY <1>2, <1>3, <1>5, <1>6, TakenFrom
  <2> QED
    BY <2>1 DEF IsTaken
<1>8. WireMoved(r)
  <2>1. \A i \in DOMAIN wire : r[<<"wire", i>>] = <<"wire", i>>
    BY <1>4, Indices, Zenon
  <2> QED
    BY <2>1 DEF WireMoved, ClientReceive
<1>9. QueueMoved(r)
  <2>1. \A i \in DOMAIN queue : r[<<"queue", i>>] = <<"queue", i>>
    BY <1>4, Indices, Zenon
  <2> QED
    BY <2>1 DEF QueueMoved, ClientReceive, server
<1>10. WorkingMoved(r)
  BY <1>4 DEF WorkingMoved, ClientReceive, server
<1>11. InboundMoved(r)
  BY <1>6, <1>7 DEF InboundMoved
<1>12. \A i \in DOMAIN confirmed : r[<<"confirmed", i>>] = <<"confirmed", i>>
  BY <1>4, Indices, Zenon
<1>13. ConfirmedMoved(r)
  <2>1. CASE confirmed' = confirmed
    BY <1>12, <2>1 DEF ConfirmedMoved
  <2>2. CASE IsConfirmation(Head(inbound)) /\ confirmed' = Append(confirmed, Head(inbound).details)
    <3>1. PICK q : q = confirmed'
      OBVIOUS
    <3>2. /\ q[Len(confirmed) + 1] = Head(inbound).details
          /\ \A i \in DOMAIN confirmed : q[i] = confirmed[i]
          /\ \A i \in DOMAIN q : i \in DOMAIN confirmed \/ i = Len(confirmed) + 1
      <4>1. IsAppended(q, confirmed, Head(inbound).details)
        BY <2>2, <3>1, AppendAny DEF TypeInv
      <4> QED
        BY <4>1 DEF IsAppended
    <3>3. \A i \in DOMAIN q : i \in DOMAIN confirmed \/ i = Len(confirmed) + 1
      BY <3>2
    <3>4. ASSUME NEW i \in DOMAIN q
          PROVE  \/ \E k \in DOMAIN confirmed :
                      r[<<"confirmed", k>>] = <<"confirmed", i>> /\ q[i] = confirmed[k]
                 \/ \E k \in DOMAIN inbound : /\ IsConfirmation(inbound[k])
                                              /\ r[<<"inbound", k>>] = <<"confirmed", i>>
                                              /\ q[i] = inbound[k].details
      <4>1. CASE i \in DOMAIN confirmed
        BY <1>12, <3>2, <4>1
      <4>2. CASE i = Len(confirmed) + 1
        <5>1. q[i] = inbound[1].details /\ IsConfirmation(inbound[1])
          BY <1>7, <2>2, <3>2, <4>2
        <5> QED
          BY <1>1, <1>7, <4>2, <5>1
      <4> QED
        BY <3>3, <4>1, <4>2
    <3> QED
      BY <3>1, <3>4 DEF ConfirmedMoved
  <2> QED
    BY <2>1, <2>2, ClientShows
<1>14. typed' = typed
  BY DEF ClientReceive
<1> QED
  BY <1>4, <1>8, <1>9, <1>10, <1>11, <1>13, <1>14, MoveKeeps DEF Moved

\* The confirmation handle_place_order sends is of the order it has been sent.
LEMMA ConfirmationIsOf ==
  ASSUME NEW t \in Placements, NEW json,
         json = [type |-> MSG_ORDER_ACCEPTED, status |-> "success",
                 details |-> [order_id |-> t.order_id, symbol |-> t.symbol,
                              price |-> Cents(t.price), quantity |-> t.quantity,
                              side |-> IF t.is_buy THEN "Buy" ELSE "Sell"]]
  PROVE  ConfirmationOf(json.details, t)
<1>1. PICK p : p = Cents(t.price)
  OBVIOUS
<1>2. 100 * p - t.price \in -50..50
  BY <1>1, CentsAreNear DEF Placements
<1>3. /\ json.details.order_id = t.order_id
      /\ json.details.symbol = t.symbol
      /\ json.details.quantity = t.quantity
      /\ json.details.price = p
      /\ json.details.side = IF t.is_buy THEN "Buy" ELSE "Sell"
  BY <1>1
<1> QED
  BY <1>2, <1>3 DEF ConfirmationOf

LEMMA PlaceOrderFrom ==
  ASSUME TypeInv, OrdersComeFrom, NEW w \in Workers, PlaceOrder(w)
  PROVE  OrdersComeFrom'
<1>1. working[w].pc = "handle" /\ IsPlacement(working[w].json)
  BY DEF PlaceOrder, IsPlacement
<1>2. working[w] \in [pc : {"handle"}, to : Nat, json : Messages]
  BY <1>1, WorkerHolds
<1>3. working[w].json \in Placements
  BY <1>1, <1>2, RequestsAre DEF Messages
<1>4. UNCHANGED <<wire, queue, confirmed, typed>>
  BY DEF PlaceOrder, display
<1>5. /\ \A v \in Workers \ {w} : working'[v] = working[v]
      /\ working'[w].pc # "handle"
  <2>1. DOMAIN working = Workers
    BY DEF TypeInv
  <2>2. CASE broadcaster
    <3>1. working' = [working EXCEPT ![w].pc = "match"]
      BY <2>2 DEF PlaceOrder
    <3> QED
      BY <1>2, <2>1, <3>1
  <2>3. CASE ~broadcaster
    BY <2>1, <2>3 DEF PlaceOrder, Idle
  <2> QED
    BY <2>2, <2>3
<1>6. CASE ~broadcaster
  <2>1. ws_server_send(working[w].to, [type |-> MSG_ERROR])
    BY <1>6 DEF PlaceOrder, send_error_response
  <2>2. \A i \in DOMAIN inbound' : IsConfirmation(inbound'[i]) =>
           i \in DOMAIN inbound /\ inbound'[i] = inbound[i]
    BY <2>1, OtherAnswers, NoConfirmationAdded
  <2> QED
    BY <1>4, <1>5, <2>2, NothingMoves
<1>7. CASE broadcaster
  <2>1. PICK t \in Placements : t = working[w].json
    BY <1>3
  <2>2. PICK json :
          json = [type |-> MSG_ORDER_ACCEPTED, status |-> "success",
                  details |-> [order_id |-> t.order_id, symbol |-> t.symbol,
                               price |-> Cents(t.price), quantity |-> t.quantity,
                               side |-> IF t.is_buy THEN "Buy" ELSE "Sell"]]
    OBVIOUS
  <2>3. ws_server_send(working[w].to, json)
    BY <1>7, <2>1, <2>2 DEF PlaceOrder
  <2>4. ConfirmationOf(json.details, t)
    BY <2>2, ConfirmationIsOf
  <2>5. PICK to : to = <<"inbound", Len(inbound) + 1>>
    OBVIOUS
  <2>6. to \in Places
    <3>1. PICK k \in Int : k = Len(inbound) + 1
      BY Indices
    <3> QED
      BY <2>5, <3>1, PlacesAre
  <2>7. PICK r : IsLeave(r, w, to)
    BY <2>6, LeaveIs
  <2>8. WireMoved(r)
    <3>1. \A i \in DOMAIN wire : r[<<"wire", i>>] = <<"wire", i>>
      BY <2>7, Indices, Zenon DEF IsLeave
    <3> QED
      BY <1>4, <3>1 DEF WireMoved
  <2>9. QueueMoved(r)
    <3>1. \A i \in DOMAIN queue : r[<<"queue", i>>] = <<"queue", i>>
      BY <2>7, Indices, Zenon DEF IsLeave
    <3> QED
      BY <1>4, <3>1 DEF QueueMoved
  <2>10. WorkingMoved(r)
    <3>1. \A v \in Workers \ {w} : r[<<"working", v>>] = <<"working", v>>
      BY <2>7 DEF IsLeave
    <3> QED
      BY <1>5, <3>1 DEF WorkingMoved
  <2>11. ConfirmedMoved(r)
    <3>1. \A i \in DOMAIN confirmed : r[<<"confirmed", i>>] = <<"confirmed", i>>
      BY <2>7, Indices, Zenon DEF IsLeave
    <3> QED
      BY <1>4, <3>1 DEF ConfirmedMoved
  <2>12. \A i \in DOMAIN inbound : r[<<"inbound", i>>] = <<"inbound", i>>
    BY <2>7, Indices, Zenon DEF IsLeave
  <2>13. InboundMoved(r)
    <3>1. CASE inbound' = inbound
      BY <2>12, <3>1 DEF InboundMoved
    <3>2. CASE inbound' = Append(inbound, json)
      <4>1. PICK q : q = inbound'
        OBVIOUS
      <4>2. /\ q[Len(inbound) + 1] = json
            /\ \A i \in DOMAIN inbound : q[i] = inbound[i]
            /\ \A i \in DOMAIN q : i \in DOMAIN inbound \/ i = Len(inbound) + 1
        <5>1. IsAppended(q, inbound, json)
          BY <3>2, <4>1, AppendAny DEF TypeInv
        <5> QED
          BY <5>1 DEF IsAppended
      <4>3. \A i \in DOMAIN q : i \in DOMAIN inbound \/ i = Len(inbound) + 1
        BY <4>2
      <4>4. r[<<"working", w>>] = to
        BY <2>7 DEF IsLeave
      <4>5. ASSUME NEW i \in DOMAIN q
            PROVE  \/ \E k \in DOMAIN inbound : r[<<"inbound", k>>] = <<"inbound", i>> /\ q[i] = inbound[k]
                   \/ \E v \in Workers : /\ working[v].pc = "handle" /\ IsPlacement(working[v].json)
                                         /\ r[<<"working", v>>] = <<"inbound", i>>
                                         /\ ConfirmationOf(q[i].details, working[v].json)
        <5>1. CASE i \in DOMAIN inbound
          BY <2>12, <4>2, <5>1
        <5>2. CASE i = Len(inbound) + 1
          <6>1. ConfirmationOf(q[i].details, working[w].json)
            BY <2>1, <2>4, <4>2, <5>2
          <6>2. r[<<"working", w>>] = <<"inbound", i>>
            BY <2>5, <4>4, <5>2
          <6> QED
            BY <1>1, <6>1, <6>2
        <5> QED
          BY <4>3, <5>1, <5>2
      <4> QED
        BY <4>1, <4>5 DEF InboundMoved
    <3> QED
      BY <2>3, <3>1, <3>2, Sent
  <2>14. r \in [Places -> Places]
    BY <2>7 DEF IsLeave
  <2> QED
    BY <1>4, <2>8, <2>9, <2>10, <2>11, <2>13, <2>14, MoveKeeps DEF Moved
<1> QED
  BY <1>6, <1>7

\* A message is put on the wire.
LEMMA WireGrows ==
  ASSUME TypeInv, NEW json, NEW q, q = Append(wire, json)
  PROVE  /\ Len(wire) \in Nat /\ DOMAIN wire = 1..Len(wire)
         /\ q[Len(wire) + 1] = json
         /\ \A i \in DOMAIN wire : q[i] = wire[i]
         /\ \A i \in DOMAIN q : i \in DOMAIN wire \/ i = Len(wire) + 1
<1>1. IsSequence(wire)
  BY DEF TypeInv, IsSequence
<1>2. IsAppended(q, wire, json)
  BY <1>1, AppendAny
<1> QED
  BY <1>2 DEF IsAppended

LEMMA SendCommandFrom ==
  ASSUME TypeInv, OrdersComeFrom, SendCommand
  PROVE  OrdersComeFrom'
<1>1. PICK json : json = format_command_as_json(entered)
  OBVIOUS
<1>2. entered \in Commands
  BY DEF TypeInv, SendCommand
<1>3. \/ json \in Placements /\ json.type = MSG_PLACE_ORDER /\ json # NULL
      \/ json \in Requests /\ json.type # MSG_PLACE_ORDER
      \/ json = NULL /\ json.type # MSG_PLACE_ORDER
  BY <1>1, <1>2, SentMessage
<1>4. UNCHANGED <<queue, working, inbound, confirmed>>
  BY DEF SendCommand, server, display
<1>5. CASE connection = 0 \/ json = NULL
  <2>1. wire' = wire /\ typed' = typed
    BY <1>1, <1>5 DEF SendCommand
  <2> QED
    BY <1>4, <2>1, NothingMoves
<1>6. CASE connection # 0 /\ json # NULL /\ json \in Requests
  <2>1. wire' = Append(wire, json) /\ typed' = typed
    BY <1>1, <1>3, <1>6, RequestsAre, PlacementsAre DEF SendCommand
  <2>2. PICK at \in [DOMAIN typed -> Places] : From(at)
    BY DEF OrdersComeFrom
  <2>3. PICK q : q = wire'
    OBVIOUS
  <2>4. /\ q[Len(wire) + 1] = json
        /\ \A i \in DOMAIN wire : q[i] = wire[i]
        /\ \A i \in DOMAIN q : i \in DOMAIN wire \/ i = Len(wire) + 1
    BY <2>1, <2>3, WireGrows
  <2>5. ~IsPlacement(json)
    BY <1>6, RequestsAre
  <2>6. \A i \in DOMAIN q : IsPlacement(q[i]) => i \in DOMAIN wire /\ q[i] = wire[i]
    BY <2>4, <2>5, Zenon
  <2>7. \A i \in DOMAIN q : IsPlacement(q[i]) =>
          \E j \in DOMAIN typed : at[j] = <<"wire", i>> /\ typed[j] = q[i]
    BY <2>2, <2>6 DEF From, WireFrom
  <2>8. WireFrom(at)'
    <3>1. \A i \in DOMAIN wire' : IsPlacement(wire'[i]) =>
            \E j \in DOMAIN typed' : at[j] = <<"wire", i>> /\ typed'[j] = wire'[i]
      BY <2>1, <2>3, <2>7
    <3> QED
      BY <3>1 DEF WireFrom, IsPlacement, parse_base_message
  <2>9. QueueFrom(at)' /\ WorkingFrom(at)' /\ InboundFrom(at)' /\ ConfirmedFrom(at)'
    <3>1. QueueFrom(at)'
      BY <1>4, <2>1, <2>2 DEF From, QueueFrom, IsPlacement, parse_base_message
    <3>2. WorkingFrom(at)'
      BY <1>4, <2>1, <2>2 DEF From, WorkingFrom, IsPlacement, parse_base_message
    <3>3. InboundFrom(at)'
      <4>1. \A i \in DOMAIN inbound' : IsConfirmation(inbound'[i]) =>
              \E j \in DOMAIN typed' :
                at[j] = <<"inbound", i>> /\ ConfirmationOf(inbound'[i].details, typed'[j])
        BY <1>4, <2>1, <2>2 DEF From, InboundFrom
      <4> QED
        BY <4>1 DEF InboundFrom, IsConfirmation, parse_base_message, ConfirmationOf
    <3>4. ConfirmedFrom(at)'
      BY <1>4, <2>1, <2>2 DEF From, ConfirmedFrom, ConfirmationOf
    <3> QED
      BY <3>1, <3>2, <3>3, <3>4
  <2> QED
    BY <2>1, <2>2, <2>8, <2>9 DEF OrdersComeFrom, From
<1>7. CASE connection # 0 /\ json # NULL /\ json \in Placements
  <2>1. wire' = Append(wire, json) /\ typed' = Append(typed, json)
    BY <1>1, <1>3, <1>7, RequestsAre, PlacementsAre DEF SendCommand
  <2>2. PICK at \in [DOMAIN typed -> Places] : From(at)
    BY DEF OrdersComeFrom
  <2>3. PICK q : q = wire'
    OBVIOUS
  <2>4. /\ q[Len(wire) + 1] = json
        /\ \A i \in DOMAIN wire : q[i] = wire[i]
        /\ \A i \in DOMAIN q : i \in DOMAIN wire \/ i = Len(wire) + 1
    BY <2>1, <2>3, WireGrows
  <2>5. PICK u : u = typed'
    OBVIOUS
  <2>6. /\ Len(typed) \in Nat /\ DOMAIN typed = 1..Len(typed)
        /\ DOMAIN u = 1..(Len(typed) + 1)
        /\ u[Len(typed) + 1] = json
        /\ \A j \in DOMAIN typed : u[j] = typed[j]
    <3>1. IsSequence(typed)
      BY DEF TypeInv, IsSequence
    <3>2. IsAppended(u, typed, json)
      BY <2>1, <2>5, <3>1, AppendAny
    <3> QED
      BY <3>2 DEF IsAppended
  <2>7. PICK last : last = Len(typed) + 1
    OBVIOUS
  <2>8. /\ last \in DOMAIN u /\ last \notin DOMAIN typed
        /\ u[last] = json
        /\ \A j \in DOMAIN u : j \in DOMAIN typed \/ j = last
        /\ \A j \in DOMAIN typed : j \in DOMAIN u
    BY <2>6, <2>7
  <2>9. PICK new : new = <<"wire", Len(wire) + 1>>
    OBVIOUS
  <2>10. new \in Places
    <3>1. PICK k \in Int : k = Len(wire) + 1
      BY Indices
    <3> QED
      BY <2>9, <3>1, PlacesAre
  <2>11. PICK to : to = [j \in DOMAIN u |-> IF j \in DOMAIN typed THEN at[j] ELSE new]
    OBVIOUS
  <2>12. /\ to \in [DOMAIN u -> Places]
         /\ to[last] = new
         /\ \A j \in DOMAIN typed : to[j] = at[j] /\ u[j] = typed[j] /\ j \in DOMAIN u
    BY <2>2, <2>6, <2>8, <2>10, <2>11
  <2>13. ASSUME NEW i \in DOMAIN q, IsPlacement(q[i])
         PROVE  \E j \in DOMAIN u : to[j] = <<"wire", i>> /\ u[j] = q[i]
    <3>1. CASE i \in DOMAIN wire
      <4>1. q[i] = wire[i]
        BY <2>4, <3>1
      <4>2. PICK j \in DOMAIN typed : at[j] = <<"wire", i>> /\ typed[j] = wire[i]
        BY <2>2, <2>13, <3>1, <4>1 DEF From, WireFrom
      <4> QED
        BY <2>12, <4>1, <4>2
    <3>2. CASE i = Len(wire) + 1
      BY <2>4, <2>8, <2>9, <2>12, <3>2
    <3> QED
      BY <2>4, <3>1, <3>2
  <2>14. WireFrom(to)'
    <3>1. \A i \in DOMAIN wire' : IsPlacement(wire'[i]) =>
            \E j \in DOMAIN typed' : to[j] = <<"wire", i>> /\ typed'[j] = wire'[i]
      BY <2>3, <2>5, <2>13
    <3> QED
      BY <3>1 DEF WireFrom, IsPlacement, parse_base_message
  <2>15. QueueFrom(to)'
    <3>1. \A i \in DOMAIN queue : IsPlacement(queue[i][2]) =>
            \E j \in DOMAIN u : to[j] = <<"queue", i>> /\ u[j] = queue[i][2]
      <4>1. \A i \in DOMAIN queue : IsPlacement(queue[i][2]) =>
              \E j \in DOMAIN typed : at[j] = <<"queue", i>> /\ typed[j] = queue[i][2]
        BY <2>2 DEF From, QueueFrom
      <4> QED
        BY <2>12, <4>1, Zenon
    <3>2. \A i \in DOMAIN queue' : IsPlacement(queue'[i][2]) =>
            \E j \in DOMAIN typed' : to[j] = <<"queue", i>> /\ typed'[j] = queue'[i][2]
      BY <1>4, <2>5, <3>1
    <3> QED
      BY <3>2 DEF QueueFrom, IsPlacement, parse_base_message
  <2>16. WorkingFrom(to)'
    <3>1. \A w \in Workers : working[w].pc = "handle" /\ IsPlacement(working[w].json) =>
            \E j \in DOMAIN u : to[j] = <<"working", w>> /\ u[j] = working[w].json
      BY <2>2, <2>12 DEF From, WorkingFrom
    <3> QED
      BY <1>4, <2>5, <3>1 DEF WorkingFrom, IsPlacement, parse_base_message
  <2>17. InboundFrom(to)'
    <3>1. \A i \in DOMAIN inbound : IsConfirmation(inbound[i]) =>
            \E j \in DOMAIN u :
              to[j] = <<"inbound", i>> /\ ConfirmationOf(inbound[i].details, u[j])
      BY <2>2, <2>12 DEF From, InboundFrom
    <3>2. \A i \in DOMAIN inbound' : IsConfirmation(inbound'[i]) =>
            \E j \in DOMAIN typed' :
              to[j] = <<"inbound", i>> /\ ConfirmationOf(inbound'[i].details, typed'[j])
      BY <1>4, <2>5, <3>1
    <3> QED
      BY <3>2 DEF InboundFrom, IsConfirmation, parse_base_message, ConfirmationOf
  <2>18. ConfirmedFrom(to)'
    <3>1. \A i \in DOMAIN confirmed : \E j \in DOMAIN u :
            to[j] = <<"confirmed", i>> /\ ConfirmationOf(confirmed[i], u[j])
      BY <2>2, <2>12 DEF From, ConfirmedFrom
    <3>2. \A i \in DOMAIN confirmed' : \E j \in DOMAIN typed' :
            to[j] = <<"confirmed", i>> /\ ConfirmationOf(confirmed'[i], typed'[j])
      BY <1>4, <2>5, <3>1
    <3> QED
      BY <3>2 DEF ConfirmedFrom, ConfirmationOf
  <2> QED
    BY <2>5, <2>12, <2>14, <2>15, <2>16, <2>17, <2>18 DEF OrdersComeFrom, From
<1> QED
  BY <1>3, <1>5, <1>6, <1>7

-----------------------------------------------------------------------------
(* The invariant.                                                          *)

SessionInv == TypeInv /\ OrdersComeFrom

LEMMA InitInv == Init => SessionInv
<1> SUFFICES ASSUME Init
             PROVE  OrdersComeFrom
  BY TypeInit DEF SessionInv
<1>1. /\ DOMAIN wire = {} /\ DOMAIN queue = {} /\ DOMAIN inbound = {}
      /\ DOMAIN confirmed = {} /\ DOMAIN typed = {}
  BY DEF Init
<1>2. \A w \in Workers : working[w].pc = "idle"
  BY DEF Init, Idle
<1>3. PICK at : at = [j \in DOMAIN typed |-> <<"wire", 0>>]
  OBVIOUS
<1>4. at \in [DOMAIN typed -> Places]
  BY <1>1, <1>3
<1>5. From(at)
  BY <1>1, <1>2 DEF From, WireFrom, QueueFrom, WorkingFrom, InboundFrom, ConfirmedFrom
<1> QED
  BY <1>4, <1>5 DEF OrdersComeFrom

LEMMA NextInv == SessionInv /\ [Next]_vars => SessionInv'
<1> SUFFICES ASSUME TypeInv, OrdersComeFrom, [Next]_vars
             PROVE  OrdersComeFrom'
  BY TypeNext DEF SessionInv
<1>1. ASSUME NEW cmd \in parse_command, EnterCommand(cmd)
      PROVE  OrdersComeFrom'
  <2>1. UNCHANGED <<wire, queue, working, inbound, confirmed, typed>>
    BY <1>1 DEF EnterCommand, net, server, display
  <2> QED
    BY <2>1, NothingMoves
<1>2. ASSUME NEW w \in Workers, Worker(w)
      PROVE  OrdersComeFrom'
  <2>1. CASE Dequeue(w)
    BY <2>1, DequeueFrom
  <2>2. CASE PlaceOrder(w)
    BY <2>2, PlaceOrderFrom
  <2>3. CASE PlaceMatch(w)
    <3>1. UNCHANGED <<wire, queue, inbound, confirmed, typed>>
      BY <2>3 DEF PlaceMatch, net, display
    <3>2. \A v \in Workers : working'[v] = working[v] \/ working'[v].pc # "handle"
      BY <2>3 DEF PlaceMatch, TypeInv
    <3> QED
      BY <3>1, <3>2, NothingMoves
  <2>4. CASE BookRequest(w)
    <3>1. UNCHANGED <<wire, queue, confirmed, typed>>
      BY <2>4 DEF BookRequest, display
    <3>2. \A v \in Workers : working'[v] = working[v] \/ working'[v].pc # "handle"
      <4>1. DOMAIN working = Workers
        BY DEF TypeInv
      <4>2. PICK x : working' = [working EXCEPT ![w] = x] /\ x.pc # "handle"
        <5>1. CASE working' = [working EXCEPT ![w] = Idle]
          <6>1. Idle.pc # "handle"
            BY DEF Idle
          <6> QED
            BY <5>1, <6>1
        <5>2. CASE working' # [working EXCEPT ![w] = Idle]
          BY <2>4, <4>1, <5>2 DEF BookRequest
        <5> QED
          BY <5>1, <5>2
      <4> QED
        BY <4>1, <4>2
    <3>3. inbound' = inbound \/ ws_server_send(working[w].to, [type |-> MSG_ERROR])
      BY <2>4 DEF BookRequest, send_error_response
    <3>4. \A i \in DOMAIN inbound' : IsConfirmation(inbound'[i]) =>
            i \in DOMAIN inbound /\ inbound'[i] = inbound[i]
      BY <3>3, OtherAnswers, NoConfirmationAdded
    <3> QED
      BY <3>1, <3>2, <3>4, NothingMoves
  <2>5. CASE SendSnapshot(w)
    <3>1. UNCHANGED <<wire, queue, confirmed, typed>>
      BY <2>5 DEF SendSnapshot, display
    <3>2. \A v \in Workers : working'[v] = working[v] \/ working'[v].pc # "handle"
      BY <2>5 DEF SendSnapshot, TypeInv, Idle
    <3>3. ws_server_send(working[w].to, working[w].json) /\ IsSnapshot(working[w].json)
      BY <2>5, WorkerHolds DEF SendSnapshot
    <3>4. \A i \in DOMAIN inbound' : IsConfirmation(inbound'[i]) =>
            i \in DOMAIN inbound /\ inbound'[i] = inbound[i]
      BY <3>3, OtherAnswers, NoConfirmationAdded
    <3> QED
      BY <3>1, <3>2, <3>4, NothingMoves
  <2> QED
    BY <1>2, <2>1, <2>2, <2>3, <2>4, <2>5 DEF Worker
<1>3. CASE SendCommand
  BY <1>3, SendCommandFrom
<1>4. CASE ServerReceive
  BY <1>4, ServerReceiveFrom
<1>5. CASE ClientReceive
  BY <1>5, ClientReceiveFrom
<1>6. CASE Closed
  <2>1. wire' = <<>> /\ inbound' = <<>> /\ UNCHANGED <<queue, working, confirmed, typed>>
    BY <1>6 DEF Closed, server, display
  <2>2. DOMAIN inbound' = {}
    BY <2>1
  <2> QED
    BY <2>1, <2>2, NothingMoves
<1>7. CASE Established \/ TradeExecuted \/ Tick \/ UNCHANGED vars
  <2>1. UNCHANGED <<wire, queue, working, inbound, confirmed, typed>>
    BY <1>7 DEF Established, TradeExecuted, Tick, vars, client, net, server, display
  <2> QED
    BY <2>1, NothingMoves
<1> QED
  BY <1>1, <1>2, <1>3, <1>4, <1>5, <1>6, <1>7 DEF Next

\* Every order on its way, being worked on, in an answer or shown as placed was
\* sent, and no two of them are one order that was sent: format_command_as_json,
\* enqueue_message, worker_thread, handle_place_order and handle_message.
THEOREM EndToEndInvariant == Spec => []SessionInv
  BY InitInv, NextInv, PTL DEF Spec

-----------------------------------------------------------------------------
(* What the client shows.                                                  *)

LEMMA MatchesFromInv == SessionInv => ConfirmationsMatch
<1> SUFFICES ASSUME TypeInv, OrdersComeFrom
             PROVE  ConfirmationsMatch
  BY DEF SessionInv
<1>1. PICK at \in [DOMAIN typed -> Places] : ConfirmedFrom(at)
  BY DEF OrdersComeFrom, From
<1>2. /\ Len(confirmed) \in Nat /\ DOMAIN confirmed = 1..Len(confirmed)
      /\ Len(typed) \in Nat /\ DOMAIN typed = 1..Len(typed)
  <2>1. PICK S : confirmed \in Seq(S)
    BY DEF TypeInv, IsSequence
  <2> QED
    BY <2>1, LenProperties DEF TypeInv
<1>3. PICK n \in Nat, m \in Nat : n = Len(confirmed) /\ m = Len(typed)
  BY <1>2
<1>4. \A i \in 1..n : \E j \in 1..m :
        at[j] = <<"confirmed", i>> /\ ConfirmationOf(confirmed[i], typed[j])
  BY <1>1, <1>2, <1>3 DEF ConfirmedFrom
<1>5. PICK f : f = [i \in 1..n |-> CHOOSE j \in 1..m : at[j] = <<"confirmed", i>>]
  OBVIOUS
<1>6. ASSUME NEW i \in 1..n
      PROVE  f[i] \in 1..m /\ at[f[i]] = <<"confirmed", i>>
  <2>1. \E j \in 1..m : at[j] = <<"confirmed", i>>
    BY <1>4
  <2> QED
    BY <1>5, <2>1
<1>7. \A i, k \in 1..n : f[i] = f[k] => i = k
  BY <1>6
<1>8. f \in Injection(1..n, 1..m)
  BY <1>5, <1>6, <1>7 DEF Injection, IsInjective
<1>9. n <= m
  <2>1. IsFiniteSet(1..m) /\ Cardinality(1..m) = m /\ Cardinality(1..n) = n
    BY FS_Interval
  <2>2. Cardinality(1..n) <= Cardinality(1..m)
    BY <1>8, <2>1, FS_Injection
  <2> QED
    BY <2>1, <2>2
<1> QED
  BY <1>3, <1>4, <1>9 DEF ConfirmationsMatch, ConfirmationOf

\* What handle_message shows as placed is an order the user typed, to the
\* nearest cent, and no order is shown as placed more often than it was sent.
THEOREM ConfirmationsAlwaysMatch == Spec => []ConfirmationsMatch
  BY EndToEndInvariant, MatchesFromInv, PTL

-----------------------------------------------------------------------------
(* The trade history.                                                      *)

HistoryInv == notices \in Nat /\ HistoryKeepsFirstAndLast

\* h is s with x before it.
IsCons(h, x, s, n) ==
  /\ h \in Seq(Int) /\ Len(h) = n /\ DOMAIN h = 1..n
  /\ h[1] = x
  /\ \A i \in 1..n : i # 1 => h[i] = s[i - 1]

LEMMA ConsIs ==
  ASSUME NEW x \in Int, NEW s \in Seq(Int), NEW h, h = <<x>> \o s, NEW n \in Nat, n = Len(s) + 1
  PROVE  IsCons(h, x, s, n)
<1>1. <<x>> \in Seq(Int) /\ Len(<<x>>) = 1 /\ <<x>>[1] = x
  OBVIOUS
<1>2. PICK o \in Seq(Int) : o = <<x>> /\ Len(o) = 1 /\ o[1] = x
  BY <1>1
<1>3. Len(s) \in Nat
  BY LenProperties
<1>4. /\ h \in Seq(Int) /\ Len(h) = n
      /\ \A i \in 1..n : h[i] = IF i <= 1 THEN o[i] ELSE s[i - 1]
  <2>1. PICK c : c = o \o s
    OBVIOUS
  <2>2. /\ c \in Seq(Int) /\ Len(c) = Len(o) + Len(s)
        /\ \A i \in 1..(Len(o) + Len(s)) : c[i] = IF i <= Len(o) THEN o[i] ELSE s[i - Len(o)]
    BY <2>1, ConcatProperties
  <2>3. c = h /\ Len(o) = 1 /\ Len(o) + Len(s) = n
    BY <1>2, <1>3, <2>1
  <2> QED
    BY <2>2, <2>3
<1>5. h[1] = x
  BY <1>2, <1>3, <1>4
<1>6. \A i \in 1..n : i # 1 => h[i] = s[i - 1]
  BY <1>4
<1> QED
  BY <1>4, <1>5, <1>6, LenProperties DEF IsCons

\* What trade_history_add_trade makes of a history of n trades.
LEMMA HistoryStep ==
  ASSUME HistoryInv, NEW h, h = trade_history_add_trade(notices + 1)
  PROVE  h = LET n == IF notices + 1 <= max_trades THEN notices + 1 ELSE max_trades
             IN [i \in 1..n |-> IF i = 1 THEN notices + 1 ELSE n - i + 1]
<1> USE SessionAssumption
<1>1. PICK n \in Nat : n = IF notices <= max_trades THEN notices ELSE max_trades
  BY DEF HistoryInv
<1>2. history = [i \in 1..n |-> IF i = 1 THEN notices ELSE n - i + 1]
  BY <1>1 DEF HistoryInv, HistoryKeepsFirstAndLast
<1>3. history \in Seq(Int) /\ Len(history) = n
  <2>1. history \in [1..n -> Int]
    BY <1>2 DEF HistoryInv
  <2> QED
    BY <2>1
<1>4. CASE notices < max_trades
  <2>1. n = notices /\ n < max_trades
    BY <1>1, <1>4 DEF HistoryInv
  <2>2. h = <<notices + 1>> \o history
    BY <1>3, <2>1 DEF trade_history_add_trade
  <2>3. /\ h \in Seq(Int) /\ Len(h) = n + 1 /\ DOMAIN h = 1..(n + 1)
        /\ h[1] = notices + 1
        /\ \A i \in 1..(n + 1) : i # 1 => h[i] = history[i - 1]
    <3>1. PICK x \in Int : x = notices + 1
      BY DEF HistoryInv
    <3>2. PICK m \in Nat : m = n + 1
      OBVIOUS
    <3>3. h = <<x>> \o history
      BY <2>2, <3>1
    <3>4. IsCons(h, x, history, m)
      BY <1>3, <3>2, <3>3, ConsIs
    <3> QED
      BY <3>1, <3>2, <3>4 DEF IsCons
  <2>4. h = [i \in DOMAIN h |-> h[i]]
    BY <2>3
  <2>5. \A i \in 1..(n + 1) : h[i] = IF i = 1 THEN notices + 1 ELSE (n + 1) - i + 1
    <3>1. ASSUME NEW i \in 1..(n + 1), i # 1
          PROVE  h[i] = (n + 1) - i + 1
      <4>1. PICK k \in 1..n : k = i - 1
        BY <3>1
      <4>2. h[i] = history[k]
        BY <2>3, <3>1, <4>1
      <4>3. history[k] = n - k + 1
        BY <1>2, <2>1
      <4> QED
        BY <4>1, <4>2, <4>3
    <3> QED
      BY <2>3, <3>1
  <2>6. h = [i \in 1..(n + 1) |-> IF i = 1 THEN notices + 1 ELSE (n + 1) - i + 1]
    BY <2>3, <2>4, <2>5
  <2> QED
    BY <2>1, <2>6 DEF HistoryInv
<1>5. CASE notices >= max_trades
  <2>1. n = max_trades /\ n > 0
    BY <1>1, <1>5 DEF HistoryInv
  <2>2. h = <<notices + 1>> \o Tail(history)
    BY <1>3, <2>1 DEF trade_history_add_trade
  <2>3. /\ Tail(history) \in Seq(Int) /\ Len(Tail(history)) = n - 1
        /\ \A i \in 1..(n - 1) : Tail(history)[i] = history[i + 1]
    BY <1>3, <2>1
  <2>4. PICK t : t = Tail(history)
    OBVIOUS
  <2>5. /\ h \in Seq(Int) /\ DOMAIN h = 1..n
        /\ h[1] = notices + 1
        /\ \A i \in 1..n : i # 1 => h[i] = t[i - 1]
    <3>1. PICK x \in Int : x = notices + 1
      BY DEF HistoryInv
    <3>2. t \in Seq(Int) /\ Len(t) + 1 = n
      BY <2>1, <2>3, <2>4
    <3>3. h = <<x>> \o t
      BY <2>2, <2>4, <3>1
    <3>4. IsCons(h, x, t, n)
      BY <3>2, <3>3, ConsIs
    <3> QED
      BY <3>1, <3>4 DEF IsCons
  <2>6. \A i \in 1..n : i # 1 => t[i - 1] = history[i]
    BY <2>3, <2>4
  <2>7. h = [i \in DOMAIN h |-> h[i]]
    BY <2>5
  <2>8. \A i \in 1..n : h[i] = IF i = 1 THEN notices + 1 ELSE n - i + 1
    BY <1>2, <2>5, <2>6
  <2>9. h = [i \in 1..n |-> IF i = 1 THEN notices + 1 ELSE n - i + 1]
    BY <2>5, <2>7, <2>8
  <2> QED
    BY <1>5, <2>1, <2>9 DEF HistoryInv
<1>6. notices < max_trades \/ notices >= max_trades
  BY DEF HistoryInv
<1> QED
  BY <1>4, <1>5, <1>6, Zenon

\* A full trade_history loses the trade before the newest: it keeps the last
\* trade the client was told of and the first ones, for any limit.
THEOREM HistoryAlwaysKept == Spec => []HistoryKeepsFirstAndLast
<1>1. Init => HistoryInv
  BY SessionAssumption DEF Init, HistoryInv, HistoryKeepsFirstAndLast
<1>2. HistoryInv /\ [Next]_vars => HistoryInv'
  <2> SUFFICES ASSUME HistoryInv, [Next]_vars
               PROVE  HistoryInv'
    OBVIOUS
  <2>1. CASE TradeExecuted
    <3>1. notices' = notices + 1 /\ history' = trade_history_add_trade(notices + 1)
      BY <2>1 DEF TradeExecuted
    <3>2. PICK h : h = history'
      OBVIOUS
    <3>3. h = LET n == IF notices + 1 <= max_trades THEN notices + 1 ELSE max_trades
              IN [i \in 1..n |-> IF i = 1 THEN notices + 1 ELSE n - i + 1]
      BY <3>1, <3>2, HistoryStep
    <3>4. PICK k \in Nat : k = notices + 1
      BY DEF HistoryInv
    <3>5. PICK n : n = IF k <= max_trades THEN k ELSE max_trades
      OBVIOUS
    <3>6. history' = [i \in 1..n |-> IF i = 1 THEN k ELSE n - i + 1]
      BY <3>2, <3>3, <3>4, <3>5
    <3>7. notices' = k
      BY <3>1, <3>4
    <3> QED
      BY <3>5, <3>6, <3>7 DEF HistoryInv, HistoryKeepsFirstAndLast
  <2>2. CASE UNCHANGED <<history, notices>>
    BY <2>2 DEF HistoryInv, HistoryKeepsFirstAndLast
  <2>3. TradeExecuted \/ UNCHANGED <<history, notices>>
    BY DEF Next, vars, client, net, server, display, EnterCommand, SendCommand, ServerReceive,
       ClientReceive, Worker, Dequeue, PlaceOrder, PlaceMatch, BookRequest, SendSnapshot,
       Closed, Established, Tick
  <2> QED
    BY <2>1, <2>2, <2>3
<1> QED
  BY <1>1, <1>2, PTL DEF Spec, HistoryInv
=============================================================================
