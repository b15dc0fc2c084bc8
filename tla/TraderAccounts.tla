---------------------------- MODULE TraderAccounts ----------------------------
(***************************************************************************)
(* The accounts of src/trading_engine/trader.c and trade.c over a book:    *)
(* a buy placed by a trader is paid for when it is placed, the seller of a *)
(* trade is paid when the trade is executed.  Orders also get to the book  *)
(* without passing by an account, line by line from a file (src/utils/     *)
(* order_loader.c), and these are not paid for.                            *)
(*                                                                         *)
(* The application calls trade_execute once for every trade the book has   *)
(* broadcast, in their order, as test_balance_updates does.                *)
(***************************************************************************)
EXTENDS MCOrderBook

CONSTANTS
  Traders,
  Balances      \* amounts a trader may be created with, or its balance set to

ASSUME PositivePricesAssumption == Prices \subseteq Nat \ {0}
ASSUME TradersAssumption == IsFiniteSet(Traders)
ASSUME BalancesAssumption == Balances \subseteq Int

VARIABLES
  balance,      \* trader -> trader->balance
  owner,        \* trader_id of each order
  funded,       \* history: buys whose price trader_place_order took
  executed,     \* trades given to trade_execute so far
  given         \* history: trader -> what was put on the account from outside

accounts == <<balance, owner, funded, executed, given>>
avars == <<vars, accounts>>

\* trader_create refuses a negative balance.
trader_create == [Traders -> Balances \cap Nat]

AccountsInit ==
  /\ Init
  /\ balance \in trader_create
  /\ given = balance
  /\ owner = <<>> /\ funded = {} /\ executed = 0

\* trader_set_balance refuses a negative balance.
trader_set_balance(t, amount) ==
  /\ amount >= 0
  /\ balance' = [balance EXCEPT ![t] = amount]
  /\ given' = [given EXCEPT ![t] = @ + amount - balance[t]]
  /\ UNCHANGED <<vars, owner, funded, executed>>

\* Mutation: what is taken is the price of one share.
trader_place_order_OneShare(t, id, symbol, price, quantity, is_buy) ==
  /\ is_buy => price * quantity <= balance[t]
  /\ balance' = [balance EXCEPT ![t] = IF is_buy THEN @ - price ELSE @]
  /\ funded' = IF is_buy THEN funded \cup {Len(orders) + 1} ELSE funded
  /\ order_book_add_order(id, symbol, price, quantity, is_buy)
  /\ owner' = Append(owner, t)
  /\ UNCHANGED <<executed, given>>

\* A buy needs price times quantity, which is taken before the order is given
\* to the book; the book tells nobody when it drops the order.
trader_place_order(t, id, symbol, price, quantity, is_buy) ==
  LET required_funds == price * quantity IN
  /\ is_buy => required_funds <= balance[t]
  /\ balance' = [balance EXCEPT ![t] = IF is_buy THEN @ - required_funds ELSE @]
  /\ funded' = IF is_buy THEN funded \cup {Len(orders) + 1} ELSE funded
  /\ order_book_add_order(id, symbol, price, quantity, is_buy)
  /\ owner' = Append(owner, t)
  /\ UNCHANGED <<executed, given>>

\* parse_order_line gives an order only for a positive price and quantity, and
\* any side but BUY sells.
parse_order_line(price, quantity) == price > 0 /\ quantity > 0

\* One line of load_orders_from_file that holds an order.  Nothing is matched
\* and no account is looked at.
LoadLine(t, id, symbol, price, quantity, is_buy) ==
  /\ parse_order_line(price, quantity)
  /\ order_book_add_order(id, symbol, price, quantity, is_buy)
  /\ owner' = Append(owner, t)
  /\ UNCHANGED <<balance, funded, executed, given>>

\* Mutation: a trade of one share is refused.
trade_create_NotOne(trade) == trade.price > 0 /\ trade.quantity > 1

\* trade_create accepts the trade.
trade_create(trade) == trade.price > 0 /\ trade.quantity > 0

\* The balance trader_update_balance leaves: one that would become negative is
\* left as it is.
trader_update_balance(t, amount) ==
  IF balance[t] + amount < 0 THEN balance ELSE [balance EXCEPT ![t] = @ + amount]

\* Mutation: the buyer's limit is paid, not the price of the trade.
trade_execute_BuyersLimit ==
  LET trade == trades[executed + 1]
      total_amount == orders[trade.buy].price * trade.quantity
  IN
  /\ phase # "matching"
  /\ executed < Len(trades)
  /\ balance' = IF trade_create(trade)
                THEN trader_update_balance(owner[trade.sell], total_amount)
                ELSE balance
  /\ executed' = executed + 1
  /\ UNCHANGED <<vars, owner, funded, given>>

\* trade_create and trade_execute for the next trade: the seller is credited,
\* the buyer is given nothing back.  The result of the credit is not looked at.
trade_execute ==
  LET trade == trades[executed + 1]
      total_amount == trade.price * trade.quantity
  IN
  /\ phase # "matching"
  /\ executed < Len(trades)
  /\ balance' = IF trade_create(trade)
                THEN trader_update_balance(owner[trade.sell], total_amount)
                ELSE balance
  /\ executed' = executed + 1
  /\ UNCHANGED <<vars, owner, funded, given>>

AddSomeFor ==
  \E t \in Traders, id \in Ids, symbol \in Symbols, price \in Prices,
     quantity \in Quantities, is_buy \in BOOLEAN :
       \/ trader_place_order(t, id, symbol, price, quantity, is_buy)
       \/ LoadLine(t, id, symbol, price, quantity, is_buy)

\* The steps of the book that leave the accounts alone.
BookStep ==
  /\ \/ order_book_match_orders
     \/ MatchStep
     \/ MatchReturn
     \/ CancelSome
     \/ Tick
  /\ UNCHANGED accounts

AccountsNext ==
  \/ \E t \in Traders, amount \in Balances : trader_set_balance(t, amount)
  \/ AddSomeFor
  \/ trade_execute
  \/ BookStep

AccountsSpec == AccountsInit /\ [][AccountsNext]_avars

AccountsFairSpec ==
  AccountsSpec /\ WF_avars((MatchStep \/ MatchReturn) /\ UNCHANGED accounts)

-----------------------------------------------------------------------------
(* Properties.                                                             *)

Value(order, quantity) == order.price * quantity

\* What trader t has been paid for its sales.
Earned(t) ==
  SumFunction([i \in 1..executed |-> IF owner[trades[i].sell] = t
                                     THEN Value(trades[i], trades[i].quantity) ELSE 0])

\* What trader t has paid for and traded, at its own limits.
Spent(t) ==
  SumFunction([i \in DOMAIN trades |->
                 IF trades[i].buy \in funded /\ owner[trades[i].buy] = t
                 THEN Value(orders[trades[i].buy], trades[i].quantity) ELSE 0])

\* What trader t has paid for and not traded: the money stays with resting
\* orders, and for good with canceled orders and the ones the book dropped.
Held(t) ==
  SumFunction([o \in funded |-> IF owner[o] = t
                                THEN Value(orders[o], orders[o].remaining) ELSE 0])

\* The account of every trader adds up after any sequence of placements,
\* partial fills, cancellations, drops and payments: the balance is what was
\* put on the account, less what its buys hold and spent at their limits, plus
\* what its sales earned.
AccountsAddUp ==
  \A t \in Traders : balance[t] = given[t] - Held(t) - Spent(t) + Earned(t)

\* Trading creates no money: the balances together exceed what was put on the
\* accounts only by what was paid for buys nobody had paid for (order_loader),
\* and by buys of a negative quantity, which trader_place_order pays for.
NoMoneyCreated ==
  LET unpaid == {i \in 1..executed : trades[i].buy \notin funded}
      negative == {o \in funded : orders[o].quantity < 0}
  IN SumFunction(balance)
     <= SumFunction(given)
        + SumFunction([i \in unpaid |-> Value(trades[i], trades[i].quantity)])
        - SumFunction([o \in negative |-> Value(orders[o], orders[o].quantity)])

\* No trade the book makes is refused by trade_create, and no credit by
\* trader_update_balance, although trade_execute returns success in any case:
\* the seller, and nobody else, receives the value of the trade.
PaymentsGoThrough ==
  [][executed' # executed =>
       LET trade == trades[executed + 1]
           seller == owner[trade.sell]
       IN balance' = [balance EXCEPT
                        ![seller] = @ + Value(trade, trade.quantity)]]_avars
=============================================================================
