------------------------- MODULE TraderAccountsProofs -------------------------
(***************************************************************************)
(* Proofs about TraderAccounts, for all traders, balances, orders and      *)
(* prices above zero.  The book inside behaves as OrderBook says, so what  *)
(* OrderBookProofs shows of it holds here; with it, no account is ever     *)
(* overdrawn and every payment of a trade goes through.  The accounts add  *)
(* up for any group of traders: with one trader in it this is what the     *)
(* account of a trader promises, with all of them that trading creates no  *)
(* money.                                                                  *)
(***************************************************************************)
EXTENDS TraderAccounts, OrderBookProofs

\* Every step of the accounts is a step of the book, or leaves it alone.
LEMMA StepOfBook == [AccountsNext]_avars => [Next]_vars
<1> SUFFICES ASSUME [AccountsNext]_avars PROVE [Next]_vars
  OBVIOUS
<1>1. CASE \E t \in Traders, amount \in Balances : trader_set_balance(t, amount)
  BY <1>1 DEF trader_set_balance
<1>2. CASE AddSomeFor
  BY <1>2 DEF AddSomeFor, trader_place_order, LoadLine, Next, AddSome
<1>3. CASE trade_execute
  BY <1>3 DEF trade_execute
<1>4. CASE BookStep
  BY <1>4 DEF BookStep, Next
<1>5. CASE UNCHANGED avars
  BY <1>5 DEF avars
<1> QED
  BY <1>1, <1>2, <1>3, <1>4, <1>5 DEF AccountsNext

\* The accounts are kept over the book of OrderBook: every theorem about Spec is
\* one about AccountsSpec.
THEOREM AccountsKeepBook == AccountsSpec => Spec
<1>1. AccountsInit => Init
  BY DEF AccountsInit
<1> QED
  BY <1>1, StepOfBook, PTL DEF AccountsSpec, Spec

-----------------------------------------------------------------------------
(* No account is overdrawn.                                                *)

\* Every balance is at least zero.
NeverOverdrawn == balance \in [Traders -> Nat]

\* Every order has an owner, and no trade is executed before it is made.
AInv ==
  /\ IInv
  /\ NeverOverdrawn
  /\ owner \in Seq(Traders) /\ Len(owner) = Len(orders)
  /\ executed \in Nat /\ executed <= Len(trades)

\* A product of integers is one.
LEMMA Product ==
  ASSUME NEW x \in Int, NEW y \in Int
  PROVE  /\ x * y \in Int
         /\ x > 0 /\ y > 0 => x * y > 0
OBVIOUS

\* Matching and cancellation rewrite orders in place and only add trades.
LEMMA BookStepLengths ==
  ASSUME TypeOK, BookStep
  PROVE  Len(orders') = Len(orders) /\ Len(trades') >= Len(trades)
<1>0. /\ orders \in Seq(Order) /\ trades \in Seq(Trade)
      /\ Len(orders) \in Nat /\ Len(trades) \in Nat
  BY DEF TypeOK
<1>1. CASE order_book_match_orders \/ MatchReturn \/ Tick
  BY <1>0, <1>1 DEF order_book_match_orders, MatchReturn, Tick
<1>2. CASE MatchStep
  <2>1. PICK b, s, x, y, t : /\ orders' = [orders EXCEPT ![b] = x, ![s] = y]
                             /\ trades' = Append(trades, t)
    BY <1>2 DEF MatchStep, process_match
  <2> QED
    BY <1>0, <2>1
<1>3. CASE CancelSome
  <2>1. PICK o : orders' = [orders EXCEPT ![o].is_canceled = TRUE]
    BY <1>3 DEF CancelSome, order_book_cancel_order
  <2>2. trades' = trades
    BY <1>3 DEF CancelSome, order_book_cancel_order
  <2> QED
    BY <1>0, <2>1, <2>2
<1> QED
  BY <1>1, <1>2, <1>3 DEF BookStep

\* The value of the next trade to be executed is above zero, and its seller has
\* an account.
LEMMA NextTrade ==
  ASSUME AInv, executed < Len(trades)
  PROVE  LET trade == trades[executed + 1] IN
         /\ trade_create(trade)
         /\ trade.price * trade.quantity \in Int
         /\ trade.price * trade.quantity > 0
         /\ owner[trade.sell] \in Traders
<1> DEFINE i == executed + 1
           trade == trades[i]
<1>1. i \in DOMAIN trades
  BY DEF AInv, IInv, TypeOK
<1>2. TypeOK /\ TradesWithinLimits
  BY DEF AInv, IInv
<1> HIDE DEF i
<1>3. /\ trade.sell \in Refs /\ trade.price \in Int /\ trade.quantity \in Int
  BY <1>1, <1>2, TradeFields
<1>4. trade.quantity > 0 /\ trade.price = orders[trade.sell].price
  BY <1>1, <1>2 DEF TradesWithinLimits
<1>5. trade.price > 0
  <2>1. orders[trade.sell].price \in Prices
    BY <1>2, <1>3, OrderFields
  <2> QED
    BY <1>3, <1>4, <2>1, PositivePricesAssumption
<1>6. owner[trade.sell] \in Traders
  <2>1. Refs = 1..Len(orders)
    BY <1>2, RefsFinite
  <2> QED
    BY <1>3, <2>1 DEF AInv
<1> QED
  BY <1>3, <1>4, <1>5, <1>6, Product DEF trade_create, i

LEMMA InitAInv == AccountsInit => AInv
<1> SUFFICES ASSUME AccountsInit PROVE AInv
  OBVIOUS
<1>1. IInv
  BY InitIInv DEF AccountsInit
<1>2. NeverOverdrawn
  BY DEF AccountsInit, trader_create, NeverOverdrawn
<1>3. /\ owner \in Seq(Traders) /\ Len(owner) = Len(orders)
      /\ executed \in Nat /\ executed <= Len(trades)
  BY DEF AccountsInit, Init
<1> QED
  BY <1>1, <1>2, <1>3 DEF AInv

LEMMA NextAInv == AInv /\ [AccountsNext]_avars => AInv'
<1> SUFFICES ASSUME AInv, [AccountsNext]_avars PROVE AInv'
  OBVIOUS
<1>1. IInv'
  BY StepOfBook, NextIInv DEF AInv
<1>2. /\ TypeOK /\ NeverOverdrawn
      /\ Len(orders) \in Nat /\ Len(trades) \in Nat /\ Len(trades') \in Nat
  BY <1>1 DEF AInv, IInv, TypeOK
<1>3. CASE \E t \in Traders, amount \in Balances : trader_set_balance(t, amount)
  <2>1. NeverOverdrawn'
    BY <1>2, <1>3, BalancesAssumption DEF trader_set_balance, NeverOverdrawn
  <2> QED
    BY <1>1, <1>3, <2>1 DEF AInv, trader_set_balance, vars
<1>4. CASE AddSomeFor
  <2>1. PICK t \in Traders, id \in Ids, symbol \in Symbols, price \in Prices,
             quantity \in Quantities, is_buy \in BOOLEAN :
          \/ trader_place_order(t, id, symbol, price, quantity, is_buy)
          \/ LoadLine(t, id, symbol, price, quantity, is_buy)
    BY <1>4 DEF AddSomeFor
  <2>2. /\ orders' = Append(orders, order_create(id, symbol, price, quantity, is_buy))
        /\ trades' = trades /\ owner' = Append(owner, t) /\ executed' = executed
    BY <2>1 DEF trader_place_order, LoadLine, order_book_add_order
  <2>3. owner' \in Seq(Traders) /\ Len(owner') = Len(orders')
    BY <1>2, <2>2 DEF AInv, TypeOK
  <2>4. NeverOverdrawn'
    <3> DEFINE required_funds == price * quantity
    <3>1. required_funds \in Int
      BY Product, PricesAssumption, QuantitiesAssumption
    <3>2. \/ balance' = balance
          \/ /\ required_funds <= balance[t]
             /\ balance' = [balance EXCEPT ![t] = @ - required_funds]
      BY <1>2, <2>1 DEF trader_place_order, LoadLine, NeverOverdrawn
    <3> HIDE DEF required_funds
    <3> QED
      BY <1>2, <3>1, <3>2 DEF NeverOverdrawn
  <2> QED
    BY <1>1, <2>2, <2>3, <2>4 DEF AInv
<1>5. CASE trade_execute
  <2> DEFINE trade == trades[executed + 1]
             amount == trade.price * trade.quantity
  <2>1. executed < Len(trades)
    BY <1>5 DEF trade_execute
  <2>2. amount \in Int /\ amount > 0 /\ owner[trade.sell] \in Traders /\ trade_create(trade)
    BY <2>1, NextTrade
  <2>3. balance' = trader_update_balance(owner[trade.sell], amount)
    BY <1>5, <2>2 DEF trade_execute
  <2> HIDE DEF amount
  <2>4. NeverOverdrawn'
    BY <1>2, <2>2, <2>3 DEF trader_update_balance, NeverOverdrawn
  <2> QED
    BY <1>1, <1>2, <1>5, <2>1, <2>4 DEF AInv, trade_execute, vars
<1>6. CASE BookStep
  <2>1. UNCHANGED <<balance, owner, executed>>
    BY <1>6 DEF BookStep, accounts
  <2>2. Len(orders') = Len(orders) /\ Len(trades') >= Len(trades)
    BY <1>2, <1>6, BookStepLengths
  <2> QED
    BY <1>1, <1>2, <2>1, <2>2 DEF AInv, NeverOverdrawn
<1>7. CASE UNCHANGED avars
  BY <1>1, <1>7 DEF AInv, NeverOverdrawn, avars, vars, accounts
<1> QED
  BY <1>3, <1>4, <1>5, <1>6, <1>7 DEF AccountsNext

\* trader_place_order, trader_set_balance and trade_execute together never leave
\* a balance below zero, for any quantity, a negative one included.
THEOREM AccountsNeverOverdrawn == AccountsSpec => []NeverOverdrawn
<1>1. AInv => NeverOverdrawn
  BY DEF AInv
<1> QED
  BY <1>1, InitAInv, NextAInv, PTL DEF AccountsSpec

\* trade_create accepts every trade of the book and trader_update_balance every
\* credit: the seller is paid, and nobody else's balance changes.
THEOREM PaymentsAlwaysGoThrough == AccountsSpec => PaymentsGoThrough
<1> DEFINE A == executed' # executed =>
                  LET trade == trades[executed + 1]
                      seller == owner[trade.sell]
                  IN balance' = [balance EXCEPT
                                   ![seller] = @ + Value(trade, trade.quantity)]
<1>1. AInv /\ [AccountsNext]_avars => A
  <2> SUFFICES ASSUME AInv, [AccountsNext]_avars, executed' # executed PROVE A
    OBVIOUS
  <2> DEFINE trade == trades[executed + 1]
             amount == trade.price * trade.quantity
  <2>1. trade_execute
    BY DEF AccountsNext, trader_set_balance, AddSomeFor, trader_place_order, LoadLine,
           BookStep, accounts, avars
  <2>2. amount \in Int /\ amount > 0 /\ owner[trade.sell] \in Traders /\ trade_create(trade)
    BY <2>1, NextTrade DEF trade_execute
  <2>3. balance' = trader_update_balance(owner[trade.sell], amount)
    BY <2>1, <2>2 DEF trade_execute
  <2>4. balance \in [Traders -> Nat]
    BY DEF AInv, NeverOverdrawn
  <2>5. amount = Value(trade, trade.quantity)
    BY DEF Value
  <2> HIDE DEF amount
  <2>6. ~(balance[owner[trade.sell]] + amount < 0)
    BY <2>2, <2>4
  <2>7. balance' = [balance EXCEPT ![owner[trade.sell]] = @ + amount]
    BY <2>3, <2>6 DEF trader_update_balance
  <2> QED
    BY <2>5, <2>7
<1> QED
  BY <1>1, InitAInv, NextAInv, PTL DEF AccountsSpec, PaymentsGoThrough

-----------------------------------------------------------------------------
(* The accounts add up.                                                    *)
(*                                                                         *)
(* The equation of AccountsAddUp for one trader and the bound on all the   *)
(* balances together both follow from the same equation for any group T of *)
(* traders, which is the inductive one.                                    *)

\* What the traders of T hold with order o, spent on trade i, earned by it.
HeldOf(o, T) == IF owner[o] \in T THEN Value(orders[o], orders[o].remaining) ELSE 0

SpentOn(i, T) ==
  IF trades[i].buy \in funded /\ owner[trades[i].buy] \in T
  THEN Value(orders[trades[i].buy], trades[i].quantity) ELSE 0

EarnedOn(i, T) ==
  IF owner[trades[i].sell] \in T THEN Value(trades[i], trades[i].quantity) ELSE 0

HeldBy(T) == SumFunction([o \in funded |-> HeldOf(o, T)])
SpentBy(T) == SumFunction([i \in DOMAIN trades |-> SpentOn(i, T)])
EarnedBy(T) == SumFunction([i \in 1..executed |-> EarnedOn(i, T)])

\* The accounts of any group of traders add up.
GroupsAddUp ==
  \A T \in SUBSET Traders :
    SumFunctionOnSet(balance, T) =
      SumFunctionOnSet(given, T) - HeldBy(T) - SpentBy(T) + EarnedBy(T)

\* Only buys are paid for when they are placed.
FundInv ==
  /\ AInv
  /\ given \in [Traders -> Int]
  /\ funded \subseteq Refs
  /\ \A o \in funded : orders[o].is_buy

\* The values summed are integers, and finitely many.
LEMMA Summands ==
  ASSUME FundInv, NEW T
  PROVE  /\ IsFiniteSet(funded) /\ IsFiniteSet(DOMAIN trades) /\ IsFiniteSet(1..executed)
         /\ 1..executed \subseteq DOMAIN trades
         /\ \A o \in funded : HeldOf(o, T) \in Int
         /\ \A i \in DOMAIN trades : SpentOn(i, T) \in Int /\ EarnedOn(i, T) \in Int
<1>1. TypeOK /\ executed \in Nat /\ executed <= Len(trades) /\ funded \subseteq Refs
  BY DEF FundInv, AInv, IInv
<1>2. IsFiniteSet(funded)
  BY <1>1, RefsFinite
<1>3. IsFiniteSet(DOMAIN trades) /\ 1..executed \subseteq DOMAIN trades
  BY <1>1, TradesFinite
<1>4. IsFiniteSet(1..executed)
  BY <1>3, FS_Subset
<1>5. ASSUME NEW o \in Refs, NEW q \in Int
      PROVE  Value(orders[o], q) \in Int
  BY <1>1, OrderFields, Product DEF Value
<1>6. \A o \in funded : HeldOf(o, T) \in Int
  BY <1>1, <1>5, OrderFields DEF HeldOf
<1>7. ASSUME NEW i \in DOMAIN trades
      PROVE  SpentOn(i, T) \in Int /\ EarnedOn(i, T) \in Int
  <2>1. /\ trades[i].buy \in Refs /\ trades[i].price \in Int /\ trades[i].quantity \in Int
    BY <1>1, TradeFields
  <2>2. Value(trades[i], trades[i].quantity) \in Int
    BY <2>1, Product DEF Value
  <2>3. Value(orders[trades[i].buy], trades[i].quantity) \in Int
    BY <1>5, <2>1
  <2> QED
    BY <2>2, <2>3 DEF SpentOn, EarnedOn
<1> QED
  BY <1>2, <1>3, <1>4, <1>6, <1>7

\* The sums are those of SumsProofs.
LEMMA GroupSums ==
  ASSUME FundInv, NEW T
  PROVE  /\ HeldBy(T) = SumFunctionOnSet([o \in funded |-> HeldOf(o, T)], funded)
         /\ SpentBy(T) = SumFunctionOnSet([i \in DOMAIN trades |-> SpentOn(i, T)], DOMAIN trades)
         /\ EarnedBy(T) = SumFunctionOnSet([i \in 1..executed |-> EarnedOn(i, T)], 1..executed)
         /\ HeldBy(T) \in Int /\ SpentBy(T) \in Int /\ EarnedBy(T) \in Int
<1> DEFINE h == [o \in funded |-> HeldOf(o, T)]
           s == [i \in DOMAIN trades |-> SpentOn(i, T)]
           e == [i \in 1..executed |-> EarnedOn(i, T)]
<1>1. /\ HeldBy(T) = SumFunctionOnSet(h, funded)
      /\ SpentBy(T) = SumFunctionOnSet(s, DOMAIN trades)
      /\ EarnedBy(T) = SumFunctionOnSet(e, 1..executed)
  BY SumOver DEF HeldBy, SpentBy, EarnedBy
<1>2. /\ \A o \in funded : h[o] \in Int
      /\ \A i \in DOMAIN trades : s[i] \in Int
      /\ \A i \in 1..executed : e[i] \in Int
  BY Summands
<1> HIDE DEF h, s, e
<1>3. /\ SumFunctionOnSet(h, funded) \in Int
      /\ SumFunctionOnSet(s, DOMAIN trades) \in Int
      /\ SumFunctionOnSet(e, 1..executed) \in Int
  BY <1>2, Summands, SumType
<1> QED
  BY <1>1, <1>3 DEF h, s, e

-----------------------------------------------------------------------------
(* How the sums change.                                                    *)

LEMMA HeldSame ==
  ASSUME NEW T, funded' = funded, \A o \in funded : HeldOf(o, T)' = HeldOf(o, T)
  PROVE  HeldBy(T)' = HeldBy(T)
<1>1. [o \in funded |-> HeldOf(o, T)]' = [o \in funded |-> HeldOf(o, T)]
  OBVIOUS
<1> QED
  BY <1>1 DEF HeldBy

LEMMA SpentSame ==
  ASSUME NEW T, trades' = trades, \A i \in DOMAIN trades : SpentOn(i, T)' = SpentOn(i, T)
  PROVE  SpentBy(T)' = SpentBy(T)
<1>1. [i \in DOMAIN trades |-> SpentOn(i, T)]' = [i \in DOMAIN trades |-> SpentOn(i, T)]
  OBVIOUS
<1> QED
  BY <1>1 DEF SpentBy

LEMMA EarnedSame ==
  ASSUME NEW T, executed' = executed, \A i \in 1..executed : EarnedOn(i, T)' = EarnedOn(i, T)
  PROVE  EarnedBy(T)' = EarnedBy(T)
<1>1. [i \in 1..executed |-> EarnedOn(i, T)]' = [i \in 1..executed |-> EarnedOn(i, T)]
  OBVIOUS
<1> QED
  BY <1>1 DEF EarnedBy

\* An order is paid for.
LEMMA HeldAdds ==
  ASSUME FundInv, NEW T, NEW n, n \notin funded, funded' = funded \cup {n},
         \A o \in funded : HeldOf(o, T)' = HeldOf(o, T),
         NEW v \in Int, HeldOf(n, T)' = v
  PROVE  HeldBy(T)' = HeldBy(T) + v
<1> DEFINE f == [o \in funded |-> HeldOf(o, T)]
           R == funded \cup {n}
           g == [o \in R |-> HeldOf(o, T)']
<1>1. HeldBy(T) = SumFunctionOnSet(f, funded)
  BY GroupSums
<1>2. HeldBy(T)' = SumFunctionOnSet(g, R)
  <2>1. HeldBy(T)' = SumFunction(g)
    BY DEF HeldBy
  <2> QED
    BY <2>1, SumOver
<1>3. /\ \A o \in funded : f[o] \in Int
      /\ \A o \in funded : g[o] = f[o]
      /\ g[n] = v
  BY Summands
<1>4. IsFiniteSet(funded)
  BY Summands
<1> HIDE DEF f, g
<1>5. SumFunctionOnSet(g, R) = SumFunctionOnSet(f, funded) + g[n]
  BY <1>3, <1>4, SumAdd
<1> QED
  BY <1>1, <1>2, <1>3, <1>5

\* A paid order is partly or wholly filled.
LEMMA HeldChanges ==
  ASSUME FundInv, NEW T, NEW b \in funded, funded' = funded,
         \A o \in funded \ {b} : HeldOf(o, T)' = HeldOf(o, T),
         NEW d \in Int, HeldOf(b, T)' = HeldOf(b, T) + d
  PROVE  HeldBy(T)' = HeldBy(T) + d
<1> DEFINE f == [o \in funded |-> HeldOf(o, T)]
           g == [o \in funded |-> HeldOf(o, T)']
<1>1. HeldBy(T) = SumFunctionOnSet(f, funded)
  BY GroupSums
<1>2. HeldBy(T)' = SumFunctionOnSet(g, funded)
  <2>1. HeldBy(T)' = SumFunction(g)
    BY DEF HeldBy
  <2> QED
    BY <2>1, SumOver
<1>3. /\ \A o \in funded : f[o] \in Int
      /\ \A o \in funded : g[o] = IF o = b THEN f[o] + d ELSE f[o]
  BY Summands
<1>4. IsFiniteSet(funded)
  BY Summands
<1> HIDE DEF f, g
<1>5. SumFunctionOnSet(g, funded) = SumFunctionOnSet(f, funded) + (IF b \in funded THEN d ELSE 0)
  BY <1>3, <1>4, SumShift
<1> QED
  BY <1>1, <1>2, <1>5

\* A trade is made.
LEMMA SpentAdds ==
  ASSUME FundInv, NEW T, NEW n, n \notin DOMAIN trades,
         DOMAIN trades' = DOMAIN trades \cup {n},
         \A i \in DOMAIN trades : SpentOn(i, T)' = SpentOn(i, T),
         NEW v \in Int, SpentOn(n, T)' = v
  PROVE  SpentBy(T)' = SpentBy(T) + v
<1> DEFINE D == DOMAIN trades
           f == [i \in D |-> SpentOn(i, T)]
           R == D \cup {n}
           g == [i \in R |-> SpentOn(i, T)']
<1>1. SpentBy(T) = SumFunctionOnSet(f, D)
  BY GroupSums
<1>2. SpentBy(T)' = SumFunctionOnSet(g, R)
  <2>1. SpentBy(T)' = SumFunction(g)
    BY DEF SpentBy
  <2> QED
    BY <2>1, SumOver
<1>3. /\ \A i \in D : f[i] \in Int
      /\ \A i \in D : g[i] = f[i]
      /\ g[n] = v
  BY Summands
<1>4. IsFiniteSet(D) /\ n \notin D
  BY Summands
<1> HIDE DEF f, g, D
<1>5. SumFunctionOnSet(g, R) = SumFunctionOnSet(f, D) + g[n]
  BY <1>3, <1>4, SumAdd
<1> QED
  BY <1>1, <1>2, <1>3, <1>5

\* A trade is paid.
LEMMA EarnedAdds ==
  ASSUME FundInv, NEW T, NEW n, n = executed + 1, executed' = n,
         \A i \in 1..executed : EarnedOn(i, T)' = EarnedOn(i, T),
         NEW v \in Int, EarnedOn(n, T)' = v
  PROVE  EarnedBy(T)' = EarnedBy(T) + v
<1> DEFINE D == 1..executed
           f == [i \in D |-> EarnedOn(i, T)]
           R == D \cup {n}
           g == [i \in R |-> EarnedOn(i, T)']
<1>1. EarnedBy(T) = SumFunctionOnSet(f, D)
  BY GroupSums
<1>2. EarnedBy(T)' = SumFunctionOnSet(g, R)
  <2>1. 1..executed' = R
    BY DEF FundInv, AInv
  <2>2. EarnedBy(T)' = SumFunction(g)
    BY <2>1 DEF EarnedBy
  <2> QED
    BY <2>2, SumOver
<1>3. /\ \A i \in D : f[i] \in Int
      /\ \A i \in D : g[i] = f[i]
      /\ g[n] = v
  BY Summands
<1>4. IsFiniteSet(D) /\ n \notin D
  BY Summands DEF FundInv, AInv
<1> HIDE DEF f, g, D
<1>5. SumFunctionOnSet(g, R) = SumFunctionOnSet(f, D) + g[n]
  BY <1>3, <1>4, SumAdd
<1> QED
  BY <1>1, <1>2, <1>3, <1>5

\* The accounts of the traders of T change by d where t is one of them.
LEMMA AccountsShift ==
  ASSUME NEW T \in SUBSET Traders, NEW f, NEW g, NEW t, NEW d \in Int,
         \A x \in Traders : f[x] \in Int,
         \A x \in Traders : g[x] = IF x = t THEN f[x] + d ELSE f[x]
  PROVE  SumFunctionOnSet(g, T) = SumFunctionOnSet(f, T) + (IF t \in T THEN d ELSE 0)
<1>1. IsFiniteSet(T)
  BY TradersAssumption, FS_Subset
<1>2. \A x \in T : f[x] \in Int /\ g[x] \in Int
  OBVIOUS
<1>3. CASE t \in T
  <2>1. g[t] - f[t] = d /\ \A x \in T \ {t} : g[x] = f[x]
    BY <1>3
  <2>2. SumFunctionOnSet(g, T) = SumFunctionOnSet(f, T) + (g[t] - f[t])
    BY <1>1, <1>2, <1>3, <2>1, SumChange
  <2> QED
    BY <1>3, <2>1, <2>2
<1>4. CASE t \notin T
  <2>1. \A x \in T : f[x] = g[x]
    BY <1>4
  <2>2. SumFunctionOnSet(f, T) = SumFunctionOnSet(g, T)
    BY <1>1, <2>1, SumSame
  <2>3. SumFunctionOnSet(f, T) \in Int
    BY <1>1, <1>2, SumType
  <2> QED
    BY <1>4, <2>2, <2>3
<1> QED
  BY <1>3, <1>4

\* The sums of the accounts are integers.
LEMMA AccountSums ==
  ASSUME FundInv, NEW T \in SUBSET Traders
  PROVE  /\ SumFunctionOnSet(balance, T) \in Int /\ SumFunctionOnSet(given, T) \in Int
         /\ balance \in [Traders -> Int] /\ given \in [Traders -> Int]
<1>1. balance \in [Traders -> Int] /\ given \in [Traders -> Int]
  BY DEF FundInv, AInv, NeverOverdrawn
<1>2. IsFiniteSet(T)
  BY TradersAssumption, FS_Subset
<1> QED
  BY <1>1, <1>2, SumType

-----------------------------------------------------------------------------
(* One lemma for each action.                                              *)

\* trader_set_balance puts on the account what it adds to the balance.
LEMMA SetBalanceGroups ==
  ASSUME FundInv, GroupsAddUp, NEW t \in Traders, NEW amount \in Balances,
         trader_set_balance(t, amount)
  PROVE  GroupsAddUp'
<1> SUFFICES ASSUME NEW T \in SUBSET Traders
             PROVE  (SumFunctionOnSet(balance, T) =
                      SumFunctionOnSet(given, T) - HeldBy(T) - SpentBy(T) + EarnedBy(T))'
  BY DEF GroupsAddUp
<1> DEFINE d == amount - balance[t]
<1>1. /\ SumFunctionOnSet(balance, T) \in Int /\ SumFunctionOnSet(given, T) \in Int
      /\ balance \in [Traders -> Int] /\ given \in [Traders -> Int]
  BY AccountSums
<1>2. d \in Int /\ amount \in Int
  BY <1>1, BalancesAssumption
<1>3. /\ \A x \in Traders : balance'[x] = IF x = t THEN balance[x] + d ELSE balance[x]
      /\ \A x \in Traders : given'[x] = IF x = t THEN given[x] + d ELSE given[x]
  BY <1>1, <1>2 DEF trader_set_balance
<1>0. /\ \A x \in Traders : balance[x] \in Int
      /\ \A x \in Traders : given[x] \in Int
  BY <1>1
<1> HIDE DEF d
<1>4. /\ SumFunctionOnSet(balance', T) = SumFunctionOnSet(balance, T) + (IF t \in T THEN d ELSE 0)
      /\ SumFunctionOnSet(given', T) = SumFunctionOnSet(given, T) + (IF t \in T THEN d ELSE 0)
  BY <1>0, <1>2, <1>3, AccountsShift
<1>5. HeldBy(T)' = HeldBy(T) /\ SpentBy(T)' = SpentBy(T) /\ EarnedBy(T)' = EarnedBy(T)
  BY DEF trader_set_balance, vars, HeldBy, SpentBy, EarnedBy, HeldOf, SpentOn, EarnedOn
<1>6. HeldBy(T) \in Int /\ SpentBy(T) \in Int /\ EarnedBy(T) \in Int
  BY GroupSums
<1>7. SumFunctionOnSet(balance, T) =
        SumFunctionOnSet(given, T) - HeldBy(T) - SpentBy(T) + EarnedBy(T)
  BY DEF GroupsAddUp
<1> QED
  BY <1>1, <1>2, <1>4, <1>5, <1>6, <1>7

\* trade_execute adds to the balance what the sale earns.
LEMMA ExecuteGroups ==
  ASSUME FundInv, GroupsAddUp, trade_execute
  PROVE  GroupsAddUp'
<1> SUFFICES ASSUME NEW T \in SUBSET Traders
             PROVE  (SumFunctionOnSet(balance, T) =
                      SumFunctionOnSet(given, T) - HeldBy(T) - SpentBy(T) + EarnedBy(T))'
  BY DEF GroupsAddUp
<1>1. PICK n : n = executed + 1
  OBVIOUS
<1> DEFINE trade == trades[n]
           v == trade.price * trade.quantity
           t == owner[trade.sell]
<1>2. v \in Int /\ v > 0 /\ t \in Traders /\ trade_create(trade)
  BY <1>1, NextTrade DEF trade_execute, FundInv
<1>3. /\ SumFunctionOnSet(balance, T) \in Int /\ SumFunctionOnSet(given, T) \in Int
      /\ balance \in [Traders -> Int] /\ given \in [Traders -> Int]
  BY AccountSums
<1>4. balance' = trader_update_balance(t, v)
  BY <1>1, <1>2 DEF trade_execute
<1>5. balance[t] \in Nat
  BY <1>2 DEF FundInv, AInv, NeverOverdrawn
<1>6. /\ executed' = n /\ given' = given /\ UNCHANGED <<orders, trades, owner, funded>>
  BY <1>1 DEF trade_execute, vars
<1>7. HeldBy(T)' = HeldBy(T) /\ SpentBy(T)' = SpentBy(T)
  BY <1>6 DEF HeldBy, SpentBy, HeldOf, SpentOn
<1>8. EarnedOn(n, T)' = IF t \in T THEN v ELSE 0
  BY <1>6 DEF EarnedOn, Value
<1>9. \A i \in 1..executed : EarnedOn(i, T)' = EarnedOn(i, T)
  BY <1>6 DEF EarnedOn
<1> HIDE DEF v, t
<1>10. /\ \A x \in Traders : balance[x] \in Int
       /\ \A x \in Traders : balance'[x] = IF x = t THEN balance[x] + v ELSE balance[x]
  <2>1. ~(balance[t] + v < 0)
    BY <1>2, <1>5
  <2>2. balance' = [balance EXCEPT ![t] = @ + v]
    BY <1>4, <2>1 DEF trader_update_balance
  <2> QED
    BY <1>3, <2>2
<1>11. SumFunctionOnSet(balance', T) = SumFunctionOnSet(balance, T) + (IF t \in T THEN v ELSE 0)
  BY <1>2, <1>10, AccountsShift
<1> DEFINE w == IF t \in T THEN v ELSE 0
<1>12. w \in Int
  BY <1>2
<1>13. EarnedBy(T)' = EarnedBy(T) + w
  <2> HIDE DEF w
  <2> QED
    BY <1>1, <1>6, <1>8, <1>9, <1>12, EarnedAdds DEF w
<1>14. HeldBy(T) \in Int /\ SpentBy(T) \in Int /\ EarnedBy(T) \in Int
  BY GroupSums
<1>15. SumFunctionOnSet(balance, T) =
         SumFunctionOnSet(given, T) - HeldBy(T) - SpentBy(T) + EarnedBy(T)
  BY DEF GroupsAddUp
<1> HIDE DEF w
<1>16. SumFunctionOnSet(balance', T) = SumFunctionOnSet(balance, T) + w
  BY <1>11 DEF w
<1> QED
  BY <1>3, <1>6, <1>7, <1>12, <1>13, <1>14, <1>15, <1>16

\* What adding an order for t does, however it gets to the book.
AddedFor(t, price, quantity, is_buy, new) ==
  /\ new \notin Refs /\ Refs' = Refs \cup {new}
  /\ \A o \in Refs : orders'[o] = orders[o] /\ owner'[o] = owner[o]
  /\ owner'[new] = t
  /\ orders'[new].price = price /\ orders'[new].remaining = quantity
  /\ orders'[new].is_buy = is_buy
  /\ trades' = trades /\ executed' = executed /\ given' = given

LEMMA AddedForEffect ==
  ASSUME AInv, NEW t \in Traders, NEW id \in Ids, NEW symbol \in Symbols,
         NEW price \in Prices, NEW quantity \in Quantities, NEW is_buy \in BOOLEAN,
         \/ trader_place_order(t, id, symbol, price, quantity, is_buy)
         \/ LoadLine(t, id, symbol, price, quantity, is_buy)
  PROVE  AddedFor(t, price, quantity, is_buy, Len(orders) + 1)
<1>1. /\ order_book_add_order(id, symbol, price, quantity, is_buy)
      /\ owner' = Append(owner, t) /\ executed' = executed /\ given' = given
  BY DEF trader_place_order, LoadLine
<1>2. TypeOK /\ owner \in Seq(Traders) /\ Len(owner) = Len(orders)
  BY DEF AInv, IInv
<1> DEFINE new == Len(orders) + 1
<1>3. /\ Refs' = Refs \cup {new} /\ new \notin Refs
      /\ \A o \in Refs : orders'[o] = orders[o]
      /\ orders'[new] = order_create(id, symbol, price, quantity, is_buy)
  BY <1>1, <1>2, AddEffect
<1>4. Refs = 1..Len(orders) /\ Len(orders) \in Nat
  BY <1>2, RefsFinite
<1>5. /\ \A o \in Refs : owner'[o] = owner[o]
      /\ owner'[new] = t
  BY <1>1, <1>2, <1>4, AppendProperties
<1>6. trades' = trades
  BY <1>1 DEF order_book_add_order
<1>7. /\ orders'[new].price = price /\ orders'[new].remaining = quantity
      /\ orders'[new].is_buy = is_buy
  BY <1>3, CreatedFields
<1> HIDE DEF new
<1> QED
  BY <1>1, <1>3, <1>5, <1>6, <1>7 DEF AddedFor, new

\* trader_place_order takes from the balance what the new order holds, and a
\* line of a file takes nothing and is not held.
LEMMA AddGroups ==
  ASSUME FundInv, GroupsAddUp, AddSomeFor
  PROVE  GroupsAddUp' /\ (given \in [Traders -> Int])' /\ (funded \subseteq Refs)'
         /\ (\A o \in funded : orders[o].is_buy)'
<1>1. PICK t \in Traders, id \in Ids, symbol \in Symbols, price \in Prices,
           quantity \in Quantities, is_buy \in BOOLEAN :
        \/ trader_place_order(t, id, symbol, price, quantity, is_buy)
        \/ LoadLine(t, id, symbol, price, quantity, is_buy)
  BY DEF AddSomeFor
<1>2. PICK new : new = Len(orders) + 1
  OBVIOUS
<1>3. AddedFor(t, price, quantity, is_buy, new)
  BY <1>1, <1>2, AddedForEffect DEF FundInv
<1> DEFINE v == price * quantity
<1>4. v \in Int
  BY Product, PricesAssumption, QuantitiesAssumption
<1>5. \/ /\ is_buy /\ funded' = funded \cup {new}
         /\ balance' = [balance EXCEPT ![t] = @ - v]
      \/ funded' = funded /\ balance' = balance
  <2>1. balance = [balance EXCEPT ![t] = balance[t]]
    BY DEF FundInv, AInv, NeverOverdrawn
  <2> QED
    BY <1>1, <1>2, <2>1 DEF trader_place_order, LoadLine
<1>6. given' \in [Traders -> Int]
  BY <1>3 DEF FundInv, AddedFor
<1>7. funded \subseteq Refs /\ \A o \in funded : orders[o].is_buy
  BY DEF FundInv
<1>8. funded' \subseteq Refs'
  BY <1>3, <1>5, <1>7 DEF AddedFor
<1>9. \A o \in funded' : orders'[o].is_buy
  BY <1>3, <1>5, <1>7 DEF AddedFor
<1>10. TypeOK /\ executed \in Nat
  BY DEF FundInv, AInv, IInv
<1>11. ASSUME NEW T \in SUBSET Traders
       PROVE  (SumFunctionOnSet(balance, T) =
                 SumFunctionOnSet(given, T) - HeldBy(T) - SpentBy(T) + EarnedBy(T))'
  <2>1. \A i \in DOMAIN trades : trades[i].buy \in Refs /\ trades[i].sell \in Refs
    BY <1>10, TradeFields
  <2>2. \A o \in funded : HeldOf(o, T)' = HeldOf(o, T)
    BY <1>3, <1>7 DEF HeldOf, AddedFor
  <2>3. \A i \in DOMAIN trades : trades[i].buy \in funded' <=> trades[i].buy \in funded
    BY <1>3, <1>5, <2>1 DEF AddedFor
  <2>4. \A i \in DOMAIN trades : SpentOn(i, T)' = SpentOn(i, T)
    BY <1>3, <2>1, <2>3 DEF SpentOn, AddedFor
  <2>5. \A i \in DOMAIN trades : EarnedOn(i, T)' = EarnedOn(i, T)
    BY <1>3, <2>1 DEF EarnedOn, AddedFor
  <2>6. SpentBy(T)' = SpentBy(T)
    BY <1>3, <2>4, SpentSame DEF AddedFor
  <2>7. EarnedBy(T)' = EarnedBy(T)
    BY <1>3, <2>5, EarnedSame, Summands DEF AddedFor
  <2>8. /\ HeldBy(T) \in Int /\ SpentBy(T) \in Int /\ EarnedBy(T) \in Int
        /\ SumFunctionOnSet(balance, T) \in Int /\ SumFunctionOnSet(given, T) \in Int
    BY GroupSums, AccountSums
  <2>9. SumFunctionOnSet(balance, T) =
          SumFunctionOnSet(given, T) - HeldBy(T) - SpentBy(T) + EarnedBy(T)
    BY DEF GroupsAddUp
  <2>10. given' = given
    BY <1>3 DEF AddedFor
  <2>11. CASE funded' = funded /\ balance' = balance
    <3>1. HeldBy(T)' = HeldBy(T)
      BY <2>2, <2>11, HeldSame
    <3> QED
      BY <2>6, <2>7, <2>8, <2>9, <2>10, <2>11, <3>1
  <2>12. CASE /\ funded' = funded \cup {new}
              /\ balance' = [balance EXCEPT ![t] = @ - v]
    <3>1. HeldOf(new, T)' = IF t \in T THEN v ELSE 0
      BY <1>3 DEF HeldOf, AddedFor, Value
    <3>2. \A x \in Traders : balance[x] \in Int
      BY AccountSums
    <3> HIDE DEF v
    <3>3. \A x \in Traders : balance'[x] = IF x = t THEN balance[x] + (-v) ELSE balance[x]
      BY <1>4, <2>12, <3>2, AccountSums
    <3>4. -v \in Int
      BY <1>4
    <3>5. SumFunctionOnSet(balance', T)
            = SumFunctionOnSet(balance, T) + (IF t \in T THEN -v ELSE 0)
      BY <3>2, <3>3, <3>4, AccountsShift
    <3> DEFINE w == IF t \in T THEN v ELSE 0
    <3>6. /\ w \in Int /\ HeldOf(new, T)' = w
          /\ SumFunctionOnSet(balance', T) = SumFunctionOnSet(balance, T) - w
      BY <1>4, <2>8, <3>1, <3>5
    <3> HIDE DEF w
    <3>7. new \notin funded
      BY <1>3, <1>7 DEF AddedFor
    <3>8. HeldBy(T)' = HeldBy(T) + w
      BY <2>2, <2>12, <3>6, <3>7, HeldAdds
    <3> QED
      BY <2>6, <2>7, <2>8, <2>9, <2>10, <3>6, <3>8
  <2> QED
    BY <1>5, <2>11, <2>12
<1> QED
  BY <1>6, <1>8, <1>9, <1>11 DEF GroupsAddUp

\* Times distributes over the part of an order that is traded.
LEMMA PartlyTraded ==
  ASSUME NEW p \in Int, NEW r \in Int, NEW q \in Int
  PROVE  p * (r - q) = p * r + (-(p * q)) /\ p * q \in Int /\ -(p * q) \in Int
OBVIOUS

\* A trade moves what it is worth at the buyer's limit from held to spent.
LEMMA MatchGroups ==
  ASSUME FundInv, GroupsAddUp, MatchStep, UNCHANGED accounts
  PROVE  /\ GroupsAddUp' /\ Refs' = Refs
         /\ \A o \in Refs : orders'[o].is_buy = orders[o].is_buy
<1>1. TypeOK /\ KeysUnique /\ OrdersAccounted
  BY DEF FundInv, AInv, IInv
<1>2. PICK b \in buy_orders, s \in sell_orders, q \in Int : MatchEffectOf(b, s, q)
  BY <1>1, MatchEffect
<1>3. PICK n : n = Len(trades) + 1
  OBVIOUS
<1>4. UNCHANGED <<balance, owner, funded, executed, given>>
  BY DEF accounts
<1>5. /\ Refs' = Refs
      /\ \A o \in Refs :
           /\ orders'[o].price = orders[o].price
           /\ orders'[o].is_buy = orders[o].is_buy
           /\ orders'[o].remaining = IF o \in {b, s} THEN orders[o].remaining - q
                                     ELSE orders[o].remaining
  BY <1>2 DEF MatchEffectOf, SameTerms
<1>6. /\ n \notin DOMAIN trades /\ DOMAIN trades' = DOMAIN trades \cup {n}
      /\ \A i \in DOMAIN trades : trades'[i] = trades[i]
      /\ trades'[n].buy = b /\ trades'[n].quantity = q
  <2> DEFINE e == [buy |-> b, sell |-> s, price |-> orders[s].price, quantity |-> q]
  <2>1. trades' = Append(trades, e) /\ e.buy = b /\ e.quantity = q
    BY <1>2 DEF MatchEffectOf
  <2> HIDE DEF e
  <2>2. trades \in Seq(Trade) /\ DOMAIN trades = 1..Len(trades) /\ Len(trades) \in Nat
    BY <1>1, TradesFinite DEF TypeOK
  <2>3. /\ DOMAIN trades' = 1..(Len(trades) + 1)
        /\ \A i \in 1..Len(trades) : trades'[i] = trades[i]
        /\ trades'[Len(trades) + 1] = e
    BY <2>1, <2>2
  <2> QED
    BY <1>3, <2>1, <2>2, <2>3
<1>7. b \in Refs /\ s \in Refs /\ b # s /\ s \notin funded
  <2>1. b \in Refs /\ s \in Refs /\ b # s
    BY <1>1, <1>2 DEF TypeOK, MatchEffectOf
  <2>2. ~orders[s].is_buy
    BY <1>1, <2>1, OrderFields DEF OrdersAccounted, Side
  <2> QED
    BY <2>1, <2>2 DEF FundInv
<1>8. \A i \in DOMAIN trades : trades[i].buy \in Refs /\ trades[i].sell \in Refs
  BY <1>1, TradeFields
<1>9. funded \subseteq Refs
  BY DEF FundInv
<1>10. ASSUME NEW T \in SUBSET Traders
       PROVE  (SumFunctionOnSet(balance, T) =
                 SumFunctionOnSet(given, T) - HeldBy(T) - SpentBy(T) + EarnedBy(T))'
  <2>1. \A i \in DOMAIN trades : EarnedOn(i, T)' = EarnedOn(i, T)
    BY <1>4, <1>6 DEF EarnedOn
  <2>2. EarnedBy(T)' = EarnedBy(T)
    BY <1>4, <2>1, EarnedSame, Summands
  <2>3. \A i \in DOMAIN trades : SpentOn(i, T)' = SpentOn(i, T)
    BY <1>4, <1>5, <1>6, <1>8 DEF SpentOn, Value
  <2>4. \A o \in funded \ {b} : HeldOf(o, T)' = HeldOf(o, T)
    BY <1>4, <1>5, <1>7, <1>9 DEF HeldOf, Value
  <2>5. /\ HeldBy(T) \in Int /\ SpentBy(T) \in Int /\ EarnedBy(T) \in Int
        /\ SumFunctionOnSet(balance, T) \in Int /\ SumFunctionOnSet(given, T) \in Int
    BY GroupSums, AccountSums
  <2>6. SumFunctionOnSet(balance, T) =
          SumFunctionOnSet(given, T) - HeldBy(T) - SpentBy(T) + EarnedBy(T)
    BY DEF GroupsAddUp
  <2>7. CASE b \in funded /\ owner[b] \in T
    <3> DEFINE v == orders[b].price * q
    <3>1. /\ v \in Int /\ -v \in Int
          /\ orders[b].price * (orders[b].remaining - q)
               = orders[b].price * orders[b].remaining + (-v)
      BY <1>1, <1>7, OrderFields, PartlyTraded
    <3>2. SpentOn(n, T)' = v
      BY <1>4, <1>5, <1>6, <1>7, <2>7 DEF SpentOn, Value
    <3>3. HeldOf(b, T)' = HeldOf(b, T) + (-v)
      <4>1. HeldOf(b, T)' = orders[b].price * (orders[b].remaining - q)
        BY <1>4, <1>5, <1>7, <2>7 DEF HeldOf, Value
      <4>2. HeldOf(b, T) = orders[b].price * orders[b].remaining
        BY <2>7 DEF HeldOf, Value
      <4> QED
        BY <3>1, <4>1, <4>2
    <3> HIDE DEF v
    <3>4. SpentBy(T)' = SpentBy(T) + v
      BY <1>6, <2>3, <3>1, <3>2, SpentAdds
    <3>5. HeldBy(T)' = HeldBy(T) + (-v)
      BY <1>4, <2>4, <2>7, <3>1, <3>3, HeldChanges
    <3> QED
      BY <1>4, <2>2, <2>5, <2>6, <3>1, <3>4, <3>5
  <2>8. CASE ~(b \in funded /\ owner[b] \in T)
    <3>1. SpentOn(n, T)' = 0
      BY <1>4, <1>6, <2>8 DEF SpentOn
    <3>2. \A o \in funded : HeldOf(o, T)' = HeldOf(o, T)
      BY <1>4, <2>4, <2>8 DEF HeldOf
    <3>3. SpentBy(T)' = SpentBy(T) + 0
      BY <1>6, <2>3, <3>1, SpentAdds
    <3>4. HeldBy(T)' = HeldBy(T)
      BY <1>4, <3>2, HeldSame
    <3> QED
      BY <1>4, <2>2, <2>5, <2>6, <3>3, <3>4
  <2> QED
    BY <2>7, <2>8
<1> QED
  BY <1>5, <1>10 DEF GroupsAddUp

\* Cancellation and the steps that move no order leave every sum alone: the
\* price of a canceled order stays held.
LEMMA QuietGroups ==
  ASSUME FundInv, GroupsAddUp, UNCHANGED accounts, trades' = trades, Refs' = Refs,
         \A o \in Refs : /\ orders'[o].price = orders[o].price
                         /\ orders'[o].remaining = orders[o].remaining
  PROVE  GroupsAddUp'
<1>1. UNCHANGED <<balance, owner, funded, executed, given>> /\ funded \subseteq Refs
  BY DEF accounts, FundInv
<1>2. \A i \in DOMAIN trades : trades[i].buy \in Refs
  BY TradeFields DEF FundInv, AInv, IInv
<1>3. ASSUME NEW T \in SUBSET Traders
      PROVE  HeldBy(T)' = HeldBy(T) /\ SpentBy(T)' = SpentBy(T) /\ EarnedBy(T)' = EarnedBy(T)
  <2>1. \A o \in funded : HeldOf(o, T)' = HeldOf(o, T)
    BY <1>1 DEF HeldOf, Value
  <2>2. \A i \in DOMAIN trades : SpentOn(i, T)' = SpentOn(i, T)
    BY <1>1, <1>2 DEF SpentOn, Value
  <2>3. \A i \in 1..executed : EarnedOn(i, T)' = EarnedOn(i, T)
    BY <1>1 DEF EarnedOn
  <2> QED
    BY <1>1, <2>1, <2>2, <2>3, HeldSame, SpentSame, EarnedSame
<1> QED
  BY <1>1, <1>3 DEF GroupsAddUp

-----------------------------------------------------------------------------
(* The accounts add up in every behaviour.                                 *)

LEMMA InitGroups == AccountsInit => FundInv /\ GroupsAddUp
<1> SUFFICES ASSUME AccountsInit PROVE FundInv /\ GroupsAddUp
  OBVIOUS
<1>1. /\ funded = {} /\ executed = 0 /\ trades = <<>> /\ given = balance
      /\ balance \in [Traders -> Int]
  BY DEF AccountsInit, Init, trader_create
<1>2. FundInv
  BY <1>1, InitAInv DEF FundInv
<1>3. ASSUME NEW T \in SUBSET Traders
      PROVE  HeldBy(T) = 0 /\ SpentBy(T) = 0 /\ EarnedBy(T) = 0
  <2>1. DOMAIN trades = {} /\ 1..executed = {}
    BY <1>1
  <2> QED
    BY <1>1, <1>2, <2>1, GroupSums, SumEmpty
<1>4. \A T \in SUBSET Traders : SumFunctionOnSet(given, T) \in Int
  BY <1>2, AccountSums
<1> QED
  BY <1>1, <1>2, <1>3, <1>4 DEF GroupsAddUp

LEMMA NextGroups == FundInv /\ GroupsAddUp /\ [AccountsNext]_avars => FundInv' /\ GroupsAddUp'
<1> SUFFICES ASSUME FundInv, GroupsAddUp, [AccountsNext]_avars
             PROVE  FundInv' /\ GroupsAddUp'
  OBVIOUS
<1>1. AInv'
  BY NextAInv DEF FundInv
<1>2. TypeOK
  BY DEF FundInv, AInv, IInv
<1>3. ASSUME UNCHANGED accounts, Refs' = Refs,
             \A o \in Refs : orders'[o].is_buy = orders[o].is_buy
      PROVE  FundInv'
  BY <1>1, <1>3 DEF FundInv, accounts
<1>4. CASE \E t \in Traders, amount \in Balances : trader_set_balance(t, amount)
  <2>1. PICK t \in Traders, amount \in Balances : trader_set_balance(t, amount)
    BY <1>4
  <2>2. given' \in [Traders -> Int]
    BY <2>1, BalancesAssumption DEF FundInv, AInv, NeverOverdrawn, trader_set_balance
  <2>3. FundInv'
    BY <1>1, <2>1, <2>2 DEF FundInv, trader_set_balance, vars, Refs
  <2> QED
    BY <2>1, <2>3, SetBalanceGroups
<1>5. CASE AddSomeFor
  BY <1>1, <1>5, AddGroups DEF FundInv
<1>6. CASE trade_execute
  <2>1. FundInv'
    BY <1>1, <1>6 DEF FundInv, trade_execute, vars, Refs
  <2> QED
    BY <1>6, <2>1, ExecuteGroups
<1>7. CASE MatchStep /\ UNCHANGED accounts
  BY <1>3, <1>7, MatchGroups
<1>8. CASE CancelSome /\ UNCHANGED accounts
  <2>1. /\ Refs' = Refs /\ trades' = trades
        /\ \A o \in Refs : SameTerms(o) /\ orders'[o].remaining = orders[o].remaining
    BY <1>2, <1>8, CancelEffect DEF CancelSome
  <2>2. \A o \in Refs : /\ orders'[o].price = orders[o].price
                        /\ orders'[o].is_buy = orders[o].is_buy
                        /\ orders'[o].remaining = orders[o].remaining
    BY <2>1 DEF SameTerms
  <2> QED
    BY <1>3, <1>8, <2>1, <2>2, QuietGroups
<1>9. CASE /\ order_book_match_orders \/ MatchReturn \/ Tick \/ UNCHANGED vars
           /\ UNCHANGED accounts
  <2>1. orders' = orders /\ trades' = trades /\ Refs' = Refs
    BY <1>9 DEF order_book_match_orders, MatchReturn, Tick, vars, Refs
  <2> QED
    BY <1>3, <1>9, <2>1, QuietGroups
<1> QED
  BY <1>4, <1>5, <1>6, <1>7, <1>8, <1>9 DEF AccountsNext, BookStep, avars

\* The accounts of any group of traders add up, for any number of traders,
\* orders, partial fills, cancellations and drops.
THEOREM GroupsAlwaysAddUp == AccountsSpec => []GroupsAddUp
<1> QED
  BY InitGroups, NextGroups, PTL DEF AccountsSpec

\* A group of one.
LEMMA OneTrader ==
  ASSUME FundInv, GroupsAddUp
  PROVE  AccountsAddUp
<1> SUFFICES ASSUME NEW t \in Traders
             PROVE  balance[t] = given[t] - Held(t) - Spent(t) + Earned(t)
  BY DEF AccountsAddUp
<1>1. Held(t) = HeldBy({t})
  BY DEF Held, HeldBy, HeldOf
<1>2. Spent(t) = SpentBy({t})
  BY DEF Spent, SpentBy, SpentOn
<1>3. Earned(t) = EarnedBy({t})
  BY DEF Earned, EarnedBy, EarnedOn
<1>4. balance[t] \in Int /\ given[t] \in Int
  BY AccountSums
<1>5. SumFunctionOnSet(balance, {t}) = balance[t] /\ SumFunctionOnSet(given, {t}) = given[t]
  BY <1>4, SumOne
<1>6. SumFunctionOnSet(balance, {t}) =
        SumFunctionOnSet(given, {t}) - HeldBy({t}) - SpentBy({t}) + EarnedBy({t})
  BY DEF GroupsAddUp
<1> QED
  BY <1>1, <1>2, <1>3, <1>5, <1>6

\* Each balance is what was put on the account, less what its buys hold and
\* spent at their limits, plus what its sales earned.
THEOREM AccountsAlwaysAddUp == AccountsSpec => []AccountsAddUp
<1>1. AccountsSpec => [](FundInv /\ GroupsAddUp)
  BY InitGroups, NextGroups, PTL DEF AccountsSpec
<1> QED
  BY <1>1, OneTrader, PTL

-----------------------------------------------------------------------------
(* Trading creates no money.                                               *)

\* A product with a factor above zero keeps the order of the other factors.
LEMMA ProductOrder ==
  ASSUME NEW p \in Int, NEW x \in Int, NEW y \in Int
  PROVE  /\ p >= 0 /\ x >= 0 => p * x >= 0
         /\ p >= 0 /\ x <= y => p * x <= p * y
         /\ p * x = x * p
OBVIOUS

\* What a trade pays the seller is no more than it takes from what the buyer
\* has paid, unless nobody paid for the buy.
LEMMA PaidWithinSpent ==
  ASSUME FundInv, NEW i \in DOMAIN trades, NEW v, v = Value(trades[i], trades[i].quantity)
  PROVE  /\ v \in Int
         /\ EarnedOn(i, Traders) = v
         /\ SpentOn(i, Traders) \in Int /\ SpentOn(i, Traders) >= 0
         /\ trades[i].buy \in funded => v <= SpentOn(i, Traders)
<1> DEFINE t == trades[i]
<1>1. TypeOK /\ TradesWithinLimits /\ owner \in Seq(Traders) /\ Len(owner) = Len(orders)
  BY DEF FundInv, AInv, IInv
<1>2. /\ t.buy \in Refs /\ t.sell \in Refs /\ t.price \in Int /\ t.quantity \in Int
  BY <1>1, TradeFields
<1>3. t.quantity > 0 /\ t.price <= orders[t.buy].price
  BY <1>1 DEF TradesWithinLimits
<1>4. owner[t.buy] \in Traders /\ owner[t.sell] \in Traders
  BY <1>1, <1>2, RefsFinite
<1>5. orders[t.buy].price \in Int /\ orders[t.buy].price > 0
  BY <1>1, <1>2, OrderFields, PositivePricesAssumption
<1>6. v = t.price * t.quantity /\ EarnedOn(i, Traders) = v
  BY <1>4 DEF EarnedOn, Value
<1>7. SpentOn(i, Traders) = IF t.buy \in funded THEN orders[t.buy].price * t.quantity ELSE 0
  BY <1>4 DEF SpentOn, Value
<1>8. /\ t.price * t.quantity \in Int /\ orders[t.buy].price * t.quantity \in Int
      /\ orders[t.buy].price * t.quantity >= 0
      /\ t.price * t.quantity <= orders[t.buy].price * t.quantity
  <2>1. ASSUME NEW p \in Int, NEW r \in Int, NEW q \in Int, q > 0, p <= r, r > 0
        PROVE  p * q \in Int /\ r * q \in Int /\ r * q >= 0 /\ p * q <= r * q
    <3>1. p * q \in Int /\ r * q \in Int
      BY <2>1, Product
    <3>2. q * p <= q * r /\ q * p = p * q /\ q * r = r * q /\ r * q >= 0
      BY <2>1, ProductOrder
    <3> QED
      BY <3>1, <3>2
  <2> QED
    BY <1>2, <1>3, <1>5, <2>1
<1> QED
  BY <1>6, <1>7, <1>8

\* A buy that was paid for holds nothing below zero, except for what a negative
\* quantity made of its price.
LEMMA HeldAboveNegative ==
  ASSUME FundInv, NEW o \in funded, NEW v, v = Value(orders[o], orders[o].quantity)
  PROVE  /\ v \in Int /\ HeldOf(o, Traders) \in Int
         /\ (IF orders[o].quantity < 0 THEN v ELSE 0) <= HeldOf(o, Traders)
<1> DEFINE p == orders[o].price
           q == orders[o].quantity
           r == orders[o].remaining
<1>1. TypeOK /\ RemainingBounded /\ owner \in Seq(Traders) /\ Len(owner) = Len(orders)
  BY DEF FundInv, AInv, IInv
<1>2. o \in Refs
  BY DEF FundInv
<1>3. p \in Int /\ q \in Int /\ r \in Int /\ p > 0
  BY <1>1, <1>2, OrderFields, PositivePricesAssumption
<1>4. r >= 0 \/ r = q
  BY <1>1, <1>2, <1>3 DEF RemainingBounded
<1>5. r < 0 => r = q
  BY <1>3, <1>4
<1>6. owner[o] \in Traders
  BY <1>1, <1>2, RefsFinite
<1>7. HeldOf(o, Traders) = p * r /\ v = p * q
  BY <1>6 DEF HeldOf, Value
<1>8. q < 0 => r = q
  BY <1>1, <1>2, <1>3 DEF RemainingBounded
<1>9. q >= 0 => r >= 0
  BY <1>3, <1>4
<1> HIDE DEF p, q, r
<1>10. p * q \in Int /\ p * r \in Int /\ (r >= 0 => p * r >= 0)
  BY <1>3, Product, ProductOrder
<1>11. CASE q < 0
  BY <1>7, <1>8, <1>10, <1>11 DEF q
<1>12. CASE ~(q < 0)
  BY <1>3, <1>7, <1>9, <1>10, <1>12 DEF q
<1> QED
  BY <1>7, <1>10, <1>11, <1>12

\* What sales earned together is at most what buyers spent and what was paid for
\* buys nobody had paid for.
LEMMA EarnedBounded ==
  ASSUME FundInv
  PROVE  LET unpaid == {i \in 1..executed : trades[i].buy \notin funded}
             U == SumFunction([i \in unpaid |-> Value(trades[i], trades[i].quantity)])
         IN U \in Int /\ EarnedBy(Traders) <= SpentBy(Traders) + U
<1> DEFINE D == DOMAIN trades
           X == 1..executed
           P == {i \in X : trades[i].buy \notin funded}
           v(i) == Value(trades[i], trades[i].quantity)
           e == [i \in X |-> EarnedOn(i, Traders)]
           s == [i \in D |-> SpentOn(i, Traders)]
           u == [i \in P |-> v(i)]
           eD == [i \in D |-> IF i \in X THEN v(i) ELSE 0]
           uD == [i \in D |-> IF i \in P THEN v(i) ELSE 0]
           su == [i \in D |-> s[i] + uD[i]]
<1>1. IsFiniteSet(D) /\ IsFiniteSet(X) /\ X \subseteq D
  BY Summands
<1>2. \A i \in D : /\ v(i) \in Int /\ EarnedOn(i, Traders) = v(i)
                   /\ SpentOn(i, Traders) \in Int /\ SpentOn(i, Traders) >= 0
                   /\ trades[i].buy \in funded => v(i) <= SpentOn(i, Traders)
  BY PaidWithinSpent
<1>3. P \subseteq X /\ P \subseteq D /\ IsFiniteSet(P)
  BY <1>1, FS_Subset
<1>4. /\ EarnedBy(Traders) = SumFunctionOnSet(e, X)
      /\ SpentBy(Traders) = SumFunctionOnSet(s, D)
  BY GroupSums
<1>5. SumFunction(u) = SumFunctionOnSet(u, P)
  BY SumOver
<1>6. /\ \A i \in X : e[i] \in Int
      /\ \A i \in X : eD[i] = e[i]
      /\ \A i \in D : eD[i] \in Int
      /\ \A i \in D \ X : eD[i] = 0
  <2> HIDE DEF v, X, D
  <2> QED
    BY <1>1, <1>2
<1>7. /\ \A i \in P : u[i] \in Int
      /\ \A i \in P : uD[i] = u[i]
      /\ \A i \in D : uD[i] \in Int
      /\ \A i \in D \ P : uD[i] = 0
  <2> HIDE DEF v, X, D, P
  <2> QED
    BY <1>2, <1>3
<1>8. \A i \in D : s[i] \in Int /\ su[i] = s[i] + uD[i]
  BY <1>2
<1>9. \A i \in D : eD[i] \in Int /\ su[i] \in Int /\ eD[i] <= su[i]
  <2> SUFFICES ASSUME NEW i \in D PROVE eD[i] \in Int /\ su[i] \in Int /\ eD[i] <= su[i]
    OBVIOUS
  <2>1. /\ v(i) \in Int /\ s[i] = SpentOn(i, Traders) /\ s[i] \in Int /\ s[i] >= 0
        /\ trades[i].buy \in funded => v(i) <= s[i]
    BY <1>2
  <2>2. /\ eD[i] = IF i \in X THEN v(i) ELSE 0
        /\ uD[i] = IF i \in P THEN v(i) ELSE 0
        /\ su[i] = s[i] + uD[i]
    OBVIOUS
  <2>3. i \in P <=> i \in X /\ trades[i].buy \notin funded
    OBVIOUS
  <2> HIDE DEF v, X, P, s, eD, uD, su
  <2> QED
    BY <2>1, <2>2, <2>3
<1> HIDE DEF D, X, P, e, s, u, eD, uD, su
<1>10. SumFunctionOnSet(eD, D) = SumFunctionOnSet(e, X)
  <2>1. SumFunctionOnSet(eD, D) = SumFunctionOnSet(eD, X)
    BY <1>1, <1>6, SumZeros
  <2>2. SumFunctionOnSet(e, X) = SumFunctionOnSet(eD, X)
    BY <1>1, <1>6, SumSame
  <2> QED
    BY <2>1, <2>2
<1>11. SumFunctionOnSet(uD, D) = SumFunctionOnSet(u, P)
  <2>1. SumFunctionOnSet(uD, D) = SumFunctionOnSet(uD, P)
    <3>1. \A i \in P : uD[i] \in Int
      BY <1>3, <1>7
    <3> QED
      BY <1>1, <1>3, <1>7, <3>1, SumZeros
  <2>2. SumFunctionOnSet(u, P) = SumFunctionOnSet(uD, P)
    BY <1>3, <1>7, SumSame
  <2> QED
    BY <2>1, <2>2
<1>12. SumFunctionOnSet(su, D) = SumFunctionOnSet(s, D) + SumFunctionOnSet(uD, D)
  BY <1>1, <1>7, <1>8, SumPlus
<1>13. SumFunctionOnSet(eD, D) <= SumFunctionOnSet(su, D)
  BY <1>1, <1>9, SumMonotone
<1>14. SumFunctionOnSet(u, P) \in Int
  BY <1>3, <1>7, SumType
<1>15. SumFunction(u) \in Int /\ EarnedBy(Traders) <= SpentBy(Traders) + SumFunction(u)
  BY <1>4, <1>5, <1>10, <1>11, <1>12, <1>13, <1>14
<1> QED
  BY <1>15 DEF u, P, X

\* What the buys hold together is at least what the negative ones were paid.
LEMMA HeldBounded ==
  ASSUME FundInv
  PROVE  LET negative == {o \in funded : orders[o].quantity < 0}
             N == SumFunction([o \in negative |-> Value(orders[o], orders[o].quantity)])
         IN N \in Int /\ N <= HeldBy(Traders)
<1> DEFINE F == funded
           N == {o \in F : orders[o].quantity < 0}
           v(o) == Value(orders[o], orders[o].quantity)
           h == [o \in F |-> HeldOf(o, Traders)]
           n == [o \in N |-> v(o)]
           nF == [o \in F |-> IF o \in N THEN v(o) ELSE 0]
<1>1. IsFiniteSet(F) /\ IsFiniteSet(N) /\ N \subseteq F
  BY Summands, FS_Subset
<1>2. \A o \in F : /\ v(o) \in Int /\ HeldOf(o, Traders) \in Int
                   /\ (IF orders[o].quantity < 0 THEN v(o) ELSE 0) <= HeldOf(o, Traders)
  BY HeldAboveNegative
<1>3. HeldBy(Traders) = SumFunctionOnSet(h, F) /\ SumFunction(n) = SumFunctionOnSet(n, N)
  BY GroupSums, SumOver
<1>4. /\ \A o \in N : n[o] \in Int
      /\ \A o \in N : nF[o] = n[o]
      /\ \A o \in N : nF[o] \in Int
      /\ \A o \in F \ N : nF[o] = 0
  <2> HIDE DEF v, N, F
  <2> QED
    BY <1>1, <1>2
<1>5. \A o \in F : nF[o] \in Int /\ h[o] \in Int /\ nF[o] <= h[o]
  <2> SUFFICES ASSUME NEW o \in F PROVE nF[o] \in Int /\ h[o] \in Int /\ nF[o] <= h[o]
    OBVIOUS
  <2>1. nF[o] = IF orders[o].quantity < 0 THEN v(o) ELSE 0
    OBVIOUS
  <2>2. h[o] = HeldOf(o, Traders)
    OBVIOUS
  <2> HIDE DEF v, nF, h
  <2> QED
    BY <1>2, <2>1, <2>2
<1> HIDE DEF F, N, h, n, nF
<1>6. SumFunctionOnSet(nF, F) = SumFunctionOnSet(nF, N)
  BY <1>1, <1>4, SumZeros
<1>7. SumFunctionOnSet(n, N) = SumFunctionOnSet(nF, N)
  BY <1>1, <1>4, SumSame
<1>8. SumFunctionOnSet(nF, F) <= SumFunctionOnSet(h, F)
  BY <1>1, <1>5, SumMonotone
<1>9. SumFunctionOnSet(n, N) \in Int
  BY <1>1, <1>4, SumType
<1>10. SumFunction(n) \in Int /\ SumFunction(n) <= HeldBy(Traders)
  BY <1>3, <1>6, <1>7, <1>8, <1>9
<1> QED
  BY <1>10 DEF n, N, F

\* The balances together exceed what was put on the accounts by no more than
\* the trades of buys nobody paid for and what negative buys were paid.
THEOREM NoMoneyEverCreated == AccountsSpec => []NoMoneyCreated
<1>1. ASSUME FundInv, GroupsAddUp
      PROVE  NoMoneyCreated
  <2> DEFINE unpaid == {i \in 1..executed : trades[i].buy \notin funded}
             negative == {o \in funded : orders[o].quantity < 0}
             U == SumFunction([i \in unpaid |-> Value(trades[i], trades[i].quantity)])
             N == SumFunction([o \in negative |-> Value(orders[o], orders[o].quantity)])
  <2>1. U \in Int /\ EarnedBy(Traders) <= SpentBy(Traders) + U
    BY <1>1, EarnedBounded
  <2>2. N \in Int /\ N <= HeldBy(Traders)
    BY <1>1, HeldBounded
  <2>3. /\ SumFunctionOnSet(balance, Traders) \in Int
        /\ SumFunctionOnSet(given, Traders) \in Int
        /\ balance \in [Traders -> Int] /\ given \in [Traders -> Int]
    BY <1>1, AccountSums
  <2>4. SumFunctionOnSet(balance, Traders) =
          SumFunctionOnSet(given, Traders) - HeldBy(Traders) - SpentBy(Traders)
            + EarnedBy(Traders)
    BY <1>1 DEF GroupsAddUp
  <2>5. HeldBy(Traders) \in Int /\ SpentBy(Traders) \in Int /\ EarnedBy(Traders) \in Int
    BY <1>1, GroupSums
  <2>6. /\ SumFunction(balance) = SumFunctionOnSet(balance, Traders)
        /\ SumFunction(given) = SumFunctionOnSet(given, Traders)
    BY <2>3, SumOver
  <2> HIDE DEF U, N
  <2>7. SumFunction(balance) <= SumFunction(given) + U - N
    BY <2>1, <2>2, <2>3, <2>4, <2>5, <2>6
  <2> QED
    BY <2>7 DEF NoMoneyCreated, U, N
<1>2. AccountsSpec => [](FundInv /\ GroupsAddUp)
  BY InitGroups, NextGroups, PTL DEF AccountsSpec
<1> QED
  BY <1>1, <1>2, PTL
=============================================================================
