--------------------------- MODULE MCTradingSession ---------------------------
(***************************************************************************)
(* TradingSession for TLC.  Other clients have left a book for one of the  *)
(* symbols, with two buy orders and a sell order.                          *)
(***************************************************************************)
EXTENDS TradingSession

Resting(price, is_buy) ==
  [price |-> price, remaining |-> 1, is_buy |-> is_buy, timestamp |-> -1]

MCStartBooks ==
  LET used == CHOOSE s \in Symbols : TRUE IN
  {used :> {Resting(120, TRUE), Resting(160, TRUE), Resting(390, FALSE)}}

=============================================================================
