----------------------------- MODULE MCOrderBook -----------------------------
(***************************************************************************)
(* Values of the constants of OrderBook for TLC.                           *)
(***************************************************************************)
EXTENDS OrderBook

\* Quantities as parse_order_message lets them through: of any sign.
RawQuantities == {-1, 1, 2}
=============================================================================
