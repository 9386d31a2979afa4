---------------------------- MODULE MCMarketStream ----------------------------
(* MarketStream for TLC: what the exchange says of a market. *)
EXTENDS MarketStream

ThinAndWide == {[spread |-> "wide", liquidity |-> "thin"]}
=============================================================================
