----------------------------- MODULE MCTradingDesk -----------------------------
(* One order on the market of the watchlist. *)
EXTENDS TradingDesk, MCMarketStream

OneMarketOf == [o \in Orders |-> "m"]
One == [o \in Orders |-> 1]
=============================================================================
