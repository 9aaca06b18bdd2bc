--------------------------- MODULE MCTradeWindow ---------------------------
(* Two sessions, every kind of item, one price for each price band.        *)
EXTENDS TradeWindow

MCKinds == {"small", "electronics", "fragile", "unknown"}
MCPrices == {2499, 2500, 49999, 50000}
=============================================================================
