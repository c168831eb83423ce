---------------------------- MODULE MCMarketData ----------------------------
(* An instance of MarketData for TLC: one instrument under two native names, *)
(* a one-minute and a two-minute timeframe, buffers of two records and a     *)
(* channel of one batch, so that the synchronous fallback happens.           *)
EXTENDS MarketData

Raw(exchange, ev, sym, price, ok, volume) ==
    [exchange |-> exchange, ev |-> ev, sym |-> sym, price |-> price, ok |-> ok, volume |-> volume]

MCRawMessages ==
    {Raw("polygon", "C", "c:xauusd", 3, TRUE, 0), Raw("polygon", "CA", "xau/usd", 1, TRUE, 2),
     Raw("polygon", "CQ", "xau/usd", 2, FALSE, 0), Raw("binance", "trade", "xauusd", 2, FALSE, 1)}

MCSymbolMap == [s \in {"c:xauusd", "xau/usd"} |-> "XAU/USD"]
MCDerived == [s \in {"xauusd"} |-> "XAU/USD"]
=============================================================================
