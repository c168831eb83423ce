------------------------------- MODULE MCRisk -------------------------------
(* Two symbols with a common currency and one that no table knows; prices are small
   so that sizes, margin and stop distances differ.                              *)
EXTENDS RiskPipeline

Symbols == [EURUSD |-> [pair |-> <<"EUR", "USD">>, pip |-> 1, pipValue |-> 10, contract |-> 1,
                        events |-> {"EUR", "USD"}],
            GBPUSD |-> [pair |-> <<"GBP", "USD">>, pip |-> 1, pipValue |-> 10, contract |-> 1,
                        events |-> {"GBP", "USD"}],
            DAX    |-> [pair |-> <<>>, pip |-> 0, pipValue |-> 1, contract |-> 1, events |-> {}]]

Ideas ==
    {[sym |-> "EURUSD", dir |-> "BUY", conf |-> 80, price |-> 100, atr |-> 2, spread |-> 1],
     [sym |-> "GBPUSD", dir |-> "SELL", conf |-> 72, price |-> 100, atr |-> 8, spread |-> 0],
     [sym |-> "DAX", dir |-> "SELL", conf |-> 80, price |-> 100, atr |-> 0, spread |-> 0]}

Recorded == [EURUSD |-> <<1, 2>>, GBPUSD |-> <<>>, DAX |-> <<>>]

Calendar == {[currency |-> "GBP", minute |-> 60]}

Beginnings == {[hour |-> 12, loss |-> 0, advanced |-> FALSE, maturity |-> 100, cvar |-> 0],
               [hour |-> 23, loss |-> 3, advanced |-> TRUE, maturity |-> 80, cvar |-> 4]}
=============================================================================
