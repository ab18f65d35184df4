------------------------ MODULE MCMarketDataFeed ------------------------
(* A level where bids queue; modifications reach a second one.            *)
EXTENDS MarketDataFeed

MCQuotes == {<<"Buy", 1>>}
===========================================================================
