--------------------------- MODULE MCAlphaInput ---------------------------
(* Values for checking AlphaInput: K = 1 and S = 2, so Z2<KS> is modulo 8  *)
(* and Z2<K2S> is modulo 32, which wraps around on most products.          *)
EXTENDS AlphaInput

CONSTANTS Key0, Key1   \* the two shares of the MAC key

MCAlpha == [s \in Servers |-> IF s = 0 THEN Key0 ELSE Key1]
MCR == [c \in Clients |-> [j \in 1 .. XLen |-> (2 * j + c + 1) % 4]]
MCPrg == [choice \in 0 .. 1 |-> [j \in Idx |-> (13 + 7 * j + 9 * choice) % ZK2S]]
===========================================================================
