--------------------------- MODULE MCConnections ---------------------------
(* Two players at the same time, TLS with its two sets of connections, and *)
(* the server's socket shared or not, most with and without faults.        *)
EXTENDS Connections

Setup(parties, players, tls, shared, faults) ==
  [parties |-> parties, players |-> players, tls |-> tls, shared |-> shared,
   faults |-> faults]

MCSetups ==
  {Setup(2, 2, FALSE, FALSE, f) : f \in BOOLEAN}
  \cup {Setup(3, 1, FALSE, FALSE, f) : f \in BOOLEAN}
  \cup {Setup(3, 1, TRUE, TRUE, FALSE), Setup(2, 2, TRUE, FALSE, FALSE),
         Setup(2, 1, TRUE, TRUE, TRUE)}
============================================================================
