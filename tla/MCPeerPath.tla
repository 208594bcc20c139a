----------------------------- MODULE MCPeerPath -----------------------------
(* Two layers of two local and two peer blocks with one scratch slot; the  *)
(* passes read a peer block with and without writing it, and once more     *)
(* than the scratch holds.                                                 *)
EXTENDS PeerPath

Reads(r, w) == [reads |-> r, writes |-> w]

MCBatches == { Reads({2}, {2}), Reads({0, 2}, {0}), Reads({1, 3}, {1}),
               Reads({2, 3}, {3}) }

FewBatches == { Reads({0, 2}, {2}), Reads({2, 3}, {3}) }

(* A request that fits one GPU, and one that does not, with TP not         *)
(* deployed, deployed, and measured.                                       *)
Asks(ctx, tp, measured, deadline) ==
  [ctx |-> ctx, tp |-> tp, measured |-> measured, deadline |-> deadline]

MCRequests == { Asks(2, TRUE, TRUE, 1), Asks(4, TRUE, FALSE, 2), Asks(4, TRUE, TRUE, 2) }

(* Costs of single, copyback, cfk, tp and host.                            *)
Costs(s, cb, cf, t, h) ==
  [p \in Points |-> CASE p = "single" -> s [] p = "copyback" -> cb
                      [] p = "cfk" -> cf [] p = "tp" -> t [] p = "host" -> h]

(* TP fastest, with and without the oracle; CFK fastest, with it.          *)
MCModels ==
  { [ms |-> Costs(2, 3, 2, 1, 4), oracle |-> oracle] : oracle \in BOOLEAN }
    \cup { [ms |-> Costs(4, 2, 1, 3, 3), oracle |-> TRUE] }
=============================================================================
