---------------------------- MODULE MCConnector -----------------------------
(* Two requests of four blocks, each of which may grow by one and start or *)
(* come back in the slots the other had; slot 0 is the first to be handed  *)
(* out for growth.  One sink block and one window block leave two or three *)
(* blocks to rank.                                                         *)
EXTENDS Connector

CONSTANTS a, b

MCPrompts == {<<1, 2, 3, 4>>, <<5, 6, 7, 8>>}

(* The same slots in another order.                                        *)
Reused == {<<1, 2, 3, 4>>, <<1, 3, 2, 4>>}

MCSized == [n \in 1..10 |-> IF n > 3 THEN n - 1 ELSE n]

MCRankings == {<<2, 3, 1, 4>>, <<3, 2, 4, 1, 5>>}
=============================================================================
