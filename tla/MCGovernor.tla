----------------------------- MODULE MCGovernor -----------------------------
(***************************************************************************)
(* Instances of Governor for TLC.  Two GPUs that send to each other and a  *)
(* host transfer that shares the receiver of the first:                    *)
(*                                                                         *)
(*    t1 : g1 -> g2   peer, issued by g1                                   *)
(*    t2 : g2 -> g1   peer, issued by g2                                   *)
(*    t3 : host -> g2 host, issued by g2, contends with t1 at g2           *)
(*    t4 : g1 -> g2   peer, queued behind t1                               *)
(***************************************************************************)
EXTENDS GovernorService, TLC

CONSTANTS g1, g2, t1, t2, t3, t4

TwoGpus == {g1, g2}

MCRoutes == {"peer", "host"}

Peer(src, dst, chunks) ==
  [src |-> src, dst |-> dst, route |-> "peer", chunks |-> chunks]

FromHost(dst, chunks) ==
  [src |-> Host, dst |-> dst, route |-> "host", chunks |-> chunks]

(* A peer unit costs 1, a host unit 2 (5-8x on the measured machines).     *)
MCUpperCost ==
  [holder   |-> [peer |-> [r \in 0..4 |-> r]],
   receiver |-> [peer |-> [r \in 0..4 |-> r], host |-> [r \in 0..4 |-> 2 * r]]]

MCEps == [holder |-> 6, receiver |-> 6]

(* No estimator, or one that sees only what the ledger admitted.           *)
Quiet == [d \in TwoGpus |-> [role \in Roles |-> 0]]

QuietOnly == {Quiet}

(* Beside that, a co-tenant that sends to the receiver of t1.              *)
Cotenant == {Quiet, [Quiet EXCEPT ![g2].receiver = 1]}

MCLinkPeak == [peer |-> 0, host |-> 2]

Shared  == t1 :> Peer(g1, g2, 2) @@ t3 :> FromHost(g2, 1)
Crossed == t1 :> Peer(g1, g2, 2) @@ t2 :> Peer(g2, g1, 1) @@
           t3 :> FromHost(g2, 1)
Queued  == t1 :> Peer(g1, g2, 1) @@ t3 :> FromHost(g2, 1) @@
           t4 :> Peer(g1, g2, 1)

=============================================================================
