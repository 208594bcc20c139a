---------------------------- MODULE MCEpochLoop -----------------------------
(* A victim that receives on both routes: a rate unit from the host costs  *)
(* it twice what one from a peer does.                                     *)
EXTENDS EpochLoop, TLC

MCInv == "receiver/peer" :> 16 @@ "receiver/host" :> 8
=============================================================================
