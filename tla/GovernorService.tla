-------------------------- MODULE GovernorService ---------------------------
(***************************************************************************)
(* The governor implements TransferService.  The transfer a worker has     *)
(* popped is still first in its line; the lease table is the grants; a     *)
(* handle's done event is the finish.                                      *)
(***************************************************************************)
EXTENDS Governor

InLine(k) == (IF serving[k] = None THEN << >> ELSE <<serving[k]>>) \o queue[k]

Service ==
  INSTANCE TransferService WITH
    Sources  <- Devices,
    Issuer   <- [t \in Transfers |-> Key(t)],
    line     <- [k \in Devices |-> InLine(k)],
    granted  <- active,
    finished <- done

(* Every behaviour of the workers, mirrors, engine threads and shutdown is *)
(* one of the service: in order per source, one grant at a time, and no    *)
(* transfer finishes with its lease still in the ledger.  (submit,         *)
(* _worker_loop and _serve_one of governor.py.)                            *)
ImplementsService == Service!Spec
=============================================================================
