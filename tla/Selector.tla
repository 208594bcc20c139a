------------------------------ MODULE Selector ------------------------------
(***************************************************************************)
(* The operating point of a request: the cost-model selector of            *)
(* umallm/elastic_policy.py (select_point, enforce_do_no_harm) and the     *)
(* single exit of umallm/runtime/selector.py (online_select).              *)
(*                                                                         *)
(*   request  [ctx, tp, measured, deadline]   tokens; TP deployed; a TPOT  *)
(*            of TP measured; deadline, Inf for none                       *)
(*   peer     [free, idle, bw]                the sampled PeerState        *)
(*   link     [nvlink, pcie]                  the LinkState                *)
(*   model    [ms, oracle]  ms[p]: predicted step latency of point p;      *)
(*            oracle: a DecodeStepModel, which predicts Inf where it has   *)
(*            nothing measured (a subclass may predict anything)           *)
(*                                                                         *)
(* Token counts are those of one geometry, so SingleCap is already scaled  *)
(* by its KV bytes per token, and peer.free counts tokens.                 *)
(***************************************************************************)
EXTENDS Integers, FiniteSets

CONSTANTS
  SingleCap,   (* tokens that fit one GPU                                  *)
  TpCap,       (* tokens that fit both under tensor parallelism            *)
  Pcie,        (* BETA_PCIE_GBPS                                           *)
  Inf          (* a latency no measured one reaches                        *)

ASSUME SelectorAssumption ==
  /\ SingleCap \in Nat /\ TpCap \in Nat
  /\ Pcie \in Nat \ {0} /\ Inf \in Nat

Points == {"single", "copyback", "cfk", "tp", "host"}
OverPeer == {"copyback", "cfk"}

Fits(req) == req.ctx <= SingleCap

(* admissible_points(): half of the context goes to the peer.              *)
Admissible(req, peer) ==
  LET peerUsable == req.ctx - (req.ctx \div 2) <= peer.free /\ peer.bw >= Pcie
  IN  { p \in Points :
          /\ p = "single" => Fits(req)
          /\ p \in OverPeer => peerUsable
          /\ p = "cfk" => peer.idle
          /\ p = "tp" => req.tp /\ req.ctx <= TpCap }

(* Mutated form: a request that fits may go anywhere.                      *)
CandidatesUnfit(req, peer, link) ==
  { p \in Admissible(req, peer) : p \in OverPeer => link.nvlink >= link.pcie }

(* _r1_candidates(): the rules hold by construction.                       *)
Candidates(req, peer, link) ==
  IF Fits(req) THEN {"single"}
  ELSE { p \in Admissible(req, peer) :
           /\ p \in OverPeer => link.nvlink >= link.pcie
           /\ p = "cfk" => peer.idle }

PredictMs(model, p, req, peer) ==
  IF /\ model.oracle
     /\ \/ p = "tp" /\ ~req.measured
        \/ p = "copyback" /\ peer.bw = 0
  THEN Inf ELSE model.ms[p]

(* What min() may return.                                                  *)
Fastest(points, model, req, peer) ==
  { p \in points : \A q \in points :
      PredictMs(model, p, req, peer) <= PredictMs(model, q, req, peer) }

(* enforce_do_no_harm(): R1-fit, R1-busy, R1-route, R1-tp-oracle.          *)
Harmful(p, req, peer, link) ==
  \/ Fits(req) /\ p # "single"
  \/ p = "cfk" /\ ~peer.idle
  \/ p \in OverPeer /\ link.nvlink < link.pcie
  \/ p = "tp" /\ ~req.measured

(* The legal point a point outside the candidates is replaced by.          *)
Repick(first, req, model, peer, link) ==
  IF first \in Candidates(req, peer, link) THEN {first}
  ELSE Fastest(Candidates(req, peer, link), model, req, peer)

(* Mutated form: the offending point stays among the candidates.           *)
RepairedFromAll(p, req, model, peer, link) ==
  IF Fits(req) THEN {"single"}
  ELSE Fastest(Candidates(req, peer, link), model, req, peer)

(* _repair()                                                               *)
Repaired(p, req, model, peer, link) ==
  LET legal == Candidates(req, peer, link) \ {p} IN
  IF Fits(req) THEN {"single"}
  ELSE IF legal = {} THEN {"host"} ELSE Fastest(legal, model, req, peer)

(* Mutated form: the flag still tells of the argmin select_point returned. *)
MeetsFirst(first, p, req, model, peer) ==
  PredictMs(model, first, req, peer) <= req.deadline

Meets(first, p, req, model, peer) ==
  PredictMs(model, p, req, peer) <= req.deadline

Decision(how, p, meets) == [how |-> how, point |-> p, meets |-> meets]

(* What becomes of a point at the single exit.                             *)
Exit(first, p, strict, req, model, peer, link) ==
  IF ~Harmful(p, req, peer, link)
  THEN { Decision("selected", p, Meets(first, p, req, model, peer)) }
  ELSE IF strict THEN { Decision("raised", p, FALSE) }
  ELSE { Decision(IF Harmful(q, req, peer, link) THEN "raised" ELSE "repaired", q,
                  Meets(first, q, req, model, peer)) :
           q \in Repaired(p, req, model, peer, link) }

(* online_select(): what it may return or raise.                           *)
OnlineSelect(strict, req, model, peer, link) ==
  UNION { UNION { Exit(first, p, strict, req, model, peer, link) :
                    p \in Repick(first, req, model, peer, link) } :
            first \in Fastest(Admissible(req, peer), model, req, peer) }
=============================================================================
