------------------------------ MODULE PeerPath ------------------------------
(***************************************************************************)
(* Admission beside the engine: LiveBoxProbe.peer_state() and              *)
(* online_select() of umallm/runtime/selector.py, and the staging of       *)
(* PeerStaging, which learns of the link through PEERKV_NVLINK_GBPS.       *)
(*                                                                         *)
(* Time is counted in ticks.  One thread admits, with one probe object;    *)
(* what that thread does between two waits takes no tick.                  *)
(***************************************************************************)
EXTENDS PeerStaging

CONSTANTS
  Ttl,         (* topology_ttl_s                                           *)
  MaxProbe,    (* bound: ticks nvidia-smi may take (it has a timeout)      *)
  ProbePcies,  (* pcie_eff_gbps the probe may be built with                *)
  FreeTokens,  (* what NVML may report free, in tokens                     *)
  Requests, Models

ASSUME ProbeAssumption ==
  /\ Ttl \in Nat \ {0} /\ MaxProbe \in Nat /\ ProbePcies \subseteq Nat
  /\ FreeTokens \subseteq Nat
  /\ None \notin [seen : BOOLEAN, left : Nat]
  /\ \A model \in Models : model.ms \in [Points -> Int] /\ model.ms["host"] < Inf

VARIABLES
  trained,   (* the NVLink is up                                           *)
  dead,      (* ticks since it went down, at most Lag + 1                  *)
  age,       (* ticks since _topo_checked_at, at most Ttl                  *)
  nvlinkOk,  (* _nvlink_ok                                                 *)
  decided,   (* the last probe said something of the link, and did not fail  *)
  reading,   (* the _refresh_topology() under way, or None                   *)
  decision   (* what online_select() has just returned, or None            *)

probe == <<trained, dead, age, nvlinkOk, decided, reading>>
vars == <<stagingVars, probe, decision>>

(* A verdict is used for less than Ttl ticks, or as soon as it is there.   *)
Lag == IF MaxProbe < Ttl THEN Ttl - 1 ELSE MaxProbe

UpTo(n, m) == IF n < m THEN n ELSE m

Init ==
  /\ StagingInit
  /\ trained \in BOOLEAN
  /\ dead = IF trained THEN 0 ELSE Lag + 1
  /\ age = Ttl /\ nvlinkOk = TRUE /\ decided = FALSE
  /\ reading = None /\ decision = None

-----------------------------------------------------------------------------
LinkChanges ==
  /\ trained' = ~trained /\ dead' = 0
  /\ decision' = None
  /\ UNCHANGED <<stagingVars, age, nvlinkOk, decided, reading>>

Tick ==
  /\ reading # None => reading.left > 0
  /\ reading' = IF reading = None THEN None
                ELSE [reading EXCEPT !.left = @ - 1]
  /\ age' = UpTo(age + 1, Ttl)
  /\ dead' = IF trained THEN 0 ELSE UpTo(dead + 1, Lag + 1)
  /\ decision' = None
  /\ UNCHANGED <<stagingVars, trained, nvlinkOk, decided>>

(* Mutated form: the stamp is renewed although nothing is probed.          *)
Restamp == 0

Stamp == age

(* _refresh_topology(): the cached verdict, or a probe that is stamped     *)
(* before it runs.                                                         *)
RefreshTopology ==
  /\ reading = None
  /\ IF age < Ttl
     THEN age' = Stamp /\ reading' = [seen |-> TRUE, left |-> 0]
     ELSE age' = 0     /\ reading' = [seen |-> FALSE, left |-> MaxProbe]
  /\ decision' = None
  /\ UNCHANGED <<stagingVars, trained, dead, nvlinkOk, decided>>

(* probe_topology(): an nvidia-smi that fails reads as no link, a probe    *)
(* that raises or returns nothing as a healthy one.                        *)
ProbeTopology ==
  /\ reading # None /\ ~reading.seen
  /\ \/ nvlinkOk' \in {trained, FALSE} /\ decided' = TRUE
     \/ nvlinkOk' = TRUE /\ decided' = FALSE
  /\ reading' = [reading EXCEPT !.seen = TRUE]
  /\ decision' = None
  /\ UNCHANGED <<stagingVars, trained, dead, age>>

Bandwidth == IF nvlinkOk THEN NvlinkBw ELSE 0

(* What NVML may say of the peer; one that errors reads as busy and full.  *)
NvmlReads == [idle : BOOLEAN, free : FreeTokens] \cup { [idle |-> FALSE, free |-> 0] }

(* The end of peer_state(), and online_select() on what it returned.       *)
Admit(req, model, strict, pcie) ==
  LET link == [nvlink |-> Bandwidth, pcie |-> pcie] IN
  /\ reading # None /\ reading.seen
  /\ PublishLink(Bandwidth)
  /\ reading' = None
  /\ \E nvml \in NvmlReads :
       LET sample == [idle |-> nvml.idle, free |-> nvml.free, bw |-> Bandwidth] IN
       \E d \in OnlineSelect(strict, req, model, sample, link) :
         decision' = [result |-> d, strict |-> strict, req |-> req, model |-> model,
                      peer |-> sample, link |-> link]
  /\ UNCHANGED <<trained, dead, age, nvlinkOk, decided>>

Next ==
  \/ StagingNext /\ decision' = None /\ UNCHANGED probe
  \/ LinkChanges \/ Tick \/ RefreshTopology \/ ProbeTopology
  \/ \E req \in Requests, model \in Models, strict \in BOOLEAN, pcie \in ProbePcies :
       Admit(req, model, strict, pcie)

Spec == Init /\ [][Next]_vars

-----------------------------------------------------------------------------
(* In production, whatever the cost model predicts, online_select()        *)
(* returns a point that breaks no rule for the state it sampled; it never  *)
(* raises.  (selector.py: "every decision leaves through                   *)
(* enforce_do_no_harm".)                                                   *)
ExitLegal ==
  decision # None /\ ~decision.strict =>
    /\ decision.result.how # "raised"
    /\ ~Harmful(decision.result.point, decision.req, decision.peer, decision.link)

(* With a model that predicts Inf for what nobody measured, the rules hold *)
(* by construction: enforce_do_no_harm is a tripwire that never fires,     *)
(* also when the probe's PCIe figure is not the model's.                   *)
TripwireSilent ==
  decision # None /\ decision.model.oracle => decision.result.how = "selected"

(* Do-no-harm costs nothing that is legal: the point returned is the       *)
(* fastest of the admissible points that break no rule, and the deadline   *)
(* flag tells of that point and not of the one it replaced.                *)
FastestLegal ==
  LET d == decision
      ms(p) == PredictMs(d.model, p, d.req, d.peer)
  IN
  d # None /\ d.result.how # "raised" =>
    /\ \A p \in Admissible(d.req, d.peer) :
         ~Harmful(p, d.req, d.peer, d.link) => ms(d.result.point) <= ms(p)
    /\ d.result.meets = (ms(d.result.point) <= d.req.deadline)

(* A link that is published as healthy is up, or went down no more than    *)
(* Lag ticks ago; the exception is a last probe that failed, which decides *)
(* nothing and which _refresh_topology() reads as healthy.                 *)
VerdictLag ==
  reading # None /\ reading.seen /\ nvlinkOk => trained \/ dead <= Lag \/ ~decided
=============================================================================
