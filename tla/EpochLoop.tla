----------------------------- MODULE EpochLoop ------------------------------
(***************************************************************************)
(* The slow loop for one victim: Governor._epoch_loop and feed_victim      *)
(* (governor.py) with the BudgetTrim it drives (control.py), against a     *)
(* worker that keeps the ledger, the pending counter and _last_activity    *)
(* up to date around each transfer to the victim.                          *)
(*                                                                         *)
(* Time is kept as ages, counted in ticks and capped at Epoch.  One pass   *)
(* of the loop is short next to an epoch: other threads interleave with    *)
(* its reads, but no tick passes.  A multiplier is a number of Unit-ths.   *)
(* There is no estimator, so the ambient view is always quiet.             *)
(***************************************************************************)
EXTENDS Integers

CONSTANTS
  Epoch,     (* ticks of epoch_s                                           *)
  Unit,      (* a multiplier of Unit is 1.0                                *)
  Inv,       (* Inv[e]: rate the worst curve of endpoint e grants for eps  *)
  Used,      (* endpoints the victim's transfers are priced on             *)
  MinRate,   (* min_rate_gbs                                               *)
  LowestFloor,    (* 0.05 in Unit-ths, at least 1                          *)
  TopRate,   (* largest calibrated rate of the receiver/peer curve         *)
  Grace      (* silent epochs before a missing feed is taken for danger    *)

ASSUME EpochAssumption ==
  /\ {Epoch, Unit, MinRate, LowestFloor, TopRate, Grace} \subseteq Nat \ {0}
  /\ "receiver/peer" \in DOMAIN Inv
  /\ Used \subseteq DOMAIN Inv
  /\ Inv \in [DOMAIN Inv -> Nat \ {0}]

VARIABLES
  xfer,        (* where the worker is with its transfer                    *)
  pending,     (* _pending_dst[victim] (one transfer at a time)            *)
  idleAge,     (* time since _last_activity                                *)
  samples,     (* recent feed: ages, and whether our traffic was moving    *)
  fed,         (* the victim has a feed and a trim                         *)
  m,           (* multiplier                                               *)
  baseline,    (* baseline_ms is known                                     *)
  empties,     (* _empty_epochs[victim]                                    *)
  epc,         (* where the epoch thread is in its pass                    *)
  sleep,       (* ticks it has slept                                       *)
  seen         (* what this pass has read                                  *)

workVars == <<xfer, pending>>
loopVars == <<epc, sleep, seen>>
trimVars == <<m, baseline, empties>>
vars == <<workVars, idleAge, samples, fed, trimVars, loopVars>>

Ages == 0..Epoch
Older(a) == IF a < Epoch THEN a + 1 ELSE Epoch

MaxOf(a, b) == IF a > b THEN a ELSE b
MinOf(a, b) == IF a < b THEN a ELSE b

(* The clamps of __init__, from the worst receiver/peer curve alone.       *)
Floor ==
  MaxOf(LowestFloor,
        (MinRate * Unit + Inv["receiver/peer"] - 1) \div Inv["receiver/peer"])
Cap == MaxOf(Unit, (TopRate * Unit) \div Inv["receiver/peer"])

(* The trimmed budget of every endpoint is worth min_rate: admit succeeds  *)
(* on an empty ledger.                                                     *)
Admissible == \A e \in Used : (Inv[e] * m) \div Unit >= MinRate

NothingSeen == [fed |-> FALSE, busy |-> FALSE, pending |-> FALSE, quiet |-> FALSE]

Leased == xfer \in {"leased", "moving", "ending"}

Init ==
  /\ xfer = "none" /\ pending = FALSE /\ idleAge = Epoch
  /\ samples = {} /\ fed = FALSE
  /\ m = Unit /\ baseline = FALSE /\ empties = 0
  /\ epc = "sleep" /\ sleep = 0 /\ seen = NothingSeen

-----------------------------------------------------------------------------
(* The worker.  admit_t is stamped after the lease is in the ledger,       *)
(* _last_activity once more before the lease leaves it.                    *)
Submit ==
  /\ xfer = "none"
  /\ xfer' = "waiting" /\ pending' = TRUE
  /\ UNCHANGED <<idleAge, samples, fed, trimVars, loopVars>>

Admit ==
  /\ xfer = "waiting" /\ (fed => Admissible)
  /\ xfer' = "leased"
  /\ UNCHANGED <<pending, idleAge, samples, fed, trimVars, loopVars>>

StampAdmission ==
  /\ xfer = "leased"
  /\ xfer' = "moving" /\ idleAge' = 0
  /\ UNCHANGED <<pending, samples, fed, trimVars, loopVars>>

(* Mutated form: the activity clock is stamped at admission only.          *)
StampNothing ==
  /\ xfer = "moving"
  /\ xfer' = "ending"
  /\ UNCHANGED <<idleAge, pending, samples, fed, trimVars, loopVars>>

StampRelease ==
  /\ xfer = "moving"
  /\ xfer' = "ending" /\ idleAge' = 0
  /\ UNCHANGED <<pending, samples, fed, trimVars, loopVars>>

Release ==
  /\ xfer = "ending"
  /\ xfer' = "released"
  /\ UNCHANGED <<pending, idleAge, samples, fed, trimVars, loopVars>>

Finish ==
  /\ xfer = "released"
  /\ xfer' = "none" /\ pending' = FALSE
  /\ UNCHANGED <<idleAge, samples, fed, trimVars, loopVars>>

Worker ==
  Admit \/ StampAdmission \/ StampRelease \/ Release \/ Finish

(* The engine reports an iteration.                                        *)
FeedVictim ==
  /\ samples' = samples \cup {[age |-> 0, loaded |-> xfer = "moving"]}
  /\ fed' = TRUE
  /\ UNCHANGED <<workVars, idleAge, trimVars, loopVars>>

(* Mutated form: no cutoff.                                                *)
TickKeepsAll ==
  /\ epc = "sleep"
  /\ sleep' = Older(sleep)
  /\ idleAge' = Older(idleAge)
  /\ samples' = { [s EXCEPT !.age = @ + 1] : s \in samples }
  /\ UNCHANGED <<workVars, fed, trimVars, epc, seen>>

(* Samples older than the cutoff are never read again.                     *)
Tick ==
  /\ epc = "sleep"
  /\ sleep' = Older(sleep)
  /\ idleAge' = Older(idleAge)
  /\ samples' = { [s EXCEPT !.age = @ + 1] : s \in { q \in samples : q.age < Epoch } }
  /\ UNCHANGED <<workVars, fed, trimVars, epc, seen>>

-----------------------------------------------------------------------------
(* One pass of the epoch loop: cutoff and leases, then feeds and pending   *)
(* under the lock, then the activity clock, then the samples.              *)
ReadLeases ==
  /\ epc = "sleep" /\ sleep = Epoch
  /\ epc' = "feeds"
  /\ seen' = [NothingSeen EXCEPT !.busy = Leased]
  /\ UNCHANGED <<workVars, idleAge, samples, fed, trimVars, sleep>>

ReadFeeds ==
  /\ epc = "feeds"
  /\ epc' = "quiet"
  /\ seen' = [seen EXCEPT !.fed = fed, !.pending = pending]
  /\ UNCHANGED <<workVars, idleAge, samples, fed, trimVars, sleep>>

ReadQuiet ==
  /\ epc = "quiet"
  /\ epc' = "observe"
  /\ seen' = [seen EXCEPT !.quiet = idleAge >= Epoch]
  /\ UNCHANGED <<workVars, idleAge, samples, fed, trimVars, sleep>>

SeenLoaded == seen.busy \/ ~seen.quiet

WorkPending == seen.pending \/ seen.busy

(* observe_idle(): the samples' median moves the baseline, if there are    *)
(* any.                                                                    *)
ObserveIdle ==
  /\ ~SeenLoaded
  /\ baseline' = (baseline \/ samples # {})
  /\ UNCHANGED <<m, empties>>

(* Mutated form: halved without the floor.                                 *)
HalvedFreely == m \div 2

(* observe_starved()                                                       *)
Halved == MaxOf(Floor, m \div 2)

ObserveSilence ==
  /\ SeenLoaded /\ samples = {}
  /\ empties' = MinOf(Grace, empties + 1)
  /\ m' = IF empties + 1 >= Grace THEN Halved ELSE m
  /\ UNCHANGED baseline

(* observe_loaded(): back off by 0.5 to 0.9 above eps, probe up by 1.15    *)
(* below probe_frac * eps when work is pending, hold in between.           *)
Clamp(x) == MinOf(Cap, MaxOf(Floor, x))

BackedOff == { Clamp(x) : x \in (m \div 2)..((m * 9) \div 10) }

Probed == Clamp(m + MaxOf(1, (m * 15) \div 100))

ObserveLoaded ==
  /\ SeenLoaded /\ samples # {}
  /\ empties' = 0
  /\ \/ ~baseline /\ m' = m
     \/ baseline /\ m' \in BackedOff
     \/ baseline /\ m' = Clamp(m)
     \/ baseline /\ WorkPending /\ m' = Probed
  /\ UNCHANGED baseline

Observe ==
  /\ epc = "observe"
  /\ epc' = "sleep" /\ sleep' = 0 /\ seen' = NothingSeen
  /\ \/ ~seen.fed /\ UNCHANGED trimVars
     \/ seen.fed /\ (ObserveIdle \/ ObserveSilence \/ ObserveLoaded)
  /\ UNCHANGED <<workVars, idleAge, samples, fed>>

EpochThread == ReadLeases \/ ReadFeeds \/ ReadQuiet \/ Observe

Next == Submit \/ Worker \/ FeedVictim \/ Tick \/ EpochThread

Spec == Init /\ [][Next]_vars

(* The threads run and time passes; nobody owes a submission or a sample.  *)
FairSpec == Spec /\ WF_vars(Worker) /\ WF_vars(EpochThread) /\ WF_vars(Tick)

-----------------------------------------------------------------------------
TypeOK ==
  /\ xfer \in {"none", "waiting", "leased", "moving", "ending", "released"}
  /\ pending \in BOOLEAN /\ idleAge \in Ages /\ sleep \in Ages
  /\ samples \subseteq [age : Ages, loaded : BOOLEAN] /\ fed \in BOOLEAN
  /\ m \in Nat /\ baseline \in BOOLEAN /\ empties \in 0..Grace
  /\ epc \in {"sleep", "feeds", "quiet", "observe"}
  /\ seen \in [fed : BOOLEAN, busy : BOOLEAN, pending : BOOLEAN, quiet : BOOLEAN]

(* A sample of the last epoch was taken while our traffic moved; one that  *)
(* sits on the cutoff itself is given the benefit of the doubt.            *)
LoadedWithin == \E s \in samples : s.loaded /\ s.age < Epoch

(* When a pass that read "no lease" reads "quiet", no sample there is of   *)
(* traffic in the epoch before: it never sees "(no-lease, stale activity)" *)
(* and calls such an epoch idle (_serve_one's finally).  Samples reported  *)
(* later, under a transfer admitted since, are not covered.                *)
NoStaleIdle ==
  [][epc = "quiet" /\ epc' = "observe" /\ ~seen.busy /\ seen'.quiet =>
       ~LoadedWithin]_vars

(* Probing and backing off stay between the clamps.                        *)
Clamped == m \in Floor..Cap

(* The trim never keeps a transfer out for good: "deep backoff cannot      *)
(* enter the absorbing all-deferred state" (Governor.__init__).            *)
NoAbsorption == xfer = "waiting" ~> xfer = "leased"
=============================================================================
