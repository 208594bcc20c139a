------------------------------ MODULE Governor ------------------------------
(***************************************************************************)
(* The transfer governor of umallm/governor/governor.py: engine threads    *)
(* submit transfers, one worker thread per issuing device serves them in   *)
(* order, each under a lease of the Ledger and as a train of chunks, the   *)
(* native actuator adds a mirror thread per transfer, the epoch thread     *)
(* moves the trims, and shutdown() stops everything.                       *)
(*                                                                         *)
(* A step is what a thread does between two points where another thread    *)
(* can interfere: a lock hold, a chunk launch, one pass over the trims     *)
(* dictionary.  Pacing gaps are timed in Pacer, the values the epoch       *)
(* thread gives to a trim are computed in EpochLoop; here a gap takes any  *)
(* time and a trim takes any value of TrimLevels.  What an admission is    *)
(* told of ambient traffic is any element of Ambients: NVML's counters and *)
(* the lease table are read at other moments than the lock is taken.       *)
(***************************************************************************)
EXTENDS Ledger, Sequences

CONSTANTS
  Victims,         (* GPUs whose engine ever feeds iteration times         *)
  InitialVictims,  (* those that fed before the first transfer             *)
  TrimLevels,      (* multipliers the epoch thread may set                 *)
  Ambients,        (* what HeadroomEstimator.ambient() may answer          *)
  Feedback,        (* TRUE for mode "fb", FALSE for mode "ff"              *)
  Actuators,       (* pacer kinds the constructor may have chosen          *)
  Depth,           (* chunks an actuator keeps in flight                   *)
  Faulty,          (* transfers whose CUDA calls may raise                 *)
  Recurring,       (* transfers the engine submits again once done         *)
  MayShutdown,     (* whether shutdown() is called                         *)
  None             (* no transfer                                          *)

ASSUME GovernorAssumption ==
  /\ Victims \subseteq Devices
  /\ InitialVictims \subseteq Victims
  /\ TrimUnit \in TrimLevels
  /\ TrimLevels \subseteq Nat \ {0}
  /\ Ambients # {} /\ Ambients \subseteq [Devices -> [Roles -> Nat]]
  /\ Feedback \in BOOLEAN /\ MayShutdown \in BOOLEAN
  /\ Actuators \subseteq {"python", "native"}
  /\ Depth \in Nat \ {0}
  /\ Faulty \subseteq Transfers
  /\ Recurring \subseteq Transfers
  /\ None \notin Transfers
  /\ Devices \cap Transfers = {}

VARIABLES
  pacerKind,  (* pacer_kind: NativePacedCopier or PacedCopier              *)
  queue,      (* _queues: device -> transfers waiting for its worker       *)
  pendingDst, (* _pending_dst                                              *)
  worker,     (* program counter of each device's worker thread            *)
  serving,    (* the transfer a worker has popped                          *)
  trims,      (* trims: device -> multiplier, 0 before its first feed      *)
  view,       (* what a thread's pass over the trims has read              *)
  rateBase,   (* rate_fn's closure: admitted rate and trim at admission    *)
  launched,   (* chunks launched                                           *)
  inflight,   (* chunks launched and still moving                          *)
  mirror,     (* native actuator: state of the transfer's mirror thread    *)
  boxCancel,  (* native actuator: ControlBox.cancelled                     *)
  submitted,  (* transfers with a handle                                   *)
  done,       (* handles whose done event is set                           *)
  outcome,    (* what the handle holds: a result, an error or neither      *)
  stop,       (* _stop                                                     *)
  shut,       (* how far shutdown() has come                               *)
  roll        (* the devices its walk over a dictionary began with         *)

transferVars == <<rateBase, launched, inflight, mirror, boxCancel, outcome>>
engineVars   == <<queue, pendingDst, submitted, done>>
vars == <<active, queue, pendingDst, worker, serving, trims, view, rateBase,
          launched, inflight, mirror, boxCancel, submitted, done, outcome,
          stop, shut, roll, pacerKind>>

WorkerStates ==
  {"none", "top", "pop", "poll", "admit", "admitted", "trim0", "boot",
   "check", "launch", "rate", "drain", "unwind", "finish", "exited"}

(* The worker holds a lease from admission to the release in `finally`.    *)
Holding == {"admitted", "trim0", "boot", "check", "launch", "rate", "drain",
            "unwind"}

(* The issuing device: the source, or the destination of a host source.    *)
Key(t) == IF Request[t].src # Host THEN Request[t].src ELSE Request[t].dst

Native == pacerKind = "native"

Threads == Devices \cup Transfers   (* workers, and mirrors by transfer    *)

NoView == [d \in Devices |-> 0]

(* _trim_view(): empty in "ff" mode.                                       *)
TrimView == IF Feedback THEN trims ELSE NoView

Registered(v) == { d \in Devices : v[d] # 0 }

(* trim.get(dev, 1.0)                                                      *)
TrimOf(v) == [d \in Devices |-> IF v[d] = 0 THEN TrimUnit ELSE v[d]]

(* feed_victim has inserted a device since the thread began to walk a      *)
(* non-empty trims dictionary: if the walk was not over yet it raises      *)
(* RuntimeError (dictionary changed size during iteration).                *)
MayBreak(th) ==
  /\ Registered(view[th]) # {}
  /\ Registered(view[th]) # Registered(TrimView)

BeginView(th) == view' = [view EXCEPT ![th] = TrimView]
EndView(th)   == view' = [view EXCEPT ![th] = NoView]

Goto(k, pc) == worker' = [worker EXCEPT ![k] = pc]

-----------------------------------------------------------------------------
Init ==
  /\ LedgerInit
  /\ queue = [k \in Devices |-> << >>]
  /\ pendingDst = [d \in Devices |-> 0]
  /\ worker = [k \in Devices |-> "none"]
  /\ serving = [k \in Devices |-> None]
  /\ trims = [d \in Devices |-> IF d \in InitialVictims THEN TrimUnit ELSE 0]
  /\ view = [th \in Threads |-> NoView]
  /\ rateBase = [t \in Transfers |-> [rate |-> 0, trim |-> TrimUnit]]
  /\ launched = [t \in Transfers |-> 0]
  /\ inflight = [t \in Transfers |-> 0]
  /\ mirror = [t \in Transfers |-> "off"]
  /\ boxCancel = [t \in Transfers |-> FALSE]
  /\ submitted = {}
  /\ done = {}
  /\ outcome = [t \in Transfers |-> "none"]
  /\ stop = FALSE
  /\ shut = "open"
  /\ roll = {}
  /\ pacerKind \in Actuators

-----------------------------------------------------------------------------
(* Engine threads.  submit() does not look at the stop flag.               *)
Enqueue(t) ==
  LET k == Key(t) IN
  /\ queue' = [queue EXCEPT ![k] = Append(@, t)]
  /\ pendingDst' = [d \in Devices |->
       IF d = Request[t].dst THEN pendingDst[d] + 1 ELSE pendingDst[d]]
  /\ worker' = [worker EXCEPT ![k] = IF @ = "none" THEN "top" ELSE @]
  /\ submitted' = submitted \cup {t}

Submit(t) ==
  /\ t \notin submitted
  /\ Enqueue(t)
  /\ UNCHANGED <<active, serving, trims, view, transferVars, done, stop,
                 shut, roll, pacerKind>>

(* A recurring transfer comes back with a fresh handle, once nothing goes  *)
(* by its name any more: no chunk, no mirror in rate_fn, no leaked lease.  *)
Resubmit(t) ==
  /\ t \in Recurring \cap done
  /\ inflight[t] = 0 /\ mirror[t] # "view" /\ t \notin DOMAIN active
  /\ Enqueue(t)
  /\ done' = done \ {t}
  /\ outcome' = [outcome EXCEPT ![t] = "none"]
  /\ launched' = [launched EXCEPT ![t] = 0]
  /\ boxCancel' = [boxCancel EXCEPT ![t] = FALSE]
  /\ UNCHANGED <<active, serving, trims, view, rateBase, inflight, mirror,
                 stop, shut, roll, pacerKind>>

(* The first sample of a device inserts its trim at m0 = 1.0.              *)
FeedVictim(d) ==
  /\ d \in Victims /\ trims[d] = 0
  /\ trims' = [trims EXCEPT ![d] = TrimUnit]
  /\ UNCHANGED <<active, engineVars, worker, serving, view, transferVars,
                 stop, shut, roll, pacerKind>>

(* Mutated form: a probe that is not clamped.                              *)
AdjustTrimUnclamped(d) ==
  /\ Feedback /\ trims[d] # 0
  /\ trims' = [trims EXCEPT ![d] = @ + 1]
  /\ UNCHANGED <<active, engineVars, worker, serving, view, transferVars,
                 stop, shut, roll, pacerKind>>

AdjustTrim(d) ==
  /\ Feedback /\ trims[d] # 0
  /\ \E m \in TrimLevels : trims' = [trims EXCEPT ![d] = m]
  /\ UNCHANGED <<active, engineVars, worker, serving, view, transferVars,
                 stop, shut, roll, pacerKind>>

-----------------------------------------------------------------------------
(* Worker thread: the loop of _worker_loop.                                *)
(* Mutated form: the loop does not look at the stop flag.                  *)
LoopTopDeaf(k) ==
  /\ worker[k] = "top"
  /\ Goto(k, "pop")
  /\ UNCHANGED <<active, engineVars, serving, trims, view, transferVars,
                 stop, shut, roll, pacerKind>>

LoopTop(k) ==
  /\ worker[k] = "top"
  /\ Goto(k, IF stop THEN "exited" ELSE "pop")
  /\ UNCHANGED <<active, engineVars, serving, trims, view, transferVars,
                 stop, shut, roll, pacerKind>>

(* Mutated form: the newest submission first.                              *)
PopNewest(k) ==
  /\ worker[k] = "pop"
  /\ IF queue[k] = << >>
     THEN Goto(k, "top") /\ UNCHANGED <<queue, serving>>
     ELSE /\ serving' = [serving EXCEPT ![k] = queue[k][Len(queue[k])]]
          /\ queue' = [queue EXCEPT ![k] = SubSeq(@, 1, Len(@) - 1)]
          /\ Goto(k, "poll")
  /\ UNCHANGED <<active, pendingDst, submitted, done, trims, view,
                 transferVars, stop, shut, roll, pacerKind>>

PopQueue(k) ==
  /\ worker[k] = "pop"
  /\ \/ /\ queue[k] = << >>
        /\ Goto(k, "top")
        /\ UNCHANGED <<queue, serving>>
     \/ /\ queue[k] # << >>
        /\ serving' = [serving EXCEPT ![k] = Head(queue[k])]
        /\ queue' = [queue EXCEPT ![k] = Tail(@)]
        /\ Goto(k, "poll")
  /\ UNCHANGED <<active, pendingDst, submitted, done, trims, view,
                 transferVars, stop, shut, roll, pacerKind>>

(* Mutated form: the exception is swallowed.                               *)
RaiseUnrecorded(k, t) ==
  /\ Goto(k, "finish")
  /\ EndView(k)
  /\ UNCHANGED outcome

(* An exception of _serve_one reaches _worker_loop, which records it.      *)
Raise(k, t) ==
  /\ outcome' = [outcome EXCEPT ![t] = "error"]
  /\ Goto(k, "finish")
  /\ EndView(k)

(* _serve_one, head of the admission loop: leave when stopped, otherwise   *)
(* evaluate the arguments of admit().                                      *)
PollAdmission(k) ==
  /\ worker[k] = "poll"
  /\ \/ stop /\ Goto(k, "finish") /\ UNCHANGED view
     \/ ~stop /\ Goto(k, "admit") /\ BeginView(k)
  /\ UNCHANGED <<active, engineVars, serving, trims, transferVars, stop,
                 shut, roll, pacerKind>>

(* The arguments are evaluated before admit() takes the lock: the trims    *)
(* are those of the pass, the ambient traffic is what _ambient() made of a *)
(* snapshot and of the leases at that time (zero without an estimator).    *)
TryAdmit(k) ==
  LET t == serving[k]
      trim == TrimOf(view[k])
  IN
  /\ worker[k] = "admit"
  /\ \/ /\ MayBreak(k) \/ ~Priceable(Request[t])
        /\ Raise(k, t)
        /\ UNCHANGED <<active, rateBase>>
     \/ /\ \E ambient \in Ambients : Defer(t, ambient, trim)
        /\ Goto(k, "poll") /\ EndView(k)
        /\ UNCHANGED <<rateBase, outcome>>
     \/ /\ \E ambient \in Ambients : Admit(t, ambient, trim)
        /\ rateBase' = [rateBase EXCEPT ![t].rate = active'[t]]
        /\ Goto(k, "admitted") /\ EndView(k)
        /\ UNCHANGED outcome
  /\ UNCHANGED <<engineVars, serving, trims, launched, inflight, mirror,
                 boxCancel, stop, shut, roll, pacerKind>>

(* Between the admission and the try block the worker reads the trims      *)
(* again; an exception here skips the release.                             *)
BeginTrim0(k) ==
  /\ worker[k] = "admitted"
  /\ BeginView(k)
  /\ Goto(k, "trim0")
  /\ UNCHANGED <<active, engineVars, serving, trims, transferVars, stop,
                 shut, roll, pacerKind>>

StartCopy(k) ==
  LET t == serving[k] IN
  /\ worker[k] = "trim0"
  /\ \/ /\ MayBreak(k)
        /\ Raise(k, t)
        /\ UNCHANGED rateBase
     \/ /\ rateBase' = [rateBase EXCEPT ![t].trim =
             IF Request[t].dst = Host THEN TrimUnit
             ELSE TrimOf(view[k])[Request[t].dst]]
        /\ IF Native THEN Goto(k, "boot") /\ BeginView(k)
                     ELSE Goto(k, "check") /\ EndView(k)
        /\ UNCHANGED outcome
  /\ UNCHANGED <<active, engineVars, serving, trims, launched, inflight,
                 mirror, boxCancel, stop, shut, roll, pacerKind>>

(* rate_fn: the admitted rate scaled by the live trim of the destination,  *)
(* capped by the link; the lease is brought in step.                       *)
LiveRate(t, v) ==
  LET now == IF Request[t].dst = Host THEN TrimUnit
             ELSE TrimOf(v)[Request[t].dst]
      scaled == (rateBase[t].rate * now) \div rateBase[t].trim
      link == LinkPeak[Request[t].route]
  IN  IF link # 0 /\ link < scaled THEN link ELSE scaled

Rescale(t, v) == UpdateRate(t, LiveRate(t, v))

(* NativePacedCopier.run: first rate, then the mirror thread starts.  An   *)
(* exception of rate_fn is swallowed.                                      *)
NativeBoot(k) ==
  LET t == serving[k] IN
  /\ worker[k] = "boot"
  /\ \/ MayBreak(k) /\ UNCHANGED active
     \/ Rescale(t, view[k])
  /\ boxCancel' = [boxCancel EXCEPT ![t] = stop]
  /\ mirror' = [mirror EXCEPT ![t] = "wait"]
  /\ Goto(k, "check") /\ EndView(k)
  /\ UNCHANGED <<engineVars, serving, trims, rateBase, launched, inflight,
                 outcome, stop, shut, roll, pacerKind>>

Cancelled(t) == IF Native THEN boxCancel[t] ELSE stop

(* Head of the chunk loop.                                                 *)
CheckCancel(k) ==
  LET t == serving[k] IN
  /\ worker[k] = "check"
  /\ \/ /\ launched[t] < Request[t].chunks /\ Cancelled(t)
        /\ outcome' = [outcome EXCEPT ![t] = "cancelled"]
        /\ Goto(k, "drain")
     \/ /\ launched[t] < Request[t].chunks /\ ~Cancelled(t)
        /\ Goto(k, "launch")
        /\ UNCHANGED outcome
     \/ /\ launched[t] = Request[t].chunks
        /\ outcome' = [outcome EXCEPT ![t] = "copied"]
        /\ Goto(k, "drain")
  /\ UNCHANGED <<active, engineVars, serving, trims, view, rateBase,
                 launched, inflight, mirror, boxCancel, stop, shut,
                 roll, pacerKind>>

(* The pacing gap polls the cancel flag too.                               *)
CancelInGap(k) ==
  LET t == serving[k] IN
  /\ worker[k] = "launch"
  /\ inflight[t] < Depth
  /\ Cancelled(t)
  /\ outcome' = [outcome EXCEPT ![t] = "cancelled"]
  /\ Goto(k, "drain")
  /\ UNCHANGED <<active, engineVars, serving, trims, view, rateBase,
                 launched, inflight, mirror, boxCancel, stop, shut,
                 roll, pacerKind>>

(* Launch one chunk once chunk ci - Depth has landed.  The Python actuator *)
(* then asks rate_fn itself.                                               *)
LaunchChunk(k) ==
  LET t == serving[k] IN
  /\ worker[k] = "launch"
  /\ inflight[t] < Depth
  /\ launched' = [launched EXCEPT ![t] = @ + 1]
  /\ inflight' = [inflight EXCEPT ![t] = @ + 1]
  /\ IF Native THEN Goto(k, "check") /\ UNCHANGED view
               ELSE Goto(k, "rate") /\ BeginView(k)
  /\ UNCHANGED <<active, engineVars, serving, trims, rateBase, mirror,
                 boxCancel, outcome, stop, shut, roll, pacerKind>>

ApplyRate(k) ==
  LET t == serving[k] IN
  /\ worker[k] = "rate"
  /\ \/ /\ MayBreak(k)
        /\ outcome' = [outcome EXCEPT ![t] = "error"]
        /\ Goto(k, "unwind")
        /\ UNCHANGED active
     \/ /\ Rescale(t, view[k])
        /\ Goto(k, "check")
        /\ UNCHANGED outcome
  /\ EndView(k)
  /\ UNCHANGED <<engineVars, serving, trims, rateBase, launched, inflight,
                 mirror, boxCancel, stop, shut, roll, pacerKind>>

(* run()'s finally sets stop_upd and joins the mirror for a second: one    *)
(* that is inside rate_fn finishes it first, or outlives the join.         *)
StopMirror(t) ==
  mirror' = [mirror EXCEPT ![t] = IF @ = "wait" THEN "off" ELSE @]

(* A CUDA call raises: the drain at the end of run() is skipped.           *)
CudaError(k) ==
  LET t == serving[k] IN
  /\ worker[k] \in {"launch", "drain"} /\ t \in Faulty
  /\ outcome' = [outcome EXCEPT ![t] = "error"]
  /\ Goto(k, "unwind")
  /\ StopMirror(t)
  /\ UNCHANGED <<active, engineVars, serving, trims, view, rateBase,
                 launched, inflight, boxCancel, stop, shut, roll, pacerKind>>

(* Mutated form: run() returns without waiting for its last chunks.        *)
DrainEarly(k) ==
  /\ worker[k] = "drain"
  /\ Goto(k, "unwind")
  /\ StopMirror(serving[k])
  /\ UNCHANGED <<active, engineVars, serving, trims, view, rateBase,
                 launched, inflight, boxCancel, outcome, stop, shut, roll,
                 pacerKind>>

Drain(k) ==
  LET t == serving[k] IN
  /\ worker[k] = "drain" /\ inflight[t] = 0
  /\ Goto(k, "unwind")
  /\ StopMirror(t)
  /\ UNCHANGED <<active, engineVars, serving, trims, view, rateBase,
                 launched, inflight, boxCancel, outcome, stop, shut, roll,
                 pacerKind>>

Unwind(k) ==
  /\ worker[k] = "unwind"
  /\ Release(serving[k])
  /\ Goto(k, "finish")
  /\ UNCHANGED <<engineVars, serving, trims, view, transferVars, stop, shut, roll,
                 pacerKind>>

(* Mutated forms of the `finally` of _worker_loop: the counter, or the     *)
(* event, is skipped on an error.                                          *)
UncountedOnError(k) ==
  LET t == serving[k] IN
  /\ worker[k] = "finish"
  /\ pendingDst' = [d \in Devices |->
       IF d = Request[t].dst /\ outcome[t] # "error"
       THEN pendingDst[d] - 1 ELSE pendingDst[d]]
  /\ done' = done \cup {t}
  /\ serving' = [serving EXCEPT ![k] = None]
  /\ Goto(k, "top")
  /\ UNCHANGED <<active, queue, submitted, trims, view, transferVars, stop,
                 shut, roll, pacerKind>>

UnsetOnError(k) ==
  LET t == serving[k] IN
  /\ worker[k] = "finish"
  /\ pendingDst' = [d \in Devices |->
       IF d = Request[t].dst THEN pendingDst[d] - 1 ELSE pendingDst[d]]
  /\ done' = IF outcome[t] = "error" THEN done ELSE done \cup {t}
  /\ serving' = [serving EXCEPT ![k] = None]
  /\ Goto(k, "top")
  /\ UNCHANGED <<active, queue, submitted, trims, view, transferVars, stop,
                 shut, roll, pacerKind>>

Finish(k) ==
  LET t == serving[k] IN
  /\ worker[k] = "finish"
  /\ pendingDst' = [d \in Devices |->
       IF d = Request[t].dst THEN pendingDst[d] - 1 ELSE pendingDst[d]]
  /\ done' = done \cup {t}
  /\ serving' = [serving EXCEPT ![k] = None]
  /\ Goto(k, "top")
  /\ UNCHANGED <<active, queue, submitted, trims, view, transferVars, stop,
                 shut, roll, pacerKind>>

WorkerStep(k) ==
  \/ LoopTop(k) \/ PopQueue(k) \/ PollAdmission(k) \/ TryAdmit(k)
  \/ BeginTrim0(k) \/ StartCopy(k) \/ NativeBoot(k) \/ CheckCancel(k)
  \/ CancelInGap(k) \/ LaunchChunk(k) \/ ApplyRate(k) \/ CudaError(k)
  \/ Drain(k) \/ Unwind(k) \/ Finish(k)

-----------------------------------------------------------------------------
(* Mirror thread of the native actuator: cancel first, then the rate.      *)
MirrorWake(t) ==
  /\ mirror[t] = "wait"
  /\ \/ /\ stop
        /\ boxCancel' = [boxCancel EXCEPT ![t] = TRUE]
        /\ mirror' = [mirror EXCEPT ![t] = "off"]
        /\ UNCHANGED view
     \/ /\ ~stop
        /\ mirror' = [mirror EXCEPT ![t] = "view"]
        /\ BeginView(t)
        /\ UNCHANGED boxCancel
  /\ UNCHANGED <<active, engineVars, worker, serving, trims, rateBase,
                 launched, inflight, outcome, stop, shut, roll, pacerKind>>

(* stop_upd is not set yet.                                                *)
TrainRunning(t) ==
  \E k \in Devices : serving[k] = t /\ worker[k] \in {"check", "launch", "drain"}

(* An exception of rate_fn ends the mirror, and with it the cancel relay.  *)
MirrorRate(t) ==
  /\ mirror[t] = "view"
  /\ \/ /\ MayBreak(t)
        /\ mirror' = [mirror EXCEPT ![t] = "off"]
        /\ UNCHANGED active
     \/ /\ Rescale(t, view[t])
        /\ mirror' = [mirror EXCEPT ![t] =
             IF TrainRunning(t) THEN "wait" ELSE "off"]
  /\ EndView(t)
  /\ UNCHANGED <<engineVars, worker, serving, trims, rateBase, launched,
                 inflight, boxCancel, outcome, stop, shut, roll, pacerKind>>

(* The copy engine lands the oldest chunk in flight.                       *)
ChunkLands(t) ==
  /\ inflight[t] > 0
  /\ inflight' = [inflight EXCEPT ![t] = @ - 1]
  /\ UNCHANGED <<active, engineVars, worker, serving, trims, view, rateBase,
                 launched, mirror, boxCancel, outcome, stop, shut,
                 roll, pacerKind>>

-----------------------------------------------------------------------------
(* shutdown() walks _workers and then _copiers without the lock, while     *)
(* submit() may insert a device into both.                                 *)
Workers == { k \in Devices : worker[k] # "none" }

ShutdownBegin ==
  /\ MayShutdown /\ shut = "open"
  /\ stop' = TRUE
  /\ shut' = "joining"
  /\ roll' = Workers
  /\ UNCHANGED <<active, engineVars, worker, serving, trims, view,
                 transferVars, pacerKind>>

(* A worker a native train keeps busy: nothing will cancel it.             *)
Uncancellable(k) ==
  /\ Native /\ worker[k] \in {"check", "launch"}
  /\ mirror[serving[k]] = "off" /\ ~boxCancel[serving[k]]

(* Mutated form: the workers are not joined.                               *)
JoinNobody ==
  /\ shut = "joining"
  /\ shut' = "joined"
  /\ roll' = Workers
  /\ UNCHANGED <<active, engineVars, worker, serving, trims, view,
                 transferVars, stop, pacerKind>>

(* join(timeout): every other step of a worker that is stopping is short   *)
(* next to the timeout.  A walk over no worker at all ends at once, any    *)
(* other one only if the dictionary is still the one it began with.        *)
JoinWorkers ==
  /\ shut = "joining"
  /\ \A k \in roll : worker[k] = "exited" \/ Uncancellable(k)
  /\ roll \in {{}, Workers}
  /\ shut' = "joined"
  /\ roll' = Workers
  /\ UNCHANGED <<active, engineVars, worker, serving, trims, view,
                 transferVars, stop, pacerKind>>

(* stream.synchronize() per copier; the native copier's is a no-op.  (The  *)
(* copier of a device is inserted ahead of its worker: a walk that began   *)
(* in between has it, so a device inserted since need not break it.)       *)
DrainStreams ==
  /\ shut = "joined"
  /\ Native \/ \A t \in Transfers : inflight[t] = 0
  /\ shut' = "returned"
  /\ roll' = {}
  /\ UNCHANGED <<active, engineVars, worker, serving, trims, view,
                 transferVars, stop, pacerKind>>

(* A device inserted behind its back ends a walk with RuntimeError: the    *)
(* dictionary changed size, or the worker to join was not started yet.     *)
DictionaryGrew ==
  /\ roll # Workers
  /\ \/ shut = "joining"
     \/ shut = "joined" /\ roll # {}

(* A CUDA error stays with the context, and synchronize() reports it.      *)
CudaBroken == ~Native /\ \E t \in Faulty : outcome[t] = "error"

ShutdownRaises ==
  /\ \/ DictionaryGrew
     \/ shut = "joined" /\ CudaBroken
  /\ shut' = "raised"
  /\ UNCHANGED <<active, engineVars, worker, serving, trims, view,
                 transferVars, stop, roll, pacerKind>>

Shutdown == ShutdownBegin \/ JoinWorkers \/ DrainStreams \/ ShutdownRaises

-----------------------------------------------------------------------------
Next ==
  \/ \E t \in Transfers : Submit(t) \/ Resubmit(t)
  \/ \E d \in Devices : FeedVictim(d) \/ AdjustTrim(d)
  \/ \E k \in Devices : WorkerStep(k)
  \/ \E t \in Transfers : MirrorWake(t) \/ MirrorRate(t) \/ ChunkLands(t)
  \/ Shutdown

Spec == Init /\ [][Next]_vars

(* Threads are scheduled and each worker's stream makes progress.  Nobody  *)
(* owes the governor a submission, a sample or a shutdown call.            *)
IssuedBy(k) == { t \in Transfers : Key(t) = k }

Fairness ==
  /\ \A k \in Devices :
       /\ WF_vars(WorkerStep(k))
       /\ WF_vars(\E t \in IssuedBy(k) : MirrorWake(t) \/ MirrorRate(t))
       /\ WF_vars(\E t \in IssuedBy(k) : ChunkLands(t))
  /\ WF_vars(JoinWorkers \/ DrainStreams \/ ShutdownRaises)

FairSpec == Spec /\ Fairness

-----------------------------------------------------------------------------
(* Every variable holds a value of its kind; the lease table is keyed by   *)
(* transfers.                                                              *)
TypeOK ==
  /\ pacerKind \in Actuators
  /\ DOMAIN active \subseteq Transfers
  /\ queue \in [Devices -> Seq(Transfers)]
  /\ pendingDst \in [Devices -> Int]
  /\ worker \in [Devices -> WorkerStates]
  /\ serving \in [Devices -> Transfers \cup {None}]
  /\ trims \in [Devices -> TrimLevels \cup {0}]
  /\ view \in [Threads -> [Devices -> TrimLevels \cup {0}]]
  /\ launched \in [Transfers -> Nat]
  /\ inflight \in [Transfers -> Nat]
  /\ mirror \in [Transfers -> {"off", "wait", "view"}]
  /\ boxCancel \in [Transfers -> BOOLEAN]
  /\ submitted \subseteq Transfers
  /\ done \subseteq Transfers
  /\ outcome \in [Transfers -> {"none", "copied", "cancelled", "error"}]
  /\ stop \in BOOLEAN
  /\ shut \in {"open", "joining", "joined", "returned", "raised"}
  /\ roll \subseteq Devices

(* A lease is in the table exactly while a worker runs the transfer it was *)
(* admitted for: none is lost when the worker moves on, and a rate_fn that *)
(* answers late brings none back.  (admit, update_rate, release and the    *)
(* try/finally of _serve_one.)                                             *)
LeaseHeld ==
  DOMAIN active = { serving[k] : k \in { w \in Devices : worker[w] \in Holding } }

(* _pending_dst counts the unfinished submissions to each device, which is *)
(* what the epoch thread takes for pending work of that victim.            *)
PendingCount ==
  \A d \in Devices :
    pendingDst[d] =
      Cardinality({ t \in submitted \ done : Request[t].dst = d })

(* Every chunk the copy engine moves is charged to a lease: the budget is  *)
(* never given away while bytes admitted under it are still in flight.     *)
InFlightCovered ==
  \A t \in Transfers : inflight[t] > 0 => t \in DOMAIN active

(* No endpoint costs its victim more than eps, whatever the interleaving   *)
(* of admissions, rescaled leases and releases (governor.py's "keeps every *)
(* endpoint under its eps budget").                                        *)
BudgetKept == WithinBudget(active)

(* After shutdown() has returned nothing moves and nobody can launch: "no  *)
(* in-flight chunk bleeds into whatever runs after us".                    *)
ShutdownQuiesces ==
  shut = "returned" =>
    /\ \A t \in Transfers : inflight[t] = 0
    /\ \A k \in Devices : worker[k] \notin Holding

(* A handle whose done event is set says what became of its transfer: a    *)
(* result, an error, or neither when the governor was stopped.             *)
HandleSettled ==
  \A t \in done : outcome[t] = "none" => stop

(* A result is published only for a drained train.                         *)
ResultMeansLanded ==
  \A t \in done :
    outcome[t] = "copied" => /\ launched[t] = Request[t].chunks
                            /\ inflight[t] = 0

(* Deferral is bounded by the transfers ahead: a submitted transfer is     *)
(* eventually done, unless the governor is stopped.                        *)
EverySubmissionServed ==
  \A t \in Transfers : t \in submitted ~> (t \in done \/ stop)

(* A transfer its worker took off the queue gets its done event, through   *)
(* errors, cancellation and shutdown alike.                                *)
EveryPopFinishes ==
  \A t \in Transfers : (\E k \in Devices : serving[k] = t) ~> t \in done

(* shutdown() ends, with transfers deferred, failing, in a gap or queued:  *)
(* it returns, or it raises because a submit() inserted a device while it  *)
(* walked, or because a CUDA call has failed.  Left alone by both it       *)
(* returns.                                                                *)
ShutdownEnds ==
  shut = "joining" ~>
    \/ shut = "returned"
    \/ /\ shut = "raised"
       /\ roll # Workers \/ CudaBroken
=============================================================================
