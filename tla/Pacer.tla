------------------------------- MODULE Pacer --------------------------------
(***************************************************************************)
(* The chunk trains one worker runs on its source's stream, with a clock:  *)
(* PacedCopier.run (pacer.py) and NativePacer::run behind                  *)
(* NativePacedCopier.run (native_pacer.cpp, native.py), and the pacing     *)
(* clock governor.py threads from one train to the next.                   *)
(*                                                                         *)
(* Time is counted in ticks and a thread may be arbitrarily late.  A rate  *)
(* is given as the ticks it owes per unit of a chunk; 0 stands for the     *)
(* rates (0, negative, infinite) that mean "no gap".  The two actuators    *)
(* share their loop and differ in where they read the rate and the cancel  *)
(* flag: the Python one from rate_fn and the event, the native one from a  *)
(* ControlBox a mirror thread fills.                                       *)
(***************************************************************************)
EXTENDS Integers

CONSTANTS
  Actuators,   (* pacer kinds the governor may have chosen at its start    *)
  Depth,       (* chunks in flight, and completion events                  *)
  ChunkUnits,  (* units of a full chunk                                    *)
  TrainSizes,  (* sizes of the transfers, in units                         *)
  Periods,     (* ticks per unit that rate_fn may command                  *)
  MayRaise,    (* rate_fn may raise                                        *)
  MayFail,     (* a CUDA call may fail                                     *)
  MayCancel,   (* the governor may be stopped                              *)
  MaxTime,     (* bound on the clock                                       *)
  MaxTrains    (* bound on the number of transfers                         *)

ASSUME PacerAssumption ==
  /\ Actuators \subseteq {"python", "native"}
  /\ {MayRaise, MayFail, MayCancel} \subseteq BOOLEAN
  /\ Depth \in Nat \ {0}
  /\ ChunkUnits \in Nat \ {0}
  /\ TrainSizes \subseteq Nat \ {0}
  /\ Periods \subseteq Nat
  /\ MaxTime \in Nat /\ MaxTrains \in Nat

VARIABLES
  pacerKind,   (* pacer_kind                                               *)
  now,         (* time.monotonic()                                         *)
  pc,          (* where run() is; "idle" between transfers                 *)
  size,        (* units of this transfer                                   *)
  ci,          (* chunk index                                              *)
  due,         (* next_due                                                 *)
  clock,       (* _next_due[key], Absent before the first transfer ends    *)
  evs,         (* event slot -> the chunk recorded last                    *)
  launched,    (* chunks launched on the stream since the start            *)
  landed,      (* those that have landed                                   *)
  period,      (* what rate_fn would return now                            *)
  box,         (* ControlBox.rate_gbs                                      *)
  mirror,      (* whether the mirror thread runs                           *)
  cancel,      (* the governor's stop event                                *)
  boxCancel,   (* ControlBox.cancelled                                     *)
  trains,      (* transfers begun                                          *)
  lastLaunch,  (* time of the latest launch                                *)
  owed,        (* gap the rate read after it asks for                      *)
  failed,      (* an exception left run() since then                       *)
  base,        (* chunks launched before this transfer                     *)
  lateLaunches (* chunks launched since the actuator could see the cancel  *)

dmaVars     == <<evs, launched, landed, lastLaunch>>
controlVars == <<pacerKind, period, box, mirror, cancel, boxCancel>>
vars == <<now, pc, size, ci, due, clock, dmaVars, controlVars, trains, base,
          owed, failed, lateLaunches>>

Native == pacerKind = "native"

Absent == -1
Slots  == 0..(Depth - 1)
Slot   == ci % Depth
Later(a, b) == IF a > b THEN a ELSE b

Sent == ci * ChunkUnits
Units == IF size - Sent < ChunkUnits THEN size - Sent ELSE ChunkUnits

(* The flag the loop polls.                                                *)
Cancelled == IF Native THEN boxCancel ELSE cancel

Init ==
  /\ pacerKind \in Actuators
  /\ now = 0 /\ pc = "idle" /\ size = 0 /\ ci = 0 /\ due = 0
  /\ clock = Absent
  /\ evs = [s \in Slots |-> 0]
  /\ launched = 0 /\ landed = 0
  /\ period \in Periods
  /\ box = 0 /\ mirror = FALSE /\ cancel = FALSE /\ boxCancel = FALSE
  /\ trains = 0 /\ base = 0 /\ lastLaunch = 0 /\ owed = 0
  /\ failed = FALSE
  /\ lateLaunches = 0

-----------------------------------------------------------------------------
(* run() starts; the governor may have been stopped since it admitted the  *)
(* transfer.  The native one asks rate_fn once, and takes an exception for *)
(* "no gap".                                                               *)
Begin(n) ==
  /\ pc = "idle" /\ trains < MaxTrains
  /\ trains' = trains + 1 /\ base' = launched
  /\ size' = n /\ ci' = 0
  /\ due' = IF clock = Absent THEN now ELSE clock
  /\ pc' = "check"
  /\ \/ ~Native /\ UNCHANGED <<box, mirror, boxCancel>>
     \/ /\ Native
        /\ box' \in {period} \cup (IF MayRaise THEN {0} ELSE {})
        /\ boxCancel' = cancel
        /\ mirror' = TRUE
  /\ UNCHANGED <<pacerKind, now, clock, dmaVars, period, cancel, owed,
                 failed, lateLaunches>>

(* Mutated forms: the end of the payload is missed by a chunk; the flag is *)
(* polled in the gap only.                                                 *)
CheckLate ==
  /\ pc = "check"
  /\ pc' = IF Sent >= size + ChunkUnits \/ Cancelled THEN "drain" ELSE "depth"
  /\ UNCHANGED <<now, size, ci, due, clock, dmaVars, controlVars, trains,
                 base, owed, failed, lateLaunches>>

CheckBlind ==
  /\ pc = "check"
  /\ pc' = IF Sent >= size THEN "drain" ELSE "depth"
  /\ UNCHANGED <<now, size, ci, due, clock, dmaVars, controlVars, trains,
                 base, owed, failed, lateLaunches>>

Check ==
  /\ pc = "check"
  /\ pc' = IF Sent >= size \/ Cancelled THEN "drain" ELSE "depth"
  /\ UNCHANGED <<now, size, ci, due, clock, dmaVars, controlVars, trains,
                 base, owed, failed, lateLaunches>>

(* Mutated form: no wait for the slot.                                     *)
AwaitNothing ==
  /\ pc = "depth"
  /\ pc' = "gap"
  /\ UNCHANGED <<now, size, ci, due, clock, dmaVars, controlVars, trains,
                 base, owed, failed, lateLaunches>>

(* Before chunk ci >= Depth: synchronize on the event of chunk ci - Depth. *)
AwaitSlot ==
  /\ pc = "depth"
  /\ ci >= Depth => evs[Slot] <= landed
  /\ pc' = "gap"
  /\ UNCHANGED <<now, size, ci, due, clock, dmaVars, controlVars, trains,
                 base, owed, failed, lateLaunches>>

(* The gap polls the flag; a chunk that is due is launched without a poll. *)
CancelInGap ==
  /\ pc = "gap" /\ now < due /\ Cancelled
  /\ pc' = "drain"
  /\ UNCHANGED <<now, size, ci, due, clock, dmaVars, controlVars, trains,
                 base, owed, failed, lateLaunches>>

Launch ==
  /\ pc = "gap" /\ now >= due
  /\ launched' = launched + 1
  /\ evs' = [evs EXCEPT ![Slot] = launched + 1]
  /\ lastLaunch' = now
  /\ lateLaunches' = IF Cancelled THEN lateLaunches + 1 ELSE lateLaunches
  /\ pc' = "rate"
  /\ UNCHANGED <<now, size, ci, due, clock, landed, controlVars, trains,
                 base, owed, failed>>

(* Mutated form: scheduled from the deadline, a late chunk is made up for. *)
NextDueCredit(p) == IF p = 0 THEN due ELSE due + Units * p

(* Schedule from max(now, due): a late chunk earns no burst credit.        *)
NextDue(p) == IF p = 0 THEN due ELSE Later(now, due) + Units * p

ReadRate ==
  LET p == IF Native THEN box ELSE period IN
  /\ pc = "rate"
  /\ due' = NextDue(p)
  /\ owed' = Units * p /\ failed' = FALSE
  /\ ci' = ci + 1
  /\ pc' = "check"
  /\ UNCHANGED <<now, size, clock, dmaVars, controlVars, trains, base,
                 lateLaunches>>

(* An exception leaves run() before the drain, and _serve_one before it    *)
(* stores the clock: rate_fn's in the Python loop, or any CUDA call's.     *)
Abort ==
  /\ \/ pc = "rate" /\ ~Native /\ MayRaise
     \/ pc \in {"depth", "gap", "rate", "drain"} /\ MayFail
  /\ pc' = "idle"
  /\ mirror' = FALSE
  /\ owed' = IF pc = "rate" THEN Units * period ELSE owed
  /\ failed' = (failed \/ launched # base)
  /\ UNCHANGED <<pacerKind, now, size, ci, due, clock, dmaVars, period, box,
                 cancel, boxCancel, trains, base, lateLaunches>>

Drain ==
  /\ pc = "drain" /\ landed = launched
  /\ pc' = "idle"
  /\ clock' = due
  /\ mirror' = FALSE
  /\ UNCHANGED <<pacerKind, now, size, ci, due, dmaVars, period, box, cancel,
                 boxCancel, trains, base, owed, failed, lateLaunches>>

Train ==
  \/ \E n \in TrainSizes : Begin(n)
  \/ Check \/ AwaitSlot \/ CancelInGap \/ Launch \/ ReadRate \/ Abort \/ Drain

-----------------------------------------------------------------------------
(* The stream moves chunks in launch order.                                *)
Land ==
  /\ landed < launched
  /\ landed' = landed + 1
  /\ UNCHANGED <<now, pc, size, ci, due, clock, evs, launched, lastLaunch,
                 controlVars, trains, base, owed, failed, lateLaunches>>

(* The slow loop moves the trim.                                           *)
Retrim ==
  /\ period' \in Periods \ {period}
  /\ UNCHANGED <<pacerKind, now, pc, size, ci, due, clock, dmaVars, box,
                 mirror, cancel, boxCancel, trains, base, owed, failed,
                 lateLaunches>>

(* The mirror thread, every 50 ms: cancel first, then the rate; an         *)
(* exception of rate_fn ends it.                                           *)
MirrorWake ==
  /\ mirror
  /\ \/ cancel /\ boxCancel' = TRUE /\ mirror' = FALSE /\ UNCHANGED box
     \/ ~cancel /\ box' = period /\ UNCHANGED <<mirror, boxCancel>>
     \/ ~cancel /\ MayRaise /\ mirror' = FALSE /\ UNCHANGED <<box, boxCancel>>
  /\ UNCHANGED <<pacerKind, now, pc, size, ci, due, clock, dmaVars, period,
                 cancel, trains, base, owed, failed, lateLaunches>>

Stop ==
  /\ MayCancel /\ ~cancel
  /\ cancel' = TRUE
  /\ UNCHANGED <<pacerKind, now, pc, size, ci, due, clock, dmaVars, period,
                 box, mirror, boxCancel, trains, base, owed, failed,
                 lateLaunches>>

Tick ==
  /\ now < MaxTime
  /\ now' = now + 1
  /\ UNCHANGED <<pc, size, ci, due, clock, dmaVars, controlVars, trains,
                 base, owed, failed, lateLaunches>>

Next == Train \/ Land \/ Retrim \/ MirrorWake \/ Stop \/ Tick

Spec == Init /\ [][Next]_vars

-----------------------------------------------------------------------------
TypeOK ==
  /\ pacerKind \in Actuators
  /\ now \in 0..MaxTime
  /\ pc \in {"idle", "check", "depth", "gap", "rate", "drain"}
  /\ size \in Nat /\ ci \in Nat /\ due \in Nat /\ clock \in Nat \cup {Absent}
  /\ evs \in [Slots -> Nat]
  /\ launched \in Nat /\ landed \in Nat
  /\ period \in Nat /\ box \in Nat
  /\ {mirror, cancel, boxCancel, failed} \subseteq BOOLEAN
  /\ trains \in Nat /\ base \in Nat /\ lastLaunch \in Nat /\ owed \in Nat
  /\ lateLaunches \in Nat

(* No chunk is launched before the gap asked for at the previous one has   *)
(* passed, inside a train or from one train to the next: "back-to-back     *)
(* small payloads cannot burst at chunk 0" (governor.py), "a late chunk    *)
(* does not earn back its delay" (pacer.py).  A train that was left by an  *)
(* exception takes its pacing clock with it, and the launch after it is    *)
(* excepted.                                                               *)
Spaced == launched' # launched /\ ~failed => now >= lastLaunch + owed
PacedLaunches == [][Spaced]_vars

(* At most Depth chunks of a train are in flight: the event a slot waits   *)
(* on is that of the chunk Depth places back.                              *)
DepthBound == launched - Later(landed, base) <= Depth

(* Cancellation lands at a chunk boundary: one chunk at most is launched   *)
(* after the loop could see the flag.                                      *)
CancelAtChunk == lateLaunches <= 1
=============================================================================
