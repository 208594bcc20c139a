---------------------------- MODULE PacerProofs -----------------------------
(***************************************************************************)
(* Theorems about Pacer, for any rates, chunk sizes, transfer sizes and    *)
(* either actuator.                                                        *)
(***************************************************************************)
EXTENDS Pacer, TLAPS

(* A chunk that is being prepared lies inside the transfer.                *)
ChunkInside == pc \in {"depth", "gap", "rate"} => Sent < size

TypeInv == TypeOK /\ ChunkInside

LEMMA SentNat == ASSUME ci \in Nat PROVE Sent \in Nat
  BY PacerAssumption DEF Sent

LEMMA ProductNat == \A a, b \in Nat : a * b \in Nat
  OBVIOUS

(* The gap a chunk asks for is a number of ticks.                          *)
LEMMA GapNat ==
  ASSUME TypeInv, pc = "rate", NEW p \in Nat
  PROVE  Units * p \in Nat
<1>1. Units \in Nat
  BY SentNat, PacerAssumption DEF TypeInv, TypeOK, ChunkInside, Units
<1> QED
  BY <1>1, ProductNat

LEMMA TypeInvInit == Init => TypeInv
<1> SUFFICES ASSUME Init PROVE TypeInv
  OBVIOUS
<1>1. evs \in [Slots -> Nat]
  BY DEF Init
<1>2. now \in 0..MaxTime /\ period \in Nat
  BY PacerAssumption DEF Init
<1>3. {mirror, cancel, boxCancel, failed} \subseteq BOOLEAN
  BY DEF Init
<1> QED
  BY <1>1, <1>2, <1>3 DEF Init, TypeInv, TypeOK, ChunkInside, Absent

LEMMA TypeInvNext == TypeInv /\ [Next]_vars => TypeInv'
<1> SUFFICES ASSUME TypeInv, [Next]_vars PROVE TypeInv'
  OBVIOUS
<1> USE DEF TypeInv
<1>p. Sent \in Nat
  BY SentNat DEF TypeOK
<1>1. CASE UNCHANGED vars
  BY <1>1 DEF vars, dmaVars, controlVars, TypeOK, ChunkInside, Sent
<1>2. ASSUME NEW n \in TrainSizes, Begin(n) PROVE TypeInv'
  <2>1. size' \in Nat /\ due' \in Nat /\ trains' \in Nat /\ base' \in Nat
    BY <1>2, PacerAssumption DEF Begin, TypeOK, Absent
  <2>2. box' \in Nat
    BY <1>2 DEF Begin, TypeOK
  <2>3. {mirror', cancel', boxCancel', failed'} \subseteq BOOLEAN
    BY <1>2 DEF Begin, TypeOK
  <2> QED
    BY <1>2, <2>1, <2>2, <2>3 DEF Begin, dmaVars, TypeOK, ChunkInside
<1>3. CASE Check
  BY <1>3, <1>p DEF Check, dmaVars, controlVars, TypeOK, ChunkInside, Sent
<1>4. CASE AwaitSlot
  BY <1>4 DEF AwaitSlot, dmaVars, controlVars, TypeOK, ChunkInside, Sent
<1>5. CASE CancelInGap
  BY <1>5 DEF CancelInGap, dmaVars, controlVars, TypeOK, ChunkInside, Sent
<1>6. CASE Launch
  <2>1. evs' \in [Slots -> Nat]
    <3>1. evs \in [Slots -> Nat] /\ launched + 1 \in Nat
      BY DEF TypeOK
    <3>2. evs' = [evs EXCEPT ![Slot] = launched + 1]
      BY <1>6 DEF Launch
    <3> QED
      BY <3>1, <3>2
  <2>2. launched' \in Nat /\ lastLaunch' \in Nat
    BY <1>6, PacerAssumption DEF Launch, TypeOK
  <2>3. lateLaunches' \in Nat
    BY <1>6 DEF Launch, TypeOK
  <2>4. ChunkInside'
    BY <1>6 DEF Launch, ChunkInside, Sent
  <2> QED
    BY <1>6, <2>1, <2>2, <2>3, <2>4 DEF Launch, controlVars, TypeOK
<1>7. CASE ReadRate
  <2> DEFINE p == IF Native THEN box ELSE period
  <2>1. pc = "rate" /\ p \in Nat
    BY <1>7 DEF ReadRate, TypeOK
  <2>2. Units * p \in Nat
    BY <2>1, GapNat
  <2>3. due' \in Nat
    BY <1>7, <2>2 DEF ReadRate, NextDue, Later, TypeOK
  <2>4. {mirror', cancel', boxCancel', failed'} \subseteq BOOLEAN
    BY <1>7 DEF ReadRate, controlVars, TypeOK
  <2> QED
    BY <1>7, <2>2, <2>3, <2>4 DEF ReadRate, dmaVars, controlVars, TypeOK, ChunkInside
<1>8. CASE Abort
  <2>1. pc = "rate" => Units * period \in Nat
    BY GapNat DEF TypeOK
  <2> QED
    BY <1>8, <2>1 DEF Abort, dmaVars, TypeOK, ChunkInside
<1>9. CASE Drain
  BY <1>9 DEF Drain, dmaVars, TypeOK, ChunkInside
<1>10. CASE Land
  BY <1>10 DEF Land, controlVars, TypeOK, ChunkInside, Sent
<1>11. CASE Retrim
  BY <1>11, PacerAssumption DEF Retrim, dmaVars, TypeOK, ChunkInside, Sent
<1>12. CASE MirrorWake
  BY <1>12 DEF MirrorWake, dmaVars, TypeOK, ChunkInside, Sent
<1>13. CASE Stop
  BY <1>13 DEF Stop, dmaVars, TypeOK, ChunkInside, Sent
<1>14. CASE Tick
  BY <1>14, PacerAssumption DEF Tick, dmaVars, controlVars, TypeOK, ChunkInside, Sent
<1> QED
  BY <1>1, <1>2, <1>3, <1>4, <1>5, <1>6, <1>7, <1>8, <1>9, <1>10, <1>11, <1>12,
     <1>13, <1>14
  DEF Next, Train

(* Every reachable state is well typed.                                    *)
THEOREM TypeCorrect == Spec => []TypeOK
<1>1. Spec => []TypeInv
  BY TypeInvInit, TypeInvNext, PTL DEF Spec
<1> QED
  BY <1>1, PTL DEF TypeInv

-----------------------------------------------------------------------------
(* Unless the clock was lost with a failed train: the deadline of a        *)
(* running train is never before the end of the gap that is owed, nor is   *)
(* the stored clock between trains and until a train's first launch; only  *)
(* a rate that means "no gap" owes nothing.                                *)
PaceKept ==
  /\ lastLaunch <= now
  /\ base <= launched
  /\ pc = "rate" => base < launched
  /\ pc \in {"check", "depth", "gap", "drain"} =>
       failed \/ owed = 0 \/ due >= lastLaunch + owed
  /\ pc = "idle" \/ launched = base =>
       failed \/ owed = 0 \/ (clock # Absent /\ clock >= lastLaunch + owed)

LEMMA PaceKeptNext ==
  ASSUME TypeInv, PaceKept, [Next]_vars
  PROVE  PaceKept'
<1> USE DEF TypeInv, TypeOK
<1>1. CASE UNCHANGED vars
  BY <1>1 DEF vars, dmaVars, controlVars, PaceKept
<1>2. ASSUME NEW n \in TrainSizes, Begin(n) PROVE PaceKept'
  BY <1>2 DEF Begin, dmaVars, PaceKept, Absent
<1>3. CASE Check \/ AwaitSlot \/ CancelInGap
  BY <1>3 DEF Check, AwaitSlot, CancelInGap, dmaVars, controlVars, PaceKept
<1>4. CASE Launch
  BY <1>4 DEF Launch, controlVars, PaceKept
<1>5. CASE ReadRate
  <2> DEFINE p == IF Native THEN box ELSE period
             gap == Units * p
  <2>1. pc = "rate" /\ p \in Nat /\ owed' = gap /\ pc' = "check"
        /\ due' = (IF p = 0 THEN due ELSE Later(now, due) + gap)
        /\ UNCHANGED <<now, lastLaunch, launched, base>>
    BY <1>5 DEF ReadRate, NextDue, dmaVars
  <2>2. gap \in Nat
    BY <2>1, GapNat
  <2>3. p = 0 => gap = 0
    <3>1. Units \in Int
      BY SentNat, PacerAssumption DEF Units
    <3> QED
      BY <3>1
  <2> HIDE DEF p, gap
  <2> QED
    BY <2>1, <2>2, <2>3 DEF PaceKept, Later
<1>6. CASE Abort
  <2>1. UNCHANGED <<now, clock, launched, base, lastLaunch>> /\ pc' = "idle"
    BY <1>6 DEF Abort, dmaVars
  <2>2. CASE failed \/ launched # base
    <3>1. failed'
      BY <1>6, <2>2 DEF Abort
    <3> QED
      BY <2>1, <3>1 DEF PaceKept
  <2>3. CASE ~failed /\ launched = base
    <3>1. pc # "rate" /\ owed' = owed
      BY <1>6, <2>3 DEF Abort, PaceKept
    <3> QED
      BY <2>1, <2>3, <3>1 DEF PaceKept
  <2> QED
    BY <2>2, <2>3
<1>7. CASE Drain
  BY <1>7 DEF Drain, dmaVars, PaceKept, Absent
<1>8. CASE Land \/ Retrim \/ MirrorWake \/ Stop
  BY <1>8 DEF Land, Retrim, MirrorWake, Stop, dmaVars, controlVars, PaceKept
<1>9. CASE Tick
  BY <1>9 DEF Tick, dmaVars, controlVars, PaceKept
<1> QED
  BY <1>1, <1>2, <1>3, <1>4, <1>5, <1>6, <1>7, <1>8, <1>9 DEF Next, Train

LEMMA SpacedStep ==
  ASSUME TypeInv, PaceKept, [Next]_vars
  PROVE  Spaced
<1>1. CASE Launch
  BY <1>1 DEF Launch, TypeInv, TypeOK, PaceKept, Spaced
<1>2. CASE UNCHANGED launched
  BY <1>2 DEF Spaced
<1>3. Launch \/ UNCHANGED launched
  BY DEF Next, Train, Begin, Check, AwaitSlot, CancelInGap, ReadRate, Abort,
         Drain, Land, Retrim, MirrorWake, Stop, Tick, vars, dmaVars
<1> QED
  BY <1>1, <1>2, <1>3

(* No two launches on a source are closer than the gap the lease rate asks *)
(* for, whatever the lateness of the threads and wherever one transfer     *)
(* ends and the next begins, unless an exception lost the clock between.   *)
THEOREM LaunchesPaced == Spec => PacedLaunches
<1> DEFINE Inv == TypeInv /\ PaceKept
<1>1. Init => Inv
  BY TypeInvInit, PacerAssumption DEF Init, PaceKept
<1>2. Inv /\ [Next]_vars => Inv'
  BY TypeInvNext, PaceKeptNext
<1>3. Inv /\ [Next]_vars => [Spaced]_vars
  BY SpacedStep
<1> QED
  BY <1>1, <1>2, <1>3, PTL DEF Spec, PacedLaunches

-----------------------------------------------------------------------------
(* A launch after the flag was visible is followed by the check that ends  *)
(* the train, and a later transfer does not get past its first check.      *)
CancelSticks ==
  /\ boxCancel => cancel
  /\ lateLaunches \in {0, 1}
  /\ lateLaunches = 1 => Cancelled /\ pc \notin {"depth", "gap"}

LEMMA CancelSticksNext ==
  ASSUME TypeInv, CancelSticks, [Next]_vars
  PROVE  CancelSticks'
<1> USE DEF CancelSticks, Cancelled, Native
<1>1. CASE UNCHANGED vars
  BY <1>1 DEF vars, controlVars
<1>2. ASSUME NEW n \in TrainSizes, Begin(n) PROVE CancelSticks'
  BY <1>2 DEF Begin
<1>3. CASE Check \/ AwaitSlot \/ CancelInGap \/ Launch \/ ReadRate \/ Abort \/ Drain
  BY <1>3 DEF Check, AwaitSlot, CancelInGap, Launch, ReadRate, Abort, Drain, controlVars
<1>4. CASE Land \/ Retrim \/ MirrorWake \/ Stop \/ Tick
  BY <1>4 DEF Land, Retrim, MirrorWake, Stop, Tick, controlVars, TypeInv, TypeOK
<1> QED
  BY <1>1, <1>2, <1>3, <1>4 DEF Next, Train

(* At most one chunk is launched once the loop can see the cancel flag,    *)
(* for either actuator and through every error.                            *)
THEOREM CancelLandsAtChunk == Spec => []CancelAtChunk
<1> DEFINE Inv == TypeInv /\ CancelSticks
<1>1. Init => Inv
  BY TypeInvInit DEF Init, CancelSticks
<1>2. Inv /\ [Next]_vars => Inv'
  BY TypeInvNext, CancelSticksNext
<1>3. Inv => CancelAtChunk
  BY DEF CancelSticks, CancelAtChunk
<1> QED
  BY <1>1, <1>2, <1>3, PTL DEF Spec

-----------------------------------------------------------------------------
(* Two chunks less than Depth apart have different slots, and the chunk    *)
(* Depth places back has the same.                                         *)
LEMMA DivMod ==
  ASSUME NEW a \in Nat
  PROVE  /\ a \div Depth \in Nat /\ a % Depth \in Slots
         /\ a = Depth * (a \div Depth) + (a % Depth)
  BY PacerAssumption DEF Slots

LEMMA SlotsDiffer ==
  ASSUME NEW a \in Nat, NEW b \in Nat, a < b, b < a + Depth
  PROVE  a % Depth # b % Depth
<1> SUFFICES ASSUME a % Depth = b % Depth PROVE FALSE
  OBVIOUS
<1> DEFINE qa == a \div Depth
           qb == b \div Depth
           r == a % Depth
<1>1. /\ qa \in Nat /\ qb \in Nat /\ r \in Int /\ Depth \in Nat \ {0}
      /\ a = Depth * qa + r /\ b = Depth * qb + r
  BY DivMod, PacerAssumption DEF Slots
<1> HIDE DEF qa, qb, r
<1>2. /\ Depth * qa \in Nat /\ Depth * qb \in Nat
      /\ Depth * qa < Depth * qb /\ Depth * qb < Depth * qa + Depth
  BY <1>1
<1>3. qa < qb
  <2> SUFFICES ASSUME qb <= qa PROVE FALSE
    BY <1>1
  <2>1. Depth * qb <= Depth * qa
    BY <1>1
  <2> QED
    BY <1>2, <2>1
<1>4. Depth * (qa + 1) <= Depth * qb
  BY <1>1, <1>3
<1>5. Depth * (qa + 1) = Depth * qa + Depth
  BY <1>1
<1> QED
  BY <1>1, <1>2, <1>4, <1>5

LEMMA SlotRecurs ==
  ASSUME NEW a \in Nat
  PROVE  (a + Depth) % Depth = a % Depth
<1> SUFFICES ASSUME (a + Depth) % Depth # a % Depth PROVE FALSE
  OBVIOUS
<1> DEFINE b == a + Depth
           qa == a \div Depth
           qb == b \div Depth
           ra == a % Depth
           rb == b % Depth
<1>0. Depth \in Nat \ {0} /\ b \in Nat
  BY PacerAssumption
<1>1. /\ qa \in Nat /\ qb \in Nat /\ Depth \in Nat \ {0}
      /\ ra \in 0..(Depth - 1) /\ rb \in 0..(Depth - 1)
      /\ a = Depth * qa + ra /\ a + Depth = Depth * qb + rb
  <2>1. qa \in Nat /\ ra \in Slots /\ a = Depth * qa + ra
    BY DivMod
  <2>2. qb \in Nat /\ rb \in Slots /\ b = Depth * qb + rb
    BY <1>0, DivMod
  <2> QED
    BY <1>0, <2>1, <2>2 DEF Slots
<1>2. ra # rb
  OBVIOUS
<1> HIDE DEF b, qa, qb, ra, rb
<1>3. /\ Depth * (qa + 1) = Depth * qa + Depth
      /\ Depth * (qa + 1) \in Nat /\ Depth * qb \in Nat
      /\ Depth * (qa + 1) + ra = Depth * qb + rb
  BY <1>1
<1>4. CASE qa + 1 = qb
  BY <1>1, <1>2, <1>3, <1>4
<1>5. CASE qa + 1 < qb
  <2>1. Depth * (qa + 2) <= Depth * qb /\ Depth * (qa + 2) = Depth * (qa + 1) + Depth
    BY <1>1, <1>5
  <2> QED
    BY <1>1, <1>3, <2>1
<1>6. CASE qb < qa + 1
  <2>1. Depth * (qb + 1) <= Depth * (qa + 1) /\ Depth * (qb + 1) = Depth * qb + Depth
    BY <1>1, <1>6
  <2> QED
    BY <1>1, <1>3, <2>1
<1> QED
  BY <1>1, <1>4, <1>5, <1>6

(* The events of the last Depth chunks of the train are in their slots.    *)
EventsKept ==
  \A j \in Nat : base + j < launched /\ launched <= base + j + Depth =>
    evs[j % Depth] = base + j + 1

DepthKept ==
  /\ base <= launched /\ landed <= launched
  /\ pc \in {"check", "depth", "gap", "drain"} => launched = base + ci
  /\ pc = "rate" => launched = base + ci + 1
  /\ pc # "idle" => EventsKept
  /\ pc = "gap" /\ ci >= Depth => base + ci + 1 - Depth <= landed
  /\ DepthBound

LEMMA DepthKeptNext ==
  ASSUME TypeInv, DepthKept, [Next]_vars
  PROVE  DepthKept'
<1> USE DEF TypeInv
<1>d. Depth \in Nat \ {0}
  BY PacerAssumption
<1>1. CASE UNCHANGED vars
  BY <1>1 DEF vars, dmaVars, DepthKept, EventsKept, DepthBound, Later
<1>2. ASSUME NEW n \in TrainSizes, Begin(n) PROVE DepthKept'
  <2>1. /\ pc' = "check" /\ ci' = 0 /\ base' = launched
        /\ UNCHANGED <<evs, launched, landed>>
    BY <1>2 DEF Begin, dmaVars
  <2>2. EventsKept'
    BY <2>1 DEF EventsKept, TypeOK
  <2>3. DepthBound'
    BY <2>1, <1>d DEF DepthKept, DepthBound, Later, TypeOK
  <2> QED
    BY <2>1, <2>2, <2>3 DEF DepthKept, TypeOK
<1>3. CASE Check \/ CancelInGap
  BY <1>3 DEF Check, CancelInGap, dmaVars, DepthKept, EventsKept, DepthBound, Later
<1>4. CASE AwaitSlot
  <2>1. /\ pc = "depth" /\ pc' = "gap" /\ UNCHANGED <<ci, base, evs, launched, landed>>
        /\ ci >= Depth => evs[Slot] <= landed
    BY <1>4 DEF AwaitSlot, dmaVars
  <2>2. ci >= Depth => base + ci + 1 - Depth <= landed
    <3> SUFFICES ASSUME ci >= Depth PROVE base + ci + 1 - Depth <= landed
      OBVIOUS
    <3> DEFINE j == ci - Depth
    <3>1. j \in Nat /\ launched = base + ci /\ EventsKept /\ ci = j + Depth
      BY <1>d, <2>1 DEF DepthKept, TypeOK
    <3>2. base + j < launched /\ launched <= base + j + Depth
      BY <1>d, <3>1 DEF TypeOK
    <3>3. evs[j % Depth] = base + j + 1
      BY <3>1, <3>2 DEF EventsKept
    <3>4. Slot = j % Depth
      BY <3>1, SlotRecurs DEF Slot
    <3> QED
      BY <1>d, <2>1, <3>1, <3>3, <3>4 DEF TypeOK
  <2> QED
    BY <2>1, <2>2 DEF DepthKept, EventsKept, DepthBound, Later
<1>5. CASE Launch
  <2>1. /\ pc = "gap" /\ pc' = "rate" /\ UNCHANGED <<ci, base, landed>>
        /\ launched' = launched + 1 /\ launched = base + ci
        /\ evs' = [evs EXCEPT ![Slot] = launched + 1]
        /\ ci >= Depth => base + ci + 1 - Depth <= landed
    BY <1>5 DEF Launch, DepthKept
  <2>2. DepthBound'
    BY <1>d, <2>1 DEF DepthBound, Later, TypeOK
  <2>3. ASSUME NEW j \in Nat, base + j < launched', launched' <= base + j + Depth
        PROVE  evs'[j % Depth] = base + j + 1
    <3>1. j \in 0..ci /\ ci < j + Depth /\ ci \in Nat
      BY <1>d, <2>1, <2>3 DEF TypeOK
    <3>2. j % Depth \in Slots /\ Slot \in Slots
      BY <3>1, DivMod DEF Slot
    <3>3. CASE j = ci
      BY <2>1, <3>2, <3>3 DEF Slot, TypeOK
    <3>4. CASE j < ci
      <4>1. j % Depth # Slot
        BY <3>1, <3>4, SlotsDiffer DEF Slot
      <4>2. evs[j % Depth] = base + j + 1
        <5>1. EventsKept /\ base \in Nat
          BY <2>1 DEF DepthKept, TypeOK
        <5>2. base + j < launched /\ launched <= base + j + Depth
          BY <1>d, <2>1, <3>1, <3>4, <5>1
        <5> QED
          BY <5>1, <5>2 DEF EventsKept
      <4> QED
        BY <2>1, <3>2, <4>1, <4>2 DEF TypeOK
    <3> QED
      BY <3>1, <3>3, <3>4
  <2> QED
    BY <2>1, <2>2, <2>3 DEF DepthKept, EventsKept, TypeOK
<1>6. CASE ReadRate
  BY <1>6 DEF ReadRate, dmaVars, DepthKept, EventsKept, DepthBound, Later, TypeOK
<1>7. CASE Abort \/ Drain
  BY <1>7 DEF Abort, Drain, dmaVars, DepthKept, DepthBound, Later
<1>8. CASE Land
  BY <1>8, <1>d DEF Land, DepthKept, EventsKept, DepthBound, Later, TypeOK
<1>9. CASE Retrim \/ MirrorWake \/ Stop \/ Tick
  BY <1>9
  DEF Retrim, MirrorWake, Stop, Tick, dmaVars, DepthKept, EventsKept, DepthBound, Later
<1> QED
  BY <1>1, <1>2, <1>3, <1>4, <1>5, <1>6, <1>7, <1>8, <1>9 DEF Next, Train

(* However deep the pipeline, a train has at most Depth chunks in flight,  *)
(* also when an exception leaves chunks of it behind: the event a slot     *)
(* waits on is that of the chunk Depth places back.                        *)
THEOREM DepthBounded == Spec => []DepthBound
<1> DEFINE Inv == TypeInv /\ DepthKept
<1>1. Init => Inv
  <2>1. Init => DepthKept
    BY PacerAssumption DEF Init, DepthKept, DepthBound, Later
  <2> QED
    BY <2>1, TypeInvInit
<1>2. Inv /\ [Next]_vars => Inv'
  BY TypeInvNext, DepthKeptNext
<1>3. Inv => DepthBound
  BY DEF DepthKept
<1> QED
  BY <1>1, <1>2, <1>3, PTL DEF Spec
=============================================================================
