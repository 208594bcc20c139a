---------------------------- MODULE EpochProofs ----------------------------
(***************************************************************************)
(* Theorems about EpochLoop, for any epoch length, curve values, floors    *)
(* and grace: the clamps hold, they keep the peer budget admissible, and   *)
(* an epoch with traffic in it is never taken for an idle one.             *)
(***************************************************************************)
EXTENDS EpochLoop, TLAPS

Peer == Inv["receiver/peer"]

LEMMA ConstantTypes ==
  /\ Epoch \in Nat \ {0} /\ Unit \in Nat \ {0} /\ MinRate \in Nat \ {0}
  /\ LowestFloor \in Nat \ {0} /\ TopRate \in Nat \ {0} /\ Grace \in Nat \ {0}
  /\ Peer \in Nat \ {0}
  BY EpochAssumption DEF Peer

-----------------------------------------------------------------------------
(* Quotients.                                                              *)
LEMMA QuotientInNat ==
  ASSUME NEW x \in Nat, NEW d \in Nat \ {0}
  PROVE  x \div d \in Nat /\ d * (x \div d) <= x /\ x < d * (x \div d) + d
  OBVIOUS

LEMMA QuotientAtLeast ==
  ASSUME NEW x \in Nat, NEW d \in Nat \ {0}, NEW q \in Nat, d * q <= x
  PROVE  q <= x \div d
<1> DEFINE r == x \div d
<1>1. r \in Nat /\ x < d * r + d
  BY QuotientInNat
<1> HIDE DEF r
<1>2. ASSUME r < q PROVE FALSE
  <2>1. r + 1 <= q
    BY <1>1, <1>2
  <2>2. d * (r + 1) <= d * q
    BY <1>1, <2>1
  <2>3. d * (r + 1) = d * r + d
    BY <1>1
  <2> QED
    BY <1>1, <2>2, <2>3
<1>3. q <= r
  BY <1>1, <1>2
<1> QED
  BY <1>3 DEF r

LEMMA QuotientAtMost ==
  ASSUME NEW x \in Nat, NEW d \in Nat \ {0}, NEW q \in Nat, x < d * q + d
  PROVE  x \div d <= q
<1> DEFINE r == x \div d
<1>1. r \in Nat /\ d * r <= x
  BY QuotientInNat
<1> HIDE DEF r
<1>2. ASSUME q < r PROVE FALSE
  <2>1. q + 1 <= r
    BY <1>1, <1>2
  <2>2. d * (q + 1) <= d * r
    BY <1>1, <2>1
  <2>3. d * (q + 1) = d * q + d
    OBVIOUS
  <2> QED
    BY <1>1, <2>2, <2>3
<1>3. r <= q
  BY <1>1, <1>2
<1> QED
  BY <1>3 DEF r

-----------------------------------------------------------------------------
(* The clamps.                                                             *)
Ceiling == (MinRate * Unit + Peer - 1) \div Peer

LEMMA FloorBounds ==
  /\ Floor \in Nat \ {0}
  /\ Peer * Floor >= MinRate * Unit
  /\ Cap \in Nat /\ Cap >= Unit
<1>1. MinRate * Unit \in Nat /\ MinRate * Unit + Peer - 1 \in Nat
  BY ConstantTypes
<1>2. Ceiling \in Nat /\ MinRate * Unit + Peer - 1 < Peer * Ceiling + Peer
  BY <1>1, ConstantTypes, QuotientInNat DEF Ceiling
<1>3. Floor = MaxOf(LowestFloor, Ceiling)
  BY DEF Floor, Ceiling, Peer
<1> HIDE DEF Ceiling
<1>4. Floor \in Nat \ {0} /\ Floor >= Ceiling
  BY <1>2, <1>3, ConstantTypes DEF MaxOf
<1>5. Peer * Floor >= Peer * Ceiling
  BY <1>2, <1>4, ConstantTypes
<1>6. Peer * Ceiling >= MinRate * Unit
  <2>1. Peer * Ceiling \in Int
    BY <1>2, ConstantTypes
  <2> QED
    BY <1>1, <1>2, <2>1, ConstantTypes
<1>7. Peer * Floor >= MinRate * Unit
  <2>1. Peer * Ceiling \in Int /\ Peer * Floor \in Int
    BY <1>2, <1>4, ConstantTypes
  <2> QED
    BY <1>1, <1>5, <1>6, <2>1
<1>8. TopRate * Unit \in Nat
  BY ConstantTypes
<1>9. (TopRate * Unit) \div Peer \in Nat
  BY <1>8, ConstantTypes, QuotientInNat
<1>10. Cap \in Nat /\ Cap >= Unit
  BY <1>9, ConstantTypes DEF Cap, MaxOf, Peer
<1> QED
  BY <1>4, <1>7, <1>10

(* The calibration can grant min_rate at eps, and the lowest floor is not  *)
(* above one.                                                              *)
FloorBelowOne == LowestFloor <= Unit /\ MinRate <= Peer

LEMMA FloorBelowCap ==
  ASSUME FloorBelowOne
  PROVE  Floor <= Unit
<1>1. MinRate * Unit <= Peer * Unit /\ MinRate * Unit \in Nat /\ Peer * Unit \in Nat
  BY ConstantTypes DEF FloorBelowOne
<1>2. MinRate * Unit + Peer - 1 \in Nat /\ MinRate * Unit + Peer - 1 < Peer * Unit + Peer
  BY <1>1, ConstantTypes
<1>3. Ceiling <= Unit
  BY <1>2, ConstantTypes, QuotientAtMost DEF Ceiling
<1> QED
  BY <1>3 DEF Floor, Ceiling, FloorBelowOne, MaxOf, Peer

LEMMA ClampBounds ==
  ASSUME NEW x \in Int
  PROVE  /\ Clamp(x) \in Nat
         /\ Clamp(x) <= Cap
         /\ Floor <= Cap => Floor <= Clamp(x)
  BY FloorBounds, ConstantTypes DEF Clamp, MinOf, MaxOf

(* The multiplier a pass may leave.                                        *)
LEMMA ObservedTrim ==
  ASSUME m \in Nat, Observe
  PROVE  \/ m' = m
         \/ m' = Halved
         \/ \E x \in Int : m' = Clamp(x)
<1>1. m \div 2 \in Nat /\ (m * 9) \div 10 \in Nat /\ (m * 15) \div 100 \in Nat
  BY m * 9 \in Nat, m * 15 \in Nat
<1>2. CASE UNCHANGED trimVars
  BY <1>2 DEF trimVars
<1>3. CASE ObserveIdle
  BY <1>3 DEF ObserveIdle
<1>4. CASE ObserveSilence
  BY <1>4 DEF ObserveSilence
<1>5. CASE ObserveLoaded
  <2>1. CASE m' \in BackedOff
    BY <1>1, <2>1 DEF BackedOff
  <2>2. CASE m' = Probed
    BY <1>1, <2>2 DEF Probed, MaxOf
  <2> QED
    BY <1>5, <2>1, <2>2 DEF ObserveLoaded
<1> QED
  BY <1>2, <1>3, <1>4, <1>5 DEF Observe

-----------------------------------------------------------------------------
LEMMA TypeInit == Init => TypeOK
<1> SUFFICES ASSUME Init PROVE TypeOK
  OBVIOUS
<1>1. seen \in [fed : BOOLEAN, busy : BOOLEAN, pending : BOOLEAN, quiet : BOOLEAN]
  BY DEF Init, NothingSeen
<1>2. samples \subseteq [age : Ages, loaded : BOOLEAN]
  BY DEF Init
<1>3. m \in Nat /\ idleAge \in Ages /\ sleep \in Ages /\ empties \in 0..Grace
  BY ConstantTypes DEF Init, Ages
<1> QED
  BY <1>1, <1>2, <1>3 DEF Init, TypeOK

LEMMA TypeNext == TypeOK /\ [Next]_vars => TypeOK'
<1> SUFFICES ASSUME TypeOK, [Next]_vars PROVE TypeOK'
  OBVIOUS
<1> USE ConstantTypes DEF TypeOK
<1>1. CASE UNCHANGED vars
  BY <1>1 DEF vars, workVars, trimVars, loopVars
<1>2. CASE Submit \/ Worker
  <2>1. UNCHANGED <<samples, fed, trimVars, loopVars>> /\ idleAge' \in {idleAge, 0}
    BY <1>2 DEF Submit, Worker, Admit, StampAdmission, StampRelease, Release, Finish
  <2>2. /\ xfer' \in {"none", "waiting", "leased", "moving", "ending", "released"}
        /\ pending' \in BOOLEAN
    BY <1>2 DEF Submit, Worker, Admit, StampAdmission, StampRelease, Release, Finish
  <2>3. idleAge' \in Ages
    BY <2>1 DEF Ages
  <2> QED
    BY <2>1, <2>2, <2>3 DEF trimVars, loopVars
<1>3. CASE FeedVictim
  <2>1. [age |-> 0, loaded |-> xfer = "moving"] \in [age : Ages, loaded : BOOLEAN]
    BY DEF Ages
  <2>2. samples' \subseteq [age : Ages, loaded : BOOLEAN]
    BY <1>3, <2>1 DEF FeedVictim
  <2> QED
    BY <1>3, <2>2 DEF FeedVictim, workVars, trimVars, loopVars
<1>4. CASE Tick
  <2>1. sleep' \in Ages /\ idleAge' \in Ages
    BY <1>4 DEF Tick, Ages, Older
  <2>2. samples' \subseteq [age : Ages, loaded : BOOLEAN]
    <3>1. ASSUME NEW s \in samples, s.age < Epoch
          PROVE  [s EXCEPT !.age = s.age + 1] \in [age : Ages, loaded : BOOLEAN]
      BY <3>1 DEF Ages
    <3> QED
      BY <1>4, <3>1 DEF Tick
  <2> QED
    BY <1>4, <2>1, <2>2 DEF Tick, workVars, trimVars
<1>5. CASE ReadLeases \/ ReadFeeds \/ ReadQuiet
  <2>1. seen' \in [fed : BOOLEAN, busy : BOOLEAN, pending : BOOLEAN, quiet : BOOLEAN]
    <3> DEFINE leased == Leased
               quiet == idleAge >= Epoch
    <3>1. leased \in BOOLEAN /\ quiet \in BOOLEAN
      BY DEF Leased
    <3> HIDE DEF leased, quiet
    <3>2. CASE ReadLeases
      BY <3>1, <3>2 DEF ReadLeases, NothingSeen, leased
    <3>3. CASE ReadFeeds
      BY <3>3 DEF ReadFeeds
    <3>4. CASE ReadQuiet
      BY <3>1, <3>4 DEF ReadQuiet, quiet
    <3> QED
      BY <1>5, <3>2, <3>3, <3>4
  <2> QED
    BY <1>5, <2>1 DEF ReadLeases, ReadFeeds, ReadQuiet, workVars, trimVars
<1>6. CASE Observe
  <2>1. m' \in Nat
    <3>1. Halved \in Nat
      BY FloorBounds, m \div 2 \in Nat DEF Halved, MaxOf
    <3> QED
      BY <1>6, <3>1, ObservedTrim, ClampBounds
  <2>2. baseline' \in BOOLEAN /\ empties' \in 0..Grace
    BY <1>6 DEF Observe, trimVars, ObserveIdle, ObserveSilence, ObserveLoaded, MinOf
  <2> QED
    BY <1>6, <2>1, <2>2 DEF Observe, workVars, Ages, NothingSeen
<1> QED
  BY <1>1, <1>2, <1>3, <1>4, <1>5, <1>6 DEF Next, EpochThread

(* Every reachable state of the slow loop is well typed.                   *)
THEOREM TypeCorrect == Spec => []TypeOK
  BY TypeInit, TypeNext, PTL DEF Spec

(* Backing off, probing and the silent-victim halving keep the multiplier  *)
(* between the clamps computed at construction.                            *)
THEOREM TrimClamped ==
  ASSUME FloorBelowOne
  PROVE  Spec => []Clamped
<1>0. Floor \in Nat /\ Cap \in Nat /\ Floor <= Unit /\ Unit <= Cap
  BY FloorBounds, FloorBelowCap
<1>1. Init => Clamped
  BY <1>0, ConstantTypes DEF Init, Clamped
<1>2. TypeOK /\ Clamped /\ [Next]_vars => Clamped'
  <2> SUFFICES ASSUME TypeOK, Clamped, [Next]_vars PROVE Clamped'
    OBVIOUS
  <2>1. CASE UNCHANGED m
    BY <2>1 DEF Clamped
  <2>2. CASE Observe
    <3>1. Halved \in Nat /\ Floor <= Halved /\ Halved <= Cap
      BY <1>0, m \div 2 \in Nat, m \div 2 <= m DEF Halved, MaxOf, Clamped, TypeOK
    <3>2. Floor <= Cap
      BY <1>0, ConstantTypes
    <3> QED
      BY <1>0, <2>2, <3>1, <3>2, ObservedTrim, ClampBounds DEF Clamped, TypeOK
  <2> QED
    BY <2>1, <2>2
    DEF Next, Submit, Worker, Admit, StampAdmission, StampRelease, Release, Finish,
        FeedVictim, Tick, EpochThread, ReadLeases, ReadFeeds, ReadQuiet, vars, trimVars
<1> QED
  BY <1>1, <1>2, TypeInit, TypeNext, PTL DEF Spec

(* For a victim that receives from peers only, no trim the loop can reach  *)
(* prices a transfer out of an empty ledger: "deep backoff cannot enter    *)
(* the absorbing all-deferred state".                                      *)
THEOREM PeerStaysAdmissible ==
  ASSUME FloorBelowOne, Used = {"receiver/peer"}
  PROVE  Spec => []Admissible
<1>1. TypeOK /\ Clamped => Admissible
  <2> SUFFICES ASSUME TypeOK, Clamped PROVE (Peer * m) \div Unit >= MinRate
    BY DEF Admissible, Peer
  <2>1. m \in Nat /\ Floor <= m /\ Floor \in Nat
    BY FloorBounds DEF TypeOK, Clamped
  <2>2. Peer * Floor <= Peer * m
    BY <2>1, ConstantTypes
  <2>3. Peer * m \in Nat /\ Unit * MinRate <= Peer * m
    BY <2>1, <2>2, FloorBounds, ConstantTypes
  <2> QED
    BY <2>3, ConstantTypes, QuotientAtLeast, QuotientInNat
<1> QED
  BY <1>1, TrimClamped, TypeCorrect, PTL

-----------------------------------------------------------------------------
(* A sample our traffic slowed down is as old as the last stamp, unless    *)
(* the traffic is still moving; and if it began to move after this pass    *)
(* found no lease, the clock has just been stamped.                        *)
SamplesStamped ==
  /\ xfer # "moving" => \A s \in samples : s.loaded => s.age >= idleAge
  /\ epc \in {"feeds", "quiet"} /\ ~seen.busy /\ xfer = "moving" => idleAge = 0

LEMMA StampedNext == TypeOK /\ SamplesStamped /\ [Next]_vars => SamplesStamped'
<1> SUFFICES ASSUME TypeOK, SamplesStamped, [Next]_vars PROVE SamplesStamped'
  OBVIOUS
<1> USE ConstantTypes DEF TypeOK, SamplesStamped
<1>1. CASE UNCHANGED vars
  BY <1>1 DEF vars, workVars, loopVars
<1>2. CASE Submit \/ Admit \/ Release \/ Finish
  BY <1>2 DEF Submit, Admit, Release, Finish, loopVars
<1>3. CASE StampAdmission \/ StampRelease
  BY <1>3 DEF StampAdmission, StampRelease, loopVars, Ages
<1>4. CASE FeedVictim
  <2>1. /\ UNCHANGED <<xfer, idleAge, epc, seen>>
        /\ \A s \in samples' : s \in samples \/ s.loaded = (xfer = "moving")
    BY <1>4 DEF FeedVictim, workVars, loopVars
  <2> QED
    BY <2>1
<1>5. CASE Tick
  <2>1. ASSUME xfer' # "moving", NEW s \in samples, s.age < Epoch, s.loaded
        PROVE  s.age + 1 >= Older(idleAge)
    BY <1>5, <2>1 DEF Tick, workVars, Older, Ages
  <2>2. ASSUME xfer' # "moving", NEW q \in samples', q.loaded PROVE q.age >= idleAge'
    <3>1. PICK s \in samples : s.age < Epoch /\ q = [s EXCEPT !.age = s.age + 1]
      BY <1>5 DEF Tick
    <3>2. q.loaded = s.loaded /\ q.age = s.age + 1
      BY <3>1
    <3> QED
      BY <1>5, <2>1, <2>2, <3>1, <3>2 DEF Tick
  <2> QED
    BY <1>5, <2>2 DEF Tick
<1>6. CASE EpochThread
  BY <1>6
  DEF EpochThread, ReadLeases, ReadFeeds, ReadQuiet, Observe, Leased, NothingSeen, workVars
<1> QED
  BY <1>1, <1>2, <1>3, <1>4, <1>5, <1>6 DEF Next, Worker

(* When a pass that found no lease reads a quiet clock, no sample of the   *)
(* epoch there at that moment was taken while our traffic moved, whatever  *)
(* the worker did between the two reads.  A sample the engine reports      *)
(* after the clock is read is not spoken of: Observe may still read it.    *)
THEOREM IdleIsIdle == Spec => NoStaleIdle
<1>1. Init => SamplesStamped
  BY DEF Init, SamplesStamped
<1>2. TypeOK /\ SamplesStamped /\ [Next]_vars =>
        [epc = "quiet" /\ epc' = "observe" /\ ~seen.busy /\ seen'.quiet => ~LoadedWithin]_vars
  <2> SUFFICES ASSUME TypeOK, SamplesStamped, Next, epc = "quiet", epc' = "observe",
                      ~seen.busy, seen'.quiet
               PROVE  ~LoadedWithin
    OBVIOUS
  <2>1. ReadQuiet
    BY DEF Next, Submit, Worker, Admit, StampAdmission, StampRelease, Release, Finish,
           FeedVictim, Tick, EpochThread, ReadLeases, ReadFeeds, Observe, loopVars
  <2>2. idleAge >= Epoch
    BY <2>1 DEF ReadQuiet, TypeOK
  <2>3. xfer # "moving"
    BY <2>2, ConstantTypes DEF SamplesStamped
  <2> QED
    BY <2>2, <2>3, ConstantTypes DEF SamplesStamped, LoadedWithin, TypeOK, Ages
<1> QED
  BY <1>1, <1>2, TypeInit, TypeNext, StampedNext, PTL DEF Spec, NoStaleIdle
=============================================================================
